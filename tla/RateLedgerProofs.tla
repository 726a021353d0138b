--------------------------- MODULE RateLedgerProofs ---------------------------
(***************************************************************************)
(* Theorems about RateLedger for every number of workers, requests, callers*)
(* and entries, all limits and any number of worker deaths.                *)
(*                                                                         *)
(* A worker may die between any two stores, so the inductive invariant     *)
(* LInv says what holds after each one of them: what the ledger keeps for  *)
(* a caller at every moment (KeyInv), and what the worker inside the       *)
(* critical section has found out so far (SectionInv).                     *)
(***************************************************************************)
EXTENDS RateLedger, OrderLemmas

-----------------------------------------------------------------------------
(* The inductive invariant                                                 *)

BeforeAdmission ==
    {"access", "lookup", "append key", "append count", "evict fields",
     "evict key", "check", "reset tokens", "reset window", "touch", "reserve",
     "admit", "deny"}

AccessLabels == BeforeAdmission \cup {"allow"}

LogLabels == {"log", "reconcile", "cooldown", "return", "logged"}

AtEntry == {"check", "reset tokens", "reset window", "touch", "reserve",
            "admit"}

Resetting == {"reset tokens", "reset window"}

Creating == {"append key", "append count", "evict fields", "evict key"}

\* A handler works on a request of its own, and no other worker does.
ReqInv ==
    \A w \in Workers :
        /\ pc[w] \in AccessLabels \cup LogLabels =>
              req[w] \in Requests /\ owner[req[w]] = w
        /\ pc[w] \in AccessLabels => status[req[w]] = "handling"
        /\ pc[w] \in LogLabels => status[req[w]] = "logging"

\* What a request is charged and which window it is counted in, by progress.
ChargeInv ==
    /\ \A r \in Requests :
        /\ status[r] = "new" =>
              window[r] = -1 /\ charge[r] = 0 /\ reservation[r] = 0
        /\ status[r] \in {"handling", "admitted"} => charge[r] = reservation[r]
    /\ \A w \in Workers :
        /\ pc[w] \in BeforeAdmission => window[req[w]] = -1
        /\ pc[w] \in BeforeAdmission \ {"admit"} => charge[req[w]] = 0
        /\ pc[w] \in {"log", "reconcile"} =>
              charge[req[w]] = reservation[req[w]]

Placed == {r \in Requests : window[r] # -1}

\* Only requests with a window are counted, each by its own key.
CountedInv ==
    /\ IsFiniteSet(Placed)
    /\ \A k \in Keys : counted[k] \subseteq {r \in Placed : KeyOf[r] = k}

\* The ledger has no trace of a key without an entry.
NoTrace(k) ==
    /\ cooled[k] = 0 /\ counted[k] = {} /\ crossed[k] = {}
    /\ \A m \in Minutes : <<k, m>> \notin forgotten => Win(k, m) = {}

IsReset(k) == \E w \in Workers : pc[w] \in Resetting /\ Key(w) = k

\* The cooldown, the slots and the tokens that the entry of a key has to keep.
CountsInv(k, i) ==
    /\ entries[i].cooldown_until >= cooled[k]
    /\ "slots" \notin crossed[k] => entries[i].req_count = Cardinality(counted[k])
    /\ "tokens" \notin crossed[k] => entries[i].token_count >= ChargeOf(counted[k])

\* The windows of its requests: none after the entry's own, and in that one
\* the entry still counts every request that keeps a slot.
WindowsInv(k, i) ==
    /\ \A r \in counted[k] : window[r] = entries[i].window_minute
    /\ \A m \in Minutes :
        m > entries[i].window_minute /\ <<k, m>> \notin forgotten =>
            Win(k, m) = {}
    /\ <<k, entries[i].window_minute>> \notin forgotten =>
        /\ ~IsReset(k) => Win(k, entries[i].window_minute) \subseteq counted[k]
        /\ "slots" \notin crossed[k]

EntryInv(k, i) == CountsInv(k, i) /\ WindowsInv(k, i)

BudgetInv(k) ==
    \A m \in Minutes :
        <<k, m>> \notin forgotten => Cardinality(Win(k, m)) <= RequestLimit

KeyInv(k) ==
    /\ \A i, j \in EntriesOf(k) : i = j
    /\ EntriesOf(k) = {} => NoTrace(k)
    /\ \A i \in EntriesOf(k) : EntryInv(k, i)
    /\ BudgetInv(k)

\* A new entry is not found before its key and the count are stored, and
\* counts nothing when it is.
CreateInv(w) ==
    /\ pc[w] \in Creating => EntriesOf(Key(w)) = {} /\ slot[w] \in Indices
    /\ pc[w] \in {"append key", "append count"} => slot[w] = entry_count + 1
    /\ pc[w] = "append count" => entries[slot[w]].key_hash = Key(w)
    /\ pc[w] \in {"evict fields", "evict key"} =>
          /\ entry_count = EntriesPerStripe
          /\ entries[slot[w]].key_hash = None
    /\ pc[w] \in {"append key", "append count", "evict key"} =>
          entries[slot[w]].req_count = 0

\* What checkAndConsume knows of its entry at each of its stores.
ConsumeInv(w) ==
    /\ pc[w] \in AtEntry => slot[w] \in EntriesOf(Key(w))
    /\ pc[w] \in (AtEntry \ {"check"}) \cup {"allow"} => now[w] >= cooled[Key(w)]
    /\ pc[w] \in Resetting =>
          /\ counted[Key(w)] = {} /\ crossed[Key(w)] = {}
          /\ entries[slot[w]].req_count = 0
          /\ now[w] > entries[slot[w]].window_minute
    /\ pc[w] \in {"reserve", "admit"} =>
          entries[slot[w]].req_count < RequestLimit
    /\ pc[w] = "reserve" => WithinTokens(entries[slot[w]])
    /\ pc[w] = "admit" =>
          /\ TokenLimit > 0 => entries[slot[w]].token_count <= TokenLimit
          /\ "tokens" \notin crossed[Key(w)] =>
                entries[slot[w]].token_count >=
                    ChargeOf(counted[Key(w)]) + charge[req[w]]

SectionInv == \A w \in Workers : CreateInv(w) /\ ConsumeInv(w)

LInv ==
    /\ TypeOK
    /\ ReqInv
    /\ ChargeInv
    /\ CountedInv
    /\ \A k \in Keys : KeyInv(k)
    /\ SectionInv


-----------------------------------------------------------------------------
(* Lemmas about the operators of the model                                 *)

\* An entry is the least recently used one.
LEMMA OldestIsEntry ==
    ASSUME TypeOK
    PROVE  Oldest \in Indices
  <1> DEFINE used == {entries[i].last_used : i \in Indices}
             least == {i \in Indices :
                        \A j \in Indices : entries[i].last_used <= entries[j].last_used}
  <1>1. \A i \in Indices : entries[i].last_used \in Nat
    BY LedgerAssumption DEF TypeOK, EntryType, Minutes
  <1>2. used \in SUBSET Nat /\ used # {}
    BY <1>1, LedgerAssumption DEF Indices
  <1>3. PICK m \in used : \A n \in used : m <= n
    BY <1>2, SmallestExists
  <1>4. least \in SUBSET Nat /\ least # {}
    BY <1>3, LedgerAssumption DEF Indices
  <1>5. Oldest \in least
    BY <1>4, MinIsLeast DEF Oldest
  <1> QED
    BY <1>5

\* A key's only entry is the one that findEntry returns.
LEMMA FindEntryFinds ==
    ASSUME TypeOK, NEW k \in Keys, NEW i \in EntriesOf(k),
           \A j \in EntriesOf(k) : j = i
    PROVE  /\ FindEntry(k) = i /\ i \in Indices
           /\ EntriesOf(k) = {i}
  <1>1. EntriesOf(k) = {i}
    OBVIOUS
  <1>2. i \in Indices
    BY LedgerAssumption DEF EntriesOf, Prefix, Indices, TypeOK
  <1> QED
    BY <1>1, <1>2, MinOfOne DEF FindEntry, Indices

LEMMA TokensSame ==
    ASSUME NEW c, NEW d, NEW S, \A r \in S : c[r] = d[r]
    PROVE  Tokens(c, S) = Tokens(d, S)
  <1>1. \A r \in S : {r} \X (1..c[r]) = {r} \X (1..d[r])
    OBVIOUS
  <1>2. {{r} \X (1..c[r]) : r \in S} = {{r} \X (1..d[r]) : r \in S}
    BY <1>1, Zenon
  <1> QED
    BY <1>2 DEF Tokens

LEMMA TokensFinite ==
    ASSUME NEW c, NEW S, IsFiniteSet(S), \A r \in S : c[r] \in Nat
    PROVE  IsFiniteSet(Tokens(c, S)) /\ Cardinality(Tokens(c, S)) \in Nat
  <1> DEFINE T == {{r} \X (1..c[r]) : r \in S}
             f == [r \in S |-> {r} \X (1..c[r])]
  <1>1. ASSUME NEW r \in S PROVE IsFiniteSet({r} \X (1..c[r]))
    <2>1. IsFiniteSet({r})
      BY FS_Singleton
    <2>2. IsFiniteSet(1..c[r])
      <3>1. 1 \in Int /\ c[r] \in Int
        OBVIOUS
      <3> QED
        BY <3>1, FS_Interval
    <2> QED
      BY <2>1, <2>2, FS_Product
  <1>2. f \in Surjection(S, T)
    BY DEF Surjection
  <1>3. IsFiniteSet(T)
    BY <1>2, FS_Surjection
  <1>4. \A t \in T : IsFiniteSet(t)
    BY <1>1
  <1>5. IsFiniteSet(UNION T)
    BY <1>3, <1>4, FS_UNION
  <1> QED
    BY <1>5, FS_CardinalityType DEF Tokens

LEMMA TokensAdd ==
    ASSUME NEW c, NEW S, IsFiniteSet(S), \A r \in S : c[r] \in Nat,
           NEW x, x \notin S, c[x] \in Nat
    PROVE  Cardinality(Tokens(c, S \cup {x})) =
               Cardinality(Tokens(c, S)) + c[x]
  <1> DEFINE own == {x} \X (1..c[x])
  <1>1. IsFiniteSet(Tokens(c, S)) /\ Cardinality(Tokens(c, S)) \in Nat
    BY TokensFinite
  <1>2. IsFiniteSet(own) /\ Cardinality(own) = c[x]
    <2>1. IsFiniteSet({x}) /\ Cardinality({x}) = 1
      BY FS_Singleton
    <2>2. IsFiniteSet(1..c[x]) /\ Cardinality(1..c[x]) = c[x]
      <3>1. 1 \in Int /\ c[x] \in Int
        OBVIOUS
      <3> QED
        BY <3>1, FS_Interval
    <2>3. IsFiniteSet(own) /\ Cardinality(own) = 1 * c[x]
      BY <2>1, <2>2, FS_Product
    <2> QED
      BY <2>3
  <1>3. Tokens(c, S \cup {x}) = Tokens(c, S) \cup own
    BY DEF Tokens
  <1>4. Tokens(c, S) \cap own = {}
    BY DEF Tokens
  <1> HIDE DEF own
  <1>5. Cardinality(Tokens(c, S) \cup own) =
            Cardinality(Tokens(c, S)) + Cardinality(own) - Cardinality({})
    BY <1>1, <1>2, <1>4, FS_Union
  <1>6. Cardinality({}) = 0
    BY FS_EmptySet
  <1>7. Cardinality(Tokens(c, S \cup {x})) =
            Cardinality(Tokens(c, S)) + c[x] - 0
    BY <1>2, <1>3, <1>5, <1>6, Zenon
  <1> QED
    BY <1>1, <1>7

LEMMA TokensOfNone ==
    ASSUME NEW c
    PROVE  Cardinality(Tokens(c, {})) = 0
  <1>1. Tokens(c, {}) = {}
    BY DEF Tokens
  <1> QED
    BY <1>1, FS_EmptySet


-----------------------------------------------------------------------------
(* The workers                                                             *)

\* The labels at which a worker holds the mutex.
SectionLabels == Labels \ {"idle", "dead", "access", "log"}

LEMMA SectionIsMutex ==
    ASSUME TypeOK, NEW w \in Workers, pc[w] \in SectionLabels
    PROVE  /\ mutex = w
           /\ \A v \in Workers \ {w} : pc[v] \in {"idle", "dead", "access", "log"}
  BY DEF TypeOK, SectionLabels, Labels

\* A worker works on a request of a caller.
LEMMA KeyOfWorker ==
    ASSUME LInv, NEW w \in Workers, pc[w] \in SectionLabels
    PROVE  req[w] \in Requests /\ Key(w) \in Keys
  <1>1. pc[w] \in AccessLabels \cup LogLabels
    BY DEF SectionLabels, Labels, AccessLabels, LogLabels, BeforeAdmission
  <1> QED
    BY <1>1, LedgerAssumption DEF LInv, ReqInv, Key

\* At its entry, a worker holds the index of the only entry of its caller.
LEMMA AtEntrySlot ==
    ASSUME LInv, NEW w \in Workers, pc[w] \in AtEntry
    PROVE  /\ slot[w] \in Indices /\ slot[w] \in EntriesOf(Key(w))
           /\ EntriesOf(Key(w)) = {slot[w]}
           /\ EntryInv(Key(w), slot[w])
           /\ entries[slot[w]] \in EntryType
           /\ entries[slot[w]].key_hash = Key(w)
  <1>1. Key(w) \in Keys
    BY KeyOfWorker DEF SectionLabels, Labels, AtEntry
  <1>2. slot[w] \in EntriesOf(Key(w))
    BY DEF LInv, SectionInv, ConsumeInv
  <1>3. KeyInv(Key(w))
    BY <1>1 DEF LInv
  <1>4. slot[w] \in Indices
    BY <1>2, LedgerAssumption DEF EntriesOf, Prefix, Indices, LInv, TypeOK
  <1> QED
    BY <1>2, <1>3, <1>4 DEF KeyInv, LInv, TypeOK, EntriesOf

\* A caller with an entry has the one that findEntry returns.
LEMMA FoundEntry ==
    ASSUME LInv, NEW k \in Keys, EntriesOf(k) # {}
    PROVE  /\ FindEntry(k) \in Indices /\ EntriesOf(k) = {FindEntry(k)}
           /\ FindEntry(k) \in 1..entry_count
           /\ EntryInv(k, FindEntry(k))
           /\ entries[FindEntry(k)] \in EntryType
           /\ entries[FindEntry(k)].key_hash = k
  <1>1. PICK i \in EntriesOf(k) : \A j \in EntriesOf(k) : j = i
    BY DEF LInv, KeyInv
  <1>2. FindEntry(k) = i /\ i \in Indices /\ EntriesOf(k) = {i}
    BY <1>1, FindEntryFinds DEF LInv
  <1>3. EntryInv(k, i)
    BY <1>1 DEF LInv, KeyInv
  <1> QED
    BY <1>1, <1>2, <1>3 DEF LInv, TypeOK, EntriesOf, Prefix

-----------------------------------------------------------------------------
(* Frames: what a store leaves as it was                                   *)

LedgerType ==
    /\ entries \in [Indices -> EntryType]
    /\ entry_count \in 0..EntriesPerStripe
    /\ slot \in [Workers -> 0..EntriesPerStripe]
    /\ window \in [Requests -> Minutes \cup {-1}]
    /\ reservation \in [Requests -> Nat]
    /\ counted \in [Keys -> SUBSET Requests]
    /\ charge \in [Requests -> Nat]
    /\ crossed \in [Keys -> SUBSET {"slots", "tokens"}]
    /\ cooled \in [Keys -> Nat]
    /\ forgotten \subseteq Keys \X Minutes

LEMMA CountType ==
    ASSUME LedgerType
    PROVE  entry_count \in Nat /\ entry_count <= EntriesPerStripe
  <1>1. entry_count \in 0..EntriesPerStripe
    BY DEF LedgerType
  <1>2. EntriesPerStripe \in Nat
    BY LedgerAssumption
  <1> QED
    BY <1>1, <1>2

\* What one step of the critical section changes at most.
Moves(w, label) ==
    /\ pc[w] \in SectionLabels /\ label \in SectionLabels
    /\ pc[w] \in AccessLabels <=> label \in AccessLabels
    /\ pc' = [pc EXCEPT ![w] = label]
    /\ UNCHANGED <<mutex, minute, req, now, job, status, owner, crashes>>

\* The parts of the invariant that a step of the critical section may break.
LEMMA SectionStep ==
    ASSUME LInv, NEW w \in Workers, NEW label, Moves(w, label),
           LedgerType', ChargeInv', CountedInv',
           \A k \in Keys : KeyInv(k)', CreateInv(w)', ConsumeInv(w)'
    PROVE  LInv'
  <1>1. TypeOK'
    <2>1. TypeOK
      BY DEF LInv
    <2>2. pc' \in [Workers -> Labels] /\ mutex = w
      BY <2>1, SectionIsMutex DEF Moves, TypeOK, SectionLabels
    <2>3. \A v \in Workers :
            /\ pc'[v] \notin {"idle", "dead", "access", "log"} => mutex' = v
            /\ mutex' = v => pc'[v] \notin {"idle", "access", "log"}
      BY <2>1, <2>2, SectionIsMutex DEF Moves, TypeOK, SectionLabels
    <2> QED
      BY <2>1, <2>2, <2>3 DEF Moves, TypeOK, LedgerType
  <1>2. ReqInv'
    <2>1. /\ pc[w] \in AccessLabels => label \in AccessLabels
          /\ pc[w] \in LogLabels => label \in LogLabels
          /\ pc[w] \in AccessLabels \cup LogLabels
          /\ label \in AccessLabels => pc[w] \in AccessLabels
          /\ label \in LogLabels => pc[w] \in LogLabels
      BY DEF Moves, SectionLabels, Labels, AccessLabels, LogLabels,
             BeforeAdmission
    <2> QED
      BY <2>1 DEF Moves, LInv, ReqInv, TypeOK
  <1>3. SectionInv'
    <2> SUFFICES ASSUME NEW v \in Workers, v # w
                 PROVE  CreateInv(v)' /\ ConsumeInv(v)'
      BY DEF SectionInv
    <2>1. pc'[v] \in {"idle", "dead", "access", "log"}
      BY SectionIsMutex DEF Moves, LInv, TypeOK
    <2> QED
      BY <2>1 DEF CreateInv, ConsumeInv, Creating, AtEntry, Resetting
  <1> QED
    BY <1>1, <1>2, <1>3 DEF LInv

\* A request is charged and counted as before.
LEMMA SameRequests ==
    ASSUME LInv, NEW w \in Workers, NEW label, Moves(w, label),
           UNCHANGED <<window, reservation, charge>>,
           \A k \in Keys : counted'[k] \subseteq counted[k],
           label \in BeforeAdmission => pc[w] \in BeforeAdmission \ {"admit"},
           label # "reconcile"
    PROVE  ChargeInv' /\ CountedInv'
  <1>1. ChargeInv'
    <2>1. label \notin {"log", "reconcile"}
      BY DEF Moves, SectionLabels
    <2> QED
      BY <2>1 DEF Moves, LInv, ChargeInv, TypeOK
  <1>2. CountedInv'
    BY DEF LInv, CountedInv, Placed
  <1> QED
    BY <1>1, <1>2

\* Nothing that the ledger keeps for key k changes.
SameKey(k) ==
    /\ EntriesOf(k)' = EntriesOf(k)
    /\ \A i \in EntriesOf(k) :
        /\ entries'[i].req_count = entries[i].req_count
        /\ entries'[i].token_count = entries[i].token_count
        /\ entries'[i].window_minute = entries[i].window_minute
        /\ entries'[i].cooldown_until = entries[i].cooldown_until
    /\ counted'[k] = counted[k] /\ crossed'[k] = crossed[k]
    /\ cooled'[k] = cooled[k]
    /\ \A r \in Requests : KeyOf[r] = k => window'[r] = window[r]
    /\ \A r \in counted[k] : charge'[r] = charge[r]
    /\ \A m \in Minutes : <<k, m>> \in forgotten => <<k, m>> \in forgotten'
    /\ IsReset(k) => IsReset(k)'

\* The entry keeps its window and the requests it counts in it.
LEMMA SameWindows ==
    ASSUME NEW k \in Keys, NEW s, WindowsInv(k, s), CountedInv,
           entries[s].window_minute \in Minutes,
           entries'[s].window_minute = entries[s].window_minute,
           counted'[k] = counted[k],
           \A r \in Requests : KeyOf[r] = k => window'[r] = window[r],
           \A m \in Minutes : <<k, m>> \in forgotten => <<k, m>> \in forgotten',
           IsReset(k) => IsReset(k)',
           "slots" \in crossed'[k] => "slots" \in crossed[k]
    PROVE  WindowsInv(k, s)'
  <1> DEFINE m == entries[s].window_minute
  <1>1. \A n : Win(k, n)' = Win(k, n)
    BY DEF Win
  <1>2. \A r \in counted[k] : window'[r] = window[r]
    BY DEF CountedInv, Placed
  <1>3. \A r \in counted'[k] : window'[r] = m
    BY <1>2 DEF WindowsInv
  <1>4. \A n \in Minutes : n > m /\ <<k, n>> \notin forgotten' => Win(k, n)' = {}
    BY <1>1 DEF WindowsInv
  <1>5. <<k, m>> \notin forgotten' =>
          /\ ~IsReset(k)' => Win(k, m)' \subseteq counted'[k]
          /\ "slots" \notin crossed'[k]
    BY <1>1 DEF WindowsInv
  <1>6. m' = m
    OBVIOUS
  <1> QED
    BY <1>3, <1>4, <1>5, <1>6 DEF WindowsInv

LEMMA SameBudget ==
    ASSUME NEW k \in Keys, BudgetInv(k),
           \A r \in Requests : KeyOf[r] = k => window'[r] = window[r],
           \A m \in Minutes : <<k, m>> \in forgotten => <<k, m>> \in forgotten'
    PROVE  BudgetInv(k)'
  <1>1. \A n : Win(k, n)' = Win(k, n)
    BY DEF Win
  <1> QED
    BY <1>1 DEF BudgetInv

LEMMA SameKeyKeeps ==
    ASSUME NEW k \in Keys, LedgerType, CountedInv, KeyInv(k), SameKey(k)
    PROVE  KeyInv(k)'
  <1>1. \A m : Win(k, m)' = Win(k, m)
    BY DEF SameKey, Win
  <1>2. ChargeOf(counted[k])' = ChargeOf(counted[k])
    BY TokensSame DEF SameKey, ChargeOf
  <1>3. ASSUME NEW i \in EntriesOf(k) PROVE EntryInv(k, i)'
    <2>1. EntryInv(k, i) /\ i \in Indices /\ entries[i].window_minute \in Minutes
      BY LedgerAssumption DEF KeyInv, LedgerType, EntryType, EntriesOf, Prefix,
            Indices
    <2>2. CountsInv(k, i)'
      BY <1>2, <2>1 DEF EntryInv, CountsInv, SameKey
    <2>3. WindowsInv(k, i)'
      BY <2>1, SameWindows DEF EntryInv, SameKey
    <2> QED
      BY <2>2, <2>3 DEF EntryInv
  <1>4. BudgetInv(k)'
    BY SameBudget DEF KeyInv, SameKey
  <1>5. NoTrace(k) => NoTrace(k)'
    BY <1>1 DEF NoTrace, SameKey
  <1> QED
    BY <1>3, <1>4, <1>5 DEF KeyInv, SameKey

\* The worker in the critical section is the only one that can be resetting.
LEMMA ResetIsMine ==
    ASSUME TypeOK, NEW w \in Workers, pc[w] \in SectionLabels, NEW k
    PROVE  IsReset(k) <=> pc[w] \in Resetting /\ Key(w) = k
  BY SectionIsMutex DEF IsReset, Resetting

LEMMA ResetIsMineNext ==
    ASSUME TypeOK, NEW w \in Workers, NEW label, Moves(w, label), NEW k
    PROVE  IsReset(k)' <=> label \in Resetting /\ Key(w) = k
  <1>1. \A v \in Workers \ {w} : pc'[v] \notin Resetting
    BY SectionIsMutex DEF Moves, Resetting, TypeOK
  <1>2. pc'[w] = label /\ Key(w)' = Key(w)
    BY DEF Moves, TypeOK, Key
  <1> QED
    BY <1>1, <1>2 DEF IsReset

\* A step of the critical section of one caller's request leaves what the
\* ledger keeps for the others.
LEMMA OthersKeep ==
    ASSUME LInv, NEW w \in Workers, pc[w] \in SectionLabels,
           NEW k \in Keys, k # Key(w),
           EntriesOf(k)' = EntriesOf(k),
           \A i \in EntriesOf(k) : entries'[i] = entries[i],
           counted'[k] = counted[k], crossed'[k] = crossed[k],
           cooled'[k] = cooled[k], forgotten \subseteq forgotten',
           \A r \in Requests \ {req[w]} :
               window'[r] = window[r] /\ charge'[r] = charge[r]
    PROVE  KeyInv(k)'
  <1>1. LedgerType /\ CountedInv /\ KeyInv(k)
    BY DEF LInv, TypeOK, LedgerType
  <1>2. ~IsReset(k)
    BY ResetIsMine DEF LInv
  <1>3. \A r \in Requests : KeyOf[r] = k => r # req[w]
    BY DEF Key
  <1>4. \A r \in counted[k] : r \in Requests /\ KeyOf[r] = k
    BY DEF LInv, CountedInv, Placed
  <1>5. SameKey(k)
    BY <1>2, <1>3, <1>4 DEF SameKey
  <1> QED
    BY <1>1, <1>5, SameKeyKeeps

\* A store to an entry that is neither before nor after it the one of key k.
LEMMA StoreElsewhere ==
    ASSUME LedgerType, NEW s \in Indices, NEW e,
           entries' = [entries EXCEPT ![s] = e], entry_count' = entry_count,
           NEW k, s \notin EntriesOf(k), e.key_hash # k \/ s > entry_count
    PROVE  /\ EntriesOf(k)' = EntriesOf(k)
           /\ \A i \in EntriesOf(k) : entries'[i] = entries[i]
  <1>1. Prefix' = Prefix /\ Prefix \subseteq Indices
    BY LedgerAssumption DEF Prefix, Indices, LedgerType
  <1>2. \A i \in Indices : entries'[i] = IF i = s THEN e ELSE entries[i]
    BY DEF LedgerType
  <1>3. s > entry_count => s \notin Prefix
    BY DEF Prefix, Indices, LedgerType
  <1> QED
    BY <1>1, <1>2, <1>3 DEF EntriesOf

\* A store to an entry that does not change its key.
LEMMA StoreSameKey ==
    ASSUME LedgerType, NEW s \in Indices, NEW e,
           entries' = [entries EXCEPT ![s] = e], entry_count' = entry_count,
           e.key_hash = entries[s].key_hash, NEW k
    PROVE  EntriesOf(k)' = EntriesOf(k)
  <1>1. Prefix' = Prefix /\ Prefix \subseteq Indices
    BY LedgerAssumption DEF Prefix, Indices, LedgerType
  <1>2. \A i \in Indices : entries'[i].key_hash = entries[i].key_hash
    BY DEF LedgerType
  <1> QED
    BY <1>1, <1>2 DEF EntriesOf

\* A step that stores nothing in the ledger.
LEMMA LedgerUntouched ==
    ASSUME LInv, NEW k \in Keys,
           UNCHANGED <<entries, entry_count, window, counted, charge, crossed,
                       cooled>>,
           forgotten \subseteq forgotten', IsReset(k) => IsReset(k)'
    PROVE  KeyInv(k)'
  <1>1. LedgerType /\ CountedInv /\ KeyInv(k)
    BY DEF LInv, TypeOK, LedgerType
  <1>2. EntriesOf(k)' = EntriesOf(k)
    BY DEF EntriesOf, Prefix
  <1>3. SameKey(k)
    BY <1>2 DEF SameKey
  <1> QED
    BY <1>1, <1>3, SameKeyKeeps

LEMMA Moved ==
    ASSUME TypeOK, NEW w \in Workers, NEW label, Moves(w, label)
    PROVE  /\ pc'[w] = label /\ Key(w)' = Key(w)
           /\ req'[w] = req[w] /\ now'[w] = now[w]
  BY DEF Moves, TypeOK, Key

-----------------------------------------------------------------------------
(* getOrCreateEntry() keeps the invariant, store by store                  *)

LEMMA LookupHitStep ==
    ASSUME LInv, NEW w \in Workers, LookupHit(w)
    PROVE  LInv'
  <1>1. /\ Moves(w, "check") /\ pc[w] = "lookup"
        /\ EntriesOf(Key(w)) # {}
        /\ slot' = [slot EXCEPT ![w] = FindEntry(Key(w))]
        /\ UNCHANGED <<entries, entry_count, window, reservation, counted,
                       charge, crossed, cooled, forgotten>>
    BY DEF LookupHit, InSection, Goto, SectionFrame, ghosts, Moves,
           SectionLabels, Labels, AccessLabels, BeforeAdmission
  <1>2. /\ pc'[w] = "check" /\ Key(w)' = Key(w) /\ Key(w) \in Keys
        /\ LedgerType
    BY <1>1, Moved, KeyOfWorker DEF LInv, TypeOK, LedgerType, Moves
  <1>3. FindEntry(Key(w)) \in Indices /\ FindEntry(Key(w)) \in EntriesOf(Key(w))
    BY <1>1, <1>2, FoundEntry
  <1>4. LedgerType'
    BY <1>1, <1>2, <1>3 DEF LedgerType, Indices
  <1>5. ChargeInv' /\ CountedInv'
    BY <1>1, SameRequests DEF BeforeAdmission
  <1>6. \A k \in Keys : KeyInv(k)'
    BY <1>1, LedgerUntouched, ResetIsMine DEF LInv, Resetting, Moves
  <1>7. slot'[w] \in EntriesOf(Key(w))'
    BY <1>1, <1>2, <1>3 DEF EntriesOf, Prefix, LedgerType
  <1>8. CreateInv(w)' /\ ConsumeInv(w)'
    BY <1>2, <1>7 DEF CreateInv, ConsumeInv, Creating, AtEntry, Resetting
  <1> QED
    BY <1>1, <1>4, <1>5, <1>6, <1>8, SectionStep

LEMMA LookupAppendStep ==
    ASSUME LInv, NEW w \in Workers, LookupAppend(w)
    PROVE  LInv'
  <1> DEFINE fresh == [EmptyEntry EXCEPT !.window_minute = now[w],
                                         !.last_used = now[w]]
  <1>1. /\ Moves(w, "append key") /\ pc[w] = "lookup"
        /\ EntriesOf(Key(w)) = {} /\ entry_count < EntriesPerStripe
        /\ slot' = [slot EXCEPT ![w] = entry_count + 1]
        /\ entries' = [entries EXCEPT ![entry_count + 1] = fresh]
        /\ UNCHANGED <<entry_count, window, reservation, counted,
                       charge, crossed, cooled, forgotten>>
    BY DEF LookupAppend, InSection, Goto, SectionFrame, ghosts, Moves,
           SectionLabels, Labels, AccessLabels, BeforeAdmission
  <1>2. /\ pc'[w] = "append key" /\ Key(w)' = Key(w) /\ Key(w) \in Keys
        /\ LedgerType /\ now[w] \in Minutes
    BY <1>1, Moved, KeyOfWorker DEF LInv, TypeOK, LedgerType, Moves
  <1>3. /\ entry_count + 1 \in Indices /\ entry_count \in Nat
        /\ entry_count + 1 \in 0..EntriesPerStripe
    <2>1. entry_count \in 0..EntriesPerStripe /\ entry_count < EntriesPerStripe
      BY <1>1, <1>2 DEF LedgerType
    <2>2. EntriesPerStripe \in Nat
      BY LedgerAssumption
    <2> QED
      BY <2>1, <2>2 DEF Indices
  <1>4. fresh \in EntryType /\ fresh.key_hash = None /\ fresh.req_count = 0
    BY <1>2, LedgerAssumption DEF EmptyEntry, EntryType, Minutes
  <1> HIDE DEF fresh
  <1>5. LedgerType'
    BY <1>1, <1>2, <1>3, <1>4 DEF LedgerType
  <1>6. ChargeInv' /\ CountedInv'
    BY <1>1, SameRequests DEF BeforeAdmission
  <1>7. ASSUME NEW k \in Keys
        PROVE  /\ EntriesOf(k)' = EntriesOf(k)
               /\ \A i \in EntriesOf(k) : entries'[i] = entries[i]
    <2>1. entry_count + 1 > entry_count
      BY <1>3
    <2>2. entry_count + 1 \notin EntriesOf(k)
      BY <1>3 DEF EntriesOf, Prefix
    <2> QED
      BY <1>1, <1>2, <1>3, <2>1, <2>2, StoreElsewhere
  <1>8. ASSUME NEW k \in Keys PROVE KeyInv(k)'
    <2>1. SameKey(k)
      BY <1>1, <1>7, ResetIsMine DEF SameKey, LInv, Resetting, Moves
    <2> QED
      BY <1>2, <2>1, SameKeyKeeps DEF LInv
  <1>9. /\ EntriesOf(Key(w))' = {} /\ slot'[w] = entry_count' + 1
        /\ slot'[w] \in Indices /\ entries'[slot'[w]].req_count = 0
    BY <1>1, <1>2, <1>3, <1>4, <1>7 DEF LedgerType
  <1>10. CreateInv(w)' /\ ConsumeInv(w)'
    BY <1>2, <1>9 DEF CreateInv, ConsumeInv, Creating, AtEntry, Resetting
  <1> QED
    BY <1>1, <1>5, <1>6, <1>8, <1>10, SectionStep

LEMMA AppendKeyStep ==
    ASSUME LInv, NEW w \in Workers, AppendKey(w)
    PROVE  LInv'
  <1> DEFINE named == [entries[slot[w]] EXCEPT !.key_hash = Key(w)]
  <1>1. /\ Moves(w, "append count") /\ pc[w] = "append key"
        /\ entries' = [entries EXCEPT ![slot[w]] = named]
        /\ UNCHANGED <<entry_count, slot, window, reservation, counted,
                       charge, crossed, cooled, forgotten>>
    BY DEF AppendKey, InSection, Goto, SectionFrame, ghosts, Moves,
           SectionLabels, Labels, AccessLabels, BeforeAdmission
  <1>2. /\ pc'[w] = "append count" /\ Key(w)' = Key(w) /\ Key(w) \in Keys
        /\ LedgerType
    BY <1>1, Moved, KeyOfWorker DEF LInv, TypeOK, LedgerType, Moves
  <1>3. /\ EntriesOf(Key(w)) = {} /\ slot[w] \in Indices
        /\ slot[w] = entry_count + 1 /\ entries[slot[w]].req_count = 0
    BY <1>1 DEF LInv, SectionInv, CreateInv, Creating
  <1> entry_count \in Nat
    BY <1>2, CountType
  <1>4. named \in EntryType /\ named.key_hash = Key(w) /\ named.req_count = 0
    BY <1>2, <1>3 DEF LedgerType, EntryType
  <1> HIDE DEF named
  <1>5. LedgerType'
    BY <1>1, <1>2, <1>3, <1>4 DEF LedgerType
  <1>6. ChargeInv' /\ CountedInv'
    BY <1>1, SameRequests DEF BeforeAdmission
  <1>7. ASSUME NEW k \in Keys
        PROVE  /\ EntriesOf(k)' = EntriesOf(k)
               /\ \A i \in EntriesOf(k) : entries'[i] = entries[i]
    <2>1. slot[w] > entry_count
      BY <1>3
    <2>2. slot[w] \notin EntriesOf(k)
      BY <1>3 DEF EntriesOf, Prefix
    <2> QED
      BY <1>1, <1>2, <1>3, <2>1, <2>2, StoreElsewhere
  <1>8. ASSUME NEW k \in Keys PROVE KeyInv(k)'
    <2>1. SameKey(k)
      BY <1>1, <1>7, ResetIsMine DEF SameKey, LInv, Resetting, Moves
    <2> QED
      BY <1>2, <2>1, SameKeyKeeps DEF LInv
  <1>9. /\ EntriesOf(Key(w))' = {} /\ slot'[w] = entry_count' + 1
        /\ slot'[w] \in Indices /\ entries'[slot'[w]].req_count = 0
        /\ entries'[slot'[w]].key_hash = Key(w)'
    BY <1>1, <1>2, <1>3, <1>4, <1>7 DEF LedgerType
  <1>10. CreateInv(w)' /\ ConsumeInv(w)'
    BY <1>2, <1>9 DEF CreateInv, ConsumeInv, Creating, AtEntry, Resetting
  <1> QED
    BY <1>1, <1>5, <1>6, <1>8, <1>10, SectionStep

\* A caller of whom the ledger has no trace gets an entry with no slots taken.
LEMMA NewEntry ==
    ASSUME LInv, NEW k \in Keys, EntriesOf(k) = {},
           NEW s, EntriesOf(k)' = {s}, entries'[s] \in EntryType,
           entries'[s].req_count = 0,
           UNCHANGED <<window, counted, charge, crossed, cooled, forgotten>>
    PROVE  KeyInv(k)'
  <1>1. NoTrace(k) /\ BudgetInv(k)
    BY DEF LInv, KeyInv
  <1>2. \A m : Win(k, m)' = Win(k, m)
    BY DEF Win
  <1>3. /\ entries'[s].cooldown_until \in Nat /\ entries'[s].token_count \in Nat
        /\ entries'[s].window_minute \in Minutes
    BY DEF EntryType
  <1>4. cooled'[k] = 0 /\ counted'[k] = {} /\ crossed'[k] = {}
    BY <1>1 DEF NoTrace
  <1>5. Cardinality(counted'[k]) = 0 /\ ChargeOf(counted[k])' = 0
    BY <1>4, FS_EmptySet, TokensOfNone DEF ChargeOf
  <1>6. \A m \in Minutes : <<k, m>> \notin forgotten' => Win(k, m)' = {}
    BY <1>1, <1>2 DEF NoTrace
  <1>7. EntryInv(k, s)'
    BY <1>3, <1>4, <1>5, <1>6 DEF EntryInv, CountsInv, WindowsInv
  <1>8. BudgetInv(k)'
    BY <1>1, <1>2 DEF BudgetInv
  <1> QED
    BY <1>7, <1>8 DEF KeyInv

LEMMA AppendCountStep ==
    ASSUME LInv, NEW w \in Workers, AppendCount(w)
    PROVE  LInv'
  <1>1. /\ Moves(w, "check") /\ pc[w] = "append count"
        /\ entry_count' = slot[w]
        /\ UNCHANGED <<entries, slot, window, reservation, counted,
                       charge, crossed, cooled, forgotten>>
    BY DEF AppendCount, InSection, Goto, SectionFrame, ghosts, Moves,
           SectionLabels, Labels, AccessLabels, BeforeAdmission
  <1>2. /\ pc'[w] = "check" /\ Key(w)' = Key(w) /\ Key(w) \in Keys
        /\ LedgerType
    BY <1>1, Moved, KeyOfWorker DEF LInv, TypeOK, LedgerType, Moves
  <1>3. /\ EntriesOf(Key(w)) = {} /\ slot[w] \in Indices
        /\ slot[w] = entry_count + 1 /\ entries[slot[w]].req_count = 0
        /\ entries[slot[w]].key_hash = Key(w)
    BY <1>1 DEF LInv, SectionInv, CreateInv, Creating
  <1>4. entry_count \in Nat /\ entries[slot[w]] \in EntryType
    BY <1>2, <1>3, CountType DEF LedgerType
  <1>5. LedgerType'
    BY <1>1, <1>2, <1>3 DEF LedgerType, Indices
  <1>6. ChargeInv' /\ CountedInv'
    BY <1>1, SameRequests DEF BeforeAdmission
  <1>7. Prefix' = Prefix \cup {slot[w]}
    <2>1. 1..(entry_count + 1) = (1..entry_count) \cup {entry_count + 1}
      BY <1>4
    <2> QED
      BY <1>1, <1>3, <2>1 DEF Prefix
  <1>8. ASSUME NEW k \in Keys, k # Key(w) PROVE KeyInv(k)'
    <2>1. EntriesOf(k)' = EntriesOf(k)
      BY <1>1, <1>3, <1>7, <1>8 DEF EntriesOf
    <2> QED
      BY <1>1, <1>8, <2>1, OthersKeep DEF Moves
  <1>9. EntriesOf(Key(w))' = {slot[w]}
    BY <1>1, <1>2, <1>3, <1>7 DEF EntriesOf
  <1>10. KeyInv(Key(w))'
    <2> DEFINE k == Key(w)
    <2>1. EntriesOf(k)' = {slot[w]}
      BY <1>9
    <2>2. k' = k /\ k \in Keys
      BY <1>2
    <2> HIDE DEF k
    <2> QED
      BY <1>1, <1>2, <1>3, <1>4, <1>9, NewEntry
  <1>11. CreateInv(w)' /\ ConsumeInv(w)'
    BY <1>1, <1>2, <1>9 DEF CreateInv, ConsumeInv, Creating, AtEntry, Resetting
  <1>12. \A k \in Keys : KeyInv(k)'
    BY <1>2, <1>8, <1>10
  <1> QED
    BY <1>1, <1>5, <1>6, <1>11, <1>12, SectionStep

LEMMA LookupEvictStep ==
    ASSUME LInv, NEW w \in Workers, LookupEvict(w)
    PROVE  LInv'
  <1> DEFINE withdrawn == [entries[Oldest] EXCEPT !.key_hash = None]
             victim == entries[Oldest].key_hash
             latest == entries[Oldest].window_minute
  <1>1. /\ Moves(w, "evict fields") /\ pc[w] = "lookup"
        /\ EntriesOf(Key(w)) = {} /\ entry_count = EntriesPerStripe
        /\ slot' = [slot EXCEPT ![w] = Oldest]
        /\ entries' = [entries EXCEPT ![Oldest] = withdrawn]
        /\ UNCHANGED <<entry_count, window, reservation, charge>>
    BY DEF LookupEvict, InSection, Goto, SectionFrame, ghosts, Moves,
           SectionLabels, Labels, AccessLabels, BeforeAdmission
  <1>2. victim = None => UNCHANGED <<counted, crossed, cooled, forgotten>>
    BY DEF LookupEvict, ghosts
  <1>3. victim # None =>
          /\ counted' = [counted EXCEPT ![victim] = {}]
          /\ crossed' = [crossed EXCEPT ![victim] = {}]
          /\ cooled' = [cooled EXCEPT ![victim] = 0]
          /\ forgotten' = forgotten \cup {<<victim, m>> : m \in 0..latest}
    BY DEF LookupEvict, StartsOver
  <1>4. /\ pc'[w] = "evict fields" /\ Key(w)' = Key(w) /\ Key(w) \in Keys
        /\ LedgerType
    BY <1>1, Moved, KeyOfWorker DEF LInv, TypeOK, LedgerType, Moves
  <1>5. Oldest \in Indices /\ Oldest \in 0..EntriesPerStripe
    <2>1. Oldest \in Indices
      BY OldestIsEntry DEF LInv
    <2> QED
      BY <2>1, LedgerAssumption DEF Indices
  <1>6. /\ entries[Oldest] \in EntryType /\ withdrawn \in EntryType
        /\ withdrawn.key_hash = None
        /\ victim \in Keys \cup {None} /\ latest \in Minutes
    BY <1>4, <1>5 DEF LedgerType, EntryType
  <1>7. 0..latest \subseteq Minutes /\ latest \in Nat
    BY <1>6, LedgerAssumption DEF Minutes
  <1>8. Prefix = Indices
    BY <1>1 DEF Prefix, Indices
  <1>9. victim \in Keys => victim # None /\ Oldest \in EntriesOf(victim)
    BY <1>5, <1>8, LedgerAssumption DEF EntriesOf
  <1> HIDE DEF withdrawn, victim, latest
  <1>10. LedgerType'
    <2>1. CASE victim = None
      <3>1. UNCHANGED <<counted, crossed, cooled, forgotten>>
        BY <1>2, <2>1
      <3> QED
        BY <1>1, <1>4, <1>5, <1>6, <3>1 DEF LedgerType
    <2>2. CASE victim # None
      <3>1. counted' \in [Keys -> SUBSET Requests]
        BY <1>3, <1>4, <2>2 DEF LedgerType
      <3>2. crossed' \in [Keys -> SUBSET {"slots", "tokens"}]
        BY <1>3, <1>4, <2>2 DEF LedgerType
      <3>3. cooled' \in [Keys -> Nat]
        <4>1. cooled \in [Keys -> Nat]
          BY <1>4 DEF LedgerType
        <4>2. cooled' = [cooled EXCEPT ![victim] = 0]
          BY <1>3, <2>2
        <4> QED
          BY <4>1, <4>2
      <3>4. forgotten' \subseteq Keys \X Minutes
        <4>1. victim \in Keys /\ forgotten \subseteq Keys \X Minutes
          BY <1>4, <1>6, <2>2 DEF LedgerType
        <4>2. \A m \in 0..latest : <<victim, m>> \in Keys \X Minutes
          BY <1>7, <4>1
        <4> QED
          BY <1>3, <2>2, <4>1, <4>2
      <3> QED
        BY <1>1, <1>4, <1>5, <1>6, <3>1, <3>2, <3>3, <3>4 DEF LedgerType
    <2> QED
      BY <2>1, <2>2
  <1>11. ChargeInv' /\ CountedInv'
    <2>1. \A k \in Keys : counted'[k] \subseteq counted[k]
      BY <1>2, <1>3, <1>4 DEF LedgerType
    <2> QED
      BY <1>1, <2>1, SameRequests DEF BeforeAdmission
  <1>12. ASSUME NEW k \in Keys, k # victim
         PROVE  /\ EntriesOf(k)' = EntriesOf(k) /\ KeyInv(k)'
    <2>1. Oldest \notin EntriesOf(k)
      BY <1>12 DEF EntriesOf, victim
    <2>2. withdrawn.key_hash # k
      BY <1>6, LedgerAssumption
    <2>3. /\ EntriesOf(k)' = EntriesOf(k)
          /\ \A i \in EntriesOf(k) : entries'[i] = entries[i]
      BY <1>1, <1>4, <1>5, <2>1, <2>2, StoreElsewhere
    <2>4. /\ counted'[k] = counted[k] /\ crossed'[k] = crossed[k]
          /\ cooled'[k] = cooled[k] /\ forgotten \subseteq forgotten'
      BY <1>2, <1>3, <1>4, <1>12 DEF LedgerType
    <2>5. SameKey(k)
      BY <1>1, <2>3, <2>4, ResetIsMine DEF SameKey, LInv, Resetting, Moves
    <2> QED
      BY <1>4, <2>3, <2>5, SameKeyKeeps DEF LInv
  <1>13. ASSUME NEW k \in Keys, k = victim
         PROVE  EntriesOf(k)' = {} /\ KeyInv(k)'
    <2>1. /\ counted'[k] = {} /\ crossed'[k] = {} /\ cooled'[k] = 0
          /\ \A m \in 0..latest : <<k, m>> \in forgotten'
          /\ forgotten \subseteq forgotten'
      BY <1>3, <1>4, <1>9, <1>13 DEF LedgerType
    <2>2. Oldest \in EntriesOf(k) /\ KeyInv(k)
      BY <1>9, <1>13 DEF LInv
    <2>3. \A i \in Indices : entries'[i].key_hash = k => i # Oldest /\ i \in EntriesOf(k)
      BY <1>1, <1>4, <1>5, <1>6, <1>8, <1>9, <1>13 DEF EntriesOf, LedgerType
    <2>4. EntriesOf(k)' = {}
      BY <1>1, <1>8, <2>2, <2>3 DEF KeyInv, EntriesOf, Prefix
    <2>5. \A m : Win(k, m)' = Win(k, m)
      BY <1>1 DEF Win
    <2>6. ASSUME NEW m \in Minutes, <<k, m>> \notin forgotten'
          PROVE  Win(k, m)' = {}
      <3>1. m > latest /\ <<k, m>> \notin forgotten
        BY <1>7, <2>1, <2>6, LedgerAssumption DEF Minutes
      <3>2. EntryInv(k, Oldest)
        BY <2>2 DEF KeyInv
      <3> QED
        BY <2>5, <3>1, <3>2 DEF EntryInv, WindowsInv, latest
    <2>7. NoTrace(k)'
      BY <2>1, <2>6 DEF NoTrace
    <2>8. BudgetInv(k)'
      BY <2>6, FS_EmptySet, LedgerAssumption DEF BudgetInv
    <2> QED
      BY <2>4, <2>7, <2>8 DEF KeyInv
  <1>14. \A k \in Keys : KeyInv(k)'
    BY <1>12, <1>13
  <1>15. EntriesOf(Key(w))' = {}
    <2>1. Key(w) # victim
      BY <1>1, <1>4, <1>9
    <2> QED
      BY <1>1, <1>4, <1>12, <2>1
  <1>16. /\ slot'[w] \in Indices /\ entry_count' = EntriesPerStripe
         /\ entries'[slot'[w]].key_hash = None
    BY <1>1, <1>4, <1>5, <1>6 DEF LedgerType
  <1>17. CreateInv(w)' /\ ConsumeInv(w)'
    BY <1>4, <1>15, <1>16 DEF CreateInv, ConsumeInv, Creating, AtEntry, Resetting
  <1> QED
    BY <1>1, <1>10, <1>11, <1>14, <1>17, SectionStep

LEMMA EvictFieldsStep ==
    ASSUME LInv, NEW w \in Workers, EvictFields(w)
    PROVE  LInv'
  <1> DEFINE fresh == [EmptyEntry EXCEPT !.window_minute = now[w],
                                         !.last_used = now[w]]
  <1>1. /\ Moves(w, "evict key") /\ pc[w] = "evict fields"
        /\ entries' = [entries EXCEPT ![slot[w]] = fresh]
        /\ UNCHANGED <<entry_count, slot, window, reservation, counted,
                       charge, crossed, cooled, forgotten>>
    BY DEF EvictFields, InSection, Goto, SectionFrame, ghosts, Moves,
           SectionLabels, Labels, AccessLabels, BeforeAdmission
  <1>2. /\ pc'[w] = "evict key" /\ Key(w)' = Key(w) /\ Key(w) \in Keys
        /\ LedgerType /\ now[w] \in Minutes
    BY <1>1, Moved, KeyOfWorker DEF LInv, TypeOK, LedgerType, Moves
  <1>3. /\ EntriesOf(Key(w)) = {} /\ slot[w] \in Indices
        /\ entry_count = EntriesPerStripe /\ entries[slot[w]].key_hash = None
    BY <1>1 DEF LInv, SectionInv, CreateInv, Creating
  <1>4. fresh \in EntryType /\ fresh.key_hash = None /\ fresh.req_count = 0
    BY <1>2, LedgerAssumption DEF EmptyEntry, EntryType, Minutes
  <1> HIDE DEF fresh
  <1>5. LedgerType'
    BY <1>1, <1>2, <1>3, <1>4 DEF LedgerType
  <1>6. ChargeInv' /\ CountedInv'
    BY <1>1, SameRequests DEF BeforeAdmission
  <1>7. ASSUME NEW k \in Keys
        PROVE  EntriesOf(k)' = EntriesOf(k) /\ KeyInv(k)'
    <2>1. slot[w] \notin EntriesOf(k) /\ fresh.key_hash # k
      BY <1>3, <1>4, LedgerAssumption DEF EntriesOf
    <2>2. /\ EntriesOf(k)' = EntriesOf(k)
          /\ \A i \in EntriesOf(k) : entries'[i] = entries[i]
      BY <1>1, <1>2, <1>3, <2>1, StoreElsewhere, ZenonT(30)
    <2>3. SameKey(k)
      BY <1>1, <2>2, ResetIsMine DEF SameKey, LInv, Resetting, Moves
    <2> QED
      BY <1>2, <2>2, <2>3, SameKeyKeeps DEF LInv
  <1>8. /\ EntriesOf(Key(w))' = {} /\ slot'[w] \in Indices
        /\ entry_count' = EntriesPerStripe
        /\ entries'[slot'[w]].req_count = 0
        /\ entries'[slot'[w]].key_hash = None
    BY <1>1, <1>2, <1>3, <1>4, <1>7 DEF LedgerType
  <1>9. CreateInv(w)' /\ ConsumeInv(w)'
    BY <1>2, <1>8 DEF CreateInv, ConsumeInv, Creating, AtEntry, Resetting
  <1> QED
    BY <1>1, <1>5, <1>6, <1>7, <1>9, SectionStep

LEMMA EvictKeyStep ==
    ASSUME LInv, NEW w \in Workers, EvictKey(w)
    PROVE  LInv'
  <1> DEFINE named == [entries[slot[w]] EXCEPT !.key_hash = Key(w)]
  <1>1. /\ Moves(w, "check") /\ pc[w] = "evict key"
        /\ entries' = [entries EXCEPT ![slot[w]] = named]
        /\ UNCHANGED <<entry_count, slot, window, reservation, counted,
                       charge, crossed, cooled, forgotten>>
    BY DEF EvictKey, InSection, Goto, SectionFrame, ghosts, Moves,
           SectionLabels, Labels, AccessLabels, BeforeAdmission
  <1>2. /\ pc'[w] = "check" /\ Key(w)' = Key(w) /\ Key(w) \in Keys
        /\ LedgerType
    BY <1>1, Moved, KeyOfWorker DEF LInv, TypeOK, LedgerType, Moves
  <1>3. /\ EntriesOf(Key(w)) = {} /\ slot[w] \in Indices
        /\ entry_count = EntriesPerStripe /\ entries[slot[w]].key_hash = None
        /\ entries[slot[w]].req_count = 0
    BY <1>1 DEF LInv, SectionInv, CreateInv, Creating
  <1>4. named \in EntryType /\ named.key_hash = Key(w) /\ named.req_count = 0
    BY <1>2, <1>3 DEF LedgerType, EntryType
  <1> HIDE DEF named
  <1>5. LedgerType'
    BY <1>1, <1>2, <1>3, <1>4 DEF LedgerType
  <1>6. ChargeInv' /\ CountedInv'
    BY <1>1, SameRequests DEF BeforeAdmission
  <1>7. ASSUME NEW k \in Keys, k # Key(w) PROVE KeyInv(k)'
    <2>1. slot[w] \notin EntriesOf(k)
      BY <1>3, LedgerAssumption DEF EntriesOf
    <2>2. /\ EntriesOf(k)' = EntriesOf(k)
          /\ \A i \in EntriesOf(k) : entries'[i] = entries[i]
      BY <1>1, <1>2, <1>3, <1>4, <1>7, <2>1, StoreElsewhere, ZenonT(30)
    <2> QED
      BY <1>1, <1>7, <2>2, OthersKeep DEF Moves
  <1>8. entries'[slot[w]] = named
    BY <1>1, <1>2, <1>3 DEF LedgerType
  <1>9. EntriesOf(Key(w))' = {slot[w]}
    <2>1. Prefix = Indices /\ Prefix' = Prefix
      BY <1>1, <1>3 DEF Prefix, Indices
    <2>2. \A i \in Indices : entries'[i].key_hash = Key(w) <=> i = slot[w]
      BY <1>1, <1>2, <1>3, <1>4, <1>8, <2>1 DEF LedgerType, EntriesOf
    <2> QED
      BY <1>2, <1>3, <2>1, <2>2 DEF EntriesOf
  <1>10. KeyInv(Key(w))'
    <2> DEFINE k == Key(w)
    <2>1. EntriesOf(k)' = {slot[w]}
      BY <1>9
    <2>2. k' = k /\ k \in Keys
      BY <1>2
    <2> HIDE DEF k
    <2> QED
      BY <1>1, <1>2, <1>3, <1>4, <1>8, <1>9, NewEntry
  <1>11. \A k \in Keys : KeyInv(k)'
    BY <1>2, <1>7, <1>10
  <1>12. CreateInv(w)' /\ ConsumeInv(w)'
    BY <1>1, <1>2, <1>9 DEF CreateInv, ConsumeInv, Creating, AtEntry, Resetting
  <1> QED
    BY <1>1, <1>5, <1>6, <1>11, <1>12, SectionStep

-----------------------------------------------------------------------------
(* checkAndConsume() keeps the invariant, store by store                   *)

LEMMA CheckCooldownStep ==
    ASSUME LInv, NEW w \in Workers, CheckCooldown(w)
    PROVE  LInv'
  <1>1. /\ Moves(w, "deny") /\ pc[w] = "check"
        /\ UNCHANGED <<entries, entry_count, slot, window, reservation,
                       counted, charge, crossed, cooled, forgotten>>
    BY DEF CheckCooldown, InSection, Goto, SectionFrame, ghosts, Moves,
           SectionLabels, Labels, AccessLabels, BeforeAdmission
  <1>2. pc'[w] = "deny" /\ LedgerType
    BY <1>1, Moved DEF LInv, TypeOK, LedgerType
  <1>3. LedgerType'
    BY <1>1, <1>2 DEF LedgerType
  <1>4. ChargeInv' /\ CountedInv'
    BY <1>1, SameRequests DEF BeforeAdmission
  <1>5. \A k \in Keys : KeyInv(k)'
    BY <1>1, LedgerUntouched, ResetIsMine DEF LInv, Resetting, Moves
  <1>6. CreateInv(w)' /\ ConsumeInv(w)'
    BY <1>2 DEF CreateInv, ConsumeInv, Creating, AtEntry, Resetting
  <1> QED
    BY <1>1, <1>3, <1>4, <1>5, <1>6, SectionStep

\* Past the check the cooldown of the caller is over.
LEMMA CooldownOver ==
    ASSUME LInv, NEW w \in Workers, pc[w] = "check", ~InCooldown(w)
    PROVE  now[w] >= cooled[Key(w)]
  <1>1. /\ EntryInv(Key(w), slot[w]) /\ entries[slot[w]] \in EntryType
        /\ Key(w) \in Keys
    BY AtEntrySlot, KeyOfWorker DEF AtEntry, SectionLabels, Labels
  <1>2. /\ now[w] \in Nat /\ cooled[Key(w)] \in Nat
        /\ entries[slot[w]].cooldown_until \in Nat
    BY <1>1, LedgerAssumption DEF LInv, TypeOK, EntryType, Minutes
  <1>3. entries[slot[w]].cooldown_until >= cooled[Key(w)]
    BY <1>1 DEF EntryInv, CountsInv
  <1> QED
    BY <1>2, <1>3 DEF InCooldown

LEMMA SameWindowStep ==
    ASSUME LInv, NEW w \in Workers, SameWindow(w)
    PROVE  LInv'
  <1>1. /\ Moves(w, "touch") /\ pc[w] = "check" /\ ~InCooldown(w)
        /\ UNCHANGED <<entries, entry_count, slot, window, reservation,
                       counted, charge, crossed, cooled, forgotten>>
    BY DEF SameWindow, InSection, Goto, SectionFrame, ghosts, Moves,
           SectionLabels, Labels, AccessLabels, BeforeAdmission
  <1>2. /\ pc'[w] = "touch" /\ Key(w)' = Key(w) /\ now'[w] = now[w]
        /\ LedgerType
    BY <1>1, Moved DEF LInv, TypeOK, LedgerType
  <1>3. LedgerType'
    BY <1>1, <1>2 DEF LedgerType
  <1>4. ChargeInv' /\ CountedInv'
    BY <1>1, SameRequests DEF BeforeAdmission
  <1>5. \A k \in Keys : KeyInv(k)'
    BY <1>1, LedgerUntouched, ResetIsMine DEF LInv, Resetting, Moves
  <1>6. slot'[w] \in EntriesOf(Key(w))' /\ now'[w] >= cooled'[Key(w)']
    BY <1>1, <1>2, AtEntrySlot, CooldownOver DEF AtEntry, EntriesOf, Prefix
  <1>7. CreateInv(w)' /\ ConsumeInv(w)'
    BY <1>2, <1>6 DEF CreateInv, ConsumeInv, Creating, AtEntry, Resetting
  <1> QED
    BY <1>1, <1>3, <1>4, <1>5, <1>7, SectionStep

\* A store to the entry that a worker holds, seen from every caller.
LEMMA OwnStore ==
    ASSUME LInv, NEW w \in Workers, pc[w] \in AtEntry,
           NEW e \in EntryType, e.key_hash = entries[slot[w]].key_hash,
           entries' = [entries EXCEPT ![slot[w]] = e], entry_count' = entry_count
    PROVE  /\ entries' \in [Indices -> EntryType]
           /\ entries'[slot[w]] = e
           /\ \A k \in Keys : EntriesOf(k)' = EntriesOf(k)
           /\ \A k \in Keys \ {Key(w)} :
                \A i \in EntriesOf(k) : entries'[i] = entries[i]
  <1>1. LedgerType
    BY DEF LInv, TypeOK, LedgerType
  <1>2. slot[w] \in Indices /\ entries[slot[w]].key_hash = Key(w)
    BY AtEntrySlot
  <1>3. entries' \in [Indices -> EntryType] /\ entries'[slot[w]] = e
    BY <1>1, <1>2 DEF LedgerType
  <1>4. \A k \in Keys : EntriesOf(k)' = EntriesOf(k)
    BY <1>1, <1>2, StoreSameKey
  <1>5. ASSUME NEW k \in Keys \ {Key(w)}
        PROVE  \A i \in EntriesOf(k) : entries'[i] = entries[i]
    <2>1. slot[w] \notin EntriesOf(k)
      BY <1>2 DEF EntriesOf
    <2> QED
      BY <1>1, <1>2, <2>1, StoreElsewhere
  <1> QED
    BY <1>3, <1>4, <1>5

\* It is enough to look at the caller's own entry.
LEMMA OwnKey ==
    ASSUME LInv, NEW w \in Workers, pc[w] \in SectionLabels,
           NEW k \in Keys, k = Key(w),
           NEW s, EntriesOf(k)' = {s}, EntryInv(k, s)', BudgetInv(k)',
           \A j \in Keys \ {k} :
              /\ EntriesOf(j)' = EntriesOf(j)
              /\ \A i \in EntriesOf(j) : entries'[i] = entries[i]
              /\ counted'[j] = counted[j] /\ crossed'[j] = crossed[j]
              /\ cooled'[j] = cooled[j],
           forgotten \subseteq forgotten',
           \A r \in Requests \ {req[w]} :
               window'[r] = window[r] /\ charge'[r] = charge[r]
    PROVE  \A j \in Keys : KeyInv(j)'
  <1>1. ASSUME NEW j \in Keys, j # k PROVE KeyInv(j)'
    BY <1>1, OthersKeep
  <1>2. KeyInv(k)'
    BY DEF KeyInv
  <1> QED
    BY <1>1, <1>2

LEMMA ResetRequestsStep ==
    ASSUME LInv, NEW w \in Workers, ResetRequests(w)
    PROVE  LInv'
  <1>1. PICK k \in Keys, s \in Indices : k = Key(w) /\ s = slot[w]
    BY AtEntrySlot, KeyOfWorker DEF ResetRequests, InSection, AtEntry,
        SectionLabels, Labels
  <1> DEFINE e == [entries[s] EXCEPT !.req_count = 0]
  <1>2. /\ Moves(w, "reset tokens") /\ pc[w] = "check"
        /\ ~InCooldown(w) /\ WindowOver(w)
        /\ entries' = [entries EXCEPT ![s] = e]
        /\ counted' = [counted EXCEPT ![k] = {}]
        /\ crossed' = [crossed EXCEPT ![k] = {}]
        /\ UNCHANGED <<entry_count, slot, window, reservation, charge, cooled,
                       forgotten>>
    BY <1>1 DEF ResetRequests, InSection, Goto, SectionFrame, StartsOver,
           Moves, SectionLabels, Labels, AccessLabels, BeforeAdmission
  <1>3. /\ pc'[w] = "reset tokens" /\ Key(w)' = k /\ now'[w] = now[w]
        /\ slot'[w] = s /\ LedgerType
    BY <1>1, <1>2, Moved DEF LInv, TypeOK, LedgerType
  <1>4. /\ EntriesOf(k) = {s} /\ EntryInv(k, s) /\ entries[s] \in EntryType
    BY <1>1, <1>2, AtEntrySlot DEF AtEntry
  <1>5. /\ e \in EntryType /\ e.key_hash = entries[s].key_hash
        /\ e.req_count = 0 /\ e.token_count \in Nat
        /\ e.window_minute = entries[s].window_minute
        /\ e.cooldown_until = entries[s].cooldown_until
    BY <1>4 DEF EntryType
  <1> HIDE DEF e
  <1>6. /\ entries' \in [Indices -> EntryType] /\ entries'[s] = e
        /\ \A j \in Keys : EntriesOf(j)' = EntriesOf(j)
        /\ \A j \in Keys \ {k} : \A i \in EntriesOf(j) : entries'[i] = entries[i]
    BY <1>1, <1>2, <1>5, OwnStore DEF AtEntry
  <1>7. LedgerType'
    BY <1>2, <1>3, <1>6 DEF LedgerType
  <1>8. /\ counted'[k] = {} /\ crossed'[k] = {}
        /\ \A j \in Keys \ {k} : counted'[j] = counted[j] /\ crossed'[j] = crossed[j]
    BY <1>2, <1>3 DEF LedgerType
  <1>9. ChargeInv' /\ CountedInv'
    BY <1>2, <1>8, SameRequests DEF BeforeAdmission
  <1>10. \A m : Win(k, m)' = Win(k, m)
    BY <1>2 DEF Win
  <1>11. EntryInv(k, s)'
    <2>1. Cardinality(counted'[k]) = 0 /\ ChargeOf(counted[k])' = 0
      BY <1>8, FS_EmptySet, TokensOfNone DEF ChargeOf
    <2>2. IsReset(k)'
      BY <1>1, <1>2, ResetIsMineNext DEF LInv, Resetting
    <2>3. CountsInv(k, s)'
      <3>1. entries[s].cooldown_until >= cooled[k] /\ cooled' = cooled
        BY <1>2, <1>4 DEF EntryInv, CountsInv
      <3> QED
        BY <1>5, <1>6, <2>1, <3>1 DEF CountsInv
    <2>4. WindowsInv(k, s)'
      BY <1>2, <1>4, <1>5, <1>6, <1>8, <1>10, <2>2 DEF EntryInv, WindowsInv
    <2> QED
      BY <2>3, <2>4 DEF EntryInv
  <1>12. BudgetInv(k)'
    BY <1>2, SameBudget DEF LInv, KeyInv
  <1>13. \A j \in Keys : KeyInv(j)'
    BY <1>1, <1>2, <1>3, <1>4, <1>6, <1>8, <1>11, <1>12, OwnKey DEF Moves
  <1>14. now'[w] >= cooled'[k] /\ now'[w] > entries'[s].window_minute
    BY <1>1, <1>2, <1>3, <1>5, <1>6, CooldownOver DEF WindowOver
  <1>15. CreateInv(w)' /\ ConsumeInv(w)'
    BY <1>3, <1>4, <1>5, <1>6, <1>8, <1>14
        DEF CreateInv, ConsumeInv, Creating, AtEntry, Resetting
  <1> QED
    BY <1>2, <1>7, <1>9, <1>13, <1>15, SectionStep

LEMMA ResetTokensStep ==
    ASSUME LInv, NEW w \in Workers, ResetTokens(w)
    PROVE  LInv'
  <1>1. PICK k \in Keys, s \in Indices : k = Key(w) /\ s = slot[w]
    BY AtEntrySlot, KeyOfWorker DEF ResetTokens, InSection, AtEntry,
        SectionLabels, Labels
  <1> DEFINE e == [entries[s] EXCEPT !.token_count = 0]
  <1>2. /\ Moves(w, "reset window") /\ pc[w] = "reset tokens"
        /\ entries' = [entries EXCEPT ![s] = e]
        /\ UNCHANGED <<entry_count, slot, window, reservation, counted, charge,
                       crossed, cooled, forgotten>>
    BY <1>1 DEF ResetTokens, InSection, Goto, SectionFrame, ghosts,
           Moves, SectionLabels, Labels, AccessLabels, BeforeAdmission
  <1>3. /\ pc'[w] = "reset window" /\ Key(w)' = k /\ now'[w] = now[w]
        /\ slot'[w] = s /\ LedgerType
    BY <1>1, <1>2, Moved DEF LInv, TypeOK, LedgerType
  <1>4. /\ EntriesOf(k) = {s} /\ EntryInv(k, s) /\ entries[s] \in EntryType
        /\ KeyInv(k) /\ CountedInv
    BY <1>1, <1>2, AtEntrySlot DEF AtEntry, LInv
  <1>5. /\ counted[k] = {} /\ crossed[k] = {} /\ entries[s].req_count = 0
        /\ now[w] > entries[s].window_minute /\ now[w] >= cooled[k]
    BY <1>1, <1>2 DEF LInv, SectionInv, ConsumeInv, Resetting, AtEntry
  <1>6. /\ e \in EntryType /\ e.key_hash = entries[s].key_hash
        /\ e.req_count = 0 /\ e.token_count = 0
        /\ e.window_minute = entries[s].window_minute
        /\ e.cooldown_until = entries[s].cooldown_until
    BY <1>4, <1>5 DEF EntryType
  <1> HIDE DEF e
  <1>7. /\ entries' \in [Indices -> EntryType] /\ entries'[s] = e
        /\ \A j \in Keys : EntriesOf(j)' = EntriesOf(j)
        /\ \A j \in Keys \ {k} : \A i \in EntriesOf(j) : entries'[i] = entries[i]
    BY <1>1, <1>2, <1>6, OwnStore DEF AtEntry
  <1>8. LedgerType'
    BY <1>2, <1>3, <1>7 DEF LedgerType
  <1>9. ChargeInv' /\ CountedInv'
    BY <1>2, SameRequests DEF BeforeAdmission
  <1>10. EntryInv(k, s)'
    <2>1. Cardinality(counted'[k]) = 0 /\ ChargeOf(counted[k])' = 0
      BY <1>2, <1>5, FS_EmptySet, TokensOfNone DEF ChargeOf
    <2>2. IsReset(k)'
      BY <1>1, <1>2, ResetIsMineNext DEF LInv, Resetting
    <2>3. CountsInv(k, s)'
      <3>1. entries[s].cooldown_until >= cooled[k] /\ cooled' = cooled
        BY <1>2, <1>4 DEF EntryInv, CountsInv
      <3> QED
        BY <1>6, <1>7, <2>1, <3>1 DEF CountsInv
    <2>4. WindowsInv(k, s)'
      BY <1>2, <1>4, <1>6, <1>7, <2>2, SameWindows DEF EntryInv, EntryType
    <2> QED
      BY <2>3, <2>4 DEF EntryInv
  <1>11. BudgetInv(k)'
    BY <1>2, <1>4, SameBudget DEF KeyInv
  <1>12. \A j \in Keys : KeyInv(j)'
    BY <1>1, <1>2, <1>4, <1>7, <1>10, <1>11, OwnKey DEF Moves
  <1>13. CreateInv(w)' /\ ConsumeInv(w)'
    BY <1>2, <1>3, <1>4, <1>5, <1>6, <1>7
        DEF CreateInv, ConsumeInv, Creating, AtEntry, Resetting
  <1> QED
    BY <1>2, <1>8, <1>9, <1>12, <1>13, SectionStep

LEMMA ResetWindowStep ==
    ASSUME LInv, NEW w \in Workers, ResetWindow(w)
    PROVE  LInv'
  <1>1. PICK k \in Keys, s \in Indices, t \in Minutes :
            k = Key(w) /\ s = slot[w] /\ t = now[w]
    BY AtEntrySlot, KeyOfWorker DEF ResetWindow, InSection, AtEntry,
        SectionLabels, Labels, LInv, TypeOK
  <1> DEFINE e == [entries[s] EXCEPT !.window_minute = t]
  <1>2. /\ Moves(w, "touch") /\ pc[w] = "reset window"
        /\ entries' = [entries EXCEPT ![s] = e]
        /\ UNCHANGED <<entry_count, slot, window, reservation, counted, charge,
                       crossed, cooled, forgotten>>
    BY <1>1 DEF ResetWindow, InSection, Goto, SectionFrame, ghosts,
           Moves, SectionLabels, Labels, AccessLabels, BeforeAdmission
  <1>3. /\ pc'[w] = "touch" /\ Key(w)' = k /\ now'[w] = t
        /\ slot'[w] = s /\ LedgerType
    BY <1>1, <1>2, Moved DEF LInv, TypeOK, LedgerType
  <1>4. /\ EntriesOf(k) = {s} /\ EntryInv(k, s) /\ entries[s] \in EntryType
        /\ KeyInv(k)
    BY <1>1, <1>2, AtEntrySlot DEF AtEntry, LInv
  <1>5. /\ counted[k] = {} /\ crossed[k] = {}
        /\ t > entries[s].window_minute /\ t >= cooled[k]
    BY <1>1, <1>2 DEF LInv, SectionInv, ConsumeInv, Resetting, AtEntry
  <1>6. /\ e \in EntryType /\ e.key_hash = entries[s].key_hash
        /\ e.req_count = entries[s].req_count
        /\ e.token_count = entries[s].token_count
        /\ e.window_minute = t
        /\ e.cooldown_until = entries[s].cooldown_until
    BY <1>4, <1>5 DEF EntryType
  <1> HIDE DEF e
  <1>7. /\ entries' \in [Indices -> EntryType] /\ entries'[s] = e
        /\ \A j \in Keys : EntriesOf(j)' = EntriesOf(j)
        /\ \A j \in Keys \ {k} : \A i \in EntriesOf(j) : entries'[i] = entries[i]
    BY <1>1, <1>2, <1>6, OwnStore DEF AtEntry
  <1>8. LedgerType'
    BY <1>2, <1>3, <1>7 DEF LedgerType
  <1>9. ChargeInv' /\ CountedInv'
    BY <1>2, SameRequests DEF BeforeAdmission
  <1>10. EntryInv(k, s)'
    <2>1. ChargeOf(counted[k])' = ChargeOf(counted[k])
      BY <1>2 DEF ChargeOf
    <2>2. CountsInv(k, s)'
      BY <1>2, <1>4, <1>6, <1>7, <2>1 DEF EntryInv, CountsInv
    <2>3. ASSUME NEW m \in Minutes, m >= t, <<k, m>> \notin forgotten'
          PROVE  Win(k, m)' = {}
      <3>1. m > entries[s].window_minute /\ <<k, m>> \notin forgotten
        <4>1. m \in Int /\ t \in Int /\ entries[s].window_minute \in Int
          BY <1>1, <1>4, LedgerAssumption DEF EntryType, Minutes
        <4>2. m > entries[s].window_minute
          BY <1>5, <2>3, <4>1
        <4> QED
          BY <1>2, <2>3, <4>2
      <3>2. Win(k, m)' = Win(k, m)
        BY <1>2 DEF Win
      <3> QED
        BY <1>4, <3>1, <3>2 DEF EntryInv, WindowsInv
    <2>4. WindowsInv(k, s)'
      <3>1. entries'[s].window_minute = t /\ counted'[k] = {} /\ crossed'[k] = {}
        BY <1>2, <1>5, <1>6, <1>7
      <3>2. \A m \in Minutes : m > t => m >= t
        BY <1>1, LedgerAssumption DEF Minutes
      <3>3. t >= t
        BY <1>1, LedgerAssumption DEF Minutes
      <3> QED
        BY <2>3, <3>1, <3>2, <3>3 DEF WindowsInv
    <2> QED
      BY <2>2, <2>4 DEF EntryInv
  <1>11. BudgetInv(k)'
    BY <1>2, <1>4, SameBudget DEF KeyInv
  <1>12. \A j \in Keys : KeyInv(j)'
    BY <1>1, <1>2, <1>4, <1>7, <1>10, <1>11, OwnKey DEF Moves
  <1>13. CreateInv(w)' /\ ConsumeInv(w)'
    BY <1>2, <1>3, <1>4, <1>5, <1>6, <1>7, ZenonT(30)
        DEF CreateInv, ConsumeInv, Creating, AtEntry, Resetting
  <1> QED
    BY <1>2, <1>8, <1>9, <1>12, <1>13, SectionStep

LEMMA TouchAndCheckStep ==
    ASSUME LInv, NEW w \in Workers, TouchAndCheck(w)
    PROVE  LInv'
  <1>1. PICK k \in Keys, s \in Indices : k = Key(w) /\ s = slot[w]
    BY AtEntrySlot, KeyOfWorker DEF TouchAndCheck, InSection, AtEntry,
        SectionLabels, Labels
  <1> DEFINE e == [entries[s] EXCEPT !.last_used = now[w]]
  <1>2. PICK label \in {"deny", "reserve", "admit"} :
        /\ Moves(w, label) /\ pc[w] = "touch"
        /\ entries' = [entries EXCEPT ![s] = e]
        /\ label # "deny" =>
              WithinRequests(entries[s]) /\ WithinTokens(entries[s])
        /\ label = "admit" => ~(TokenLimit > 0 /\ ReserveTokens > 0)
        /\ UNCHANGED <<entry_count, slot, window, reservation, counted, charge,
                       crossed, cooled, forgotten>>
    BY <1>1 DEF TouchAndCheck, InSection, Goto, SectionFrame, ghosts,
           Moves, SectionLabels, Labels, AccessLabels, BeforeAdmission
  <1>3. /\ pc'[w] = label /\ Key(w)' = k /\ now'[w] = now[w]
        /\ slot'[w] = s /\ req'[w] = req[w] /\ LedgerType /\ now[w] \in Minutes
    BY <1>1, <1>2, Moved DEF LInv, TypeOK, LedgerType
  <1>4. /\ EntriesOf(k) = {s} /\ EntryInv(k, s) /\ entries[s] \in EntryType
    BY <1>1, <1>2, AtEntrySlot DEF AtEntry
  <1>5. now[w] >= cooled[k] /\ charge[req[w]] = 0
    BY <1>1, <1>2 DEF LInv, SectionInv, ConsumeInv, AtEntry, ChargeInv,
        BeforeAdmission
  <1>6. /\ e \in EntryType /\ e.key_hash = entries[s].key_hash
        /\ e.req_count = entries[s].req_count
        /\ e.token_count = entries[s].token_count
        /\ e.window_minute = entries[s].window_minute
        /\ e.cooldown_until = entries[s].cooldown_until
    BY <1>3, <1>4 DEF EntryType
  <1> HIDE DEF e
  <1>7. /\ entries' \in [Indices -> EntryType] /\ entries'[s] = e
        /\ \A j \in Keys : EntriesOf(j)' = EntriesOf(j)
        /\ \A j \in Keys \ {k} : \A i \in EntriesOf(j) : entries'[i] = entries[i]
    BY <1>1, <1>2, <1>6, OwnStore DEF AtEntry
  <1>8. LedgerType'
    BY <1>2, <1>3, <1>7 DEF LedgerType
  <1>9. ChargeInv'  /\ CountedInv'
    BY <1>2, SameRequests DEF BeforeAdmission
  <1>10. ASSUME NEW j \in Keys PROVE KeyInv(j)'
    <2>1. SameKey(j)
      BY <1>1, <1>2, <1>4, <1>6, <1>7, ResetIsMine
        DEF SameKey, LInv, Resetting, Moves
    <2> QED
      BY <1>3, <2>1, SameKeyKeeps DEF LInv
  <1>11. label # "deny" =>
            /\ entries'[s].req_count < RequestLimit
            /\ WithinTokens(entries'[s])
    BY <1>2, <1>6, <1>7 DEF WithinRequests, WithinTokens
  <1>12. label = "admit" =>
            /\ TokenLimit > 0 => entries'[s].token_count <= TokenLimit
            /\ "tokens" \notin crossed'[k] =>
                  entries'[s].token_count >=
                      ChargeOf(counted[k])' + charge'[req[w]]
    <2>1. ChargeOf(counted[k])' = ChargeOf(counted[k])
      BY <1>2 DEF ChargeOf
    <2>2. "tokens" \notin crossed[k] =>
            entries[s].token_count >= ChargeOf(counted[k])
      BY <1>4 DEF EntryInv, CountsInv
    <2>3. /\ entries[s].token_count \in Nat /\ ChargeOf(counted[k]) \in Nat
          /\ ReserveTokens \in Nat /\ TokenLimit \in Nat
      <3>1. IsFiniteSet(counted[k]) /\ \A r \in counted[k] : charge[r] \in Nat
        BY <1>3, FS_Subset DEF LInv, CountedInv, LedgerType
      <3> QED
        BY <1>4, <3>1, TokensFinite, LedgerAssumption DEF ChargeOf, EntryType
    <2> QED
      BY <1>2, <1>5, <1>6, <1>7, <1>11, <2>1, <2>2, <2>3 DEF WithinTokens
  <1>13. CreateInv(w)' /\ ConsumeInv(w)'
    BY <1>2, <1>3, <1>4, <1>5, <1>7, <1>11, <1>12
        DEF CreateInv, ConsumeInv, Creating, AtEntry, Resetting
  <1> QED
    BY <1>2, <1>8, <1>9, <1>10, <1>13, SectionStep

\* What is charged for counted requests is a natural number.
LEMMA ChargeType ==
    ASSUME LInv, NEW k \in Keys
    PROVE  /\ IsFiniteSet(counted[k]) /\ counted[k] \subseteq Requests
           /\ \A r \in counted[k] : charge[r] \in Nat /\ KeyOf[r] = k /\ window[r] # -1
           /\ ChargeOf(counted[k]) \in Nat
  <1>1. IsFiniteSet(counted[k])
    BY FS_Subset DEF LInv, CountedInv
  <1>2. \A r \in counted[k] : charge[r] \in Nat /\ KeyOf[r] = k /\ window[r] # -1
    BY DEF LInv, CountedInv, Placed, TypeOK
  <1> QED
    BY <1>1, <1>2, TokensFinite DEF ChargeOf, LInv, TypeOK

\* A request that is not admitted yet is not counted.
LEMMA NotCounted ==
    ASSUME LInv, NEW w \in Workers, pc[w] \in BeforeAdmission, NEW k \in Keys
    PROVE  req[w] \notin counted[k]
  BY DEF LInv, CountedInv, Placed, ChargeInv

LEMMA ReserveStepStep ==
    ASSUME LInv, NEW w \in Workers, ReserveStep(w)
    PROVE  LInv'
  <1>1. PICK k \in Keys, s \in Indices, r \in Requests :
            k = Key(w) /\ s = slot[w] /\ r = req[w]
    BY AtEntrySlot, KeyOfWorker DEF ReserveStep, InSection, AtEntry,
        SectionLabels, Labels
  <1> DEFINE e == [entries[s] EXCEPT
                     !.token_count = entries[s].token_count + ReserveTokens]
  <1>2. /\ Moves(w, "admit") /\ pc[w] = "reserve"
        /\ entries' = [entries EXCEPT ![s] = e]
        /\ reservation' = [reservation EXCEPT ![r] = ReserveTokens]
        /\ charge' = [charge EXCEPT ![r] = ReserveTokens]
        /\ UNCHANGED <<entry_count, slot, window, counted, crossed, cooled,
                       forgotten>>
    BY <1>1 DEF ReserveStep, InSection, Goto, SectionFrame, ghosts,
           Moves, SectionLabels, Labels, AccessLabels, BeforeAdmission
  <1>3. /\ pc'[w] = "admit" /\ Key(w)' = k /\ now'[w] = now[w]
        /\ slot'[w] = s /\ req'[w] = r /\ LedgerType
    BY <1>1, <1>2, Moved DEF LInv, TypeOK, LedgerType
  <1>4. /\ EntriesOf(k) = {s} /\ EntryInv(k, s) /\ entries[s] \in EntryType
        /\ KeyInv(k) /\ CountedInv
    BY <1>1, <1>2, AtEntrySlot DEF AtEntry, LInv
  <1>5. /\ now[w] >= cooled[k] /\ entries[s].req_count < RequestLimit
        /\ WithinTokens(entries[s])
    BY <1>1, <1>2 DEF LInv, SectionInv, ConsumeInv, AtEntry
  <1>6. /\ ReserveTokens \in Nat /\ TokenLimit \in Nat
        /\ entries[s].token_count \in Nat
    BY <1>4, LedgerAssumption DEF EntryType
  <1>7. /\ e \in EntryType /\ e.key_hash = entries[s].key_hash
        /\ e.req_count = entries[s].req_count
        /\ e.token_count = entries[s].token_count + ReserveTokens
        /\ e.window_minute = entries[s].window_minute
        /\ e.cooldown_until = entries[s].cooldown_until
    BY <1>4, <1>6 DEF EntryType
  <1> HIDE DEF e
  <1>8. /\ entries' \in [Indices -> EntryType] /\ entries'[s] = e
        /\ \A j \in Keys : EntriesOf(j)' = EntriesOf(j)
        /\ \A j \in Keys \ {k} : \A i \in EntriesOf(j) : entries'[i] = entries[i]
    BY <1>1, <1>2, <1>7, OwnStore DEF AtEntry
  <1>9. /\ reservation' \in [Requests -> Nat] /\ charge' \in [Requests -> Nat]
        /\ reservation'[r] = ReserveTokens /\ charge'[r] = ReserveTokens
        /\ \A q \in Requests \ {r} :
              reservation'[q] = reservation[q] /\ charge'[q] = charge[q]
    BY <1>2, <1>3, <1>6 DEF LedgerType
  <1>10. LedgerType'
    BY <1>2, <1>3, <1>8, <1>9 DEF LedgerType
  <1>11. CountedInv'
    BY <1>2, <1>4 DEF CountedInv, Placed
  <1>12. ChargeInv'
    <2>1. ChargeInv /\ ReqInv /\ pc[w] \in BeforeAdmission
      BY <1>2 DEF LInv, BeforeAdmission
    <2>2. \A v \in Workers \ {w} : pc'[v] = pc[v] /\ req'[v] = req[v]
      BY <1>2 DEF Moves, LInv, TypeOK
    <2>3. \A v \in Workers \ {w} :
            pc[v] \in BeforeAdmission \cup {"log", "reconcile"} =>
                req[v] \in Requests \ {r}
      BY <1>1, <2>1 DEF ReqInv, AccessLabels, LogLabels
    <2>4. status[r] = "handling" /\ window[r] = -1 /\ status' = status
      BY <1>1, <1>2, <2>1 DEF ReqInv, AccessLabels, ChargeInv, Moves
    <2>5. ASSUME NEW q \in Requests
          PROVE  /\ status'[q] = "new" =>
                      window'[q] = -1 /\ charge'[q] = 0 /\ reservation'[q] = 0
                 /\ status'[q] \in {"handling", "admitted"} =>
                      charge'[q] = reservation'[q]
      <3>1. CASE q = r
        BY <1>9, <2>4, <3>1
      <3>2. CASE q # r
        BY <1>2, <1>9, <2>1, <2>4, <3>2 DEF ChargeInv
      <3> QED
        BY <3>1, <3>2
    <2>6. ASSUME NEW v \in Workers
          PROVE  /\ pc'[v] \in BeforeAdmission => window'[req'[v]] = -1
                 /\ pc'[v] \in BeforeAdmission \ {"admit"} => charge'[req'[v]] = 0
                 /\ pc'[v] \in {"log", "reconcile"} =>
                      charge'[req'[v]] = reservation'[req'[v]]
      <3>1. CASE v = w
        BY <1>1, <1>2, <1>3, <2>4, <3>1
      <3>2. CASE v # w
        BY <1>2, <1>9, <2>1, <2>2, <2>3, <3>2 DEF ChargeInv
      <3> QED
        BY <3>1, <3>2
    <2> QED
      BY <2>5, <2>6 DEF ChargeInv
  <1>13. ChargeOf(counted[k])' = ChargeOf(counted[k]) /\ ChargeOf(counted[k]) \in Nat
    <2>1. r \notin counted[k] /\ counted[k] \subseteq Requests
      BY <1>1, <1>2, NotCounted, ChargeType DEF BeforeAdmission
    <2>2. \A q \in counted[k] : charge'[q] = charge[q]
      BY <1>9, <2>1
    <2>3. Tokens(charge', counted[k]) = Tokens(charge, counted[k])
      BY <2>2, TokensSame
    <2> QED
      BY <1>2, <2>3, ChargeType DEF ChargeOf
  <1>14. EntryInv(k, s)'
    <2>1. CountsInv(k, s)'
      <3>1. CountsInv(k, s) /\ UNCHANGED <<cooled, crossed, counted>>
        BY <1>2, <1>4 DEF EntryInv
      <3> QED
        BY <1>6, <1>7, <1>8, <1>13, <3>1 DEF CountsInv
    <2>2. WindowsInv(k, s)'
      <3>1. ~IsReset(k)
        BY <1>1, <1>2, ResetIsMine DEF Moves, Resetting, LInv
      <3> QED
        BY <1>2, <1>4, <1>7, <1>8, <3>1, SameWindows DEF EntryInv, EntryType
    <2> QED
      BY <2>1, <2>2 DEF EntryInv
  <1>15. BudgetInv(k)'
    BY <1>2, <1>4, SameBudget DEF KeyInv
  <1>16. \A j \in Keys : KeyInv(j)'
    BY <1>1, <1>2, <1>4, <1>8, <1>9, <1>14, <1>15, OwnKey DEF Moves
  <1>17. /\ TokenLimit > 0 => entries'[s].token_count <= TokenLimit
         /\ "tokens" \notin crossed'[k] =>
              entries'[s].token_count >= ChargeOf(counted[k])' + charge'[r]
    <2>1. "tokens" \notin crossed[k] =>
            entries[s].token_count >= ChargeOf(counted[k])
      BY <1>4 DEF EntryInv, CountsInv
    <2>2. TokenLimit > 0 => entries[s].token_count + ReserveTokens <= TokenLimit
      BY <1>5 DEF WithinTokens
    <2>3. crossed' = crossed
      BY <1>2
    <2> QED
      BY <1>6, <1>7, <1>8, <1>9, <1>13, <2>1, <2>2, <2>3
  <1>18. CreateInv(w)' /\ ConsumeInv(w)'
    BY <1>2, <1>3, <1>4, <1>5, <1>7, <1>8, <1>17
        DEF CreateInv, ConsumeInv, Creating, AtEntry, Resetting
  <1> QED
    BY <1>2, <1>10, <1>11, <1>12, <1>16, <1>18, SectionStep

LEMMA AdmitStepStep ==
    ASSUME LInv, NEW w \in Workers, AdmitStep(w)
    PROVE  LInv'
  <1>1. PICK k \in Keys, s \in Indices, r \in Requests, n \in Minutes :
            /\ k = Key(w) /\ s = slot[w] /\ r = req[w]
            /\ n = entries[s].window_minute
    BY AtEntrySlot, KeyOfWorker DEF AdmitStep, InSection, AtEntry,
        SectionLabels, Labels, EntryType
  <1> DEFINE e == [entries[s] EXCEPT !.req_count = entries[s].req_count + 1]
  <1>2. /\ Moves(w, "allow") /\ pc[w] = "admit"
        /\ entries' = [entries EXCEPT ![s] = e]
        /\ counted' = [counted EXCEPT ![k] = counted[k] \cup {r}]
        /\ window' = [window EXCEPT ![r] = n]
        /\ UNCHANGED <<entry_count, slot, reservation, charge, crossed, cooled,
                       forgotten>>
    BY <1>1 DEF AdmitStep, InSection, Goto, SectionFrame, ghosts,
           Moves, SectionLabels, Labels, AccessLabels, BeforeAdmission
  <1>3. /\ pc'[w] = "allow" /\ Key(w)' = k /\ now'[w] = now[w]
        /\ slot'[w] = s /\ req'[w] = r /\ LedgerType /\ CountedInv
    BY <1>1, <1>2, Moved DEF LInv, TypeOK, LedgerType
  <1>4. /\ EntriesOf(k) = {s} /\ EntryInv(k, s) /\ entries[s] \in EntryType
        /\ KeyInv(k) /\ KeyOf[r] = k
    BY <1>1, <1>2, AtEntrySlot DEF AtEntry, LInv, Key
  <1>5. /\ now[w] >= cooled[k] /\ entries[s].req_count < RequestLimit
        /\ "tokens" \notin crossed[k] =>
              entries[s].token_count >= ChargeOf(counted[k]) + charge[r]
    BY <1>1, <1>2 DEF LInv, SectionInv, ConsumeInv, AtEntry
  <1>6. /\ entries[s].req_count \in Nat /\ RequestLimit \in Nat
        /\ n \in Nat /\ n # -1
    BY <1>1, <1>4, LedgerAssumption DEF EntryType, Minutes
  <1>7. /\ e \in EntryType /\ e.key_hash = entries[s].key_hash
        /\ e.req_count = entries[s].req_count + 1
        /\ e.token_count = entries[s].token_count
        /\ e.window_minute = n
        /\ e.cooldown_until = entries[s].cooldown_until
    BY <1>1, <1>4, <1>6 DEF EntryType
  <1> HIDE DEF e
  <1>8. /\ entries' \in [Indices -> EntryType] /\ entries'[s] = e
        /\ \A j \in Keys : EntriesOf(j)' = EntriesOf(j)
        /\ \A j \in Keys \ {k} : \A i \in EntriesOf(j) : entries'[i] = entries[i]
    BY <1>1, <1>2, <1>7, OwnStore DEF AtEntry
  <1>9. /\ window' \in [Requests -> Minutes \cup {-1}] /\ window'[r] = n
        /\ \A q \in Requests \ {r} : window'[q] = window[q]
    BY <1>2, <1>3 DEF LedgerType
  <1>10. /\ counted' \in [Keys -> SUBSET Requests]
         /\ counted'[k] = counted[k] \cup {r}
         /\ \A j \in Keys \ {k} : counted'[j] = counted[j]
    BY <1>2, <1>3 DEF LedgerType
  <1>11. LedgerType'
    BY <1>2, <1>3, <1>8, <1>9, <1>10 DEF LedgerType
  <1>12. /\ r \notin counted[k] /\ window[r] = -1 /\ status[r] = "handling"
    BY <1>1, <1>2, NotCounted
       DEF BeforeAdmission, LInv, ChargeInv, ReqInv, AccessLabels
  <1>13. CountedInv'
    <2>1. Placed' = Placed \cup {r}
      BY <1>6, <1>9 DEF Placed
    <2>2. IsFiniteSet(Placed')
      BY <1>3, <2>1, FS_AddElement DEF CountedInv
    <2>3. \A j \in Keys : counted'[j] \subseteq {q \in Placed' : KeyOf[q] = j}
      BY <1>3, <1>4, <1>10, <2>1 DEF CountedInv
    <2> QED
      BY <2>2, <2>3 DEF CountedInv
  <1>14. ChargeInv'
    <2>1. ChargeInv /\ ReqInv /\ pc[w] \in BeforeAdmission /\ status' = status
      BY <1>2 DEF LInv, BeforeAdmission, Moves
    <2>2. \A v \in Workers \ {w} : pc'[v] = pc[v] /\ req'[v] = req[v]
      BY <1>2 DEF Moves, LInv, TypeOK
    <2>3. \A v \in Workers \ {w} :
            pc[v] \in BeforeAdmission \cup {"log", "reconcile"} =>
                req[v] \in Requests \ {r}
      BY <1>1, <2>1 DEF ReqInv, AccessLabels, LogLabels
    <2>4. ASSUME NEW q \in Requests
          PROVE  /\ status'[q] = "new" =>
                      window'[q] = -1 /\ charge'[q] = 0 /\ reservation'[q] = 0
                 /\ status'[q] \in {"handling", "admitted"} =>
                      charge'[q] = reservation'[q]
      BY <1>2, <1>9, <1>12, <2>1 DEF ChargeInv
    <2>5. ASSUME NEW v \in Workers
          PROVE  /\ pc'[v] \in BeforeAdmission => window'[req'[v]] = -1
                 /\ pc'[v] \in BeforeAdmission \ {"admit"} => charge'[req'[v]] = 0
                 /\ pc'[v] \in {"log", "reconcile"} =>
                      charge'[req'[v]] = reservation'[req'[v]]
      <3>1. CASE v = w
        BY <1>3, <3>1 DEF BeforeAdmission
      <3>2. CASE v # w
        BY <1>2, <1>9, <2>1, <2>2, <2>3, <3>2 DEF ChargeInv
      <3> QED
        BY <3>1, <3>2
    <2> QED
      BY <2>4, <2>5 DEF ChargeInv
  <1>15. /\ ChargeOf(counted[k])' = ChargeOf(counted[k]) + charge[r]
         /\ Cardinality(counted'[k]) = Cardinality(counted[k]) + 1
         /\ IsFiniteSet(counted'[k]) /\ Cardinality(counted[k]) \in Nat
    <2>1. /\ IsFiniteSet(counted[k]) /\ charge[r] \in Nat
          /\ \A q \in counted[k] : charge[q] \in Nat
      BY <1>3, ChargeType DEF LedgerType
    <2>2. Cardinality(Tokens(charge, counted[k] \cup {r})) =
              Cardinality(Tokens(charge, counted[k])) + charge[r]
      BY <1>12, <2>1, TokensAdd
    <2> QED
      BY <1>2, <1>10, <1>12, <2>1, <2>2, FS_AddElement, FS_CardinalityType
         DEF ChargeOf
  <1>16. CountsInv(k, s)'
    <2>1. CountsInv(k, s) /\ UNCHANGED <<cooled, crossed, charge>>
      BY <1>2, <1>4 DEF EntryInv
    <2> QED
      BY <1>5, <1>6, <1>7, <1>8, <1>15, <2>1 DEF CountsInv
  <1>17. \A m \in Minutes :
            /\ m # n => Win(k, m)' = Win(k, m)
            /\ Win(k, n)' = Win(k, n) \cup {r}
    <2>1. -1 \notin Minutes
      BY LedgerAssumption DEF Minutes
    <2> QED
      BY <1>4, <1>9, <1>12, <2>1 DEF Win
  <1>18. ~IsReset(k) /\ WindowsInv(k, s)
    BY <1>1, <1>2, <1>4, ResetIsMine DEF Moves, Resetting, LInv, EntryInv
  <1>19. WindowsInv(k, s)'
    <2>1. entries'[s].window_minute = n /\ entries[s].window_minute = n
      BY <1>1, <1>7, <1>8
    <2>2. \A q \in counted'[k] : window'[q] = n
      <3>1. \A q \in counted[k] : window[q] = n /\ q \in Requests
        BY <1>18, <2>1, ChargeType DEF WindowsInv
      <3> QED
        BY <1>9, <1>10, <1>12, <3>1
    <2>3. \A m \in Minutes : m > n /\ <<k, m>> \notin forgotten' => Win(k, m)' = {}
      <3>1. \A m \in Minutes : m > n => m # n
        BY <1>6
      <3> QED
        BY <1>2, <1>17, <1>18, <2>1, <3>1 DEF WindowsInv
    <2>4. <<k, n>> \notin forgotten' =>
            Win(k, n)' \subseteq counted'[k] /\ "slots" \notin crossed'[k]
      BY <1>2, <1>10, <1>17, <1>18, <2>1 DEF WindowsInv
    <2> QED
      BY <2>1, <2>2, <2>3, <2>4 DEF WindowsInv
  <1>20. BudgetInv(k)'
    <2> SUFFICES ASSUME NEW m \in Minutes, <<k, m>> \notin forgotten'
                 PROVE  Cardinality(Win(k, m)') <= RequestLimit
      BY DEF BudgetInv
    <2>1. CASE m # n
      BY <1>2, <1>4, <1>17, <2>1 DEF KeyInv, BudgetInv
    <2>2. CASE m = n
      <3>1. Win(k, n)' \subseteq counted'[k] /\ "slots" \notin crossed[k]
        BY <1>1, <1>2, <1>10, <1>17, <1>18, <2>2 DEF WindowsInv
      <3>2. entries[s].req_count = Cardinality(counted[k])
        BY <1>4, <3>1 DEF EntryInv, CountsInv
      <3>3. /\ Cardinality(Win(k, n)') <= Cardinality(counted'[k])
            /\ Cardinality(Win(k, n)') \in Nat
        BY <1>15, <3>1, FS_Subset, FS_CardinalityType
      <3> QED
        BY <1>5, <1>6, <1>15, <2>2, <3>2, <3>3
    <2> QED
      BY <2>1, <2>2
  <1>21. EntryInv(k, s)'
    BY <1>16, <1>19 DEF EntryInv
  <1>22. \A j \in Keys : KeyInv(j)'
    BY <1>1, <1>2, <1>4, <1>8, <1>9, <1>10, <1>20, <1>21, OwnKey DEF Moves
  <1>23. CreateInv(w)' /\ ConsumeInv(w)'
    BY <1>2, <1>3, <1>5
        DEF CreateInv, ConsumeInv, Creating, AtEntry, Resetting
  <1> QED
    BY <1>2, <1>11, <1>13, <1>14, <1>22, <1>23, SectionStep

-----------------------------------------------------------------------------
(* The LOG handler keeps the invariant, store by store                     *)

\* A store to the entry that a caller has, seen from every caller.
LEMMA KeyStore ==
    ASSUME LInv, NEW k \in Keys, EntriesOf(k) # {},
           NEW s, s = FindEntry(k),
           NEW e \in EntryType, e.key_hash = entries[s].key_hash,
           entries' = [entries EXCEPT ![s] = e], entry_count' = entry_count
    PROVE  /\ entries' \in [Indices -> EntryType]
           /\ entries'[s] = e
           /\ \A j \in Keys : EntriesOf(j)' = EntriesOf(j)
           /\ \A j \in Keys \ {k} :
                \A i \in EntriesOf(j) : entries'[i] = entries[i]
  <1>1. LedgerType
    BY DEF LInv, TypeOK, LedgerType
  <1>2. s \in Indices /\ entries[s].key_hash = k
    BY FoundEntry
  <1>3. entries' \in [Indices -> EntryType] /\ entries'[s] = e
    BY <1>1, <1>2 DEF LedgerType
  <1>4. \A j \in Keys : EntriesOf(j)' = EntriesOf(j)
    BY <1>1, <1>2, StoreSameKey
  <1>5. ASSUME NEW j \in Keys \ {k}
        PROVE  \A i \in EntriesOf(j) : entries'[i] = entries[i]
    <2>1. s \notin EntriesOf(j)
      BY <1>2 DEF EntriesOf
    <2> QED
      BY <1>1, <1>2, <2>1, StoreElsewhere
  <1> QED
    BY <1>3, <1>4, <1>5

\* What LOG changes of its own request.
LEMMA LogRequest ==
    ASSUME LInv, NEW w \in Workers, NEW label, Moves(w, label),
           pc[w] \in LogLabels, label # "reconcile",
           NEW r \in Requests, r = req[w],
           reservation' = reservation,
           charge' \in [Requests -> Nat],
           \A q \in Requests \ {r} : charge'[q] = charge[q] /\ window'[q] = window[q],
           window'[r] \in {window[r], -1},
           \A k \in Keys : counted'[k] \subseteq counted[k],
           \A k \in Keys : r \in counted'[k] => window'[r] = window[r]
    PROVE  ChargeInv' /\ CountedInv'
  <1>1. ChargeInv /\ ReqInv /\ CountedInv /\ status' = status
    BY DEF LInv, Moves
  <1>2. label \in LogLabels /\ pc[w] \notin BeforeAdmission
    BY DEF Moves, LogLabels, SectionLabels, Labels, AccessLabels, BeforeAdmission
  <1>3. status[r] = "logging" /\ owner[r] = w
    BY <1>1 DEF ReqInv
  <1>4. \A v \in Workers \ {w} : pc'[v] = pc[v] /\ req'[v] = req[v]
    BY DEF Moves, LInv, TypeOK
  <1>5. \A v \in Workers \ {w} :
          pc[v] \in BeforeAdmission \cup {"log", "reconcile"} =>
              req[v] \in Requests \ {r}
    BY <1>1, <1>3 DEF ReqInv, AccessLabels, LogLabels
  <1>6. ChargeInv'
    <2>1. ASSUME NEW q \in Requests
          PROVE  /\ status'[q] = "new" =>
                      window'[q] = -1 /\ charge'[q] = 0 /\ reservation'[q] = 0
                 /\ status'[q] \in {"handling", "admitted"} =>
                      charge'[q] = reservation'[q]
      BY <1>1, <1>3 DEF ChargeInv
    <2>2. ASSUME NEW v \in Workers
          PROVE  /\ pc'[v] \in BeforeAdmission => window'[req'[v]] = -1
                 /\ pc'[v] \in BeforeAdmission \ {"admit"} => charge'[req'[v]] = 0
                 /\ pc'[v] \in {"log", "reconcile"} =>
                      charge'[req'[v]] = reservation'[req'[v]]
      <3>1. CASE v = w
        <4>1. pc'[w] = label /\ label \notin BeforeAdmission
          BY <1>2 DEF Moves, LInv, TypeOK, LogLabels, BeforeAdmission
        <4> QED
          BY <3>1, <4>1 DEF Moves, SectionLabels
      <3>2. CASE v # w
        BY <1>1, <1>4, <1>5, <3>2 DEF ChargeInv
      <3> QED
        BY <3>1, <3>2
    <2> QED
      BY <2>1, <2>2 DEF ChargeInv
  <1>7. CountedInv'
    <2>1. Placed' \subseteq Placed
      BY DEF Placed
    <2>2. IsFiniteSet(Placed')
      BY <1>1, <2>1, FS_Subset DEF CountedInv
    <2>3. \A k \in Keys : counted'[k] \subseteq {q \in Placed' : KeyOf[q] = k}
      BY <1>1 DEF CountedInv, Placed
    <2> QED
      BY <2>2, <2>3 DEF CountedInv
  <1> QED
    BY <1>6, <1>7

\* No clause of CreateInv or ConsumeInv speaks of a worker in LOG.
LEMMA NotInAccess ==
    ASSUME TypeOK, NEW w \in Workers, NEW label \in LogLabels, Moves(w, label)
    PROVE  CreateInv(w)' /\ ConsumeInv(w)'
  <1>1. pc'[w] = label
    BY DEF Moves, TypeOK
  <1> QED
    BY <1>1 DEF CreateInv, ConsumeInv, Creating, AtEntry, Resetting, LogLabels

\* A handler that finds nothing to do.
LEMMA LogNothing ==
    ASSUME LInv, NEW w \in Workers, NEW label \in LogLabels, Moves(w, label),
           label # "reconcile",
           UNCHANGED <<entries, entry_count, slot, window, reservation, counted,
                       charge, crossed, cooled, forgotten>>
    PROVE  LInv'
  <1>1. LedgerType'
    BY DEF LInv, TypeOK, LedgerType
  <1>2. ChargeInv' /\ CountedInv'
    BY SameRequests DEF LogLabels, BeforeAdmission
  <1>3. pc[w] \notin Resetting
    BY DEF Moves, Resetting, AccessLabels, BeforeAdmission, LogLabels
  <1>4. \A k \in Keys : KeyInv(k)'
    BY <1>3, LedgerUntouched, ResetIsMine DEF LInv, Moves
  <1> QED
    BY <1>1, <1>2, <1>4, NotInAccess, SectionStep DEF LInv

LEMMA ReconcileTokensStep ==
    ASSUME LInv, NEW w \in Workers, ReconcileTokens(w)
    PROVE  LInv'
  <1>1. PICK k \in Keys, r \in Requests : k = Key(w) /\ r = req[w]
    BY KeyOfWorker DEF ReconcileTokens, InSection, SectionLabels, Labels
  <1> DEFINE a == job[w].actual
             s == FindEntry(k)
             t == entries[s].token_count
             new == IF a > reservation[r] THEN t + (a - reservation[r])
                                          ELSE MonusOf(t, reservation[r] - a)
             e == [entries[s] EXCEPT !.token_count = new]
  <1>2. /\ Moves(w, "cooldown") /\ pc[w] = "reconcile"
        /\ UNCHANGED <<entry_count, slot, window, reservation, counted,
                       cooled, forgotten>>
    BY DEF ReconcileTokens, InSection, Goto, LogFrame,
           Moves, SectionLabels, Labels, AccessLabels, BeforeAdmission
  <1>3. CASE UNCHANGED <<entries, charge, crossed>>
    BY <1>2, <1>3, LogNothing DEF LogLabels
  <1>4. CASE ~UNCHANGED <<entries, charge, crossed>>
    <2>1. /\ a # reservation[r] /\ EntriesOf(k) # {}
          /\ entries' = [entries EXCEPT ![s] = e]
          /\ r \in counted[k] =>
                /\ charge' = [charge EXCEPT ![r] = a]
                /\ crossed' = crossed
          /\ r \notin counted[k] =>
                /\ charge' = charge
                /\ crossed' = IF a < reservation[r]
                              THEN [crossed EXCEPT ![k] = crossed[k] \cup {"tokens"}]
                              ELSE crossed
      BY <1>1, <1>4 DEF ReconcileTokens, Crosses
    <2>2. /\ LedgerType /\ CountedInv /\ KeyInv(k) /\ EntriesOf(k) = {s}
          /\ EntryInv(k, s) /\ entries[s] \in EntryType /\ s \in Indices
      BY <2>1, FoundEntry DEF LInv, TypeOK, LedgerType
    <2>3. a \in Nat /\ reservation[r] \in Nat /\ t \in Nat /\ charge[r] \in Nat
      BY <2>2 DEF LInv, TypeOK, EntryType
    <2>4. /\ new \in Nat
          /\ a > reservation[r] => new = t + a - reservation[r]
          /\ a <= reservation[r] => new >= t + a - reservation[r]
      BY <2>3 DEF MonusOf
    <2> HIDE DEF new
    <2>5. /\ e \in EntryType /\ e.key_hash = entries[s].key_hash
          /\ e.req_count = entries[s].req_count
          /\ e.token_count = new
          /\ e.window_minute = entries[s].window_minute
          /\ e.cooldown_until = entries[s].cooldown_until
      BY <2>2, <2>4 DEF EntryType
    <2> HIDE DEF e, a, t
    <2>6. PICK z \in Indices : z = s /\ z = FindEntry(k)
      BY <2>2
    <2> HIDE DEF s
    <2>7. /\ entries' \in [Indices -> EntryType] /\ entries'[z] = e
          /\ \A j \in Keys : EntriesOf(j)' = EntriesOf(j)
          /\ \A j \in Keys \ {k} : \A i \in EntriesOf(j) : entries'[i] = entries[i]
      <3>1. /\ entries' = [entries EXCEPT ![z] = e] /\ entry_count' = entry_count
            /\ EntriesOf(k) # {} /\ e.key_hash = entries[z].key_hash
            /\ e \in EntryType
        BY <1>2, <2>1, <2>5, <2>6
      <3> QED
        BY <2>6, <3>1, KeyStore
    <2>8. /\ charge' \in [Requests -> Nat]
          /\ \A q \in Requests \ {r} : charge'[q] = charge[q]
          /\ r \in counted[k] => charge'[r] = a
      BY <2>1, <2>2, <2>3 DEF LedgerType
    <2>9. /\ crossed' \in [Keys -> SUBSET {"slots", "tokens"}]
          /\ \A j \in Keys \ {k} : crossed'[j] = crossed[j]
          /\ "slots" \in crossed'[k] <=> "slots" \in crossed[k]
          /\ "tokens" \in crossed[k] => "tokens" \in crossed'[k]
          /\ r \notin counted[k] /\ a < reservation[r] => "tokens" \in crossed'[k]
      <3>1. crossed \in [Keys -> SUBSET {"slots", "tokens"}]
        BY <2>2 DEF LedgerType
      <3>2. CASE crossed' = crossed /\ ~(r \notin counted[k] /\ a < reservation[r])
        BY <3>1, <3>2
      <3>3. CASE /\ crossed' = [crossed EXCEPT ![k] = crossed[k] \cup {"tokens"}]
                 /\ r \notin counted[k]
        BY <3>1, <3>3
      <3> QED
        BY <2>1, <3>2, <3>3
    <2>10. LedgerType'
      BY <1>2, <2>2, <2>7, <2>8, <2>9 DEF LedgerType
    <2>11. ChargeInv' /\ CountedInv'
      BY <1>1, <1>2, <2>8, LogRequest DEF LogLabels
    <2>12. /\ ChargeOf(counted[k]) \in Nat /\ ChargeOf(counted[k])' \in Nat
           /\ r \notin counted[k] =>
                ChargeOf(counted[k])' = ChargeOf(counted[k])
           /\ r \in counted[k] =>
                /\ ChargeOf(counted[k])' =
                      ChargeOf(counted[k]) - reservation[r] + a
                /\ reservation[r] <= ChargeOf(counted[k])
      <3> DEFINE rest == counted[k] \ {r}
      <3>1. /\ IsFiniteSet(counted[k]) /\ counted[k] \subseteq Requests
            /\ \A q \in counted[k] : charge[q] \in Nat
            /\ ChargeOf(counted[k]) \in Nat
        BY ChargeType
      <3>2. /\ IsFiniteSet(rest) /\ r \notin rest
            /\ \A q \in rest : charge[q] \in Nat /\ charge'[q] = charge[q]
                               /\ charge'[q] \in Nat
        BY <2>8, <3>1, FS_RemoveElement
      <3> HIDE DEF rest
      <3>3. /\ Tokens(charge', rest) = Tokens(charge, rest)
            /\ Cardinality(Tokens(charge, rest)) \in Nat
        BY <3>2, TokensSame, TokensFinite
      <3>4. ChargeOf(counted[k])' = Cardinality(Tokens(charge', counted[k]))
        BY <1>2 DEF ChargeOf
      <3>5. CASE r \notin counted[k]
        <4>1. rest = counted[k]
          BY <3>5 DEF rest
        <4> QED
          BY <3>1, <3>3, <3>4, <3>5, <4>1 DEF ChargeOf
      <3>6. CASE r \in counted[k]
        <4>1. counted[k] = rest \cup {r}
          BY <3>6 DEF rest
        <4>2. charge'[r] = a /\ charge[r] = reservation[r]
          BY <1>1, <1>2, <2>8, <3>6 DEF LInv, ChargeInv
        <4>3. Cardinality(Tokens(charge, rest \cup {r})) =
                  Cardinality(Tokens(charge, rest)) + charge[r]
          BY <2>3, <3>2, TokensAdd
        <4>4. Cardinality(Tokens(charge', rest \cup {r})) =
                  Cardinality(Tokens(charge', rest)) + charge'[r]
          BY <2>3, <3>2, <4>2, TokensAdd
        <4> QED
          BY <2>3, <3>1, <3>3, <3>4, <3>6, <4>1, <4>2, <4>3, <4>4 DEF ChargeOf
      <3> QED
        BY <3>5, <3>6
    <2>13. EntryInv(k, z)'
      <3>1. CountsInv(k, z)'
        <4>1. CountsInv(k, z) /\ UNCHANGED <<cooled, counted>>
          BY <1>2, <2>2, <2>6 DEF EntryInv
        <4>2. "tokens" \notin crossed[k] => t >= ChargeOf(counted[k])
          BY <2>6, <4>1 DEF CountsInv, t
        <4>3. "tokens" \notin crossed'[k] =>
                entries'[z].token_count >= ChargeOf(counted[k])'
          <5>1. CASE r \in counted[k]
            BY <2>3, <2>4, <2>5, <2>6, <2>7, <2>9, <2>12, <4>2, <5>1
          <5>2. CASE r \notin counted[k]
            BY <2>1, <2>3, <2>4, <2>5, <2>6, <2>7, <2>9, <2>12, <4>2, <5>2
          <5> QED
            BY <5>1, <5>2
        <4>4. /\ entries'[z].cooldown_until = entries[z].cooldown_until
              /\ entries'[z].req_count = entries[z].req_count
          BY <2>5, <2>6, <2>7
        <4> QED
          BY <2>9, <4>1, <4>3, <4>4 DEF CountsInv
      <3>2. WindowsInv(k, z)'
        <4>1. ~IsReset(k)
          BY <1>1, <1>2, ResetIsMine DEF Moves, Resetting, LInv
        <4> QED
          BY <1>2, <2>2, <2>5, <2>6, <2>7, <2>9, <4>1, SameWindows
             DEF EntryInv, EntryType
      <3> QED
        BY <3>1, <3>2 DEF EntryInv
    <2>14. BudgetInv(k)'
      BY <1>2, <2>2, SameBudget DEF KeyInv
    <2>15. \A j \in Keys : KeyInv(j)'
      <3>1. EntriesOf(k)' = {z}
        BY <2>2, <2>6, <2>7
      <3> QED
        BY <1>1, <1>2, <2>7, <2>8, <2>9, <2>13, <2>14, <3>1, OwnKey DEF Moves
    <2>16. CreateInv(w)' /\ ConsumeInv(w)'
      BY <1>2, NotInAccess DEF LInv, LogLabels
    <2> QED
      BY <1>2, <2>10, <2>11, <2>15, <2>16, SectionStep
  <1> QED
    BY <1>3, <1>4

LEMMA SetCooldownStep ==
    ASSUME LInv, NEW w \in Workers, SetCooldown(w)
    PROVE  LInv'
  <1>1. PICK k \in Keys, r \in Requests : k = Key(w) /\ r = req[w]
    BY KeyOfWorker DEF SetCooldown, InSection, SectionLabels, Labels
  <1> DEFINE u == job[w].until
             longest == Max({u, entries[FindEntry(k)].cooldown_until})
             e == [entries[FindEntry(k)] EXCEPT !.cooldown_until = longest]
  <1>2. /\ Moves(w, "return") /\ pc[w] = "cooldown"
        /\ UNCHANGED <<entry_count, slot, window, reservation, counted, charge,
                       crossed, forgotten>>
    BY DEF SetCooldown, InSection, Goto, LogFrame,
           Moves, SectionLabels, Labels, AccessLabels, BeforeAdmission
  <1>3. CASE UNCHANGED <<entries, cooled>>
    BY <1>2, <1>3, LogNothing DEF LogLabels
  <1>4. CASE ~UNCHANGED <<entries, cooled>>
    <2>1. /\ EntriesOf(k) # {}
          /\ entries' = [entries EXCEPT ![FindEntry(k)] = e]
          /\ cooled' = [cooled EXCEPT ![k] = Max({cooled[k], u})]
      BY <1>1, <1>4 DEF SetCooldown
    <2>2. PICK z \in Indices : z = FindEntry(k)
      BY <2>1, FoundEntry
    <2>3. /\ LedgerType /\ CountedInv /\ KeyInv(k) /\ EntriesOf(k) = {z}
          /\ EntryInv(k, z) /\ entries[z] \in EntryType
      BY <2>1, <2>2, FoundEntry DEF LInv, TypeOK, LedgerType
    <2>4. u \in Nat /\ cooled[k] \in Nat /\ entries[z].cooldown_until \in Nat
      BY <2>3 DEF LInv, TypeOK, EntryType
    <2>5. /\ longest \in Nat /\ longest >= u
          /\ longest >= entries[z].cooldown_until
      BY <2>2, <2>4, MaxOfTwo
    <2>6. /\ Max({cooled[k], u}) \in Nat
          /\ Max({cooled[k], u}) \in {cooled[k], u}
      BY <2>4, MaxOfTwo
    <2> HIDE DEF longest
    <2>7. /\ e \in EntryType /\ e.key_hash = entries[z].key_hash
          /\ e.req_count = entries[z].req_count
          /\ e.token_count = entries[z].token_count
          /\ e.window_minute = entries[z].window_minute
          /\ e.cooldown_until = longest
      BY <2>2, <2>3, <2>5 DEF EntryType
    <2> HIDE DEF e
    <2>8. /\ entries' \in [Indices -> EntryType] /\ entries'[z] = e
          /\ \A j \in Keys : EntriesOf(j)' = EntriesOf(j)
          /\ \A j \in Keys \ {k} : \A i \in EntriesOf(j) : entries'[i] = entries[i]
      <3>1. /\ entries' = [entries EXCEPT ![z] = e] /\ entry_count' = entry_count
            /\ EntriesOf(k) # {} /\ e.key_hash = entries[z].key_hash
            /\ e \in EntryType
        BY <1>2, <2>1, <2>2, <2>7
      <3> QED
        BY <2>2, <3>1, KeyStore
    <2>9. /\ cooled' \in [Keys -> Nat]
          /\ cooled'[k] \in {cooled[k], u}
          /\ \A j \in Keys \ {k} : cooled'[j] = cooled[j]
      <3>1. cooled \in [Keys -> Nat]
        BY <2>3 DEF LedgerType
      <3> QED
        BY <2>1, <2>6, <3>1
    <2>10. LedgerType'
      BY <1>2, <2>3, <2>8, <2>9 DEF LedgerType
    <2>11. ChargeInv' /\ CountedInv'
      BY <1>2, SameRequests DEF BeforeAdmission
    <2>12. EntryInv(k, z)'
      <3>1. CountsInv(k, z)'
        <4>1. CountsInv(k, z) /\ UNCHANGED <<crossed, counted, charge>>
          BY <1>2, <2>3 DEF EntryInv
        <4>2. entries'[z].cooldown_until >= cooled'[k]
          BY <2>4, <2>5, <2>7, <2>8, <2>9, <4>1 DEF CountsInv
        <4>3. ChargeOf(counted[k])' = ChargeOf(counted[k])
          BY <4>1 DEF ChargeOf
        <4> QED
          BY <2>7, <2>8, <4>1, <4>2, <4>3 DEF CountsInv
      <3>2. WindowsInv(k, z)'
        <4>1. ~IsReset(k)
          BY <1>1, <1>2, ResetIsMine DEF Moves, Resetting, LInv
        <4> QED
          BY <1>2, <2>3, <2>7, <2>8, <4>1, SameWindows DEF EntryInv, EntryType
      <3> QED
        BY <3>1, <3>2 DEF EntryInv
    <2>13. BudgetInv(k)'
      BY <1>2, <2>3, SameBudget DEF KeyInv
    <2>14. \A j \in Keys : KeyInv(j)'
      <3>1. EntriesOf(k)' = {z}
        BY <2>3, <2>8
      <3> QED
        BY <1>1, <1>2, <2>8, <2>9, <2>12, <2>13, <3>1, OwnKey DEF Moves
    <2>15. CreateInv(w)' /\ ConsumeInv(w)'
      BY <1>2, NotInAccess DEF LInv, LogLabels
    <2> QED
      BY <1>2, <2>10, <2>11, <2>14, <2>15, SectionStep
  <1> QED
    BY <1>3, <1>4

LEMMA ReturnRequestSlotStep ==
    ASSUME LInv, NEW w \in Workers, ReturnRequestSlot(w)
    PROVE  LInv'
  <1>1. PICK k \in Keys, r \in Requests : k = Key(w) /\ r = req[w]
    BY KeyOfWorker DEF ReturnRequestSlot, InSection, SectionLabels, Labels
  <1> DEFINE less == MonusOf(entries[FindEntry(k)].req_count, 1)
             e == [entries[FindEntry(k)] EXCEPT !.req_count = less]
  <1>2. /\ Moves(w, "logged") /\ pc[w] = "return"
        /\ UNCHANGED <<entry_count, slot, reservation, charge, cooled>>
    BY DEF ReturnRequestSlot, InSection, Goto, LogFrame,
           Moves, SectionLabels, Labels, AccessLabels, BeforeAdmission
  <1>3. CASE UNCHANGED <<entries, window, counted, crossed, forgotten>>
    BY <1>2, <1>3, LogNothing DEF LogLabels
  <1>4. CASE ~UNCHANGED <<entries, window, counted, crossed, forgotten>>
    <2>1. /\ EntriesOf(k) # {}
          /\ entries' = [entries EXCEPT ![FindEntry(k)] = e]
          /\ r \in counted[k] =>
                /\ counted' = [counted EXCEPT ![k] = counted[k] \ {r}]
                /\ window' = [window EXCEPT ![r] = -1]
                /\ UNCHANGED <<crossed, forgotten>>
          /\ r \notin counted[k] =>
                /\ crossed' = [crossed EXCEPT ![k] = crossed[k] \cup {"slots"}]
                /\ forgotten' = forgotten \cup
                      {<<k, entries[FindEntry(k)].window_minute>>}
                /\ UNCHANGED <<counted, window>>
      BY <1>1, <1>4 DEF ReturnRequestSlot, Crosses
    <2>2. PICK z \in Indices : z = FindEntry(k)
      BY <2>1, FoundEntry
    <2>3. /\ LedgerType /\ CountedInv /\ KeyInv(k) /\ EntriesOf(k) = {z}
          /\ EntryInv(k, z) /\ entries[z] \in EntryType
          /\ CountsInv(k, z) /\ WindowsInv(k, z) /\ BudgetInv(k)
      BY <2>1, <2>2, FoundEntry DEF LInv, TypeOK, LedgerType, KeyInv, EntryInv
    <2>4. PICK n \in Minutes : n = entries[z].window_minute
      BY <2>3 DEF EntryType
    <2>5. /\ entries[z].req_count \in Nat /\ less \in Nat
          /\ entries[z].req_count > 0 => less = entries[z].req_count - 1
      BY <2>2, <2>3 DEF EntryType, MonusOf
    <2> HIDE DEF less
    <2>6. /\ e \in EntryType /\ e.key_hash = entries[z].key_hash
          /\ e.req_count = less
          /\ e.token_count = entries[z].token_count
          /\ e.window_minute = n
          /\ e.cooldown_until = entries[z].cooldown_until
      BY <2>2, <2>3, <2>4, <2>5 DEF EntryType
    <2> HIDE DEF e
    <2>7. /\ entries' \in [Indices -> EntryType] /\ entries'[z] = e
          /\ \A j \in Keys : EntriesOf(j)' = EntriesOf(j)
          /\ \A j \in Keys \ {k} : \A i \in EntriesOf(j) : entries'[i] = entries[i]
      <3>1. /\ entries' = [entries EXCEPT ![z] = e] /\ entry_count' = entry_count
            /\ EntriesOf(k) # {} /\ e.key_hash = entries[z].key_hash
            /\ e \in EntryType
        BY <1>2, <2>1, <2>2, <2>6
      <3> QED
        BY <2>2, <3>1, KeyStore
    <2>8. ~IsReset(k)
      BY <1>1, <1>2, ResetIsMine DEF Moves, Resetting, LInv
    <2>9. CreateInv(w)' /\ ConsumeInv(w)'
      BY <1>2, NotInAccess DEF LInv, LogLabels
    <2>10. EntriesOf(k)' = {z}
      BY <2>3, <2>7
    <2>11. CASE r \in counted[k]
      <3>1. /\ counted' \in [Keys -> SUBSET Requests]
            /\ counted'[k] = counted[k] \ {r}
            /\ \A j \in Keys \ {k} : counted'[j] = counted[j]
        BY <2>1, <2>3, <2>11 DEF LedgerType
      <3>2. /\ window' \in [Requests -> Minutes \cup {-1}] /\ window'[r] = -1
            /\ \A q \in Requests \ {r} : window'[q] = window[q]
        BY <2>1, <2>3, <2>11 DEF LedgerType
      <3>3. crossed' = crossed /\ forgotten' = forgotten
        BY <2>1, <2>11
      <3>4. LedgerType'
        BY <1>2, <2>3, <2>7, <3>1, <3>2, <3>3 DEF LedgerType
      <3>5. \A j \in Keys : r \notin counted'[j]
        BY <2>3, <2>11, <3>1 DEF CountedInv
      <3>6. ChargeInv' /\ CountedInv'
        <4>1. charge' \in [Requests -> Nat]
          BY <3>4 DEF LedgerType
        <4> QED
          BY <1>1, <1>2, <3>1, <3>2, <3>5, <4>1, LogRequest DEF LogLabels
      <3>7. /\ IsFiniteSet(counted[k]) /\ KeyOf[r] = k
            /\ \A q \in counted[k] : charge[q] \in Nat
        BY <2>11, ChargeType
      <3>8. /\ Cardinality(counted'[k]) = Cardinality(counted[k]) - 1
            /\ Cardinality(counted[k]) \in Nat /\ Cardinality(counted[k]) > 0
            /\ IsFiniteSet(counted'[k])
        <4>1. counted[k] # {}
          BY <2>11
        <4>2. /\ IsFiniteSet(counted[k] \ {r})
              /\ Cardinality(counted[k] \ {r}) = Cardinality(counted[k]) - 1
          BY <2>11, <3>7, FS_RemoveElement
        <4>3. Cardinality(counted[k]) \in Nat
          BY <3>7, FS_CardinalityType
        <4>4. Cardinality(counted[k]) # 0
          BY <3>7, <4>1, FS_EmptySet
        <4>5. Cardinality(counted[k]) > 0
          BY <4>3, <4>4
        <4> QED
          BY <3>1, <4>2, <4>3, <4>5
      <3>9. /\ ChargeOf(counted[k])' <= ChargeOf(counted[k])
            /\ ChargeOf(counted[k])' \in Nat /\ ChargeOf(counted[k]) \in Nat
        <4> DEFINE rest == counted[k] \ {r}
        <4>1. IsFiniteSet(rest) /\ r \notin rest /\ counted[k] = rest \cup {r}
          BY <2>11, <3>7, FS_RemoveElement
        <4>2. \A q \in rest : charge[q] \in Nat
          BY <3>7
        <4> HIDE DEF rest
        <4>3. /\ Cardinality(Tokens(charge, rest \cup {r})) =
                    Cardinality(Tokens(charge, rest)) + charge[r]
              /\ Cardinality(Tokens(charge, rest)) \in Nat /\ charge[r] \in Nat
          BY <2>11, <3>7, <4>1, <4>2, TokensAdd, TokensFinite
        <4>4. ChargeOf(counted[k])' = Cardinality(Tokens(charge, rest))
          BY <1>2, <3>1 DEF ChargeOf, rest
        <4> QED
          BY <4>1, <4>3, <4>4 DEF ChargeOf
      <3>10. CountsInv(k, z)'
        <4>1. /\ entries'[z].cooldown_until = entries[z].cooldown_until
              /\ entries'[z].token_count = entries[z].token_count
              /\ entries'[z].req_count = less
              /\ entries[z].token_count \in Nat
          BY <2>3, <2>6, <2>7 DEF EntryType
        <4>2. "slots" \notin crossed[k] => less = Cardinality(counted'[k])
          BY <2>3, <2>5, <3>8 DEF CountsInv
        <4> QED
          BY <1>2, <2>3, <3>3, <3>9, <4>1, <4>2 DEF CountsInv
      <3>11. \A m \in Minutes : Win(k, m)' = Win(k, m) \ {r}
        <4>1. -1 \notin Minutes
          BY LedgerAssumption DEF Minutes
        <4> QED
          BY <3>2, <4>1 DEF Win
      <3>12. WindowsInv(k, z)'
        <4>1. entries'[z].window_minute = n
          BY <2>6, <2>7
        <4>2. \A q \in counted'[k] : window'[q] = n
          <5>1. \A q \in counted[k] : window[q] = n /\ q \in Requests
            BY <2>3, <2>4, ChargeType DEF WindowsInv
          <5> QED
            BY <3>1, <3>2, <5>1
        <4>3. \A m \in Minutes :
                m > n /\ <<k, m>> \notin forgotten' => Win(k, m)' = {}
          BY <2>3, <2>4, <3>3, <3>11 DEF WindowsInv
        <4>4. <<k, n>> \notin forgotten' =>
                Win(k, n)' \subseteq counted'[k] /\ "slots" \notin crossed'[k]
          BY <2>3, <2>4, <2>8, <3>1, <3>3, <3>11 DEF WindowsInv
        <4> QED
          BY <4>1, <4>2, <4>3, <4>4 DEF WindowsInv
      <3>13. BudgetInv(k)'
        <4> SUFFICES ASSUME NEW m \in Minutes, <<k, m>> \notin forgotten'
                     PROVE  Cardinality(Win(k, m)') <= RequestLimit
          BY DEF BudgetInv
        <4>1. IsFiniteSet(Win(k, m)) /\ Win(k, m)' \subseteq Win(k, m)
          <5>1. -1 \notin Minutes
            BY LedgerAssumption DEF Minutes
          <5>2. Win(k, m) \subseteq Placed
            BY <5>1 DEF Win, Placed
          <5> QED
            BY <2>3, <3>11, <5>2, FS_Subset DEF CountedInv
        <4>2. /\ Cardinality(Win(k, m)') <= Cardinality(Win(k, m))
              /\ Cardinality(Win(k, m)') \in Nat /\ Cardinality(Win(k, m)) \in Nat
          BY <4>1, FS_Subset, FS_CardinalityType
        <4> QED
          BY <2>3, <3>3, <4>2, LedgerAssumption DEF BudgetInv
      <3>14. \A j \in Keys : KeyInv(j)'
        <4>1. EntryInv(k, z)'
          BY <3>10, <3>12 DEF EntryInv
        <4> QED
          BY <1>1, <1>2, <2>7, <2>10, <3>1, <3>2, <3>3, <3>13, <4>1, OwnKey
             DEF Moves
      <3> QED
        BY <1>2, <2>9, <3>4, <3>6, <3>14, SectionStep
    <2>12. CASE r \notin counted[k]
      <3>1. UNCHANGED <<counted, window>>
        BY <2>1, <2>12
      <3>2. /\ crossed' \in [Keys -> SUBSET {"slots", "tokens"}]
            /\ crossed'[k] = crossed[k] \cup {"slots"}
            /\ \A j \in Keys \ {k} : crossed'[j] = crossed[j]
        BY <2>1, <2>3, <2>12 DEF LedgerType
      <3>3. /\ forgotten' = forgotten \cup {<<k, n>>}
            /\ forgotten' \subseteq Keys \X Minutes
        BY <2>1, <2>2, <2>3, <2>4, <2>12 DEF LedgerType
      <3>4. LedgerType'
        BY <1>2, <2>3, <2>7, <3>1, <3>2, <3>3 DEF LedgerType
      <3>5. ChargeInv' /\ CountedInv'
        BY <1>2, <3>1, SameRequests DEF BeforeAdmission
      <3>6. CountsInv(k, z)'
        <4>1. /\ entries'[z].cooldown_until = entries[z].cooldown_until
              /\ entries'[z].token_count = entries[z].token_count
          BY <2>6, <2>7
        <4>2. ChargeOf(counted[k])' = ChargeOf(counted[k])
          BY <1>2, <3>1 DEF ChargeOf
        <4> QED
          BY <1>2, <2>3, <3>2, <4>1, <4>2 DEF CountsInv
      <3>7. \A m : Win(k, m)' = Win(k, m)
        BY <3>1 DEF Win
      <3>8. WindowsInv(k, z)'
        <4>1. entries'[z].window_minute = n
          BY <2>6, <2>7
        <4>2. \A q \in counted'[k] : window'[q] = n
          BY <2>3, <2>4, <3>1 DEF WindowsInv
        <4>3. \A m \in Minutes :
                m > n /\ <<k, m>> \notin forgotten' => Win(k, m)' = {}
          BY <2>3, <2>4, <3>3, <3>7 DEF WindowsInv
        <4> QED
          BY <3>3, <4>1, <4>2, <4>3 DEF WindowsInv
      <3>9. BudgetInv(k)'
        BY <2>3, <3>1, <3>3, SameBudget
      <3>10. \A j \in Keys : KeyInv(j)'
        <4>1. EntryInv(k, z)'
          BY <3>6, <3>8 DEF EntryInv
        <4> QED
          BY <1>1, <1>2, <2>7, <2>10, <3>1, <3>2, <3>3, <3>9, <4>1, OwnKey
             DEF Moves
      <3> QED
        BY <1>2, <2>9, <3>4, <3>5, <3>10, SectionStep
    <2> QED
      BY <2>11, <2>12
  <1> QED
    BY <1>3, <1>4

-----------------------------------------------------------------------------
(* The steps outside the critical section                                  *)

LEMMA InitType ==
    ASSUME Init
    PROVE  TypeOK
  BY LedgerAssumption DEF Init, TypeOK, EntryType, EmptyEntry, Indices, Minutes,
     NoJob, Labels

LEMMA InitInv ==
    ASSUME Init
    PROVE  LInv
  <1>1. TypeOK
    BY InitType
  <1>2. /\ ReqInv /\ SectionInv
    BY DEF Init, ReqInv, SectionInv, CreateInv, ConsumeInv, AccessLabels,
           LogLabels, BeforeAdmission, Creating, AtEntry, Resetting
  <1>3. ChargeInv
    BY DEF Init, ChargeInv, BeforeAdmission
  <1>4. Placed = {} /\ IsFiniteSet({}) /\ Cardinality({}) = 0
    BY FS_EmptySet DEF Init, Placed
  <1>5. CountedInv
    BY <1>4 DEF Init, CountedInv
  <1>6. ASSUME NEW k \in Keys PROVE KeyInv(k)
    <2>1. EntriesOf(k) = {}
      BY DEF Init, EntriesOf, Prefix
    <2>2. \A m \in Minutes : Win(k, m) = {}
      BY LedgerAssumption DEF Init, Win, Minutes
    <2>3. NoTrace(k)
      BY <2>2 DEF Init, NoTrace
    <2>4. BudgetInv(k)
      BY <1>4, <2>2, LedgerAssumption DEF BudgetInv
    <2> QED
      BY <2>1, <2>3, <2>4 DEF KeyInv
  <1> QED
    BY <1>1, <1>2, <1>3, <1>5, <1>6 DEF LInv

\* A step of one worker's event loop that stores nothing in the ledger: the
\* worker in the critical section, if there is another one, finds what it knew.
LEMMA OutsideStep ==
    ASSUME LInv, NEW w \in Workers,
           UNCHANGED <<entries, entry_count, window, reservation, counted,
                       charge, crossed, cooled>>,
           TypeOK', ReqInv', ChargeInv', \A k \in Keys : KeyInv(k)',
           \A v \in Workers \ {w} :
               /\ pc'[v] = pc[v] /\ req'[v] = req[v]
               /\ slot'[v] = slot[v] /\ now'[v] = now[v],
           pc'[w] \in {"idle", "dead", "access", "log", "lookup", "reconcile"}
    PROVE  LInv'
  <1>1. CountedInv'
    BY DEF LInv, CountedInv, Placed
  <1>2. ASSUME NEW v \in Workers PROVE CreateInv(v)' /\ ConsumeInv(v)'
    <2>1. CASE v = w
      BY <2>1 DEF CreateInv, ConsumeInv, Creating, AtEntry, Resetting
    <2>2. CASE v # w
      <3>1. /\ pc'[v] = pc[v] /\ req'[v] = req[v]
            /\ slot'[v] = slot[v] /\ now'[v] = now[v]
        BY <2>2
      <3>2. /\ Key(v)' = Key(v) /\ EntriesOf(Key(v))' = EntriesOf(Key(v))
            /\ ChargeOf(counted[Key(v)])' = ChargeOf(counted[Key(v)])
        BY <3>1 DEF Key, EntriesOf, Prefix, ChargeOf
      <3>3. WithinTokens(entries[slot[v]])' = WithinTokens(entries[slot[v]])
        BY <3>1 DEF WithinTokens
      <3>4. CreateInv(v) /\ ConsumeInv(v)
        BY DEF LInv, SectionInv
      <3> QED
        BY <3>1, <3>2, <3>3, <3>4 DEF CreateInv, ConsumeInv
    <2> QED
      BY <2>1, <2>2
  <1> QED
    BY <1>1, <1>2 DEF LInv, SectionInv

\* No worker begins or ends a reset outside the critical section.
LEMMA OutsideKeys ==
    ASSUME LInv, NEW w \in Workers,
           UNCHANGED <<entries, entry_count, window, counted, charge, crossed,
                       cooled>>,
           forgotten \subseteq forgotten',
           \A v \in Workers \ {w} : pc'[v] = pc[v] /\ req'[v] = req[v],
           NEW k \in Keys, ~(pc[w] \in Resetting /\ Key(w) = k)
    PROVE  KeyInv(k)'
  <1>1. IsReset(k) => IsReset(k)'
    BY DEF IsReset, Key
  <1> QED
    BY <1>1, LedgerUntouched

\* The other workers' handlers go on with their requests.
LEMMA OutsideRequests ==
    ASSUME LInv, NEW w \in Workers, NEW r,
           \A v \in Workers \ {w} :
               /\ pc'[v] = pc[v] /\ req'[v] = req[v]
               /\ pc[v] \in AccessLabels \cup LogLabels => req[v] # r,
           \A q \in Requests \ {r} :
               owner'[q] = owner[q] /\ status'[q] = status[q],
           pc'[w] \in AccessLabels \cup LogLabels =>
               req'[w] \in Requests /\ owner'[req'[w]] = w,
           pc'[w] \in AccessLabels => status'[req'[w]] = "handling",
           pc'[w] \in LogLabels => status'[req'[w]] = "logging"
    PROVE  ReqInv'
  <1>1. ASSUME NEW v \in Workers \ {w}
        PROVE  /\ pc'[v] \in AccessLabels \cup LogLabels =>
                     req'[v] \in Requests /\ owner'[req'[v]] = v
               /\ pc'[v] \in AccessLabels => status'[req'[v]] = "handling"
               /\ pc'[v] \in LogLabels => status'[req'[v]] = "logging"
    <2>1. pc'[v] = pc[v] /\ req'[v] = req[v]
      OBVIOUS
    <2>2. /\ pc[v] \in AccessLabels \cup LogLabels =>
                /\ req[v] \in Requests /\ owner[req[v]] = v
                /\ req[v] # r
          /\ pc[v] \in AccessLabels => status[req[v]] = "handling"
          /\ pc[v] \in LogLabels => status[req[v]] = "logging"
      BY DEF LInv, ReqInv
    <2> QED
      BY <2>1, <2>2
  <1> QED
    BY <1>1 DEF ReqInv

\* Nothing is charged, and no request counted, outside the critical section.
LEMMA OutsideCharges ==
    ASSUME LInv, NEW w \in Workers, NEW r \in Requests,
           UNCHANGED <<window, charge, reservation>>,
           \A v \in Workers \ {w} : pc'[v] = pc[v] /\ req'[v] = req[v],
           \A q \in Requests \ {r} : status'[q] = status[q],
           status'[r] # "new",
           status'[r] \in {"handling", "admitted"} =>
               charge[r] = reservation[r],
           pc'[w] \in BeforeAdmission =>
               window[req'[w]] = -1 /\ charge[req'[w]] = 0,
           pc'[w] # "admit",
           pc'[w] \in {"log", "reconcile"} =>
               charge[req'[w]] = reservation[req'[w]]
    PROVE  ChargeInv'
  <1>1. ASSUME NEW v \in Workers \ {w}
        PROVE  /\ pc'[v] \in BeforeAdmission => window'[req'[v]] = -1
               /\ pc'[v] \in BeforeAdmission \ {"admit"} => charge'[req'[v]] = 0
               /\ pc'[v] \in {"log", "reconcile"} =>
                     charge'[req'[v]] = reservation'[req'[v]]
    <2>1. pc'[v] = pc[v] /\ req'[v] = req[v]
      OBVIOUS
    <2>2. /\ pc[v] \in BeforeAdmission => window[req[v]] = -1
          /\ pc[v] \in BeforeAdmission \ {"admit"} => charge[req[v]] = 0
          /\ pc[v] \in {"log", "reconcile"} =>
                charge[req[v]] = reservation[req[v]]
      BY DEF LInv, ChargeInv
    <2> QED
      BY <2>1, <2>2
  <1>2. ASSUME NEW q \in Requests
        PROVE  /\ status'[q] = "new" =>
                     window'[q] = -1 /\ charge'[q] = 0 /\ reservation'[q] = 0
               /\ status'[q] \in {"handling", "admitted"} =>
                     charge'[q] = reservation'[q]
    <2>1. CASE q = r
      BY <2>1
    <2>2. CASE q # r
      BY <2>2 DEF LInv, ChargeInv
    <2> QED
      BY <2>1, <2>2
  <1> QED
    BY <1>1, <1>2 DEF ChargeInv

LEMMA AccessStartStep ==
    ASSUME LInv, NEW w \in Workers, NEW r \in Requests, AccessStart(w, r)
    PROVE  LInv'
  <1>1. /\ pc[w] = "idle" /\ status[r] = "new"
        /\ pc' = [pc EXCEPT ![w] = "access"]
        /\ req' = [req EXCEPT ![w] = r]
        /\ now' = [now EXCEPT ![w] = minute]
        /\ status' = [status EXCEPT ![r] = "handling"]
        /\ owner' = [owner EXCEPT ![r] = w]
        /\ UNCHANGED <<entries, entry_count, mutex, minute, slot, job, window,
                       reservation, counted, charge, crossed, cooled,
                       forgotten, crashes>>
    BY DEF AccessStart, shared, ghosts
  <1>2. TypeOK'
    BY <1>1 DEF LInv, TypeOK, Labels
  <1>3. \A v \in Workers : pc[v] \in AccessLabels \cup LogLabels => req[v] # r
    BY <1>1 DEF LInv, ReqInv
  <1>4. ReqInv'
    <2>1. /\ pc'[w] = "access" /\ req'[w] = r
          /\ owner'[r] = w /\ status'[r] = "handling"
          /\ \A v \in Workers \ {w} : pc'[v] = pc[v] /\ req'[v] = req[v]
          /\ \A q \in Requests \ {r} :
                owner'[q] = owner[q] /\ status'[q] = status[q]
      BY <1>1 DEF LInv, TypeOK
    <2>2. "access" \in AccessLabels /\ "access" \notin LogLabels
      BY DEF AccessLabels, LogLabels, BeforeAdmission
    <2> QED
      BY <1>3, <2>1, <2>2, OutsideRequests
  <1>5. window[r] = -1 /\ charge[r] = 0 /\ reservation[r] = 0
    BY <1>1 DEF LInv, ChargeInv
  <1>6. ChargeInv'
    <2>1. /\ pc'[w] = "access" /\ req'[w] = r /\ status'[r] = "handling"
          /\ \A v \in Workers \ {w} : pc'[v] = pc[v] /\ req'[v] = req[v]
          /\ \A q \in Requests \ {r} : status'[q] = status[q]
      BY <1>1 DEF LInv, TypeOK
    <2> QED
      BY <1>1, <1>5, <2>1, OutsideCharges DEF BeforeAdmission
  <1>7. \A k \in Keys : KeyInv(k)'
    BY <1>1, OutsideKeys DEF Resetting, LInv, TypeOK
  <1> QED
    BY <1>1, <1>2, <1>4, <1>6, <1>7, OutsideStep DEF LInv, TypeOK

LEMMA LogStartStep ==
    ASSUME LInv, NEW w \in Workers, NEW r \in Requests, LogStart(w, r)
    PROVE  LInv'
  <1>1. /\ pc[w] = "idle" /\ Waiting(r) /\ owner[r] = w
        /\ UNCHANGED <<entries, entry_count, mutex, minute, slot, now, owner,
                       window, reservation, counted, charge, crossed, cooled,
                       forgotten, crashes>>
        /\ \/ /\ status' = [status EXCEPT ![r] = "done"]
              /\ UNCHANGED <<pc, req, job>>
           \/ /\ pc' = [pc EXCEPT ![w] = "log"]
              /\ req' = [req EXCEPT ![w] = r]
              /\ \E j \in LogJobs(r) \ {NoJob} : job' = [job EXCEPT ![w] = j]
              /\ status' = [status EXCEPT ![r] = "logging"]
    BY DEF LogStart, shared, ghosts
  <1>2. LogJobs(r) \subseteq [actual : Nat, until : Nat, giveback : BOOLEAN]
    <2>1. /\ ActualTokens \subseteq Nat
          /\ \A c \in Cooldowns : minute + c \in Nat
      BY LedgerAssumption DEF LInv, TypeOK, Minutes
    <2> DEFINE A == IF status[r] = "admitted" /\ reservation[r] > 0
                    THEN ActualTokens ELSE {0}
               U == IF status[r] = "admitted"
                    THEN {IF c = 0 THEN 0 ELSE minute + c : c \in Cooldowns}
                    ELSE {0}
    <2>2. A \subseteq Nat /\ U \subseteq Nat
      BY <2>1
    <2>3. [actual |-> 0, until |-> 0, giveback |-> TRUE] \in
              [actual : Nat, until : Nat, giveback : BOOLEAN]
      OBVIOUS
    <2>4. LogJobs(r) \subseteq [actual : A, until : U, giveback : {FALSE}] \cup
              {[actual |-> 0, until |-> 0, giveback |-> TRUE]}
      BY DEF LogJobs
    <2> HIDE DEF A, U
    <2>5. [actual : A, until : U, giveback : {FALSE}] \subseteq
              [actual : Nat, until : Nat, giveback : BOOLEAN]
      BY <2>2
    <2> QED
      BY <2>3, <2>4, <2>5
  <1>3. TypeOK'
    <2>1. job' \in [Workers -> [actual : Nat, until : Nat, giveback : BOOLEAN]]
      <3>1. PICK j \in [actual : Nat, until : Nat, giveback : BOOLEAN] :
                job' = job \/ job' = [job EXCEPT ![w] = j]
        BY <1>1, <1>2 DEF LInv, TypeOK
      <3> QED
        BY <3>1 DEF LInv, TypeOK
    <2>2. /\ pc' \in [Workers -> Labels]
          /\ req' \in [Workers -> Requests \cup {None}]
          /\ status' \in [Requests -> {"new", "handling", "admitted", "denied",
                                      "logging", "done", "dead"}]
      <3>1. "log" \in Labels
        BY DEF Labels
      <3>2. PICK s \in {"done", "logging"} : status' = [status EXCEPT ![r] = s]
        BY <1>1
      <3>3. pc' \in [Workers -> Labels]
        BY <1>1, <3>1 DEF LInv, TypeOK
      <3>4. req' \in [Workers -> Requests \cup {None}]
        BY <1>1 DEF LInv, TypeOK
      <3>5. status' \in [Requests -> {"new", "handling", "admitted", "denied",
                                      "logging", "done", "dead"}]
        BY <3>2 DEF LInv, TypeOK
      <3> QED
        BY <3>3, <3>4, <3>5
    <2>3. \A v \in Workers : pc'[v] = pc[v] \/ (v = w /\ pc'[v] = "log")
      BY <1>1 DEF LInv, TypeOK
    <2> QED
      BY <1>1, <2>1, <2>2, <2>3 DEF LInv, TypeOK
  <1>4. \A v \in Workers : pc[v] \in AccessLabels \cup LogLabels => req[v] # r
    <2>1. status[r] # "handling" /\ status[r] # "logging"
      BY <1>1 DEF Waiting
    <2> QED
      BY <2>1 DEF LInv, ReqInv
  <1>5. ReqInv'
    <2>1. /\ \A v \in Workers \ {w} : pc'[v] = pc[v] /\ req'[v] = req[v]
          /\ \A q \in Requests \ {r} :
                owner'[q] = owner[q] /\ status'[q] = status[q]
          /\ \/ pc'[w] = "idle"
             \/ /\ pc'[w] = "log" /\ req'[w] = r
                /\ owner'[r] = w /\ status'[r] = "logging"
      BY <1>1 DEF LInv, TypeOK
    <2>2. /\ "log" \notin AccessLabels /\ "idle" \notin AccessLabels
          /\ "idle" \notin LogLabels
      BY DEF AccessLabels, LogLabels, BeforeAdmission
    <2> QED
      BY <1>4, <2>1, <2>2, OutsideRequests
  <1>6. status[r] \in {"handling", "admitted"} => charge[r] = reservation[r]
    BY DEF LInv, ChargeInv
  <1>7. ChargeInv'
    <2>1. ~(LogJobs(r) \subseteq {NoJob}) => status[r] = "admitted"
      <3>1. status[r] # "admitted" =>
                LogJobs(r) = [actual : {0}, until : {0}, giveback : {FALSE}]
        BY DEF LogJobs
      <3>2. ASSUME NEW j \in [actual : {0}, until : {0}, giveback : {FALSE}]
            PROVE  j = NoJob
        <4>1. j.actual = 0 /\ j.until = 0 /\ j.giveback = FALSE
          OBVIOUS
        <4>2. j = [actual |-> j.actual, until |-> j.until,
                   giveback |-> j.giveback]
          OBVIOUS
        <4> QED
          BY <4>1, <4>2 DEF NoJob
      <3> QED
        BY <3>1, <3>2
    <2>2. /\ \A v \in Workers \ {w} : pc'[v] = pc[v] /\ req'[v] = req[v]
          /\ \A q \in Requests \ {r} : status'[q] = status[q]
          /\ \/ pc'[w] = "idle" /\ status'[r] = "done"
             \/ /\ pc'[w] = "log" /\ req'[w] = r /\ status'[r] = "logging"
                /\ status[r] = "admitted"
      BY <1>1, <2>1 DEF LInv, TypeOK
    <2> QED
      BY <1>1, <1>6, <2>2, OutsideCharges DEF BeforeAdmission
  <1>8. \A k \in Keys : KeyInv(k)'
    BY <1>1, OutsideKeys DEF Resetting, LInv, TypeOK
  <1>9. /\ pc'[w] \in {"idle", "log"}
        /\ \A v \in Workers \ {w} :
               /\ pc'[v] = pc[v] /\ req'[v] = req[v]
               /\ slot'[v] = slot[v] /\ now'[v] = now[v]
    BY <1>1 DEF LInv, TypeOK
  <1> QED
    BY <1>1, <1>3, <1>5, <1>7, <1>8, <1>9, OutsideStep

LEMMA ShmtxLockStep ==
    ASSUME LInv, NEW w \in Workers, ShmtxLock(w)
    PROVE  LInv'
  <1> DEFINE label == IF pc[w] = "access" THEN "lookup" ELSE "reconcile"
  <1>1. /\ pc[w] \in {"access", "log"} /\ mutex = None /\ mutex' = w
        /\ pc' = [pc EXCEPT ![w] = label]
        /\ UNCHANGED <<entries, entry_count, minute, req, slot, now, job,
                       status, owner, window, reservation, counted, charge,
                       crossed, cooled, forgotten, crashes>>
    BY DEF ShmtxLock, request, ghosts
  <1>2. TypeOK'
    <2>1. pc' \in [Workers -> Labels] /\ pc'[w] \in {"lookup", "reconcile"}
      BY <1>1 DEF LInv, TypeOK, Labels
    <2>2. \A v \in Workers \ {w} :
            pc'[v] = pc[v] /\ pc[v] \in {"idle", "dead", "access", "log"}
      BY <1>1, LedgerAssumption DEF LInv, TypeOK
    <2>3. \A v \in Workers :
            /\ pc'[v] \notin {"idle", "dead", "access", "log"} => mutex' = v
            /\ mutex' = v => pc'[v] \notin {"idle", "access", "log"}
      BY <1>1, <2>1, <2>2
    <2> QED
      BY <1>1, <2>1, <2>3 DEF LInv, TypeOK
  <1>3. ReqInv'
    <2>1. /\ pc[w] \in AccessLabels \/ pc[w] \in LogLabels
          /\ pc'[w] \in AccessLabels <=> pc[w] \in AccessLabels
          /\ pc'[w] \in LogLabels <=> pc[w] \in LogLabels
          /\ \A v \in Workers \ {w} : pc'[v] = pc[v]
      BY <1>1 DEF LInv, TypeOK, AccessLabels, LogLabels, BeforeAdmission
    <2>2. \A v \in Workers :
            /\ pc'[v] \in AccessLabels => pc[v] \in AccessLabels
            /\ pc'[v] \in LogLabels => pc[v] \in LogLabels
      BY <2>1
    <2> QED
      BY <1>1, <2>2 DEF LInv, ReqInv
  <1>4. ChargeInv'
    BY <1>1 DEF LInv, TypeOK, ChargeInv, BeforeAdmission
  <1>5. \A k \in Keys : KeyInv(k)'
    BY <1>1, OutsideKeys DEF Resetting, LInv, TypeOK
  <1> QED
    BY <1>1, <1>2, <1>3, <1>4, <1>5, OutsideStep DEF LInv, TypeOK

LEMMA ShmtxUnlockStep ==
    ASSUME LInv, NEW w \in Workers, ShmtxUnlock(w)
    PROVE  LInv'
  <1>1. PICK r \in Requests : r = req[w]
    BY DEF ShmtxUnlock, LInv, ReqInv, AccessLabels, LogLabels, BeforeAdmission
  <1>2. PICK s : s = CASE pc[w] = "allow" -> "admitted"
                       [] pc[w] = "deny"  -> "denied"
                       [] OTHER           -> "done"
    OBVIOUS
  <1>3. /\ pc[w] \in {"allow", "deny", "logged"} /\ mutex' = None
        /\ pc' = [pc EXCEPT ![w] = "idle"]
        /\ req' = [req EXCEPT ![w] = None]
        /\ slot' = [slot EXCEPT ![w] = 0]
        /\ job' = [job EXCEPT ![w] = NoJob]
        /\ now' = [now EXCEPT ![w] = 0]
        /\ status' = [status EXCEPT ![r] = s]
        /\ UNCHANGED <<entries, entry_count, minute, owner, window,
                       reservation, counted, charge, crossed, cooled,
                       forgotten, crashes>>
    BY <1>1, <1>2 DEF ShmtxUnlock, ghosts
  <1>4. /\ pc[w] = "allow" => s = "admitted"
        /\ pc[w] = "deny" => s = "denied"
        /\ pc[w] = "logged" => s = "done"
    BY <1>2
  <1>5. TypeOK'
    <2>1. \A v \in Workers \ {w} : pc[v] \in {"idle", "dead", "access", "log"}
      BY <1>3, SectionIsMutex DEF LInv, SectionLabels, Labels
    <2>2. \A v \in Workers :
            /\ pc'[v] \notin {"idle", "dead", "access", "log"} => mutex' = v
            /\ mutex' = v => pc'[v] \notin {"idle", "access", "log"}
      BY <1>3, <2>1, LedgerAssumption DEF LInv, TypeOK
    <2>3. /\ pc' \in [Workers -> Labels]
          /\ req' \in [Workers -> Requests \cup {None}]
          /\ slot' \in [Workers -> 0..EntriesPerStripe]
          /\ now' \in [Workers -> Minutes]
          /\ job' \in [Workers -> [actual : Nat, until : Nat, giveback : BOOLEAN]]
      <3>1. "idle" \in Labels /\ 0 \in 0..EntriesPerStripe /\ 0 \in Minutes
        BY LedgerAssumption DEF Labels, Minutes
      <3>2. NoJob \in [actual : Nat, until : Nat, giveback : BOOLEAN]
        BY DEF NoJob
      <3> QED
        BY <1>3, <3>1, <3>2 DEF LInv, TypeOK
    <2>4. status' \in [Requests -> {"new", "handling", "admitted", "denied",
                                    "logging", "done", "dead"}]
      BY <1>3, <1>4 DEF LInv, TypeOK
    <2> QED
      BY <1>3, <2>2, <2>3, <2>4 DEF LInv, TypeOK
  <1>6. \A v \in Workers \ {w} :
            pc[v] \in AccessLabels \cup LogLabels => req[v] # r
    <2>1. pc[w] \in AccessLabels \cup LogLabels
      BY <1>3 DEF AccessLabels, LogLabels, BeforeAdmission
    <2>2. owner[r] = w
      BY <1>1, <2>1 DEF LInv, ReqInv
    <2> QED
      BY <2>2 DEF LInv, ReqInv
  <1>7. ReqInv'
    <2>1. /\ pc'[w] = "idle"
          /\ \A v \in Workers \ {w} : pc'[v] = pc[v] /\ req'[v] = req[v]
          /\ \A q \in Requests \ {r} :
                owner'[q] = owner[q] /\ status'[q] = status[q]
      BY <1>3 DEF LInv, TypeOK
    <2>2. "idle" \notin AccessLabels /\ "idle" \notin LogLabels
      BY DEF AccessLabels, LogLabels, BeforeAdmission
    <2> QED
      BY <1>6, <2>1, <2>2, OutsideRequests
  <1>8. /\ status[r] \in {"handling", "logging"}
        /\ pc[w] = "allow" => status[r] = "handling"
    BY <1>1, <1>3 DEF LInv, ReqInv, AccessLabels, LogLabels, BeforeAdmission
  <1>9. ChargeInv'
    <2>1. /\ pc'[w] = "idle" /\ status'[r] = s
          /\ \A v \in Workers \ {w} : pc'[v] = pc[v] /\ req'[v] = req[v]
          /\ \A q \in Requests \ {r} : status'[q] = status[q]
      BY <1>3 DEF LInv, TypeOK
    <2>2. /\ s \in {"admitted", "denied", "done"}
          /\ s = "admitted" => charge[r] = reservation[r]
      BY <1>3, <1>4, <1>8 DEF LInv, ChargeInv
    <2> QED
      BY <1>3, <2>1, <2>2, OutsideCharges DEF BeforeAdmission
  <1>10. \A k \in Keys : KeyInv(k)'
    BY <1>3, OutsideKeys DEF Resetting, LInv, TypeOK
  <1> QED
    BY <1>3, <1>5, <1>7, <1>9, <1>10, OutsideStep DEF LInv, TypeOK

LEMMA TickStep ==
    ASSUME LInv, Tick
    PROVE  LInv'
  <1>1. /\ minute < MaxMinute /\ minute' = minute + 1
        /\ UNCHANGED <<entries, entry_count, mutex, pc, req, slot, now, job,
                       status, owner, window, reservation, counted, charge,
                       crossed, cooled, forgotten, crashes>>
    BY DEF Tick, shared, workers, request, ghosts
  <1>2. minute' \in Minutes
    BY <1>1, LedgerAssumption DEF LInv, TypeOK, Minutes
  <1>3. TypeOK'
    BY <1>1, <1>2 DEF LInv, TypeOK
  <1>4. ReqInv' /\ ChargeInv' /\ CountedInv'
    BY <1>1 DEF LInv, ReqInv, ChargeInv, CountedInv, Placed
  <1>5. ASSUME NEW k \in Keys PROVE KeyInv(k)'
    <2>1. IsReset(k) => IsReset(k)'
      BY <1>1 DEF IsReset, Key
    <2> QED
      BY <1>1, <2>1, LedgerUntouched
  <1>6. ASSUME NEW v \in Workers PROVE CreateInv(v)' /\ ConsumeInv(v)'
    <2>1. /\ Key(v)' = Key(v) /\ EntriesOf(Key(v))' = EntriesOf(Key(v))
          /\ ChargeOf(counted[Key(v)])' = ChargeOf(counted[Key(v)])
      BY <1>1 DEF Key, EntriesOf, Prefix, ChargeOf
    <2>2. WithinTokens(entries[slot[v]])' = WithinTokens(entries[slot[v]])
      BY <1>1 DEF WithinTokens
    <2>3. CreateInv(v) /\ ConsumeInv(v)
      BY DEF LInv, SectionInv
    <2> QED
      BY <1>1, <2>1, <2>2, <2>3 DEF CreateInv, ConsumeInv
  <1> QED
    BY <1>3, <1>4, <1>5, <1>6 DEF LInv, SectionInv

LEMMA ReapStep ==
    ASSUME LInv, NEW w \in Workers, Reap(w)
    PROVE  LInv'
  <1>1. /\ pc[w] = "dead"
        /\ mutex' = IF mutex = w THEN None ELSE mutex
        /\ pc' = [pc EXCEPT ![w] = "idle"]
        /\ UNCHANGED <<entries, entry_count, minute, req, slot, now, job,
                       status, owner, window, reservation, counted, charge,
                       crossed, cooled, forgotten, crashes>>
    BY DEF Reap, Goto, request, ghosts
  <1>2. /\ pc'[w] = "idle"
        /\ \A v \in Workers \ {w} :
               /\ pc'[v] = pc[v] /\ req'[v] = req[v]
               /\ slot'[v] = slot[v] /\ now'[v] = now[v]
    BY <1>1 DEF LInv, TypeOK
  <1>3. TypeOK'
    <2>1. \A v \in Workers :
            /\ pc'[v] \notin {"idle", "dead", "access", "log"} => mutex' = v
            /\ mutex' = v => pc'[v] \notin {"idle", "access", "log"}
      BY <1>1, <1>2, LedgerAssumption DEF LInv, TypeOK
    <2>2. pc' \in [Workers -> Labels] /\ mutex' \in Workers \cup {None}
      BY <1>1 DEF LInv, TypeOK, Labels
    <2> QED
      BY <1>1, <2>1, <2>2 DEF LInv, TypeOK
  <1>4. "idle" \notin AccessLabels /\ "idle" \notin LogLabels
    BY DEF AccessLabels, LogLabels, BeforeAdmission
  <1>5. ReqInv'
    BY <1>1, <1>2, <1>4 DEF LInv, ReqInv
  <1>6. ChargeInv'
    BY <1>1, <1>2, <1>4 DEF LInv, ChargeInv, AccessLabels
  <1>7. \A k \in Keys : KeyInv(k)'
    BY <1>1, <1>2, OutsideKeys DEF Resetting
  <1> QED
    BY <1>1, <1>2, <1>3, <1>5, <1>6, <1>7, OutsideStep

LEMMA CrashStep ==
    ASSUME LInv, NEW w \in Workers, Crash(w)
    PROVE  LInv'
  <1>1. /\ crashes < MaxCrashes /\ crashes' = crashes + 1
        /\ pc' = [pc EXCEPT ![w] = "dead"]
        /\ req' = [req EXCEPT ![w] = None]
        /\ slot' = [slot EXCEPT ![w] = 0]
        /\ now' = [now EXCEPT ![w] = 0]
        /\ job' = [job EXCEPT ![w] = NoJob]
        /\ status' = [r \in Requests |->
                        IF owner[r] = w /\ status[r] # "done" THEN "dead"
                                                              ELSE status[r]]
        /\ forgotten' = IF pc[w] \in {"reset tokens", "reset window"}
                        THEN forgotten \cup
                                {<<Key(w), entries[slot[w]].window_minute>>}
                        ELSE forgotten
        /\ UNCHANGED <<entries, entry_count, mutex, minute, owner, window,
                       reservation, counted, charge, crossed, cooled>>
    BY DEF Crash, shared
  <1>2. /\ pc'[w] = "dead"
        /\ \A v \in Workers \ {w} :
               /\ pc'[v] = pc[v] /\ req'[v] = req[v]
               /\ slot'[v] = slot[v] /\ now'[v] = now[v]
    BY <1>1 DEF LInv, TypeOK
  <1>3. pc[w] \in Resetting =>
            /\ Key(w) \in Keys /\ EntriesOf(Key(w)) = {slot[w]}
            /\ EntryInv(Key(w), slot[w])
            /\ entries[slot[w]].window_minute \in Minutes
    BY KeyOfWorker, AtEntrySlot
       DEF Resetting, AtEntry, SectionLabels, Labels, EntryType
  <1>4. TypeOK'
    <2>1. forgotten \subseteq forgotten' /\ forgotten' \subseteq Keys \X Minutes
      <3>1. CASE pc[w] \in Resetting
        <4>1. PICK k \in Keys, m \in Minutes :
                  k = Key(w) /\ m = entries[slot[w]].window_minute
          BY <1>3, <3>1
        <4>2. forgotten' = forgotten \cup {<<k, m>>}
          BY <1>1, <3>1, <4>1 DEF Resetting
        <4>3. forgotten \subseteq Keys \X Minutes
          BY DEF LInv, TypeOK
        <4> QED
          BY <4>2, <4>3
      <3>2. CASE pc[w] \notin Resetting
        BY <1>1, <3>2 DEF LInv, TypeOK, Resetting
      <3> QED
        BY <3>1, <3>2
    <2>2. \A v \in Workers :
            /\ pc'[v] \notin {"idle", "dead", "access", "log"} => mutex' = v
            /\ mutex' = v => pc'[v] \notin {"idle", "access", "log"}
      BY <1>1, <1>2 DEF LInv, TypeOK
    <2>3. crashes' \in 0..MaxCrashes
      <3>1. crashes \in 0..MaxCrashes /\ MaxCrashes \in Nat
        BY LedgerAssumption DEF LInv, TypeOK
      <3>2. crashes < MaxCrashes /\ crashes' = crashes + 1
        BY <1>1
      <3> QED
        BY <3>1, <3>2
    <2>4. /\ pc' \in [Workers -> Labels]
          /\ req' \in [Workers -> Requests \cup {None}]
          /\ slot' \in [Workers -> 0..EntriesPerStripe]
          /\ now' \in [Workers -> Minutes]
          /\ job' \in [Workers -> [actual : Nat, until : Nat, giveback : BOOLEAN]]
      <3>1. "dead" \in Labels /\ 0 \in 0..EntriesPerStripe /\ 0 \in Minutes
        BY LedgerAssumption DEF Labels, Minutes
      <3>2. NoJob \in [actual : Nat, until : Nat, giveback : BOOLEAN]
        BY DEF NoJob
      <3> QED
        BY <1>1, <3>1, <3>2 DEF LInv, TypeOK
    <2>5. status' \in [Requests -> {"new", "handling", "admitted", "denied",
                                    "logging", "done", "dead"}]
      BY <1>1 DEF LInv, TypeOK
    <2> QED
      BY <1>1, <2>1, <2>2, <2>3, <2>4, <2>5 DEF LInv, TypeOK
  <1>5. "dead" \notin AccessLabels /\ "dead" \notin LogLabels
    BY DEF AccessLabels, LogLabels, BeforeAdmission
  <1>6. ReqInv'
    <2>1. ASSUME NEW v \in Workers, pc'[v] \in AccessLabels \cup LogLabels
          PROVE  /\ pc'[v] = pc[v] /\ req'[v] = req[v]
                 /\ req[v] \in Requests /\ owner[req[v]] = v
                 /\ status'[req[v]] = status[req[v]]
      <3>1. v # w /\ pc'[v] = pc[v] /\ req'[v] = req[v]
        BY <1>2, <1>5, <2>1
      <3>2. req[v] \in Requests /\ owner[req[v]] = v
        BY <2>1, <3>1 DEF LInv, ReqInv
      <3> QED
        BY <1>1, <3>1, <3>2
    <2>2. ASSUME NEW v \in Workers
          PROVE  /\ pc[v] \in AccessLabels => status[req[v]] = "handling"
                 /\ pc[v] \in LogLabels => status[req[v]] = "logging"
      BY DEF LInv, ReqInv
    <2>3. owner' = owner
      BY <1>1
    <2> QED
      BY <2>1, <2>2, <2>3 DEF ReqInv
  <1>7. ChargeInv'
    <2>1. \A r \in Requests : status'[r] = status[r] \/ status'[r] = "dead"
      BY <1>1
    <2>2. UNCHANGED <<window, charge, reservation>>
      BY <1>1
    <2>3. \A r \in Requests :
            /\ status'[r] = "new" =>
                  window[r] = -1 /\ charge[r] = 0 /\ reservation[r] = 0
            /\ status'[r] \in {"handling", "admitted"} =>
                  charge[r] = reservation[r]
      BY <2>1 DEF LInv, ChargeInv
    <2>4. ASSUME NEW v \in Workers
          PROVE  /\ pc'[v] \in BeforeAdmission => window[req'[v]] = -1
                 /\ pc'[v] \in BeforeAdmission \ {"admit"} => charge[req'[v]] = 0
                 /\ pc'[v] \in {"log", "reconcile"} =>
                       charge[req'[v]] = reservation[req'[v]]
      <3>1. CASE v = w
        BY <1>2, <1>5, <3>1 DEF AccessLabels
      <3>2. CASE v # w
        BY <1>2, <3>2 DEF LInv, ChargeInv
      <3> QED
        BY <3>1, <3>2
    <2> QED
      BY <2>2, <2>3, <2>4 DEF ChargeInv
  <1>8. ASSUME NEW k \in Keys PROVE KeyInv(k)'
    <2>1. forgotten \subseteq forgotten'
      BY <1>1
    <2>2. CASE ~(pc[w] \in Resetting /\ Key(w) = k)
      BY <1>1, <1>2, <2>1, <2>2, OutsideKeys
    <2>3. CASE pc[w] \in Resetting /\ Key(w) = k
      <3>1. PICK i, m : i = slot[w] /\ m = entries[i].window_minute
        OBVIOUS
      <3>2. /\ EntriesOf(k) = {i} /\ EntryInv(k, i) /\ BudgetInv(k)
            /\ EntriesOf(k)' = {i} /\ <<k, m>> \in forgotten'
            /\ m \in Minutes
        BY <1>1, <1>3, <2>3, <3>1 DEF LInv, KeyInv, EntriesOf, Prefix, Resetting
      <3>3. \A n : Win(k, n)' = Win(k, n)
        BY <1>1 DEF Win
      <3>4. ChargeOf(counted[k])' = ChargeOf(counted[k])
        BY <1>1 DEF ChargeOf
      <3>5. CountsInv(k, i)'
        BY <1>1, <3>2, <3>4 DEF EntryInv, CountsInv
      <3>6. WindowsInv(k, i)'
        <4>1. entries'[i].window_minute = m
          BY <1>1, <3>1
        <4>2. \A r \in counted'[k] : window'[r] = m
          BY <1>1, <3>1, <3>2 DEF EntryInv, WindowsInv
        <4>3. \A n \in Minutes :
                n > m /\ <<k, n>> \notin forgotten' => Win(k, n)' = {}
          BY <2>1, <3>1, <3>2, <3>3 DEF EntryInv, WindowsInv
        <4> QED
          BY <3>2, <4>1, <4>2, <4>3 DEF WindowsInv
      <3>7. BudgetInv(k)'
        BY <1>1, <2>1, <3>2, SameBudget
      <3> QED
        BY <3>2, <3>5, <3>6, <3>7 DEF KeyInv, EntryInv
    <2> QED
      BY <2>2, <2>3
  <1> QED
    BY <1>1, <1>2, <1>4, <1>6, <1>7, <1>8, OutsideStep

-----------------------------------------------------------------------------
(* The theorems                                                            *)

LEMMA StutterStep ==
    ASSUME LInv, UNCHANGED vars
    PROVE  LInv'
  <1>1. UNCHANGED <<entries, entry_count, mutex, minute, pc, req, slot, now,
                    job, status, owner, window, reservation, counted, charge,
                    crossed, cooled, forgotten, crashes>>
    BY DEF vars, shared, workers, request, ghosts
  <1>2. TypeOK' /\ ReqInv' /\ ChargeInv' /\ CountedInv'
    BY <1>1 DEF LInv, TypeOK, ReqInv, ChargeInv, CountedInv, Placed
  <1>3. ASSUME NEW k \in Keys PROVE KeyInv(k)'
    <2>1. IsReset(k) => IsReset(k)'
      BY <1>1 DEF IsReset, Key
    <2> QED
      BY <1>1, <2>1, LedgerUntouched
  <1>4. ASSUME NEW v \in Workers PROVE CreateInv(v)' /\ ConsumeInv(v)'
    <2>1. /\ Key(v)' = Key(v) /\ EntriesOf(Key(v))' = EntriesOf(Key(v))
          /\ ChargeOf(counted[Key(v)])' = ChargeOf(counted[Key(v)])
      BY <1>1 DEF Key, EntriesOf, Prefix, ChargeOf
    <2>2. WithinTokens(entries[slot[v]])' = WithinTokens(entries[slot[v]])
      BY <1>1 DEF WithinTokens
    <2>3. CreateInv(v) /\ ConsumeInv(v)
      BY DEF LInv, SectionInv
    <2> QED
      BY <1>1, <2>1, <2>2, <2>3 DEF CreateInv, ConsumeInv
  <1> QED
    BY <1>2, <1>3, <1>4 DEF LInv, SectionInv

\* Every store of every handler, every worker death and every reaping keeps
\* the invariant.
LEMMA NextKeepsLInv ==
    ASSUME LInv, [Next]_vars
    PROVE  LInv'
  <1>1. ASSUME NEW w \in Workers, AccessSection(w) PROVE LInv'
    <2>1. CASE LookupHit(w)
      BY <2>1, LookupHitStep
    <2>2. CASE LookupAppend(w)
      BY <2>2, LookupAppendStep
    <2>3. CASE AppendKey(w)
      BY <2>3, AppendKeyStep
    <2>4. CASE AppendCount(w)
      BY <2>4, AppendCountStep
    <2>5. CASE LookupEvict(w)
      BY <2>5, LookupEvictStep
    <2>6. CASE EvictFields(w)
      BY <2>6, EvictFieldsStep
    <2>7. CASE EvictKey(w)
      BY <2>7, EvictKeyStep
    <2>8. CASE CheckCooldown(w)
      BY <2>8, CheckCooldownStep
    <2>9. CASE ResetRequests(w)
      BY <2>9, ResetRequestsStep
    <2>10. CASE ResetTokens(w)
      BY <2>10, ResetTokensStep
    <2>11. CASE ResetWindow(w)
      BY <2>11, ResetWindowStep
    <2>12. CASE SameWindow(w)
      BY <2>12, SameWindowStep
    <2>13. CASE TouchAndCheck(w)
      BY <2>13, TouchAndCheckStep
    <2>14. CASE ReserveStep(w)
      BY <2>14, ReserveStepStep
    <2>15. CASE AdmitStep(w)
      BY <2>15, AdmitStepStep
    <2> QED
      BY <1>1, <2>1, <2>2, <2>3, <2>4, <2>5, <2>6, <2>7, <2>8, <2>9, <2>10,
         <2>11, <2>12, <2>13, <2>14, <2>15 DEF AccessSection
  <1>2. ASSUME NEW w \in Workers, LogSection(w) PROVE LInv'
    BY <1>2, ReconcileTokensStep, SetCooldownStep, ReturnRequestSlotStep
       DEF LogSection
  <1>3. ASSUME NEW w \in Workers, Section(w) PROVE LInv'
    BY <1>1, <1>2, <1>3, ShmtxUnlockStep DEF Section
  <1>4. CASE Next
    BY <1>3, <1>4, AccessStartStep, LogStartStep, ShmtxLockStep, CrashStep,
       ReapStep, TickStep, StutterStep DEF Next, Quiescent
  <1> QED
    BY <1>4, StutterStep

LEMMA LInvHolds == Spec => []LInv
  <1>1. Init => LInv
    BY InitInv
  <1>2. LInv /\ [Next]_vars => LInv'
    BY NextKeepsLInv
  <1> QED
    BY <1>1, <1>2, PTL DEF Spec

(* The state has its types, and the slab mutex is held by exactly the      *)
(* worker that is inside the critical section or died there.               *)
THEOREM LedgerTypeOK == Spec => []TypeOK
  <1>1. LInv => TypeOK
    BY DEF LInv
  <1> QED
    BY <1>1, LInvHolds, PTL

(* getOrCreateEntry never gives a caller two entries, whichever store its  *)
(* worker was killed after.                                                *)
THEOREM LedgerUniqueKey == Spec => []UniqueKey
  <1>1. ASSUME LInv PROVE UniqueKey
    <2> SUFFICES ASSUME NEW i \in 1..entry_count, NEW j \in 1..entry_count,
                        entries[i].key_hash = entries[j].key_hash,
                        entries[i].key_hash # None
                 PROVE  i = j
      BY DEF UniqueKey
    <2>1. LedgerType
      BY <1>1 DEF LInv, TypeOK, LedgerType
    <2>2. i \in Indices
      BY <2>1, CountType, LedgerAssumption DEF Indices
    <2>3. entries[i].key_hash \in Keys
      BY <2>1, <2>2 DEF LedgerType, EntryType
    <2>4. i \in EntriesOf(entries[i].key_hash) /\ j \in EntriesOf(entries[i].key_hash)
      BY DEF EntriesOf, Prefix
    <2> QED
      BY <1>1, <2>3, <2>4 DEF LInv, KeyInv
  <1> QED
    BY <1>1, LInvHolds, PTL

(* Whenever the mutex is free, req_count is the number of requests that    *)
(* keep a slot of the entry (reservations, returned slots and deaths       *)
(* between two stores included), unless a slot of another window was given *)
(* back.                                                                   *)
THEOREM LedgerSlotsExact == Spec => []SlotsExact
  <1>1. LInv => SlotsExact
    BY DEF LInv, KeyInv, EntryInv, CountsInv, SlotsExact
  <1> QED
    BY <1>1, LInvHolds, PTL

(* No worker consumes counters of an older window, even after a death in   *)
(* the middle of the reset of checkAndConsume.                             *)
THEOREM LedgerCountsBelongToWindow == Spec => []CountsBelongToWindow
  <1>1. LInv => CountsBelongToWindow
    BY DEF LInv, KeyInv, EntryInv, WindowsInv, CountsBelongToWindow
  <1> QED
    BY <1>1, LInvHolds, PTL

(* The request budget holds for every number of workers, requests, entries *)
(* and deaths, in every window whose counts the ledger did not lose.       *)
THEOREM LedgerRequestBudget == Spec => []RequestBudget
  <1>1. LInv => RequestBudget
    BY DEF LInv, KeyInv, BudgetInv, RequestBudget
  <1> QED
    BY <1>1, LInvHolds, PTL

(* An admitted request is never without its tokens in the ledger: the      *)
(* comment on the order of the two stores at the end of checkAndConsume.   *)
THEOREM LedgerTokensCoverCommitments == Spec => []TokensCoverCommitments
  <1>1. LInv => TokensCoverCommitments
    BY DEF LInv, KeyInv, EntryInv, CountsInv, TokensCoverCommitments
  <1> QED
    BY <1>1, LInvHolds, PTL

(* No request passes checkAndConsume before the longest cooldown that a    *)
(* LOG handler has put on its caller's entry is over.                      *)
THEOREM LedgerCooldownHonoured == Spec => []CooldownHonoured
  <1>1. LInv => CooldownHonoured
    BY DEF LInv, SectionInv, ConsumeInv, AtEntry, CooldownHonoured
  <1> QED
    BY <1>1, LInvHolds, PTL

\* Only the last store of checkAndConsume counts a request.
LEMMA OnlyAdmissionCounts ==
    ASSUME LInv, [Next]_vars, NEW k \in Keys,
           counted[k] # counted'[k], counted[k] \subseteq counted'[k]
    PROVE  \E w \in Workers : AdmitStep(w)
  <1>1. counted' # counted
    OBVIOUS
  <1>2. Next
    BY <1>1 DEF vars, ghosts
  <1>3. PICK w \in Workers : Section(w)
    BY <1>1, <1>2 DEF Next, AccessStart, LogStart, ShmtxLock, Crash, Reap, Tick,
       Quiescent, ghosts, vars
  <1>4. \A j, X : ~ X \subseteq counted[j] \/ ~ (counted[k] # counted'[k]
            /\ counted' = [counted EXCEPT ![j] = X])
    <2> SUFFICES ASSUME NEW j, NEW X, X \subseteq counted[j],
                        counted' = [counted EXCEPT ![j] = X]
                 PROVE  FALSE
      OBVIOUS
    <2> QED
      BY DEF LInv, TypeOK
  <1>5. CASE LogSection(w)
    <2>1. ReturnRequestSlot(w)
      BY <1>1, <1>5 DEF LogSection, ReconcileTokens, SetCooldown
    <2>2. counted' = [counted EXCEPT ![Key(w)] = counted[Key(w)] \ {req[w]}]
      BY <1>1, <2>1 DEF ReturnRequestSlot
    <2> QED
      BY <1>4, <2>2
  <1>6. CASE AccessSection(w)
    <2>1. LookupEvict(w) \/ ResetRequests(w) \/ AdmitStep(w)
      BY <1>1, <1>6 DEF AccessSection, LookupHit, LookupAppend, AppendKey,
         AppendCount, EvictFields, EvictKey, CheckCooldown, ResetTokens,
         ResetWindow, SameWindow, TouchAndCheck, ReserveStep, ghosts
    <2>2. CASE LookupEvict(w)
      <3>1. counted' = [counted EXCEPT ![entries[Oldest].key_hash] = {}]
        BY <1>1, <2>2 DEF LookupEvict, StartsOver, ghosts
      <3> QED
        BY <1>4, <3>1
    <2>3. CASE ResetRequests(w)
      <3>1. counted' = [counted EXCEPT ![Key(w)] = {}]
        BY <2>3 DEF ResetRequests, StartsOver
      <3> QED
        BY <1>4, <3>1
    <2> QED
      BY <2>1, <2>2, <2>3
  <1>7. ~ShmtxUnlock(w)
    BY <1>1 DEF ShmtxUnlock, ghosts
  <1> QED
    BY <1>3, <1>5, <1>6, <1>7 DEF Section

(* The token budget is a budget: an admission never brings what the        *)
(* counted requests of the window are charged above tokens_per_minute.     *)
THEOREM LedgerAdmissionWithinTokens == Spec => AdmissionWithinTokens
  <1>1. ASSUME LInv, [Next]_vars, NEW k \in Keys,
               counted[k] # counted'[k], counted[k] \subseteq counted'[k],
               "tokens" \notin crossed[k], TokenLimit > 0
        PROVE  ChargeOf(counted'[k]) <= TokenLimit
    <2>1. PICK w \in Workers : AdmitStep(w)
      BY <1>1, OnlyAdmissionCounts
    <2>2. PICK r \in Requests : r = req[w] /\ k = Key(w) /\ pc[w] = "admit"
      <3>1. pc[w] = "admit" /\ pc[w] \in SectionLabels
        BY <2>1 DEF AdmitStep, InSection, SectionLabels, Labels
      <3>2. req[w] \in Requests /\ Key(w) \in Keys
        BY <1>1, <3>1, KeyOfWorker
      <3>3. k = Key(w)
        BY <1>1, <2>1 DEF AdmitStep, LInv, TypeOK
      <3> QED
        BY <3>1, <3>2, <3>3
    <2>3. counted'[k] = counted[k] \cup {r}
      BY <1>1, <2>1, <2>2 DEF AdmitStep, LInv, TypeOK
    <2>4. r \notin counted[k]
      BY <1>1, <2>3
    <2>5. /\ IsFiniteSet(counted[k])
          /\ \A q \in counted[k] : charge[q] \in Nat
          /\ charge[r] \in Nat
      BY <1>1, ChargeType DEF LInv, TypeOK
    <2>6. ChargeOf(counted'[k]) = ChargeOf(counted[k]) + charge[r]
      BY <2>3, <2>4, <2>5, TokensAdd DEF ChargeOf
    <2>7. PICK t \in Nat : t = entries[slot[w]].token_count
      BY <1>1, <2>2, AtEntrySlot DEF AtEntry, EntryType
    <2>8. t <= TokenLimit /\ t >= ChargeOf(counted[k]) + charge[r]
      BY <1>1, <2>2, <2>7 DEF LInv, SectionInv, ConsumeInv
    <2>9. ChargeOf(counted[k]) \in Nat
      BY <2>5, TokensFinite DEF ChargeOf
    <2> QED
      BY <2>5, <2>6, <2>7, <2>8, <2>9, LedgerAssumption
  <1>2. LInv /\ [Next]_vars =>
            [\A k \in Keys :
                counted[k] # counted'[k] /\ counted[k] \subseteq counted'[k]
                    /\ "tokens" \notin crossed[k] /\ TokenLimit > 0
                => ChargeOf(counted'[k]) <= TokenLimit]_vars
    BY <1>1
  <1> QED
    BY <1>2, LInvHolds, PTL DEF Spec, AdmissionWithinTokens

=============================================================================
