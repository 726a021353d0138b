--------------------------- MODULE SpendLedgerProofs ---------------------------
(***************************************************************************)
(* Theorems about SpendLedger for every number of workers, requests and    *)
(* entries, all scopes, budgets, modes and costs, and any number of worker *)
(* deaths.                                                                 *)
(*                                                                         *)
(* The handlers hold the mutex for one scope at a time, so between two of  *)
(* their scopes an entry must already balance: the inductive invariant     *)
(* SInv says what each entry holds at any moment (Balanced), how far each  *)
(* handler has come (Handling), what a request has reserved when none      *)
(* works on it (Settled), what a worker knows that evicts an entry, and    *)
(* that between the two stores of LOG a worker holds the mutex, so that    *)
(* nobody reads the amount from which the cost is still missing.           *)
(***************************************************************************)
EXTENDS SpendLedger, OrderLemmas

-----------------------------------------------------------------------------
(* The inductive invariant                                                 *)

InHandler == {"check", "release", "log", "charge"}

\* Between the two stores of LOG a worker holds the mutex, and the entry is
\* still there.
Charging(w) ==
    /\ mutex = w /\ slot[w] = 0 /\ job[w].adds
    /\ Visits(w) # {} /\ EntriesOf(Key(w)) # {}

\* A handler works on a request of its own, and on its way through the scopes
\* it has reserved those before it, or those from it on are left to release.
Handling(w) ==
    /\ pc[w] \in InHandler =>
          req[w] \in Requests /\ owner[req[w]] = w /\ scope[w] > 0
    /\ pc[w] \in {"check", "release"} =>
          status[req[w]] = "handling" /\ taken[req[w]] = Month(w)
    /\ pc[w] \in {"log", "charge"} => status[req[w]] = "logging"
    /\ pc[w] = "charge" => Charging(w)
    /\ pc[w] = "check" => \A i \in reserved[req[w]] : i < scope[w]
    /\ pc[w] = "release" => \A i \in reserved[req[w]] : scope[w] <= i

\* What a request has reserved when no handler works on it.
Settled(r) ==
    /\ reserved[r] \subseteq 1..Len(Scopes[r])
    /\ status[r] = "new" => owner[r] = None
    /\ status[r] \in {"new", "denied"} => reserved[r] = {}
    /\ status[r] = "dead" => reserved[r] = {} \/ r \in stranded

Reserving == {r \in Requests : reserved[r] # {}}

\* While a worker evicts, it holds the mutex, and its key has no entry.
Evicting(w) ==
    slot[w] # 0 =>
        /\ mutex = w /\ Wanted(w)
        /\ EntriesOf(Key(w)) = {}
        /\ slot[w] <= entry_count

\* A key has at most one entry, which says what the requests have committed;
\* without one they have committed nothing.
Balanced(k) ==
    /\ \A i, j \in EntriesOf(k) : i = j
    /\ ~LostCount(k) =>
        /\ \A i \in EntriesOf(k) : entries[i].spend_micros + Owed(k) = Commitment(k)
        /\ EntriesOf(k) = {} => Holders(k) = {} /\ recorded[k] = 0

Keys == Ids \X Months

SInv ==
    /\ TypeOK
    /\ IsFiniteSet(Reserving)
    /\ \A w \in Workers : Handling(w)
    /\ \A r \in Requests : Settled(r)
    /\ \A w \in Workers : Evicting(w)
    /\ \A k \in Keys : Balanced(k)

-----------------------------------------------------------------------------
(* Lemmas about the operators of the model                                 *)

LEMMA MonthType ==
    ASSUME NEW m \in 0..MaxMinute
    PROVE  MonthOf(m) \in Months
  <1>1. MinutesPerMonth \in Nat \ {0} /\ MaxMinute \in Nat
    BY SpendAssumption
  <1>2. m \in Nat /\ m <= MaxMinute
    BY <1>1
  <1> QED
    BY <1>1, <1>2 DEF MonthOf, Months

LEMMA MonusType ==
    ASSUME NEW a \in Nat, NEW b \in Nat
    PROVE  /\ MonusOf(a, b) \in Nat
           /\ b <= a => MonusOf(a, b) = a - b
  BY DEF MonusOf

\* The victim of an eviction is an entry.
LEMMA VictimIsEntry ==
    ASSUME TypeOK, NEW w \in Workers
    PROVE  Victim(w) \in Indices
  <1> DEFINE stale == {i \in Indices : entries[i].year_month # Month(w)}
             used == {entries[i].last_used : i \in Indices}
             least == {i \in Indices : \A j \in Indices :
                        entries[i].last_used <= entries[j].last_used}
  <1>1. \A i \in Indices : entries[i].last_used \in Nat
    BY SpendAssumption DEF TypeOK, EntryType
  <1>2. Indices \subseteq Nat /\ Indices # {}
    <2>1. 1 \in Indices
      BY SpendAssumption DEF Indices
    <2> QED
      BY <2>1 DEF Indices
  <1>3. stale # {} => Min(stale) \in Indices
    <2>1. stale \in SUBSET Nat
      BY <1>2
    <2> QED
      BY <2>1, MinIsLeast
  <1>4. Min(least) \in Indices
    <2>1. used \in SUBSET Nat /\ used # {}
      BY <1>1, <1>2
    <2>2. PICK m \in used : \A n \in used : m <= n
      BY <2>1, SmallestExists
    <2>3. least \in SUBSET Nat /\ least # {}
      BY <1>2, <2>2
    <2> QED
      BY <2>3, MinIsLeast
  <1> QED
    BY <1>3, <1>4 DEF Victim

LEMMA VisitsIsRest ==
    ASSUME NEW w
    PROVE  Visits(w) \subseteq Rest(w)
  BY DEF Visits

\* The scope at which a handler's loop is.
LEMMA AtScope ==
    ASSUME SInv, NEW w \in Workers, pc[w] \in InHandler, Visits(w) # {}
    PROVE  /\ req[w] \in Requests
           /\ At(w) \in Visits(w) /\ \A i \in Visits(w) : At(w) <= i
           /\ At(w) \in 1..Len(Scopes[req[w]]) /\ scope[w] <= At(w)
           /\ Id(w) \in Ids /\ Id(w) = Scopes[req[w]][At(w)]
           /\ Month(w) \in Months
           /\ Key(w) \in Keys /\ Key(w) # None
           /\ Key(w) = <<Id(w), Month(w)>>
  <1>1. req[w] \in Requests /\ scope[w] > 0 /\ scope[w] \in Nat
    BY DEF SInv, Handling, TypeOK
  <1>2. Scopes[req[w]] \in Seq(Ids)
    BY <1>1, SpendAssumption
  <1>3. Len(Scopes[req[w]]) \in Nat
    BY <1>2
  <1>4. Visits(w) \in SUBSET Nat
    BY <1>1, <1>3, VisitsIsRest DEF Rest
  <1>5. At(w) \in Visits(w) /\ \A i \in Visits(w) : At(w) <= i
    BY <1>4, MinIsLeast DEF At
  <1>6. At(w) \in 1..Len(Scopes[req[w]]) /\ scope[w] <= At(w)
    BY <1>1, <1>3, <1>5, VisitsIsRest DEF Rest
  <1>7. Id(w) \in Ids
    BY <1>2, <1>6 DEF Id
  <1>8. Month(w) \in Months
    BY MonthType DEF SInv, TypeOK, Month
  <1>9. Months \subseteq Nat
    BY DEF Months
  <1>10. Key(w) = <<Id(w), Month(w)>> /\ Key(w) \in Keys
    BY <1>7, <1>8 DEF Key, Keys
  <1>11. Key(w) # None
    <2>1. Key(w) \in Ids \X Nat
      <3>1. Month(w) \in Nat
        BY <1>8, <1>9
      <3>2. <<Id(w), Month(w)>> \in Ids \X Nat
        BY <1>7, <3>1
      <3> QED
        BY <1>10, <3>2
    <2> QED
      BY <2>1, SpendAssumption
  <1> QED
    BY <1>1, <1>5, <1>6, <1>7, <1>8, <1>10, <1>11 DEF Id

\* A key's entry, if it has one, is found.
LEMMA Finds ==
    ASSUME SInv, NEW k \in Keys, EntriesOf(k) # {}
    PROVE  /\ FindEntry(k) \in Indices
           /\ EntriesOf(k) = {FindEntry(k)}
           /\ FindEntry(k) \in 1..entry_count
           /\ entries[FindEntry(k)].key_hash = k
           /\ SpendOf(k) = entries[FindEntry(k)].spend_micros
           /\ SpendOf(k) \in Nat
  <1>1. PICK i \in EntriesOf(k) : EntriesOf(k) = {i}
    BY DEF SInv, Balanced
  <1>2. i \in 1..entry_count /\ i \in Indices /\ entries[i].key_hash = k
    BY SpendAssumption DEF EntriesOf, Indices, SInv, TypeOK
  <1>3. FindEntry(k) = i
    BY <1>1, <1>2, MinOfOne DEF FindEntry, Indices
  <1>4. entries[i].spend_micros \in Nat
    BY <1>2 DEF SInv, TypeOK, EntryType
  <1> QED
    BY <1>1, <1>2, <1>3, <1>4 DEF SpendOf

LEMMA HoldersFinite ==
    ASSUME SInv, NEW k \in Keys
    PROVE  /\ IsFiniteSet(Holders(k)) /\ Cardinality(Holders(k)) \in Nat
           /\ recorded[k] \in Nat /\ Reserve \in Nat
           /\ Commitment(k) \in Nat
           /\ Commitment(k) = Reserve * Cardinality(Holders(k)) + recorded[k]
  <1>1. Holders(k) \in SUBSET Reserving
    BY DEF Holders, Reserving
  <1>2. IsFiniteSet(Holders(k)) /\ Cardinality(Holders(k)) \in Nat
    BY <1>1, FS_Subset, FS_CardinalityType DEF SInv
  <1>3. recorded[k] \in Nat /\ Reserve \in Nat
    BY SpendAssumption DEF SInv, TypeOK, Keys
  <1>4. Reserve * Cardinality(Holders(k)) \in Nat
    BY <1>2, <1>3
  <1> QED
    BY <1>2, <1>3, <1>4 DEF Commitment

\* What SetSpend stores, and that it leaves all keys and the other entries.
LEMMA SetSpendStores ==
    ASSUME SInv, NEW w \in Workers, NEW amount \in Nat,
           Key(w) \in Keys, EntriesOf(Key(w)) # {}, SetSpend(w, amount),
           entry_count' = entry_count
    PROVE  /\ entries' \in [Indices -> EntryType]
           /\ \A k \in Keys : EntriesOf(k)' = EntriesOf(k)
           /\ \A i \in EntriesOf(Key(w)) : entries'[i].spend_micros = amount
           /\ \A k \in Keys : k # Key(w) => \A i \in EntriesOf(k) :
                entries'[i].spend_micros = entries[i].spend_micros
  <1> DEFINE n == FindEntry(Key(w))
             e == [entries[n] EXCEPT !.spend_micros = amount,
                                     !.last_used = now[w]]
  <1>1. /\ n \in Indices /\ EntriesOf(Key(w)) = {n}
        /\ entries[n].key_hash = Key(w)
    BY Finds
  <1>2. /\ entries \in [Indices -> EntryType] /\ now[w] \in 0..MaxMinute
        /\ entries[n] \in EntryType
        /\ entry_count \in 0..EntriesPerStripe
    BY <1>1 DEF SInv, TypeOK
  <1>3. entries' = [entries EXCEPT ![n] = e]
    BY <1>2 DEF SetSpend
  <1>4. /\ e \in EntryType /\ e.spend_micros = amount
        /\ e.key_hash = entries[n].key_hash
    BY <1>2 DEF EntryType
  <1> HIDE DEF e, n
  <1>5. \A i \in 1..entry_count : i \in Indices
    BY <1>2, SpendAssumption DEF Indices
  <1>6. \A i \in Indices : entries'[i].key_hash = entries[i].key_hash
    BY <1>1, <1>2, <1>3, <1>4
  <1>7. \A k \in Keys : EntriesOf(k)' = EntriesOf(k)
    BY <1>5, <1>6 DEF EntriesOf
  <1>8. ASSUME NEW k \in Keys, k # Key(w), NEW i \in EntriesOf(k)
        PROVE  entries'[i] = entries[i]
    <2>1. i \in Indices /\ i # n
      BY <1>1, <1>5, <1>8 DEF EntriesOf
    <2> QED
      BY <1>2, <1>3, <2>1
  <1> QED
    BY <1>1, <1>2, <1>3, <1>4, <1>7, <1>8

-----------------------------------------------------------------------------
(* What a step must leave alone to keep a part of the invariant            *)

LEMMA HandlingKept ==
    ASSUME NEW u, Handling(u), pc'[u] = pc[u],
           pc[u] = "charge" /\ Charging(u) => Charging(u)',
           pc[u] \in InHandler =>
              /\ req'[u] = req[u] /\ scope'[u] = scope[u] /\ now'[u] = now[u]
              /\ owner'[req[u]] = owner[req[u]]
              /\ status'[req[u]] = status[req[u]]
              /\ taken'[req[u]] = taken[req[u]]
              /\ reserved'[req[u]] = reserved[req[u]]
    PROVE  Handling(u)'
  BY DEF Handling, InHandler, Month

LEMMA KeyKept ==
    ASSUME NEW u, pc'[u] = pc[u], req'[u] = req[u], scope'[u] = scope[u],
           now'[u] = now[u], job'[u] = job[u], reserved'[req[u]] = reserved[req[u]]
    PROVE  Visits(u)' = Visits(u) /\ Key(u)' = Key(u)
  <1>1. Visits(u)' = Visits(u)
    BY DEF Visits, Rest
  <1> QED
    BY <1>1 DEF Key, Id, Month, At

LEMMA ChargingKept ==
    ASSUME NEW u, Charging(u), mutex' = mutex, slot'[u] = slot[u],
           pc'[u] = pc[u], req'[u] = req[u], scope'[u] = scope[u],
           now'[u] = now[u], job'[u] = job[u], reserved'[req[u]] = reserved[req[u]],
           \A k \in {Key(u)} : EntriesOf(k)' = EntriesOf(k)
    PROVE  Charging(u)'
  <1>1. Visits(u)' = Visits(u) /\ Key(u)' = Key(u)
    BY KeyKept
  <1>2. EntriesOf(Key(u))' = EntriesOf(Key(u))
    <2>1. PICK k \in {Key(u)} : EntriesOf(k)' = EntriesOf(k)
      OBVIOUS
    <2>2. EntriesOf(Key(u))' = EntriesOf(k)'
      BY <1>1 DEF EntriesOf
    <2> QED
      BY <2>1, <2>2
  <1> QED
    BY <1>1, <1>2 DEF Charging

LEMMA SettledKept ==
    ASSUME NEW r, Settled(r), reserved'[r] = reserved[r],
           status'[r] = status[r], owner'[r] = owner[r],
           r \in stranded => r \in stranded'
    PROVE  Settled(r)'
  BY DEF Settled

LEMMA EvictingKept ==
    ASSUME NEW u \in Workers, Evicting(u),
           slot'[u] # 0 =>
              /\ slot'[u] = slot[u] /\ mutex' = mutex
              /\ pc'[u] = pc[u] /\ req'[u] = req[u] /\ scope'[u] = scope[u]
              /\ now'[u] = now[u] /\ job'[u] = job[u]
              /\ reserved'[req[u]] = reserved[req[u]]
              /\ \A k \in {Key(u)} : EntriesOf(k)' = EntriesOf(k)
              /\ entry_count <= entry_count',
           entry_count \in Nat, entry_count' \in Nat, slot[u] \in Nat
    PROVE  Evicting(u)'
  <1> SUFFICES ASSUME slot'[u] # 0 PROVE Evicting(u)'
    BY DEF Evicting
  <1>1. Visits(u)' = Visits(u)
    BY DEF Visits, Rest
  <1>2. Wanted(u)' = Wanted(u)
    BY <1>1 DEF Wanted, InLoop
  <1>3. PICK k \in {Key(u)} : EntriesOf(k)' = EntriesOf(k)
    OBVIOUS
  <1>4. Key(u)' = k
    BY <1>1 DEF Key, Id, Month, At
  <1>5. EntriesOf(Key(u))' = EntriesOf(Key(u))
    <2>1. EntriesOf(Key(u))' = EntriesOf(k)'
      BY <1>4 DEF EntriesOf
    <2> QED
      BY <1>3, <2>1
  <1> QED
    BY <1>2, <1>5 DEF Evicting

\* Whether a request counts for the entries in which it has reserved.
Counts(r) == status[r] \in {"handling", "admitted", "logging"} \/ r \in stranded

LEMMA HoldersKept ==
    ASSUME NEW k, reserved' = reserved,
           \A r \in Reserving :
              taken'[r] = taken[r] /\ (Counts(r)' <=> Counts(r))
    PROVE  Holders(k)' = Holders(k)
  <1>1. \A r \in Requests : r \notin Reserving => reserved[r] = {}
    BY DEF Reserving
  <1>2. \A r \in Requests : r \in Holders(k)' <=> r \in Holders(k)
    BY <1>1 DEF Holders, Counts
  <1> QED
    BY <1>2 DEF Holders

LEMMA BalancedKept ==
    ASSUME NEW k, Balanced(k),
           EntriesOf(k)' = EntriesOf(k),
           \A i \in EntriesOf(k) :
              entries'[i].spend_micros = entries[i].spend_micros,
           LostCount(k) => LostCount(k)',
           ~LostCount(k)' =>
              /\ Holders(k)' = Holders(k) /\ recorded'[k] = recorded[k]
              /\ Owed(k)' = Owed(k)
    PROVE  Balanced(k)'
  <1>1. ~LostCount(k)' => Commitment(k)' = Commitment(k)
    BY DEF Commitment
  <1> QED
    BY <1>1 DEF Balanced

\* A step of worker w leaves alone what the other workers work on.
OnlyActs(w) ==
    /\ \A u \in Workers \ {w} :
        /\ pc'[u] = pc[u] /\ req'[u] = req[u] /\ scope'[u] = scope[u]
        /\ slot'[u] = slot[u] /\ now'[u] = now[u] /\ job'[u] = job[u]
    /\ \A r \in Requests : owner[r] \in Workers \ {w} =>
        /\ owner'[r] = owner[r] /\ status'[r] = status[r]
        /\ taken'[r] = taken[r] /\ reserved'[r] = reserved[r]
    /\ mutex \in Workers \ {w} =>
        /\ mutex' = mutex /\ entry_count' = entry_count
        /\ \A k \in Keys : EntriesOf(k)' = EntriesOf(k)

LEMMA OthersKept ==
    ASSUME SInv, NEW w \in Workers, OnlyActs(w)
    PROVE  \A u \in Workers \ {w} : Handling(u)' /\ Evicting(u)'
  <1> SUFFICES ASSUME NEW u \in Workers \ {w}
               PROVE  Handling(u)' /\ Evicting(u)'
    OBVIOUS
  <1>1. Handling(u) /\ Evicting(u)
    BY DEF SInv
  <1>2. pc[u] \in InHandler =>
            req[u] \in Requests /\ owner[req[u]] \in Workers \ {w}
    BY <1>1 DEF Handling
  <1>3. Handling(u)'
    <2>1. ASSUME pc[u] = "charge", Charging(u) PROVE Charging(u)'
      <3>1. pc[u] \in InHandler /\ Visits(u) # {} /\ mutex \in Workers \ {w}
        BY <2>1 DEF InHandler, Charging
      <3>2. Key(u) \in Keys
        BY <3>1, AtScope
      <3> QED
        BY <1>2, <2>1, <3>1, <3>2, ChargingKept DEF OnlyActs
    <2> QED
      BY <1>1, <1>2, <2>1, HandlingKept DEF OnlyActs
  <1>4. Evicting(u)'
    <2>1. CASE slot'[u] = 0
      BY <2>1 DEF Evicting
    <2>2. CASE slot'[u] # 0
      <3>1. slot[u] # 0 /\ slot'[u] = slot[u]
        BY <2>2 DEF OnlyActs
      <3>2. mutex = u /\ Wanted(u)
        BY <1>1, <3>1 DEF Evicting
      <3>3. pc[u] \in InHandler /\ Visits(u) # {}
        BY <3>2 DEF Wanted, InLoop, InHandler
      <3>4. Key(u) \in Keys
        BY <3>3, AtScope
      <3>5. entry_count \in Nat /\ slot[u] \in Nat
        BY DEF SInv, TypeOK
      <3>6. /\ mutex' = mutex /\ entry_count' = entry_count
            /\ \A k \in {Key(u)} : EntriesOf(k)' = EntriesOf(k)
        BY <3>2, <3>4 DEF OnlyActs
      <3>7. /\ pc'[u] = pc[u] /\ req'[u] = req[u] /\ scope'[u] = scope[u]
            /\ now'[u] = now[u] /\ job'[u] = job[u]
            /\ reserved'[req[u]] = reserved[req[u]]
        BY <1>2, <3>3 DEF OnlyActs
      <3>8. entry_count <= entry_count' /\ entry_count' \in Nat
        BY <3>5, <3>6
      <3> QED
        BY <1>1, <3>1, <3>5, <3>6, <3>7, <3>8, EvictingKept
    <2> QED
      BY <2>1, <2>2
  <1> QED
    BY <1>3, <1>4

\* A worker that is not between the two stores of LOG neither adds to what is
\* owed nor takes away from it.
LEMMA NothingOwed ==
    ASSUME mutex = None \/ pc[mutex] # "charge"
    PROVE  \A k : Owed(k) = 0
  BY DEF Owed

LEMMA OwedKept ==
    ASSUME SInv, NEW w \in Workers, OnlyActs(w), pc[w] # "charge",
           pc'[w] # "charge", mutex' \in {mutex, None, w}
    PROVE  \A k : Owed(k)' = Owed(k)
  <1>1. mutex \in Workers \cup {None}
    BY DEF SInv, TypeOK
  <1>2. CASE mutex \in {None, w}
    BY <1>2 DEF Owed
  <1>3. ASSUME NEW u \in Workers \ {w}, mutex = u
        PROVE  \A k : Owed(k)' = Owed(k)
    <2>1. mutex' = u /\ pc'[u] = pc[u] /\ job'[u] = job[u]
      BY <1>3 DEF OnlyActs
    <2>2. CASE pc[u] # "charge"
      BY <1>3, <2>1, <2>2 DEF Owed
    <2>3. CASE pc[u] = "charge"
      <3>1. req[u] \in Requests /\ owner[req[u]] = u
        BY <2>3 DEF SInv, Handling, InHandler
      <3>2. Key(u)' = Key(u)
        BY <3>1, KeyKept DEF OnlyActs
      <3>3. Key(mutex)' = Key(u)'
        BY <2>1 DEF Key, Id, Month, At, Visits, Rest
      <3> QED
        BY <1>3, <2>1, <3>2, <3>3 DEF Owed
    <2> QED
      BY <2>2, <2>3
  <1> QED
    BY <1>1, <1>2, <1>3

LEMMA StepKeeps ==
    ASSUME SInv, NEW w \in Workers, OnlyActs(w), TypeOK',
           IsFiniteSet(Reserving'), Handling(w)', Evicting(w)',
           \A r \in Requests : Settled(r)', \A k \in Keys : Balanced(k)'
    PROVE  SInv'
  BY OthersKept, Zenon DEF SInv, Keys, Months, MonthOf, Ids

-----------------------------------------------------------------------------
(* One lemma per action                                                    *)

\* A worker that evicts is in a loop, and its key has no entry.
LEMMA NoEviction ==
    ASSUME SInv, NEW w \in Workers,
           \/ pc[w] \notin {"check", "log"}
           \/ pc[w] \in InHandler /\ Visits(w) = {}
           \/ EntriesOf(Key(w)) # {}
           \/ mutex # w
           \/ pc[w] = "check" /\ ~Hard(req[w])
    PROVE  slot[w] = 0
  BY DEF SInv, Evicting, Wanted, InLoop

LEMMA Types ==
    ASSUME SInv
    PROVE  /\ pc \in [Workers -> {"idle", "check", "release", "log", "charge", "dead"}]
           /\ req \in [Workers -> Requests \cup {None}]
           /\ scope \in [Workers -> Nat]
           /\ slot \in [Workers -> 0..EntriesPerStripe]
           /\ now \in [Workers -> 0..MaxMinute]
           /\ job \in [Workers -> Jobs]
           /\ status \in [Requests -> {"new", "handling", "admitted", "denied",
                                       "logging", "done", "dead"}]
           /\ owner \in [Requests -> Workers \cup {None}]
           /\ reserved \in [Requests -> SUBSET Nat]
           /\ taken \in [Requests -> Months]
  BY DEF SInv, TypeOK

LEMMA AccessStartKeeps ==
    ASSUME SInv, NEW w \in Workers, NEW r \in Requests, AccessStart(w, r)
    PROVE  SInv'
  <1>1. /\ pc[w] = "idle" /\ status[r] = "new"
        /\ owner[r] = None /\ None \notin Workers /\ reserved[r] = {}
        /\ minute \in 0..MaxMinute /\ MonthOf(minute) \in Months
    BY SpendAssumption, MonthType DEF AccessStart, SInv, Settled, TypeOK
  <1>2. slot[w] = 0
    BY <1>1, NoEviction
  <1>3. /\ pc' = [pc EXCEPT ![w] = "check"]
        /\ req' = [req EXCEPT ![w] = r]
        /\ scope' = [scope EXCEPT ![w] = 1]
        /\ now' = [now EXCEPT ![w] = minute]
        /\ status' = [status EXCEPT ![r] = "handling"]
        /\ owner' = [owner EXCEPT ![r] = w]
        /\ taken' = [taken EXCEPT ![r] = MonthOf(minute)]
        /\ UNCHANGED <<entries, entry_count, mutex, minute, slot, job,
                       reserved, stranded, recorded, forgotten, crossed, unpaid,
                       crashes>>
    BY DEF AccessStart, shared
  <1>4. OnlyActs(w)
    BY <1>1, <1>3, Types DEF OnlyActs, EntriesOf
  <1>5. TypeOK'
    BY <1>1, <1>3 DEF SInv, TypeOK
  <1>6. Reserving' = Reserving
    BY <1>3 DEF Reserving
  <1>7. Handling(w)'
    BY <1>1, <1>3, Types DEF Handling, InHandler, Month
  <1>8. ASSUME NEW q \in Requests PROVE Settled(q)'
    <2>1. CASE q = r
      BY <1>1, <1>3, <2>1, Types DEF Settled
    <2>2. CASE q # r
      BY <1>3, <2>2, Types, SettledKept DEF SInv
    <2> QED
      BY <2>1, <2>2
  <1>9. Evicting(w)'
    BY <1>2, <1>3 DEF Evicting
  <1>10. ASSUME NEW k \in Keys PROVE Balanced(k)'
    <2>1. Holders(k)' = Holders(k)
      <3>1. r \notin Reserving
        BY <1>1 DEF Reserving
      <3> QED
        BY <1>3, <3>1, Types, HoldersKept DEF Reserving, Counts
    <2> QED
      BY <1>1, <1>3, <1>4, <2>1, Types, OwedKept, BalancedKept
      DEF SInv, EntriesOf, LostCount
  <1> QED
    BY <1>4, <1>5, <1>6, <1>7, <1>8, <1>9, <1>10, StepKeeps DEF SInv

LEMMA LogStartKeeps ==
    ASSUME SInv, NEW w \in Workers, NEW r \in Requests, LogStart(w, r)
    PROVE  SInv'
  <1>1. /\ pc[w] = "idle" /\ status[r] = "admitted" /\ owner[r] = w
        /\ minute \in 0..MaxMinute
    BY DEF LogStart, SInv, TypeOK
  <1>2. slot[w] = 0
    BY <1>1, NoEviction
  <1>3. PICK j \in Jobs : job' = [job EXCEPT ![w] = j]
    BY DEF LogStart
  <1>4. /\ pc' = [pc EXCEPT ![w] = "log"]
        /\ req' = [req EXCEPT ![w] = r]
        /\ scope' = [scope EXCEPT ![w] = 1]
        /\ now' = [now EXCEPT ![w] = minute]
        /\ status' = [status EXCEPT ![r] = "logging"]
        /\ UNCHANGED <<entries, entry_count, mutex, minute, slot, owner,
                       reserved, taken, stranded, recorded, forgotten,
                       crossed, unpaid, crashes>>
    BY DEF LogStart, shared, ghosts
  <1>5. OnlyActs(w)
    BY <1>1, <1>3, <1>4, Types DEF OnlyActs, EntriesOf
  <1>6. TypeOK'
    BY <1>1, <1>3, <1>4 DEF SInv, TypeOK
  <1>7. Reserving' = Reserving
    BY <1>4 DEF Reserving
  <1>8. Handling(w)'
    BY <1>1, <1>4, Types DEF Handling, InHandler
  <1>9. ASSUME NEW q \in Requests PROVE Settled(q)'
    BY <1>1, <1>4, Types DEF Settled, SInv
  <1>10. Evicting(w)'
    BY <1>2, <1>4 DEF Evicting
  <1>11. ASSUME NEW k \in Keys PROVE Balanced(k)'
    <2>1. Holders(k)' = Holders(k)
      BY <1>1, <1>4, Types, HoldersKept DEF Reserving, Counts
    <2> QED
      BY <1>1, <1>4, <1>5, <2>1, Types, OwedKept, BalancedKept
      DEF SInv, EntriesOf, LostCount
  <1> QED
    BY <1>5, <1>6, <1>7, <1>8, <1>9, <1>10, <1>11, StepKeeps DEF SInv

\* Finish sets the handler's variables back, and the status of its request.
LEMMA FinishStores ==
    ASSUME SInv, NEW w \in Workers, pc[w] \in InHandler, NEW st, Finish(w, st)
    PROVE  /\ req[w] \in Requests /\ owner[req[w]] = w
           /\ pc' = [pc EXCEPT ![w] = "idle"]
           /\ req' = [req EXCEPT ![w] = None]
           /\ scope' = [scope EXCEPT ![w] = 0]
           /\ now' = [now EXCEPT ![w] = 0]
           /\ job' = [job EXCEPT ![w] = NoJob]
           /\ status' = [status EXCEPT ![req[w]] = st]
           /\ NoJob \in Jobs
  BY DEF Finish, SInv, Handling, NoJob, Jobs

\* A handler that ends leaves everything balanced if its request counts as it
\* did, or has reserved nothing.
LEMMA FinishKeeps ==
    ASSUME SInv, NEW w \in Workers, pc[w] \in InHandler \ {"charge"}, slot[w] = 0,
           NEW st \in {"admitted", "denied", "done"}, Finish(w, st),
           UNCHANGED <<shared, minute, slot, owner, reserved, taken, recorded,
                       forgotten, crossed, unpaid, crashes>>,
           stranded \subseteq stranded', stranded' \subseteq Requests,
           stranded' \subseteq stranded \cup {req[w]},
           \/ reserved[req[w]] = {}
           \/ st = "admitted"
           \/ st = "done" /\ req[w] \in stranded'
    PROVE  SInv'
  <1>1. /\ req[w] \in Requests /\ owner[req[w]] = w
        /\ pc' = [pc EXCEPT ![w] = "idle"]
        /\ req' = [req EXCEPT ![w] = None]
        /\ scope' = [scope EXCEPT ![w] = 0]
        /\ now' = [now EXCEPT ![w] = 0]
        /\ job' = [job EXCEPT ![w] = NoJob]
        /\ status' = [status EXCEPT ![req[w]] = st]
        /\ NoJob \in Jobs /\ MaxMinute \in Nat
    BY FinishStores, SpendAssumption
  <1>2. status[req[w]] \in {"handling", "logging"}
    BY DEF SInv, Handling, InHandler
  <1>3. UNCHANGED <<entries, entry_count, mutex>>
    BY DEF shared
  <1>4. OnlyActs(w)
    BY <1>1, <1>3, Types DEF OnlyActs, EntriesOf
  <1>5. TypeOK'
    BY <1>1, <1>3 DEF SInv, TypeOK
  <1>6. Reserving' = Reserving
    BY DEF Reserving
  <1>7. Handling(w)'
    BY <1>1, Types DEF Handling, InHandler
  <1>8. ASSUME NEW q \in Requests PROVE Settled(q)'
    <2>1. CASE q = req[w]
      BY <1>1, <2>1, Types DEF Settled, SInv
    <2>2. CASE q # req[w]
      BY <1>1, <2>2, Types, SettledKept DEF SInv
    <2> QED
      BY <2>1, <2>2
  <1>9. Evicting(w)'
    BY DEF Evicting
  <1>10. ASSUME NEW k \in Keys PROVE Balanced(k)'
    <2>1. ASSUME NEW q \in Reserving PROVE Counts(q)' <=> Counts(q)
      <3>1. CASE q = req[w]
        BY <1>1, <1>2, <2>1, <3>1, Types DEF Counts, Reserving
      <3>2. CASE q # req[w]
        BY <1>1, <2>1, <3>2, Types DEF Counts, Reserving
      <3> QED
        BY <3>1, <3>2
    <2>2. Holders(k)' = Holders(k)
      BY <2>1, HoldersKept
    <2> QED
      BY <1>1, <1>3, <1>4, <2>2, Types, OwedKept, BalancedKept
      DEF SInv, EntriesOf, LostCount
  <1> QED
    BY <1>4, <1>5, <1>6, <1>7, <1>8, <1>9, <1>10, StepKeeps DEF SInv

\* The release of a denied request begins at its first scope.
LEMMA ReleaseBegins ==
    ASSUME SInv, NEW w \in Workers, pc[w] = "check", slot[w] = 0,
           pc' = [pc EXCEPT ![w] = "release"],
           scope' = [scope EXCEPT ![w] = 1],
           UNCHANGED <<req, now, reserved, taken, status, owner, slot>>
    PROVE  Handling(w)' /\ Evicting(w)'
  <1>1. /\ req[w] \in Requests /\ owner[req[w]] = w
        /\ status[req[w]] = "handling" /\ taken[req[w]] = Month(w)
        /\ reserved[req[w]] \subseteq 1..Len(Scopes[req[w]])
    BY DEF SInv, Handling, InHandler, Settled
  <1>2. pc'[w] = "release" /\ scope'[w] = 1
    BY Types
  <1>3. \A i \in reserved[req[w]] : 1 <= i
    BY <1>1
  <1> QED
    BY <1>1, <1>2, <1>3 DEF Handling, Evicting, InHandler, Month

LEMMA QuotaDecidesKeeps ==
    ASSUME SInv, NEW w \in Workers, QuotaDecides(w)
    PROVE  SInv'
  <1>1. pc[w] = "check" /\ Visits(w) = {}
    BY DEF QuotaDecides, LoopDone
  <1>2. pc[w] \in InHandler \ {"charge"} /\ slot[w] = 0
    BY <1>1, NoEviction DEF InHandler
  <1>3. /\ UNCHANGED <<shared, minute, slot, owner, reserved, taken, stranded,
                       recorded, forgotten, crossed, unpaid, crashes>>
        /\ stranded' \subseteq Requests
    BY DEF QuotaDecides, ghosts, SInv, TypeOK
  <1>4. CASE Finish(w, "admitted")
    BY <1>2, <1>3, <1>4, FinishKeeps
  <1>5. CASE /\ pc' = [pc EXCEPT ![w] = "release"]
             /\ scope' = [scope EXCEPT ![w] = 1]
             /\ UNCHANGED <<req, now, job, status>>
    <2>1. UNCHANGED <<entries, entry_count, mutex>>
      BY <1>3 DEF shared
    <2>2. OnlyActs(w)
      BY <1>3, <1>5, <2>1, Types DEF OnlyActs, EntriesOf
    <2>3. TypeOK'
      BY <1>3, <1>5, <2>1 DEF SInv, TypeOK
    <2>4. Reserving' = Reserving
      BY <1>3 DEF Reserving
    <2>5. Handling(w)' /\ Evicting(w)'
      BY <1>1, <1>2, <1>3, <1>5, ReleaseBegins
    <2>6. ASSUME NEW q \in Requests PROVE Settled(q)'
      BY <1>3, <1>5, SettledKept DEF SInv
    <2>7. ASSUME NEW k \in Keys PROVE Balanced(k)'
      <3>1. Holders(k)' = Holders(k)
        BY <1>3, <1>5, HoldersKept DEF Counts
      <3> QED
        BY <1>1, <1>3, <1>5, <2>1, <2>2, <3>1, Types, OwedKept, BalancedKept
        DEF SInv, EntriesOf, LostCount
    <2> QED
      BY <2>2, <2>3, <2>4, <2>5, <2>6, <2>7, StepKeeps DEF SInv
  <1> QED
    BY <1>4, <1>5 DEF QuotaDecides

LEMMA ReleaseDoneKeeps ==
    ASSUME SInv, NEW w \in Workers, ReleaseDone(w)
    PROVE  SInv'
  <1>1. pc[w] = "release" /\ Visits(w) = {}
    BY DEF ReleaseDone, LoopDone
  <1>2. pc[w] \in InHandler \ {"charge"} /\ slot[w] = 0
    BY <1>1, NoEviction DEF InHandler
  <1>3. /\ UNCHANGED <<shared, minute, slot, owner, reserved, taken, stranded,
                       recorded, forgotten, crossed, unpaid, crashes>>
        /\ stranded' \subseteq Requests
    BY DEF ReleaseDone, ghosts, SInv, TypeOK
  <1>4. reserved[req[w]] = {}
    <2>1. /\ req[w] \in Requests
          /\ reserved[req[w]] \subseteq 1..Len(Scopes[req[w]])
          /\ \A i \in reserved[req[w]] : scope[w] <= i
      BY <1>1 DEF SInv, Handling, InHandler, Settled
    <2>2. scope[w] \in Nat
      BY DEF SInv, TypeOK
    <2>3. ASSUME NEW i \in reserved[req[w]] PROVE i \in Visits(w)
      <3>1. i \in Rest(w)
        BY <2>1, <2>2 DEF Rest
      <3> QED
        BY <1>1, <3>1 DEF Visits
    <2> QED
      BY <1>1, <2>3
  <1>5. PICK st \in {"admitted", "denied", "done"} : Finish(w, st)
    BY DEF ReleaseDone
  <1> QED
    BY <1>2, <1>3, <1>4, <1>5, FinishKeeps

LEMMA LogDoneKeeps ==
    ASSUME SInv, NEW w \in Workers, LogDone(w)
    PROVE  SInv'
  <1>1. pc[w] = "log" /\ Visits(w) = {}
    BY DEF LogDone, LoopDone
  <1>2. pc[w] \in InHandler \ {"charge"} /\ slot[w] = 0
    BY <1>1, NoEviction DEF InHandler
  <1>3. req[w] \in Requests /\ stranded \subseteq Requests
    BY <1>2 DEF SInv, Handling, TypeOK
  <1>4. /\ Finish(w, "done")
        /\ UNCHANGED <<shared, minute, slot, owner, reserved, taken, recorded,
                       forgotten, crossed, unpaid, crashes>>
        /\ stranded' = IF reserved[req[w]] = {} THEN stranded
                                                ELSE stranded \cup {req[w]}
    BY DEF LogDone
  <1>5. /\ stranded \subseteq stranded' /\ stranded' \subseteq Requests
        /\ stranded' \subseteq stranded \cup {req[w]}
        /\ reserved[req[w]] = {} \/ req[w] \in stranded'
    BY <1>3, <1>4
  <1> QED
    BY <1>2, <1>4, <1>5, FinishKeeps

\* The clock, and steps that change nothing.
LEMMA ClockKeeps ==
    ASSUME SInv, minute' \in 0..MaxMinute, crashes' = crashes,
           UNCHANGED <<shared, workers, request, ghosts>>
    PROVE  SInv'
  <1>1. UNCHANGED <<entries, entry_count, mutex, pc, req, scope, slot, now,
                    job, status, owner, reserved, taken, stranded, recorded,
                    forgotten, crossed, unpaid, crashes>>
    BY DEF shared, workers, request, ghosts
  <1>2. TypeOK'
    BY <1>1 DEF SInv, TypeOK
  <1>3. Reserving' = Reserving
    BY <1>1 DEF Reserving
  <1>4. \A w \in Workers : Handling(w)'
    BY <1>1, HandlingKept, ChargingKept DEF SInv, EntriesOf
  <1>5. \A r \in Requests : Settled(r)'
    BY <1>1, SettledKept DEF SInv
  <1>6. ASSUME NEW w \in Workers PROVE Evicting(w)'
    BY <1>1 DEF SInv, Evicting, Wanted, InLoop, Visits, Rest, EntriesOf, Key,
                Id, Month, At
  <1>7. ASSUME NEW k \in Keys PROVE Balanced(k)'
    <2>1. Holders(k)' = Holders(k)
      BY <1>1, HoldersKept DEF Counts
    <2>2. Owed(k)' = Owed(k)
      BY <1>1 DEF Owed, Key, Id, Month, At, Visits, Rest
    <2> QED
      BY <1>1, <2>1, <2>2, BalancedKept DEF SInv, EntriesOf, LostCount
  <1> QED
    BY <1>2, <1>3, <1>4, <1>5, <1>6, <1>7 DEF SInv, Keys, Months, MonthOf, Ids

LEMMA CrashKeeps ==
    ASSUME SInv, NEW w \in Workers, Crash(w) PROVE SInv'
  <1> DEFINE lost == {r \in Requests :
                        owner[r] = w /\ status[r] \notin {"denied", "done"}}
  <1>1. /\ crashes' \in 0..MaxCrashes
        /\ pc' = [pc EXCEPT ![w] = "dead"]
        /\ req' = [req EXCEPT ![w] = None]
        /\ scope' = [scope EXCEPT ![w] = 0]
        /\ slot' = [slot EXCEPT ![w] = 0]
        /\ now' = [now EXCEPT ![w] = 0]
        /\ job' = [job EXCEPT ![w] = NoJob]
        /\ status' = [r \in Requests |->
                        IF r \in lost THEN "dead" ELSE status[r]]
        /\ stranded' = stranded \cup {r \in lost : reserved[r] # {}}
        /\ unpaid' = IF pc[w] = "charge" THEN unpaid \cup {Key(w)} ELSE unpaid
        /\ UNCHANGED <<entries, entry_count, mutex, minute, owner, reserved,
                       taken, recorded, forgotten, crossed>>
    BY SpendAssumption DEF Crash, shared, SInv, TypeOK
  <1>2. NoJob \in Jobs /\ MaxMinute \in Nat /\ EntriesPerStripe \in Nat
    BY SpendAssumption DEF NoJob, Jobs
  <1> HIDE DEF lost
  <1>3. \A r \in Requests : r \in lost <=>
            owner[r] = w /\ status[r] \notin {"denied", "done"}
    BY DEF lost
  <1>4. OnlyActs(w)
    BY <1>1, <1>3, Types DEF OnlyActs, EntriesOf
  <1>5. TypeOK'
    BY <1>1, <1>2, <1>3 DEF SInv, TypeOK, lost
  <1>6. Reserving' = Reserving
    BY <1>1 DEF Reserving
  <1>7. Handling(w)' /\ Evicting(w)'
    BY <1>1, Types DEF Handling, Evicting, InHandler
  <1>8. ASSUME NEW q \in Requests PROVE Settled(q)'
    BY <1>1, <1>3, Types DEF Settled, SInv
  <1>9. ASSUME NEW k \in Keys PROVE Balanced(k)'
    <2>1. ASSUME NEW q \in Reserving PROVE Counts(q)' <=> Counts(q)
      <3>1. /\ q \in Requests /\ reserved[q] # {}
            /\ status[q] \in {"new", "handling", "admitted", "denied",
                              "logging", "done", "dead"}
            /\ status[q] \notin {"new", "denied"}
            /\ status[q] = "dead" => q \in stranded
        BY Types DEF Reserving, SInv, Settled
      <3>2. CASE q \in lost
        BY <1>1, <1>3, <3>1, <3>2 DEF Counts
      <3>3. CASE q \notin lost
        BY <1>1, <3>1, <3>3 DEF Counts
      <3> QED
        BY <3>2, <3>3
    <2>2. Holders(k)' = Holders(k)
      BY <1>1, <2>1, HoldersKept
    <2>3. ASSUME ~LostCount(k)' PROVE Owed(k)' = Owed(k)
      <3>1. CASE pc[w] # "charge"
        BY <1>1, <1>4, <3>1, Types, OwedKept
      <3>2. CASE pc[w] = "charge"
        <4>1. mutex = w /\ mutex' = w /\ pc'[w] = "dead"
          BY <1>1, <3>2, Types DEF SInv, Handling, Charging
        <4>2. k # Key(w)
          BY <1>1, <2>3, <3>2 DEF LostCount
        <4> QED
          BY <4>1, <4>2 DEF Owed
      <3> QED
        BY <3>1, <3>2
    <2>4. LostCount(k) => LostCount(k)'
      BY <1>1 DEF LostCount
    <2> QED
      BY <1>1, <2>2, <2>3, <2>4, BalancedKept DEF SInv, EntriesOf
  <1> QED
    BY <1>4, <1>5, <1>6, <1>7, <1>8, <1>9, StepKeeps DEF SInv

LEMMA ReapKeeps ==
    ASSUME SInv, NEW w \in Workers, Reap(w) PROVE SInv'
  <1>1. /\ pc[w] = "dead"
        /\ mutex' = IF mutex = w THEN None ELSE mutex
        /\ pc' = [pc EXCEPT ![w] = "idle"]
        /\ UNCHANGED <<entries, entry_count, minute, req, scope, slot, now,
                       job, status, owner, reserved, taken, stranded,
                       recorded, forgotten, crossed, unpaid, crashes>>
    BY DEF Reap, request, ghosts
  <1>2. slot[w] = 0
    BY <1>1, NoEviction
  <1>3. OnlyActs(w)
    BY <1>1, Types DEF OnlyActs, EntriesOf
  <1>4. TypeOK'
    BY <1>1 DEF SInv, TypeOK
  <1>5. Reserving' = Reserving
    BY <1>1 DEF Reserving
  <1>6. Handling(w)' /\ Evicting(w)'
    BY <1>1, <1>2, Types DEF Handling, Evicting, InHandler
  <1>7. ASSUME NEW q \in Requests PROVE Settled(q)'
    BY <1>1, SettledKept DEF SInv
  <1>8. ASSUME NEW k \in Keys PROVE Balanced(k)'
    <2>1. Holders(k)' = Holders(k)
      BY <1>1, HoldersKept DEF Counts
    <2> QED
      BY <1>1, <1>3, <2>1, Types, OwedKept, BalancedKept
      DEF SInv, EntriesOf, LostCount
  <1> QED
    BY <1>3, <1>4, <1>5, <1>6, <1>7, <1>8, StepKeeps DEF SInv

-----------------------------------------------------------------------------
(* The steps that change an entry                                          *)

LEMMA NoneIsNoKey ==
    ASSUME NEW k \in Keys PROVE k # None
  <1>1. Months \subseteq Nat
    BY DEF Months
  <1>2. k \in Ids \X Nat
    BY <1>1 DEF Keys
  <1> QED
    BY <1>2, SpendAssumption

\* A new entry is balanced: its key had committed nothing, or is not counted
\* any more.
LEMMA BornBalanced ==
    ASSUME SInv, NEW k \in Keys, EntriesOf(k) = {},
           NEW n, EntriesOf(k)' = {n}, entries'[n].spend_micros = 0,
           LostCount(k) => LostCount(k)',
           Holders(k)' = Holders(k), recorded'[k] = recorded[k], Owed(k)' = 0
    PROVE  Balanced(k)'
  <1>1. ASSUME ~LostCount(k)' PROVE Commitment(k)' = 0
    <2>1. Holders(k)' = {} /\ recorded'[k] = 0
      BY <1>1 DEF SInv, Balanced
    <2>2. Cardinality({}) = 0 /\ Reserve * 0 + 0 = 0
      BY FS_EmptySet, SpendAssumption
    <2> QED
      BY <2>1, <2>2 DEF Commitment
  <1> QED
    BY <1>1 DEF Balanced

\* What the three steps of getOrCreateSpendEntry leave alone.
LEMMA CreateKeeps ==
    ASSUME SInv, NEW w \in Workers, CreateFrame(w), mutex \in {None, w},
           pc[w] # "charge",
           entries' \in [Indices -> EntryType],
           entry_count' \in 0..EntriesPerStripe, mutex' = w,
           slot' \in [Workers -> 0..EntriesPerStripe],
           \A u \in Workers \ {w} : slot'[u] = slot[u],
           Evicting(w)',
           \A k \in Keys :
              Holders(k)' = Holders(k) /\ Owed(k) = 0 /\ Owed(k)' = 0
              => Balanced(k)'
    PROVE  SInv'
  <1>1. UNCHANGED <<minute, pc, req, scope, now, job, status, owner, reserved,
                    taken, stranded, recorded, crossed, unpaid, crashes>>
    BY DEF CreateFrame, request
  <1>2. mutex \notin Workers \ {w}
    BY SpendAssumption
  <1>3. OnlyActs(w)
    BY <1>1, <1>2 DEF OnlyActs
  <1>4. TypeOK'
    BY <1>1 DEF SInv, TypeOK
  <1>5. Reserving' = Reserving
    BY <1>1 DEF Reserving
  <1>6. Handling(w)'
    BY <1>1, HandlingKept DEF SInv
  <1>7. \A r \in Requests : Settled(r)'
    BY <1>1, SettledKept DEF SInv
  <1>8. \A k \in Keys : Balanced(k)'
    BY <1>1, HoldersKept DEF Counts, Owed
  <1> QED
    BY <1>3, <1>4, <1>5, <1>6, <1>7, <1>8, StepKeeps DEF SInv

LEMMA NewEntryType ==
    ASSUME SInv, NEW w \in Workers, Key(w) \in Keys, Month(w) \in Months
    PROVE  [key_hash |-> Key(w), spend_micros |-> 0, year_month |-> Month(w),
            last_used |-> now[w]] \in EntryType
  BY Types DEF EntryType, Keys

LEMMA WantedAt ==
    ASSUME SInv, NEW w \in Workers, Wanted(w)
    PROVE  /\ Key(w) \in Keys /\ Month(w) \in Months
           /\ pc[w] # "charge"
  <1>1. /\ pc[w] \in InHandler /\ Visits(w) # {}
        /\ pc[w] # "charge"
    BY DEF Wanted, InLoop, InHandler
  <1> QED
    BY <1>1, AtScope

LEMMA AppendEntryKeeps ==
    ASSUME SInv, NEW w \in Workers, AppendEntry(w) PROVE SInv'
  <1> DEFINE n == entry_count + 1
             e == [key_hash |-> Key(w), spend_micros |-> 0,
                   year_month |-> Month(w), last_used |-> now[w]]
  <1>1. /\ mutex = None /\ EntriesOf(Key(w)) = {}
        /\ entry_count < EntriesPerStripe
        /\ mutex' = w /\ entry_count' = n
        /\ entries' = [entries EXCEPT ![n] = e]
        /\ UNCHANGED <<slot, forgotten>> /\ CreateFrame(w)
        /\ Wanted(w)
    BY DEF AppendEntry
  <1>2. Key(w) \in Keys /\ Month(w) \in Months
    BY <1>1, WantedAt
  <1>3. /\ e \in EntryType /\ e.key_hash = Key(w) /\ e.spend_micros = 0
    BY <1>2, NewEntryType
  <1> HIDE DEF e
  <1>4. /\ entry_count \in Nat /\ entries \in [Indices -> EntryType]
        /\ EntriesPerStripe \in Nat
    BY SpendAssumption DEF SInv, TypeOK
  <1>5. /\ n \in Indices /\ entry_count' \in 0..EntriesPerStripe
        /\ entries' \in [Indices -> EntryType]
        /\ 1..n = (1..entry_count) \cup {n} /\ n \notin 1..entry_count
        /\ 1..entry_count \subseteq Indices
    BY <1>1, <1>3, <1>4 DEF Indices
  <1> HIDE DEF n
  <1>6. entries'[n] = e /\ \A i \in Indices : i # n => entries'[i] = entries[i]
    BY <1>1, <1>4, <1>5
  <1>7. slot[w] = 0
    BY <1>1, SpendAssumption, NoEviction
  <1>8. /\ EntriesOf(Key(w))' = EntriesOf(Key(w))'
        /\ Evicting(w)'
    BY <1>1, <1>7 DEF Evicting
  <1>9. ASSUME NEW k \in Keys, Holders(k)' = Holders(k), Owed(k) = 0,
               Owed(k)' = 0
        PROVE  Balanced(k)'
    <2>1. recorded' = recorded /\ (LostCount(k)' <=> LostCount(k))
      BY <1>1 DEF CreateFrame, LostCount
    <2>2. CASE k = Key(w)
      <3>1. EntriesOf(k) = {}
        BY <1>1, <2>2
      <3>2. \A i \in 1..entry_count : entries'[i].key_hash # k
        BY <1>5, <1>6, <3>1 DEF EntriesOf
      <3>3. EntriesOf(k)' = {n}
        BY <1>1, <1>3, <1>5, <1>6, <2>2, <3>2 DEF EntriesOf
      <3> QED
        BY <1>3, <1>6, <1>9, <2>1, <3>1, <3>3, BornBalanced
    <2>3. CASE k # Key(w)
      <3>1. EntriesOf(k)' = EntriesOf(k)
        BY <1>1, <1>3, <1>5, <1>6, <2>3 DEF EntriesOf
      <3>2. \A i \in EntriesOf(k) : entries'[i] = entries[i]
        BY <1>5, <1>6 DEF EntriesOf
      <3> QED
        BY <1>9, <2>1, <3>1, <3>2, BalancedKept DEF SInv
    <2> QED
      BY <2>2, <2>3
  <1>10. \A u \in Workers \ {w} : slot'[u] = slot[u]
    BY <1>1
  <1>11. slot' \in [Workers -> 0..EntriesPerStripe]
    BY <1>1, Types
  <1> QED
    BY <1>1, <1>5, <1>8, <1>9, <1>10, <1>11, WantedAt, CreateKeeps

LEMMA EvictWithdrawKeeps ==
    ASSUME SInv, NEW w \in Workers, EvictWithdraw(w) PROVE SInv'
  <1> DEFINE n == Victim(w)
             e == [entries[n] EXCEPT !.key_hash = None]
  <1>1. /\ mutex = None /\ EntriesOf(Key(w)) = {}
        /\ entry_count = EntriesPerStripe
        /\ mutex' = w /\ entry_count' = entry_count
        /\ slot' = [slot EXCEPT ![w] = n]
        /\ entries' = [entries EXCEPT ![n].key_hash = None]
        /\ forgotten' = forgotten \cup {entries[n].key_hash}
        /\ CreateFrame(w) /\ Wanted(w)
    BY DEF EvictWithdraw
  <1>2. Key(w) \in Keys
    BY <1>1, WantedAt
  <1>3. n \in Indices
    BY VictimIsEntry DEF SInv
  <1> HIDE DEF n
  <1>4. /\ entries \in [Indices -> EntryType] /\ entries[n] \in EntryType
        /\ EntriesPerStripe \in Nat /\ entry_count \in 0..EntriesPerStripe
    BY <1>3, SpendAssumption DEF SInv, TypeOK
  <1>5. e \in EntryType /\ e.key_hash = None
    BY <1>4 DEF EntryType
  <1>6. entries' = [entries EXCEPT ![n] = e]
    BY <1>1, <1>4
  <1> HIDE DEF e
  <1>7. /\ entries' \in [Indices -> EntryType]
        /\ entries'[n] = e
        /\ \A i \in Indices : i # n => entries'[i] = entries[i]
        /\ \A i \in 1..entry_count : i \in Indices
    BY <1>1, <1>3, <1>4, <1>5, <1>6 DEF Indices
  <1>8. \A k \in Keys : EntriesOf(k)' = EntriesOf(k) \ {n}
    BY <1>1, <1>5, <1>7, NoneIsNoKey DEF EntriesOf
  <1>9. n # 0 /\ n <= entry_count /\ n \in 0..EntriesPerStripe
    BY <1>1, <1>3, <1>4 DEF Indices
  <1>10. Evicting(w)'
    <2>1. UNCHANGED <<pc, req, scope, now, job, reserved>>
      BY <1>1 DEF CreateFrame, request
    <2>2. Visits(w)' = Visits(w)
      BY <2>1 DEF Visits, Rest
    <2>3. Wanted(w)' /\ Key(w)' = Key(w)
      BY <1>1, <2>1, <2>2 DEF Wanted, InLoop, Key, Id, Month, At
    <2>4. PICK k \in Keys : k = Key(w)
      BY <1>2
    <2>5. EntriesOf(k)' = {}
      BY <1>1, <1>8, <2>4
    <2>6. EntriesOf(Key(w))' = {}
      BY <2>3, <2>4, <2>5 DEF EntriesOf
    <2>7. slot'[w] = n
      BY <1>1, Types
    <2> QED
      BY <1>1, <1>9, <2>3, <2>6, <2>7 DEF Evicting
  <1>11. ASSUME NEW k \in Keys, Holders(k)' = Holders(k), Owed(k) = 0,
                Owed(k)' = 0
         PROVE  Balanced(k)'
    <2>1. recorded' = recorded /\ (LostCount(k) => LostCount(k)')
      BY <1>1 DEF CreateFrame, LostCount
    <2>2. CASE n \in EntriesOf(k)
      <3>1. LostCount(k)'
        BY <1>1, <2>2 DEF LostCount, EntriesOf
      <3>2. \A i, j \in EntriesOf(k)' : i = j
        BY <1>8 DEF SInv, Balanced
      <3> QED
        BY <3>1, <3>2 DEF Balanced
    <2>3. CASE n \notin EntriesOf(k)
      <3>1. EntriesOf(k)' = EntriesOf(k)
        BY <1>8, <2>3
      <3>2. \A i \in EntriesOf(k) : entries'[i] = entries[i]
        BY <1>7, <2>3 DEF EntriesOf
      <3> QED
        BY <1>11, <2>1, <3>1, <3>2, BalancedKept DEF SInv
    <2> QED
      BY <2>2, <2>3
  <1>12. /\ \A u \in Workers \ {w} : slot'[u] = slot[u]
         /\ slot' \in [Workers -> 0..EntriesPerStripe]
    BY <1>1, <1>9, Types
  <1> QED
    BY <1>1, <1>4, <1>7, <1>10, <1>11, <1>12, WantedAt, CreateKeeps

LEMMA EvictPublishKeeps ==
    ASSUME SInv, NEW w \in Workers, EvictPublish(w) PROVE SInv'
  <1> DEFINE n == slot[w]
             e == [key_hash |-> Key(w), spend_micros |-> 0,
                   year_month |-> Month(w), last_used |-> now[w]]
  <1>1. /\ mutex = w /\ n # 0 /\ entries[n].key_hash = None
        /\ entries' = [entries EXCEPT ![n] = e]
        /\ slot' = [slot EXCEPT ![w] = 0]
        /\ UNCHANGED <<entry_count, mutex, forgotten>> /\ CreateFrame(w)
    BY DEF EvictPublish
  <1>2. Wanted(w) /\ EntriesOf(Key(w)) = {} /\ n <= entry_count
    BY <1>1 DEF SInv, Evicting
  <1>3. Key(w) \in Keys /\ Month(w) \in Months
    BY <1>2, WantedAt
  <1>4. /\ e \in EntryType /\ e.key_hash = Key(w) /\ e.spend_micros = 0
    BY <1>3, NewEntryType
  <1> HIDE DEF e
  <1>5. /\ entry_count \in 0..EntriesPerStripe /\ n \in 0..EntriesPerStripe
        /\ entries \in [Indices -> EntryType] /\ EntriesPerStripe \in Nat
    BY SpendAssumption DEF SInv, TypeOK
  <1>6. /\ n \in Indices /\ n \in 1..entry_count
        /\ \A i \in 1..entry_count : i \in Indices
    BY <1>1, <1>2, <1>5 DEF Indices
  <1> HIDE DEF n
  <1>7. /\ entries' \in [Indices -> EntryType] /\ entries'[n] = e
        /\ \A i \in Indices : i # n => entries'[i] = entries[i]
    BY <1>1, <1>4, <1>5, <1>6
  <1>8. Evicting(w)'
    BY <1>1, Types DEF Evicting
  <1>9. ASSUME NEW k \in Keys, Holders(k)' = Holders(k), Owed(k) = 0,
               Owed(k)' = 0
        PROVE  Balanced(k)'
    <2>1. recorded' = recorded /\ (LostCount(k)' <=> LostCount(k))
      BY <1>1 DEF CreateFrame, LostCount
    <2>2. CASE k = Key(w)
      <3>1. EntriesOf(k) = {}
        BY <1>2, <2>2
      <3>2. \A i \in 1..entry_count : i # n => entries'[i].key_hash # k
        BY <1>6, <1>7, <3>1 DEF EntriesOf
      <3>3. EntriesOf(k)' = {n}
        BY <1>1, <1>4, <1>6, <1>7, <2>2, <3>2 DEF EntriesOf
      <3> QED
        BY <1>4, <1>7, <1>9, <2>1, <3>1, <3>3, BornBalanced
    <2>3. CASE k # Key(w)
      <3>1. n \notin EntriesOf(k) /\ entries'[n].key_hash # k
        BY <1>1, <1>4, <1>7, <2>3, NoneIsNoKey DEF EntriesOf
      <3>2. EntriesOf(k)' = EntriesOf(k)
        BY <1>1, <1>6, <1>7, <3>1 DEF EntriesOf
      <3>3. \A i \in EntriesOf(k) : entries'[i] = entries[i]
        BY <1>6, <1>7, <3>1 DEF EntriesOf
      <3> QED
        BY <1>9, <2>1, <3>2, <3>3, BalancedKept DEF SInv
    <2> QED
      BY <2>2, <2>3
  <1>10. /\ \A u \in Workers \ {w} : slot'[u] = slot[u]
         /\ slot' \in [Workers -> 0..EntriesPerStripe]
    BY <1>1, <1>5, Types
  <1> QED
    BY <1>1, <1>2, <1>5, <1>7, <1>8, <1>9, <1>10, WantedAt, CreateKeeps

-----------------------------------------------------------------------------
(* The steps of the loops over the scopes                                  *)

\* The scopes of a request are different ones.
LEMMA ScopesDiffer ==
    ASSUME NEW r \in Requests, NEW i \in 1..Len(Scopes[r]),
           NEW j \in 1..Len(Scopes[r]), Scopes[r][i] = Scopes[r][j]
    PROVE  i = j
  BY SpendAssumption

\* A scope that is reserved or released changes the holders of one key.
LEMMA HoldersChange ==
    ASSUME SInv, NEW r \in Requests, NEW a \in 1..Len(Scopes[r]), NEW R,
           Counts(r), reserved' = [reserved EXCEPT ![r] = R],
           UNCHANGED <<status, taken, stranded>>,
           NEW k \in Keys
    PROVE  /\ R = reserved[r] \cup {a} /\ a \notin reserved[r] =>
                IF k = <<Scopes[r][a], taken[r]>>
                THEN r \notin Holders(k) /\ Holders(k)' = Holders(k) \cup {r}
                ELSE Holders(k)' = Holders(k)
           /\ R = reserved[r] \ {a} /\ a \in reserved[r] =>
                IF k = <<Scopes[r][a], taken[r]>>
                THEN r \in Holders(k) /\ Holders(k)' = Holders(k) \ {r}
                ELSE Holders(k)' = Holders(k)
  <1>1. /\ reserved'[r] = R
        /\ \A q \in Requests : q # r => reserved'[q] = reserved[q]
    BY Types
  <1>2. \A q \in Requests : q # r => (q \in Holders(k)' <=> q \in Holders(k))
    BY <1>1 DEF Holders
  <1>3. /\ r \in Holders(k) <=>
              taken[r] = k[2] /\ \E i \in reserved[r] : Scopes[r][i] = k[1]
        /\ r \in Holders(k)' <=>
              taken[r] = k[2] /\ \E i \in R : Scopes[r][i] = k[1]
    BY <1>1 DEF Holders, Counts
  <1>4. k = <<Scopes[r][a], taken[r]>> <=>
            k[1] = Scopes[r][a] /\ k[2] = taken[r]
    BY DEF Keys
  <1>5. reserved[r] \subseteq 1..Len(Scopes[r])
    BY DEF SInv, Settled
  <1>6. \A i \in reserved[r] : Scopes[r][i] = Scopes[r][a] => i = a
    BY <1>5, ScopesDiffer
  <1>7. Holders(k) \subseteq Requests /\ Holders(k)' \subseteq Requests
    BY DEF Holders
  <1>8. ASSUME R = reserved[r] \cup {a}, a \notin reserved[r]
        PROVE  IF k = <<Scopes[r][a], taken[r]>>
               THEN r \notin Holders(k) /\ Holders(k)' = Holders(k) \cup {r}
               ELSE Holders(k)' = Holders(k)
    <2>1. CASE k = <<Scopes[r][a], taken[r]>>
      <3>1. r \notin Holders(k) /\ r \in Holders(k)'
        BY <1>3, <1>4, <1>6, <1>8, <2>1
      <3> QED
        BY <1>2, <1>7, <2>1, <3>1
    <2>2. CASE k # <<Scopes[r][a], taken[r]>>
      <3>1. r \in Holders(k)' <=> r \in Holders(k)
        BY <1>3, <1>4, <1>8, <2>2
      <3>2. \A q \in Requests : q \in Holders(k)' <=> q \in Holders(k)
        BY <1>2, <3>1
      <3>3. Holders(k)' = Holders(k)
        BY <1>7, <3>2
      <3> QED
        BY <2>2, <3>3
    <2> QED
      BY <2>1, <2>2
  <1>9. ASSUME R = reserved[r] \ {a}, a \in reserved[r]
        PROVE  IF k = <<Scopes[r][a], taken[r]>>
               THEN r \in Holders(k) /\ Holders(k)' = Holders(k) \ {r}
               ELSE Holders(k)' = Holders(k)
    <2>1. CASE k = <<Scopes[r][a], taken[r]>>
      <3>1. r \in Holders(k) /\ r \notin Holders(k)'
        BY <1>3, <1>4, <1>6, <1>9, <2>1
      <3> QED
        BY <1>2, <1>7, <2>1, <3>1
    <2>2. CASE k # <<Scopes[r][a], taken[r]>>
      <3>1. r \in Holders(k)' <=> r \in Holders(k)
        BY <1>3, <1>4, <1>9, <2>2
      <3>2. \A q \in Requests : q \in Holders(k)' <=> q \in Holders(k)
        BY <1>2, <3>1
      <3>3. Holders(k)' = Holders(k)
        BY <1>7, <3>2
      <3> QED
        BY <2>2, <3>3
    <2> QED
      BY <2>1, <2>2
  <1> QED
    BY <1>8, <1>9

\* What one holder more or less makes of a commitment.
LEMMA CommitmentChange ==
    ASSUME SInv, NEW k \in Keys, NEW r, NEW cost \in Nat,
           recorded'[k] = recorded[k] + cost
    PROVE  /\ Holders(k)' = Holders(k) => Commitment(k)' = Commitment(k) + cost
           /\ r \notin Holders(k) /\ Holders(k)' = Holders(k) \cup {r} =>
                Commitment(k)' = Commitment(k) + Reserve + cost
           /\ r \in Holders(k) /\ Holders(k)' = Holders(k) \ {r} =>
                /\ Reserve <= Commitment(k)
                /\ Commitment(k)' = Commitment(k) - Reserve + cost
  <1> DEFINE n == Cardinality(Holders(k))
  <1>1. /\ IsFiniteSet(Holders(k)) /\ n \in Nat /\ recorded[k] \in Nat
        /\ Reserve \in Nat /\ Commitment(k) = Reserve * n + recorded[k]
    BY HoldersFinite
  <1>2. Commitment(k)' =
            Reserve * Cardinality(Holders(k)') + (recorded[k] + cost)
    BY DEF Commitment
  <1>3. CASE Holders(k)' = Holders(k)
    BY <1>1, <1>2, <1>3
  <1>4. CASE r \notin Holders(k) /\ Holders(k)' = Holders(k) \cup {r}
    <2>1. Cardinality(Holders(k)') = n + 1
      BY <1>1, <1>4, FS_AddElement
    <2>2. Commitment(k)' = Reserve * (n + 1) + (recorded[k] + cost)
      BY <1>2, <2>1
    <2> HIDE DEF n
    <2>3. Reserve * (n + 1) = Reserve * n + Reserve /\ Reserve * n \in Nat
      BY <1>1
    <2>4. Commitment(k)' = Commitment(k) + Reserve + cost
      BY <1>1, <2>2, <2>3
    <2> QED
      BY <1>4, <2>4, <1>1
  <1>5. CASE r \in Holders(k) /\ Holders(k)' = Holders(k) \ {r}
    <2>1. Cardinality(Holders(k)') = n - 1 /\ n >= 1
      <3>1. Cardinality(Holders(k)') = n - 1 /\ Cardinality(Holders(k)') \in Nat
        BY <1>1, <1>5, FS_RemoveElement, FS_CardinalityType
      <3> QED
        BY <1>1, <3>1
    <2>2. Commitment(k)' = Reserve * (n - 1) + (recorded[k] + cost)
      BY <1>2, <2>1
    <2> HIDE DEF n
    <2>3. /\ Reserve * n = Reserve * (n - 1) + Reserve
          /\ Reserve * (n - 1) \in Nat
      BY <1>1, <2>1
    <2>4. /\ Reserve <= Commitment(k)
          /\ Commitment(k)' = Commitment(k) - Reserve + cost
      BY <1>1, <2>2, <2>3
    <2> QED
      BY <1>5, <2>4
  <1> QED
    BY <1>3, <1>4, <1>5

\* One step of a loop: an entry is used, and the scope is reserved, released
\* or passed over.
LEMMA LoopKeeps ==
    ASSUME SInv, NEW w \in Workers, pc[w] \in InHandler, slot[w] = 0,
           mutex \in {None, w}, mutex' \in {None, w},
           entries' \in [Indices -> EntryType],
           NEW label \in InHandler, pc' = [pc EXCEPT ![w] = label],
           NEW n \in Nat, scope' = [scope EXCEPT ![w] = n],
           NEW R \in SUBSET (1..Len(Scopes[req[w]])),
           reserved' = [reserved EXCEPT ![req[w]] = R],
           UNCHANGED <<entry_count, minute, req, slot, now, job, status, owner,
                       taken, stranded, forgotten, unpaid, crashes>>,
           recorded' \in [Keys -> Nat],
           Handling(w)', \A k \in Keys : Balanced(k)'
    PROVE  SInv'
  <1>1. /\ req[w] \in Requests /\ owner[req[w]] = w
        /\ status[req[w]] \in {"handling", "logging"}
    BY DEF SInv, Handling, InHandler
  <1>2. mutex \notin Workers \ {w}
    BY SpendAssumption
  <1>3. OnlyActs(w)
    BY <1>1, <1>2, Types DEF OnlyActs
  <1>4. R \in SUBSET Nat
    <2>1. Len(Scopes[req[w]]) \in Nat
      BY <1>1, SpendAssumption
    <2> QED
      BY <2>1
  <1>5. TypeOK'
    BY <1>1, <1>4 DEF SInv, TypeOK, InHandler, Keys
  <1>6. IsFiniteSet(Reserving')
    <2>1. Reserving' \subseteq Reserving \cup {req[w]}
      BY <1>1, Types DEF Reserving
    <2>2. IsFiniteSet(Reserving \cup {req[w]})
      BY FS_AddElement DEF SInv
    <2> QED
      BY <2>1, <2>2, FS_Subset
  <1>7. Evicting(w)'
    BY DEF Evicting
  <1>8. ASSUME NEW r \in Requests PROVE Settled(r)'
    <2>1. CASE r = req[w]
      BY <1>1, <2>1, Types DEF Settled
    <2>2. CASE r # req[w]
      BY <2>2, Types, SettledKept DEF SInv
    <2> QED
      BY <2>1, <2>2
  <1> QED
    BY <1>3, <1>5, <1>6, <1>7, <1>8, StepKeeps

\* The entries balance again once the entry of a key says its commitment.
LEMMA SpendBalances ==
    ASSUME SInv, NEW w \in Workers, NEW amount \in Nat, NEW k0 \in Keys,
           k0 = Key(w), EntriesOf(k0) # {}, SetSpend(w, amount),
           UNCHANGED <<entry_count, forgotten, unpaid>>,
           crossed \subseteq crossed',
           ~LostCount(k0)' => amount + Owed(k0)' = Commitment(k0)',
           \A k \in Keys \ {k0} : ~LostCount(k)' =>
                /\ Holders(k)' = Holders(k) /\ recorded'[k] = recorded[k]
                /\ Owed(k)' = Owed(k)
    PROVE  /\ entries' \in [Indices -> EntryType]
           /\ \A k \in Keys : Balanced(k)'
  <1>1. /\ entries' \in [Indices -> EntryType]
        /\ \A k \in Keys : EntriesOf(k)' = EntriesOf(k)
        /\ \A i \in EntriesOf(k0) : entries'[i].spend_micros = amount
        /\ \A k \in Keys : k # k0 => \A i \in EntriesOf(k) :
              entries'[i].spend_micros = entries[i].spend_micros
    BY SetSpendStores
  <1>2. \A k \in Keys : LostCount(k) => LostCount(k)'
    BY DEF LostCount
  <1>3. ASSUME NEW k \in Keys PROVE Balanced(k)'
    <2>1. CASE k = k0
      <3>1. /\ EntriesOf(k)' = EntriesOf(k) /\ EntriesOf(k) # {}
            /\ \A i, j \in EntriesOf(k) : i = j
        BY <1>1, <2>1 DEF SInv, Balanced
      <3>2. ~LostCount(k)' => \A i \in EntriesOf(k) :
               entries'[i].spend_micros + Owed(k)' = Commitment(k)'
        BY <1>1, <2>1
      <3> QED
        BY <3>1, <3>2 DEF Balanced
    <2>2. CASE k # k0
      BY <1>1, <1>2, <2>2, BalancedKept DEF SInv
    <2> QED
      BY <2>1, <2>2
  <1> QED
    BY <1>1, <1>3

\* The entry of a key says its commitment, up to a cost that is owed.
LEMMA Accounted ==
    ASSUME SInv, NEW k \in Keys, EntriesOf(k) # {}, ~LostCount(k)
    PROVE  /\ SpendOf(k) + Owed(k) = Commitment(k)
           /\ Owed(k) = 0 => SpendOf(k) = Commitment(k)
  <1>1. SpendOf(k) + Owed(k) = Commitment(k) /\ SpendOf(k) \in Nat
    BY Finds DEF SInv, Balanced
  <1> QED
    BY <1>1

LEMMA CheckSoftKeeps ==
    ASSUME SInv, NEW w \in Workers, CheckSoft(w) PROVE SInv'
  <1>1. /\ pc[w] = "check" /\ Visits(w) # {} /\ ~Hard(req[w])
        /\ mutex = None /\ mutex' = mutex /\ reserved' = reserved
        /\ UNCHANGED <<entry_count, minute, req, slot, now, job, status, owner,
                       taken, stranded, recorded, forgotten, crossed, unpaid, crashes>>
    BY DEF CheckSoft, CheckFrame, InLoop, ghosts
  <1>2. pc[w] \in InHandler /\ slot[w] = 0
    BY <1>1, NoEviction DEF InHandler
  <1>3. /\ req[w] \in Requests /\ At(w) \in Nat /\ scope[w] <= At(w)
        /\ scope[w] \in Nat /\ Key(w) \in Keys
    <2>1. Len(Scopes[req[w]]) \in Nat
      BY <1>1, <1>2, AtScope, SpendAssumption
    <2> QED
      BY <1>1, <1>2, <2>1, AtScope DEF SInv, TypeOK
  <1>4. PICK k0 \in Keys : k0 = Key(w)
    BY <1>3
  <1>5. \A k \in Keys : /\ Holders(k)' = Holders(k)
                       /\ Owed(k) = 0 /\ Owed(k)' = 0
    BY <1>1, HoldersKept DEF Counts, Owed
  <1>6. entries' \in [Indices -> EntryType] /\ \A k \in Keys : Balanced(k)'
    <2>1. CASE EntriesOf(k0) = {}
      <3>1. entries' = entries
        BY <1>4, <2>1 DEF CheckSoft
      <3> QED
        BY <1>1, <1>5, <3>1, BalancedKept DEF SInv, TypeOK, EntriesOf, LostCount
    <2>2. CASE EntriesOf(k0) # {}
      <3>1. SetSpend(w, SpendOf(k0))
        BY <1>4, <2>2 DEF CheckSoft
      <3>2. SpendOf(k0) \in Nat
        BY <2>2, Finds
      <3>3. ASSUME ~LostCount(k0)' PROVE SpendOf(k0) + Owed(k0)' = Commitment(k0)'
        <4>1. ~LostCount(k0)
          BY <1>1, <3>3 DEF LostCount
        <4>2. SpendOf(k0) = Commitment(k0) /\ SpendOf(k0) + 0 = SpendOf(k0)
          BY <1>5, <2>2, <3>2, <4>1, Accounted
        <4> QED
          BY <1>1, <1>5, <4>2 DEF Commitment
      <3> QED
        BY <1>1, <1>4, <1>5, <2>2, <3>1, <3>2, <3>3, SpendBalances
    <2> QED
      BY <2>1, <2>2
  <1>7. /\ reserved' = [reserved EXCEPT ![req[w]] = reserved[req[w]]]
        /\ reserved[req[w]] \in SUBSET (1..Len(Scopes[req[w]]))
        /\ recorded' \in [Keys -> Nat]
    BY <1>1, <1>3, Types DEF SInv, Settled, TypeOK, Keys
  <1>8. CASE /\ pc' = [pc EXCEPT ![w] = "release"]
             /\ scope' = [scope EXCEPT ![w] = 1]
    <2>1. Handling(w)'
      BY <1>1, <1>2, <1>8, ReleaseBegins
    <2>2. "release" \in InHandler
      BY DEF InHandler
    <2> QED
      BY <1>1, <1>2, <1>6, <1>7, <1>8, <2>1, <2>2, LoopKeeps
  <1>9. CASE NextScope(w) /\ pc' = pc
    <2>1. /\ pc' = [pc EXCEPT ![w] = "check"] /\ "check" \in InHandler
          /\ scope' = [scope EXCEPT ![w] = At(w) + 1] /\ At(w) + 1 \in Nat
      BY <1>1, <1>3, <1>9, Types DEF NextScope, InHandler
    <2>2. Handling(w)'
      <3>1. /\ owner[req[w]] = w /\ status[req[w]] = "handling"
            /\ taken[req[w]] = Month(w)
            /\ \A i \in reserved[req[w]] : i < scope[w] /\ i \in Nat
        BY <1>1, <1>3, Types DEF SInv, Handling, InHandler
      <3>2. \A i \in reserved[req[w]] : i < At(w) + 1
        BY <1>3, <3>1
      <3>3. scope'[w] = At(w) + 1 /\ pc'[w] = "check" /\ At(w) + 1 > 0
        BY <1>3, <2>1, Types
      <3> QED
        BY <1>1, <1>3, <3>1, <3>2, <3>3 DEF Handling, InHandler, Month
    <2> QED
      BY <1>1, <1>2, <1>6, <1>7, <2>1, <2>2, LoopKeeps
  <1> QED
    BY <1>8, <1>9 DEF CheckSoft

LEMMA CheckHardKeeps ==
    ASSUME SInv, NEW w \in Workers, CheckHard(w) PROVE SInv'
  <1>1. /\ pc[w] = "check" /\ Visits(w) # {} /\ Hard(req[w]) /\ Found(w)
        /\ mutex \in {None, w} /\ mutex' = None
        /\ UNCHANGED <<entry_count, minute, req, slot, now, job, status, owner,
                       taken, stranded, recorded, forgotten, crossed, unpaid, crashes>>
    BY DEF CheckHard, CheckFrame, InLoop, ghosts, Found, Locked
  <1>2. pc[w] \in InHandler /\ slot[w] = 0
    BY <1>1, NoEviction DEF InHandler, Found
  <1>3. /\ req[w] \in Requests /\ At(w) \in Nat /\ scope[w] <= At(w)
        /\ At(w) \in 1..Len(Scopes[req[w]])
        /\ scope[w] \in Nat /\ Key(w) \in Keys
        /\ Key(w) = <<Scopes[req[w]][At(w)], Month(w)>>
    <2>1. Len(Scopes[req[w]]) \in Nat
      BY <1>1, <1>2, AtScope, SpendAssumption
    <2> QED
      BY <1>1, <1>2, <2>1, AtScope DEF SInv, TypeOK
  <1>4. PICK k0 \in Keys : k0 = Key(w)
    BY <1>3
  <1>5. /\ EntriesOf(k0) # {} /\ SpendOf(k0) \in Nat
        /\ \A k : Owed(k) = 0 /\ Owed(k)' = 0
        /\ ~LostCount(k0) => SpendOf(k0) = Commitment(k0)
    <2>1. EntriesOf(k0) # {} /\ SpendOf(k0) \in Nat
      BY <1>1, <1>4, Finds DEF Found
    <2>2. \A k : Owed(k) = 0 /\ Owed(k)' = 0
      BY <1>1 DEF Owed
    <2> QED
      BY <2>1, <2>2, Accounted
  <1>6. /\ owner[req[w]] = w /\ status[req[w]] = "handling"
        /\ taken[req[w]] = Month(w)
        /\ reserved[req[w]] \subseteq 1..Len(Scopes[req[w]])
        /\ \A i \in reserved[req[w]] : i < scope[w] /\ i \in Nat
    BY <1>1, <1>3, Types DEF SInv, Handling, InHandler, Settled
  <1>7. recorded' \in [Keys -> Nat]
    BY <1>1 DEF SInv, TypeOK, Keys
  <1>8. CASE /\ SetSpend(w, SpendOf(k0)) /\ reserved' = reserved
             /\ pc' = [pc EXCEPT ![w] = "release"]
             /\ scope' = [scope EXCEPT ![w] = 1]
    <2>1. \A k \in Keys : Holders(k)' = Holders(k)
      BY <1>1, <1>8, HoldersKept DEF Counts
    <2>2. ~LostCount(k0)' => SpendOf(k0) + Owed(k0)' = Commitment(k0)'
      <3>1. ~LostCount(k0)' => SpendOf(k0) = Commitment(k0)'
        BY <1>1, <1>5, <2>1 DEF LostCount, Commitment
      <3>2. SpendOf(k0) + 0 = SpendOf(k0)
        BY <1>5
      <3> QED
        BY <1>5, <3>1, <3>2
    <2>3. entries' \in [Indices -> EntryType] /\ \A k \in Keys : Balanced(k)'
      BY <1>1, <1>4, <1>5, <1>8, <2>1, <2>2, SpendBalances
    <2>4. Handling(w)' /\ "release" \in InHandler
      BY <1>1, <1>2, <1>8, ReleaseBegins DEF InHandler
    <2>5. reserved' = [reserved EXCEPT ![req[w]] = reserved[req[w]]]
      BY <1>3, <1>8, Types
    <2> QED
      BY <1>1, <1>2, <1>6, <1>7, <1>8, <2>3, <2>4, <2>5, LoopKeeps
  <1>9. CASE /\ SetSpend(w, SpendOf(k0) + Reserve)
             /\ reserved' = [reserved EXCEPT ![req[w]] = @ \cup {At(w)}]
             /\ NextScope(w) /\ pc' = pc
    <2>1. PICK r \in Requests : r = req[w]
      BY <1>3
    <2>2. PICK a \in 1..Len(Scopes[r]) : a = At(w)
      BY <1>3, <2>1
    <2>3. a \notin reserved[r] /\ a \in Nat
      BY <1>3, <1>6, <2>1, <2>2
    <2>4. PICK R : R = reserved[r] \cup {a}
      OBVIOUS
    <2>5. reserved' = [reserved EXCEPT ![r] = R] /\ Counts(r)
      BY <1>3, <1>6, <1>9, <2>1, <2>2, <2>4, Types DEF Counts
    <2>6. k0 = <<Scopes[r][a], taken[r]>>
      BY <1>3, <1>4, <1>6, <2>1, <2>2
    <2>7. \A k \in Keys :
              IF k = k0
              THEN r \notin Holders(k) /\ Holders(k)' = Holders(k) \cup {r}
              ELSE Holders(k)' = Holders(k)
      BY <1>1, <2>3, <2>4, <2>5, <2>6, HoldersChange
    <2>8. ASSUME ~LostCount(k0)'
          PROVE  SpendOf(k0) + Reserve + Owed(k0)' = Commitment(k0)'
      <3>1. recorded'[k0] = recorded[k0] + 0 /\ SpendOf(k0) = Commitment(k0)
        BY <1>1, <1>5, <2>8, HoldersFinite DEF LostCount
      <3>2. Commitment(k0)' = Commitment(k0) + Reserve + 0
        BY <2>7, <3>1, CommitmentChange
      <3> QED
        BY <1>5, <3>1, <3>2
    <2>9. SpendOf(k0) + Reserve \in Nat
      BY <1>5, SpendAssumption
    <2>10. entries' \in [Indices -> EntryType] /\ \A k \in Keys : Balanced(k)'
      BY <1>1, <1>4, <1>5, <1>9, <2>7, <2>8, <2>9, SpendBalances
    <2>11. /\ pc' = [pc EXCEPT ![w] = "check"] /\ "check" \in InHandler
           /\ scope' = [scope EXCEPT ![w] = At(w) + 1] /\ At(w) + 1 \in Nat
      BY <1>1, <1>3, <1>9, Types DEF NextScope, InHandler
    <2>12. Handling(w)'
      <3>1. \A i \in R : i < At(w) + 1
        BY <1>3, <1>6, <2>1, <2>2, <2>4
      <3>2. scope'[w] = At(w) + 1 /\ pc'[w] = "check" /\ At(w) + 1 > 0
        BY <1>3, <2>11, Types
      <3>3. reserved'[req[w]] = R
        BY <2>1, <2>5, Types
      <3> QED
        BY <1>1, <1>3, <1>6, <3>1, <3>2, <3>3 DEF Handling, InHandler, Month
    <2>13. R \in SUBSET (1..Len(Scopes[req[w]]))
      BY <1>6, <2>1, <2>4
    <2> QED
      BY <1>1, <1>2, <1>7, <2>1, <2>5, <2>10, <2>11, <2>12, <2>13, LoopKeeps
  <1> QED
    BY <1>4, <1>8, <1>9 DEF CheckHard

\* What a release does to the holders: those of the reservation's own entry
\* are one less; where it crosses, both entries have lost count.
LEMMA UnreserveChange ==
    ASSUME SInv, NEW w \in Workers, pc[w] \in {"release", "log"},
           Visits(w) # {}, At(w) \in reserved[req[w]], Unreserve(w),
           UNCHANGED <<status, taken, stranded, forgotten, unpaid>>,
           NEW k0 \in Keys, k0 = Key(w)
    PROVE  /\ crossed \subseteq crossed'
           /\ ~LostCount(k0)' => /\ req[w] \in Holders(k0)
                                 /\ Holders(k0)' = Holders(k0) \ {req[w]}
           /\ \A k \in Keys \ {k0} :
                ~LostCount(k)' => Holders(k)' = Holders(k)
  <1>1. PICK r \in Requests : r = req[w]
    BY AtScope DEF InHandler
  <1>2. PICK a \in 1..Len(Scopes[r]) : a = At(w)
    BY <1>1, AtScope DEF InHandler
  <1>3. k0 = <<Scopes[r][a], Month(w)>> /\ Id(w) = Scopes[r][a]
    BY <1>1, <1>2, AtScope DEF InHandler
  <1>4. Counts(r)
    BY <1>1 DEF SInv, Handling, Counts
  <1>5. PICK R : R = reserved[r] \ {a}
    OBVIOUS
  <1>6. reserved' = [reserved EXCEPT ![r] = R]
    BY <1>1, <1>2, <1>5, Types DEF Unreserve
  <1>7. PICK own : own = <<Scopes[r][a], taken[r]>>
    OBVIOUS
  <1>8. \A k \in Keys :
            IF k = own THEN r \in Holders(k) /\ Holders(k)' = Holders(k) \ {r}
                       ELSE Holders(k)' = Holders(k)
    BY <1>1, <1>2, <1>4, <1>5, <1>6, <1>7, HoldersChange
  <1>9. /\ crossed \subseteq crossed'
        /\ k0[2] # taken[r] => k0 \in crossed' /\ own \in crossed'
    BY <1>1, <1>3, <1>7 DEF Unreserve, Crosses
  <1>10. k0[2] = taken[r] => k0 = own
    BY <1>3, <1>7
  <1> QED
    BY <1>1, <1>8, <1>9, <1>10 DEF LostCount

LEMMA ReleaseScopeKeeps ==
    ASSUME SInv, NEW w \in Workers, ReleaseScope(w) PROVE SInv'
  <1>1. /\ pc[w] = "release" /\ Visits(w) # {} /\ mutex = None
        /\ mutex' = mutex /\ pc' = pc /\ Unreserve(w) /\ NextScope(w)
        /\ UNCHANGED <<entry_count, minute, req, slot, now, job, status, owner,
                       taken, stranded, recorded, forgotten, unpaid, crashes>>
    BY DEF ReleaseScope, ReleaseFrame, InLoop
  <1>2. pc[w] \in InHandler /\ slot[w] = 0
    BY <1>1, NoEviction DEF InHandler
  <1>3. /\ req[w] \in Requests /\ At(w) \in Nat /\ Key(w) \in Keys
        /\ At(w) \in reserved[req[w]]
        /\ \A i \in reserved[req[w]] : i \in Rest(w) => At(w) <= i
    <2>1. At(w) \in Visits(w) /\ \A i \in Visits(w) : At(w) <= i
      BY <1>1, <1>2, AtScope
    <2>2. \A i : i \in Visits(w) <=> i \in Rest(w) /\ i \in reserved[req[w]]
      BY <1>1 DEF Visits
    <2> QED
      BY <1>1, <1>2, <2>1, <2>2, AtScope
  <1>4. /\ owner[req[w]] = w /\ status[req[w]] = "handling"
        /\ taken[req[w]] = Month(w)
        /\ reserved[req[w]] \subseteq 1..Len(Scopes[req[w]])
        /\ \A i \in reserved[req[w]] : scope[w] <= i /\ i \in Nat
    BY <1>1, <1>3, Types DEF SInv, Handling, InHandler, Settled
  <1>5. PICK k0 \in Keys : k0 = Key(w)
    BY <1>3
  <1>6. /\ crossed \subseteq crossed'
        /\ ~LostCount(k0)' => /\ req[w] \in Holders(k0)
                              /\ Holders(k0)' = Holders(k0) \ {req[w]}
        /\ \A k \in Keys \ {k0} : ~LostCount(k)' => Holders(k)' = Holders(k)
        /\ \A k : Owed(k) = 0 /\ Owed(k)' = 0
    BY <1>1, <1>3, <1>5, UnreserveChange DEF Owed
  <1>7. LostCount(k0) => LostCount(k0)'
    BY <1>1, <1>6 DEF LostCount
  <1>8. entries' \in [Indices -> EntryType] /\ \A k \in Keys : Balanced(k)'
    <2>1. CASE EntriesOf(k0) = {}
      <3>1. entries' = entries
        BY <1>5, <2>1 DEF ReleaseScope
      <3>2. LostCount(k0)'
        BY <1>6, <1>7, <2>1 DEF SInv, Balanced
      <3>3. \A k \in Keys : ~LostCount(k)' => Holders(k)' = Holders(k)
        BY <1>6, <3>2
      <3>4. \A k \in Keys : LostCount(k) => LostCount(k)'
        BY <1>1, <1>6 DEF LostCount
      <3> QED
        BY <1>1, <1>6, <3>1, <3>3, <3>4, BalancedKept
        DEF SInv, TypeOK, EntriesOf
    <2>2. CASE EntriesOf(k0) # {}
      <3>1. SpendOf(k0) \in Nat /\ Reserve \in Nat
        BY <2>2, Finds, SpendAssumption
      <3>2. PICK amount \in Nat : amount = MonusOf(SpendOf(k0), Reserve)
        BY <3>1, MonusType
      <3>3. SetSpend(w, amount)
        BY <1>5, <2>2, <3>2 DEF ReleaseScope
      <3>4. ASSUME ~LostCount(k0)' PROVE amount + Owed(k0)' = Commitment(k0)'
        <4>1. SpendOf(k0) = Commitment(k0)
          BY <1>6, <1>7, <2>2, <3>4, Accounted
        <4>2. recorded'[k0] = recorded[k0] + 0
          BY <1>1, HoldersFinite
        <4>3. /\ Reserve <= Commitment(k0)
              /\ Commitment(k0)' = Commitment(k0) - Reserve + 0
          BY <1>6, <3>4, <4>2, CommitmentChange
        <4>4. amount = SpendOf(k0) - Reserve
          BY <3>1, <3>2, <4>1, <4>3, MonusType
        <4> QED
          BY <1>6, <3>1, <4>1, <4>3, <4>4
      <3> QED
        BY <1>1, <1>5, <1>6, <2>2, <3>3, <3>4, SpendBalances
    <2> QED
      BY <2>1, <2>2
  <1>9. PICK R : R = reserved[req[w]] \ {At(w)}
    OBVIOUS
  <1>10. /\ R \in SUBSET (1..Len(Scopes[req[w]]))
         /\ reserved' = [reserved EXCEPT ![req[w]] = R]
    BY <1>1, <1>3, <1>4, <1>9, Types DEF Unreserve
  <1>11. /\ pc' = [pc EXCEPT ![w] = "release"] /\ "release" \in InHandler
         /\ scope' = [scope EXCEPT ![w] = At(w) + 1] /\ At(w) + 1 \in Nat
         /\ recorded' \in [Keys -> Nat]
    BY <1>1, <1>3, Types DEF NextScope, InHandler, SInv, TypeOK, Keys
  <1>12. Handling(w)'
    <2>1. ASSUME NEW i \in R PROVE At(w) + 1 <= i
      <3>1. i \in reserved[req[w]] /\ i # At(w)
        BY <1>9
      <3>2. Len(Scopes[req[w]]) \in Nat /\ scope[w] \in Nat
        BY <1>3, SpendAssumption DEF SInv, TypeOK
      <3>3. i \in Rest(w)
        BY <1>4, <3>1, <3>2 DEF Rest
      <3> QED
        BY <1>3, <1>4, <3>1, <3>3
    <2>2. /\ scope'[w] = At(w) + 1 /\ pc'[w] = "release" /\ At(w) + 1 > 0
          /\ reserved'[req[w]] = R
      BY <1>3, <1>10, <1>11, Types
    <2> QED
      BY <1>1, <1>3, <1>4, <2>1, <2>2 DEF Handling, InHandler, Month
  <1> QED
    BY <1>1, <1>2, <1>8, <1>10, <1>11, <1>12, LoopKeeps

LEMMA JobCost ==
    ASSUME NEW j \in Jobs PROVE j.cost \in Nat
  <1>1. j.cost \in Costs \cup {0}
    BY DEF Jobs
  <1>2. \A c \in Costs \cup {0} : c \in Nat
    BY SpendAssumption
  <1> QED
    BY <1>1, <1>2

\* The scope of LOG, and the numbers it reckons with.
LEMMA Reconciles ==
    ASSUME SInv, NEW w \in Workers, pc[w] \in {"log", "charge"}, Visits(w) # {},
           EntriesOf(Key(w)) # {}
    PROVE  /\ req[w] \in Requests /\ At(w) \in Nat /\ scope[w] \in Nat
           /\ Key(w) \in Keys /\ job[w].cost \in Nat /\ Reserve \in Nat
           /\ SpendOf(Key(w)) \in Nat /\ slot[w] = 0
           /\ owner[req[w]] = w /\ status[req[w]] = "logging"
           /\ reserved[req[w]] \subseteq 1..Len(Scopes[req[w]])
           /\ At(w) \in Visits(w)
  <1>1. pc[w] \in InHandler
    BY DEF InHandler
  <1>2. /\ req[w] \in Requests /\ At(w) \in 1..Len(Scopes[req[w]])
        /\ Key(w) \in Keys /\ At(w) \in Visits(w)
    BY <1>1, AtScope
  <1>3. At(w) \in Nat
    <2>1. Len(Scopes[req[w]]) \in Nat
      BY <1>2, SpendAssumption
    <2> QED
      BY <1>2, <2>1
  <1>4. job[w].cost \in Nat /\ scope[w] \in Nat
    BY Types, JobCost
  <1>5. SpendOf(Key(w)) \in Nat /\ Reserve \in Nat /\ slot[w] = 0
    BY <1>2, Finds, SpendAssumption, NoEviction
  <1>6. /\ owner[req[w]] = w /\ status[req[w]] = "logging"
        /\ reserved[req[w]] \subseteq 1..Len(Scopes[req[w]])
    BY <1>1, <1>2 DEF SInv, Handling, Settled
  <1> QED
    BY <1>2, <1>3, <1>4, <1>5, <1>6

\* What a cost that is incurred adds to the commitments.
LEMMA IncurStores ==
    ASSUME SInv, NEW w \in Workers, NEW k0 \in Keys, k0 = Key(w),
           job[w].cost \in Nat, Incur(w)
    PROVE  /\ recorded' \in [Keys -> Nat]
           /\ recorded'[k0] = recorded[k0] + job[w].cost
           /\ \A k \in Keys \ {k0} : recorded'[k] = recorded[k]
  BY DEF Incur, SInv, TypeOK, Keys

\* The handler goes on with the next scope.
LEMMA LogGoesOn ==
    ASSUME SInv, NEW w \in Workers, pc[w] \in {"log", "charge"},
           req[w] \in Requests, At(w) \in Nat, NextScope(w),
           pc' = [pc EXCEPT ![w] = "log"],
           UNCHANGED <<req, owner, status>>
    PROVE  /\ Handling(w)' /\ "log" \in InHandler /\ At(w) + 1 \in Nat
           /\ scope' = [scope EXCEPT ![w] = At(w) + 1]
  <1>1. pc'[w] = "log" /\ scope'[w] = At(w) + 1 /\ At(w) + 1 > 0
    BY Types DEF NextScope
  <1>2. owner[req[w]] = w /\ status[req[w]] = "logging"
    BY DEF SInv, Handling, InHandler
  <1> QED
    BY <1>1, <1>2 DEF Handling, InHandler, NextScope

\* After the first store the worker holds the mutex, and its scope is the one
\* it was at.
LEMMA ChargeBegins ==
    ASSUME SInv, NEW w \in Workers, pc[w] = "log", Visits(w) # {},
           EntriesOf(Key(w)) # {}, job[w].adds, mutex' = w,
           pc' = [pc EXCEPT ![w] = "charge"],
           UNCHANGED <<req, owner, status, scope, slot, now, job>>,
           \A k \in Keys : EntriesOf(k)' = EntriesOf(k)
    PROVE  Handling(w)' /\ Key(w)' = Key(w)
  <1>1. /\ pc'[w] = "charge" /\ slot[w] = 0 /\ req[w] \in Requests
        /\ owner[req[w]] = w /\ status[req[w]] = "logging" /\ scope[w] > 0
        /\ Key(w) \in Keys
    BY Types, Reconciles DEF SInv, Handling, InHandler
  <1>2. Visits(w)' = Visits(w)
    BY <1>1 DEF Visits, Rest
  <1>3. Key(w)' = Key(w)
    BY <1>2 DEF Key, Id, Month, At
  <1>4. EntriesOf(Key(w))' = EntriesOf(Key(w))
    <2>1. PICK k \in Keys : k = Key(w)
      BY <1>1
    <2>2. EntriesOf(Key(w))' = EntriesOf(k)'
      BY <1>3, <2>1 DEF EntriesOf
    <2> QED
      BY <2>1, <2>2
  <1>5. Charging(w)'
    BY <1>1, <1>2, <1>4 DEF Charging
  <1> QED
    BY <1>1, <1>3, <1>5 DEF Handling, InHandler

LEMMA ReconcileReleaseKeeps ==
    ASSUME SInv, NEW w \in Workers, ReconcileRelease(w) PROVE SInv'
  <1>1. /\ pc[w] = "log" /\ Visits(w) # {} /\ EntriesOf(Key(w)) # {}
        /\ mutex \in {None, w} /\ Unreserve(w)
        /\ At(w) \in reserved[req[w]]
        /\ SetSpend(w, MonusOf(SpendOf(Key(w)), Reserve))
        /\ UNCHANGED <<entry_count, minute, req, slot, now, job, status, owner,
                       taken, stranded, forgotten, unpaid, crashes>>
    BY DEF ReconcileRelease, LogFrame, InLoop, Found, Locked, Releases
  <1>2. pc[w] \in InHandler
    BY <1>1 DEF InHandler
  <1>3. /\ req[w] \in Requests /\ At(w) \in Nat /\ scope[w] \in Nat
        /\ Key(w) \in Keys /\ job[w].cost \in Nat /\ Reserve \in Nat
        /\ SpendOf(Key(w)) \in Nat /\ slot[w] = 0
        /\ reserved[req[w]] \subseteq 1..Len(Scopes[req[w]])
    BY <1>1, Reconciles
  <1>4. PICK k0 \in Keys : k0 = Key(w)
    BY <1>3
  <1>5. PICK rest \in Nat : rest = MonusOf(SpendOf(k0), Reserve)
    BY <1>3, <1>4, MonusType
  <1>6. PICK R : R = reserved[req[w]] \ {At(w)}
    OBVIOUS
  <1>7. /\ R \in SUBSET (1..Len(Scopes[req[w]]))
        /\ reserved' = [reserved EXCEPT ![req[w]] = R]
    BY <1>1, <1>3, <1>6, Types DEF Unreserve
  <1>8. /\ crossed \subseteq crossed'
        /\ ~LostCount(k0)' => /\ req[w] \in Holders(k0)
                              /\ Holders(k0)' = Holders(k0) \ {req[w]}
        /\ \A k \in Keys \ {k0} : ~LostCount(k)' => Holders(k)' = Holders(k)
    BY <1>1, <1>4, UnreserveChange
  <1>9. \A k : Owed(k) = 0
    BY <1>1 DEF Owed
  <1>10. ASSUME NEW cost \in Nat, recorded'[k0] = recorded[k0] + cost,
                Owed(k0)' = cost, ~LostCount(k0)'
         PROVE  rest + Owed(k0)' = Commitment(k0)'
    <2>1. ~LostCount(k0)
      BY <1>1, <1>8, <1>10 DEF LostCount
    <2>2. SpendOf(k0) = Commitment(k0)
      BY <1>1, <1>4, <1>9, <2>1, Accounted
    <2>3. /\ Reserve <= Commitment(k0)
          /\ Commitment(k0)' = Commitment(k0) - Reserve + cost
      BY <1>8, <1>10, CommitmentChange
    <2>4. rest = SpendOf(k0) - Reserve
      BY <1>3, <1>4, <1>5, <2>2, <2>3, MonusType
    <2> QED
      BY <1>3, <1>4, <1>10, <2>2, <2>3, <2>4
  <1>11. CASE /\ job[w].adds /\ pc' = [pc EXCEPT ![w] = "charge"]
              /\ mutex' = w /\ Incur(w) /\ UNCHANGED scope
    <2>1. /\ recorded' \in [Keys -> Nat]
          /\ recorded'[k0] = recorded[k0] + job[w].cost
          /\ \A k \in Keys \ {k0} : recorded'[k] = recorded[k]
      BY <1>3, <1>4, <1>11, IncurStores
    <2>2. \A k \in Keys : EntriesOf(k)' = EntriesOf(k)
      BY <1>1, <1>4, <1>5, SetSpendStores
    <2>3. Handling(w)' /\ Key(w)' = Key(w)
      BY <1>1, <1>11, <2>2, ChargeBegins
    <2>4. mutex' = w /\ pc'[w] = "charge" /\ job' = job /\ w # None
      BY <1>1, <1>11, SpendAssumption, Types
    <2>5. Key(mutex)' = k0
      BY <1>4, <2>3, <2>4 DEF Key, Id, Month, At, Visits, Rest
    <2>6. \A k : Owed(k)' = IF k = k0 THEN job[w].cost ELSE 0
      BY <2>4, <2>5 DEF Owed
    <2>7. entries' \in [Indices -> EntryType] /\ \A k \in Keys : Balanced(k)'
      <3>1. ~LostCount(k0)' => rest + Owed(k0)' = Commitment(k0)'
        BY <1>3, <1>10, <2>1, <2>6
      <3>2. \A k \in Keys \ {k0} : Owed(k)' = Owed(k)
        BY <1>9, <2>6
      <3>3. SetSpend(w, rest)
        BY <1>1, <1>4, <1>5
      <3> QED
        BY <1>1, <1>4, <1>8, <2>1, <3>1, <3>2, <3>3, SpendBalances
    <2>8. scope' = [scope EXCEPT ![w] = scope[w]] /\ "charge" \in InHandler
      BY <1>11, Types DEF InHandler
    <2> QED
      BY <1>1, <1>2, <1>3, <1>7, <1>11, <2>1, <2>3, <2>7, <2>8, LoopKeeps
  <1>12. CASE ~job[w].adds /\ mutex' = None /\ NextScope(w) /\ UNCHANGED <<pc, recorded>>
    <2>1. \A k : Owed(k)' = 0
      BY <1>12 DEF Owed
    <2>2. recorded'[k0] = recorded[k0] + 0 /\ recorded' \in [Keys -> Nat]
      BY <1>12, HoldersFinite DEF SInv, TypeOK, Keys
    <2>3. entries' \in [Indices -> EntryType] /\ \A k \in Keys : Balanced(k)'
      <3>1. ~LostCount(k0)' => rest + Owed(k0)' = Commitment(k0)'
        BY <1>10, <2>1, <2>2
      <3>2. SetSpend(w, rest)
        BY <1>1, <1>4, <1>5
      <3> QED
        BY <1>1, <1>4, <1>8, <1>9, <1>12, <2>1, <3>1, <3>2, SpendBalances
    <2>4. pc' = [pc EXCEPT ![w] = "log"]
      BY <1>1, <1>12, Types
    <2>5. /\ Handling(w)' /\ "log" \in InHandler /\ At(w) + 1 \in Nat
          /\ scope' = [scope EXCEPT ![w] = At(w) + 1]
      BY <1>1, <1>3, <1>12, <2>4, LogGoesOn
    <2> QED
      BY <1>1, <1>2, <1>3, <1>7, <1>12, <2>2, <2>3, <2>4, <2>5, LoopKeeps
  <1> QED
    BY <1>11, <1>12 DEF ReconcileRelease

LEMMA ReconcileAddKeeps ==
    ASSUME SInv, NEW w \in Workers, ReconcileAdd(w) PROVE SInv'
  <1>1. /\ pc[w] \in {"log", "charge"} /\ mutex' = None
        /\ pc' = [pc EXCEPT ![w] = "log"] /\ NextScope(w)
        /\ SetSpend(w, SpendOf(Key(w)) + job[w].cost)
        /\ UNCHANGED <<entry_count, minute, req, slot, now, job, status, owner,
                       reserved, crossed, taken, stranded, forgotten, unpaid,
                       crashes>>
    BY DEF ReconcileAdd, LogFrame, InLoop
  <1>2. /\ Visits(w) # {} /\ EntriesOf(Key(w)) # {} /\ mutex \in {None, w}
        /\ pc[w] = "charge" => mutex = w
    BY DEF ReconcileAdd, InLoop, Found, Locked, SInv, Handling, Charging
  <1>3. /\ req[w] \in Requests /\ At(w) \in Nat /\ slot[w] = 0
        /\ Key(w) \in Keys /\ job[w].cost \in Nat
        /\ SpendOf(Key(w)) \in Nat
        /\ reserved[req[w]] \subseteq 1..Len(Scopes[req[w]])
    BY <1>1, <1>2, Reconciles
  <1>4. PICK k0 \in Keys : k0 = Key(w)
    BY <1>3
  <1>5. \A k : Owed(k)' = 0
    BY <1>1 DEF Owed
  <1>6. \A k \in Keys : Holders(k)' = Holders(k)
    BY <1>1, HoldersKept DEF Counts
  <1>7. ASSUME ~LostCount(k0)' PROVE SpendOf(k0) + Owed(k0) = Commitment(k0)
    BY <1>1, <1>2, <1>4, <1>7, Accounted DEF LostCount
  <1>8. /\ recorded' \in [Keys -> Nat]
        /\ \A k \in Keys \ {k0} : /\ recorded'[k] = recorded[k]
                                  /\ Owed(k)' = Owed(k)
        /\ ~LostCount(k0)' =>
              SpendOf(k0) + job[w].cost + Owed(k0)' = Commitment(k0)'
    <2>1. CASE pc[w] = "log" /\ Incur(w)
      <3>1. /\ recorded' \in [Keys -> Nat]
            /\ recorded'[k0] = recorded[k0] + job[w].cost
            /\ \A k \in Keys \ {k0} : recorded'[k] = recorded[k]
        BY <1>3, <1>4, <2>1, IncurStores
      <3>2. \A k : Owed(k) = 0
        BY <1>2, <2>1 DEF Owed
      <3>3. ASSUME ~LostCount(k0)'
            PROVE  SpendOf(k0) + job[w].cost + Owed(k0)' = Commitment(k0)'
        <4>1. SpendOf(k0) = Commitment(k0)
          BY <1>3, <1>4, <1>7, <3>2, <3>3
        <4>2. Commitment(k0)' = Commitment(k0) + job[w].cost
          BY <1>3, <1>6, <3>1, CommitmentChange
        <4> QED
          BY <1>3, <1>4, <1>5, <4>1, <4>2
      <3> QED
        BY <1>5, <3>1, <3>2, <3>3
    <2>2. CASE pc[w] = "charge" /\ recorded' = recorded
      <3>1. mutex = w /\ w # None
        BY <1>2, <2>2, SpendAssumption
      <3>2. \A k : Owed(k) = IF k = k0 THEN job[w].cost ELSE 0
        BY <1>4, <2>2, <3>1 DEF Owed
      <3>3. Commitment(k0)' = Commitment(k0)
        BY <1>6, <2>2 DEF Commitment
      <3>4. ASSUME ~LostCount(k0)'
            PROVE  SpendOf(k0) + job[w].cost + Owed(k0)' = Commitment(k0)'
        <4>1. SpendOf(k0) + job[w].cost = Commitment(k0)
          BY <1>7, <3>2, <3>4
        <4> QED
          BY <1>3, <1>4, <1>5, <3>3, <4>1
      <3> QED
        BY <1>5, <2>2, <3>2, <3>4 DEF SInv, TypeOK, Keys
    <2> QED
      BY <2>1, <2>2 DEF ReconcileAdd, InLoop
  <1>9. entries' \in [Indices -> EntryType] /\ \A k \in Keys : Balanced(k)'
    <2>1. PICK amount \in Nat : amount = SpendOf(k0) + job[w].cost
      BY <1>3, <1>4
    <2>2. SetSpend(w, amount)
      BY <1>1, <1>4, <2>1
    <2>3. ~LostCount(k0)' => amount + Owed(k0)' = Commitment(k0)'
      BY <1>8, <2>1
    <2> QED
      BY <1>1, <1>2, <1>4, <1>6, <1>8, <2>2, <2>3, SpendBalances
  <1>10. /\ Handling(w)' /\ "log" \in InHandler /\ At(w) + 1 \in Nat
         /\ scope' = [scope EXCEPT ![w] = At(w) + 1]
    BY <1>1, <1>3, LogGoesOn
  <1>11. /\ reserved[req[w]] \in SUBSET (1..Len(Scopes[req[w]]))
         /\ reserved' = [reserved EXCEPT ![req[w]] = reserved[req[w]]]
         /\ pc[w] \in InHandler
    BY <1>1, <1>3, Types DEF InHandler
  <1> QED
    BY <1>1, <1>2, <1>3, <1>8, <1>9, <1>10, <1>11, LoopKeeps

-----------------------------------------------------------------------------
(* The invariant                                                           *)

LEMMA InitSInv == Init => SInv
  <1> SUFFICES ASSUME Init PROVE SInv
    OBVIOUS
  <1>1. /\ MaxMinute \in Nat /\ MaxCrashes \in Nat /\ EntriesPerStripe \in Nat
        /\ MinutesPerMonth \in Nat \ {0} /\ Reserve \in Nat
    BY SpendAssumption
  <1>2. 0 \in Months
    <2>1. 0 \in 0..MaxMinute /\ MonthOf(0) = 0
      BY <1>1 DEF MonthOf
    <2> QED
      BY <2>1, MonthType
  <1>3. EmptyEntry \in EntryType /\ NoJob \in Jobs
    BY <1>1, <1>2 DEF EmptyEntry, EntryType, NoJob, Jobs
  <1>4. TypeOK
    BY <1>1, <1>2, <1>3 DEF Init, TypeOK
  <1>5. IsFiniteSet(Reserving)
    <2>1. Reserving = {}
      BY DEF Init, Reserving
    <2> QED
      BY <2>1, FS_EmptySet
  <1>6. \A w \in Workers : Handling(w) /\ Evicting(w)
    BY DEF Init, Handling, Evicting, InHandler
  <1>7. \A r \in Requests : Settled(r)
    BY DEF Init, Settled
  <1>8. ASSUME NEW k \in Keys PROVE Balanced(k)
    <2>1. EntriesOf(k) = {}
      BY DEF Init, EntriesOf
    <2>2. Holders(k) = {} /\ recorded[k] = 0
      BY <1>8 DEF Init, Holders, Keys
    <2> QED
      BY <2>1, <2>2 DEF Balanced
  <1> QED
    BY <1>4, <1>5, <1>6, <1>7, <1>8 DEF SInv

LEMMA NextKeepsSInv == SInv /\ [Next]_vars => SInv'
  <1> SUFFICES ASSUME SInv, [Next]_vars PROVE SInv'
    OBVIOUS
  <1>1. ASSUME NEW w \in Workers, NEW r \in Requests,
               AccessStart(w, r) \/ LogStart(w, r)
        PROVE  SInv'
    BY <1>1, AccessStartKeeps, LogStartKeeps
  <1>2. ASSUME NEW w \in Workers, Create(w) PROVE SInv'
    BY <1>2, AppendEntryKeeps, EvictWithdrawKeeps, EvictPublishKeeps DEF Create
  <1>3. ASSUME NEW w \in Workers, Access(w) PROVE SInv'
    BY <1>3, CheckHardKeeps, CheckSoftKeeps, QuotaDecidesKeeps,
       ReleaseScopeKeeps, ReleaseDoneKeeps DEF Access
  <1>4. ASSUME NEW w \in Workers, Log(w) PROVE SInv'
    BY <1>4, ReconcileReleaseKeeps, ReconcileAddKeeps, LogDoneKeeps DEF Log
  <1>5. ASSUME NEW w \in Workers, Crash(w) \/ Reap(w) PROVE SInv'
    BY <1>5, CrashKeeps, ReapKeeps
  <1>6. CASE Tick
    <2>1. minute' \in 0..MaxMinute
      BY <1>6, SpendAssumption DEF Tick, SInv, TypeOK
    <2> QED
      BY <1>6, <2>1, ClockKeeps DEF Tick
  <1>7. CASE UNCHANGED vars
    <2>1. minute' \in 0..MaxMinute
      BY <1>7 DEF vars, SInv, TypeOK
    <2> QED
      BY <1>7, <2>1, ClockKeeps DEF vars
  <1> QED
    BY <1>1, <1>2, <1>3, <1>4, <1>5, <1>6, <1>7 DEF Next, Quiescent

(* Every entry says what the requests have committed, whatever the order   *)
(* in which the workers run through their scopes, give up half-way, or     *)
(* die: SInv is an invariant.                                              *)
THEOREM SpendInvariant == Spec => []SInv
  BY InitSInv, NextKeepsSInv, PTL DEF Spec

(* SpendIsAccounted: no key has two entries, and an entry that has not     *)
(* lost count holds the reservations in flight and the costs recorded.     *)
THEOREM SpendAccounted == Spec => []SpendIsAccounted
  <1>1. SInv => SpendIsAccounted
    <2> SUFFICES ASSUME SInv PROVE SpendIsAccounted
      OBVIOUS
    <2>1. TypeOK
      BY DEF SInv
    <2>2. ASSUME NEW i \in 1..entry_count, NEW j \in 1..entry_count,
                 entries[i].key_hash = entries[j].key_hash,
                 entries[i].key_hash # None
          PROVE  i = j
      <3>1. i \in Indices
        BY <2>1, SpendAssumption DEF TypeOK, Indices
      <3>2. PICK k \in Keys : k = entries[i].key_hash
        BY <2>1, <2>2, <3>1 DEF TypeOK, EntryType, Keys
      <3>3. i \in EntriesOf(k) /\ j \in EntriesOf(k)
        BY <2>2, <3>2 DEF EntriesOf
      <3> QED
        BY <3>3 DEF SInv, Balanced
    <2>3. \A k \in Keys : \A i \in EntriesOf(k) :
              ~LostCount(k) => entries[i].spend_micros + Owed(k) = Commitment(k)
      BY DEF SInv, Balanced
    <2> QED
      BY <2>1, <2>2, <2>3 DEF SpendIsAccounted, Keys
  <1> QED
    BY <1>1, SpendInvariant, PTL

-----------------------------------------------------------------------------
(* What may add a reservation                                              *)

LEMMA HoldersFall ==
    ASSUME NEW k, \A r \in Requests : reserved'[r] \subseteq reserved[r],
           \A r \in Reserving :
              taken'[r] = taken[r] /\ (Counts(r)' => Counts(r))
    PROVE  Holders(k)' \subseteq Holders(k)
  BY DEF Holders, Reserving, Counts

\* A request that has reserved counts, unless it is done.
LEMMA ReservingCounts ==
    ASSUME SInv, NEW r \in Reserving
    PROVE  r \in Requests /\ (Counts(r) \/ status[r] = "done")
  BY Types DEF SInv, Settled, Reserving, Counts

\* A reservation is only made when it fits into the budget.
LEMMA ReservationFits ==
    ASSUME SInv, NEW w \in Workers, CheckHard(w), NEW k \in Keys,
           ~LostCount(k), ~(Holders(k)' \subseteq Holders(k))
    PROVE  Commitment(k)' <= Budget[k[1]]
  <1>1. /\ pc[w] = "check" /\ Visits(w) # {} /\ Hard(req[w]) /\ Found(w)
        /\ UNCHANGED <<status, taken, stranded, recorded>>
    BY DEF CheckHard, CheckFrame, InLoop, ghosts
  <1>2. PICK r \in Requests : r = req[w]
    BY <1>1, AtScope DEF InHandler
  <1>3. PICK a \in 1..Len(Scopes[r]) : a = At(w)
    BY <1>1, <1>2, AtScope DEF InHandler
  <1>4. PICK k0 \in Keys : /\ k0 = Key(w) /\ k0 = <<Scopes[r][a], Month(w)>>
                           /\ Id(w) = Scopes[r][a] /\ Id(w) \in Ids
    BY <1>1, <1>2, <1>3, AtScope DEF InHandler
  <1>5. /\ Counts(r) /\ taken[r] = Month(w) /\ a \notin reserved[r]
    <2>1. /\ status[r] = "handling" /\ taken[r] = Month(w)
          /\ \A i \in reserved[r] : i < scope[w]
      BY <1>1, <1>2 DEF SInv, Handling
    <2>2. scope[w] <= a /\ scope[w] \in Nat /\ a \in Nat
      <3>1. Len(Scopes[r]) \in Nat
        BY SpendAssumption
      <3> QED
        BY <1>1, <1>3, <3>1, AtScope DEF InHandler, SInv, TypeOK
    <2> QED
      BY <2>1, <2>2 DEF Counts
  <1>6. reserved' # reserved
    BY <1>1, HoldersKept DEF Counts
  <1>7. /\ ~Exhausted(w, SpendOf(k0))
        /\ reserved' = [reserved EXCEPT ![r] = @ \cup {a}]
    BY <1>2, <1>3, <1>4, <1>6 DEF CheckHard
  <1>8. PICK R : R = reserved[r] \cup {a}
    OBVIOUS
  <1>9. reserved' = [reserved EXCEPT ![r] = R]
    BY <1>7, <1>8, Types
  <1>10. IF k = k0 THEN r \notin Holders(k) /\ Holders(k)' = Holders(k) \cup {r}
                   ELSE Holders(k)' = Holders(k)
    BY <1>1, <1>4, <1>5, <1>8, <1>9, HoldersChange
  <1>11. k = k0
    BY <1>10
  <1>12. recorded'[k] = recorded[k] + 0
    BY <1>1, HoldersFinite
  <1>13. Commitment(k)' = Commitment(k) + Reserve + 0
    BY <1>10, <1>11, <1>12, CommitmentChange
  <1>14. SpendOf(k) = Commitment(k)
    <2>1. Owed(k) = 0
      BY <1>1 DEF Owed, Found, Locked
    <2> QED
      BY <1>1, <1>4, <1>11, <2>1, Accounted DEF Found
  <1>15. /\ Commitment(k) < Budget[k[1]]
         /\ Reserve <= MonusOf(Budget[k[1]], Commitment(k))
    <2>1. k[1] = Id(w) /\ Budget[k[1]] \in Nat
      BY <1>4, <1>11, SpendAssumption
    <2>2. MonusOf(Budget[k[1]], Commitment(k)) \in Nat
      BY <2>1, HoldersFinite, MonusType
    <2> QED
      BY <1>1, <1>7, <1>11, <1>14, <2>1, <2>2, HoldersFinite, SpendAssumption
      DEF Exhausted
  <1> QED
    <2>1. Budget[k[1]] \in Nat
      BY <1>4, <1>11, SpendAssumption
    <2> QED
      BY <1>13, <1>15, <2>1, HoldersFinite DEF MonusOf

\* The other steps leave the holders of an entry, or take some away.
LEMMA OthersAddNoHolder ==
    ASSUME SInv, [Next]_vars, \A w \in Workers : ~CheckHard(w), NEW k
    PROVE  Holders(k)' \subseteq Holders(k)
  <1>1. ASSUME NEW w \in Workers, NEW r \in Requests, AccessStart(w, r)
        PROVE  Holders(k)' \subseteq Holders(k)
    <2>1. /\ reserved' = reserved /\ stranded' = stranded
          /\ status[r] = "new"
          /\ status' = [status EXCEPT ![r] = "handling"]
          /\ taken' = [taken EXCEPT ![r] = MonthOf(minute)]
      BY <1>1 DEF AccessStart
    <2>2. r \notin Reserving
      BY <2>1 DEF SInv, Settled, Reserving
    <2> QED
      BY <2>1, <2>2, Types, HoldersFall DEF Reserving, Counts
  <1>2. ASSUME NEW w \in Workers, NEW r \in Requests, LogStart(w, r)
        PROVE  Holders(k)' \subseteq Holders(k)
    <2>1. /\ reserved' = reserved /\ stranded' = stranded /\ taken' = taken
          /\ status[r] = "admitted"
          /\ status' = [status EXCEPT ![r] = "logging"]
      BY <1>2 DEF LogStart, ghosts
    <2> QED
      BY <2>1, Types, HoldersFall DEF Reserving, Counts
  <1>3. ASSUME UNCHANGED <<reserved, stranded, taken, status>>
        PROVE  Holders(k)' \subseteq Holders(k)
    BY <1>3, HoldersFall DEF Counts
  <1>4. ASSUME NEW w \in Workers, pc[w] \in InHandler, NEW st, Finish(w, st),
               reserved' = reserved, taken' = taken,
               stranded' \subseteq stranded \cup {req[w]}
        PROVE  Holders(k)' \subseteq Holders(k)
    <2>1. req[w] \in Requests /\ status' = [status EXCEPT ![req[w]] = st]
      BY <1>4, FinishStores
    <2>2. Counts(req[w])
      BY <1>4 DEF SInv, Handling, InHandler, Counts
    <2> QED
      BY <1>4, <2>1, <2>2, Types, HoldersFall DEF Reserving, Counts
  <1>5. ASSUME NEW w \in Workers, Create(w)
        PROVE  Holders(k)' \subseteq Holders(k)
    BY <1>3, <1>5 DEF Create, AppendEntry, EvictWithdraw, EvictPublish,
                      CreateFrame, request
  <1>6. ASSUME NEW w \in Workers, Access(w)
        PROVE  Holders(k)' \subseteq Holders(k)
    <2>1. CASE CheckSoft(w)
      BY <1>3, <2>1 DEF CheckSoft, CheckFrame, ghosts
    <2>2. CASE QuotaDecides(w)
      BY <1>3, <1>4, <2>2 DEF QuotaDecides, LoopDone, InHandler, ghosts
    <2>3. CASE ReleaseScope(w)
      <3>1. /\ reserved' = [reserved EXCEPT ![req[w]] = @ \ {At(w)}]
            /\ UNCHANGED <<status, taken, stranded>>
        BY <2>3 DEF ReleaseScope, Unreserve, ReleaseFrame
      <3> QED
        BY <3>1, Types, HoldersFall DEF Counts
    <2>4. CASE ReleaseDone(w)
      BY <1>4, <2>4 DEF ReleaseDone, LoopDone, InHandler, ghosts
    <2> QED
      BY <1>6, <2>1, <2>2, <2>3, <2>4 DEF Access
  <1>7. ASSUME NEW w \in Workers, Log(w)
        PROVE  Holders(k)' \subseteq Holders(k)
    <2>1. CASE ReconcileRelease(w) \/ ReconcileAdd(w)
      <3>1. /\ \A r \in Requests : reserved'[r] \subseteq reserved[r]
            /\ UNCHANGED <<status, taken, stranded>>
        BY <2>1, Types DEF ReconcileRelease, ReconcileAdd, Unreserve, LogFrame
      <3> QED
        BY <3>1, HoldersFall DEF Counts
    <2>2. CASE LogDone(w)
      BY <1>4, <2>2 DEF LogDone, LoopDone, InHandler
    <2> QED
      BY <1>7, <2>1, <2>2 DEF Log
  <1>8. ASSUME NEW w \in Workers, Crash(w)
        PROVE  Holders(k)' \subseteq Holders(k)
    <2> DEFINE lost == {r \in Requests :
                          owner[r] = w /\ status[r] \notin {"denied", "done"}}
    <2>1. /\ reserved' = reserved /\ taken' = taken
          /\ status' = [r \in Requests |->
                          IF r \in lost THEN "dead" ELSE status[r]]
          /\ stranded' \subseteq stranded \cup lost
      BY <1>8 DEF Crash
    <2>2. \A r \in lost : status[r] # "done"
      OBVIOUS
    <2> HIDE DEF lost
    <2>3. ASSUME NEW r \in Reserving PROVE Counts(r)' => Counts(r)
      BY <2>1, <2>2, <2>3, ReservingCounts DEF Counts
    <2> QED
      BY <2>1, <2>3, HoldersFall
  <1>9. ASSUME NEW w \in Workers, Reap(w)
        PROVE  Holders(k)' \subseteq Holders(k)
    BY <1>3, <1>9 DEF Reap, request, ghosts
  <1>10. CASE Tick
    BY <1>3, <1>10 DEF Tick, request, ghosts
  <1>11. CASE UNCHANGED vars
    BY <1>3, <1>11 DEF vars, request, ghosts
  <1> QED
    BY <1>1, <1>2, <1>5, <1>6, <1>7, <1>8, <1>9, <1>10, <1>11
    DEF Next, Quiescent

(* ReservedWithinBudget: a step that adds a reservation to an entry leaves *)
(* the commitments of its month within the budget, of every scope.         *)
THEOREM SpendWithinBudget == Spec => ReservedWithinBudget
  <1>1. SInv /\ [Next]_vars =>
            [\A k \in Keys :
                Holders(k) \subseteq Holders(k)' /\ Holders(k) # Holders(k)'
                    /\ ~LostCount(k)
                => Commitment(k)' <= Budget[k[1]]]_vars
    <2> SUFFICES ASSUME SInv, [Next]_vars, NEW k \in Keys,
                        Holders(k) \subseteq Holders(k)',
                        Holders(k) # Holders(k)', ~LostCount(k)
                 PROVE  Commitment(k)' <= Budget[k[1]]
      OBVIOUS
    <2>1. ~(Holders(k)' \subseteq Holders(k))
      OBVIOUS
    <2>2. PICK w \in Workers : CheckHard(w)
      BY <2>1, OthersAddNoHolder
    <2> QED
      BY <2>1, <2>2, ReservationFits
  <1> QED
    BY <1>1, SpendInvariant, PTL DEF Spec, ReservedWithinBudget, Keys

=============================================================================
