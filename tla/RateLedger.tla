------------------------------ MODULE RateLedger ------------------------------
(***************************************************************************)
(* The request and token ledger of llm-ratelimit: one stripe of the shared *)
(* memory zone, the ACCESS and LOG handlers of every worker process on it, *)
(* and the slab mutex that serialises them                                 *)
(* (ngx_http_llm_ratelimit.zig: getOrCreateEntry, checkAndConsume,         *)
(* reconcileTokens, setCooldown, returnRequestSlot and their callers).     *)
(*                                                                         *)
(* A worker may be killed between any two stores of a critical section;    *)
(* the master then releases the mutex by force and the next worker finds   *)
(* the ledger as the dead one left it.  So a critical section is a         *)
(* sequence of actions, one per store (or per group of stores that nobody  *)
(* can observe apart).                                                     *)
(*                                                                         *)
(* Stripes share nothing, so one stripe is modelled.  Time is the minute   *)
(* of the window; a cooldown ends at a minute, too.  A handler reads the   *)
(* cached time of its event-loop iteration, which may be older than the    *)
(* moment it gets the mutex.  Every request has the location's base quota  *)
(* (tier overrides change only the numbers).                               *)
(***************************************************************************)
EXTENDS Integers, FiniteSets, FiniteSetsExt

CONSTANTS
    Workers,         \* worker processes
    Requests,        \* requests
    Keys,            \* caller keys (their hashes)
    KeyOf,           \* the key each request resolves to
    None,            \* no worker, no key (key_hash = 0), no request
    EntriesPerStripe,
    RequestLimit,    \* requests_per_minute + burst_requests
    TokenLimit,      \* tokens_per_minute, 0 = off
    ReserveTokens,   \* reserve_tokens, taken by every request
    ActualTokens,    \* usage llm-proxy may report; 0 = not available
    Cooldowns,       \* provider reset times in minutes; 0 = no cooldown
    SlotReturns,     \* TRUE if a rejected request may have consumed a slot
    MaxMinute,       \* bound on the clock
    MaxCrashes       \* bound on worker deaths

ASSUME LedgerAssumption ==
    /\ KeyOf \in [Requests -> Keys]
    /\ None \notin Workers \cup Keys \cup Requests
    /\ EntriesPerStripe \in Nat \ {0}
    /\ RequestLimit \in Nat /\ TokenLimit \in Nat /\ ReserveTokens \in Nat
    /\ ActualTokens \subseteq Nat /\ Cooldowns \subseteq Nat
    /\ SlotReturns \in BOOLEAN
    /\ MaxMinute \in Nat /\ MaxCrashes \in Nat

VARIABLES
    \* the stripe in shared memory and its mutex
    entries, entry_count, mutex,
    \* the clock, and the worker processes: where the handler stands, its
    \* request, its entry, its cached minute, what its LOG handler will do
    minute, pc, req, slot, now, job,
    \* the requests: progress, owner, window they were counted in,
    \* reservation kept in the request context
    status, owner, window, reservation,
    \* ghosts: the requests the live entry of a key has counted in its
    \* window, what each of them is charged, which counts of the entry a
    \* LOG handler lowered for a request that is not among them, the longest
    \* cooldown the entry was given, the windows whose counts were evicted,
    \* half reset by a worker that died or lowered for another window's
    \* request, and the number of worker deaths
    counted, charge, crossed, cooled, forgotten, crashes

shared  == <<entries, entry_count, mutex>>
workers == <<pc, req, slot, now, job>>
request == <<status, owner, window, reservation>>
ghosts  == <<counted, charge, crossed, cooled, forgotten>>
vars    == <<shared, minute, workers, request, ghosts, crashes>>

Indices == 1..EntriesPerStripe

Minutes == 0..MaxMinute

EmptyEntry == [key_hash |-> None, req_count |-> 0, token_count |-> 0,
               window_minute |-> 0, last_used |-> 0, cooldown_until |-> 0]

\* The populated prefix that every scan is limited to.
Prefix == 1..entry_count

\* Mutant: the scan misses the last entry.
EntriesButLast(k) == {i \in 1..(entry_count - 1) : entries[i].key_hash = k}

\* findEntry(): the first entry of the prefix with the key.
EntriesOf(k) == {i \in Prefix : entries[i].key_hash = k}
FindEntry(k) == Min(EntriesOf(k))

\* The victim of an eviction: the first of the least recently used.
Oldest == Min({i \in Indices :
                \A j \in Indices : entries[i].last_used <= entries[j].last_used})

MonusOf(a, b) == IF a > b THEN a - b ELSE 0

Key(w) == KeyOf[req[w]]

\* What the requests of S are charged together: the number of their tokens.
Tokens(c, S) == UNION {{r} \X (1..c[r]) : r \in S}
ChargeOf(S) == Cardinality(Tokens(charge, S))

\* A request context exists in the worker that ran ACCESS until LOG.
Waiting(r) == status[r] \in {"admitted", "denied"}

NoJob == [actual |-> 0, until |-> 0, giveback |-> FALSE]

-----------------------------------------------------------------------------
(* A worker's event loop starts a handler; the mutex                       *)

AccessStart(w, r) ==
    /\ pc[w] = "idle" /\ status[r] = "new"
    /\ pc' = [pc EXCEPT ![w] = "access"]
    /\ req' = [req EXCEPT ![w] = r]
    /\ now' = [now EXCEPT ![w] = minute]
    /\ status' = [status EXCEPT ![r] = "handling"]
    /\ owner' = [owner EXCEPT ![r] = w]
    /\ UNCHANGED <<shared, minute, slot, job, window, reservation, ghosts,
                   crashes>>

(* log_handler() up to the lock: it decides what there is to do from the   *)
(* request context and the facts llm-proxy reports.  A cooldown needs a    *)
(* 429 of the provider, a rejection excludes both usage and provider.      *)
LogJobs(r) ==
    LET admitted == status[r] = "admitted"
    IN  [actual   : IF admitted /\ reservation[r] > 0 THEN ActualTokens
                                                      ELSE {0},
         until    : IF admitted
                    THEN {IF c = 0 THEN 0 ELSE minute + c : c \in Cooldowns}
                    ELSE {0},
         giveback : {FALSE}]
        \cup (IF admitted /\ SlotReturns
              THEN {[actual |-> 0, until |-> 0, giveback |-> TRUE]} ELSE {})

LogStart(w, r) ==
    /\ pc[w] = "idle" /\ Waiting(r) /\ owner[r] = w
    /\ \E j \in LogJobs(r) :
        \/ /\ j = NoJob
           /\ status' = [status EXCEPT ![r] = "done"]
           /\ UNCHANGED <<pc, req, job>>
        \/ /\ j # NoJob
           /\ pc' = [pc EXCEPT ![w] = "log"]
           /\ req' = [req EXCEPT ![w] = r]
           /\ job' = [job EXCEPT ![w] = j]
           /\ status' = [status EXCEPT ![r] = "logging"]
    /\ UNCHANGED <<shared, minute, slot, now, owner, window, reservation,
                   ghosts, crashes>>

ShmtxLock(w) ==
    /\ pc[w] \in {"access", "log"} /\ mutex = None
    /\ mutex' = w
    /\ pc' = [pc EXCEPT ![w] = IF pc[w] = "access" THEN "lookup"
                                                   ELSE "reconcile"]
    /\ UNCHANGED <<entries, entry_count, minute, req, slot, now, job, request,
                   ghosts, crashes>>

(* ngx_shmtx_unlock() and the end of the handler: setCtx() after ACCESS.   *)
ShmtxUnlock(w) ==
    /\ pc[w] \in {"allow", "deny", "logged"}
    /\ mutex' = None
    /\ pc' = [pc EXCEPT ![w] = "idle"]
    /\ req' = [req EXCEPT ![w] = None]
    /\ slot' = [slot EXCEPT ![w] = 0]
    /\ job' = [job EXCEPT ![w] = NoJob]
    /\ now' = [now EXCEPT ![w] = 0]
    /\ status' = [status EXCEPT ![req[w]] =
                    CASE pc[w] = "allow" -> "admitted"
                      [] pc[w] = "deny"  -> "denied"
                      [] OTHER           -> "done"]
    /\ UNCHANGED <<entries, entry_count, minute, owner, window, reservation,
                   ghosts, crashes>>

-----------------------------------------------------------------------------
(* getOrCreateEntry()                                                      *)

Goto(w, label) == pc' = [pc EXCEPT ![w] = label]

\* The counters of key k's entry start from nothing.
StartsOver(k) ==
    /\ counted' = [counted EXCEPT ![k] = {}]
    /\ crossed' = [crossed EXCEPT ![k] = {}]

InSection(w, label) == pc[w] = label

SectionFrame(w) ==
    UNCHANGED <<mutex, minute, req, now, job, status, owner, crashes>>

LookupHit(w) ==
    /\ InSection(w, "lookup")
    /\ EntriesOf(Key(w)) # {}
    /\ slot' = [slot EXCEPT ![w] = FindEntry(Key(w))]
    /\ Goto(w, "check")
    /\ UNCHANGED <<entries, entry_count, window, reservation, ghosts>>
    /\ SectionFrame(w)

(* A new entry behind the prefix, initialised with key_hash 0.             *)
LookupAppend(w) ==
    /\ InSection(w, "lookup")
    /\ EntriesOf(Key(w)) = {} /\ entry_count < EntriesPerStripe
    /\ slot' = [slot EXCEPT ![w] = entry_count + 1]
    /\ entries' = [entries EXCEPT ![entry_count + 1] =
                    [EmptyEntry EXCEPT !.window_minute = now[w],
                                       !.last_used = now[w]]]
    /\ Goto(w, "append key")
    /\ UNCHANGED <<entry_count, window, reservation, ghosts>>
    /\ SectionFrame(w)

AppendKey(w) ==
    /\ InSection(w, "append key")
    /\ entries' = [entries EXCEPT ![slot[w]].key_hash = Key(w)]
    /\ Goto(w, "append count")
    /\ UNCHANGED <<entry_count, slot, window, reservation, ghosts>>
    /\ SectionFrame(w)

AppendCount(w) ==
    /\ InSection(w, "append count")
    /\ entry_count' = slot[w]
    /\ Goto(w, "check")
    /\ UNCHANGED <<entries, slot, window, reservation, ghosts>>
    /\ SectionFrame(w)

\* Mutant: the new key is published while the victim's counters stand.
EvictPublishesKey(w) ==
    /\ InSection(w, "lookup")
    /\ EntriesOf(Key(w)) = {} /\ entry_count = EntriesPerStripe
    /\ slot' = [slot EXCEPT ![w] = Oldest]
    /\ entries' = [entries EXCEPT ![Oldest].key_hash = Key(w)]
    /\ Goto(w, "evict fields")
    /\ UNCHANGED <<entry_count, window, reservation, ghosts>>
    /\ SectionFrame(w)

(* The stripe is full: the victim's key is withdrawn before its counters   *)
(* are cleared, and the new key is published after.                        *)
LookupEvict(w) ==
    /\ InSection(w, "lookup")
    /\ EntriesOf(Key(w)) = {} /\ entry_count = EntriesPerStripe
    /\ slot' = [slot EXCEPT ![w] = Oldest]
    /\ entries' = [entries EXCEPT ![Oldest].key_hash = None]
    /\ Goto(w, "evict fields")
    /\ LET victim == entries[Oldest].key_hash
       IN  IF victim = None
           THEN UNCHANGED ghosts
           ELSE /\ StartsOver(victim)
                /\ forgotten' = forgotten \cup
                       {<<victim, m>> : m \in 0..entries[Oldest].window_minute}
                /\ cooled' = [cooled EXCEPT ![victim] = 0]
                /\ UNCHANGED charge
    /\ UNCHANGED <<entry_count, window, reservation>>
    /\ SectionFrame(w)

EvictFields(w) ==
    /\ InSection(w, "evict fields")
    /\ entries' = [entries EXCEPT ![slot[w]] =
                    [EmptyEntry EXCEPT !.window_minute = now[w],
                                       !.last_used = now[w]]]
    /\ Goto(w, "evict key")
    /\ UNCHANGED <<entry_count, slot, window, reservation, ghosts>>
    /\ SectionFrame(w)

EvictKey(w) ==
    /\ InSection(w, "evict key")
    /\ entries' = [entries EXCEPT ![slot[w]].key_hash = Key(w)]
    /\ Goto(w, "check")
    /\ UNCHANGED <<entry_count, slot, window, reservation, ghosts>>
    /\ SectionFrame(w)

-----------------------------------------------------------------------------
(* checkAndConsume()                                                       *)

InCooldown(w) == now[w] < entries[slot[w]].cooldown_until

WindowOver(w) == now[w] > entries[slot[w]].window_minute

CheckCooldown(w) ==
    /\ InSection(w, "check")
    /\ InCooldown(w)
    /\ Goto(w, "deny")
    /\ UNCHANGED <<entries, entry_count, slot, window, reservation, ghosts>>
    /\ SectionFrame(w)

\* Mutant: the request count of the old window stays.
ResetKeepsRequests(w) ==
    /\ InSection(w, "check")
    /\ ~InCooldown(w) /\ WindowOver(w)
    /\ Goto(w, "reset tokens")
    /\ UNCHANGED <<entries, entry_count, slot, window, reservation, ghosts>>
    /\ SectionFrame(w)

(* The expired window: the counters are cleared before the new window is   *)
(* published, so that a death in between leaves the reset to be repeated.  *)
ResetRequests(w) ==
    /\ InSection(w, "check")
    /\ ~InCooldown(w) /\ WindowOver(w)
    /\ entries' = [entries EXCEPT ![slot[w]].req_count = 0]
    /\ StartsOver(Key(w))
    /\ Goto(w, "reset tokens")
    /\ UNCHANGED <<entry_count, slot, window, reservation, charge, cooled,
                   forgotten>>
    /\ SectionFrame(w)

ResetTokens(w) ==
    /\ InSection(w, "reset tokens")
    /\ entries' = [entries EXCEPT ![slot[w]].token_count = 0]
    /\ Goto(w, "reset window")
    /\ UNCHANGED <<entry_count, slot, window, reservation, ghosts>>
    /\ SectionFrame(w)

ResetWindow(w) ==
    /\ InSection(w, "reset window")
    /\ entries' = [entries EXCEPT ![slot[w]].window_minute = now[w]]
    /\ Goto(w, "touch")
    /\ UNCHANGED <<entry_count, slot, window, reservation, ghosts>>
    /\ SectionFrame(w)

SameWindow(w) ==
    /\ InSection(w, "check")
    /\ ~InCooldown(w) /\ ~WindowOver(w)
    /\ Goto(w, "touch")
    /\ UNCHANGED <<entries, entry_count, slot, window, reservation, ghosts>>
    /\ SectionFrame(w)

\* Mutants: off by one; the reservation is not added.
WithinRequestsOrEqual(e) == e.req_count <= RequestLimit
WithinTokensWithoutReserve(e) == TokenLimit > 0 => e.token_count < TokenLimit

WithinRequests(e) == e.req_count < RequestLimit

WithinTokens(e) ==
    TokenLimit > 0 => e.token_count + ReserveTokens <= TokenLimit

(* last_used and the two budget checks.                                    *)
TouchAndCheck(w) ==
    /\ InSection(w, "touch")
    /\ entries' = [entries EXCEPT ![slot[w]].last_used = now[w]]
    /\ LET e == entries[slot[w]]
       IN  \/ /\ ~(WithinRequests(e) /\ WithinTokens(e))
              /\ Goto(w, "deny")
           \/ /\ WithinRequests(e) /\ WithinTokens(e)
              /\ Goto(w, IF TokenLimit > 0 /\ ReserveTokens > 0
                         THEN "reserve" ELSE "admit")
    /\ UNCHANGED <<entry_count, slot, window, reservation, ghosts>>
    /\ SectionFrame(w)

(* The tokens first: entry.token_count += can_reserve.                     *)
ReserveStep(w) ==
    /\ InSection(w, "reserve")
    /\ entries' = [entries EXCEPT ![slot[w]].token_count = @ + ReserveTokens]
    /\ reservation' = [reservation EXCEPT ![req[w]] = ReserveTokens]
    /\ charge' = [charge EXCEPT ![req[w]] = ReserveTokens]
    /\ Goto(w, "admit")
    /\ UNCHANGED <<entry_count, slot, window, counted, crossed, cooled,
                   forgotten>>
    /\ SectionFrame(w)

(* The admission last: entry.req_count += 1.                               *)
AdmitStep(w) ==
    /\ InSection(w, "admit")
    /\ entries' = [entries EXCEPT ![slot[w]].req_count = @ + 1]
    /\ counted' = [counted EXCEPT ![Key(w)] = @ \cup {req[w]}]
    /\ window' = [window EXCEPT ![req[w]] = entries[slot[w]].window_minute]
    /\ Goto(w, "allow")
    /\ UNCHANGED <<entry_count, slot, reservation, charge, crossed, cooled,
                   forgotten>>
    /\ SectionFrame(w)

-----------------------------------------------------------------------------
(* The critical section of log_handler()                                   *)

LogFrame(w) ==
    UNCHANGED <<entry_count, mutex, minute, req, slot, now, job, status,
                owner, reservation, crashes>>

Crosses(k, what) == crossed' = [crossed EXCEPT ![k] = @ \cup {what}]

\* Mutant: a smaller usage takes the whole reservation back.
ReconcileDropsReservation(w) ==
    /\ InSection(w, "reconcile")
    /\ Goto(w, "cooldown")
    /\ LET r == req[w]
           i == FindEntry(Key(w))
       IN  IF job[w].actual = 0 \/ EntriesOf(Key(w)) = {}
           THEN UNCHANGED <<entries, charge, crossed>>
           ELSE /\ entries' = [entries EXCEPT ![i].token_count =
                                            MonusOf(@, reservation[r])]
                /\ charge' = [charge EXCEPT ![r] = job[w].actual]
                /\ UNCHANGED crossed
    /\ UNCHANGED <<window, counted, cooled, forgotten>>
    /\ LogFrame(w)

(* reconcileTokens(): by key, so it changes the entry the key has now.     *)
ReconcileTokens(w) ==
    /\ InSection(w, "reconcile")
    /\ Goto(w, "cooldown")
    /\ LET r == req[w]
           actual == job[w].actual
       IN  IF actual \in {0, reservation[r]} \/ EntriesOf(Key(w)) = {}
           THEN UNCHANGED <<entries, charge, crossed>>
           ELSE LET i == FindEntry(Key(w))
                IN  /\ entries' = [entries EXCEPT ![i].token_count =
                            IF actual > reservation[r]
                            THEN @ + (actual - reservation[r])
                            ELSE MonusOf(@, reservation[r] - actual)]
                    /\ IF r \in counted[Key(w)]
                       THEN /\ charge' = [charge EXCEPT ![r] = actual]
                            /\ UNCHANGED crossed
                       ELSE /\ IF actual < reservation[r]
                               THEN Crosses(Key(w), "tokens")
                               ELSE UNCHANGED crossed
                            /\ UNCHANGED charge
    /\ UNCHANGED <<window, counted, cooled, forgotten>>
    /\ LogFrame(w)

\* Mutant: the last cooldown wins, not the longest.
SetCooldownOverwrites(w) ==
    /\ InSection(w, "cooldown")
    /\ Goto(w, "return")
    /\ IF job[w].until = 0 \/ EntriesOf(Key(w)) = {}
       THEN UNCHANGED <<entries, cooled>>
       ELSE /\ entries' = [entries EXCEPT ![FindEntry(Key(w))].cooldown_until =
                                        job[w].until]
            /\ cooled' = [cooled EXCEPT ![Key(w)] = Max({@, job[w].until})]
    /\ UNCHANGED <<window, counted, charge, crossed, forgotten>>
    /\ LogFrame(w)

(* setCooldown(): a cooldown is only ever prolonged.                       *)
SetCooldown(w) ==
    /\ InSection(w, "cooldown")
    /\ Goto(w, "return")
    /\ IF job[w].until = 0 \/ EntriesOf(Key(w)) = {}
       THEN UNCHANGED <<entries, cooled>>
       ELSE /\ entries' = [entries EXCEPT ![FindEntry(Key(w))].cooldown_until =
                                        Max({job[w].until, @})]
            /\ cooled' = [cooled EXCEPT ![Key(w)] = Max({@, job[w].until})]
    /\ UNCHANGED <<window, counted, charge, crossed, forgotten>>
    /\ LogFrame(w)

(* returnRequestSlot(): by key, too.                                       *)
ReturnRequestSlot(w) ==
    /\ InSection(w, "return")
    /\ Goto(w, "logged")
    /\ IF ~job[w].giveback \/ EntriesOf(Key(w)) = {}
       THEN UNCHANGED <<entries, window, counted, crossed, forgotten>>
       ELSE LET i == FindEntry(Key(w))
            IN  /\ entries' = [entries EXCEPT ![i].req_count = MonusOf(@, 1)]
                /\ IF req[w] \in counted[Key(w)]
                   THEN /\ counted' = [counted EXCEPT ![Key(w)] = @ \ {req[w]}]
                        /\ window' = [window EXCEPT ![req[w]] = -1]
                        /\ UNCHANGED <<crossed, forgotten>>
                   ELSE /\ Crosses(Key(w), "slots")
                        /\ forgotten' = forgotten \cup
                               {<<Key(w), entries[i].window_minute>>}
                        /\ UNCHANGED <<counted, window>>
    /\ UNCHANGED <<charge, cooled>>
    /\ LogFrame(w)

-----------------------------------------------------------------------------
(* The clock, the death of a worker, and the master process                *)

Tick ==
    /\ minute < MaxMinute
    /\ minute' = minute + 1
    /\ UNCHANGED <<shared, workers, request, ghosts, crashes>>

(* A worker is killed: its requests are gone, the stores it has made stay, *)
(* and so does the mutex if it held it.                                    *)
Crash(w) ==
    /\ crashes < MaxCrashes /\ pc[w] # "dead"
    /\ crashes' = crashes + 1
    /\ pc' = [pc EXCEPT ![w] = "dead"]
    /\ req' = [req EXCEPT ![w] = None]
    /\ slot' = [slot EXCEPT ![w] = 0]
    /\ now' = [now EXCEPT ![w] = 0]
    /\ job' = [job EXCEPT ![w] = NoJob]
    /\ status' = [r \in Requests |->
                    IF owner[r] = w /\ status[r] # "done" THEN "dead"
                                                          ELSE status[r]]
    /\ forgotten' = IF pc[w] \in {"reset tokens", "reset window"}
                    THEN forgotten \cup
                            {<<Key(w), entries[slot[w]].window_minute>>}
                    ELSE forgotten
    /\ UNCHANGED <<shared, minute, owner, window, reservation, counted, charge,
                   crossed, cooled>>

\* Mutant: the mutex of a dead worker is not released.
ReapKeepsMutex(w) ==
    /\ pc[w] = "dead"
    /\ Goto(w, "idle")
    /\ UNCHANGED <<shared, minute, req, slot, now, job, request, ghosts,
                   crashes>>

(* ngx_unlock_mutexes() of the master, which then starts a new worker.     *)
Reap(w) ==
    /\ pc[w] = "dead"
    /\ mutex' = IF mutex = w THEN None ELSE mutex
    /\ Goto(w, "idle")
    /\ UNCHANGED <<entries, entry_count, minute, req, slot, now, job, request,
                   ghosts, crashes>>

\* Every request is finished or died with its worker.
Quiescent ==
    /\ \A r \in Requests : status[r] \in {"done", "dead"}
    /\ UNCHANGED vars

-----------------------------------------------------------------------------

Init ==
    /\ entries = [i \in Indices |-> EmptyEntry]
    /\ entry_count = 0
    /\ mutex = None
    /\ minute = 0
    /\ pc = [w \in Workers |-> "idle"]
    /\ req = [w \in Workers |-> None]
    /\ slot = [w \in Workers |-> 0]
    /\ now = [w \in Workers |-> 0]
    /\ job = [w \in Workers |-> NoJob]
    /\ status = [r \in Requests |-> "new"]
    /\ owner = [r \in Requests |-> None]
    /\ window = [r \in Requests |-> -1]
    /\ reservation = [r \in Requests |-> 0]
    /\ counted = [k \in Keys |-> {}]
    /\ charge = [r \in Requests |-> 0]
    /\ crossed = [k \in Keys |-> {}]
    /\ cooled = [k \in Keys |-> 0]
    /\ forgotten = {}
    /\ crashes = 0

AccessSection(w) ==
    \/ LookupHit(w)
    \/ LookupAppend(w) \/ AppendKey(w) \/ AppendCount(w)
    \/ LookupEvict(w) \/ EvictFields(w) \/ EvictKey(w)
    \/ CheckCooldown(w)
    \/ ResetRequests(w) \/ ResetTokens(w) \/ ResetWindow(w) \/ SameWindow(w)
    \/ TouchAndCheck(w) \/ ReserveStep(w) \/ AdmitStep(w)

LogSection(w) ==
    ReconcileTokens(w) \/ SetCooldown(w) \/ ReturnRequestSlot(w)

Section(w) == AccessSection(w) \/ LogSection(w) \/ ShmtxUnlock(w)

Next ==
    \/ \E w \in Workers :
        \/ \E r \in Requests : AccessStart(w, r) \/ LogStart(w, r)
        \/ ShmtxLock(w)
        \/ Section(w)
        \/ Crash(w)
        \/ Reap(w)
    \/ Tick
    \/ Quiescent

Spec == Init /\ [][Next]_vars

(* A handler inside the critical section does not block or wait, so its    *)
(* process goes on as long as the system schedules it; the master reaps a  *)
(* dead worker.  No fairness of the lock is assumed.                       *)
FairSpec ==
    Spec /\ \A w \in Workers : WF_vars(Section(w)) /\ WF_vars(Reap(w))

-----------------------------------------------------------------------------
(* Properties                                                              *)

Labels ==
    {"idle", "dead", "access", "log", "lookup", "append key", "append count",
     "evict fields", "evict key", "check", "reset tokens", "reset window",
     "touch", "reserve", "admit", "allow", "deny", "reconcile", "cooldown",
     "return", "logged"}

EntryType ==
    [key_hash : Keys \cup {None}, req_count : Nat, token_count : Nat,
     window_minute : Minutes, last_used : Minutes, cooldown_until : Nat]

(* The types of the state; the mutex is held exactly by the worker in its  *)
(* critical section, or by one that died there and is not reaped yet.      *)
TypeOK ==
    /\ entries \in [Indices -> EntryType]
    /\ entry_count \in 0..EntriesPerStripe
    /\ mutex \in Workers \cup {None}
    /\ minute \in Minutes
    /\ pc \in [Workers -> Labels]
    /\ req \in [Workers -> Requests \cup {None}]
    /\ slot \in [Workers -> 0..EntriesPerStripe]
    /\ now \in [Workers -> Minutes]
    /\ job \in [Workers -> [actual : Nat, until : Nat, giveback : BOOLEAN]]
    /\ status \in [Requests -> {"new", "handling", "admitted", "denied",
                                "logging", "done", "dead"}]
    /\ owner \in [Requests -> Workers \cup {None}]
    /\ window \in [Requests -> Minutes \cup {-1}]
    /\ reservation \in [Requests -> Nat]
    /\ counted \in [Keys -> SUBSET Requests]
    /\ charge \in [Requests -> Nat]
    /\ crossed \in [Keys -> SUBSET {"slots", "tokens"}]
    /\ cooled \in [Keys -> Nat]
    /\ forgotten \subseteq Keys \X Minutes
    /\ crashes \in 0..MaxCrashes
    /\ \A w \in Workers :
          /\ pc[w] \notin {"idle", "dead", "access", "log"} => mutex = w
          /\ mutex = w => pc[w] \notin {"idle", "access", "log"}

(* No caller ever has two ledger entries, whatever a worker left half done *)
(* in getOrCreateEntry when it died: a second one would double its quota.  *)
UniqueKey ==
    \A i, j \in 1..entry_count :
        entries[i].key_hash = entries[j].key_hash /\ entries[i].key_hash # None
            => i = j

(* The stores of checkAndConsume, getOrCreateEntry and returnRequestSlot   *)
(* keep req_count equal to the number of requests the entry has counted,   *)
(* also after a death between two stores, unless a LOG handler gave back a *)
(* slot that was taken in an earlier window or from an evicted entry.      *)
SlotsExact ==
    mutex = None =>
        \A k \in Keys : \A i \in EntriesOf(k) :
            "slots" \notin crossed[k] =>
                entries[i].req_count = Cardinality(counted[k])

(* What an entry counts belongs to the window it publishes: no worker ever *)
(* consumes stale counters of an older window (the comment on the reset in *)
(* checkAndConsume), even if its predecessor died in the middle of a reset.*)
CountsBelongToWindow ==
    mutex = None =>
        \A k \in Keys : \A i \in EntriesOf(k) :
            \A r \in counted[k] : window[r] = entries[i].window_minute

\* The requests of a key that keep a slot in a window.
Win(k, m) == {r \in Requests : KeyOf[r] = k /\ window[r] = m}

(* At most RequestLimit requests of a key keep a slot in one window,       *)
(* however the workers interleave and whatever the age of their cached     *)
(* time, unless the ledger lost counts of that very window: an eviction, a *)
(* death in the middle of a reset, or a slot given back in it for a        *)
(* request that was admitted in another one.                               *)
RequestBudget ==
    \A k \in Keys, m \in Minutes :
        <<k, m>> \notin forgotten => Cardinality(Win(k, m)) <= RequestLimit

(* "A killed worker may leave a conservative token reservation, but can    *)
(* never publish an admitted request without its associated token          *)
(* commitment" (checkAndConsume): the tokens of an entry cover what its    *)
(* counted requests are charged, unless a LOG handler has lowered them for *)
(* a request of another window.                                            *)
TokensCoverCommitments ==
    mutex = None =>
        \A k \in Keys : \A i \in EntriesOf(k) :
            "tokens" \notin crossed[k] =>
                entries[i].token_count >= ChargeOf(counted[k])

(* The same without the exception: LOG replaces the reservation of its own *)
(* request ("replace the pre-flight reservation with the actual count",    *)
(* log_handler), never that of another one.                                *)
ReconcileReplacesOwnReservation ==
    mutex = None =>
        \A k \in Keys : \A i \in EntriesOf(k) :
            entries[i].token_count >= ChargeOf(counted[k])

(* The token budget is a budget: an admission never brings what the        *)
(* counted requests are charged above tokens_per_minute (only a usage      *)
(* above the reservation, learnt in LOG, does), with the exception above.  *)
AdmissionWithinTokens ==
    [][\A k \in Keys :
        counted[k] # counted'[k] /\ counted[k] \subseteq counted'[k]
            /\ "tokens" \notin crossed[k] /\ TokenLimit > 0
        => ChargeOf(counted'[k]) <= TokenLimit]_vars

(* No request is admitted before the longest cooldown that any LOG handler *)
(* of any worker has put on its caller's entry is over.                    *)
CooldownHonoured ==
    \A w \in Workers :
        pc[w] \in {"reserve", "admit", "allow"} => now[w] >= cooled[Key(w)]

(* A worker's death in the critical section does not wedge the others: the *)
(* mutex is always released again (the kill tests of the repository).      *)
MutexIsFreed == mutex # None ~> mutex = None

=============================================================================
