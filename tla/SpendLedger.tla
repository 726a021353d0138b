----------------------------- MODULE SpendLedger -----------------------------
(***************************************************************************)
(* The monthly spend budgets of llm-ratelimit: one stripe of the spend     *)
(* zone, and the ACCESS and LOG handlers that reserve, release and record  *)
(* money in it (ngx_http_llm_ratelimit.zig: findSpendEntry,                *)
(* getOrCreateSpendEntry, checkSpendBudgets, releaseSpendReservations,     *)
(* reconcileSpendCounters and their callers).                              *)
(*                                                                         *)
(* A request has several scopes (organisation, project, client).  The      *)
(* handlers take the slab mutex for one scope at a time, so that requests  *)
(* of other workers run between two scopes of one request.                 *)
(*                                                                         *)
(* A worker may be killed between any two stores it makes under the mutex, *)
(* and the master then releases the mutex.  So a change of the amount is   *)
(* an action, and so is each step that creates an entry: LOG, which gives  *)
(* back a reservation and adds a cost, takes two.  last_used, stored with  *)
(* the amount, only ranks the victims of an eviction.                      *)
(*                                                                         *)
(* One unit of cost stands for the location's; a request may end on a      *)
(* provider of another unit.  The hash of a key is injective, and a key    *)
(* includes the month (buildSpendKey), so an entry's year_month is its     *)
(* key's.                                                                  *)
(***************************************************************************)
EXTENDS Integers, Sequences, FiniteSets, FiniteSetsExt

CONSTANTS
    Workers,         \* worker processes
    Requests,        \* requests
    Scopes,          \* [Requests -> sequence of ids], without repetition
    Budget,          \* [ids -> budget_micros]
    Mode,            \* [Requests -> {"hard", "soft", "dry"}]: with a spend
                     \* reservation, without one, or dry_run
    Reserve,         \* spend_reserve_micros
    Costs,           \* total_cost_micros of an eligible request
    None,            \* no worker, no key, no request
    EntriesPerStripe,
    MinutesPerMonth, \* bound on the length of a month
    MaxMinute,       \* bound on the clock
    MaxCrashes       \* bound on worker deaths

Ids == DOMAIN Budget

ASSUME SpendAssumption ==
    /\ Scopes \in [Requests -> Seq(Ids)]
    /\ \A r \in Requests : \A i, j \in 1..Len(Scopes[r]) :
          Scopes[r][i] = Scopes[r][j] => i = j
    /\ Budget \in [Ids -> Nat]
    /\ Mode \in [Requests -> {"hard", "soft", "dry"}]
    /\ Reserve \in Nat \ {0} /\ Costs \subseteq Nat
    /\ None \notin Workers \cup Requests \cup (Ids \X Nat)
    /\ EntriesPerStripe \in Nat \ {0} /\ MinutesPerMonth \in Nat \ {0}
    /\ MaxMinute \in Nat /\ MaxCrashes \in Nat

VARIABLES
    \* the stripe in shared memory and its mutex
    entries, entry_count, mutex,
    \* the clock, and the worker processes: the handler, its request, the
    \* scope its loop is at, the entry it is creating, its cached minute,
    \* and what its LOG handler learnt about the request
    minute, pc, req, scope, slot, now, job,
    \* the requests: progress, owner, and the scopes whose cached state is
    \* "reserved" (spend_scope_cache[i].valid == 2)
    status, owner, reserved,
    \* ghosts: the month of each reservation, the requests whose reservation
    \* nobody will release, the costs incurred in a month, the entries that
    \* were evicted, those a reservation of another entry was taken off, and
    \* those whose worker died when a cost was due
    taken, stranded, recorded, forgotten, crossed, unpaid, crashes

shared  == <<entries, entry_count, mutex>>
workers == <<pc, req, scope, slot, now, job>>
request == <<status, owner, reserved>>
ghosts  == <<taken, stranded, recorded, forgotten, crossed, unpaid>>
vars    == <<shared, minute, workers, request, ghosts, crashes>>

Indices == 1..EntriesPerStripe

MonthOf(m) == m \div MinutesPerMonth

Months == 0..MonthOf(MaxMinute)

EmptyEntry ==
    [key_hash |-> None, spend_micros |-> 0, year_month |-> 0, last_used |-> 0]

MonusOf(a, b) == IF a > b THEN a - b ELSE 0

EntriesOf(k) == {i \in 1..entry_count : entries[i].key_hash = k}

FindEntry(k) == Min(EntriesOf(k))

Rest(w) == scope[w]..Len(Scopes[req[w]])

(* The loops of the handlers over the scopes, each from the place it has   *)
(* reached: the check visits every scope, the release those reserved, and  *)
(* LOG those where it has a cost to add or a reservation to release.       *)
Visits(w) ==
    {i \in Rest(w) :
        CASE pc[w] = "check"   -> TRUE
          [] pc[w] = "release" -> i \in reserved[req[w]]
          [] pc[w] \in {"log", "charge"} ->
                 job[w].adds \/ (job[w].releases /\ i \in reserved[req[w]])
          [] OTHER             -> FALSE}

InLoop(w, label) == pc[w] = label /\ Visits(w) # {}

LoopDone(w, label) == pc[w] = label /\ Visits(w) = {}

At(w) == Min(Visits(w))

\* buildSpendKey(): the id of the scope and the month the handler sees.
Id(w) == Scopes[req[w]][At(w)]
Month(w) == MonthOf(now[w])
Key(w) == <<Id(w), Month(w)>>

(* The victim of an eviction: the first entry of another month, or else    *)
(* the first of the least recently used.                                   *)
Victim(w) ==
    LET stale == {i \in Indices : entries[i].year_month # Month(w)}
    IN  IF stale # {}
        THEN Min(stale)
        ELSE Min({i \in Indices : \A j \in Indices :
                    entries[i].last_used <= entries[j].last_used})

\* hard_reserve of checkSpendBudgets().
Hard(r) == Mode[r] = "hard"

(* What LOG learns of a request: its cost is eligible, in the unit of the  *)
(* budgets or in another one, or it was rejected before it was sent, or    *)
(* none of these.  The reservation is released unless it is the last.      *)
Jobs ==
    [adds : {TRUE}, cost : Costs, releases : {TRUE}]
    \cup [adds : {FALSE}, cost : {0}, releases : BOOLEAN]

NoJob == [adds |-> FALSE, cost |-> 0, releases |-> FALSE]

-----------------------------------------------------------------------------
(* getOrCreateSpendEntry()                                                 *)

\* Its callers: the check that reserves, and LOG.
Wanted(w) == (InLoop(w, "check") /\ Hard(req[w])) \/ InLoop(w, "log")

CreateFrame(w) ==
    UNCHANGED <<minute, pc, req, scope, now, job, request, taken, stranded,
                recorded, crossed, unpaid, crashes>>

(* A new entry behind the prefix, whose length is published last.          *)
AppendEntry(w) ==
    /\ Wanted(w) /\ mutex = None
    /\ EntriesOf(Key(w)) = {} /\ entry_count < EntriesPerStripe
    /\ mutex' = w
    /\ entries' = [entries EXCEPT ![entry_count + 1] =
                    [key_hash |-> Key(w), spend_micros |-> 0,
                     year_month |-> Month(w), last_used |-> now[w]]]
    /\ entry_count' = entry_count + 1
    /\ UNCHANGED <<slot, forgotten>>
    /\ CreateFrame(w)

(* The stripe is full: the victim's key is withdrawn ...                   *)
EvictWithdraw(w) ==
    /\ Wanted(w) /\ mutex = None
    /\ EntriesOf(Key(w)) = {} /\ entry_count = EntriesPerStripe
    /\ mutex' = w
    /\ slot' = [slot EXCEPT ![w] = Victim(w)]
    /\ entries' = [entries EXCEPT ![Victim(w)].key_hash = None]
    /\ forgotten' = forgotten \cup {entries[Victim(w)].key_hash}
    /\ UNCHANGED entry_count
    /\ CreateFrame(w)

(* ... its fields are cleared, and the new key is published.  An entry     *)
(* without a key is found by nobody, so it does not matter to the others   *)
(* how far a worker that dies in between has come.                         *)
EvictPublish(w) ==
    /\ mutex = w /\ slot[w] # 0
    /\ entries[slot[w]].key_hash = None
    /\ entries' = [entries EXCEPT ![slot[w]] =
                    [key_hash |-> Key(w), spend_micros |-> 0,
                     year_month |-> Month(w), last_used |-> now[w]]]
    /\ slot' = [slot EXCEPT ![w] = 0]
    /\ UNCHANGED <<entry_count, mutex, forgotten>>
    /\ CreateFrame(w)

\* The mutex is free or held since the entry was created.
Locked(w) == mutex \in {None, w}

Found(w) == Locked(w) /\ EntriesOf(Key(w)) # {}

SpendOf(k) == entries[FindEntry(k)].spend_micros

\* The entry of the scope gets a new amount, and is used.
SetSpend(w, amount) ==
    entries' = [entries EXCEPT ![FindEntry(Key(w))].spend_micros = amount,
                               ![FindEntry(Key(w))].last_used = now[w]]

-----------------------------------------------------------------------------
(* The ACCESS handler                                                      *)

AccessStart(w, r) ==
    /\ pc[w] = "idle" /\ status[r] = "new"
    /\ pc' = [pc EXCEPT ![w] = "check"]
    /\ req' = [req EXCEPT ![w] = r]
    /\ scope' = [scope EXCEPT ![w] = 1]
    /\ now' = [now EXCEPT ![w] = minute]
    /\ status' = [status EXCEPT ![r] = "handling"]
    /\ owner' = [owner EXCEPT ![r] = w]
    /\ taken' = [taken EXCEPT ![r] = MonthOf(minute)]
    /\ UNCHANGED <<shared, minute, slot, job, reserved, stranded, recorded,
                   forgotten, crossed, unpaid, crashes>>

NextScope(w) == scope' = [scope EXCEPT ![w] = At(w) + 1]

\* Mutant: the reservation is not counted against the budget.
ExhaustedWithoutReserve(w, committed) == committed >= Budget[Id(w)]

Exhausted(w, committed) ==
    \/ committed >= Budget[Id(w)]
    \/ Hard(req[w]) /\ Reserve > MonusOf(Budget[Id(w)], committed)

CheckFrame(w) ==
    UNCHANGED <<entry_count, minute, req, slot, now, job, status, owner,
                ghosts, crashes>>

(* One scope of checkSpendBudgets() with a reservation.  The first scope   *)
(* that is exhausted ends the loop; the scopes before it are released.     *)
CheckHard(w) ==
    /\ InLoop(w, "check") /\ Hard(req[w]) /\ Found(w)
    /\ mutex' = None
    /\ LET committed == SpendOf(Key(w))
       IN  \/ /\ Exhausted(w, committed)
              /\ SetSpend(w, committed)
              /\ pc' = [pc EXCEPT ![w] = "release"]
              /\ scope' = [scope EXCEPT ![w] = 1]
              /\ UNCHANGED reserved
           \/ /\ ~Exhausted(w, committed)
              /\ SetSpend(w, committed + Reserve)
              /\ reserved' = [reserved EXCEPT ![req[w]] = @ \cup {At(w)}]
              /\ NextScope(w)
              /\ UNCHANGED pc
    /\ CheckFrame(w)

(* The same without one: an entry is only looked up.                       *)
CheckSoft(w) ==
    /\ InLoop(w, "check") /\ ~Hard(req[w]) /\ mutex = None
    /\ LET committed == IF EntriesOf(Key(w)) = {} THEN 0 ELSE SpendOf(Key(w))
       IN  /\ IF EntriesOf(Key(w)) = {} THEN UNCHANGED entries
                                        ELSE SetSpend(w, committed)
           /\ IF Exhausted(w, committed)
              THEN /\ pc' = [pc EXCEPT ![w] = "release"]
                   /\ scope' = [scope EXCEPT ![w] = 1]
              ELSE /\ NextScope(w)
                   /\ UNCHANGED pc
    /\ UNCHANGED <<mutex, reserved>>
    /\ CheckFrame(w)

Finish(w, st) ==
    /\ pc' = [pc EXCEPT ![w] = "idle"]
    /\ req' = [req EXCEPT ![w] = None]
    /\ scope' = [scope EXCEPT ![w] = 0]
    /\ now' = [now EXCEPT ![w] = 0]
    /\ job' = [job EXCEPT ![w] = NoJob]
    /\ status' = [status EXCEPT ![req[w]] = st]

\* Mutant: a denial by the quota leaves the reservations.
QuotaKeepsReservations(w) ==
    /\ LoopDone(w, "check")
    /\ \E st \in {"admitted", "denied"} : Finish(w, st)
    /\ UNCHANGED <<shared, minute, slot, owner, reserved, ghosts, crashes>>

(* No budget is exhausted: the quota of the ledger of requests and tokens  *)
(* (module RateLedger) admits the request or denies it.                    *)
QuotaDecides(w) ==
    /\ LoopDone(w, "check")
    /\ \/ /\ Finish(w, "admitted")
       \/ /\ pc' = [pc EXCEPT ![w] = "release"]
          /\ scope' = [scope EXCEPT ![w] = 1]
          /\ UNCHANGED <<req, now, job, status>>
    /\ UNCHANGED <<shared, minute, slot, owner, reserved, ghosts, crashes>>

\* What a release takes off an entry that is not the reservation's own.
Crosses(w) ==
    crossed' = IF Key(w)[2] # taken[req[w]] \/ Key(w) \in forgotten
               THEN crossed \cup {Key(w), <<Id(w), taken[req[w]]>>}
               ELSE crossed

ReleaseFrame(w) ==
    UNCHANGED <<entry_count, mutex, minute, pc, req, slot, now, job, status,
                owner, taken, stranded, recorded, forgotten, unpaid, crashes>>

Unreserve(w) ==
    /\ reserved' = [reserved EXCEPT ![req[w]] = @ \ {At(w)}]
    /\ Crosses(w)

(* One scope of releaseSpendReservations(); an entry that is gone is not   *)
(* created again.                                                          *)
ReleaseScope(w) ==
    /\ InLoop(w, "release") /\ mutex = None
    /\ IF EntriesOf(Key(w)) = {}
       THEN UNCHANGED entries
       ELSE SetSpend(w, MonusOf(SpendOf(Key(w)), Reserve))
    /\ Unreserve(w)
    /\ NextScope(w)
    /\ ReleaseFrame(w)

(* A denied request is answered with 429, and LOG finds no reservation and *)
(* no cost of it.  With dry_run it is served.                              *)
ReleaseDone(w) ==
    /\ LoopDone(w, "release")
    /\ Finish(w, IF Mode[req[w]] = "dry" THEN "admitted" ELSE "denied")
    /\ UNCHANGED <<shared, minute, slot, owner, reserved, ghosts, crashes>>

-----------------------------------------------------------------------------
(* The LOG handler: reconcileSpendCounters()                               *)

LogStart(w, r) ==
    /\ pc[w] = "idle" /\ status[r] = "admitted" /\ owner[r] = w
    /\ \E j \in Jobs : job' = [job EXCEPT ![w] = j]
    /\ pc' = [pc EXCEPT ![w] = "log"]
    /\ req' = [req EXCEPT ![w] = r]
    /\ scope' = [scope EXCEPT ![w] = 1]
    /\ now' = [now EXCEPT ![w] = minute]
    /\ status' = [status EXCEPT ![r] = "logging"]
    /\ UNCHANGED <<shared, minute, slot, owner, reserved, ghosts, crashes>>

LogFrame(w) ==
    UNCHANGED <<entry_count, minute, req, slot, now, job, status, owner,
                taken, stranded, forgotten, unpaid, crashes>>

Releases(w) == job[w].releases /\ At(w) \in reserved[req[w]]

\* From here on the cost is committed in the month in which the request ends.
Incur(w) == recorded' = [recorded EXCEPT ![Key(w)] = @ + job[w].cost]

(* One scope, first store: the reservation is taken off the entry of that  *)
(* month.  If there is a cost to add, the worker goes on with the mutex.   *)
ReconcileRelease(w) ==
    /\ InLoop(w, "log") /\ Found(w) /\ Releases(w)
    /\ SetSpend(w, MonusOf(SpendOf(Key(w)), Reserve))
    /\ Unreserve(w)
    /\ \/ /\ job[w].adds
          /\ pc' = [pc EXCEPT ![w] = "charge"]
          /\ mutex' = w
          /\ Incur(w)
          /\ UNCHANGED scope
       \/ /\ ~job[w].adds
          /\ mutex' = None
          /\ NextScope(w)
          /\ UNCHANGED <<pc, recorded>>
    /\ LogFrame(w)

(* Second store, or the only one: the actual cost is added.                *)
ReconcileAdd(w) ==
    /\ \/ InLoop(w, "log") /\ Found(w) /\ ~Releases(w) /\ Incur(w)
       \/ pc[w] = "charge" /\ UNCHANGED recorded
    /\ SetSpend(w, SpendOf(Key(w)) + job[w].cost)
    /\ mutex' = None
    /\ pc' = [pc EXCEPT ![w] = "log"]
    /\ NextScope(w)
    /\ UNCHANGED <<reserved, crossed>>
    /\ LogFrame(w)

(* spend_incremented is set; a reservation that was not released is left.  *)
LogDone(w) ==
    /\ LoopDone(w, "log")
    /\ Finish(w, "done")
    /\ stranded' = IF reserved[req[w]] = {} THEN stranded
                                            ELSE stranded \cup {req[w]}
    /\ UNCHANGED <<shared, minute, slot, owner, reserved, taken, recorded,
                   forgotten, crossed, unpaid, crashes>>

-----------------------------------------------------------------------------
(* The clock, the death of a worker, and the master process                *)

Tick ==
    /\ minute < MaxMinute
    /\ minute' = minute + 1
    /\ UNCHANGED <<shared, workers, request, ghosts, crashes>>

(* A worker is killed: its requests are gone, what it stored stays, and so *)
(* do the mutex it held and the reservations its requests have.            *)
Crash(w) ==
    /\ crashes < MaxCrashes /\ pc[w] # "dead"
    /\ crashes' = crashes + 1
    /\ pc' = [pc EXCEPT ![w] = "dead"]
    /\ req' = [req EXCEPT ![w] = None]
    /\ scope' = [scope EXCEPT ![w] = 0]
    /\ slot' = [slot EXCEPT ![w] = 0]
    /\ now' = [now EXCEPT ![w] = 0]
    /\ job' = [job EXCEPT ![w] = NoJob]
    /\ LET lost == {r \in Requests : owner[r] = w /\ status[r] \notin {"denied", "done"}}
       IN  /\ status' = [r \in Requests |->
                            IF r \in lost THEN "dead" ELSE status[r]]
           /\ stranded' = stranded \cup {r \in lost : reserved[r] # {}}
    /\ unpaid' = IF pc[w] = "charge" THEN unpaid \cup {Key(w)} ELSE unpaid
    /\ UNCHANGED <<shared, minute, owner, reserved, taken, recorded, forgotten,
                   crossed>>

(* ngx_unlock_mutexes() of the master, which then starts a new worker.     *)
Reap(w) ==
    /\ pc[w] = "dead"
    /\ mutex' = IF mutex = w THEN None ELSE mutex
    /\ pc' = [pc EXCEPT ![w] = "idle"]
    /\ UNCHANGED <<entries, entry_count, minute, req, scope, slot, now, job,
                   request, ghosts, crashes>>

\* Every request is finished or died with its worker.
Quiescent ==
    /\ \A r \in Requests : status[r] \in {"denied", "done", "dead"}
    /\ UNCHANGED vars

-----------------------------------------------------------------------------

Init ==
    /\ entries = [i \in Indices |-> EmptyEntry]
    /\ entry_count = 0
    /\ mutex = None
    /\ minute = 0
    /\ pc = [w \in Workers |-> "idle"]
    /\ req = [w \in Workers |-> None]
    /\ scope = [w \in Workers |-> 0]
    /\ slot = [w \in Workers |-> 0]
    /\ now = [w \in Workers |-> 0]
    /\ job = [w \in Workers |-> NoJob]
    /\ status = [r \in Requests |-> "new"]
    /\ owner = [r \in Requests |-> None]
    /\ reserved = [r \in Requests |-> {}]
    /\ taken = [r \in Requests |-> 0]
    /\ stranded = {}
    /\ recorded = [k \in Ids \X Months |-> 0]
    /\ forgotten = {}
    /\ crossed = {}
    /\ unpaid = {}
    /\ crashes = 0

Create(w) == AppendEntry(w) \/ EvictWithdraw(w) \/ EvictPublish(w)

Access(w) ==
    \/ CheckHard(w) \/ CheckSoft(w)
    \/ QuotaDecides(w)
    \/ ReleaseScope(w) \/ ReleaseDone(w)

Log(w) == ReconcileRelease(w) \/ ReconcileAdd(w) \/ LogDone(w)

Next ==
    \/ \E w \in Workers :
        \/ \E r \in Requests : AccessStart(w, r) \/ LogStart(w, r)
        \/ Create(w) \/ Access(w) \/ Log(w)
        \/ Crash(w)
        \/ Reap(w)
    \/ Tick
    \/ Quiescent

Spec == Init /\ [][Next]_vars

-----------------------------------------------------------------------------
(* Properties                                                              *)

EntryType ==
    [key_hash : (Ids \X Months) \cup {None}, spend_micros : Nat,
     year_month : Months, last_used : 0..MaxMinute]

(* The types of the state; a stale entry is found by no current key.       *)
TypeOK ==
    /\ entries \in [Indices -> EntryType]
    /\ entry_count \in 0..EntriesPerStripe
    /\ mutex \in Workers \cup {None}
    /\ minute \in 0..MaxMinute
    /\ pc \in [Workers -> {"idle", "check", "release", "log", "charge", "dead"}]
    /\ req \in [Workers -> Requests \cup {None}]
    /\ scope \in [Workers -> Nat]
    /\ slot \in [Workers -> 0..EntriesPerStripe]
    /\ now \in [Workers -> 0..MaxMinute]
    /\ job \in [Workers -> Jobs]
    /\ status \in [Requests -> {"new", "handling", "admitted", "denied",
                                "logging", "done", "dead"}]
    /\ owner \in [Requests -> Workers \cup {None}]
    /\ reserved \in [Requests -> SUBSET Nat]
    /\ taken \in [Requests -> Months]
    /\ stranded \subseteq Requests
    /\ recorded \in [Ids \X Months -> Nat]
    /\ crashes \in 0..MaxCrashes

(* The requests that may hold a reservation in the entry of a key: those   *)
(* being checked, served or logged, and those that ended without any word  *)
(* on their cost.  A denied request is not among them.                     *)
Holders(k) ==
    {r \in Requests :
        /\ taken[r] = k[2]
        /\ status[r] \in {"handling", "admitted", "logging"} \/ r \in stranded
        /\ \E i \in reserved[r] : Scopes[r][i] = k[1]}

\* What the requests have committed in a month to an organisation, a project
\* or a client: reservations held and costs incurred.
Commitment(k) == Reserve * Cardinality(Holders(k)) + recorded[k]

\* The cost a worker is about to add, which holds the mutex until it is there.
Owed(k) ==
    IF mutex # None /\ pc[mutex] = "charge" /\ Key(mutex) = k
    THEN job[mutex].cost ELSE 0

\* The entry has lost count: it was evicted, or a request of an earlier month
\* or of an evicted entry took its reservation off it, or a worker died when
\* it had taken a reservation off and not yet added the cost.
LostCount(k) == k \in forgotten \cup crossed \cup unpaid

(* "actual spend plus opt-in in-flight reservations" (SpendEntry): what an *)
(* entry says is what the requests have committed, whatever the order in   *)
(* which workers run through their scopes, are denied half-way, by a later *)
(* scope or by the quota, or die (a reservation then stays committed; the  *)
(* one death that makes an entry lose count is that between the two stores *)
(* of LOG, as LostCount says), and no key has two entries.                 *)
SpendIsAccounted ==
    /\ TypeOK
    /\ \A i, j \in 1..entry_count :
          entries[i].key_hash = entries[j].key_hash
              /\ entries[i].key_hash # None => i = j
    /\ \A k \in Ids \X Months : \A i \in EntriesOf(k) :
          ~LostCount(k) => entries[i].spend_micros + Owed(k) = Commitment(k)

(* "hard spend reservation admits only one concurrent near-limit request"  *)
(* (llm-ratelimit.test.js): no reservation brings the commitments of a     *)
(* month above the budget, of any scope, however the requests interleave.  *)
ReservedWithinBudget ==
    [][\A k \in Ids \X Months :
        Holders(k) \subseteq Holders(k)' /\ Holders(k) # Holders(k)'
            /\ ~LostCount(k)
        => Commitment(k)' <= Budget[k[1]]]_vars

=============================================================================
