------------------------------ MODULE PgWriter ------------------------------
(***************************************************************************)
(* The asynchronous PostgreSQL writer of llm-cost: one instance per nginx  *)
(* worker (ngx_http_llm_cost.zig, struct PgWriter and the writer*          *)
(* functions).  LOG handlers append accounting events to a bounded ring;   *)
(* timer and socket callbacks of the same event loop connect, send the     *)
(* head of the ring as one INSERT, and pop it when the server answers.     *)
(*                                                                         *)
(* Every callback runs to completion on the worker's single thread, so a   *)
(* callback, with everything it calls, is one action.  The nested calls    *)
(* are action operators: each takes the values its caller has already      *)
(* computed (k: the kick timer is still set; h, c, s: the new head, count  *)
(* and single_fallback_remaining).                                         *)
(*                                                                         *)
(* The PostgreSQL server and its connections are external.  A connection   *)
(* that the writer abandons after its INSERT was delivered leaves a        *)
(* backend behind that may still commit ("orphans").                       *)
(*                                                                         *)
(* Events are numbered in the order in which this table's writers accept   *)
(* them; the number stands for the row's event_id ($request_id), which is  *)
(* distinct for every request.  Time is abstracted: a timer that is set    *)
(* may fire; the graceful-drain deadline is unset, running or expired.     *)
(***************************************************************************)
EXTENDS Integers, FiniteSets

CONSTANTS
    QueueCapacity,  \* PG_QUEUE_CAPACITY
    BatchMax,       \* PG_BATCH_MAX
    MaxEvents,      \* bound on the events ever accepted by the writer
    MaxOrphans,     \* bound on the abandoned INSERTs that are still undecided
    Poison          \* the events whose INSERT the server always refuses

ASSUME WriterAssumption ==
    /\ QueueCapacity \in Nat \ {0}
    /\ BatchMax \in Nat \ {0}
    /\ MaxEvents \in Nat
    /\ MaxOrphans \in Nat
    /\ Poison \subseteq 1..MaxEvents

VARIABLES
    \* the ring buffer
    queue, head, tail, count,
    \* the connection state machine and its timers
    state, kick, watch, active_batch_count, single_fallback_remaining,
    stopping, exit_deadline,
    \* the worker process
    exiting, alive,
    \* the server: the INSERT on the connection, its answer, the INSERTs on
    \* abandoned connections, and the table
    inflight, reply, orphans, rows,
    \* history: the number of events accepted and where each of them went
    enqueued, acked, dropped, lost, refusedAlone, suspects

ringVars    == <<queue, head, tail, count>>
writerVars  == <<state, kick, watch, active_batch_count,
                 single_fallback_remaining, stopping, exit_deadline>>
processVars == <<exiting, alive>>
serverVars  == <<inflight, reply, orphans, rows>>
historyVars == <<enqueued, acked, dropped, lost, refusedAlone, suspects>>
vars == <<ringVars, writerVars, processVars, serverVars, historyVars>>

Events == 1..MaxEvents

WriterStates == {"disconnected", "connecting", "idle", "flushing", "waiting"}

-----------------------------------------------------------------------------
(* The ring *)

Slots == 0..(QueueCapacity - 1)

SlotAt(h, i) == (h + i) % QueueCapacity

\* The events of the n slots from h on: what a query of n rows carries.
BatchEvents(h, n) == {queue[SlotAt(h, i)] : i \in 0..(n - 1)}

\* The accepted events that have neither been popped nor been given up.
Unsettled == (1..enqueued) \ (acked \cup dropped \cup lost)

Stored == {e \in Events : rows[e] > 0}

\* The INSERT that survives when the connection is closed now: it was
\* delivered in full and the server has not decided on it yet.
Orphaned == IF state = "waiting" /\ reply = "none" THEN {inflight} ELSE {}

\* Beyond the bound an abandoned backend rolls back at once.
OrphansWith(batches) ==
    IF Cardinality(orphans \cup batches) <= MaxOrphans
    THEN orphans \cup batches ELSE orphans

-----------------------------------------------------------------------------
(* writerSchedule(): arms the kick timer unless the writer is stopping.    *)
Scheduled(k) == k \/ ~stopping

\* Mutant: the back-off timer is not armed again.
RetryWithoutTimer(k, c, orphaned) ==
    /\ state' = "disconnected"
    /\ watch' = FALSE
    /\ inflight' = {} /\ reply' = "none"
    /\ orphans' = OrphansWith(orphaned)
    /\ count' = c /\ kick' = k
    /\ UNCHANGED <<stopping, exit_deadline, lost>>

\* Mutant: an exiting worker never starts its drain deadline.
RetryWithoutDeadline(k, c, orphaned) ==
    /\ state' = "disconnected"
    /\ watch' = FALSE
    /\ inflight' = {} /\ reply' = "none"
    /\ orphans' = OrphansWith(orphaned)
    /\ count' = c
    /\ kick' = IF c > 0 THEN Scheduled(k) ELSE k
    /\ UNCHANGED <<stopping, exit_deadline, lost>>

(* writerRetry(): drop the connection, then stop, give the queue up at the *)
(* graceful-drain deadline, or arm the back-off timer.                     *)
WriterRetry(k, c, orphaned) ==
    /\ state' = "disconnected"
    /\ watch' = FALSE
    /\ inflight' = {}
    /\ reply' = "none"
    /\ orphans' = OrphansWith(orphaned)
    /\ \/ /\ stopping \/ c = 0
          /\ count' = c
          /\ kick' = k
          /\ UNCHANGED <<stopping, exit_deadline, lost>>
       \/ /\ ~stopping /\ c > 0
          /\ exit_deadline = "expired"
          /\ count' = 0
          /\ stopping' = TRUE
          /\ kick' = k
          /\ lost' = lost \cup (Unsettled \ (acked' \cup dropped'))
          /\ UNCHANGED exit_deadline
       \/ /\ ~stopping /\ c > 0
          /\ exit_deadline # "expired"
          /\ count' = c
          /\ exit_deadline' = IF exiting THEN "running" ELSE exit_deadline
          /\ kick' = Scheduled(k)
          /\ UNCHANGED <<stopping, lost>>

(* writerStartQuery(): send the head of the ring; the callers guarantee    *)
(* c > 0.  It fails before the query is complete on the wire, fails just   *)
(* after (the read watch could not be armed), or leaves the query partly   *)
(* or completely flushed.                                                  *)
WriterStartQuery(k, h, c, s) ==
    LET n == IF s > 0 THEN 1 ELSE IF c < BatchMax THEN c ELSE BatchMax
    IN  /\ active_batch_count' = n
        /\ \/ WriterRetry(k, c, {})
           \/ WriterRetry(k, c, {BatchEvents(h, n)})
           \/ /\ state' \in {"flushing", "waiting"}
              /\ watch' = TRUE
              /\ inflight' = BatchEvents(h, n)
              /\ reply' = "none"
              /\ count' = c
              /\ kick' = k
              /\ UNCHANGED <<stopping, exit_deadline, orphans, lost>>

(* writerPollConnect(): the handshake fails, goes on, or has completed and *)
(* the first query starts (the ring is never empty while connecting).      *)
WriterPollConnect(k) ==
    /\ UNCHANGED <<queue, head, tail, single_fallback_remaining, processVars,
                   rows, enqueued, acked, dropped, refusedAlone, suspects>>
    /\ \/ /\ WriterRetry(k, count, {})
          /\ UNCHANGED active_batch_count
       \/ /\ state' = "connecting"
          /\ watch' = TRUE
          /\ kick' = k
          /\ UNCHANGED <<count, active_batch_count, stopping, exit_deadline,
                         inflight, reply, orphans, lost>>
       \/ WriterStartQuery(k, head, count, single_fallback_remaining)

-----------------------------------------------------------------------------
(* LOG phase *)

\* Mutant: an event is appended to a full ring.
EnqueueUnchecked ==
    /\ enqueued < MaxEvents
    /\ enqueued' = enqueued + 1
    /\ queue' = [queue EXCEPT ![tail] = enqueued']
    /\ tail' = (tail + 1) % QueueCapacity
    /\ count' = count + 1
    /\ kick' = Scheduled(kick)

(* writerEnqueue() with room in the ring.                                  *)
EnqueueAccept ==
    /\ count < QueueCapacity
    /\ enqueued < MaxEvents
    /\ enqueued' = enqueued + 1
    /\ queue' = [queue EXCEPT ![tail] = enqueued']
    /\ tail' = (tail + 1) % QueueCapacity
    /\ count' = count + 1
    /\ kick' = Scheduled(kick)

(* A LOG handler offers an event.  A full ring refuses it (the request     *)
(* then logs persist_failed) and nothing changes, so that branch is a      *)
(* stutter and is not written.                                             *)
WriterEnqueue ==
    /\ alive
    /\ EnqueueAccept
    /\ UNCHANGED <<head, state, watch, active_batch_count,
                   single_fallback_remaining, stopping, exit_deadline,
                   processVars, serverVars, acked, dropped, lost,
                   refusedAlone, suspects>>

-----------------------------------------------------------------------------
(* Timer and socket callbacks *)

(* writerKickHandler() with nothing to do: stopping, an empty ring, or a   *)
(* connection already at work.                                             *)
KickIdle ==
    /\ stopping \/ count = 0 \/ state \notin {"disconnected", "idle"}
    /\ kick' = FALSE
    /\ UNCHANGED <<ringVars, state, watch, active_batch_count,
                   single_fallback_remaining, stopping, exit_deadline,
                   processVars, serverVars, historyVars>>

(* writerKickHandler() -> writerConnect(): the connection cannot be        *)
(* created, or the handshake starts and is polled at once.                 *)
KickConnect ==
    /\ ~stopping /\ count > 0 /\ state = "disconnected"
    /\ WriterPollConnect(FALSE)

(* writerKickHandler() -> writerStartQuery() on the idle connection.       *)
KickQuery ==
    /\ ~stopping /\ count > 0 /\ state = "idle"
    /\ UNCHANGED <<queue, head, tail, single_fallback_remaining, processVars,
                   rows, enqueued, acked, dropped, refusedAlone, suspects>>
    /\ WriterStartQuery(FALSE, head, count, single_fallback_remaining)

WriterKickHandler ==
    /\ alive /\ kick
    /\ KickIdle \/ KickConnect \/ KickQuery

(* writerSocketHandler(), state connecting.                                *)
SocketConnecting ==
    /\ state = "connecting"
    /\ WriterPollConnect(kick)

(* writerSocketHandler(), state flushing: the rest of the query is written *)
(* or the connection fails (the incomplete query is never executed).       *)
SocketFlushing ==
    /\ state = "flushing"
    /\ UNCHANGED <<queue, head, tail, active_batch_count,
                   single_fallback_remaining, processVars, rows, enqueued,
                   acked, dropped, refusedAlone, suspects>>
    /\ \/ WriterRetry(kick, count, {})
       \/ WriterRetry(kick, count, {inflight})
       \/ /\ state' = "waiting"
          /\ watch' = TRUE
          /\ UNCHANGED <<count, kick, stopping, exit_deadline, inflight,
                         reply, orphans, lost>>

(* The connection fails or the 5 s I/O timer fires (EOF, reset, timeout):  *)
(* the writer cannot know whether the query was committed.                 *)
SocketFailure ==
    /\ UNCHANGED <<queue, head, tail, active_batch_count,
                   single_fallback_remaining, processVars, rows, enqueued,
                   acked, dropped, refusedAlone, suspects>>
    /\ WriterRetry(kick, count, Orphaned)

\* Mutant: the connection goes idle although events are queued.
ProceedToIdle(h, c, s) ==
    /\ state' = "idle"
    /\ watch' = FALSE
    /\ active_batch_count' = 0
    /\ inflight' = {} /\ reply' = "none"
    /\ count' = c
    /\ UNCHANGED <<kick, stopping, exit_deadline, orphans, lost>>

(* The tail of writerFinishQuery(): idle, or the next query at once.       *)
WriterProceed(h, c, s) ==
    \/ /\ c > 0
       /\ WriterStartQuery(kick, h, c, s)
    \/ /\ c = 0
       /\ state' = "idle"
       /\ watch' = FALSE
       /\ active_batch_count' = 0
       /\ inflight' = {}
       /\ reply' = "none"
       /\ count' = c
       /\ UNCHANGED <<kick, stopping, exit_deadline, orphans, lost>>

\* Mutant: only one event of the batch is passed over.
FinishOkPopsOne ==
    /\ reply = "ok"
    /\ head' = SlotAt(head, 1)
    /\ acked' = acked \cup BatchEvents(head, active_batch_count)
    /\ single_fallback_remaining' = 0
    /\ UNCHANGED <<dropped, suspects>>
    /\ WriterProceed(head', count - active_batch_count, 0)

\* Mutant: as many events are popped as a batch could hold now, not as many
\* as were sent.
FinishOkPopsQueue ==
    /\ reply = "ok"
    /\ LET n == IF BatchMax < count THEN BatchMax ELSE count
       IN  /\ head' = SlotAt(head, n)
           /\ acked' = acked \cup BatchEvents(head, n)
           /\ single_fallback_remaining' = 0
           /\ UNCHANGED <<dropped, suspects>>
           /\ WriterProceed(head', count - n, 0)

(* writerFinishQuery(): the batch is stored; pop all of it.                *)
FinishOk ==
    /\ reply = "ok"
    /\ LET n == IF active_batch_count < count THEN active_batch_count
                                              ELSE count
           s == IF single_fallback_remaining > 0
                THEN single_fallback_remaining - 1 ELSE 0
       IN  /\ head' = SlotAt(head, n)
           /\ acked' = acked \cup BatchEvents(head, n)
           /\ single_fallback_remaining' = s
           /\ UNCHANGED <<dropped, suspects>>
           /\ WriterProceed(head', count - n, s)

\* Mutant: the last event of the refused batch is not isolated.
BatchErrorOffByOne ==
    /\ reply = "error" /\ active_batch_count > 1
    /\ single_fallback_remaining' = active_batch_count - 1
    /\ suspects' = suspects \cup inflight
    /\ UNCHANGED <<head, acked, dropped>>
    /\ WriterProceed(head, count, active_batch_count - 1)

\* Mutant: the whole refused batch is given up.
BatchErrorDropsBatch ==
    /\ reply = "error" /\ active_batch_count > 1
    /\ head' = SlotAt(head, active_batch_count)
    /\ dropped' = dropped \cup inflight
    /\ UNCHANGED <<acked, suspects, single_fallback_remaining>>
    /\ WriterProceed(head', count - active_batch_count, 0)

(* writerFinishQuery(): a batch was refused; nothing is popped, its events *)
(* are sent again one by one.                                              *)
FinishBatchError ==
    /\ reply = "error" /\ active_batch_count > 1
    /\ single_fallback_remaining' = active_batch_count
    /\ suspects' = suspects \cup inflight
    /\ UNCHANGED <<head, acked, dropped>>
    /\ WriterProceed(head, count, active_batch_count)

\* Mutant: the head is dropped for the error of a batch.
SingleErrorOfBatch ==
    /\ reply = "error"
    /\ head' = (head + 1) % QueueCapacity
    /\ dropped' = dropped \cup {queue[head]}
    /\ single_fallback_remaining' = 0
    /\ UNCHANGED <<acked, suspects>>
    /\ WriterProceed(head', count - 1, 0)

(* writerFinishQuery(): a single event was refused; it is dropped, with a  *)
(* recovery record in the error log.                                       *)
FinishSingleError ==
    /\ reply = "error" /\ active_batch_count <= 1
    /\ LET s == IF single_fallback_remaining > 0
                THEN single_fallback_remaining - 1 ELSE 0
       IN  /\ head' = (head + 1) % QueueCapacity
           /\ dropped' = dropped \cup {queue[head]}
           /\ single_fallback_remaining' = s
           /\ UNCHANGED <<acked, suspects>>
           /\ WriterProceed(head', count - 1, s)

(* writerFinishQuery() with a complete answer; while the answer is         *)
(* incomplete (pgIsBusy) it only re-arms the watch.                        *)
WriterFinishQuery ==
    /\ state = "waiting"
    /\ UNCHANGED <<queue, tail, processVars, rows, enqueued, refusedAlone>>
    /\ FinishOk \/ FinishBatchError \/ FinishSingleError

WriterSocketHandler ==
    /\ alive /\ watch
    /\ SocketConnecting \/ SocketFlushing \/ WriterFinishQuery \/ SocketFailure

-----------------------------------------------------------------------------
(* The worker process *)

(* The process is gone and its memory with it; a successor starts with the *)
(* zero-initialised g_pg_writer.                                           *)
ProcessGone ==
    /\ alive' = FALSE
    /\ queue' = [i \in Slots |-> 0]
    /\ head' = 0 /\ tail' = 0 /\ count' = 0
    /\ state' = "disconnected"
    /\ kick' = FALSE /\ watch' = FALSE
    /\ active_batch_count' = 0
    /\ single_fallback_remaining' = 0
    /\ stopping' = FALSE
    /\ exit_deadline' = "unset"
    /\ inflight' = {} /\ reply' = "none"
    /\ orphans' = OrphansWith(Orphaned)
    /\ lost' = lost \cup Unsettled
    /\ UNCHANGED <<exiting, rows, enqueued, acked, dropped, refusedAlone,
                   suspects>>

(* QUIT or reload: ngx_exiting is set, the event loop goes on.             *)
BeginGracefulExit ==
    /\ alive /\ ~exiting
    /\ exiting' = TRUE
    /\ UNCHANGED <<ringVars, writerVars, alive, serverVars, historyVars>>

(* ngx_current_msec reaches exit_deadline.                                 *)
DeadlineExpires ==
    /\ alive /\ exit_deadline = "running"
    /\ exit_deadline' = "expired"
    /\ UNCHANGED <<ringVars, state, kick, watch, active_batch_count,
                   single_fallback_remaining, stopping, processVars,
                   serverVars, historyVars>>

\* Mutant: the kick timer does not hold the event loop.
ExitCancelsKick ==
    /\ alive /\ exiting /\ ~watch
    /\ ProcessGone

(* writerExitProcess() of an exiting worker: nginx ends the event loop     *)
(* once no timer is left that is not cancelable.  The kick timer and the   *)
(* I/O timers of the watch are not.                                        *)
GracefulExit ==
    /\ alive /\ exiting /\ ~kick /\ ~watch
    /\ ProcessGone

(* SIGTERM (writerExitProcess() at once) and SIGKILL (no handler at all):  *)
(* both lose the memory queue and nothing else.                            *)
Killed ==
    /\ alive
    /\ ProcessGone

(* writerInitProcess() of a successor.                                     *)
WriterInitProcess ==
    /\ ~alive
    /\ alive' = TRUE
    /\ exiting' = FALSE
    /\ UNCHANGED <<ringVars, writerVars, serverVars, historyVars>>

-----------------------------------------------------------------------------
(* The PostgreSQL server (external) *)

\* Mutant: no ON CONFLICT clause.
InsertedAgain(batch) ==
    [e \in Events |-> IF e \in batch THEN rows[e] + 1 ELSE rows[e]]

(* The INSERT ... ON CONFLICT (event_id) DO NOTHING of a set of events.    *)
Inserted(batch) ==
    [e \in Events |-> IF e \in batch /\ rows[e] = 0 THEN 1 ELSE rows[e]]

ServerCommit ==
    /\ state = "waiting" /\ reply = "none"
    /\ inflight \cap Poison = {}
    /\ rows' = Inserted(inflight)
    /\ reply' = "ok"
    /\ UNCHANGED <<ringVars, writerVars, processVars, inflight, orphans,
                   historyVars>>

(* The whole statement fails: a poison row, or a passing fault.            *)
ServerRefuse ==
    /\ state = "waiting" /\ reply = "none"
    /\ reply' = "error"
    /\ refusedAlone' = IF Cardinality(inflight) = 1
                       THEN refusedAlone \cup inflight ELSE refusedAlone
    /\ UNCHANGED <<ringVars, writerVars, processVars, inflight, orphans,
                   rows, enqueued, acked, dropped, lost, suspects>>

(* The backend of an abandoned connection commits late, or rolls back.     *)
OrphanDecided ==
    /\ \E batch \in orphans :
        /\ orphans' = orphans \ {batch}
        /\ \/ batch \cap Poison = {} /\ rows' = Inserted(batch)
           \/ UNCHANGED rows
    /\ UNCHANGED <<ringVars, writerVars, processVars, inflight, reply,
                   historyVars>>

-----------------------------------------------------------------------------

Init ==
    /\ queue = [i \in Slots |-> 0]
    /\ head = 0 /\ tail = 0 /\ count = 0
    /\ state = "disconnected"
    /\ kick = FALSE /\ watch = FALSE
    /\ active_batch_count = 0 /\ single_fallback_remaining = 0
    /\ stopping = FALSE /\ exit_deadline = "unset"
    /\ exiting = FALSE /\ alive = TRUE
    /\ inflight = {} /\ reply = "none" /\ orphans = {}
    /\ rows = [e \in Events |-> 0]
    /\ enqueued = 0
    /\ acked = {} /\ dropped = {} /\ lost = {}
    /\ refusedAlone = {} /\ suspects = {}

Next ==
    \/ WriterEnqueue
    \/ WriterKickHandler
    \/ WriterSocketHandler
    \/ BeginGracefulExit
    \/ DeadlineExpires
    \/ GracefulExit
    \/ Killed
    \/ WriterInitProcess
    \/ ServerCommit
    \/ ServerRefuse
    \/ OrphanDecided

Spec == Init /\ [][Next]_vars

(* Timers that are set fire, a watched socket becomes ready or times out,  *)
(* and nginx leaves the event loop once nothing holds it.                  *)
TimerFairness ==
    /\ WF_vars(WriterKickHandler)
    /\ WF_vars(WriterSocketHandler)
    /\ WF_vars(DeadlineExpires)
    /\ WF_vars(GracefulExit)

(* A server that is not out of reach for ever: a writer that keeps trying  *)
(* gets a query delivered, an answer out of the server, and the answer     *)
(* back.                                                                   *)
QueryDelivered ==
    /\ WriterKickHandler \/ WriterSocketHandler
    /\ state # "waiting" /\ state' = "waiting"

AnswerReceived ==
    /\ alive /\ watch
    /\ WriterFinishQuery

ServerFairness ==
    /\ SF_vars(QueryDelivered)
    /\ SF_vars(ServerCommit \/ ServerRefuse)
    /\ SF_vars(AnswerReceived)

DrainSpec == Spec /\ TimerFairness
LiveSpec  == Spec /\ TimerFairness /\ ServerFairness

-----------------------------------------------------------------------------
(* Properties *)

(* Types of the variables.                                                 *)
TypeOK ==
    /\ queue \in [Slots -> 0..MaxEvents]
    /\ head \in Slots /\ tail \in Slots
    /\ count \in 0..QueueCapacity
    /\ state \in WriterStates
    /\ kick \in BOOLEAN /\ watch \in BOOLEAN
    /\ active_batch_count \in Nat
    /\ single_fallback_remaining \in Nat
    /\ stopping \in BOOLEAN
    /\ exit_deadline \in {"unset", "running", "expired"}
    /\ exiting \in BOOLEAN /\ alive \in BOOLEAN
    /\ inflight \subseteq Events
    /\ reply \in {"none", "ok", "error"}
    /\ orphans \subseteq SUBSET Events
    /\ rows \in [Events -> Nat]
    /\ enqueued \in 0..MaxEvents
    /\ acked \subseteq Events /\ dropped \subseteq Events
    /\ lost \subseteq Events
    /\ refusedAlone \subseteq Events /\ suspects \subseteq Events

(* The live slots of the ring are the unsettled events in the order of     *)
(* acceptance, across wrap-around, batches, refusals and reconnects: the   *)
(* FIFO drain of llm-cost.test.js.                                         *)
RingIsFifo ==
    ~stopping =>
        /\ tail = SlotAt(head, count)
        /\ \A i \in 0..(count - 1) :
             queue[SlotAt(head, i)] = enqueued - count + i + 1
        /\ Unsettled = (enqueued - count + 1)..enqueued

(* An event leaves the queue as written only if its row is in the table,   *)
(* however its INSERT was interrupted, resent or batched.                  *)
AckedIsStored == acked \subseteq Stored

(* No event is stored twice, although an INSERT whose answer was lost is   *)
(* sent again and an abandoned backend may commit after the resent one.    *)
AtMostOneRow == \A e \in Events : rows[e] <= 1

(* An event is given up for an SQL error only if the server refused it on  *)
(* its own: never for the error of an event it was batched with.           *)
DroppedWasRefusedAlone == dropped \subseteq refusedAlone

(* While a batch that was refused is being isolated, none of its events    *)
(* shares a statement with another event, across reconnects too.           *)
SuspectsGoAlone ==
    Cardinality(inflight) > 1 => inflight \cap suspects = {}

(* A writer with queued events has a timer or a watched socket that will   *)
(* call it again (the wake-ups of writerEnqueue are no-ops while it is     *)
(* busy, so every path out of a busy state must re-arm or go on).          *)
NoLostWakeup ==
    alive /\ ~stopping /\ count > 0 =>
        kick \/ (watch /\ state \in {"connecting", "flushing", "waiting"})

(* A graceful exit gives events up only after the drain deadline: the      *)
(* queue of an exiting worker is not lost to the end of the event loop.    *)
GracefulExitLosesOnlyAfterDeadline ==
    [][GracefulExit /\ Unsettled # {} => exit_deadline = "expired"]_vars

(* Reload does not hang: an exiting worker ends, whatever the server does. *)
DrainTerminates == exiting ~> (~alive \/ ~exiting)

(* Every accepted event is eventually stored and popped, dropped with a    *)
(* recovery record, or lost with its worker.                               *)
EventuallySettled ==
    \A e \in Events : (enqueued >= e) ~> (e \in acked \cup dropped \cup lost)

-----------------------------------------------------------------------------
(* Implementation of the abstract specification: the line is the ring;     *)
(* once the writer is stopping nothing in the ring will be sent any more,  *)
(* and head no longer points at what was accepted since.                   *)
Log == INSTANCE AccountingLog WITH
    accepted  <- enqueued,
    pending   <- [i \in 1..count |->
                    IF stopping THEN enqueued - count + i
                                ELSE queue[SlotAt(head, i - 1)]],
    stored    <- Stored,
    written   <- acked,
    refused   <- dropped,
    forgotten <- lost

(* The writer implements the accounting log: in order, once, and never     *)
(* popped as written before it is stored.                                  *)
ImplementsAccountingLog == Log!Spec
=============================================================================
