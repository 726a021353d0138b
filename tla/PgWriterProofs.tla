--------------------------- MODULE PgWriterProofs ---------------------------
(***************************************************************************)
(* Theorems about PgWriter for every queue capacity, batch limit, number   *)
(* of events and set of poisoned events.                                   *)
(*                                                                         *)
(* The inductive invariant IInv describes the ring as a line: the count    *)
(* slots from head on hold the consecutive numbers that end with enqueued, *)
(* so the events of the INSERT on the connection are an interval at the    *)
(* front of the line.  That makes the pop after an answer remove exactly   *)
(* what the server answered for, whatever was appended meanwhile.          *)
(***************************************************************************)
EXTENDS PgWriter, FiniteSetTheorems, SequenceTheorems, TLAPS

-----------------------------------------------------------------------------
(* Ring arithmetic                                                         *)

LEMMA ModSmall ==
    ASSUME NEW C \in Nat \ {0}, NEW x \in 0..(C - 1)
    PROVE  x % C = x
  OBVIOUS

LEMMA ModWrap ==
    ASSUME NEW C \in Nat \ {0}, NEW x \in C..(2*C - 1)
    PROVE  x % C = x - C
  OBVIOUS

LEMMA SlotAtValue ==
    ASSUME NEW h \in Slots, NEW i \in 0..QueueCapacity
    PROVE  /\ SlotAt(h, i) \in Slots
           /\ SlotAt(h, i) = IF h + i < QueueCapacity
                             THEN h + i ELSE h + i - QueueCapacity
  BY WriterAssumption, ModSmall, ModWrap, SMTT(30) DEF SlotAt, Slots

LEMMA SlotAtDistinct ==
    ASSUME NEW h \in Slots, NEW i \in 0..QueueCapacity,
           NEW j \in 0..QueueCapacity, i < j, j < QueueCapacity
    PROVE  SlotAt(h, i) # SlotAt(h, j)
  <1>1. SlotAt(h, i) = IF h + i < QueueCapacity
                       THEN h + i ELSE h + i - QueueCapacity
    BY SlotAtValue
  <1>2. SlotAt(h, j) = IF h + j < QueueCapacity
                       THEN h + j ELSE h + j - QueueCapacity
    BY SlotAtValue
  <1> QED
    BY <1>1, <1>2, WriterAssumption DEF Slots

LEMMA SlotAtSum ==
    ASSUME NEW h \in Slots, NEW n \in 0..QueueCapacity,
           NEW i \in 0..QueueCapacity, n + i <= QueueCapacity
    PROVE  SlotAt(SlotAt(h, n), i) = SlotAt(h, n + i)
  <1>1. n + i \in 0..QueueCapacity
    BY WriterAssumption
  <1>2. /\ SlotAt(h, n) \in Slots
        /\ SlotAt(h, n) = IF h + n < QueueCapacity
                          THEN h + n ELSE h + n - QueueCapacity
    BY SlotAtValue
  <1>3. SlotAt(h, n + i) = IF h + (n + i) < QueueCapacity
                           THEN h + (n + i) ELSE h + (n + i) - QueueCapacity
    BY <1>1, SlotAtValue
  <1>4. SlotAt(SlotAt(h, n), i) =
            IF SlotAt(h, n) + i < QueueCapacity
            THEN SlotAt(h, n) + i ELSE SlotAt(h, n) + i - QueueCapacity
    BY <1>2, SlotAtValue
  <1> QED
    BY <1>2, <1>3, <1>4, WriterAssumption DEF Slots

-----------------------------------------------------------------------------
(* The line of events in the ring                                          *)

\* The c slots from h on hold the last c events accepted, in order.
Line(h, c) ==
    /\ h \in Slots /\ c \in 0..QueueCapacity
    /\ tail = SlotAt(h, c)
    /\ c <= enqueued
    /\ \A i \in 0..(c - 1) : queue[SlotAt(h, i)] = enqueued - c + i + 1

\* The first n events of a line of c events.
Front(c, n) == (enqueued - c + 1)..(enqueued - c + n)

LEMMA LineAdvances ==
    ASSUME NEW h, NEW c, Line(h, c), enqueued \in Nat, NEW n \in 0..c
    PROVE  Line(SlotAt(h, n), c - n)
  <1>1. /\ h \in Slots /\ c \in 0..QueueCapacity /\ n \in 0..QueueCapacity
        /\ n + (c - n) = c /\ c - n \in 0..QueueCapacity
    BY WriterAssumption DEF Line
  <1>2. SlotAt(h, n) \in Slots
    BY <1>1, SlotAtValue
  <1>3. SlotAt(SlotAt(h, n), c - n) = SlotAt(h, c)
    BY <1>1, SlotAtSum, WriterAssumption
  <1>4. ASSUME NEW i \in 0..(c - n - 1)
        PROVE  queue[SlotAt(SlotAt(h, n), i)] = enqueued - (c - n) + i + 1
    <2>1. /\ n + i \in 0..(c - 1) /\ i \in 0..QueueCapacity
          /\ n + i <= QueueCapacity
      BY <1>1, WriterAssumption
    <2>2. SlotAt(SlotAt(h, n), i) = SlotAt(h, n + i)
      BY <1>1, <2>1, SlotAtSum
    <2>3. queue[SlotAt(h, n + i)] = enqueued - c + (n + i) + 1
      BY <2>1 DEF Line
    <2> QED
      BY <1>1, <2>2, <2>3, WriterAssumption
  <1> QED
    BY <1>1, <1>2, <1>3, <1>4, WriterAssumption DEF Line

LEMMA BatchIsFront ==
    ASSUME NEW h, NEW c, Line(h, c), enqueued \in Nat, NEW n \in 0..c
    PROVE  BatchEvents(h, n) = Front(c, n)
  <1>1. /\ c \in 0..QueueCapacity /\ c <= enqueued
        /\ \A i \in 0..(c - 1) : queue[SlotAt(h, i)] = enqueued - c + i + 1
    BY DEF Line
  <1>2. \A i \in 0..(n - 1) : i \in 0..(c - 1)
    BY <1>1, WriterAssumption
  <1>3. ASSUME NEW e \in BatchEvents(h, n) PROVE e \in Front(c, n)
    BY <1>1, <1>2, WriterAssumption DEF BatchEvents, Front
  <1>4. ASSUME NEW e \in Front(c, n) PROVE e \in BatchEvents(h, n)
    <2>1. /\ e - (enqueued - c + 1) \in 0..(n - 1)
          /\ e = enqueued - c + (e - (enqueued - c + 1)) + 1
      BY <1>1, WriterAssumption DEF Front
    <2> QED
      BY <1>1, <1>2, <2>1 DEF BatchEvents
  <1> QED
    BY <1>3, <1>4

-----------------------------------------------------------------------------
(* The inductive invariant                                                 *)

\* The events that nothing has been decided about are the last count ones;
\* until the writer gives up, the ring holds them.
RingInv ==
    /\ ~stopping => Line(head, count)
    /\ count <= enqueued
    /\ acked \cup dropped \cup lost = 1..(enqueued - count)

\* The state of the connection, and the INSERT on it: the front of the line.
ConnInv ==
    /\ stopping => state = "disconnected" /\ exit_deadline = "expired"
    /\ watch <=> state \in {"connecting", "flushing", "waiting"}
    /\ state = "connecting" => count > 0
    /\ state \in {"flushing", "waiting"} =>
          /\ active_batch_count \in 1..count
          /\ inflight = Front(count, active_batch_count)
    /\ state \notin {"flushing", "waiting"} => inflight = {}
    /\ reply # "none" => state = "waiting"
    /\ ~alive => count = 0 /\ state = "disconnected"

\* What an answer of the server says about the INSERT.
AnswerInv ==
    /\ reply = "ok" => inflight \subseteq Stored
    /\ reply = "error" /\ active_batch_count = 1 => inflight \subseteq refusedAlone

HistoryInv ==
    /\ acked \subseteq Stored
    /\ dropped \subseteq refusedAlone
    /\ orphans \subseteq SUBSET (1..enqueued)

IInv ==
    /\ TypeOK
    /\ RingInv
    /\ ConnInv
    /\ AnswerInv
    /\ HistoryInv
    /\ NoLostWakeup

LEMMA InitIInv == Init => IInv
  <1> SUFFICES ASSUME Init PROVE IInv
    OBVIOUS
  <1> USE WriterAssumption DEF Init
  <1>1. TypeOK
    <2>1. /\ queue \in [Slots -> 0..MaxEvents]
          /\ head \in Slots /\ tail \in Slots
          /\ count \in 0..QueueCapacity
          /\ rows \in [Events -> Nat] /\ enqueued \in 0..MaxEvents
          /\ active_batch_count \in Nat /\ single_fallback_remaining \in Nat
      BY DEF Slots, Events
    <2> QED
      BY <2>1, Zenon DEF TypeOK, WriterStates
  <1>2. RingInv
    <2>1. SlotAt(0, 0) = 0
      BY SlotAtValue DEF Slots
    <2> QED
      BY <2>1 DEF RingInv, Line, Slots
  <1>3. ConnInv /\ AnswerInv
    BY Zenon DEF ConnInv, AnswerInv
  <1>4. HistoryInv
    BY DEF HistoryInv
  <1>5. NoLostWakeup
    <2>1. ~(0 > 0)
      OBVIOUS
    <2> QED
      BY <2>1, Zenon DEF NoLostWakeup
  <1> QED
    BY <1>1, <1>2, <1>3, <1>4, <1>5 DEF IInv

-----------------------------------------------------------------------------
(* The callbacks                                                           *)
(*                                                                         *)
(* Every callback of a writer that has not given up ends in one of a few   *)
(* ways, whatever it did before: it has left c events in line, and it      *)
(* gives up, waits to reconnect, idles, connects or has sent the front.    *)

GivesUp ==
    /\ stopping' /\ exit_deadline' = "expired"
    /\ state' = "disconnected" /\ ~watch'
    /\ inflight' = {} /\ reply' = "none"
    /\ count' = 0
    /\ lost' = lost \cup (Unsettled \ (acked' \cup dropped'))

Backs(c) ==
    /\ state' = "disconnected" /\ ~watch'
    /\ inflight' = {} /\ reply' = "none"
    /\ c > 0 => kick'

Idles(c) ==
    /\ c = 0
    /\ state' = "idle" /\ ~watch'
    /\ inflight' = {} /\ reply' = "none"

Connects(c) ==
    /\ c > 0
    /\ state' = "connecting" /\ watch'
    /\ inflight' = {} /\ reply' = "none"

Sends(c) ==
    /\ state' \in {"flushing", "waiting"} /\ watch'
    /\ active_batch_count' \in 1..c
    /\ inflight' = Front(c, active_batch_count')
    /\ reply' = "none"

Ends(c) ==
    /\ kick' \in BOOLEAN /\ watch' \in BOOLEAN /\ stopping' \in BOOLEAN
    /\ exit_deadline' \in {"unset", "running", "expired"}
    /\ orphans' \subseteq SUBSET (1..enqueued)
    /\ count' \in 0..QueueCapacity
    /\ \/ GivesUp
       \/ /\ ~stopping' /\ count' = c /\ lost' = lost
          /\ Backs(c) \/ Idles(c) \/ Connects(c) \/ Sends(c)

LEMMA FrontIsEvents ==
    ASSUME IInv, NEW c \in 0..QueueCapacity, c <= enqueued, NEW n \in 0..c
    PROVE  Front(c, n) \subseteq Events
  BY WriterAssumption DEF IInv, TypeOK, Front, Events

LEMMA FrontIsAccepted ==
    ASSUME IInv, NEW c \in 0..QueueCapacity, c <= enqueued, NEW n \in 0..c
    PROVE  Front(c, n) \subseteq 1..enqueued
  BY WriterAssumption DEF IInv, TypeOK, Front

\* An INSERT is of accepted events.
LEMMA InflightAccepted ==
    ASSUME IInv
    PROVE  inflight \subseteq 1..enqueued
  <1>1. count \in 0..QueueCapacity /\ count <= enqueued
    BY DEF IInv, TypeOK, RingInv
  <1>2. CASE state \in {"flushing", "waiting"}
    <2>1. active_batch_count \in 0..count
      BY <1>1, <1>2, WriterAssumption DEF IInv, ConnInv
    <2> QED
      BY <1>1, <1>2, <2>1, FrontIsAccepted DEF IInv, ConnInv
  <1> QED
    BY <1>2 DEF IInv, ConnInv

LEMMA RetryEnds ==
    ASSUME IInv, ~stopping, NEW k \in BOOLEAN, NEW c \in 0..QueueCapacity,
           NEW S, S \subseteq SUBSET (1..enqueued), WriterRetry(k, c, S)
    PROVE  Ends(c)
  <1>1. orphans' \subseteq SUBSET (1..enqueued)
    BY DEF WriterRetry, OrphansWith, IInv, HistoryInv
  <1>3. /\ exit_deadline \in {"unset", "running", "expired"}
        /\ stopping \in BOOLEAN
    BY DEF IInv, TypeOK
  <1>4. /\ state' = "disconnected" /\ ~watch' /\ watch' \in BOOLEAN
        /\ inflight' = {} /\ reply' = "none"
    BY DEF WriterRetry
  <1>5. CASE c = 0
    <2>1. ~(c > 0) /\ 0 \in 0..QueueCapacity
      BY <1>5, WriterAssumption
    <2>2. /\ count' = c /\ kick' = k
          /\ UNCHANGED <<stopping, exit_deadline, lost>>
      BY <1>5, <2>1, Zenon DEF WriterRetry
    <2>3. Backs(c)
      BY <1>4, <2>1, Zenon DEF Backs
    <2> QED
      BY <1>1, <1>3, <1>4, <2>2, <2>3, Zenon DEF Ends
  <1>6. CASE c > 0 /\ exit_deadline = "expired"
    <2>1. c # 0 /\ 0 \in 0..QueueCapacity
      BY <1>6, WriterAssumption
    <2>2. /\ count' = 0 /\ stopping' = TRUE /\ kick' = k
          /\ lost' = lost \cup (Unsettled \ (acked' \cup dropped'))
          /\ UNCHANGED exit_deadline
      BY <1>6, <2>1, Zenon DEF WriterRetry
    <2>3. GivesUp
      BY <1>4, <1>6, <2>2, Zenon DEF GivesUp
    <2> QED
      BY <1>1, <1>3, <1>4, <2>1, <2>2, <2>3, Zenon DEF Ends
  <1>7. CASE c > 0 /\ exit_deadline # "expired"
    <2>1. c # 0
      BY <1>7, WriterAssumption
    <2>2. /\ count' = c
          /\ exit_deadline' = IF exiting THEN "running" ELSE exit_deadline
          /\ kick' = TRUE
          /\ UNCHANGED <<stopping, lost>>
      BY <1>7, <2>1, Zenon DEF WriterRetry, Scheduled
    <2>3. Backs(c)
      BY <1>4, <2>2, Zenon DEF Backs
    <2>4. exit_deadline' \in {"unset", "running", "expired"}
      BY <1>3, <2>2
    <2> QED
      BY <1>1, <1>3, <1>4, <2>2, <2>3, <2>4, Zenon DEF Ends
  <1>8. c = 0 \/ c > 0
    BY WriterAssumption
  <1> QED
    BY <1>5, <1>6, <1>7, <1>8

LEMMA StartQueryEnds ==
    ASSUME IInv, ~stopping, NEW k \in BOOLEAN, NEW h, NEW c, Line(h, c),
           c > 0, NEW s \in Nat, WriterStartQuery(k, h, c, s)
    PROVE  Ends(c) /\ active_batch_count' \in Nat
  <1> DEFINE n == active_batch_count'
  <1>1. c \in 0..QueueCapacity /\ c <= enqueued /\ enqueued \in Nat
    BY WriterAssumption DEF Line, IInv, TypeOK
  <1>2. n \in 1..c
    BY <1>1, WriterAssumption DEF WriterStartQuery
  <1>3. n = IF s > 0 THEN 1 ELSE IF c < BatchMax THEN c ELSE BatchMax
    BY DEF WriterStartQuery
  <1>4. active_batch_count' \in Nat
    BY <1>1, <1>2, WriterAssumption
  <1> HIDE DEF n
  <1>5. /\ BatchEvents(h, n) = Front(c, n)
        /\ Front(c, n) \subseteq 1..enqueued
    <2>1. n \in 0..c
      BY <1>1, <1>2, WriterAssumption
    <2> QED
      BY <1>1, <2>1, BatchIsFront, FrontIsAccepted
  <1>6. \/ WriterRetry(k, c, {})
        \/ WriterRetry(k, c, {BatchEvents(h, n)})
        \/ /\ state' \in {"flushing", "waiting"}
           /\ watch' = TRUE
           /\ inflight' = BatchEvents(h, n)
           /\ reply' = "none"
           /\ count' = c
           /\ kick' = k
           /\ UNCHANGED <<stopping, exit_deadline, orphans, lost>>
    BY <1>3 DEF WriterStartQuery
  <1>7. CASE WriterRetry(k, c, {})
    <2>1. {} \subseteq SUBSET (1..enqueued)
      OBVIOUS
    <2> QED
      BY <1>1, <1>7, <1>4, <2>1, RetryEnds, Zenon
  <1>8. CASE WriterRetry(k, c, {BatchEvents(h, n)})
    <2>1. {BatchEvents(h, n)} \subseteq SUBSET (1..enqueued)
      BY <1>5
    <2> QED
      BY <1>1, <1>8, <1>4, <2>1, RetryEnds, Zenon
  <1>9. CASE /\ state' \in {"flushing", "waiting"}
             /\ watch' = TRUE
             /\ inflight' = BatchEvents(h, n)
             /\ reply' = "none"
             /\ count' = c
             /\ kick' = k
             /\ UNCHANGED <<stopping, exit_deadline, orphans, lost>>
    <2>1. Sends(c)
      BY <1>2, <1>5, <1>9 DEF Sends, n
    <2>2. /\ stopping \in BOOLEAN /\ orphans \subseteq SUBSET (1..enqueued)
          /\ exit_deadline \in {"unset", "running", "expired"}
      BY DEF IInv, TypeOK, HistoryInv
    <2> QED
      BY <1>1, <1>9, <1>4, <2>1, <2>2, Zenon DEF Ends
  <1> QED
    BY <1>6, <1>7, <1>8, <1>9

LEMMA PollConnectEnds ==
    ASSUME IInv, ~stopping, count > 0, reply = "none", inflight = {},
           NEW k \in BOOLEAN, WriterPollConnect(k)
    PROVE  Ends(count) /\ active_batch_count' \in Nat
  <1>1. Line(head, count) /\ count \in 0..QueueCapacity
    BY DEF IInv, RingInv, Line
  <1>2. single_fallback_remaining \in Nat /\ active_batch_count \in Nat
    BY DEF IInv, TypeOK
  <1>3. CASE WriterRetry(k, count, {}) /\ UNCHANGED active_batch_count
    BY <1>1, <1>2, <1>3, RetryEnds
  <1>4. CASE /\ state' = "connecting"
             /\ watch' = TRUE
             /\ kick' = k
             /\ UNCHANGED <<count, active_batch_count, stopping,
                            exit_deadline, inflight, reply, orphans, lost>>
    BY <1>1, <1>2, <1>4 DEF Ends, Connects, IInv, TypeOK, HistoryInv
  <1>5. CASE WriterStartQuery(k, head, count, single_fallback_remaining)
    BY <1>1, <1>2, <1>5, StartQueryEnds
  <1> QED
    BY <1>3, <1>4, <1>5 DEF WriterPollConnect

LEMMA ProceedEnds ==
    ASSUME IInv, ~stopping, NEW h, NEW c, Line(h, c), NEW s \in Nat,
           WriterProceed(h, c, s)
    PROVE  Ends(c) /\ active_batch_count' \in Nat
  <1>1. c \in 0..QueueCapacity /\ kick \in BOOLEAN
    BY DEF Line, IInv, TypeOK
  <1>2. CASE c > 0 /\ WriterStartQuery(kick, h, c, s)
    BY <1>1, <1>2, StartQueryEnds
  <1>3. CASE /\ c = 0
             /\ state' = "idle"
             /\ watch' = FALSE
             /\ active_batch_count' = 0
             /\ inflight' = {}
             /\ reply' = "none"
             /\ count' = c
             /\ UNCHANGED <<kick, stopping, exit_deadline, orphans, lost>>
    BY <1>1, <1>3 DEF Ends, Idles, IInv, TypeOK, HistoryInv
  <1> QED
    BY <1>2, <1>3 DEF WriterProceed

(* A callback that has left a line at the new head, settled exactly the    *)
(* events before it and ends in one of these ways keeps the invariant.     *)
LEMMA EndsKeepsIInv ==
    ASSUME IInv, alive, ~stopping, NEW c, Line(head', c), Ends(c),
           active_batch_count' \in Nat,
           single_fallback_remaining' \in Nat, suspects' \subseteq Events,
           UNCHANGED <<queue, tail, processVars, rows, enqueued, refusedAlone>>,
           acked' \subseteq Stored, dropped' \subseteq refusedAlone,
           acked \subseteq acked', dropped \subseteq dropped',
           acked' \cup dropped' \cup lost = 1..(enqueued - c)
    PROVE  IInv'
  <1>1. /\ enqueued \in 0..MaxEvents /\ c \in 0..QueueCapacity
        /\ c <= enqueued /\ head' \in Slots
    BY DEF IInv, TypeOK, Line
  <1>2. /\ acked' \cup dropped' \cup lost \subseteq 1..enqueued
        /\ lost' \subseteq 1..enqueued
    BY <1>1, WriterAssumption DEF Ends, GivesUp, Unsettled
  <1>3. inflight' \subseteq Events
    <2>1. CASE Sends(c)
      <3>1. Front(c, active_batch_count') \subseteq Events
        BY <1>1, <2>1, FrontIsEvents, WriterAssumption DEF Sends
      <3> QED
        BY <2>1, <3>1 DEF Sends
    <2> QED
      BY <2>1 DEF Ends, GivesUp, Backs, Idles, Connects
  <1>4. /\ reply' = "none"
        /\ state' \in {"disconnected", "idle", "connecting", "flushing", "waiting"}
    BY DEF Ends, GivesUp, Backs, Idles, Connects, Sends
  <1>5. TypeOK'
    <2>1. 1..enqueued \subseteq Events
      BY <1>1, WriterAssumption DEF Events
    <2>2. /\ queue' = queue /\ tail' = tail /\ exiting' = exiting
          /\ alive' = alive /\ rows' = rows /\ enqueued' = enqueued
          /\ refusedAlone' = refusedAlone
      BY DEF processVars
    <2>3. /\ kick' \in BOOLEAN /\ watch' \in BOOLEAN /\ stopping' \in BOOLEAN
          /\ exit_deadline' \in {"unset", "running", "expired"}
          /\ orphans' \subseteq SUBSET Events
          /\ count' \in 0..QueueCapacity
      BY <2>1 DEF Ends
    <2> QED
      BY <1>1, <1>2, <1>3, <1>4, <2>1, <2>2, <2>3
      DEF TypeOK, IInv, WriterStates
  <1>6. RingInv'
    <2>1. CASE stopping'
      <3>1. /\ count' = 0
            /\ lost' = lost \cup (Unsettled \ (acked' \cup dropped'))
        BY <2>1 DEF Ends, GivesUp
      <3>2. acked' \cup dropped' \cup lost' = 1..enqueued
        <4>1. acked \cup dropped \cup lost \subseteq acked' \cup dropped' \cup lost'
          BY <3>1
        <4> QED
          BY <1>2, <3>1, <4>1 DEF Unsettled
      <3> QED
        BY <1>1, <2>1, <3>1, <3>2, WriterAssumption DEF RingInv
    <2>2. CASE ~stopping'
      <3>1. count' = c /\ lost' = lost
        BY <2>2 DEF Ends, GivesUp
      <3>2. Line(head, count)'
        BY <3>1 DEF Line, SlotAt
      <3> QED
        BY <1>1, <2>2, <3>1, <3>2 DEF RingInv
    <2> QED
      BY <2>1, <2>2
  <1>7. ConnInv'
    BY <1>4, <1>1 DEF processVars, ConnInv, Ends, GivesUp, Backs, Idles, Connects, Sends, Front
  <1>8. AnswerInv'
    BY <1>4 DEF AnswerInv
  <1>9. HistoryInv'
    BY DEF HistoryInv, Stored, Ends
  <1>10. NoLostWakeup'
    BY DEF NoLostWakeup, Ends, GivesUp, Backs, Idles, Connects, Sends
  <1> QED
    BY <1>5, <1>6, <1>7, <1>8, <1>9, <1>10 DEF IInv

(* The same for a callback that settles nothing.                           *)
LEMMA EndsInPlace ==
    ASSUME IInv, alive, ~stopping, Ends(count),
           active_batch_count' \in Nat,
           UNCHANGED <<queue, head, tail, single_fallback_remaining,
                       processVars, rows, enqueued, acked, dropped,
                       refusedAlone, suspects>>
    PROVE  IInv'
  <1>1. /\ Line(head', count)
        /\ acked' \cup dropped' \cup lost = 1..(enqueued - count)
    BY DEF IInv, RingInv
  <1>2. /\ acked' \subseteq Stored /\ dropped' \subseteq refusedAlone
        /\ acked \subseteq acked' /\ dropped \subseteq dropped'
    BY DEF IInv, HistoryInv
  <1>3. single_fallback_remaining' \in Nat /\ suspects' \subseteq Events
    BY DEF IInv, TypeOK
  <1>4. UNCHANGED <<queue, tail, processVars, rows, enqueued, refusedAlone>>
    OBVIOUS
  <1> QED
    BY <1>1, <1>2, <1>3, <1>4, EndsKeepsIInv, Zenon

-----------------------------------------------------------------------------
(* One lemma per action                                                    *)

LEMMA EnqueueKeepsIInv ==
    ASSUME IInv, WriterEnqueue PROVE IInv'
  <1>1. /\ count < QueueCapacity /\ enqueued < MaxEvents
        /\ enqueued' = enqueued + 1
        /\ queue' = [queue EXCEPT ![tail] = enqueued + 1]
        /\ tail' = SlotAt(tail, 1)
        /\ count' = count + 1
        /\ kick' = Scheduled(kick)
        /\ UNCHANGED <<head, state, watch, active_batch_count,
                       single_fallback_remaining, stopping, exit_deadline,
                       exiting, alive, inflight, reply, orphans, rows,
                       acked, dropped, lost, refusedAlone, suspects>>
    BY DEF WriterEnqueue, EnqueueAccept, processVars, serverVars, SlotAt
  <1>2. /\ queue \in [Slots -> 0..MaxEvents] /\ head \in Slots /\ tail \in Slots
        /\ count \in 0..QueueCapacity /\ enqueued \in 0..MaxEvents
    BY DEF IInv, TypeOK
  <1>3. /\ count' \in 0..QueueCapacity /\ enqueued' \in 0..MaxEvents
        /\ tail' \in Slots /\ queue' \in [Slots -> 0..MaxEvents]
        /\ enqueued' - count' = enqueued - count
    BY <1>1, <1>2, SlotAtValue, WriterAssumption
  <1>4. kick' \in BOOLEAN /\ (~stopping => kick')
    BY <1>1 DEF Scheduled, IInv, TypeOK
  <1>5. TypeOK'
    BY <1>1, <1>3, <1>4, Zenon DEF IInv, TypeOK
  <1>6. ASSUME ~stopping PROVE Line(head, count)'
    <2>1. /\ tail = SlotAt(head, count) /\ count <= enqueued
          /\ \A i \in 0..(count - 1) :
                queue[SlotAt(head, i)] = enqueued - count + i + 1
      BY <1>6 DEF IInv, RingInv, Line
    <2>2. tail' = SlotAt(head, count + 1)
      BY <1>1, <1>2, <2>1, SlotAtSum, WriterAssumption
    <2>3. ASSUME NEW i \in 0..count
          PROVE  queue'[SlotAt(head, i)] = enqueued - count + i + 1
      <3>1. SlotAt(head, i) \in Slots
        BY <1>2, SlotAtValue, WriterAssumption
      <3>2. CASE i = count
        BY <1>1, <1>2, <2>1, <3>2
      <3>3. CASE i < count
        <4>1. SlotAt(head, i) # tail
          BY <1>1, <1>2, <2>1, <3>3, SlotAtDistinct, WriterAssumption
        <4>2. i \in 0..(count - 1)
          BY <1>2, <3>3, WriterAssumption
        <4> QED
          BY <1>1, <1>2, <2>1, <3>1, <4>1, <4>2
      <3> QED
        BY <1>2, <3>2, <3>3, WriterAssumption
    <2>4. \A i \in 0..(count' - 1) :
             queue'[SlotAt(head, i)] = enqueued' - count' + i + 1
      BY <1>1, <1>2, <1>3, <2>3, WriterAssumption
    <2> QED
      BY <1>1, <1>2, <1>3, <2>1, <2>2, <2>4, WriterAssumption
      DEF Line, SlotAt
  <1>7. RingInv'
    <2>1. count' <= enqueued'
      BY <1>1, <1>2, WriterAssumption DEF IInv, RingInv
    <2> QED
      BY <1>1, <1>3, <1>6, <2>1 DEF IInv, RingInv
  <1>8. ConnInv'
    <2> USE DEF WriterEnqueue
    <2>1. \A n \in 1..count : n \in 1..count'
      BY <1>1, <1>2, WriterAssumption
    <2>2. Front(count, active_batch_count)' = Front(count, active_batch_count)
      BY <1>1, <1>3 DEF Front
    <2>3. count > 0 => count' > 0
      BY <1>1, <1>2, WriterAssumption
    <2> QED
      BY <1>1, <2>1, <2>2, <2>3 DEF IInv, ConnInv
  <1>9. AnswerInv' /\ HistoryInv'
    <2>1. 1..enqueued \subseteq 1..enqueued'
      BY <1>1, <1>2, WriterAssumption
    <2> QED
      BY <1>1, <2>1 DEF IInv, AnswerInv, HistoryInv, Stored
  <1>10. NoLostWakeup'
    BY <1>1, <1>4, Zenon DEF NoLostWakeup
  <1> QED
    BY <1>5, <1>7, <1>8, <1>9, <1>10 DEF IInv

LEMMA KickEnds ==
    ASSUME IInv, KickConnect \/ KickQuery
    PROVE  Ends(count) /\ active_batch_count' \in Nat
  <1>1. CASE KickConnect
    <2>1. reply = "none" /\ inflight = {} /\ FALSE \in BOOLEAN
      BY <1>1 DEF KickConnect, IInv, ConnInv
    <2> QED
      BY <1>1, <2>1, PollConnectEnds DEF KickConnect
  <1>2. CASE KickQuery
    <2>1. /\ Line(head, count) /\ single_fallback_remaining \in Nat
          /\ FALSE \in BOOLEAN
      BY <1>2 DEF KickQuery, IInv, RingInv, TypeOK
    <2> QED
      BY <1>2, <2>1, StartQueryEnds DEF KickQuery
  <1> QED
    BY <1>1, <1>2

LEMMA KickKeepsIInv ==
    ASSUME IInv, WriterKickHandler PROVE IInv'
  <1>1. CASE KickIdle
    <2>1. /\ stopping \/ count = 0 \/ state \notin {"disconnected", "idle"}
          /\ kick' = FALSE
          /\ UNCHANGED <<ringVars, state, watch, active_batch_count,
                         single_fallback_remaining, stopping, exit_deadline,
                         processVars, serverVars, historyVars>>
      BY <1>1 DEF KickIdle
    <2> USE DEF ringVars, processVars, serverVars, historyVars
    <2>2. TypeOK'
      BY <2>1, Zenon DEF IInv, TypeOK
    <2>3. RingInv'
      BY <2>1 DEF IInv, RingInv, Line, SlotAt
    <2>4. ConnInv' /\ AnswerInv' /\ HistoryInv'
      BY <2>1 DEF IInv, ConnInv, AnswerInv, HistoryInv, Front, Stored
    <2>5. NoLostWakeup'
      <3>1. count = 0 => ~(count > 0)
        OBVIOUS
      <3>2. state \in {"disconnected", "idle", "connecting", "flushing", "waiting"}
        BY DEF IInv, TypeOK, WriterStates
      <3> QED
        BY <2>1, <3>1, <3>2 DEF IInv, ConnInv, NoLostWakeup
    <2> QED
      BY <2>2, <2>3, <2>4, <2>5 DEF IInv
  <1>2. CASE KickConnect \/ KickQuery
    <2>1. Ends(count) /\ active_batch_count' \in Nat
      BY <1>2, KickEnds
    <2> QED
      BY <1>2, <2>1, EndsInPlace
      DEF WriterKickHandler, KickConnect, KickQuery, WriterPollConnect
  <1> QED
    BY <1>1, <1>2 DEF WriterKickHandler

(* What the answer to the first n events of the line does.                 *)
Settles(n, w, d) ==
    /\ Ends(count - n) /\ Line(head', count - n)
    /\ acked' = acked \cup w /\ dropped' = dropped \cup d
    /\ w \cup d = Front(count, n)
    /\ w \subseteq Stored /\ d \subseteq refusedAlone

LEMMA FinishSettles ==
    ASSUME IInv, WriterFinishQuery
    PROVE  /\ alive /\ ~stopping /\ active_batch_count' \in Nat
           /\ single_fallback_remaining' \in Nat /\ suspects' \subseteq Events
           /\ \/ /\ active_batch_count \in 1..count
                 /\ Settles(active_batch_count,
                            Front(count, active_batch_count), {})
              \/ 1 \in 1..count /\ Settles(1, {}, Front(count, 1))
              \/ Settles(0, {}, {})
  <1> DEFINE n == active_batch_count
  <1>1. /\ alive /\ ~stopping /\ Line(head, count)
        /\ acked \cup dropped \cup lost = 1..(enqueued - count)
        /\ n \in 1..count /\ inflight = Front(count, n)
    BY DEF WriterFinishQuery, IInv, ConnInv, RingInv
  <1>2. /\ count \in 0..QueueCapacity /\ count <= enqueued
        /\ enqueued \in 0..MaxEvents
        /\ single_fallback_remaining \in Nat
        /\ inflight \subseteq Events /\ suspects \subseteq Events
    BY <1>1 DEF IInv, TypeOK, Line
  <1>3. /\ acked \subseteq Stored /\ dropped \subseteq refusedAlone
        /\ BatchEvents(head, n) = inflight
        /\ Line(SlotAt(head, n), count - n)
    <2>1. n \in 0..count
      BY <1>1, <1>2, WriterAssumption
    <2> QED
      BY <1>1, <1>2, <2>1, BatchIsFront, LineAdvances, WriterAssumption
      DEF IInv, HistoryInv
  <1>6. CASE FinishOk
    <2> DEFINE s == IF single_fallback_remaining > 0
                    THEN single_fallback_remaining - 1 ELSE 0
    <2>1. (IF n < count THEN n ELSE count) = n
      BY <1>1, <1>2, WriterAssumption
    <2>2. /\ reply = "ok"
          /\ head' = SlotAt(head, n)
          /\ acked' = acked \cup BatchEvents(head, n)
          /\ single_fallback_remaining' = s
          /\ dropped' = dropped /\ suspects' = suspects
          /\ WriterProceed(SlotAt(head, n), count - n, s)
      BY <1>6, <2>1 DEF FinishOk
    <2>3. s \in Nat
      BY <1>2
    <2> HIDE DEF s
    <2>4. Ends(count - n) /\ active_batch_count' \in Nat
      BY <1>1, <1>3, <2>2, <2>3, ProceedEnds
    <2>5. Settles(n, inflight, {})
      BY <1>1, <1>3, <2>2, <2>4 DEF IInv, AnswerInv, Settles
    <2> QED
      BY <1>1, <1>2, <2>2, <2>3, <2>4, <2>5
  <1>7. CASE FinishBatchError
    <2>1. /\ head' = head /\ acked' = acked /\ dropped' = dropped
          /\ single_fallback_remaining' = n
          /\ suspects' = suspects \cup inflight
          /\ WriterProceed(head, count, n)
      BY <1>7 DEF FinishBatchError
    <2>2. n \in Nat
      BY <1>1, <1>2, WriterAssumption
    <2>3. suspects' \subseteq Events
      BY <1>2, <2>1
    <2>4. Ends(count) /\ active_batch_count' \in Nat
      BY <1>1, <2>1, <2>2, ProceedEnds
    <2>5. count - 0 = count /\ Front(count, 0) = {}
      BY <1>1, <1>2, WriterAssumption DEF Front
    <2>6. Settles(0, {}, {})
      BY <1>1, <2>1, <2>4, <2>5 DEF Settles
    <2> QED
      BY <1>1, <2>1, <2>2, <2>3, <2>4, <2>6
  <1>8. CASE FinishSingleError
    <2> DEFINE s == IF single_fallback_remaining > 0
                    THEN single_fallback_remaining - 1 ELSE 0
    <2>1. /\ reply = "error" /\ active_batch_count <= 1
          /\ head' = SlotAt(head, 1)
          /\ dropped' = dropped \cup {queue[head]}
          /\ single_fallback_remaining' = s
          /\ acked' = acked /\ suspects' = suspects
          /\ WriterProceed(SlotAt(head, 1), count - 1, s)
      BY <1>8 DEF FinishSingleError, SlotAt
    <2>2. n = 1 /\ s \in Nat
      BY <1>1, <1>2, <2>1, WriterAssumption
    <2> HIDE DEF s
    <2>3. {queue[head]} = inflight
      <3>1. SlotAt(head, 0) = head
        BY <1>1, SlotAtValue, WriterAssumption DEF Line, Slots
      <3>2. 0 \in 0..(count - 1)
        BY <1>1, <1>2, <2>2, WriterAssumption
      <3>3. queue[head] = enqueued - count + 0 + 1
        BY <1>1, <3>1, <3>2 DEF Line
      <3> QED
        BY <1>1, <1>2, <2>2, <3>3, WriterAssumption DEF Front
    <2>4. Ends(count - 1) /\ active_batch_count' \in Nat
      BY <1>1, <1>3, <2>1, <2>2, ProceedEnds
    <2>5. inflight \subseteq refusedAlone
      BY <2>1, <2>2 DEF IInv, AnswerInv
    <2>6. Settles(1, {}, inflight)
      BY <1>1, <1>3, <2>1, <2>2, <2>3, <2>4, <2>5 DEF Settles
    <2> QED
      BY <1>1, <1>2, <2>1, <2>2, <2>4, <2>6
  <1> QED
    BY <1>6, <1>7, <1>8 DEF WriterFinishQuery

LEMMA SettlesFront ==
    ASSUME IInv, ~stopping, NEW n \in 0..count, NEW w, NEW d,
           Settles(n, w, d)
    PROVE  /\ acked \subseteq acked' /\ dropped \subseteq dropped'
           /\ acked' \cup dropped' \cup lost = 1..(enqueued - (count - n))
  <1>1. /\ count \in Nat /\ enqueued \in Nat /\ count <= enqueued
        /\ acked \cup dropped \cup lost = 1..(enqueued - count)
    BY WriterAssumption DEF IInv, TypeOK, RingInv
  <1>2. acked' \cup dropped' \cup lost =
            (acked \cup dropped \cup lost) \cup Front(count, n)
    BY DEF Settles
  <1>3. (1..(enqueued - count)) \cup Front(count, n) =
            1..(enqueued - (count - n))
    BY <1>1 DEF Front
  <1> QED
    BY <1>1, <1>2, <1>3 DEF Settles

LEMMA FinishKeepsIInv ==
    ASSUME IInv, WriterFinishQuery PROVE IInv'
  <1>1. /\ alive /\ ~stopping /\ active_batch_count' \in Nat
        /\ single_fallback_remaining' \in Nat /\ suspects' \subseteq Events
    BY FinishSettles
  <1>2. PICK n \in 0..count : \E w, d : Settles(n, w, d)
    <2>1. /\ 1..count \subseteq 0..count /\ 0 \in 0..count
      BY WriterAssumption DEF IInv, TypeOK
    <2> QED
      BY <2>1, FinishSettles
  <1> PICK w, d : Settles(n, w, d)
    BY <1>2
  <1>3. /\ acked \subseteq acked' /\ dropped \subseteq dropped'
        /\ acked' \cup dropped' \cup lost = 1..(enqueued - (count - n))
    BY <1>1, SettlesFront
  <1>4. acked' \subseteq Stored /\ dropped' \subseteq refusedAlone
    BY DEF Settles, IInv, HistoryInv
  <1>5. UNCHANGED <<queue, tail, processVars, rows, enqueued, refusedAlone>>
    BY DEF WriterFinishQuery
  <1> QED
    BY <1>1, <1>2, <1>3, <1>4, <1>5, EndsKeepsIInv DEF Settles

LEMMA SocketEnds ==
    ASSUME IInv, alive, watch,
           SocketConnecting \/ SocketFlushing \/ SocketFailure
    PROVE  Ends(count) /\ active_batch_count' \in Nat
  <1>1. /\ ~stopping /\ kick \in BOOLEAN
        /\ Line(head, count) /\ count \in 0..QueueCapacity
        /\ active_batch_count \in Nat
        /\ inflight \subseteq Events
    BY DEF IInv, ConnInv, RingInv, TypeOK
  <1>2. CASE SocketConnecting
    <2>1. count > 0 /\ reply = "none" /\ inflight = {}
      BY <1>2 DEF SocketConnecting, IInv, ConnInv
    <2> QED
      BY <1>1, <1>2, <2>1, PollConnectEnds DEF SocketConnecting
  <1>3. CASE SocketFlushing
    <2> active_batch_count' = active_batch_count
      BY <1>3 DEF SocketFlushing
    <2>1. CASE WriterRetry(kick, count, {})
      <3>1. {} \subseteq SUBSET (1..enqueued)
        OBVIOUS
      <3> QED
        BY <1>1, <2>1, <3>1, RetryEnds, Zenon
    <2>2. CASE WriterRetry(kick, count, {inflight})
      <3>1. {inflight} \subseteq SUBSET (1..enqueued)
        BY InflightAccepted
      <3> QED
        BY <1>1, <2>2, <3>1, RetryEnds, Zenon
    <2>3. CASE /\ state' = "waiting"
               /\ watch' = TRUE
               /\ UNCHANGED <<count, kick, stopping, exit_deadline,
                              inflight, reply, orphans, lost>>
      <3>1. /\ active_batch_count \in 1..count /\ reply = "none"
            /\ inflight = Front(count, active_batch_count)
        BY <1>3 DEF SocketFlushing, IInv, ConnInv
      <3>2. Sends(count)
        BY <2>3, <3>1 DEF Sends
      <3>3. /\ stopping \in BOOLEAN /\ orphans \subseteq SUBSET (1..enqueued)
            /\ exit_deadline \in {"unset", "running", "expired"}
        BY DEF IInv, TypeOK, HistoryInv
      <3> QED
        BY <1>1, <2>3, <3>2, <3>3, Zenon DEF Ends
    <2> QED
      BY <1>1, <1>3, <2>1, <2>2, <2>3 DEF SocketFlushing
  <1>4. CASE SocketFailure
    <2>1. Orphaned \subseteq SUBSET (1..enqueued)
      BY InflightAccepted DEF Orphaned
    <2> QED
      BY <1>1, <1>4, <2>1, RetryEnds DEF SocketFailure
  <1> QED
    BY <1>2, <1>3, <1>4

LEMMA SocketKeepsIInv ==
    ASSUME IInv, WriterSocketHandler PROVE IInv'
  <1>1. CASE SocketConnecting \/ SocketFlushing \/ SocketFailure
    <2>1. /\ alive /\ ~stopping
          /\ Ends(count) /\ active_batch_count' \in Nat
      BY <1>1, SocketEnds DEF WriterSocketHandler, IInv, ConnInv
    <2>2. UNCHANGED <<queue, head, tail, single_fallback_remaining,
                      processVars, rows, enqueued, acked, dropped,
                      refusedAlone, suspects>>
      BY <1>1 DEF SocketConnecting, SocketFlushing, SocketFailure,
                  WriterPollConnect
    <2> QED
      BY <2>1, <2>2, EndsInPlace
  <1>2. CASE WriterFinishQuery
    BY <1>2, FinishKeepsIInv
  <1> QED
    BY <1>1, <1>2 DEF WriterSocketHandler

LEMMA GoneKeepsIInv ==
    ASSUME IInv, ProcessGone PROVE IInv'
  <1>1. /\ enqueued \in 0..MaxEvents
        /\ acked \cup dropped \cup lost \subseteq 1..enqueued
        /\ active_batch_count \in Nat /\ inflight \subseteq Events
    BY WriterAssumption DEF IInv, TypeOK, RingInv
  <1>2. orphans' \subseteq SUBSET (1..enqueued)
    BY InflightAccepted
    DEF ProcessGone, OrphansWith, Orphaned, IInv, HistoryInv
  <1>3. /\ acked' \cup dropped' \cup lost' = 1..enqueued'
        /\ lost' \subseteq Events /\ enqueued' - count' = enqueued'
    BY <1>1, WriterAssumption DEF ProcessGone, Unsettled, Events
  <1>4. /\ queue' \in [Slots -> 0..MaxEvents]
        /\ head' \in Slots /\ tail' \in Slots /\ count' \in 0..QueueCapacity
        /\ active_batch_count' \in Nat /\ single_fallback_remaining' \in Nat
    BY WriterAssumption DEF ProcessGone, Slots
  <1>5. TypeOK'
    BY <1>2, <1>3, <1>4 DEF ProcessGone, IInv, TypeOK, WriterStates
  <1>6. RingInv'
    <2>1. SlotAt(0, 0) = 0
      BY SlotAtValue, WriterAssumption DEF Slots
    <2>2. 0 <= enqueued
      BY <1>1, WriterAssumption
    <2> QED
      BY <1>3, <1>4, <2>1, <2>2 DEF ProcessGone, RingInv, Line, SlotAt
  <1>7. ConnInv' /\ AnswerInv'
    BY Zenon DEF ProcessGone, ConnInv, AnswerInv
  <1>8. HistoryInv'
    BY <1>2 DEF ProcessGone, IInv, HistoryInv, Stored
  <1>9. NoLostWakeup'
    BY DEF ProcessGone, NoLostWakeup
  <1> QED
    BY <1>5, <1>6, <1>7, <1>8, <1>9 DEF IInv

LEMMA ProcessKeepsIInv ==
    ASSUME IInv,
           BeginGracefulExit \/ DeadlineExpires \/ WriterInitProcess
    PROVE  IInv'
  <1>1. /\ UNCHANGED <<ringVars, state, kick, watch, active_batch_count,
                       single_fallback_remaining, stopping, serverVars,
                       historyVars>>
        /\ exit_deadline' \in {"unset", "running", "expired"}
        /\ exiting' \in BOOLEAN /\ alive' \in BOOLEAN
    BY DEF BeginGracefulExit, DeadlineExpires, WriterInitProcess, writerVars,
           processVars, IInv, TypeOK
  <1> USE DEF ringVars, serverVars, historyVars
  <1>2. TypeOK'
    BY <1>1, Zenon DEF IInv, TypeOK
  <1>3. RingInv'
    BY <1>1 DEF IInv, RingInv, Line, SlotAt
  <1>4. ~alive => count = 0 /\ ~(count > 0) /\ state = "disconnected"
    BY DEF IInv, ConnInv
  <1>5. alive' # alive => ~alive
    BY DEF BeginGracefulExit, DeadlineExpires, WriterInitProcess, processVars
  <1>6. ConnInv'
    <2>1. exit_deadline = "expired" => exit_deadline' = exit_deadline
      BY DEF BeginGracefulExit, DeadlineExpires, WriterInitProcess, writerVars
    <2> QED
      BY <1>1, <1>4, <1>5, <2>1 DEF IInv, ConnInv, Front
  <1>7. AnswerInv' /\ HistoryInv'
    BY <1>1 DEF IInv, AnswerInv, HistoryInv, Stored
  <1>8. NoLostWakeup'
    BY <1>1, <1>4, <1>5, Zenon DEF IInv, NoLostWakeup
  <1> QED
    BY <1>2, <1>3, <1>6, <1>7, <1>8 DEF IInv

LEMMA ServerKeepsIInv ==
    ASSUME IInv, ServerCommit \/ ServerRefuse \/ OrphanDecided PROVE IInv'
  <1>1. /\ UNCHANGED <<ringVars, writerVars, processVars, inflight, enqueued,
                       acked, dropped, lost, suspects>>
    BY DEF ServerCommit, ServerRefuse, OrphanDecided, historyVars
  <1>2. /\ rows \in [Events -> Nat] /\ inflight \subseteq Events
        /\ refusedAlone \subseteq Events /\ orphans \subseteq SUBSET Events
        /\ reply \in {"none", "ok", "error"}
    BY DEF IInv, TypeOK
  <1>3. ASSUME NEW batch
        PROVE  /\ Inserted(batch) \in [Events -> Nat]
               /\ Stored \subseteq {e \in Events : Inserted(batch)[e] > 0}
               /\ batch \subseteq Events =>
                     batch \subseteq {e \in Events : Inserted(batch)[e] > 0}
    BY <1>2 DEF Inserted, Stored
  <1>4. /\ rows' \in [Events -> Nat]
        /\ Stored \subseteq Stored'
        /\ reply' \in {"none", "ok", "error"}
        /\ refusedAlone' \subseteq Events /\ refusedAlone \subseteq refusedAlone'
        /\ orphans' \subseteq SUBSET Events
    <2>1. CASE ServerCommit
      BY <1>2, <1>3, <2>1 DEF ServerCommit, Stored, historyVars
    <2>2. CASE ServerRefuse
      BY <1>2, <2>2 DEF ServerRefuse, Stored
    <2>3. CASE OrphanDecided
      BY <1>2, <1>3, <2>3 DEF OrphanDecided, Stored, historyVars
    <2> QED
      BY <2>1, <2>2, <2>3
  <1> USE DEF ringVars, writerVars, processVars
  <1>5. TypeOK'
    BY <1>1, <1>4, Zenon DEF IInv, TypeOK
  <1>6. RingInv'
    BY <1>1 DEF IInv, RingInv, Line, SlotAt
  <1>7. ConnInv'
    <2>1. reply' # reply => state = "waiting"
      BY DEF ServerCommit, ServerRefuse, OrphanDecided
    <2> QED
      BY <1>1, <2>1 DEF IInv, ConnInv, Front
  <1>8. AnswerInv'
    <2>1. reply' = "ok" => inflight \subseteq Stored'
      <3>1. CASE ServerCommit
        BY <1>2, <1>3, <3>1 DEF ServerCommit, Stored
      <3>2. CASE ServerRefuse \/ OrphanDecided
        BY <1>4, <3>2 DEF IInv, AnswerInv, ServerRefuse, OrphanDecided
      <3> QED
        BY <3>1, <3>2
    <2>2. ASSUME reply' = "error", active_batch_count = 1
          PROVE  inflight \subseteq refusedAlone'
      <3>1. CASE ServerRefuse
        <4>1. inflight = Front(count, 1) /\ count \in Nat /\ enqueued \in Nat
          BY <2>2, <3>1 DEF ServerRefuse, IInv, ConnInv, TypeOK
        <4>2. inflight = {enqueued - count + 1}
          BY <4>1 DEF Front
        <4>3. Cardinality(inflight) = 1
          BY <4>2, FS_Singleton
        <4> QED
          BY <3>1, <4>3 DEF ServerRefuse
      <3>2. CASE ServerCommit \/ OrphanDecided
        BY <1>4, <2>2, <3>2 DEF IInv, AnswerInv, ServerCommit, OrphanDecided
      <3> QED
        BY <3>1, <3>2
    <2> QED
      BY <1>1, <2>1, <2>2 DEF AnswerInv
  <1>9. HistoryInv'
    <2>1. orphans' \subseteq orphans
      BY DEF ServerCommit, ServerRefuse, OrphanDecided
    <2> QED
      BY <1>1, <1>4, <2>1 DEF IInv, HistoryInv
  <1>10. NoLostWakeup'
    BY <1>1, Zenon DEF IInv, NoLostWakeup
  <1> QED
    BY <1>5, <1>6, <1>7, <1>8, <1>9, <1>10 DEF IInv

LEMMA StutterKeepsIInv ==
    ASSUME IInv, UNCHANGED vars PROVE IInv'
  <1> USE DEF vars, ringVars, writerVars, processVars, serverVars, historyVars
  <1>1. TypeOK'
    BY Zenon DEF IInv, TypeOK
  <1>2. RingInv'
    BY DEF IInv, RingInv, Line, SlotAt
  <1>3. ConnInv' /\ AnswerInv' /\ HistoryInv' /\ NoLostWakeup'
    BY DEF IInv, ConnInv, AnswerInv, HistoryInv, NoLostWakeup, Front, Stored
  <1> QED
    BY <1>1, <1>2, <1>3 DEF IInv

LEMMA NextKeepsIInv == IInv /\ [Next]_vars => IInv'
  <1> SUFFICES ASSUME IInv, [Next]_vars PROVE IInv'
    OBVIOUS
  <1>1. CASE WriterEnqueue
    BY <1>1, EnqueueKeepsIInv
  <1>2. CASE WriterKickHandler
    BY <1>2, KickKeepsIInv
  <1>3. CASE WriterSocketHandler
    BY <1>3, SocketKeepsIInv
  <1>4. CASE BeginGracefulExit \/ DeadlineExpires \/ WriterInitProcess
    BY <1>4, ProcessKeepsIInv
  <1>5. CASE GracefulExit \/ Killed
    BY <1>5, GoneKeepsIInv DEF GracefulExit, Killed
  <1>6. CASE ServerCommit \/ ServerRefuse \/ OrphanDecided
    BY <1>6, ServerKeepsIInv
  <1>7. CASE UNCHANGED vars
    BY <1>7, StutterKeepsIInv
  <1> QED
    BY <1>1, <1>2, <1>3, <1>4, <1>5, <1>6, <1>7 DEF Next

-----------------------------------------------------------------------------
(* The isolation of a refused batch                                        *)

\* The events of refused batches that are still in line are its front, as
\* many as single_fallback_remaining says; as long as there are any, an
\* INSERT is of one event.
SuspectInv ==
    /\ suspects \subseteq 1..enqueued
    /\ ~stopping => \A e \in suspects :
                        e <= enqueued - count + single_fallback_remaining
    /\ state \in {"flushing", "waiting"} /\ single_fallback_remaining > 0 =>
          active_batch_count = 1

\* A callback that accepts nothing and leaves c events in line keeps it, if
\* what it sends is one event while the isolation goes on.
LEMMA EndsKeepsSuspects ==
    ASSUME IInv, SuspectInv, NEW c, Ends(c), enqueued' = enqueued,
           suspects' \subseteq 1..enqueued,
           \A e \in suspects' : e <= enqueued - c + single_fallback_remaining',
           state' \in {"flushing", "waiting"} /\ single_fallback_remaining' > 0
               => active_batch_count' = 1
    PROVE  SuspectInv'
  <1>1. ~stopping' => count' = c
    BY DEF Ends, GivesUp
  <1> QED
    BY <1>1 DEF SuspectInv

LEMMA PollConnectSuspects ==
    ASSUME IInv, SuspectInv, ~stopping, count > 0, reply = "none",
           inflight = {}, NEW k \in BOOLEAN, WriterPollConnect(k)
    PROVE  SuspectInv'
  <1>1. Ends(count)
    BY PollConnectEnds
  <1>2. UNCHANGED <<enqueued, suspects, single_fallback_remaining>>
    BY DEF WriterPollConnect
  <1>3. state' \in {"flushing", "waiting"} /\ single_fallback_remaining > 0 =>
            active_batch_count' = 1
    BY DEF WriterPollConnect, WriterRetry, WriterStartQuery
  <1> QED
    BY <1>1, <1>2, <1>3, EndsKeepsSuspects DEF SuspectInv

LEMMA KickSuspects ==
    ASSUME IInv, SuspectInv, WriterKickHandler PROVE SuspectInv'
  <1>1. CASE KickIdle
    BY <1>1 DEF KickIdle, SuspectInv, ringVars, historyVars
  <1>2. CASE KickConnect
    <2>1. reply = "none" /\ inflight = {} /\ FALSE \in BOOLEAN
      BY <1>2 DEF KickConnect, IInv, ConnInv
    <2> QED
      BY <1>2, <2>1, PollConnectSuspects DEF KickConnect
  <1>3. CASE KickQuery
    <2>1. /\ Line(head, count) /\ single_fallback_remaining \in Nat
          /\ FALSE \in BOOLEAN
      BY <1>3 DEF KickQuery, IInv, RingInv, TypeOK
    <2>2. Ends(count)
      BY <1>3, <2>1, StartQueryEnds DEF KickQuery
    <2>3. UNCHANGED <<enqueued, suspects, single_fallback_remaining>>
      BY <1>3 DEF KickQuery
    <2>4. single_fallback_remaining > 0 => active_batch_count' = 1
      BY <1>3 DEF KickQuery, WriterStartQuery
    <2> QED
      BY <1>3, <2>2, <2>3, <2>4, EndsKeepsSuspects DEF KickQuery, SuspectInv
  <1> QED
    BY <1>1, <1>2, <1>3 DEF WriterKickHandler

LEMMA FinishSuspects ==
    ASSUME IInv, SuspectInv, WriterFinishQuery PROVE SuspectInv'
  <1> DEFINE n == active_batch_count
             left == single_fallback_remaining
  <1>1. /\ ~stopping /\ Line(head, count)
        /\ n \in 1..count /\ inflight = Front(count, n)
        /\ left > 0 => n = 1
    BY DEF WriterFinishQuery, IInv, ConnInv, RingInv, SuspectInv
  <1>2. /\ count \in 0..QueueCapacity /\ count <= enqueued
        /\ enqueued \in Nat /\ left \in Nat /\ n \in Nat /\ n > 0
        /\ QueueCapacity \in Nat
    BY <1>1, WriterAssumption DEF IInv, TypeOK, Line
  <1>3. /\ suspects \subseteq 1..enqueued
        /\ \A e \in suspects : e <= enqueued - count + left
    BY <1>1 DEF SuspectInv
  <1>4. enqueued' = enqueued
    BY DEF WriterFinishQuery
  <1>5. \A h, c, s : WriterProceed(h, c, s) =>
            (state' \in {"flushing", "waiting"} /\ s > 0 =>
                active_batch_count' = 1)
    BY DEF WriterProceed, WriterStartQuery
  <1> DEFINE rest == IF left > 0 THEN left - 1 ELSE 0
  <1>6. rest \in Nat
    BY <1>2
  <1>7. \A e \in suspects : e <= enqueued - (count - n) + rest
    BY <1>1, <1>2, <1>3
  <1>8. CASE FinishOk
    <2>1. (IF n < count THEN n ELSE count) = n
      BY <1>1, <1>2
    <2>2. /\ left' = rest /\ suspects' = suspects
          /\ WriterProceed(SlotAt(head, n), count - n, rest)
      BY <1>8, <2>1 DEF FinishOk
    <2>3. n \in 0..count
      BY <1>1, <1>2
    <2>4. Line(SlotAt(head, n), count - n)
      BY <1>1, <1>2, <2>3, LineAdvances
    <2>5. Ends(count - n)
      BY <1>1, <1>6, <2>2, <2>4, ProceedEnds
    <2>6. state' \in {"flushing", "waiting"} /\ rest > 0 =>
              active_batch_count' = 1
      BY <1>5, <2>2
    <2> HIDE DEF rest, n
    <2> QED
      BY <1>3, <1>4, <1>7, <2>2, <2>5, <2>6, EndsKeepsSuspects
  <1>9. CASE FinishBatchError
    <2>1. /\ n > 1 /\ left' = n /\ suspects' = suspects \cup inflight
          /\ WriterProceed(head, count, n)
      BY <1>9 DEF FinishBatchError
    <2>2. Ends(count)
      BY <1>1, <1>2, <2>1, ProceedEnds
    <2>3. left = 0
      BY <1>1, <1>2, <2>1
    <2>4. /\ suspects' \subseteq 1..enqueued
          /\ \A e \in suspects' : e <= enqueued - count + n
      BY <1>1, <1>2, <1>3, <2>1, <2>3 DEF Front
    <2>5. state' \in {"flushing", "waiting"} /\ n > 0 =>
              active_batch_count' = 1
      BY <1>5, <2>1
    <2> HIDE DEF n
    <2> QED
      BY <1>4, <2>1, <2>2, <2>4, <2>5, EndsKeepsSuspects
  <1>10. CASE FinishSingleError
    <2>1. /\ n <= 1 /\ left' = rest /\ suspects' = suspects
          /\ WriterProceed(SlotAt(head, 1), count - 1, rest)
      BY <1>10 DEF FinishSingleError, SlotAt
    <2>2. n = 1 /\ n \in 0..count
      BY <1>1, <1>2, <2>1
    <2>3. Line(SlotAt(head, n), count - n)
      BY <1>1, <1>2, <2>2, LineAdvances
    <2>4. Ends(count - 1)
      BY <1>1, <1>6, <2>1, <2>2, <2>3, ProceedEnds
    <2>5. state' \in {"flushing", "waiting"} /\ rest > 0 =>
              active_batch_count' = 1
      BY <1>5, <2>1
    <2> HIDE DEF rest, n
    <2> QED
      BY <1>3, <1>4, <1>7, <2>1, <2>2, <2>4, <2>5, EndsKeepsSuspects
  <1> QED
    BY <1>8, <1>9, <1>10 DEF WriterFinishQuery

LEMMA SocketSuspects ==
    ASSUME IInv, SuspectInv, WriterSocketHandler PROVE SuspectInv'
  <1>1. /\ ~stopping /\ kick \in BOOLEAN /\ count \in 0..QueueCapacity
        /\ inflight \subseteq Events
    BY DEF WriterSocketHandler, IInv, ConnInv, TypeOK
  <1>2. CASE SocketConnecting
    <2>1. count > 0 /\ reply = "none" /\ inflight = {}
      BY <1>2 DEF SocketConnecting, IInv, ConnInv
    <2> QED
      BY <1>1, <1>2, <2>1, PollConnectSuspects DEF SocketConnecting
  <1>3. CASE SocketFlushing
    <2>1. UNCHANGED <<enqueued, suspects, single_fallback_remaining,
                      active_batch_count>> /\ state = "flushing"
      BY <1>3 DEF SocketFlushing
    <2>2. CASE WriterRetry(kick, count, {}) \/ WriterRetry(kick, count, {inflight})
      <3>1. {} \subseteq SUBSET (1..enqueued) /\ {inflight} \subseteq SUBSET (1..enqueued)
        BY InflightAccepted
      <3>2. Ends(count)
        BY <1>1, <2>2, <3>1, RetryEnds, Zenon
      <3> QED
        BY <1>1, <2>1, <3>2, EndsKeepsSuspects DEF SuspectInv
    <2>3. CASE UNCHANGED <<count, stopping>>
      BY <2>1, <2>3 DEF SuspectInv
    <2> QED
      BY <1>3, <2>2, <2>3 DEF SocketFlushing
  <1>4. CASE WriterFinishQuery
    BY <1>4, FinishSuspects
  <1>5. CASE SocketFailure
    <2>1. /\ UNCHANGED <<enqueued, suspects, single_fallback_remaining>>
          /\ state' = "disconnected" /\ WriterRetry(kick, count, Orphaned)
      BY <1>5 DEF SocketFailure, WriterRetry
    <2>2. Orphaned \subseteq SUBSET (1..enqueued)
      BY InflightAccepted DEF Orphaned
    <2>3. Ends(count)
      BY <1>1, <2>1, <2>2, RetryEnds, Zenon
    <2> QED
      BY <1>1, <2>1, <2>3, EndsKeepsSuspects DEF SuspectInv
  <1> QED
    BY <1>2, <1>3, <1>4, <1>5 DEF WriterSocketHandler

LEMMA NextKeepsSuspects ==
    ASSUME IInv, SuspectInv, [Next]_vars PROVE SuspectInv'
  <1>1. CASE WriterEnqueue
    <2>1. /\ enqueued' = enqueued + 1 /\ count' = count + 1
          /\ UNCHANGED <<state, active_batch_count, single_fallback_remaining,
                         stopping, suspects>>
      BY <1>1 DEF WriterEnqueue, EnqueueAccept
    <2>2. enqueued \in Nat /\ count \in Nat
      BY WriterAssumption DEF IInv, TypeOK
    <2>3. enqueued' - count' = enqueued - count /\ 1..enqueued \subseteq 1..enqueued'
      BY <2>1, <2>2
    <2> QED
      BY <2>1, <2>3 DEF SuspectInv
  <1>2. CASE WriterKickHandler
    BY <1>2, KickSuspects
  <1>3. CASE WriterSocketHandler
    BY <1>3, SocketSuspects
  <1>4. CASE GracefulExit \/ Killed
    <2>1. /\ enqueued' = enqueued /\ suspects' = suspects /\ count' = 0
          /\ single_fallback_remaining' = 0 /\ state' = "disconnected"
      BY <1>4 DEF GracefulExit, Killed, ProcessGone
    <2>2. enqueued \in Nat
      BY WriterAssumption DEF IInv, TypeOK
    <2> QED
      BY <2>1, <2>2 DEF SuspectInv
  <1>5. CASE UNCHANGED <<enqueued, suspects, count, single_fallback_remaining,
                         state, active_batch_count, stopping>>
    BY <1>5 DEF SuspectInv
  <1> QED
    BY <1>1, <1>2, <1>3, <1>4, <1>5
    DEF Next, BeginGracefulExit, DeadlineExpires, WriterInitProcess,
        ServerCommit, ServerRefuse, OrphanDecided, vars, ringVars, writerVars,
        historyVars

-----------------------------------------------------------------------------
(* The theorems                                                            *)

(* IInv holds for ever.                                                    *)
THEOREM Invariant == Spec => []IInv
  BY InitIInv, NextKeepsIInv, PTL DEF Spec

(* The variables keep their types: in particular the ring indices stay in  *)
(* the ring and count never exceeds PG_QUEUE_CAPACITY.                     *)
THEOREM TypeCorrect == Spec => []TypeOK
  <1>1. IInv => TypeOK
    BY DEF IInv
  <1> QED
    BY <1>1, Invariant, PTL

(* The ring is the line of undecided events in the order of acceptance,    *)
(* for every capacity and batch limit, across wrap-around, partial         *)
(* batches, refusals, reconnects and restarts (writerEnqueue,              *)
(* writerFinishQuery).                                                     *)
THEOREM RingIsFifoAlways == Spec => []RingIsFifo
  <1>1. IInv => RingIsFifo
    <2> SUFFICES ASSUME IInv, ~stopping PROVE RingIsFifo
      BY DEF RingIsFifo
    <2>1. /\ Line(head, count)
          /\ acked \cup dropped \cup lost = 1..(enqueued - count)
          /\ enqueued \in Nat
      BY DEF IInv, RingInv, TypeOK
    <2>2. Unsettled = (enqueued - count + 1)..enqueued
      BY <2>1 DEF Unsettled, Line
    <2> QED
      BY <2>1, <2>2 DEF RingIsFifo, Line
  <1> QED
    BY <1>1, Invariant, PTL

(* Whatever writerFinishQuery pops as written is in the table, however     *)
(* often its INSERT was interrupted, resent or batched anew, and whatever  *)
(* was appended behind it in the meantime.                                 *)
THEOREM AckedIsStoredAlways == Spec => []AckedIsStored
  <1>1. IInv => AckedIsStored
    BY DEF IInv, HistoryInv, AckedIsStored
  <1> QED
    BY <1>1, Invariant, PTL

(* writerFinishQuery drops an event only if the server refused a statement *)
(* that held this event alone.                                             *)
THEOREM DroppedWasRefusedAloneAlways == Spec => []DroppedWasRefusedAlone
  <1>1. IInv => DroppedWasRefusedAlone
    BY DEF IInv, HistoryInv, DroppedWasRefusedAlone
  <1> QED
    BY <1>1, Invariant, PTL

(* As long as events are queued, a timer or a watched socket will call the *)
(* writer again, although writerEnqueue's wake-up does nothing while the   *)
(* writer is busy.                                                         *)
THEOREM NoLostWakeupAlways == Spec => []NoLostWakeup
  <1>1. IInv => NoLostWakeup
    BY DEF IInv
  <1> QED
    BY <1>1, Invariant, PTL

(* A worker that ends gracefully with undecided events has waited for the  *)
(* drain deadline (writerRetry, writerExitProcess): without an expired     *)
(* deadline a timer or a watched socket would have kept it alive.          *)
THEOREM GracefulExitTheorem == Spec => GracefulExitLosesOnlyAfterDeadline
  <1>1. IInv /\ [Next]_vars =>
            [GracefulExit /\ Unsettled # {} => exit_deadline = "expired"]_vars
    <2> SUFFICES ASSUME IInv, GracefulExit, Unsettled # {}
                 PROVE  exit_deadline = "expired"
      OBVIOUS
    <2>1. CASE stopping
      BY <2>1 DEF IInv, ConnInv
    <2>2. CASE ~stopping
      <3>1. ~(count > 0)
        BY <2>2, Zenon DEF GracefulExit, IInv, NoLostWakeup
      <3>2. count = 0 /\ enqueued \in Nat
        BY <3>1 DEF IInv, TypeOK
      <3>3. acked \cup dropped \cup lost = 1..enqueued
        BY <2>2, <3>2 DEF IInv, RingInv
      <3> QED
        BY <3>3 DEF Unsettled
    <2> QED
      BY <2>1, <2>2
  <1> QED
    BY <1>1, Invariant, PTL DEF Spec, GracefulExitLosesOnlyAfterDeadline

\* With the numbers of rows, the whole invariant of the next two theorems.
RowsInv == rows \in [Events -> Nat] /\ AtMostOneRow

LEMMA NextKeepsRows ==
    ASSUME RowsInv, [Next]_vars PROVE RowsInv'
  <1>1. ASSUME NEW batch, rows' = Inserted(batch) PROVE RowsInv'
    BY <1>1 DEF RowsInv, AtMostOneRow, Inserted
  <1>2. rows' = rows \/ \E batch : rows' = Inserted(batch)
    BY DEF Next, WriterEnqueue, WriterKickHandler, KickIdle, KickConnect,
       KickQuery, WriterPollConnect, WriterSocketHandler, SocketConnecting,
       SocketFlushing, WriterFinishQuery, SocketFailure, BeginGracefulExit,
       DeadlineExpires, GracefulExit, Killed, ProcessGone, WriterInitProcess,
       ServerCommit, ServerRefuse, OrphanDecided, vars, serverVars
  <1>3. CASE rows' = rows
    BY <1>3 DEF RowsInv, AtMostOneRow
  <1> QED
    BY <1>1, <1>2, <1>3

(* No event is stored twice (ON CONFLICT DO NOTHING): for every number of  *)
(* retries and of INSERTs that abandoned backends commit late.             *)
THEOREM AtMostOneRowAlways == Spec => []AtMostOneRow
  <1>1. Init => RowsInv
    BY DEF Init, RowsInv, AtMostOneRow
  <1>2. RowsInv /\ [Next]_vars => RowsInv'
    BY NextKeepsRows
  <1>3. RowsInv => AtMostOneRow
    BY DEF RowsInv
  <1> QED
    BY <1>1, <1>2, <1>3, PTL DEF Spec

(* None of the events of a refused batch shares a statement with another   *)
(* event until all of them are decided (single_fallback_remaining in       *)
(* writerStartQuery and writerFinishQuery), across reconnects, and whatever*)
(* is appended behind them.                                                *)
THEOREM SuspectsGoAloneAlways == Spec => []SuspectsGoAlone
  <1>1. Init => SuspectInv
    BY DEF Init, SuspectInv
  <1>2. IInv /\ SuspectInv /\ [Next]_vars => SuspectInv'
    BY NextKeepsSuspects
  <1>3. IInv /\ SuspectInv => SuspectsGoAlone
    <2> SUFFICES ASSUME IInv, SuspectInv, Cardinality(inflight) > 1,
                        NEW e \in inflight, e \in suspects
                 PROVE  FALSE
      BY DEF SuspectsGoAlone
    <2>1. /\ state \in {"flushing", "waiting"} /\ ~stopping
          /\ active_batch_count \in 1..count
          /\ inflight = Front(count, active_batch_count)
      BY DEF IInv, ConnInv
    <2>2. /\ enqueued \in Nat /\ count \in Nat /\ QueueCapacity \in Nat
          /\ single_fallback_remaining \in Nat
      BY WriterAssumption DEF IInv, TypeOK
    <2>3. active_batch_count # 1
      <3>1. ASSUME active_batch_count = 1 PROVE Cardinality(inflight) = 1
        <4>1. inflight = {enqueued - count + 1}
          BY <2>1, <2>2, <3>1 DEF Front
        <4> QED
          BY <4>1, FS_Singleton
      <3>2. ~(1 > 1)
        OBVIOUS
      <3> QED
        BY <3>1, <3>2
    <2>4. single_fallback_remaining = 0
      BY <2>1, <2>2, <2>3 DEF SuspectInv
    <2>5. e <= enqueued - count
      BY <2>1, <2>2, <2>4 DEF SuspectInv
    <2>6. e >= enqueued - count + 1 /\ e \in Int
      BY <2>1, <2>2 DEF Front
    <2> QED
      BY <2>2, <2>5, <2>6
  <1> QED
    BY <1>1, <1>2, <1>3, Invariant, PTL DEF Spec

-----------------------------------------------------------------------------
(* The accounting log                                                      *)

\* A line of c events that ends with event e, as a sequence.
LineOf(e, c) == [i \in 1..c |-> e - c + i]
LEMMA LineIsSeq ==
    ASSUME NEW e \in Nat, NEW c \in Nat, c <= e
    PROVE  /\ LineOf(e, c) \in Seq(Nat)
           /\ Len(LineOf(e, c)) = c
           /\ \A i \in 1..c : LineOf(e, c)[i] = e - c + i
  <1> DEFINE s == LineOf(e, c)
  <1>1. s \in [1..c -> Nat]
    BY DEF LineOf
  <1>2. s \in Seq(Nat)
    BY <1>1
  <1>3. Len(s) = c
    BY <1>2, <1>1, LenProperties
  <1> QED
    BY <1>2, <1>3 DEF LineOf

LEMMA LineAppend ==
    ASSUME NEW e \in Nat, NEW c \in Nat, c <= e
    PROVE  LineOf(e + 1, c + 1) = Append(LineOf(e, c), e + 1)
  <1>1. /\ e + 1 \in Nat /\ c + 1 \in Nat /\ c + 1 <= e + 1
    OBVIOUS
  <1> DEFINE s == LineOf(e + 1, c + 1)
             t == LineOf(e, c)
             u == Append(t, e + 1)
  <1>2. /\ s \in Seq(Nat) /\ Len(s) = c + 1
        /\ \A i \in 1..(c + 1) : s[i] = (e + 1) - (c + 1) + i
    BY <1>1, LineIsSeq, Zenon
  <1>3. /\ t \in Seq(Nat) /\ Len(t) = c
        /\ \A i \in 1..c : t[i] = e - c + i
    BY LineIsSeq, Zenon
  <1> HIDE DEF s, t
  <1>4. /\ u \in Seq(Nat) /\ Len(u) = c + 1
        /\ \A i \in 1..c : u[i] = t[i]
        /\ u[c + 1] = e + 1
    BY <1>1, <1>3, AppendProperties
  <1> HIDE DEF u
  <1>5. ASSUME NEW i \in 1..(c + 1) PROVE s[i] = u[i]
    <2>1. s[i] = e - c + i
      BY <1>2
    <2>2. CASE i = c + 1
      BY <1>4, <2>1, <2>2
    <2>3. CASE i \in 1..c
      BY <1>3, <1>4, <2>1, <2>3
    <2> QED
      BY <2>2, <2>3
  <1>6. s = u
    BY <1>2, <1>4, <1>5, SeqEqual
  <1> QED
    BY <1>6 DEF s, t, u

LEMMA LineSub ==
    ASSUME NEW e \in Nat, NEW c \in Nat, c <= e, NEW n \in 0..c
    PROVE  LineOf(e, c - n) = SubSeq(LineOf(e, c), n + 1, c)
  <1> DEFINE s == LineOf(e, c - n)
             t == LineOf(e, c)
             u == SubSeq(t, n + 1, c)
  <1>1. c - n \in Nat /\ c - n <= e /\ n + 1 \in Int /\ c \in Int
    OBVIOUS
  <1>2. /\ s \in Seq(Nat) /\ Len(s) = c - n
        /\ \A i \in 1..(c - n) : s[i] = e - (c - n) + i
    BY <1>1, LineIsSeq, Zenon
  <1>3. /\ t \in Seq(Nat) /\ Len(t) = c
        /\ \A i \in 1..c : t[i] = e - c + i
    BY LineIsSeq, Zenon
  <1> HIDE DEF s, t
  <1>4. \A i \in (n + 1)..c : t[i] \in Nat
    BY <1>3
  <1>5. /\ u \in Seq(Nat)
        /\ Len(u) = IF n + 1 <= c THEN c - (n + 1) + 1 ELSE 0
        /\ \A i \in 1..(c - (n + 1) + 1) : u[i] = t[(n + 1) + i - 1]
    BY <1>1, <1>4, SubSeqProperties
  <1> HIDE DEF u
  <1>6. Len(u) = c - n
    BY <1>5
  <1>7. ASSUME NEW i \in 1..(c - n) PROVE s[i] = u[i]
    <2>1. /\ i \in 1..(c - (n + 1) + 1) /\ n + i \in 1..c
          /\ (n + 1) + i - 1 = n + i /\ n \in Int /\ i \in Int
      OBVIOUS
    <2>2. u[i] = t[n + i]
      BY <1>5, <2>1
    <2>3. t[n + i] = e - c + (n + i)
      BY <1>3, <2>1
    <2>4. s[i] = e - (c - n) + i
      BY <1>2
    <2> QED
      BY <2>1, <2>2, <2>3, <2>4
  <1>8. s = u
    BY <1>2, <1>5, <1>6, <1>7, SeqEqual
  <1> QED
    BY <1>8 DEF s, t, u

LEMMA LineEmpty ==
    ASSUME NEW e \in Nat
    PROVE  LineOf(e, 0) = <<>>
  <1>1. 0 \in Nat /\ 0 <= e
    OBVIOUS
  <1>2. LineOf(e, 0) \in Seq(Nat) /\ Len(LineOf(e, 0)) = 0
    BY <1>1, LineIsSeq, Zenon
  <1>3. LineOf(e, 0) # <<>> => Len(LineOf(e, 0)) \in Nat \ {0}
    BY <1>2, EmptySeq
  <1> QED
    BY <1>2, <1>3

\* The line of the accounting log that a state of the writer stands for.
Pending ==
    [i \in 1..count |-> IF stopping THEN enqueued - count + i
                                   ELSE queue[SlotAt(head, i - 1)]]

LEMMA PendingIsLine == IInv => Pending = LineOf(enqueued, count)
  <1> SUFFICES ASSUME IInv PROVE Pending = LineOf(enqueued, count)
    OBVIOUS
  <1>1. count \in Nat /\ enqueued \in Nat
    BY WriterAssumption DEF IInv, TypeOK
  <1>2. ASSUME ~stopping, NEW i \in 1..count
        PROVE  queue[SlotAt(head, i - 1)] = enqueued - count + i
    <2>1. /\ i - 1 \in 0..(count - 1)
          /\ enqueued - count + (i - 1) + 1 = enqueued - count + i
      BY <1>1
    <2> QED
      BY <1>2, <2>1 DEF IInv, RingInv, Line
  <1> QED
    BY <1>2 DEF Pending, LineOf

LEMMA PendingFacts ==
    ASSUME IInv
    PROVE  /\ count \in Nat /\ enqueued \in Nat /\ count <= enqueued
           /\ Pending \in Seq(Nat) /\ Len(Pending) = count
           /\ \A i \in 1..count : Pending[i] = enqueued - count + i
  <1>1. count \in Nat /\ enqueued \in Nat /\ count <= enqueued
    BY WriterAssumption DEF IInv, TypeOK, RingInv
  <1>2. Pending = LineOf(enqueued, count)
    BY PendingIsLine
  <1> QED
    BY <1>1, <1>2, LineIsSeq, Zenon

LEMMA InLineIsFront ==
    ASSUME IInv, NEW n \in 0..count
    PROVE  /\ Log!InLine(1, n) = Front(count, n)
           /\ Log!InLine(n + 1, Len(Pending)) =
                 (enqueued - count + n + 1)..enqueued
  <1>1. /\ count \in Nat /\ enqueued \in Nat /\ count <= enqueued
        /\ Len(Pending) = count
        /\ \A i \in 1..count : Pending[i] = enqueued - count + i
    BY PendingFacts
  <1>2. ASSUME NEW a \in 1..(count + 1), NEW b \in 0..count
        PROVE  Log!InLine(a, b) = (enqueued - count + a)..(enqueued - count + b)
    <2>1. Log!InLine(a, b) = {Pending[i] : i \in a..b}
      BY DEF Log!InLine, Pending
    <2>2. \A i \in a..b : i \in 1..count
      BY <1>1
    <2>3. \A i \in a..b : Pending[i] = enqueued - count + i
      BY <1>1, <2>2
    <2>4. ASSUME NEW e \in (enqueued - count + a)..(enqueued - count + b)
          PROVE  \E i \in a..b : Pending[i] = e
      <3>1. /\ e - (enqueued - count) \in a..b
            /\ enqueued - count + (e - (enqueued - count)) = e
        BY <1>1
      <3> QED
        BY <2>3, <3>1
    <2>5. ASSUME NEW i \in a..b
          PROVE  Pending[i] \in (enqueued - count + a)..(enqueued - count + b)
      <3>1. enqueued - count + i \in (enqueued - count + a)..(enqueued - count + b)
        BY <1>1
      <3> QED
        BY <2>3, <3>1
    <2> QED
      BY <2>1, <2>4, <2>5
  <1>3. Log!InLine(1, n) = (enqueued - count + 1)..(enqueued - count + n)
    <2>1. 1 \in 1..(count + 1)
      BY <1>1
    <2> QED
      BY <1>2, <2>1
  <1>4. Log!InLine(n + 1, count) =
          (enqueued - count + (n + 1))..(enqueued - count + count)
    <2>1. n + 1 \in 1..(count + 1) /\ count \in 0..count
      BY <1>1
    <2> QED
      BY <1>2, <2>1
  <1>5. /\ enqueued - count + (n + 1) = enqueued - count + n + 1
        /\ enqueued - count + count = enqueued
    BY <1>1
  <1> QED
    BY <1>1, <1>3, <1>4, <1>5, Zenon DEF Front

(* A callback that settles the first n events and ends in one of the ways  *)
(* above makes them leave the line, and perhaps gives the rest up.         *)
LEMMA EndsLeaves ==
    ASSUME IInv, IInv', ~stopping, NEW n \in 0..count, Ends(count - n),
           enqueued' = enqueued,
           acked' \cup dropped' \cup lost = 1..(enqueued - (count - n)),
           acked \subseteq acked', dropped \subseteq dropped'
    PROVE  Log!Leave(n)
  <1>1. /\ count \in Nat /\ enqueued \in Nat /\ count <= enqueued
        /\ Len(Pending) = count
    BY PendingFacts
  <1>2. Pending = LineOf(enqueued, count) /\ Pending' = LineOf(enqueued', count')
    <2>1. IInv' => (Pending = LineOf(enqueued, count))'
      BY PendingIsLine, PTL
    <2> QED
      BY PendingIsLine, <2>1 DEF LineOf
  <1>3. CASE count' = count - n /\ lost' = lost
    <2>1. LineOf(enqueued, count - n) = SubSeq(LineOf(enqueued, count), n + 1, count)
      BY <1>1, LineSub, Zenon
    <2>2. Pending' = SubSeq(Pending, n + 1, Len(Pending))
      BY <1>1, <1>2, <1>3, <2>1, Zenon
    <2> QED
      BY <1>3, <2>2 DEF Log!Leave, Pending
  <1>4. CASE GivesUp
    <2>1. /\ count' = 0
          /\ lost' = lost \cup (Unsettled \ (acked' \cup dropped'))
      BY <1>4 DEF GivesUp
    <2>2. Pending' = <<>>
      BY <1>1, <1>2, <2>1, LineEmpty
    <2>3. Log!InLine(n + 1, Len(Pending)) = (enqueued - count + n + 1)..enqueued
      BY InLineIsFront
    <2>4. Unsettled \ (acked' \cup dropped') = (enqueued - count + n + 1)..enqueued
      <3>1. Unsettled \ (acked' \cup dropped') =
              (1..enqueued) \ (acked' \cup dropped' \cup lost)
        BY DEF Unsettled
      <3>2. (1..enqueued) \ (1..(enqueued - (count - n))) =
              (enqueued - count + n + 1)..enqueued
        BY <1>1
      <3> QED
        BY <3>1, <3>2
    <2>5. lost' = lost \cup Log!InLine(n + 1, Len(Pending))
      BY <2>1, <2>3, <2>4
    <2> QED
      BY <2>2, <2>5 DEF Log!Leave, Pending
  <1> QED
    BY <1>3, <1>4 DEF Ends

-----------------------------------------------------------------------------
(* Every step of the writer is a step of the accounting log or a stutter   *)

LEMMA LogStutters ==
    ASSUME IInv, IInv',
           UNCHANGED <<enqueued, count, rows, acked, dropped, lost>>
    PROVE  UNCHANGED Log!vars
  <1>1. IInv' => (Pending = LineOf(enqueued, count))'
    BY PendingIsLine, PTL
  <1>2. Pending' = Pending
    BY <1>1, PendingIsLine DEF LineOf
  <1>3. Stored' = Stored
    BY DEF Stored
  <1> QED
    BY <1>2, <1>3 DEF Log!vars, Pending

LEMMA EnqueueAccepts ==
    ASSUME IInv, IInv', WriterEnqueue PROVE Log!Accept
  <1>1. /\ enqueued < MaxEvents /\ enqueued' = enqueued + 1
        /\ count' = count + 1
        /\ UNCHANGED <<rows, acked, dropped, lost>>
    BY DEF WriterEnqueue, EnqueueAccept, serverVars
  <1>2. IInv' => (Pending = LineOf(enqueued, count))'
    BY PendingIsLine, PTL
  <1>3. count \in Nat /\ enqueued \in Nat /\ count <= enqueued
    BY PendingFacts
  <1>4. Pending' = LineOf(enqueued + 1, count + 1)
    BY <1>1, <1>2 DEF LineOf
  <1>5. Pending' = Append(Pending, enqueued')
    BY <1>1, <1>3, <1>4, PendingIsLine, LineAppend
  <1>6. Stored' = Stored
    BY <1>1 DEF Stored
  <1> QED
    BY <1>1, <1>5, <1>6 DEF Log!Accept, Pending

\* A callback that settles nothing leaves the line alone or gives it up.
LEMMA InPlaceForgets ==
    ASSUME IInv, IInv', ~stopping, Ends(count),
           UNCHANGED <<enqueued, rows, acked, dropped>>
    PROVE  Log!Forget
  <1>1. /\ count \in Nat /\ 0 \in 0..count /\ count - 0 = count
        /\ acked' \cup dropped' \cup lost = 1..(enqueued - (count - 0))
    BY WriterAssumption DEF IInv, TypeOK, RingInv
  <1>2. Log!Leave(0)
    BY <1>1, EndsLeaves
  <1>3. Stored' = Stored
    BY DEF Stored
  <1> QED
    BY <1>2, <1>3 DEF Log!Forget

LEMMA FinishLogs ==
    ASSUME IInv, IInv', WriterFinishQuery
    PROVE  Log!Write \/ Log!Refuse \/ Log!Forget
  <1>1. /\ count \in Nat /\ Len(Pending) = count
        /\ Pending \in Seq(Nat) /\ enqueued \in Nat
        /\ \A i \in 1..count : Pending[i] = enqueued - count + i
    BY PendingFacts
  <1>2. ~stopping /\ enqueued' = enqueued /\ Stored' = Stored
    BY FinishSettles DEF WriterFinishQuery, Stored
  <1>3. ASSUME NEW n \in 0..count, NEW w, NEW d, Settles(n, w, d)
        PROVE  Log!Leave(n)
    <2>1. Ends(count - n)
      BY <1>3 DEF Settles
    <2> QED
      BY <1>2, <1>3, <2>1, SettlesFront, EndsLeaves
  <1>4. ASSUME NEW n \in 1..count, Settles(n, Front(count, n), {})
        PROVE  Log!Write
    <2>1. n \in 0..count /\ n \in 1..Len(Pending)
      BY <1>1
    <2>2. Log!Leave(n) /\ Log!InLine(1, n) = Front(count, n)
      BY <1>3, <1>4, <2>1, InLineIsFront
    <2>3. /\ Log!InLine(1, n) \subseteq Stored
          /\ acked' = acked \cup Log!InLine(1, n) /\ dropped' = dropped
      BY <1>4, <2>2 DEF Settles
    <2> QED
      BY <1>2, <2>1, <2>2, <2>3 DEF Log!Write, Pending
  <1>5. ASSUME 1 \in 1..count, Settles(1, {}, Front(count, 1))
        PROVE  Log!Refuse
    <2>1. 1 \in 0..count
      BY <1>1, <1>5
    <2>2. Log!Leave(1)
      BY <1>3, <1>5, <2>1
    <2>3. Pending # <<>> /\ Head(Pending) = enqueued - count + 1
      BY <1>1, <1>5
    <2>4. Front(count, 1) = {Head(Pending)}
      BY <1>1, <2>3 DEF Front
    <2>5. dropped' = dropped \cup {Head(Pending)} /\ acked' = acked
      BY <1>5, <2>4 DEF Settles
    <2> QED
      BY <1>2, <2>2, <2>3, <2>5 DEF Log!Refuse, Pending
  <1>6. ASSUME Settles(0, {}, {}) PROVE Log!Forget
    <2>1. 0 \in 0..count
      BY <1>1
    <2> QED
      BY <1>2, <1>3, <1>6, <2>1 DEF Log!Forget, Settles
  <1> QED
    BY <1>4, <1>5, <1>6, FinishSettles

LEMMA GoneForgets ==
    ASSUME IInv, IInv', ProcessGone PROVE Log!Forget
  <1>1. /\ count \in Nat /\ enqueued \in Nat /\ count <= enqueued
        /\ acked \cup dropped \cup lost = 1..(enqueued - count)
        /\ 0 \in 0..count
    BY WriterAssumption DEF IInv, TypeOK, RingInv
  <1>2. /\ count' = 0 /\ lost' = lost \cup Unsettled
        /\ UNCHANGED <<enqueued, rows, acked, dropped>>
    BY DEF ProcessGone
  <1>3. IInv' => (Pending = LineOf(enqueued, count))'
    BY PendingIsLine, PTL
  <1>4. Pending' = <<>>
    BY <1>1, <1>2, <1>3, LineEmpty
  <1>5. Unsettled = Log!InLine(0 + 1, Len(Pending))
    <2>1. Log!InLine(0 + 1, Len(Pending)) = (enqueued - count + 0 + 1)..enqueued
      BY <1>1, InLineIsFront
    <2>2. Unsettled = (enqueued - count + 0 + 1)..enqueued
      BY <1>1 DEF Unsettled
    <2> QED
      BY <2>1, <2>2
  <1>6. Log!Leave(0)
    BY <1>2, <1>4, <1>5 DEF Log!Leave, Pending
  <1>7. Stored' = Stored
    BY <1>2 DEF Stored
  <1> QED
    BY <1>2, <1>6, <1>7 DEF Log!Forget

LEMMA InsertStores ==
    ASSUME IInv, IInv', NEW batch \in SUBSET (1..enqueued),
           rows' = Inserted(batch),
           UNCHANGED <<enqueued, count, acked, dropped, lost>>
    PROVE  Log!Store
  <1>1. /\ rows \in [Events -> Nat] /\ batch \subseteq Events
    BY WriterAssumption DEF IInv, TypeOK, Events
  <1>2. Stored' = Stored \cup batch
    <2>1. ASSUME NEW e \in Events
          PROVE  rows'[e] > 0 <=> rows[e] > 0 \/ e \in batch
      BY <1>1 DEF Inserted
    <2> QED
      BY <1>1, <2>1 DEF Stored
  <1>3. IInv' => (Pending = LineOf(enqueued, count))'
    BY PendingIsLine, PTL
  <1>4. Pending' = Pending
    BY <1>3, PendingIsLine DEF LineOf
  <1> QED
    BY <1>2, <1>4 DEF Log!Store, Pending

LEMMA NextLogs ==
    ASSUME IInv, IInv', [Next]_vars PROVE [Log!Next]_(Log!vars)
  <1>1. CASE WriterEnqueue
    BY <1>1, EnqueueAccepts DEF Log!Next
  <1>2. CASE WriterKickHandler
    <2>1. CASE KickIdle
      BY <2>1, LogStutters DEF KickIdle, ringVars, serverVars, historyVars
    <2>2. CASE KickConnect \/ KickQuery
      <3>1. /\ ~stopping /\ UNCHANGED <<enqueued, rows, acked, dropped>>
        BY <2>2 DEF KickConnect, KickQuery, WriterPollConnect
      <3> QED
        BY <2>2, <3>1, KickEnds, InPlaceForgets DEF Log!Next
    <2> QED
      BY <1>2, <2>1, <2>2 DEF WriterKickHandler
  <1>3. CASE WriterSocketHandler
    <2>1. CASE WriterFinishQuery
      BY <2>1, FinishLogs DEF Log!Next
    <2>2. CASE SocketConnecting \/ SocketFlushing \/ SocketFailure
      <3>1. ~stopping
        BY <1>3 DEF WriterSocketHandler, IInv, ConnInv
      <3>2. UNCHANGED <<enqueued, rows, acked, dropped>>
        BY <2>2 DEF SocketConnecting, SocketFlushing, SocketFailure,
                    WriterPollConnect
      <3>3. Ends(count)
        BY <1>3, <2>2, SocketEnds DEF WriterSocketHandler
      <3> QED
        BY <3>1, <3>2, <3>3, InPlaceForgets DEF Log!Next
    <2> QED
      BY <1>3, <2>1, <2>2 DEF WriterSocketHandler
  <1>4. CASE \/ BeginGracefulExit \/ DeadlineExpires \/ WriterInitProcess
             \/ ServerRefuse \/ UNCHANGED vars
    BY <1>4, LogStutters
    DEF BeginGracefulExit, DeadlineExpires, WriterInitProcess, ServerRefuse,
        vars, ringVars, serverVars, historyVars
  <1>5. CASE GracefulExit \/ Killed
    BY <1>5, GoneForgets DEF GracefulExit, Killed, Log!Next
  <1>6. CASE ServerCommit
    <2>1. /\ rows' = Inserted(inflight)
          /\ UNCHANGED <<enqueued, count, acked, dropped, lost>>
      BY <1>6 DEF ServerCommit, ringVars, historyVars
    <2>2. inflight \in SUBSET (1..enqueued)
      BY InflightAccepted
    <2> QED
      BY <2>1, <2>2, InsertStores DEF Log!Next
  <1>7. CASE OrphanDecided
    <2>1. UNCHANGED <<enqueued, count, acked, dropped, lost>>
      BY <1>7 DEF OrphanDecided, ringVars, historyVars
    <2>2. CASE UNCHANGED rows
      BY <2>1, <2>2, LogStutters
    <2>3. CASE \E batch \in orphans : rows' = Inserted(batch)
      <3>1. PICK batch \in orphans : rows' = Inserted(batch)
        BY <2>3
      <3>2. batch \in SUBSET (1..enqueued)
        BY DEF IInv, HistoryInv
      <3> QED
        BY <2>1, <3>1, <3>2, InsertStores DEF Log!Next
    <2> QED
      BY <1>7, <2>2, <2>3 DEF OrphanDecided
  <1> QED
    BY <1>1, <1>2, <1>3, <1>4, <1>5, <1>6, <1>7 DEF Next

(* The writer implements the accounting log: events leave the line in the  *)
(* order of acceptance, once, and as written only when they are stored     *)
(* (writerEnqueue, writerFinishQuery, writerRetry, writerExitProcess).     *)
THEOREM WriterImplementsLog == Spec => ImplementsAccountingLog
  <1>1. Init => Log!Init
    <2> SUFFICES ASSUME Init PROVE Log!Init
      OBVIOUS
    <2>1. Pending = <<>>
      <3>1. IInv
        BY InitIInv
      <3>2. Len(Pending) = 0 /\ Pending \in Seq(Nat)
        BY <3>1, PendingFacts DEF Init
      <3> QED
        BY <3>2, EmptySeq
    <2>2. Stored = {}
      BY DEF Init, Stored
    <2> QED
      BY <2>1, <2>2 DEF Init, Log!Init, Pending
  <1>2. IInv /\ IInv' /\ [Next]_vars => [Log!Next]_(Log!vars)
    BY NextLogs
  <1> QED
    BY <1>1, <1>2, Invariant, PTL DEF Spec, ImplementsAccountingLog, Log!Spec

=============================================================================
