---------------------------- MODULE AccountingLog ----------------------------
(***************************************************************************)
(* What the PostgreSQL backend of llm-cost promises for the events it      *)
(* accepts: they wait in line, leave it in the order of acceptance and     *)
(* exactly once, and leave it as written only when they are stored.        *)
(* PgWriter implements this specification.                                 *)
(***************************************************************************)
EXTENDS Integers, Sequences

CONSTANT MaxEvents  \* bound on the events ever accepted

VARIABLES
    accepted,   \* number of events accepted so far
    pending,    \* the events in line, oldest first
    stored,     \* the events with a row in the table
    written,    \* left the line as written
    refused,    \* left the line with a recovery record
    forgotten   \* left the line with the worker or at the drain deadline

vars == <<accepted, pending, stored, written, refused, forgotten>>

InLine(from, to) == {pending[i] : i \in from..to}

Init ==
    /\ accepted = 0
    /\ pending = <<>>
    /\ stored = {} /\ written = {} /\ refused = {} /\ forgotten = {}

Accept ==
    /\ accepted < MaxEvents
    /\ accepted' = accepted + 1
    /\ pending' = Append(pending, accepted')
    /\ UNCHANGED <<stored, written, refused, forgotten>>

(* Some accepted events become visible in the table, possibly after their  *)
(* fate in the line was decided.                                           *)
Store ==
    /\ \E batch \in SUBSET (1..accepted) : stored' = stored \cup batch
    /\ UNCHANGED <<accepted, pending, written, refused, forgotten>>

(* The first n events leave the line; what is behind them stays or is      *)
(* given up with them.                                                     *)
Leave(n) ==
    \/ /\ pending' = SubSeq(pending, n + 1, Len(pending))
       /\ UNCHANGED forgotten
    \/ /\ pending' = <<>>
       /\ forgotten' = forgotten \cup InLine(n + 1, Len(pending))

Write ==
    /\ \E n \in 1..Len(pending) :
        /\ InLine(1, n) \subseteq stored
        /\ written' = written \cup InLine(1, n)
        /\ Leave(n)
    /\ UNCHANGED <<accepted, stored, refused>>

Refuse ==
    /\ pending # <<>>
    /\ refused' = refused \cup {Head(pending)}
    /\ Leave(1)
    /\ UNCHANGED <<accepted, stored, written>>

Forget ==
    /\ Leave(0)
    /\ UNCHANGED <<accepted, stored, written, refused>>

Next == Accept \/ Store \/ Write \/ Refuse \/ Forget

Spec == Init /\ [][Next]_vars
=============================================================================
