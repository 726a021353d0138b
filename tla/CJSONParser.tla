----------------------------- MODULE CJSONParser -----------------------------
(***************************************************************************)
(* The parser of CJSONReader at work: a caller writes a text piece by      *)
(* piece and calls cJSON_Parse on it, by length or up to its NUL, with     *)
(* memory for some number of allocations; the static global_error keeps    *)
(* the place of the last error.                                            *)
(***************************************************************************)
EXTENDS CJSONReader

CONSTANT
    Alphabets      \* what a caller may write and with what memory: records of
                   \* the pieces, sequences of bytes, the bound on how many
                   \* (most), the allocations granted to a call (quotas), and
                   \* what may stand in memory after the text (beyond)

VARIABLES
    alphabet,      \* the one this caller writes from
    text,          \* the bytes the caller has written
    pieces,        \* how many pieces they are
    outcome,       \* what the last call on this text returned
    global_error   \* the static of cJSON_GetErrorPtr: a position, or None

vars == <<alphabet, text, pieces, outcome, global_error>>

None == -1
NotCalled == [item |-> NoValue, parsed |-> FALSE, live |-> 0, depth |-> 0,
              length |-> 0, end |-> 0]

Init ==
    /\ alphabet \in Alphabets
    /\ text = <<>>
    /\ pieces = 0
    /\ outcome = NotCalled
    /\ global_error = None

(* The caller writes on. *)
Write(piece) ==
    /\ pieces < alphabet.most
    /\ text' = text \o piece
    /\ pieces' = pieces + 1
    /\ outcome' = NotCalled
    /\ UNCHANGED <<alphabet, global_error>>

Returns(result) ==
    /\ outcome' = result
    /\ global_error' = IF result.parsed THEN None ELSE result.end
    /\ UNCHANGED <<alphabet, text, pieces>>

Decode(quota) ==
    \E rest \in alphabet.beyond :
        Returns(cJSON_ParseWithLength(text \o rest, Len(text), quota))

ParseWhole(quota) == Returns(cJSON_ParseWithOpts(Append(text, NUL), TRUE, quota))

Parse(quota) == Returns(cJSON_ParseWithOpts(Append(text, NUL), FALSE, quota))

Next ==
    \/ \E piece \in alphabet.pieces : Write(piece)
    \/ \E quota \in alphabet.quotas : Decode(quota) \/ ParseWhole(quota) \/ Parse(quota)

Spec == Init /\ [][Next]_vars
-----------------------------------------------------------------------------
(* Three of the properties are of the text alone: they are stated once for *)
(* each text, before a call.                                               *)
Enough == 2 * Len(text) + 1       \* allocations that no text can exceed
Lengthwise(rest) == cJSON_ParseWithLength(text \o rest, Len(text), Enough)
Whole == cJSON_ParseWithOpts(Append(text, NUL), TRUE, Enough)

(* A byte order mark counts for nothing if two bytes more follow it.       *)
Unmarked(s, length) ==
    IF length >= 5 /\ SubSeq(s, 1, 3) = BOM THEN After(s, 3) ELSE s
-----------------------------------------------------------------------------
TypeOK ==
    /\ pieces \in 0 .. alphabet.most
    /\ outcome.end \in 0 .. Len(text) + 1
    /\ outcome.depth \in 0 .. NestingLimit
    /\ global_error \in None .. Len(text)

(* Read to its end, a text is accepted if it is one JSON value nested no   *)
(* deeper than the limit; by length, if it begins with one, however the    *)
(* white space lies and wherever the text is cut. What else is accepted is *)
(* JSON but for its numbers: strtod reads zeros before them, a point that  *)
(* ends them and a minus before a point.                                   *)
BeginsWithValue(s, loose) ==
    \E n \in DOMAIN s : IsValue(Trim(SubSeq(s, 1, n)), NestingLimit, loose)
AcceptsJSON ==
    outcome = NotCalled =>
    /\ LET json == Trim(Unmarked(text, Len(text) + 1))
       IN  /\ IsValue(json, NestingLimit, FALSE) => Whole.parsed
           /\ Whole.parsed <=> IsValue(json, NestingLimit, TRUE)
    /\ LET json == Unmarked(text, Len(text))
       IN  \A rest \in alphabet.beyond :
               /\ BeginsWithValue(json, FALSE) => Lengthwise(rest).parsed
               /\ Lengthwise(rest).parsed <=> BeginsWithValue(json, TRUE)

(* What was parsed is what was written, from the start of the text to the  *)
(* end the parser reports: every item, in order, under its name.           *)
IsWritten(result, marked) ==
    result.parsed =>
        Dark(Written(result.item))
          = Dark(SubSeq(text, IF marked THEN 4 ELSE 1, result.end))
ParsesWhatIsWritten ==
    outcome = NotCalled =>
    \A rest \in alphabet.beyond :
        IsWritten(Lengthwise(rest), Unmarked(text, Len(text)) # text)

(* A call that fails, for its text or for want of memory at any point,     *)
(* has freed all it allocated; one that succeeds holds its item and no     *)
(* more.                                                                   *)
AllocationsBalance ==
    outcome.live = IF outcome.parsed THEN Size(outcome.item) ELSE 0

(* The bytes that stand in memory after the text change nothing.           *)
NothingReadBeyond ==
    outcome = NotCalled =>
    \A one, other \in alphabet.beyond : Lengthwise(one) = Lengthwise(other)

(* The error that cJSON_GetErrorPtr shows lies inside the bytes that were  *)
(* given, and a call that succeeds leaves none of an earlier call.           *)
ErrorPointsIntoText ==
    outcome # NotCalled =>
        IF outcome.parsed THEN global_error = None
        ELSE global_error = 0 \/ global_error < outcome.length
=============================================================================
