---------------------------- MODULE CJSONMinify ----------------------------
(***************************************************************************)
(* cJSON_Minify (src/c/cJSON.c): blanks and comments are taken out of a    *)
(* text in place, the output (into) following the input (json) through the *)
(* same memory.  One action to a turn of its loop; the memory ends with    *)
(* its NUL, and an index is that of the C pointer, counted from 1.         *)
(***************************************************************************)
EXTENDS SequencesExt, Integers

CONSTANTS
    Pieces,     \* what the text is written with: sequences of bytes
    MaxPieces   \* bound: pieces written

VARIABLES
    memory,    \* the bytes, NUL included
    json,      \* the input pointer
    into,      \* the output pointer
    pc,
    original,  \* history: the text before
    pieces

vars == <<memory, json, into, pc, original, pieces>>

NUL == "NUL"
Blanks == {" ", "\t", "\r", "\n"}
Quote == "\""
Backslash == "\\"

At(i) == memory[i]
(* The first index from i on where one of the bytes is. *)
Next1(i, bytes) == Min({k \in i .. Len(memory) : memory[k] \in bytes})
-----------------------------------------------------------------------------
Init ==
    /\ memory = <<NUL>> /\ original = <<>>
    /\ json = 1 /\ into = 1
    /\ pc = "writing" /\ pieces = 0

(* The caller's text. *)
Write(piece) ==
    /\ pc = "writing" /\ pieces < MaxPieces
    /\ original' = original \o piece
    /\ memory' = original' \o <<NUL>>
    /\ pieces' = pieces + 1
    /\ UNCHANGED <<json, into, pc>>

Minify ==
    /\ pc = "writing"
    /\ pc' = "minifying"
    /\ UNCHANGED <<memory, json, into, original, pieces>>

SkipBlank ==
    /\ pc = "minifying" /\ At(json) \in Blanks
    /\ json' = json + 1
    /\ UNCHANGED <<memory, into, pc, original, pieces>>

skip_oneline_comment ==
    /\ pc = "minifying" /\ At(json) = "/" /\ At(json + 1) = "/"
    /\ LET end == Next1(json + 2, {"\n", NUL})
       IN  json' = IF At(end) = NUL THEN end ELSE end + 1
    /\ UNCHANGED <<memory, into, pc, original, pieces>>

skip_multiline_comment ==
    /\ pc = "minifying" /\ At(json) = "/" /\ At(json + 1) = "*"
    /\ LET ends == {k \in json + 2 .. Len(memory) - 1 : At(k) = "*" /\ At(k + 1) = "/"}
       IN  json' = IF ends = {} THEN Len(memory) ELSE Min(ends) + 2
    /\ UNCHANGED <<memory, into, pc, original, pieces>>

\* Mutant: nothing is passed.
StayAtSlash ==
    /\ pc = "minifying" /\ At(json) = "/" /\ At(json + 1) \notin {"/", "*"}
    /\ UNCHANGED vars

SkipSlash ==
    /\ pc = "minifying" /\ At(json) = "/" /\ At(json + 1) \notin {"/", "*"}
    /\ json' = json + 1
    /\ UNCHANGED <<memory, into, pc, original, pieces>>

(* The quote that minify_string takes for the closing one of the string    *)
(* whose next byte is at i: none after a backslash, whatever is before it; *)
(* or the end of the text.                                                 *)
Closing(i) ==
    Min({k \in i .. Len(memory) :
            \/ At(k) = NUL
            \/ At(k) = Quote /\ At(k - 1) # Backslash})

Moved(from, to) ==
    [k \in DOMAIN memory |->
        IF k \in into .. into + (to - from) THEN memory[from + (k - into)] ELSE memory[k]]

minify_string ==
    /\ pc = "minifying" /\ At(json) = Quote
    /\ LET end == Closing(json + 1)
           last == IF At(end) = NUL THEN end - 1 ELSE end
       IN  /\ memory' = Moved(json, last)
           /\ json' = last + 1
           /\ into' = into + (last - json) + 1
    /\ UNCHANGED <<pc, original, pieces>>

Copy ==
    /\ pc = "minifying" /\ At(json) \notin Blanks \cup {"/", Quote, NUL}
    /\ memory' = [memory EXCEPT ![into] = At(json)]
    /\ json' = json + 1
    /\ into' = into + 1
    /\ UNCHANGED <<pc, original, pieces>>

Terminate ==
    /\ pc = "minifying" /\ At(json) = NUL
    /\ memory' = [memory EXCEPT ![into] = NUL]
    /\ pc' = "done"
    /\ UNCHANGED <<json, into, original, pieces>>

Turn ==
    \/ SkipBlank \/ skip_oneline_comment \/ skip_multiline_comment
    \/ SkipSlash \/ minify_string \/ Copy \/ Terminate

Next == (\E piece \in Pieces : Write(piece)) \/ Minify \/ Turn

(* The loop runs on. *)
Spec == Init /\ [][Next]_vars /\ WF_vars(Turn)
-----------------------------------------------------------------------------
Result == SubSeq(memory, 1, Next1(1, {NUL}) - 1)

(* The text without what JSON does not need, from the grammar: in a string *)
(* a backslash escapes the byte after it.                                  *)
Step(s, byte) ==
    LET Keep(mode) == [mode |-> mode, out |-> Append(s.out, byte)]
        Drop(mode) == [s EXCEPT !.mode = mode]
    IN  CASE s.mode = "string" ->
               Keep(IF byte = Quote THEN "plain" ELSE IF byte = Backslash THEN "escape" ELSE "string")
          [] s.mode = "escape" -> Keep("string")
          [] s.mode = "line" -> Drop(IF byte = "\n" THEN "plain" ELSE "line")
          [] s.mode = "block" -> Drop(IF byte = "*" THEN "star" ELSE "block")
          [] s.mode = "star" ->
               Drop(IF byte = "/" THEN "plain" ELSE IF byte = "*" THEN "star" ELSE "block")
          [] s.mode = "slash" /\ byte \in {"/", "*"} -> Drop(IF byte = "/" THEN "line" ELSE "block")
          [] byte = "/" -> Drop("slash")
          [] byte \in Blanks -> Drop("plain")
          [] byte = Quote -> Keep("string")
          [] OTHER -> Keep("plain")
Lexed == FoldLeft(Step, [mode |-> "plain", out |-> <<>>], original)
EscapedBackslash ==
    \E k \in 1 .. Len(original) - 1 : original[k] = Backslash /\ original[k + 1] = Backslash
-----------------------------------------------------------------------------
TypeOK ==
    /\ json \in 1 .. Len(memory) /\ into \in 1 .. Len(memory)
    /\ Len(memory) = Len(original) + 1
    /\ pc \in {"writing", "minifying", "done"}
    /\ pieces \in 0 .. MaxPieces

(* The output never reaches the input it has yet to read.                  *)
InputUntouched ==
    pc # "done" =>
        /\ into <= json
        /\ \A k \in json .. Len(memory) : At(k) = (original \o <<NUL>>)[k]

(* The result is the text without blanks and comments, its strings as they *)
(* were, unless a string holds an escaped backslash.                       *)
MinifiesText == pc = "done" /\ ~EscapedBackslash => Result = Lexed.out
=============================================================================
