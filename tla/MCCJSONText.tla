----------------------------- MODULE MCCJSONText -----------------------------
(***************************************************************************)
(* The functions of cJSON that read and write text, each on small inputs:  *)
(* a behaviour runs one part, and the variables of the others stay idle.   *)
(* The parser has four alphabets: arrays beyond the nesting limit, objects *)
(* cut off anywhere, numbers, and a mixture of all values.                 *)
(***************************************************************************)
EXTENDS Integers, Sequences

VARIABLES
    part,                                          \* the part that runs
    alphabet, text, pieces, outcome, global_error, \* the parser
    literal,                                       \* the strings
    built, pc, size, pool,                         \* the printer, and compare
    memory, json, into, original                   \* minify

ofReader == <<alphabet, text, global_error>>
ofStrings == <<literal>>
ofPrinter == <<size, pool>>
ofMinify == <<memory, json, into, original>>
vars == <<part, ofReader, ofStrings, ofPrinter, ofMinify, pieces, outcome, built, pc>>

Idle == "idle"
-----------------------------------------------------------------------------
Bytes(S) == {<<byte>> : byte \in S}
Name == <<"\"", "a", "\"">>
OpenName == <<"\"", "a">>
NullWord == <<"n", "u", "l", "l">>
TrueWord == <<"t", "r", "u", "e">>
BOM == <<"EF", "BB", "BF">>
FalseWord == <<"f", "a", "l", "s", "e">>

ArrayPieces == Bytes({"[", "]", ",", " ", "1"})
ObjectPieces == Bytes({"{", "}", ",", ":"}) \cup {Name, Name \o <<":">>}
NumberPieces == Bytes({"1", "0", "-", "+", "e", ".", " "})
MixedPieces == Bytes({"[", "]", "{", "}", ",", ":", " ", "1"})
                 \cup {Name, OpenName, NullWord, SubSeq(NullWord, 1, 3), BOM, TrueWord, FalseWord}
Quotas == {1, 2, 3, 4, 9}
EnoughMemory == {9}

(* The memory after the text: four bytes that would go on with it. *)
Rest(byte) == [i \in 1 .. 4 |-> byte]
Rests == {Rest(byte) : byte \in {"]", "}", "1", "\"", "l", " "}}
ArrayRests == {Rest("]"), Rest("1")}
ObjectRests == {Rest("}"), Rest("\"")}
NumberRests == {Rest("1")}

Alphabet(its, most, quotas, beyond) ==
    [pieces |-> its, most |-> most, quotas |-> quotas, beyond |-> beyond]

Parser == INSTANCE CJSONParser WITH
    NestingLimit <- 2,
    Alphabets <- {Alphabet(ArrayPieces, 5, Quotas, ArrayRests),
                  Alphabet(ObjectPieces, 5, Quotas, ObjectRests),
                  Alphabet(NumberPieces, 4, EnoughMemory, NumberRests),
                  Alphabet(MixedPieces, 3, Quotas, Rests)}
-----------------------------------------------------------------------------
(* The borders of the UTF-8 lengths and of the surrogates, escapes of one  *)
(* letter, and stray halves of escapes.                                    *)
U(d1, d2, d3, d4) == <<92, 117, d1, d2, d3, d4>>
LiteralPieces ==
    {<<byte>> : byte \in {1, 9, 31, 34, 47, 48, 92, 110, 117, 195}} \cup
    {U(48, 48, 48, 48),                                         \* 0000
     U(48, 48, 55, 102), U(48, 48, 56, 48),                     \* 007f, 0080
     U(48, 55, 70, 70), U(48, 56, 48, 48),                      \* 07FF, 0800
     U(100, 55, 102, 102), U(101, 48, 48, 48),                  \* d7ff, e000
     U(102, 102, 102, 102),                                     \* ffff
     U(100, 56, 48, 48), U(68, 66, 70, 70),                     \* d800, DBFF
     U(100, 99, 48, 48), U(100, 102, 102, 102),                 \* dc00, dfff
     U(48, 103, 48, 48)}                                        \* 0g00

(* What follows in memory: a quote, a digit, the rest of a pair. *)
LiteralRests == {[i \in 1 .. 12 |-> 34], [i \in 1 .. 12 |-> 48],
                 Tail(U(100, 99, 48, 48)) \o U(100, 99, 48, 48)}

Strings == INSTANCE CJSONStrings WITH
    Pieces <- LiteralPieces, MaxPieces <- 3, Beyond <- LiteralRests
-----------------------------------------------------------------------------
(* A leaf of every length class, and sizes so small that every buffer has  *)
(* to grow, or cannot.                                                     *)
Value(type, bytes) == [type |-> type, key |-> <<>>, kids |-> <<>>, bytes |-> bytes]
Unnamed == [type |-> "NULL", key |-> <<>>, kids |-> <<>>]
PrintedLeaves == {Unnamed, [Unnamed EXCEPT !.type = "Invalid"], Value("Number", <<"1">>),
                  Value("String", Name), Value("Raw", <<"[", "0", "]">>)}
PrintedKeys == {<<"\"", "k", "\"">>, <<>>}
FewAllocations == 0 .. 4
FirstSizes == {1, 3, 8}

Printer == INSTANCE CJSONPrinter WITH
    NestingLimit <- 4, Leaves <- PrintedLeaves, Keys <- PrintedKeys, MaxItems <- 3,
    Quotas <- FewAllocations, IntMax <- 26, DefaultSize <- 4, Prebuffers <- FirstSizes,
    EncodeSize <- 4, MaxEncodeSize <- 16
-----------------------------------------------------------------------------
(* One byte of every kind, a comment and an escaped quote. *)
MinifyPieces == {<<"a">>, <<" ">>, <<"\n">>, <<"/">>, <<"*">>, <<"/", "*">>, <<"\"">>, <<"\\">>,
                 <<"\\", "\"">>}

Minifier == INSTANCE CJSONMinify WITH Pieces <- MinifyPieces, MaxPieces <- 4

(* Two names that differ in the case alone. *)
ComparedLeaves == {[type |-> "Number", value |-> "1", key |-> "NoKey", kids |-> <<>>],
                   [type |-> "String", value |-> "NULL", key |-> "NoKey", kids |-> <<>>]}
ComparedKeys == {"k", "K"}
MCLower(name) == IF name = "K" THEN "k" ELSE name

Comparer == INSTANCE CJSONCompare WITH
    Leaves <- ComparedLeaves, Keys <- ComparedKeys, Lower <- MCLower, MaxItems <- 5,
    MaxMembers <- 2
-----------------------------------------------------------------------------
IdleReader == alphabet = Idle /\ text = Idle /\ global_error = Idle
IdleStrings == literal = Idle
IdlePrinter == size = Idle /\ pool = Idle
IdleMinify == memory = Idle /\ json = Idle /\ into = Idle /\ original = Idle

Init ==
    \/ /\ part = "parser" /\ Parser!Init
       /\ IdleStrings /\ IdlePrinter /\ IdleMinify /\ built = Idle /\ pc = Idle
    \/ /\ part = "strings" /\ Strings!Init
       /\ IdleReader /\ IdlePrinter /\ IdleMinify /\ built = Idle /\ pc = Idle /\ outcome = Idle
    \/ /\ part = "printer" /\ Printer!Init
       /\ IdleReader /\ IdleStrings /\ IdleMinify /\ pieces = Idle
    \/ /\ part = "minify" /\ Minifier!Init
       /\ IdleReader /\ IdleStrings /\ IdlePrinter /\ built = Idle /\ outcome = Idle
    \/ /\ part = "compare" /\ Comparer!Init
       /\ IdleReader /\ IdleStrings /\ IdlePrinter /\ IdleMinify
       /\ pieces = Idle /\ outcome = Idle /\ pc = Idle

Next ==
    /\ UNCHANGED part
    /\ \/ /\ part = "parser" /\ Parser!Next
          /\ UNCHANGED <<ofStrings, ofPrinter, ofMinify, built, pc>>
       \/ /\ part = "strings" /\ Strings!Next
          /\ UNCHANGED <<ofReader, ofPrinter, ofMinify, outcome, built, pc>>
       \/ /\ part = "printer" /\ Printer!Next
          /\ UNCHANGED <<ofReader, ofStrings, ofMinify, pieces>>
       \/ /\ part = "minify" /\ Minifier!Next
          /\ UNCHANGED <<ofReader, ofStrings, ofPrinter, outcome, built>>
       \/ /\ part = "compare" /\ Comparer!Next
          /\ UNCHANGED <<ofReader, ofStrings, ofPrinter, ofMinify, pieces, outcome, pc>>

(* A call that has begun runs on; the caller may write no more. *)
Calls == pc \in {"encoding", "minifying"} /\ Next
Spec == Init /\ [][Next]_vars /\ WF_vars(Calls)
-----------------------------------------------------------------------------
(* cJSON_Parse accepts every text that is one JSON value nested no deeper  *)
(* than the limit, by length every text that begins with one, and nothing  *)
(* else but the numbers strtod reads and JSON does not have.               *)
AcceptsJSON == part = "parser" => Parser!AcceptsJSON

(* Whatever allocation fails, and wherever the text is cut, the parser and *)
(* the printer hold after a call exactly the memory they return.           *)
MemoryBalances ==
    /\ part = "parser" => Parser!AllocationsBalance
    /\ part = "printer" => Printer!BuffersBalance

(* Nothing is read past the input given or before it is written, nothing   *)
(* is written past the room there is, and an error is shown inside the     *)
(* text: of the parser, the string literals, the buffers of the printer,   *)
(* and the two pointers of minify.                                         *)
StaysInBuffers ==
    /\ part = "parser" =>
          Parser!TypeOK /\ Parser!NothingReadBeyond /\ Parser!ErrorPointsIntoText
    /\ part = "strings" => Strings!TypeOK /\ Strings!OutputFits /\ Strings!NothingReadBeyond
    /\ part = "printer" => Printer!TypeOK /\ Printer!StaysInBuffer
    /\ part = "minify" => Minifier!TypeOK /\ Minifier!InputUntouched

(* What is written is what is parsed, what is printed is the value,        *)
(* printing and parsing undo each other, of values and of strings, and     *)
(* minifying takes out blanks and comments, and nothing else.              *)
TextsKeepMeaning ==
    /\ part = "parser" => Parser!ParsesWhatIsWritten
    /\ part = "strings" => Strings!LiteralsBecomeUTF8 /\ Strings!PrintedParsesBack
    /\ part = "printer" => Printer!PrintsTheValue /\ Printer!ParsesBack
    /\ part = "minify" => Minifier!MinifiesText

(* The sizes the code and cJSON.h count on are enough: five bytes more     *)
(* than the text, the buffers encode doubles, the length it returns.       *)
SizesSuffice ==
    part = "printer" =>
        Printer!FiveMoreIsEnough /\ Printer!EncodeFits /\ Printer!LengthOfContainers

(* cJSON_Compare finds equal what means the same, in either order, and     *)
(* more when the case does not matter.                                     *)
ComparesMeaning ==
    part = "compare" =>
        Comparer!Symmetric /\ Comparer!EqualIfSameMeaning /\ Comparer!CaseOnlyWidens

(* An encode and a minify end. *)
CallsEnd == pc \in {"encoding", "minifying"} ~> pc = "done"
=============================================================================
