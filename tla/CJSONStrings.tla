---------------------------- MODULE CJSONStrings ----------------------------
(***************************************************************************)
(* Strings on their way into and out of cJSON (src/c/cJSON.c): parse_string*)
(* with its escapes and UTF-16 literals, print_string_ptr, and the sizes   *)
(* both compute before they write.  A byte is a number; a caller writes a  *)
(* literal piece by piece, which is parsed as the text after an opening    *)
(* quote and printed as the bytes of a string.                             *)
(***************************************************************************)
EXTENDS SequencesExt, Integers

CONSTANTS
    Pieces,     \* what is written: sequences of bytes
    MaxPieces,  \* bound: pieces written
    Beyond      \* what may follow in memory

VARIABLES literal, pieces

vars == <<literal, pieces>>

Byte == 0 .. 255
Quote == 34
Backslash == 92
Slash == 47
UCase == 117
(* The escapes of one letter, as the letter and the byte it stands for. *)
Letters == {<<98, 8>>, <<102, 12>>, <<110, 10>>, <<114, 13>>, <<116, 9>>}
Meaning(letter) == (CHOOSE e \in Letters : e[1] = letter)[2]
LetterFor(byte) == (CHOOSE e \in Letters : e[2] = byte)[1]
Named == {e[1] : e \in Letters}
Nameable == {e[2] : e \in Letters}
-----------------------------------------------------------------------------
(* UTF-16 literals.                                                        *)

HexDigit(byte) ==
    CASE byte \in 48 .. 57 -> byte - 48
      [] byte \in 65 .. 70 -> 10 + byte - 65
      [] byte \in 97 .. 102 -> 10 + byte - 97
      [] OTHER -> -1

(* Four bytes from index i of s; 0 if one of them is no digit. *)
parse_hex4(s, i) ==
    LET digits == [k \in 1 .. 4 |-> HexDigit(s[i + k - 1])]
    IN  IF \E k \in 1 .. 4 : digits[k] = -1 THEN 0
        ELSE digits[1] * 4096 + digits[2] * 256 + digits[3] * 16 + digits[4]

Rejected == [taken |-> 0, bytes |-> <<>>]

(* The bytes, the last first in the code: six bits each, marked 10. *)
Encode(codepoint) ==
    LET low(n) == 128 + ((codepoint \div n) % 64)
    IN  CASE codepoint < 128 -> <<codepoint>>
          [] codepoint \in 128 .. 2047 -> <<192 + codepoint \div 64, low(1)>>
          [] codepoint \in 2048 .. 65535 -> <<224 + codepoint \div 4096, low(64), low(1)>>
          [] OTHER -> <<240 + codepoint \div 262144, low(4096), low(64), low(1)>>

(* The literal that starts at index i of s, which ends before index end:   *)
(* the bytes it takes, none if it is refused, and its UTF-8.               *)
utf16_literal_to_utf8(s, i, end) ==
    LET first == parse_hex4(s, i + 2)
        second == parse_hex4(s, i + 8)
    IN  IF end - i < 6 \/ first \in 56320 .. 57343 THEN Rejected
        ELSE IF first \notin 55296 .. 56319 THEN [taken |-> 6, bytes |-> Encode(first)]
        ELSE IF end - (i + 6) < 6 \/ s[i + 6] # Backslash \/ s[i + 7] # UCase
                \/ second \notin 56320 .. 57343
        THEN Rejected
        ELSE [taken |-> 12,
              bytes |-> Encode(65536 + (first % 1024) * 1024 + (second % 1024))]
-----------------------------------------------------------------------------
(* parse_string.                                                           *)

(* The scan for the closing quote, from index i of s up to the length of   *)
(* the buffer: its index, none (0) if the buffer ends first, and how many  *)
(* bytes the escapes will save at least.                                   *)
RECURSIVE ClosingQuote(_, _, _, _)
ClosingQuote(s, i, length, skipped) ==
    IF i > length THEN [end |-> 0, skipped |-> skipped]
    ELSE IF s[i] = Quote THEN [end |-> i, skipped |-> skipped]
    ELSE IF s[i] = Backslash
    THEN IF i + 1 > length THEN [end |-> 0, skipped |-> skipped]
         ELSE ClosingQuote(s, i + 2, length, skipped + 1)
    ELSE ClosingQuote(s, i + 1, length, skipped)

(* The copy from index i up to end: what was written, and whether the loop *)
(* reached the end.                                                        *)
RECURSIVE Unescape(_, _, _, _)
Unescape(s, i, end, out) ==
    LET code == s[i + 1]
        u == utf16_literal_to_utf8(s, i, end)
    IN  IF i >= end THEN [out |-> out, ok |-> TRUE]
        ELSE IF s[i] # Backslash THEN Unescape(s, i + 1, end, Append(out, s[i]))
        ELSE IF code \in Named THEN Unescape(s, i + 2, end, Append(out, Meaning(code)))
        ELSE IF code \in {Quote, Backslash, Slash}
        THEN Unescape(s, i + 2, end, Append(out, code))
        ELSE IF code = UCase /\ u.taken # 0
        THEN Unescape(s, i + u.taken, end, out \o u.bytes)
        ELSE [out |-> out, ok |-> FALSE]

\* Mutant: an escape is taken to save two bytes.
AllocatedTooLittle(end, skipped) == end - 2 * skipped

(* The size asked of the allocator for a literal that ends at index end.   *)
Allocated(end, skipped) == end - skipped + 1

(* The string whose opening quote is just before index 1 of s.             *)
parse_string(s, length) ==
    LET scan == ClosingQuote(s, 1, length, 0)
        copy == Unescape(s, 1, scan.end, <<>>)
    IN  IF scan.end = 0 THEN [ok |-> FALSE, out |-> <<>>, size |-> 1, end |-> 0]
        ELSE [ok |-> copy.ok, out |-> copy.out, end |-> scan.end,
              size |-> Allocated(scan.end, scan.skipped)]
-----------------------------------------------------------------------------
(* print_string_ptr.                                                       *)

Hex(n) == IF n < 10 THEN 48 + n ELSE 97 + n - 10

Escaped(byte) ==
    IF byte \in {Quote, Backslash} THEN <<Backslash, byte>>
    ELSE IF byte \in Nameable THEN <<Backslash, LetterFor(byte)>>
    ELSE IF byte < 32 THEN <<Backslash, UCase, 48, 48, Hex(byte \div 16), Hex(byte % 16)>>
    ELSE <<byte>>

escape_characters(s) ==
    FoldLeft(LAMBDA n, byte : n + IF byte \in {Quote, Backslash} \cup Nameable THEN 1
                                  ELSE IF byte < 32 THEN 5 ELSE 0, 0, s)

(* Where the code writes the closing quote, and the room it asks for.      *)
output_length(s) == Len(s) + escape_characters(s)
Reserved(s) == output_length(s) + 3

print_string_ptr(s) ==
    <<Quote>> \o FlattenSeq([i \in DOMAIN s |-> Escaped(s[i])]) \o <<Quote>>
-----------------------------------------------------------------------------
Init == literal = <<>> /\ pieces = 0

Write(piece) ==
    /\ pieces < MaxPieces
    /\ literal' = literal \o piece
    /\ pieces' = pieces + 1

Next == \E piece \in Pieces : Write(piece)

Spec == Init /\ [][Next]_vars

AnyRest == CHOOSE rest \in Beyond : TRUE
Result == parse_string(literal \o AnyRest, Len(literal))
(* The bytes of literal as a C string: up to a NUL. *)
CString == SubSeq(literal, 1, SelectInSeq(Append(literal, 0), LAMBDA b : b = 0) - 1)
-----------------------------------------------------------------------------
TypeOK ==
    /\ ToSet(literal) \subseteq Byte
    /\ ToSet(Result.out) \subseteq Byte
    /\ pieces \in 0 .. MaxPieces

(* The size computed before the escapes are looked at holds whatever they  *)
(* turn into, with the closing NUL, also when the loop gives up half-way.  *)
OutputFits == Len(Result.out) + 1 <= Result.size

(* Neither the scan nor a UTF-16 literal looks past the buffer, nor a      *)
(* literal past the closing quote.                                         *)
NothingReadBeyond ==
    /\ \A rest \in Beyond : parse_string(literal \o rest, Len(literal)) = Result
    /\ Result.end # 0 => \A rest \in Beyond :
          LET cut == SubSeq(literal, 1, Result.end)
          IN  parse_string(cut \o rest, Result.end) = Result

(* UTF-8, from its definition: the code point of a well-formed sequence.   *)
Decoded(s) ==
    LET n == Len(s)
        mark == <<0, 192, 224, 240>>[n]
        weight == <<1, 64, 4096, 262144>>
    IN  FoldLeft(+, 0, [k \in 1 .. n |->
            IF k = 1 THEN (s[1] - mark) * weight[n] ELSE (s[k] - 128) * weight[n - k + 1]])
Shortest(s) == Decoded(s) >= <<0, 128, 2048, 65536>>[Len(s)]
WellFormed(s) ==
    /\ s[1] \in <<0 .. 127, 192 .. 223, 224 .. 239, 240 .. 247>>[Len(s)]
    /\ \A k \in 2 .. Len(s) : s[k] \in 128 .. 191

(* Every UTF-16 literal that is taken becomes the shortest UTF-8 of the    *)
(* code point it writes, never half of a surrogate pair.                   *)
LiteralsBecomeUTF8 ==
    \A i \in 1 .. Len(literal) - 5 :
        literal[i] = Backslash /\ literal[i + 1] = UCase =>
            LET u == utf16_literal_to_utf8(literal \o AnyRest, i, Len(literal) + 1)
                first == parse_hex4(literal, i + 2)
            IN  u.taken # 0 =>
                /\ WellFormed(u.bytes) /\ Shortest(u.bytes)
                /\ Decoded(u.bytes) <= 1114111 /\ Decoded(u.bytes) \notin 55296 .. 57343
                /\ u.taken = 6 => Decoded(u.bytes) = first
                /\ u.taken = 12 => Decoded(u.bytes) - 65536
                       = (first - 55296) * 1024 + (parse_hex4(literal, i + 8) - 56320)

(* What is printed takes exactly the room that was reserved, its closing   *)
(* quote where the code puts it, and parses back to the string.            *)
PrintedParsesBack ==
    LET printed == print_string_ptr(CString)
        parsed == parse_string(Tail(printed), Len(printed) - 1)
    IN  /\ Len(printed) = output_length(CString) + 2
        /\ Len(printed) + 1 = Reserved(CString)
        /\ parsed.ok /\ parsed.out = CString
=============================================================================
