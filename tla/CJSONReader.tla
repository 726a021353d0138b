----------------------------- MODULE CJSONReader -----------------------------
(***************************************************************************)
(* The cJSON parser (src/c/cJSON.c), which reads every request body and    *)
(* every upstream answer of the modules through CJSON.decode, one operator *)
(* to a function of the C file.                                            *)
(*                                                                         *)
(* A parse_buffer b is the C structure (content, length, offset, depth)    *)
(* with what the C code keeps in the heap and in its return value: how     *)
(* many allocations are alive (live) and will still succeed (quota), the   *)
(* value of the last item parsed (val) and whether it was parsed (ok).     *)
(* A text is a sequence of bytes written as one-character strings; the     *)
(* escapes inside strings are the subject of CJSONStrings.                 *)
(***************************************************************************)
EXTENDS SequencesExt, Integers

CONSTANT NestingLimit   \* CJSON_NESTING_LIMIT

NUL == "NUL"
BOM == <<"EF", "BB", "BF">>
White == {" ", "\t", "\n", NUL}          \* the bytes up to 32
Digits == {"0", "1"}
NumberBytes == Digits \cup {"+", "-", "e", "E", "."}

NoValue == [type |-> "Invalid", kids |-> <<>>, key |-> <<>>]
Scalar(type) == [NoValue EXCEPT !.type = type]
Text(type, bytes) == [type |-> type, kids |-> <<>>, key |-> <<>>, bytes |-> bytes]
Under(v, key) == [v EXCEPT !.key = key]

(* The allocations an item holds: itself, its text, its key, its children. *)
RECURSIVE Size(_)
Size(v) == 1 + (IF v.type = "String" THEN 1 ELSE 0)
             + (IF v.key # <<>> THEN 1 ELSE 0)
             + FoldLeft(LAMBDA n, kid : n + Size(kid), 0, v.kids)
SizeOf(list) == FoldLeft(LAMBDA n, v : n + Size(v), 0, list)
-----------------------------------------------------------------------------
(* The parse_buffer.                                                       *)

can_read(b, size) == b.offset + size <= b.length
can_access_at_index(b, index) == b.offset + index < b.length
buffer_at_offset(b) == b.content[b.offset + 1]

Sees(b, byte) == can_access_at_index(b, 0) /\ buffer_at_offset(b) = byte
Starts(b, word) == /\ can_read(b, Len(word))
                   /\ SubSeq(b.content, b.offset + 1, b.offset + Len(word)) = word

Advance(b, n) == [b EXCEPT !.offset = @ + n]
Fail(b) == [b EXCEPT !.ok = FALSE]
Parsed(b, v, n) == [b EXCEPT !.ok = TRUE, !.val = v, !.offset = @ + n]
Allocate(b) == [b EXCEPT !.quota = @ - 1, !.live = @ + 1]
(* cJSON_Delete of items that hold n allocations. *)
Release(b, n) == [b EXCEPT !.live = @ - n]

(* To the next byte above 32; at the end, one step back from it, unless    *)
(* the buffer was at its end before.                                       *)
buffer_skip_whitespace(b) ==
    LET seen == {i \in b.offset .. b.length - 1 : b.content[i + 1] \notin White}
    IN  IF ~can_access_at_index(b, 0) THEN b
        ELSE [b EXCEPT !.offset = IF seen = {} THEN b.length - 1 ELSE Min(seen)]

skip_utf8_bom(b) ==
    IF can_access_at_index(b, 4) /\ SubSeq(b.content, 1, 3) = BOM
    THEN Advance(b, 3) ELSE b
-----------------------------------------------------------------------------
(* Scalars.                                                                *)

(* strtod: the length of the longest prefix that is a number. *)
AllIn(s, S) == ToSet(s) \subseteq S
IsDecimal(s) ==
    \/ s # <<>> /\ AllIn(s, Digits)
    \/ \E k \in DOMAIN s : /\ s[k] = "." /\ Len(s) > 1
                           /\ AllIn(RemoveAt(s, k), Digits)
Unsigned(s) == IF s # <<>> /\ s[1] \in {"+", "-"} THEN Tail(s) ELSE s
IsFloat(s) ==
    \/ IsDecimal(Unsigned(s))
    \/ \E k \in DOMAIN s :
          /\ s[k] \in {"e", "E"}
          /\ IsDecimal(Unsigned(SubSeq(s, 1, k - 1)))
          /\ LET exponent == Unsigned(SubSeq(s, k + 1, Len(s)))
             IN  exponent # <<>> /\ AllIn(exponent, Digits)
strtod(s) == Max({0} \cup {n \in DOMAIN s : IsFloat(SubSeq(s, 1, n))})

(* The bytes of a number are copied, at most 63, and handed to strtod. *)
parse_number(b) ==
    LET rest == SubSeq(b.content, b.offset + 1, Min({b.length, b.offset + 63}))
        others == {i \in DOMAIN rest : rest[i] \notin NumberBytes}
        copied == SubSeq(rest, 1, Min(others \cup {Len(rest) + 1}) - 1)
        n == strtod(copied)
    IN  IF n = 0 THEN Fail(b)
        ELSE Parsed(b, Text("Number", SubSeq(copied, 1, n)), n)

(* parse_string without the escapes: up to the next quote, into a copy.    *)
ParseString(b) ==
    LET quotes == {i \in b.offset + 1 .. b.length - 1 : b.content[i + 1] = "\""}
        end == Min(quotes)
    IN  IF buffer_at_offset(b) # "\"" \/ quotes = {} \/ b.quota = 0
        THEN Fail(Advance(b, 1))
        ELSE [Parsed(Allocate(b),
                     Text("String", SubSeq(b.content, b.offset + 1, end + 1)), 0)
                 EXCEPT !.offset = end + 1]
-----------------------------------------------------------------------------
(* Arrays and objects.                                                     *)

(* The end of a container: list is what was parsed. *)
Close(b, type, list) ==
    [b EXCEPT !.ok = TRUE, !.depth = @ - 1, !.offset = @ + 1,
              !.val = [type |-> type, kids |-> list, key |-> <<>>]]

\* Mutant: only the item that failed is freed, not those before it.
GiveUpOne(b, list, n) == Fail(Release(b, n))

(* The fail path of parse_array and parse_object: the items linked so far  *)
(* are deleted, the last one with the n allocations it holds.              *)
GiveUp(b, list, n) == Fail(Release(b, SizeOf(list) + n))

(* The bracket is passed; an end of the buffer here steps back before it.  *)
Opened(b) ==
    buffer_skip_whitespace(Advance([b EXCEPT !.depth = @ + 1], 1))

RECURSIVE parse_value(_), Elements(_, _), Members(_, _)

\* Mutant: the last element is not linked.
AfterElementButLast(b, list) ==
    IF Sees(b, ",") THEN Elements(b, list)
    ELSE IF Sees(b, "]") THEN Close(b, "Array", Front(list))
    ELSE GiveUp(b, list, 0)

AfterElement(b, list) ==
    IF Sees(b, ",") THEN Elements(b, list)
    ELSE IF Sees(b, "]") THEN Close(b, "Array", list)
    ELSE GiveUp(b, list, 0)

ElementParsed(b, list) ==
    IF b.ok THEN AfterElement(buffer_skip_whitespace(b), Append(list, b.val))
    ELSE GiveUp(b, list, 1)

(* One turn of the do-while of parse_array, the offset before the element. *)
Elements(b, list) ==
    IF b.quota = 0 THEN GiveUp(b, list, 0)
    ELSE ElementParsed(parse_value(buffer_skip_whitespace(Advance(Allocate(b), 1))), list)

FirstElement(b) ==
    IF Sees(b, "]") THEN Close(b, "Array", <<>>)
    ELSE IF can_access_at_index(b, 0) THEN Elements(Advance(b, -1), <<>>)
    ELSE Fail(Advance(b, -1))

parse_array(b) == IF b.depth >= NestingLimit THEN Fail(b) ELSE FirstElement(Opened(b))

\* Mutant: a comma may stand before the closing bracket.
AfterMemberTrailingComma(b, list) ==
    IF Sees(b, ",") /\ ~Sees(Advance(b, 1), "}") THEN Members(b, list)
    ELSE IF Sees(b, "}") \/ Sees(b, ",") THEN Close(b, "Object", list)
    ELSE GiveUp(b, list, 0)

AfterMember(b, list) ==
    IF Sees(b, ",") THEN Members(b, list)
    ELSE IF Sees(b, "}") THEN Close(b, "Object", list)
    ELSE GiveUp(b, list, 0)

MemberParsed(b, list, key) ==
    IF b.ok THEN AfterMember(buffer_skip_whitespace(b), Append(list, Under(b.val, key)))
    ELSE GiveUp(b, list, 2)

AfterName(b, list, key) ==
    IF Sees(b, ":")
    THEN MemberParsed(parse_value(buffer_skip_whitespace(Advance(b, 1))), list, key)
    ELSE GiveUp(b, list, 2)

NameParsed(b, list) ==
    IF b.ok THEN AfterName(buffer_skip_whitespace(b), list, b.val.bytes)
    ELSE GiveUp(b, list, 1)

(* One turn of the do-while of parse_object: a name, a colon and a value.  *)
Members(b, list) ==
    IF b.quota = 0 THEN GiveUp(b, list, 0)
    ELSE IF ~can_access_at_index(b, 1) THEN GiveUp(Allocate(b), list, 1)
    ELSE NameParsed(ParseString(buffer_skip_whitespace(Advance(Allocate(b), 1))), list)

FirstMember(b) ==
    IF Sees(b, "}") THEN Close(b, "Object", <<>>)
    ELSE IF can_access_at_index(b, 0) THEN Members(Advance(b, -1), <<>>)
    ELSE Fail(Advance(b, -1))

parse_object(b) == IF b.depth >= NestingLimit THEN Fail(b) ELSE FirstMember(Opened(b))

parse_value(b) ==
    IF Starts(b, <<"n", "u", "l", "l">>) THEN Parsed(b, Scalar("NULL"), 4)
    ELSE IF Starts(b, <<"f", "a", "l", "s", "e">>) THEN Parsed(b, Scalar("False"), 5)
    ELSE IF Starts(b, <<"t", "r", "u", "e">>) THEN Parsed(b, Scalar("True"), 4)
    ELSE IF Sees(b, "\"") THEN ParseString(b)
    ELSE IF \E first \in Digits \cup {"-"} : Sees(b, first) THEN parse_number(b)
    ELSE IF Sees(b, "[") THEN parse_array(b)
    ELSE IF Sees(b, "{") THEN parse_object(b)
    ELSE Fail(b)
-----------------------------------------------------------------------------
(* The calls.                                                              *)

Failed(b) ==
    LET position == IF b.offset < b.length THEN b.offset ELSE b.length - 1
    IN  [item |-> NoValue, parsed |-> FALSE, live |-> b.live, depth |-> b.depth,
         length |-> b.length, end |-> IF b.length = 0 THEN 0 ELSE position]

Accepted(b) ==
    [item |-> b.val, parsed |-> TRUE, live |-> b.live, depth |-> b.depth,
     length |-> b.length, end |-> b.offset]

ValueParsed(b, require_null_terminated) ==
    IF ~b.ok THEN Failed(Release(b, 1))
    ELSE IF ~require_null_terminated THEN Accepted(b)
    ELSE LET b1 == buffer_skip_whitespace(b)
         IN  IF Sees(b1, NUL) THEN Accepted(b1) ELSE Failed(Release(b1, Size(b1.val)))

ParsedFrom(b0, require_null_terminated) ==
    IF b0.length = 0 \/ b0.quota = 0 THEN Failed(b0)
    ELSE ValueParsed(parse_value(buffer_skip_whitespace(skip_utf8_bom(Allocate(b0)))),
                     require_null_terminated)

cJSON_ParseWithLengthOpts(content, length, require_null_terminated, quota) ==
    ParsedFrom([content |-> content, length |-> length, offset |-> 0, depth |-> 0,
                live |-> 0, quota |-> quota, ok |-> FALSE, val |-> NoValue],
               require_null_terminated)

(* The caller's text ends with its NUL, whatever follows.                  *)
cJSON_ParseWithOpts(content, require_null_terminated, quota) ==
    LET strlen == SelectInSeq(content, LAMBDA byte : byte = NUL) - 1
    IN  cJSON_ParseWithLengthOpts(content, strlen + 1, require_null_terminated, quota)

cJSON_ParseWithLength(content, length, quota) ==
    cJSON_ParseWithLengthOpts(content, length, FALSE, quota)
-----------------------------------------------------------------------------
(* What a JSON text is, from the grammar of RFC 8259 alone, but for the    *)
(* strings, which are any bytes between two quotes. The numbers have two   *)
(* readings: those of JSON, and the loose ones, which may also begin with  *)
(* zeros, end with their point, or have nothing between minus and point.   *)

Trim(s) ==
    LET ink == {i \in DOMAIN s : s[i] \notin White}
    IN  IF ink = {} THEN <<>> ELSE SubSeq(s, Min(ink), Max(ink))
Inside(s) == SubSeq(s, 2, Len(s) - 1)
Between(s, open, close) == Len(s) >= 2 /\ s[1] = open /\ s[Len(s)] = close
Before(s, k) == SubSeq(s, 1, k - 1)
After(s, k) == SubSeq(s, k + 1, Len(s))
IsString(s) == Between(s, "\"", "\"") /\ "\"" \notin ToSet(Inside(s))

AreDigits(s) == s # <<>> /\ AllIn(s, Digits)
IsFraction(s) == s # <<>> /\ s[1] = "." /\ AreDigits(Tail(s))
IsExponent(s) ==
    /\ s # <<>> /\ s[1] \in {"e", "E"}
    /\ \/ AreDigits(Tail(s))
       \/ Len(s) > 2 /\ s[2] \in {"+", "-"} /\ AreDigits(After(s, 2))
IsMagnitude(whole, fraction, loose, negative) ==
    \/ /\ AreDigits(whole) /\ (loose \/ whole[1] # "0" \/ Len(whole) = 1)
       /\ fraction = <<>> \/ IsFraction(fraction) \/ (loose /\ fraction = <<".">>)
    \/ loose /\ negative /\ whole = <<>> /\ IsFraction(fraction)
IsNumber(s, loose) ==
    LET negative == s # <<>> /\ s[1] = "-"
        u == IF negative THEN Tail(s) ELSE s
    IN  \E m \in 0 .. Len(u) : \E n \in m .. Len(u) :
            /\ IsMagnitude(SubSeq(u, 1, m), SubSeq(u, m + 1, n), loose, negative)
            /\ n = Len(u) \/ IsExponent(After(u, n))

IsScalar(s, loose) ==
    \/ s \in {<<"n", "u", "l", "l">>, <<"t", "r", "u", "e">>, <<"f", "a", "l", "s", "e">>}
    \/ IsString(s)
    \/ IsNumber(s, loose)

RECURSIVE IsValue(_, _, _), IsList(_, _, _), IsMembers(_, _, _)
(* s is a value with at most d brackets open at once. *)
IsValue(s, d, loose) ==
    \/ IsScalar(s, loose)
    \/ /\ d > 0 /\ Between(s, "[", "]")
       /\ Trim(Inside(s)) = <<>> \/ IsList(Inside(s), d - 1, loose)
    \/ /\ d > 0 /\ Between(s, "{", "}")
       /\ Trim(Inside(s)) = <<>> \/ IsMembers(Inside(s), d - 1, loose)
IsList(s, d, loose) ==
    \/ IsValue(Trim(s), d, loose)
    \/ \E k \in DOMAIN s : /\ s[k] = "," /\ IsValue(Trim(Before(s, k)), d, loose)
                           /\ IsList(After(s, k), d, loose)
IsMembers(s, d, loose) ==
    \E c \in DOMAIN s :
        /\ s[c] = ":" /\ IsString(Trim(Before(s, c)))
        /\ \/ IsValue(Trim(After(s, c)), d, loose)
           \/ \E k \in c + 1 .. Len(s) :
                 /\ s[k] = ","
                 /\ IsValue(Trim(SubSeq(s, c + 1, k - 1)), d, loose)
                 /\ IsMembers(After(s, k), d, loose)

(* The text of a value, without the white space. *)
RECURSIVE Written(_)
Listed(list) == FoldLeft(LAMBDA s, v : IF s = <<>> THEN Written(v) ELSE s \o <<",">> \o Written(v),
                         <<>>, list)
Written(v) ==
    (IF v.key = <<>> THEN <<>> ELSE v.key \o <<":">>) \o
    CASE v.type = "NULL" -> <<"n", "u", "l", "l">>
      [] v.type = "True" -> <<"t", "r", "u", "e">>
      [] v.type = "False" -> <<"f", "a", "l", "s", "e">>
      [] v.type \in {"String", "Number"} -> v.bytes
      [] v.type = "Array" -> <<"[">> \o Listed(v.kids) \o <<"]">>
      [] v.type = "Object" -> <<"{">> \o Listed(v.kids) \o <<"}">>
Dark(s) == SelectSeq(s, LAMBDA byte : byte \notin White)
=============================================================================
