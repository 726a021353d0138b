------------------------------- MODULE XssScan -------------------------------
(***************************************************************************)
(* libinjection_xss (libinjection_xss.c) on top of Html5Tokenizer: a text  *)
(* is tokenized once for each context it could stand in, and every token   *)
(* is judged, an attribute's value by the attribute's name.  What is       *)
(* checked is the scan, its memory of the last name and its decoding of    *)
(* character references; which names the tables hold is data, and two      *)
(* names stand for each table.                                             *)
(***************************************************************************)
EXTENDS Html5Tokenizer

(* The html5_flags tried, in order; none where only decoding is looked at. *)
Contexts == alphabet.contexts

VARIABLES
    attr,      \* attribute_t of the last name
    context,   \* the index of the context tried
    verdict    \* injection_result_t, NoVerdict until it is known

NoVerdict == 2

Spelled(s) == [i \in DOMAIN s |-> Upcase(s[i])]
(* Entries of the tables, of every type of attribute; the texts are made   *)
(* of their words.                                                         *)
BLACKATTREVENT == {<<"C", "U", "T">>, <<"L", "O", "A", "D">>}
BLACKATTR == {[name |-> <<"T", "O">>, atype |-> "TYPE_ATTR_URL"],
              [name |-> <<"S", "T", "Y", "L", "E">>, atype |-> "TYPE_STYLE"],
              [name |-> <<"A", "T", "T", "R", "I", "B", "U", "T", "E", "N", "A", "M", "E">>,
               atype |-> "TYPE_ATTR_INDIRECT"]}
BLACKTAG == {<<"B", "A", "S", "E">>, <<"X", "M", "L">>}
BlackUrls == {<<"J", "A", "V", "A">>, <<"D", "A", "T", "A">>}
-----------------------------------------------------------------------------
(* Character references.                                                   *)

Digits == <<"0", "1", "2", "3", "4", "5", "6", "7", "8", "9">>
Index(byte, s) == SelectInSeq(s, LAMBDA b : b = byte)
Others == [b \in {NUL, "\t", " ", "!", "#", "%", "&", "'", "/", ":", ";", "<", "=", ">", "FF"} |->
              CASE b = NUL -> 0 [] b = "\t" -> 9 [] b = " " -> 32 [] b = "!" -> 33
                [] b = "#" -> 35 [] b = "%" -> 37 [] b = "&" -> 38 [] b = "'" -> 39
                [] b = "/" -> 47 [] b = ":" -> 58 [] b = ";" -> 59 [] b = "<" -> 60
                [] b = "=" -> 61 [] b = ">" -> 62 [] b = "FF" -> 255]
Code(byte) == CASE byte \in DOMAIN Others -> Others[byte]
                [] byte \in ToSet(Digits) -> 47 + Index(byte, Digits)
                [] byte \in ToSet(Uppers) -> 64 + Index(byte, Uppers)
                [] byte \in ToSet(Lowers) -> 96 + Index(byte, Lowers)

(* gsHexDecodeMap, 256 for a byte that is no digit; and decimal digits. *)
HexValue(byte) ==
    IF byte \in ToSet(Digits) THEN Index(byte, Digits) - 1
    ELSE IF Index(Upcase(byte), SubSeq(Uppers, 1, 6)) # 0
    THEN 9 + Index(Upcase(byte), SubSeq(Uppers, 1, 6)) ELSE 256
Value(byte, base) == IF HexValue(byte) < base THEN HexValue(byte) ELSE 256

Limit == 1048831   \* 0x1000FF
Plain(s) == [code |-> Code(s[1]), consumed |-> 1]

(* The code at the start of s, which is not empty, and the bytes it takes: *)
(* &#ddd or &#xhh with or without its semicolon, anything else one byte.   *)
(* The digits are those from first to before stop.                         *)
Reference(s, first, stop, val) ==
    IF val > Limit /\ stop > first + 1 THEN Plain(s)
    ELSE [code |-> val, consumed |-> IF stop <= Len(s) /\ s[stop] = ";" THEN stop ELSE stop - 1]
ReferenceTo(s, base, first, stop) ==
    IF stop = first THEN Plain(s)
    ELSE Reference(s, first, stop,
                   FoldLeft(LAMBDA v, byte : IF v > Limit THEN v ELSE base * v + Value(byte, base),
                            0, SubSeq(s, first, stop - 1)))
ReferenceFrom(s, base, first) ==
    ReferenceTo(s, base, first,
                Min({Len(s) + 1} \cup {i \in first .. Len(s) : Value(s[i], base) = 256}))
html_decode_char_at(s) ==
    IF s[1] # "&" \/ Len(s) < 2 \/ s[2] # "#" THEN Plain(s)
    ELSE IF Len(s) >= 3 /\ s[3] \in {"x", "X"} THEN ReferenceFrom(s, 16, 4)
    ELSE ReferenceFrom(s, 10, 3)

UpCode(code) == IF code \in 97 .. 122 THEN code - 32 ELSE code
Drop(s, n) == SubSeq(s, n + 1, Len(s))

RECURSIVE StartsWith(_, _, _)
(* Leading codes up to 32 are passed, and 0 and 10 anywhere. *)
StartsAt(prefix, code, rest, first) ==
    IF code \in {0, 10} \/ (first /\ code <= 32) THEN StartsWith(prefix, rest, first)
    ELSE UpCode(code) % 256 = Code(prefix[1]) /\ StartsWith(Tail(prefix), rest, FALSE)
StartsAfter(prefix, c, s, first) == StartsAt(prefix, c.code, Drop(s, c.consumed), first)
StartsWith(prefix, s, first) ==
    IF s = <<>> \/ prefix = <<>> THEN prefix = <<>>
    ELSE StartsAfter(prefix, html_decode_char_at(s), s, first)

htmlencode_startswith(prefix, s) == StartsWith(prefix, s, TRUE)
-----------------------------------------------------------------------------
(* The tables.                                                             *)

(* cstrcasecmp_with_null over the n first bytes: NULs do not count. *)
Same(name, s, n) ==
    name = Spelled(SelectSeq(SubSeq(s, 1, n), LAMBDA byte : byte # NUL))

is_black_tag(s) ==
    /\ Len(s) >= 3
    /\ \/ \E name \in BLACKTAG : Same(name, s, Len(s))
       \/ Spelled(SubSeq(s, 1, 3)) \in {<<"S", "V", "G">>, <<"X", "S", "L">>}

is_black_attr(s) ==
    LET n == Len(s)
        Least(a, b) == IF a < b THEN a ELSE b
        event == /\ Spelled(SubSeq(s, 1, 2)) = <<"O", "N">>
                 /\ \E name \in BLACKATTREVENT : Same(name, Drop(s, 2), Least(n - 2, Len(name)))
        space == \E name \in {<<"X", "M", "L", "N", "S">>, <<"X", "L", "I", "N", "K">>} :
                    Same(name, s, 5)
        found == {black \in BLACKATTR : Same(black.name, s, n)}
    IN  IF n < 2 THEN "TYPE_NONE"
        ELSE IF n >= 5 /\ (event \/ space) THEN "TYPE_BLACK"
        ELSE IF found = {} THEN "TYPE_NONE" ELSE (CHOOSE black \in found : TRUE).atype

is_black_url(s) ==
    LET start == Min({Len(s) + 1} \cup {i \in DOMAIN s : Code(s[i]) \in 33 .. 126})
    IN  \E name \in BlackUrls : htmlencode_startswith(name, Drop(s, start - 1))

(* A comment of a kind that browsers act on. *)
BlackComment(s) ==
    \/ Tick \in ToSet(s)
    \/ /\ Len(s) > 3
       /\ Spelled(SubSeq(s, 1, 3)) \in {<<"[", "I", "F">>, <<"X", "M", "L">>}
    \/ /\ Len(s) > 5
       /\ \E name \in {<<"I", "M", "P", "O", "R", "T">>, <<"E", "N", "T", "I", "T", "Y">>} :
             Same(name, s, 6)

(* A value, by the type of the attribute it belongs to. *)
BlackValue(s, type) ==
    \/ type \in {"TYPE_BLACK", "TYPE_STYLE"}
    \/ type = "TYPE_ATTR_URL" /\ is_black_url(s)
    \/ type = "TYPE_ATTR_INDIRECT" /\ is_black_attr(s) # "TYPE_NONE"

Black(type, s, a) ==
    \/ type = "DOCTYPE"
    \/ type = "TAG_NAME_OPEN" /\ is_black_tag(s)
    \/ type = "ATTR_VALUE" /\ BlackValue(s, a)
    \/ type = "TAG_COMMENT" /\ BlackComment(s)
-----------------------------------------------------------------------------
SInit == Init /\ attr = "TYPE_NONE" /\ context = 0 /\ verdict = NoVerdict

SWrite(piece) == Write(piece) /\ UNCHANGED <<attr, context, verdict>>

Start ==
    /\ pc = "writing" /\ Contexts # <<>>
    /\ pc' = "scanning"
    /\ hs' = Blank(FirstState(Contexts[1]))
    /\ context' = 1
    /\ UNCHANGED <<alphabet, text, pieces, tokens, attr, verdict>>

(* The memory after a token has been judged. *)
AttrAfter(token) ==
    IF token.type = "ATTR_NAME" THEN is_black_attr(BytesOf(token)) ELSE "TYPE_NONE"

TokenOf(h) == [type |-> h.type, start |-> h.start, size |-> h.size]

GoesOn(h) ==
    /\ hs' = h /\ tokens' = Append(tokens, TokenOf(h))
    /\ attr' = AttrAfter(TokenOf(h))
    /\ UNCHANGED <<pc, context, verdict>>
NextContext ==
    /\ hs' = Blank(FirstState(Contexts[context + 1]))
    /\ context' = context + 1
    /\ attr' = "TYPE_NONE" /\ tokens' = <<>>
    /\ UNCHANGED <<pc, verdict>>
Answers(h) ==
    /\ verdict' = h.ret
    /\ pc' = "stopped" /\ hs' = h
    /\ UNCHANGED <<context, attr, tokens>>

\* Mutant: the next context is tried whatever the last one found.
JudgedLastContext(h) ==
    IF h.ret = 1 /\ ~Black(h.type, BytesOf(h), attr) THEN GoesOn(h)
    ELSE IF context < Len(Contexts) THEN NextContext ELSE Answers(h)

Judged(h) ==
    IF h.ret = 1 /\ ~Black(h.type, BytesOf(h), attr) THEN GoesOn(h)
    ELSE IF h.ret = 0 /\ context < Len(Contexts) THEN NextContext ELSE Answers(h)

(* One turn of the loop of libinjection_is_xss; at its end, the next       *)
(* context, or the verdict.                                                *)
Step ==
    /\ pc = "scanning"
    /\ Judged(libinjection_h5_next(hs))
    /\ UNCHANGED <<alphabet, text, pieces>>

SNext == (\E piece \in alphabet.pieces : SWrite(piece)) \/ Start \/ Step

-----------------------------------------------------------------------------
(* The codes of a text, one after the other. *)
RECURSIVE CodesFrom(_, _)
CodesFrom(s, c) ==
    IF c.consumed = Len(s) THEN <<c.code>>
    ELSE <<c.code>> \o CodesFrom(Drop(s, c.consumed), html_decode_char_at(Drop(s, c.consumed)))
Codes(s) == IF s = <<>> THEN <<>> ELSE CodesFrom(s, html_decode_char_at(s))

(* All the tokens of a text in a context. *)
RECURSIVE TokensFrom(_)
TokensFrom(h) ==
    IF h.ret # 1 THEN <<>>
    ELSE <<TokenOf(h)>> \o TokensFrom(libinjection_h5_next(h))
TokensIn(flags) == TokensFrom(libinjection_h5_next(Blank(FirstState(flags))))

(* The attribute a value belongs to: the name right before it, if any. *)
NameOf(list, k) ==
    IF k > 1 /\ list[k - 1].type = "ATTR_NAME" THEN is_black_attr(BytesOf(list[k - 1]))
    ELSE "TYPE_NONE"
BlackAmong(list) ==
    \E k \in DOMAIN list : Black(list[k].type, BytesOf(list[k]), NameOf(list, k))
BlackIn(flags) == BlackAmong(TokensIn(flags))
-----------------------------------------------------------------------------
STypeOK ==
    /\ attr \in {"TYPE_NONE", "TYPE_BLACK", "TYPE_ATTR_URL", "TYPE_STYLE", "TYPE_ATTR_INDIRECT"}
    /\ context \in 0 .. Len(Contexts)
    /\ hs.pos \in 0 .. Length

(* The tokenizer never reports an error to the scan: its position does not *)
(* leave the text, in any context.                                         *)
NeverErrs == verdict # -1

(* A scan remembers a name only until the next token.                      *)
ValueOfItsName ==
    attr # "TYPE_NONE" => tokens # <<>> /\ Last(tokens).type = "ATTR_NAME"

(* The verdict is whether some context holds a token to report, a value    *)
(* judged by the name right before it; the order of the contexts, and      *)
(* where a scan stops, do not matter.                                      *)
VerdictIsOfTokens ==
    pc = "stopped" => ((verdict = 1) <=> \E i \in DOMAIN Contexts : BlackIn(Contexts[i]))

(* A decoded character takes at least one byte and no more than there are. *)
DecodingGetsOn ==
    \A i \in 1 .. Length :
        html_decode_char_at(Drop(text, i - 1)).consumed \in 1 .. Length - i + 1

Kept(codes) ==
    LET start == Min({Len(codes) + 1} \cup {i \in DOMAIN codes : codes[i] > 32})
    IN  SelectSeq(Drop(codes, start - 1), LAMBDA c : c \notin {0, 10})

(* How the characters are written does not matter: a text starts with a    *)
(* word if what it decodes to does, the ignored codes aside.               *)
StartsAsDecoded ==
    \A kept \in {Kept(Codes(text))}, word \in BlackUrls :
        htmlencode_startswith(word, text)
            <=> /\ Len(kept) >= Len(word)
                /\ \A i \in DOMAIN word : UpCode(kept[i]) % 256 = Code(word[i])

(* A reference with its semicolon is one character, without leftovers.     *)
ReferencesAreWhole ==
    \A i \in 1 .. Length - 1 :
        \A c \in {html_decode_char_at(Drop(text, i - 1))} :
            c.consumed > 1 /\ i + c.consumed <= Length
                => /\ text[i + c.consumed] = ";" => text[i + c.consumed - 1] = ";"
                   /\ c.code <= Limit
=============================================================================
