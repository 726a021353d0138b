------------------------------ MODULE SqliParse ------------------------------
(***************************************************************************)
(* The tokenizer of libinjection's SQL scanner (libinjection_sqli.c) as    *)
(* operators on sf, the struct libinjection_sqli_state: s the text, flags, *)
(* pos, current the token that is being filled, and the counters.  Each    *)
(* parse_ operator is the C function of its name: it fills current and     *)
(* leaves in pos what the function returns.  Positions count from 0.       *)
(*                                                                         *)
(* A text is a sequence of one-character strings.  Four of them stand for  *)
(* bytes that a string here cannot hold, or for a class the code treats    *)
(* alike: "NUL", "ctl" (1, which is white only to char_parse_map), "A0",   *)
(* "hi" (the other bytes above 127); "tick" is the back quote.             *)
(***************************************************************************)
EXTENDS SequencesExt, Integers

CONSTANTS
    sql_keywords,                 \* the table: a sorted sequence of <<word, type>>
    LIBINJECTION_SQLI_TOKEN_SIZE  \* bound: 32 in the code

(* The table is a sequence that has a word, and no word is a comment. *)
KeywordAssumption ==
    /\ Len(sql_keywords) \in Nat \ {0} /\ DOMAIN sql_keywords = 1 .. Len(sql_keywords)
    /\ \A k \in DOMAIN sql_keywords : sql_keywords[k][2] # "c"
ASSUME KeywordAssumption

NUL == "NUL"
Tick == "tick"
(* The bytes 32 to 126 in order. *)
Printable ==
    <<" ", "!", "\"", "#", "$", "%", "&", "'", "(", ")", "*", "+", ",", "-", ".", "/",
      "0", "1", "2", "3", "4", "5", "6", "7", "8", "9", ":", ";", "<", "=", ">", "?",
      "@", "A", "B", "C", "D", "E", "F", "G", "H", "I", "J", "K", "L", "M", "N", "O",
      "P", "Q", "R", "S", "T", "U", "V", "W", "X", "Y", "Z", "[", "\\", "]", "^", "_",
      Tick, "a", "b", "c", "d", "e", "f", "g", "h", "i", "j", "k", "l", "m", "n", "o",
      "p", "q", "r", "s", "t", "u", "v", "w", "x", "y", "z", "{", "|", "}", "~">>
Bytes == {NUL, "ctl", "\t", "\n", "A0", "hi"} \cup ToSet(Printable)

(* The byte as a signed char. *)
CodeOf == [b \in Bytes |->
    CASE b = NUL -> 0 [] b = "ctl" -> 1 [] b = "\t" -> 9 [] b = "\n" -> 10
      [] b = "A0" -> -96 [] b = "hi" -> -1
      [] OTHER -> 31 + SelectInSeq(Printable, LAMBDA p : p = b)]
ByteOf == [code \in {CodeOf[b] : b \in Bytes} |-> CHOOSE b \in Bytes : CodeOf[b] = code]
UpCode(code) == IF code \in 97 .. 122 THEN code - 32 ELSE code
Upcase(b) == ByteOf[UpCode(CodeOf[b])]

Digits == {"0", "1", "2", "3", "4", "5", "6", "7", "8", "9"}
HexDigits == Digits \cup {"A", "B", "C", "D", "E", "F", "a", "b", "c", "d", "e", "f"}
Letters == {b \in Bytes : CodeOf[b] \in 65 .. 90 \cup 97 .. 122}
char_is_white == {" ", "\t", "\n", NUL, "A0"}
WordEnds == {" ", "[", "]", "{", "}", "<", ">", ":", "\\", "?", "=", "@", "!", "#", "~", "+",
             "-", "*", "/", "&", "|", "^", "%", "(", ")", ",", "'", ";", "\t", "\n", "\"", "A0"}
VarEnds == (WordEnds \ {"[", "]", "{", "}", "A0"}) \cup {Tick}

(* The structure after libinjection_sqli_init. *)
st_clear == [type |-> NUL, pos |-> 0, len |-> 0, count |-> 0,
             str_open |-> NUL, str_close |-> NUL, val |-> <<>>]
Fresh(s, quote, mysql) ==
    [s |-> s, quote |-> quote, mysql |-> mysql, pos |-> 0, current |-> st_clear,
     stats_comment_ddx |-> 0, stats_comment_hash |-> 0, stats_tokens |-> 0]
flag2delim(sf) == sf.quote

Slen(sf) == Len(sf.s)
At(sf, i) == sf.s[i + 1]
Slice(sf, from, n) == SubSeq(sf.s, from + 1, from + n)
-----------------------------------------------------------------------------
(* memchr from a position on: Slen if there is none. *)
memchr(sf, from, byte) ==
    Min({Slen(sf)} \cup {i \in from .. Slen(sf) - 1 : At(sf, i) = byte})
(* memchr2 and my_memmem: the first place of the bytes in [from, to). *)
my_memmem(sf, from, to, bytes) ==
    Min({Slen(sf)} \cup {i \in from .. to - Len(bytes) : Slice(sf, i, Len(bytes)) = bytes})
(* How many bytes from a position on are in the set; are not in it.  What  *)
(* is in a set strchr says, which finds the NUL behind the set as well.    *)
While(sf, from, bytes) ==
    Min({Slen(sf)} \cup {i \in from .. Slen(sf) - 1 : At(sf, i) \notin bytes}) - from
strlenspn(sf, from, accept) == While(sf, from, accept \cup {NUL})
strlencspn(sf, from, reject) == While(sf, from, Bytes \ (reject \cup {NUL}))
(* Is the byte that many places on one of them? *)
Ahead(sf, n, bytes) == sf.pos + n < Slen(sf) /\ At(sf, sf.pos + n) \in bytes

(* cstrcasecmp: less than 0, 0 or more for a word in upper case and a key. *)
ComparedAt(a, b, i) == IF a[i] # b[i] THEN a[i] - b[i] ELSE -1
Compared(a, b) ==
    LET ends == {i \in DOMAIN b : a[i] # b[i] \/ a[i] = 0}
    IN  IF ends # {} THEN ComparedAt(a, b, Min(ends)) ELSE IF a[Len(b) + 1] = 0 THEN 0 ELSE 1
cstrcasecmp(word, key) ==
    Compared([i \in 1 .. Len(key) + 1 |-> IF i <= Len(word) THEN CodeOf[word[i]] ELSE 0],
             [i \in DOMAIN key |-> UpCode(CodeOf[key[i]])])
SameWord(word, key) == cstrcasecmp(word, key) = 0

(* The binary search: where left and right meet. *)
Below(key, pos) == cstrcasecmp(sql_keywords[pos + 1][1], key) < 0
Search(key) ==
    LET last == Len(sql_keywords) - 1
        meet[span \in (0 .. last) \X (0 .. last)] ==
          LET left == span[1]
              right == span[2]
              pos == (left + right) \div 2
          IN  IF left >= right THEN left
              ELSE IF Below(key, pos) THEN meet[<<pos + 1, right>>] ELSE meet[<<left, pos>>]
    IN  meet[<<0, last>>]
TypeIfSame(entry, key) == IF SameWord(entry[1], key) THEN entry[2] ELSE NUL
bsearch_keyword_type(key) ==
    TypeIfSame(sql_keywords[Search(key) + 1], key)
is_keyword(key) == bsearch_keyword_type(key)
-----------------------------------------------------------------------------
(* st_assign: what is longer than val is cut; then the position returned.  *)
st_assign(sf, type, pos, len, next) ==
    LET last == Min({len, LIBINJECTION_SQLI_TOKEN_SIZE - 1})
    IN  [sf EXCEPT !.current.type = type, !.current.pos = pos, !.current.len = last,
                   !.current.val = Slice(sf, pos, last), !.pos = next]
st_assign_char(sf, type) == st_assign(sf, type, sf.pos, 1, sf.pos + 1)

st_is_arithmetic_op(st) ==
    st.type = "o" /\ st.len = 1 /\ st.val[1] \in {"*", "/", "-", "+", "%"}
st_is_unary_op(st) ==
    /\ st.type = "o"
    /\ \/ st.len = 1 /\ st.val[1] \in {"+", "-", "!", "~"}
       \/ st.val = <<"!", "!">>
       \/ st.len = 3 /\ SameWord(<<"N", "O", "T">>, st.val)

parse_white(sf) == [sf EXCEPT !.pos = @ + 1]
parse_operator1(sf) == st_assign_char(sf, "o")
parse_other(sf) == st_assign_char(sf, "?")
parse_char(sf) == st_assign_char(sf, At(sf, sf.pos))

parse_eol_comment(sf) ==
    LET end == memchr(sf, sf.pos, "\n")
    IN  st_assign(sf, "c", sf.pos, end - sf.pos, Min({Slen(sf), end + 1}))

(* In MySQL's mode the counter goes up twice. *)
parse_hash(sf) ==
    IF sf.mysql
    THEN parse_eol_comment([sf EXCEPT !.stats_comment_hash = @ + 2])
    ELSE st_assign_char([sf EXCEPT !.stats_comment_hash = @ + 1], "o")

parse_dash(sf) ==
    IF Ahead(sf, 1, {"-"}) /\ (sf.pos + 2 = Slen(sf) \/ Ahead(sf, 2, char_is_white))
    THEN parse_eol_comment(sf)
    ELSE IF Ahead(sf, 1, {"-"}) /\ ~sf.mysql
    THEN parse_eol_comment([sf EXCEPT !.stats_comment_ddx = @ + 1])
    ELSE st_assign_char(sf, "o")

is_mysql_comment(sf) == Ahead(sf, 2, {"!"})

(* The end of the comment is at ptr, Slen if there is none. *)
SlashComment(sf, ptr) ==
    LET end == Min({Slen(sf), ptr + 2})
        nested == /\ ptr # Slen(sf)
                  /\ my_memmem(sf, sf.pos + 2, ptr + 1, <<"/", "*">>) # Slen(sf)
    IN  st_assign(sf, IF nested \/ is_mysql_comment(sf) THEN "X" ELSE "c",
                  sf.pos, end - sf.pos, end)
parse_slash(sf) ==
    IF Ahead(sf, 1, {"*"})
    THEN SlashComment(sf, my_memmem(sf, sf.pos + 2, Slen(sf), <<"*", "/">>))
    ELSE parse_operator1(sf)

parse_backslash(sf) ==
    IF Ahead(sf, 1, {"N"}) THEN st_assign(sf, "1", sf.pos, 2, sf.pos + 2)
    ELSE st_assign_char(sf, "\\")

OperatorOf(sf, ch) ==
    IF ch # NUL THEN st_assign(sf, ch, sf.pos, 2, sf.pos + 2)
    ELSE st_assign_char(sf, IF At(sf, sf.pos) = ":" THEN ":" ELSE "o")
parse_operator2(sf) ==
    IF sf.pos + 1 >= Slen(sf) THEN parse_operator1(sf)
    ELSE IF sf.pos + 2 < Slen(sf) /\ Slice(sf, sf.pos, 3) = <<"<", "=", ">">>
    THEN st_assign(sf, "o", sf.pos, 3, sf.pos + 3)
    ELSE OperatorOf(sf, bsearch_keyword_type(Slice(sf, sf.pos, 2)))
-----------------------------------------------------------------------------
\* Mutant: one backslash escapes, whatever is before it.
EscapedByOne(sf, quote, start) == quote > start /\ At(sf, quote - 1) = "\\"

(* An odd number of backslashes right before the quote, back to start. *)
is_backslash_escaped(sf, quote, start) ==
    LET other == Max({start - 1} \cup {i \in start .. quote - 1 : At(sf, i) # "\\"})
    IN  (quote - 1 - other) % 2 = 1
is_double_delim_escaped(sf, quote) ==
    quote + 1 < Slen(sf) /\ At(sf, quote + 1) = At(sf, quote)

(* The quote that ends the string, Slen if none does, from one on. *)
ClosingQuote(sf, qpos, start) ==
    LET end[q \in 0 .. Slen(sf)] ==
          IF q = Slen(sf) THEN q
          ELSE IF is_backslash_escaped(sf, q, start) THEN end[memchr(sf, q + 1, At(sf, q))]
          ELSE IF is_double_delim_escaped(sf, q) THEN end[memchr(sf, q + 2, At(sf, q))]
          ELSE q
    IN  end[qpos]

StringTo(sf, open, delim, start, qpos) ==
    st_assign([sf EXCEPT !.current.str_open = open,
                         !.current.str_close = IF qpos < Slen(sf) THEN delim ELSE NUL],
              "s", start, qpos - start, Min({Slen(sf), qpos + 1}))

(* offset is 0 when the opening quote is only pretended. *)
parse_string_core(sf, delim, offset) ==
    LET start == sf.pos + offset
    IN  StringTo(sf, IF offset > 0 THEN delim ELSE NUL, delim, start,
                 ClosingQuote(sf, memchr(sf, start, delim), start))
parse_string(sf) == parse_string_core(sf, At(sf, sf.pos), 1)

(* The text between marks: [start, end), then past the closing mark. *)
Marked(sf, mark, start, end, width) ==
    LET closed == end < Slen(sf)
    IN  st_assign([sf EXCEPT !.current.str_open = mark,
                             !.current.str_close = IF closed THEN mark ELSE NUL],
                  "s", start, end - start, IF closed THEN end + width ELSE end)
-----------------------------------------------------------------------------
(* A keyword before a dot or a back quote is a word of its own.  A word    *)
(* that does not fit into val is not looked up.                            *)
KeywordOf(sf, n) == bsearch_keyword_type(Slice(sf, sf.pos, n))
WordOf(sf, wlen, type) ==
    st_assign(sf, IF type = NUL THEN "n" ELSE type, sf.pos, wlen, sf.pos + wlen)
(* How much of wlen bytes is the word. *)
CutAt(sf, kept, wlen) ==
    Min({wlen} \cup {i \in 0 .. kept - 1 : /\ At(sf, sf.pos + i) \in {".", Tick}
                                         /\ KeywordOf(sf, i) \notin {NUL, "n"}})
WordUpTo(sf, n) ==
    WordOf(sf, n, IF n < LIBINJECTION_SQLI_TOKEN_SIZE THEN KeywordOf(sf, n) ELSE NUL)
Word(sf, wlen) == WordUpTo(sf, CutAt(sf, Min({wlen, LIBINJECTION_SQLI_TOKEN_SIZE - 1}), wlen))
parse_word(sf) == Word(sf, strlencspn(sf, sf.pos, WordEnds))

parse_estring(sf) ==
    IF Ahead(sf, 1, {"'"}) /\ sf.pos + 2 < Slen(sf) THEN parse_string_core(sf, "'", 2)
    ELSE parse_word(sf)

parse_ustring(sf) ==
    IF Ahead(sf, 1, {"&"}) /\ Ahead(sf, 2, {"'"})
    THEN [parse_string([sf EXCEPT !.pos = @ + 2])
             EXCEPT !.current.str_open = "u", !.current.str_close = IF @ = "'" THEN "u" ELSE @]
    ELSE parse_word(sf)

Closing(ch) == CASE ch = "(" -> ")" [] ch = "[" -> "]" [] ch = "{" -> "}" [] ch = "<" -> ">"
                 [] OTHER -> ch
parse_qstring_core(sf, offset) ==
    LET pos == sf.pos + offset
    IN  IF /\ Ahead(sf, offset, {"q", "Q"}) /\ pos + 2 < Slen(sf) /\ Ahead(sf, offset + 1, {"'"})
           /\ CodeOf[At(sf, pos + 2)] >= 33
        THEN Marked(sf, "q", pos + 3,
                    my_memmem(sf, pos + 3, Slen(sf), <<Closing(At(sf, pos + 2)), "'">>), 2)
        ELSE parse_word(sf)
parse_qstring(sf) == parse_qstring_core(sf, 0)
parse_nqstring(sf) ==
    IF sf.pos + 2 < Slen(sf) /\ Ahead(sf, 1, {"'"}) THEN parse_estring(sf)
    ELSE parse_qstring_core(sf, 1)

(* b'01' and x'0f', in which a NUL passes for a digit. *)
DigitsUpTo(sf, wlen) ==
    IF sf.pos + 2 < Slen(sf) /\ Ahead(sf, 1, {"'"}) /\ Ahead(sf, wlen + 2, {"'"})
    THEN st_assign(sf, "1", sf.pos, wlen + 3, sf.pos + wlen + 3)
    ELSE parse_word(sf)
DigitString(sf, digits) == DigitsUpTo(sf, strlenspn(sf, sf.pos + 2, digits))
parse_bstring(sf) == DigitString(sf, {"0", "1"})
parse_xstring(sf) == DigitString(sf, HexDigits)

parse_bword(sf) ==
    LET end == memchr(sf, sf.pos, "]")
        next == Min({Slen(sf), end + 1})
    IN  st_assign(sf, "n", sf.pos, next - sf.pos, next)

ticked(str) ==
    [str EXCEPT !.current.type = IF bsearch_keyword_type(str.current.val) = "f" THEN "f" ELSE "n"]
parse_tick(sf) == ticked(parse_string_core(sf, Tick, 1))

VarUpTo(sf, xlen) == st_assign(sf, "v", sf.pos, xlen, sf.pos + xlen)
VarNamed(sf) ==
    IF Ahead(sf, 0, {Tick}) THEN [parse_tick(sf) EXCEPT !.current.type = "v"]
    ELSE IF Ahead(sf, 0, {"'", "\""}) THEN [parse_string(sf) EXCEPT !.current.type = "v"]
    ELSE VarUpTo(sf, strlencspn(sf, sf.pos, VarEnds))

\* Mutant: a variable with no name is not passed.
VarStays(sf) ==
    LET pos == sf.pos + (IF Ahead(sf, 1, {"@"}) THEN 2 ELSE 1)
        xlen == strlencspn(sf, pos, VarEnds)
    IN  st_assign(sf, "v", pos, xlen, IF xlen = 0 THEN sf.pos ELSE pos + xlen)

(* @name, @@name, and a quoted name. *)
parse_var(sf) ==
    LET marks == IF Ahead(sf, 1, {"@"}) THEN 2 ELSE 1
    IN  VarNamed([sf EXCEPT !.pos = @ + marks, !.current.count = marks])

(* $1,000.00; $$ text $$; $tag$ text $tag$; or only a dollar sign. *)
parse_money(sf) ==
    LET amount == strlenspn(sf, sf.pos + 1, Digits \cup {".", ","})
        name == strlenspn(sf, sf.pos + 1, Letters)
        start == sf.pos + name + 2
        tag == Slice(sf, sf.pos, name + 2)
    IN  IF sf.pos + 1 = Slen(sf) THEN st_assign_char(sf, "n")
        ELSE IF amount = 1 /\ Ahead(sf, 1, {"."}) THEN parse_word(sf)
        ELSE IF amount > 0 THEN st_assign(sf, "1", sf.pos, 1 + amount, sf.pos + 1 + amount)
        ELSE IF Ahead(sf, name + 1, {"$"})
        THEN Marked(sf, "$", start, my_memmem(sf, start, Slen(sf), tag), name + 2)
        ELSE st_assign_char(sf, "n")

(* 0x1f and 0b01. *)
Radix(sf, digits) ==
    LET xlen == strlenspn(sf, sf.pos + 2, digits)
    IN  st_assign(sf, IF xlen = 0 THEN "n" ELSE "1", sf.pos, 2 + xlen, sf.pos + 2 + xlen)

(* A number with an e but no exponent is passed over: no token. *)
DigitsFrom(sf, i) == i + While(sf, i, Digits)
IsAt(sf, i, bytes) == i < Slen(sf) /\ At(sf, i) \in bytes
PastSuffix(sf, end) ==
    IF /\ IsAt(sf, end, {"d", "D", "f", "F"})
       /\ end + 1 = Slen(sf) \/ IsAt(sf, end + 1, char_is_white \cup {";", "u", "U"})
    THEN end + 1 ELSE end
NumberTo(sf, end) == st_assign(sf, "1", sf.pos, end - sf.pos, end)
ExponentTo(sf, from, end) ==
    IF end = from THEN [sf EXCEPT !.pos = PastSuffix(sf, end)]
    ELSE NumberTo(sf, PastSuffix(sf, end))
ExponentFrom(sf, from) == ExponentTo(sf, from, DigitsFrom(sf, from))
Exponent(sf, fract) ==
    IF IsAt(sf, fract, {"e", "E"})
    THEN ExponentFrom(sf, fract + (IF IsAt(sf, fract + 1, {"+", "-"}) THEN 2 ELSE 1))
    ELSE NumberTo(sf, PastSuffix(sf, fract))
PastPoint(sf, fract) ==
    IF fract - sf.pos = 1 THEN st_assign_char(sf, ".") ELSE Exponent(sf, fract)
Fraction(sf, whole) ==
    IF IsAt(sf, whole, {"."}) THEN PastPoint(sf, DigitsFrom(sf, whole + 1))
    ELSE Exponent(sf, whole)
parse_number(sf) ==
    IF At(sf, sf.pos) = "0" /\ Ahead(sf, 1, {"x", "X"}) THEN Radix(sf, HexDigits)
    ELSE IF At(sf, sf.pos) = "0" /\ Ahead(sf, 1, {"b", "B"}) THEN Radix(sf, {"0", "1"})
    ELSE Fraction(sf, DigitsFrom(sf, sf.pos))
-----------------------------------------------------------------------------
(* char_parse_map: the parser of each byte. *)
char_parse_map(sf) ==
    LET ch == At(sf, sf.pos)
    IN  CASE ch \in {NUL, "ctl", "\t", "\n", " ", "A0"} -> parse_white(sf)
          [] ch \in {"!", "&", "*", ":", "<", "=", ">", "|"} -> parse_operator2(sf)
          [] ch \in {"%", "+", "^", "~"} -> parse_operator1(sf)
          [] ch \in {"(", ")", ",", ";", "{", "}"} -> parse_char(sf)
          [] ch \in {"?", "]"} -> parse_other(sf)
          [] ch \in {"'", "\""} -> parse_string(sf)
          [] ch = "#" -> parse_hash(sf)
          [] ch = "$" -> parse_money(sf)
          [] ch = "-" -> parse_dash(sf)
          [] ch = "/" -> parse_slash(sf)
          [] ch = "@" -> parse_var(sf)
          [] ch = "[" -> parse_bword(sf)
          [] ch = "\\" -> parse_backslash(sf)
          [] ch = Tick -> parse_tick(sf)
          [] ch \in Digits \cup {"."} -> parse_number(sf)
          [] ch \in {"B", "b"} -> parse_bstring(sf)
          [] ch \in {"E", "e"} -> parse_estring(sf)
          [] ch \in {"N", "n"} -> parse_nqstring(sf)
          [] ch \in {"Q", "q"} -> parse_qstring(sf)
          [] ch \in {"U", "u"} -> parse_ustring(sf)
          [] ch \in {"X", "x"} -> parse_xstring(sf)
          [] OTHER -> parse_word(sf)

(* One turn of libinjection_sqli_tokenize's loop, or the pretended quote.  *)
(* current holds a token afterwards unless the turn found none.            *)
Counted(sf) == [sf EXCEPT !.stats_tokens = @ + (IF sf.current.type # NUL THEN 1 ELSE 0)]
Parsed(sf) ==
    IF sf.pos = 0 /\ flag2delim(sf) # NUL THEN parse_string_core(sf, flag2delim(sf), 0)
    ELSE char_parse_map(sf)
Turn(sf) == Counted(Parsed([sf EXCEPT !.current = st_clear]))

(* The loop gets on: the next turn, if there is one, is not where this is. *)
TurnGetsOn(sf) == sf.pos < Slen(sf) => Turn(sf).pos > sf.pos
=============================================================================
