--------------------------- MODULE Html5Tokenizer ---------------------------
(***************************************************************************)
(* The HTML tokenizer of libinjection (libinjection_html5.c), on which     *)
(* libinjection_is_xss runs: a state function is called again and again,   *)
(* each time finds one token, and leaves behind the position and the       *)
(* function that is to be called next.                                     *)
(*                                                                         *)
(* hs is the C structure: pos, is_close, state, and the token's start,     *)
(* size (token_len) and type, with ret, what the call returned.  Positions *)
(* count from 0 as in C.  A text is a sequence of strings, one for each    *)
(* class of bytes that the code tells apart.                               *)
(***************************************************************************)
EXTENDS SequencesExt, Integers

CONSTANTS
    EofBytes,   \* the bytes that are CHAR_EOF, which is -1, when they are read
                \* as a char: FF where char is signed, none where it is not
    Alphabets   \* what a text may be: records of the pieces, sequences of
                \* bytes, the bound on how many (most), and the html5_flags
                \* that name the states to start in (contexts), in order

VARIABLES
    alphabet,  \* the one this text is written with
    text, pieces,
    pc,       \* "writing", "scanning", "stopped"
    hs,
    tokens    \* history: the tokens so far

(* What a text is written with are bytes, and a scan may start in any      *)
(* context libinjection_h5_init knows.                                     *)
Flags == {"DATA_STATE", "VALUE_NO_QUOTE", "VALUE_SINGLE_QUOTE", "VALUE_DOUBLE_QUOTE",
          "VALUE_BACK_QUOTE"}
AlphabetsAreTexts ==
    \A one \in Alphabets :
        /\ one.pieces \subseteq Seq(STRING) /\ one.most \in Nat
        /\ ToSet(one.contexts) \subseteq Flags

vars == <<alphabet, text, pieces, pc, hs, tokens>>

NUL == "NUL"
Tick == "tick"
QuoteBytes == {"\"", "'", Tick}
CharWhite == {" ", "\t", NUL}     \* h5_is_white: strchr also finds the NUL
Lowers == <<"a", "b", "c", "d", "e", "f", "g", "h", "i", "j", "k", "l", "m",
            "n", "o", "p", "q", "r", "s", "t", "u", "v", "w", "x", "y", "z">>
Uppers == <<"A", "B", "C", "D", "E", "F", "G", "H", "I", "J", "K", "L", "M",
            "N", "O", "P", "Q", "R", "S", "T", "U", "V", "W", "X", "Y", "Z">>
Letters == ToSet(Lowers) \cup ToSet(Uppers)
Upcase(byte) == IF byte \in ToSet(Lowers)
                THEN Uppers[SelectInSeq(Lowers, LAMBDA b : b = byte)] ELSE byte

Length == Len(text)
At(pos) == text[pos + 1]
(* memchr: the first position of the byte from pos on, Length if none. *)
memchr(pos, byte) ==
    Min({Length} \cup {i \in pos .. Length - 1 : At(i) = byte})
(* The first position from pos on whose byte is one of them. *)
Stop(pos, bytes) ==
    Min({Length} \cup {i \in pos .. Length - 1 : At(i) \in bytes})
Word(pos, word) ==
    pos + Len(word) <= Length /\ SubSeq(text, pos + 1, pos + Len(word)) = word
(* The first position of the word from pos on. *)
Find(pos, word) ==
    Min({Length} \cup {i \in pos .. Length - 1 : Word(i, word)})

(* A token, where the next call starts, and in which state. *)
Token(h, type, start, end, pos, state) ==
    [h EXCEPT !.ret = 1, !.type = type, !.start = start, !.size = end - start,
              !.pos = pos, !.state = state]
(* No token: the caller stops. *)
None(h) == [h EXCEPT !.ret = 0]
Skip(h, n) == [h EXCEPT !.pos = @ + n]
(* The rest of the text. *)
Rest(h, type) == Token(h, type, h.pos, Length, h.pos, "eof")
AtEnd(h) == h.pos >= Length
-----------------------------------------------------------------------------
(* h5_skip_white, which returns a char as an int: besides the end of the   *)
(* text there are bytes that its callers take for CHAR_EOF.                *)
h5_skip_white(h) ==
    [h EXCEPT !.pos = Min({Length} \cup {i \in h.pos .. Length - 1 : At(i) \notin CharWhite})]
SeesEof(h) == AtEnd(h) \/ At(h.pos) \in EofBytes

h5_state_tag_name_close(h) ==
    Token([h EXCEPT !.is_close = FALSE], "TAG_NAME_CLOSE", h.pos, h.pos + 1, h.pos + 1,
          IF h.pos + 1 < Length THEN "data" ELSE "eof")

NameEnds == (CharWhite \ {NUL}) \cup {"/", ">"}     \* a NUL is part of the name
h5_state_tag_name(h) ==
    LET end == Stop(h.pos, NameEnds)
    IN  IF end = Length THEN Rest(h, "TAG_NAME_OPEN")
        ELSE IF At(end) = "/"
        THEN Token(h, "TAG_NAME_OPEN", h.pos, end, end + 1, "self_closing_start_tag")
        ELSE IF At(end) # ">"
        THEN Token(h, "TAG_NAME_OPEN", h.pos, end, end + 1, "before_attribute_name")
        ELSE IF h.is_close
        THEN Token([h EXCEPT !.is_close = FALSE], "TAG_CLOSE", h.pos, end, end + 1, "data")
        ELSE Token(h, "TAG_NAME_OPEN", h.pos, end, end, "tag_name_close")

\* Mutant: the byte after the name is read again.
NameEndsBefore(h) ==
    LET end == Stop(h.pos + 1, CharWhite \cup {"/", "=", ">"})
    IN  IF end = Length THEN [Rest(h, "ATTR_NAME") EXCEPT !.pos = Length]
        ELSE CASE At(end) = "/" -> Token(h, "ATTR_NAME", h.pos, end, end + 1, "self_closing_start_tag")
               [] At(end) = "=" -> Token(h, "ATTR_NAME", h.pos, end, end + 1, "before_attribute_value")
               [] At(end) = ">" -> Token(h, "ATTR_NAME", h.pos, end, end - 1, "tag_name_close")
               [] OTHER -> Token(h, "ATTR_NAME", h.pos, end, end + 1, "after_attribute_name")

(* The first byte belongs to the name whatever it is. *)
h5_state_attribute_name(h) ==
    LET end == Stop(h.pos + 1, CharWhite \cup {"/", "=", ">"})
    IN  IF end = Length THEN [Rest(h, "ATTR_NAME") EXCEPT !.pos = Length]
        ELSE CASE At(end) = "/" -> Token(h, "ATTR_NAME", h.pos, end, end + 1, "self_closing_start_tag")
               [] At(end) = "=" -> Token(h, "ATTR_NAME", h.pos, end, end + 1, "before_attribute_value")
               [] At(end) = ">" -> Token(h, "ATTR_NAME", h.pos, end, end, "tag_name_close")
               [] OTHER -> Token(h, "ATTR_NAME", h.pos, end, end + 1, "after_attribute_name")

(* The end of a tag at the slash before pos. *)
SelfClosed(h) ==
    IF AtEnd(h) THEN None(h)
    ELSE Token(h, "TAG_NAME_SELFCLOSE", h.pos - 1, h.pos + 1, h.pos + 1, "data")

(* White space and slashes that close nothing are passed, over and over. *)
Passed(i) ==
    \/ At(i) \in CharWhite
    \/ At(i) = "/" /\ i + 1 < Length /\ At(i + 1) # ">"

h5_state_before_attribute_name(h) ==
    LET h1 == [h EXCEPT !.pos = Min({Length} \cup {i \in h.pos .. Length - 1 : ~Passed(i)})]
    IN  IF SeesEof(h1) THEN None(h1)
        ELSE CASE At(h1.pos) = "/" -> SelfClosed(Skip(h1, 1))
               [] At(h1.pos) = ">" ->
                    Token(h1, "TAG_NAME_CLOSE", h1.pos, h1.pos + 1, h1.pos + 1, "data")
               [] OTHER -> h5_state_attribute_name(h1)

h5_state_self_closing_start_tag(h) ==
    IF AtEnd(h) \/ At(h.pos) = ">" THEN SelfClosed(h) ELSE h5_state_before_attribute_name(h)

(* At position 0 the text starts inside the value: no quote to skip.       *)
h5_state_attribute_value_quote(h, quote) ==
    LET h1 == IF h.pos > 0 THEN Skip(h, 1) ELSE h
        end == memchr(h1.pos, quote)
    IN  IF end = Length THEN Rest(h1, "ATTR_VALUE")
        ELSE Token(h1, "ATTR_VALUE", h1.pos, end, end + 1, "after_attribute_value_quoted_state")

h5_state_attribute_value_no_quote(h) ==
    LET end == Stop(h.pos, CharWhite \cup {">"})
    IN  IF end = Length THEN Rest(h, "ATTR_VALUE")
        ELSE IF At(end) = ">" THEN Token(h, "ATTR_VALUE", h.pos, end, end, "tag_name_close")
        ELSE Token(h, "ATTR_VALUE", h.pos, end, end + 1, "before_attribute_name")

h5_state_before_attribute_value(h) ==
    LET h1 == h5_skip_white(h)
    IN  IF SeesEof(h1) THEN None([h1 EXCEPT !.state = "eof"])
        ELSE IF At(h1.pos) \in QuoteBytes
        THEN h5_state_attribute_value_quote(h1, At(h1.pos))
        ELSE h5_state_attribute_value_no_quote(h1)

h5_state_after_attribute_name(h) ==
    LET h1 == h5_skip_white(h)
    IN  IF SeesEof(h1) THEN None(h1)
        ELSE CASE At(h1.pos) = "/" -> h5_state_self_closing_start_tag(Skip(h1, 1))
               [] At(h1.pos) = "=" -> h5_state_before_attribute_value(Skip(h1, 1))
               [] At(h1.pos) = ">" -> h5_state_tag_name_close(h1)
               [] OTHER -> h5_state_attribute_name(h1)

h5_state_after_attribute_value_quoted_state(h) ==
    IF AtEnd(h) THEN None(h)
    ELSE CASE At(h.pos) \in CharWhite -> h5_state_before_attribute_name(Skip(h, 1))
           [] At(h.pos) = "/" -> h5_state_self_closing_start_tag(Skip(h, 1))
           [] At(h.pos) = ">" ->
                Token(h, "TAG_NAME_CLOSE", h.pos, h.pos + 1, h.pos + 1, "data")
           [] OTHER -> h5_state_before_attribute_name(h)
-----------------------------------------------------------------------------
(* Comments and declarations.                                              *)

h5_state_bogus_comment(h) ==
    LET end == memchr(h.pos, ">")
    IN  IF end = Length THEN [Rest(h, "TAG_COMMENT") EXCEPT !.pos = Length]
        ELSE Token(h, "TAG_COMMENT", h.pos, end, end + 1, "data")

(* <% ... %> *)
h5_state_bogus_comment2(h) ==
    LET end == Find(h.pos, <<"%", ">">>)
    IN  IF end = Length THEN [Rest(h, "TAG_COMMENT") EXCEPT !.pos = Length]
        ELSE Token(h, "TAG_COMMENT", h.pos, end, end + 2, "data")

(* The byte after dash i and the NULs that follow it.  *)
AfterDash(i) == Min({Length} \cup {k \in i + 1 .. Length - 1 : At(k) # NUL})

(* The comment ends at the first dash that is followed, NULs aside, by     *)
(* -> or !>; the search ends at a dash with nothing but NULs after it.     *)
h5_state_comment(h) ==
    LET dashes == {i \in h.pos .. Length - 3 : At(i) = "-"}
        ends == {i \in dashes : /\ AfterDash(i) < Length - 1
                                /\ At(AfterDash(i)) \in {"-", "!"}
                                /\ At(AfterDash(i) + 1) = ">"}
        end == Min(ends)
    IN  IF ends = {} THEN Rest(h, "TAG_COMMENT")
        ELSE Token(h, "TAG_COMMENT", h.pos, end, AfterDash(end) + 2, "data")

h5_state_cdata(h) ==
    LET end == Find(h.pos, <<"]", "]", ">">>)
    IN  IF end = Length THEN Rest(h, "DATA_TEXT")
        ELSE Token(h, "DATA_TEXT", h.pos, end, end + 3, "data")

h5_state_doctype(h) ==
    LET end == memchr(h.pos, ">")
    IN  IF end = Length THEN Rest(h, "DOCTYPE")
        ELSE Token(h, "DOCTYPE", h.pos, end, end + 1, "data")

DOCTYPE == <<"D", "O", "C", "T", "Y", "P", "E">>
CDATA == <<"[", "C", "D", "A", "T", "A", "[">>

h5_state_markup_declaration_open(h) ==
    IF h.pos + 7 <= Length /\ [i \in 1 .. 7 |-> Upcase(At(h.pos + i - 1))] = DOCTYPE
    THEN h5_state_doctype(h)
    ELSE IF Word(h.pos, CDATA) THEN h5_state_cdata(Skip(h, 7))
    ELSE IF Word(h.pos, <<"-", "-">>) THEN h5_state_comment(Skip(h, 2))
    ELSE h5_state_bogus_comment(h)
-----------------------------------------------------------------------------
(* Data and the start of a tag.                                            *)

(* Text up to the next <. *)
UpToTag(h) ==
    LET end == memchr(h.pos, "<")
    IN  IF end = Length THEN Rest(h, "DATA_TEXT")
        ELSE Token(h, "DATA_TEXT", h.pos, end, end + 1, "tag_open")

(* After </ the text that begins with > is data, and not empty. *)
h5_state_end_tag_open(h) ==
    IF AtEnd(h) THEN None(h)
    ELSE CASE At(h.pos) = ">" -> UpToTag(h)
           [] At(h.pos) \in Letters -> h5_state_tag_name(h)
           [] OTHER -> h5_state_bogus_comment([h EXCEPT !.is_close = FALSE])

h5_state_tag_open(h) ==
    IF AtEnd(h) THEN None(h)
    ELSE CASE At(h.pos) = "!" -> h5_state_markup_declaration_open(Skip(h, 1))
           [] At(h.pos) = "/" -> h5_state_end_tag_open([Skip(h, 1) EXCEPT !.is_close = TRUE])
           [] At(h.pos) = "?" -> h5_state_bogus_comment(Skip(h, 1))
           [] At(h.pos) = "%" -> h5_state_bogus_comment2(Skip(h, 1))
           [] At(h.pos) \in Letters \cup {NUL} -> h5_state_tag_name(h)
           [] OTHER -> Token(h, "DATA_TEXT", h.pos - 1, h.pos, h.pos, "data")

(* No token of no bytes. *)
h5_state_data(h) ==
    IF h.pos > Length THEN [h EXCEPT !.ret = -1]
    ELSE IF UpToTag(h).size > 0 THEN UpToTag(h)
    ELSE IF UpToTag(h).state = "eof" THEN None(UpToTag(h))
    ELSE h5_state_tag_open(UpToTag(h))
-----------------------------------------------------------------------------
(* libinjection_h5_next: a state that is no function of its own above is   *)
(* one of the quoted values.                                               *)
libinjection_h5_next(h) ==
    CASE h.state = "data" -> h5_state_data(h)
      [] h.state = "eof" -> None(h)
      [] h.state = "tag_open" -> h5_state_tag_open(h)
      [] h.state = "tag_name_close" -> h5_state_tag_name_close(h)
      [] h.state = "self_closing_start_tag" -> h5_state_self_closing_start_tag(h)
      [] h.state = "before_attribute_name" -> h5_state_before_attribute_name(h)
      [] h.state = "after_attribute_name" -> h5_state_after_attribute_name(h)
      [] h.state = "before_attribute_value" -> h5_state_before_attribute_value(h)
      [] h.state = "after_attribute_value_quoted_state" ->
            h5_state_after_attribute_value_quoted_state(h)
      [] h.state = "attribute_value_single_quote" -> h5_state_attribute_value_quote(h, "'")
      [] h.state = "attribute_value_double_quote" -> h5_state_attribute_value_quote(h, "\"")
      [] h.state = "attribute_value_back_quote" -> h5_state_attribute_value_quote(h, Tick)

FirstState(flags) ==
    CASE flags = "DATA_STATE" -> "data"
      [] flags = "VALUE_NO_QUOTE" -> "before_attribute_name"
      [] flags = "VALUE_SINGLE_QUOTE" -> "attribute_value_single_quote"
      [] flags = "VALUE_DOUBLE_QUOTE" -> "attribute_value_double_quote"
      [] flags = "VALUE_BACK_QUOTE" -> "attribute_value_back_quote"

Blank(state) == [pos |-> 0, is_close |-> FALSE, state |-> state, ret |-> 1,
                 type |-> "DATA_TEXT", start |-> 0, size |-> 0]

Init ==
    /\ alphabet \in Alphabets
    /\ text = <<>> /\ pieces = 0
    /\ pc = "writing"
    /\ hs = Blank("data")
    /\ tokens = <<>>

Write(piece) ==
    /\ pc = "writing" /\ pieces < alphabet.most
    /\ text' = text \o piece
    /\ pieces' = pieces + 1
    /\ UNCHANGED <<alphabet, pc, hs, tokens>>

libinjection_h5_init(flags) ==
    /\ pc = "writing"
    /\ hs' = Blank(FirstState(flags))
    /\ pc' = "scanning"
    /\ UNCHANGED <<alphabet, text, pieces, tokens>>

(* while (libinjection_h5_next(&h5)) *)
Call ==
    /\ pc = "scanning"
    /\ hs' = libinjection_h5_next(hs)
    /\ pc' = IF hs'.ret = 1 THEN "scanning" ELSE "stopped"
    /\ tokens' = IF hs'.ret # 1 THEN tokens
                 ELSE Append(tokens, [type |-> hs'.type, start |-> hs'.start, size |-> hs'.size])
    /\ UNCHANGED <<alphabet, text, pieces>>

Next ==
    \/ \E piece \in alphabet.pieces : Write(piece)
    \/ \E flags \in ToSet(alphabet.contexts) : libinjection_h5_init(flags)
    \/ Call

Spec == Init /\ [][Next]_vars
-----------------------------------------------------------------------------
BytesOf(token) == SubSeq(text, token.start + 1, token.start + token.size)
EndOf(token) == token.start + token.size
Covered(i) == \E k \in DOMAIN tokens : i \in tokens[k].start .. EndOf(tokens[k]) - 1

(* The bytes from start on up to the first of these, or the first word.    *)
UpTo(start, end, bytes) ==
    /\ \A i \in start .. end - 1 : At(i) \notin bytes
    /\ end < Length => At(end) \in bytes
UpToWord(start, end, word) ==
    /\ \A i \in start .. end - 1 : ~Word(i, word)
    /\ end < Length => Word(end, word)

WholeValue(start, end) ==
    \/ \E quote \in QuoteBytes :
          (start > 0 => At(start - 1) = quote) /\ UpTo(start, end, {quote})
    \/ /\ start > 0 /\ At(start - 1) \in CharWhite \cup {"="}
       /\ UpTo(start, end, CharWhite \cup {">"})
(* <!-- -->, <% %>, or what is no declaration, up to its bracket.          *)
WholeComment(start, end) ==
    /\ start > 0
    /\ \/ /\ At(start - 1) = "-"
          /\ \A i \in start .. end - 1 :
                ~Word(i, <<"-", "-", ">">>) /\ ~Word(i, <<"-", "!", ">">>)
          /\ end < Length => At(end) = "-"
       \/ At(start - 1) = "%" /\ UpToWord(start, end, <<"%", ">">>)
       \/ At(start - 1) \in {"!", "/", "?"} /\ UpTo(start, end, {">"})
(* What no tag begins in, a < that begins none, or CDATA.                  *)
WholeText(start, end) ==
    \/ UpTo(start, end, {"<"})
    \/ end = start + 1 /\ At(start) = "<"
    \/ start >= 7 /\ Word(start - 7, CDATA) /\ UpToWord(start, end, <<"]", "]", ">">>)

TokenTypes == {"DATA_TEXT", "TAG_NAME_OPEN", "TAG_NAME_CLOSE", "TAG_NAME_SELFCLOSE", "TAG_CLOSE",
               "ATTR_NAME", "ATTR_VALUE", "TAG_COMMENT", "DOCTYPE"}
(* What a token of each type is: neither shorter nor longer.               *)
Whole(type, start, end) ==
    /\ type \in TokenTypes
    /\ type \in {"TAG_NAME_OPEN", "TAG_CLOSE"} => UpTo(start, end, NameEnds)
    /\ type = "TAG_NAME_CLOSE" => end = start + 1 /\ At(start) = ">"
    /\ type = "TAG_NAME_SELFCLOSE" => end = start + 2 /\ At(start) = "/" /\ At(start + 1) = ">"
    /\ type = "ATTR_NAME" => start < end /\ UpTo(start + 1, end, CharWhite \cup {"/", "=", ">"})
    /\ type = "ATTR_VALUE" => WholeValue(start, end)
    /\ type = "TAG_COMMENT" => WholeComment(start, end)
    /\ type = "DOCTYPE" => UpTo(start, end, {">"})
    /\ type = "DATA_TEXT" => WholeText(start, end)

(* The bytes that stand between tokens. *)
Marks == CharWhite \cup QuoteBytes \cup {"<", ">", "/", "=", "!", "?", "%", "-", "]"}
Opening(i) == \E k \in 1 .. i : At(k - 1) = "!" /\ Word(k, CDATA) /\ i < k + 7
-----------------------------------------------------------------------------
TypeOK ==
    /\ hs.pos \in 0 .. Length /\ hs.is_close \in BOOLEAN /\ hs.ret \in {0, 1}
    /\ pc \in {"writing", "scanning", "stopped"}
    /\ pieces \in 0 .. alphabet.most

(* A token is a part of the text, and begins where the one before it ends  *)
(* or later: no byte is handed out twice.                                  *)
TokensInOrder ==
    \A k \in DOMAIN tokens :
        /\ tokens[k].start >= 0 /\ tokens[k].size >= 0
        /\ tokens[k].start + tokens[k].size <= Length
        /\ k > 1 => tokens[k].start >= tokens[k - 1].start + tokens[k - 1].size

(* Every byte is in a token once the scan is over but for the marks: white *)
(* space, quotes, brackets and the other bytes of markup, and ![CDATA[.    *)
(* Only where a byte is taken for the end of the text is the rest lost.    *)
NothingLost ==
    pc = "stopped" =>
        \A i \in 0 .. Length - 1 :
            \/ Covered(i) \/ At(i) \in Marks \/ Opening(i)
            \/ hs.pos <= i /\ At(hs.pos) \in EofBytes

(* A token has the bytes of its kind and no others: it goes up to what     *)
(* ends its kind, or to the end of the text, and holds nothing that would  *)
(* have ended it.                                                          *)
TokensAreWhole ==
    \A k \in DOMAIN tokens : Whole(tokens[k].type, tokens[k].start, EndOf(tokens[k]))

(* A scan of n bytes ends after at most n + 1 tokens: every call that      *)
(* finds one gets on.                                                      *)
FewTokens == Len(tokens) <= Length + 1

KeepsText == TypeOK /\ TokensInOrder /\ NothingLost /\ TokensAreWhole /\ FewTokens
=============================================================================
