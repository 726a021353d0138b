---------------------------- MODULE SqliTokenizer ----------------------------
(***************************************************************************)
(* libinjection_sqli_tokenize called on a text until it finds no more      *)
(* token: one action is one turn of its loop, that is one call of a        *)
(* parser.                                                                 *)
(***************************************************************************)
EXTENDS SqliParse

CONSTANT
    Alphabets   \* what a text may be: records of the pieces, sequences of
                \* bytes, the bound on how many (most), and the flags it may
                \* be read with (modes): <<pretended quote or NUL, MySQL?>>

VARIABLES
    alphabet,  \* the one this text is written with
    text, pieces,
    pc,      \* "writing", "scanning", "stopped"
    sf,
    tokens   \* history: the tokens so far

vars == <<alphabet, text, pieces, pc, sf, tokens>>

Init ==
    /\ alphabet \in Alphabets
    /\ text = <<>> /\ pieces = 0
    /\ pc = "writing"
    /\ sf = Fresh(<<>>, NUL, FALSE)
    /\ tokens = <<>>

Write(piece) ==
    /\ pc = "writing" /\ pieces < alphabet.most
    /\ text' = text \o piece
    /\ pieces' = pieces + 1
    /\ UNCHANGED <<alphabet, pc, sf, tokens>>

libinjection_sqli_init(mode) ==
    /\ pc = "writing"
    /\ sf' = Fresh(text, mode[1], mode[2])
    /\ pc' = "scanning"
    /\ UNCHANGED <<alphabet, text, pieces, tokens>>

libinjection_sqli_tokenize ==
    /\ pc = "scanning"
    /\ IF sf.pos < Slen(sf)
       THEN /\ sf' = Turn(sf)
            /\ tokens' = IF sf'.current.type = NUL THEN tokens ELSE Append(tokens, sf'.current)
            /\ UNCHANGED pc
       ELSE /\ pc' = "stopped"
            /\ UNCHANGED <<sf, tokens>>
    /\ UNCHANGED <<alphabet, text, pieces>>

Next ==
    \/ \E piece \in alphabet.pieces : Write(piece)
    \/ \E mode \in alphabet.modes : libinjection_sqli_init(mode)
    \/ libinjection_sqli_tokenize

Spec == Init /\ [][Next]_vars
-----------------------------------------------------------------------------
(* All the tokens of a text from its first byte on. *)
AllTokens(start) ==
    LET from[pos \in 0 .. Slen(start)] ==
          IF pos = Slen(start) THEN <<>>
          ELSE LET turn == Turn([start EXCEPT !.pos = pos])
               IN  (IF turn.current.type = NUL THEN <<>> ELSE <<turn.current>>) \o from[turn.pos]
    IN  from[0]

(* The end of a string read forwards: a backslash takes the next byte with *)
(* it, a doubled quote is a byte of the string.                            *)
ForwardEnd(from, delim) ==
    LET end[i \in 0 .. Len(text) + 1] ==
          IF i >= Len(text) THEN Len(text)
          ELSE IF text[i + 1] = "\\" THEN end[i + 2]
          ELSE IF text[i + 1] # delim THEN end[i + 1]
          ELSE IF i + 1 < Len(text) /\ text[i + 2] = delim THEN end[i + 2]
          ELSE i
    IN  end[from]
Quotes == {"'", "\"", Tick}
-----------------------------------------------------------------------------
TypeOK ==
    /\ sf.pos \in 0 .. Slen(sf)
    /\ sf.stats_tokens = Len(tokens)
    /\ \A k \in DOMAIN tokens :
          /\ tokens[k].type \in Bytes
          /\ tokens[k].len = Len(tokens[k].val)
          /\ tokens[k].len < LIBINJECTION_SQLI_TOKEN_SIZE
    /\ pc \in {"writing", "scanning", "stopped"}

(* A token is a part of the text and begins where the one before it ends   *)
(* or later.                                                               *)
TokensInOrder ==
    \A k \in DOMAIN tokens :
        /\ tokens[k].pos + tokens[k].len <= sf.pos
        /\ tokens[k].val = SubSeq(text, tokens[k].pos + 1, tokens[k].pos + tokens[k].len)
        /\ k > 1 => tokens[k].pos >= tokens[k - 1].pos + tokens[k - 1].len

(* Looking back from a quote over the backslashes before it finds the same *)
(* end of a string as reading the string forwards.                         *)
StringEndsWhereRead ==
    \A k \in DOMAIN tokens :
        tokens[k].str_open \in Quotes /\ tokens[k].len < LIBINJECTION_SQLI_TOKEN_SIZE - 1 =>
            tokens[k].pos + tokens[k].len
                = Min({Len(text), ForwardEnd(tokens[k].pos, tokens[k].str_open)})

(* A comment between slash-stars is unparsable if another one begins in it *)
(* or if it is one of MySQL's conditional comments, and only then.         *)
CommentsAreNotNested ==
    \A k \in DOMAIN tokens :
        tokens[k].type \in {"c", "X"} /\ tokens[k].val[1] = "/"
            /\ tokens[k].len < LIBINJECTION_SQLI_TOKEN_SIZE - 1 =>
            LET val == tokens[k].val
                closed == tokens[k].len > 3
                              /\ SubSeq(val, tokens[k].len - 1, tokens[k].len) = <<"*", "/">>
                opens == \E i \in 3 .. tokens[k].len - 1 : SubSeq(val, i, i + 1) = <<"/", "*">>
            IN  tokens[k].type = "X" <=> (closed /\ opens) \/ (Len(val) > 2 /\ val[3] = "!")

(* MySQL reads other tokens than ANSI SQL only if, after the pass for ANSI *)
(* SQL, one of the two counters says so that reparse_as_mysql looks at.    *)
CountersTellMySQLApart ==
    pc = "stopped" /\ ~sf.mysql /\ sf.stats_comment_ddx = 0 /\ sf.stats_comment_hash = 0 =>
        tokens = AllTokens(Fresh(text, sf.quote, TRUE))

(* A pretended quote reads the text like a quote before it: what the       *)
(* comment in libinjection_is_sqli says the passes with a quote do.        *)
PretendedQuoteIsAQuote ==
    pc = "stopped" /\ sf.quote # NUL /\ text # <<>> =>
        LET quoted == AllTokens(Fresh(<<sf.quote>> \o text, NUL, sf.mysql))
            shifted == [k \in DOMAIN quoted |-> [quoted[k] EXCEPT !.pos = @ - 1]]
        IN  tokens = [shifted EXCEPT ![1].str_open = NUL]

(* The binary search finds a word, in capitals or not, if it is in the     *)
(* table, and nothing else.                                                *)
SearchFindsWords ==
    LET upper == [i \in DOMAIN text |-> Upcase(text[i])]
        entries == {k \in DOMAIN sql_keywords : sql_keywords[k][1] = upper}
    IN  pc = "writing" =>
        bsearch_keyword_type(text) =
            IF entries = {} THEN NUL ELSE sql_keywords[CHOOSE k \in entries : TRUE][2]
=============================================================================
