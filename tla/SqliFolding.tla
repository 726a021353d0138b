----------------------------- MODULE SqliFolding -----------------------------
(***************************************************************************)
(* libinjection_sqli_fold as operators on fo, its local variables: vec the *)
(* eight slots of tokenvec, pos where the next token goes, left how many   *)
(* tokens are done with, more, and last_comment.  phase is the place in    *)
(* the function: the first loop ("skip"), the head of the main loop        *)
(* ("top"), the two loops that fetch tokens ("fetch2", "fetch3"), the      *)
(* rules for two and for three tokens ("pair", "triple"), and "done".      *)
(* stats_folds, which nothing reads, is left out.                          *)
(***************************************************************************)
EXTENDS SqliParse

LIBINJECTION_SQLI_MAX_TOKENS == 5

StartFold == [vec |-> [i \in 0 .. 7 |-> st_clear], pos |-> 0, left |-> 0, more |-> TRUE,
              last_comment |-> st_clear, phase |-> "skip"]

Fetching(fo) == fo.phase \in {"skip", "fetch2", "fetch3"}
(* The condition of the loops that fetch. *)
Wants(fo, n) == /\ fo.more /\ fo.pos <= LIBINJECTION_SQLI_MAX_TOKENS
                /\ fo.pos - fo.left < n
(* What the loop that fetches up to n tokens goes on with. *)
After(fo, n) == [fo EXCEPT !.phase = IF Wants(fo, n) THEN IF n = 2 THEN "fetch2" ELSE "fetch3"
                                     ELSE IF n = 2 THEN "pair" ELSE "triple"]
IsType(fo, i, types) == fo.vec[fo.left + i].type \in types
Unary(fo, i) == st_is_unary_op(fo.vec[fo.left + i])
IsWord(fo, i, words) == \E word \in words : SameWord(word, fo.vec[fo.left + i].val)

(* Tokens are dropped from the end; the loop goes on from left. *)
Drop(fo, n, left) == [fo EXCEPT !.pos = @ - n, !.left = left, !.phase = "top"]
(* A slot takes the token of the next one, which is dropped. *)
Over(fo, i, n) == Drop([fo EXCEPT !.vec[fo.left + i] = fo.vec[fo.left + i + 1]], n, 0)
Retype(fo, i, type) == [fo EXCEPT !.vec[fo.left + i].type = type, !.phase = "top"]
OneBack(fo) == IF fo.left > 0 THEN fo.left - 1 ELSE 0
-----------------------------------------------------------------------------
(* The result is in left and vec: a comment at the end is added again, and *)
(* the sixth token that helped with the fifth is taken off.                *)
Finish(fo) ==
    LET ends == fo.left < LIBINJECTION_SQLI_MAX_TOKENS /\ fo.last_comment.type = "c"
        added == IF ends THEN [fo EXCEPT !.vec[fo.left] = fo.last_comment, !.left = @ + 1] ELSE fo
    IN  [added EXCEPT !.left = Min({@, LIBINJECTION_SQLI_MAX_TOKENS}), !.phase = "done"]

(* A token has been read; type NUL if libinjection_sqli_tokenize found     *)
(* none.  Comments, opening parentheses, types and unary operators before  *)
(* the first token are skipped.                                            *)
Fetched(fo, token) ==
    IF fo.phase = "skip"
    THEN LET got == [fo EXCEPT !.vec[0] = token, !.more = token.type # NUL]
         IN  IF token.type \in {"c", "(", "t"} \/ st_is_unary_op(token) THEN got
             ELSE IF token.type = NUL THEN [got EXCEPT !.phase = "done"]
             ELSE [got EXCEPT !.pos = 1, !.phase = "top"]
    ELSE LET got == [fo EXCEPT !.vec[fo.pos] = token]
             next == IF token.type = NUL THEN [got EXCEPT !.more = FALSE]
                     ELSE IF token.type = "c" THEN [got EXCEPT !.last_comment = token]
                     ELSE [got EXCEPT !.last_comment.type = NUL, !.pos = @ + 1]
         IN  After(next, IF fo.phase = "fetch2" THEN 2 ELSE 3)

(* The five tokens that are folded into one. *)
FiveFold(fo) ==
    LET is(i, types) == fo.vec[i].type \in types
    IN  \/ is(0, {"1"}) /\ is(1, {"o", ","}) /\ is(2, {"("}) /\ is(3, {"1"}) /\ is(4, {")"})
        \/ is(0, {"n"}) /\ is(1, {"o"}) /\ is(2, {"("}) /\ is(3, {"n", "1"}) /\ is(4, {")"})
        \/ is(0, {"1"}) /\ is(1, {")"}) /\ is(2, {","}) /\ is(3, {"("}) /\ is(4, {"1"})
        \/ is(0, {"n"}) /\ is(1, {")"}) /\ is(2, {"o"}) /\ is(3, {"("}) /\ is(4, {"n"})

(* The head of the loop: the special case for five tokens, then the end or *)
(* the next two tokens.                                                    *)
Top(fo) ==
    LET folded ==
          IF fo.pos < LIBINJECTION_SQLI_MAX_TOKENS \/ ~FiveFold(fo) THEN fo
          ELSE IF fo.pos = LIBINJECTION_SQLI_MAX_TOKENS THEN [fo EXCEPT !.pos = 1, !.left = 0]
          ELSE [fo EXCEPT !.vec[1] = fo.vec[LIBINJECTION_SQLI_MAX_TOKENS], !.pos = 2, !.left = 0]
    IN  IF ~folded.more \/ folded.left >= LIBINJECTION_SQLI_MAX_TOKENS
        THEN Finish([folded EXCEPT !.left = folded.pos]) ELSE After(folded, 2)
-----------------------------------------------------------------------------
(* syntax_merge_words: the type of the two words as one, NUL if they are   *)
(* none.                                                                   *)
Phrase(a, b) == a.val \o <<" ">> \o b.val
syntax_merge_words(a, b) ==
    LET words == {"k", "n", "o", "U", "f", "E", "T", "t"}
    IN  IF a.type \in words /\ b.type \in words \cup {"&"}
           /\ a.len + b.len + 1 < LIBINJECTION_SQLI_TOKEN_SIZE
        THEN bsearch_keyword_type(Phrase(a, b)) ELSE NUL
Merged(fo, type) ==
    LET a == fo.vec[fo.left]
        phrase == Phrase(a, fo.vec[fo.left + 1])
    IN  [fo EXCEPT !.vec[fo.left] =
            [a EXCEPT !.type = type, !.len = Len(phrase), !.val = phrase]]

USER == <<"U", "S", "E", "R">>
IN_ == <<"I", "N">>
NOT_ == <<"N", "O", "T", " ">>
LIKE == <<"L", "I", "K", "E">>
CURRENT_ == <<"C", "U", "R", "R", "E", "N", "T", "_">>
DATE == <<"D", "A", "T", "E">>
TIME == <<"T", "I", "M", "E">>
STAMP == <<"S", "T", "A", "M", "P">>
LOCAL_ == <<"L", "O", "C", "A", "L">>
FunctionWords ==
    {USER, USER \o <<"_", "I", "D">>, USER \o <<"_", "N", "A", "M", "E">>,
     <<"D", "A", "T", "A", "B", "A", "S", "E">>, <<"P", "A", "S", "S", "W", "O", "R", "D">>,
     CURRENT_ \o USER, CURRENT_ \o DATE, CURRENT_ \o TIME, CURRENT_ \o TIME \o STAMP,
     LOCAL_ \o TIME, LOCAL_ \o TIME \o STAMP}
(* strchr stops at the NUL that ends val or stands in it. *)
HasUnderscore(st) == \E i \in DOMAIN st.val : st.val[i] = "_" /\ \A j \in 1 .. i : st.val[j] # NUL
SaysIf(st) == st.len > 1 /\ st.val[1] \in {"I", "i"} /\ st.val[2] \in {"F", "f"}

(* No rule for two tokens applies: a third is fetched. *)
Third(fo) == After(fo, 3)

\* Mutant: IN keeps its type if it is no operator.
InStays(fo) ==
    IF IsType(fo, 1, {"("}) THEN Retype(fo, 0, "o") ELSE [fo EXCEPT !.phase = "top"]

(* IN and NOT IN are an operator before a parenthesis, else nothing. *)
InIsOperator(fo) == IF IsType(fo, 1, {"("}) THEN Retype(fo, 0, "o") ELSE Retype(fo, 0, "n")

\* Mutant: the text is not marked as given up.
BraceUnmarked(fo) ==
    IF fo.vec[fo.left + 1].len = 0 THEN [fo EXCEPT !.left = @ + 2, !.phase = "done"]
    ELSE Drop(fo, 2, 0)

(* A brace before a name: with an empty name the text is given up, and the *)
(* function returns at once.                                               *)
OpenBrace(fo) ==
    IF fo.vec[fo.left + 1].len = 0
    THEN [fo EXCEPT !.vec[fo.left + 1].type = "X", !.left = @ + 2, !.phase = "done"]
    ELSE Drop(fo, 2, 0)

(* A backslash before an arithmetic operator is a number, else nothing. *)
Backslash(fo) ==
    IF st_is_arithmetic_op(fo.vec[fo.left + 1])
    THEN [Retype(fo, 0, "1") EXCEPT !.left = 0]
    ELSE Over(fo, 0, 1)

(* The first rule for two tokens that applies. *)
PairRule(fo) ==
    LET merged == syntax_merge_words(fo.vec[fo.left], fo.vec[fo.left + 1])
        first(types) == IsType(fo, 0, types)
        second(types) == IsType(fo, 1, types)
        operand == {"n", "1", "t", "(", "f", "v", "s"}
    IN  IF \E type \in {"s", ";"} : first({type}) /\ second({type}) THEN Drop(fo, 1, fo.left)
        ELSE IF first({"o", "&"}) /\ (Unary(fo, 1) \/ second({"t"})) THEN Drop(fo, 1, 0)
        ELSE IF first({"("}) /\ Unary(fo, 1) THEN Drop(fo, 1, OneBack(fo))
        ELSE IF merged # NUL THEN Drop(Merged(fo, merged), 1, OneBack(fo))
        ELSE IF first({";"}) /\ second({"f"}) /\ SaysIf(fo.vec[fo.left + 1]) THEN Retype(fo, 1, "T")
        ELSE IF first({"n", "v"}) /\ second({"("}) /\ IsWord(fo, 0, FunctionWords)
        THEN Retype(fo, 0, "f")
        ELSE IF first({"k"}) /\ IsWord(fo, 0, {IN_, NOT_ \o IN_}) THEN InIsOperator(fo)
        ELSE IF first({"o"}) /\ IsWord(fo, 0, {LIKE, NOT_ \o LIKE})
        THEN Third(IF second({"("}) THEN Retype(fo, 0, "f") ELSE fo)
        ELSE IF first({"t"}) /\ second(operand) THEN Over(fo, 0, 1)
        ELSE IF first({"A"}) /\ second({"n"})
        THEN Third(IF HasUnderscore(fo.vec[fo.left + 1])
                   THEN [Retype(fo, 1, "t") EXCEPT !.left = 0] ELSE fo)
        ELSE IF first({"\\"}) THEN Backslash(fo)
        ELSE IF \E type \in {"(", ")"} : first({type}) /\ second({type}) THEN Drop(fo, 1, 0)
        ELSE IF first({"{"}) /\ second({"n"}) THEN OpenBrace(fo)
        ELSE IF second({"}"}) THEN Drop(fo, 1, 0)
        ELSE Third(fo)

Pair(fo) ==
    IF fo.pos - fo.left < 2 THEN [fo EXCEPT !.left = fo.pos, !.phase = "top"] ELSE PairRule(fo)
-----------------------------------------------------------------------------
(* Two operands and what stands between them are the first operand. *)
OperandsFold(fo) ==
    LET first(types) == IsType(fo, 0, types)
        second(types) == IsType(fo, 1, types)
        third(types) == IsType(fo, 2, types)
    IN  \/ first({"1"}) /\ second({"o"}) /\ third({"1"})
        \/ first({"o"}) /\ ~second({"("}) /\ third({"o"})
        \/ first({"&"}) /\ third({"&"})
        \/ first({"v"}) /\ second({"o"}) /\ third({"v", "1", "n"})
        \/ first({"n", "1"}) /\ second({"o"}) /\ third({"1", "n"})
        \/ first({"n", "1", "v", "s"}) /\ second({"o"}) /\ third({"t"})
              /\ fo.vec[fo.left + 1].val = <<":", ":">>
        \/ first({"n", "1", "s", "v"}) /\ second({","}) /\ third({"1", "n", "s", "v"})
        \/ first({"n"}) /\ second({"."}) /\ third({"n"})
(* A unary operator, or a dot, that the next token stands for. *)
SecondFolds(fo) ==
    LET first(types) == IsType(fo, 0, types)
        third(types) == IsType(fo, 2, types)
    IN  \/ first({"E", "B", ","}) /\ Unary(fo, 1) /\ third({"("})
        \/ first({"k", "E", "B"}) /\ Unary(fo, 1) /\ third({"1", "n", "v", "s", "f"})
        \/ first({","}) /\ Unary(fo, 1) /\ third({"f"})
        \/ first({"E"}) /\ IsType(fo, 1, {"."}) /\ third({"n"})
(* A comma, a sign and an operand. *)
SignedFolds(fo) ==
    IsType(fo, 0, {","}) /\ Unary(fo, 1) /\ IsType(fo, 2, {"1", "n", "v", "s"})

(* The rules for three tokens; if none applies, the leftmost is done with. *)
(* USER( with an argument is no function.                                  *)
Triple(fo) ==
    IF fo.pos - fo.left < 3 THEN [fo EXCEPT !.left = fo.pos, !.phase = "top"]
    ELSE IF OperandsFold(fo) THEN Drop(fo, 2, 0)
    ELSE IF SecondFolds(fo) THEN Over(fo, 1, 1)
    ELSE IF SignedFolds(fo) THEN Over(fo, 1, 3)
    ELSE LET noFunction == /\ IsType(fo, 0, {"f"}) /\ IsType(fo, 1, {"("})
                           /\ ~IsType(fo, 2, {")"}) /\ IsWord(fo, 0, {USER})
             kept == IF noFunction THEN Retype(fo, 0, "n") ELSE fo
         IN  [kept EXCEPT !.left = @ + 1, !.phase = "top"]

(* One step that reads no token. *)
FoldStep(fo) ==
    CASE fo.phase = "top" -> Top(fo)
      [] fo.phase = "pair" -> Pair(fo)
      [] fo.phase = "triple" -> Triple(fo)
=============================================================================
