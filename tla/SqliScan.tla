------------------------------ MODULE SqliScan ------------------------------
(***************************************************************************)
(* libinjection_sqli: the tokenizer and the fold put together.  A text is  *)
(* read up to five times, each time for one context: as it is or as if a   *)
(* quote stood before it, for ANSI SQL or for MySQL.  Each pass makes a    *)
(* fingerprint, the types of the folded tokens, which is looked up in the  *)
(* table and then once more weighed by not_whitelist.                      *)
(***************************************************************************)
EXTENDS SqliFolding

CONSTANTS
    Pieces,    \* what a text is written with: sequences of bytes
    MaxPieces  \* bound: pieces written

VARIABLES
    text, pieces,
    pc,           \* "writing", "scanning", "answered"
    pass,         \* the context being tested: 1 to 5
    sf, fo,
    fingerprint,  \* of the state, then what the caller gets
    verdict

vars == <<text, pieces, pc, pass, sf, fo, fingerprint, verdict>>

Passes == << <<NUL, FALSE>>, <<NUL, TRUE>>, <<"'", FALSE>>, <<"'", TRUE>>, <<"\"", TRUE>> >>
First(st) == IF st.len = 0 THEN NUL ELSE st.val[1]
SP_PASSWORD == <<"s", "p", "_", "p", "a", "s", "s", "w", "o", "r", "d">>
INTO_ == <<"I", "N", "T", "O">>
-----------------------------------------------------------------------------
(* The tokens of the fold with PHP's back quote taken for a comment. *)
Tokens(f) ==
    LET last == f.vec[f.left - 1]
    IN  IF f.left > 2 /\ last.type = "n" /\ last.str_open = Tick
              /\ last.len = 0 /\ last.str_close = NUL
        THEN [f.vec EXCEPT ![f.left - 1].type = "c"] ELSE f.vec
(* A text that could not be parsed has the fingerprint X. *)
libinjection_sqli_fingerprint(f) ==
    LET types == [i \in 1 .. f.left |-> Tokens(f)[i - 1].type]
    IN  IF "X" \in ToSet(types) THEN <<"X">> ELSE types

(* Is the fingerprint in the table, with a 0 before it and in capitals?    *)
libinjection_sqli_blacklist(print) ==
    /\ print # <<>>
    /\ is_keyword(<<"0">> \o [i \in DOMAIN print |-> Upcase(print[i])]) = "F"

(* A number and a comment: is the byte right after the number, counted     *)
(* from the start of the text, the end of a word?                          *)
NumberEnds(s, number) ==
    \/ CodeOf[At(s, number.len)] <= 32
    \/ At(s, number.len) = "/" /\ At(s, number.len + 1) = "*"
    \/ At(s, number.len) = "-" /\ At(s, number.len + 1) = "-"

TwoTokens(s, print, vec) ==
    IF print[2] = "U" THEN s.stats_tokens # 2
    ELSE IF First(vec[1]) = "#" THEN FALSE
    ELSE IF vec[0].type = "n" /\ vec[1].type = "c" /\ First(vec[1]) # "/" THEN FALSE
    ELSE IF vec[0].type = "1" /\ vec[1].type = "c"
    THEN First(vec[1]) = "/" \/ s.stats_tokens > 2 \/ NumberEnds(s, vec[0])
    ELSE ~(vec[1].len > 2 /\ First(vec[1]) = "-")

ThreeTokens(s, print, vec) ==
    IF print \in {<<"s", "o", "s">>, <<"s", "&", "s">>}
    THEN /\ vec[0].str_open = NUL /\ vec[2].str_close = NUL
         /\ vec[0].str_close = vec[2].str_open
    ELSE IF print \in {<<"s", "&", "n">>, <<"n", "&", "1">>, <<"1", "&", "1">>,
                       <<"1", "&", "v">>, <<"1", "&", "s">>}
    THEN s.stats_tokens # 3
    ELSE vec[1].type = "k" =>
            vec[1].len >= 5 /\ SameWord(INTO_, SubSeq(vec[1].val, 1, 4))

(* What is in the table and still no SQL. *)
libinjection_sqli_not_whitelist(s, print, vec) ==
    \/ /\ Len(print) > 1 /\ print[Len(print)] = "c"
       /\ my_memmem(s, 0, Slen(s), SP_PASSWORD) < Slen(s)
    \/ CASE Len(print) = 2 -> TwoTokens(s, print, vec)
         [] Len(print) = 3 -> ThreeTokens(s, print, vec)
         [] OTHER -> TRUE

libinjection_sqli_check_fingerprint(s, f) ==
    LET print == libinjection_sqli_fingerprint(f)
    IN  /\ libinjection_sqli_blacklist(print)
        /\ libinjection_sqli_not_whitelist(s, print, Tokens(f))

\* Mutant: only the dashes are looked at.
ReparseForDashes(s) == s.stats_comment_ddx > 0
reparse_as_mysql(s) == s.stats_comment_ddx > 0 \/ s.stats_comment_hash > 0

(* The pass after one that found nothing; 6 if there is none. *)
NextPass(p, s) ==
    LET single == "'" \in ToSet(s.s)
        double == "\"" \in ToSet(s.s)
    IN  IF p = 1 /\ reparse_as_mysql(s) THEN 2
        ELSE IF p < 3 /\ single THEN 3
        ELSE IF p = 3 /\ reparse_as_mysql(s) THEN 4
        ELSE IF p < 5 /\ double THEN 5 ELSE 6

(* libinjection_sqli_reset: everything but the text and the flags. *)
libinjection_sqli_reset(s, p) == Fresh(text, Passes[p][1], Passes[p][2])
-----------------------------------------------------------------------------
Init ==
    /\ text = <<>> /\ pieces = 0
    /\ pc = "writing"
    /\ pass = 1
    /\ sf = Fresh(<<>>, NUL, FALSE) /\ fo = StartFold
    /\ fingerprint = <<>> /\ verdict = FALSE

Write(piece) ==
    /\ pc = "writing" /\ pieces < MaxPieces
    /\ text' = text \o piece
    /\ pieces' = pieces + 1
    /\ UNCHANGED <<pc, pass, sf, fo, fingerprint, verdict>>

(* libinjection_sqli and libinjection_is_sqli: no input is no SQL. *)
Call ==
    /\ pc = "writing"
    /\ sf' = libinjection_sqli_reset(sf, 1)
    /\ pc' = IF text = <<>> THEN "answered" ELSE "scanning"
    /\ UNCHANGED <<text, pieces, pass, fo, fingerprint, verdict>>

(* libinjection_sqli_tokenize, up to its next token or the end. *)
ReadToken ==
    /\ pc = "scanning" /\ Fetching(fo)
    /\ IF sf.pos = Slen(sf)
       THEN fo' = Fetched(fo, st_clear) /\ UNCHANGED sf
       ELSE /\ sf' = Turn(sf)
            /\ fo' = IF sf'.current.type = NUL THEN fo ELSE Fetched(fo, sf'.current)
    /\ UNCHANGED <<text, pieces, pc, pass, fingerprint, verdict>>

Fold ==
    /\ pc = "scanning" /\ ~Fetching(fo) /\ fo.phase # "done"
    /\ fo' = FoldStep(fo)
    /\ UNCHANGED <<text, pieces, pc, pass, sf, fingerprint, verdict>>

(* lookup of the fingerprint: the answer, or the next pass. *)
Lookup ==
    /\ pc = "scanning" /\ fo.phase = "done"
    /\ verdict' = libinjection_sqli_check_fingerprint(sf, fo)
    /\ IF verdict' \/ NextPass(pass, sf) = 6
       THEN /\ fingerprint' = IF verdict' THEN libinjection_sqli_fingerprint(fo) ELSE <<>>
            /\ pc' = "answered"
            /\ UNCHANGED <<pass, sf, fo>>
       ELSE /\ pass' = NextPass(pass, sf)
            /\ sf' = libinjection_sqli_reset(sf, pass')
            /\ fo' = StartFold
            /\ UNCHANGED <<fingerprint, pc>>
    /\ UNCHANGED <<text, pieces>>

Next == (\E piece \in Pieces : Write(piece)) \/ Call \/ ReadToken \/ Fold \/ Lookup

Spec == Init /\ [][Next]_vars
-----------------------------------------------------------------------------
(* A whole pass as a function of the text and the context. *)
RECURSIVE Folded(_, _), FoldedOn(_, _)
FoldedOn(s, f) == Folded(s, IF s.current.type = NUL THEN f ELSE Fetched(f, s.current))
Folded(s, f) ==
    IF f.phase = "done" THEN [sf |-> s, fo |-> f]
    ELSE IF ~Fetching(f) THEN Folded(s, FoldStep(f))
    ELSE IF s.pos = Slen(s) THEN Folded(s, Fetched(f, st_clear))
    ELSE FoldedOn(Turn(s), f)
PassOf(p) == Folded(Fresh(text, Passes[p][1], Passes[p][2]), StartFold)

RECURSIVE CountTokens(_)
CountTokens(s) ==
    (IF s.current.type = NUL THEN 0 ELSE 1)
        + (IF s.pos >= Slen(s) THEN 0 ELSE CountTokens(Turn(s)))
Checking == pc = "scanning" /\ fo.phase = "done"
-----------------------------------------------------------------------------
(* A text that is told from SQL would have been told so by every pass that *)
(* was left out because its context could not matter.                      *)
SkippedPassesFindNothing ==
    pc = "answered" /\ ~verdict /\ text # <<>> =>
        \A p \in DOMAIN Passes :
            \A of \in {PassOf(p)} : ~libinjection_sqli_check_fingerprint(of.sf, of.fo)

(* What a pass finds does not depend on the passes before it. *)
PassesAreIndependent == Checking => [sf |-> sf, fo |-> fo] = PassOf(pass)

(* not_whitelist takes as many tokens as the fingerprint is long for a     *)
(* text in which nothing was folded: unless the fold stopped early, every  *)
(* token of the text has been counted.                                     *)
EveryTokenCounted ==
    Checking /\ fo.left < LIBINJECTION_SQLI_MAX_TOKENS
             /\ libinjection_sqli_fingerprint(fo) # <<"X">> =>
        sf.stats_tokens = CountTokens(Fresh(text, sf.quote, sf.mysql))

(* The caller gets a fingerprint if and only if the text is taken for SQL, *)
(* and it is one of the table.                                             *)
VerdictHasFingerprint ==
    pc = "answered" =>
        /\ verdict <=> fingerprint # <<>>
        /\ verdict => libinjection_sqli_blacklist(fingerprint)
=============================================================================
