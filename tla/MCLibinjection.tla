--------------------------- MODULE MCLibinjection ---------------------------
(***************************************************************************)
(* libinjection as the modules call it, each part on small inputs: a       *)
(* behaviour runs one part, and the variables of the others stay idle.     *)
(* The HTML tokenizer reads tags and comments, the XSS scan reads words of *)
(* its tables and character references; the SQL tokenizer reads quotes,    *)
(* comments and words, the fold any sequence of tokens of three kinds, and *)
(* the SQL scan puts them together.                                        *)
(***************************************************************************)
EXTENDS SqliFold

VARIABLES
    part,                        \* the part that runs
    alphabet,                    \* both tokenizers, the XSS scan
    text, pieces, pc, tokens,    \* both tokenizers, both scans
    hs,                          \* the HTML tokenizer
    attr, context,               \* the XSS scan
    sf,                          \* the SQL tokenizer
    pass, fingerprint, verdict,  \* the SQL scan
    scanned                      \* the fold of the SQL scan

ofTexts == <<text, pieces, pc>>
ofXss == <<attr, context>>
ofFold == vars
ofScan == <<pass, fingerprint, scanned>>
allVars == <<part, alphabet, ofTexts, tokens, hs, ofXss, sf, ofFold, ofScan, verdict>>

Idle == "idle"
-----------------------------------------------------------------------------
TagPieces == {<<"<">>, <<"/">>, <<">">>, <<" ">>, <<"=">>, <<"'">>, <<"a">>}
DeclarationPieces ==
    {<<"<", "!">>, <<"<", "%">>, <<"<", "?">>, <<"-", "-">>, <<"-">>, <<"!">>, <<">">>, <<"%">>,
     <<"]">>, <<"]", "]", ">">>, <<"a">>, <<"NUL">>,
     <<"[", "C", "D", "A", "T", "A", "[">>, <<"D", "O", "C", "T", "Y", "P", "E">>}
AllContexts == <<"DATA_STATE", "VALUE_NO_QUOTE", "VALUE_SINGLE_QUOTE", "VALUE_DOUBLE_QUOTE",
                 "VALUE_BACK_QUOTE">>
Alphabet(its, most, contexts) == [pieces |-> its, most |-> most, contexts |-> contexts]

(* A byte that a signed char makes the end of the text. *)
SignedPieces == {<<"FF">>, <<"<", "a">>, <<"/">>, <<">">>, <<" ">>, <<"=">>, <<"'">>, <<"NUL">>}
SignedChar == {"FF"}

Html == INSTANCE Html5Tokenizer WITH
    EofBytes <- SignedChar,
    Alphabets <- {Alphabet(TagPieces, 5, AllContexts),
                  Alphabet(SignedPieces, 4, AllContexts),
                  Alphabet(DeclarationPieces, 4, <<"DATA_STATE">>)}

(* What HtmlKeepsText of Html5Proofs asks of them. *)
ASSUME HtmlTextsAreBytes == Html!AlphabetsAreTexts
-----------------------------------------------------------------------------
HtmlWords ==
    {<<"<">>, <<">">>, <<" ">>, <<"=">>, <<"'">>, <<"/">>, <<"FF">>, <<"a">>,
     <<"x", "m", "L">>, <<"t", "o">>,
     <<"a", "t", "t", "R", "i", "b", "u", "t", "e", "n", "a", "m", "e">>,
     <<"o", "n", "c", "u", "t">>, <<"j", "a", "v", "a">>, <<"<", "!">>, <<"<", "%">>, <<"%">>}
ReferenceParts ==
    {<<"J", "A">>, <<"v">>, <<"A">>, <<"&", "#", "x", "4">>, <<"&", "#">>, <<"6", "5">>,
     <<"1">>, <<";">>, <<" ">>, <<"NUL">>, <<"x">>, <<"f", "f", "f", "f">>}
NoContexts == <<>>

Xss == INSTANCE XssScan WITH
    EofBytes <- SignedChar,
    Alphabets <- {Alphabet(HtmlWords, 4, AllContexts), Alphabet(ReferenceParts, 4, NoContexts)}
-----------------------------------------------------------------------------
(* Some words of the table, in its order. *)
Keywords == << <<<<"!", "!">>, "o">>, <<<<"<", "=">>, "o">>, <<<<"A", "N", "D">>, "&">>,
               <<<<"E">>, "n">>, <<<<"I", "F">>, "f">>, <<<<"I", "N">>, "k">>,
               <<<<"I", "N", "T">>, "t">>, <<<<"O", "R">>, "&">>, <<<<"|", "|">>, "&">> >>

QuotePieces == {<<"'">>, <<"\"">>, <<"\\">>, <<"tick">>, <<"a">>, <<"q">>, <<"N">>,
                <<"U", "&">>, <<"@">>}
CommentPieces == {<<"/", "*">>, <<"*", "/">>, <<"*">>, <<"/">>, <<"-">>, <<"#">>, <<"!">>, <<" ">>,
                  <<"\n">>, <<"a">>, <<"'">>}
WordPieces == {<<"i">>, <<"N">>, <<"t">>, <<"o", "R">>, <<".">>, <<"1">>, <<"0">>, <<"x">>,
               <<"e">>, <<"+">>, <<"$">>, <<",">>, <<"d">>, <<"'">>}
(* Literals and brackets, with the byte that strchr finds in any set. *)
LiteralPieces == {<<"b">>, <<"x">>, <<"'">>, <<"0">>, <<"1">>, <<"NUL">>, <<"$">>, <<"a">>,
                  <<".">>, <<"e">>, <<"[">>, <<"]">>}
OperatorPieces == {<<"<">>, <<"=">>, <<">">>, <<":">>, <<"!">>, <<"&">>, <<"|">>, <<"%">>,
                   <<"?">>, <<"^">>, <<"]">>, <<"(">>, <<"a">>, <<"NUL">>, <<"A0">>, <<"hi">>}
AllModes == {<<q, m>> : q \in {"NUL", "'", "\""}, m \in BOOLEAN}
PlainMode == {<<"NUL", FALSE>>}
QuoteModes == {<<"NUL", FALSE>>, <<"'", FALSE>>, <<"\"", TRUE>>}

SqlAlphabet(its, most, modes) == [pieces |-> its, most |-> most, modes |-> modes]

Tokenizer == INSTANCE SqliTokenizer WITH
    sql_keywords <- Keywords, LIBINJECTION_SQLI_TOKEN_SIZE <- 8,
    Alphabets <- {SqlAlphabet(QuotePieces, 4, QuoteModes), SqlAlphabet(CommentPieces, 4, AllModes),
                  SqlAlphabet(WordPieces, 4, QuoteModes),
                  SqlAlphabet(LiteralPieces, 4, PlainMode),
                  SqlAlphabet(OperatorPieces, 4, PlainMode)}
-----------------------------------------------------------------------------
ALL == <<"A", "L", "L">>
UNION_ == <<"U", "N", "I", "O", "N">>
FoldKeywords == << <<NOT_ \o IN_, "k">>, <<UNION_ \o <<" ">> \o ALL, "U">> >>

ListKinds == {<<"1", <<"1">>>>, <<"o", <<"*">>>>, <<"o", <<"-">>>>,
              <<",", <<",">>>>, <<"(", <<"(">>>>, <<")", <<")">>>>, <<"c", <<"#">>>>}
StatementKinds == {<<"k", IN_>>, <<"o", <<"N", "O", "T">>>>, <<"f", <<"I", "F">>>>, <<"U", UNION_>>,
                   <<"n", ALL>>, <<"\\", <<"\\">>>>}
BraceKinds == {<<"{", <<"{">>>>, <<"}", <<"}">>>>, <<"n", <<>>>>, <<"n", <<"_">>>>,
               <<"o", <<"L", "I", "K", "E">>>>, <<"(", <<"(">>>>}
TypeKinds == {<<"A", <<"C">>>>, <<"n", <<"_">>>>, <<"t", <<"I">>>>, <<".", <<".">>>>,
              <<"o", <<":", ":">>>>, <<"(", <<"(">>>>}

FoldKinds == {ListKinds, StatementKinds, BraceKinds, TypeKinds}
-----------------------------------------------------------------------------
(* Numbers, quotes, comments and a few words; the table has the words and  *)
(* some of the fingerprints they lead to.                                  *)
INTO_ == <<"I", "N", "T", "O">>
ScanKeywords ==
    << <<<<"0", "1", "&", "1">>, "F">>, <<<<"0", "1", "C">>, "F">>, <<<<"0", "1", "U">>, "F">>,
       <<<<"0", "N", "&", "1">>, "F">>, <<<<"0", "N", "C">>, "F">>, <<<<"0", "N", "K", "N">>, "F">>,
       <<<<"0", "S", "&", "1">>, "F">>, <<<<"0", "S", "&", "S">>, "F">>, <<<<"0", "S", "C">>, "F">>,
       <<<<"0", "S", "O", "S">>, "F">>, <<<<"0", "X">>, "F">>,
       <<INTO_, "k">>, <<<<"O", "R">>, "&">>, <<UNION_, "U">> >>

ScanPieces ==
    {<<"1">>, <<"a">>, <<"'">>, <<"\"">>, <<"-", "-">>, <<"#">>, <<"/", "*">>, <<"*", "/">>,
     <<" ", "o", "r", " ">>, <<" ", "u", "N", "I", "O", "N">>, <<" ">> \o INTO_ \o <<" ">>,
     <<"s", "p", "_", "p", "a", "s", "s", "w", "o", "r", "d">>}

Scan == INSTANCE SqliScan WITH
    sql_keywords <- ScanKeywords, LIBINJECTION_SQLI_TOKEN_SIZE <- 12,
    Pieces <- ScanPieces, MaxPieces <- 4, fo <- scanned
-----------------------------------------------------------------------------
IdleXss == attr = Idle /\ context = Idle
IdleFold == kinds = Idle /\ fo = StartFold /\ list = "none" /\ held = FALSE
IdleScan == pass = Idle /\ fingerprint = Idle /\ scanned = Idle

AnyInit ==
    \/ /\ part = "html" /\ Html!Init
       /\ IdleXss /\ IdleFold /\ IdleScan /\ sf = Idle /\ verdict = Idle
    \/ /\ part = "xss" /\ Xss!SInit
       /\ IdleFold /\ IdleScan /\ sf = Idle
    \/ /\ part = "tokenizer" /\ Tokenizer!Init
       /\ IdleXss /\ IdleFold /\ IdleScan /\ hs = Idle /\ verdict = Idle
    \/ /\ part = "fold" /\ Init
       /\ alphabet = Idle /\ text = Idle /\ pieces = Idle /\ pc = Idle /\ tokens = Idle
       /\ IdleXss /\ IdleScan /\ hs = Idle /\ sf = Idle /\ verdict = Idle
    \/ /\ part = "scan" /\ Scan!Init
       /\ IdleXss /\ IdleFold /\ alphabet = Idle /\ hs = Idle /\ tokens = Idle

AnyNext ==
    /\ UNCHANGED part
    /\ \/ part = "html" /\ Html!Next /\ UNCHANGED <<ofXss, ofFold, ofScan, sf, verdict>>
       \/ part = "xss" /\ Xss!SNext /\ UNCHANGED <<ofFold, ofScan, sf>>
       \/ /\ part = "tokenizer" /\ Tokenizer!Next
          /\ UNCHANGED <<ofXss, ofFold, ofScan, hs, verdict>>
       \/ /\ part = "fold" /\ Next
          /\ UNCHANGED <<alphabet, ofTexts, tokens, ofXss, ofScan, hs, sf, verdict>>
       \/ part = "scan" /\ Scan!Next /\ UNCHANGED <<alphabet, ofXss, ofFold, hs, tokens>>

AnySpec == AnyInit /\ [][AnyNext]_allVars
-----------------------------------------------------------------------------
(* libinjection_h5_next: the tokens lie in the text, in order, each with   *)
(* the bytes of its kind and no others; what no token holds is markup, or  *)
(* hidden by a byte read as CHAR_EOF; n bytes have n + 1 tokens at most.   *)
HtmlTokensKeepText == part = "html" => Html!KeepsText

(* libinjection_xss: the verdict is that of the tokens of all contexts, a  *)
(* value judged by the name before it, wherever the scan stops; and a text *)
(* starts with what its characters and references stand for, each of them  *)
(* decoded whole (html_decode_char_at, htmlencode_startswith).             *)
VerdictIsOfTokens ==
    part = "xss" =>
        /\ Xss!STypeOK /\ Xss!NeverErrs /\ Xss!ValueOfItsName /\ Xss!VerdictIsOfTokens
        /\ alphabet.contexts = NoContexts =>
              Xss!DecodingGetsOn /\ Xss!ReferencesAreWhole /\ Xss!StartsAsDecoded

(* libinjection_sqli_tokenize: a token is what stands in the text, strings *)
(* end where a reader of SQL ends them, comments are told by their kind,   *)
(* words by the table.                                                     *)
SqlTokensAsWritten ==
    part = "tokenizer" =>
        /\ Tokenizer!TypeOK /\ Tokenizer!TokensInOrder
        /\ Tokenizer!StringEndsWhereRead /\ Tokenizer!CommentsAreNotNested
        /\ Tokenizer!SearchFindsWords

(* Every turn of the tokenizer gets on in the text, whatever byte          *)
(* char_parse_map sends to which parser, so that its loop ends.            *)
GetsOn ==
    /\ part = "tokenizer" /\ pc = "scanning" => Tokenizer!TurnGetsOn(sf)
    /\ part = "scan" /\ pc = "scanning" => Scan!TurnGetsOn(sf)

(* libinjection_is_sqli: a pass finds the same whatever passes were before *)
(* it, and a pass that is left out would have found nothing.               *)
SkippedPassesFindNothing ==
    /\ part = "tokenizer" =>
          Tokenizer!CountersTellMySQLApart /\ Tokenizer!PretendedQuoteIsAQuote
    /\ part = "scan" =>
          /\ Scan!PassesAreIndependent /\ Scan!EveryTokenCounted
          /\ Scan!SkippedPassesFindNothing /\ Scan!VerdictHasFingerprint
=============================================================================
