------------------------------ MODULE SqliFold ------------------------------
(***************************************************************************)
(* libinjection_sqli_fold over every sequence of tokens, however long: the *)
(* tokenizer is any supplier of tokens.  An action is the reading of one   *)
(* token, or one turn of the loop that reads none.                         *)
(***************************************************************************)
EXTENDS SqliFolding

CONSTANTS
    Kinds  \* what a supplier may hand out: sets of <<type, val>>

(* What libinjection_sqli_tokenize finds is a token: it has a type. *)
KindsAssumption == \A some \in Kinds : \A kind \in some : kind[1] # NUL
ASSUME KindsAssumption

VARIABLES
    kinds, \* those this supplier hands out
    fo,
    list,  \* history: what the tokens read are a list of
    held   \* history: is a comment the last token read?

vars == <<kinds, fo, list, held>>

TokenOf(kind) == [st_clear EXCEPT !.type = kind[1], !.val = kind[2], !.len = Len(kind[2])]
EndOfText == st_clear

(* Operands with commas or binary operators between them, each operand     *)
(* perhaps signed.                                                         *)
Operands == {"1", "n"}
Links == {"o", ","}
NextInList(token) ==
    CASE token.type = "c" -> list
      [] list \in {"start", "operator"} /\ token.type \in Operands -> "operand"
      [] list = "operator" /\ st_is_unary_op(token) -> "operator"
      [] list = "operand" /\ token.type \in Links -> "operator"
      [] OTHER -> "none"

Init == kinds \in Kinds /\ fo = StartFold /\ list = "start" /\ held = FALSE

Read(kind) ==
    /\ Fetching(fo)
    /\ fo' = Fetched(fo, TokenOf(kind))
    /\ list' = NextInList(TokenOf(kind))
    /\ held' = (kind[1] = "c")
    /\ UNCHANGED kinds

ReadEnd ==
    /\ Fetching(fo)
    /\ fo' = Fetched(fo, EndOfText)
    /\ UNCHANGED <<kinds, list, held>>

Step ==
    /\ ~Fetching(fo) /\ fo.phase # "done"
    /\ fo' = FoldStep(fo)
    /\ UNCHANGED <<kinds, list, held>>

Next == (\E kind \in kinds : Read(kind)) \/ ReadEnd \/ Step

Spec == Init /\ [][Next]_vars
-----------------------------------------------------------------------------
TypesOf == [i \in 1 .. fo.left |-> fo.vec[i - 1].type]
Done == fo.phase = "done"
-----------------------------------------------------------------------------
(* Where a token goes and what the rules look at lie in tokenvec: left and *)
(* pos, which are unsigned, never cross, and pos goes up to 6 of 8 slots.  *)
TypeOK ==
    /\ fo.phase \in {"skip", "top", "fetch2", "fetch3", "pair", "triple", "done"}
    /\ DOMAIN fo.vec = 0 .. 7
    /\ fo.left >= 0 /\ fo.pos \in 0 .. LIBINJECTION_SQLI_MAX_TOKENS + 1
    /\ ~Done => fo.left <= fo.pos
    /\ Fetching(fo) => fo.pos <= LIBINJECTION_SQLI_MAX_TOKENS

(* The fingerprint made of the result is as long as the result: there is   *)
(* no empty slot in it, and a comment only in its last.  not_whitelist     *)
(* relies on it when it looks at tokenvec by the fingerprint's length.     *)
NoHoles ==
    Done => \A i \in 1 .. fo.left :
        /\ TypesOf[i] # NUL
        /\ TypesOf[i] = "c" => i = fo.left

(* It fits into the eight bytes of fingerprint; more than five tokens only *)
(* if the text was given up.                                               *)
FitsFingerprint ==
    Done => \/ fo.left <= LIBINJECTION_SQLI_MAX_TOKENS
            \/ fo.left < 8 /\ TypesOf[fo.left] = "X"

(* A comment at the end of the text is at the end of the result if there   *)
(* is room for it, and no other is.                                        *)
OnlyLastCommentKept ==
    Done /\ fo.left \in 1 .. LIBINJECTION_SQLI_MAX_TOKENS - 1 /\ TypesOf[fo.left] # "X" =>
        (TypesOf[fo.left] = "c") = held

(* However long a list of operands is, it is folded into its first, if no  *)
(* two of its words are a phrase of the table.                             *)
NoPhrases == \A a, b \in kinds : syntax_merge_words(TokenOf(a), TokenOf(b)) = NUL
ListsFoldAway ==
    Done /\ list = "operand" /\ NoPhrases =>
        \/ Len(TypesOf) = 1 /\ TypesOf[1] \in Operands
        \/ Len(TypesOf) = 2 /\ TypesOf[1] \in Operands /\ TypesOf[2] = "c"

(* libinjection_sqli_fold: what is left of any sequence of tokens fits the *)
(* fingerprint, without holes, with no comment but the last; a list of     *)
(* operands is folded away.                                                *)
FoldFitsFingerprint ==
    TypeOK /\ NoHoles /\ FitsFingerprint /\ OnlyLastCommentKept /\ ListsFoldAway
-----------------------------------------------------------------------------
(* How often a token may still send the loop back to the first slot        *)
(* without being dropped: a backslash that becomes a number, a name with   *)
(* an underscore that becomes a type.                                      *)
Returns(f, i) ==
    IF i >= f.pos THEN 0
    ELSE (IF f.vec[i].type # "t" /\ HasUnderscore(f.vec[i]) THEN 1 ELSE 0)
            + (IF f.vec[i].type = "\\" THEN 1 ELSE 0)
AllReturns(f) ==
    Returns(f, 0) + Returns(f, 1) + Returns(f, 2) + Returns(f, 3) + Returns(f, 4) + Returns(f, 5)
(* How often the two tokens at left may still change their types. *)
Changes(f) ==
    (IF IsType(f, 0, {"k"}) THEN 2 ELSE IF IsType(f, 0, {"n", "v"}) THEN 1 ELSE 0)
        + (IF IsType(f, 1, {"f"}) THEN 1 ELSE 0)
(* Where the loop is between top and the next token. *)
Places(f) ==
    CASE f.phase = "pair" /\ f.left = f.pos -> 4
      [] f.phase = "top" -> 3
      [] f.phase = "pair" /\ f.left # f.pos -> 2
      [] OTHER -> 1
(* The variant of the loop: first the number of tokens, which only reading *)
(* raises, then the returns, the tokens right of left, the changes, and    *)
(* the place.                                                              *)
Variant(f) ==
    (((f.pos * 13 + AllReturns(f)) * 7 + f.pos - f.left) * 4 + Changes(f)) * 5 + Places(f)

(* Between two tokens the loop ends: no rule undoes what another does, and *)
(* the rules that only change a type do not apply forever.                 *)
FoldEnds ==
    [][~Fetching(fo) /\ ~Done => Fetching(fo') \/ Done' \/ Variant(fo') < Variant(fo)]_vars
=============================================================================
