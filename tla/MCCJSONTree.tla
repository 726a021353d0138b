----------------------------- MODULE MCCJSONTree -----------------------------
(***************************************************************************)
(* Five stores of items, of which a behaviour uses one: arrays of up to    *)
(* four items; three items and a reference that shares a list; objects     *)
(* with keys; few items with texts, with references of both kinds and with *)
(* two keys that differ only in case; and trees of up to four items, with  *)
(* keys and texts, that are copied.                                        *)
(***************************************************************************)
EXTENDS Naturals, FiniteSets

VARIABLES store, mem, strs, held, bad, kids

MCLower(name) == IF name = "A" THEN "a" ELSE name

Lists == INSTANCE CJSONTree WITH
    MaxItems <- 4, MaxStrs <- 0, MaxQuota <- 3, MaxCount <- 2, Key <- {}, Lower <- MCLower,
    ScalarTypes <- {"Number"}, TextTypes <- {}, Containers <- {"Array"}, MaxReferences <- 0

Shared == INSTANCE CJSONTree WITH
    MaxItems <- 3, MaxStrs <- 0, MaxQuota <- 3, MaxCount <- 2, Key <- {}, Lower <- MCLower,
    ScalarTypes <- {"Number"}, TextTypes <- {}, Containers <- {"Array"}, MaxReferences <- 1

Keyed == INSTANCE CJSONTree WITH
    MaxItems <- 3, MaxStrs <- 2, MaxQuota <- 2, MaxCount <- 2, Key <- {"a"}, Lower <- MCLower,
    ScalarTypes <- {}, TextTypes <- {}, Containers <- {"Object"}, MaxReferences <- 0

Texts == INSTANCE CJSONTree WITH
    MaxItems <- 2, MaxStrs <- 3, MaxQuota <- 2, MaxCount <- 2, Key <- {"a", "A"},
    Lower <- MCLower, ScalarTypes <- {"NULL"}, TextTypes <- {"String", "Raw"},
    Containers <- {"Array", "Object"}, MaxReferences <- 2

Copied == INSTANCE CJSONTree WITH
    MaxItems <- 8, MaxStrs <- 10, MaxQuota <- 9, MaxCount <- 2, Key <- {"a"},
    Lower <- MCLower, ScalarTypes <- {}, TextTypes <- {"String"},
    Containers <- {"Object"}, MaxReferences <- 0

MaxBuilt == 4   \* bound: items of a tree that is built to be copied

(* A tree is built, its parts are copied with each number of allocations,  *)
(* and a copy that makes more items than the bound is deleted again: an    *)
(* object of two members, one of them a text or another object, is copied, *)
(* and one whose second member cannot be.                                  *)
CopiedNext ==
    LET built == Cardinality(Copied!Live(mem)) <= MaxBuilt
    IN  \/ /\ Cardinality(Copied!Live(mem)) < MaxBuilt
           /\ \/ Copied!CreateItem("Object", 9)
              \/ \E p \in Copied!Parents, t \in {"String", "Object"} :
                    Copied!AddToObject(p, "a", t, 9)
        \/ /\ built
           /\ \E i \in Copied!Live(mem), q \in Copied!Quotas :
                 Copied!Duplicate(i, TRUE, q)
        \/ /\ ~built
           /\ \E i \in held : (\A j \in held : j <= i) /\ Copied!Delete(i)

Init ==
    \/ store = "lists" /\ Lists!Init
    \/ store = "shared" /\ Shared!Init
    \/ store = "keyed" /\ Keyed!Init
    \/ store = "texts" /\ Texts!Init
    \/ store = "copied" /\ Copied!Init

Next ==
    /\ UNCHANGED store
    /\ \/ store = "lists" /\ Lists!Next
       \/ store = "shared" /\ Shared!Next
       \/ store = "keyed" /\ Keyed!Next
       \/ store = "texts" /\ Texts!Next
       \/ store = "copied" /\ CopiedNext

Spec == Init /\ [][Next]_<<store, mem, strs, held, bad, kids>>

-----------------------------------------------------------------------------
(* Whatever calls were made, every list is whole, every item is owned      *)
(* once, by the caller or by one list, and what the caller holds is loose. *)
ListsWhole ==
    /\ store = "lists" => Lists!TypeOK /\ Lists!ListsWhole /\ Lists!OwnedOnce
    /\ store = "shared" => Shared!TypeOK /\ Shared!ListsWhole /\ Shared!OwnedOnce
    /\ store = "keyed" => Keyed!TypeOK /\ Keyed!ListsWhole /\ Keyed!OwnedOnce
    /\ store = "texts" => Texts!TypeOK /\ Texts!ListsWhole /\ Texts!OwnedOnce
    /\ store = "copied" => Copied!TypeOK /\ Copied!ListsWhole /\ Copied!OwnedOnce

(* Every string has one item that will free it, through failed calls,      *)
(* copies, renamings and references; nothing freed is freed again or read. *)
FreedOnce ==
    /\ store = "lists" => Lists!StringsOwnedOnce /\ Lists!NoUseAfterFree
    /\ store = "shared" => Shared!StringsOwnedOnce /\ Shared!NoUseAfterFree
    /\ store = "keyed" => Keyed!StringsOwnedOnce /\ Keyed!NoUseAfterFree
    /\ store = "texts" => Texts!StringsOwnedOnce /\ Texts!NoUseAfterFree
    /\ store = "copied" => Copied!StringsOwnedOnce /\ Copied!NoUseAfterFree

(* A call that runs out of memory half-way leaves nothing behind, and a    *)
(* copy that is made is whole, with nothing of the original in it.         *)
AllOrNothing ==
    /\ store = "lists" => Lists!FailureLeavesNoTrace /\ Lists!DuplicateIsDeep
    /\ store = "shared" => Shared!FailureLeavesNoTrace /\ Shared!DuplicateIsDeep
    /\ store = "keyed" => Keyed!FailureLeavesNoTrace /\ Keyed!DuplicateIsDeep
    /\ store = "texts" => Texts!FailureLeavesNoTrace /\ Texts!DuplicateIsDeep
    /\ store = "copied" => Copied!FailureLeavesNoTrace /\ Copied!DuplicateIsDeep

(* The store implements the forest of CJSONForest, which speaks of kids    *)
(* and held alone.                                                         *)
ImplementsForest == Lists!ImplementsForest
=============================================================================
