---------------------------- MODULE CJSONCompare ----------------------------
(***************************************************************************)
(* cJSON_Compare (src/c/cJSON.c) over trees that a caller puts together:   *)
(* what the comparison means as a relation, and when a value equals its    *)
(* own copy.  A key is a model name, NoKey where item->string is NULL;     *)
(* numbers are so far apart that compare_double tells them apart.          *)
(***************************************************************************)
EXTENDS SequencesExt, Integers

CONSTANTS
    Leaves,     \* scalars: records with a type and a value
    Keys,       \* names of members
    Lower(_),   \* tolower over a name
    MaxItems,   \* bound: items built
    MaxMembers  \* bound: children of one item

VARIABLE built   \* the trees, in the order of their making

NoKey == "NoKey"
NoItem == [type |-> "none"]
NoText == "NULL"
Leaf(type, value) == [type |-> type, value |-> value, key |-> NoKey, kids |-> <<>>]
ValidTypes == {"False", "True", "NULL", "Number", "String", "Raw", "Array", "Object"}
-----------------------------------------------------------------------------
(* The first member of the name; a member without one ends a search that   *)
(* minds the case, and is passed by one that does not.                     *)
get_object_item(object, name, case_sensitive) ==
    LET Same(kid) == IF case_sensitive THEN kid.key \in {name, NoKey}
                     ELSE kid.key # NoKey /\ Lower(kid.key) = Lower(name)
        i == SelectInSeq(object.kids, Same)
    IN  IF name = NoKey \/ i = 0 \/ object.kids[i].key = NoKey THEN NoItem ELSE object.kids[i]

RECURSIVE cJSON_Compare(_, _, _)

(* Every member of a is found in b, and equal to it. *)
MembersIn(a, b, case_sensitive) ==
    \A i \in DOMAIN a.kids :
        LET found == get_object_item(b, a.kids[i].key, case_sensitive)
        IN  found # NoItem /\ cJSON_Compare(a.kids[i], found, case_sensitive)

CompareObjects(a, b, case_sensitive) ==
    MembersIn(a, b, case_sensitive) /\ MembersIn(b, a, case_sensitive)

\* Mutant: the longer list is not noticed.
ComparePrefix(a, b, case_sensitive) ==
    \A i \in DOMAIN a.kids \cap DOMAIN b.kids :
        cJSON_Compare(a.kids[i], b.kids[i], case_sensitive)

CompareArrays(a, b, case_sensitive) ==
    /\ \A i \in DOMAIN a.kids \cap DOMAIN b.kids :
          cJSON_Compare(a.kids[i], b.kids[i], case_sensitive)
    /\ Len(a.kids) = Len(b.kids)

(* Two different items: a pointer and its copy.  Keys at the top do not    *)
(* matter.                                                                 *)
cJSON_Compare(a, b, case_sensitive) ==
    /\ a.type = b.type /\ a.type \in ValidTypes
    /\ a.type = "Number" => a.value = b.value
    /\ a.type \in {"String", "Raw"} => a.value = b.value /\ a.value # NoText
    /\ a.type = "Array" => CompareArrays(a, b, case_sensitive)
    /\ a.type = "Object" => CompareObjects(a, b, case_sensitive)
-----------------------------------------------------------------------------
RECURSIVE Items(_)
Items(v) == 1 + FoldLeft(LAMBDA n, kid : n + Items(kid), 0, v.kids)
AllItems == FoldLeft(LAMBDA n, v : n + Items(v), 0, built)

Init == built = <<>>

AddLeaf(v) ==
    /\ AllItems < MaxItems
    /\ built' = Append(built, v)

(* The last n trees become the children of one, under the keys given. *)
Gather(n, type, keys) ==
    /\ AllItems < MaxItems
    /\ built' = LET rest == Len(built) - n
                IN  Append(SubSeq(built, 1, rest),
                           [type |-> type, value |-> "", key |-> NoKey,
                            kids |-> [i \in 1 .. n |-> [built[rest + i] EXCEPT !.key = keys[i]]]])

Next ==
    \/ \E v \in Leaves : AddLeaf(v)
    \/ \E n \in 0 .. Min({Len(built), MaxMembers}) :
          \/ Gather(n, "Array", [i \in 1 .. n |-> NoKey])
          \/ \E keys \in [1 .. n -> Keys \cup {NoKey}] : Gather(n, "Object", keys)

Spec == Init /\ [][Next]_built

Trees == ToSet(built)
-----------------------------------------------------------------------------
(* The value of a tree, with an object as the set of its members and the   *)
(* case of the names folded where it does not matter.                      *)
RECURSIVE Meaning(_, _)
Meaning(v, case_sensitive) ==
    LET Name(kid) == IF case_sensitive THEN kid.key ELSE Lower(kid.key)
    IN  CASE v.type = "Array" ->
               <<"Array", [i \in DOMAIN v.kids |-> Meaning(v.kids[i], case_sensitive)]>>
          [] v.type = "Object" ->
               <<"Object", {<<Name(v.kids[i]), Meaning(v.kids[i], case_sensitive)>> : i \in DOMAIN v.kids}>>
          [] v.type \in {"Number", "String", "Raw"} -> <<v.type, v.value>>
          [] OTHER -> <<v.type, "">>

(* No name twice in an object, none missing, no item without a value. *)
RECURSIVE Plain(_, _)
Plain(v, case_sensitive) ==
    LET Name(kid) == IF case_sensitive THEN kid.key ELSE Lower(kid.key)
    IN  /\ v.type \in ValidTypes /\ v.value # NoText
        /\ \A i, j \in DOMAIN v.kids :
              v.type = "Object" =>
                  /\ v.kids[i].key # NoKey
                  /\ Name(v.kids[i]) = Name(v.kids[j]) => i = j
        /\ \A i \in DOMAIN v.kids : Plain(v.kids[i], case_sensitive)
-----------------------------------------------------------------------------
(* The order of the arguments does not matter, whatever the trees hold:    *)
(* names twice, no names, no values.                                       *)
Symmetric ==
    \A a, b \in Trees, case_sensitive \in BOOLEAN :
        cJSON_Compare(a, b, case_sensitive) = cJSON_Compare(b, a, case_sensitive)

(* Two values whose objects name each member once are equal if they hold   *)
(* the same members, in any order; so a value equals its copy.             *)
EqualIfSameMeaning ==
    \A a, b \in Trees, case_sensitive \in BOOLEAN :
        Plain(a, case_sensitive) /\ Plain(b, case_sensitive) =>
            (cJSON_Compare(a, b, case_sensitive)
                <=> Meaning(a, case_sensitive) = Meaning(b, case_sensitive))

(* What is equal with the case minded is equal without, as long as no two  *)
(* names differ in the case alone.                                         *)
CaseOnlyWidens ==
    \A a, b \in Trees :
        Plain(a, FALSE) /\ Plain(b, FALSE) /\ cJSON_Compare(a, b, TRUE) =>
            cJSON_Compare(a, b, FALSE)
=============================================================================
