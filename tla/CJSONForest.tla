----------------------------- MODULE CJSONForest -----------------------------
(***************************************************************************)
(* What the array and object functions of cJSON promise to their callers:  *)
(* a forest of items, each with the sequence of its children, in which a   *)
(* call makes a tree, drops one, or changes one sequence in one place and  *)
(* leaves every other sequence as it was.                                  *)
(***************************************************************************)
EXTENDS SequencesExt, FiniteSets, Naturals

VARIABLES
    kids,  \* the children of every item there is, in order
    held   \* the roots the caller owns

vars == <<kids, held>>

Live == DOMAIN kids
Made == DOMAIN kids' \ Live
Lost == Live \ DOMAIN kids'

(* Every item of S is a child of one item of S, once, except root. *)
IsTree(children, S, root) ==
    /\ root \in S
    /\ \A i \in S : ToSet(children[i]) \subseteq S \ {root}
    /\ \A i \in S \ {root} :
          Cardinality({<<p, k>> \in S \X (1 .. Cardinality(S)) :
              k <= Len(children[p]) /\ children[p][k] = i}) = 1

(* Nothing but the children of the items of S changes, and the items that  *)
(* are made or dropped form one tree.                                      *)
OnlyChanged(S) == \A i \in (Live \cap DOMAIN kids') \ S : kids'[i] = kids[i]

Init == kids = <<>> /\ held = {}

Make ==
    /\ Lost = {}
    /\ OnlyChanged({})
    /\ \E root \in Made : IsTree(kids', Made, root) /\ held' = held \cup {root}

Drop(i) ==
    /\ Made = {}
    /\ IsTree(kids, Lost, i)
    /\ OnlyChanged({})
    /\ held' = held \ {i}

Insert(p, i) ==
    /\ DOMAIN kids' = Live
    /\ OnlyChanged({p})
    /\ \E k \in 1 .. Len(kids[p]) + 1 : kids'[p] = InsertAt(kids[p], k, i)
    /\ held' = held \ {i}

Take(p, k) ==
    /\ DOMAIN kids' = Live
    /\ OnlyChanged({p})
    /\ kids'[p] = RemoveAt(kids[p], k)
    /\ held' = held \cup {kids[p][k]}

MakeIn(p) ==
    /\ Lost = {}
    /\ OnlyChanged({p})
    /\ \E root \in Made : /\ IsTree(kids', Made, root)
                          /\ kids'[p] = Append(kids[p], root)
    /\ held' = held

DropFrom(p, k) ==
    /\ Made = {}
    /\ IsTree(kids, Lost, kids[p][k])
    /\ OnlyChanged({p})
    /\ kids'[p] = RemoveAt(kids[p], k)
    /\ held' = held

Replace(p, k, r) ==
    /\ Made = {}
    /\ IsTree(kids, Lost, kids[p][k])
    /\ OnlyChanged({p})
    /\ kids'[p] = [kids[p] EXCEPT ![k] = r]
    /\ held' = held \ {r}

(* A childless item nobody owns: the reference that                        *)
(* cJSON_AddItemReferenceToObject drops when its key has no memory.        *)
Leak ==
    /\ Lost = {}
    /\ OnlyChanged({})
    /\ \E i \in Made : Made = {i} /\ kids'[i] = <<>>
    /\ held' = held

Next ==
    \/ Make
    \/ Leak
    \/ \E i \in held : Drop(i)
    \/ \E p \in Live :
          \/ MakeIn(p)
          \/ \E i \in held : Insert(p, i)
          \/ \E k \in DOMAIN kids[p] :
                Take(p, k) \/ DropFrom(p, k) \/ \E r \in held : Replace(p, k, r)

Spec == Init /\ [][Next]_vars
=============================================================================
