--------------------------- MODULE CJSONListProofs ---------------------------
(***************************************************************************)
(* Theorems about CJSONList for every memory and lists of every length:    *)
(* the four operations on sibling lists leave every list whole, and do to  *)
(* the children of one item what CJSONForest says (Insert, Take, Replace). *)
(***************************************************************************)
EXTENDS CJSONList, SequencesExt, SequenceTheorems, TLAPS

-----------------------------------------------------------------------------
(* What the operations rely on                                             *)

\* An item has at least the pointers of a list.
IsItem(r) ==
    /\ r = [f \in DOMAIN r |-> r[f]]
    /\ {"next", "prev", "child"} \subseteq DOMAIN r

IsMemory(m) ==
    /\ m = [i \in DOMAIN m |-> m[i]]
    /\ \A i \in DOMAIN m : IsItem(m[i])
    /\ NULL \notin DOMAIN m

\* The memory links the children of every item of kids, and no child twice.
Chained(m, kids) ==
    /\ IsMemory(m)
    /\ kids = [p \in DOMAIN kids |-> kids[p]]
    /\ DOMAIN kids \subseteq DOMAIN m
    /\ \A p \in DOMAIN kids : kids[p] \in Seq(DOMAIN m) /\ IsList(m, p, kids[p])
    /\ \A p, q \in DOMAIN kids :
          p # q => ToSet(kids[p]) \cap ToSet(kids[q]) = {}

\* What is in no list and is not given away stays so.
StayLoose(m, n, given) ==
    \A j \in DOMAIN m \ given : IsLoose(m, j) => IsLoose(n, j)

\* The memory n differs from m in the links of S and in the child of p alone.
OnlyLinks(m, n, S, p) ==
    /\ IsMemory(n) /\ DOMAIN n = DOMAIN m
    /\ \A i \in DOMAIN m \ S : n[i].next = m[i].next /\ n[i].prev = m[i].prev
    /\ \A i \in DOMAIN m \ {p} : n[i].child = m[i].child

-----------------------------------------------------------------------------
(* A store to one pointer                                                  *)

NextSet(m, n, a, x) == n = [m EXCEPT ![a].next = x]
PrevSet(m, n, a, x) == n = [m EXCEPT ![a].prev = x]
ChildSet(m, n, a, x) == n = [m EXCEPT ![a].child = x]

LEMMA SetNext ==
    ASSUME NEW r, IsItem(r), NEW x
    PROVE  /\ IsItem([r EXCEPT !.next = x])
           /\ [r EXCEPT !.next = x].next = x
           /\ [r EXCEPT !.next = x].prev = r.prev
           /\ [r EXCEPT !.next = x].child = r.child
  BY DEF IsItem

LEMMA SetPrev ==
    ASSUME NEW r, IsItem(r), NEW x
    PROVE  /\ IsItem([r EXCEPT !.prev = x])
           /\ [r EXCEPT !.prev = x].prev = x
           /\ [r EXCEPT !.prev = x].next = r.next
           /\ [r EXCEPT !.prev = x].child = r.child
  BY DEF IsItem

LEMMA SetChild ==
    ASSUME NEW r, IsItem(r), NEW x
    PROVE  /\ IsItem([r EXCEPT !.child = x])
           /\ [r EXCEPT !.child = x].child = x
           /\ [r EXCEPT !.child = x].next = r.next
           /\ [r EXCEPT !.child = x].prev = r.prev
  BY DEF IsItem

LEMMA PutNext ==
    ASSUME NEW m, IsMemory(m), NEW a \in DOMAIN m, NEW x, NEW n,
           NextSet(m, n, a, x)
    PROVE  /\ IsMemory(n) /\ DOMAIN n = DOMAIN m
           /\ \A i \in DOMAIN m : /\ n[i].next = IF i = a THEN x ELSE m[i].next
                                  /\ n[i].prev = m[i].prev
                                  /\ n[i].child = m[i].child
  <1> DEFINE r == [m[a] EXCEPT !.next = x]
  <1>1. /\ IsItem(r) /\ r.next = x
        /\ r.prev = m[a].prev /\ r.child = m[a].child
    BY SetNext DEF IsMemory
  <1>2. n = [m EXCEPT ![a] = r]
    BY Zenon DEF NextSet
  <1> HIDE DEF r
  <1>3. /\ IsMemory(n) /\ DOMAIN n = DOMAIN m
        /\ n[a] = r /\ \A i \in DOMAIN m \ {a} : n[i] = m[i]
    BY <1>1, <1>2 DEF IsMemory
  <1> QED
    BY <1>1, <1>3

LEMMA PutPrev ==
    ASSUME NEW m, IsMemory(m), NEW a \in DOMAIN m, NEW x, NEW n,
           PrevSet(m, n, a, x)
    PROVE  /\ IsMemory(n) /\ DOMAIN n = DOMAIN m
           /\ \A i \in DOMAIN m : /\ n[i].prev = IF i = a THEN x ELSE m[i].prev
                                  /\ n[i].next = m[i].next
                                  /\ n[i].child = m[i].child
  <1> DEFINE r == [m[a] EXCEPT !.prev = x]
  <1>1. /\ IsItem(r) /\ r.prev = x
        /\ r.next = m[a].next /\ r.child = m[a].child
    BY SetPrev DEF IsMemory
  <1>2. n = [m EXCEPT ![a] = r]
    BY Zenon DEF PrevSet
  <1> HIDE DEF r
  <1>3. /\ IsMemory(n) /\ DOMAIN n = DOMAIN m
        /\ n[a] = r /\ \A i \in DOMAIN m \ {a} : n[i] = m[i]
    BY <1>1, <1>2 DEF IsMemory
  <1> QED
    BY <1>1, <1>3

LEMMA PutChild ==
    ASSUME NEW m, IsMemory(m), NEW a \in DOMAIN m, NEW x, NEW n,
           ChildSet(m, n, a, x)
    PROVE  /\ IsMemory(n) /\ DOMAIN n = DOMAIN m
           /\ \A i \in DOMAIN m : /\ n[i].child = IF i = a THEN x ELSE m[i].child
                                  /\ n[i].next = m[i].next
                                  /\ n[i].prev = m[i].prev
  <1> DEFINE r == [m[a] EXCEPT !.child = x]
  <1>1. /\ IsItem(r) /\ r.child = x
        /\ r.next = m[a].next /\ r.prev = m[a].prev
    BY SetChild DEF IsMemory
  <1>2. n = [m EXCEPT ![a] = r]
    BY Zenon DEF ChildSet
  <1> HIDE DEF r
  <1>3. /\ IsMemory(n) /\ DOMAIN n = DOMAIN m
        /\ n[a] = r /\ \A i \in DOMAIN m \ {a} : n[i] = m[i]
    BY <1>1, <1>2 DEF IsMemory
  <1> QED
    BY <1>1, <1>3

-----------------------------------------------------------------------------
(* Lists                                                                   *)

LEMMA InList ==
    ASSUME NEW S, NEW s \in Seq(S)
    PROVE  /\ DOMAIN s = 1..Len(s) /\ Len(s) \in Nat
           /\ \A i \in DOMAIN s : s[i] \in S
           /\ \A x : x \in ToSet(s) <=> \E i \in 1..Len(s) : x = s[i]
  <1>1. DOMAIN s = 1..Len(s) /\ Len(s) \in Nat
    OBVIOUS
  <1>2. \A i \in DOMAIN s : s[i] \in S
    OBVIOUS
  <1>3. \A x : x \in ToSet(s) <=> \E i \in 1..Len(s) : x = s[i]
    BY DEF ToSet
  <1> QED
    BY <1>1, <1>2, <1>3, Zenon

\* What a list says, with the indices spelled out.
LEMMA Listed ==
    ASSUME NEW m, IsMemory(m), NEW p, NEW s \in Seq(DOMAIN m), IsList(m, p, s),
           NEW L, L = Len(s)
    PROVE  /\ L \in Nat
           /\ \A i, j \in 1..L : s[i] = s[j] => i = j
           /\ \A i \in 1..L :
                /\ s[i] \in DOMAIN m /\ s[i] # NULL
                /\ s[i] \in ToSet(s)
                /\ m[s[i]].next = IF i = L THEN NULL ELSE s[i + 1]
                /\ m[s[i]].prev = IF i = 1 THEN s[L] ELSE s[i - 1]
           /\ m[p].child = IF L = 0 THEN NULL ELSE s[1]
  <1>1. DOMAIN s = 1..L /\ L \in Nat /\ (s = <<>> <=> L = 0)
    BY InList
  <1>2. \A i \in 1..L : s[i] \in DOMAIN m /\ s[i] # NULL /\ s[i] \in ToSet(s)
    BY <1>1, InList DEF IsMemory
  <1>3. L = Len(s)
    OBVIOUS
  <1> QED
    BY <1>1, <1>2, <1>3, Zenon DEF IsList

\* An item that is in a list is not loose.
LEMMA ListedIsNotLoose ==
    ASSUME NEW m, IsMemory(m), NEW p, NEW s \in Seq(DOMAIN m), IsList(m, p, s),
           NEW j, IsLoose(m, j)
    PROVE  j \notin ToSet(s)
  <1> SUFFICES ASSUME NEW i \in 1..Len(s), j = s[i] PROVE FALSE
    BY InList
  <1>1. PICK L \in Nat : L = Len(s)
    BY InList
  <1>2. /\ i \in 1..L /\ 1 \in 1..L /\ L \in 1..L
        /\ i # 1 => i - 1 \in 1..L
    BY <1>1
  <1>3. m[s[i]].prev \in DOMAIN m
    BY <1>1, <1>2, Listed
  <1> QED
    BY <1>3 DEF IsLoose, IsMemory

\* A list is whole in a memory that has its links and its first item.
LEMMA ListKept ==
    ASSUME NEW m, NEW n, NEW S, NEW p, NEW q \in DOMAIN m,
           NEW s \in Seq(DOMAIN m),
           IsList(m, q, s), OnlyLinks(m, n, S, p), q # p, ToSet(s) \cap S = {}
    PROVE  IsList(n, q, s)
  <1>1. \A i \in DOMAIN s : /\ s[i] \in DOMAIN m
                            /\ n[s[i]].next = m[s[i]].next
                            /\ n[s[i]].prev = m[s[i]].prev
    BY InList DEF OnlyLinks
  <1>2. n[q].child = m[q].child /\ DOMAIN n = DOMAIN m
    BY DEF OnlyLinks
  <1> QED
    BY <1>1, <1>2 DEF IsList

\* When the list of one item is whole after a change, so are all the others.
LEMMA Rechained ==
    ASSUME NEW m, NEW kids, Chained(m, kids), NEW p \in DOMAIN kids,
           NEW X \in SUBSET DOMAIN m, \A x \in X : IsLoose(m, x),
           NEW S, S = ToSet(kids[p]) \cup X,
           NEW n, OnlyLinks(m, n, S, p),
           NEW t \in Seq(DOMAIN m), IsList(n, p, t),
           ToSet(t) \subseteq S
    PROVE  Chained(n, [kids EXCEPT ![p] = t]) /\ StayLoose(m, n, X)
  <1> DEFINE new == [kids EXCEPT ![p] = t]
  <1>1. /\ IsMemory(m) /\ kids = [q \in DOMAIN kids |-> kids[q]]
        /\ DOMAIN kids \subseteq DOMAIN m
        /\ \A q \in DOMAIN kids :
              kids[q] \in Seq(DOMAIN m) /\ IsList(m, q, kids[q])
        /\ \A q \in DOMAIN kids \ {p} :
              ToSet(kids[p]) \cap ToSet(kids[q]) = {}
    BY DEF Chained
  <1>2. \A q \in DOMAIN kids : X \cap ToSet(kids[q]) = {}
    BY <1>1, ListedIsNotLoose
  <1>3. /\ new = [q \in DOMAIN new |-> new[q]] /\ DOMAIN new = DOMAIN kids
        /\ new[p] = t /\ \A q \in DOMAIN kids \ {p} : new[q] = kids[q]
    BY <1>1
  <1> HIDE DEF new
  <1>4. IsMemory(n) /\ DOMAIN n = DOMAIN m
    BY DEF OnlyLinks
  <1>5. ASSUME NEW q \in DOMAIN kids \ {p}
        PROVE  /\ new[q] \in Seq(DOMAIN n) /\ IsList(n, q, new[q])
               /\ ToSet(t) \cap ToSet(new[q]) = {}
    <2>1. ToSet(kids[q]) \cap S = {}
      BY <1>1, <1>2
    <2> QED
      BY <1>1, <1>3, <1>4, <2>1, ListKept
  <1>6. Chained(n, new)
    <2>1. \A q \in DOMAIN new : new[q] \in Seq(DOMAIN n) /\ IsList(n, q, new[q])
      BY <1>3, <1>4, <1>5
    <2>2. ASSUME NEW q \in DOMAIN new, NEW r \in DOMAIN new, q # r
          PROVE  ToSet(new[q]) \cap ToSet(new[r]) = {}
      <3>1. CASE q = p
        BY <1>3, <1>5, <2>2, <3>1
      <3>2. CASE r = p
        BY <1>3, <1>5, <2>2, <3>2
      <3>3. CASE q # p /\ r # p
        BY <1>3, <2>2, <3>3 DEF Chained
      <3> QED
        BY <3>1, <3>2, <3>3
    <2> QED
      BY <1>1, <1>3, <1>4, <2>1, <2>2 DEF Chained
  <1>7. StayLoose(m, n, X)
    <2> SUFFICES ASSUME NEW j \in DOMAIN m \ X, IsLoose(m, j)
                 PROVE  IsLoose(n, j)
      BY DEF StayLoose
    <2>1. j \notin ToSet(kids[p])
      BY <1>1, ListedIsNotLoose
    <2> QED
      BY <2>1 DEF OnlyLinks, IsLoose
  <1> QED
    BY <1>6, <1>7 DEF new

\* What makes a list, with the indices spelled out.
LEMMA MakesList ==
    ASSUME NEW m, NEW p, NEW s \in Seq(DOMAIN m),
           \A i, j \in 1..Len(s) : s[i] = s[j] => i = j,
           \A i \in 1..Len(s) :
              /\ m[s[i]].next = IF i = Len(s) THEN NULL ELSE s[i + 1]
              /\ m[s[i]].prev = IF i = 1 THEN s[Len(s)] ELSE s[i - 1],
           m[p].child = IF Len(s) = 0 THEN NULL ELSE s[1]
    PROVE  IsList(m, p, s)
  <1>1. DOMAIN s = 1..Len(s) /\ Len(s) \in Nat
    BY InList
  <1>2. s = <<>> <=> Len(s) = 0
    OBVIOUS
  <1>3. \A i \in DOMAIN s : s[i] \in DOMAIN m
    BY InList, Zenon
  <1>4. \A i, j \in DOMAIN s : i # j => s[i] # s[j]
    BY <1>1
  <1>5. m[p].child = IF s = <<>> THEN NULL ELSE s[1]
    BY <1>2
  <1>6. \A i \in DOMAIN s :
           /\ m[s[i]].next = IF i = Len(s) THEN NULL ELSE s[i + 1]
           /\ m[s[i]].prev = IF i = 1 THEN s[Len(s)] ELSE s[i - 1]
    BY <1>1, Zenon
  <1> QED
    BY <1>3, <1>4, <1>5, <1>6, Zenon DEF IsList

-----------------------------------------------------------------------------
(* add_item_to_array                                                       *)

LEMMA Appended ==
    ASSUME NEW S, NEW s \in Seq(S), NEW x \in S
    PROVE  /\ Append(s, x) \in Seq(S) /\ Len(Append(s, x)) = Len(s) + 1
           /\ \A i \in 1..Len(s) : Append(s, x)[i] = s[i]
           /\ Append(s, x)[Len(s) + 1] = x
           /\ ToSet(Append(s, x)) \subseteq ToSet(s) \cup {x}
  <1>1. /\ Append(s, x) \in Seq(S) /\ Len(Append(s, x)) = Len(s) + 1
        /\ \A i \in 1..Len(s) : Append(s, x)[i] = s[i]
        /\ Append(s, x)[Len(s) + 1] = x
    OBVIOUS
  <1>2. ASSUME NEW y \in ToSet(Append(s, x)) PROVE y \in ToSet(s) \cup {x}
    <2>1. PICK t \in Seq(S) : t = Append(s, x)
      BY <1>1
    <2>2. PICK i \in 1..Len(t) : y = t[i]
      BY <1>2, <2>1, InList
    <2>3. Len(s) \in Nat /\ Len(t) = Len(s) + 1
      BY <1>1, <2>1
    <2>4. i \in 1..Len(s) \/ i = Len(s) + 1
      BY <2>2, <2>3
    <2> QED
      BY <1>1, <2>1, <2>2, <2>4, InList
  <1> QED
    BY <1>1, <1>2

\* The pointers an append leaves.
LEMMA AppendLinks ==
    ASSUME NEW m, IsMemory(m), NEW p \in DOMAIN m, NEW s \in Seq(DOMAIN m),
           IsList(m, p, s), NEW item \in DOMAIN m, IsLoose(m, item),
           NEW n, n = add_item_to_array(m, p, item)
    PROVE  /\ IsMemory(n) /\ DOMAIN n = DOMAIN m
           /\ \A i \in DOMAIN m :
                /\ n[i].next = IF Len(s) > 0 /\ i = s[Len(s)] THEN item
                               ELSE m[i].next
                /\ n[i].prev = IF i = item
                               THEN IF Len(s) = 0 THEN item ELSE s[Len(s)]
                               ELSE IF Len(s) > 0 /\ i = s[1] THEN item
                               ELSE m[i].prev
                /\ n[i].child = IF Len(s) = 0 /\ i = p THEN item ELSE m[i].child
  <1>1. Len(s) \in Nat /\ m[p].child = IF Len(s) = 0 THEN NULL ELSE s[1]
    BY Listed
  <1>2. CASE Len(s) = 0
    <2>1. PICK m1 : ChildSet(m, m1, p, item)
      BY DEF ChildSet
    <2>2. PICK m2 : PrevSet(m1, m2, item, item)
      BY DEF PrevSet
    <2>3. NextSet(m2, n, item, NULL)
      BY <1>1, <1>2, <2>1, <2>2, Zenon
      DEF add_item_to_array, NextSet, PrevSet, ChildSet
    <2>4. /\ IsMemory(m1) /\ DOMAIN m1 = DOMAIN m
          /\ \A i \in DOMAIN m : /\ m1[i].child = IF i = p THEN item ELSE m[i].child
                                 /\ m1[i].next = m[i].next
                                 /\ m1[i].prev = m[i].prev
      BY <2>1, PutChild
    <2>5. /\ IsMemory(m2) /\ DOMAIN m2 = DOMAIN m
          /\ \A i \in DOMAIN m : /\ m2[i].prev = IF i = item THEN item ELSE m1[i].prev
                                 /\ m2[i].next = m1[i].next
                                 /\ m2[i].child = m1[i].child
      BY <2>2, <2>4, PutPrev
    <2>6. /\ IsMemory(n) /\ DOMAIN n = DOMAIN m
          /\ \A i \in DOMAIN m : /\ n[i].next = IF i = item THEN NULL ELSE m2[i].next
                                 /\ n[i].prev = m2[i].prev
                                 /\ n[i].child = m2[i].child
      BY <2>3, <2>5, PutNext
    <2> QED
      BY <1>2, <2>4, <2>5, <2>6 DEF IsLoose
  <1>3. CASE Len(s) # 0
    <2>1. /\ 1 \in 1..Len(s) /\ Len(s) \in 1..Len(s) /\ Len(s) > 0
          /\ s[1] \in DOMAIN m /\ s[1] # NULL
          /\ s[Len(s)] \in DOMAIN m /\ s[Len(s)] # NULL
          /\ m[p].child = s[1] /\ m[s[1]].prev = s[Len(s)]
      BY <1>1, <1>3, Listed
    <2>2. PICK m1 : NextSet(m, m1, s[Len(s)], item)
      BY DEF NextSet
    <2>3. PICK m2 : PrevSet(m1, m2, item, s[Len(s)])
      BY DEF PrevSet
    <2>4. PrevSet(m2, n, s[1], item)
      BY <2>1, <2>2, <2>3, Zenon
      DEF add_item_to_array, suffix_object, NextSet, PrevSet
    <2>5. /\ IsMemory(m1) /\ DOMAIN m1 = DOMAIN m
          /\ \A i \in DOMAIN m :
                /\ m1[i].next = IF i = s[Len(s)] THEN item ELSE m[i].next
                /\ m1[i].prev = m[i].prev
                /\ m1[i].child = m[i].child
      BY <2>1, <2>2, PutNext
    <2>6. /\ IsMemory(m2) /\ DOMAIN m2 = DOMAIN m
          /\ \A i \in DOMAIN m :
                /\ m2[i].prev = IF i = item THEN s[Len(s)] ELSE m1[i].prev
                /\ m2[i].next = m1[i].next
                /\ m2[i].child = m1[i].child
      BY <2>3, <2>5, PutPrev
    <2>7. /\ IsMemory(n) /\ DOMAIN n = DOMAIN m
          /\ \A i \in DOMAIN m :
                /\ n[i].prev = IF i = s[1] THEN item ELSE m2[i].prev
                /\ n[i].next = m2[i].next
                /\ n[i].child = m2[i].child
      BY <2>1, <2>4, <2>6, PutPrev
    <2>8. s[1] # item
      BY <2>1, ListedIsNotLoose, Listed
    <2> QED
      BY <1>3, <2>1, <2>5, <2>6, <2>7, <2>8
  <1> QED
    BY <1>2, <1>3

(* add_item_to_array puts a loose item behind the children of an array or  *)
(* object, and leaves every other list and every other loose item alone.   *)
THEOREM AddItemToArrayKeepsLists ==
    ASSUME NEW m, NEW kids, Chained(m, kids), NEW p \in DOMAIN kids,
           NEW item \in DOMAIN m, IsLoose(m, item)
    PROVE  LET n == add_item_to_array(m, p, item)
           IN  /\ Chained(n, [kids EXCEPT ![p] = Append(kids[p], item)])
               /\ StayLoose(m, n, {item})
  <1>1. PICK s \in Seq(DOMAIN m) : s = kids[p]
    BY DEF Chained
  <1>2. IsMemory(m) /\ p \in DOMAIN m /\ IsList(m, p, s)
    BY <1>1 DEF Chained
  <1>3. PICK n : n = add_item_to_array(m, p, item)
    OBVIOUS
  <1>4. PICK L \in Nat : L = Len(s)
    OBVIOUS
  <1>5. /\ IsMemory(n) /\ DOMAIN n = DOMAIN m
        /\ \A i \in DOMAIN m :
             /\ n[i].next = IF L > 0 /\ i = s[L] THEN item ELSE m[i].next
             /\ n[i].prev = IF i = item THEN IF L = 0 THEN item ELSE s[L]
                            ELSE IF L > 0 /\ i = s[1] THEN item
                            ELSE m[i].prev
             /\ n[i].child = IF L = 0 /\ i = p THEN item ELSE m[i].child
    BY <1>2, <1>3, <1>4, AppendLinks
  <1>6. /\ \A i, j \in 1..L : s[i] = s[j] => i = j
        /\ \A i \in 1..L :
             /\ s[i] \in DOMAIN m /\ s[i] \in ToSet(s)
             /\ m[s[i]].next = IF i = L THEN NULL ELSE s[i + 1]
             /\ m[s[i]].prev = IF i = 1 THEN s[L] ELSE s[i - 1]
        /\ m[p].child = IF L = 0 THEN NULL ELSE s[1]
    BY <1>2, <1>4, Listed
  <1>7. PICK t \in Seq(DOMAIN m) : t = Append(s, item)
    BY Appended
  <1>8. /\ Len(t) = L + 1 /\ t[L + 1] = item
        /\ \A i \in 1..L : t[i] = s[i]
        /\ ToSet(t) \subseteq ToSet(s) \cup {item}
    BY <1>4, <1>7, Appended
  <1>9. \A i \in 1..L : s[i] # item
    BY <1>2, <1>6, ListedIsNotLoose
  <1>10. OnlyLinks(m, n, ToSet(s) \cup {item}, p)
    <2>1. L > 0 => s[L] \in ToSet(s) /\ s[1] \in ToSet(s)
      BY <1>6
    <2> QED
      BY <1>5, <2>1 DEF OnlyLinks
  <1>11. IsList(n, p, t)
    <2>1. \A i, j \in 1..Len(t) : t[i] = t[j] => i = j
      <3>1. \A i \in 1..Len(t) : i = L + 1 \/ i \in 1..L
        BY <1>8
      <3> QED
        BY <1>6, <1>8, <1>9, <3>1
    <2>2. ASSUME NEW i \in 1..Len(t)
          PROVE  /\ n[t[i]].next = IF i = Len(t) THEN NULL ELSE t[i + 1]
                 /\ n[t[i]].prev = IF i = 1 THEN t[Len(t)] ELSE t[i - 1]
      <3>1. CASE i = L + 1
        <4>1. L > 0 => s[L] # item /\ t[L] = s[L]
          BY <1>8, <1>9
        <4>2. n[item].next = NULL
          BY <1>5, <4>1 DEF IsLoose
        <4>3. n[item].prev = IF L = 0 THEN item ELSE s[L]
          BY <1>5
        <4> QED
          BY <1>8, <3>1, <4>1, <4>2, <4>3
      <3>2. CASE i \in 1..L
        <4>1. /\ t[i] = s[i] /\ s[i] # item /\ s[i] \in DOMAIN m /\ L > 0
              /\ s[i] = s[L] <=> i = L
              /\ s[i] = s[1] <=> i = 1
          BY <1>6, <1>8, <1>9, <3>2
        <4>2. n[s[i]].next = IF i = L THEN item ELSE s[i + 1]
          BY <1>5, <1>6, <3>2, <4>1
        <4>3. n[s[i]].prev = IF i = 1 THEN item ELSE s[i - 1]
          BY <1>5, <1>6, <3>2, <4>1
        <4>4. i # L => t[i + 1] = s[i + 1]
          BY <1>8, <3>2
        <4>5. i # 1 => t[i - 1] = s[i - 1]
          BY <1>8, <3>2
        <4> QED
          BY <1>8, <3>2, <4>1, <4>2, <4>3, <4>4, <4>5
      <3> QED
        BY <1>8, <3>1, <3>2
    <2>3. n[p].child = t[1]
      <3>1. L = 0 => t[1] = item
        BY <1>8
      <3>2. L # 0 => t[1] = s[1]
        BY <1>8
      <3> QED
        BY <1>2, <1>5, <1>6, <3>1, <3>2
    <2> QED
      BY <1>5, <1>8, <2>1, <2>2, <2>3, MakesList
  <1>12. Chained(n, [kids EXCEPT ![p] = t]) /\ StayLoose(m, n, {item})
    <2>1. PICK X \in SUBSET DOMAIN m : X = {item}
      OBVIOUS
    <2>2. PICK S : S = ToSet(kids[p]) \cup X /\ S = ToSet(s) \cup {item}
      BY <1>1, <2>1
    <2>3. OnlyLinks(m, n, S, p) /\ ToSet(t) \subseteq S
      BY <1>8, <1>10, <2>2
    <2>4. \A x \in X : IsLoose(m, x)
      BY <2>1
    <2>5. Chained(n, [kids EXCEPT ![p] = t]) /\ StayLoose(m, n, X)
      BY <1>11, <2>2, <2>3, <2>4, Rechained
    <2> QED
      BY <2>1, <2>5
  <1> QED
    BY <1>1, <1>3, <1>7, <1>12

-----------------------------------------------------------------------------
(* cJSON_DetachItemViaPointer                                              *)

LEMMA Removed ==
    ASSUME NEW S, NEW s \in Seq(S), NEW k \in 1..Len(s)
    PROVE  /\ RemoveAt(s, k) \in Seq(S) /\ Len(RemoveAt(s, k)) = Len(s) - 1
           /\ \A i \in 1..k - 1 : RemoveAt(s, k)[i] = s[i]
           /\ \A i \in k..Len(s) - 1 : RemoveAt(s, k)[i] = s[i + 1]
           /\ ToSet(RemoveAt(s, k)) \subseteq ToSet(s)
  <1>1. PICK L \in Nat : L = Len(s)
    BY InList
  <1>2. \A i \in 1..L : s[i] \in S
    BY <1>1, InList
  <1>3. PICK a : a = SubSeq(s, 1, k - 1)
    OBVIOUS
  <1>4. /\ a \in Seq(S) /\ Len(a) = k - 1
        /\ \A i \in 1..k - 1 : a[i] = s[i]
    BY <1>1, <1>2, <1>3, SubSeqProperties
  <1>5. PICK b : b = SubSeq(s, k + 1, L)
    OBVIOUS
  <1>6. /\ b \in Seq(S) /\ Len(b) = L - k
        /\ \A i \in 1..L - k : b[i] = s[k + i]
    <2>1. k + 1 \in Int /\ L \in Int /\ \A i \in k + 1..L : s[i] \in S
      BY <1>1, <1>2
    <2>2. /\ b \in Seq(S) /\ Len(b) = IF k + 1 <= L THEN L - (k + 1) + 1 ELSE 0
          /\ \A i \in 1..L - (k + 1) + 1 : b[i] = s[(k + 1) + i - 1]
      BY <1>5, <2>1, SubSeqProperties
    <2> QED
      BY <1>1, <2>2
  <1>10. PICK t \in Seq(S) : t = RemoveAt(s, k) /\ t = a \o b
    BY <1>1, <1>3, <1>4, <1>5, <1>6, ConcatProperties, Zenon DEF RemoveAt
  <1>7. /\ Len(t) = L - 1
        /\ \A i \in 1..L - 1 : t[i] = IF i < k THEN a[i] ELSE b[i - (k - 1)]
    BY <1>1, <1>4, <1>6, <1>10, ConcatProperties, SMTT(30)
  <1>8. \A i \in 1..k - 1 : t[i] = s[i]
    BY <1>1, <1>4, <1>7, SMTT(30)
  <1>9. ASSUME NEW i \in k..L - 1 PROVE t[i] = s[i + 1]
    <2>1. /\ i - (k - 1) \in 1..L - k /\ k + (i - (k - 1)) = i + 1
          /\ i \in 1..L - 1 /\ ~(i < k)
      BY <1>1
    <2> QED
      BY <1>6, <1>7, <2>1
  <1>11. ASSUME NEW y \in ToSet(t) PROVE y \in ToSet(s)
    <2>1. PICK i \in 1..L - 1 : y = t[i]
      BY <1>7, <1>11, InList
    <2>2. CASE i < k
      <3>1. i \in 1..k - 1 /\ i \in 1..L
        BY <1>1, <2>1, <2>2
      <3> QED
        BY <1>1, <1>8, <2>1, <3>1, InList
    <2>3. CASE i >= k
      <3>1. i \in k..L - 1 /\ i + 1 \in 1..L
        BY <1>1, <2>1, <2>3
      <3> QED
        BY <1>1, <1>9, <2>1, <3>1, InList
    <2> QED
      BY <1>1, <2>1, <2>2, <2>3
  <1> QED
    BY <1>1, <1>7, <1>8, <1>9, <1>10, <1>11

\* The pointers a detach leaves.
LEMMA DetachLinks ==
    ASSUME NEW m, IsMemory(m), NEW p \in DOMAIN m, NEW s \in Seq(DOMAIN m),
           IsList(m, p, s), NEW k \in 1..Len(s), NEW L, L = Len(s),
           NEW n, n = cJSON_DetachItemViaPointer(m, p, s[k])
    PROVE  /\ IsMemory(n) /\ DOMAIN n = DOMAIN m
           /\ \A i \in DOMAIN m :
                /\ n[i].next = IF i = s[k] THEN NULL
                               ELSE IF k > 1 /\ i = s[k - 1]
                               THEN IF k = L THEN NULL ELSE s[k + 1]
                               ELSE m[i].next
                /\ n[i].prev = IF i = s[k] THEN NULL
                               ELSE IF k < L /\ i = s[k + 1]
                               THEN IF k = 1 THEN s[L] ELSE s[k - 1]
                               ELSE IF k = L /\ k > 1 /\ i = s[1] THEN s[k - 1]
                               ELSE m[i].prev
                /\ n[i].child = IF i = p /\ k = 1
                                THEN IF k = L THEN NULL ELSE s[k + 1]
                                ELSE m[i].child
  <1>1. /\ \A i, j \in 1..L : s[i] = s[j] => i = j
        /\ \A i \in 1..L : /\ s[i] \in DOMAIN m /\ s[i] # NULL
                           /\ m[s[i]].next = IF i = L THEN NULL ELSE s[i + 1]
                           /\ m[s[i]].prev = IF i = 1 THEN s[L] ELSE s[i - 1]
        /\ m[p].child = IF L = 0 THEN NULL ELSE s[1]
    BY Listed, SMTT(30)
  <1> DEFINE d1 == IF s[k] = m[p].child THEN m
                   ELSE [m EXCEPT ![m[s[k]].prev].next = m[s[k]].next]
             d2 == IF m[s[k]].next = NULL THEN d1
                   ELSE [d1 EXCEPT ![m[s[k]].next].prev = m[s[k]].prev]
             d3 == IF s[k] = m[p].child
                   THEN [d2 EXCEPT ![p].child = m[s[k]].next]
                   ELSE IF m[s[k]].next = NULL
                   THEN [d2 EXCEPT ![d2[p].child].prev = m[s[k]].prev]
                   ELSE d2
  <1>0. n = [d3 EXCEPT ![s[k]].prev = NULL, ![s[k]].next = NULL]
    BY Zenon DEF cJSON_DetachItemViaPointer
  <1> HIDE DEF d1, d2, d3
  <1>2. PICK item \in DOMAIN m : item = s[k]
    BY <1>1
  <1>3. PICK next : next = m[item].next
    OBVIOUS
  <1>4. PICK prev : prev = m[item].prev
    OBVIOUS
  <1>5. /\ item # NULL
        /\ next = IF k = L THEN NULL ELSE s[k + 1]
        /\ prev = IF k = 1 THEN s[L] ELSE s[k - 1]
        /\ m[p].child = s[1] /\ (item = s[1] <=> k = 1)
        /\ s[1] \in DOMAIN m /\ s[1] # NULL
    BY <1>1, <1>2, <1>3, <1>4
  \* The store to the item before.
  <1>6. PICK m1 : /\ m1 = d1
                  /\ m1 = IF k = 1 THEN m ELSE [m EXCEPT ![prev].next = next]
    <2>1. item = m[p].child <=> k = 1
      BY <1>5
    <2>2. d1 = IF item = m[p].child THEN m ELSE [m EXCEPT ![prev].next = next]
      BY <1>2, <1>3, <1>4, Zenon DEF d1
    <2> QED
      BY <2>1, <2>2
  <1>7. /\ IsMemory(m1) /\ DOMAIN m1 = DOMAIN m
        /\ \A i \in DOMAIN m :
              /\ m1[i].next = IF k > 1 /\ i = prev THEN next ELSE m[i].next
              /\ m1[i].prev = m[i].prev
              /\ m1[i].child = m[i].child
    <2>1. CASE k = 1
      BY <1>6, <2>1
    <2>2. CASE k > 1
      <3>1. prev \in DOMAIN m
        BY <1>1, <1>5, <2>2
      <3>2. NextSet(m, m1, prev, next)
        <4>1. k # 1
          BY <2>2
        <4> QED
          BY <1>6, <4>1, Zenon DEF NextSet
      <3> QED
        BY <2>2, <3>1, <3>2, PutNext
    <2> QED
      BY <2>1, <2>2
  \* The store to the item behind.
  <1>8. PICK m2 : /\ m2 = d2
                  /\ m2 = IF next = NULL THEN m1 ELSE [m1 EXCEPT ![next].prev = prev]
    BY <1>2, <1>3, <1>4, <1>6, Zenon DEF d2
  <1>9. next = NULL <=> k = L
    BY <1>1, <1>5
  <1>10. /\ IsMemory(m2) /\ DOMAIN m2 = DOMAIN m
         /\ \A i \in DOMAIN m :
              /\ m2[i].prev = IF k < L /\ i = next THEN prev ELSE m1[i].prev
              /\ m2[i].next = m1[i].next
              /\ m2[i].child = m1[i].child
    <2>1. CASE k = L
      BY <1>7, <1>8, <1>9, <2>1
    <2>2. CASE k < L
      <3>1. PrevSet(m1, m2, next, prev) /\ next \in DOMAIN m1
        BY <1>1, <1>5, <1>7, <1>8, <1>9, <2>2 DEF PrevSet
      <3> QED
        BY <1>7, <2>2, <3>1, PutPrev
    <2> QED
      BY <2>1, <2>2
  \* The store to the parent's child or to the prev of the first item.
  <1>11. PICK m3 : /\ m3 = d3
                   /\ m3 = IF item = m[p].child
                           THEN [m2 EXCEPT ![p].child = next]
                           ELSE IF next = NULL
                           THEN [m2 EXCEPT ![m2[p].child].prev = prev]
                           ELSE m2
    BY <1>2, <1>3, <1>4, <1>8, Zenon DEF d3
  <1>12. /\ IsMemory(m3) /\ DOMAIN m3 = DOMAIN m
         /\ \A i \in DOMAIN m :
              /\ m3[i].prev = IF k = L /\ k > 1 /\ i = s[1] THEN prev ELSE m2[i].prev
              /\ m3[i].next = m2[i].next
              /\ m3[i].child = IF i = p /\ k = 1 THEN next ELSE m2[i].child
    <2>1. CASE k = 1
      <3>1. ChildSet(m2, m3, p, next)
        BY <1>5, <1>11, <2>1 DEF ChildSet
      <3> QED
        BY <1>10, <2>1, <3>1, PutChild
    <2>2. CASE k > 1 /\ k = L
      <3>1. m2[p].child = s[1]
        BY <1>5, <1>7, <1>10
      <3>2. PrevSet(m2, m3, s[1], prev)
        BY <1>5, <1>9, <1>11, <2>2, <3>1 DEF PrevSet
      <3> QED
        BY <1>5, <1>10, <2>2, <3>2, PutPrev
    <2>3. CASE k > 1 /\ k # L
      BY <1>5, <1>9, <1>10, <1>11, <2>3
    <2> QED
      BY <2>1, <2>2, <2>3
  <1>13. PICK m4 : PrevSet(m3, m4, item, NULL)
    BY DEF PrevSet
  <1>14. /\ IsMemory(m4) /\ DOMAIN m4 = DOMAIN m
         /\ \A i \in DOMAIN m : /\ m4[i].prev = IF i = item THEN NULL ELSE m3[i].prev
                                /\ m4[i].next = m3[i].next
                                /\ m4[i].child = m3[i].child
    BY <1>12, <1>13, PutPrev
  <1>15. NextSet(m4, n, item, NULL)
    <2>1. n = [m3 EXCEPT ![item].prev = NULL, ![item].next = NULL]
      BY <1>0, <1>2, <1>11, Zenon
    <2> QED
      BY <1>13, <2>1, Zenon DEF PrevSet, NextSet
  <1>16. /\ IsMemory(n) /\ DOMAIN n = DOMAIN m
         /\ \A i \in DOMAIN m : /\ n[i].next = IF i = item THEN NULL ELSE m4[i].next
                                /\ n[i].prev = m4[i].prev
                                /\ n[i].child = m4[i].child
    BY <1>14, <1>15, PutNext
  <1>17. ASSUME NEW i \in DOMAIN m
         PROVE  /\ n[i].next = IF i = item THEN NULL
                               ELSE IF k > 1 /\ i = prev THEN next ELSE m[i].next
                /\ n[i].prev = IF i = item THEN NULL
                               ELSE IF k = L /\ k > 1 /\ i = s[1] THEN prev
                               ELSE IF k < L /\ i = next THEN prev
                               ELSE m[i].prev
                /\ n[i].child = IF i = p /\ k = 1 THEN next ELSE m[i].child
    BY <1>7, <1>10, <1>12, <1>14, <1>16
  <1> QED
    BY <1>2, <1>5, <1>16, <1>17

(* cJSON_DetachItemViaPointer takes the k-th child out of the children of  *)
(* its parent and leaves it loose; every other list and every other loose  *)
(* item stays as it is.  CJSONForest calls this Take.                      *)
THEOREM DetachItemKeepsLists ==
    ASSUME NEW m, NEW kids, Chained(m, kids), NEW p \in DOMAIN kids,
           NEW k \in DOMAIN kids[p]
    PROVE  LET item == kids[p][k]
               n == cJSON_DetachItemViaPointer(m, p, item)
           IN  /\ Chained(n, [kids EXCEPT ![p] = RemoveAt(kids[p], k)])
               /\ IsLoose(n, item)
               /\ StayLoose(m, n, {})
  <1>1. PICK s \in Seq(DOMAIN m) : s = kids[p]
    BY DEF Chained
  <1>2. IsMemory(m) /\ p \in DOMAIN m /\ IsList(m, p, s)
    BY <1>1 DEF Chained
  <1>3. PICK n : n = cJSON_DetachItemViaPointer(m, p, s[k])
    OBVIOUS
  <1>4. PICK L \in Nat : L = Len(s)
    BY InList
  <1>5. k \in 1..L /\ k \in 1..Len(s)
    BY <1>1, <1>4, InList
  <1>6. /\ \A i, j \in 1..L : s[i] = s[j] => i = j
        /\ \A i \in 1..L :
             /\ s[i] \in DOMAIN m /\ s[i] \in ToSet(s)
             /\ m[s[i]].next = IF i = L THEN NULL ELSE s[i + 1]
             /\ m[s[i]].prev = IF i = 1 THEN s[L] ELSE s[i - 1]
        /\ m[p].child = IF L = 0 THEN NULL ELSE s[1]
    BY <1>2, <1>4, Listed
  <1>7. /\ IsMemory(n) /\ DOMAIN n = DOMAIN m
        /\ \A i \in DOMAIN m :
             /\ n[i].next = IF i = s[k] THEN NULL
                            ELSE IF k > 1 /\ i = s[k - 1]
                            THEN IF k = L THEN NULL ELSE s[k + 1]
                            ELSE m[i].next
             /\ n[i].prev = IF i = s[k] THEN NULL
                            ELSE IF k < L /\ i = s[k + 1]
                            THEN IF k = 1 THEN s[L] ELSE s[k - 1]
                            ELSE IF k = L /\ k > 1 /\ i = s[1] THEN s[k - 1]
                            ELSE m[i].prev
             /\ n[i].child = IF i = p /\ k = 1
                             THEN IF k = L THEN NULL ELSE s[k + 1]
                             ELSE m[i].child
    BY <1>2, <1>3, <1>4, <1>5, DetachLinks
  <1>8. PICK t \in Seq(DOMAIN m) : t = RemoveAt(s, k)
    BY <1>5, Removed
  <1>9. /\ Len(t) = L - 1 /\ ToSet(t) \subseteq ToSet(s)
        /\ \A i \in 1..k - 1 : t[i] = s[i]
        /\ \A i \in k..L - 1 : t[i] = s[i + 1]
    BY <1>4, <1>5, <1>8, Removed, SMTT(30)
  <1>10. OnlyLinks(m, n, ToSet(s), p)
    <2>1. s[k] \in ToSet(s) /\ s[1] \in ToSet(s)
      BY <1>5, <1>6
    <2>2. k > 1 => s[k - 1] \in ToSet(s)
      BY <1>5, <1>6
    <2>3. k < L => s[k + 1] \in ToSet(s)
      BY <1>5, <1>6
    <2> QED
      BY <1>7, <2>1, <2>2, <2>3 DEF OnlyLinks
  <1>11. IsList(n, p, t)
    <2>1. /\ k \in Nat /\ L \in Nat /\ 1 <= k /\ k <= L
          /\ \A i \in 1..L - 1 : i < k \/ i >= k
      BY <1>4, <1>5
    <2>2. \A i, j \in 1..Len(t) : t[i] = t[j] => i = j
      <3> SUFFICES ASSUME NEW i \in 1..L - 1, NEW j \in 1..L - 1, t[i] = t[j]
                   PROVE  i = j
        BY <1>9
      <3>1. CASE i < k /\ j < k
        BY <1>6, <1>9, <2>1, <3>1
      <3>2. CASE i >= k /\ j >= k
        <4>1. /\ i + 1 \in 1..L /\ j + 1 \in 1..L /\ s[i + 1] = s[j + 1]
              /\ (i + 1 = j + 1 => i = j)
          BY <1>9, <2>1, <3>2
        <4> QED
          BY <1>6, <4>1
      <3>3. CASE i < k /\ j >= k
        <4>1. i \in 1..L /\ j + 1 \in 1..L /\ s[i] = s[j + 1] /\ i # j + 1
          BY <1>9, <2>1, <3>3
        <4> QED
          BY <1>6, <4>1
      <3>4. CASE i >= k /\ j < k
        <4>1. i + 1 \in 1..L /\ j \in 1..L /\ s[i + 1] = s[j] /\ i + 1 # j
          BY <1>9, <2>1, <3>4
        <4> QED
          BY <1>6, <4>1
      <3> QED
        BY <2>1, <3>1, <3>2, <3>3, <3>4
    <2>3. ASSUME NEW i \in 1..L - 1
          PROVE  /\ n[t[i]].next = IF i = L - 1 THEN NULL ELSE t[i + 1]
                 /\ n[t[i]].prev = IF i = 1 THEN t[L - 1] ELSE t[i - 1]
      <3>1. CASE i < k
        <4>1. t[i] = s[i] /\ i \in 1..L /\ s[i] \in DOMAIN m
          BY <1>6, <1>9, <2>1, <3>1
        <4>2. /\ s[i] # s[k]
              /\ k > 1 /\ (s[i] = s[k - 1] <=> i = k - 1)
              /\ k < L => s[i] # s[k + 1]
              /\ s[i] = s[1] <=> i = 1
          <5>1. /\ 1 \in 1..L /\ k \in 1..L /\ k - 1 \in 1..L /\ k > 1
                /\ k < L => k + 1 \in 1..L
                /\ i # k /\ i # k + 1
            BY <2>1, <3>1
          <5> QED
            BY <1>6, <4>1, <5>1
        <4>3. /\ n[s[i]].next = IF i = k - 1 THEN IF k = L THEN NULL ELSE s[k + 1]
                                ELSE s[i + 1]
              /\ n[s[i]].prev = IF k = L /\ i = 1 THEN s[k - 1]
                                ELSE IF i = 1 THEN s[L] ELSE s[i - 1]
          <5>1. i # L
            BY <2>1, <3>1
          <5>2. /\ m[s[i]].next = s[i + 1]
                /\ m[s[i]].prev = IF i = 1 THEN s[L] ELSE s[i - 1]
            BY <1>6, <4>1, <5>1
          <5> QED
            BY <1>7, <4>1, <4>2, <5>2
        <4>4. i # L - 1 => t[i + 1] = IF i = k - 1 THEN s[k + 1] ELSE s[i + 1]
          <5>1. i # k - 1 => i + 1 \in 1..k - 1
            BY <2>1, <3>1
          <5>2. i = k - 1 /\ i # L - 1 => i + 1 \in k..L - 1 /\ (i + 1) + 1 = k + 1
            BY <2>1, <3>1
          <5> QED
            BY <1>9, <5>1, <5>2
        <4>5. i # 1 => t[i - 1] = s[i - 1]
          BY <1>9, <2>1, <3>1
        <4>6. t[L - 1] = IF k = L THEN s[k - 1] ELSE s[L]
          BY <1>9, <2>1, <3>1
        <4> QED
          BY <2>1, <3>1, <4>1, <4>3, <4>4, <4>5, <4>6
      <3>2. CASE i >= k
        <4>1. t[i] = s[i + 1] /\ i + 1 \in 1..L /\ s[i + 1] \in DOMAIN m
          <5>1. i \in k..L - 1 /\ i + 1 \in 1..L
            BY <2>1, <3>2
          <5> QED
            BY <1>6, <1>9, <5>1
        <4>2. /\ s[i + 1] # s[k]
              /\ k > 1 => s[i + 1] # s[k - 1]
              /\ k < L /\ (s[i + 1] = s[k + 1] <=> i = k)
              /\ s[i + 1] # s[1]
          <5>1. /\ 1 \in 1..L /\ k \in 1..L /\ k < L /\ k + 1 \in 1..L
                /\ k > 1 => k - 1 \in 1..L
                /\ i + 1 # k /\ i + 1 # k - 1 /\ i + 1 # 1
                /\ i + 1 = k + 1 <=> i = k
            BY <2>1, <3>2
          <5> QED
            BY <1>6, <4>1, <5>1
        <4>3. /\ n[s[i + 1]].next = IF i = L - 1 THEN NULL ELSE s[i + 2]
              /\ n[s[i + 1]].prev = IF i = k THEN IF k = 1 THEN s[L] ELSE s[k - 1]
                                    ELSE s[i]
          <5>1. /\ i + 1 = L <=> i = L - 1
                /\ i + 1 # 1 /\ (i + 1) + 1 = i + 2 /\ (i + 1) - 1 = i
            BY <2>1, <3>2
          <5>2. /\ m[s[i + 1]].next = IF i = L - 1 THEN NULL ELSE s[i + 2]
                /\ m[s[i + 1]].prev = s[i]
            BY <1>6, <4>1, <5>1
          <5> QED
            BY <1>7, <4>1, <4>2, <5>2, SMTT(30)
        <4>4. i # L - 1 => t[i + 1] = s[i + 2]
          <5>1. i # L - 1 => i + 1 \in k..L - 1 /\ (i + 1) + 1 = i + 2
            BY <2>1, <3>2
          <5> QED
            BY <1>9, <5>1
        <4>5. i # 1 => t[i - 1] = IF i = k THEN s[k - 1] ELSE s[i]
          BY <1>9, <2>1, <3>2
        <4>6. t[L - 1] = s[L]
          BY <1>9, <2>1, <3>2
        <4> QED
          BY <2>1, <3>2, <4>1, <4>3, <4>4, <4>5, <4>6
      <3> QED
        BY <2>1, <3>1, <3>2
    <2>4. n[p].child = IF Len(t) = 0 THEN NULL ELSE t[1]
      <3>1. n[p].child = IF k = 1 THEN IF k = L THEN NULL ELSE s[k + 1] ELSE s[1]
        BY <1>2, <1>5, <1>6, <1>7
      <3>2. L # 1 => t[1] = IF k = 1 THEN s[k + 1] ELSE s[1]
        BY <1>5, <1>9
      <3>3. Len(t) = 0 <=> L = 1
        BY <1>9, <2>1
      <3>4. L = 1 => k = 1 /\ k = L
        BY <2>1
      <3>5. k = 1 => (k = L <=> L = 1)
        BY <2>1
      <3> QED
        BY <3>1, <3>2, <3>3, <3>4, <3>5
    <2>5. PICK N \in Nat : N = Len(t) /\ N = L - 1
      BY <1>9, <2>1
    <2>6. \A i \in 1..N : /\ n[t[i]].next = IF i = N THEN NULL ELSE t[i + 1]
                          /\ n[t[i]].prev = IF i = 1 THEN t[N] ELSE t[i - 1]
      BY <2>3, <2>5, SMTT(30)
    <2>7. t \in Seq(DOMAIN n)
      BY <1>7
    <2> QED
      BY <2>2, <2>4, <2>5, <2>6, <2>7, MakesList, ZenonT(40)
  <1>12. IsLoose(n, s[k])
    <2>1. s[k] \in DOMAIN m
      BY <1>5, <1>6
    <2> QED
      BY <1>7, <2>1 DEF IsLoose
  <1>13. Chained(n, [kids EXCEPT ![p] = t]) /\ StayLoose(m, n, {})
    <2>1. PICK X \in SUBSET DOMAIN m : X = {}
      OBVIOUS
    <2>2. PICK S : S = ToSet(kids[p]) \cup X /\ S = ToSet(s)
      BY <1>1, <2>1
    <2>3. OnlyLinks(m, n, S, p) /\ ToSet(t) \subseteq S
      BY <1>9, <1>10, <2>2
    <2>4. \A x \in X : IsLoose(m, x)
      BY <2>1
    <2>5. Chained(n, [kids EXCEPT ![p] = t]) /\ StayLoose(m, n, X)
      BY <1>11, <2>2, <2>3, <2>4, Rechained
    <2> QED
      BY <2>1, <2>5
  <1> QED
    BY <1>1, <1>3, <1>8, <1>12, <1>13

-----------------------------------------------------------------------------
(* cJSON_InsertItemInArray, before an item of the array                    *)

LEMMA Inserted ==
    ASSUME NEW S, NEW s \in Seq(S), NEW k \in 1..Len(s), NEW x \in S
    PROVE  /\ InsertAt(s, k, x) \in Seq(S)
           /\ Len(InsertAt(s, k, x)) = Len(s) + 1
           /\ \A i \in 1..k - 1 : InsertAt(s, k, x)[i] = s[i]
           /\ InsertAt(s, k, x)[k] = x
           /\ \A i \in k + 1..Len(s) + 1 : InsertAt(s, k, x)[i] = s[i - 1]
           /\ ToSet(InsertAt(s, k, x)) \subseteq ToSet(s) \cup {x}
  <1>1. PICK L \in Nat : L = Len(s)
    BY InList
  <1>2. \A i \in 1..L : s[i] \in S
    BY <1>1, InList
  <1>3. PICK a : a = SubSeq(s, 1, k - 1)
    OBVIOUS
  <1>4. /\ a \in Seq(S) /\ Len(a) = k - 1
        /\ \A i \in 1..k - 1 : a[i] = s[i]
    BY <1>1, <1>2, <1>3, SubSeqProperties
  <1>5. PICK b : b = SubSeq(s, k, L)
    OBVIOUS
  <1>6. /\ b \in Seq(S) /\ Len(b) = L - k + 1
        /\ \A i \in 1..L - k + 1 : b[i] = s[k + i - 1]
    BY <1>1, <1>2, <1>5, SubSeqProperties
  <1>7. PICK c \in Seq(S) : c = <<x>> /\ Len(c) = 1 /\ c[1] = x
    <2>1. <<x>> \in Seq(S)
      OBVIOUS
    <2>2. Len(<<x>>) = 1 /\ <<x>>[1] = x
      OBVIOUS
    <2> QED
      BY <2>1, <2>2, Zenon
  <1>8. PICK d \in Seq(S) : d = a \o c
    BY <1>4, ConcatProperties, Zenon
  <1>9. /\ Len(d) = k
        /\ \A i \in 1..k : d[i] = IF i <= k - 1 THEN a[i] ELSE c[i - (k - 1)]
    BY <1>1, <1>4, <1>7, <1>8, ConcatProperties
  <1>10. (\A i \in 1..k - 1 : d[i] = s[i]) /\ d[k] = x
    <2>1. k \in 1..k /\ ~(k <= k - 1) /\ k - (k - 1) = 1
      BY <1>1
    <2>2. d[k] = x
      BY <1>7, <1>9, <2>1
    <2>3. \A i \in 1..k - 1 : i \in 1..k /\ i <= k - 1
      BY <1>1
    <2> QED
      BY <1>4, <1>9, <2>2, <2>3
  <1>11. PICK t \in Seq(S) : t = InsertAt(s, k, x) /\ t = d \o b
    <2>1. InsertAt(s, k, x) = d \o b
      BY <1>1, <1>3, <1>5, <1>7, <1>8, Zenon DEF InsertAt
    <2>2. d \o b \in Seq(S)
      BY <1>6, ConcatProperties, Zenon
    <2> QED
      BY <2>1, <2>2, Zenon
  <1>12. /\ Len(t) = L + 1
         /\ \A i \in 1..L + 1 : t[i] = IF i <= k THEN d[i] ELSE b[i - k]
    <2>1. Len(d) + Len(b) = L + 1
      BY <1>1, <1>6, <1>9
    <2>2. /\ Len(d \o b) = Len(d) + Len(b)
          /\ \A i \in 1..Len(d) + Len(b) :
                (d \o b)[i] = IF i <= Len(d) THEN d[i] ELSE b[i - Len(d)]
      BY <1>6, ConcatProperties, Zenon
    <2>3. /\ Len(t) = Len(d) + Len(b)
          /\ \A i \in 1..Len(d) + Len(b) :
                t[i] = IF i <= Len(d) THEN d[i] ELSE b[i - Len(d)]
      BY <1>11, <2>2, Zenon
    <2> QED
      BY <1>9, <2>1, <2>3
  <1>13. (\A i \in 1..k - 1 : t[i] = s[i]) /\ t[k] = x
    BY <1>1, <1>10, <1>12
  <1>14. ASSUME NEW i \in k + 1..L + 1 PROVE t[i] = s[i - 1]
    <2>1. /\ i \in 1..L + 1 /\ ~(i <= k)
          /\ i - k \in 1..L - k + 1 /\ k + (i - k) - 1 = i - 1
      BY <1>1
    <2> QED
      BY <1>6, <1>12, <2>1
  <1>15. ASSUME NEW y \in ToSet(t) PROVE y \in ToSet(s) \cup {x}
    <2>1. PICK i \in 1..L + 1 : y = t[i]
      BY <1>12, <1>15, InList
    <2>2. CASE i < k
      <3>1. i \in 1..k - 1 /\ i \in 1..L
        BY <1>1, <2>1, <2>2
      <3> QED
        BY <1>1, <1>13, <2>1, <3>1, InList
    <2>3. CASE i = k
      BY <1>13, <2>1, <2>3
    <2>4. CASE i > k
      <3>1. i \in k + 1..L + 1 /\ i - 1 \in 1..L
        BY <1>1, <2>1, <2>4
      <3> QED
        BY <1>1, <1>14, <2>1, <3>1, InList
    <2> QED
      BY <1>1, <2>1, <2>2, <2>3, <2>4
  <1> QED
    BY <1>1, <1>11, <1>12, <1>13, <1>14, <1>15

\* The pointers an insertion leaves.
LEMMA InsertLinks ==
    ASSUME NEW m, IsMemory(m), NEW p \in DOMAIN m, NEW s \in Seq(DOMAIN m),
           IsList(m, p, s), NEW k \in 1..Len(s), NEW L, L = Len(s),
           NEW newitem \in DOMAIN m, newitem \notin ToSet(s),
           NEW n, n = InsertBefore(m, p, s[k], newitem)
    PROVE  /\ IsMemory(n) /\ DOMAIN n = DOMAIN m
           /\ \A i \in DOMAIN m :
                /\ n[i].next = IF i = newitem THEN s[k]
                               ELSE IF k > 1 /\ i = s[k - 1] THEN newitem
                               ELSE m[i].next
                /\ n[i].prev = IF i = newitem
                               THEN IF k = 1 THEN s[L] ELSE s[k - 1]
                               ELSE IF i = s[k] THEN newitem
                               ELSE m[i].prev
                /\ n[i].child = IF i = p /\ k = 1 THEN newitem ELSE m[i].child
  <1>1. /\ \A i, j \in 1..L : s[i] = s[j] => i = j
        /\ \A i \in 1..L : /\ s[i] \in DOMAIN m /\ s[i] \in ToSet(s)
                           /\ m[s[i]].prev = IF i = 1 THEN s[L] ELSE s[i - 1]
        /\ m[p].child = IF L = 0 THEN NULL ELSE s[1]
    BY Listed
  <1>2. PICK after \in DOMAIN m : after = s[k]
    BY <1>1
  <1>3. PICK prev : prev = m[after].prev
    OBVIOUS
  <1>4. /\ prev = IF k = 1 THEN s[L] ELSE s[k - 1]
        /\ after = m[p].child <=> k = 1
        /\ after # newitem
        /\ k > 1 => prev \in DOMAIN m /\ prev # newitem
    BY <1>1, <1>2, <1>3
  <1>5. PICK m1 : NextSet(m, m1, newitem, after)
    BY DEF NextSet
  <1>6. PICK m2 : PrevSet(m1, m2, newitem, prev)
    BY DEF PrevSet
  <1>7. PICK m3 : PrevSet(m2, m3, after, newitem)
    BY DEF PrevSet
  <1>8. n = IF k = 1 THEN [m3 EXCEPT ![p].child = newitem]
            ELSE [m3 EXCEPT ![prev].next = newitem]
    <2>1. m3 = [m EXCEPT ![newitem].next = after, ![newitem].prev = prev,
                         ![after].prev = newitem]
      BY <1>5, <1>6, <1>7, Zenon DEF NextSet, PrevSet
    <2>2. n = IF after = m[p].child THEN [m3 EXCEPT ![p].child = newitem]
              ELSE [m3 EXCEPT ![prev].next = newitem]
      BY <1>2, <1>3, <2>1, Zenon DEF InsertBefore
    <2> QED
      BY <1>4, <2>2
  <1>9. /\ IsMemory(m1) /\ DOMAIN m1 = DOMAIN m
        /\ \A i \in DOMAIN m :
              /\ m1[i].next = IF i = newitem THEN after ELSE m[i].next
              /\ m1[i].prev = m[i].prev
              /\ m1[i].child = m[i].child
    BY <1>5, PutNext
  <1>10. /\ IsMemory(m2) /\ DOMAIN m2 = DOMAIN m
         /\ \A i \in DOMAIN m :
              /\ m2[i].prev = IF i = newitem THEN prev ELSE m1[i].prev
              /\ m2[i].next = m1[i].next
              /\ m2[i].child = m1[i].child
    BY <1>6, <1>9, PutPrev
  <1>11. /\ IsMemory(m3) /\ DOMAIN m3 = DOMAIN m
         /\ \A i \in DOMAIN m :
              /\ m3[i].prev = IF i = after THEN newitem ELSE m2[i].prev
              /\ m3[i].next = m2[i].next
              /\ m3[i].child = m2[i].child
    BY <1>7, <1>10, PutPrev
  <1>12. /\ IsMemory(n) /\ DOMAIN n = DOMAIN m
         /\ \A i \in DOMAIN m :
              /\ n[i].prev = m3[i].prev
              /\ n[i].next = IF k > 1 /\ i = prev THEN newitem ELSE m3[i].next
              /\ n[i].child = IF k = 1 /\ i = p THEN newitem ELSE m3[i].child
    <2>1. CASE k = 1
      <3>1. ChildSet(m3, n, p, newitem)
        BY <1>8, <2>1, Zenon DEF ChildSet
      <3> QED
        BY <1>11, <2>1, <3>1, PutChild
    <2>2. CASE k > 1
      <3>1. k # 1
        BY <2>2
      <3>2. NextSet(m3, n, prev, newitem)
        BY <1>8, <3>1, Zenon DEF NextSet
      <3> QED
        BY <1>4, <1>11, <2>2, <3>2, PutNext
    <2> QED
      BY <2>1, <2>2
  <1>13. ASSUME NEW i \in DOMAIN m
         PROVE  /\ n[i].next = IF i = newitem THEN after
                               ELSE IF k > 1 /\ i = prev THEN newitem
                               ELSE m[i].next
                /\ n[i].prev = IF i = newitem THEN prev
                               ELSE IF i = after THEN newitem
                               ELSE m[i].prev
                /\ n[i].child = IF i = p /\ k = 1 THEN newitem ELSE m[i].child
    BY <1>4, <1>9, <1>10, <1>11, <1>12
  <1> QED
    BY <1>2, <1>4, <1>12, <1>13

(* cJSON_InsertItemInArray puts a loose item before the k-th child of an   *)
(* array, and leaves every other list and every other loose item alone.    *)
(* CJSONForest calls this Insert.                                          *)
THEOREM InsertItemKeepsLists ==
    ASSUME NEW m, NEW kids, Chained(m, kids), NEW p \in DOMAIN kids,
           NEW k \in DOMAIN kids[p], NEW newitem \in DOMAIN m, IsLoose(m, newitem)
    PROVE  LET n == InsertBefore(m, p, kids[p][k], newitem)
           IN  /\ Chained(n, [kids EXCEPT ![p] = InsertAt(kids[p], k, newitem)])
               /\ StayLoose(m, n, {newitem})
  <1>1. PICK s \in Seq(DOMAIN m) : s = kids[p]
    BY DEF Chained
  <1>2. IsMemory(m) /\ p \in DOMAIN m /\ IsList(m, p, s)
    BY <1>1 DEF Chained
  <1>3. PICK n : n = InsertBefore(m, p, s[k], newitem)
    OBVIOUS
  <1>4. PICK L \in Nat : L = Len(s)
    BY InList
  <1>5. k \in 1..L /\ k \in 1..Len(s)
    BY <1>1, <1>4, InList
  <1>6. /\ \A i, j \in 1..L : s[i] = s[j] => i = j
        /\ \A i \in 1..L :
             /\ s[i] \in DOMAIN m /\ s[i] \in ToSet(s)
             /\ m[s[i]].next = IF i = L THEN NULL ELSE s[i + 1]
             /\ m[s[i]].prev = IF i = 1 THEN s[L] ELSE s[i - 1]
        /\ m[p].child = IF L = 0 THEN NULL ELSE s[1]
    BY <1>2, <1>4, Listed
  <1>7. newitem \notin ToSet(s) /\ \A i \in 1..L : s[i] # newitem
    BY <1>2, <1>6, ListedIsNotLoose
  <1>8. /\ IsMemory(n) /\ DOMAIN n = DOMAIN m
        /\ \A i \in DOMAIN m :
             /\ n[i].next = IF i = newitem THEN s[k]
                            ELSE IF k > 1 /\ i = s[k - 1] THEN newitem
                            ELSE m[i].next
             /\ n[i].prev = IF i = newitem
                            THEN IF k = 1 THEN s[L] ELSE s[k - 1]
                            ELSE IF i = s[k] THEN newitem
                            ELSE m[i].prev
             /\ n[i].child = IF i = p /\ k = 1 THEN newitem ELSE m[i].child
    BY <1>2, <1>3, <1>4, <1>5, <1>7, InsertLinks
  <1>9. PICK t \in Seq(DOMAIN m) : t = InsertAt(s, k, newitem)
    BY <1>5, Inserted
  <1>10. /\ Len(t) = L + 1 /\ ToSet(t) \subseteq ToSet(s) \cup {newitem}
         /\ \A i \in 1..k - 1 : t[i] = s[i]
         /\ t[k] = newitem
         /\ \A i \in k + 1..L + 1 : t[i] = s[i - 1]
    <2>1. /\ Len(t) = Len(s) + 1 /\ ToSet(t) \subseteq ToSet(s) \cup {newitem}
          /\ \A i \in 1..k - 1 : t[i] = s[i]
          /\ t[k] = newitem
          /\ \A i \in k + 1..Len(s) + 1 : t[i] = s[i - 1]
      BY <1>5, <1>9, Inserted
    <2> QED
      BY <1>4, <2>1
  <1>11. OnlyLinks(m, n, ToSet(s) \cup {newitem}, p)
    <2>1. s[k] \in ToSet(s)
      BY <1>5, <1>6
    <2>2. k > 1 => s[k - 1] \in ToSet(s)
      BY <1>5, <1>6
    <2> QED
      BY <1>8, <2>1, <2>2 DEF OnlyLinks
  <1>12. IsList(n, p, t)
    <2>1. /\ k \in Nat /\ L \in Nat /\ 1 <= k /\ k <= L
          /\ \A i \in 1..L + 1 : i < k \/ i = k \/ i > k
      BY <1>4, <1>5
    <2>2. \A i \in 1..L + 1 :
             /\ i < k => i \in 1..L /\ t[i] = s[i]
             /\ i = k => t[i] = newitem
             /\ i > k => i - 1 \in 1..L /\ t[i] = s[i - 1]
      BY <1>10, <2>1
    <2>3. \A i, j \in 1..Len(t) : t[i] = t[j] => i = j
      <3>0. Len(t) = L + 1
        BY <1>10
      <3> SUFFICES ASSUME NEW i \in 1..L + 1, NEW j \in 1..L + 1, t[i] = t[j]
                   PROVE  i = j
        BY <3>0
      <3>1. CASE i < k /\ j < k
        <4>1. i \in 1..L /\ j \in 1..L /\ s[i] = s[j]
          BY <2>2, <3>1
        <4> QED
          BY <1>6, <4>1
      <3>2. CASE i > k /\ j > k
        <4>1. i - 1 = j - 1
          <5>1. i - 1 \in 1..L /\ j - 1 \in 1..L /\ s[i - 1] = s[j - 1]
            BY <2>2, <3>2
          <5> QED
            BY <1>6, <5>1
        <4> QED
          BY <4>1
      <3>3. CASE i < k /\ j > k
        <4>1. i = j - 1
          <5>1. i \in 1..L /\ j - 1 \in 1..L /\ s[i] = s[j - 1]
            BY <2>2, <3>3
          <5> QED
            BY <1>6, <5>1
        <4> QED
          BY <2>1, <3>3, <4>1
      <3>4. CASE i > k /\ j < k
        <4>1. i - 1 = j
          <5>1. i - 1 \in 1..L /\ j \in 1..L /\ s[i - 1] = s[j]
            BY <2>2, <3>4
          <5> QED
            BY <1>6, <5>1
        <4> QED
          BY <2>1, <3>4, <4>1
      <3>5. CASE i = k \/ j = k
        BY <1>7, <2>1, <2>2, <3>5
      <3> QED
        BY <2>1, <3>1, <3>2, <3>3, <3>4, <3>5
    <2>4. ASSUME NEW i \in 1..L + 1
          PROVE  /\ n[t[i]].next = IF i = L + 1 THEN NULL ELSE t[i + 1]
                 /\ n[t[i]].prev = IF i = 1 THEN t[L + 1] ELSE t[i - 1]
      <3>0. t[L + 1] = s[L]
        <4>1. L + 1 \in k + 1..L + 1 /\ (L + 1) - 1 = L
          BY <2>1
        <4> QED
          BY <1>10, <4>1
      <3>1. CASE i < k
        <4>1. t[i] = s[i] /\ i \in 1..L /\ s[i] \in DOMAIN m /\ s[i] # newitem
          BY <1>6, <1>7, <2>2, <3>1
        <4>2. s[i] # s[k] /\ k > 1 /\ (s[i] = s[k - 1] <=> i = k - 1)
          <5>1. k \in 1..L /\ k - 1 \in 1..L /\ k > 1 /\ i # k
            BY <2>1, <3>1
          <5> QED
            BY <1>6, <4>1, <5>1
        <4>3. /\ n[s[i]].next = IF i = k - 1 THEN newitem ELSE s[i + 1]
              /\ n[s[i]].prev = IF i = 1 THEN s[L] ELSE s[i - 1]
          <5>1. i # L
            BY <2>1, <3>1
          <5>2. /\ m[s[i]].next = s[i + 1]
                /\ m[s[i]].prev = IF i = 1 THEN s[L] ELSE s[i - 1]
            BY <1>6, <4>1, <5>1
          <5> QED
            BY <1>8, <4>1, <4>2, <5>2
        <4>4. t[i + 1] = IF i = k - 1 THEN newitem ELSE s[i + 1]
          <5>1. i # k - 1 => i + 1 \in 1..k - 1
            BY <2>1, <3>1
          <5>2. i = k - 1 => i + 1 = k
            BY <2>1, <3>1
          <5> QED
            BY <1>10, <5>1, <5>2
        <4>5. i # 1 => t[i - 1] = s[i - 1]
          BY <1>10, <2>1, <3>1
        <4>6. i # L + 1
          BY <2>1, <3>1
        <4> QED
          BY <3>0, <4>1, <4>3, <4>4, <4>5, <4>6
      <3>2. CASE i = k
        <4>1. t[i] = newitem /\ i # L + 1
          BY <2>1, <2>2, <3>2
        <4>2. /\ n[newitem].next = s[k]
              /\ n[newitem].prev = IF k = 1 THEN s[L] ELSE s[k - 1]
          BY <1>8
        <4>3. t[i + 1] = s[k]
          <5>1. i + 1 \in k + 1..L + 1 /\ (i + 1) - 1 = k
            BY <2>1, <3>2
          <5> QED
            BY <1>10, <5>1
        <4>4. i # 1 => t[i - 1] = s[k - 1]
          BY <1>10, <2>1, <3>2
        <4> QED
          BY <3>0, <3>2, <4>1, <4>2, <4>3, <4>4
      <3>3. CASE i > k
        <4>1. /\ t[i] = s[i - 1] /\ i - 1 \in 1..L /\ s[i - 1] \in DOMAIN m
              /\ s[i - 1] # newitem
          BY <1>6, <1>7, <2>2, <3>3
        <4>2. (s[i - 1] = s[k] <=> i - 1 = k) /\ (k > 1 => s[i - 1] # s[k - 1])
          <5>1. k \in 1..L /\ (k > 1 => k - 1 \in 1..L /\ i - 1 # k - 1)
            BY <2>1, <3>3
          <5> QED
            BY <1>6, <4>1, <5>1
        <4>3. /\ n[s[i - 1]].next = IF i = L + 1 THEN NULL ELSE s[i]
              /\ n[s[i - 1]].prev = IF i - 1 = k THEN newitem ELSE s[i - 2]
          <5>1. /\ i - 1 = L <=> i = L + 1
                /\ (i - 1) + 1 = i /\ (i - 1) - 1 = i - 2
                /\ i - 1 # k => i - 1 # 1
            BY <2>1, <3>3
          <5>2. /\ m[s[i - 1]].next = IF i = L + 1 THEN NULL ELSE s[i]
                /\ i - 1 # k => m[s[i - 1]].prev = s[i - 2]
            BY <1>6, <4>1, <5>1
          <5> QED
            BY <1>8, <4>1, <4>2, <5>2
        <4>4. i # L + 1 => t[i + 1] = s[i]
          <5>1. i # L + 1 => i + 1 \in k + 1..L + 1 /\ (i + 1) - 1 = i
            BY <2>1, <3>3
          <5> QED
            BY <1>10, <5>1
        <4>5. t[i - 1] = IF i - 1 = k THEN newitem ELSE s[i - 2]
          <5>1. i - 1 # k => i - 1 \in k + 1..L + 1 /\ (i - 1) - 1 = i - 2
            BY <2>1, <3>3
          <5> QED
            BY <1>10, <5>1
        <4>6. i # 1
          BY <2>1, <3>3
        <4> QED
          BY <4>1, <4>3, <4>4, <4>5, <4>6
      <3> QED
        BY <2>1, <3>1, <3>2, <3>3
    <2>5. n[p].child = t[1]
      <3>1. n[p].child = IF k = 1 THEN newitem ELSE s[1]
        BY <1>2, <1>6, <1>8, <2>1
      <3>2. k # 1 => 1 \in 1..k - 1
        BY <2>1
      <3> QED
        BY <1>10, <3>1, <3>2
    <2>6. PICK N \in Nat : N = Len(t) /\ N = L + 1
      BY <1>10, <2>1
    <2>7. \A i \in 1..N : /\ n[t[i]].next = IF i = N THEN NULL ELSE t[i + 1]
                          /\ n[t[i]].prev = IF i = 1 THEN t[N] ELSE t[i - 1]
      BY <2>4, <2>6, SMTT(30)
    <2>8. n[p].child = IF N = 0 THEN NULL ELSE t[1]
      BY <2>1, <2>5, <2>6
    <2>9. t \in Seq(DOMAIN n)
      BY <1>8
    <2> QED
      BY <2>3, <2>6, <2>7, <2>8, <2>9, MakesList, ZenonT(40)
  <1>13. Chained(n, [kids EXCEPT ![p] = t]) /\ StayLoose(m, n, {newitem})
    <2>1. PICK X \in SUBSET DOMAIN m : X = {newitem}
      OBVIOUS
    <2>2. PICK S : S = ToSet(kids[p]) \cup X /\ S = ToSet(s) \cup {newitem}
      BY <1>1, <2>1
    <2>3. OnlyLinks(m, n, S, p) /\ ToSet(t) \subseteq S
      BY <1>10, <1>11, <2>2
    <2>4. \A x \in X : IsLoose(m, x)
      BY <2>1
    <2>5. Chained(n, [kids EXCEPT ![p] = t]) /\ StayLoose(m, n, X)
      BY <1>12, <2>2, <2>3, <2>4, Rechained
    <2> QED
      BY <2>1, <2>5
  <1> QED
    BY <1>1, <1>3, <1>9, <1>13

-----------------------------------------------------------------------------
(* cJSON_ReplaceItemViaPointer, up to the deletion of the old item         *)

\* The pointers a replacement leaves.
LinksReplaced(m, n, p, s, k, L, replacement) ==
    /\ IsMemory(n) /\ DOMAIN n = DOMAIN m
    /\ \A i \in DOMAIN m :
         /\ n[i].next = IF i = s[k] THEN NULL
                        ELSE IF i = replacement
                        THEN IF k = L THEN NULL ELSE s[k + 1]
                        ELSE IF k > 1 /\ i = s[k - 1] THEN replacement
                        ELSE m[i].next
         /\ n[i].prev = IF i = s[k] THEN NULL
                        ELSE IF i = replacement
                        THEN IF L = 1 THEN replacement
                             ELSE IF k = 1 THEN s[L] ELSE s[k - 1]
                        ELSE IF k < L /\ i = s[k + 1] THEN replacement
                        ELSE IF k = L /\ i = s[1] THEN replacement
                        ELSE m[i].prev
         /\ n[i].child = IF i = p /\ k = 1 THEN replacement
                         ELSE m[i].child

LEMMA ReplacedLinks ==
    ASSUME NEW m, IsMemory(m), NEW p \in DOMAIN m, NEW s \in Seq(DOMAIN m),
           IsList(m, p, s), NEW k \in 1..Len(s), NEW L, L = Len(s),
           NEW replacement \in DOMAIN m, replacement \notin ToSet(s),
           NEW n, n = ReplaceLinks(m, p, s[k], replacement)
    PROVE  LinksReplaced(m, n, p, s, k, L, replacement)
  <1>1. /\ \A i, j \in 1..L : s[i] = s[j] => i = j
        /\ \A i \in 1..L : /\ s[i] \in DOMAIN m /\ s[i] # NULL
                           /\ s[i] \in ToSet(s)
                           /\ m[s[i]].next = IF i = L THEN NULL ELSE s[i + 1]
                           /\ m[s[i]].prev = IF i = 1 THEN s[L] ELSE s[i - 1]
        /\ m[p].child = IF L = 0 THEN NULL ELSE s[1]
    BY Listed, SMTT(30)
  <1> DEFINE d1 == [m EXCEPT ![replacement].next = m[s[k]].next,
                             ![replacement].prev = m[s[k]].prev]
             d2 == IF m[s[k]].next = NULL THEN d1
                   ELSE [d1 EXCEPT ![m[s[k]].next].prev = replacement]
             d3 == IF m[p].child # s[k] THEN d2
                   ELSE [(IF d2[m[p].child].prev = m[p].child
                          THEN [d2 EXCEPT ![replacement].prev = replacement]
                          ELSE d2) EXCEPT ![p].child = replacement]
             d4 == IF m[p].child = s[k] THEN d3
                   ELSE IF m[s[k]].next = NULL
                   THEN [(IF m[s[k]].prev = NULL THEN d3
                          ELSE [d3 EXCEPT ![m[s[k]].prev].next = replacement])
                         EXCEPT ![m[p].child].prev = replacement]
                   ELSE IF m[s[k]].prev = NULL THEN d3
                   ELSE [d3 EXCEPT ![m[s[k]].prev].next = replacement]
  <1>2. n = [d4 EXCEPT ![s[k]].next = NULL, ![s[k]].prev = NULL]
    BY Zenon DEF ReplaceLinks
  <1> HIDE DEF d1, d2, d3, d4
  <1>3. PICK item \in DOMAIN m : item = s[k]
    BY <1>1
  <1>4. PICK next : next = m[item].next
    OBVIOUS
  <1>5. PICK prev : prev = m[item].prev
    OBVIOUS
  <1>6. PICK head \in DOMAIN m : head = s[1] /\ head = m[p].child
    BY <1>1
  <1>7. /\ next = IF k = L THEN NULL ELSE s[k + 1]
        /\ prev = IF k = 1 THEN s[L] ELSE s[k - 1]
        /\ head = item <=> k = 1
        /\ prev = item <=> L = 1
    BY <1>1, <1>3, <1>4, <1>5, <1>6
  <1>8. /\ prev \in DOMAIN m /\ prev # NULL
        /\ item # replacement /\ head # replacement /\ prev # replacement
        /\ k < L => next \in DOMAIN m /\ next # replacement /\ next # item
        /\ next = NULL <=> k = L
    BY <1>1, <1>3, <1>6, <1>7
  \* The replacement takes over the pointers of the item.
  <1>9. PICK m0 : NextSet(m, m0, replacement, next)
    BY DEF NextSet
  <1>10. PICK m1 : m1 = d1 /\ PrevSet(m0, m1, replacement, prev)
    BY <1>3, <1>4, <1>5, <1>9, Zenon DEF d1, NextSet, PrevSet
  <1>11. /\ IsMemory(m0) /\ DOMAIN m0 = DOMAIN m
         /\ \A i \in DOMAIN m :
              /\ m0[i].next = IF i = replacement THEN next ELSE m[i].next
              /\ m0[i].prev = m[i].prev
              /\ m0[i].child = m[i].child
    BY <1>9, PutNext
  <1>12. /\ IsMemory(m1) /\ DOMAIN m1 = DOMAIN m
         /\ \A i \in DOMAIN m :
              /\ m1[i].prev = IF i = replacement THEN prev ELSE m0[i].prev
              /\ m1[i].next = m0[i].next
              /\ m1[i].child = m0[i].child
    BY <1>10, <1>11, PutPrev
  \* The item behind.
  <1>13. PICK m2 : /\ m2 = d2
                   /\ m2 = IF next = NULL THEN m1
                           ELSE [m1 EXCEPT ![next].prev = replacement]
    BY <1>3, <1>4, <1>10, Zenon DEF d2
  <1>14. /\ IsMemory(m2) /\ DOMAIN m2 = DOMAIN m
         /\ \A i \in DOMAIN m :
              /\ m2[i].prev = IF k < L /\ i = next THEN replacement ELSE m1[i].prev
              /\ m2[i].next = m1[i].next
              /\ m2[i].child = m1[i].child
    <2>1. CASE k = L
      BY <1>8, <1>12, <1>13, <2>1
    <2>2. CASE k < L
      <3>1. next # NULL /\ next \in DOMAIN m1
        BY <1>8, <1>12, <2>2
      <3>2. PrevSet(m1, m2, next, replacement)
        BY <1>13, <3>1, Zenon DEF PrevSet
      <3> QED
        BY <1>12, <2>2, <3>1, <3>2, PutPrev
    <2> QED
      BY <2>1, <2>2
  \* The first item.
  <1>15. m2[head].prev = head <=> L = 1
    <2>1. m2[head].prev = IF k < L /\ head = next THEN replacement ELSE m[head].prev
      BY <1>8, <1>11, <1>12, <1>14
    <2>2. m[head].prev = s[L] /\ (s[L] = head <=> L = 1)
      BY <1>1, <1>6
    <2>3. L = 1 => ~(k < L)
      OBVIOUS
    <2> QED
      BY <1>8, <2>1, <2>2, <2>3
  <1>16. PICK m21 : m21 = IF m2[head].prev = head
                          THEN [m2 EXCEPT ![replacement].prev = replacement]
                          ELSE m2
    OBVIOUS
  <1>17. /\ IsMemory(m21) /\ DOMAIN m21 = DOMAIN m
         /\ \A i \in DOMAIN m :
              /\ m21[i].prev = IF L = 1 /\ i = replacement THEN replacement
                               ELSE m2[i].prev
              /\ m21[i].next = m2[i].next
              /\ m21[i].child = m2[i].child
    <2>1. CASE L = 1
      <3>1. PrevSet(m2, m21, replacement, replacement)
        BY <1>15, <1>16, <2>1, Zenon DEF PrevSet
      <3> QED
        BY <1>14, <2>1, <3>1, PutPrev
    <2>2. CASE L # 1
      BY <1>14, <1>15, <1>16, <2>2
    <2> QED
      BY <2>1, <2>2
  <1>18. PICK m3 : /\ m3 = d3
                   /\ m3 = IF head # item THEN m2
                           ELSE [m21 EXCEPT ![p].child = replacement]
    <2>1. d3 = IF head # item THEN m2
               ELSE [(IF m2[head].prev = head
                      THEN [m2 EXCEPT ![replacement].prev = replacement]
                      ELSE m2) EXCEPT ![p].child = replacement]
      BY <1>3, <1>6, <1>13, Zenon DEF d3
    <2> QED
      BY <1>16, <2>1, Zenon
  <1>19. /\ IsMemory(m3) /\ DOMAIN m3 = DOMAIN m
         /\ \A i \in DOMAIN m :
              /\ m3[i].prev = IF L = 1 /\ i = replacement THEN replacement
                              ELSE m2[i].prev
              /\ m3[i].next = m2[i].next
              /\ m3[i].child = IF k = 1 /\ i = p THEN replacement
                               ELSE m2[i].child
    <2>1. CASE k = 1
      <3>1. ChildSet(m21, m3, p, replacement)
        BY <1>7, <1>18, <2>1, Zenon DEF ChildSet
      <3> QED
        BY <1>17, <2>1, <3>1, PutChild
    <2>2. CASE k # 1
      <3>1. L # 1
        BY <2>2
      <3> QED
        BY <1>7, <1>14, <1>18, <2>2, <3>1
    <2> QED
      BY <2>1, <2>2
  \* The item before, and the last item seen from the first.
  <1>20. PICK m31 : m31 = [m3 EXCEPT ![prev].next = replacement]
    OBVIOUS
  <1>21. /\ IsMemory(m31) /\ DOMAIN m31 = DOMAIN m
         /\ \A i \in DOMAIN m :
              /\ m31[i].next = IF i = prev THEN replacement ELSE m3[i].next
              /\ m31[i].prev = m3[i].prev
              /\ m31[i].child = m3[i].child
    <2>1. NextSet(m3, m31, prev, replacement)
      BY <1>20 DEF NextSet
    <2> QED
      BY <1>8, <1>19, <2>1, PutNext
  <1>22. PICK m4 : /\ m4 = d4
                   /\ m4 = IF head = item THEN m3
                           ELSE IF next = NULL
                           THEN [m31 EXCEPT ![head].prev = replacement]
                           ELSE m31
    <2>1. d4 = IF head = item THEN m3
               ELSE IF next = NULL
               THEN [(IF prev = NULL THEN m3
                      ELSE [m3 EXCEPT ![prev].next = replacement])
                     EXCEPT ![head].prev = replacement]
               ELSE IF prev = NULL THEN m3
               ELSE [m3 EXCEPT ![prev].next = replacement]
      BY <1>3, <1>4, <1>5, <1>6, <1>18, Zenon DEF d4
    <2>2. prev # NULL
      BY <1>8
    <2> QED
      BY <1>20, <2>1, <2>2, Zenon
  <1>23. /\ IsMemory(m4) /\ DOMAIN m4 = DOMAIN m
         /\ \A i \in DOMAIN m :
              /\ m4[i].prev = IF k > 1 /\ k = L /\ i = head THEN replacement
                              ELSE m3[i].prev
              /\ m4[i].next = IF k > 1 /\ i = prev THEN replacement
                              ELSE m3[i].next
              /\ m4[i].child = m3[i].child
    <2>1. CASE k = 1
      BY <1>7, <1>19, <1>22, <2>1
    <2>2. CASE k > 1 /\ k = L
      <3>1. next = NULL /\ head # item
        BY <1>7, <1>8, <2>2
      <3>2. PrevSet(m31, m4, head, replacement)
        BY <1>22, <3>1, Zenon DEF PrevSet
      <3> QED
        BY <1>21, <2>2, <3>2, PutPrev
    <2>3. CASE k > 1 /\ k # L
      BY <1>7, <1>8, <1>21, <1>22, <2>3
    <2> QED
      BY <2>1, <2>2, <2>3
  \* The item is cut off.
  <1>24. PICK m5 : NextSet(m4, m5, item, NULL)
    BY DEF NextSet
  <1>25. PrevSet(m5, n, item, NULL)
    <2>1. n = [m4 EXCEPT ![item].next = NULL, ![item].prev = NULL]
      BY <1>2, <1>3, <1>22, Zenon
    <2> QED
      BY <1>24, <2>1, Zenon DEF PrevSet, NextSet
  <1>26. /\ IsMemory(m5) /\ DOMAIN m5 = DOMAIN m
         /\ \A i \in DOMAIN m : /\ m5[i].next = IF i = item THEN NULL ELSE m4[i].next
                                /\ m5[i].prev = m4[i].prev
                                /\ m5[i].child = m4[i].child
    BY <1>23, <1>24, PutNext
  <1>27. /\ IsMemory(n) /\ DOMAIN n = DOMAIN m
         /\ \A i \in DOMAIN m : /\ n[i].prev = IF i = item THEN NULL ELSE m5[i].prev
                                /\ n[i].next = m5[i].next
                                /\ n[i].child = m5[i].child
    BY <1>25, <1>26, PutPrev
  <1>28. ASSUME NEW i \in DOMAIN m
         PROVE  /\ n[i].next = IF i = item THEN NULL
                               ELSE IF i = replacement THEN next
                               ELSE IF k > 1 /\ i = prev THEN replacement
                               ELSE m[i].next
                /\ n[i].prev = IF i = item THEN NULL
                               ELSE IF i = replacement
                               THEN IF L = 1 THEN replacement ELSE prev
                               ELSE IF k < L /\ i = next THEN replacement
                               ELSE IF k > 1 /\ k = L /\ i = head THEN replacement
                               ELSE m[i].prev
                /\ n[i].child = IF i = p /\ k = 1 THEN replacement
                                ELSE m[i].child
    BY <1>8, <1>11, <1>12, <1>14, <1>19, <1>23, <1>26, <1>27
  <1>29. ASSUME NEW i \in DOMAIN m, i # item
         PROVE  (k > 1 /\ k = L /\ i = head) <=> (k = L /\ i = s[1])
    BY <1>6, <1>7, <1>29
  <1> QED
    BY <1>3, <1>7, <1>27, <1>28, <1>29 DEF LinksReplaced

(* cJSON_ReplaceItemViaPointer puts a loose item in the place of the k-th  *)
(* child and leaves that child loose, to be deleted; every other list and  *)
(* every other loose item stays as it is.  CJSONForest calls this Replace. *)
THEOREM ReplaceItemKeepsLists ==
    ASSUME NEW m, NEW kids, Chained(m, kids), NEW p \in DOMAIN kids,
           NEW k \in DOMAIN kids[p],
           NEW replacement \in DOMAIN m, IsLoose(m, replacement)
    PROVE  LET item == kids[p][k]
               n == ReplaceLinks(m, p, item, replacement)
           IN  /\ Chained(n, [kids EXCEPT ![p] = [kids[p] EXCEPT ![k] = replacement]])
               /\ IsLoose(n, item)
               /\ StayLoose(m, n, {replacement})
  <1>1. PICK s \in Seq(DOMAIN m) : s = kids[p]
    BY DEF Chained
  <1>2. IsMemory(m) /\ p \in DOMAIN m /\ IsList(m, p, s)
    BY <1>1 DEF Chained
  <1>3. PICK n : n = ReplaceLinks(m, p, s[k], replacement)
    OBVIOUS
  <1>4. PICK L \in Nat : L = Len(s)
    BY InList
  <1>5. k \in 1..L /\ k \in 1..Len(s)
    BY <1>1, <1>4, InList
  <1>6. /\ \A i, j \in 1..L : s[i] = s[j] => i = j
        /\ \A i \in 1..L :
             /\ s[i] \in DOMAIN m /\ s[i] \in ToSet(s)
             /\ m[s[i]].next = IF i = L THEN NULL ELSE s[i + 1]
             /\ m[s[i]].prev = IF i = 1 THEN s[L] ELSE s[i - 1]
        /\ m[p].child = IF L = 0 THEN NULL ELSE s[1]
    BY <1>2, <1>4, Listed
  <1>7. replacement \notin ToSet(s) /\ \A i \in 1..L : s[i] # replacement
    BY <1>2, <1>6, ListedIsNotLoose
  <1>8. /\ IsMemory(n) /\ DOMAIN n = DOMAIN m
        /\ \A i \in DOMAIN m :
             /\ n[i].next = IF i = s[k] THEN NULL
                            ELSE IF i = replacement
                            THEN IF k = L THEN NULL ELSE s[k + 1]
                            ELSE IF k > 1 /\ i = s[k - 1] THEN replacement
                            ELSE m[i].next
             /\ n[i].prev = IF i = s[k] THEN NULL
                            ELSE IF i = replacement
                            THEN IF L = 1 THEN replacement
                                 ELSE IF k = 1 THEN s[L] ELSE s[k - 1]
                            ELSE IF k < L /\ i = s[k + 1] THEN replacement
                            ELSE IF k = L /\ i = s[1] THEN replacement
                            ELSE m[i].prev
             /\ n[i].child = IF i = p /\ k = 1 THEN replacement
                             ELSE m[i].child
    <2>1. LinksReplaced(m, n, p, s, k, L, replacement)
      BY <1>2, <1>3, <1>4, <1>5, <1>7, ReplacedLinks
    <2> QED
      BY <2>1 DEF LinksReplaced
  <1>9. PICK t \in Seq(DOMAIN m) : t = [s EXCEPT ![k] = replacement]
    BY <1>5, ExceptSeq
  <1>10. /\ Len(t) = L /\ t[k] = replacement
         /\ \A i \in 1..L : i # k => t[i] = s[i]
    <2>1. /\ Len(t) = Len(s)
          /\ \A i \in 1..Len(s) : t[i] = IF i = k THEN replacement ELSE s[i]
      BY <1>5, <1>9, ExceptSeq
    <2> QED
      BY <1>4, <1>5, <2>1
  <1>11. ToSet(t) \subseteq ToSet(s) \cup {replacement}
    <2> SUFFICES ASSUME NEW y \in ToSet(t)
                 PROVE  y \in ToSet(s) \cup {replacement}
      OBVIOUS
    <2>1. PICK i \in 1..L : y = t[i]
      BY <1>10, InList
    <2> QED
      BY <1>6, <1>10, <2>1
  <1>12. OnlyLinks(m, n, ToSet(s) \cup {replacement}, p)
    <2>1. s[k] \in ToSet(s) /\ s[1] \in ToSet(s)
      BY <1>5, <1>6
    <2>2. k > 1 => s[k - 1] \in ToSet(s)
      BY <1>5, <1>6
    <2>3. k < L => s[k + 1] \in ToSet(s)
      BY <1>5, <1>6
    <2> QED
      BY <1>8, <2>1, <2>2, <2>3 DEF OnlyLinks
  <1>13. IsList(n, p, t)
    <2>1. k \in Nat /\ L \in Nat /\ 1 <= k /\ k <= L
      BY <1>4, <1>5
    <2>2. \A i, j \in 1..L : t[i] = t[j] => i = j
      <3> SUFFICES ASSUME NEW i \in 1..L, NEW j \in 1..L, t[i] = t[j]
                   PROVE  i = j
        OBVIOUS
      <3>1. CASE i # k /\ j # k
        <4>1. s[i] = s[j]
          BY <1>10, <3>1
        <4> QED
          BY <1>6, <4>1
      <3>2. CASE i = k \/ j = k
        BY <1>7, <1>10, <3>2
      <3> QED
        BY <3>1, <3>2
    <2>3. ASSUME NEW i \in 1..L
          PROVE  /\ n[t[i]].next = IF i = L THEN NULL ELSE t[i + 1]
                 /\ n[t[i]].prev = IF i = 1 THEN t[L] ELSE t[i - 1]
      <3>1. CASE i = k
        <4>1. t[i] = replacement /\ replacement # s[k]
          BY <1>7, <1>10, <2>1, <3>1
        <4>2. /\ n[replacement].next = IF k = L THEN NULL ELSE s[k + 1]
              /\ n[replacement].prev = IF L = 1 THEN replacement
                                       ELSE IF k = 1 THEN s[L] ELSE s[k - 1]
          BY <1>8, <4>1
        <4>3. k # L => t[k + 1] = s[k + 1]
          BY <1>10, <2>1
        <4>4. k # 1 => t[k - 1] = s[k - 1]
          BY <1>10, <2>1
        <4>5. t[L] = IF k = L THEN replacement ELSE s[L]
          BY <1>10, <2>1
        <4>6. L = 1 => k = 1 /\ k = L
          BY <2>1
        <4>7. k = 1 => (k = L <=> L = 1)
          OBVIOUS
        <4> QED
          BY <3>1, <4>1, <4>2, <4>3, <4>4, <4>5, <4>6, <4>7
      <3>2. CASE i # k
        <4>1. /\ t[i] = s[i] /\ s[i] \in DOMAIN m
              /\ s[i] # replacement /\ s[i] # s[k]
          <5>1. k \in 1..L
            BY <1>5
          <5> QED
            BY <1>6, <1>7, <1>10, <3>2, <5>1
        <4>2. /\ (k > 1 /\ s[i] = s[k - 1]) <=> i = k - 1
              /\ (k < L /\ s[i] = s[k + 1]) <=> i = k + 1
              /\ s[i] = s[1] <=> i = 1
          <5>1. /\ k > 1 => k - 1 \in 1..L
                /\ k < L => k + 1 \in 1..L
                /\ 1 \in 1..L
                /\ i = k - 1 => k > 1
                /\ i = k + 1 => k < L
            BY <2>1
          <5> QED
            BY <1>6, <5>1
        <4>3. /\ n[s[i]].next = IF i = k - 1 THEN replacement
                                ELSE IF i = L THEN NULL ELSE s[i + 1]
              /\ n[s[i]].prev = IF i = k + 1 THEN replacement
                                ELSE IF i = 1
                                THEN IF k = L THEN replacement ELSE s[L]
                                ELSE s[i - 1]
          <5>1. /\ m[s[i]].next = IF i = L THEN NULL ELSE s[i + 1]
                /\ m[s[i]].prev = IF i = 1 THEN s[L] ELSE s[i - 1]
            BY <1>6
          <5> QED
            BY <1>8, <4>1, <4>2, <5>1
        <4>4. i # L => t[i + 1] = IF i = k - 1 THEN replacement ELSE s[i + 1]
          <5>1. i # L => i + 1 \in 1..L
            BY <2>1
          <5>2. i = k - 1 <=> i + 1 = k
            BY <2>1
          <5> QED
            BY <1>10, <5>1, <5>2
        <4>5. i # 1 => t[i - 1] = IF i = k + 1 THEN replacement ELSE s[i - 1]
          <5>1. i # 1 => i - 1 \in 1..L
            BY <2>1
          <5>2. i = k + 1 <=> i - 1 = k
            BY <2>1
          <5> QED
            BY <1>10, <5>1, <5>2
        <4>6. t[L] = IF k = L THEN replacement ELSE s[L]
          BY <1>10, <2>1
        <4>7. (i = k - 1 => i # L) /\ (i = k + 1 => i # 1)
          BY <2>1
        <4> QED
          BY <4>1, <4>3, <4>4, <4>5, <4>6, <4>7
      <3> QED
        BY <3>1, <3>2
    <2>4. n[p].child = t[1]
      <3>1. n[p].child = IF k = 1 THEN replacement ELSE s[1]
        BY <1>2, <1>6, <1>8, <2>1
      <3> QED
        BY <1>10, <2>1, <3>1
    <2>5. n[p].child = IF L = 0 THEN NULL ELSE t[1]
      BY <2>1, <2>4
    <2>6. L = Len(t)
      BY <1>10
    <2>7. \A i \in 1..L : /\ n[t[i]].next = IF i = L THEN NULL ELSE t[i + 1]
                          /\ n[t[i]].prev = IF i = 1 THEN t[L] ELSE t[i - 1]
      BY <2>3
    <2> QED
      BY <1>8, <2>2, <2>5, <2>6, <2>7, MakesList
  <1>14. IsLoose(n, s[k])
    <2>1. s[k] \in DOMAIN m
      BY <1>5, <1>6
    <2> QED
      BY <1>8, <2>1 DEF IsLoose
  <1>15. Chained(n, [kids EXCEPT ![p] = t]) /\ StayLoose(m, n, {replacement})
    <2>1. PICK X \in SUBSET DOMAIN m : X = {replacement}
      OBVIOUS
    <2>2. PICK S : S = ToSet(kids[p]) \cup X /\ S = ToSet(s) \cup {replacement}
      BY <1>1, <2>1
    <2>3. OnlyLinks(m, n, S, p) /\ ToSet(t) \subseteq S
      BY <1>11, <1>12, <2>2
    <2>4. \A x \in X : IsLoose(m, x)
      BY <2>1
    <2>5. Chained(n, [kids EXCEPT ![p] = t]) /\ StayLoose(m, n, X)
      BY <1>13, <2>2, <2>3, <2>4, Rechained
    <2> QED
      BY <2>1, <2>5
  <1> QED
    BY <1>1, <1>3, <1>9, <1>14, <1>15

=============================================================================
