------------------------------ MODULE CJSONList ------------------------------
(***************************************************************************)
(* The sibling lists of cJSON (src/c/cJSON.c): the items of an array or of *)
(* an object are chained by next, chained back by prev, and the prev of    *)
(* the first item is the last one, so that an append needs no walk.        *)
(*                                                                         *)
(* A memory m maps an address to the item stored there; only the fields    *)
(* next, prev and child matter here.  Every operator below is one function *)
(* of the C file, as the memory it leaves behind.                          *)
(***************************************************************************)
EXTENDS Integers, Sequences, FiniteSets

NULL == 0

(* The items met by following next from head, at most one per address and  *)
(* one more, so that a chain that closes on itself shows as too long.      *)
Chain(m, head) ==
    LET at[k \in 0 .. Cardinality(DOMAIN m)] ==
            IF k = 0 THEN head
            ELSE LET before == at[k - 1]
                 IN  IF before \in DOMAIN m THEN m[before].next ELSE NULL
        met == {k \in DOMAIN at : at[k] # NULL}
    IN  [k \in 1 .. Cardinality(met) |-> at[k - 1]]

Children(m, p) == Chain(m, m[p].child)

(* What every operation below relies on and leaves behind: the list of p   *)
(* is s, without repetition, linked both ways, the first item's prev is    *)
(* the last item and the last item's next is NULL.                         *)
IsList(m, p, s) ==
    /\ \A i, j \in DOMAIN s : i # j => s[i] # s[j]
    /\ \A i \in DOMAIN s : s[i] \in DOMAIN m
    /\ m[p].child = IF s = <<>> THEN NULL ELSE s[1]
    /\ \A i \in DOMAIN s :
          /\ m[s[i]].next = IF i = Len(s) THEN NULL ELSE s[i + 1]
          /\ m[s[i]].prev = IF i = 1 THEN s[Len(s)] ELSE s[i - 1]

(* An item that is in no list. *)
IsLoose(m, i) == m[i].next = NULL /\ m[i].prev = NULL

get_array_item(m, array, index) ==
    LET s == Children(m, array)
    IN  IF index < Len(s) THEN s[index + 1] ELSE NULL

suffix_object(m, prev, item) ==
    [m EXCEPT ![prev].next = item, ![item].prev = prev]

add_item_to_array(m, array, item) ==
    LET child == m[array].child
        tail  == m[child].prev
    IN  IF child = NULL
        THEN [m EXCEPT ![array].child = item,
                       ![item].prev = item, ![item].next = NULL]
        ELSE IF tail = NULL THEN m
        ELSE [suffix_object(m, tail, item) EXCEPT ![child].prev = item]

cJSON_DetachItemViaPointer(m, parent, item) ==
    LET next  == m[item].next
        prev  == m[item].prev
        first == item = m[parent].child
        m1 == IF first THEN m ELSE [m EXCEPT ![prev].next = next]
        m2 == IF next = NULL THEN m1 ELSE [m1 EXCEPT ![next].prev = prev]
        m3 == IF first THEN [m2 EXCEPT ![parent].child = next]
              ELSE IF next = NULL
              THEN [m2 EXCEPT ![m2[parent].child].prev = prev]
              ELSE m2
    IN  [m3 EXCEPT ![item].prev = NULL, ![item].next = NULL]

\* Mutant: the item before is not linked to the new one.
InsertForgetsPrev(m, array, after_inserted, newitem) ==
    LET m1 == [m EXCEPT ![newitem].next = after_inserted,
                        ![newitem].prev = m[after_inserted].prev,
                        ![after_inserted].prev = newitem]
    IN  IF after_inserted = m[array].child
        THEN [m1 EXCEPT ![array].child = newitem] ELSE m1

(* The linking of newitem before after_inserted, an item of the array. *)
InsertBefore(m, array, after_inserted, newitem) ==
    LET prev == m[after_inserted].prev
        m1 == [m EXCEPT ![newitem].next = after_inserted,
                        ![newitem].prev = prev,
                        ![after_inserted].prev = newitem]
    IN  IF after_inserted = m[array].child
        THEN [m1 EXCEPT ![array].child = newitem]
        ELSE [m1 EXCEPT ![prev].next = newitem]

\* Mutant: the items after the replaced one are lost.
ReplaceCutsList(m, parent, item, replacement) ==
    LET prev == m[item].prev
        m1 == IF m[parent].child = item
              THEN [m EXCEPT ![parent].child = replacement,
                             ![replacement].prev = replacement]
              ELSE [m EXCEPT ![prev].next = replacement, ![replacement].prev = prev,
                             ![m[parent].child].prev = replacement]
    IN  [m1 EXCEPT ![item].next = NULL, ![item].prev = NULL]

(* The linking of cJSON_ReplaceItemViaPointer, up to the deletion of item. *)
ReplaceLinks(m, parent, item, replacement) ==
    LET next == m[item].next
        prev == m[item].prev
        head == m[parent].child
        m1 == [m EXCEPT ![replacement].next = next, ![replacement].prev = prev]
        m2 == IF next = NULL THEN m1 ELSE [m1 EXCEPT ![next].prev = replacement]
        m3 == IF head # item THEN m2
              ELSE LET alone == m2[head].prev = head
                       m30 == IF alone
                              THEN [m2 EXCEPT ![replacement].prev = replacement]
                              ELSE m2
                   IN  [m30 EXCEPT ![parent].child = replacement]
        m4 == IF head = item THEN m3
              ELSE LET m40 == IF prev = NULL THEN m3
                              ELSE [m3 EXCEPT ![prev].next = replacement]
                   IN  IF next = NULL
                       THEN [m40 EXCEPT ![head].prev = replacement]
                       ELSE m40
    IN  [m4 EXCEPT ![item].next = NULL, ![item].prev = NULL]
=============================================================================
