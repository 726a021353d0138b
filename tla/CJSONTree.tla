------------------------------ MODULE CJSONTree ------------------------------
(***************************************************************************)
(* The cJSON item store (src/c/cJSON.c), as the modules use it through     *)
(* ngx_cjson.zig: items are created, added to arrays and objects, moved,   *)
(* replaced, duplicated and deleted, and every allocation may fail.        *)
(*                                                                         *)
(* A function of the C file is an operator on a heap h: the items (mem),   *)
(* the live string allocations with what they spell (strs), how many       *)
(* allocations will still succeed during this call (quota), whether freed  *)
(* memory was freed again or read (bad), and the value returned (ret).     *)
(* Values are left out: of a string the model keeps who owns it, and for a *)
(* key what it spells.                                                     *)
(***************************************************************************)
EXTENDS CJSONList, SequencesExt

CONSTANTS
    MaxItems,     \* bound: items alive at once
    MaxStrs,      \* bound: strings allocated at once
    MaxQuota,     \* bound: allocations granted to one call
    MaxCount,     \* bound: length of an array made by cJSON_CreateIntArray
    Key,          \* the names used as keys
    Lower(_),     \* tolower over a name: names with one value match without case
    ScalarTypes,  \* the types without text and children that are created
    TextTypes,    \* "String" and "Raw", those that are created
    Containers,   \* "Array" and "Object", those that are created
    MaxReferences \* bound: references alive at once

VARIABLES
    mem,          \* the items
    strs,         \* the strings
    held,         \* the items the caller owns: they are in no list
    bad,          \* freed memory was used
    kids          \* auxiliary: the children of every item, read off mem

vars == <<mem, strs, held, bad, kids>>

Item == 1 .. MaxItems
Str == 1 .. MaxStrs
Static == -1                  \* a pointer to memory cJSON does not own
Types == {"False", "True", "NULL", "Number", "String", "Raw", "Array", "Object"}

Free == "free"                \* a string address without a string
Blank == [next |-> NULL, prev |-> NULL, child |-> NULL, type |-> "Invalid",
          isReference |-> FALSE, stringIsConst |-> FALSE,
          valuestring |-> NULL, string |-> NULL, name |-> ""]
Gone == [Blank EXCEPT !.type = "gone"]  \* an item address without an item

Live(m) == {i \in Item : m[i] # Gone}
(* The live part of a memory: what the operators of CJSONList take. *)
Items(m) == [i \in Live(m) |-> m[i]]
(* A memory again, from the live part changed by an operator of CJSONList. *)
Stored(h, m) == [h EXCEPT !.mem = [i \in Item |-> IF i \in DOMAIN m THEN m[i]
                                                  ELSE Gone]]
Kids(m, p) == Chain(Items(m), m[p].child)
OwnKids(m) == [i \in Live(m) |-> IF m[i].isReference THEN <<>> ELSE Kids(m, i)]
-----------------------------------------------------------------------------
(* Allocation.                                                             *)

Return(h, r) == [h EXCEPT !.ret = r]

cJSON_New_Item(h, type) ==
    LET unused == Item \ Live(h.mem)
    IN  IF h.quota = 0 \/ unused = {} THEN Return(h, NULL)
        ELSE [h EXCEPT !.mem[Min(unused)] = [Blank EXCEPT !.type = type],
                       !.quota = @ - 1, !.ret = Min(unused)]

cJSON_strdup(h, text) ==
    LET unused == {s \in Str : h.strs[s] = Free}
    IN  IF h.quota = 0 \/ unused = {} THEN Return(h, NULL)
        ELSE [h EXCEPT !.strs[Min(unused)] = text,
                       !.quota = @ - 1, !.ret = Min(unused)]

cJSON_free(h, s) ==
    IF s \notin Str \/ h.strs[s] = Free THEN [h EXCEPT !.bad = TRUE]
    ELSE [h EXCEPT !.strs[s] = Free]

FreeUnless(h, kept, s) == IF kept \/ s = NULL THEN h ELSE cJSON_free(h, s)

(* The item, what it owns, and the items after it in its list. *)
RECURSIVE cJSON_Delete(_, _)
cJSON_Delete(h, item) ==
    IF item = NULL THEN h
    ELSE IF h.mem[item] = Gone THEN [h EXCEPT !.bad = TRUE]
    ELSE LET it == h.mem[item]
             h1 == IF it.isReference THEN h ELSE cJSON_Delete(h, it.child)
             h2 == FreeUnless(h1, it.isReference, it.valuestring)
             h3 == FreeUnless(h2, it.stringIsConst, it.string)
         IN  cJSON_Delete([h3 EXCEPT !.mem[item] = Gone], it.next)
-----------------------------------------------------------------------------
(* Creation.                                                               *)

CreateText(h, type) ==
    LET h1 == cJSON_New_Item(h, type)
        h2 == cJSON_strdup(h1, "text")
    IN  IF h1.ret = NULL THEN h1
        ELSE IF h2.ret = NULL THEN Return(cJSON_Delete(h2, h1.ret), NULL)
        ELSE [h2 EXCEPT !.mem[h1.ret].valuestring = h2.ret, !.ret = h1.ret]

cJSON_CreateStringReference(h) ==
    LET h1 == cJSON_New_Item(h, "String")
    IN  IF h1.ret = NULL THEN h1
        ELSE [h1 EXCEPT !.mem[h1.ret].isReference = TRUE,
                        !.mem[h1.ret].valuestring = Static]

CreateContainerReference(h, type, child) ==
    LET h1 == cJSON_New_Item(h, type)
    IN  IF h1.ret = NULL THEN h1
        ELSE [h1 EXCEPT !.mem[h1.ret].isReference = TRUE,
                        !.mem[h1.ret].child = child]

(* An item of the type, whichever cJSON_Create function makes it. *)
Create(h, type) ==
    IF type \in {"String", "Raw"} THEN CreateText(h, type)
    ELSE cJSON_New_Item(h, type)

(* The loop shared by cJSON_CreateIntArray, FloatArray, DoubleArray and    *)
(* StringArray: a is the array, n the number of items still to make, p the *)
(* last item linked.                                                       *)
RECURSIVE FillArray(_, _, _, _, _)
FillArray(h, a, type, n, p) ==
    IF n = 0
    THEN Return(IF p = NULL THEN h ELSE [h EXCEPT !.mem[h.mem[a].child].prev = p], a)
    ELSE LET h1 == Create(h, type)
             i  == h1.ret
             h2 == IF p = NULL THEN [h1 EXCEPT !.mem[a].child = i]
                   ELSE [h1 EXCEPT !.mem = suffix_object(@, p, i)]
         IN  IF i = NULL THEN Return(cJSON_Delete(h1, a), NULL)
             ELSE FillArray(h2, a, type, n - 1, i)

CreateArrayOf(h, type, count) ==
    LET h1 == cJSON_New_Item(h, "Array")
    IN  IF h1.ret = NULL THEN h1 ELSE FillArray(h1, h1.ret, type, count, NULL)

create_reference(h, item) ==
    LET h1 == cJSON_New_Item(h, "Invalid")
    IN  IF h1.ret = NULL THEN h1
        ELSE [h1 EXCEPT !.mem[h1.ret] =
                 [h.mem[item] EXCEPT !.string = NULL, !.name = "",
                     !.isReference = TRUE, !.next = NULL, !.prev = NULL]]

(* The copy of item, with its children one after the other if recurse.     *)
RECURSIVE cJSON_Duplicate(_, _, _), CopyChildren(_, _, _, _)
cJSON_Duplicate(h, item, recurse) ==
    LET it  == h.mem[item]
        h0  == cJSON_New_Item(h, it.type)
        new == h0.ret
        h1  == [h0 EXCEPT !.mem[new].stringIsConst = it.stringIsConst]
        d2  == cJSON_strdup(h1, "text")
        h2  == IF it.valuestring = NULL THEN h1
               ELSE [d2 EXCEPT !.mem[new].valuestring = d2.ret]
        d3  == IF it.stringIsConst THEN Return(h2, it.string)
               ELSE cJSON_strdup(h2, it.name)
        h3  == IF it.string = NULL THEN h2
               ELSE [d3 EXCEPT !.mem[new].string = d3.ret, !.mem[new].name = it.name]
        fail(x) == Return(cJSON_Delete(x, new), NULL)
    IN  IF new = NULL THEN h0
        ELSE IF it.valuestring # NULL /\ d2.ret = NULL THEN fail(h2)
        ELSE IF it.string # NULL /\ d3.ret = NULL THEN fail(h3)
        ELSE IF recurse THEN CopyChildren(h3, new, Kids(h.mem, item), NULL)
        ELSE Return(h3, new)

\* Mutant: a copy that cannot be completed is freed without its children.
CopyForgetsChildren(h, new, todo, last) ==
    IF todo = <<>>
    THEN Return(IF last = NULL THEN h ELSE [h EXCEPT !.mem[h.mem[new].child].prev = last], new)
    ELSE LET h1 == cJSON_Duplicate(h, Head(todo), TRUE)
             copy == h1.ret
             h2 == IF last = NULL THEN [h1 EXCEPT !.mem[new].child = copy]
                   ELSE [h1 EXCEPT !.mem = suffix_object(@, last, copy)]
         IN  IF copy = NULL THEN Return([h1 EXCEPT !.mem[new] = Gone], NULL)
             ELSE CopyChildren(h2, new, Tail(todo), copy)

CopyChildren(h, new, todo, last) ==
    IF todo = <<>>
    THEN Return(IF last = NULL THEN h ELSE [h EXCEPT !.mem[h.mem[new].child].prev = last], new)
    ELSE LET h1 == cJSON_Duplicate(h, Head(todo), TRUE)
             copy == h1.ret
             h2 == IF last = NULL THEN [h1 EXCEPT !.mem[new].child = copy]
                   ELSE [h1 EXCEPT !.mem = suffix_object(@, last, copy)]
         IN  IF copy = NULL THEN Return(cJSON_Delete(h1, new), NULL)
             ELSE CopyChildren(h2, new, Tail(todo), copy)
-----------------------------------------------------------------------------
(* Lookup.                                                                 *)

(* The first child whose key is name; a child without a key ends the       *)
(* search when case matters and is passed over when it does not.           *)
get_object_item(m, object, name, case_sensitive) ==
    LET s == Kids(m, object)
        Same(i) == m[i].string # NULL /\ IF case_sensitive THEN m[i].name = name
                                         ELSE Lower(m[i].name) = Lower(name)
        Stops(i) == Same(i) \/ (case_sensitive /\ m[i].string = NULL)
        stops == {k \in DOMAIN s : Stops(s[k])}
    IN  IF stops = {} \/ m[s[Min(stops)]].string = NULL THEN NULL
        ELSE s[Min(stops)]
-----------------------------------------------------------------------------
(* Adding.                                                                 *)

AddToArray(h, array, item) ==
    IF item = NULL \/ array = item THEN Return(h, FALSE)
    ELSE Return(Stored(h, add_item_to_array(Items(h.mem), array, item)), TRUE)

\* Mutant: the key the item had is not freed.
AddLeaksOldKey(h, object, name, item, constant_key) ==
    LET h1 == IF constant_key THEN Return(h, Static) ELSE cJSON_strdup(h, name)
        h3 == [h1 EXCEPT !.mem[item].string = h1.ret, !.mem[item].name = name,
                         !.mem[item].stringIsConst = constant_key]
    IN  IF object = item THEN Return(h, FALSE)
        ELSE IF h1.ret = NULL THEN Return(h1, FALSE)
        ELSE AddToArray(h3, object, item)

add_item_to_object(h, object, name, item, constant_key) ==
    LET h1 == IF constant_key THEN Return(h, Static) ELSE cJSON_strdup(h, name)
        h2 == FreeUnless(h1, h.mem[item].stringIsConst, h.mem[item].string)
        h3 == [h2 EXCEPT !.mem[item].string = h1.ret, !.mem[item].name = name,
                         !.mem[item].stringIsConst = constant_key]
    IN  IF object = item THEN Return(h, FALSE)
        ELSE IF h1.ret = NULL THEN Return(h1, FALSE)
        ELSE AddToArray(h3, object, item)

cJSON_AddItemReferenceToArray(h, array, item) ==
    LET h1 == create_reference(h, item) IN AddToArray(h1, array, h1.ret)

cJSON_AddItemReferenceToObject(h, object, name, item) ==
    LET h1 == create_reference(h, item)
    IN  IF h1.ret = NULL THEN Return(h1, FALSE)
        ELSE add_item_to_object(h1, object, name, h1.ret, FALSE)

(* cJSON_AddNullToObject ... cJSON_AddArrayToObject: one shape. *)
AddNewToObject(h, object, name, type) ==
    LET h1 == Create(h, type)
        h2 == add_item_to_object(h1, object, name, h1.ret, FALSE)
    IN  IF h1.ret = NULL THEN h1
        ELSE IF h2.ret THEN Return(h2, h1.ret)
        ELSE Return(cJSON_Delete(h2, h1.ret), NULL)
-----------------------------------------------------------------------------
(* Moving and replacing.                                                   *)

Detach(h, parent, item) ==
    IF item = NULL THEN Return(h, NULL)
    ELSE Return(Stored(h, cJSON_DetachItemViaPointer(Items(h.mem), parent, item)), item)

cJSON_InsertItemInArray(h, array, which, newitem) ==
    LET after == get_array_item(Items(h.mem), array, which)
    IN  IF after = NULL THEN AddToArray(h, array, newitem)
        ELSE IF after # h.mem[array].child /\ h.mem[after].prev = NULL
        THEN Return(h, FALSE)
        ELSE Return(Stored(h, InsertBefore(Items(h.mem), array, after, newitem)), TRUE)

cJSON_ReplaceItemViaPointer(h, parent, item, replacement) ==
    IF h.mem[parent].child = NULL \/ item = NULL THEN Return(h, FALSE)
    ELSE IF replacement = item THEN Return(h, TRUE)
    ELSE Return(cJSON_Delete(Stored(h, ReplaceLinks(Items(h.mem), parent, item,
                                                    replacement)), item), TRUE)

replace_item_in_object(h, object, name, replacement, case_sensitive) ==
    LET r  == h.mem[replacement]
        h1 == FreeUnless(h, r.stringIsConst, r.string)
        h2 == cJSON_strdup(h1, name)
        h3 == [h2 EXCEPT !.mem[replacement].string = h2.ret,
                         !.mem[replacement].name = IF h2.ret = NULL THEN "" ELSE name]
        h4 == [h3 EXCEPT !.mem[replacement].stringIsConst = FALSE]
    IN  IF h2.ret = NULL THEN Return(h3, FALSE)
        ELSE cJSON_ReplaceItemViaPointer(h4, object,
                 get_object_item(h4.mem, object, name, case_sensitive), replacement)

(* A text that fits is copied in place; a longer one takes a new string.   *)
cJSON_SetValuestring(h, object, fits) ==
    LET o  == h.mem[object]
        h1 == cJSON_strdup(h, "text")
        h2 == cJSON_free(h1, o.valuestring)
    IN  IF o.type # "String" \/ o.isReference THEN Return(h, NULL)
        ELSE IF fits \/ h1.ret = NULL THEN h
        ELSE [h2 EXCEPT !.mem[object].valuestring = h1.ret]
-----------------------------------------------------------------------------
(* The caller's side.  cJSON does not check what its callers are trusted   *)
(* with: that no item comes to contain itself, and that what a reference   *)
(* points at outlives the reference.                                       *)

Reach(m, i) ==
    LET grow[k \in 0 .. MaxItems] ==
            IF k = 0 THEN {i}
            ELSE LET g == grow[k - 1]
                 IN  g \cup UNION {ToSet(Kids(m, j)) : j \in g \cap Live(m)}
    IN  grow[MaxItems]

Acyclic(m) ==
    \A i \in Live(m) : \A c \in ToSet(Kids(m, i)) : i \notin Reach(m, c)

ReferencesIntact(h) ==
    \A i \in Live(h.mem) : h.mem[i].isReference =>
        /\ h.mem[i].child \in Live(h.mem) \cup {NULL}
        /\ h.mem[i].valuestring \in Str => h.strs[h.mem[i].valuestring] # Free

Heap(quota) == [mem |-> mem, strs |-> strs, quota |-> quota, bad |-> FALSE,
                ret |-> NULL]

Quotas == 0 .. MaxQuota
Parents == {p \in Live(mem) : mem[p].type \in Containers /\ ~mem[p].isReference}

WithinBound(h) ==
    Cardinality({i \in Live(h.mem) : h.mem[i].isReference}) <= MaxReferences

(* The call returns h and leaves the caller owning own. *)
Call(h, own) ==
    /\ WithinBound(h)
    /\ Acyclic(h.mem)
    /\ ReferencesIntact(h)
    /\ mem' = h.mem
    /\ strs' = h.strs
    /\ held' = own
    /\ bad' = (bad \/ h.bad)
    /\ kids' = OwnKids(h.mem)

Gained(h) == IF h.ret = NULL THEN held ELSE held \cup {h.ret}
Given(h, item) == IF h.ret THEN held \ {item} ELSE held
-----------------------------------------------------------------------------
Init ==
    /\ mem = [i \in Item |-> Gone]
    /\ strs = [s \in Str |-> Free]
    /\ held = {}
    /\ bad = FALSE
    /\ kids = <<>>

CreateItem(type, q) == LET h == Create(Heap(q), type) IN Call(h, Gained(h))

CreateStringReference(q) ==
    /\ "String" \in TextTypes
    /\ LET h == cJSON_CreateStringReference(Heap(q)) IN Call(h, Gained(h))

(* cJSON_CreateArrayReference and ObjectReference over the list of p. *)
CreateReferenceTo(p, q) ==
    /\ mem[p].child # NULL
    /\ LET h == CreateContainerReference(Heap(q), mem[p].type, mem[p].child)
       IN  Call(h, Gained(h))

CreateArray(type, count, q) ==
    LET h == CreateArrayOf(Heap(q), type, count) IN Call(h, Gained(h))

Duplicate(item, recurse, q) ==
    LET h == cJSON_Duplicate(Heap(q), item, recurse) IN Call(h, Gained(h))

AddItemToArray(p, item) ==
    LET h == AddToArray(Heap(0), p, item) IN Call(h, Given(h, item))

AddItemToObject(p, name, item, const, q) ==
    LET h == add_item_to_object(Heap(q), p, name, item, const)
    IN  Call(h, Given(h, item))

AddItemReferenceToArray(p, item, q) ==
    Call(cJSON_AddItemReferenceToArray(Heap(q), p, item), held)

AddItemReferenceToObject(p, name, item, q) ==
    Call(cJSON_AddItemReferenceToObject(Heap(q), p, name, item), held)

AddToObject(p, name, type, q) ==
    Call(AddNewToObject(Heap(q), p, name, type), held)

InsertItemInArray(p, which, item) ==
    LET h == cJSON_InsertItemInArray(Heap(0), p, which, item)
    IN  Call(h, Given(h, item))

DetachItemViaPointer(p, item) ==
    LET h == Detach(Heap(0), p, item) IN Call(h, Gained(h))

DetachItemFromArray(p, which) ==
    DetachItemViaPointer(p, get_array_item(Items(mem), p, which))

DetachItemFromObject(p, name, case_sensitive) ==
    DetachItemViaPointer(p, get_object_item(mem, p, name, case_sensitive))

DeleteDetached(p, item) ==
    LET h == Detach(Heap(0), p, item) IN Call(cJSON_Delete(h, h.ret), held)

DeleteItemFromArray(p, which) ==
    DeleteDetached(p, get_array_item(Items(mem), p, which))

DeleteItemFromObject(p, name, case_sensitive) ==
    DeleteDetached(p, get_object_item(mem, p, name, case_sensitive))

ReplaceItemViaPointer(p, item, replacement) ==
    LET h == cJSON_ReplaceItemViaPointer(Heap(0), p, item, replacement)
    IN  Call(h, Given(h, replacement))

ReplaceItemInArray(p, which, replacement) ==
    ReplaceItemViaPointer(p, get_array_item(Items(mem), p, which), replacement)

ReplaceItemInObject(p, name, replacement, case_sensitive, q) ==
    LET h == replace_item_in_object(Heap(q), p, name, replacement, case_sensitive)
    IN  Call(h, Given(h, replacement))

SetValuestring(item, fits, q) ==
    /\ mem[item].valuestring # NULL
    /\ Call(cJSON_SetValuestring(Heap(q), item, fits), held)

Delete(item) == Call(cJSON_Delete(Heap(0), item), held \ {item})

Next ==
    \/ \E q \in Quotas :
          \/ \E t \in ScalarTypes \cup TextTypes \cup Containers : CreateItem(t, q)
          \/ CreateStringReference(q)
          \/ \E t \in ScalarTypes \cup (TextTypes \ {"Raw"}), n \in 0 .. MaxCount : CreateArray(t, n, q)
          \/ \E i \in Live(mem), r \in BOOLEAN : Duplicate(i, r, q)
          \/ \E i \in Live(mem), fits \in BOOLEAN : SetValuestring(i, fits, q)
    \/ \E p \in Parents, q \in Quotas :
          \/ CreateReferenceTo(p, q)
          \/ \E i \in Live(mem) : AddItemReferenceToArray(p, i, q)
          \/ \E k \in Key, i \in Live(mem) : AddItemReferenceToObject(p, k, i, q)
          \/ \E k \in Key, i \in held, const \in BOOLEAN : AddItemToObject(p, k, i, const, q)
          \/ \E k \in Key, t \in ScalarTypes \cup TextTypes \cup Containers :
                AddToObject(p, k, t, q)
          \/ \E k \in Key, i \in held, cs \in BOOLEAN : ReplaceItemInObject(p, k, i, cs, q)
    \/ \E p \in Parents :
          \/ \E i \in held : AddItemToArray(p, i)
          \/ \E i \in held, w \in 0 .. MaxItems : InsertItemInArray(p, w, i)
          \/ \E i \in ToSet(kids[p]) : DetachItemViaPointer(p, i)
          \/ \E w \in 0 .. MaxItems : DetachItemFromArray(p, w) \/ DeleteItemFromArray(p, w)
          \/ \E k \in Key, cs \in BOOLEAN :
                DetachItemFromObject(p, k, cs) \/ DeleteItemFromObject(p, k, cs)
          \/ \E i \in ToSet(kids[p]), r \in held : ReplaceItemViaPointer(p, i, r)
          \/ \E w \in 0 .. MaxItems, r \in held : ReplaceItemInArray(p, w, r)
    \/ \E i \in held : Delete(i)

Spec == Init /\ [][Next]_vars
-----------------------------------------------------------------------------
TypeOK ==
    /\ \A i \in Live(mem) : mem[i].type \in Types
    /\ DOMAIN mem = Item
    /\ DOMAIN strs = Str
    /\ held \subseteq Item
    /\ bad \in BOOLEAN

(* Whatever calls were made, the list of every array and object is whole:  *)
(* next and prev agree, the first item's prev is the last item, nothing    *)
(* occurs twice; an item the caller holds is linked to nothing, so that it *)
(* can be added, or deleted without taking strangers along.                *)
ListsWhole ==
    /\ \A p \in Live(mem) : ~mem[p].isReference =>
          IsList(Items(mem), p, kids[p])
    /\ \A i \in held : i \in Live(mem) /\ IsLoose(Items(mem), i)

OwnersOf(i) == {p \in Live(mem) : Contains(kids[p], i)}

(* Every item is owned once: by the caller or by one list.  The exception  *)
(* the code has: cJSON_AddItemReferenceToObject drops the reference it has *)
(* made when there is no memory for the key.                               *)
OwnedOnce ==
    \A i \in Live(mem) :
        LET owners == Cardinality(OwnersOf(i)) + (IF i \in held THEN 1 ELSE 0)
        IN  owners = 1 \/ (owners = 0 /\ mem[i].isReference /\ mem[i].string = NULL)

(* Every string has one item that will free it, and no item will free a    *)
(* string that is gone: through failed calls, copies, renamings and the    *)
(* sharing between a reference and its original.                           *)
StringsOwnedOnce ==
    LET freedBy(s) ==
            {<<i, "value">> : i \in {j \in Live(mem) :
                 ~mem[j].isReference /\ mem[j].valuestring = s}} \cup
            {<<i, "key">> : i \in {j \in Live(mem) :
                 ~mem[j].stringIsConst /\ mem[j].string = s}}
    IN  \A s \in Str : Cardinality(freedBy(s)) = IF strs[s] = Free THEN 0 ELSE 1

(* Nothing freed is freed again or read. *)
NoUseAfterFree == ~bad

RECURSIVE Shape(_, _)
Shape(m, i) == [type |-> m[i].type, name |-> m[i].name,
                text |-> m[i].valuestring # NULL,
                kids |-> [k \in DOMAIN Kids(m, i) |-> Shape(m, Kids(m, i)[k])]]

\* The items of new are a copy of i and all below it.
IsDeepCopy(i, h, new) ==
    /\ Shape(h.mem, h.ret) = Shape(mem, i)
    /\ new \cap Live(mem) = {}
    /\ IsLoose(Items(h.mem), h.ret)
    /\ \A n \in new :
          /\ ~h.mem[n].isReference
          /\ IsList(Items(h.mem), n, Kids(h.mem, n))
          /\ h.mem[n].valuestring \in Str => strs[h.mem[n].valuestring] = Free
          /\ h.mem[n].string \in Str => strs[h.mem[n].string] = Free

(* A copy has the shape of the original, is loose, well linked and whole   *)
(* of its own: only items and strings that were free, no references.       *)
DuplicateIsDeep ==
    \A i \in Live(mem) : \A h \in {cJSON_Duplicate(Heap(MaxItems + MaxStrs), i, TRUE)} :
        h.ret # NULL => IsDeepCopy(i, h, Reach(h.mem, h.ret))

(* A call that runs out of memory half-way gives back everything it had    *)
(* allocated and leaves the caller's items as they were.                   *)
FailureLeavesNoTrace ==
    LET Clean(h) == h.ret \in {NULL} => h.mem = mem /\ h.strs = strs /\ ~h.bad
    IN  \A q \in Quotas :
          /\ \A i \in Live(mem) : Clean(cJSON_Duplicate(Heap(q), i, TRUE))
          /\ \A t \in ScalarTypes \cup TextTypes : Clean(CreateArrayOf(Heap(q), t, MaxCount))
          /\ \A p \in Parents, k \in Key, t \in TextTypes \cup {"Object"} :
                Clean(AddNewToObject(Heap(q), p, k, t))

(* The store implements the forest: the children of an item are the items  *)
(* its list links, a reference has none of its own.                        *)
Forest == INSTANCE CJSONForest

ImplementsForest == Forest!Spec
=============================================================================
