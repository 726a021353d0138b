---------------------------- MODULE CJSONPrinter ----------------------------
(***************************************************************************)
(* The cJSON printer (src/c/cJSON.c) and the loop of CJSON.encode over it  *)
(* (src/ngx/ngx_cjson.zig): a value is rendered into a buffer that grows,  *)
(* or may not, while sizes are computed before the bytes are known.        *)
(*                                                                         *)
(* A printbuffer p is the C structure; cells are the bytes of its buffer,  *)
(* Unset until written.  live and quota count allocations as in the        *)
(* reader, wild tells of an access outside the buffer, of a byte read      *)
(* before it is written, or of a buffer freed twice.  The values and the   *)
(* grammar are those of CJSONReader; a string has its escapes, see         *)
(* CJSONStrings.                                                           *)
(***************************************************************************)
EXTENDS CJSONReader

CONSTANTS
    Leaves,        \* the scalars a caller puts into a tree
    Keys,          \* the names it gives to members, <<>> for none
    MaxItems,      \* bound: items of a tree
    Quotas,        \* bound: allocations that succeed
    IntMax,        \* INT_MAX
    DefaultSize,   \* default_buffer_size of print
    Prebuffers,    \* bound: the sizes given to PrintBuffered, at least 1
    EncodeSize,    \* CJSON_BUFFER_LENTH
    MaxEncodeSize  \* MAX_ENCODE_SIZE

VARIABLES built, pc, size, pool, outcome

vars == <<built, pc, size, pool, outcome>>

Unset == "Unset"
Blank(n) == [i \in 1 .. n |-> Unset]
NewBuffer(n, format, reallocs, noalloc, quota) ==
    [cells |-> Blank(n), length |-> n, offset |-> 0, depth |-> 0, gone |-> FALSE,
     noalloc |-> noalloc, format |-> format, reallocs |-> reallocs,
     quota |-> quota, live |-> 0, ok |-> TRUE, wild |-> FALSE]
False(p) == [p EXCEPT !.ok = FALSE]
Deallocate(p) == [p EXCEPT !.gone = TRUE, !.live = @ - 1, !.length = 0, !.cells = <<>>,
                           !.wild = @ \/ p.gone]
-----------------------------------------------------------------------------
(* The buffer.                                                             *)

(* A buffer of n bytes in place of the old one, which is freed: all of it  *)
(* is kept by a realloc, else offset + 1 bytes are copied.                 *)
Grow(p, n) ==
    LET kept == IF p.reallocs THEN p.length ELSE p.offset + 1
    IN  IF p.quota = 0 THEN False(Deallocate(p))
        ELSE [p EXCEPT !.cells = SubSeq(p.cells, 1, kept) \o Blank(n - kept),
                       !.length = n, !.quota = @ - 1]

(* Room for n bytes more, the end included. *)
ensure(p, n) ==
    LET needed == n + p.offset + 1
    IN  IF ~p.ok \/ p.gone THEN False(p)
        ELSE IF p.length > 0 /\ p.offset >= p.length THEN False(p)
        ELSE IF n > IntMax THEN False(p)
        ELSE IF needed <= p.length THEN p
        ELSE IF p.noalloc THEN False(p)
        ELSE IF needed > IntMax \div 2
        THEN IF needed <= IntMax THEN Grow(p, IntMax) ELSE False(p)
        ELSE Grow(p, 2 * needed)

(* Bytes from the offset on; the offset moves by step.                     *)
PutAt(p, bytes, step) ==
    LET last == p.offset + Len(bytes)
    IN  IF ~p.ok THEN p
        ELSE IF last > p.length THEN [p EXCEPT !.wild = TRUE]
        ELSE [p EXCEPT !.cells = SubSeq(p.cells, 1, p.offset) \o bytes
                                 \o SubSeq(p.cells, last + 1, p.length),
                       !.offset = @ + step]

\* The same after room for n bytes was asked for.
Put(p, n, bytes, step) == PutAt(ensure(p, n), bytes, step)

(* strlen from the offset on. *)
update_offset(p) ==
    LET ends == {i \in p.offset + 1 .. p.length : p.cells[i] = NUL}
        end == Min(ends)
    IN  IF ~p.ok \/ p.gone THEN p
        ELSE IF ends = {} THEN [p EXCEPT !.wild = TRUE]
        ELSE [p EXCEPT !.offset = end - 1,
                       !.wild = @ \/ \E i \in p.offset + 1 .. end : p.cells[i] = Unset]
-----------------------------------------------------------------------------
(* Values.                                                                 *)

Tabs(n) == [i \in 1 .. n |-> "\t"]
If(condition, bytes) == IF condition THEN bytes ELSE <<>>

(* print_string_ptr: the text has its quotes; "" for a string that is NULL *)
PutString(p, text) ==
    LET quoted == IF text = <<>> THEN <<"\"", "\"">> ELSE text
    IN  Put(p, Len(quoted) + 1, Append(quoted, NUL), 0)

PutWord(p, word) == Put(p, Len(word) + 1, Append(word, NUL), 0)

RECURSIVE print_value(_, _), PutElements(_, _, _), PutMembers(_, _, _)

(* The elements from index i on, with what stands between them. *)
PutElements(p, list, i) ==
    LET printed == update_offset(print_value(list[i], p))
        between == <<",">> \o If(p.format, <<" ">>)
    IN  IF i > Len(list) \/ ~p.ok THEN p
        ELSE IF i = Len(list) THEN printed
        ELSE PutElements(Put(printed, Len(between) + 1, Append(between, NUL), Len(between)),
                         list, i + 1)

\* The bracket that ends a container, and back to its depth.
PutClose(p, bracket, indented) ==
    LET close == If(indented, Tabs(p.depth - 1)) \o <<bracket, NUL>>
    IN  IF ~p.ok THEN p ELSE [Put(p, Len(close), close, 0) EXCEPT !.depth = @ - 1]

print_array(v, p) ==
    LET opened == [Put(p, 1, <<"[">>, 1) EXCEPT !.depth = @ + 1]
    IN  PutClose(PutElements(opened, v.kids, 1), "]", FALSE)

(* The members from index i on, each on a line of its own if formatted.    *)
PutMembers(p, list, i) ==
    LET indented == IF p.format THEN Put(p, p.depth, Tabs(p.depth), p.depth) ELSE p
        named == update_offset(PutString(indented, list[i].key))
        colon == <<":">> \o If(p.format, <<"\t">>)
        printed == update_offset(print_value(list[i], Put(named, Len(colon), colon, Len(colon))))
        end == If(i < Len(list), <<",">>) \o If(p.format, <<"\n">>)
    IN  IF i > Len(list) \/ ~p.ok THEN p
        ELSE PutMembers(Put(printed, Len(end) + 1, Append(end, NUL), Len(end)), list, i + 1)

print_object(v, p) ==
    LET open == <<"{">> \o If(p.format, <<"\n">>)
        opened == [Put(p, Len(open) + 1, open, Len(open)) EXCEPT !.depth = @ + 1]
    IN  PutClose(PutMembers(opened, v.kids, 1), "}", p.format)

print_value(v, p) ==
    CASE v.type = "NULL" -> PutWord(p, <<"n", "u", "l", "l">>)
      [] v.type = "False" -> PutWord(p, <<"f", "a", "l", "s", "e">>)
      [] v.type = "True" -> PutWord(p, <<"t", "r", "u", "e">>)
      [] v.type = "Number" -> Put(p, Len(v.bytes) + 1, Append(v.bytes, NUL), Len(v.bytes))
      [] v.type = "Raw" -> PutWord(p, v.bytes)
      [] v.type = "String" -> PutString(p, v.bytes)
      [] v.type = "Array" -> print_array(v, p)
      [] v.type = "Object" -> print_object(v, p)
      [] OTHER -> False(p)
-----------------------------------------------------------------------------
(* The calls: what they return, and what they leave behind.                *)

Free(p) == IF p.gone THEN p ELSE Deallocate(p)
Returned(p, kind, len) ==
    [kind |-> kind, ok |-> p.ok, live |-> p.live, wild |-> p.wild, len |-> len,
     format |-> p.format, depth |-> p.depth,
     text |-> IF ~p.ok THEN <<>>
              ELSE SubSeq(p.cells, 1, SelectInSeq(p.cells, LAMBDA c : c = NUL) - 1)]
NotAllocated(kind, format) ==
    Returned([False(NewBuffer(0, format, FALSE, FALSE, 0)) EXCEPT !.live = 0], kind, 0)
FirstBuffer(n, format, reallocs, quota) ==
    [NewBuffer(n, format, reallocs, FALSE, quota - 1) EXCEPT !.live = 1]

\* The text is moved into a buffer of its own size.
Moved(p) ==
    IF ~p.ok THEN Free(p)
    ELSE IF p.quota = 0 THEN False(Free(p))
    ELSE [p EXCEPT !.cells = SubSeq(p.cells, 1, Min({p.length, p.offset + 1})),
                   !.length = p.offset + 1]

(* print: a buffer that grows, and the text moved at the end. *)
print(v, format, reallocs, quota) ==
    IF quota = 0 THEN NotAllocated("print", format)
    ELSE Returned(Moved(update_offset(print_value(v,
                      FirstBuffer(DefaultSize, format, reallocs, quota)))), "print", 0)

\* A buffer that was not filled is freed.
Kept(p) == IF p.ok THEN p ELSE Free(p)

cJSON_PrintBuffered(v, prebuffer, format, reallocs, quota) ==
    IF quota = 0 THEN NotAllocated("buffered", format)
    ELSE Returned(Kept(print_value(v, FirstBuffer(prebuffer, format, reallocs, quota))),
                  "buffered", 0)

(* The caller's buffer, and *len. *)
Measured(p) == Returned(p, "preallocated", p.offset + 1)

cJSON_PrintPreallocated(v, length, format) ==
    Measured(print_value(v, NewBuffer(length, format, FALSE, TRUE, IntMax)))
-----------------------------------------------------------------------------
NoOutcome == [kind |-> "none"]
OutOfMemory == [kind |-> "OOM"]

RECURSIVE Items(_)
Items(v) == 1 + FoldLeft(LAMBDA n, kid : n + Items(kid), 0, v.kids)
AllItems == FoldLeft(LAMBDA n, v : n + Items(v), 0, built)

Init ==
    /\ built = <<>>
    /\ pc = "building"
    /\ size = 0
    /\ pool = <<>>
    /\ outcome = NoOutcome

(* A tree is put together from its leaves (the calls of CJSONTree). *)
AddLeaf(v) ==
    /\ pc = "building" /\ AllItems < MaxItems
    /\ built' = Append(built, v)
    /\ UNCHANGED <<pc, size, pool, outcome>>

(* The last n values, under the keys given, become the children of one. *)
Gather(n, type, keys) ==
    /\ pc = "building" /\ AllItems < MaxItems
    /\ built' = LET rest == Len(built) - n
                IN  Append(SubSeq(built, 1, rest),
                           [type |-> type, key |-> <<>>,
                            kids |-> [i \in 1 .. n |-> Under(built[rest + i], keys[i])]])
    /\ UNCHANGED <<pc, size, pool, outcome>>

Return(result) ==
    /\ pc = "building" /\ Len(built) = 1
    /\ pc' = "done"
    /\ outcome' = result
    /\ UNCHANGED <<built, size, pool>>

(* cJSON_Print and cJSON_PrintUnformatted. *)
PrintAllocated(format, reallocs, quota) == Return(print(built[1], format, reallocs, quota))

PrintBuffered(prebuffer, format, reallocs, quota) ==
    Return(cJSON_PrintBuffered(built[1], prebuffer, format, reallocs, quota))

PrintPreallocated(length, format) ==
    Return(cJSON_PrintPreallocated(built[1], length, format))

Encode ==
    /\ pc = "building" /\ Len(built) = 1
    /\ pc' = "encoding"
    /\ size' = EncodeSize
    /\ UNCHANGED <<built, pool, outcome>>

EncodesInto(enough, result, larger) ==
    /\ pc = "encoding" /\ size <= MaxEncodeSize
    /\ pool' = IF enough THEN Append(pool, size) ELSE pool
    /\ IF enough /\ ~result.ok
       THEN size' = larger /\ UNCHANGED <<pc, outcome>>
       ELSE /\ pc' = "done"
            /\ outcome' = IF enough THEN result ELSE OutOfMemory
            /\ UNCHANGED size
    /\ UNCHANGED built

\* Mutant: the size grows by a step.
EncodeByStep(enough) ==
    EncodesInto(enough, cJSON_PrintPreallocated(built[1], size, FALSE), size + EncodeSize)

(* One turn of the loop: ngx_pnalloc may find no memory.  What was taken   *)
(* from the pool stays there.                                              *)
EncodeTry(enough) ==
    EncodesInto(enough, cJSON_PrintPreallocated(built[1], size, FALSE), 2 * size)

EncodeGivesUp ==
    /\ pc = "encoding" /\ size > MaxEncodeSize
    /\ pc' = "done" /\ outcome' = OutOfMemory
    /\ UNCHANGED <<built, size, pool>>

Next ==
    \/ \E v \in Leaves : AddLeaf(v)
    \/ \E n \in 0 .. Len(built) :
          \/ Gather(n, "Array", [i \in 1 .. n |-> <<>>])
          \/ \E keys \in [1 .. n -> Keys] : Gather(n, "Object", keys)
    \/ \E format, reallocs \in BOOLEAN, quota \in Quotas :
          \/ PrintAllocated(format, reallocs, quota)
          \/ \E prebuffer \in Prebuffers : PrintBuffered(prebuffer, format, reallocs, quota)
    \/ \E length \in 0 .. IntMax, format \in BOOLEAN : PrintPreallocated(length, format)
    \/ Encode
    \/ \E enough \in BOOLEAN : EncodeTry(enough)
    \/ EncodeGivesUp

Spec == Init /\ [][Next]_vars

-----------------------------------------------------------------------------
(* What a value is printed as, whatever the buffers.                       *)

RECURSIVE Pretty(_, _)
Pretty(v, depth) ==
    LET Line(kid, last) ==
            Tabs(depth + 1) \o (IF kid.key = <<>> THEN <<"\"", "\"">> ELSE kid.key)
            \o <<":", "\t">> \o Pretty(kid, depth + 1) \o If(~last, <<",">>) \o <<"\n">>
        n == Len(v.kids)
    IN  CASE v.type = "Array" ->
               <<"[">> \o FlattenSeq([i \in 1 .. n |-> Pretty(v.kids[i], depth + 1)
                                                       \o If(i < n, <<",", " ">>)]) \o <<"]">>
          [] v.type = "Object" ->
               <<"{", "\n">> \o FlattenSeq([i \in 1 .. n |-> Line(v.kids[i], i = n)])
               \o Tabs(depth) \o <<"}">>
          [] v.type = "Raw" -> v.bytes
          [] OTHER -> Written(Under(v, <<>>))

Returns == outcome.kind \notin {"none", "OOM"}
Reference(format) == IF format THEN Pretty(built[1], 0)
                     ELSE SelectSeq(Pretty(built[1], 0), LAMBDA c : c \notin White)
Succeeded == Returns /\ outcome.ok

RECURSIVE Without(_, _)
Without(type, v) == v.type # type /\ \A i \in DOMAIN v.kids : Without(type, v.kids[i])
Printable == Len(built) = 1 /\ Without("Invalid", built[1])
(* The value a parser finds: a member without a name gets the empty one. *)
RECURSIVE AsRead(_, _)
AsRead(v, inObject) ==
    [v EXCEPT !.kids = [i \in DOMAIN v.kids |-> AsRead(v.kids[i], v.type = "Object")],
              !.key = IF inObject /\ v.key = <<>> THEN <<"\"", "\"">> ELSE v.key]
-----------------------------------------------------------------------------
TypeOK ==
    /\ pc \in {"building", "encoding", "done"}
    /\ AllItems <= MaxItems
    /\ size \in 0 .. 2 * MaxEncodeSize
    /\ Succeeded => outcome.depth = 0 /\ Unset \notin ToSet(outcome.text)

(* No byte is written outside the buffer the sizes asked for, none is read *)
(* before it is written, and no buffer is freed twice.                     *)
StaysInBuffer == Returns => ~outcome.wild

(* The text does not depend on the first size, on how the buffer grew, or  *)
(* on who allocated it.                                                    *)
PrintsTheValue == Succeeded => outcome.text = Reference(outcome.format)

(* A call that fails leaves no buffer behind; one that succeeds leaves the *)
(* one it returns, and none if the buffer is the caller's.                 *)
BuffersBalance ==
    Returns => outcome.live = IF outcome.ok /\ outcome.kind # "preallocated" THEN 1 ELSE 0

(* cJSON.h: to be safe allocate 5 bytes more than you actually need. *)
FiveMoreIsEnough ==
    Printable => \A format \in BOOLEAN :
        cJSON_PrintPreallocated(built[1], Len(Reference(format)) + 5, format).ok

(* The length encode returns is that of the text, when the value is an     *)
(* array or an object, as all its callers' are.                            *)
LengthOfContainers ==
    Succeeded /\ outcome.kind = "preallocated" /\ built[1].type \in {"Array", "Object"} =>
        outcome.len = Len(outcome.text)

(* What was printed is parsed back into the value, formatted or not.       *)
SameValue(back) == back.parsed /\ back.item = AsRead(built[1], FALSE)
ParsesBack ==
    Succeeded /\ Without("Raw", built[1]) =>
        SameValue(cJSON_ParseWithLength(outcome.text, Len(outcome.text), 8 * MaxItems))

(* encode runs out of sizes only for a value whose text, with two bytes to *)
(* spare, is longer than the largest; all the buffers it leaves in the     *)
(* pool are together less than twice the last.                             *)
EncodeFits ==
    /\ size > MaxEncodeSize /\ Printable => Len(Reference(FALSE)) + 2 > MaxEncodeSize
    /\ pool # <<>> => FoldLeft(+, 0, pool) < 2 * Last(pool)

=============================================================================
