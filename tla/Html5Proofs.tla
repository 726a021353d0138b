----------------------------- MODULE Html5Proofs -----------------------------
(***************************************************************************)
(* Theorems about Html5Tokenizer, for texts of every length over any bytes *)
(* and for every context to start in.                                      *)
(*                                                                         *)
(* A state function is called with a position and a state; Found and Ended *)
(* say what it may hand over, and every function is shown to hand that     *)
(* over in a lemma of its own, each using only those of the functions it   *)
(* calls.                                                                  *)
(***************************************************************************)
EXTENDS Html5Tokenizer, OrderLemmas

Fields == {"pos", "is_close", "state", "ret", "type", "start", "size"}
Known(h) == DOMAIN h = Fields /\ h.is_close \in BOOLEAN

Quoted == {"attribute_value_single_quote", "attribute_value_double_quote",
           "attribute_value_back_quote"}
States == {"data", "eof", "tag_open", "tag_name_close", "self_closing_start_tag",
           "before_attribute_name", "after_attribute_name", "before_attribute_value",
           "after_attribute_value_quoted_state"} \cup Quoted

(* States that are entered right after a byte of markup no token has. *)
Lee(state) ==
    IF state \in {"tag_open", "self_closing_start_tag", "before_attribute_value"} THEN 1 ELSE 0

(* That byte. *)
Ahead(state) ==
    CASE state = "tag_open" -> "<" [] state = "self_closing_start_tag" -> "/" [] OTHER -> "="

(* A byte that need not be in a token. *)
Free(i) == At(i) \in Marks \/ Opening(i)
AllFree(first, last) == \A i \in first .. last - 1 : Free(i)

(* Where a state may be entered. *)
Enters(state, pos) ==
    /\ state \in States /\ pos \in 0 .. Length
    /\ Lee(state) <= pos /\ AllFree(pos - Lee(state), pos)
    /\ Lee(state) = 1 => At(pos - 1) = Ahead(state)
    /\ state = "tag_name_close" => pos < Length /\ At(pos) = ">"
    /\ state \in Quoted => pos = 0

(* A token between b and the next call, and nothing lost between them; the *)
(* next call is further on by a byte that is in no later token.            *)
Spans(b, start, end, pos, state) ==
    /\ b <= start /\ start <= end /\ end <= Length
    /\ IF state = "eof" THEN \A i \in b .. Length - 1 : Free(i) \/ i \in start .. end - 1
       ELSE /\ end <= pos - Lee(state) /\ b < pos - Lee(state)
            /\ \A i \in b .. pos - 1 : Free(i) \/ i \in start .. end - 1

Found(b, r) ==
    /\ Known(r) /\ r.ret = 1
    /\ r.start \in Nat /\ r.size \in Nat
    /\ Enters(r.state, r.pos)
    /\ Spans(b, r.start, r.start + r.size, r.pos, r.state)
    /\ Whole(r.type, r.start, r.start + r.size)
(* No token: nothing is left, or only what stands behind an EOF byte.      *)
Left(b, pos) ==
    \/ AllFree(b, Length)
    \/ pos \in b .. Length - 1 /\ At(pos) \in EofBytes /\ AllFree(b, pos)
Ended(b, r) == Known(r) /\ r.ret = 0 /\ r.pos \in 0 .. Length /\ Left(b, r.pos)
Handed(b, r) == Found(b, r) \/ Ended(b, r)

(* What a state function is called with: from b on nothing is in a token.  *)
Called(b, h) ==
    /\ Length \in Nat /\ Known(h)
    /\ b \in Nat /\ h.pos \in b .. Length
    /\ AllFree(b, h.pos)
-----------------------------------------------------------------------------
(* The first byte of a kind.                                               *)

LEMMA LeastFacts ==
    ASSUME Length \in Nat, NEW pos \in 0 .. Length, NEW T \in SUBSET (pos .. Length - 1)
    PROVE  /\ Min({Length} \cup T) \in pos .. Length
           /\ Min({Length} \cup T) # Length => Min({Length} \cup T) \in T
           /\ \A i \in T : Min({Length} \cup T) <= i
  <1>1. {Length} \cup T \in SUBSET Nat /\ {Length} \cup T # {}
    OBVIOUS
  <1> DEFINE least == Min({Length} \cup T)
  <1>2. least \in {Length} \cup T /\ \A n \in {Length} \cup T : least <= n
    BY <1>1, MinIsLeast
  <1> HIDE DEF least
  <1>3. least \in pos .. Length /\ (least # Length => least \in T) /\ \A i \in T : least <= i
    BY <1>2
  <1> QED
    BY <1>3 DEF least

LEMMA StopFacts ==
    ASSUME Length \in Nat, NEW pos \in 0 .. Length, NEW bytes
    PROVE  /\ Stop(pos, bytes) \in pos .. Length
           /\ Stop(pos, bytes) # Length => At(Stop(pos, bytes)) \in bytes
           /\ \A i \in pos .. Stop(pos, bytes) - 1 : At(i) \notin bytes
  <1> DEFINE T == {i \in pos .. Length - 1 : At(i) \in bytes}
  <1>1. T \in SUBSET (pos .. Length - 1) /\ Stop(pos, bytes) = Min({Length} \cup T)
    BY DEF Stop
  <1> HIDE DEF T
  <1>2. /\ Stop(pos, bytes) \in pos .. Length
        /\ Stop(pos, bytes) # Length => Stop(pos, bytes) \in T
        /\ \A i \in T : Stop(pos, bytes) <= i
    <2>1. /\ Min({Length} \cup T) \in pos .. Length
          /\ Min({Length} \cup T) # Length => Min({Length} \cup T) \in T
          /\ \A i \in T : Min({Length} \cup T) <= i
      BY <1>1, LeastFacts, ZenonT(30)
    <2> QED
      BY <1>1, <2>1, ZenonT(30)
  <1>3. ASSUME NEW i \in pos .. Stop(pos, bytes) - 1 PROVE At(i) \notin bytes
    <2>1. i \in pos .. Length - 1 /\ i \notin T
      BY <1>2
    <2> QED
      BY <2>1 DEF T
  <1>4. Stop(pos, bytes) # Length => At(Stop(pos, bytes)) \in bytes
    BY <1>2 DEF T
  <1> QED
    BY <1>2, <1>3, <1>4

LEMMA MemchrFacts ==
    ASSUME Length \in Nat, NEW pos \in 0 .. Length, NEW byte
    PROVE  /\ memchr(pos, byte) \in pos .. Length
           /\ memchr(pos, byte) # Length => At(memchr(pos, byte)) = byte
           /\ \A i \in pos .. memchr(pos, byte) - 1 : At(i) # byte
  <1> DEFINE T == {i \in pos .. Length - 1 : At(i) = byte}
  <1>1. T \in SUBSET (pos .. Length - 1) /\ memchr(pos, byte) = Min({Length} \cup T)
    BY DEF memchr
  <1> HIDE DEF T
  <1>2. /\ memchr(pos, byte) \in pos .. Length
        /\ memchr(pos, byte) # Length => memchr(pos, byte) \in T
        /\ \A i \in T : memchr(pos, byte) <= i
    BY <1>1, LeastFacts
  <1> QED
    BY <1>2 DEF T

LEMMA FindFacts ==
    ASSUME Length \in Nat, NEW pos \in 0 .. Length, NEW word
    PROVE  /\ Find(pos, word) \in pos .. Length
           /\ Find(pos, word) # Length => Word(Find(pos, word), word)
           /\ \A i \in pos .. Find(pos, word) - 1 : ~Word(i, word)
  <1> DEFINE T == {i \in pos .. Length - 1 : Word(i, word)}
  <1>1. T \in SUBSET (pos .. Length - 1) /\ Find(pos, word) = Min({Length} \cup T)
    BY DEF Find
  <1> HIDE DEF T
  <1>2. /\ Find(pos, word) \in pos .. Length
        /\ Find(pos, word) # Length => Find(pos, word) \in T
        /\ \A i \in T : Find(pos, word) <= i
    BY <1>1, LeastFacts
  <1> QED
    BY <1>2 DEF T

\* What is found is what UpTo speaks of.
LEMMA UpToFirst ==
    ASSUME Length \in Nat, NEW pos \in 0 .. Length, NEW what
    PROVE  /\ UpTo(pos, Stop(pos, what), what)
           /\ UpTo(pos, memchr(pos, what), {what})
           /\ UpToWord(pos, Find(pos, what), what)
  <1>1. UpTo(pos, Stop(pos, what), what)
    BY StopFacts DEF UpTo
  <1>2. UpTo(pos, memchr(pos, what), {what})
    BY MemchrFacts DEF UpTo
  <1>3. UpToWord(pos, Find(pos, what), what)
    BY FindFacts DEF UpToWord
  <1> QED
    BY <1>1, <1>2, <1>3

LEMMA SignsAreNoLetters ==
    \A sign \in {"!", "/", "?", "%"} : sign \notin Letters \cup {NUL}
  <1>1. ToSet(Lowers) = {"a", "b", "c", "d", "e", "f", "g", "h", "i", "j", "k", "l", "m",
                         "n", "o", "p", "q", "r", "s", "t", "u", "v", "w", "x", "y", "z"}
    BY DEF Lowers, ToSet
  <1>2. ToSet(Uppers) = {"A", "B", "C", "D", "E", "F", "G", "H", "I", "J", "K", "L", "M",
                         "N", "O", "P", "Q", "R", "S", "T", "U", "V", "W", "X", "Y", "Z"}
    BY DEF Uppers, ToSet
  <1>3. \A sign \in {"!", "/", "?", "%"} : sign \notin ToSet(Lowers)
    BY <1>1, Zenon
  <1>4. \A sign \in {"!", "/", "?", "%"} : sign \notin ToSet(Uppers)
    BY <1>2, Zenon
  <1>5. \A sign \in {"!", "/", "?", "%"} : sign # NUL
    BY DEF NUL
  <1> QED
    BY <1>3, <1>4, <1>5 DEF Letters

LEMMA MarksAreFree ==
    ASSUME NEW i, At(i) \in Marks
    PROVE  Free(i)
  BY DEF Free

LEMMA MarksMore ==
    /\ CharWhite \subseteq Marks
    /\ {"<", ">", "/", "=", "!", "?", "%", "-", "]"} \subseteq Marks
    /\ QuoteBytes \subseteq Marks
  BY DEF Marks

\* More of the text is free if its next bytes are.
LEMMA AllFreeMore ==
    ASSUME NEW b \in Nat, NEW p \in Nat, NEW q \in Nat, AllFree(b, p), AllFree(p, q)
    PROVE  AllFree(b, q)
  BY DEF AllFree

LEMMA FreeIsAllFree ==
    ASSUME NEW p \in Nat, Free(p)
    PROVE  AllFree(p, p + 1)
  BY DEF AllFree
-----------------------------------------------------------------------------
(* What Token, Rest, Skip and None leave.                                  *)

LEMMA TokenFacts ==
    ASSUME NEW h, Known(h), NEW type, NEW start, NEW end, NEW pos, NEW state
    PROVE  LET r == Token(h, type, start, end, pos, state)
           IN  /\ Known(r) /\ r.ret = 1 /\ r.type = type /\ r.start = start
               /\ r.size = end - start /\ r.pos = pos /\ r.state = state
  BY DEF Token, Known, Fields

LEMMA ClearedIsKnown ==
    ASSUME NEW h, Known(h), NEW close \in BOOLEAN
    PROVE  Known([h EXCEPT !.is_close = close]) /\ [h EXCEPT !.is_close = close].pos = h.pos
  BY DEF Known, Fields

LEMMA PosFacts ==
    ASSUME NEW h, Known(h), NEW pos
    PROVE  LET r == [h EXCEPT !.pos = pos]
           IN  /\ Known(r) /\ r.pos = pos /\ r.ret = h.ret /\ r.type = h.type
               /\ r.start = h.start /\ r.size = h.size /\ r.state = h.state
  BY DEF Known, Fields

LEMMA SkipFacts ==
    ASSUME NEW h, Known(h), NEW n \in Nat
    PROVE  Known(Skip(h, n)) /\ Skip(h, n).pos = h.pos + n
  BY DEF Skip, Known, Fields

LEMMA NoneFacts ==
    ASSUME NEW h, Known(h)
    PROVE  Known(None(h)) /\ None(h).ret = 0 /\ None(h).pos = h.pos
  BY DEF None, Known, Fields

\* A call is further on by what is free.
LEMMA SkipCalled ==
    ASSUME NEW b, NEW h, Called(b, h), NEW n \in Nat,
           h.pos + n <= Length, AllFree(h.pos, h.pos + n)
    PROVE  Called(b, Skip(h, n))
  <1>0. Length \in Nat /\ b \in Nat /\ h.pos \in b .. Length /\ AllFree(b, h.pos) /\ Known(h)
    BY DEF Called
  <1>1. AllFree(b, h.pos + n)
    BY <1>0, AllFreeMore
  <1> DEFINE r == Skip(h, n)
  <1>2. Known(r) /\ r.pos = h.pos + n
    BY <1>0, SkipFacts
  <1> HIDE DEF r
  <1>3. Called(b, r)
    BY <1>0, <1>1, <1>2 DEF Called
  <1> QED
    BY <1>3 DEF r

LEMMA SkipMark ==
    ASSUME NEW b, NEW h, Called(b, h), h.pos < Length, At(h.pos) \in Marks
    PROVE  /\ Called(b, Skip(h, 1)) /\ b < Skip(h, 1).pos /\ Skip(h, 1).pos = h.pos + 1
           /\ At(Skip(h, 1).pos - 1) = At(h.pos)
  <1>0. Length \in Nat /\ b \in Nat /\ h.pos \in b .. Length /\ Known(h)
    BY DEF Called
  <1>1. AllFree(h.pos, h.pos + 1) /\ h.pos + 1 <= Length /\ 1 \in Nat
    BY <1>0, MarksAreFree, FreeIsAllFree
  <1>2. Called(b, Skip(h, 1)) /\ Skip(h, 1).pos = h.pos + 1
    BY <1>0, <1>1, SkipCalled, SkipFacts
  <1>3. Skip(h, 1).pos - 1 = h.pos /\ b < Skip(h, 1).pos
    BY <1>0, <1>2
  <1> QED
    BY <1>2, <1>3

LEMMA ClearedCalled ==
    ASSUME NEW b, NEW h, Called(b, h), NEW close \in BOOLEAN
    PROVE  Called(b, [h EXCEPT !.is_close = close])
  BY ClearedIsKnown DEF Called

LEMMA PosCalled ==
    ASSUME NEW b, NEW h, Called(b, h), NEW pos \in h.pos .. Length, AllFree(h.pos, pos)
    PROVE  Called(b, [h EXCEPT !.pos = pos])
  <1>1. AllFree(b, pos)
    BY AllFreeMore DEF Called
  <1> QED
    BY <1>1, PosFacts DEF Called

\* Nothing more, and nothing lost, at what is taken for the end of the text.
LEMMA NothingMore ==
    ASSUME NEW b, NEW h, Called(b, h), SeesEof(h)
    PROVE  Handed(b, None(h))
  <1>1. Length \in Nat /\ b \in Nat /\ h.pos \in b .. Length /\ AllFree(b, h.pos) /\ Known(h)
    BY DEF Called
  <1>2. Known(None(h)) /\ None(h).ret = 0 /\ None(h).pos = h.pos
    BY <1>1, NoneFacts
  <1>3. h.pos = Length \/ (h.pos < Length /\ At(h.pos) \in EofBytes)
    BY <1>1 DEF SeesEof, AtEnd
  <1>4. Left(b, h.pos)
    BY <1>1, <1>3 DEF Left
  <1> QED
    BY <1>1, <1>2, <1>4 DEF Handed, Ended

(* A token that is whole, with the bytes around it free: how the functions *)
(* below find one.                                                         *)
LEMMA TokenFound ==
    ASSUME NEW b, NEW h, Called(b, h), NEW type, NEW state,
           NEW start \in Nat, NEW end \in Nat, NEW pos \in Nat,
           Enters(state, pos), Spans(b, start, end, pos, state), Whole(type, start, end)
    PROVE  Handed(b, Token(h, type, start, end, pos, state))
  <1> DEFINE r == Token(h, type, start, end, pos, state)
  <1>1. /\ Known(r) /\ r.ret = 1 /\ r.type = type /\ r.start = start
        /\ r.size = end - start /\ r.pos = pos /\ r.state = state
    BY TokenFacts DEF Called
  <1>2. end - start \in Nat /\ start + (end - start) = end
    BY DEF Spans
  <1> HIDE DEF r
  <1>3. Handed(b, r)
    BY <1>1, <1>2 DEF Handed, Found
  <1> QED
    BY <1>3 DEF r

\* The rest of the text as a token.
LEMMA RestFound ==
    ASSUME NEW b, NEW h, Called(b, h), NEW type, Whole(type, h.pos, Length)
    PROVE  /\ Handed(b, Rest(h, type))
           /\ Handed(b, [Rest(h, type) EXCEPT !.pos = Length])
  <1> DEFINE r == Rest(h, type)
             s == [r EXCEPT !.pos = Length]
  <1>0. Length \in Nat /\ b \in Nat /\ h.pos \in b .. Length /\ AllFree(b, h.pos) /\ Known(h)
    BY DEF Called
  <1>1. \A pos \in 0 .. Length : Enters("eof", pos) /\ Spans(b, h.pos, Length, pos, "eof")
    BY <1>0 DEF Enters, Spans, States, Quoted, Lee, AllFree
  <1>2. Handed(b, r)
    BY <1>0, <1>1, TokenFound DEF Rest
  <1>3. /\ Known(r) /\ r.ret = 1 /\ r.type = type /\ r.start = h.pos
        /\ r.size = Length - h.pos /\ r.state = "eof"
    BY <1>0, TokenFacts DEF Rest
  <1> HIDE DEF r
  <1>4. /\ Known(s) /\ s.ret = 1 /\ s.type = type /\ s.start = h.pos
        /\ s.size = Length - h.pos /\ s.state = "eof" /\ s.pos = Length
    BY <1>3, PosFacts
  <1> HIDE DEF s
  <1>5. Length - h.pos \in Nat /\ h.pos + (Length - h.pos) = Length /\ h.pos \in Nat
    BY <1>0
  <1>6. Handed(b, s)
    BY <1>0, <1>1, <1>4, <1>5 DEF Handed, Found
  <1> QED
    BY <1>2, <1>6 DEF r, s
-----------------------------------------------------------------------------
(* Where the states are entered.                                           *)

Plain == {"data", "before_attribute_name", "after_attribute_name",
          "after_attribute_value_quoted_state"}
Marked == {"tag_open", "self_closing_start_tag", "before_attribute_value"}

LEMMA EntersPlain ==
    ASSUME Length \in Nat, NEW pos \in 0 .. Length, NEW state \in Plain
    PROVE  Enters(state, pos) /\ Lee(state) = 0 /\ state # "eof"
  <1>1. state \in States /\ state # "eof" /\ state # "tag_name_close" /\ state \notin Quoted
    BY Zenon DEF Plain, States, Quoted
  <1>2. Lee(state) = 0
    BY DEF Plain, Lee
  <1> QED
    BY <1>1, <1>2 DEF Enters, AllFree

LEMMA EntersMarked ==
    ASSUME Length \in Nat, NEW state \in Marked, NEW i \in 0 .. Length - 1, At(i) = Ahead(state)
    PROVE  Enters(state, i + 1) /\ Lee(state) = 1 /\ state # "eof" /\ At(i) \in Marks
  <1>1. state \in States /\ state # "eof" /\ state # "tag_name_close" /\ state \notin Quoted
    BY Zenon DEF Marked, States, Quoted
  <1>2. Lee(state) = 1
    BY DEF Marked, Lee
  <1>3. At(i) \in Marks
    BY MarksMore DEF Ahead
  <1>4. AllFree(i, i + 1) /\ i + 1 - 1 = i
    BY <1>3, MarksAreFree, FreeIsAllFree
  <1> QED
    BY <1>1, <1>2, <1>3, <1>4 DEF Enters

LEMMA EntersClose ==
    ASSUME Length \in Nat, NEW pos \in 0 .. Length - 1, At(pos) = ">"
    PROVE  /\ Enters("tag_name_close", pos) /\ Lee("tag_name_close") = 0
           /\ "tag_name_close" # "eof"
  <1>1. "tag_name_close" \in States /\ "tag_name_close" \notin Quoted
    BY DEF States, Quoted
  <1>2. Lee("tag_name_close") = 0
    BY DEF Lee
  <1> QED
    BY <1>1, <1>2 DEF Enters, AllFree

\* When a token of each type is whole.
LEMMA WholeKinds ==
    ASSUME NEW start, NEW end
    PROVE  /\ UpTo(start, end, NameEnds) =>
                Whole("TAG_NAME_OPEN", start, end) /\ Whole("TAG_CLOSE", start, end)
           /\ end = start + 1 /\ At(start) = ">" => Whole("TAG_NAME_CLOSE", start, end)
           /\ end = start + 2 /\ At(start) = "/" /\ At(start + 1) = ">" =>
                Whole("TAG_NAME_SELFCLOSE", start, end)
           /\ start < end /\ UpTo(start + 1, end, CharWhite \cup {"/", "=", ">"}) =>
                Whole("ATTR_NAME", start, end)
           /\ WholeValue(start, end) => Whole("ATTR_VALUE", start, end)
           /\ WholeComment(start, end) => Whole("TAG_COMMENT", start, end)
           /\ UpTo(start, end, {">"}) => Whole("DOCTYPE", start, end)
           /\ WholeText(start, end) => Whole("DATA_TEXT", start, end)
  BY DEF Whole, TokenTypes

(* A token from where the call was to end; the next call is at pos.        *)
Follows(b, h, type, end, pos, state) ==
    /\ Called(b, h)
    /\ end \in h.pos .. Length /\ pos \in end .. Length /\ AllFree(end, pos)
    /\ Enters(state, pos) /\ state # "eof"
    /\ end <= pos - Lee(state) /\ b < pos - Lee(state)
    /\ Whole(type, h.pos, end)

LEMMA FoundFrom ==
    ASSUME NEW b, NEW h, NEW type, NEW end, NEW pos, NEW state,
           Follows(b, h, type, end, pos, state)
    PROVE  Handed(b, Token(h, type, h.pos, end, pos, state))
  <1> USE DEF Follows
  <1>1. Length \in Nat /\ b \in Nat /\ h.pos \in b .. Length /\ AllFree(b, h.pos)
    BY DEF Called
  <1>2. \A i \in b .. pos - 1 : Free(i) \/ i \in h.pos .. end - 1
    BY <1>1 DEF AllFree
  <1>3. Spans(b, h.pos, end, pos, state)
    BY <1>1, <1>2 DEF Spans
  <1>4. h.pos \in Nat /\ end \in Nat /\ pos \in Nat
    BY <1>1
  <1> QED
    BY <1>3, <1>4, TokenFound

\* A token that a mark ends, which the next call does not see.
LEMMA FoundPlain ==
    ASSUME NEW b, NEW h, Called(b, h), NEW type, NEW state \in Plain,
           NEW end \in h.pos .. Length - 1, At(end) \in Marks, Whole(type, h.pos, end)
    PROVE  Handed(b, Token(h, type, h.pos, end, end + 1, state))
  <1>1. Length \in Nat /\ b \in Nat /\ h.pos \in b .. Length
    BY DEF Called
  <1>2. end \in h.pos .. Length /\ end + 1 \in end .. Length /\ end + 1 \in 0 .. Length /\ end \in Nat
    BY <1>1
  <1>3. AllFree(end, end + 1)
    BY <1>2, MarksAreFree, FreeIsAllFree
  <1>4. Enters(state, end + 1) /\ Lee(state) = 0 /\ state # "eof"
    BY <1>1, <1>2, EntersPlain
  <1>5. end <= end + 1 - Lee(state) /\ b < end + 1 - Lee(state)
    BY <1>1, <1>2, <1>4
  <1>6. Follows(b, h, type, end, end + 1, state)
    BY <1>2, <1>3, <1>4, <1>5 DEF Follows
  <1> QED
    BY <1>6, FoundFrom

LEMMA FoundMarked ==
    ASSUME NEW b, NEW h, Called(b, h), NEW type, NEW state \in Marked,
           NEW end \in h.pos .. Length - 1, b < end, At(end) = Ahead(state), Whole(type, h.pos, end)
    PROVE  Handed(b, Token(h, type, h.pos, end, end + 1, state))
  <1>1. Length \in Nat /\ b \in Nat /\ h.pos \in b .. Length
    BY DEF Called
  <1>2. end \in h.pos .. Length /\ end + 1 \in end .. Length /\ end \in 0 .. Length - 1 /\ end \in Nat
    BY <1>1
  <1>4. Enters(state, end + 1) /\ Lee(state) = 1 /\ state # "eof" /\ At(end) \in Marks
    BY <1>1, <1>2, EntersMarked
  <1>3. AllFree(end, end + 1)
    BY <1>2, <1>4, MarksAreFree, FreeIsAllFree
  <1>5. end <= end + 1 - Lee(state) /\ b < end + 1 - Lee(state)
    BY <1>1, <1>2, <1>4
  <1>6. Follows(b, h, type, end, end + 1, state)
    BY <1>2, <1>3, <1>4, <1>5 DEF Follows
  <1> QED
    BY <1>6, FoundFrom

\* A token that a > ends, which the next call hands over.
LEMMA FoundClose ==
    ASSUME NEW b, NEW h, Called(b, h), NEW type,
           NEW end \in h.pos .. Length - 1, b < end, At(end) = ">", Whole(type, h.pos, end)
    PROVE  Handed(b, Token(h, type, h.pos, end, end, "tag_name_close"))
  <1>1. Length \in Nat /\ b \in Nat /\ h.pos \in b .. Length
    BY DEF Called
  <1>2. end \in h.pos .. Length /\ end \in end .. Length /\ end \in 0 .. Length - 1
    BY <1>1
  <1>3. AllFree(end, end)
    BY <1>2 DEF AllFree
  <1>4. /\ Enters("tag_name_close", end) /\ Lee("tag_name_close") = 0
        /\ "tag_name_close" # "eof"
    BY <1>1, <1>2, EntersClose
  <1>5. end <= end - Lee("tag_name_close") /\ b < end - Lee("tag_name_close")
    BY <1>1, <1>2, <1>4
  <1>6. Follows(b, h, type, end, end, "tag_name_close")
    BY <1>2, <1>3, <1>4, <1>5 DEF Follows
  <1> QED
    BY <1>6, FoundFrom
-----------------------------------------------------------------------------
(* Names of tags and attributes.                                           *)

LEMMA TagNameCloseHands ==
    ASSUME NEW b, NEW h, Called(b, h), h.pos < Length, At(h.pos) = ">"
    PROVE  Handed(b, h5_state_tag_name_close(h))
  <1> DEFINE c == [h EXCEPT !.is_close = FALSE]
             state == IF h.pos + 1 < Length THEN "data" ELSE "eof"
  <1>1. Length \in Nat /\ b \in Nat /\ h.pos \in b .. Length /\ AllFree(b, h.pos) /\ Known(h)
    BY DEF Called
  <1>2. Called(b, c)
    BY ClearedCalled
  <1>3. Enters(state, h.pos + 1)
    <2>1. h.pos + 1 \in 0 .. Length
      BY <1>1
    <2>2. Enters("data", h.pos + 1)
      BY <1>1, <2>1, EntersPlain DEF Plain
    <2>3. Enters("eof", h.pos + 1)
      BY <2>1 DEF Enters, States, Quoted, Lee, AllFree
    <2> QED
      BY <2>2, <2>3
  <1>4. \A i \in b .. h.pos : Free(i) \/ i \in h.pos .. h.pos + 1 - 1
    BY <1>1 DEF AllFree
  <1>5. Lee("data") = 0 /\ "data" # "eof"
    BY DEF Lee
  <1>6. Spans(b, h.pos, h.pos + 1, h.pos + 1, state)
    BY <1>1, <1>4, <1>5 DEF Spans
  <1>7. Whole("TAG_NAME_CLOSE", h.pos, h.pos + 1)
    BY WholeKinds
  <1>8. h.pos \in Nat /\ h.pos + 1 \in Nat
    BY <1>1
  <1> HIDE DEF c, state
  <1>9. Handed(b, Token(c, "TAG_NAME_CLOSE", h.pos, h.pos + 1, h.pos + 1, state))
    BY <1>2, <1>3, <1>6, <1>7, <1>8, TokenFound
  <1> QED
    BY <1>9 DEF h5_state_tag_name_close, c, state

\* A > that is handed over as the end of a tag.
LEMMA CloseHands ==
    ASSUME NEW b, NEW h, Called(b, h), h.pos < Length, At(h.pos) = ">"
    PROVE  Handed(b, Token(h, "TAG_NAME_CLOSE", h.pos, h.pos + 1, h.pos + 1, "data"))
  <1>1. Length \in Nat /\ b \in Nat /\ h.pos \in b .. Length
    BY DEF Called
  <1>2. Enters("data", h.pos + 1) /\ Lee("data") = 0 /\ "data" # "eof"
    BY <1>1, EntersPlain DEF Plain
  <1>3. AllFree(h.pos + 1, h.pos + 1)
    BY <1>1 DEF AllFree
  <1>4. Follows(b, h, "TAG_NAME_CLOSE", h.pos + 1, h.pos + 1, "data")
    BY <1>1, <1>2, <1>3, WholeKinds DEF Follows
  <1> QED
    BY <1>4, FoundFrom

LEMMA TagNameHands ==
    ASSUME NEW b, NEW h, Called(b, h), b < h.pos
    PROVE  Handed(b, h5_state_tag_name(h))
  <1> DEFINE end == Stop(h.pos, NameEnds)
             c == [h EXCEPT !.is_close = FALSE]
  <1>1. Length \in Nat /\ b \in Nat /\ h.pos \in b .. Length /\ h.pos \in 0 .. Length
    BY DEF Called
  <1>2. /\ end \in h.pos .. Length /\ (end # Length => At(end) \in NameEnds)
        /\ UpTo(h.pos, end, NameEnds)
    BY <1>1, StopFacts, UpToFirst
  <1>3. NameEnds \subseteq Marks
    BY MarksMore, Zenon DEF NameEnds
  <1>4. h5_state_tag_name(h) =
          IF end = Length THEN Rest(h, "TAG_NAME_OPEN")
          ELSE IF At(end) = "/"
          THEN Token(h, "TAG_NAME_OPEN", h.pos, end, end + 1, "self_closing_start_tag")
          ELSE IF At(end) # ">"
          THEN Token(h, "TAG_NAME_OPEN", h.pos, end, end + 1, "before_attribute_name")
          ELSE IF h.is_close THEN Token(c, "TAG_CLOSE", h.pos, end, end + 1, "data")
          ELSE Token(h, "TAG_NAME_OPEN", h.pos, end, end, "tag_name_close")
    BY DEF h5_state_tag_name
  <1>5. Called(b, c) /\ c.pos = h.pos
    BY ClearedCalled, ClearedIsKnown DEF Called
  <1> HIDE DEF end, c
  <1>6. Whole("TAG_NAME_OPEN", h.pos, end) /\ Whole("TAG_CLOSE", h.pos, end)
    BY <1>2, WholeKinds
  <1>7. CASE end = Length
    <2>1. Handed(b, Rest(h, "TAG_NAME_OPEN"))
      BY <1>6, <1>7, RestFound
    <2> QED
      BY <1>4, <1>7, <2>1
  <1>8. CASE end # Length
    <2>1. At(end) \in Marks /\ end \in h.pos .. Length - 1 /\ b < end
      BY <1>1, <1>2, <1>3, <1>8
    <2>2. CASE At(end) = "/"
      <3>1. "self_closing_start_tag" \in Marked /\ At(end) = Ahead("self_closing_start_tag")
        BY <2>2 DEF Marked, Ahead
      <3>2. Handed(b, Token(h, "TAG_NAME_OPEN", h.pos, end, end + 1, "self_closing_start_tag"))
        BY <1>6, <2>1, <3>1, FoundMarked
      <3> QED
        BY <1>4, <1>8, <2>2, <3>2
    <2>3. CASE At(end) # "/" /\ At(end) # ">"
      <3>1. Handed(b, Token(h, "TAG_NAME_OPEN", h.pos, end, end + 1, "before_attribute_name"))
        BY <1>6, <2>1, FoundPlain DEF Plain
      <3> QED
        BY <1>4, <1>8, <2>3, <3>1
    <2>4. CASE At(end) = ">"
      <3>1. Handed(b, Token(h, "TAG_NAME_OPEN", h.pos, end, end, "tag_name_close"))
        BY <1>6, <2>1, <2>4, FoundClose
      <3>2. Handed(b, Token(c, "TAG_CLOSE", h.pos, end, end + 1, "data"))
        <4>1. Handed(b, Token(c, "TAG_CLOSE", c.pos, end, end + 1, "data"))
          BY <1>5, <1>6, <2>1, FoundPlain DEF Plain
        <4> QED
          BY <1>5, <4>1
      <3> QED
        BY <1>4, <1>8, <2>4, <3>1, <3>2
    <2> QED
      BY <2>2, <2>3, <2>4
  <1> QED
    BY <1>7, <1>8

LEMMA AttributeNameHands ==
    ASSUME NEW b, NEW h, Called(b, h), h.pos < Length
    PROVE  Handed(b, h5_state_attribute_name(h))
  <1> DEFINE S == CharWhite \cup {"/", "=", ">"}
             end == Stop(h.pos + 1, S)
  <1>1. Length \in Nat /\ b \in Nat /\ h.pos \in b .. Length /\ h.pos + 1 \in 0 .. Length
    BY DEF Called
  <1>2. /\ end \in h.pos + 1 .. Length /\ (end # Length => At(end) \in S)
        /\ UpTo(h.pos + 1, end, S)
    BY <1>1, StopFacts, UpToFirst
  <1>3. S \subseteq Marks
    BY MarksMore
  <1>4. h5_state_attribute_name(h) =
          IF end = Length THEN [Rest(h, "ATTR_NAME") EXCEPT !.pos = Length]
          ELSE CASE At(end) = "/" ->
                      Token(h, "ATTR_NAME", h.pos, end, end + 1, "self_closing_start_tag")
                 [] At(end) = "=" ->
                      Token(h, "ATTR_NAME", h.pos, end, end + 1, "before_attribute_value")
                 [] At(end) = ">" ->
                      Token(h, "ATTR_NAME", h.pos, end, end, "tag_name_close")
                 [] OTHER ->
                      Token(h, "ATTR_NAME", h.pos, end, end + 1, "after_attribute_name")
    BY DEF h5_state_attribute_name
  <1> HIDE DEF end
  <1>5. Whole("ATTR_NAME", h.pos, end)
    <2>1. h.pos < end
      BY <1>1, <1>2
    <2> QED
      BY <1>2, <2>1, WholeKinds
  <1> HIDE DEF S
  <1>6. CASE end = Length
    <2>1. Handed(b, [Rest(h, "ATTR_NAME") EXCEPT !.pos = Length])
      BY <1>5, <1>6, RestFound
    <2> QED
      BY <1>4, <1>6, <2>1
  <1>7. CASE end # Length
    <2>1. end \in h.pos .. Length - 1 /\ b < end /\ At(end) \in Marks
      BY <1>1, <1>2, <1>3, <1>7
    <2>2. CASE At(end) = "/"
      <3>1. "self_closing_start_tag" \in Marked /\ At(end) = Ahead("self_closing_start_tag")
        BY <2>2 DEF Marked, Ahead
      <3>2. Handed(b, Token(h, "ATTR_NAME", h.pos, end, end + 1, "self_closing_start_tag"))
        BY <1>5, <2>1, <3>1, FoundMarked
      <3> QED
        BY <1>4, <1>7, <2>2, <3>2
    <2>3. CASE At(end) = "="
      <3>1. "before_attribute_value" \in Marked /\ At(end) = Ahead("before_attribute_value")
        BY <2>3 DEF Marked, Ahead
      <3>2. Handed(b, Token(h, "ATTR_NAME", h.pos, end, end + 1, "before_attribute_value"))
        BY <1>5, <2>1, <3>1, FoundMarked
      <3> QED
        BY <1>4, <1>7, <2>3, <3>2
    <2>4. CASE At(end) = ">"
      <3>1. Handed(b, Token(h, "ATTR_NAME", h.pos, end, end, "tag_name_close"))
        BY <1>5, <2>1, <2>4, FoundClose
      <3> QED
        BY <1>4, <1>7, <2>4, <3>1
    <2>5. CASE At(end) # "/" /\ At(end) # "=" /\ At(end) # ">"
      <3>1. Handed(b, Token(h, "ATTR_NAME", h.pos, end, end + 1, "after_attribute_name"))
        BY <1>5, <2>1, FoundPlain DEF Plain
      <3> QED
        BY <1>4, <1>7, <2>5, <3>1
    <2> QED
      BY <2>2, <2>3, <2>4, <2>5
  <1> QED
    BY <1>6, <1>7
-----------------------------------------------------------------------------
(* Between the attributes, and their values.                               *)

LEMMA SkipWhiteCalled ==
    ASSUME NEW b, NEW h, Called(b, h)
    PROVE  /\ Called(b, h5_skip_white(h)) /\ h5_skip_white(h).pos >= h.pos
           /\ h5_skip_white(h).pos > h.pos => At(h5_skip_white(h).pos - 1) \in CharWhite
  <1> DEFINE T == {i \in h.pos .. Length - 1 : At(i) \notin CharWhite}
             stop == Min({Length} \cup T)
  <1>1. Length \in Nat /\ b \in Nat /\ h.pos \in b .. Length /\ h.pos \in 0 .. Length /\ Known(h)
    BY DEF Called
  <1>2. T \in SUBSET (h.pos .. Length - 1)
    OBVIOUS
  <1>3. stop \in h.pos .. Length /\ \A i \in T : stop <= i
    BY <1>1, <1>2, LeastFacts
  <1> HIDE DEF stop
  <1>4. ASSUME NEW i \in h.pos .. stop - 1 PROVE At(i) \in CharWhite
    <2>1. i \in h.pos .. Length - 1 /\ i \notin T
      BY <1>1, <1>3
    <2> QED
      BY <2>1
  <1>5. AllFree(h.pos, stop)
    BY <1>4, MarksMore, MarksAreFree DEF AllFree
  <1>6. Called(b, [h EXCEPT !.pos = stop]) /\ [h EXCEPT !.pos = stop].pos = stop
    BY <1>1, <1>3, <1>5, PosCalled, PosFacts
  <1>7. stop > h.pos => At(stop - 1) \in CharWhite
    BY <1>1, <1>3, <1>4
  <1>8. h5_skip_white(h) = [h EXCEPT !.pos = stop]
    BY DEF h5_skip_white, stop
  <1> QED
    BY <1>1, <1>3, <1>6, <1>7, <1>8

LEMMA SelfClosedHands ==
    ASSUME NEW b, NEW h, Called(b, h), b < h.pos, At(h.pos - 1) = "/",
           AtEnd(h) \/ At(h.pos) = ">"
    PROVE  Handed(b, SelfClosed(h))
  <1>1. Length \in Nat /\ b \in Nat /\ h.pos \in b .. Length /\ AllFree(b, h.pos)
    BY DEF Called
  <1>2. CASE AtEnd(h)
    BY <1>2, NothingMore DEF SelfClosed, SeesEof
  <1>3. CASE ~AtEnd(h)
    <2>1. h.pos < Length /\ h.pos - 1 \in Nat /\ h.pos + 1 \in Nat /\ h.pos + 1 \in 0 .. Length
      BY <1>1, <1>3 DEF AtEnd
    <2>2. Enters("data", h.pos + 1) /\ Lee("data") = 0 /\ "data" # "eof"
      BY <1>1, <2>1, EntersPlain DEF Plain
    <2>3. \A i \in b .. h.pos : Free(i) \/ i \in h.pos - 1 .. h.pos + 1 - 1
      BY <1>1, <2>1 DEF AllFree
    <2>4. Spans(b, h.pos - 1, h.pos + 1, h.pos + 1, "data")
      BY <1>1, <2>1, <2>2, <2>3 DEF Spans
    <2>5. Whole("TAG_NAME_SELFCLOSE", h.pos - 1, h.pos + 1)
      <3>1. h.pos - 1 + 1 = h.pos /\ h.pos + 1 = h.pos - 1 + 2
        BY <1>1
      <3> QED
        BY <1>3, <3>1, WholeKinds
    <2>6. Handed(b, Token(h, "TAG_NAME_SELFCLOSE", h.pos - 1, h.pos + 1, h.pos + 1, "data"))
      BY <2>1, <2>2, <2>4, <2>5, TokenFound
    <2> QED
      BY <1>3, <2>6 DEF SelfClosed
  <1> QED
    BY <1>2, <1>3

LEMMA BeforeAttributeNameHands ==
    ASSUME NEW b, NEW h, Called(b, h)
    PROVE  Handed(b, h5_state_before_attribute_name(h))
  <1> DEFINE T == {i \in h.pos .. Length - 1 : ~Passed(i)}
             stop == Min({Length} \cup T)
             c == [h EXCEPT !.pos = stop]
  <1>1. Length \in Nat /\ b \in Nat /\ h.pos \in b .. Length /\ h.pos \in 0 .. Length /\ Known(h)
    BY DEF Called
  <1>2. T \in SUBSET (h.pos .. Length - 1)
    OBVIOUS
  <1>3. /\ stop \in h.pos .. Length /\ \A i \in T : stop <= i
        /\ stop # Length => stop \in T
    BY <1>1, <1>2, LeastFacts
  <1> HIDE DEF stop
  <1>4. AllFree(h.pos, stop)
    <2>1. ASSUME NEW i \in h.pos .. stop - 1 PROVE Free(i)
      <3>1. i \in h.pos .. Length - 1 /\ i \notin T
        BY <1>1, <1>3
      <3>2. At(i) \in CharWhite \/ At(i) = "/"
        BY <3>1 DEF Passed
      <3> QED
        BY <3>2, MarksMore, MarksAreFree
    <2> QED
      BY <2>1 DEF AllFree
  <1>5. Called(b, c) /\ c.pos = stop
    BY <1>1, <1>3, <1>4, PosCalled, PosFacts
  <1>6. h5_state_before_attribute_name(h) =
          IF SeesEof(c) THEN None(c)
          ELSE CASE At(c.pos) = "/" -> SelfClosed(Skip(c, 1))
                 [] At(c.pos) = ">" ->
                      Token(c, "TAG_NAME_CLOSE", c.pos, c.pos + 1, c.pos + 1, "data")
                 [] OTHER -> h5_state_attribute_name(c)
    BY DEF h5_state_before_attribute_name, stop
  <1> HIDE DEF c
  <1>7. CASE SeesEof(c)
    BY <1>5, <1>6, <1>7, NothingMore
  <1>8. CASE ~SeesEof(c)
    <2>1. c.pos < Length
      BY <1>1, <1>3, <1>5, <1>8 DEF SeesEof, AtEnd
    <2>2. CASE At(c.pos) = "/"
      <3> DEFINE s == Skip(c, 1)
      <3>1. Called(b, s) /\ b < s.pos /\ At(s.pos - 1) = "/" /\ s.pos = stop + 1
        BY <1>5, <2>1, <2>2, SkipMark, MarksMore
      <3> HIDE DEF s
      <3>2. ~Passed(stop)
        BY <1>3, <1>5, <2>1
      <3>3. AtEnd(s) \/ At(s.pos) = ">"
        BY <1>1, <1>3, <1>5, <2>2, <3>1, <3>2 DEF Passed, AtEnd
      <3>4. Handed(b, SelfClosed(s))
        BY <3>1, <3>3, SelfClosedHands
      <3> QED
        BY <1>6, <1>8, <2>2, <3>4 DEF s
    <2>3. CASE At(c.pos) = ">"
      BY <1>5, <1>6, <1>8, <2>1, <2>3, CloseHands
    <2>4. CASE At(c.pos) # "/" /\ At(c.pos) # ">"
      BY <1>5, <1>6, <1>8, <2>1, <2>4, AttributeNameHands
    <2> QED
      BY <2>2, <2>3, <2>4
  <1> QED
    BY <1>7, <1>8

LEMMA SelfClosingHands ==
    ASSUME NEW b, NEW h, Called(b, h), b < h.pos, At(h.pos - 1) = "/"
    PROVE  Handed(b, h5_state_self_closing_start_tag(h))
  BY SelfClosedHands, BeforeAttributeNameHands DEF h5_state_self_closing_start_tag

LEMMA ValueQuoteHands ==
    ASSUME NEW b, NEW h, Called(b, h), NEW quote \in QuoteBytes,
           h.pos > 0 => h.pos < Length /\ At(h.pos) = quote
    PROVE  Handed(b, h5_state_attribute_value_quote(h, quote))
  <1> DEFINE c == IF h.pos > 0 THEN Skip(h, 1) ELSE h
             end == memchr(c.pos, quote)
  <1>0. Length \in Nat /\ b \in Nat /\ h.pos \in b .. Length
    BY DEF Called
  <1>1. quote \in Marks
    BY MarksMore
  <1>2. Called(b, c) /\ (c.pos > 0 => At(c.pos - 1) = quote)
    <2>1. CASE h.pos > 0
      BY <1>0, <1>1, <2>1, SkipMark
    <2>2. CASE ~(h.pos > 0)
      BY <2>2
    <2> QED
      BY <2>1, <2>2
  <1>3. h5_state_attribute_value_quote(h, quote) =
          IF end = Length THEN Rest(c, "ATTR_VALUE")
          ELSE Token(c, "ATTR_VALUE", c.pos, end, end + 1, "after_attribute_value_quoted_state")
    BY DEF h5_state_attribute_value_quote
  <1> HIDE DEF c
  <1>4. c.pos \in 0 .. Length
    <2>1. b \in Nat /\ c.pos \in b .. Length
      BY <1>2 DEF Called
    <2> QED
      BY <1>0, <2>1
  <1>5. /\ end \in c.pos .. Length /\ (end # Length => At(end) = quote)
        /\ UpTo(c.pos, end, {quote})
    BY <1>0, <1>4, MemchrFacts, UpToFirst
  <1> HIDE DEF end
  <1>8. Whole("ATTR_VALUE", c.pos, end)
    <2>1. WholeValue(c.pos, end)
      BY <1>2, <1>5 DEF WholeValue
    <2> QED
      BY <2>1, WholeKinds
  <1>6. CASE end = Length
    <2>1. Handed(b, Rest(c, "ATTR_VALUE"))
      BY <1>2, <1>6, <1>8, RestFound
    <2> QED
      BY <1>3, <1>6, <2>1
  <1>7. CASE end # Length
    <2>1. end \in c.pos .. Length - 1
      BY <1>0, <1>4, <1>5, <1>7
    <2>2. At(end) \in Marks
      BY <1>1, <1>5, <1>7
    <2> QED
      BY <1>2, <1>3, <1>7, <1>8, <2>1, <2>2, FoundPlain DEF Plain
  <1> QED
    BY <1>6, <1>7

LEMMA ValueNoQuoteHands ==
    ASSUME NEW b, NEW h, Called(b, h), b < h.pos, At(h.pos - 1) \in CharWhite \cup {"="}
    PROVE  Handed(b, h5_state_attribute_value_no_quote(h))
  <1> DEFINE S == CharWhite \cup {">"}
             end == Stop(h.pos, S)
  <1>1. Length \in Nat /\ b \in Nat /\ h.pos \in b .. Length /\ h.pos \in 0 .. Length
    BY DEF Called
  <1>2. /\ end \in h.pos .. Length /\ (end # Length => At(end) \in S)
        /\ UpTo(h.pos, end, S)
    BY <1>1, StopFacts, UpToFirst
  <1>3. S \subseteq Marks
    BY MarksMore
  <1>4. Whole("ATTR_VALUE", h.pos, end)
    <2>1. h.pos > 0
      BY <1>1
    <2>2. WholeValue(h.pos, end)
      BY <1>2, <2>1 DEF WholeValue
    <2> QED
      BY <2>2, WholeKinds
  <1>5. h5_state_attribute_value_no_quote(h) =
          IF end = Length THEN Rest(h, "ATTR_VALUE")
          ELSE IF At(end) = ">" THEN Token(h, "ATTR_VALUE", h.pos, end, end, "tag_name_close")
          ELSE Token(h, "ATTR_VALUE", h.pos, end, end + 1, "before_attribute_name")
    BY DEF h5_state_attribute_value_no_quote
  <1> HIDE DEF end, S
  <1>6. CASE end = Length
    <2>1. Handed(b, Rest(h, "ATTR_VALUE"))
      BY <1>4, <1>6, RestFound
    <2> QED
      BY <1>5, <1>6, <2>1
  <1>7. CASE end # Length
    <2>1. end \in h.pos .. Length - 1 /\ b < end /\ At(end) \in Marks
      BY <1>1, <1>2, <1>3, <1>7
    <2>2. At(end) = ">" => Handed(b, Token(h, "ATTR_VALUE", h.pos, end, end, "tag_name_close"))
      BY <1>4, <2>1, FoundClose
    <2>3. Handed(b, Token(h, "ATTR_VALUE", h.pos, end, end + 1, "before_attribute_name"))
      BY <1>4, <2>1, FoundPlain DEF Plain
    <2> QED
      BY <1>5, <1>7, <2>2, <2>3
  <1> QED
    BY <1>6, <1>7

LEMMA BeforeAttributeValueHands ==
    ASSUME NEW b, NEW h, Called(b, h), b < h.pos, At(h.pos - 1) = "="
    PROVE  Handed(b, h5_state_before_attribute_value(h))
  <1> DEFINE c == h5_skip_white(h)
             d == [c EXCEPT !.state = "eof"]
  <1>0. Length \in Nat /\ b \in Nat /\ h.pos \in b .. Length
    BY DEF Called
  <1>1. /\ Called(b, c) /\ c.pos >= h.pos
        /\ c.pos > h.pos => At(c.pos - 1) \in CharWhite
    BY SkipWhiteCalled
  <1>2. h5_state_before_attribute_value(h) =
          IF SeesEof(c) THEN None(d)
          ELSE IF At(c.pos) \in QuoteBytes
          THEN h5_state_attribute_value_quote(c, At(c.pos))
          ELSE h5_state_attribute_value_no_quote(c)
    BY Zenon DEF h5_state_before_attribute_value
  <1> HIDE DEF c
  <1>3. c.pos \in b .. Length /\ b < c.pos
    BY <1>0, <1>1 DEF Called
  <1>4. CASE SeesEof(c)
    <2>1. Known(d) /\ d.pos = c.pos
      BY <1>1 DEF Called, Known, Fields
    <2>2. Called(b, d) /\ SeesEof(d)
      BY <1>1, <1>4, <2>1 DEF Called, SeesEof, AtEnd
    <2> QED
      BY <1>2, <1>4, <2>2, NothingMore
  <1>5. CASE ~SeesEof(c)
    <2>1. c.pos < Length
      BY <1>0, <1>3, <1>5 DEF SeesEof, AtEnd
    <2>2. CASE At(c.pos) \in QuoteBytes
      <3>1. Handed(b, h5_state_attribute_value_quote(c, At(c.pos)))
        BY <1>1, <2>1, <2>2, ValueQuoteHands
      <3> QED
        BY <1>2, <1>5, <2>2, <3>1
    <2>3. CASE At(c.pos) \notin QuoteBytes
      <3>1. At(c.pos - 1) \in CharWhite \cup {"="}
        BY <1>0, <1>1, <1>3
      <3>2. Handed(b, h5_state_attribute_value_no_quote(c))
        BY <1>1, <1>3, <3>1, ValueNoQuoteHands
      <3> QED
        BY <1>2, <1>5, <2>3, <3>2
    <2> QED
      BY <2>2, <2>3
  <1> QED
    BY <1>4, <1>5

LEMMA AfterAttributeNameHands ==
    ASSUME NEW b, NEW h, Called(b, h)
    PROVE  Handed(b, h5_state_after_attribute_name(h))
  <1> DEFINE c == h5_skip_white(h)
  <1>1. Called(b, c)
    BY SkipWhiteCalled
  <1>2. h5_state_after_attribute_name(h) =
          IF SeesEof(c) THEN None(c)
          ELSE CASE At(c.pos) = "/" -> h5_state_self_closing_start_tag(Skip(c, 1))
                 [] At(c.pos) = "=" -> h5_state_before_attribute_value(Skip(c, 1))
                 [] At(c.pos) = ">" -> h5_state_tag_name_close(c)
                 [] OTHER -> h5_state_attribute_name(c)
    BY DEF h5_state_after_attribute_name
  <1> HIDE DEF c
  <1>3. CASE SeesEof(c)
    BY <1>1, <1>2, <1>3, NothingMore
  <1>4. CASE ~SeesEof(c)
    <2>1. c.pos < Length
      BY <1>1, <1>4 DEF SeesEof, AtEnd, Called
    <2>2. CASE At(c.pos) = "/"
      <3>1. Called(b, Skip(c, 1)) /\ b < Skip(c, 1).pos /\ At(Skip(c, 1).pos - 1) = "/"
        BY <1>1, <2>1, <2>2, SkipMark, MarksMore
      <3> QED
        BY <1>2, <1>4, <2>2, <3>1, SelfClosingHands
    <2>3. CASE At(c.pos) = "="
      <3>1. Called(b, Skip(c, 1)) /\ b < Skip(c, 1).pos /\ At(Skip(c, 1).pos - 1) = "="
        BY <1>1, <2>1, <2>3, SkipMark, MarksMore
      <3> QED
        BY <1>2, <1>4, <2>3, <3>1, BeforeAttributeValueHands
    <2>4. CASE At(c.pos) = ">"
      BY <1>1, <1>2, <1>4, <2>1, <2>4, TagNameCloseHands
    <2>5. CASE At(c.pos) # "/" /\ At(c.pos) # "=" /\ At(c.pos) # ">"
      BY <1>1, <1>2, <1>4, <2>1, <2>5, AttributeNameHands
    <2> QED
      BY <2>2, <2>3, <2>4, <2>5
  <1> QED
    BY <1>3, <1>4

LEMMA AfterValueQuotedHands ==
    ASSUME NEW b, NEW h, Called(b, h)
    PROVE  Handed(b, h5_state_after_attribute_value_quoted_state(h))
  <1>1. CASE AtEnd(h)
    BY <1>1, NothingMore DEF h5_state_after_attribute_value_quoted_state, SeesEof
  <1>2. CASE ~AtEnd(h)
    <2>1. h.pos < Length
      BY <1>2 DEF AtEnd, Called
    <2>2. CASE At(h.pos) \in CharWhite
      <3>1. Called(b, Skip(h, 1))
        BY <2>1, <2>2, SkipMark, MarksMore
      <3>2. Handed(b, h5_state_before_attribute_name(Skip(h, 1)))
        BY <3>1, BeforeAttributeNameHands
      <3>3. "/" \notin CharWhite /\ ">" \notin CharWhite
        BY DEF CharWhite, NUL
      <3>4. h5_state_after_attribute_value_quoted_state(h) = h5_state_before_attribute_name(Skip(h, 1))
        BY <1>2, <2>2, <3>3 DEF h5_state_after_attribute_value_quoted_state
      <3> QED
        BY <3>2, <3>4
    <2>3. CASE At(h.pos) = "/"
      <3>1. Called(b, Skip(h, 1)) /\ b < Skip(h, 1).pos /\ At(Skip(h, 1).pos - 1) = "/"
        BY <2>1, <2>3, SkipMark, MarksMore
      <3>2. "/" \notin CharWhite
        BY DEF CharWhite, NUL
      <3> QED
        BY <1>2, <2>3, <3>1, <3>2, SelfClosingHands DEF h5_state_after_attribute_value_quoted_state
    <2>4. CASE At(h.pos) = ">"
      <3>1. ">" \notin CharWhite
        BY DEF CharWhite, NUL
      <3> QED
        BY <1>2, <2>1, <2>4, <3>1, CloseHands DEF h5_state_after_attribute_value_quoted_state
    <2>5. CASE At(h.pos) \notin CharWhite /\ At(h.pos) # "/" /\ At(h.pos) # ">"
      BY <1>2, <2>5, BeforeAttributeNameHands DEF h5_state_after_attribute_value_quoted_state
    <2> QED
      BY <2>2, <2>3, <2>4, <2>5
  <1> QED
    BY <1>1, <1>2
-----------------------------------------------------------------------------
(* Comments and declarations.                                              *)

LEMMA BogusCommentHands ==
    ASSUME NEW b, NEW h, Called(b, h), h.pos > 0, At(h.pos - 1) \in {"!", "/", "?"}
    PROVE  Handed(b, h5_state_bogus_comment(h))
  <1> DEFINE end == memchr(h.pos, ">")
  <1>1. Length \in Nat /\ b \in Nat /\ h.pos \in b .. Length /\ h.pos \in 0 .. Length
    BY DEF Called
  <1>2. /\ end \in h.pos .. Length /\ (end # Length => At(end) = ">")
        /\ UpTo(h.pos, end, {">"})
    BY <1>1, MemchrFacts, UpToFirst
  <1>3. h5_state_bogus_comment(h) =
          IF end = Length THEN [Rest(h, "TAG_COMMENT") EXCEPT !.pos = Length]
          ELSE Token(h, "TAG_COMMENT", h.pos, end, end + 1, "data")
    BY DEF h5_state_bogus_comment
  <1> HIDE DEF end
  <1>4. Whole("TAG_COMMENT", h.pos, end)
    <2>1. WholeComment(h.pos, end)
      BY <1>2 DEF WholeComment
    <2> QED
      BY <2>1, WholeKinds
  <1>5. CASE end = Length
    <2>1. Handed(b, [Rest(h, "TAG_COMMENT") EXCEPT !.pos = Length])
      BY <1>4, <1>5, RestFound
    <2> QED
      BY <1>3, <1>5, <2>1
  <1>6. CASE end # Length
    <2>1. end \in h.pos .. Length - 1
      BY <1>1, <1>2, <1>6
    <2>2. At(end) \in Marks
      BY <1>2, <1>6, MarksMore
    <2> QED
      BY <1>3, <1>4, <1>6, <2>1, <2>2, FoundPlain DEF Plain
  <1> QED
    BY <1>5, <1>6

\* A token that several bytes of markup end.
LEMMA FoundData ==
    ASSUME NEW b, NEW h, Called(b, h), NEW type,
           NEW end \in h.pos .. Length, NEW pos \in end + 1 .. Length, AllFree(end, pos),
           Whole(type, h.pos, end)
    PROVE  Handed(b, Token(h, type, h.pos, end, pos, "data"))
  <1>1. Length \in Nat /\ b \in Nat /\ h.pos \in b .. Length
    BY DEF Called
  <1>2. pos \in 0 .. Length /\ pos \in end .. Length /\ end <= pos /\ b < pos
    BY <1>1
  <1>3. Enters("data", pos) /\ Lee("data") = 0 /\ "data" # "eof"
    BY <1>1, <1>2, EntersPlain DEF Plain
  <1>4. end <= pos - Lee("data") /\ b < pos - Lee("data")
    BY <1>1, <1>2, <1>3
  <1>5. Follows(b, h, type, end, pos, "data")
    BY <1>2, <1>3, <1>4 DEF Follows
  <1> QED
    BY <1>5, FoundFrom

LEMMA WordBytes ==
    ASSUME text \in Seq(STRING), NEW word, Len(word) \in Nat, NEW pos \in Nat, Word(pos, word),
           NEW j \in 1 .. Len(word)
    PROVE  At(pos + j - 1) = word[j]
  <1>1. pos + Len(word) <= Len(text) /\ SubSeq(text, pos + 1, pos + Len(word)) = word
    BY DEF Word, Length
  <1>2. pos + 1 \in 1 .. Len(text) + 1 /\ pos + Len(word) \in pos .. Len(text) /\ Len(text) \in Nat
    BY <1>1
  <1>3. j \in 1 .. (pos + Len(word)) - (pos + 1) + 1 /\ (pos + 1) + j - 1 = pos + j
    OBVIOUS
  <1>4. SubSeq(text, pos + 1, pos + Len(word))[j] = text[(pos + 1) + j - 1]
    BY <1>2, <1>3, SMTT(30)
  <1> QED
    BY <1>1, <1>3, <1>4 DEF At

LEMMA WordFree ==
    ASSUME text \in Seq(STRING), NEW word, Len(word) \in Nat, NEW pos \in Nat, Word(pos, word),
           \A j \in 1 .. Len(word) : word[j] \in Marks
    PROVE  AllFree(pos, pos + Len(word)) /\ pos + Len(word) <= Length
  <1>1. ASSUME NEW i \in pos .. pos + Len(word) - 1 PROVE Free(i)
    <2> DEFINE j == i - pos + 1
    <2>1. j \in 1 .. Len(word) /\ pos + j - 1 = i
      OBVIOUS
    <2> HIDE DEF j
    <2>2. At(i) = word[j]
      BY <2>1, WordBytes
    <2> QED
      BY <2>1, <2>2, MarksAreFree
  <1>2. pos + Len(word) <= Length
    BY DEF Word
  <1> QED
    BY <1>1, <1>2 DEF AllFree

\* What ends at a word is followed by data.
LEMMA FoundWord ==
    ASSUME text \in Seq(STRING), NEW b, NEW h, Called(b, h), NEW type,
           NEW word, Len(word) \in Nat \ {0}, \A j \in 1 .. Len(word) : word[j] \in Marks,
           NEW end \in h.pos .. Length, Word(end, word), Whole(type, h.pos, end)
    PROVE  Handed(b, Token(h, type, h.pos, end, end + Len(word), "data"))
  <1>1. Length \in Nat /\ b \in Nat /\ h.pos \in b .. Length
    BY DEF Called
  <1>2. end \in Nat
    BY <1>1
  <1>3. AllFree(end, end + Len(word)) /\ end + Len(word) <= Length
    BY <1>2, WordFree
  <1>4. end + Len(word) \in end + 1 .. Length
    BY <1>1, <1>2, <1>3
  <1> QED
    BY <1>3, <1>4, FoundData

LEMMA BogusComment2Hands ==
    ASSUME text \in Seq(STRING), NEW b, NEW h, Called(b, h), h.pos > 0, At(h.pos - 1) = "%"
    PROVE  Handed(b, h5_state_bogus_comment2(h))
  <1> DEFINE closing == <<"%", ">">>
             end == Find(h.pos, closing)
  <1>1. Length \in Nat /\ b \in Nat /\ h.pos \in b .. Length /\ h.pos \in 0 .. Length
    BY DEF Called
  <1>2. Len(closing) = 2 /\ \A j \in 1 .. Len(closing) : closing[j] \in Marks
    BY MarksMore
  <1>3. h5_state_bogus_comment2(h) =
          IF end = Length THEN [Rest(h, "TAG_COMMENT") EXCEPT !.pos = Length]
          ELSE Token(h, "TAG_COMMENT", h.pos, end, end + 2, "data")
    BY DEF h5_state_bogus_comment2
  <1>4. Whole("TAG_COMMENT", h.pos, end)
    <2>1. UpToWord(h.pos, end, closing)
      BY <1>1, UpToFirst
    <2>2. WholeComment(h.pos, end)
      BY <2>1 DEF WholeComment
    <2> QED
      BY <2>2, WholeKinds
  <1> HIDE DEF closing
  <1>5. end \in h.pos .. Length /\ (end # Length => Word(end, closing))
    BY <1>1, FindFacts
  <1> HIDE DEF end
  <1>6. CASE end = Length
    <2>1. Handed(b, [Rest(h, "TAG_COMMENT") EXCEPT !.pos = Length])
      BY <1>4, <1>6, RestFound
    <2> QED
      BY <1>3, <1>6, <2>1
  <1>7. CASE end # Length
    <2>1. Len(closing) \in Nat \ {0} /\ Word(end, closing)
      BY <1>2, <1>5, <1>7
    <2>2. Handed(b, Token(h, "TAG_COMMENT", h.pos, end, end + Len(closing), "data"))
      BY <1>2, <1>4, <1>5, <2>1, FoundWord
    <2> QED
      BY <1>2, <1>3, <1>7, <2>2
  <1> QED
    BY <1>6, <1>7

LEMMA AfterDashFacts ==
    ASSUME Length \in Nat, NEW i \in 0 .. Length - 1
    PROVE  /\ AfterDash(i) \in i + 1 .. Length
           /\ \A k \in i + 1 .. AfterDash(i) - 1 : At(k) = NUL
  <1> DEFINE T == {k \in i + 1 .. Length - 1 : At(k) # NUL}
  <1>1. T \in SUBSET (i + 1 .. Length - 1) /\ i + 1 \in 0 .. Length
    OBVIOUS
  <1>2. AfterDash(i) = Min({Length} \cup T)
    BY DEF AfterDash
  <1> HIDE DEF T
  <1>3. AfterDash(i) \in i + 1 .. Length /\ \A k \in T : AfterDash(i) <= k
    BY <1>1, <1>2, LeastFacts
  <1>4. ASSUME NEW k \in i + 1 .. AfterDash(i) - 1 PROVE At(k) = NUL
    <2>1. k \in i + 1 .. Length - 1 /\ k \notin T
      BY <1>3
    <2> QED
      BY <2>1 DEF T
  <1> QED
    BY <1>3, <1>4

LEMMA DashWords ==
    ASSUME text \in Seq(STRING), NEW i \in Nat,
           Word(i, <<"-", "-", ">">>) \/ Word(i, <<"-", "!", ">">>)
    PROVE  i + 3 <= Length /\ At(i) = "-" /\ At(i + 1) \in {"-", "!"} /\ At(i + 2) = ">"
  <1>1. ASSUME NEW second \in {"-", "!"}, Word(i, <<"-", second, ">">>)
        PROVE  i + 3 <= Length /\ At(i) = "-" /\ At(i + 1) = second /\ At(i + 2) = ">"
    <2> DEFINE word == <<"-", second, ">">>
    <2>1. Len(word) = 3 /\ word[1] = "-" /\ word[2] = second /\ word[3] = ">"
      OBVIOUS
    <2>2. Word(i, word)
      BY <1>1
    <2> HIDE DEF word
    <2>3. i + 3 <= Length
      BY <2>1, <2>2 DEF Word
    <2>4. \A j \in 1 .. 3 : At(i + j - 1) = word[j]
      BY <2>1, <2>2, WordBytes
    <2>5. At(i + 1 - 1) = "-" /\ At(i + 2 - 1) = second /\ At(i + 3 - 1) = ">"
      BY <2>1, <2>4
    <2>6. i + 1 - 1 = i /\ i + 2 - 1 = i + 1 /\ i + 3 - 1 = i + 2
      OBVIOUS
    <2> QED
      BY <2>3, <2>5, <2>6
  <1> QED
    BY <1>1

LEMMA CommentHands ==
    ASSUME text \in Seq(STRING), NEW b, NEW h, Called(b, h), h.pos > 0, At(h.pos - 1) = "-"
    PROVE  Handed(b, h5_state_comment(h))
  <1> DEFINE dashes == {i \in h.pos .. Length - 3 : At(i) = "-"}
             ends == {i \in dashes : /\ AfterDash(i) < Length - 1
                                     /\ At(AfterDash(i)) \in {"-", "!"}
                                     /\ At(AfterDash(i) + 1) = ">"}
             end == Min(ends)
  <1>1. Length \in Nat /\ b \in Nat /\ h.pos \in b .. Length
    BY DEF Called
  \* A dash, a dash or a !, and a > end it.
  <1>2. ASSUME NEW i \in h.pos .. Length - 1,
               Word(i, <<"-", "-", ">">>) \/ Word(i, <<"-", "!", ">">>)
        PROVE  i \in ends
    <2>0. i + 3 <= Length /\ At(i) = "-" /\ At(i + 1) \in {"-", "!"} /\ At(i + 2) = ">"
      <3>1. i \in Nat
        BY <1>1
      <3> QED
        BY <1>2, <3>1, DashWords
    <2>1. /\ AfterDash(i) \in i + 1 .. Length
          /\ \A k \in i + 1 .. AfterDash(i) - 1 : At(k) = NUL
      BY <1>1, AfterDashFacts
    <2>2. At(i + 1) # NUL
      BY <2>0 DEF NUL
    <2>3. AfterDash(i) = i + 1
      BY <1>1, <2>1, <2>2
    <2>4. AfterDash(i) + 1 = i + 2 /\ AfterDash(i) < Length - 1 /\ i \in h.pos .. Length - 3
      BY <1>1, <2>0, <2>3
    <2> QED
      BY <2>0, <2>3, <2>4
  <1>3. CASE ends = {}
    <2>1. WholeComment(h.pos, Length)
      <3>1. \A i : i \notin ends
        BY <1>3
      <3> HIDE DEF ends
      <3>2. \A i \in h.pos .. Length - 1 :
               ~Word(i, <<"-", "-", ">">>) /\ ~Word(i, <<"-", "!", ">">>)
        BY <1>2, <3>1
      <3>3. ~(Length < Length)
        BY <1>1
      <3> QED
        BY <3>2, <3>3 DEF WholeComment
    <2>2. Whole("TAG_COMMENT", h.pos, Length)
      BY <2>1, WholeKinds
    <2>3. Handed(b, Rest(h, "TAG_COMMENT"))
      BY <2>2, RestFound
    <2> QED
      BY <1>3, <2>3 DEF h5_state_comment
  <1>4. CASE ends # {}
    <2>1. ends \in SUBSET Nat
      BY <1>1
    <2>2. end \in ends /\ \A i \in ends : end <= i
      BY <1>4, <2>1, MinIsLeast
    <2>3. h5_state_comment(h) =
            Token(h, "TAG_COMMENT", h.pos, end, AfterDash(end) + 2, "data")
      BY <1>4 DEF h5_state_comment
    <2> HIDE DEF end
    <2>4. /\ end \in h.pos .. Length - 3 /\ At(end) = "-"
          /\ AfterDash(end) < Length - 1
          /\ At(AfterDash(end)) \in {"-", "!"}
          /\ At(AfterDash(end) + 1) = ">"
      BY <2>2
    <2> DEFINE next == AfterDash(end)
    <2>5. next \in end + 1 .. Length /\ \A k \in end + 1 .. next - 1 : At(k) = NUL
      BY <1>1, <2>4, AfterDashFacts
    <2> HIDE DEF ends
    <2>6. /\ Free(end) /\ Free(next) /\ Free(next + 1)
          /\ \A k \in end + 1 .. next - 1 : Free(k)
      <3>1. NUL \in Marks
        BY MarksMore DEF CharWhite
      <3> QED
        BY <2>4, <2>5, <3>1, MarksMore, MarksAreFree
    <2> HIDE DEF next
    <2>7. AllFree(end, next + 2)
      BY <1>1, <2>4, <2>5, <2>6 DEF AllFree
    <2>8. end \in h.pos .. Length /\ next + 2 \in end + 1 .. Length
      BY <1>1, <2>4, <2>5 DEF next
    <2>9. Whole("TAG_COMMENT", h.pos, end)
      <3>1. ASSUME NEW i \in h.pos .. end - 1,
                   Word(i, <<"-", "-", ">">>) \/ Word(i, <<"-", "!", ">">>)
            PROVE  FALSE
        <4>1. i \in h.pos .. Length - 1 /\ i < end
          BY <1>1, <2>4
        <4>2. end <= i
          BY <1>2, <2>2, <3>1, <4>1
        <4> QED
          BY <1>1, <2>4, <4>1, <4>2
      <3>2. WholeComment(h.pos, end)
        BY <2>4, <3>1 DEF WholeComment
      <3> QED
        BY <3>2, WholeKinds
    <2>10. Handed(b, Token(h, "TAG_COMMENT", h.pos, end, next + 2, "data"))
      BY <2>7, <2>8, <2>9, FoundData
    <2> QED
      BY <2>3, <2>10 DEF next
  <1> QED
    BY <1>3, <1>4

LEMMA CdataHands ==
    ASSUME text \in Seq(STRING), NEW b, NEW h, Called(b, h), h.pos >= 7, Word(h.pos - 7, CDATA)
    PROVE  Handed(b, h5_state_cdata(h))
  <1> DEFINE closing == <<"]", "]", ">">>
             end == Find(h.pos, closing)
  <1>1. Length \in Nat /\ b \in Nat /\ h.pos \in b .. Length /\ h.pos \in 0 .. Length
    BY DEF Called
  <1>2. Len(closing) = 3 /\ \A j \in 1 .. Len(closing) : closing[j] \in Marks
    BY MarksMore
  <1>3. h5_state_cdata(h) =
          IF end = Length THEN Rest(h, "DATA_TEXT")
          ELSE Token(h, "DATA_TEXT", h.pos, end, end + 3, "data")
    BY DEF h5_state_cdata
  <1>4. Whole("DATA_TEXT", h.pos, end)
    <2>1. UpToWord(h.pos, end, closing)
      BY <1>1, UpToFirst
    <2>2. WholeText(h.pos, end)
      BY <2>1 DEF WholeText
    <2> QED
      BY <2>2, WholeKinds
  <1> HIDE DEF closing
  <1>5. end \in h.pos .. Length /\ (end # Length => Word(end, closing))
    BY <1>1, FindFacts
  <1> HIDE DEF end
  <1>6. CASE end = Length
    <2>1. Handed(b, Rest(h, "DATA_TEXT"))
      BY <1>4, <1>6, RestFound
    <2> QED
      BY <1>3, <1>6, <2>1
  <1>7. CASE end # Length
    <2>1. Len(closing) \in Nat \ {0} /\ Word(end, closing)
      BY <1>2, <1>5, <1>7
    <2>2. Handed(b, Token(h, "DATA_TEXT", h.pos, end, end + Len(closing), "data"))
      BY <1>2, <1>4, <1>5, <2>1, FoundWord
    <2> QED
      BY <1>2, <1>3, <1>7, <2>2
  <1> QED
    BY <1>6, <1>7

LEMMA DoctypeHands ==
    ASSUME NEW b, NEW h, Called(b, h)
    PROVE  Handed(b, h5_state_doctype(h))
  <1> DEFINE end == memchr(h.pos, ">")
  <1>1. Length \in Nat /\ b \in Nat /\ h.pos \in b .. Length /\ h.pos \in 0 .. Length
    BY DEF Called
  <1>2. /\ end \in h.pos .. Length /\ (end # Length => At(end) = ">")
        /\ UpTo(h.pos, end, {">"})
    BY <1>1, MemchrFacts, UpToFirst
  <1>3. h5_state_doctype(h) =
          IF end = Length THEN Rest(h, "DOCTYPE")
          ELSE Token(h, "DOCTYPE", h.pos, end, end + 1, "data")
    BY DEF h5_state_doctype
  <1> HIDE DEF end
  <1>4. Whole("DOCTYPE", h.pos, end)
    BY <1>2, WholeKinds
  <1>5. CASE end = Length
    <2>1. Handed(b, Rest(h, "DOCTYPE"))
      BY <1>4, <1>5, RestFound
    <2> QED
      BY <1>3, <1>5, <2>1
  <1>6. CASE end # Length
    <2>1. end \in h.pos .. Length - 1
      BY <1>1, <1>2, <1>6
    <2>2. At(end) \in Marks
      BY <1>2, <1>6, MarksMore
    <2> QED
      BY <1>3, <1>4, <1>6, <2>1, <2>2, FoundPlain DEF Plain
  <1> QED
    BY <1>5, <1>6

LEMMA MarkupHands ==
    ASSUME text \in Seq(STRING), NEW b, NEW h, Called(b, h), h.pos > 0, At(h.pos - 1) = "!"
    PROVE  Handed(b, h5_state_markup_declaration_open(h))
  <1>1. Length \in Nat /\ b \in Nat /\ h.pos \in b .. Length /\ h.pos \in Nat /\ Known(h)
    BY DEF Called
  <1>2. ASSUME Word(h.pos, CDATA) PROVE Handed(b, h5_state_cdata(Skip(h, 7)))
    <2> DEFINE s == Skip(h, 7)
    <2>1. Len(CDATA) = 7
      BY DEF CDATA
    <2>2. h.pos + 7 <= Length
      BY <1>2, <2>1 DEF Word
    <2>3. AllFree(h.pos, h.pos + 7)
      <3>1. ASSUME NEW i \in h.pos .. h.pos + 7 - 1 PROVE Free(i)
        <4>1. h.pos \in 1 .. i /\ i < h.pos + 7
          BY <1>1
        <4>2. Opening(i)
          BY <1>2, <4>1 DEF Opening
        <4> QED
          BY <4>2 DEF Free
      <3> QED
        BY <1>1, <3>1 DEF AllFree
    <2>4. Called(b, s) /\ s.pos = h.pos + 7
      BY <1>1, <2>2, <2>3, SkipCalled, SkipFacts
    <2> HIDE DEF s
    <2>5. s.pos >= 7 /\ s.pos - 7 = h.pos
      BY <1>1, <2>4
    <2>6. Handed(b, h5_state_cdata(s))
      BY <1>2, <2>4, <2>5, CdataHands
    <2> QED
      BY <2>6 DEF s
  <1>3. ASSUME Word(h.pos, <<"-", "-">>) PROVE Handed(b, h5_state_comment(Skip(h, 2)))
    <2> DEFINE opening == <<"-", "-">>
               s == Skip(h, 2)
    <2>1. /\ Len(opening) = 2 /\ opening[2] = "-"
          /\ \A j \in 1 .. Len(opening) : opening[j] \in Marks
      BY MarksMore
    <2>2. Word(h.pos, opening)
      BY <1>3
    <2> HIDE DEF opening
    <2>3. AllFree(h.pos, h.pos + 2) /\ h.pos + 2 <= Length
      <3>1. Len(opening) \in Nat
        BY <2>1
      <3>2. AllFree(h.pos, h.pos + Len(opening)) /\ h.pos + Len(opening) <= Length
        BY <1>1, <2>1, <2>2, <3>1, WordFree
      <3> QED
        BY <2>1, <3>2
    <2>4. At(h.pos + 2 - 1) = "-"
      <3>1. Len(opening) \in Nat /\ 2 \in 1 .. Len(opening)
        BY <2>1
      <3>2. At(h.pos + 2 - 1) = opening[2]
        BY <1>1, <2>2, <3>1, WordBytes
      <3> QED
        BY <2>1, <3>2
    <2>5. Called(b, s) /\ s.pos = h.pos + 2
      BY <1>1, <2>3, SkipCalled, SkipFacts
    <2> HIDE DEF s
    <2>6. s.pos > 0 /\ At(s.pos - 1) = "-"
      BY <1>1, <2>4, <2>5
    <2>7. Handed(b, h5_state_comment(s))
      BY <2>5, <2>6, CommentHands
    <2> QED
      BY <2>7 DEF s
  <1>4. Handed(b, h5_state_doctype(h)) /\ Handed(b, h5_state_bogus_comment(h))
    BY DoctypeHands, BogusCommentHands
  <1> QED
    BY <1>2, <1>3, <1>4 DEF h5_state_markup_declaration_open
-----------------------------------------------------------------------------
(* Data and the start of a tag.                                            *)

LEMMA UpToTagHands ==
    ASSUME NEW b, NEW h, Called(b, h), b < memchr(h.pos, "<")
    PROVE  Handed(b, UpToTag(h))
  <1> DEFINE end == memchr(h.pos, "<")
  <1>1. Length \in Nat /\ b \in Nat /\ h.pos \in b .. Length /\ h.pos \in 0 .. Length
    BY DEF Called
  <1>2. /\ end \in h.pos .. Length /\ (end # Length => At(end) = "<")
        /\ UpTo(h.pos, end, {"<"})
    BY <1>1, MemchrFacts, UpToFirst
  <1>3. UpToTag(h) = IF end = Length THEN Rest(h, "DATA_TEXT")
                     ELSE Token(h, "DATA_TEXT", h.pos, end, end + 1, "tag_open")
    BY DEF UpToTag
  <1>4. b < end
    OBVIOUS
  <1> HIDE DEF end
  <1>5. Whole("DATA_TEXT", h.pos, end)
    <2>1. WholeText(h.pos, end)
      BY <1>2 DEF WholeText
    <2> QED
      BY <2>1, WholeKinds
  <1>6. CASE end = Length
    <2>1. Handed(b, Rest(h, "DATA_TEXT"))
      BY <1>5, <1>6, RestFound
    <2> QED
      BY <1>3, <1>6, <2>1
  <1>7. CASE end # Length
    <2>1. end \in h.pos .. Length - 1
      BY <1>1, <1>2, <1>7
    <2>2. "tag_open" \in Marked /\ At(end) = Ahead("tag_open")
      BY <1>2, <1>7 DEF Marked, Ahead
    <2>3. Handed(b, Token(h, "DATA_TEXT", h.pos, end, end + 1, "tag_open"))
      BY <1>4, <1>5, <2>1, <2>2, FoundMarked
    <2> QED
      BY <1>3, <1>7, <2>3
  <1> QED
    BY <1>6, <1>7

LEMMA EndTagOpenHands ==
    ASSUME NEW b, NEW h, Called(b, h), b < h.pos, At(h.pos - 1) = "/"
    PROVE  Handed(b, h5_state_end_tag_open(h))
  <1> DEFINE c == [h EXCEPT !.is_close = FALSE]
  <1>1. Length \in Nat /\ b \in Nat /\ h.pos \in b .. Length /\ h.pos \in 0 .. Length
    BY DEF Called
  <1>2. b < memchr(h.pos, "<")
    BY <1>1, MemchrFacts
  <1>3. Called(b, c) /\ c.pos = h.pos
    BY ClearedCalled, ClearedIsKnown DEF Called
  <1> HIDE DEF c
  <1>4. c.pos > 0 /\ At(c.pos - 1) \in {"!", "/", "?"}
    BY <1>1, <1>3
  <1>5. Handed(b, h5_state_bogus_comment(c))
    BY <1>3, <1>4, BogusCommentHands
  <1>6. AtEnd(h) => Handed(b, None(h))
    BY NothingMore DEF SeesEof
  <1>7. Handed(b, UpToTag(h)) /\ Handed(b, h5_state_tag_name(h))
    BY <1>2, UpToTagHands, TagNameHands
  <1> QED
    BY <1>5, <1>6, <1>7 DEF h5_state_end_tag_open, c

LEMMA TagOpenHands ==
    ASSUME text \in Seq(STRING), NEW b, NEW h, Called(b, h), b < h.pos, At(h.pos - 1) = "<"
    PROVE  Handed(b, h5_state_tag_open(h))
  <1>1. Length \in Nat /\ b \in Nat /\ h.pos \in b .. Length /\ AllFree(b, h.pos) /\ Known(h)
    BY DEF Called
  <1>2. CASE AtEnd(h)
    BY <1>2, NothingMore DEF h5_state_tag_open, SeesEof
  <1>3. CASE ~AtEnd(h)
    <2> DEFINE s == Skip(h, 1)
               c == [s EXCEPT !.is_close = TRUE]
    <2>1. h.pos < Length
      BY <1>1, <1>3 DEF AtEnd
    <2>2. ASSUME At(h.pos) \in {"!", "/", "?", "%"}
          PROVE  Called(b, s) /\ b < s.pos /\ s.pos > 0 /\ At(s.pos - 1) = At(h.pos)
      <3>1. Called(b, s) /\ b < s.pos /\ s.pos = h.pos + 1 /\ At(s.pos - 1) = At(h.pos)
        BY <2>1, <2>2, SkipMark, MarksMore
      <3> QED
        BY <1>1, <3>1
    <2>3. h5_state_tag_open(h) =
            CASE At(h.pos) = "!" -> h5_state_markup_declaration_open(s)
              [] At(h.pos) = "/" -> h5_state_end_tag_open(c)
              [] At(h.pos) = "?" -> h5_state_bogus_comment(s)
              [] At(h.pos) = "%" -> h5_state_bogus_comment2(s)
              [] At(h.pos) \in Letters \cup {NUL} -> h5_state_tag_name(h)
              [] OTHER -> Token(h, "DATA_TEXT", h.pos - 1, h.pos, h.pos, "data")
      BY <1>3 DEF h5_state_tag_open
    <2>4. At(h.pos) \in Letters \cup {NUL} => At(h.pos) \notin {"!", "/", "?", "%"}
      BY SignsAreNoLetters
    <2>5. CASE At(h.pos) = "!"
      <3>1. Handed(b, h5_state_markup_declaration_open(s))
        BY <2>2, <2>5, MarkupHands
      <3> HIDE DEF s, c
      <3> QED
        BY <2>3, <2>4, <2>5, <3>1
    <2>6. CASE At(h.pos) = "/"
      <3>1. Called(b, s) /\ b < s.pos /\ At(s.pos - 1) = "/"
        BY <2>2, <2>6
      <3> HIDE DEF s
      <3>2. Called(b, c) /\ c.pos = s.pos
        BY <3>1, ClearedCalled, ClearedIsKnown DEF Called
      <3>3. Handed(b, h5_state_end_tag_open(c))
        BY <3>1, <3>2, EndTagOpenHands
      <3> HIDE DEF c
      <3> QED
        BY <2>3, <2>4, <2>6, <3>3
    <2>7. CASE At(h.pos) = "?"
      <3>1. Handed(b, h5_state_bogus_comment(s))
        BY <2>2, <2>7, BogusCommentHands
      <3> HIDE DEF s, c
      <3> QED
        BY <2>3, <2>4, <2>7, <3>1
    <2>8. CASE At(h.pos) = "%"
      <3>1. Handed(b, h5_state_bogus_comment2(s))
        BY <2>2, <2>8, BogusComment2Hands
      <3> HIDE DEF s, c
      <3> QED
        BY <2>3, <2>4, <2>8, <3>1
    <2>9. CASE At(h.pos) \in Letters \cup {NUL}
      <3>1. Handed(b, h5_state_tag_name(h))
        BY TagNameHands
      <3> HIDE DEF s, c
      <3> QED
        BY <2>3, <2>4, <2>9, <3>1
    <2>10. CASE At(h.pos) \notin Letters \cup {NUL} /\ At(h.pos) \notin {"!", "/", "?", "%"}
      <3>1. h.pos - 1 \in Nat /\ h.pos \in Nat /\ h.pos \in 0 .. Length /\ h.pos = h.pos - 1 + 1
        BY <1>1
      <3>2. Enters("data", h.pos) /\ Lee("data") = 0 /\ "data" # "eof"
        BY <1>1, <3>1, EntersPlain DEF Plain
      <3>3. \A i \in b .. h.pos - 1 : Free(i) \/ i \in h.pos - 1 .. h.pos - 1
        BY <1>1 DEF AllFree
      <3>4. Spans(b, h.pos - 1, h.pos, h.pos, "data")
        BY <1>1, <3>1, <3>2, <3>3 DEF Spans
      <3>5. WholeText(h.pos - 1, h.pos)
        BY <3>1 DEF WholeText
      <3>6. Whole("DATA_TEXT", h.pos - 1, h.pos)
        BY <3>5, WholeKinds
      <3>7. Handed(b, Token(h, "DATA_TEXT", h.pos - 1, h.pos, h.pos, "data"))
        BY <3>1, <3>2, <3>4, <3>6, TokenFound
      <3> HIDE DEF s, c
      <3> QED
        BY <2>3, <2>10, <3>7
    <2> QED
      BY <2>5, <2>6, <2>7, <2>8, <2>9, <2>10
  <1> QED
    BY <1>2, <1>3

LEMMA DataHands ==
    ASSUME text \in Seq(STRING), NEW b, NEW h, Called(b, h)
    PROVE  Handed(b, h5_state_data(h))
  <1> DEFINE end == memchr(h.pos, "<")
             u == UpToTag(h)
  <1>1. /\ Length \in Nat /\ b \in Nat /\ h.pos \in b .. Length /\ h.pos \in 0 .. Length
        /\ AllFree(b, h.pos) /\ Known(h)
    BY DEF Called
  <1>2. end \in h.pos .. Length /\ (end # Length => At(end) = "<")
    BY <1>1, MemchrFacts
  <1>3. h5_state_data(h) = IF u.size > 0 THEN u
                           ELSE IF u.state = "eof" THEN None(u) ELSE h5_state_tag_open(u)
    <2>1. ~(h.pos > Length)
      BY <1>1
    <2> QED
      BY <2>1 DEF h5_state_data
  <1>4. CASE end > h.pos
    <2>1. u.size = end - h.pos
      BY <1>1, TokenFacts DEF UpToTag, Rest
    <2>2. u.size > 0 /\ b < end
      BY <1>1, <1>2, <1>4, <2>1
    <2>3. Handed(b, u)
      BY <2>2, UpToTagHands
    <2> QED
      BY <1>3, <2>2, <2>3
  <1>5. CASE end = h.pos /\ end = Length
    <2>1. /\ Known(u) /\ u.size = Length - h.pos /\ u.pos = h.pos /\ u.state = "eof"
      BY <1>1, <1>5, TokenFacts DEF UpToTag, Rest
    <2> HIDE DEF u
    <2>2. ~(u.size > 0)
      BY <1>1, <1>5, <2>1
    <2>3. Called(b, u) /\ SeesEof(u)
      BY <1>1, <1>5, <2>1 DEF Called, AtEnd, SeesEof
    <2> QED
      BY <1>3, <2>1, <2>2, <2>3, NothingMore
  <1>6. CASE end = h.pos /\ end # Length
    <2>1. /\ Known(u) /\ u.size = end - h.pos /\ u.pos = end + 1 /\ u.state = "tag_open"
      BY <1>1, <1>6, TokenFacts DEF UpToTag
    <2> HIDE DEF u, end
    <2>2. ~(u.size > 0) /\ u.state # "eof"
      BY <1>1, <1>6, <2>1
    <2>3. AllFree(h.pos, h.pos + 1)
      BY <1>1, <1>2, <1>6, MarksMore, MarksAreFree, FreeIsAllFree
    <2>4. AllFree(b, h.pos + 1)
      BY <1>1, <2>3, AllFreeMore
    <2>5. Called(b, u) /\ b < u.pos /\ At(u.pos - 1) = "<"
      BY <1>1, <1>2, <1>6, <2>1, <2>4 DEF Called
    <2> QED
      BY <1>3, <2>2, <2>5, TagOpenHands
  <1> QED
    BY <1>1, <1>2, <1>4, <1>5, <1>6
-----------------------------------------------------------------------------
(* A call, whatever the state.                                             *)

LEMMA NextHands ==
    ASSUME text \in Seq(STRING), NEW h, Known(h), Enters(h.state, h.pos), h.state # "eof"
    PROVE  Handed(h.pos - Lee(h.state), libinjection_h5_next(h))
  <1> DEFINE b == h.pos - Lee(h.state)
  <1>1. Length \in Nat
    BY DEF Length
  <1>2. Lee(h.state) \in {0, 1}
    BY DEF Lee
  <1>3. h.state \in States /\ h.pos \in 0 .. Length /\ Lee(h.state) <= h.pos /\ AllFree(b, h.pos)
    BY DEF Enters
  <1>4. b \in Nat /\ h.pos \in b .. Length
    BY <1>1, <1>2, <1>3
  <1>5. Called(b, h)
    BY <1>1, <1>3, <1>4 DEF Called
  <1>6. h.state \in Marked => b < h.pos /\ At(h.pos - 1) = Ahead(h.state)
    <2>1. h.state \in Marked => Lee(h.state) = 1
      BY DEF Marked, Lee
    <2> QED
      BY <1>3, <2>1 DEF Enters
  <1> HIDE DEF b
  <1>7. CASE h.state \in Marked
    <2>1. b < h.pos /\ At(h.pos - 1) = Ahead(h.state)
      BY <1>6, <1>7
    <2>2. CASE h.state = "tag_open"
      <3>1. At(h.pos - 1) = "<"
        BY <2>1, <2>2 DEF Ahead
      <3> QED
        BY <1>5, <2>1, <2>2, <3>1, TagOpenHands DEF libinjection_h5_next, b
    <2>3. CASE h.state = "self_closing_start_tag"
      <3>1. At(h.pos - 1) = "/"
        BY <2>1, <2>3 DEF Ahead
      <3> QED
        BY <1>5, <2>1, <2>3, <3>1, SelfClosingHands DEF libinjection_h5_next, b
    <2>4. CASE h.state = "before_attribute_value"
      <3>1. At(h.pos - 1) = "="
        BY <2>1, <2>4 DEF Ahead
      <3> QED
        BY <1>5, <2>1, <2>4, <3>1, BeforeAttributeValueHands DEF libinjection_h5_next, b
    <2> QED
      BY <1>7, <2>2, <2>3, <2>4 DEF Marked
  <1>8. CASE h.state \in Plain
    <2>1. CASE h.state = "data"
      BY <1>5, <2>1, DataHands DEF libinjection_h5_next, b
    <2>2. CASE h.state = "before_attribute_name"
      BY <1>5, <2>2, BeforeAttributeNameHands DEF libinjection_h5_next, b
    <2>3. CASE h.state = "after_attribute_name"
      BY <1>5, <2>3, AfterAttributeNameHands DEF libinjection_h5_next, b
    <2>4. CASE h.state = "after_attribute_value_quoted_state"
      BY <1>5, <2>4, AfterValueQuotedHands DEF libinjection_h5_next, b
    <2> QED
      BY <1>8, <2>1, <2>2, <2>3, <2>4 DEF Plain
  <1>9. CASE h.state = "tag_name_close"
    <2>1. h.pos < Length /\ At(h.pos) = ">"
      BY <1>9 DEF Enters
    <2> QED
      BY <1>5, <1>9, <2>1, TagNameCloseHands DEF libinjection_h5_next, b
  <1>10. CASE h.state \in Quoted
    <2>1. ~(h.pos > 0)
      BY <1>10 DEF Enters
    <2>2. \A quote \in QuoteBytes : Handed(b, h5_state_attribute_value_quote(h, quote))
      BY <1>5, <2>1, ValueQuoteHands
    <2>3. \E quote \in QuoteBytes :
             libinjection_h5_next(h) = h5_state_attribute_value_quote(h, quote)
      <3>1. CASE h.state = "attribute_value_single_quote"
        BY <3>1, Zenon DEF libinjection_h5_next, QuoteBytes
      <3>2. CASE h.state = "attribute_value_double_quote"
        BY <3>2, Zenon DEF libinjection_h5_next, QuoteBytes
      <3>3. CASE h.state = "attribute_value_back_quote"
        BY <3>3, Zenon DEF libinjection_h5_next, QuoteBytes
      <3> QED
        BY <1>10, <3>1, <3>2, <3>3 DEF Quoted
    <2> QED
      BY <2>2, <2>3 DEF b
  <1>11. h.state \in Marked \/ h.state \in Plain \/ h.state = "tag_name_close" \/ h.state \in Quoted
    BY <1>3 DEF States, Marked, Plain
  <1> QED
    BY <1>7, <1>8, <1>9, <1>10, <1>11 DEF b
-----------------------------------------------------------------------------
(* The invariant.                                                          *)

TokenRecords == [type : TokenTypes, start : Nat, size : Nat]

(* Tokens of the text, one after the other, each whole. *)
Ordered(toks) ==
    /\ toks \in Seq(TokenRecords)
    /\ \A k \in 1 .. Len(toks) :
          /\ EndOf(toks[k]) <= Length
          /\ Whole(toks[k].type, toks[k].start, EndOf(toks[k]))
          /\ k > 1 => EndOf(toks[k - 1]) <= toks[k].start
(* Nothing before n is lost. *)
Seen(toks, n) ==
    \A i \in 0 .. n - 1 :
        Free(i) \/ \E k \in 1 .. Len(toks) : i \in toks[k].start .. EndOf(toks[k]) - 1

(* A scan that is over saw everything, or met what it took for the end.    *)
Finished(toks, h) ==
    \/ Seen(toks, Length)
    \/ h.pos < Length /\ At(h.pos) \in EofBytes /\ Seen(toks, h.pos)
Stopped(toks, h) == Len(toks) <= Length + 1 /\ Finished(toks, h)

(* Up to where the tokens are when h is called, and how many there can be. *)
FrontOf(h) == IF h.state = "eof" THEN Length ELSE h.pos - Lee(h.state)
Room(h) == IF h.state = "eof" THEN Length + 1 ELSE h.pos - Lee(h.state)
Reached(h) == IF h.state = "eof" THEN Length ELSE h.pos

Line(toks, h) ==
    /\ Enters(h.state, h.pos)
    /\ \A k \in 1 .. Len(toks) : EndOf(toks[k]) <= FrontOf(h)
    /\ Len(toks) <= Room(h)
    /\ Seen(toks, Reached(h))

HInv ==
    /\ text \in Seq(STRING) /\ alphabet \in Alphabets /\ pieces \in 0 .. alphabet.most
    /\ pc \in {"writing", "scanning", "stopped"}
    /\ Known(hs) /\ hs.pos \in 0 .. Length /\ hs.ret \in {0, 1}
    /\ Ordered(tokens)
    /\ pc = "writing" => tokens = <<>> /\ hs.pos = 0
    /\ pc = "scanning" => Line(tokens, hs)
    /\ pc = "stopped" => Stopped(tokens, hs)

TokenFrom(h) == [type |-> h.type, start |-> h.start, size |-> h.size]
-----------------------------------------------------------------------------
LEMMA FrontFacts ==
    ASSUME text \in Seq(STRING), NEW h, Enters(h.state, h.pos)
    PROVE  /\ Length \in Nat /\ h.pos \in 0 .. Length
           /\ FrontOf(h) \in 0 .. Length /\ Room(h) \in 0 .. Length + 1
           /\ Reached(h) \in FrontOf(h) .. Length
           /\ h.state # "eof" => FrontOf(h) = h.pos - Lee(h.state) /\ Room(h) = FrontOf(h)
           /\ AllFree(FrontOf(h), Reached(h))
  <1>1. Length \in Nat
    BY DEF Length
  <1>2. Lee(h.state) \in {0, 1}
    BY DEF Lee
  <1>3. h.pos \in 0 .. Length /\ Lee(h.state) <= h.pos /\ AllFree(h.pos - Lee(h.state), h.pos)
    BY DEF Enters
  <1>4. CASE h.state = "eof"
    BY <1>1, <1>3, <1>4 DEF FrontOf, Room, Reached, AllFree
  <1>5. CASE h.state # "eof"
    BY <1>1, <1>2, <1>3, <1>5 DEF FrontOf, Room, Reached
  <1> QED
    BY <1>4, <1>5

LEMMA AppendFacts ==
    ASSUME NEW S, NEW s \in Seq(S), NEW e \in S
    PROVE  /\ Append(s, e) \in Seq(S)
           /\ Len(Append(s, e)) = Len(s) + 1 /\ Len(s) \in Nat
           /\ \A k \in 1 .. Len(s) : Append(s, e)[k] = s[k]
           /\ Append(s, e)[Len(s) + 1] = e
  OBVIOUS

\* A token found in a scan goes behind the others, and the scan goes on.
LEMMA FoundGoesOn ==
    ASSUME text \in Seq(STRING), NEW toks, Ordered(toks), NEW h, Line(toks, h),
           h.state # "eof", NEW r, Found(FrontOf(h), r)
    PROVE  Ordered(Append(toks, TokenFrom(r))) /\ Line(Append(toks, TokenFrom(r)), r)
  <1> DEFINE token == TokenFrom(r)
             more == Append(toks, token)
             n == Len(toks)
             b == FrontOf(h)
  <1>1. /\ Length \in Nat /\ h.pos \in 0 .. Length
        /\ FrontOf(h) \in 0 .. Length /\ Reached(h) \in FrontOf(h) .. Length
        /\ Room(h) = FrontOf(h) /\ AllFree(FrontOf(h), Reached(h))
    BY FrontFacts DEF Line
  <1>2. /\ r.start \in Nat /\ r.size \in Nat /\ Enters(r.state, r.pos)
        /\ Spans(b, r.start, r.start + r.size, r.pos, r.state)
        /\ Whole(r.type, r.start, r.start + r.size)
    BY DEF Found
  <1>3. /\ token \in TokenRecords /\ token.start = r.start /\ EndOf(token) = r.start + r.size
        /\ token.type = r.type
    BY <1>2 DEF TokenRecords, TokenFrom, EndOf, Whole
  <1>4. toks \in Seq(TokenRecords)
    BY DEF Ordered
  <1> HIDE DEF token
  <1>5. /\ more \in Seq(TokenRecords) /\ Len(more) = n + 1 /\ n \in Nat
        /\ \A k \in 1 .. n : more[k] = toks[k]
        /\ more[n + 1] = token
    BY <1>3, <1>4, AppendFacts
  <1> HIDE DEF more
  <1>6. /\ Length \in Nat /\ r.pos \in 0 .. Length
        /\ FrontOf(r) \in 0 .. Length /\ Room(r) \in 0 .. Length + 1
        /\ Reached(r) \in FrontOf(r) .. Length
        /\ r.state # "eof" => FrontOf(r) = r.pos - Lee(r.state) /\ Room(r) = FrontOf(r)
    BY <1>2, FrontFacts
  <1>7. /\ b <= r.start /\ r.start <= EndOf(token) /\ EndOf(token) <= Length
        /\ EndOf(token) <= FrontOf(r) /\ b < Room(r) /\ b <= FrontOf(r)
        /\ \A i \in b .. Reached(r) - 1 : Free(i) \/ i \in token.start .. EndOf(token) - 1
    <2>1. CASE r.state = "eof"
      BY <1>1, <1>2, <1>3, <2>1 DEF Spans, FrontOf, Room, Reached
    <2>2. CASE r.state # "eof"
      <3>1. /\ b <= r.start /\ r.start <= EndOf(token) /\ EndOf(token) <= Length
            /\ EndOf(token) <= FrontOf(r) /\ b < FrontOf(r)
            /\ \A i \in b .. r.pos - 1 : Free(i) \/ i \in token.start .. EndOf(token) - 1
        BY <1>2, <1>3, <1>6, <2>2 DEF Spans
      <3>2. Room(r) = FrontOf(r) /\ Reached(r) = r.pos
        BY <1>6, <2>2 DEF Reached
      <3> QED
        BY <1>1, <1>6, <3>1, <3>2
    <2> QED
      BY <2>1, <2>2
  <1>5a. ASSUME NEW k \in 1 .. n PROVE EndOf(toks[k]) \in Nat
    <2>1. toks[k] \in TokenRecords
      BY <1>4
    <2> QED
      BY <2>1 DEF TokenRecords, EndOf
  <1>8. /\ \A k \in 1 .. n : EndOf(toks[k]) <= b
        /\ n <= b /\ Seen(toks, Reached(h))
    BY <1>1 DEF Line
  <1>9. Ordered(more)
    <2>1. ASSUME NEW k \in 1 .. n + 1
          PROVE  /\ EndOf(more[k]) <= Length
                 /\ Whole(more[k].type, more[k].start, EndOf(more[k]))
                 /\ k > 1 => EndOf(more[k - 1]) <= more[k].start
      <3>1. CASE k = n + 1
        <4>1. k > 1 => k - 1 \in 1 .. n
          BY <1>5, <3>1
        <4>2. k > 1 => EndOf(more[k - 1]) <= b
          BY <1>5, <1>8, <4>1
        <4>3. k > 1 => EndOf(more[k - 1]) \in Nat
          BY <1>5, <1>5a, <4>1
        <4>4. more[k] = token
          BY <1>5, <3>1
        <4>5. k > 1 => EndOf(more[k - 1]) <= more[k].start
          BY <1>1, <1>2, <1>3, <1>7, <4>2, <4>3, <4>4
        <4> QED
          BY <1>2, <1>3, <1>7, <4>4, <4>5
      <3>2. CASE k \in 1 .. n
        <4>1. more[k] = toks[k] /\ (k > 1 => more[k - 1] = toks[k - 1])
          BY <1>5, <3>2
        <4> QED
          BY <3>2, <4>1 DEF Ordered
      <3> QED
        BY <1>5, <3>1, <3>2
    <2> QED
      BY <1>5, <2>1 DEF Ordered
  <1>10. Seen(more, Reached(r))
    <2>1. ASSUME NEW i \in 0 .. Reached(r) - 1
          PROVE  Free(i) \/ \E k \in 1 .. Len(more) : i \in more[k].start .. EndOf(more[k]) - 1
      <3>1. CASE i >= b
        <4>1. Free(i) \/ i \in token.start .. EndOf(token) - 1
          BY <1>1, <1>6, <1>7, <3>1
        <4> QED
          BY <1>5, <4>1
      <3>2. CASE i < b
        <4>1. i \in 0 .. Reached(h) - 1
          BY <1>1, <1>6, <3>2
        <4>2. Free(i) \/ \E k \in 1 .. n : i \in toks[k].start .. EndOf(toks[k]) - 1
          BY <1>8, <4>1 DEF Seen
        <4> QED
          BY <1>5, <4>2
      <3> QED
        BY <1>1, <1>6, <3>1, <3>2
    <2> QED
      BY <2>1 DEF Seen
  <1>11. ASSUME NEW k \in 1 .. Len(more) PROVE EndOf(more[k]) <= FrontOf(r)
    <2>1. CASE k = n + 1
      BY <1>5, <1>7, <2>1
    <2>2. CASE k \in 1 .. n
      <3>1. EndOf(toks[k]) <= b /\ EndOf(toks[k]) \in Int
        BY <1>5a, <1>8, <2>2
      <3> QED
        BY <1>1, <1>5, <1>6, <1>7, <2>2, <3>1
    <2> QED
      BY <1>5, <2>1, <2>2
  <1>12. Len(more) <= Room(r)
    BY <1>1, <1>5, <1>6, <1>7, <1>8
  <1>13. Line(more, r)
    BY <1>2, <1>10, <1>11, <1>12 DEF Line
  <1> QED
    BY <1>9, <1>13 DEF more, token

\* What is seen and what is free in one.
LEMMA SeenMore ==
    ASSUME NEW toks, NEW m \in Nat, NEW b \in 0 .. m, NEW n \in Nat, Seen(toks, m), AllFree(b, n)
    PROVE  Seen(toks, n)
  <1>1. ASSUME NEW i \in 0 .. n - 1
        PROVE  Free(i) \/ \E k \in 1 .. Len(toks) : i \in toks[k].start .. EndOf(toks[k]) - 1
    <2>1. CASE i >= b
      BY <2>1 DEF AllFree
    <2>2. CASE i < b
      BY <2>2 DEF Seen
    <2> QED
      BY <2>1, <2>2
  <1> QED
    BY <1>1 DEF Seen

\* A scan that ends has seen everything before where it ends.
LEMMA EndedHasSeen ==
    ASSUME text \in Seq(STRING), NEW toks, Len(toks) \in Nat, NEW h, Line(toks, h),
           NEW r, h.state # "eof" => Left(FrontOf(h), r.pos)
    PROVE  Stopped(toks, r)
  <1>1. /\ Length \in Nat /\ FrontOf(h) \in 0 .. Length /\ Room(h) \in 0 .. Length + 1
        /\ Reached(h) \in FrontOf(h) .. Length
    BY FrontFacts DEF Line
  <1>2. Len(toks) <= Length + 1 /\ Seen(toks, Reached(h))
    BY <1>1 DEF Line
  <1>3. CASE h.state = "eof"
    <2>1. Reached(h) = Length
      BY <1>3 DEF Reached
    <2> QED
      BY <1>2, <2>1 DEF Stopped, Finished
  <1>4. CASE h.state # "eof" /\ AllFree(FrontOf(h), Length)
    <2>1. Seen(toks, Length)
      BY <1>1, <1>2, <1>4, SeenMore
    <2> QED
      BY <1>2, <2>1 DEF Stopped, Finished
  <1>5. CASE /\ r.pos \in FrontOf(h) .. Length - 1 /\ At(r.pos) \in EofBytes
             /\ AllFree(FrontOf(h), r.pos)
    <2>1. r.pos \in Nat /\ r.pos < Length /\ Reached(h) \in Nat /\ FrontOf(h) \in 0 .. Reached(h)
      BY <1>1, <1>5
    <2>2. Seen(toks, r.pos)
      BY <1>2, <1>5, <2>1, SeenMore
    <2> QED
      BY <1>2, <1>5, <2>1, <2>2 DEF Stopped, Finished
  <1> QED
    BY <1>3, <1>4, <1>5 DEF Left
-----------------------------------------------------------------------------
LEMMA InitHInv ==
    ASSUME AlphabetsAreTexts, Init
    PROVE  HInv
  <1>1. /\ alphabet \in Alphabets /\ text = <<>> /\ pieces = 0 /\ pc = "writing"
        /\ hs = Blank("data") /\ tokens = <<>>
    BY DEF Init
  <1>2. alphabet.most \in Nat
    BY <1>1 DEF AlphabetsAreTexts
  <1>3. text \in Seq(STRING) /\ Length = 0
    BY <1>1 DEF Length
  <1>4. Known(hs) /\ hs.pos = 0 /\ hs.ret = 1
    BY <1>1 DEF Blank, Known, Fields
  <1>5. Ordered(tokens)
    BY <1>1 DEF Ordered
  <1> QED
    BY <1>1, <1>2, <1>3, <1>4, <1>5 DEF HInv

LEMMA WriteHInv ==
    ASSUME AlphabetsAreTexts, HInv, NEW piece \in alphabet.pieces, Write(piece)
    PROVE  HInv'
  <1>1. /\ text \in Seq(STRING) /\ alphabet \in Alphabets /\ pieces \in 0 .. alphabet.most
        /\ Known(hs) /\ hs.ret \in {0, 1} /\ tokens = <<>> /\ hs.pos = 0
    BY DEF HInv, Write
  <1>2. /\ pc = "writing" /\ pieces < alphabet.most
        /\ text' = text \o piece /\ pieces' = pieces + 1
        /\ alphabet' = alphabet /\ pc' = pc /\ hs' = hs /\ tokens' = tokens
    BY DEF Write
  <1>3. piece \in Seq(STRING) /\ alphabet.most \in Nat
    BY <1>1 DEF AlphabetsAreTexts
  <1>4. text' \in Seq(STRING) /\ Length' \in Nat
    BY <1>1, <1>2, <1>3 DEF Length
  <1>5. pieces' \in 0 .. alphabet'.most
    BY <1>1, <1>2, <1>3
  <1>6. Known(hs')
    BY <1>1, <1>2
  <1>7. Ordered(tokens)'
    BY <1>1, <1>2 DEF Ordered
  <1>8. hs'.pos \in 0 .. Length'
    BY <1>1, <1>2, <1>4
  <1>9. pc' \in {"writing", "scanning", "stopped"} /\ pc' # "scanning" /\ pc' # "stopped"
    BY <1>2
  <1> QED
    BY <1>1, <1>2, <1>4, <1>5, <1>6, <1>7, <1>8, <1>9 DEF HInv

\* The text, and with it what is said of its bytes, stays the same once it is read.
LEMMA SameText ==
    ASSUME text' = text, Ordered(tokens'), Known(hs'), hs'.pos \in 0 .. Length,
           pc' = "scanning" => Line(tokens', hs'),
           pc' = "stopped" => Stopped(tokens', hs')
    PROVE  /\ Ordered(tokens)' /\ (hs.pos \in 0 .. Length)'
           /\ pc' = "scanning" => Line(tokens, hs)'
           /\ pc' = "stopped" => Stopped(tokens, hs)'
  <1>1. Length' = Length /\ \A i : At(i)' = At(i)
    BY DEF Length, At
  <1>2. \A i, word : Word(i, word)' = Word(i, word)
    BY <1>1 DEF Word
  <1>3. \A i : Free(i)' = Free(i)
    BY <1>1, <1>2 DEF Free, Opening
  <1>4. /\ \A start, end, bytes : UpTo(start, end, bytes) => UpTo(start, end, bytes)'
        /\ \A start, end, word : UpToWord(start, end, word) => UpToWord(start, end, word)'
    BY <1>1, <1>2 DEF UpTo, UpToWord
  <1>5. /\ \A start, end : WholeValue(start, end) => WholeValue(start, end)'
        /\ \A start, end : WholeComment(start, end) => WholeComment(start, end)'
        /\ \A start, end : WholeText(start, end) => WholeText(start, end)'
    <2>1. ASSUME NEW start, NEW end, WholeValue(start, end) PROVE WholeValue(start, end)'
      BY <1>1, <1>4, <2>1 DEF WholeValue
    <2>2. ASSUME NEW start, NEW end, WholeComment(start, end) PROVE WholeComment(start, end)'
      BY <1>1, <1>2, <1>4, <2>2 DEF WholeComment
    <2>3. ASSUME NEW start, NEW end, WholeText(start, end) PROVE WholeText(start, end)'
      BY <1>1, <1>2, <1>4, <2>3 DEF WholeText
    <2> QED
      BY <2>1, <2>2, <2>3
  <1>6. \A type, start, end : Whole(type, start, end) => Whole(type, start, end)'
    BY <1>1, <1>4, <1>5 DEF Whole
  <1>7. Ordered(tokens)'
    BY <1>1, <1>6 DEF Ordered
  <1>8. \A n : Seen(tokens', n) => Seen(tokens, n)'
    BY <1>3 DEF Seen
  <1>9. Line(tokens', hs') => Line(tokens, hs)'
    <2>1. Enters(hs'.state, hs'.pos) => Enters(hs.state, hs.pos)'
      BY <1>1, <1>3 DEF Enters, AllFree
    <2>2. FrontOf(hs)' = FrontOf(hs') /\ Room(hs)' = Room(hs') /\ Reached(hs)' = Reached(hs')
      BY <1>1 DEF FrontOf, Room, Reached
    <2>3. Seen(tokens', Reached(hs')) => Seen(tokens, Reached(hs))'
      BY <1>3, <2>2 DEF Seen
    <2> QED
      BY <2>1, <2>2, <2>3 DEF Line
  <1>10. Stopped(tokens', hs') => Stopped(tokens, hs)'
    BY <1>1, <1>3 DEF Stopped, Finished, Seen
  <1> QED
    BY <1>1, <1>7, <1>9, <1>10
-----------------------------------------------------------------------------
LEMMA FirstStateEnters ==
    ASSUME Length \in Nat, NEW flags \in Flags
    PROVE  Enters(FirstState(flags), 0) /\ Lee(FirstState(flags)) = 0 /\ FirstState(flags) # "eof"
  <1>1. FirstState(flags) \in {"data", "before_attribute_name"} \cup Quoted
    BY DEF Flags, FirstState, Quoted
  <1>2. CASE FirstState(flags) \in {"data", "before_attribute_name"}
    <2>1. FirstState(flags) \in Plain /\ 0 \in 0 .. Length
      BY <1>2 DEF Plain
    <2> QED
      BY <2>1, EntersPlain
  <1>3. CASE FirstState(flags) \in Quoted
    <2>1. /\ FirstState(flags) \in States /\ FirstState(flags) # "tag_name_close"
          /\ FirstState(flags) # "eof" /\ Lee(FirstState(flags)) = 0
      BY <1>3 DEF Quoted, States, Lee
    <2> QED
      BY <2>1 DEF Enters, AllFree
  <1> QED
    BY <1>1, <1>2, <1>3

LEMMA InitCallHInv ==
    ASSUME AlphabetsAreTexts, HInv, NEW flags \in ToSet(alphabet.contexts),
           libinjection_h5_init(flags)
    PROVE  HInv'
  <1>1. /\ text \in Seq(STRING) /\ alphabet \in Alphabets /\ pieces \in 0 .. alphabet.most
        /\ tokens = <<>> /\ Ordered(tokens)
    BY DEF HInv, libinjection_h5_init
  <1>2. /\ hs' = Blank(FirstState(flags)) /\ pc' = "scanning"
        /\ alphabet' = alphabet /\ text' = text /\ pieces' = pieces /\ tokens' = tokens
    BY DEF libinjection_h5_init
  <1>3. flags \in Flags /\ Length \in Nat
    BY <1>1 DEF AlphabetsAreTexts, Length
  <1>4. Known(hs') /\ hs'.pos = 0 /\ hs'.ret = 1 /\ hs'.state = FirstState(flags)
    BY <1>2 DEF Blank, Known, Fields
  <1>5. Enters(hs'.state, hs'.pos) /\ Lee(hs'.state) = 0 /\ hs'.state # "eof"
    BY <1>3, <1>4, FirstStateEnters
  <1>6. Room(hs') = 0 /\ Reached(hs') = 0
    BY <1>4, <1>5 DEF Room, Reached
  <1>7. Line(tokens', hs')
    BY <1>1, <1>2, <1>5, <1>6 DEF Line, Seen
  <1>8. hs'.pos \in 0 .. Length
    BY <1>3, <1>4
  <1>9. Ordered(tokens)' /\ (hs.pos \in 0 .. Length)' /\ (pc' = "scanning" => Line(tokens, hs)')
    BY <1>1, <1>2, <1>4, <1>7, <1>8, SameText
  <1> QED
    BY <1>1, <1>2, <1>4, <1>9 DEF HInv

LEMMA CallHInv ==
    ASSUME HInv, Call
    PROVE  HInv'
  <1> DEFINE r == libinjection_h5_next(hs)
  <1>1. /\ text \in Seq(STRING) /\ alphabet \in Alphabets /\ pieces \in 0 .. alphabet.most
        /\ Known(hs) /\ hs.pos \in 0 .. Length /\ Ordered(tokens) /\ Line(tokens, hs)
    BY DEF HInv, Call
  <1>2. /\ hs' = r
        /\ pc' = IF r.ret = 1 THEN "scanning" ELSE "stopped"
        /\ tokens' = IF r.ret # 1 THEN tokens ELSE Append(tokens, TokenFrom(r))
        /\ alphabet' = alphabet /\ text' = text /\ pieces' = pieces
    BY DEF Call, TokenFrom
  <1>3. /\ Length \in Nat /\ FrontOf(hs) \in 0 .. Length
        /\ hs.state # "eof" => FrontOf(hs) = hs.pos - Lee(hs.state)
    BY <1>1, FrontFacts DEF Line
  <1>4. Len(tokens) \in Nat
    BY <1>1 DEF Ordered
  <1>5. \/ hs.state # "eof" /\ Found(FrontOf(hs), r)
        \/ /\ Known(r) /\ r.ret = 0 /\ r.pos \in 0 .. Length
           /\ hs.state # "eof" => Left(FrontOf(hs), r.pos)
    <2>1. CASE hs.state = "eof"
      <3>1. r = None(hs)
        BY <2>1 DEF libinjection_h5_next
      <3>2. Known(r) /\ r.ret = 0 /\ r.pos = hs.pos
        BY <1>1, <3>1, NoneFacts
      <3> QED
        BY <1>1, <2>1, <3>2
    <2>2. CASE hs.state # "eof"
      <3>1. Handed(FrontOf(hs), r)
        BY <1>1, <1>3, <2>2, NextHands DEF Line
      <3> QED
        BY <2>2, <3>1 DEF Handed, Ended
    <2> QED
      BY <2>1, <2>2
  <1> HIDE DEF r
  <1>6. CASE hs.state # "eof" /\ Found(FrontOf(hs), r)
    <2>1. Known(r) /\ r.ret = 1 /\ Enters(r.state, r.pos)
      BY <1>6 DEF Found
    <2>2. hs' = r /\ pc' = "scanning" /\ tokens' = Append(tokens, TokenFrom(r))
      BY <1>2, <2>1
    <2>3. Ordered(tokens') /\ Line(tokens', hs')
      BY <1>1, <1>6, <2>2, FoundGoesOn
    <2>4. Known(hs') /\ hs'.pos \in 0 .. Length /\ hs'.ret \in {0, 1}
      BY <2>1, <2>2 DEF Enters
    <2>5. Ordered(tokens)' /\ (hs.pos \in 0 .. Length)' /\ Line(tokens, hs)'
      BY <1>2, <2>2, <2>3, <2>4, SameText
    <2> QED
      BY <1>1, <1>2, <2>2, <2>4, <2>5 DEF HInv
  <1>7. CASE /\ Known(r) /\ r.ret = 0 /\ r.pos \in 0 .. Length
             /\ hs.state # "eof" => Left(FrontOf(hs), r.pos)
    <2>1. hs' = r /\ pc' = "stopped" /\ tokens' = tokens
      BY <1>2, <1>7
    <2>2. Stopped(tokens, r)
      BY <1>1, <1>4, <1>7, EndedHasSeen
    <2>3. Known(hs') /\ hs'.pos \in 0 .. Length /\ hs'.ret \in {0, 1}
      BY <1>7, <2>1
    <2>4. Ordered(tokens)' /\ (hs.pos \in 0 .. Length)' /\ Stopped(tokens, hs)'
      BY <1>1, <1>2, <2>1, <2>2, <2>3, SameText
    <2> QED
      BY <1>1, <1>2, <2>1, <2>3, <2>4 DEF HInv
  <1> QED
    BY <1>5, <1>6, <1>7

LEMMA NextHInv ==
    ASSUME AlphabetsAreTexts, HInv, [Next]_vars
    PROVE  HInv'
  <1>1. CASE UNCHANGED vars
    <2>1. /\ alphabet' = alphabet /\ text' = text /\ pieces' = pieces /\ pc' = pc
          /\ hs' = hs /\ tokens' = tokens
      BY <1>1 DEF vars
    <2>2. Ordered(tokens') /\ Known(hs') /\ hs'.pos \in 0 .. Length
          /\ (pc' = "scanning" => Line(tokens', hs'))
          /\ (pc' = "stopped" => Stopped(tokens', hs'))
      BY <2>1 DEF HInv
    <2>3. /\ Ordered(tokens)' /\ (hs.pos \in 0 .. Length)'
          /\ pc' = "scanning" => Line(tokens, hs)'
          /\ pc' = "stopped" => Stopped(tokens, hs)'
      BY <2>1, <2>2, SameText
    <2> QED
      BY <2>1, <2>2, <2>3 DEF HInv
  <1>2. CASE \E piece \in alphabet.pieces : Write(piece)
    BY <1>2, WriteHInv
  <1>3. CASE \E flags \in ToSet(alphabet.contexts) : libinjection_h5_init(flags)
    BY <1>3, InitCallHInv
  <1>4. CASE Call
    BY <1>4, CallHInv
  <1> QED
    BY <1>1, <1>2, <1>3, <1>4 DEF Next
-----------------------------------------------------------------------------
(* What the invariant says of the tokens.                                  *)

LEMMA HInvKeepsText == HInv => KeepsText
  <1> SUFFICES ASSUME HInv PROVE KeepsText
    OBVIOUS
  <1>1. text \in Seq(STRING) /\ Ordered(tokens) /\ Length \in Nat
    BY DEF HInv, Length
  <1>2. tokens \in Seq(TokenRecords) /\ DOMAIN tokens = 1 .. Len(tokens) /\ Len(tokens) \in Nat
    BY <1>1 DEF Ordered
  <1>3. ASSUME NEW k \in DOMAIN tokens
        PROVE  tokens[k].start \in Nat /\ tokens[k].size \in Nat
    <2>1. tokens[k] \in TokenRecords
      BY <1>2
    <2> QED
      BY <2>1 DEF TokenRecords
  <1>4. TypeOK
    BY DEF TypeOK, HInv, Known
  <1>5. TokensInOrder
    <2>1. ASSUME NEW k \in DOMAIN tokens
          PROVE  /\ tokens[k].start >= 0 /\ tokens[k].size >= 0
                 /\ tokens[k].start + tokens[k].size <= Length
                 /\ k > 1 => tokens[k].start >= tokens[k - 1].start + tokens[k - 1].size
      <3>1. /\ tokens[k].start + tokens[k].size <= Length
            /\ k > 1 => tokens[k - 1].start + tokens[k - 1].size <= tokens[k].start
        BY <1>1, <1>2 DEF Ordered, EndOf
      <3>2. k > 1 => tokens[k - 1].start \in Nat /\ tokens[k - 1].size \in Nat
        <4>1. k > 1 => k - 1 \in DOMAIN tokens
          BY <1>2
        <4> QED
          BY <1>3, <4>1
      <3> QED
        BY <1>3, <3>1, <3>2
    <2> QED
      BY <2>1 DEF TokensInOrder
  <1>6. NothingLost
    <2>1. ASSUME NEW n, Seen(tokens, n), NEW i \in 0 .. n - 1
          PROVE  Covered(i) \/ At(i) \in Marks \/ Opening(i)
      BY <1>2, <2>1 DEF Seen, Covered, Free
    <2>2. ASSUME pc = "stopped", NEW i \in 0 .. Length - 1
          PROVE  \/ Covered(i) \/ At(i) \in Marks \/ Opening(i)
                 \/ hs.pos <= i /\ At(hs.pos) \in EofBytes
      <3>1. Finished(tokens, hs) /\ hs.pos \in 0 .. Length
        BY <2>2 DEF HInv, Stopped
      <3>2. CASE Seen(tokens, Length)
        BY <2>1, <3>2
      <3>3. CASE At(hs.pos) \in EofBytes /\ Seen(tokens, hs.pos) /\ i < hs.pos
        <4>1. i \in 0 .. hs.pos - 1
          BY <1>1, <3>1, <3>3
        <4> QED
          BY <2>1, <3>3, <4>1
      <3>4. CASE At(hs.pos) \in EofBytes /\ hs.pos <= i
        BY <3>4
      <3> QED
        BY <1>1, <3>1, <3>2, <3>3, <3>4 DEF Finished
    <2> QED
      BY <2>2 DEF NothingLost
  <1>7. FewTokens
    <2>1. CASE pc = "writing"
      BY <1>1, <2>1 DEF HInv, FewTokens
    <2>2. CASE pc = "scanning"
      <3>1. Line(tokens, hs)
        BY <2>2 DEF HInv
      <3>2. Room(hs) \in 0 .. Length + 1 /\ Len(tokens) <= Room(hs)
        BY <1>1, <3>1, FrontFacts DEF Line
      <3> QED
        BY <1>1, <1>2, <3>2 DEF FewTokens
    <2>3. CASE pc = "stopped"
      BY <2>3 DEF HInv, Stopped, FewTokens
    <2> QED
      BY <2>1, <2>2, <2>3 DEF HInv
  <1>8. TokensAreWhole
    BY <1>1, <1>2 DEF TokensAreWhole, Ordered
  <1> QED
    BY <1>4, <1>5, <1>6, <1>7, <1>8 DEF KeepsText

\* libinjection_h5_next, whatever the text and the context: the position never
\* leaves the text, so that the scan gets no error; every token lies in the text
\* behind those before it and has the bytes of its kind and no others; a text of n
\* bytes has n + 1 at most; what no token holds is a mark, ![CDATA[, or stands
\* behind a byte that h5_skip_white's callers take for the end of the text.
THEOREM HtmlKeepsText ==
    ASSUME AlphabetsAreTexts
    PROVE  Spec => []KeepsText
  <1>1. Init => HInv
    BY InitHInv
  <1>2. HInv /\ [Next]_vars => HInv'
    BY NextHInv
  <1>3. HInv => KeepsText
    BY HInvKeepsText
  <1> QED
    BY <1>1, <1>2, <1>3, PTL DEF Spec
=============================================================================
