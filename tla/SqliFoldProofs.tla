--------------------------- MODULE SqliFoldProofs ---------------------------
(***************************************************************************)
(* libinjection_sqli_fold for every supplier of tokens: tokenvec is kept   *)
(* within its bounds, what is left fits the fingerprint, lists of operands *)
(* are folded away, and the loop ends between two tokens.                  *)
(***************************************************************************)
EXTENDS SqliFold, OrderLemmas

(* The binary search of the keywords.  Halves(g, key) is what the function *)
(* in Search is defined by, Solves(g, key, n) the same for the spans up to *)
(* n wide.                                                                 *)
LastWord == Len(sql_keywords) - 1
Spans == (0 .. LastWord) \X (0 .. LastWord)
Half(g, key, left, right) ==
    IF left >= right THEN left
    ELSE IF Below(key, (left + right) \div 2) THEN g[<<(left + right) \div 2 + 1, right>>]
    ELSE g[<<left, (left + right) \div 2>>]
Halves(g, key) == [span \in Spans |-> Half(g, key, span[1], span[2])]
Solves(g, key, n) ==
    \A left \in 0 .. LastWord, right \in 0 .. LastWord :
        right - left <= n => g[<<left, right>>] = Half(g, key, left, right)

LEMMA LastIsNat == LastWord \in Nat
  BY KeywordAssumption DEF KeywordAssumption, LastWord

LEMMA MiddleIsBetween ==
    ASSUME NEW left \in Nat, NEW right \in Nat, left < right
    PROVE  (left + right) \div 2 \in left .. right - 1
  OBVIOUS

\* One step of the definition, for the pairs of its domain.
LEMMA HalvesUnfold ==
    ASSUME NEW key, NEW g, g = Halves(g, key), NEW left \in 0 .. LastWord, NEW right \in 0 .. LastWord
    PROVE  g[<<left, right>>] = Half(g, key, left, right)
  <1>1. <<left, right>> \in Spans
    BY DEF Spans
  <1> QED
    BY <1>1, Zenon DEF Halves

\* The function there is: for spans of any width, by induction on it.
LEMMA SolvesNext ==
    ASSUME NEW key, NEW n \in Nat, NEW g, Solves(g, key, n)
    PROVE  \E h : Solves(h, key, n + 1)
  <1> DEFINE val(l, r) == IF r - l <= n THEN g[<<l, r>>] ELSE Half(g, key, l, r)
             h == [span \in Spans |-> val(span[1], span[2])]
  <1>1. ASSUME NEW l \in 0 .. LastWord, NEW r \in 0 .. LastWord
        PROVE  h[<<l, r>>] = val(l, r)
    <2>1. <<l, r>> \in Spans
      BY DEF Spans
    <2> QED
      BY <2>1, Zenon
  <1>2. ASSUME NEW l \in 0 .. LastWord, NEW r \in 0 .. LastWord, r - l <= n
        PROVE  h[<<l, r>>] = g[<<l, r>>]
    BY <1>1, <1>2
  <1> HIDE DEF h
  <1>3. ASSUME NEW l \in 0 .. LastWord, NEW r \in 0 .. LastWord, r - l <= n + 1
        PROVE  Half(h, key, l, r) = Half(g, key, l, r)
    <2>1. CASE l >= r
      BY <2>1 DEF Half
    <2>2. CASE l < r
      <3> DEFINE m == (l + r) \div 2
      <3>1. m \in l .. r - 1
        BY <2>2, MiddleIsBetween, LastIsNat
      <3> HIDE DEF m
      <3>2. m \in 0 .. LastWord /\ m + 1 \in 0 .. LastWord /\ m - l <= n /\ r - (m + 1) <= n
        BY <3>1, <1>3, LastIsNat
      <3>3. h[<<m + 1, r>>] = g[<<m + 1, r>>] /\ h[<<l, m>>] = g[<<l, m>>]
        BY <3>2, <1>2
      <3>4. /\ Half(h, key, l, r) = IF Below(key, m) THEN h[<<m + 1, r>>] ELSE h[<<l, m>>]
            /\ Half(g, key, l, r) = IF Below(key, m) THEN g[<<m + 1, r>>] ELSE g[<<l, m>>]
        BY <2>2 DEF Half, m
      <3> QED
        BY <3>3, <3>4
    <2> QED
      BY <2>1, <2>2, LastIsNat
  <1>4. ASSUME NEW l \in 0 .. LastWord, NEW r \in 0 .. LastWord, r - l <= n + 1
        PROVE  h[<<l, r>>] = Half(h, key, l, r)
    <2>1. CASE r - l <= n
      BY <2>1, <1>2, <1>3, <1>4 DEF Solves
    <2>2. CASE ~(r - l <= n)
      BY <2>2, <1>1, <1>3, <1>4
    <2> QED
      BY <2>1, <2>2
  <1>5. Solves(h, key, n + 1)
    BY <1>4 DEF Solves
  <1> QED
    BY <1>5

LEMMA SolvesAll ==
    ASSUME NEW key, NEW n \in Nat
    PROVE  \E g : Solves(g, key, n)
  <1> DEFINE bad == {i \in Nat : ~\E g : Solves(g, key, i)}
  <1>1. 0 \notin bad
    <2> DEFINE g == [span \in Spans |-> span[1]]
    <2>1. ASSUME NEW l \in 0 .. LastWord, NEW r \in 0 .. LastWord, r - l <= 0
          PROVE  g[<<l, r>>] = Half(g, key, l, r)
      <3>1. <<l, r>> \in Spans
        BY DEF Spans
      <3>2. g[<<l, r>>] = l
        BY <3>1, Zenon
      <3> HIDE DEF g
      <3> QED
        BY <2>1, <3>2, LastIsNat DEF Half
    <2> QED
      BY <2>1 DEF Solves
  <1>2. ASSUME bad # {} PROVE FALSE
    <2>1. PICK m \in bad : \A i \in bad : m <= i
      BY <1>2, SmallestExists
    <2>2. m - 1 \in Nat /\ m - 1 \notin bad
      BY <2>1, <1>1
    <2>3. \E h : Solves(h, key, m - 1 + 1)
      BY <2>2, SolvesNext
    <2> QED
      BY <2>1, <2>3
  <1> QED
    BY <1>2

LEMMA HalvesExists ==
    ASSUME NEW key
    PROVE  \E g : g = Halves(g, key)
  <1>1. PICK g : Solves(g, key, LastWord)
    BY LastIsNat, SolvesAll
  <1> DEFINE h == Halves(g, key)
  <1>2. ASSUME NEW l \in 0 .. LastWord, NEW r \in 0 .. LastWord
        PROVE  h[<<l, r>>] = g[<<l, r>>]
    <2>1. <<l, r>> \in Spans
      BY DEF Spans
    <2>2. h[<<l, r>>] = Half(g, key, l, r)
      BY <2>1, Zenon DEF Halves
    <2> QED
      BY <1>1, <2>2, LastIsNat DEF Solves
  <1>3. ASSUME NEW l \in 0 .. LastWord, NEW r \in 0 .. LastWord
        PROVE  Half(h, key, l, r) = Half(g, key, l, r)
    <2> HIDE DEF h
    <2>1. CASE l >= r
      BY <2>1 DEF Half
    <2>2. CASE l < r
      <3> DEFINE m == (l + r) \div 2
      <3>1. m \in l .. r - 1
        BY <2>2, MiddleIsBetween, LastIsNat
      <3> HIDE DEF m
      <3>2. m \in 0 .. LastWord /\ m + 1 \in 0 .. LastWord
        BY <3>1, LastIsNat
      <3>3. h[<<m + 1, r>>] = g[<<m + 1, r>>] /\ h[<<l, m>>] = g[<<l, m>>]
        BY <3>2, <1>2
      <3>4. /\ Half(h, key, l, r) = IF Below(key, m) THEN h[<<m + 1, r>>] ELSE h[<<l, m>>]
            /\ Half(g, key, l, r) = IF Below(key, m) THEN g[<<m + 1, r>>] ELSE g[<<l, m>>]
        BY <2>2 DEF Half, m
      <3> QED
        BY <3>3, <3>4
    <2> QED
      BY <2>1, <2>2, LastIsNat
  <1>4. \A span \in Spans : Half(h, key, span[1], span[2]) = Half(g, key, span[1], span[2])
    BY <1>3 DEF Spans
  <1>5. h = Halves(h, key)
    BY <1>4, Zenon DEF Halves
  <1> QED
    BY <1>5

\* What the search rests on: a solution g of the equation, at the whole table.
LEMMA SearchSolves ==
    ASSUME NEW key
    PROVE  \E g : g = Halves(g, key) /\ Search(key) = g[<<0, LastWord>>]
  <1> DEFINE g == CHOOSE h : h = Halves(h, key)
  <1>1. g = Halves(g, key)
    BY HalvesExists, Zenon
  <1>2. Search(key) = g[<<0, LastWord>>]
    BY DEF Search, Halves, Half, Spans, LastWord
  <1> QED
    BY <1>1, <1>2, Zenon

\* The search stays in its span, and ends at the first word of it that is not
\* below the key, if the words below the key come first.
Ordered(key) ==
    \A i \in 0 .. LastWord, j \in 0 .. LastWord : i < j /\ Below(key, j) => Below(key, i)
LEMMA SpanFindsFirst ==
    ASSUME NEW key, NEW g, g = Halves(g, key),
           NEW left \in 0 .. LastWord, NEW right \in 0 .. LastWord, left <= right
    PROVE  /\ g[<<left, right>>] \in left .. right
           /\ Ordered(key) =>
                 /\ \A i \in left .. g[<<left, right>>] - 1 : Below(key, i)
                 /\ g[<<left, right>>] < right => ~Below(key, g[<<left, right>>])
  <1> DEFINE Good(l, r) ==
               /\ g[<<l, r>>] \in l .. r
               /\ Ordered(key) => /\ \A i \in l .. g[<<l, r>>] - 1 : Below(key, i)
                                  /\ g[<<l, r>>] < r => ~Below(key, g[<<l, r>>])
             bad == {n \in Nat : \E l \in 0 .. LastWord, r \in 0 .. LastWord :
                                     l <= r /\ r - l = n /\ ~Good(l, r)}
  <1>1. ASSUME NEW l \in 0 .. LastWord, NEW r \in 0 .. LastWord, l <= r,
               \A k \in 0 .. LastWord, q \in 0 .. LastWord : k <= q /\ q - k < r - l => Good(k, q)
        PROVE  Good(l, r)
    <2>1. CASE l = r
      <3>1. g[<<l, r>>] = Half(g, key, l, r)
        BY HalvesUnfold
      <3>2. g[<<l, r>>] = l
        BY <3>1, <2>1, LastIsNat DEF Half
      <3> QED
        BY <3>2, <2>1, LastIsNat
    <2>2. CASE l < r
      <3> DEFINE m == (l + r) \div 2
      <3>1. m \in l .. r - 1
        BY <2>2, MiddleIsBetween, LastIsNat
      <3>2. g[<<l, r>>] = IF Below(key, m) THEN g[<<m + 1, r>>] ELSE g[<<l, m>>]
        BY <2>2, HalvesUnfold, LastIsNat DEF Half
      <3> HIDE DEF m
      <3>3. m \in 0 .. LastWord /\ m + 1 \in 0 .. LastWord
        BY <3>1, LastIsNat
      <3>4. Good(m + 1, r) /\ Good(l, m)
        BY <3>1, <3>3, <1>1, LastIsNat
      <3>5. CASE Below(key, m)
        <4> DEFINE x == g[<<m + 1, r>>]
        <4>1. g[<<l, r>>] = x /\ x \in m + 1 .. r
          BY <3>2, <3>4, <3>5
        <4>2. ASSUME Ordered(key), NEW i \in l .. x - 1 PROVE Below(key, i)
          <5>1. i \in 0 .. LastWord
            BY <4>1, <3>3, LastIsNat
          <5>2. CASE i <= m
            BY <5>2, <5>1, <4>2, <3>5, <3>3 DEF Ordered
          <5>3. CASE i > m
            BY <5>3, <4>2, <3>4, <3>3, <4>1
          <5> QED
            BY <5>2, <5>3, <3>3, <5>1
        <4>3. ASSUME Ordered(key), x < r PROVE ~Below(key, x)
          BY <4>3, <3>4
        <4> HIDE DEF x
        <4> QED
          BY <4>1, <4>2, <4>3, <3>1, LastIsNat
      <3>6. CASE ~Below(key, m)
        <4> DEFINE x == g[<<l, m>>]
        <4>1. g[<<l, r>>] = x /\ x \in l .. m
          BY <3>2, <3>4, <3>6
        <4>2. ASSUME Ordered(key), NEW i \in l .. x - 1 PROVE Below(key, i)
          BY <4>2, <3>4
        <4>3. ASSUME Ordered(key) PROVE ~Below(key, x)
          <5>1. CASE x < m
            BY <5>1, <4>3, <3>4
          <5>2. CASE x = m
            BY <5>2, <3>6
          <5> QED
            BY <5>1, <5>2, <4>1, <3>1, LastIsNat
        <4> HIDE DEF x
        <4> QED
          BY <4>1, <4>2, <4>3, <3>1, LastIsNat
      <3> QED
        BY <3>5, <3>6
    <2> QED
      BY <2>1, <2>2, <1>1, LastIsNat
  <1> HIDE DEF Good
  <1>2. ASSUME bad # {} PROVE FALSE
    <2>1. PICK n \in bad : \A i \in bad : n <= i
      BY <1>2, SmallestExists
    <2>2. PICK l \in 0 .. LastWord, r \in 0 .. LastWord : l <= r /\ r - l = n /\ ~Good(l, r)
      BY <2>1
    <2>3. ASSUME NEW k \in 0 .. LastWord, NEW q \in 0 .. LastWord, k <= q, q - k < r - l
          PROVE  Good(k, q)
      <3>1. n \in Nat
        BY <2>1
      <3>2. q - k \in Nat /\ ~(n <= q - k)
        BY <3>1, <2>2, <2>3, LastIsNat
      <3>3. q - k \notin bad
        <4> HIDE DEF bad
        <4> QED
          BY <3>2, <2>1
      <3> QED
        BY <3>2, <3>3, <2>3
    <2> QED
      BY <1>1, <2>2, <2>3
  <1>3. Good(left, right)
    <2>1. right - left \in Nat
      BY LastIsNat
    <2> QED
      BY <2>1, <1>2
  <1> QED
    BY <1>3 DEF Good

\* The binary search never looks outside the table.
LEMMA SearchInTable ==
    ASSUME NEW key
    PROVE  Search(key) \in 0 .. LastWord
  <1>1. PICK g : g = Halves(g, key) /\ Search(key) = g[<<0, LastWord>>]
    BY SearchSolves
  <1> QED
    BY <1>1, SpanFindsFirst, LastIsNat

\* is_keyword finds a word in an ordered table if and only if it is there.  The words equal to
\* the key stand right after those below it.
Equal(key, pos) == SameWord(sql_keywords[pos + 1][1], key)
OrderedAround(key) ==
    /\ Ordered(key)
    /\ \A i \in 0 .. LastWord : ~(Below(key, i) /\ Equal(key, i))
    /\ \A i \in 0 .. LastWord, j \in 0 .. LastWord :
          i < j /\ Equal(key, j) /\ ~Below(key, i) => Equal(key, i)
THEOREM SearchFindsKeyword ==
    ASSUME NEW key, OrderedAround(key)
    PROVE  IF \E i \in 0 .. LastWord : Equal(key, i)
           THEN \E i \in 0 .. LastWord : /\ Equal(key, i)
                                         /\ is_keyword(key) = sql_keywords[i + 1][2]
           ELSE is_keyword(key) = NUL
  <1> DEFINE x == Search(key)
  <1>1. PICK g : g = Halves(g, key) /\ x = g[<<0, LastWord>>]
    BY SearchSolves
  <1>2. /\ x \in 0 .. LastWord
        /\ \A i \in 0 .. x - 1 : Below(key, i)
        /\ x < LastWord => ~Below(key, x)
    BY <1>1, SpanFindsFirst, LastIsNat DEF OrderedAround
  <1>3. is_keyword(key) = IF Equal(key, x) THEN sql_keywords[x + 1][2] ELSE NUL
    BY DEF is_keyword, bsearch_keyword_type, TypeIfSame, Equal
  <1> HIDE DEF x
  <1>4. ASSUME NEW i \in 0 .. LastWord, Equal(key, i) PROVE Equal(key, x)
    <2>1. i >= x
      BY <1>2, <1>4, LastIsNat DEF OrderedAround
    <2>2. CASE i = x
      BY <2>2, <1>4
    <2>3. CASE i > x
      BY <2>3, <1>2, <1>4, LastIsNat DEF OrderedAround
    <2> QED
      BY <2>1, <2>2, <2>3, <1>2, LastIsNat
  <1> QED
    BY <1>2, <1>3, <1>4

\* A phrase is never a comment.
LEMMA KeywordIsNoComment ==
    ASSUME NEW key
    PROVE  bsearch_keyword_type(key) # "c"
  <1>1. Search(key) + 1 \in DOMAIN sql_keywords
    BY SearchInTable, LastIsNat, KeywordAssumption DEF KeywordAssumption, LastWord
  <1>2. sql_keywords[Search(key) + 1][2] # "c"
    BY <1>1, KeywordAssumption DEF KeywordAssumption
  <1> QED
    BY <1>2 DEF bsearch_keyword_type, TypeIfSame, NUL
-----------------------------------------------------------------------------
(* A slot has the fields of stoken_t, and fo those of the function.        *)
Fields == {"type", "pos", "len", "count", "str_open", "str_close", "val"}
IsToken(st) == DOMAIN st = Fields
Shape(f) ==
    /\ DOMAIN f = {"vec", "pos", "left", "more", "last_comment", "phase"}
    /\ DOMAIN f.vec = 0 .. 7
    /\ \A i \in 0 .. 7 : IsToken(f.vec[i])
    /\ IsToken(f.last_comment)
    /\ f.more \in BOOLEAN

(* A token in a slot below pos is there for the fingerprint.               *)
Printed(st) == st.type # NUL /\ st.type # "c"
InLoop(f) ==
    /\ Shape(f)
    /\ f.pos \in 0 .. 6 /\ f.left \in 0 .. f.pos
    /\ \A i \in 0 .. f.pos - 1 : Printed(f.vec[i])

(* What holds at every place of the loop; h: the last token was a comment. *)
Places5 == {"skip", "top", "fetch2", "fetch3", "pair", "triple"}
Ready(f, h) ==
    /\ InLoop(f)
    /\ f.phase \in Places5
    /\ Fetching(f) => f.pos <= 5
    /\ f.phase = "skip" => f.pos = 0 /\ f.last_comment.type # "c"
    /\ f.phase # "skip" => (f.last_comment.type = "c") = h

(* What holds of the result.                                               *)
Finished(f, h) ==
    /\ f.phase = "done"
    /\ DOMAIN f.vec = 0 .. 7
    /\ f.pos \in 0 .. 6 /\ f.left \in 0 .. 7
    /\ \A i \in 0 .. f.left - 1 :
          /\ f.vec[i].type # NUL
          /\ f.vec[i].type = "c" => i = f.left - 1
    /\ f.left > 5 => f.vec[f.left - 1].type = "X"
    /\ f.left \in 1 .. 4 /\ f.vec[f.left - 1].type # "X" =>
          (f.vec[f.left - 1].type = "c") = h

Folds(f, h) == IF f.phase = "done" THEN Finished(f, h) ELSE Ready(f, h)
-----------------------------------------------------------------------------
(* What the operators that change fo do to each of its fields.             *)

LEMMA DropFacts ==
    ASSUME NEW f, Shape(f), NEW n, NEW left
    PROVE  /\ Shape(Drop(f, n, left))
           /\ Drop(f, n, left).vec = f.vec
           /\ Drop(f, n, left).pos = f.pos - n
           /\ Drop(f, n, left).left = left
           /\ Drop(f, n, left).more = f.more
           /\ Drop(f, n, left).last_comment = f.last_comment
           /\ Drop(f, n, left).phase = "top"
  BY DEF Drop, Shape

LEMMA PutFacts ==
    ASSUME NEW f, Shape(f), NEW k \in 0 .. 7, NEW st, IsToken(st)
    PROVE  LET g == [f EXCEPT !.vec[k] = st]
           IN  /\ Shape(g)
               /\ g.vec[k] = st
               /\ \A i \in 0 .. 7 : i # k => g.vec[i] = f.vec[i]
               /\ g.pos = f.pos /\ g.left = f.left /\ g.more = f.more
               /\ g.last_comment = f.last_comment /\ g.phase = f.phase
  BY DEF Shape

LEMMA OverFacts ==
    ASSUME NEW f, Shape(f), f.left \in 0 .. 5, NEW i \in 0 .. 1, NEW n
    PROVE  /\ Shape(Over(f, i, n))
           /\ Over(f, i, n).vec[f.left + i] = f.vec[f.left + i + 1]
           /\ \A j \in 0 .. 7 : j # f.left + i => Over(f, i, n).vec[j] = f.vec[j]
           /\ Over(f, i, n).pos = f.pos - n
           /\ Over(f, i, n).left = 0
           /\ Over(f, i, n).more = f.more
           /\ Over(f, i, n).last_comment = f.last_comment
           /\ Over(f, i, n).phase = "top"
  <1> DEFINE g == [f EXCEPT !.vec[f.left + i] = f.vec[f.left + i + 1]]
  <1>1. f.left + i \in 0 .. 7 /\ f.left + i + 1 \in 0 .. 7
    OBVIOUS
  <1>2. IsToken(f.vec[f.left + i + 1])
    BY <1>1 DEF Shape
  <1>3. /\ Shape(g) /\ g.vec[f.left + i] = f.vec[f.left + i + 1]
        /\ \A j \in 0 .. 7 : j # f.left + i => g.vec[j] = f.vec[j]
        /\ g.pos = f.pos /\ g.left = f.left /\ g.more = f.more
        /\ g.last_comment = f.last_comment /\ g.phase = f.phase
    BY <1>1, <1>2, PutFacts
  <1>4. Over(f, i, n) = Drop(g, n, 0)
    BY DEF Over
  <1> HIDE DEF g
  <1> QED
    BY <1>3, <1>4, DropFacts

LEMMA RetypeFacts ==
    ASSUME NEW f, Shape(f), f.left \in 0 .. 6, NEW i \in 0 .. 1, NEW type
    PROVE  /\ Shape(Retype(f, i, type))
           /\ Retype(f, i, type).vec[f.left + i].type = type
           /\ \A j \in 0 .. 7 : /\ Retype(f, i, type).vec[j].val = f.vec[j].val
                                /\ j # f.left + i => Retype(f, i, type).vec[j] = f.vec[j]
           /\ Retype(f, i, type).pos = f.pos
           /\ Retype(f, i, type).left = f.left
           /\ Retype(f, i, type).more = f.more
           /\ Retype(f, i, type).last_comment = f.last_comment
           /\ Retype(f, i, type).phase = "top"
  <1>1. f.left + i \in 0 .. 7
    OBVIOUS
  <1>2. IsToken(f.vec[f.left + i])
    BY <1>1 DEF Shape
  <1> QED
    BY <1>1, <1>2 DEF Retype, Shape, IsToken, Fields

LEMMA AfterFacts ==
    ASSUME NEW f, Shape(f), f.pos \in 0 .. 6, f.left \in 0 .. f.pos, NEW n \in {2, 3}
    PROVE  /\ Shape(After(f, n))
           /\ After(f, n).vec = f.vec /\ After(f, n).pos = f.pos
           /\ After(f, n).left = f.left /\ After(f, n).more = f.more
           /\ After(f, n).last_comment = f.last_comment
           /\ IF f.more /\ f.pos <= 5 /\ f.pos - f.left < n
              THEN After(f, n).phase = IF n = 2 THEN "fetch2" ELSE "fetch3"
              ELSE After(f, n).phase = IF n = 2 THEN "pair" ELSE "triple"
  BY DEF After, Shape, Wants, LIBINJECTION_SQLI_MAX_TOKENS

LEMMA MergedFacts ==
    ASSUME NEW f, Shape(f), f.left \in 0 .. 6, NEW type
    PROVE  /\ Shape(Merged(f, type))
           /\ Merged(f, type).vec[f.left].type = type
           /\ \A j \in 0 .. 7 : j # f.left => Merged(f, type).vec[j] = f.vec[j]
           /\ Merged(f, type).pos = f.pos
           /\ Merged(f, type).left = f.left
           /\ Merged(f, type).more = f.more
           /\ Merged(f, type).last_comment = f.last_comment
  <1> DEFINE phrase == Phrase(f.vec[f.left], f.vec[f.left + 1])
             st == [f.vec[f.left] EXCEPT !.type = type, !.len = Len(phrase), !.val = phrase]
  <1>1. f.left \in 0 .. 7
    OBVIOUS
  <1>2. IsToken(st) /\ st.type = type
    BY <1>1 DEF Shape, IsToken, Fields
  <1>3. Merged(f, type) = [f EXCEPT !.vec[f.left] = st]
    BY DEF Merged
  <1> HIDE DEF st
  <1> QED
    BY <1>1, <1>2, <1>3, PutFacts
-----------------------------------------------------------------------------
(* The operators keep the slots below pos as they should be.               *)

LEMMA DropKeeps ==
    ASSUME NEW f, InLoop(f), NEW n \in 0 .. f.pos, NEW left \in 0 .. f.pos - n
    PROVE  InLoop(Drop(f, n, left))
  BY DropFacts DEF InLoop

LEMMA OverKeeps ==
    ASSUME NEW f, InLoop(f), NEW i \in 0 .. 1, f.left + i + 1 < f.pos, NEW n \in 0 .. f.pos
    PROVE  InLoop(Over(f, i, n))
  <1>1. f.left \in 0 .. 5 /\ f.left + i + 1 \in 0 .. f.pos - 1 /\ f.pos - 1 \in 0 .. 7
    BY DEF InLoop
  <1>2. Printed(f.vec[f.left + i + 1])
    BY <1>1 DEF InLoop
  <1>3. ASSUME NEW j \in 0 .. f.pos - n - 1
        PROVE  Printed(Over(f, i, n).vec[j])
    <2>1. j \in 0 .. 7 /\ j \in 0 .. f.pos - 1
      BY <1>1
    <2>2. CASE j = f.left + i
      BY <2>2, <1>1, <1>2, OverFacts DEF InLoop
    <2>3. CASE j # f.left + i
      <3>1. Over(f, i, n).vec[j] = f.vec[j]
        BY <2>1, <2>3, <1>1, OverFacts DEF InLoop
      <3> QED
        BY <3>1, <2>1 DEF InLoop
    <2> QED
      BY <2>2, <2>3
  <1> QED
    BY <1>1, <1>3, OverFacts DEF InLoop

LEMMA RetypeKeeps ==
    ASSUME NEW f, InLoop(f), NEW i \in 0 .. 1, NEW type, type # NUL, type # "c"
    PROVE  InLoop(Retype(f, i, type))
  <1>1. f.left \in 0 .. 6 /\ f.pos - 1 \in -1 .. 5
    BY DEF InLoop
  <1> QED
    BY <1>1, RetypeFacts DEF InLoop, Printed

LEMMA MergedKeeps ==
    ASSUME NEW f, InLoop(f), NEW type, type # NUL, type # "c"
    PROVE  InLoop(Merged(f, type))
  <1>1. f.left \in 0 .. 6 /\ f.pos - 1 \in -1 .. 5
    BY DEF InLoop
  <1> QED
    BY <1>1, MergedFacts DEF InLoop, Printed

LEMMA AfterKeeps ==
    ASSUME NEW f, InLoop(f), NEW n \in {2, 3}
    PROVE  InLoop(After(f, n))
  BY AfterFacts DEF InLoop

LEMMA MoveKeeps ==
    ASSUME NEW f, InLoop(f), NEW left \in 0 .. f.pos
    PROVE  /\ InLoop([f EXCEPT !.left = left])
           /\ [f EXCEPT !.left = left].last_comment = f.last_comment
           /\ [f EXCEPT !.left = left].phase = f.phase
           /\ InLoop([f EXCEPT !.left = left, !.phase = "top"])
           /\ [f EXCEPT !.left = left, !.phase = "top"].last_comment = f.last_comment
           /\ [f EXCEPT !.left = left, !.phase = "top"].phase = "top"
  BY DEF InLoop, Shape

(* A turn of the loop: g is a place in the loop again, the comment kept.   *)
Turned(f, g) ==
    /\ InLoop(g)
    /\ g.last_comment = f.last_comment
    /\ g.phase \in {"top", "fetch2", "fetch3", "pair", "triple"}
    /\ Fetching(g) => g.pos <= 5

LEMMA ToTop ==
    ASSUME NEW f, NEW g, InLoop(g), g.last_comment = f.last_comment, g.phase = "top"
    PROVE  Turned(f, g)
  BY DEF Turned, Fetching

LEMMA ToAfter ==
    ASSUME NEW f, NEW g, InLoop(g), g.last_comment = f.last_comment, NEW n \in {2, 3}
    PROVE  Turned(f, After(g, n))
  <1>1. InLoop(After(g, n))
    BY AfterKeeps
  <1>2. Shape(g) /\ g.pos \in 0 .. 6 /\ g.left \in 0 .. g.pos
    BY DEF InLoop
  <1> QED
    BY <1>1, <1>2, AfterFacts DEF Turned, Fetching

LEMMA TurnedIsReady ==
    ASSUME NEW f, NEW g, NEW h \in BOOLEAN, Turned(f, g), (f.last_comment.type = "c") = h
    PROVE  Folds(g, h)
  BY DEF Turned, Folds, Ready, Places5

LEMMA OneBackIsBelow ==
    ASSUME NEW f, InLoop(f), f.pos - f.left >= 2
    PROVE  OneBack(f) \in 0 .. f.pos - 1
  BY DEF OneBack, InLoop
-----------------------------------------------------------------------------
(* The rules for two tokens, each with what it rests on.                   *)
PairDrops(f, g) ==
    \/ g = Drop(f, 1, f.left)
    \/ g = Drop(f, 1, 0)
    \/ g = Drop(f, 1, OneBack(f))
    \/ g = Over(f, 0, 1)
    \/ LET merged == syntax_merge_words(f.vec[f.left], f.vec[f.left + 1])
       IN  merged # NUL /\ g = Drop(Merged(f, merged), 1, OneBack(f))
PairRetypes(f, g) ==
    \/ IsType(f, 0, {";"}) /\ IsType(f, 1, {"f"}) /\ g = Retype(f, 1, "T")
    \/ IsType(f, 0, {"n", "v"}) /\ g = Retype(f, 0, "f")
    \/ IsType(f, 0, {"k"}) /\ (g = Retype(f, 0, "o") \/ g = Retype(f, 0, "n"))
PairGoesOn(f, g) ==
    \/ IsType(f, 0, {"o"}) /\ g = Third(Retype(f, 0, "f"))
    \/ g = Third(f)
PairGoesBack(f, g) ==
    \/ /\ IsType(f, 0, {"A"}) /\ IsType(f, 1, {"n"}) /\ HasUnderscore(f.vec[f.left + 1])
       /\ g = Third([Retype(f, 1, "t") EXCEPT !.left = 0])
    \/ IsType(f, 0, {"\\"}) /\ g = [Retype(f, 0, "1") EXCEPT !.left = 0]

LEMMA PairRuleCases ==
    ASSUME NEW f
    PROVE  \/ PairDrops(f, PairRule(f))
           \/ PairRetypes(f, PairRule(f))
           \/ PairGoesOn(f, PairRule(f))
           \/ PairGoesBack(f, PairRule(f))
           \/ /\ IsType(f, 0, {"{"}) /\ IsType(f, 1, {"n"})
              /\ PairRule(f) = OpenBrace(f)
  <1> DEFINE r == PairRule(f)
             merged == syntax_merge_words(f.vec[f.left], f.vec[f.left + 1])
  <1>1. \/ r = Drop(f, 1, f.left) \/ r = Drop(f, 1, 0) \/ r = Drop(f, 1, OneBack(f))
        \/ r = Over(f, 0, 1)
        \/ merged # NUL /\ r = Drop(Merged(f, merged), 1, OneBack(f))
        \/ IsType(f, 0, {";"}) /\ IsType(f, 1, {"f"}) /\ r = Retype(f, 1, "T")
        \/ IsType(f, 0, {"n", "v"}) /\ r = Retype(f, 0, "f")
        \/ IsType(f, 0, {"k"}) /\ r = InIsOperator(f)
        \/ /\ IsType(f, 0, {"o"})
           /\ r = Third(IF IsType(f, 1, {"("}) THEN Retype(f, 0, "f") ELSE f)
        \/ /\ IsType(f, 0, {"A"}) /\ IsType(f, 1, {"n"})
           /\ r = Third(IF HasUnderscore(f.vec[f.left + 1])
                        THEN [Retype(f, 1, "t") EXCEPT !.left = 0] ELSE f)
        \/ IsType(f, 0, {"\\"}) /\ r = Backslash(f)
        \/ IsType(f, 0, {"{"}) /\ IsType(f, 1, {"n"}) /\ r = OpenBrace(f)
        \/ r = Third(f)
    BY Zenon DEF PairRule
  <1> HIDE DEF r, merged
  <1> QED
    BY <1>1 DEF PairDrops, PairRetypes, PairGoesOn, PairGoesBack, InIsOperator, Backslash, r, merged

LEMMA PairKeeps ==
    ASSUME NEW f, InLoop(f), f.phase = "pair", NEW h \in BOOLEAN, (f.last_comment.type = "c") = h
    PROVE  Folds(Pair(f), h)
  <1> DEFINE g == Pair(f)
  <1>0. /\ Shape(f) /\ f.pos \in 0 .. 6 /\ f.left \in 0 .. f.pos
        /\ \A i \in 0 .. f.pos - 1 : Printed(f.vec[i])
    BY DEF InLoop
  <1>1. CASE f.pos - f.left < 2
    <2>1. g = [f EXCEPT !.left = f.pos, !.phase = "top"]
      BY <1>1 DEF Pair
    <2>2. InLoop(g) /\ g.last_comment = f.last_comment /\ g.phase = "top"
      BY <1>0, <2>1 DEF InLoop, Shape
    <2> QED
      BY <2>2, ToTop, TurnedIsReady
  <1>2. CASE f.pos - f.left >= 2
    <2>1. g = PairRule(f)
      BY <1>0, <1>2 DEF Pair
    <2>2. /\ OneBack(f) \in 0 .. f.pos - 1 /\ 1 \in 0 .. f.pos
          /\ f.left \in 0 .. f.pos - 1 /\ 0 \in 0 .. f.pos - 1 /\ f.left \in 0 .. 4
      BY <1>0, <1>2, OneBackIsBelow
    <2>3. CASE PairDrops(f, g)
      <3>1. ASSUME NEW left \in 0 .. f.pos - 1, g = Drop(f, 1, left) PROVE Folds(g, h)
        <4>1. InLoop(g)
          BY <3>1, <2>2, DropKeeps
        <4>2. g.last_comment = f.last_comment /\ g.phase = "top"
          BY <3>1, <1>0, DropFacts
        <4> QED
          BY <4>1, <4>2, ToTop, TurnedIsReady
      <3>2. CASE g = Over(f, 0, 1)
        <4>1. InLoop(g)
          BY <3>2, <1>0, <1>2, <2>2, OverKeeps
        <4>2. g.last_comment = f.last_comment /\ g.phase = "top"
          BY <3>2, <1>0, <2>2, OverFacts
        <4> QED
          BY <4>1, <4>2, ToTop, TurnedIsReady
      <3>3. ASSUME NEW merged, merged # NUL, merged # "c", g = Drop(Merged(f, merged), 1, OneBack(f))
            PROVE  Folds(g, h)
        <4>1. InLoop(Merged(f, merged))
          BY <3>3, MergedKeeps
        <4>2. /\ Merged(f, merged).last_comment = f.last_comment
              /\ Merged(f, merged).pos = f.pos
          BY <1>0, <2>2, MergedFacts
        <4>3. InLoop(g)
          BY <3>3, <4>1, <4>2, <2>2, DropKeeps
        <4>4. g.last_comment = f.last_comment /\ g.phase = "top"
          BY <3>3, <4>1, <4>2, DropFacts DEF InLoop
        <4> QED
          BY <4>3, <4>4, ToTop, TurnedIsReady
      <3>4. syntax_merge_words(f.vec[f.left], f.vec[f.left + 1]) # "c"
        BY KeywordIsNoComment DEF syntax_merge_words, NUL
      <3> QED
        BY <3>1, <3>2, <3>3, <3>4, <2>2, <2>3 DEF PairDrops
    <2>4. CASE PairRetypes(f, g)
      <3>1. ASSUME NEW i \in 0 .. 1, NEW type, type # NUL, type # "c", g = Retype(f, i, type)
            PROVE  Folds(g, h)
        <4>1. type # NUL /\ type # "c"
          BY <3>1
        <4>2. InLoop(g)
          BY <3>1, <4>1, RetypeKeeps
        <4>3. g.last_comment = f.last_comment /\ g.phase = "top"
          BY <3>1, <1>0, <2>2, RetypeFacts
        <4> QED
          BY <4>2, <4>3, ToTop, TurnedIsReady
      <3>2. \/ g = Retype(f, 1, "T") \/ g = Retype(f, 0, "f")
            \/ g = Retype(f, 0, "o") \/ g = Retype(f, 0, "n")
        BY <2>4 DEF PairRetypes
      <3>3. /\ 0 \in 0 .. 1 /\ 1 \in 0 .. 1
            /\ "T" # NUL /\ "f" # NUL /\ "o" # NUL /\ "n" # NUL
            /\ "T" # "c" /\ "f" # "c" /\ "o" # "c" /\ "n" # "c"
        BY DEF NUL
      <3>4. CASE g = Retype(f, 1, "T")
        BY <3>1, <3>3, <3>4
      <3>5. CASE g = Retype(f, 0, "f")
        BY <3>1, <3>3, <3>5
      <3>6. CASE g = Retype(f, 0, "o")
        BY <3>1, <3>3, <3>6
      <3>7. CASE g = Retype(f, 0, "n")
        BY <3>1, <3>3, <3>7
      <3> QED
        BY <3>2, <3>4, <3>5, <3>6, <3>7
    <2>5. CASE PairGoesOn(f, g)
      <3>1. InLoop(Retype(f, 0, "f")) /\ Retype(f, 0, "f").last_comment = f.last_comment
        BY <1>0, <2>2, RetypeKeeps, RetypeFacts DEF NUL
      <3>2. Turned(f, Third(Retype(f, 0, "f"))) /\ Turned(f, Third(f))
        BY <3>1, ToAfter DEF Third
      <3> QED
        BY <2>5, <3>2, TurnedIsReady DEF PairGoesOn
    <2>6. CASE PairGoesBack(f, g)
      <3>1. ASSUME NEW i \in 0 .. 1, NEW type \in {"1", "t"}
            PROVE  LET b == [Retype(f, i, type) EXCEPT !.left = 0]
                   IN  InLoop(b) /\ b.last_comment = f.last_comment /\ b.phase = "top"
        <4> DEFINE r == Retype(f, i, type)
        <4>1. type # NUL /\ type # "c"
          BY DEF NUL
        <4>2. InLoop(r)
          BY <4>1, RetypeKeeps
        <4>3. r.last_comment = f.last_comment /\ r.phase = "top"
          BY <1>0, <2>2, RetypeFacts
        <4>4. 0 \in 0 .. r.pos
          BY <4>2 DEF InLoop
        <4> QED
          BY <4>2, <4>3, <4>4, MoveKeeps
      <3>2. Turned(f, [Retype(f, 0, "1") EXCEPT !.left = 0])
        <4>1. 0 \in 0 .. 1
          OBVIOUS
        <4> QED
          BY <3>1, <4>1, ToTop
      <3>3. Turned(f, Third([Retype(f, 1, "t") EXCEPT !.left = 0]))
        <4>1. 1 \in 0 .. 1 /\ 3 \in {2, 3}
          OBVIOUS
        <4> QED
          BY <3>1, <4>1, ToAfter DEF Third
      <3> QED
        BY <2>6, <3>2, <3>3, TurnedIsReady DEF PairGoesBack
    <2>7. CASE g = OpenBrace(f)
      <3>1. CASE f.vec[f.left + 1].len = 0
        <4> DEFINE s == f.left + 1
        <4>1. s \in 1 .. 5 /\ s \in 0 .. 7 /\ s \in 0 .. f.pos - 1 /\ IsToken(f.vec[s])
          BY <1>0, <1>2, <2>2 DEF Shape
        <4>2. g = [f EXCEPT !.vec[s].type = "X", !.left = @ + 2, !.phase = "done"]
          BY <2>7, <3>1 DEF OpenBrace
        <4> HIDE DEF s, g
        <4>3. /\ DOMAIN g.vec = 0 .. 7 /\ g.phase = "done" /\ g.left = f.left + 2 /\ g.pos = f.pos
              /\ g.vec[s].type = "X"
              /\ \A i \in 0 .. 7 : i # s => g.vec[i] = f.vec[i]
          BY <4>1, <4>2, <1>0 DEF Shape, IsToken, Fields
        <4>4. ASSUME NEW i \in 0 .. g.left - 1
              PROVE  g.vec[i].type # NUL /\ g.vec[i].type # "c"
          <5>1. CASE i = s
            BY <5>1, <4>3 DEF NUL
          <5>2. CASE i # s
            BY <5>2, <4>1, <4>3, <2>2, <1>0 DEF Printed, s
          <5> QED
            BY <5>1, <5>2
        <4>5. g.left - 1 = s
          BY <4>3, <2>2 DEF s
        <4>6. Finished(g, h)
          BY <4>3, <4>4, <4>5, <2>2, <1>0 DEF Finished
        <4> QED
          BY <4>6, <4>3 DEF Folds, g
      <3>2. CASE f.vec[f.left + 1].len # 0
        <4>1. g = Drop(f, 2, 0)
          BY <2>7, <3>2 DEF OpenBrace
        <4>2. InLoop(g) /\ g.last_comment = f.last_comment /\ g.phase = "top"
          BY <4>1, <1>0, <1>2, DropKeeps, DropFacts
        <4> QED
          BY <4>2, ToTop, TurnedIsReady
      <3> QED
        BY <3>1, <3>2
    <2> QED
      BY <2>1, <2>3, <2>4, <2>5, <2>6, <2>7, PairRuleCases
  <1> QED
    BY <1>0, <1>1, <1>2

(* The rules for three tokens.                                             *)
TripleNext(f, g) ==
    \/ g = Drop(f, 2, 0)
    \/ g = Over(f, 1, 1)
    \/ g = Over(f, 1, 3)
    \/ g = [f EXCEPT !.left = @ + 1, !.phase = "top"]
    \/ /\ IsType(f, 0, {"f"})
       /\ g = [Retype(f, 0, "n") EXCEPT !.left = @ + 1, !.phase = "top"]

LEMMA TripleCases ==
    ASSUME NEW f
    PROVE  IF f.pos - f.left < 3 THEN Triple(f) = [f EXCEPT !.left = f.pos, !.phase = "top"]
           ELSE TripleNext(f, Triple(f))
  BY Zenon DEF Triple, TripleNext

LEMMA TripleKeeps ==
    ASSUME NEW f, InLoop(f), NEW h \in BOOLEAN, (f.last_comment.type = "c") = h
    PROVE  Folds(Triple(f), h)
  <1> DEFINE g == Triple(f)
  <1>0. /\ Shape(f) /\ f.pos \in 0 .. 6 /\ f.left \in 0 .. f.pos
        /\ \A i \in 0 .. f.pos - 1 : Printed(f.vec[i])
    BY DEF InLoop
  <1>1. ASSUME NEW b, InLoop(b), b.last_comment = f.last_comment, NEW left \in 0 .. b.pos,
               NEW c, c = [b EXCEPT !.left = left, !.phase = "top"]
        PROVE  Folds(c, h)
    <2>1. InLoop(c) /\ c.last_comment = f.last_comment /\ c.phase = "top"
      BY <1>1, MoveKeeps
    <2> QED
      BY <2>1, ToTop, TurnedIsReady
  <1>2. CASE f.pos - f.left < 3
    <2>1. Triple(f) = [f EXCEPT !.left = f.pos, !.phase = "top"]
      BY <1>2, TripleCases
    <2>2. f.pos \in 0 .. f.pos
      BY <1>0
    <2> QED
      BY <2>1, <2>2, <1>1
  <1>3. CASE f.pos - f.left >= 3
    <2>1. TripleNext(f, g)
      <3>1. ~(f.pos - f.left < 3)
        BY <1>0, <1>3
      <3> QED
        BY <3>1, TripleCases
    <2>2. f.left \in 0 .. 3 /\ 2 \in 0 .. f.pos /\ 0 \in 0 .. f.pos - 2
      BY <1>0, <1>3
    <2>3. CASE g = Drop(f, 2, 0)
      <3>1. InLoop(g)
        BY <2>3, <2>2, DropKeeps
      <3>2. g.last_comment = f.last_comment /\ g.phase = "top"
        BY <2>3, <1>0, DropFacts
      <3> QED
        BY <3>1, <3>2, ToTop, TurnedIsReady
    <2>4. ASSUME NEW n \in {1, 3}, g = Over(f, 1, n) PROVE Folds(g, h)
      <3>1. InLoop(g)
        BY <2>4, <1>0, <1>3, OverKeeps
      <3>2. g.last_comment = f.last_comment /\ g.phase = "top"
        BY <2>4, <1>0, <2>2, OverFacts
      <3> QED
        BY <3>1, <3>2, ToTop, TurnedIsReady
    <2>5. CASE g = [f EXCEPT !.left = @ + 1, !.phase = "top"]
      <3>1. g = [f EXCEPT !.left = f.left + 1, !.phase = "top"]
        BY <2>5, <1>0 DEF Shape
      <3>2. f.left + 1 \in 0 .. f.pos
        BY <1>0, <1>3
      <3> QED
        BY <3>1, <3>2, <1>1
    <2>6. CASE g = [Retype(f, 0, "n") EXCEPT !.left = @ + 1, !.phase = "top"]
      <3> DEFINE r == Retype(f, 0, "n")
      <3>1. InLoop(r)
        BY RetypeKeeps DEF NUL
      <3>2. r.last_comment = f.last_comment /\ r.left = f.left /\ r.pos = f.pos
        BY <1>0, <2>2, RetypeFacts
      <3>3. f.left + 1 \in 0 .. r.pos
        BY <3>2, <1>0, <1>3
      <3>4. Shape(r) /\ g = [r EXCEPT !.left = @ + 1, !.phase = "top"]
        BY <3>1, <2>6 DEF InLoop
      <3> HIDE DEF r
      <3>5. g = [r EXCEPT !.left = f.left + 1, !.phase = "top"]
        BY <3>2, <3>4 DEF Shape
      <3> QED
        BY <3>1, <3>2, <3>3, <3>5, <1>1
    <2> QED
      BY <2>1, <2>3, <2>4, <2>5, <2>6 DEF TripleNext
  <1> QED
    BY <1>0, <1>2, <1>3
-----------------------------------------------------------------------------
(* The head of the loop and its end.                                       *)

LEMMA MinOfLeft ==
    ASSUME NEW n \in Nat
    PROVE  Min({n, 5}) = IF n <= 5 THEN n ELSE 5
  <1>1. {n, 5} \in SUBSET Nat /\ {n, 5} # {}
    OBVIOUS
  <1>2. Min({n, 5}) \in {n, 5} /\ \A k \in {n, 5} : Min({n, 5}) <= k
    BY <1>1, MinIsLeast
  <1> QED
    BY <1>2

\* At the end all tokens are done with.
LEMMA FinishKeeps ==
    ASSUME NEW f, InLoop(f), f.left = f.pos, NEW h \in BOOLEAN, (f.last_comment.type = "c") = h
    PROVE  Finished(Finish(f), h)
  <1> DEFINE ends == f.left < 5 /\ f.last_comment.type = "c"
             added == IF ends THEN [f EXCEPT !.vec[f.left] = f.last_comment, !.left = @ + 1] ELSE f
             g == [added EXCEPT !.left = Min({@, 5}), !.phase = "done"]
  <1>0. /\ Shape(f) /\ f.pos \in 0 .. 6 /\ f.left \in 0 .. 6
        /\ \A i \in 0 .. f.pos - 1 : Printed(f.vec[i])
    BY DEF InLoop
  <1>1. Finish(f) = g
    BY DEF Finish, LIBINJECTION_SQLI_MAX_TOKENS
  <1>2. CASE ends
    <2>1. added = [f EXCEPT !.vec[f.left] = f.last_comment, !.left = f.left + 1]
      BY <1>2, <1>0 DEF Shape
    <2>2. /\ DOMAIN added = DOMAIN f /\ DOMAIN added.vec = 0 .. 7
          /\ added.left = f.left + 1 /\ added.pos = f.pos
          /\ added.vec[f.left].type = "c"
          /\ \A i \in 0 .. 7 : i # f.left => added.vec[i] = f.vec[i]
      BY <2>1, <1>0, <1>2 DEF Shape
    <2>3. Min({added.left, 5}) = f.left + 1
      <3>1. f.left + 1 \in Nat /\ f.left + 1 <= 5
        BY <1>0, <1>2
      <3>2. Min({f.left + 1, 5}) = f.left + 1
        BY <3>1, MinOfLeft
      <3> QED
        BY <2>2, <3>2
    <2> HIDE DEF added
    <2>4. /\ g.phase = "done" /\ g.vec = added.vec /\ g.pos = f.pos /\ g.left = f.left + 1
      BY <2>2, <2>3, <1>0 DEF Shape
    <2> HIDE DEF g
    <2>5. \A i \in 0 .. g.left - 1 : g.vec[i].type # NUL /\ (g.vec[i].type = "c" => i = g.left - 1)
      BY <2>2, <2>4, <1>0 DEF Printed, NUL
    <2>6. g.vec[g.left - 1].type = "c" /\ h = TRUE
      BY <2>2, <2>4, <1>0, <1>2
    <2>7. DOMAIN g.vec = 0 .. 7 /\ g.pos \in 0 .. 6 /\ g.left \in 0 .. 5
      BY <2>2, <2>4, <1>0, <1>2
    <2>8. Finished(g, h)
      <3>1. ~(g.left > 5) /\ g.left \in 0 .. 7
        BY <2>7
      <3>2. (g.vec[g.left - 1].type = "c") = h
        BY <2>6
      <3>3. g.phase = "done"
        BY <2>4
      <3> QED
        BY <2>5, <2>7, <3>1, <3>2, <3>3 DEF Finished
    <2> QED
      BY <1>1, <2>8
  <1>3. CASE ~ends
    <2>1. added = f
      BY <1>3
    <2>2. Min({f.left, 5}) = IF f.left <= 5 THEN f.left ELSE 5
      BY <1>0, MinOfLeft
    <2>3. /\ g.phase = "done" /\ g.vec = f.vec /\ g.pos = f.pos
          /\ g.left = IF f.left <= 5 THEN f.left ELSE 5
      BY <2>1, <2>2, <1>0 DEF Shape
    <2> HIDE DEF g
    <2>4. \A i \in 0 .. g.left - 1 : g.vec[i].type # NUL /\ g.vec[i].type # "c"
      BY <2>3, <1>0 DEF Printed
    <2>5. g.left \in 1 .. 4 => g.left - 1 \in 0 .. g.left - 1 /\ h = FALSE
      BY <2>3, <1>0, <1>3
    <2> QED
      BY <1>1, <2>3, <2>4, <2>5, <1>0 DEF Finished, Shape
  <1> QED
    BY <1>2, <1>3

LEMMA TopFolded ==
    ASSUME NEW f, InLoop(f), f.phase = "top"
    PROVE  LET folded == IF f.pos < 5 \/ ~FiveFold(f) THEN f
                         ELSE IF f.pos = 5 THEN [f EXCEPT !.pos = 1, !.left = 0]
                         ELSE [f EXCEPT !.vec[1] = f.vec[5], !.pos = 2, !.left = 0]
           IN  /\ InLoop(folded) /\ folded.last_comment = f.last_comment
               /\ folded.more = f.more /\ folded.phase = "top"
               /\ folded.pos < f.pos \/ folded = f
  <1> DEFINE folded ==
               IF f.pos < 5 \/ ~FiveFold(f) THEN f
               ELSE IF f.pos = 5 THEN [f EXCEPT !.pos = 1, !.left = 0]
               ELSE [f EXCEPT !.vec[1] = f.vec[5], !.pos = 2, !.left = 0]
  <1>0. /\ Shape(f) /\ f.pos \in 0 .. 6 /\ f.left \in 0 .. f.pos
        /\ \A i \in 0 .. f.pos - 1 : Printed(f.vec[i])
    BY DEF InLoop
  <1>1. CASE f.pos < 5 \/ ~FiveFold(f)
    BY <1>1
  <1>2. CASE f.pos = 5 /\ FiveFold(f)
    <2>1. folded = [f EXCEPT !.pos = 1, !.left = 0]
      BY <1>2
    <2> HIDE DEF folded
    <2>2. /\ InLoop(folded) /\ folded.last_comment = f.last_comment
          /\ folded.more = f.more /\ folded.phase = "top" /\ folded.pos < f.pos
      BY <2>1, <1>2, <1>0 DEF InLoop, Shape
    <2> QED
      BY <2>2 DEF folded
  <1>3. CASE f.pos = 6 /\ FiveFold(f)
    <2>1. folded = [f EXCEPT !.vec[1] = f.vec[5], !.pos = 2, !.left = 0]
      BY <1>3
    <2>2. Printed(f.vec[5]) /\ Printed(f.vec[0]) /\ IsToken(f.vec[5])
      BY <1>3, <1>0 DEF Shape
    <2> HIDE DEF folded
    <2>3. /\ folded.vec[1] = f.vec[5]
          /\ \A i \in 0 .. 7 : i # 1 => folded.vec[i] = f.vec[i]
          /\ folded.pos = 2 /\ folded.left = 0 /\ folded.last_comment = f.last_comment
          /\ folded.more = f.more /\ DOMAIN folded = DOMAIN f /\ DOMAIN folded.vec = 0 .. 7
          /\ folded.phase = "top"
      BY <2>1, <1>0 DEF Shape
    <2>4. Shape(folded)
      BY <2>2, <2>3, <1>0 DEF Shape
    <2>5. \A i \in 0 .. 1 : Printed(folded.vec[i])
      BY <2>2, <2>3
    <2>6. InLoop(folded) /\ folded.pos < f.pos
      BY <2>3, <2>4, <2>5, <1>3 DEF InLoop
    <2> QED
      BY <2>3, <2>6 DEF folded
  <1>4. (f.pos < 5 \/ ~FiveFold(f)) \/ (f.pos = 5 /\ FiveFold(f)) \/ (f.pos = 6 /\ FiveFold(f))
    BY <1>0
  <1> QED
    BY <1>1, <1>2, <1>3, <1>4

LEMMA TopKeeps ==
    ASSUME NEW f, InLoop(f), f.phase = "top", NEW h \in BOOLEAN, (f.last_comment.type = "c") = h
    PROVE  Folds(Top(f), h)
  <1> DEFINE folded ==
               IF f.pos < 5 \/ ~FiveFold(f) THEN f
               ELSE IF f.pos = 5 THEN [f EXCEPT !.pos = 1, !.left = 0]
               ELSE [f EXCEPT !.vec[1] = f.vec[5], !.pos = 2, !.left = 0]
  <1>0. /\ Shape(f) /\ f.pos \in 0 .. 6 /\ f.left \in 0 .. f.pos
        /\ \A i \in 0 .. f.pos - 1 : Printed(f.vec[i])
    BY DEF InLoop
  <1>1. Top(f) = IF ~folded.more \/ folded.left >= 5
                 THEN Finish([folded EXCEPT !.left = folded.pos]) ELSE After(folded, 2)
    BY DEF Top, LIBINJECTION_SQLI_MAX_TOKENS
  <1>2. InLoop(folded) /\ folded.last_comment = f.last_comment
    BY TopFolded
  <1> HIDE DEF folded
  <1>3. CASE ~folded.more \/ folded.left >= 5
    <2> DEFINE b == [folded EXCEPT !.left = folded.pos]
    <2>1. folded.pos \in 0 .. folded.pos
      BY <1>2 DEF InLoop
    <2>2. InLoop(b) /\ b.last_comment = folded.last_comment
      BY <1>2, <2>1, MoveKeeps
    <2>3. b.left = b.pos
      BY <1>2 DEF InLoop, Shape
    <2> HIDE DEF b
    <2>4. Finished(Finish(b), h)
      BY <1>2, <2>2, <2>3, FinishKeeps
    <2>5. Top(f) = Finish(b)
      BY <1>1, <1>3 DEF b
    <2> QED
      BY <2>4, <2>5 DEF Folds, Finished
  <1>4. CASE ~(~folded.more \/ folded.left >= 5)
    <2>1. Top(f) = After(folded, 2)
      BY <1>1, <1>4
    <2>2. Turned(f, After(folded, 2))
      BY <1>2, ToAfter
    <2> QED
      BY <2>1, <2>2, TurnedIsReady
  <1> QED
    BY <1>3, <1>4

LEMMA FoldStepKeeps ==
    ASSUME NEW f, NEW h \in BOOLEAN, Ready(f, h), ~Fetching(f)
    PROVE  Folds(FoldStep(f), h)
  <1>1. InLoop(f) /\ (f.last_comment.type = "c") = h /\ f.phase \in {"top", "pair", "triple"}
    BY DEF Ready, Fetching, Places5
  <1>2. CASE f.phase = "top"
    <2>1. FoldStep(f) = Top(f)
      BY <1>2 DEF FoldStep
    <2> QED
      BY <2>1, <1>1, <1>2, TopKeeps
  <1>3. CASE f.phase = "pair"
    <2>1. FoldStep(f) = Pair(f)
      BY <1>3 DEF FoldStep
    <2> QED
      BY <2>1, <1>1, <1>3, PairKeeps
  <1>4. CASE f.phase = "triple"
    <2>1. FoldStep(f) = Triple(f)
      BY <1>4 DEF FoldStep
    <2> QED
      BY <2>1, <1>1, <1>4, TripleKeeps
  <1> QED
    BY <1>1, <1>2, <1>3, <1>4
-----------------------------------------------------------------------------
(* A token is read.                                                        *)

LEMMA SkippedKeeps ==
    ASSUME NEW f, NEW h \in BOOLEAN, Ready(f, h), f.phase = "skip",
           NEW token, IsToken(token), NEW now \in BOOLEAN,
           token.type # NUL => now = (token.type = "c")
    PROVE  Folds(Fetched(f, token), now)
  <1> DEFINE got == [f EXCEPT !.vec[0] = token, !.more = token.type # NUL]
             g == Fetched(f, token)
  <1>0. Shape(f) /\ f.pos = 0 /\ f.left = 0 /\ f.last_comment.type # "c"
    BY DEF Ready, InLoop
  <1>1. /\ Shape(got) /\ got.pos = 0 /\ got.left = 0 /\ got.last_comment = f.last_comment
        /\ got.phase = "skip" /\ got.vec[0] = token
    BY <1>0 DEF Shape
  <1>2. \/ g = got
        \/ token.type = NUL /\ g = [got EXCEPT !.phase = "done"]
        \/ /\ token.type # NUL /\ token.type # "c"
           /\ g = [got EXCEPT !.pos = 1, !.phase = "top"]
    BY DEF Fetched
  <1> HIDE DEF got, g
  <1>3. CASE g = got
    BY <1>0, <1>1, <1>3 DEF Folds, Ready, InLoop, Fetching, Places5, g
  <1>4. CASE token.type = NUL /\ g = [got EXCEPT !.phase = "done"]
    <2>1. /\ g.phase = "done" /\ DOMAIN g.vec = 0 .. 7 /\ g.pos = 0 /\ g.left = 0
      BY <1>1, <1>4 DEF Shape
    <2> QED
      BY <2>1 DEF Folds, Finished, g
  <1>5. CASE /\ token.type # NUL /\ token.type # "c"
             /\ g = [got EXCEPT !.pos = 1, !.phase = "top"]
    <2>1. /\ Shape(g) /\ g.phase = "top" /\ g.pos = 1 /\ g.left = 0 /\ g.vec[0] = token
          /\ g.last_comment = f.last_comment
      BY <1>1, <1>5 DEF Shape
    <2>2. InLoop(g)
      BY <2>1, <1>5 DEF InLoop, Printed
    <2>3. now = FALSE
      BY <1>5
    <2> QED
      BY <2>1, <2>2, <2>3, <1>0 DEF Folds, Ready, Fetching, Places5, g
  <1> QED
    BY <1>2, <1>3, <1>4, <1>5

LEMMA FetchedKeeps ==
    ASSUME NEW f, NEW h \in BOOLEAN, Ready(f, h), Fetching(f),
           NEW token, IsToken(token), NEW now \in BOOLEAN,
           IF token.type = NUL THEN now = h ELSE now = (token.type = "c")
    PROVE  Folds(Fetched(f, token), now)
  <1>1. CASE f.phase = "skip"
    BY <1>1, SkippedKeeps
  <1>2. CASE f.phase # "skip"
    <2> DEFINE got == [f EXCEPT !.vec[f.pos] = token]
               next == IF token.type = NUL THEN [got EXCEPT !.more = FALSE]
                       ELSE IF token.type = "c" THEN [got EXCEPT !.last_comment = token]
                       ELSE [got EXCEPT !.last_comment.type = NUL, !.pos = @ + 1]
    <2>0. /\ InLoop(f) /\ Shape(f) /\ f.pos \in 0 .. 5 /\ f.left \in 0 .. f.pos
          /\ (f.last_comment.type = "c") = h
          /\ \A i \in 0 .. f.pos - 1 : Printed(f.vec[i])
      BY <1>2 DEF Ready, InLoop
    <2>1. Fetched(f, token) = After(next, IF f.phase = "fetch2" THEN 2 ELSE 3)
      BY <1>2 DEF Fetched
    <2>2. /\ Shape(got) /\ got.vec[f.pos] = token
          /\ \A i \in 0 .. 7 : i # f.pos => got.vec[i] = f.vec[i]
          /\ got.pos = f.pos /\ got.left = f.left /\ got.last_comment = f.last_comment
      BY <2>0, PutFacts
    <2>3. \A i \in 0 .. f.pos - 1 : Printed(got.vec[i])
      BY <2>0, <2>2
    <2> HIDE DEF got
    <2>4. InLoop(next) /\ (next.last_comment.type = "c") = now
      <3>1. CASE token.type = NUL
        <4>1. next = [got EXCEPT !.more = FALSE]
          BY <3>1
        <4>2. /\ Shape(next) /\ next.vec = got.vec /\ next.pos = f.pos /\ next.left = f.left
              /\ next.last_comment = f.last_comment
          BY <4>1, <2>2 DEF Shape
        <4> HIDE DEF next
        <4> QED
          BY <4>2, <2>0, <2>3, <3>1 DEF InLoop
      <3>2. CASE token.type = "c"
        <4>1. next = [got EXCEPT !.last_comment = token]
          BY <3>2 DEF NUL
        <4>2. /\ Shape(next) /\ next.vec = got.vec /\ next.pos = f.pos /\ next.left = f.left
              /\ next.last_comment = token
          BY <4>1, <2>2 DEF Shape
        <4> HIDE DEF next
        <4> QED
          BY <4>2, <2>0, <2>3, <3>2 DEF InLoop, NUL
      <3>3. CASE token.type # NUL /\ token.type # "c"
        <4>1. next = [got EXCEPT !.last_comment.type = NUL, !.pos = @ + 1]
          BY <3>3
        <4>2. /\ Shape(next) /\ next.vec = got.vec /\ next.pos = f.pos + 1 /\ next.left = f.left
              /\ next.last_comment.type = NUL
          BY <4>1, <2>2 DEF Shape, IsToken, Fields
        <4> HIDE DEF next
        <4>3. \A i \in 0 .. f.pos : Printed(got.vec[i])
          BY <2>0, <2>2, <2>3, <3>3 DEF Printed
        <4>4. InLoop(next)
          BY <4>2, <4>3, <2>0 DEF InLoop
        <4> QED
          BY <4>2, <4>4, <3>3 DEF NUL
      <3> QED
        BY <3>1, <3>2, <3>3
    <2> HIDE DEF next
    <2>5. ASSUME NEW n \in {2, 3}, Fetched(f, token) = After(next, n)
          PROVE  Folds(Fetched(f, token), now)
      <3>1. Turned(next, After(next, n))
        BY <2>4, ToAfter
      <3> QED
        BY <2>4, <2>5, <3>1, TurnedIsReady
    <2> QED
      BY <2>1, <2>5
  <1> QED
    BY <1>1, <1>2
-----------------------------------------------------------------------------
(* The inductive invariant.                                                *)
IInv == held \in BOOLEAN /\ kinds \in Kinds /\ Folds(fo, held)

LEMMA TokensAreTokens ==
    ASSUME NEW kind
    PROVE  /\ IsToken(TokenOf(kind)) /\ TokenOf(kind).type = kind[1]
           /\ IsToken(EndOfText) /\ EndOfText.type = NUL
  BY DEF TokenOf, EndOfText, st_clear, IsToken, Fields

LEMMA InitIInv == Init => IInv
  <1> SUFFICES ASSUME Init PROVE IInv
    OBVIOUS
  <1>1. fo = StartFold
    BY DEF Init
  <1>2. /\ DOMAIN fo = {"vec", "pos", "left", "more", "last_comment", "phase"}
        /\ fo.vec = [i \in 0 .. 7 |-> st_clear] /\ fo.pos = 0 /\ fo.left = 0 /\ fo.more = TRUE
        /\ fo.last_comment = st_clear /\ fo.phase = "skip"
    BY <1>1 DEF StartFold
  <1>3. IsToken(st_clear) /\ st_clear.type = NUL
    BY DEF st_clear, IsToken, Fields
  <1>4. Shape(fo)
    BY <1>2, <1>3 DEF Shape
  <1>5. Ready(fo, FALSE)
    BY <1>2, <1>3, <1>4 DEF Ready, InLoop, Fetching, Places5, NUL
  <1> QED
    BY <1>2, <1>5 DEF IInv, Init, Folds

LEMMA NextIInv == IInv /\ [Next]_vars => IInv'
  <1> SUFFICES ASSUME IInv, [Next]_vars PROVE IInv'
    OBVIOUS
  <1>0. held \in BOOLEAN /\ kinds \in Kinds /\ Folds(fo, held)
    BY DEF IInv
  <1>1. ASSUME NEW kind \in kinds, Read(kind) PROVE IInv'
    <2>1. /\ Ready(fo, held) /\ Fetching(fo) /\ fo' = Fetched(fo, TokenOf(kind))
          /\ held' = (kind[1] = "c") /\ kinds' = kinds
      BY <1>0, <1>1 DEF Read, Fetching, Folds
    <2>2. kind[1] # NUL
      BY <1>0, KindsAssumption DEF KindsAssumption
    <2>3. /\ IsToken(TokenOf(kind)) /\ held' \in BOOLEAN
          /\ TokenOf(kind).type # NUL /\ held' = (TokenOf(kind).type = "c")
      BY <2>1, <2>2, TokensAreTokens
    <2>4. Folds(fo', held')
      BY <1>0, <2>1, <2>3, FetchedKeeps
    <2> QED
      BY <1>0, <2>1, <2>3, <2>4 DEF IInv
  <1>2. CASE ReadEnd
    <2>1. /\ Ready(fo, held) /\ Fetching(fo) /\ fo' = Fetched(fo, EndOfText)
          /\ held' = held /\ kinds' = kinds
      BY <1>0, <1>2 DEF ReadEnd, Fetching, Folds
    <2>2. Folds(fo', held)
      BY <1>0, <2>1, TokensAreTokens, FetchedKeeps
    <2> QED
      BY <1>0, <2>1, <2>2 DEF IInv
  <1>3. CASE Step
    <2>1. Ready(fo, held) /\ ~Fetching(fo) /\ fo' = FoldStep(fo) /\ held' = held /\ kinds' = kinds
      BY <1>0, <1>3 DEF Step, Folds
    <2>2. Folds(fo', held)
      BY <1>0, <2>1, FoldStepKeeps
    <2> QED
      BY <1>0, <2>1, <2>2 DEF IInv
  <1>4. CASE UNCHANGED vars
    BY <1>0, <1>4 DEF IInv, vars
  <1> QED
    BY <1>1, <1>2, <1>3, <1>4 DEF Next

LEMMA IInvAlways == Spec => []IInv
  <1>1. Init => IInv
    BY InitIInv
  <1>2. IInv /\ [Next]_vars => IInv'
    BY NextIInv
  <1> QED
    BY <1>1, <1>2, PTL DEF Spec
-----------------------------------------------------------------------------
(* Lists of operands.  Where the fold can be while it reads one, given the *)
(* tokens a supplier has: an operand, an operator or a comma after it,     *)
(* signs, the next operand.                                                *)
Comma == ","
IsOperand(ws, st) == st \in ws /\ st.type \in Operands
IsLink(ws, st) == st \in ws /\ st.type \in {"o", Comma}
IsComma(ws, st) == st \in ws /\ st.type = Comma
IsSign(ws, st) == st \in ws /\ st_is_unary_op(st)

(* The text has not ended.                                                *)
More(f) == f.more = TRUE

OneOperand(ws, f) == f.pos = 1 /\ IsOperand(ws, f.vec[0])
TwoOperands(ws, f) ==
    f.pos = 3 /\ IsOperand(ws, f.vec[0]) /\ IsLink(ws, f.vec[1]) /\ IsOperand(ws, f.vec[2])
SignedOperand(ws, f) ==
    /\ f.pos = 4 /\ IsOperand(ws, f.vec[0]) /\ IsComma(ws, f.vec[1])
    /\ IsSign(ws, f.vec[2]) /\ IsOperand(ws, f.vec[3])
OperandAt(ws, f) ==
    \/ /\ OneOperand(ws, f)
       /\ \/ f.left = 0 /\ f.phase \in {"top", "fetch2"}
          \/ f.left = 0 /\ f.phase = "pair" /\ ~More(f)
          \/ f.left = 1 /\ f.phase = "top" /\ ~More(f)
    \/ TwoOperands(ws, f) /\ f.left = 0 /\ f.phase = "triple"
    \/ SignedOperand(ws, f) /\ f.left = 1 /\ f.phase = "triple"

OneLink(ws, f) == f.pos = 2 /\ IsOperand(ws, f.vec[0]) /\ IsLink(ws, f.vec[1])
LinkAndSign(ws, f) ==
    /\ f.pos = 3 /\ IsOperand(ws, f.vec[0]) /\ IsLink(ws, f.vec[1]) /\ f.vec[1].type = "o"
    /\ IsSign(ws, f.vec[2])
CommaAndSign(ws, f) ==
    f.pos = 3 /\ IsOperand(ws, f.vec[0]) /\ IsComma(ws, f.vec[1]) /\ IsSign(ws, f.vec[2])
CommaAndSigns(ws, f) ==
    /\ f.pos = 4 /\ IsOperand(ws, f.vec[0]) /\ IsComma(ws, f.vec[1])
    /\ IsSign(ws, f.vec[2]) /\ IsSign(ws, f.vec[3])
OperatorAt(ws, f) ==
    \/ OneLink(ws, f) /\ f.left = 0 /\ f.phase \in {"top", "pair", "fetch3"}
    \/ /\ LinkAndSign(ws, f)
       /\ \/ f.left = 0 /\ f.phase = "triple"
          \/ f.left = 1 /\ f.phase \in {"top", "pair"}
    \/ /\ CommaAndSign(ws, f)
       /\ \/ f.left = 0 /\ f.phase \in {"top", "pair", "triple"}
          \/ f.left = 1 /\ f.phase \in {"top", "pair", "fetch3"}
    \/ /\ CommaAndSigns(ws, f)
       /\ \/ f.left = 1 /\ f.phase = "triple"
          \/ f.left = 2 /\ f.phase \in {"top", "pair"}

FoldedAway(f) ==
    /\ f.left \in 1 .. 2
    /\ f.vec[0].type \in Operands
    /\ f.left = 2 => f.vec[1].type = "c"

(* Where the fold is when what it has read is l.                           *)
InList(ws, f, l) ==
    /\ Fetching(f) => More(f)
    /\ l = "start" => f.phase \in {"skip", "done"}
    /\ l = "operand" => IF f.phase = "done" THEN FoldedAway(f) ELSE OperandAt(ws, f)
    /\ l = "operator" => f.phase = "done" \/ ~More(f) \/ OperatorAt(ws, f)
Quiet(ws) == \A a, b \in ws : syntax_merge_words(a, b) = NUL
ListInv == NoPhrases => InList({TokenOf(kind) : kind \in kinds}, fo, list)
-----------------------------------------------------------------------------
(* What the turns do to the slots of a list.                               *)

LEMMA FinishFacts ==
    ASSUME NEW f, InLoop(f), f.left = f.pos, f.pos \in 1 .. 4, NEW g, g = Finish(f)
    PROVE  /\ g.phase = "done" /\ g.vec[0] = f.vec[0]
           /\ IF f.last_comment.type = "c" THEN g.left = f.pos + 1 /\ g.vec[f.pos].type = "c"
              ELSE g.left = f.pos
  <1> DEFINE ends == f.left < 5 /\ f.last_comment.type = "c"
             added == IF ends THEN [f EXCEPT !.vec[f.left] = f.last_comment, !.left = @ + 1] ELSE f
             b == [added EXCEPT !.left = Min({@, 5}), !.phase = "done"]
  <1>0. Shape(f)
    BY DEF InLoop
  <1>1. g = b
    BY DEF Finish, LIBINJECTION_SQLI_MAX_TOKENS
  <1>2. CASE f.last_comment.type = "c"
    <2>1. added = [f EXCEPT !.vec[f.left] = f.last_comment, !.left = f.left + 1]
      BY <1>2, <1>0 DEF Shape
    <2>2. /\ DOMAIN added = DOMAIN f /\ added.left = f.pos + 1
          /\ added.vec[f.pos].type = "c" /\ added.vec[0] = f.vec[0]
      BY <2>1, <1>0, <1>2 DEF Shape
    <2>3. Min({f.pos + 1, 5}) = f.pos + 1
      <3>1. f.pos + 1 \in Nat /\ f.pos + 1 <= 5
        OBVIOUS
      <3> QED
        BY <3>1, MinOfLeft
    <2> HIDE DEF added
    <2>4. b.phase = "done" /\ b.vec = added.vec /\ b.left = f.pos + 1
      BY <2>2, <2>3, <1>0 DEF Shape
    <2> QED
      BY <1>1, <1>2, <2>2, <2>4
  <1>3. CASE f.last_comment.type # "c"
    <2>1. added = f
      BY <1>3
    <2>2. Min({f.left, 5}) = f.left
      <3>1. f.left \in Nat /\ f.left <= 5
        OBVIOUS
      <3> QED
        BY <3>1, MinOfLeft
    <2>3. b.phase = "done" /\ b.vec = f.vec /\ b.left = f.pos
      BY <2>1, <2>2, <1>0 DEF Shape
    <2> QED
      BY <1>1, <1>3, <2>3
  <1> QED
    BY <1>2, <1>3

LEMMA TopFacts ==
    ASSUME NEW f, InLoop(f), f.pos \in 1 .. 4, NEW g, g = Top(f)
    PROVE  IF f.more THEN g = After(f, 2)
           ELSE /\ g.phase = "done" /\ g.vec[0] = f.vec[0]
                /\ IF f.last_comment.type = "c"
                   THEN g.left = f.pos + 1 /\ g.vec[f.pos].type = "c"
                   ELSE g.left = f.pos
  <1>0. Shape(f) /\ f.left \in 0 .. 4
    BY DEF InLoop
  <1>1. g = IF ~f.more THEN Finish([f EXCEPT !.left = f.pos]) ELSE After(f, 2)
    BY <1>0 DEF Top, LIBINJECTION_SQLI_MAX_TOKENS
  <1>2. CASE ~f.more
    <2> DEFINE b == [f EXCEPT !.left = f.pos]
    <2>1. f.pos \in 0 .. f.pos
      OBVIOUS
    <2>2. InLoop(b)
      BY <2>1, MoveKeeps
    <2>3. b.left = f.pos /\ b.pos = f.pos /\ b.vec = f.vec /\ b.last_comment = f.last_comment
      BY <1>0 DEF Shape
    <2>4. g = Finish(b)
      BY <1>1, <1>2
    <2> HIDE DEF b
    <2> QED
      BY <1>2, <2>2, <2>3, <2>4, FinishFacts
  <1> QED
    BY <1>1, <1>2

LEMMA FetchedFacts ==
    ASSUME NEW f, InLoop(f), f.pos <= 5, NEW n \in {2, 3},
           f.phase = IF n = 2 THEN "fetch2" ELSE "fetch3",
           NEW token, IsToken(token), NEW g, g = Fetched(f, token)
    PROVE  /\ \A i \in 0 .. f.pos - 1 : g.vec[i] = f.vec[i]
           /\ g.left = f.left
           /\ token.type = NUL => g.pos = f.pos /\ ~More(g)
           /\ token.type = "c" => g.pos = f.pos /\ (More(g) <=> More(f))
           /\ token.type \notin {NUL, "c"} =>
                 g.pos = f.pos + 1 /\ (More(g) <=> More(f)) /\ g.vec[f.pos] = token
           /\ More(g) /\ g.pos <= 5 /\ g.pos - g.left < n => g.phase = f.phase
           /\ ~(More(g) /\ g.pos <= 5 /\ g.pos - g.left < n) =>
                 g.phase = IF n = 2 THEN "pair" ELSE "triple"
  <1> DEFINE got == [f EXCEPT !.vec[f.pos] = token]
             next == IF token.type = NUL THEN [got EXCEPT !.more = FALSE]
                     ELSE IF token.type = "c" THEN [got EXCEPT !.last_comment = token]
                     ELSE [got EXCEPT !.last_comment.type = NUL, !.pos = @ + 1]
  <1>0. Shape(f) /\ f.pos \in 0 .. 5 /\ f.left \in 0 .. f.pos
    BY DEF InLoop
  <1>1. g = After(next, n)
    BY DEF Fetched
  <1>2. /\ Shape(got) /\ got.vec[f.pos] = token
        /\ \A i \in 0 .. 7 : i # f.pos => got.vec[i] = f.vec[i]
        /\ got.pos = f.pos /\ got.left = f.left /\ got.last_comment = f.last_comment
        /\ got.more = f.more
    BY <1>0, PutFacts
  <1>3. \A i \in 0 .. f.pos - 1 : got.vec[i] = f.vec[i]
    BY <1>0, <1>2
  <1> HIDE DEF got
  <1>4. /\ Shape(next) /\ next.vec = got.vec /\ next.left = f.left
        /\ token.type = NUL => next.pos = f.pos /\ next.more = FALSE
        /\ token.type = "c" => next.pos = f.pos /\ next.more = f.more
        /\ token.type \notin {NUL, "c"} => next.pos = f.pos + 1 /\ next.more = f.more
    <2>1. CASE token.type = NUL
      BY <2>1, <1>2 DEF Shape, NUL
    <2>2. CASE token.type = "c"
      BY <2>2, <1>2 DEF Shape, NUL
    <2>3. CASE token.type \notin {NUL, "c"}
      BY <2>3, <1>2 DEF Shape, IsToken, Fields
    <2> QED
      BY <2>1, <2>2, <2>3
  <1> HIDE DEF next
  <1>5. next.pos \in 0 .. 6 /\ next.left \in 0 .. next.pos
    <2>1. next.pos = f.pos \/ next.pos = f.pos + 1
      BY <1>4
    <2> QED
      BY <2>1, <1>0, <1>4
  <1>6. /\ g.vec = next.vec /\ g.pos = next.pos /\ g.left = next.left /\ g.more = next.more
        /\ g.phase = IF next.more /\ next.pos <= 5 /\ next.pos - next.left < n THEN f.phase
                     ELSE IF n = 2 THEN "pair" ELSE "triple"
    BY <1>1, <1>4, <1>5, AfterFacts
  <1>7. next.more \in BOOLEAN
    BY <1>4 DEF Shape
  <1>8. /\ token.type = NUL => ~More(g)
        /\ token.type # NUL => (More(g) <=> More(f))
        /\ More(g) <=> next.more
    <2>1. token.type # NUL => next.more = f.more
      BY <1>4
    <2> QED
      BY <2>1, <1>4, <1>6, <1>7 DEF More
  <1>9. /\ \A i \in 0 .. f.pos - 1 : g.vec[i] = f.vec[i]
        /\ g.left = f.left
        /\ token.type \in {NUL, "c"} => g.pos = f.pos
        /\ token.type \notin {NUL, "c"} => g.pos = f.pos + 1 /\ g.vec[f.pos] = token
    BY <1>2, <1>3, <1>4, <1>6
  <1>10. /\ More(g) /\ g.pos <= 5 /\ g.pos - g.left < n => g.phase = f.phase
         /\ ~(More(g) /\ g.pos <= 5 /\ g.pos - g.left < n) =>
               g.phase = IF n = 2 THEN "pair" ELSE "triple"
    BY <1>6, <1>7, <1>8
  <1> QED
    BY <1>8, <1>9, <1>10 DEF NUL

LEMMA FetchedTwo ==
    ASSUME NEW f, InLoop(f), f.pos <= 5, f.phase = "fetch2",
           NEW token, IsToken(token), NEW g, g = Fetched(f, token)
    PROVE  /\ \A i \in 0 .. f.pos - 1 : g.vec[i] = f.vec[i]
           /\ g.left = f.left
           /\ token.type = NUL => g.pos = f.pos /\ ~More(g)
           /\ token.type = "c" => g.pos = f.pos /\ (More(g) <=> More(f))
           /\ token.type \notin {NUL, "c"} =>
                 g.pos = f.pos + 1 /\ (More(g) <=> More(f)) /\ g.vec[f.pos] = token
           /\ More(g) /\ g.pos <= 5 /\ g.pos - g.left < 2 => g.phase = "fetch2"
           /\ ~(More(g) /\ g.pos <= 5 /\ g.pos - g.left < 2) => g.phase = "pair"
  <1>1. 2 \in {2, 3} /\ f.phase = IF 2 = 2 THEN "fetch2" ELSE "fetch3"
    OBVIOUS
  <1> QED
    BY <1>1, FetchedFacts

LEMMA FetchedThree ==
    ASSUME NEW f, InLoop(f), f.pos <= 5, f.phase = "fetch3",
           NEW token, IsToken(token), NEW g, g = Fetched(f, token)
    PROVE  /\ \A i \in 0 .. f.pos - 1 : g.vec[i] = f.vec[i]
           /\ g.left = f.left
           /\ token.type = NUL => g.pos = f.pos /\ ~More(g)
           /\ token.type = "c" => g.pos = f.pos /\ (More(g) <=> More(f))
           /\ token.type \notin {NUL, "c"} =>
                 g.pos = f.pos + 1 /\ (More(g) <=> More(f)) /\ g.vec[f.pos] = token
           /\ More(g) /\ g.pos <= 5 /\ g.pos - g.left < 3 => g.phase = "fetch3"
           /\ ~(More(g) /\ g.pos <= 5 /\ g.pos - g.left < 3) => g.phase = "triple"
  <1>1. 3 \in {2, 3} /\ f.phase = IF 3 = 2 THEN "fetch2" ELSE "fetch3"
    OBVIOUS
  <1> QED
    BY <1>1, FetchedFacts
-----------------------------------------------------------------------------
(* Which rule applies in a list.                                           *)

LEMMA SignIsOperator ==
    ASSUME NEW f, NEW i, Unary(f, i)
    PROVE  IsType(f, i, {"o"})
  BY DEF Unary, IsType, st_is_unary_op

LEMMA PairNone ==
    ASSUME NEW f, syntax_merge_words(f.vec[f.left], f.vec[f.left + 1]) = NUL,
           IsType(f, 0, {"1", "n", Comma}), IsType(f, 1, {"o", Comma})
    PROVE  PairRule(f) = Third(f)
  <1>1. f.vec[f.left + 0].type \in {"1", "n", Comma} /\ f.vec[f.left + 1].type \in {"o", Comma}
    BY DEF IsType
  <1>2. \A x \in {"s", ";", "o", "&", "(", "k", "t", "A", "\\", ")", "{"} : x \notin {"1", "n", Comma}
    BY Zenon DEF Comma
  <1>3. \A x \in {"s", ";", "(", ")", "f", "n", "}"} : x \notin {"o", Comma}
    BY Zenon DEF Comma
  <1>4. /\ \A type \in {"s", ";"} : ~IsType(f, 0, {type})
        /\ ~IsType(f, 0, {"o", "&"}) /\ ~IsType(f, 0, {"("}) /\ ~IsType(f, 0, {";"})
        /\ ~IsType(f, 0, {"k"}) /\ ~IsType(f, 0, {"o"}) /\ ~IsType(f, 0, {"t"})
        /\ ~IsType(f, 0, {"A"}) /\ ~IsType(f, 0, {"\\"}) /\ ~IsType(f, 0, {"{"})
        /\ \A type \in {"(", ")"} : ~IsType(f, 0, {type})
    BY <1>1, <1>2 DEF IsType
  <1>5. ~IsType(f, 1, {"("}) /\ ~IsType(f, 1, {"}"})
    BY <1>1, <1>3 DEF IsType
  <1> QED
    BY <1>4, <1>5, Zenon DEF PairRule

LEMMA PairUnary ==
    ASSUME NEW f, IsType(f, 0, {"o"}), Unary(f, 1)
    PROVE  PairRule(f) = Drop(f, 1, 0)
  <1>1. IsType(f, 0, {"o", "&"}) /\ \A type \in {"s", ";"} : ~IsType(f, 0, {type})
    BY DEF IsType
  <1> QED
    BY <1>1, Zenon DEF PairRule

LEMMA TripleOperands ==
    ASSUME NEW f, ~(f.pos - f.left < 3), IsType(f, 0, {"1", "n"}), IsType(f, 1, {"o", Comma}),
           IsType(f, 2, {"1", "n"})
    PROVE  Triple(f) = Drop(f, 2, 0)
  <1>1. OperandsFold(f)
    BY Zenon DEF OperandsFold, IsType, Comma
  <1> QED
    BY <1>1, Zenon DEF Triple

LEMMA TripleSigned ==
    ASSUME NEW f, ~(f.pos - f.left < 3), IsType(f, 0, {Comma}), Unary(f, 1), IsType(f, 2, {"1", "n"})
    PROVE  Triple(f) = Over(f, 1, 3)
  <1>1. ~OperandsFold(f)
    BY Zenon DEF OperandsFold, IsType, Comma
  <1>2. IsType(f, 1, {"o"})
    BY SignIsOperator
  <1>3. ~SecondFolds(f)
    BY <1>2, Zenon DEF SecondFolds, IsType, Comma
  <1>4. SignedFolds(f)
    BY Zenon DEF SignedFolds, IsType, Comma
  <1> QED
    BY <1>1, <1>3, <1>4, Zenon DEF Triple

LEMMA TripleMoves ==
    ASSUME NEW f, InLoop(f), ~(f.pos - f.left < 3),
           IsType(f, 0, {"1", "n", Comma}), IsType(f, 1, {"o", Comma}), IsType(f, 2, {"o"})
    PROVE  Triple(f) = [f EXCEPT !.left = f.left + 1, !.phase = "top"]
  <1>1. ~OperandsFold(f)
    BY Zenon DEF OperandsFold, IsType, Comma
  <1>2. ~SecondFolds(f)
    BY Zenon DEF SecondFolds, IsType, Comma
  <1>3. ~SignedFolds(f)
    BY Zenon DEF SignedFolds, IsType, Comma
  <1>4. ~IsType(f, 0, {"f"})
    BY Zenon DEF IsType, Comma
  <1>5. Triple(f) = [f EXCEPT !.left = @ + 1, !.phase = "top"]
    BY <1>1, <1>2, <1>3, <1>4, Zenon DEF Triple
  <1> QED
    BY <1>5 DEF InLoop, Shape

LEMMA FoldStepPlaces ==
    ASSUME NEW f
    PROVE  /\ f.phase = "top" => FoldStep(f) = Top(f)
           /\ f.phase = "pair" => FoldStep(f) = Pair(f)
           /\ f.phase = "triple" => FoldStep(f) = Triple(f)
  BY DEF FoldStep

LEMMA AfterMore ==
    ASSUME NEW f, InLoop(f), More(f), f.pos <= 5, NEW n \in {2, 3}, NEW g, g = After(f, n)
    PROVE  /\ g.vec = f.vec /\ g.pos = f.pos /\ g.left = f.left /\ More(g)
           /\ f.pos - f.left < n => g.phase = IF n = 2 THEN "fetch2" ELSE "fetch3"
           /\ ~(f.pos - f.left < n) => g.phase = IF n = 2 THEN "pair" ELSE "triple"
  BY DEF After, Wants, InLoop, Shape, LIBINJECTION_SQLI_MAX_TOKENS, More

LEMMA AfterTwo ==
    ASSUME NEW f, InLoop(f), More(f), f.pos <= 5, NEW g, g = After(f, 2)
    PROVE  /\ g.vec = f.vec /\ g.pos = f.pos /\ g.left = f.left /\ More(g)
           /\ f.pos - f.left < 2 => g.phase = "fetch2"
           /\ ~(f.pos - f.left < 2) => g.phase = "pair"
  <1>1. 2 \in {2, 3}
    OBVIOUS
  <1> QED
    BY <1>1, AfterMore

LEMMA AfterThree ==
    ASSUME NEW f, InLoop(f), More(f), f.pos <= 5, NEW g, g = After(f, 3)
    PROVE  /\ g.vec = f.vec /\ g.pos = f.pos /\ g.left = f.left /\ More(g)
           /\ f.pos - f.left < 3 => g.phase = "fetch3"
           /\ ~(f.pos - f.left < 3) => g.phase = "triple"
  <1>1. 3 \in {2, 3}
    OBVIOUS
  <1> QED
    BY <1>1, AfterMore

LEMMA DropMore ==
    ASSUME NEW f, InLoop(f), More(f), NEW n, NEW left, NEW g, g = Drop(f, n, left)
    PROVE  g.vec = f.vec /\ g.pos = f.pos - n /\ g.left = left /\ More(g) /\ g.phase = "top"
  BY DEF Drop, InLoop, Shape, More

LEMMA OperandTurns ==
    ASSUME NEW ws, NEW f, InLoop(f), OperandAt(ws, f), f.phase \in {"top", "pair", "triple"},
           NEW g, g = FoldStep(f)
    PROVE  /\ IF g.phase = "done" THEN FoldedAway(g) ELSE OperandAt(ws, g)
           /\ Fetching(g) => g.more
  <1>0. Shape(f) /\ f.pos \in 0 .. 6 /\ f.left \in 0 .. f.pos /\ f.more \in BOOLEAN
    BY DEF InLoop, Shape
  <1>1. CASE OneOperand(ws, f) /\ f.phase = "top"
    <2>1. f.pos = 1 /\ f.pos \in 1 .. 4 /\ IsOperand(ws, f.vec[0]) /\ g = Top(f)
      BY <1>1, FoldStepPlaces DEF OneOperand
    <2>2. CASE ~f.more
      <3>1. /\ g.phase = "done" /\ g.vec[0] = f.vec[0]
            /\ IF f.last_comment.type = "c" THEN g.left = 2 /\ g.vec[1].type = "c" ELSE g.left = 1
        BY <2>1, <2>2, TopFacts
      <3>2. g.vec[0].type \in Operands
        BY <2>1, <3>1 DEF IsOperand
      <3> QED
        BY <3>1, <3>2 DEF FoldedAway, Fetching
    <2>3. CASE More(f)
      <3>1. g = After(f, 2) /\ f.left = 0
        BY <2>1, <2>3, <1>1, TopFacts DEF OperandAt, TwoOperands, SignedOperand, More
      <3>2. g.vec = f.vec /\ g.pos = 1 /\ g.left = 0 /\ More(g) /\ g.phase = "fetch2"
        BY <3>1, <2>1, <2>3, AfterTwo
      <3> QED
        BY <3>2, <2>1, <2>3 DEF OperandAt, OneOperand, More
    <2> QED
      BY <2>2, <2>3, <1>0 DEF More
  <1>2. CASE OneOperand(ws, f) /\ f.phase = "pair"
    <2>1. f.pos = 1 /\ f.left = 0 /\ ~More(f) /\ g = Pair(f)
      BY <1>2, FoldStepPlaces DEF OneOperand, OperandAt, TwoOperands, SignedOperand
    <2>2. g = [f EXCEPT !.left = 1, !.phase = "top"]
      BY <2>1 DEF Pair
    <2>3. g.vec = f.vec /\ g.pos = 1 /\ g.left = 1 /\ g.more = f.more /\ g.phase = "top"
      BY <2>1, <2>2, <1>0 DEF Shape
    <2> QED
      BY <2>1, <2>3, <1>2 DEF OperandAt, OneOperand, Fetching, More
  <1>3. CASE TwoOperands(ws, f) /\ f.left = 0 /\ f.phase = "triple"
    <2>1. ~(f.pos - f.left < 3) /\ g = Triple(f) /\ f.pos = 3 /\ IsOperand(ws, f.vec[0])
      BY <1>3, FoldStepPlaces DEF TwoOperands
    <2>2. IsType(f, 0, {"1", "n"}) /\ IsType(f, 1, {"o", Comma}) /\ IsType(f, 2, {"1", "n"})
      BY <1>3 DEF TwoOperands, IsOperand, IsLink, IsType, Operands
    <2>3. g = Drop(f, 2, 0)
      BY <2>1, <2>2, TripleOperands
    <2>4. g.vec = f.vec /\ g.pos = 1 /\ g.left = 0 /\ g.phase = "top"
      BY <2>1, <2>3, <1>0, DropFacts
    <2> QED
      BY <2>1, <2>4 DEF OperandAt, OneOperand, Fetching
  <1>4. CASE SignedOperand(ws, f) /\ f.left = 1 /\ f.phase = "triple"
    <2>1. ~(f.pos - f.left < 3) /\ g = Triple(f) /\ f.pos = 4 /\ IsOperand(ws, f.vec[0])
      BY <1>4, FoldStepPlaces DEF SignedOperand
    <2>2. IsType(f, 0, {Comma}) /\ Unary(f, 1) /\ IsType(f, 2, {"1", "n"})
      BY <1>4 DEF SignedOperand, IsOperand, IsComma, IsSign, IsType, Unary, Operands
    <2>3. g = Over(f, 1, 3)
      BY <2>1, <2>2, TripleSigned
    <2>4. f.left \in 0 .. 5 /\ 0 \in 0 .. 7 /\ 0 # f.left + 1 /\ 1 \in 0 .. 1
      BY <1>4
    <2>5. g.vec[0] = f.vec[0] /\ g.pos = f.pos - 3 /\ g.left = 0 /\ g.phase = "top"
      BY <2>3, <2>4, <1>0, OverFacts
    <2> QED
      BY <2>1, <2>5 DEF OperandAt, OneOperand, Fetching
  <1> QED
    BY <1>1, <1>2, <1>3, <1>4 DEF OperandAt

LEMMA OperatorTurns ==
    ASSUME NEW ws, Quiet(ws), NEW f, InLoop(f), OperatorAt(ws, f),
           f.phase \in {"top", "pair", "triple"}, More(f), NEW g, g = FoldStep(f)
    PROVE  OperatorAt(ws, g) /\ More(g)
  <1>0. Shape(f) /\ f.pos \in 0 .. 6 /\ f.left \in 0 .. f.pos /\ f.more \in BOOLEAN
    BY DEF InLoop, Shape
  <1>1. /\ f.pos \in 2 .. 4 /\ f.pos - f.left >= 2 /\ f.vec[0] \in ws /\ f.vec[1] \in ws
        /\ f.pos > 2 => f.vec[2] \in ws
        /\ f.pos > 3 => f.vec[3] \in ws
    BY <1>0 DEF OperatorAt, OneLink, LinkAndSign, CommaAndSign, CommaAndSigns,
                IsOperand, IsLink, IsComma, IsSign
  <1>2. ASSUME NEW b, b.vec = f.vec, b.pos = f.pos
        PROVE  /\ OneLink(ws, f) => OneLink(ws, b)
               /\ LinkAndSign(ws, f) => LinkAndSign(ws, b)
               /\ CommaAndSign(ws, f) => CommaAndSign(ws, b)
               /\ CommaAndSigns(ws, f) => CommaAndSigns(ws, b)
    BY <1>2 DEF OneLink, LinkAndSign, CommaAndSign, CommaAndSigns
  <1>3. CASE f.phase = "top"
    <2>1. g = After(f, 2)
      <3>1. f.pos \in 1 .. 4 /\ g = Top(f)
        BY <1>1, <1>3, FoldStepPlaces
      <3> QED
        BY <3>1, TopFacts DEF More
    <2>2. g.vec = f.vec /\ g.pos = f.pos /\ g.left = f.left /\ More(g) /\ g.phase = "pair"
      <3>1. f.pos <= 5 /\ ~(f.pos - f.left < 2)
        BY <1>0, <1>1
      <3> QED
        BY <2>1, <3>1, AfterTwo
    <2> QED
      BY <2>2, <1>2, <1>3 DEF OperatorAt
  <1>4. CASE f.phase = "pair"
    <2>1. g = PairRule(f)
      <3>1. ~(f.pos - f.left < 2) /\ g = Pair(f)
        BY <1>0, <1>1, <1>4, FoldStepPlaces
      <3> QED
        BY <3>1 DEF Pair
    <2>2. /\ g = After(f, 3) =>
                /\ g.vec = f.vec /\ g.pos = f.pos /\ g.left = f.left /\ More(g)
                /\ f.pos - f.left < 3 => g.phase = "fetch3"
                /\ ~(f.pos - f.left < 3) => g.phase = "triple"
          /\ g = Drop(f, 1, 0) =>
                g.vec = f.vec /\ g.pos = f.pos - 1 /\ g.left = 0 /\ More(g) /\ g.phase = "top"
      <3>1. f.pos <= 5
        BY <1>1
      <3>2. CASE g = After(f, 3)
        <4>1. g = Drop(f, 1, 0) => g.pos = f.pos - 1
          BY DropMore
        <4>2. f.pos # f.pos - 1
          BY <1>1
        <4> QED
          BY <3>1, <3>2, <4>1, <4>2, AfterThree
      <3>3. CASE g # After(f, 3)
        BY <3>3, DropMore
      <3> QED
        BY <3>2, <3>3
    <2>3. syntax_merge_words(f.vec[f.left], f.vec[f.left + 1]) = NUL
      <3>1. f.vec[f.left] \in ws /\ f.vec[f.left + 1] \in ws
        BY <1>0, <1>1
      <3> QED
        BY <3>1 DEF Quiet
    <2>4. IsType(f, 0, {"1", "n", Comma}) /\ IsType(f, 1, {"o", Comma}) => g = After(f, 3)
      BY <2>1, <2>3, PairNone DEF Third
    <2>5. IsType(f, 0, {"o"}) /\ Unary(f, 1) => g = Drop(f, 1, 0)
      BY <2>1, PairUnary
    <2>6. CASE OneLink(ws, f) /\ f.left = 0
      <3>1. IsType(f, 0, {"1", "n", Comma}) /\ IsType(f, 1, {"o", Comma}) /\ f.pos = 2
        BY <2>6 DEF OneLink, IsOperand, IsLink, IsType, Operands
      <3> QED
        BY <3>1, <2>2, <2>4, <2>6, <1>2 DEF OperatorAt
    <2>7. CASE LinkAndSign(ws, f) /\ f.left = 1
      <3>1. IsType(f, 0, {"o"}) /\ Unary(f, 1) /\ f.pos = 3
        BY <2>7, <1>0 DEF LinkAndSign, IsSign, IsType, Unary, st_is_unary_op
      <3>2. g.vec = f.vec /\ g.pos = 2 /\ g.left = 0 /\ More(g) /\ g.phase = "top"
        BY <3>1, <2>2, <2>5
      <3>3. OneLink(ws, g)
        BY <3>2, <2>7 DEF OneLink, LinkAndSign
      <3> QED
        BY <3>2, <3>3 DEF OperatorAt
    <2>8. CASE CommaAndSign(ws, f) /\ f.left = 0
      <3>1. IsType(f, 0, {"1", "n", Comma}) /\ IsType(f, 1, {"o", Comma}) /\ f.pos = 3
        BY <2>8 DEF CommaAndSign, IsOperand, IsComma, IsType, Operands
      <3> QED
        BY <3>1, <2>2, <2>4, <2>8, <1>2 DEF OperatorAt
    <2>9. CASE CommaAndSign(ws, f) /\ f.left = 1
      <3>1. IsType(f, 0, {"1", "n", Comma}) /\ IsType(f, 1, {"o", Comma}) /\ f.pos = 3
        BY <2>9 DEF CommaAndSign, IsSign, IsComma, IsType, st_is_unary_op
      <3> QED
        BY <3>1, <2>2, <2>4, <2>9, <1>2 DEF OperatorAt
    <2>10. CASE CommaAndSigns(ws, f) /\ f.left = 2
      <3>1. IsType(f, 0, {"o"}) /\ Unary(f, 1) /\ f.pos = 4
        BY <2>10 DEF CommaAndSigns, IsSign, IsType, Unary, st_is_unary_op
      <3>2. g.vec = f.vec /\ g.pos = 3 /\ g.left = 0 /\ More(g) /\ g.phase = "top"
        BY <3>1, <2>2, <2>5
      <3>3. CommaAndSign(ws, g)
        BY <3>2, <2>10 DEF CommaAndSign, CommaAndSigns
      <3> QED
        BY <3>2, <3>3 DEF OperatorAt
    <2> QED
      BY <1>4, <2>6, <2>7, <2>8, <2>9, <2>10 DEF OperatorAt
  <1>5. CASE f.phase = "triple"
    <2>1. /\ ~(f.pos - f.left < 3) /\ IsType(f, 0, {"1", "n", Comma}) /\ IsType(f, 1, {"o", Comma})
          /\ IsType(f, 2, {"o"})
      <3>1. CASE (LinkAndSign(ws, f) \/ CommaAndSign(ws, f)) /\ f.left = 0
        BY <3>1 DEF LinkAndSign, CommaAndSign, IsOperand, IsLink, IsComma, IsSign, IsType,
                    Operands, st_is_unary_op
      <3>2. CASE CommaAndSigns(ws, f) /\ f.left = 1
        BY <3>2 DEF CommaAndSigns, IsComma, IsSign, IsType, st_is_unary_op
      <3> QED
        BY <1>5, <3>1, <3>2 DEF OperatorAt
    <2>2. g = [f EXCEPT !.left = f.left + 1, !.phase = "top"]
      BY <1>5, <2>1, FoldStepPlaces, TripleMoves
    <2>3. /\ g.vec = f.vec /\ g.pos = f.pos /\ g.left = f.left + 1 /\ More(g)
          /\ g.phase = "top"
      BY <2>2, <1>0 DEF Shape, More
    <2> QED
      BY <2>3, <1>2, <1>5 DEF OperatorAt
  <1> QED
    BY <1>3, <1>4, <1>5

(* No turn forgets that the text has ended, and none fetches after it.     *)
Obeys(f, g) == (More(g) <=> More(f)) /\ (Fetching(g) => More(g))

LEMMA AfterObeys ==
    ASSUME NEW f, NEW b, InLoop(b), More(b) <=> More(f), NEW n \in {2, 3}, NEW g, g = After(b, n)
    PROVE  Obeys(f, g)
  <1>1. Shape(b) /\ b.pos \in 0 .. 6 /\ b.left \in 0 .. b.pos
    BY DEF InLoop
  <1>2. /\ g.more = b.more
        /\ IF b.more /\ b.pos <= 5 /\ b.pos - b.left < n
           THEN b.more ELSE g.phase = IF n = 2 THEN "pair" ELSE "triple"
    BY <1>1, AfterFacts
  <1> QED
    BY <1>1, <1>2 DEF Obeys, More, Fetching, Shape

LEMMA TopObeys ==
    ASSUME NEW f, NEW g, More(g) <=> More(f), g.phase \in {"top", "done"}
    PROVE  Obeys(f, g)
  BY DEF Obeys, Fetching

LEMMA FinishMore ==
    ASSUME NEW f, Shape(f)
    PROVE  Finish(f).more = f.more /\ Finish(f).phase = "done"
  BY DEF Finish, Shape

LEMMA FoldStepObeys ==
    ASSUME NEW f, InLoop(f), f.phase \in {"top", "pair", "triple"}, NEW g, g = FoldStep(f)
    PROVE  Obeys(f, g)
  <1>0. Shape(f) /\ f.pos \in 0 .. 6 /\ f.left \in 0 .. f.pos
    BY DEF InLoop
  <1>1. CASE f.phase = "top"
    <2> DEFINE folded ==
                 IF f.pos < 5 \/ ~FiveFold(f) THEN f
                 ELSE IF f.pos = 5 THEN [f EXCEPT !.pos = 1, !.left = 0]
                 ELSE [f EXCEPT !.vec[1] = f.vec[5], !.pos = 2, !.left = 0]
    <2>1. g = IF ~folded.more \/ folded.left >= 5
              THEN Finish([folded EXCEPT !.left = folded.pos]) ELSE After(folded, 2)
      BY <1>1, FoldStepPlaces DEF Top, LIBINJECTION_SQLI_MAX_TOKENS
    <2>2. InLoop(folded) /\ folded.more = f.more
      BY <1>1, TopFolded
    <2> HIDE DEF folded
    <2>3. CASE ~folded.more \/ folded.left >= 5
      <3> DEFINE b == [folded EXCEPT !.left = folded.pos]
      <3>1. Shape(b) /\ b.more = folded.more
        BY <2>2 DEF InLoop, Shape
      <3>2. g = Finish(b)
        BY <2>1, <2>3
      <3> HIDE DEF b
      <3>3. g.more = f.more /\ g.phase = "done"
        BY <3>1, <3>2, <2>2, FinishMore
      <3> QED
        BY <3>3, TopObeys DEF More
    <2>4. CASE ~(~folded.more \/ folded.left >= 5)
      <3>1. g = After(folded, 2) /\ 2 \in {2, 3}
        BY <2>1, <2>4
      <3> QED
        BY <3>1, <2>2, AfterObeys DEF More
    <2> QED
      BY <2>3, <2>4
  <1>2. CASE f.phase = "pair" /\ f.pos - f.left < 2
    <2>1. g = [f EXCEPT !.left = f.pos, !.phase = "top"]
      BY <1>2, FoldStepPlaces DEF Pair
    <2>2. g.more = f.more /\ g.phase = "top"
      BY <2>1, <1>0 DEF Shape
    <2> QED
      BY <2>2, TopObeys DEF More
  <1>3. CASE f.phase = "pair" /\ f.pos - f.left >= 2
    <2>1. g = PairRule(f)
      <3>1. ~(f.pos - f.left < 2)
        BY <1>0, <1>3
      <3> QED
        BY <3>1, <1>3, FoldStepPlaces DEF Pair
    <2>2. f.left \in 0 .. 4 /\ f.left \in 0 .. 5 /\ f.left \in 0 .. 6 /\ 3 \in {2, 3}
          /\ 0 \in 0 .. 1 /\ 1 \in 0 .. 1
      BY <1>0, <1>3
    <2>3. \A n, left : Drop(f, n, left).more = f.more /\ Drop(f, n, left).phase = "top"
      BY <1>0, DropFacts
    <2>4. Over(f, 0, 1).more = f.more /\ Over(f, 0, 1).phase = "top"
      BY <1>0, <2>2, OverFacts
    <2>5. \A i \in 0 .. 1 : \A type : Retype(f, i, type).more = f.more /\ Retype(f, i, type).phase = "top"
      BY <1>0, <2>2, RetypeFacts
    <2>6. CASE PairDrops(f, g)
      <3>1. ASSUME NEW type, NEW left, g = Drop(Merged(f, type), 1, left) PROVE Obeys(f, g)
        <4>1. Shape(Merged(f, type)) /\ Merged(f, type).more = f.more
          BY <1>0, <2>2, MergedFacts
        <4>2. g.more = f.more /\ g.phase = "top"
          BY <3>1, <4>1, DropFacts
        <4> QED
          BY <4>2, TopObeys DEF More
      <3>2. CASE g.more = f.more /\ g.phase = "top"
        BY <3>2, TopObeys DEF More
      <3> QED
        BY <2>3, <2>4, <2>6, <3>1, <3>2 DEF PairDrops
    <2>7. CASE PairRetypes(f, g)
      <3>1. g.more = f.more /\ g.phase = "top"
        BY <2>2, <2>5, <2>7 DEF PairRetypes
      <3> QED
        BY <3>1, TopObeys DEF More
    <2>8. CASE PairGoesOn(f, g)
      <3>1. CASE g = Third(f)
        BY <3>1, <2>2, AfterObeys DEF Third
      <3>2. CASE g = Third(Retype(f, 0, "f"))
        <4> DEFINE r == Retype(f, 0, "f")
        <4>1. "f" # NUL /\ "f" # "c"
          BY DEF NUL
        <4>2. InLoop(r) /\ r.more = f.more
          BY <2>2, <2>5, <4>1, RetypeKeeps
        <4>3. g = After(r, 3)
          BY <3>2 DEF Third
        <4> HIDE DEF r
        <4> QED
          BY <2>2, <4>2, <4>3, AfterObeys DEF More
      <3> QED
        BY <2>8, <3>1, <3>2 DEF PairGoesOn
    <2>9. CASE PairGoesBack(f, g)
      <3>1. ASSUME NEW i \in 0 .. 1, NEW type \in {"1", "t"}, NEW b,
                   b = [Retype(f, i, type) EXCEPT !.left = 0]
            PROVE  InLoop(b) /\ b.more = f.more /\ b.phase = "top"
        <4> DEFINE r == Retype(f, i, type)
        <4>1. type # NUL /\ type # "c"
          BY DEF NUL
        <4>2. InLoop(r) /\ r.more = f.more /\ r.phase = "top"
          BY <2>5, <4>1, RetypeKeeps
        <4>3. b = [r EXCEPT !.left = 0] /\ 0 \in 0 .. r.pos
          BY <3>1, <4>2 DEF InLoop
        <4> HIDE DEF r
        <4>4. InLoop(b)
          BY <4>2, <4>3, MoveKeeps
        <4> QED
          BY <4>2, <4>3, <4>4 DEF InLoop, Shape
      <3>2. CASE g = [Retype(f, 0, "1") EXCEPT !.left = 0]
        <4>1. g.more = f.more /\ g.phase = "top"
          BY <3>1, <3>2, <2>2
        <4> QED
          BY <4>1, TopObeys DEF More
      <3>3. CASE g = Third([Retype(f, 1, "t") EXCEPT !.left = 0])
        <4> DEFINE b == [Retype(f, 1, "t") EXCEPT !.left = 0]
        <4>1. InLoop(b) /\ b.more = f.more
          BY <3>1, <2>2
        <4>2. g = After(b, 3)
          BY <3>3 DEF Third
        <4> HIDE DEF b
        <4> QED
          BY <2>2, <4>1, <4>2, AfterObeys DEF More
      <3> QED
        BY <2>9, <3>2, <3>3 DEF PairGoesBack
    <2>10. CASE g = OpenBrace(f)
      <3>1. g.more = f.more /\ g.phase \in {"top", "done"}
        <4>1. CASE f.vec[f.left + 1].len = 0
          BY <4>1, <2>10, <1>0 DEF OpenBrace, Shape
        <4>2. CASE f.vec[f.left + 1].len # 0
          BY <4>2, <2>10, <2>3 DEF OpenBrace
        <4> QED
          BY <4>1, <4>2
      <3> QED
        BY <3>1, TopObeys DEF More
    <2> QED
      BY <2>1, <2>6, <2>7, <2>8, <2>9, <2>10, PairRuleCases
  <1>4. CASE f.phase = "triple"
    <2>1. g.more = f.more /\ g.phase = "top"
      <3>1. g = Triple(f)
        BY <1>4, FoldStepPlaces
      <3>2. CASE f.pos - f.left < 3
        <4>1. g = [f EXCEPT !.left = f.pos, !.phase = "top"]
          BY <3>1, <3>2, TripleCases
        <4> QED
          BY <4>1, <1>0 DEF Shape
      <3>3. CASE f.pos - f.left >= 3
        <4>1. TripleNext(f, g)
          <5>1. ~(f.pos - f.left < 3)
            BY <1>0, <3>3
          <5> QED
            BY <3>1, <5>1, TripleCases
        <4>2. f.left \in 0 .. 5 /\ f.left \in 0 .. 6 /\ 0 \in 0 .. 1 /\ 1 \in 0 .. 1
          BY <1>0, <3>3
        <4>3. /\ Drop(f, 2, 0).more = f.more /\ Drop(f, 2, 0).phase = "top"
              /\ \A n : Over(f, 1, n).more = f.more /\ Over(f, 1, n).phase = "top"
          BY <1>0, <4>2, DropFacts, OverFacts
        <4>4. ASSUME NEW b, Shape(b), b.more = f.more, g = [b EXCEPT !.left = @ + 1, !.phase = "top"]
              PROVE  g.more = f.more /\ g.phase = "top"
          BY <4>4 DEF Shape
        <4>5. Shape(Retype(f, 0, "n")) /\ Retype(f, 0, "n").more = f.more
          BY <1>0, <4>2, RetypeFacts
        <4> QED
          BY <1>0, <4>1, <4>3, <4>4, <4>5 DEF TripleNext
      <3> QED
        BY <1>0, <3>2, <3>3
    <2> QED
      BY <2>1, TopObeys DEF More
  <1> QED
    BY <1>0, <1>1, <1>2, <1>3, <1>4
-----------------------------------------------------------------------------
(* A list stays in its places.                                             *)

LEMMA ListTurns ==
    ASSUME NEW ws, Quiet(ws), NEW f, InLoop(f), f.phase \in {"top", "pair", "triple"},
           NEW l, InList(ws, f, l), NEW g, g = FoldStep(f)
    PROVE  InList(ws, g, l)
  <1>1. Obeys(f, g)
    BY FoldStepObeys
  <1>2. l # "start"
    BY DEF InList
  <1>3. ASSUME l = "operand" PROVE IF g.phase = "done" THEN FoldedAway(g) ELSE OperandAt(ws, g)
    <2>1. OperandAt(ws, f)
      BY <1>3 DEF InList
    <2> QED
      BY <2>1, OperandTurns
  <1>4. ASSUME l = "operator" PROVE ~More(g) \/ OperatorAt(ws, g)
    <2>1. CASE More(f)
      <3>1. OperatorAt(ws, f)
        BY <1>4, <2>1 DEF InList
      <3> QED
        BY <2>1, <3>1, OperatorTurns
    <2>2. CASE ~More(f)
      BY <2>2, <1>1 DEF Obeys
    <2> QED
      BY <2>1, <2>2
  <1> QED
    BY <1>1, <1>2, <1>3, <1>4 DEF InList, Obeys

LEMMA FetchedMore ==
    ASSUME NEW f, NEW h, Ready(f, h), Fetching(f), More(f), NEW token, IsToken(token),
           NEW g, g = Fetched(f, token)
    PROVE  Fetching(g) => More(g)
  <1>0. InLoop(f) /\ Shape(f) /\ f.pos <= 5
    BY DEF Ready, InLoop
  <1>1. CASE f.phase = "skip"
    <2>1. st_is_unary_op(token) => token.type = "o"
      BY DEF st_is_unary_op
    <2>2. token.type \in {"c", "(", "t", "o"} => token.type # NUL
      BY DEF NUL
    <2>3. \/ token.type # NUL /\ g = [f EXCEPT !.vec[0] = token, !.more = token.type # NUL]
          \/ g = [[f EXCEPT !.vec[0] = token, !.more = token.type # NUL] EXCEPT !.phase = "done"]
          \/ g = [[f EXCEPT !.vec[0] = token, !.more = token.type # NUL] EXCEPT !.pos = 1,
                                                                               !.phase = "top"]
      BY <1>1, <2>1, <2>2, Zenon DEF Fetched
    <2>4. \/ token.type # NUL /\ g.more = (token.type # NUL)
          \/ g.phase \in {"done", "top"}
      BY <2>3, <1>0 DEF Shape
    <2> QED
      BY <2>4 DEF Fetching, More
  <1>2. CASE f.phase = "fetch2"
    BY <1>0, <1>2, FetchedTwo DEF Fetching
  <1>3. CASE f.phase = "fetch3"
    BY <1>0, <1>3, FetchedThree DEF Fetching
  <1> QED
    BY <1>1, <1>2, <1>3 DEF Fetching

LEMMA SkippedList ==
    ASSUME NEW ws, NEW f, NEW h, Ready(f, h), f.phase = "skip", NEW token, IsToken(token),
           NEW g, g = Fetched(f, token)
    PROVE  /\ token.type \in {NUL, "c"} => g.phase \in {"skip", "done"}
           /\ IsOperand(ws, token) => OperandAt(ws, g) /\ g.phase = "top"
  <1>0. Shape(f) /\ f.left = 0
    BY DEF Ready, InLoop
  <1> DEFINE got == [f EXCEPT !.vec[0] = token, !.more = token.type # NUL]
  <1>1. /\ Shape(got) /\ got.left = 0 /\ got.phase = "skip" /\ got.vec[0] = token
    BY <1>0 DEF Shape
  <1>2. /\ token.type = "c" => g = got
        /\ token.type = NUL => g = got \/ g = [got EXCEPT !.phase = "done"]
    BY DEF Fetched
  <1>3. IsOperand(ws, token) => g = [got EXCEPT !.pos = 1, !.phase = "top"]
    BY DEF Fetched, IsOperand, Operands, st_is_unary_op, NUL
  <1> HIDE DEF got
  <1>4. token.type \in {NUL, "c"} => g.phase \in {"skip", "done"}
    BY <1>1, <1>2 DEF Shape
  <1>5. ASSUME IsOperand(ws, token) PROVE OperandAt(ws, g) /\ g.phase = "top"
    <2>1. g.pos = 1 /\ g.left = 0 /\ g.phase = "top" /\ g.vec[0] = token
      BY <1>1, <1>3, <1>5 DEF Shape
    <2> QED
      BY <2>1, <1>5 DEF OperandAt, OneOperand
  <1> QED
    BY <1>4, <1>5

(* After an operand: the end or a comment changes nothing, a link follows. *)
LEMMA OperandReads ==
    ASSUME NEW ws, NEW f, InLoop(f), Fetching(f), More(f), OperandAt(ws, f),
           NEW token, IsToken(token), NEW g, g = Fetched(f, token)
    PROVE  /\ token.type \in {NUL, "c"} => OperandAt(ws, g) /\ g.phase # "done"
           /\ IsLink(ws, token) => OperatorAt(ws, g)
  <1>1. f.pos = 1 /\ f.left = 0 /\ f.phase = "fetch2" /\ IsOperand(ws, f.vec[0])
    BY DEF OperandAt, OneOperand, Fetching
  <1>2. /\ g.vec[0] = f.vec[0] /\ g.left = 0
        /\ token.type = NUL => g.pos = 1 /\ ~More(g)
        /\ token.type = "c" => g.pos = 1 /\ More(g)
        /\ token.type \notin {NUL, "c"} => g.pos = 2 /\ g.vec[1] = token
        /\ More(g) /\ g.pos <= 5 /\ g.pos - g.left < 2 => g.phase = "fetch2"
        /\ ~(More(g) /\ g.pos <= 5 /\ g.pos - g.left < 2) => g.phase = "pair"
    <2>1. /\ \A i \in 0 .. f.pos - 1 : g.vec[i] = f.vec[i]
          /\ g.left = f.left
          /\ token.type = NUL => g.pos = f.pos /\ ~More(g)
          /\ token.type = "c" => g.pos = f.pos /\ (More(g) <=> More(f))
          /\ token.type \notin {NUL, "c"} =>
                g.pos = f.pos + 1 /\ (More(g) <=> More(f)) /\ g.vec[f.pos] = token
          /\ More(g) /\ g.pos <= 5 /\ g.pos - g.left < 2 => g.phase = "fetch2"
          /\ ~(More(g) /\ g.pos <= 5 /\ g.pos - g.left < 2) => g.phase = "pair"
      <3>1. f.pos <= 5
        BY <1>1
      <3> QED
        BY <1>1, <3>1, FetchedTwo
    <2>2. 0 \in 0 .. f.pos - 1
      BY <1>1
    <2> QED
      BY <1>1, <2>1, <2>2
  <1>3. CASE token.type = NUL
    <2>1. g.vec[0] = f.vec[0] /\ g.left = 0 /\ g.pos = 1 /\ ~More(g) /\ g.phase = "pair"
      BY <1>2, <1>3
    <2>2. ~IsLink(ws, token)
      BY <1>3, Zenon DEF IsLink, NUL, Comma
    <2> QED
      BY <1>1, <2>1, <2>2 DEF OperandAt, OneOperand
  <1>4. CASE token.type = "c"
    <2>1. g.vec[0] = f.vec[0] /\ g.left = 0 /\ g.pos = 1 /\ g.phase = "fetch2"
      BY <1>2, <1>4
    <2>2. ~IsLink(ws, token)
      BY <1>4, Zenon DEF IsLink, Comma
    <2> QED
      BY <1>1, <2>1, <2>2 DEF OperandAt, OneOperand
  <1>5. CASE token.type \notin {NUL, "c"}
    <2>1. /\ g.vec[0] = f.vec[0] /\ g.vec[1] = token /\ g.left = 0 /\ g.pos = 2
          /\ g.phase = "pair"
      BY <1>2, <1>5
    <2> QED
      BY <1>1, <1>5, <2>1 DEF OperatorAt, OneLink
  <1> QED
    BY <1>3, <1>4, <1>5

(* After an operator: the end or a comment, an operand, a sign.            *)
LEMMA OperatorReads ==
    ASSUME NEW ws, NEW f, InLoop(f), Fetching(f), More(f), OperatorAt(ws, f),
           NEW token, IsToken(token), NEW g, g = Fetched(f, token)
    PROVE  /\ token.type = NUL => ~More(g)
           /\ token.type = "c" => OperatorAt(ws, g)
           /\ IsOperand(ws, token) => OperandAt(ws, g) /\ g.phase # "done"
           /\ IsSign(ws, token) => OperatorAt(ws, g)
  <1>1. /\ f.phase = "fetch3"
        /\ \/ OneLink(ws, f) /\ f.left = 0 /\ f.pos = 2
           \/ CommaAndSign(ws, f) /\ f.left = 1 /\ f.pos = 3
    <2>1. f.phase # "top" /\ f.phase # "pair" /\ f.phase # "triple"
      BY DEF Fetching
    <2>2. /\ f.phase = "fetch3"
          /\ \/ OneLink(ws, f) /\ f.left = 0
             \/ CommaAndSign(ws, f) /\ f.left = 1
      BY <2>1, Zenon DEF OperatorAt
    <2> QED
      BY <2>2 DEF OneLink, CommaAndSign
  <1>2. /\ \A i \in 0 .. f.pos - 1 : g.vec[i] = f.vec[i]
        /\ g.left = f.left
        /\ token.type = NUL => g.pos = f.pos /\ ~More(g)
        /\ token.type = "c" => g.pos = f.pos /\ (More(g) <=> More(f))
        /\ token.type \notin {NUL, "c"} =>
              g.pos = f.pos + 1 /\ (More(g) <=> More(f)) /\ g.vec[f.pos] = token
        /\ More(g) /\ g.pos <= 5 /\ g.pos - g.left < 3 => g.phase = "fetch3"
        /\ ~(More(g) /\ g.pos <= 5 /\ g.pos - g.left < 3) => g.phase = "triple"
    <2>1. f.pos <= 5
      BY <1>1
    <2> QED
      BY <1>1, <2>1, FetchedThree
  <1>3. CASE token.type = NUL
    <2>1. ~IsOperand(ws, token) /\ ~IsSign(ws, token)
      BY <1>3, Zenon DEF IsOperand, IsSign, st_is_unary_op, Operands, NUL
    <2> QED
      BY <1>2, <1>3, <2>1 DEF NUL
  <1>4. CASE token.type = "c"
    <2>1. ~IsOperand(ws, token) /\ ~IsSign(ws, token)
      BY <1>4, Zenon DEF IsOperand, IsSign, st_is_unary_op, Operands
    <2>2. /\ \A i \in 0 .. f.pos - 1 : g.vec[i] = f.vec[i]
          /\ g.left = f.left /\ g.pos = f.pos /\ g.phase = "fetch3"
      BY <1>1, <1>2, <1>4
    <2>3. CASE OneLink(ws, f) /\ f.left = 0 /\ f.pos = 2
      <3>1. g.vec[0] = f.vec[0] /\ g.vec[1] = f.vec[1]
        BY <2>2, <2>3
      <3>2. OneLink(ws, g)
        BY <2>2, <2>3, <3>1 DEF OneLink
      <3> QED
        BY <1>4, <2>1, <2>2, <2>3, <3>2 DEF OperatorAt, NUL
    <2>4. CASE CommaAndSign(ws, f) /\ f.left = 1 /\ f.pos = 3
      <3>1. g.vec[0] = f.vec[0] /\ g.vec[1] = f.vec[1] /\ g.vec[2] = f.vec[2]
        BY <2>2, <2>4
      <3>2. CommaAndSign(ws, g)
        BY <2>2, <2>4, <3>1 DEF CommaAndSign
      <3> QED
        BY <1>4, <2>1, <2>2, <2>4, <3>2 DEF OperatorAt, NUL
    <2> QED
      BY <1>1, <2>3, <2>4
  <1>5. CASE token.type \notin {NUL, "c"}
    <2>1. /\ \A i \in 0 .. f.pos - 1 : g.vec[i] = f.vec[i]
          /\ g.vec[f.pos] = token /\ g.left = f.left /\ g.pos = f.pos + 1 /\ g.phase = "triple"
      BY <1>1, <1>2, <1>5
    <2>2. CASE OneLink(ws, f) /\ f.left = 0 /\ f.pos = 2
      <3>1. /\ g.vec[0] = f.vec[0] /\ g.vec[1] = f.vec[1] /\ g.vec[2] = token /\ g.pos = 3
            /\ g.left = 0
        BY <2>1, <2>2
      <3>2. IsOperand(ws, token) => TwoOperands(ws, g)
        BY <2>2, <3>1 DEF OneLink, TwoOperands
      <3>3. IsSign(ws, token) => LinkAndSign(ws, g) \/ CommaAndSign(ws, g)
        BY <2>2, <3>1 DEF OneLink, LinkAndSign, CommaAndSign, IsLink, IsComma
      <3> QED
        BY <1>5, <2>1, <3>1, <3>2, <3>3 DEF OperandAt, OperatorAt
    <2>3. CASE CommaAndSign(ws, f) /\ f.left = 1 /\ f.pos = 3
      <3>1. /\ g.vec[0] = f.vec[0] /\ g.vec[1] = f.vec[1] /\ g.vec[2] = f.vec[2]
            /\ g.vec[3] = token /\ g.pos = 4 /\ g.left = 1
        BY <2>1, <2>3
      <3>2. IsOperand(ws, token) => SignedOperand(ws, g)
        BY <2>3, <3>1 DEF CommaAndSign, SignedOperand
      <3>3. IsSign(ws, token) => CommaAndSigns(ws, g)
        BY <2>3, <3>1 DEF CommaAndSign, CommaAndSigns
      <3> QED
        BY <1>5, <2>1, <3>1, <3>2, <3>3 DEF OperandAt, OperatorAt
    <2> QED
      BY <1>1, <2>2, <2>3
  <1> QED
    BY <1>3, <1>4, <1>5

LEMMA ReadsList ==
    ASSUME NEW kind \in kinds, IInv, Read(kind), NEW ws, TokenOf(kind) \in ws,
           InList(ws, fo, list)
    PROVE  InList(ws, fo', list')
  <1> DEFINE token == TokenOf(kind)
  <1>0. /\ Ready(fo, held) /\ InLoop(fo) /\ fo.pos <= 5 /\ Fetching(fo) /\ fo' = Fetched(fo, token)
        /\ list' = NextInList(token) /\ More(fo) /\ IsToken(token) /\ fo.phase # "done"
    BY TokensAreTokens DEF Read, IInv, Folds, Ready, Fetching, InList
  <1>1. token.type # NUL
    BY TokensAreTokens, KindsAssumption DEF IInv, KindsAssumption
  <1> HIDE DEF token
  <1>2. Fetching(fo') => More(fo')
    BY <1>0, FetchedMore
  <1>3. list = "start" => fo.phase = "skip"
    BY <1>0 DEF InList
  <1>4. list = "operand" => OperandAt(ws, fo)
    BY <1>0 DEF InList
  <1>5. list = "operator" => OperatorAt(ws, fo)
    BY <1>0 DEF InList
  <1>6. fo.phase = "skip" => list # "operand" /\ list # "operator"
    BY <1>4, <1>5 DEF OperandAt, OperatorAt
  <1>7. CASE token.type = "c"
    <2>1. list' = list
      <3>1. "c" \notin Links /\ "c" \notin Operands /\ ~st_is_unary_op(token)
        BY <1>7, Zenon DEF Links, Operands, st_is_unary_op
      <3> QED
        BY <1>0, <1>7, <3>1 DEF NextInList
    <2>2. list = "start" => fo'.phase \in {"skip", "done"}
      BY <1>0, <1>3, <1>7, SkippedList
    <2>3. list = "operand" => OperandAt(ws, fo') /\ fo'.phase # "done"
      BY <1>0, <1>4, <1>7, OperandReads
    <2>4. list = "operator" => OperatorAt(ws, fo')
      BY <1>0, <1>5, <1>7, OperatorReads
    <2> QED
      BY <1>2, <2>1, <2>2, <2>3, <2>4 DEF InList
  <1>8. CASE token.type # "c"
    <2>1. \/ list \in {"start", "operator"} /\ IsOperand(ws, token) /\ list' = "operand"
          \/ list = "operator" /\ IsSign(ws, token) /\ list' = "operator"
          \/ list = "operand" /\ IsLink(ws, token) /\ list' = "operator"
          \/ list' = "none"
      <3>1. token \in ws
        BY DEF token
      <3>2. Links = {"o", Comma}
        BY Zenon DEF Links, Comma
      <3> QED
        BY <1>0, <1>8, <3>1, <3>2 DEF NextInList, IsOperand, IsSign, IsLink
    <2>2. CASE list \in {"start", "operator"} /\ IsOperand(ws, token) /\ list' = "operand"
      <3>1. OperandAt(ws, fo') /\ fo'.phase # "done"
        <4>1. CASE list = "start"
          <5>1. OperandAt(ws, fo') /\ fo'.phase = "top"
            BY <1>0, <1>3, <2>2, <4>1, SkippedList
          <5> QED
            BY <5>1
        <4>2. CASE list = "operator"
          BY <1>0, <1>5, <2>2, <4>2, OperatorReads
        <4> QED
          BY <2>2, <4>1, <4>2
      <3> QED
        BY <1>2, <2>2, <3>1 DEF InList
    <2>3. CASE list = "operator" /\ IsSign(ws, token) /\ list' = "operator"
      <3>1. OperatorAt(ws, fo')
        BY <1>0, <1>5, <2>3, OperatorReads
      <3> QED
        BY <1>2, <2>3, <3>1 DEF InList
    <2>4. CASE list = "operand" /\ IsLink(ws, token) /\ list' = "operator"
      <3>1. OperatorAt(ws, fo')
        BY <1>0, <1>4, <2>4, OperandReads
      <3> QED
        BY <1>2, <2>4, <3>1 DEF InList
    <2>5. CASE list' = "none"
      BY <1>2, <2>5 DEF InList
    <2> QED
      BY <2>1, <2>2, <2>3, <2>4, <2>5
  <1> QED
    BY <1>7, <1>8

LEMMA EndsList ==
    ASSUME IInv, ReadEnd, NEW ws, InList(ws, fo, list)
    PROVE  InList(ws, fo', list')
  <1> DEFINE token == EndOfText
  <1>0. /\ Ready(fo, held) /\ InLoop(fo) /\ fo.pos <= 5 /\ Fetching(fo) /\ fo' = Fetched(fo, token)
        /\ list' = list /\ More(fo) /\ IsToken(token) /\ token.type = NUL /\ fo.phase # "done"
    BY TokensAreTokens DEF ReadEnd, IInv, Folds, Ready, Fetching, InList
  <1> HIDE DEF token
  <1>1. Fetching(fo') => More(fo')
    BY <1>0, FetchedMore
  <1>2. list = "start" => fo'.phase \in {"skip", "done"}
    <2>1. list = "start" => fo.phase = "skip"
      BY <1>0 DEF InList
    <2> QED
      BY <1>0, <2>1, SkippedList
  <1>3. list = "operand" => OperandAt(ws, fo') /\ fo'.phase # "done"
    <2>1. list = "operand" => OperandAt(ws, fo)
      BY <1>0 DEF InList
    <2> QED
      BY <1>0, <2>1, OperandReads
  <1>4. list = "operator" => ~More(fo')
    <2>1. list = "operator" => OperatorAt(ws, fo)
      BY <1>0 DEF InList
    <2> QED
      BY <1>0, <2>1, OperatorReads
  <1> QED
    BY <1>0, <1>1, <1>2, <1>3, <1>4 DEF InList

LEMMA InitListInv == Init => ListInv
  BY DEF Init, StartFold, ListInv, InList, Fetching, More

LEMMA NextListInv == IInv /\ ListInv /\ [Next]_vars => ListInv'
  <1> SUFFICES ASSUME IInv, ListInv, [Next]_vars, NoPhrases'
               PROVE  InList({TokenOf(kind) : kind \in kinds'}, fo', list')
    BY DEF ListInv
  <1> DEFINE ws == {TokenOf(kind) : kind \in kinds}
  <1>1. kinds' = kinds
    BY DEF Next, Read, ReadEnd, Step, vars
  <1>2. NoPhrases /\ Quiet(ws)
    BY <1>1 DEF NoPhrases, Quiet
  <1>3. InList(ws, fo, list)
    BY <1>2 DEF ListInv
  <1>4. \A kind \in kinds : TokenOf(kind) \in ws
    OBVIOUS
  <1> HIDE DEF ws
  <1>5. InList(ws, fo', list')
    <2>1. ASSUME NEW kind \in kinds, Read(kind) PROVE InList(ws, fo', list')
      BY <1>3, <1>4, <2>1, ReadsList
    <2>2. CASE ReadEnd
      BY <1>3, <2>2, EndsList
    <2>3. CASE Step
      <3>1. /\ Ready(fo, held) /\ InLoop(fo) /\ fo' = FoldStep(fo) /\ list' = list
            /\ fo.phase \in {"top", "pair", "triple"}
        BY <2>3 DEF Step, IInv, Folds, Ready, Fetching, Places5
      <3> QED
        BY <1>2, <1>3, <3>1, ListTurns
    <2>4. CASE UNCHANGED vars
      BY <1>3, <2>4 DEF vars
    <2> QED
      BY <2>1, <2>2, <2>3, <2>4 DEF Next
  <1> QED
    BY <1>1, <1>5 DEF ws

LEMMA ListInvAlways == Spec => []ListInv
  <1>1. Init => ListInv
    BY InitListInv
  <1>2. IInv /\ ListInv /\ [Next]_vars => ListInv'
    BY NextListInv
  <1> QED
    BY <1>1, <1>2, IInvAlways, PTL DEF Spec
-----------------------------------------------------------------------------
(* libinjection_sqli_fold, whatever tokens it is given: what is left fits  *)
(* the fingerprint, has no holes, no comment but the last, and of a list   *)
(* of operands without a phrase only the first is left.                    *)
THEOREM FoldFits == Spec => []FoldFitsFingerprint
  <1>1. IInv /\ ListInv => FoldFitsFingerprint
    <2> SUFFICES ASSUME IInv, ListInv PROVE FoldFitsFingerprint
      OBVIOUS
    <2>0. held \in BOOLEAN /\ Folds(fo, held)
      BY DEF IInv
    <2>1. CASE ~Done
      <3>1. Ready(fo, held) /\ Shape(fo) /\ fo.pos \in 0 .. 6 /\ fo.left \in 0 .. fo.pos
        BY <2>0, <2>1 DEF Done, Folds, Ready, InLoop
      <3>2. TypeOK
        BY <2>1, <3>1 DEF TypeOK, Ready, Places5, Shape, Done, LIBINJECTION_SQLI_MAX_TOKENS
      <3> QED
        BY <2>1, <3>2 DEF FoldFitsFingerprint, NoHoles, FitsFingerprint, OnlyLastCommentKept,
                          ListsFoldAway
    <2>2. CASE Done
      <3>1. Finished(fo, held)
        BY <2>0, <2>2 DEF Done, Folds
      <3>2. TypeOK
        BY <2>2, <3>1 DEF TypeOK, Finished, Done, Fetching, LIBINJECTION_SQLI_MAX_TOKENS
      <3>3. /\ fo.left \in 0 .. 7
            /\ \A i \in 1 .. fo.left : i - 1 \in 0 .. fo.left - 1 /\ TypesOf[i] = fo.vec[i - 1].type
        BY <3>1 DEF Finished, TypesOf
      <3>4. NoHoles
        BY <3>1, <3>3 DEF NoHoles, Finished
      <3>5. fo.left >= 1 => TypesOf[fo.left] = fo.vec[fo.left - 1].type
        BY <3>3
      <3>6. FitsFingerprint
        BY <3>1, <3>3, <3>5 DEF FitsFingerprint, Finished, LIBINJECTION_SQLI_MAX_TOKENS
      <3>7. OnlyLastCommentKept
        BY <3>1, <3>3, <3>5 DEF OnlyLastCommentKept, Finished, LIBINJECTION_SQLI_MAX_TOKENS
      <3>8. ListsFoldAway
        <4> SUFFICES ASSUME list = "operand", NoPhrases
                     PROVE  \/ Len(TypesOf) = 1 /\ TypesOf[1] \in Operands
                            \/ Len(TypesOf) = 2 /\ TypesOf[1] \in Operands /\ TypesOf[2] = "c"
          BY DEF ListsFoldAway
        <4>1. FoldedAway(fo)
          BY <2>2 DEF ListInv, InList, Done
        <4>2. Len(TypesOf) = fo.left
          BY <3>3 DEF TypesOf
        <4>3. TypesOf[1] = fo.vec[0].type /\ (fo.left = 2 => TypesOf[2] = fo.vec[1].type)
          BY <3>3, <4>1 DEF FoldedAway
        <4> QED
          BY <4>1, <4>2, <4>3 DEF FoldedAway
      <3> QED
        BY <3>2, <3>4, <3>6, <3>7, <3>8 DEF FoldFitsFingerprint
    <2> QED
      BY <2>1, <2>2
  <1> QED
    BY <1>1, IInvAlways, ListInvAlways, PTL
-----------------------------------------------------------------------------
(* The variant: its parts are small, so that the first that changes        *)
(* decides.                                                                *)

LEMMA ReturnsAreFew ==
    ASSUME NEW f, NEW i
    PROVE  Returns(f, i) \in 0 .. 2
  BY DEF Returns

LEMMA PartsAreSmall ==
    ASSUME NEW f, InLoop(f)
    PROVE  /\ f.pos \in 0 .. 6 /\ f.left \in 0 .. f.pos
           /\ AllReturns(f) \in 0 .. 12 /\ Changes(f) \in 0 .. 3 /\ Places(f) \in 1 .. 4
  <1>1. f.pos \in 0 .. 6 /\ f.left \in 0 .. f.pos
    BY DEF InLoop
  <1>2. /\ Returns(f, 0) \in 0 .. 2 /\ Returns(f, 1) \in 0 .. 2 /\ Returns(f, 2) \in 0 .. 2
        /\ Returns(f, 3) \in 0 .. 2 /\ Returns(f, 4) \in 0 .. 2 /\ Returns(f, 5) \in 0 .. 2
    BY ReturnsAreFew
  <1>3. AllReturns(f) \in 0 .. 12
    BY <1>2 DEF AllReturns
  <1>4. Changes(f) \in 0 .. 3
    BY DEF Changes
  <1>5. Places(f) \in 1 .. 4
    BY DEF Places
  <1> QED
    BY <1>1, <1>3, <1>4, <1>5

LEMMA Lower ==
    ASSUME NEW f, InLoop(f), NEW g, InLoop(g),
           \/ g.pos < f.pos
           \/ /\ g.pos = f.pos
              /\ \/ AllReturns(g) < AllReturns(f)
                 \/ /\ AllReturns(g) = AllReturns(f)
                    /\ \/ f.left < g.left
                       \/ /\ g.left = f.left
                          /\ \/ Changes(g) < Changes(f)
                             \/ Changes(g) = Changes(f) /\ Places(g) < Places(f)
    PROVE  Variant(g) < Variant(f)
  <1>1. ASSUME NEW p \in 0 .. 6, NEW l \in 0 .. p, NEW r \in 0 .. 12, NEW c \in 0 .. 3,
               NEW q \in 1 .. 4, NEW p2 \in 0 .. 6, NEW l2 \in 0 .. p2, NEW r2 \in 0 .. 12,
               NEW c2 \in 0 .. 3, NEW q2 \in 1 .. 4,
               \/ p2 < p
               \/ p2 = p /\ r2 < r
               \/ p2 = p /\ r2 = r /\ l < l2
               \/ p2 = p /\ r2 = r /\ l2 = l /\ c2 < c
               \/ p2 = p /\ r2 = r /\ l2 = l /\ c2 = c /\ q2 < q
        PROVE  (((p2 * 13 + r2) * 7 + p2 - l2) * 4 + c2) * 5 + q2
                  < (((p * 13 + r) * 7 + p - l) * 4 + c) * 5 + q
    BY <1>1, SMT
  <1> QED
    BY <1>1, PartsAreSmall DEF Variant

LEMMA SlotReturns ==
    ASSUME NEW f, NEW g, g.pos = f.pos, NEW i, g.vec[i].val = f.vec[i].val,
           \/ g.vec[i].type = f.vec[i].type
           \/ g.vec[i].type \notin {"t", "\\"} /\ f.vec[i].type \notin {"t", "\\"}
    PROVE  Returns(g, i) = Returns(f, i)
  <1>1. HasUnderscore(g.vec[i]) = HasUnderscore(f.vec[i])
    BY DEF HasUnderscore
  <1>2. /\ (g.vec[i].type = "t") = (f.vec[i].type = "t")
        /\ (g.vec[i].type = "\\") = (f.vec[i].type = "\\")
    BY Zenon
  <1> QED
    BY <1>1, <1>2, Zenon DEF Returns

LEMMA SameReturns ==
    ASSUME NEW f, NEW g, g.pos = f.pos, \A i \in 0 .. 5 : Returns(g, i) = Returns(f, i)
    PROVE  AllReturns(g) = AllReturns(f)
  BY DEF AllReturns

LEMMA FewerReturns ==
    ASSUME NEW f, NEW g, g.pos = f.pos, NEW k \in 0 .. 5, Returns(g, k) < Returns(f, k),
           \A i \in 0 .. 5 : i # k => Returns(g, i) = Returns(f, i)
    PROVE  AllReturns(g) < AllReturns(f)
  <1>1. \A i \in 0 .. 5 : Returns(f, i) \in 0 .. 2 /\ Returns(g, i) \in 0 .. 2
    BY ReturnsAreFew
  <1> QED
    BY <1>1 DEF AllReturns

(* The tokens are the same.                                                *)
LEMMA SameTokens ==
    ASSUME NEW f, NEW g, g.vec = f.vec, g.pos = f.pos
    PROVE  /\ AllReturns(g) = AllReturns(f)
           /\ g.left = f.left => Changes(g) = Changes(f)
  <1>1. \A i \in 0 .. 5 : Returns(g, i) = Returns(f, i)
    BY DEF Returns
  <1> QED
    BY <1>1, SameReturns DEF Changes, IsType

(* One token has got another type, which sends the loop back no more often. *)
LEMMA RetypedReturns ==
    ASSUME NEW f, InLoop(f), NEW i \in 0 .. 1, f.left + i < f.pos, NEW g, g.pos = f.pos,
           NEW type, type \notin {"t", "\\"}, f.vec[f.left + i].type \notin {"t", "\\"},
           g.vec = Retype(f, i, type).vec
    PROVE  AllReturns(g) = AllReturns(f)
  <1>0. Shape(f) /\ f.left \in 0 .. 6
    BY DEF InLoop
  <1>1. /\ g.vec[f.left + i].type = type
        /\ \A j \in 0 .. 7 : /\ g.vec[j].val = f.vec[j].val
                             /\ j # f.left + i => g.vec[j] = f.vec[j]
    BY <1>0, RetypeFacts
  <1>2. ASSUME NEW j \in 0 .. 5 PROVE Returns(g, j) = Returns(f, j)
    <2>1. CASE j = f.left + i
      BY <2>1, <1>1, SlotReturns
    <2>2. CASE j # f.left + i
      BY <2>2, <1>1, SlotReturns
    <2> QED
      BY <2>1, <2>2
  <1> QED
    BY <1>2, SameReturns
-----------------------------------------------------------------------------
(* Each turn ends the loop, goes to fetch a token, or lowers the variant;  *)
(* and there is a token at left whenever a third one is asked for.         *)
Descends(f, g) ==
    /\ Fetching(g) \/ g.phase = "done" \/ Variant(g) < Variant(f)
    /\ g.phase \in {"fetch3", "triple"} => g.left < g.pos

LEMMA ToTopDescends ==
    ASSUME NEW f, NEW g, Variant(g) < Variant(f), g.phase = "top"
    PROVE  Descends(f, g)
  BY DEF Descends

LEMMA FewerDescends ==
    ASSUME NEW f, InLoop(f), NEW g, InLoop(g), g.pos < f.pos, g.phase = "top"
    PROVE  Descends(f, g)
  BY Lower, ToTopDescends

LEMMA TopDescends ==
    ASSUME NEW f, InLoop(f), f.phase = "top", NEW g, g = FoldStep(f), g.phase # "done" => InLoop(g)
    PROVE  Descends(f, g)
  <1>0. Shape(f) /\ f.pos \in 0 .. 6 /\ f.left \in 0 .. f.pos
    BY DEF InLoop
  <1> DEFINE folded ==
               IF f.pos < 5 \/ ~FiveFold(f) THEN f
               ELSE IF f.pos = 5 THEN [f EXCEPT !.pos = 1, !.left = 0]
               ELSE [f EXCEPT !.vec[1] = f.vec[5], !.pos = 2, !.left = 0]
  <1>1. g = IF ~folded.more \/ folded.left >= 5
            THEN Finish([folded EXCEPT !.left = folded.pos]) ELSE After(folded, 2)
    BY FoldStepPlaces DEF Top, LIBINJECTION_SQLI_MAX_TOKENS
  <1>2. InLoop(folded) /\ (folded.pos < f.pos \/ folded = f)
    BY TopFolded
  <1> HIDE DEF folded
  <1>3. folded.pos \in 0 .. 6 /\ folded.left \in 0 .. folded.pos /\ Shape(folded)
    BY <1>2 DEF InLoop
  <1>4. CASE ~folded.more \/ folded.left >= 5
    <2> DEFINE b == [folded EXCEPT !.left = folded.pos]
    <2>1. g = Finish(b) /\ Shape(b)
      BY <1>1, <1>3, <1>4 DEF Shape
    <2> HIDE DEF b
    <2>2. g.phase = "done"
      BY <2>1, FinishMore
    <2> QED
      BY <2>2 DEF Descends
  <1>5. CASE ~(~folded.more \/ folded.left >= 5)
    <2>1. g = After(folded, 2) /\ folded.left <= 4 /\ 2 \in {2, 3}
      BY <1>1, <1>3, <1>5
    <2>2. /\ g.vec = folded.vec /\ g.pos = folded.pos /\ g.left = folded.left
          /\ \/ g.phase = "fetch2"
             \/ g.phase = "pair" /\ ~(folded.pos <= 5 /\ folded.pos - folded.left < 2)
      BY <2>1, <1>3, <1>5, AfterFacts
    <2>3. CASE g.phase = "fetch2"
      BY <2>3 DEF Descends, Fetching
    <2>4. CASE g.phase = "pair" /\ ~(folded.pos <= 5 /\ folded.pos - folded.left < 2)
      <3>1. InLoop(g) /\ g.left # g.pos
        BY <2>1, <2>2, <2>4, <1>3
      <3>2. CASE folded.pos < f.pos
        <4>1. Variant(g) < Variant(f)
          BY <2>2, <3>1, <3>2, Lower
        <4> QED
          BY <2>4, <4>1 DEF Descends
      <3>3. CASE folded = f
        <4>1. g.pos = f.pos /\ g.left = f.left /\ AllReturns(g) = AllReturns(f)
              /\ Changes(g) = Changes(f)
          BY <2>2, <3>3, SameTokens
        <4>2. Places(g) = 2 /\ Places(f) = 3
          BY <2>4, <3>1 DEF Places
        <4>3. Variant(g) < Variant(f)
          BY <3>1, <4>1, <4>2, Lower
        <4> QED
          BY <2>4, <4>3 DEF Descends
      <3> QED
        BY <1>2, <3>2, <3>3
    <2> QED
      BY <2>2, <2>3, <2>4
  <1> QED
    BY <1>4, <1>5

LEMMA FewPairDescends ==
    ASSUME NEW f, InLoop(f), f.phase = "pair", f.pos - f.left < 2, NEW g, g = FoldStep(f),
           InLoop(g)
    PROVE  Descends(f, g)
  <1>0. Shape(f) /\ f.pos \in 0 .. 6 /\ f.left \in 0 .. f.pos
    BY DEF InLoop
  <1>1. g = [f EXCEPT !.left = f.pos, !.phase = "top"]
    BY FoldStepPlaces DEF Pair
  <1>2. g.vec = f.vec /\ g.pos = f.pos /\ g.left = f.pos /\ g.phase = "top"
    BY <1>1, <1>0 DEF Shape
  <1>3. AllReturns(g) = AllReturns(f) /\ (g.left = f.left => Changes(g) = Changes(f))
    BY <1>2, SameTokens
  <1>4. CASE f.left = f.pos
    <2>1. Places(f) = 4 /\ Places(g) = 3
      BY <1>2, <1>4 DEF Places
    <2> QED
      BY <1>2, <1>3, <1>4, <2>1, Lower, ToTopDescends
  <1>5. CASE f.left < f.pos
    BY <1>2, <1>3, <1>5, Lower, ToTopDescends
  <1> QED
    BY <1>0, <1>4, <1>5

LEMMA TripleDescends ==
    ASSUME NEW f, InLoop(f), f.phase = "triple", f.left < f.pos, NEW g, g = FoldStep(f),
           InLoop(g)
    PROVE  Descends(f, g)
  <1>0. Shape(f) /\ f.pos \in 0 .. 6 /\ f.left \in 0 .. f.pos
    BY DEF InLoop
  <1>1. g = Triple(f)
    BY FoldStepPlaces
  <1>2. CASE f.pos - f.left < 3
    <2>1. g = [f EXCEPT !.left = f.pos, !.phase = "top"]
      BY <1>1, <1>2, TripleCases
    <2>2. g.vec = f.vec /\ g.pos = f.pos /\ g.left = f.pos /\ g.phase = "top"
      BY <2>1, <1>0 DEF Shape
    <2>3. AllReturns(g) = AllReturns(f)
      BY <2>2, SameTokens
    <2> QED
      BY <2>2, <2>3, Lower, ToTopDescends
  <1>3. CASE ~(f.pos - f.left < 3)
    <2>1. TripleNext(f, g)
      BY <1>1, <1>3, TripleCases
    <2>2. f.left \in 0 .. 5 /\ f.left \in 0 .. 6 /\ 0 \in 0 .. 1 /\ 1 \in 0 .. 1
      BY <1>0, <1>3
    <2>3. CASE g = Drop(f, 2, 0)
      <3>1. g.pos = f.pos - 2 /\ g.phase = "top"
        BY <2>3, <1>0, DropFacts
      <3>2. g.pos < f.pos
        BY <3>1, <1>0
      <3> QED
        BY <3>1, <3>2, FewerDescends
    <2>4. ASSUME NEW n \in {1, 3}, g = Over(f, 1, n) PROVE Descends(f, g)
      <3>1. g.pos = f.pos - n /\ g.phase = "top"
        BY <2>4, <2>2, <1>0, OverFacts
      <3>2. g.pos < f.pos
        BY <3>1, <1>0
      <3> QED
        BY <3>1, <3>2, FewerDescends
    <2>5. CASE g = [f EXCEPT !.left = @ + 1, !.phase = "top"]
      <3>1. g.vec = f.vec /\ g.pos = f.pos /\ g.left = f.left + 1 /\ g.phase = "top"
        BY <2>5, <1>0 DEF Shape
      <3>2. AllReturns(g) = AllReturns(f) /\ f.left < g.left
        BY <3>1, <1>0, SameTokens
      <3> QED
        BY <3>1, <3>2, Lower, ToTopDescends
    <2>6. CASE IsType(f, 0, {"f"}) /\ g = [Retype(f, 0, "n") EXCEPT !.left = @ + 1, !.phase = "top"]
      <3> DEFINE r == Retype(f, 0, "n")
      <3>1. Shape(r) /\ r.pos = f.pos /\ r.left = f.left
        BY <2>2, <1>0, RetypeFacts
      <3>2. g = [r EXCEPT !.left = @ + 1, !.phase = "top"]
        BY <2>6
      <3>3. g.pos = f.pos /\ g.left = f.left + 1 /\ g.phase = "top" /\ g.vec = r.vec
        <4> HIDE DEF r
        <4> QED
          BY <3>1, <3>2 DEF Shape
      <3>4. f.vec[f.left + 0].type \notin {"t", "\\"} /\ "n" \notin {"t", "\\"}
        BY <2>6, Zenon DEF IsType
      <3>5. f.left + 0 < f.pos
        BY <1>0
      <3>6. AllReturns(g) = AllReturns(f)
        BY <2>2, <3>3, <3>4, <3>5, RetypedReturns
      <3>7. f.left < g.left
        BY <3>3, <1>0
      <3> QED
        BY <3>3, <3>6, <3>7, Lower, ToTopDescends
    <2>7. 1 \in {1, 3} /\ 3 \in {1, 3}
      OBVIOUS
    <2> QED
      BY <2>1, <2>3, <2>4, <2>5, <2>6, <2>7 DEF TripleNext
  <1> QED
    BY <1>2, <1>3

(* Retyping a token right of left lowers what may still change.            *)
LEMMA RetypedDescends ==
    ASSUME NEW f, InLoop(f), f.pos - f.left >= 2, f.phase = "pair", NEW g, InLoop(g),
           PairRetypes(f, g)
    PROVE  Descends(f, g)
  <1>0. Shape(f) /\ f.pos \in 0 .. 6 /\ f.left \in 0 .. 4 /\ f.left \in 0 .. 6
    BY DEF InLoop
  <1>1. ASSUME NEW i \in 0 .. 1, NEW type, type \notin {"t", "\\"},
               f.vec[f.left + i].type \notin {"t", "\\"}, g = Retype(f, i, type),
               Changes(g) < Changes(f)
        PROVE  Descends(f, g)
    <2>1. /\ g.pos = f.pos /\ g.left = f.left /\ g.phase = "top"
      BY <1>0, <1>1, RetypeFacts
    <2>2. AllReturns(g) = AllReturns(f)
      <3>1. f.left + i < f.pos
        BY <1>0
      <3> QED
        BY <1>1, <2>1, <3>1, RetypedReturns
    <2> QED
      BY <1>1, <2>1, <2>2, Lower, ToTopDescends
  <1>2. 0 \in 0 .. 1 /\ 1 \in 0 .. 1 /\ f.left \in 0 .. 7 /\ f.left + 1 \in 0 .. 7 /\ f.left # f.left + 1
        /\ f.left + 0 = f.left
    BY <1>0
  <1>3. ASSUME f.vec[f.left].type \notin {"k", "n", "v"}, IsType(f, 1, {"f"}), g = Retype(f, 1, "T")
        PROVE  Descends(f, g)
    <2>1. g.vec[f.left + 1].type = "T" /\ g.vec[f.left] = f.vec[f.left] /\ g.left = f.left
      BY <1>0, <1>2, <1>3, RetypeFacts
    <2>2. f.vec[f.left + 1].type = "f"
      BY <1>3 DEF IsType
    <2>3. Changes(g) = 0 /\ Changes(f) = 1
      BY <2>1, <2>2, <1>2, <1>3 DEF Changes, IsType
    <2>4. "T" \notin {"t", "\\"} /\ f.vec[f.left + 1].type \notin {"t", "\\"}
      BY <2>2, Zenon
    <2> QED
      BY <1>1, <1>2, <1>3, <2>3, <2>4
  <1>4. CASE IsType(f, 0, {"n", "v"}) /\ g = Retype(f, 0, "f")
    <2>1. g.vec[f.left].type = "f" /\ g.vec[f.left + 1] = f.vec[f.left + 1] /\ g.left = f.left
      BY <1>0, <1>2, <1>4, RetypeFacts
    <2>2. f.vec[f.left].type \in {"n", "v"}
      BY <1>2, <1>4 DEF IsType
    <2>3. Changes(g) = Changes(f) - 1 /\ Changes(f) \in 0 .. 3
      BY <2>1, <2>2, <1>2 DEF Changes, IsType
    <2>4. "f" \notin {"t", "\\"} /\ f.vec[f.left].type \notin {"t", "\\"}
      BY <2>2, Zenon
    <2>5. Changes(g) < Changes(f)
      BY <2>3
    <2> QED
      BY <1>1, <1>2, <1>4, <2>4, <2>5
  <1>5. ASSUME NEW type \in {"o", "n"}, IsType(f, 0, {"k"}), g = Retype(f, 0, type)
        PROVE  Descends(f, g)
    <2>1. g.vec[f.left].type = type /\ g.vec[f.left + 1] = f.vec[f.left + 1] /\ g.left = f.left
      BY <1>0, <1>2, <1>5, RetypeFacts
    <2>2. f.vec[f.left].type = "k"
      BY <1>2, <1>5 DEF IsType
    <2>3. Changes(g) <= Changes(f) - 1 /\ Changes(f) \in 0 .. 3 /\ Changes(g) \in 0 .. 3
      BY <2>1, <2>2, <1>2 DEF Changes, IsType
    <2>4. type \notin {"t", "\\"} /\ f.vec[f.left].type \notin {"t", "\\"}
      BY <2>2, Zenon
    <2>5. Changes(g) < Changes(f)
      BY <2>3
    <2> QED
      BY <1>1, <1>2, <1>5, <2>4, <2>5
  <1>6. "o" \in {"o", "n"} /\ "n" \in {"o", "n"}
    OBVIOUS
  <1>7. IsType(f, 0, {";"}) => f.vec[f.left].type \notin {"k", "n", "v"}
    BY <1>2, Zenon DEF IsType
  <1> QED
    BY <1>3, <1>4, <1>5, <1>6, <1>7, Zenon DEF PairRetypes

LEMMA GoesOnDescends ==
    ASSUME NEW f, InLoop(f), f.pos - f.left >= 2, f.phase = "pair", NEW g, InLoop(g),
           PairGoesOn(f, g)
    PROVE  Descends(f, g)
  <1>0. Shape(f) /\ f.pos \in 0 .. 6 /\ f.left \in 0 .. 4 /\ f.left \in 0 .. 6 /\ f.left \in 0 .. 7
        /\ 0 \in 0 .. 1 /\ f.left + 1 \in 0 .. 7 /\ f.left + 1 # f.left + 0 /\ f.left + 0 = f.left
        /\ 3 \in {2, 3} /\ f.left \in 0 .. f.pos
    BY DEF InLoop
  <1>1. ASSUME NEW b, Shape(b), b.pos = f.pos, b.left = f.left, AllReturns(b) = AllReturns(f),
               Changes(b) = Changes(f), g = After(b, 3)
        PROVE  Descends(f, g)
    <2>1. g.vec = b.vec /\ g.pos = f.pos /\ g.left = f.left /\ g.phase \in {"fetch3", "triple"}
      <3>1. b.pos \in 0 .. 6 /\ b.left \in 0 .. b.pos
        BY <1>0, <1>1
      <3> QED
        BY <1>0, <1>1, <3>1, AfterFacts
    <2>2. g.left < g.pos
      BY <1>0, <2>1
    <2>3. CASE g.phase = "fetch3"
      BY <2>2, <2>3 DEF Descends, Fetching
    <2>4. CASE g.phase = "triple"
      <3>1. AllReturns(g) = AllReturns(f) /\ Changes(g) = Changes(f)
        BY <1>1, <2>1, SameTokens
      <3>2. Places(g) = 1 /\ Places(f) = 2
        BY <1>0, <2>4 DEF Places
      <3>3. Variant(g) < Variant(f)
        BY <2>1, <3>1, <3>2, Lower
      <3> QED
        BY <2>2, <3>3 DEF Descends
    <2> QED
      BY <2>1, <2>3, <2>4
  <1>2. CASE g = Third(f)
    BY <1>0, <1>1, <1>2 DEF Third
  <1>3. CASE IsType(f, 0, {"o"}) /\ g = Third(Retype(f, 0, "f"))
    <2> DEFINE b == Retype(f, 0, "f")
    <2>1. /\ Shape(b) /\ b.pos = f.pos /\ b.left = f.left
          /\ b.vec[f.left].type = "f" /\ b.vec[f.left + 1] = f.vec[f.left + 1]
      BY <1>0, RetypeFacts
    <2>2. f.vec[f.left].type = "o"
      BY <1>0, <1>3 DEF IsType
    <2>3. "f" \notin {"t", "\\"} /\ f.vec[f.left + 0].type \notin {"t", "\\"}
      BY <1>0, <2>2, Zenon
    <2>4. AllReturns(b) = AllReturns(f)
      <3>1. f.left + 0 < f.pos /\ b.vec = Retype(f, 0, "f").vec
        BY <1>0
      <3> QED
        BY <1>0, <2>1, <2>3, <3>1, RetypedReturns
    <2>5. g = After(b, 3)
      BY <1>3 DEF Third
    <2> HIDE DEF b
    <2>6. Changes(b) = Changes(f)
      BY <2>1, <2>2, <1>0 DEF Changes, IsType
    <2> QED
      BY <1>1, <2>1, <2>4, <2>5, <2>6
  <1> QED
    BY <1>2, <1>3 DEF PairGoesOn

LEMMA GoesBackDescends ==
    ASSUME NEW f, InLoop(f), f.pos - f.left >= 2, f.phase = "pair", NEW g, InLoop(g),
           PairGoesBack(f, g)
    PROVE  Descends(f, g)
  <1>0. Shape(f) /\ f.pos \in 2 .. 6 /\ f.left \in 0 .. 4 /\ f.left \in 0 .. 6
        /\ 0 \in 0 .. 1 /\ 1 \in 0 .. 1 /\ 3 \in {2, 3}
    BY DEF InLoop
  <1>1. ASSUME NEW i \in 0 .. 1, NEW type, NEW b, b = [Retype(f, i, type) EXCEPT !.left = 0],
               \/ /\ type = "t" /\ f.vec[f.left + i].type = "n"
                  /\ HasUnderscore(f.vec[f.left + i])
               \/ type = "1" /\ f.vec[f.left + i].type = "\\"
        PROVE  /\ Shape(b) /\ b.pos = f.pos /\ b.left = 0 /\ b.phase = "top"
               /\ AllReturns(b) < AllReturns(f)
    <2> DEFINE r == Retype(f, i, type)
               k == f.left + i
    <2>1. /\ Shape(r) /\ r.pos = f.pos /\ r.phase = "top" /\ r.vec[k].type = type
          /\ \A j \in 0 .. 7 : /\ r.vec[j].val = f.vec[j].val
                               /\ j # k => r.vec[j] = f.vec[j]
      BY <1>0, RetypeFacts
    <2>2. k \in 0 .. 5 /\ k \in 0 .. 7 /\ k < f.pos
      BY <1>0
    <2>3. b = [r EXCEPT !.left = 0]
      BY <1>1
    <2> HIDE DEF r
    <2>4. Shape(b) /\ b.pos = f.pos /\ b.left = 0 /\ b.phase = "top" /\ b.vec = r.vec
      BY <2>1, <2>3 DEF Shape
    <2>5. \A j \in 0 .. 5 : j # k => Returns(b, j) = Returns(f, j)
      <3>1. ASSUME NEW j \in 0 .. 5, j # k PROVE Returns(b, j) = Returns(f, j)
        <4>1. b.vec[j] = f.vec[j]
          BY <2>1, <2>4, <3>1
        <4> QED
          BY <2>4, <4>1, SlotReturns
      <3> QED
        BY <3>1
    <2>6. HasUnderscore(b.vec[k]) = HasUnderscore(f.vec[k])
      BY <2>1, <2>2, <2>4 DEF HasUnderscore
    <2>7. ~(k >= b.pos) /\ ~(k >= f.pos)
      BY <1>0, <2>2, <2>4
    <2>8. CASE type = "t" /\ f.vec[k].type = "n" /\ HasUnderscore(f.vec[k])
      <3>1. Returns(f, k) = 1 /\ Returns(b, k) = 0
        BY <2>1, <2>4, <2>7, <2>8 DEF Returns
      <3> QED
        BY <2>2, <2>4, <2>5, <3>1, FewerReturns
    <2>9. CASE type = "1" /\ f.vec[k].type = "\\"
      <3>1. Returns(b, k) + 1 = Returns(f, k)
        <4>1. f.vec[k].type = "\\" /\ b.vec[k].type = "1"
          BY <2>1, <2>4, <2>9
        <4> HIDE DEF k
        <4> QED
          BY <2>6, <2>7, <4>1 DEF Returns
      <3>2. Returns(b, k) < Returns(f, k)
        BY <3>1, ReturnsAreFew
      <3> QED
        BY <2>2, <2>4, <2>5, <3>2, FewerReturns
    <2> QED
      BY <1>1, <2>4, <2>8, <2>9
  <1>2. CASE /\ IsType(f, 0, {"A"}) /\ IsType(f, 1, {"n"}) /\ HasUnderscore(f.vec[f.left + 1])
             /\ g = Third([Retype(f, 1, "t") EXCEPT !.left = 0])
    <2> DEFINE b == [Retype(f, 1, "t") EXCEPT !.left = 0]
    <2>1. f.vec[f.left + 1].type = "n"
      BY <1>2 DEF IsType
    <2>2. Shape(b) /\ b.pos = f.pos /\ b.left = 0 /\ AllReturns(b) < AllReturns(f)
      BY <1>0, <1>1, <1>2, <2>1
    <2>3. g = After(b, 3)
      BY <1>2 DEF Third
    <2> HIDE DEF b
    <2>4. g.vec = b.vec /\ g.pos = f.pos /\ g.left = 0 /\ g.phase \in {"fetch3", "triple"}
      <3>1. b.pos \in 0 .. 6 /\ b.left \in 0 .. b.pos
        BY <1>0, <2>2
      <3> QED
        BY <1>0, <2>2, <2>3, <3>1, AfterFacts
    <2>5. AllReturns(g) = AllReturns(b)
      BY <2>2, <2>4, SameTokens
    <2>6. Variant(g) < Variant(f)
      BY <2>2, <2>4, <2>5, Lower
    <2> QED
      BY <1>0, <2>4, <2>6 DEF Descends
  <1>3. CASE IsType(f, 0, {"\\"}) /\ g = [Retype(f, 0, "1") EXCEPT !.left = 0]
    <2>1. f.vec[f.left + 0].type = "\\"
      BY <1>3, Zenon DEF IsType
    <2>2. g.pos = f.pos /\ g.phase = "top" /\ AllReturns(g) < AllReturns(f)
      BY <1>0, <1>1, <1>3, <2>1
    <2> QED
      BY <2>2, Lower, ToTopDescends
  <1> QED
    BY <1>2, <1>3 DEF PairGoesBack

LEMMA PairDescends ==
    ASSUME NEW f, InLoop(f), f.phase = "pair", f.pos - f.left >= 2, NEW g, g = FoldStep(f),
           g.phase # "done" => InLoop(g)
    PROVE  Descends(f, g)
  <1>0. Shape(f) /\ f.pos \in 0 .. 6 /\ f.left \in 0 .. 4 /\ f.left \in 0 .. 5 /\ f.left \in 0 .. 6
        /\ 0 \in 0 .. 1
    BY DEF InLoop
  <1>1. g = PairRule(f)
    <2>1. ~(f.pos - f.left < 2)
      BY <1>0
    <2> QED
      BY <2>1, FoldStepPlaces DEF Pair
  <1>2. CASE g.phase = "done"
    BY <1>2 DEF Descends
  <1>3. CASE g.phase # "done"
    <2>0. InLoop(g)
      BY <1>3
    <2>1. ASSUME NEW n \in 1 .. 2, NEW left, g = Drop(f, n, left) PROVE Descends(f, g)
      <3>1. g.pos = f.pos - n /\ g.phase = "top"
        BY <2>1, <1>0, DropFacts
      <3>2. g.pos < f.pos
        BY <3>1, <1>0
      <3> QED
        BY <2>0, <3>1, <3>2, FewerDescends
    <2>2. 1 \in 1 .. 2 /\ 2 \in 1 .. 2
      OBVIOUS
    <2>3. CASE PairDrops(f, g)
      <3>1. CASE g = Over(f, 0, 1)
        <4>1. g.pos = f.pos - 1 /\ g.phase = "top"
          BY <3>1, <1>0, OverFacts
        <4>2. g.pos < f.pos
          BY <4>1, <1>0
        <4> QED
          BY <2>0, <4>1, <4>2, FewerDescends
      <3>2. ASSUME NEW merged, NEW left, g = Drop(Merged(f, merged), 1, left)
            PROVE  Descends(f, g)
        <4>1. Shape(Merged(f, merged)) /\ Merged(f, merged).pos = f.pos
          BY <1>0, MergedFacts
        <4>2. g.pos = f.pos - 1 /\ g.phase = "top"
          BY <3>2, <4>1, DropFacts
        <4>3. g.pos < f.pos
          BY <4>2, <1>0
        <4> QED
          BY <2>0, <4>2, <4>3, FewerDescends
      <3> QED
        BY <2>1, <2>2, <2>3, <3>1, <3>2 DEF PairDrops
    <2>4. CASE PairRetypes(f, g)
      BY <2>0, <2>4, RetypedDescends
    <2>5. CASE PairGoesOn(f, g)
      BY <2>0, <2>5, GoesOnDescends
    <2>6. CASE PairGoesBack(f, g)
      BY <2>0, <2>6, GoesBackDescends
    <2>7. CASE g = OpenBrace(f)
      <3>1. f.vec[f.left + 1].len # 0
        <4>1. CASE f.vec[f.left + 1].len = 0
          <5>1. g.phase = "done"
            BY <4>1, <2>7, <1>0 DEF OpenBrace, Shape
          <5> QED
            BY <5>1, <1>3
        <4> QED
          BY <4>1
      <3>2. g = Drop(f, 2, 0)
        BY <2>7, <3>1 DEF OpenBrace
      <3> QED
        BY <2>1, <2>2, <3>2
    <2> QED
      BY <1>1, <2>3, <2>4, <2>5, <2>6, <2>7, PairRuleCases
  <1> QED
    BY <1>2, <1>3
-----------------------------------------------------------------------------
(* The loop ends between two tokens.                                       *)
ThirdHasFirst == fo.phase \in {"fetch3", "triple"} => fo.left < fo.pos

LEMMA FoldStepDescends ==
    ASSUME NEW f, NEW h \in BOOLEAN, Ready(f, h), ~Fetching(f),
           f.phase \in {"fetch3", "triple"} => f.left < f.pos, NEW g, g = FoldStep(f)
    PROVE  Descends(f, g)
  <1>1. InLoop(f) /\ f.phase \in {"top", "pair", "triple"} /\ f.pos - f.left \in 0 .. 6
    BY DEF Ready, Fetching, Places5, InLoop
  <1>2. g.phase # "done" => InLoop(g)
    <2>1. Folds(g, h)
      BY FoldStepKeeps
    <2> QED
      BY <2>1 DEF Folds, Ready
  <1>3. CASE f.phase = "top"
    BY <1>1, <1>2, <1>3, TopDescends
  <1>4. CASE f.phase = "pair"
    <2>1. CASE f.pos - f.left >= 2
      BY <1>1, <1>2, <1>4, <2>1, PairDescends
    <2>2. CASE f.pos - f.left < 2
      <3>1. g = [f EXCEPT !.left = f.pos, !.phase = "top"]
        BY <1>4, <2>2, FoldStepPlaces DEF Pair
      <3>2. g.phase = "top"
        BY <3>1, <1>1 DEF InLoop, Shape
      <3> QED
        BY <1>1, <1>2, <1>4, <2>2, <3>2, FewPairDescends
    <2> QED
      BY <1>1, <2>1, <2>2
  <1>5. CASE f.phase = "triple"
    <2>1. CASE g.phase = "done"
      BY <2>1 DEF Descends
    <2>2. CASE g.phase # "done"
      BY <1>1, <1>2, <1>5, <2>2, TripleDescends
    <2> QED
      BY <2>1, <2>2
  <1> QED
    BY <1>1, <1>3, <1>4, <1>5

LEMMA FetchedHasFirst ==
    ASSUME NEW f, NEW h, Ready(f, h), Fetching(f), NEW token, IsToken(token),
           f.phase \in {"fetch3", "triple"} => f.left < f.pos, NEW g, g = Fetched(f, token)
    PROVE  g.phase \in {"fetch3", "triple"} => g.left < g.pos
  <1>0. InLoop(f) /\ Shape(f) /\ f.pos \in 0 .. 5 /\ f.left \in 0 .. f.pos
    BY DEF Ready, InLoop
  <1>1. CASE f.phase = "skip"
    <2> DEFINE got == [f EXCEPT !.vec[0] = token, !.more = token.type # NUL]
    <2>1. \/ g = got
          \/ g = [got EXCEPT !.phase = "done"]
          \/ g = [got EXCEPT !.pos = 1, !.phase = "top"]
      BY <1>1, Zenon DEF Fetched
    <2>2. got.phase = "skip" /\ DOMAIN got = DOMAIN f
      BY <1>0, <1>1 DEF Shape
    <2> HIDE DEF got
    <2>3. g.phase \in {"skip", "done", "top"}
      BY <2>1, <2>2, <1>0 DEF Shape
    <2> QED
      BY <2>3
  <1>2. CASE f.phase = "fetch2"
    <2>1. g.phase \in {"fetch2", "pair"}
      BY <1>0, <1>2, FetchedTwo
    <2> QED
      BY <2>1
  <1>3. CASE f.phase = "fetch3"
    <2>1. g.left = f.left /\ (g.pos = f.pos \/ g.pos = f.pos + 1)
      BY <1>0, <1>3, FetchedThree
    <2> QED
      BY <1>0, <1>3, <2>1
  <1> QED
    BY <1>1, <1>2, <1>3 DEF Fetching

LEMMA NextHasFirst == IInv /\ ThirdHasFirst /\ [Next]_vars => ThirdHasFirst'
  <1> SUFFICES ASSUME IInv, ThirdHasFirst, [Next]_vars PROVE ThirdHasFirst'
    OBVIOUS
  <1>0. held \in BOOLEAN /\ Folds(fo, held)
    BY DEF IInv
  <1>1. ASSUME NEW token, IsToken(token), Fetching(fo), fo' = Fetched(fo, token)
        PROVE  ThirdHasFirst'
    <2>1. Ready(fo, held)
      BY <1>0, <1>1 DEF Folds, Fetching
    <2> QED
      BY <1>1, <2>1, FetchedHasFirst DEF ThirdHasFirst
  <1>2. CASE \E kind \in kinds : Read(kind)
    BY <1>1, <1>2, TokensAreTokens DEF Read
  <1>3. CASE ReadEnd
    BY <1>1, <1>3, TokensAreTokens DEF ReadEnd
  <1>4. CASE Step
    <2>1. Ready(fo, held) /\ ~Fetching(fo) /\ fo' = FoldStep(fo)
      BY <1>0, <1>4 DEF Step, Folds
    <2>2. Descends(fo, fo')
      BY <1>0, <2>1, FoldStepDescends DEF ThirdHasFirst
    <2> QED
      BY <2>2 DEF Descends, ThirdHasFirst
  <1>5. CASE UNCHANGED vars
    BY <1>5 DEF vars, ThirdHasFirst
  <1> QED
    BY <1>2, <1>3, <1>4, <1>5 DEF Next

(* libinjection_sqli_fold, whatever tokens it is given, does only finitely *)
(* many turns before it reads the next token or is done: no rule undoes    *)
(* what another does.                                                      *)
THEOREM FoldLoopEnds == Spec => FoldEnds
  <1>1. Init => ThirdHasFirst
    BY DEF Init, StartFold, ThirdHasFirst
  <1>2. IInv /\ ThirdHasFirst /\ [Next]_vars => ThirdHasFirst'
    BY NextHasFirst
  <1>3. IInv /\ ThirdHasFirst /\ [Next]_vars =>
          [~Fetching(fo) /\ ~Done => Fetching(fo') \/ Done' \/ Variant(fo') < Variant(fo)]_vars
    <2> SUFFICES ASSUME IInv, ThirdHasFirst, Next, ~Fetching(fo), ~Done
                 PROVE  Fetching(fo') \/ Done' \/ Variant(fo') < Variant(fo)
      OBVIOUS
    <2>1. Step
      BY DEF Next, Read, ReadEnd
    <2>2. held \in BOOLEAN /\ Ready(fo, held) /\ fo' = FoldStep(fo)
      BY <2>1 DEF IInv, Folds, Done, Step
    <2>3. Descends(fo, fo')
      BY <2>2, FoldStepDescends DEF ThirdHasFirst
    <2> QED
      BY <2>3 DEF Descends, Done
  <1> QED
    BY <1>1, <1>2, <1>3, IInvAlways, PTL DEF Spec, FoldEnds
=============================================================================
