-------------------------- MODULE CJSONMinifyProofs --------------------------
(***************************************************************************)
(* Theorems about cJSON_Minify for texts of every length: both pointers    *)
(* stay in the buffer, and the output, which is written over the input,    *)
(* never reaches a byte that is still to be read.                          *)
(***************************************************************************)
EXTENDS CJSONMinify, SequenceTheorems, OrderLemmas

\* A C string holds no NUL before its end.
TextsOf(Byte) == /\ NUL \notin Byte
                 /\ Pieces \subseteq Seq(Byte)
                 /\ MaxPieces \in Nat

(* What every turn relies on: the memory holds a text and its NUL, the     *)
(* output is behind the input, and from the input pointer on the memory is *)
(* the text that was given.                                                *)
MInv(Byte) ==
    /\ original \in Seq(Byte)
    /\ memory \in Seq(Byte \cup {NUL})
    /\ Len(memory) = Len(original) + 1
    /\ json \in 1 .. Len(memory) /\ into \in 1 .. Len(memory)
    /\ into <= json
    /\ pieces \in 0 .. MaxPieces
    /\ pc \in {"writing", "minifying", "done"}
    /\ pc = "writing" => json = 1 /\ into = 1
    /\ pc # "done" => /\ \A k \in json .. Len(original) : memory[k] = original[k]
                      /\ memory[Len(memory)] = NUL
-----------------------------------------------------------------------------
(* Searches                                                                *)

\* The minimum of a nonempty set of naturals is its smallest element.
LEMMA SmallestIsMin ==
    ASSUME NEW S \in SUBSET Nat, S # {}
    PROVE  Min(S) \in S /\ \A n \in S : Min(S) <= n
  <1>1. \E m \in S : \A n \in S : m <= n
    BY SmallestExists
  <1> QED
    BY <1>1 DEF Min

\* A text, its NUL behind it.
LEMMA Terminated ==
    ASSUME NEW S, NEW s \in Seq(S), NEW x
    PROVE  /\ s \o <<x>> \in Seq(S \cup {x})
           /\ Len(s \o <<x>>) = Len(s) + 1
           /\ \A k \in 1 .. Len(s) : (s \o <<x>>)[k] = s[k]
           /\ (s \o <<x>>)[Len(s) + 1] = x
  <1>1. PICK T : T = S \cup {x}
    OBVIOUS
  <1>2. s \in Seq(T)
    BY <1>1, SeqMonotonic
  <1>3. PICK c \in Seq(T) : c = <<x>> /\ Len(c) = 1 /\ c[1] = x
    <2>1. <<x>> \in Seq(T)
      BY <1>1
    <2>2. Len(<<x>>) = 1 /\ <<x>>[1] = x
      OBVIOUS
    <2> QED
      BY <2>1, <2>2, Zenon
  <1>4. /\ s \o c \in Seq(T) /\ Len(s \o c) = Len(s) + Len(c)
        /\ \A i \in 1 .. Len(s) + Len(c) :
              (s \o c)[i] = IF i <= Len(s) THEN s[i] ELSE c[i - Len(s)]
    BY <1>2, ConcatProperties
  <1>5. PICK n \in Nat : n = Len(s)
    BY LenProperties
  <1>6. /\ \A k \in 1 .. n : k \in 1 .. n + 1 /\ k <= n
        /\ n + 1 \in 1 .. n + 1 /\ ~(n + 1 <= n) /\ (n + 1) - n = 1
    OBVIOUS
  <1>7. /\ Len(s \o c) = n + 1
        /\ \A i \in 1 .. n + 1 : (s \o c)[i] = IF i <= n THEN s[i] ELSE c[i - n]
    BY <1>3, <1>4, <1>5
  <1> QED
    BY <1>1, <1>3, <1>4, <1>5, <1>6, <1>7

-----------------------------------------------------------------------------
(* The invariant                                                           *)

LEMMA MInit ==
    ASSUME NEW Byte, TextsOf(Byte), Init
    PROVE  MInv(Byte)
  <1>1. /\ original = <<>> /\ json = 1 /\ into = 1
        /\ pc = "writing" /\ pieces = 0 /\ MaxPieces \in Nat
    BY DEF Init, TextsOf
  <1>2. original \in Seq(Byte) /\ Len(original) = 0
    BY <1>1
  <1>3. memory = <<NUL>> /\ memory \in Seq(Byte \cup {NUL})
    BY DEF Init
  <1>4. Len(memory) = 1 /\ memory[1] = NUL
    BY <1>3
  <1> QED
    BY <1>1, <1>2, <1>3, <1>4 DEF MInv

\* A step that moves the input on and leaves the rest.
LEMMA Skipped ==
    ASSUME NEW Byte, MInv(Byte), pc = "minifying",
           NEW to \in json .. Len(memory), json' = to,
           UNCHANGED <<memory, into, pc, original, pieces>>
    PROVE  MInv(Byte)'
  <1>1. /\ json \in Nat /\ into \in Nat /\ Len(memory) \in Nat
        /\ Len(original) \in Nat
    BY LenProperties DEF MInv
  <1>2. json' \in 1 .. Len(memory) /\ into <= json' /\ json <= json'
    BY <1>1 DEF MInv
  <1>3. \A k \in json' .. Len(original) : k \in json .. Len(original)
    BY <1>1, <1>2
  <1> QED
    BY <1>2, <1>3 DEF MInv

\* A step that moves both pointers on, the output behind the input.
LEMMA CopiedOn ==
    ASSUME NEW Byte, MInv(Byte), pc = "minifying",
           NEW to \in json + 1 .. Len(memory), json' = to,
           into' \in 1 .. json',
           memory' \in Seq(Byte \cup {NUL}), Len(memory') = Len(memory),
           \A k \in to .. Len(memory) : memory'[k] = memory[k],
           UNCHANGED <<pc, original, pieces>>
    PROVE  MInv(Byte)'
  <1>1. PICK n \in Nat : n = Len(original) /\ Len(memory) = n + 1
    BY LenProperties DEF MInv
  <1>2. json \in 1 .. n + 1 /\ to \in json + 1 .. n + 1
    BY <1>1 DEF MInv
  <1>3. json' \in 1 .. n + 1 /\ into' \in 1 .. n + 1 /\ into' <= json'
    BY <1>2
  <1>4. /\ \A k \in to .. n : k \in json .. n /\ k \in to .. n + 1
        /\ n + 1 \in to .. n + 1
    BY <1>2
  <1>5. /\ \A k \in json .. n : memory[k] = original[k]
        /\ memory[n + 1] = NUL
    BY <1>1 DEF MInv
  <1>6. /\ \A k \in to .. n : memory'[k] = original[k]
        /\ memory'[n + 1] = NUL
    BY <1>1, <1>4, <1>5
  <1> QED
    BY <1>1, <1>3, <1>6 DEF MInv

\* What a turn knows of the byte at the input.
LEMMA AtInput ==
    ASSUME NEW Byte, MInv(Byte), pc = "minifying"
    PROVE  /\ json \in Nat /\ into \in Nat /\ 1 <= into /\ into <= json
           /\ Len(memory) \in Nat /\ json <= Len(memory)
           /\ memory[Len(memory)] = NUL
           /\ At(json) # NUL => json + 1 <= Len(memory)
           /\ At(json) # NUL /\ At(json + 1) # NUL => json + 2 <= Len(memory)
  <1>1. /\ json \in Nat /\ into \in Nat /\ 1 <= into /\ into <= json
        /\ Len(memory) \in Nat /\ json <= Len(memory)
        /\ memory[Len(memory)] = NUL
    BY LenProperties DEF MInv
  <1>2. At(json) # NUL => json # Len(memory)
    BY <1>1 DEF At
  <1>3. At(json + 1) # NUL => json + 1 # Len(memory)
    BY <1>1 DEF At
  <1> QED
    BY <1>1, <1>2, <1>3

-----------------------------------------------------------------------------
(* One lemma per action                                                    *)

LEMMA MWrite ==
    ASSUME NEW Byte, TextsOf(Byte), MInv(Byte), NEW piece \in Pieces, Write(piece)
    PROVE  MInv(Byte)'
  <1>1. /\ pc = "writing" /\ pc' = "writing"
        /\ json' = 1 /\ into' = 1
        /\ original \in Seq(Byte) /\ piece \in Seq(Byte)
        /\ original' = original \o piece
        /\ memory' = original' \o <<NUL>>
        /\ pieces < MaxPieces /\ pieces' = pieces + 1
        /\ pieces \in 0 .. MaxPieces /\ MaxPieces \in Nat
    BY DEF MInv, Write, TextsOf
  <1>2. original' \in Seq(Byte)
    BY <1>1, ConcatProperties
  <1>3. PICK text \in Seq(Byte) : text = original'
    BY <1>2
  <1>4. /\ memory' \in Seq(Byte \cup {NUL})
        /\ Len(memory') = Len(original') + 1
        /\ \A k \in 1 .. Len(original') : memory'[k] = original'[k]
        /\ memory'[Len(original') + 1] = NUL
    BY <1>1, <1>3, Terminated
  <1>5. Len(original') \in Nat
    BY <1>2, LenProperties
  <1>6. 1 \in 1 .. Len(memory')
    BY <1>4, <1>5
  <1>7. pieces' \in 0 .. MaxPieces
    BY <1>1
  <1> QED
    BY <1>1, <1>2, <1>4, <1>6, <1>7 DEF MInv

LEMMA MMinify ==
    ASSUME NEW Byte, MInv(Byte), Minify
    PROVE  MInv(Byte)'
  BY DEF MInv, Minify

LEMMA MSkipBlank ==
    ASSUME NEW Byte, MInv(Byte), SkipBlank
    PROVE  MInv(Byte)'
  <1>1. pc = "minifying" /\ At(json) # NUL
    BY DEF SkipBlank, Blanks, NUL
  <1>2. json + 1 \in json .. Len(memory)
    BY <1>1, AtInput
  <1> QED
    BY <1>1, <1>2, Skipped DEF SkipBlank

LEMMA MSkipSlash ==
    ASSUME NEW Byte, MInv(Byte), SkipSlash
    PROVE  MInv(Byte)'
  <1>1. pc = "minifying" /\ At(json) # NUL
    BY DEF SkipSlash, NUL
  <1>2. json + 1 \in json .. Len(memory)
    BY <1>1, AtInput
  <1> QED
    BY <1>1, <1>2, Skipped DEF SkipSlash

\* The search for the end of the line stops at the NUL at the latest.
LEMMA MOneLine ==
    ASSUME NEW Byte, MInv(Byte), skip_oneline_comment
    PROVE  MInv(Byte)'
  <1>1. pc = "minifying" /\ At(json) # NUL /\ At(json + 1) # NUL
    BY DEF skip_oneline_comment, NUL
  <1>2. PICK n \in Nat : /\ n = Len(memory) /\ json \in Nat /\ json + 2 <= n
                         /\ memory[n] = NUL
    BY <1>1, AtInput
  <1>3. PICK S \in SUBSET Nat :
              S = {k \in json + 2 .. Len(memory) : memory[k] \in {"\n", NUL}}
    <2>1. \A k \in json + 2 .. Len(memory) : k \in Nat
      BY <1>2
    <2> QED
      BY <2>1, Zenon
  <1>4. n \in S
    BY <1>2, <1>3
  <1>5. PICK end : end = Next1(json + 2, {"\n", NUL})
    OBVIOUS
  <1>6. end = Min(S)
    BY <1>3, <1>5 DEF Next1
  <1>7. end \in S
    BY <1>4, <1>6, SmallestIsMin
  <1>8. end \in json + 2 .. n
    BY <1>2, <1>3, <1>7
  <1>9. At(end) # NUL => end # n
    BY <1>2 DEF At
  <1>10. PICK to : to = IF At(end) = NUL THEN end ELSE end + 1
    OBVIOUS
  <1>11. to \in json .. Len(memory)
    BY <1>2, <1>8, <1>9, <1>10
  <1>12. /\ json' = to
         /\ UNCHANGED <<memory, into, pc, original, pieces>>
    BY <1>5, <1>10 DEF skip_oneline_comment
  <1> QED
    BY <1>1, <1>11, <1>12, Skipped

\* A block comment without an end is skipped up to the NUL.
LEMMA MMultiLine ==
    ASSUME NEW Byte, MInv(Byte), skip_multiline_comment
    PROVE  MInv(Byte)'
  <1>1. pc = "minifying" /\ At(json) # NUL /\ At(json + 1) # NUL
    BY DEF skip_multiline_comment, NUL
  <1>2. PICK n \in Nat : n = Len(memory) /\ json \in Nat /\ json + 2 <= n
    BY <1>1, AtInput
  <1>3. PICK ends \in SUBSET Nat :
              ends = {k \in json + 2 .. Len(memory) - 1 : At(k) = "*" /\ At(k + 1) = "/"}
    <2>1. \A k \in json + 2 .. Len(memory) - 1 : k \in Nat
      BY <1>2
    <2> QED
      BY <2>1, Zenon
  <1>4. PICK to : to = IF ends = {} THEN Len(memory) ELSE Min(ends) + 2
    OBVIOUS
  <1>5. /\ json' = to
        /\ UNCHANGED <<memory, into, pc, original, pieces>>
    BY <1>3, <1>4 DEF skip_multiline_comment
  <1>6. to \in json .. Len(memory)
    <2>1. CASE ends = {}
      BY <1>2, <1>4, <2>1
    <2>2. CASE ends # {}
      <3>1. PICK k : k = Min(ends) /\ k \in ends
        BY <2>2, SmallestIsMin
      <3>2. k \in json + 2 .. n - 1 /\ At(k + 1) = "/"
        BY <1>2, <1>3, <3>1
      <3>3. memory[n] = NUL
        BY <1>1, <1>2, AtInput
      <3>4. k + 1 # n
        BY <3>2, <3>3 DEF At, NUL
      <3> QED
        BY <1>2, <1>4, <2>2, <3>1, <3>2, <3>4
    <2> QED
      BY <2>1, <2>2
  <1> QED
    BY <1>1, <1>5, <1>6, Skipped

LEMMA MCopy ==
    ASSUME NEW Byte, MInv(Byte), Copy
    PROVE  MInv(Byte)'
  <1>1. /\ pc = "minifying" /\ At(json) # NUL
        /\ memory' = [memory EXCEPT ![into] = memory[json]]
        /\ json' = json + 1 /\ into' = into + 1
        /\ UNCHANGED <<pc, original, pieces>>
    BY DEF Copy, At
  <1>2. PICK n \in Nat : /\ n = Len(memory) /\ json \in Nat /\ into \in Nat
                         /\ 1 <= into /\ into <= json /\ json + 1 <= n
    BY <1>1, AtInput
  <1>3. memory \in Seq(Byte \cup {NUL}) /\ memory[json] \in Byte \cup {NUL}
    BY <1>2, ElementOfSeq DEF MInv
  <1>4. into \in 1 .. Len(memory)
    BY <1>2
  <1>5. /\ memory' \in Seq(Byte \cup {NUL}) /\ Len(memory') = Len(memory)
        /\ \A k \in 1 .. Len(memory) :
              memory'[k] = IF k = into THEN memory[json] ELSE memory[k]
    BY <1>1, <1>3, <1>4, ExceptSeq
  <1>6. \A k \in json + 1 .. Len(memory) : k \in 1 .. Len(memory) /\ k # into
    BY <1>2
  <1>7. \A k \in json + 1 .. Len(memory) : memory'[k] = memory[k]
    BY <1>5, <1>6
  <1>8. json + 1 \in json + 1 .. Len(memory) /\ into' \in 1 .. json'
    BY <1>1, <1>2
  <1> QED
    BY <1>1, <1>5, <1>7, <1>8, CopiedOn

\* A string is moved down as a whole; its bytes go no further than they were.
LEMMA MString ==
    ASSUME NEW Byte, MInv(Byte), minify_string
    PROVE  MInv(Byte)'
  <1>1. pc = "minifying" /\ At(json) # NUL
    BY DEF minify_string, Quote, NUL
  <1>2. PICK n \in Nat : /\ n = Len(memory) /\ json \in Nat /\ into \in Nat
                         /\ 1 <= into /\ into <= json /\ json + 1 <= n
                         /\ memory[n] = NUL
    BY <1>1, AtInput
  <1>3. PICK S \in SUBSET Nat :
              S = {k \in json + 1 .. Len(memory) :
                      \/ At(k) = NUL
                      \/ At(k) = Quote /\ At(k - 1) # Backslash}
    <2>1. \A k \in json + 1 .. Len(memory) : k \in Nat
      BY <1>2
    <2> QED
      BY <2>1, Zenon
  <1>4. n \in S
    BY <1>2, <1>3 DEF At
  <1>5. PICK end : end = Closing(json + 1) /\ end = Min(S)
    BY <1>3 DEF Closing
  <1>6. end \in S
    BY <1>4, <1>5, SmallestIsMin
  <1>7. end \in json + 1 .. n /\ (At(end) # NUL => end # n)
    BY <1>2, <1>3, <1>6 DEF At
  <1>8. PICK last : last = IF At(end) = NUL THEN end - 1 ELSE end
    OBVIOUS
  <1>9. last \in json .. n - 1
    BY <1>2, <1>7, <1>8
  <1>10. /\ memory' = Moved(json, last)
         /\ json' = last + 1
         /\ into' = into + (last - json) + 1
         /\ UNCHANGED <<pc, original, pieces>>
    BY <1>5, <1>8 DEF minify_string
  <1>11. memory \in Seq(Byte \cup {NUL}) /\ DOMAIN memory = 1 .. n
    BY <1>2, LenProperties DEF MInv
  <1>12. \A k \in 1 .. n : memory[k] \in Byte \cup {NUL}
    BY <1>2, <1>11, ElementOfSeq
  <1>13. memory' = [k \in 1 .. n |->
              IF k \in into .. into + (last - json)
              THEN memory[json + (k - into)] ELSE memory[k]]
    BY <1>10, <1>11, Zenon DEF Moved
  <1>14. \A k \in into .. into + (last - json) : json + (k - into) \in 1 .. n
    BY <1>2, <1>9
  <1>15. memory' \in [1 .. n -> Byte \cup {NUL}]
    BY <1>12, <1>13, <1>14
  <1>16. memory' \in Seq(Byte \cup {NUL}) /\ Len(memory') = n
    BY <1>15
  <1>17. \A k \in last + 1 .. n :
              k \in 1 .. n /\ k \notin into .. into + (last - json)
    BY <1>2, <1>9
  <1>18. \A k \in last + 1 .. n : memory'[k] = memory[k]
    BY <1>13, <1>17
  <1>19. last + 1 \in json + 1 .. n /\ into' \in 1 .. json'
    BY <1>2, <1>9, <1>10
  <1> QED
    BY <1>1, <1>2, <1>10, <1>16, <1>18, <1>19, CopiedOn

LEMMA MTerminate ==
    ASSUME NEW Byte, MInv(Byte), Terminate
    PROVE  MInv(Byte)'
  <1>1. /\ memory' = [memory EXCEPT ![into] = NUL] /\ pc' = "done"
        /\ UNCHANGED <<json, into, original, pieces>>
    BY DEF Terminate
  <1>2. /\ memory \in Seq(Byte \cup {NUL}) /\ into \in 1 .. Len(memory)
        /\ NUL \in Byte \cup {NUL}
    BY DEF MInv
  <1>3. memory' \in Seq(Byte \cup {NUL}) /\ Len(memory') = Len(memory)
    BY <1>1, <1>2, ExceptSeq
  <1> QED
    BY <1>1, <1>3 DEF MInv

LEMMA MStep ==
    ASSUME NEW Byte, TextsOf(Byte), MInv(Byte), [Next]_vars
    PROVE  MInv(Byte)'
  <1>1. CASE \E piece \in Pieces : Write(piece)
    BY <1>1, MWrite
  <1>2. CASE Minify
    BY <1>2, MMinify
  <1>3. CASE SkipBlank
    BY <1>3, MSkipBlank
  <1>4. CASE skip_oneline_comment
    BY <1>4, MOneLine
  <1>5. CASE skip_multiline_comment
    BY <1>5, MMultiLine
  <1>6. CASE SkipSlash
    BY <1>6, MSkipSlash
  <1>7. CASE minify_string
    BY <1>7, MString
  <1>8. CASE Copy
    BY <1>8, MCopy
  <1>9. CASE Terminate
    BY <1>9, MTerminate
  <1>10. CASE UNCHANGED vars
    BY <1>10 DEF MInv, vars
  <1> QED
    BY <1>1, <1>2, <1>3, <1>4, <1>5, <1>6, <1>7, <1>8, <1>9, <1>10
    DEF Next, Turn

(* The invariant holds of every minification of texts without NUL.         *)
LEMMA MInvariant ==
    ASSUME NEW CONSTANT Byte, TextsOf(Byte)
    PROVE  Spec => []MInv(Byte)
  <1>1. Init => MInv(Byte)
    BY MInit
  <1>2. MInv(Byte) /\ [Next]_vars => MInv(Byte)'
    BY MStep
  <1> QED
    BY <1>1, <1>2, PTL DEF Spec

-----------------------------------------------------------------------------
(* The pointers of cJSON_Minify stay in the buffer, for texts of every     *)
(* length: no comment, string or trailing slash makes it read past the NUL. *)
THEOREM PointersStayInBuffer ==
    ASSUME NEW CONSTANT Byte, TextsOf(Byte)
    PROVE  Spec => []TypeOK
  <1>1. MInv(Byte) => TypeOK
    BY DEF MInv, TypeOK
  <1> QED
    BY <1>1, MInvariant, PTL

(* Minifying in place overwrites no byte of the input before it is read.   *)
THEOREM InputReadBeforeOverwritten ==
    ASSUME NEW CONSTANT Byte, TextsOf(Byte)
    PROVE  Spec => []InputUntouched
  <1>1. MInv(Byte) => InputUntouched
    <2> SUFFICES ASSUME MInv(Byte), pc # "done"
                 PROVE  /\ into <= json
                        /\ \A k \in json .. Len(memory) :
                              At(k) = (original \o <<NUL>>)[k]
      BY DEF InputUntouched
    <2>1. PICK n \in Nat : /\ n = Len(original) /\ Len(memory) = n + 1
                           /\ original \in Seq(Byte)
      BY LenProperties DEF MInv
    <2>2. PICK text : text = original \o <<NUL>>
      OBVIOUS
    <2>3. (\A k \in 1 .. n : text[k] = original[k]) /\ text[n + 1] = NUL
      BY <2>1, <2>2, Terminated
    <2>4. /\ into <= json /\ json \in 1 .. n + 1
          /\ \A k \in json .. n : memory[k] = original[k]
          /\ memory[n + 1] = NUL
      BY <2>1 DEF MInv
    <2>5. \A k \in json .. n + 1 : k = n + 1 \/ (k \in json .. n /\ k \in 1 .. n)
      BY <2>4
    <2>6. \A k \in json .. n + 1 : memory[k] = text[k]
      BY <2>3, <2>4, <2>5
    <2> QED
      BY <2>1, <2>2, <2>4, <2>6 DEF At
  <1> QED
    BY <1>1, MInvariant, PTL
=============================================================================
