------------------------ MODULE FrameDecoderProofs ------------------------
(***************************************************************************)
(* Safety of FrameDecoder for every set of streams and every parser.       *)
(***************************************************************************)
EXTENDS FrameDecoder, WellFoundedInduction, TLAPS

\* A set of numbers that is not empty has a least element.
LEMMA Least ==
    ASSUME NEW T \in SUBSET Nat, T # {}
    PROVE  \E x \in T : \A y \in T : x <= y
  <1> DEFINE R == {ss \in Nat \X Nat : ss[1] < ss[2]}
  <1>1. IsWellFoundedOn(R, Nat)
    BY NatLessThanWellFounded DEF OpToRel
  <1>2. \A x, y \in Nat : y < x => <<y, x>> \in R
    OBVIOUS
  <1> HIDE DEF R
  <1>3. PICK x \in T : \A y \in T : ~(<<y, x>> \in R)
    BY <1>1, WFMin
  <1>4. ASSUME NEW y \in T PROVE x <= y
    <2>1. x \in Nat /\ y \in Nat
      OBVIOUS
    <2>2. ~(y < x)
      BY <1>2, <1>3, <2>1
    <2> QED  BY <2>1, <2>2
  <1> QED  BY <1>4

\* A declared length is a number.
LEMMA LengthIsNat ==
    ASSUME stream \in Seq(Byte), NEW p \in Nat \ {0}, p + 2 <= Len(stream)
    PROVE  DeclaredLength(p) \in Nat
  <1>1. stream[p + 1] \in Byte /\ stream[p + 2] \in Byte
    OBVIOUS
  <1>2. ASSUME NEW high \in Byte, NEW low \in Byte PROVE 256 * high + low \in Nat
    BY DEF Byte
  <1> QED  BY <1>1, <1>2 DEF DeclaredLength

\* What FramesFrom(n) is at p, given what it is behind p.
From(n, p, behind) ==
    IF p > n THEN {}
    ELSE IF ~IsSOF(p) THEN behind[p + 1]
    ELSE IF p + 2 > n THEN {}
    ELSE IF ~LengthValid(p) THEN behind[p + 1]
    ELSE IF LastOf(p) > n THEN {}
    ELSE IF ~Accepts(Candidate(p)) THEN behind[p + 1]
    ELSE {[first |-> p, last |-> LastOf(p)]} \cup behind[LastOf(p) + 1]

\* It looks no further than the positions behind p, up to the end of the stream.
LEMMA FromLocal ==
    ASSUME stream \in Seq(Byte), NEW n \in 0 .. Len(stream), NEW p \in 1 .. Len(stream) + 1,
           NEW a, NEW b, \A q \in p + 1 .. Len(stream) + 1 : a[q] = b[q]
    PROVE  From(n, p, a) = From(n, p, b)
  <1>1. CASE p > n
    BY <1>1 DEF From
  <1>2. CASE p <= n
    <2>1. p + 1 \in p + 1 .. Len(stream) + 1
      BY <1>2
    <2>2. a[p + 1] = b[p + 1]
      BY <2>1
    <2>3. CASE p + 2 > n
      BY <1>2, <2>2, <2>3 DEF From
    <2>4. CASE p + 2 <= n
      <3>1. DeclaredLength(p) \in Nat
        BY <2>4, LengthIsNat
      <3>2. ASSUME LengthValid(p), LastOf(p) <= n PROVE a[LastOf(p) + 1] = b[LastOf(p) + 1]
        <4>1. LastOf(p) + 1 \in p + 1 .. Len(stream) + 1
          BY <3>1, <3>2 DEF LengthValid, LastOf, MinFrameLength
        <4> QED  BY <4>1
      <3>3. LastOf(p) \in Int
        BY <3>1 DEF LastOf
      <3>4. CASE LengthValid(p) /\ LastOf(p) <= n
        BY <2>2, <3>2, <3>4 DEF From
      <3>5. CASE LengthValid(p) /\ LastOf(p) > n
        BY <2>2, <3>5 DEF From
      <3>6. CASE ~LengthValid(p)
        BY <2>2, <3>6 DEF From
      <3> QED  BY <3>3, <3>4, <3>5, <3>6
    <2> QED  BY <2>3, <2>4
  <1> QED  BY <1>1, <1>2

\* The recursion of FramesFrom is well defined: it goes up to the end of the stream.
LEMMA FramesFromIs ==
    ASSUME stream \in Seq(Byte), NEW n \in 0 .. Len(stream)
    PROVE  \A p \in 1 .. Len(stream) + 1 : FramesFrom(n)[p] = From(n, p, FramesFrom(n))
  <1> DEFINE end == Len(stream) + 1
             Solves(f, k) == f = [p \in 1 .. end |-> IF p < k THEN {} ELSE From(n, p, f)]
             T == {m \in 0 .. end : ~ \E f : Solves(f, end + 1 - m)}
  <1>1. end \in Nat /\ end >= 1
    OBVIOUS
  <1> HIDE DEF end
  <1>2. \E f : Solves(f, end + 1)
    <2> DEFINE none == [p \in 1 .. end |-> {}]
    <2>1. none = [p \in 1 .. end |-> IF p < end + 1 THEN {} ELSE From(n, p, none)]
      BY <1>1
    <2> QED  BY <2>1
  <1>3. ASSUME NEW k \in 1 .. end, NEW f, Solves(f, k + 1)
        PROVE  \E g : Solves(g, k)
    <2> DEFINE g == [p \in 1 .. end |-> IF p = k THEN From(n, k, f) ELSE f[p]]
    <2>1. ASSUME NEW p \in k .. end PROVE From(n, p, g) = From(n, p, f)
      <3>1. \A q \in p + 1 .. end : g[q] = f[q]
        BY <1>1
      <3>2. p \in 1 .. end
        BY <1>1
      <3> HIDE DEF g
      <3> QED  BY <3>1, <3>2, FromLocal DEF end
    <2>2. ASSUME NEW p \in 1 .. end
          PROVE  g[p] = IF p < k THEN {} ELSE From(n, p, g)
      <3>1. f[p] = IF p < k + 1 THEN {} ELSE From(n, p, f)
        BY <1>3
      <3>2. g[p] = IF p = k THEN From(n, k, f) ELSE f[p]
        OBVIOUS
      <3> HIDE DEF g
      <3>3. CASE p < k
        BY <3>1, <3>2, <3>3, <1>1
      <3>4. CASE p = k
        BY <3>2, <3>4, <2>1, <1>1
      <3>5. CASE p > k
        <4>1. p \in k .. end /\ ~(p < k + 1) /\ p # k /\ ~(p < k)
          BY <3>5, <1>1
        <4> QED  BY <3>1, <3>2, <4>1, <2>1
      <3> QED  BY <3>3, <3>4, <3>5, <1>1
    <2>3. g = [p \in 1 .. end |-> IF p < k THEN {} ELSE From(n, p, g)]
      <3> DEFINE h == [p \in 1 .. end |-> IF p < k THEN {} ELSE From(n, p, g)]
      <3>1. g = [p \in 1 .. end |-> g[p]]
        OBVIOUS
      <3> HIDE DEF g
      <3> QED  BY <2>2, <3>1
    <2> HIDE DEF g
    <2> QED  BY <2>3
  <1>4. T = {}
    <2>1. SUFFICES ASSUME T # {} PROVE FALSE
      OBVIOUS
    <2>2. T \in SUBSET Nat
      BY <1>1
    <2> HIDE DEF Solves
    <2>3. PICK m \in T : \A y \in T : m <= y
      <3> HIDE DEF T
      <3> QED  BY <2>1, <2>2, Least
    <2>4. m \in 0 .. end /\ m # 0
      BY <1>1, <1>2, <2>3
    <2>5. m - 1 \in 0 .. end /\ ~(m <= m - 1)
      BY <1>1, <2>4
    <2>6. PICK f : Solves(f, end + 1 - (m - 1))
      BY <2>3, <2>5
    <2>7. end + 1 - m \in 1 .. end /\ end + 1 - (m - 1) = (end + 1 - m) + 1
      BY <1>1, <2>4
    <2>8. \E g : Solves(g, end + 1 - m)
      BY <1>3, <2>6, <2>7
    <2> QED  BY <2>3, <2>8
  <1>5. PICK f : Solves(f, 1)
    <2>1. end \in 0 .. end /\ end + 1 - end = 1
      BY <1>1
    <2> HIDE DEF Solves
    <2> QED  BY <1>4, <2>1
  <1>6. f = [p \in 1 .. end |-> From(n, p, f)]
    <2>1. \A p \in 1 .. end : ~(p < 1)
      BY <1>1
    <2>2. [p \in 1 .. end |-> IF p < 1 THEN {} ELSE From(n, p, f)] = [p \in 1 .. end |-> From(n, p, f)]
      BY <2>1
    <2>3. f = [p \in 1 .. end |-> IF p < 1 THEN {} ELSE From(n, p, f)]
      BY <1>5
    <2> QED  BY <2>2, <2>3
  <1> DEFINE from == CHOOSE r : r = [p \in 1 .. end |-> From(n, p, r)]
  <1>7. from = [p \in 1 .. end |-> From(n, p, from)]
    BY <1>6
  <1>8. FramesFrom(n) = from
    BY DEF FramesFrom, From, end
  <1> HIDE DEF from
  <1> QED  BY <1>7, <1>8 DEF end

-----------------------------------------------------------------------------
(* The decoder. *)

\* Positions of the stream hold bytes, and lengths are numbers.
LEMMA Lengths ==
    ASSUME TypeOK, NEW p \in 1 .. fed
    PROVE  /\ stream[p] \in Byte
           /\ HasLength(p) => DeclaredLength(p) \in Nat /\ LastOf(p) \in Int
  <1>1. \A i \in 1 .. Len(stream) : stream[i] \in Byte
    BY DEF TypeOK
  <1>2. stream[p] \in Byte
    BY <1>1 DEF TypeOK
  <1>3. ASSUME HasLength(p) PROVE DeclaredLength(p) \in Nat /\ LastOf(p) \in Int
    <2>1. stream[p + 1] \in Byte /\ stream[p + 2] \in Byte
      BY <1>1, <1>3 DEF HasLength, TypeOK
    <2>2. \A high, low \in Byte : 256 * high + low \in Nat
      BY DEF Byte
    <2>3. DeclaredLength(p) \in Nat
      BY <2>1, <2>2 DEF DeclaredLength
    <2> QED  BY <2>3 DEF LastOf
  <1> QED  BY <1>2, <1>3

\* A complete candidate ends behind its first byte and within what was fed.
LEMMA CompleteEnds ==
    ASSUME TypeOK, Complete
    PROVE  /\ head + 1 \in 1 .. fed
           /\ LastOf(head + 1) \in head + MinFrameLength .. fed
  <1>1. head + 1 \in 1 .. fed
    BY DEF TypeOK, Complete
  <1>2. DeclaredLength(head + 1) \in Nat /\ LastOf(head + 1) \in Int
    BY <1>1, Lengths DEF Complete
  <1> QED
    BY <1>1, <1>2 DEF Complete, LengthValid, LastOf, MinFrameLength, TypeOK

\* The initial state has nothing deleted and nothing returned.
LEMMA InitHolds == Init => IInv
  <1> SUFFICES ASSUME Init PROVE IInv
    OBVIOUS
  <1>1. stream \in Seq(Byte)
    BY DecoderAssumption DEF Init
  <1>2. Len(stream) \in Nat
    BY <1>1
  <1>3. TypeOK
    <2>1. fed \in 0 .. Len(stream) /\ head \in 0 .. fed
      BY <1>2 DEF Init
    <2>2. frames \in SUBSET Frames /\ scanning \in BOOLEAN
      BY DEF Init
    <2> QED  BY <1>1, <2>1, <2>2 DEF TypeOK
  <1>4. FramesSound /\ DeletedRightly /\ RestsBeforeFrame
    BY DEF Init, FramesSound, DeletedRightly, RestsBeforeFrame, MustWait
  <1>5. OnTheWay
    <2>1. head + 1 = 1 /\ frames = {}
      BY DEF Init
    <2> QED  BY <2>1 DEF OnTheWay, Split
  <1> QED  BY <1>3, <1>4, <1>5 DEF IInv

\* Every step keeps the types.
LEMMA TypeStep == ASSUME TypeOK, [Next]_vars PROVE TypeOK'
  <1> USE DEF TypeOK
  <1>1. ASSUME NEW n \in 1 .. Len(stream), Feed(n) PROVE TypeOK'
    BY <1>1 DEF Feed
  <1>2. CASE SkipNoise
    BY <1>2 DEF SkipNoise
  <1>3. CASE BadLength
    BY <1>3 DEF BadLength
  <1>4. CASE BadCandidate
    BY <1>4 DEF BadCandidate, Complete
  <1>5. CASE GoodFrame
    <2>1. LastOf(head + 1) \in head + MinFrameLength .. fed
      BY <1>5, CompleteEnds DEF GoodFrame
    <2>2. LastOf(head + 1) \in 0 .. fed /\ head + 1 \in Nat /\ LastOf(head + 1) \in Nat
      BY <2>1 DEF MinFrameLength
    <2>3. [first |-> head + 1, last |-> LastOf(head + 1)] \in Frames
      BY <2>2 DEF Frames
    <2> QED  BY <1>5, <2>2, <2>3 DEF GoodFrame
  <1>6. CASE Return
    BY <1>6 DEF Return
  <1>7. CASE UNCHANGED vars
    BY <1>7 DEF vars
  <1> QED
    BY <1>1, <1>2, <1>3, <1>4, <1>5, <1>6, <1>7 DEF Next, Scan

\* A step that only deletes bytes at which no frame begins, or only feeds bytes,
\* keeps the frames sound and the deletions right.
LEMMA DeletingKeepsInv ==
    ASSUME IInv, TypeOK',
           UNCHANGED <<stream, frames>>,
           head' >= head, fed' >= fed,
           \A p \in head + 1 .. head' : Hopeless(p)
    PROVE  FramesSound' /\ DeletedRightly'
  <1> USE DEF IInv, TypeOK
  <1>1. \A f \in frames : WellFormed(f)' <=> WellFormed(f)
    BY DEF WellFormed, IsSOF, LengthValid, LastOf, DeclaredLength, Candidate
  <1>2. FramesSound'
    <2>1. \A f \in frames : 0 < f.first /\ f.last <= head'
      BY DEF FramesSound, Frames
    <2> QED  BY <1>1, <2>1 DEF FramesSound
  <1>3. ASSUME NEW p \in 1 .. fed, Hopeless(p) PROVE Hopeless(p)'
    <2>1. HasLength(p) => HasLength(p)' /\ (LastOf(p) <= fed => LastOf(p) <= fed')
      BY Lengths DEF HasLength
    <2> QED
      BY <1>3, <2>1 DEF Hopeless, IsSOF, LengthValid, LastOf, DeclaredLength, Candidate
  <1>4. DeletedRightly'
    <2> SUFFICES ASSUME NEW p \in 1 .. head'
                 PROVE  Hopeless(p)' \/ \E f \in frames : Inside(p, f)
      BY DEF DeletedRightly, Inside
    <2>1. CASE p <= head
      BY <1>3, <2>1 DEF DeletedRightly
    <2>2. CASE p > head
      <3>1. Hopeless(p)
        BY <2>2
      <3>2. CASE p <= fed
        BY <1>3, <3>1, <3>2
      <3>3. CASE p > fed
        BY <3>1, <3>3 DEF Hopeless, HasLength, IsSOF
      <3> QED  BY <3>2, <3>3
    <2> QED  BY <2>1, <2>2
  <1> QED  BY <1>2, <1>4

\* A frame is returned: it lies behind all the others.
LEMMA ReturningKeepsInv ==
    ASSUME IInv, GoodFrame
    PROVE  FramesSound' /\ DeletedRightly'
  <1> USE DEF IInv, TypeOK
  <1> DEFINE f == [first |-> head + 1, last |-> LastOf(head + 1)]
  <1>1. /\ UNCHANGED <<stream, fed>>
        /\ frames' = frames \cup {f}
        /\ head' = LastOf(head + 1)
        /\ Complete
        /\ Accepts(Candidate(head + 1))
    BY DEF GoodFrame
  <1>2. f.first = head + 1 /\ f.last = head' /\ head' \in head + MinFrameLength .. fed
    BY <1>1, CompleteEnds
  <1>3. \A g \in frames : /\ 0 < g.first
                          /\ g.last <= head
                          /\ WellFormed(g)
                          /\ g.last \in Nat
    BY DEF FramesSound, Frames
  <1>4. WellFormed(f)
    BY <1>1, <1>2 DEF WellFormed, Complete
  <1>5. \A g \in frames \cup {f} : WellFormed(g)' <=> WellFormed(g)
    BY <1>1 DEF WellFormed, IsSOF, LengthValid, LastOf, DeclaredLength, Candidate
  <1>6. \A g \in frames \cup {f} : 0 < g.first /\ g.last <= head'
    BY <1>2, <1>3 DEF MinFrameLength
  <1>7. \A g, h \in frames \cup {f} : g # h => g.last < h.first \/ h.last < g.first
    <2> HIDE DEF f
    <2>1. \A g \in frames : g.last < f.first
      BY <1>2, <1>3
    <2> QED  BY <2>1 DEF FramesSound
  <1>8. FramesSound'
    BY <1>1, <1>3, <1>4, <1>5, <1>6, <1>7 DEF FramesSound
  <1>9. ASSUME NEW p \in 1 .. head' PROVE Hopeless(p)' \/ \E g \in frames' : Inside(p, g)
    <2> HIDE DEF f
    <2>1. CASE p <= head
      <3>1. Hopeless(p) \/ \E g \in frames : Inside(p, g)
        BY <2>1 DEF DeletedRightly
      <3>2. Hopeless(p) => Hopeless(p)'
        BY <1>1 DEF Hopeless, IsSOF, HasLength, LengthValid, LastOf, DeclaredLength, Candidate
      <3> QED  BY <1>1, <3>1, <3>2
    <2>2. CASE p > head
      BY <1>1, <1>2, <2>2 DEF Inside
    <2> QED  BY <2>1, <2>2
  <1> QED  BY <1>8, <1>9 DEF DeletedRightly, Inside

\* What FramesFrom finds at a position from which no frame is taken.
LEMMA NoFrameAt ==
    ASSUME TypeOK, NEW p \in 1 .. fed, Hopeless(p), NEW n \in fed .. Len(stream)
    PROVE  FramesFrom(n)[p] = FramesFrom(n)[p + 1]
  <1>1. Len(stream) \in Nat /\ n \in 0 .. Len(stream) /\ p \in 1 .. Len(stream) + 1 /\ ~(p > n)
    BY DEF TypeOK
  <1>2. FramesFrom(n)[p] = From(n, p, FramesFrom(n))
    BY <1>1, FramesFromIs DEF TypeOK
  <1>3. CASE ~IsSOF(p)
    BY <1>1, <1>2, <1>3 DEF From
  <1>4. CASE IsSOF(p) /\ HasLength(p) /\ ~LengthValid(p)
    <2>1. ~(p + 2 > n)
      BY <1>1, <1>4 DEF HasLength, TypeOK
    <2> QED  BY <1>1, <1>2, <1>4, <2>1 DEF From
  <1>5. CASE /\ IsSOF(p) /\ HasLength(p) /\ LengthValid(p)
             /\ LastOf(p) <= fed /\ ~Accepts(Candidate(p))
    <2>1. LastOf(p) \in Int
      BY <1>5, Lengths
    <2>2. ~(p + 2 > n) /\ ~(LastOf(p) > n)
      BY <1>1, <1>5, <2>1 DEF HasLength, TypeOK
    <2> QED  BY <1>1, <1>2, <1>5, <2>2 DEF From
  <1> QED  BY <1>3, <1>4, <1>5 DEF Hopeless

\* What it finds behind positions that are deleted without returning a frame.
LEMMA NoFrameBetween ==
    ASSUME TypeOK, NEW last \in head .. fed, \A p \in head + 1 .. last : Hopeless(p),
           NEW n \in fed .. Len(stream)
    PROVE  FramesFrom(n)[head + 1] = FramesFrom(n)[last + 1]
  <1> DEFINE T == {q \in head .. last : FramesFrom(n)[head + 1] # FramesFrom(n)[q + 1]}
  <1>1. head \in Nat /\ fed \in Nat /\ last \in Nat
    BY DEF TypeOK
  <1>2. T \in SUBSET Nat
    BY <1>1
  <1>3. T = {}
    <2>1. SUFFICES ASSUME T # {} PROVE FALSE
      OBVIOUS
    <2>2. PICK q \in T : \A r \in T : q <= r
      <3> HIDE DEF T
      <3> QED  BY <1>2, <2>1, Least
    <2>3. q \in head + 1 .. last /\ q \in 1 .. fed /\ (q - 1) + 1 = q
      BY <1>1
    <2>4. q - 1 \in head .. last /\ ~(q <= q - 1)
      BY <1>1, <2>3
    <2>5. FramesFrom(n)[head + 1] = FramesFrom(n)[q]
      BY <2>2, <2>3, <2>4
    <2>6. FramesFrom(n)[q] = FramesFrom(n)[q + 1]
      BY <2>3, NoFrameAt
    <2> QED  BY <2>5, <2>6
  <1>4. last \in head .. last
    BY <1>1
  <1> QED  BY <1>3, <1>4

\* A complete frame that parses is what it finds at the head of the buffer.
LEMMA FrameAtHead ==
    ASSUME TypeOK, Complete, Accepts(Candidate(head + 1)), NEW n \in fed .. Len(stream)
    PROVE  FramesFrom(n)[head + 1] =
               {[first |-> head + 1, last |-> LastOf(head + 1)]}
                   \cup FramesFrom(n)[LastOf(head + 1) + 1]
  <1> DEFINE p == head + 1
  <1>1. p \in 1 .. fed /\ LastOf(p) \in head + MinFrameLength .. fed
    BY CompleteEnds
  <1>2. IsSOF(p) /\ HasLength(p) /\ LengthValid(p)
    BY DEF Complete
  <1>3. n \in 0 .. Len(stream) /\ p \in 1 .. Len(stream) + 1
    BY <1>1 DEF TypeOK
  <1> HIDE DEF p
  <1>4. ~(p > n) /\ ~(p + 2 > n) /\ ~(LastOf(p) > n)
    BY <1>1, <1>2 DEF HasLength, TypeOK, MinFrameLength
  <1>5. FramesFrom(n)[p] = From(n, p, FramesFrom(n))
    BY <1>3, FramesFromIs DEF TypeOK
  <1>6. Accepts(Candidate(p))
    BY DEF p
  <1> QED  BY <1>2, <1>4, <1>5, <1>6 DEF From, p

\* What FramesFrom finds depends on the stream alone.
LEMMA FramesFromKept ==
    ASSUME stream' = stream, NEW n
    PROVE  FramesFrom(n)' = FramesFrom(n)
  BY DEF FramesFrom, IsSOF, LengthValid, LastOf, DeclaredLength, Candidate

\* Deleting bytes at which no frame begins leaves the same frames on the way.
LEMMA DeletingKeepsOnTheWay ==
    ASSUME TypeOK, TypeOK', OnTheWay, UNCHANGED <<stream, fed, frames>>,
           head' >= head, \A p \in head + 1 .. head' : Hopeless(p)
    PROVE  OnTheWay'
  <1> SUFFICES ASSUME NEW n \in fed .. Len(stream)
               PROVE  FramesFrom(n)[1] = frames \cup FramesFrom(n)[head' + 1]
    BY FramesFromKept DEF OnTheWay, Split
  <1>1. FramesFrom(n)[1] = frames \cup FramesFrom(n)[head + 1]
    BY DEF OnTheWay, Split
  <1>2. head' \in head .. fed
    BY DEF TypeOK
  <1>3. FramesFrom(n)[head + 1] = FramesFrom(n)[head' + 1]
    BY <1>2, NoFrameBetween
  <1> QED  BY <1>1, <1>3

\* Every step keeps the invariant.
LEMMA Induction == ASSUME IInv, [Next]_vars PROVE IInv'
  <1> USE DEF IInv
  <1>1. TypeOK'
    BY TypeStep
  <1>2. FramesSound' /\ DeletedRightly'
    <2>1. ASSUME NEW n \in 1 .. Len(stream), Feed(n) PROVE FramesSound' /\ DeletedRightly'
      BY <1>1, <2>1, DeletingKeepsInv DEF Feed, TypeOK
    <2>2. CASE SkipNoise
      BY <1>1, <2>2, DeletingKeepsInv DEF SkipNoise, TypeOK, Hopeless
    <2>3. CASE BadLength
      BY <1>1, <2>3, DeletingKeepsInv DEF BadLength, TypeOK, Hopeless
    <2>4. CASE BadCandidate
      BY <1>1, <2>4, DeletingKeepsInv DEF BadCandidate, Complete, TypeOK, Hopeless
    <2>5. CASE GoodFrame
      BY <2>5, ReturningKeepsInv
    <2>6. CASE Return
      BY <1>1, <2>6, DeletingKeepsInv DEF Return, TypeOK
    <2>7. CASE UNCHANGED vars
      BY <1>1, <2>7, DeletingKeepsInv DEF vars, TypeOK
    <2> QED
      BY <2>1, <2>2, <2>3, <2>4, <2>5, <2>6, <2>7 DEF Next, Scan
  <1>3. RestsBeforeFrame'
    <2>1. CASE scanning'
      BY <2>1 DEF RestsBeforeFrame
    <2>2. CASE Return \/ UNCHANGED vars
      BY <2>2 DEF Return, vars, RestsBeforeFrame, MustWait, IsSOF, HasLength, LengthValid,
                  LastOf, DeclaredLength
    <2>3. Next => scanning' \/ Return
      BY DEF Next, Scan, Feed, SkipNoise, BadLength, BadCandidate, Complete, GoodFrame
    <2> QED  BY <2>1, <2>2, <2>3
  <1>4. OnTheWay'
    <2>1. ASSUME NEW n \in 1 .. Len(stream), Feed(n) PROVE OnTheWay'
      BY <1>1, <2>1, FramesFromKept DEF Feed, OnTheWay, Split, TypeOK
    <2>2. CASE SkipNoise
      BY <1>1, <2>2, DeletingKeepsOnTheWay DEF SkipNoise, TypeOK, Hopeless
    <2>3. CASE BadLength
      BY <1>1, <2>3, DeletingKeepsOnTheWay DEF BadLength, TypeOK, Hopeless
    <2>4. CASE BadCandidate
      BY <1>1, <2>4, DeletingKeepsOnTheWay DEF BadCandidate, Complete, TypeOK, Hopeless
    <2>5. CASE GoodFrame
      <3> SUFFICES ASSUME NEW n \in fed .. Len(stream)
                   PROVE  FramesFrom(n)[1] = frames' \cup FramesFrom(n)[head' + 1]
        BY <2>5, FramesFromKept DEF GoodFrame, OnTheWay, Split
      <3>1. FramesFrom(n)[1] = frames \cup FramesFrom(n)[head + 1]
        BY DEF OnTheWay, Split
      <3>2. FramesFrom(n)[head + 1] =
                {[first |-> head + 1, last |-> LastOf(head + 1)]} \cup FramesFrom(n)[head' + 1]
        BY <2>5, FrameAtHead DEF GoodFrame
      <3> QED  BY <2>5, <3>1, <3>2 DEF GoodFrame
    <2>6. CASE Return \/ UNCHANGED vars
      BY <2>6, FramesFromKept DEF Return, vars, OnTheWay, Split
    <2> QED
      BY <2>1, <2>2, <2>3, <2>4, <2>5, <2>6 DEF Next, Scan
  <1> QED  BY <1>1, <1>2, <1>3, <1>4

\* IInv holds in every reachable state.
THEOREM Invariance == Spec => []IInv
  <1>1. Init => IInv
    BY InitHolds
  <1>2. IInv /\ [Next]_vars => IInv'
    BY Induction
  <1> QED  BY <1>1, <1>2, PTL DEF Spec

\* The types hold in every reachable state.
THEOREM TypeCorrect == Spec => []TypeOK
  <1>1. IInv => TypeOK
    BY DEF IInv
  <1> QED  BY <1>1, Invariance, PTL

\* The frames returned are intact, disjoint pieces of the stream.
THEOREM Soundness == Spec => []FramesSound
  <1>1. IInv => FramesSound
    BY DEF IInv
  <1> QED  BY <1>1, Invariance, PTL

\* No byte is deleted that could still begin a frame.
THEOREM DeletionCorrect == Spec => []DeletedRightly
  <1>1. IInv => DeletedRightly
    BY DEF IInv
  <1> QED  BY <1>1, Invariance, PTL

\* An intact frame is returned by the call that completes it, unless it
\* overlaps another or lies behind an unfinished candidate.
THEOREM Completeness == Spec => []NoFrameLost
  <1>1. IInv => NoFrameLost
    <2> SUFFICES ASSUME IInv, ~scanning, NEW p \in 1 .. fed,
                        IsSOF(p), HasLength(p), LengthValid(p), LastOf(p) <= fed,
                        Accepts(Candidate(p))
                 PROVE  \/ \E f \in frames : Inside(p, f)
                        \/ head + 1 < p /\ IsSOF(head + 1)
      BY DEF NoFrameLost
    <2>1. CASE p <= head
      BY <2>1 DEF IInv, DeletedRightly, Hopeless
    <2>2. CASE p > head
      <3>1. head + 1 <= fed /\ IsSOF(head + 1)
        BY <2>2 DEF IInv, TypeOK, RestsBeforeFrame, MustWait
      <3>2. p # head + 1
        <4>1. SUFFICES ASSUME p = head + 1 PROVE FALSE
          OBVIOUS
        <4>2. LastOf(p) \in Int
          BY Lengths DEF IInv
        <4>3. LastOf(p) > fed
          BY <3>1, <4>1 DEF IInv, RestsBeforeFrame, MustWait
        <4> QED  BY <4>2, <4>3 DEF IInv, TypeOK
      <3> QED  BY <2>2, <3>1, <3>2 DEF IInv, TypeOK
    <2> QED  BY <2>1, <2>2 DEF IInv, TypeOK
  <1> QED  BY <1>1, Invariance, PTL

\* Between two calls the frames returned are those of the bytes fed so far taken
\* at once: nothing is on the way, for the buffer is empty or begins with a frame
\* whose end has not arrived.
THEOREM ChunkingIrrelevant == Spec => []ChunksDoNotMatter
  <1>1. IInv => ChunksDoNotMatter
    <2> SUFFICES ASSUME IInv, ~scanning PROVE frames = Split(fed)
      BY DEF ChunksDoNotMatter
    <2>1. TypeOK /\ Len(stream) \in Nat /\ fed \in 0 .. Len(stream) /\ head \in Nat
      BY DEF IInv, TypeOK
    <2>2. Split(fed) = frames \cup FramesFrom(fed)[head + 1]
      BY <2>1 DEF IInv, OnTheWay
    <2>3. FramesFrom(fed)[head + 1] = From(fed, head + 1, FramesFrom(fed))
      BY <2>1, FramesFromIs DEF TypeOK
    <2>4. CASE head + 1 > fed
      BY <2>2, <2>3, <2>4 DEF From
    <2>5. CASE head + 1 <= fed
      <3>1. /\ IsSOF(head + 1)
            /\ HasLength(head + 1) => LengthValid(head + 1) /\ LastOf(head + 1) > fed
        BY <2>5 DEF IInv, RestsBeforeFrame, MustWait
      <3>2. HasLength(head + 1) \/ head + 1 + 2 > fed
        BY <2>1 DEF HasLength
      <3>3. FramesFrom(fed)[head + 1] = {}
        BY <2>3, <3>1, <3>2 DEF From
      <3> QED  BY <2>2, <3>3
    <2> QED  BY <2>1, <2>4, <2>5
  <1> QED  BY <1>1, Invariance, PTL

=============================================================================
