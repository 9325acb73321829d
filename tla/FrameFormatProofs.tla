------------------------- MODULE FrameFormatProofs -------------------------
(***************************************************************************)
(* Safety of FrameFormat for every set of tags and of error patterns, and  *)
(* of FrameDecoder when the streams are made of these frames.              *)
(***************************************************************************)
EXTENDS FrameFormat, FrameDecoderProofs, SequenceTheorems

-----------------------------------------------------------------------------
(* Numbers and bytes.                                                      *)

\* Two bytes are a word.
LEMMA WordOfBytes ==
    ASSUME NEW high \in Byte, NEW low \in Byte
    PROVE  /\ 256 * high + low \in Word
           /\ (256 * high + low) \div 256 = high
           /\ (256 * high + low) % 256 = low
  <1>1. high \in Nat /\ high <= 255 /\ low \in Nat /\ low <= 255
    BY DEF Byte
  <1>2. 256 * high + low \in Word
    <2> DEFINE w == 256 * high + low
               top == 65535
    <2>1. w \in Int /\ 0 <= w /\ w <= top /\ top \in Int
      BY <1>1
    <2>2. Word = 0 .. top
      BY DEF Word
    <2> HIDE DEF w, top
    <2>3. w \in 0 .. top
      BY <2>1
    <2> QED  BY <2>2, <2>3 DEF w
  <1>3. (256 * high + low) \div 256 = high
    BY <1>1, SMTT(30)
  <1>4. (256 * high + low) % 256 = low
    BY <1>1, SMTT(30)
  <1> QED  BY <1>2, <1>3, <1>4

\* A word is two bytes.
LEMMA BytesOfWord ==
    ASSUME NEW w \in Word
    PROVE  /\ w \div 256 \in Byte
           /\ w % 256 \in Byte
           /\ w = 256 * (w \div 256) + (w % 256)
  BY DEF Byte, Word

\* Nothing but the same operand gives the same exclusive or.
LEMMA XorCancels ==
    ASSUME NEW a \in Byte, NEW b \in Byte, NEW c \in Byte
    PROVE  /\ Xor[a][b] \in Byte
           /\ Xor[a][b] = Xor[a][c] => b = c
           /\ Xor[b][a] = Xor[c][a] => b = c
  <1>1. Xor[a][b] \in Byte
    BY XorAssumption
  <1>2. Xor[Xor[b][a]][a] = b /\ Xor[Xor[c][a]][a] = c
    BY XorAssumption
  <1>3. Xor[a][b] = Xor[b][a] /\ Xor[a][c] = Xor[c][a]
    BY XorAssumption
  <1> QED  BY <1>1, <1>2, <1>3

\* A pattern that is not zero changes a byte.
LEMMA XorChanges ==
    ASSUME NEW a \in Byte, NEW b \in Byte, Xor[a][b] = a
    PROVE  b = 0
  <1>1. 0 \in Byte
    BY DEF Byte
  <1>2. Xor[a][0] = a
    BY XorAssumption
  <1> QED  BY <1>1, <1>2, XorCancels

-----------------------------------------------------------------------------
(* The CRC.                                                                *)

\* What eight shifts make of a register with this high byte and a low byte 0.
Top(high) == CrcShifted[256 * high]

\* What a step of the CRC computes.
LEMMA StepIs ==
    ASSUME NEW crc \in Word, NEW byte \in Byte
    PROVE  LET high == Xor[crc \div 256][byte] IN
           /\ high \in Byte
           /\ Top(high) \in Word
           /\ CrcStep(crc, byte) = 256 * Xor[Top(high) \div 256][crc % 256] + (Top(high) % 256)
           /\ CrcStep(crc, byte) \in Word
           /\ CrcStep(crc, byte) \div 256 = Xor[Top(high) \div 256][crc % 256]
           /\ CrcStep(crc, byte) % 256 = Top(high) % 256
  <1> DEFINE high == Xor[crc \div 256][byte]
  <1>1. crc \div 256 \in Byte /\ crc % 256 \in Byte
    BY BytesOfWord
  <1>2. high \in Byte
    BY <1>1, XorCancels
  <1> HIDE DEF high
  <1>3. Top(high) \in Word
    BY <1>2, CrcAssumption DEF Top
  <1>4. Top(high) \div 256 \in Byte /\ Top(high) % 256 \in Byte
    BY <1>3, BytesOfWord
  <1>5. CrcStep(crc, byte) = CrcShifted[256 * high + (crc % 256)]
    BY DEF CrcStep, high
  <1>6. CrcStep(crc, byte) = 256 * Xor[Top(high) \div 256][crc % 256] + (Top(high) % 256)
    BY <1>1, <1>2, <1>5, CrcAssumption DEF Top
  <1>7. Xor[Top(high) \div 256][crc % 256] \in Byte
    BY <1>1, <1>4, XorCancels
  <1>8. /\ CrcStep(crc, byte) \in Word
        /\ CrcStep(crc, byte) \div 256 = Xor[Top(high) \div 256][crc % 256]
        /\ CrcStep(crc, byte) % 256 = Top(high) % 256
    BY <1>4, <1>6, <1>7, WordOfBytes
  <1> QED  BY <1>2, <1>3, <1>6, <1>8 DEF high

\* The low byte that a step leaves tells what entered at the top.
LEMMA StepLow ==
    ASSUME NEW crc \in Word, NEW byte \in Byte, NEW other \in Word, NEW changed \in Byte,
           CrcStep(crc, byte) % 256 = CrcStep(other, changed) % 256
    PROVE  Xor[crc \div 256][byte] = Xor[other \div 256][changed]
  <1> DEFINE high == Xor[crc \div 256][byte]
             high2 == Xor[other \div 256][changed]
  <1>1. high \in Byte /\ CrcStep(crc, byte) % 256 = Top(high) % 256
    BY StepIs
  <1>2. high2 \in Byte /\ CrcStep(other, changed) % 256 = Top(high2) % 256
    BY StepIs
  <1> HIDE DEF high, high2
  <1>3. high = high2
    BY <1>1, <1>2, CrcAssumption DEF Top
  <1> QED  BY <1>3 DEF high, high2

\* And a step that leaves the same started from the same low byte.
LEMMA StepSame ==
    ASSUME NEW crc \in Word, NEW byte \in Byte, NEW other \in Word, NEW changed \in Byte,
           CrcStep(crc, byte) = CrcStep(other, changed)
    PROVE  /\ Xor[crc \div 256][byte] = Xor[other \div 256][changed]
           /\ crc % 256 = other % 256
  <1> DEFINE high == Xor[crc \div 256][byte]
  <1>1. high = Xor[other \div 256][changed]
    BY StepLow
  <1>2. high \in Byte /\ Top(high) \in Word
    BY StepIs
  <1>3. CrcStep(crc, byte) \div 256 = Xor[Top(high) \div 256][crc % 256]
    BY StepIs
  <1>4. CrcStep(other, changed) \div 256 = Xor[Top(high) \div 256][other % 256]
    BY <1>1, StepIs
  <1> HIDE DEF high
  <1>5. Top(high) \div 256 \in Byte /\ crc % 256 \in Byte /\ other % 256 \in Byte
    BY <1>2, BytesOfWord
  <1>6. crc % 256 = other % 256
    BY <1>3, <1>4, <1>5, XorCancels
  <1> QED  BY <1>1, <1>6 DEF high

\* The same byte keeps different registers different.
LEMMA StepInjective ==
    ASSUME NEW crc \in Word, NEW other \in Word, NEW byte \in Byte,
           CrcStep(crc, byte) = CrcStep(other, byte)
    PROVE  crc = other
  <1>1. Xor[crc \div 256][byte] = Xor[other \div 256][byte] /\ crc % 256 = other % 256
    BY StepSame
  <1>2. crc \div 256 \in Byte /\ other \div 256 \in Byte
    BY BytesOfWord
  <1>3. crc \div 256 = other \div 256
    BY <1>1, <1>2, XorCancels
  <1> QED  BY <1>1, <1>3, BytesOfWord

\* Two bytes that lead to the same register are the same.
LEMMA TwoSteps ==
    ASSUME NEW crc \in Word, NEW a \in Byte, NEW b \in Byte, NEW c \in Byte, NEW d \in Byte,
           CrcStep(CrcStep(crc, a), b) = CrcStep(CrcStep(crc, c), d)
    PROVE  a = c /\ b = d
  <1> DEFINE x == CrcStep(crc, a)
             y == CrcStep(crc, c)
  <1>1. x \in Word /\ y \in Word
    BY StepIs
  <1>2. x % 256 = y % 256
    <2> HIDE DEF x, y
    <2> QED  BY <1>1, StepSame DEF x, y
  <1>3. Xor[crc \div 256][a] = Xor[crc \div 256][c]
    BY <1>2, StepLow
  <1>4. crc \div 256 \in Byte
    BY BytesOfWord
  <1>5. a = c
    BY <1>3, <1>4, XorCancels
  <1>6. Xor[x \div 256][b] = Xor[x \div 256][d]
    <2>1. x = y
      BY <1>5
    <2> HIDE DEF x, y
    <2> QED  BY <1>1, <2>1, StepSame DEF x, y
  <1>7. x \div 256 \in Byte
    <2> HIDE DEF x
    <2> QED  BY <1>1, BytesOfWord
  <1> HIDE DEF x
  <1> QED  BY <1>5, <1>6, <1>7, XorCancels

\* The recursion of CrcAfter is well defined.
LEMMA CrcAfterIs ==
    ASSUME NEW data \in Seq(Byte)
    PROVE  /\ CrcAfter(data)[0] = 65535
           /\ \A n \in 1 .. Len(data) :
                  CrcAfter(data)[n] = CrcStep(CrcAfter(data)[n - 1], data[n])
  <1> DEFINE end == Len(data)
             Value(n, f) == IF n = 0 THEN 65535 ELSE CrcStep(f[n - 1], data[n])
             Solves(f, k) == f = [n \in 0 .. end |-> IF n > k THEN 0 ELSE Value(n, f)]
             T == {k \in 0 .. end : ~ \E f : Solves(f, k)}
  <1>1. end \in Nat
    OBVIOUS
  <1> HIDE DEF end
  <1>2. \E f : Solves(f, 0)
    <2> DEFINE f == [n \in 0 .. end |-> IF n > 0 THEN 0 ELSE Value(n, <<>>)]
    <2>1. ASSUME NEW n \in 0 .. end
          PROVE  (IF n > 0 THEN 0 ELSE Value(n, <<>>)) = (IF n > 0 THEN 0 ELSE Value(n, f))
      BY <1>1
    <2>2. f = [n \in 0 .. end |-> IF n > 0 THEN 0 ELSE Value(n, f)]
      <3>1. f = [n \in 0 .. end |-> IF n > 0 THEN 0 ELSE Value(n, <<>>)]
        OBVIOUS
      <3> HIDE DEF Value, f
      <3> QED  BY <2>1, <3>1
    <2> HIDE DEF Value, f
    <2> QED  BY <2>2
  <1>3. ASSUME NEW k \in 1 .. end, NEW f, Solves(f, k - 1)
        PROVE  \E g : Solves(g, k)
    <2> DEFINE g == [n \in 0 .. end |-> IF n = k THEN Value(k, f) ELSE f[n]]
    <2>1. ASSUME NEW n \in 0 .. k PROVE Value(n, g) = Value(n, f)
      <3>1. CASE n = 0
        BY <3>1
      <3>2. CASE n # 0
        <4>1. n - 1 \in 0 .. end /\ n - 1 # k
          BY <1>1, <3>2
        <4>2. g[n - 1] = f[n - 1]
          BY <4>1
        <4> HIDE DEF g
        <4> QED  BY <4>2
      <3> QED  BY <3>1, <3>2
    <2>2. ASSUME NEW n \in 0 .. end
          PROVE  g[n] = IF n > k THEN 0 ELSE Value(n, g)
      <3>1. f[n] = IF n > k - 1 THEN 0 ELSE Value(n, f)
        <4> HIDE DEF Value
        <4> QED  BY <1>3
      <3>2. g[n] = IF n = k THEN Value(k, f) ELSE f[n]
        OBVIOUS
      <3> HIDE DEF g, Value
      <3>3. CASE n > k
        <4>1. n > k - 1 /\ n # k
          BY <1>1, <3>3
        <4> QED  BY <3>1, <3>2, <3>3, <4>1
      <3>4. CASE n = k
        <4>1. n \in 0 .. k /\ ~(n > k)
          BY <1>1, <3>4
        <4> QED  BY <3>2, <3>4, <4>1, <2>1
      <3>5. CASE n < k
        <4>1. n \in 0 .. k /\ ~(n > k) /\ ~(n > k - 1) /\ n # k
          BY <1>1, <3>5
        <4> QED  BY <3>1, <3>2, <4>1, <2>1
      <3> QED  BY <3>3, <3>4, <3>5, <1>1
    <2>3. g = [n \in 0 .. end |-> g[n]]
      OBVIOUS
    <2> HIDE DEF g, Value
    <2>4. g = [n \in 0 .. end |-> IF n > k THEN 0 ELSE Value(n, g)]
      BY <2>2, <2>3
    <2> QED  BY <2>4
  <1>4. T = {}
    <2>1. SUFFICES ASSUME T # {} PROVE FALSE
      OBVIOUS
    <2>2. T \in SUBSET Nat
      BY <1>1
    <2> HIDE DEF Solves
    <2>3. PICK k \in T : \A y \in T : k <= y
      <3> HIDE DEF T
      <3> QED  BY <2>1, <2>2, Least
    <2>4. k \in 1 .. end
      BY <1>1, <1>2, <2>3
    <2>5. k - 1 \in 0 .. end /\ ~(k <= k - 1)
      BY <1>1, <2>4
    <2>6. PICK f : Solves(f, k - 1)
      BY <2>3, <2>5
    <2>7. \E g : Solves(g, k)
      BY <1>3, <2>4, <2>6
    <2> QED  BY <2>3, <2>7
  <1>5. PICK f : Solves(f, end)
    <2>1. end \in 0 .. end
      BY <1>1
    <2> HIDE DEF Solves
    <2> QED  BY <1>4, <2>1
  <1>6. f = [n \in 0 .. end |-> Value(n, f)]
    <2>1. \A n \in 0 .. end : ~(n > end)
      BY <1>1
    <2> HIDE DEF Value
    <2> QED  BY <1>5, <2>1
  <1> DEFINE Equation(h) == h = [n \in 0 .. Len(data) |->
                 IF n = 0 THEN 65535 ELSE CrcStep(h[n - 1], data[n])]
  <1>7. Equation(f)
    BY <1>6 DEF end
  <1>8. CrcAfter(data) = CHOOSE h : Equation(h)
    BY DEF CrcAfter
  <1>9. Equation(CrcAfter(data))
    <2> HIDE DEF Equation
    <2> QED  BY <1>7, <1>8
  <1> DEFINE h == CrcAfter(data)
  <1>10. h = [n \in 0 .. end |-> Value(n, h)]
    BY <1>9 DEF end
  <1>11. \A n \in 0 .. end : h[n] = Value(n, h)
    <2> HIDE DEF Value, h
    <2> QED  BY <1>10
  <1>12. h[0] = 65535
    <2>1. 0 \in 0 .. end
      BY <1>1
    <2> HIDE DEF h
    <2> QED  BY <1>11, <2>1
  <1>13. ASSUME NEW n \in 1 .. end PROVE h[n] = CrcStep(h[n - 1], data[n])
    <2>1. n \in 0 .. end /\ n # 0
      BY <1>1
    <2> HIDE DEF h
    <2> QED  BY <1>11, <2>1
  <1> QED  BY <1>12, <1>13 DEF end

\* The register holds a word at first.
LEMMA FirstIsWord == 65535 \in Word
  BY DEF Word

\* The register holds a word after every byte.
LEMMA CrcAfterIsWord ==
    ASSUME NEW data \in Seq(Byte)
    PROVE  \A n \in 0 .. Len(data) : CrcAfter(data)[n] \in Word
  <1> DEFINE T == {n \in 0 .. Len(data) : CrcAfter(data)[n] \notin Word}
  <1>1. SUFFICES ASSUME T # {} PROVE FALSE
    OBVIOUS
  <1>2. T \in SUBSET Nat
    OBVIOUS
  <1>3. PICK n \in T : \A y \in T : n <= y
    <2> HIDE DEF T
    <2> QED  BY <1>1, <1>2, Least
  <1>4. n # 0
    BY CrcAfterIs, FirstIsWord
  <1>5. n \in 1 .. Len(data) /\ n - 1 \in 0 .. Len(data) /\ ~(n <= n - 1)
    BY <1>4
  <1>6. CrcAfter(data)[n - 1] \in Word
    BY <1>3, <1>5
  <1>7. data[n] \in Byte
    BY <1>5
  <1>8. CrcAfter(data)[n] \in Word
    BY <1>5, <1>6, <1>7, CrcAfterIs, StepIs
  <1> QED  BY <1>8

\* The register is the same as long as the bytes are.
LEMMA CrcSameBefore ==
    ASSUME NEW data \in Seq(Byte), NEW other \in Seq(Byte), Len(other) = Len(data),
           NEW m \in 0 .. Len(data), \A i \in 1 .. m : other[i] = data[i]
    PROVE  CrcAfter(other)[m] = CrcAfter(data)[m]
  <1> DEFINE T == {n \in 0 .. m : CrcAfter(other)[n] # CrcAfter(data)[n]}
  <1>1. SUFFICES ASSUME T # {} PROVE FALSE
    OBVIOUS
  <1>2. T \in SUBSET Nat
    OBVIOUS
  <1>3. PICK n \in T : \A y \in T : n <= y
    <2> HIDE DEF T
    <2> QED  BY <1>1, <1>2, Least
  <1>4. n # 0
    BY CrcAfterIs
  <1>5. n \in 1 .. m /\ n \in 1 .. Len(data) /\ n - 1 \in 0 .. m /\ ~(n <= n - 1)
    BY <1>4
  <1>6. CrcAfter(other)[n - 1] = CrcAfter(data)[n - 1]
    BY <1>3, <1>5
  <1>7. other[n] = data[n]
    BY <1>5
  <1>8. CrcAfter(other)[n] = CrcAfter(data)[n]
    <2>1. CrcAfter(other)[n] = CrcStep(CrcAfter(other)[n - 1], other[n])
      BY <1>5, CrcAfterIs
    <2>2. CrcAfter(data)[n] = CrcStep(CrcAfter(data)[n - 1], data[n])
      BY <1>5, CrcAfterIs
    <2> QED  BY <2>1, <2>2, <1>6, <1>7
  <1> QED  BY <1>8

\* Once it differs, the same bytes never make it the same again.
LEMMA CrcDiffersAfter ==
    ASSUME NEW data \in Seq(Byte), NEW other \in Seq(Byte), Len(other) = Len(data),
           NEW m \in 0 .. Len(data), \A i \in m + 1 .. Len(data) : other[i] = data[i],
           CrcAfter(other)[m] # CrcAfter(data)[m]
    PROVE  Crc(other) # Crc(data)
  <1> DEFINE T == {n \in m .. Len(data) : CrcAfter(other)[n] = CrcAfter(data)[n]}
  <1>1. SUFFICES ASSUME T # {} PROVE FALSE
    <2>1. Len(data) \in m .. Len(data)
      OBVIOUS
    <2> QED  BY <2>1 DEF Crc
  <1>2. T \in SUBSET Nat
    OBVIOUS
  <1>3. PICK n \in T : \A y \in T : n <= y
    <2> HIDE DEF T
    <2> QED  BY <1>1, <1>2, Least
  <1>4. n # m
    OBVIOUS
  <1>5. /\ n \in m + 1 .. Len(data) /\ n \in 1 .. Len(data)
        /\ n - 1 \in m .. Len(data) /\ n - 1 \in 0 .. Len(data) /\ ~(n <= n - 1)
    BY <1>4
  <1>6. CrcAfter(other)[n - 1] # CrcAfter(data)[n - 1]
    BY <1>3, <1>5
  <1>7. other[n] = data[n] /\ data[n] \in Byte
    BY <1>5
  <1>8. CrcAfter(other)[n] = CrcStep(CrcAfter(other)[n - 1], data[n])
    BY <1>5, <1>7, CrcAfterIs
  <1>9. CrcAfter(data)[n] = CrcStep(CrcAfter(data)[n - 1], data[n])
    BY <1>5, CrcAfterIs
  <1>10. CrcAfter(other)[n - 1] \in Word /\ CrcAfter(data)[n - 1] \in Word
    BY <1>5, CrcAfterIsWord
  <1>11. CrcStep(CrcAfter(other)[n - 1], data[n]) = CrcStep(CrcAfter(data)[n - 1], data[n])
    BY <1>3, <1>8, <1>9
  <1> QED  BY <1>6, <1>7, <1>10, <1>11, StepInjective

\* Two neighbouring bytes of which one is changed change the CRC.
LEMMA BurstChangesCrc ==
    ASSUME NEW data \in Seq(Byte), NEW other \in Seq(Byte), Len(other) = Len(data),
           NEW i \in 1 .. Len(data) - 1,
           \A k \in 1 .. Len(data) : k # i /\ k # i + 1 => other[k] = data[k],
           ~(other[i] = data[i] /\ other[i + 1] = data[i + 1])
    PROVE  Crc(other) # Crc(data)
  <1> DEFINE crc == CrcAfter(data)[i - 1]
  <1>1. /\ i - 1 \in 0 .. Len(data) /\ i \in 1 .. Len(data) /\ i + 1 \in 1 .. Len(data)
        /\ i + 1 \in 0 .. Len(data) /\ (i + 1) - 1 = i
    OBVIOUS
  <1>2. crc \in Word
    BY <1>1, CrcAfterIsWord
  <1>3. CrcAfter(other)[i - 1] = crc
    <2>1. \A k \in 1 .. i - 1 : other[k] = data[k]
      OBVIOUS
    <2> QED  BY <1>1, <2>1, CrcSameBefore
  <1>4. CrcAfter(data)[i + 1] = CrcStep(CrcStep(crc, data[i]), data[i + 1])
    BY <1>1, CrcAfterIs
  <1>5. CrcAfter(other)[i + 1] = CrcStep(CrcStep(crc, other[i]), other[i + 1])
    <2> HIDE DEF crc
    <2> QED  BY <1>1, <1>3, CrcAfterIs
  <1>6. /\ data[i] \in Byte /\ data[i + 1] \in Byte
        /\ other[i] \in Byte /\ other[i + 1] \in Byte
    BY <1>1
  <1>7. CrcAfter(other)[i + 1] # CrcAfter(data)[i + 1]
    <2> HIDE DEF crc
    <2> QED  BY <1>2, <1>4, <1>5, <1>6, TwoSteps
  <1>8. \A k \in (i + 1) + 1 .. Len(data) : other[k] = data[k]
    OBVIOUS
  <1> QED  BY <1>1, <1>7, <1>8, CrcDiffersAfter

\* The last byte, if it alone is changed, changes the low byte of the CRC.
LEMMA LastByteShows ==
    ASSUME NEW data \in Seq(Byte), NEW other \in Seq(Byte), Len(other) = Len(data),
           Len(data) >= 1, \A k \in 1 .. Len(data) - 1 : other[k] = data[k],
           Crc(other) % 256 = Crc(data) % 256
    PROVE  other = data
  <1> DEFINE last == Len(data)
             crc == CrcAfter(data)[last - 1]
  <1>1. last \in 1 .. Len(data) /\ last - 1 \in 0 .. Len(data)
    OBVIOUS
  <1>2. crc \in Word
    BY <1>1, CrcAfterIsWord
  <1>3. CrcAfter(other)[last - 1] = crc
    BY <1>1, CrcSameBefore
  <1>4. data[last] \in Byte /\ other[last] \in Byte
    BY <1>1
  <1>5. Crc(data) = CrcStep(crc, data[last])
    BY <1>1, CrcAfterIs DEF Crc
  <1>6. Crc(other) = CrcStep(crc, other[last])
    <2>1. CrcAfter(other)[last] = CrcStep(CrcAfter(other)[last - 1], other[last])
      BY <1>1, CrcAfterIs
    <2> HIDE DEF crc
    <2> QED  BY <1>3, <2>1 DEF Crc
  <1>7. Xor[crc \div 256][other[last]] = Xor[crc \div 256][data[last]]
    <2> HIDE DEF crc, last
    <2> QED  BY <1>2, <1>4, <1>5, <1>6, StepLow
  <1>8. crc \div 256 \in Byte
    <2> HIDE DEF crc
    <2> QED  BY <1>2, BytesOfWord
  <1>9. other[last] = data[last]
    <2> HIDE DEF crc, last
    <2> QED  BY <1>4, <1>7, <1>8, XorCancels
  <1>10. \A k \in 1 .. Len(data) : other[k] = data[k]
    BY <1>9
  <1> QED  BY <1>10, SeqEqual

-----------------------------------------------------------------------------
(* Frames.                                                                 *)

\* A number of two bytes determines them.
LEMMA SameBytes ==
    ASSUME NEW a \in Byte, NEW b \in Byte, NEW c \in Byte, NEW d \in Byte,
           256 * a + b = 256 * c + d
    PROVE  a = c /\ b = d
  BY DEF Byte

\* Whatever a pattern does to two neighbouring bytes of a frame, it is none.
LEMMA BurstNotParsed ==
    ASSUME NEW raw \in Seq(Byte), Parses(raw), NEW i \in 1 .. Len(raw) - 1,
           NEW p \in Byte, NEW q \in Byte, ~(p = 0 /\ q = 0)
    PROVE  ~Parses([raw EXCEPT ![i] = Xor[@][p], ![i + 1] = Xor[@][q]])
  <1> DEFINE hit == [raw EXCEPT ![i] = Xor[@][p], ![i + 1] = Xor[@][q]]
             end == Len(raw)
             data == SubSeq(raw, 1, end - 2)
             other == SubSeq(hit, 1, end - 2)
  <1>1. end \in Nat /\ end >= 9 /\ i \in 1 .. end /\ i + 1 \in 1 .. end /\ i # i + 1
    BY DEF Parses, MinFrameLength
  <1>2. \A k \in 1 .. end : raw[k] \in Byte
    OBVIOUS
  <1>3. Xor[raw[i]][p] \in Byte /\ Xor[raw[i + 1]][q] \in Byte
    BY <1>1, <1>2, XorCancels
  <1>4. /\ hit \in Seq(Byte)
        /\ Len(hit) = end
        /\ hit[i] = Xor[raw[i]][p]
        /\ hit[i + 1] = Xor[raw[i + 1]][q]
        /\ \A k \in 1 .. end : k # i /\ k # i + 1 => hit[k] = raw[k]
    BY <1>1, <1>3
  <1> HIDE DEF hit
  <1>5. hit[i] # raw[i] \/ hit[i + 1] # raw[i + 1]
    BY <1>1, <1>2, <1>4, XorChanges
  <1>6. /\ data \in Seq(Byte) /\ other \in Seq(Byte)
        /\ Len(data) = end - 2 /\ Len(other) = end - 2
        /\ \A k \in 1 .. end - 2 : data[k] = raw[k] /\ other[k] = hit[k]
    BY <1>1, <1>4
  <1> HIDE DEF data, other
  <1>7. SUFFICES ASSUME Parses(hit) PROVE FALSE
    BY DEF hit
  <1>8. Unsigned2(raw, end - 1) = Crc(data) /\ Unsigned2(hit, end - 1) = Crc(other)
    BY <1>4, <1>7 DEF Parses, data, other
  <1>9. end - 1 \in 1 .. end /\ end \in 1 .. end /\ (end - 1) + 1 = end
    BY <1>1
  <1>10. /\ raw[end - 1] \in Byte /\ raw[end] \in Byte
         /\ hit[end - 1] \in Byte /\ hit[end] \in Byte
    BY <1>2, <1>4, <1>9
  <1>11. /\ Crc(data) = 256 * raw[end - 1] + raw[end]
         /\ Crc(other) = 256 * hit[end - 1] + hit[end]
    BY <1>8, <1>9 DEF Unsigned2
  <1> HIDE DEF end
  <1>12. CASE i <= end - 3
    <2>1. end - 1 # i /\ end - 1 # i + 1 /\ end # i /\ end # i + 1
      BY <1>1, <1>12
    <2>2. Crc(other) = Crc(data)
      BY <1>4, <1>9, <1>11, <2>1
    <2>3. i \in 1 .. Len(data) - 1 /\ i \in 1 .. end - 2 /\ i + 1 \in 1 .. end - 2
      BY <1>1, <1>6, <1>12
    <2>4. ASSUME NEW k \in 1 .. Len(data), k # i, k # i + 1 PROVE other[k] = data[k]
      <3>1. k \in 1 .. end - 2
        BY <1>6
      <3>2. k \in 1 .. end
        BY <1>1, <3>1
      <3>3. other[k] = hit[k] /\ data[k] = raw[k]
        BY <1>6, <3>1
      <3>4. hit[k] = raw[k]
        BY <1>4, <2>4, <3>2
      <3> QED  BY <3>3, <3>4
    <2>5. ~(other[i] = data[i] /\ other[i + 1] = data[i + 1])
      BY <1>5, <1>6, <2>3
    <2> QED  BY <1>6, <2>2, <2>3, <2>4, <2>5, BurstChangesCrc
  <1>13. CASE i = end - 2
    <2>1. hit[end] = raw[end]
      BY <1>1, <1>4, <1>9, <1>13
    <2>2. Crc(other) % 256 = Crc(data) % 256
      BY <1>10, <1>11, <2>1, WordOfBytes
    <2>3. \A k \in 1 .. Len(data) - 1 : other[k] = data[k]
      BY <1>1, <1>4, <1>6, <1>13
    <2>4. Len(data) >= 1 /\ end - 2 \in 1 .. end - 2
      BY <1>1, <1>6
    <2>5. other = data
      BY <1>6, <2>2, <2>3, <2>4, LastByteShows
    <2>6. hit[end - 1] = raw[end - 1]
      BY <1>10, <1>11, <2>5, SameBytes
    <2>7. hit[i] = raw[i]
      BY <1>6, <1>13, <2>4, <2>5
    <2>8. i + 1 = end - 1
      BY <1>1, <1>13
    <2> QED  BY <1>5, <2>6, <2>7, <2>8
  <1>14. CASE i = end - 1
    <2>1. \A k \in 1 .. Len(data) : other[k] = data[k]
      BY <1>1, <1>4, <1>6, <1>14
    <2>2. other = data
      BY <1>6, <2>1, SeqEqual
    <2>3. hit[end - 1] = raw[end - 1] /\ hit[end] = raw[end]
      BY <1>10, <1>11, <2>2, SameBytes
    <2> QED  BY <1>5, <1>9, <1>14, <2>3
  <1>15. i <= end - 3 \/ i = end - 2 \/ i = end - 1
    BY <1>1 DEF end
  <1> QED  BY <1>12, <1>13, <1>14, <1>15

\* build_frame builds a frame that parse_frame accepts and takes the payload from.
LEMMA FrameIsParsed ==
    ASSUME NEW payload \in Seq(Byte), MinFrameLength + Len(payload) \in Word
    PROVE  /\ ReportFrame(payload) \in Seq(Byte)
           /\ Parses(ReportFrame(payload))
           /\ ParseFrame(ReportFrame(payload)).payload = payload
  <1> DEFINE length == MinFrameLength + Len(payload)
             header == <<SOF, length \div 256, length % 256, 2, 0, TagCommand, 0>>
             body == header \o payload
             check == CrcBytes(body)
             raw == body \o check
  <1>1. Len(payload) \in Nat /\ length = 9 + Len(payload)
    BY DEF MinFrameLength
  <1>2. length \div 256 \in Byte /\ length % 256 \in Byte /\ length = 256 * (length \div 256) + (length % 256)
    <2> HIDE DEF length
    <2> QED  BY BytesOfWord DEF length
  <1>3. ReportFrame(payload) = raw
    BY DEF ReportFrame, BuildFrame
  <1> HIDE DEF length
  <1>4. header \in Seq(Byte) /\ Len(header) = 7
    <2>1. 2 \in Byte /\ 0 \in Byte /\ SOF \in Byte /\ TagCommand \in Byte
      BY DEF Byte, SOF, TagCommand
    <2> QED  BY <1>2, <2>1
  <1>5. header[1] = SOF /\ header[2] = length \div 256 /\ header[3] = length % 256
    OBVIOUS
  <1> HIDE DEF header
  <1>6. /\ body \in Seq(Byte) /\ Len(body) = 7 + Len(payload)
        /\ \A k \in 1 .. 7 : body[k] = header[k]
        /\ \A k \in 1 .. Len(payload) : body[7 + k] = payload[k]
    <2>1. /\ body \in Seq(Byte) /\ Len(body) = Len(header) + Len(payload)
          /\ \A k \in 1 .. Len(header) + Len(payload) : body[k] =
                 IF k <= Len(header) THEN header[k] ELSE payload[k - Len(header)]
      BY <1>4, ConcatProperties
    <2> HIDE DEF body
    <2>2. ASSUME NEW k \in 1 .. 7 PROVE body[k] = header[k]
      BY <1>1, <1>4, <2>1
    <2>3. ASSUME NEW k \in 1 .. Len(payload) PROVE body[7 + k] = payload[k]
      <3>1. 7 + k \in 1 .. 7 + Len(payload) /\ ~(7 + k <= 7) /\ (7 + k) - 7 = k
        BY <1>1
      <3> QED  BY <1>4, <2>1, <3>1
    <2> QED  BY <1>4, <2>1, <2>2, <2>3
  <1> HIDE DEF body
  <1>7. Crc(body) \in Word
    <2>1. Len(body) \in 0 .. Len(body)
      BY <1>1, <1>6
    <2> QED  BY <1>6, <2>1, CrcAfterIsWord DEF Crc
  <1>8. check \in Seq(Byte) /\ Len(check) = 2 /\ 256 * check[1] + check[2] = Crc(body)
    BY <1>7, BytesOfWord DEF CrcBytes
  <1> HIDE DEF check
  <1>9. /\ raw \in Seq(Byte) /\ Len(raw) = 9 + Len(payload)
        /\ \A k \in 1 .. Len(body) : raw[k] = body[k]
        /\ raw[Len(body) + 1] = check[1]
        /\ raw[Len(body) + 2] = check[2]
    <2>1. /\ raw \in Seq(Byte) /\ Len(raw) = Len(body) + Len(check)
          /\ \A k \in 1 .. Len(body) + Len(check) : raw[k] =
                 IF k <= Len(body) THEN body[k] ELSE check[k - Len(body)]
      <3>1. body \in Seq(Byte) /\ check \in Seq(Byte)
        BY <1>6, <1>8
      <3> QED  BY ONLY <3>1, ConcatProperties DEF raw
    <2> HIDE DEF raw
    <2>2. Len(body) \in Nat /\ Len(raw) = Len(body) + 2
      BY <1>1, <1>6, <1>8, <2>1
    <2>3. ASSUME NEW k \in 1 .. Len(body) PROVE raw[k] = body[k]
      BY <1>8, <2>1, <2>2
    <2>4. ASSUME NEW k \in 1 .. 2 PROVE raw[Len(body) + k] = check[k]
      <3>1. /\ Len(body) + k \in 1 .. Len(body) + 2 /\ ~(Len(body) + k <= Len(body))
            /\ (Len(body) + k) - Len(body) = k
        BY <2>2
      <3> QED  BY <1>8, <2>1, <3>1
    <2>5. 1 \in 1 .. 2 /\ 2 \in 1 .. 2
      OBVIOUS
    <2>6. Len(raw) = 9 + Len(payload)
      BY <1>1, <1>6, <2>2
    <2>7. raw[Len(body) + 1] = check[1] /\ raw[Len(body) + 2] = check[2]
      BY <2>4, <2>5
    <2> QED  BY <2>1, <2>3, <2>6, <2>7
  <1> HIDE DEF raw
  <1>10. raw[1] = SOF /\ raw[2] = length \div 256 /\ raw[3] = length % 256
    BY <1>1, <1>5, <1>6, <1>9
  <1>11. LengthField(raw) = Len(raw)
    BY <1>1, <1>2, <1>9, <1>10 DEF LengthField, Unsigned2
  <1>12. SubSeq(raw, 1, Len(raw) - 2) = body
    <2> DEFINE front == SubSeq(raw, 1, Len(raw) - 2)
    <2>1. /\ front \in Seq(Byte) /\ Len(front) = Len(raw) - 2
          /\ \A k \in 1 .. Len(raw) - 2 : front[k] = raw[k]
      BY <1>1, <1>9
    <2> HIDE DEF front
    <2>2. Len(front) = Len(body) /\ \A k \in 1 .. Len(front) : front[k] = body[k]
      BY <1>1, <1>6, <1>9, <2>1
    <2>3. front = body
      BY <1>6, <2>1, <2>2, SeqEqual
    <2> QED  BY <2>3 DEF front
  <1>13. Unsigned2(raw, Len(raw) - 1) = Crc(body)
    <2>1. Len(raw) - 1 = Len(body) + 1 /\ (Len(raw) - 1) + 1 = Len(body) + 2
      BY <1>1, <1>6, <1>9
    <2> QED  BY <1>8, <1>9, <2>1 DEF Unsigned2
  <1>14. Parses(raw)
    <2>1. Len(raw) >= MinFrameLength
      BY <1>1, <1>9 DEF MinFrameLength
    <2> QED  BY <1>10, <1>11, <1>12, <1>13, <2>1 DEF Parses
  <1>15. ParseFrame(raw).payload = payload
    <2> DEFINE inner == SubSeq(raw, 8, Len(raw) - 2)
    <2>1. /\ inner \in Seq(Byte) /\ Len(inner) = Len(payload)
          /\ \A k \in 1 .. Len(payload) : inner[k] = raw[7 + k]
      BY <1>1, <1>9
    <2> HIDE DEF inner
    <2>2. \A k \in 1 .. Len(payload) : raw[7 + k] = payload[k]
      BY <1>1, <1>6, <1>9
    <2>3. inner = payload
      BY <2>1, <2>2, SeqEqual
    <2> QED  BY <2>3 DEF ParseFrame, inner
  <1> QED  BY <1>3, <1>9, <1>14, <1>15

\* The front of a frame is no frame.
LEMMA CutNotParsed ==
    ASSUME NEW raw \in Seq(Byte), Parses(raw), NEW n \in 0 .. Len(raw) - 1
    PROVE  ~Parses(SubSeq(raw, 1, n))
  <1> DEFINE front == SubSeq(raw, 1, n)
  <1>1. Len(front) = n /\ \A k \in 1 .. n : front[k] = raw[k]
    OBVIOUS
  <1> HIDE DEF front
  <1>2. SUFFICES ASSUME Parses(front) PROVE FALSE
    BY DEF front
  <1>3. n >= 9
    BY <1>1, <1>2 DEF Parses, MinFrameLength
  <1>4. front[2] = raw[2] /\ front[3] = raw[3]
    BY <1>1, <1>3
  <1>5. LengthField(front) = LengthField(raw)
    BY <1>4 DEF LengthField, Unsigned2
  <1> QED  BY <1>1, <1>2, <1>5 DEF Parses

-----------------------------------------------------------------------------
(* The payload of a tag.                                                   *)

\* The two bytes of a number are its value modulo 2^16.
LEMMA LowWord ==
    ASSUME NEW n \in Int
    PROVE  /\ (n \div 256) % 256 \in Byte
           /\ n % 256 \in Byte
           /\ 256 * ((n \div 256) % 256) + (n % 256) = n % 65536
  BY DEF Byte

\* ">h" of the two bytes of a short integer is that integer.
LEMMA ShortIsRead ==
    ASSUME NEW n \in Int16
    PROVE  (IF n % 65536 >= 32768 THEN (n % 65536) - 65536 ELSE n % 65536) = n
  <1>1. n \in Int /\ -32768 <= n /\ n <= 32767
    BY DEF Int16
  <1>2. n >= 0 => n % 65536 = n
    BY <1>1
  <1>3. n < 0 => n % 65536 = n + 65536
    BY <1>1
  <1> QED  BY <1>1, <1>2, <1>3

\* The two halves of an integer.
LEMMA HighWord ==
    ASSUME NEW n \in Int32
    PROVE  n \div 65536 \in Int16 /\ 65536 * (n \div 65536) + (n % 65536) = n /\ n \in Int
  BY DEF Int16, Int32

\* The mask is a byte.
LEMMA MaskIsByte ==
    \A a, b, c, d, e \in BOOLEAN :
        (IF a THEN 1 ELSE 0) + (IF b THEN 2 ELSE 0) + (IF c THEN 4 ELSE 0)
        + (IF d THEN 8 ELSE 0) + (IF e THEN 16 ELSE 0) \in Byte
  BY DEF Byte

\* A concatenation.
LEMMA Joined ==
    ASSUME NEW s \in Seq(Byte), NEW t \in Seq(Byte)
    PROVE  /\ s \o t \in Seq(Byte)
           /\ Len(s \o t) = Len(s) + Len(t)
           /\ \A k \in 1 .. Len(s) : (s \o t)[k] = s[k]
           /\ \A k \in 1 .. Len(t) : (s \o t)[Len(s) + k] = t[k]
  <1> DEFINE w == s \o t
  <1>1. /\ w \in Seq(Byte) /\ Len(w) = Len(s) + Len(t)
        /\ \A k \in 1 .. Len(s) + Len(t) : w[k] = IF k <= Len(s) THEN s[k] ELSE t[k - Len(s)]
    BY ConcatProperties
  <1> HIDE DEF w
  <1>2. ASSUME NEW k \in 1 .. Len(s) PROVE w[k] = s[k]
    BY <1>1
  <1>3. ASSUME NEW k \in 1 .. Len(t) PROVE w[Len(s) + k] = t[k]
    <2>1. Len(s) + k \in 1 .. Len(s) + Len(t) /\ ~(Len(s) + k <= Len(s)) /\ (Len(s) + k) - Len(s) = k
      OBVIOUS
    <2> QED  BY <1>1, <2>1
  <1> QED  BY <1>1, <1>2, <1>3 DEF w

\* The bytes of w behind the first n are those of a field.
Holds(w, n, field) == \A k \in 1 .. Len(field) : w[n + k] = field[k]

\* They remain so when more is appended, and what is appended is held.
LEMMA HoldsLonger ==
    ASSUME NEW s \in Seq(Byte), NEW t \in Seq(Byte)
    PROVE  /\ Holds(s \o t, Len(s), t)
           /\ \A n \in Nat : \A field \in Seq(Byte) :
                  n + Len(field) <= Len(s) /\ Holds(s, n, field) => Holds(s \o t, n, field)
  <1> DEFINE w == s \o t
  <1>1. /\ \A k \in 1 .. Len(s) : w[k] = s[k]
        /\ \A k \in 1 .. Len(t) : w[Len(s) + k] = t[k]
    BY Joined
  <1> HIDE DEF w
  <1>2. ASSUME NEW n \in Nat, NEW field \in Seq(Byte),
               n + Len(field) <= Len(s), Holds(s, n, field)
        PROVE  Holds(w, n, field)
    <2>1. ASSUME NEW k \in 1 .. Len(field) PROVE w[n + k] = field[k]
      <3>1. n + k \in 1 .. Len(s)
        BY <1>2
      <3>2. s[n + k] = field[k]
        BY <1>2 DEF Holds
      <3> QED  BY <1>1, <3>1, <3>2
    <2> QED  BY <2>1 DEF Holds
  <1> QED  BY <1>1, <1>2 DEF Holds, w

\* The fields of a tag are bytes, as many as the format says.
LEMMA FieldsAreBytes ==
    ASSUME NEW t \in TagRecords
    PROVE  /\ AntennaField(t) \in Seq(Byte)
           /\ Len(AntennaField(t)) = IF t.antenna # NoValue THEN 1 ELSE 0
           /\ PcField(t) \in Seq(Byte)
           /\ Len(PcField(t)) = IF t.pc # NoValue THEN 2 ELSE 0
           /\ EpcField(t) \in Seq(Byte)
           /\ Len(EpcField(t)) = IF t.epc # <<>> THEN 1 + Len(t.epc) ELSE 0
           /\ TidField(t) \in Seq(Byte)
           /\ Len(TidField(t)) = IF t.tid # <<>> THEN 1 + Len(t.tid) ELSE 0
           /\ CountField(t) \in Seq(Byte)
           /\ Len(CountField(t)) = IF t.count # NoValue THEN 4 ELSE 0
  <1>1. /\ t.antenna \in Byte \cup {NoValue} /\ t.pc \in Int16 \cup {NoValue}
        /\ t.epc \in Strings /\ t.tid \in Strings /\ t.count \in Int32 \cup {NoValue}
    BY DEF TagRecords
  <1>2. AntennaField(t) \in Seq(Byte) /\ Len(AntennaField(t)) = IF t.antenna # NoValue THEN 1 ELSE 0
    BY <1>1 DEF AntennaField
  <1>3. ASSUME NEW n \in Int PROVE TwoBytes(n) \in Seq(Byte) /\ Len(TwoBytes(n)) = 2
    BY <1>3, LowWord DEF TwoBytes
  <1>4. PcField(t) \in Seq(Byte) /\ Len(PcField(t)) = IF t.pc # NoValue THEN 2 ELSE 0
    <2>1. CASE t.pc # NoValue
      <3>1. t.pc \in Int
        BY <1>1, <2>1 DEF Int16
      <3> QED  BY <1>3, <2>1, <3>1 DEF PcField
    <2>2. CASE t.pc = NoValue
      BY <2>2 DEF PcField
    <2> QED  BY <2>1, <2>2
  <1>5. ASSUME NEW s \in Strings
        PROVE  <<Len(s)>> \o s \in Seq(Byte) /\ Len(<<Len(s)>> \o s) = 1 + Len(s)
    <2>1. s \in Seq(Byte) /\ Len(s) \in Byte
      <3>1. s \in Seq(Byte) /\ Len(s) <= 255
        BY DEF Strings
      <3>2. Len(s) \in Nat /\ Len(s) <= 255
        BY <3>1, LenProperties
      <3>3. \A n \in Nat : n <= 255 => n \in Byte
        BY DEF Byte
      <3> QED  BY <3>1, <3>2, <3>3
    <2>2. <<Len(s)>> \in Seq(Byte) /\ Len(<<Len(s)>>) = 1
      BY <2>1
    <2> QED  BY <2>1, <2>2, Joined
  <1>6. EpcField(t) \in Seq(Byte) /\ Len(EpcField(t)) = IF t.epc # <<>> THEN 1 + Len(t.epc) ELSE 0
    <2>1. CASE t.epc # <<>>
      BY <1>1, <1>5, <2>1 DEF EpcField
    <2>2. CASE t.epc = <<>>
      BY <2>2 DEF EpcField
    <2> QED  BY <2>1, <2>2
  <1>7. TidField(t) \in Seq(Byte) /\ Len(TidField(t)) = IF t.tid # <<>> THEN 1 + Len(t.tid) ELSE 0
    <2>1. CASE t.tid # <<>>
      BY <1>1, <1>5, <2>1 DEF TidField
    <2>2. CASE t.tid = <<>>
      BY <2>2 DEF TidField
    <2> QED  BY <2>1, <2>2
  <1>8. CountField(t) \in Seq(Byte) /\ Len(CountField(t)) = IF t.count # NoValue THEN 4 ELSE 0
    <2>1. CASE t.count # NoValue
      <3>1. t.count \in Int /\ t.count \div 65536 \in Int
        BY <1>1, <2>1, HighWord DEF Int16
      <3>2. /\ TwoBytes(t.count) \in Seq(Byte) /\ Len(TwoBytes(t.count)) = 2
            /\ TwoBytes(t.count \div 65536) \in Seq(Byte) /\ Len(TwoBytes(t.count \div 65536)) = 2
        BY <1>3, <3>1
      <3>3. FourBytes(t.count) \in Seq(Byte) /\ Len(FourBytes(t.count)) = 4
        <4> DEFINE high == TwoBytes(t.count \div 65536)
                   low == TwoBytes(t.count)
        <4>1. high \in Seq(Byte) /\ Len(high) = 2 /\ low \in Seq(Byte) /\ Len(low) = 2
          BY <3>2
        <4>2. FourBytes(t.count) = high \o low
          BY DEF FourBytes
        <4> HIDE DEF high, low
        <4>3. high \o low \in Seq(Byte) /\ Len(high \o low) = Len(high) + Len(low)
          BY <4>1, Joined
        <4> QED  BY <4>1, <4>2, <4>3
      <3> QED  BY <2>1, <3>3 DEF CountField
    <2>2. CASE t.count = NoValue
      BY <2>2 DEF CountField
    <2> QED  BY <2>1, <2>2
  <1> QED  BY <1>2, <1>4, <1>6, <1>7, <1>8

\* How many bytes of the payload come before each field.
PcAt(t)       == 5 + Len(AntennaField(t))
EpcAt(t)      == PcAt(t) + Len(PcField(t))
TidAt(t)      == EpcAt(t) + Len(EpcField(t))
CountAt(t)    == TidAt(t) + Len(TidField(t))
PayloadEnd(t) == CountAt(t) + Len(CountField(t))

\* What the first n bytes of s hold is held by w.
Kept(s, n, w) ==
    \A m \in Nat : \A f \in Seq(Byte) : m + Len(f) <= n /\ Holds(s, m, f) => Holds(w, m, f)

\* One field more behind a payload.
LEMMA FieldAppended ==
    ASSUME NEW s \in Seq(Byte), NEW field \in Seq(Byte)
    PROVE  /\ s \o field \in Seq(Byte)
           /\ Len(s) + Len(field) \in Nat
           /\ Len(s \o field) = Len(s) + Len(field)
           /\ Holds(s \o field, Len(s), field)
           /\ Kept(s, Len(s), s \o field)
  <1>1. Len(field) \in Nat /\ Len(s) \in Nat
    BY LenProperties
  <1>2. s \o field \in Seq(Byte) /\ Len(s \o field) = Len(s) + Len(field)
    BY Joined
  <1>3. Len(s) + Len(field) \in Nat
    BY <1>1
  <1>4. Holds(s \o field, Len(s), field) /\ Kept(s, Len(s), s \o field)
    BY HoldsLonger DEF Kept
  <1> QED  BY <1>2, <1>3, <1>4

\* The payload of a tag.
LEMMA PayloadIs ==
    ASSUME NEW t \in TagRecords
    PROVE  LET w == TagPayload(t) IN
           /\ w \in Seq(Byte)
           /\ Len(w) = PayloadEnd(t)
           /\ w[4] = Mask(t)
           /\ w[5] = t.protocol
           /\ Holds(w, 5, AntennaField(t))
           /\ Holds(w, PcAt(t), PcField(t))
           /\ Holds(w, EpcAt(t), EpcField(t))
           /\ Holds(w, TidAt(t), TidField(t))
           /\ Holds(w, CountAt(t), CountField(t))
           /\ PcAt(t) \in Nat /\ EpcAt(t) \in Nat /\ TidAt(t) \in Nat
           /\ CountAt(t) \in Nat /\ PayloadEnd(t) \in Nat
  <1> DEFINE start == <<0, 0, 0, Mask(t), t.protocol>>
             a == AntennaField(t)
             b == PcField(t)
             c == EpcField(t)
             d == TidField(t)
             e == CountField(t)
             p1 == start \o a
             p2 == p1 \o b
             p3 == p2 \o c
             p4 == p3 \o d
             w == p4 \o e
  <1>1. /\ a \in Seq(Byte) /\ b \in Seq(Byte) /\ c \in Seq(Byte)
        /\ d \in Seq(Byte) /\ e \in Seq(Byte)
    BY FieldsAreBytes
  <1>2. start \in Seq(Byte) /\ Len(start) = 5
    <2>1. Mask(t) \in Byte
      BY MaskIsByte DEF Mask
    <2>2. t.protocol \in Byte
      BY DEF TagRecords
    <2>3. 0 \in Byte
      BY DEF Byte
    <2> QED  BY <2>1, <2>2, <2>3
  <1>3. Holds(start, 0, start) /\ start[4] = Mask(t) /\ start[5] = t.protocol
    <2>1. start[4] = Mask(t) /\ start[5] = t.protocol
      OBVIOUS
    <2> HIDE DEF start
    <2>2. \A k \in 1 .. Len(start) : start[0 + k] = start[k]
      BY <1>2
    <2> QED  BY <2>1, <2>2 DEF Holds
  <1>4. TagPayload(t) = w
    BY DEF TagPayload
  <1>5. /\ PcAt(t) = 5 + Len(a) /\ EpcAt(t) = PcAt(t) + Len(b) /\ TidAt(t) = EpcAt(t) + Len(c)
        /\ CountAt(t) = TidAt(t) + Len(d) /\ PayloadEnd(t) = CountAt(t) + Len(e)
    BY DEF PcAt, EpcAt, TidAt, CountAt, PayloadEnd
  <1> HIDE DEF start, a, b, c, d, e
  <1>6. /\ p1 \in Seq(Byte) /\ PcAt(t) \in Nat /\ Len(p1) = PcAt(t)
        /\ Holds(p1, 0, start) /\ Holds(p1, 5, a)
    <2>1. 0 + Len(start) <= 5 /\ 5 \in Nat /\ 0 \in Nat
      BY <1>2
    <2>2. /\ p1 \in Seq(Byte) /\ Len(start) + Len(a) \in Nat /\ Len(p1) = Len(start) + Len(a)
          /\ Holds(p1, Len(start), a) /\ Kept(start, Len(start), p1)
      <3>1. start \in Seq(Byte) /\ a \in Seq(Byte)
        BY <1>1, <1>2
      <3> QED  BY <3>1, FieldAppended
    <2> HIDE DEF p1
    <2> QED  BY <1>2, <1>3, <1>5, <2>1, <2>2 DEF Kept
  <1> HIDE DEF p1
  <1>7. 0 + Len(start) <= PcAt(t) /\ 5 + Len(a) <= PcAt(t) /\ 0 \in Nat /\ 5 \in Nat
    <2>1. Len(a) \in Nat
      BY <1>1, LenProperties
    <2> QED  BY <1>2, <1>5, <2>1
  <1>8. /\ p2 \in Seq(Byte) /\ EpcAt(t) \in Nat /\ Len(p2) = EpcAt(t)
        /\ Holds(p2, 0, start) /\ Holds(p2, 5, a) /\ Holds(p2, PcAt(t), b)
    <2>2. /\ p2 \in Seq(Byte) /\ Len(p1) + Len(b) \in Nat /\ Len(p2) = Len(p1) + Len(b)
          /\ Holds(p2, Len(p1), b) /\ Kept(p1, Len(p1), p2)
      <3>1. p1 \in Seq(Byte) /\ b \in Seq(Byte)
        BY <1>1, <1>6
      <3> QED  BY <3>1, FieldAppended
    <2> HIDE DEF p2
    <2> QED  BY <1>1, <1>2, <1>5, <1>6, <1>7, <2>2 DEF Kept
  <1> HIDE DEF p2
  <1>9. /\ 0 + Len(start) <= EpcAt(t) /\ 5 + Len(a) <= EpcAt(t) /\ PcAt(t) + Len(b) <= EpcAt(t)
    <2>1. Len(b) \in Nat
      BY <1>1, LenProperties
    <2> QED  BY <1>2, <1>5, <1>6, <2>1
  <1>10. /\ p3 \in Seq(Byte) /\ TidAt(t) \in Nat /\ Len(p3) = TidAt(t)
         /\ Holds(p3, 0, start) /\ Holds(p3, 5, a) /\ Holds(p3, PcAt(t), b)
         /\ Holds(p3, EpcAt(t), c)
    <2>2. /\ p3 \in Seq(Byte) /\ Len(p2) + Len(c) \in Nat /\ Len(p3) = Len(p2) + Len(c)
          /\ Holds(p3, Len(p2), c) /\ Kept(p2, Len(p2), p3)
      <3>1. p2 \in Seq(Byte) /\ c \in Seq(Byte)
        BY <1>1, <1>8
      <3> QED  BY <3>1, FieldAppended
    <2> HIDE DEF p3
    <2> QED  BY <1>1, <1>2, <1>5, <1>6, <1>7, <1>8, <1>9, <2>2 DEF Kept
  <1> HIDE DEF p3
  <1>11. /\ 0 + Len(start) <= TidAt(t) /\ 5 + Len(a) <= TidAt(t) /\ PcAt(t) + Len(b) <= TidAt(t)
         /\ EpcAt(t) + Len(c) <= TidAt(t)
    <2>1. Len(c) \in Nat
      BY <1>1, LenProperties
    <2> QED  BY <1>2, <1>5, <1>6, <1>8, <1>9, <2>1
  <1>12. /\ p4 \in Seq(Byte) /\ CountAt(t) \in Nat /\ Len(p4) = CountAt(t)
         /\ Holds(p4, 0, start) /\ Holds(p4, 5, a) /\ Holds(p4, PcAt(t), b)
         /\ Holds(p4, EpcAt(t), c) /\ Holds(p4, TidAt(t), d)
    <2>2. /\ p4 \in Seq(Byte) /\ Len(p3) + Len(d) \in Nat /\ Len(p4) = Len(p3) + Len(d)
          /\ Holds(p4, Len(p3), d) /\ Kept(p3, Len(p3), p4)
      <3>1. p3 \in Seq(Byte) /\ d \in Seq(Byte)
        BY <1>1, <1>10
      <3> QED  BY <3>1, FieldAppended
    <2> HIDE DEF p4
    <2> QED  BY <1>1, <1>2, <1>5, <1>6, <1>7, <1>8, <1>10, <1>11, <2>2 DEF Kept
  <1> HIDE DEF p4
  <1>13. /\ 0 + Len(start) <= CountAt(t) /\ 5 + Len(a) <= CountAt(t)
         /\ PcAt(t) + Len(b) <= CountAt(t) /\ EpcAt(t) + Len(c) <= CountAt(t)
         /\ TidAt(t) + Len(d) <= CountAt(t)
    <2>1. Len(d) \in Nat
      BY <1>1, LenProperties
    <2> QED  BY <1>2, <1>5, <1>6, <1>8, <1>10, <1>11, <2>1
  <1>14. /\ w \in Seq(Byte) /\ PayloadEnd(t) \in Nat /\ Len(w) = PayloadEnd(t)
         /\ Holds(w, 0, start) /\ Holds(w, 5, a) /\ Holds(w, PcAt(t), b)
         /\ Holds(w, EpcAt(t), c) /\ Holds(w, TidAt(t), d) /\ Holds(w, CountAt(t), e)
    <2>2. /\ w \in Seq(Byte) /\ Len(p4) + Len(e) \in Nat /\ Len(w) = Len(p4) + Len(e)
          /\ Holds(w, Len(p4), e) /\ Kept(p4, Len(p4), w)
      <3>1. p4 \in Seq(Byte) /\ e \in Seq(Byte)
        BY <1>1, <1>12
      <3> QED  BY <3>1, FieldAppended
    <2> HIDE DEF w
    <2> QED  BY <1>1, <1>2, <1>5, <1>6, <1>7, <1>8, <1>10, <1>12, <1>13, <2>2 DEF Kept
  <1> HIDE DEF w
  <1>15. w[4] = Mask(t) /\ w[5] = t.protocol
    <2>1. 4 \in 1 .. Len(start) /\ 5 \in 1 .. Len(start) /\ 0 + 4 = 4 /\ 0 + 5 = 5
      BY <1>2
    <2> QED  BY <1>3, <1>14, <2>1 DEF Holds
  <1> QED  BY <1>4, <1>6, <1>8, <1>10, <1>12, <1>14, <1>15 DEF a, b, c, d, e

\* A string behind its length.
LEMMA StringField ==
    ASSUME NEW s \in Strings
    PROVE  LET field == <<Len(s)>> \o s IN
           /\ s \in Seq(Byte) /\ Len(s) \in Nat
           /\ field[1] = Len(s)
           /\ \A k \in 1 .. Len(s) : field[1 + k] = s[k]
  <1> DEFINE front == <<Len(s)>>
             field == front \o s
  <1>1. s \in Seq(Byte) /\ Len(s) <= 255
    BY DEF Strings
  <1>2. Len(s) \in Nat
    BY <1>1, LenProperties
  <1>3. Len(s) \in Byte
    <2>1. \A n \in Nat : n <= 255 => n \in Byte
      BY DEF Byte
    <2> QED  BY <1>1, <1>2, <2>1
  <1>4. front \in Seq(Byte) /\ Len(front) = 1 /\ front[1] = Len(s)
    BY <1>3
  <1> HIDE DEF front
  <1>5. /\ \A k \in 1 .. Len(front) : field[k] = front[k]
        /\ \A k \in 1 .. Len(s) : field[Len(front) + k] = s[k]
    BY <1>1, <1>4, Joined
  <1> HIDE DEF field
  <1>6. 1 \in 1 .. Len(front)
    BY <1>4
  <1> QED  BY <1>1, <1>2, <1>4, <1>5, <1>6 DEF field, front

\* parse_tag_data finds every field where the reader put it.
LEMMA EndsAre ==
    ASSUME NEW t \in TagRecords
    PROVE  LET w == TagPayload(t) IN
           /\ Has(w, 1) <=> t.antenna # NoValue
           /\ Has(w, 2) <=> t.pc # NoValue
           /\ Has(w, 4) <=> t.epc # <<>>
           /\ Has(w, 8) <=> t.tid # <<>>
           /\ Has(w, 16) <=> t.count # NoValue
           /\ AntennaEnd(w) = PcAt(t)
           /\ PcEnd(w) = EpcAt(t)
           /\ EpcEnd(w) = TidAt(t)
           /\ TidEnd(w) = CountAt(t)
           /\ CountEnd(w) = PayloadEnd(t)
           /\ Len(w) >= 5
  <1> DEFINE w == TagPayload(t)
  <1>1. /\ w \in Seq(Byte) /\ Len(w) = PayloadEnd(t) /\ w[4] = Mask(t)
        /\ Holds(w, EpcAt(t), EpcField(t)) /\ Holds(w, TidAt(t), TidField(t))
        /\ PcAt(t) \in Nat /\ EpcAt(t) \in Nat /\ TidAt(t) \in Nat
        /\ CountAt(t) \in Nat /\ PayloadEnd(t) \in Nat
    BY PayloadIs
  <1> HIDE DEF w
  <1>2. /\ Has(w, 1) <=> t.antenna # NoValue
        /\ Has(w, 2) <=> t.pc # NoValue
        /\ Has(w, 4) <=> t.epc # <<>>
        /\ Has(w, 8) <=> t.tid # <<>>
        /\ Has(w, 16) <=> t.count # NoValue
    <2> DEFINE x == t.antenna # NoValue
               y == t.pc # NoValue
               z == t.epc # <<>>
               u == t.tid # <<>>
               v == t.count # NoValue
               m == Mask(t)
    <2>1. m = (IF x THEN 1 ELSE 0) + (IF y THEN 2 ELSE 0) + (IF z THEN 4 ELSE 0)
              + (IF u THEN 8 ELSE 0) + (IF v THEN 16 ELSE 0)
      BY DEF Mask
    <2>2. x \in BOOLEAN /\ y \in BOOLEAN /\ z \in BOOLEAN /\ u \in BOOLEAN /\ v \in BOOLEAN
      OBVIOUS
    <2> HIDE DEF x, y, z, u, v, m
    <2>3. /\ (m \div 1) % 2 = 1 <=> x
          /\ (m \div 2) % 2 = 1 <=> y
          /\ (m \div 4) % 2 = 1 <=> z
          /\ (m \div 8) % 2 = 1 <=> u
          /\ (m \div 16) % 2 = 1 <=> v
      <3>1. CASE x /\ y
        BY <2>1, <2>2, <3>1
      <3>2. CASE x /\ ~y
        BY <2>1, <2>2, <3>2
      <3>3. CASE ~x /\ y
        BY <2>1, <2>2, <3>3
      <3>4. CASE ~x /\ ~y
        BY <2>1, <2>2, <3>4
      <3> QED  BY <2>2, <3>1, <3>2, <3>3, <3>4
    <2>4. w[4] = m
      BY <1>1 DEF m
    <2> QED  BY <2>3, <2>4 DEF Has, x, y, z, u, v
  <1>3. /\ Len(AntennaField(t)) = IF Has(w, 1) THEN 1 ELSE 0
        /\ Len(PcField(t)) = IF Has(w, 2) THEN 2 ELSE 0
        /\ Len(EpcField(t)) = IF Has(w, 4) THEN 1 + Len(t.epc) ELSE 0
        /\ Len(TidField(t)) = IF Has(w, 8) THEN 1 + Len(t.tid) ELSE 0
        /\ Len(CountField(t)) = IF Has(w, 16) THEN 4 ELSE 0
    BY <1>2, FieldsAreBytes
  <1>4. t.epc \in Strings /\ t.tid \in Strings
    BY DEF TagRecords
  <1>5. Len(t.epc) \in Nat /\ Len(t.tid) \in Nat
    BY <1>4, StringField
  <1>6. /\ Len(CountField(t)) \in Nat /\ Len(TidField(t)) \in Nat /\ Len(EpcField(t)) \in Nat
        /\ Len(PcField(t)) \in Nat /\ Len(AntennaField(t)) \in Nat
    BY FieldsAreBytes, LenProperties
  <1>7. AntennaEnd(w) = PcAt(t)
    BY <1>3 DEF AntennaEnd, PcAt
  <1>8. PcEnd(w) = EpcAt(t)
    BY <1>3, <1>7 DEF PcEnd, EpcAt
  <1>9. EpcEnd(w) = TidAt(t)
    <2>1. CASE Has(w, 4)
      <3>1. Len(EpcField(t)) = 1 + Len(t.epc) /\ EpcField(t) = <<Len(t.epc)>> \o t.epc
        BY <1>2, <1>3, <2>1 DEF EpcField
      <3>2. w[EpcAt(t) + 1] = Len(t.epc)
        <4>1. 1 \in 1 .. Len(EpcField(t))
          BY <1>5, <3>1
        <4>2. EpcField(t)[1] = Len(t.epc)
          BY <1>4, <3>1, StringField
        <4> QED  BY <1>1, <4>1, <4>2 DEF Holds
      <3>3. EpcAt(t) + 1 <= Len(w)
        <4>1. Len(EpcField(t)) >= 1
          BY <1>5, <3>1
        <4>2. EpcAt(t) + Len(EpcField(t)) <= Len(w)
          BY <1>1, <1>6 DEF PayloadEnd, CountAt, TidAt
        <4> QED  BY <1>1, <1>6, <4>1, <4>2
      <3> QED  BY <1>8, <2>1, <3>1, <3>2, <3>3 DEF EpcEnd, TidAt, ByteAt
    <2>2. CASE ~Has(w, 4)
      BY <1>3, <1>8, <2>2 DEF EpcEnd, TidAt
    <2> QED  BY <2>1, <2>2
  <1>10. TidEnd(w) = CountAt(t)
    <2>1. CASE Has(w, 8)
      <3>1. Len(TidField(t)) = 1 + Len(t.tid) /\ TidField(t) = <<Len(t.tid)>> \o t.tid
        BY <1>2, <1>3, <2>1 DEF TidField
      <3>2. w[TidAt(t) + 1] = Len(t.tid)
        <4>1. 1 \in 1 .. Len(TidField(t))
          BY <1>5, <3>1
        <4>2. TidField(t)[1] = Len(t.tid)
          BY <1>4, <3>1, StringField
        <4> QED  BY <1>1, <4>1, <4>2 DEF Holds
      <3>3. TidAt(t) + 1 <= Len(w)
        <4>1. Len(TidField(t)) >= 1
          BY <1>5, <3>1
        <4>2. TidAt(t) + Len(TidField(t)) <= Len(w)
          BY <1>1, <1>6 DEF PayloadEnd, CountAt
        <4> QED  BY <1>1, <1>6, <4>1, <4>2
      <3> QED  BY <1>9, <2>1, <3>1, <3>2, <3>3 DEF TidEnd, CountAt, ByteAt
    <2>2. CASE ~Has(w, 8)
      BY <1>3, <1>9, <2>2 DEF TidEnd, CountAt
    <2> QED  BY <2>1, <2>2
  <1>11. CountEnd(w) = PayloadEnd(t)
    BY <1>3, <1>10 DEF CountEnd, PayloadEnd
  <1>12. Len(w) >= 5
    BY <1>1, <1>6 DEF PayloadEnd, CountAt, TidAt, EpcAt, PcAt
  <1> QED  BY <1>2, <1>7, <1>8, <1>9, <1>10, <1>11, <1>12 DEF w

\* A payload that lacks its end is malformed: the field that is cut off, or of
\* which the length is, ends behind what is left.
LEMMA CutIsMalformed ==
    ASSUME NEW w \in Seq(Byte), CountEnd(w) = Len(w), NEW n \in Nat, n < Len(w)
    PROVE  ParseTag(SubSeq(w, 1, n)) = Malformed
  <1> DEFINE v == SubSeq(w, 1, n)
  <1>1. v \in Seq(Byte) /\ Len(v) = n /\ \A k \in 1 .. n : v[k] = w[k]
    OBVIOUS
  <1> HIDE DEF v
  <1>2. CASE n < 5
    BY <1>1, <1>2 DEF ParseTag, v
  <1>3. CASE n >= 5
    <2>1. ASSUME NEW i \in Nat, i >= 1
          PROVE  /\ ByteAt(v, i) \in Nat /\ ByteAt(w, i) \in Nat
                 /\ i <= n => ByteAt(v, i) = ByteAt(w, i)
                 /\ i > n => ByteAt(v, i) = 0
      <3>1. /\ i <= n => v[i] \in Byte /\ v[i] = w[i]
            /\ i <= Len(w) => w[i] \in Byte
        BY <1>1, <2>1
      <3>2. \A b \in Byte : b \in Nat
        BY DEF Byte
      <3>3. i <= n => i <= Len(w)
        OBVIOUS
      <3> QED  BY <1>1, <3>1, <3>2, <3>3 DEF ByteAt
    <2>2. \A bit : Has(v, bit) <=> Has(w, bit)
      <3>1. v[4] = w[4]
        BY <1>1, <1>3
      <3> QED  BY <3>1 DEF Has
    <2>3. AntennaEnd(v) = AntennaEnd(w) /\ AntennaEnd(w) \in Nat
      BY <2>2 DEF AntennaEnd
    <2>4. PcEnd(v) = PcEnd(w) /\ PcEnd(w) \in Nat
      BY <2>2, <2>3 DEF PcEnd
    <2>5. EpcEnd(v) \in Nat /\ EpcEnd(w) \in Nat /\ (EpcEnd(v) = EpcEnd(w) \/ EpcEnd(v) > n)
      <3> DEFINE i == PcEnd(v) + 1
                 j == PcEnd(w) + 1
      <3>1. i \in Nat /\ i >= 1 /\ j \in Nat /\ j >= 1 /\ PcEnd(v) \in Nat /\ PcEnd(w) \in Nat
        BY <2>4
      <3>2. ByteAt(v, i) \in Nat /\ ByteAt(w, j) \in Nat
        BY <2>1, <3>1
      <3>3. CASE ~Has(v, 4)
        BY <2>2, <2>4, <3>3 DEF EpcEnd
      <3>4. CASE Has(v, 4)
        <4>1. EpcEnd(v) = i + ByteAt(v, i) /\ EpcEnd(w) = j + ByteAt(w, j)
          <5>1. Has(w, 4)
            BY <2>2, <3>4
          <5>2. EpcEnd(v) = PcEnd(v) + (1 + ByteAt(v, i))
            BY <3>4 DEF EpcEnd
          <5>3. EpcEnd(w) = PcEnd(w) + (1 + ByteAt(w, j))
            BY <5>1 DEF EpcEnd
          <5>4. \A a, b \in Nat : a + (1 + b) = (a + 1) + b
            OBVIOUS
          <5>5. PcEnd(v) + (1 + ByteAt(v, i)) = i + ByteAt(v, i)
            BY <3>1, <3>2, <5>4
          <5>6. PcEnd(w) + (1 + ByteAt(w, j)) = j + ByteAt(w, j)
            BY <3>1, <3>2, <5>4
          <5> QED  BY <5>2, <5>3, <5>5, <5>6
        <4>2. i > n \/ (i = j /\ i <= n)
          BY <2>4, <3>1
        <4>3. i <= n => ByteAt(v, i) = ByteAt(w, i)
          BY <2>1, <3>1
        <4> HIDE DEF i, j
        <4> QED  BY <3>1, <3>2, <4>1, <4>2, <4>3
      <3> QED  BY <3>3, <3>4
    <2>6. TidEnd(v) \in Nat /\ TidEnd(w) \in Nat /\ (TidEnd(v) = TidEnd(w) \/ TidEnd(v) > n)
      <3> DEFINE i == EpcEnd(v) + 1
                 j == EpcEnd(w) + 1
      <3>1. i \in Nat /\ i >= 1 /\ j \in Nat /\ j >= 1 /\ EpcEnd(v) \in Nat /\ EpcEnd(w) \in Nat
        BY <2>5
      <3>2. ByteAt(v, i) \in Nat /\ ByteAt(w, j) \in Nat
        BY <2>1, <3>1
      <3>3. CASE ~Has(v, 8)
        BY <2>2, <2>5, <3>3 DEF TidEnd
      <3>4. CASE Has(v, 8)
        <4>1. TidEnd(v) = i + ByteAt(v, i) /\ TidEnd(w) = j + ByteAt(w, j)
          <5>1. Has(w, 8)
            BY <2>2, <3>4
          <5>2. TidEnd(v) = EpcEnd(v) + (1 + ByteAt(v, i))
            BY <3>4 DEF TidEnd
          <5>3. TidEnd(w) = EpcEnd(w) + (1 + ByteAt(w, j))
            BY <5>1 DEF TidEnd
          <5>4. \A a, b \in Nat : a + (1 + b) = (a + 1) + b
            OBVIOUS
          <5>5. EpcEnd(v) + (1 + ByteAt(v, i)) = i + ByteAt(v, i)
            BY <3>1, <3>2, <5>4
          <5>6. EpcEnd(w) + (1 + ByteAt(w, j)) = j + ByteAt(w, j)
            BY <3>1, <3>2, <5>4
          <5> QED  BY <5>2, <5>3, <5>5, <5>6
        <4>2. i > n \/ (i = j /\ i <= n)
          BY <2>5, <3>1
        <4>3. i <= n => ByteAt(v, i) = ByteAt(w, i)
          BY <2>1, <3>1
        <4> HIDE DEF i, j
        <4> QED  BY <3>1, <3>2, <4>1, <4>2, <4>3
      <3> QED  BY <3>3, <3>4
    <2>7. CountEnd(v) > n
      BY <2>2, <2>6 DEF CountEnd
    <2>8. ~Taken(v, CountEnd(v))
      <3>1. CountEnd(v) \in Nat
        BY <2>6 DEF CountEnd
      <3> QED  BY <1>1, <2>7, <3>1 DEF Taken
    <2> QED  BY <2>8 DEF ParseTag, v
  <1> QED  BY <1>2, <1>3

\* Two bytes of w that are those of a number.
LEMMA WordIsRead ==
    ASSUME NEW n \in Int, NEW p \in Nat, NEW w, Holds(w, p, TwoBytes(n))
    PROVE  Unsigned2(w, p + 1) = n % 65536
  <1>1. Len(TwoBytes(n)) = 2 /\ TwoBytes(n)[1] = (n \div 256) % 256 /\ TwoBytes(n)[2] = n % 256
    BY DEF TwoBytes
  <1>2. w[p + 1] = (n \div 256) % 256 /\ w[p + 2] = n % 256
    <2>1. 1 \in 1 .. Len(TwoBytes(n)) /\ 2 \in 1 .. Len(TwoBytes(n))
      BY <1>1
    <2> QED  BY <1>1, <2>1 DEF Holds
  <1>3. p + 1 + 1 = p + 2
    OBVIOUS
  <1> QED  BY <1>2, <1>3, LowWord DEF Unsigned2

\* A short integer is read as it was written.
LEMMA SignedIsRead ==
    ASSUME NEW n \in Int16, NEW p \in Nat, NEW w, Holds(w, p, TwoBytes(n))
    PROVE  Signed2(w, p + 1) = n
  <1>1. n \in Int
    BY DEF Int16
  <1>2. Unsigned2(w, p + 1) = n % 65536
    BY <1>1, WordIsRead
  <1> QED  BY <1>2, ShortIsRead DEF Signed2

\* A long integer is read as it was written.
LEMMA CountIsRead ==
    ASSUME NEW n \in Int32, NEW p \in Nat, NEW w, Holds(w, p, FourBytes(n))
    PROVE  Signed4(w, p + 1) = n
  <1> DEFINE h == n \div 65536
             high == TwoBytes(h)
             low == TwoBytes(n)
             all == high \o low
  <1>1. h \in Int16 /\ h \in Int /\ n \in Int /\ 65536 * h + (n % 65536) = n
    BY HighWord DEF Int16
  <1>2. high \in Seq(Byte) /\ Len(high) = 2 /\ low \in Seq(Byte) /\ Len(low) = 2
    <2>1. ASSUME NEW k \in Int PROVE TwoBytes(k) \in Seq(Byte) /\ Len(TwoBytes(k)) = 2
      BY <2>1, LowWord DEF TwoBytes
    <2> QED  BY <1>1, <2>1
  <1>3. FourBytes(n) = all
    BY DEF FourBytes
  <1> HIDE DEF high, low
  <1>4. /\ Len(all) = 4
        /\ \A k \in 1 .. 2 : all[k] = high[k]
        /\ \A k \in 1 .. 2 : all[2 + k] = low[k]
    <2>1. /\ Len(all) = Len(high) + Len(low)
          /\ \A k \in 1 .. Len(high) : all[k] = high[k]
          /\ \A k \in 1 .. Len(low) : all[Len(high) + k] = low[k]
      BY <1>2, Joined
    <2> QED  BY <1>2, <2>1
  <1> HIDE DEF all
  <1>5. \A k \in 1 .. 4 : w[p + k] = all[k]
    BY <1>3, <1>4 DEF Holds
  <1>6. Holds(w, p, high) /\ Holds(w, p + 2, low)
    <2>1. ASSUME NEW k \in 1 .. 2 PROVE w[p + k] = high[k] /\ w[(p + 2) + k] = low[k]
      <3>1. k \in 1 .. 4 /\ 2 + k \in 1 .. 4 /\ (p + 2) + k = p + (2 + k)
        OBVIOUS
      <3> QED  BY <1>4, <1>5, <3>1
    <2> QED  BY <1>2, <2>1 DEF Holds
  <1>7. Signed2(w, p + 1) = h
    BY <1>1, <1>6, SignedIsRead DEF high
  <1>8. Unsigned2(w, (p + 2) + 1) = n % 65536
    <2>1. p + 2 \in Nat
      OBVIOUS
    <2> QED  BY <1>1, <1>6, <2>1, WordIsRead DEF low
  <1>9. (p + 2) + 1 = (p + 1) + 2
    OBVIOUS
  <1> QED  BY <1>1, <1>7, <1>8, <1>9 DEF Signed4

\* A string behind its length is read as it was written.
LEMMA StringIsRead ==
    ASSUME NEW s \in Strings, NEW p \in Nat, NEW w \in Seq(Byte),
           Holds(w, p, <<Len(s)>> \o s), p + 1 + Len(s) <= Len(w)
    PROVE  SubSeq(w, p + 2, p + 1 + Len(s)) = s
  <1> DEFINE field == <<Len(s)>> \o s
             read == SubSeq(w, p + 2, p + 1 + Len(s))
  <1>1. /\ s \in Seq(Byte) /\ Len(s) \in Nat
        /\ \A k \in 1 .. Len(s) : field[1 + k] = s[k]
    BY StringField
  <1>2. Len(field) = 1 + Len(s)
    <2>1. Len(s) \in Byte
      <3>1. Len(s) <= 255
        BY DEF Strings
      <3>2. \A n \in Nat : n <= 255 => n \in Byte
        BY DEF Byte
      <3> QED  BY <1>1, <3>1, <3>2
    <2>2. <<Len(s)>> \in Seq(Byte) /\ Len(<<Len(s)>>) = 1
      BY <2>1
    <2> QED  BY <1>1, <2>2, Joined
  <1>3. \A k \in 1 .. Len(field) : w[p + k] = field[k]
    BY DEF Holds
  <1> HIDE DEF field
  <1>4. /\ read \in Seq(Byte) /\ Len(read) = Len(s)
        /\ \A k \in 1 .. Len(s) : read[k] = w[(p + 1) + k]
    <2>1. p + 2 \in 1 .. Len(w) + 1 /\ p + 1 + Len(s) \in (p + 2) - 1 .. Len(w)
      BY <1>1
    <2> QED  BY <1>1, <2>1, SubSeqProperties
  <1> HIDE DEF read
  <1>5. ASSUME NEW k \in 1 .. Len(s) PROVE read[k] = s[k]
    <2>1. 1 + k \in 1 .. Len(field) /\ p + (1 + k) = (p + 1) + k
      <3>1. k \in Nat /\ 1 <= k /\ k <= Len(s) /\ Len(s) \in Nat
        BY <1>1
      <3> QED  BY <1>2, <3>1
    <2>2. w[p + (1 + k)] = field[1 + k]
      BY <1>3, <2>1
    <2> QED  BY <1>1, <1>4, <2>1, <2>2
  <1>6. read = s
    BY <1>1, <1>4, <1>5, SeqEqual
  <1> QED  BY <1>6 DEF read

\* parse_tag_data returns what the reader put in.
LEMMA TagIsRead ==
    ASSUME NEW t \in TagRecords
    PROVE  ParseTag(TagPayload(t)) = t
  <1> DEFINE w == TagPayload(t)
             read == ParseTag(w)
  <1>1. /\ w \in Seq(Byte) /\ Len(w) = PayloadEnd(t) /\ w[5] = t.protocol
        /\ Holds(w, 5, AntennaField(t)) /\ Holds(w, PcAt(t), PcField(t))
        /\ Holds(w, EpcAt(t), EpcField(t)) /\ Holds(w, TidAt(t), TidField(t))
        /\ Holds(w, CountAt(t), CountField(t))
        /\ PcAt(t) \in Nat /\ EpcAt(t) \in Nat /\ TidAt(t) \in Nat
        /\ CountAt(t) \in Nat /\ PayloadEnd(t) \in Nat
    BY PayloadIs
  <1>2. /\ Has(w, 1) <=> t.antenna # NoValue
        /\ Has(w, 2) <=> t.pc # NoValue
        /\ Has(w, 4) <=> t.epc # <<>>
        /\ Has(w, 8) <=> t.tid # <<>>
        /\ Has(w, 16) <=> t.count # NoValue
    BY EndsAre
  <1>3. /\ AntennaEnd(w) = PcAt(t) /\ PcEnd(w) = EpcAt(t) /\ EpcEnd(w) = TidAt(t)
        /\ TidEnd(w) = CountAt(t) /\ CountEnd(w) = PayloadEnd(t) /\ Len(w) >= 5
    BY EndsAre
  <1>4. /\ t.antenna \in Byte \cup {NoValue} /\ t.pc \in Int16 \cup {NoValue}
        /\ t.epc \in Strings /\ t.tid \in Strings /\ t.count \in Int32 \cup {NoValue}
    BY DEF TagRecords
  <1> HIDE DEF w
  <1>5. Len(w) \in Nat /\ ~(Len(w) < 5) /\ Taken(w, CountEnd(w))
    BY <1>1, <1>3 DEF Taken
  <1>6. read = [protocol |-> w[5],
                antenna  |-> IF Has(w, 1) THEN w[AntennaEnd(w)] ELSE NoValue,
                pc       |-> IF Has(w, 2) THEN Signed2(w, PcEnd(w) - 1) ELSE NoValue,
                epc      |-> SubSeq(w, PcEnd(w) + 2, EpcEnd(w)),
                tid      |-> SubSeq(w, EpcEnd(w) + 2, TidEnd(w)),
                count    |-> IF Has(w, 16) THEN Signed4(w, CountEnd(w) - 3) ELSE NoValue]
    BY <1>5 DEF ParseTag
  <1>7. Has(w, 1) => w[AntennaEnd(w)] = t.antenna
    <2>1. SUFFICES ASSUME t.antenna # NoValue PROVE w[PcAt(t)] = t.antenna
      BY <1>2, <1>3
    <2>2. AntennaField(t) = <<t.antenna>>
      BY <2>1 DEF AntennaField
    <2>3. PcAt(t) = 5 + 1
      BY <2>2 DEF PcAt
    <2>4. w[5 + 1] = t.antenna
      BY <1>1, <2>2 DEF Holds
    <2> QED  BY <2>3, <2>4
  <1>8. Has(w, 2) => Signed2(w, PcEnd(w) - 1) = t.pc
    <2>1. SUFFICES ASSUME t.pc # NoValue PROVE Signed2(w, EpcAt(t) - 1) = t.pc
      BY <1>2, <1>3
    <2>2. PcField(t) = TwoBytes(t.pc) /\ t.pc \in Int16
      BY <1>4, <2>1 DEF PcField
    <2>3. EpcAt(t) - 1 = PcAt(t) + 1
      <3>1. Len(PcField(t)) = 2
        BY <2>1, FieldsAreBytes
      <3> QED  BY <1>1, <3>1 DEF EpcAt
    <2>4. Signed2(w, PcAt(t) + 1) = t.pc
      BY <1>1, <2>2, SignedIsRead
    <2> QED  BY <2>3, <2>4
  <1>9. SubSeq(w, PcEnd(w) + 2, EpcEnd(w)) = t.epc
    <2>1. CASE t.epc # <<>>
      <3>1. EpcField(t) = <<Len(t.epc)>> \o t.epc
        BY <2>1 DEF EpcField
      <3>2. Len(EpcField(t)) = 1 + Len(t.epc) /\ Len(t.epc) \in Nat
        BY <1>4, <2>1, FieldsAreBytes, StringField
      <3>3. TidAt(t) = EpcAt(t) + 1 + Len(t.epc)
        BY <1>1, <3>2 DEF TidAt
      <3>4. EpcAt(t) + 1 + Len(t.epc) <= Len(w)
        <4>1. Len(TidField(t)) \in Nat /\ Len(CountField(t)) \in Nat
          BY FieldsAreBytes, LenProperties
        <4>2. TidAt(t) <= Len(w)
          BY <1>1, <4>1 DEF PayloadEnd, CountAt
        <4> QED  BY <3>3, <4>2
      <3>5. SubSeq(w, EpcAt(t) + 2, EpcAt(t) + 1 + Len(t.epc)) = t.epc
        BY <1>1, <1>4, <3>1, <3>4, StringIsRead
      <3> QED  BY <1>3, <3>3, <3>5
    <2>2. CASE t.epc = <<>>
      <3>1. TidAt(t) = EpcAt(t)
        BY <1>1, <2>2, FieldsAreBytes DEF TidAt
      <3>2. EpcAt(t) + 2 \in Int /\ EpcAt(t) \in Int /\ EpcAt(t) < EpcAt(t) + 2
        BY <1>1
      <3> QED  BY <1>3, <2>2, <3>1, <3>2, SubSeqEmpty
    <2> QED  BY <2>1, <2>2
  <1>10. SubSeq(w, EpcEnd(w) + 2, TidEnd(w)) = t.tid
    <2>1. CASE t.tid # <<>>
      <3>1. TidField(t) = <<Len(t.tid)>> \o t.tid
        BY <2>1 DEF TidField
      <3>2. Len(TidField(t)) = 1 + Len(t.tid) /\ Len(t.tid) \in Nat
        BY <1>4, <2>1, FieldsAreBytes, StringField
      <3>3. CountAt(t) = TidAt(t) + 1 + Len(t.tid)
        BY <1>1, <3>2 DEF CountAt
      <3>4. TidAt(t) + 1 + Len(t.tid) <= Len(w)
        <4>1. Len(CountField(t)) \in Nat
          BY FieldsAreBytes, LenProperties
        <4>2. CountAt(t) <= Len(w)
          BY <1>1, <4>1 DEF PayloadEnd
        <4> QED  BY <3>3, <4>2
      <3>5. SubSeq(w, TidAt(t) + 2, TidAt(t) + 1 + Len(t.tid)) = t.tid
        BY <1>1, <1>4, <3>1, <3>4, StringIsRead
      <3> QED  BY <1>3, <3>3, <3>5
    <2>2. CASE t.tid = <<>>
      <3>1. CountAt(t) = TidAt(t)
        BY <1>1, <2>2, FieldsAreBytes DEF CountAt
      <3>2. TidAt(t) + 2 \in Int /\ TidAt(t) \in Int /\ TidAt(t) < TidAt(t) + 2
        BY <1>1
      <3> QED  BY <1>3, <2>2, <3>1, <3>2, SubSeqEmpty
    <2> QED  BY <2>1, <2>2
  <1>11. Has(w, 16) => Signed4(w, CountEnd(w) - 3) = t.count
    <2>1. SUFFICES ASSUME t.count # NoValue PROVE Signed4(w, PayloadEnd(t) - 3) = t.count
      BY <1>2, <1>3
    <2>2. CountField(t) = FourBytes(t.count) /\ t.count \in Int32
      BY <1>4, <2>1 DEF CountField
    <2>3. PayloadEnd(t) - 3 = CountAt(t) + 1
      <3>1. Len(CountField(t)) = 4
        BY <2>1, FieldsAreBytes
      <3> QED  BY <1>1, <3>1 DEF PayloadEnd
    <2>4. Signed4(w, CountAt(t) + 1) = t.count
      BY <1>1, <2>2, CountIsRead
    <2> QED  BY <2>3, <2>4
  <1>12. /\ w[5] = t.protocol
         /\ (IF Has(w, 1) THEN w[AntennaEnd(w)] ELSE NoValue) = t.antenna
         /\ (IF Has(w, 2) THEN Signed2(w, PcEnd(w) - 1) ELSE NoValue) = t.pc
         /\ (IF Has(w, 16) THEN Signed4(w, CountEnd(w) - 3) ELSE NoValue) = t.count
    BY <1>1, <1>2, <1>7, <1>8, <1>11
  <1>13. read = [protocol |-> t.protocol, antenna |-> t.antenna, pc |-> t.pc,
                 epc |-> t.epc, tid |-> t.tid, count |-> t.count]
    BY <1>6, <1>9, <1>10, <1>12
  <1>14. t = [protocol |-> t.protocol, antenna |-> t.antenna, pc |-> t.pc,
              epc |-> t.epc, tid |-> t.tid, count |-> t.count]
    BY DEF TagRecords
  <1> HIDE DEF read
  <1>15. read = t
    BY <1>13, <1>14
  <1> QED  BY <1>15 DEF read, w

\* A report fits in the length field.
LEMMA PayloadFits ==
    ASSUME NEW t \in TagRecords, NEW n \in Nat, n <= Len(TagPayload(t))
    PROVE  MinFrameLength + n \in Word
  <1>1. Len(TagPayload(t)) = PayloadEnd(t)
    BY PayloadIs
  <1>2. /\ Len(t.epc) \in Nat /\ Len(t.tid) \in Nat /\ Len(t.epc) <= 255 /\ Len(t.tid) <= 255
    <2>1. t.epc \in Strings /\ t.tid \in Strings
      BY DEF TagRecords
    <2> QED  BY <2>1, StringField DEF Strings
  <1> DEFINE a == Len(AntennaField(t))
             b == Len(PcField(t))
             c == Len(EpcField(t))
             d == Len(TidField(t))
             e == Len(CountField(t))
  <1>3. a \in Nat /\ b \in Nat /\ c \in Nat /\ d \in Nat /\ e \in Nat
    BY FieldsAreBytes, LenProperties
  <1>4. a <= 1 /\ b <= 2 /\ e <= 4
    <2>1. a = (IF t.antenna # NoValue THEN 1 ELSE 0)
      BY FieldsAreBytes
    <2>2. b = (IF t.pc # NoValue THEN 2 ELSE 0)
      BY FieldsAreBytes
    <2>3. e = (IF t.count # NoValue THEN 4 ELSE 0)
      BY FieldsAreBytes
    <2> HIDE DEF a, b, e
    <2> QED  BY <2>1, <2>2, <2>3
  <1>5. c <= 256
    BY <1>2, FieldsAreBytes
  <1>6. d <= 256
    BY <1>2, FieldsAreBytes
  <1>7. PayloadEnd(t) = 5 + a + b + c + d + e
    BY <1>3 DEF PayloadEnd, CountAt, TidAt, EpcAt, PcAt
  <1> HIDE DEF a, b, c, d, e
  <1>8. 9 + n \in Nat /\ 9 + n <= 533
    BY <1>1, <1>3, <1>4, <1>5, <1>6, <1>7
  <1>9. ASSUME NEW k \in Nat, k <= 533 PROVE k \in Word
    <2>1. k \div 256 \in Byte /\ k % 256 \in Byte /\ 256 * (k \div 256) + (k % 256) = k
      BY <1>9 DEF Byte
    <2> QED  BY <2>1, WordOfBytes
  <1> QED  BY <1>8, <1>9 DEF MinFrameLength

-----------------------------------------------------------------------------
(* The line.                                                               *)

\* Before anything is damaged the report is on the wire; what is damaged is
\* detected.
LineInv ==
    /\ tag \in TagsSent
    /\ damage = "none" => onWire = ReportFrame(TagPayload(tag))
    /\ DamageDetected

\* The report of a tag.
LEMMA ReportIs ==
    ASSUME NEW t \in TagsSent
    PROVE  /\ t \in TagRecords
           /\ TagPayload(t) \in Seq(Byte)
           /\ MinFrameLength + Len(TagPayload(t)) \in Word
           /\ ReportFrame(TagPayload(t)) \in Seq(Byte)
           /\ Parses(ReportFrame(TagPayload(t)))
           /\ ParseFrame(ReportFrame(TagPayload(t))).payload = TagPayload(t)
  <1>1. t \in TagRecords
    BY LineAssumption
  <1>2. TagPayload(t) \in Seq(Byte)
    BY <1>1, PayloadIs
  <1>3. Len(TagPayload(t)) \in Nat /\ Len(TagPayload(t)) <= Len(TagPayload(t))
    BY <1>2, LenProperties
  <1>4. MinFrameLength + Len(TagPayload(t)) \in Word
    BY <1>1, <1>3, PayloadFits
  <1> QED  BY <1>1, <1>2, <1>4, FrameIsParsed

\* LineInv holds at first and is kept.
LEMMA LineInvHolds == LineSpec => []LineInv
  <1>1. LineInit => LineInv
    BY DEF LineInit, LineInv, DamageDetected
  <1>2. ASSUME LineInv, [LineNext]_lineVars PROVE LineInv'
    <2>1. CASE UNCHANGED lineVars
      BY <1>2, <2>1 DEF LineInv, DamageDetected, lineVars
    <2>2. ASSUME NEW i \in 1 .. Len(onWire), NEW pattern \in Patterns, Burst(i, pattern)
          PROVE  LineInv'
      <3>1. onWire \in Seq(Byte) /\ Parses(onWire)
        BY <1>2, <2>2, ReportIs DEF LineInv, Burst
      <3>2. pattern[1] \in Byte /\ pattern[2] \in Byte /\ ~(pattern[1] = 0 /\ pattern[2] = 0)
        <4>1. pattern \in Byte \X Byte /\ pattern # <<0, 0>>
          BY LineAssumption
        <4> QED  BY <4>1
      <3>3. i \in 1 .. Len(onWire) - 1
        BY <2>2, <3>1 DEF Burst
      <3>4. ~Parses(onWire')
        BY <2>2, <3>1, <3>2, <3>3, BurstNotParsed DEF Burst
      <3> QED  BY <1>2, <2>2, <3>4 DEF LineInv, DamageDetected, Burst
    <2>3. ASSUME NEW i \in 1 .. Len(onWire), CutFrame(i - 1)
          PROVE  LineInv'
      <3>1. onWire \in Seq(Byte) /\ Parses(onWire)
        BY <1>2, <2>3, ReportIs DEF LineInv, CutFrame
      <3>2. i - 1 \in 0 .. Len(onWire) - 1
        BY <3>1
      <3>3. ~Parses(onWire')
        BY <2>3, <3>1, <3>2, CutNotParsed DEF CutFrame
      <3> QED  BY <1>2, <2>3, <3>3 DEF LineInv, DamageDetected, CutFrame
    <2>4. ASSUME NEW i \in 1 .. Len(onWire), CutPayload(i - 1)
          PROVE  LineInv'
      <3> DEFINE w == TagPayload(tag)
                 v == SubSeq(w, 1, i - 1)
      <3>1. tag \in TagsSent /\ tag \in TagRecords /\ w \in Seq(Byte)
        BY <1>2, ReportIs DEF LineInv
      <3>2. i - 1 \in Nat /\ i - 1 < Len(w) /\ Len(w) \in Nat
        BY <2>4, <3>1, LenProperties DEF CutPayload
      <3>3. v \in Seq(Byte) /\ Len(v) = i - 1
        BY <3>1, <3>2
      <3>4. MinFrameLength + Len(v) \in Word
        BY <3>1, <3>2, <3>3, PayloadFits
      <3>5. onWire' = ReportFrame(v) /\ damage' = "payload" /\ tag' = tag
        BY <2>4 DEF CutPayload
      <3>6. CountEnd(w) = Len(w)
        BY <3>1, EndsAre, PayloadIs
      <3>7. ParseTag(v) = Malformed
        BY <3>1, <3>2, <3>6, CutIsMalformed
      <3> HIDE DEF v
      <3>8. ParseFrame(onWire').payload = v
        BY <3>3, <3>4, <3>5, FrameIsParsed
      <3> QED  BY <3>1, <3>5, <3>7, <3>8 DEF LineInv, DamageDetected
    <2> QED  BY <1>2, <2>1, <2>2, <2>3, <2>4 DEF LineNext
  <1> QED  BY <1>1, <1>2, PTL DEF LineSpec

\* Whatever a reader reports of a tag, every field absent, empty, negative or
\* full, is what parse_frame and parse_tag_data return.
THEOREM TagsArrive == LineSpec => []TagArrives
  <1>1. ASSUME LineInv PROVE TagArrives
    <2>1. SUFFICES ASSUME damage = "none"
                   PROVE  Parses(onWire) /\ ParseTag(ParseFrame(onWire).payload) = tag
      BY DEF TagArrives
    <2>2. tag \in TagsSent /\ onWire = ReportFrame(TagPayload(tag))
      BY <1>1, <2>1 DEF LineInv
    <2> QED  BY <2>2, ReportIs, TagIsRead
  <1> QED  BY <1>1, LineInvHolds, PTL

\* The CRC, the length and the mask tell every disturbance of two neighbouring
\* bytes, every cut frame and every cut payload, of whatever length.
THEOREM DamageIsDetected == LineSpec => []DamageDetected
  <1>1. LineInv => DamageDetected
    BY DEF LineInv
  <1> QED  BY <1>1, LineInvHolds, PTL

-----------------------------------------------------------------------------
(* Reports through the decoder: FrameDecoder with parse_frame.             *)

\* s is the reports of the tags ts, one behind the other; end[i] bytes are those
\* of the first i.
Reports(s, ts, end) ==
    /\ ts \in Seq(TagsSent)
    /\ end \in [0 .. Len(ts) -> Nat]
    /\ end[0] = 0
    /\ end[Len(ts)] = Len(s)
    /\ \A i \in 1 .. Len(ts) :
           /\ end[i - 1] < end[i]
           /\ SubSeq(s, end[i - 1] + 1, end[i]) = ReportFrame(TagPayload(ts[i]))

\* Where the report of the i-th tag is.
ReportAt(end, i) == [first |-> end[i - 1] + 1, last |-> end[i]]

\* Between two calls of feed the frames returned are the reports that have
\* arrived as a whole, and each is parsed to its tag.
ReportsReceived ==
    ~scanning => \A ts, end : Reports(stream, ts, end) =>
        /\ frames = {ReportAt(end, i) : i \in {k \in 1 .. Len(ts) : end[k] <= fed}}
        /\ \A i \in 1 .. Len(ts) : ParseTag(ParseFrame(Candidate(end[i - 1] + 1)).payload) = ts[i]

\* The decoder takes what parse_frame accepts.
ParseFrameAccepts == \A candidate : Accepts(candidate) <=> Parses(candidate)

\* The ends of the reports grow and stay within the stream.
LEMMA EndsGrow ==
    ASSUME stream \in Seq(Byte), NEW ts, NEW end, Reports(stream, ts, end)
    PROVE  /\ Len(ts) \in Nat
           /\ \A i, j \in 0 .. Len(ts) : i <= j => end[i] <= end[j]
  <1> DEFINE T(i) == {j \in i .. Len(ts) : ~(end[i] <= end[j])}
  <1>1. Len(ts) \in Nat /\ end \in [0 .. Len(ts) -> Nat]
    BY LenProperties DEF Reports
  <1>2. ASSUME NEW i \in 0 .. Len(ts), T(i) # {} PROVE FALSE
    <2>1. T(i) \in SUBSET Nat
      BY <1>1
    <2>2. PICK j \in T(i) : \A y \in T(i) : j <= y
      <3> HIDE DEF T
      <3> QED  BY <1>2, <2>1, Least
    <2>3. j \in Nat /\ i <= j /\ j <= Len(ts) /\ ~(end[i] <= end[j])
      BY <1>1, <2>2
    <2>4. end[i] \in Nat /\ end[j] \in Nat
      BY <1>1, <2>3
    <2>5. j # i
      BY <2>3, <2>4
    <2>6. j - 1 \in i .. Len(ts) /\ j \in 1 .. Len(ts) /\ j - 1 \in 0 .. Len(ts) /\ ~(j <= j - 1)
      BY <1>1, <2>3, <2>5
    <2>7. end[i] <= end[j - 1]
      BY <2>2, <2>6
    <2>8. end[j - 1] < end[j] /\ end[j - 1] \in Nat
      BY <1>1, <2>6 DEF Reports
    <2> QED  BY <2>3, <2>4, <2>7, <2>8
  <1> QED  BY <1>1, <1>2

\* What is in the stream where a report is.
LEMMA ReportInStream ==
    ASSUME stream \in Seq(Byte), NEW ts, NEW end, Reports(stream, ts, end), NEW i \in 1 .. Len(ts)
    PROVE  LET p == end[i - 1] + 1 IN
           /\ p \in Nat /\ p >= 1 /\ end[i] \in Nat /\ end[i] <= Len(stream)
           /\ end[i] >= p + 8
           /\ IsSOF(p)
           /\ LengthValid(p)
           /\ LastOf(p) = end[i]
           /\ Candidate(p) = ReportFrame(TagPayload(ts[i]))
  <1> DEFINE p == end[i - 1] + 1
             raw == ReportFrame(TagPayload(ts[i]))
  <1>1. Len(ts) \in Nat /\ end \in [0 .. Len(ts) -> Nat] /\ ts[i] \in TagsSent
    BY LenProperties, ElementOfSeq DEF Reports
  <1>2. i \in 0 .. Len(ts) /\ i - 1 \in 0 .. Len(ts) /\ Len(ts) \in 0 .. Len(ts) /\ i <= Len(ts)
    BY <1>1
  <1>3. end[i] \in Nat /\ end[i - 1] \in Nat
    BY <1>1, <1>2
  <1>4. end[i] <= Len(stream)
    BY <1>2, EndsGrow DEF Reports
  <1>5. end[i - 1] < end[i] /\ SubSeq(stream, p, end[i]) = raw
    BY DEF Reports
  <1>6. raw \in Seq(Byte) /\ Parses(raw)
    BY <1>1, ReportIs
  <1> HIDE DEF raw
  <1>7. p \in Nat /\ p >= 1 /\ p <= end[i]
    BY <1>3, <1>5
  <1> HIDE DEF p
  <1>8. Len(raw) = end[i] - p + 1 /\ \A k \in 1 .. end[i] - p + 1 : raw[k] = stream[p + k - 1]
    <2>1. \A k \in p .. end[i] : stream[k] \in Byte
      BY <1>3, <1>4, <1>7, ElementOfSeq
    <2>2. p \in Int /\ end[i] \in Int
      BY <1>3, <1>7
    <2>3. /\ Len(SubSeq(stream, p, end[i])) = IF p <= end[i] THEN end[i] - p + 1 ELSE 0
          /\ \A k \in 1 .. end[i] - p + 1 : SubSeq(stream, p, end[i])[k] = stream[p + k - 1]
      BY <2>1, <2>2, SubSeqProperties
    <2> QED  BY <1>5, <1>7, <2>3
  <1>9. end[i] - p + 1 >= 9
    BY <1>6, <1>8 DEF Parses, MinFrameLength
  <1>10. raw[1] = stream[p] /\ raw[2] = stream[p + 1] /\ raw[3] = stream[p + 2]
    <2>1. 1 \in 1 .. end[i] - p + 1 /\ 2 \in 1 .. end[i] - p + 1 /\ 3 \in 1 .. end[i] - p + 1
      BY <1>3, <1>7, <1>9
    <2>2. p + 1 - 1 = p /\ p + 2 - 1 = p + 1 /\ p + 3 - 1 = p + 2
      BY <1>7
    <2> QED  BY <1>8, <2>1, <2>2
  <1>11. IsSOF(p)
    BY <1>6, <1>10 DEF IsSOF, Parses
  <1>12. DeclaredLength(p) = end[i] - p + 1
    <2>1. LengthField(raw) = end[i] - p + 1
      BY <1>6, <1>8 DEF Parses
    <2>2. LengthField(raw) = 256 * raw[2] + raw[3]
      BY DEF LengthField, Unsigned2
    <2> QED  BY <1>10, <2>1, <2>2 DEF DeclaredLength
  <1>13. LastOf(p) = end[i]
    BY <1>3, <1>7, <1>12 DEF LastOf
  <1>14. LengthValid(p)
    BY <1>9, <1>12 DEF LengthValid, MinFrameLength
  <1>15. Candidate(p) = raw
    BY <1>5, <1>13 DEF Candidate
  <1>16. end[i] >= p + 8
    BY <1>3, <1>7, <1>9
  <1> QED  BY <1>3, <1>4, <1>7, <1>11, <1>13, <1>14, <1>15, <1>16 DEF p, raw

\* From the end of a report on, the frames of the first n bytes are the reports
\* behind it that end there.
LEMMA ReportsFrom ==
    ASSUME ParseFrameAccepts, stream \in Seq(Byte), NEW n \in 0 .. Len(stream),
           NEW ts, NEW end, Reports(stream, ts, end)
    PROVE  \A i \in 0 .. Len(ts) :
               FramesFrom(n)[end[i] + 1] =
                   {ReportAt(end, j) : j \in {k \in i + 1 .. Len(ts) : end[k] <= n}}
  <1> DEFINE Behind(i) == {ReportAt(end, j) : j \in {k \in i + 1 .. Len(ts) : end[k] <= n}}
             Right(i) == FramesFrom(n)[end[i] + 1] = Behind(i)
             T == {m \in 0 .. Len(ts) : ~Right(Len(ts) - m)}
  <1>1. /\ Len(ts) \in Nat
        /\ end \in [0 .. Len(ts) -> Nat]
        /\ \A i, j \in 0 .. Len(ts) : i <= j => end[i] <= end[j]
    BY EndsGrow DEF Reports
  <1>2. end[Len(ts)] = Len(stream) /\ Len(stream) \in Nat /\ n \in Nat /\ n <= Len(stream)
    BY LenProperties DEF Reports
  <1>3. ASSUME NEW i \in 0 .. Len(ts) PROVE end[i] + 1 \in 1 .. Len(stream) + 1
    <2>1. i <= Len(ts) /\ Len(ts) \in 0 .. Len(ts)
      BY <1>1
    <2>2. end[i] <= Len(stream) /\ end[i] \in Nat
      BY <1>1, <1>2, <2>1
    <2> QED  BY <1>2, <2>2
  <1>4. ASSUME NEW i \in 0 .. Len(ts), end[i] >= n PROVE Right(i)
    <2>1. FramesFrom(n)[end[i] + 1] = {}
      <3>1. end[i] + 1 > n
        BY <1>1, <1>2, <1>4
      <3> QED  BY <1>3, <3>1, FramesFromIs DEF From
    <2>2. ASSUME NEW k \in i + 1 .. Len(ts) PROVE ~(end[k] <= n)
      <3>1. k \in 1 .. Len(ts) /\ k - 1 \in 0 .. Len(ts) /\ i <= k - 1 /\ k \in 0 .. Len(ts)
        BY <1>1
      <3>2. end[i] <= end[k - 1] /\ end[k - 1] < end[k]
        BY <1>1, <3>1 DEF Reports
      <3>3. end[i] \in Nat /\ end[k - 1] \in Nat /\ end[k] \in Nat
        BY <1>1, <3>1
      <3> QED  BY <1>2, <1>4, <3>2, <3>3
    <2> QED  BY <2>1, <2>2
  <1>5. ASSUME NEW i \in 1 .. Len(ts), Right(i) PROVE Right(i - 1)
    <2> DEFINE p == end[i - 1] + 1
    <2>1. i \in 0 .. Len(ts) /\ i - 1 \in 0 .. Len(ts) /\ (i - 1) + 1 = i /\ i <= Len(ts)
      BY <1>1
    <2>2. CASE end[i - 1] >= n
      BY <1>4, <2>1, <2>2
    <2>3. CASE end[i - 1] < n
      <3>1. /\ p \in Nat /\ p >= 1 /\ end[i] \in Nat /\ end[i] >= p + 8
            /\ IsSOF(p) /\ LengthValid(p) /\ LastOf(p) = end[i]
            /\ Candidate(p) = ReportFrame(TagPayload(ts[i]))
        BY ReportInStream
      <3>2. Accepts(Candidate(p))
        <4>1. ts[i] \in TagsSent
          BY ElementOfSeq DEF Reports
        <4>2. Parses(Candidate(p))
          BY <3>1, <4>1, ReportIs
        <4> QED  BY <4>2 DEF ParseFrameAccepts
      <3>3. p \in 1 .. Len(stream) + 1 /\ ~(p > n) /\ LastOf(p) + 1 = end[i] + 1
        <4>1. p \in 1 .. Len(stream) + 1
          BY <1>3, <2>1
        <4>2. end[i - 1] \in Nat
          BY <1>1, <2>1
        <4>3. ~(p > n)
          BY <1>2, <2>3, <4>2
        <4> QED  BY <3>1, <4>1, <4>3
      <3>4. FramesFrom(n)[p] = From(n, p, FramesFrom(n))
        BY <3>3, FramesFromIs
      <3>5. CASE end[i] > n
        <4>1. FramesFrom(n)[p] = {}
          BY <3>1, <3>3, <3>4, <3>5 DEF From
        <4>2. ASSUME NEW k \in i .. Len(ts) PROVE ~(end[k] <= n)
          <5>1. k \in 0 .. Len(ts) /\ i <= k
            BY <1>1
          <5>2. end[i] <= end[k] /\ end[k] \in Nat
            BY <1>1, <2>1, <5>1
          <5> QED  BY <1>2, <3>1, <3>5, <5>2
        <4> QED  BY <2>1, <4>1, <4>2
      <3>6. CASE end[i] <= n
        <4>1. ~(p + 2 > n) /\ ~(LastOf(p) > n)
          BY <1>2, <3>1, <3>6
        <4>2. FramesFrom(n)[p] = {[first |-> p, last |-> end[i]]} \cup FramesFrom(n)[end[i] + 1]
          BY <3>1, <3>2, <3>3, <3>4, <4>1 DEF From
        <4>3. FramesFrom(n)[p] = {ReportAt(end, i)} \cup Behind(i)
          BY <1>5, <4>2 DEF ReportAt
        <4>4. {k \in i .. Len(ts) : end[k] <= n} = {i} \cup {k \in i + 1 .. Len(ts) : end[k] <= n}
          BY <1>1, <2>1, <3>6
        <4>5. Behind(i - 1) = {ReportAt(end, i)} \cup Behind(i)
          BY <2>1, <4>4
        <4> QED  BY <4>3, <4>5
      <3> QED  BY <1>2, <3>1, <3>5, <3>6
    <2> QED  BY <1>1, <1>2, <2>1, <2>2, <2>3
  <1>6. Right(Len(ts))
    <2>1. Len(ts) \in 0 .. Len(ts)
      BY <1>1
    <2> QED  BY <1>2, <1>4, <2>1
  <1> HIDE DEF Right
  <1>7. T = {}
    <2>1. SUFFICES ASSUME T # {} PROVE FALSE
      OBVIOUS
    <2>2. T \in SUBSET Nat
      BY <1>1
    <2>3. PICK m \in T : \A y \in T : m <= y
      <3> HIDE DEF T
      <3> QED  BY <2>1, <2>2, Least
    <2>4. m # 0
      BY <1>1, <1>6, <2>3
    <2>5. m - 1 \in 0 .. Len(ts) /\ ~(m <= m - 1) /\ Len(ts) - (m - 1) \in 1 .. Len(ts)
          /\ (Len(ts) - (m - 1)) - 1 = Len(ts) - m
      BY <1>1, <2>3, <2>4
    <2>6. Right(Len(ts) - (m - 1))
      BY <2>3, <2>5
    <2>7. Right(Len(ts) - m)
      BY <1>5, <2>5, <2>6
    <2> QED  BY <2>3, <2>7
  <1>8. ASSUME NEW i \in 0 .. Len(ts) PROVE Right(i)
    <2>1. Len(ts) - i \in 0 .. Len(ts) /\ Len(ts) - (Len(ts) - i) = i
      BY <1>1
    <2> QED  BY <1>7, <2>1
  <1> QED  BY <1>8 DEF Right

\* Of a stream of reports the decoder returns each as soon as it is complete, and
\* nothing else, however the stream is cut into chunks; and parse_tag_data
\* returns what the reader knew of the tags.
THEOREM ReportsArrive == ASSUME ParseFrameAccepts PROVE Spec => []ReportsReceived
  <1>1. ASSUME IInv, ChunksDoNotMatter PROVE ReportsReceived
    <2>1. stream \in Seq(Byte) /\ fed \in 0 .. Len(stream)
      BY <1>1 DEF IInv, TypeOK
    <2>2. SUFFICES ASSUME ~scanning, NEW ts, NEW end, Reports(stream, ts, end)
                   PROVE  /\ frames = {ReportAt(end, i) : i \in {k \in 1 .. Len(ts) : end[k] <= fed}}
                          /\ \A i \in 1 .. Len(ts) :
                                 ParseTag(ParseFrame(Candidate(end[i - 1] + 1)).payload) = ts[i]
      BY DEF ReportsReceived
    <2>3. frames = FramesFrom(fed)[1]
      BY <1>1, <2>2 DEF ChunksDoNotMatter, Split
    <2>4. 0 \in 0 .. Len(ts) /\ end[0] + 1 = 1 /\ 0 + 1 = 1
      BY <2>2, LenProperties DEF Reports
    <2>5. FramesFrom(fed)[end[0] + 1] =
              {ReportAt(end, i) : i \in {k \in 0 + 1 .. Len(ts) : end[k] <= fed}}
      BY <2>1, <2>2, <2>4, ReportsFrom
    <2>6. ASSUME NEW i \in 1 .. Len(ts)
          PROVE  ParseTag(ParseFrame(Candidate(end[i - 1] + 1)).payload) = ts[i]
      <3>1. Candidate(end[i - 1] + 1) = ReportFrame(TagPayload(ts[i]))
        BY <2>1, <2>2, ReportInStream
      <3>2. ts[i] \in TagsSent
        BY <2>2, ElementOfSeq DEF Reports
      <3> QED  BY <3>1, <3>2, ReportIs, TagIsRead
    <2> QED  BY <2>3, <2>4, <2>5, <2>6
  <1> QED  BY <1>1, Invariance, ChunkingIrrelevant, PTL

=============================================================================
