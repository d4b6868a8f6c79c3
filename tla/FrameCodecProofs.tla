-------------------------- MODULE FrameCodecProofs --------------------------
(***************************************************************************)
(* The decoder of FrameCodec never loses the frame boundaries, for any     *)
(* messages, any length of the flag and any base of the length field.      *)
(***************************************************************************)
EXTENDS FrameCodec, SequenceTheorems, WellFoundedInduction, TLAPS

-----------------------------------------------------------------------------
(* Induction                                                               *)

\* Induction over the naturals, for a set instead of a predicate.
LEMMA SetInduction ==
    ASSUME NEW T \in SUBSET Nat, 0 \in T, \A n \in T : n + 1 \in T
    PROVE  T = Nat
<1>. DEFINE R == {s \in Nat \X Nat : s[1] < s[2]}
<1>1. IsWellFoundedOn(R, Nat)
    BY NatLessThanWellFounded DEF OpToRel
<1>2. \A m, n \in Nat : m < n => <<m, n>> \in R
    OBVIOUS
<1>. HIDE DEF R
<1>. SUFFICES ASSUME Nat \ T # {} PROVE FALSE
    OBVIOUS
<1>3. PICK x \in Nat \ T : \A y \in Nat \ T : ~(<<y, x>> \in R)
    BY <1>1, WFMin
<1>4. x # 0 /\ x - 1 \in Nat /\ x - 1 < x
    BY <1>3
<1>5. x - 1 \in T
    BY <1>2, <1>3, <1>4
<1>. QED  BY <1>3, <1>5

-----------------------------------------------------------------------------
(* Where the frames are in the stream                                      *)

FrameLength(m) == HEADER_LENGTH + BodyLength[m]

\* A header is longer than what encode writes before it can fail, and no body is
\* empty.
LEMMA Lengths ==
    /\ HEADER_LENGTH \in Nat /\ HEADER_LENGTH > FlagLen + 1 /\ FlagLen \in Nat /\ FlagLen > 0
    /\ Len(BodyLength) \in Nat
    /\ \A m \in Messages : BodyLength[m] \in Nat /\ BodyLength[m] > 0
<1>1. FlagLen \in Nat /\ FlagLen > 0 /\ BodyLength \in Seq(1..(LenBase * LenBase - 1)) /\ LenBase \in Nat
    BY FlagLenAssumption, BodyLengthAssumption
<1>2. \A m \in 1..Len(BodyLength) : BodyLength[m] \in 1..(LenBase * LenBase - 1)
    BY <1>1, ElementOfSeq
<1>. DEFINE k == LenBase * LenBase - 1
<1>3. k \in Int
    BY <1>1
<1>. HIDE DEF k
<1>4. \A m \in Messages : BodyLength[m] \in Nat /\ BodyLength[m] > 0
    BY <1>2, <1>3 DEF Messages, k
<1>. QED  BY <1>1, <1>4, LenProperties DEF HEADER_LENGTH

\* FramesEnd is well defined.
LEMMA FramesEndDef ==
    FramesEnd = [n \in 0..Len(BodyLength) |->
                    IF n = 0 THEN 0 ELSE FramesEnd[n - 1] + HEADER_LENGTH + BodyLength[n]]
<1>. DEFINE P(f, k) == f = [n \in 0..k |-> IF n = 0 THEN 0 ELSE f[n - 1] + HEADER_LENGTH + BodyLength[n]]
            T == {k \in Nat : \E f : P(f, k)}
<1>1. 0 \in T
  <2>. DEFINE f == [n \in 0..0 |-> 0]
  <2>1. P(f, 0)
      OBVIOUS
  <2>. QED  BY <2>1
<1>2. ASSUME NEW k \in T PROVE k + 1 \in T
  <2>1. PICK f : P(f, k)
      OBVIOUS
  <2>. DEFINE g == [n \in 0..(k + 1) |->
                      IF n = k + 1 THEN f[k] + HEADER_LENGTH + BodyLength[k + 1] ELSE f[n]]
  <2>2. \A n \in 0..k : g[n] = f[n]
      BY <1>2
  <2>3. \A n \in 0..k : f[n] = IF n = 0 THEN 0 ELSE f[n - 1] + HEADER_LENGTH + BodyLength[n]
      BY <2>1
  <2>4. ASSUME NEW n \in 0..(k + 1)
        PROVE  g[n] = IF n = 0 THEN 0 ELSE g[n - 1] + HEADER_LENGTH + BodyLength[n]
    <3>1. CASE n = k + 1
      <4>1. n # 0 /\ n - 1 = k /\ k \in 0..k
          BY <1>2, <3>1
      <4>2. g[n] = f[k] + HEADER_LENGTH + BodyLength[n]
          BY <3>1
      <4>3. g[n - 1] = f[k]
          BY <2>2, <4>1
      <4>. QED  BY <4>1, <4>2, <4>3
    <3>2. CASE n # k + 1
      <4>1. n \in 0..k /\ (n # 0 => n - 1 \in 0..k)
          BY <1>2, <3>2
      <4>. QED  BY <2>2, <2>3, <4>1
    <3>. QED  BY <3>1, <3>2
  <2>5. P(g, k + 1)
      BY <2>4
  <2>. HIDE DEF g, P
  <2>. QED  BY <1>2, <2>5
<1>. HIDE DEF P
<1>3. T = Nat
    BY <1>1, <1>2, SetInduction
<1>4. \E f : P(f, Len(BodyLength))
    BY <1>3, Lengths
<1>. QED  BY <1>4 DEF FramesEnd, P

\* FramesEnd adds the frames up.
LEMMA FramesEndFacts ==
    /\ FramesEnd[0] = 0
    /\ \A m \in Messages : m - 1 \in 0..Len(BodyLength) /\ m \in 0..Len(BodyLength)
                           /\ FramesEnd[m] = FramesEnd[m - 1] + FrameLength(m)
    /\ \A n \in 0..Len(BodyLength) : FramesEnd[n] \in Nat
<1>0. Len(BodyLength) \in Nat
    BY Lengths
<1>1. FramesEnd[0] = 0
    BY <1>0, FramesEndDef
<1>2. ASSUME NEW m \in Messages
      PROVE  /\ m - 1 \in 0..Len(BodyLength) /\ m \in 0..Len(BodyLength)
             /\ FramesEnd[m] = FramesEnd[m - 1] + HEADER_LENGTH + BodyLength[m]
  <2>1. m - 1 \in 0..Len(BodyLength) /\ m \in 0..Len(BodyLength) /\ m # 0
      BY <1>0 DEF Messages
  <2>. QED  BY <2>1, FramesEndDef
<1>. DEFINE T == {n \in Nat : n \in 0..Len(BodyLength) => FramesEnd[n] \in Nat}
<1>3. 0 \in T
    BY <1>1
<1>4. ASSUME NEW n \in T PROVE n + 1 \in T
  <2>. SUFFICES ASSUME n + 1 \in 0..Len(BodyLength) PROVE FramesEnd[n + 1] \in Nat
      OBVIOUS
  <2>1. n + 1 \in Messages /\ n \in 0..Len(BodyLength) /\ n + 1 - 1 = n
      BY <1>0 DEF Messages
  <2>2. FramesEnd[n] \in Nat /\ HEADER_LENGTH \in Nat /\ BodyLength[n + 1] \in Nat
      BY <2>1, Lengths
  <2>. QED  BY <1>2, <2>1, <2>2
<1>. HIDE DEF T
<1>5. T = Nat
    BY <1>3, <1>4, SetInduction DEF T
<1>6. \A n \in 0..Len(BodyLength) : FramesEnd[n] \in Nat
    BY <1>5 DEF T
<1>7. \A m \in Messages : FramesEnd[m] = FramesEnd[m - 1] + FrameLength(m)
  <2>. TAKE m \in Messages
  <2>1. /\ FramesEnd[m] = FramesEnd[m - 1] + HEADER_LENGTH + BodyLength[m]
        /\ FramesEnd[m - 1] \in Nat /\ HEADER_LENGTH \in Nat /\ BodyLength[m] \in Nat
      BY <1>2, <1>6, Lengths
  <2>. QED  BY <2>1 DEF FrameLength
<1>. QED  BY <1>1, <1>2, <1>6, <1>7

\* Behind frame n there is a whole frame for every later message.
LEMMA FramesApart ==
    ASSUME NEW n \in 0..Len(BodyLength), NEW k \in 0..Len(BodyLength), n < k
    PROVE  /\ n + 1 \in Messages /\ n + 1 \in 0..Len(BodyLength)
           /\ FramesEnd[n + 1] = FramesEnd[n] + FrameLength(n + 1)
           /\ FramesEnd[n + 1] <= FramesEnd[k]
<1>0. Len(BodyLength) \in Nat
    BY Lengths
<1>1. n + 1 \in Messages /\ n + 1 \in 0..Len(BodyLength) /\ n + 1 - 1 = n
    BY <1>0 DEF Messages
<1>2. FramesEnd[n + 1] = FramesEnd[n] + FrameLength(n + 1)
    BY <1>1, FramesEndFacts
<1>. DEFINE T == {j \in Nat : n + 1 + j \in 0..Len(BodyLength) => FramesEnd[n + 1] <= FramesEnd[n + 1 + j]}
<1>3. 0 \in T
    BY <1>1, FramesEndFacts
<1>4. ASSUME NEW j \in T PROVE j + 1 \in T
  <2>. SUFFICES ASSUME n + 1 + (j + 1) \in 0..Len(BodyLength)
                PROVE  FramesEnd[n + 1] <= FramesEnd[n + 1 + (j + 1)]
      OBVIOUS
  <2>. DEFINE m == n + 1 + (j + 1)
  <2>1. m \in Messages /\ m - 1 = n + 1 + j /\ n + 1 + j \in 0..Len(BodyLength)
      BY <1>0 DEF Messages
  <2>2. FramesEnd[n + 1] <= FramesEnd[m - 1]
      BY <2>1
  <2>. HIDE DEF m
  <2>3. FramesEnd[m] = FramesEnd[m - 1] + FrameLength(m) /\ FramesEnd[m - 1] \in Nat /\ FramesEnd[m] \in Nat
      BY <2>1, FramesEndFacts
  <2>4. FrameLength(m) \in Nat
      BY <2>1, Lengths DEF FrameLength
  <2>5. FramesEnd[n + 1] \in Nat
      BY <1>1, FramesEndFacts
  <2>6. FramesEnd[n + 1] <= FramesEnd[m]
      BY <2>2, <2>3, <2>4, <2>5
  <2>. QED  BY <2>6 DEF m
<1>. HIDE DEF T
<1>5. T = Nat
    BY <1>3, <1>4, SetInduction DEF T
<1>6. k - n - 1 \in T /\ n + 1 + (k - n - 1) = k
    BY <1>0, <1>5
<1>7. FramesEnd[n + 1] <= FramesEnd[k]
    BY <1>6 DEF T
<1>. QED  BY <1>1, <1>2, <1>7

-----------------------------------------------------------------------------
(* Frames                                                                  *)

Bytes == Seq(CellType)

\* Bytes is the type of the two buffers.
LEMMA BytesFacts ==
    ASSUME NEW s, s \in Bytes
    PROVE  /\ Len(s) \in Nat
           /\ s \in [1..Len(s) -> CellType]
           /\ \A i \in 1..Len(s) : s[i] \in CellType
BY LenProperties, ElementOfSeq DEF Bytes

\* The empty buffer.
LEMMA NoBytes ==
    <<>> \in Bytes /\ Len(<<>>) = 0 /\ \A s \in Bytes : Len(s) = 0 <=> s = <<>>
BY EmptySeq DEF Bytes

\* A sequence given by its elements.
LEMMA Listed ==
    ASSUME NEW n, NEW q, n \in Nat, q \in [1..n -> CellType]
    PROVE  q \in Bytes /\ Len(q) = n
<1>1. q \in Seq(CellType)
    BY SeqDef
<1>2. DOMAIN q = 1..n /\ DOMAIN q = 1..Len(q) /\ Len(q) \in Nat
    BY <1>1, LenProperties
<1>. QED  BY <1>1, <1>2 DEF Bytes

\* What extend puts behind a buffer.
LEMMA Joined ==
    ASSUME NEW s, NEW t, s \in Bytes, t \in Bytes
    PROVE  /\ s \o t \in Bytes /\ Len(s \o t) = Len(s) + Len(t)
           /\ \A i \in 1..Len(s) : (s \o t)[i] = s[i]
           /\ \A i \in 1..Len(t) : (s \o t)[Len(s) + i] = t[i]
<1>1. /\ Len(s) \in Nat /\ Len(t) \in Nat /\ s \o t \in Bytes /\ Len(s \o t) = Len(s) + Len(t)
      /\ \A i \in 1..(Len(s) + Len(t)) :
            (s \o t)[i] = IF i <= Len(s) THEN s[i] ELSE t[i - Len(s)]
    BY ConcatProperties, LenProperties DEF Bytes
<1>2. ASSUME NEW i \in 1..Len(s) PROVE (s \o t)[i] = s[i]
    BY <1>1
<1>3. ASSUME NEW i \in 1..Len(t) PROVE (s \o t)[Len(s) + i] = t[i]
  <2>1. Len(s) + i \in 1..(Len(s) + Len(t)) /\ ~(Len(s) + i <= Len(s)) /\ Len(s) + i - Len(s) = i
      BY <1>1
  <2>. QED  BY <1>1, <2>1
<1>. QED  BY <1>1, <1>2, <1>3

\* The first n bytes, and the others.
LEMMA Divided ==
    ASSUME NEW s, NEW n, s \in Bytes, n \in 0..Len(s)
    PROVE  /\ SubSeq(s, 1, n) \in Bytes /\ Len(SubSeq(s, 1, n)) = n
           /\ \A i \in 1..n : SubSeq(s, 1, n)[i] = s[i]
           /\ DropFirst(s, n) \in Bytes /\ Len(DropFirst(s, n)) = Len(s) - n
           /\ \A i \in 1..(Len(s) - n) : DropFirst(s, n)[i] = s[n + i]
<1>. DEFINE L == Len(s)
<1>1. L \in Nat /\ n \in Nat /\ n <= L /\ \A i \in 1..L : s[i] \in CellType
    BY BytesFacts
<1>2. /\ SubSeq(s, 1, n) \in Bytes /\ Len(SubSeq(s, 1, n)) = n
      /\ \A i \in 1..n : SubSeq(s, 1, n)[i] = s[i]
  <2>1. \A i \in 1..n : s[i] \in CellType
      BY <1>1
  <2>2. /\ SubSeq(s, 1, n) \in Seq(CellType)
        /\ Len(SubSeq(s, 1, n)) = IF 1 <= n THEN n - 1 + 1 ELSE 0
        /\ \A i \in 1..(n - 1 + 1) : SubSeq(s, 1, n)[i] = s[1 + i - 1]
      BY <1>1, <2>1, SubSeqProperties
  <2>3. n - 1 + 1 = n /\ \A i \in 1..n : 1 + i - 1 = i
      BY <1>1
  <2>4. Len(SubSeq(s, 1, n)) = n
      BY <1>1, <2>2
  <2>. QED  BY <2>2, <2>3, <2>4 DEF Bytes
<1>3. /\ DropFirst(s, n) \in Bytes /\ Len(DropFirst(s, n)) = L - n
      /\ \A i \in 1..(L - n) : DropFirst(s, n)[i] = s[n + i]
  <2>. HIDE DEF L
  <2>1. \A i \in (n + 1)..L : s[i] \in CellType
      BY <1>1
  <2>2. n + 1 \in Int /\ L \in Int
      BY <1>1
  <2>3. /\ SubSeq(s, n + 1, L) \in Seq(CellType)
        /\ Len(SubSeq(s, n + 1, L)) = IF n + 1 <= L THEN L - (n + 1) + 1 ELSE 0
        /\ \A i \in 1..(L - (n + 1) + 1) : SubSeq(s, n + 1, L)[i] = s[n + 1 + i - 1]
      BY <2>1, <2>2, SubSeqProperties
  <2>4. L - (n + 1) + 1 = L - n /\ \A i \in 1..(L - n) : n + 1 + i - 1 = n + i
      BY <1>1
  <2>5. Len(SubSeq(s, n + 1, L)) = L - n
      BY <1>1, <2>3
  <2>6. DropFirst(s, n) = SubSeq(s, n + 1, L)
      BY DEF DropFirst, L
  <2>. QED  BY <2>3, <2>4, <2>5, <2>6 DEF Bytes
<1>. QED  BY <1>2, <1>3

\* What encode writes, byte by byte, and that its failure leaves a prefix of it.
LEMMA FrameCells ==
    ASSUME NEW m \in Messages
    PROVE  LET e == encode(m)
               n == BodyLength[m]
           IN  /\ e \in Bytes /\ Len(e) = FrameLength(m)
               /\ \A j \in 1..FlagLen : e[j] = Cell("flag", 0, j)
               /\ e[FlagLen + 1] = Cell("byte", 0, 1)
               /\ e[FlagLen + 2] = Cell("byte", 0, n \div LenBase)
               /\ e[FlagLen + 3] = Cell("byte", 0, n % LenBase)
               /\ \A i \in 1..n : e[HEADER_LENGTH + i] = Cell(IF compress THEN "gzip" ELSE "raw", m, i)
               /\ PartialFrame \in Bytes /\ Len(PartialFrame) = FlagLen + 1
               /\ \A j \in 1..(FlagLen + 1) : PartialFrame[j] = e[j]
<1>. DEFINE n == BodyLength[m]
            f == PPAASS_FLAG
            c == CompressByte
            l == LengthBytes(n)
            b == BodyBytes(m, compress)
<1>1. n \in Nat /\ FlagLen \in Nat /\ LenBase \in Nat \ {0}
    BY Lengths, BodyLengthAssumption
<1>2. n \div LenBase \in Nat /\ n % LenBase \in Nat
    BY <1>1
<1>3. f \in Bytes /\ Len(f) = FlagLen /\ \A j \in 1..FlagLen : f[j] = Cell("flag", 0, j)
  <2>1. \A j \in 1..FlagLen : Cell("flag", 0, j) \in CellType
      BY <1>1 DEF Cell, CellType
  <2>2. f \in [1..FlagLen -> CellType] /\ \A j \in 1..FlagLen : f[j] = Cell("flag", 0, j)
      BY <2>1 DEF PPAASS_FLAG
  <2>. HIDE DEF f
  <2>. QED  BY <1>1, <2>2, Listed
<1>4. c \in Bytes /\ Len(c) = 1 /\ c[1] = Cell("byte", 0, 1)
    BY DEF CompressByte, COMPRESS_FLAG, UN_COMPRESS_FLAG, Cell, CellType, Bytes
<1>5. /\ l \in Bytes /\ Len(l) = 2
      /\ l[1] = Cell("byte", 0, n \div LenBase) /\ l[2] = Cell("byte", 0, n % LenBase)
    BY <1>2 DEF LengthBytes, Cell, CellType, Bytes
<1>6. /\ b \in Bytes /\ Len(b) = n
      /\ \A i \in 1..n : b[i] = Cell(IF compress THEN "gzip" ELSE "raw", m, i)
  <2>. DEFINE kind == IF compress THEN "gzip" ELSE "raw"
  <2>1. kind \in {"gzip", "raw"} /\ b = [i \in 1..n |-> Cell(kind, m, i)]
      BY DEF BodyBytes
  <2>. HIDE DEF kind, b
  <2>2. \A i \in 1..n : Cell(kind, m, i) \in CellType
      BY <1>1, <2>1 DEF Cell, CellType
  <2>. DEFINE q == [i \in 1..n |-> Cell(kind, m, i)]
  <2>3. q \in Bytes /\ Len(q) = n /\ \A i \in 1..n : q[i] = Cell(kind, m, i)
    <3>. HIDE DEF n
    <3>1. q \in [1..n -> CellType]
        BY <2>2
    <3>. HIDE DEF q
    <3>2. q \in Bytes /\ Len(q) = n
        BY <1>1, <3>1, Listed
    <3>. QED  BY <3>2 DEF q
  <2>. QED  BY <2>1, <2>3 DEF kind
<1>7. encode(m) = ((f \o c) \o l) \o b /\ PartialFrame = f \o c
    BY DEF encode, PartialFrame
<1>. HIDE DEF f, c, l, b, n
<1>8. /\ f \o c \in Bytes /\ Len(f \o c) = FlagLen + 1
      /\ \A j \in 1..FlagLen : (f \o c)[j] = f[j]
      /\ (f \o c)[FlagLen + 1] = c[1]
  <2>1. /\ f \o c \in Bytes /\ Len(f \o c) = Len(f) + Len(c)
        /\ \A i \in 1..Len(f) : (f \o c)[i] = f[i]
        /\ \A i \in 1..Len(c) : (f \o c)[Len(f) + i] = c[i]
    <3>1. f \in Bytes /\ c \in Bytes
        BY <1>3, <1>4
    <3>. QED  BY ONLY <3>1, Joined
  <2>. QED  BY <1>1, <1>3, <1>4, <2>1
<1>. DEFINE g == f \o c
<1>. HIDE DEF g
<1>9. /\ g \o l \in Bytes /\ Len(g \o l) = FlagLen + 3
      /\ \A j \in 1..(FlagLen + 1) : (g \o l)[j] = g[j]
      /\ (g \o l)[FlagLen + 2] = l[1] /\ (g \o l)[FlagLen + 3] = l[2]
  <2>0. g \in Bytes /\ Len(g) = FlagLen + 1
      BY <1>8 DEF g
  <2>1. /\ g \o l \in Bytes /\ Len(g \o l) = Len(g) + Len(l)
        /\ \A i \in 1..Len(g) : (g \o l)[i] = g[i]
        /\ \A i \in 1..Len(l) : (g \o l)[Len(g) + i] = l[i]
    <3>1. g \in Bytes /\ l \in Bytes
        BY <1>5, <2>0
    <3>. QED  BY ONLY <3>1, Joined
  <2>. QED  BY <1>1, <1>5, <2>0, <2>1
<1>. DEFINE h == g \o l
<1>. HIDE DEF h
<1>10. /\ h \o b \in Bytes /\ Len(h \o b) = FlagLen + 3 + n
       /\ \A j \in 1..(FlagLen + 3) : (h \o b)[j] = h[j]
       /\ \A i \in 1..n : (h \o b)[FlagLen + 3 + i] = b[i]
  <2>0. h \in Bytes /\ Len(h) = FlagLen + 3
      BY <1>9 DEF h
  <2>1. /\ h \o b \in Bytes /\ Len(h \o b) = Len(h) + Len(b)
        /\ \A i \in 1..Len(h) : (h \o b)[i] = h[i]
        /\ \A i \in 1..Len(b) : (h \o b)[Len(h) + i] = b[i]
    <3>1. h \in Bytes /\ b \in Bytes
        BY <1>6, <2>0
    <3>. QED  BY ONLY <3>1, Joined
  <2>. QED  BY <1>1, <1>6, <2>0, <2>1
<1>11. encode(m) = h \o b /\ PartialFrame = g /\ HEADER_LENGTH = FlagLen + 3 /\ FrameLength(m) = FlagLen + 3 + n
    BY <1>1, <1>7 DEF g, h, HEADER_LENGTH, FrameLength, n
<1>. DEFINE e == encode(m)
<1>12. e \in Bytes /\ Len(e) = FrameLength(m)
    BY <1>10, <1>11
<1>13. \A j \in 1..FlagLen : e[j] = Cell("flag", 0, j)
  <2>. TAKE j \in 1..FlagLen
  <2>1. j \in 1..(FlagLen + 1) /\ j \in 1..(FlagLen + 3)
      BY <1>1
  <2>2. e[j] = h[j] /\ h[j] = g[j] /\ g[j] = f[j]
      BY <1>8, <1>9, <1>10, <1>11, <2>1 DEF g, h
  <2>. QED  BY <1>3, <2>2
<1>14. e[FlagLen + 1] = Cell("byte", 0, 1)
    BY <1>1, <1>4, <1>8, <1>9, <1>10, <1>11 DEF g, h
<1>15. e[FlagLen + 2] = Cell("byte", 0, n \div LenBase) /\ e[FlagLen + 3] = Cell("byte", 0, n % LenBase)
    BY <1>1, <1>5, <1>9, <1>10, <1>11 DEF h
<1>16. \A i \in 1..n : e[HEADER_LENGTH + i] = Cell(IF compress THEN "gzip" ELSE "raw", m, i)
    BY <1>1, <1>6, <1>10, <1>11
<1>17. /\ PartialFrame \in Bytes /\ Len(PartialFrame) = FlagLen + 1
       /\ \A j \in 1..(FlagLen + 1) : PartialFrame[j] = e[j]
    BY <1>1, <1>8, <1>9, <1>10, <1>11 DEF g, h
<1>. HIDE DEF e
<1>. QED  BY <1>12, <1>13, <1>14, <1>15, <1>16, <1>17 DEF e, n

\* Two digits make the number they were taken from.
LEMMA Digits ==
    ASSUME NEW n \in Nat, NEW B \in Nat \ {0}
    PROVE  (n \div B) * B + (n % B) = n
OBVIOUS

\* A body that came through whole is read as the message it was made from, or
\* as none when the compress byte says what the sender did not do.
LEMMA BodyRead ==
    ASSUME NEW m, NEW body, m \in Messages, body \in Bytes, Len(body) = BodyLength[m],
           \A i \in 1..BodyLength[m] : body[i] = Cell(IF compress THEN "gzip" ELSE "raw", m, i)
    PROVE  /\ ReadBody(body, TRUE) \in {ERROR, m}
           /\ compress => ReadBody(body, TRUE) = m
<1>1. \A k \in Messages : 1 \in 1..BodyLength[k]
    BY Lengths
<1>2. ASSUME NEW k \in Messages, body = BodyBytes(k, TRUE) PROVE k = m
  <2>1. body[1] = Cell("gzip", k, 1)
      BY <1>1, <1>2 DEF BodyBytes
  <2>2. body[1] = Cell(IF compress THEN "gzip" ELSE "raw", m, 1)
      BY <1>1
  <2>3. body[1].msg = k
      BY <2>1 DEF Cell
  <2>4. body[1].msg = m
      BY <2>2 DEF Cell
  <2>. QED  BY <2>3, <2>4
<1>3. ReadBody(body, TRUE) \in {ERROR, m}
    BY <1>2 DEF ReadBody
<1>4. ASSUME compress PROVE ReadBody(body, TRUE) = m
  <2>1. body \in [1..BodyLength[m] -> CellType]
      BY BytesFacts
  <2>2. body = BodyBytes(m, TRUE)
      BY <1>4, <2>1 DEF BodyBytes
  <2>. QED  BY <1>2, <2>2 DEF ReadBody
<1>. QED  BY <1>3, <1>4

-----------------------------------------------------------------------------
(* The decoder                                                             *)

\* The place in the stream of byte j of the frame of message m.
Place(m, j) == FramesEnd[m - 1] + j

\* Places are numbers.
LEMMA Places ==
    \A m \in Messages : \A j \in 1..FrameLength(m) : Place(m, j) \in Nat
<1>. TAKE m \in Messages
<1>1. FramesEnd[m - 1] \in Nat /\ FrameLength(m) \in Nat
    BY FramesEndFacts, Lengths DEF FrameLength
<1>. QED  BY <1>1 DEF Place

\* s is part of the stream of frames, behind its first b bytes.
Carries(s, b) ==
    \A m \in Messages : \A j \in 1..FrameLength(m) :
        b < Place(m, j) /\ Place(m, j) <= b + Len(s)
            => s[Place(m, j) - b] = encode(m)[j]

\* The state of a decoder that has returned k messages and lost nothing, and
\* the number of bytes it has taken.
StatusAt(st, k) ==
    \/ st = Head_
    \/ k + 1 \in Messages /\ st = Data_(TRUE, BodyLength[k + 1])

Taken(st, k) == FramesEnd[k] + IF st.at = "data" THEN HEADER_LENGTH ELSE 0

\* DecodeBody on the bytes behind a header.
LEMMA DecodeBodyStep ==
    ASSUME NEW m, NEW s, m \in Messages, s \in Bytes,
           \A i \in 1..BodyLength[m] :
              i <= Len(s) => s[i] = Cell(IF compress THEN "gzip" ELSE "raw", m, i)
    PROVE  LET st == Data_(TRUE, BodyLength[m])
               r  == DecodeBody(st, s)
           IN  \/ /\ Len(s) < BodyLength[m]
                  /\ r.out = NONE /\ r.status = st /\ r.src = s
               \/ /\ BodyLength[m] <= Len(s)
                  /\ r.out = m /\ r.status = Head_ /\ r.src = DropFirst(s, BodyLength[m])
               \/ /\ BodyLength[m] <= Len(s) /\ ~compress
                  /\ r.out = ERROR /\ r.status = st /\ r.src = DropFirst(s, BodyLength[m])
<1>. DEFINE n == BodyLength[m]
            st == Data_(TRUE, n)
            r == DecodeBody(st, s)
<1>1. n \in Nat /\ Len(s) \in Nat /\ m # ERROR
    BY Lengths, BytesFacts DEF Messages, ERROR
<1>2. st.body_length = n /\ st.compressed = TRUE
    BY DEF Data_
<1>3. CASE Len(s) < n
  <2>1. r = [status |-> st, src |-> s, out |-> NONE]
      BY <1>2, <1>3 DEF DecodeBody
  <2>2. r.out = NONE /\ r.status = st /\ r.src = s
    <3>. HIDE DEF r
    <3>. QED  BY <2>1
  <2>. QED  BY <1>3, <2>2
<1>4. CASE ~(Len(s) < n)
  <2>. DEFINE body == SubSeq(s, 1, n)
              out == ReadBody(body, TRUE)
  <2>0. n <= Len(s) /\ n \in 0..Len(s)
      BY <1>1, <1>4
  <2>1. body \in Bytes /\ Len(body) = n /\ \A i \in 1..n : body[i] = s[i]
      BY <2>0, Divided
  <2>2. \A i \in 1..n : i <= Len(s)
      BY <1>1, <2>0
  <2>3. \A i \in 1..n : body[i] = Cell(IF compress THEN "gzip" ELSE "raw", m, i)
      BY <2>1, <2>2
  <2>4. r = [status |-> IF out = ERROR THEN st ELSE Head_, src |-> DropFirst(s, n), out |-> out]
      BY <1>2, <1>4 DEF DecodeBody
  <2>. HIDE DEF body
  <2>5. out \in {ERROR, m} /\ (compress => out = m)
      BY <2>1, <2>3, BodyRead
  <2>. HIDE DEF out, r, st
  <2>6. /\ r.out = out /\ r.src = DropFirst(s, n)
        /\ r.status = IF out = ERROR THEN st ELSE Head_
      BY <2>4
  <2>7. CASE out = m
      BY <1>1, <2>0, <2>6, <2>7 DEF r, st
  <2>8. CASE out # m
      BY <1>1, <2>0, <2>5, <2>6, <2>8 DEF r, st
  <2>. QED  BY <2>7, <2>8
<1>. QED  BY <1>3, <1>4

\* The first n bytes of a part of the stream, and the others.
LEMMA CarriesParts ==
    ASSUME NEW s, NEW b, NEW n, s \in Bytes, b \in Nat, n \in 0..Len(s), Carries(s, b)
    PROVE  Carries(SubSeq(s, 1, n), b) /\ Carries(DropFirst(s, n), b + n)
<1>. DEFINE t == SubSeq(s, 1, n)
            u == DropFirst(s, n)
            L == Len(s)
<1>1. /\ Len(t) = n /\ \A i \in 1..n : t[i] = s[i]
      /\ Len(u) = L - n /\ \A i \in 1..(L - n) : u[i] = s[n + i]
    BY Divided
<1>2. L \in Nat /\ n \in Nat /\ n <= L
    BY BytesFacts
<1>3. \A m \in Messages : \A j \in 1..FrameLength(m) : Place(m, j) \in Nat
    BY Places
<1>. HIDE DEF t, u, L
<1>4. ASSUME NEW m \in Messages, NEW j \in 1..FrameLength(m)
      PROVE  /\ b < Place(m, j) /\ Place(m, j) <= b + L
                    => s[Place(m, j) - b] = encode(m)[j]
    BY DEF Carries, L
<1>5. ASSUME NEW m \in Messages, NEW j \in 1..FrameLength(m),
             b < Place(m, j), Place(m, j) <= b + Len(t)
      PROVE  t[Place(m, j) - b] = encode(m)[j]
  <2>. DEFINE x == Place(m, j)
  <2>0. x \in Nat /\ b < x /\ x <= b + n
      BY <1>1, <1>3, <1>5
  <2>1. s[x - b] = encode(m)[j]
    <3>1. x <= b + L
      <4>. HIDE DEF x
      <4>. QED  BY <1>2, <2>0
    <3>. QED  BY <1>4, <2>0, <3>1
  <2>. HIDE DEF x
  <2>2. x - b \in 1..n
      BY <1>2, <2>0
  <2>3. t[x - b] = encode(m)[j]
      BY <1>1, <2>1, <2>2
  <2>. QED  BY <2>3 DEF x
<1>6. ASSUME NEW m \in Messages, NEW j \in 1..FrameLength(m),
             b + n < Place(m, j), Place(m, j) <= b + n + Len(u)
      PROVE  u[Place(m, j) - (b + n)] = encode(m)[j]
  <2>. DEFINE x == Place(m, j)
  <2>0. x \in Nat /\ b + n < x /\ x <= b + n + (L - n)
      BY <1>1, <1>3, <1>6
  <2>1. s[x - b] = encode(m)[j]
    <3>1. b < x /\ x <= b + L
      <4>. HIDE DEF x
      <4>. QED  BY <1>2, <2>0
    <3>. QED  BY <1>4, <3>1
  <2>. HIDE DEF x
  <2>2. x - (b + n) \in 1..(L - n) /\ n + (x - (b + n)) = x - b
      BY <1>2, <2>0
  <2>3. u[x - (b + n)] = encode(m)[j]
      BY <1>1, <2>1, <2>2
  <2>. QED  BY <2>3 DEF x
<1>. QED  BY <1>5, <1>6 DEF Carries, t, u

\* Two consecutive parts of the stream.
LEMMA CarriesJoined ==
    ASSUME NEW s, NEW t, NEW b, s \in Bytes, t \in Bytes, b \in Nat,
           Carries(s, b), Carries(t, b + Len(s))
    PROVE  Carries(s \o t, b)
<1>. DEFINE u == s \o t
            L == Len(s)
            M == Len(t)
<1>1. /\ L \in Nat /\ M \in Nat /\ Len(u) = L + M
      /\ \A i \in 1..L : u[i] = s[i]
      /\ \A i \in 1..M : u[L + i] = t[i]
    BY Joined, BytesFacts
<1>. HIDE DEF u, L, M
<1>2. ASSUME NEW m \in Messages, NEW j \in 1..FrameLength(m),
             b < Place(m, j), Place(m, j) <= b + Len(u)
      PROVE  u[Place(m, j) - b] = encode(m)[j]
  <2>. DEFINE x == Place(m, j)
  <2>0. x \in Nat
      BY Places
  <2>1. b < x /\ x <= b + L + M
      BY <1>1, <1>2
  <2>2. /\ x <= b + L => s[x - b] = encode(m)[j]
        /\ b + L < x /\ x <= b + L + M => t[x - (b + L)] = encode(m)[j]
      BY <1>2 DEF Carries, L, M
  <2>. HIDE DEF x
  <2>3. CASE x <= b + L
    <3>1. x - b \in 1..L
        BY <1>1, <2>0, <2>1, <2>3
    <3>2. u[x - b] = encode(m)[j]
        BY <1>1, <2>2, <2>3, <3>1
    <3>. QED  BY <3>2 DEF x
  <2>4. CASE b + L < x
    <3>1. x - (b + L) \in 1..M /\ L + (x - (b + L)) = x - b
        BY <1>1, <2>0, <2>1, <2>4
    <3>2. u[x - b] = encode(m)[j]
        BY <1>1, <2>1, <2>2, <2>4, <3>1
    <3>. QED  BY <3>2 DEF x
  <2>. QED  BY <1>1, <2>0, <2>3, <2>4
<1>. QED  BY <1>2 DEF Carries, u

\* Every place belongs to one frame.
LEMMA OnePlace ==
    ASSUME NEW m, NEW k, NEW x, m \in Messages, k \in Messages, x \in Nat,
           FramesEnd[m - 1] < x, x <= FramesEnd[m], FramesEnd[k - 1] < x, x <= FramesEnd[k]
    PROVE  m = k
<1>1. /\ m \in Nat /\ m - 1 \in 0..Len(BodyLength) /\ m \in 0..Len(BodyLength) /\ m - 1 + 1 = m
      /\ k \in Nat /\ k - 1 \in 0..Len(BodyLength) /\ k \in 0..Len(BodyLength) /\ k - 1 + 1 = k
    BY Lengths DEF Messages
<1>2. /\ FramesEnd[m - 1] \in Nat /\ FramesEnd[m] \in Nat
      /\ FramesEnd[k - 1] \in Nat /\ FramesEnd[k] \in Nat
    BY <1>1, FramesEndFacts
<1>3. CASE m < k
  <2>1. m - 1 < k - 1
      BY <1>1, <1>3
  <2>2. FramesEnd[m - 1 + 1] <= FramesEnd[k - 1]
      BY <1>1, <2>1, FramesApart
  <2>3. FramesEnd[m] <= FramesEnd[k - 1]
      BY <1>1, <2>2
  <2>. QED  BY <1>2, <2>3
<1>4. CASE k < m
  <2>1. k - 1 < m - 1
      BY <1>1, <1>4
  <2>2. FramesEnd[k - 1 + 1] <= FramesEnd[m - 1]
      BY <1>1, <2>1, FramesApart
  <2>3. FramesEnd[k] <= FramesEnd[m - 1]
      BY <1>1, <2>2
  <2>. QED  BY <1>2, <2>3
<1>. QED  BY <1>1, <1>3, <1>4

\* What encode writes, and what it has written when it fails.
LEMMA CarriesFrame ==
    ASSUME NEW m, m \in Messages
    PROVE  Carries(encode(m), FramesEnd[m - 1]) /\ Carries(PartialFrame, FramesEnd[m - 1])
<1>. DEFINE b == FramesEnd[m - 1]
            e == encode(m)
            p == PartialFrame
            F == FrameLength(m)
<1>1. /\ b \in Nat /\ FramesEnd[m] = b + F /\ F \in Nat /\ FlagLen + 1 \in Nat /\ FlagLen + 1 <= F
    BY FramesEndFacts, Lengths DEF FrameLength, HEADER_LENGTH
<1>2. /\ Len(e) = F /\ Len(p) = FlagLen + 1
      /\ \A j \in 1..(FlagLen + 1) : p[j] = e[j]
    BY FrameCells
<1>. HIDE DEF b, e, p, F
<1>3. ASSUME NEW k \in Messages, NEW j \in 1..FrameLength(k), b < Place(k, j), Place(k, j) <= b + F
      PROVE  k = m /\ Place(k, j) - b = j /\ j \in 1..F
  <2>1. /\ Place(k, j) \in Nat /\ FramesEnd[k - 1] \in Nat /\ FrameLength(k) \in Nat
        /\ FramesEnd[k] = FramesEnd[k - 1] + FrameLength(k) /\ Place(k, j) = FramesEnd[k - 1] + j
    <3>1. Place(k, j) \in Nat /\ Place(k, j) = FramesEnd[k - 1] + j
        BY Places DEF Place
    <3>2. FrameLength(k) \in Nat
        BY Lengths DEF FrameLength
    <3>3. FramesEnd[k - 1] \in Nat /\ FramesEnd[k] = FramesEnd[k - 1] + FrameLength(k)
        BY FramesEndFacts
    <3>. QED  BY <3>1, <3>2, <3>3
  <2>2. FramesEnd[k - 1] < Place(k, j) /\ Place(k, j) <= FramesEnd[k]
      BY <2>1
  <2>3. k = m
      BY <1>1, <1>3, <2>1, <2>2, OnePlace DEF b
  <2>4. Place(k, j) = b + j /\ j \in 1..F
      BY <2>1, <2>3 DEF b, F
  <2>. QED  BY <1>1, <2>3, <2>4
<1>4. Carries(e, b)
  <2>. SUFFICES ASSUME NEW k \in Messages, NEW j \in 1..FrameLength(k),
                       b < Place(k, j), Place(k, j) <= b + F
                PROVE  e[Place(k, j) - b] = encode(k)[j]
      BY <1>2 DEF Carries
  <2>1. k = m /\ Place(k, j) - b = j
      BY <1>3
  <2>. QED  BY <2>1 DEF e
<1>5. Carries(p, b)
  <2>. SUFFICES ASSUME NEW k \in Messages, NEW j \in 1..FrameLength(k),
                       b < Place(k, j), Place(k, j) <= b + (FlagLen + 1)
                PROVE  p[Place(k, j) - b] = encode(k)[j]
      BY <1>2 DEF Carries
  <2>0. Place(k, j) \in Nat
      BY Places
  <2>1. Place(k, j) <= b + F
      BY <1>1, <2>0
  <2>2. k = m /\ Place(k, j) - b = j /\ j \in 1..F
      BY <1>3, <2>1
  <2>3. j \in 1..(FlagLen + 1)
      BY <1>1, <2>0, <2>2
  <2>. QED  BY <1>2, <2>2, <2>3 DEF e
<1>. QED  BY <1>4, <1>5 DEF e, b, p

\* The empty buffer is part of the stream everywhere.
LEMMA CarriesNothing == \A b \in Nat : Carries(<<>>, b)
<1>. SUFFICES ASSUME NEW b \in Nat, NEW m \in Messages, NEW j \in 1..FrameLength(m),
                     b < Place(m, j), Place(m, j) <= b + 0
              PROVE  FALSE
    BY NoBytes DEF Carries
<1>. QED  BY Places

\* What is found at the start of a frame, and at the start of its body.
LEMMA Found ==
    ASSUME NEW m, NEW s, m \in Messages, s \in Bytes
    PROVE  /\ Carries(s, FramesEnd[m - 1]) =>
                 \A j \in 1..FrameLength(m) : j <= Len(s) => s[j] = encode(m)[j]
           /\ Carries(s, FramesEnd[m - 1] + HEADER_LENGTH) =>
                 \A i \in 1..BodyLength[m] : i <= Len(s) =>
                    s[i] = Cell(IF compress THEN "gzip" ELSE "raw", m, i)
<1>. DEFINE b == FramesEnd[m - 1]
            F == FrameLength(m)
            H == HEADER_LENGTH
            n == BodyLength[m]
<1>1. b \in Nat /\ F \in Nat /\ H \in Nat /\ n \in Nat /\ F = H + n /\ Len(s) \in Nat
    BY FramesEndFacts, Lengths, BytesFacts DEF FrameLength
<1>. HIDE DEF b, F, H, n
<1>2. ASSUME Carries(s, b), NEW j \in 1..F, j <= Len(s) PROVE s[j] = encode(m)[j]
  <2>1. Place(m, j) = b + j
      BY DEF Place, b
  <2>2. b < Place(m, j) /\ Place(m, j) <= b + Len(s) /\ Place(m, j) - b = j
      BY <1>1, <1>2, <2>1
  <2>3. s[Place(m, j) - b] = encode(m)[j]
      BY <1>2, <2>2 DEF Carries, F
  <2>. QED  BY <2>2, <2>3
<1>3. ASSUME Carries(s, b + H), NEW i \in 1..n, i <= Len(s)
      PROVE  s[i] = Cell(IF compress THEN "gzip" ELSE "raw", m, i)
  <2>. DEFINE j == H + i
  <2>0. j \in 1..F
      BY <1>1
  <2>1. Place(m, j) = b + j
      BY DEF Place, b
  <2>2. b + H < Place(m, j) /\ Place(m, j) <= (b + H) + Len(s) /\ Place(m, j) - (b + H) = i
      BY <1>1, <1>3, <2>1
  <2>. HIDE DEF j
  <2>3. s[Place(m, j) - (b + H)] = encode(m)[j]
      BY <1>3, <2>0, <2>2 DEF Carries, F
  <2>4. encode(m)[HEADER_LENGTH + i] = Cell(IF compress THEN "gzip" ELSE "raw", m, i)
      BY FrameCells DEF n
  <2>. QED  BY <2>2, <2>3, <2>4 DEF j, H
<1>. QED  BY <1>2, <1>3 DEF b, F, H, n

\* What a call of decode may do to a decoder that has returned k messages and
\* taken b bytes, with n bytes in the buffer.
Waits(r, k, b, n) ==
    /\ r.out = NONE /\ r.src \in Bytes /\ StatusAt(r.status, k)
    /\ Carries(r.src, Taken(r.status, k))
    /\ Taken(r.status, k) + Len(r.src) = b + n
    /\ \/ r.status = Head_ /\ Len(r.src) < HEADER_LENGTH
       \/ r.status.at = "data" /\ Len(r.src) < BodyLength[k + 1]

Returns(r, k, b, n) ==
    /\ k + 1 \in Messages /\ r.out = k + 1 /\ r.src \in Bytes /\ r.status = Head_
    /\ Carries(r.src, FramesEnd[k + 1])
    /\ FramesEnd[k + 1] + Len(r.src) = b + n

Fails(r, k) ==
    /\ ~compress
    /\ r.out = ERROR /\ r.src \in Bytes /\ StatusAt(r.status, k)

\* A call of decode behind a header.
LEMMA DataStep ==
    ASSUME NEW k, NEW s, k \in 0..Len(BodyLength), k + 1 \in Messages, s \in Bytes,
           Carries(s, FramesEnd[k] + HEADER_LENGTH)
    PROVE  LET r == DecodeBody(Data_(TRUE, BodyLength[k + 1]), s)
               b == FramesEnd[k] + HEADER_LENGTH
           IN  Waits(r, k, b, Len(s)) \/ Returns(r, k, b, Len(s)) \/ Fails(r, k)
<1>. DEFINE st == Data_(TRUE, BodyLength[k + 1])
            r == DecodeBody(st, s)
            m == k + 1
            n == BodyLength[m]
            E == FramesEnd[k]
            H == HEADER_LENGTH
            u == DropFirst(s, n)
            L == Len(s)
<1>1. m - 1 = k /\ E \in Nat /\ H \in Nat /\ n \in Nat /\ L \in Nat /\ st.at = "data"
    BY Lengths, FramesEndFacts, BytesFacts DEF Data_
<1>2. FramesEnd[m] = (E + H) + n
  <2>1. FramesEnd[m] = FramesEnd[m - 1] + FrameLength(m)
      BY FramesEndFacts
  <2>2. FrameLength(m) = H + n
      BY DEF FrameLength
  <2>. QED  BY <1>1, <2>1, <2>2
<1>3. StatusAt(st, k) /\ Taken(st, k) = E + H
    BY <1>1 DEF StatusAt, Taken
<1>. HIDE DEF st, n, m, H, E
<1>4. \A i \in 1..n : i <= Len(s) => s[i] = Cell(IF compress THEN "gzip" ELSE "raw", m, i)
  <2>1. Carries(s, FramesEnd[m - 1] + HEADER_LENGTH) /\ m \in Messages
      BY <1>1 DEF m
  <2>. QED  BY <2>1, Found DEF n
<1>5. \/ L < n /\ r.out = NONE /\ r.status = st /\ r.src = s
      \/ n <= L /\ r.out = m /\ r.status = Head_ /\ r.src = u
      \/ n <= L /\ ~compress /\ r.out = ERROR /\ r.status = st /\ r.src = u
  <2>1. m \in Messages
      BY DEF m
  <2>. QED  BY <1>4, <2>1, DecodeBodyStep DEF st, m, n
<1>. HIDE DEF r, L, u
<1>6. CASE L < n /\ r.out = NONE /\ r.status = st /\ r.src = s
  <2>1. Carries(r.src, Taken(r.status, k))
      BY <1>3, <1>6 DEF E, H
  <2>2. Waits(r, k, E + H, L)
      BY <1>1, <1>3, <1>6, <2>1 DEF Waits, L, n, m
  <2>. QED  BY <2>2 DEF r, st, E, H, L
<1>7. ASSUME n <= L
      PROVE  u \in Bytes /\ Carries(u, FramesEnd[m]) /\ FramesEnd[m] + Len(u) = (E + H) + L
  <2>1. n \in 0..Len(s) /\ E + H \in Nat /\ Carries(s, E + H)
      BY <1>1, <1>7 DEF L, E, H
  <2>2. u \in Bytes /\ Len(u) = L - n
      BY <2>1, Divided DEF u, L
  <2>3. Carries(u, (E + H) + n)
      BY <2>1, CarriesParts DEF u
  <2>4. ((E + H) + n) + (L - n) = (E + H) + L
      BY <1>1
  <2>. QED  BY <1>2, <2>2, <2>3, <2>4
<1>8. CASE n <= L /\ r.out = m /\ r.status = Head_ /\ r.src = u
  <2>1. Returns(r, k, E + H, L)
      BY <1>7, <1>8 DEF Returns, m
  <2>. QED  BY <2>1 DEF r, st, E, H, L
<1>9. CASE n <= L /\ ~compress /\ r.out = ERROR /\ r.status = st /\ r.src = u
  <2>1. Fails(r, k)
      BY <1>3, <1>7, <1>9 DEF Fails
  <2>. QED  BY <2>1 DEF r, st
<1>. QED  BY <1>5, <1>6, <1>8, <1>9

\* A decoder that has read as far as the frame of message K, but not a whole
\* header behind it.
LEMMA DecodeStep ==
    ASSUME NEW st, NEW s, NEW k, NEW K, k \in 0..Len(BodyLength), K \in 0..Len(BodyLength),
           k <= K, s \in Bytes, StatusAt(st, k), Carries(s, Taken(st, k)),
           Taken(st, k) + Len(s) < FramesEnd[K] + HEADER_LENGTH
    PROVE  LET r == decode(st, s)
               b == Taken(st, k)
           IN  /\ Waits(r, k, b, Len(s)) \/ Returns(r, k, b, Len(s)) \/ Fails(r, k)
               /\ r.out # NONE \/ r.status.at = "data" => k < K
<1>. DEFINE r == decode(st, s)
            b == Taken(st, k)
            E == FramesEnd[k]
            H == HEADER_LENGTH
            L == Len(s)
<1>0. /\ E \in Nat /\ FramesEnd[K] \in Nat /\ H \in Nat /\ L \in Nat /\ k \in Nat /\ K \in Nat
      /\ FlagLen \in Nat /\ H = FlagLen + 3
    BY Lengths, FramesEndFacts, BytesFacts DEF HEADER_LENGTH
<1>1. CASE st.at = "data"
  <2>1. k + 1 \in Messages /\ st = Data_(TRUE, BodyLength[k + 1])
    <3>1. Head_.at # "data"
        BY DEF Head_
    <3>. QED  BY <1>1, <3>1 DEF StatusAt
  <2>2. b = E + H /\ r = DecodeBody(st, s)
      BY <1>1 DEF Taken, decode
  <2>3. k < K
    <3>. HIDE DEF E, H, L, b
    <3>1. b + L < FramesEnd[K] + H
        BY DEF b, L, H
    <3>2. E < FramesEnd[K]
        BY <1>0, <2>2, <3>1
    <3>. QED  BY <1>0, <3>2 DEF E
  <2>. HIDE DEF r
  <2>4. Waits(r, k, b, Len(s)) \/ Returns(r, k, b, Len(s)) \/ Fails(r, k)
    <3>1. Carries(s, FramesEnd[k] + HEADER_LENGTH)
        BY <2>2
    <3>. QED  BY <2>1, <2>2, <3>1, DataStep
  <2>. QED  BY <2>3, <2>4 DEF r
<1>2. CASE st.at # "data" /\ L < H
  <2>1. st = Head_
      BY <1>2 DEF StatusAt, Data_
  <2>2. r = [status |-> st, src |-> s, out |-> NONE]
      BY <1>2 DEF decode
  <2>. HIDE DEF r
  <2>3. r.status = st /\ r.src = s /\ r.out = NONE
      BY <2>2
  <2>4. Waits(r, k, b, Len(s))
      BY <1>2, <2>1, <2>3 DEF Waits
  <2>. QED  BY <1>2, <2>3, <2>4 DEF r
<1>3. CASE st.at # "data" /\ ~(L < H)
  <2>1. st = Head_ /\ H <= L
      BY <1>0, <1>3 DEF StatusAt, Data_
  <2>2. b = E
      BY <1>0, <1>3 DEF Taken
  <2>3. k < K
    <3>. HIDE DEF E, H, L, b
    <3>1. b + L < FramesEnd[K] + H
        BY DEF b, L, H
    <3>2. E < FramesEnd[K]
        BY <1>0, <2>1, <2>2, <3>1
    <3>. QED  BY <1>0, <3>2 DEF E
  <2>. DEFINE m == k + 1
              n == BodyLength[m]
  <2>4. m \in Messages /\ m - 1 = k /\ n \in Nat
      BY <1>0, <2>3, FramesApart, Lengths
  <2>5. \A j \in 1..H : j <= Len(s) /\ j \in 1..FrameLength(m)
    <3>1. FrameLength(m) = H + n
        BY DEF FrameLength
    <3>. HIDE DEF H, n, m
    <3>. QED  BY <1>0, <2>1, <2>4, <3>1
  <2>. HIDE DEF m
  <2>6. \A j \in 1..H : s[j] = encode(m)[j]
    <3>1. Carries(s, FramesEnd[m - 1])
        BY <2>2, <2>4
    <3>. QED  BY <2>4, <2>5, <3>1, Found
  <2>7. /\ \A j \in 1..FlagLen : s[j] = Cell("flag", 0, j)
        /\ s[FlagLen + 1] = Cell("byte", 0, 1)
        /\ s[FlagLen + 2] = Cell("byte", 0, n \div LenBase)
        /\ s[FlagLen + 3] = Cell("byte", 0, n % LenBase)
    <3>1. \A j \in 1..FlagLen : j \in 1..H
        BY <1>0
    <3>2. FlagLen + 1 \in 1..H /\ FlagLen + 2 \in 1..H /\ FlagLen + 3 \in 1..H
        BY <1>0
    <3>3. /\ \A j \in 1..FlagLen : encode(m)[j] = Cell("flag", 0, j)
          /\ encode(m)[FlagLen + 1] = Cell("byte", 0, 1)
          /\ encode(m)[FlagLen + 2] = Cell("byte", 0, n \div LenBase)
          /\ encode(m)[FlagLen + 3] = Cell("byte", 0, n % LenBase)
        BY <2>4, FrameCells
    <3>. QED  BY <2>6, <3>1, <3>2, <3>3
  <2>8. SubSeq(s, 1, FlagLen) = PPAASS_FLAG
    <3>1. FlagLen \in 0..Len(s)
        BY <1>0, <2>1
    <3>. DEFINE f == SubSeq(s, 1, FlagLen)
    <3>2. f \in Bytes /\ Len(f) = FlagLen /\ \A i \in 1..FlagLen : f[i] = s[i]
        BY <3>1, Divided
    <3>. HIDE DEF f
    <3>3. f \in [1..FlagLen -> CellType] /\ \A i \in 1..FlagLen : f[i] = Cell("flag", 0, i)
        BY <2>7, <3>2, BytesFacts
    <3>4. f = PPAASS_FLAG
        BY <3>3 DEF PPAASS_FLAG
    <3>. QED  BY <3>4 DEF f
  <2>9. /\ (s[FlagLen + 1].val = 1) = TRUE
        /\ s[FlagLen + 2].val * LenBase + s[FlagLen + 3].val = n
    <3>1. /\ s[FlagLen + 1].val = 1
          /\ s[FlagLen + 2].val = n \div LenBase /\ s[FlagLen + 3].val = n % LenBase
        BY <2>7 DEF Cell
    <3>2. (n \div LenBase) * LenBase + (n % LenBase) = n
        BY <2>4, BodyLengthAssumption, Digits
    <3>. QED  BY <3>1, <3>2
  <2>. DEFINE u == DropFirst(s, H)
  <2>10. r = DecodeBody(Data_(TRUE, n), u)
    <3>1. r = DecodeBody(Data_(s[FlagLen + 1].val = 1,
                               s[FlagLen + 2].val * LenBase + s[FlagLen + 3].val), u)
        BY <1>3, <2>8 DEF decode
    <3>. QED  BY <2>9, <3>1
  <2>11. u \in Bytes /\ Len(u) = L - H /\ Carries(u, E + H) /\ (E + H) + Len(u) = b + Len(s)
    <3>1. H \in 0..Len(s) /\ Carries(s, E)
        BY <1>0, <2>1, <2>2
    <3>2. u \in Bytes /\ Len(u) = L - H
        BY <3>1, Divided
    <3>3. Carries(u, E + H)
        BY <1>0, <3>1, CarriesParts
    <3>. HIDE DEF E, H, L, u, b
    <3>4. (E + H) + Len(u) = b + L
        BY <1>0, <2>2, <3>2
    <3>. QED  BY <3>2, <3>3, <3>4 DEF L
  <2>. HIDE DEF r, u
  <2>12. Waits(r, k, E + H, Len(u)) \/ Returns(r, k, E + H, Len(u)) \/ Fails(r, k)
      BY <2>4, <2>10, <2>11, DataStep DEF m
  <2>13. Waits(r, k, b, Len(s)) \/ Returns(r, k, b, Len(s)) \/ Fails(r, k)
      BY <2>11, <2>12 DEF Waits, Returns
  <2>. QED  BY <2>3, <2>13 DEF r
<1>. QED  BY <1>1, <1>2, <1>3

-----------------------------------------------------------------------------
(* The inductive invariant                                                 *)

\* What is on its way continues what was received; it stops at the end of a
\* frame, or inside the header of the next one when encode failed or the
\* connection was cut.
WriterInv ==
    /\ Carries(wbuf, got)
    /\ got + Len(wbuf) < FramesEnd[next - 1] + HEADER_LENGTH
    /\ clean => got + Len(wbuf) = FramesEnd[next - 1]
    /\ sender = "open" => clean

\* The decoder knows the place in the stream of the first byte in its buffer.
ReaderInv ==
    result # "error" =>
        /\ StatusAt(status, Len(decoded))
        /\ Carries(rbuf, Taken(status, Len(decoded)))
        /\ got = Taken(status, Len(decoded)) + Len(rbuf)

\* Nothing follows the end of the stream.
EndInv == result = "eof" => rbuf = <<>> /\ wbuf = <<>> /\ sender = "closed"

IInv == TypeOK /\ DecodedIsPrefix /\ WriterInv /\ ReaderInv /\ EndInv

\* The invariant holds when both ends have been created.
LEMMA Started == Init => IInv
<1>. SUFFICES ASSUME Init PROVE IInv
    OBVIOUS
<1>1. TypeOK
  <2>1. 1 \in 1..(Len(BodyLength) + 1)
      BY Lengths
  <2>2. <<>> \in Seq(CellType) /\ <<>> \in Seq(Messages)
      BY EmptySeq
  <2>3. Head_ \in DecodeStatus
      BY DEF DecodeStatus
  <2>. QED  BY <2>1, <2>2, <2>3 DEF Init, TypeOK
<1>2. Len(wbuf) = 0 /\ Len(rbuf) = 0 /\ Len(decoded) = 0 /\ next - 1 = 0
    BY DEF Init
<1>3. DecodedIsPrefix
    BY <1>2 DEF Init, DecodedIsPrefix
<1>4. HEADER_LENGTH \in Nat /\ HEADER_LENGTH > 0
    BY Lengths DEF HEADER_LENGTH
<1>5. WriterInv
    BY <1>2, <1>4, CarriesNothing, FramesEndFacts DEF Init, WriterInv
<1>6. status = Head_ /\ status.at # "data"
    BY DEF Init, Head_
<1>7. ReaderInv
  <2>1. Taken(status, 0) = 0
      BY <1>6, FramesEndFacts DEF Taken
  <2>. QED  BY <1>2, <1>6, <2>1, CarriesNothing DEF Init, ReaderInv, StatusAt
<1>8. EndInv
    BY DEF Init, EndInv
<1>. QED  BY <1>1, <1>3, <1>5, <1>7, <1>8 DEF IInv

\* The buffers and counters as the lemmas on the decoder want them.
LEMMA Shape ==
    ASSUME IInv
    PROVE  /\ wbuf \in Bytes /\ rbuf \in Bytes /\ Len(wbuf) \in Nat /\ Len(rbuf) \in Nat
           /\ Len(decoded) \in 0..Len(BodyLength) /\ next - 1 \in 0..Len(BodyLength)
           /\ Len(decoded) <= next - 1 /\ got \in Nat /\ next \in Nat
           /\ Len(BodyLength) \in Nat /\ Len(decoded) \in Nat
<1>1. wbuf \in Bytes /\ rbuf \in Bytes
    BY DEF IInv, TypeOK, Bytes
<1>2. Len(decoded) \in Nat
    BY DEF IInv, TypeOK
<1>3. next \in 1..(Len(BodyLength) + 1) /\ Len(BodyLength) \in Nat /\ Len(decoded) < next /\ got \in Nat
    BY Lengths DEF IInv, TypeOK, DecodedIsPrefix
<1>. DEFINE k == Len(decoded)
            N == Len(BodyLength)
<1>. HIDE DEF k, N
<1>4. k \in 0..N /\ next - 1 \in 0..N /\ k <= next - 1 /\ next \in Nat
    BY <1>2, <1>3 DEF k, N
<1>. QED  BY <1>1, <1>2, <1>3, <1>4, BytesFacts DEF k, N

\* Encoding, whole or in part, keeps the invariant.
LEMMA Written ==
    ASSUME NEW p, IInv, sender = "open", next \in Messages, wbuf' = wbuf \o p,
           p = encode(next) \/ p = PartialFrame
    PROVE  /\ wbuf' \in Bytes /\ Carries(wbuf', got)
           /\ got + Len(wbuf') = FramesEnd[next - 1] + Len(p)
           /\ FramesEnd[next - 1] \in Nat /\ Len(p) \in Nat
<1>1. wbuf \in Bytes /\ got \in Nat /\ Len(wbuf) \in Nat
    BY Shape
<1>2. Carries(wbuf, got) /\ got + Len(wbuf) = FramesEnd[next - 1]
    BY DEF IInv, WriterInv
<1>3. p \in Bytes
    BY FrameCells
<1>4. Carries(p, got + Len(wbuf))
    BY <1>2, CarriesFrame
<1>5. wbuf \o p \in Bytes /\ Len(wbuf \o p) = Len(wbuf) + Len(p) /\ Len(p) \in Nat
    BY ONLY <1>1, <1>3, Joined, BytesFacts
<1>6. Carries(wbuf \o p, got)
    BY ONLY <1>1, <1>2, <1>3, <1>4, CarriesJoined
<1>7. FramesEnd[next - 1] \in Nat
    BY FramesEndFacts
<1>8. got + (Len(wbuf) + Len(p)) = FramesEnd[next - 1] + Len(p)
    BY <1>1, <1>2, <1>5, <1>7
<1>. QED  BY <1>5, <1>6, <1>7, <1>8

\* Encoding a message appends the frame that follows.
LEMMA StartSendStep == ASSUME IInv, StartSend PROVE IInv'
<1>1. /\ sender = "open" /\ next \in Messages /\ wbuf' = wbuf \o encode(next) /\ next' = next + 1
      /\ UNCHANGED <<sender, rbuf, readable, status, decoded, result, clean, got>>
    BY DEF StartSend
<1>2. /\ wbuf' \in Bytes /\ Carries(wbuf', got)
      /\ got + Len(wbuf') = FramesEnd[next - 1] + Len(encode(next))
    BY <1>1, Written
<1>3. FramesEnd[next] = FramesEnd[next - 1] + FrameLength(next) /\ Len(encode(next)) = FrameLength(next)
      /\ FramesEnd[next] \in Nat /\ HEADER_LENGTH \in Nat /\ HEADER_LENGTH > 0
    BY <1>1, FramesEndFacts, FrameCells, Lengths DEF HEADER_LENGTH
<1>4. next' \in 1..(Len(BodyLength) + 1) /\ next' - 1 = next
    BY <1>1, Lengths DEF Messages
<1>5. TypeOK'
    BY <1>1, <1>2, <1>4 DEF IInv, TypeOK, Bytes
<1>6. DecodedIsPrefix'
  <2>1. Len(decoded) \in Nat /\ Len(decoded) <= next - 1 /\ next \in Nat
      BY Shape
  <2>2. Len(decoded') < next'
      BY <1>1, <2>1
  <2>. QED  BY <1>1, <2>2 DEF IInv, DecodedIsPrefix
<1>7. got' + Len(wbuf') = FramesEnd[next' - 1]
    BY <1>1, <1>2, <1>3, <1>4
<1>8. WriterInv'
  <2>1. got' + Len(wbuf') < FramesEnd[next' - 1] + HEADER_LENGTH
      BY <1>3, <1>4, <1>7
  <2>2. Carries(wbuf, got)'
      BY <1>1, <1>2 DEF Carries
  <2>. QED  BY <1>1, <1>7, <2>1, <2>2 DEF IInv, WriterInv
<1>9. ReaderInv'
    BY <1>1 DEF IInv, ReaderInv, Carries, StatusAt, Taken
<1>10. EndInv'
    BY <1>1 DEF IInv, EndInv
<1>. QED  BY <1>5, <1>6, <1>8, <1>9, <1>10 DEF IInv

\* A failing encode leaves less than a header.
LEMMA StartSendFailsStep == ASSUME IInv, StartSendFails PROVE IInv'
<1>1. /\ sender = "open" /\ next \in Messages /\ wbuf' = wbuf \o PartialFrame
      /\ sender' = "closed" /\ clean' = FALSE
      /\ UNCHANGED <<next, rbuf, readable, status, decoded, result, got>>
    BY DEF StartSendFails
<1>2. /\ wbuf' \in Bytes /\ Carries(wbuf', got)
      /\ got + Len(wbuf') = FramesEnd[next - 1] + Len(PartialFrame) /\ FramesEnd[next - 1] \in Nat
    BY <1>1, Written
<1>3. Len(PartialFrame) = FlagLen + 1 /\ HEADER_LENGTH = FlagLen + 3 /\ FlagLen \in Nat
    BY <1>1, FrameCells, Lengths DEF HEADER_LENGTH
<1>4. TypeOK'
    BY <1>1, <1>2 DEF IInv, TypeOK, Bytes
<1>5. DecodedIsPrefix'
    BY <1>1 DEF IInv, DecodedIsPrefix
<1>6. WriterInv'
  <2>1. got' + Len(wbuf') < FramesEnd[next' - 1] + HEADER_LENGTH
      BY <1>1, <1>2, <1>3
  <2>2. Carries(wbuf, got)'
      BY <1>1, <1>2 DEF Carries
  <2>. QED  BY <1>1, <2>1, <2>2 DEF WriterInv
<1>7. ReaderInv'
    BY <1>1 DEF IInv, ReaderInv, Carries, StatusAt, Taken
<1>8. EndInv'
    BY <1>1 DEF IInv, EndInv
<1>. QED  BY <1>4, <1>5, <1>6, <1>7, <1>8 DEF IInv

\* A cut connection loses a suffix.
LEMMA CutStep == ASSUME IInv, Cut PROVE IInv'
<1>1. /\ sender' = "closed" /\ wbuf' = <<>> /\ clean' = FALSE
      /\ UNCHANGED <<next, rbuf, readable, status, decoded, result, got>>
    BY DEF Cut
<1>2. /\ got \in Nat /\ Len(wbuf) \in Nat /\ Len(wbuf') = 0 /\ FramesEnd[next - 1] \in Nat
      /\ HEADER_LENGTH \in Nat
    BY <1>1, Shape, NoBytes, FramesEndFacts, Lengths
<1>3. TypeOK'
    BY <1>1, NoBytes DEF IInv, TypeOK, Bytes
<1>4. DecodedIsPrefix'
    BY <1>1 DEF IInv, DecodedIsPrefix
<1>5. WriterInv'
  <2>1. got + Len(wbuf) < FramesEnd[next - 1] + HEADER_LENGTH
      BY DEF IInv, WriterInv
  <2>2. got' + Len(wbuf') < FramesEnd[next' - 1] + HEADER_LENGTH
      BY <1>1, <1>2, <2>1
  <2>3. Carries(wbuf, got)'
      BY <1>1, <1>2, CarriesNothing DEF Carries
  <2>. QED  BY <1>1, <2>2, <2>3 DEF WriterInv
<1>6. ReaderInv'
    BY <1>1 DEF IInv, ReaderInv, Carries, StatusAt, Taken
<1>7. EndInv'
    BY <1>1 DEF IInv, EndInv
<1>. QED  BY <1>3, <1>4, <1>5, <1>6, <1>7 DEF IInv

\* Closing the sink flushes what is there.
LEMMA CloseStep == ASSUME IInv, Close PROVE IInv'
<1>1. /\ sender' = "closed"
      /\ UNCHANGED <<next, wbuf, rbuf, readable, status, decoded, result, clean, got>>
    BY DEF Close
<1>. QED
    BY <1>1 DEF IInv, TypeOK, DecodedIsPrefix, WriterInv, ReaderInv, EndInv, Carries, StatusAt, Taken

\* Reading moves bytes from one side to the other.
LEMMA ReadStep == ASSUME IInv, Read PROVE IInv'
<1>1. /\ result = "reading" /\ readable' = TRUE
      /\ UNCHANGED <<sender, next, status, decoded, result, clean>>
    BY DEF Read
<1>2. PICK n \in 1..Len(wbuf) :
             /\ rbuf' = rbuf \o SubSeq(wbuf, 1, n)
             /\ wbuf' = DropFirst(wbuf, n)
             /\ got' = got + n
    BY DEF Read
<1>. DEFINE p == SubSeq(wbuf, 1, n)
            b == Taken(status, Len(decoded))
<1>3. /\ wbuf \in Bytes /\ rbuf \in Bytes /\ Len(wbuf) \in Nat /\ Len(rbuf) \in Nat /\ got \in Nat
      /\ n \in Nat /\ n \in 0..Len(wbuf)
    BY Shape
<1>4. Carries(wbuf, got) /\ Carries(rbuf, b) /\ got = b + Len(rbuf)
    BY <1>1 DEF IInv, WriterInv, ReaderInv
<1>5. b \in Nat
  <2>1. FramesEnd[Len(decoded)] \in Nat /\ HEADER_LENGTH \in Nat
      BY Shape, FramesEndFacts, Lengths
  <2>. QED  BY <2>1 DEF Taken
<1>6. /\ p \in Bytes /\ Len(p) = n
      /\ wbuf' \in Bytes /\ Len(wbuf') = Len(wbuf) - n
    BY <1>2, <1>3, Divided
<1>7. Carries(p, got) /\ Carries(wbuf', got + n)
    BY <1>2, <1>3, <1>4, CarriesParts
<1>. HIDE DEF p, b
<1>8. rbuf' \in Bytes /\ Len(rbuf') = Len(rbuf) + n
    BY <1>2, <1>3, <1>6, Joined DEF p
<1>9. Carries(rbuf', b)
  <2>1. Carries(p, b + Len(rbuf))
      BY <1>4, <1>7
  <2>2. Carries(rbuf \o p, b)
      BY ONLY <1>3, <1>4, <1>5, <1>6, <2>1, CarriesJoined
  <2>. QED  BY <1>2, <2>2 DEF p
<1>10. TypeOK'
  <2>1. got' \in Nat
      BY <1>2, <1>3
  <2>. QED  BY <1>1, <1>6, <1>8, <2>1 DEF IInv, TypeOK, Bytes
<1>11. DecodedIsPrefix'
    BY <1>1 DEF IInv, DecodedIsPrefix
<1>12. WriterInv'
  <2>1. got' + Len(wbuf') = got + Len(wbuf)
      BY <1>2, <1>3, <1>6
  <2>2. Carries(wbuf, got)'
      BY <1>2, <1>7 DEF Carries
  <2>. QED  BY <1>1, <2>1, <2>2 DEF IInv, WriterInv
<1>13. ReaderInv'
  <2>1. Taken(status, Len(decoded))' = b
      BY <1>1 DEF Taken, b
  <2>2. got' = b + Len(rbuf')
      BY <1>2, <1>3, <1>4, <1>5, <1>8
  <2>3. Carries(rbuf, Taken(status, Len(decoded)))'
      BY <1>1, <1>9 DEF Carries, b, Taken
  <2>. QED  BY <1>1, <2>1, <2>2, <2>3 DEF IInv, ReaderInv, StatusAt
<1>14. EndInv'
    BY <1>1 DEF EndInv
<1>. QED  BY <1>10, <1>11, <1>12, <1>13, <1>14 DEF IInv

\* DecodeStep in a state of the system.
LEMMA Call ==
    ASSUME IInv, result = "reading"
    PROVE  LET r == decode(status, rbuf)
               k == Len(decoded)
           IN  /\ Waits(r, k, got, 0) \/ Returns(r, k, got, 0) \/ Fails(r, k)
               /\ r.out # NONE \/ r.status.at = "data" => k < next - 1
<1>. DEFINE k == Len(decoded)
            r == decode(status, rbuf)
            b == Taken(status, k)
            K == next - 1
<1>1. /\ StatusAt(status, k) /\ Carries(rbuf, b) /\ got = b + Len(rbuf)
      /\ got + Len(wbuf) < FramesEnd[K] + HEADER_LENGTH
    BY DEF IInv, ReaderInv, WriterInv
<1>2. /\ rbuf \in Bytes /\ Len(rbuf) \in Nat /\ Len(wbuf) \in Nat /\ got \in Nat
      /\ k \in 0..Len(BodyLength) /\ K \in 0..Len(BodyLength) /\ k <= K
    BY Shape
<1>3. FramesEnd[K] \in Nat /\ HEADER_LENGTH \in Nat
    BY <1>2, FramesEndFacts, Lengths
<1>. HIDE DEF k, K, r, b
<1>4. b + Len(rbuf) < FramesEnd[K] + HEADER_LENGTH
    BY <1>1, <1>2, <1>3
<1>5. /\ Waits(r, k, b, Len(rbuf)) \/ Returns(r, k, b, Len(rbuf)) \/ Fails(r, k)
      /\ r.out # NONE \/ r.status.at = "data" => k < K
    BY <1>1, <1>2, <1>4, DecodeStep DEF r, b
<1>6. b + Len(rbuf) = got + 0
    BY <1>1, <1>2
<1>7. Waits(r, k, got, 0) \/ Returns(r, k, got, 0) \/ Fails(r, k)
    BY <1>5, <1>6 DEF Waits, Returns
<1>. QED  BY <1>5, <1>7 DEF k, K, r

\* A decoder in step has a well-formed status.
LEMMA StatusType ==
    ASSUME NEW st, NEW k, StatusAt(st, k)
    PROVE  st \in DecodeStatus
<1>1. CASE st = Head_
    BY <1>1 DEF DecodeStatus
<1>2. CASE k + 1 \in Messages /\ st = Data_(TRUE, BodyLength[k + 1])
  <2>1. BodyLength[k + 1] \in {BodyLength[m] : m \in Messages}
      BY <1>2
  <2>. QED  BY <1>2, <2>1 DEF DecodeStatus, Data_
<1>. QED  BY <1>1, <1>2 DEF StatusAt

\* A call of decode keeps the invariant, whatever poll_next makes of its
\* result, as long as an error ends the stream.
LEMMA Decoding ==
    ASSUME NEW r, IInv, result = "reading", r = decode(status, rbuf), Apply(r),
           UNCHANGED <<sender, next, wbuf, clean, got>>,
           result' \in {"reading", "eof", "error"}, readable' \in BOOLEAN,
           r.out = ERROR => result' = "error",
           result' = "eof" => r.src = <<>> /\ wbuf = <<>> /\ sender = "closed"
    PROVE  IInv'
<1>. DEFINE k == Len(decoded)
<1>1. /\ Waits(r, k, got, 0) \/ Returns(r, k, got, 0) \/ Fails(r, k)
      /\ r.out # NONE \/ r.status.at = "data" => k < next - 1
    BY Call
<1>2. /\ status' = r.status /\ rbuf' = r.src
      /\ decoded' = IF r.out \in Messages THEN Append(decoded, r.out) ELSE decoded
    BY DEF Apply
<1>3. NONE \notin Messages /\ ERROR \notin Messages /\ NONE # ERROR
    BY DEF NONE, ERROR, Messages
<1>4. k \in Nat /\ next \in Nat /\ got \in Nat /\ decoded \in Seq(Messages) /\ k < next
      /\ \A i \in 1..k : decoded[i] = i
    BY Shape DEF IInv, TypeOK, DecodedIsPrefix
<1>5. WriterInv'
    BY DEF IInv, WriterInv, Carries
<1>6. EndInv'
    BY <1>2 DEF EndInv
<1>7. ASSUME r.src \in Bytes, StatusAt(r.status, k) \/ r.status = Head_, decoded' \in Seq(Messages)
      PROVE  TypeOK'
  <2>1. r.status \in DecodeStatus
      BY <1>7, StatusType DEF StatusAt
  <2>. QED  BY <1>2, <1>7, <2>1 DEF IInv, TypeOK, Bytes
<1>. HIDE DEF k
<1>8. CASE Waits(r, k, got, 0)
  <2>1. /\ r.src \in Bytes /\ StatusAt(r.status, k) /\ decoded' = decoded
        /\ Carries(r.src, Taken(r.status, k)) /\ Taken(r.status, k) + Len(r.src) = got
      BY <1>2, <1>3, <1>4, <1>8 DEF Waits
  <2>2. TypeOK'
      BY <1>4, <1>7, <2>1
  <2>3. DecodedIsPrefix'
      BY <2>1 DEF IInv, DecodedIsPrefix
  <2>4. Len(decoded') = k
      BY <2>1 DEF k
  <2>5. ReaderInv'
    <3>1. Carries(rbuf', Taken(status', Len(decoded'))) /\ StatusAt(status', Len(decoded'))
          /\ got' = Taken(status', Len(decoded')) + Len(rbuf')
        BY <1>2, <2>1, <2>4
    <3>. QED  BY <3>1 DEF ReaderInv, Carries, Taken, StatusAt
  <2>. QED  BY <1>5, <1>6, <2>2, <2>3, <2>5 DEF IInv
<1>9. CASE Returns(r, k, got, 0)
  <2>1. /\ r.src \in Bytes /\ r.status = Head_ /\ r.out = k + 1 /\ k + 1 \in Messages
        /\ Carries(r.src, FramesEnd[k + 1]) /\ FramesEnd[k + 1] + Len(r.src) = got
      BY <1>4, <1>9 DEF Returns
  <2>2. decoded' = Append(decoded, k + 1) /\ k + 1 < next
      BY <1>1, <1>2, <1>3, <1>4, <2>1
  <2>3. /\ decoded' \in Seq(Messages) /\ Len(decoded') = k + 1
        /\ \A i \in 1..k : decoded'[i] = decoded[i]
        /\ decoded'[k + 1] = k + 1
      BY <1>4, <2>1, <2>2, AppendProperties DEF k
  <2>4. TypeOK'
      BY <1>7, <2>1, <2>3
  <2>5. DecodedIsPrefix'
    <3>1. \A i \in 1..(k + 1) : decoded'[i] = i
      <4>. TAKE i \in 1..(k + 1)
      <4>1. i \in 1..k \/ i = k + 1
          BY <1>4
      <4>. QED  BY <1>4, <2>3, <4>1
    <3>. QED  BY <2>2, <2>3, <3>1 DEF DecodedIsPrefix
  <2>6. ReaderInv'
    <3>0. Head_.at # "data"
        BY DEF Head_
    <3>1. FramesEnd[k + 1] \in Nat
        BY <2>1, FramesEndFacts
    <3>2. Taken(status', k + 1) = FramesEnd[k + 1]
        BY <1>2, <2>1, <3>0, <3>1 DEF Taken
    <3>3. Carries(rbuf', Taken(status', Len(decoded'))) /\ StatusAt(status', Len(decoded'))
          /\ got' = Taken(status', Len(decoded')) + Len(rbuf')
        BY <1>2, <2>1, <2>3, <3>2 DEF StatusAt
    <3>. QED  BY <3>3 DEF ReaderInv, Carries, Taken, StatusAt
  <2>. QED  BY <1>5, <1>6, <2>4, <2>5, <2>6 DEF IInv
<1>10. CASE Fails(r, k)
  <2>1. /\ r.src \in Bytes /\ StatusAt(r.status, k) /\ decoded' = decoded /\ result' = "error"
      BY <1>2, <1>3, <1>10 DEF Fails
  <2>2. TypeOK'
      BY <1>4, <1>7, <2>1
  <2>3. DecodedIsPrefix'
      BY <2>1 DEF IInv, DecodedIsPrefix
  <2>4. ReaderInv'
      BY <2>1 DEF ReaderInv
  <2>. QED  BY <1>5, <1>6, <2>2, <2>3, <2>4 DEF IInv
<1>. QED  BY <1>1, <1>8, <1>9, <1>10

\* poll_next calls decode.
LEMMA DecodeKeeps == ASSUME IInv, Decode PROVE IInv'
<1>. DEFINE r == decode(status, rbuf)
<1>1. /\ result = "reading" /\ Apply(r) /\ readable' = (r.out \in Messages)
      /\ result' = IF r.out = ERROR THEN "error" ELSE result
      /\ UNCHANGED <<sender, next, wbuf, clean, got>>
    BY DEF Decode
<1>. HIDE DEF r
<1>2. /\ result' \in {"reading", "eof", "error"} /\ readable' \in BOOLEAN
      /\ r.out = ERROR => result' = "error"
      /\ result' # "eof" /\ r = decode(status, rbuf)
    BY <1>1 DEF r
<1>. QED  BY <1>1, <1>2, Decoding

\* poll_next calls decode_eof.
LEMMA DecodeEofKeeps == ASSUME IInv, DecodeEof PROVE IInv'
<1>. DEFINE r == decode(status, rbuf)
<1>1. /\ result = "reading" /\ Apply(r) /\ sender = "closed" /\ wbuf = <<>>
      /\ result' = IF r.out \in Messages THEN "reading"
                   ELSE IF r.out = NONE /\ r.src = <<>> THEN "eof" ELSE "error"
      /\ UNCHANGED <<sender, next, wbuf, readable, clean, got>>
    BY DEF DecodeEof
<1>. HIDE DEF r
<1>2. NONE \notin Messages /\ ERROR \notin Messages /\ NONE # ERROR
    BY DEF NONE, ERROR, Messages
<1>3. /\ result' \in {"reading", "eof", "error"}
      /\ r.out = ERROR => result' = "error"
      /\ result' = "eof" => r.src = <<>>
      /\ r = decode(status, rbuf)
    BY <1>1, <1>2 DEF r
<1>4. readable' \in BOOLEAN
    BY <1>1 DEF IInv, TypeOK
<1>. QED  BY <1>1, <1>3, <1>4, Decoding

\* Every step keeps the invariant.
LEMMA Kept == ASSUME IInv, [Next]_vars PROVE IInv'
<1>1. CASE UNCHANGED vars
    BY <1>1 DEF vars, IInv, TypeOK, DecodedIsPrefix, WriterInv, ReaderInv, EndInv, Carries, StatusAt, Taken
<1>. QED
    BY <1>1, StartSendStep, StartSendFailsStep, CloseStep, CutStep, ReadStep, DecodeKeeps,
       DecodeEofKeeps DEF Next

-----------------------------------------------------------------------------
(* Ends of the stream                                                      *)

\* A stream that was not cut has no part of a frame at its end.
LEMMA NoHalfFrame ==
    ASSUME NEW x, IInv, clean, wbuf = <<>>, x \in Nat, x > 0,
           got = FramesEnd[Len(decoded)] + x,
           \/ x < HEADER_LENGTH
           \/ Len(decoded) < next - 1 /\ x < FrameLength(Len(decoded) + 1)
    PROVE  FALSE
<1>. DEFINE k == Len(decoded)
            K == next - 1
            E == FramesEnd[k]
            F == FrameLength(k + 1)
<1>1. /\ k \in 0..Len(BodyLength) /\ K \in 0..Len(BodyLength) /\ k <= K
      /\ k \in Nat /\ K \in Int /\ got \in Nat
    BY Shape
<1>2. E \in Nat /\ FramesEnd[K] \in Nat /\ HEADER_LENGTH \in Nat
    BY <1>1, FramesEndFacts, Lengths
<1>3. got = FramesEnd[K]
  <2>1. got + Len(wbuf) = FramesEnd[K] /\ Len(wbuf) = 0
      BY NoBytes DEF IInv, WriterInv
  <2>. QED  BY <1>1, <2>1
<1>. HIDE DEF k, K, F
<1>4. CASE k = K
    BY <1>2, <1>3, <1>4 DEF k
<1>5. CASE k < K
  <2>1. k + 1 \in Messages /\ FramesEnd[k + 1] = E + F /\ FramesEnd[k + 1] <= FramesEnd[K]
      BY <1>1, <1>5, FramesApart DEF F
  <2>2. F = HEADER_LENGTH + BodyLength[k + 1] /\ BodyLength[k + 1] \in Nat
      BY <2>1, Lengths DEF F, FrameLength
  <2>3. x < F
      BY <1>2, <2>2 DEF k, F
  <2>4. F \in Nat
      BY ONLY <1>2, <2>2
  <2>5. E + F <= E + x
    <3>1. FramesEnd[K] = E + x
        BY <1>3 DEF k
    <3>. QED  BY <2>1, <3>1
  <2>. HIDE DEF E
  <2>. QED  BY <1>2, <2>3, <2>4, <2>5
<1>. QED  BY <1>1, <1>4, <1>5

\* The invariant says where a stream can end without an error.
LEMMA Boundary == IInv => CleanEndBoundary
<1>. SUFFICES ASSUME IInv, result = "eof",
                     got # FramesEnd[Len(decoded)]
              PROVE  ~clean /\ got = FramesEnd[Len(decoded)] + HEADER_LENGTH
    BY DEF CleanEndBoundary
<1>. DEFINE k == Len(decoded)
<1>1. /\ wbuf = <<>> /\ StatusAt(status, k) /\ Len(rbuf) = 0
      /\ got = Taken(status, k) + Len(rbuf)
    BY NoBytes DEF IInv, EndInv, ReaderInv
<1>2. /\ k \in Nat /\ FramesEnd[k] \in Nat /\ HEADER_LENGTH \in Nat /\ HEADER_LENGTH > 0
      /\ Len(wbuf) = 0 /\ k <= next - 1 /\ next \in Nat /\ k \in 0..Len(BodyLength)
      /\ next - 1 \in 0..Len(BodyLength)
    BY <1>1, Shape, FramesEndFacts, Lengths, NoBytes DEF HEADER_LENGTH
<1>3. got = FramesEnd[k] + HEADER_LENGTH /\ status.at = "data"
    BY <1>1, <1>2 DEF Taken
<1>4. got + Len(wbuf) < FramesEnd[next - 1] + HEADER_LENGTH
    BY DEF IInv, WriterInv
<1>5. k < next - 1
  <2>1. FramesEnd[k] < FramesEnd[next - 1] \/ k # next - 1
      BY <1>2, <1>3, <1>4
  <2>. QED  BY <1>2, <2>1
<1>6. HEADER_LENGTH < FrameLength(k + 1)
  <2>1. k + 1 \in Messages
      BY <1>2, <1>5, FramesApart
  <2>2. BodyLength[k + 1] \in Nat /\ BodyLength[k + 1] > 0
      BY <2>1, Lengths
  <2>. QED  BY <1>2, <2>2 DEF FrameLength
<1>7. ~clean
    BY <1>1, <1>2, <1>3, <1>5, <1>6, NoHalfFrame
<1>. QED  BY <1>3, <1>7

\* With compression on, no step turns a clean stream into an error.
LEMMA NoErrorStep ==
    ASSUME compress, IInv, NoDecodeError, [Next]_vars
    PROVE  NoDecodeError'
<1>. SUFFICES ASSUME clean' PROVE result' # "error"
    BY DEF NoDecodeError
<1>1. clean \in BOOLEAN /\ result \in {"reading", "eof", "error"}
    BY DEF IInv, TypeOK
<1>2. CASE StartSend \/ StartSendFails \/ Close \/ Cut \/ Read \/ UNCHANGED vars
    BY <1>2 DEF StartSend, StartSendFails, Close, Cut, Read, vars, NoDecodeError
<1>. DEFINE r == decode(status, rbuf)
            k == Len(decoded)
<1>3. ASSUME result = "reading"
      PROVE  /\ Waits(r, k, got, 0) \/ Returns(r, k, got, 0)
             /\ r.out # NONE \/ r.status.at = "data" => k < next - 1
  <2>. HIDE DEF r, k
  <2>1. /\ Waits(r, k, got, 0) \/ Returns(r, k, got, 0) \/ Fails(r, k)
        /\ r.out # NONE \/ r.status.at = "data" => k < next - 1
      BY <1>3, Call DEF r, k
  <2>. QED  BY <2>1 DEF Fails
<1>4. NONE # ERROR /\ ERROR \notin Messages
    BY DEF NONE, ERROR, Messages
<1>5. CASE Decode
  <2>1. result = "reading" /\ result' = IF r.out = ERROR THEN "error" ELSE result
      BY <1>5 DEF Decode
  <2>. HIDE DEF r, k
  <2>2. r.out # ERROR
      BY <1>3, <1>4, <2>1 DEF Waits, Returns
  <2>. QED  BY <2>1, <2>2
<1>6. CASE DecodeEof
  <2>1. /\ result = "reading" /\ wbuf = <<>> /\ clean
        /\ result' = IF r.out \in Messages THEN "reading"
                     ELSE IF r.out = NONE /\ r.src = <<>> THEN "eof" ELSE "error"
      BY <1>6 DEF DecodeEof
  <2>. HIDE DEF r, k
  <2>2. CASE Returns(r, k, got, 0)
      BY <2>1, <2>2 DEF Returns
  <2>3. CASE Waits(r, k, got, 0) /\ r.src = <<>>
      BY <2>1, <2>3 DEF Waits
  <2>4. CASE Waits(r, k, got, 0) /\ r.src # <<>>
    <3>. DEFINE n == Len(r.src)
    <3>1. /\ r.src \in Bytes /\ Taken(r.status, k) + n = got + 0 /\ StatusAt(r.status, k)
          /\ \/ r.status = Head_ /\ n < HEADER_LENGTH
             \/ r.status.at = "data" /\ n < BodyLength[k + 1]
        BY <2>4 DEF Waits
    <3>2. n \in Nat /\ n > 0
        BY <2>4, <3>1, NoBytes, BytesFacts
    <3>3. /\ k \in Nat /\ FramesEnd[k] \in Nat /\ HEADER_LENGTH \in Nat /\ got \in Nat
          /\ Head_.at # "data"
        BY Shape, FramesEndFacts, Lengths DEF k, Head_
    <3>. HIDE DEF n
    <3>4. CASE r.status = Head_ /\ n < HEADER_LENGTH
      <4>1. got = FramesEnd[k] + n
          BY <3>1, <3>2, <3>3, <3>4 DEF Taken
      <4>. QED  BY <2>1, <3>2, <3>4, <4>1, NoHalfFrame DEF k
    <3>5. CASE r.status.at = "data" /\ n < BodyLength[k + 1]
      <4>. DEFINE x == HEADER_LENGTH + n
      <4>1. got = FramesEnd[k] + x /\ x \in Nat /\ x > 0
          BY <3>1, <3>2, <3>3, <3>5 DEF Taken
      <4>2. k + 1 \in Messages /\ k < next - 1
          BY <1>3, <2>1, <3>1, <3>3, <3>5 DEF StatusAt
      <4>3. x < FrameLength(k + 1)
        <5>1. BodyLength[k + 1] \in Nat
            BY <4>2, Lengths
        <5>. QED  BY <3>2, <3>3, <3>5, <5>1 DEF FrameLength
      <4>. HIDE DEF x
      <4>. QED  BY <2>1, <4>1, <4>2, <4>3, NoHalfFrame DEF k
    <3>. QED  BY <3>1, <3>4, <3>5
  <2>. QED  BY <1>3, <2>1, <2>2, <2>3, <2>4
<1>7. StartSend \/ StartSendFails \/ Close \/ Cut \/ Read \/ Decode \/ DecodeEof \/ UNCHANGED vars
    BY DEF Next
<1>. HIDE DEF r, k
<1>. QED  BY <1>2, <1>5, <1>6, <1>7

-----------------------------------------------------------------------------
(* Theorems                                                                *)

\* The invariant holds for every list of messages, split of the stream into
\* pieces and place where it is cut.
THEOREM Invariance == Spec => []IInv
BY Started, Kept, PTL DEF Spec

\* decode keeps the state of the codec well formed: the length it waits for is
\* that of a body, however its header was split.
THEOREM TypeCorrect == Spec => []TypeOK
<1>1. IInv => TypeOK
    BY DEF IInv
<1>. QED  BY <1>1, Invariance, PTL

\* The decoder returns the encoded messages in order, each once, however the
\* bytes arrive and wherever the connection is cut.
THEOREM Decoded == Spec => []DecodedIsPrefix
<1>1. IInv => DecodedIsPrefix
    BY DEF IInv
<1>. QED  BY <1>1, Invariance, PTL

\* The stream ends without an error only behind a whole frame, or exactly
\* behind a header whose body is lost.
THEOREM EndsAtBoundary == Spec => []CleanEndBoundary
BY Boundary, Invariance, PTL

\* With compression configured, decode never reports an error on a stream that
\* is not cut inside a frame.  (Without it every body fails: both values of the
\* compress byte are 1.)
THEOREM NoErrors ==
    ASSUME compress
    PROVE  Spec => []NoDecodeError
<1>1. Init => NoDecodeError
    BY DEF Init, NoDecodeError
<1>2. IInv /\ NoDecodeError /\ [Next]_vars => NoDecodeError'
    BY NoErrorStep
<1>. QED  BY <1>1, <1>2, Invariance, PTL DEF Spec
=============================================================================
