---------------------------- MODULE Hybi13_proofs ----------------------------
(* Proofs about Hybi13, for every set of streams, whatever their frames, keys  *)
(* and payloads, for every limit and for every way of cutting the bytes into   *)
(* reads.                                                                      *)
EXTENDS Hybi13, FiniteSums, SequenceTheorems

\* The check of UTF-8.

Verdict == {"accept", "one", "two", "three", "E0", "ED", "F0", "F4", "reject"}

LEMMA DecodeType == \A s \in Verdict, b \in Byte : Decode(s, b) \in Verdict
  BY DEF Decode, Verdict

\* f holds the verdict after each of the bytes.
Judges(f, s, bytes) ==
    f[0] = s /\ \A n \in 1..Len(bytes) : f[n] = Decode(f[n - 1], bytes[n])

LEMMA DecodedByStep ==
  ASSUME NEW s \in Verdict, NEW bytes \in Seq(Byte)
  PROVE  \E f \in [0..Len(bytes) -> Verdict] :
            Judges(f, s, bytes) /\ Decoded(s, bytes) = f[Len(bytes)]
<1> DEFINE N == Len(bytes)
           Step(f) == f = [k \in 0..N |-> IF k = 0 THEN s ELSE Decode(f[k - 1], bytes[k])]
           g == [v \in Verdict |-> [n \in 1..N |-> Decode(v, bytes[n])]]
<1>n. N \in Nat /\ \A k \in 1..N : bytes[k] \in Byte
  BY ElementOfSeq
<1>1. g \in [Verdict -> [1..N -> Verdict]]
  BY <1>n, DecodeType
<1>2. PICK f : Iterates(f, Verdict, s, N, g, N)
  <2> HIDE DEF g, N
  <2>1. QED
    BY <1>n, <1>1, Recursion
<1>3. ASSUME NEW n \in 1..N PROVE f[n] = Decode(f[n - 1], bytes[n])
  <2>1. f[n - 1] \in Verdict /\ f[n] = g[f[n - 1]][n]
    <3> HIDE DEF g, N
    <3>1. QED
      BY <1>n, <1>2 DEF Iterates
  <2>2. g[f[n - 1]][n] = Decode(f[n - 1], bytes[n])
    BY <2>1
  <2>3. QED
    BY <2>1, <2>2
<1>4. Step(f)
  BY <1>n, <1>2, <1>3 DEF Iterates
<1> DEFINE c == CHOOSE h : Step(h)
<1>5. Step(c)
  <2> HIDE DEF Step
  <2>1. QED
    BY <1>4
<1>6. Decoded(s, bytes) = c[N]
  BY DEF Decoded
<1> HIDE DEF c
<1>7. c[0] = s /\ \A n \in 1..N : c[n] = Decode(c[n - 1], bytes[n])
  BY <1>n, <1>5
<1>8. \A n \in 0..N : c[n] \in Verdict
  <2>1. ASSUME NEW n \in 1..N PROVE Decode(c[n - 1], bytes[n]) \in Verdict
    BY DEF Decode, Verdict
  <2>2. QED
    BY <1>n, <1>7, <2>1
<1>9. c \in [0..N -> Verdict]
  <2>1. c = [k \in 0..N |-> c[k]]
    BY <1>5
  <2>2. QED
    BY <1>8, <2>1
<1>10. QED
  BY <1>6, <1>7, <1>9 DEF Judges

LEMMA DecodedIs ==
  ASSUME NEW s \in Verdict, NEW bytes \in Seq(Byte), NEW f, Judges(f, s, bytes)
  PROVE  Decoded(s, bytes) = f[Len(bytes)]
<1>1. PICK g \in [0..Len(bytes) -> Verdict] :
          Judges(g, s, bytes) /\ Decoded(s, bytes) = g[Len(bytes)]
  BY DecodedByStep
<1> DEFINE T == {n \in Nat : n <= Len(bytes) => f[n] = g[n]}
<1>2. ASSUME NEW n \in Nat, \A m \in 0..(n - 1) : m \in T PROVE n \in T
  <2>1. CASE n = 0
    BY <1>1, <2>1 DEF Judges
  <2>2. CASE n # 0 /\ n <= Len(bytes)
    <3>1. n - 1 \in T /\ n - 1 <= Len(bytes) /\ n \in 1..Len(bytes)
      BY <1>2, <2>2
    <3>2. f[n - 1] = g[n - 1]
      BY <3>1
    <3>3. f[n] = Decode(f[n - 1], bytes[n]) /\ g[n] = Decode(g[n - 1], bytes[n])
      BY <1>1, <3>1 DEF Judges
    <3>4. QED
      BY <3>2, <3>3
  <2>3. QED
    BY <2>1, <2>2
<1>3. T \in SUBSET Nat
  OBVIOUS
<1> HIDE DEF T
<1>4. Len(bytes) \in T
  BY <1>2, <1>3, BySmallest
<1>5. QED
  BY <1>1, <1>4 DEF T

LEMMA DecodedType ==
  ASSUME NEW s \in Verdict, NEW bytes \in Seq(Byte)
  PROVE  Decoded(s, bytes) \in Verdict
BY DecodedByStep

LEMMA DecodedNothing == ASSUME NEW s \in Verdict PROVE Decoded(s, <<>>) = s
<1>1. Judges([k \in 0..0 |-> s], s, <<>>)
  BY DEF Judges
<1>2. QED
  BY <1>1, DecodedIs

\* The verdict on bytes that come in two parts.
LEMMA DecodedConcat ==
  ASSUME NEW s \in Verdict, NEW a \in Seq(Byte), NEW b \in Seq(Byte)
  PROVE  Decoded(s, a \o b) = Decoded(Decoded(s, a), b)
<1>1. PICK f \in [0..Len(a) -> Verdict] : Judges(f, s, a) /\ Decoded(s, a) = f[Len(a)]
  BY DecodedByStep
<1>2. Decoded(s, a) \in Verdict
  BY DecodedType
<1>3. PICK g \in [0..Len(b) -> Verdict] :
          Judges(g, Decoded(s, a), b) /\ Decoded(Decoded(s, a), b) = g[Len(b)]
  BY <1>2, DecodedByStep
<1>4. /\ a \o b \in Seq(Byte) /\ Len(a \o b) = Len(a) + Len(b)
      /\ \A i \in 1..(Len(a) + Len(b)) :
            (a \o b)[i] = IF i <= Len(a) THEN a[i] ELSE b[i - Len(a)]
  BY ConcatProperties
<1> DEFINE h == [k \in 0..(Len(a) + Len(b)) |-> IF k <= Len(a) THEN f[k] ELSE g[k - Len(a)]]
<1>5. ASSUME NEW n \in 1..(Len(a) + Len(b)) PROVE h[n] = Decode(h[n - 1], (a \o b)[n])
  <2>1. CASE n <= Len(a)
    <3>1. h[n] = f[n] /\ h[n - 1] = f[n - 1] /\ (a \o b)[n] = a[n] /\ n \in 1..Len(a)
      BY <1>4, <2>1
    <3>2. QED
      BY <1>1, <3>1 DEF Judges
  <2>2. CASE n = Len(a) + 1
    <3>1. h[n] = g[1] /\ h[n - 1] = f[Len(a)] /\ (a \o b)[n] = b[1] /\ 1 \in 1..Len(b)
      BY <1>4, <2>2
    <3>2. g[1] = Decode(g[0], b[1]) /\ g[0] = f[Len(a)]
      BY <1>1, <1>3, <3>1 DEF Judges
    <3>3. QED
      BY <3>1, <3>2
  <2>3. CASE n > Len(a) + 1
    <3>1. /\ h[n] = g[n - Len(a)] /\ h[n - 1] = g[(n - Len(a)) - 1]
          /\ (a \o b)[n] = b[n - Len(a)] /\ n - Len(a) \in 1..Len(b)
      BY <1>4, <2>3
    <3>2. QED
      BY <1>3, <3>1 DEF Judges
  <2>4. QED
    BY <2>1, <2>2, <2>3
<1>6. h[0] = s /\ h[Len(a \o b)] = g[Len(b)]
  <2>1. Len(a) \in Nat /\ Len(b) \in Nat
    OBVIOUS
  <2>2. CASE Len(b) = 0
    BY <1>1, <1>3, <1>4, <2>1, <2>2 DEF Judges
  <2>3. CASE Len(b) # 0
    BY <1>1, <1>4, <2>1, <2>3 DEF Judges
  <2>4. QED
    BY <2>2, <2>3
<1> HIDE DEF h
<1>7. Judges(h, s, a \o b)
  BY <1>4, <1>5, <1>6 DEF Judges
<1>8. Decoded(s, a \o b) = h[Len(a \o b)]
  BY <1>4, <1>7, DecodedIs
<1>9. QED
  BY <1>3, <1>6, <1>8
-----------------------------------------------------------------------------
\* The bytes of the frames.

\* A frame whose length is what its code can hold.
Fitting == {f \in Frames : Len(f.payload) <= IF f.code = 7 THEN 125 ELSE 65535}

LEMMA StreamsFit == \A s \in Streams : s \in Seq(Fitting)
<1>1. ASSUME NEW s \in Streams PROVE s \in Seq(Fitting)
  <2>1. s \in Seq(Frames) /\ DOMAIN s = 1..Len(s)
    BY Hybi13Assumption
  <2>2. \A i \in 1..Len(s) : s[i] \in Fitting
    <3>1. ASSUME NEW i \in 1..Len(s) PROVE s[i] \in Fitting
      <4>1. s[i] \in Frames
        BY <2>1, ElementOfSeq
      <4>2. Len(s[i].payload) <= IF s[i].code = 7 THEN 125 ELSE 65535
        BY <2>1, Hybi13Assumption
      <4>3. QED
        BY <4>1, <4>2 DEF Fitting
    <3>2. QED
      BY <3>1
  <2>3. s \in [1..Len(s) -> Fitting] /\ Len(s) \in Nat
    BY <2>1, <2>2, LenProperties
  <2>4. QED
    BY <2>3, SeqDef
<1>2. QED
  BY <1>1

LEMMA FrameType ==
  ASSUME NEW f \in Fitting
  PROVE  /\ f.op \in 0..15 /\ f.fin \in BOOLEAN /\ f.rsv \in 0..7 /\ f.masked \in BOOLEAN
         /\ f.code \in {7, 16} /\ f.key \in [1..4 -> Byte] /\ f.payload \in Seq(Byte)
         /\ Len(f.payload) \in Nat
         /\ f.code = 7 => Len(f.payload) <= 125
         /\ f.code = 16 => Len(f.payload) <= 65535
<1>1. /\ f.op \in 0..15 /\ f.fin \in BOOLEAN /\ f.rsv \in 0..7 /\ f.masked \in BOOLEAN
      /\ f.code \in {7, 16} /\ f.key \in [1..4 -> Byte] /\ f.payload \in Seq(Byte)
  BY DEF Fitting, Frames
<1>2. Len(f.payload) <= IF f.code = 7 THEN 125 ELSE 65535
  BY DEF Fitting
<1>3. QED
  BY <1>1, <1>2

\* The basic header, a length and a masking key.
HeaderSize(f) == 2 + (IF f.code = 16 THEN 2 ELSE 0) + (IF f.masked THEN 4 ELSE 0)

LEMMA XorType == \A a, b \in Byte : ByteXor[a][b] \in Byte
  BY Hybi13Assumption

LEMMA UnderKeyType ==
  ASSUME NEW f \in Fitting
  PROVE  UnderKey(f) \in Seq(Byte) /\ Len(UnderKey(f)) = Len(f.payload)
<1>1. f.payload \in Seq(Byte) /\ Len(f.payload) \in Nat /\ f.key \in [1..4 -> Byte]
  BY FrameType
<1>2. ASSUME NEW i \in 1..Len(f.payload)
      PROVE  (IF f.masked THEN ByteXor[f.payload[i]][f.key[((i - 1) % 4) + 1]] ELSE f.payload[i])
                \in Byte
  <2>1. f.payload[i] \in Byte /\ ((i - 1) % 4) + 1 \in 1..4
    BY <1>1
  <2>2. f.key[((i - 1) % 4) + 1] \in Byte
    BY <1>1, <2>1
  <2>3. QED
    BY <2>1, <2>2, XorType
<1>3. UnderKey(f) \in [1..Len(f.payload) -> Byte]
  BY <1>2 DEF UnderKey
<1>4. UnderKey(f) \in Seq(Byte)
  BY <1>1, <1>3, SeqDef
<1>5. QED
  BY <1>1, <1>3, <1>4, LenProperties

\* The fields of a header byte.
LEMMA FirstByte ==
  \A r \in 0..7, o \in 0..15 :
     /\ r * 16 + o \in 0..127 /\ 128 + r * 16 + o \in 128..255
     /\ (r * 16 + o) % 16 = o /\ ((r * 16 + o) \div 16) % 8 = r
     /\ (128 + r * 16 + o) % 16 = o /\ ((128 + r * 16 + o) \div 16) % 8 = r
  OBVIOUS

LEMMA SecondByte ==
  \A n \in 0..127 : /\ 0 + n \in 0..127 /\ 128 + n \in 128..255
                    /\ (0 + n) % 128 = n /\ (128 + n) % 128 = n
  OBVIOUS

\* A length of two bytes.
LEMMA TwoBytes ==
  ASSUME NEW n \in Nat, n <= 65535, NEW x \in Int, NEW y \in Int, x = n \div 256, y = n % 256
  PROVE  x \in 0..255 /\ y \in 0..255 /\ n = x * 256 + y
<1>1. n = x * 256 + y
  OBVIOUS
<1>2. y \in 0..255
  OBVIOUS
<1>3. x \in 0..255
  BY <1>1, <1>2
<1>4. QED
  BY <1>1, <1>2, <1>3

LEMMA BasicHeaderOf ==
  ASSUME NEW f \in Fitting
  PROVE  /\ BasicHeader(f) \in Seq(Byte) /\ Len(BasicHeader(f)) = 2
         /\ BasicHeader(f)[1] % 16 = f.op /\ (BasicHeader(f)[1] \div 16) % 8 = f.rsv
         /\ BasicHeader(f)[1] >= 128 <=> f.fin
         /\ BasicHeader(f)[2] % 128 = IF f.code = 16 THEN 126 ELSE Len(f.payload)
         /\ BasicHeader(f)[2] >= 128 <=> f.masked
<1>1. PICK r \in 0..7, o \in 0..15 : r = f.rsv /\ o = f.op
  BY FrameType
<1>2. PICK n : n \in 0..127 /\ n = IF f.code = 16 THEN 126 ELSE Len(f.payload)
  <2>1. PICK c, p \in Nat : c = f.code /\ p = Len(f.payload)
    BY FrameType
  <2>2. c \in {7, 16} /\ (c = 7 => p <= 125)
    BY <2>1, FrameType
  <2>3. (IF c = 16 THEN 126 ELSE p) \in 0..127
    BY <2>2
  <2>4. QED
    BY <2>1, <2>3
<1>n. n \in 0..127
  BY <1>2
<1>3. PICK b : b = (IF f.fin THEN 128 ELSE 0) + r * 16 + o
  OBVIOUS
<1>4. PICK c : c = (IF f.masked THEN 128 ELSE 0) + n
  OBVIOUS
<1>5. BasicHeader(f) = <<b, c>>
  BY <1>1, <1>2, <1>3, <1>4 DEF BasicHeader
<1>6. /\ b \in 0..255 /\ b % 16 = o /\ (b \div 16) % 8 = r /\ (b >= 128 <=> f.fin)
  <2>1. f.fin \in BOOLEAN
    BY FrameType
  <2>2. CASE f.fin
    <3>1. b = 128 + r * 16 + o
      BY <1>3, <2>2
    <3>2. QED
      BY <2>2, <3>1, FirstByte
  <2>3. CASE ~f.fin
    <3>1. b = r * 16 + o
      BY <1>3, <2>3
    <3>2. QED
      BY <2>3, <3>1, FirstByte
  <2>4. QED
    BY <2>2, <2>3
<1>7. /\ c \in 0..255 /\ c % 128 = n /\ (c >= 128 <=> f.masked)
  <2>1. CASE f.masked
    <3>1. c = 128 + n
      BY <1>4, <2>1
    <3>2. QED
      BY <1>n, <2>1, <3>1, SecondByte
  <2>2. CASE ~f.masked
    <3>1. c = 0 + n
      BY <1>4, <2>2
    <3>2. QED
      BY <1>n, <2>2, <3>1, SecondByte
  <2>3. QED
    BY <2>1, <2>2
<1>8. b \in Byte /\ c \in Byte
  BY <1>6, <1>7 DEF Byte
<1>9. QED
  BY <1>1, <1>2, <1>5, <1>6, <1>7, <1>8

LEMMA LengthOf ==
  ASSUME NEW f \in Fitting
  PROVE  /\ Length(f) \in Seq(Byte) /\ Len(Length(f)) = IF f.code = 16 THEN 2 ELSE 0
         /\ f.code = 16 => Len(f.payload) = Length(f)[1] * 256 + Length(f)[2]
<1>1. PICK c, n \in Nat : c = f.code /\ n = Len(f.payload)
  BY FrameType
<1>2. c \in {7, 16} /\ (c = 7 => n <= 125) /\ (c = 16 => n <= 65535)
  BY <1>1, FrameType
<1>3. n <= 65535
  BY <1>2
<1>4. PICK x \in Int, y \in Int : x = n \div 256 /\ y = n % 256
  OBVIOUS
<1>5. x \in 0..255 /\ y \in 0..255 /\ n = x * 256 + y
  BY <1>3, <1>4, TwoBytes
<1>6. CASE f.code = 16
  <2>1. Length(f) = <<x, y>>
    BY <1>1, <1>4, <1>6 DEF Length
  <2>2. <<x, y>> \in Seq(Byte) /\ Len(<<x, y>>) = 2 /\ <<x, y>>[1] = x /\ <<x, y>>[2] = y
    BY <1>5 DEF Byte
  <2>3. Len(f.payload) = Length(f)[1] * 256 + Length(f)[2]
    BY <1>1, <1>5, <2>1, <2>2
  <2>4. QED
    BY <1>6, <2>1, <2>2, <2>3
<1>7. CASE f.code # 16
  <2>1. Length(f) = <<>>
    BY <1>7 DEF Length
  <2>2. QED
    BY <1>7, <2>1, EmptySeq
<1>8. QED
  BY <1>6, <1>7

KeyOf(f) == IF f.masked THEN f.key ELSE <<>>

LEMMA KeyLength ==
  ASSUME NEW f \in Fitting
  PROVE  KeyOf(f) \in Seq(Byte) /\ Len(KeyOf(f)) = IF f.masked THEN 4 ELSE 0
<1>1. f.key \in [1..4 -> Byte]
  BY FrameType
<1>2. f.key \in Seq(Byte)
  <2>1. 4 \in Nat
    OBVIOUS
  <2>2. f.key \in UNION {[1..n -> Byte] : n \in Nat}
    BY <1>1, <2>1
  <2>3. QED
    BY <2>2, SeqDef
<1>3. Len(f.key) = 4
  <2>1. DOMAIN f.key = 1..Len(f.key) /\ Len(f.key) \in Nat /\ DOMAIN f.key = 1..4
    BY <1>1, <1>2, LenProperties
  <2>2. PICK n \in Nat : n = Len(f.key)
    BY <2>1
  <2>3. 1..n = 1..4
    BY <2>1, <2>2
  <2>4. n = 4
    BY <2>3
  <2>5. QED
    BY <2>2, <2>4
<1>4. CASE f.masked
  BY <1>2, <1>3, <1>4 DEF KeyOf
<1>5. CASE ~f.masked
  <2>1. KeyOf(f) = <<>>
    BY <1>5 DEF KeyOf
  <2>2. QED
    BY <1>5, <2>1, EmptySeq
<1>6. QED
  BY <1>4, <1>5

\* Where the parts of w, that is a, b, c and d put together, are.
InParts(S, w, a, b, c, d) ==
    /\ w \in Seq(S) /\ Len(w) = Len(a) + Len(b) + Len(c) + Len(d)
    /\ \A i \in 1..Len(a) : w[i] = a[i]
    /\ \A i \in 1..Len(b) : w[Len(a) + i] = b[i]
    /\ \A i \in 1..Len(c) : w[Len(a) + Len(b) + i] = c[i]
    /\ \A i \in 1..Len(d) : w[Len(a) + Len(b) + Len(c) + i] = d[i]

\* Where the two parts of a sequence are.
LEMMA TwoParts ==
  ASSUME NEW S
  PROVE  \A s, t \in Seq(S) :
            /\ s \o t \in Seq(S) /\ Len(s \o t) = Len(s) + Len(t)
            /\ \A i \in 1..Len(s) : (s \o t)[i] = s[i]
            /\ \A i \in 1..Len(t) : (s \o t)[Len(s) + i] = t[i]
  OBVIOUS

LEMMA FourParts ==
  ASSUME NEW S
  PROVE  \A a, b, c, d \in Seq(S) : InParts(S, a \o (b \o c) \o d, a, b, c, d)
<1> SUFFICES ASSUME NEW a \in Seq(S), NEW b \in Seq(S), NEW c \in Seq(S), NEW d \in Seq(S)
             PROVE  InParts(S, a \o (b \o c) \o d, a, b, c, d)
  OBVIOUS
<1>1. PICK m : m = b \o c
  OBVIOUS
<1>2. /\ m \in Seq(S) /\ Len(m) = Len(b) + Len(c)
      /\ \A i \in 1..Len(b) : m[i] = b[i]
      /\ \A i \in 1..Len(c) : m[Len(b) + i] = c[i]
  BY <1>1, TwoParts
<1>m. m \in Seq(S)
  BY <1>2
<1>3. PICK h : h = a \o m
  OBVIOUS
<1>4. /\ h \in Seq(S) /\ Len(h) = Len(a) + Len(m)
      /\ \A i \in 1..Len(a) : h[i] = a[i]
      /\ \A i \in 1..Len(m) : h[Len(a) + i] = m[i]
  BY <1>m, <1>3, TwoParts
<1>h. h \in Seq(S)
  BY <1>4
<1>5. PICK w : w = h \o d
  OBVIOUS
<1>6. /\ w \in Seq(S) /\ Len(w) = Len(h) + Len(d)
      /\ \A i \in 1..Len(h) : w[i] = h[i]
      /\ \A i \in 1..Len(d) : w[Len(h) + i] = d[i]
  BY <1>h, <1>5, TwoParts
<1>7. a \o (b \o c) \o d = w
  BY <1>1, <1>3, <1>5
<1>n. Len(a) \in Nat /\ Len(b) \in Nat /\ Len(c) \in Nat /\ Len(d) \in Nat
  OBVIOUS
<1>8. \A i \in 1..Len(a) : w[i] = a[i]
  BY <1>n, <1>2, <1>4, <1>6
<1>9. ASSUME NEW i \in 1..Len(b) PROVE w[Len(a) + i] = b[i]
  <2>1. Len(a) + i \in 1..Len(h) /\ i \in 1..Len(m)
    BY <1>n, <1>2, <1>4
  <2>2. QED
    BY <1>2, <1>4, <1>6, <2>1
<1>10. ASSUME NEW i \in 1..Len(c) PROVE w[Len(a) + Len(b) + i] = c[i]
  <2>1. Len(a) + (Len(b) + i) \in 1..Len(h) /\ Len(b) + i \in 1..Len(m)
    BY <1>n, <1>2, <1>4
  <2>2. w[Len(a) + (Len(b) + i)] = h[Len(a) + (Len(b) + i)]
    BY <1>6, <2>1
  <2>3. h[Len(a) + (Len(b) + i)] = m[Len(b) + i]
    BY <1>4, <2>1
  <2>4. Len(a) + (Len(b) + i) = Len(a) + Len(b) + i
    BY <1>n
  <2>5. QED
    BY <1>2, <2>2, <2>3, <2>4
<1>11. Len(h) = Len(a) + Len(b) + Len(c) /\ Len(w) = Len(a) + Len(b) + Len(c) + Len(d)
  BY <1>n, <1>2, <1>4, <1>6
<1>12. \A i \in 1..Len(d) : w[Len(a) + Len(b) + Len(c) + i] = d[i]
  BY <1>6, <1>11
<1>13. InParts(S, w, a, b, c, d)
  BY <1>6, <1>8, <1>9, <1>10, <1>11, <1>12 DEF InParts
<1>14. QED
  BY <1>7, <1>13

LEMMA BytesOf ==
  ASSUME NEW f \in Fitting
  PROVE  /\ Bytes(f) \in Seq(Byte)
         /\ Len(Bytes(f)) = HeaderSize(f) + Len(f.payload)
         /\ \A i \in 1..2 : Bytes(f)[i] = BasicHeader(f)[i]
         /\ \A i \in 1..Len(Length(f)) : Bytes(f)[2 + i] = Length(f)[i]
         /\ \A i \in 1..Len(KeyOf(f)) : Bytes(f)[2 + Len(Length(f)) + i] = KeyOf(f)[i]
         /\ \A i \in 1..Len(f.payload) : Bytes(f)[HeaderSize(f) + i] = UnderKey(f)[i]
         /\ HeaderSize(f) = 2 + Len(Length(f)) + Len(KeyOf(f))
<1>1. PICK a \in Seq(Byte) : a = BasicHeader(f) /\ Len(a) = 2
  BY BasicHeaderOf
<1>2. PICK l \in Seq(Byte) : l = Length(f) /\ Len(l) = IF f.code = 16 THEN 2 ELSE 0
  BY LengthOf
<1>3. PICK k \in Seq(Byte) : k = KeyOf(f) /\ Len(k) = IF f.masked THEN 4 ELSE 0
  BY KeyLength
<1>4. PICK u \in Seq(Byte) : u = UnderKey(f) /\ Len(u) = Len(f.payload)
  BY UnderKeyType
<1>5. Bytes(f) = a \o (l \o k) \o u
  BY <1>1, <1>2, <1>3, <1>4 DEF Bytes, KeyOf
<1>6. HeaderSize(f) = Len(a) + Len(l) + Len(k)
  BY <1>1, <1>2, <1>3 DEF HeaderSize
<1>7. /\ Bytes(f) \in Seq(Byte)
      /\ Len(Bytes(f)) = Len(a) + Len(l) + Len(k) + Len(u)
      /\ \A i \in 1..Len(a) : Bytes(f)[i] = a[i]
      /\ \A i \in 1..Len(l) : Bytes(f)[Len(a) + i] = l[i]
      /\ \A i \in 1..Len(k) : Bytes(f)[Len(a) + Len(l) + i] = k[i]
      /\ \A i \in 1..Len(u) : Bytes(f)[Len(a) + Len(l) + Len(k) + i] = u[i]
  <2>1. InParts(Byte, Bytes(f), a, l, k, u)
    BY <1>5, FourParts
  <2>2. QED
    BY <2>1 DEF InParts
<1>8. QED
  BY <1>1, <1>2, <1>3, <1>4, <1>6, <1>7
LEMMA WireByFrame ==
  ASSUME NEW fs \in Seq(Fitting)
  PROVE  /\ Wire(fs)[0] = <<>>
         /\ \A k \in 1..Len(fs) : Wire(fs)[k] = Wire(fs)[k - 1] \o Bytes(fs[k])
         /\ \A k \in 0..Len(fs) : Wire(fs)[k] \in Seq(Byte)
<1> DEFINE D == Seq(Byte)
           N == Len(fs)
           g == [w \in D |-> [n \in 1..N |-> w \o Bytes(fs[n])]]
           Step(f) == f = [k \in 0..N |-> IF k = 0 THEN <<>> ELSE f[k - 1] \o Bytes(fs[k])]
           c == CHOOSE f : Step(f)
<1>n. N \in Nat
  OBVIOUS
<1>b. \A n \in 1..N : Bytes(fs[n]) \in D
  BY ElementOfSeq, BytesOf
<1> HIDE DEF N, D, Step, g, c
<1>1. \A w \in D, n \in 1..N : w \o Bytes(fs[n]) \in D /\ g[w][n] = w \o Bytes(fs[n])
  BY <1>b DEF D, g
<1>2. g \in [D -> [1..N -> D]]
  BY <1>1 DEF g
<1>3. <<>> \in D
  BY DEF D
<1>4. PICK f : Iterates(f, D, <<>>, N, g, N)
  BY <1>n, <1>2, <1>3, Recursion
<1>5. /\ f \in [0..N -> D] /\ f[0] = <<>>
      /\ \A n \in 1..N : f[n] = g[f[n - 1]][n]
  BY <1>4 DEF Iterates
<1>6. ASSUME NEW n \in 1..N PROVE f[n] = f[n - 1] \o Bytes(fs[n])
  <2>1. f[n - 1] \in D
    BY <1>n, <1>5
  <2>2. QED
    BY <1>1, <1>5, <2>1
<1>7. Step(f)
  BY <1>n, <1>5, <1>6 DEF Step
<1>8. Step(c)
  BY <1>7 DEF c
<1>9. Wire(fs) = c
  BY DEF Wire, c, Step, N
<1>10. c[0] = <<>> /\ \A n \in 1..N : c[n] = c[n - 1] \o Bytes(fs[n])
  BY <1>n, <1>8 DEF Step
<1> DEFINE T == {n \in Nat : n <= N => c[n] \in D}
<1>11. ASSUME NEW n \in Nat, \A m \in 0..(n - 1) : m \in T PROVE n \in T
  <2>1. CASE n = 0
    BY <1>3, <1>10, <2>1
  <2>2. CASE n \in 1..N
    <3>1. n - 1 \in 0..(n - 1)
      BY <2>2
    <3>2. n - 1 \in T
      BY <1>11, <3>1
    <3>3. c[n - 1] \in D
      BY <1>n, <2>2, <3>2
    <3>4. QED
      BY <1>1, <1>10, <2>2, <3>3
  <2>3. QED
    BY <1>n, <2>1, <2>2
<1>12. T \in SUBSET Nat
  OBVIOUS
<1> HIDE DEF T
<1>13. T = Nat
  BY <1>11, <1>12, BySmallest
<1>14. \A k \in 0..N : c[k] \in D
  BY <1>n, <1>13 DEF T
<1>15. QED
  BY <1>9, <1>10, <1>14 DEF D, N

\* The place of a frame among the bytes: they grow by two at least with each, and
\* what was there stays where it was.
LEMMA WireGrows ==
  ASSUME NEW fs \in Seq(Fitting), NEW k \in 0..Len(fs) - 1
  PROVE  /\ Len(Wire(fs)[k]) \in Nat /\ Len(Wire(fs)[k + 1]) \in Nat
         /\ Len(Wire(fs)[k + 1]) = Len(Wire(fs)[k]) + Len(Bytes(fs[k + 1]))
         /\ \A i \in 1..Len(Wire(fs)[k]) : Wire(fs)[k + 1][i] = Wire(fs)[k][i]
         /\ \A i \in 1..Len(Bytes(fs[k + 1])) :
               Wire(fs)[k + 1][Len(Wire(fs)[k]) + i] = Bytes(fs[k + 1])[i]
<1>1. k + 1 \in 1..Len(fs) /\ k \in 0..Len(fs) /\ (k + 1) - 1 = k
  OBVIOUS
<1>2. PICK s \in Seq(Byte) : s = Wire(fs)[k]
  BY <1>1, WireByFrame
<1>3. PICK t \in Seq(Byte) : t = Bytes(fs[k + 1])
  BY <1>1, ElementOfSeq, BytesOf
<1>4. Wire(fs)[k + 1] = s \o t
  BY <1>1, <1>2, <1>3, WireByFrame
<1>5. /\ s \o t \in Seq(Byte) /\ Len(s \o t) = Len(s) + Len(t)
      /\ \A i \in 1..Len(s) : (s \o t)[i] = s[i]
      /\ \A i \in 1..Len(t) : (s \o t)[Len(s) + i] = t[i]
  BY TwoParts
<1>6. Len(s) \in Nat /\ Len(s \o t) \in Nat
  BY <1>5
<1>7. QED
  BY <1>2, <1>3, <1>4, <1>5, <1>6

LEMMA WireKeeps ==
  ASSUME NEW fs \in Seq(Fitting), NEW k \in 0..Len(fs), NEW m \in k..Len(fs)
  PROVE  /\ Len(Wire(fs)[k]) \in Nat /\ Len(Wire(fs)[m]) \in Nat
         /\ Len(Wire(fs)[k]) + (m - k) <= Len(Wire(fs)[m])
         /\ \A i \in 1..Len(Wire(fs)[k]) : Wire(fs)[m][i] = Wire(fs)[k][i]
<1> DEFINE Kept(n) == /\ Len(Wire(fs)[n]) \in Nat
                      /\ Len(Wire(fs)[k]) + (n - k) <= Len(Wire(fs)[n])
                      /\ \A i \in 1..Len(Wire(fs)[k]) : Wire(fs)[n][i] = Wire(fs)[k][i]
           T == {n \in Nat : n \in k..Len(fs) => Kept(n)}
<1>n. Len(fs) \in Nat /\ Len(Wire(fs)[k]) \in Nat
  BY WireByFrame
<1>1. ASSUME NEW n \in Nat, \A j \in 0..(n - 1) : j \in T PROVE n \in T
  <2>1. CASE n = k
    BY <1>n, <2>1
  <2>2. CASE n \in (k + 1)..Len(fs)
    <3>1. PICK p \in 0..Len(fs) - 1 : p = n - 1
      BY <1>n, <2>2
    <3>2. p \in 0..(n - 1) /\ p \in k..Len(fs) /\ n = p + 1
      BY <1>n, <2>2, <3>1
    <3>3. p \in T
      BY <1>1, <3>2
    <3>4. Kept(p)
      BY <3>2, <3>3
    <3>5. /\ Len(Wire(fs)[p]) \in Nat /\ Len(Wire(fs)[p + 1]) \in Nat
          /\ Len(Wire(fs)[p + 1]) = Len(Wire(fs)[p]) + Len(Bytes(fs[p + 1]))
          /\ \A i \in 1..Len(Wire(fs)[p]) : Wire(fs)[p + 1][i] = Wire(fs)[p][i]
      BY WireGrows
    <3>6. Len(Bytes(fs[p + 1])) \in Nat /\ Len(Bytes(fs[p + 1])) >= 1
      <4>1. PICK f \in Fitting : f = fs[p + 1]
        BY <1>n, ElementOfSeq
      <4>2. Len(Bytes(f)) = HeaderSize(f) + Len(f.payload) /\ Len(f.payload) \in Nat
        BY BytesOf, FrameType
      <4>3. HeaderSize(f) \in Nat /\ HeaderSize(f) >= 2
        BY DEF HeaderSize
      <4>4. QED
        BY <4>1, <4>2, <4>3
    <3> DEFINE a == Len(Wire(fs)[k])
               b == Len(Wire(fs)[p])
               c == Len(Wire(fs)[p + 1])
               d == Len(Bytes(fs[p + 1]))
    <3>7. a \in Nat /\ b \in Nat /\ c \in Nat /\ d \in Nat /\ a + (p - k) <= b /\ c = b + d /\ d >= 1
      BY <1>n, <3>4, <3>5, <3>6
    <3>8. \A i \in 1..a : Wire(fs)[p][i] = Wire(fs)[k][i]
      BY <3>4
    <3>9. \A i \in 1..b : Wire(fs)[p + 1][i] = Wire(fs)[p][i]
      BY <3>5
    <3> HIDE DEF a, b, c, d
    <3>10. a <= b /\ a + ((p + 1) - k) <= c
      BY <3>2, <3>7
    <3>11. \A i \in 1..a : Wire(fs)[p + 1][i] = Wire(fs)[k][i]
      BY <3>7, <3>8, <3>9, <3>10
    <3>12. Kept(p + 1)
      BY <3>7, <3>10, <3>11 DEF a, c
    <3>13. QED
      BY <3>2, <3>12
  <2>3. QED
    BY <1>n, <2>1, <2>2
<1>2. T \in SUBSET Nat
  OBVIOUS
<1> HIDE DEF T
<1>3. m \in T
  BY <1>1, <1>2, BySmallest
<1>4. QED
  BY <1>n, <1>3 DEF T

\* The bytes of frame k + 1 among all of them.
LEMMA FrameOnTheWire ==
  ASSUME NEW fs \in Seq(Fitting), NEW k \in 0..Len(fs) - 1,
         NEW i \in 1..Len(Bytes(fs[k + 1]))
  PROVE  /\ Wire(fs)[Len(fs)][Len(Wire(fs)[k]) + i] = Bytes(fs[k + 1])[i]
         /\ Len(Wire(fs)[k]) + i <= Len(Wire(fs)[Len(fs)])
<1>1. /\ Len(Wire(fs)[k]) \in Nat /\ Len(Wire(fs)[k + 1]) \in Nat
      /\ Len(Wire(fs)[k + 1]) = Len(Wire(fs)[k]) + Len(Bytes(fs[k + 1]))
      /\ Wire(fs)[k + 1][Len(Wire(fs)[k]) + i] = Bytes(fs[k + 1])[i]
  BY WireGrows
<1>2. k + 1 \in 0..Len(fs) /\ Len(fs) \in (k + 1)..Len(fs) /\ Len(fs) \in Nat
  OBVIOUS
<1>3. /\ Len(Wire(fs)[Len(fs)]) \in Nat
      /\ Len(Wire(fs)[k + 1]) + (Len(fs) - (k + 1)) <= Len(Wire(fs)[Len(fs)])
      /\ \A j \in 1..Len(Wire(fs)[k + 1]) : Wire(fs)[Len(fs)][j] = Wire(fs)[k + 1][j]
  BY <1>2, WireKeeps
<1>4. Len(Bytes(fs[k + 1])) \in Nat
  BY <1>2, ElementOfSeq, BytesOf
<1>5. PICK a \in Nat, b \in Nat, c \in Nat, d \in Nat :
          /\ a = Len(Wire(fs)[k]) /\ b = Len(Wire(fs)[k + 1])
          /\ c = Len(Wire(fs)[Len(fs)]) /\ d = Len(Bytes(fs[k + 1]))
  BY <1>1, <1>3, <1>4
<1>6. i \in 1..d /\ b = a + d /\ b + (Len(fs) - (k + 1)) <= c
  BY <1>1, <1>3, <1>5
<1>7. a + i \in 1..b /\ a + i <= c
  BY <1>2, <1>6
<1>8. Wire(fs)[Len(fs)][a + i] = Wire(fs)[k + 1][a + i]
  BY <1>3, <1>5, <1>7
<1>9. QED
  BY <1>1, <1>5, <1>7, <1>8
-----------------------------------------------------------------------------
\* What the frames stand for.

Message == [op: 0..15, payload: Seq(Byte)]

Account == [messages: Seq(Message), open: BOOLEAN, op: 0..15, partial: Seq(Byte),
            bad: BOOLEAN]

\* No bytes are left of a message where none is open.
Accounts == {acc \in Account : ~acc.open => acc.partial = <<>>}

\* The message a data frame is of: its kind, its bytes so far, and their verdict.
KindOf(acc, f)  == IF f.op = CONTINUATION THEN acc.op ELSE f.op
BytesWith(acc, f) == acc.partial \o f.payload
Utf8(op, bytes) == IF op = TEXT THEN Decoded("accept", bytes) ELSE "accept"

Refused(acc, f) ==
    \/ Len(BytesWith(acc, f)) > MaxMessageSize
    \/ KindOf(acc, f) = TEXT /\ Decoded("accept", BytesWith(acc, f)) = "reject"
    \/ f.fin /\ f.op = TEXT /\ Decoded("accept", BytesWith(acc, f)) # "accept"

LEMMA AddFrameCases ==
  ASSUME NEW acc, NEW f
  PROVE  /\ acc.bad => AddFrame(acc, f) = acc
         /\ ~acc.bad /\ ~Legal(f, acc.open) => AddFrame(acc, f) = [acc EXCEPT !.bad = TRUE]
         /\ ~acc.bad /\ Legal(f, acc.open) /\ IsControl(f.op)
               => AddFrame(acc, f) = [acc EXCEPT !.messages =
                     Append(acc.messages, [op |-> f.op, payload |-> f.payload])]
         /\ ~acc.bad /\ Legal(f, acc.open) /\ ~IsControl(f.op) /\ Refused(acc, f)
               => AddFrame(acc, f) = [acc EXCEPT !.bad = TRUE]
         /\ ~acc.bad /\ Legal(f, acc.open) /\ ~IsControl(f.op) /\ ~Refused(acc, f) /\ f.fin
               => AddFrame(acc, f) = [acc EXCEPT !.open = FALSE, !.partial = <<>>, !.messages =
                     Append(acc.messages,
                            [op |-> KindOf(acc, f), payload |-> BytesWith(acc, f)])]
         /\ ~acc.bad /\ Legal(f, acc.open) /\ ~IsControl(f.op) /\ ~Refused(acc, f) /\ ~f.fin
               => AddFrame(acc, f) = [acc EXCEPT !.open = TRUE, !.partial = BytesWith(acc, f),
                                                 !.op = KindOf(acc, f)]
<1> USE DEF AddFrame, Refused, KindOf, BytesWith
<1>1. acc.bad => AddFrame(acc, f) = acc
  OBVIOUS
<1>2. ~acc.bad /\ ~Legal(f, acc.open) => AddFrame(acc, f) = [acc EXCEPT !.bad = TRUE]
  OBVIOUS
<1>3. ~acc.bad /\ Legal(f, acc.open) /\ IsControl(f.op)
         => AddFrame(acc, f) = [acc EXCEPT !.messages =
               Append(acc.messages, [op |-> f.op, payload |-> f.payload])]
  OBVIOUS
<1>4. ~acc.bad /\ Legal(f, acc.open) /\ ~IsControl(f.op) /\ Refused(acc, f)
         => AddFrame(acc, f) = [acc EXCEPT !.bad = TRUE]
  OBVIOUS
<1>5. ~acc.bad /\ Legal(f, acc.open) /\ ~IsControl(f.op) /\ ~Refused(acc, f) /\ f.fin
         => AddFrame(acc, f) = [acc EXCEPT !.open = FALSE, !.partial = <<>>, !.messages =
               Append(acc.messages, [op |-> KindOf(acc, f), payload |-> BytesWith(acc, f)])]
  OBVIOUS
<1>6. ~acc.bad /\ Legal(f, acc.open) /\ ~IsControl(f.op) /\ ~Refused(acc, f) /\ ~f.fin
         => AddFrame(acc, f) = [acc EXCEPT !.open = TRUE, !.partial = BytesWith(acc, f),
                                           !.op = KindOf(acc, f)]
  OBVIOUS
<1>7. QED
  BY <1>1, <1>2, <1>3, <1>4, <1>5, <1>6

\* How an account may change with a frame: messages are added at the end only.
Grows(acc, new) ==
    \/ new.messages = acc.messages
    \/ \E m \in Message : new.messages = Append(acc.messages, m)

LEMMA AddFrameType ==
  ASSUME NEW acc \in Accounts, NEW f \in Fitting
  PROVE  AddFrame(acc, f) \in Accounts /\ Grows(acc, AddFrame(acc, f))
<1>1. /\ acc.messages \in Seq(Message) /\ acc.open \in BOOLEAN /\ acc.op \in 0..15
      /\ acc.partial \in Seq(Byte) /\ acc.bad \in BOOLEAN /\ (~acc.open => acc.partial = <<>>)
      /\ acc \in Account
  BY DEF Accounts, Account
<1>2. f.op \in 0..15 /\ f.payload \in Seq(Byte) /\ f.fin \in BOOLEAN
  BY FrameType
<1>3. KindOf(acc, f) \in 0..15 /\ BytesWith(acc, f) \in Seq(Byte)
  BY <1>1, <1>2, TwoParts DEF KindOf, BytesWith
<1>4. CASE acc.bad
  BY <1>4, AddFrameCases DEF Grows
<1>5. ASSUME AddFrame(acc, f) = [acc EXCEPT !.bad = TRUE]
      PROVE  AddFrame(acc, f) \in Accounts /\ Grows(acc, AddFrame(acc, f))
  <2>1. [acc EXCEPT !.bad = TRUE] \in Accounts
    BY <1>1 DEF Accounts, Account
  <2>2. [acc EXCEPT !.bad = TRUE].messages = acc.messages
    BY <1>1 DEF Account
  <2>3. QED
    BY <1>5, <2>1, <2>2 DEF Grows
<1>6. CASE ~acc.bad /\ ~Legal(f, acc.open)
  BY <1>5, <1>6, AddFrameCases
<1>7. CASE ~acc.bad /\ Legal(f, acc.open) /\ ~IsControl(f.op) /\ Refused(acc, f)
  BY <1>5, <1>7, AddFrameCases
<1>8. CASE ~acc.bad /\ Legal(f, acc.open) /\ IsControl(f.op)
  <2>1. PICK m \in Message : m = [op |-> f.op, payload |-> f.payload]
    BY <1>2 DEF Message
  <2>2. AddFrame(acc, f) = [acc EXCEPT !.messages = Append(acc.messages, m)]
    BY <1>8, <2>1, AddFrameCases
  <2>3. Append(acc.messages, m) \in Seq(Message)
    BY <1>1
  <2>4. [acc EXCEPT !.messages = Append(acc.messages, m)] \in Accounts
    BY <1>1, <2>3 DEF Accounts, Account
  <2>5. [acc EXCEPT !.messages = Append(acc.messages, m)].messages = Append(acc.messages, m)
    BY <1>1 DEF Account
  <2>6. QED
    BY <2>2, <2>4, <2>5 DEF Grows
<1>9. CASE ~acc.bad /\ Legal(f, acc.open) /\ ~IsControl(f.op) /\ ~Refused(acc, f) /\ f.fin
  <2>1. PICK m \in Message : m = [op |-> KindOf(acc, f), payload |-> BytesWith(acc, f)]
    BY <1>3 DEF Message
  <2>2. PICK new : new = [acc EXCEPT !.open = FALSE, !.partial = <<>>,
                                     !.messages = Append(acc.messages, m)]
    OBVIOUS
  <2>3. AddFrame(acc, f) = new
    BY <1>9, <2>1, <2>2, AddFrameCases
  <2>4. Append(acc.messages, m) \in Seq(Message) /\ <<>> \in Seq(Byte)
    BY <1>1
  <2>5. new \in Accounts
    BY <1>1, <2>2, <2>4 DEF Accounts, Account
  <2>6. new.messages = Append(acc.messages, m)
    BY <1>1, <2>2 DEF Account
  <2>7. QED
    BY <2>3, <2>5, <2>6 DEF Grows
<1>10. CASE ~acc.bad /\ Legal(f, acc.open) /\ ~IsControl(f.op) /\ ~Refused(acc, f) /\ ~f.fin
  <2>1. PICK new : new = [acc EXCEPT !.open = TRUE, !.partial = BytesWith(acc, f),
                                     !.op = KindOf(acc, f)]
    OBVIOUS
  <2>2. AddFrame(acc, f) = new
    BY <1>10, <2>1, AddFrameCases
  <2>3. new \in Accounts
    BY <1>1, <1>3, <2>1 DEF Accounts, Account
  <2>4. new.messages = acc.messages
    BY <1>1, <2>1 DEF Account
  <2>5. QED
    BY <2>2, <2>3, <2>4 DEF Grows
<1>11. QED
  BY <1>1, <1>2, <1>4, <1>6, <1>7, <1>8, <1>9, <1>10

LEMMA NoFramesType == NoFrames \in Accounts
<1>1. <<>> \in Seq(Message) /\ <<>> \in Seq(Byte) /\ 0 \in 0..15
  BY EmptySeq
<1>2. QED
  BY <1>1 DEF NoFrames, Accounts, Account, CONTINUATION

LEMMA MeaningByFrame ==
  ASSUME NEW fs \in Seq(Fitting)
  PROVE  /\ Meaning(fs)[0] = NoFrames
         /\ \A k \in 1..Len(fs) : Meaning(fs)[k] = AddFrame(Meaning(fs)[k - 1], fs[k])
         /\ \A k \in 0..Len(fs) : Meaning(fs)[k] \in Accounts
<1> DEFINE N == Len(fs)
           g == [acc \in Accounts |-> [n \in 1..N |-> AddFrame(acc, fs[n])]]
           Step(f) == f = [k \in 0..N |-> IF k = 0 THEN NoFrames ELSE AddFrame(f[k - 1], fs[k])]
           c == CHOOSE f : Step(f)
<1>n. N \in Nat /\ \A n \in 1..N : fs[n] \in Fitting
  BY ElementOfSeq
<1> HIDE DEF N, Step, g, c
<1>1. \A acc \in Accounts, n \in 1..N :
         AddFrame(acc, fs[n]) \in Accounts /\ g[acc][n] = AddFrame(acc, fs[n])
  BY <1>n, AddFrameType DEF g
<1>2. g \in [Accounts -> [1..N -> Accounts]]
  BY <1>1 DEF g
<1>3. NoFrames \in Accounts
  BY NoFramesType
<1>4. PICK f : Iterates(f, Accounts, NoFrames, N, g, N)
  BY <1>n, <1>2, <1>3, Recursion
<1>5. /\ f \in [0..N -> Accounts] /\ f[0] = NoFrames
      /\ \A n \in 1..N : f[n] = g[f[n - 1]][n]
  BY <1>4 DEF Iterates
<1>6. ASSUME NEW n \in 1..N PROVE f[n] = AddFrame(f[n - 1], fs[n])
  <2>1. f[n - 1] \in Accounts
    BY <1>n, <1>5
  <2>2. QED
    BY <1>1, <1>5, <2>1
<1>7. Step(f)
  BY <1>n, <1>5, <1>6 DEF Step
<1>8. Step(c)
  BY <1>7 DEF c
<1>9. Meaning(fs) = c
  BY DEF Meaning, c, Step, N
<1>10. c[0] = NoFrames /\ \A n \in 1..N : c[n] = AddFrame(c[n - 1], fs[n])
  BY <1>n, <1>8 DEF Step
<1> DEFINE T == {n \in Nat : n <= N => c[n] \in Accounts}
<1>11. ASSUME NEW n \in Nat, \A m \in 0..(n - 1) : m \in T PROVE n \in T
  <2>1. CASE n = 0
    BY <1>3, <1>10, <2>1
  <2>2. CASE n \in 1..N
    <3>1. n - 1 \in 0..(n - 1)
      BY <2>2
    <3>2. n - 1 \in T
      BY <1>11, <3>1
    <3>3. c[n - 1] \in Accounts
      BY <1>n, <2>2, <3>2
    <3>4. QED
      BY <1>1, <1>10, <2>2, <3>3
  <2>3. QED
    BY <1>n, <2>1, <2>2
<1>12. T \in SUBSET Nat
  OBVIOUS
<1> HIDE DEF T
<1>13. T = Nat
  BY <1>11, <1>12, BySmallest
<1>14. \A k \in 0..N : c[k] \in Accounts
  BY <1>n, <1>13 DEF T
<1>15. QED
  BY <1>9, <1>10, <1>14 DEF N

\* s is the beginning of t.
Begins(s, t) == Len(s) <= Len(t) /\ \A i \in 1..Len(s) : s[i] = t[i]

LEMMA BeginsIsPrefix ==
  ASSUME NEW S, NEW s \in Seq(S), NEW t \in Seq(S), Begins(s, t)
  PROVE  IsPrefix(s, t)
<1>1. Len(s) \in Nat /\ Len(t) \in Nat /\ Len(s) <= Len(t)
  BY DEF Begins
<1>2. /\ SubSeq(s, 1, Len(s)) \in Seq(S) /\ SubSeq(t, 1, Len(s)) \in Seq(S)
      /\ Len(SubSeq(s, 1, Len(s))) = Len(s) /\ Len(SubSeq(t, 1, Len(s))) = Len(s)
      /\ \A i \in 1..Len(s) : SubSeq(s, 1, Len(s))[i] = s[i] /\ SubSeq(t, 1, Len(s))[i] = t[i]
  <2>1. \A i \in 1..Len(s) : s[i] \in S /\ t[i] \in S
    BY <1>1, ElementOfSeq
  <2>2. 1 \in Int /\ Len(s) \in Int
    BY <1>1
  <2>3. /\ SubSeq(s, 1, Len(s)) \in Seq(S)
        /\ Len(SubSeq(s, 1, Len(s))) = IF 1 <= Len(s) THEN Len(s) - 1 + 1 ELSE 0
        /\ \A i \in 1..Len(s) - 1 + 1 : SubSeq(s, 1, Len(s))[i] = s[1 + i - 1]
    BY <2>1, <2>2, SubSeqProperties
  <2>4. /\ SubSeq(t, 1, Len(s)) \in Seq(S)
        /\ Len(SubSeq(t, 1, Len(s))) = IF 1 <= Len(s) THEN Len(s) - 1 + 1 ELSE 0
        /\ \A i \in 1..Len(s) - 1 + 1 : SubSeq(t, 1, Len(s))[i] = t[1 + i - 1]
    BY <2>1, <2>2, SubSeqProperties
  <2>5. \A i \in 1..Len(s) : i \in 1..Len(s) - 1 + 1 /\ 1 + i - 1 = i
    BY <1>1
  <2>6. QED
    BY <1>1, <2>3, <2>4, <2>5
<1>3. SubSeq(s, 1, Len(s)) = SubSeq(t, 1, Len(s))
  <2>1. \A i \in 1..Len(s) : SubSeq(s, 1, Len(s))[i] = SubSeq(t, 1, Len(s))[i]
    BY <1>2 DEF Begins
  <2>2. PICK a \in Seq(S), b \in Seq(S) : a = SubSeq(s, 1, Len(s)) /\ b = SubSeq(t, 1, Len(s))
    BY <1>2
  <2>3. Len(a) = Len(b) /\ \A i \in 1..Len(a) : a[i] = b[i]
    BY <1>2, <2>1, <2>2
  <2>4. a = b
    BY <2>3, SeqEqual
  <2>5. QED
    BY <2>2, <2>4
<1>4. QED
  BY <1>1, <1>3 DEF IsPrefix

\* With more frames there are more messages, and those before stay.
LEMMA MessagesGrow ==
  ASSUME NEW fs \in Seq(Fitting), NEW k \in 0..Len(fs), NEW m \in k..Len(fs)
  PROVE  Begins(Meaning(fs)[k].messages, Meaning(fs)[m].messages)
<1> DEFINE M(n) == Meaning(fs)[n].messages
           T == {n \in Nat : n \in k..Len(fs) => Begins(M(k), M(n))}
<1>n. Len(fs) \in Nat /\ \A n \in 0..Len(fs) : Meaning(fs)[n] \in Accounts /\ M(n) \in Seq(Message)
  BY MeaningByFrame DEF Accounts, Account
<1>1. ASSUME NEW n \in Nat, \A j \in 0..(n - 1) : j \in T PROVE n \in T
  <2>1. CASE n = k
    BY <1>n, <2>1 DEF Begins
  <2>2. CASE n \in (k + 1)..Len(fs)
    <3>1. n - 1 \in 0..(n - 1) /\ n - 1 \in k..Len(fs) /\ n \in 1..Len(fs) /\ n - 1 \in 0..Len(fs)
      BY <1>n, <2>2
    <3>2. Begins(M(k), M(n - 1))
      BY <1>1, <3>1
    <3>3. Grows(Meaning(fs)[n - 1], Meaning(fs)[n])
      BY <1>n, <3>1, MeaningByFrame, AddFrameType, ElementOfSeq
    <3>4. PICK a \in Seq(Message), b \in Seq(Message), c \in Seq(Message) :
              a = M(k) /\ b = M(n - 1) /\ c = M(n)
      BY <1>n, <2>2, <3>1
    <3>5. Begins(a, b)
      BY <3>2, <3>4
    <3>6. CASE c = b
      BY <3>4, <3>5, <3>6
    <3>7. ASSUME NEW x \in Message, c = Append(b, x) PROVE Begins(a, c)
      BY <3>5, <3>7 DEF Begins
    <3>8. c = b \/ \E x \in Message : c = Append(b, x)
      BY <3>3, <3>4 DEF Grows
    <3>9. Begins(a, c)
      BY <3>5, <3>7, <3>8
    <3>10. QED
      BY <3>4, <3>9
  <2>3. QED
    BY <1>n, <2>1, <2>2
<1>2. T \in SUBSET Nat
  OBVIOUS
<1> HIDE DEF T
<1>3. m \in T
  BY <1>1, <1>2, BySmallest
<1>4. QED
  BY <1>3 DEF T

\* A text message that ends within a character, and the fragments it came in.
Halved(m) == m.op = TEXT /\ Decoded("accept", m.payload) # "accept"
Begun(fs, i) == fs[i].op = TEXT /\ ~fs[i].fin
Ended(fs, j) == fs[j].op = CONTINUATION /\ fs[j].fin

Within(fs, x) == IsControl(fs[x].op) \/ (fs[x].op = CONTINUATION /\ ~fs[x].fin)

\* The message that frame i began goes on after frame k; and with frame j the n-th
\* message is there.
Unfinished(fs, i, k) == Begun(fs, i) /\ \A x \in i + 1..k : Within(fs, x)
Brings(fs, j, n) ==
    Len(Meaning(fs)[j - 1].messages) = n - 1 /\ Len(Meaning(fs)[j].messages) = n

Pieces(fs, n, k) ==
    \E i, j \in 1..k : i < j /\ Unfinished(fs, i, j - 1) /\ Ended(fs, j) /\ Brings(fs, j, n)

FragmentsOnly(fs, k) ==
    /\ (~Meaning(fs)[k].bad /\ Meaning(fs)[k].open /\ Meaning(fs)[k].op = TEXT)
          => \E i \in 1..k : Unfinished(fs, i, k)
    /\ \A n \in 1..Len(Meaning(fs)[k].messages) :
          Halved(Meaning(fs)[k].messages[n]) => Pieces(fs, n, k)

LEMMA HalvedMessages ==
  ASSUME NEW fs \in Seq(Fitting), NEW k \in 0..Len(fs)
  PROVE  FragmentsOnly(fs, k)
<1> DEFINE T == {n \in Nat : n \in 0..Len(fs) => FragmentsOnly(fs, n)}
<1>1. ASSUME NEW n \in Nat, \A m \in 0..(n - 1) : m \in T PROVE n \in T
  <2>1. CASE n = 0
    BY <2>1, MeaningByFrame DEF FragmentsOnly, NoFrames
  <2>2. CASE n \in 1..Len(fs)
    <3>1. n - 1 \in 0..(n - 1) /\ n - 1 \in 0..Len(fs)
      BY <2>2
    <3>2. FragmentsOnly(fs, n - 1)
      BY <1>1, <3>1
    <3>3. PICK acc \in Accounts, f \in Fitting, new \in Accounts :
              /\ acc = Meaning(fs)[n - 1] /\ f = fs[n] /\ new = Meaning(fs)[n]
              /\ new = AddFrame(acc, f)
      BY <2>2, <3>1, MeaningByFrame, ElementOfSeq
    <3>4. /\ acc \in Account /\ acc.messages \in Seq(Message)
          /\ f.op \in 0..15 /\ f.fin \in BOOLEAN /\ acc.open \in BOOLEAN /\ acc.bad \in BOOLEAN
      BY FrameType DEF Accounts, Account
    <3> DEFINE Open(x) == \E i \in 1..x : Unfinished(fs, i, x)
               Nth == Len(acc.messages) + 1
    <3>5. ~acc.bad /\ acc.open /\ acc.op = TEXT => Open(n - 1)
      BY <3>2, <3>3 DEF FragmentsOnly
    <3>6. \A x \in 1..Len(acc.messages) : Halved(acc.messages[x]) => Pieces(fs, x, n - 1)
      BY <3>2, <3>3 DEF FragmentsOnly
    <3>7. \A x : Pieces(fs, x, n - 1) => Pieces(fs, x, n)
      BY <2>2 DEF Pieces
    <3>8. Within(fs, n) => (Open(n - 1) => Open(n))
      <4> SUFFICES ASSUME Within(fs, n), NEW i \in 1..n - 1, Unfinished(fs, i, n - 1)
                   PROVE  Open(n)
        OBVIOUS
      <4>1. \A x \in i + 1..n : x \in i + 1..n - 1 \/ x = n
        BY <2>2
      <4>2. Unfinished(fs, i, n) /\ i \in 1..n
        BY <2>2, <4>1 DEF Unfinished
      <4>3. QED
        BY <4>2
    <3> DEFINE Goal == FragmentsOnly(fs, n)
    <3>9. ASSUME new.messages = acc.messages,
                 ~new.bad /\ new.open /\ new.op = TEXT => Open(n)
          PROVE  Goal
      BY <3>3, <3>6, <3>7, <3>9 DEF FragmentsOnly
    <3>10. ASSUME NEW m, new.messages = Append(acc.messages, m),
                  Halved(m) => Pieces(fs, Nth, n),
                  ~new.bad /\ new.open /\ new.op = TEXT => Open(n)
           PROVE  Goal
      <4>1. ASSUME NEW x \in 1..Len(new.messages), Halved(new.messages[x])
            PROVE  Pieces(fs, x, n)
        <5>1. CASE x \in 1..Len(acc.messages)
          <6>1. new.messages[x] = acc.messages[x]
            BY <3>4, <3>10, <5>1
          <6>2. QED
            BY <3>6, <3>7, <4>1, <5>1, <6>1
        <5>2. CASE x \notin 1..Len(acc.messages)
          <6>1. x = Nth /\ new.messages[x] = m
            BY <3>4, <3>10, <4>1, <5>2
          <6>2. QED
            BY <3>10, <4>1, <6>1
        <5>3. QED
          BY <5>1, <5>2
      <4>2. QED
        BY <3>3, <3>10, <4>1 DEF FragmentsOnly
    <3> SUFFICES Goal
      OBVIOUS
    <3>a. new = AddFrame(acc, f)
      BY <3>3
    <3> HIDE DEF Goal, Open, Nth
    <3>11. CASE acc.bad
      <4>1. new = acc
        BY <3>a, <3>11, AddFrameCases
      <4>2. QED
        BY <3>9, <3>11, <4>1
    <3>12. CASE new = [acc EXCEPT !.bad = TRUE]
      <4>1. new.messages = acc.messages /\ new.bad
        BY <3>4, <3>12 DEF Account
      <4>2. QED
        BY <3>9, <4>1
    <3>13. CASE ~acc.bad /\ Legal(f, acc.open) /\ IsControl(f.op)
      <4>1. PICK m : m = [op |-> f.op, payload |-> f.payload]
        OBVIOUS
      <4>2. new = [acc EXCEPT !.messages = Append(acc.messages, m)]
        BY <3>a, <3>13, <4>1, AddFrameCases
      <4>3. /\ new.messages = Append(acc.messages, m) /\ new.open = acc.open
            /\ new.op = acc.op
        BY <3>4, <4>2 DEF Account
      <4>4. ~Halved(m)
        BY <3>4, <3>13, <4>1 DEF Halved, IsControl, TEXT
      <4>5. Within(fs, n)
        BY <3>3, <3>13 DEF Within
      <4>6. QED
        BY <3>5, <3>8, <3>10, <3>13, <4>3, <4>4, <4>5
    <3>14. CASE /\ ~acc.bad /\ Legal(f, acc.open) /\ ~IsControl(f.op) /\ ~Refused(acc, f)
                /\ f.fin
      <4>1. PICK m : m = [op |-> KindOf(acc, f), payload |-> BytesWith(acc, f)]
        OBVIOUS
      <4>2. new = [acc EXCEPT !.open = FALSE, !.partial = <<>>,
                              !.messages = Append(acc.messages, m)]
        BY <3>a, <3>14, <4>1, AddFrameCases
      <4>3. new.messages = Append(acc.messages, m) /\ new.open = FALSE
        BY <3>4, <4>2 DEF Account
      <4>4. ASSUME Halved(m) PROVE Pieces(fs, Nth, n)
        <5>1. KindOf(acc, f) = TEXT /\ Decoded("accept", BytesWith(acc, f)) # "accept"
          BY <4>1, <4>4 DEF Halved
        <5>2. f.op # TEXT
          BY <3>14, <5>1 DEF Refused
        <5>3. f.op = CONTINUATION /\ acc.op = TEXT
          BY <5>1, <5>2 DEF KindOf
        <5>4. acc.open
          BY <3>4, <3>14, <5>3 DEF Legal, CONTINUATION
        <5>5. Open(n - 1)
          BY <3>5, <3>14, <5>3, <5>4
        <5>6. Ended(fs, n)
          BY <3>3, <3>14, <5>3 DEF Ended
        <5>7. Brings(fs, n, Nth)
          <6>1. Len(new.messages) = Len(acc.messages) + 1 /\ Len(acc.messages) \in Nat
            BY <3>4, <4>3
          <6>2. QED
            BY <3>3, <6>1 DEF Brings, Nth
        <5>8. QED
          BY <2>2, <5>5, <5>6, <5>7 DEF Open, Pieces
      <4>5. QED
        BY <3>10, <4>3, <4>4
    <3>15. CASE /\ ~acc.bad /\ Legal(f, acc.open) /\ ~IsControl(f.op) /\ ~Refused(acc, f)
                /\ ~f.fin
      <4>1. new = [acc EXCEPT !.open = TRUE, !.partial = BytesWith(acc, f),
                              !.op = KindOf(acc, f)]
        BY <3>a, <3>15, AddFrameCases
      <4>2. new.messages = acc.messages /\ new.op = KindOf(acc, f)
        BY <3>4, <4>1 DEF Account
      <4>3. ASSUME KindOf(acc, f) = TEXT PROVE Open(n)
        <5>1. CASE f.op = CONTINUATION
          <6>1. acc.op = TEXT /\ acc.open
            BY <3>4, <3>15, <4>3, <5>1 DEF KindOf, Legal, CONTINUATION
          <6>2. Within(fs, n)
            BY <3>3, <3>15, <5>1 DEF Within
          <6>3. QED
            BY <3>5, <3>8, <3>15, <6>1, <6>2
        <5>2. CASE f.op # CONTINUATION
          <6>1. f.op = TEXT
            BY <4>3, <5>2 DEF KindOf
          <6>2. Begun(fs, n) /\ n \in 1..n /\ n + 1..n = {}
            BY <2>2, <3>3, <3>15, <6>1 DEF Begun
          <6>3. QED
            BY <6>2 DEF Open, Unfinished
        <5>3. QED
          BY <5>1, <5>2
      <4>4. QED
        BY <3>9, <4>2, <4>3
    <3>16. QED
      BY <3>a, <3>4, <3>11, <3>12, <3>13, <3>14, <3>15, AddFrameCases
  <2>3. QED
    BY <2>1, <2>2
<1>2. T \in SUBSET Nat
  OBVIOUS
<1> HIDE DEF T
<1>3. T = Nat
  BY <1>1, <1>2, BySmallest
<1>4. k \in T
  BY <1>3
<1>5. QED
  BY <1>4 DEF T
-----------------------------------------------------------------------------
(* The inductive invariant: how far the processor is in which frame.       *)

\* Of the bytes w, off have been taken; those of c come next, then those of u.
Placed(c, u, w, off) ==
    /\ off + Len(c) + Len(u) = Len(w)
    /\ \A i \in 1..Len(c) : c[i] = w[off + i]
    /\ \A i \in 1..Len(u) : u[i] = w[off + Len(c) + i]

At(off) == Placed(chunk, unread, Wire(stream)[Len(stream)], off)

Off(k) == Len(Wire(stream)[k])
Acc(k) == Meaning(stream)[k]
This(k) == stream[k + 1]

\* The data message d between two of its frames, or none.
OpenPart(acc, t) ==
    [op |-> acc.op, payload |-> acc.partial, keyAt |-> t, utf8 |-> Utf8(acc.op, acc.partial)]
Holds(d, acc) == IF acc.open THEN \E t \in 0..3 : d = OpenPart(acc, t) ELSE d = NoMessage

\* The message of frame f with the first j bytes of its payload.
Part(acc, f, j) ==
    [op |-> KindOf(acc, f), payload |-> acc.partial \o SubSeq(f.payload, 1, j), keyAt |-> j % 4,
     utf8 |-> Utf8(KindOf(acc, f), acc.partial \o SubSeq(f.payload, 1, j))]

\* The basic header h of f was accepted.
Headed(h, f, open) ==
    /\ h = [b0 |-> Bytes(f)[1], b1 |-> Bytes(f)[2]]
    /\ f.masked /\ f.rsv = 0 /\ ~Reserved(f.op)
    /\ IF IsControl(f.op) THEN f.fin /\ f.code = 7 ELSE f.op = CONTINUATION <=> open

\* The rest of the header is that of f, as far as it was read.
Extends(ext, f) == \A i \in 1..Len(ext) : ext[i] = Bytes(f)[2 + i]

Sound(k) == delivered = Acc(k).messages /\ ~Acc(k).bad

AtHeader(k) ==
    /\ mState = "HEADER_BASIC" /\ extended = <<>>
    /\ Sound(k) /\ Holds(data, Acc(k))
    /\ \/ bytesNeeded = 2 /\ At(Off(k))
       \/ bytesNeeded = 1 /\ k < Len(stream) /\ At(Off(k) + 1) /\ header.b0 = Bytes(This(k))[1]

AtExtended(k) ==
    /\ mState = "HEADER_EXTENDED" /\ k < Len(stream)
    /\ Sound(k) /\ Holds(data, Acc(k))
    /\ Headed(header, This(k), Acc(k).open) /\ Extends(extended, This(k))
    /\ bytesNeeded > 0 /\ Len(extended) + bytesNeeded = HeaderSize(This(k)) - 2
    /\ At(Off(k) + 2 + Len(extended))

Taken(k) == Len(This(k).payload) - bytesNeeded

AtPayload(k) ==
    /\ mState = "APPLICATION" /\ k < Len(stream)
    /\ Sound(k)
    /\ Headed(header, This(k), Acc(k).open) /\ Legal(This(k), Acc(k).open)
    /\ Extends(extended, This(k)) /\ Len(extended) = HeaderSize(This(k)) - 2
    /\ bytesNeeded <= Len(This(k).payload)
    /\ At(Off(k) + HeaderSize(This(k)) + Taken(k))
    /\ IF IsControl(This(k).op)
       THEN /\ current = "control" /\ control = Part(NoFrames, This(k), Taken(k))
            /\ Holds(data, Acc(k))
       ELSE /\ current = "data" /\ data = Part(Acc(k), This(k), Taken(k))
            /\ Len(BytesWith(Acc(k), This(k))) <= MaxMessageSize

Current == IF current = "control" THEN control ELSE data

AtReady(k) ==
    /\ mState = "READY" /\ k < Len(stream)
    /\ Sound(k) /\ ~Acc(k + 1).bad /\ At(Off(k + 1))
    /\ Acc(k + 1).messages = Append(delivered, [op |-> Current.op, payload |-> Current.payload])
    /\ IF current = "control" THEN Holds(data, Acc(k + 1)) ELSE ~Acc(k + 1).open

Stage(k) == AtHeader(k) \/ AtExtended(k) \/ AtPayload(k) \/ AtReady(k)

Progress ==
    IF failed
    THEN mState # "READY" /\ \E k \in 0..Len(stream) : delivered = Acc(k).messages
    ELSE \E k \in 0..Len(stream) : Stage(k)

FramingInv == stream \in Streams /\ unread \in Seq(Byte) /\ TypeOK /\ Progress

LEMMA SuffixOf ==
  ASSUME NEW S, NEW s \in Seq(S), NEW n \in 0..Len(s)
  PROVE  /\ SubSeq(s, n + 1, Len(s)) \in Seq(S)
         /\ Len(SubSeq(s, n + 1, Len(s))) = Len(s) - n
         /\ \A i \in 1..Len(s) - n : SubSeq(s, n + 1, Len(s))[i] = s[n + i]
<1>1. Len(s) \in Nat /\ \A i \in 1..Len(s) : s[i] \in S
  BY ElementOfSeq
<1>2. n + 1 \in Int /\ Len(s) \in Int /\ \A i \in n + 1..Len(s) : s[i] \in S
  BY <1>1
<1>3. PICK t : t = SubSeq(s, n + 1, Len(s))
  OBVIOUS
<1>4. /\ t \in Seq(S)
      /\ Len(t) = IF n + 1 <= Len(s) THEN Len(s) - (n + 1) + 1 ELSE 0
      /\ \A i \in 1..Len(s) - (n + 1) + 1 : t[i] = s[n + 1 + i - 1]
  BY <1>2, <1>3, SubSeqProperties
<1>5. Len(t) = Len(s) - n
  BY <1>1, <1>4
<1>6. ASSUME NEW i \in 1..Len(s) - n PROVE t[i] = s[n + i]
  <2>1. i \in 1..Len(s) - (n + 1) + 1 /\ n + 1 + i - 1 = n + i
    BY <1>1
  <2>2. QED
    BY <1>4, <2>1
<1>7. QED
  BY <1>3, <1>4, <1>5, <1>6

LEMMA PrefixOf ==
  ASSUME NEW S, NEW s \in Seq(S), NEW n \in 0..Len(s)
  PROVE  /\ SubSeq(s, 1, n) \in Seq(S) /\ Len(SubSeq(s, 1, n)) = n
         /\ \A i \in 1..n : SubSeq(s, 1, n)[i] = s[i]
<1>1. Len(s) \in Nat /\ \A i \in 1..Len(s) : s[i] \in S
  BY ElementOfSeq
<1>2. 1 \in Int /\ n \in Int /\ \A i \in 1..n : s[i] \in S
  BY <1>1
<1>3. PICK t : t = SubSeq(s, 1, n)
  OBVIOUS
<1>4. /\ t \in Seq(S)
      /\ Len(t) = IF 1 <= n THEN n - 1 + 1 ELSE 0
      /\ \A i \in 1..n - 1 + 1 : t[i] = s[1 + i - 1]
  BY <1>2, <1>3, SubSeqProperties
<1>5. Len(t) = n
  BY <1>1, <1>4
<1>6. ASSUME NEW i \in 1..n PROVE t[i] = s[i]
  <2>1. i \in 1..n - 1 + 1 /\ 1 + i - 1 = i
    BY <1>1
  <2>2. QED
    BY <1>4, <2>1
<1>7. QED
  BY <1>3, <1>4, <1>5, <1>6

\* Taking n bytes of a chunk.
LEMMA PlacedTaking ==
  ASSUME NEW c \in Seq(Byte), NEW u \in Seq(Byte), NEW w, NEW off \in Nat,
         NEW n \in 0..Len(c), Placed(c, u, w, off)
  PROVE  Placed(SubSeq(c, n + 1, Len(c)), u, w, off + n)
<1>1. PICK a \in Nat, b \in Nat : a = Len(c) /\ b = Len(u)
  OBVIOUS
<1>t. PICK t : t = SubSeq(c, n + 1, Len(c))
  OBVIOUS
<1>2. t \in Seq(Byte) /\ Len(t) = a - n /\ \A i \in 1..a - n : t[i] = c[n + i]
  BY <1>1, <1>t, SuffixOf
<1>3. /\ off + a + b = Len(w)
      /\ \A i \in 1..a : c[i] = w[off + i]
      /\ \A i \in 1..b : u[i] = w[off + a + i]
  BY <1>1 DEF Placed
<1>4. (off + n) + (a - n) + b = Len(w)
  <2>1. n \in 0..a
    BY <1>1
  <2>2. QED
    BY <1>3, <2>1
<1>5. ASSUME NEW i \in 1..a - n PROVE t[i] = w[(off + n) + i]
  <2>1. n + i \in 1..a /\ off + (n + i) = (off + n) + i
    BY <1>1
  <2>2. QED
    BY <1>2, <1>3, <2>1
<1>6. ASSUME NEW i \in 1..b PROVE u[i] = w[(off + n) + (a - n) + i]
  <2>1. off + a + i = (off + n) + (a - n) + i
    BY <1>1
  <2>2. QED
    BY <1>3, <2>1
<1>7. QED
  BY <1>1, <1>t, <1>2, <1>4, <1>5, <1>6 DEF Placed

\* Reading n bytes.
LEMMA PlacedReading ==
  ASSUME NEW u \in Seq(Byte), NEW w, NEW off \in Nat, NEW n \in 1..Len(u),
         Placed(<<>>, u, w, off)
  PROVE  Placed(SubSeq(u, 1, n), SubSeq(u, n + 1, Len(u)), w, off)
<1>1. PICK b \in Nat : b = Len(u)
  OBVIOUS
<1>s. PICK s, t : s = SubSeq(u, 1, n) /\ t = SubSeq(u, n + 1, Len(u))
  OBVIOUS
<1>2. s \in Seq(Byte) /\ Len(s) = n /\ \A i \in 1..n : s[i] = u[i]
  BY <1>s, PrefixOf
<1>3. t \in Seq(Byte) /\ Len(t) = b - n /\ \A i \in 1..b - n : t[i] = u[n + i]
  BY <1>1, <1>s, SuffixOf
<1>4. off + b = Len(w) /\ \A i \in 1..b : u[i] = w[off + i]
  <2>1. off + 0 + b = Len(w) /\ \A i \in 1..b : u[i] = w[off + 0 + i]
    BY <1>1 DEF Placed
  <2>2. \A i \in 1..b : off + 0 + i = off + i
    OBVIOUS
  <2>3. QED
    BY <2>1, <2>2
<1>5. off + n + (b - n) = Len(w)
  BY <1>4
<1>6. \A i \in 1..n : s[i] = w[off + i]
  BY <1>1, <1>2, <1>4
<1>7. ASSUME NEW i \in 1..b - n PROVE t[i] = w[off + n + i]
  <2>1. n + i \in 1..b /\ off + (n + i) = off + n + i
    BY <1>1
  <2>2. QED
    BY <1>3, <1>4, <2>1
<1>8. QED
  BY <1>1, <1>s, <1>2, <1>3, <1>5, <1>6, <1>7 DEF Placed

\* What the header bytes of a frame say.
LEMMA HeaderSays ==
  ASSUME NEW f \in Fitting
  PROVE  /\ Bytes(f)[1] \in Byte /\ Bytes(f)[2] \in Byte
         /\ Bytes(f)[1] % 16 = f.op /\ (Bytes(f)[1] \div 16) % 8 = f.rsv
         /\ Bytes(f)[1] >= 128 <=> f.fin
         /\ Bytes(f)[2] % 128 = IF f.code = 16 THEN 126 ELSE Len(f.payload)
         /\ Bytes(f)[2] >= 128 <=> f.masked
<1>1. Bytes(f)[1] = BasicHeader(f)[1] /\ Bytes(f)[2] = BasicHeader(f)[2]
  <2>1. 1 \in 1..2 /\ 2 \in 1..2
    OBVIOUS
  <2>2. QED
    BY <2>1, BytesOf
<1>2. BasicHeader(f)[1] \in Byte /\ BasicHeader(f)[2] \in Byte
  BY BasicHeaderOf, ElementOfSeq
<1>3. QED
  BY <1>1, <1>2, BasicHeaderOf

\* How many bytes follow the basic header.
LEMMA ExtendedLengthOf ==
  ASSUME NEW f \in Fitting, f.masked
  PROVE  ExtendedLength(Bytes(f)[2]) = HeaderSize(f) - 2 /\ HeaderSize(f) \in {6, 8}
<1>1. PICK c, n \in Nat, b \in Byte : c = f.code /\ n = Len(f.payload) /\ b = Bytes(f)[2]
  BY FrameType, HeaderSays
<1>2. c \in {7, 16} /\ (c = 7 => n <= 125)
  BY <1>1, FrameType
<1>3. b >= 128 /\ b % 128 = IF c = 16 THEN 126 ELSE n
  BY <1>1, HeaderSays
<1>4. CASE c = 16
  <2>1. b % 128 = 126
    BY <1>3, <1>4
  <2>2. ExtendedLength(b) = 2 + 4
    BY <1>3, <2>1 DEF ExtendedLength
  <2>3. HeaderSize(f) = 8
    BY <1>1, <1>4 DEF HeaderSize
  <2>4. QED
    BY <1>1, <2>2, <2>3
<1>5. CASE c = 7
  <2>1. b % 128 # 126 /\ b % 128 # 127
    BY <1>2, <1>3, <1>5
  <2>2. ExtendedLength(b) = 0 + 4
    BY <1>3, <2>1 DEF ExtendedLength
  <2>3. HeaderSize(f) = 6
    BY <1>1, <1>5 DEF HeaderSize
  <2>4. QED
    BY <1>1, <2>2, <2>3
<1>6. QED
  BY <1>2, <1>4, <1>5

LEMMA Utf8Type ==
  ASSUME NEW op, NEW bytes \in Seq(Byte)
  PROVE  Utf8(op, bytes) \in Verdict /\ Utf8(op, bytes) # "none"
<1>1. "accept" \in Verdict /\ "none" \notin Verdict
  BY DEF Verdict
<1>2. Decoded("accept", bytes) \in Verdict
  BY <1>1, DecodedType
<1>3. QED
  BY <1>1, <1>2 DEF Utf8

\* There is a data message if, and only if, one is open.
LEMMA HoldsOpen ==
  ASSUME NEW acc \in Accounts, NEW d, Holds(d, acc)
  PROVE  (d # NoMessage <=> acc.open) /\ acc.open \in BOOLEAN
<1>1. acc.partial \in Seq(Byte) /\ acc.open \in BOOLEAN
  BY DEF Accounts, Account
<1>2. CASE ~acc.open
  BY <1>1, <1>2 DEF Holds
<1>3. CASE acc.open
  <2>1. PICK t \in 0..3 : d = OpenPart(acc, t)
    BY <1>3 DEF Holds
  <2>2. d.utf8 # "none"
    BY <1>1, <2>1, Utf8Type DEF OpenPart
  <2>3. QED
    BY <1>3, <2>2 DEF NoMessage
<1>4. QED
  BY <1>1, <1>2, <1>3
-----------------------------------------------------------------------------
\* What the processor makes of the bytes of a frame.

\* A basic header is accepted if, and only if, its frame may come here.
LEMMA AcceptedIsHeaded ==
  ASSUME NEW f \in Fitting, NEW open \in BOOLEAN, data # NoMessage <=> open,
         AcceptsBasicHeader(Bytes(f)[1], Bytes(f)[2])
  PROVE  Headed([b0 |-> Bytes(f)[1], b1 |-> Bytes(f)[2]], f, open)
<1>1. PICK h0, h1 : h0 = Bytes(f)[1] /\ h1 = Bytes(f)[2]
  OBVIOUS
<1>2. /\ h0 % 16 = f.op /\ (h0 \div 16) % 8 = f.rsv /\ (h0 >= 128 <=> f.fin)
      /\ h1 % 128 = (IF f.code = 16 THEN 126 ELSE Len(f.payload)) /\ (h1 >= 128 <=> f.masked)
  BY <1>1, HeaderSays
<1>3. /\ IsControl(h0 % 16) => h1 % 128 <= 125
      /\ (h0 \div 16) % 8 = 0
      /\ ~Reserved(h0 % 16)
      /\ IsControl(h0 % 16) => h0 >= 128
      /\ ~IsControl(h0 % 16) => (h0 % 16 = CONTINUATION <=> data # NoMessage)
      /\ h1 >= 128
  BY <1>1 DEF AcceptsBasicHeader
<1>4. f.masked /\ f.rsv = 0 /\ ~Reserved(f.op)
  BY <1>2, <1>3
<1>5. ASSUME IsControl(f.op) PROVE f.fin /\ f.code = 7
  <2>1. f.fin /\ h1 % 128 <= 125
    BY <1>2, <1>3, <1>5
  <2>2. f.code # 16
    BY <1>2, <2>1
  <2>3. f.code \in {7, 16}
    BY FrameType
  <2>4. QED
    BY <2>1, <2>2, <2>3
<1>6. ~IsControl(f.op) => (f.op = CONTINUATION <=> open)
  BY <1>2, <1>3
<1>7. QED
  BY <1>4, <1>5, <1>6 DEF Headed

\* The length read is that of the payload.
LEMMA SizeRead ==
  ASSUME NEW f \in Fitting, NEW ext, header = [b0 |-> Bytes(f)[1], b1 |-> Bytes(f)[2]],
         Extends(ext, f), Len(ext) = HeaderSize(f) - 2, f.masked
  PROVE  /\ PayloadSize(ext) = Len(f.payload)
         /\ MinimallyCoded(ext) <=> (f.code = 16 => Len(f.payload) > 125)
         /\ Opcode = f.op /\ (Fin <=> f.fin)
<1>1. Opcode = f.op /\ (Fin <=> f.fin)
  BY HeaderSays DEF Opcode, Fin
<1>2. BasicSize = IF f.code = 16 THEN 126 ELSE Len(f.payload)
  BY HeaderSays DEF BasicSize
<1>3. PICK n \in Nat : n = Len(f.payload)
  BY FrameType
<1>4. CASE f.code = 16
  <2>1. Len(ext) = 6 /\ HeaderSize(f) = 8
    BY <1>4 DEF HeaderSize
  <2>2. ext[1] = Bytes(f)[2 + 1] /\ ext[2] = Bytes(f)[2 + 2]
    <3>1. 1 \in 1..Len(ext) /\ 2 \in 1..Len(ext)
      BY <2>1
    <3>2. QED
      BY <3>1 DEF Extends
  <2>3. Len(Length(f)) = 2
    BY <1>4, LengthOf
  <2>4. Bytes(f)[2 + 1] = Length(f)[1] /\ Bytes(f)[2 + 2] = Length(f)[2]
    <3>1. 1 \in 1..Len(Length(f)) /\ 2 \in 1..Len(Length(f))
      BY <2>3
    <3>2. QED
      BY <3>1, BytesOf
  <2>5. Len(f.payload) = Length(f)[1] * 256 + Length(f)[2]
    BY <1>4, LengthOf
  <2>6. ext[1] * 256 + ext[2] = n
    BY <1>3, <2>2, <2>4, <2>5
  <2>7. PayloadSize(ext) = n
    BY <1>2, <1>4, <2>6 DEF PayloadSize
  <2>8. MinimallyCoded(ext) <=> n > 125
    BY <1>2, <1>4, <2>7 DEF MinimallyCoded
  <2>9. QED
    BY <1>1, <1>3, <1>4, <2>7, <2>8
<1>5. CASE f.code = 7
  <2>1. BasicSize = n /\ n <= 125
    BY <1>2, <1>3, <1>5, FrameType
  <2>2. BasicSize # 126
    BY <2>1
  <2>3. PayloadSize(ext) = n /\ MinimallyCoded(ext)
    BY <2>1, <2>2 DEF PayloadSize, MinimallyCoded
  <2>4. QED
    BY <1>1, <1>3, <1>5, <2>3
<1>6. f.code \in {7, 16}
  BY FrameType
<1>7. QED
  BY <1>4, <1>5, <1>6

LEMMA KeyRead ==
  ASSUME NEW f \in Fitting, extended \in Seq(Byte), Extends(extended, f),
         Len(extended) = HeaderSize(f) - 2, f.masked
  PROVE  \A i \in 1..4 : Key[i] = f.key[i]
<1>1. HeaderSize(f) \in {6, 8}
  BY ExtendedLengthOf
<1>2. PICK n \in 0..2, m \in Nat : n = Len(extended) - 4 /\ m = Len(extended)
  BY <1>1
<1>3. m = n + 4 /\ m = HeaderSize(f) - 2
  BY <1>1, <1>2
<1>4. Key = SubSeq(extended, n + 1, m) /\ n \in 0..m
  <2>1. Len(extended) - 3 = n + 1
    BY <1>1, <1>2
  <2>2. Key = SubSeq(extended, Len(extended) - 3, Len(extended))
    BY DEF Key
  <2>3. n \in 0..m
    BY <1>3
  <2>4. QED
    BY <1>2, <2>1, <2>2, <2>3
<1>5. \A i \in 1..m - n : Key[i] = extended[n + i]
  BY <1>2, <1>4, SuffixOf
<1>6. /\ Len(KeyOf(f)) = 4 /\ KeyOf(f) = f.key
      /\ Len(Length(f)) = IF f.code = 16 THEN 2 ELSE 0
  BY KeyLength, LengthOf DEF KeyOf
<1>7. PICK l \in 0..2 : l = Len(Length(f))
  BY <1>6
<1>8. n = l
  <2>1. HeaderSize(f) = 2 + l + 4
    <3>1. HeaderSize(f) = 2 + Len(Length(f)) + Len(KeyOf(f))
      BY BytesOf
    <3>2. Len(KeyOf(f)) = 4
      BY <1>6
    <3>3. QED
      BY <1>7, <3>1, <3>2
  <2>2. QED
    BY <1>3, <2>1
<1>9. ASSUME NEW i \in 1..4 PROVE Key[i] = f.key[i]
  <2>1. i \in 1..m - n /\ n + i \in 1..m /\ 2 + (n + i) = 2 + n + i
    BY <1>3
  <2>2. Key[i] = extended[n + i]
    BY <1>5, <2>1
  <2>3. extended[n + i] = Bytes(f)[2 + n + i]
    BY <1>2, <2>1 DEF Extends
  <2>4. i \in 1..Len(KeyOf(f))
    BY <1>6
  <2>5. Bytes(f)[2 + l + i] = KeyOf(f)[i]
    BY <1>7, <2>4, BytesOf
  <2>6. QED
    BY <1>6, <1>8, <2>2, <2>3, <2>5
<1>10. QED
  BY <1>9

\* Where the key is turned to.
LEMMA KeyTurns ==
  \A j, i \in Nat : /\ ((j % 4) + i) % 4 = (j + i) % 4 /\ (j + i) % 4 \in 0..3
                    /\ ((j % 4) + i + 1 - 1) % 4 = (j + i) % 4
  OBVIOUS

\* The next n bytes of p, after j of them, put to what comes before.
Lengthens(q, p, j, n) ==
    /\ SubSeq(p, j + 1, j + n) \in Seq(Byte) /\ Len(SubSeq(p, j + 1, j + n)) = n
    /\ \A i \in 1..n : SubSeq(p, j + 1, j + n)[i] = p[j + i]
    /\ q \o SubSeq(p, 1, j) \in Seq(Byte)
    /\ (q \o SubSeq(p, 1, j)) \o SubSeq(p, j + 1, j + n) = q \o SubSeq(p, 1, j + n)

LEMMA BytesJoined == \A a, b, c \in Seq(Byte) : (a \o b) \o c = a \o (b \o c)
BY ConcatAssociative

LEMMA PayloadGrows ==
  ASSUME NEW q \in Seq(Byte), NEW p \in Seq(Byte),
         NEW j \in Nat, NEW n \in Nat, j + n <= Len(p)
  PROVE  Lengthens(q, p, j, n)
<1>1. PICK l \in Nat : l = Len(p)
  OBVIOUS
<1>2. PICK r, s : r = SubSeq(p, j + 1, j + n) /\ s = SubSeq(p, 1, j)
  OBVIOUS
<1>3. j \in 0..Len(p) /\ j + n \in 0..Len(p)
  BY <1>1
<1>4. s \in Seq(Byte)
  BY <1>2, <1>3, PrefixOf
<1>5. /\ r \in Seq(Byte)
      /\ Len(r) = IF j + 1 <= j + n THEN j + n - (j + 1) + 1 ELSE 0
      /\ \A i \in 1..j + n - (j + 1) + 1 : r[i] = p[j + 1 + i - 1]
  <2>1. \A i \in j + 1..j + n : p[i] \in Byte
    BY <1>1, <1>3, ElementOfSeq
  <2>2. j + 1 \in Int /\ j + n \in Int
    OBVIOUS
  <2>3. QED
    BY <1>2, <2>1, <2>2, SubSeqProperties
<1>6. Len(r) = n
  BY <1>5
<1>7. ASSUME NEW i \in 1..n PROVE r[i] = p[j + i]
  <2>1. i \in 1..j + n - (j + 1) + 1 /\ j + 1 + i - 1 = j + i
    OBVIOUS
  <2>2. QED
    BY <1>5, <2>1
<1>8. s \o r = SubSeq(p, 1, j + n)
  <2>1. 1 \in 1..Len(p) + 1 /\ j \in 1 - 1..Len(p) /\ j + n \in j..Len(p)
    BY <1>1, <1>3
  <2>2. QED
    BY <1>2, <2>1, ConcatAdjacentSubSeq
<1>9. (q \o s) \o r = q \o (s \o r)
  <2>1. s \in Seq(Byte) /\ r \in Seq(Byte)
    BY <1>4, <1>5
  <2>2. QED
    BY <2>1, BytesJoined
<1>10. q \o s \in Seq(Byte)
  BY <1>4
<1>11. QED
  BY <1>2, <1>5, <1>6, <1>7, <1>8, <1>9, <1>10 DEF Lengthens

\* The n bytes are the next ones of f after j of them, and its key has been read.
NextOf(f, bytes, j, n) ==
    /\ Len(bytes) = n /\ j + n <= Len(f.payload)
    /\ \A i \in 1..n : bytes[i] = UnderKey(f)[j + i]
    /\ \A i \in 1..4 : Key[i] = f.key[i]

\* The next bytes of the payload add themselves to the message.
LEMMA PartGrows ==
  ASSUME NEW acc \in Accounts, NEW f \in Fitting, f.masked,
         NEW j \in Nat, NEW n \in Nat, NEW bytes \in Seq(Byte), NextOf(f, bytes, j, n)
  PROVE  WithBytes(Part(acc, f, j), bytes) = Part(acc, f, j + n)
<1>0. /\ Len(bytes) = n /\ j + n <= Len(f.payload)
      /\ \A i \in 1..n : bytes[i] = UnderKey(f)[j + i]
      /\ \A i \in 1..4 : Key[i] = f.key[i]
  BY DEF NextOf
<1>1. PICK p \in Seq(Byte), q \in Seq(Byte) : p = f.payload /\ q = acc.partial
  BY FrameType DEF Accounts, Account
<1>2. PICK m : m = Part(acc, f, j)
  OBVIOUS
<1>3. /\ m.op = KindOf(acc, f) /\ m.payload = q \o SubSeq(p, 1, j) /\ m.keyAt = j % 4
      /\ m.utf8 = Utf8(KindOf(acc, f), q \o SubSeq(p, 1, j))
      /\ m = [op |-> m.op, payload |-> m.payload, keyAt |-> m.keyAt, utf8 |-> m.utf8]
  BY <1>1, <1>2 DEF Part
<1> DEFINE plain == [i \in 1..Len(bytes) |-> ByteXor[bytes[i]][Key[((m.keyAt + i - 1) % 4) + 1]]]
           rest == SubSeq(p, j + 1, j + n)
<1> HIDE DEF plain, rest
<1>4. /\ rest \in Seq(Byte) /\ Len(rest) = n
      /\ \A i \in 1..n : rest[i] = p[j + i]
      /\ q \o SubSeq(p, 1, j) \in Seq(Byte)
      /\ (q \o SubSeq(p, 1, j)) \o rest = q \o SubSeq(p, 1, j + n)
  <2>1. Lengthens(q, p, j, n)
    <3>1. q \in Seq(Byte) /\ p \in Seq(Byte) /\ j + n <= Len(p)
      BY <1>0, <1>1
    <3>2. QED
      BY <3>1, PayloadGrows
  <2>2. QED
    BY <2>1 DEF Lengthens, rest
<1>5. ASSUME NEW i \in 1..n
      PROVE  ByteXor[bytes[i]][Key[((m.keyAt + i - 1) % 4) + 1]] = p[j + i]
  <2>0. PICK l \in Nat : l = Len(p)
    OBVIOUS
  <2>1. j + i \in 1..l /\ bytes[i] = UnderKey(f)[j + i]
    BY <1>0, <1>1, <2>0
  <2>2. UnderKey(f)[j + i] = ByteXor[p[j + i]][f.key[((j + i - 1) % 4) + 1]]
    <3>1. PICK x \in 1..Len(p) : x = j + i
      BY <2>0, <2>1
    <3>2. UnderKey(f)[x] = ByteXor[p[x]][f.key[((x - 1) % 4) + 1]]
      BY <1>0, <1>1 DEF UnderKey
    <3>3. (x - 1) % 4 = (j + i - 1) % 4
      BY <3>1
    <3>4. QED
      BY <3>1, <3>2, <3>3
  <2>3. PICK k \in 0..3 : k = (j + i - 1) % 4
    OBVIOUS
  <2>4. (m.keyAt + i - 1) % 4 = k
    <3>1. PICK h \in Nat : i = h + 1
      <4>1. i - 1 \in Nat /\ i = (i - 1) + 1
        OBVIOUS
      <4>2. QED
        BY <4>1
    <3>2. ((j % 4) + h + 1 - 1) % 4 = (j + h) % 4
      BY KeyTurns
    <3>3. j + i - 1 = j + h /\ (j % 4) + i - 1 = (j % 4) + h + 1 - 1
      BY <3>1
    <3>4. QED
      BY <1>3, <2>3, <3>2, <3>3
  <2>5. k + 1 \in 1..4 /\ Key[k + 1] = f.key[k + 1] /\ f.key[k + 1] \in Byte
    BY <1>0, FrameType
  <2>6. p[j + i] \in Byte
    BY <2>0, <2>1, ElementOfSeq
  <2>7. PICK a \in Byte, b \in Byte : a = p[j + i] /\ b = f.key[k + 1]
    BY <2>5, <2>6
  <2>8. bytes[i] = ByteXor[a][b] /\ Key[((m.keyAt + i - 1) % 4) + 1] = b
    BY <2>1, <2>2, <2>3, <2>4, <2>5, <2>7
  <2>9. ByteXor[ByteXor[a][b]][b] = a
    BY Hybi13Assumption
  <2>10. QED
    BY <2>7, <2>8, <2>9
<1>6. plain = rest
  <2>1. plain = [i \in 1..n |-> p[j + i]]
    BY <1>0, <1>5 DEF plain
  <2>2. plain \in [1..n -> Byte]
    <3>1. \A i \in 1..n : p[j + i] \in Byte
      BY <1>4, ElementOfSeq
    <3>2. QED
      BY <2>1, <3>1
  <2>3. plain \in Seq(Byte)
    BY <2>2, SeqDef
  <2>4. Len(plain) = n
    BY <2>2, <2>3, LenProperties
  <2>5. \A i \in 1..n : plain[i] = rest[i]
    BY <1>4, <2>1
  <2>6. QED
    BY <1>4, <2>3, <2>4, <2>5, SeqEqual
<1>7. WithBytes(m, bytes) =
         [m EXCEPT !.payload = m.payload \o plain, !.keyAt = KeyTurned(m.keyAt, Len(bytes)),
                   !.utf8 = IF m.op = TEXT THEN Decoded(m.utf8, plain) ELSE m.utf8]
  BY DEF WithBytes, plain
<1>8. m.payload \o plain = q \o SubSeq(p, 1, j + n)
  BY <1>3, <1>4, <1>6
<1>9. KeyTurned(m.keyAt, Len(bytes)) = (j + n) % 4
  BY <1>0, <1>3, KeyTurns DEF KeyTurned
<1>10. (IF m.op = TEXT THEN Decoded(m.utf8, plain) ELSE m.utf8)
          = Utf8(KindOf(acc, f), q \o SubSeq(p, 1, j + n))
  <2>1. CASE m.op = TEXT
    <3>1. PICK s \in Seq(Byte), t \in Seq(Byte) : s = q \o SubSeq(p, 1, j) /\ t = plain
      BY <1>4, <1>6
    <3>2. "accept" \in Verdict
      BY DEF Verdict
    <3>3. Decoded("accept", s \o t) = Decoded(Decoded("accept", s), t)
      BY <3>2, DecodedConcat
    <3>4. m.utf8 = Decoded("accept", s)
      BY <1>3, <2>1, <3>1 DEF Utf8
    <3>5. s \o t = q \o SubSeq(p, 1, j + n)
      BY <1>3, <1>8, <3>1
    <3>6. QED
      BY <1>3, <2>1, <3>1, <3>3, <3>4, <3>5 DEF Utf8
  <2>2. CASE m.op # TEXT
    BY <1>3, <2>2 DEF Utf8
  <2>3. QED
    BY <2>1, <2>2
<1>11. WithBytes(m, bytes) =
          [op |-> m.op, payload |-> q \o SubSeq(p, 1, j + n), keyAt |-> (j + n) % 4,
           utf8 |-> Utf8(KindOf(acc, f), q \o SubSeq(p, 1, j + n))]
  BY <1>3, <1>7, <1>8, <1>9, <1>10
<1>12. QED
  BY <1>1, <1>2, <1>3, <1>11 DEF Part
-----------------------------------------------------------------------------
\* The steps of the processor.

LEMMA Here ==
  ASSUME stream \in Streams, NEW k \in 0..Len(stream)
  PROVE  /\ stream \in Seq(Fitting) /\ Len(stream) \in Nat
         /\ Off(k) \in Nat /\ Acc(k) \in Accounts
         /\ k < Len(stream) =>
               /\ This(k) \in Fitting /\ k + 1 \in 0..Len(stream)
               /\ Acc(k + 1) = AddFrame(Acc(k), This(k))
               /\ Off(k + 1) = Off(k) + Len(Bytes(This(k)))
               /\ \A i \in 1..Len(Bytes(This(k))) :
                     Wire(stream)[Len(stream)][Off(k) + i] = Bytes(This(k))[i]
<1>1. stream \in Seq(Fitting) /\ Len(stream) \in Nat
  BY StreamsFit
<1>2. Off(k) \in Nat /\ Acc(k) \in Accounts
  BY <1>1, WireByFrame, MeaningByFrame DEF Off, Acc
<1>3. ASSUME k < Len(stream)
      PROVE  /\ This(k) \in Fitting /\ k + 1 \in 0..Len(stream)
             /\ Acc(k + 1) = AddFrame(Acc(k), This(k))
             /\ Off(k + 1) = Off(k) + Len(Bytes(This(k)))
             /\ \A i \in 1..Len(Bytes(This(k))) :
                   Wire(stream)[Len(stream)][Off(k) + i] = Bytes(This(k))[i]
  <2>1. k \in 0..Len(stream) - 1 /\ k + 1 \in 1..Len(stream) /\ (k + 1) - 1 = k
    BY <1>1, <1>3
  <2>2. This(k) \in Fitting
    BY <1>1, <2>1, ElementOfSeq DEF This
  <2>3. Acc(k + 1) = AddFrame(Acc(k), This(k))
    BY <1>1, <2>1, MeaningByFrame DEF Acc, This
  <2>4. Off(k + 1) = Off(k) + Len(Bytes(This(k)))
    BY <1>1, <2>1, WireGrows DEF Off, This
  <2>5. \A i \in 1..Len(Bytes(This(k))) :
           Wire(stream)[Len(stream)][Off(k) + i] = Bytes(This(k))[i]
    BY <1>1, <2>1, FrameOnTheWire DEF Off, This
  <2>6. QED
    BY <2>1, <2>2, <2>3, <2>4, <2>5
<1>4. QED
  BY <1>1, <1>2, <1>3

\* The bytes of the chunk are the next ones of the frame.
LEMMA NextBytes ==
  ASSUME stream \in Streams, NEW k \in 0..Len(stream), k < Len(stream), NEW d \in Nat,
         At(Off(k) + d), NEW i \in 1..Len(chunk), d + i <= Len(Bytes(This(k)))
  PROVE  chunk[i] = Bytes(This(k))[d + i]
<1>1. /\ Off(k) \in Nat /\ This(k) \in Fitting
      /\ \A j \in 1..Len(Bytes(This(k))) :
            Wire(stream)[Len(stream)][Off(k) + j] = Bytes(This(k))[j]
  BY Here
<1>2. Len(Bytes(This(k))) \in Nat
  BY <1>1, BytesOf
<1>3. chunk[i] = Wire(stream)[Len(stream)][Off(k) + d + i]
  BY DEF At, Placed
<1>4. i \in Nat /\ i >= 1
  <2>1. i \in Int /\ i >= 1
    OBVIOUS
  <2>2. QED
    BY <2>1
<1>5. d + i \in 1..Len(Bytes(This(k))) /\ Off(k) + d + i = Off(k) + (d + i)
  BY <1>1, <1>2, <1>4
<1>6. QED
  BY <1>1, <1>3, <1>5

\* A chunk that is not empty belongs to a frame.
LEMMA MoreToCome ==
  ASSUME stream \in Streams, NEW k \in 0..Len(stream), NEW d \in Nat, At(Off(k) + d),
         chunk \in Seq(Byte), unread \in Seq(Byte), chunk # <<>>
  PROVE  k < Len(stream)
<1> SUFFICES ASSUME k = Len(stream) PROVE FALSE
  BY Here
<1>1. PICK a \in Nat, b \in Nat, c \in Nat : a = Len(chunk) /\ b = Len(unread) /\ c = Off(k)
  BY Here
<1>2. a >= 1
  BY <1>1, EmptySeq
<1>3. c + d + a + b = c
  BY <1>1 DEF At, Placed, Off
<1>4. QED
  BY <1>2, <1>3

LEMMA TakeMoves ==
  ASSUME NEW off \in Nat, At(off), chunk \in Seq(Byte), unread \in Seq(Byte),
         NEW n \in 0..Len(chunk), chunk' = SubSeq(chunk, n + 1, Len(chunk)),
         unread' = unread, stream' = stream
  PROVE  At(off + n)' /\ chunk' \in Seq(Byte)
<1>1. Placed(chunk', unread, Wire(stream)[Len(stream)], off + n)
  BY PlacedTaking DEF At
<1>2. chunk' \in Seq(Byte)
  BY SuffixOf
<1>3. QED
  BY <1>1, <1>2 DEF At

LEMMA ReadMoves ==
  ASSUME NEW off \in Nat, At(off), chunk = <<>>, unread \in Seq(Byte), Read
  PROVE  At(off)' /\ chunk' \in Seq(Byte) /\ unread' \in Seq(Byte)
<1>1. PICK n \in 1..Len(unread) :
          chunk' = SubSeq(unread, 1, n) /\ unread' = SubSeq(unread, n + 1, Len(unread))
  BY DEF Read
<1>2. Placed(<<>>, unread, Wire(stream)[Len(stream)], off)
  BY DEF At
<1>3. Placed(chunk', unread', Wire(stream)[Len(stream)], off)
  BY <1>1, <1>2, PlacedReading
<1>4. stream' = stream
  BY DEF Read
<1>5. n \in 0..Len(unread)
  OBVIOUS
<1>6. chunk' \in Seq(Byte) /\ unread' \in Seq(Byte)
  BY <1>1, <1>5, PrefixOf, SuffixOf
<1>7. QED
  BY <1>3, <1>4, <1>6 DEF At

LEMMA StartsAtNothing == Init => FramingInv
<1> SUFFICES ASSUME Init PROVE FramingInv
  OBVIOUS
<1>1. stream \in Streams /\ 0 \in 0..Len(stream)
  BY StreamsFit DEF Init
<1>2. stream \in Seq(Fitting) /\ Len(stream) \in 0..Len(stream)
  BY <1>1, StreamsFit
<1>3. unread = Wire(stream)[Len(stream)] /\ unread \in Seq(Byte)
  BY <1>2, WireByFrame DEF Init
<1>4. Acc(0) = NoFrames /\ Off(0) = 0
  <2>1. Acc(0) = NoFrames
    BY <1>2, MeaningByFrame DEF Acc
  <2>2. Wire(stream)[0] = <<>>
    BY <1>2, WireByFrame
  <2>3. QED
    BY <2>1, <2>2, EmptySeq DEF Off
<1>5. chunk = <<>> /\ chunk \in Seq(Byte) /\ Len(chunk) = 0
  BY EmptySeq DEF Init
<1>6. At(0)
  <2>1. PICK b \in Nat : b = Len(unread)
    BY <1>3
  <2>2. 0 + 0 + b = b /\ \A i \in 1..b : 0 + 0 + i = i
    OBVIOUS
  <2>3. QED
    BY <1>3, <1>5, <2>1, <2>2 DEF At, Placed
<1>7. Stage(0)
  <2>1. Sound(0) /\ Holds(data, Acc(0))
    BY <1>4 DEF Init, Sound, Holds, NoFrames
  <2>2. QED
    BY <1>4, <1>6, <2>1 DEF Init, Stage, AtHeader
<1>8. TypeOK
  <2>1. header \in [b0: Byte, b1: Byte]
    BY DEF Init, Byte
  <2>2. extended \in Seq(Byte) /\ Len(extended) = 0
    BY EmptySeq DEF Init
  <2>3. mState = "HEADER_BASIC" /\ bytesNeeded = 2 /\ current = "none" /\ failed = FALSE
    BY DEF Init
  <2>4. /\ mState \in {"HEADER_BASIC", "HEADER_EXTENDED", "APPLICATION", "READY"}
        /\ bytesNeeded \in 1..2 /\ bytesNeeded \in Nat /\ bytesNeeded <= 65535
        /\ mState # "READY" /\ Len(extended) <= 12
    BY <2>2, <2>3
  <2>5. current \in {"none", "data", "control"} /\ failed \in BOOLEAN
    BY <2>3
  <2>6. chunk \in Seq(Byte)
    BY <1>5
  <2>7. QED
    BY <2>1, <2>2, <2>4, <2>5, <2>6 DEF TypeOK
<1>9. QED
  BY <1>1, <1>3, <1>7, <1>8 DEF Init, FramingInv, Progress

LEMMA StageFacts ==
  ASSUME FramingInv, ~failed
  PROVE  /\ stream \in Streams /\ unread \in Seq(Byte) /\ chunk \in Seq(Byte) /\ TypeOK
         /\ \E k \in 0..Len(stream) : Stage(k)
  BY DEF FramingInv, Progress, TypeOK

\* An error leaves the messages of the frames before.
LEMMA FailKeeps ==
  ASSUME FramingInv, Fail, UNCHANGED <<stream, unread, delivered>>, mState # "READY",
         NEW k \in 0..Len(stream), delivered = Acc(k).messages
  PROVE  FramingInv'
<1>1. TypeOK'
  BY DEF FramingInv, TypeOK, Fail
<1>2. failed' /\ mState' # "READY" /\ stream' = stream /\ delivered' = Acc(k).messages
  BY DEF Fail
<1>3. Progress'
  BY <1>2 DEF Progress, Acc
<1>4. QED
  BY <1>1, <1>2, <1>3 DEF FramingInv

LEMMA ReadKeeps == FramingInv /\ Read => FramingInv'
<1> SUFFICES ASSUME FramingInv, Read PROVE FramingInv'
  OBVIOUS
<1>1. ~failed /\ mState # "READY" /\ chunk = <<>>
  BY DEF Read, Waiting, GoesOn
<1>2. stream \in Streams /\ unread \in Seq(Byte) /\ chunk \in Seq(Byte) /\ TypeOK
  BY <1>1, StageFacts
<1>3. PICK k \in 0..Len(stream) : Stage(k)
  BY <1>1, StageFacts
<1>4. UNCHANGED <<stream, mState, bytesNeeded, header, extended, data, control, current,
                  delivered, failed>>
  BY DEF Read
<1>5. stream \in Seq(Fitting) /\ Off(k) \in Nat
  BY <1>2, Here
<1>6. AtHeader(k) => AtHeader(k)' /\ chunk' \in Seq(Byte) /\ unread' \in Seq(Byte)
  <2> SUFFICES ASSUME AtHeader(k)
               PROVE  AtHeader(k)' /\ chunk' \in Seq(Byte) /\ unread' \in Seq(Byte)
    OBVIOUS
  <2>1. CASE bytesNeeded = 2 /\ At(Off(k))
    <3>1. At(Off(k))' /\ chunk' \in Seq(Byte) /\ unread' \in Seq(Byte)
      <4>1. PICK off \in Nat : off = Off(k)
        BY <1>5
      <4>2. At(off)' /\ chunk' \in Seq(Byte) /\ unread' \in Seq(Byte)
        BY <1>1, <1>2, <2>1, <4>1, ReadMoves
      <4>3. QED
        BY <1>4, <4>1, <4>2 DEF At, Off
    <3>2. QED
      BY <1>4, <2>1, <3>1 DEF AtHeader, Sound, Acc
  <2>2. CASE /\ bytesNeeded = 1 /\ k < Len(stream) /\ At(Off(k) + 1)
             /\ header.b0 = Bytes(This(k))[1]
    <3>1. At(Off(k) + 1)' /\ chunk' \in Seq(Byte) /\ unread' \in Seq(Byte)
      <4>1. PICK off \in Nat : off = Off(k) + 1
        BY <1>5
      <4>2. At(off)' /\ chunk' \in Seq(Byte) /\ unread' \in Seq(Byte)
        BY <1>1, <1>2, <2>2, <4>1, ReadMoves
      <4>3. QED
        BY <1>4, <4>1, <4>2 DEF At, Off
    <3>2. QED
      BY <1>4, <2>2, <3>1 DEF AtHeader, Sound, Acc, This
  <2>3. QED
    BY <2>1, <2>2 DEF AtHeader
<1>7. AtExtended(k) => AtExtended(k)' /\ chunk' \in Seq(Byte) /\ unread' \in Seq(Byte)
  <2> SUFFICES ASSUME AtExtended(k)
               PROVE  AtExtended(k)' /\ chunk' \in Seq(Byte) /\ unread' \in Seq(Byte)
    OBVIOUS
  <2>1. PICK off \in Nat : off = Off(k) + 2 + Len(extended)
    BY <1>2, <1>5 DEF TypeOK
  <2>2. At(off)' /\ chunk' \in Seq(Byte) /\ unread' \in Seq(Byte)
    BY <1>1, <1>2, <2>1, ReadMoves DEF AtExtended
  <2>3. At(Off(k) + 2 + Len(extended))'
    BY <1>4, <2>1, <2>2 DEF At, Off
  <2>4. QED
    BY <1>4, <2>2, <2>3 DEF AtExtended, Sound, Acc, This
<1>8. AtPayload(k) => AtPayload(k)' /\ chunk' \in Seq(Byte) /\ unread' \in Seq(Byte)
  <2> SUFFICES ASSUME AtPayload(k)
               PROVE  AtPayload(k)' /\ chunk' \in Seq(Byte) /\ unread' \in Seq(Byte)
    OBVIOUS
  <2>1. PICK off \in Nat : off = Off(k) + HeaderSize(This(k)) + Taken(k)
    <3>1. This(k) \in Fitting
      BY <1>2, Here DEF AtPayload
    <3>2. Len(This(k).payload) \in Nat /\ bytesNeeded \in Nat /\ bytesNeeded <= Len(This(k).payload)
      BY <1>2, <3>1, FrameType DEF TypeOK, AtPayload
    <3>3. Taken(k) \in Nat
      BY <3>2 DEF Taken
    <3>4. HeaderSize(This(k)) \in Nat
      BY DEF HeaderSize
    <3>5. QED
      BY <1>5, <3>3, <3>4
  <2>2. At(off)' /\ chunk' \in Seq(Byte) /\ unread' \in Seq(Byte)
    BY <1>1, <1>2, <2>1, ReadMoves DEF AtPayload
  <2>3. At(Off(k) + HeaderSize(This(k)) + Taken(k))'
    BY <1>4, <2>1, <2>2 DEF At, Off, This, Taken
  <2>4. QED
    BY <1>4, <2>2, <2>3 DEF AtPayload, Sound, Acc, This, Taken
<1>9. Stage(k)' /\ chunk' \in Seq(Byte) /\ unread' \in Seq(Byte)
  <2>1. ~AtReady(k)
    BY <1>1 DEF AtReady
  <2>2. QED
    BY <1>3, <1>6, <1>7, <1>8, <2>1 DEF Stage
<1>10. TypeOK'
  BY <1>2, <1>4, <1>9 DEF TypeOK
<1>11. QED
  BY <1>1, <1>2, <1>4, <1>9, <1>10 DEF FramingInv, Progress

LEMMA HeaderBasicKeeps == FramingInv /\ HeaderBasic => FramingInv'
<1> SUFFICES ASSUME FramingInv, HeaderBasic PROVE FramingInv'
  OBVIOUS
<1>1. ~failed /\ mState = "HEADER_BASIC" /\ GoesOn
  BY DEF HeaderBasic, Consuming
<1>2. stream \in Streams /\ unread \in Seq(Byte) /\ chunk \in Seq(Byte) /\ TypeOK
  BY <1>1, StageFacts
<1>3. PICK k \in 0..Len(stream) : AtHeader(k)
  <2>1. PICK k \in 0..Len(stream) : Stage(k)
    BY <1>1, StageFacts
  <2>2. AtHeader(k)
    BY <1>1, <2>1 DEF Stage, AtExtended, AtPayload, AtReady
  <2>3. QED
    BY <2>2
<1>4. bytesNeeded \in 1..2 /\ header \in [b0: Byte, b1: Byte]
  BY <1>1, <1>2 DEF TypeOK
<1>5. chunk # <<>>
  BY <1>1, <1>4 DEF GoesOn
<1>6. PICK d \in 0..1 : At(Off(k) + d) /\ bytesNeeded = 2 - d
                       /\ (d = 1 => header.b0 = Bytes(This(k))[1])
  <2>1. CASE bytesNeeded = 2 /\ At(Off(k))
    <3>1. Off(k) + 0 = Off(k)
      BY <1>2, Here
    <3>2. QED
      BY <2>1, <3>1
  <2>2. CASE bytesNeeded = 1 /\ At(Off(k) + 1) /\ header.b0 = Bytes(This(k))[1]
    BY <2>2
  <2>3. QED
    BY <1>3, <2>1, <2>2 DEF AtHeader
<1>7. k < Len(stream)
  BY <1>2, <1>5, <1>6, MoreToCome
<1>8. PICK f \in Fitting : f = This(k)
  BY <1>2, <1>7, Here
<1>9. Off(k) \in Nat /\ Acc(k) \in Accounts
  BY <1>2, Here
<1>10. PICK l \in Nat : l = Len(chunk) /\ l >= 1
  BY <1>2, <1>5, EmptySeq
<1>11. Len(Bytes(f)) \in Nat /\ Len(Bytes(f)) >= 2 /\ Bytes(f)[1] \in Byte /\ Bytes(f)[2] \in Byte
  <2>1. Len(Bytes(f)) = HeaderSize(f) + Len(f.payload) /\ Len(f.payload) \in Nat
    BY BytesOf, FrameType
  <2>2. HeaderSize(f) \in Nat /\ HeaderSize(f) >= 2
    BY DEF HeaderSize
  <2>3. QED
    BY <2>1, <2>2, HeaderSays
<1>12. \A i \in 1..l : d + i <= 2 => chunk[i] = Bytes(f)[d + i]
  BY <1>2, <1>6, <1>7, <1>8, <1>10, <1>11, NextBytes
<1>h. PICK h, n : /\ h = IF TwoAtOnce THEN [b0 |-> chunk[1], b1 |-> chunk[2]]
                         ELSE IF bytesNeeded = 2 THEN [header EXCEPT !.b0 = chunk[1]]
                         ELSE [header EXCEPT !.b1 = chunk[1]]
                  /\ n = IF TwoAtOnce THEN 2 ELSE 1
  OBVIOUS
<1>13. \/ bytesNeeded = n /\ ~AcceptsBasicHeader(h.b0, h.b1) /\ Fail
       \/ /\ ~(bytesNeeded = n /\ ~AcceptsBasicHeader(h.b0, h.b1))
          /\ chunk' = SubSeq(chunk, n + 1, Len(chunk)) /\ header' = h
          /\ IF bytesNeeded = n
             THEN mState' = "HEADER_EXTENDED" /\ bytesNeeded' = ExtendedLength(h.b1)
             ELSE bytesNeeded' = bytesNeeded - n /\ UNCHANGED mState
          /\ UNCHANGED <<extended, data, control, current, failed>>
  BY <1>h DEF HeaderBasic
<1>14. UNCHANGED <<stream, unread, delivered>>
  BY DEF HeaderBasic
<1>15. n \in 1..2 /\ n <= bytesNeeded /\ n <= l /\ (n = 2 <=> TwoAtOnce)
  BY <1>4, <1>10, <1>h DEF TwoAtOnce
<1>16. bytesNeeded = n => h = [b0 |-> Bytes(f)[1], b1 |-> Bytes(f)[2]]
  <2>1. CASE TwoAtOnce
    <3>1. bytesNeeded = 2 /\ l > 1
      BY <1>10, <2>1 DEF TwoAtOnce
    <3>2. d = 0
      BY <1>6, <3>1
    <3>3. chunk[1] = Bytes(f)[1] /\ chunk[2] = Bytes(f)[2]
      <4>1. /\ 1 \in 1..l /\ 2 \in 1..l /\ d + 1 = 1 /\ d + 2 = 2
        BY <3>1, <3>2
      <4>2. QED
        BY <1>12, <4>1
    <3>4. QED
      BY <1>h, <2>1, <3>3
  <2>2. CASE ~TwoAtOnce /\ bytesNeeded = 1
    <3>1. d = 1
      BY <1>6, <2>2
    <3>2. chunk[1] = Bytes(f)[2]
      <4>1. 1 \in 1..l /\ d + 1 = 2
        BY <1>10, <3>1
      <4>2. QED
        BY <1>12, <4>1
    <3>3. header.b0 = Bytes(f)[1]
      BY <1>6, <1>8, <3>1
    <3>4. h = [header EXCEPT !.b1 = chunk[1]]
      BY <1>h, <2>2
    <3>5. QED
      BY <1>4, <3>2, <3>3, <3>4
  <2>3. CASE ~TwoAtOnce /\ bytesNeeded = 2
    BY <1>h, <2>3
  <2>4. QED
    BY <1>4, <2>1, <2>2, <2>3
<1>17. bytesNeeded # n => bytesNeeded = 2 /\ n = 1 /\ d = 0 /\ h = [header EXCEPT !.b0 = Bytes(f)[1]]
  <2> SUFFICES ASSUME bytesNeeded # n
               PROVE  bytesNeeded = 2 /\ n = 1 /\ d = 0 /\ h = [header EXCEPT !.b0 = Bytes(f)[1]]
    OBVIOUS
  <2>1. bytesNeeded = 2 /\ n = 1 /\ d = 0 /\ ~TwoAtOnce
    BY <1>4, <1>6, <1>15
  <2>2. chunk[1] = Bytes(f)[1]
    <3>1. 1 \in 1..l /\ d + 1 = 1 /\ d + 1 <= 2
      BY <1>10, <2>1
    <3>2. QED
      BY <1>12, <3>1
  <2>3. QED
    BY <1>h, <2>1, <2>2
<1>18. ASSUME Fail PROVE FramingInv'
  <2>1. delivered = Acc(k).messages
    BY <1>3 DEF AtHeader, Sound
  <2>2. mState # "READY"
    BY <1>1
  <2>3. QED
    BY <1>14, <1>18, <2>1, <2>2, FailKeeps
<1>19. ASSUME chunk' = SubSeq(chunk, n + 1, Len(chunk))
       PROVE  At(Off(k) + d + n)' /\ chunk' \in Seq(Byte)
  <2>1. PICK off \in Nat : off = Off(k) + d
    BY <1>9
  <2>2. n \in 0..Len(chunk)
    BY <1>10, <1>15
  <2>3. At(off + n)' /\ chunk' \in Seq(Byte)
    <3>1. At(off) /\ unread' = unread /\ stream' = stream
      BY <1>6, <1>14, <2>1
    <3>2. QED
      BY <1>2, <1>19, <2>2, <3>1, TakeMoves
  <2>4. QED
    BY <1>14, <2>1, <2>3 DEF At, Off
<1>20. ASSUME bytesNeeded = n, AcceptsBasicHeader(h.b0, h.b1),
              chunk' = SubSeq(chunk, n + 1, Len(chunk)), header' = h,
              mState' = "HEADER_EXTENDED", bytesNeeded' = ExtendedLength(h.b1),
              UNCHANGED <<extended, data, control, current, failed>>
       PROVE  FramingInv'
  <2>1. h = [b0 |-> Bytes(f)[1], b1 |-> Bytes(f)[2]] /\ d + n = 2
    BY <1>6, <1>16, <1>20
  <2>2. Holds(data, Acc(k)) /\ extended = <<>> /\ Sound(k)
    BY <1>3 DEF AtHeader
  <2>3. Headed(h, f, Acc(k).open)
    <3>1. PICK open \in BOOLEAN : open = Acc(k).open /\ (data # NoMessage <=> open)
      BY <1>9, <2>2, HoldsOpen
    <3>2. AcceptsBasicHeader(Bytes(f)[1], Bytes(f)[2])
      BY <1>20, <2>1
    <3>3. QED
      BY <2>1, <3>1, <3>2, AcceptedIsHeaded
  <2>4. f.masked
    BY <2>3 DEF Headed
  <2>5. bytesNeeded' = HeaderSize(f) - 2 /\ HeaderSize(f) \in {6, 8}
    BY <1>20, <2>1, <2>4, ExtendedLengthOf
  <2>6. Len(extended') = 0 /\ extended' = <<>> /\ extended' \in Seq(Byte)
    BY <1>20, <2>2, EmptySeq
  <2>7. At(Off(k) + 2 + Len(extended))' /\ chunk' \in Seq(Byte)
    <3>1. At(Off(k) + d + n)' /\ chunk' \in Seq(Byte)
      BY <1>19, <1>20
    <3>2. Off(k) + d + n = Off(k) + 2 + 0
      BY <1>6, <1>9, <1>15, <2>1
    <3>3. QED
      BY <1>14, <2>6, <3>1, <3>2 DEF At, Off
  <2>8. Extends(extended', f)
    BY <2>6 DEF Extends
  <2>9. AtExtended(k)'
    <3>1. bytesNeeded' > 0 /\ Len(extended') + bytesNeeded' = HeaderSize(f) - 2
      BY <2>5, <2>6
    <3>2. QED
      BY <1>7, <1>8, <1>14, <1>20, <2>2, <2>3, <2>7, <2>8, <3>1
      DEF AtExtended, Sound, Acc, This
  <2>10. TypeOK'
    <3>1. header' \in [b0: Byte, b1: Byte]
      BY <1>11, <1>20, <2>1
    <3>2. bytesNeeded' \in Nat /\ bytesNeeded' <= 65535
      BY <2>5
    <3>3. QED
      BY <1>2, <1>20, <2>6, <2>7, <3>1, <3>2 DEF TypeOK
  <2>11. QED
    BY <1>1, <1>2, <1>14, <1>20, <2>9, <2>10 DEF FramingInv, Progress, Stage
<1>21. ASSUME bytesNeeded # n, chunk' = SubSeq(chunk, n + 1, Len(chunk)), header' = h,
              bytesNeeded' = bytesNeeded - n, UNCHANGED mState,
              UNCHANGED <<extended, data, control, current, failed>>
       PROVE  FramingInv'
  <2>1. bytesNeeded = 2 /\ n = 1 /\ d = 0 /\ h = [header EXCEPT !.b0 = Bytes(f)[1]]
    BY <1>17, <1>21
  <2>2. header' \in [b0: Byte, b1: Byte] /\ header'.b0 = Bytes(f)[1]
    BY <1>4, <1>11, <1>21, <2>1
  <2>3. At(Off(k) + 1)' /\ chunk' \in Seq(Byte)
    <3>1. At(Off(k) + d + n)' /\ chunk' \in Seq(Byte)
      BY <1>19, <1>21
    <3>2. Off(k) + d + n = Off(k) + 1
      BY <1>9, <2>1
    <3>3. QED
      BY <1>14, <3>1, <3>2 DEF At, Off
  <2>4. bytesNeeded' = 1
    BY <1>21, <2>1
  <2>5. AtHeader(k)'
    BY <1>3, <1>7, <1>8, <1>14, <1>21, <2>2, <2>3, <2>4 DEF AtHeader, Sound, Acc, This
  <2>6. TypeOK'
    BY <1>1, <1>2, <1>21, <2>2, <2>3, <2>4 DEF TypeOK
  <2>7. QED
    BY <1>1, <1>2, <1>14, <1>21, <2>5, <2>6 DEF FramingInv, Progress, Stage
<1>22. QED
  BY <1>13, <1>18, <1>20, <1>21

\* The bytes of the rest of the header, with n more.
LEMMA ExtendsMore ==
  ASSUME NEW k \in 0..Len(stream), stream \in Streams, k < Len(stream), chunk \in Seq(Byte),
         extended \in Seq(Byte), Extends(extended, This(k)),
         At(Off(k) + 2 + Len(extended)), NEW n \in 0..Len(chunk),
         2 + Len(extended) + n <= Len(Bytes(This(k))), NEW ext, ext = extended \o SubSeq(chunk, 1, n)
  PROVE  ext \in Seq(Byte) /\ Len(ext) = Len(extended) + n /\ Extends(ext, This(k))
<1>1. PICK s : s = SubSeq(chunk, 1, n)
  OBVIOUS
<1>2. s \in Seq(Byte) /\ Len(s) = n /\ \A i \in 1..n : s[i] = chunk[i]
  BY <1>1, PrefixOf
<1>3. PICK e \in Nat, c \in Nat : e = Len(extended) /\ c = Len(chunk)
  OBVIOUS
<1>4. /\ ext \in Seq(Byte) /\ Len(ext) = e + n
      /\ \A i \in 1..e : ext[i] = extended[i]
      /\ \A i \in 1..n : ext[e + i] = s[i]
  <2>1. PICK x \in Seq(Byte) : x = extended
    OBVIOUS
  <2>2. PICK y \in Seq(Byte) : y = s
    BY <1>2
  <2>3. PICK z : z = x \o y
    OBVIOUS
  <2>4. /\ z \in Seq(Byte) /\ Len(z) = Len(x) + Len(y)
        /\ \A i \in 1..Len(x) : z[i] = x[i]
        /\ \A i \in 1..Len(y) : z[Len(x) + i] = y[i]
    BY <2>3, TwoParts
  <2>5. ext = z /\ Len(x) = e /\ Len(y) = n
    BY <1>1, <1>2, <1>3, <2>1, <2>2, <2>3
  <2>6. QED
    BY <2>1, <2>2, <2>4, <2>5
<1>5. ASSUME NEW i \in 1..e + n PROVE ext[i] = Bytes(This(k))[2 + i]
  <2>1. CASE i \in 1..e
    BY <1>3, <1>4, <2>1 DEF Extends
  <2>2. CASE i \notin 1..e
    <3>1. PICK j \in 1..n : i = e + j
      <4>1. i - e \in 1..n /\ i = e + (i - e)
        BY <1>3, <2>2
      <4>2. QED
        BY <4>1
    <3>2. ext[i] = chunk[j]
      BY <1>2, <1>4, <3>1
    <3>3. PICK d \in Nat : d = 2 + e
      BY <1>3
    <3>4. At(Off(k) + d)
      <4>1. PICK o \in Nat : o = Off(k)
        BY Here
      <4>2. Off(k) + 2 + Len(extended) = Off(k) + d
        <5>1. o + 2 + e = o + (2 + e)
          BY <1>3
        <5>2. QED
          BY <1>3, <3>3, <4>1, <5>1
      <4>3. QED
        BY <4>2
    <3>5. PICK b \in Nat : b = Len(Bytes(This(k)))
      BY Here, BytesOf
    <3>6. j \in 1..Len(chunk) /\ d + j <= Len(Bytes(This(k)))
      BY <1>3, <3>3, <3>5
    <3>7. chunk[j] = Bytes(This(k))[d + j]
      BY <3>4, <3>6, NextBytes
    <3>8. d + j = 2 + i
      BY <1>3, <3>1, <3>3
    <3>9. QED
      BY <3>2, <3>7, <3>8
  <2>3. QED
    BY <2>1, <2>2
<1>6. QED
  BY <1>3, <1>4, <1>5 DEF Extends

LEMMA HeaderExtendedKeeps == FramingInv /\ HeaderExtended => FramingInv'
<1> SUFFICES ASSUME FramingInv, HeaderExtended PROVE FramingInv'
  OBVIOUS
<1>1. ~failed /\ mState = "HEADER_EXTENDED"
  BY DEF HeaderExtended, Consuming
<1>2. stream \in Streams /\ unread \in Seq(Byte) /\ chunk \in Seq(Byte) /\ TypeOK
  BY <1>1, StageFacts
<1>3. PICK k \in 0..Len(stream) : AtExtended(k)
  <2>1. PICK k \in 0..Len(stream) : Stage(k)
    BY <1>1, StageFacts
  <2>2. AtExtended(k)
    BY <1>1, <2>1 DEF Stage, AtHeader, AtPayload, AtReady
  <2>3. QED
    BY <2>2
<1>4. /\ k < Len(stream) /\ Sound(k) /\ Holds(data, Acc(k))
      /\ Headed(header, This(k), Acc(k).open) /\ Extends(extended, This(k))
      /\ bytesNeeded > 0 /\ Len(extended) + bytesNeeded = HeaderSize(This(k)) - 2
      /\ At(Off(k) + 2 + Len(extended))
  BY <1>3 DEF AtExtended
<1>5. PICK f \in Fitting : f = This(k)
  BY <1>2, <1>4, Here
<1>6. Off(k) \in Nat /\ Acc(k) \in Accounts
  BY <1>2, Here
<1>7. PICK l \in Nat, e \in Nat, b \in Nat :
          l = Len(chunk) /\ e = Len(extended) /\ b = bytesNeeded
  BY <1>2 DEF TypeOK
<1>8. PICK n, ext : /\ n = IF bytesNeeded < Len(chunk) THEN bytesNeeded ELSE Len(chunk)
                    /\ ext = extended \o SubSeq(chunk, 1, n)
  OBVIOUS
<1>9. /\ n \in 0..l /\ n <= b /\ n \in Nat /\ (n < b => n = l)
      /\ n \in 0..Len(chunk)
  BY <1>7, <1>8
<1>10. f.masked /\ HeaderSize(f) \in {6, 8} /\ Len(Bytes(f)) = HeaderSize(f) + Len(f.payload)
       /\ Len(f.payload) \in Nat /\ Len(f.payload) <= 65535
  <2>1. f.masked
    BY <1>4, <1>5 DEF Headed
  <2>2. Len(f.payload) <= 65535
    <3>1. PICK c, p \in Nat : c = f.code /\ p = Len(f.payload)
      BY FrameType
    <3>2. c \in {7, 16} /\ (c = 7 => p <= 125) /\ (c = 16 => p <= 65535)
      BY <3>1, FrameType
    <3>3. p <= 65535
      BY <3>2
    <3>4. QED
      BY <3>1, <3>3
  <2>3. QED
    BY <2>1, <2>2, ExtendedLengthOf, BytesOf, FrameType
<1>11. e + b = HeaderSize(f) - 2
  BY <1>4, <1>5, <1>7
<1>12. ext \in Seq(Byte) /\ Len(ext) = e + n /\ Extends(ext, f)
  <2>1. 2 + Len(extended) + n <= Len(Bytes(This(k)))
    BY <1>5, <1>7, <1>9, <1>10, <1>11
  <2>2. extended \in Seq(Byte)
    BY <1>2 DEF TypeOK
  <2>3. QED
    BY <1>2, <1>4, <1>5, <1>7, <1>8, <1>9, <2>1, <2>2, ExtendsMore
<1>13. UNCHANGED <<stream, unread, delivered>>
  BY DEF HeaderExtended
<1>14. \/ n < bytesNeeded /\ chunk' = <<>> /\ extended' = ext /\ bytesNeeded' = bytesNeeded - n
          /\ UNCHANGED <<mState, header, data, control, current, failed>>
       \/ Fail
       \/ /\ ~(n < bytesNeeded) /\ MinimallyCoded(ext)
          /\ ~(~IsControl(Opcode) /\ MessageSize(PayloadSize(ext)) > MaxMessageSize)
          /\ chunk' = SubSeq(chunk, n + 1, Len(chunk)) /\ extended' = ext
          /\ mState' = "APPLICATION" /\ bytesNeeded' = PayloadSize(ext)
          /\ IF IsControl(Opcode)
             THEN control' = NewMessage(Opcode) /\ current' = "control" /\ UNCHANGED data
             ELSE /\ data' = IF data = NoMessage THEN NewMessage(Opcode)
                             ELSE [data EXCEPT !.keyAt = 0]
                  /\ current' = "data" /\ UNCHANGED control
          /\ UNCHANGED <<header, failed>>
  BY <1>8 DEF HeaderExtended
<1>15. ASSUME Fail PROVE FramingInv'
  <2>1. delivered = Acc(k).messages
    BY <1>4 DEF Sound
  <2>2. mState # "READY"
    BY <1>1
  <2>3. QED
    BY <1>13, <1>15, <2>1, <2>2, FailKeeps
<1>16. ASSUME chunk' = SubSeq(chunk, n + 1, Len(chunk)), extended' = ext
       PROVE  At(Off(k) + 2 + Len(extended))' /\ chunk' \in Seq(Byte)
  <2>1. PICK off \in Nat : off = Off(k) + 2 + e
    BY <1>6
  <2>2. At(off) /\ unread' = unread /\ stream' = stream
    BY <1>4, <1>7, <1>13, <2>1
  <2>3. At(off + n)' /\ chunk' \in Seq(Byte)
    BY <1>2, <1>9, <1>16, <2>2, TakeMoves
  <2>4. off + n = Off(k) + 2 + Len(ext)
    BY <1>6, <1>9, <1>12, <2>1
  <2>5. QED
    BY <1>13, <1>16, <2>3, <2>4 DEF At, Off
<1>17. ASSUME n < bytesNeeded, chunk' = <<>>, extended' = ext, bytesNeeded' = bytesNeeded - n,
              UNCHANGED <<mState, header, data, control, current, failed>>
       PROVE  FramingInv'
  <2>1. chunk' = SubSeq(chunk, n + 1, Len(chunk))
    <3>1. n + 1 \in Int /\ Len(chunk) \in Int /\ Len(chunk) < n + 1
      BY <1>7, <1>9, <1>17
    <3>2. QED
      BY <1>17, <3>1, SubSeqEmpty
  <2>2. At(Off(k) + 2 + Len(extended))' /\ chunk' \in Seq(Byte)
    BY <1>16, <1>17, <2>1
  <2>3. /\ bytesNeeded' > 0 /\ Len(extended') + bytesNeeded' = HeaderSize(f) - 2
        /\ bytesNeeded' \in Nat /\ bytesNeeded' <= 65535
    BY <1>7, <1>9, <1>10, <1>11, <1>12, <1>17
  <2>4. AtExtended(k)'
    BY <1>1, <1>4, <1>5, <1>12, <1>13, <1>17, <2>2, <2>3 DEF AtExtended, Sound, Acc, This
  <2>5. TypeOK'
    <3>1. Len(extended') <= 12 /\ extended' \in Seq(Byte)
      BY <1>7, <1>9, <1>10, <1>11, <1>12, <1>17
    <3>2. QED
      BY <1>1, <1>2, <1>17, <2>2, <2>3, <3>1 DEF TypeOK
  <2>6. QED
    BY <1>1, <1>2, <1>13, <1>17, <2>4, <2>5 DEF FramingInv, Progress, Stage
<1>18. ASSUME ~(n < bytesNeeded), MinimallyCoded(ext),
              ~(~IsControl(Opcode) /\ MessageSize(PayloadSize(ext)) > MaxMessageSize),
              chunk' = SubSeq(chunk, n + 1, Len(chunk)), extended' = ext,
              mState' = "APPLICATION", bytesNeeded' = PayloadSize(ext),
              IF IsControl(Opcode)
              THEN control' = NewMessage(Opcode) /\ current' = "control" /\ UNCHANGED data
              ELSE /\ data' = IF data = NoMessage THEN NewMessage(Opcode)
                              ELSE [data EXCEPT !.keyAt = 0]
                   /\ current' = "data" /\ UNCHANGED control,
              UNCHANGED <<header, failed>>
       PROVE  FramingInv'
  <2>1. n = b /\ Len(ext) = HeaderSize(f) - 2
    BY <1>7, <1>9, <1>11, <1>12, <1>18
  <2>2. header = [b0 |-> Bytes(f)[1], b1 |-> Bytes(f)[2]]
    BY <1>4, <1>5 DEF Headed
  <2>3. /\ PayloadSize(ext) = Len(f.payload)
        /\ f.code = 16 => Len(f.payload) > 125
        /\ Opcode = f.op
    <3>1. /\ PayloadSize(ext) = Len(f.payload)
          /\ MinimallyCoded(ext) <=> (f.code = 16 => Len(f.payload) > 125)
          /\ Opcode = f.op
      <4>1. Extends(ext, f) /\ Len(ext) = HeaderSize(f) - 2 /\ f.masked
        BY <1>10, <1>12, <2>1
      <4>2. QED
        BY <2>2, <4>1, SizeRead
    <3>2. QED
      BY <1>18, <3>1
  <2>4. Legal(f, Acc(k).open)
    BY <1>4, <1>5, <2>3 DEF Headed, Legal
  <2>5. bytesNeeded' = Len(f.payload) /\ Taken(k)' = 0 /\ bytesNeeded' \in Nat /\ bytesNeeded' <= 65535
    <3>1. bytesNeeded' = Len(f.payload)
      BY <1>18, <2>3
    <3>2. Taken(k)' = Len(f.payload) - Len(f.payload)
      BY <1>5, <1>13, <3>1 DEF Taken, This
    <3>3. QED
      BY <1>10, <3>1, <3>2
  <2>6. At(Off(k) + HeaderSize(This(k)) + Taken(k))' /\ chunk' \in Seq(Byte)
    <3>1. At(Off(k) + 2 + Len(extended))' /\ chunk' \in Seq(Byte)
      BY <1>16, <1>18
    <3>2. PICK o \in Nat, s \in Nat : o = Off(k) /\ s = HeaderSize(f) /\ Len(ext) = s - 2
      BY <1>6, <1>10, <2>1
    <3>3. o + 2 + (s - 2) = o + s + 0
      OBVIOUS
    <3>4. o + 2 + Len(ext) = o + s + 0
      BY <3>2, <3>3
    <3>5. Off(k)' = o /\ HeaderSize(This(k))' = s /\ extended' = ext
      BY <1>5, <1>13, <1>18, <3>2 DEF Off, This, HeaderSize
    <3>6. (Off(k) + 2 + Len(extended))' = (Off(k) + HeaderSize(This(k)) + Taken(k))'
      BY <2>5, <3>4, <3>5
    <3>7. QED
      BY <3>1, <3>6 DEF At
  <2>7. TypeOK'
    <3>1. Len(extended') <= 12 /\ extended' \in Seq(Byte)
      BY <1>10, <1>12, <1>18, <2>1
    <3>2. current' \in {"none", "data", "control"}
      BY <1>18
    <3>3. QED
      BY <1>2, <1>18, <2>5, <2>6, <3>1, <3>2 DEF TypeOK
  <2>8. PICK acc \in Accounts : acc = Acc(k)
    BY <1>6
  <2>9. /\ acc.partial \in Seq(Byte) /\ acc.open \in BOOLEAN /\ (~acc.open => acc.partial = <<>>)
        /\ f.payload \in Seq(Byte) /\ f.op \in 0..15
    BY FrameType DEF Accounts, Account
  <2>10. SubSeq(f.payload, 1, 0) = <<>>
    BY SubSeqEmpty
  <2>11. ASSUME NEW base \in Accounts
         PROVE  Part(base, f, 0) =
                   [op |-> KindOf(base, f), payload |-> base.partial, keyAt |-> 0,
                    utf8 |-> Utf8(KindOf(base, f), base.partial)]
    <3>1. base.partial \in Seq(Byte)
      BY DEF Accounts, Account
    <3>2. base.partial \o SubSeq(f.payload, 1, 0) = base.partial
      BY <2>10, <3>1, ConcatEmptySeq
    <3>3. 0 % 4 = 0
      OBVIOUS
    <3>4. QED
      BY <3>2, <3>3 DEF Part
  <2>12. Utf8(f.op, <<>>) = "accept"
    <3>1. "accept" \in Verdict
      BY DEF Verdict
    <3>2. QED
      BY <3>1, DecodedNothing DEF Utf8
  <2>13. CASE IsControl(f.op)
    <3>1. control' = NewMessage(f.op) /\ current' = "control" /\ data' = data
      BY <1>18, <2>3, <2>13
    <3>2. NoFrames \in Accounts /\ KindOf(NoFrames, f) = f.op /\ NoFrames.partial = <<>>
      <4>1. NoFrames \in Accounts
        BY NoFramesType
      <4>2. f.op # CONTINUATION
        BY <2>9, <2>13 DEF IsControl, CONTINUATION
      <4>3. QED
        BY <4>1, <4>2 DEF NoFrames, KindOf
    <3>3. control' = Part(NoFrames, f, 0)
      BY <2>11, <2>12, <3>1, <3>2 DEF NewMessage
    <3>4. AtPayload(k)'
      BY <1>4, <1>5, <1>10, <1>12, <1>13, <1>18, <2>1, <2>4, <2>5, <2>6, <2>13, <3>1, <3>3
      DEF AtPayload, Sound, Acc, This
    <3>5. QED
      BY <1>1, <1>2, <1>13, <1>18, <2>7, <3>4 DEF FramingInv, Progress, Stage
  <2>14. CASE ~IsControl(f.op)
    <3>1. /\ data' = IF data = NoMessage THEN NewMessage(f.op) ELSE [data EXCEPT !.keyAt = 0]
          /\ current' = "data" /\ ~(MessageSize(Len(f.payload)) > MaxMessageSize)
      BY <1>18, <2>3, <2>14
    <3>2. (data # NoMessage <=> acc.open) /\ (f.op = CONTINUATION <=> acc.open)
      <4>1. data # NoMessage <=> acc.open
        BY <1>4, <2>8, HoldsOpen
      <4>2. QED
        BY <2>4, <2>8, <2>14, <4>1 DEF Legal
    <3>3. PICK a \in Nat, c \in Nat : a = Len(acc.partial) /\ c = Len(f.payload)
      BY <1>10, <2>9
    <3>c. Len(BytesWith(acc, f)) = a + c
      <4>1. PICK x \in Seq(Byte) : x = acc.partial
        BY <2>9
      <4>2. PICK y \in Seq(Byte) : y = f.payload
        BY <2>9
      <4>3. Len(x \o y) = Len(x) + Len(y)
        BY TwoParts
      <4>4. QED
        BY <3>3, <4>1, <4>2, <4>3 DEF BytesWith
    <3>4. ASSUME acc.open
          PROVE  data' = Part(acc, f, 0) /\ MessageSize(c) = a + c
      <4>1. PICK t \in 0..3 : data = OpenPart(acc, t)
        BY <1>4, <2>8, <3>4 DEF Holds
      <4>2. data' = [data EXCEPT !.keyAt = 0]
        BY <3>1, <3>2, <3>4
      <4>3. KindOf(acc, f) = acc.op
        BY <3>2, <3>4 DEF KindOf
      <4>4. data' = Part(acc, f, 0)
        BY <2>11, <4>1, <4>2, <4>3 DEF OpenPart
      <4>5. data.payload = acc.partial
        BY <4>1 DEF OpenPart
      <4>6. MessageSize(c) = a + c
        BY <3>2, <3>3, <3>4, <4>5 DEF MessageSize
      <4>7. QED
        BY <4>4, <4>6
    <3>5. ASSUME ~acc.open
          PROVE  data' = Part(acc, f, 0) /\ MessageSize(c) = a + c
      <4>1. data' = NewMessage(f.op) /\ acc.partial = <<>> /\ KindOf(acc, f) = f.op
        BY <2>9, <3>1, <3>2, <3>5 DEF KindOf
      <4>2. data' = Part(acc, f, 0)
        BY <2>11, <2>12, <4>1 DEF NewMessage
      <4>3. a = 0
        BY <3>3, <4>1, EmptySeq
      <4>4. MessageSize(c) = c
        BY <3>2, <3>5 DEF MessageSize
      <4>5. a + c = c
        BY <3>3, <4>3
      <4>6. QED
        BY <4>2, <4>4, <4>5
    <3>6. data' = Part(acc, f, 0) /\ Len(BytesWith(acc, f)) <= MaxMessageSize
      <4>1. data' = Part(acc, f, 0) /\ MessageSize(c) = a + c
        BY <2>9, <3>4, <3>5
      <4>2. a + c \in Nat /\ MaxMessageSize \in Nat
        <5>1. MaxMessageSize \in Nat
          BY Hybi13Assumption
        <5>2. a + c \in Nat
          OBVIOUS
        <5>3. QED
          BY <5>1, <5>2
      <4>3. ~(a + c > MaxMessageSize)
        BY <3>1, <3>3, <4>1
      <4>4. a + c <= MaxMessageSize
        BY <4>2, <4>3
      <4>5. QED
        BY <3>c, <4>1, <4>4
    <3>7. AtPayload(k)'
      <4>1. UNCHANGED <<stream, delivered, header>> /\ extended' = ext /\ mState' = "APPLICATION"
        BY <1>13, <1>18
      <4>2. Acc(k)' = Acc(k) /\ This(k)' = f /\ Sound(k)'
        BY <1>4, <1>5, <4>1 DEF Acc, This, Sound
      <4>3. /\ Headed(header, f, Acc(k).open) /\ Legal(f, Acc(k).open) /\ Extends(ext, f)
            /\ Len(ext) = HeaderSize(f) - 2
        BY <1>4, <1>5, <1>12, <2>1, <2>4
      <4>4. bytesNeeded' <= Len(f.payload)
        BY <1>10, <2>5
      <4>5. /\ current' = "data" /\ data' = Part(Acc(k), f, Taken(k)')
            /\ Len(BytesWith(Acc(k), f)) <= MaxMessageSize
        BY <2>5, <2>8, <3>1, <3>6
      <4>6. k < Len(stream)'
        BY <1>4, <4>1
      <4>7. At(Off(k) + HeaderSize(This(k)) + Taken(k))'
        BY <2>6
      <4>8. QED
        BY <2>14, <4>1, <4>2, <4>3, <4>4, <4>5, <4>6, <4>7 DEF AtPayload
    <3>8. QED
      BY <1>1, <1>2, <1>13, <1>18, <2>7, <3>7 DEF FramingInv, Progress, Stage
  <2>15. QED
    BY <2>13, <2>14
<1>19. QED
  BY <1>14, <1>15, <1>17, <1>18

LEMMA SubSeqWhole ==
  ASSUME NEW S, NEW s \in Seq(S), NEW n, n = Len(s)
  PROVE  SubSeq(s, 1, n) = s
BY SubSeqFull

\* The next n bytes of the payload of f turn the message as f has it with j bytes
\* into the one with j + n.
LEMMA PayloadTaken ==
  ASSUME stream \in Streams, NEW k \in 0..Len(stream), k < Len(stream),
         chunk \in Seq(Byte), extended \in Seq(Byte),
         NEW f \in Fitting, f = This(k), f.masked, Extends(extended, f),
         Len(extended) = HeaderSize(f) - 2,
         NEW j \in Nat, NEW n \in 0..Len(chunk), j + n <= Len(f.payload),
         At(Off(k) + HeaderSize(f) + j), NEW acc \in Accounts
  PROVE  WithBytes(Part(acc, f, j), SubSeq(chunk, 1, n)) = Part(acc, f, j + n)
<1>1. PICK s : s = SubSeq(chunk, 1, n)
  OBVIOUS
<1>2. s \in Seq(Byte) /\ Len(s) = n /\ \A i \in 1..n : s[i] = chunk[i]
  BY <1>1, PrefixOf
<1>3. PICK h \in Nat : h = HeaderSize(f)
  BY DEF HeaderSize
<1>4. PICK l \in Nat : l = Len(f.payload)
  BY FrameType
<1>5. Len(Bytes(f)) = h + l /\ \A i \in 1..l : Bytes(f)[h + i] = UnderKey(f)[i]
  BY <1>3, <1>4, BytesOf
<1>6. At(Off(k) + (h + j))
  <2>1. PICK o \in Nat : o = Off(k)
    BY Here
  <2>2. o + h + j = o + (h + j)
    OBVIOUS
  <2>3. QED
    BY <1>3, <2>1, <2>2
<1>7. ASSUME NEW i \in 1..n PROVE s[i] = UnderKey(f)[j + i]
  <2>1. j + i \in 1..l /\ h + j + i = h + (j + i) /\ h + j + i <= h + l /\ h + j \in Nat
    BY <1>4
  <2>2. i \in 1..Len(chunk)
    OBVIOUS
  <2>3. chunk[i] = Bytes(f)[(h + j) + i]
    BY <1>5, <1>6, <2>1, <2>2, NextBytes
  <2>4. QED
    BY <1>2, <1>5, <2>1, <2>3
<1>8. \A i \in 1..4 : Key[i] = f.key[i]
  BY KeyRead
<1>9. n \in Nat
  OBVIOUS
<1>10. WithBytes(Part(acc, f, j), s) = Part(acc, f, j + n)
  <2>1. NextOf(f, s, j, n)
    BY <1>2, <1>7, <1>8 DEF NextOf
  <2>2. s \in Seq(Byte)
    BY <1>2
  <2>3. QED
    BY <1>9, <2>1, <2>2, PartGrows
<1>11. QED
  BY <1>1, <1>10

\* The message is the one the frame makes, once all of its payload is in.
LEMMA PartWhole ==
  ASSUME NEW acc \in Accounts, NEW f \in Fitting, NEW l, l = Len(f.payload)
  PROVE  /\ Part(acc, f, l).op = KindOf(acc, f)
         /\ Part(acc, f, l).payload = BytesWith(acc, f)
         /\ Part(acc, f, l).utf8 = Utf8(KindOf(acc, f), BytesWith(acc, f))
         /\ Part(acc, f, l) = [op |-> KindOf(acc, f), payload |-> BytesWith(acc, f),
                               keyAt |-> l % 4, utf8 |-> Utf8(KindOf(acc, f), BytesWith(acc, f))]
<1>1. f.payload \in Seq(Byte)
  BY FrameType
<1>2. SubSeq(f.payload, 1, l) = f.payload
  BY <1>1, SubSeqWhole
<1>3. acc.partial \o SubSeq(f.payload, 1, l) = BytesWith(acc, f)
  BY <1>2 DEF BytesWith
<1>4. QED
  BY <1>3 DEF Part

LEMMA ApplicationKeeps == FramingInv /\ Application => FramingInv'
<1> SUFFICES ASSUME FramingInv, Application PROVE FramingInv'
  OBVIOUS
<1>1. ~failed /\ mState = "APPLICATION"
  BY DEF Application, Consuming
<1>2. stream \in Streams /\ unread \in Seq(Byte) /\ chunk \in Seq(Byte) /\ TypeOK
  BY <1>1, StageFacts
<1>3. PICK k \in 0..Len(stream) : AtPayload(k)
  <2>1. PICK k \in 0..Len(stream) : Stage(k)
    BY <1>1, StageFacts
  <2>2. AtPayload(k)
    BY <1>1, <2>1 DEF Stage, AtHeader, AtExtended, AtReady
  <2>3. QED
    BY <2>2
<1>4. k < Len(stream) /\ Sound(k)
  BY <1>3 DEF AtPayload
<1>5. PICK f \in Fitting : f = This(k)
  BY <1>2, <1>4, Here
<1>6. PICK acc \in Accounts : acc = Acc(k)
  BY <1>2, Here
<1>7. /\ Headed(header, f, acc.open) /\ Legal(f, acc.open) /\ f.masked
      /\ Extends(extended, f) /\ Len(extended) = HeaderSize(f) - 2 /\ extended \in Seq(Byte)
      /\ header = [b0 |-> Bytes(f)[1], b1 |-> Bytes(f)[2]]
  BY <1>2, <1>3, <1>5, <1>6 DEF AtPayload, Headed, TypeOK
<1>8. IF IsControl(f.op)
      THEN current = "control" /\ control = Part(NoFrames, f, Taken(k)) /\ Holds(data, acc)
      ELSE /\ current = "data" /\ data = Part(acc, f, Taken(k))
           /\ Len(BytesWith(acc, f)) <= MaxMessageSize
  BY <1>3, <1>5, <1>6 DEF AtPayload
<1>9. PICK l \in Nat : l = Len(f.payload)
  BY FrameType
<1>10. PICK b \in Nat : b = bytesNeeded /\ b <= 65535
  BY <1>2 DEF TypeOK
<1>11. b <= l
  BY <1>3, <1>5, <1>9, <1>10 DEF AtPayload
<1>12. PICK j \in Nat : j = l - b
  BY <1>11
<1>13. Taken(k) = j /\ j + b = l
  BY <1>5, <1>9, <1>10, <1>12 DEF Taken
<1>14. PICK c \in Nat : c = Len(chunk)
  BY <1>2
<1>15. PICK n : n = IF bytesNeeded < Len(chunk) THEN bytesNeeded ELSE Len(chunk)
  OBVIOUS
<1>16. n \in Nat /\ n \in 0..c /\ n \in 0..Len(chunk) /\ n <= b /\ j + n <= l
  BY <1>10, <1>13, <1>14, <1>15
<1>17. PICK base \in Accounts : base = IF IsControl(f.op) THEN NoFrames ELSE acc
  BY NoFramesType
<1>18. PICK m : m = WithBytes(IF current = "control" THEN control ELSE data, SubSeq(chunk, 1, n))
  OBVIOUS
<1>19. At(Off(k) + HeaderSize(f) + j)
  BY <1>3, <1>5, <1>13 DEF AtPayload
<1>20. m = Part(base, f, j + n)
  <2>1. (IF current = "control" THEN control ELSE data) = Part(base, f, j)
    BY <1>8, <1>13, <1>17
  <2>2. WithBytes(Part(base, f, j), SubSeq(chunk, 1, n)) = Part(base, f, j + n)
    <3>1. j + n <= Len(f.payload)
      BY <1>9, <1>16
    <3>2. QED
      BY <1>2, <1>4, <1>5, <1>7, <1>16, <1>19, <3>1, PayloadTaken
  <2>3. QED
    BY <1>18, <2>1, <2>2
<1>21. Opcode = f.op /\ (Fin <=> f.fin)
  BY <1>7, SizeRead
<1>22. UNCHANGED <<stream, unread, delivered>>
  BY DEF Application
<1>23. \/ Fail
       \/ /\ ~(m.utf8 = "reject") /\ ~(n = bytesNeeded /\ Fin /\ ~EndsACharacter(m))
          /\ chunk' = SubSeq(chunk, n + 1, Len(chunk))
          /\ control' = IF current = "control" THEN m ELSE control
          /\ data' = IF current = "data" THEN m ELSE data
          /\ \/ /\ n < bytesNeeded /\ bytesNeeded' = bytesNeeded - n
                /\ UNCHANGED <<mState, header, extended>>
             \/ /\ n = bytesNeeded /\ Fin /\ mState' = "READY" /\ bytesNeeded' = 0
                /\ UNCHANGED <<header, extended>>
             \/ n = bytesNeeded /\ ~Fin /\ ResetHeaders
          /\ UNCHANGED <<current, failed>>
  <2>1. n < bytesNeeded \/ n = bytesNeeded
    BY <1>10, <1>16
  <2>2. QED
    BY <1>15, <1>18, <2>1 DEF Application
<1>24. ASSUME Fail PROVE FramingInv'
  <2>1. delivered = Acc(k).messages
    BY <1>4 DEF Sound
  <2>2. mState # "READY"
    BY <1>1
  <2>3. QED
    BY <1>22, <1>24, <2>1, <2>2, FailKeeps
<1>25. ASSUME chunk' = SubSeq(chunk, n + 1, Len(chunk))
       PROVE  At(Off(k) + HeaderSize(f) + (j + n))' /\ chunk' \in Seq(Byte)
  <2>1. PICK off \in Nat : off = Off(k) + HeaderSize(f) + j
    <3>1. Off(k) \in Nat
      BY <1>2, Here
    <3>2. HeaderSize(f) \in Nat
      BY DEF HeaderSize
    <3>3. QED
      BY <3>1, <3>2
  <2>2. At(off) /\ unread' = unread /\ stream' = stream
    BY <1>19, <1>22, <2>1
  <2>3. At(off + n)' /\ chunk' \in Seq(Byte)
    BY <1>2, <1>16, <1>25, <2>2, TakeMoves
  <2>4. off + n = Off(k) + HeaderSize(f) + (j + n)
    <3>1. PICK o \in Nat, h \in Nat : o = Off(k) /\ h = HeaderSize(f)
      BY <1>2, Here DEF HeaderSize
    <3>2. o + h + j + n = o + h + (j + n)
      BY <1>16
    <3>3. QED
      BY <2>1, <3>1, <3>2
  <2>5. QED
    BY <1>22, <2>3, <2>4 DEF At, Off
\* A part of the payload.
<1>26. ASSUME n < bytesNeeded, bytesNeeded' = bytesNeeded - n,
              chunk' = SubSeq(chunk, n + 1, Len(chunk)),
              control' = IF current = "control" THEN m ELSE control,
              data' = IF current = "data" THEN m ELSE data,
              UNCHANGED <<mState, header, extended, current, failed>>
       PROVE  FramingInv'
  <2>1. bytesNeeded' = b - n /\ b - n \in Nat /\ b - n <= l /\ b - n <= 65535 /\ l - (b - n) = j + n
    BY <1>10, <1>11, <1>13, <1>16, <1>26
  <2>2. Taken(k)' = j + n
    BY <1>5, <1>9, <1>22, <2>1 DEF Taken, This
  <2>3. At(Off(k) + HeaderSize(This(k)) + Taken(k))' /\ chunk' \in Seq(Byte)
    <3>1. At(Off(k) + HeaderSize(f) + (j + n))' /\ chunk' \in Seq(Byte)
      BY <1>25, <1>26
    <3>2. QED
      BY <1>5, <1>22, <2>2, <3>1 DEF At, Off, This
  <2>4. IF IsControl(f.op)
        THEN control' = m /\ data' = data /\ base = NoFrames
        ELSE data' = m /\ base = acc
    BY <1>8, <1>17, <1>26
  <2>5. AtPayload(k)'
    BY <1>1, <1>4, <1>5, <1>6, <1>7, <1>8, <1>9, <1>20, <1>22, <1>26, <2>1, <2>2, <2>3, <2>4
    DEF AtPayload, Sound, Acc, This
  <2>6. TypeOK'
    BY <1>1, <1>2, <1>26, <2>1, <2>3 DEF TypeOK
  <2>7. QED
    BY <1>1, <1>2, <1>22, <1>26, <2>5, <2>6 DEF FramingInv, Progress, Stage
<1>27. ASSUME n = bytesNeeded, chunk' = SubSeq(chunk, n + 1, Len(chunk))
       PROVE  At(Off(k + 1))' /\ m = Part(base, f, l) /\ k + 1 \in 0..Len(stream)
  <2>1. j + n = l
    BY <1>10, <1>13, <1>27
  <2>2. Off(k + 1) = Off(k) + HeaderSize(f) + (j + n) /\ k + 1 \in 0..Len(stream)
    <3>1. /\ Off(k + 1) = Off(k) + Len(Bytes(f)) /\ Off(k) \in Nat
          /\ k + 1 \in 0..Len(stream)
      BY <1>2, <1>4, <1>5, Here
    <3>2. PICK o \in Nat, h \in Nat : o = Off(k) /\ h = HeaderSize(f)
      BY <3>1 DEF HeaderSize
    <3>3. Len(Bytes(f)) = h + l
      BY <1>9, <3>2, BytesOf
    <3>4. o + (h + l) = o + h + l
      OBVIOUS
    <3>5. QED
      BY <2>1, <3>1, <3>2, <3>3, <3>4
  <2>3. At(Off(k) + HeaderSize(f) + (j + n))'
    BY <1>25, <1>27
  <2>4. At(Off(k + 1))'
    BY <1>22, <2>2, <2>3 DEF At, Off
  <2>5. QED
    BY <1>20, <2>1, <2>2, <2>4
<1>28. Acc(k + 1) = AddFrame(acc, f) /\ ~acc.bad /\ acc.messages = delivered
  BY <1>2, <1>4, <1>5, <1>6, Here DEF Sound
<1>29. ASSUME m = Part(base, f, l), m.utf8 # "reject", f.fin => EndsACharacter(m),
              ~IsControl(f.op)
       PROVE  ~Refused(acc, f)
  <2>1. base = acc /\ Len(BytesWith(acc, f)) <= MaxMessageSize
    BY <1>8, <1>17, <1>29
  <2>2. m.utf8 = Utf8(KindOf(acc, f), BytesWith(acc, f))
    BY <1>9, <1>29, <2>1, PartWhole
  <2>3. ~(Len(BytesWith(acc, f)) > MaxMessageSize)
    <3>1. acc.partial \in Seq(Byte) /\ f.payload \in Seq(Byte)
      BY FrameType DEF Accounts, Account
    <3>2. BytesWith(acc, f) \in Seq(Byte)
      BY <3>1 DEF BytesWith
    <3>3. PICK x \in Nat, y \in Nat : x = Len(BytesWith(acc, f)) /\ y = MaxMessageSize
      BY <3>2, Hybi13Assumption
    <3>4. QED
      BY <2>1, <3>3
  <2>4. ~(KindOf(acc, f) = TEXT /\ Decoded("accept", BytesWith(acc, f)) = "reject")
    BY <1>29, <2>2 DEF Utf8
  <2>5. ~(f.fin /\ f.op = TEXT /\ Decoded("accept", BytesWith(acc, f)) # "accept")
    <3> SUFFICES ASSUME f.fin, f.op = TEXT PROVE Decoded("accept", BytesWith(acc, f)) = "accept"
      OBVIOUS
    <3>1. KindOf(acc, f) = TEXT
      BY DEF KindOf, TEXT, CONTINUATION
    <3>2. m.utf8 = "accept"
      BY <1>21, <1>29 DEF EndsACharacter
    <3>3. QED
      BY <2>2, <3>1, <3>2 DEF Utf8
  <2>6. QED
    BY <2>3, <2>4, <2>5 DEF Refused
\* The last of the payload, of a frame that ends its message.
<1>30. ASSUME n = bytesNeeded, Fin, mState' = "READY", bytesNeeded' = 0, m.utf8 # "reject",
              EndsACharacter(m),
              chunk' = SubSeq(chunk, n + 1, Len(chunk)),
              control' = IF current = "control" THEN m ELSE control,
              data' = IF current = "data" THEN m ELSE data,
              UNCHANGED <<header, extended, current, failed>>
       PROVE  FramingInv'
  <2>1. At(Off(k + 1))' /\ m = Part(base, f, l) /\ k + 1 \in 0..Len(stream) /\ chunk' \in Seq(Byte)
    BY <1>25, <1>27, <1>30
  <2>2. f.fin /\ stream' = stream /\ delivered' = delivered
    BY <1>21, <1>22, <1>30
  <2>3. m.op = KindOf(base, f) /\ m.payload = BytesWith(base, f)
    BY <1>9, <2>1, PartWhole
  <2>4. AtReady(k)'
    <3>1. CASE IsControl(f.op)
      <4>1. Acc(k + 1) = [acc EXCEPT !.messages =
                             Append(acc.messages, [op |-> f.op, payload |-> f.payload])]
        BY <1>7, <1>28, <3>1, AddFrameCases
      <4>2. acc \in Account
        BY DEF Accounts
      <4>3. /\ Acc(k + 1).messages = Append(delivered, [op |-> f.op, payload |-> f.payload])
            /\ Acc(k + 1).open = acc.open /\ Acc(k + 1).op = acc.op
            /\ Acc(k + 1).partial = acc.partial /\ ~Acc(k + 1).bad
        BY <1>28, <4>1, <4>2 DEF Account
      <4>4. current' = "control" /\ control' = m /\ data' = data /\ Holds(data, acc)
        BY <1>8, <1>30, <3>1
      <4>5. m.op = f.op /\ m.payload = f.payload
        <5>1. base = NoFrames /\ f.payload \in Seq(Byte) /\ f.op \in 0..15
          BY <1>17, <3>1, FrameType
        <5>2. BytesWith(base, f) = f.payload
          BY <5>1, ConcatEmptySeq DEF BytesWith, NoFrames
        <5>3. KindOf(base, f) = f.op
          BY <3>1, <5>1 DEF KindOf, IsControl, CONTINUATION
        <5>4. QED
          BY <2>3, <5>2, <5>3
      <4>6. Holds(data, Acc(k + 1))
        BY <4>3, <4>4 DEF Holds, OpenPart
      <4>7. Acc(k + 1)' = Acc(k + 1) /\ Current' = m
        BY <2>2, <4>4 DEF Acc, Current
      <4>8. QED
        BY <1>4, <1>30, <2>1, <2>2, <4>3, <4>4, <4>5, <4>6, <4>7 DEF AtReady, Sound, Acc
    <3>2. CASE ~IsControl(f.op)
      <4>1. ~Refused(acc, f)
        BY <1>29, <1>30, <2>1, <3>2
      <4>2. Acc(k + 1) = [acc EXCEPT !.open = FALSE, !.partial = <<>>, !.messages =
                             Append(acc.messages,
                                    [op |-> KindOf(acc, f), payload |-> BytesWith(acc, f)])]
        BY <1>7, <1>28, <2>2, <3>2, <4>1, AddFrameCases
      <4>3. acc \in Account
        BY DEF Accounts
      <4>4. /\ Acc(k + 1).messages =
                  Append(delivered, [op |-> KindOf(acc, f), payload |-> BytesWith(acc, f)])
            /\ ~Acc(k + 1).open /\ ~Acc(k + 1).bad
        BY <1>28, <4>2, <4>3 DEF Account
      <4>5. current' = "data" /\ data' = m /\ base = acc
        BY <1>8, <1>17, <1>30, <3>2
      <4>6. Acc(k + 1)' = Acc(k + 1) /\ Current' = m
        BY <2>2, <4>5 DEF Acc, Current
      <4>7. QED
        BY <1>4, <1>30, <2>1, <2>2, <2>3, <4>4, <4>5, <4>6 DEF AtReady, Sound, Acc
    <3>3. QED
      BY <3>1, <3>2
  <2>5. TypeOK'
    <3>1. current' \in {"none", "data", "control"} /\ current' # "none"
      BY <1>8, <1>30
    <3>2. bytesNeeded' \in Nat /\ bytesNeeded' <= 65535
      BY <1>30
    <3>3. QED
      BY <1>2, <1>30, <2>1, <3>1, <3>2 DEF TypeOK
  <2>6. QED
    BY <1>1, <1>2, <1>22, <1>30, <2>4, <2>5 DEF FramingInv, Progress, Stage
\* The last of the payload, of a frame that another one goes on.
<1>31. ASSUME n = bytesNeeded, ~Fin, ResetHeaders, m.utf8 # "reject",
              chunk' = SubSeq(chunk, n + 1, Len(chunk)),
              control' = IF current = "control" THEN m ELSE control,
              data' = IF current = "data" THEN m ELSE data,
              UNCHANGED <<current, failed>>
       PROVE  FramingInv'
  <2>1. At(Off(k + 1))' /\ m = Part(base, f, l) /\ k + 1 \in 0..Len(stream) /\ chunk' \in Seq(Byte)
    BY <1>25, <1>27, <1>31
  <2>2. ~f.fin /\ stream' = stream /\ delivered' = delivered
    BY <1>21, <1>22, <1>31
  <2>3. ~IsControl(f.op)
    BY <1>7, <2>2 DEF Legal
  <2>4. base = acc /\ data' = m
    BY <1>8, <1>17, <1>31, <2>3
  <2>5. ~Refused(acc, f)
    BY <1>29, <1>31, <2>1, <2>2, <2>3
  <2>6. Acc(k + 1) = [acc EXCEPT !.open = TRUE, !.partial = BytesWith(acc, f), !.op = KindOf(acc, f)]
    BY <1>7, <1>28, <2>2, <2>3, <2>5, AddFrameCases
  <2>7. acc \in Account
    BY DEF Accounts
  <2>8. /\ Acc(k + 1).messages = delivered /\ Acc(k + 1).open /\ ~Acc(k + 1).bad
        /\ Acc(k + 1).op = KindOf(acc, f) /\ Acc(k + 1).partial = BytesWith(acc, f)
    BY <1>28, <2>6, <2>7 DEF Account
  <2>9. Holds(m, Acc(k + 1))
    <3>1. PICK t \in 0..3 : t = l % 4
      <4>1. l % 4 \in 0..3
        OBVIOUS
      <4>2. QED
        BY <4>1
    <3>2. m = OpenPart(Acc(k + 1), t)
      <4>1. m = Part(acc, f, l)
        BY <2>1, <2>4
      <4>2. m = [op |-> KindOf(acc, f), payload |-> BytesWith(acc, f), keyAt |-> l % 4,
                 utf8 |-> Utf8(KindOf(acc, f), BytesWith(acc, f))]
        BY <1>9, <4>1, PartWhole
      <4>3. QED
        BY <2>8, <3>1, <4>2 DEF OpenPart
    <3>3. QED
      BY <2>8, <3>2 DEF Holds
  <2>10. Acc(k + 1)' = Acc(k + 1) /\ Off(k + 1)' = Off(k + 1)
    BY <2>2 DEF Acc, Off
  <2>11. /\ mState' = "HEADER_BASIC" /\ bytesNeeded' = 2 /\ extended' = <<>>
         /\ header' = [b0 |-> 0, b1 |-> 0]
    BY <1>31 DEF ResetHeaders
  <2>12. AtHeader(k + 1)'
    BY <2>1, <2>2, <2>4, <2>8, <2>9, <2>10, <2>11 DEF AtHeader, Sound
  <2>13. TypeOK'
    <3>1. header' \in [b0: Byte, b1: Byte]
      BY <2>11 DEF Byte
    <3>2. extended' \in Seq(Byte) /\ Len(extended') = 0
      BY <2>11, EmptySeq
    <3>3. /\ mState' \in {"HEADER_BASIC", "HEADER_EXTENDED", "APPLICATION", "READY"}
          /\ bytesNeeded' \in 1..2 /\ bytesNeeded' \in Nat /\ bytesNeeded' <= 65535
          /\ mState' # "READY" /\ Len(extended') <= 12
      BY <2>11, <3>2
    <3>4. current' \in {"none", "data", "control"} /\ failed' \in BOOLEAN
      BY <1>2, <1>31 DEF TypeOK
    <3>5. QED
      BY <2>1, <3>1, <3>2, <3>3, <3>4 DEF TypeOK
  <2>14. QED
    BY <1>1, <1>2, <1>22, <1>31, <2>1, <2>2, <2>12, <2>13 DEF FramingInv, Progress, Stage
<1>32. QED
  BY <1>23, <1>24, <1>26, <1>30, <1>31

\* The message is given to the connection, and the next frame is waited for.
LEMMA GetMessageKeeps == FramingInv /\ ~failed /\ GetMessage => FramingInv'
<1> SUFFICES ASSUME FramingInv, ~failed, GetMessage PROVE FramingInv'
  OBVIOUS
<1>1. mState = "READY"
  BY DEF GetMessage
<1>2. stream \in Streams /\ unread \in Seq(Byte) /\ chunk \in Seq(Byte) /\ TypeOK
  BY StageFacts
<1>3. PICK k \in 0..Len(stream) : AtReady(k)
  <2>1. PICK k \in 0..Len(stream) : Stage(k)
    BY StageFacts
  <2>2. AtReady(k)
    BY <1>1, <2>1 DEF Stage, AtHeader, AtExtended, AtPayload
  <2>3. QED
    BY <2>2
<1>4. k + 1 \in 0..Len(stream)
  BY <1>2, <1>3, Here DEF AtReady
<1>5. UNCHANGED <<stream, unread, chunk, current, failed>>
  BY DEF GetMessage
<1>6. /\ mState' = "HEADER_BASIC" /\ bytesNeeded' = 2 /\ extended' = <<>>
      /\ header' = [b0 |-> 0, b1 |-> 0]
  BY DEF GetMessage, ResetHeaders
<1>7. delivered' = Acc(k + 1).messages
  BY <1>3 DEF GetMessage, AtReady, Current
<1>8. Holds(data', Acc(k + 1))
  <2>1. data' = IF current = "data" THEN NoMessage ELSE data
    BY DEF GetMessage, DataAfter
  <2>2. current \in {"data", "control"}
    BY <1>1, <1>2 DEF TypeOK
  <2>3. CASE current = "data"
    BY <1>3, <2>1, <2>3 DEF AtReady, Holds
  <2>4. CASE current = "control"
    BY <1>3, <2>1, <2>4 DEF AtReady
  <2>5. QED
    BY <2>2, <2>3, <2>4
<1>9. /\ Acc(k + 1)' = Acc(k + 1) /\ Off(k + 1)' = Off(k + 1)
      /\ At(Off(k + 1))' /\ ~Acc(k + 1).bad
  BY <1>3, <1>5 DEF AtReady, At, Acc, Off
<1>10. AtHeader(k + 1)'
  BY <1>6, <1>7, <1>8, <1>9 DEF AtHeader, Sound
<1>11. TypeOK'
  <2>1. header' \in [b0: Byte, b1: Byte]
    BY <1>6 DEF Byte
  <2>2. extended' \in Seq(Byte) /\ Len(extended') = 0
    BY <1>6, EmptySeq
  <2>3. /\ mState' \in {"HEADER_BASIC", "HEADER_EXTENDED", "APPLICATION", "READY"}
        /\ bytesNeeded' \in 1..2 /\ bytesNeeded' \in Nat /\ bytesNeeded' <= 65535
        /\ mState' # "READY" /\ Len(extended') <= 12
    BY <1>6, <2>2
  <2>4. /\ chunk' \in Seq(Byte)
        /\ current' \in {"none", "data", "control"} /\ failed' \in BOOLEAN
    BY <1>2, <1>5 DEF TypeOK
  <2>5. QED
    BY <2>1, <2>2, <2>3, <2>4 DEF TypeOK
<1>12. QED
  BY <1>2, <1>4, <1>5, <1>10, <1>11 DEF FramingInv, Progress, Stage
-----------------------------------------------------------------------------
\* The inductive invariant, and what follows from it.

LEMMA Invariant == Spec => []FramingInv
<1>1. FramingInv /\ [Next]_vars => FramingInv'
  <2> SUFFICES ASSUME FramingInv, [Next]_vars PROVE FramingInv'
    OBVIOUS
  <2>1. CASE Read
    BY <2>1, ReadKeeps
  <2>2. CASE HeaderBasic
    BY <2>2, HeaderBasicKeeps
  <2>3. CASE HeaderExtended
    BY <2>3, HeaderExtendedKeeps
  <2>4. CASE Application
    BY <2>4, ApplicationKeeps
  <2>5. CASE GetMessage
    <3>1. mState = "READY"
      BY <2>5 DEF GetMessage
    <3>2. ~failed
      BY <3>1 DEF FramingInv, Progress
    <3>3. QED
      BY <2>5, <3>2, GetMessageKeeps
  <2>6. CASE UNCHANGED vars
    <3>1. Progress'
      BY <2>6 DEF vars, FramingInv, Progress, Stage, AtHeader, AtExtended, AtPayload, AtReady,
                  Sound, Acc, Off, This, Taken, At, Current
    <3>2. TypeOK'
      BY <2>6 DEF vars, FramingInv, TypeOK
    <3>3. QED
      BY <2>6, <3>1, <3>2 DEF vars, FramingInv
  <2>7. QED
    BY <2>1, <2>2, <2>3, <2>4, <2>5, <2>6 DEF Next, Processing
<1>2. QED
  BY <1>1, StartsAtNothing, PTL DEF Spec

\* What was delivered are the messages of some of the frames, and of all before them.
LEMMA DeliveredAre ==
  ASSUME FramingInv
  PROVE  stream \in Streams /\ \E k \in 0..Len(stream) : delivered = Acc(k).messages
BY DEF FramingInv, Progress, Stage, AtHeader, AtExtended, AtPayload, AtReady, Sound

LEMMA PrefixOfAll == FramingInv => MessagesOfTheFrames
<1> SUFFICES ASSUME FramingInv PROVE MessagesOfTheFrames
  OBVIOUS
<1>1. PICK k \in 0..Len(stream) : delivered = Acc(k).messages
  BY DeliveredAre
<1>2. stream \in Seq(Fitting) /\ Len(stream) \in Nat
  BY DeliveredAre, StreamsFit
<1>3. PICK s, t : s = Meaning(stream)[k].messages /\ t = Meaning(stream)[Len(stream)].messages
  OBVIOUS
<1>4. Len(stream) \in k..Len(stream) /\ Len(stream) \in 0..Len(stream)
  BY <1>2
<1>5. Begins(s, t)
  BY <1>2, <1>3, <1>4, MessagesGrow
<1>6. s \in Seq(Message) /\ t \in Seq(Message)
  <2>1. Meaning(stream)[k] \in Accounts /\ Meaning(stream)[Len(stream)] \in Accounts
    BY <1>2, <1>4, MeaningByFrame
  <2>2. QED
    BY <1>3, <2>1 DEF Accounts, Account
<1>7. IsPrefix(s, t)
  BY <1>5, <1>6, BeginsIsPrefix
<1>8. QED
  BY <1>1, <1>3, <1>7 DEF MessagesOfTheFrames, Acc

LEMMA HalvesFromFragments == FramingInv => HalfCharactersAreFragments
<1> SUFFICES ASSUME FramingInv, NEW n \in DOMAIN delivered,
                    delivered[n].op = TEXT, Decoded("accept", delivered[n].payload) # "accept"
             PROVE  \E i, j \in DOMAIN stream :
                       /\ i < j /\ Completes(n, j)
                       /\ stream[i].op = TEXT /\ ~stream[i].fin
                       /\ stream[j].op = CONTINUATION /\ stream[j].fin
                       /\ \A x \in i + 1..j - 1 :
                             \/ IsControl(stream[x].op)
                             \/ stream[x].op = CONTINUATION /\ ~stream[x].fin
  BY DEF HalfCharactersAreFragments
<1>1. PICK k \in 0..Len(stream) : delivered = Acc(k).messages
  BY DeliveredAre
<1>2. stream \in Seq(Fitting) /\ Len(stream) \in Nat
  BY DeliveredAre, StreamsFit
<1>3. FragmentsOnly(stream, k)
  BY <1>2, HalvedMessages
<1>4. delivered \in Seq(Message) /\ delivered = Meaning(stream)[k].messages
  BY <1>1, <1>2, MeaningByFrame DEF Acc, Accounts, Account
<1>5. n \in 1..Len(delivered) /\ Halved(delivered[n])
  BY <1>4 DEF Halved
<1>6. Pieces(stream, n, k)
  BY <1>3, <1>4, <1>5 DEF FragmentsOnly
<1>7. PICK i, j \in 1..k :
          /\ i < j /\ Unfinished(stream, i, j - 1) /\ Ended(stream, j)
          /\ Brings(stream, j, n)
  BY <1>6 DEF Pieces
<1>8. i \in DOMAIN stream /\ j \in DOMAIN stream
  <2>1. DOMAIN stream = 1..Len(stream)
    BY <1>2
  <2>2. QED
    BY <1>2, <2>1
<1>9. Completes(n, j)
  BY <1>7 DEF Brings, Completes
<1>10. QED
  BY <1>7, <1>8, <1>9 DEF Unfinished, Begun, Ended, Within

\* How many frames are in, when off bytes are.
LEMMA FramesIn ==
  ASSUME stream \in Streams, NEW k \in 0..Len(stream), NEW off \in Nat,
         off = Len(Wire(stream)[Len(stream)]) - Len(unread) - Len(chunk),
         Off(k) <= off, k = Len(stream) \/ Off(k + 1) > off
  PROVE  Received = k
<1>1. PICK N \in Nat : N = Len(stream)
  BY StreamsFit
<1>2. \A i \in 0..N : Off(i) \in Nat
  BY <1>1, Here
<1>3. \A i \in 0..N : \A j \in i..N : Off(i) <= Off(j)
  <2> SUFFICES ASSUME NEW i \in 0..N, NEW j \in i..N PROVE Off(i) <= Off(j)
    OBVIOUS
  <2>1. stream \in Seq(Fitting)
    BY StreamsFit
  <2>2. Len(Wire(stream)[i]) \in Nat /\ Len(Wire(stream)[j]) \in Nat
        /\ Len(Wire(stream)[i]) + (j - i) <= Len(Wire(stream)[j])
    BY <1>1, <2>1, WireKeeps
  <2>3. j - i \in Nat
    BY <1>1
  <2>4. PICK x \in Nat, y \in Nat : x = Off(i) /\ y = Off(j) /\ x + (j - i) <= y
    BY <2>2 DEF Off
  <2>5. x <= y
    BY <2>3, <2>4
  <2>6. QED
    BY <2>4, <2>5
<1> DEFINE In(i) == Off(i) <= off /\ (i = N \/ Off(i + 1) > off)
<1>4. In(k)
  BY <1>1
<1>5. ASSUME NEW i \in 0..N, In(i) PROVE i = k
  <2>1. ASSUME NEW p \in 0..N, NEW q \in 0..N, In(p), In(q), p < q PROVE FALSE
    <3>1. p + 1 \in 0..N /\ q \in p + 1..N /\ p # N
      BY <1>1, <2>1
    <3>2. Off(p + 1) > off /\ Off(q) <= off /\ Off(p + 1) <= Off(q)
      BY <1>3, <2>1, <3>1
    <3>3. PICK x \in Nat, y \in Nat : x = Off(p + 1) /\ y = Off(q)
      BY <1>2, <3>1
    <3>4. QED
      BY <3>2, <3>3
  <2>2. k \in 0..N
    BY <1>1
  <2>3. ~(i < k) /\ ~(k < i)
    BY <1>4, <1>5, <2>1, <2>2
  <2>4. QED
    BY <1>1, <2>2, <2>3
<1>6. Received = CHOOSE i \in 0..N : In(i)
  BY <1>1 DEF Received, Off
<1> HIDE DEF In
<1>7. QED
  BY <1>1, <1>4, <1>5, <1>6

LEMMA WaitingHasAll == FramingInv => NothingHeldBack
<1> SUFFICES ASSUME FramingInv, Waiting PROVE delivered = Meaning(stream)[Received].messages
  BY DEF NothingHeldBack
<1>1. ~failed /\ mState # "READY" /\ chunk = <<>> /\ bytesNeeded # 0
  BY DEF Waiting, GoesOn
<1>2. stream \in Streams /\ unread \in Seq(Byte) /\ TypeOK
  BY <1>1, StageFacts
<1>3. PICK k \in 0..Len(stream) : Stage(k)
  BY <1>1, StageFacts
<1>4. delivered = Meaning(stream)[k].messages
  BY <1>3 DEF Stage, AtHeader, AtExtended, AtPayload, AtReady, Sound, Acc
<1>5. PICK o \in Nat : o = Off(k)
  BY <1>2, Here
<1>6. k < Len(stream) =>
         /\ This(k) \in Fitting
         /\ \E h, l \in Nat : /\ h = HeaderSize(This(k)) /\ l = Len(This(k).payload) /\ h >= 2
                              /\ Off(k + 1) = o + (h + l)
  <2> SUFFICES ASSUME k < Len(stream)
               PROVE  /\ This(k) \in Fitting
                      /\ \E h, l \in Nat :
                            /\ h = HeaderSize(This(k)) /\ l = Len(This(k).payload) /\ h >= 2
                            /\ Off(k + 1) = o + (h + l)
    OBVIOUS
  <2>1. This(k) \in Fitting /\ Off(k + 1) = o + Len(Bytes(This(k)))
    BY <1>2, <1>5, Here
  <2>2. PICK l \in Nat : l = Len(This(k).payload)
    BY <2>1, FrameType
  <2>3. PICK h \in Nat : h = HeaderSize(This(k)) /\ h >= 2
    <3>1. HeaderSize(This(k)) \in Nat /\ HeaderSize(This(k)) >= 2
      BY DEF HeaderSize
    <3>2. QED
      BY <3>1
  <2>4. Off(k + 1) = o + (h + l)
    BY <2>1, <2>2, <2>3, BytesOf
  <2>5. QED
    BY <2>1, <2>2, <2>3, <2>4
<1>7. PICK b \in Nat : b = bytesNeeded /\ b > 0
  BY <1>1, <1>2 DEF TypeOK
<1>8. \E d \in Nat : At(o + d) /\ (k = Len(stream) \/ Off(k + 1) > o + d)
  <2>1. CASE AtHeader(k) /\ bytesNeeded = 2 /\ At(Off(k))
    <3>1. At(o + 0)
      BY <1>5, <2>1
    <3>2. k = Len(stream) \/ Off(k + 1) > o + 0
      <4> SUFFICES ASSUME k # Len(stream) PROVE Off(k + 1) > o + 0
        OBVIOUS
      <4>1. k < Len(stream)
        BY <1>2, Here
      <4>2. PICK h, l \in Nat : h >= 2 /\ Off(k + 1) = o + (h + l)
        BY <1>6, <4>1
      <4>3. o + (h + l) > o + 0
        BY <4>2
      <4>4. QED
        BY <4>2, <4>3
    <3>3. QED
      BY <3>1, <3>2
  <2>2. CASE AtHeader(k) /\ k < Len(stream) /\ At(Off(k) + 1)
    <3>1. PICK h, l \in Nat : h >= 2 /\ Off(k + 1) = o + (h + l)
      BY <1>6, <2>2
    <3>2. o + (h + l) > o + 1
      BY <3>1
    <3>3. QED
      BY <1>5, <2>2, <3>1, <3>2
  <2>3. CASE AtExtended(k)
    <3>1. PICK h, l \in Nat : h = HeaderSize(This(k)) /\ Off(k + 1) = o + (h + l)
      BY <1>6, <2>3 DEF AtExtended
    <3>2. PICK e \in Nat : e = Len(extended)
      BY <1>2 DEF TypeOK
    <3>3. e + b = h - 2 /\ At(o + 2 + e)
      BY <1>5, <1>7, <2>3, <3>1, <3>2 DEF AtExtended
    <3>4. o + 2 + e = o + (2 + e) /\ 2 + e \in Nat /\ o + (h + l) > o + (2 + e)
      BY <1>7, <3>3
    <3>5. QED
      BY <3>1, <3>3, <3>4
  <2>4. CASE AtPayload(k)
    <3>1. PICK h, l \in Nat : /\ h = HeaderSize(This(k)) /\ l = Len(This(k).payload)
                              /\ Off(k + 1) = o + (h + l)
      BY <1>6, <2>4 DEF AtPayload
    <3>2. b <= l /\ Taken(k) = l - b /\ At(o + h + (l - b))
      BY <1>5, <1>7, <2>4, <3>1 DEF AtPayload, Taken
    <3>3. /\ o + h + (l - b) = o + (h + (l - b)) /\ h + (l - b) \in Nat
          /\ o + (h + l) > o + (h + (l - b))
      BY <1>7, <3>2
    <3>4. QED
      BY <3>1, <3>2, <3>3
  <2>5. ~AtReady(k)
    BY <1>1 DEF AtReady
  <2>6. QED
    BY <1>3, <2>1, <2>2, <2>3, <2>4, <2>5 DEF Stage, AtHeader
<1>9. PICK d \in Nat : At(o + d) /\ (k = Len(stream) \/ Off(k + 1) > o + d)
  BY <1>8
<1>10. o + d = Len(Wire(stream)[Len(stream)]) - Len(unread) - Len(chunk)
  <2>1. PICK u \in Nat : u = Len(unread)
    BY <1>2
  <2>2. Len(chunk) = 0
    BY <1>1, EmptySeq
  <2>3. o + d + 0 + u = Len(Wire(stream)[Len(stream)])
    BY <1>9, <2>1, <2>2 DEF At, Placed
  <2>4. o + d = o + d + 0 + u - u - 0
    OBVIOUS
  <2>5. QED
    BY <2>1, <2>2, <2>3, <2>4
<1>11. Received = k
  <2>1. PICK off \in Nat : off = o + d
    OBVIOUS
  <2>2. Off(k) <= off
    BY <1>5, <2>1
  <2>3. QED
    BY <1>2, <1>9, <1>10, <2>1, <2>2, FramesIn
<1>12. QED
  BY <1>4, <1>11

\* The processor's states are the ones it was written for, with any streams of
\* frames and any limit: bytes are left to come for a header as long as one is
\* read, none are when a message is ready, and m_bytes_needed, a size_t, is never
\* taken below zero.
THEOREM FramingTypeCorrect == Spec => []TypeOK
<1>1. FramingInv => TypeOK
  BY DEF FramingInv
<1>2. QED
  BY <1>1, Invariant, PTL

\* However the bytes are cut into reads, what the processor delivers is a
\* beginning of the messages the frames stand for.
THEOREM MessagesAreThoseOfTheFrames == Spec => []MessagesOfTheFrames
BY PrefixOfAll, Invariant, PTL

\* When the processor waits for bytes it has delivered every message whose frames
\* are in.
THEOREM NothingIsHeldBack == Spec => []NothingHeldBack
BY WaitingHasAll, Invariant, PTL

\* A text message that ends within a character was begun by a text frame that was
\* not its last, went on with nothing but control frames and its own fragments, and
\* was completed by a continuation.
THEOREM HalfCharactersComeInFragments == Spec => []HalfCharactersAreFragments
BY HalvesFromFragments, Invariant, PTL
=============================================================================
