------------------------- MODULE DecompressRefinement -------------------------
(***************************************************************************)
(* Machine-checked proofs of what decompress::run makes of a file of the   *)
(* compressor, complete or cut short: the text, or a beginning of it.      *)
(***************************************************************************)
EXTENDS DecompressProofs

-----------------------------------------------------------------------------
(* The compressor's file, piece by piece.                                  *)

Keys(codes) == InKeyOrder(DOMAIN codes)

Count(codes) == Cardinality(DOMAIN codes)

EntryOf(codes, i) == HeaderEntry(Keys(codes)[i], codes[Keys(codes)[i]])

\* The header up to its k-th entry.
HeaderUpTo(codes, k) ==
  WriteBe(Count(codes), CountBytes) \o FlattenSeq([i \in 1 .. k |-> EntryOf(codes, i)])

\* The codes of these entries.
FirstCodes(codes, k) == [c \in {Keys(codes)[i] : i \in 1 .. k} |-> codes[c]]

\* The keys of a map of codes.
LEMMA KeysProperties ==
  ASSUME NEW codes, CodesFit(codes)
  PROVE  /\ Count(codes) \in Nat /\ Len(Keys(codes)) = Count(codes)
         /\ \A i \in 1 .. Count(codes) : Keys(codes)[i] \in DOMAIN codes
         /\ \A i, j \in 1 .. Count(codes) : Keys(codes)[i] = Keys(codes)[j] => i = j
         /\ \A c \in DOMAIN codes : \E i \in 1 .. Count(codes) : Keys(codes)[i] = c
<1> DEFINE S == DOMAIN codes
           m == FieldRange(CodepointBytes) - 1
<1>1. m \in Nat /\ S \in SUBSET (0 .. m)
  BY WidthsType, FieldRangeType DEF CodesFit
<1> HIDE DEF m, S
<1>2. /\ Cardinality(S) \in Nat /\ InKeyOrder(S) \in Seq(S)
      /\ Len(InKeyOrder(S)) = Cardinality(S)
      /\ \A i, j \in 1 .. Cardinality(S) :
           InKeyOrder(S)[i] = InKeyOrder(S)[j] => i = j
      /\ \A c \in S : \E i \in 1 .. Cardinality(S) : InKeyOrder(S)[i] = c
  BY <1>1, KeyOrderProperties
<1>3. \A i \in 1 .. Cardinality(S) : InKeyOrder(S)[i] \in S
  BY <1>2, ElementOfSeq
<1> QED  BY <1>2, <1>3 DEF S, Keys, Count

\* An entry is made of three fields, of which the first two have a fixed size.
LEMMA EntryProperties ==
  ASSUME NEW codes, CodesFit(codes), NEW c \in DOMAIN codes
  PROVE  LET code == codes[c]
             e1 == WriteBe(c, CodepointBytes)
             e2 == WriteBe(Len(code), LengthBytes)
         IN /\ code \in Seq(Bit) /\ code # <<>> /\ Len(code) \in Nat
            /\ HeaderEntry(c, code) = (e1 \o e2) \o PackBits(code)
            /\ e1 \in Seq(Byte) /\ Len(e1) = CodepointBytes /\ ReadBe(e1) = c
            /\ e2 \in Seq(Byte) /\ Len(e2) = LengthBytes /\ ReadBe(e2) = Len(code)
            /\ PackBits(code) \in Seq(Byte)
            /\ Len(PackBits(code)) = BytesFor(Len(code))
            /\ HeaderEntry(c, code) \in Seq(Byte)
<1> DEFINE code == codes[c]
           e1 == WriteBe(c, CodepointBytes)
           e2 == WriteBe(Len(code), LengthBytes)
           e3 == PackBits(code)
<1>1. /\ code \in Seq(Bit) /\ code # <<>> /\ Len(code) < FieldRange(LengthBytes)
      /\ c \in 0 .. (FieldRange(CodepointBytes) - 1)
  BY DEF CodesFit
<1>2. Len(code) \in Nat /\ Len(code) \in 0 .. (FieldRange(LengthBytes) - 1)
  <2>1. Len(code) \in Nat
    BY <1>1, LenProperties
  <2>2. FieldRange(LengthBytes) \in Nat
    BY WidthsType, FieldRangeType
  <2> HIDE DEF code
  <2> QED  BY <1>1, <2>1, <2>2
<1>3. HeaderEntry(c, code) = (e1 \o e2) \o e3
  <2>1. ~ (Len(code) >= FieldRange(LengthBytes))
    <3>1. FieldRange(LengthBytes) \in Nat
      BY WidthsType, FieldRangeType
    <3> HIDE DEF code
    <3> QED  BY <1>1, <1>2, <3>1
  <2> QED  BY <2>1 DEF HeaderEntry
<1> HIDE DEF code
<1>4. e1 \in Seq(Byte) /\ Len(e1) = CodepointBytes /\ ReadBe(e1) = c
  BY <1>1, WidthsType, WriteBeProperties
<1>5. e2 \in Seq(Byte) /\ Len(e2) = LengthBytes /\ ReadBe(e2) = Len(code)
  BY <1>2, WidthsType, WriteBeProperties
<1>6. e3 \in Seq(Byte) /\ Len(e3) = BytesFor(Len(code))
  BY <1>1, PackBitsProperties
<1> HIDE DEF e1, e2, e3
<1>7. (e1 \o e2) \o e3 \in Seq(Byte)
  <2>1. e1 \o e2 \in Seq(Byte)
    BY <1>4, <1>5, ConcatProperties
  <2> QED  BY <1>6, <2>1, ConcatProperties
<1> QED  BY <1>1, <1>2, <1>3, <1>4, <1>5, <1>6, <1>7 DEF e1, e2, e3, code

\* The header grows by one entry after the other.
LEMMA HeaderUpToProperties ==
  ASSUME NEW codes, CodesFit(codes)
  PROVE  /\ HeaderUpTo(codes, 0) = WriteBe(Count(codes), CountBytes)
         /\ \A k \in 0 .. Count(codes) : HeaderUpTo(codes, k) \in Seq(Byte)
         /\ \A k \in 0 .. (Count(codes) - 1) :
              HeaderUpTo(codes, k + 1) = HeaderUpTo(codes, k) \o EntryOf(codes, k + 1)
         /\ HeaderUpTo(codes, Count(codes)) = Header(codes)
         /\ WriteBe(Count(codes), CountBytes) \in Seq(Byte)
         /\ Len(WriteBe(Count(codes), CountBytes)) = CountBytes
         /\ ReadBe(WriteBe(Count(codes), CountBytes)) = Count(codes)
<1> DEFINE n == Count(codes)
           w == WriteBe(n, CountBytes)
           parts(k) == [i \in 1 .. k |-> EntryOf(codes, i)]
<1>1. n \in Nat /\ n \in 0 .. (FieldRange(CountBytes) - 1)
  <2>1. n \in Nat /\ n < FieldRange(CountBytes) /\ FieldRange(CountBytes) \in Nat
    BY KeysProperties, WidthsType, FieldRangeType DEF CodesFit, Count
  <2> QED  BY <2>1
<1>2. \A i \in 1 .. n : EntryOf(codes, i) \in Seq(Byte)
  BY KeysProperties, EntryProperties DEF EntryOf
<1>3. w \in Seq(Byte) /\ Len(w) = CountBytes /\ ReadBe(w) = n
  BY <1>1, WidthsType, WriteBeProperties
<1>4. ASSUME NEW k \in 0 .. n
      PROVE  parts(k) \in Seq(Seq(Byte)) /\ Len(parts(k)) = k
  <2>1. parts(k) \in [1 .. k -> Seq(Byte)] /\ k \in Nat
    BY <1>1, <1>2
  <2> HIDE DEF parts
  <2> QED  BY <2>1, SeqDef, LenProperties
<1>5. \A k : HeaderUpTo(codes, k) = w \o FlattenSeq(parts(k))
  BY DEF HeaderUpTo
<1>6. HeaderUpTo(codes, n) = Header(codes)
  <2>1. Len(Keys(codes)) = n /\ ~ (n >= FieldRange(CountBytes))
    BY <1>1, KeysProperties, WidthsType, FieldRangeType
  <2>2. DOMAIN Keys(codes) = 1 .. n
    <3>1. Keys(codes) \in Seq(DOMAIN codes)
      <4> DEFINE S == DOMAIN codes
                 m == FieldRange(CodepointBytes) - 1
      <4>1. m \in Nat /\ S \in SUBSET (0 .. m)
        BY WidthsType, FieldRangeType DEF CodesFit
      <4> HIDE DEF m, S
      <4>2. InKeyOrder(S) \in Seq(S)
        BY <4>1, KeyOrderProperties
      <4> QED  BY <4>2 DEF S, Keys
    <3> QED  BY <2>1, <3>1, LenProperties
  <2> QED  BY <2>1, <2>2 DEF Header, HeaderUpTo, Keys, EntryOf
<1> HIDE DEF w
<1>7. HeaderUpTo(codes, 0) = w
  <2>1. parts(0) = <<>>
    OBVIOUS
  <2>2. HeaderUpTo(codes, 0) = w \o <<>>
    BY <1>5, <2>1, FlattenSeqEmpty
  <2> QED  BY <1>3, <2>2, ConcatEmptySeq
<1>8. \A k \in 0 .. n : HeaderUpTo(codes, k) \in Seq(Byte)
  <2> SUFFICES ASSUME NEW k \in 0 .. n
               PROVE  HeaderUpTo(codes, k) \in Seq(Byte)
    OBVIOUS
  <2>1. FlattenSeq(parts(k)) \in Seq(Byte)
    BY <1>4, FlattenSeqType
  <2> QED  BY <1>3, <1>5, <2>1, ConcatProperties
<1>9. ASSUME NEW k \in 0 .. (n - 1)
      PROVE  HeaderUpTo(codes, k + 1) = HeaderUpTo(codes, k) \o EntryOf(codes, k + 1)
  <2> DEFINE p == parts(k)
             e == EntryOf(codes, k + 1)
             q == Append(p, e)
  <2>1. k \in 0 .. n /\ k + 1 \in 1 .. n /\ k + 1 \in 0 .. n /\ k \in Nat
    BY <1>1
  <2>2. p \in Seq(Seq(Byte)) /\ Len(p) = k /\ e \in Seq(Byte)
    BY <1>2, <1>4, <2>1
  <2>3. \A i \in 1 .. k : p[i] = EntryOf(codes, i)
    OBVIOUS
  <2> HIDE DEF p
  <2>4. /\ q \in Seq(Seq(Byte)) /\ Len(q) = k + 1 /\ q[k + 1] = e
        /\ \A i \in 1 .. k : q[i] = p[i]
    BY <2>2, AppendProperties
  <2>5. parts(k + 1) \in Seq(Seq(Byte)) /\ Len(parts(k + 1)) = k + 1
    BY <1>4, <2>1
  <2>6. \A i \in 1 .. (k + 1) : parts(k + 1)[i] = EntryOf(codes, i)
    OBVIOUS
  <2>7. parts(k + 1) = q
    <3> HIDE DEF parts, q
    <3>1. ASSUME NEW i \in 1 .. (k + 1) PROVE parts(k + 1)[i] = q[i]
      BY <2>1, <2>3, <2>4, <2>6
    <3> QED  BY <2>4, <2>5, <3>1, SeqEqual
  <2> DEFINE f == FlattenSeq(p)
  <2>8. FlattenSeq(parts(k + 1)) = f \o e
    BY <2>2, <2>7, FlattenSeqAppend
  <2>9. f \in Seq(Byte)
    BY <2>2, FlattenSeqType
  <2>10. HeaderUpTo(codes, k) = w \o f /\ HeaderUpTo(codes, k + 1) = w \o (f \o e)
    BY <1>5, <2>8 DEF p
  <2> HIDE DEF f, e
  <2>11. w \o (f \o e) = (w \o f) \o e
    BY <1>3, <2>2, <2>9, ConcatAssociative
  <2> QED  BY <2>10, <2>11 DEF e
<1> QED  BY <1>3, <1>6, <1>7, <1>8, <1>9 DEF w

\* f stands in s behind the first `offset` elements.
StandsAt(s, offset, f) ==
  /\ offset + Len(f) <= Len(s)
  /\ \A j \in 1 .. Len(f) : s[offset + j] = f[j]

\* What is joined stands where it was put.
LEMMA StandsInConcat ==
  ASSUME NEW S, NEW a \in Seq(S), NEW f \in Seq(S)
  PROVE  StandsAt(a \o f, 0, a) /\ StandsAt(a \o f, Len(a), f)
<1> DEFINE s == a \o f
<1>1. /\ Len(a) \in Nat /\ Len(f) \in Nat /\ Len(s) = Len(a) + Len(f)
      /\ \A j \in 1 .. Len(s) : s[j] = IF j <= Len(a) THEN a[j] ELSE f[j - Len(a)]
  BY LenProperties, ConcatProperties
<1> HIDE DEF s
<1>2. StandsAt(s, 0, a)
  <2> SUFFICES ASSUME NEW j \in 1 .. Len(a) PROVE s[0 + j] = a[j]
    BY <1>1 DEF StandsAt
  <2>1. j \in 1 .. Len(s) /\ 0 + j = j
    BY <1>1
  <2> QED  BY <1>1, <2>1
<1>3. StandsAt(s, Len(a), f)
  <2> SUFFICES ASSUME NEW j \in 1 .. Len(f) PROVE s[Len(a) + j] = f[j]
    BY <1>1 DEF StandsAt
  <2> DEFINE i == Len(a) + j
  <2>1. i \in 1 .. Len(s) /\ ~ (i <= Len(a)) /\ i - Len(a) = j
    BY <1>1
  <2> QED  BY <1>1, <2>1
<1> QED  BY <1>2, <1>3 DEF s

\* The parts of what stands somewhere stand there one behind the other.
LEMMA StandsInParts ==
  ASSUME NEW S, NEW s \in Seq(S), NEW a \in Seq(S), NEW f \in Seq(S),
         NEW offset \in Nat, StandsAt(s, offset, a \o f)
  PROVE  StandsAt(s, offset, a) /\ StandsAt(s, offset + Len(a), f)
<1> DEFINE t == a \o f
<1>1. StandsAt(t, 0, a) /\ StandsAt(t, Len(a), f) /\ StandsAt(s, offset, t)
  BY StandsInConcat
<1>2. /\ Len(a) \in Nat /\ Len(f) \in Nat /\ Len(s) \in Nat
      /\ Len(t) = Len(a) + Len(f)
  BY LenProperties, ConcatProperties
<1> HIDE DEF t
<1>3. StandsAt(s, offset, a)
  <2> SUFFICES ASSUME NEW j \in 1 .. Len(a) PROVE s[offset + j] = a[j]
    BY <1>1, <1>2 DEF StandsAt
  <2>1. j \in 1 .. Len(t) /\ 0 + j = j
    BY <1>2
  <2> QED  BY <1>1, <2>1 DEF StandsAt
<1>4. StandsAt(s, offset + Len(a), f)
  <2> SUFFICES ASSUME NEW j \in 1 .. Len(f) PROVE s[(offset + Len(a)) + j] = f[j]
    BY <1>1, <1>2 DEF StandsAt
  <2> DEFINE i == Len(a) + j
  <2>1. i \in 1 .. Len(t) /\ offset + i = (offset + Len(a)) + j
    BY <1>2
  <2>2. s[offset + i] = t[i] /\ t[i] = f[j]
    BY <1>1, <2>1 DEF StandsAt
  <2> HIDE DEF i
  <2> QED  BY <2>1, <2>2
<1> QED  BY <1>3, <1>4

\* Of two that stand at one place the shorter begins the longer.
LEMMA StandsArePrefixes ==
  ASSUME NEW S, NEW s \in Seq(S), NEW a \in Seq(S), NEW f \in Seq(S),
         NEW offset \in Nat, StandsAt(s, offset, a), StandsAt(s, offset, f),
         Len(a) <= Len(f)
  PROVE  IsPrefix(a, f) /\ (Len(a) = Len(f) => a = f)
<1>1. Len(a) \in Nat /\ Len(f) \in Nat
  BY LenProperties
<1>2. ASSUME NEW j \in 1 .. Len(a) PROVE a[j] = f[j]
  <2>1. j \in 1 .. Len(f)
    BY <1>1
  <2> QED  BY <2>1 DEF StandsAt
<1>3. IsPrefix(a, f)
  BY <1>1, <1>2, IsPrefixElements
<1>4. Len(a) = Len(f) => a = f
  BY <1>2, SeqEqual
<1> QED  BY <1>3, <1>4

\* When each of several is the one before with a piece behind it, all of them
\* and all the pieces stand where the last one does.
LEMMA StandsInChain ==
  ASSUME NEW S, NEW n \in Nat, NEW f \in [0 .. n -> Seq(S)],
         NEW g \in [0 .. (n - 1) -> Seq(S)],
         \A k \in 0 .. (n - 1) : f[k + 1] = f[k] \o g[k],
         NEW s \in Seq(S), StandsAt(s, 0, f[n])
  PROVE  /\ \A k \in 0 .. n : StandsAt(s, 0, f[k])
         /\ \A k \in 0 .. (n - 1) : StandsAt(s, Len(f[k]), g[k])
<1> DEFINE T == {m \in Nat : m <= n => StandsAt(s, 0, f[n - m])}
<1>1. ASSUME NEW k \in 0 .. (n - 1), StandsAt(s, 0, f[k + 1])
      PROVE  StandsAt(s, 0, f[k]) /\ StandsAt(s, Len(f[k]), g[k])
  <2> DEFINE a == f[k]
             e == g[k]
  <2>1. a \in Seq(S) /\ e \in Seq(S) /\ StandsAt(s, 0, a \o e)
    <3>1. k \in 0 .. n
      OBVIOUS
    <3> QED  BY <1>1, <3>1
  <2> HIDE DEF a, e
  <2>2. StandsAt(s, 0, a) /\ StandsAt(s, 0 + Len(a), e)
    BY <2>1, StandsInParts
  <2>3. 0 + Len(a) = Len(a)
    BY <2>1, LenProperties
  <2> QED  BY <2>2, <2>3 DEF a, e
<1>2. 0 \in T
  <2>1. n - 0 = n
    OBVIOUS
  <2> QED  BY <2>1
<1>3. ASSUME NEW m \in Nat, m \in T
      PROVE  m + 1 \in T
  <2> SUFFICES ASSUME m + 1 <= n PROVE StandsAt(s, 0, f[n - (m + 1)])
    OBVIOUS
  <2> DEFINE k == n - (m + 1)
  <2>1. k \in 0 .. (n - 1) /\ k + 1 = n - m /\ m <= n
    OBVIOUS
  <2>2. StandsAt(s, 0, f[k + 1])
    BY <1>3, <2>1
  <2> HIDE DEF k
  <2>3. StandsAt(s, 0, f[k])
    BY <1>1, <2>1, <2>2
  <2> QED  BY <2>3 DEF k
<1> HIDE DEF T
<1>4. \A m \in Nat : m \in T
  BY <1>2, <1>3, SetInduction
<1>5. ASSUME NEW k \in 0 .. n PROVE StandsAt(s, 0, f[k])
  <2> DEFINE m == n - k
  <2>1. m \in Nat /\ m <= n /\ n - m = k
    OBVIOUS
  <2> HIDE DEF m
  <2>2. StandsAt(s, 0, f[n - m])
    BY <1>4, <2>1 DEF T
  <2> QED  BY <2>1, <2>2
<1>6. ASSUME NEW k \in 0 .. (n - 1) PROVE StandsAt(s, Len(f[k]), g[k])
  <2>1. k + 1 \in 0 .. n
    OBVIOUS
  <2>2. StandsAt(s, 0, f[k + 1])
    BY <1>5, <2>1
  <2> QED  BY <1>1, <2>2
<1> QED  BY <1>5, <1>6

\* The pieces of the compressor's file, each at its place.
LEMMA FileProperties ==
  ASSUME NEW i, TextFits(i)
  PROVE  LET bits == EncodedBits(i.text, i.codes)
             head == Header(i.codes)
             total == WriteBe(Len(bits), TotalBytes)
             payload == PackBits(bits)
         IN /\ bits \in Seq(Bit) /\ Len(bits) \in Nat
            /\ head \in Seq(Byte) /\ Len(head) \in Nat
            /\ Len(total) = TotalBytes /\ ReadBe(total) = Len(bits)
            /\ payload \in Seq(Byte) /\ Len(payload) = BytesFor(Len(bits))
            /\ i.compressed \in Seq(Byte)
            /\ Len(i.compressed) = Len(head) + TotalBytes + Len(payload)
            /\ StandsAt(i.compressed, 0, head)
            /\ StandsAt(i.compressed, Len(head), total)
            /\ StandsAt(i.compressed, Len(head) + TotalBytes, payload)
<1> DEFINE codes == i.codes
           bits == EncodedBits(i.text, codes)
           head == Header(codes)
           total == WriteBe(Len(bits), TotalBytes)
           payload == PackBits(bits)
           tail == total \o payload
           whole == head \o tail
<1>1. /\ CodesFit(codes) /\ i.text \in Seq(DOMAIN codes)
      /\ Len(bits) <= SizeRange - ByteBits
      /\ i.compressed = whole
  BY DEF TextFits, CompressedFile, Contents
<1> HIDE DEF codes
<1>2. bits \in Seq(Bit) /\ Len(bits) \in Nat
  <2>1. \A c \in DOMAIN codes : codes[c] \in Seq(Bit)
    BY <1>1 DEF CodesFit
  <2>2. bits \in Seq(Bit)
    <3>1. CASE i.text = <<>>
      <4>1. bits = <<>>
        BY <3>1, FlattenSeqEmpty DEF EncodedBits
      <4> QED  BY <4>1, EmptySeq
    <3>2. CASE i.text # <<>>
      <4> DEFINE t == i.text
      <4>1. \E c : c \in DOMAIN codes
        <5>1. t \in Seq(DOMAIN codes) /\ t # <<>>
          BY <1>1, <3>2
        <5> HIDE DEF t
        <5> QED  BY <5>1, EmptySeq, LenProperties, ElementOfSeq
      <4>2. t \in Seq(DOMAIN codes)
        BY <1>1
      <4> HIDE DEF t
      <4>3. EncodedBits(t, codes) \in Seq(Bit)
        BY <2>1, <4>1, <4>2, EncodedBitsProperties
      <4> QED  BY <4>3 DEF t
    <3> QED  BY <3>1, <3>2
  <2> QED  BY <2>2, LenProperties
<1> HIDE DEF bits
<1>3. head \in Seq(Byte) /\ Len(head) \in Nat
  <2>1. Count(codes) \in 0 .. Count(codes)
    BY <1>1, KeysProperties
  <2>2. head \in Seq(Byte)
    BY <1>1, <2>1, HeaderUpToProperties
  <2> QED  BY <2>2, LenProperties
<1>4. total \in Seq(Byte) /\ Len(total) = TotalBytes /\ ReadBe(total) = Len(bits)
  <2>1. FieldRange(TotalBytes) \in Nat /\ TotalBytes \in Nat /\ ByteBits \in Nat \ {0}
    BY WidthsType, FieldRangeType
  <2>2. Len(bits) \in 0 .. (FieldRange(TotalBytes) - 1)
    BY <1>1, <1>2, <2>1 DEF SizeRange
  <2> QED  BY <2>1, <2>2, WriteBeProperties
<1>5. payload \in Seq(Byte) /\ Len(payload) = BytesFor(Len(bits)) /\ Len(payload) \in Nat
  BY <1>2, PackBitsProperties, LenProperties
<1> HIDE DEF head, total, payload
<1>6. tail \in Seq(Byte) /\ Len(tail) = TotalBytes + Len(payload)
  BY <1>4, <1>5, ConcatProperties
<1>7. StandsAt(whole, 0, head) /\ StandsAt(whole, Len(head), tail)
  <2> HIDE DEF tail
  <2> QED  BY <1>3, <1>6, StandsInConcat
<1>8. whole \in Seq(Byte) /\ Len(whole) = Len(head) + Len(tail)
  <2> HIDE DEF tail
  <2> QED  BY <1>3, <1>6, ConcatProperties
<1>9. /\ StandsAt(whole, Len(head), total)
      /\ StandsAt(whole, Len(head) + TotalBytes, payload)
  <2> HIDE DEF whole
  <2> QED  BY <1>3, <1>4, <1>5, <1>7, <1>8, StandsInParts
<1>10. Len(whole) = Len(head) + TotalBytes + Len(payload)
  <2> HIDE DEF whole, tail
  <2>1. TotalBytes \in Nat
    BY WidthsType
  <2> QED  BY <1>3, <1>5, <1>6, <1>8, <2>1
<1> HIDE DEF whole
<1> QED  BY <1>1, <1>2, <1>3, <1>4, <1>5, <1>7, <1>8, <1>9, <1>10
         DEF codes, bits, head, total, payload

\* So are the fields of the header.
LEMMA HeaderFields ==
  ASSUME NEW i, TextFits(i)
  PROVE  /\ StandsAt(i.compressed, 0, WriteBe(Count(i.codes), CountBytes))
         /\ \A k \in 0 .. (Count(i.codes) - 1) :
              StandsAt(i.compressed, Len(HeaderUpTo(i.codes, k)),
                       EntryOf(i.codes, k + 1))
<1> DEFINE codes == i.codes
           n == Count(codes)
           whole == i.compressed
           f == [k \in 0 .. n |-> HeaderUpTo(codes, k)]
           g == [k \in 0 .. (n - 1) |-> EntryOf(codes, k + 1)]
<1>1. CodesFit(codes)
  BY DEF TextFits
<1>2. whole \in Seq(Byte) /\ StandsAt(whole, 0, Header(codes))
  BY FileProperties
<1> HIDE DEF codes, whole
<1>3. /\ n \in Nat
      /\ HeaderUpTo(codes, n) = Header(codes)
      /\ HeaderUpTo(codes, 0) = WriteBe(n, CountBytes)
      /\ \A k \in 0 .. n : HeaderUpTo(codes, k) \in Seq(Byte)
      /\ \A k \in 0 .. (n - 1) :
           HeaderUpTo(codes, k + 1) = HeaderUpTo(codes, k) \o EntryOf(codes, k + 1)
  BY <1>1, HeaderUpToProperties, KeysProperties
<1>4. \A k \in 0 .. (n - 1) : EntryOf(codes, k + 1) \in Seq(Byte)
  <2> SUFFICES ASSUME NEW k \in 0 .. (n - 1)
               PROVE  EntryOf(codes, k + 1) \in Seq(Byte)
    OBVIOUS
  <2>1. k + 1 \in 1 .. n
    BY <1>3
  <2>2. Keys(codes)[k + 1] \in DOMAIN codes
    BY <1>1, <2>1, KeysProperties
  <2> QED  BY <1>1, <2>2, EntryProperties DEF EntryOf
<1> HIDE DEF n
<1>5. /\ f \in [0 .. n -> Seq(Byte)] /\ g \in [0 .. (n - 1) -> Seq(Byte)]
      /\ f[n] = Header(codes) /\ f[0] = WriteBe(n, CountBytes)
  BY <1>3, <1>4
<1>6. \A k \in 0 .. (n - 1) : f[k + 1] = f[k] \o g[k]
  <2> SUFFICES ASSUME NEW k \in 0 .. (n - 1) PROVE f[k + 1] = f[k] \o g[k]
    OBVIOUS
  <2>1. k \in 0 .. n /\ k + 1 \in 0 .. n
    BY <1>3
  <2> QED  BY <1>3, <2>1
<1>7. \A k \in 0 .. (n - 1) :
        f[k] = HeaderUpTo(codes, k) /\ g[k] = EntryOf(codes, k + 1)
  BY <1>3
<1> HIDE DEF f, g
<1>8. /\ \A k \in 0 .. n : StandsAt(whole, 0, f[k])
      /\ \A k \in 0 .. (n - 1) : StandsAt(whole, Len(f[k]), g[k])
  BY <1>2, <1>3, <1>5, <1>6, StandsInChain
<1>9. StandsAt(whole, 0, f[0])
  <2>1. 0 \in 0 .. n
    BY <1>3
  <2> QED  BY <1>8, <2>1
<1> QED  BY <1>5, <1>7, <1>8, <1>9 DEF codes, whole, n

-----------------------------------------------------------------------------
(* What is read of an intact file.                                         *)

\* The bytes from an offset on, one by one.
LEMMA BytesAtElements ==
  ASSUME input.stream \in Seq(Byte), NEW offset \in Nat, NEW n \in Nat,
         offset + n <= Len(input.stream)
  PROVE  \A j \in 1 .. n : BytesAt(offset, n)[j] = input.stream[offset + j]
<1> DEFINE s == input.stream
<1>1. s \in Seq(Byte) /\ Len(s) \in Nat /\ offset + n <= Len(s)
  BY LenProperties
<1>2. BytesAt(offset, n) = SubSeq(s, offset + 1, offset + n)
  BY DEF BytesAt
<1> HIDE DEF s
<1>3. \A i \in (offset + 1) .. (offset + n) : s[i] \in Byte
  <2> SUFFICES ASSUME NEW i \in (offset + 1) .. (offset + n)
               PROVE  s[i] \in Byte
    OBVIOUS
  <2>1. i \in 1 .. Len(s)
    BY <1>1
  <2> QED  BY <1>1, <2>1, ElementOfSeq
<1> DEFINE t == SubSeq(s, offset + 1, offset + n)
           p == offset + 1
           q == offset + n
<1>4. p \in Int /\ q \in Int
  OBVIOUS
<1>5. \A j \in 1 .. (q - p + 1) : p <= q => t[j] = s[p + j - 1]
  <2> HIDE DEF p, q
  <2> SUFFICES ASSUME p <= q, NEW j \in 1 .. (q - p + 1)
               PROVE  SubSeq(s, p, q)[j] = s[p + j - 1]
    BY DEF p, q
  <2>1. \A i \in p .. q : s[i] \in Byte
    BY <1>3 DEF p, q
  <2> QED  BY <1>4, <2>1, SubSeqProperties
<1> SUFFICES ASSUME NEW j \in 1 .. n
             PROVE  t[j] = s[offset + j]
  BY <1>2 DEF s
<1>6. j \in 1 .. (q - p + 1) /\ p <= q /\ p + j - 1 = offset + j
  OBVIOUS
<1> HIDE DEF p, q, t
<1> QED  BY <1>5, <1>6

\* As far as both go, the bytes found are those the compressor wrote.
LEMMA StreamAgrees ==
  ASSUME input.stream \in Seq(Byte), input.compressed \in Seq(Byte), Intact
  PROVE  /\ \A j \in 1 .. Len(input.stream) :
              j <= Len(input.compressed) => input.stream[j] = input.compressed[j]
         /\ Len(input.compressed) <= Len(input.stream)
              <=> IsPrefix(input.compressed, input.stream)
<1> DEFINE s == input.stream
           c == input.compressed
<1>1. s \in Seq(Byte) /\ c \in Seq(Byte) /\ (IsPrefix(s, c) \/ IsPrefix(c, s))
  BY DEF Intact
<1> SUFFICES /\ \A j \in 1 .. Len(s) : j <= Len(c) => s[j] = c[j]
             /\ Len(c) <= Len(s) <=> IsPrefix(c, s)
  OBVIOUS
<1> HIDE DEF s, c
<1>2. Len(s) \in Nat /\ Len(c) \in Nat
  BY <1>1, LenProperties
<1>3. \A j \in 1 .. Len(s) : j <= Len(c) => s[j] = c[j]
  <2>1. CASE IsPrefix(s, c)
    BY <1>1, <2>1, IsPrefixElements
  <2>2. CASE IsPrefix(c, s)
    <3>1. \A j \in 1 .. Len(c) : c[j] = s[j]
      BY <1>1, <2>2, IsPrefixElements
    <3> QED  BY <1>2, <3>1
  <2> QED  BY <1>1, <2>1, <2>2
<1>4. Len(c) <= Len(s) => IsPrefix(c, s)
  <2> SUFFICES ASSUME Len(c) <= Len(s) PROVE IsPrefix(c, s)
    OBVIOUS
  <2>1. ASSUME NEW j \in 1 .. Len(c) PROVE c[j] = s[j]
    <3>1. j \in 1 .. Len(s) /\ j <= Len(c)
      BY <1>2
    <3> QED  BY <1>3, <3>1
  <2> QED  BY <1>1, <2>1, IsPrefixElements
<1>5. IsPrefix(c, s) => Len(c) <= Len(s)
  BY <1>1, IsPrefixElements
<1> QED  BY <1>3, <1>4, <1>5

\* A field of the compressor's file is read as it was written, unless the file
\* ends before.
LEMMA ReadsField ==
  ASSUME input \in Inputs, TextFits(input), Intact,
         NEW offset \in Nat, NEW f \in Seq(Byte),
         StandsAt(input.compressed, offset, f)
  PROVE  IF offset + Len(f) <= Len(input.stream)
           THEN BytesAt(offset, Len(f)) = f
           ELSE ~ IsPrefix(input.compressed, input.stream)
<1> DEFINE s == input.stream
           c == input.compressed
           n == Len(f)
           b == BytesAt(offset, n)
<1>1. s \in Seq(Byte) /\ c \in Seq(Byte)
  <2>1. c \in Seq(Byte)
    BY FileProperties
  <2> QED  BY <2>1, InputsAssumption
<1>2. Len(s) \in Nat /\ Len(c) \in Nat /\ n \in Nat /\ offset + n <= Len(c)
  <2>1. Len(s) \in Nat
    BY <1>1, LenProperties
  <2>2. Len(c) \in Nat
    BY <1>1, LenProperties
  <2>3. offset + n <= Len(c)
    BY DEF StandsAt
  <2> QED  BY <2>1, <2>2, <2>3, LenProperties
<1>3. \A j \in 1 .. n : c[offset + j] = f[j]
  BY DEF StandsAt
<1>4. /\ \A j \in 1 .. Len(s) : j <= Len(c) => s[j] = c[j]
      /\ IsPrefix(c, s) => Len(c) <= Len(s)
  BY <1>1, StreamAgrees
<1>5. CASE offset + n <= Len(s)
  <2>1. b \in Seq(Byte) /\ Len(b) = n
    BY <1>1, <1>2, <1>5, BytesAtProperties
  <2>2. \A j \in 1 .. n : b[j] = s[offset + j]
    BY <1>1, <1>2, <1>5, BytesAtElements
  <2> HIDE DEF b, n
  <2>3. ASSUME NEW j \in 1 .. n PROVE b[j] = f[j]
    <3> HIDE DEF s, c
    <3> DEFINE k == offset + j
    <3>1. k \in 1 .. Len(s) /\ k <= Len(c)
      BY <1>2, <1>5
    <3>2. b[j] = s[k] /\ c[k] = f[j]
      BY <1>3, <2>2
    <3> HIDE DEF k
    <3> QED  BY <1>4, <3>1, <3>2
  <2>4. b = f
    BY <2>1, <2>3, SeqEqual DEF n
  <2> QED  BY <1>5, <2>4 DEF b, n
<1>6. CASE ~ (offset + n <= Len(s))
  <2> HIDE DEF s, c
  <2>1. ~ (Len(c) <= Len(s))
    BY <1>2, <1>6
  <2> QED  BY <1>4, <1>6, <2>1 DEF s, c
<1> QED  BY <1>5, <1>6

\* Packed bits are unpacked to the same bits.
LEMMA UnpackPacked ==
  ASSUME NEW s \in Seq(Bit)
  PROVE  UnpackBits(PackBits(s), Len(s)) = s
<1> DEFINE n == Len(s)
           p == PackBits(s)
           u == UnpackBits(p, n)
<1>1. n \in Nat /\ p \in Seq(Byte) /\ Len(p) = BytesFor(n)
  BY LenProperties, PackBitsProperties
<1>2. n <= BytesFor(n) * ByteBits
  BY <1>1, BytesForProperties
<1>3. \A j \in 1 .. n : u[j] = IF j <= n THEN s[j] ELSE 0
  BY <1>1, <1>2, PackBitsProperties
<1> HIDE DEF p
<1>4. u \in Seq(Bit) /\ Len(u) = n
  BY <1>1, <1>2, UnpackBitsProperties
<1> HIDE DEF u
<1>5. ASSUME NEW j \in 1 .. Len(u) PROVE u[j] = s[j]
  BY <1>1, <1>3, <1>4
<1>6. u = s
  BY <1>4, <1>5, SeqEqual
<1> QED  BY <1>6 DEF u, p

\* The codes of the first entries, as the map from codepoints to codes grows.
LEMMA FirstCodesProperties ==
  ASSUME NEW codes, CodesFit(codes)
  PROVE  /\ FirstCodes(codes, 0) = <<>>
         /\ FirstCodes(codes, Count(codes)) = codes
         /\ \A k \in 0 .. (Count(codes) - 1) :
              LET key == Keys(codes)[k + 1]
                  known == FirstCodes(codes, k)
              IN FirstCodes(codes, k + 1)
                   = [c \in DOMAIN known \union {key} |->
                        IF c = key THEN codes[key] ELSE known[c]]
<1> DEFINE n == Count(codes)
           keys(k) == {Keys(codes)[i] : i \in 1 .. k}
<1>1. /\ n \in Nat /\ \A i \in 1 .. n : Keys(codes)[i] \in DOMAIN codes
      /\ \A c \in DOMAIN codes : \E i \in 1 .. n : Keys(codes)[i] = c
  BY KeysProperties
<1>2. FirstCodes(codes, 0) = <<>>
  <2>1. keys(0) = {}
    OBVIOUS
  <2>2. FirstCodes(codes, 0) = [c \in {} |-> codes[c]]
    BY <2>1 DEF FirstCodes
  <2> QED  BY <2>2
<1>3. FirstCodes(codes, n) = codes
  <2>1. keys(n) = DOMAIN codes
    <3> HIDE DEF n
    <3> QED  BY <1>1
  <2>2. codes = [c \in DOMAIN codes |-> codes[c]]
    BY DEF CodesFit
  <2> QED  BY <2>1, <2>2 DEF FirstCodes
<1>4. ASSUME NEW k \in 0 .. (n - 1)
      PROVE  LET key == Keys(codes)[k + 1]
                 known == FirstCodes(codes, k)
             IN FirstCodes(codes, k + 1)
                  = [c \in DOMAIN known \union {key} |->
                       IF c = key THEN codes[key] ELSE known[c]]
  <2> DEFINE key == Keys(codes)[k + 1]
             known == FirstCodes(codes, k)
  <2>1. keys(k + 1) = keys(k) \union {key}
    <3>1. k \in Nat
      BY <1>1
    <3>2. \A i : i \in 1 .. (k + 1) <=> i \in 1 .. k \/ i = k + 1
      BY <3>1
    <3> QED  BY <3>2
  <2>2. DOMAIN known = keys(k) /\ \A c \in keys(k) : known[c] = codes[c]
    BY DEF FirstCodes
  <2>3. FirstCodes(codes, k + 1) = [c \in keys(k) \union {key} |-> codes[c]]
    BY <2>1 DEF FirstCodes
  <2> HIDE DEF keys, key, known
  <2>4. FirstCodes(codes, k + 1)
          = [c \in keys(k) \union {key} |-> IF c = key THEN codes[key] ELSE known[c]]
    BY <2>2, <2>3
  <2> QED  BY <2>2, <2>4 DEF key, known
<1> QED  BY <1>2, <1>3, <1>4

\* An entry of the compressor's header is read as it was written, unless the
\* file ends before.
LEMMA EntryIsRead ==
  ASSUME IInv, TextFits(input), Intact, NEW k \in 0 .. (Count(input.codes) - 1),
         pos = Len(HeaderUpTo(input.codes, k))
  PROVE  LET c == Keys(input.codes)[k + 1]
             code == input.codes[c]
             size == BytesFor(CodeLengthAt)
         IN /\ EntryComplete =>
                 /\ CodepointAt = c
                 /\ UnpackBits(BytesAt(pos + CodeOffset, size), CodeLengthAt) = code
                 /\ pos + CodeOffset + size = Len(HeaderUpTo(input.codes, k + 1))
            /\ ~ EntryComplete => ~ IsPrefix(input.compressed, input.stream)
<1> DEFINE codes == input.codes
           whole == input.compressed
           c == Keys(codes)[k + 1]
           code == codes[c]
           e1 == WriteBe(c, CodepointBytes)
           e2 == WriteBe(Len(code), LengthBytes)
           e3 == PackBits(code)
           at2 == pos + CodepointBytes
           at3 == pos + CodeOffset
<1>1. /\ input \in Inputs /\ CodesFit(codes) /\ pos \in Nat /\ whole \in Seq(Byte)
      /\ Len(input.stream) \in Nat
  <2>1. input \in Inputs /\ pos \in Nat /\ input.stream \in Seq(Byte)
    BY InputsAssumption DEF IInv
  <2> QED  BY <2>1, FileProperties, LenProperties DEF TextFits
<1>2. k \in 0 .. Count(codes) /\ k + 1 \in 1 .. Count(codes) /\ Count(codes) \in Nat
  <2>1. Count(codes) \in Nat
    BY <1>1, KeysProperties
  <2> QED  BY <2>1
<1>3. c \in DOMAIN codes
  BY <1>1, <1>2, KeysProperties
<1>4. /\ code \in Seq(Bit) /\ Len(code) \in Nat
      /\ HeaderEntry(c, code) = (e1 \o e2) \o e3
      /\ e1 \in Seq(Byte) /\ Len(e1) = CodepointBytes /\ ReadBe(e1) = c
      /\ e2 \in Seq(Byte) /\ Len(e2) = LengthBytes /\ ReadBe(e2) = Len(code)
      /\ e3 \in Seq(Byte) /\ Len(e3) = BytesFor(Len(code))
  BY <1>1, <1>3, EntryProperties
<1>5. EntryOf(codes, k + 1) = (e1 \o e2) \o e3
  BY <1>4 DEF EntryOf
<1>6. StandsAt(whole, pos, EntryOf(codes, k + 1))
  BY HeaderFields
<1>7. UnpackBits(e3, Len(code)) = code
  BY <1>4, UnpackPacked
<1>8. /\ HeaderUpTo(codes, k) \in Seq(Byte)
      /\ HeaderUpTo(codes, k + 1) = HeaderUpTo(codes, k) \o EntryOf(codes, k + 1)
  BY <1>1, <1>2, HeaderUpToProperties
<1> DEFINE e12 == e1 \o e2
<1> HIDE DEF e1, e2, e3, c, code, codes, whole
<1>9. e12 \in Seq(Byte) /\ Len(e12) = CodeOffset
  BY <1>4, ConcatProperties DEF CodeOffset
<1>10. CodeOffset \in Nat /\ CodepointBytes \in Nat /\ LengthBytes \in Nat
  BY WidthsType DEF CodeOffset
<1>11. /\ StandsAt(whole, pos, e1) /\ StandsAt(whole, at2, e2)
       /\ StandsAt(whole, at3, e3)
  <2>1. StandsAt(whole, pos, e12) /\ StandsAt(whole, pos + Len(e12), e3)
    <3> HIDE DEF e12
    <3>1. EntryOf(codes, k + 1) = e12 \o e3
      BY <1>5 DEF e12
    <3> QED  BY <1>1, <1>4, <1>6, <1>9, <3>1, StandsInParts
  <2>2. StandsAt(whole, pos, e1) /\ StandsAt(whole, pos + Len(e1), e2)
    BY <1>1, <1>4, <2>1, StandsInParts
  <2> HIDE DEF e12
  <2> QED  BY <1>4, <1>9, <2>1, <2>2
<1>12. Len(HeaderUpTo(codes, k + 1)) = at3 + BytesFor(Len(code))
  <2> DEFINE a == HeaderUpTo(codes, k)
             e == e12 \o e3
  <2>1. e \in Seq(Byte) /\ Len(e) = CodeOffset + BytesFor(Len(code))
    <3> HIDE DEF e12
    <3> QED  BY <1>4, <1>9, ConcatProperties
  <2>2. HeaderUpTo(codes, k + 1) = a \o e /\ a \in Seq(Byte) /\ Len(a) = pos
    BY <1>5, <1>8 DEF codes
  <2> HIDE DEF e, a
  <2>3. Len(a \o e) = Len(a) + Len(e)
    BY <2>1, <2>2, ConcatProperties
  <2>4. BytesFor(Len(code)) \in Nat
    BY <1>4, BytesForProperties
  <2> QED  BY <1>1, <1>10, <2>1, <2>2, <2>3, <2>4
<1>13. IF pos + CodepointBytes <= Len(input.stream)
         THEN BytesAt(pos, CodepointBytes) = e1
         ELSE ~ IsPrefix(whole, input.stream)
  BY <1>1, <1>4, <1>11, ReadsField DEF whole
<1>14. at2 \in Nat /\ at3 \in Nat /\ at2 + LengthBytes = at3
  BY <1>1, <1>10 DEF CodeOffset
<1> HIDE DEF at2, at3
<1>15. IF at3 <= Len(input.stream)
         THEN BytesAt(at2, LengthBytes) = e2
         ELSE ~ IsPrefix(whole, input.stream)
  BY <1>1, <1>4, <1>11, <1>14, ReadsField DEF whole
<1>16. IF at3 + BytesFor(Len(code)) <= Len(input.stream)
         THEN BytesAt(at3, BytesFor(Len(code))) = e3
         ELSE ~ IsPrefix(whole, input.stream)
  BY <1>1, <1>4, <1>11, <1>14, ReadsField DEF whole
<1>17. CASE ~ (at3 <= Len(input.stream))
  <2>1. ~ EntryComplete
    BY <1>17 DEF EntryComplete, CanRead, at3
  <2> QED  BY <1>15, <1>17, <2>1 DEF whole
<1>18. CASE at3 <= Len(input.stream)
  <2>1. pos + CodepointBytes <= Len(input.stream)
    BY <1>1, <1>10, <1>14, <1>18 DEF at2
  <2>2. CodepointAt = c /\ CodeLengthAt = Len(code)
    BY <1>4, <1>13, <1>15, <1>18, <2>1 DEF CodepointAt, CodeLengthAt, at2
  <2>3. EntryComplete <=> at3 + BytesFor(Len(code)) <= Len(input.stream)
    <3>1. pos + (CodeOffset + BytesFor(Len(code))) = at3 + BytesFor(Len(code))
      <4> DEFINE size == BytesFor(Len(code))
      <4>1. size \in Nat
        BY <1>4, BytesForProperties
      <4> HIDE DEF size
      <4> QED  BY <1>1, <1>10, <4>1 DEF at3, size
    <3> QED  BY <1>18, <2>2, <3>1 DEF EntryComplete, CanRead, at3
  <2>4. at3 = pos + CodeOffset
    BY DEF at3
  <2> QED  BY <1>7, <1>12, <1>16, <2>2, <2>3, <2>4 DEF c, code, codes, whole
<1> QED  BY <1>17, <1>18

-----------------------------------------------------------------------------
(* The walk of the trie, on the bits of a text.                            *)

\* The nodes of the trie are the root and the beginnings of the codes.
LEMMA NodeBeginsCode ==
  ASSUME NEW codes, CodesFit(codes), NEW n \in DOMAIN BuildDecodeTrie(codes)
  PROVE  /\ n \in Seq(Bit)
         /\ \/ n = <<>>
            \/ \E d \in DOMAIN codes : codes[d] \in Seq(Bit) /\ IsPrefix(n, codes[d])
<1>1. n \in TrieNodes(codes) /\ n \in Seq(Bit)
  <2>1. CodesOK(codes)
    BY DEF CodesFit, CodesOK
  <2> QED  BY <2>1, TrieProperties DEF BuildDecodeTrie
<1>2. CASE n # <<>>
  <2>1. PICK d \in DOMAIN codes : n \in Prefixes(codes[d])
    BY <1>1, <1>2 DEF TrieNodes, Root
  <2> DEFINE s == codes[d]
  <2>2. s \in Seq(Bit)
    BY DEF CodesFit
  <2>3. PICK l \in 0 .. Len(s) : n = SubSeq(s, 1, l)
    BY <2>1 DEF Prefixes
  <2> HIDE DEF s
  <2>4. Len(s) \in Nat
    BY <2>2, LenProperties
  <2>5. 1 \in Int /\ l \in Int /\ \A i \in 1 .. l : s[i] \in Bit
    BY <2>2, <2>4, ElementOfSeq
  <2>6. /\ Len(n) = IF 1 <= l THEN l - 1 + 1 ELSE 0
        /\ \A i \in 1 .. (l - 1 + 1) : 1 <= l => n[i] = s[1 + i - 1]
    BY <2>3, <2>5, SubSeqProperties
  <2>7. Len(n) = l /\ l <= Len(s)
    BY <2>4, <2>6
  <2>8. ASSUME NEW i \in 1 .. Len(n) PROVE n[i] = s[i]
    BY <2>6, <2>7
  <2>9. IsPrefix(n, s)
    BY <1>1, <2>2, <2>7, <2>8, IsPrefixElements
  <2> QED  BY <1>1, <2>2, <2>9 DEF s
<1> QED  BY <1>1, <1>2

\* A node that is no leaf, on the way that the bits of a code take, comes
\* before the end of that code.
LEMMA NodeInsideCode ==
  ASSUME NEW codes, CodesFit(codes), NEW c \in DOMAIN codes,
         NEW n \in DOMAIN BuildDecodeTrie(codes),
         ~ BuildDecodeTrie(codes)[n].is_leaf,
         NEW bits \in Seq(Bit), NEW offset \in Nat,
         StandsAt(bits, offset, codes[c]), StandsAt(bits, offset, n)
  PROVE  Len(n) < Len(codes[c])
<1> DEFINE code == codes[c]
<1>1. /\ code \in Seq(Bit) /\ code # <<>>
      /\ \A d \in DOMAIN codes : IsPrefix(code, codes[d]) => d = c
  BY DEF CodesFit
<1>2. n \in Seq(Bit)
  BY NodeBeginsCode
<1>3. CodepointsAt(codes, n) = {}
  BY DEF BuildDecodeTrie
<1> SUFFICES ASSUME ~ (Len(n) < Len(code)) PROVE FALSE
  OBVIOUS
<1> HIDE DEF code
<1>4. Len(n) \in Nat /\ Len(code) \in Nat /\ Len(code) # 0
  BY <1>1, <1>2, LenProperties, EmptySeq
<1>5. Len(code) <= Len(n)
  BY <1>4
<1>6. IsPrefix(code, n) /\ (Len(code) = Len(n) => code = n)
  BY <1>1, <1>2, <1>5, StandsArePrefixes DEF code
<1>7. n # <<>>
  <2>1. Len(<<>>) = 0
    OBVIOUS
  <2> QED  BY <1>4, <1>5, <2>1
<1>8. PICK d \in DOMAIN codes : codes[d] \in Seq(Bit) /\ IsPrefix(n, codes[d])
  BY <1>7, NodeBeginsCode
<1>9. IsPrefix(code, codes[d])
  <2> DEFINE s == codes[d]
  <2>1. s \in Seq(Bit) /\ IsPrefix(n, s)
    BY <1>8
  <2> HIDE DEF s
  <2>2. IsPrefix(code, s)
    BY <1>1, <1>2, <1>6, <2>1, IsPrefixTransitive
  <2> QED  BY <2>2 DEF s
<1>10. IsPrefix(n, code)
  <2>1. codes[d] = code
    BY <1>1, <1>9 DEF code
  <2> QED  BY <1>8, <2>1
<1>11. code = n
  <2>1. Len(n) <= Len(code)
    BY <1>1, <1>2, <1>10, IsPrefixElements
  <2> QED  BY <1>4, <1>5, <1>6, <2>1
<1> QED  BY <1>3, <1>7, <1>11 DEF CodepointsAt, Root, code

\* The node behind n on the way that the bits take from the offset on.
NodeBehind(n, bits, offset) == Append(n, bits[offset + Len(n) + 1])

\* From there the next bit leads to another node, and to a leaf only at the end
\* of the code, of whose codepoint it is the leaf.
LEMMA NextNodeOfCode ==
  ASSUME NEW codes, CodesFit(codes), NEW c \in DOMAIN codes,
         NEW n \in DOMAIN BuildDecodeTrie(codes),
         ~ BuildDecodeTrie(codes)[n].is_leaf,
         NEW bits \in Seq(Bit), NEW offset \in Nat,
         StandsAt(bits, offset, codes[c]), StandsAt(bits, offset, n),
         NEW next, next = NodeBehind(n, bits, offset)
  PROVE  /\ next \in Seq(Bit) /\ Len(next) = Len(n) + 1
         /\ StandsAt(bits, offset, next)
         /\ next \in DOMAIN BuildDecodeTrie(codes)
         /\ BuildDecodeTrie(codes)[next].is_leaf =>
              next = codes[c] /\ BuildDecodeTrie(codes)[next].codepoint = c
<1> DEFINE code == codes[c]
           t == BuildDecodeTrie(codes)
<1>1. /\ code \in Seq(Bit)
      /\ \A d \in DOMAIN codes : IsPrefix(codes[d], code) => d = c
      /\ CodesOK(codes)
  BY DEF CodesFit, CodesOK
<1>2. n \in Seq(Bit) /\ Len(n) < Len(code)
  BY NodeBeginsCode, NodeInsideCode
<1>3. StandsAt(bits, offset, code) /\ StandsAt(bits, offset, n)
  OBVIOUS
<1>4. \A m \in DOMAIN t : t[m].is_leaf =>
        t[m].codepoint \in DOMAIN codes /\ codes[t[m].codepoint] = m
  BY <1>1, TrieProperties
<1>5. DOMAIN t = TrieNodes(codes)
  BY DEF BuildDecodeTrie
<1>6. Prefixes(code) \subseteq TrieNodes(codes)
  BY DEF TrieNodes
<1> HIDE DEF code, t
<1>7. Len(n) \in Nat /\ Len(code) \in Nat /\ Len(bits) \in Nat
  BY <1>1, <1>2, LenProperties
<1> DEFINE bit == bits[offset + Len(n) + 1]
<1>8. bit \in Bit
  <2> DEFINE k == offset + Len(n) + 1
  <2>1. k \in 1 .. Len(bits)
    BY <1>2, <1>3, <1>7 DEF StandsAt
  <2> HIDE DEF k
  <2>2. bits[k] \in Bit
    BY <2>1, ElementOfSeq
  <2> QED  BY <2>2 DEF k
<1>9. /\ next \in Seq(Bit) /\ Len(next) = Len(n) + 1
      /\ \A j \in 1 .. Len(n) : next[j] = n[j]
      /\ next[Len(n) + 1] = bit
  <2> HIDE DEF bit
  <2>1. next = Append(n, bit)
    BY DEF bit, NodeBehind
  <2> QED  BY <1>2, <1>8, <2>1, AppendProperties
<1>10. StandsAt(bits, offset, next)
  <2>1. offset + Len(next) <= Len(bits)
    BY <1>2, <1>3, <1>7, <1>9 DEF StandsAt
  <2>2. ASSUME NEW j \in 1 .. Len(next) PROVE bits[offset + j] = next[j]
    <3>1. CASE j = Len(n) + 1
      <4>1. offset + j = offset + Len(n) + 1
        BY <1>7, <3>1
      <4> QED  BY <1>9, <3>1, <4>1
    <3>2. CASE j # Len(n) + 1
      <4>1. j \in 1 .. Len(n)
        BY <1>7, <1>9, <3>2
      <4> QED  BY <1>3, <1>9, <4>1 DEF StandsAt
    <3> QED  BY <3>1, <3>2
  <2> QED  BY <2>1, <2>2 DEF StandsAt
<1>11. Len(next) <= Len(code)
  BY <1>2, <1>7, <1>9
<1>12. IsPrefix(next, code)
  <2>1. code \in Seq(Bit) /\ next \in Seq(Bit)
    BY <1>1, <1>9
  <2>2. bits \in Seq(Bit) /\ offset \in Nat
    OBVIOUS
  <2> QED  BY ONLY <1>3, <1>10, <1>11, <2>1, <2>2, StandsArePrefixes
<1>13. next \in DOMAIN t
  <2>1. SubSeq(next, 1, Len(next)) = next
    BY <1>9, SubSeqFull
  <2>2. next = SubSeq(code, 1, Len(next))
    BY <1>12, <2>1 DEF IsPrefix
  <2>3. Len(next) \in 0 .. Len(code)
    BY <1>7, <1>9, <1>11
  <2>4. next \in Prefixes(code)
    BY <2>2, <2>3 DEF Prefixes
  <2> QED  BY <1>5, <1>6, <2>4
<1>14. t[next].is_leaf => next = code /\ t[next].codepoint = c
  <2> SUFFICES ASSUME t[next].is_leaf
               PROVE  next = code /\ t[next].codepoint = c
    OBVIOUS
  <2>1. t[next].codepoint \in DOMAIN codes /\ codes[t[next].codepoint] = next
    BY <1>4, <1>13
  <2>2. t[next].codepoint = c
    BY <1>1, <1>12, <2>1
  <2> QED  BY <2>1, <2>2 DEF code
<1> QED  BY <1>9, <1>10, <1>13, <1>14 DEF code, t

-----------------------------------------------------------------------------
(* The text, one codepoint after the other.                                *)

\* The beginnings of a sequence.
LEMMA Beginnings ==
  ASSUME NEW S, NEW s \in Seq(S)
  PROVE  /\ SubSeq(s, 1, 0) = <<>> /\ SubSeq(s, 1, Len(s)) = s
         /\ \A k \in 0 .. Len(s) : SubSeq(s, 1, k) \in Seq(S)
         /\ \A k \in 0 .. (Len(s) - 1) :
              SubSeq(s, 1, k + 1) = Append(SubSeq(s, 1, k), s[k + 1])
<1>1. Len(s) \in Nat /\ \A i \in 1 .. Len(s) : s[i] \in S
  BY LenProperties, ElementOfSeq
<1>2. ASSUME NEW k \in 0 .. Len(s)
      PROVE  /\ SubSeq(s, 1, k) \in Seq(S) /\ Len(SubSeq(s, 1, k)) = k
             /\ \A i \in 1 .. k : SubSeq(s, 1, k)[i] = s[i]
  <2>1. 1 \in Int /\ k \in Int /\ \A i \in 1 .. k : s[i] \in S
    BY <1>1
  <2> DEFINE t == SubSeq(s, 1, k)
  <2>2. /\ t \in Seq(S) /\ Len(t) = IF 1 <= k THEN k - 1 + 1 ELSE 0
        /\ \A i \in 1 .. (k - 1 + 1) : 1 <= k => t[i] = s[1 + i - 1]
    BY <2>1, SubSeqProperties
  <2> HIDE DEF t
  <2>3. t \in Seq(S) /\ Len(t) = k /\ \A i \in 1 .. k : t[i] = s[i]
    BY <1>1, <2>2
  <2> QED  BY <2>3 DEF t
<1>3. SubSeq(s, 1, 0) = <<>>
  <2>1. 0 \in 0 .. Len(s)
    BY <1>1
  <2> QED  BY <1>2, <2>1, EmptySeq
<1>4. ASSUME NEW k \in 0 .. (Len(s) - 1)
      PROVE  SubSeq(s, 1, k + 1) = Append(SubSeq(s, 1, k), s[k + 1])
  <2> DEFINE t == SubSeq(s, 1, k)
             u == SubSeq(s, 1, k + 1)
             e == s[k + 1]
             v == Append(t, e)
  <2>1. k \in 0 .. Len(s) /\ k + 1 \in 0 .. Len(s) /\ k + 1 \in 1 .. Len(s) /\ k \in Nat
    BY <1>1
  <2>2. /\ t \in Seq(S) /\ Len(t) = k /\ \A i \in 1 .. k : t[i] = s[i]
        /\ u \in Seq(S) /\ Len(u) = k + 1 /\ \A i \in 1 .. (k + 1) : u[i] = s[i]
    BY <1>2, <2>1
  <2>3. e \in S
    BY <1>1, <2>1
  <2> HIDE DEF t, u
  <2>4. /\ v \in Seq(S) /\ Len(v) = k + 1 /\ v[k + 1] = e
        /\ \A i \in 1 .. k : v[i] = t[i]
    <3> HIDE DEF e
    <3> QED  BY <2>2, <2>3, AppendProperties
  <2> HIDE DEF v
  <2>5. ASSUME NEW i \in 1 .. Len(u) PROVE u[i] = v[i]
    <3>1. CASE i = k + 1
      BY <2>2, <2>4, <3>1
    <3>2. CASE i # k + 1
      <4>1. i \in 1 .. k
        BY <2>1, <2>2, <3>2
      <4>2. i \in 1 .. (k + 1)
        BY <2>2
      <4> QED  BY <2>2, <2>4, <4>1, <4>2
    <3> QED  BY <3>1, <3>2
  <2>6. u = v
    BY <2>2, <2>4, <2>5, SeqEqual
  <2> QED  BY <2>6 DEF u, v, t
<1> QED  BY <1>2, <1>3, <1>4, SubSeqFull

\* The UTF-8 form of a text grows with every codepoint by the form of that.
LEMMA Utf8TextAppend ==
  ASSUME NEW text \in Seq(DOMAIN Utf8Length), NEW c \in DOMAIN Utf8Length,
         NEW longer, longer = Append(text, c)
  PROVE  /\ Utf8Text(<<>>) = <<>>
         /\ Utf8Text(text) \in Seq(FileByte)
         /\ Utf8Text(longer) = Utf8Text(text) \o Utf8(c)
<1> DEFINE S == DOMAIN Utf8Length
           R == Seq(FileByte)
           f == [x \in S |-> Utf8(x)]
<1>1. f \in [S -> R] /\ f[c] = Utf8(c)
  BY Utf8Type
<1>2. /\ longer \in Seq(S)
      /\ \A i \in DOMAIN text : text[i] \in S
      /\ \A i \in DOMAIN longer : longer[i] \in S
  <2>1. longer \in Seq(S)
    BY AppendProperties
  <2> HIDE DEF S
  <2>2. text \in Seq(S)
    BY DEF S
  <2> QED  BY <2>1, <2>2, LenProperties, ElementOfSeq
<1>3. Utf8Text(text) = FlattenSeq(Mapped(f, text))
  BY <1>2 DEF Utf8Text, Mapped
<1>4. Utf8Text(longer) = FlattenSeq(Mapped(f, longer))
  BY <1>2 DEF Utf8Text, Mapped
<1>5. Utf8Text(<<>>) = <<>>
  BY FlattenSeqEmpty DEF Utf8Text
<1>6. text \in Seq(S) /\ c \in S /\ longer = Append(text, c)
  OBVIOUS
<1> HIDE DEF f, S, R
<1>7. Mapped(f, text) \in Seq(R)
  BY <1>1, <1>6, MapType
<1>8. Mapped(f, longer) = Append(Mapped(f, text), f[c])
  <2>1. f \in [S -> R]
    BY <1>1
  <2> QED  BY ONLY <1>6, <2>1, MapAppend
<1> DEFINE parts == Mapped(f, text)
           u == f[c]
<1>9. parts \in Seq(Seq(FileByte)) /\ u \in Seq(FileByte)
  <2>1. u \in R
    BY <1>1, <1>6
  <2> QED  BY <1>7, <2>1 DEF R
<1> HIDE DEF parts, u
<1>10. FlattenSeq(parts) \in Seq(FileByte)
  BY <1>9, FlattenSeqType
<1>11. FlattenSeq(Append(parts, u)) = FlattenSeq(parts) \o u
  BY <1>9, FlattenSeqAppend
<1> QED  BY <1>1, <1>3, <1>4, <1>5, <1>8, <1>10, <1>11 DEF parts, u

\* The codes of the first k codepoints of the text, and their UTF-8 form.
DoneBits(i, k) == EncodedBits(SubSeq(i.text, 1, k), i.codes)
DoneBytes(i, k) == Utf8Text(SubSeq(i.text, 1, k))

\* The payload is made of the codes of the codepoints, one behind the other.
LEMMA DoneBitsProperties ==
  ASSUME NEW i, TextFits(i)
  PROVE  LET bits == EncodedBits(i.text, i.codes)
             n == Len(i.text)
         IN /\ n \in Nat /\ DoneBits(i, 0) = <<>> /\ DoneBits(i, n) = bits
            /\ \A k \in 0 .. n :
                 DoneBits(i, k) \in Seq(Bit) /\ Len(DoneBits(i, k)) <= Len(bits)
            /\ \A k \in 0 .. (n - 1) :
                 LET code == i.codes[i.text[k + 1]]
                 IN /\ i.text[k + 1] \in DOMAIN i.codes
                    /\ Len(DoneBits(i, k + 1)) = Len(DoneBits(i, k)) + Len(code)
                    /\ StandsAt(bits, Len(DoneBits(i, k)), code)
<1> DEFINE codes == i.codes
           text == i.text
           n == Len(text)
           S == DOMAIN codes
           bits == EncodedBits(text, codes)
           done(k) == EncodedBits(SubSeq(text, 1, k), codes)
<1>1. text \in Seq(S) /\ \A c \in S : codes[c] \in Seq(Bit) /\ codes[c] # <<>>
  BY DEF TextFits, CodesFit
<1>2. bits \in Seq(Bit)
  BY FileProperties
<1> HIDE DEF text, codes
<1>3. n \in Nat /\ \A k \in 1 .. n : text[k] \in S
  BY <1>1, LenProperties, ElementOfSeq
<1>4. /\ SubSeq(text, 1, 0) = <<>> /\ SubSeq(text, 1, n) = text
      /\ \A k \in 0 .. n : SubSeq(text, 1, k) \in Seq(S)
      /\ \A k \in 0 .. (n - 1) :
           SubSeq(text, 1, k + 1) = Append(SubSeq(text, 1, k), text[k + 1])
  <2> HIDE DEF S
  <2> QED  BY <1>1, Beginnings
<1>5. done(0) = <<>> /\ done(n) = bits
  <2>1. EncodedBits(<<>>, codes) = <<>>
    BY FlattenSeqEmpty DEF EncodedBits
  <2> QED  BY <1>4, <2>1
<1> HIDE DEF n
<1>6. ASSUME NEW k \in 0 .. (n - 1)
      PROVE  /\ done(k) \in Seq(Bit) /\ done(k + 1) = done(k) \o codes[text[k + 1]]
             /\ text[k + 1] \in S /\ codes[text[k + 1]] \in Seq(Bit)
  <2> DEFINE t == SubSeq(text, 1, k)
             c == text[k + 1]
  <2>1. k \in 0 .. n /\ k + 1 \in 1 .. n
    BY <1>3
  <2>2. t \in Seq(S) /\ c \in S /\ SubSeq(text, 1, k + 1) = Append(t, c)
    BY <1>3, <1>4, <2>1
  <2> HIDE DEF t, c
  <2>3. /\ EncodedBits(t, codes) \in Seq(Bit)
        /\ EncodedBits(Append(t, c), codes) = EncodedBits(t, codes) \o codes[c]
    BY <1>1, <2>2, EncodedBitsProperties
  <2> QED  BY <1>1, <2>2, <2>3 DEF t, c
<1>7. ASSUME NEW k \in 0 .. n PROVE done(k) \in Seq(Bit)
  <2>1. CASE k = n
    BY <1>2, <1>5, <2>1
  <2>2. CASE k # n
    <3>1. k \in 0 .. (n - 1)
      BY <1>3, <2>2
    <3> QED  BY <1>6, <3>1
  <2> QED  BY <2>1, <2>2
<1> HIDE DEF done, S
<1> DEFINE f == [k \in 0 .. n |-> done(k)]
           g == [k \in 0 .. (n - 1) |-> codes[text[k + 1]]]
<1>8. f \in [0 .. n -> Seq(Bit)] /\ g \in [0 .. (n - 1) -> Seq(Bit)]
  BY <1>6, <1>7
<1>9. /\ f[n] = bits
      /\ \A k \in 0 .. (n - 1) : f[k + 1] = f[k] \o g[k]
  <2>1. f[n] = done(n)
    BY <1>3
  <2>2. ASSUME NEW k \in 0 .. (n - 1) PROVE f[k + 1] = f[k] \o g[k]
    <3>1. k \in 0 .. n /\ k + 1 \in 0 .. n
      BY <1>3
    <3> QED  BY <1>6, <3>1
  <2> QED  BY <1>5, <2>1, <2>2
<1>10. /\ \A k \in 0 .. n : f[k] = done(k)
       /\ \A k \in 0 .. (n - 1) : f[k] = done(k) /\ g[k] = codes[text[k + 1]]
  BY <1>3
<1> HIDE DEF f, g, bits
<1>11. StandsAt(bits, 0, bits)
  BY <1>2, LenProperties DEF StandsAt
<1>12. /\ \A k \in 0 .. n : StandsAt(bits, 0, f[k])
       /\ \A k \in 0 .. (n - 1) : StandsAt(bits, Len(f[k]), g[k])
  BY <1>2, <1>3, <1>8, <1>9, <1>11, StandsInChain
<1>13. ASSUME NEW k \in 0 .. n PROVE Len(done(k)) <= Len(bits)
  <2>1. StandsAt(bits, 0, done(k)) /\ Len(done(k)) \in Nat
    BY <1>7, <1>10, <1>12, LenProperties
  <2> QED  BY <2>1 DEF StandsAt
<1>14. ASSUME NEW k \in 0 .. (n - 1)
       PROVE  Len(done(k + 1)) = Len(done(k)) + Len(codes[text[k + 1]])
  <2> DEFINE a == done(k)
             e == codes[text[k + 1]]
  <2>1. a \in Seq(Bit) /\ e \in Seq(Bit) /\ done(k + 1) = a \o e
    BY <1>6
  <2> HIDE DEF a, e
  <2>2. Len(done(k + 1)) = Len(a) + Len(e)
    BY <2>1, ConcatProperties
  <2> QED  BY <2>2 DEF a, e
<1> QED  BY <1>3, <1>5, <1>6, <1>7, <1>10, <1>12, <1>13, <1>14
         DEF DoneBits, codes, text, n, S, bits, done

\* The bytes of the text are those of its codepoints, one behind the other.
LEMMA DoneBytesProperties ==
  ASSUME NEW i, TextFits(i)
  PROVE  LET n == Len(i.text)
         IN /\ DoneBytes(i, 0) = <<>> /\ DoneBytes(i, n) = Utf8Text(i.text)
            /\ \A k \in 0 .. n : /\ DoneBytes(i, k) \in Seq(FileByte)
                                 /\ StandsAt(Utf8Text(i.text), 0, DoneBytes(i, k))
            /\ \A k \in 0 .. (n - 1) :
                 DoneBytes(i, k + 1) = DoneBytes(i, k) \o Utf8(i.text[k + 1])
<1> DEFINE text == i.text
           n == Len(text)
           S == DOMAIN Utf8Length
           bytes(k) == Utf8Text(SubSeq(text, 1, k))
           all == Utf8Text(text)
<1>1. text \in Seq(DOMAIN i.codes) /\ DOMAIN i.codes \subseteq S
  BY DEF TextFits, CodesFit
<1> HIDE DEF text
<1>2. n \in Nat /\ \A k \in 1 .. n : text[k] \in S
  <2>1. n \in Nat /\ \A k \in 1 .. n : text[k] \in DOMAIN i.codes
    BY <1>1, LenProperties, ElementOfSeq
  <2> QED  BY <1>1, <2>1
<1>3. text \in Seq(S)
  <2>1. text \in [1 .. n -> S]
    <3>1. text = [k \in 1 .. n |-> text[k]]
      BY <1>1, LenProperties
    <3> QED  BY <1>2, <3>1
  <2> HIDE DEF S
  <2> QED  BY <1>2, <2>1, SeqDef
<1>4. /\ SubSeq(text, 1, 0) = <<>> /\ SubSeq(text, 1, n) = text
      /\ \A k \in 0 .. n : SubSeq(text, 1, k) \in Seq(S)
      /\ \A k \in 0 .. (n - 1) :
           SubSeq(text, 1, k + 1) = Append(SubSeq(text, 1, k), text[k + 1])
  <2> HIDE DEF S
  <2> QED  BY <1>3, Beginnings
<1>5. bytes(0) = <<>> /\ bytes(n) = all
  <2>1. Utf8Text(<<>>) = <<>>
    BY FlattenSeqEmpty DEF Utf8Text
  <2> QED  BY <1>4, <2>1
<1> HIDE DEF n
<1>6. ASSUME NEW k \in 0 .. (n - 1)
      PROVE  /\ bytes(k) \in Seq(FileByte)
             /\ bytes(k + 1) = bytes(k) \o Utf8(text[k + 1])
             /\ bytes(k + 1) \in Seq(FileByte) /\ Utf8(text[k + 1]) \in Seq(FileByte)
  <2> DEFINE t == SubSeq(text, 1, k)
             u == SubSeq(text, 1, k + 1)
             c == text[k + 1]
  <2>1. k \in 0 .. n /\ k + 1 \in 1 .. n
    BY <1>2
  <2>2. t \in Seq(S) /\ c \in S /\ u = Append(t, c)
    BY <1>2, <1>4, <2>1
  <2> HIDE DEF t, u, c
  <2>3. Utf8Text(t) \in Seq(FileByte) /\ Utf8Text(u) = Utf8Text(t) \o Utf8(c)
    BY <2>2, Utf8TextAppend
  <2>4. Utf8(c) \in Seq(FileByte)
    BY <2>2, Utf8Type
  <2>5. Utf8Text(t) \o Utf8(c) \in Seq(FileByte)
    BY <2>3, <2>4, ConcatProperties
  <2> QED  BY <2>3, <2>4, <2>5 DEF t, u, c
<1>7. ASSUME NEW k \in 0 .. n PROVE bytes(k) \in Seq(FileByte)
  <2>1. CASE k = n
    <3>1. CASE n = 0
      BY <1>5, <2>1, <3>1, EmptySeq
    <3>2. CASE n # 0
      <4> DEFINE m == n - 1
      <4>1. m \in 0 .. (n - 1) /\ m + 1 = n
        BY <1>2, <3>2
      <4> HIDE DEF m
      <4>2. bytes(m + 1) \in Seq(FileByte)
        BY <1>6, <4>1
      <4> QED  BY <2>1, <4>1, <4>2
    <3> QED  BY <3>1, <3>2
  <2>2. CASE k # n
    <3>1. k \in 0 .. (n - 1)
      BY <1>2, <2>2
    <3> QED  BY <1>6, <3>1
  <2> QED  BY <2>1, <2>2
<1>8. all \in Seq(FileByte)
  <2>1. n \in 0 .. n
    BY <1>2
  <2> QED  BY <1>5, <1>7, <2>1
<1> HIDE DEF bytes, S
<1> DEFINE f == [k \in 0 .. n |-> bytes(k)]
           g == [k \in 0 .. (n - 1) |-> Utf8(text[k + 1])]
<1>9. f \in [0 .. n -> Seq(FileByte)] /\ g \in [0 .. (n - 1) -> Seq(FileByte)]
  BY <1>6, <1>7
<1>10. /\ f[n] = all
       /\ \A k \in 0 .. (n - 1) : f[k + 1] = f[k] \o g[k]
  <2>1. f[n] = bytes(n)
    BY <1>2
  <2>2. ASSUME NEW k \in 0 .. (n - 1) PROVE f[k + 1] = f[k] \o g[k]
    <3>1. k \in 0 .. n /\ k + 1 \in 0 .. n
      BY <1>2
    <3> QED  BY <1>6, <3>1
  <2> QED  BY <1>5, <2>1, <2>2
<1>11. \A k \in 0 .. n : f[k] = bytes(k)
  OBVIOUS
<1> HIDE DEF f, g, all
<1>12. StandsAt(all, 0, all)
  BY <1>8, LenProperties DEF StandsAt
<1>13. \A k \in 0 .. n : StandsAt(all, 0, f[k])
  BY <1>2, <1>8, <1>9, <1>10, <1>12, StandsInChain
<1> QED  BY <1>5, <1>6, <1>7, <1>11, <1>13 DEF DoneBytes, text, n, bytes, all

-----------------------------------------------------------------------------
(* The inductive invariant: what has been read of an intact file is what   *)
(* the compressor wrote.                                                   *)

Bits == EncodedBits(input.text, input.codes)

Payload == PackBits(Bits)

\* Where the payload starts.
Base == Len(Header(input.codes)) + TotalBytes

\* So much of the header has been read, and so many codes are known.
HeaderMatches ==
  \E k \in 0 .. Count(input.codes) :
    /\ entries = Count(input.codes) - k
    /\ pos = Len(HeaderUpTo(input.codes, k))
    /\ prefixes = FirstCodes(input.codes, k)

\* The buffer of a reader holds the bytes of the payload up to an offset in the
\* file, and bits_read tells which of its bits the cursor is at.
BufferMatches(r, p) ==
  LET n == Len(r.buffer)
      used == p - Base - n
  IN /\ used \in Nat
     /\ used + n <= Len(Payload)
     /\ r.bits_read = used * ByteBits + r.cursor
     /\ \A j \in 1 .. n : r.buffer[j] = Payload[used + j]

MatchInv ==
  Intact =>
    /\ pc \in {"open", "count"} => pos = 0 /\ prefixes = <<>>
    /\ pc = "entry" => HeaderMatches
    /\ pc = "total" => pos = Len(Header(input.codes)) /\ prefixes = input.codes
    /\ pc = "decode" => /\ prefixes = input.codes
                        /\ reader.total_bits = Len(Bits)
                        /\ BufferMatches(reader, pos)

\* The bytes of the first k codepoints have been written or wait in out_buf,
\* unless the disk is full, and the way to the current node are the bits behind
\* their codes.
DecodedUpTo(k) ==
  LET done == DoneBits(input, k)
  IN /\ Len(file) < input.capacity \/ HasRoom(input) =>
          file \o out_buf = DoneBytes(input, k)
     /\ Len(done) + Len(node) = reader.bits_read
     /\ StandsAt(Bits, Len(done), node)

TextInv ==
  pc = "decode" /\ Intact => \E k \in 0 .. Len(input.text) : DecodedUpTo(k)

\* The files that the call has got past could be opened, and what has been
\* written fits on the disk.
FilesInv ==
  /\ pc \in {"count", "entry", "total", "decode"} => input.opens
  /\ pc \in {"total", "decode"} => input.creates
  /\ Len(file) <= input.capacity

RInv == IInv /\ MatchInv /\ TextInv /\ FilesInv

-----------------------------------------------------------------------------
(* Reading the payload.                                                    *)

\* The types of what the invariant is about.
LEMMA PayloadTypes ==
  ASSUME input \in Inputs, TextFits(input)
  PROVE  /\ Bits \in Seq(Bit) /\ Len(Bits) \in Nat
         /\ Len(Bits) <= SizeRange - ByteBits /\ SizeRange \in Nat
         /\ Payload \in Seq(Byte) /\ Len(Payload) \in Nat
         /\ Len(Payload) = BytesFor(Len(Bits))
         /\ Base \in Nat /\ Len(Header(input.codes)) \in Nat
         /\ input.compressed \in Seq(Byte)
         /\ Len(input.compressed) = Base + Len(Payload)
         /\ StandsAt(input.compressed, Base, Payload)
         /\ input.stream \in Seq(Byte) /\ Len(input.stream) \in Nat
<1> DEFINE head == Header(input.codes)
<1>1. /\ Bits \in Seq(Bit) /\ Len(Bits) \in Nat
      /\ Payload \in Seq(Byte) /\ Len(Payload) = BytesFor(Len(Bits))
      /\ Len(head) \in Nat
      /\ input.compressed \in Seq(Byte)
      /\ Len(input.compressed) = Len(head) + TotalBytes + Len(Payload)
      /\ StandsAt(input.compressed, Len(head) + TotalBytes, Payload)
  BY FileProperties DEF Bits, Payload
<1>2. Len(Bits) <= SizeRange - ByteBits
  BY DEF TextFits, Bits
<1>3. SizeRange \in Nat /\ TotalBytes \in Nat
  BY WidthsType, FieldRangeType DEF SizeRange
<1>4. input.stream \in Seq(Byte)
  BY InputsAssumption
<1>5. Len(input.stream) \in Nat /\ Len(Payload) \in Nat
  <2>1. Len(input.stream) \in Nat
    BY <1>4, LenProperties
  <2> QED  BY <1>1, <2>1, LenProperties
<1>6. Base = Len(head) + TotalBytes
  BY DEF Base
<1> HIDE DEF head
<1>7. Base \in Nat
  BY <1>1, <1>3, <1>6
<1> QED  BY <1>1, <1>2, <1>3, <1>4, <1>5, <1>6, <1>7 DEF head

\* The smaller of two numbers.
LEMMA MinOfTwo ==
  ASSUME NEW m \in Nat, NEW n \in Nat
  PROVE  /\ Min({m, n}) \in Nat /\ Min({m, n}) <= m /\ Min({m, n}) <= n
         /\ Min({m, n}) = m \/ Min({m, n}) = n
<1>1. CASE m <= n
  <2>1. \E x \in {m, n} : \A y \in {m, n} : x <= y
    BY <1>1
  <2> QED  BY <2>1 DEF Min
<1>2. CASE ~ (m <= n)
  <2>1. \E x \in {m, n} : \A y \in {m, n} : x <= y
    BY <1>2
  <2> QED  BY <2>1 DEF Min
<1> QED  BY <1>1, <1>2

\* refill never asks for more than the rest of the payload.
LEMMA RefillInPayload ==
  ASSUME input \in Inputs, TextFits(input), NEW r, ReaderOK(r), r.total_bits = Len(Bits),
         NEW q \in Nat, r.bits_read = q * ByteBits
  PROVE  BytesToRead(r) \in Nat /\ q + BytesToRead(r) <= Len(Payload)
<1> DEFINE t == Len(Bits)
           b == BytesFor(t)
           done == q * ByteBits
           remaining == t - done
           n == BytesToRead(r)
           need == BytesFor(remaining)
<1>1. t \in Nat /\ ByteBits \in Nat \ {0} /\ Len(Payload) = b
  BY PayloadTypes, WidthsType
<1>2. done \in Nat /\ done <= t /\ remaining = r.total_bits - r.bits_read
  <2>1. r.bits_read <= r.total_bits /\ r.bits_read \in Nat
    BY DEF ReaderOK, Reader
  <2> QED  BY <2>1
<1>3. b \in Nat /\ t <= b * ByteBits /\ b * ByteBits \in Nat
  <2> HIDE DEF t
  <2>1. b \in Nat /\ t <= b * ByteBits
    BY <1>1, BytesForProperties
  <2> HIDE DEF b
  <2> QED  BY <1>1, <2>1, ProductOrder
<1>4. n \in Nat /\ n <= need
  BY <1>2, BytesToReadType, BytesToReadBound
<1>5. q <= b
  <2> SUFFICES ASSUME ~ (q <= b) PROVE FALSE
    OBVIOUS
  <2> HIDE DEF t, b
  <2>1. b < q
    BY <1>3
  <2>2. b * ByteBits + ByteBits <= done
    BY <1>1, <1>3, <2>1, ProductOrder
  <2> HIDE DEF done
  <2> QED  BY <1>1, <1>2, <1>3, <2>2
<1>6. (b - q) * ByteBits = b * ByteBits - done /\ b - q \in Nat
  <2> HIDE DEF t, b
  <2>1. (b - q) * ByteBits = b * ByteBits - q * ByteBits
    BY <1>1, <1>3, ProductOrder
  <2> QED  BY <1>3, <1>5, <2>1
<1> HIDE DEF t, b, done
<1>7. remaining \in Nat /\ remaining <= b * ByteBits - done
  BY <1>1, <1>2, <1>3
<1>8. need \in Nat /\ need <= b - q
  <2> DEFINE k == b - q
  <2>1. k \in Nat /\ remaining <= k * ByteBits
    BY <1>6, <1>7
  <2> HIDE DEF remaining, k
  <2>2. need \in Nat /\ need <= k
    BY <1>7, <2>1, BytesForProperties
  <2> QED  BY <2>2 DEF k
<1> HIDE DEF n, need
<1>9. q + n <= b
  BY <1>3, <1>4, <1>5, <1>8
<1> QED  BY <1>1, <1>4, <1>9 DEF n

\* A refill brings the next bytes of the payload, unless the file ends before.
LEMMA RefillMatches ==
  ASSUME input \in Inputs, TextFits(input), Intact,
         NEW r, ReaderOK(r), r.total_bits = Len(Bits),
         NEW q \in Nat, r.bits_read = q * ByteBits
  PROVE  LET n == BytesToRead(r)
         IN IF Base + q + n <= Len(input.stream)
              THEN BufferMatches(Refill(r, Base + q), Base + q + n)
              ELSE ~ IsPrefix(input.compressed, input.stream)
<1> DEFINE n == BytesToRead(r)
           offset == Base + q
           s == input.stream
           c == input.compressed
           p == Payload
           r2 == Refill(r, offset)
<1>1. /\ p \in Seq(Byte) /\ Len(p) \in Nat /\ Base \in Nat
      /\ c \in Seq(Byte) /\ Len(c) = Base + Len(p)
      /\ s \in Seq(Byte) /\ Len(s) \in Nat
      /\ \A j \in 1 .. Len(p) : c[Base + j] = p[j]
  BY PayloadTypes DEF StandsAt
<1>2. n \in Nat /\ q + n <= Len(p)
  BY RefillInPayload
<1>3. /\ \A j \in 1 .. Len(s) : j <= Len(c) => s[j] = c[j]
      /\ Len(c) <= Len(s) <=> IsPrefix(c, s)
  BY <1>1, StreamAgrees
<1>4. offset \in Nat
  BY <1>1
<1>5. ASSUME offset + n <= Len(s)
      PROVE  /\ r2.bits_read = r.bits_read /\ r2.cursor = 0 /\ Len(r2.buffer) = n
             /\ \A j \in 1 .. n : r2.buffer[j] = s[offset + j]
  <2> HIDE DEF offset
  <2>1. r2.bits_read = r.bits_read /\ r2.cursor = 0 /\ Len(r2.buffer) = n
    BY <1>1, <1>4, <1>5, RefillProperties
  <2>2. r2.buffer = BytesAt(offset, n)
    <3>1. r \in Reader
      BY DEF ReaderOK
    <3> QED  BY <3>1 DEF Refill, Reader
  <2>3. \A j \in 1 .. n : BytesAt(offset, n)[j] = s[offset + j]
    BY <1>1, <1>2, <1>4, <1>5, BytesAtElements
  <2> QED  BY <2>1, <2>2, <2>3
<1> HIDE DEF n, s, c, p, r2
<1>6. CASE offset + n <= Len(s)
  <2>1. ASSUME NEW j \in 1 .. n PROVE r2.buffer[j] = p[q + j]
    <3> DEFINE k == q + j
    <3>1. k \in 1 .. Len(p) /\ Base + k = offset + j
      BY <1>1, <1>2
    <3>2. offset + j \in 1 .. Len(s) /\ offset + j <= Len(c)
      BY <1>1, <1>2, <1>6, <3>1
    <3> HIDE DEF k, offset
    <3>3. c[offset + j] = p[k]
      BY <1>1, <3>1
    <3>4. s[offset + j] = c[offset + j]
      BY <1>3, <3>2
    <3>5. r2.buffer[j] = s[offset + j]
      BY <1>5, <1>6
    <3> QED  BY <3>3, <3>4, <3>5 DEF k
  <2>2. (offset + n) - Base - n = q
    BY <1>1, <1>2
  <2>3. /\ r2.bits_read = q * ByteBits + r2.cursor /\ Len(r2.buffer) = n
    <3>1. q * ByteBits \in Nat
      BY WidthsType, ProductOrder
    <3> QED  BY <1>5, <1>6, <3>1
  <2>4. BufferMatches(r2, offset + n)
    <3> HIDE DEF offset
    <3> QED  BY <1>2, <2>1, <2>2, <2>3 DEF BufferMatches, p
  <2> QED  BY <1>6, <2>4 DEF n, s, r2
<1>7. CASE ~ (offset + n <= Len(s))
  <2>1. ~ (Len(c) <= Len(s))
    BY <1>1, <1>2, <1>7
  <2> QED  BY <1>3, <1>7, <2>1 DEF n, s, c
<1> QED  BY <1>6, <1>7 DEF n, s

\* What the decoder is reading, when the file is intact.
Reading ==
  /\ IInv
  /\ TextFits(input)
  /\ Intact
  /\ reader.total_bits = Len(Bits)
  /\ BufferMatches(reader, pos)

\* With a used-up buffer, as many bits have been read as are in the bytes read.
LEMMA BytesUsedUp ==
  ASSUME Reading, NeedsRefill
  PROVE  /\ pos - Base \in Nat /\ Base + (pos - Base) = pos
         /\ reader.bits_read = (pos - Base) * ByteBits
<1> DEFINE n == Len(reader.buffer)
           used == pos - Base - n
           q == pos - Base
<1>1. /\ used \in Nat
      /\ reader.bits_read = used * ByteBits + reader.cursor
  BY DEF Reading, BufferMatches
<1>2. /\ n \in Nat /\ pos \in Nat /\ Base \in Nat /\ reader.cursor \in Nat
      /\ reader.cursor <= n * ByteBits /\ reader.cursor >= n * ByteBits
  <2>1. input \in Inputs /\ TextFits(input)
    BY DEF Reading, IInv
  <2>2. reader.buffer \in Seq(Byte)
    BY DEF Reading, IInv, ReaderOK, Reader
  <2>3. n \in Nat
    BY <2>2, LenProperties
  <2> QED  BY <2>1, <2>3, PayloadTypes DEF Reading, IInv, ReaderOK, Reader, NeedsRefill
<1> HIDE DEF n
<1>3. q \in Nat /\ used + n = q /\ Base + q = pos
  BY <1>1, <1>2
<1>4. n * ByteBits \in Nat
  BY <1>2, WidthsType, ProductOrder
<1>5. reader.cursor = n * ByteBits
  BY <1>2, <1>4
<1> HIDE DEF used, q
<1>6. (used + n) * ByteBits = used * ByteBits + n * ByteBits
  BY <1>1, <1>2, WidthsType, ProductOrder
<1> QED  BY <1>1, <1>3, <1>5, <1>6 DEF q

\* So it stays after a refill.
LEMMA SuppliedMatches ==
  ASSUME Reading, Decoding
  PROVE  BufferMatches(Supplied, IF NeedsRefill THEN pos + BytesToRead(reader) ELSE pos)
<1>1. CASE NeedsRefill
  <2> DEFINE q == pos - Base
  <2>1. /\ q \in Nat /\ Base + q = pos /\ reader.bits_read = q * ByteBits
    BY <1>1, BytesUsedUp
  <2>2. /\ input \in Inputs /\ TextFits(input) /\ Intact /\ ReaderOK(reader)
        /\ reader.total_bits = Len(Bits)
    BY DEF Reading, IInv
  <2>3. pos + BytesToRead(reader) <= Len(input.stream)
    BY <1>1 DEF Decoding, CanRead
  <2> HIDE DEF q
  <2>4. BufferMatches(Refill(reader, pos), pos + BytesToRead(reader))
    BY <2>1, <2>2, <2>3, RefillMatches
  <2> QED  BY <1>1, <2>4 DEF Supplied
<1>2. CASE ~ NeedsRefill
  BY <1>2 DEF Supplied, Reading
<1> QED  BY <1>1, <1>2

\* The bit that is read is the next one of the text's.
LEMMA NextBitOfText ==
  ASSUME Reading, Decoding
  PROVE  /\ Fetched.bit = Bits[reader.bits_read + 1]
         /\ reader.bits_read < Len(Bits)
         /\ Fetched.reader.bits_read = reader.bits_read + 1
         /\ Fetched.reader.total_bits = Len(Bits)
         /\ BufferMatches(Fetched.reader,
                          IF NeedsRefill THEN pos + BytesToRead(reader) ELSE pos)
<1> DEFINE r == Supplied
           p == IF NeedsRefill THEN pos + BytesToRead(reader) ELSE pos
           n == Len(r.buffer)
           used == p - Base - n
           next == NextBit(r).reader
<1>1. IInv /\ input \in Inputs /\ TextFits(input) /\ reader.total_bits = Len(Bits)
  BY DEF Reading, IInv
<1>2. /\ Bits \in Seq(Bit) /\ Len(Bits) \in Nat
      /\ Len(Bits) <= SizeRange - ByteBits /\ SizeRange \in Nat
      /\ Payload \in Seq(Byte) /\ Len(Payload) = BytesFor(Len(Bits))
      /\ Len(Payload) \in Nat
  BY <1>1, PayloadTypes
<1>3. ~ TotalOverflows
  BY <1>1, <1>2, WidthsType DEF TotalOverflows
<1>4. r.buffer # <<>>
  BY <1>1, <1>3, SuppliedHasBits
<1>5. BufferMatches(r, p)
  BY SuppliedMatches
<1>6. /\ ReaderOK(r) /\ r.bits_read = reader.bits_read
      /\ r.total_bits = reader.total_bits /\ reader.bits_read < reader.total_bits
      /\ r.buffer # <<>> => r.cursor < n * ByteBits
  BY <1>1, SuppliedProperties
<1>7. Fetched = NextBit(r)
  BY DEF Fetched, Supplied
<1> HIDE DEF r, p
<1>8. /\ used \in Nat /\ used + n <= Len(Payload)
      /\ r.bits_read = used * ByteBits + r.cursor
      /\ \A j \in 1 .. n : r.buffer[j] = Payload[used + j]
  BY <1>5 DEF BufferMatches
<1>9. /\ NextBit(r).bit
           = r.buffer[1 + (r.cursor \div ByteBits)][1 + (r.cursor % ByteBits)]
      /\ next.buffer = r.buffer /\ next.total_bits = r.total_bits
      /\ next.bits_read = r.bits_read + 1 /\ next.cursor = r.cursor + 1
  BY <1>4, <1>6, NextBitProperties
<1>10. /\ r.cursor \in Nat /\ n \in Nat /\ r.bits_read \in Nat /\ ByteBits \in Nat \ {0}
  <2>1. r.cursor \in Nat /\ r.buffer \in Seq(Byte) /\ r.bits_read \in Nat
    BY <1>6 DEF ReaderOK, Reader
  <2> QED  BY <2>1, WidthsType, LenProperties
<1> HIDE DEF used, next
<1> DEFINE a == r.cursor \div ByteBits
           b == r.cursor % ByteBits
           i == r.bits_read + 1
<1>11. a \in 0 .. (n - 1) /\ b \in 0 .. (ByteBits - 1) /\ r.cursor = a * ByteBits + b
  <2>1. a \in Nat /\ b \in 0 .. (ByteBits - 1) /\ r.cursor = a * ByteBits + b
    BY <1>10, DivisionProperties
  <2>2. ~ (n <= a)
    <3> SUFFICES ASSUME n <= a PROVE FALSE
      OBVIOUS
    <3> HIDE DEF a, b, n
    <3>1. n * ByteBits <= a * ByteBits /\ a * ByteBits \in Nat /\ n * ByteBits \in Nat
      BY <1>10, <2>1, ProductOrder
    <3> QED  BY <1>4, <1>6, <1>10, <2>1, <3>1 DEF n
  <2> HIDE DEF a, b, n
  <2> QED  BY <1>10, <2>1, <2>2
<1>12. (i - 1) \div ByteBits = used + a /\ (i - 1) % ByteBits = b
  <2> HIDE DEF a, b, n
  <2> DEFINE k == used + a
  <2>1. k \in Nat /\ a \in Nat
    BY <1>8, <1>10, <1>11
  <2>2. k * ByteBits = used * ByteBits + a * ByteBits
    BY <1>8, <1>10, <2>1, ProductOrder
  <2>3. used * ByteBits \in Nat /\ a * ByteBits \in Nat
    BY <1>8, <1>10, <2>1, ProductOrder
  <2> HIDE DEF k
  <2>4. i - 1 = k * ByteBits + b
    BY <1>8, <1>10, <1>11, <2>2, <2>3
  <2>5. (k * ByteBits + b) \div ByteBits = k /\ (k * ByteBits + b) % ByteBits = b
    BY <1>10, <1>11, <2>1, DivisionUnique
  <2> HIDE DEF i
  <2> QED  BY <2>4, <2>5 DEF k
<1>13. Payload[1 + (used + a)][1 + b] = Bits[i]
  <2> DEFINE m == Len(Bits)
             u == UnpackBits(Payload, m)
  <2>1. m \in Nat /\ i \in 1 .. m
    BY <1>1, <1>2, <1>6, <1>10
  <2>2. m <= BytesFor(m) * ByteBits
    <3> HIDE DEF m
    <3> QED  BY <2>1, BytesForProperties
  <2>3. u[i] = Bits[i]
    <3>1. \A j \in 1 .. m : UnpackBits(PackBits(Bits), m)[j]
                              = IF j <= m THEN Bits[j] ELSE 0
      BY <1>2, <2>1, <2>2, PackBitsProperties
    <3> HIDE DEF m, i
    <3>2. i <= m
      BY <2>1
    <3> QED  BY <2>1, <3>1, <3>2 DEF Payload
  <2>4. u[i] = Payload[1 + ((i - 1) \div ByteBits)][1 + ((i - 1) % ByteBits)]
    <3> HIDE DEF m, i
    <3>1. m <= Len(Payload) * ByteBits
      BY <1>2, <2>2 DEF m
    <3> QED  BY <1>2, <2>1, <3>1, UnpackBitsProperties
  <2> HIDE DEF u, i, a, b
  <2> QED  BY <1>12, <2>3, <2>4
<1>14. r.buffer[1 + a] = Payload[1 + (used + a)]
  <2> HIDE DEF a, b, n
  <2>1. 1 + a \in 1 .. n /\ used + (1 + a) = 1 + (used + a)
    BY <1>8, <1>10, <1>11
  <2> QED  BY <1>8, <2>1
<1>15. Fetched.bit = Bits[reader.bits_read + 1]
  BY <1>6, <1>7, <1>9, <1>13, <1>14
<1>16. BufferMatches(next, p)
  <2>1. next.bits_read = used * ByteBits + next.cursor
    <3>1. used * ByteBits \in Nat
      BY <1>8, <1>10, ProductOrder
    <3> HIDE DEF n
    <3> QED  BY <1>8, <1>9, <1>10, <3>1
  <2>2. next.buffer = r.buffer
    BY <1>9
  <2> QED  BY <1>8, <2>1, <2>2 DEF BufferMatches, used
<1> QED  BY <1>1, <1>6, <1>7, <1>9, <1>15, <1>16 DEF next, p

-----------------------------------------------------------------------------
(* The steps.                                                              *)

\* No step changes what was found.
LEMMA InputStays ==
  ASSUME [Next]_vars
  PROVE  input' = input /\ Intact' = Intact
<1>1. input' = input
  BY DEF vars, Next, OpenStream, OpenStreamFails, ReadCount, ReadEntry, CreateOutput,
         CreateOutputFails, HeaderCutShort, ReadTotalZero, ReadTotal,
         FirstBufferCutShort, DecodeInnerNode, DecodeLeaf, InvalidCodepoint,
         NoCodeForBits, PayloadCutShort, Finish, Throw
<1> QED  BY <1>1 DEF Intact

\* The number of payload bits is read as it was written.
LEMMA TotalIsRead ==
  ASSUME input \in Inputs, TextFits(input), Intact, pos = Len(Header(input.codes))
  PROVE  IF CanRead(TotalBytes)
           THEN ReadBe(BytesAt(pos, TotalBytes)) = Len(Bits)
           ELSE ~ IsPrefix(input.compressed, input.stream)
<1> DEFINE total == WriteBe(Len(Bits), TotalBytes)
<1>1. /\ Len(total) = TotalBytes /\ ReadBe(total) = Len(Bits)
      /\ StandsAt(input.compressed, pos, total)
      /\ pos \in Nat
  BY FileProperties DEF Bits
<1>2. total \in Seq(Byte)
  <2>1. /\ Len(Bits) \in Nat /\ Len(Bits) <= SizeRange - ByteBits /\ SizeRange \in Nat
        /\ ByteBits \in Nat \ {0} /\ TotalBytes \in Nat
    BY PayloadTypes, WidthsType
  <2>2. Len(Bits) \in 0 .. (FieldRange(TotalBytes) - 1)
    BY <2>1 DEF SizeRange
  <2> QED  BY <2>1, <2>2, WriteBeProperties
<1> HIDE DEF total
<1>3. IF pos + Len(total) <= Len(input.stream)
        THEN BytesAt(pos, Len(total)) = total
        ELSE ~ IsPrefix(input.compressed, input.stream)
  BY <1>1, <1>2, ReadsField
<1> QED  BY <1>1, <1>3 DEF CanRead

\* With the number of payload bits the reader takes its first buffer.
LEMMA FirstBufferMatches ==
  ASSUME IInv, TextFits(input), Intact, pc = "total",
         pos = Len(Header(input.codes)), CanRead(TotalBytes),
         NEW r, r = [reader EXCEPT !.total_bits = ReadBe(BytesAt(pos, TotalBytes))]
  PROVE  /\ r.total_bits = Len(Bits)
         /\ IF CanRead(TotalBytes + BytesToRead(r))
              THEN /\ BufferMatches(Refill(r, pos + TotalBytes),
                                    pos + TotalBytes + BytesToRead(r))
                   /\ Refill(r, pos + TotalBytes).total_bits = Len(Bits)
                   /\ Refill(r, pos + TotalBytes).bits_read = 0
              ELSE ~ IsPrefix(input.compressed, input.stream)
<1> DEFINE n == BytesToRead(r)
<1>1. input \in Inputs /\ reader \in Reader /\ reader.bits_read = 0 /\ ReaderOK(reader)
  BY DEF IInv, ReaderOK, HeaderInv
<1>2. ReadBe(BytesAt(pos, TotalBytes)) = Len(Bits)
  BY <1>1, TotalIsRead
<1>3. /\ Len(Bits) \in Nat /\ Base \in Nat /\ Base = pos + TotalBytes
      /\ pos \in Nat /\ TotalBytes \in Nat
      /\ input.stream \in Seq(Byte) /\ Len(input.stream) \in Nat
  BY <1>1, PayloadTypes, WidthsType DEF Base
<1>4. /\ r \in Reader /\ r.total_bits = Len(Bits) /\ r.bits_read = 0
      /\ r.cursor = reader.cursor /\ r.buffer = reader.buffer
  BY <1>1, <1>2, <1>3 DEF Reader
<1>5. ReaderOK(r)
  BY <1>1, <1>3, <1>4 DEF ReaderOK
<1>6. 0 * ByteBits = 0
  BY WidthsType
<1>7. IF Base + 0 + n <= Len(input.stream)
        THEN BufferMatches(Refill(r, Base + 0), Base + 0 + n)
        ELSE ~ IsPrefix(input.compressed, input.stream)
  <2>1. r.bits_read = 0 * ByteBits /\ 0 \in Nat
    BY <1>4, <1>6
  <2> QED  BY ONLY <1>1, <1>4, <1>5, <2>1, TextFits(input), Intact, RefillMatches
<1>8. n \in Nat
  BY <1>5, BytesToReadType
<1>9. /\ Base + 0 = pos + TotalBytes /\ Base + 0 + n = pos + TotalBytes + n
      /\ pos + (TotalBytes + n) = Base + 0 + n
  <2> HIDE DEF n
  <2> QED  BY <1>3, <1>8
<1>10. CASE CanRead(TotalBytes + n)
  <2>1. (pos + TotalBytes) + n <= Len(input.stream)
    <3> HIDE DEF n
    <3> QED  BY <1>3, <1>8, <1>10 DEF CanRead
  <2>2. /\ Refill(r, pos + TotalBytes).total_bits = Len(Bits)
        /\ Refill(r, pos + TotalBytes).bits_read = 0
    <3>1. pos + TotalBytes \in Nat
      BY <1>3
    <3> QED  BY <1>3, <1>4, <1>5, <2>1, <3>1, RefillProperties
  <2> HIDE DEF n
  <2>3. BufferMatches(Refill(r, pos + TotalBytes), pos + TotalBytes + n)
    BY <1>7, <1>9, <1>10 DEF CanRead
  <2> QED  BY <1>4, <1>10, <2>2, <2>3 DEF n
<1>11. CASE ~ CanRead(TotalBytes + n)
  <2> HIDE DEF n
  <2>1. ~ IsPrefix(input.compressed, input.stream)
    BY <1>7, <1>9, <1>11 DEF CanRead
  <2> QED  BY <1>4, <1>11, <2>1 DEF n
<1> QED  BY <1>10, <1>11

\* Every step keeps what is known of the header and the payload.
LEMMA StepMatchInv ==
  ASSUME IInv, TextFits(input), MatchInv, [Next]_vars
  PROVE  MatchInv'
<1> DEFINE codes == input.codes
           n == Count(codes)
<1>1. input' = input /\ Intact' = Intact
  BY InputStays
<1> SUFFICES ASSUME Intact, pc' # "done"
             PROVE  /\ pc' \in {"open", "count"} => pos' = 0 /\ prefixes' = <<>>
                    /\ pc' = "entry" => HeaderMatches'
                    /\ pc' = "total" => pos' = Len(Header(codes)) /\ prefixes' = codes
                    /\ pc' = "decode" => /\ prefixes' = codes
                                         /\ reader'.total_bits = Len(Bits)
                                         /\ BufferMatches(reader, pos)'
  BY <1>1 DEF MatchInv, Bits
<1>2. input \in Inputs /\ CodesFit(codes) /\ n \in Nat
  BY KeysProperties DEF IInv, TextFits
<1>3. CASE UNCHANGED vars
  <2>1. HeaderMatches' = HeaderMatches
    BY <1>3 DEF vars, HeaderMatches
  <2>2. BufferMatches(reader, pos)' = BufferMatches(reader, pos)
    BY <1>3 DEF vars, BufferMatches, Base, Payload, Bits
  <2> QED  BY <1>3, <2>1, <2>2 DEF vars, MatchInv
<1>4. CASE OpenStream
  BY <1>4 DEF OpenStream, MatchInv
<1>5. CASE ReadCount
  <2> DEFINE w == WriteBe(n, CountBytes)
  <2>1. /\ pc = "count" /\ CanRead(CountBytes) /\ pc' = "entry"
        /\ entries' = ReadBe(BytesAt(pos, CountBytes)) /\ pos' = pos + CountBytes
        /\ prefixes' = prefixes
    BY <1>5 DEF ReadCount
  <2>2. pos = 0 /\ prefixes = <<>>
    BY <2>1 DEF MatchInv
  <2>3. /\ HeaderUpTo(codes, 0) = w /\ w \in Seq(Byte) /\ Len(w) = CountBytes
        /\ ReadBe(w) = n
    BY <1>2, HeaderUpToProperties
  <2>4. StandsAt(input.compressed, 0, w)
    BY HeaderFields
  <2> HIDE DEF w
  <2>5. BytesAt(0, Len(w)) = w
    <3>1. 0 + Len(w) <= Len(input.stream)
      BY <2>1, <2>2, <2>3 DEF CanRead
    <3> QED  BY <1>2, <2>3, <2>4, <3>1, ReadsField
  <2>6. entries' = n - 0 /\ pos' = Len(HeaderUpTo(codes, 0))
    BY <1>2, <2>1, <2>2, <2>3, <2>5, WidthsType
  <2>7. prefixes' = FirstCodes(codes, 0)
    BY <1>2, <2>1, <2>2, FirstCodesProperties
  <2>8. 0 \in 0 .. n
    BY <1>2
  <2>9. HeaderMatches'
    BY <1>1, <2>6, <2>7, <2>8 DEF HeaderMatches
  <2> QED  BY <2>1, <2>9
<1>6. CASE ReadEntry
  <2> DEFINE size == BytesFor(CodeLengthAt)
             code == UnpackBits(BytesAt(pos + CodeOffset, size), CodeLengthAt)
  <2>1. /\ pc = "entry" /\ entries > 0 /\ EntryComplete /\ pc' = "entry"
        /\ prefixes' = [c \in DOMAIN prefixes \union {CodepointAt} |->
                          IF c = CodepointAt THEN code ELSE prefixes[c]]
        /\ pos' = pos + CodeOffset + size /\ entries' = entries - 1
    BY <1>6 DEF ReadEntry
  <2>2. PICK k \in 0 .. n : /\ entries = n - k
                            /\ pos = Len(HeaderUpTo(codes, k))
                            /\ prefixes = FirstCodes(codes, k)
    BY <2>1 DEF MatchInv, HeaderMatches
  <2> DEFINE key == Keys(codes)[k + 1]
  <2>3. k \in 0 .. (n - 1) /\ k + 1 \in 0 .. n /\ entries' = n - (k + 1)
    BY <1>2, <2>1, <2>2
  <2>4. /\ CodepointAt = key /\ code = codes[key]
        /\ pos + CodeOffset + size = Len(HeaderUpTo(codes, k + 1))
    <3>1. k \in 0 .. (Count(input.codes) - 1) /\ pos = Len(HeaderUpTo(input.codes, k))
      BY <2>2, <2>3
    <3>2. EntryComplete
      BY <2>1
    <3> QED  BY <3>1, <3>2, EntryIsRead
  <2>5. FirstCodes(codes, k + 1)
          = [c \in DOMAIN prefixes \union {key} |->
               IF c = key THEN codes[key] ELSE prefixes[c]]
    <3> DEFINE known == FirstCodes(codes, k)
    <3> HIDE DEF codes
    <3>1. FirstCodes(codes, k + 1)
            = [c \in DOMAIN known \union {key} |->
                 IF c = key THEN codes[key] ELSE known[c]]
      BY <1>2, <2>3, FirstCodesProperties
    <3> QED  BY <2>2, <3>1
  <2> HIDE DEF size, code, key
  <2>6. prefixes' = FirstCodes(codes, k + 1) /\ pos' = Len(HeaderUpTo(codes, k + 1))
    BY <2>1, <2>4, <2>5
  <2>7. HeaderMatches'
    BY <1>1, <2>3, <2>6 DEF HeaderMatches
  <2> QED  BY <2>1, <2>7
<1>7. CASE CreateOutput
  <2>1. /\ pc = "entry" /\ entries = 0 /\ pc' = "total"
        /\ UNCHANGED <<pos, prefixes>>
    BY <1>7 DEF CreateOutput
  <2>2. PICK k \in 0 .. n : /\ entries = n - k
                            /\ pos = Len(HeaderUpTo(codes, k))
                            /\ prefixes = FirstCodes(codes, k)
    BY <2>1 DEF MatchInv, HeaderMatches
  <2>3. k = n
    BY <1>2, <2>1, <2>2
  <2>4. HeaderUpTo(codes, n) = Header(codes) /\ FirstCodes(codes, n) = codes
    BY <1>2, HeaderUpToProperties, FirstCodesProperties
  <2> QED  BY <2>1, <2>2, <2>3, <2>4
<1>8. CASE ReadTotal
  <2> DEFINE r == [reader EXCEPT !.total_bits = ReadBe(BytesAt(pos, TotalBytes))]
             r2 == Refill(r, pos + TotalBytes)
             p == pos + TotalBytes + BytesToRead(r)
  <2>1. /\ pc = "total" /\ CanRead(TotalBytes) /\ CanRead(TotalBytes + BytesToRead(r))
        /\ reader' = r2 /\ pos' = p /\ pc' = "decode" /\ prefixes' = prefixes
    BY <1>8 DEF ReadTotal
  <2>2. pos = Len(Header(codes)) /\ prefixes = codes
    BY <2>1 DEF MatchInv
  <2>3. BufferMatches(r2, p) /\ r2.total_bits = Len(Bits)
    BY <2>1, <2>2, FirstBufferMatches
  <2> HIDE DEF r2, p
  <2>4. BufferMatches(reader, pos)'
    BY <1>1, <2>1, <2>3 DEF BufferMatches, Base, Payload, Bits
  <2> QED  BY <2>1, <2>2, <2>3, <2>4
<1>9. CASE DecodeInnerNode \/ DecodeLeaf
  <2>1. /\ Decoding /\ TakeBit /\ pc = "decode" /\ pc' = "decode"
        /\ prefixes' = prefixes
    BY <1>9 DEF DecodeInnerNode, DecodeLeaf, Decoding
  <2>2. Reading /\ prefixes = codes
    BY <2>1 DEF Reading, MatchInv
  <2> DEFINE p == IF NeedsRefill THEN pos + BytesToRead(reader) ELSE pos
             r2 == Fetched.reader
  <2>3. BufferMatches(r2, p) /\ r2.total_bits = Len(Bits)
    BY <2>1, <2>2, NextBitOfText
  <2>4. reader' = r2 /\ pos' = p
    BY <2>1 DEF TakeBit
  <2> HIDE DEF r2, p
  <2>5. BufferMatches(reader, pos)'
    BY <1>1, <2>3, <2>4 DEF BufferMatches, Base, Payload, Bits
  <2> QED  BY <2>1, <2>2, <2>3, <2>4, <2>5
<1>10. \/ UNCHANGED vars \/ OpenStream \/ ReadCount \/ ReadEntry \/ CreateOutput
       \/ ReadTotal \/ DecodeInnerNode \/ DecodeLeaf
  BY DEF Next, OpenStreamFails, CreateOutputFails, HeaderCutShort, ReadTotalZero,
         FirstBufferCutShort, InvalidCodepoint, NoCodeForBits, PayloadCutShort,
         Finish, Throw, End
<1> QED  BY <1>3, <1>4, <1>5, <1>6, <1>7, <1>8, <1>9, <1>10

\* What is written is put behind what has been, as far as the disk has room.
LEMMA WriteToFileGrows ==
  ASSUME input \in Inputs, file \in Seq(FileByte), Len(file) <= input.capacity,
         NEW data \in Seq(FileByte)
  PROVE  /\ Len(WriteToFile(data)) <= input.capacity
         /\ IsPrefix(file, WriteToFile(data))
         /\ Len(file \o data) < input.capacity => WriteToFile(data) = file \o data
<1> DEFINE all == file \o data
           cap == input.capacity
           n == Min({cap, Len(all)})
           t == SubSeq(all, 1, n)
<1>1. /\ all \in Seq(FileByte) /\ Len(all) \in Nat /\ cap \in Nat
      /\ Len(file) \in Nat /\ Len(data) \in Nat /\ Len(all) = Len(file) + Len(data)
      /\ \A i \in 1 .. Len(file) : all[i] = file[i]
  <2>1. /\ Len(file) \in Nat /\ Len(data) \in Nat /\ cap \in Nat
    BY InputsAssumption, LenProperties
  <2>2. /\ all \in Seq(FileByte) /\ Len(all) = Len(file) + Len(data)
        /\ \A i \in 1 .. Len(all) : all[i] = IF i <= Len(file)
                                               THEN file[i] ELSE data[i - Len(file)]
    BY ConcatProperties
  <2> HIDE DEF all
  <2>3. \A i \in 1 .. Len(file) : i \in 1 .. Len(all) /\ i <= Len(file)
    BY <2>1, <2>2
  <2> QED  BY <2>1, <2>2, <2>3
<1>2. WriteToFile(data) = t
  BY DEF WriteToFile
<1> HIDE DEF all, cap
<1>3. n \in Nat /\ n <= cap /\ n <= Len(all) /\ (n = cap \/ n = Len(all))
  BY <1>1, MinOfTwo
<1> HIDE DEF n
<1>4. t \in Seq(FileByte) /\ Len(t) = n /\ \A i \in 1 .. n : t[i] = all[i]
  <2>1. 1 \in Int /\ n \in Int /\ \A i \in 1 .. n : all[i] \in FileByte
    <3>1. \A i \in 1 .. n : i \in 1 .. Len(all)
      BY <1>1, <1>3
    <3> QED  BY <1>1, <1>3, <3>1, ElementOfSeq
  <2>2. /\ t \in Seq(FileByte) /\ Len(t) = IF 1 <= n THEN n - 1 + 1 ELSE 0
        /\ \A i \in 1 .. (n - 1 + 1) : 1 <= n => t[i] = all[1 + i - 1]
    BY <2>1, SubSeqProperties
  <2> HIDE DEF t
  <2> QED  BY <1>3, <2>2
<1>5. Len(file) <= n
  BY <1>1, <1>3 DEF cap
<1> HIDE DEF t
<1>6. IsPrefix(file, t)
  <2>1. ASSUME NEW i \in 1 .. Len(file) PROVE file[i] = t[i]
    <3>1. i \in 1 .. n
      BY <1>1, <1>3, <1>5
    <3> QED  BY <1>1, <1>4, <3>1
  <2> QED  BY <1>4, <1>5, <2>1, IsPrefixElements
<1>7. ASSUME Len(all) < cap PROVE t = all
  <2>1. n = Len(all)
    BY <1>1, <1>3, <1>7
  <2>2. ASSUME NEW i \in 1 .. Len(t) PROVE t[i] = all[i]
    BY <1>4
  <2> QED  BY <1>1, <1>4, <2>1, <2>2, SeqEqual
<1> QED  BY <1>2, <1>3, <1>4, <1>6, <1>7 DEF all, cap

\* A beginning of a text that has room has room, too.
LEMMA TextHasRoom ==
  ASSUME IInv, TextFits(input), HasRoom(input), FilesInv, NEW data \in Seq(FileByte),
         NEW k \in 0 .. Len(input.text), file \o data = DoneBytes(input, k)
  PROVE  WriteToFile(data) = file \o data
<1> DEFINE all == Utf8Text(input.text)
           d == DoneBytes(input, k)
<1>1. StandsAt(all, 0, d) /\ d \in Seq(FileByte)
  BY DoneBytesProperties
<1>2. all \in Seq(FileByte)
  <2>1. Len(input.text) \in 0 .. Len(input.text)
    BY DoneBitsProperties
  <2> QED  BY <2>1, DoneBytesProperties
<1>3. /\ input \in Inputs /\ input.capacity \in Nat /\ file \in Seq(FileByte)
      /\ Len(file) <= input.capacity /\ Len(all) < input.capacity
  BY InputsAssumption DEF IInv, FilesInv, HasRoom
<1> HIDE DEF all, d
<1>4. Len(d) \in Nat /\ Len(all) \in Nat /\ 0 + Len(d) <= Len(all)
  BY <1>1, <1>2, LenProperties DEF StandsAt
<1>5. Len(file \o data) < input.capacity
  <2>1. Len(d) < input.capacity
    BY <1>3, <1>4
  <2> QED  BY <2>1 DEF d
<1> QED  BY <1>3, <1>5, WriteToFileGrows

\* As long as bits are left another codepoint of the text is to come, and the
\* next bit leads on to its code or to the end of it.
LEMMA NextNodeOfText ==
  ASSUME Reading, Decoding, prefixes = input.codes,
         NEW k \in 0 .. Len(input.text), DecodedUpTo(k)
  PROVE  LET done == DoneBits(input, k)
             c == input.text[k + 1]
         IN /\ k + 1 \in 0 .. Len(input.text)
            /\ HasNextNode
            /\ Len(NextNode) = Len(node) + 1
            /\ StandsAt(Bits, Len(done), NextNode)
            /\ c \in DOMAIN Utf8Length
            /\ Len(DoneBits(input, k + 1)) = Len(done) + Len(input.codes[c])
            /\ AtLeaf => Decoded = c /\ NextNode = input.codes[c]
<1> DEFINE text == input.text
           codes == input.codes
           n == Len(text)
           done == DoneBits(input, k)
           offset == Len(done)
           c == text[k + 1]
<1>1. /\ IInv /\ input \in Inputs /\ TextFits(input) /\ CodesFit(codes)
      /\ pc = "decode" /\ DOMAIN codes \subseteq DOMAIN Utf8Length
  BY DEF Reading, IInv, TextFits, CodesFit, Decoding
<1>2. /\ trie = BuildDecodeTrie(codes) /\ node \in DOMAIN trie /\ ~ trie[node].is_leaf
  BY <1>1 DEF IInv, TrieInv
<1>3. node \in Seq(Bit) /\ Len(node) \in Nat
  <2>1. node \in Seq(Bit)
    BY <1>1, <1>2, NodeBeginsCode
  <2> QED  BY <2>1, LenProperties
<1>4. Fetched.bit = Bits[reader.bits_read + 1] /\ reader.bits_read < Len(Bits)
  BY NextBitOfText
<1>5. offset + Len(node) = reader.bits_read /\ StandsAt(Bits, offset, node)
  BY DEF DecodedUpTo
<1>6. Bits \in Seq(Bit) /\ Len(Bits) \in Nat
  BY <1>1, PayloadTypes
<1>7. /\ n \in Nat /\ DoneBits(input, n) = Bits /\ done \in Seq(Bit)
      /\ \A j \in 0 .. (n - 1) :
           /\ text[j + 1] \in DOMAIN codes
           /\ Len(DoneBits(input, j + 1)) = Len(DoneBits(input, j)) + Len(codes[text[j + 1]])
           /\ StandsAt(Bits, Len(DoneBits(input, j)), codes[text[j + 1]])
  BY <1>1, DoneBitsProperties DEF Bits
<1>8. offset \in Nat
  <2> HIDE DEF done
  <2> QED  BY <1>7, LenProperties
<1>9. k # n
  <2> SUFFICES ASSUME k = n PROVE FALSE
    OBVIOUS
  <2>1. offset = Len(Bits)
    BY <1>7
  <2> HIDE DEF offset
  <2> QED  BY <1>3, <1>4, <1>5, <1>6, <2>1
<1>10. k \in 0 .. (n - 1) /\ k + 1 \in 0 .. n
  <2> HIDE DEF n
  <2>1. k \in 0 .. n
    BY DEF n
  <2> QED  BY <1>7, <1>9, <2>1
<1>11. /\ c \in DOMAIN codes /\ StandsAt(Bits, offset, codes[c])
       /\ Len(DoneBits(input, k + 1)) = offset + Len(codes[c])
  BY <1>7, <1>10
<1>12. NextNode = NodeBehind(node, Bits, offset)
  BY <1>4, <1>5 DEF NextNode, NodeBehind
<1> HIDE DEF codes, c, offset
<1>13. /\ Len(NextNode) = Len(node) + 1
       /\ StandsAt(Bits, offset, NextNode)
       /\ NextNode \in DOMAIN trie
       /\ trie[NextNode].is_leaf =>
            NextNode = codes[c] /\ trie[NextNode].codepoint = c
  <2>1. node \in DOMAIN BuildDecodeTrie(codes) /\ ~ BuildDecodeTrie(codes)[node].is_leaf
    BY <1>2
  <2>2. /\ CodesFit(codes) /\ c \in DOMAIN codes /\ Bits \in Seq(Bit)
        /\ offset \in Nat /\ StandsAt(Bits, offset, codes[c])
        /\ StandsAt(Bits, offset, node)
    BY <1>1, <1>5, <1>6, <1>8, <1>11
  <2>3. /\ Len(NextNode) = Len(node) + 1
        /\ StandsAt(Bits, offset, NextNode)
        /\ NextNode \in DOMAIN BuildDecodeTrie(codes)
        /\ BuildDecodeTrie(codes)[NextNode].is_leaf =>
             NextNode = codes[c] /\ BuildDecodeTrie(codes)[NextNode].codepoint = c
    BY ONLY <1>12, <2>1, <2>2, NextNodeOfCode
  <2> QED  BY <1>2, <2>3
<1> QED  BY <1>1, <1>10, <1>11, <1>13
         DEF HasNextNode, AtLeaf, Decoded, codes, c, offset

\* The codepoint that is complete is the next one of the text, and none of its
\* bytes is lost, unless the disk is full.
LEMMA LeafOfText ==
  ASSUME IInv, FilesInv, Reading, prefixes = input.codes, DecodeLeaf,
         NEW k \in 0 .. Len(input.text), DecodedUpTo(k)
  PROVE  /\ k + 1 \in 0 .. Len(input.text)
         /\ Len(file') < input.capacity \/ HasRoom(input) =>
              file' \o out_buf' = DoneBytes(input, k + 1)
         /\ NextNode = input.codes[input.text[k + 1]]
         /\ Len(DoneBits(input, k + 1)) = Len(DoneBits(input, k)) + Len(NextNode)
<1> DEFINE c == input.text[k + 1]
           buf == out_buf \o Utf8(c)
           n == Len(input.text)
<1>1. /\ Decoding /\ AtLeaf /\ TextFits(input)
      /\ input \in Inputs /\ file \in Seq(FileByte) /\ out_buf \in Seq(FileByte)
  BY DEF DecodeLeaf, Reading, IInv
<1>2. /\ k + 1 \in 0 .. n /\ c \in DOMAIN Utf8Length
      /\ Len(DoneBits(input, k + 1)) = Len(DoneBits(input, k)) + Len(input.codes[c])
      /\ Decoded = c /\ NextNode = input.codes[c]
  BY <1>1, NextNodeOfText
<1>3. \/ file' = WriteToFile(buf) /\ out_buf' = <<>>
      \/ out_buf' = buf /\ file' = file
  BY <1>2 DEF DecodeLeaf
<1>4. n \in Nat
  BY <1>1, DoneBitsProperties
<1>5. k \in 0 .. (n - 1)
  <2> HIDE DEF n
  <2>1. k \in 0 .. n
    BY DEF n
  <2> QED  BY <1>2, <1>4, <2>1
<1>6. DoneBytes(input, k + 1) = DoneBytes(input, k) \o Utf8(c)
  BY <1>1, <1>5, DoneBytesProperties
<1>7. /\ buf \in Seq(FileByte)
      /\ Len(file) < input.capacity \/ HasRoom(input) =>
           file \o buf = DoneBytes(input, k + 1)
  <2> DEFINE u == Utf8(c)
             d == DoneBytes(input, k)
  <2>1. u \in Seq(FileByte)
    BY <1>2, Utf8Type
  <2>2. /\ Len(file) < input.capacity \/ HasRoom(input) => file \o out_buf = d
        /\ DoneBytes(input, k + 1) = d \o u
    BY <1>6 DEF DecodedUpTo
  <2> HIDE DEF u, d, c
  <2>3. out_buf \o u \in Seq(FileByte)
    BY <1>1, <2>1, ConcatProperties
  <2>4. file \o (out_buf \o u) = (file \o out_buf) \o u
    BY <1>1, <2>1, ConcatAssociative
  <2> QED  BY <2>2, <2>3, <2>4 DEF u, c
<1> HIDE DEF buf, c
<1>8. ASSUME Len(file') < input.capacity \/ HasRoom(input)
      PROVE  file' \o out_buf' = DoneBytes(input, k + 1)
  <2>1. CASE file' = WriteToFile(buf) /\ out_buf' = <<>>
    <3>1. file \o buf = DoneBytes(input, k + 1) /\ WriteToFile(buf) = file \o buf
      <4>1. CASE HasRoom(input)
        BY <1>1, <1>2, <1>7, <4>1, TextHasRoom
      <4>2. CASE Len(file') < input.capacity
        BY <1>1, <1>7, <2>1, <4>2, BytesKept
      <4> QED  BY <1>8, <4>1, <4>2
    <3>2. file \o buf \in Seq(FileByte)
      BY <1>1, <1>7, ConcatProperties
    <3>3. (file \o buf) \o <<>> = file \o buf
      BY <3>2, ConcatEmptySeq
    <3> QED  BY <2>1, <3>1, <3>3
  <2>2. CASE out_buf' = buf /\ file' = file
    BY <1>7, <1>8, <2>2
  <2> QED  BY <1>3, <2>1, <2>2
<1> QED  BY <1>2, <1>8 DEF c

\* Every step keeps what is known of the text.
LEMMA StepTextInv ==
  ASSUME RInv, TextFits(input), [Next]_vars
  PROVE  TextInv'
<1> DEFINE n == Len(input.text)
<1>1. /\ input' = input /\ Intact' = Intact
      /\ IInv /\ MatchInv /\ TextInv /\ FilesInv
  BY InputStays DEF RInv
<1>2. n \in Nat /\ DoneBits(input, 0) = <<>> /\ DoneBytes(input, 0) = <<>>
  BY DoneBitsProperties, DoneBytesProperties
<1> SUFFICES ASSUME Intact, pc' = "decode"
             PROVE  \E k \in 0 .. n : DecodedUpTo(k)'
  BY <1>1 DEF TextInv
<1>3. CASE UNCHANGED vars
  <2>1. PICK k \in 0 .. n : DecodedUpTo(k)
    BY <1>1, <1>3 DEF vars, TextInv
  <2>2. DecodedUpTo(k)'
    BY <1>1, <1>3, <2>1 DEF vars, DecodedUpTo, Bits
  <2> QED  BY <2>2
<1>4. CASE ReadTotal
  <2> DEFINE r == [reader EXCEPT !.total_bits = ReadBe(BytesAt(pos, TotalBytes))]
  <2>1. /\ pc = "total" /\ CanRead(TotalBytes) /\ CanRead(TotalBytes + BytesToRead(r))
        /\ reader' = Refill(r, pos + TotalBytes) /\ node' = Root
        /\ UNCHANGED <<out_buf, file>>
    BY <1>4 DEF ReadTotal
  <2>2. pos = Len(Header(input.codes)) /\ file = <<>> /\ out_buf = <<>>
    BY <1>1, <2>1 DEF MatchInv, IInv, HeaderInv
  <2>3. reader'.bits_read = 0
    BY <1>1, <2>1, <2>2, FirstBufferMatches
  <2>4. Len(<<>>) = 0 /\ <<>> \o <<>> = <<>>
    OBVIOUS
  <2>5. StandsAt(Bits, 0, <<>>)
    <3>1. Len(Bits) \in Nat
      BY <1>1, PayloadTypes DEF IInv
    <3> QED  BY <2>4, <3>1 DEF StandsAt
  <2>6. DecodedUpTo(0)'
    BY <1>1, <1>2, <2>1, <2>2, <2>3, <2>4, <2>5 DEF DecodedUpTo, Bits, Root
  <2> QED  BY <1>2, <2>6
<1>5. CASE DecodeInnerNode \/ DecodeLeaf
  <2>1. /\ Decoding /\ TakeBit /\ pc = "decode"
    BY <1>5 DEF DecodeInnerNode, DecodeLeaf, Decoding
  <2>2. Reading /\ prefixes = input.codes
    BY <1>1, <2>1 DEF Reading, MatchInv
  <2>3. PICK k \in 0 .. n : DecodedUpTo(k)
    BY <1>1, <2>1 DEF TextInv
  <2> DEFINE done == DoneBits(input, k)
             offset == Len(done)
  <2>4. reader'.bits_read = reader.bits_read + 1
    BY <2>1, <2>2, NextBitOfText DEF TakeBit
  <2>5. /\ Len(NextNode) = Len(node) + 1 /\ StandsAt(Bits, offset, NextNode)
    BY <2>1, <2>2, <2>3, NextNodeOfText
  <2>6. /\ Len(file) < input.capacity \/ HasRoom(input) =>
             file \o out_buf = DoneBytes(input, k)
        /\ offset + Len(node) = reader.bits_read
    BY <2>3 DEF DecodedUpTo
  <2>7. offset \in Nat /\ Len(node) \in Nat
    <3>1. done \in Seq(Bit)
      BY <1>2, <2>3, DoneBitsProperties
    <3>2. node \in Seq(Bit)
      <4>1. trie = BuildDecodeTrie(input.codes) /\ node \in DOMAIN trie
        BY <1>1, <2>1, <2>2 DEF IInv, TrieInv
      <4>2. CodesFit(input.codes)
        BY DEF TextFits
      <4> QED  BY <4>1, <4>2, NodeBeginsCode
    <3> HIDE DEF done
    <3> QED  BY <3>1, <3>2, LenProperties
  <2> HIDE DEF offset
  <2>8. offset + Len(NextNode) = reader'.bits_read
    BY <2>4, <2>5, <2>6, <2>7
  <2>9. CASE DecodeInnerNode
    <3>1. node' = NextNode /\ UNCHANGED <<out_buf, file>>
      BY <2>9 DEF DecodeInnerNode, Walk
    <3>2. DecodedUpTo(k)'
      BY <1>1, <2>5, <2>6, <2>8, <3>1 DEF DecodedUpTo, Bits, offset
    <3> QED  BY <3>2
  <2>10. CASE DecodeLeaf
    <3>1. node' = Root
      BY <2>10 DEF DecodeLeaf, Walk
    <3>2. /\ k + 1 \in 0 .. n
          /\ Len(file') < input.capacity \/ HasRoom(input) =>
               file' \o out_buf' = DoneBytes(input, k + 1)
          /\ Len(DoneBits(input, k + 1)) = offset + Len(NextNode)
      BY <1>1, <2>2, <2>3, <2>10, LeafOfText DEF offset
    <3>3. Len(DoneBits(input, k + 1)) = reader'.bits_read
      BY <2>8, <3>2
    <3>4. reader'.bits_read \in Nat /\ reader'.bits_read <= Len(Bits)
      <4>1. DoneBits(input, k + 1) \in Seq(Bit) /\ Len(DoneBits(input, k + 1)) <= Len(Bits)
        BY <3>2, DoneBitsProperties DEF Bits
      <4> QED  BY <3>3, <4>1, LenProperties
    <3>5. Len(<<>>) = 0
      OBVIOUS
    <3>6. StandsAt(Bits, Len(DoneBits(input, k + 1)), <<>>)
      <4>1. Len(Bits) \in Nat
        BY <1>1, PayloadTypes DEF IInv
      <4> QED  BY <3>3, <3>4, <3>5, <4>1 DEF StandsAt
    <3>7. Len(DoneBits(input, k + 1)) + Len(Root) = reader'.bits_read
      BY <3>3, <3>4, <3>5 DEF Root
    <3>8. DecodedUpTo(k + 1)'
      BY <1>1, <3>1, <3>2, <3>6, <3>7 DEF DecodedUpTo, Bits, Root
    <3> QED  BY <3>2, <3>8
  <2> QED  BY <1>5, <2>9, <2>10
<1>6. UNCHANGED vars \/ ReadTotal \/ DecodeInnerNode \/ DecodeLeaf
  BY DEF Next, OpenStream, OpenStreamFails, ReadCount, ReadEntry, CreateOutput,
         CreateOutputFails, HeaderCutShort, ReadTotalZero, FirstBufferCutShort,
         InvalidCodepoint, NoCodeForBits, PayloadCutShort, Finish, Throw, End
<1> QED  BY <1>3, <1>4, <1>5, <1>6

\* The files stay open, and the disk never holds more than it has room for.
LEMMA StepFilesInv ==
  ASSUME IInv, FilesInv, [Next]_vars
  PROVE  FilesInv'
<1>1. input' = input /\ input \in Inputs /\ file \in Seq(FileByte)
  BY InputStays DEF IInv
<1>2. CASE UNCHANGED vars
  BY <1>2 DEF vars, FilesInv
<1>3. CASE DecodeLeaf
  <2> DEFINE buf == out_buf \o Utf8(Decoded)
  <2>1. /\ pc = "decode" /\ pc' = "decode" /\ Decoded \in DOMAIN Utf8Length
        /\ file' = WriteToFile(buf) \/ file' = file
    BY <1>3 DEF DecodeLeaf, Decoding
  <2>2. buf \in Seq(FileByte)
    <3> DEFINE u == Utf8(Decoded)
    <3>1. u \in Seq(FileByte) /\ out_buf \in Seq(FileByte)
      BY <2>1, Utf8Type DEF IInv
    <3> HIDE DEF u
    <3>2. out_buf \o u \in Seq(FileByte)
      BY <3>1, ConcatProperties
    <3> QED  BY <3>2 DEF u
  <2> HIDE DEF buf
  <2>3. Len(file) <= input.capacity
    BY DEF FilesInv
  <2>4. Len(WriteToFile(buf)) <= input.capacity
    BY <1>1, <2>2, <2>3, WriteToFileGrows
  <2> QED  BY <1>1, <2>1, <2>3, <2>4 DEF FilesInv
<1>4. CASE Finish
  <2>1. out_buf \in Seq(FileByte) /\ Len(file) <= input.capacity
    BY DEF IInv, FilesInv
  <2>2. Len(WriteToFile(out_buf)) <= input.capacity
    BY <1>1, <2>1, WriteToFileGrows
  <2> QED  BY <1>1, <1>4, <2>2 DEF Finish, End, FilesInv
<1>5. CASE OpenStream \/ ReadCount \/ ReadEntry \/ CreateOutput
  BY <1>1, <1>5 DEF OpenStream, ReadCount, ReadEntry, CreateOutput, FilesInv
<1>6. CASE ReadTotal \/ DecodeInnerNode
  BY <1>1, <1>6 DEF ReadTotal, DecodeInnerNode, Decoding, FilesInv
<1>7. CASE pc' = "done" /\ file' = file
  BY <1>1, <1>7 DEF FilesInv
<1>8. \/ UNCHANGED vars \/ OpenStream \/ ReadCount \/ ReadEntry \/ CreateOutput
      \/ ReadTotal \/ DecodeInnerNode \/ DecodeLeaf \/ Finish
      \/ pc' = "done" /\ file' = file
  BY DEF Next, OpenStreamFails, CreateOutputFails, HeaderCutShort, ReadTotalZero,
         FirstBufferCutShort, InvalidCodepoint, NoCodeForBits, PayloadCutShort,
         Throw, End
<1> QED  BY <1>2, <1>3, <1>4, <1>5, <1>6, <1>7, <1>8

\* Nothing has been read when the call starts.
LEMMA InitRInv == Init => RInv
<1> SUFFICES ASSUME Init PROVE RInv
  OBVIOUS
<1>1. IInv
  BY InitIInv
<1>2. MatchInv /\ TextInv
  BY DEF Init, MatchInv, TextInv
<1>3. FilesInv
  <2>1. input.capacity \in Nat /\ file = <<>> /\ pc = "open"
    BY InputsAssumption DEF Init
  <2>2. Len(<<>>) = 0
    OBVIOUS
  <2> QED  BY <2>1, <2>2 DEF FilesInv
<1> QED  BY <1>1, <1>2, <1>3 DEF RInv

\* Every step of a call about a text that the format can hold keeps all of it.
LEMMA StepRInv ==
  ASSUME RInv, TextFits(input), [Next]_vars
  PROVE  RInv'
<1>1. IInv /\ MatchInv /\ TextInv /\ FilesInv
  BY DEF RInv
<1> QED  BY <1>1, StepIInv, StepMatchInv, StepTextInv, StepFilesInv DEF RInv

\* All the situations are about texts that the format can hold.
AllTextsFit == \A i \in Inputs : TextFits(i)

\* So it always holds.
LEMMA RInvCorrect ==
  ASSUME AllTextsFit
  PROVE  Spec => []RInv
<1>1. Init => RInv
  BY InitRInv
<1>2. RInv /\ [Next]_vars => RInv'
  <2> SUFFICES ASSUME RInv, [Next]_vars PROVE RInv'
    OBVIOUS
  <2>1. TextFits(input)
    BY DEF AllTextsFit, RInv, IInv
  <2> QED  BY <2>1, StepRInv
<1> QED  BY <1>1, <1>2, PTL DEF Spec

\* As long as no byte of the file is wrong, the bits read so far are the codes
\* of the codepoints decoded so far and the way to the current node, wherever a
\* buffer of the reader or of the output ended: no bit is skipped or read twice
\* at a refill, and no byte is lost or written twice at a flush.
THEOREM DecodesTextCorrect ==
  ASSUME AllTextsFit
  PROVE  Spec => []DecodesText
<1>1. RInv => DecodesText
  <2> SUFFICES ASSUME RInv, pc = "decode", Len(file) < input.capacity, Intact
               PROVE  \E k \in 0 .. Len(input.text) :
                        LET done == EncodedBits(SubSeq(input.text, 1, k), input.codes)
                            bits == EncodedBits(input.text, input.codes)
                        IN /\ file \o out_buf = Utf8Text(SubSeq(input.text, 1, k))
                           /\ Len(done) <= reader.bits_read
                           /\ node = SubSeq(bits, Len(done) + 1, reader.bits_read)
    BY DEF DecodesText
  <2>1. IInv /\ MatchInv /\ TextInv /\ input \in Inputs /\ TextFits(input)
    BY DEF RInv, IInv, AllTextsFit
  <2>2. PICK k \in 0 .. Len(input.text) : DecodedUpTo(k)
    BY <2>1 DEF TextInv
  <2> DEFINE done == DoneBits(input, k)
             offset == Len(done)
             m == reader.bits_read
             way == SubSeq(Bits, offset + 1, m)
  <2>3. /\ file \o out_buf = DoneBytes(input, k)
        /\ offset + Len(node) = m /\ StandsAt(Bits, offset, node)
    BY <2>2 DEF DecodedUpTo
  <2>4. /\ Bits \in Seq(Bit) /\ Len(Bits) \in Nat /\ m \in Nat
    BY <2>1, PayloadTypes DEF IInv, ReaderOK, Reader
  <2>5. offset \in Nat
    <3>1. done \in Seq(Bit)
      BY <2>1, DoneBitsProperties
    <3> HIDE DEF done
    <3> QED  BY <3>1, LenProperties
  <2>6. node \in Seq(Bit) /\ Len(node) \in Nat
    <3>1. trie = BuildDecodeTrie(input.codes) /\ node \in DOMAIN trie
      BY <2>1 DEF IInv, TrieInv, MatchInv
    <3>2. CodesFit(input.codes)
      BY <2>1 DEF TextFits
    <3>3. node \in Seq(Bit)
      BY <3>1, <3>2, NodeBeginsCode
    <3> QED  BY <3>3, LenProperties
  <2> HIDE DEF done, offset, m
  <2>7. offset <= m /\ m <= Len(Bits)
    BY <2>3, <2>4, <2>5, <2>6 DEF StandsAt
  <2>8. /\ way \in Seq(Bit) /\ Len(way) = Len(node)
        /\ \A j \in 1 .. Len(node) : way[j] = Bits[offset + j]
    <3> DEFINE a == offset + 1
    <3>1. /\ a \in Int /\ m \in Int /\ a \in Nat \ {0}
          /\ m - a + 1 = Len(node) /\ (~ (a <= m) => Len(node) = 0)
      BY <2>3, <2>4, <2>5, <2>6, <2>7
    <3>2. \A j \in a .. m : Bits[j] \in Bit
      <4>1. \A j \in a .. m : j \in 1 .. Len(Bits)
        BY <2>4, <2>7, <3>1
      <4> QED  BY <2>4, <4>1, ElementOfSeq
    <3>3. \A j \in 1 .. Len(node) : a + j - 1 = offset + j
      BY <2>5, <2>6
    <3> HIDE DEF a
    <3>4. /\ SubSeq(Bits, a, m) \in Seq(Bit)
          /\ Len(SubSeq(Bits, a, m)) = IF a <= m THEN m - a + 1 ELSE 0
          /\ \A j \in 1 .. (m - a + 1) :
               a <= m => SubSeq(Bits, a, m)[j] = Bits[a + j - 1]
      BY <3>1, <3>2, SubSeqProperties
    <3>5. SubSeq(Bits, a, m) = way
      BY DEF a
    <3> HIDE DEF way
    <3>6. \A j \in 1 .. Len(node) : a <= m
      BY <2>6, <3>1
    <3> QED  BY <3>1, <3>3, <3>4, <3>5, <3>6
  <2> HIDE DEF way
  <2>9. node = way
    <3>1. ASSUME NEW j \in 1 .. Len(node) PROVE node[j] = way[j]
      BY <2>3, <2>8 DEF StandsAt
    <3> QED  BY <2>6, <2>8, <3>1, SeqEqual
  <2> QED  BY <2>3, <2>7, <2>9 DEF DoneBits, DoneBytes, Bits, done, offset, m, way
<1> QED  BY <1>1, RInvCorrect, PTL

-----------------------------------------------------------------------------
(* The refinement.                                                         *)

\* What the abstract module calls original and sound.
Original == Utf8Text(input.text)

Sound ==
  /\ input.opens
  /\ input.creates
  /\ IsPrefix(input.compressed, input.stream)

\* When an intact file makes the call give up, it is incomplete, or a file
\* cannot be opened.
LEMMA FailsOnlyUnsound ==
  ASSUME RInv, TextFits(input), Intact,
         \/ OpenStreamFails \/ CreateOutputFails \/ HeaderCutShort
         \/ FirstBufferCutShort \/ InvalidCodepoint \/ NoCodeForBits \/ PayloadCutShort
  PROVE  /\ ~ Sound
         /\ outcome' = "file_operation_error"
<1> DEFINE codes == input.codes
           n == Count(codes)
<1>1. IInv /\ MatchInv /\ TextInv /\ FilesInv /\ input \in Inputs /\ CodesFit(codes)
  BY DEF RInv, IInv, TextFits
<1>2. CASE OpenStreamFails
  BY <1>2 DEF OpenStreamFails, Throw, End, Sound
<1>3. CASE CreateOutputFails
  BY <1>3 DEF CreateOutputFails, Throw, End, Sound
<1>4. CASE HeaderCutShort
  <2>1. outcome' = "file_operation_error"
    BY <1>4 DEF HeaderCutShort, Throw, End
  <2>2. CASE pc = "count" /\ ~ CanRead(CountBytes)
    <3> DEFINE w == WriteBe(n, CountBytes)
    <3>1. pos = 0
      BY <1>1, <2>2 DEF MatchInv
    <3>2. w \in Seq(Byte) /\ Len(w) = CountBytes
      BY <1>1, HeaderUpToProperties
    <3>3. StandsAt(input.compressed, 0, w)
      BY HeaderFields
    <3> HIDE DEF w
    <3>4. ~ (0 + Len(w) <= Len(input.stream))
      BY <2>2, <3>1, <3>2 DEF CanRead
    <3>5. ~ IsPrefix(input.compressed, input.stream)
      BY <1>1, <3>2, <3>3, <3>4, ReadsField
    <3> QED  BY <2>1, <3>5 DEF Sound
  <2>3. CASE pc = "entry" /\ entries > 0 /\ ~ EntryComplete
    <3>1. PICK k \in 0 .. n : entries = n - k /\ pos = Len(HeaderUpTo(codes, k))
      BY <1>1, <2>3 DEF MatchInv, HeaderMatches
    <3>2. k \in 0 .. (n - 1)
      <4>1. n \in Nat
        BY <1>1, KeysProperties
      <4> HIDE DEF n
      <4> QED  BY <2>3, <3>1, <4>1
    <3>3. ~ IsPrefix(input.compressed, input.stream)
      BY <1>1, <2>3, <3>1, <3>2, EntryIsRead
    <3> QED  BY <2>1, <3>3 DEF Sound
  <2>4. CASE pc = "total" /\ ~ CanRead(TotalBytes)
    <3>1. ~ IsPrefix(input.compressed, input.stream)
      BY <1>1, <2>4, TotalIsRead DEF MatchInv
    <3> QED  BY <2>1, <3>1 DEF Sound
  <2> QED  BY <1>4, <2>2, <2>3, <2>4 DEF HeaderCutShort
<1>5. CASE FirstBufferCutShort
  <2> DEFINE r == [reader EXCEPT !.total_bits = ReadBe(BytesAt(pos, TotalBytes))]
  <2>1. /\ pc = "total" /\ CanRead(TotalBytes) /\ ~ CanRead(TotalBytes + BytesToRead(r))
        /\ outcome' = "file_operation_error"
    BY <1>5 DEF FirstBufferCutShort, Throw, End
  <2>2. pos = Len(Header(codes))
    BY <1>1, <2>1 DEF MatchInv
  <2>3. ~ IsPrefix(input.compressed, input.stream)
    BY <1>1, <2>1, <2>2, FirstBufferMatches
  <2> QED  BY <2>1, <2>3 DEF Sound
<1>6. CASE PayloadCutShort
  <2> DEFINE q == pos - Base
  <2>1. /\ pc = "decode" /\ NeedsRefill /\ ~ CanRead(BytesToRead(reader))
        /\ outcome' = "file_operation_error"
    BY <1>6 DEF PayloadCutShort, Throw, End
  <2>2. Reading
    BY <1>1, <2>1 DEF Reading, MatchInv
  <2>3. q \in Nat /\ Base + q = pos /\ reader.bits_read = q * ByteBits
    BY <2>1, <2>2, BytesUsedUp
  <2>4. ReaderOK(reader) /\ reader.total_bits = Len(Bits)
    BY <2>2 DEF Reading, IInv
  <2> HIDE DEF q
  <2>5. ~ IsPrefix(input.compressed, input.stream)
    BY <1>1, <2>1, <2>3, <2>4, RefillMatches DEF CanRead
  <2> QED  BY <2>1, <2>5 DEF Sound
<1>7. CASE InvalidCodepoint \/ NoCodeForBits
  <2>1. pc = "decode" /\ Decoding
    BY <1>7 DEF InvalidCodepoint, NoCodeForBits, Decoding
  <2>2. Reading /\ prefixes = input.codes
    BY <1>1, <2>1 DEF Reading, MatchInv
  <2>3. PICK k \in 0 .. Len(input.text) : DecodedUpTo(k)
    BY <1>1, <2>1 DEF TextInv
  <2>4. /\ HasNextNode
        /\ AtLeaf => Decoded \in DOMAIN Utf8Length
    BY <2>1, <2>2, <2>3, NextNodeOfText
  <2> QED  BY <1>7, <2>4 DEF InvalidCodepoint, NoCodeForBits
<1> QED  BY <1>2, <1>3, <1>4, <1>5, <1>6, <1>7

\* The file is complete when it goes on to the end of the payload.
LEMMA SoundToTheEnd ==
  ASSUME RInv, TextFits(input), Intact, pc \in {"total", "decode"},
         Base + Len(Payload) <= Len(input.stream)
  PROVE  Sound
<1>1. input.opens /\ input.creates /\ input \in Inputs
  BY DEF RInv, FilesInv, IInv
<1>2. /\ input.compressed \in Seq(Byte) /\ input.stream \in Seq(Byte)
      /\ Len(input.compressed) = Base + Len(Payload)
  BY <1>1, PayloadTypes
<1>3. IsPrefix(input.compressed, input.stream)
  BY <1>2, StreamAgrees
<1> QED  BY <1>1, <1>3 DEF Sound

\* A text without bits is empty, as every code has some.
LEMMA NoBitsNoText ==
  ASSUME TextFits(input), Len(Bits) = 0
  PROVE  Original = <<>>
<1> DEFINE n == Len(input.text)
           code == input.codes[input.text[0 + 1]]
<1>1. /\ n \in Nat /\ DoneBits(input, 0) = <<>>
      /\ DoneBytes(input, 0) = <<>> /\ DoneBytes(input, n) = Original
  BY DoneBitsProperties, DoneBytesProperties DEF Original
<1>2. n = 0
  <2> SUFFICES ASSUME n # 0 PROVE FALSE
    OBVIOUS
  <2>1. 0 \in 0 .. (n - 1) /\ 0 + 1 \in 0 .. n
    <3> HIDE DEF n
    <3> QED  BY <1>1
  <2>2. /\ input.text[0 + 1] \in DOMAIN input.codes
        /\ Len(DoneBits(input, 0 + 1)) = Len(DoneBits(input, 0)) + Len(code)
        /\ DoneBits(input, 0 + 1) \in Seq(Bit)
        /\ Len(DoneBits(input, 0 + 1)) <= Len(Bits)
    BY <2>1, DoneBitsProperties DEF Bits
  <2>3. Len(DoneBits(input, 0)) = 0
    BY <1>1
  <2>4. code \in Seq(Bit) /\ code # <<>>
    BY <2>2 DEF TextFits, CodesFit
  <2> HIDE DEF code
  <2>5. Len(code) \in Nat /\ Len(code) # 0
    BY <2>4, LenProperties, EmptySeq
  <2> QED  BY <2>2, <2>3, <2>5
<1> HIDE DEF n
<1> QED  BY <1>1, <1>2

\* A call that returns has written the whole text, of a complete file.
LEMMA SucceedsWithText ==
  ASSUME RInv, TextFits(input), HasRoom(input), Intact, ReadTotalZero \/ Finish
  PROVE  Sound /\ file' = Original
<1> DEFINE n == Len(input.text)
<1>1. /\ IInv /\ MatchInv /\ TextInv /\ FilesInv /\ input \in Inputs
      /\ pos \in 0 .. Len(input.stream) /\ ReaderOK(reader)
  BY DEF RInv, IInv
<1>2. /\ Bits \in Seq(Bit) /\ Len(Bits) \in Nat /\ Base \in Nat
      /\ Len(Payload) = BytesFor(Len(Bits)) /\ Len(Payload) \in Nat
      /\ Len(input.stream) \in Nat /\ Len(Header(input.codes)) \in Nat
  BY <1>1, PayloadTypes
<1>3. CASE ReadTotalZero
  <2>1. /\ pc = "total" /\ CanRead(TotalBytes) /\ file' = file
        /\ ReadBe(BytesAt(pos, TotalBytes)) = 0
    BY <1>3 DEF ReadTotalZero
  <2>2. pos = Len(Header(input.codes)) /\ file = <<>>
    BY <1>1, <2>1 DEF MatchInv, IInv, HeaderInv
  <2>3. Len(Bits) = 0
    BY <1>1, <2>1, <2>2, TotalIsRead
  <2>4. Len(Payload) = 0
    <3>1. 0 \in Nat /\ 0 = 0 * ByteBits
      BY WidthsType
    <3> QED  BY <1>2, <2>3, <3>1, BytesForProperties
  <2>5. Base + Len(Payload) <= Len(input.stream)
    BY <1>2, <2>1, <2>2, <2>4, WidthsType DEF Base, CanRead
  <2>6. Sound
    BY <2>1, <2>5, SoundToTheEnd
  <2> QED  BY <2>1, <2>2, <2>3, <2>6, NoBitsNoText
<1>4. CASE Finish
  <2>1. /\ pc = "decode" /\ ~ HasNext /\ file' = WriteToFile(out_buf)
    BY <1>4 DEF Finish
  <2>2. /\ prefixes = input.codes /\ reader.total_bits = Len(Bits)
        /\ BufferMatches(reader, pos)
    BY <1>1, <2>1 DEF MatchInv
  <2>3. /\ reader.bits_read = Len(Bits) /\ reader.cursor \in Nat
        /\ reader.buffer \in Seq(Byte)
        /\ reader.cursor <= Len(reader.buffer) * ByteBits
    BY <1>1, <1>2, <2>1, <2>2 DEF ReaderOK, Reader, HasNext
  <2>4. Base + Len(Payload) <= Len(input.stream)
    <3> DEFINE m == Len(reader.buffer)
               used == pos - Base - m
    <3>1. /\ used \in Nat /\ m \in Nat /\ reader.bits_read = used * ByteBits + reader.cursor
      BY <2>2, <2>3, LenProperties DEF BufferMatches
    <3>2. used + m = pos - Base /\ used + m \in Nat
      BY <1>1, <1>2, <3>1
    <3> HIDE DEF m, used
    <3>3. /\ (used + m) * ByteBits = used * ByteBits + m * ByteBits
          /\ used * ByteBits \in Nat /\ m * ByteBits \in Nat
      BY <3>1, WidthsType, ProductOrder
    <3>4. Len(Bits) <= (used + m) * ByteBits
      BY <2>3, <3>1, <3>3 DEF m
    <3>5. Len(Payload) <= used + m
      BY <1>2, <3>2, <3>4, BytesForProperties
    <3> QED  BY <1>1, <1>2, <3>2, <3>5
  <2>5. Sound
    BY <2>1, <2>4, SoundToTheEnd
  <2>6. PICK k \in 0 .. n : DecodedUpTo(k)
    BY <1>1, <2>1 DEF TextInv
  <2> DEFINE offset == Len(DoneBits(input, k))
             c == input.text[k + 1]
  <2>7. /\ file \o out_buf = DoneBytes(input, k)
        /\ offset + Len(node) = Len(Bits) /\ StandsAt(Bits, offset, node)
    BY <2>3, <2>6 DEF DecodedUpTo
  <2>8. n \in Nat /\ DoneBytes(input, n) = Original /\ DoneBits(input, k) \in Seq(Bit)
    BY <2>6, DoneBitsProperties, DoneBytesProperties DEF Original
  <2>9. offset \in Nat
    BY <2>8, LenProperties
  <2>10. k = n
    <3> SUFFICES ASSUME k # n PROVE FALSE
      OBVIOUS
    <3>1. k \in 0 .. (n - 1)
      <4> HIDE DEF n
      <4> QED  BY <2>6, <2>8
    <3>2. c \in DOMAIN input.codes /\ StandsAt(Bits, offset, input.codes[c])
      BY <3>1, DoneBitsProperties DEF Bits
    <3>3. /\ CodesFit(input.codes) /\ node \in DOMAIN BuildDecodeTrie(input.codes)
          /\ ~ BuildDecodeTrie(input.codes)[node].is_leaf
      BY <1>1, <2>1, <2>2 DEF TextFits, IInv, TrieInv
    <3> HIDE DEF c, offset
    <3>4. Len(node) < Len(input.codes[c])
      BY <1>2, <2>7, <2>9, <3>2, <3>3, NodeInsideCode
    <3>5. node \in Seq(Bit) /\ input.codes[c] \in Seq(Bit)
      BY <3>2, <3>3, NodeBeginsCode DEF CodesFit
    <3>6. Len(node) \in Nat /\ Len(input.codes[c]) \in Nat
      BY <3>5, LenProperties
    <3>7. offset + Len(input.codes[c]) <= Len(Bits)
      BY <3>2 DEF StandsAt
    <3> QED  BY <1>2, <2>7, <2>9, <3>4, <3>6, <3>7
  <2>11. WriteToFile(out_buf) = file \o out_buf
    <3>1. out_buf \in Seq(FileByte)
      BY <1>1 DEF IInv
    <3> QED  BY <1>1, <2>6, <2>7, <3>1, TextHasRoom
  <2> QED  BY <2>1, <2>5, <2>7, <2>8, <2>10, <2>11
<1> QED  BY <1>3, <1>4

\* What a flush writes of an intact file is right.
LEMMA WritesText ==
  ASSUME RInv, TextFits(input), HasRoom(input), Intact, DecodeLeaf,
         file' \in Seq(FileByte), out_buf' \in Seq(FileByte)
  PROVE  IsPrefix(file', Original)
<1> DEFINE n == Len(input.text)
<1>1. IInv /\ MatchInv /\ TextInv /\ FilesInv /\ pc = "decode"
  BY DEF RInv, DecodeLeaf, Decoding
<1>2. Reading /\ prefixes = input.codes
  BY <1>1 DEF Reading, MatchInv
<1>3. PICK k \in 0 .. n : DecodedUpTo(k)
  BY <1>1 DEF TextInv
<1> DEFINE d == DoneBytes(input, k + 1)
<1>4. k + 1 \in 0 .. n /\ file' \o out_buf' = d
  BY <1>1, <1>2, <1>3, LeafOfText
<1>5. d \in Seq(FileByte) /\ StandsAt(Original, 0, d) /\ Original \in Seq(FileByte)
  <2>1. n \in 0 .. n /\ DoneBytes(input, n) = Original
    BY DoneBitsProperties, DoneBytesProperties DEF Original
  <2> QED  BY <1>4, <2>1, DoneBytesProperties DEF Original
<1> HIDE DEF d
<1>6. IsPrefix(d, Original)
  <2>1. Len(d) \in Nat /\ Len(Original) \in Nat
    BY <1>5, LenProperties
  <2>2. Len(d) <= Len(Original)
    BY <1>5, <2>1 DEF StandsAt
  <2>3. ASSUME NEW j \in 1 .. Len(d) PROVE d[j] = Original[j]
    <3>1. 0 + j = j
      BY <2>1
    <3> QED  BY <1>5, <3>1 DEF StandsAt
  <2> QED  BY <1>5, <2>2, <2>3, IsPrefixElements
<1>7. IsPrefix(file', d)
  BY <1>4, IsPrefixConcat
<1> QED  BY <1>5, <1>6, <1>7, IsPrefixTransitive

\* Every step is one the abstract module allows, or none of its business.
LEMMA StepRefines ==
  ASSUME RInv, TextFits(input), HasRoom(input), [Next]_vars
  PROVE  [Abstract!Next]_(Abstract!vars)
<1>1. /\ IInv /\ FilesInv /\ input \in Inputs /\ file \in Seq(FileByte)
      /\ out_buf \in Seq(FileByte) /\ Len(file) <= input.capacity
      /\ file' \in Seq(FileByte) /\ out_buf' \in Seq(FileByte)
  BY StepIInv DEF RInv, IInv, FilesInv
<1>2. /\ input' = input /\ Intact' = Intact /\ Original' = Original /\ Sound' = Sound
  BY InputStays DEF Original, Sound
<1>3. pc # "done" => outcome = "running"
  BY <1>1 DEF IInv, RunningInv
<1>4. ASSUME file' = file, outcome' = outcome
      PROVE  UNCHANGED Abstract!vars
  BY <1>2, <1>4 DEF Abstract!vars, Original, Sound
<1>5. ASSUME pc # "done"
      PROVE  Abstract!Running
  BY <1>2, <1>3, <1>5 DEF Abstract!Running, Original, Sound
<1>6. CASE UNCHANGED vars
  BY <1>4, <1>6 DEF vars
<1>7. CASE \/ OpenStream \/ ReadCount \/ ReadEntry \/ CreateOutput
           \/ ReadTotal \/ DecodeInnerNode
  BY <1>4, <1>7 DEF OpenStream, ReadCount, ReadEntry, CreateOutput, ReadTotal,
                    DecodeInnerNode
<1>8. CASE DecodeLeaf
  <2> DEFINE buf == out_buf \o Utf8(Decoded)
  <2>1. /\ pc # "done" /\ Decoded \in DOMAIN Utf8Length /\ outcome' = outcome
        /\ file' = WriteToFile(buf) \/ file' = file
    BY <1>8 DEF DecodeLeaf, Decoding
  <2>2. CASE file' = file
    BY <1>4, <2>1, <2>2
  <2>3. CASE file' # file
    <3>1. buf \in Seq(FileByte)
      <4> DEFINE u == Utf8(Decoded)
      <4>1. u \in Seq(FileByte)
        BY <2>1, Utf8Type
      <4> HIDE DEF u
      <4>2. out_buf \o u \in Seq(FileByte)
        BY <1>1, <4>1, ConcatProperties
      <4> QED  BY <4>2 DEF u
    <3> HIDE DEF buf
    <3>2. IsPrefix(file, WriteToFile(buf))
      BY <1>1, <3>1, WriteToFileGrows
    <3>3. IsPrefix(file, file') /\ file # file'
      BY <2>1, <2>3, <3>2
    <3>4. Intact => IsPrefix(file', Original)
      BY <1>1, <1>8, WritesText
    <3>5. Abstract!Write
      BY <1>5, <2>1, <3>3, <3>4
         DEF Abstract!Write, Original, IsPrefix, IsStrictPrefix, Abstract!IsPrefix,
             Abstract!IsStrictPrefix
    <3> QED  BY <3>5 DEF Abstract!Next
  <2> QED  BY <2>2, <2>3
<1>9. CASE ReadTotalZero \/ Finish
  <2>1. pc # "done" /\ outcome' = "success"
    BY <1>9 DEF ReadTotalZero, Finish, End
  <2>2. Intact => Sound /\ file' = Original
    BY <1>9, SucceedsWithText
  <2>3. IsPrefix(file, file')
    <3>1. file' = file \/ file' = WriteToFile(out_buf)
      BY <1>9 DEF ReadTotalZero, Finish
    <3>2. IsPrefix(file, file) /\ IsPrefix(file, WriteToFile(out_buf))
      BY <1>1, IsPrefixReflexive, WriteToFileGrows
    <3> QED  BY <3>1, <3>2
  <2>4. Abstract!Succeed
    BY <1>5, <2>1, <2>2, <2>3
       DEF Abstract!Succeed, Original, Sound, IsPrefix, Abstract!IsPrefix
  <2> QED  BY <2>4 DEF Abstract!Next
<1>10. CASE \/ OpenStreamFails \/ CreateOutputFails \/ HeaderCutShort
            \/ FirstBufferCutShort \/ InvalidCodepoint \/ NoCodeForBits
            \/ PayloadCutShort
  <2>1. /\ pc # "done" /\ file' = file
        /\ outcome' \in {"file_operation_error", "unknown_error"}
    BY <1>10 DEF OpenStreamFails, CreateOutputFails, HeaderCutShort,
                 FirstBufferCutShort, InvalidCodepoint, NoCodeForBits,
                 PayloadCutShort, Throw, End, Decoding
  <2>2. Intact => ~ Sound /\ outcome' = "file_operation_error"
    BY <1>10, FailsOnlyUnsound
  <2>3. Abstract!Fail
    BY <1>5, <2>1, <2>2 DEF Abstract!Fail, Sound
  <2> QED  BY <2>3 DEF Abstract!Next
<1> QED  BY <1>6, <1>7, <1>8, <1>9, <1>10 DEF Next

\* The call keeps the promise of DecompressSpec to the user, also for a file that
\* is damaged: what it writes of an intact file is right at every moment, it
\* returns exactly when all of it has been written, and gives up only when the file
\* is incomplete or a file cannot be opened.
THEOREM ImplementsDecompressSpecCorrect ==
  ASSUME AllTextsFit, \A i \in Inputs : HasRoom(i)
  PROVE  Spec => ImplementsDecompressSpec
<1>1. Init => Abstract!Init
  BY DEF Init, Abstract!Init
<1>2. RInv /\ [Next]_vars => [Abstract!Next]_(Abstract!vars)
  <2> SUFFICES ASSUME RInv, [Next]_vars PROVE [Abstract!Next]_(Abstract!vars)
    OBVIOUS
  <2>1. TextFits(input) /\ HasRoom(input)
    BY DEF AllTextsFit, RInv, IInv
  <2> QED  BY <2>1, StepRefines
<1>3. Spec => []RInv
  BY RInvCorrect
<1> QED  BY <1>1, <1>2, <1>3, PTL DEF Spec, ImplementsDecompressSpec, Abstract!Spec
=============================================================================
