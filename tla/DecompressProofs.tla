--------------------------- MODULE DecompressProofs ---------------------------
(***************************************************************************)
(* Machine-checked proofs about Decompress, for every width of bytes and   *)
(* fields, every size of the two buffers and every content of the files.   *)
(***************************************************************************)
EXTENDS Decompress, CompressedFormatProofs

-----------------------------------------------------------------------------
(* The inductive invariant.                                                *)

Reader == [total_bits : Nat, bits_read : Nat, cursor : Nat, buffer : Seq(Byte)]

\* The cursor stays inside the buffer, and no more bits are counted than were
\* announced.
ReaderOK(r) ==
  /\ r \in Reader
  /\ r.cursor <= Len(r.buffer) * ByteBits
  /\ r.bits_read <= r.total_bits

CodesOK(codes) ==
  /\ DOMAIN codes \subseteq 0 .. (FieldRange(CodepointBytes) - 1)
  /\ \A c \in DOMAIN codes : codes[c] \in Seq(Bit)

\* Before the payload nothing has been decoded.
HeaderInv ==
  pc \in {"open", "count", "entry", "total"} =>
    /\ trie = <<>>
    /\ out_buf = <<>>
    /\ file = <<>>
    /\ reader.total_bits = 0
    /\ reader.bits_read = 0

\* The trie is that of the header, and the decoder stands at a node that is no
\* leaf.
TrieInv ==
  pc = "decode" =>
    /\ trie = BuildDecodeTrie(prefixes)
    /\ node \in DOMAIN trie
    /\ ~ trie[node].is_leaf

\* pos is behind the entries that are not still to be read.
HeaderReadInv ==
  /\ pc \in {"open", "count"} => pos = 0
  /\ pc \in {"entry", "total"} =>
       /\ AnnouncedEntries \in Nat /\ entries <= AnnouncedEntries
       /\ pos = HeaderEnd(input.stream, AnnouncedEntries - entries)
  /\ pc = "total" => entries = 0

\* Of the bytes read since the payload started, those in the buffer have been
\* used up to the cursor and the others completely, and none is behind it.
PayloadInv ==
  pc = "decode" =>
    /\ PayloadAt \in Nat /\ reader.total_bits = AnnouncedBits
    /\ PayloadAt + Len(reader.buffer) <= pos
    /\ pos <= PayloadAt + BytesFor(AnnouncedBits)
    /\ reader.bits_read
         = (pos - PayloadAt - Len(reader.buffer)) * ByteBits + reader.cursor

RunningInv == pc # "done" => outcome = "running"

IInv ==
  /\ input \in Inputs
  /\ pc \in {"open", "count", "entry", "total", "decode", "done"}
  /\ pos \in 0 .. Len(input.stream)
  /\ entries \in 0 .. (FieldRange(CountBytes) - 1)
  /\ CodesOK(prefixes)
  /\ ReaderOK(reader)
  /\ out_buf \in Seq(FileByte)
  /\ file \in Seq(FileByte)
  /\ outcome \in {"running", "success", "file_operation_error", "unknown_error"}
  /\ \A n \in DOMAIN trie :
       trie[n].is_leaf => trie[n].codepoint \in DOMAIN prefixes
  /\ HeaderInv
  /\ TrieInv
  /\ HeaderReadInv
  /\ PayloadInv
  /\ RunningInv
  /\ SuccessReadsAll

-----------------------------------------------------------------------------
(* The operators.                                                          *)

\* A field has room for at least one number.
LEMMA FieldRangeType ==
  ASSUME NEW n \in Nat
  PROVE  FieldRange(n) \in Nat \ {0}
<1>1. n * ByteBits \in Nat
  BY WidthsAssumption, ProductOrder
<1> QED  BY <1>1, Pow2Properties DEF FieldRange

\* The widths of the fields.
LEMMA WidthsType ==
  /\ ByteBits \in Nat \ {0} /\ CountBytes \in Nat \ {0}
  /\ CodepointBytes \in Nat \ {0} /\ LengthBytes \in Nat \ {0}
  /\ TotalBytes \in Nat \ {0}
BY WidthsAssumption

\* The bytes of the stream from an offset on.
LEMMA BytesAtProperties ==
  ASSUME input.stream \in Seq(Byte), NEW offset \in Nat, NEW n \in Nat,
         offset + n <= Len(input.stream)
  PROVE  BytesAt(offset, n) \in Seq(Byte) /\ Len(BytesAt(offset, n)) = n
<1> DEFINE s == input.stream
<1>1. s \in Seq(Byte) /\ Len(s) \in Nat /\ offset + n <= Len(s)
  BY LenProperties
<1>2. BytesAt(offset, n) = SubSeq(s, offset + 1, offset + n)
  BY DEF BytesAt
<1> HIDE DEF s
<1>3. offset + 1 \in Int /\ offset + n \in Int
  OBVIOUS
<1>4. \A i \in (offset + 1) .. (offset + n) : s[i] \in Byte
  <2> SUFFICES ASSUME NEW i \in (offset + 1) .. (offset + n)
               PROVE  s[i] \in Byte
    OBVIOUS
  <2>1. i \in 1 .. Len(s)
    BY <1>1
  <2> QED  BY <1>1, <2>1, ElementOfSeq
<1> DEFINE t == SubSeq(s, offset + 1, offset + n)
<1>5. /\ t \in Seq(Byte)
      /\ Len(t) = IF offset + 1 <= offset + n
                    THEN (offset + n) - (offset + 1) + 1 ELSE 0
  BY <1>3, <1>4, SubSeqProperties
<1> HIDE DEF t
<1>6. t \in Seq(Byte) /\ Len(t) = n
  BY <1>5
<1> QED  BY <1>2, <1>6 DEF t

\* refill asks for a number of bytes.
LEMMA BytesToReadType ==
  ASSUME NEW r, ReaderOK(r)
  PROVE  BytesToRead(r) \in Nat
<1> DEFINE remaining == r.total_bits - r.bits_read
           sum == (remaining + ByteBits - 1) % SizeRange
           bytes == sum \div ByteBits
<1>1. remaining \in Nat /\ ByteBits \in Nat \ {0} /\ DecodeBufferBytes \in Nat
  BY WidthsType, BuffersAssumption DEF ReaderOK, Reader
<1>2. SizeRange \in Nat \ {0}
  BY WidthsType, FieldRangeType DEF SizeRange
<1>3. BytesToRead(r) = IF remaining = 0 THEN 0 ELSE Min({DecodeBufferBytes, bytes})
  BY DEF BytesToRead
<1>4. remaining + ByteBits - 1 \in Nat
  BY <1>1
<1> HIDE DEF remaining
<1>5. sum \in Nat
  <2> DEFINE x == remaining + ByteBits - 1
  <2>1. x \in Nat
    BY <1>4
  <2> HIDE DEF x
  <2>2. x % SizeRange \in Nat
    BY <1>2, <2>1, DivisionProperties
  <2> QED  BY <2>2 DEF x
<1> HIDE DEF sum
<1>6. bytes \in Nat
  BY <1>1, <1>5, DivisionProperties
<1> HIDE DEF bytes
<1>7. Min({DecodeBufferBytes, bytes}) \in Nat
  BY <1>1, <1>6 DEF Min
<1> QED  BY <1>3, <1>7

\* The first bytes of a sequence, up to a number of them.
LEMMA WriteToFileProperties ==
  ASSUME input \in Inputs, file \in Seq(FileByte), NEW data \in Seq(FileByte)
  PROVE  /\ WriteToFile(data) \in Seq(FileByte)
         /\ Len(WriteToFile(data)) < input.capacity => WriteToFile(data) = file \o data
<1> DEFINE all == file \o data
           n == Min({input.capacity, Len(all)})
<1>1. all \in Seq(FileByte) /\ Len(all) \in Nat /\ input.capacity \in Nat
  BY InputsAssumption, ConcatProperties, LenProperties
<1>2. WriteToFile(data) = SubSeq(all, 1, n)
  BY DEF WriteToFile
<1> HIDE DEF all
<1>3. n \in 0 .. Len(all) /\ (n = input.capacity \/ n = Len(all))
  BY <1>1 DEF Min
<1> HIDE DEF n
<1>4. \A i \in 1 .. n : all[i] \in FileByte
  BY <1>1, <1>3, ElementOfSeq
<1>5. SubSeq(all, 1, n) \in Seq(FileByte) /\ Len(SubSeq(all, 1, n)) = n
  <2>1. 1 \in Int /\ n \in Int
    BY <1>3
  <2>2. /\ SubSeq(all, 1, n) \in Seq(FileByte)
        /\ Len(SubSeq(all, 1, n)) = IF 1 <= n THEN n - 1 + 1 ELSE 0
    BY <1>4, <2>1, SubSeqProperties
  <2> HIDE DEF all
  <2> QED  BY <1>3, <2>2
<1>6. ASSUME n < input.capacity
      PROVE  SubSeq(all, 1, n) = all
  <2>1. n = Len(all)
    BY <1>1, <1>3, <1>6
  <2> QED  BY <1>1, <2>1, SubSeqFull
<1> QED  BY <1>2, <1>5, <1>6 DEF all

\* The UTF-8 form of a codepoint.
LEMMA Utf8Type ==
  ASSUME NEW c \in DOMAIN Utf8Length
  PROVE  /\ Utf8Length[c] \in 1 .. 4
         /\ Utf8(c) \in Seq(FileByte) /\ Len(Utf8(c)) = Utf8Length[c]
<1>1. Utf8Length[c] \in 1 .. 4
  BY BuffersAssumption
<1>2. Utf8(c) \in [1 .. Utf8Length[c] -> FileByte]
  BY <1>1 DEF Utf8, FileByte
<1>3. Utf8Length[c] \in Nat
  BY <1>1
<1> QED  BY <1>1, <1>2, <1>3, SeqDef, LenProperties

\* A leaf of the trie stands for a codepoint of the header that has the way to
\* it as its code, and the root is no leaf.
LEMMA TrieProperties ==
  ASSUME NEW codes, CodesOK(codes)
  PROVE  LET t == BuildDecodeTrie(codes)
         IN /\ DOMAIN t \subseteq Seq(Bit)
            /\ Root \in DOMAIN t /\ ~ t[Root].is_leaf
            /\ \A n \in DOMAIN t : t[n].is_leaf =>
                 t[n].codepoint \in DOMAIN codes /\ codes[t[n].codepoint] = n
<1> DEFINE t == BuildDecodeTrie(codes)
<1>1. DOMAIN t = TrieNodes(codes)
  BY DEF BuildDecodeTrie
<1>2. TrieNodes(codes) \subseteq Seq(Bit)
  <2>1. Root \in Seq(Bit)
    BY EmptySeq DEF Root
  <2>2. ASSUME NEW c \in DOMAIN codes, NEW n \in Prefixes(codes[c])
        PROVE  n \in Seq(Bit)
    <3> DEFINE s == codes[c]
    <3>1. s \in Seq(Bit) /\ Len(s) \in Nat
      BY LenProperties DEF CodesOK
    <3> HIDE DEF s
    <3>2. PICK l \in 0 .. Len(s) : n = SubSeq(s, 1, l)
      BY <2>2 DEF Prefixes, s
    <3>3. 1 \in Int /\ l \in Int /\ \A i \in 1 .. l : s[i] \in Bit
      BY <3>1, ElementOfSeq
    <3>4. SubSeq(s, 1, l) \in Seq(Bit)
      BY <3>3, SubSeqProperties
    <3> QED  BY <3>2, <3>4
  <2> QED  BY <2>1, <2>2 DEF TrieNodes
<1>3. Root \in TrieNodes(codes) /\ CodepointsAt(codes, Root) = {}
  BY DEF TrieNodes, CodepointsAt
<1>4. ASSUME NEW n \in DOMAIN t, t[n].is_leaf
      PROVE  t[n].codepoint \in DOMAIN codes /\ codes[t[n].codepoint] = n
  <2> DEFINE C == CodepointsAt(codes, n)
  <2>1. C # {} /\ t[n].codepoint = Max(C)
    BY <1>1, <1>4 DEF BuildDecodeTrie
  <2>2. C \subseteq DOMAIN codes /\ \A c \in C : codes[c] = n
    BY DEF CodepointsAt
  <2> DEFINE m == FieldRange(CodepointBytes) - 1
  <2>3. m \in Nat
    BY WidthsType, FieldRangeType
  <2>4. C \in SUBSET Nat /\ \A y \in C : y <= m
    <3>1. C \subseteq 0 .. m
      BY <2>2 DEF CodesOK
    <3> HIDE DEF C, m
    <3> QED  BY <2>3, <3>1
  <2>5. Max(C) \in C
    BY <2>1, <2>3, <2>4, MaxProperties
  <2> QED  BY <2>1, <2>2, <2>5
<1>5. ~ t[Root].is_leaf
  BY <1>1, <1>3 DEF BuildDecodeTrie
<1> QED  BY <1>1, <1>2, <1>3, <1>4, <1>5

\* A refill asks for no more than the bytes that hold the remaining bits.
LEMMA BytesToReadBound ==
  ASSUME NEW r, ReaderOK(r)
  PROVE  BytesToRead(r) <= BytesFor(r.total_bits - r.bits_read)
<1> DEFINE remaining == r.total_bits - r.bits_read
           x == remaining + ByteBits - 1
           sum == x % SizeRange
           bytes == sum \div ByteBits
<1>1. remaining \in Nat /\ ByteBits \in Nat \ {0} /\ DecodeBufferBytes \in Nat
  BY WidthsType, BuffersAssumption DEF ReaderOK, Reader
<1>2. SizeRange \in Nat \ {0}
  BY WidthsType, FieldRangeType DEF SizeRange
<1>3. BytesToRead(r) = IF remaining = 0 THEN 0 ELSE Min({DecodeBufferBytes, bytes})
  BY DEF BytesToRead
<1>4. BytesFor(remaining) = x \div ByteBits /\ BytesFor(remaining) \in Nat
  BY <1>1, BytesForProperties DEF BytesFor
<1>5. x \in Nat
  BY <1>1
<1> HIDE DEF remaining, x
<1>6. sum \in Nat /\ sum <= x
  <2>1. /\ x % SizeRange \in Nat /\ x \div SizeRange \in Nat
        /\ x = (x \div SizeRange) * SizeRange + (x % SizeRange)
    BY <1>2, <1>5, DivisionProperties
  <2>2. (x \div SizeRange) * SizeRange \in Nat
    BY <1>2, <2>1, ProductOrder
  <2> QED  BY <1>5, <2>1, <2>2
<1> HIDE DEF sum
<1>7. bytes \in Nat /\ bytes <= x \div ByteBits
  <2> DEFINE q == x \div ByteBits
             j == x % ByteBits
             i == sum % ByteBits
  <2>1. /\ q \in Nat /\ j \in 0 .. (ByteBits - 1) /\ x = q * ByteBits + j
        /\ bytes \in Nat /\ i \in 0 .. (ByteBits - 1) /\ sum = bytes * ByteBits + i
    BY <1>1, <1>5, <1>6, DivisionProperties
  <2> HIDE DEF q, j, i, bytes
  <2> SUFFICES ASSUME q < bytes PROVE FALSE
    BY <2>1 DEF q
  <2>2. q * ByteBits + ByteBits <= bytes * ByteBits
    BY <1>1, <2>1, ProductOrder
  <2>3. q * ByteBits \in Nat /\ bytes * ByteBits \in Nat
    BY <1>1, <2>1, ProductOrder
  <2> QED  BY <1>1, <1>6, <2>1, <2>2, <2>3
<1> HIDE DEF bytes
<1>8. Min({DecodeBufferBytes, bytes}) <= bytes
  BY <1>1, <1>7 DEF Min
<1>9. Min({DecodeBufferBytes, bytes}) \in Nat
  BY <1>1, <1>7 DEF Min
<1> QED  BY <1>3, <1>4, <1>7, <1>8, <1>9 DEF remaining

\* HeaderEnd goes from entry to entry.
LEMMA HeaderEndProperties ==
  ASSUME input.stream \in Seq(Byte)
  PROVE  LET end(n) == HeaderEnd(input.stream, n)
             size(offset) == BytesFor(ReadBe(BytesAt(offset + CodepointBytes, LengthBytes)))
         IN /\ end(0) = CountBytes
            /\ \A n \in Nat : end(n) \in Nat
            /\ \A n \in Nat :
                 end(n) + CodeOffset <= Len(input.stream) =>
                   end(n + 1) = end(n) + CodeOffset + size(end(n))
<1> DEFINE s == input.stream
           field(offset) == SubSeq(s, offset + CodepointBytes + 1, offset + CodeOffset)
           next(offset) == IF offset + CodeOffset <= Len(s)
                             THEN offset + CodeOffset + BytesFor(ReadBe(field(offset)))
                             ELSE offset
           Rec(f) == f = [k \in Nat |-> IF k = 0 THEN CountBytes ELSE next(f[k - 1])]
           step == [p \in Nat \X Nat |-> next(p[2])]
<1>1. /\ CountBytes \in Nat /\ CodepointBytes \in Nat /\ LengthBytes \in Nat
      /\ CodeOffset = CodepointBytes + LengthBytes /\ Len(s) \in Nat
  BY WidthsType, LenProperties DEF CodeOffset
<1>2. ASSUME NEW offset \in Nat
      PROVE  /\ field(offset) = BytesAt(offset + CodepointBytes, LengthBytes)
             /\ next(offset) \in Nat
  <2>1. (offset + CodepointBytes) + LengthBytes = offset + CodeOffset
    BY <1>1
  <2>2. field(offset) = BytesAt(offset + CodepointBytes, LengthBytes)
    BY <2>1 DEF BytesAt
  <2>3. CASE offset + CodeOffset <= Len(s)
    <3>1. offset + CodepointBytes \in Nat
          /\ (offset + CodepointBytes) + LengthBytes <= Len(s)
      BY <1>1, <2>1, <2>3
    <3>2. field(offset) \in Seq(Byte)
      BY <1>1, <2>2, <3>1, BytesAtProperties
    <3> HIDE DEF field
    <3>3. ReadBe(field(offset)) \in Nat
      BY <3>2, ReadBeRange
    <3>4. BytesFor(ReadBe(field(offset))) \in Nat
      BY <3>3, BytesForProperties
    <3>5. next(offset) = offset + CodeOffset + BytesFor(ReadBe(field(offset)))
      BY <2>3
    <3> HIDE DEF next
    <3>6. next(offset) \in Nat
      BY <1>1, <3>4, <3>5
    <3> QED  BY <2>2, <3>6 DEF field
  <2>4. CASE ~ (offset + CodeOffset <= Len(s))
    BY <2>2, <2>4
  <2> QED  BY <2>3, <2>4
<1>3. \A offset \in Nat : offset + CodeOffset <= Len(s) =>
        next(offset) = offset + CodeOffset + BytesFor(ReadBe(field(offset)))
  OBVIOUS
<1>4. HeaderEnd(s, 0) = (CHOOSE f : Rec(f))[0]
      /\ \A n \in Nat : HeaderEnd(s, n) = (CHOOSE f : Rec(f))[n]
  BY DEF HeaderEnd
<1> HIDE DEF next
<1>5. step \in [Nat \X Nat -> Nat] /\ \A n, v \in Nat : step[<<n, v>>] = next(v)
  BY <1>2
<1> HIDE DEF step
<1>6. PICK f \in [Nat -> Nat] : IsRecursive(f, CountBytes, step)
  <2>1. step \in [Nat \X Nat -> Nat]
    BY <1>5
  <2> QED  BY ONLY <1>1, <2>1, RecursiveFunction
<1>7. Rec(f)
  <2>1. ASSUME NEW n \in Nat
        PROVE  f[n] = IF n = 0 THEN CountBytes ELSE next(f[n - 1])
    <3>1. CASE n # 0
      <4>1. n - 1 \in Nat /\ (n - 1) + 1 = n
        BY <3>1
      <4>2. f[(n - 1) + 1] = step[<<n - 1, f[n - 1]>>] /\ f[n - 1] \in Nat
        BY <1>6, <4>1 DEF IsRecursive
      <4> QED  BY <1>5, <3>1, <4>1, <4>2
    <3> QED  BY <1>6, <3>1 DEF IsRecursive
  <2>2. f = [n \in Nat |-> f[n]]
    OBVIOUS
  <2> QED  BY <2>1, <2>2
<1> DEFINE g == CHOOSE h : Rec(h)
<1>8. Rec(g)
  <2> HIDE DEF Rec
  <2> QED  BY <1>7
<1>9. \A n \in Nat : g[n] = IF n = 0 THEN CountBytes ELSE next(g[n - 1])
  <2> HIDE DEF g
  <2> QED  BY <1>8
<1>10. HeaderEnd(s, 0) = g[0] /\ \A n \in Nat : HeaderEnd(s, n) = g[n]
  BY <1>4
<1> HIDE DEF g, Rec
<1>11. g[0] = CountBytes /\ \A n \in Nat : g[n + 1] = next(g[n])
  <2>1. ASSUME NEW n \in Nat PROVE g[n + 1] = next(g[n])
    <3>1. n + 1 \in Nat /\ n + 1 # 0 /\ (n + 1) - 1 = n
      OBVIOUS
    <3> QED  BY <1>9, <3>1
  <2> QED  BY <1>9, <2>1
<1> DEFINE T == {n \in Nat : g[n] \in Nat}
<1>12. 0 \in T /\ \A n \in Nat : n \in T => n + 1 \in T
  <2>1. ASSUME NEW n \in Nat, n \in T
        PROVE  n + 1 \in T
    <3>1. g[n] \in Nat
      BY <2>1
    <3>2. next(g[n]) \in Nat
      BY <1>2, <3>1
    <3>3. g[n + 1] \in Nat
      BY <1>11, <3>2, Zenon
    <3>4. n + 1 \in Nat
      OBVIOUS
    <3> QED  BY <3>3, <3>4, Zenon
  <2> QED  BY <1>1, <1>11, <2>1
<1> HIDE DEF T
<1>13. Nat \subseteq T
  BY <1>12, SetInduction
<1>14. \A n \in Nat : g[n] \in Nat
  BY <1>13 DEF T
<1>15. ASSUME NEW n \in Nat, g[n] + CodeOffset <= Len(s)
       PROVE  g[n + 1] = g[n] + CodeOffset
                + BytesFor(ReadBe(BytesAt(g[n] + CodepointBytes, LengthBytes)))
  <2>1. g[n] \in Nat /\ g[n + 1] = next(g[n])
    BY <1>11, <1>14
  <2>2. next(g[n]) = g[n] + CodeOffset + BytesFor(ReadBe(field(g[n])))
    BY <1>3, <1>15, <2>1
  <2>3. field(g[n]) = BytesAt(g[n] + CodepointBytes, LengthBytes)
    BY <1>2, <2>1
  <2> HIDE DEF field
  <2> QED  BY <2>1, <2>2, <2>3
<1>16. ASSUME NEW n \in Nat
       PROVE  HeaderEnd(s, n) = g[n] /\ HeaderEnd(s, n + 1) = g[n + 1]
  BY <1>10
<1>17. HeaderEnd(s, 0) = CountBytes /\ \A n \in Nat : HeaderEnd(s, n) \in Nat
  BY <1>10, <1>11, <1>14
<1>18. ASSUME NEW n \in Nat, HeaderEnd(s, n) + CodeOffset <= Len(s)
       PROVE  HeaderEnd(s, n + 1)
                = HeaderEnd(s, n) + CodeOffset
                    + BytesFor(ReadBe(BytesAt(HeaderEnd(s, n) + CodepointBytes,
                                              LengthBytes)))
  BY ONLY <1>15, <1>16, <1>18
<1> QED  BY ONLY <1>17, <1>18

\* What the file announces does not change.
LEMMA AnnouncementsStay ==
  ASSUME input' = input
  PROVE  /\ AnnouncedEntries' = AnnouncedEntries
         /\ TotalAt' = TotalAt
         /\ AnnouncedBits' = AnnouncedBits
         /\ PayloadAt' = PayloadAt
<1>1. AnnouncedEntries' = AnnouncedEntries
  BY DEF AnnouncedEntries, BytesAt
<1>2. TotalAt' = TotalAt
  BY <1>1 DEF TotalAt
<1>3. AnnouncedBits' = AnnouncedBits
  BY <1>2 DEF AnnouncedBits, BytesAt
<1> QED  BY <1>1, <1>2, <1>3 DEF PayloadAt

\* A refill replaces the buffer and starts at its first bit.
LEMMA RefillProperties ==
  ASSUME input.stream \in Seq(Byte), NEW r, ReaderOK(r), NEW offset \in Nat,
         offset + BytesToRead(r) <= Len(input.stream)
  PROVE  /\ ReaderOK(Refill(r, offset))
         /\ Len(Refill(r, offset).buffer) = BytesToRead(r)
         /\ Refill(r, offset).cursor = 0
         /\ Refill(r, offset).bits_read = r.bits_read
         /\ Refill(r, offset).total_bits = r.total_bits
<1> DEFINE b == BytesAt(offset, BytesToRead(r))
           f == Refill(r, offset)
<1>1. BytesToRead(r) \in Nat /\ ByteBits \in Nat
  BY BytesToReadType, WidthsType
<1>2. b \in Seq(Byte) /\ Len(b) = BytesToRead(r)
  BY <1>1, BytesAtProperties
<1>3. /\ f = [r EXCEPT !.buffer = b, !.cursor = 0]
      /\ r \in Reader /\ r.bits_read <= r.total_bits
  BY DEF Refill, ReaderOK
<1> HIDE DEF b, f
<1>4. /\ f \in Reader /\ f.buffer = b /\ f.cursor = 0
      /\ f.bits_read = r.bits_read /\ f.total_bits = r.total_bits
  BY <1>2, <1>3 DEF Reader
<1>5. 0 <= Len(f.buffer) * ByteBits
  BY <1>1, <1>2, <1>4, ProductOrder, WidthsType
<1> QED  BY <1>2, <1>3, <1>4, <1>5 DEF ReaderOK, f

\* next_bit takes the bit at the cursor, or with an empty buffer none.
LEMMA NextBitProperties ==
  ASSUME NEW r, ReaderOK(r), r.bits_read < r.total_bits,
         r.buffer # <<>> => r.cursor < Len(r.buffer) * ByteBits
  PROVE  /\ NextBit(r).bit \in Bit
         /\ ReaderOK(NextBit(r).reader)
         /\ NextBit(r).reader.buffer = r.buffer
         /\ NextBit(r).reader.total_bits = r.total_bits
         /\ \/ NextBit(r).reader = r /\ r.buffer = <<>>
            \/ /\ r.buffer # <<>>
               /\ NextBit(r).bit
                    = r.buffer[1 + (r.cursor \div ByteBits)][1 + (r.cursor % ByteBits)]
               /\ NextBit(r).reader.bits_read = r.bits_read + 1
               /\ NextBit(r).reader.cursor = r.cursor + 1
<1>1. /\ r \in Reader /\ r.bits_read \in Nat /\ r.total_bits \in Nat
      /\ r.cursor \in Nat /\ r.buffer \in Seq(Byte)
      /\ r.cursor <= Len(r.buffer) * ByteBits
  BY DEF ReaderOK, Reader
<1>2. CASE r.buffer = <<>>
  <2>1. NextBit(r) = [bit |-> 0, reader |-> r]
    BY <1>2 DEF NextBit
  <2> QED  BY <1>2, <2>1 DEF Bit
<1>3. CASE r.buffer # <<>>
  <2> DEFINE b == r.buffer
             k == 1 + (r.cursor \div ByteBits)
             j == 1 + (r.cursor % ByteBits)
             next == [r EXCEPT !.cursor = r.cursor + 1, !.bits_read = r.bits_read + 1]
  <2>1. NextBit(r) = [bit |-> b[k][j], reader |-> next]
    <3>1. ~ (r.bits_read >= r.total_bits)
      BY <1>1
    <3> QED  BY <1>3, <3>1 DEF NextBit
  <2>2. b[k][j] \in Bit
    <3> DEFINE n == r.cursor + 1
    <3>1. n \in Nat /\ n \in 1 .. n /\ n - 1 = r.cursor
      BY <1>1
    <3>2. b \in Seq(Byte) /\ Len(b) \in Nat
      BY <1>1, LenProperties
    <3>3. Len(b) * ByteBits \in Nat
      <4> HIDE DEF b
      <4> QED  BY <3>2, WidthsType, ProductOrder
    <3>4. n <= Len(b) * ByteBits
      <4>1. r.cursor < Len(b) * ByteBits
        BY <1>3
      <4> HIDE DEF b
      <4> QED  BY <1>1, <3>3, <4>1
    <3>5. k \in 1 .. Len(b) /\ j \in 1 .. ByteBits
      <4> HIDE DEF n, b
      <4>1. /\ 1 + ((n - 1) \div ByteBits) \in 1 .. Len(b)
            /\ 1 + ((n - 1) % ByteBits) \in 1 .. ByteBits
        BY <3>1, <3>2, <3>4, BitPlace
      <4> QED  BY <3>1, <4>1
    <3>6. b[k] \in Byte
      <4> HIDE DEF b, k
      <4> QED  BY <3>2, <3>5, ElementOfSeq
    <3> HIDE DEF b, k, j
    <3> QED  BY <3>5, <3>6 DEF Byte
  <2>3. /\ next \in Reader /\ next.buffer = r.buffer /\ next.total_bits = r.total_bits
        /\ next.cursor = r.cursor + 1 /\ next.bits_read = r.bits_read + 1
    <3> DEFINE x == r.cursor + 1
               y == r.bits_read + 1
    <3>1. r \in Reader /\ x \in Nat /\ y \in Nat
      BY <1>1
    <3>2. next = [r EXCEPT !.cursor = x, !.bits_read = y]
      OBVIOUS
    <3> HIDE DEF x, y, next
    <3>3. /\ next \in Reader /\ next.buffer = r.buffer
          /\ next.total_bits = r.total_bits /\ next.cursor = x /\ next.bits_read = y
      BY <3>1, <3>2 DEF Reader
    <3> QED  BY <3>3 DEF x, y
  <2> HIDE DEF next
  <2>4. ReaderOK(next)
    <3> DEFINE m == Len(r.buffer) * ByteBits
    <3>1. m \in Nat
      BY <1>1, LenProperties, WidthsType, ProductOrder
    <3>2. r.cursor < m
      BY <1>3
    <3>3. r.cursor + 1 <= m /\ r.bits_read + 1 <= r.total_bits
      <4> HIDE DEF m
      <4> QED  BY <1>1, <3>1, <3>2
    <3> QED  BY <2>3, <3>3 DEF ReaderOK
  <2> QED  BY <1>3, <2>1, <2>2, <2>3, <2>4
<1> QED  BY <1>2, <1>3

\* The reader of which next_bit is asked in one iteration.
Supplied == IF NeedsRefill THEN Refill(reader, pos) ELSE reader

\* In every iteration it has a bit under its cursor or nothing at all.
LEMMA SuppliedProperties ==
  ASSUME IInv, Decoding
  PROVE  LET used == IF NeedsRefill THEN BytesToRead(reader) ELSE 0
         IN /\ ReaderOK(Supplied)
            /\ Supplied.bits_read = reader.bits_read
            /\ Supplied.total_bits = reader.total_bits
            /\ reader.bits_read < reader.total_bits
            /\ Supplied.buffer # <<>> => Supplied.cursor < Len(Supplied.buffer) * ByteBits
            /\ used \in Nat /\ pos + used <= Len(input.stream)
            /\ ~ NeedsRefill => Supplied = reader
            /\ NeedsRefill => /\ Supplied.cursor = 0
                              /\ Len(Supplied.buffer) = used
                              /\ reader.cursor = Len(reader.buffer) * ByteBits
<1>1. /\ input.stream \in Seq(Byte) /\ ReaderOK(reader)
      /\ pos \in Nat /\ Len(input.stream) \in Nat /\ pos <= Len(input.stream)
  <2>1. input.stream \in Seq(Byte)
    BY InputsAssumption DEF IInv
  <2> QED  BY <2>1, LenProperties DEF IInv
<1>2. /\ reader.cursor \in Nat /\ Len(reader.buffer) * ByteBits \in Nat
      /\ reader.bits_read \in Nat /\ reader.total_bits \in Nat
      /\ reader.cursor <= Len(reader.buffer) * ByteBits
  <2>1. reader.buffer \in Seq(Byte)
    BY <1>1 DEF ReaderOK, Reader
  <2>2. Len(reader.buffer) \in Nat
    BY <2>1, LenProperties
  <2> QED  BY <1>1, <2>2, WidthsType, ProductOrder DEF ReaderOK, Reader
<1>3. reader.bits_read < reader.total_bits
  BY DEF Decoding, HasNext
<1>4. BytesToRead(reader) \in Nat
  BY <1>1, BytesToReadType
<1>5. CASE NeedsRefill
  <2>1. pos + BytesToRead(reader) <= Len(input.stream)
    BY <1>5 DEF Decoding, CanRead
  <2>2. Supplied = Refill(reader, pos)
    BY <1>5 DEF Supplied
  <2>3. /\ ReaderOK(Supplied) /\ Len(Supplied.buffer) = BytesToRead(reader)
        /\ Supplied.cursor = 0 /\ Supplied.bits_read = reader.bits_read
        /\ Supplied.total_bits = reader.total_bits
    BY <1>1, <2>1, <2>2, RefillProperties
  <2>4. Supplied.buffer # <<>> => 0 < Len(Supplied.buffer) * ByteBits
    <3> DEFINE b == Supplied.buffer
    <3>1. b \in Seq(Byte)
      BY <2>3 DEF ReaderOK, Reader
    <3> HIDE DEF b
    <3>2. b # <<>> => Len(b) \in Nat \ {0}
      BY <3>1, EmptySeq
    <3>3. ASSUME b # <<>> PROVE 0 < Len(b) * ByteBits
      <4>1. Len(b) \in Nat /\ 0 < Len(b)
        BY <3>2, <3>3
      <4>2. 0 * ByteBits + ByteBits <= Len(b) * ByteBits
        BY <4>1, WidthsType, ProductOrder
      <4>3. Len(b) * ByteBits \in Nat
        BY <4>1, WidthsType, ProductOrder
      <4> HIDE DEF b
      <4> QED  BY <4>2, <4>3, WidthsType
    <3> QED  BY <3>3 DEF b
  <2>5. reader.cursor = Len(reader.buffer) * ByteBits
    BY <1>2, <1>5 DEF NeedsRefill
  <2> QED  BY <1>3, <1>4, <1>5, <2>1, <2>3, <2>4, <2>5
<1>6. CASE ~ NeedsRefill
  <2>1. Supplied = reader
    BY <1>6 DEF Supplied
  <2>2. reader.cursor < Len(reader.buffer) * ByteBits
    BY <1>2, <1>6 DEF NeedsRefill
  <2> QED  BY <1>1, <1>3, <1>6, <2>1, <2>2
<1> QED  BY <1>5, <1>6

\* One iteration reads at most one bit and keeps account of it.
LEMMA TakeBitProperties ==
  ASSUME IInv, Decoding, TakeBit, UNCHANGED <<input, pc>>
  PROVE  /\ ReaderOK(reader')
         /\ pos' \in 0 .. Len(input'.stream)
         /\ PayloadInv'
         /\ Fetched.bit \in Bit
<1> DEFINE used == IF NeedsRefill THEN BytesToRead(reader) ELSE 0
           r == Supplied
           r2 == reader'
<1>1. /\ ReaderOK(r) /\ r.bits_read = reader.bits_read
      /\ r.total_bits = reader.total_bits /\ reader.bits_read < reader.total_bits
      /\ r.buffer # <<>> => r.cursor < Len(r.buffer) * ByteBits
      /\ used \in Nat /\ pos + used <= Len(input.stream)
      /\ ~ NeedsRefill => r = reader
      /\ NeedsRefill => /\ r.cursor = 0 /\ Len(r.buffer) = used
                        /\ reader.cursor = Len(reader.buffer) * ByteBits
  BY SuppliedProperties
<1>2. Fetched = NextBit(r) /\ r2 = Fetched.reader
  BY DEF Fetched, Supplied, TakeBit
<1>3. pos \in Nat /\ pos' = pos + used
  <2>1. pos \in Nat
    BY DEF IInv
  <2> QED  BY <2>1 DEF TakeBit
<1> HIDE DEF r, used
<1>4. r.bits_read < r.total_bits
  BY <1>1
<1>5. /\ Fetched.bit \in Bit /\ ReaderOK(r2) /\ r2.buffer = r.buffer
      /\ r2.total_bits = r.total_bits
      /\ \/ r2 = r
         \/ r2.bits_read = r.bits_read + 1 /\ r2.cursor = r.cursor + 1
  BY <1>1, <1>2, <1>4, NextBitProperties
<1> HIDE DEF r2
<1>6. /\ r.bits_read \in Nat /\ r.cursor \in Nat /\ r.buffer \in Seq(Byte)
      /\ Len(r.buffer) \in Nat
  <2>1. r.bits_read \in Nat /\ r.cursor \in Nat /\ r.buffer \in Seq(Byte)
    BY <1>1 DEF ReaderOK, Reader
  <2> QED  BY <2>1, LenProperties
<1>7. pos' \in 0 .. Len(input.stream)
  <2>1. Len(input.stream) \in Nat
    BY LenProperties, InputsAssumption DEF IInv
  <2> QED  BY <1>1, <1>3, <2>1
<1>8. PayloadInv'
  <2>1. pc = "decode" /\ reader.buffer \in Seq(Byte)
    BY DEF Decoding, IInv, ReaderOK, Reader
  <2> DEFINE l == Len(reader.buffer)
             k == Len(r.buffer)
             base == PayloadAt
             total == AnnouncedBits
  <2>2. /\ base \in Nat /\ reader.total_bits = total /\ base + l <= pos
        /\ pos <= base + BytesFor(total)
        /\ reader.bits_read = (pos - base - l) * ByteBits + reader.cursor
    BY <2>1 DEF IInv, PayloadInv
  <2>3. l \in Nat /\ k \in Nat
    BY <1>6, <2>1, LenProperties
  <2> HIDE DEF l, k, base, total
  <2>4. /\ base + k <= pos'
        /\ r.bits_read = (pos' - base - k) * ByteBits + r.cursor
    <3>1. CASE NeedsRefill
      <4>1. k = used /\ r.cursor = 0 /\ reader.cursor = l * ByteBits
        BY <1>1, <3>1 DEF k, l
      <4>2. pos' - base - k = pos - base /\ pos - base \in Nat /\ base + k <= pos'
        BY <1>1, <1>3, <2>2, <2>3, <4>1
      <4>3. (pos - base - l) * ByteBits + l * ByteBits = (pos - base) * ByteBits
        <5> DEFINE m == pos - base
        <5>1. m \in Nat
          BY <4>2
        <5> HIDE DEF m
        <5>2. (m - l) * ByteBits = m * ByteBits - l * ByteBits
          BY <2>3, <5>1, WidthsType, ProductOrder
        <5>3. m * ByteBits \in Nat /\ l * ByteBits \in Nat
          BY <2>3, <5>1, WidthsType, ProductOrder
        <5>4. (m - l) * ByteBits + l * ByteBits = m * ByteBits
          BY <5>2, <5>3
        <5> QED  BY <5>4 DEF m
      <4>4. (pos - base) * ByteBits \in Nat
        BY <4>2, WidthsType, ProductOrder
      <4> QED  BY <1>1, <2>2, <4>1, <4>2, <4>3, <4>4
    <3>2. CASE ~ NeedsRefill
      <4>1. r = reader /\ used = 0
        BY <1>1, <3>2 DEF used
      <4>2. k = l /\ pos' = pos
        BY <1>3, <4>1 DEF k, l
      <4> QED  BY <2>2, <4>1, <4>2
    <3> QED  BY <3>1, <3>2
  <2>5. Len(r2.buffer) = k
    BY <1>5 DEF k
  <2>6. (pos' - base - k) * ByteBits \in Nat
    <3>1. pos' - base - k \in Nat
      BY <1>1, <1>3, <2>2, <2>3, <2>4
    <3> QED  BY <3>1, WidthsType, ProductOrder
  <2>7. r2.bits_read = (pos' - base - k) * ByteBits + r2.cursor
    BY <1>5, <1>6, <2>4, <2>6
  <2>8. pos' <= base + BytesFor(total)
    <3>1. CASE NeedsRefill
      <4> DEFINE m == pos - base
                 rest == total - reader.bits_read
                 bytes == BytesFor(total)
      <4>1. used = BytesToRead(reader) /\ reader.cursor = l * ByteBits
        BY <1>1, <3>1 DEF l, used
      <4>2. m \in Nat /\ total \in Nat /\ reader.bits_read < total
        BY <1>1, <1>3, <2>2, <2>3 DEF IInv, ReaderOK, Reader
      <4>3. bytes \in Nat /\ total <= bytes * ByteBits /\ m <= bytes
        BY <1>3, <2>2, <4>2, BytesForProperties
      <4> HIDE DEF bytes
      <4>4. reader.bits_read = m * ByteBits /\ m * ByteBits \in Nat
        <5>1. pos - base - l \in Nat /\ m = (pos - base - l) + l
          BY <1>3, <2>2, <2>3
        <5>2. m * ByteBits = (pos - base - l) * ByteBits + l * ByteBits
          BY <2>3, <5>1, WidthsType, ProductOrder
        <5> HIDE DEF m
        <5> QED  BY <2>2, <4>1, <4>2, <5>2, WidthsType, ProductOrder
      <4> HIDE DEF m
      <4>5. rest \in Nat /\ rest <= (bytes - m) * ByteBits /\ bytes - m \in Nat
        <5>1. (bytes - m) * ByteBits = bytes * ByteBits - m * ByteBits
          BY <4>2, <4>3, WidthsType, ProductOrder
        <5>2. bytes * ByteBits \in Nat
          BY <4>3, WidthsType, ProductOrder
        <5> QED  BY <4>2, <4>3, <4>4, <5>1, <5>2
      <4>6. used <= BytesFor(rest)
        <5>1. ReaderOK(reader)
          BY DEF IInv
        <5>2. BytesToRead(reader) <= BytesFor(reader.total_bits - reader.bits_read)
          BY <5>1, BytesToReadBound
        <5> QED  BY <2>2, <4>1, <5>2
      <4> HIDE DEF rest
      <4>7. BytesFor(rest) <= bytes - m /\ BytesFor(rest) \in Nat
        BY <4>5, BytesForProperties
      <4> QED  BY <1>1, <1>3, <2>2, <4>3, <4>6, <4>7 DEF m, bytes
    <3>2. CASE ~ NeedsRefill
      <4>1. pos' = pos
        BY <1>3, <3>2 DEF used
      <4> QED  BY <2>2, <4>1
    <3> QED  BY <3>1, <3>2
  <2>9. base' = base /\ total' = total
    BY AnnouncementsStay DEF base, total
  <2>10. r2.total_bits = total
    BY <1>1, <1>5, <2>2
  <2> QED  BY <2>2, <2>4, <2>5, <2>7, <2>8, <2>9, <2>10 DEF PayloadInv, r2, base, total
<1> QED  BY <1>5, <1>7, <1>8 DEF r2

\* An exception ends the call and changes nothing else.
LEMMA ThrowKeepsIInv ==
  ASSUME IInv, NEW what \in {"file_operation_error", "unknown_error"}, Throw(what)
  PROVE  IInv'
<1>1. /\ pc' = "done" /\ outcome' = what /\ what # "success"
      /\ UNCHANGED <<input, pos, entries, prefixes, trie, reader, node, out_buf, file>>
  BY DEF Throw, End
<1> QED  BY <1>1 DEF IInv, HeaderInv, TrieInv, HeaderReadInv, PayloadInv,
                     RunningInv, SuccessReadsAll

-----------------------------------------------------------------------------
(* The invariant holds.                                                    *)

\* It holds at the start of a call.
LEMMA InitIInv == Init => IInv
<1> SUFFICES ASSUME Init PROVE IInv
  OBVIOUS
<1> USE DEF Init
<1>1. input \in Inputs /\ input.stream \in Seq(Byte) /\ Len(input.stream) \in Nat
  BY InputsAssumption, LenProperties
<1>2. FieldRange(CountBytes) \in Nat \ {0}
  BY WidthsType, FieldRangeType
<1>3. CodesOK(prefixes)
  BY DEF CodesOK
<1>4. ReaderOK(reader)
  <2>1. <<>> \in Seq(Byte) /\ Len(<<>>) = 0
    BY EmptySeq
  <2>2. reader \in Reader
    BY <2>1 DEF Reader
  <2>3. reader.cursor = 0 /\ Len(reader.buffer) = 0
    BY <2>1
  <2>4. 0 <= 0 * ByteBits
    BY WidthsType
  <2> QED  BY <2>2, <2>3, <2>4 DEF ReaderOK
<1>5. <<>> \in Seq(FileByte) /\ DOMAIN <<>> = {}
  BY EmptySeq
<1>6. 0 \in 0 .. Len(input.stream) /\ 0 \in 0 .. (FieldRange(CountBytes) - 1)
  BY <1>1, <1>2
<1> QED  BY <1>1, <1>3, <1>4, <1>5, <1>6
         DEF IInv, HeaderInv, TrieInv, HeaderReadInv, PayloadInv, RunningInv,
             SuccessReadsAll

\* Every step keeps it.
LEMMA StepIInv ==
  ASSUME IInv, [Next]_vars
  PROVE  IInv'
<1> DEFINE len == Len(input.stream)
<1>1. /\ input \in Inputs /\ input.stream \in Seq(Byte) /\ len \in Nat
      /\ pos \in Nat /\ pos <= len
      /\ pc \in {"open", "count", "entry", "total", "decode", "done"}
  <2>1. input \in Inputs /\ input.stream \in Seq(Byte)
    BY InputsAssumption DEF IInv
  <2> QED  BY <2>1, LenProperties DEF IInv
<1> HIDE DEF len
<1>2. /\ CodesOK(prefixes) /\ ReaderOK(reader) /\ out_buf \in Seq(FileByte)
      /\ file \in Seq(FileByte) /\ HeaderInv /\ TrieInv /\ HeaderReadInv
      /\ PayloadInv /\ RunningInv
      /\ \A n \in DOMAIN trie :
           trie[n].is_leaf => trie[n].codepoint \in DOMAIN prefixes
      /\ entries \in Nat /\ entries \in 0 .. (FieldRange(CountBytes) - 1)
  BY DEF IInv
<1>3. /\ CountBytes \in Nat \ {0} /\ CodepointBytes \in Nat \ {0}
      /\ LengthBytes \in Nat \ {0} /\ TotalBytes \in Nat \ {0}
      /\ ByteBits \in Nat \ {0}
  BY WidthsType
<1>4. /\ input' = input /\ AnnouncedEntries' = AnnouncedEntries
      /\ TotalAt' = TotalAt /\ AnnouncedBits' = AnnouncedBits /\ PayloadAt' = PayloadAt
  <2>1. input' = input
    BY DEF vars, Next, OpenStream, OpenStreamFails, ReadCount, ReadEntry, CreateOutput,
           CreateOutputFails, HeaderCutShort, ReadTotalZero, ReadTotal,
           FirstBufferCutShort, DecodeInnerNode, DecodeLeaf, InvalidCodepoint,
           NoCodeForBits, PayloadCutShort, Finish, Throw
  <2> QED  BY <2>1, AnnouncementsStay
<1>5. CASE UNCHANGED vars
  <2>1. HeaderInv' /\ TrieInv' /\ HeaderReadInv' /\ PayloadInv' /\ RunningInv'
    BY <1>2, <1>4, <1>5
       DEF vars, HeaderInv, TrieInv, HeaderReadInv, PayloadInv, RunningInv
  <2>2. SuccessReadsAll'
    BY <1>4, <1>5 DEF vars, IInv, SuccessReadsAll
  <2> QED  BY <1>5, <2>1, <2>2 DEF vars, IInv
<1>6. CASE OpenStream
  <2>1. /\ pc = "open" /\ pc' = "count"
        /\ UNCHANGED <<input, pos, entries, prefixes, trie, reader, node, out_buf,
                       file, outcome>>
    BY <1>6 DEF OpenStream
  <2>2. HeaderInv' /\ TrieInv' /\ HeaderReadInv' /\ PayloadInv' /\ RunningInv'
    BY <1>2, <2>1 DEF HeaderInv, TrieInv, HeaderReadInv, PayloadInv, RunningInv
  <2>3. SuccessReadsAll'
    BY <1>2, <2>1 DEF RunningInv, SuccessReadsAll
  <2> QED  BY <2>1, <2>2, <2>3 DEF IInv
<1>7. CASE OpenStreamFails \/ CreateOutputFails \/ HeaderCutShort \/ FirstBufferCutShort
             \/ InvalidCodepoint \/ NoCodeForBits \/ PayloadCutShort
  <2>1. Throw("file_operation_error") \/ Throw("unknown_error")
    BY <1>7 DEF OpenStreamFails, CreateOutputFails, HeaderCutShort,
                FirstBufferCutShort, InvalidCodepoint, NoCodeForBits, PayloadCutShort
  <2> QED  BY <2>1, ThrowKeepsIInv
<1>8. CASE ReadCount
  <2> DEFINE bytes == BytesAt(pos, CountBytes)
  <2>1. /\ pc = "count" /\ pc' = "entry" /\ pos + CountBytes <= len
        /\ entries' = ReadBe(bytes) /\ pos' = pos + CountBytes
        /\ UNCHANGED <<input, prefixes, trie, reader, node, out_buf, file, outcome>>
    BY <1>8 DEF ReadCount, CanRead, len
  <2>2. bytes \in Seq(Byte) /\ Len(bytes) = CountBytes
    BY <1>1, <1>3, <2>1, BytesAtProperties DEF len
  <2> HIDE DEF bytes
  <2>3. entries' \in 0 .. (FieldRange(CountBytes) - 1)
    BY <2>1, <2>2, ReadBeRange
  <2>4. pos' \in 0 .. Len(input'.stream)
    BY <1>1, <1>3, <2>1 DEF len
  <2>5. HeaderReadInv'
    <3>1. pos = 0 /\ entries' = AnnouncedEntries
      BY <1>2, <2>1 DEF HeaderReadInv, AnnouncedEntries, bytes
    <3>2. entries' \in Nat /\ AnnouncedEntries' - entries' = 0 /\ entries' <= AnnouncedEntries'
      BY <1>4, <2>3, <3>1
    <3>3. pos' = HeaderEnd(input'.stream, 0)
      BY <1>1, <1>3, <2>1, <3>1, HeaderEndProperties
    <3> QED  BY <1>4, <2>1, <3>1, <3>2, <3>3 DEF HeaderReadInv
  <2>6. HeaderInv' /\ TrieInv' /\ PayloadInv' /\ RunningInv' /\ SuccessReadsAll'
    BY <1>2, <2>1 DEF HeaderInv, TrieInv, PayloadInv, RunningInv, SuccessReadsAll
  <2> QED  BY <1>1, <1>2, <2>1, <2>3, <2>4, <2>5, <2>6 DEF IInv
<1>9. CASE ReadEntry
  <2> DEFINE size == BytesFor(CodeLengthAt)
             bytes == BytesAt(pos + CodeOffset, size)
             code == UnpackBits(bytes, CodeLengthAt)
  <2>1. /\ pc = "entry" /\ pc' = pc /\ entries > 0
        /\ pos + CodeOffset <= len /\ pos + (CodeOffset + size) <= len
        /\ prefixes' = [c \in DOMAIN prefixes \union {CodepointAt} |->
                          IF c = CodepointAt THEN code ELSE prefixes[c]]
        /\ pos' = pos + CodeOffset + size /\ entries' = entries - 1
        /\ UNCHANGED <<input, trie, reader, node, out_buf, file, outcome>>
    BY <1>9 DEF ReadEntry, EntryComplete, CanRead, len
  <2>2. CodeOffset \in Nat /\ CodeOffset = CodepointBytes + LengthBytes
    BY <1>3 DEF CodeOffset
  <2>3. CodepointAt \in 0 .. (FieldRange(CodepointBytes) - 1)
    <3> DEFINE b == BytesAt(pos, CodepointBytes)
    <3>1. pos + CodepointBytes <= len
      BY <1>1, <1>3, <2>1, <2>2
    <3>2. b \in Seq(Byte) /\ Len(b) = CodepointBytes
      BY <1>1, <1>3, <3>1, BytesAtProperties DEF len
    <3>3. CodepointAt = ReadBe(b)
      BY DEF CodepointAt
    <3> HIDE DEF b
    <3> QED  BY <3>2, <3>3, ReadBeRange
  <2>4. CodeLengthAt \in Nat
    <3> DEFINE b == BytesAt(pos + CodepointBytes, LengthBytes)
    <3>1. pos + CodepointBytes \in Nat /\ pos + CodepointBytes + LengthBytes <= len
      BY <1>1, <1>3, <2>1, <2>2
    <3>2. b \in Seq(Byte)
      BY <1>1, <1>3, <3>1, BytesAtProperties DEF len
    <3>3. CodeLengthAt = ReadBe(b)
      BY DEF CodeLengthAt
    <3> HIDE DEF b
    <3> QED  BY <3>2, <3>3, ReadBeRange
  <2>5. size \in Nat /\ CodeLengthAt <= size * ByteBits
    BY <2>4, BytesForProperties
  <2> HIDE DEF size
  <2>6. pos + CodeOffset \in Nat /\ pos + CodeOffset + size <= len
    BY <1>1, <2>1, <2>2, <2>5
  <2>7. bytes \in Seq(Byte) /\ Len(bytes) = size
    BY <1>1, <2>5, <2>6, BytesAtProperties DEF len
  <2> HIDE DEF bytes
  <2>8. code \in Seq(Bit)
    BY <2>4, <2>5, <2>7, UnpackBitsProperties
  <2> HIDE DEF code
  <2>9. CodesOK(prefixes')
    BY <1>2, <2>1, <2>3, <2>8 DEF CodesOK
  <2>10. pos' \in 0 .. Len(input'.stream) /\ pos <= pos'
    BY <1>1, <2>1, <2>2, <2>5, <2>6 DEF len
  <2>11. entries' \in 0 .. (FieldRange(CountBytes) - 1)
    BY <1>2, <1>3, <2>1, FieldRangeType
  <2>12. trie' = <<>>
    BY <1>2, <2>1 DEF HeaderInv
  <2>13. \A n \in DOMAIN trie' :
          trie'[n].is_leaf => trie'[n].codepoint \in DOMAIN prefixes'
    BY <2>12
  <2>14. HeaderReadInv'
    <3> DEFINE read == AnnouncedEntries - entries
               end(n) == HeaderEnd(input.stream, n)
    <3>1. /\ AnnouncedEntries \in Nat /\ entries <= AnnouncedEntries /\ pos = end(read)
      BY <1>2, <2>1 DEF HeaderReadInv
    <3>2. /\ read \in Nat /\ AnnouncedEntries - entries' = read + 1
          /\ entries' <= AnnouncedEntries
      BY <1>2, <2>1, <3>1
    <3>3. size = BytesFor(ReadBe(BytesAt(pos + CodepointBytes, LengthBytes)))
      BY DEF size, CodeLengthAt
    <3> HIDE DEF read
    <3>4. end(read + 1)
            = end(read) + CodeOffset
                + BytesFor(ReadBe(BytesAt(end(read) + CodepointBytes, LengthBytes)))
      BY <1>1, <2>1, <3>1, <3>2, HeaderEndProperties DEF len
    <3> HIDE DEF end
    <3>5. pos' = end(read + 1)
      BY <2>1, <3>1, <3>3, <3>4
    <3> QED  BY <1>4, <2>1, <3>1, <3>2, <3>5 DEF HeaderReadInv, end
  <2>15. HeaderInv' /\ TrieInv' /\ PayloadInv' /\ RunningInv' /\ SuccessReadsAll'
    BY <1>2, <2>1
       DEF HeaderInv, TrieInv, PayloadInv, RunningInv, SuccessReadsAll
  <2> QED  BY <2>1, <2>9, <2>10, <2>11, <2>13, <2>14, <2>15 DEF IInv
<1>10. CASE CreateOutput
  <2>1. /\ pc = "entry" /\ pc' = "total" /\ entries = 0
        /\ UNCHANGED <<input, pos, entries, prefixes, trie, reader, node, out_buf,
                       file, outcome>>
    BY <1>10 DEF CreateOutput
  <2>2. HeaderReadInv'
    BY <1>2, <1>4, <2>1 DEF HeaderReadInv
  <2>3. HeaderInv' /\ TrieInv' /\ PayloadInv' /\ RunningInv' /\ SuccessReadsAll'
    BY <1>2, <2>1 DEF HeaderInv, TrieInv, PayloadInv, RunningInv, SuccessReadsAll
  <2> QED  BY <2>1, <2>2, <2>3 DEF IInv
<1>11. CASE ReadTotalZero
  <2>1. /\ pc = "total" /\ pc' = "done" /\ pos + TotalBytes <= len
        /\ pos' = pos + TotalBytes
        /\ UNCHANGED <<input, entries, prefixes, trie, reader, node, out_buf, file>>
        /\ outcome' = "success" /\ ReadBe(BytesAt(pos, TotalBytes)) = 0
    BY <1>11 DEF ReadTotalZero, CanRead, End, len
  <2>2. pos' \in 0 .. Len(input'.stream)
    BY <1>1, <1>3, <2>1 DEF len
  <2>3. reader.bits_read = 0
    BY <1>2, <2>1 DEF HeaderInv
  <2>4. BytesFor(0) = 0
    <3>1. 0 = 0 * ByteBits /\ 0 \in Nat
      BY <1>3
    <3>2. BytesFor(0) \in Nat /\ BytesFor(0) <= 0
      BY <3>1, BytesForProperties
    <3> QED  BY <3>2
  <2>5. AnnouncedBits = 0 /\ PayloadAt = pos + TotalBytes
    <3>1. pos = TotalAt
      BY <1>2, <2>1 DEF HeaderReadInv, TotalAt
    <3> QED  BY <2>1, <3>1 DEF AnnouncedBits, PayloadAt
  <2>6. SuccessReadsAll'
    BY <1>1, <1>3, <1>4, <2>1, <2>3, <2>4, <2>5 DEF SuccessReadsAll
  <2> QED  BY <1>1, <1>2, <2>1, <2>2, <2>6
           DEF IInv, HeaderInv, TrieInv, HeaderReadInv, PayloadInv, RunningInv
<1>12. CASE ReadTotal
  <2> DEFINE bytes == BytesAt(pos, TotalBytes)
             r == [reader EXCEPT !.total_bits = ReadBe(bytes)]
             n == BytesToRead(r)
  <2>1. /\ pc = "total" /\ pc' = "decode" /\ pos + TotalBytes <= len
        /\ pos + (TotalBytes + n) <= len
        /\ reader' = Refill(r, pos + TotalBytes) /\ pos' = pos + TotalBytes + n
        /\ trie' = BuildDecodeTrie(prefixes) /\ node' = Root
        /\ UNCHANGED <<input, entries, prefixes, out_buf, file, outcome>>
    BY <1>12 DEF ReadTotal, CanRead, len
  <2>2. bytes \in Seq(Byte)
    BY <1>1, <1>3, <2>1, BytesAtProperties DEF len
  <2> HIDE DEF bytes
  <2>3. ReadBe(bytes) \in Nat
    BY <2>2, ReadBeRange
  <2>4. ReaderOK(r) /\ r.bits_read = 0 /\ r.total_bits = ReadBe(bytes)
    <3> DEFINE t == ReadBe(bytes)
    <3>1. /\ reader \in Reader /\ reader.cursor <= Len(reader.buffer) * ByteBits
          /\ reader.bits_read = 0 /\ t \in Nat
      BY <1>2, <2>1, <2>3 DEF ReaderOK, HeaderInv
    <3>2. r = [reader EXCEPT !.total_bits = t]
      OBVIOUS
    <3> HIDE DEF t, r
    <3>3. /\ r \in Reader /\ r.total_bits = t /\ r.bits_read = 0
          /\ r.cursor = reader.cursor /\ r.buffer = reader.buffer
      BY <3>1, <3>2 DEF Reader
    <3> QED  BY <3>1, <3>3 DEF ReaderOK, t
  <2> HIDE DEF r
  <2>5. n \in Nat /\ pos + TotalBytes \in Nat /\ pos + TotalBytes + n <= len
    BY <1>1, <1>3, <2>1, <2>4, BytesToReadType
  <2>6. /\ ReaderOK(reader') /\ Len(reader'.buffer) = n /\ reader'.cursor = 0
        /\ reader'.bits_read = 0 /\ reader'.total_bits = r.total_bits
    BY <1>1, <2>1, <2>4, <2>5, RefillProperties DEF len
  <2> HIDE DEF n
  <2>7. pos' \in 0 .. Len(input'.stream)
    BY <1>1, <2>1, <2>5 DEF len
  <2>8. /\ Root \in DOMAIN trie' /\ ~ trie'[Root].is_leaf
        /\ \A k \in DOMAIN trie' :
             trie'[k].is_leaf => trie'[k].codepoint \in DOMAIN prefixes'
    BY <1>2, <2>1, TrieProperties
  <2>9. TrieInv'
    BY <2>1, <2>8 DEF TrieInv
  <2>10. /\ pos = TotalAt /\ r.total_bits = AnnouncedBits
         /\ PayloadAt = pos + TotalBytes /\ outcome = "running"
    <3>1. pos = TotalAt /\ outcome = "running"
      BY <1>2, <2>1 DEF HeaderReadInv, TotalAt, RunningInv
    <3> QED  BY <2>4, <3>1 DEF bytes, AnnouncedBits, PayloadAt
  <2>11. n <= BytesFor(AnnouncedBits) /\ BytesFor(AnnouncedBits) \in Nat
    <3>1. r.total_bits - r.bits_read = AnnouncedBits /\ AnnouncedBits \in Nat
      BY <2>3, <2>4, <2>10
    <3>2. n <= BytesFor(r.total_bits - r.bits_read)
      BY <2>4, BytesToReadBound DEF n
    <3> QED  BY <3>1, <3>2, BytesForProperties
  <2>12. PayloadInv'
    <3> DEFINE base == PayloadAt
               b == BytesFor(AnnouncedBits)
    <3>1. base \in Nat /\ pos' = base + n /\ pos' - base - n = 0 /\ n <= b /\ b \in Nat
      BY <1>1, <1>3, <2>1, <2>5, <2>10, <2>11
    <3> HIDE DEF base, b
    <3>2. base + n <= pos' /\ pos' <= base + b
      BY <2>5, <3>1
    <3>3. reader'.bits_read = (pos' - base - n) * ByteBits + reader'.cursor
      BY <1>3, <2>6, <3>1
    <3> QED  BY <1>4, <2>6, <2>10, <3>1, <3>2, <3>3 DEF PayloadInv, base, b
  <2>13. HeaderInv' /\ HeaderReadInv' /\ RunningInv' /\ SuccessReadsAll'
    BY <2>1, <2>10 DEF HeaderInv, HeaderReadInv, RunningInv, SuccessReadsAll
  <2> QED  BY <1>1, <1>2, <2>1, <2>6, <2>7, <2>8, <2>9, <2>12, <2>13 DEF IInv
<1>13. CASE DecodeInnerNode
  <2>1. /\ Decoding /\ TakeBit /\ HasNextNode /\ ~ AtLeaf /\ node' = NextNode
        /\ UNCHANGED <<input, pc, entries, prefixes, trie, out_buf, file, outcome>>
    BY <1>13 DEF DecodeInnerNode, Walk
  <2>2. ReaderOK(reader') /\ pos' \in 0 .. Len(input'.stream) /\ PayloadInv'
    BY <2>1, TakeBitProperties
  <2>3. pc = "decode" /\ outcome = "running"
    BY <1>2, <2>1 DEF Decoding, RunningInv
  <2>4. TrieInv'
    BY <1>2, <2>1, <2>3 DEF TrieInv, HasNextNode, AtLeaf
  <2>5. HeaderInv' /\ HeaderReadInv' /\ RunningInv' /\ SuccessReadsAll'
    BY <1>2, <2>1, <2>3 DEF HeaderInv, HeaderReadInv, RunningInv, SuccessReadsAll
  <2> QED  BY <1>1, <1>2, <2>1, <2>2, <2>3, <2>4, <2>5 DEF IInv
<1>14. CASE DecodeLeaf
  <2> DEFINE buf == out_buf \o Utf8(Decoded)
  <2>1. /\ Decoding /\ TakeBit /\ node' = Root /\ Decoded \in DOMAIN Utf8Length
        /\ \/ file' = WriteToFile(buf) /\ out_buf' = <<>>
           \/ out_buf' = buf /\ file' = file
        /\ UNCHANGED <<input, pc, entries, prefixes, trie, outcome>>
    BY <1>14 DEF DecodeLeaf, Walk
  <2>2. ReaderOK(reader') /\ pos' \in 0 .. Len(input'.stream) /\ PayloadInv'
    BY <2>1, TakeBitProperties
  <2>3. pc = "decode" /\ outcome = "running"
    BY <1>2, <2>1 DEF Decoding, RunningInv
  <2>4. buf \in Seq(FileByte)
    BY <1>2, <2>1, Utf8Type, ConcatProperties
  <2> HIDE DEF buf
  <2>5. out_buf' \in Seq(FileByte) /\ file' \in Seq(FileByte)
    BY <1>1, <1>2, <2>1, <2>4, WriteToFileProperties, EmptySeq
  <2>6. TrieInv'
    BY <1>2, <2>1, <2>3, TrieProperties DEF TrieInv
  <2>7. HeaderInv' /\ HeaderReadInv' /\ RunningInv' /\ SuccessReadsAll'
    BY <1>2, <2>1, <2>3 DEF HeaderInv, HeaderReadInv, RunningInv, SuccessReadsAll
  <2> QED  BY <1>1, <1>2, <2>1, <2>2, <2>3, <2>5, <2>6, <2>7 DEF IInv
<1>15. CASE Finish
  <2>1. /\ pc = "decode" /\ ~ HasNext /\ pc' = "done" /\ outcome' = "success"
        /\ file' = WriteToFile(out_buf) /\ out_buf' = <<>>
        /\ UNCHANGED <<input, pos, entries, prefixes, trie, reader, node>>
    BY <1>15 DEF Finish, End
  <2>2. out_buf' \in Seq(FileByte) /\ file' \in Seq(FileByte)
    BY <1>1, <1>2, <2>1, WriteToFileProperties, EmptySeq
  <2> DEFINE t == reader.total_bits
             b == Len(reader.buffer)
  <2>3. /\ reader.bits_read = t /\ t \in Nat /\ b \in Nat
        /\ reader.cursor \in Nat /\ reader.cursor <= b * ByteBits
    <3>1. /\ t \in Nat /\ reader.bits_read \in Nat /\ reader.bits_read <= t
          /\ reader.buffer \in Seq(Byte) /\ reader.cursor \in Nat
          /\ reader.cursor <= b * ByteBits
      BY <1>2 DEF ReaderOK, Reader
    <3>2. ~ (reader.bits_read < t)
      BY <2>1 DEF HasNext
    <3> HIDE DEF t
    <3> QED  BY <3>1, <3>2, LenProperties
  <2> DEFINE base == PayloadAt
             n == BytesFor(t)
  <2>4. /\ base \in Nat /\ t = AnnouncedBits /\ base + b <= pos /\ pos <= base + n
        /\ reader.bits_read = (pos - base - b) * ByteBits + reader.cursor
    BY <1>2, <2>1 DEF PayloadInv
  <2> HIDE DEF t, b, base
  <2>5. pos = base + n
    <3> DEFINE m == pos - base - b
               k == pos - base
    <3>1. m \in Nat /\ k \in Nat /\ k = m + b
      BY <1>1, <2>3, <2>4
    <3>2. t <= m * ByteBits + b * ByteBits
      <4>1. m * ByteBits \in Nat /\ b * ByteBits \in Nat
        BY <1>3, <2>3, <3>1, ProductOrder
      <4>2. t = m * ByteBits + reader.cursor
        BY <2>3, <2>4
      <4> HIDE DEF m
      <4> QED  BY <2>3, <4>1, <4>2
    <3>3. (m + b) * ByteBits = m * ByteBits + b * ByteBits
      <4> HIDE DEF m
      <4> QED  BY <1>3, <2>3, <3>1, ProductOrder
    <3>4. t <= k * ByteBits
      BY <3>1, <3>2, <3>3
    <3> HIDE DEF k, m
    <3>5. n <= k /\ n \in Nat
      BY <2>3, <3>1, <3>4, BytesForProperties
    <3> HIDE DEF n
    <3> QED  BY <1>1, <2>4, <3>1, <3>5 DEF k
  <2>6. SuccessReadsAll'
    BY <1>4, <2>1, <2>3, <2>4, <2>5 DEF SuccessReadsAll, base
  <2>7. HeaderInv' /\ TrieInv' /\ HeaderReadInv' /\ PayloadInv' /\ RunningInv'
    BY <2>1 DEF HeaderInv, TrieInv, HeaderReadInv, PayloadInv, RunningInv
  <2> QED  BY <1>1, <1>2, <2>1, <2>2, <2>6, <2>7 DEF IInv, len
<1> QED  BY <1>5, <1>6, <1>7, <1>8, <1>9, <1>10, <1>11, <1>12, <1>13, <1>14, <1>15
         DEF Next

\* So it always holds.
LEMMA IInvCorrect == Spec => []IInv
<1>1. Init => IInv
  BY InitIInv
<1>2. IInv /\ [Next]_vars => IInv'
  BY StepIInv
<1> QED  BY <1>1, <1>2, PTL DEF Spec

\* Whatever the files contain, the decoder stays at inner nodes of the trie of
\* the header, its cursor inside the buffer and its count of bits within what
\* was announced.
THEOREM TypeOKCorrect == Spec => []TypeOK
<1>1. IInv => TypeOK
  <2> SUFFICES ASSUME IInv PROVE TypeOK
    OBVIOUS
  <2>1. /\ reader.buffer \in Seq(Byte) /\ reader.cursor \in Nat
        /\ reader.cursor <= Len(reader.buffer) * ByteBits
        /\ reader.bits_read \in Nat /\ reader.total_bits \in Nat
        /\ reader.bits_read <= reader.total_bits
    BY DEF IInv, ReaderOK, Reader
  <2>2. reader.cursor \in 0 .. (Len(reader.buffer) * ByteBits)
    <3>1. Len(reader.buffer) \in Nat
      BY <2>1, LenProperties
    <3>2. Len(reader.buffer) * ByteBits \in Nat
      BY <3>1, WidthsType, ProductOrder
    <3> QED  BY <2>1, <3>2
  <2>3. reader.bits_read \in 0 .. reader.total_bits
    BY <2>1
  <2> QED  BY <2>1, <2>2, <2>3 DEF IInv, TypeOK, CodesOK, TrieInv
<1> QED  BY <1>1, IInvCorrect, PTL

\* However the file is damaged, a call that succeeds has read as many bits as the
\* file announces behind the entries of its header (total_bits), and has stopped
\* right behind the bytes that hold them: refill takes no byte behind the payload
\* and leaves none of it.
THEOREM SuccessReadsAllCorrect == Spec => []SuccessReadsAll
<1>1. IInv => SuccessReadsAll
  BY DEF IInv
<1> QED  BY <1>1, IInvCorrect, PTL

-----------------------------------------------------------------------------
(* The codepoints decoded and their codes.                                 *)

\* One more byte is the first of a codepoint or none.
LEMMA CodepointsOfAppend ==
  ASSUME NEW bytes \in Seq(FileByte), NEW b \in FileByte
  PROVE  /\ CodepointsOf(bytes) \in Seq(DOMAIN Utf8Length)
         /\ CodepointsOf(Append(bytes, b))
              = CodepointsOf(bytes) \o (IF b[2] = 1 THEN <<b[1]>> ELSE <<>>)
<1> DEFINE S == DOMAIN Utf8Length
           R == Seq(S)
           f == [x \in FileByte |-> IF x[2] = 1 THEN <<x[1]>> ELSE <<>>]
           parts(t) == Mapped(f, t)
           more == Append(bytes, b)
<1>1. f \in [FileByte -> R] /\ f[b] \in R
  <2>1. ASSUME NEW x \in FileByte
        PROVE  (IF x[2] = 1 THEN <<x[1]>> ELSE <<>>) \in R
    <3>1. x[1] \in S
      BY DEF FileByte
    <3>2. <<x[1]>> \in Seq(S) /\ <<>> \in Seq(S)
      BY <3>1
    <3> QED  BY <3>2
  <2> QED  BY <2>1
<1>2. /\ \A i \in DOMAIN bytes : bytes[i] \in FileByte
      /\ \A i \in DOMAIN more : more[i] \in FileByte
  <2>1. more \in Seq(FileByte)
    BY AppendProperties
  <2> HIDE DEF more
  <2> QED  BY <2>1, LenProperties, ElementOfSeq
<1>3. CodepointsOf(bytes) = FlattenSeq(parts(bytes))
  BY <1>2 DEF CodepointsOf, Mapped
<1>4. CodepointsOf(more) = FlattenSeq(parts(more))
  <2> HIDE DEF more
  <2> QED  BY <1>2 DEF CodepointsOf, Mapped
<1>5. f[b] = IF b[2] = 1 THEN <<b[1]>> ELSE <<>>
  OBVIOUS
<1> HIDE DEF f
<1>6. parts(bytes) \in Seq(R) /\ parts(more) = Append(parts(bytes), f[b])
  <2>1. more = Append(bytes, b)
    OBVIOUS
  <2>2. f \in [FileByte -> R]
    BY <1>1
  <2> HIDE DEF R, more
  <2> QED  BY <2>1, <2>2, MapType, MapAppend
<1> HIDE DEF parts, more
<1>7. FlattenSeq(parts(bytes)) \in Seq(S)
  BY <1>6, FlattenSeqType
<1>8. FlattenSeq(parts(more)) = FlattenSeq(parts(bytes)) \o f[b]
  BY <1>1, <1>6, FlattenSeqAppend
<1> QED  BY <1>3, <1>4, <1>5, <1>7, <1>8 DEF more

\* The whole form of a codepoint is one codepoint more.
LEMMA CodepointsOfUtf8 ==
  ASSUME NEW bytes \in Seq(FileByte), NEW c \in DOMAIN Utf8Length
  PROVE  CodepointsOf(bytes \o Utf8(c)) = Append(CodepointsOf(bytes), c)
<1> DEFINE S == DOMAIN Utf8Length
           first(k) == [i \in 1 .. k |-> <<c, i>>]
           p == CodepointsOf(bytes)
           T == {k \in Nat : k + 1 <= Utf8Length[c] =>
                   CodepointsOf(bytes \o first(k + 1)) = Append(p, c)}
<1>1. Utf8Length[c] \in 1 .. 4
  BY Utf8Type
<1>2. ASSUME NEW k \in Nat, k <= 4
      PROVE  first(k) \in Seq(FileByte) /\ Len(first(k)) = k
  <2>1. first(k) \in [1 .. k -> FileByte]
    BY <1>2 DEF FileByte
  <2> HIDE DEF first
  <2> QED  BY <1>2, <2>1, SeqDef, LenProperties
<1>3. ASSUME NEW k \in 0 .. 3
      PROVE  /\ first(k + 1) = Append(first(k), <<c, k + 1>>)
             /\ bytes \o first(k + 1) = Append(bytes \o first(k), <<c, k + 1>>)
             /\ bytes \o first(k) \in Seq(FileByte) /\ <<c, k + 1>> \in FileByte
  <2> DEFINE x == first(k)
             e == <<c, k + 1>>
             y == Append(x, e)
  <2>1. x \in Seq(FileByte) /\ Len(x) = k /\ e \in FileByte
    BY <1>2 DEF FileByte
  <2>2. \A i \in 1 .. k : x[i] = <<c, i>>
    OBVIOUS
  <2> HIDE DEF x
  <2>3. /\ y \in Seq(FileByte) /\ Len(y) = k + 1
        /\ \A i \in 1 .. k : y[i] = x[i]
        /\ y[k + 1] = e
    <3> HIDE DEF e
    <3> QED  BY <2>1, AppendProperties
  <2>4. y = first(k + 1)
    <3> HIDE DEF y
    <3>1. y = [i \in 1 .. (k + 1) |-> y[i]]
      <4>1. y \in [1 .. (k + 1) -> FileByte]
        BY <2>3, LenProperties
      <4> QED  BY <4>1
    <3>2. \A i \in 1 .. (k + 1) : y[i] = <<c, i>>
      BY <2>2, <2>3
    <3> QED  BY <3>1, <3>2
  <2> HIDE DEF e
  <2>5. bytes \o y = Append(bytes \o x, e) /\ bytes \o x \in Seq(FileByte)
    BY <2>1, ConcatProperties
  <2> HIDE DEF y, first
  <2> QED  BY <2>1, <2>4, <2>5 DEF x, y, e
<1>4. first(0) = <<>> /\ bytes \o first(0) = bytes
  <2>1. first(0) = <<>>
    OBVIOUS
  <2> QED  BY <2>1, ConcatEmptySeq
<1> HIDE DEF first
<1>5. p \in Seq(S)
  <2>1. <<c, 1>> \in FileByte
    BY DEF FileByte
  <2> QED  BY <2>1, CodepointsOfAppend
<1>6. 0 \in T
  <2> DEFINE e == <<c, 1>>
  <2>1. bytes \o first(1) = Append(bytes, e) /\ e \in FileByte
    <3>1. 0 \in 0 .. 3 /\ 0 + 1 = 1
      OBVIOUS
    <3> QED  BY <1>3, <1>4, <3>1
  <2>2. e[1] = c /\ e[2] = 1
    OBVIOUS
  <2> HIDE DEF e
  <2>3. CodepointsOf(bytes \o first(1)) = p \o <<c>>
    BY <2>1, <2>2, CodepointsOfAppend
  <2>4. p \o <<c>> = Append(p, c)
    <3> HIDE DEF p
    <3> QED  BY <1>5
  <2> QED  BY <2>3, <2>4
<1>7. ASSUME NEW k \in Nat, k \in T
      PROVE  k + 1 \in T
  <2> SUFFICES ASSUME (k + 1) + 1 <= Utf8Length[c]
               PROVE  CodepointsOf(bytes \o first((k + 1) + 1)) = Append(p, c)
    OBVIOUS
  <2> DEFINE e == <<c, (k + 1) + 1>>
             x == bytes \o first(k + 1)
  <2>1. k + 1 \in 0 .. 3
    BY <1>1
  <2>2. /\ bytes \o first((k + 1) + 1) = Append(x, e)
        /\ x \in Seq(FileByte) /\ e \in FileByte
    BY <1>3, <2>1
  <2>3. e[2] # 1
    OBVIOUS
  <2>4. CodepointsOf(x) = Append(p, c)
    BY <1>1, <1>7, <2>1
  <2> HIDE DEF e, x, p
  <2>5. CodepointsOf(Append(x, e)) = CodepointsOf(x) \o <<>>
    BY <2>2, <2>3, CodepointsOfAppend
  <2>6. Append(p, c) \o <<>> = Append(p, c)
    <3>1. Append(p, c) \in Seq(S)
      BY <1>5, AppendProperties
    <3> QED  BY <3>1, ConcatEmptySeq
  <2> QED  BY <2>2, <2>4, <2>5, <2>6
<1> HIDE DEF T
<1> DEFINE m == Utf8Length[c] - 1
<1>8. m \in Nat /\ m + 1 = Utf8Length[c]
  BY <1>1
<1>9. m \in T
  <2> HIDE DEF m
  <2> QED  BY <1>6, <1>7, <1>8, SetInduction
<1>10. CodepointsOf(bytes \o first(m + 1)) = Append(p, c)
  BY <1>8, <1>9 DEF T
<1>11. Utf8(c) = first(m + 1)
  BY <1>8 DEF Utf8, first
<1> QED  BY <1>10, <1>11

\* One more codepoint adds the bits of its code.
LEMMA CodedBitsAppend ==
  ASSUME CodesOK(prefixes), NEW text \in Seq(DOMAIN Utf8Length),
         NEW c \in DOMAIN Utf8Length, c \in DOMAIN prefixes
  PROVE  CodedBits(Append(text, c)) = CodedBits(text) + Len(prefixes[c])
<1> DEFINE S == DOMAIN Utf8Length
           old == EncodedBits(text, prefixes)
           code == prefixes[c]
<1>1. code \in Seq(Bit) /\ \A x \in DOMAIN prefixes : prefixes[x] \in Seq(Bit)
  BY DEF CodesOK
<1>2. old \in Seq(Bit) /\ EncodedBits(Append(text, c), prefixes) = old \o code
  <2> HIDE DEF S
  <2>1. text \in Seq(S) /\ c \in S
    BY DEF S
  <2> QED  BY <1>1, <2>1, EncodedBitsProperties
<1> HIDE DEF old, code
<1>3. Len(old \o code) = Len(old) + Len(code)
  BY <1>1, <1>2, ConcatProperties
<1> QED  BY <1>2, <1>3 DEF CodedBits, old, code

\* The codes of any decoded bytes are bits.
LEMMA DecodedEncodedType ==
  ASSUME CodesOK(prefixes), NEW bytes \in Seq(FileByte)
  PROVE  EncodedBits(CodepointsOf(bytes), prefixes) \in Seq(Bit)
<1>1. CASE bytes = <<>>
  <2>1. CodepointsOf(bytes) = <<>> /\ EncodedBits(<<>>, prefixes) = <<>>
    BY <1>1, FlattenSeqEmpty DEF CodepointsOf, EncodedBits
  <2> QED  BY <2>1, EmptySeq
<1>2. CASE bytes # <<>>
  <2>1. PICK b : b \in FileByte
    BY <1>2, EmptySeq, LenProperties, ElementOfSeq
  <2>2. CodepointsOf(bytes) \in Seq(DOMAIN Utf8Length)
    BY <2>1, CodepointsOfAppend
  <2> DEFINE x == b[1]
  <2>3. x \in DOMAIN Utf8Length
    BY <2>1 DEF FileByte
  <2> HIDE DEF x
  <2>4. \A c \in DOMAIN prefixes : prefixes[c] \in Seq(Bit)
    BY DEF CodesOK
  <2> QED  BY <2>2, <2>3, <2>4, EncodedBitsProperties
<1> QED  BY <1>1, <1>2

\* Below the limit of refill's sum a refill brings at least one byte.
LEMMA RefillBringsBytes ==
  ASSUME NEW r, ReaderOK(r), r.bits_read < r.total_bits,
         ~ (r.total_bits > SizeRange - ByteBits)
  PROVE  BytesToRead(r) # 0
<1> DEFINE remaining == r.total_bits - r.bits_read
           x == remaining + ByteBits - 1
           bytes == (x % SizeRange) \div ByteBits
<1>1. /\ r.total_bits \in Nat /\ r.bits_read \in Nat
      /\ ByteBits \in Nat \ {0} /\ DecodeBufferBytes \in Nat \ {0}
  BY WidthsType, BuffersAssumption DEF ReaderOK, Reader
<1>2. SizeRange \in Nat \ {0}
  BY WidthsType, FieldRangeType DEF SizeRange
<1>3. remaining \in Nat /\ remaining # 0
  BY <1>1
<1>4. x \in Nat /\ x \in 0 .. (SizeRange - 1) /\ ByteBits <= x
  BY <1>1, <1>2, <1>3
<1>5. BytesToRead(r) = Min({DecodeBufferBytes, bytes})
  BY <1>3 DEF BytesToRead
<1> HIDE DEF remaining, x
<1>6. x % SizeRange = x
  <2>1. x = 0 * SizeRange + x /\ 0 \in Nat
    BY <1>2, <1>4
  <2> QED  BY <1>2, <1>4, <2>1, DivisionUnique
<1> DEFINE q == x \div ByteBits
<1>7. q \in Nat /\ q # 0
  <2>1. q \in Nat /\ x % ByteBits \in 0 .. (ByteBits - 1) /\ x = q * ByteBits + (x % ByteBits)
    BY <1>1, <1>4, DivisionProperties
  <2> DEFINE m == x % ByteBits
  <2>2. m \in Nat /\ m < ByteBits /\ x = q * ByteBits + m
    BY <1>1, <2>1
  <2> HIDE DEF q, m
  <2>3. CASE q = 0
    <3>1. x = m
      BY <1>1, <2>2, <2>3
    <3> QED  BY <1>1, <1>4, <2>2, <3>1
  <2> QED  BY <2>1, <2>3 DEF q
<1>8. bytes = q
  BY <1>6
<1> HIDE DEF q, bytes
<1>9. Min({DecodeBufferBytes, bytes}) # 0
  BY <1>1, <1>7, <1>8 DEF Min
<1> QED  BY <1>5, <1>9

\* Below that limit there is always a bit to take.
LEMMA SuppliedHasBits ==
  ASSUME IInv, Decoding, ~ TotalOverflows
  PROVE  Supplied.buffer # <<>>
<1> DEFINE r == Supplied
<1>1. /\ ~ NeedsRefill => r = reader
      /\ NeedsRefill => Len(r.buffer) = BytesToRead(reader)
      /\ reader.bits_read < reader.total_bits
  BY SuppliedProperties
<1>2. CASE NeedsRefill
  <2>1. BytesToRead(reader) # 0
    BY <1>1, RefillBringsBytes DEF IInv, TotalOverflows
  <2>2. Len(<<>>) = 0
    OBVIOUS
  <2> QED  BY <1>1, <1>2, <2>1, <2>2
<1>3. CASE ~ NeedsRefill
  <2>1. r = reader /\ ~ (reader.cursor >= Len(reader.buffer) * ByteBits)
    BY <1>1, <1>3 DEF NeedsRefill
  <2>2. reader.cursor \in Nat
    BY DEF IInv, ReaderOK, Reader
  <2>3. ASSUME reader.buffer = <<>> PROVE FALSE
    <3>1. Len(reader.buffer) = 0
      BY <2>3
    <3>2. 0 * ByteBits = 0
      BY WidthsType
    <3> QED  BY <2>1, <2>2, <3>1, <3>2
  <2> QED  BY <2>1, <2>3
<1> QED  BY <1>2, <1>3

\* Below that limit every iteration reads exactly one bit.
LEMMA TakeBitAdvances ==
  ASSUME IInv, Decoding, TakeBit, ~ TotalOverflows
  PROVE  /\ reader'.bits_read = reader.bits_read + 1
         /\ reader'.total_bits = reader.total_bits
<1> DEFINE r == Supplied
<1>1. /\ ReaderOK(r) /\ r.bits_read = reader.bits_read
      /\ r.total_bits = reader.total_bits /\ reader.bits_read < reader.total_bits
      /\ r.buffer # <<>> => r.cursor < Len(r.buffer) * ByteBits
  BY SuppliedProperties
<1>2. reader' = NextBit(r).reader
  BY DEF TakeBit, Fetched, Supplied
<1>3. r.buffer # <<>>
  BY SuppliedHasBits
<1>4. r.bits_read < r.total_bits
  BY <1>1
<1> HIDE DEF r
<1>5. /\ NextBit(r).reader.bits_read = r.bits_read + 1
      /\ NextBit(r).reader.total_bits = r.total_bits
  BY <1>1, <1>3, <1>4, NextBitProperties
<1> QED  BY <1>1, <1>2, <1>5

\* While the disk has room nothing of the decoded bytes is lost.
LEMMA BytesKept ==
  ASSUME IInv, NEW data \in Seq(FileByte),
         Len(WriteToFile(data)) < input.capacity
  PROVE  WriteToFile(data) = file \o data /\ Len(file) < input.capacity
<1>1. /\ input \in Inputs /\ input.capacity \in Nat
      /\ file \in Seq(FileByte) /\ Len(file) \in Nat /\ Len(data) \in Nat
  <2>1. input \in Inputs /\ file \in Seq(FileByte)
    BY DEF IInv
  <2> QED  BY <2>1, InputsAssumption, LenProperties
<1>2. WriteToFile(data) = file \o data
  BY <1>1, WriteToFileProperties
<1>3. Len(file \o data) = Len(file) + Len(data)
  BY <1>1, ConcatProperties
<1> QED  BY <1>1, <1>2, <1>3

\* Given the invariant, every step keeps the account of the bits.
LEMMA StepBitsAccounted ==
  ASSUME IInv, BitsAccounted, [Next]_vars
  PROVE  BitsAccounted'
<1> DEFINE done == file \o out_buf
<1>1. /\ input \in Inputs /\ file \in Seq(FileByte) /\ out_buf \in Seq(FileByte)
      /\ done \in Seq(FileByte) /\ CodesOK(prefixes) /\ TrieInv /\ HeaderInv
      /\ reader.bits_read \in Nat
  BY ConcatProperties DEF IInv, ReaderOK, Reader
<1> HIDE DEF done
<1>2. CASE UNCHANGED vars
  BY <1>2 DEF vars, BitsAccounted, CodedBits, DecodedCodepoints, TotalOverflows
<1>3. ASSUME pc' # "decode"
      PROVE  BitsAccounted'
  BY <1>3 DEF BitsAccounted
<1>4. CASE ReadTotal
  <2> DEFINE r == [reader EXCEPT !.total_bits = ReadBe(BytesAt(pos, TotalBytes))]
             r2 == Refill(r, pos + TotalBytes)
  <2>1. /\ pc = "total" /\ node' = Root /\ reader' = r2
        /\ UNCHANGED <<input, prefixes, out_buf, file>>
    BY <1>4 DEF ReadTotal
  <2>2. reader.bits_read = 0 /\ file = <<>> /\ out_buf = <<>>
    BY <1>1, <2>1 DEF HeaderInv
  <2>3. reader'.bits_read = 0
    <3>1. reader \in Reader
      BY DEF IInv, ReaderOK
    <3>2. r.bits_read = 0
      BY <2>2, <3>1 DEF Reader
    <3>3. r2.bits_read = r.bits_read
      <4>1. r \in [total_bits : {r.total_bits}, bits_read : Nat, cursor : Nat,
                   buffer : Seq(Byte)]
        BY <3>1 DEF Reader
      <4> HIDE DEF r
      <4> QED  BY <4>1 DEF Refill
    <3> QED  BY <2>1, <3>2, <3>3
  <2>4. DecodedCodepoints' = <<>>
    <3>1. file' \o out_buf' = <<>>
      BY <2>1, <2>2
    <3>2. CodepointsOf(<<>>) = <<>>
      BY FlattenSeqEmpty DEF CodepointsOf
    <3> QED  BY <3>1, <3>2 DEF DecodedCodepoints
  <2>5. CodedBits(DecodedCodepoints)' = 0
    <3>1. EncodedBits(<<>>, prefixes') = <<>>
      BY FlattenSeqEmpty DEF EncodedBits
    <3>2. Len(<<>>) = 0
      OBVIOUS
    <3> QED  BY <2>4, <3>1, <3>2 DEF CodedBits
  <2>6. Len(node') = 0
    BY <2>1 DEF Root
  <2> QED  BY <2>3, <2>5, <2>6 DEF BitsAccounted
<1>5. ASSUME Decoding, TakeBit, HasNextNode, UNCHANGED <<input, pc, prefixes, trie>>,
             Len(file) < input.capacity, ~ TotalOverflows'
      PROVE  /\ reader'.bits_read = CodedBits(DecodedCodepoints) + Len(node) + 1
             /\ CodedBits(DecodedCodepoints) \in Nat /\ Len(node) \in Nat
             /\ NextNode \in Seq(Bit) /\ Len(NextNode) = Len(node) + 1
  <2>1. pc = "decode"
    BY <1>5 DEF Decoding
  <2>2. node \in Seq(Bit) /\ Len(node) \in Nat
    <3>1. trie = BuildDecodeTrie(prefixes) /\ node \in DOMAIN trie
      BY <1>1, <2>1 DEF TrieInv
    <3>2. node \in Seq(Bit)
      BY <1>1, <3>1, TrieProperties
    <3> QED  BY <3>2, LenProperties
  <2>3. reader'.total_bits = reader.total_bits
    <3>1. /\ ReaderOK(Supplied) /\ Supplied.bits_read < Supplied.total_bits
          /\ Supplied.total_bits = reader.total_bits
          /\ Supplied.buffer # <<>> =>
               Supplied.cursor < Len(Supplied.buffer) * ByteBits
      BY <1>5, SuppliedProperties
    <3>2. reader' = NextBit(Supplied).reader
      BY <1>5 DEF TakeBit, Fetched, Supplied
    <3> QED  BY <3>1, <3>2, NextBitProperties
  <2>4. ~ TotalOverflows
    BY <1>5, <2>3 DEF TotalOverflows
  <2>5. reader'.bits_read = reader.bits_read + 1
    BY <1>5, <2>4, TakeBitAdvances
  <2>6. CodedBits(DecodedCodepoints) + Len(node) = reader.bits_read
    BY <1>5, <2>1, <2>4 DEF BitsAccounted
  <2>7. CodedBits(DecodedCodepoints) \in Nat
    <3>1. DecodedCodepoints = CodepointsOf(done)
      BY DEF DecodedCodepoints, done
    <3>2. EncodedBits(CodepointsOf(done), prefixes) \in Seq(Bit)
      BY <1>1, DecodedEncodedType
    <3> QED  BY <3>1, <3>2, LenProperties DEF CodedBits
  <2>8. NextNode \in Seq(Bit) /\ Len(NextNode) = Len(node) + 1
    <3>1. Fetched.bit \in Bit
      BY <1>5, TakeBitProperties
    <3> QED  BY <2>2, <3>1, AppendProperties DEF NextNode
  <2> QED  BY <2>2, <2>5, <2>6, <2>7, <2>8
<1>6. CASE DecodeInnerNode
  <2>1. /\ Decoding /\ TakeBit /\ HasNextNode /\ node' = NextNode
        /\ UNCHANGED <<input, pc, prefixes, trie, out_buf, file>>
    BY <1>6 DEF DecodeInnerNode, Walk
  <2> SUFFICES ASSUME Len(file') < input'.capacity, ~ TotalOverflows'
               PROVE  CodedBits(DecodedCodepoints)' + Len(node') = reader'.bits_read
    BY DEF BitsAccounted
  <2>2. /\ reader'.bits_read = CodedBits(DecodedCodepoints) + Len(node) + 1
        /\ CodedBits(DecodedCodepoints) \in Nat /\ Len(node) \in Nat
        /\ Len(NextNode) = Len(node) + 1
    BY <1>5, <2>1
  <2>3. CodedBits(DecodedCodepoints)' = CodedBits(DecodedCodepoints)
    BY <2>1 DEF CodedBits, DecodedCodepoints
  <2> QED  BY <2>1, <2>2, <2>3
<1>7. CASE DecodeLeaf
  <2> DEFINE c == Decoded
             buf == out_buf \o Utf8(c)
             before == CodepointsOf(done)
  <2>1. /\ Decoding /\ TakeBit /\ HasNextNode /\ AtLeaf /\ node' = Root
        /\ c \in DOMAIN Utf8Length /\ UNCHANGED <<input, pc, prefixes, trie>>
        /\ \/ file' = WriteToFile(buf) /\ out_buf' = <<>>
           \/ out_buf' = buf /\ file' = file
    BY <1>7 DEF DecodeLeaf, Walk
  <2> SUFFICES ASSUME Len(file') < input'.capacity, ~ TotalOverflows'
               PROVE  CodedBits(DecodedCodepoints)' + Len(node') = reader'.bits_read
    BY DEF BitsAccounted
  <2>2. /\ Utf8(c) \in Seq(FileByte) /\ buf \in Seq(FileByte)
        /\ file \o buf = done \o Utf8(c)
    <3>1. Utf8(c) \in Seq(FileByte)
      BY <2>1, Utf8Type
    <3> DEFINE u == Utf8(c)
    <3> HIDE DEF u
    <3>2. u \in Seq(FileByte)
      BY <3>1 DEF u
    <3>3. out_buf \o u \in Seq(FileByte)
      BY <1>1, <3>2, ConcatProperties
    <3>4. file \o (out_buf \o u) = (file \o out_buf) \o u
      BY <1>1, <3>2, ConcatAssociative
    <3> QED  BY <3>1, <3>3, <3>4 DEF u, done
  <2>3. Len(file) < input.capacity /\ file' \o out_buf' = done \o Utf8(c)
    <3> HIDE DEF buf
    <3>1. CASE file' = WriteToFile(buf) /\ out_buf' = <<>>
      <4>1. WriteToFile(buf) = file \o buf /\ Len(file) < input.capacity
        BY <2>1, <2>2, <3>1, BytesKept
      <4>2. file \o buf \in Seq(FileByte)
        BY <1>1, <2>2, ConcatProperties
      <4>3. (file \o buf) \o <<>> = file \o buf
        BY <4>2, ConcatEmptySeq
      <4> QED  BY <2>2, <3>1, <4>1, <4>3
    <3>2. CASE out_buf' = buf /\ file' = file
      BY <2>1, <2>2, <3>2
    <3> QED  BY <2>1, <3>1, <3>2
  <2>4. /\ reader'.bits_read = CodedBits(DecodedCodepoints) + Len(node) + 1
        /\ CodedBits(DecodedCodepoints) \in Nat /\ Len(node) \in Nat
        /\ Len(NextNode) = Len(node) + 1
    BY <1>5, <2>1, <2>3
  <2>5. DecodedCodepoints = before /\ DecodedCodepoints' = Append(before, c)
    <3>1. CodepointsOf(done \o Utf8(c)) = Append(before, c)
      BY <1>1, <2>1, CodepointsOfUtf8
    <3> QED  BY <2>3, <3>1 DEF DecodedCodepoints, done
  <2>6. c \in DOMAIN prefixes /\ prefixes[c] = NextNode
    <3>1. trie = BuildDecodeTrie(prefixes)
      BY <1>1, <2>1 DEF TrieInv, Decoding
    <3> QED  BY <1>1, <2>1, <3>1, TrieProperties DEF HasNextNode, AtLeaf, Decoded
  <2> HIDE DEF c
  <2>7. before \in Seq(DOMAIN Utf8Length)
    <3>1. <<c, 1>> \in FileByte
      BY <2>1 DEF FileByte
    <3> QED  BY <1>1, <3>1, CodepointsOfAppend
  <2> HIDE DEF before
  <2>8. CodedBits(Append(before, c)) = CodedBits(before) + Len(NextNode)
    BY <1>1, <2>1, <2>6, <2>7, CodedBitsAppend
  <2>9. CodedBits(DecodedCodepoints)' = CodedBits(Append(before, c))
    BY <2>1, <2>5 DEF CodedBits
  <2>10. Len(node') = 0
    BY <2>1 DEF Root
  <2> QED  BY <2>4, <2>5, <2>8, <2>9, <2>10
<1>8. \/ pc' # "decode" \/ ReadTotal \/ DecodeInnerNode \/ DecodeLeaf \/ UNCHANGED vars
  BY DEF Next, OpenStream, OpenStreamFails, ReadCount, ReadEntry, CreateOutput,
         CreateOutputFails, HeaderCutShort, ReadTotalZero, FirstBufferCutShort,
         InvalidCodepoint, NoCodeForBits, PayloadCutShort, Finish, Throw, End
<1> QED  BY <1>2, <1>3, <1>4, <1>6, <1>7, <1>8

\* Whatever is wrong with the file, every bit that was read belongs to the code
\* of one decoded codepoint or to the way to the current node.
THEOREM BitsAccountedCorrect == Spec => []BitsAccounted
<1>1. Init => BitsAccounted
  BY DEF Init, BitsAccounted
<1>2. IInv /\ BitsAccounted /\ [Next]_vars => BitsAccounted'
  BY StepBitsAccounted
<1> QED  BY <1>1, <1>2, IInvCorrect, PTL DEF Spec
=============================================================================
