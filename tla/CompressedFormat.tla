--------------------------- MODULE CompressedFormat ---------------------------
(***************************************************************************)
(* The layout of a compressed file: what write_header and                  *)
(* write_file_contents put into it (output_file.cpp) and how integers and  *)
(* packed codes are read back (compressed_format.cpp).                     *)
(*                                                                         *)
(*   count | count x (codepoint, code length, code) | total bits | payload *)
(*                                                                         *)
(* A byte is the tuple of its bits, most significant first.  The width of  *)
(* a byte and of every field is a parameter, so that a small instance has  *)
(* the limits of the real one (8; 4, 4, 1 and 8 bytes) within reach.       *)
(***************************************************************************)
EXTENDS Powers, SequencesExt, FiniteSetsExt

CONSTANTS
  ByteBits,        \* BITS_PER_BYTE
  CountBytes,      \* sizeof the number of entries
  CodepointBytes,  \* sizeof a codepoint
  LengthBytes,     \* sizeof the length of a code
  TotalBytes       \* sizeof the number of payload bits

ASSUME WidthsAssumption ==
  \A n \in {ByteBits, CountBytes, CodepointBytes, LengthBytes, TotalBytes} :
    n \in Nat \ {0}

Bit == {0, 1}

Byte == [1 .. ByteBits -> Bit]

\* How many bytes hold n bits.
BytesFor(n) == (n + ByteBits - 1) \div ByteBits

\* pack_bits: bits into bytes, first bit first, the last byte padded with 0.
PackBits(s) ==
  [k \in 1 .. BytesFor(Len(s)) |->
     [j \in 1 .. ByteBits |->
        LET i == (k - 1) * ByteBits + j
        IN IF i <= Len(s) THEN s[i] ELSE 0]]

\* unpack_bits: the first n bits of a sequence of bytes.
UnpackBits(bytes, n) ==
  [i \in 1 .. n |-> bytes[1 + (i - 1) \div ByteBits][1 + ((i - 1) % ByteBits)]]

\* write_be: the low n bytes of v, high byte first.
WriteBe(v, n) ==
  PackBits([i \in 1 .. (n * ByteBits) |-> (v \div Pow2[n * ByteBits - i]) % 2])

\* read_be: the number that a sequence of bytes stands for.
ReadBe(bytes) ==
  FoldLeft(LAMBDA value, bit : 2 * value + bit,
           0, UnpackBits(bytes, Len(bytes) * ByteBits))

\* One more than the largest number in a field of n bytes.
FieldRange(n) == Pow2[n * ByteBits]

\* The entries of a std::map in the order an iteration visits them.
InKeyOrder(S) ==
  CHOOSE s \in [1 .. Cardinality(S) -> S] :
    \A i, j \in DOMAIN s : i < j => s[i] < s[j]

-----------------------------------------------------------------------------
\* What the compressor writes, for a map from codepoints to codes.

\* An entry of the header; a code whose length does not fit is left out.
HeaderEntry(codepoint, code) ==
  IF Len(code) >= FieldRange(LengthBytes)
    THEN <<>>
    ELSE WriteBe(codepoint, CodepointBytes)
           \o WriteBe(Len(code), LengthBytes)
           \o PackBits(code)

\* write_header; too many codes for the count leave the header out.
Header(codes) ==
  LET keys == InKeyOrder(DOMAIN codes)
  IN IF Len(keys) >= FieldRange(CountBytes)
       THEN <<>>
       ELSE WriteBe(Len(keys), CountBytes)
              \o FlattenSeq([i \in DOMAIN keys |->
                               HeaderEntry(keys[i], codes[keys[i]])])

\* The codes of a text, one after the other; a codepoint without one is
\* skipped.
EncodedBits(text, codes) ==
  FlattenSeq([i \in DOMAIN text |->
                IF text[i] \in DOMAIN codes THEN codes[text[i]] ELSE <<>>])

\* write_file_contents on an input that decodes to the codepoints of text.
Contents(text, codes) ==
  LET bits == EncodedBits(text, codes)
  IN WriteBe(Len(bits), TotalBytes) \o PackBits(bits)

\* The file that compress::run leaves.
CompressedFile(text, codes) == Header(codes) \o Contents(text, codes)
=============================================================================
