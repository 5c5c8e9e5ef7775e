------------------------------ MODULE Decompress ------------------------------
(***************************************************************************)
(* One call of decompress::run (decompress.hpp): it opens the compressed   *)
(* file, reads the header entry by entry (read_header), creates the output *)
(* file and decodes the payload bit by bit (decode_and_write in            *)
(* compressed_format.cpp), refilling the buffer of BitReader and flushing  *)
(* out_buf as it goes.                                                     *)
(*                                                                         *)
(* What may be wrong with the files is part of `input`: the compressed     *)
(* file may be cut short, longer or damaged, either file may not open, and *)
(* the disk holds a limited number of bytes.  Nothing is modelled of the   *)
(* progress callback and the messages on std::cout.                        *)
(***************************************************************************)
EXTENDS CompressedFormat

CONSTANTS
  DecodeBufferBytes,  \* DECODE_BUFFER_BYTES
  OutputBufferSize,   \* OUTPUT_BUFFER_SIZE
  Utf8Length,         \* codepoint -> bytes of its UTF-8 form, for the
                      \* codepoints that utf8::append accepts
  Inputs              \* the situations the call may find

ASSUME BuffersAssumption ==
  /\ DecodeBufferBytes \in Nat \ {0}
  /\ OutputBufferSize \in Nat \ {0}
  /\ \A c \in DOMAIN Utf8Length : c \in Nat /\ Utf8Length[c] \in 1 .. 4

ASSUME InputsAssumption ==
  \A i \in Inputs : i.stream \in Seq(Byte) /\ i.capacity \in Nat

VARIABLES
  input,     \* the files found and (for the properties) what was compressed:
             \* the text, its codes and the file made of them
  pc,        \* where the call is
  pos,       \* bytes of the stream read so far
  entries,   \* entries of the header still to be read
  prefixes,  \* the map from codepoints to codes that read_header fills
  trie,      \* the decode trie
  reader,    \* the BitReader
  node,      \* node_idx
  out_buf,   \* decoded bytes not yet written
  file,      \* bytes of the output file
  outcome    \* how the call ended

vars == <<input, pc, pos, entries, prefixes, trie, reader, node, out_buf, file,
          outcome>>

-----------------------------------------------------------------------------
\* The stream and the output file.

\* stream->read of n bytes delivers all of them.
CanRead(n) == pos + n <= Len(input.stream)

BytesAt(offset, n) == SubSeq(input.stream, offset + 1, offset + n)

\* utf8::append: the k-th byte of the UTF-8 form of c is <<c, k>>.
Utf8(c) == [k \in 1 .. Utf8Length[c] |-> <<c, k>>]

\* output_file::write: what does not fit on the disk is lost without a word.
WriteToFile(data) ==
  LET all == file \o data
  IN SubSeq(all, 1, Min({input.capacity, Len(all)}))

\* A node of the trie is named by the way to it from the root, a sequence of
\* bits, instead of its index in the vector; a child that is not a node stands
\* for INVALID_NODE.
Root == <<>>

Init ==
  /\ input \in Inputs
  /\ pc = "open"
  /\ pos = 0
  /\ entries = 0
  /\ prefixes = <<>>
  /\ trie = <<>>
  /\ reader = [total_bits |-> 0, bits_read |-> 0, cursor |-> 0, buffer |-> <<>>]
  /\ node = Root
  /\ out_buf = <<>>
  /\ file = <<>>
  /\ outcome = "running"

End(how) ==
  /\ pc' = "done"
  /\ outcome' = how

\* An exception: whatever is in out_buf is lost, the output file stays.
Throw(what) ==
  /\ End(what)
  /\ UNCHANGED <<input, pos, entries, prefixes, trie, reader, node, out_buf, file>>

-----------------------------------------------------------------------------
\* The header.

OpenStream ==
  /\ pc = "open"
  /\ input.opens
  /\ pc' = "count"
  /\ UNCHANGED <<input, pos, entries, prefixes, trie, reader, node, out_buf,
                 file, outcome>>

OpenStreamFails ==
  /\ pc = "open"
  /\ ~ input.opens
  /\ Throw("file_operation_error")

ReadCount ==
  /\ pc = "count"
  /\ CanRead(CountBytes)
  /\ entries' = ReadBe(BytesAt(pos, CountBytes))
  /\ pos' = pos + CountBytes
  /\ pc' = "entry"
  /\ UNCHANGED <<input, prefixes, trie, reader, node, out_buf, file, outcome>>

\* The entry at pos, of which CodepointBytes + LengthBytes bytes are there.
CodepointAt == ReadBe(BytesAt(pos, CodepointBytes))
CodeLengthAt == ReadBe(BytesAt(pos + CodepointBytes, LengthBytes))
CodeOffset == CodepointBytes + LengthBytes

EntryComplete ==
  /\ CanRead(CodeOffset)
  /\ CanRead(CodeOffset + BytesFor(CodeLengthAt))

\* A codepoint that comes twice keeps the code that comes last.
ReadEntry ==
  /\ pc = "entry"
  /\ entries > 0
  /\ EntryComplete
  /\ LET size == BytesFor(CodeLengthAt)
         code == UnpackBits(BytesAt(pos + CodeOffset, size), CodeLengthAt)
     IN /\ prefixes' = [c \in DOMAIN prefixes \union {CodepointAt} |->
                          IF c = CodepointAt THEN code ELSE prefixes[c]]
        /\ pos' = pos + CodeOffset + size
  /\ entries' = entries - 1
  /\ UNCHANGED <<input, pc, trie, reader, node, out_buf, file, outcome>>

\* The header has been read; only now is the output file created.
CreateOutput ==
  /\ pc = "entry"
  /\ entries = 0
  /\ input.creates
  /\ pc' = "total"
  /\ UNCHANGED <<input, pos, entries, prefixes, trie, reader, node, out_buf,
                 file, outcome>>

CreateOutputFails ==
  /\ pc = "entry"
  /\ entries = 0
  /\ ~ input.creates
  /\ Throw("file_operation_error")

\* The stream ends inside a field of the header or in total_bits.
HeaderCutShort ==
  /\ \/ pc = "count" /\ ~ CanRead(CountBytes)
     \/ pc = "entry" /\ entries > 0 /\ ~ EntryComplete
     \/ pc = "total" /\ ~ CanRead(TotalBytes)
  /\ Throw("file_operation_error")

-----------------------------------------------------------------------------
\* The decode trie.

\* ensure_child makes every node on the way to the end of a code.
TrieNodes(codes) ==
  {Root} \union UNION {Prefixes(codes[c]) : c \in DOMAIN codes}

\* The codepoints that set is_leaf at a node; a code without bits is skipped.
CodepointsAt(codes, n) == {c \in DOMAIN codes : codes[c] = n /\ n # Root}

\* build_decode_trie visits the codes in the order of their codepoints, so of
\* several with one code the largest stays.
BuildDecodeTrie(codes) ==
  [n \in TrieNodes(codes) |->
     [is_leaf   |-> CodepointsAt(codes, n) # {},
      codepoint |-> IF CodepointsAt(codes, n) = {}
                      THEN 0
                      ELSE Max(CodepointsAt(codes, n))]]

-----------------------------------------------------------------------------
\* The BitReader.

\* total_bits_ and the arithmetic on it have the width of its field.
SizeRange == FieldRange(TotalBytes)

\* Mutant: the bytes that hold the remaining bits are rounded down.
BytesToReadRoundedDown(r) ==
  LET remaining == r.total_bits - r.bits_read
  IN Min({DecodeBufferBytes, remaining \div ByteBits})

\* Mutant: a refill takes a whole buffer, and with it bytes behind the payload.
BytesToReadWhole(r) ==
  IF r.total_bits = r.bits_read THEN 0 ELSE DecodeBufferBytes

\* How many bytes refill asks the stream for.
BytesToRead(r) ==
  LET remaining == r.total_bits - r.bits_read
  IN IF remaining = 0
       THEN 0
       ELSE Min({DecodeBufferBytes,
                 ((remaining + ByteBits - 1) % SizeRange) \div ByteBits})

\* The reader after a refill from the stream at offset.
Refill(r, offset) ==
  [r EXCEPT !.buffer = BytesAt(offset, BytesToRead(r)), !.cursor = 0]

HasNext == reader.bits_read < reader.total_bits

NeedsRefill == reader.cursor >= Len(reader.buffer) * ByteBits

\* The bit that next_bit finds in the buffer of r, and r after it.  With an
\* empty buffer it answers 0 and stays where it is.
NextBit(r) ==
  IF r.buffer = <<>> \/ r.bits_read >= r.total_bits
    THEN [bit |-> 0, reader |-> r]
    ELSE [bit    |-> r.buffer[1 + r.cursor \div ByteBits]
                             [1 + (r.cursor % ByteBits)],
          reader |-> [r EXCEPT !.cursor = @ + 1, !.bits_read = @ + 1]]

-----------------------------------------------------------------------------
\* Decoding.

\* An empty payload ends the call before the trie is built.
ReadTotalZero ==
  /\ pc = "total"
  /\ CanRead(TotalBytes)
  /\ ReadBe(BytesAt(pos, TotalBytes)) = 0
  /\ pos' = pos + TotalBytes
  /\ End("success")
  /\ UNCHANGED <<input, entries, prefixes, trie, reader, node, out_buf, file>>

\* The trie is built and the reader takes its first buffer.
ReadTotal ==
  /\ pc = "total"
  /\ CanRead(TotalBytes)
  /\ LET r == [reader EXCEPT !.total_bits = ReadBe(BytesAt(pos, TotalBytes))]
     IN /\ r.total_bits # 0
        /\ CanRead(TotalBytes + BytesToRead(r))
        /\ reader' = Refill(r, pos + TotalBytes)
        /\ pos' = pos + TotalBytes + BytesToRead(r)
  /\ trie' = BuildDecodeTrie(prefixes)
  /\ node' = Root
  /\ pc' = "decode"
  /\ UNCHANGED <<input, entries, prefixes, out_buf, file, outcome>>

FirstBufferCutShort ==
  /\ pc = "total"
  /\ CanRead(TotalBytes)
  /\ LET r == [reader EXCEPT !.total_bits = ReadBe(BytesAt(pos, TotalBytes))]
     IN ~ CanRead(TotalBytes + BytesToRead(r))
  /\ Throw("file_operation_error")

\* One iteration of the loop is under way and a refill, if due, succeeds.
Decoding ==
  /\ pc = "decode"
  /\ HasNext
  /\ NeedsRefill => CanRead(BytesToRead(reader))

\* What the call of next_bit in this iteration returns and leaves.
Fetched == NextBit(IF NeedsRefill THEN Refill(reader, pos) ELSE reader)

NextNode == Append(node, Fetched.bit)

HasNextNode == NextNode \in DOMAIN trie

AtLeaf == trie[NextNode].is_leaf

\* Mutant: the walk of the trie goes on below the leaf.
WalkOn == NextNode

\* After a leaf the walk starts again at the root.
Walk == IF AtLeaf THEN Root ELSE NextNode

TakeBit ==
  /\ reader' = Fetched.reader
  /\ pos' = IF NeedsRefill THEN pos + BytesToRead(reader) ELSE pos

DecodeInnerNode ==
  /\ Decoding
  /\ HasNextNode
  /\ ~ AtLeaf
  /\ TakeBit
  /\ node' = Walk
  /\ UNCHANGED <<input, pc, entries, prefixes, trie, out_buf, file, outcome>>

Decoded == trie[NextNode].codepoint

\* A codepoint is complete; a full out_buf is written.
DecodeLeaf ==
  /\ Decoding
  /\ HasNextNode
  /\ AtLeaf
  /\ Decoded \in DOMAIN Utf8Length
  /\ TakeBit
  /\ LET buf == out_buf \o Utf8(Decoded)
     IN IF Len(buf) >= OutputBufferSize
          THEN file' = WriteToFile(buf) /\ out_buf' = <<>>
          ELSE out_buf' = buf /\ UNCHANGED file
  /\ node' = Walk
  /\ UNCHANGED <<input, pc, entries, prefixes, trie, outcome>>

\* utf8::append throws utf8::invalid_code_point, which is not a
\* file_operation_exception: main reports it as an unknown error.
InvalidCodepoint ==
  /\ Decoding
  /\ HasNextNode
  /\ AtLeaf
  /\ Decoded \notin DOMAIN Utf8Length
  /\ Throw("unknown_error")

NoCodeForBits ==
  /\ Decoding
  /\ ~ HasNextNode
  /\ Throw("file_operation_error")

\* Mutant: a short read is tried again.
PayloadRetried ==
  /\ pc = "decode"
  /\ HasNext
  /\ NeedsRefill
  /\ ~ CanRead(BytesToRead(reader))
  /\ UNCHANGED vars

PayloadCutShort ==
  /\ pc = "decode"
  /\ HasNext
  /\ NeedsRefill
  /\ ~ CanRead(BytesToRead(reader))
  /\ Throw("file_operation_error")

\* Mutant: what is left in out_buf is not written.
FinishWithoutFlush ==
  /\ pc = "decode"
  /\ ~ HasNext
  /\ End("success")
  /\ out_buf' = <<>>
  /\ UNCHANGED <<input, pos, entries, prefixes, trie, reader, node, file>>

\* All bits have been read, whether or not they end with a code.
Finish ==
  /\ pc = "decode"
  /\ ~ HasNext
  /\ End("success")
  /\ file' = WriteToFile(out_buf)
  /\ out_buf' = <<>>
  /\ UNCHANGED <<input, pos, entries, prefixes, trie, reader, node>>

Next ==
  \/ OpenStream
  \/ OpenStreamFails
  \/ ReadCount
  \/ ReadEntry
  \/ CreateOutput
  \/ CreateOutputFails
  \/ HeaderCutShort
  \/ ReadTotalZero
  \/ ReadTotal
  \/ FirstBufferCutShort
  \/ DecodeInnerNode
  \/ DecodeLeaf
  \/ InvalidCodepoint
  \/ NoCodeForBits
  \/ PayloadCutShort
  \/ Finish

\* The call runs on one thread and never waits for anybody.
Spec == Init /\ [][Next]_vars /\ WF_vars(Next)

-----------------------------------------------------------------------------
\* Properties.

FileByte == {<<c, k>> : c \in DOMAIN Utf8Length, k \in 1 .. 4}

\* The type invariant: the decoder stands at an inner node of the trie, the
\* cursor stays inside the buffer, and no more bits are counted than were announced.
TypeOK ==
  /\ pc \in {"open", "count", "entry", "total", "decode", "done"}
  /\ pos \in 0 .. Len(input.stream)
  /\ entries \in 0 .. (FieldRange(CountBytes) - 1)
  /\ DOMAIN prefixes \subseteq 0 .. (FieldRange(CodepointBytes) - 1)
  /\ \A c \in DOMAIN prefixes : prefixes[c] \in Seq(Bit)
  /\ \A n \in DOMAIN trie :
       trie[n].is_leaf => trie[n].codepoint \in DOMAIN prefixes
  /\ pc = "decode" => node \in DOMAIN trie /\ ~ trie[node].is_leaf
  /\ reader.buffer \in Seq(Byte)
  /\ reader.cursor \in 0 .. (Len(reader.buffer) * ByteBits)
  /\ reader.bits_read \in 0 .. reader.total_bits
  /\ out_buf \in Seq(FileByte)
  /\ file \in Seq(FileByte)
  /\ outcome \in {"running", "success", "file_operation_error", "unknown_error"}

\* No byte of the compressed file is wrong, up to where it or the compressor's
\* file ends.
Intact ==
  \/ IsPrefix(input.stream, input.compressed)
  \/ IsPrefix(input.compressed, input.stream)

Utf8Text(text) == FlattenSeq([i \in DOMAIN text |-> Utf8(text[i])])

\* The bits read so far are exactly the codes of the codepoints decoded so far
\* followed by the way from the root to the current node, wherever a buffer of
\* the reader or of the output ended: no bit is skipped or read twice at a
\* refill, and no byte is lost or written twice at a flush.
DecodesText ==
  pc = "decode" /\ Len(file) < input.capacity /\ Intact =>
    \E k \in 0 .. Len(input.text) :
      LET done == EncodedBits(SubSeq(input.text, 1, k), input.codes)
          bits == EncodedBits(input.text, input.codes)
      IN /\ file \o out_buf = Utf8Text(SubSeq(input.text, 1, k))
         /\ Len(done) <= reader.bits_read
         /\ node = SubSeq(bits, Len(done) + 1, reader.bits_read)

\* The number of payload bits is so large that refill's sum wraps around.
TotalOverflows == reader.total_bits > SizeRange - ByteBits

\* The codepoints whose bytes these are, by their first bytes.
CodepointsOf(bytes) ==
  FlattenSeq([i \in DOMAIN bytes |->
                IF bytes[i][2] = 1 THEN <<bytes[i][1]>> ELSE <<>>])

\* The codepoints decoded so far, while the disk has room for them.
DecodedCodepoints == CodepointsOf(file \o out_buf)

CodedBits(text) == Len(EncodedBits(text, prefixes))

\* Whatever is wrong with the file, every bit that was read belongs to the code
\* of one decoded codepoint or to the way to the current node: also when the
\* header has several codes for a codepoint, one code for several codepoints, a
\* code that begins another, or an empty one.
BitsAccounted ==
  pc = "decode" /\ Len(file) < input.capacity /\ ~ TotalOverflows =>
    CodedBits(DecodedCodepoints) + Len(node) = reader.bits_read

\* Where the first n entries of the header of a file end, if the file has them:
\* an entry is as long as its length field says.
HeaderEnd(stream, n) ==
  LET end[k \in Nat] ==
        IF k = 0
          THEN CountBytes
          ELSE LET offset == end[k - 1]
                   length == SubSeq(stream, offset + CodepointBytes + 1,
                                    offset + CodeOffset)
               IN IF offset + CodeOffset <= Len(stream)
                    THEN offset + CodeOffset + BytesFor(ReadBe(length))
                    ELSE offset
  IN end[n]

\* What the file says of itself, wherever the call is: the number of entries, the
\* place behind the header and the total_bits there, and where the payload starts.
AnnouncedEntries == ReadBe(BytesAt(0, CountBytes))
TotalAt == HeaderEnd(input.stream, AnnouncedEntries)
AnnouncedBits == ReadBe(BytesAt(TotalAt, TotalBytes))
PayloadAt == TotalAt + TotalBytes

\* However the file is damaged, a call that succeeds has read as many bits as the
\* file announces behind its header, and stopped right behind the bytes that
\* hold them: no entry was read too short or too long, and no buffer skipped a
\* byte, was read twice or reached beyond the payload.
SuccessReadsAll ==
  outcome = "success" =>
    /\ reader.bits_read = AnnouncedBits
    /\ pos = PayloadAt + BytesFor(AnnouncedBits)

\* The call ends however the file is damaged, below the limit of the sum.
TerminatesBelowLimit == <>(outcome # "running" \/ TotalOverflows)

\* A map of codes as the compressor makes it of a text, within the limits of
\* the fields of the header.
CodesFit(codes) ==
  /\ codes \in [DOMAIN codes -> Seq(Bit) \ {<<>>}]
  /\ DOMAIN codes \subseteq DOMAIN Utf8Length
  /\ DOMAIN codes \subseteq 0 .. (FieldRange(CodepointBytes) - 1)
  /\ Cardinality(DOMAIN codes) < FieldRange(CountBytes)
  /\ \A c, d \in DOMAIN codes :
       /\ Len(codes[c]) < FieldRange(LengthBytes)
       /\ c # d => ~ IsPrefix(codes[c], codes[d])

\* The situation is about a text that the format can hold: no limit is met.
TextFits(i) ==
  /\ CodesFit(i.codes)
  /\ i.text \in Seq(DOMAIN i.codes)
  /\ i.compressed = CompressedFile(i.text, i.codes)
  /\ Len(EncodedBits(i.text, i.codes)) <= SizeRange - ByteBits

\* The text leaves room on the disk.
HasRoom(i) == Len(Utf8Text(i.text)) < i.capacity

\* The promise to the user, for damaged files, too.
Abstract == INSTANCE DecompressSpec WITH
              original <- Utf8Text(input.text),
              intact <- Intact,
              sound <- /\ input.opens
                       /\ input.creates
                       /\ IsPrefix(input.compressed, input.stream),
              written <- file

ImplementsDecompressSpec == Abstract!Spec

-----------------------------------------------------------------------------
\* What the documentation says of errors, which the code does not keep to.

\* Announced bits that the file does not hold are a read error, reported by an
\* exception (compressed_format.hpp:36): no more is ever decoded than is there.
ShortPayloadReported ==
  CodedBits(DecodedCodepoints) <= Len(input.stream) * ByteBits

\* A payload that ends inside a code is a decode error, reported by an
\* exception (compressed_format.hpp:36).
EndInsideCodeReported == outcome = "success" => node = Root

\* Every decode error is a file_operation_exception (compressed_format.hpp:36),
\* also one in the conversion to UTF-8.
DecodeErrorsAreFileErrors == outcome # "unknown_error"

\* A write error is reported by an exception (decompress.hpp:18).
WriteErrorReported == outcome = "success" => file = Utf8Text(input.text)
=============================================================================
