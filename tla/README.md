# TLA+ models of cc-compression-tool

`cc-compression-tool` compresses a UTF-8 text file with Huffman codes and
decompresses it again. This directory holds TLA+ modules translated from its
source, TLC configurations that check them on small instances, and TLAPS proofs
for every input of all safety properties that the configurations check, among
them both refinements and that the codes are minimal.

## The system

One process handles one command line. It is single-threaded; the only other
actors are the file system and other processes that use the same files.

```
main -> validate_arguments
          |-- compress::run:   load_file -> build_frequency_table
          |                    -> generate_prefix_codes -> output_file
          |                    -> write_header -> load_file (again)
          |                    -> write_file_contents
          '-- decompress::run: ifstream -> read_header -> output_file
                               -> decode_and_write (BitReader, decode trie)
```

| Component (under `src/src`) | State it keeps | Operations | What is hard | What makes it correct |
|---|---|---|---|---|
| `prefix_codes` | tree nodes, two queues, traversal stack, map of codes | `generate_prefix_codes` | the second queue is never sorted, the method only works because parents are made in ascending order | queues stay sorted, each merge is greedy, the result is a prefix code for exactly the table's codepoints, of minimal size |
| `file_handler/output_file` | output stream | `write`, `write_header`, `write_file_contents` | silent early returns, unchecked writes, padding | what is written can be read back, or an error is reported |
| `file_handler/compressed_format` | stream position, `BitReader` (buffer, cursor, counts), trie, node, `out_buf` | `read_header`, `decode_and_write` | buffer ends inside codes, output flushes between codepoints, damaged files | no bit skipped or read twice, no byte lost or written twice, every damage ends in an error or an end |
| `frequency_table` | counts of ASCII and other codepoints | `build_frequency_table` | invalid UTF-8 half way, ties in an unstable sort | one entry per codepoint that occurs, exact counts, ascending |
| `file_handler/input_file` | bytes in memory or a mapping, position | `load_file`, `next_codepoint`, `reset`, `data`, `at_end` | the size that selects the representation may be stale when the file is opened; a mapping changes with its file | a copy holds nothing that was not in the file; both representations give the codepoints of their octets; every unchanged file loads; a failed load is the documented error |
| vendored `utf8` (`src/include`) | none | `next`, `append` as the program calls them | range boundaries, overlong forms, surrogates | what is accepted is written back byte for byte |
| `argument` | none | `validate_arguments` | existence checks before the files are opened | nobody's file is overwritten |
| `main`, `compress`, `exceptions`, `exit_codes` | files, exit code | `main`, `compress::run` | two loads of one input, failures after the output was created, `noexcept` functions that can throw | exit code 0 means that the output is complete |
| `progress` | none | `print_progress` | nothing | not modelled: formatting only |

Every hazard, at its line, is in `PROJECT.json` with the properties that would
catch it.

## Modules

| Module | What it is |
|---|---|
| `Powers` | the powers of two, for the widths of fields and for Kraft's inequality |
| `Table` | the type of a frequency table, and what makes one: the interface between the next two parts |
| `Utf8` | the vendored `utf8::next` and `utf8::append` as operators on octets |
| `InputFile` | `load_file` one system call per step, the object it returns, and a user who changes the file meanwhile |
| `FrequencyTable` | `build_frequency_table(load_file(path))`: extends `InputFile` by the scan of the object |
| `MCFrequencyTable` | TLC instances |
| `SequenceLemmas` | TLAPS proofs about `IsPrefix` and `FlattenSeq`, induction over sets, functions defined by recursion, sums over finite sets and powers of two, for the modules below |
| `FrequencyTableProofs` | TLAPS proofs about `FrequencyTable` and `InputFile` |
| `PrefixCodeSpec` | what `generate_prefix_codes` promises its callers: one step that returns any prefix code for exactly the codepoints of the table |
| `PrefixCodes` | `generate_prefix_codes`: the two-queue construction and the traversal with an explicit stack; implements `PrefixCodeSpec` |
| `MCPrefixCodes` | TLC instance |
| `PrefixCodesProofs` | TLAPS proofs about `PrefixCodes`, and that it implements `PrefixCodeSpec` |
| `PrefixCodesOptimal` | TLAPS proofs that the codes of `PrefixCodes` are minimal |
| `CompressedFormat` | the file layout as operators on sequences of bytes: both directions of the integer and bit packing, and what the compressor writes |
| `DecompressSpec` | what `decompress::run` promises: for a file of which only the length may be wrong, and less for a damaged one |
| `Decompress` | one call of `decompress::run`, on `CompressedFormat`; implements `DecompressSpec` |
| `MCDecompress` | TLC instances |
| `CompressedFormatProofs` | TLAPS proofs about the operators of `CompressedFormat` |
| `DecompressProofs` | TLAPS proofs about `Decompress` for any file |
| `DecompressRefinement` | TLAPS proofs about `Decompress` for files of the compressor, and that it implements `DecompressSpec` |
| `Tool` | several runs of the whole program on one file system: `main`, `validate_arguments`, `compress::run`, `decompress::run`, `output_file`, with a user who edits, removes and kills, and a disk that fills up |
| `MCTool` | TLC instances |
| `ToolProofs` | TLAPS proofs about `Tool` |

The levels fit together by their interfaces. `InputFile` shows what the bytes
are that `FrequencyTable` scans; `FrequencyTable` shows that it returns an
`IsFrequencyTable` (proved for every file); `PrefixCodes` assumes one and shows
that it returns a map that satisfies `PrefixCodeSpec`; `Decompress` starts from what
`CompressedFormat` writes for any such map and shows that it writes the text
back. `Tool` keeps of all this only which codepoints have a code, and adds what
happens between the calls.

### Utf8

`StartsWithCodepoint` is `validate_next` up to the kind of its error, which both
callers ignore. Shifts and masks are divisions and remainders; the two chains of
comparisons that divide the codepoints by their length, in `is_overlong_sequence`
and in `append`, are one operator, `OctetsOf`.

### InputFile

`pc` follows `load_file` from one system call to the next: `CheckFile`
(`exists`, `is_regular_file`), `GetFileLoadType` (`file_size`), then `OpenStream`,
`TellSize` and `ReadStream` of `in_memory_input`, or `MapFile` of `mmap_input`.
Between any two of them the user may `Rewrite` the file in place or remove it.
`input` is the object: its kind, its buffer, its size and `pos`. `Data` is what
`data()` points to: the buffer, or for a mapping whatever the file contains
*now*, cut to the size it had when it was mapped. Where a mapped file has become
too short the octets are zeros up to the end of the last page, and an access
behind that is a fault (`Faults`), which ends the process. `versions` (what the
file has contained) and `read` (what `next_codepoint` has returned) are history
variables that only the properties use.

One call of `utf8::next`, and one read of the whole file, sees one version of
it. A rewrite changes the contents of the file that the path names; replacing
it by another file of the same name is not modelled, and a file that has been
removed stays what it was for who has it open.

### FrequencyTable

It extends `InputFile`: `BuildFrequencyTable` hands the loaded object over, and
then one step is one iteration of the loop over the bytes, the exception, the
fault, or everything after the loop. `ascii_counts` and `unicode_counts` are the
two containers; the order in which the hash map is traversed and the order the
unstable sort gives to equal counts are a nondeterministic choice among all
ascending sequences of the entries. Before the object is handed over its owner
may use `next_codepoint` and `reset`, as the program's tests do.

### PrefixCodes

A `huffman_node` is an element of the sequence `nodes` and a `shared_ptr` is an
index into it, 0 being `nullptr`; `first`, `second` and `stack` are the two
queues and the traversal stack with their front or top at the head;
`bit_table` is the map that is filled and returned. One step is one iteration of
a loop (`Merge`, `VisitLeaf`, `VisitInner`) or one piece of straight-line code
(`GenerateTrivial`, `PushLeaves`, `StartTraversal`, `Return`). `pop_smallest` is
the operator `PopSmallest`, applied twice in a merge, the second time to what
the first left. Counts are `mpz_int` in the code and naturals here: they cannot
overflow.

### CompressedFormat and Decompress

A byte is the tuple of its bits. `Decompress` has the stream position, the
number of header entries still to be read, the map of codes, the trie, the
`BitReader` (`total_bits`, `bits_read`, `cursor`, `buffer`), `node`, `out_buf`,
and the bytes of the output file. A trie node is named by its path from the root
instead of its index in the vector; both name a node uniquely, and which paths
are nodes is what `ensure_child` decides. One step is one field or header entry
read, one iteration of the decode loop, with the refill and the flush that it
may perform, or one exception. An exception in the code is an action that ends
the call with the outcome `main` would report; it drops `out_buf` and leaves the
output file as it is. The k-th byte of the UTF-8 form of the codepoint `c` is
the pair `<<c, k>>`: only how many bytes there are, and whose, matters for
buffering. `CodepointsOf` reads codepoints back from such bytes by their first
ones.

The ranges of fields and of `uint64_t` are powers of two, written `Pow2[n]` of
module `Powers`, a function defined by recursion, because the provers know
nothing of `^`.

What may go wrong with the files is chosen in the initial state (`input`): the
compressed file itself, whether each file opens, and how many bytes the disk
holds. Besides the compressor's files these are cut, lengthened and damaged ones
and files that have nothing to do with the program. `input` also remembers what
was compressed, for the properties: `Intact` says that the file is right as far
as it goes, and `DecompressSpec` promises the text only then. For any other file
it still promises that the output only grows and that the call stops writing
when it returns or throws. What a full disk loses is lost without a word, so
`DecodesText` and `BitsAccounted`, which read the bits decoded from the output,
are about states in which there is room.

### Tool

A run is a record with the program counter `pc`, the local variables of the
calls, and `outcome`, which is the exit code or how the process was ended. One
step is one access to the file system with the computation that follows it: the
two existence checks of `validate_arguments`, each scan of the input, opening
the output (which truncates), each piece of the output stream's buffer that
reaches the file, each read of the decompressor, and the destructor of
`output_file`. `HasOutput` says during which steps the object `out` exists;
`Unwind` is a return or exception that runs its destructor, `Exit` one that has
nothing to destroy, and `std::terminate` in the `noexcept` function
`write_file_contents` loses what is pending.

A file is a sequence of tokens: a codepoint of a text, or the number of header
entries, the entries, the number of codes, and one token per code. This is
enough to tell a complete output from one that was cut off anywhere, and an
encoding with the right codes from one with others. The stream's buffer may
be flushed at any time and in any size, which covers every buffer size.

Assumed of the user, and stated as guards: no two runs with the same output
overlap and nobody edits a run's output (both dropped with `SharedOutputs`), and
only files that no run has open are removed. No path is used both for a text
and for a compressed file (`KindsAssumption`): what the decompressor makes of
arbitrary bytes is the subject of `Decompress`. `Unsearchable` are the paths for
which `fs::exists` throws.

Each of the compressor's two scans of its input sees one text, in one step. For
the first scan, `Load`, `InputFile` and `FrequencyTable` show what happens inside.
The second one, `Reload`, is the second `load_file` with the loop of
`write_file_contents`. An input below 100 MB is copied, so that loop sees one
version of it; a larger one is mapped, and the loop sees the bytes as they are
while it runs. If the user writes during it, it sees a mixture of two texts: that
is covered by the behaviour in which the user had put this mixture there just
before `Reload` and wrote the rest afterwards, because what the scan saw
(`loaded[2]`) is only compared with what the first scan saw, never with the file.
If the user cuts the file the scan may fault, which ends the process as `Kill`
does. No module takes the second scan apart octet by octet.

## Runs

| Run | Configuration | What it shows |
|---|---|---|
| `frequency_table` | `MCFrequencyTable.cfg` | unchanged files: all sequences of up to 4 octets taken from both sides of every limit of the UTF-8 ranges, and texts of up to 4 codepoints of 1 to 4 octets, complete or cut off, copied or mapped by their size. They load, also at the limit between the two; `next_codepoint` returns the codepoints whose octets lie in front of the position; the table is ascending without duplicates, its counts are the occurrences of each codepoint's octets and account for every byte; the scan fails only where the Unicode Standard's table of well-formed sequences has no continuation. Changing files: a copy is a beginning of one version of the file and as long as some version, and a table that is returned accounts for every octet even if a mapped file changed under the scan. Every call ends, with an error when the file cannot be loaded |
| `load_map_error` | `MCFrequencyTableUnloadable.cfg` | counterexample: a file of at least the limit that cannot be opened ends the call with the mapping library's exception where `file_operation_exception` is documented |
| `prefix_codes` | `MCPrefixCodes.cfg` | every table of at most 6 symbols with counts 1..5: pointers are valid, queues stay sorted, merges are greedy, codes are prefix-free throughout the traversal, complete and non-empty at the end, minimal against all code lengths that satisfy Kraft's inequality, and the call returns. A code of d bits needs an input of Fibonacci(d+2) codepoints: the header drops codes longer than 255 bits, and such a code needs more than 10^53 codepoints |
| `prefix_codes_tie` | `MCPrefixCodesTie.cfg` | counterexample: a tie is taken from `second`, not from `first` |
| `decompress` | `MCDecompress.cfg` | the compressor's file for every text of at most 4 codepoints over 0 to 3 symbols, every beginning of it, and it with a byte added, with either file failing to open: the bits read are the codes of the codepoints decoded so far plus the way to the current node, and the call implements `DecompressSpec`. The same files with any one bit flipped, complete or cut by a byte, and every file at all of up to 7 bytes: the decoder stays in its trie, every bit it reads is accounted for, success means that as many bits were read as the file announces behind the entries of its header and that the call stopped right behind the bytes that hold them, and the call ends |
| `decompress_short_payload` | `MCDecompressShortPayload.cfg` | counterexample: a number of bits at the top of its range makes the decoder decode more bits than the file has |
| `decompress_end_inside_code` | `MCDecompressEndInsideCode.cfg` | counterexample: success with an incomplete last code |
| `decompress_bad_codepoint` | `MCDecompressBadCodepoint.cfg` | counterexample: `utf8::invalid_code_point` where the doc promises `file_operation_exception` |
| `decompress_disk_full` | `MCDecompressDiskFull.cfg` | counterexample: bytes that do not fit on the disk are lost and success is reported |
| `tool` | `MCTool.cfg` | three runs in any overlap, each a compression, its decompression or a decompression onto the user's file, with edits, removals, one kill and a full disk: as long as the disk had room, success means a complete output, also for a decompression that starts while the compression is writing or after it was cut short; never is anything decoded that was not in the text; a file that exists is changed only by the run that has it open as its output, or by the user; `std::terminate` happens only when the two scans of the input saw different texts |
| `tool_ends` | `MCToolEnds.cfg` | two runs, also with usage errors, an output that cannot be created and paths that cannot be examined: every run that is started ends |
| `tool_shared_output` | `MCToolSharedOutput.cfg` | counterexample: two runs with the same output both pass the existence check, and one truncates the other's file |

The seven counterexamples are the `findings` of `PROJECT.json`, each with the
comment it contradicts.

### Bounds

* `MaxSymbols` = 6, `MaxCount` = 5: the algorithm only compares and adds counts,
  so the orders of the sums matter and not their sizes. Six symbols give chains,
  balanced trees, ties between and inside the queues, two pops from the same
  queue in one merge, both queues running empty first, and, with the counts 1,
  1, 1, 2, 3, 5, codes of the greatest possible length 5.
* `Leads`, `Trails` and `MaxCodepoints` = 4 in `MCFrequencyTable`: the scan treats
  all octets between two limits of the UTF-8 ranges alike, so both sides of each
  limit are enough; four codepoints, two of them on each side of the array's
  end at 128, give repeated entries in both containers and ties between them.
* `MaxBuffered` = 4 in place of 100 MB and `PageOctets` = 2: files of 0 to 8
  octets lie below, at and above the limit, and a file that is cut may end in
  the middle of a page, at its end, or more than a page before the end of the
  mapping. Two changes by the user: one between the size check and the opening
  and another before or during the read, or two under one scan.
* Bytes of 2 bits; 1 byte for the count, a codepoint and a code length, 2 bytes
  for the number of bits. The code uses these widths only as parameters of
  `read_be`, `write_be` and of the bit arithmetic. The small ones put the limits
  within reach: codes that fill, exceed and share bytes, and the wrap-around of
  `refill`'s sum at 15 of 15 bits instead of 2^64 - 7.
* `DecodeBufferBytes` = 2 and `OutputBufferSize` = 4: payloads of up to 8 bits
  need up to two buffers, which end inside codes as well as between them; texts
  of up to 12 bytes are flushed 0 to 3 times, at sizes on and above the limit.
* Three runs, one kill and texts of two codepoints in `MCTool`: a run that was
  killed or failed, a second compression of another text, and a decompression
  that reads what either left. The runs are symmetric; the liveness run, for
  which symmetry is unsound, has two of them and no symmetry. Edits introduce a
  codepoint without a code, and an invalid sequence.
* `MaxText` = 4, with 1 to 3 UTF-8 bytes per codepoint. `MaxForeign` = 7: a
  header of one entry with a code of up to 2 bits, the number of bits and a byte
  of payload fit into 7 bytes; longer files are covered by damaging the
  compressor's.

### Fairness

`PrefixCodes` and `Decompress` assume weak fairness of `Next` and nothing more. A
call runs on its caller's thread, takes no lock and waits for no one; reads and
writes of regular files return. The environment makes no choices after `Init`,
so fairness of `Next` is only "the processor keeps running". `FrequencyTable`
assumes weak fairness of `Call`, the steps of the two calls, for the same
reason; `Rewrite`, `RemoveFile`, `NextCodepoint` and `Reset` need never happen.

`Tool` assumes weak fairness of each run's own `Step`: the scheduler runs every
process. `Start`, `Edit`, `RemoveFile`, `DiskFull` and `Kill` need never happen,
and may happen whenever their guards hold. No run waits for another one, so a
step that is enabled stays enabled until it is taken or the run is killed.

`CHECK_DEADLOCK FALSE` is set everywhere because a call ends; that it ends is
the property `Terminates` (`TerminatesBelowLimit` in `Decompress`, `EveryRunEnds`
in `Tool`) of a run of the same module.

## Proofs

`PrefixCodesProofs` proves, for every set of tables that satisfies
`ConstantsAssumption` (codepoints are naturals; a table is ascending with
pairwise different codepoints, which is what `build_frequency_table` returns):

* `TypeCorrect`: `Spec => []TypeOK`. The invariant is `TypeInv`: `TypeOK` alone
  is not inductive, because a pop from two empty queues would return no node.
  `QueuesNotEmpty` says that from the first merge on at least one node is
  queued, and `StartsEmpty` that nothing is allocated before.
* `QueuesAscendingCorrect` and `MergesTwoSmallestCorrect`. That the front of
  each queue is its minimum makes a merge greedy, but that the appended parent
  is not smaller than the rest of `second` needs history: `OrderInv` adds that
  no queued node is smaller than a child of any parent in `second`, that is,
  than the last pair merged. The lemmas `PopSmallestType`, `PopSmallestLeast`
  and `PopSmallestBelow` say what one pop returns and leaves; `MergePops`
  combines two of them.
* `PrefixFreeCorrect`. `PathsInv` extends prefix-freedom from the codes found to
  the paths still on the stack: all of them together are pairwise no prefix of
  each other ("apart"), so a leaf's path may become a code and an inner node's
  path may be replaced by two extensions (lemmas `ApartExtend`, `SiblingsApart`).
  It holds for any tree, so it needs nothing of the order of the queues.
* `LongCodesNeedLongInputsCorrect`: a code of length d needs `Fibonacci[d + 2]`
  codepoints, whichever way ties go, so a code that `write_header` would drop needs
  more than 10^53. `GrowthInv` says of every parent that either child is at least as
  large as the children of the other one: those were merged while it was still
  queued, and nothing in the queues is smaller than a child of any parent. `SumInv`
  says that both queues together hold the counts of the whole table, so this is the
  count of the root. `DepthInv` carries it down the traversal: a node k steps below
  the root that has a child c satisfies
  `Fibonacci[k + 1] * count(node) + Fibonacci[k] * count(c) <= TotalCount(table)`,
  which passes to its children (`AffordsChild`).
* `ImplementsPrefixCodeSpecCorrect`: the call returns a prefix code for exactly the
  codepoints of the table, in one abstract step. What `PrefixFreeCorrect` does not
  say is that no leaf is lost on the way. `TreeInv` says it in three parts:
  `LeavesInv` (the first nodes are the table's leaves, all others have children),
  `QueuesInv` (while nodes are merged every node is under a queued one) and
  `TraversalInv` (afterwards every leaf has its code or is under a node on the
  stack). "Under" would be recursive; instead the nodes under those of X are the
  ones in every set that contains X and, with a node, its children.

`PrefixCodesOptimal` proves, under the same assumption, that the codes are minimal.
It represents codes by their lengths alone, a function on the symbols, and says
that they fit if a full tree of some depth has room for them (Kraft's inequality).

* `OptimalCorrect`: no lengths that fit take fewer bits than the codes returned.
  The proof follows the program forwards, so that it needs no induction over
  trees. `GreedyStep` is Huffman's exchange argument: whatever lengths fit the
  queued nodes before a merge, there are lengths that fit the queued nodes after
  it and save one bit for each occurrence of the two that were merged. It
  exchanges these with the deepest leaves (`Exchange`) and uses the room that is
  left beside a lone deepest leaf (`RoomLeft`).

  `MergeCostInv` adds up these steps: the bits that any lengths for the table take
  are at least those spent below the queued nodes and those that some lengths
  for the queued nodes take. It needs that a merge takes the two rarest from the
  set of the queued nodes, which is `MergesTwoSmallestCorrect` with `DistinctInv`:
  no node is queued twice. When only the root is left, what is spent below it
  is a lower bound.

  `TraversalCostInv` says that the traversal spends no more: every path on the
  stack is charged with the node's count times the depth and with what is spent
  below the node, every code found with its bits, and all charges together stay
  within the bound. Charged with the room they take, the same paths and codes
  stay within a full tree, so the codes found have lengths that fit.
  `PathLengthInv` bounds them by the number of symbols, the range that
  `MinimalBits` searches. Nothing depends on which of two equal counts is popped,
  so the tie that `prefix_codes_tie` reports costs no bits.
* `NoPrefixCodeCheaperCorrect` says it of prefix codes instead of lengths: no prefix
  code for the codepoints of the table, however long its codes are, takes fewer
  bits. Between the two is `KraftInequality`, that the lengths of every prefix code
  fit: the codes that begin with 0, and those that begin with 1, form a prefix
  code when this bit is dropped, and each of the two has room in half of the tree.

`FrequencyTableProofs` proves, for every set of files, every limit between
copying and mapping, every page size and every sequence of rewrites and
removals between the steps (`FilesAssumption`: files are sequences of octets,
and `MaxBuffered` is positive because a file of no octets cannot be mapped;
`AsciiAssumption`: the array is for ASCII codepoints only; `ScalarsAssumption`:
every Unicode scalar value is one of `Codepoints`):

* `TypeCorrect`: `Spec => []TypeOK`. It includes that neither the scan nor
  `next_codepoint` passes the end of the input. That needs `ObjectInv`, that the
  size an object has is the length of its buffer and that nothing is scanned
  before there is an object, and about the conversion only that `Decodes` holds
  where enough octets are left for the length the lead octet announces.
* `CopyOfVersionCorrect`: a copy in memory is a beginning of what the file
  contained at one moment, and not longer than the limit, however often the file
  changed during the load. `VersionsInv` relates `versions` to the file and says
  that the size that was told is that of one of them; the test for a short read
  then keeps the zeros that `resize` left out of the copy.
* `UnchangedFileLoadsCorrect`: a load fails only if the path does not name a
  regular file that can be read, or the user changed it. `QuietInv` is the strengthening: at every step of a load that the
  user does not disturb, what the previous steps found out still holds.
* `ReturnsFrequencyTableCorrect`: whatever order the hash map is traversed in and
  the sort leaves equal counts in, the table ascends and names each codepoint
  once. `UnicodeInv` says that the map has only codepoints from `AsciiCount` on,
  so the two containers share none (`EntriesType`). This is the assumption that
  `PrefixCodesProofs` makes of each table, so that the two sets of theorems fit
  together.
* `Utf8RoundTrip`: octets that `validate_next` accepts are the octets that `append`
  makes of its codepoint. It is proved length by length: the lead and the trails
  determine the codepoint's digits to the base 64, and `OctetsOf` of the codepoint
  is the length because nothing overlong passes.
* `ReadsInOrderCorrect`, from the round trip: the octets that the iterator passes
  are those of the codepoint returned (`OctetsPassed`), and the octets of a text grow
  by those of its last codepoint (`TextAppend`). `ReadInv` adds that nothing has been
  read before there is an object.
* `FailsOnlyOnInvalidCorrect`, from the converse: what matches a line of the Unicode
  Standard's table 3-7 is accepted (`WellFormedStarts`). The table excludes overlong
  forms, surrogates and too large numbers by ranges of the second octet,
  `validate_next` by the value it has computed; the lemmas `WellFormedOne` to
  `WellFormedFour` show that these are the same.
* `CountsCompleteCorrect`, also for a mapped file that changes under the scan.
  `CompleteInv` says it of every moment: the sum over all keys of both containers,
  count times octets, is what the scan has passed. A step adds to one summand what it
  adds to `curr` (`CountStep`, `OctetsPassed`), and the returned table is an
  arrangement of the keys that were seen (`ReturnedOctets`).
* `CountsExactCorrect`. `ExactInv`: a codepoint has been counted as often as its octets
  occur in the part that the scan has passed. That needs UTF-8 to be
  self-synchronising (`NoOverlap`): an occurrence that touches the codepoint just
  scanned is that codepoint, because no trail octet can be a first one and the
  first one tells the length (`Utf8AppendShape`, which also has the other
  direction of the round trip: what `append` makes is decoded to the same codepoint).

`SequenceLemmas` and `CompressedFormatProofs` make the operators usable in proofs.
The library's induction theorems take a predicate, which the provers here cannot
instantiate; `SetInduction` takes a set instead (from the least number outside
of it), and that is enough for recursive functions and folds once the set of
indices is named: what `FlattenSeq` returns and how it grows, that `FoldLeft` visits
the elements in order, that `Pow2` grows and splits, and what a sum over a finite
set is (`Total`): that it exists, ignores zeros, survives a renaming and grows with
one summand, and that `MapThenSumSet` and `SumFunction` compute it (`SumChosen`,
`SumFunctionTotal`). `SubsetInduction` does for finite sets what `SetInduction`
does for numbers. On these rest the round
trips of the format, for every width of bytes and fields: `ReadBe` returns what
`WriteBe` wrote of a number below the field's range, `UnpackBits` the bits that
`PackBits` packed, and the header's entries follow in the order of their keys.

`DecompressProofs` assumes `WidthsAssumption`, `BuffersAssumption` (the sizes are
positive, a codepoint has one to four bytes) and `InputsAssumption` (files are
sequences of bytes, the disk has a size) and nothing of what the files contain:

* `TypeOKCorrect` and `SuccessReadsAllCorrect`. `IInv` adds to the types that
  nothing is decoded before the payload (`HeaderInv`), that the trie is the one of
  the header and the node in it is no leaf (`TrieInv`), where the position is
  (`HeaderReadInv`), and `PayloadInv`: the bits read are those of all full buffers
  since the payload started and those up to the cursor of the current one, and
  no buffer reaches behind the bytes that hold the announced bits. So no bit is
  skipped or read twice at a refill, of any file. Where entries end and the
  payload starts is `HeaderEnd`, a parse of the file on its own, without the state
  of the call; `HeaderEndProperties` takes it entry by entry as `ReadEntry` goes. A
  refill asks for no more than the bytes of the remaining bits
  (`BytesToReadBound`, also when its sum wraps around), and when the last bit has
  been read the buffers hold no less, so `pos` is exactly behind them.
* `BitsAccountedCorrect`: the bits read are those of the codes of the decoded
  codepoints and the way to the node, also when the header is nonsense. It is
  inductive relative to `IInv`. It needs that a leaf's path is the code of the
  codepoint it stands for (`TrieProperties`), that one more codepoint in the output
  adds the bits of its code, and that below the wrap-around a refill always
  brings a bit, so that every iteration reads exactly one (`TakeBitAdvances`).

`DecompressRefinement` is about files of the compressor that are complete, cut
short or longer. Its hypothesis `AllTextsFit` says that each input is about a text
within the limits of the format: no code is empty, longer than its length field
or the beginning of another, the map fits its count field, and the bits stay
below the wrap-around of `refill`'s sum, which the run `decompress_short_payload`
shows to be needed. `PrefixCodes` returns such maps within those limits. TLC
evaluates it for all inputs of `MCDecompress`, as the assumption `TextsFit`.

* `DecodesTextCorrect`, also for a disk that fills up. `RInv` adds to `IInv` what
  the call has in common with the file: in the header `HeaderMatches` (the position
  is behind the k-th entry and the map consists of the first k codes), in the
  payload `BufferMatches` (the rest of the buffer are the next bits of the text's
  code), and `TextInv`: for some k the bytes of the first k codepoints have been
  written or wait in `out_buf`, and the way to the node are the bits read behind
  their codes. A leaf is reached exactly at the end of the (k+1)-st code because
  no code begins another.
* `ImplementsDecompressSpecCorrect`: an intact file fails only if it is cut
  short or a file does not open, success means the whole text, and for any
  file the output only grows and the call ends once. It has a second
  hypothesis, that the text has room on the disk (`HasRoom`), without which it is
  false: that is the counterexample of `decompress_disk_full`.

`ToolProofs` proves seven theorems for any number of runs, any command lines that
satisfy `KindsAssumption`, any texts (`TextsAssumption`: sequences of the
characters, among them what the user has), kills, edits, removals and a disk
that fills up at any moment. They all have the hypothesis `~ SharedOutputs`, that
runs with the same output do not overlap; `tool_shared_output` is the
counterexample without it. `ToolInv` consists of types, of `OutputsApart`, and for
each run of `KindsOf` (which paths it has), `OutputOf` (while it has its output, that
exists), `PhaseOf` and `LoadedOf` (what its program counter says of its variables),
`StreamOf` and `ReaderOf`. `StreamOf` relates the output file and the stream's buffer to
what the run has sent: they are equal, or a beginning of it once something
failed. `ReaderOf` relates a decompression's position to the file it reads while
another run may still be writing it. `CompressedInv` is what makes that work: every
compressed file is at all times a beginning of what some compression writes.

* `TypeOKCorrect`; `TerminatedOnlyByEditCorrect`; `NothingInventedCorrect`.
* `OnlyOwnOutputsChangeCorrect`: a file changes only in a step of the run that has
  it open as its output (`StepWritesOutput`, action by action), or by an edit.
* `CompressionCompleteCorrect` and `DecompressionCompleteCorrect`: what success
  means, from `StreamOf` before the last step and `CompressedInv`: a decompressor that
  has found as many codes as the file announces has read the whole of what one
  compression writes, even from a file that was cut short in the buffer behind
  it.
* `RoundTripCorrect`, the point of the program: a successful decompression has
  written what one compression into its input encoded, and if both scans of that
  same compression saw one text, it is this text (`KnownPartOfItself`).

Only model-checked: liveness, that is `Terminates` of `PrefixCodes` and of
`FrequencyTable`, `TerminatesBelowLimit` and `EveryRunEnds`, because fairness and
ENABLED are beyond TLAPS's backends here.

## Not modelled

* Progress callbacks, messages on the console, `print_frequency_table`.
* The vendored iterators, the UTF-16 and validating functions, and the
  `unchecked`/`cpp11`/`cpp17`/`cpp20` headers, which the program does not use.
* Memory exhaustion, and I/O errors of a disk that was readable before.
* A file that is replaced by another one of the same name while it is loaded,
  and a write that is seen in part by a single call of `utf8::next`.
* The steps inside the second scan of a mapped input (see Tool).

## Plan

In this order; all are in place.

1. `PrefixCodes` with `PrefixCodeSpec`: the algorithm that everything depends
   on. Proofs of its type, order and prefix invariants.
2. `CompressedFormat`, `Decompress` with `DecompressSpec`: the state machine
   with the most boundaries.
3. Counterexamples for the comments that the code does not keep to.
4. `Tool`: the calls of the program as processes over one file system.
5. `Utf8` and `FrequencyTable`: the scan, its failures and the tables it can
   return, which are what `PrefixCodes` assumes.
6. `InputFile`, and `FrequencyTable` on top of it: the two representations,
   sizes that are out of date, and a mapped file that changes while it is
   scanned.
7. Proofs about `InputFile` and `FrequencyTable`: the types, what a copy in
   memory contains, when a load fails, and the table that is returned.
8. More proofs about the parts in place: `PrefixCodes` implements
   `PrefixCodeSpec`, `Decompress` accounts for every bit of any file and implements
   `DecompressSpec` for the compressor's.
9. Proofs about `Tool`, up to `DecompressionComplete` and the round trip.
10. Proofs of the round trip of the UTF-8 conversions, and from it of
    `ReadsInOrder` and `FailsOnlyOnInvalid`.
11. Proofs of `CountsComplete` and `CountsExact`.
12. A proof of `LongCodesNeedLongInputs`, from the order in which `PrefixCodes`
    merges.
13. A proof of `Optimal`: the exchange argument, with Kraft's inequality over a
    function defined by recursion in place of `^`.
