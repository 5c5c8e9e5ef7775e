------------------------------ MODULE ToolProofs ------------------------------
(***************************************************************************)
(* Machine-checked proofs about Tool, for every number of runs, every set  *)
(* of command lines and every file system, with disks that fill up, edits, *)
(* removals and kills.                                                     *)
(***************************************************************************)
EXTENDS Tool, SequenceLemmas, FiniteSetTheorems

-----------------------------------------------------------------------------
(* What files consist of.                                                  *)

Symbols == {S \in SUBSET Characters : IsFiniteSet(S)}

TextToken == [char : Characters]

CompressedToken ==
  [count : Nat] \union [entries : Symbols] \union [total : Nat]
    \union [code : Characters]

Token == TextToken \union CompressedToken

\* The codepoints of a text are finitely many.
LEMMA CodedProperties ==
  ASSUME NEW text \in Seq(Characters)
  PROVE  Coded(text) \in Symbols
<1>1. Len(text) \in Nat /\ text \in [1 .. Len(text) -> Characters]
      /\ DOMAIN text = 1 .. Len(text)
  BY LenProperties
<1>2. IsFiniteSet(1 .. Len(text))
  BY <1>1, FS_Interval
<1>3. text \in Surjection(1 .. Len(text), Coded(text))
  BY <1>1 DEF Surjection, Coded, ToSet
<1>4. IsFiniteSet(Coded(text))
  BY <1>2, <1>3, FS_Surjection
<1>5. Coded(text) \subseteq Characters
  BY <1>1 DEF Coded, ToSet
<1> QED  BY <1>4, <1>5 DEF Symbols

\* A header names its symbols.
LEMMA HeaderProperties ==
  ASSUME NEW S \in Symbols
  PROVE  /\ Header(S) \in Seq(CompressedToken)
         /\ Len(Header(S)) = IF S = {} THEN 1 ELSE 2
         /\ Header(S)[1].count = Cardinality(S)
         /\ Cardinality(S) = 0 <=> S = {}
         /\ S # {} => Header(S)[2].entries = S
<1>1. Cardinality(S) \in Nat /\ (Cardinality(S) = 0 <=> S = {})
  BY FS_CardinalityType, FS_EmptySet DEF Symbols
<1>2. [count |-> Cardinality(S)] \in CompressedToken
      /\ [entries |-> S] \in CompressedToken /\ [count |-> 0] \in CompressedToken
  BY <1>1 DEF CompressedToken
<1>3. [count |-> 0].count = 0 /\ [count |-> Cardinality(S)].count = Cardinality(S)
      /\ [entries |-> S].entries = S
  OBVIOUS
<1>4. CASE S = {}
  <2>1. Header(S) = <<[count |-> 0]>>
    BY <1>4 DEF Header
  <2> QED  BY <1>1, <1>2, <1>3, <1>4, <2>1
<1>5. CASE S # {}
  <2>1. Header(S) = <<[count |-> Cardinality(S)], [entries |-> S]>>
    BY <1>5 DEF Header
  <2> QED  BY <1>1, <1>2, <1>3, <1>5, <2>1
<1> QED  BY <1>4, <1>5

\* A file that begins with two headers begins with one.
LEMMA HeaderInjective ==
  ASSUME NEW S \in Symbols, NEW T \in Symbols, NEW f \in Seq(CompressedToken),
         IsPrefix(Header(S), f), IsPrefix(Header(T), f)
  PROVE  S = T
<1>1. /\ Header(S) \in Seq(CompressedToken) /\ Header(T) \in Seq(CompressedToken)
      /\ Len(Header(S)) = (IF S = {} THEN 1 ELSE 2)
      /\ Len(Header(T)) = (IF T = {} THEN 1 ELSE 2)
  BY HeaderProperties
<1>2. /\ \A i \in 1 .. Len(Header(S)) : Header(S)[i] = f[i]
      /\ \A i \in 1 .. Len(Header(T)) : Header(T)[i] = f[i]
  BY <1>1, IsPrefixElements
<1>3. Header(S)[1] = f[1] /\ Header(T)[1] = f[1]
  BY <1>1, <1>2
<1>4. Cardinality(S) = Cardinality(T)
  BY <1>3, HeaderProperties
<1>5. S = {} <=> T = {}
  BY <1>4, HeaderProperties
<1>6. CASE S # {} /\ T # {}
  <2>1. Header(S)[2] = f[2] /\ Header(T)[2] = f[2]
    BY <1>1, <1>2, <1>6
  <2> QED  BY <1>6, <2>1, HeaderProperties
<1> QED  BY <1>5, <1>6

\* What is encoded of a text.
LEMMA KnownPartType ==
  ASSUME NEW text \in Seq(Characters), NEW S
  PROVE  KnownPart(text, S) \in Seq(Characters)
<1> DEFINE part(i) == IF text[i] \in S THEN <<text[i]>> ELSE <<>>
           parts == [i \in DOMAIN text |-> part(i)]
<1>1. Len(text) \in Nat /\ DOMAIN text = 1 .. Len(text)
      /\ \A i \in 1 .. Len(text) : text[i] \in Characters
  BY LenProperties, ElementOfSeq
<1>2. \A i \in 1 .. Len(text) : part(i) \in Seq(Characters)
  BY <1>1
<1>3. parts \in Seq(Seq(Characters))
  BY <1>1, <1>2
<1>4. FlattenSeq(parts) \in Seq(Characters)
  BY <1>3, FlattenSeqType
<1> QED  BY <1>4 DEF KnownPart

\* The contents are their number and then the codes, one by one.
LEMMA ContentsProperties ==
  ASSUME NEW text \in Seq(Characters), NEW S
  PROVE  /\ Contents(text, S) \in Seq(CompressedToken)
         /\ Len(Contents(text, S)) = Len(KnownPart(text, S)) + 1
         /\ Contents(text, S)[1].total = Len(KnownPart(text, S))
         /\ \A i \in 1 .. Len(KnownPart(text, S)) :
              Contents(text, S)[i + 1].code = KnownPart(text, S)[i]
<1> DEFINE known == KnownPart(text, S)
           codes == [i \in DOMAIN known |-> [code |-> known[i]]]
           total == [total |-> Len(known)]
<1>1. /\ known \in Seq(Characters) /\ Len(known) \in Nat
      /\ DOMAIN known = 1 .. Len(known)
      /\ \A i \in 1 .. Len(known) : known[i] \in Characters
  BY KnownPartType, LenProperties, ElementOfSeq
<1>2. Contents(text, S) = <<total>> \o codes
  BY DEF Contents
<1> HIDE DEF known
<1>3. /\ \A i \in 1 .. Len(known) : [code |-> known[i]] \in CompressedToken
      /\ total \in CompressedToken /\ total.total = Len(known)
  BY <1>1 DEF CompressedToken
<1>4. /\ codes \in Seq(CompressedToken) /\ Len(codes) = Len(known)
      /\ \A i \in 1 .. Len(known) : codes[i] = [code |-> known[i]]
  BY <1>1, <1>3
<1> HIDE DEF codes, total
<1>5. /\ <<total>> \o codes \in Seq(CompressedToken)
      /\ Len(<<total>> \o codes) = Len(codes) + 1
      /\ (<<total>> \o codes)[1] = total
      /\ \A i \in 2 .. (Len(codes) + 1) : (<<total>> \o codes)[i] = codes[i - 1]
  BY <1>3, <1>4, ConsProperties
<1>6. \A i \in 1 .. Len(known) : (<<total>> \o codes)[i + 1].code = known[i]
  <2> SUFFICES ASSUME NEW i \in 1 .. Len(known)
               PROVE  (<<total>> \o codes)[i + 1].code = known[i]
    OBVIOUS
  <2>1. i + 1 \in 2 .. (Len(codes) + 1) /\ (i + 1) - 1 = i
    BY <1>1, <1>4
  <2>2. (<<total>> \o codes)[i + 1] = [code |-> known[i]]
    BY <1>4, <1>5, <2>1
  <2>3. [code |-> known[i]].code = known[i]
    OBVIOUS
  <2> QED  BY <2>2, <2>3
<1> QED  BY <1>2, <1>3, <1>4, <1>5, <1>6 DEF known

\* Writing behind the last token is appending.
LEMMA OverlayAtEnd ==
  ASSUME NEW S, NEW content \in Seq(S), NEW data \in Seq(S)
  PROVE  Overlay(content, Len(content), data) = content \o data
<1> DEFINE n == Len(content)
           m == n + Len(data)
<1>1. n \in Nat /\ Len(data) \in Nat /\ m \in Nat /\ n <= m
      /\ DOMAIN content = 1 .. n
  BY LenProperties
<1>2. Max({n, m}) = m
  BY <1>1 DEF Max
<1>3. /\ content \o data \in Seq(S) /\ Len(content \o data) = m
      /\ content \o data \in [1 .. m -> S]
      /\ \A i \in 1 .. m :
           (content \o data)[i] = IF i <= n THEN content[i] ELSE data[i - n]
  BY <1>1, ConcatProperties, LenProperties
<1>4. Overlay(content, n, data) =
        [i \in 1 .. m |-> IF i \in n + 1 .. m THEN data[i - n]
                          ELSE IF i \in 1 .. n THEN content[i] ELSE [gap |-> TRUE]]
  BY <1>1, <1>2 DEF Overlay
<1> HIDE DEF n, m
<1>5. \A i \in 1 .. m : Overlay(content, n, data)[i] = (content \o data)[i]
  BY <1>1, <1>3, <1>4
<1>6. content \o data = [i \in 1 .. m |-> (content \o data)[i]]
  BY <1>3
<1> QED  BY <1>4, <1>5, <1>6 DEF n

-----------------------------------------------------------------------------
(* The inductive invariant.                                                *)

Outcomes ==
  {"none", "success", "argument_error", "file_operation_error", "unknown_error",
   "terminated", "killed"}

RunState ==
  [pc : {"idle", "check_input", "check_output", "load", "header", "reload",
         "contents", "open", "read_header", "create", "total", "decode",
         "close", "done"},
   operation : {"compress", "decompress"},
   input : TextPaths \union CompressedPaths \union {""},
   output : TextPaths \union CompressedPaths \union {""},
   loaded : Seq(Seq(Characters)),
   symbols : Symbols,
   position : Nat,
   remaining : Nat,
   pending : Seq(Token),
   written : Nat,
   bad : BOOLEAN,
   outcome : Outcomes]

\* What the output of a run consists of.
Tokens(r) == IF run[r].operation = "compress" THEN CompressedToken ELSE TextToken

\* Texts are where texts belong and compressed files where they belong.
FilesTyped ==
  /\ files = [path \in DOMAIN files |-> files[path]]
  /\ \A path \in DOMAIN files :
       \/ path \in TextPaths /\ files[path] \in Seq(TextToken)
       \/ path \in CompressedPaths /\ files[path] \in Seq(CompressedToken)

KindsOf(r) ==
  Running(r) =>
    /\ run[r].pending \in Seq(Tokens(r))
    /\ IF run[r].operation = "compress"
         THEN run[r].input \in TextPaths /\ run[r].output \in CompressedPaths
         ELSE run[r].input \in CompressedPaths /\ run[r].output \in TextPaths

\* The output of a run does not exist until the run creates it, and then until
\* the run ends.
OutputOf(r) ==
  /\ HasOutput(r) => Exists(run[r].output)
  /\ run[r].pc \in {"load", "create", "open", "read_header"} =>
       ~ Exists(run[r].output)

\* No two runs under way have the same output.
OutputsApart ==
  \A r, q \in Runs :
    r # q /\ Running(r) /\ Running(q) => run[r].output # run[q].output

PhaseOf(r) ==
  /\ run[r].pc \in {"load", "header", "reload", "contents"} =>
       run[r].operation = "compress"
  /\ run[r].pc \in {"open", "read_header", "total", "decode"} =>
       run[r].operation = "decompress"
  /\ run[r].pc \in {"idle", "check_input", "check_output", "load", "open",
                    "read_header"} =>
       run[r].position = 0 /\ run[r].loaded = <<>>
  /\ run[r].pc = "close" => run[r].outcome \in {"success", "file_operation_error"}
  /\ run[r].pc \notin {"close", "done"} => run[r].outcome = "none"
  /\ ~ HasOutput(r) =>
       run[r].pending = <<>> /\ run[r].written = 0 /\ run[r].bad = FALSE

\* How many texts a compression has loaded, and that the codes are for the
\* first.
LoadedOf(r) ==
  /\ run[r].operation = "decompress" => run[r].loaded = <<>>
  /\ run[r].operation = "compress"
       /\ run[r].pc \in {"create", "header", "reload", "contents", "close"} =>
         /\ Len(run[r].loaded) =
              IF run[r].pc = "contents" \/ run[r].outcome = "success" THEN 2 ELSE 1
         /\ run[r].symbols = Coded(run[r].loaded[1])
  /\ Len(run[r].loaded) <= 2
  /\ run[r].loaded # <<>> => Valid(run[r].loaded[1])
  /\ run[r].outcome = "terminated" =>
       Len(run[r].loaded) = 2 /\ ~ Valid(run[r].loaded[2])

\* All that a compression with these texts writes.
FullFile(loaded) ==
  IF Len(loaded) = 2
    THEN Header(Coded(loaded[1])) \o Contents(loaded[2], Coded(loaded[1]))
    ELSE Header(Coded(loaded[1]))

\* What a decompression has decoded of content when it is at position and the
\* header was `header` tokens long.
DecodedUpTo(content, header, position) ==
  [i \in 1 .. (position - header - 1) |-> [char |-> content[header + 1 + i].code]]

HeaderLength(r) == Len(Header(run[r].symbols))

\* What a run has put into its output stream, if nothing was dropped.
Sent(r) ==
  IF run[r].operation = "compress"
    THEN IF run[r].pc = "header" THEN <<>>
         ELSE IF run[r].outcome = "success" THEN FullFile(run[r].loaded)
         ELSE Header(run[r].symbols)
    ELSE DecodedUpTo(files[run[r].input], HeaderLength(r), run[r].position)

Out(r) == files[run[r].output]

\* The file and the buffer are what was put into the stream, or after a failure
\* a beginning of it.
StreamOf(r) ==
  HasOutput(r) =>
    /\ run[r].written = Len(Out(r))
    /\ run[r].bad = TRUE => run[r].pending = <<>>
    /\ IsPrefix(Out(r) \o run[r].pending, Sent(r))
    /\ run[r].bad = FALSE /\ run[r].outcome # "file_operation_error" =>
         Out(r) \o run[r].pending = Sent(r)

\* The run has its input open as a stream.
Reads(r) ==
  /\ run[r].operation = "decompress"
  /\ run[r].pc \in {"read_header", "create", "total", "decode", "close"}

\* Where a decompression is in its input, and how many codes are left.
ReaderOf(r) ==
  Reads(r) =>
    /\ Exists(run[r].input)
    /\ run[r].pc # "read_header" =>
         /\ IsPrefix(Header(run[r].symbols), files[run[r].input])
         /\ HeaderLength(r) <= run[r].position
         /\ run[r].position <= Len(files[run[r].input])
    /\ run[r].pc \in {"create", "total"} => run[r].position = HeaderLength(r)
    /\ run[r].pc = "decode" =>
         /\ HeaderLength(r) < run[r].position
         /\ files[run[r].input][HeaderLength(r) + 1].total =
              run[r].remaining + (run[r].position - HeaderLength(r) - 1)
    /\ run[r].pc = "close" /\ run[r].outcome = "success" =>
         /\ HeaderLength(r) < run[r].position
         /\ files[run[r].input][HeaderLength(r) + 1].total =
              run[r].position - HeaderLength(r) - 1

RunInv(r) ==
  KindsOf(r) /\ OutputOf(r) /\ PhaseOf(r) /\ LoadedOf(r) /\ StreamOf(r) /\ ReaderOf(r)

\* A compressed file is a beginning of what some compression writes.
HasWritten(q, path) ==
  /\ run[q].operation = "compress" /\ run[q].output = path
  /\ run[q].loaded # <<>>
  /\ IsPrefix(files[path], FullFile(run[q].loaded))

CompressedInv ==
  \A path \in DOMAIN files \intersect CompressedPaths :
    \E q \in Runs : HasWritten(q, path)

ToolInv ==
  /\ run \in [Runs -> RunState]
  /\ FilesTyped
  /\ OutputsApart
  /\ \A r \in Runs : RunInv(r)
  /\ CompressedInv

-----------------------------------------------------------------------------
(* What a step of one run leaves of the invariant of the others.           *)

\* A path says of what kind its file is.
LEMMA FileProperties ==
  ASSUME FilesTyped, NEW path \in DOMAIN files
  PROVE  /\ path \in TextPaths => files[path] \in Seq(TextToken)
         /\ path \in CompressedPaths => files[path] \in Seq(CompressedToken)
         /\ path \in TextPaths \union CompressedPaths
BY KindsAssumption DEF FilesTyped

\* What lies behind a reader does not change what it has read.
LEMMA DecodedStable ==
  ASSUME NEW S, NEW f \in Seq(S), NEW g \in Seq(S), IsPrefix(f, g),
         NEW h \in Nat, NEW position \in Nat, position <= Len(f)
  PROVE  DecodedUpTo(g, h, position) = DecodedUpTo(f, h, position)
<1>1. Len(f) \in Nat /\ \A i \in 1 .. Len(f) : f[i] = g[i]
  BY IsPrefixElements, LenProperties
<1>2. \A i \in 1 .. (position - h - 1) : f[h + 1 + i] = g[h + 1 + i]
  <2> SUFFICES ASSUME NEW i \in 1 .. (position - h - 1)
               PROVE  f[h + 1 + i] = g[h + 1 + i]
    OBVIOUS
  <2>1. h + 1 + i \in 1 .. Len(f)
    BY <1>1
  <2> QED  BY <1>1, <2>1
<1> QED  BY <1>2 DEF DecodedUpTo

\* A header is never empty.
LEMMA HeaderLengthType ==
  ASSUME run \in [Runs -> RunState], NEW r \in Runs
  PROVE  /\ HeaderLength(r) \in Nat \ {0}
         /\ Header(run[r].symbols) \in Seq(CompressedToken)
         /\ run[r].symbols \in Symbols
<1>1. run[r].symbols \in Symbols
  BY DEF RunState
<1> QED  BY <1>1, HeaderProperties DEF HeaderLength

\* The files that a run uses stay as they are, but its input may grow.
KeepsFiles(s) ==
  /\ HasOutput(s) =>
       /\ run[s].output \in DOMAIN files'
       /\ files'[run[s].output] = files[run[s].output]
  /\ run[s].pc \in {"load", "create", "open", "read_header"} =>
       run[s].output \notin DOMAIN files'
  /\ Reads(s) =>
       /\ run[s].input \in DOMAIN files'
       /\ IsPrefix(files[run[s].input], files'[run[s].input])

\* A file that grows at its end leaves its readers where they are.
LEMMA ReaderFrame ==
  ASSUME run \in [Runs -> RunState], FilesTyped, FilesTyped',
         NEW s \in Runs, RunInv(s), run'[s] = run[s], KeepsFiles(s), Reads(s)
  PROVE  /\ ReaderOf(s)'
         /\ run[s].pc # "read_header" =>
              DecodedUpTo(files'[run[s].input], HeaderLength(s), run[s].position)
                = DecodedUpTo(files[run[s].input], HeaderLength(s), run[s].position)
<1> DEFINE f == files[run[s].input]
           g == files'[run[s].input]
<1>1. /\ run[s].input \in CompressedPaths /\ run[s].input \in DOMAIN files
      /\ run[s].input \in DOMAIN files' /\ IsPrefix(f, g)
  BY DEF RunInv, KindsOf, ReaderOf, Reads, Running, KeepsFiles, Exists
<1>2. f \in Seq(CompressedToken) /\ Len(f) \in Nat
  BY <1>1, FileProperties, LenProperties
<1>3. g \in Seq(CompressedToken) /\ Len(g) \in Nat
  BY <1>1, KindsAssumption, LenProperties DEF FilesTyped
<1>4. Len(f) <= Len(g) /\ \A i \in 1 .. Len(f) : f[i] = g[i]
  BY <1>1, <1>2, <1>3, IsPrefixElements
<1>5. /\ HeaderLength(s) \in Nat \ {0} /\ run[s].position \in Nat
      /\ Header(run[s].symbols) \in Seq(CompressedToken)
      /\ run[s].remaining \in Nat
  BY HeaderLengthType DEF RunState
<1>6. /\ run[s].pc # "read_header" =>
           /\ IsPrefix(Header(run[s].symbols), f)
           /\ HeaderLength(s) <= run[s].position
           /\ run[s].position <= Len(f)
      /\ run[s].pc \in {"create", "total"} => run[s].position = HeaderLength(s)
      /\ run[s].pc = "decode" =>
           /\ HeaderLength(s) < run[s].position
           /\ f[HeaderLength(s) + 1].total =
                run[s].remaining + (run[s].position - HeaderLength(s) - 1)
      /\ run[s].pc = "close" /\ run[s].outcome = "success" =>
           /\ HeaderLength(s) < run[s].position
           /\ f[HeaderLength(s) + 1].total =
                run[s].position - HeaderLength(s) - 1
  BY DEF RunInv, ReaderOf
<1> HIDE DEF f, g
<1>7. run[s].pc # "read_header" =>
        IsPrefix(Header(run[s].symbols), g) /\ run[s].position <= Len(g)
  <2>1. ASSUME IsPrefix(Header(run[s].symbols), f)
        PROVE  IsPrefix(Header(run[s].symbols), g)
    BY <1>1, <1>2, <1>3, <1>5, <2>1, IsPrefixTransitive
  <2> QED  BY <1>2, <1>3, <1>4, <1>5, <1>6, <2>1
<1>8. run[s].pc # "read_header" /\ HeaderLength(s) < run[s].position =>
        f[HeaderLength(s) + 1] = g[HeaderLength(s) + 1]
  <2> SUFFICES ASSUME run[s].pc # "read_header", HeaderLength(s) < run[s].position
               PROVE  f[HeaderLength(s) + 1] = g[HeaderLength(s) + 1]
    OBVIOUS
  <2>1. HeaderLength(s) + 1 \in 1 .. Len(f)
    BY <1>2, <1>5, <1>6
  <2> QED  BY <1>4, <2>1
<1>9. HeaderLength(s)' = HeaderLength(s)
  BY DEF HeaderLength
<1>10. ReaderOf(s)'
  <2>1. /\ g = files'[run'[s].input] /\ run'[s].input \in DOMAIN files'
    BY <1>1 DEF g
  <2> QED  BY <1>6, <1>7, <1>8, <1>9, <2>1 DEF ReaderOf, Reads, Exists
<1>11. run[s].pc # "read_header" =>
         DecodedUpTo(g, HeaderLength(s), run[s].position)
           = DecodedUpTo(f, HeaderLength(s), run[s].position)
  BY <1>1, <1>2, <1>3, <1>5, <1>6, DecodedStable
<1> QED  BY <1>10, <1>11 DEF f, g

\* A step that keeps the files of a run, and its memory, keeps its invariant.
LEMMA RunFrame ==
  ASSUME run \in [Runs -> RunState], FilesTyped, FilesTyped',
         NEW s \in Runs, RunInv(s), run'[s] = run[s], KeepsFiles(s)
  PROVE  RunInv(s)'
<1>1. KindsOf(s)'
  BY DEF RunInv, KindsOf, Running, Tokens
<1>2. OutputOf(s)'
  BY DEF RunInv, OutputOf, HasOutput, Exists, KeepsFiles
<1>3. PhaseOf(s)'
  BY DEF RunInv, PhaseOf, HasOutput
<1>4. LoadedOf(s)'
  BY DEF RunInv, LoadedOf
<1>5. ReaderOf(s)'
  <2>1. CASE Reads(s)
    BY <2>1, ReaderFrame
  <2>2. CASE ~ Reads(s)
    BY <2>2 DEF ReaderOf, Reads
  <2> QED  BY <2>1, <2>2
<1>6. HasOutput(s) => Sent(s)' = Sent(s)
  <2> SUFFICES ASSUME HasOutput(s) PROVE Sent(s)' = Sent(s)
    OBVIOUS
  <2>1. CASE run[s].operation = "compress"
    BY <2>1 DEF Sent
  <2>2. CASE run[s].operation # "compress"
    <3>1. run[s].operation = "decompress"
      BY <2>2 DEF RunState
    <3>2. Reads(s) /\ run[s].pc # "read_header"
      BY <3>1 DEF RunInv, PhaseOf, HasOutput, Reads
    <3>3. HeaderLength(s)' = HeaderLength(s)
      BY DEF HeaderLength
    <3> QED  BY <2>2, <3>2, <3>3, ReaderFrame DEF Sent
  <2> QED  BY <2>1, <2>2
<1>7. StreamOf(s)'
  <2> SUFFICES ASSUME HasOutput(s) PROVE StreamOf(s)'
    BY DEF StreamOf, HasOutput
  <2>1. Out(s)' = Out(s)
    BY DEF KeepsFiles, Out
  <2> QED  BY <1>6, <2>1 DEF RunInv, StreamOf
<1> QED  BY <1>1, <1>2, <1>3, <1>4, <1>5, <1>7 DEF RunInv

\* A file that exists is written behind its end, or one is created.
Grows(r) ==
  \E content \in Seq(Tokens(r)) :
    /\ files' = WithFile(run[r].output, content)
    /\ Exists(run[r].output) => IsPrefix(files[run[r].output], content)

\* A file that grows keeps its kind, and the other files as they are.
LEMMA GrowsProperties ==
  ASSUME FilesTyped, NEW r \in Runs, KindsOf(r), Running(r), Grows(r)
  PROVE  /\ FilesTyped'
         /\ DOMAIN files' = DOMAIN files \union {run[r].output}
         /\ \A path \in DOMAIN files : path # run[r].output => files'[path] = files[path]
         /\ \A path \in DOMAIN files : IsPrefix(files[path], files'[path])
<1>1. PICK content \in Seq(Tokens(r)) :
        /\ files' = WithFile(run[r].output, content)
        /\ Exists(run[r].output) => IsPrefix(files[run[r].output], content)
  BY DEF Grows
<1>2. /\ DOMAIN files' = DOMAIN files \union {run[r].output}
      /\ files'[run[r].output] = content
      /\ \A path \in DOMAIN files : path # run[r].output => files'[path] = files[path]
      /\ files' = [path \in DOMAIN files' |-> files'[path]]
  BY <1>1 DEF WithFile
<1>3. \/ run[r].output \in TextPaths /\ content \in Seq(TextToken)
      \/ run[r].output \in CompressedPaths /\ content \in Seq(CompressedToken)
  BY DEF KindsOf, Tokens
<1>4. FilesTyped'
  BY <1>2, <1>3 DEF FilesTyped
<1>5. ASSUME NEW path \in DOMAIN files
      PROVE  IsPrefix(files[path], files'[path])
  <2>1. CASE path = run[r].output
    BY <1>1, <1>2, <2>1 DEF Exists
  <2>2. CASE path # run[r].output
    <3>1. files[path] \in Seq(TextToken) \/ files[path] \in Seq(CompressedToken)
      BY DEF FilesTyped
    <3> QED  BY <1>2, <2>2, <3>1, IsPrefixReflexive
  <2> QED  BY <2>1, <2>2
<1> QED  BY <1>2, <1>4, <1>5

\* A step of r that writes nothing, or behind the end of its own output.
WritesOwn(r) == UNCHANGED files \/ (Running(r) /\ Grows(r))

\* What a run does to its own output keeps the files of the other runs.
LEMMA OthersKeepFiles ==
  ASSUME FilesTyped, OutputsApart, NEW r \in Runs, KindsOf(r), WritesOwn(r),
         NEW s \in Runs, s # r, RunInv(s)
  PROVE  KeepsFiles(s)
<1>1. /\ HasOutput(s) => run[s].output \in DOMAIN files
      /\ run[s].pc \in {"load", "create", "open", "read_header"} =>
           run[s].output \notin DOMAIN files
      /\ Reads(s) => run[s].input \in DOMAIN files
  BY DEF RunInv, OutputOf, ReaderOf, Exists
<1>2. CASE UNCHANGED files
  <2>1. Reads(s) => IsPrefix(files[run[s].input], files[run[s].input])
    <3> SUFFICES ASSUME Reads(s)
                 PROVE  IsPrefix(files[run[s].input], files[run[s].input])
      OBVIOUS
    <3>1. \/ files[run[s].input] \in Seq(TextToken)
          \/ files[run[s].input] \in Seq(CompressedToken)
      BY <1>1 DEF FilesTyped
    <3> QED  BY <3>1, IsPrefixReflexive
  <2> QED  BY <1>1, <1>2, <2>1 DEF KeepsFiles
<1>3. CASE Running(r) /\ Grows(r)
  <2>1. /\ DOMAIN files' = DOMAIN files \union {run[r].output}
        /\ \A path \in DOMAIN files : path # run[r].output => files'[path] = files[path]
        /\ \A path \in DOMAIN files : IsPrefix(files[path], files'[path])
    BY <1>3, GrowsProperties
  <2>2. Running(s) => run[s].output # run[r].output
    BY <1>3 DEF OutputsApart
  <2>3. HasOutput(s) \/ run[s].pc \in {"load", "create", "open", "read_header"} =>
          Running(s)
    BY DEF HasOutput, Running
  <2> QED  BY <1>1, <2>1, <2>2, <2>3 DEF KeepsFiles
<1> QED  BY <1>2, <1>3 DEF WritesOwn

\* A compression writes a compressed file that begins with the header.
LEMMA FullFileType ==
  ASSUME NEW loaded \in Seq(Seq(Characters)), loaded # <<>>
  PROVE  /\ Header(Coded(loaded[1])) \in Seq(CompressedToken)
         /\ FullFile(loaded) \in Seq(CompressedToken)
         /\ IsPrefix(Header(Coded(loaded[1])), FullFile(loaded))
<1>1. Len(loaded) \in Nat \ {0} /\ \A i \in 1 .. Len(loaded) : loaded[i] \in Seq(Characters)
  BY EmptySeq, ElementOfSeq
<1>2. Header(Coded(loaded[1])) \in Seq(CompressedToken)
  BY <1>1, CodedProperties, HeaderProperties
<1>3. CASE Len(loaded) = 2
  <2>1. Contents(loaded[2], Coded(loaded[1])) \in Seq(CompressedToken)
    BY <1>1, <1>3, ContentsProperties
  <2> QED  BY <1>2, <1>3, <2>1, ConcatProperties, IsPrefixConcat DEF FullFile
<1>4. CASE Len(loaded) # 2
  BY <1>2, <1>4, IsPrefixReflexive DEF FullFile
<1> QED  BY <1>2, <1>3, <1>4

\* A run remembers what its scans saw, and a scan adds to it only behind that.
Remembers(r) ==
  run[r].loaded # <<>> =>
    /\ run'[r].operation = run[r].operation
    /\ run'[r].output = run[r].output
    /\ run'[r].loaded # <<>>
    /\ IsPrefix(FullFile(run[r].loaded), FullFile(run'[r].loaded))

Others(r) ==
  /\ run' \in [Runs -> RunState]
  /\ \A s \in Runs \ {r} : run'[s] = run[s]

\* A step of one run keeps what is known of the compressed files.
LEMMA CompressedFrame ==
  ASSUME ToolInv, NEW r \in Runs, Others(r), WritesOwn(r), Remembers(r),
         UNCHANGED files \/ (run[r].operation = "compress" =>
                               HasWritten(r, run[r].output)'),
         Running(r) => run'[r].output = run[r].output
  PROVE  CompressedInv'
<1> SUFFICES ASSUME NEW path \in DOMAIN files', path \in CompressedPaths
             PROVE  \E q \in Runs : HasWritten(q, path)'
  BY DEF CompressedInv
<1>0. /\ run \in [Runs -> RunState] /\ FilesTyped /\ RunInv(r) /\ CompressedInv
      /\ run' \in [Runs -> RunState]
  BY DEF ToolInv, Others
<1>1. CASE path \in DOMAIN files /\ files'[path] = files[path]
  <2>1. PICK q \in Runs : HasWritten(q, path)
    BY <1>0, <1>1 DEF CompressedInv
  <2>2. CASE q # r
    <3>1. run'[q] = run[q]
      BY <2>2 DEF Others
    <3> QED  BY <1>1, <2>1, <3>1 DEF HasWritten
  <2>3. CASE q = r
    <3>1. /\ run'[r].operation = "compress" /\ run'[r].output = path
          /\ run'[r].loaded # <<>> /\ run[r].loaded # <<>>
          /\ IsPrefix(FullFile(run[r].loaded), FullFile(run'[r].loaded))
          /\ IsPrefix(files[path], FullFile(run[r].loaded))
      BY <2>1, <2>3 DEF HasWritten, Remembers
    <3>2. /\ run[r].loaded \in Seq(Seq(Characters))
          /\ run'[r].loaded \in Seq(Seq(Characters))
      BY <1>0 DEF RunState
    <3>3. /\ files[path] \in Seq(CompressedToken)
          /\ FullFile(run[r].loaded) \in Seq(CompressedToken)
          /\ FullFile(run'[r].loaded) \in Seq(CompressedToken)
      BY <1>0, <1>1, <3>1, <3>2, FileProperties, FullFileType
    <3>4. IsPrefix(files[path], FullFile(run'[r].loaded))
      BY <3>1, <3>3, IsPrefixTransitive
    <3>5. HasWritten(r, path)'
      BY <1>1, <3>1, <3>4 DEF HasWritten
    <3> QED  BY <3>5
  <2> QED  BY <2>2, <2>3
<1>2. CASE ~ (path \in DOMAIN files /\ files'[path] = files[path])
  <2>1. files' # files /\ Running(r) /\ Grows(r)
    BY <1>2 DEF WritesOwn
  <2>2. path = run[r].output
    BY <1>0, <1>2, <2>1, GrowsProperties DEF RunInv
  <2>3. run[r].operation = "compress"
    BY <1>0, <2>1, <2>2, KindsAssumption DEF RunInv, KindsOf
  <2>4. HasWritten(r, run[r].output)'
    BY <2>1, <2>3
  <2>5. run'[r].output = run[r].output
    BY <2>1
  <2>6. HasWritten(r, path)'
    BY <2>2, <2>4, <2>5 DEF HasWritten
  <2> QED  BY <2>6
<1> QED  BY <1>1, <1>2

\* What has to be shown of a step of r: the rest follows.
LEMMA StepPreserves ==
  ASSUME ToolInv, NEW r \in Runs, Others(r), WritesOwn(r), Remembers(r),
         UNCHANGED files \/ (run[r].operation = "compress" =>
                               HasWritten(r, run[r].output)'),
         Running(r) => run'[r].output = run[r].output,
         \A q \in Runs \ {r} :
           Running(r)' /\ Running(q) => run[q].output # run'[r].output,
         RunInv(r)'
  PROVE  ToolInv'
<1>0. /\ run \in [Runs -> RunState] /\ FilesTyped /\ OutputsApart
      /\ \A s \in Runs : RunInv(s)
      /\ KindsOf(r)
  BY DEF ToolInv, RunInv
<1>1. run' \in [Runs -> RunState]
  BY DEF Others
<1>2. FilesTyped'
  <2>1. CASE UNCHANGED files
    BY <1>0, <2>1 DEF FilesTyped
  <2>2. CASE Running(r) /\ Grows(r)
    BY <1>0, <2>2, GrowsProperties
  <2> QED  BY <2>1, <2>2 DEF WritesOwn
<1>3. OutputsApart'
  <2>1. \A q \in Runs \ {r} : run'[q] = run[q] /\ (Running(q)' <=> Running(q))
    BY DEF Others, Running
  <2> SUFFICES ASSUME NEW p \in Runs, NEW q \in Runs, p # q,
                      Running(p)', Running(q)'
               PROVE  run'[p].output # run'[q].output
    BY DEF OutputsApart
  <2>2. CASE p = r
    BY <2>1, <2>2
  <2>3. CASE q = r
    BY <2>1, <2>3
  <2>4. CASE p # r /\ q # r
    BY <1>0, <2>1, <2>4 DEF OutputsApart
  <2> QED  BY <2>2, <2>3, <2>4
<1>4. ASSUME NEW s \in Runs
      PROVE  RunInv(s)'
  <2>1. CASE s = r
    BY <2>1
  <2>2. CASE s # r
    <3>1. run'[s] = run[s]
      BY <2>2 DEF Others
    <3>2. KeepsFiles(s)
      BY <1>0, <2>2, OthersKeepFiles
    <3> QED  BY <1>0, <1>2, <3>1, <3>2, RunFrame
  <2> QED  BY <2>1, <2>2
<1>5. CompressedInv'
  BY CompressedFrame
<1> QED  BY <1>1, <1>2, <1>3, <1>4, <1>5 DEF ToolInv

\* A run that goes on or ends and writes nothing.
QuietStep(r) ==
  /\ Others(r)
  /\ UNCHANGED files
  /\ run'[r].operation = run[r].operation
  /\ run'[r].output = run[r].output

\* The step that touches no file: the invariant of the run itself is enough.
LEMMA QuietPreserves ==
  ASSUME ToolInv, NEW r \in Runs, Running(r), QuietStep(r),
         run[r].loaded # <<>> =>
           run'[r].loaded # <<>>
           /\ IsPrefix(FullFile(run[r].loaded), FullFile(run'[r].loaded)),
         RunInv(r)'
  PROVE  ToolInv'
<1>1. \A q \in Runs \ {r} : Running(q) => run[q].output # run'[r].output
  BY DEF ToolInv, OutputsApart, QuietStep
<1>2. Others(r) /\ WritesOwn(r) /\ Remembers(r) /\ UNCHANGED files
      /\ run'[r].output = run[r].output
  BY DEF QuietStep, WritesOwn, Remembers
<1> QED  BY <1>1, <1>2, StepPreserves

\* What a compression is going to write stays while it has loaded nothing new.
LEMMA SameFullFile ==
  ASSUME run \in [Runs -> RunState], NEW r \in Runs, run'[r].loaded = run[r].loaded,
         run[r].loaded # <<>>
  PROVE  IsPrefix(FullFile(run[r].loaded), FullFile(run'[r].loaded))
<1>1. run[r].loaded \in Seq(Seq(Characters))
  BY DEF RunState
<1>2. FullFile(run[r].loaded) \in Seq(CompressedToken)
  BY <1>1, FullFileType
<1> QED  BY <1>2, IsPrefixReflexive

-----------------------------------------------------------------------------
(* The actions.                                                            *)

\* A run that ends without an output, or without the rest of it.
EndsAs(before, after, how) ==
  /\ after \in RunState
  /\ after.pc = "done"
  /\ after.outcome = how
  /\ after.operation = before.operation
  /\ after.input = before.input
  /\ after.output = before.output
  /\ after.loaded = before.loaded
  /\ after.pending = <<>>
  /\ after.written = 0
  /\ after.bad = FALSE

\* What is left of a run that has ended.
LEMMA EndedProperties ==
  ASSUME NEW state \in RunState, NEW how \in Outcomes
  PROVE  EndsAs(state, Ended(state, how), how)
<1>1. {} \in Symbols /\ <<>> \in Seq(Token)
  BY FS_EmptySet, EmptySeq DEF Symbols
<1> QED  BY <1>1 DEF Ended, RunState, EndsAs

\* A run that has ended keeps its invariant.
LEMMA EndedInv ==
  ASSUME NEW r \in Runs, RunInv(r), NEW how, EndsAs(run[r], run'[r], how),
         how = "terminated" =>
           Len(run[r].loaded) = 2 /\ ~ Valid(run[r].loaded[2])
  PROVE  RunInv(r)'
<1>1. run'[r].pc = "done"
  BY DEF EndsAs
<1>2. KindsOf(r)' /\ OutputOf(r)' /\ StreamOf(r)' /\ ReaderOf(r)'
  BY <1>1 DEF KindsOf, OutputOf, StreamOf, ReaderOf, Running, HasOutput, Reads
<1>3. PhaseOf(r)'
  BY <1>1 DEF PhaseOf, HasOutput, EndsAs
<1>4. LoadedOf(r)'
  BY <1>1 DEF RunInv, LoadedOf, EndsAs
<1> QED  BY <1>2, <1>3, <1>4 DEF RunInv

\* Ending without an output file preserves the invariant.
LEMMA ExitPreserves ==
  ASSUME ToolInv, NEW r \in Runs, Running(r), NEW how \in Outcomes, Exit(r, how),
         how = "terminated" =>
           Len(run[r].loaded) = 2 /\ ~ Valid(run[r].loaded[2])
  PROVE  ToolInv'
<1>1. run \in [Runs -> RunState] /\ RunInv(r) /\ run[r] \in RunState
  BY DEF ToolInv
<1>2. /\ run' = [run EXCEPT ![r] = Ended(run[r], how)]
      /\ UNCHANGED files
  BY DEF Exit
<1>3. EndsAs(run[r], Ended(run[r], how), how)
  BY <1>1, EndedProperties
<1>4. run'[r] = Ended(run[r], how)
  BY <1>1, <1>2
<1>5. EndsAs(run[r], run'[r], how)
  BY <1>3, <1>4
<1>6. Others(r)
  BY <1>1, <1>2, <1>3 DEF Others, EndsAs
<1>7. QuietStep(r) /\ run'[r].loaded = run[r].loaded
  BY <1>2, <1>5, <1>6 DEF QuietStep, EndsAs
<1>8. RunInv(r)'
  BY <1>1, <1>5, EndedInv
<1> QED  BY <1>1, <1>7, <1>8, QuietPreserves, SameFullFile

\* What a run was called with does not change.
SameArguments(r) ==
  /\ run'[r].operation = run[r].operation
  /\ run'[r].input = run[r].input
  /\ run'[r].output = run[r].output

\* Runs with one output do not overlap: this is where SharedOutputs matters.
LEMMA StartPreserves ==
  ASSUME ToolInv, ~ SharedOutputs, NEW r \in Runs, NEW words \in CommandLines,
         Start(r, words)
  PROVE  ToolInv'
<1>1. /\ run \in [Runs -> RunState] /\ RunInv(r) /\ run[r] \in RunState
      /\ run[r].pc = "idle"
  BY DEF ToolInv, Start, At
<1>2. /\ run[r].loaded = <<>> /\ run[r].position = 0 /\ run[r].outcome = "none"
      /\ run[r].pending = <<>> /\ run[r].written = 0 /\ run[r].bad = FALSE
  BY <1>1 DEF RunInv, PhaseOf, HasOutput
<1>3. CASE UsageError(words)
  <2>1. "argument_error" \in Outcomes
    BY DEF Outcomes
  <2>2. /\ run' = [run EXCEPT ![r] = Ended(run[r], "argument_error")]
        /\ UNCHANGED files
    BY <1>3 DEF Start, Exit
  <2>3. EndsAs(run[r], Ended(run[r], "argument_error"), "argument_error")
    BY <1>1, <2>1, EndedProperties
  <2>4. run'[r] = Ended(run[r], "argument_error")
    BY <1>1, <2>2
  <2>5. EndsAs(run[r], run'[r], "argument_error")
    BY <2>3, <2>4
  <2>6. Others(r)
    BY <1>1, <2>2, <2>3 DEF Others, EndsAs
  <2>7. RunInv(r)'
    BY <1>1, <2>5, EndedInv
  <2>8. ~ Running(r) /\ ~ Running(r)'
    BY <1>1, <2>5 DEF Running, EndsAs
  <2> QED  BY <1>2, <2>2, <2>6, <2>7, <2>8, StepPreserves DEF WritesOwn, Remembers
<1>4. CASE ~ UsageError(words)
  <2>1. /\ run' = [run EXCEPT ![r].pc = "check_input",
                              ![r].operation = Operation(words),
                              ![r].input = PathArguments(words)[1],
                              ![r].output = OutputPath(words)]
        /\ UNCHANGED files
        /\ \A q \in Runs : Running(q) => run[q].output # OutputPath(words)
    BY <1>4 DEF Start
  <2>2. /\ Operation(words) \in {"compress", "decompress"}
        /\ PathArguments(words)[1] \in Inputs(Operation(words))
        /\ OutputPath(words) \in Outputs(Operation(words))
    BY <1>4 DEF Operation, Inputs, Outputs
  <2>3. IF Operation(words) = "compress"
          THEN PathArguments(words)[1] \in TextPaths
               /\ OutputPath(words) \in CompressedPaths
          ELSE PathArguments(words)[1] \in CompressedPaths
               /\ OutputPath(words) \in TextPaths
    BY <2>2 DEF TextPaths, CompressedPaths
  <2> HIDE DEF PathArguments, OutputPath, Operation
  <2>4. /\ run'[r].pc = "check_input"
        /\ run'[r].operation = Operation(words)
        /\ run'[r].input = PathArguments(words)[1]
        /\ run'[r].output = OutputPath(words)
        /\ run'[r].loaded = <<>> /\ run'[r].position = 0
        /\ run'[r].outcome = "none" /\ run'[r].pending = <<>>
        /\ run'[r].written = 0
    BY <1>1, <1>2, <2>1
  <2>5. run'[r].bad = FALSE
    BY <1>1, <1>2, <2>1
  <2>6. Others(r)
    <3>1. run' \in [Runs -> RunState]
      BY <1>1, <2>1, <2>2, <2>3 DEF RunState
    <3> QED  BY <1>1, <2>1, <3>1 DEF Others
  <2>7. RunInv(r)'
    <3>1. KindsOf(r)'
      BY <2>3, <2>4, EmptySeq DEF KindsOf
    <3>2. OutputOf(r)' /\ StreamOf(r)' /\ ReaderOf(r)'
      BY <2>4 DEF OutputOf, StreamOf, ReaderOf, HasOutput, Reads
    <3>3. PhaseOf(r)'
      BY <2>4, <2>5 DEF PhaseOf
    <3>4. LoadedOf(r)'
      BY <2>4, EmptySeq DEF LoadedOf
    <3> QED  BY <3>1, <3>2, <3>3, <3>4 DEF RunInv
  <2>8. ~ Running(r)
    BY <1>1 DEF Running
  <2> QED  BY <1>2, <2>1, <2>4, <2>6, <2>7, <2>8, StepPreserves DEF WritesOwn, Remembers
<1> QED  BY <1>3, <1>4

\* An exception of std::filesystem::exists ends the run.
LEMMA CheckThrowsPreserves ==
  ASSUME ToolInv, NEW r \in Runs, CheckThrows(r)
  PROVE  ToolInv'
<1>1. Running(r)
  BY DEF CheckThrows, At, Running
<1>2. Exit(r, "unknown_error") /\ "unknown_error" \in Outcomes
  BY DEF CheckThrows, Outcomes
<1> QED  BY <1>1, <1>2, ExitPreserves

\* A run can be killed at any point.
LEMMA KillPreserves ==
  ASSUME ToolInv, NEW r \in Runs, Kill(r)
  PROVE  ToolInv'
<1>1. Running(r) /\ Exit(r, "killed") /\ "killed" \in Outcomes
  BY DEF Kill, Outcomes
<1> QED  BY <1>1, ExitPreserves

\* A run goes on to pc and changes nothing else.
GoesOn(r, pc) ==
  /\ run' = [run EXCEPT ![r].pc = pc]
  /\ UNCHANGED files

\* What a step that only moves on leaves as it was.
LEMMA GoesOnProperties ==
  ASSUME run \in [Runs -> RunState], NEW r \in Runs,
         NEW pc \in {"check_output", "load", "open", "read_header"},
         GoesOn(r, pc)
  PROVE  /\ Others(r) /\ SameArguments(r) /\ QuietStep(r)
         /\ run'[r].pc = pc
         /\ run'[r].loaded = run[r].loaded
         /\ run'[r].position = run[r].position
         /\ run'[r].outcome = run[r].outcome
         /\ run'[r].pending = run[r].pending
         /\ run'[r].written = run[r].written
         /\ run[r].bad = FALSE => run'[r].bad = FALSE
<1>1. run' = [run EXCEPT ![r].pc = pc] /\ UNCHANGED files
  BY DEF GoesOn
<1>2. /\ run'[r].pc = pc
      /\ run'[r].operation = run[r].operation /\ run'[r].input = run[r].input
      /\ run'[r].output = run[r].output
      /\ run'[r].loaded = run[r].loaded
      /\ run'[r].position = run[r].position
      /\ run'[r].outcome = run[r].outcome
      /\ run'[r].pending = run[r].pending
      /\ run'[r].written = run[r].written
      /\ \A s \in Runs \ {r} : run'[s] = run[s]
  BY <1>1
<1>3. run[r].bad = FALSE => run'[r].bad = FALSE
  BY <1>1
<1>4. run' \in [Runs -> RunState]
  <2>1. run[r] \in RunState
    OBVIOUS
  <2>2. [run[r] EXCEPT !.pc = pc] \in RunState
    BY <2>1 DEF RunState
  <2>3. run' = [run EXCEPT ![r] = [run[r] EXCEPT !.pc = pc]]
    BY <1>1
  <2> QED  BY <2>2, <2>3
<1> QED  BY <1>1, <1>2, <1>3, <1>4 DEF Others, SameArguments, QuietStep

\* The steps before the output or the input is opened.
LEMMA GoesOnPreserves ==
  ASSUME ToolInv, NEW r \in Runs, Running(r), ~ HasOutput(r),
         run[r].pc \in {"check_input", "check_output", "open"},
         NEW pc \in {"check_output", "load", "open", "read_header"},
         GoesOn(r, pc),
         pc = "load" => run[r].operation = "compress",
         pc \in {"open", "read_header"} => run[r].operation = "decompress",
         pc \in {"load", "open", "read_header"} => ~ Exists(run[r].output),
         pc = "read_header" => Exists(run[r].input)
  PROVE  ToolInv'
<1>1. /\ run \in [Runs -> RunState] /\ RunInv(r) /\ run[r] \in RunState
  BY DEF ToolInv
<1>2. /\ run[r].position = 0 /\ run[r].loaded = <<>> /\ run[r].outcome = "none"
      /\ run[r].pending = <<>> /\ run[r].written = 0 /\ run[r].bad = FALSE
  BY <1>1 DEF RunInv, PhaseOf
<1>3. /\ Others(r) /\ SameArguments(r) /\ QuietStep(r)
      /\ run'[r].pc = pc
      /\ run'[r].loaded = <<>> /\ run'[r].position = 0
      /\ run'[r].outcome = "none" /\ run'[r].pending = <<>>
      /\ run'[r].written = 0 /\ run'[r].bad = FALSE
  <2>1. /\ Others(r) /\ SameArguments(r) /\ QuietStep(r)
        /\ run'[r].pc = pc
        /\ run'[r].loaded = run[r].loaded
        /\ run'[r].position = run[r].position
        /\ run'[r].outcome = run[r].outcome
        /\ run'[r].pending = run[r].pending
        /\ run'[r].written = run[r].written
        /\ run[r].bad = FALSE => run'[r].bad = FALSE
    BY <1>1, GoesOnProperties
  <2> QED  BY <1>2, <2>1
<1>4. RunInv(r)'
  <2>1. KindsOf(r)'
    BY <1>1, <1>3, EmptySeq DEF RunInv, KindsOf, SameArguments
  <2>2. OutputOf(r)'
    BY <1>3 DEF OutputOf, HasOutput, GoesOn, SameArguments, Exists
  <2>3. PhaseOf(r)'
    BY <1>3 DEF PhaseOf, SameArguments
  <2>4. LoadedOf(r)'
    BY <1>3, EmptySeq DEF LoadedOf
  <2>5. StreamOf(r)'
    BY <1>3 DEF StreamOf, HasOutput
  <2>6. ReaderOf(r)'
    BY <1>3 DEF ReaderOf, Reads, GoesOn, SameArguments, Exists
  <2> QED  BY <2>1, <2>2, <2>3, <2>4, <2>5, <2>6 DEF RunInv
<1> QED  BY <1>2, <1>3, <1>4, QuietPreserves

\* The input is checked before the output.
LEMMA CheckInputPreserves ==
  ASSUME ToolInv, NEW r \in Runs, CheckInput(r)
  PROVE  ToolInv'
<1>1. run[r].pc = "check_input" /\ Running(r) /\ ~ HasOutput(r)
  BY DEF CheckInput, At, Running, HasOutput
<1>2. CASE Exists(run[r].input)
  <2>1. GoesOn(r, "check_output")
    BY <1>2 DEF CheckInput, GoesOn
  <2> QED  BY <1>1, <2>1, GoesOnPreserves
<1>3. CASE ~ Exists(run[r].input)
  <2>1. Exit(r, "argument_error") /\ "argument_error" \in Outcomes
    BY <1>3 DEF CheckInput, Outcomes
  <2> QED  BY <1>1, <2>1, ExitPreserves
<1> QED  BY <1>2, <1>3

\* From here on the output of the run does not exist.
LEMMA CheckOutputPreserves ==
  ASSUME ToolInv, NEW r \in Runs, CheckOutput(r)
  PROVE  ToolInv'
<1>1. run[r].pc = "check_output" /\ Running(r) /\ ~ HasOutput(r)
  BY DEF CheckOutput, At, Running, HasOutput
<1>2. CASE ~ Exists(run[r].output)
  <2>1. run[r].operation \in {"compress", "decompress"}
    BY DEF ToolInv, RunState
  <2>2. CASE run[r].operation = "compress"
    <3>1. GoesOn(r, "load")
      BY <1>2, <2>2 DEF CheckOutput, GoesOn
    <3> QED  BY <1>1, <1>2, <2>2, <3>1, GoesOnPreserves
  <2>3. CASE run[r].operation = "decompress"
    <3>1. GoesOn(r, "open")
      BY <1>2, <2>3 DEF CheckOutput, GoesOn
    <3> QED  BY <1>1, <1>2, <2>3, <3>1, GoesOnPreserves
  <2> QED  BY <2>1, <2>2, <2>3
<1>3. CASE Exists(run[r].output)
  <2>1. Exit(r, "argument_error") /\ "argument_error" \in Outcomes
    BY <1>3 DEF CheckOutput, Outcomes
  <2> QED  BY <1>1, <2>1, ExitPreserves
<1> QED  BY <1>2, <1>3

\* The input stays while the run has it open.
LEMMA OpenPreserves ==
  ASSUME ToolInv, NEW r \in Runs, Open(r)
  PROVE  ToolInv'
<1>1. run[r].pc = "open" /\ Running(r) /\ ~ HasOutput(r)
  BY DEF Open, At, Running, HasOutput
<1>2. CASE Exists(run[r].input)
  <2>1. GoesOn(r, "read_header")
    BY <1>2 DEF Open, GoesOn
  <2>2. run[r].operation = "decompress" /\ ~ Exists(run[r].output)
    BY <1>1 DEF ToolInv, RunInv, PhaseOf, OutputOf
  <2> QED  BY <1>1, <1>2, <2>1, <2>2, GoesOnPreserves
<1>3. CASE ~ Exists(run[r].input)
  <2>1. Exit(r, "file_operation_error") /\ "file_operation_error" \in Outcomes
    BY <1>3 DEF Open, Outcomes
  <2> QED  BY <1>1, <2>1, ExitPreserves
<1> QED  BY <1>2, <1>3

\* A file at the path of a text can be loaded as one.
LEMMA TextAtType ==
  ASSUME FilesTyped, NEW path \in TextPaths, Exists(path)
  PROVE  TextAt(path) \in Seq(Characters)
<1>1. files[path] \in Seq(TextToken)
  BY FileProperties DEF Exists
<1>2. /\ Len(files[path]) \in Nat /\ DOMAIN files[path] = 1 .. Len(files[path])
      /\ \A i \in 1 .. Len(files[path]) : files[path][i] \in TextToken
  BY <1>1, LenProperties, ElementOfSeq
<1>3. \A i \in 1 .. Len(files[path]) : files[path][i].char \in Characters
  BY <1>2 DEF TextToken
<1> QED  BY <1>2, <1>3 DEF TextAt

\* The first scan fixes the symbols.
LEMMA LoadPreserves ==
  ASSUME ToolInv, NEW r \in Runs, Load(r)
  PROVE  ToolInv'
<1> DEFINE text == TextAt(run[r].input)
<1>1. /\ run \in [Runs -> RunState] /\ RunInv(r) /\ run[r] \in RunState /\ FilesTyped
      /\ run[r].pc = "load" /\ Running(r)
  BY DEF ToolInv, Load, At, Running
<1>2. /\ run[r].position = 0 /\ run[r].loaded = <<>> /\ run[r].outcome = "none"
      /\ run[r].pending = <<>> /\ run[r].written = 0 /\ run[r].bad = FALSE
      /\ run[r].operation = "compress"
  BY <1>1 DEF RunInv, PhaseOf, HasOutput
<1>3. run[r].input \in TextPaths /\ ~ Exists(run[r].output)
  BY <1>1, <1>2 DEF RunInv, KindsOf, OutputOf
<1>4. CASE Exists(run[r].input) /\ Valid(text)
  <2>1. /\ run' = [run EXCEPT ![r].loaded = <<text>>,
                              ![r].symbols = Coded(text),
                              ![r].pc = "create"]
        /\ UNCHANGED files
    BY <1>4 DEF Load
  <2>2. text \in Seq(Characters)
    BY <1>1, <1>3, <1>4, TextAtType
  <2>3. Coded(text) \in Symbols /\ <<text>> \in Seq(Seq(Characters))
        /\ Len(<<text>>) = 1 /\ <<text>>[1] = text
    BY <2>2, CodedProperties
  <2> HIDE DEF text
  <2>4. /\ run'[r].pc = "create" /\ SameArguments(r)
        /\ run'[r].loaded = <<text>> /\ run'[r].symbols = Coded(text)
        /\ run'[r].outcome = "none" /\ run'[r].pending = <<>>
        /\ run'[r].written = 0
    BY <1>1, <1>2, <2>1 DEF SameArguments
  <2>5. run'[r].bad = FALSE
    BY <1>1, <1>2, <2>1
  <2>6. Others(r)
    <3>1. [run[r] EXCEPT !.loaded = <<text>>, !.symbols = Coded(text),
                         !.pc = "create"] \in RunState
      BY <1>1, <2>3 DEF RunState
    <3>2. run' = [run EXCEPT ![r] =
                    [run[r] EXCEPT !.loaded = <<text>>, !.symbols = Coded(text),
                                   !.pc = "create"]]
      BY <2>1
    <3> QED  BY <1>1, <3>1, <3>2 DEF Others
  <2>7. RunInv(r)'
    <3>1. KindsOf(r)'
      BY <1>1, <2>4, EmptySeq DEF RunInv, KindsOf, SameArguments
    <3>2. OutputOf(r)' /\ StreamOf(r)' /\ ReaderOf(r)'
      BY <1>2, <1>3, <2>1, <2>4
         DEF OutputOf, StreamOf, ReaderOf, HasOutput, Reads, SameArguments, Exists
    <3>3. PhaseOf(r)'
      BY <2>4, <2>5 DEF PhaseOf
    <3>4. LoadedOf(r)'
      BY <1>2, <1>4, <2>3, <2>4 DEF LoadedOf, SameArguments
    <3> QED  BY <3>1, <3>2, <3>3, <3>4 DEF RunInv
  <2> QED  BY <1>1, <1>2, <2>1, <2>4, <2>6, <2>7, QuietPreserves
           DEF QuietStep, SameArguments
<1>5. CASE ~ (Exists(run[r].input) /\ Valid(text))
  <2>1. Exit(r, "file_operation_error") /\ "file_operation_error" \in Outcomes
    BY <1>5 DEF Load, Outcomes
  <2> QED  BY <1>1, <2>1, ExitPreserves
<1> QED  BY <1>4, <1>5

\* A header that is complete is that of the compression.
LEMMA HeaderFound ==
  ASSUME ToolInv, NEW path \in DOMAIN files, path \in CompressedPaths,
         HeaderComplete(files[path])
  PROVE  /\ HeaderSymbols(files[path]) \in Symbols
         /\ IsPrefix(Header(HeaderSymbols(files[path])), files[path])
<1> DEFINE f == files[path]
<1>1. f \in Seq(CompressedToken) /\ Len(f) \in Nat
  BY FileProperties, LenProperties DEF ToolInv
<1>2. PICK q \in Runs : HasWritten(q, path)
  BY DEF ToolInv, CompressedInv
<1> DEFINE loaded == run[q].loaded
           S == Coded(loaded[1])
           full == FullFile(loaded)
<1>3. loaded \in Seq(Seq(Characters)) /\ loaded # <<>> /\ IsPrefix(f, full)
  BY <1>2 DEF HasWritten, ToolInv, RunState
<1>4. /\ S \in Symbols /\ Header(S) \in Seq(CompressedToken)
      /\ full \in Seq(CompressedToken) /\ IsPrefix(Header(S), full)
  <2>1. loaded[1] \in Seq(Characters)
    BY <1>3, EmptySeq, ElementOfSeq
  <2> QED  BY <1>3, <2>1, CodedProperties, FullFileType
<1>5. /\ Len(Header(S)) = IF S = {} THEN 1 ELSE 2
      /\ Header(S)[1].count = Cardinality(S)
      /\ Cardinality(S) = 0 <=> S = {}
      /\ S # {} => Header(S)[2].entries = S
  BY <1>4, HeaderProperties
<1> HIDE DEF f, S, full
<1>6. /\ \A i \in 1 .. Len(f) : f[i] = full[i]
      /\ \A i \in 1 .. Len(Header(S)) : Header(S)[i] = full[i]
  BY <1>1, <1>3, <1>4, IsPrefixElements
<1>7. f # <<>> /\ Len(f) >= 1 /\ Head(f) = f[1]
      /\ (Head(f).count = 0 \/ Len(f) > 1)
  <2>1. f # <<>> /\ (Head(f).count = 0 \/ Len(f) > 1)
    BY DEF HeaderComplete, f
  <2> QED  BY <1>1, <2>1, EmptySeq
<1>8. f[1] = Header(S)[1]
  BY <1>1, <1>5, <1>6, <1>7
<1>9. HeaderSymbols(f) = S /\ Len(Header(S)) <= Len(f)
  <2>1. CASE S = {}
    BY <1>5, <1>7, <1>8, <2>1 DEF HeaderSymbols
  <2>2. CASE S # {}
    <3>1. Head(f).count # 0 /\ Len(f) > 1
      BY <1>5, <1>7, <1>8, <2>2
    <3>2. f[2] = Header(S)[2]
      BY <1>1, <1>5, <1>6, <2>2, <3>1
    <3> QED  BY <1>1, <1>5, <2>2, <3>1, <3>2 DEF HeaderSymbols
  <2> QED  BY <2>1, <2>2
<1>10. \A i \in 1 .. Len(Header(S)) : Header(S)[i] = f[i]
  BY <1>1, <1>5, <1>6, <1>9
<1>11. IsPrefix(Header(S), f)
  BY <1>1, <1>4, <1>9, <1>10, IsPrefixElements
<1> QED  BY <1>4, <1>9, <1>11 DEF f

\* The symbols are those of the compression that has written the input.
LEMMA ReadHeaderPreserves ==
  ASSUME ToolInv, NEW r \in Runs, ReadHeader(r)
  PROVE  ToolInv'
<1> DEFINE f == files[run[r].input]
<1>1. /\ run \in [Runs -> RunState] /\ RunInv(r) /\ run[r] \in RunState /\ FilesTyped
      /\ run[r].pc = "read_header" /\ Running(r)
  BY DEF ToolInv, ReadHeader, At, Running
<1>2. /\ run[r].position = 0 /\ run[r].loaded = <<>> /\ run[r].outcome = "none"
      /\ run[r].pending = <<>> /\ run[r].written = 0 /\ run[r].bad = FALSE
      /\ run[r].operation = "decompress"
  BY <1>1 DEF RunInv, PhaseOf, HasOutput
<1>3. /\ run[r].input \in CompressedPaths /\ run[r].input \in DOMAIN files
      /\ ~ Exists(run[r].output)
  BY <1>1, <1>2 DEF RunInv, KindsOf, OutputOf, ReaderOf, Reads, Exists
<1>4. f \in Seq(CompressedToken) /\ Len(f) \in Nat
  BY <1>1, <1>3, FileProperties, LenProperties
<1>5. Unread(r) = f
  <2>1. SubSeq(f, 1, Len(f)) = f
    BY <1>4, SubSeqFull
  <2>2. run[r].position + 1 = 1
    BY <1>2
  <2> QED  BY <2>1, <2>2 DEF Unread
<1>6. CASE HeaderComplete(f)
  <2> DEFINE S == HeaderSymbols(f)
  <2>1. /\ run' = [run EXCEPT ![r].symbols = S,
                              ![r].position = Len(Header(S)),
                              ![r].pc = "create"]
        /\ UNCHANGED files
    BY <1>5, <1>6 DEF ReadHeader
  <2>2. /\ S \in Symbols /\ IsPrefix(Header(S), f)
    BY <1>3, <1>6, HeaderFound
  <2>3. Header(S) \in Seq(CompressedToken) /\ Len(Header(S)) \in Nat
    BY <2>2, HeaderProperties, LenProperties
  <2>4. Len(Header(S)) <= Len(f)
    BY <1>4, <2>2, <2>3, IsPrefixElements
  <2> HIDE DEF S
  <2>5. /\ run'[r].pc = "create" /\ SameArguments(r)
        /\ run'[r].symbols = S /\ run'[r].position = Len(Header(S))
        /\ run'[r].loaded = <<>> /\ run'[r].outcome = "none"
        /\ run'[r].pending = <<>> /\ run'[r].written = 0
    BY <1>1, <1>2, <2>1 DEF SameArguments
  <2>6. run'[r].bad = FALSE
    BY <1>1, <1>2, <2>1
  <2>7. Others(r)
    <3>1. [run[r] EXCEPT !.symbols = S, !.position = Len(Header(S)),
                         !.pc = "create"] \in RunState
      BY <1>1, <2>2, <2>3 DEF RunState
    <3>2. run' = [run EXCEPT ![r] =
                    [run[r] EXCEPT !.symbols = S, !.position = Len(Header(S)),
                                   !.pc = "create"]]
      BY <2>1
    <3> QED  BY <1>1, <3>1, <3>2 DEF Others
  <2>8. RunInv(r)'
    <3>1. KindsOf(r)'
      BY <1>1, <2>5, EmptySeq DEF RunInv, KindsOf, SameArguments
    <3>2. OutputOf(r)' /\ StreamOf(r)'
      BY <1>3, <2>1, <2>5 DEF OutputOf, StreamOf, HasOutput, SameArguments, Exists
    <3>3. PhaseOf(r)'
      BY <2>5, <2>6 DEF PhaseOf
    <3>4. LoadedOf(r)'
      BY <1>2, <2>5, EmptySeq DEF LoadedOf, SameArguments
    <3>5. ReaderOf(r)'
      <4>1. files'[run'[r].input] = f /\ run'[r].input \in DOMAIN files'
        BY <1>3, <2>1, <2>5 DEF SameArguments
      <4>2. HeaderLength(r)' = Len(Header(S))
        BY <2>5 DEF HeaderLength
      <4> HIDE DEF f
      <4> QED  BY <2>2, <2>3, <2>4, <2>5, <4>1, <4>2 DEF ReaderOf, Exists
    <3> QED  BY <3>1, <3>2, <3>3, <3>4, <3>5 DEF RunInv
  <2> QED  BY <1>1, <1>2, <2>1, <2>5, <2>7, <2>8, QuietPreserves
           DEF QuietStep, SameArguments
<1>7. CASE ~ HeaderComplete(f)
  <2>1. Exit(r, "file_operation_error") /\ "file_operation_error" \in Outcomes
    BY <1>5, <1>7 DEF ReadHeader, Outcomes
  <2> QED  BY <1>1, <2>1, ExitPreserves
<1> QED  BY <1>6, <1>7

\* The new output is empty, and a beginning of what its run will write.
LEMMA CreateOutputPreserves ==
  ASSUME ToolInv, NEW r \in Runs, CreateOutput(r)
  PROVE  ToolInv'
<1>1. /\ run \in [Runs -> RunState] /\ RunInv(r) /\ run[r] \in RunState /\ FilesTyped
      /\ run[r].pc = "create" /\ Running(r) /\ ~ HasOutput(r)
  BY DEF ToolInv, CreateOutput, At, Running, HasOutput
<1>2. CASE run[r].output \in Creatable
  <2> DEFINE pc == IF run[r].operation = "compress" THEN "header" ELSE "total"
  <2>1. /\ files' = WithFile(run[r].output, <<>>)
        /\ run' = [run EXCEPT ![r].pc = pc]
    BY <1>2 DEF CreateOutput
  <2>2. pc \in {"header", "total"}
    OBVIOUS
  <2>3. /\ run[r].outcome = "none" /\ run[r].pending = <<>>
        /\ run[r].written = 0 /\ run[r].bad = FALSE
        /\ ~ Exists(run[r].output)
    BY <1>1 DEF RunInv, PhaseOf, OutputOf
  <2>4. /\ run'[r].pc = pc /\ SameArguments(r)
        /\ run'[r].loaded = run[r].loaded /\ run'[r].symbols = run[r].symbols
        /\ run'[r].position = run[r].position
        /\ run'[r].outcome = "none" /\ run'[r].pending = <<>>
        /\ run'[r].written = 0
    BY <1>1, <2>1, <2>3 DEF SameArguments
  <2>5. Others(r)
    <3>1. [run[r] EXCEPT !.pc = pc] \in RunState
      BY <1>1, <2>2 DEF RunState
    <3>2. run' = [run EXCEPT ![r] = [run[r] EXCEPT !.pc = pc]]
      BY <2>1
    <3> QED  BY <1>1, <3>1, <3>2 DEF Others
  <2>6. Grows(r)
    BY <2>1, <2>3, EmptySeq DEF Grows
  <2>7. /\ FilesTyped'
        /\ run[r].output \in DOMAIN files' /\ files'[run[r].output] = <<>>
        /\ \A path \in DOMAIN files :
             path \in DOMAIN files'
             /\ (path # run[r].output => files'[path] = files[path])
    <3>1. KindsOf(r)
      BY <1>1 DEF RunInv
    <3> QED  BY <1>1, <2>1, <2>6, <3>1, GrowsProperties DEF WithFile
  <2>8. run[r].operation \in {"compress", "decompress"}
    BY <1>1 DEF RunState
  <2>9. RunInv(r)'
    <3>1. KindsOf(r)'
      BY <1>1, <2>4, EmptySeq DEF RunInv, KindsOf, SameArguments
    <3>2. OutputOf(r)'
      BY <2>2, <2>4, <2>7 DEF OutputOf, SameArguments, Exists
    <3>3. PhaseOf(r)'
      BY <2>2, <2>4, <2>8 DEF PhaseOf, HasOutput, SameArguments
    <3>4. LoadedOf(r)'
      BY <1>1, <2>2, <2>3, <2>4 DEF RunInv, LoadedOf, SameArguments
    <3>5. ReaderOf(r)'
      <4>1. CASE run[r].operation = "decompress"
        <5>1. Reads(r) /\ run[r].input \in DOMAIN files
              /\ run[r].input # run[r].output
          BY <1>1, <4>1, KindsAssumption
             DEF RunInv, ReaderOf, KindsOf, Reads, Exists
        <5>2. files'[run'[r].input] = files[run[r].input]
              /\ run'[r].input \in DOMAIN files'
          BY <2>4, <2>7, <5>1 DEF SameArguments
        <5>3. HeaderLength(r)' = HeaderLength(r) /\ run'[r].pc = "total"
          BY <2>4, <4>1 DEF HeaderLength
        <5> QED  BY <1>1, <2>4, <5>1, <5>2, <5>3 DEF RunInv, ReaderOf, Exists
      <4>2. CASE run[r].operation = "compress"
        BY <2>4, <4>2 DEF ReaderOf, Reads, SameArguments
      <4> QED  BY <2>8, <4>1, <4>2
    <3>6. Sent(r)' = <<>>
      <4>1. CASE run[r].operation = "decompress"
        <5>1. run[r].position = HeaderLength(r) /\ HeaderLength(r)' = HeaderLength(r)
              /\ HeaderLength(r) \in Nat
          BY <1>1, <2>4, <4>1, HeaderLengthType
             DEF RunInv, ReaderOf, Reads, HeaderLength
        <5>2. 1 .. (HeaderLength(r) - HeaderLength(r) - 1) = {}
          BY <5>1
        <5> QED  BY <2>4, <4>1, <5>1, <5>2 DEF Sent, DecodedUpTo, SameArguments
      <4>2. CASE run[r].operation = "compress"
        BY <2>4, <4>2 DEF Sent, SameArguments
      <4> QED  BY <2>8, <4>1, <4>2
    <3>7. StreamOf(r)'
      <4>1. Out(r)' = <<>>
        BY <2>4, <2>7 DEF Out, SameArguments
      <4>2. <<>> \o <<>> = <<>> /\ IsPrefix(<<>>, <<>>) /\ Len(<<>>) = 0
        <5>1. <<>> \in Seq({}) /\ Len(<<>>) = 0
          BY EmptySeq
        <5> QED  BY <5>1, ConcatEmptySeq, IsPrefixReflexive
      <4> QED  BY <2>4, <3>6, <4>1, <4>2 DEF StreamOf
    <3> QED  BY <3>1, <3>2, <3>3, <3>4, <3>5, <3>7 DEF RunInv
  <2>10. run[r].operation = "compress" => HasWritten(r, run[r].output)'
    <3> SUFFICES ASSUME run[r].operation = "compress"
                 PROVE  HasWritten(r, run[r].output)'
      OBVIOUS
    <3>1. run[r].loaded \in Seq(Seq(Characters)) /\ run[r].loaded # <<>>
      <4>1. Len(run[r].loaded) = 1
        BY <1>1, <2>3 DEF RunInv, LoadedOf
      <4>2. run[r].loaded \in Seq(Seq(Characters))
        BY <1>1 DEF RunState
      <4>3. Len(<<>>) = 0
        OBVIOUS
      <4>4. run[r].loaded # <<>>
        BY <4>1, <4>3
      <4> QED  BY <4>2, <4>4
    <3>2. FullFile(run[r].loaded) \in Seq(CompressedToken)
      BY <3>1, FullFileType
    <3>3. IsPrefix(<<>>, FullFile(run[r].loaded))
      BY <3>2, EmptyIsPrefix
    <3> QED  BY <2>4, <2>7, <3>1, <3>3 DEF HasWritten, SameArguments
  <2>11. Remembers(r)
    BY <1>1, <2>4, SameFullFile DEF Remembers, SameArguments
  <2>12. \A q \in Runs \ {r} : Running(q) => run[q].output # run'[r].output
    BY <1>1, <2>4 DEF ToolInv, OutputsApart, SameArguments
  <2> QED  BY <1>1, <2>4, <2>5, <2>6, <2>9, <2>10, <2>11, <2>12, StepPreserves
           DEF WritesOwn, SameArguments
<1>3. CASE run[r].output \notin Creatable
  <2>1. Exit(r, "file_operation_error") /\ "file_operation_error" \in Outcomes
    BY <1>3 DEF CreateOutput, Outcomes
  <2> QED  BY <1>1, <2>1, ExitPreserves
<1> QED  BY <1>2, <1>3

-----------------------------------------------------------------------------
(* What a decompression reads.                                             *)

\* The codepoints that a compression with these texts encodes.
Encoded(loaded) == KnownPart(loaded[2], Coded(loaded[1]))

\* A decompression that has a header reads the file of a compression with the
\* same symbols, and behind the header its contents.
LEMMA ReaderSource ==
  ASSUME ToolInv, NEW r \in Runs, Reads(r), run[r].pc # "read_header"
  PROVE  \E q \in Runs :
           /\ HasWritten(q, run[r].input)
           /\ Coded(run[q].loaded[1]) = run[r].symbols
           /\ HeaderLength(r) < Len(files[run[r].input]) =>
                /\ Len(run[q].loaded) = 2
                /\ Encoded(run[q].loaded) \in Seq(Characters)
                /\ files[run[r].input][HeaderLength(r) + 1].total
                     = Len(Encoded(run[q].loaded))
                /\ Len(files[run[r].input])
                     <= HeaderLength(r) + 1 + Len(Encoded(run[q].loaded))
                /\ \A i \in 1 .. (Len(files[run[r].input]) - HeaderLength(r) - 1) :
                     files[run[r].input][HeaderLength(r) + 1 + i].code
                       = Encoded(run[q].loaded)[i]
<1> DEFINE f == files[run[r].input]
           h == HeaderLength(r)
<1>1. /\ run \in [Runs -> RunState] /\ RunInv(r) /\ run[r] \in RunState /\ FilesTyped
      /\ Running(r)
  BY DEF ToolInv, Reads, Running
<1>2. /\ run[r].input \in CompressedPaths /\ run[r].input \in DOMAIN files
      /\ IsPrefix(Header(run[r].symbols), f)
  BY <1>1 DEF RunInv, KindsOf, ReaderOf, Reads, Exists
<1>3. f \in Seq(CompressedToken) /\ Len(f) \in Nat
  BY <1>1, <1>2, FileProperties, LenProperties
<1>4. /\ run[r].symbols \in Symbols /\ h \in Nat
      /\ Header(run[r].symbols) \in Seq(CompressedToken)
  BY <1>1, HeaderLengthType
<1>5. PICK q \in Runs : HasWritten(q, run[r].input)
  BY <1>2 DEF ToolInv, CompressedInv
<1> DEFINE loaded == run[q].loaded
           S == Coded(loaded[1])
           full == FullFile(loaded)
           known == Encoded(loaded)
<1>6. loaded \in Seq(Seq(Characters)) /\ loaded # <<>> /\ IsPrefix(f, full)
  BY <1>1, <1>5 DEF HasWritten, RunState
<1>7. /\ loaded[1] \in Seq(Characters)
      /\ S \in Symbols /\ Header(S) \in Seq(CompressedToken)
      /\ full \in Seq(CompressedToken) /\ IsPrefix(Header(S), full)
  <2>1. loaded[1] \in Seq(Characters)
    BY <1>6, EmptySeq, ElementOfSeq
  <2> QED  BY <1>6, <2>1, CodedProperties, FullFileType
<1>8. S = run[r].symbols
  <2>1. IsPrefix(Header(run[r].symbols), full)
    BY <1>2, <1>3, <1>4, <1>6, <1>7, IsPrefixTransitive
  <2> QED  BY <1>4, <1>7, <2>1, HeaderInjective
<1>9. h = Len(Header(S))
  BY <1>8 DEF HeaderLength
<1> HIDE DEF f, h
<1>10. Len(f) <= Len(full) /\ \A i \in 1 .. Len(f) : f[i] = full[i]
  <2> HIDE DEF full
  <2> QED  BY <1>3, <1>6, <1>7, IsPrefixElements
<1>11. ASSUME h < Len(f)
       PROVE  /\ Len(loaded) = 2 /\ known \in Seq(Characters)
              /\ f[h + 1].total = Len(known)
              /\ Len(f) <= h + 1 + Len(known)
              /\ \A i \in 1 .. (Len(f) - h - 1) : f[h + 1 + i].code = known[i]
  <2>1. Len(loaded) = 2
    <3> SUFFICES ASSUME Len(loaded) # 2 PROVE FALSE
      OBVIOUS
    <3>1. full = Header(S)
      BY DEF FullFile
    <3>2. Len(full) = h
      BY <1>9, <3>1
    <3> HIDE DEF full
    <3> QED  BY <1>3, <1>4, <1>10, <1>11, <3>2
  <2>2. loaded[2] \in Seq(Characters)
    BY <1>6, <2>1, ElementOfSeq
  <2> DEFINE contents == Contents(loaded[2], S)
  <2>3. /\ contents \in Seq(CompressedToken)
        /\ Len(contents) = Len(known) + 1
        /\ contents[1].total = Len(known)
        /\ \A i \in 1 .. Len(known) : contents[i + 1].code = known[i]
        /\ known \in Seq(Characters)
    BY <2>2, ContentsProperties, KnownPartType DEF Encoded
  <2>4. full = Header(S) \o contents
    BY <2>1 DEF FullFile
  <2> HIDE DEF contents, S, full, loaded, known
  <2>5. Len(known) \in Nat
    BY <2>3, LenProperties
  <2>6. /\ Len(full) = h + 1 + Len(known)
        /\ \A i \in 1 .. (h + 1 + Len(known)) :
             full[i] = IF i <= h THEN Header(S)[i] ELSE contents[i - h]
    <3>1. /\ Len(full) = Len(Header(S)) + Len(contents)
          /\ \A i \in 1 .. Len(Header(S)) + Len(contents) :
               full[i] = IF i <= Len(Header(S)) THEN Header(S)[i]
                         ELSE contents[i - Len(Header(S))]
      <4>1. Header(S) \in Seq(CompressedToken) /\ contents \in Seq(CompressedToken)
        BY <1>7, <2>3
      <4> QED  BY <2>4, <4>1, ConcatProperties
    <3>2. Len(Header(S)) + Len(contents) = h + 1 + Len(known)
      BY <1>4, <1>9, <2>3, <2>5
    <3> QED  BY <1>9, <3>1, <3>2
  <2>7. f[h + 1].total = Len(known)
    <3>1. h + 1 \in 1 .. Len(f) /\ h + 1 \in 1 .. (h + 1 + Len(known))
          /\ ~ (h + 1 <= h) /\ (h + 1) - h = 1
      BY <1>3, <1>4, <1>11, <2>5
    <3>2. f[h + 1] = contents[1]
      BY <1>10, <2>6, <3>1
    <3> QED  BY <2>3, <3>2
  <2>8. ASSUME NEW i \in 1 .. (Len(f) - h - 1)
        PROVE  f[h + 1 + i].code = known[i]
    <3>1. /\ h + 1 + i \in 1 .. Len(f) /\ h + 1 + i \in 1 .. (h + 1 + Len(known))
          /\ ~ (h + 1 + i <= h) /\ (h + 1 + i) - h = i + 1
          /\ i \in 1 .. Len(known)
      BY <1>3, <1>4, <1>10, <1>11, <2>5, <2>6
    <3>2. f[h + 1 + i] = contents[i + 1]
      BY <1>10, <2>6, <3>1
    <3> QED  BY <2>3, <3>1, <3>2
  <2>9. Len(f) <= h + 1 + Len(known)
    BY <1>10, <2>6
  <2> QED  BY <2>1, <2>3, <2>7, <2>8, <2>9 DEF loaded
<1> QED  BY <1>5, <1>8, <1>11 DEF f, h

\* What a decompression has decoded begins the text of that compression, and is
\* the text when it has decoded as many codepoints as the file says.
LEMMA DecodedText ==
  ASSUME ToolInv, NEW r \in Runs, Reads(r), run[r].pc # "read_header"
  PROVE  /\ DecodedUpTo(files[run[r].input], HeaderLength(r), run[r].position)
              \in Seq(TextToken)
         /\ \E q \in Runs :
              /\ HasWritten(q, run[r].input)
              /\ HeaderLength(r) < run[r].position =>
                   /\ Len(run[q].loaded) = 2
                   /\ TextFile(Encoded(run[q].loaded)) \in Seq(TextToken)
                   /\ IsPrefix(DecodedUpTo(files[run[r].input], HeaderLength(r),
                                           run[r].position),
                               TextFile(Encoded(run[q].loaded)))
                   /\ files[run[r].input][HeaderLength(r) + 1].total
                          = run[r].position - HeaderLength(r) - 1 =>
                        DecodedUpTo(files[run[r].input], HeaderLength(r),
                                    run[r].position)
                          = TextFile(Encoded(run[q].loaded))
<1> DEFINE f == files[run[r].input]
           h == HeaderLength(r)
           position == run[r].position
           decoded == DecodedUpTo(f, h, position)
<1>1. /\ run \in [Runs -> RunState] /\ RunInv(r) /\ run[r] \in RunState /\ FilesTyped
  BY DEF ToolInv
<1>2. h \in Nat /\ position \in Nat /\ h <= position /\ position <= Len(f)
  BY <1>1, HeaderLengthType DEF RunInv, ReaderOf, RunState
<1>3. f \in Seq(CompressedToken) /\ Len(f) \in Nat
  BY <1>1, FileProperties, LenProperties DEF RunInv, KindsOf, ReaderOf, Reads, Running, Exists
<1>4. PICK q \in Runs :
        /\ HasWritten(q, run[r].input)
        /\ h < Len(f) =>
             /\ Len(run[q].loaded) = 2
             /\ Encoded(run[q].loaded) \in Seq(Characters)
             /\ f[h + 1].total = Len(Encoded(run[q].loaded))
             /\ Len(f) <= h + 1 + Len(Encoded(run[q].loaded))
             /\ \A i \in 1 .. (Len(f) - h - 1) :
                  f[h + 1 + i].code = Encoded(run[q].loaded)[i]
  BY ReaderSource
<1> DEFINE known == Encoded(run[q].loaded)
<1>5. decoded = [i \in 1 .. (position - h - 1) |-> [char |-> f[h + 1 + i].code]]
  BY DEF DecodedUpTo
<1>6. TextFile(known) = [i \in DOMAIN known |-> [char |-> known[i]]]
  BY DEF TextFile
<1> HIDE DEF f, h, position, decoded, known
<1>7. CASE ~ (h < position)
  <2>1. 1 .. (position - h - 1) = {}
    BY <1>2, <1>7
  <2>2. decoded = <<>>
    BY <1>5, <2>1
  <2>3. decoded \in Seq(TextToken)
    BY <2>2, EmptySeq
  <2> QED  BY <1>4, <1>7, <2>3 DEF f, h, position, decoded
<1>8. CASE h < position
  <2>1. h < Len(f)
    BY <1>2, <1>3, <1>8
  <2>2. /\ Len(run[q].loaded) = 2
        /\ known \in Seq(Characters)
        /\ f[h + 1].total = Len(known)
        /\ Len(f) <= h + 1 + Len(known)
        /\ \A i \in 1 .. (Len(f) - h - 1) : f[h + 1 + i].code = known[i]
    BY <1>4, <2>1 DEF known
  <2>3. /\ Len(known) \in Nat /\ DOMAIN known = 1 .. Len(known)
        /\ \A i \in 1 .. Len(known) : known[i] \in Characters
    BY <2>2, LenProperties, ElementOfSeq
  <2> DEFINE n == position - h - 1
  <2>4. n \in Nat /\ n <= Len(known) /\ n <= Len(f) - h - 1
    BY <1>2, <1>3, <1>8, <2>2, <2>3
  <2> HIDE DEF n
  <2>5. decoded = [i \in 1 .. n |-> [char |-> known[i]]]
    <3>1. \A i \in 1 .. n : f[h + 1 + i].code = known[i]
      BY <1>2, <1>3, <2>2, <2>4
    <3>2. decoded = [i \in 1 .. n |-> [char |-> f[h + 1 + i].code]]
      BY <1>5 DEF n
    <3> QED  BY <3>1, <3>2
  <2>6. TextFile(known) = [i \in 1 .. Len(known) |-> [char |-> known[i]]]
    BY <1>6, <2>3
  <2>7. \A i \in 1 .. Len(known) : [char |-> known[i]] \in TextToken
    BY <2>3 DEF TextToken
  <2>8. /\ decoded \in Seq(TextToken) /\ Len(decoded) = n
        /\ TextFile(known) \in Seq(TextToken) /\ Len(TextFile(known)) = Len(known)
    <3>1. \A i \in 1 .. n : [char |-> known[i]] \in TextToken
      BY <2>3, <2>4, <2>7
    <3> QED  BY <2>3, <2>4, <2>5, <2>6, <2>7, <3>1
  <2>9. \A i \in 1 .. n : decoded[i] = TextFile(known)[i]
    BY <2>3, <2>4, <2>5, <2>6
  <2>10. IsPrefix(decoded, TextFile(known))
    BY <2>4, <2>8, <2>9, IsPrefixElements
  <2>11. f[h + 1].total = position - h - 1 => decoded = TextFile(known)
    BY <2>2, <2>5, <2>6 DEF n
  <2> QED  BY <1>4, <2>2, <2>8, <2>10, <2>11 DEF f, h, position, decoded, known
<1> QED  BY <1>7, <1>8

-----------------------------------------------------------------------------
(* The output stream.                                                      *)

\* Every output consists of tokens.
LEMMA TokensAreTokens ==
  ASSUME NEW r \in Runs
  PROVE  Tokens(r) \subseteq Token
BY DEF Tokens, Token

\* What is known of the output of a run that has it open.
LEMMA OutputProperties ==
  ASSUME ToolInv, NEW r \in Runs, HasOutput(r)
  PROVE  /\ Running(r) /\ Exists(run[r].output)
         /\ Out(r) \in Seq(Tokens(r))
         /\ run[r].pending \in Seq(Tokens(r))
         /\ Sent(r) \in Seq(Tokens(r))
         /\ run[r].written = Len(Out(r))
         /\ IsPrefix(Out(r) \o run[r].pending, Sent(r))
         /\ run[r].operation = "compress" =>
              /\ run[r].loaded # <<>>
              /\ IsPrefix(Sent(r), FullFile(run[r].loaded))
         /\ run[r].operation # "compress" => Reads(r) /\ run[r].pc # "read_header"
<1>1. /\ run \in [Runs -> RunState] /\ RunInv(r) /\ run[r] \in RunState /\ FilesTyped
      /\ Running(r)
  BY DEF ToolInv, HasOutput, Running
<1>2. run[r].operation \in {"compress", "decompress"}
  BY <1>1 DEF RunState
<1>3. /\ Exists(run[r].output) /\ run[r].pending \in Seq(Tokens(r))
      /\ run[r].written = Len(Out(r))
      /\ IsPrefix(Out(r) \o run[r].pending, Sent(r))
  BY <1>1 DEF RunInv, OutputOf, KindsOf, StreamOf
<1>4. Out(r) \in Seq(Tokens(r))
  <2>1. CASE run[r].operation = "compress"
    <3>1. run[r].output \in CompressedPaths
      BY <1>1, <2>1 DEF RunInv, KindsOf
    <3> QED  BY <1>1, <1>3, <2>1, <3>1, FileProperties DEF Out, Tokens, Exists
  <2>2. CASE run[r].operation # "compress"
    <3>1. run[r].output \in TextPaths
      BY <1>1, <2>2 DEF RunInv, KindsOf
    <3> QED  BY <1>1, <1>3, <2>2, <3>1, FileProperties DEF Out, Tokens, Exists
  <2> QED  BY <2>1, <2>2
<1>5. CASE run[r].operation = "compress"
  <2>1. /\ run[r].pc \in {"header", "reload", "contents", "close"}
        /\ Len(run[r].loaded) \in {1, 2}
        /\ run[r].symbols = Coded(run[r].loaded[1])
        /\ run[r].outcome = "success" => Len(run[r].loaded) = 2
    BY <1>1, <1>5 DEF RunInv, PhaseOf, LoadedOf, HasOutput
  <2>2. run[r].loaded # <<>> /\ run[r].loaded \in Seq(Seq(Characters))
    <3>1. Len(<<>>) = 0
      OBVIOUS
    <3>2. run[r].loaded # <<>>
      BY <2>1, <3>1
    <3> QED  BY <1>1, <3>2 DEF RunState
  <2>3. /\ Header(run[r].symbols) \in Seq(CompressedToken)
        /\ FullFile(run[r].loaded) \in Seq(CompressedToken)
        /\ IsPrefix(Header(run[r].symbols), FullFile(run[r].loaded))
    BY <2>1, <2>2, FullFileType
  <2>4. /\ <<>> \in Seq(CompressedToken)
        /\ IsPrefix(<<>>, FullFile(run[r].loaded))
        /\ IsPrefix(FullFile(run[r].loaded), FullFile(run[r].loaded))
    BY <2>3, EmptySeq, EmptyIsPrefix, IsPrefixReflexive
  <2>5. Sent(r) \in Seq(CompressedToken) /\ IsPrefix(Sent(r), FullFile(run[r].loaded))
    BY <1>5, <2>3, <2>4 DEF Sent
  <2> QED  BY <1>1, <1>3, <1>4, <1>5, <2>2, <2>5 DEF Tokens
<1>6. CASE run[r].operation = "decompress"
  <2>1. Reads(r) /\ run[r].pc # "read_header"
    BY <1>1, <1>6 DEF RunInv, PhaseOf, HasOutput, Reads
  <2>2. Sent(r) \in Seq(TextToken)
    BY <1>6, <2>1, DecodedText DEF Sent
  <2> QED  BY <1>1, <1>3, <1>4, <1>6, <2>1, <2>2 DEF Tokens
<1> QED  BY <1>2, <1>5, <1>6

\* What has been flushed is a beginning of what was put into the stream.
LEMMA FlushedProperties ==
  ASSUME ToolInv, NEW r \in Runs, HasOutput(r),
         NEW n \in 0 .. Len(run[r].pending), files' = Flushed(r, n)
  PROVE  /\ Grows(r)
         /\ run[r].output \in DOMAIN files'
         /\ files'[run[r].output] \in Seq(Tokens(r))
         /\ Len(files'[run[r].output]) = run[r].written + n
         /\ SubSeq(run[r].pending, n + 1, Len(run[r].pending)) \in Seq(Tokens(r))
         /\ files'[run[r].output] \o SubSeq(run[r].pending, n + 1, Len(run[r].pending))
              = Out(r) \o run[r].pending
         /\ IsPrefix(files'[run[r].output], Sent(r))
         /\ n = Len(run[r].pending) =>
              files'[run[r].output] = Out(r) \o run[r].pending
<1> DEFINE S == Tokens(r)
           out == Out(r)
           pending == run[r].pending
           first == SubSeq(pending, 1, n)
           rest == SubSeq(pending, n + 1, Len(pending))
           content == out \o first
<1>1. /\ out \in Seq(S) /\ pending \in Seq(S) /\ Sent(r) \in Seq(S)
      /\ run[r].written = Len(out) /\ IsPrefix(out \o pending, Sent(r))
      /\ Exists(run[r].output)
  BY OutputProperties
<1>2. Len(pending) \in Nat /\ Len(out) \in Nat /\ n \in Nat
      /\ n \in 0 .. Len(pending)
      /\ \A i \in 1 .. Len(pending) : pending[i] \in S
  BY <1>1, LenProperties, ElementOfSeq
<1>3. files' = WithFile(run[r].output, Overlay(out, run[r].written, first))
  BY DEF Flushed, Out
<1> HIDE DEF S, out, pending
<1>4. first \in Seq(S) /\ Len(first) = n
  <2>1. \A i \in 1 .. n : pending[i] \in S
    BY <1>2
  <2>2. first \in Seq(S) /\ Len(first) = IF 1 <= n THEN n - 1 + 1 ELSE 0
    BY <1>2, <2>1, SubSeqProperties
  <2> QED  BY <1>2, <2>2
<1>5. rest \in Seq(S)
  <2>1. \A i \in n + 1 .. Len(pending) : pending[i] \in S
    BY <1>2
  <2> QED  BY <1>2, <2>1, SubSeqProperties
<1>6. first \o rest = pending
  <2>1. 1 \in 1 .. Len(pending) + 1 /\ n \in 1 - 1 .. Len(pending)
        /\ Len(pending) \in n .. Len(pending)
    BY <1>2
  <2>2. SubSeq(pending, 1, n) \o SubSeq(pending, n + 1, Len(pending))
          = SubSeq(pending, 1, Len(pending))
    BY <1>1, <2>1, ConcatAdjacentSubSeq
  <2> QED  BY <1>1, <2>2, SubSeqFull
<1> HIDE DEF first, rest
<1>7. files' = WithFile(run[r].output, content)
  BY <1>1, <1>3, <1>4, OverlayAtEnd
<1>8. content \in Seq(S) /\ Len(content) = run[r].written + n
      /\ IsPrefix(out, content)
  BY <1>1, <1>4, ConcatProperties, IsPrefixConcat
<1>9. content \o rest = out \o pending
  <2>1. (out \o first) \o rest = out \o (first \o rest)
    BY <1>1, <1>4, <1>5, ConcatAssociative
  <2> QED  BY <1>6, <2>1
<1>10. IsPrefix(content, Sent(r))
  <2>1. IsPrefix(content, content \o rest) /\ content \o rest \in Seq(S)
    BY <1>5, <1>8, IsPrefixConcat, ConcatProperties
  <2> HIDE DEF content
  <2> QED  BY <1>1, <1>8, <1>9, <2>1, IsPrefixTransitive
<1>11. n = Len(pending) => content = out \o pending
  BY <1>1, SubSeqFull DEF first
<1> HIDE DEF content
<1>12. files'[run[r].output] = content /\ run[r].output \in DOMAIN files'
  BY <1>7 DEF WithFile
<1>13. Grows(r)
  BY <1>7, <1>8 DEF Grows, S, out, Out
<1> QED  BY <1>5, <1>8, <1>9, <1>10, <1>11, <1>12, <1>13
         DEF S, out, pending, rest

\* A decompression does not write over its own input.
LEMMA OwnInputKept ==
  ASSUME ToolInv, NEW r \in Runs, Running(r), Grows(r), Reads(r)
  PROVE  /\ run[r].input \in DOMAIN files'
         /\ files'[run[r].input] = files[run[r].input]
<1>1. FilesTyped /\ KindsOf(r) /\ ReaderOf(r)
  BY DEF ToolInv, RunInv
<1>2. run[r].input # run[r].output /\ run[r].input \in DOMAIN files
  BY <1>1, KindsAssumption DEF KindsOf, ReaderOf, Reads, Exists
<1> QED  BY <1>1, <1>2, GrowsProperties

\* A part of what is pending reaches the file, and the rest stays or is lost.
LEMMA PartFlushedPreserves ==
  ASSUME ToolInv, NEW r \in Runs, HasOutput(r), run[r].bad = FALSE,
         NEW n \in 0 .. Len(run[r].pending), files' = Flushed(r, n),
         NEW rest, NEW bad \in BOOLEAN,
         bad = FALSE => rest = SubSeq(run[r].pending, n + 1, Len(run[r].pending)),
         bad = TRUE => rest = <<>>,
         run' = [run EXCEPT ![r].pending = rest,
                            ![r].written = run[r].written + n,
                            ![r].bad = bad]
  PROVE  ToolInv'
<1>1. /\ run \in [Runs -> RunState] /\ RunInv(r) /\ run[r] \in RunState /\ FilesTyped
      /\ run[r].operation \in {"compress", "decompress"} /\ run[r].written \in Nat
      /\ Len(run[r].pending) \in Nat /\ n \in Nat
  <2>1. run[r].pending \in Seq(Tokens(r))
    BY OutputProperties
  <2>2. Len(run[r].pending) \in Nat
    BY <2>1, LenProperties
  <2>3. run[r] \in RunState
    BY DEF ToolInv
  <2>4. /\ run[r].operation \in {"compress", "decompress"}
        /\ run[r].written \in Nat
    BY <2>3 DEF RunState
  <2> QED  BY <2>2, <2>3, <2>4 DEF ToolInv
<1>2. /\ Running(r) /\ Exists(run[r].output) /\ Sent(r) \in Seq(Tokens(r))
      /\ run[r].operation = "compress" =>
           /\ run[r].loaded # <<>>
           /\ IsPrefix(Sent(r), FullFile(run[r].loaded))
      /\ run[r].operation # "compress" => Reads(r) /\ run[r].pc # "read_header"
  BY OutputProperties
<1> DEFINE content == files'[run[r].output]
           remainder == SubSeq(run[r].pending, n + 1, Len(run[r].pending))
<1>3. /\ Grows(r) /\ run[r].output \in DOMAIN files'
      /\ content \in Seq(Tokens(r)) /\ Len(content) = run[r].written + n
      /\ remainder \in Seq(Tokens(r))
      /\ content \o remainder = Out(r) \o run[r].pending
      /\ IsPrefix(content, Sent(r))
  BY FlushedProperties
<1>4. rest \in Seq(Tokens(r)) /\ Tokens(r) \subseteq Token
  BY <1>3, EmptySeq DEF Tokens, Token
<1>5. /\ run'[r].pc = run[r].pc /\ SameArguments(r)
      /\ run'[r].loaded = run[r].loaded /\ run'[r].symbols = run[r].symbols
      /\ run'[r].position = run[r].position /\ run'[r].remaining = run[r].remaining
      /\ run'[r].outcome = run[r].outcome
      /\ run'[r].pending = rest /\ run'[r].written = run[r].written + n
  BY <1>1 DEF SameArguments
<1>6. run'[r].bad = bad
  BY <1>1
<1>7. Others(r)
  <2>1. rest \in Seq(Token) /\ run[r].written + n \in Nat
    BY <1>1, <1>4, SeqMonotonic
  <2>2. [run[r] EXCEPT !.pending = rest, !.written = run[r].written + n,
                       !.bad = bad] \in RunState
    BY <1>1, <2>1 DEF RunState
  <2>3. run' = [run EXCEPT ![r] =
                  [run[r] EXCEPT !.pending = rest, !.written = run[r].written + n,
                                 !.bad = bad]]
    OBVIOUS
  <2> QED  BY <1>1, <2>2, <2>3 DEF Others
<1>8. HasOutput(r)' /\ Sent(r)' = Sent(r)
  <2>1. CASE run[r].operation = "compress"
    BY <1>5, <2>1 DEF Sent, HasOutput, SameArguments
  <2>2. CASE run[r].operation = "decompress"
    <3>1. files'[run'[r].input] = files[run[r].input]
      BY <1>2, <1>3, <1>5, <2>2, OwnInputKept DEF SameArguments
    <3>2. HeaderLength(r)' = HeaderLength(r)
      BY <1>5 DEF HeaderLength
    <3> QED  BY <1>5, <2>2, <3>1, <3>2 DEF Sent, HasOutput, SameArguments
  <2> QED  BY <1>1, <2>1, <2>2
<1>9. RunInv(r)'
  <2>1. KindsOf(r)'
    BY <1>1, <1>4, <1>5 DEF RunInv, KindsOf, SameArguments, Tokens, Running
  <2>2. OutputOf(r)'
    BY <1>2, <1>3, <1>5 DEF OutputOf, SameArguments, HasOutput, Exists
  <2>3. PhaseOf(r)'
    BY <1>1, <1>5 DEF RunInv, PhaseOf, HasOutput, SameArguments
  <2>4. LoadedOf(r)'
    BY <1>1, <1>5 DEF RunInv, LoadedOf, SameArguments
  <2>5. ReaderOf(r)'
    <3>1. CASE run[r].operation = "compress"
      BY <1>5, <3>1 DEF ReaderOf, Reads, SameArguments
    <3>2. CASE run[r].operation = "decompress"
      <4>1. /\ run[r].input \in DOMAIN files'
            /\ files'[run[r].input] = files[run[r].input]
        BY <1>2, <1>3, <3>2, OwnInputKept
      <4>2. HeaderLength(r)' = HeaderLength(r)
        BY <1>5 DEF HeaderLength
      <4> QED  BY <1>1, <1>5, <4>1, <4>2
               DEF RunInv, ReaderOf, Reads, Exists, SameArguments
    <3> QED  BY <1>1, <3>1, <3>2
  <2>6. StreamOf(r)'
    <3>1. Out(r)' = content
      BY <1>5 DEF Out, SameArguments
    <3>2. CASE bad = FALSE
      <4>1. /\ IsPrefix(Out(r) \o run[r].pending, Sent(r))
            /\ run[r].outcome # "file_operation_error" =>
                 Out(r) \o run[r].pending = Sent(r)
        BY <1>1 DEF RunInv, StreamOf
      <4>2. content \o rest = Out(r) \o run[r].pending
        BY <1>3, <3>2
      <4> HIDE DEF content
      <4> QED  BY <1>3, <1>5, <1>6, <1>8, <3>1, <3>2, <4>1, <4>2 DEF StreamOf
    <3>3. CASE bad = TRUE
      <4>1. rest = <<>> /\ content \o <<>> = content
        BY <1>3, <3>3, ConcatEmptySeq
      <4> HIDE DEF content
      <4> QED  BY <1>3, <1>5, <1>6, <1>8, <3>1, <3>3, <4>1 DEF StreamOf
    <3> QED  BY <3>2, <3>3
  <2> QED  BY <2>1, <2>2, <2>3, <2>4, <2>5, <2>6 DEF RunInv
<1>10. run[r].operation = "compress" => HasWritten(r, run[r].output)'
  <2> SUFFICES ASSUME run[r].operation = "compress"
               PROVE  HasWritten(r, run[r].output)'
    OBVIOUS
  <2>1. FullFile(run[r].loaded) \in Seq(CompressedToken)
    BY <1>1, <1>2, FullFileType DEF RunState
  <2>2. IsPrefix(content, FullFile(run[r].loaded))
    <3>1. Tokens(r) = CompressedToken
      BY DEF Tokens
    <3> HIDE DEF content
    <3> QED  BY <1>2, <1>3, <2>1, <3>1, IsPrefixTransitive
  <2> QED  BY <1>2, <1>5, <2>2 DEF HasWritten, SameArguments
<1>11. Remembers(r)
  BY <1>1, <1>5, SameFullFile DEF Remembers, SameArguments
<1>12. \A q \in Runs \ {r} : Running(q) => run[q].output # run'[r].output
  BY <1>2, <1>5 DEF ToolInv, OutputsApart, SameArguments
<1> QED  BY <1>2, <1>3, <1>5, <1>7, <1>9, <1>10, <1>11, <1>12, StepPreserves
         DEF WritesOwn, SameArguments

\* Part of the buffer reaches the file.
LEMMA FlushPreserves ==
  ASSUME ToolInv, NEW r \in Runs, Flush(r)
  PROVE  ToolInv'
<1>1. HasOutput(r) /\ ~ run[r].bad
  BY DEF Flush
<1>2. PICK n \in 1 .. Len(run[r].pending) :
        /\ files' = Flushed(r, n)
        /\ run' = [run EXCEPT ![r].pending = SubSeq(@, n + 1, Len(@)),
                              ![r].written = @ + n]
  BY DEF Flush
<1>3. run[r].bad = FALSE /\ n \in 0 .. Len(run[r].pending)
  <2>1. run[r].bad \in BOOLEAN /\ run[r].pending \in Seq(Token)
    BY DEF ToolInv, RunState
  <2>2. Len(run[r].pending) \in Nat
    BY <2>1, LenProperties
  <2> QED  BY <1>1, <2>1, <2>2
<1>4. run' = [run EXCEPT ![r].pending = SubSeq(run[r].pending, n + 1,
                                               Len(run[r].pending)),
                         ![r].written = run[r].written + n,
                         ![r].bad = FALSE]
  BY <1>2, <1>3 DEF ToolInv, RunState
<1> QED  BY <1>1, <1>2, <1>3, <1>4, PartFlushedPreserves

\* Part of the buffer reaches the file and the rest is dropped.
LEMMA DiskFullPreserves ==
  ASSUME ToolInv, NEW r \in Runs, DiskFull(r)
  PROVE  ToolInv'
<1>1. HasOutput(r) /\ ~ run[r].bad
  BY DEF DiskFull
<1>2. PICK n \in 0 .. (Len(run[r].pending) - 1) :
        /\ files' = Flushed(r, n)
        /\ run' = [run EXCEPT ![r].pending = <<>>,
                              ![r].written = run[r].written + n,
                              ![r].bad = TRUE]
  BY DEF DiskFull
<1>3. run[r].bad = FALSE /\ n \in 0 .. Len(run[r].pending)
  <2>1. run[r].bad \in BOOLEAN /\ run[r].pending \in Seq(Token)
    BY DEF ToolInv, RunState
  <2>2. Len(run[r].pending) \in Nat
    BY <2>1, LenProperties
  <2> QED  BY <1>1, <2>1, <2>2
<1> QED  BY <1>1, <1>2, <1>3, PartFlushedPreserves

\* The rest of the buffer reaches the file and the run ends.
LEMMA ClosePreserves ==
  ASSUME ToolInv, NEW r \in Runs, Close(r)
  PROVE  ToolInv'
<1>1. /\ run \in [Runs -> RunState] /\ RunInv(r) /\ run[r] \in RunState
      /\ run[r].pc = "close" /\ HasOutput(r) /\ Running(r)
      /\ run[r].outcome \in {"success", "file_operation_error"}
  BY DEF ToolInv, RunInv, PhaseOf, Close, At, HasOutput, Running
<1> DEFINE how == run[r].outcome
<1>2. run' = [run EXCEPT ![r] = Ended(run[r], how)]
  BY DEF Close
<1>3. how \in Outcomes /\ how # "terminated"
  BY <1>1 DEF Outcomes
<1> HIDE DEF how
<1>4. EndsAs(run[r], Ended(run[r], how), how)
  BY <1>1, <1>3, EndedProperties
<1>5. run'[r] = Ended(run[r], how)
  BY <1>1, <1>2
<1>6. EndsAs(run[r], run'[r], how)
  BY <1>4, <1>5
<1>7. Others(r)
  BY <1>1, <1>2, <1>4 DEF Others, EndsAs
<1>8. RunInv(r)'
  BY <1>1, <1>3, <1>6, EndedInv
<1>9. Remembers(r) /\ ~ Running(r)' /\ run'[r].output = run[r].output
  BY <1>1, <1>6, SameFullFile DEF Remembers, Running, EndsAs
<1>10. UNCHANGED files
       \/ (Grows(r) /\ (run[r].operation = "compress" =>
                          HasWritten(r, run[r].output)'))
  <2>1. CASE run[r].bad
    BY <2>1 DEF Close
  <2>2. CASE ~ run[r].bad
    <3>1. files' = Flushed(r, Len(run[r].pending))
      BY <2>2 DEF Close
    <3>2. Len(run[r].pending) \in 0 .. Len(run[r].pending)
      <4>1. run[r].pending \in Seq(Token)
        BY <1>1 DEF RunState
      <4>2. Len(run[r].pending) \in Nat
        BY <4>1, LenProperties
      <4> QED  BY <4>2
    <3>3. /\ Grows(r)
          /\ files'[run[r].output] \in Seq(Tokens(r))
          /\ IsPrefix(files'[run[r].output], Sent(r))
      BY <1>1, <3>1, <3>2, FlushedProperties
    <3>4. run[r].operation = "compress" => HasWritten(r, run[r].output)'
      <4> SUFFICES ASSUME run[r].operation = "compress"
                   PROVE  HasWritten(r, run[r].output)'
        OBVIOUS
      <4>1. /\ run[r].loaded # <<>> /\ Sent(r) \in Seq(Tokens(r))
            /\ IsPrefix(Sent(r), FullFile(run[r].loaded))
            /\ Tokens(r) = CompressedToken
        BY <1>1, OutputProperties DEF Tokens
      <4>2. FullFile(run[r].loaded) \in Seq(CompressedToken)
        BY <1>1, <4>1, FullFileType DEF RunState
      <4>3. IsPrefix(files'[run[r].output], FullFile(run[r].loaded))
        BY <3>3, <4>1, <4>2, IsPrefixTransitive
      <4> QED  BY <1>6, <4>1, <4>3 DEF HasWritten, EndsAs
    <3> QED  BY <3>3, <3>4
  <2> QED  BY <2>1, <2>2
<1> QED  BY <1>1, <1>7, <1>8, <1>9, <1>10, StepPreserves DEF WritesOwn

\* A step of a run that has its output open and writes no file.
LEMMA WriterPreserves ==
  ASSUME ToolInv, NEW r \in Runs, HasOutput(r), UNCHANGED files,
         Others(r), SameArguments(r), HasOutput(r)',
         run'[r].pending \in Seq(Tokens(r)),
         PhaseOf(r)', LoadedOf(r)', StreamOf(r)', ReaderOf(r)',
         run[r].loaded # <<>> =>
           run'[r].loaded # <<>>
           /\ IsPrefix(FullFile(run[r].loaded), FullFile(run'[r].loaded))
  PROVE  ToolInv'
<1>1. RunInv(r) /\ Running(r)
  BY DEF ToolInv, HasOutput, Running
<1>2. KindsOf(r)'
  BY <1>1 DEF RunInv, KindsOf, SameArguments, Tokens
<1>3. OutputOf(r)'
  BY <1>1 DEF RunInv, OutputOf, HasOutput, SameArguments, Exists
<1>4. RunInv(r)'
  BY <1>2, <1>3 DEF RunInv
<1>5. QuietStep(r)
  BY DEF QuietStep, SameArguments
<1> QED  BY <1>1, <1>4, <1>5, QuietPreserves

\* Something is put into the stream.
LEMMA PutStream ==
  ASSUME ToolInv, NEW r \in Runs, HasOutput(r), UNCHANGED files, SameArguments(r),
         run[r].outcome # "file_operation_error",
         NEW data \in Seq(Tokens(r)),
         run[r].bad = FALSE => run'[r].pending = run[r].pending \o data,
         run[r].bad = TRUE => run'[r].pending = run[r].pending,
         run'[r].written = run[r].written,
         run'[r].bad = run[r].bad,
         Sent(r)' = Sent(r) \o data
  PROVE  StreamOf(r)' /\ run'[r].pending \in Seq(Tokens(r))
<1> DEFINE out == Out(r)
           pending == run[r].pending
           S == Tokens(r)
<1>1. /\ out \in Seq(S) /\ pending \in Seq(S) /\ Sent(r) \in Seq(S)
      /\ run[r].written = Len(out)
      /\ IsPrefix(out \o pending, Sent(r))
  BY OutputProperties
<1>2. /\ run[r].bad = TRUE => pending = <<>>
      /\ run[r].bad = FALSE => out \o pending = Sent(r)
      /\ run[r].bad \in BOOLEAN
  BY DEF ToolInv, RunInv, StreamOf, RunState
<1>3. Out(r)' = out
  BY DEF Out, SameArguments
<1> HIDE DEF out, pending, S
<1>4. CASE run[r].bad = FALSE
  <2>1. run'[r].pending = pending \o data
    BY <1>4 DEF pending
  <2>2. pending \o data \in Seq(S) /\ data \in Seq(S)
    BY <1>1, ConcatProperties DEF S
  <2>3. out \o (pending \o data) = (out \o pending) \o data
    <3>1. out \in Seq(S) /\ pending \in Seq(S) /\ data \in Seq(S)
      BY <1>1, <2>2
    <3> QED  BY <3>1, ConcatAssociative
  <2>4. out \o (pending \o data) = Sent(r) \o data
    BY <1>2, <1>4, <2>3
  <2>5. out \o (pending \o data) \in Seq(S)
    BY <1>1, <2>2, ConcatProperties
  <2>6. IsPrefix(out \o (pending \o data), out \o (pending \o data))
    BY <2>5, IsPrefixReflexive
  <2> QED  BY <1>1, <1>3, <1>4, <2>1, <2>2, <2>4, <2>6 DEF StreamOf, S
<1>5. CASE run[r].bad = TRUE
  <2>1. run'[r].pending = <<>> /\ pending = <<>>
    BY <1>2, <1>5 DEF pending
  <2>2. IsPrefix(out \o <<>>, Sent(r) \o data)
    <3>1. /\ out \o <<>> \in Seq(S) /\ Sent(r) \o data \in Seq(S)
          /\ IsPrefix(Sent(r), Sent(r) \o data)
      BY <1>1, <2>1, ConcatProperties, IsPrefixConcat DEF S
    <3>2. IsPrefix(out \o <<>>, Sent(r))
      BY <1>1, <2>1
    <3> QED  BY <1>1, <3>1, <3>2, IsPrefixTransitive
  <2> QED  BY <1>1, <1>3, <1>5, <2>1, <2>2, EmptySeq DEF StreamOf, S
<1> QED  BY <1>2, <1>4, <1>5

\* Nothing is put into the stream, and when the call fails some of what is
\* pending may be dropped.
LEMMA KeepStream ==
  ASSUME ToolInv, NEW r \in Runs, HasOutput(r), UNCHANGED files, SameArguments(r),
         run[r].outcome # "file_operation_error",
         NEW n \in 0 .. Len(run[r].pending),
         run'[r].pending = SubSeq(run[r].pending, 1, n),
         n # Len(run[r].pending) => run'[r].outcome = "file_operation_error",
         run'[r].written = run[r].written,
         run'[r].bad = run[r].bad,
         Sent(r)' = Sent(r)
  PROVE  StreamOf(r)' /\ run'[r].pending \in Seq(Tokens(r))
<1> DEFINE out == Out(r)
           pending == run[r].pending
           first == SubSeq(pending, 1, n)
           S == Tokens(r)
<1>1. /\ out \in Seq(S) /\ pending \in Seq(S) /\ Sent(r) \in Seq(S)
      /\ run[r].written = Len(out)
      /\ IsPrefix(out \o pending, Sent(r))
  BY OutputProperties
<1>2. /\ run[r].bad = TRUE => pending = <<>>
      /\ run[r].bad = FALSE => out \o pending = Sent(r)
      /\ run[r].bad \in BOOLEAN
  BY DEF ToolInv, RunInv, StreamOf, RunState
<1>3. Out(r)' = out
  BY DEF Out, SameArguments
<1>4. run'[r].pending = first /\ n \in 0 .. Len(pending)
  OBVIOUS
<1>5. n = Len(pending) \/ run'[r].outcome = "file_operation_error"
  OBVIOUS
<1> HIDE DEF out, pending, S
<1>6. Len(pending) \in Nat /\ \A i \in 1 .. Len(pending) : pending[i] \in S
  BY <1>1, LenProperties, ElementOfSeq
<1>7. first \in Seq(S) /\ SubSeq(pending, n + 1, Len(pending)) \in Seq(S)
  <2>1. \A i \in 1 .. n : pending[i] \in S
    BY <1>4, <1>6
  <2>2. \A i \in n + 1 .. Len(pending) : pending[i] \in S
    BY <1>4, <1>6
  <2> QED  BY <1>4, <1>6, <2>1, <2>2, SubSeqProperties
<1>8. n = Len(pending) => first = pending
  BY <1>1, SubSeqFull
<1>9. IsPrefix(out \o first, Sent(r))
  <2> DEFINE rest == SubSeq(pending, n + 1, Len(pending))
  <2>1. first \o rest = pending
    <3>1. 1 \in 1 .. Len(pending) + 1 /\ n \in 1 - 1 .. Len(pending)
          /\ Len(pending) \in n .. Len(pending)
      BY <1>4, <1>6
    <3>2. SubSeq(pending, 1, n) \o SubSeq(pending, n + 1, Len(pending))
            = SubSeq(pending, 1, Len(pending))
      BY <1>1, <3>1, ConcatAdjacentSubSeq
    <3> QED  BY <1>1, <3>2, SubSeqFull
  <2> HIDE DEF first, rest
  <2>2. (out \o first) \o rest = out \o (first \o rest)
    <3>1. out \in Seq(S) /\ first \in Seq(S) /\ rest \in Seq(S)
      BY <1>1, <1>7 DEF rest
    <3> QED  BY <3>1, ConcatAssociative
  <2>3. out \o first \in Seq(S) /\ out \o pending \in Seq(S)
    BY <1>1, <1>7, ConcatProperties
  <2>4. IsPrefix(out \o first, (out \o first) \o rest)
    BY <1>7, <2>3, IsPrefixConcat DEF rest
  <2>5. IsPrefix(out \o first, out \o pending)
    BY <2>1, <2>2, <2>4
  <2> QED  BY <1>1, <2>3, <2>5, IsPrefixTransitive
<1>10. pending = <<>> => first = <<>>
  <2> SUFFICES ASSUME pending = <<>> PROVE first = <<>>
    OBVIOUS
  <2>1. Len(pending) = 0
    BY EmptySeq
  <2> QED  BY <1>4, <1>8, <2>1
<1> HIDE DEF first
<1> QED  BY <1>1, <1>2, <1>3, <1>4, <1>5, <1>7, <1>8, <1>9, <1>10 DEF StreamOf, S

\* The header is the first that is put into the stream.
LEMMA WriteHeaderPreserves ==
  ASSUME ToolInv, NEW r \in Runs, WriteHeader(r)
  PROVE  ToolInv'
<1> DEFINE data == Header(run[r].symbols)
           pending == IF run[r].bad THEN run[r].pending ELSE run[r].pending \o data
<1>1. /\ run \in [Runs -> RunState] /\ RunInv(r) /\ run[r] \in RunState
      /\ run[r].pc = "header" /\ HasOutput(r)
  BY DEF ToolInv, WriteHeader, At, HasOutput
<1>2. run[r].operation = "compress" /\ run[r].outcome = "none"
  BY <1>1 DEF RunInv, PhaseOf
<1>3. data \in Seq(CompressedToken) /\ Tokens(r) = CompressedToken
  BY <1>1, <1>2, HeaderLengthType DEF Tokens
<1>4. /\ run' = [run EXCEPT ![r] = [run[r] EXCEPT !.pending = pending,
                                                  !.pc = "reload"]]
      /\ UNCHANGED files
  BY <1>1 DEF WriteHeader, Put
<1>5. pending \in Seq(Token)
  <2>1. run[r].pending \in Seq(Tokens(r))
    BY <1>1, OutputProperties
  <2>2. run[r].pending \o data \in Seq(Tokens(r))
    BY <1>3, <2>1, ConcatProperties
  <2>3. Tokens(r) \subseteq Token
    BY DEF Tokens, Token
  <2> QED  BY <2>1, <2>2, <2>3, SeqMonotonic
<1>6. /\ run[r].bad = FALSE => pending = run[r].pending \o data
      /\ run[r].bad = TRUE => pending = run[r].pending
  OBVIOUS
<1> HIDE DEF pending, data
<1>7. /\ run'[r].pc = "reload" /\ SameArguments(r)
      /\ run'[r].loaded = run[r].loaded /\ run'[r].symbols = run[r].symbols
      /\ run'[r].outcome = "none"
      /\ run'[r].pending = pending /\ run'[r].written = run[r].written
  BY <1>1, <1>2, <1>4 DEF SameArguments
<1>8. run'[r].bad = run[r].bad
  BY <1>1, <1>4
<1>9. Others(r)
  <2>1. [run[r] EXCEPT !.pending = pending, !.pc = "reload"] \in RunState
    BY <1>1, <1>5 DEF RunState
  <2> QED  BY <1>1, <1>4, <2>1 DEF Others
<1>10. Sent(r)' = Sent(r) \o data
  <2>1. Sent(r)' = data
    BY <1>2, <1>7 DEF Sent, SameArguments, data
  <2>2. Sent(r) = <<>>
    BY <1>1, <1>2 DEF Sent
  <2> QED  BY <1>3, <2>1, <2>2, ConcatEmptySeq
<1>11. StreamOf(r)' /\ run'[r].pending \in Seq(Tokens(r))
  BY <1>1, <1>2, <1>3, <1>4, <1>6, <1>7, <1>8, <1>10, PutStream
<1>12. PhaseOf(r)' /\ HasOutput(r)'
  BY <1>2, <1>7 DEF PhaseOf, HasOutput, SameArguments
<1>13. LoadedOf(r)'
  BY <1>1, <1>2, <1>7 DEF RunInv, LoadedOf, SameArguments
<1>14. ReaderOf(r)'
  BY <1>2, <1>7 DEF ReaderOf, Reads, SameArguments
<1> QED  BY <1>1, <1>4, <1>7, <1>9, <1>11, <1>12, <1>13, <1>14,
            WriterPreserves, SameFullFile

\* The call that has the output open returns or throws, and nothing is lost.
LEMMA UnwindPreserves ==
  ASSUME ToolInv, NEW r \in Runs, HasOutput(r), run[r].pc # "close",
         NEW how \in {"success", "file_operation_error"}, Unwind(r, how),
         Sent(r)' = Sent(r), LoadedOf(r)', ReaderOf(r)'
  PROVE  ToolInv'
<1>1. /\ run \in [Runs -> RunState] /\ RunInv(r) /\ run[r] \in RunState
      /\ run[r].outcome = "none" /\ run[r].pending \in Seq(Token)
  BY DEF ToolInv, RunInv, PhaseOf, HasOutput, RunState
<1>2. /\ run' = [run EXCEPT ![r].pc = "close", ![r].outcome = how]
      /\ UNCHANGED files
  BY DEF Unwind
<1>3. /\ run'[r].pc = "close" /\ SameArguments(r)
      /\ run'[r].loaded = run[r].loaded
      /\ run'[r].outcome = how
      /\ run'[r].pending = run[r].pending /\ run'[r].written = run[r].written
  BY <1>1, <1>2 DEF SameArguments
<1>4. run'[r].bad = run[r].bad
  BY <1>1, <1>2
<1>5. Others(r)
  <2>1. [run[r] EXCEPT !.pc = "close", !.outcome = how] \in RunState
    BY <1>1 DEF RunState, Outcomes
  <2>2. run' = [run EXCEPT ![r] = [run[r] EXCEPT !.pc = "close", !.outcome = how]]
    BY <1>2
  <2> QED  BY <1>1, <2>1, <2>2 DEF Others
<1>6. StreamOf(r)' /\ run'[r].pending \in Seq(Tokens(r))
  <2>1. /\ Len(run[r].pending) \in 0 .. Len(run[r].pending)
        /\ run[r].pending = SubSeq(run[r].pending, 1, Len(run[r].pending))
    <3>1. Len(run[r].pending) \in Nat
      BY <1>1, LenProperties
    <3> QED  BY <1>1, <3>1, SubSeqFull
  <2> QED  BY <1>1, <1>2, <1>3, <1>4, <2>1, KeepStream
<1>7. PhaseOf(r)' /\ HasOutput(r)'
  BY <1>3 DEF PhaseOf, HasOutput
<1> QED  BY <1>1, <1>2, <1>3, <1>5, <1>6, <1>7, WriterPreserves, SameFullFile

\* A second text is loaded, or the run fails with the header alone written.
LEMMA ReloadPreserves ==
  ASSUME ToolInv, NEW r \in Runs, Reload(r)
  PROVE  ToolInv'
<1> DEFINE text == TextAt(run[r].input)
           loaded == run[r].loaded
           more == Append(loaded, text)
<1>1. /\ run \in [Runs -> RunState] /\ RunInv(r) /\ run[r] \in RunState /\ FilesTyped
      /\ run[r].pc = "reload" /\ HasOutput(r) /\ Running(r)
  BY DEF ToolInv, Reload, At, HasOutput, Running
<1>2. /\ run[r].operation = "compress" /\ run[r].outcome = "none"
      /\ run[r].input \in TextPaths
  BY <1>1 DEF RunInv, PhaseOf, KindsOf
<1>3. /\ Len(loaded) = 1 /\ run[r].symbols = Coded(loaded[1]) /\ Valid(loaded[1])
      /\ loaded # <<>> /\ loaded \in Seq(Seq(Characters))
      /\ run[r].pending \in Seq(Token)
  <2>1. Len(loaded) = 1 /\ run[r].symbols = Coded(loaded[1])
    BY <1>1, <1>2 DEF RunInv, LoadedOf
  <2>2. Len(<<>>) = 0
    OBVIOUS
  <2>3. loaded # <<>>
    BY <2>1, <2>2
  <2>4. Valid(loaded[1])
    BY <1>1, <2>3 DEF RunInv, LoadedOf
  <2> QED  BY <1>1, <2>1, <2>3, <2>4 DEF RunState
<1>4. CASE Exists(run[r].input)
  <2>1. /\ run' = [run EXCEPT ![r].loaded = more, ![r].pc = "contents"]
        /\ UNCHANGED files
    BY <1>4 DEF Reload
  <2>2. text \in Seq(Characters)
    BY <1>1, <1>2, <1>4, TextAtType
  <2>3. /\ more \in Seq(Seq(Characters)) /\ Len(more) = 2 /\ more # <<>>
        /\ more[1] = loaded[1]
    <3> HIDE DEF text, loaded
    <3>1. /\ loaded \in Seq(Seq(Characters)) /\ Len(loaded) = 1
          /\ 1 \in 1 .. Len(loaded)
      BY <1>3
    <3>2. /\ more \in Seq(Seq(Characters)) /\ Len(more) = Len(loaded) + 1
          /\ more # <<>> /\ \A i \in 1 .. Len(loaded) : more[i] = loaded[i]
      BY <2>2, <3>1, AppendProperties
    <3> QED  BY <3>1, <3>2
  <2> HIDE DEF more
  <2>4. /\ run'[r].pc = "contents" /\ SameArguments(r)
        /\ run'[r].loaded = more /\ run'[r].symbols = run[r].symbols
        /\ run'[r].outcome = "none"
        /\ run'[r].pending = run[r].pending /\ run'[r].written = run[r].written
    BY <1>1, <1>2, <2>1 DEF SameArguments
  <2>5. run'[r].bad = run[r].bad
    BY <1>1, <2>1
  <2>6. Others(r)
    <3>1. [run[r] EXCEPT !.loaded = more, !.pc = "contents"] \in RunState
      BY <1>1, <2>3 DEF RunState
    <3>2. run' = [run EXCEPT ![r] =
                    [run[r] EXCEPT !.loaded = more, !.pc = "contents"]]
      BY <2>1
    <3> QED  BY <1>1, <3>1, <3>2 DEF Others
  <2>7. Sent(r)' = Sent(r)
    BY <1>1, <1>2, <2>4 DEF Sent, SameArguments
  <2>8. StreamOf(r)' /\ run'[r].pending \in Seq(Tokens(r))
    <3>1. /\ Len(run[r].pending) \in 0 .. Len(run[r].pending)
          /\ run[r].pending = SubSeq(run[r].pending, 1, Len(run[r].pending))
      <4>1. Len(run[r].pending) \in Nat
        BY <1>3, LenProperties
      <4> QED  BY <1>3, <4>1, SubSeqFull
    <3> QED  BY <1>1, <1>2, <2>1, <2>4, <2>5, <2>7, <3>1, KeepStream
  <2>9. PhaseOf(r)' /\ HasOutput(r)'
    BY <1>2, <2>4 DEF PhaseOf, HasOutput, SameArguments
  <2>10. LoadedOf(r)'
    <3>1. /\ Len(run'[r].loaded) = 2
          /\ run'[r].symbols = Coded(run'[r].loaded[1])
          /\ Valid(run'[r].loaded[1])
      BY <1>3, <2>3, <2>4
    <3> QED  BY <1>2, <2>4, <3>1 DEF LoadedOf, SameArguments
  <2>11. ReaderOf(r)'
    BY <1>2, <2>4 DEF ReaderOf, Reads, SameArguments
  <2>12. IsPrefix(FullFile(loaded), FullFile(more))
    <3>1. FullFile(loaded) = Header(Coded(more[1]))
      BY <1>3, <2>3 DEF FullFile
    <3> QED  BY <2>3, <3>1, FullFileType
  <2> QED  BY <1>1, <2>1, <2>3, <2>4, <2>6, <2>8, <2>9, <2>10, <2>11, <2>12,
              WriterPreserves
<1>5. CASE ~ Exists(run[r].input)
  <2>1. Unwind(r, "file_operation_error")
    BY <1>5 DEF Reload
  <2>2. /\ run'[r].pc = "close" /\ SameArguments(r)
        /\ run'[r].loaded = loaded /\ run'[r].symbols = run[r].symbols
        /\ run'[r].outcome = "file_operation_error"
    BY <1>1, <2>1 DEF Unwind, SameArguments
  <2> HIDE DEF loaded
  <2>3. Sent(r)' = Sent(r)
    BY <1>1, <1>2, <2>2 DEF Sent, SameArguments
  <2>4. LoadedOf(r)'
    <3>1. /\ Len(run'[r].loaded) = 1
          /\ run'[r].symbols = Coded(run'[r].loaded[1])
          /\ Valid(run'[r].loaded[1])
      BY <1>3, <2>2
    <3> QED  BY <1>2, <2>2, <3>1 DEF LoadedOf, SameArguments
  <2>5. ReaderOf(r)'
    BY <1>2, <2>2 DEF ReaderOf, Reads, SameArguments
  <2> QED  BY <1>1, <2>1, <2>3, <2>4, <2>5, UnwindPreserves
<1> QED  BY <1>4, <1>5

\* The contents complete the file, or the run is terminated.
LEMMA WriteFileContentsPreserves ==
  ASSUME ToolInv, NEW r \in Runs, WriteFileContents(r)
  PROVE  ToolInv'
<1> DEFINE loaded == run[r].loaded
           data == Contents(loaded[2], run[r].symbols)
           pending == IF run[r].bad THEN run[r].pending ELSE run[r].pending \o data
<1>1. /\ run \in [Runs -> RunState] /\ RunInv(r) /\ run[r] \in RunState
      /\ run[r].pc = "contents" /\ HasOutput(r) /\ Running(r)
  BY DEF ToolInv, WriteFileContents, At, HasOutput, Running
<1>2. run[r].operation = "compress" /\ run[r].outcome = "none"
  BY <1>1 DEF RunInv, PhaseOf
<1>3. /\ Len(loaded) = 2 /\ run[r].symbols = Coded(loaded[1])
      /\ loaded \in Seq(Seq(Characters)) /\ loaded[2] \in Seq(Characters)
  <2>1. /\ Len(loaded) = 2 /\ run[r].symbols = Coded(loaded[1])
        /\ loaded \in Seq(Seq(Characters))
    BY <1>1, <1>2 DEF RunInv, LoadedOf, RunState
  <2>2. 2 \in 1 .. Len(loaded)
    BY <2>1
  <2> HIDE DEF loaded
  <2> QED  BY <2>1, <2>2, ElementOfSeq
<1>4. CASE Valid(loaded[2])
  <2>1. data \in Seq(CompressedToken) /\ Tokens(r) = CompressedToken
    BY <1>2, <1>3, ContentsProperties DEF Tokens
  <2>2. /\ run' = [run EXCEPT ![r] =
                     [run[r] EXCEPT !.pending = pending, !.pc = "close",
                                    !.outcome = "success"]]
        /\ UNCHANGED files
    BY <1>1, <1>4 DEF WriteFileContents, Put
  <2>3. pending \in Seq(Token)
    <3>1. run[r].pending \in Seq(Tokens(r))
      BY <1>1, OutputProperties
    <3>2. run[r].pending \o data \in Seq(Tokens(r))
      BY <2>1, <3>1, ConcatProperties
    <3>3. Tokens(r) \subseteq Token
      BY DEF Tokens, Token
    <3> QED  BY <3>1, <3>2, <3>3, SeqMonotonic
  <2>4. /\ run[r].bad = FALSE => pending = run[r].pending \o data
        /\ run[r].bad = TRUE => pending = run[r].pending
    OBVIOUS
  <2> HIDE DEF pending, data
  <2>5. /\ run'[r].pc = "close" /\ SameArguments(r)
        /\ run'[r].loaded = loaded /\ run'[r].symbols = run[r].symbols
        /\ run'[r].outcome = "success"
        /\ run'[r].pending = pending /\ run'[r].written = run[r].written
    BY <1>1, <2>2 DEF SameArguments
  <2>6. run'[r].bad = run[r].bad
    BY <1>1, <2>2
  <2>7. Others(r)
    <3>1. [run[r] EXCEPT !.pending = pending, !.pc = "close",
                         !.outcome = "success"] \in RunState
      BY <1>1, <2>3 DEF RunState, Outcomes
    <3> QED  BY <1>1, <2>2, <3>1 DEF Others
  <2>8. Sent(r)' = Sent(r) \o data
    <3>1. Sent(r)' = FullFile(loaded)
      BY <1>2, <2>5 DEF Sent, SameArguments
    <3>2. Sent(r) = Header(run[r].symbols)
      BY <1>1, <1>2 DEF Sent
    <3> QED  BY <1>3, <3>1, <3>2 DEF FullFile, data
  <2>9. StreamOf(r)' /\ run'[r].pending \in Seq(Tokens(r))
    BY <1>1, <1>2, <2>1, <2>2, <2>4, <2>5, <2>6, <2>8, PutStream
  <2>10. PhaseOf(r)' /\ HasOutput(r)'
    BY <2>5 DEF PhaseOf, HasOutput
  <2>11. LoadedOf(r)'
    BY <1>1, <1>2, <1>3, <2>5 DEF RunInv, LoadedOf, SameArguments
  <2>12. ReaderOf(r)'
    BY <1>2, <2>5 DEF ReaderOf, Reads, SameArguments
  <2> QED  BY <1>1, <2>2, <2>5, <2>7, <2>9, <2>10, <2>11, <2>12,
              WriterPreserves, SameFullFile
<1>5. CASE ~ Valid(loaded[2])
  <2>1. Exit(r, "terminated") /\ "terminated" \in Outcomes
    BY <1>5 DEF WriteFileContents, Outcomes
  <2> QED  BY <1>1, <1>3, <1>5, <2>1, ExitPreserves
<1> QED  BY <1>4, <1>5

\* Where a decompression reads on.
LEMMA ReadingProperties ==
  ASSUME ToolInv, NEW r \in Runs, run[r].pc \in {"total", "decode"}
  PROVE  /\ HasOutput(r) /\ Running(r) /\ Reads(r)
         /\ run[r].operation = "decompress" /\ run[r].outcome = "none"
         /\ run[r].pc # "close" /\ run[r].pc # "read_header"
         /\ run[r].loaded = <<>>
         /\ HeaderLength(r) \in Nat /\ run[r].position \in Nat
         /\ run[r].remaining \in Nat
         /\ HeaderLength(r) <= run[r].position
         /\ files[run[r].input] \in Seq(CompressedToken)
         /\ Len(files[run[r].input]) \in Nat
         /\ run[r].position <= Len(files[run[r].input])
         /\ Exists(run[r].input)
         /\ IsPrefix(Header(run[r].symbols), files[run[r].input])
         /\ Unread(r) # <<>> =>
              /\ run[r].position < Len(files[run[r].input])
              /\ Head(Unread(r)) = files[run[r].input][run[r].position + 1]
<1> DEFINE f == files[run[r].input]
           position == run[r].position
<1>1. /\ run \in [Runs -> RunState] /\ RunInv(r) /\ run[r] \in RunState /\ FilesTyped
      /\ HasOutput(r) /\ Running(r)
  BY DEF ToolInv, HasOutput, Running
<1>2. /\ run[r].operation = "decompress" /\ run[r].outcome = "none"
      /\ Reads(r) /\ run[r].loaded = <<>>
  BY <1>1 DEF RunInv, PhaseOf, LoadedOf, Reads
<1>3. /\ HeaderLength(r) \in Nat /\ position \in Nat
      /\ run[r].remaining \in Nat
      /\ HeaderLength(r) <= position
      /\ position <= Len(f) /\ Exists(run[r].input)
      /\ IsPrefix(Header(run[r].symbols), f)
  BY <1>1, <1>2, HeaderLengthType DEF RunInv, ReaderOf, RunState
<1>4. f \in Seq(CompressedToken) /\ Len(f) \in Nat
  BY <1>1, <1>2, <1>3, FileProperties, LenProperties DEF RunInv, KindsOf, Exists
<1>5. ASSUME Unread(r) # <<>>
      PROVE  position < Len(f) /\ Head(Unread(r)) = f[position + 1]
  <2>1. Unread(r) = SubSeq(f, position + 1, Len(f))
    BY DEF Unread
  <2> HIDE DEF f, position
  <2>2. position < Len(f)
    <3> SUFFICES ASSUME ~ (position < Len(f)) PROVE FALSE
      OBVIOUS
    <3>1. Len(f) < position + 1 /\ position + 1 \in Int /\ Len(f) \in Int
      BY <1>3, <1>4
    <3>2. SubSeq(f, position + 1, Len(f)) = <<>>
      BY <3>1, SubSeqEmpty
    <3> QED  BY <1>5, <2>1, <3>2
  <2>3. position + 1 \in 1 .. Len(f) /\ Len(f) \in position + 1 .. Len(f)
    BY <1>3, <1>4, <2>2
  <2> QED  BY <1>4, <2>1, <2>2, <2>3, HeadTailOfSubSeq
<1> QED  BY <1>1, <1>2, <1>3, <1>4, <1>5

\* The number of codes is the one that the compression has written.
LEMMA ReadTotalPreserves ==
  ASSUME ToolInv, NEW r \in Runs, ReadTotal(r)
  PROVE  ToolInv'
<1> DEFINE f == files[run[r].input]
           h == HeaderLength(r)
           total == Head(Unread(r)).total
<1>1. /\ run \in [Runs -> RunState] /\ RunInv(r) /\ run[r] \in RunState
      /\ run[r].pc = "total"
  BY DEF ToolInv, ReadTotal, At
<1>2. /\ HasOutput(r) /\ Running(r) /\ Reads(r)
      /\ run[r].operation = "decompress" /\ run[r].outcome = "none"
      /\ run[r].loaded = <<>>
      /\ h \in Nat /\ f \in Seq(CompressedToken) /\ Len(f) \in Nat
      /\ Exists(run[r].input) /\ IsPrefix(Header(run[r].symbols), f)
      /\ h <= Len(f) /\ run[r].position = h
      /\ Unread(r) # <<>> => h < Len(f) /\ total = f[h + 1].total
  <2>1. run[r].position = h
    BY <1>1, ReadingProperties DEF RunInv, ReaderOf
  <2> QED  BY <1>1, <2>1, ReadingProperties
<1>3. CASE Unread(r) = <<>>
  <2>1. Unwind(r, "file_operation_error")
    BY <1>3 DEF ReadTotal
  <2>2. /\ run'[r].pc = "close" /\ SameArguments(r)
        /\ run'[r].loaded = <<>> /\ run'[r].symbols = run[r].symbols
        /\ run'[r].position = run[r].position
        /\ run'[r].outcome = "file_operation_error" /\ UNCHANGED files
    BY <1>1, <1>2, <2>1 DEF Unwind, SameArguments
  <2>3. HeaderLength(r)' = HeaderLength(r)
    BY <2>2 DEF HeaderLength
  <2>4. Sent(r)' = Sent(r)
    BY <1>2, <2>2, <2>3 DEF Sent, SameArguments
  <2>5. LoadedOf(r)'
    BY <1>2, <2>2, EmptySeq DEF LoadedOf, SameArguments
  <2>6. ReaderOf(r)'
    BY <1>2, <2>2, <2>3 DEF ReaderOf, SameArguments, Exists
  <2> QED  BY <1>1, <1>2, <2>1, <2>4, <2>5, <2>6, UnwindPreserves
<1>4. CASE Unread(r) # <<>>
  <2>1. /\ run' = [run EXCEPT ![r].remaining = total,
                              ![r].position = run[r].position + 1,
                              ![r].pc = "decode"]
        /\ UNCHANGED files
    BY <1>4 DEF ReadTotal
  <2>2. total \in Nat
    <3>1. PICK q \in Runs :
            /\ Encoded(run[q].loaded) \in Seq(Characters)
            /\ f[h + 1].total = Len(Encoded(run[q].loaded))
      BY <1>1, <1>2, <1>4, ReaderSource
    <3>2. Len(Encoded(run[q].loaded)) \in Nat
      BY <3>1, LenProperties
    <3> QED  BY <1>2, <1>4, <3>1, <3>2
  <2>3. h < Len(f) /\ f[h + 1].total = total
    BY <1>2, <1>4
  <2> HIDE DEF f, h, total
  <2>4. /\ run'[r].pc = "decode" /\ SameArguments(r)
        /\ run'[r].loaded = <<>> /\ run'[r].symbols = run[r].symbols
        /\ run'[r].position = h + 1 /\ run'[r].remaining = total
        /\ run'[r].outcome = "none"
        /\ run'[r].pending = run[r].pending /\ run'[r].written = run[r].written
    BY <1>1, <1>2, <2>1 DEF SameArguments
  <2>5. run'[r].bad = run[r].bad
    BY <1>1, <2>1
  <2>6. Others(r)
    <3>1. [run[r] EXCEPT !.remaining = total, !.position = h + 1,
                         !.pc = "decode"] \in RunState
      <4>1. h + 1 \in Nat
        BY <1>2 DEF h
      <4> QED  BY <1>1, <2>2, <4>1 DEF RunState
    <3>2. run' = [run EXCEPT ![r] =
                    [run[r] EXCEPT !.remaining = total,
                                   !.position = h + 1,
                                   !.pc = "decode"]]
      BY <1>2, <2>1 DEF h
    <3> QED  BY <1>1, <3>1, <3>2 DEF Others
  <2>7. HeaderLength(r)' = h /\ files'[run'[r].input] = f
    BY <2>1, <2>4 DEF HeaderLength, SameArguments, f, h
  <2>8. Sent(r)' = Sent(r)
    <3>1. 1 .. (h + 1 - h - 1) = {} /\ 1 .. (h - h - 1) = {}
      BY <1>2
    <3>2. Sent(r)' = <<>>
      BY <1>2, <2>4, <2>7, <3>1 DEF Sent, DecodedUpTo, SameArguments
    <3>3. Sent(r) = <<>>
      <4>1. Sent(r) = DecodedUpTo(f, h, h)
        BY <1>2 DEF Sent, f, h
      <4> QED  BY <3>1, <4>1 DEF DecodedUpTo
    <3> QED  BY <3>2, <3>3
  <2>9. StreamOf(r)' /\ run'[r].pending \in Seq(Tokens(r))
    <3>1. /\ Len(run[r].pending) \in 0 .. Len(run[r].pending)
          /\ run[r].pending = SubSeq(run[r].pending, 1, Len(run[r].pending))
      <4>1. run[r].pending \in Seq(Token)
        BY <1>1 DEF RunState
      <4>2. Len(run[r].pending) \in Nat
        BY <4>1, LenProperties
      <4> QED  BY <4>1, <4>2, SubSeqFull
    <3> QED  BY <1>2, <2>1, <2>4, <2>5, <2>8, <3>1, KeepStream
  <2>10. PhaseOf(r)' /\ HasOutput(r)'
    BY <1>2, <2>4 DEF PhaseOf, HasOutput, SameArguments
  <2>11. LoadedOf(r)'
    BY <1>2, <2>4, EmptySeq DEF LoadedOf, SameArguments
  <2>12. ReaderOf(r)'
    <3>1. run'[r].input \in DOMAIN files'
      BY <1>2, <2>1, <2>4 DEF SameArguments, Exists
    <3>2. total = total + (h + 1 - h - 1) /\ h <= h + 1 /\ h < h + 1 /\ h + 1 <= Len(f)
      BY <1>2, <2>2, <2>3 DEF f
    <3>3. IsPrefix(Header(run[r].symbols), f)
      BY <1>2 DEF f
    <3>4. f[h + 1].total = run'[r].remaining + (run'[r].position - h - 1)
      <4>1. run'[r].remaining = total /\ run'[r].position = h + 1
        BY <2>4
      <4>2. h \in Nat /\ total \in Nat /\ f[h + 1].total = total
        BY <1>2, <2>2, <2>3 DEF h
      <4> QED  BY <4>1, <4>2
    <3>5. h < run'[r].position /\ h <= run'[r].position /\ run'[r].position <= Len(f)
      BY <2>4, <3>2
    <3>6. /\ run'[r].pc = "decode" /\ run'[r].symbols = run[r].symbols
          /\ files'[run'[r].input] = f
      BY <2>4, <2>7
    <3> HIDE DEF Exists, Header
    <3> QED  BY <2>7, <3>1, <3>3, <3>4, <3>5, <3>6 DEF ReaderOf, Exists
  <2> QED  BY <1>2, <2>1, <2>4, <2>6, <2>9, <2>10, <2>11, <2>12, WriterPreserves
<1> QED  BY <1>3, <1>4

\* The next codepoint is one that the compression has encoded.
LEMMA NextCodepoint ==
  ASSUME ToolInv, NEW r \in Runs, run[r].pc = "decode", Unread(r) # <<>>
  PROVE  /\ [char |-> Head(Unread(r)).code] \in TextToken
         /\ DecodedUpTo(files[run[r].input], HeaderLength(r), run[r].position + 1)
              = DecodedUpTo(files[run[r].input], HeaderLength(r), run[r].position)
                  \o <<[char |-> Head(Unread(r)).code]>>
<1> DEFINE f == files[run[r].input]
           h == HeaderLength(r)
           position == run[r].position
           token == [char |-> f[position + 1].code]
<1>1. /\ Reads(r) /\ run[r].pc # "read_header"
      /\ h \in Nat /\ position \in Nat /\ f \in Seq(CompressedToken) /\ Len(f) \in Nat
      /\ h < position /\ position < Len(f)
      /\ Head(Unread(r)) = f[position + 1]
  <2>1. h < position
    BY ReadingProperties DEF ToolInv, RunInv, ReaderOf
  <2> QED  BY <2>1, ReadingProperties
<1>2. PICK q \in Runs :
        /\ Encoded(run[q].loaded) \in Seq(Characters)
        /\ Len(f) <= h + 1 + Len(Encoded(run[q].loaded))
        /\ \A i \in 1 .. (Len(f) - h - 1) :
             f[h + 1 + i].code = Encoded(run[q].loaded)[i]
  BY <1>1, ReaderSource
<1> DEFINE known == Encoded(run[q].loaded)
<1> HIDE DEF f, h, position, known
<1>3. token \in TextToken
  <2>1. Len(known) \in Nat /\ \A i \in 1 .. Len(known) : known[i] \in Characters
    BY <1>2, LenProperties, ElementOfSeq DEF known
  <2>2. /\ position - h \in 1 .. (Len(f) - h - 1) /\ position - h \in 1 .. Len(known)
        /\ h + 1 + (position - h) = position + 1
    BY <1>1, <1>2, <2>1 DEF known
  <2>3. f[position + 1].code = known[position - h]
    BY <1>2, <2>2 DEF known
  <2> QED  BY <2>1, <2>2, <2>3 DEF TextToken
<1>4. DecodedUpTo(f, h, position) \in Seq(TextToken)
  BY <1>1, DecodedText DEF f, h, position
<1> DEFINE n == position - h - 1
           decoded == DecodedUpTo(f, h, position)
           next == DecodedUpTo(f, h, position + 1)
<1>5. n \in Nat /\ (position + 1) - h - 1 = n + 1 /\ h + 1 + (n + 1) = position + 1
  BY <1>1
<1>6. /\ decoded = [i \in 1 .. n |-> [char |-> f[h + 1 + i].code]]
      /\ next = [i \in 1 .. (n + 1) |-> [char |-> f[h + 1 + i].code]]
  BY <1>5 DEF DecodedUpTo
<1> HIDE DEF token
<1>7. /\ Len(decoded) = n /\ decoded \in Seq(TextToken)
      /\ \A i \in 1 .. n : decoded[i] = next[i]
      /\ next[n + 1] = token
  <2>1. next[n + 1] = token
    BY <1>5, <1>6 DEF token
  <2> QED  BY <1>4, <1>5, <1>6, <2>1
<1>8. next \in Seq(TextToken) /\ Len(next) = n + 1
  <2>1. \A i \in 1 .. (n + 1) : next[i] \in TextToken
    <3>1. \A i \in 1 .. n : decoded[i] \in TextToken
      <4> HIDE DEF decoded, n, next
      <4> QED  BY <1>7, ElementOfSeq
    <3> QED  BY <1>3, <1>5, <1>7, <3>1
  <2> HIDE DEF n, next
  <2>2. next = [i \in 1 .. (n + 1) |-> next[i]]
    BY <1>6
  <2> QED  BY <1>5, <2>1, <2>2
<1> HIDE DEF n, decoded, next
<1>9. next = decoded \o <<token>>
  <2>1. /\ <<token>> \in Seq(TextToken) /\ Len(<<token>>) = 1 /\ <<token>>[1] = token
    BY <1>3
  <2>2. /\ decoded \o <<token>> \in Seq(TextToken)
        /\ Len(decoded \o <<token>>) = n + 1
        /\ \A i \in 1 .. (n + 1) :
             (decoded \o <<token>>)[i] = IF i <= n THEN decoded[i] ELSE <<token>>[i - n]
    BY <1>7, <2>1, ConcatProperties
  <2>3. \A i \in 1 .. (n + 1) : next[i] = (decoded \o <<token>>)[i]
    <3> SUFFICES ASSUME NEW i \in 1 .. (n + 1)
                 PROVE  next[i] = (decoded \o <<token>>)[i]
      OBVIOUS
    <3>1. CASE i = n + 1
      <4>1. ~ (i <= n) /\ i - n = 1
        BY <1>5, <3>1
      <4> QED  BY <1>7, <2>1, <2>2, <3>1, <4>1
    <3>2. CASE i # n + 1
      <4>1. i \in 1 .. n /\ i <= n
        BY <1>5, <3>2
      <4> QED  BY <1>7, <2>2, <4>1
    <3> QED  BY <3>1, <3>2
  <2> QED  BY <1>8, <2>2, <2>3, SeqEqual
<1> QED  BY <1>1, <1>3, <1>9 DEF f, h, position, token, decoded, next

\* One more codepoint of the input is in the stream, or the run fails.
LEMMA DecodePreserves ==
  ASSUME ToolInv, NEW r \in Runs, Decode(r)
  PROVE  ToolInv'
<1> DEFINE f == files[run[r].input]
           h == HeaderLength(r)
           position == run[r].position
           token == [char |-> Head(Unread(r)).code]
           data == <<token>>
           pending == IF run[r].bad THEN run[r].pending ELSE run[r].pending \o data
<1>1. /\ run \in [Runs -> RunState] /\ RunInv(r) /\ run[r] \in RunState
      /\ run[r].pc = "decode" /\ run[r].remaining > 0
  BY DEF ToolInv, Decode, At
<1>2. /\ HasOutput(r) /\ Running(r) /\ Reads(r)
      /\ run[r].operation = "decompress" /\ run[r].outcome = "none"
      /\ run[r].loaded = <<>>
      /\ h \in Nat /\ position \in Nat /\ run[r].remaining \in Nat
      /\ f \in Seq(CompressedToken) /\ Len(f) \in Nat
      /\ Exists(run[r].input) /\ IsPrefix(Header(run[r].symbols), f)
      /\ position <= Len(f)
      /\ Unread(r) # <<>> => position < Len(f)
  BY <1>1, ReadingProperties
<1>3. /\ h < position
      /\ f[h + 1].total = run[r].remaining + (position - h - 1)
  BY <1>1, <1>2 DEF RunInv, ReaderOf
<1>4. CASE Unread(r) = <<>>
  <2>1. PICK n \in 0 .. Len(run[r].pending) :
          /\ run' = [run EXCEPT ![r].pending = SubSeq(run[r].pending, 1, n),
                                ![r].pc = "close",
                                ![r].outcome = "file_operation_error"]
          /\ UNCHANGED files
    BY <1>4 DEF Decode
  <2> HIDE DEF f, h, position
  <2>2. /\ run'[r].pc = "close" /\ SameArguments(r)
        /\ run'[r].loaded = <<>> /\ run'[r].symbols = run[r].symbols
        /\ run'[r].position = position
        /\ run'[r].outcome = "file_operation_error"
        /\ run'[r].pending = SubSeq(run[r].pending, 1, n)
        /\ run'[r].written = run[r].written
    BY <1>1, <1>2, <2>1 DEF SameArguments, position
  <2>3. run'[r].bad = run[r].bad
    BY <1>1, <2>1
  <2>4. HeaderLength(r)' = h /\ files'[run'[r].input] = f
    BY <2>1, <2>2 DEF HeaderLength, SameArguments, f, h
  <2>5. Sent(r)' = Sent(r)
    BY <1>2, <2>2, <2>4 DEF Sent, SameArguments, f, h, position
  <2>6. StreamOf(r)' /\ run'[r].pending \in Seq(Tokens(r))
    BY <1>2, <2>1, <2>2, <2>3, <2>5, KeepStream
  <2>7. Others(r)
    <3>1. run'[r].pending \in Seq(Token)
      BY <2>6, SeqMonotonic, TokensAreTokens
    <3>2. [run[r] EXCEPT !.pending = SubSeq(run[r].pending, 1, n), !.pc = "close",
                         !.outcome = "file_operation_error"] \in RunState
      BY <1>1, <2>2, <3>1 DEF RunState, Outcomes
    <3>3. run' = [run EXCEPT ![r] =
                    [run[r] EXCEPT !.pending = SubSeq(run[r].pending, 1, n),
                                   !.pc = "close",
                                   !.outcome = "file_operation_error"]]
      BY <2>1
    <3> QED  BY <1>1, <3>2, <3>3 DEF Others
  <2>8. PhaseOf(r)' /\ HasOutput(r)'
    BY <2>2 DEF PhaseOf, HasOutput
  <2>9. LoadedOf(r)'
    BY <1>2, <2>2, EmptySeq DEF LoadedOf, SameArguments
  <2>10. ReaderOf(r)'
    <3>1. run'[r].input \in DOMAIN files'
      BY <1>2, <2>1, <2>2 DEF SameArguments, Exists
    <3>2. /\ IsPrefix(Header(run'[r].symbols), files'[run'[r].input])
          /\ h <= run'[r].position /\ run'[r].position <= Len(f)
      BY <1>2, <1>3, <2>2, <2>4 DEF f, h, position
    <3> QED  BY <2>2, <2>4, <3>1, <3>2 DEF ReaderOf, Exists
  <2> QED  BY <1>2, <2>1, <2>2, <2>6, <2>7, <2>8, <2>9, <2>10, WriterPreserves
<1>5. CASE Unread(r) # <<>>
  <2>1. /\ run' = [run EXCEPT ![r] =
                     [run[r] EXCEPT !.pending = pending,
                                    !.remaining = run[r].remaining - 1,
                                    !.position = position + 1]]
        /\ UNCHANGED files
    <3> DEFINE put == Put(run[r], data)
    <3>1. /\ run' = [run EXCEPT ![r] =
                       [put EXCEPT !.remaining = put.remaining - 1,
                                   !.position = put.position + 1]]
          /\ UNCHANGED files
      BY <1>5 DEF Decode
    <3>2. put = [run[r] EXCEPT !.pending = pending]
      BY DEF Put
    <3> HIDE DEF put, pending
    <3>3. put.remaining = run[r].remaining /\ put.position = position
      BY <1>1, <3>2 DEF RunState
    <3>4. [put EXCEPT !.remaining = put.remaining - 1, !.position = put.position + 1]
            = [run[r] EXCEPT !.pending = pending,
                             !.remaining = run[r].remaining - 1,
                             !.position = position + 1]
      <4> HIDE DEF position
      <4> QED  BY <1>1, <3>2, <3>3 DEF RunState
    <3> QED  BY <3>1, <3>4
  <2>2. /\ token \in TextToken
        /\ DecodedUpTo(f, h, position + 1) = DecodedUpTo(f, h, position) \o data
    BY <1>1, <1>5, NextCodepoint
  <2> HIDE DEF token
  <2>3. data \in Seq(TextToken) /\ Tokens(r) = TextToken
    BY <1>2, <2>2 DEF Tokens
  <2> HIDE DEF data
  <2>4. pending \in Seq(Token)
    <3>1. run[r].pending \in Seq(Tokens(r))
      BY <1>2, OutputProperties
    <3>2. run[r].pending \o data \in Seq(Tokens(r))
      BY <2>3, <3>1, ConcatProperties
    <3>3. pending \in Seq(Tokens(r))
      BY <3>1, <3>2
    <3> HIDE DEF pending
    <3> QED  BY <3>3, SeqMonotonic, TokensAreTokens
  <2>5. /\ run[r].bad = FALSE => pending = run[r].pending \o data
        /\ run[r].bad = TRUE => pending = run[r].pending
    OBVIOUS
  <2> HIDE DEF pending, f, h, position
  <2>6. /\ run'[r].pc = "decode" /\ SameArguments(r)
        /\ run'[r].loaded = <<>> /\ run'[r].symbols = run[r].symbols
        /\ run'[r].position = position + 1
        /\ run'[r].remaining = run[r].remaining - 1
        /\ run'[r].outcome = "none"
        /\ run'[r].pending = pending /\ run'[r].written = run[r].written
    BY <1>1, <1>2, <2>1 DEF SameArguments
  <2>7. run'[r].bad = run[r].bad
    BY <1>1, <2>1
  <2>8. Others(r)
    <3>1. position + 1 \in Nat /\ run[r].remaining - 1 \in Nat
      BY <1>1, <1>2 DEF position
    <3>2. [run[r] EXCEPT !.pending = pending,
                         !.remaining = run[r].remaining - 1,
                         !.position = position + 1] \in RunState
      BY <1>1, <2>4, <3>1 DEF RunState
    <3> QED  BY <1>1, <2>1, <3>2 DEF Others
  <2>9. HeaderLength(r)' = h /\ files'[run'[r].input] = f
    BY <2>1, <2>6 DEF HeaderLength, SameArguments, f, h
  <2>10. Sent(r)' = Sent(r) \o data
    <3>1. Sent(r) = DecodedUpTo(f, h, position)
      BY <1>2 DEF Sent, f, h, position
    <3>2. Sent(r)' = DecodedUpTo(f, h, position + 1)
      BY <1>2, <2>6, <2>9 DEF Sent, SameArguments
    <3> QED  BY <2>2, <3>1, <3>2 DEF f, h, position
  <2>11. StreamOf(r)' /\ run'[r].pending \in Seq(Tokens(r))
    BY <1>2, <2>1, <2>3, <2>5, <2>6, <2>7, <2>10, PutStream
  <2>12. PhaseOf(r)' /\ HasOutput(r)'
    BY <1>2, <2>6 DEF PhaseOf, HasOutput, SameArguments
  <2>13. LoadedOf(r)'
    BY <1>2, <2>6, EmptySeq DEF LoadedOf, SameArguments
  <2>14. ReaderOf(r)'
    <3>1. run'[r].input \in DOMAIN files'
      BY <1>2, <2>1, <2>6 DEF SameArguments, Exists
    <3>2. /\ IsPrefix(Header(run'[r].symbols), files'[run'[r].input])
          /\ run'[r].position = position + 1
          /\ run'[r].remaining = run[r].remaining - 1
          /\ h \in Nat /\ position \in Nat /\ run[r].remaining \in Nat
          /\ h < position /\ position < Len(f) /\ Len(f) \in Nat
          /\ f[h + 1].total = run[r].remaining + (position - h - 1)
      BY <1>2, <1>3, <1>5, <2>6, <2>9 DEF f, h, position
    <3>3. f[h + 1].total = run'[r].remaining + (run'[r].position - h - 1)
      <4>1. run[r].remaining + (position - h - 1)
              = (run[r].remaining - 1) + (position + 1 - h - 1)
        BY <3>2
      <4> QED  BY <3>2, <4>1
    <3>4. h < run'[r].position /\ h <= run'[r].position /\ run'[r].position <= Len(f)
      BY <3>2
    <3> QED  BY <2>6, <2>9, <3>1, <3>2, <3>3, <3>4 DEF ReaderOf, Exists
  <2> QED  BY <1>2, <2>1, <2>6, <2>8, <2>11, <2>12, <2>13, <2>14, WriterPreserves
<1> QED  BY <1>4, <1>5

\* All codes have been decoded when none remain.
LEMMA DecodeEndsPreserves ==
  ASSUME ToolInv, NEW r \in Runs, DecodeEnds(r)
  PROVE  ToolInv'
<1> DEFINE f == files[run[r].input]
           h == HeaderLength(r)
           position == run[r].position
<1>1. /\ run \in [Runs -> RunState] /\ RunInv(r) /\ run[r] \in RunState
      /\ run[r].pc = "decode" /\ run[r].remaining = 0
      /\ Unwind(r, "success")
  BY DEF ToolInv, DecodeEnds, At
<1>2. /\ HasOutput(r) /\ Running(r) /\ Reads(r)
      /\ run[r].operation = "decompress"
      /\ run[r].loaded = <<>>
      /\ h \in Nat /\ position \in Nat
      /\ Exists(run[r].input) /\ IsPrefix(Header(run[r].symbols), f)
      /\ position <= Len(f)
  BY <1>1, ReadingProperties
<1>3. h < position /\ f[h + 1].total = position - h - 1
  BY <1>1, <1>2 DEF RunInv, ReaderOf
<1> HIDE DEF f, h, position
<1>4. /\ run'[r].pc = "close" /\ SameArguments(r)
      /\ run'[r].loaded = <<>> /\ run'[r].symbols = run[r].symbols
      /\ run'[r].position = position
      /\ run'[r].outcome = "success" /\ UNCHANGED files
  BY <1>1, <1>2 DEF Unwind, SameArguments, position
<1>5. HeaderLength(r)' = h /\ files'[run'[r].input] = f
  BY <1>4 DEF HeaderLength, SameArguments, f, h
<1>6. Sent(r)' = Sent(r)
  BY <1>2, <1>4, <1>5 DEF Sent, SameArguments, f, h, position
<1>7. LoadedOf(r)'
  BY <1>2, <1>4, EmptySeq DEF LoadedOf, SameArguments
<1>8. ReaderOf(r)'
  <2>1. run'[r].input \in DOMAIN files'
    BY <1>2, <1>4 DEF SameArguments, Exists
  <2>2. /\ IsPrefix(Header(run'[r].symbols), files'[run'[r].input])
        /\ h <= run'[r].position /\ run'[r].position <= Len(f)
        /\ h < run'[r].position /\ f[h + 1].total = run'[r].position - h - 1
    BY <1>2, <1>3, <1>4, <1>5 DEF f, h, position
  <2> QED  BY <1>4, <1>5, <2>1, <2>2 DEF ReaderOf, Exists
<1> QED  BY <1>1, <1>2, <1>6, <1>7, <1>8, UnwindPreserves

-----------------------------------------------------------------------------
(* The user, the start, and the whole.                                     *)

\* A text is stored as a file of the same length.
LEMMA TextFileType ==
  ASSUME NEW text \in Seq(Characters)
  PROVE  /\ TextFile(text) \in Seq(TextToken)
         /\ Len(TextFile(text)) = Len(text)
<1>1. /\ Len(text) \in Nat /\ DOMAIN text = 1 .. Len(text)
      /\ \A i \in 1 .. Len(text) : text[i] \in Characters
  BY LenProperties, ElementOfSeq
<1>2. \A i \in 1 .. Len(text) : [char |-> text[i]] \in TextToken
  BY <1>1 DEF TextToken
<1> QED  BY <1>1, <1>2 DEF TextFile

\* What the user does to a text that no run is going to write.
LEMMA UserPreserves ==
  ASSUME ToolInv, UNCHANGED run, FilesTyped',
         \A s \in Runs : KeepsFiles(s),
         \A path \in DOMAIN files' \intersect CompressedPaths :
           path \in DOMAIN files /\ files'[path] = files[path]
  PROVE  ToolInv'
<1>1. /\ run \in [Runs -> RunState] /\ FilesTyped /\ OutputsApart /\ CompressedInv
      /\ \A s \in Runs : RunInv(s)
  BY DEF ToolInv
<1>2. \A s \in Runs : RunInv(s)'
  BY <1>1, RunFrame
<1>3. OutputsApart' /\ run' \in [Runs -> RunState]
  BY <1>1 DEF OutputsApart, Running
<1>4. CompressedInv'
  <2> SUFFICES ASSUME NEW path \in DOMAIN files' \intersect CompressedPaths
               PROVE  \E q \in Runs : HasWritten(q, path)'
    BY DEF CompressedInv
  <2>1. PICK q \in Runs : HasWritten(q, path)
    BY <1>1 DEF CompressedInv
  <2>2. HasWritten(q, path)'
    BY <2>1 DEF HasWritten
  <2> QED  BY <2>2
<1> QED  BY <1>2, <1>3, <1>4 DEF ToolInv

\* The user writes a text where no run writes.
LEMMA EditPreserves ==
  ASSUME ToolInv, ~ SharedOutputs, NEW path \in DOMAIN UserFiles, Edit(path)
  PROVE  ToolInv'
<1>1. /\ UNCHANGED run
      /\ \A s \in Runs : Running(s) => run[s].output # path
  BY DEF Edit
<1>2. PICK text \in Texts : files' = WithFile(path, TextFile(text))
  BY DEF Edit
<1>3. /\ FilesTyped /\ run \in [Runs -> RunState]
      /\ \A s \in Runs : RunInv(s)
  BY DEF ToolInv
<1>4. TextFile(text) \in Seq(TextToken)
  BY TextsAssumption, TextFileType
<1> DEFINE content == TextFile(text)
<1> HIDE DEF content
<1>5. path \in TextPaths /\ path \notin CompressedPaths
  BY KindsAssumption DEF TextPaths
<1>6. /\ files' = [q \in DOMAIN files \union {path} |->
                     IF q = path THEN content ELSE files[q]]
      /\ DOMAIN files' = DOMAIN files \union {path}
      /\ files'[path] = content
      /\ \A q \in DOMAIN files : q # path => files'[q] = files[q]
  BY <1>2 DEF WithFile, content
<1>7. FilesTyped'
  BY <1>3, <1>4, <1>5, <1>6 DEF FilesTyped, content
<1>8. ASSUME NEW s \in Runs PROVE KeepsFiles(s)
  <2>1. HasOutput(s) =>
          /\ run[s].output \in DOMAIN files'
          /\ files'[run[s].output] = files[run[s].output]
    BY <1>1, <1>3, <1>6 DEF RunInv, OutputOf, HasOutput, Running, Exists
  <2>2. run[s].pc \in {"load", "create", "open", "read_header"} =>
          run[s].output \notin DOMAIN files'
    BY <1>1, <1>3, <1>6 DEF RunInv, OutputOf, Running, Exists
  <2>3. ASSUME Reads(s)
        PROVE  /\ run[s].input \in DOMAIN files'
               /\ IsPrefix(files[run[s].input], files'[run[s].input])
    <3>1. run[s].input \in CompressedPaths /\ Exists(run[s].input)
      BY <1>3, <2>3 DEF RunInv, KindsOf, ReaderOf, Reads, Running
    <3>2. files'[run[s].input] = files[run[s].input]
      BY <1>5, <1>6, <3>1 DEF Exists
    <3>3. files[run[s].input] \in Seq(CompressedToken)
      BY <1>3, <3>1, FileProperties DEF Exists
    <3> QED  BY <1>6, <3>1, <3>2, <3>3, IsPrefixReflexive DEF Exists
  <2> QED  BY <2>1, <2>2, <2>3 DEF KeepsFiles
<1>9. \A q \in DOMAIN files' \intersect CompressedPaths :
        q \in DOMAIN files /\ files'[q] = files[q]
  BY <1>5, <1>6
<1> QED  BY <1>1, <1>7, <1>8, <1>9, UserPreserves

\* The user removes a file that nobody has open.
LEMMA RemoveFilePreserves ==
  ASSUME ToolInv, NEW path \in DOMAIN files, RemoveFile(path)
  PROVE  ToolInv'
<1>1. /\ UNCHANGED run
      /\ \A s \in Runs : Running(s) =>
           /\ path # run[s].output
           /\ path = run[s].input => run[s].operation = "compress"
      /\ files' = [q \in DOMAIN files \ {path} |-> files[q]]
  BY DEF RemoveFile
<1>2. /\ FilesTyped /\ run \in [Runs -> RunState]
      /\ \A s \in Runs : RunInv(s)
  BY DEF ToolInv
<1>3. /\ DOMAIN files' = DOMAIN files \ {path}
      /\ \A q \in DOMAIN files' : files'[q] = files[q]
  BY <1>1
<1>4. FilesTyped'
  BY <1>1, <1>2, <1>3 DEF FilesTyped
<1>5. ASSUME NEW s \in Runs PROVE KeepsFiles(s)
  <2>1. HasOutput(s) =>
          /\ run[s].output \in DOMAIN files'
          /\ files'[run[s].output] = files[run[s].output]
    BY <1>1, <1>2, <1>3 DEF RunInv, OutputOf, HasOutput, Running, Exists
  <2>2. run[s].pc \in {"load", "create", "open", "read_header"} =>
          run[s].output \notin DOMAIN files'
    BY <1>2, <1>3 DEF RunInv, OutputOf, Exists
  <2>3. ASSUME Reads(s)
        PROVE  /\ run[s].input \in DOMAIN files'
               /\ IsPrefix(files[run[s].input], files'[run[s].input])
    <3>1. run[s].input \in CompressedPaths /\ Exists(run[s].input)
      BY <1>2, <2>3 DEF RunInv, KindsOf, ReaderOf, Reads, Running
    <3>2. run[s].input \in DOMAIN files'
      BY <1>1, <1>3, <2>3, <3>1 DEF Exists, Reads, Running
    <3>3. files'[run[s].input] = files[run[s].input]
      BY <1>3, <3>2
    <3>4. files[run[s].input] \in Seq(CompressedToken)
      BY <1>2, <3>1, FileProperties DEF Exists
    <3> QED  BY <3>2, <3>3, <3>4, IsPrefixReflexive
  <2> QED  BY <2>1, <2>2, <2>3 DEF KeepsFiles
<1> QED  BY <1>1, <1>3, <1>4, <1>5, UserPreserves

\* A stuttering step changes nothing.
LEMMA StutterPreserves ==
  ASSUME ToolInv, UNCHANGED vars
  PROVE  ToolInv'
<1>1. UNCHANGED run /\ UNCHANGED files
  BY DEF vars
<1>2. /\ FilesTyped /\ run \in [Runs -> RunState]
      /\ \A s \in Runs : RunInv(s)
  BY DEF ToolInv
<1>3. FilesTyped'
  BY <1>1, <1>2 DEF FilesTyped
<1>4. ASSUME NEW s \in Runs PROVE KeepsFiles(s)
  <2>1. Reads(s) =>
          run[s].input \in DOMAIN files /\ files[run[s].input] \in Seq(CompressedToken)
    BY <1>2, FileProperties DEF RunInv, KindsOf, ReaderOf, Reads, Running, Exists
  <2> QED
    BY <1>1, <1>2, <2>1, IsPrefixReflexive DEF KeepsFiles, RunInv, OutputOf, Exists
<1> QED  BY <1>1, <1>3, <1>4, UserPreserves

\* The user has only texts and no run has started.
LEMMA InitInv ==
  ASSUME Init
  PROVE  ToolInv
<1>1. files = [p \in DOMAIN UserFiles |-> TextFile(UserFiles[p])]
  BY DEF Init
<1>2. \A p \in DOMAIN UserFiles :
        TextFile(UserFiles[p]) \in Seq(TextToken) /\ p \in TextPaths
  BY TextsAssumption, TextFileType DEF TextPaths
<1>3. FilesTyped
  BY <1>1, <1>2 DEF FilesTyped
<1>4. CompressedInv
  BY <1>1, <1>2, KindsAssumption DEF CompressedInv
<1>5. {} \in Symbols
  BY FS_EmptySet DEF Symbols
<1>6. \A r \in Runs :
        /\ run[r].pc = "idle" /\ run[r].outcome = "none"
        /\ run[r].loaded = <<>> /\ run[r].pending = <<>>
        /\ run[r].position = 0 /\ run[r].written = 0 /\ run[r].bad = FALSE
  BY DEF Init
<1>7. run \in [Runs -> RunState]
  <2> DEFINE idle == [pc |-> "idle", operation |-> "compress", input |-> "",
                      output |-> "", loaded |-> <<>>, symbols |-> {},
                      position |-> 0, remaining |-> 0, pending |-> <<>>,
                      written |-> 0, bad |-> FALSE, outcome |-> "none"]
  <2>1. <<>> \in Seq(Seq(Characters)) /\ <<>> \in Seq(Token)
    BY EmptySeq
  <2>2. idle \in RunState
    BY <1>5, <2>1 DEF RunState, Outcomes
  <2>3. run = [r \in Runs |-> idle]
    BY DEF Init
  <2> HIDE DEF idle
  <2> QED  BY <2>2, <2>3
<1>8. OutputsApart
  BY <1>6 DEF OutputsApart, Running
<1>9. ASSUME NEW r \in Runs PROVE RunInv(r)
  <2>1. KindsOf(r) /\ OutputOf(r) /\ StreamOf(r) /\ ReaderOf(r)
    BY <1>6 DEF KindsOf, OutputOf, StreamOf, ReaderOf, Running, HasOutput, Reads
  <2>2. PhaseOf(r)
    BY <1>6 DEF PhaseOf
  <2>3. Len(run[r].loaded) = 0
    BY <1>6, EmptySeq
  <2>4. LoadedOf(r)
    BY <1>6, <2>3 DEF LoadedOf
  <2> QED  BY <2>1, <2>2, <2>4 DEF RunInv
<1> QED  BY <1>3, <1>4, <1>7, <1>8, <1>9 DEF ToolInv

\* Every step preserves the invariant.
LEMMA NextPreserves ==
  ASSUME ToolInv, ~ SharedOutputs, Next
  PROVE  ToolInv'
<1>1. ASSUME NEW r \in Runs, Step(r) PROVE ToolInv'
  <2>1. CASE CheckThrows(r)       BY <2>1, CheckThrowsPreserves
  <2>2. CASE CheckInput(r)        BY <2>2, CheckInputPreserves
  <2>3. CASE CheckOutput(r)       BY <2>3, CheckOutputPreserves
  <2>4. CASE CreateOutput(r)      BY <2>4, CreateOutputPreserves
  <2>5. CASE Flush(r)             BY <2>5, FlushPreserves
  <2>6. CASE Close(r)             BY <2>6, ClosePreserves
  <2>7. CASE Load(r)              BY <2>7, LoadPreserves
  <2>8. CASE WriteHeader(r)       BY <2>8, WriteHeaderPreserves
  <2>9. CASE Reload(r)            BY <2>9, ReloadPreserves
  <2>10. CASE WriteFileContents(r) BY <2>10, WriteFileContentsPreserves
  <2>11. CASE Open(r)             BY <2>11, OpenPreserves
  <2>12. CASE ReadHeader(r)       BY <2>12, ReadHeaderPreserves
  <2>13. CASE ReadTotal(r)        BY <2>13, ReadTotalPreserves
  <2>14. CASE Decode(r)           BY <2>14, DecodePreserves
  <2>15. CASE DecodeEnds(r)       BY <2>15, DecodeEndsPreserves
  <2> QED
    BY <1>1, <2>1, <2>2, <2>3, <2>4, <2>5, <2>6, <2>7, <2>8, <2>9, <2>10, <2>11,
       <2>12, <2>13, <2>14, <2>15 DEF Step
<1>2. ASSUME NEW r \in Runs, NEW words \in CommandLines, Start(r, words)
      PROVE  ToolInv'
  BY <1>2, StartPreserves
<1>3. ASSUME NEW r \in Runs, DiskFull(r) PROVE ToolInv'
  BY <1>3, DiskFullPreserves
<1>4. ASSUME NEW r \in Runs, Kill(r) PROVE ToolInv'
  BY <1>4, KillPreserves
<1>5. ASSUME NEW path \in DOMAIN UserFiles, Edit(path) PROVE ToolInv'
  BY <1>5, EditPreserves
<1>6. ASSUME NEW path \in DOMAIN files, RemoveFile(path) PROVE ToolInv'
  BY <1>6, RemoveFilePreserves
<1> QED  BY <1>1, <1>2, <1>3, <1>4, <1>5, <1>6 DEF Next

\* The invariant holds for every number of runs, command line and file system.
LEMMA ToolInvCorrect ==
  ASSUME ~ SharedOutputs
  PROVE  Spec => []ToolInv
<1>1. Init => ToolInv
  BY InitInv
<1>2. ToolInv /\ [Next]_vars => ToolInv'
  BY NextPreserves, StutterPreserves
<1> QED  BY <1>1, <1>2, PTL DEF Spec

-----------------------------------------------------------------------------
(* The invariants that the runs check.                                     *)

\* Whatever happens, files consist of tokens, the output of a run exists while
\* it has it open, and a stream that has failed has nothing pending.
THEOREM TypeOKCorrect ==
  ASSUME ~ SharedOutputs
  PROVE  Spec => []TypeOK
<1>1. ToolInv => TypeOK
  <2> SUFFICES ASSUME ToolInv PROVE TypeOK
    OBVIOUS
  <2>1. /\ FilesTyped /\ run \in [Runs -> RunState]
        /\ \A r \in Runs : RunInv(r)
    BY DEF ToolInv
  <2>2. \A t \in Token : IsToken(t)
    <3>1. Symbols \subseteq SUBSET Characters
      BY DEF Symbols
    <3>2. [entries : Symbols] \subseteq [entries : SUBSET Characters]
      BY <3>1
    <3> HIDE DEF Symbols
    <3> QED  BY <3>2 DEF IsToken, Token, TextToken, CompressedToken
  <2>3. ASSUME NEW path \in DOMAIN files, NEW i \in DOMAIN files[path]
        PROVE  IsToken(files[path][i])
    <3>1. files[path] \in Seq(TextToken) \/ files[path] \in Seq(CompressedToken)
      BY <2>1, FileProperties DEF FilesTyped
    <3>2. TextToken \subseteq Token /\ CompressedToken \subseteq Token
      BY DEF Token
    <3>3. files[path] \in Seq(Token)
      BY <3>1, <3>2, SeqMonotonic
    <3>4. files[path][i] \in Token
      <4>1. DOMAIN files[path] = 1 .. Len(files[path])
        BY <3>3, LenProperties
      <4> QED  BY <3>3, <4>1, ElementOfSeq
    <3> QED  BY <2>2, <3>4
  <2>4. ASSUME NEW r \in Runs
        PROVE  /\ run[r].pc \in {"idle", "check_input", "check_output", "load",
                                 "header", "reload", "contents", "open",
                                 "read_header", "create", "total", "decode",
                                 "close", "done"}
               /\ run[r].outcome \in {"none", "success", "argument_error",
                                      "file_operation_error", "unknown_error",
                                      "terminated", "killed"}
    BY <2>1 DEF RunState, Outcomes
  <2>5. ASSUME NEW r \in Runs
        PROVE  /\ HasOutput(r) => Exists(run[r].output)
               /\ run[r].pending # <<>> => HasOutput(r)
    BY <2>1 DEF RunInv, OutputOf, PhaseOf
  <2>6. ASSUME NEW r \in Runs
        PROVE  run[r].bad => run[r].pending = <<>>
    <3>1. run[r].bad \in BOOLEAN
      BY <2>1 DEF RunState
    <3>2. run[r].bad = TRUE => run[r].pending = <<>>
      <4>1. RunInv(r)
        BY <2>1
      <4> QED  BY <4>1 DEF RunInv, PhaseOf, StreamOf
    <3> QED  BY <3>1, <3>2
  <2> QED  BY <2>3, <2>4, <2>5, <2>6 DEF TypeOK
<1> QED  BY <1>1, ToolInvCorrect, PTL

\* A run that its own exception terminates has loaded two different texts.
THEOREM TerminatedOnlyByEditCorrect ==
  ASSUME ~ SharedOutputs
  PROVE  Spec => []TerminatedOnlyByEdit
<1>1. ToolInv => TerminatedOnlyByEdit
  <2> SUFFICES ASSUME ToolInv, NEW r \in Runs, run[r].outcome = "terminated"
               PROVE  run[r].loaded[1] # run[r].loaded[2]
    BY DEF TerminatedOnlyByEdit
  <2>1. RunInv(r)
    BY DEF ToolInv
  <2>2. Len(run[r].loaded) = 2 /\ ~ Valid(run[r].loaded[2])
    BY <2>1 DEF RunInv, LoadedOf
  <2>3. run[r].loaded # <<>>
    <3>1. Len(<<>>) = 0
      OBVIOUS
    <3> QED  BY <2>2, <3>1
  <2>4. Valid(run[r].loaded[1])
    BY <2>1, <2>3 DEF RunInv, LoadedOf
  <2> QED  BY <2>2, <2>4
<1> QED  BY <1>1, ToolInvCorrect, PTL

\* What a decompression has written, whatever has failed, is a beginning of a
\* text that a compression has encoded into its input.
THEOREM NothingInventedCorrect ==
  ASSUME ~ SharedOutputs
  PROVE  Spec => []NothingInvented
<1>1. ToolInv => NothingInvented
  <2> SUFFICES ASSUME ToolInv, NEW r \in Runs, HasOutput(r),
                      run[r].operation = "decompress", run[r].written > 0
               PROVE  \E q \in Runs :
                        /\ CompressedInto(q, run[r].input)
                        /\ IsPrefix(files[run[r].output], TextFile(EncodedText(q)))
    BY DEF NothingInvented
  <2> DEFINE h == HeaderLength(r)
             position == run[r].position
             decoded == DecodedUpTo(files[run[r].input], h, position)
  <2>1. Tokens(r) = TextToken /\ Sent(r) = decoded
    BY DEF Tokens, Sent
  <2>2. /\ Out(r) \in Seq(TextToken) /\ run[r].pending \in Seq(TextToken)
        /\ decoded \in Seq(TextToken)
        /\ run[r].written = Len(Out(r))
        /\ IsPrefix(Out(r) \o run[r].pending, decoded)
        /\ Reads(r) /\ run[r].pc # "read_header"
    BY <2>1, OutputProperties
  <2>3. PICK q \in Runs :
          /\ HasWritten(q, run[r].input)
          /\ h < position =>
               /\ Len(run[q].loaded) = 2
               /\ TextFile(Encoded(run[q].loaded)) \in Seq(TextToken)
               /\ IsPrefix(decoded, TextFile(Encoded(run[q].loaded)))
    BY <2>2, DecodedText
  <2>4. IsPrefix(Out(r), decoded)
    <3> HIDE DEF decoded
    <3>1. Out(r) \o run[r].pending \in Seq(TextToken)
      BY <2>2, ConcatProperties
    <3>2. IsPrefix(Out(r), Out(r) \o run[r].pending)
      BY <2>2, IsPrefixConcat
    <3> QED  BY <2>2, <3>1, <3>2, IsPrefixTransitive
  <2>5. h < position
    <3>1. h \in Nat /\ position \in Nat
      BY HeaderLengthType DEF ToolInv, RunState
    <3>2. Len(Out(r)) > 0 /\ Len(Out(r)) <= Len(decoded) /\ Len(decoded) \in Nat
      <4> HIDE DEF decoded
      <4>1. Len(Out(r)) <= Len(decoded)
        BY <2>2, <2>4, IsPrefixElements
      <4> QED  BY <2>2, <4>1, LenProperties
    <3>3. decoded = <<>> => Len(decoded) = 0
      OBVIOUS
    <3>4. decoded # <<>>
      BY <2>2, <3>2, <3>3
    <3> SUFFICES ASSUME ~ (h < position) PROVE FALSE
      OBVIOUS
    <3>5. 1 .. (position - h - 1) = {}
      BY <3>1
    <3>6. decoded = <<>>
      BY <3>5 DEF DecodedUpTo
    <3> QED  BY <3>4, <3>6
  <2>6. IsPrefix(Out(r), TextFile(Encoded(run[q].loaded)))
    <3> HIDE DEF decoded
    <3> QED  BY <2>2, <2>3, <2>4, <2>5, IsPrefixTransitive
  <2>7. CompressedInto(q, run[r].input)
    BY <2>3, <2>5 DEF HasWritten, CompressedInto
  <2> QED  BY <2>6, <2>7 DEF Out, Encoded, EncodedText
<1> QED  BY <1>1, ToolInvCorrect, PTL

-----------------------------------------------------------------------------
(* What no step does.                                                      *)

OnlyOwn ==
  \A path \in DOMAIN files \intersect DOMAIN files' :
    files'[path] # files[path] =>
      \/ run' = run /\ path \in DOMAIN UserFiles
      \/ \E r \in Runs :
           HasOutput(r) /\ run[r].output = path /\ run'[r] # run[r]

\* A step of a run touches no file but its output, and none without a change to
\* the run itself.
LEMMA StepWritesOutput ==
  ASSUME ToolInv, NEW r \in Runs, Step(r) \/ DiskFull(r)
  PROVE  \/ UNCHANGED files
         \/ /\ HasOutput(r) \/ At(r, "create")
            /\ run'[r] # run[r]
            /\ \E content : files' = WithFile(run[r].output, content)
<1>1. CASE CheckThrows(r) \/ CheckInput(r) \/ CheckOutput(r) \/ Open(r)
  BY <1>1 DEF CheckThrows, CheckInput, CheckOutput, Open, Exit
<1>2. CASE Load(r) \/ WriteHeader(r) \/ Reload(r)
  BY <1>2 DEF Load, WriteHeader, Reload, Exit, Unwind
<1>3. CASE WriteFileContents(r)
  BY <1>3 DEF WriteFileContents, Exit
<1>4. CASE ReadHeader(r) \/ ReadTotal(r)
  BY <1>4 DEF ReadHeader, ReadTotal, Exit, Unwind
<1>5. CASE Decode(r) \/ DecodeEnds(r)
  BY <1>5 DEF Decode, DecodeEnds, Unwind
<1>6. run \in [Runs -> RunState] /\ run[r] \in RunState
  BY DEF ToolInv
<1>7. CASE CreateOutput(r)
  <2>1. CASE run[r].output \in Creatable
    <3>1. run[r].pc = "create" /\ run'[r].pc # "create"
      BY <1>6, <1>7, <2>1 DEF CreateOutput, At, RunState
    <3> QED  BY <1>7, <2>1, <3>1 DEF CreateOutput
  <2>2. CASE run[r].output \notin Creatable
    BY <1>7, <2>2 DEF CreateOutput, Exit
  <2> QED  BY <2>1, <2>2
<1>8. CASE Flush(r)
  <2>1. PICK n \in 1 .. Len(run[r].pending) :
          /\ files' = Flushed(r, n)
          /\ run' = [run EXCEPT ![r].pending = SubSeq(@, n + 1, Len(@)),
                                ![r].written = @ + n]
    BY <1>8 DEF Flush
  <2>2. n \in Nat /\ n # 0 /\ run[r].written \in Nat
    <3>1. run[r].pending \in Seq(Token) /\ run[r].written \in Nat
      BY <1>6 DEF RunState
    <3>2. Len(run[r].pending) \in Nat
      BY <3>1, LenProperties
    <3> QED  BY <3>1, <3>2
  <2>3. run'[r].written = run[r].written + n
    BY <1>6, <2>1 DEF RunState
  <2>4. run'[r] # run[r]
    BY <2>2, <2>3
  <2> QED  BY <1>8, <2>1, <2>4 DEF Flush, Flushed
<1>9. CASE DiskFull(r)
  <2>1. ~ run[r].bad /\ run'[r].bad
    BY <1>6, <1>9 DEF DiskFull, RunState
  <2> QED  BY <1>9, <2>1 DEF DiskFull, Flushed
<1>10. CASE Close(r)
  <2>1. run[r].pc = "close" /\ run'[r].pc = "done"
    BY <1>6, <1>10 DEF Close, Ended, At, RunState
  <2> QED  BY <1>10, <2>1 DEF Close, Flushed, At, HasOutput
<1> QED
  BY <1>1, <1>2, <1>3, <1>4, <1>5, <1>7, <1>8, <1>9, <1>10 DEF Step

\* A file that exists changes only in a step of the run that has created it or
\* by the user's hand.
THEOREM OnlyOwnOutputsChangeCorrect ==
  ASSUME ~ SharedOutputs
  PROVE  Spec => OnlyOwnOutputsChange
<1>1. ToolInv /\ [Next]_vars => [OnlyOwn]_vars
  <2> SUFFICES ASSUME ToolInv, Next,
                      NEW path \in DOMAIN files \intersect DOMAIN files',
                      files'[path] # files[path]
               PROVE  \/ run' = run /\ path \in DOMAIN UserFiles
                      \/ \E r \in Runs :
                           HasOutput(r) /\ run[r].output = path /\ run'[r] # run[r]
    BY DEF OnlyOwn
  <2>1. ASSUME NEW r \in Runs, Step(r) \/ DiskFull(r)
        PROVE  HasOutput(r) /\ run[r].output = path /\ run'[r] # run[r]
    <3>1. /\ HasOutput(r) \/ At(r, "create")
          /\ run'[r] # run[r]
          /\ \E content : files' = WithFile(run[r].output, content)
      BY <2>1, StepWritesOutput
    <3>2. run[r].output = path
      BY <3>1 DEF WithFile
    <3>3. ~ At(r, "create")
      BY <3>2 DEF ToolInv, RunInv, OutputOf, At, Exists
    <3> QED  BY <3>1, <3>2, <3>3
  <2>2. ASSUME NEW r \in Runs, NEW words \in CommandLines, Start(r, words)
        PROVE  FALSE
    BY <2>2 DEF Start, Exit
  <2>3. ASSUME NEW r \in Runs, Kill(r)
        PROVE  FALSE
    BY <2>3 DEF Kill, Exit
  <2>4. ASSUME NEW p \in DOMAIN UserFiles, Edit(p)
        PROVE  run' = run /\ path \in DOMAIN UserFiles
    BY <2>4 DEF Edit, WithFile
  <2>5. ASSUME NEW p \in DOMAIN files, RemoveFile(p)
        PROVE  FALSE
    BY <2>5 DEF RemoveFile
  <2> QED  BY <2>1, <2>2, <2>3, <2>4, <2>5 DEF Next
<1> QED  BY <1>1, ToolInvCorrect, PTL DEF Spec, OnlyOwnOutputsChange, OnlyOwn

\* Only a run that closes its output after all has gone well reports success.
LEMMA SuccessIsClose ==
  ASSUME ToolInv, Next, NEW r \in Runs, Running(r),
         run'[r].pc = "done", run'[r].outcome = "success"
  PROVE  Close(r) /\ run[r].outcome = "success"
<1>1. run \in [Runs -> RunState] /\ run[r] \in RunState /\ run[r].pc # "done"
  BY DEF ToolInv, Running
<1>2. ASSUME NEW how, Exit(r, how) PROVE how = "success"
  <2>1. run'[r] = Ended(run[r], how)
    BY <1>1, <1>2 DEF Exit
  <2>2. Ended(run[r], how).outcome = how
    BY <1>1 DEF Ended, RunState
  <2> QED  BY <2>1, <2>2
<1>3. ASSUME NEW q \in Runs, NEW state, run' = [run EXCEPT ![q] = state]
      PROVE  q = r /\ run'[r] = state
  BY <1>1, <1>3
<1>4. ASSUME NEW q \in Runs, NEW words \in CommandLines, Start(q, words)
      PROVE  FALSE
  <2>1. q # r
    BY <1>4 DEF Start, At, Running
  <2> QED  BY <1>1, <1>4, <2>1 DEF Start, Exit
<1>5. ASSUME NEW q \in Runs, Kill(q)
      PROVE  FALSE
  <2>1. Exit(q, "killed")
    BY <1>5 DEF Kill
  <2>2. q = r
    BY <1>1, <2>1 DEF Exit
  <2> QED  BY <1>2, <2>1, <2>2
<1>6. ASSUME NEW path, Edit(path) \/ RemoveFile(path)
      PROVE  FALSE
  BY <1>1, <1>6 DEF Edit, RemoveFile
<1>7. ASSUME NEW q \in Runs, DiskFull(q)
      PROVE  FALSE
  <2>1. PICK n : run' = [run EXCEPT ![q].pending = <<>>,
                                    ![q].written = run[q].written + n,
                                    ![q].bad = TRUE]
    BY <1>7 DEF DiskFull
  <2> QED  BY <1>1, <2>1 DEF RunState
<1>8. ASSUME NEW q \in Runs, Step(q)
      PROVE  Close(r) /\ run[r].outcome = "success"
  <2>1. CASE \E how \in {"unknown_error", "argument_error", "file_operation_error",
                         "terminated"} : Exit(q, how)
    <3>1. q = r
      BY <1>1, <2>1 DEF Exit
    <3> QED  BY <1>2, <2>1, <3>1
  <2>2. CASE \E how : Unwind(q, how)
    BY <1>1, <2>2 DEF Unwind, RunState
  <2>3. CASE CheckThrows(q) \/ CheckInput(q) \/ CheckOutput(q) \/ Open(q)
    <3>1. CASE \E pc \in {"check_output", "load", "open", "read_header"} : GoesOn(q, pc)
      BY <1>1, <3>1 DEF GoesOn, RunState
    <3>2. CASE CheckThrows(q)
      BY <2>1, <3>2 DEF CheckThrows
    <3>3. CASE CheckInput(q) \/ Open(q)
      BY <2>1, <3>1, <3>3 DEF CheckInput, Open, GoesOn
    <3>4. CASE CheckOutput(q)
      BY <2>1, <3>1, <3>4 DEF CheckOutput, GoesOn
    <3> QED  BY <2>3, <3>2, <3>3, <3>4
  <2>4. CASE Load(q) \/ Reload(q)
    BY <1>1, <2>1, <2>2, <2>4 DEF Load, Reload, RunState
  <2>5. CASE ReadHeader(q) \/ ReadTotal(q)
    BY <1>1, <2>1, <2>2, <2>5 DEF ReadHeader, ReadTotal, RunState
  <2>6. CASE WriteHeader(q)
    <3>1. run' = [run EXCEPT ![q] =
                    [Put(run[q], Header(run[q].symbols)) EXCEPT !.pc = "reload"]]
      BY <2>6 DEF WriteHeader
    <3>2. q = r /\ run'[r] = [Put(run[r], Header(run[r].symbols))
                                EXCEPT !.pc = "reload"]
      BY <1>3, <3>1
    <3> QED  BY <1>1, <3>2 DEF Put, RunState
  <2>7. CASE WriteFileContents(q)
    <3> DEFINE data == Contents(run[q].loaded[2], run[q].symbols)
    <3>1. CASE Valid(run[q].loaded[2])
      <4>1. run' = [run EXCEPT ![q] =
                      [Put(run[q], data) EXCEPT !.pc = "close", !.outcome = "success"]]
        BY <2>7, <3>1 DEF WriteFileContents
      <4> HIDE DEF data
      <4>2. q = r /\ run'[r] = [Put(run[q], data) EXCEPT !.pc = "close",
                                                        !.outcome = "success"]
        BY <1>3, <4>1
      <4> QED  BY <1>1, <4>2 DEF Put, RunState
    <3>2. CASE ~ Valid(run[q].loaded[2])
      BY <2>1, <2>7, <3>2 DEF WriteFileContents
    <3> QED  BY <3>1, <3>2
  <2>8. CASE CreateOutput(q)
    BY <1>1, <2>1, <2>8 DEF CreateOutput, RunState
  <2>9. CASE Flush(q)
    <3>1. PICK n : run' = [run EXCEPT
                             ![q].pending = SubSeq(run[q].pending, n + 1,
                                                   Len(run[q].pending)),
                             ![q].written = run[q].written + n]
      BY <2>9 DEF Flush
    <3> QED  BY <1>1, <3>1 DEF RunState
  <2>10. CASE Decode(q)
    <3> DEFINE data == <<[char |-> Head(Unread(q)).code]>>
               put == Put(run[q], data)
    <3>1. CASE Unread(q) = <<>>
      BY <1>1, <2>10, <3>1 DEF Decode, RunState
    <3>2. CASE Unread(q) # <<>>
      <4>1. run' = [run EXCEPT ![q] =
                      [put EXCEPT !.remaining = put.remaining - 1,
                                  !.position = put.position + 1]]
        BY <2>10, <3>2 DEF Decode
      <4> HIDE DEF data
      <4>2. put.pc = run[q].pc
        BY <1>1 DEF Put, RunState
      <4>3. DOMAIN put = DOMAIN run[q]
        BY <1>1 DEF Put
      <4> HIDE DEF put
      <4>4. run'[r] = [put EXCEPT !.remaining = put.remaining - 1,
                                  !.position = put.position + 1] /\ q = r
        BY <1>3, <4>1
      <4> QED  BY <1>1, <4>2, <4>3, <4>4 DEF RunState
    <3> QED  BY <3>1, <3>2
  <2>11. CASE DecodeEnds(q)
    BY <2>2, <2>11 DEF DecodeEnds
  <2>12. CASE Close(q)
    <3>1. run' = [run EXCEPT ![q] = Ended(run[q], run[q].outcome)]
      BY <2>12 DEF Close
    <3>2. q = r /\ run'[r] = Ended(run[q], run[q].outcome)
      BY <1>3, <3>1
    <3>3. Ended(run[q], run[q].outcome).outcome = run[q].outcome
      BY <1>1 DEF Ended, RunState
    <3> QED  BY <2>12, <3>2, <3>3
  <2> QED
    BY <1>8, <2>3, <2>4, <2>5, <2>6, <2>7, <2>8, <2>9, <2>10, <2>11, <2>12 DEF Step
<1> QED  BY <1>4, <1>5, <1>6, <1>7, <1>8 DEF Next

\* A run that reports success has handed over all that it has put into its
\* output stream, if the disk had room.
LEMMA SuccessWritesAll ==
  ASSUME ToolInv, Next, NEW r \in Runs, NEW operation,
         EndsWithSuccess(r, operation), ~ run[r].bad
  PROVE  /\ run[r].pc = "close" /\ HasOutput(r)
         /\ run[r].outcome = "success" /\ run[r].operation = operation
         /\ files'[run[r].output] = Sent(r)
<1>1. /\ Close(r) /\ run[r].outcome = "success" /\ run[r].operation = operation
  BY SuccessIsClose DEF EndsWithSuccess
<1>2. run[r].pc = "close" /\ HasOutput(r)
  BY <1>1 DEF Close, At, HasOutput
<1>3. files' = Flushed(r, Len(run[r].pending))
  BY <1>1 DEF Close
<1>4. run[r].bad = FALSE /\ Len(run[r].pending) \in 0 .. Len(run[r].pending)
  <2>1. run[r].bad \in BOOLEAN /\ run[r].pending \in Seq(Token)
    BY DEF ToolInv, RunState
  <2>2. Len(run[r].pending) \in Nat
    BY <2>1, LenProperties
  <2> QED  BY <2>1, <2>2
<1>5. files'[run[r].output] = Out(r) \o run[r].pending
  BY <1>2, <1>3, <1>4, FlushedProperties
<1>6. Out(r) \o run[r].pending = Sent(r)
  BY <1>1, <1>2, <1>4 DEF ToolInv, RunInv, StreamOf
<1> QED  BY <1>1, <1>2, <1>5, <1>6

CompleteCompression ==
  \A r \in Runs : EndsWithSuccess(r, "compress") /\ ~ run[r].bad =>
    LET symbols == Coded(run[r].loaded[1])
    IN files'[run[r].output]
         = Header(symbols) \o Contents(run[r].loaded[2], symbols)

\* The output of a compression that reports success is its header and all of
\* its contents.
THEOREM CompressionCompleteCorrect ==
  ASSUME ~ SharedOutputs
  PROVE  Spec => CompressionComplete
<1>1. ToolInv /\ [Next]_vars => [CompleteCompression]_vars
  <2> SUFFICES ASSUME ToolInv, Next, NEW r \in Runs,
                      EndsWithSuccess(r, "compress"), ~ run[r].bad
               PROVE  files'[run[r].output] =
                        Header(Coded(run[r].loaded[1]))
                          \o Contents(run[r].loaded[2], Coded(run[r].loaded[1]))
    BY DEF CompleteCompression
  <2>1. /\ run[r].pc = "close" /\ run[r].outcome = "success"
        /\ run[r].operation = "compress" /\ files'[run[r].output] = Sent(r)
    BY SuccessWritesAll
  <2>2. Sent(r) = FullFile(run[r].loaded)
    BY <2>1 DEF Sent
  <2>3. Len(run[r].loaded) = 2
    BY <2>1 DEF ToolInv, RunInv, LoadedOf
  <2> QED  BY <2>1, <2>2, <2>3 DEF FullFile
<1> QED  BY <1>1, ToolInvCorrect, PTL DEF Spec, CompressionComplete, CompleteCompression

CompleteDecompression ==
  \A r \in Runs : EndsWithSuccess(r, "decompress") /\ ~ run[r].bad =>
    \E q \in Runs :
      /\ CompressedInto(q, run[r].input)
      /\ files'[run[r].output] = TextFile(EncodedText(q))

\* The output of a decompression that reports success is the whole text of a
\* compression into its input.
THEOREM DecompressionCompleteCorrect ==
  ASSUME ~ SharedOutputs
  PROVE  Spec => DecompressionComplete
<1>1. ToolInv /\ [Next]_vars => [CompleteDecompression]_vars
  <2> SUFFICES ASSUME ToolInv, Next, NEW r \in Runs,
                      EndsWithSuccess(r, "decompress"), ~ run[r].bad
               PROVE  \E q \in Runs :
                        /\ CompressedInto(q, run[r].input)
                        /\ files'[run[r].output] = TextFile(EncodedText(q))
    BY DEF CompleteDecompression
  <2> DEFINE f == files[run[r].input]
             h == HeaderLength(r)
             position == run[r].position
  <2>1. /\ run[r].pc = "close" /\ run[r].outcome = "success"
        /\ run[r].operation = "decompress" /\ files'[run[r].output] = Sent(r)
    BY SuccessWritesAll
  <2>2. Reads(r) /\ run[r].pc # "read_header"
    BY <2>1 DEF Reads
  <2>3. Sent(r) = DecodedUpTo(f, h, position)
    BY <2>1 DEF Sent
  <2>4. h < position /\ f[h + 1].total = position - h - 1
    BY <2>1, <2>2 DEF ToolInv, RunInv, ReaderOf
  <2>5. PICK q \in Runs :
          /\ HasWritten(q, run[r].input)
          /\ h < position =>
               /\ Len(run[q].loaded) = 2
               /\ f[h + 1].total = position - h - 1 =>
                    DecodedUpTo(f, h, position) = TextFile(Encoded(run[q].loaded))
    BY <2>2, DecodedText
  <2>6. files'[run[r].output] = TextFile(EncodedText(q))
    BY <2>1, <2>3, <2>4, <2>5 DEF Encoded, EncodedText
  <2>7. CompressedInto(q, run[r].input)
    BY <2>4, <2>5 DEF HasWritten, CompressedInto
  <2> QED  BY <2>6, <2>7
<1> QED
  BY <1>1, ToolInvCorrect, PTL DEF Spec, DecompressionComplete, CompleteDecompression

-----------------------------------------------------------------------------
(* What the two theorems mean together for an input that nobody edits.     *)

\* If the second scan sees the text of the first one, nothing is left out.
LEMMA KnownPartOfItself ==
  ASSUME NEW text \in Seq(Characters)
  PROVE  KnownPart(text, Coded(text)) = text
<1>1. \A i \in DOMAIN text : text[i] \in Coded(text)
  BY DEF Coded, ToSet
<1>2. [i \in DOMAIN text |-> IF text[i] \in Coded(text) THEN <<text[i]>> ELSE <<>>]
        = [i \in DOMAIN text |-> <<text[i]>>]
  BY <1>1
<1> QED  BY <1>2, FlattenSingletons DEF KnownPart

RoundTrip ==
  \A r \in Runs : EndsWithSuccess(r, "decompress") /\ ~ run[r].bad =>
    \E q \in Runs :
      /\ CompressedInto(q, run[r].input)
      /\ files'[run[r].output] = TextFile(EncodedText(q))
      /\ run[q].loaded[1] = run[q].loaded[2] =>
           files'[run[r].output] = TextFile(run[q].loaded[1])

\* A decompression that reports success, if the disk had room for its output,
\* has written what one compression into its input encoded, and that is the text
\* itself if both scans of that compression saw the same one: whatever else runs,
\* fails or is killed, decompressing what was compressed without an edit
\* meanwhile gives the text back.
THEOREM RoundTripCorrect ==
  ASSUME ~ SharedOutputs
  PROVE  Spec => [][RoundTrip]_vars
<1>1. ToolInv /\ CompleteDecompression => RoundTrip
  <2> SUFFICES ASSUME ToolInv, CompleteDecompression, NEW r \in Runs,
                      EndsWithSuccess(r, "decompress"), ~ run[r].bad
               PROVE  \E q \in Runs :
                        /\ CompressedInto(q, run[r].input)
                        /\ files'[run[r].output] = TextFile(EncodedText(q))
                        /\ run[q].loaded[1] = run[q].loaded[2] =>
                             files'[run[r].output] = TextFile(run[q].loaded[1])
    BY DEF RoundTrip
  <2>1. PICK q \in Runs :
          /\ CompressedInto(q, run[r].input)
          /\ files'[run[r].output] = TextFile(EncodedText(q))
    BY DEF CompleteDecompression
  <2>2. run[q].loaded[1] \in Seq(Characters)
    <3>1. run[q].loaded \in Seq(Seq(Characters)) /\ Len(run[q].loaded) = 2
      BY <2>1 DEF CompressedInto, ToolInv, RunState
    <3>2. 1 \in 1 .. Len(run[q].loaded)
      BY <3>1
    <3> QED  BY <3>1, <3>2, ElementOfSeq
  <2>3. run[q].loaded[1] = run[q].loaded[2] => EncodedText(q) = run[q].loaded[1]
    BY <2>2, KnownPartOfItself DEF EncodedText
  <2> QED  BY <2>1, <2>3
<1>2. Spec => [][CompleteDecompression]_vars
  BY DecompressionCompleteCorrect DEF DecompressionComplete, CompleteDecompression
<1>3. ToolInv /\ [CompleteDecompression]_vars => [RoundTrip]_vars
  BY <1>1
<1> QED  BY <1>2, <1>3, ToolInvCorrect, PTL
=============================================================================
