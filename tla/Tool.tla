--------------------------------- MODULE Tool ---------------------------------
(***************************************************************************)
(* Runs of the program side by side on one file system: main, the checks   *)
(* of validate_arguments, compress::run and decompress::run, one file      *)
(* access per step, with the user editing or removing files and killing    *)
(* runs in between, and a disk that may fill up.                           *)
(*                                                                         *)
(* A file is a sequence of tokens.  A text has one token per codepoint (or *)
(* invalid UTF-8 sequence); a compressed file has the number of header     *)
(* entries, the entries, the number of codes and the codes.  Which bits a  *)
(* code has is the subject of PrefixCodes and Decompress; here it is known *)
(* by its codepoint.                                                       *)
(*                                                                         *)
(* Each of the compressor's two scans of its input sees one text.  For the *)
(* first scan InputFile and FrequencyTable take the steps apart.  A large  *)
(* input is mapped, and the second scan reads what is in the file at that  *)
(* moment; if the user writes while it is under way it sees a mixture of   *)
(* two texts, here a text that was there for a moment.  If the file is cut *)
(* meanwhile a fault ends the process, here a kill.                        *)
(***************************************************************************)
EXTENDS Integers, SequencesExt, FiniteSetsExt

CONSTANTS
  Runs,           \* the invocations of the program
  CommandLines,   \* the arguments they may get, without the program's name
  UserFiles,      \* path -> text, the files the user has
  Texts,          \* what the user may put into one of them
  Invalid,        \* an invalid UTF-8 sequence in a text
  Unsearchable,   \* the paths in a directory that must not be searched
  Creatable,      \* the paths at which a file can be created
  SharedOutputs,  \* runs with the same output may overlap
  DiskMayFill,
  MaxKills        \* how many runs are killed

VARIABLES
  files,  \* path -> content, for the paths that exist
  run     \* what each invocation has in memory

vars == <<files, run>>

-----------------------------------------------------------------------------
\* validate_arguments: the words of the command line.

Flagged(words) ==
  words # <<>> /\ Head(words) \in {"--compress", "--decompress"}

Operation(words) ==
  IF Flagged(words) /\ Head(words) = "--decompress"
    THEN "decompress" ELSE "compress"

PathArguments(words) == IF Flagged(words) THEN Tail(words) ELSE words

UsageError(words) == Len(PathArguments(words)) \notin {1, 2}

DefaultOutput(operation) ==
  IF operation = "compress" THEN "output.compressed" ELSE "output.decompressed"

OutputPath(words) ==
  IF Len(PathArguments(words)) = 2
    THEN PathArguments(words)[2]
    ELSE DefaultOutput(Operation(words))

\* The paths that the command lines read from and write to.
Inputs(operation) ==
  {PathArguments(words)[1] : words \in
     {w \in CommandLines : ~ UsageError(w) /\ Operation(w) = operation}}

Outputs(operation) ==
  {OutputPath(words) : words \in
     {w \in CommandLines : ~ UsageError(w) /\ Operation(w) = operation}}

TextPaths == DOMAIN UserFiles \union Inputs("compress") \union Outputs("decompress")

CompressedPaths == Outputs("compress") \union Inputs("decompress")

\* No run reads a file of the other kind, whose tokens would mean nothing to it:
\* what the decompressor makes of arbitrary bytes is the subject of Decompress,
\* and what the compressor makes of them that of FrequencyTable.
ASSUME KindsAssumption == TextPaths \intersect CompressedPaths = {}

-----------------------------------------------------------------------------
\* What the files contain.

Characters == UNION {ToSet(t) : t \in Texts}

ASSUME TextsAssumption ==
  /\ Texts \subseteq Seq(Characters)
  /\ \A path \in DOMAIN UserFiles : UserFiles[path] \in Texts

TextFile(text) == [i \in DOMAIN text |-> [char |-> text[i]]]

Valid(text) == \A i \in DOMAIN text : text[i] # Invalid

\* The codepoints that build_frequency_table and generate_prefix_codes give a
\* code for.
Coded(text) == ToSet(text)

\* write_header
Header(symbols) ==
  IF symbols = {}
    THEN <<[count |-> 0]>>
    ELSE <<[count |-> Cardinality(symbols)], [entries |-> symbols]>>

\* A codepoint without a code is skipped.
KnownPart(text, symbols) ==
  FlattenSeq([i \in DOMAIN text |->
                IF text[i] \in symbols THEN <<text[i]>> ELSE <<>>])

\* write_file_contents
Contents(text, symbols) ==
  LET known == KnownPart(text, symbols)
  IN <<[total |-> Len(known)]>> \o [i \in DOMAIN known |-> [code |-> known[i]]]

Exists(path) == path \in DOMAIN files

WithFile(path, content) ==
  [q \in DOMAIN files \union {path} |-> IF q = path THEN content ELSE files[q]]

\* The content of a file after data has been written to it behind the first
\* `at` tokens; if another run has truncated it meanwhile there is a gap.
Overlay(content, at, data) ==
  [i \in 1 .. Max({Len(content), at + Len(data)}) |->
     IF i \in at + 1 .. at + Len(data)
       THEN data[i - at]
       ELSE IF i \in DOMAIN content THEN content[i] ELSE [gap |-> TRUE]]

-----------------------------------------------------------------------------

Init ==
  /\ files = [p \in DOMAIN UserFiles |-> TextFile(UserFiles[p])]
  /\ run = [r \in Runs |->
              [pc |-> "idle",
               operation |-> "compress",
               input |-> "",
               output |-> "",
               loaded |-> <<>>,       \* the texts that its scans of the input saw
               symbols |-> {},        \* keys of the map of codes
               position |-> 0,        \* tokens read by the decompressor
               remaining |-> 0,       \* codes it still expects
               pending |-> <<>>,      \* output not yet handed to the system
               written |-> 0,         \* length of the output that has been
               bad |-> FALSE,         \* the output stream has failed
               outcome |-> "none"]]   \* how the run ends

Running(r) == run[r].pc \notin {"idle", "done"}

At(r, pc) == run[r].pc = pc

\* The object `out` exists.
HasOutput(r) ==
  run[r].pc \in {"header", "reload", "contents", "total", "decode", "close"}

\* The process is gone, with all its memory; what it has loaded and how it
\* ended is remembered for the properties.
Ended(state, how) ==
  [state EXCEPT !.pc = "done", !.outcome = how, !.symbols = {}, !.position = 0,
                !.remaining = 0, !.pending = <<>>, !.written = 0, !.bad = FALSE]

\* The run has no output file, or nothing more for it, and ends.
Exit(r, how) ==
  /\ run' = [run EXCEPT ![r] = Ended(@, how)]
  /\ UNCHANGED files

\* The call returns or throws with an output file open: its destructor comes
\* next.
Unwind(r, how) ==
  /\ run' = [run EXCEPT ![r].pc = "close", ![r].outcome = how]
  /\ UNCHANGED files

\* A run is started; unless SharedOutputs the user waits for a running one
\* with the same output.
Start(r, words) ==
  /\ At(r, "idle")
  /\ IF UsageError(words)
       THEN Exit(r, "argument_error")
       ELSE /\ SharedOutputs
               \/ \A q \in Runs : Running(q) => run[q].output # OutputPath(words)
            /\ run' = [run EXCEPT ![r].pc = "check_input",
                                  ![r].operation = Operation(words),
                                  ![r].input = PathArguments(words)[1],
                                  ![r].output = OutputPath(words)]
            /\ UNCHANGED files

\* std::filesystem::exists throws an exception of its own when it cannot tell.
CheckThrows(r) ==
  /\ \/ At(r, "check_input") /\ run[r].input \in Unsearchable
     \/ At(r, "check_output") /\ run[r].output \in Unsearchable
  /\ Exit(r, "unknown_error")

CheckInput(r) ==
  /\ At(r, "check_input")
  /\ run[r].input \notin Unsearchable
  /\ IF Exists(run[r].input)
       THEN run' = [run EXCEPT ![r].pc = "check_output"] /\ UNCHANGED files
       ELSE Exit(r, "argument_error")

\* Mutant: an output that exists is accepted.
CheckOutputNever(r) ==
  /\ At(r, "check_output")
  /\ run' = [run EXCEPT ![r].pc = IF run[r].operation = "compress"
                                    THEN "load" ELSE "open"]
  /\ UNCHANGED files

CheckOutput(r) ==
  /\ At(r, "check_output")
  /\ run[r].output \notin Unsearchable
  /\ IF Exists(run[r].output)
       THEN Exit(r, "argument_error")
       ELSE /\ run' = [run EXCEPT ![r].pc = IF run[r].operation = "compress"
                                              THEN "load" ELSE "open"]
            /\ UNCHANGED files

\* The output file is created, or truncated if somebody has created it since
\* CheckOutput.
CreateOutput(r) ==
  /\ At(r, "create")
  /\ IF run[r].output \in Creatable
       THEN /\ files' = WithFile(run[r].output, <<>>)
            /\ run' = [run EXCEPT ![r].pc = IF run[r].operation = "compress"
                                              THEN "header" ELSE "total"]
       ELSE Exit(r, "file_operation_error")

-----------------------------------------------------------------------------
\* The output stream: a buffer in the run, handed over piece by piece.

\* The first n tokens that are pending reach the file.
Flushed(r, n) ==
  WithFile(run[r].output,
           Overlay(files[run[r].output], run[r].written,
                   SubSeq(run[r].pending, 1, n)))

\* The buffer is full in the middle of the run.
Flush(r) ==
  /\ HasOutput(r)
  /\ ~ At(r, "close")
  /\ ~ run[r].bad
  /\ \E n \in 1 .. Len(run[r].pending) :
       /\ files' = Flushed(r, n)
       /\ run' = [run EXCEPT ![r].pending = SubSeq(@, n + 1, Len(@)),
                             ![r].written = @ + n]

\* The disk takes a part of the buffer.  The stream remembers that it has
\* failed and drops everything that follows; nobody asks it.
DiskFull(r) ==
  /\ DiskMayFill
  /\ HasOutput(r)
  /\ ~ run[r].bad
  /\ \E n \in 0 .. (Len(run[r].pending) - 1) :
       /\ files' = Flushed(r, n)
       /\ run' = [run EXCEPT ![r].pending = <<>>,
                             ![r].written = @ + n,
                             ![r].bad = TRUE]

\* Mutant: the buffer fills up again after a failure.
PutAlways(state, data) == [state EXCEPT !.pending = @ \o data]

\* output_file::write
Put(state, data) ==
  [state EXCEPT !.pending = IF state.bad THEN @ ELSE @ \o data]

\* Mutant: the stream is not closed when the run ends.
CloseWithoutFlush(r) ==
  /\ At(r, "close")
  /\ run' = [run EXCEPT ![r] = Ended(@, @.outcome)]
  /\ UNCHANGED files

\* ~output_file, and main's exit code.
Close(r) ==
  /\ At(r, "close")
  /\ files' = IF run[r].bad THEN files ELSE Flushed(r, Len(run[r].pending))
  /\ run' = [run EXCEPT ![r] = Ended(@, @.outcome)]

-----------------------------------------------------------------------------
\* compress::run

\* What a scan of the input sees.
TextAt(path) == [i \in DOMAIN files[path] |-> files[path][i].char]

\* Mutant: the scan passes over an invalid sequence.
LoadUnchecked(r) ==
  /\ At(r, "load")
  /\ IF Exists(run[r].input)
       THEN /\ run' = [run EXCEPT ![r].loaded = <<TextAt(run[r].input)>>,
                                  ![r].symbols = Coded(TextAt(run[r].input)) \ {Invalid},
                                  ![r].pc = "create"]
            /\ UNCHANGED files
       ELSE Exit(r, "file_operation_error")

\* build_frequency_table and generate_prefix_codes follow without touching a
\* file; an invalid sequence makes the first of them throw.
Load(r) ==
  /\ At(r, "load")
  /\ IF Exists(run[r].input) /\ Valid(TextAt(run[r].input))
       THEN /\ run' = [run EXCEPT ![r].loaded = <<TextAt(run[r].input)>>,
                                  ![r].symbols = Coded(TextAt(run[r].input)),
                                  ![r].pc = "create"]
            /\ UNCHANGED files
       ELSE Exit(r, "file_operation_error")

WriteHeader(r) ==
  /\ At(r, "header")
  /\ run' = [run EXCEPT ![r] = [Put(@, Header(@.symbols)) EXCEPT !.pc = "reload"]]
  /\ UNCHANGED files

\* Mutant: a load that fails is tried again.
ReloadRetried(r) ==
  /\ At(r, "reload")
  /\ Exists(run[r].input)
  /\ run' = [run EXCEPT ![r].loaded = Append(@, TextAt(run[r].input)),
                        ![r].pc = "contents"]
  /\ UNCHANGED files

\* load_file and the scan of write_file_contents: the text is the one that is
\* there when the scan reads it.
Reload(r) ==
  /\ At(r, "reload")
  /\ IF Exists(run[r].input)
       THEN /\ run' = [run EXCEPT ![r].loaded = Append(@, TextAt(run[r].input)),
                                  ![r].pc = "contents"]
            /\ UNCHANGED files
       ELSE Unwind(r, "file_operation_error")

\* utf8::next throws inside a noexcept function: std::terminate, and what is
\* pending is lost.
WriteFileContents(r) ==
  /\ At(r, "contents")
  /\ LET text == run[r].loaded[2]
     IN IF Valid(text)
          THEN /\ run' = [run EXCEPT ![r] =
                            [Put(@, Contents(text, @.symbols)) EXCEPT
                               !.pc = "close", !.outcome = "success"]]
               /\ UNCHANGED files
          ELSE Exit(r, "terminated")

-----------------------------------------------------------------------------
\* decompress::run

Open(r) ==
  /\ At(r, "open")
  /\ IF Exists(run[r].input)
       THEN run' = [run EXCEPT ![r].pc = "read_header"] /\ UNCHANGED files
       ELSE Exit(r, "file_operation_error")

\* What the stream delivers from where the run has come to: the files are read
\* while others may still write them.
Unread(r) ==
  LET content == files[run[r].input]
  IN SubSeq(content, run[r].position + 1, Len(content))

\* The symbols of a header, read until its count is reached.
HeaderComplete(tokens) ==
  tokens # <<>> /\ (Head(tokens).count = 0 \/ Len(tokens) > 1)

HeaderSymbols(tokens) ==
  IF Head(tokens).count = 0 THEN {} ELSE tokens[2].entries

ReadHeader(r) ==
  /\ At(r, "read_header")
  /\ IF HeaderComplete(Unread(r))
       THEN /\ LET symbols == HeaderSymbols(Unread(r))
               IN run' = [run EXCEPT ![r].symbols = symbols,
                                     ![r].position = Len(Header(symbols)),
                                     ![r].pc = "create"]
            /\ UNCHANGED files
       ELSE Exit(r, "file_operation_error")

\* decode_and_write reads the number of codes.
ReadTotal(r) ==
  /\ At(r, "total")
  /\ IF Unread(r) = <<>>
       THEN Unwind(r, "file_operation_error")
       ELSE /\ run' = [run EXCEPT ![r].remaining = Head(Unread(r)).total,
                                  ![r].position = @ + 1,
                                  ![r].pc = "decode"]
            /\ UNCHANGED files

\* Mutant: the end of the file counts as the end of the payload.
DecodeToEnd(r) ==
  /\ At(r, "decode")
  /\ run[r].remaining > 0
  /\ IF Unread(r) = <<>>
       THEN Unwind(r, "success")
       ELSE /\ run' = [run EXCEPT ![r] =
                         [Put(run[r], <<[char |-> Head(Unread(r)).code]>>) EXCEPT
                            !.remaining = @ - 1, !.position = @ + 1]]
            /\ UNCHANGED files

\* A codepoint is decoded.  If the codes end too early the exception drops
\* what is in out_buf, the later part of what is pending.
Decode(r) ==
  /\ At(r, "decode")
  /\ run[r].remaining > 0
  /\ IF Unread(r) = <<>>
       THEN \E n \in 0 .. Len(run[r].pending) :
              /\ run' = [run EXCEPT ![r].pending = SubSeq(@, 1, n),
                                    ![r].pc = "close",
                                    ![r].outcome = "file_operation_error"]
              /\ UNCHANGED files
       ELSE /\ run' = [run EXCEPT ![r] =
                         [Put(run[r], <<[char |-> Head(Unread(r)).code]>>) EXCEPT
                            !.remaining = @ - 1, !.position = @ + 1]]
            /\ UNCHANGED files

DecodeEnds(r) ==
  /\ At(r, "decode")
  /\ run[r].remaining = 0
  /\ Unwind(r, "success")

-----------------------------------------------------------------------------
\* The user.

\* A file is written by an editor; like Start, not where a run is going to
\* write unless SharedOutputs.
Edit(path) ==
  /\ SharedOutputs \/ \A r \in Runs : Running(r) => run[r].output # path
  /\ \E text \in Texts : files' = WithFile(path, TextFile(text))
  /\ UNCHANGED run

\* A file that no run has open is removed.
RemoveFile(path) ==
  /\ Exists(path)
  /\ \A r \in Runs : Running(r) =>
       path # run[r].output /\ (path = run[r].input => run[r].operation = "compress")
  /\ files' = [q \in DOMAIN files \ {path} |-> files[q]]
  /\ UNCHANGED run

Kill(r) ==
  /\ Running(r)
  /\ Cardinality({q \in Runs : run[q].outcome = "killed"}) < MaxKills
  /\ Exit(r, "killed")

Step(r) ==
  \/ CheckThrows(r)
  \/ CheckInput(r)
  \/ CheckOutput(r)
  \/ CreateOutput(r)
  \/ Flush(r)
  \/ Close(r)
  \/ Load(r)
  \/ WriteHeader(r)
  \/ Reload(r)
  \/ WriteFileContents(r)
  \/ Open(r)
  \/ ReadHeader(r)
  \/ ReadTotal(r)
  \/ Decode(r)
  \/ DecodeEnds(r)

Next ==
  \/ \E r \in Runs :
       \/ \E words \in CommandLines : Start(r, words)
       \/ Step(r)
       \/ DiskFull(r)
       \/ Kill(r)
  \/ \E path \in DOMAIN UserFiles : Edit(path)
  \/ \E path \in DOMAIN files : RemoveFile(path)

\* A run that has been started goes on; nobody has to start, edit, remove or
\* kill anything.
Spec == Init /\ [][Next]_vars /\ \A r \in Runs : WF_vars(Step(r))

-----------------------------------------------------------------------------
\* Properties.

IsToken(t) ==
  \/ t \in [char : Characters]
  \/ t \in [count : Nat]
  \/ t \in [entries : SUBSET Characters]
  \/ t \in [total : Nat]
  \/ t \in [code : Characters]
  \/ t \in [gap : {TRUE}]

\* The type invariant: the output of a run exists while the run has it open,
\* and a stream that has failed has nothing pending.
TypeOK ==
  /\ \A path \in DOMAIN files : \A i \in DOMAIN files[path] : IsToken(files[path][i])
  /\ \A r \in Runs :
       /\ run[r].pc \in {"idle", "check_input", "check_output", "load", "header",
                         "reload", "contents", "open", "read_header", "create",
                         "total", "decode", "close", "done"}
       /\ run[r].outcome \in {"none", "success", "argument_error",
                              "file_operation_error", "unknown_error",
                              "terminated", "killed"}
       /\ HasOutput(r) => Exists(run[r].output)
       /\ run[r].pending # <<>> => HasOutput(r)
       /\ run[r].bad => run[r].pending = <<>>

\* The run reports success in this step.
EndsWithSuccess(r, operation) ==
  /\ Running(r) /\ run[r].operation = operation
  /\ run'[r].pc = "done" /\ run'[r].outcome = "success"

\* A file that exists changes only in a step of the run that has created it, or
\* by the user's hand: no run writes over its input, another run's output or a
\* file of the user, as long as runs with one output do not overlap.
OnlyOwnOutputsChange ==
  [][ \A path \in DOMAIN files \intersect DOMAIN files' :
        files'[path] # files[path] =>
          \/ run' = run /\ path \in DOMAIN UserFiles
          \/ \E r \in Runs :
               HasOutput(r) /\ run[r].output = path /\ run'[r] # run[r] ]_vars

\* When a compression reports success and the disk had room its output is
\* complete: the header is that of the first scan, and the contents encode what
\* the second scan saw up to codepoints that are new in it.  No run beside it,
\* edit or earlier failure changes that, and without an edit nothing is lost.
CompressionComplete ==
  [][ \A r \in Runs : EndsWithSuccess(r, "compress") /\ ~ run[r].bad =>
        LET symbols == Coded(run[r].loaded[1])
        IN files'[run[r].output]
             = Header(symbols) \o Contents(run[r].loaded[2], symbols) ]_vars

\* The text that a compression has encoded.
EncodedText(r) == KnownPart(run[r].loaded[2], Coded(run[r].loaded[1]))

CompressedInto(r, path) ==
  run[r].operation = "compress" /\ run[r].output = path /\ Len(run[r].loaded) = 2

\* When a decompression reports success and the disk had room it has written
\* the text of a compression into its input, also when it started before that
\* compression had finished, and never a part of it, as left by a run that was
\* killed, failed, lacked room or is still writing.
DecompressionComplete ==
  [][ \A r \in Runs : EndsWithSuccess(r, "decompress") /\ ~ run[r].bad =>
        \E q \in Runs :
          /\ CompressedInto(q, run[r].input)
          /\ files'[run[r].output] = TextFile(EncodedText(q)) ]_vars

\* Whatever fails, a decompression under way has written a beginning of the
\* text of a compression into its input.
NothingInvented ==
  \A r \in Runs :
    HasOutput(r) /\ run[r].operation = "decompress" /\ run[r].written > 0 =>
      \E q \in Runs :
        /\ CompressedInto(q, run[r].input)
        /\ IsPrefix(files[run[r].output], TextFile(EncodedText(q)))

\* A run is terminated by its own exception only when its two scans saw different
\* texts, because the input changed while it was running.
TerminatedOnlyByEdit ==
  \A r \in Runs :
    run[r].outcome = "terminated" => run[r].loaded[1] # run[r].loaded[2]

\* Every run that is started ends.
EveryRunEnds == \A r \in Runs : Running(r) ~> At(r, "done")

-----------------------------------------------------------------------------
\* What the documentation says, which overlapping runs do not keep to.

\* The output must not exist (README.md:115).
OutputMustNotExist ==
  [][ \A r \in Runs : At(r, "create") /\ ~ At(r, "create")' /\ HasOutput(r)' =>
        ~ Exists(run[r].output) ]_vars
=============================================================================
