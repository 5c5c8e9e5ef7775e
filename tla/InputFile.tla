------------------------------- MODULE InputFile -------------------------------
(***************************************************************************)
(* src/src/file_handler/input_file.cpp: load_file, one system call per     *)
(* step, and the object that it returns, which holds a copy of a small     *)
(* file (in_memory_input) or maps a large one (mmap_input).  A user may    *)
(* rewrite or remove the file in between: a copy is then out of date, and  *)
(* a mapping changes under its reader, who is killed by a fault when the   *)
(* file has become too short.                                              *)
(*                                                                         *)
(* utf8::next sees one version of a mapped file, and so does each read:    *)
(* they are much shorter than what comes between them.                     *)
(***************************************************************************)
EXTENDS Utf8, SequencesExt

CONSTANTS
  MaxBuffered,  \* MIN_FILE_SIZE_FOR_BUFFER
  PageOctets,   \* a mapping ends at the end of a page
  Files,        \* the files that the path may name when load_file is called
  Rewrites      \* what a user may write into it

File == [octets : Seq(Octet), exists : BOOLEAN, regular : BOOLEAN,
         readable : BOOLEAN, changes : Nat]

ASSUME FilesAssumption ==
  /\ MaxBuffered \in Nat \ {0} /\ PageOctets \in Nat \ {0}
  /\ Files \subseteq File /\ Rewrites \subseteq Seq(Octet)

VARIABLES
  pc,        \* where the call is
  file,      \* the file; .changes is how often the user still changes it
  versions,  \* history: what it has contained since load_file was called
  input,     \* the input_file object
  read       \* history: what next_codepoint has returned since the last reset

inputVars == <<pc, file, versions, input, read>>

InputInit ==
  /\ pc = "check"
  /\ file \in Files
  /\ versions = <<file.octets>>
  /\ input = [kind |-> "none", buffer |-> <<>>, size |-> 0, pos |-> 0]
  /\ read = <<>>

-----------------------------------------------------------------------------
\* load_file

Throw(what) == pc' = what /\ UNCHANGED <<file, versions, input, read>>

Continue(at) == pc' = at /\ UNCHANGED <<file, versions, input, read>>

\* fs::exists and fs::is_regular_file
CheckFile ==
  /\ pc = "check"
  /\ IF file.exists /\ file.regular THEN Continue("size")
     ELSE Throw("file_operation_error")

\* Mutant: every file is copied.
AlwaysIntoMemory(size) == TRUE

LoadsIntoMemory(size) == size < MaxBuffered

\* fs::file_size
GetFileLoadType ==
  /\ pc = "size"
  /\ IF ~ file.exists THEN Throw("file_operation_error")
     ELSE Continue(IF LoadsIntoMemory(Len(file.octets)) THEN "open" ELSE "map")

\* in_memory_input: what has been opened stays when it is removed.
OpenStream ==
  /\ pc = "open"
  /\ IF file.exists /\ file.readable THEN Continue("tell")
     ELSE Throw("file_operation_error")

TellSize ==
  /\ pc = "tell"
  /\ IF Len(file.octets) > MaxBuffered THEN Throw("file_operation_error")
     ELSE /\ pc' = "read"
          /\ input' = [input EXCEPT !.size = Len(file.octets)]
          /\ UNCHANGED <<file, versions, read>>

\* Mutant: the state of the stream is not asked.
NeverShort == FALSE

ShortRead == input.size > 0 /\ Len(file.octets) < input.size

\* buffer.resize has filled the buffer with zeros.
ReadStream ==
  /\ pc = "read"
  /\ IF ShortRead THEN Throw("file_operation_error")
     ELSE /\ pc' = "loaded"
          /\ input' = [input EXCEPT
                         !.kind = "memory",
                         !.buffer = [i \in 1 .. input.size |->
                                       IF i <= Len(file.octets)
                                         THEN file.octets[i] ELSE 0]]
          /\ UNCHANGED <<file, versions, read>>

\* mmap_input: mapped_file_source::open throws an exception of its own when it
\* cannot open the file or map it, as with an empty one.
MapFile ==
  /\ pc = "map"
  /\ IF file.exists /\ file.readable /\ file.octets # <<>>
       THEN /\ pc' = "loaded"
            /\ input' = [input EXCEPT !.kind = "mapped", !.size = Len(file.octets)]
            /\ UNCHANGED <<file, versions, read>>
       ELSE Throw("unknown_error")

-----------------------------------------------------------------------------
\* The object.

\* What data() points to: a file that became shorter is followed by zeros up to
\* the end of its last page.
Data ==
  IF input.kind = "memory" THEN input.buffer
  ELSE [i \in 1 .. input.size |->
          IF i <= Len(file.octets) THEN file.octets[i] ELSE 0]

Rest(p) == SubSeq(Data, p + 1, input.size)

\* The part of Rest(p) that can be accessed.
Present(p) ==
  LET pages == (Len(file.octets) + PageOctets - 1) \div PageOctets
  IN IF input.kind = "memory" THEN Rest(p)
     ELSE SubSeq(Data, p + 1, Min({input.size, pages * PageOctets}))

\* utf8::next at p goes on from trail to trail until it leaves the mapping.
Faults(p) ==
  LET octets == Present(p)
  IN /\ p + Len(octets) < input.size
     /\ octets # <<>> => /\ Len(octets) < SequenceLength(Head(octets))
                         /\ \A i \in 2 .. Len(octets) : IsTrail(octets[i])

\* utf8::next at p returns a codepoint.
Decodes(p) == ~ Faults(p) /\ StartsWithCodepoint(Rest(p))

CodepointAt(p) == CodePoint(Rest(p), SequenceLength(Rest(p)[1]))

\* Mutant: the iterator moves to the next octet.
AfterOctet(p) == p + 1

\* The iterator after it.
After(p) == p + SequenceLength(Data[p + 1])

\* At the end, and when utf8::next throws, nothing changes.
NextCodepoint ==
  /\ pc = "loaded"
  /\ input.pos < input.size
  /\ Decodes(input.pos)
  /\ read' = Append(read, CodepointAt(input.pos))
  /\ input' = [input EXCEPT !.pos = After(@)]
  /\ UNCHANGED <<pc, file, versions>>

Reset ==
  /\ pc = "loaded"
  /\ input' = [input EXCEPT !.pos = 0]
  /\ read' = <<>>
  /\ UNCHANGED <<pc, file, versions>>

-----------------------------------------------------------------------------
\* The user.

Rewrite ==
  /\ file.changes > 0
  /\ \E octets \in Rewrites :
       /\ file' = [file EXCEPT !.octets = octets, !.changes = @ - 1]
       /\ versions' = Append(versions, octets)
  /\ UNCHANGED <<pc, input, read>>

RemoveFile ==
  /\ file.changes > 0
  /\ file.exists
  /\ file' = [file EXCEPT !.exists = FALSE, !.changes = @ - 1]
  /\ UNCHANGED <<pc, versions, input, read>>

Load ==
  \/ CheckFile
  \/ GetFileLoadType
  \/ OpenStream
  \/ TellSize
  \/ ReadStream
  \/ MapFile

-----------------------------------------------------------------------------
\* Properties.

InputTypeOK ==
  /\ file \in File
  /\ input \in [kind : {"none", "memory", "mapped"}, buffer : Seq(Octet),
                size : Nat, pos : Nat]
  /\ input.pos <= input.size

Unchanged == Len(versions) = 1 /\ file.exists

\* A copy is never longer than the limit and is a beginning of one version of
\* the file, as long as some version: a size that was out of date when the file
\* was opened or read makes the load fail, or cuts the copy short, but never
\* fills it with octets that were not in the file.
CopyOfVersion ==
  input.kind = "memory" =>
    /\ Len(input.buffer) <= MaxBuffered
    /\ \E i \in DOMAIN versions : Len(versions[i]) = Len(input.buffer)
    /\ \E i \in DOMAIN versions : IsPrefix(input.buffer, versions[i])

\* A regular file that can be read and does not change is loaded, whatever its
\* size: at the limit the two ways of loading leave no gap.
UnchangedFileLoads ==
  Unchanged /\ file.regular /\ file.readable
    /\ pc \in {"file_operation_error", "unknown_error", "fault"} =>
      input.kind # "none"

\* What next_codepoint has returned since the last reset is the text in front
\* of the position, octet for octet, in both representations.
ReadsInOrder ==
  input.kind = "memory" \/ Unchanged =>
    FlattenSeq([i \in DOMAIN read |-> Utf8Append(read[i])])
      = SubSeq(Data, 1, input.pos)

\* A file that cannot be loaded is reported by a file_operation_exception
\* (input_file.hpp:84), which a mapping that fails is not.
LoadErrorsAreFileErrors == pc # "unknown_error"
=============================================================================
