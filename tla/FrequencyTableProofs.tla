------------------------- MODULE FrequencyTableProofs -------------------------
(***************************************************************************)
(* Machine-checked proofs about FrequencyTable and the InputFile it        *)
(* extends, for every set of files, every limit between copying and        *)
(* mapping and every number of changes by the user.                        *)
(***************************************************************************)
EXTENDS FrequencyTable, SequenceLemmas, FiniteSetTheorems, TLAPS

-----------------------------------------------------------------------------
(* The inductive invariant.                                                *)

Loading == {"check", "size", "open", "tell", "read", "map"}

Failed == {"file_operation_error", "unknown_error", "fault"}

\* Where the call is tells whether there is an object, and its size is that of
\* its buffer.
ObjectInv ==
  /\ pc \in Loading => input.kind = "none"
  /\ pc \in {"loaded", "scan", "returned"} => input.kind # "none"
  /\ input.kind = "none" => input.pos = 0 /\ curr = 0
  /\ input.kind = "memory" => Len(input.buffer) = input.size

\* The file contains its last version, and a size that was told is that of some
\* version.
VersionsInv ==
  /\ versions \in Seq(Seq(Octet))
  /\ versions # <<>>
  /\ versions[Len(versions)] = file.octets
  /\ pc = "read" =>
       /\ input.size <= MaxBuffered
       /\ \E i \in DOMAIN versions : Len(versions[i]) = input.size

\* What the call has found out about a file that has not changed.
QuietInv ==
  Unchanged /\ file.regular /\ file.readable =>
    /\ pc \in Failed => input.kind # "none"
    /\ pc \in {"open", "tell"} => Len(file.octets) < MaxBuffered
    /\ pc = "read" => input.size = Len(file.octets)
    /\ pc = "map" => Len(file.octets) >= MaxBuffered

IInv == TypeOK /\ ObjectInv /\ VersionsInv /\ CopyOfVersion /\ QuietInv

-----------------------------------------------------------------------------
(* The conversions.                                                        *)

\* The length of a sequence is a natural number.
LEMMA SequenceLengthType ==
  ASSUME NEW lead
  PROVE  SequenceLength(lead) \in {0, 1, 2, 3, 4}
BY Zenon DEF SequenceLength

\* Counting makes at most one entry and leaves no entry at zero.
LEMMA CountedBag ==
  ASSUME NEW counts, IsABag(counts), NEW c
  PROVE  /\ IsABag(Counted(counts, c))
         /\ DOMAIN Counted(counts, c) = DOMAIN counts \union {c}
BY DEF IsABag, Counted

\* Counting an index of the array makes no entry.
LEMMA CountedArray ==
  ASSUME NEW S, NEW counts \in [S -> Nat], NEW c \in S
  PROVE  Counted(counts, c) \in [S -> Nat]
BY DEF Counted

\* The data of a file is a sequence.
LEMMA DataType ==
  ASSUME IInv, input.kind # "none"
  PROVE  Data \in Seq(Octet) /\ Len(Data) = input.size
<1>1. input.size \in Nat /\ file.octets \in Seq(Octet) /\ input.buffer \in Seq(Octet)
  BY DEF IInv, TypeOK, InputTypeOK, File
<1>2. CASE input.kind = "memory"
  BY <1>1, <1>2 DEF Data, IInv, ObjectInv
<1>3. CASE input.kind # "memory"
  <2>1. \A i \in 1 .. input.size :
          (IF i <= Len(file.octets) THEN file.octets[i] ELSE 0) \in Octet
    <3>1. Len(file.octets) \in Nat
          /\ \A i \in 1 .. Len(file.octets) : file.octets[i] \in Octet
      BY <1>1, LenProperties, ElementOfSeq
    <3> QED  BY <1>1, <3>1 DEF Octet
  <2>2. Data = [i \in 1 .. input.size |->
                  IF i <= Len(file.octets) THEN file.octets[i] ELSE 0]
    BY <1>3 DEF Data
  <2> QED  BY <1>1, <2>1, <2>2
<1> QED  BY <1>2, <1>3

\* The iterator never leaves the input.
LEMMA AfterBound ==
  ASSUME IInv, input.kind # "none", NEW p \in Nat, p < input.size, Decodes(p)
  PROVE  After(p) \in (p + 1) .. input.size
<1> DEFINE octets == Rest(p)
           n == SequenceLength(octets[1])
<1>1. input.size \in Nat
  BY DEF IInv, TypeOK, InputTypeOK
<1>2. Data \in Seq(Octet) /\ Len(Data) = input.size
  BY DataType
<1>3. Len(octets) = input.size - p /\ octets[1] = Data[p + 1]
  <2>1. p + 1 \in 1 .. (Len(Data) + 1) /\ input.size \in p .. Len(Data)
    BY <1>1, <1>2
  <2> QED  BY <1>1, <1>2, <2>1, SubSeqProperties DEF Rest
<1>4. n \in {0, 1, 2, 3, 4}
  BY SequenceLengthType
<1>5. n > 0 /\ \A i \in 2 .. n : i <= Len(octets)
  BY DEF Decodes, StartsWithCodepoint
<1>6. After(p) = p + n
  BY <1>3 DEF After
<1> HIDE DEF n, octets
<1>7. n <= Len(octets)
  BY <1>1, <1>3, <1>4, <1>5
<1> QED  BY <1>1, <1>3, <1>4, <1>5, <1>6, <1>7

-----------------------------------------------------------------------------
(* The invariant is inductive.                                             *)

\* The invariant holds initially.
LEMMA IInvInit == Init => IInv
<1> SUFFICES ASSUME Init PROVE IInv
  OBVIOUS
<1> USE DEF Init, InputInit
<1>1. file \in File /\ file.octets \in Seq(Octet)
  BY FilesAssumption DEF File
<1>2. TypeOK
  <2>1. IsABag(unicode_counts) /\ DOMAIN unicode_counts \subseteq Nat
    BY DEF EmptyBag, SetToBag, IsABag
  <2>2. ascii_counts \in [0 .. (AsciiCount - 1) -> Nat]
    OBVIOUS
  <2>3. input \in [kind : {"none", "memory", "mapped"}, buffer : Seq(Octet),
                   size : Nat, pos : Nat]
    OBVIOUS
  <2> QED  BY <1>1, <2>1, <2>2, <2>3 DEF TypeOK, InputTypeOK
<1>3. VersionsInv
  BY <1>1 DEF VersionsInv
<1>4. ObjectInv /\ CopyOfVersion /\ QuietInv
  BY DEF ObjectInv, Loading, CopyOfVersion, QuietInv, Failed
<1> QED  BY <1>2, <1>3, <1>4 DEF IInv

\* A step that changes nothing but where the call is.
LEMMA IInvMove ==
  ASSUME IInv, UNCHANGED <<file, versions, input, read, tableVars>>,
         pc' \in Failed \union {"size", "open", "tell", "map", "scan"},
         pc' \in Loading => input.kind = "none",
         pc' = "scan" => input.kind # "none",
         Unchanged /\ file.regular /\ file.readable =>
           /\ pc' \in Failed => input.kind # "none"
           /\ pc' \in {"open", "tell"} => Len(file.octets) < MaxBuffered
           /\ pc' = "map" => Len(file.octets) >= MaxBuffered
  PROVE  IInv'
<1> USE DEF IInv, Failed, tableVars
<1>1. TypeOK'
  BY DEF TypeOK, InputTypeOK
<1>2. ObjectInv'
  BY DEF ObjectInv, Loading
<1>3. VersionsInv' /\ CopyOfVersion'
  BY DEF VersionsInv, CopyOfVersion
<1>4. QuietInv'
  BY DEF QuietInv, Unchanged
<1> QED  BY <1>1, <1>2, <1>3, <1>4

\* CheckFile preserves the invariant.
LEMMA IInvCheckFile ==
  ASSUME IInv, CheckFile, UNCHANGED tableVars
  PROVE  IInv'
<1>1. input.kind = "none"
  BY DEF IInv, ObjectInv, CheckFile, Loading
<1> QED
  BY <1>1, IInvMove DEF CheckFile, Throw, Continue, Failed, Unchanged

\* GetFileLoadType preserves the invariant.
LEMMA IInvGetFileLoadType ==
  ASSUME IInv, GetFileLoadType, UNCHANGED tableVars
  PROVE  IInv'
<1>1. input.kind = "none"
  BY DEF IInv, ObjectInv, GetFileLoadType, Loading
<1>2. Len(file.octets) \in Nat /\ MaxBuffered \in Nat
  BY FilesAssumption, LenProperties DEF IInv, TypeOK, InputTypeOK, File
<1> QED
  BY <1>1, <1>2, IInvMove
  DEF GetFileLoadType, LoadsIntoMemory, Throw, Continue, Failed, Unchanged

\* OpenStream preserves the invariant.
LEMMA IInvOpenStream ==
  ASSUME IInv, OpenStream, UNCHANGED tableVars
  PROVE  IInv'
<1>1. input.kind = "none"
  BY DEF IInv, ObjectInv, OpenStream, Loading
<1> QED
  BY <1>1, IInvMove
  DEF OpenStream, Throw, Continue, Failed, Unchanged, IInv, QuietInv

\* BuildFrequencyTable preserves the invariant.
LEMMA IInvBuildFrequencyTable ==
  ASSUME IInv, BuildFrequencyTable
  PROVE  IInv'
<1>1. input.kind # "none"
  BY DEF IInv, ObjectInv, BuildFrequencyTable
<1> QED
  BY <1>1, IInvMove DEF BuildFrequencyTable, Failed, Loading

\* ScanEnds preserves the invariant.
LEMMA IInvScanEnds ==
  ASSUME IInv, ScanFails \/ ScanFaults
  PROVE  IInv'
<1>1. pc = "scan" /\ input.kind # "none"
  BY DEF IInv, ObjectInv, ScanFails, ScanFaults, Scanning
<1> QED
  BY <1>1, IInvMove DEF ScanFails, ScanFaults, Throw, Failed, Loading

\* TellSize preserves the invariant.
LEMMA IInvTellSize ==
  ASSUME IInv, TellSize, UNCHANGED tableVars
  PROVE  IInv'
<1>1. /\ pc = "tell" /\ input.kind = "none" /\ input.pos = 0 /\ curr = 0
      /\ Len(file.octets) \in Nat /\ MaxBuffered \in Nat
  BY FilesAssumption, LenProperties
  DEF IInv, ObjectInv, TypeOK, InputTypeOK, File, TellSize, Loading
<1>2. CASE Len(file.octets) > MaxBuffered
  <2>1. ~ (Unchanged /\ file.regular /\ file.readable)
    BY <1>1, <1>2 DEF IInv, QuietInv
  <2> QED  BY <1>1, <1>2, <2>1, IInvMove DEF TellSize, Throw, Failed, Loading
<1>3. CASE ~ (Len(file.octets) > MaxBuffered)
  <2>1. /\ pc' = "read" /\ input' = [input EXCEPT !.size = Len(file.octets)]
        /\ UNCHANGED <<file, versions, read, tableVars>>
    BY <1>3 DEF TellSize
  <2>2. TypeOK'
    BY <1>1, <2>1 DEF IInv, TypeOK, InputTypeOK, tableVars
  <2>3. ObjectInv'
    BY <1>1, <2>1 DEF IInv, TypeOK, InputTypeOK, ObjectInv, Loading, tableVars
  <2>4. VersionsInv'
    <3>1. Len(versions) \in DOMAIN versions
      BY LenProperties, EmptySeq DEF IInv, VersionsInv
    <3>2. input'.size = Len(file.octets) /\ Len(file.octets) <= MaxBuffered
      BY <1>1, <1>3, <2>1 DEF IInv, TypeOK, InputTypeOK
    <3> QED  BY <2>1, <3>1, <3>2 DEF IInv, VersionsInv
  <2>5. CopyOfVersion' /\ QuietInv'
    BY <1>1, <2>1
    DEF IInv, TypeOK, InputTypeOK, CopyOfVersion, QuietInv, Failed, Unchanged
  <2> QED  BY <2>2, <2>3, <2>4, <2>5 DEF IInv
<1> QED  BY <1>2, <1>3

\* What a user does to a file leaves a file.
LEMMA FileRewritten ==
  ASSUME NEW f \in File, NEW octets \in Seq(Octet), NEW n \in Nat
  PROVE  /\ [f EXCEPT !.octets = octets, !.changes = n] \in File
         /\ [f EXCEPT !.octets = octets, !.changes = n].octets = octets
BY Zenon DEF File

\* A file that is removed stays a file, with its octets.
LEMMA FileRemoved ==
  ASSUME NEW f \in File, NEW n \in Nat
  PROVE  /\ [f EXCEPT !.exists = FALSE, !.changes = n] \in File
         /\ [f EXCEPT !.exists = FALSE, !.changes = n].octets = f.octets
         /\ [f EXCEPT !.exists = FALSE, !.changes = n].exists = FALSE
BY Zenon DEF File

\* The buffer that a read fills when the stream has enough octets.
LEMMA ReadBuffer ==
  ASSUME NEW octets \in Seq(Octet), NEW size \in Nat,
         size = 0 \/ ~ (Len(octets) < size)
  PROVE  LET buffer == [i \in 1 .. size |-> IF i <= Len(octets) THEN octets[i] ELSE 0]
         IN /\ buffer \in Seq(Octet)
            /\ Len(buffer) = size
            /\ IsPrefix(buffer, octets)
<1> DEFINE buffer == [i \in 1 .. size |-> IF i <= Len(octets) THEN octets[i] ELSE 0]
<1>1. /\ Len(octets) \in Nat /\ size <= Len(octets)
      /\ \A i \in 1 .. Len(octets) : octets[i] \in Octet
  BY LenProperties, ElementOfSeq
<1>2. \A i \in 1 .. size : i <= Len(octets) /\ octets[i] \in Octet
  BY <1>1
<1>3. buffer = [i \in 1 .. size |-> octets[i]]
  BY <1>2
<1>4. buffer \in Seq(Octet) /\ Len(buffer) = size
  BY <1>2, <1>3
<1>5. SubSeq(buffer, 1, Len(buffer)) = SubSeq(octets, 1, Len(buffer))
  BY <1>1, <1>2, <1>3, <1>4
<1> QED  BY <1>1, <1>4, <1>5 DEF IsPrefix

\* ReadStream preserves the invariant.
LEMMA IInvReadStream ==
  ASSUME IInv, ReadStream, UNCHANGED tableVars
  PROVE  IInv'
<1>1. /\ pc = "read" /\ input.kind = "none" /\ input.pos = 0 /\ curr = 0
      /\ input.size \in Nat /\ file.octets \in Seq(Octet)
      /\ Len(file.octets) \in Nat
  BY LenProperties
  DEF IInv, ObjectInv, TypeOK, InputTypeOK, File, ReadStream, Loading
<1>2. CASE ShortRead
  <2>1. ~ (Unchanged /\ file.regular /\ file.readable)
    BY <1>1, <1>2 DEF IInv, QuietInv, ShortRead
  <2> QED  BY <1>1, <1>2, <2>1, IInvMove DEF ReadStream, Throw, Failed, Loading
<1>3. CASE ~ ShortRead
  <2> DEFINE buffer == [i \in 1 .. input.size |->
                          IF i <= Len(file.octets) THEN file.octets[i] ELSE 0]
  <2>1. /\ buffer \in Seq(Octet)
        /\ Len(buffer) = input.size
        /\ IsPrefix(buffer, file.octets)
    <3>1. input.size = 0 \/ ~ (Len(file.octets) < input.size)
      BY <1>1, <1>3 DEF ShortRead
    <3> QED  BY <1>1, <3>1, ReadBuffer
  <2>2. /\ pc' = "loaded"
        /\ input' = [input EXCEPT !.kind = "memory", !.buffer = buffer]
        /\ UNCHANGED <<file, versions, read, tableVars>>
    BY <1>3 DEF ReadStream
  <2> HIDE DEF buffer
  <2>3. /\ input'.kind = "memory" /\ input'.buffer = buffer
        /\ input'.size = input.size /\ input'.pos = input.pos
    BY <2>2 DEF IInv, TypeOK, InputTypeOK
  <2>4. TypeOK'
    BY <2>1, <2>2 DEF IInv, TypeOK, InputTypeOK, tableVars
  <2>5. ObjectInv'
    BY <2>1, <2>2, <2>3 DEF ObjectInv, Loading
  <2>6. VersionsInv'
    BY <2>2 DEF IInv, VersionsInv
  <2>7. CopyOfVersion'
    <3>1. /\ Len(versions) \in DOMAIN versions
          /\ versions[Len(versions)] = file.octets
      BY LenProperties, EmptySeq DEF IInv, VersionsInv
    <3>2. /\ input.size <= MaxBuffered
          /\ \E i \in DOMAIN versions : Len(versions[i]) = input.size
      BY <1>1 DEF IInv, VersionsInv
    <3> QED  BY <2>1, <2>2, <2>3, <3>1, <3>2 DEF CopyOfVersion
  <2>8. QuietInv'
    BY <2>2, <2>3 DEF QuietInv, Failed
  <2> QED  BY <2>4, <2>5, <2>6, <2>7, <2>8 DEF IInv
<1> QED  BY <1>2, <1>3

\* MapFile preserves the invariant.
LEMMA IInvMapFile ==
  ASSUME IInv, MapFile, UNCHANGED tableVars
  PROVE  IInv'
<1>1. /\ pc = "map" /\ input.kind = "none" /\ input.pos = 0 /\ curr = 0
      /\ file.octets \in Seq(Octet) /\ Len(file.octets) \in Nat
  BY LenProperties
  DEF IInv, ObjectInv, TypeOK, InputTypeOK, File, MapFile, Loading
<1>2. CASE ~ (file.exists /\ file.readable /\ file.octets # <<>>)
  <2>1. ~ (Unchanged /\ file.regular /\ file.readable)
    <3>1. Len(file.octets) >= MaxBuffered => file.octets # <<>>
      BY <1>1, FilesAssumption
    <3> QED  BY <1>1, <1>2, <3>1 DEF IInv, QuietInv, Unchanged
  <2> QED  BY <1>1, <1>2, <2>1, IInvMove DEF MapFile, Throw, Failed, Loading
<1>3. CASE file.exists /\ file.readable /\ file.octets # <<>>
  <2>1. /\ pc' = "loaded"
        /\ input' = [input EXCEPT !.kind = "mapped", !.size = Len(file.octets)]
        /\ UNCHANGED <<file, versions, read, tableVars>>
    BY <1>3 DEF MapFile
  <2>2. /\ input'.kind = "mapped" /\ input'.size = Len(file.octets)
        /\ input'.pos = input.pos
    BY <2>1 DEF IInv, TypeOK, InputTypeOK
  <2>3. TypeOK'
    <3>1. input' \in [kind : {"none", "memory", "mapped"}, buffer : Seq(Octet),
                      size : Nat, pos : Nat]
      BY <1>1, <2>1 DEF IInv, TypeOK, InputTypeOK
    <3>2. input'.pos = 0 /\ curr' = 0 /\ input'.size \in Nat
      BY <1>1, <2>1, <2>2 DEF tableVars
    <3> QED  BY <2>1, <3>1, <3>2 DEF IInv, TypeOK, InputTypeOK, tableVars
  <2>4. ObjectInv' /\ VersionsInv' /\ CopyOfVersion' /\ QuietInv'
    BY <2>1, <2>2
    DEF IInv, ObjectInv, VersionsInv, CopyOfVersion, QuietInv, Loading, Failed
  <2> QED  BY <2>3, <2>4 DEF IInv
<1> QED  BY <1>2, <1>3

\* The owner of the object reads on or goes back to its beginning.
LEMMA IInvOwner ==
  ASSUME IInv, NextCodepoint \/ Reset, UNCHANGED tableVars
  PROVE  IInv'
<1>1. /\ pc = "loaded" /\ input.kind # "none"
      /\ input.pos \in Nat /\ input.size \in Nat
  BY DEF IInv, ObjectInv, TypeOK, InputTypeOK, NextCodepoint, Reset
<1>2. PICK pos \in 0 .. input.size : input' = [input EXCEPT !.pos = pos]
  <2>1. CASE NextCodepoint
    BY <1>1, <2>1, AfterBound DEF NextCodepoint
  <2>2. CASE Reset
    BY <1>1, <2>2 DEF Reset
  <2> QED  BY <2>1, <2>2
<1>3. UNCHANGED <<pc, file, versions, tableVars>>
  BY DEF NextCodepoint, Reset
<1>4. TypeOK'
  BY <1>1, <1>2, <1>3 DEF IInv, TypeOK, InputTypeOK, tableVars
<1>5. /\ input'.kind = input.kind /\ input'.size = input.size
      /\ input'.buffer = input.buffer
  BY <1>2 DEF IInv, TypeOK, InputTypeOK
<1>6. ObjectInv' /\ VersionsInv' /\ CopyOfVersion' /\ QuietInv'
  BY <1>1, <1>3, <1>5
  DEF IInv, ObjectInv, VersionsInv, CopyOfVersion, QuietInv, Unchanged, Failed,
      Loading
<1> QED  BY <1>4, <1>6 DEF IInv

\* CountCodepoint preserves the invariant.
LEMMA IInvCountCodepoint ==
  ASSUME IInv, CountCodepoint
  PROVE  IInv'
<1>1. /\ pc = "scan" /\ curr < input.size /\ Decodes(curr)
      /\ input.kind # "none" /\ curr \in Nat /\ input.size \in Nat
      /\ curr' = After(curr)
      /\ UNCHANGED <<inputVars, result>>
  BY DEF IInv, ObjectInv, TypeOK, InputTypeOK, CountCodepoint, Scanning
<1>2. curr' \in 0 .. input.size
  BY <1>1, AfterBound
<1>3. CodepointAt(curr) \in Nat
  <2>1. CodepointAt(curr) \in 0 .. CodepointMax
    BY <1>1 DEF Decodes, StartsWithCodepoint, CodepointAt, IsCodePointValid
  <2> QED  BY <2>1
<1>4. /\ ascii_counts' \in [0 .. (AsciiCount - 1) -> Nat]
      /\ DOMAIN unicode_counts' \subseteq Nat
      /\ IsABag(unicode_counts')
  <2>1. CASE CodepointAt(curr) < AsciiCount
    <3>1. CodepointAt(curr) \in 0 .. (AsciiCount - 1)
      BY <1>3, <2>1, AsciiAssumption
    <3>2. /\ ascii_counts' = Counted(ascii_counts, CodepointAt(curr))
          /\ UNCHANGED unicode_counts
      BY <2>1 DEF CountCodepoint
    <3> QED  BY <3>1, <3>2, CountedArray DEF IInv, TypeOK
  <2>2. CASE ~ (CodepointAt(curr) < AsciiCount)
    <3>1. /\ unicode_counts' = Counted(unicode_counts, CodepointAt(curr))
          /\ UNCHANGED ascii_counts
      BY <2>2 DEF CountCodepoint
    <3>2. /\ IsABag(Counted(unicode_counts, CodepointAt(curr)))
          /\ DOMAIN Counted(unicode_counts, CodepointAt(curr))
               = DOMAIN unicode_counts \union {CodepointAt(curr)}
      BY CountedBag DEF IInv, TypeOK, IsABag
    <3> QED  BY <1>3, <3>1, <3>2 DEF IInv, TypeOK, IsABag
  <2> QED  BY <2>1, <2>2
<1>5. TypeOK'
  BY <1>1, <1>2, <1>4 DEF IInv, TypeOK, InputTypeOK, inputVars
<1>6. ObjectInv' /\ VersionsInv' /\ CopyOfVersion' /\ QuietInv'
  BY <1>1
  DEF IInv, ObjectInv, VersionsInv, CopyOfVersion, QuietInv, Unchanged, Failed,
      Loading, inputVars
<1> QED  BY <1>5, <1>6 DEF IInv

\* ReturnTable preserves the invariant.
LEMMA IInvReturnTable ==
  ASSUME IInv, ReturnTable
  PROVE  IInv'
<1>1. /\ pc = "scan" /\ pc' = "returned"
      /\ UNCHANGED <<file, versions, input, read, curr, ascii_counts, unicode_counts>>
  BY DEF ReturnTable
<1>2. TypeOK'
  BY <1>1 DEF IInv, TypeOK, InputTypeOK
<1>3. ObjectInv' /\ VersionsInv' /\ CopyOfVersion' /\ QuietInv'
  BY <1>1
  DEF IInv, ObjectInv, VersionsInv, CopyOfVersion, QuietInv, Unchanged, Failed,
      Loading
<1> QED  BY <1>2, <1>3 DEF IInv

\* Rewrite preserves the invariant.
LEMMA IInvRewrite ==
  ASSUME IInv, Rewrite, UNCHANGED tableVars
  PROVE  IInv'
<1>1. PICK octets \in Rewrites :
        /\ file' = [file EXCEPT !.octets = octets, !.changes = @ - 1]
        /\ versions' = Append(versions, octets)
  BY DEF Rewrite
<1>2. UNCHANGED <<pc, input, read, tableVars>> /\ file.changes > 0
  BY DEF Rewrite
<1>3. octets \in Seq(Octet)
  BY FilesAssumption
<1>4. /\ versions \in Seq(Seq(Octet)) /\ versions # <<>> /\ Len(versions) \in Nat
      /\ Len(versions) >= 1
  BY LenProperties, EmptySeq DEF IInv, VersionsInv
<1>5. /\ versions' \in Seq(Seq(Octet))
      /\ Len(versions') = Len(versions) + 1
      /\ versions'[Len(versions')] = octets
      /\ \A i \in DOMAIN versions : i \in DOMAIN versions' /\ versions'[i] = versions[i]
  BY <1>1, <1>3, <1>4, AppendProperties, LenProperties
<1>6. file' \in File /\ file'.octets = octets
  <2>1. file \in File /\ file.changes - 1 \in Nat
    BY <1>2 DEF IInv, TypeOK, InputTypeOK, File
  <2>2. file' = [file EXCEPT !.octets = octets, !.changes = file.changes - 1]
    BY <1>1, <2>1 DEF File
  <2> QED  BY <1>3, <2>1, <2>2, FileRewritten
<1>7. TypeOK' /\ ObjectInv'
  BY <1>2, <1>6 DEF IInv, TypeOK, InputTypeOK, ObjectInv, Loading, tableVars
<1>8. VersionsInv'
  <2>1. versions' # <<>> /\ versions'[Len(versions')] = file'.octets
    BY <1>4, <1>5, <1>6
  <2> QED  BY <1>2, <1>5, <2>1 DEF IInv, VersionsInv
<1>9. CopyOfVersion'
  BY <1>2, <1>5 DEF IInv, CopyOfVersion
<1>10. QuietInv'
  BY <1>4, <1>5 DEF QuietInv, Unchanged
<1> QED  BY <1>7, <1>8, <1>9, <1>10 DEF IInv

\* RemoveFile preserves the invariant.
LEMMA IInvRemoveFile ==
  ASSUME IInv, RemoveFile, UNCHANGED tableVars
  PROVE  IInv'
<1>1. /\ file.changes > 0
      /\ file' = [file EXCEPT !.exists = FALSE, !.changes = @ - 1]
      /\ UNCHANGED <<pc, versions, input, read, tableVars>>
  BY DEF RemoveFile
<1>2. file' \in File /\ file'.octets = file.octets /\ file'.exists = FALSE
  <2>1. file \in File /\ file.changes - 1 \in Nat
    BY <1>1 DEF IInv, TypeOK, InputTypeOK, File
  <2>2. file' = [file EXCEPT !.exists = FALSE, !.changes = file.changes - 1]
    BY <1>1, <2>1 DEF File
  <2> QED  BY <2>1, <2>2, FileRemoved
<1>3. TypeOK' /\ ObjectInv'
  BY <1>1, <1>2 DEF IInv, TypeOK, InputTypeOK, ObjectInv, Loading, tableVars
<1>4. VersionsInv' /\ CopyOfVersion'
  BY <1>1, <1>2 DEF IInv, VersionsInv, CopyOfVersion
<1>5. QuietInv'
  BY <1>2 DEF QuietInv, Unchanged
<1> QED  BY <1>3, <1>4, <1>5 DEF IInv

\* Every step preserves the invariant.
LEMMA IInvStep == IInv /\ [Next]_vars => IInv'
<1> SUFFICES ASSUME IInv, [Next]_vars PROVE IInv'
  OBVIOUS
<1>1. CASE UNCHANGED vars
  BY <1>1
  DEF vars, IInv, TypeOK, InputTypeOK, ObjectInv, VersionsInv, CopyOfVersion,
      QuietInv, Unchanged
<1>2. CASE Load /\ UNCHANGED tableVars
  BY <1>2, IInvCheckFile, IInvGetFileLoadType, IInvOpenStream, IInvTellSize,
     IInvReadStream, IInvMapFile
  DEF Load
<1>3. CASE Call /\ ~ (Load /\ UNCHANGED tableVars)
  BY <1>3, IInvBuildFrequencyTable, IInvCountCodepoint, IInvScanEnds,
     IInvReturnTable
  DEF Call
<1>4. CASE (NextCodepoint \/ Reset) /\ UNCHANGED tableVars
  BY <1>4, IInvOwner
<1>5. CASE (Rewrite \/ RemoveFile) /\ UNCHANGED tableVars
  BY <1>5, IInvRewrite, IInvRemoveFile
<1> QED  BY <1>1, <1>2, <1>3, <1>4, <1>5 DEF Next, Call

\* The invariant holds in every state.
LEMMA IInvAlways == Spec => []IInv
  BY IInvInit, IInvStep, PTL DEF Spec

-----------------------------------------------------------------------------
(* The results.                                                            *)

\* For all files, limits and changes the iterators of the object and of the scan
\* stay inside the input, whatever a mapped file turns into, and the map has
\* positive counts only.
THEOREM TypeCorrect == Spec => []TypeOK
<1>1. IInv => TypeOK
  BY DEF IInv
<1> QED  BY <1>1, IInvAlways, PTL

\* For all files, limits and changes a copy of load_file is a beginning of one
\* version of the file and as long as some version.
THEOREM CopyOfVersionCorrect == Spec => []CopyOfVersion
<1>1. IInv => CopyOfVersion
  BY DEF IInv
<1> QED  BY <1>1, IInvAlways, PTL

\* For all files and limits a regular file that can be read and does not change
\* is loaded: the test for copying and the test against copying too much leave
\* no gap, and what is mapped is not empty.
THEOREM UnchangedFileLoadsCorrect == Spec => []UnchangedFileLoads
<1>1. IInv => UnchangedFileLoads
  BY DEF IInv, QuietInv, UnchangedFileLoads, Failed
<1> QED  BY <1>1, IInvAlways, PTL

-----------------------------------------------------------------------------
(* The table that is returned.                                             *)

\* What the hash map may contain when its entries are collected.
UnicodeInv ==
  /\ DOMAIN unicode_counts \subseteq Codepoints
  /\ \A c \in DOMAIN unicode_counts : c >= AsciiCount
  /\ IsFiniteSet(DOMAIN unicode_counts)

TableInv == UnicodeInv /\ ReturnsFrequencyTable

\* The indices of the array are codepoints.
LEMMA AsciiCodepoints == 0 .. (AsciiCount - 1) \subseteq Codepoints
<1> SUFFICES ASSUME NEW c \in 0 .. (AsciiCount - 1) PROVE c \in Codepoints
  OBVIOUS
<1>1. c \in Int /\ 0 <= c /\ c <= 127
  BY AsciiAssumption, SMT DEF AsciiAssumption
<1>2. c \in 0 .. CodepointMax
  <2>1. CodepointMax \in Nat /\ 127 <= CodepointMax
    BY SMT DEF CodepointMax
  <2> QED  BY <1>1, <2>1
<1>3. IsCodePointValid(c)
  BY <1>1, <1>2, SMT DEF IsCodePointValid, IsSurrogate
<1> QED  BY <1>2, <1>3, ScalarsAssumption

\* utf8::next returns no other number than a scalar value.
LEMMA ScannedCodepoint ==
  ASSUME Decodes(curr)
  PROVE  CodepointAt(curr) \in Codepoints /\ CodepointAt(curr) \in Nat
<1>1. /\ CodepointAt(curr) \in 0 .. CodepointMax
      /\ IsCodePointValid(CodepointAt(curr))
  BY DEF Decodes, StartsWithCodepoint, CodepointAt, IsCodePointValid
<1> QED  BY <1>1, ScalarsAssumption

\* The two containers have no codepoint in common.
LEMMA EntriesType ==
  ASSUME TypeOK, UnicodeInv
  PROVE  /\ Entries \subseteq TableNode
         /\ \A e, f \in Entries : e.codepoint = f.codepoint => e = f
<1> DEFINE A == {[codepoint |-> c, count |-> ascii_counts[c]] :
                   c \in {d \in DOMAIN ascii_counts : ascii_counts[d] > 0}}
           B == {[codepoint |-> c, count |-> unicode_counts[c]] :
                   c \in DOMAIN unicode_counts}
<1>1. \A e \in A : /\ e.codepoint \in 0 .. (AsciiCount - 1)
                   /\ e = [codepoint |-> e.codepoint, count |-> ascii_counts[e.codepoint]]
                   /\ ascii_counts[e.codepoint] \in Nat \ {0}
  BY DEF TypeOK
<1>2. \A e \in B : /\ e.codepoint \in DOMAIN unicode_counts
                   /\ e = [codepoint |-> e.codepoint, count |-> unicode_counts[e.codepoint]]
                   /\ unicode_counts[e.codepoint] \in Nat \ {0}
  BY DEF TypeOK, IsABag
<1>3. Entries = A \union B
  BY DEF Entries
<1> HIDE DEF A, B
<1>4. A \subseteq TableNode
  BY <1>1, AsciiCodepoints DEF TableNode
<1>5. B \subseteq TableNode
  BY <1>2 DEF TableNode, UnicodeInv
<1>6. \A e \in A, f \in B : e.codepoint # f.codepoint
  <2> SUFFICES ASSUME NEW e \in A, NEW f \in B, e.codepoint = f.codepoint
               PROVE  FALSE
    OBVIOUS
  <2>1. e.codepoint \in 0 .. (AsciiCount - 1)
    BY <1>1
  <2>2. e.codepoint >= AsciiCount
    BY <1>2 DEF UnicodeInv
  <2> HIDE DEF A, B
  <2> QED  BY <2>1, <2>2, AsciiAssumption
<1>7. \A e, f \in Entries : e.codepoint = f.codepoint => e = f
  BY <1>1, <1>2, <1>3, <1>6
<1> QED  BY <1>3, <1>4, <1>5, <1>7

\* Finitely many: at most one for each index of the array and key of the map.
LEMMA EntriesFinite ==
  ASSUME TypeOK, UnicodeInv
  PROVE  IsFiniteSet(Entries)
<1> DEFINE T == (0 .. (AsciiCount - 1)) \union DOMAIN unicode_counts
           f == [e \in Entries |-> e.codepoint]
<1>1. IsFiniteSet(T)
  <2>1. IsFiniteSet(0 .. (AsciiCount - 1))
    BY FS_Interval, AsciiAssumption
  <2> QED  BY <2>1, FS_Union DEF UnicodeInv
<1>2. \A e \in Entries : e.codepoint \in T
  BY DEF Entries, TypeOK
<1>3. f \in [Entries -> T] /\ \A a, b \in Entries : f[a] = f[b] => a = b
  BY <1>2, EntriesType
<1>4. f \in Injection(Entries, T)
  BY <1>3 DEF Injection, IsInjective
<1> QED  BY <1>1, <1>4, FS_Injection

\* Every sorted arrangement of the entries is a table.
LEMMA CollectedTable ==
  ASSUME TypeOK, UnicodeInv, NEW t \in SetToSeqs(Entries), Sorted(t)
  PROVE  IsFrequencyTable(t)
<1> DEFINE n == Cardinality(Entries)
<1>1. n \in Nat
  BY EntriesFinite, FS_CardinalityType
<1>2. /\ t \in [1 .. n -> Entries]
      /\ \A i, j \in 1 .. n : i # j => t[i] # t[j]
  BY DEF SetToSeqs
<1> HIDE DEF n
<1>3. t \in Seq(Entries) /\ DOMAIN t = 1 .. n
  BY <1>1, <1>2
<1>4. t \in Seq(TableNode)
  BY <1>3, EntriesType, SeqMonotonic
<1>5. \A i, j \in DOMAIN t : i < j => t[i].codepoint # t[j].codepoint
  BY <1>1, <1>2, <1>3, EntriesType
<1> QED  BY <1>4, <1>5 DEF IsFrequencyTable, Sorted

\* The invariant of the table holds initially.
LEMMA TableInvInit == Init => TableInv
<1> SUFFICES ASSUME Init PROVE TableInv
  OBVIOUS
<1>1. DOMAIN unicode_counts = {}
  BY DEF Init, EmptyBag, SetToBag
<1> QED
  BY <1>1, FS_EmptySet
  DEF Init, InputInit, TableInv, UnicodeInv, ReturnsFrequencyTable

\* Every step preserves the invariant of the table.
LEMMA TableInvStep == IInv /\ TableInv /\ [Next]_vars => TableInv'
<1> SUFFICES ASSUME IInv, TableInv, [Next]_vars PROVE TableInv'
  OBVIOUS
<1> USE DEF TableInv
<1>1. CASE CountCodepoint
  <2>1. pc' # "returned"
    BY <1>1 DEF CountCodepoint, Scanning, inputVars
  <2>2. CASE CodepointAt(curr) < AsciiCount
    BY <1>1, <2>1, <2>2
    DEF CountCodepoint, UnicodeInv, ReturnsFrequencyTable
  <2>3. CASE ~ (CodepointAt(curr) < AsciiCount)
    <3>1. CodepointAt(curr) \in Codepoints /\ CodepointAt(curr) \in Nat
      BY <1>1, ScannedCodepoint DEF CountCodepoint
    <3>2. DOMAIN unicode_counts' = DOMAIN unicode_counts \union {CodepointAt(curr)}
      <4>1. unicode_counts' = Counted(unicode_counts, CodepointAt(curr))
        BY <1>1, <2>3 DEF CountCodepoint
      <4> QED  BY <4>1, CountedBag DEF IInv, TypeOK, IsABag
    <3>3. IsFiniteSet(DOMAIN unicode_counts')
      BY <3>2, FS_AddElement DEF UnicodeInv
    <3>4. CodepointAt(curr) >= AsciiCount
      BY <2>3, <3>1, AsciiAssumption
    <3> QED  BY <2>1, <3>1, <3>2, <3>3, <3>4 DEF UnicodeInv, ReturnsFrequencyTable
  <2> QED  BY <2>2, <2>3
<1>2. CASE ReturnTable
  <2>1. IsFrequencyTable(result')
    BY <1>2, CollectedTable DEF ReturnTable, IInv
  <2> QED
    BY <1>2, <2>1 DEF ReturnTable, UnicodeInv, ReturnsFrequencyTable, IsFrequencyTable
<1>3. CASE UNCHANGED vars
  BY <1>3 DEF vars, UnicodeInv, ReturnsFrequencyTable, IsFrequencyTable
<1>4. CASE Next /\ ~ CountCodepoint /\ ~ ReturnTable
  <2>1. UNCHANGED <<unicode_counts, result>>
    BY <1>4
    DEF Next, Call, BuildFrequencyTable, ScanFails, ScanFaults, tableVars
  <2>2. pc' = "returned" => pc = "returned"
    BY <1>4
    DEF Next, Call, Load, CheckFile, GetFileLoadType, OpenStream, TellSize,
        ReadStream, MapFile, BuildFrequencyTable, ScanFails, ScanFaults,
        NextCodepoint, Reset, Rewrite, RemoveFile, Throw, Continue
  <2> QED  BY <2>1, <2>2 DEF UnicodeInv, ReturnsFrequencyTable, IsFrequencyTable
<1> QED  BY <1>1, <1>2, <1>3, <1>4

\* For all files and every order in which the hash map is traversed and the sort
\* leaves equal counts, the table that is returned ascends and names each
\* codepoint once: what PrefixCodes assumes of its argument.
THEOREM ReturnsFrequencyTableCorrect == Spec => []ReturnsFrequencyTable
<1>1. TableInv => ReturnsFrequencyTable
  BY DEF TableInv
<1>2. Spec => []TableInv
  BY IInvAlways, TableInvInit, TableInvStep, PTL DEF Spec
<1> QED  BY <1>1, <1>2, PTL

-----------------------------------------------------------------------------
(* The round trip of the UTF-8 conversions.                                *)

\* The ranges of codepoints that need one to four octets.
LEMMA OctetsOfRanges ==
  ASSUME NEW cp \in Nat
  PROVE  /\ OctetsOf(cp) \in {1, 2, 3, 4}
         /\ OctetsOf(cp) = 1 <=> cp < 128
         /\ OctetsOf(cp) = 2 <=> 128 <= cp /\ cp < 2048
         /\ OctetsOf(cp) = 3 <=> 2048 <= cp /\ cp < 65536
         /\ OctetsOf(cp) = 4 <=> 65536 <= cp
BY SMT DEF OctetsOf

\* The alternatives of Utf8Append.
LEMMA Utf8AppendForms ==
  ASSUME NEW cp
  PROVE  /\ OctetsOf(cp) = 1 => Utf8Append(cp) = <<cp>>
         /\ OctetsOf(cp) = 2 => Utf8Append(cp) = <<192 + (cp \div 64), Trail(cp)>>
         /\ OctetsOf(cp) = 3 =>
              Utf8Append(cp) = <<224 + (cp \div (64 * 64)), Trail(cp \div 64), Trail(cp)>>
         /\ OctetsOf(cp) = 4 =>
              Utf8Append(cp) = <<240 + (cp \div (64 * 64 * 64)),
                                 Trail(cp \div (64 * 64)), Trail(cp \div 64), Trail(cp)>>
<1>1. ASSUME OctetsOf(cp) = 1
      PROVE  Utf8Append(cp) = <<cp>>
  <2>1. OctetsOf(cp) # 2 /\ OctetsOf(cp) # 3 /\ OctetsOf(cp) # 4
    BY <1>1
  <2> QED  BY <1>1, <2>1, Zenon DEF Utf8Append
<1>2. ASSUME OctetsOf(cp) = 2
      PROVE  Utf8Append(cp) = <<192 + (cp \div 64), Trail(cp)>>
  <2>1. OctetsOf(cp) # 1 /\ OctetsOf(cp) # 3 /\ OctetsOf(cp) # 4
    BY <1>2
  <2> QED  BY <1>2, <2>1, Zenon DEF Utf8Append
<1>3. ASSUME OctetsOf(cp) = 3
      PROVE  Utf8Append(cp)
               = <<224 + (cp \div (64 * 64)), Trail(cp \div 64), Trail(cp)>>
  <2>1. OctetsOf(cp) # 1 /\ OctetsOf(cp) # 2 /\ OctetsOf(cp) # 4
    BY <1>3
  <2> QED  BY <1>3, <2>1, Zenon DEF Utf8Append
<1>4. ASSUME OctetsOf(cp) = 4
      PROVE  Utf8Append(cp) = <<240 + (cp \div (64 * 64 * 64)),
                                Trail(cp \div (64 * 64)), Trail(cp \div 64), Trail(cp)>>
  <2>1. OctetsOf(cp) # 1 /\ OctetsOf(cp) # 2 /\ OctetsOf(cp) # 3
    BY <1>4
  <2> QED  BY <1>4, <2>1, Zenon DEF Utf8Append
<1> QED  BY <1>1, <1>2, <1>3, <1>4

\* The largest codepoint.
LEMMA CodepointMaxBound ==
  CodepointMax \in Nat /\ CodepointMax <= 1114111 /\ 1114111 <= CodepointMax
BY SMT DEF CodepointMax

\* A codepoint is appended as a sequence of octets.
LEMMA Utf8AppendType ==
  ASSUME NEW cp \in 0 .. CodepointMax
  PROVE  Utf8Append(cp) \in Seq(Octet) /\ Len(Utf8Append(cp)) = OctetsOf(cp)
<1>1. cp \in Nat /\ cp <= 1114111
  BY CodepointMaxBound, SMT
<1>2. ASSUME NEW bits \in Nat
      PROVE  Trail(bits) \in Octet
  BY SMT DEF Trail, Octet
<1>3. /\ cp \div 64 \in Nat /\ cp \div (64 * 64) \in Nat
      /\ cp \div (64 * 64 * 64) \in Nat
  BY <1>1, SMT
<1>4. /\ cp < 128 => cp \in Octet
      /\ cp < 2048 => 192 + (cp \div 64) \in Octet
      /\ cp < 65536 => 224 + (cp \div (64 * 64)) \in Octet
      /\ 240 + (cp \div (64 * 64 * 64)) \in Octet
  BY <1>1, SMT DEF Octet
<1>5. /\ OctetsOf(cp) \in {1, 2, 3, 4}
      /\ OctetsOf(cp) = 1 => cp < 128
      /\ OctetsOf(cp) = 2 => cp < 2048
      /\ OctetsOf(cp) = 3 => cp < 65536
  BY <1>1, OctetsOfRanges, SMT
<1> DEFINE two == cp \div 64
           three == cp \div (64 * 64)
           four == cp \div (64 * 64 * 64)
<1>6. /\ two \in Nat /\ three \in Nat /\ Trail(cp) \in Octet
      /\ Trail(two) \in Octet /\ Trail(three) \in Octet
  BY <1>1, <1>2, <1>3, SMT
<1>7. CASE OctetsOf(cp) = 1
  <2>1. Utf8Append(cp) = <<cp>> /\ cp \in Octet
    BY <1>4, <1>5, <1>7, Utf8AppendForms
  <2> QED  BY <1>7, <2>1, SMT
<1>8. CASE OctetsOf(cp) = 2
  <2>1. Utf8Append(cp) = <<192 + two, Trail(cp)>> /\ 192 + two \in Octet
    BY <1>4, <1>5, <1>8, Utf8AppendForms, SMT
  <2> HIDE DEF two
  <2> QED  BY <1>6, <1>8, <2>1, SMT
<1>9. CASE OctetsOf(cp) = 3
  <2>1. Utf8Append(cp) = <<224 + three, Trail(two), Trail(cp)>> /\ 224 + three \in Octet
    BY <1>4, <1>5, <1>9, Utf8AppendForms, SMT
  <2> HIDE DEF two, three
  <2> QED  BY <1>6, <1>9, <2>1, SMT
<1>10. CASE OctetsOf(cp) = 4
  <2>1. /\ Utf8Append(cp) = <<240 + four, Trail(three), Trail(two), Trail(cp)>>
        /\ 240 + four \in Octet
    BY <1>4, <1>10, Utf8AppendForms, SMT
  <2> HIDE DEF two, three, four
  <2> QED  BY <1>6, <1>10, <2>1, SMT
<1> QED  BY <1>5, <1>7, <1>8, <1>9, <1>10, SMT

\* Two octets that make a codepoint are what it is appended as.
LEMMA RoundTripTwo ==
  ASSUME NEW a \in Octet, a \div 32 = 6, NEW b \in Octet, IsTrail(b),
         NEW cp, cp = ((a * 64) % 2048) + (b % 64)
  PROVE  /\ cp \in Nat /\ cp < 2048
         /\ 192 + (cp \div 64) = a /\ Trail(cp) = b
<1> DEFINE x == a - 192
           y == b - 128
<1>1. /\ x \in Nat /\ y \in Nat /\ x < 32 /\ y < 64
      /\ a = 192 + x /\ b = 128 + y
  BY SMT DEF Octet, IsTrail
<1>2. b % 64 = y
  BY SMT DEF Octet, IsTrail
<1>3. (a * 64) % 2048 = x * 64
  BY SMT DEF Octet
<1> HIDE DEF x, y
<1>4. cp = x * 64 + y
  BY <1>2, <1>3, SMT
<1>5. cp \in Nat /\ cp < 2048
  BY <1>1, <1>4, SMT
<1>6. cp \div 64 = x
  BY ONLY <1>1, <1>4, SMT
<1>7. cp % 64 = y
  BY ONLY <1>1, <1>4, SMT
<1> QED  BY <1>1, <1>5, <1>6, <1>7, SMT DEF Trail

\* Three octets that make a codepoint are what it is appended as.
LEMMA RoundTripThree ==
  ASSUME NEW a \in Octet, a \div 16 = 14, NEW b \in Octet, IsTrail(b),
         NEW c \in Octet, IsTrail(c),
         NEW cp, cp = ((a * 4096) % 65536) + ((b % 64) * 64) + (c % 64)
  PROVE  /\ cp \in Nat /\ cp < 65536
         /\ 224 + (cp \div (64 * 64)) = a /\ Trail(cp \div 64) = b /\ Trail(cp) = c
<1> DEFINE x == a - 224
           y == b - 128
           z == c - 128
<1>1. /\ x \in Nat /\ y \in Nat /\ z \in Nat /\ x < 16 /\ y < 64 /\ z < 64
      /\ a = 224 + x /\ b = 128 + y /\ c = 128 + z
  BY SMT DEF Octet, IsTrail
<1>2. b % 64 = y /\ c % 64 = z
  BY SMT DEF Octet, IsTrail
<1>3. (a * 4096) % 65536 = x * 4096
  BY SMT DEF Octet
<1> HIDE DEF x, y, z
<1>4. cp = x * 4096 + y * 64 + z
  BY <1>2, <1>3, SMT
<1>5. cp \in Nat /\ cp < 65536
  BY <1>1, <1>4, SMT
<1>6. cp \div 4096 = x
  BY ONLY <1>1, <1>4, SMT
<1>7. cp \div 64 = x * 64 + y
  BY ONLY <1>1, <1>4, SMT
<1>8. (cp \div 64) % 64 = y
  BY ONLY <1>1, <1>7, SMT
<1>9. cp % 64 = z
  BY ONLY <1>1, <1>4, SMT
<1>10. 64 * 64 = 4096
  BY SMT
<1> QED  BY <1>1, <1>5, <1>6, <1>8, <1>9, <1>10, SMT DEF Trail

\* Four octets that make a codepoint are what it is appended as.
LEMMA RoundTripFour ==
  ASSUME NEW a \in Octet, a \div 8 = 30, NEW b \in Octet, IsTrail(b),
         NEW c \in Octet, IsTrail(c), NEW d \in Octet, IsTrail(d),
         NEW cp,
         cp = ((a * 262144) % 2097152) + ((b % 64) * 4096) + ((c % 64) * 64) + (d % 64)
  PROVE  /\ cp \in Nat
         /\ 240 + (cp \div (64 * 64 * 64)) = a /\ Trail(cp \div (64 * 64)) = b
         /\ Trail(cp \div 64) = c /\ Trail(cp) = d
<1> DEFINE x == a - 240
           y == b - 128
           z == c - 128
           w == d - 128
<1>1. /\ x \in Nat /\ y \in Nat /\ z \in Nat /\ w \in Nat
      /\ x < 8 /\ y < 64 /\ z < 64 /\ w < 64
      /\ a = 240 + x /\ b = 128 + y /\ c = 128 + z /\ d = 128 + w
  BY SMT DEF Octet, IsTrail
<1>2. b % 64 = y /\ c % 64 = z /\ d % 64 = w
  BY SMT DEF Octet, IsTrail
<1>3. (a * 262144) % 2097152 = x * 262144
  BY SMT DEF Octet
<1> HIDE DEF x, y, z, w
<1>4. cp = x * 262144 + y * 4096 + z * 64 + w
  BY <1>2, <1>3, SMT
<1>5. cp \in Nat
  BY <1>1, <1>4, SMT
<1>6. cp \div 262144 = x
  BY ONLY <1>1, <1>4, SMT
<1>7. cp \div 4096 = x * 64 + y
  BY ONLY <1>1, <1>4, SMT
<1>8. cp \div 64 = x * 4096 + y * 64 + z
  BY ONLY <1>1, <1>4, SMT
<1>9. (cp \div 4096) % 64 = y
  BY ONLY <1>1, <1>7, SMT
<1>10. (cp \div 64) % 64 = z
  BY ONLY <1>1, <1>8, SMT
<1>11. cp % 64 = w
  BY ONLY <1>1, <1>4, SMT
<1>12. 64 * 64 = 4096 /\ 64 * 64 * 64 = 262144
  BY SMT
<1> QED  BY <1>1, <1>5, <1>6, <1>9, <1>10, <1>11, <1>12, SMT DEF Trail

\* The lead octets of each length.
LEMMA LeadsOfLength ==
  ASSUME NEW lead \in Octet
  PROVE  /\ SequenceLength(lead) \in {0, 1, 2, 3, 4}
         /\ SequenceLength(lead) = 1 <=> lead < 128
         /\ SequenceLength(lead) = 2 <=> lead \div 32 = 6
         /\ SequenceLength(lead) = 3 <=> lead \div 16 = 14
         /\ SequenceLength(lead) = 4 <=> lead \div 8 = 30
BY SMT DEF SequenceLength, Octet

\* The value of CodePoint for each length.
LEMMA CodePointForms ==
  ASSUME NEW octets \in Seq(Octet)
  PROVE  /\ CodePoint(octets, 1) = octets[1]
         /\ CodePoint(octets, 2) = ((octets[1] * 64) % 2048) + (octets[2] % 64)
         /\ CodePoint(octets, 3) = ((octets[1] * 4096) % 65536)
                                     + ((octets[2] % 64) * 64) + (octets[3] % 64)
         /\ CodePoint(octets, 4) = ((octets[1] * 262144) % 2097152)
                                     + ((octets[2] % 64) * 4096)
                                     + ((octets[3] % 64) * 64) + (octets[4] % 64)
BY SMT DEF CodePoint

\* The first octets of a sequence.
LEMMA FirstOctets ==
  ASSUME NEW s \in Seq(Octet)
  PROVE  /\ Len(s) >= 1 => SubSeq(s, 1, 1) = <<s[1]>>
         /\ Len(s) >= 2 => SubSeq(s, 1, 2) = <<s[1], s[2]>>
         /\ Len(s) >= 3 => SubSeq(s, 1, 3) = <<s[1], s[2], s[3]>>
         /\ Len(s) >= 4 => SubSeq(s, 1, 4) = <<s[1], s[2], s[3], s[4]>>
<1>1. Len(s) \in Nat
  BY LenProperties
<1> DEFINE first(k) == SubSeq(s, 1, k)
<1>2. ASSUME NEW k \in 1 .. 4, Len(s) >= k
      PROVE  /\ Len(first(k)) = k
             /\ first(k) \in Seq(Octet)
             /\ \A i \in 1 .. k : first(k)[i] = s[i]
  <2>1. 1 \in 1 .. (Len(s) + 1) /\ k \in (1 - 1) .. Len(s)
    BY <1>1, <1>2
  <2> QED  BY <1>1, <2>1, SubSeqProperties
<1>3. ASSUME NEW t \in Seq(Octet)
      PROVE  /\ Len(t) = 1 => t = <<t[1]>>
             /\ Len(t) = 2 => t = <<t[1], t[2]>>
             /\ Len(t) = 3 => t = <<t[1], t[2], t[3]>>
             /\ Len(t) = 4 => t = <<t[1], t[2], t[3], t[4]>>
  OBVIOUS
<1> SUFFICES /\ Len(s) >= 1 => first(1) = <<s[1]>>
             /\ Len(s) >= 2 => first(2) = <<s[1], s[2]>>
             /\ Len(s) >= 3 => first(3) = <<s[1], s[2], s[3]>>
             /\ Len(s) >= 4 => first(4) = <<s[1], s[2], s[3], s[4]>>
  OBVIOUS
<1> HIDE DEF first
<1>4. ASSUME Len(s) >= 1 PROVE first(1) = <<s[1]>>
  <2>1. first(1) = <<first(1)[1]>>
    BY <1>2, <1>3, <1>4
  <2>2. first(1)[1] = s[1]
    BY <1>2, <1>4
  <2> QED  BY <2>1, <2>2
<1>5. ASSUME Len(s) >= 2 PROVE first(2) = <<s[1], s[2]>>
  <2>1. first(2) = <<first(2)[1], first(2)[2]>>
    BY <1>2, <1>3, <1>5
  <2>2. first(2)[1] = s[1] /\ first(2)[2] = s[2]
    BY <1>2, <1>5
  <2> QED  BY <2>1, <2>2
<1>6. ASSUME Len(s) >= 3 PROVE first(3) = <<s[1], s[2], s[3]>>
  <2>1. first(3) = <<first(3)[1], first(3)[2], first(3)[3]>>
    BY <1>2, <1>3, <1>6
  <2>2. /\ first(3)[1] = s[1] /\ first(3)[2] = s[2]
        /\ first(3)[3] = s[3]
    BY <1>2, <1>6
  <2> QED  BY <2>1, <2>2
<1>7. ASSUME Len(s) >= 4 PROVE first(4) = <<s[1], s[2], s[3], s[4]>>
  <2>1. first(4) = <<first(4)[1], first(4)[2], first(4)[3], first(4)[4]>>
    BY <1>2, <1>3, <1>7
  <2>2. /\ first(4)[1] = s[1] /\ first(4)[2] = s[2]
        /\ first(4)[3] = s[3] /\ first(4)[4] = s[4]
    BY <1>2, <1>7
  <2> QED  BY <2>1, <2>2
<1> QED  BY <1>4, <1>5, <1>6, <1>7

\* Octets that begin with a codepoint begin with what it is appended as.
LEMMA Utf8RoundTrip ==
  ASSUME NEW octets \in Seq(Octet), octets # <<>>, StartsWithCodepoint(octets)
  PROVE  LET n == SequenceLength(octets[1])
             cp == CodePoint(octets, n)
         IN /\ n \in 1 .. 4 /\ n <= Len(octets)
            /\ cp \in 0 .. CodepointMax
            /\ Utf8Append(cp) = SubSeq(octets, 1, n)
<1> DEFINE n == SequenceLength(octets[1])
           cp == CodePoint(octets, n)
           len == Len(octets)
<1>1. /\ len \in Nat /\ len >= 1 /\ octets[1] \in Octet
      /\ \A i \in 1 .. len : octets[i] \in Octet
  <2>1. len \in Nat /\ len # 0
    BY LenProperties, EmptySeq
  <2>2. \A i \in 1 .. len : octets[i] \in Octet
    BY ElementOfSeq, LenProperties
  <2> QED  BY <2>1, <2>2
<1>2. /\ n \in {0, 1, 2, 3, 4}
      /\ n = 1 <=> octets[1] < 128
      /\ n = 2 <=> octets[1] \div 32 = 6
      /\ n = 3 <=> octets[1] \div 16 = 14
      /\ n = 4 <=> octets[1] \div 8 = 30
  BY <1>1, LeadsOfLength
<1>3. /\ n > 0
      /\ \A i \in 2 .. n : i <= len /\ IsTrail(octets[i])
      /\ cp \in 0 .. CodepointMax
      /\ OctetsOf(cp) \in {n, 4}
  BY DEF StartsWithCodepoint, IsCodePointValid, IsOverlongSequence
<1>4. cp \in Nat
  BY <1>3, CodepointMaxBound
<1> HIDE DEF n, cp, len
<1>5. n <= len /\ n \in 1 .. 4
  BY <1>1, <1>2, <1>3
<1> SUFFICES Utf8Append(cp) = SubSeq(octets, 1, n)
  BY <1>3, <1>5 DEF n, cp, len
<1>6. CASE n = 1
  <2>1. cp = octets[1]
    BY <1>6, CodePointForms DEF cp
  <2>2. OctetsOf(cp) = 1
    BY <1>2, <1>4, <1>6, <2>1, OctetsOfRanges
  <2>3. Utf8Append(cp) = <<octets[1]>>
    BY <2>1, <2>2, Utf8AppendForms
  <2>4. SubSeq(octets, 1, n) = <<octets[1]>>
    BY <1>1, <1>6, FirstOctets DEF len
  <2> QED  BY <2>3, <2>4
<1>7. CASE n = 2
  <2>1. octets[2] \in Octet /\ IsTrail(octets[2])
    BY <1>1, <1>3, <1>5, <1>7
  <2>2. CodePoint(octets, 2) = ((octets[1] * 64) % 2048) + (octets[2] % 64)
    BY CodePointForms, SMT
  <2>3. octets[1] \div 32 = 6
    BY <1>2, <1>7
  <2>4. /\ cp < 2048
        /\ 192 + (cp \div 64) = octets[1] /\ Trail(cp) = octets[2]
    BY <1>1, <1>7, <2>1, <2>2, <2>3, RoundTripTwo, SMT DEF cp
  <2>5. OctetsOf(cp) = 2
    BY <1>3, <1>4, <1>7, <2>4, OctetsOfRanges, SMT
  <2>6. Utf8Append(cp) = <<octets[1], octets[2]>>
    <3>1. Utf8Append(cp) = <<192 + (cp \div 64), Trail(cp)>>
      BY <2>5, Utf8AppendForms
    <3>2. 192 + (cp \div 64) = octets[1] /\ Trail(cp) = octets[2]
      BY <2>4, SMT
    <3> QED  BY <3>1, <3>2
  <2>7. SubSeq(octets, 1, n) = <<octets[1], octets[2]>>
    BY <1>1, <1>5, <1>7, FirstOctets DEF len
  <2> QED  BY <2>6, <2>7
<1>8. CASE n = 3
  <2>1. /\ octets[2] \in Octet /\ IsTrail(octets[2])
        /\ octets[3] \in Octet /\ IsTrail(octets[3])
    BY <1>1, <1>3, <1>5, <1>8
  <2>2. CodePoint(octets, 3) = ((octets[1] * 4096) % 65536)
                                 + ((octets[2] % 64) * 64) + (octets[3] % 64)
    BY CodePointForms, SMT
  <2>3. octets[1] \div 16 = 14
    BY <1>2, <1>8
  <2>4. /\ cp < 65536
        /\ 224 + (cp \div (64 * 64)) = octets[1]
        /\ Trail(cp \div 64) = octets[2] /\ Trail(cp) = octets[3]
    BY <1>1, <1>8, <2>1, <2>2, <2>3, RoundTripThree, SMT DEF cp
  <2>5. OctetsOf(cp) = 3
    BY <1>3, <1>4, <1>8, <2>4, OctetsOfRanges, SMT
  <2>6. Utf8Append(cp) = <<octets[1], octets[2], octets[3]>>
    <3>1. Utf8Append(cp) = <<224 + (cp \div (64 * 64)), Trail(cp \div 64), Trail(cp)>>
      BY <2>5, Utf8AppendForms
    <3>2. /\ 224 + (cp \div (64 * 64)) = octets[1]
          /\ Trail(cp \div 64) = octets[2] /\ Trail(cp) = octets[3]
      BY <2>4, SMT
    <3> QED  BY <3>1, <3>2
  <2>7. SubSeq(octets, 1, n) = <<octets[1], octets[2], octets[3]>>
    BY <1>1, <1>5, <1>8, FirstOctets DEF len
  <2> QED  BY <2>6, <2>7
<1>9. CASE n = 4
  <2>1. /\ octets[2] \in Octet /\ IsTrail(octets[2])
        /\ octets[3] \in Octet /\ IsTrail(octets[3])
        /\ octets[4] \in Octet /\ IsTrail(octets[4])
    BY <1>1, <1>3, <1>5, <1>9
  <2>2. CodePoint(octets, 4) = ((octets[1] * 262144) % 2097152)
                                 + ((octets[2] % 64) * 4096)
                                 + ((octets[3] % 64) * 64) + (octets[4] % 64)
    BY CodePointForms, SMT
  <2>3. octets[1] \div 8 = 30
    BY <1>2, <1>9
  <2>4. /\ 240 + (cp \div (64 * 64 * 64)) = octets[1]
        /\ Trail(cp \div (64 * 64)) = octets[2]
        /\ Trail(cp \div 64) = octets[3] /\ Trail(cp) = octets[4]
    <3>1. PICK a \in Octet, b \in Octet, c \in Octet, d \in Octet :
            a = octets[1] /\ b = octets[2] /\ c = octets[3] /\ d = octets[4]
      BY <1>1, <2>1
    <3>2. cp = ((a * 262144) % 2097152) + ((b % 64) * 4096) + ((c % 64) * 64) + (d % 64)
      BY <1>9, <2>2, <3>1, SMT DEF cp
    <3>3. a \div 8 = 30 /\ IsTrail(b) /\ IsTrail(c) /\ IsTrail(d)
      BY <2>1, <2>3, <3>1
    <3>4. /\ 240 + (cp \div (64 * 64 * 64)) = a /\ Trail(cp \div (64 * 64)) = b
          /\ Trail(cp \div 64) = c /\ Trail(cp) = d
      BY ONLY <3>2, <3>3, RoundTripFour, SMT
    <3> QED  BY <3>1, <3>4
  <2>5. OctetsOf(cp) = 4
    BY <1>3, <1>9
  <2>6. Utf8Append(cp) = <<octets[1], octets[2], octets[3], octets[4]>>
    <3>1. Utf8Append(cp) = <<240 + (cp \div (64 * 64 * 64)), Trail(cp \div (64 * 64)),
                             Trail(cp \div 64), Trail(cp)>>
      BY <2>5, Utf8AppendForms
    <3> QED  BY <2>4, <3>1
  <2>7. SubSeq(octets, 1, n) = <<octets[1], octets[2], octets[3], octets[4]>>
    BY <1>1, <1>5, <1>9, FirstOctets DEF len
  <2> QED  BY <2>6, <2>7
<1> QED  BY <1>5, <1>6, <1>7, <1>8, <1>9

-----------------------------------------------------------------------------
(* The text that has been read.                                            *)

\* The beginning of a sequence goes on with what follows it.
LEMMA SubSeqSplit ==
  ASSUME NEW S, NEW s \in Seq(S), NEW p \in Nat, NEW n \in Nat, p + n <= Len(s)
  PROVE  SubSeq(s, 1, p + n) = SubSeq(s, 1, p) \o SubSeq(s, p + 1, p + n)
<1> DEFINE a == SubSeq(s, 1, p)
           b == SubSeq(s, p + 1, p + n)
           c == SubSeq(s, 1, p + n)
<1>1. Len(s) \in Nat /\ \A i \in 1 .. Len(s) : s[i] \in S
  BY LenProperties, ElementOfSeq
<1>2. a \in Seq(S) /\ Len(a) = p /\ \A i \in 1 .. p : a[i] = s[i]
  <2>1. \A i \in 1 .. p : s[i] \in S
    BY <1>1
  <2> QED  BY <2>1, SubSeqProperties
<1>3. b \in Seq(S) /\ Len(b) = n /\ \A i \in 1 .. n : b[i] = s[p + i]
  <2>1. \A i \in (p + 1) .. (p + n) : s[i] \in S
    BY <1>1
  <2> QED  BY <2>1, SubSeqProperties
<1>4. c \in Seq(S) /\ Len(c) = p + n /\ \A i \in 1 .. (p + n) : c[i] = s[i]
  <2>1. \A i \in 1 .. (p + n) : s[i] \in S
    BY <1>1
  <2> QED  BY <2>1, SubSeqProperties
<1> HIDE DEF a, b, c
<1>5. /\ a \o b \in Seq(S) /\ Len(a \o b) = p + n
      /\ \A i \in 1 .. (p + n) : (a \o b)[i] = IF i <= p THEN a[i] ELSE b[i - p]
  BY <1>2, <1>3, ConcatProperties
<1>6. \A i \in 1 .. (p + n) : (a \o b)[i] = c[i]
  <2> SUFFICES ASSUME NEW i \in 1 .. (p + n) PROVE (a \o b)[i] = c[i]
    OBVIOUS
  <2>1. i <= p => i \in 1 .. p
    OBVIOUS
  <2>2. ~ (i <= p) => i - p \in 1 .. n /\ p + (i - p) = i
    OBVIOUS
  <2> QED  BY <1>2, <1>3, <1>4, <1>5, <2>1, <2>2
<1>7. a \o b = c
  BY <1>4, <1>5, <1>6, SeqEqual
<1> QED  BY <1>7 DEF a, b, c

\* The beginning of the rest is a part of the whole.
LEMMA SubSeqOfRest ==
  ASSUME NEW S, NEW s \in Seq(S), NEW p \in Nat, NEW n \in Nat, p + n <= Len(s)
  PROVE  SubSeq(SubSeq(s, p + 1, Len(s)), 1, n) = SubSeq(s, p + 1, p + n)
<1> DEFINE rest == SubSeq(s, p + 1, Len(s))
           a == SubSeq(rest, 1, n)
           b == SubSeq(s, p + 1, p + n)
<1>1. Len(s) \in Nat /\ \A i \in 1 .. Len(s) : s[i] \in S
  BY LenProperties, ElementOfSeq
<1>2. /\ rest \in Seq(S)
      /\ \A i \in 1 .. (Len(s) - p) : rest[i] = s[p + i]
  <2>1. \A i \in (p + 1) .. Len(s) : s[i] \in S
    BY <1>1
  <2> QED  BY <1>1, <2>1, SubSeqProperties
<1>3. b \in Seq(S) /\ Len(b) = n /\ \A i \in 1 .. n : b[i] = s[p + i]
  <2>1. \A i \in (p + 1) .. (p + n) : s[i] \in S
    BY <1>1
  <2> QED  BY <2>1, SubSeqProperties
<1> HIDE DEF rest
<1>4. \A i \in 1 .. n : rest[i] = s[p + i] /\ s[p + i] \in S
  BY <1>1, <1>2
<1>5. a \in Seq(S) /\ Len(a) = n /\ \A i \in 1 .. n : a[i] = rest[i]
  <2>1. \A i \in 1 .. n : rest[i] \in S
    BY <1>4
  <2> QED  BY <2>1, SubSeqProperties
<1> HIDE DEF a, b
<1>6. a = b
  BY <1>3, <1>4, <1>5, SeqEqual
<1> QED  BY <1>6 DEF a, b, rest

\* What the octets of a text are.
OctetsOfText(codepoints) == FlattenSeq([i \in DOMAIN codepoints |-> Utf8Append(codepoints[i])])

\* A codepoint more is its octets more.
LEMMA TextAppend ==
  ASSUME NEW text \in Seq(0 .. CodepointMax), NEW cp \in 0 .. CodepointMax,
         NEW more, more = Append(text, cp)
  PROVE  OctetsOfText(more) = OctetsOfText(text) \o Utf8Append(cp)
<1> DEFINE C == 0 .. CodepointMax
           f == [c \in C |-> Utf8Append(c)]
<1>1. f \in [C -> Seq(Octet)] /\ f[cp] = Utf8Append(cp)
  BY Utf8AppendType
<1>2. ASSUME NEW t \in Seq(C)
      PROVE  [i \in DOMAIN t |-> Utf8Append(t[i])] = Mapped(f, t)
  <2>1. \A i \in DOMAIN t : t[i] \in C
    BY ElementOfSeq, LenProperties
  <2> QED  BY <2>1 DEF Mapped
<1> HIDE DEF f, C
<1>3. text \in Seq(C) /\ cp \in C
  BY DEF C
<1>4. more \in Seq(C)
  BY <1>3, AppendProperties
<1>5. Mapped(f, more) = Append(Mapped(f, text), f[cp])
  BY <1>1, <1>3, MapAppend
<1>6. Mapped(f, text) \in Seq(Seq(Octet)) /\ f[cp] \in Seq(Octet)
  BY <1>1, <1>3, MapType
<1>7. FlattenSeq(Append(Mapped(f, text), f[cp])) = FlattenSeq(Mapped(f, text)) \o f[cp]
  BY <1>6, FlattenSeqAppend
<1>8. /\ OctetsOfText(more) = FlattenSeq(Mapped(f, more))
      /\ OctetsOfText(text) = FlattenSeq(Mapped(f, text))
  BY <1>2, <1>3, <1>4 DEF OctetsOfText
<1> QED  BY <1>1, <1>5, <1>7, <1>8

\* Nothing has been read in front of the first octet.
LEMMA NothingRead ==
  ASSUME NEW data
  PROVE  OctetsOfText(<<>>) = SubSeq(data, 1, 0)
<1>1. [i \in DOMAIN <<>> |-> Utf8Append(<<>>[i])] = <<>>
  OBVIOUS
<1>2. OctetsOfText(<<>>) = <<>>
  BY <1>1, FlattenSeqEmpty, Zenon DEF OctetsOfText
<1>3. SubSeq(data, 1, 0) = <<>>
  BY SubSeqEmpty
<1> QED  BY <1>2, <1>3

\* The octets of the next codepoint are those that the iterator passes.
LEMMA OctetsPassed ==
  ASSUME IInv, input.kind # "none", NEW p \in Nat, p < input.size, Decodes(p)
  PROVE  /\ CodepointAt(p) \in 0 .. CodepointMax
         /\ After(p) \in (p + 1) .. input.size
         /\ Utf8Append(CodepointAt(p)) = SubSeq(Data, p + 1, After(p))
<1> DEFINE rest == Rest(p)
           n == SequenceLength(rest[1])
<1>1. input.size \in Nat
  BY DEF IInv, TypeOK, InputTypeOK
<1>2. Data \in Seq(Octet) /\ Len(Data) = input.size
  BY DataType
<1>3. /\ rest \in Seq(Octet) /\ Len(rest) = input.size - p
      /\ \A i \in 1 .. (input.size - p) : rest[i] = Data[p + i]
  <2>1. \A i \in (p + 1) .. input.size : Data[i] \in Octet
    BY <1>1, <1>2, ElementOfSeq
  <2> QED  BY <1>1, <2>1, SubSeqProperties DEF Rest
<1>4. rest # <<>> /\ rest[1] = Data[p + 1]
  BY <1>1, <1>3
<1>5. StartsWithCodepoint(rest)
  BY DEF Decodes
<1>6. After(p) = p + n
  BY <1>4 DEF After
<1>7. CodepointAt(p) = CodePoint(rest, n)
  BY DEF CodepointAt
<1> HIDE DEF rest
<1>8. /\ n \in 1 .. 4 /\ n <= Len(rest)
      /\ CodePoint(rest, n) \in 0 .. CodepointMax
      /\ Utf8Append(CodePoint(rest, n)) = SubSeq(rest, 1, n)
  BY <1>3, <1>4, <1>5, Utf8RoundTrip
<1> HIDE DEF n
<1>9. SubSeq(rest, 1, n) = SubSeq(Data, p + 1, p + n)
  <2>1. rest = SubSeq(Data, p + 1, Len(Data))
    BY <1>2 DEF rest, Rest
  <2>2. n \in Nat /\ p + n <= Len(Data)
    BY <1>1, <1>2, <1>3, <1>8
  <2> QED  BY <1>2, <2>1, <2>2, SubSeqOfRest
<1>10. After(p) \in (p + 1) .. input.size
  BY AfterBound
<1>11. Utf8Append(CodepointAt(p)) = SubSeq(Data, p + 1, After(p))
  BY <1>6, <1>7, <1>8, <1>9, Zenon DEF n
<1>12. CodepointAt(p) \in 0 .. CodepointMax
  BY <1>7, <1>8, Zenon DEF n
<1> QED  BY <1>10, <1>11, <1>12

\* The invariant of the reader: nothing is read before there is an object.
ReadInv ==
  /\ read \in Seq(0 .. CodepointMax)
  /\ input.kind = "none" => read = <<>>
  /\ ReadsInOrder

\* A step that reads nothing: either the text in front of the position stays, or
\* the file is no longer the one that was loaded.
LEMMA ReadInvQuiet ==
  ASSUME ReadInv, UNCHANGED <<input, read>>,
         Unchanged' => UNCHANGED <<file, versions>>
  PROVE  ReadInv'
<1>1. ASSUME (input.kind = "memory" \/ Unchanged)'
      PROVE  Data' = Data /\ (input.kind = "memory" \/ Unchanged)
  <2>1. CASE input.kind = "memory"
    BY <2>1 DEF Data
  <2>2. CASE input.kind # "memory"
    <3>1. Unchanged' /\ UNCHANGED <<file, versions>>
      BY <1>1, <2>2
    <3> QED  BY <2>2, <3>1 DEF Data, Unchanged
  <2> QED  BY <2>1, <2>2
<1>2. ReadsInOrder'
  BY <1>1 DEF ReadInv, ReadsInOrder
<1> QED  BY <1>2 DEF ReadInv

\* A step after which nothing has been read.
LEMMA ReadInvStart ==
  ASSUME read' = <<>>, input'.pos = 0
  PROVE  ReadInv'
<1>1. OctetsOfText(read') = SubSeq(Data', 1, input'.pos)
  BY NothingRead
<1>2. ReadsInOrder'
  BY <1>1 DEF ReadsInOrder, OctetsOfText
<1>3. read' \in Seq(0 .. CodepointMax)
  BY EmptySeq
<1> QED  BY <1>2, <1>3 DEF ReadInv

\* NextCodepoint preserves the invariant of the reader.
LEMMA ReadInvNext ==
  ASSUME IInv, ReadInv, NextCodepoint
  PROVE  ReadInv'
<1> DEFINE p == input.pos
           cp == CodepointAt(p)
           q == After(p)
<1>1. /\ pc = "loaded" /\ p < input.size /\ Decodes(p)
      /\ read' = Append(read, cp)
      /\ input' = [input EXCEPT !.pos = q]
      /\ UNCHANGED <<pc, file, versions>>
  BY DEF NextCodepoint
<1>2. input.kind # "none" /\ p \in Nat /\ input.size \in Nat
  BY <1>1 DEF IInv, ObjectInv, TypeOK, InputTypeOK
<1>3. /\ input'.kind = input.kind /\ input'.size = input.size
      /\ input'.buffer = input.buffer /\ input'.pos = q
  BY <1>1 DEF IInv, TypeOK, InputTypeOK
<1>4. Data' = Data
  BY <1>1, <1>3 DEF Data
<1>5. /\ cp \in 0 .. CodepointMax /\ q \in (p + 1) .. input.size
      /\ Utf8Append(cp) = SubSeq(Data, p + 1, q)
  BY <1>1, <1>2, OctetsPassed
<1>6. Data \in Seq(Octet) /\ Len(Data) = input.size
  BY <1>2, DataType
<1> HIDE DEF p, cp, q
<1>7. read \in Seq(0 .. CodepointMax)
  BY DEF ReadInv
<1>8. read' \in Seq(0 .. CodepointMax)
  BY <1>1, <1>5, <1>7, AppendProperties
<1>9. ASSUME (input.kind = "memory" \/ Unchanged)'
      PROVE  OctetsOfText(read') = SubSeq(Data', 1, input'.pos)
  <2>1. OctetsOfText(read) = SubSeq(Data, 1, p)
    <3>1. input.kind = "memory" \/ Unchanged
      BY <1>1, <1>3, <1>9 DEF Unchanged
    <3> QED  BY <3>1 DEF ReadInv, ReadsInOrder, OctetsOfText, p
  <2>2. OctetsOfText(read') = OctetsOfText(read) \o Utf8Append(cp)
    BY <1>1, <1>5, <1>7, TextAppend
  <2>3. PICK n \in Nat : q = p + n /\ p + n <= Len(Data)
    <3>1. q - p \in Nat /\ q = p + (q - p) /\ q <= Len(Data)
      BY <1>2, <1>5, <1>6
    <3> QED  BY <3>1
  <2>4. SubSeq(Data, 1, q) = SubSeq(Data, 1, p) \o SubSeq(Data, p + 1, q)
    BY <1>2, <1>6, <2>3, SubSeqSplit
  <2> QED  BY <1>3, <1>4, <1>5, <2>1, <2>2, <2>4
<1>10. ReadsInOrder'
  BY <1>9 DEF ReadsInOrder, OctetsOfText
<1>11. input'.kind # "none"
  BY <1>2, <1>3
<1> QED  BY <1>8, <1>10, <1>11 DEF ReadInv

\* A user who changes the file leaves a changed file.
LEMMA UserChanges ==
  ASSUME IInv, Rewrite \/ RemoveFile
  PROVE  UNCHANGED <<pc, input, read>> /\ ~ Unchanged'
<1>1. UNCHANGED <<pc, input, read>>
  BY DEF Rewrite, RemoveFile
<1>2. CASE Rewrite
  <2>1. versions \in Seq(Seq(Octet)) /\ versions # <<>>
    BY DEF IInv, VersionsInv
  <2>2. PICK octets \in Rewrites : versions' = Append(versions, octets)
    BY <1>2 DEF Rewrite
  <2>3. Len(versions) \in Nat /\ Len(versions) # 0
    BY <2>1, LenProperties, EmptySeq
  <2>4. Len(versions') = Len(versions) + 1
    BY <2>1, <2>2, FilesAssumption, AppendProperties
  <2> QED  BY <1>1, <2>3, <2>4 DEF Unchanged
<1>3. CASE RemoveFile
  <2>1. file' = [file EXCEPT !.exists = FALSE, !.changes = @ - 1]
    BY <1>3 DEF RemoveFile
  <2>2. file'.exists = FALSE
    BY <2>1 DEF IInv, TypeOK, InputTypeOK, File
  <2> QED  BY <1>1, <2>2 DEF Unchanged
<1> QED  BY <1>2, <1>3

\* The invariant of the reader holds initially.
LEMMA ReadInvInit == Init => ReadInv
<1> SUFFICES ASSUME Init PROVE ReadInv
  OBVIOUS
<1>1. read = <<>> /\ input.pos = 0
  BY DEF Init, InputInit
<1>2. OctetsOfText(read) = SubSeq(Data, 1, input.pos)
  BY <1>1, NothingRead
<1>3. read \in Seq(0 .. CodepointMax)
  BY <1>1, EmptySeq
<1> QED  BY <1>1, <1>2, <1>3 DEF ReadInv, ReadsInOrder, OctetsOfText

\* Every step preserves the invariant of the reader.
LEMMA ReadInvStep == IInv /\ ReadInv /\ [Next]_vars => ReadInv'
<1> SUFFICES ASSUME IInv, ReadInv, [Next]_vars PROVE ReadInv'
  OBVIOUS
<1>1. CASE NextCodepoint
  BY <1>1, ReadInvNext
<1>2. CASE Reset
  <2>1. read' = <<>> /\ input'.pos = 0
    BY <1>2 DEF Reset, IInv, TypeOK, InputTypeOK
  <2> QED  BY <2>1, ReadInvStart
<1>3. CASE TellSize \/ ReadStream \/ MapFile
  <2>1. read = <<>> /\ input.pos = 0
    BY <1>3 DEF TellSize, ReadStream, MapFile, IInv, ObjectInv, Loading, ReadInv
  <2>2. read' = <<>> /\ input'.pos = 0
    BY <1>3, <2>1
    DEF TellSize, ReadStream, MapFile, Throw, IInv, TypeOK, InputTypeOK
  <2> QED  BY <2>2, ReadInvStart
<1>4. CASE Rewrite \/ RemoveFile
  BY <1>4, UserChanges, ReadInvQuiet
<1>5. CASE UNCHANGED <<file, versions, input, read>>
  BY <1>5, ReadInvQuiet
<1>6. CASE Call /\ ~ (TellSize \/ ReadStream \/ MapFile)
  <2>1. UNCHANGED <<file, versions, input, read>>
    BY <1>6
    DEF Call, Load, CheckFile, GetFileLoadType, OpenStream, Throw, Continue,
        BuildFrequencyTable, CountCodepoint, ScanFails, ScanFaults, ReturnTable,
        inputVars
  <2> QED  BY <1>5, <2>1
<1>7. CASE UNCHANGED vars
  BY <1>5, <1>7 DEF vars
<1> QED  BY <1>1, <1>2, <1>3, <1>4, <1>6, <1>7 DEF Next

\* For all files, limits and changes, and however often the object is reset,
\* what has been read since is the text in front of the position: the codepoints
\* that utf8::next accepts are those that utf8::append gives back octet by octet.
THEOREM ReadsInOrderCorrect == Spec => []ReadsInOrder
<1>1. ReadInv => ReadsInOrder
  BY DEF ReadInv
<1>2. Spec => []ReadInv
  BY IInvAlways, ReadInvInit, ReadInvStep, PTL DEF Spec
<1> QED  BY <1>1, <1>2, PTL

-----------------------------------------------------------------------------
(* The input at which the scan fails.                                      *)

\* The codepoints that validate_next accepts.
LEMMA ValidCodepoints ==
  ASSUME NEW cp \in Nat, cp <= 1114111, cp < 55296 \/ 57343 < cp
  PROVE  IsCodePointValid(cp)
<1>1. ~ IsSurrogate(cp)
  BY SMT DEF IsSurrogate
<1>2. cp <= CodepointMax
  BY CodepointMaxBound, SMT
<1>3. cp \in 0 .. CodepointMax
  BY <1>2, CodepointMaxBound, SMT
<1> QED  BY <1>1, <1>3 DEF IsCodePointValid

\* What makes octets begin with a codepoint of n octets.
LEMMA StartsWithForm ==
  ASSUME NEW s \in Seq(Octet), NEW n \in 1 .. 4, n <= Len(s),
         SequenceLength(s[1]) = n, \A i \in 2 .. n : IsTrail(s[i]),
         NEW cp \in Nat, cp = CodePoint(s, n), OctetsOf(cp) = n,
         cp <= 1114111, cp < 55296 \/ 57343 < cp
  PROVE  StartsWithCodepoint(s)
<1>1. IsCodePointValid(cp)
  BY ValidCodepoints, SMT
<1>2. ~ IsOverlongSequence(cp, n)
  BY DEF IsOverlongSequence
<1>3. n > 0 /\ \A i \in 2 .. n : i <= Len(s)
  BY LenProperties
<1> QED  BY <1>1, <1>2, <1>3 DEF StartsWithCodepoint

\* The well-formed sequences of one octet.
LEMMA WellFormedOne ==
  ASSUME NEW s \in Seq(Octet), 1 <= Len(s), s[1] <= 127
  PROVE  StartsWithCodepoint(s)
<1>1. s[1] \in Octet
  BY ElementOfSeq, LenProperties
<1>2. PICK a \in Octet : a = s[1] /\ a <= 127
  BY <1>1
<1>3. a \in Nat /\ a < 128
  <2>1. a \in Nat
    BY DEF Octet
  <2>2. a <= 127
    BY <1>2
  <2> QED  BY ONLY <2>1, <2>2, SMT
<1>4. SequenceLength(s[1]) = 1
  BY <1>2, <1>3, LeadsOfLength
<1>5. CodePoint(s, 1) = a
  BY <1>2, CodePointForms, SMT
<1>6. OctetsOf(a) = 1 /\ a <= 1114111 /\ a < 55296
  BY <1>3, OctetsOfRanges, SMT
<1> QED  BY <1>3, <1>4, <1>5, <1>6, StartsWithForm, SMT

\* The well-formed sequences of two octets.
LEMMA WellFormedTwo ==
  ASSUME NEW s \in Seq(Octet), 2 <= Len(s), 194 <= s[1], s[1] <= 223,
         128 <= s[2], s[2] <= 191
  PROVE  StartsWithCodepoint(s)
<1>1. \A i \in 1 .. 2 : s[i] \in Octet
  BY ElementOfSeq, LenProperties
<1>2. PICK a \in Octet, b \in Octet :
        a = s[1] /\ b = s[2]
  BY <1>1
<1>3. /\ 194 <= a /\ a <= 223
      /\ 128 <= b /\ b <= 191
  BY <1>2
<1>4. a \in Nat /\ b \in Nat
  BY DEF Octet
<1>5. a \div 32 = 6 /\ b \div 64 = 2
  BY ONLY <1>3, <1>4, SMT
<1>6. SequenceLength(s[1]) = 2 /\ \A i \in 2 .. 2 : IsTrail(s[i])
  <2>1. SequenceLength(a) = 2 /\ IsTrail(b)
    BY <1>5, LeadsOfLength DEF IsTrail
  <2> QED  BY <1>2, <2>1
<1>7. CodePoint(s, 2)
        = ((a * 64) % 2048) + (b % 64)
  BY <1>2, CodePointForms, SMT
<1>8. PICK cp \in Nat : /\ cp = ((a - 192) * 64) + (b - 128)
                        /\ 128 <= cp /\ cp < 2048
  BY ONLY <1>3, <1>4, SMT
<1>9. cp = CodePoint(s, 2)
  <2>1. /\ (a * 64) % 2048 = (a - 192) * 64
        /\ b % 64 = b - 128
    BY ONLY <1>3, <1>4, SMT
  <2> QED  BY ONLY <1>7, <1>8, <2>1, SMT
<1>10. OctetsOf(cp) = 2 /\ cp <= 1114111 /\ cp < 55296
  BY <1>8, OctetsOfRanges, SMT
<1> QED  BY ONLY s \in Seq(Octet), 2 <= Len(s), <1>6, <1>8, <1>9, <1>10, StartsWithForm, SMT

\* The well-formed sequences of three octets: the second one keeps them from
\* being overlong or a surrogate.
LEMMA WellFormedThree ==
  ASSUME NEW s \in Seq(Octet), 3 <= Len(s), 224 <= s[1], s[1] <= 239,
         128 <= s[2], s[2] <= 191, 128 <= s[3], s[3] <= 191,
         s[1] = 224 => s[2] >= 160, s[1] = 237 => s[2] < 160
  PROVE  StartsWithCodepoint(s)
<1>1. \A i \in 1 .. 3 : s[i] \in Octet
  BY ElementOfSeq, LenProperties
<1>2. PICK a \in Octet, b \in Octet, c \in Octet :
        a = s[1] /\ b = s[2] /\ c = s[3]
  BY <1>1
<1>3. /\ 224 <= a /\ a <= 239
      /\ 128 <= b /\ b <= 191
      /\ 128 <= c /\ c <= 191
      /\ (a = 224 => b >= 160) /\ (a = 237 => b < 160)
  BY <1>2
<1>4. a \in Nat /\ b \in Nat /\ c \in Nat
  BY DEF Octet
<1>5. a \div 16 = 14 /\ b \div 64 = 2 /\ c \div 64 = 2
  BY ONLY <1>3, <1>4, SMT
<1>6. SequenceLength(s[1]) = 3 /\ \A i \in 2 .. 3 : IsTrail(s[i])
  <2>1. SequenceLength(a) = 3 /\ IsTrail(b) /\ IsTrail(c)
    BY <1>5, LeadsOfLength DEF IsTrail
  <2> QED  BY <1>2, <2>1
<1>7. CodePoint(s, 3)
        = ((a * 4096) % 65536) + ((b % 64) * 64) + (c % 64)
  BY <1>2, CodePointForms, SMT
<1>8. PICK cp \in Nat : /\ cp = ((a - 224) * 4096) + ((b - 128) * 64) + (c - 128)
                        /\ 2048 <= cp /\ cp < 65536
                        /\ cp < 55296 \/ 57343 < cp
  BY ONLY <1>3, <1>4, SMT
<1>9. cp = CodePoint(s, 3)
  <2>1. /\ (a * 4096) % 65536 = (a - 224) * 4096
        /\ b % 64 = b - 128
        /\ c % 64 = c - 128
    BY ONLY <1>3, <1>4, SMT
  <2> QED  BY ONLY <1>7, <1>8, <2>1, SMT
<1>10. OctetsOf(cp) = 3 /\ cp <= 1114111
  BY <1>8, OctetsOfRanges, SMT
<1> QED  BY ONLY s \in Seq(Octet), 3 <= Len(s), <1>6, <1>8, <1>9, <1>10, StartsWithForm, SMT

\* The well-formed sequences of four octets: the second one keeps them from
\* being overlong or too large.
LEMMA WellFormedFour ==
  ASSUME NEW s \in Seq(Octet), 4 <= Len(s), 240 <= s[1], s[1] <= 244,
         128 <= s[2], s[2] <= 191, 128 <= s[3], s[3] <= 191, 128 <= s[4], s[4] <= 191,
         s[1] = 240 => s[2] >= 144, s[1] = 244 => s[2] < 144
  PROVE  StartsWithCodepoint(s)
<1>1. \A i \in 1 .. 4 : s[i] \in Octet
  BY ElementOfSeq, LenProperties
<1>2. PICK a \in Octet, b \in Octet, c \in Octet, d \in Octet :
        a = s[1] /\ b = s[2] /\ c = s[3] /\ d = s[4]
  BY <1>1
<1>3. /\ 240 <= a /\ a <= 244
      /\ 128 <= b /\ b <= 191
      /\ 128 <= c /\ c <= 191
      /\ 128 <= d /\ d <= 191
      /\ (a = 240 => b >= 144) /\ (a = 244 => b < 144)
  BY <1>2
<1>4. a \in Nat /\ b \in Nat /\ c \in Nat /\ d \in Nat
  BY DEF Octet
<1>5. a \div 8 = 30 /\ b \div 64 = 2 /\ c \div 64 = 2 /\ d \div 64 = 2
  BY ONLY <1>3, <1>4, SMT
<1>6. SequenceLength(s[1]) = 4 /\ \A i \in 2 .. 4 : IsTrail(s[i])
  <2>1. SequenceLength(a) = 4 /\ IsTrail(b) /\ IsTrail(c) /\ IsTrail(d)
    BY <1>5, LeadsOfLength DEF IsTrail
  <2> QED  BY <1>2, <2>1
<1>7. CodePoint(s, 4)
        = ((a * 262144) % 2097152) + ((b % 64) * 4096) + ((c % 64) * 64) + (d % 64)
  BY <1>2, CodePointForms, SMT
<1>8. PICK cp \in Nat : /\ cp = ((a - 240) * 262144) + ((b - 128) * 4096) + ((c - 128) * 64) + (d - 128)
                        /\ 65536 <= cp /\ cp <= 1114111
  BY ONLY <1>3, <1>4, SMT
<1>9. cp = CodePoint(s, 4)
  <2>1. /\ (a * 262144) % 2097152 = (a - 240) * 262144
        /\ b % 64 = b - 128
        /\ c % 64 = c - 128
        /\ d % 64 = d - 128
    BY ONLY <1>3, <1>4, SMT
  <2> QED  BY ONLY <1>7, <1>8, <2>1, SMT
<1>10. OctetsOf(cp) = 4 /\ 57343 < cp
  BY <1>8, OctetsOfRanges, SMT
<1> QED  BY ONLY s \in Seq(Octet), 4 <= Len(s), <1>6, <1>8, <1>9, <1>10, StartsWithForm, SMT

\* The octets begin with a sequence in these ranges.
Matches(s, ranges) ==
  Len(ranges) <= Len(s) /\ \A i \in DOMAIN ranges : s[i] \in ranges[i]

\* What that means for one to four octets.
LEMMA MatchesForms ==
  ASSUME NEW s, NEW A, NEW B, NEW C, NEW D
  PROVE  /\ Matches(s, <<A>>) => 1 <= Len(s) /\ s[1] \in A
         /\ Matches(s, <<A, B>>) => 2 <= Len(s) /\ s[1] \in A /\ s[2] \in B
         /\ Matches(s, <<A, B, C>>) =>
              3 <= Len(s) /\ s[1] \in A /\ s[2] \in B /\ s[3] \in C
         /\ Matches(s, <<A, B, C, D>>) =>
              4 <= Len(s) /\ s[1] \in A /\ s[2] \in B /\ s[3] \in C /\ s[4] \in D
BY DEF Matches

\* Well-formed octets begin with a codepoint.
LEMMA WellFormedStarts ==
  ASSUME NEW s \in Seq(Octet), NEW ranges \in WellFormed, Matches(s, ranges)
  PROVE  StartsWithCodepoint(s)
<1>1. CASE ranges = <<0 .. 127>>
  <2> DEFINE first == 0 .. 127
  <2>1. Matches(s, <<first>>)
    BY <1>1
  <2>2. 1 <= Len(s) /\ s[1] \in first
    <3> HIDE DEF first
    <3> QED  BY <2>1, MatchesForms
  <2>3. PICK a : a = s[1]
    OBVIOUS
  <2>4. a \in 0 .. 127
    BY <2>2, <2>3, Zenon DEF first
  <2>5. a <= 127
    BY ONLY <2>4
  <2>6. 1 <= Len(s)
    BY <2>2, Zenon
  <2> QED  BY <2>3, <2>5, <2>6, WellFormedOne, Zenon
<1>2. CASE ranges = <<194 .. 223, AnyTrail>>
  <2> DEFINE first == 194 .. 223
  <2>1. Matches(s, <<first, AnyTrail>>)
    BY <1>2
  <2>2. 2 <= Len(s) /\ s[1] \in first /\ s[2] \in AnyTrail
    <3> HIDE DEF first
    <3> QED  BY <2>1, MatchesForms
  <2>3. PICK a, b : a = s[1] /\ b = s[2]
    OBVIOUS
  <2>4. a \in 194 .. 223 /\ b \in AnyTrail
    BY <2>2, <2>3, Zenon DEF first
  <2>5. /\ 194 <= a /\ a <= 223
        /\ 128 <= b /\ b <= 191
    BY ONLY <2>4 DEF AnyTrail
  <2>6. 2 <= Len(s)
    BY <2>2, Zenon
  <2> QED  BY <2>3, <2>5, <2>6, WellFormedTwo, Zenon
<1>3. CASE ranges = <<{224}, 160 .. 191, AnyTrail>>
  <2> DEFINE first == {224}
             second == 160 .. 191
  <2>1. Matches(s, <<first, second, AnyTrail>>)
    BY <1>3
  <2>2. 3 <= Len(s) /\ s[1] \in first /\ s[2] \in second /\ s[3] \in AnyTrail
    <3> HIDE DEF first, second
    <3> QED  BY <2>1, MatchesForms
  <2>3. PICK a, b, c : a = s[1] /\ b = s[2] /\ c = s[3]
    OBVIOUS
  <2>4. a \in {224} /\ b \in 160 .. 191 /\ c \in AnyTrail
    BY <2>2, <2>3, Zenon DEF first, second
  <2>5. /\ 224 <= a /\ a <= 239
        /\ 128 <= b /\ b <= 191
        /\ 128 <= c /\ c <= 191
        /\ (a = 224 => b >= 160)
        /\ (a = 237 => b < 160)
    BY ONLY <2>4 DEF AnyTrail
  <2>6. 3 <= Len(s)
    BY <2>2, Zenon
  <2> QED  BY <2>3, <2>5, <2>6, WellFormedThree, Zenon
<1>4. CASE ranges = <<225 .. 236, AnyTrail, AnyTrail>>
  <2> DEFINE first == 225 .. 236
  <2>1. Matches(s, <<first, AnyTrail, AnyTrail>>)
    BY <1>4
  <2>2. 3 <= Len(s) /\ s[1] \in first /\ s[2] \in AnyTrail /\ s[3] \in AnyTrail
    <3> HIDE DEF first
    <3> QED  BY <2>1, MatchesForms
  <2>3. PICK a, b, c : a = s[1] /\ b = s[2] /\ c = s[3]
    OBVIOUS
  <2>4. a \in 225 .. 236 /\ b \in AnyTrail /\ c \in AnyTrail
    BY <2>2, <2>3, Zenon DEF first
  <2>5. /\ 224 <= a /\ a <= 239
        /\ 128 <= b /\ b <= 191
        /\ 128 <= c /\ c <= 191
        /\ (a = 224 => b >= 160)
        /\ (a = 237 => b < 160)
    BY ONLY <2>4 DEF AnyTrail
  <2>6. 3 <= Len(s)
    BY <2>2, Zenon
  <2> QED  BY <2>3, <2>5, <2>6, WellFormedThree, Zenon
<1>5. CASE ranges = <<{237}, 128 .. 159, AnyTrail>>
  <2> DEFINE first == {237}
             second == 128 .. 159
  <2>1. Matches(s, <<first, second, AnyTrail>>)
    BY <1>5
  <2>2. 3 <= Len(s) /\ s[1] \in first /\ s[2] \in second /\ s[3] \in AnyTrail
    <3> HIDE DEF first, second
    <3> QED  BY <2>1, MatchesForms
  <2>3. PICK a, b, c : a = s[1] /\ b = s[2] /\ c = s[3]
    OBVIOUS
  <2>4. a \in {237} /\ b \in 128 .. 159 /\ c \in AnyTrail
    BY <2>2, <2>3, Zenon DEF first, second
  <2>5. /\ 224 <= a /\ a <= 239
        /\ 128 <= b /\ b <= 191
        /\ 128 <= c /\ c <= 191
        /\ (a = 224 => b >= 160)
        /\ (a = 237 => b < 160)
    BY ONLY <2>4 DEF AnyTrail
  <2>6. 3 <= Len(s)
    BY <2>2, Zenon
  <2> QED  BY <2>3, <2>5, <2>6, WellFormedThree, Zenon
<1>6. CASE ranges = <<238 .. 239, AnyTrail, AnyTrail>>
  <2> DEFINE first == 238 .. 239
  <2>1. Matches(s, <<first, AnyTrail, AnyTrail>>)
    BY <1>6
  <2>2. 3 <= Len(s) /\ s[1] \in first /\ s[2] \in AnyTrail /\ s[3] \in AnyTrail
    <3> HIDE DEF first
    <3> QED  BY <2>1, MatchesForms
  <2>3. PICK a, b, c : a = s[1] /\ b = s[2] /\ c = s[3]
    OBVIOUS
  <2>4. a \in 238 .. 239 /\ b \in AnyTrail /\ c \in AnyTrail
    BY <2>2, <2>3, Zenon DEF first
  <2>5. /\ 224 <= a /\ a <= 239
        /\ 128 <= b /\ b <= 191
        /\ 128 <= c /\ c <= 191
        /\ (a = 224 => b >= 160)
        /\ (a = 237 => b < 160)
    BY ONLY <2>4 DEF AnyTrail
  <2>6. 3 <= Len(s)
    BY <2>2, Zenon
  <2> QED  BY <2>3, <2>5, <2>6, WellFormedThree, Zenon
<1>7. CASE ranges = <<{240}, 144 .. 191, AnyTrail, AnyTrail>>
  <2> DEFINE first == {240}
             second == 144 .. 191
  <2>1. Matches(s, <<first, second, AnyTrail, AnyTrail>>)
    BY <1>7
  <2>2. 4 <= Len(s) /\ s[1] \in first /\ s[2] \in second /\ s[3] \in AnyTrail /\ s[4] \in AnyTrail
    <3> HIDE DEF first, second
    <3> QED  BY <2>1, MatchesForms
  <2>3. PICK a, b, c, d : a = s[1] /\ b = s[2] /\ c = s[3] /\ d = s[4]
    OBVIOUS
  <2>4. a \in {240} /\ b \in 144 .. 191 /\ c \in AnyTrail /\ d \in AnyTrail
    BY <2>2, <2>3, Zenon DEF first, second
  <2>5. /\ 240 <= a /\ a <= 244
        /\ 128 <= b /\ b <= 191
        /\ 128 <= c /\ c <= 191
        /\ 128 <= d /\ d <= 191
        /\ (a = 240 => b >= 144)
        /\ (a = 244 => b < 144)
    BY ONLY <2>4 DEF AnyTrail
  <2>6. 4 <= Len(s)
    BY <2>2, Zenon
  <2> QED  BY <2>3, <2>5, <2>6, WellFormedFour, Zenon
<1>8. CASE ranges = <<241 .. 243, AnyTrail, AnyTrail, AnyTrail>>
  <2> DEFINE first == 241 .. 243
  <2>1. Matches(s, <<first, AnyTrail, AnyTrail, AnyTrail>>)
    BY <1>8
  <2>2. 4 <= Len(s) /\ s[1] \in first /\ s[2] \in AnyTrail /\ s[3] \in AnyTrail /\ s[4] \in AnyTrail
    <3> HIDE DEF first
    <3> QED  BY <2>1, MatchesForms
  <2>3. PICK a, b, c, d : a = s[1] /\ b = s[2] /\ c = s[3] /\ d = s[4]
    OBVIOUS
  <2>4. a \in 241 .. 243 /\ b \in AnyTrail /\ c \in AnyTrail /\ d \in AnyTrail
    BY <2>2, <2>3, Zenon DEF first
  <2>5. /\ 240 <= a /\ a <= 244
        /\ 128 <= b /\ b <= 191
        /\ 128 <= c /\ c <= 191
        /\ 128 <= d /\ d <= 191
        /\ (a = 240 => b >= 144)
        /\ (a = 244 => b < 144)
    BY ONLY <2>4 DEF AnyTrail
  <2>6. 4 <= Len(s)
    BY <2>2, Zenon
  <2> QED  BY <2>3, <2>5, <2>6, WellFormedFour, Zenon
<1>9. CASE ranges = <<{244}, 128 .. 143, AnyTrail, AnyTrail>>
  <2> DEFINE first == {244}
             second == 128 .. 143
  <2>1. Matches(s, <<first, second, AnyTrail, AnyTrail>>)
    BY <1>9
  <2>2. 4 <= Len(s) /\ s[1] \in first /\ s[2] \in second /\ s[3] \in AnyTrail /\ s[4] \in AnyTrail
    <3> HIDE DEF first, second
    <3> QED  BY <2>1, MatchesForms
  <2>3. PICK a, b, c, d : a = s[1] /\ b = s[2] /\ c = s[3] /\ d = s[4]
    OBVIOUS
  <2>4. a \in {244} /\ b \in 128 .. 143 /\ c \in AnyTrail /\ d \in AnyTrail
    BY <2>2, <2>3, Zenon DEF first, second
  <2>5. /\ 240 <= a /\ a <= 244
        /\ 128 <= b /\ b <= 191
        /\ 128 <= c /\ c <= 191
        /\ 128 <= d /\ d <= 191
        /\ (a = 240 => b >= 144)
        /\ (a = 244 => b < 144)
    BY ONLY <2>4 DEF AnyTrail
  <2>6. 4 <= Len(s)
    BY <2>2, Zenon
  <2> QED  BY <2>3, <2>5, <2>6, WellFormedFour, Zenon
<1> QED
  BY <1>1, <1>2, <1>3, <1>4, <1>5, <1>6, <1>7, <1>8, <1>9 DEF WellFormed

\* A step that does not let the scan fail: either what the scan has left stays,
\* or the file is no longer the one that was loaded.
LEMMA FailsQuiet ==
  ASSUME FailsOnlyOnInvalid, UNCHANGED <<input, curr>>,
         pc' = "file_operation_error" => pc = "file_operation_error",
         Unchanged' => UNCHANGED <<file, versions>>
  PROVE  FailsOnlyOnInvalid'
<1>1. ASSUME (input.kind = "memory" \/ Unchanged)'
      PROVE  Data' = Data /\ (input.kind = "memory" \/ Unchanged)
  <2>1. CASE input.kind = "memory"
    BY <2>1 DEF Data
  <2>2. CASE input.kind # "memory"
    <3>1. Unchanged' /\ UNCHANGED <<file, versions>>
      BY <1>1, <2>2
    <3> QED  BY <2>2, <3>1 DEF Data, Unchanged
  <2> QED  BY <2>1, <2>2
<1> QED  BY <1>1 DEF FailsOnlyOnInvalid, Rest

\* Where the scan fails there is no codepoint, so nothing that is well-formed.
LEMMA FailsAtInvalid ==
  ASSUME IInv, ScanFails
  PROVE  FailsOnlyOnInvalid'
<1>1. /\ pc = "scan" /\ ~ Faults(curr) /\ ~ Decodes(curr)
      /\ UNCHANGED <<file, versions, input, read, tableVars>>
  BY DEF ScanFails, Scanning, Throw
<1>2. input.kind # "none" /\ input.size \in Nat /\ curr \in Nat
  BY <1>1 DEF IInv, ObjectInv, TypeOK, InputTypeOK
<1>3. Data \in Seq(Octet) /\ Len(Data) = input.size
  BY <1>2, DataType
<1>4. Rest(curr) \in Seq(Octet)
  <2>1. \A i \in (curr + 1) .. input.size : Data[i] \in Octet
    BY <1>2, <1>3, ElementOfSeq
  <2> QED  BY <1>2, <2>1, SubSeqProperties DEF Rest
<1>5. ~ StartsWithCodepoint(Rest(curr))
  BY <1>1 DEF Decodes
<1>6. ~ \E ranges \in WellFormed : Matches(Rest(curr), ranges)
  BY <1>4, <1>5, WellFormedStarts
<1>7. Rest(curr)' = Rest(curr)
  BY <1>1 DEF Rest, Data, tableVars
<1> QED  BY <1>6, <1>7 DEF FailsOnlyOnInvalid, Matches

\* Every step preserves it.
LEMMA FailsStep == IInv /\ FailsOnlyOnInvalid /\ [Next]_vars => FailsOnlyOnInvalid'
<1> SUFFICES ASSUME IInv, FailsOnlyOnInvalid, [Next]_vars
             PROVE  FailsOnlyOnInvalid'
  OBVIOUS
<1>1. CASE ScanFails
  BY <1>1, FailsAtInvalid
<1>2. CASE Load /\ UNCHANGED tableVars
  <2>1. input.kind = "none"
    BY <1>2
    DEF Load, CheckFile, GetFileLoadType, OpenStream, TellSize, ReadStream, MapFile,
        IInv, ObjectInv, Loading
  <2>2. pc' = "file_operation_error" => input' = input
    BY <1>2
    DEF Load, CheckFile, GetFileLoadType, OpenStream, TellSize, ReadStream, MapFile,
        Throw, Continue
  <2> QED  BY <2>1, <2>2 DEF FailsOnlyOnInvalid
<1>3. CASE BuildFrequencyTable \/ CountCodepoint \/ ScanFaults \/ ReturnTable
  <2>1. pc' # "file_operation_error"
    BY <1>3
    DEF BuildFrequencyTable, CountCodepoint, ScanFaults, ReturnTable, Scanning,
        Throw, inputVars
  <2> QED  BY <2>1 DEF FailsOnlyOnInvalid
<1>4. CASE NextCodepoint \/ Reset
  <2>1. pc' # "file_operation_error"
    BY <1>4 DEF NextCodepoint, Reset
  <2> QED  BY <2>1 DEF FailsOnlyOnInvalid
<1>5. CASE (Rewrite \/ RemoveFile) /\ UNCHANGED tableVars
  BY <1>5, UserChanges, FailsQuiet DEF tableVars
<1>6. CASE UNCHANGED vars
  BY <1>6, FailsQuiet DEF vars
<1> QED  BY <1>1, <1>2, <1>3, <1>4, <1>5, <1>6 DEF Next, Call

\* For all files, limits and changes the scan gives up only where the input goes
\* on with no sequence of the Unicode Standard: what validate_next rejects is
\* ill-formed by table 3-7, with its own ranges for the second octet.
THEOREM FailsOnlyOnInvalidCorrect == Spec => []FailsOnlyOnInvalid
<1>1. Init => FailsOnlyOnInvalid
  BY DEF Init, InputInit, FailsOnlyOnInvalid
<1>2. Spec => []FailsOnlyOnInvalid
  BY <1>1, IInvAlways, FailsStep, PTL DEF Spec
<1> QED  BY <1>2

-----------------------------------------------------------------------------
(* UTF-8 is self-synchronising.                                            *)

\* A trail octet and its payload.
LEMMA TrailForm ==
  ASSUME NEW bits \in Nat
  PROVE  /\ IsTrail(Trail(bits)) /\ Trail(bits) % 64 = bits % 64
         /\ Trail(bits) \in Octet
BY SMT DEF Trail, IsTrail, Octet

\* What one octet that is appended looks like, and what it is decoded to.
LEMMA ShapeOne ==
  ASSUME NEW cp \in Nat, cp < 128
  PROVE  ~ IsTrail(cp) /\ SequenceLength(cp) = 1
<1>1. cp \in Octet /\ ~ IsTrail(cp)
  BY SMT DEF Octet, IsTrail
<1> QED  BY <1>1, LeadsOfLength

\* Two octets.
LEMMA ShapeTwo ==
  ASSUME NEW cp \in Nat, 128 <= cp, cp < 2048,
         NEW a, a = 192 + (cp \div 64), NEW b, b = Trail(cp)
  PROVE  /\ ~ IsTrail(a) /\ SequenceLength(a) = 2 /\ IsTrail(b)
         /\ ((a * 64) % 2048) + (b % 64) = cp
<1> DEFINE x == cp \div 64
           y == cp % 64
<1>1. /\ x \in Nat /\ x < 32 /\ y \in Nat /\ y < 64 /\ a = 192 + x
      /\ cp = x * 64 + y
  BY SMT
<1>2. IsTrail(b) /\ b % 64 = y
  BY TrailForm
<1> HIDE DEF x, y
<1>3. a \in Octet /\ a \div 32 = 6 /\ ~ IsTrail(a)
  BY ONLY <1>1, SMT DEF Octet, IsTrail
<1>4. (a * 64) % 2048 = x * 64
  BY ONLY <1>1, SMT
<1>5. ((a * 64) % 2048) + (b % 64) = cp
  BY ONLY <1>1, <1>2, <1>4, SMT
<1> QED  BY <1>2, <1>3, <1>5, LeadsOfLength

\* Three octets.
LEMMA ShapeThree ==
  ASSUME NEW cp \in Nat, 2048 <= cp, cp < 65536,
         NEW a, a = 224 + (cp \div (64 * 64)), NEW b, b = Trail(cp \div 64),
         NEW c, c = Trail(cp)
  PROVE  /\ ~ IsTrail(a) /\ SequenceLength(a) = 3 /\ IsTrail(b) /\ IsTrail(c)
         /\ ((a * 4096) % 65536) + ((b % 64) * 64) + (c % 64) = cp
<1> DEFINE x == cp \div (64 * 64)
           u == cp \div 64
           y == u % 64
           z == cp % 64
<1>1. u \in Nat /\ z \in Nat /\ z < 64 /\ cp = u * 64 + z
  BY SMT
<1>2. IsTrail(b) /\ b % 64 = y /\ IsTrail(c) /\ c % 64 = z
  BY <1>1, TrailForm
<1>3. /\ x \in Nat /\ x < 16 /\ a = 224 + x /\ y \in Nat /\ y < 64
      /\ u = x * 64 + y
  BY SMT
<1> HIDE DEF x, u, y, z
<1>4. a \in Octet /\ a \div 16 = 14 /\ ~ IsTrail(a)
  BY ONLY <1>3, SMT DEF Octet, IsTrail
<1>5. (a * 4096) % 65536 = x * 4096
  BY ONLY <1>3, SMT
<1>6. ((a * 4096) % 65536) + ((b % 64) * 64) + (c % 64) = cp
  BY ONLY <1>1, <1>2, <1>3, <1>5, SMT
<1> QED  BY <1>2, <1>4, <1>6, LeadsOfLength

\* Four octets.
LEMMA ShapeFour ==
  ASSUME NEW cp \in Nat, 65536 <= cp, cp <= 1114111,
         NEW a, a = 240 + (cp \div (64 * 64 * 64)), NEW b, b = Trail(cp \div (64 * 64)),
         NEW c, c = Trail(cp \div 64), NEW d, d = Trail(cp)
  PROVE  /\ ~ IsTrail(a) /\ SequenceLength(a) = 4
         /\ IsTrail(b) /\ IsTrail(c) /\ IsTrail(d)
         /\ ((a * 262144) % 2097152) + ((b % 64) * 4096) + ((c % 64) * 64) + (d % 64) = cp
<1> DEFINE x == cp \div (64 * 64 * 64)
           v == cp \div (64 * 64)
           u == cp \div 64
           y == v % 64
           z == u % 64
           w == cp % 64
<1>1. u \in Nat /\ v \in Nat /\ w \in Nat /\ w < 64 /\ cp = u * 64 + w
  BY SMT
<1>2. /\ IsTrail(b) /\ b % 64 = y /\ IsTrail(c) /\ c % 64 = z
      /\ IsTrail(d) /\ d % 64 = w
  BY <1>1, TrailForm
<1>3. z \in Nat /\ z < 64 /\ u = v * 64 + z
  BY SMT
<1>4. /\ x \in Nat /\ x < 8 /\ a = 240 + x /\ y \in Nat /\ y < 64
      /\ v = x * 64 + y
  BY SMT
<1> HIDE DEF x, u, v, y, z, w
<1>5. a \in Octet /\ a \div 8 = 30 /\ ~ IsTrail(a)
  BY ONLY <1>4, SMT DEF Octet, IsTrail
<1>6. (a * 262144) % 2097152 = x * 262144
  BY ONLY <1>4, SMT
<1>7. ((a * 262144) % 2097152) + ((b % 64) * 4096) + ((c % 64) * 64) + (d % 64) = cp
  BY ONLY <1>1, <1>2, <1>3, <1>4, <1>6, SMT
<1> QED  BY <1>2, <1>5, <1>7, LeadsOfLength

\* The octets of a codepoint: the first tells how many there are and is never a
\* trail, the others always are, and decoding them gives the codepoint back.
LEMMA Utf8AppendShape ==
  ASSUME NEW cp \in 0 .. CodepointMax, NEW u, u = Utf8Append(cp)
  PROVE  /\ u \in Seq(Octet) /\ Len(u) \in 1 .. 4
         /\ ~ IsTrail(u[1]) /\ SequenceLength(u[1]) = Len(u)
         /\ \A i \in 2 .. Len(u) : IsTrail(u[i])
         /\ CodePoint(u, Len(u)) = cp
<1>1. cp \in Nat /\ cp <= 1114111
  BY CodepointMaxBound, SMT
<1>2. u \in Seq(Octet) /\ Len(u) = OctetsOf(cp)
  BY Utf8AppendType
<1>3. /\ OctetsOf(cp) \in {1, 2, 3, 4}
      /\ OctetsOf(cp) = 1 <=> cp < 128
      /\ OctetsOf(cp) = 2 <=> 128 <= cp /\ cp < 2048
      /\ OctetsOf(cp) = 3 <=> 2048 <= cp /\ cp < 65536
      /\ OctetsOf(cp) = 4 <=> 65536 <= cp
  BY <1>1, OctetsOfRanges
<1>4. CASE OctetsOf(cp) = 1
  <2>1. u = <<cp>>
    BY <1>4, Utf8AppendForms, Zenon
  <2>2. u[1] = cp
    BY <2>1
  <2>3. ~ IsTrail(u[1]) /\ SequenceLength(u[1]) = 1
    BY <1>1, <1>3, <1>4, <2>2, ShapeOne
  <2>4. CodePoint(u, 1) = cp
    BY <1>2, <2>2, CodePointForms
  <2> QED  BY <1>2, <1>4, <2>3, <2>4
<1>5. CASE OctetsOf(cp) = 2
  <2>1. PICK a, b : /\ u = <<a, b>>
                    /\ a = 192 + (cp \div 64) /\ b = Trail(cp)
    BY <1>5, Utf8AppendForms, Zenon
  <2>2. u[1] = a /\ u[2] = b
    BY <2>1
  <2>3. /\ ~ IsTrail(a) /\ SequenceLength(a) = 2 /\ IsTrail(b)
        /\ ((a * 64) % 2048) + (b % 64) = cp
    BY <1>1, <1>3, <1>5, <2>1, ShapeTwo
  <2>4. CodePoint(u, 2) = cp
    BY <1>2, <2>2, <2>3, CodePointForms
  <2>5. \A i \in 2 .. 2 : IsTrail(u[i])
    BY <2>2, <2>3
  <2> QED  BY <1>2, <1>5, <2>2, <2>3, <2>4, <2>5
<1>6. CASE OctetsOf(cp) = 3
  <2>1. PICK a, b, c : /\ u = <<a, b, c>>
                       /\ a = 224 + (cp \div (64 * 64))
                       /\ b = Trail(cp \div 64) /\ c = Trail(cp)
    BY <1>6, Utf8AppendForms, Zenon
  <2>2. u[1] = a /\ u[2] = b /\ u[3] = c
    BY <2>1
  <2>3. /\ ~ IsTrail(a) /\ SequenceLength(a) = 3 /\ IsTrail(b) /\ IsTrail(c)
        /\ ((a * 4096) % 65536) + ((b % 64) * 64) + (c % 64) = cp
    BY <1>1, <1>3, <1>6, <2>1, ShapeThree
  <2>4. CodePoint(u, 3) = cp
    BY <1>2, <2>2, <2>3, CodePointForms
  <2>5. \A i \in 2 .. 3 : IsTrail(u[i])
    BY <2>2, <2>3
  <2> QED  BY <1>2, <1>6, <2>2, <2>3, <2>4, <2>5
<1>7. CASE OctetsOf(cp) = 4
  <2>1. PICK a, b, c, d : /\ u = <<a, b, c, d>>
                          /\ a = 240 + (cp \div (64 * 64 * 64))
                          /\ b = Trail(cp \div (64 * 64))
                          /\ c = Trail(cp \div 64) /\ d = Trail(cp)
    BY <1>7, Utf8AppendForms, Zenon
  <2>2. u[1] = a /\ u[2] = b /\ u[3] = c /\ u[4] = d
    BY <2>1
  <2>3. /\ ~ IsTrail(a) /\ SequenceLength(a) = 4
        /\ IsTrail(b) /\ IsTrail(c) /\ IsTrail(d)
        /\ ((a * 262144) % 2097152) + ((b % 64) * 4096) + ((c % 64) * 64) + (d % 64) = cp
    BY <1>1, <1>3, <1>7, <2>1, ShapeFour
  <2>4. CodePoint(u, 4) = cp
    BY <1>2, <2>2, <2>3, CodePointForms
  <2>5. \A i \in 2 .. 4 : IsTrail(u[i])
    BY <2>2, <2>3
  <2> QED  BY <1>2, <1>7, <2>2, <2>3, <2>4, <2>5
<1> QED  BY <1>3, <1>4, <1>5, <1>6, <1>7

\* Two codepoints that begin with the same octet at the same place are equal.
LEMMA SameOctets ==
  ASSUME NEW c \in 0 .. CodepointMax, NEW d \in 0 .. CodepointMax,
         Utf8Append(c) = Utf8Append(d)
  PROVE  c = d
BY Utf8AppendShape

\* The elements of a part of a sequence.
LEMMA PartElements ==
  ASSUME NEW T, NEW data \in Seq(T), NEW i \in Nat, NEW n \in Nat, i + n <= Len(data),
         NEW u, SubSeq(data, i + 1, i + n) = u
  PROVE  \A k \in 1 .. n : u[k] = data[i + k]
<1>1. \A k \in (i + 1) .. (i + n) : data[k] \in T
  BY ElementOfSeq, LenProperties
<1> QED  BY <1>1, SubSeqProperties

\* The octets of a codepoint where they occur.
LEMMA OccurrenceShape ==
  ASSUME NEW data \in Seq(Octet), NEW c \in 0 .. CodepointMax,
         NEW u, u = Utf8Append(c), NEW i \in Nat, NEW m, m = Len(u),
         i + m <= Len(data), SubSeq(data, i + 1, i + m) = u
  PROVE  /\ m \in Nat /\ 1 <= m
         /\ ~ IsTrail(data[i + 1]) /\ SequenceLength(data[i + 1]) = m
         /\ \A k \in 2 .. m : IsTrail(data[i + k])
<1>1. /\ Len(u) \in 1 .. 4
      /\ ~ IsTrail(u[1]) /\ SequenceLength(u[1]) = Len(u)
      /\ \A k \in 2 .. Len(u) : IsTrail(u[k])
  BY Utf8AppendShape, Zenon
<1>2. m \in Nat /\ 1 <= m
  <2>1. m \in 1 .. 4
    BY <1>1
  <2> QED  BY ONLY <2>1
<1>3. \A k \in 1 .. m : u[k] = data[i + k]
  BY <1>2, PartElements
<1>4. 1 \in 1 .. m /\ \A k \in 2 .. m : k \in 1 .. m
  BY ONLY <1>2
<1> QED  BY <1>1, <1>2, <1>3, <1>4, Zenon

\* Codepoints overlap only when they are at the same place and equal.
LEMMA NoOverlap ==
  ASSUME NEW data \in Seq(Octet), NEW c \in 0 .. CodepointMax,
         NEW d \in 0 .. CodepointMax, NEW i \in Nat, NEW p \in Nat,
         NEW m, m = Len(Utf8Append(c)), NEW n, n = Len(Utf8Append(d)),
         i + m <= Len(data), p + n <= Len(data),
         SubSeq(data, i + 1, i + m) = Utf8Append(c),
         SubSeq(data, p + 1, p + n) = Utf8Append(d),
         p < i + m, i < p + n
  PROVE  i = p /\ c = d
<1>1. /\ m \in Nat /\ 1 <= m
      /\ ~ IsTrail(data[i + 1]) /\ SequenceLength(data[i + 1]) = m
      /\ \A k \in 2 .. m : IsTrail(data[i + k])
  BY OccurrenceShape
<1>2. /\ n \in Nat /\ 1 <= n
      /\ ~ IsTrail(data[p + 1]) /\ SequenceLength(data[p + 1]) = n
      /\ \A k \in 2 .. n : IsTrail(data[p + k])
  BY OccurrenceShape
<1>3. ASSUME p < i PROVE FALSE
  <2>1. (i - p) + 1 \in 2 .. n /\ p + ((i - p) + 1) = i + 1
    BY <1>2, <1>3
  <2> QED  BY <1>1, <1>2, <2>1
<1>4. ASSUME i < p PROVE FALSE
  <2>1. (p - i) + 1 \in 2 .. m /\ i + ((p - i) + 1) = p + 1
    BY <1>1, <1>4
  <2> QED  BY <1>1, <1>2, <2>1
<1>5. i = p
  BY <1>3, <1>4
<1>6. Utf8Append(c) = Utf8Append(d)
  BY <1>1, <1>2, <1>5, Zenon
<1> QED  BY <1>5, <1>6, SameOctets
-----------------------------------------------------------------------------
(* What has been counted.                                                  *)

\* How often the scan has seen c: the two containers as one map.
CountOf(c) ==
  IF c \in DOMAIN ascii_counts THEN ascii_counts[c]
  ELSE IF c \in DOMAIN unicode_counts THEN unicode_counts[c] ELSE 0

Keys == DOMAIN ascii_counts \union DOMAIN unicode_counts

\* Counts are natural numbers.
LEMMA CountOfType ==
  ASSUME TypeOK
  PROVE  /\ DOMAIN ascii_counts = 0 .. (AsciiCount - 1)
         /\ \A c : CountOf(c) \in Nat
         /\ \A c : c \notin Keys => CountOf(c) = 0
         /\ \A c \in DOMAIN unicode_counts : unicode_counts[c] \in Nat \ {0}
<1>1. /\ DOMAIN ascii_counts = 0 .. (AsciiCount - 1)
      /\ \A c \in DOMAIN ascii_counts : ascii_counts[c] \in Nat
      /\ \A c \in DOMAIN unicode_counts : unicode_counts[c] \in Nat \ {0}
  BY DEF TypeOK, IsABag
<1>2. \A c : CountOf(c) \in Nat
  BY <1>1 DEF CountOf
<1>3. \A c : c \notin Keys => CountOf(c) = 0
  BY DEF CountOf, Keys
<1> QED  BY <1>1, <1>2, <1>3

\* There are finitely many keys.
LEMMA KeysFinite ==
  ASSUME TypeOK, UnicodeInv
  PROVE  IsFiniteSet(Keys)
<1>1. IsFiniteSet(0 .. (AsciiCount - 1))
  BY FS_Interval, AsciiAssumption
<1> QED  BY <1>1, CountOfType, FS_Union DEF UnicodeInv, Keys

\* A step of the scan counts its codepoint once more and no other.
LEMMA CountStep ==
  ASSUME IInv, UnicodeInv, CountCodepoint
  PROVE  \E cp \in 0 .. CodepointMax :
           /\ cp = CodepointAt(curr)
           /\ Keys' = Keys \union {cp}
           /\ DOMAIN unicode_counts' \subseteq DOMAIN unicode_counts \union {cp}
           /\ \A c : CountOf(c)' = CountOf(c) + (IF c = cp THEN 1 ELSE 0)
<1>1. PICK cp \in 0 .. CodepointMax : cp = CodepointAt(curr)
  BY DEF CountCodepoint, Decodes, StartsWithCodepoint, CodepointAt, IsCodePointValid
<1>2. TypeOK
  BY DEF IInv
<1>3. /\ DOMAIN ascii_counts = 0 .. (AsciiCount - 1)
      /\ \A c \in DOMAIN ascii_counts : ascii_counts[c] \in Nat
      /\ \A c \in DOMAIN unicode_counts : unicode_counts[c] \in Nat /\ c >= AsciiCount
  BY <1>2 DEF TypeOK, IsABag, UnicodeInv
<1>4. \A c \in DOMAIN ascii_counts : c \in Int /\ 0 <= c /\ c < AsciiCount
  BY <1>3, AsciiAssumption
<1>5. cp \in Nat
  BY <1>1
<1>6. CASE cp < AsciiCount
  <2>1. cp \in DOMAIN ascii_counts
    BY <1>3, <1>5, <1>6, AsciiAssumption
  <2>2. ascii_counts' = Counted(ascii_counts, cp) /\ unicode_counts' = unicode_counts
    BY <1>1, <1>6 DEF CountCodepoint
  <2>3. DOMAIN ascii_counts' = DOMAIN ascii_counts
    BY <2>1, <2>2 DEF Counted
  <2>4. Keys' = Keys \union {cp}
    BY <2>1, <2>2, <2>3 DEF Keys
  <2>5. \A c \in DOMAIN ascii_counts :
          ascii_counts'[c] = ascii_counts[c] + (IF c = cp THEN 1 ELSE 0)
    BY <1>3, <2>1, <2>2 DEF Counted
  <2>6. ASSUME NEW c
        PROVE  CountOf(c)' = CountOf(c) + (IF c = cp THEN 1 ELSE 0)
    <3>1. CASE c \in DOMAIN ascii_counts
      BY <2>3, <2>5, <3>1 DEF CountOf
    <3>2. CASE c \notin DOMAIN ascii_counts
      <4>1. CountOf(c)' = CountOf(c)
        BY <2>2, <2>3, <3>2 DEF CountOf
      <4>2. CountOf(c) \in Nat /\ c # cp
        BY <1>2, <2>1, <3>2, CountOfType
      <4> QED  BY <4>1, <4>2
    <3> QED  BY <3>1, <3>2
  <2> QED  BY <1>1, <2>2, <2>4, <2>6
<1>7. CASE ~ (cp < AsciiCount)
  <2>1. cp \notin DOMAIN ascii_counts
    BY <1>4, <1>7
  <2>2. unicode_counts' = Counted(unicode_counts, cp) /\ ascii_counts' = ascii_counts
    BY <1>1, <1>7 DEF CountCodepoint
  <2>3. DOMAIN unicode_counts' = DOMAIN unicode_counts \union {cp}
    BY <2>2 DEF Counted
  <2>4. Keys' = Keys \union {cp}
    BY <2>2, <2>3 DEF Keys
  <2>5. \A c \in DOMAIN unicode_counts \union {cp} :
          unicode_counts'[c] = IF c \notin DOMAIN unicode_counts THEN 1
                               ELSE IF c = cp THEN unicode_counts[c] + 1
                               ELSE unicode_counts[c]
    BY <2>2 DEF Counted
  <2>6. ASSUME NEW c
        PROVE  CountOf(c)' = CountOf(c) + (IF c = cp THEN 1 ELSE 0)
    <3>1. CASE c = cp
      <4>1. CountOf(c)' = unicode_counts'[c]
        BY <2>1, <2>2, <2>3, <3>1 DEF CountOf
      <4>2. CountOf(c) = IF c \in DOMAIN unicode_counts THEN unicode_counts[c] ELSE 0
        BY <2>1, <3>1 DEF CountOf
      <4>3. c \in DOMAIN unicode_counts => unicode_counts[c] \in Nat
        BY <1>3
      <4>4. unicode_counts'[c] = IF c \in DOMAIN unicode_counts
                                   THEN unicode_counts[c] + 1 ELSE 1
        BY <2>5, <3>1
      <4> QED  BY <3>1, <4>1, <4>2, <4>3, <4>4
    <3>2. CASE c # cp
      <4>1. CountOf(c)' = CountOf(c)
        BY <2>2, <2>3, <2>5, <3>2 DEF CountOf
      <4>2. CountOf(c) \in Nat
        BY <1>2, CountOfType
      <4> QED  BY <3>2, <4>1, <4>2
    <3> QED  BY <3>1, <3>2
  <2> QED  BY <1>1, <2>3, <2>4, <2>6
<1> QED  BY <1>6, <1>7

\* Every other step leaves the containers and the scan alone.
LEMMA NothingCounted ==
  ASSUME [Next]_vars, ~ CountCodepoint
  PROVE  UNCHANGED <<curr, ascii_counts, unicode_counts>>
BY DEF Next, Call, BuildFrequencyTable, ScanFails, ScanFaults, ReturnTable, vars,
       tableVars

\* The entries are the keys with their counts, those that have been seen.
LEMMA EntriesCounts ==
  ASSUME TypeOK, UnicodeInv
  PROVE  /\ \A e \in Entries : /\ e.codepoint \in Keys
                               /\ e.count = CountOf(e.codepoint)
                               /\ e.count \in Nat \ {0}
         /\ \A c \in Keys : CountOf(c) > 0 => \E e \in Entries : e.codepoint = c
<1>1. /\ DOMAIN ascii_counts = 0 .. (AsciiCount - 1)
      /\ \A c \in DOMAIN ascii_counts : ascii_counts[c] \in Nat
      /\ \A c \in DOMAIN unicode_counts : unicode_counts[c] \in Nat \ {0}
  BY DEF TypeOK, IsABag
<1>2. \A c \in DOMAIN unicode_counts : c \notin DOMAIN ascii_counts
  BY <1>1, AsciiAssumption DEF UnicodeInv
<1>3. \A c \in DOMAIN ascii_counts : CountOf(c) = ascii_counts[c]
  BY DEF CountOf
<1>4. \A c \in DOMAIN unicode_counts : CountOf(c) = unicode_counts[c]
  BY <1>2 DEF CountOf
<1> DEFINE A == {[codepoint |-> c, count |-> ascii_counts[c]] :
                   c \in {d \in DOMAIN ascii_counts : ascii_counts[d] > 0}}
           B == {[codepoint |-> c, count |-> unicode_counts[c]] :
                   c \in DOMAIN unicode_counts}
<1>5. Entries = A \union B
  BY DEF Entries
<1>6. \A e \in A : /\ e.codepoint \in DOMAIN ascii_counts
                   /\ e.count = ascii_counts[e.codepoint]
                   /\ e.count \in Nat \ {0}
  BY <1>1
<1>7. \A e \in B : /\ e.codepoint \in DOMAIN unicode_counts
                   /\ e.count = unicode_counts[e.codepoint]
                   /\ e.count \in Nat \ {0}
  BY <1>1
<1>8. ASSUME NEW c \in Keys, CountOf(c) > 0
      PROVE  \E e \in Entries : e.codepoint = c
  <2>1. CASE c \in DOMAIN ascii_counts
    <3> DEFINE e == [codepoint |-> c, count |-> ascii_counts[c]]
    <3>1. e \in A /\ e.codepoint = c
      BY <1>3, <1>8, <2>1
    <3> HIDE DEF e, A, B
    <3> QED  BY <1>5, <3>1
  <2>2. CASE c \in DOMAIN unicode_counts
    <3> DEFINE e == [codepoint |-> c, count |-> unicode_counts[c]]
    <3>1. e \in B /\ e.codepoint = c
      BY <2>2
    <3> HIDE DEF e, A, B
    <3> QED  BY <1>5, <3>1
  <2> QED  BY <2>1, <2>2 DEF Keys
<1> HIDE DEF A, B
<1>9. ASSUME NEW e \in Entries
      PROVE  /\ e.codepoint \in Keys
             /\ e.count = CountOf(e.codepoint)
             /\ e.count \in Nat \ {0}
  BY <1>3, <1>4, <1>5, <1>6, <1>7 DEF Keys
<1> QED  BY <1>8, <1>9

\* An arrangement of the entries names each codepoint that was seen once.
LEMMA ReturnedCounts ==
  ASSUME TypeOK, UnicodeInv, NEW t \in SetToSeqs(Entries)
  PROVE  /\ IsFiniteSet(DOMAIN t)
         /\ \A i \in DOMAIN t : /\ t[i].codepoint \in Keys
                                /\ t[i].count = CountOf(t[i].codepoint)
         /\ \A i, j \in DOMAIN t : t[i].codepoint = t[j].codepoint => i = j
         /\ {t[i].codepoint : i \in DOMAIN t} = {c \in Keys : CountOf(c) > 0}
<1> DEFINE n == Cardinality(Entries)
           D == 1 .. n
<1>1. IsFiniteSet(Entries) /\ n \in Nat
  BY EntriesFinite, FS_CardinalityType
<1>2. /\ t \in [D -> Entries]
      /\ \A i, j \in D : i # j => t[i] # t[j]
  BY DEF SetToSeqs
<1>3. IsFiniteSet(D) /\ Cardinality(D) = n
  BY <1>1, FS_Interval
<1> HIDE DEF n, D
<1>4. DOMAIN t = D
  BY <1>2
<1>5. t \in Injection(D, Entries)
  BY <1>2 DEF Injection, IsInjective
<1>6. t \in Surjection(D, Entries)
  BY <1>1, <1>3, <1>5, FS_Injection DEF n
<1>7. \A e \in Entries : \E i \in D : t[i] = e
  BY <1>6 DEF Surjection
<1>8. \A i \in D : t[i] \in Entries
  BY <1>2
<1>9. \A i, j \in D : t[i].codepoint = t[j].codepoint => i = j
  BY <1>2, <1>8, EntriesType
<1>10. \A i \in D : /\ t[i].codepoint \in Keys
                    /\ t[i].count = CountOf(t[i].codepoint)
                    /\ t[i].count \in Nat \ {0}
  BY <1>8, EntriesCounts
<1>11. \A c \in Keys : CountOf(c) > 0 => \E i \in D : t[i].codepoint = c
  BY <1>7, EntriesCounts
<1>12. {t[i].codepoint : i \in D} = {c \in Keys : CountOf(c) > 0}
  BY <1>10, <1>11
<1> QED  BY <1>3, <1>4, <1>9, <1>10, <1>12

-----------------------------------------------------------------------------
(* Every octet of the input is accounted for.                              *)

\* The octets that the occurrences of each key make up.
Weights == [c \in Keys |-> CountOf(c) * Len(Utf8Append(c))]

\* What the scan has passed is what it has counted.
CompleteInv ==
  /\ DOMAIN unicode_counts \subseteq 0 .. CodepointMax
  /\ curr = Total(Weights, Keys)
  /\ CountsComplete

\* The octets of a table are those of its codepoints.
TableWeights(t) == [i \in DOMAIN t |-> t[i].count * Len(Utf8Append(t[i].codepoint))]

\* The sum that CountsComplete speaks of.
OctetsInTable(t) ==
  MapThenSumSet(LAMBDA i : t[i].count * Len(Utf8Append(t[i].codepoint)), DOMAIN t)

\* CountsComplete now, and after a step.
LEMMA CompleteNow ==
  CountsComplete <=> (pc = "returned" => input.size = OctetsInTable(result))
BY DEF CountsComplete, OctetsInTable

LEMMA CompleteNext ==
  CountsComplete' <=> (pc' = "returned" => input'.size = OctetsInTable(result'))
<1>1. (CountsComplete <=> (pc = "returned" => input.size = OctetsInTable(result)))'
  BY CompleteNow, PTL
<1> QED  BY <1>1

\* It is the sum of the function.
LEMMA TableOctets ==
  ASSUME NEW t, IsFiniteSet(DOMAIN t), \A i \in DOMAIN t : TableWeights(t)[i] \in Nat
  PROVE  OctetsInTable(t) = Total(TableWeights(t), DOMAIN t)
<1> DEFINE f == TableWeights(t)
           S == DOMAIN t
           Recurs(k) ==
             k = [s \in SUBSET S |->
                    IF s = {} THEN 0
                    ELSE t[CHOOSE x \in s : TRUE].count
                           * Len(Utf8Append(t[CHOOSE x \in s : TRUE].codepoint))
                         + k[s \ {CHOOSE x \in s : TRUE}]]
           iter == CHOOSE k : Recurs(k)
<1>1. OctetsInTable(t) = iter[S]
  BY Zenon DEF OctetsInTable, MapThenSumSet, MapThenFoldSet
<1>2. \A s \in SUBSET S : s # {} =>
        f[CHOOSE x \in s : TRUE] = t[CHOOSE x \in s : TRUE].count
                           * Len(Utf8Append(t[CHOOSE x \in s : TRUE].codepoint))
  <2> SUFFICES ASSUME NEW s \in SUBSET S, s # {}, NEW x, x = CHOOSE y \in s : TRUE
               PROVE  f[x] = t[x].count * Len(Utf8Append(t[x].codepoint))
    BY Zenon
  <2>1. x \in S
    OBVIOUS
  <2> QED  BY <2>1, Zenon DEF TableWeights
<1>3. ASSUME NEW k
      PROVE  Recurs(k) <=> SumsUp(k, f, S)
  <2> DEFINE a(s) == t[CHOOSE x \in s : TRUE].count
                           * Len(Utf8Append(t[CHOOSE x \in s : TRUE].codepoint))
             b(s) == f[CHOOSE x \in s : TRUE]
             r(s) == k[s \ {CHOOSE x \in s : TRUE}]
  <2>1. \A s \in SUBSET S : s # {} => a(s) = b(s)
    BY <1>2
  <2> HIDE DEF f
  <2>2. Recurs(k) <=> k = [s \in SUBSET S |-> IF s = {} THEN 0 ELSE a(s) + r(s)]
    BY Zenon
  <2>3. SumsUp(k, f, S) <=> k = [s \in SUBSET S |-> IF s = {} THEN 0 ELSE b(s) + r(s)]
    BY Zenon DEF SumsUp
  <2> HIDE DEF a, b, r, Recurs
  <2>4. [s \in SUBSET S |-> IF s = {} THEN 0 ELSE a(s) + r(s)]
          = [s \in SUBSET S |-> IF s = {} THEN 0 ELSE b(s) + r(s)]
    BY <2>1
  <2> QED  BY <2>2, <2>3, <2>4
<1> HIDE DEF Recurs
<1>4. /\ \E k : SumsUp(k, f, S)
      /\ \A k : SumsUp(k, f, S) => k[S] = Total(f, S)
  BY SumChosen
<1>5. Recurs(iter)
  BY <1>3, <1>4
<1> HIDE DEF iter
<1>6. iter[S] = Total(f, S)
  BY <1>3, <1>4, <1>5
<1> QED  BY <1>1, <1>6

\* The octets of a key are a natural number.
LEMMA WeightsType ==
  ASSUME TypeOK, DOMAIN unicode_counts \subseteq 0 .. CodepointMax
  PROVE  \A c \in Keys : /\ c \in 0 .. CodepointMax
                         /\ Len(Utf8Append(c)) \in Nat \ {0}
                         /\ Weights[c] = CountOf(c) * Len(Utf8Append(c))
                         /\ Weights[c] \in Nat
<1> SUFFICES ASSUME NEW c \in Keys
             PROVE  /\ c \in 0 .. CodepointMax
                    /\ Len(Utf8Append(c)) \in Nat \ {0}
                    /\ Weights[c] = CountOf(c) * Len(Utf8Append(c))
                    /\ Weights[c] \in Nat
  OBVIOUS
<1>1. c \in 0 .. CodepointMax
  <2>1. CASE c \in DOMAIN ascii_counts
    <3>1. c \in Int /\ 0 <= c /\ c <= 127
      BY <2>1, CountOfType, AsciiAssumption, SMT
    <3> QED  BY <3>1, CodepointMaxBound
  <2>2. CASE c \in DOMAIN unicode_counts
    BY <2>2
  <2> QED  BY <2>1, <2>2 DEF Keys
<1>2. Len(Utf8Append(c)) = OctetsOf(c)
  BY <1>1, Utf8AppendType
<1>3. OctetsOf(c) \in Nat \ {0}
  <2>1. c \in Nat
    BY <1>1, CodepointMaxBound
  <2>2. OctetsOf(c) \in {1, 2, 3, 4}
    BY <2>1, OctetsOfRanges
  <2> QED  BY <2>2
<1>4. Weights[c] = CountOf(c) * Len(Utf8Append(c))
  BY Zenon DEF Weights
<1>5. CountOf(c) \in Nat
  BY CountOfType
<1>6. PICK n, l : n = CountOf(c) /\ l = Len(Utf8Append(c))
  OBVIOUS
<1>7. n * l \in Nat
  BY <1>2, <1>3, <1>5, <1>6
<1> QED  BY <1>1, <1>2, <1>3, <1>4, <1>6, <1>7, Zenon

\* Nothing has been counted initially.
LEMMA CompleteInvInit == Init => CompleteInv
<1> SUFFICES ASSUME Init PROVE CompleteInv
  OBVIOUS
<1>1. DOMAIN unicode_counts = {}
  BY DEF Init, EmptyBag, SetToBag
<1>2. TypeOK /\ UnicodeInv
  BY IInvInit, TableInvInit DEF IInv, TableInv
<1>3. CountsComplete
  BY DEF Init, InputInit, CountsComplete
<1>4. \A c \in Keys : CountOf(c) = 0
  BY <1>1 DEF Init, Keys, CountOf
<1>5. \A c \in Keys : /\ Len(Utf8Append(c)) \in Nat
                      /\ Weights[c] = CountOf(c) * Len(Utf8Append(c))
                      /\ Weights[c] \in Nat
  BY <1>1, <1>2, WeightsType
<1>6. \A c \in Keys : Weights[c] = 0
  <2> SUFFICES ASSUME NEW c \in Keys, NEW l, l = Len(Utf8Append(c))
               PROVE  Weights[c] = 0
    OBVIOUS
  <2>1. Weights[c] = 0 * l /\ l \in Nat
    BY <1>4, <1>5
  <2> QED  BY <2>1
<1>7. Total(Weights, Keys) = Total(Weights, Keys \cap {})
  BY <1>2, <1>5, <1>6, KeysFinite, TotalOfNonzero
<1>8. Total(Weights, {}) = 0
  BY FS_EmptySet, TotalProperties
<1>9. curr = Total(Weights, Keys)
  <2>1. Keys \cap {} = {}
    OBVIOUS
  <2> QED  BY <1>7, <1>8, <2>1 DEF Init
<1> QED  BY <1>1, <1>3, <1>9 DEF CompleteInv

\* A step of the scan passes as many octets as it counts.
LEMMA CompleteInvCount ==
  ASSUME IInv, UnicodeInv, CompleteInv, CountCodepoint
  PROVE  CompleteInv'
<1>1. PICK cp \in 0 .. CodepointMax :
        /\ cp = CodepointAt(curr)
        /\ Keys' = Keys \union {cp}
        /\ DOMAIN unicode_counts' \subseteq DOMAIN unicode_counts \union {cp}
        /\ \A c : CountOf(c)' = CountOf(c) + (IF c = cp THEN 1 ELSE 0)
  BY CountStep
<1>2. /\ input.kind # "none" /\ curr \in Nat /\ curr < input.size
      /\ Decodes(curr) /\ curr' = After(curr) /\ pc' # "returned"
  BY DEF IInv, ObjectInv, TypeOK, InputTypeOK, CountCodepoint, Scanning, inputVars
<1>3. PICK l : l = Len(Utf8Append(cp))
  OBVIOUS
<1>4. l \in Nat /\ curr' = curr + l
  <2>1. /\ After(curr) \in (curr + 1) .. input.size
        /\ Utf8Append(cp) = SubSeq(Data, curr + 1, After(curr))
    BY <1>1, <1>2, OctetsPassed
  <2>2. Data \in Seq(Octet) /\ Len(Data) = input.size
    BY <1>2, DataType
  <2>3. input.size \in Nat
    BY DEF IInv, TypeOK, InputTypeOK
  <2>4. PICK q : q = After(curr)
    OBVIOUS
  <2>5. q \in Nat /\ curr < q /\ q <= input.size
    BY <1>2, <2>1, <2>3, <2>4
  <2>6. Len(SubSeq(Data, curr + 1, q)) = q - curr
    <3>1. \A i \in (curr + 1) .. q : Data[i] \in Octet
      BY <1>2, <2>2, <2>3, <2>5, ElementOfSeq
    <3> QED  BY <1>2, <2>5, <3>1, SubSeqProperties
  <2>7. l = q - curr
    BY <1>3, <2>1, <2>4, <2>6, Zenon
  <2> QED  BY <1>2, <2>4, <2>5, <2>7
<1>5. TypeOK /\ TypeOK'
  BY IInvStep DEF IInv, Next, Call
<1>6. DOMAIN unicode_counts' \subseteq 0 .. CodepointMax
  BY <1>1 DEF CompleteInv
<1>7. \A c \in Keys : /\ Len(Utf8Append(c)) \in Nat
                      /\ Weights[c] = CountOf(c) * Len(Utf8Append(c))
                      /\ Weights[c] \in Nat
  BY <1>5, WeightsType DEF CompleteInv
<1>8. \A c \in Keys' : Weights'[c] = CountOf(c)' * Len(Utf8Append(c))
  BY Zenon DEF Weights
<1>9. \A c \in Keys \ {cp} : Weights'[c] = Weights[c]
  <2> SUFFICES ASSUME NEW c \in Keys \ {cp} PROVE Weights'[c] = Weights[c]
    OBVIOUS
  <2>1. CountOf(c)' = CountOf(c)
    <3>1. CountOf(c)' = CountOf(c) + 0
      BY <1>1
    <3>2. CountOf(c) \in Nat
      BY <1>5, CountOfType
    <3> QED  BY <3>1, <3>2
  <2> QED  BY <1>1, <1>7, <1>8, <2>1, Zenon
<1>10. Weights'[cp] = (IF cp \in Keys THEN Weights[cp] ELSE 0) + l
  <2>1. Weights'[cp] = CountOf(cp)' * l
    BY <1>1, <1>3, <1>8, Zenon
  <2>2. PICK n : n = CountOf(cp)
    OBVIOUS
  <2>3. n \in Nat /\ CountOf(cp)' = n + 1
    BY <1>1, <1>5, <2>2, CountOfType
  <2>4. Weights'[cp] = (n * l) + l
    BY <1>4, <2>1, <2>3
  <2>5. CASE cp \in Keys
    <3>1. Weights[cp] = n * l
      BY <1>3, <1>7, <2>2, <2>5, Zenon
    <3> QED  BY <2>4, <2>5, <3>1
  <2>6. CASE cp \notin Keys
    <3>1. n = 0
      BY <1>5, <2>2, <2>6, CountOfType
    <3> QED  BY <1>4, <2>4, <2>6, <3>1
  <2> QED  BY <2>5, <2>6
<1>11. IsFiniteSet(Keys)
  BY <1>5, KeysFinite
<1>12. Total(Weights', Keys \union {cp}) = Total(Weights, Keys) + l
  <2> DEFINE f == Weights
             g == Weights'
  <2>1. \A c \in Keys : f[c] \in Nat
    BY <1>7
  <2>2. \A c \in Keys \ {cp} : g[c] = f[c]
    BY <1>9
  <2>3. g[cp] = (IF cp \in Keys THEN f[cp] ELSE 0) + l
    BY <1>10
  <2> HIDE DEF f, g
  <2>4. Total(g, Keys \union {cp}) = Total(f, Keys) + l
    BY <1>4, <1>11, <2>1, <2>2, <2>3, TotalGrows
  <2> QED  BY <2>4 DEF f, g
<1>13. curr' = Total(Weights, Keys)'
  <2>1. curr = Total(Weights, Keys)
    BY DEF CompleteInv
  <2>2. curr' = Total(Weights', Keys')
    BY <1>1, <1>4, <1>12, <2>1, Zenon
  <2> QED  BY <2>2
<1>14. CountsComplete'
  BY <1>2 DEF CountsComplete
<1> QED  BY <1>6, <1>13, <1>14 DEF CompleteInv

\* The table that is returned has the octets that have been counted.
LEMMA ReturnedOctets ==
  ASSUME TypeOK, UnicodeInv, DOMAIN unicode_counts \subseteq 0 .. CodepointMax,
         NEW t \in SetToSeqs(Entries)
  PROVE  /\ IsFiniteSet(DOMAIN t)
         /\ \A i \in DOMAIN t : TableWeights(t)[i] \in Nat
         /\ Total(TableWeights(t), DOMAIN t) = Total(Weights, Keys)
<1> DEFINE D == DOMAIN t
           f == TableWeights(t)
           b == [i \in D |-> t[i].codepoint]
           P == {c \in Keys : CountOf(c) > 0}
<1>1. /\ IsFiniteSet(D)
      /\ \A i \in D : t[i].codepoint \in Keys /\ t[i].count = CountOf(t[i].codepoint)
      /\ \A i, j \in D : t[i].codepoint = t[j].codepoint => i = j
      /\ {t[i].codepoint : i \in D} = P
  BY ReturnedCounts
<1>2. \A c \in Keys : /\ Len(Utf8Append(c)) \in Nat
                      /\ Weights[c] = CountOf(c) * Len(Utf8Append(c))
                      /\ Weights[c] \in Nat
  BY WeightsType
<1>3. \A i \in D : f[i] = t[i].count * Len(Utf8Append(t[i].codepoint))
  BY Zenon DEF TableWeights
<1>4. \A i \in D : f[i] = Weights[t[i].codepoint]
  BY <1>1, <1>2, <1>3, Zenon
<1>5. \A i \in D : b[i] = t[i].codepoint
  BY Zenon
<1>6. \A c \in Keys : c \notin P => Weights[c] = 0
  <2> SUFFICES ASSUME NEW c \in Keys, c \notin P, NEW l, l = Len(Utf8Append(c))
               PROVE  Weights[c] = 0
    OBVIOUS
  <2>1. CountOf(c) \in Nat /\ ~ (CountOf(c) > 0)
    BY CountOfType
  <2>2. CountOf(c) = 0
    BY <2>1
  <2>3. Weights[c] = 0 * l /\ l \in Nat
    BY <1>2, <2>2
  <2> QED  BY <2>3
<1>7. {b[i] : i \in D} = P
  BY <1>1, <1>5
<1>8. /\ \A i \in D : Weights[b[i]] \in Nat /\ f[i] = Weights[b[i]]
      /\ \A i, j \in D : b[i] = b[j] => i = j
  BY <1>1, <1>2, <1>4, <1>5, Zenon
<1>9. Keys \cap P = P
  OBVIOUS
<1> HIDE DEF D, f, b, P
<1>10. Total(f, D) = Total(Weights, {b[i] : i \in D})
  BY <1>1, <1>8, TotalRenamed
<1>11. Total(Weights, Keys) = Total(Weights, Keys \cap P)
  BY <1>2, <1>6, KeysFinite, TotalOfNonzero
<1>12. Total(f, D) = Total(Weights, Keys)
  BY <1>7, <1>9, <1>10, <1>11, Zenon
<1>13. \A i \in D : f[i] \in Nat
  BY <1>8, Zenon
<1> QED  BY <1>1, <1>12, <1>13 DEF D, f

\* ReturnTable preserves the invariant.
LEMMA CompleteInvReturn ==
  ASSUME IInv, UnicodeInv, CompleteInv, ReturnTable
  PROVE  CompleteInv'
<1>1. PICK t \in SetToSeqs(Entries) : result' = t
  BY DEF ReturnTable
<1>2. /\ UNCHANGED <<input, curr, ascii_counts, unicode_counts>>
      /\ curr = input.size
  BY DEF IInv, TypeOK, InputTypeOK, ReturnTable
<1>3. DOMAIN unicode_counts \subseteq 0 .. CodepointMax /\ curr = Total(Weights, Keys)
  BY DEF CompleteInv
<1>4. (DOMAIN unicode_counts \subseteq 0 .. CodepointMax)' /\ (curr = Total(Weights, Keys))'
  BY <1>2, <1>3 DEF Weights, Keys, CountOf
<1>5. /\ IsFiniteSet(DOMAIN t)
      /\ \A i \in DOMAIN t : TableWeights(t)[i] \in Nat
      /\ Total(TableWeights(t), DOMAIN t) = input.size
  BY <1>2, <1>3, ReturnedOctets DEF IInv
<1>6. input.size = OctetsInTable(t)
  BY <1>5, TableOctets
<1>7. CountsComplete'
  BY <1>1, <1>2, <1>6, CompleteNext
<1> QED  BY <1>4, <1>7 DEF CompleteInv

\* Every step preserves the invariant.
LEMMA CompleteInvStep ==
  IInv /\ TableInv /\ CompleteInv /\ [Next]_vars => CompleteInv'
<1> SUFFICES ASSUME IInv, TableInv, CompleteInv, [Next]_vars
             PROVE  CompleteInv'
  OBVIOUS
<1>1. UnicodeInv
  BY DEF TableInv
<1>2. CASE CountCodepoint
  BY <1>1, <1>2, CompleteInvCount
<1>3. CASE ReturnTable
  BY <1>1, <1>3, CompleteInvReturn
<1>4. CASE ~ CountCodepoint /\ ~ ReturnTable
  <2>1. UNCHANGED <<curr, ascii_counts, unicode_counts>>
    BY <1>4, NothingCounted
  <2>2. /\ UNCHANGED result
        /\ pc' = "returned" => pc = "returned" /\ input'.size = input.size
    BY <1>4
    DEF Next, Call, Load, CheckFile, GetFileLoadType, OpenStream, TellSize,
        ReadStream, MapFile, BuildFrequencyTable, ScanFails, ScanFaults,
        NextCodepoint, Reset, Rewrite, RemoveFile, Throw, Continue, vars, tableVars
  <2>3. CountsComplete'
    BY <2>2, CompleteNow, CompleteNext DEF CompleteInv
  <2>4. (DOMAIN unicode_counts \subseteq 0 .. CodepointMax)' /\ (curr = Total(Weights, Keys))'
    BY <2>1 DEF CompleteInv, Weights, Keys, CountOf
  <2> QED  BY <2>3, <2>4 DEF CompleteInv
<1> QED  BY <1>2, <1>3, <1>4

\* For all files, limits and changes, also of a mapped file under the scan, the
\* codepoints that are counted take up as many octets as the input has: the scan
\* skips nothing and counts nothing twice.
THEOREM CountsCompleteCorrect == Spec => []CountsComplete
<1>1. CompleteInv => CountsComplete
  BY DEF CompleteInv
<1>2. Spec => []CompleteInv
  BY IInvAlways, TableInvInit, TableInvStep, CompleteInvInit, CompleteInvStep, PTL DEF Spec
<1> QED  BY <1>1, <1>2, PTL

-----------------------------------------------------------------------------
(* The counts are exact.                                                   *)

\* Where the octets of c occur in the first p octets of the input.
OccurrencesBefore(c, p) ==
  {i \in 0 .. (p - Len(Utf8Append(c))) :
     SubSeq(Data, i + 1, i + Len(Utf8Append(c))) = Utf8Append(c)}

\* They are finitely many, all of them before p, and none before the beginning.
LEMMA OccurrencesFinite ==
  ASSUME NEW c \in 0 .. CodepointMax, NEW p \in Nat
  PROVE  /\ IsFiniteSet(OccurrencesBefore(c, p))
         /\ p \notin OccurrencesBefore(c, p)
         /\ p = 0 => OccurrencesBefore(c, p) = {}
<1>1. PICK m : m = Len(Utf8Append(c))
  OBVIOUS
<1>2. m \in Nat /\ 1 <= m
  <2>1. m \in 1 .. 4
    BY <1>1, Utf8AppendShape, Zenon
  <2> QED  BY ONLY <2>1
<1>3. /\ p - m \in Int
      /\ p \notin 0 .. (p - m)
      /\ p = 0 => 0 .. (p - m) = {}
  BY ONLY <1>2, p \in Nat
<1>4. OccurrencesBefore(c, p) \subseteq 0 .. (p - m)
  BY <1>1, Zenon DEF OccurrencesBefore
<1>5. IsFiniteSet(0 .. (p - m))
  BY <1>3, FS_Interval
<1> QED  BY <1>3, <1>4, <1>5, FS_Subset

\* A step over one codepoint meets one occurrence more of it and of no other.
LEMMA OccurrencesGrow ==
  ASSUME IInv, input.kind # "none", NEW p \in Nat, p < input.size, Decodes(p),
         NEW cp, cp = CodepointAt(p), NEW c \in 0 .. CodepointMax
  PROVE  OccurrencesBefore(c, After(p))
           = OccurrencesBefore(c, p) \union (IF c = cp THEN {p} ELSE {})
<1>1. /\ cp \in 0 .. CodepointMax
      /\ After(p) \in (p + 1) .. input.size
      /\ Utf8Append(cp) = SubSeq(Data, p + 1, After(p))
  BY OctetsPassed
<1>2. Data \in Seq(Octet) /\ Len(Data) = input.size
  BY DataType
<1>3. input.size \in Nat
  BY DEF IInv, TypeOK, InputTypeOK
<1>4. PICK q, u, m, n, data : /\ q = After(p)
                              /\ u = Utf8Append(c) /\ m = Len(u)
                              /\ n = Len(Utf8Append(cp)) /\ data = Data
  OBVIOUS
<1>5. q \in Nat /\ p < q /\ q <= Len(data) /\ Len(data) \in Nat
  BY <1>1, <1>2, <1>3, <1>4
<1>6. n = q - p
  <2>1. \A k \in (p + 1) .. q : data[k] \in Octet
    BY <1>2, <1>4, <1>5, ElementOfSeq
  <2>2. Len(SubSeq(data, p + 1, q)) = q - p
    BY <1>2, <1>4, <1>5, <2>1, SubSeqProperties
  <2> QED  BY <1>1, <1>4, <2>2, Zenon
<1>7. p + n = q /\ n \in Nat
  BY <1>5, <1>6
<1>8. m \in Nat /\ 1 <= m
  <2>1. m \in 1 .. 4
    BY <1>4, Utf8AppendShape, Zenon
  <2> QED  BY ONLY <2>1
<1>9. OccurrencesBefore(c, q) = {i \in 0 .. (q - m) : SubSeq(data, i + 1, i + m) = u}
  BY <1>4, Zenon DEF OccurrencesBefore
<1>10. OccurrencesBefore(c, p) = {i \in 0 .. (p - m) : SubSeq(data, i + 1, i + m) = u}
  BY <1>4, Zenon DEF OccurrencesBefore
<1>11. SubSeq(data, p + 1, p + n) = Utf8Append(cp)
  BY <1>1, <1>4, <1>7, Zenon
<1>12. ASSUME NEW i \in OccurrencesBefore(c, q), i \notin OccurrencesBefore(c, p)
       PROVE  i = p /\ c = cp
  <2>1. i \in 0 .. (q - m) /\ SubSeq(data, i + 1, i + m) = u
    BY <1>9, <1>12, Zenon
  <2>2. i \notin 0 .. (p - m)
    BY <1>10, <1>12, <2>1, Zenon
  <2>3. i \in Nat /\ i + m <= Len(data) /\ p < i + m /\ i < p + n
    BY ONLY <1>5, <1>7, <1>8, <2>1, <2>2, p \in Nat
  <2>4. data \in Seq(Octet) /\ p + n <= Len(data)
    BY <1>2, <1>4, <1>5, <1>7
  <2>5. SubSeq(data, i + 1, i + m) = Utf8Append(c) /\ m = Len(Utf8Append(c))
    BY <1>4, <2>1, Zenon
  <2> QED
    BY <1>1, <1>4, <1>11, <2>3, <2>4, <2>5, NoOverlap
<1>13. OccurrencesBefore(c, p) \subseteq OccurrencesBefore(c, q)
  <2>1. 0 .. (p - m) \subseteq 0 .. (q - m)
    BY ONLY <1>5, <1>8, p \in Nat
  <2> QED  BY <1>9, <1>10, <2>1, Zenon
<1>14. c = cp => p \in OccurrencesBefore(c, q)
  <2> SUFFICES ASSUME c = cp PROVE p \in OccurrencesBefore(c, q)
    OBVIOUS
  <2>1. m = n
    BY <1>4, Zenon
  <2>2. p \in 0 .. (q - m)
    BY ONLY <1>7, <2>1, p \in Nat
  <2>3. SubSeq(data, p + 1, p + m) = u
    BY <1>4, <1>11, <2>1, Zenon
  <2> QED  BY <1>9, <2>2, <2>3, Zenon
<1>15. OccurrencesBefore(c, q)
         = OccurrencesBefore(c, p) \union (IF c = cp THEN {p} ELSE {})
  <2> DEFINE A == OccurrencesBefore(c, q)
             B == OccurrencesBefore(c, p)
  <2>1. \A i \in A : i \in B \/ (i = p /\ c = cp)
    BY <1>12
  <2>2. B \subseteq A /\ (c = cp => p \in A)
    BY <1>13, <1>14
  <2> HIDE DEF A, B
  <2>3. A = B \union (IF c = cp THEN {p} ELSE {})
    BY <2>1, <2>2
  <2> QED  BY <2>3 DEF A, B
<1> QED  BY <1>4, <1>15, Zenon

\* Each codepoint has been counted as often as its octets occur in what the scan
\* has passed, as long as nobody has changed a mapped file.
ExactInv ==
  /\ curr = 0 => \A c : CountOf(c) = 0
  /\ input.kind = "memory" \/ Unchanged =>
       \A c \in 0 .. CodepointMax : CountOf(c) = Cardinality(OccurrencesBefore(c, curr))
  /\ CountsExact

\* At the beginning nothing occurs and nothing has been counted.
LEMMA ExactAtBeginning ==
  ASSUME curr = 0, \A c : CountOf(c) = 0, pc # "returned"
  PROVE  ExactInv
<1>1. \A c \in 0 .. CodepointMax : Cardinality(OccurrencesBefore(c, curr)) = 0
  BY OccurrencesFinite, FS_EmptySet
<1>2. \A c \in 0 .. CodepointMax : CountOf(c) = Cardinality(OccurrencesBefore(c, curr))
  BY <1>1
<1> QED  BY <1>2 DEF ExactInv, CountsExact

\* And so after a step.
LEMMA ExactNext ==
  ASSUME curr' = 0, \A c : CountOf(c)' = 0, pc' # "returned"
  PROVE  ExactInv'
<1>1. (curr = 0 /\ (\A c : CountOf(c) = 0) /\ pc # "returned" => ExactInv)'
  BY ExactAtBeginning, PTL
<1> QED  BY <1>1

\* It holds initially.
LEMMA ExactInvInit == Init => ExactInv
<1> SUFFICES ASSUME Init PROVE ExactInv
  OBVIOUS
<1>1. DOMAIN unicode_counts = {}
  BY DEF Init, EmptyBag, SetToBag
<1>2. \A c : CountOf(c) = 0
  BY <1>1 DEF Init, CountOf
<1> QED  BY <1>2, ExactAtBeginning DEF Init, InputInit

\* A step that counts nothing and leaves the octets of the input.
LEMMA ExactInvQuiet ==
  ASSUME ExactInv, UNCHANGED <<curr, ascii_counts, unicode_counts, result>>,
         pc' = "returned" => pc = "returned",
         input'.kind = input.kind, input'.buffer = input.buffer,
         input'.size = input.size,
         Unchanged' => UNCHANGED <<file, versions>>
  PROVE  ExactInv'
<1>1. \A c : CountOf(c)' = CountOf(c)
  BY DEF CountOf
<1>2. ASSUME (input.kind = "memory" \/ Unchanged)'
      PROVE  Data' = Data /\ (input.kind = "memory" \/ Unchanged)
  <2>1. CASE input.kind = "memory"
    BY <2>1 DEF Data
  <2>2. CASE input.kind # "memory"
    <3>1. Unchanged' /\ UNCHANGED <<file, versions>>
      BY <1>2, <2>2
    <3> QED  BY <2>2, <3>1 DEF Data, Unchanged
  <2> QED  BY <2>1, <2>2
<1>3. ASSUME (input.kind = "memory" \/ Unchanged)', NEW c \in 0 .. CodepointMax
      PROVE  CountOf(c)' = Cardinality(OccurrencesBefore(c, curr))'
  <2>1. OccurrencesBefore(c, curr)' = OccurrencesBefore(c, curr)
    BY <1>2, <1>3, Zenon DEF OccurrencesBefore
  <2>2. CountOf(c) = Cardinality(OccurrencesBefore(c, curr))
    BY <1>2, <1>3 DEF ExactInv
  <2> QED  BY <1>1, <2>1, <2>2, Zenon
<1>4. CountsExact'
  <2> SUFFICES ASSUME pc' = "returned", (input.kind = "memory" \/ Unchanged)',
                      NEW i \in DOMAIN result
               PROVE  result[i].count = Cardinality(Occurrences(result[i].codepoint))'
    BY Zenon DEF CountsExact
  <2>1. result[i].count = Cardinality(Occurrences(result[i].codepoint))
    BY <1>2 DEF ExactInv, CountsExact
  <2>2. Occurrences(result[i].codepoint)' = Occurrences(result[i].codepoint)
    BY <1>2, Zenon DEF Occurrences
  <2> QED  BY <2>1, <2>2, Zenon
<1>5. curr' = 0 => \A c : CountOf(c)' = 0
  BY <1>1 DEF ExactInv
<1> QED  BY <1>3, <1>4, <1>5 DEF ExactInv

\* A step of the scan.
LEMMA ExactInvCount ==
  ASSUME IInv, UnicodeInv, ExactInv, CountCodepoint
  PROVE  ExactInv'
<1>1. PICK cp \in 0 .. CodepointMax :
        /\ cp = CodepointAt(curr)
        /\ \A c : CountOf(c)' = CountOf(c) + (IF c = cp THEN 1 ELSE 0)
  BY CountStep
<1>2. /\ input.kind # "none" /\ curr \in Nat /\ curr < input.size
      /\ Decodes(curr) /\ curr' = After(curr) /\ pc' # "returned"
      /\ UNCHANGED <<file, versions, input>>
  BY DEF IInv, ObjectInv, TypeOK, InputTypeOK, CountCodepoint, Scanning, inputVars
<1>3. PICK q : q = After(curr)
  OBVIOUS
<1>4. curr' = q /\ curr' # 0
  <2>1. q \in (curr + 1) .. input.size /\ input.size \in Nat
    BY <1>2, <1>3, AfterBound DEF IInv, TypeOK, InputTypeOK
  <2>2. q # 0
    BY <1>2, <2>1
  <2> QED  BY <1>2, <1>3, <2>2
<1>5. ASSUME (input.kind = "memory" \/ Unchanged)', NEW c \in 0 .. CodepointMax
      PROVE  CountOf(c)' = Cardinality(OccurrencesBefore(c, curr))'
  <2> DEFINE A == OccurrencesBefore(c, curr)
             B == OccurrencesBefore(c, q)
  <2>1. OccurrencesBefore(c, curr)' = B
    BY <1>2, <1>4, Zenon DEF OccurrencesBefore, Data
  <2>2. CountOf(c) = Cardinality(A)
    BY <1>2, <1>5 DEF ExactInv, Unchanged
  <2>3. B = A \union (IF c = cp THEN {curr} ELSE {})
    BY <1>1, <1>2, <1>3, OccurrencesGrow
  <2>4. IsFiniteSet(A) /\ curr \notin A
    BY <1>2, OccurrencesFinite
  <2> HIDE DEF A, B
  <2>5. CASE c = cp
    <3>1. Cardinality(B) = Cardinality(A) + 1
      BY <2>3, <2>4, <2>5, FS_AddElement
    <3> QED  BY <1>1, <2>1, <2>2, <2>5, <3>1
  <2>6. CASE c # cp
    <3>1. B = A
      BY <2>3, <2>6
    <3>2. CountOf(c)' = CountOf(c)
      <4>1. CountOf(c)' = CountOf(c) + 0 /\ CountOf(c) \in Nat
        BY <1>1, <2>6, CountOfType DEF IInv
      <4> QED  BY <4>1
    <3> QED  BY <2>1, <2>2, <3>1, <3>2
  <2> QED  BY <2>5, <2>6
<1> QED  BY <1>2, <1>4, <1>5 DEF ExactInv, CountsExact

\* Returning the table.
LEMMA ExactInvReturn ==
  ASSUME IInv, UnicodeInv, DOMAIN unicode_counts \subseteq 0 .. CodepointMax,
         ExactInv, ReturnTable
  PROVE  ExactInv'
<1>1. PICK t \in SetToSeqs(Entries) : result' = t
  BY DEF ReturnTable
<1>2. /\ UNCHANGED <<file, versions, input, curr, ascii_counts, unicode_counts>>
      /\ curr = input.size
  BY DEF IInv, TypeOK, InputTypeOK, ReturnTable
<1>3. \A i \in DOMAIN t : /\ t[i].codepoint \in Keys
                          /\ t[i].count = CountOf(t[i].codepoint)
  BY ReturnedCounts DEF IInv
<1>4. \A c \in Keys : c \in 0 .. CodepointMax
  BY WeightsType DEF IInv
<1>5. \A c : CountOf(c)' = CountOf(c) /\ OccurrencesBefore(c, curr)' = OccurrencesBefore(c, curr)
  BY <1>2, Zenon DEF CountOf, OccurrencesBefore, Data
<1>6. Unchanged' <=> Unchanged
  BY <1>2 DEF Unchanged
<1>7. \A c : Occurrences(c)' = OccurrencesBefore(c, curr)
  BY <1>2, Zenon DEF Occurrences, OccurrencesBefore, Data
<1>8. ASSUME (input.kind = "memory" \/ Unchanged)', NEW i \in DOMAIN t
      PROVE  t[i].count = Cardinality(Occurrences(t[i].codepoint))'
  <2>1. \A c \in 0 .. CodepointMax :
          CountOf(c) = Cardinality(OccurrencesBefore(c, curr))
    BY <1>2, <1>6, <1>8 DEF ExactInv
  <2>2. PICK c : c = t[i].codepoint
    OBVIOUS
  <2>3. t[i].count = Cardinality(OccurrencesBefore(c, curr))
    BY <1>3, <1>4, <1>8, <2>1, <2>2, Zenon
  <2>4. Occurrences(c)' = OccurrencesBefore(c, curr)
    BY <1>7
  <2> QED  BY <2>2, <2>3, <2>4, Zenon
<1>9. CountsExact'
  BY <1>1, <1>8, Zenon DEF CountsExact
<1> QED  BY <1>2, <1>5, <1>6, <1>9 DEF ExactInv

\* Every step preserves it.
LEMMA ExactInvStep ==
  IInv /\ TableInv /\ CompleteInv /\ ExactInv /\ [Next]_vars => ExactInv'
<1> SUFFICES ASSUME IInv, TableInv, CompleteInv, ExactInv, [Next]_vars
             PROVE  ExactInv'
  OBVIOUS
<1>1. UnicodeInv /\ DOMAIN unicode_counts \subseteq 0 .. CodepointMax
  BY DEF TableInv, CompleteInv
<1>2. CASE CountCodepoint
  BY <1>1, <1>2, ExactInvCount
<1>3. CASE ReturnTable
  BY <1>1, <1>3, ExactInvReturn
<1>4. CASE Load /\ UNCHANGED tableVars
  <2>1. curr = 0
    BY <1>4
    DEF Load, CheckFile, GetFileLoadType, OpenStream, TellSize, ReadStream, MapFile,
        IInv, ObjectInv, Loading
  <2>2. pc' # "returned"
    BY <1>4
    DEF Load, CheckFile, GetFileLoadType, OpenStream, TellSize, ReadStream, MapFile,
        Throw, Continue
  <2>3. \A c : CountOf(c)' = 0
    BY <1>4, <2>1 DEF ExactInv, CountOf, tableVars
  <2>4. curr' = 0
    BY <1>4, <2>1 DEF tableVars
  <2> QED  BY <2>2, <2>3, <2>4, ExactNext
<1>5. CASE BuildFrequencyTable \/ ScanFails \/ ScanFaults
  BY <1>5, ExactInvQuiet DEF BuildFrequencyTable, ScanFails, ScanFaults, Throw, tableVars
<1>6. CASE (NextCodepoint \/ Reset) /\ UNCHANGED tableVars
  <2>1. PICK pos : input' = [input EXCEPT !.pos = pos]
    BY <1>6 DEF NextCodepoint, Reset, IInv, TypeOK, InputTypeOK
  <2>2. /\ input'.kind = input.kind /\ input'.buffer = input.buffer
        /\ input'.size = input.size
    BY <2>1 DEF IInv, TypeOK, InputTypeOK
  <2> QED  BY <1>6, <2>2, ExactInvQuiet DEF NextCodepoint, Reset, tableVars
<1>7. CASE (Rewrite \/ RemoveFile) /\ UNCHANGED tableVars
  BY <1>7, UserChanges, ExactInvQuiet DEF tableVars
<1>8. CASE UNCHANGED vars
  BY <1>8, ExactInvQuiet DEF vars
<1> QED  BY <1>2, <1>3, <1>4, <1>5, <1>6, <1>7, <1>8 DEF Next, Call

\* For all files, limits and changes the count of a codepoint is the number of
\* places where its octets occur in an input that stays what it was.
THEOREM CountsExactCorrect == Spec => []CountsExact
<1>1. ExactInv => CountsExact
  BY DEF ExactInv
<1>2. Spec => []ExactInv
  BY IInvAlways, TableInvInit, TableInvStep, CompleteInvInit, CompleteInvStep,
     ExactInvInit, ExactInvStep, PTL DEF Spec
<1> QED  BY <1>1, <1>2, PTL
=============================================================================
