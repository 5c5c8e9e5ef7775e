----------------------------- MODULE FrequencyTable -----------------------------
(***************************************************************************)
(* build_frequency_table(load_file(path)) of compress::run: the input of   *)
(* InputFile is loaded and handed over (frequency_table.cpp), one codepoint *)
(* per step.  ASCII codepoints are counted in an array and the others in a *)
(* hash map; both are collected and sorted at the end.  The progress       *)
(* callback is left out.                                                   *)
(***************************************************************************)
EXTENDS Table, InputFile

CONSTANT AsciiCount  \* ASCII_COUNT

ASSUME AsciiAssumption == AsciiCount \in 1 .. 128

\* Every Unicode scalar value may occur.
ASSUME ScalarsAssumption ==
  \A cp \in 0 .. CodepointMax : IsCodePointValid(cp) => cp \in Codepoints

VARIABLES
  curr,            \* how many octets the scan has passed
  ascii_counts,    \* array of counts
  unicode_counts,  \* map from the codepoints that occur to counts, a bag
  result           \* the table that is returned

tableVars == <<curr, ascii_counts, unicode_counts, result>>

vars == <<pc, file, versions, input, read, curr, ascii_counts, unicode_counts, result>>

Init ==
  /\ InputInit
  /\ curr = 0
  /\ ascii_counts = [c \in 0 .. (AsciiCount - 1) |-> 0]
  /\ unicode_counts = EmptyBag
  /\ result = <<>>

\* The owner of the object moves it into the call; what has been read from it
\* before makes no difference, as the scan starts at data().
BuildFrequencyTable ==
  /\ pc = "loaded"
  /\ pc' = "scan"
  /\ UNCHANGED <<file, versions, input, read, tableVars>>

Scanning == pc = "scan" /\ curr < input.size

\* Mutant: the first occurrence only makes the entry.
CountedFromSecond(counts, codepoint) ==
  IF codepoint \in DOMAIN counts THEN [counts EXCEPT ![codepoint] = @ + 1]
  ELSE counts @@ (codepoint :> 0)

\* counts[codepoint]++, which makes an entry of the map when there is none.
Counted(counts, codepoint) ==
  [c \in DOMAIN counts \union {codepoint} |->
     IF c \notin DOMAIN counts THEN 1
     ELSE IF c = codepoint THEN counts[c] + 1 ELSE counts[c]]

CountCodepoint ==
  /\ Scanning
  /\ Decodes(curr)
  /\ LET codepoint == CodepointAt(curr)
     IN IF codepoint < AsciiCount
          THEN /\ ascii_counts' = Counted(ascii_counts, codepoint)
               /\ UNCHANGED unicode_counts
          ELSE /\ unicode_counts' = Counted(unicode_counts, codepoint)
               /\ UNCHANGED ascii_counts
  /\ curr' = After(curr)
  /\ UNCHANGED <<inputVars, result>>

\* Mutant: the exception is swallowed and the loop goes on.
ScanFailsUnnoticed ==
  /\ Scanning
  /\ ~ Faults(curr) /\ ~ Decodes(curr)
  /\ UNCHANGED vars

\* An exception of utf8::next becomes a file_operation_exception.
ScanFails ==
  /\ Scanning
  /\ ~ Faults(curr) /\ ~ Decodes(curr)
  /\ Throw("file_operation_error")
  /\ UNCHANGED tableVars

\* The system ends the process with SIGBUS.
ScanFaults ==
  /\ Scanning
  /\ Faults(curr)
  /\ Throw("fault")
  /\ UNCHANGED tableVars

Entries ==
  {[codepoint |-> c, count |-> ascii_counts[c]] :
     c \in {d \in DOMAIN ascii_counts : ascii_counts[d] > 0}}
    \union {[codepoint |-> c, count |-> unicode_counts[c]] :
              c \in DOMAIN unicode_counts}

\* Mutant: the entries are returned as they were collected.
Unsorted(t) == TRUE

\* std::ranges::sort with operator< of node: the order of equal counts is
\* whatever the hash map and the sort make of it.
Sorted(t) ==
  \A i, j \in DOMAIN t : i < j => t[i].count <= t[j].count

ReturnTable ==
  /\ pc = "scan"
  /\ curr >= input.size
  /\ result' \in {t \in SetToSeqs(Entries) : Sorted(t)}
  /\ pc' = "returned"
  /\ UNCHANGED <<file, versions, input, read, curr, ascii_counts, unicode_counts>>

Call ==
  \/ Load /\ UNCHANGED tableVars
  \/ BuildFrequencyTable
  \/ CountCodepoint
  \/ ScanFails
  \/ ScanFaults
  \/ ReturnTable

Next ==
  \/ Call
  \/ (NextCodepoint \/ Reset) /\ UNCHANGED tableVars
  \/ (Rewrite \/ RemoveFile) /\ UNCHANGED tableVars

\* The calls run on their caller's thread and wait for nothing; nobody has to
\* use the rest of the object's interface or to change the file.
Spec == Init /\ [][Next]_vars /\ WF_vars(Call)

-----------------------------------------------------------------------------
\* Properties.

\* The type invariant: the scan never passes the end of the input, and the map
\* has only codepoints that occurred.
TypeOK ==
  /\ pc \in {"check", "size", "open", "tell", "read", "map", "loaded", "scan",
             "returned", "file_operation_error", "unknown_error", "fault"}
  /\ InputTypeOK
  /\ curr \in 0 .. input.size
  /\ ascii_counts \in [0 .. (AsciiCount - 1) -> Nat]
  /\ DOMAIN unicode_counts \subseteq Nat
  /\ IsABag(unicode_counts)

\* What generate_prefix_codes relies on: the entries ascend and no codepoint
\* comes twice, whichever of the two containers has counted it.
ReturnsFrequencyTable == pc = "returned" => IsFrequencyTable(result)

\* Where the octets of cp occur in the input.
Occurrences(cp) ==
  LET octets == Utf8Append(cp)
  IN {i \in 0 .. (input.size - Len(octets)) :
        SubSeq(Data, i + 1, i + Len(octets)) = octets}

\* The counts are exact: a codepoint is counted as often as its octets occur
\* anywhere in the input (UTF-8 is self-synchronising, so that an occurrence
\* is never part of other codepoints), and these occurrences make up the whole
\* input.  So writing the counted codepoints back gives the input byte for
\* byte: no overlong form or surrogate is accepted and changed.
CountsExact ==
  pc = "returned" /\ (input.kind = "memory" \/ Unchanged) =>
    \A i \in DOMAIN result :
      result[i].count = Cardinality(Occurrences(result[i].codepoint))

\* Every octet of the input is accounted for by the counted codepoints, also
\* when a mapped file changes under the scan.
CountsComplete ==
  pc = "returned" =>
    input.size = MapThenSumSet(
                   LAMBDA i : result[i].count * Len(Utf8Append(result[i].codepoint)),
                   DOMAIN result)

\* The well-formed sequences of the Unicode Standard (table 3-7), as the ranges
\* of their octets.
AnyTrail == 128 .. 191

WellFormed ==
  { <<0 .. 127>>,
    <<194 .. 223, AnyTrail>>,
    <<{224}, 160 .. 191, AnyTrail>>,
    <<225 .. 236, AnyTrail, AnyTrail>>,
    <<{237}, 128 .. 159, AnyTrail>>,
    <<238 .. 239, AnyTrail, AnyTrail>>,
    <<{240}, 144 .. 191, AnyTrail, AnyTrail>>,
    <<241 .. 243, AnyTrail, AnyTrail, AnyTrail>>,
    <<{244}, 128 .. 143, AnyTrail, AnyTrail>> }

\* The scan fails only where no well-formed sequence continues the input.
FailsOnlyOnInvalid ==
  pc = "file_operation_error" /\ input.kind # "none"
    /\ (input.kind = "memory" \/ Unchanged) =>
      ~ \E ranges \in WellFormed :
          /\ Len(ranges) <= Len(Rest(curr))
          /\ \A i \in DOMAIN ranges : Rest(curr)[i] \in ranges[i]

\* The table is returned, or the process ends with an exception or a fault.
Terminates ==
  <>(pc \in {"returned", "file_operation_error", "unknown_error", "fault"})
=============================================================================
