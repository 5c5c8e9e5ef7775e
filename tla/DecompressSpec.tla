---------------------------- MODULE DecompressSpec ----------------------------
(***************************************************************************)
(* What decompress::run promises.  Its output only ever grows, until it    *)
(* returns or throws.  When nothing but the length of the compressed file  *)
(* may be wrong, what is written is at every moment a beginning of the     *)
(* text that was compressed, success is reported exactly when all of that  *)
(* has been written, and the call gives up, with the documented exception, *)
(* only when the file is cut short or a file cannot be opened.             *)
(***************************************************************************)
EXTENDS SequencesExt

VARIABLES
  original,  \* the bytes of the text that was compressed
  intact,    \* no byte of the compressed file is wrong, up to its length
  sound,     \* the compressed file is complete and the files can be opened
  written,   \* the bytes written to the output
  outcome    \* "running" until the call returns or throws

vars == <<original, intact, sound, written, outcome>>

Init ==
  /\ written = <<>>
  /\ outcome = "running"

Running ==
  /\ outcome = "running"
  /\ UNCHANGED <<original, intact, sound>>

\* One write of the decoder: any number of bytes, but never a wrong one.
Write ==
  /\ Running
  /\ IsStrictPrefix(written, written')
  /\ intact => IsPrefix(written', original)
  /\ outcome' = outcome

\* The last write and the return may come together.
Succeed ==
  /\ Running
  /\ intact => sound /\ written' = original
  /\ IsPrefix(written, written')
  /\ outcome' = "success"

Fail ==
  /\ Running
  /\ intact => ~ sound
  /\ written' = written
  /\ outcome' \in {"file_operation_error"} \union (IF intact THEN {} ELSE {"unknown_error"})

Next == Write \/ Succeed \/ Fail

Spec == Init /\ [][Next]_vars
=============================================================================
