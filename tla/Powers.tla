-------------------------------- MODULE Powers --------------------------------
(***************************************************************************)
(* The powers of two, as a recursive function: the provers know nothing of *)
(* the operator ^.                                                         *)
(***************************************************************************)
EXTENDS Integers

\* 1 << n, for a shift by whole bytes and for the limits of a field.
Pow2[n \in Nat] == IF n = 0 THEN 1 ELSE 2 * Pow2[n - 1]
=============================================================================
