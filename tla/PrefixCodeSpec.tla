--------------------------- MODULE PrefixCodeSpec ---------------------------
(***************************************************************************)
(* What generate_prefix_codes promises its callers (compress::run and,     *)
(* through the file header, the decoder): given a frequency table it       *)
(* returns, once, a map from exactly the table's codepoints to non-empty   *)
(* bit strings none of which begins another.  Nothing is said about how    *)
(* the map is found: PrefixCodes.tla models that and implements this       *)
(* specification.                                                          *)
(***************************************************************************)
EXTENDS Integers, SequencesExt

CONSTANT Tables  \* the frequency tables the caller may pass

VARIABLES table, codes, returned

vars == <<table, codes, returned>>

Bit == {0, 1}

\* The codepoints of a frequency table, a sequence of [codepoint, count].
Symbols(t) == {t[i].codepoint : i \in DOMAIN t}

\* No code is a prefix of another one (is_prefix_free in the unit tests).
IsPrefixFree(m) ==
  \A c, d \in DOMAIN m : c # d => ~ IsPrefix(m[c], m[d])

IsPrefixCodeFor(m, S) ==
  /\ DOMAIN m = S
  /\ \A c \in S : m[c] \in Seq(Bit) /\ m[c] # <<>>
  /\ IsPrefixFree(m)

\* What a call that has returned has promised.
Promise == IsPrefixCodeFor(codes, Symbols(table))

Init ==
  /\ table \in Tables
  /\ codes = <<>>
  /\ returned = FALSE

Return ==
  /\ ~ returned
  /\ returned' = TRUE
  /\ UNCHANGED table
  /\ Promise'

Next == Return

Spec == Init /\ [][Next]_vars
=============================================================================
