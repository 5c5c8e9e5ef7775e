--------------------------------- MODULE Table ---------------------------------
(***************************************************************************)
(* frequency_table::table: what build_frequency_table returns (shown by    *)
(* FrequencyTable.tla) and generate_prefix_codes takes (PrefixCodes.tla).  *)
(***************************************************************************)
EXTENDS Integers, Sequences

CONSTANT Codepoints  \* the char32_t values that may occur in an input

TableNode == [codepoint : Codepoints, count : Nat \ {0}]

\* One node per codepoint that occurs, ascending by count.
IsFrequencyTable(t) ==
  /\ t \in Seq(TableNode)
  /\ \A i, j \in DOMAIN t :
       i < j => t[i].count <= t[j].count /\ t[i].codepoint # t[j].codepoint
=============================================================================
