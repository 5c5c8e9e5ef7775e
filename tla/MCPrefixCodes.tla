---------------------------- MODULE MCPrefixCodes ----------------------------
(***************************************************************************)
(* TLC instance of PrefixCodes: every frequency table of up to MaxSymbols  *)
(* symbols whose counts lie between 1 and MaxCount.  The algorithm only    *)
(* compares and adds counts, so one codepoint per position is enough.      *)
(***************************************************************************)
EXTENDS PrefixCodes

CONSTANTS MaxSymbols, MaxCount

MCCodepoints == 1 .. MaxSymbols

AscendingCounts(n) ==
  {c \in [1 .. n -> 1 .. MaxCount] : \A i \in 1 .. (n - 1) : c[i] <= c[i + 1]}

MCTables ==
  UNION {{[i \in 1 .. n |-> [codepoint |-> MaxSymbols + 1 - i, count |-> c[i]]] :
            c \in AscendingCounts(n)} : n \in 0 .. MaxSymbols}
=============================================================================
