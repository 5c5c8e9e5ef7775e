----------------------------- MODULE PrefixCodes -----------------------------
(***************************************************************************)
(* src/src/prefix_codes/prefix_codes.cpp: one call of                      *)
(* generate_prefix_codes, from the sorted frequency table to the map of    *)
(* codes.  build_huffman_tree merges nodes with the two-queue method, one  *)
(* iteration of its loop per step; generate_codes_iterative then walks the *)
(* tree with an explicit stack, one popped State per step.                 *)
(*                                                                         *)
(* A huffman_node lives in the sequence `nodes`; a shared_ptr to it is its *)
(* index there and nullptr is NullPtr.  A queue is a sequence whose front  *)
(* is its head, the stack a sequence whose top is its head.  Counts are    *)
(* arbitrary precision in the code (mpz_int) and naturals here.            *)
(***************************************************************************)
EXTENDS Table, Powers, SequencesExt

CONSTANT Tables  \* the frequency tables the caller may pass

NullPtr == 0

ASSUME ConstantsAssumption ==
  /\ Codepoints \subseteq Nat
  /\ \A t \in Tables : IsFrequencyTable(t)

VARIABLES
  pc,             \* where the call is
  table,          \* the argument
  nodes,          \* every huffman_node allocated so far
  first, second,  \* the two queues of build_huffman_tree
  stack,          \* traversal_stack of generate_codes_iterative
  bit_table       \* the map it fills and returns

vars == <<pc, table, nodes, first, second, stack, bit_table>>

-----------------------------------------------------------------------------

LeafNode(entry) ==
  [count |-> entry.count, left |-> NullPtr, right |-> NullPtr,
   codepoint |-> entry.codepoint]

\* Mutant: the right child is never stored in its parent.
ParentNodeWithoutRight(l, r) ==
  [count |-> nodes[l].count + nodes[r].count, left |-> l, right |-> NullPtr,
   codepoint |-> 0]

\* The codepoint of an inner node keeps its default and is never read.
ParentNode(l, r) ==
  [count |-> nodes[l].count + nodes[r].count, left |-> l, right |-> r,
   codepoint |-> 0]

IsLeaf(n) == n.left = NullPtr /\ n.right = NullPtr

Init ==
  /\ pc = "generate"
  /\ table \in Tables
  /\ nodes = <<>>
  /\ first = <<>>
  /\ second = <<>>
  /\ stack = <<>>
  /\ bit_table = <<>>

\* An empty table has no codes; a single symbol gets the code "0".
GenerateTrivial ==
  /\ pc = "generate"
  /\ Len(table) <= 1
  /\ bit_table' = [c \in {table[i].codepoint : i \in DOMAIN table} |-> <<0>>]
  /\ pc' = "returned"
  /\ UNCHANGED <<table, nodes, first, second, stack>>

PushLeaves ==
  /\ pc = "generate"
  /\ Len(table) > 1
  /\ nodes' = [i \in 1 .. Len(table) |-> LeafNode(table[i])]
  /\ first' = [i \in 1 .. Len(table) |-> i]
  /\ pc' = "merge"
  /\ UNCHANGED <<table, second, stack, bit_table>>

\* Mutant: the comparison of the two fronts is the wrong way round.
TakesFirstIfLarger(f, s) ==
  /\ f # <<>>
  /\ s = <<>> \/ nodes[Head(f)].count > nodes[Head(s)].count

\* Mutant: the leaves' queue is used only once the parents' queue is empty.
TakesFirstIfAlone(f, s) ==
  /\ f # <<>>
  /\ s = <<>>

TakesFirst(f, s) ==
  /\ f # <<>>
  /\ s = <<>> \/ nodes[Head(f)].count < nodes[Head(s)].count

\* pop_smallest on the queues f and s: what it returns and what it leaves.
PopSmallest(f, s) ==
  IF TakesFirst(f, s)
    THEN [result |-> Head(f), first |-> Tail(f), second |-> s]
    ELSE [result |-> Head(s), first |-> f, second |-> Tail(s)]

PopLeft == PopSmallest(first, second)

\* Mutant: the second pop of an iteration looks at the leaves' queue only.
PopRightFromLeaves ==
  IF PopLeft.first = <<>>
    THEN PopSmallest(PopLeft.first, PopLeft.second)
    ELSE [PopLeft EXCEPT !.result = Head(PopLeft.first),
                         !.first = Tail(PopLeft.first)]

PopRight == PopSmallest(PopLeft.first, PopLeft.second)

Merge ==
  /\ pc = "merge"
  /\ Len(first) + Len(second) > 1
  /\ nodes' = Append(nodes, ParentNode(PopLeft.result, PopRight.result))
  /\ first' = PopRight.first
  /\ second' = Append(PopRight.second, Len(nodes) + 1)
  /\ UNCHANGED <<pc, table, stack, bit_table>>

Root == IF second = <<>> THEN Head(first) ELSE Head(second)

StartTraversal ==
  /\ pc = "merge"
  /\ Len(first) + Len(second) <= 1
  /\ stack' = <<[node |-> Root, path |-> <<>>]>>
  /\ pc' = "traverse"
  /\ UNCHANGED <<table, nodes, first, second, bit_table>>

Top == Head(stack)

\* Mutant: both children get the same bit.
PushSameBit(child, bit) ==
  IF child = NullPtr
    THEN <<>>
    ELSE <<[node |-> child, path |-> Append(Top.path, 0)]>>

\* A child that exists is pushed with the path extended by one bit.
Push(child, bit) ==
  IF child = NullPtr
    THEN <<>>
    ELSE <<[node |-> child, path |-> Append(Top.path, bit)]>>

\* Mutant: the State of a leaf is read but not popped.
VisitLeafWithoutPop ==
  /\ pc = "traverse"
  /\ stack # <<>>
  /\ IsLeaf(nodes[Top.node])
  /\ LET cp == nodes[Top.node].codepoint
     IN bit_table' = [c \in DOMAIN bit_table \union {cp} |->
                        IF c = cp THEN Top.path ELSE bit_table[c]]
  /\ UNCHANGED <<pc, table, nodes, first, second, stack>>

VisitLeaf ==
  /\ pc = "traverse"
  /\ stack # <<>>
  /\ IsLeaf(nodes[Top.node])
  /\ LET cp == nodes[Top.node].codepoint
     IN bit_table' = [c \in DOMAIN bit_table \union {cp} |->
                        IF c = cp THEN Top.path ELSE bit_table[c]]
  /\ stack' = Tail(stack)
  /\ UNCHANGED <<pc, table, nodes, first, second>>

\* Mutant: an else-if, so that only one child is pushed.
VisitInnerOneChild ==
  /\ pc = "traverse"
  /\ stack # <<>>
  /\ ~ IsLeaf(nodes[Top.node])
  /\ stack' = Push(nodes[Top.node].right, 1) \o Tail(stack)
  /\ UNCHANGED <<pc, table, nodes, first, second, bit_table>>

\* The right child goes on the stack first, so the left one is on top.
VisitInner ==
  /\ pc = "traverse"
  /\ stack # <<>>
  /\ ~ IsLeaf(nodes[Top.node])
  /\ stack' = Push(nodes[Top.node].left, 0)
                \o (Push(nodes[Top.node].right, 1) \o Tail(stack))
  /\ UNCHANGED <<pc, table, nodes, first, second, bit_table>>

Return ==
  /\ pc = "traverse"
  /\ stack = <<>>
  /\ pc' = "returned"
  /\ UNCHANGED <<table, nodes, first, second, stack, bit_table>>

Next ==
  \/ GenerateTrivial
  \/ PushLeaves
  \/ Merge
  \/ StartTraversal
  \/ VisitLeaf
  \/ VisitInner
  \/ Return

\* The call runs on its caller's thread and waits for nothing.
Spec == Init /\ [][Next]_vars /\ WF_vars(Next)

-----------------------------------------------------------------------------

Bit == {0, 1}

Pointer == 1 .. Len(nodes)

\* A node has both children or none, and children are older than parents.
IsHuffmanNode(i) ==
  /\ nodes[i] \in [count : Nat \ {0}, left : Nat, right : Nat, codepoint : Nat]
  /\ IsLeaf(nodes[i]) => nodes[i].codepoint \in Codepoints
  /\ ~ IsLeaf(nodes[i]) => /\ nodes[i].left \in 1 .. (i - 1)
                           /\ nodes[i].right \in 1 .. (i - 1)

\* The type invariant: every pointer held by a queue, a node or the stack is
\* to an allocated node, and a node has either no child or two.
TypeOK ==
  /\ pc \in {"generate", "merge", "traverse", "returned"}
  /\ table \in Tables
  /\ nodes \in Seq([count : Nat \ {0}, left : Nat, right : Nat, codepoint : Nat])
  /\ \A i \in Pointer : IsHuffmanNode(i)
  /\ first \in Seq(Pointer)
  /\ second \in Seq(Pointer)
  /\ stack \in Seq([node : Pointer, path : Seq(Bit)])
  /\ DOMAIN bit_table \subseteq Codepoints
  /\ \A c \in DOMAIN bit_table : bit_table[c] \in Seq(Bit)

Ascending(q) ==
  \A i, j \in DOMAIN q : i < j => nodes[q[i]].count <= nodes[q[j]].count

\* Both queues stay sorted by count.  The two-queue method never sorts the
\* queue of parents: it relies on parents being made in ascending order, which
\* holds only because every merge takes the smallest nodes and the table was
\* sorted.
QueuesAscending == Ascending(first) /\ Ascending(second)

\* Every merge takes the two smallest nodes of both queues together: nothing
\* left in a queue is smaller than either of them.  This is the greedy choice
\* that makes the codes minimal, and pop_smallest only looks at the fronts.
MergesTwoSmallest ==
  [][ pc = "merge" /\ Len(nodes') > Len(nodes) =>
        LET parent == nodes'[Len(nodes')]
        IN \A q \in {first', second'} : \A i \in DOMAIN q :
             q[i] # Len(nodes') =>
               /\ nodes[q[i]].count >= nodes[parent.left].count
               /\ nodes[q[i]].count >= nodes[parent.right].count ]_vars

\* At every moment of the traversal no code found so far begins another: a
\* decoder that reads bit by bit can stop at the first code it recognises.
PrefixFree ==
  \A c, d \in DOMAIN bit_table :
    c # d => ~ IsPrefix(bit_table[c], bit_table[d])

-----------------------------------------------------------------------------
\* The promise to the callers.

Abstract == INSTANCE PrefixCodeSpec WITH
              codes <- IF pc = "returned" THEN bit_table ELSE <<>>,
              returned <- (pc = "returned")

\* What the call returns is a prefix code for exactly the codepoints of the
\* table: no symbol is lost in a queue or on the stack, and nothing the callers
\* see changes before that.
ImplementsPrefixCodeSpec == Abstract!Spec

\* The call returns: the loop over the queues stops in front of a pop from an
\* empty queue, and the traversal empties its stack.
Terminates == <>(pc = "returned")

-----------------------------------------------------------------------------
\* Quality of the codes.

TotalCount(t) == SumFunction([i \in DOMAIN t |-> t[i].count])

EncodedBits(t, lengths) ==
  SumFunction([i \in DOMAIN t |-> t[i].count * lengths[i]])

\* Kraft's inequality: a prefix code with these lengths exists.
Feasible(lengths) ==
  LET n == Len(lengths)
  IN SumFunction([i \in 1 .. n |-> Pow2[n - lengths[i]]]) <= Pow2[n]

MinimalBits(t) ==
  Min({EncodedBits(t, l) :
         l \in {m \in [DOMAIN t -> 1 .. (Len(t) - 1)] : Feasible(m)}})

\* The codes returned for two symbols or more encode the input in as few bits
\* as any prefix code can.
Optimal ==
  pc = "returned" /\ Len(table) > 1 =>
    EncodedBits(table,
                [i \in DOMAIN table |-> Len(bit_table[table[i].codepoint])])
      = MinimalBits(table)

Fibonacci[n \in Nat] ==
  IF n < 2 THEN n ELSE Fibonacci[n - 1] + Fibonacci[n - 2]

\* A code of length d needs an input of at least Fibonacci[d + 2] codepoints.
\* write_header silently drops a code longer than 255 bits (output_file.cpp:68)
\* and such a code needs more than 10^53 codepoints, whichever way the ties of
\* pop_smallest go.
LongCodesNeedLongInputs ==
  pc = "returned" /\ Len(table) > 1 =>
    \A c \in DOMAIN bit_table :
      Fibonacci[Len(bit_table[c]) + 2] <= TotalCount(table)

\* What the comment of pop_smallest says of a tie (prefix_codes.cpp:47): with
\* both queues non-empty and equal counts in front, the node comes from first.
TieTakenFromFirst ==
  [][ pc = "merge" /\ Len(nodes') > Len(nodes)
      /\ first # <<>> /\ second # <<>>
      /\ nodes[Head(first)].count = nodes[Head(second)].count
      => nodes'[Len(nodes')].left = Head(first) ]_vars
=============================================================================
