-------------------------- MODULE PrefixCodesProofs --------------------------
(***************************************************************************)
(* Machine-checked proofs about PrefixCodes, for every set of frequency    *)
(* tables.                                                                 *)
(***************************************************************************)
EXTENDS PrefixCodes, SequenceLemmas

HuffmanNode ==
  [count : Nat \ {0}, left : Nat, right : Nat, codepoint : Nat]

-----------------------------------------------------------------------------
(* Prefix-free sequences.                                                  *)

\* Two sequences neither of which begins the other.
Apart(s, t) == ~ IsPrefix(s, t) /\ ~ IsPrefix(t, s)

\* Longer codes stay apart.
LEMMA ApartExtend ==
  ASSUME NEW S, NEW s \in Seq(S), NEW t \in Seq(S), NEW b \in S, Apart(s, t)
  PROVE  Apart(Append(s, b), t) /\ Apart(t, Append(s, b))
<1>1. /\ Append(s, b) \in Seq(S)
      /\ Len(Append(s, b)) = Len(s) + 1
      /\ \A i \in 1 .. Len(s) : Append(s, b)[i] = s[i]
  OBVIOUS
<1>2. Len(s) \in Nat /\ Len(t) \in Nat
  BY LenProperties
<1>3. ASSUME IsPrefix(Append(s, b), t) PROVE FALSE
  <2>1. /\ Len(Append(s, b)) <= Len(t)
        /\ \A i \in 1 .. Len(Append(s, b)) : Append(s, b)[i] = t[i]
    BY <1>1, <1>3, IsPrefixElements
  <2>2. Len(s) <= Len(t) /\ \A i \in 1 .. Len(s) : s[i] = t[i]
    BY <1>1, <1>2, <2>1
  <2> QED  BY <2>2, IsPrefixElements DEF Apart
<1>4. ASSUME IsPrefix(t, Append(s, b)) PROVE FALSE
  <2>1. /\ Len(t) <= Len(s) + 1
        /\ \A i \in 1 .. Len(t) : t[i] = Append(s, b)[i]
    BY <1>1, <1>4, IsPrefixElements
  <2>2. CASE Len(t) <= Len(s)
    <3>1. \A i \in 1 .. Len(t) : t[i] = s[i]
      BY <1>1, <1>2, <2>1, <2>2
    <3> QED  BY <2>2, <3>1, IsPrefixElements DEF Apart
  <2>3. CASE Len(t) = Len(s) + 1
    <3>1. Len(s) <= Len(t) /\ \A i \in 1 .. Len(s) : s[i] = t[i]
      BY <1>1, <1>2, <2>1, <2>3
    <3> QED  BY <3>1, IsPrefixElements DEF Apart
  <2> QED  BY <1>2, <2>1, <2>2, <2>3
<1> QED  BY <1>3, <1>4 DEF Apart

\* The codes of two siblings are apart.
LEMMA SiblingsApart ==
  ASSUME NEW S, NEW s \in Seq(S), NEW a \in S, NEW b \in S, a # b
  PROVE  Apart(Append(s, a), Append(s, b))
<1>1. /\ Append(s, a) \in Seq(S) /\ Append(s, b) \in Seq(S)
      /\ Len(Append(s, a)) = Len(s) + 1 /\ Len(Append(s, b)) = Len(s) + 1
      /\ Append(s, a)[Len(s) + 1] = a /\ Append(s, b)[Len(s) + 1] = b
      /\ Len(s) \in Nat
  OBVIOUS
<1>2. Len(s) + 1 \in 1 .. (Len(s) + 1)
  BY <1>1
<1>3. ASSUME NEW u \in Seq(S), NEW v \in Seq(S),
             Len(u) = Len(s) + 1, u[Len(s) + 1] # v[Len(s) + 1]
      PROVE  ~ IsPrefix(u, v)
  BY <1>2, <1>3, IsPrefixElements
<1>4. ~ IsPrefix(Append(s, a), Append(s, b))
  BY <1>1, <1>3
<1>5. ~ IsPrefix(Append(s, b), Append(s, a))
  BY <1>1, <1>3
<1> QED  BY <1>4, <1>5 DEF Apart

-----------------------------------------------------------------------------
(* Type correctness.  What TypeOK alone does not give is that the queues   *)
(* never run dry (the loop is left with one node, and a pop finds one) and  *)
(* that the call starts from nothing.                                      *)

\* How many nodes two queues hold.
Queued(f, s) == Len(f) + Len(s)

QueuesNotEmpty == pc = "merge" => Queued(first, second) >= 1

\* Before the call pushes the leaves it has built nothing, and before it starts
\* the traversal it has no codes.
StartsEmpty ==
  /\ pc = "generate" => nodes = <<>> /\ first = <<>> /\ second = <<>>
  /\ pc \in {"generate", "merge"} => stack = <<>> /\ bit_table = <<>>

TypeInv == TypeOK /\ QueuesNotEmpty /\ StartsEmpty

\* What pop_smallest takes from the queues.
LEMMA PopSmallestType ==
  ASSUME NEW f \in Seq(Pointer), NEW s \in Seq(Pointer),
         Queued(f, s) >= 1
  PROVE  /\ PopSmallest(f, s).result \in Pointer
         /\ PopSmallest(f, s).first \in Seq(Pointer)
         /\ PopSmallest(f, s).second \in Seq(Pointer)
         /\ Queued(PopSmallest(f, s).first, PopSmallest(f, s).second)
              = Queued(f, s) - 1
<1>1. Len(f) \in Nat /\ Len(s) \in Nat
  BY LenProperties
<1>2. CASE TakesFirst(f, s)
  <2>1. f # <<>>
    BY <1>2 DEF TakesFirst
  <2>2. /\ Head(f) \in Pointer
        /\ Tail(f) \in Seq(Pointer)
        /\ Len(Tail(f)) = Len(f) - 1
    BY <2>1, HeadTailProperties
  <2> QED  BY <1>1, <1>2, <2>2 DEF PopSmallest, Queued
<1>3. CASE ~ TakesFirst(f, s)
  <2>1. s # <<>>
    BY <1>1, <1>3 DEF TakesFirst, Queued
  <2>2. /\ Head(s) \in Pointer
        /\ Tail(s) \in Seq(Pointer)
        /\ Len(Tail(s)) = Len(s) - 1
    BY <2>1, HeadTailProperties
  <2> QED  BY <1>1, <1>3, <2>2 DEF PopSmallest, Queued
<1> QED  BY <1>2, <1>3

\* A merge pops two nodes.
LEMMA MergePops ==
  ASSUME TypeOK, Merge
  PROVE  /\ Queued(first, second) \in Nat
         /\ Queued(first, second) > 1
         /\ PopLeft.result \in Pointer
         /\ PopLeft.first \in Seq(Pointer)
         /\ PopLeft.second \in Seq(Pointer)
         /\ Queued(PopLeft.first, PopLeft.second) = Queued(first, second) - 1
         /\ PopRight.result \in Pointer
         /\ PopRight.first \in Seq(Pointer)
         /\ PopRight.second \in Seq(Pointer)
         /\ Queued(PopRight.first, PopRight.second) = Queued(first, second) - 2
<1>1. first \in Seq(Pointer) /\ second \in Seq(Pointer)
  BY DEF TypeOK
<1>2. Queued(first, second) \in Nat /\ Queued(first, second) > 1
  BY <1>1, LenProperties DEF Merge, Queued
<1>3. /\ PopLeft.result \in Pointer
      /\ PopLeft.first \in Seq(Pointer)
      /\ PopLeft.second \in Seq(Pointer)
      /\ Queued(PopLeft.first, PopLeft.second) = Queued(first, second) - 1
  <2>1. Queued(first, second) >= 1
    BY <1>2
  <2> QED  BY <1>1, <2>1, PopSmallestType DEF PopLeft
<1>4. Queued(PopLeft.first, PopLeft.second) >= 1
  BY <1>2, <1>3
<1>5. /\ PopRight.result \in Pointer
      /\ PopRight.first \in Seq(Pointer)
      /\ PopRight.second \in Seq(Pointer)
      /\ Queued(PopRight.first, PopRight.second)
           = Queued(PopLeft.first, PopLeft.second) - 1
  BY <1>3, <1>4, PopSmallestType DEF PopRight
<1> QED  BY <1>2, <1>3, <1>5

\* The nodes after a merge: the old ones unchanged and the parent at the end.
LEMMA MergeNodes ==
  ASSUME TypeOK, Merge
  PROVE  /\ Len(nodes) \in Nat
         /\ ParentNode(PopLeft.result, PopRight.result) \in HuffmanNode
         /\ nodes' \in Seq(HuffmanNode)
         /\ Len(nodes') = Len(nodes) + 1
         /\ \A i \in Pointer : nodes'[i] = nodes[i]
         /\ nodes'[Len(nodes) + 1]
              = ParentNode(PopLeft.result, PopRight.result)
<1>1. nodes \in Seq(HuffmanNode) /\ Len(nodes) \in Nat
  BY LenProperties DEF TypeOK, HuffmanNode
<1>2. PopLeft.result \in Pointer /\ PopRight.result \in Pointer
  BY MergePops
<1>3. /\ nodes[PopLeft.result] \in HuffmanNode
      /\ nodes[PopRight.result] \in HuffmanNode
  BY <1>1, <1>2, ElementOfSeq DEF Pointer
<1>4. ASSUME NEW l \in Pointer, NEW r \in Pointer,
             nodes[l] \in HuffmanNode, nodes[r] \in HuffmanNode
      PROVE  ParentNode(l, r) \in HuffmanNode
  <2>1. nodes[l].count \in Nat \ {0} /\ nodes[r].count \in Nat \ {0}
    BY <1>4 DEF HuffmanNode
  <2>2. nodes[l].count + nodes[r].count \in Nat \ {0}
    BY <2>1
  <2>3. l \in Nat /\ r \in Nat
    BY <1>1 DEF Pointer
  <2> QED  BY <2>2, <2>3 DEF ParentNode, HuffmanNode
<1>5. ParentNode(PopLeft.result, PopRight.result) \in HuffmanNode
  BY <1>2, <1>3, <1>4
<1> QED  BY <1>1, <1>5, AppendProperties DEF Merge, Pointer

\* The type invariant holds initially.
LEMMA TypeInvInit == Init => TypeInv
  BY DEF Init, TypeInv, TypeOK, QueuesNotEmpty, StartsEmpty, Pointer

\* Every frequency table lists nodes with a codepoint and a positive count.
LEMMA TableEntries ==
  ASSUME NEW t \in Tables
  PROVE  /\ Len(t) \in Nat
         /\ DOMAIN t = 1 .. Len(t)
         /\ \A i \in 1 .. Len(t) : t[i] \in TableNode
  BY ConstantsAssumption, LenProperties, ElementOfSeq DEF IsFrequencyTable

\* GenerateTrivial preserves the type invariant.
LEMMA TypeInvGenerateTrivial ==
  ASSUME TypeInv, GenerateTrivial
  PROVE  TypeInv'
<1> USE DEF GenerateTrivial
<1>1. table \in Tables
  BY DEF TypeInv, TypeOK
<1>2. /\ {table[i].codepoint : i \in DOMAIN table} \subseteq Codepoints
      /\ <<0>> \in Seq(Bit)
  BY <1>1, TableEntries DEF TableNode, Bit
<1>3. TypeOK'
  BY <1>2 DEF TypeInv, TypeOK, Pointer, IsHuffmanNode
<1> QED  BY <1>3 DEF TypeInv, QueuesNotEmpty, StartsEmpty

\* PushLeaves preserves the type invariant.
LEMMA TypeInvPushLeaves ==
  ASSUME TypeInv, PushLeaves
  PROVE  TypeInv'
<1> USE DEF PushLeaves
<1> DEFINE n == Len(table)
<1>1. table \in Tables
  BY DEF TypeInv, TypeOK
<1>2. n \in Nat /\ n > 1
  BY <1>1, TableEntries
<1>3. \A i \in 1 .. n : LeafNode(table[i]) \in HuffmanNode
                        /\ LeafNode(table[i]).codepoint \in Codepoints
                        /\ IsLeaf(LeafNode(table[i]))
  BY <1>1, TableEntries, ConstantsAssumption
  DEF LeafNode, TableNode, HuffmanNode, IsLeaf, NullPtr
<1>4. /\ nodes' \in Seq(HuffmanNode)
      /\ Len(nodes') = n
      /\ \A i \in 1 .. n : nodes'[i] = LeafNode(table[i])
  BY <1>2, <1>3
<1>5. \A i \in Pointer' : IsHuffmanNode(i)'
  BY <1>3, <1>4 DEF Pointer, IsHuffmanNode, HuffmanNode
<1>6. first' \in Seq(Pointer') /\ Len(first') = n
  BY <1>2, <1>4 DEF Pointer
<1>7. /\ second' = <<>> /\ stack' = <<>> /\ bit_table' = <<>>
      /\ pc' = "merge" /\ table' \in Tables
  BY <1>1 DEF TypeInv, StartsEmpty
<1>8. TypeOK'
  BY <1>4, <1>5, <1>6, <1>7 DEF TypeOK, HuffmanNode
<1>9. QueuesNotEmpty' /\ StartsEmpty'
  BY <1>2, <1>6, <1>7 DEF QueuesNotEmpty, StartsEmpty, Queued
<1> QED  BY <1>8, <1>9 DEF TypeInv

\* Merge preserves the type invariant.
LEMMA TypeInvMerge ==
  ASSUME TypeInv, Merge
  PROVE  TypeInv'
<1> USE DEF TypeInv
<1>1. /\ PopLeft.result \in Pointer /\ PopRight.result \in Pointer
      /\ PopRight.first \in Seq(Pointer) /\ PopRight.second \in Seq(Pointer)
      /\ Queued(first, second) \in Nat /\ Queued(first, second) > 1
      /\ Queued(PopRight.first, PopRight.second) = Queued(first, second) - 2
  BY MergePops
<1>2. /\ Len(nodes) \in Nat
      /\ ParentNode(PopLeft.result, PopRight.result) \in HuffmanNode
      /\ nodes' \in Seq(HuffmanNode)
      /\ Len(nodes') = Len(nodes) + 1
      /\ \A i \in Pointer : nodes'[i] = nodes[i]
      /\ nodes'[Len(nodes) + 1] = ParentNode(PopLeft.result, PopRight.result)
  BY MergeNodes
<1>3. Pointer \subseteq Pointer' /\ Len(nodes) + 1 \in Pointer'
  BY <1>2 DEF Pointer
<1>4. \A i \in Pointer' : IsHuffmanNode(i)'
  <2> SUFFICES ASSUME NEW i \in Pointer' PROVE IsHuffmanNode(i)'
    OBVIOUS
  <2>1. CASE i \in Pointer
    BY <1>2, <2>1 DEF TypeOK, IsHuffmanNode
  <2>2. CASE i = Len(nodes) + 1
    <3>1. ~ IsLeaf(nodes'[i])
      BY <1>1, <1>2, <2>2 DEF ParentNode, IsLeaf, NullPtr, Pointer
    <3>2. nodes'[i].left \in 1 .. (i - 1) /\ nodes'[i].right \in 1 .. (i - 1)
      BY <1>1, <1>2, <2>2 DEF ParentNode, Pointer
    <3>3. nodes'[i] \in HuffmanNode
      BY <1>2, <2>2
    <3> QED  BY <3>1, <3>2, <3>3 DEF IsHuffmanNode, HuffmanNode
  <2> QED  BY <1>2, <2>1, <2>2 DEF Pointer
<1>5. /\ first' \in Seq(Pointer') /\ Len(first') = Len(PopRight.first)
      /\ second' \in Seq(Pointer') /\ Len(second') = Len(PopRight.second) + 1
  <2>1. /\ PopRight.first \in Seq(Pointer')
        /\ PopRight.second \in Seq(Pointer')
    BY <1>1, <1>3, SeqMonotonic
  <2> QED  BY <1>3, <2>1, AppendProperties DEF Merge
<1>6. stack' \in Seq([node : Pointer', path : Seq(Bit)])
  <2>1. [node : Pointer, path : Seq(Bit)]
          \subseteq [node : Pointer', path : Seq(Bit)]
    BY <1>3
  <2> QED  BY <2>1, SeqMonotonic DEF TypeOK, Merge
<1>7. TypeOK'
  BY <1>2, <1>4, <1>5, <1>6 DEF TypeOK, HuffmanNode, Merge
<1>8. QueuesNotEmpty' /\ StartsEmpty'
  <2>1. Len(PopRight.first) \in Nat /\ Len(PopRight.second) \in Nat
    BY <1>1, LenProperties
  <2>2. Len(first') \in Nat /\ Len(second') \in Nat /\ Len(second') >= 1
    BY <1>5, <2>1
  <2>3. Len(first') + Len(second') >= 1
    BY <2>2
  <2> QED  BY <2>3 DEF QueuesNotEmpty, StartsEmpty, Queued, Merge
<1> QED  BY <1>7, <1>8

\* StartTraversal preserves the type invariant.
LEMMA TypeInvStartTraversal ==
  ASSUME TypeInv, StartTraversal
  PROVE  TypeInv'
<1> USE DEF StartTraversal, TypeInv
<1>1. first \in Seq(Pointer) /\ second \in Seq(Pointer)
  BY DEF TypeOK
<1>2. first # <<>> \/ second # <<>>
  BY DEF QueuesNotEmpty, Queued
<1>3. Root \in Pointer
  BY <1>1, <1>2, HeadTailProperties DEF Root
<1>4. stack' \in Seq([node : Pointer, path : Seq(Bit)])
  BY <1>3
<1>5. TypeOK'
  BY <1>4 DEF TypeOK, Pointer, IsHuffmanNode
<1> QED  BY <1>5 DEF QueuesNotEmpty, StartsEmpty

\* What is on top of a non-empty stack.
LEMMA TopType ==
  ASSUME TypeOK, stack # <<>>
  PROVE  /\ Top \in [node : Pointer, path : Seq(Bit)]
         /\ Tail(stack) \in Seq([node : Pointer, path : Seq(Bit)])
         /\ IsHuffmanNode(Top.node)
<1>1. /\ Top \in [node : Pointer, path : Seq(Bit)]
      /\ Tail(stack) \in Seq([node : Pointer, path : Seq(Bit)])
  BY HeadTailProperties DEF TypeOK, Top
<1> QED  BY <1>1 DEF TypeOK

\* Visiting a leaf preserves the type invariant.
LEMMA TypeInvVisitLeaf ==
  ASSUME TypeInv, VisitLeaf
  PROVE  TypeInv'
<1> USE DEF VisitLeaf, TypeInv
<1>1. /\ Top \in [node : Pointer, path : Seq(Bit)]
      /\ Tail(stack) \in Seq([node : Pointer, path : Seq(Bit)])
      /\ nodes[Top.node].codepoint \in Codepoints
  BY TopType DEF IsHuffmanNode
<1>2. /\ DOMAIN bit_table' \subseteq Codepoints
      /\ \A c \in DOMAIN bit_table' : bit_table'[c] \in Seq(Bit)
  BY <1>1 DEF TypeOK
<1>3. TypeOK'
  BY <1>1, <1>2 DEF TypeOK, Pointer, IsHuffmanNode
<1> QED  BY <1>3 DEF QueuesNotEmpty, StartsEmpty

\* An inner node has both children, so VisitInner pushes two States.
LEMMA VisitInnerStack ==
  ASSUME TypeOK, VisitInner
  PROVE  /\ nodes[Top.node].left \in Pointer
         /\ nodes[Top.node].right \in Pointer
         /\ Len(stack') = Len(stack) + 1
         /\ stack'[1] = [node |-> nodes[Top.node].left,
                         path |-> Append(Top.path, 0)]
         /\ stack'[2] = [node |-> nodes[Top.node].right,
                         path |-> Append(Top.path, 1)]
         /\ \A i \in 3 .. Len(stack') : stack'[i] = stack[i - 1]
         /\ stack' \in Seq([node : Pointer, path : Seq(Bit)])
<1>1. /\ Top \in [node : Pointer, path : Seq(Bit)]
      /\ Tail(stack) \in Seq([node : Pointer, path : Seq(Bit)])
      /\ nodes[Top.node].left \in 1 .. (Top.node - 1)
      /\ nodes[Top.node].right \in 1 .. (Top.node - 1)
  BY TopType DEF IsHuffmanNode, VisitInner
<1>2. Len(nodes) \in Nat
  BY LenProperties DEF TypeOK
<1>3. /\ nodes[Top.node].left \in Pointer /\ nodes[Top.node].left # NullPtr
      /\ nodes[Top.node].right \in Pointer /\ nodes[Top.node].right # NullPtr
  BY <1>1, <1>2 DEF Pointer, NullPtr
<1> DEFINE a == [node |-> nodes[Top.node].left, path |-> Append(Top.path, 0)]
           b == [node |-> nodes[Top.node].right, path |-> Append(Top.path, 1)]
<1>4. stack' = <<a>> \o (<<b>> \o Tail(stack))
  BY <1>3 DEF Push, VisitInner
<1>5. /\ a \in [node : Pointer, path : Seq(Bit)]
      /\ b \in [node : Pointer, path : Seq(Bit)]
  BY <1>1, <1>3 DEF Bit
<1>6. /\ Len(stack) \in Nat /\ Len(Tail(stack)) + 1 = Len(stack)
      /\ Len(stack) >= 1
      /\ \A i \in 1 .. Len(Tail(stack)) : Tail(stack)[i] = stack[i + 1]
  BY HeadTailProperties, LenProperties, EmptySeq DEF TypeOK, VisitInner
<1> HIDE DEF a, b
<1> DEFINE rest == <<b>> \o Tail(stack)
<1>7. /\ rest \in Seq([node : Pointer, path : Seq(Bit)])
      /\ Len(rest) = Len(stack)
      /\ rest[1] = b
      /\ \A i \in 2 .. Len(stack) : rest[i] = Tail(stack)[i - 1]
  BY <1>1, <1>5, <1>6, ConsProperties
<1>8. \A i \in 2 .. Len(stack) : rest[i] = stack[i]
  BY <1>6, <1>7
<1> HIDE DEF rest
<1>9. stack' = <<a>> \o rest
  BY <1>4 DEF rest
<1>10. /\ stack' \in Seq([node : Pointer, path : Seq(Bit)])
       /\ Len(stack') = Len(stack) + 1
       /\ stack'[1] = a
       /\ \A i \in 2 .. (Len(stack) + 1) : stack'[i] = rest[i - 1]
  BY <1>5, <1>7, <1>9, ConsProperties
<1>11. stack'[2] = b /\ \A i \in 3 .. Len(stack') : stack'[i] = stack[i - 1]
  <2>1. /\ 2 \in 2 .. (Len(stack) + 1)
        /\ \A i \in 3 .. Len(stack') : /\ i \in 2 .. (Len(stack) + 1)
                                       /\ i - 1 \in 2 .. Len(stack)
    BY <1>6, <1>10
  <2>2. stack'[2] = rest[2 - 1]
    BY <1>10, <2>1
  <2>3. stack'[2] = b
    BY <1>7, <2>2
  <2>4. \A i \in 3 .. Len(stack') : stack'[i] = rest[i - 1]
    BY <1>10, <2>1
  <2> QED  BY <1>8, <2>1, <2>3, <2>4
<1> QED  BY <1>3, <1>10, <1>11 DEF a, b

\* Visiting an inner node preserves the type invariant.
LEMMA TypeInvVisitInner ==
  ASSUME TypeInv, VisitInner
  PROVE  TypeInv'
<1> USE DEF VisitInner, TypeInv
<1>1. TypeOK'
  BY VisitInnerStack DEF TypeOK, Pointer, IsHuffmanNode
<1> QED  BY <1>1 DEF QueuesNotEmpty, StartsEmpty

\* Every step preserves the type invariant.
LEMMA TypeInvStep == TypeInv /\ [Next]_vars => TypeInv'
<1> SUFFICES ASSUME TypeInv, [Next]_vars PROVE TypeInv'
  OBVIOUS
<1>1. CASE GenerateTrivial BY <1>1, TypeInvGenerateTrivial
<1>2. CASE PushLeaves BY <1>2, TypeInvPushLeaves
<1>3. CASE Merge BY <1>3, TypeInvMerge
<1>4. CASE StartTraversal BY <1>4, TypeInvStartTraversal
<1>5. CASE VisitLeaf BY <1>5, TypeInvVisitLeaf
<1>6. CASE VisitInner BY <1>6, TypeInvVisitInner
<1>7. CASE Return
  BY <1>7 DEF Return, TypeInv, TypeOK, Pointer, IsHuffmanNode,
              QueuesNotEmpty, StartsEmpty
<1>8. CASE UNCHANGED vars
  BY <1>8 DEF vars, TypeInv, TypeOK, Pointer, IsHuffmanNode,
              QueuesNotEmpty, StartsEmpty, Queued
<1> QED
  BY <1>1, <1>2, <1>3, <1>4, <1>5, <1>6, <1>7, <1>8 DEF Next

\* TypeOK holds throughout every call: no step dereferences a null pointer or
\* pops an empty queue, and every code is a string of bits.
THEOREM TypeCorrect == Spec => []TypeOK
<1>1. Spec => []TypeInv
  BY TypeInvInit, TypeInvStep, PTL DEF Spec
<1> QED  BY <1>1, PTL DEF TypeInv

-----------------------------------------------------------------------------
(* Prefix-free codes.  PrefixFree alone is not inductive, since the next   *)
(* code comes from the stack: what every step keeps is that the paths on   *)
(* the stack and the codes found so far are pairwise apart.                *)

StackApart ==
  \A i, j \in DOMAIN stack : i # j => Apart(stack[i].path, stack[j].path)

StackApartFromCodes ==
  \A i \in DOMAIN stack : \A c \in DOMAIN bit_table :
    Apart(stack[i].path, bit_table[c])

PathsInv == PrefixFree /\ StackApart /\ StackApartFromCodes

\* The invariant of the paths holds initially.
LEMMA PathsInvInit == Init => PathsInv
  BY DEF Init, PathsInv, PrefixFree, StackApart, StackApartFromCodes

\* The one code of a trivial table.
LEMMA PathsInvGenerateTrivial ==
  ASSUME TypeInv, GenerateTrivial
  PROVE  PathsInv'
<1>1. stack' = <<>>
  BY DEF TypeInv, StartsEmpty, GenerateTrivial
<1>2. PrefixFree'
  <2>1. Len(table) \in Nat /\ DOMAIN table = 1 .. Len(table)
    BY TableEntries DEF TypeInv, TypeOK
  <2>2. \A i, j \in DOMAIN table : i = j
    BY <2>1 DEF GenerateTrivial
  <2>3. \A c, d \in DOMAIN bit_table' : c = d
    BY <2>2 DEF GenerateTrivial
  <2> QED  BY <2>3 DEF PrefixFree
<1> QED  BY <1>1, <1>2 DEF PathsInv, StackApart, StackApartFromCodes

\* The root has the empty path.
LEMMA PathsInvStartTraversal ==
  ASSUME TypeInv, StartTraversal
  PROVE  PathsInv'
<1>1. /\ bit_table' = <<>>
      /\ stack' = <<[node |-> Root, path |-> <<>>]>>
  BY DEF TypeInv, StartsEmpty, StartTraversal
<1>2. \A i, j \in DOMAIN stack' : i = j
  BY <1>1
<1> QED
  BY <1>1, <1>2 DEF PathsInv, PrefixFree, StackApart, StackApartFromCodes

\* The stack below its top, one position up.
LEMMA TailElements ==
  ASSUME TypeOK, stack # <<>>
  PROVE  /\ DOMAIN stack = 1 .. Len(stack)
         /\ Len(stack) \in Nat
         /\ 1 \in DOMAIN stack
         /\ Top = stack[1]
         /\ \A i \in DOMAIN Tail(stack) :
              /\ i \in Nat
              /\ i + 1 \in DOMAIN stack
              /\ i + 1 # 1
              /\ Tail(stack)[i] = stack[i + 1]
<1>1. stack \in Seq([node : Pointer, path : Seq(Bit)])
  BY DEF TypeOK
<1>2. /\ DOMAIN stack = 1 .. Len(stack) /\ Len(stack) \in Nat
      /\ Len(stack) >= 1
  BY <1>1, LenProperties, EmptySeq
<1>3. /\ Tail(stack) \in Seq([node : Pointer, path : Seq(Bit)])
      /\ Len(Tail(stack)) = Len(stack) - 1
      /\ \A i \in 1 .. Len(Tail(stack)) : Tail(stack)[i] = stack[i + 1]
  BY <1>1, HeadTailProperties
<1>4. DOMAIN Tail(stack) = 1 .. (Len(stack) - 1)
  BY <1>3, LenProperties
<1> QED  BY <1>1, <1>2, <1>3, <1>4 DEF Top

\* The path of a leaf becomes its code.
LEMMA PathsInvVisitLeaf ==
  ASSUME TypeOK, PathsInv, VisitLeaf
  PROVE  PathsInv'
<1> USE DEF PathsInv
<1> DEFINE cp == nodes[Top.node].codepoint
<1>1. /\ stack # <<>>
      /\ stack' = Tail(stack)
      /\ DOMAIN bit_table' = DOMAIN bit_table \union {cp}
      /\ bit_table'[cp] = Top.path
      /\ \A c \in DOMAIN bit_table' : c # cp => /\ c \in DOMAIN bit_table
                                                /\ bit_table'[c] = bit_table[c]
  BY DEF VisitLeaf
<1> HIDE DEF cp
<1>2. \A c \in DOMAIN bit_table : Apart(Top.path, bit_table[c])
  BY <1>1, TailElements DEF StackApartFromCodes
<1>3. PrefixFree'
  <2> SUFFICES ASSUME NEW c \in DOMAIN bit_table', NEW d \in DOMAIN bit_table',
                      c # d
               PROVE  ~ IsPrefix(bit_table'[c], bit_table'[d])
    BY DEF PrefixFree
  <2>1. CASE c = cp
    BY <1>1, <1>2, <2>1 DEF Apart
  <2>2. CASE d = cp
    BY <1>1, <1>2, <2>2 DEF Apart
  <2>3. CASE c # cp /\ d # cp
    BY <1>1, <2>3 DEF PrefixFree
  <2> QED  BY <2>1, <2>2, <2>3
<1>4. StackApart'
  <2> SUFFICES ASSUME NEW i \in DOMAIN Tail(stack), NEW j \in DOMAIN Tail(stack),
                      i # j
               PROVE  Apart(Tail(stack)[i].path, Tail(stack)[j].path)
    BY <1>1 DEF StackApart
  <2>1. i + 1 # j + 1
    BY <1>1, TailElements
  <2> QED  BY <1>1, <2>1, TailElements DEF StackApart
<1>5. StackApartFromCodes'
  <2> SUFFICES ASSUME NEW i \in DOMAIN Tail(stack), NEW c \in DOMAIN bit_table'
               PROVE  Apart(Tail(stack)[i].path, bit_table'[c])
    BY <1>1 DEF StackApartFromCodes
  <2>1. CASE c = cp
    BY <1>1, <2>1, TailElements DEF StackApart
  <2>2. CASE c # cp
    BY <1>1, <2>2, TailElements DEF StackApartFromCodes
  <2> QED  BY <2>1, <2>2
<1> QED  BY <1>3, <1>4, <1>5

\* The paths of two children extend that of their parent.
LEMMA PathsInvVisitInner ==
  ASSUME TypeOK, PathsInv, VisitInner
  PROVE  PathsInv'
<1> USE DEF PathsInv
<1>1. stack # <<>> /\ bit_table' = bit_table
  BY DEF VisitInner
<1>2. /\ Top.path \in Seq(Bit) /\ 0 \in Bit /\ 1 \in Bit
      /\ \A i \in DOMAIN stack : stack[i].path \in Seq(Bit)
      /\ \A c \in DOMAIN bit_table : bit_table[c] \in Seq(Bit)
  <2>1. Top.path \in Seq(Bit) /\ 0 \in Bit /\ 1 \in Bit
    BY <1>1, TopType DEF Bit
  <2>2. \A i \in DOMAIN stack : stack[i] \in [node : Pointer, path : Seq(Bit)]
    BY LenProperties, ElementOfSeq DEF TypeOK
  <2> QED  BY <2>1, <2>2 DEF TypeOK
<1>3. /\ DOMAIN stack' = 1 .. (Len(stack) + 1)
      /\ stack'[1].path = Append(Top.path, 0)
      /\ stack'[2].path = Append(Top.path, 1)
      /\ \A i \in 3 .. (Len(stack) + 1) : stack'[i].path = stack[i - 1].path
  BY VisitInnerStack, LenProperties
<1>4. /\ Len(stack) \in Nat /\ DOMAIN stack = 1 .. Len(stack)
      /\ 1 \in DOMAIN stack /\ Top = stack[1]
  BY <1>1, TailElements
<1>5. \A i \in DOMAIN stack' :
        \/ i = 1 \/ i = 2
        \/ i \in 3 .. (Len(stack) + 1) /\ i - 1 \in DOMAIN stack /\ i - 1 # 1
  BY <1>3, <1>4
\* A sequence apart from the popped path is apart from both its extensions.
<1>6. ASSUME NEW t \in Seq(Bit), NEW b \in Bit, Apart(Top.path, t)
      PROVE  Apart(Append(Top.path, b), t) /\ Apart(t, Append(Top.path, b))
  BY <1>2, <1>6, ApartExtend
<1>7. StackApart'
  <2> SUFFICES ASSUME NEW i \in DOMAIN stack', NEW j \in DOMAIN stack', i # j
               PROVE  Apart(stack'[i].path, stack'[j].path)
    BY DEF StackApart
  <2>1. CASE i \in {1, 2} /\ j \in {1, 2}
    <3>1. /\ Apart(Append(Top.path, 0), Append(Top.path, 1))
          /\ Apart(Append(Top.path, 1), Append(Top.path, 0))
      BY <1>2, SiblingsApart
    <3>2. (i = 1 /\ j = 2) \/ (i = 2 /\ j = 1)
      BY <2>1
    <3> QED  BY <1>3, <3>1, <3>2
  <2>2. CASE i \in {1, 2} /\ j \notin {1, 2}
    <3>1. /\ j \in 3 .. (Len(stack) + 1)
          /\ j - 1 \in DOMAIN stack /\ j - 1 # 1
      BY <1>5, <2>2
    <3>2. Apart(Top.path, stack[j - 1].path)
      BY <1>4, <3>1 DEF StackApart
    <3> QED  BY <1>2, <1>3, <1>6, <2>2, <3>1, <3>2
  <2>3. CASE i \notin {1, 2} /\ j \in {1, 2}
    <3>1. /\ i \in 3 .. (Len(stack) + 1)
          /\ i - 1 \in DOMAIN stack /\ i - 1 # 1
      BY <1>5, <2>3
    <3>2. Apart(Top.path, stack[i - 1].path)
      BY <1>4, <3>1 DEF StackApart
    <3> QED  BY <1>2, <1>3, <1>6, <2>3, <3>1, <3>2
  <2>4. CASE i \notin {1, 2} /\ j \notin {1, 2}
    <3>1. /\ i \in 3 .. (Len(stack) + 1) /\ i - 1 \in DOMAIN stack
          /\ j \in 3 .. (Len(stack) + 1) /\ j - 1 \in DOMAIN stack
      BY <1>5, <2>4
    <3>2. i - 1 # j - 1
      BY <3>1
    <3> QED  BY <1>3, <3>1, <3>2 DEF StackApart
  <2> QED  BY <2>1, <2>2, <2>3, <2>4
<1>8. StackApartFromCodes'
  <2> SUFFICES ASSUME NEW i \in DOMAIN stack', NEW c \in DOMAIN bit_table
               PROVE  Apart(stack'[i].path, bit_table[c])
    BY <1>1 DEF StackApartFromCodes
  <2>1. CASE i \in {1, 2}
    <3>1. Apart(Top.path, bit_table[c])
      BY <1>4 DEF StackApartFromCodes
    <3> QED  BY <1>2, <1>3, <1>6, <2>1, <3>1
  <2>2. CASE i \notin {1, 2}
    <3>1. i \in 3 .. (Len(stack) + 1) /\ i - 1 \in DOMAIN stack
      BY <1>5, <2>2
    <3> QED  BY <1>3, <3>1 DEF StackApartFromCodes
  <2> QED  BY <2>1, <2>2
<1> QED  BY <1>1, <1>7, <1>8 DEF PrefixFree

\* Every step preserves the invariant of the paths.
LEMMA PathsInvStep == TypeInv /\ PathsInv /\ [Next]_vars => PathsInv'
<1> SUFFICES ASSUME TypeInv, PathsInv, [Next]_vars PROVE PathsInv'
  OBVIOUS
<1>0. TypeOK
  BY DEF TypeInv
<1>1. CASE GenerateTrivial BY <1>1, PathsInvGenerateTrivial
<1>2. CASE StartTraversal BY <1>2, PathsInvStartTraversal
<1>3. CASE VisitLeaf BY <1>0, <1>3, PathsInvVisitLeaf
<1>4. CASE VisitInner BY <1>0, <1>4, PathsInvVisitInner
<1>5. CASE UNCHANGED <<stack, bit_table>>
  BY <1>5 DEF PathsInv, PrefixFree, StackApart, StackApartFromCodes
<1> QED  BY <1>1, <1>2, <1>3, <1>4, <1>5
         DEF Next, PushLeaves, Merge, Return, vars

\* For every frequency table and at every moment of the traversal, no code
\* found so far begins another: the bits a compressor writes can be cut into
\* codes in one way only.
THEOREM PrefixFreeCorrect == Spec => []PrefixFree
<1>1. Spec => []TypeInv
  BY TypeInvInit, TypeInvStep, PTL DEF Spec
<1>2. Spec => []PathsInv
  BY <1>1, PathsInvInit, PathsInvStep, PTL DEF Spec
<1> QED  BY <1>2, PTL DEF PathsInv

-----------------------------------------------------------------------------
(* The order of the queues.  Ascending(second) is not inductive: that a    *)
(* new parent is not smaller than the last one follows from how the last   *)
(* one was made, as everything still queued is at least as large as either *)
(* of its children.                                                        *)

\* No node of queue f, and no node of queue s but its last, is smaller than n.
Bounds(n, f, s) ==
  /\ \A i \in DOMAIN f : nodes[n].count <= nodes[f[i]].count
  /\ \A i \in 1 .. (Len(s) - 1) : nodes[n].count <= nodes[s[i]].count

Newest == second[Len(second)]

NewestInv ==
  second # <<>> =>
    /\ nodes[Newest].left \in Pointer
    /\ nodes[Newest].right \in Pointer
    /\ nodes[Newest].count
         = nodes[nodes[Newest].left].count + nodes[nodes[Newest].right].count
    /\ Bounds(nodes[Newest].left, first, second)
    /\ Bounds(nodes[Newest].right, first, second)

OrderInv == QueuesAscending /\ NewestInv

\* A node has a count.
LEMMA NodeCounts ==
  ASSUME TypeOK
  PROVE  \A i \in Pointer : nodes[i].count \in Nat
  BY DEF TypeOK, IsHuffmanNode

\* The tail of an ascending queue is ascending and not below the head.
LEMMA AscendingTail ==
  ASSUME TypeOK, NEW q \in Seq(Pointer), q # <<>>, Ascending(q)
  PROVE  /\ Ascending(Tail(q))
         /\ Head(q) = q[1]
         /\ \A i \in DOMAIN q : nodes[Head(q)].count <= nodes[q[i]].count
         /\ DOMAIN Tail(q) = 1 .. (Len(q) - 1)
         /\ \A i \in DOMAIN Tail(q) : i + 1 \in DOMAIN q /\ Tail(q)[i] = q[i + 1]
<1>1. /\ Len(q) \in Nat /\ Len(q) >= 1 /\ DOMAIN q = 1 .. Len(q)
      /\ \A i \in 1 .. Len(q) : q[i] \in Pointer
  BY LenProperties, EmptySeq, ElementOfSeq
<1>2. /\ Tail(q) \in Seq(Pointer) /\ Len(Tail(q)) = Len(q) - 1
      /\ \A i \in 1 .. Len(Tail(q)) : Tail(q)[i] = q[i + 1]
  BY HeadTailProperties
<1>3. DOMAIN Tail(q) = 1 .. (Len(q) - 1)
  BY <1>2, LenProperties
<1>4. \A i \in DOMAIN Tail(q) : i + 1 \in DOMAIN q /\ Tail(q)[i] = q[i + 1]
  BY <1>1, <1>2, <1>3
<1>5. Ascending(Tail(q))
  <2> SUFFICES ASSUME NEW i \in DOMAIN Tail(q), NEW j \in DOMAIN Tail(q), i < j
               PROVE  nodes[Tail(q)[i]].count <= nodes[Tail(q)[j]].count
    BY DEF Ascending
  <2>1. i + 1 < j + 1
    BY <1>1, <1>3
  <2> QED  BY <1>4, <2>1 DEF Ascending
<1>6. Head(q) = q[1]
  OBVIOUS
<1>7. ASSUME NEW i \in DOMAIN q PROVE nodes[q[1]].count <= nodes[q[i]].count
  <2>1. CASE i = 1
    <3>1. nodes[q[1]].count \in Nat
      BY <1>1, NodeCounts
    <3> QED  BY <2>1, <3>1
  <2>2. CASE i # 1
    BY <1>1, <2>2 DEF Ascending
  <2> QED  BY <2>1, <2>2
<1> QED  BY <1>3, <1>4, <1>5, <1>6, <1>7

\* No node of queue q is smaller than n.
Below(n, q) == \A i \in DOMAIN q : nodes[n].count <= nodes[q[i]].count

\* What is popped is the smallest of both queues, which stay ascending.
LEMMA PopSmallestLeast ==
  ASSUME TypeOK, NEW f \in Seq(Pointer), NEW s \in Seq(Pointer),
         Queued(f, s) >= 1, Ascending(f), Ascending(s)
  PROVE  /\ Ascending(PopSmallest(f, s).first)
         /\ Ascending(PopSmallest(f, s).second)
         /\ Below(PopSmallest(f, s).result, PopSmallest(f, s).first)
         /\ Below(PopSmallest(f, s).result, PopSmallest(f, s).second)
<1>1. /\ Len(f) \in Nat /\ DOMAIN f = 1 .. Len(f)
      /\ Len(s) \in Nat /\ DOMAIN s = 1 .. Len(s)
      /\ \A i \in DOMAIN f : nodes[f[i]].count \in Nat
      /\ \A i \in DOMAIN s : nodes[s[i]].count \in Nat
  BY LenProperties, ElementOfSeq, NodeCounts
<1>2. CASE TakesFirst(f, s)
  <2>1. f # <<>> /\ 1 \in DOMAIN f
    BY <1>1, <1>2, EmptySeq DEF TakesFirst
  <2>2. Ascending(Tail(f)) /\ Below(Head(f), Tail(f)) /\ Head(f) = f[1]
    BY <2>1, AscendingTail DEF Below
  <2>3. Below(Head(f), s)
    <3>1. CASE s = <<>>
      BY <3>1 DEF Below
    <3>2. CASE s # <<>>
      <4>1. nodes[Head(f)].count < nodes[Head(s)].count
        BY <1>2, <3>2 DEF TakesFirst
      <4>2. /\ \A i \in DOMAIN s : nodes[Head(s)].count <= nodes[s[i]].count
            /\ Head(s) = s[1] /\ 1 \in DOMAIN s
        BY <1>1, <3>2, AscendingTail, EmptySeq
      <4>3. nodes[Head(f)].count \in Nat /\ nodes[Head(s)].count \in Nat
        BY <1>1, <2>1, <2>2, <4>2
      <4> QED  BY <1>1, <4>1, <4>2, <4>3 DEF Below
    <3> QED  BY <3>1, <3>2
  <2> QED  BY <1>2, <2>2, <2>3 DEF PopSmallest
<1>3. CASE ~ TakesFirst(f, s)
  <2>1. s # <<>> /\ 1 \in DOMAIN s
    BY <1>1, <1>3, EmptySeq DEF TakesFirst, Queued
  <2>2. Ascending(Tail(s)) /\ Below(Head(s), Tail(s)) /\ Head(s) = s[1]
    BY <2>1, AscendingTail DEF Below
  <2>3. Below(Head(s), f)
    <3>1. CASE f = <<>>
      BY <3>1 DEF Below
    <3>2. CASE f # <<>>
      <4>1. /\ \A i \in DOMAIN f : nodes[Head(f)].count <= nodes[f[i]].count
            /\ Head(f) = f[1] /\ 1 \in DOMAIN f
        BY <1>1, <3>2, AscendingTail, EmptySeq
      <4>2. nodes[Head(f)].count \in Nat /\ nodes[Head(s)].count \in Nat
        BY <1>1, <2>1, <2>2, <4>1
      <4>3. nodes[Head(s)].count <= nodes[Head(f)].count
        BY <1>3, <2>1, <3>2, <4>2 DEF TakesFirst
      <4> QED  BY <1>1, <4>1, <4>2, <4>3 DEF Below
    <3> QED  BY <3>1, <3>2
  <2> QED  BY <1>3, <2>2, <2>3 DEF PopSmallest
<1> QED  BY <1>2, <1>3

\* A lower bound of both queues stays one.
LEMMA PopSmallestBelow ==
  ASSUME TypeOK, NEW f \in Seq(Pointer), NEW s \in Seq(Pointer), NEW n,
         Queued(f, s) >= 1, Ascending(f), Ascending(s), Below(n, f), Below(n, s)
  PROVE  /\ Below(n, PopSmallest(f, s).first)
         /\ Below(n, PopSmallest(f, s).second)
<1>1. CASE TakesFirst(f, s)
  <2>1. f # <<>>
    BY <1>1 DEF TakesFirst
  <2>2. Below(n, Tail(f))
    BY <2>1, AscendingTail DEF Below
  <2> QED  BY <1>1, <2>2 DEF PopSmallest
<1>2. CASE ~ TakesFirst(f, s)
  <2>1. s # <<>>
    BY <1>2, LenProperties DEF TakesFirst, Queued
  <2>2. Below(n, Tail(s))
    BY <2>1, AscendingTail DEF Below
  <2> QED  BY <1>2, <2>2 DEF PopSmallest
<1> QED  BY <1>1, <1>2

\* A pop that leaves the last node of the second queue in place takes a node
\* that the bound of the others applies to.
LEMMA PopSmallestBounds ==
  ASSUME TypeOK, NEW f \in Seq(Pointer), NEW s \in Seq(Pointer), NEW n,
         Queued(f, s) >= 1, Ascending(f), Ascending(s), Bounds(n, f, s),
         PopSmallest(f, s).second # <<>>
  PROVE  /\ nodes[n].count <= nodes[PopSmallest(f, s).result].count
         /\ Bounds(n, PopSmallest(f, s).first, PopSmallest(f, s).second)
         /\ s # <<>>
         /\ PopSmallest(f, s).second[Len(PopSmallest(f, s).second)] = s[Len(s)]
<1>1. /\ Len(f) \in Nat /\ DOMAIN f = 1 .. Len(f)
      /\ Len(s) \in Nat /\ DOMAIN s = 1 .. Len(s)
  BY LenProperties
<1>2. CASE TakesFirst(f, s)
  <2>1. f # <<>> /\ 1 \in DOMAIN f
    BY <1>1, <1>2, EmptySeq DEF TakesFirst
  <2>2. /\ Head(f) = f[1]
        /\ \A i \in DOMAIN Tail(f) : i + 1 \in DOMAIN f /\ Tail(f)[i] = f[i + 1]
    BY <2>1, AscendingTail
  <2>3. Bounds(n, Tail(f), s) /\ nodes[n].count <= nodes[Head(f)].count
    BY <2>1, <2>2 DEF Bounds
  <2> QED  BY <1>2, <2>3 DEF PopSmallest
<1>3. CASE ~ TakesFirst(f, s)
  <2>1. s # <<>> /\ Len(s) >= 1
    BY <1>1, <1>3, EmptySeq DEF TakesFirst, Queued
  <2>2. /\ Head(s) = s[1]
        /\ Tail(s) \in Seq(Pointer)
        /\ Len(Tail(s)) = Len(s) - 1
        /\ \A i \in 1 .. (Len(s) - 1) : Tail(s)[i] = s[i + 1]
    BY <2>1, HeadTailProperties
  <2>3. Tail(s) # <<>>
    BY <1>3 DEF PopSmallest
  <2>4. Len(s) - 1 >= 1
    BY <1>1, <2>1, <2>2, <2>3, EmptySeq
  <2>5. nodes[n].count <= nodes[Head(s)].count
    BY <1>1, <2>2, <2>4 DEF Bounds
  <2>6. Tail(s)[Len(Tail(s))] = s[Len(s)]
    <3>1. Len(s) - 1 \in 1 .. (Len(s) - 1) /\ (Len(s) - 1) + 1 = Len(s)
      BY <1>1, <2>4
    <3> QED  BY <2>2, <3>1
  <2>7. Bounds(n, f, Tail(s))
    <3>1. \A i \in 1 .. (Len(Tail(s)) - 1) :
             i \in 1 .. (Len(s) - 1) /\ i + 1 \in 1 .. (Len(s) - 1)
      BY <1>1, <2>2
    <3> QED  BY <2>2, <3>1 DEF Bounds
  <2> QED  BY <1>3, <2>1, <2>5, <2>6, <2>7 DEF PopSmallest
<1> QED  BY <1>2, <1>3

\* A merge takes two nodes that nothing left in the queues is smaller than.
LEMMA MergeLeast ==
  ASSUME TypeOK, QueuesAscending, Merge
  PROVE  /\ Ascending(PopLeft.first) /\ Ascending(PopLeft.second)
         /\ Ascending(PopRight.first) /\ Ascending(PopRight.second)
         /\ \A n \in {PopLeft.result, PopRight.result} :
              Below(n, PopRight.first) /\ Below(n, PopRight.second)
<1>1. /\ first \in Seq(Pointer) /\ second \in Seq(Pointer)
      /\ Queued(first, second) >= 1
      /\ PopLeft.first \in Seq(Pointer) /\ PopLeft.second \in Seq(Pointer)
      /\ Queued(PopLeft.first, PopLeft.second) >= 1
  BY MergePops DEF TypeOK
<1>2. /\ Ascending(PopLeft.first) /\ Ascending(PopLeft.second)
      /\ Below(PopLeft.result, PopLeft.first)
      /\ Below(PopLeft.result, PopLeft.second)
  BY <1>1, PopSmallestLeast DEF PopLeft, QueuesAscending
<1>3. /\ Ascending(PopRight.first) /\ Ascending(PopRight.second)
      /\ Below(PopRight.result, PopRight.first)
      /\ Below(PopRight.result, PopRight.second)
  BY <1>1, <1>2, PopSmallestLeast DEF PopRight
<1>4. /\ Below(PopLeft.result, PopRight.first)
      /\ Below(PopLeft.result, PopRight.second)
  BY <1>1, <1>2, PopSmallestBelow DEF PopRight
<1> QED  BY <1>2, <1>3, <1>4

\* The new parent is not smaller than the last one, if that is still queued.
LEMMA MergeNotSmaller ==
  ASSUME TypeOK, OrderInv, Merge, PopRight.second # <<>>
  PROVE  /\ PopRight.second[Len(PopRight.second)] = Newest
         /\ nodes[Newest].count
              <= nodes[PopLeft.result].count + nodes[PopRight.result].count
<1>1. /\ first \in Seq(Pointer) /\ second \in Seq(Pointer)
      /\ Queued(first, second) >= 1
      /\ PopLeft.result \in Pointer /\ PopRight.result \in Pointer
      /\ PopLeft.first \in Seq(Pointer) /\ PopLeft.second \in Seq(Pointer)
      /\ Queued(PopLeft.first, PopLeft.second) >= 1
  BY MergePops DEF TypeOK
<1>2. /\ Ascending(first) /\ Ascending(second)
      /\ Ascending(PopLeft.first) /\ Ascending(PopLeft.second)
  BY MergeLeast DEF OrderInv, QueuesAscending
<1>3. PopLeft.second # <<>>
  BY <1>1 DEF PopRight, PopSmallest, TakesFirst, Queued
<1>4. second # <<>>
  BY <1>3 DEF PopLeft, PopSmallest, TakesFirst, Queued
<1>5. /\ nodes[Newest].left \in Pointer
      /\ nodes[Newest].right \in Pointer
      /\ nodes[Newest].count
           = nodes[nodes[Newest].left].count + nodes[nodes[Newest].right].count
      /\ Bounds(nodes[Newest].left, first, second)
      /\ Bounds(nodes[Newest].right, first, second)
  BY <1>4 DEF OrderInv, NewestInv
<1>6. ASSUME NEW n \in Pointer, Bounds(n, first, second)
      PROVE  /\ nodes[n].count <= nodes[PopLeft.result].count
             /\ nodes[n].count <= nodes[PopRight.result].count
             /\ PopRight.second[Len(PopRight.second)] = Newest
  <2>1. /\ nodes[n].count <= nodes[PopLeft.result].count
        /\ Bounds(n, PopLeft.first, PopLeft.second)
        /\ PopLeft.second[Len(PopLeft.second)] = Newest
    BY <1>1, <1>2, <1>3, <1>6, PopSmallestBounds DEF PopLeft, Newest
  <2>2. /\ nodes[n].count <= nodes[PopRight.result].count
        /\ PopRight.second[Len(PopRight.second)]
             = PopLeft.second[Len(PopLeft.second)]
    BY <1>1, <1>2, <2>1, PopSmallestBounds DEF PopRight
  <2> QED  BY <2>1, <2>2
<1>7. /\ nodes[nodes[Newest].left].count \in Nat
      /\ nodes[nodes[Newest].right].count \in Nat
      /\ nodes[PopLeft.result].count \in Nat
      /\ nodes[PopRight.result].count \in Nat
  BY <1>1, <1>5, NodeCounts
<1>8. /\ nodes[nodes[Newest].left].count <= nodes[PopLeft.result].count
      /\ nodes[nodes[Newest].right].count <= nodes[PopRight.result].count
      /\ PopRight.second[Len(PopRight.second)] = Newest
  BY <1>5, <1>6
<1>9. nodes[nodes[Newest].left].count + nodes[nodes[Newest].right].count
        <= nodes[PopLeft.result].count + nodes[PopRight.result].count
  BY <1>7, <1>8
<1> QED  BY <1>5, <1>8, <1>9

\* A merged node is not smaller than those merged before.
LEMMA OrderInvMerge ==
  ASSUME TypeInv, OrderInv, Merge
  PROVE  OrderInv'
<1> USE DEF TypeInv
<1> DEFINE L == PopLeft.result
           R == PopRight.result
           f == PopRight.first
           s == PopRight.second
           new == Len(nodes) + 1
<1>1. /\ L \in Pointer /\ R \in Pointer
      /\ f \in Seq(Pointer) /\ s \in Seq(Pointer)
  BY MergePops
<1>2. /\ Len(nodes) \in Nat
      /\ \A i \in Pointer : nodes'[i] = nodes[i] /\ nodes[i].count \in Nat
      /\ nodes'[new] = ParentNode(L, R)
  BY MergeNodes, NodeCounts
<1>3. /\ Ascending(f) /\ Ascending(s)
      /\ Below(L, f) /\ Below(L, s) /\ Below(R, f) /\ Below(R, s)
  BY MergeLeast DEF OrderInv
<1>4. /\ Len(f) \in Nat /\ DOMAIN f = 1 .. Len(f)
      /\ Len(s) \in Nat /\ DOMAIN s = 1 .. Len(s)
      /\ \A i \in DOMAIN f : f[i] \in Pointer
      /\ \A i \in DOMAIN s : s[i] \in Pointer
  BY <1>1, LenProperties, ElementOfSeq
<1>5. s # <<>> => nodes[s[Len(s)]].count <= nodes[L].count + nodes[R].count
  BY MergeNotSmaller
<1>6. first' = f
  BY DEF Merge
<1>7. /\ DOMAIN second' = 1 .. (Len(s) + 1)
      /\ Len(second') = Len(s) + 1
      /\ second'[Len(s) + 1] = new
      /\ \A i \in 1 .. Len(s) : second'[i] = s[i]
  <2>1. second' = Append(s, new)
    BY DEF Merge
  <2>2. s \in Seq(Nat) /\ new \in Nat
    BY <1>1, <1>2, SeqMonotonic DEF Pointer
  <2> QED  BY <2>1, <2>2, AppendProperties, LenProperties
<1>8. /\ nodes'[new].left = L /\ nodes'[new].right = R
      /\ nodes'[new].count = nodes[L].count + nodes[R].count
  BY <1>2 DEF ParentNode
<1> HIDE DEF L, R, f, s, new
<1>9. Ascending(first)'
  BY <1>2, <1>3, <1>4, <1>6 DEF Ascending
<1>10. Ascending(second)'
  <2> SUFFICES ASSUME NEW i \in DOMAIN second', NEW j \in DOMAIN second', i < j
               PROVE  nodes'[second'[i]].count <= nodes'[second'[j]].count
    BY DEF Ascending
  <2>1. i \in 1 .. Len(s) /\ second'[i] = s[i] /\ s[i] \in Pointer
    BY <1>4, <1>7
  <2>2. CASE j \in 1 .. Len(s)
    BY <1>2, <1>3, <1>4, <1>7, <2>1, <2>2 DEF Ascending
  <2>3. CASE j = Len(s) + 1
    <3>1. s # <<>> /\ Len(s) \in DOMAIN s /\ s[Len(s)] \in Pointer
      BY <1>4, <2>1
    <3>2. nodes[s[i]].count <= nodes[s[Len(s)]].count
      <4>1. CASE i = Len(s)
        BY <1>2, <2>1, <4>1
      <4>2. CASE i # Len(s)
        BY <1>3, <1>4, <2>1, <3>1, <4>2 DEF Ascending
      <4> QED  BY <4>1, <4>2
    <3>3. nodes[s[Len(s)]].count <= nodes[L].count + nodes[R].count
      BY <1>5, <3>1
    <3>4. /\ nodes[s[i]].count \in Nat /\ nodes[s[Len(s)]].count \in Nat
          /\ nodes[L].count + nodes[R].count \in Nat
      BY <1>1, <1>2, <2>1, <3>1
    <3>5. nodes[s[i]].count <= nodes'[new].count
      BY <1>8, <3>2, <3>3, <3>4
    <3> QED  BY <1>2, <1>7, <2>1, <2>3, <3>5
  <2> QED  BY <1>4, <1>7, <2>2, <2>3
<1>11. Pointer \subseteq Pointer'
  BY MergeNodes DEF Pointer
<1>12. ASSUME NEW n \in Pointer, Below(n, f), Below(n, s)
       PROVE  /\ \A i \in DOMAIN first' :
                    nodes'[n].count <= nodes'[first'[i]].count
              /\ \A i \in 1 .. (Len(second') - 1) :
                    nodes'[n].count <= nodes'[second'[i]].count
  <2>1. ASSUME NEW i \in DOMAIN first'
        PROVE  nodes'[n].count <= nodes'[first'[i]].count
    BY <1>2, <1>4, <1>6, <1>12 DEF Below
  <2>2. ASSUME NEW i \in 1 .. (Len(second') - 1)
        PROVE  nodes'[n].count <= nodes'[second'[i]].count
    BY <1>2, <1>4, <1>7, <1>12 DEF Below
  <2> QED  BY <2>1, <2>2
<1>13. NewestInv'
  <2>1. Newest' = new
    BY <1>7 DEF Newest
  <2>2. nodes'[L] = nodes[L] /\ nodes'[R] = nodes[R]
    BY <1>1, <1>2
  <2>3. \A n \in {L, R} :
          /\ \A i \in DOMAIN first' :
               nodes'[n].count <= nodes'[first'[i]].count
          /\ \A i \in 1 .. (Len(second') - 1) :
               nodes'[n].count <= nodes'[second'[i]].count
    BY <1>1, <1>3, <1>12
  <2> QED
    BY <1>1, <1>8, <1>11, <2>1, <2>2, <2>3 DEF NewestInv, Bounds
<1> QED  BY <1>9, <1>10, <1>13 DEF OrderInv, QueuesAscending

\* The queues are empty initially.
LEMMA OrderInvInit == Init => OrderInv
  BY DEF Init, OrderInv, QueuesAscending, Ascending, NewestInv

\* The leaves are queued in order.
LEMMA OrderInvPushLeaves ==
  ASSUME TypeInv, PushLeaves
  PROVE  OrderInv'
<1>1. table \in Tables /\ second' = <<>>
  BY DEF TypeInv, TypeOK, StartsEmpty, PushLeaves
<1>2. /\ DOMAIN table = 1 .. Len(table)
      /\ \A i, j \in DOMAIN table : i < j => table[i].count <= table[j].count
  BY <1>1, TableEntries, ConstantsAssumption DEF IsFrequencyTable
<1>3. /\ DOMAIN first' = 1 .. Len(table)
      /\ \A i \in 1 .. Len(table) :
           first'[i] = i /\ nodes'[i].count = table[i].count
  BY DEF PushLeaves, LeafNode
<1>4. Ascending(first)'
  BY <1>2, <1>3 DEF Ascending
<1>5. Ascending(second)'
  BY <1>1 DEF Ascending
<1> QED  BY <1>1, <1>4, <1>5 DEF OrderInv, QueuesAscending, NewestInv

\* Every step preserves the order of the queues.
LEMMA OrderInvStep == TypeInv /\ OrderInv /\ [Next]_vars => OrderInv'
<1> SUFFICES ASSUME TypeInv, OrderInv, [Next]_vars PROVE OrderInv'
  OBVIOUS
<1>1. CASE PushLeaves BY <1>1, OrderInvPushLeaves
<1>2. CASE Merge BY <1>2, OrderInvMerge
<1>3. CASE UNCHANGED <<nodes, first, second>>
  BY <1>3 DEF OrderInv, QueuesAscending, Ascending, NewestInv, Newest, Bounds,
              Pointer
<1> QED
  BY <1>1, <1>2, <1>3
  DEF Next, GenerateTrivial, StartTraversal, VisitLeaf, VisitInner, Return, vars

\* For every frequency table both queues stay sorted, although the code never
\* sorts the queue of parents.
THEOREM QueuesAscendingCorrect == Spec => []QueuesAscending
<1>1. Spec => []TypeInv
  BY TypeInvInit, TypeInvStep, PTL DEF Spec
<1>2. Spec => []OrderInv
  BY <1>1, OrderInvInit, OrderInvStep, PTL DEF Spec
<1> QED  BY <1>2, PTL DEF OrderInv

\* No node in the queues is smaller than the two that are merged.
LEMMA MergeTakesSmallest ==
  ASSUME TypeInv, OrderInv, Merge
  PROVE  LET parent == nodes'[Len(nodes')]
         IN \A q \in {first', second'} : \A i \in DOMAIN q :
              q[i] # Len(nodes') =>
                /\ nodes[q[i]].count >= nodes[parent.left].count
                /\ nodes[q[i]].count >= nodes[parent.right].count
<1> DEFINE f == PopRight.first
           s == PopRight.second
<1>1. /\ f \in Seq(Pointer) /\ s \in Seq(Pointer)
      /\ PopLeft.result \in Pointer /\ PopRight.result \in Pointer
  BY MergePops DEF TypeInv
<1>2. /\ Len(nodes) \in Nat
      /\ Len(nodes') = Len(nodes) + 1
      /\ nodes'[Len(nodes')].left = PopLeft.result
      /\ nodes'[Len(nodes')].right = PopRight.result
  BY MergeNodes DEF TypeInv, ParentNode
<1>3. \A n \in {PopLeft.result, PopRight.result} : Below(n, f) /\ Below(n, s)
  BY MergeLeast DEF TypeInv, OrderInv
<1>4. first' = f /\ second' = Append(s, Len(nodes'))
  BY <1>2 DEF Merge
<1>5. /\ DOMAIN f = 1 .. Len(f) /\ Len(f) \in Nat
      /\ DOMAIN s = 1 .. Len(s) /\ Len(s) \in Nat
      /\ \A i \in DOMAIN f : nodes[f[i]].count \in Nat
      /\ \A i \in DOMAIN s : nodes[s[i]].count \in Nat
      /\ \A n \in {PopLeft.result, PopRight.result} : nodes[n].count \in Nat
  BY <1>1, LenProperties, ElementOfSeq, NodeCounts DEF TypeInv
<1>6. \A i \in DOMAIN second' :
        second'[i] # Len(nodes') => i \in DOMAIN s /\ second'[i] = s[i]
  <2>1. s \in Seq(Nat) /\ Len(nodes') \in Nat
    BY <1>1, <1>2, SeqMonotonic DEF Pointer
  <2> QED  BY <1>4, <1>5, <2>1, AppendProperties, LenProperties
<1> HIDE DEF f, s
<1>7. ASSUME NEW n \in {PopLeft.result, PopRight.result}
      PROVE  /\ \A i \in DOMAIN f : nodes[f[i]].count >= nodes[n].count
             /\ \A i \in DOMAIN s : nodes[s[i]].count >= nodes[n].count
  BY <1>3, <1>5 DEF Below
<1> QED  BY <1>2, <1>4, <1>6, <1>7

\* For every frequency table each merge is the greedy choice: it takes two
\* nodes that no node left in a queue is smaller than.
THEOREM MergesTwoSmallestCorrect == Spec => MergesTwoSmallest
<1>1. Spec => []TypeInv
  BY TypeInvInit, TypeInvStep, PTL DEF Spec
<1>2. Spec => []OrderInv
  BY <1>1, OrderInvInit, OrderInvStep, PTL DEF Spec
<1> DEFINE Greedy ==
      pc = "merge" /\ Len(nodes') > Len(nodes) =>
        LET parent == nodes'[Len(nodes')]
        IN \A q \in {first', second'} : \A i \in DOMAIN q :
             q[i] # Len(nodes') =>
               /\ nodes[q[i]].count >= nodes[parent.left].count
               /\ nodes[q[i]].count >= nodes[parent.right].count
<1>3. TypeInv /\ OrderInv /\ [Next]_vars => [Greedy]_vars
  <2> SUFFICES ASSUME TypeInv, OrderInv, Next,
                      pc = "merge", Len(nodes') > Len(nodes)
               PROVE  Greedy
    OBVIOUS
  <2>1. Len(nodes) \in Nat
    BY LenProperties DEF TypeInv, TypeOK
  <2>2. Merge
    BY <2>1 DEF Next, GenerateTrivial, PushLeaves, StartTraversal, VisitLeaf,
                VisitInner, Return
  <2> QED  BY <2>2, MergeTakesSmallest
<1> QED  BY <1>1, <1>2, <1>3, PTL DEF Spec, MergesTwoSmallest

-----------------------------------------------------------------------------
(* The length of the codes.  A subtree of the tree outweighs the children  *)
(* of its sibling, since those were merged while it was still in a queue.  *)
(* So the counts on the way from a leaf to the root grow like the Fibonacci *)
(* numbers, and the count of the root is that of the whole table.          *)

\* Fibonacci is the sequence of its name.
LEMMA FibonacciProperties ==
  /\ Fibonacci[0] = 0 /\ Fibonacci[1] = 1 /\ Fibonacci[2] = 1
  /\ \A n \in Nat : /\ Fibonacci[n] \in Nat
                    /\ Fibonacci[n + 2] = Fibonacci[n + 1] + Fibonacci[n]
<1> DEFINE Rec(f) == f = [n \in Nat |-> IF n < 2 THEN n ELSE f[n - 1] + f[n - 2]]
           Pair == Nat \X Nat
           step == [p \in Nat \X Pair |-> <<p[2][2], p[2][1] + p[2][2]>>]
\* The function on pairs of consecutive numbers has a step of its own.
<1>1. /\ step \in [Nat \X Pair -> Pair]
      /\ \A n \in Nat, v \in Pair : step[<<n, v>>] = <<v[2], v[1] + v[2]>>
  OBVIOUS
<1>2. <<0, 1>> \in Pair /\ \A v \in Pair : v[1] \in Nat /\ v[2] \in Nat
  OBVIOUS
<1> HIDE DEF step, Pair
<1>3. PICK g \in [Nat -> Pair] : IsRecursive(g, <<0, 1>>, step)
  <2>1. step \in [Nat \X Pair -> Pair] /\ <<0, 1>> \in Pair
    BY <1>1, <1>2
  <2> QED  BY ONLY <2>1, RecursiveFunction
<1>4. \A n \in Nat : /\ g[n] \in Pair
                     /\ g[n + 1][1] = g[n][2]
                     /\ g[n + 1][2] = g[n][1] + g[n][2]
  <2> SUFFICES ASSUME NEW n \in Nat
               PROVE  /\ g[n] \in Pair
                      /\ g[n + 1][1] = g[n][2]
                      /\ g[n + 1][2] = g[n][1] + g[n][2]
    OBVIOUS
  <2>1. g[n] \in Pair /\ g[n + 1] = step[<<n, g[n]>>]
    BY <1>3 DEF IsRecursive
  <2>2. g[n + 1] = <<g[n][2], g[n][1] + g[n][2]>>
    BY <1>1, <2>1
  <2> QED  BY <2>1, <2>2
<1>5. g[0] = <<0, 1>>
  BY <1>3 DEF IsRecursive
<1> DEFINE f == [n \in Nat |-> g[n][1]]
<1>6. Rec(f)
  <2>1. ASSUME NEW n \in Nat
        PROVE  f[n] = IF n < 2 THEN n ELSE f[n - 1] + f[n - 2]
    <3>1. CASE n = 0
      BY <1>5, <3>1
    <3>2. CASE n = 1
      <4>1. g[0 + 1][1] = g[0][2]
        BY <1>4
      <4> QED  BY <1>5, <3>2, <4>1
    <3>3. CASE n >= 2
      <4>1. n - 2 \in Nat /\ n - 1 \in Nat /\ (n - 2) + 1 = n - 1 /\ (n - 1) + 1 = n
        BY <3>3
      <4>2. g[(n - 1) + 1][1] = g[n - 1][2]
        BY ONLY <1>4, <4>1
      <4>3. /\ g[(n - 2) + 1][2] = g[n - 2][1] + g[n - 2][2]
            /\ g[(n - 2) + 1][1] = g[n - 2][2]
        BY ONLY <1>4, <4>1
      <4>4. /\ g[n][1] = g[n - 2][1] + g[n - 1][1]
            /\ g[n - 2][1] \in Nat /\ g[n - 1][1] \in Nat
        BY <1>2, <1>4, <4>1, <4>2, <4>3
      <4>5. f[n] = g[n][1] /\ f[n - 1] = g[n - 1][1] /\ f[n - 2] = g[n - 2][1]
        BY <4>1
      <4> HIDE DEF f
      <4> QED  BY <3>3, <4>4, <4>5
    <3> QED  BY <3>1, <3>2, <3>3
  <2>2. f = [n \in Nat |-> f[n]]
    OBVIOUS
  <2> HIDE DEF f
  <2>3. [n \in Nat |-> f[n]]
          = [n \in Nat |-> IF n < 2 THEN n ELSE f[n - 1] + f[n - 2]]
    BY <2>1
  <2> QED  BY <2>2, <2>3
<1> HIDE DEF f
<1>7. Rec(Fibonacci)
  <2>1. Fibonacci = CHOOSE h : Rec(h)
    BY DEF Fibonacci
  <2> HIDE DEF Rec
  <2> QED  BY <1>6, <2>1
<1>8. \A n \in Nat :
        Fibonacci[n] = IF n < 2 THEN n ELSE Fibonacci[n - 1] + Fibonacci[n - 2]
  BY <1>7
<1> HIDE DEF Rec
<1>9. Fibonacci[0] = 0 /\ Fibonacci[1] = 1
  BY <1>8
<1>10. \A n \in Nat : Fibonacci[n + 2] = Fibonacci[n + 1] + Fibonacci[n]
  <2> SUFFICES ASSUME NEW n \in Nat
               PROVE  Fibonacci[n + 2] = Fibonacci[n + 1] + Fibonacci[n]
    OBVIOUS
  <2>1. /\ n + 2 \in Nat /\ ~ (n + 2 < 2)
        /\ (n + 2) - 1 = n + 1 /\ (n + 2) - 2 = n
    OBVIOUS
  <2>2. Fibonacci[n + 2] = IF n + 2 < 2 THEN n + 2
                           ELSE Fibonacci[(n + 2) - 1] + Fibonacci[(n + 2) - 2]
    BY <1>8, <2>1, Zenon
  <2> QED  BY <2>1, <2>2
<1> DEFINE T == {n \in Nat : Fibonacci[n] \in Nat /\ Fibonacci[n + 1] \in Nat}
<1>11. 0 \in T
  BY <1>9
<1>12. ASSUME NEW n \in Nat, n \in T PROVE n + 1 \in T
  <2>1. (n + 1) + 1 = n + 2
    OBVIOUS
  <2> QED  BY <1>10, <1>12, <2>1
<1> HIDE DEF T
<1>13. Nat \subseteq T
  BY <1>11, <1>12, SetInduction
<1>14. \A n \in Nat : Fibonacci[n] \in Nat
  BY <1>13 DEF T
<1>15. Fibonacci[2] = 1
  <2>1. Fibonacci[0 + 2] = Fibonacci[0 + 1] + Fibonacci[0]
    BY <1>10
  <2> QED  BY <1>9, <2>1
<1> QED  BY <1>9, <1>10, <1>14, <1>15

\* The next two steps down: what a node costs its children.
LEMMA Affordable ==
  ASSUME NEW F1 \in Nat, NEW F0 \in Nat, NEW x \in Nat \ {0}, NEW y \in Nat \ {0},
         NEW R \in Nat, F1 * (x + y) + F0 * x <= R
  PROVE  /\ (F1 + F0) + F1 <= R
         /\ \A z \in Nat : z <= y => (F1 + F0) * x + F1 * z <= R
<1>1. F1 * (x + y) = F1 * x + F1 * y
  BY SMT
<1>2. (F1 + F0) * x = F1 * x + F0 * x
  BY SMT
<1>3. \A a, b, c \in Nat : a <= b => c * a <= c * b
  BY SMT
<1> DEFINE p == F1 * x
           q == F1 * y
           r == F0 * x
<1>4. p \in Nat /\ q \in Nat /\ r \in Nat
  OBVIOUS
<1>5. F1 <= p /\ F1 <= q /\ F0 <= r
  <2>1. F1 * 1 <= F1 * x /\ F1 * 1 <= F1 * y /\ F0 * 1 <= F0 * x
    BY <1>3
  <2>2. F1 * 1 = F1 /\ F0 * 1 = F0
    OBVIOUS
  <2> QED  BY <2>1, <2>2
<1>6. p + q + r <= R
  BY <1>1
<1>7. (F1 + F0) + F1 <= R
  <2> HIDE DEF p, q, r
  <2> QED  BY <1>4, <1>5, <1>6
<1>8. ASSUME NEW z \in Nat, z <= y PROVE (F1 + F0) * x + F1 * z <= R
  <2> DEFINE t == F1 * z
             u == (F1 + F0) * x
  <2>1. t <= q /\ t \in Nat
    BY <1>3, <1>8
  <2>2. u = p + r
    BY <1>2
  <2> HIDE DEF p, q, r, t, u
  <2>3. u + t <= R
    BY <1>4, <1>6, <2>1, <2>2
  <2> QED  BY <2>3 DEF t, u
<1> QED  BY <1>7, <1>8

\* The nodes a node was merged from.
Children(i) ==
  IF IsLeaf(nodes[i]) THEN {} ELSE {nodes[i].left, nodes[i].right}

\* A node that a merge made is as large as its children together, either child
\* is at least as large as the children of the other one, and nothing in the
\* queues is smaller than its children.
Grown(i) ==
  ~ IsLeaf(nodes[i]) =>
    /\ nodes[i].count = nodes[nodes[i].left].count + nodes[nodes[i].right].count
    /\ \A c \in Children(nodes[i].left) :
         nodes[c].count <= nodes[nodes[i].right].count
    /\ \A c \in Children(nodes[i].right) :
         nodes[c].count <= nodes[nodes[i].left].count
    /\ \A c \in Children(i) : Below(c, first) /\ Below(c, second)

GrowthInv == \A i \in Pointer : Grown(i)

\* The children of a node are nodes.
LEMMA ChildrenType ==
  ASSUME TypeOK, NEW i \in Pointer
  PROVE  /\ Children(i) \subseteq Pointer
         /\ ~ IsLeaf(nodes[i]) => /\ nodes[i].left \in Pointer
                                  /\ nodes[i].right \in Pointer
                                  /\ Children(i) = {nodes[i].left, nodes[i].right}
<1>1. Len(nodes) \in Nat
  BY LenProperties DEF TypeOK
<1>2. ~ IsLeaf(nodes[i]) =>
        nodes[i].left \in 1 .. (i - 1) /\ nodes[i].right \in 1 .. (i - 1)
  BY DEF TypeOK, IsHuffmanNode
<1>3. 1 .. (i - 1) \subseteq Pointer
  BY <1>1 DEF Pointer
<1> QED  BY <1>2, <1>3 DEF Children

\* A lower bound of both queues is one of the node popped from them.
LEMMA PopSmallestAbove ==
  ASSUME TypeOK, NEW f \in Seq(Pointer), NEW s \in Seq(Pointer), NEW n,
         Queued(f, s) >= 1, Below(n, f), Below(n, s)
  PROVE  nodes[n].count <= nodes[PopSmallest(f, s).result].count
<1>1. /\ Len(f) \in Nat /\ DOMAIN f = 1 .. Len(f)
      /\ Len(s) \in Nat /\ DOMAIN s = 1 .. Len(s)
  BY LenProperties
<1>2. CASE TakesFirst(f, s)
  <2>1. 1 \in DOMAIN f /\ Head(f) = f[1]
    BY <1>1, <1>2, EmptySeq DEF TakesFirst
  <2> QED  BY <1>2, <2>1 DEF PopSmallest, Below
<1>3. CASE ~ TakesFirst(f, s)
  <2>1. 1 \in DOMAIN s /\ Head(s) = s[1]
    BY <1>1, <1>3, EmptySeq DEF TakesFirst, Queued
  <2> QED  BY <1>3, <2>1 DEF PopSmallest, Below
<1> QED  BY <1>2, <1>3

\* A lower bound of both queues is one of the nodes a merge takes and of the
\* nodes it leaves.
LEMMA MergeAbove ==
  ASSUME TypeOK, QueuesAscending, Merge,
         NEW n, Below(n, first), Below(n, second)
  PROVE  /\ nodes[n].count <= nodes[PopLeft.result].count
         /\ nodes[n].count <= nodes[PopRight.result].count
         /\ Below(n, PopRight.first) /\ Below(n, PopRight.second)
<1>1. /\ first \in Seq(Pointer) /\ second \in Seq(Pointer)
      /\ Queued(first, second) >= 1
      /\ PopLeft.first \in Seq(Pointer) /\ PopLeft.second \in Seq(Pointer)
      /\ Queued(PopLeft.first, PopLeft.second) >= 1
  BY MergePops DEF TypeOK
<1>2. /\ Ascending(first) /\ Ascending(second)
      /\ Ascending(PopLeft.first) /\ Ascending(PopLeft.second)
  BY MergeLeast DEF QueuesAscending
<1>3. /\ nodes[n].count <= nodes[PopLeft.result].count
      /\ Below(n, PopLeft.first) /\ Below(n, PopLeft.second)
  BY <1>1, <1>2, PopSmallestAbove, PopSmallestBelow DEF PopLeft
<1>4. /\ nodes[n].count <= nodes[PopRight.result].count
      /\ Below(n, PopRight.first) /\ Below(n, PopRight.second)
  BY <1>1, <1>2, <1>3, PopSmallestAbove, PopSmallestBelow DEF PopRight
<1> QED  BY <1>3, <1>4

\* A merge keeps what the nodes have grown by.
LEMMA GrowthInvMerge ==
  ASSUME TypeInv, OrderInv, GrowthInv, Merge
  PROVE  GrowthInv'
<1> USE DEF TypeInv
<1>0. PICK L, R, new : /\ L = PopLeft.result /\ R = PopRight.result
                       /\ new = Len(nodes) + 1
  OBVIOUS
<1> DEFINE f == PopRight.first
           s == PopRight.second
<1>1. /\ L \in Pointer /\ R \in Pointer
      /\ f \in Seq(Pointer) /\ s \in Seq(Pointer)
  BY <1>0, MergePops
<1>2. /\ Len(nodes) \in Nat /\ Len(nodes') = Len(nodes) + 1
      /\ \A i \in Pointer : nodes'[i] = nodes[i] /\ nodes[i].count \in Nat
      /\ nodes'[new] = ParentNode(L, R)
  BY <1>0, MergeNodes, NodeCounts
<1>3. /\ nodes'[new].left = L /\ nodes'[new].right = R
      /\ nodes'[new].count = nodes[L].count + nodes[R].count
  BY <1>2 DEF ParentNode
<1>4. Below(L, f) /\ Below(L, s) /\ Below(R, f) /\ Below(R, s)
  BY <1>0, MergeLeast DEF OrderInv
<1>5. ASSUME NEW n \in Pointer, Below(n, first), Below(n, second)
      PROVE  /\ nodes[n].count <= nodes[L].count
             /\ nodes[n].count <= nodes[R].count
             /\ Below(n, f) /\ Below(n, s)
  BY <1>0, <1>5, MergeAbove DEF OrderInv
<1>6. /\ DOMAIN f = 1 .. Len(f)
      /\ Len(s) \in Nat /\ DOMAIN s = 1 .. Len(s)
      /\ \A i \in DOMAIN f : f[i] \in Pointer
      /\ \A i \in DOMAIN s : s[i] \in Pointer
  BY <1>1, LenProperties, ElementOfSeq
<1>7. /\ first' = f
      /\ DOMAIN second' = 1 .. (Len(s) + 1)
      /\ second'[Len(s) + 1] = new
      /\ \A i \in 1 .. Len(s) : second'[i] = s[i]
  <2>1. first' = f /\ second' = Append(s, new)
    BY <1>0 DEF Merge
  <2>2. s \in Seq(Nat) /\ new \in Nat
    BY <1>0, <1>1, <1>2, SeqMonotonic DEF Pointer
  <2> QED  BY <2>1, <2>2, AppendProperties, LenProperties
<1>8. new \in Nat /\ new \notin Pointer /\ Pointer' = Pointer \union {new}
  BY <1>0, <1>2 DEF Pointer
<1> HIDE DEF f, s
\* What bounded the queues bounds them after the merge.
<1>9. ASSUME NEW n \in Pointer, Below(n, f), Below(n, s),
             nodes[n].count <= nodes[L].count + nodes[R].count
      PROVE  /\ \A i \in DOMAIN first' : nodes'[n].count <= nodes'[first'[i]].count
             /\ \A i \in DOMAIN second' : nodes'[n].count <= nodes'[second'[i]].count
  <2>1. ASSUME NEW i \in DOMAIN first'
        PROVE  nodes'[n].count <= nodes'[first'[i]].count
    BY <1>2, <1>6, <1>7, <1>9 DEF Below
  <2>2. ASSUME NEW i \in DOMAIN second'
        PROVE  nodes'[n].count <= nodes'[second'[i]].count
    <3>1. CASE i = Len(s) + 1
      BY <1>2, <1>3, <1>7, <1>9, <3>1
    <3>2. CASE i # Len(s) + 1
      <4>1. i \in DOMAIN s /\ second'[i] = s[i] /\ s[i] \in Pointer
        BY <1>6, <1>7, <3>2
      <4> QED  BY <1>2, <1>9, <4>1 DEF Below
    <3> QED  BY <3>1, <3>2
  <2> QED  BY <2>1, <2>2
<1>10. ASSUME NEW i \in Pointer
       PROVE  /\ Children(i) \subseteq Pointer
              /\ Children(i)' = Children(i)
              /\ nodes'[i] = nodes[i]
              /\ ~ IsLeaf(nodes[i]) => /\ nodes[i].left \in Pointer
                                       /\ nodes[i].right \in Pointer
  BY <1>2, ChildrenType DEF Children
<1>11. /\ nodes[L].count \in Nat /\ nodes[R].count \in Nat
       /\ \A i \in Pointer : \A c \in Children(i) : nodes[c].count \in Nat
  BY <1>1, <1>2, <1>10
<1>12. ASSUME NEW i \in Pointer
       PROVE  Grown(i)'
  <2> SUFFICES ASSUME ~ IsLeaf(nodes[i])
               PROVE  Grown(i)'
    BY <1>10 DEF Grown
  <2>0. PICK l, r : l = nodes[i].left /\ r = nodes[i].right
    OBVIOUS
  <2>1. /\ nodes[i].count = nodes[l].count + nodes[r].count
        /\ \A c \in Children(l) : nodes[c].count <= nodes[r].count
        /\ \A c \in Children(r) : nodes[c].count <= nodes[l].count
        /\ \A c \in Children(i) : Below(c, first) /\ Below(c, second)
    BY <2>0 DEF GrowthInv, Grown
  <2>2. /\ l \in Pointer /\ r \in Pointer
        /\ nodes'[i].left = l /\ nodes'[i].right = r
        /\ nodes'[i].count = nodes[i].count
        /\ nodes'[l] = nodes[l] /\ nodes'[r] = nodes[r]
    BY <1>10, <2>0
  <2>3. /\ \A c \in Children(l) : nodes'[c] = nodes[c]
        /\ \A c \in Children(r) : nodes'[c] = nodes[c]
        /\ Children(l)' = Children(l) /\ Children(r)' = Children(r)
    BY <1>10, <2>2
  <2>4. ASSUME NEW c \in Children(i)
        PROVE  /\ \A k \in DOMAIN first' :
                    nodes'[c].count <= nodes'[first'[k]].count
               /\ \A k \in DOMAIN second' :
                    nodes'[c].count <= nodes'[second'[k]].count
    <3>1. c \in Pointer /\ nodes[c].count \in Nat
      BY <1>10, <1>11
    <3>2. nodes[c].count <= nodes[L].count /\ Below(c, f) /\ Below(c, s)
      BY <1>5, <2>1, <3>1
    <3>3. nodes[c].count <= nodes[L].count + nodes[R].count
      BY <1>11, <3>1, <3>2
    <3> QED  BY <1>9, <3>1, <3>2, <3>3
  <2>5. \A c \in Children(i)' : Below(c, first)' /\ Below(c, second)'
    BY <1>10, <2>4 DEF Below
  <2> QED  BY <2>1, <2>2, <2>3, <2>5 DEF Grown
<1>13. Grown(new)'
  <2>1. Children(new)' \subseteq {L, R}
    BY <1>3 DEF Children
  <2>2. nodes'[L] = nodes[L] /\ nodes'[R] = nodes[R]
    BY <1>1, <1>2
  <2>3. ASSUME NEW x \in {L, R}, NEW c \in Children(x)
        PROVE  /\ nodes'[c].count <= nodes'[L].count
               /\ nodes'[c].count <= nodes'[R].count
    <3>1. x \in Pointer /\ ~ IsLeaf(nodes[x])
      BY <1>1 DEF Children
    <3>2. Below(c, first) /\ Below(c, second)
      BY <3>1 DEF GrowthInv, Grown
    <3>3. c \in Pointer
      BY <1>10, <3>1
    <3> QED  BY <1>2, <1>5, <2>2, <3>2, <3>3
  <2>4. Children(L)' = Children(L) /\ Children(R)' = Children(R)
    BY <1>1, <1>10
  <2>5. ASSUME NEW c \in {L, R}
        PROVE  /\ \A k \in DOMAIN first' :
                    nodes'[c].count <= nodes'[first'[k]].count
               /\ \A k \in DOMAIN second' :
                    nodes'[c].count <= nodes'[second'[k]].count
    <3>1. c \in Pointer /\ Below(c, f) /\ Below(c, s)
      BY <1>1, <1>4
    <3>2. nodes[c].count <= nodes[L].count + nodes[R].count
      BY <1>11
    <3> QED  BY <1>9, <3>1, <3>2
  <2>6. \A c \in Children(new)' : Below(c, first)' /\ Below(c, second)'
    BY <2>1, <2>5 DEF Below
  <2>7. /\ \A c \in Children(L)' : nodes'[c].count <= nodes'[R].count
        /\ \A c \in Children(R)' : nodes'[c].count <= nodes'[L].count
    BY <2>3, <2>4
  <2>8. nodes'[new].count = nodes'[L].count + nodes'[R].count
    BY <1>3, <2>2
  <2> QED  BY <1>3, <2>6, <2>7, <2>8 DEF Grown
<1> QED  BY <1>8, <1>12, <1>13 DEF GrowthInv

\* There are no nodes initially.
LEMMA GrowthInvInit == Init => GrowthInv
  BY DEF Init, GrowthInv, Pointer

\* Every step keeps what the nodes have grown by.
LEMMA GrowthInvStep ==
  TypeInv /\ OrderInv /\ GrowthInv /\ [Next]_vars => GrowthInv'
<1> SUFFICES ASSUME TypeInv, OrderInv, GrowthInv, [Next]_vars PROVE GrowthInv'
  OBVIOUS
<1>1. CASE PushLeaves
  <2>1. \A i \in Pointer' : IsLeaf(nodes'[i])
    <3>1. table \in Tables
      BY DEF TypeInv, TypeOK
    <3>2. Pointer' = 1 .. Len(table)
      BY <1>1, <3>1, TableEntries DEF PushLeaves, Pointer
    <3> QED  BY <1>1, <3>2 DEF PushLeaves, LeafNode, IsLeaf
  <2> QED  BY <2>1 DEF GrowthInv, Grown
<1>2. CASE Merge BY <1>2, GrowthInvMerge
<1>3. CASE UNCHANGED <<nodes, first, second>>
  BY <1>3 DEF GrowthInv, Grown, Children, Below, Pointer
<1> QED
  BY <1>1, <1>2, <1>3
  DEF Next, GenerateTrivial, StartTraversal, VisitLeaf, VisitInner, Return, vars

\* A sequence of numbers has a finite domain.
LEMMA SeqDomain ==
  ASSUME NEW c \in Seq(Nat)
  PROVE  /\ Len(c) \in Nat /\ DOMAIN c = 1 .. Len(c) /\ IsFiniteSet(DOMAIN c)
         /\ \A i \in DOMAIN c : c[i] \in Nat
<1>1. Len(c) \in Nat /\ DOMAIN c = 1 .. Len(c)
  BY LenProperties
<1>2. \A i \in 1 .. Len(c) : c[i] \in Nat
  BY ElementOfSeq
<1>3. 1 \in Int /\ Len(c) \in Int
  BY <1>1
<1>4. IsFiniteSet(1 .. Len(c))
  BY ONLY <1>3, FS_Interval
<1> QED  BY <1>1, <1>2, <1>4

\* The sum of a sequence of numbers.
SeqTotal(c) == Total(c, DOMAIN c)

\* It is that of the first number and the rest.
LEMMA SeqTotalProperties ==
  ASSUME NEW c \in Seq(Nat)
  PROVE  /\ SeqTotal(c) \in Nat
         /\ c = <<>> => SeqTotal(c) = 0
         /\ c # <<>> => SeqTotal(c) = c[1] + SeqTotal(Tail(c))
<1>1. /\ Len(c) \in Nat /\ DOMAIN c = 1 .. Len(c) /\ IsFiniteSet(DOMAIN c)
      /\ \A i \in DOMAIN c : c[i] \in Nat
  BY SeqDomain
<1>2. SeqTotal(c) \in Nat /\ (c = <<>> => SeqTotal(c) = 0)
  <2>1. c = <<>> => DOMAIN c = {}
    OBVIOUS
  <2> QED  BY <1>1, <2>1, TotalProperties DEF SeqTotal
<1>3. ASSUME c # <<>>
      PROVE  SeqTotal(c) = c[1] + SeqTotal(Tail(c))
  <2> DEFINE d == Tail(c)
  <2>1. /\ d \in Seq(Nat) /\ Len(d) = Len(c) - 1
        /\ \A i \in 1 .. Len(d) : d[i] = c[i + 1]
    BY <1>3, HeadTailProperties
  <2>2. DOMAIN d = 1 .. (Len(c) - 1) /\ 1 \in DOMAIN c
    BY <1>1, <1>3, <2>1, LenProperties, EmptySeq
  <2>3. Total(c, DOMAIN c) = c[1] + Total(c, DOMAIN c \ {1})
    BY <1>1, <2>2, TotalProperties
  <2> DEFINE b == [i \in DOMAIN d |-> i + 1]
  <2>4. DOMAIN c \ {1} = {b[i] : i \in DOMAIN d}
    <3>1. \A i \in DOMAIN c \ {1} : i - 1 \in DOMAIN d /\ (i - 1) + 1 = i
      BY <1>1, <2>2
    <3>2. \A i \in DOMAIN c \ {1} : i = b[i - 1]
      BY <3>1
    <3>3. \A i \in DOMAIN d : b[i] \in DOMAIN c \ {1}
      BY <1>1, <2>2
    <3> HIDE DEF b, d
    <3> QED  BY <3>1, <3>2, <3>3
  <2>5. /\ IsFiniteSet(DOMAIN d)
        /\ \A i \in DOMAIN d : c[b[i]] \in Nat /\ d[i] = c[b[i]]
        /\ \A i, j \in DOMAIN d : b[i] = b[j] => i = j
    <3>1. IsFiniteSet(DOMAIN d)
      BY <2>1, SeqDomain
    <3>2. \A i \in DOMAIN d : i \in Nat /\ b[i] = i + 1 /\ b[i] \in DOMAIN c
      BY <1>1, <2>2
    <3> QED  BY <1>1, <2>1, <2>2, <3>1, <3>2
  <2> HIDE DEF b, d
  <2>6. Total(d, DOMAIN d) = Total(c, {b[i] : i \in DOMAIN d})
    BY <2>5, TotalRenamed
  <2> QED  BY <2>3, <2>4, <2>6 DEF SeqTotal, d
<1> QED  BY <1>2, <1>3

\* A number appended is a number more.
LEMMA SeqTotalAppend ==
  ASSUME NEW c \in Seq(Nat), NEW e \in Nat, NEW more, more = Append(c, e)
  PROVE  SeqTotal(more) = SeqTotal(c) + e
<1>1. /\ Len(c) \in Nat /\ DOMAIN c = 1 .. Len(c) /\ IsFiniteSet(DOMAIN c)
      /\ \A i \in DOMAIN c : c[i] \in Nat
  BY SeqDomain
<1>2. /\ more \in Seq(Nat) /\ Len(more) = Len(c) + 1
      /\ more[Len(c) + 1] = e
      /\ \A i \in 1 .. Len(c) : more[i] = c[i]
  BY AppendProperties
<1> DEFINE x == Len(c) + 1
           S == DOMAIN c
<1>3. /\ DOMAIN more = S \union {x}
      /\ \A i \in S \ {x} : more[i] = c[i]
      /\ more[x] = (IF x \in S THEN c[x] ELSE 0) + e
  BY <1>1, <1>2, LenProperties
<1>4. IsFiniteSet(S) /\ \A i \in S : c[i] \in Nat
  BY <1>1
<1> HIDE DEF x, S
<1>5. Total(more, S \union {x}) = Total(c, S) + e
  BY ONLY <1>3, <1>4, e \in Nat, TotalGrows
<1> QED  BY <1>3, <1>5 DEF SeqTotal, S

\* The counts in a table, and the sum of them that the properties speak of.
TableCounts(t) == [i \in DOMAIN t |-> t[i].count]

LEMMA TotalCountSum ==
  ASSUME NEW t, IsFiniteSet(DOMAIN t), \A i \in DOMAIN t : t[i].count \in Nat
  PROVE  TotalCount(t) = SeqTotal(TableCounts(t))
<1> DEFINE f == TableCounts(t)
<1>1. DOMAIN f = DOMAIN t /\ \A i \in DOMAIN t : f[i] \in Nat
  BY DEF TableCounts
<1>2. TotalCount(t) = SumFunction(f)
  BY DEF TotalCount, TableCounts
<1> HIDE DEF f
<1>3. SumFunction(f) = Total(f, DOMAIN f)
  BY <1>1, SumFunctionTotal
<1> QED  BY <1>2, <1>3 DEF SeqTotal, f

\* The counts of the nodes in a queue.
Counts(q) == [i \in DOMAIN q |-> nodes[q[i]].count]

\* Nothing is lost between the queues: together they hold the whole table.
SumInv ==
  pc = "merge" =>
    SeqTotal(Counts(first)) + SeqTotal(Counts(second))
      = SeqTotal(TableCounts(table))

\* They are a sequence of numbers like the queue.
LEMMA CountsProperties ==
  ASSUME TypeOK, NEW q \in Seq(Pointer)
  PROVE  /\ Counts(q) \in Seq(Nat)
         /\ SeqTotal(Counts(q)) \in Nat
         /\ q = <<>> => SeqTotal(Counts(q)) = 0
         /\ q # <<>> => SeqTotal(Counts(q))
                          = nodes[Head(q)].count + SeqTotal(Counts(Tail(q)))
<1>1. /\ Len(q) \in Nat /\ DOMAIN q = 1 .. Len(q)
      /\ \A i \in 1 .. Len(q) : nodes[q[i]].count \in Nat
  BY LenProperties, ElementOfSeq, NodeCounts
<1>2. /\ Counts(q) \in Seq(Nat) /\ Len(Counts(q)) = Len(q)
      /\ \A i \in 1 .. Len(q) : Counts(q)[i] = nodes[q[i]].count
  BY <1>1 DEF Counts
<1>3. SeqTotal(Counts(q)) \in Nat /\ (q = <<>> => SeqTotal(Counts(q)) = 0)
  <2>1. q = <<>> => Counts(q) = <<>>
    BY <1>2, EmptySeq
  <2> QED  BY <1>2, <2>1, SeqTotalProperties
<1>4. ASSUME q # <<>>
      PROVE  SeqTotal(Counts(q)) = nodes[Head(q)].count + SeqTotal(Counts(Tail(q)))
  <2>1. /\ Tail(q) \in Seq(Pointer) /\ Len(Tail(q)) = Len(q) - 1
        /\ \A i \in 1 .. Len(Tail(q)) : Tail(q)[i] = q[i + 1]
        /\ Head(q) = q[1]
        /\ Len(q) >= 1
    BY <1>1, <1>4, HeadTailProperties, EmptySeq
  <2>2. DOMAIN Tail(q) = 1 .. (Len(q) - 1)
    BY <2>1, LenProperties
  <2>3. /\ Counts(q) # <<>> /\ Tail(Counts(q)) \in Seq(Nat)
        /\ Len(Tail(Counts(q))) = Len(q) - 1
        /\ \A i \in 1 .. (Len(q) - 1) : Tail(Counts(q))[i] = Counts(q)[i + 1]
    <3>1. Counts(q) # <<>>
      BY <1>2, <2>1, EmptySeq
    <3> DEFINE c == Counts(q)
    <3> HIDE DEF c
    <3>2. /\ Tail(c) \in Seq(Nat) /\ Len(Tail(c)) = Len(c) - 1
          /\ \A i \in 1 .. Len(Tail(c)) : Tail(c)[i] = c[i + 1]
      BY <1>2, <3>1, HeadTailProperties DEF c
    <3> QED  BY <1>2, <3>1, <3>2 DEF c
  <2>4. /\ Counts(Tail(q)) \in Seq(Nat) /\ Len(Counts(Tail(q))) = Len(q) - 1
        /\ \A i \in 1 .. (Len(q) - 1) : Counts(Tail(q))[i] = nodes[q[i + 1]].count
    <3>1. \A i \in 1 .. (Len(q) - 1) :
             Tail(q)[i] = q[i + 1] /\ nodes[q[i + 1]].count \in Nat
      BY <1>1, <2>1
    <3>2. Len(q) - 1 \in Nat
      BY <1>1, <2>1
    <3> QED  BY <2>2, <3>1, <3>2 DEF Counts
  <2>5. \A i \in 1 .. (Len(q) - 1) : Tail(Counts(q))[i] = Counts(Tail(q))[i]
    <3>1. \A i \in 1 .. (Len(q) - 1) : i + 1 \in 1 .. Len(q)
      BY <1>1
    <3> QED  BY <1>2, <2>3, <2>4, <3>1
  <2>6. Tail(Counts(q)) = Counts(Tail(q))
    <3> DEFINE c == Tail(Counts(q))
               d == Counts(Tail(q))
    <3>1. /\ c \in Seq(Nat) /\ d \in Seq(Nat) /\ Len(c) = Len(d)
          /\ \A i \in 1 .. Len(c) : c[i] = d[i]
      BY <2>3, <2>4, <2>5
    <3> HIDE DEF c, d
    <3>2. c = d
      BY <3>1, SeqEqual
    <3> QED  BY <3>2 DEF c, d
  <2>7. Counts(q)[1] = nodes[Head(q)].count
    BY <1>1, <1>2, <2>1
  <2> QED  BY <1>2, <2>3, <2>6, <2>7, SeqTotalProperties
<1> QED  BY <1>2, <1>3, <1>4

\* A pop takes from the queues what it returns.
LEMMA PopSmallestSum ==
  ASSUME TypeOK, NEW f \in Seq(Pointer), NEW s \in Seq(Pointer),
         Queued(f, s) >= 1
  PROVE  SeqTotal(Counts(f)) + SeqTotal(Counts(s))
           = nodes[PopSmallest(f, s).result].count
             + (SeqTotal(Counts(PopSmallest(f, s).first))
                + SeqTotal(Counts(PopSmallest(f, s).second)))
<1>1. Len(f) \in Nat /\ Len(s) \in Nat
  BY LenProperties
<1>2. CASE TakesFirst(f, s)
  <2>1. f # <<>>
    BY <1>2 DEF TakesFirst
  <2>2. Head(f) \in Pointer /\ Tail(f) \in Seq(Pointer)
    BY <2>1, HeadTailProperties
  <2>3. /\ nodes[Head(f)].count \in Nat
        /\ SeqTotal(Counts(Tail(f))) \in Nat /\ SeqTotal(Counts(s)) \in Nat
        /\ SeqTotal(Counts(f)) = nodes[Head(f)].count + SeqTotal(Counts(Tail(f)))
    BY <2>1, <2>2, CountsProperties, NodeCounts
  <2>4. /\ PopSmallest(f, s).result = Head(f)
        /\ PopSmallest(f, s).first = Tail(f)
        /\ PopSmallest(f, s).second = s
    BY <1>2 DEF PopSmallest
  <2> QED  BY <2>3, <2>4
<1>3. CASE ~ TakesFirst(f, s)
  <2>1. s # <<>>
    BY <1>1, <1>3 DEF TakesFirst, Queued
  <2>2. Head(s) \in Pointer /\ Tail(s) \in Seq(Pointer)
    BY <2>1, HeadTailProperties
  <2>3. /\ nodes[Head(s)].count \in Nat
        /\ SeqTotal(Counts(Tail(s))) \in Nat /\ SeqTotal(Counts(f)) \in Nat
        /\ SeqTotal(Counts(s)) = nodes[Head(s)].count + SeqTotal(Counts(Tail(s)))
    BY <2>1, <2>2, CountsProperties, NodeCounts
  <2>4. /\ PopSmallest(f, s).result = Head(s)
        /\ PopSmallest(f, s).first = f
        /\ PopSmallest(f, s).second = Tail(s)
    BY <1>3 DEF PopSmallest
  <2> QED  BY <2>3, <2>4
<1> QED  BY <1>2, <1>3

\* A merge keeps the sum: the parent counts for its two children.
LEMMA SumInvMerge ==
  ASSUME TypeInv, SumInv, Merge
  PROVE  SumInv'
<1> USE DEF TypeInv
<1> DEFINE L == PopLeft.result
           R == PopRight.result
           f == PopRight.first
           s == PopRight.second
           new == Len(nodes) + 1
           e == nodes[L].count + nodes[R].count
<1>1. /\ first \in Seq(Pointer) /\ second \in Seq(Pointer)
      /\ Queued(first, second) >= 1
      /\ PopLeft.first \in Seq(Pointer) /\ PopLeft.second \in Seq(Pointer)
      /\ Queued(PopLeft.first, PopLeft.second) >= 1
      /\ L \in Pointer /\ R \in Pointer
      /\ f \in Seq(Pointer) /\ s \in Seq(Pointer)
  BY MergePops DEF TypeOK
<1>2. /\ Len(nodes) \in Nat
      /\ \A i \in Pointer : nodes'[i] = nodes[i] /\ nodes[i].count \in Nat
      /\ nodes'[new] = ParentNode(L, R)
      /\ nodes'[new].count = e
      /\ e \in Nat
  BY <1>1, MergeNodes, NodeCounts DEF ParentNode
<1>3. SeqTotal(Counts(first)) + SeqTotal(Counts(second))
        = SeqTotal(TableCounts(table))
  BY DEF SumInv, Merge
<1>4. SeqTotal(Counts(f)) + SeqTotal(Counts(s)) + e
        = SeqTotal(Counts(first)) + SeqTotal(Counts(second))
  <2>1. SeqTotal(Counts(first)) + SeqTotal(Counts(second))
          = nodes[L].count + (SeqTotal(Counts(PopLeft.first))
                              + SeqTotal(Counts(PopLeft.second)))
    BY <1>1, PopSmallestSum DEF PopLeft
  <2>2. SeqTotal(Counts(PopLeft.first)) + SeqTotal(Counts(PopLeft.second))
          = nodes[R].count + (SeqTotal(Counts(f)) + SeqTotal(Counts(s)))
    BY <1>1, PopSmallestSum DEF PopRight
  <2>3. /\ SeqTotal(Counts(f)) \in Nat /\ SeqTotal(Counts(s)) \in Nat
        /\ nodes[L].count \in Nat /\ nodes[R].count \in Nat
    BY <1>1, <1>2, CountsProperties
  <2> HIDE DEF L, R, f, s
  <2> QED  BY <2>1, <2>2, <2>3 DEF e
<1>5. /\ Counts(f) \in Seq(Nat) /\ Counts(s) \in Seq(Nat)
      /\ SeqTotal(Counts(f)) \in Nat /\ SeqTotal(Counts(s)) \in Nat
      /\ DOMAIN f = 1 .. Len(f)
      /\ DOMAIN s = 1 .. Len(s) /\ Len(s) \in Nat
      /\ \A i \in DOMAIN f : f[i] \in Pointer
      /\ \A i \in DOMAIN s : s[i] \in Pointer
  BY <1>1, CountsProperties, LenProperties, ElementOfSeq
<1>6. /\ pc' = "merge" /\ table' = table /\ first' = f
      /\ DOMAIN second' = 1 .. (Len(s) + 1)
      /\ second'[Len(s) + 1] = new
      /\ \A i \in 1 .. Len(s) : second'[i] = s[i]
  <2>1. /\ pc' = "merge" /\ table' = table /\ first' = f
        /\ second' = Append(s, new)
    BY DEF Merge
  <2>2. s \in Seq(Nat) /\ new \in Nat
    BY <1>1, <1>2, SeqMonotonic DEF Pointer
  <2> QED  BY <2>1, <2>2, AppendProperties, LenProperties
<1> HIDE DEF L, R, f, s, new, e
<1>7. Counts(first)' = Counts(f)
  <2>1. Counts(first)' = [i \in DOMAIN f |-> nodes'[f[i]].count]
    BY <1>6 DEF Counts
  <2>2. \A i \in DOMAIN f : nodes'[f[i]].count = nodes[f[i]].count
    BY <1>2, <1>5
  <2> QED  BY <2>1, <2>2 DEF Counts
<1>8. Counts(second)' = Append(Counts(s), e)
  <2> DEFINE c == Counts(s)
             d == Counts(second)'
             a == Append(c, e)
  <2>1. /\ DOMAIN d = 1 .. (Len(s) + 1)
        /\ \A i \in 1 .. Len(s) : d[i] = nodes'[s[i]].count
        /\ d[Len(s) + 1] = nodes'[new].count
    BY <1>5, <1>6 DEF Counts
  <2>2. \A i \in 1 .. Len(s) : d[i] = c[i]
    <3>1. \A i \in 1 .. Len(s) : c[i] = nodes[s[i]].count
      BY <1>5 DEF Counts
    <3> QED  BY <1>2, <1>5, <2>1, <3>1
  <2>3. Len(c) = Len(s)
    <3>1. DOMAIN c = 1 .. Len(s)
      BY <1>5 DEF Counts
    <3> HIDE DEF c
    <3> QED  BY <1>5, <3>1 DEF c
  <2>4. d = [i \in DOMAIN d |-> d[i]]
    BY DEF Counts
  <2> HIDE DEF d
  <2>5. /\ a \in Seq(Nat) /\ Len(a) = Len(s) + 1 /\ a[Len(s) + 1] = e
        /\ \A i \in 1 .. Len(s) : a[i] = c[i]
    <3>1. c \in Seq(Nat)
      BY <1>5
    <3> HIDE DEF c
    <3> QED  BY <1>2, <2>3, <3>1, AppendProperties
  <2> HIDE DEF a, c
  <2>6. DOMAIN a = 1 .. (Len(s) + 1) /\ a = [i \in DOMAIN a |-> a[i]]
    BY <2>5, LenProperties
  <2>7. ASSUME NEW i \in 1 .. (Len(s) + 1) PROVE d[i] = a[i]
    <3>1. i \in 1 .. Len(s) \/ i = Len(s) + 1
      BY <1>5
    <3>2. d[Len(s) + 1] = a[Len(s) + 1]
      BY <1>2, <2>1, <2>5
    <3> QED  BY <2>2, <2>5, <3>1, <3>2
  <2>8. d = a
    BY <2>1, <2>4, <2>6, <2>7
  <2> QED  BY <2>8 DEF d, a, c
<1>9. SeqTotal(Counts(second)') = SeqTotal(Counts(s)) + e
  BY <1>2, <1>5, <1>8, SeqTotalAppend
<1>10. SeqTotal(Counts(first)') + SeqTotal(Counts(second)')
         = SeqTotal(TableCounts(table'))
  <2>1. SeqTotal(Counts(f)) + (SeqTotal(Counts(s)) + e)
          = SeqTotal(Counts(f)) + SeqTotal(Counts(s)) + e
    BY <1>2, <1>5
  <2> QED  BY <1>3, <1>4, <1>6, <1>7, <1>9, <2>1
<1> QED  BY <1>10 DEF SumInv

\* The call has no queues initially.
LEMMA SumInvInit == Init => SumInv
  BY DEF Init, SumInv

\* Every step keeps the sum.
LEMMA SumInvStep == TypeInv /\ SumInv /\ [Next]_vars => SumInv'
<1> SUFFICES ASSUME TypeInv, SumInv, [Next]_vars PROVE SumInv'
  OBVIOUS
<1>1. CASE PushLeaves
  <2>1. table \in Tables /\ second = <<>>
    BY <1>1 DEF TypeInv, TypeOK, StartsEmpty, PushLeaves
  <2>2. /\ DOMAIN table = 1 .. Len(table)
        /\ \A i \in DOMAIN table : table[i] \in TableNode
    BY <2>1, TableEntries
  <2>3. /\ table' = table /\ second' = <<>>
        /\ DOMAIN first' = DOMAIN table
        /\ \A i \in DOMAIN table :
             first'[i] = i /\ nodes'[i].count = table[i].count
    BY <1>1, <2>1, <2>2 DEF PushLeaves, LeafNode
  <2>4. Counts(first)' = TableCounts(table)
    BY <2>3 DEF Counts, TableCounts
  <2>5. Counts(second)' = <<>>
    BY <2>3 DEF Counts
  <2>6. TableCounts(table) \in Seq(Nat)
    <3>1. \A i \in 1 .. Len(table) : table[i].count \in Nat
      BY <2>2 DEF TableNode
    <3>2. Len(table) \in Nat
      BY <2>1, TableEntries
    <3> QED  BY <2>2, <3>1, <3>2 DEF TableCounts
  <2>7. /\ SeqTotal(TableCounts(table)) \in Nat
        /\ SeqTotal(<<>>) = 0
    <3>1. <<>> \in Seq(Nat)
      OBVIOUS
    <3> QED  BY <2>6, <3>1, SeqTotalProperties
  <2>8. SeqTotal(Counts(first)') + SeqTotal(Counts(second)')
          = SeqTotal(TableCounts(table'))
    BY <2>3, <2>4, <2>5, <2>7
  <2> QED  BY <2>8 DEF SumInv
<1>2. CASE Merge BY <1>2, SumInvMerge
<1>3. CASE pc' # "merge"
  BY <1>3 DEF SumInv
<1>4. CASE UNCHANGED vars
  BY <1>4 DEF SumInv, Counts, TableCounts, SeqTotal, vars
<1> QED
  BY <1>1, <1>2, <1>3, <1>4
  DEF Next, GenerateTrivial, StartTraversal, VisitLeaf, VisitInner, Return, vars

\* A node k steps below the root leaves enough of the whole count for the
\* levels that its subtree may still have.
Affords(i, k) ==
  LET total == SeqTotal(TableCounts(table))
  IN /\ IsLeaf(nodes[i]) => Fibonacci[k + 2] <= total
     /\ \A c \in Children(i) :
          Fibonacci[k + 1] * nodes[i].count + Fibonacci[k] * nodes[c].count
            <= total

\* The paths on the stack and the codes found are no longer than the count of
\* the table allows.
DepthInv ==
  Len(table) > 1 =>
    /\ \A j \in DOMAIN stack : \A i, k :
         stack[j].node = i /\ Len(stack[j].path) = k => Affords(i, k)
    /\ \A c \in DOMAIN bit_table :
         Fibonacci[Len(bit_table[c]) + 2] <= SeqTotal(TableCounts(table))

\* The counts of a table.
LEMMA TableTotal ==
  ASSUME NEW t \in Tables
  PROVE  /\ TotalCount(t) = SeqTotal(TableCounts(t))
         /\ SeqTotal(TableCounts(t)) \in Nat
<1>1. /\ Len(t) \in Nat /\ DOMAIN t = 1 .. Len(t)
      /\ \A i \in DOMAIN t : t[i].count \in Nat
  BY TableEntries DEF TableNode
<1>2. TableCounts(t) \in Seq(Nat) /\ DOMAIN TableCounts(t) = DOMAIN t
  BY <1>1 DEF TableCounts
<1>3. IsFiniteSet(DOMAIN t)
  BY <1>2, SeqDomain
<1>4. TotalCount(t) = SeqTotal(TableCounts(t))
  BY <1>1, <1>3, TotalCountSum
<1> QED  BY <1>2, <1>4, SeqTotalProperties

\* What a node affords it passes on to either child.
LEMMA AffordsChild ==
  ASSUME TypeOK, GrowthInv, NEW i \in Pointer, NEW k \in Nat, Affords(i, k),
         NEW c \in Children(i)
  PROVE  Affords(c, k + 1)
<1> DEFINE total == SeqTotal(TableCounts(table))
           F0 == Fibonacci[k]
           F1 == Fibonacci[k + 1]
<1>1. total \in Nat
  BY TableTotal DEF TypeOK
<1>2. /\ F0 \in Nat /\ F1 \in Nat
      /\ Fibonacci[k + 2] = F1 + F0
      /\ Fibonacci[(k + 1) + 1] = F1 + F0
      /\ Fibonacci[(k + 1) + 2] = (F1 + F0) + F1
  <2>1. k + 1 \in Nat /\ (k + 1) + 1 = k + 2
    OBVIOUS
  <2>2. /\ F0 \in Nat /\ F1 \in Nat /\ Fibonacci[k + 2] = F1 + F0
        /\ Fibonacci[(k + 1) + 2] = Fibonacci[(k + 1) + 1] + F1
    BY ONLY <2>1, k \in Nat, FibonacciProperties
  <2> QED  BY ONLY <2>1, <2>2
<1>3. /\ ~ IsLeaf(nodes[i])
      /\ nodes[i].left \in Pointer /\ nodes[i].right \in Pointer
      /\ Children(i) = {nodes[i].left, nodes[i].right}
  BY ChildrenType DEF Children
<1>4. PICK b \in Pointer :
        /\ nodes[i].count = nodes[c].count + nodes[b].count
        /\ \A z \in Children(c) : nodes[z].count <= nodes[b].count
  <2>1. /\ nodes[i].count = nodes[nodes[i].left].count + nodes[nodes[i].right].count
        /\ \A z \in Children(nodes[i].left) :
             nodes[z].count <= nodes[nodes[i].right].count
        /\ \A z \in Children(nodes[i].right) :
             nodes[z].count <= nodes[nodes[i].left].count
    BY <1>3 DEF GrowthInv, Grown
  <2>2. CASE c = nodes[i].left
    BY <1>3, <2>1, <2>2
  <2>3. CASE c = nodes[i].right
    <3>1. /\ nodes[nodes[i].left].count \in Nat
          /\ nodes[nodes[i].right].count \in Nat
      BY <1>3, NodeCounts
    <3>2. nodes[i].count = nodes[c].count + nodes[nodes[i].left].count
      BY <2>1, <2>3, <3>1
    <3> QED  BY <1>3, <2>1, <2>3, <3>2
  <2> QED  BY <1>3, <2>2, <2>3
<1>5. c \in Pointer
  BY <1>3
<1> DEFINE x == nodes[c].count
           y == nodes[b].count
<1>6. x \in Nat \ {0} /\ y \in Nat \ {0}
  BY <1>4, <1>5 DEF TypeOK, IsHuffmanNode
<1>7. F1 * (x + y) + F0 * x <= total
  BY <1>4 DEF Affords
<1>8. \A z \in Children(c) : nodes[z].count \in Nat /\ nodes[z].count <= y
  BY <1>4, <1>5, ChildrenType, NodeCounts
<1> HIDE DEF total, F0, F1, x, y
<1>9. /\ (F1 + F0) + F1 <= total
      /\ \A z \in Nat : z <= y => (F1 + F0) * x + F1 * z <= total
  BY ONLY <1>1, <1>2, <1>6, <1>7, Affordable
<1>10. Fibonacci[(k + 1) + 2] <= total
  BY <1>2, <1>9
<1>11. ASSUME NEW z \in Children(c)
       PROVE  Fibonacci[(k + 1) + 1] * nodes[c].count
                + Fibonacci[k + 1] * nodes[z].count <= total
  <2>1. (F1 + F0) * x + F1 * nodes[z].count <= total
    BY <1>8, <1>9
  <2>2. Fibonacci[(k + 1) + 1] = F1 + F0
    BY <1>2
  <2> QED  BY ONLY <2>1, <2>2 DEF F1, x
<1> QED  BY <1>10, <1>11 DEF Affords, total

\* Affords depends on the nodes and the table only.
LEMMA AffordsSame ==
  ASSUME UNCHANGED <<nodes, table>>, NEW i, NEW k
  PROVE  Affords(i, k)' <=> Affords(i, k)
  BY DEF Affords, Children, TableCounts

\* The root affords everything: its count is that of the table.
LEMMA DepthInvStartTraversal ==
  ASSUME TypeInv, GrowthInv, SumInv, StartTraversal
  PROVE  DepthInv'
<1> USE DEF TypeInv
<1> DEFINE total == SeqTotal(TableCounts(table))
<1>1. /\ first \in Seq(Pointer) /\ second \in Seq(Pointer)
      /\ Len(first) \in Nat /\ Len(second) \in Nat
  BY LenProperties DEF TypeOK
<1>2. Len(first) + Len(second) = 1
  BY <1>1 DEF QueuesNotEmpty, Queued, StartTraversal
<1>3. SeqTotal(Counts(first)) + SeqTotal(Counts(second)) = total
  BY DEF SumInv, StartTraversal
<1>4. ASSUME NEW q \in Seq(Pointer), Len(q) = 1
      PROVE  Head(q) \in Pointer /\ SeqTotal(Counts(q)) = nodes[Head(q)].count
  <2>1. /\ q # <<>> /\ Head(q) \in Pointer
        /\ Tail(q) \in Seq(Pointer) /\ Len(Tail(q)) = 0
    BY <1>4, HeadTailProperties, EmptySeq
  <2>2. Tail(q) = <<>>
    BY <2>1, EmptySeq
  <2>3. /\ SeqTotal(Counts(Tail(q))) = 0
        /\ nodes[Head(q)].count \in Nat
        /\ SeqTotal(Counts(q)) = nodes[Head(q)].count + SeqTotal(Counts(Tail(q)))
    BY <2>1, <2>2, CountsProperties, NodeCounts
  <2> QED  BY <2>1, <2>3
<1>5. Root \in Pointer /\ nodes[Root].count = total
  <2>1. CASE second = <<>>
    <3>0. Len(first) = 1
      BY <1>1, <1>2, <2>1, EmptySeq
    <3>1. Len(first) = 1 /\ SeqTotal(Counts(second)) = 0
      BY <1>1, <2>1, <3>0, CountsProperties
    <3>2. Head(first) \in Pointer /\ SeqTotal(Counts(first)) = nodes[Head(first)].count
      BY <1>1, <1>4, <3>1
    <3>3. nodes[Head(first)].count \in Nat
      BY <3>2, NodeCounts
    <3> QED  BY <1>3, <2>1, <3>1, <3>2, <3>3 DEF Root
  <2>2. CASE second # <<>>
    <3>1. Len(second) = 1 /\ first = <<>>
      BY <1>1, <1>2, <2>2, EmptySeq
    <3>2. SeqTotal(Counts(first)) = 0
      BY <1>1, <3>1, CountsProperties
    <3>3. Head(second) \in Pointer /\ SeqTotal(Counts(second)) = nodes[Head(second)].count
      BY <1>1, <1>4, <3>1
    <3>4. nodes[Head(second)].count \in Nat
      BY <3>3, NodeCounts
    <3> QED  BY <1>3, <2>2, <3>2, <3>3, <3>4 DEF Root
  <2> QED  BY <2>1, <2>2
<1>6. Affords(Root, 0)
  <2>1. nodes[Root].count \in Nat \ {0}
    BY <1>5 DEF TypeOK, IsHuffmanNode
  <2>2. Fibonacci[0 + 2] = 1 /\ Fibonacci[0 + 1] = 1 /\ Fibonacci[0] = 0
    BY FibonacciProperties
  <2>3. Fibonacci[0 + 2] <= total
    BY <1>5, <2>1, <2>2
  <2>4. ASSUME NEW c \in Children(Root)
        PROVE  Fibonacci[0 + 1] * nodes[Root].count
                 + Fibonacci[0] * nodes[c].count <= total
    <3>1. nodes[c].count \in Nat
      BY <1>5, ChildrenType, NodeCounts
    <3>2. 0 * nodes[c].count = 0 /\ 1 * nodes[Root].count = nodes[Root].count
      BY <2>1, <3>1
    <3> QED  BY <1>5, <2>1, <2>2, <3>2
  <2> QED  BY <2>3, <2>4 DEF Affords
<1>7. /\ bit_table' = <<>>
      /\ stack' = <<[node |-> Root, path |-> <<>>]>>
      /\ nodes' = nodes /\ table' = table
  BY DEF StartsEmpty, StartTraversal
<1>8. PICK r : r = Root
  OBVIOUS
<1>9. Affords(r, 0)'
  BY <1>6, <1>7, <1>8, AffordsSame
<1>10. \A j \in DOMAIN stack' : stack'[j].node = r /\ Len(stack'[j].path) = 0
  BY <1>7, <1>8
<1> QED  BY <1>7, <1>9, <1>10 DEF DepthInv

\* The path of a leaf is short enough for a code.
LEMMA DepthInvVisitLeaf ==
  ASSUME TypeInv, DepthInv, VisitLeaf
  PROVE  DepthInv'
<1> USE DEF TypeInv
<1> SUFFICES ASSUME Len(table) > 1
             PROVE  DepthInv'
  BY DEF DepthInv, VisitLeaf
<1>1. /\ stack # <<>> /\ stack' = Tail(stack)
      /\ nodes' = nodes /\ table' = table
      /\ IsLeaf(nodes[Top.node])
  BY DEF VisitLeaf
<1>2. \A c \in DOMAIN bit_table' :
        \/ c \in DOMAIN bit_table /\ bit_table'[c] = bit_table[c]
        \/ bit_table'[c] = Top.path
  BY DEF VisitLeaf
<1>3. \A j \in DOMAIN stack : \A i, k :
        stack[j].node = i /\ Len(stack[j].path) = k => Affords(i, k)
  BY DEF DepthInv
<1>4. Fibonacci[Len(Top.path) + 2] <= SeqTotal(TableCounts(table))
  <2>1. Affords(Top.node, Len(Top.path))
    BY <1>1, <1>3, TailElements
  <2> QED  BY <1>1, <2>1 DEF Affords
<1>5. \A c \in DOMAIN bit_table' :
        Fibonacci[Len(bit_table'[c]) + 2] <= SeqTotal(TableCounts(table'))
  BY <1>1, <1>2, <1>4 DEF DepthInv
<1>6. ASSUME NEW j \in DOMAIN stack', NEW i, i = stack'[j].node,
             NEW k, k = Len(stack'[j].path)
      PROVE  Affords(i, k)'
  <2>1. j + 1 \in DOMAIN stack /\ stack'[j] = stack[j + 1]
    BY <1>1, TailElements
  <2>2. Affords(i, k)
    BY <1>3, <1>6, <2>1
  <2> QED  BY <1>1, <2>2, AffordsSame
<1> QED  BY <1>5, <1>6 DEF DepthInv

\* The children of a node afford the next level.
LEMMA DepthInvVisitInner ==
  ASSUME TypeInv, GrowthInv, DepthInv, VisitInner
  PROVE  DepthInv'
<1> USE DEF TypeInv
<1> SUFFICES ASSUME Len(table) > 1
             PROVE  DepthInv'
  BY DEF DepthInv, VisitInner
<1>1. /\ stack # <<>> /\ bit_table' = bit_table
      /\ nodes' = nodes /\ table' = table
      /\ ~ IsLeaf(nodes[Top.node])
  BY DEF VisitInner
<1>2. \A j \in DOMAIN stack : \A i, k :
        stack[j].node = i /\ Len(stack[j].path) = k => Affords(i, k)
  BY DEF DepthInv
<1>3. PICK p, n : p = Top.node /\ n = Len(Top.path)
  OBVIOUS
<1>4. /\ Top \in [node : Pointer, path : Seq(Bit)]
      /\ 1 \in DOMAIN stack /\ Top = stack[1]
      /\ Len(stack) \in Nat /\ DOMAIN stack = 1 .. Len(stack)
  BY <1>1, TopType, TailElements
<1>5. p \in Pointer /\ n \in Nat /\ Affords(p, n)
  BY <1>2, <1>3, <1>4, LenProperties
<1>6. /\ nodes[p].left \in Children(p) /\ nodes[p].right \in Children(p)
  BY <1>1, <1>3 DEF Children
<1>7. \A c \in Children(p) : Affords(c, n + 1)
  BY <1>5, AffordsChild
<1>8. /\ DOMAIN stack' = 1 .. (Len(stack) + 1)
      /\ stack'[1] = [node |-> nodes[p].left, path |-> Append(Top.path, 0)]
      /\ stack'[2] = [node |-> nodes[p].right, path |-> Append(Top.path, 1)]
      /\ \A j \in 3 .. (Len(stack) + 1) : stack'[j] = stack[j - 1]
  BY <1>3, VisitInnerStack, LenProperties
<1>9. Len(Append(Top.path, 0)) = n + 1 /\ Len(Append(Top.path, 1)) = n + 1
  <2>1. Top.path \in Seq(Bit) /\ 0 \in Bit /\ 1 \in Bit
    BY <1>4 DEF Bit
  <2> QED  BY <1>3, <2>1, AppendProperties
<1>10. ASSUME NEW j \in DOMAIN stack', NEW i, i = stack'[j].node,
              NEW k, k = Len(stack'[j].path)
       PROVE  Affords(i, k)'
  <2>1. CASE j = 1 \/ j = 2
    <3>1. i \in Children(p) /\ k = n + 1
      BY <1>6, <1>8, <1>9, <1>10, <2>1
    <3>2. Affords(i, k)
      BY <1>7, <3>1
    <3> QED  BY <1>1, <3>2, AffordsSame
  <2>2. CASE j # 1 /\ j # 2
    <3>1. j \in 3 .. (Len(stack) + 1) /\ j - 1 \in DOMAIN stack
      BY <1>4, <1>8, <2>2
    <3>2. Affords(i, k)
      BY <1>2, <1>8, <1>10, <3>1
    <3> QED  BY <1>1, <3>2, AffordsSame
  <2> QED  BY <2>1, <2>2
<1>11. \A c \in DOMAIN bit_table' :
         Fibonacci[Len(bit_table'[c]) + 2] <= SeqTotal(TableCounts(table'))
  BY <1>1 DEF DepthInv
<1> QED  BY <1>10, <1>11 DEF DepthInv

\* There are neither paths nor codes initially.
LEMMA DepthInvInit == Init => DepthInv
  BY DEF Init, DepthInv

\* Every step keeps the paths and codes short enough.
LEMMA DepthInvStep ==
  TypeInv /\ GrowthInv /\ SumInv /\ DepthInv /\ [Next]_vars => DepthInv'
<1> SUFFICES ASSUME TypeInv, GrowthInv, SumInv, DepthInv, [Next]_vars
             PROVE  DepthInv'
  OBVIOUS
<1>1. CASE GenerateTrivial
  <2>1. table' = table /\ Len(table) <= 1 /\ Len(table) \in Nat
    BY <1>1, TableEntries DEF GenerateTrivial, TypeInv, TypeOK
  <2> QED  BY <2>1 DEF DepthInv
<1>2. CASE PushLeaves \/ Merge
  <2>1. stack' = <<>> /\ bit_table' = <<>>
    BY <1>2 DEF PushLeaves, Merge, TypeInv, StartsEmpty
  <2> QED  BY <2>1 DEF DepthInv
<1>3. CASE StartTraversal BY <1>3, DepthInvStartTraversal
<1>4. CASE VisitLeaf BY <1>4, DepthInvVisitLeaf
<1>5. CASE VisitInner BY <1>5, DepthInvVisitInner
<1>6. CASE UNCHANGED <<table, nodes, stack, bit_table>>
  <2>1. \A i, k : Affords(i, k)' <=> Affords(i, k)
    BY <1>6, AffordsSame
  <2>2. /\ stack' = stack /\ bit_table' = bit_table
        /\ SeqTotal(TableCounts(table')) = SeqTotal(TableCounts(table))
        /\ table' = table
    BY <1>6
  <2> QED  BY <2>1, <2>2 DEF DepthInv
<1> QED
  BY <1>1, <1>2, <1>3, <1>4, <1>5, <1>6 DEF Next, Return, vars

\* For every frequency table and whichever way the ties of pop_smallest go, a
\* code of length d needs an input of at least Fibonacci[d + 2] codepoints: the
\* codes of more than 255 bits that write_header silently drops need an input
\* of more than 10^53.
THEOREM LongCodesNeedLongInputsCorrect == Spec => []LongCodesNeedLongInputs
<1>1. Spec => []TypeInv
  BY TypeInvInit, TypeInvStep, PTL DEF Spec
<1>2. Spec => []OrderInv
  BY <1>1, OrderInvInit, OrderInvStep, PTL DEF Spec
<1>3. Spec => []GrowthInv
  BY <1>1, <1>2, GrowthInvInit, GrowthInvStep, PTL DEF Spec
<1>4. Spec => []SumInv
  BY <1>1, SumInvInit, SumInvStep, PTL DEF Spec
<1>5. Spec => []DepthInv
  BY <1>1, <1>3, <1>4, DepthInvInit, DepthInvStep, PTL DEF Spec
<1>6. TypeInv /\ DepthInv => LongCodesNeedLongInputs
  <2> SUFFICES ASSUME TypeInv, DepthInv PROVE LongCodesNeedLongInputs
    OBVIOUS
  <2>1. TotalCount(table) = SeqTotal(TableCounts(table))
    BY TableTotal DEF TypeInv, TypeOK
  <2> QED  BY <2>1 DEF DepthInv, LongCodesNeedLongInputs
<1> QED  BY <1>1, <1>5, <1>6, PTL

-----------------------------------------------------------------------------
(* That PrefixCodes implements PrefixCodeSpec.                             *)
(*                                                                         *)
(* What is left is that no node is lost: neither while nodes are merged,   *)
(* when the queues hold the roots of all trees, nor while the tree is      *)
(* traversed, when the stack holds what is still to be visited.  Being     *)
(* under a node is stated without recursion: the nodes under those of X    *)
(* are the ones in every set that contains X and, with a node, its         *)
(* children.                                                               *)

\* U contains the children of its nodes.
Closed(U) ==
  \A i \in U : ~ IsLeaf(nodes[i]) => nodes[i].left \in U /\ nodes[i].right \in U

\* Node i is in X or under a node in X.
Under(X, i) == \A U \in SUBSET Pointer : X \subseteq U /\ Closed(U) => i \in U

QueuedNodes == Range(first) \union Range(second)

StackNodes == {stack[i].node : i \in DOMAIN stack}

\* The first nodes are the leaves, in the order of the table, and all others
\* have children.
LeavesInv ==
  pc \in {"merge", "traverse"} =>
    /\ Len(table) > 1
    /\ Len(table) <= Len(nodes)
    /\ \A i \in 1 .. Len(table) : nodes[i] = LeafNode(table[i])
    /\ \A i \in Pointer : i > Len(table) => ~ IsLeaf(nodes[i])

\* Every node is under a queued one, and the node that is left is no leaf.
QueuesInv ==
  pc = "merge" =>
    /\ \A i \in Pointer : Under(QueuedNodes, i)
    /\ \A i \in DOMAIN second : second[i] > Len(table)
    /\ second = <<>> => Len(first) > 1

\* Every leaf has its code or is under a node of the stack, only leaves have
\* codes, and no code is empty.
TraversalInv ==
  pc = "traverse" =>
    /\ \A i \in 1 .. Len(table) :
         table[i].codepoint \in DOMAIN bit_table \/ Under(StackNodes, i)
    /\ DOMAIN bit_table \subseteq Abstract!Symbols(table)
    /\ \A c \in DOMAIN bit_table : bit_table[c] # <<>>
    /\ \A i \in DOMAIN stack :
         stack[i].path = <<>> => ~ IsLeaf(nodes[stack[i].node])

TreeInv == LeavesInv /\ QueuesInv /\ TraversalInv

-----------------------------------------------------------------------------
(* Merging.                                                                *)

\* No tree has been built yet.
LEMMA TreeInvInit == Init => TreeInv
  BY DEF Init, TreeInv, LeavesInv, QueuesInv, TraversalInv

\* Every leaf is a tree of its own.
LEMMA TreeInvPushLeaves ==
  ASSUME TypeInv, PushLeaves
  PROVE  TreeInv'
<1> USE DEF PushLeaves
<1> DEFINE n == Len(table)
<1>1. table \in Tables /\ second' = <<>> /\ pc' = "merge" /\ table' = table
  BY DEF TypeInv, TypeOK, StartsEmpty
<1>2. n \in Nat /\ n > 1
  BY <1>1, TableEntries
<1>3. /\ nodes' = [i \in 1 .. n |-> LeafNode(table[i])]
      /\ first' = [i \in 1 .. n |-> i]
  OBVIOUS
<1> HIDE DEF n
<1>4. Len(nodes') = n /\ Pointer' = 1 .. n /\ Len(first') = n
  BY <1>2, <1>3 DEF Pointer
<1>5. LeavesInv'
  BY <1>1, <1>2, <1>3, <1>4 DEF LeavesInv, n
<1>6. Range(first') = Pointer'
  BY <1>2, <1>3, <1>4 DEF Range
<1>7. QueuesInv'
  BY <1>1, <1>2, <1>4, <1>6 DEF QueuesInv, Under, QueuedNodes
<1> QED  BY <1>1, <1>5, <1>7 DEF TreeInv, TraversalInv

\* A pop loses no node and moves none between the queues.
LEMMA PopSmallestKeeps ==
  ASSUME NEW f \in Seq(Pointer), NEW s \in Seq(Pointer), Queued(f, s) >= 1
  PROVE  /\ Range(f) \union Range(s)
              \subseteq {PopSmallest(f, s).result}
                          \union Range(PopSmallest(f, s).first)
                          \union Range(PopSmallest(f, s).second)
         /\ Range(PopSmallest(f, s).second) \subseteq Range(s)
<1>1. ASSUME NEW q \in Seq(Pointer), q # <<>>
      PROVE  /\ Range(q) \subseteq {Head(q)} \union Range(Tail(q))
             /\ Range(Tail(q)) \subseteq Range(q)
  <2>1. /\ DOMAIN q = 1 .. Len(q) /\ Len(q) \in Nat /\ Len(q) >= 1
        /\ Head(q) = q[1]
    BY <1>1, LenProperties, EmptySeq
  <2>2. /\ DOMAIN Tail(q) = 1 .. (Len(q) - 1)
        /\ \A i \in 1 .. (Len(q) - 1) : Tail(q)[i] = q[i + 1]
    BY <1>1, <2>1, HeadTailProperties, LenProperties
  <2>3. ASSUME NEW i \in DOMAIN q, i # 1
        PROVE  i - 1 \in DOMAIN Tail(q) /\ Tail(q)[i - 1] = q[i]
    BY <2>1, <2>2, <2>3
  <2>4. ASSUME NEW i \in DOMAIN Tail(q)
        PROVE  i + 1 \in DOMAIN q /\ Tail(q)[i] = q[i + 1]
    BY <2>1, <2>2
  <2> QED  BY <2>1, <2>3, <2>4 DEF Range
<1>2. CASE TakesFirst(f, s)
  BY <1>1, <1>2 DEF PopSmallest, TakesFirst
<1>3. CASE ~ TakesFirst(f, s)
  <2>1. s # <<>>
    BY <1>3, LenProperties, EmptySeq DEF TakesFirst, Queued
  <2> QED  BY <1>1, <1>3, <2>1 DEF PopSmallest
<1> QED  BY <1>2, <1>3

\* The two nodes of a merge and what stays queued are all that was queued.
LEMMA MergeKeeps ==
  ASSUME TypeOK, Merge
  PROVE  /\ QueuedNodes \subseteq {PopLeft.result, PopRight.result}
                                    \union Range(PopRight.first)
                                    \union Range(PopRight.second)
         /\ Range(PopRight.second) \subseteq Range(second)
<1>1. /\ first \in Seq(Pointer) /\ second \in Seq(Pointer)
      /\ Queued(first, second) >= 1
      /\ PopLeft.first \in Seq(Pointer) /\ PopLeft.second \in Seq(Pointer)
      /\ Queued(PopLeft.first, PopLeft.second) >= 1
  BY MergePops DEF TypeOK
<1>2. /\ QueuedNodes \subseteq {PopLeft.result} \union Range(PopLeft.first)
                                 \union Range(PopLeft.second)
      /\ Range(PopLeft.second) \subseteq Range(second)
  BY <1>1, PopSmallestKeeps DEF PopLeft, QueuedNodes
<1>3. /\ Range(PopLeft.first) \union Range(PopLeft.second)
           \subseteq {PopRight.result} \union Range(PopRight.first)
                       \union Range(PopRight.second)
      /\ Range(PopRight.second) \subseteq Range(PopLeft.second)
  BY <1>1, PopSmallestKeeps DEF PopRight
<1> QED  BY <1>2, <1>3

\* The elements of a sequence that is appended to.
LEMMA RangeAppend ==
  ASSUME NEW S, NEW q \in Seq(S), NEW e \in S
  PROVE  Range(Append(q, e)) = Range(q) \union {e}
<1>1. /\ DOMAIN q = 1 .. Len(q) /\ Len(q) \in Nat
      /\ DOMAIN Append(q, e) = 1 .. (Len(q) + 1)
      /\ \A i \in 1 .. Len(q) : Append(q, e)[i] = q[i]
      /\ Append(q, e)[Len(q) + 1] = e
  BY LenProperties, AppendProperties
<1> QED  BY <1>1 DEF Range

\* Two trees become one.
LEMMA TreeInvMerge ==
  ASSUME TypeInv, TreeInv, Merge
  PROVE  TreeInv'
<1> DEFINE L == PopLeft.result
           R == PopRight.result
           new == Len(nodes) + 1
<1>1. pc = "merge" /\ pc' = "merge" /\ table' = table
  BY DEF Merge
<1>2. /\ L \in Pointer /\ R \in Pointer
      /\ PopRight.first \in Seq(Pointer) /\ PopRight.second \in Seq(Pointer)
  BY MergePops DEF TypeInv
<1>3. /\ Len(nodes) \in Nat
      /\ Len(nodes') = new
      /\ \A i \in Pointer : nodes'[i] = nodes[i]
      /\ nodes'[new] = ParentNode(L, R)
  BY MergeNodes DEF TypeInv
<1>4. /\ first' = PopRight.first
      /\ second' = Append(PopRight.second, new)
  BY DEF Merge
<1> HIDE DEF L, R, new
<1>5. Pointer' = Pointer \union {new} /\ new \in Nat /\ new \notin Pointer
  BY <1>3 DEF Pointer, new
<1>6. /\ nodes'[new].left = L /\ nodes'[new].right = R
      /\ ~ IsLeaf(nodes'[new])
  BY <1>2, <1>3 DEF ParentNode, IsLeaf, NullPtr, Pointer
<1>7. /\ Range(first') = Range(PopRight.first)
      /\ Range(second') = Range(PopRight.second) \union {new}
  <2>1. PopRight.second \in Seq(Pointer \union {new})
    BY <1>2, SeqMonotonic
  <2> QED  BY <1>4, <2>1, RangeAppend
<1>8. LeavesInv'
  <2>1. /\ Len(table) <= Len(nodes) /\ Len(table) > 1
        /\ \A i \in 1 .. Len(table) : i \in Pointer
    BY <1>1, <1>3, TableEntries DEF TreeInv, LeavesInv, Pointer, TypeInv, TypeOK
  <2>2. Len(table) <= Len(nodes')
    BY <1>1, <1>3, <2>1, TableEntries DEF new, TypeInv, TypeOK
  <2>3. \A i \in 1 .. Len(table) : nodes'[i] = LeafNode(table[i])
    BY <1>1, <1>3, <2>1 DEF TreeInv, LeavesInv
  <2>4. \A i \in Pointer' : i > Len(table) => ~ IsLeaf(nodes'[i])
    BY <1>1, <1>3, <1>5, <1>6 DEF TreeInv, LeavesInv
  <2> QED  BY <1>1, <2>1, <2>2, <2>3, <2>4 DEF LeavesInv
<1>9. \A i \in Pointer' : Under(QueuedNodes, i)'
  <2> SUFFICES ASSUME NEW U \in SUBSET (Pointer'), QueuedNodes' \subseteq U, Closed(U)'
               PROVE  Pointer' \subseteq U
    BY DEF Under
  <2>1. new \in U
    BY <1>7 DEF QueuedNodes
  <2>2. L \in U /\ R \in U
    BY <1>6, <2>1 DEF Closed
  <2>3. QueuedNodes \subseteq U \intersect Pointer
    <3>1. QueuedNodes \subseteq Pointer
      BY DEF QueuedNodes, Range, TypeInv, TypeOK
    <3> QED  BY <1>7, <2>2, <3>1, MergeKeeps DEF QueuedNodes, TypeInv, L, R
  <2>4. Closed(U \intersect Pointer)
    <3> SUFFICES ASSUME NEW i \in U \intersect Pointer, ~ IsLeaf(nodes[i])
                 PROVE  nodes[i].left \in U \intersect Pointer
                          /\ nodes[i].right \in U \intersect Pointer
      BY DEF Closed
    <3>1. nodes'[i] = nodes[i]
      BY <1>3
    <3>2. nodes[i].left \in U /\ nodes[i].right \in U
      BY <3>1 DEF Closed
    <3>3. nodes[i].left \in Pointer /\ nodes[i].right \in Pointer
      BY ChildrenType DEF TypeInv
    <3> QED  BY <3>2, <3>3
  <2>5. Pointer \subseteq U
    BY <1>1, <2>3, <2>4 DEF TreeInv, QueuesInv, Under
  <2> QED  BY <1>5, <2>1, <2>5
<1>10. \A i \in DOMAIN second' : second'[i] > Len(table)
  <2>1. \A i \in Range(second) : i > Len(table)
    BY <1>1 DEF TreeInv, QueuesInv, Range
  <2>2. new > Len(table)
    BY <1>1, <1>3, TableEntries DEF TreeInv, LeavesInv, new, TypeInv, TypeOK
  <2>3. \A i \in Range(second') : i > Len(table)
    BY <1>7, <2>1, <2>2, MergeKeeps DEF TypeInv
  <2> QED  BY <2>3 DEF Range
<1>11. second' # <<>>
  BY <1>7 DEF Range
<1> QED
  BY <1>1, <1>8, <1>9, <1>10, <1>11 DEF TreeInv, QueuesInv, TraversalInv

-----------------------------------------------------------------------------
(* The traversal.                                                          *)

\* The traversal starts at the only tree that is left.
LEMMA TreeInvStartTraversal ==
  ASSUME TypeInv, TreeInv, StartTraversal
  PROVE  TreeInv'
<1> USE DEF StartTraversal, TypeInv, TreeInv
<1>1. /\ pc = "merge" /\ pc' = "traverse"
      /\ stack' = <<[node |-> Root, path |-> <<>>]>>
      /\ bit_table' = <<>>
      /\ UNCHANGED <<table, nodes, first, second>>
  BY DEF StartsEmpty
<1>2. LeavesInv'
  BY <1>1 DEF LeavesInv, Pointer
<1>3. /\ first \in Seq(Pointer) /\ second \in Seq(Pointer)
      /\ Len(first) \in Nat /\ Len(second) \in Nat
      /\ Len(table) \in Nat /\ Len(nodes) \in Nat
      /\ Len(first) + Len(second) <= 1
  BY TableEntries, LenProperties DEF TypeOK
<1>4. Len(second) = 1 /\ first = <<>>
  BY <1>1, <1>3, EmptySeq DEF QueuesInv
<1>5. /\ Root = second[1]
      /\ QueuedNodes = {Root}
      /\ 1 \in DOMAIN second
  <2>1. DOMAIN second = 1 .. 1 /\ DOMAIN first = {}
    BY <1>3, <1>4, LenProperties
  <2>2. second # <<>>
    BY <2>1
  <2> QED  BY <1>3, <2>1, <2>2, HeadTailProperties DEF Root, QueuedNodes, Range
<1>6. StackNodes' = QueuedNodes
  BY <1>1, <1>5 DEF StackNodes
<1>7. Root \in Pointer /\ Root > Len(table)
  BY <1>1, <1>3, <1>5 DEF QueuesInv
<1>8. ~ IsLeaf(nodes[Root])
  BY <1>1, <1>7 DEF LeavesInv
<1>9. \A i \in 1 .. Len(table) : Under(StackNodes, i)'
  <2>1. \A i \in 1 .. Len(table) : i \in Pointer
    BY <1>1, <1>3 DEF LeavesInv, Pointer
  <2> QED  BY <1>1, <1>6, <2>1 DEF QueuesInv, Under, Closed, Pointer
<1>10. TraversalInv'
  BY <1>1, <1>8, <1>9 DEF TraversalInv
<1> QED  BY <1>1, <1>2, <1>10 DEF QueuesInv

\* The stack's nodes are its top and those under the top.
LEMMA StackNodesTop ==
  ASSUME TypeOK, stack # <<>>
  PROVE  StackNodes = {Top.node} \union {Tail(stack)[i].node : i \in DOMAIN Tail(stack)}
<1>1. ASSUME NEW i \in DOMAIN stack, i # 1
      PROVE  i - 1 \in DOMAIN Tail(stack) /\ Tail(stack)[i - 1] = stack[i]
  <2>1. stack \in Seq([node : Pointer, path : Seq(Bit)])
    BY DEF TypeOK
  <2>2. /\ Tail(stack) \in Seq([node : Pointer, path : Seq(Bit)])
        /\ Len(Tail(stack)) = Len(stack) - 1
        /\ Len(stack) \in Nat
        /\ DOMAIN stack = 1 .. Len(stack)
    BY <2>1, HeadTailProperties, LenProperties
  <2>3. i - 1 \in DOMAIN Tail(stack)
    BY <1>1, <2>2, LenProperties
  <2> QED  BY <1>1, <2>2, <2>3, TailElements
<1> QED  BY <1>1, TailElements DEF StackNodes

\* A set that is closed stays so when a node with its children is added.
LEMMA ClosedAdd ==
  ASSUME NEW U, Closed(U), NEW n,
         ~ IsLeaf(nodes[n]) => nodes[n].left \in U /\ nodes[n].right \in U
  PROVE  Closed(U \union {n})
BY DEF Closed

\* A leaf has its codepoint and no children.
LEMMA LeafNodeFields ==
  ASSUME NEW entry
  PROVE  IsLeaf(LeafNode(entry)) /\ LeafNode(entry).codepoint = entry.codepoint
BY DEF LeafNode, IsLeaf

\* A leaf is taken from the stack and gets its code.
LEMMA TreeInvVisitLeaf ==
  ASSUME TypeInv, TreeInv, VisitLeaf
  PROVE  TreeInv'
<1> USE DEF TypeInv, TreeInv
<1> DEFINE cp == nodes[Top.node].codepoint
<1>1. /\ pc = "traverse" /\ pc' = "traverse" /\ stack # <<>>
      /\ stack' = Tail(stack)
      /\ UNCHANGED <<table, nodes>>
      /\ IsLeaf(nodes[Top.node])
      /\ DOMAIN bit_table' = DOMAIN bit_table \union {cp}
      /\ \A c \in DOMAIN bit_table' :
           bit_table'[c] = IF c = cp THEN Top.path ELSE bit_table[c]
  BY DEF VisitLeaf
<1>2. LeavesInv'
  BY <1>1 DEF LeavesInv, Pointer
<1>3. Top.node \in Pointer /\ StackNodes = {Top.node} \union StackNodes'
  BY <1>1, StackNodesTop, TopType DEF StackNodes
<1>4. /\ Top.node \in 1 .. Len(table)
      /\ cp = table[Top.node].codepoint
  <2>1. Len(table) \in Nat /\ Len(nodes) \in Nat
    BY TableEntries, LenProperties DEF TypeOK
  <2>2. Top.node \in 1 .. Len(table)
    BY <1>1, <1>3, <2>1 DEF LeavesInv, Pointer
  <2>3. nodes[Top.node] = LeafNode(table[Top.node])
    BY <1>1, <2>2 DEF LeavesInv
  <2> QED  BY <2>2, <2>3, LeafNodeFields
<1> HIDE DEF cp
<1>5. ASSUME NEW i \in 1 .. Len(table)
      PROVE  table[i].codepoint \in DOMAIN bit_table' \/ Under(StackNodes, i)'
  <2> SUFFICES ASSUME table[i].codepoint \notin DOMAIN bit_table',
                      NEW U \in SUBSET Pointer, StackNodes' \subseteq U, Closed(U)
               PROVE  i \in U
    BY <1>1 DEF Under, Closed, Pointer
  <2>1. Closed(U \union {Top.node})
    BY <1>1, ClosedAdd
  <2>2. StackNodes \subseteq U \union {Top.node}
    BY <1>3
  <2>3. U \union {Top.node} \in SUBSET Pointer
    BY <1>3
  <2>4. Under(StackNodes, i)
    BY <1>1 DEF TraversalInv
  <2>5. i \in U \union {Top.node}
    BY <2>1, <2>2, <2>3, <2>4 DEF Under
  <2>6. i # Top.node
    BY <1>1, <1>4
  <2> QED  BY <2>5, <2>6
<1>6. DOMAIN bit_table' \subseteq Abstract!Symbols(table)
  <2>1. DOMAIN table = 1 .. Len(table)
    BY TableEntries DEF TypeOK
  <2>2. cp \in Abstract!Symbols(table)
    BY <1>4, <2>1 DEF Abstract!Symbols
  <2> QED  BY <1>1, <2>2 DEF TraversalInv
<1>7. \A c \in DOMAIN bit_table' : bit_table'[c] # <<>>
  <2>1. Top.path # <<>>
    BY <1>1, TailElements DEF TraversalInv
  <2> QED  BY <1>1, <2>1 DEF TraversalInv
<1>8. \A i \in DOMAIN stack' : stack'[i].path = <<>> => ~ IsLeaf(nodes[stack'[i].node])
  BY <1>1, TailElements DEF TraversalInv
<1>9. TraversalInv'
  BY <1>1, <1>5, <1>6, <1>7, <1>8 DEF TraversalInv
<1> QED  BY <1>1, <1>2, <1>9 DEF QueuesInv

\* An inner node is replaced by its children.
LEMMA TreeInvVisitInner ==
  ASSUME TypeInv, TreeInv, VisitInner
  PROVE  TreeInv'
<1> USE DEF TypeInv, TreeInv
<1>1. /\ pc = "traverse" /\ pc' = "traverse" /\ stack # <<>>
      /\ UNCHANGED <<table, nodes, bit_table>>
      /\ ~ IsLeaf(nodes[Top.node])
  BY DEF VisitInner
<1>2. LeavesInv'
  BY <1>1 DEF LeavesInv, Pointer
<1>3. /\ Len(stack') = Len(stack) + 1
      /\ stack'[1] = [node |-> nodes[Top.node].left, path |-> Append(Top.path, 0)]
      /\ stack'[2] = [node |-> nodes[Top.node].right, path |-> Append(Top.path, 1)]
      /\ \A i \in 3 .. Len(stack') : stack'[i] = stack[i - 1]
      /\ stack' \in Seq([node : Pointer, path : Seq(Bit)])
  BY VisitInnerStack
<1>4. /\ Len(stack) \in Nat /\ Len(stack) >= 1 /\ DOMAIN stack = 1 .. Len(stack)
      /\ DOMAIN stack' = 1 .. (Len(stack) + 1)
  BY <1>1, <1>3, LenProperties, EmptySeq DEF TypeOK
<1>5. /\ Top.node \in Pointer /\ Top.path \in Seq(Bit)
      /\ StackNodes \subseteq {Top.node} \union StackNodes'
      /\ nodes[Top.node].left \in StackNodes'
      /\ nodes[Top.node].right \in StackNodes'
  <2>1. Top = stack[1] /\ Top.node \in Pointer /\ Top.path \in Seq(Bit)
    BY <1>1, TailElements, TopType
  <2>2. ASSUME NEW i \in DOMAIN stack, i # 1
        PROVE  i + 1 \in DOMAIN stack' /\ stack'[i + 1] = stack[i]
    <3>1. i + 1 \in 3 .. Len(stack') /\ (i + 1) - 1 = i
      BY <1>3, <1>4, <2>2
    <3>2. stack'[i + 1] = stack[(i + 1) - 1]
      BY <1>3, <3>1
    <3> QED  BY <1>3, <1>4, <3>1, <3>2
  <2>3. StackNodes \subseteq {Top.node} \union StackNodes'
    BY <2>1, <2>2 DEF StackNodes
  <2>4. 1 \in DOMAIN stack' /\ 2 \in DOMAIN stack'
    BY <1>4
  <2>5. /\ nodes[Top.node].left = stack'[1].node
        /\ nodes[Top.node].right = stack'[2].node
    BY <1>3
  <2> QED  BY <2>1, <2>3, <2>4, <2>5 DEF StackNodes
<1>6. ASSUME NEW i \in 1 .. Len(table), table[i].codepoint \notin DOMAIN bit_table
      PROVE  Under(StackNodes, i)'
  <2> SUFFICES ASSUME NEW U \in SUBSET Pointer, StackNodes' \subseteq U, Closed(U)
               PROVE  i \in U
    BY <1>1 DEF Under, Closed, Pointer
  <2>1. Closed(U \union {Top.node})
    BY <1>5, ClosedAdd
  <2>2. StackNodes \subseteq U \union {Top.node}
    BY <1>5
  <2>3. U \union {Top.node} \in SUBSET Pointer
    BY <1>5
  <2>4. Under(StackNodes, i)
    BY <1>1, <1>6 DEF TraversalInv
  <2>5. i \in U \union {Top.node}
    BY <2>1, <2>2, <2>3, <2>4 DEF Under
  <2>6. i # Top.node
    <3>1. nodes[i] = LeafNode(table[i])
      BY <1>1 DEF LeavesInv
    <3> QED  BY <1>1, <3>1, LeafNodeFields
  <2> QED  BY <2>5, <2>6
<1>7. ASSUME NEW i \in DOMAIN stack', stack'[i].path = <<>>
      PROVE  ~ IsLeaf(nodes[stack'[i].node])
  <2>1. Append(Top.path, 0) # <<>> /\ Append(Top.path, 1) # <<>>
    BY <1>5, AppendProperties DEF Bit
  <2>2. i \in 3 .. Len(stack')
    BY <1>3, <1>4, <1>7, <2>1
  <2>3. i - 1 \in DOMAIN stack /\ stack'[i] = stack[i - 1]
    BY <1>3, <1>4, <2>2
  <2> QED  BY <1>1, <1>7, <2>3 DEF TraversalInv
<1>8. TraversalInv'
  BY <1>1, <1>6, <1>7 DEF TraversalInv
<1> QED  BY <1>1, <1>2, <1>8 DEF QueuesInv

\* Every step preserves the invariant of the trees.
LEMMA TreeInvStep == TypeInv /\ TreeInv /\ [Next]_vars => TreeInv'
<1> SUFFICES ASSUME TypeInv, TreeInv, [Next]_vars PROVE TreeInv'
  OBVIOUS
<1>1. CASE PushLeaves BY <1>1, TreeInvPushLeaves
<1>2. CASE Merge BY <1>2, TreeInvMerge
<1>3. CASE StartTraversal BY <1>3, TreeInvStartTraversal
<1>4. CASE VisitLeaf BY <1>4, TreeInvVisitLeaf
<1>5. CASE VisitInner BY <1>5, TreeInvVisitInner
<1>6. CASE GenerateTrivial \/ Return
  BY <1>6 DEF GenerateTrivial, Return, TreeInv, LeavesInv, QueuesInv, TraversalInv
<1>7. CASE UNCHANGED vars
  BY <1>7 DEF vars, TreeInv, LeavesInv, QueuesInv, TraversalInv, Under, Closed,
              QueuedNodes, StackNodes, Pointer
<1> QED
  BY <1>1, <1>2, <1>3, <1>4, <1>5, <1>6, <1>7 DEF Next

-----------------------------------------------------------------------------
(* The refinement.                                                         *)

\* What the traversal leaves when its stack is empty.
LEMMA ReturnedCodes ==
  ASSUME TypeInv, PathsInv, TreeInv, Return
  PROVE  Abstract!IsPrefixCodeFor(bit_table, Abstract!Symbols(table))
<1> USE DEF TypeInv, TreeInv
<1>1. pc = "traverse" /\ stack = <<>>
  BY DEF Return
<1>2. Abstract!Symbols(table) \subseteq DOMAIN bit_table
  <2> SUFFICES ASSUME NEW i \in DOMAIN table
               PROVE  table[i].codepoint \in DOMAIN bit_table
    BY DEF Abstract!Symbols
  <2>1. i \in 1 .. Len(table)
    BY TableEntries DEF TypeOK
  <2>2. StackNodes \subseteq {} /\ Closed({})
    BY <1>1 DEF StackNodes, Closed
  <2>3. ~ Under(StackNodes, i)
    BY <2>2 DEF Under
  <2> QED  BY <1>1, <2>1, <2>3 DEF TraversalInv
<1>3. \A c \in DOMAIN bit_table : bit_table[c] \in Seq(Bit) /\ bit_table[c] # <<>>
  BY <1>1 DEF TypeOK, TraversalInv
<1>4. Abstract!IsPrefixFree(bit_table)
  BY DEF Abstract!IsPrefixFree, PathsInv, PrefixFree, IsPrefix, Abstract!IsPrefix
<1> QED
  BY <1>1, <1>2, <1>3, <1>4 DEF Abstract!IsPrefixCodeFor, TraversalInv, Abstract!Bit, Bit

\* A table of at most one codepoint.
LEMMA TrivialCodes ==
  ASSUME TypeInv, PathsInv, GenerateTrivial
  PROVE  Abstract!IsPrefixCodeFor(bit_table', Abstract!Symbols(table))
<1>1. bit_table' = [c \in Abstract!Symbols(table) |-> <<0>>]
  BY DEF GenerateTrivial, Abstract!Symbols
<1>2. <<0>> \in Seq(Abstract!Bit) /\ <<0>> # <<>>
  BY DEF Abstract!Bit
<1>3. Abstract!IsPrefixFree(bit_table')
  BY PathsInvGenerateTrivial DEF PathsInv, PrefixFree, Abstract!IsPrefixFree,
      IsPrefix, Abstract!IsPrefix
<1> QED  BY <1>1, <1>2, <1>3 DEF Abstract!IsPrefixCodeFor

\* An initial state maps to an initial state.
LEMMA RefinementInit == Init => Abstract!Init
  BY DEF Init, Abstract!Init

\* The steps up to the last one are stutters, and the last one keeps the promise.
LEMMA RefinementStep ==
  TypeInv /\ PathsInv /\ TreeInv /\ [Next]_vars => [Abstract!Next]_Abstract!vars
<1> SUFFICES ASSUME TypeInv, PathsInv, TreeInv, [Next]_vars
             PROVE  [Abstract!Next]_Abstract!vars
  OBVIOUS
<1>1. CASE GenerateTrivial
  <2>1. /\ pc = "generate" /\ pc' = "returned" /\ table' = table
        /\ Abstract!IsPrefixCodeFor(bit_table', Abstract!Symbols(table))
    BY <1>1, TrivialCodes DEF GenerateTrivial
  <2> QED  BY <2>1 DEF Abstract!Next, Abstract!Return, Abstract!Promise
<1>2. CASE Return
  <2>1. /\ pc = "traverse" /\ pc' = "returned" /\ UNCHANGED <<table, bit_table>>
        /\ Abstract!IsPrefixCodeFor(bit_table, Abstract!Symbols(table))
    BY <1>2, ReturnedCodes DEF Return
  <2> QED  BY <2>1 DEF Abstract!Next, Abstract!Return, Abstract!Promise
<1>3. CASE PushLeaves \/ Merge \/ StartTraversal \/ VisitLeaf \/ VisitInner
  <2>1. pc # "returned" /\ pc' # "returned" /\ table' = table
    BY <1>3 DEF PushLeaves, Merge, StartTraversal, VisitLeaf, VisitInner
  <2> QED  BY <2>1 DEF Abstract!vars
<1>4. CASE UNCHANGED vars
  BY <1>4 DEF vars, Abstract!vars
<1> QED
  BY <1>1, <1>2, <1>3, <1>4 DEF Next

\* For every set of frequency tables generate_prefix_codes returns non-empty
\* codes for exactly the codepoints of its table, none of which begins another,
\* and shows its caller nothing before: no node is lost in a queue or on the
\* stack, and no symbol gets no code or that of another.
THEOREM ImplementsPrefixCodeSpecCorrect == Spec => ImplementsPrefixCodeSpec
<1>1. Spec => []TypeInv
  BY TypeInvInit, TypeInvStep, PTL DEF Spec
<1>2. Spec => []PathsInv
  BY <1>1, PathsInvInit, PathsInvStep, PTL DEF Spec
<1>3. Spec => []TreeInv
  BY <1>1, TreeInvInit, TreeInvStep, PTL DEF Spec
<1> QED
  BY <1>1, <1>2, <1>3, RefinementInit, RefinementStep, PTL
  DEF Spec, ImplementsPrefixCodeSpec, Abstract!Spec
=============================================================================
