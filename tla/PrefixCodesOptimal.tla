-------------------------- MODULE PrefixCodesOptimal --------------------------
(***************************************************************************)
(* The machine-checked proof that the codes of generate_prefix_codes are   *)
(* minimal, for every set of frequency tables.                             *)
(*                                                                         *)
(* It follows the program and not the tree.  Codes are represented by      *)
(* their lengths alone, a function on the nodes that are queued; it is     *)
(* possible to have codes of these lengths if they fit a tree of some      *)
(* depth (Kraft's inequality).  A merge takes the two rarest nodes from    *)
(* the set of the queued ones and adds their parent: whatever lengths fit  *)
(* before, there are lengths that fit afterwards and save a bit for each   *)
(* occurrence of the two (GreedyStep).  So no codes for the table are      *)
(* cheaper than what the merges so far have spent together with some codes *)
(* for the queued nodes (MergeCostInv).  In the end only the root is       *)
(* queued, and the traversal spends exactly what was promised: each node   *)
(* on the stack is charged with what lies below it and its depth           *)
(* (TraversalCostInv).                                                     *)
(***************************************************************************)
EXTENDS PrefixCodesProofs

-----------------------------------------------------------------------------
(* Lengths of prefix codes.  The symbols are the numbers of a set Q; w     *)
(* gives the count of each and l the length of its code.                   *)

\* The bits that a text with these counts takes.
BitsOf(w, l, Q) == Total([q \in Q |-> w[q] * l[q]], Q)

\* The leaves that the codes take up of a full tree of depth n.
Room(l, n, Q) == Total([q \in Q |-> Pow2[n - l[q]]], Q)

\* Kraft's inequality: a tree of some depth has room for the codes.
Fits(l, Q) ==
  /\ l \in [Q -> Nat]
  /\ \E n \in Nat : (\A q \in Q : l[q] <= n) /\ Room(l, n, Q) <= Pow2[n]

\* What is summed up.
LEMMA RoomTerms ==
  ASSUME NEW Q, NEW l \in [Q -> Nat], NEW n \in Nat, \A q \in Q : l[q] <= n
  PROVE  \A q \in Q : n - l[q] \in Nat /\ Pow2[n - l[q]] \in Nat \ {0}
<1>1. \A q \in Q : n - l[q] \in Nat
  OBVIOUS
<1> QED  BY <1>1, Pow2Properties

\* Bits are a number.
LEMMA BitsOfType ==
  ASSUME NEW Q, IsFiniteSet(Q), NEW w \in [Q -> Nat], NEW l \in [Q -> Nat]
  PROVE  BitsOf(w, l, Q) \in Nat
<1> DEFINE f == [q \in Q |-> w[q] * l[q]]
<1>1. \A q \in Q : f[q] \in Nat
  OBVIOUS
<1> HIDE DEF f
<1>2. Total(f, Q) \in Nat
  BY <1>1, TotalProperties
<1> QED  BY <1>2 DEF BitsOf, f

\* m is l with the codes of p and q exchanged: it takes the same room in a tree
\* of depth n and no more bits.
Exchanged(m, l, w, Q, n, p, q) ==
  /\ m[p] = l[q] /\ m[q] = l[p]
  /\ \A z \in Q : z # p /\ z # q => m[z] = l[z]
  /\ Room(m, n, Q) = Room(l, n, Q)
  /\ BitsOf(w, m, Q) <= BitsOf(w, l, Q)

\* Exchanging the code of a symbol for a longer one of a symbol that is not
\* rarer saves bits and takes the same room.
LEMMA Exchange ==
  ASSUME NEW Q, IsFiniteSet(Q), NEW w \in [Q -> Nat], NEW l \in [Q -> Nat],
         NEW p \in Q, NEW q \in Q, w[p] <= w[q], l[p] <= l[q],
         NEW n \in Nat, \A z \in Q : l[z] <= n
  PROVE  \E m \in [Q -> Nat] : Exchanged(m, l, w, Q, n, p, q)
<1> USE DEF Exchanged
<1>1. CASE p = q
  <2>1. /\ l[p] = l[q] /\ \A z \in Q : z # p /\ z # q => l[z] = l[z]
        /\ BitsOf(w, l, Q) \in Nat
    BY <1>1, BitsOfType
  <2> QED  BY <1>1, <2>1
<1>2. CASE p # q
  <2> DEFINE m == [z \in Q |-> IF z = p THEN l[q] ELSE IF z = q THEN l[p] ELSE l[z]]
             R == Q \ {p, q}
             f == [z \in Q |-> w[z] * l[z]]
             g == [z \in Q |-> w[z] * m[z]]
             h == [z \in Q |-> Pow2[n - l[z]]]
             k == [z \in Q |-> Pow2[n - m[z]]]
  <2>1. /\ m \in [Q -> Nat] /\ m[p] = l[q] /\ m[q] = l[p]
        /\ \A z \in R : m[z] = l[z]
        /\ \A z \in Q : m[z] <= n
    BY <1>2
  <2> HIDE DEF m
  <2>2. IsFiniteSet(R)
    BY FS_Subset
  <2>3. \A z \in Q : f[z] \in Nat /\ g[z] \in Nat /\ h[z] \in Nat /\ k[z] \in Nat
    <3>1. \A z \in Q : Pow2[n - l[z]] \in Nat /\ Pow2[n - m[z]] \in Nat
      BY <2>1, RoomTerms
    <3>2. \A z \in Q : w[z] \in Nat /\ m[z] \in Nat /\ l[z] \in Nat
      BY <2>1
    <3> QED  BY <3>1, <3>2
  <2>4. \A z \in R : g[z] = f[z] /\ k[z] = h[z]
    BY <2>1
  <2>5. /\ f[p] = w[p] * l[p] /\ f[q] = w[q] * l[q]
        /\ g[p] = w[p] * l[q] /\ g[q] = w[q] * l[p]
        /\ k[p] = h[q] /\ k[q] = h[p]
    BY <2>1
  <2> HIDE DEF f, g, h, k
  <2>6. /\ Total(f, Q) = f[p] + f[q] + Total(f, R)
        /\ Total(g, Q) = g[p] + g[q] + Total(g, R)
        /\ Total(h, Q) = h[p] + h[q] + Total(h, R)
        /\ Total(k, Q) = k[p] + k[q] + Total(k, R)
    BY <1>2, <2>3, TotalTwo
  <2>7. /\ Total(f, R) = Total(g, R) /\ Total(h, R) = Total(k, R)
        /\ Total(f, R) \in Nat /\ Total(h, R) \in Nat
    <3>1. \A z \in R : f[z] \in Nat /\ f[z] = g[z] /\ h[z] \in Nat /\ h[z] = k[z]
      BY <2>3, <2>4
    <3> QED  BY <2>2, <3>1, TotalEqual, TotalProperties
  <2>8. g[p] + g[q] <= f[p] + f[q]
    <3>1. ASSUME NEW a \in Nat, NEW b \in Nat, NEW c \in Nat, NEW d \in Nat,
                 a <= b, c <= d
          PROVE  a * d + b * c <= a * c + b * d
      <4>1. PICK i \in Nat : b = a + i
        <5>1. b - a \in Nat /\ b = a + (b - a)
          BY <3>1
        <5> QED  BY <5>1
      <4>2. i * c <= i * d
        BY <3>1
      <4>3. b * c = a * c + i * c /\ b * d = a * d + i * d
        BY <4>1
      <4>4. a * c \in Nat /\ a * d \in Nat /\ i * c \in Nat /\ i * d \in Nat
        BY <4>1
      <4> QED  BY <4>2, <4>3, <4>4
    <3>2. w[p] \in Nat /\ w[q] \in Nat /\ l[p] \in Nat /\ l[q] \in Nat
      OBVIOUS
    <3> QED  BY <2>5, <3>1, <3>2
  <2>9. /\ Total(k, Q) = Total(h, Q)
        /\ Total(g, Q) <= Total(f, Q)
    <3>1. /\ f[p] \in Nat /\ f[q] \in Nat /\ g[p] \in Nat /\ g[q] \in Nat
          /\ h[p] \in Nat /\ h[q] \in Nat
      BY <2>3
    <3> QED  BY <2>5, <2>6, <2>7, <2>8, <3>1
  <2>10. /\ Room(m, n, Q) = Room(l, n, Q)
         /\ BitsOf(w, m, Q) <= BitsOf(w, l, Q)
    BY <2>9 DEF Room, BitsOf, f, g, h, k
  <2> QED  BY <2>1, <2>10
<1> QED  BY <1>1, <1>2

\* Without the symbol of the longest code the codes leave room in a tree that
\* is only as deep as the longest code of the others.
LEMMA RoomLeft ==
  ASSUME NEW Q, IsFiniteSet(Q), NEW l \in [Q -> Nat],
         NEW n \in Nat, \A z \in Q : l[z] <= n, Room(l, n, Q) <= Pow2[n],
         NEW x \in Q, NEW d \in 0 .. n, \A z \in Q \ {x} : l[z] <= d
  PROVE  /\ Room(l, d, Q \ {x}) \in Nat
         /\ Room(l, d, Q \ {x}) < Pow2[d]
<1> DEFINE R == Q \ {x}
           f == [z \in Q |-> Pow2[n - l[z]]]
           g == [z \in R |-> Pow2[d - l[z]]]
           k == Pow2[n - d]
<1>1. /\ n - d \in Nat /\ d \in Nat /\ k \in Nat \ {0} /\ Pow2[d] \in Nat
      /\ Pow2[n] = k * Pow2[d]
  <2>1. n - d \in Nat /\ d \in Nat /\ (n - d) + d = n
    OBVIOUS
  <2>2. Pow2[(n - d) + d] = Pow2[n - d] * Pow2[d]
    BY <2>1, Pow2Sum
  <2> QED  BY <2>1, <2>2, Pow2Properties
<1>2. \A z \in Q : f[z] \in Nat \ {0}
  BY RoomTerms
<1>3. \A z \in R : g[z] \in Nat /\ f[z] = k * g[z]
  <2> SUFFICES ASSUME NEW z \in R PROVE g[z] \in Nat /\ f[z] = k * g[z]
    OBVIOUS
  <2>1. d - l[z] \in Nat /\ n - l[z] = (n - d) + (d - l[z])
    BY <1>1
  <2>2. Pow2[(n - d) + (d - l[z])] = k * Pow2[d - l[z]]
    BY <1>1, <2>1, Pow2Sum
  <2>3. f[z] = Pow2[n - l[z]] /\ g[z] = Pow2[d - l[z]]
    OBVIOUS
  <2> QED  BY <2>1, <2>2, <2>3, Pow2Properties
<1>4. Total(f, Q) = Room(l, n, Q) /\ Total(g, R) = Room(l, d, R)
  BY DEF Room
<1>5. IsFiniteSet(R) /\ x \in Q
  BY FS_Subset
<1> HIDE DEF f, g, k, R
<1>6. Total(f, Q) = f[x] + Total(f, R)
  BY <1>2, <1>5, TotalProperties DEF R
<1>7. Total(f, R) = k * Total(g, R) /\ Total(g, R) \in Nat
  <2>1. k \in Nat
    BY <1>1
  <2> QED  BY <1>3, <1>5, <2>1, TotalScaled, TotalProperties
<1> DEFINE t == Total(g, R)
           p == Pow2[d]
<1>8. f[x] + k * t <= k * p /\ f[x] \in Nat \ {0} /\ t \in Nat /\ p \in Nat
  BY <1>1, <1>2, <1>4, <1>5, <1>6, <1>7
<1> HIDE DEF t, p
<1>9. t < p
  <2> SUFFICES ASSUME t >= p PROVE FALSE
    BY <1>8
  <2>1. k * t >= k * p /\ k * t \in Nat /\ k * p \in Nat
    BY <1>1, <1>8
  <2> QED  BY <1>8, <2>1
<1> QED  BY <1>4, <1>8, <1>9 DEF t, p, R

\* The greedy step.  Whatever codes fit, there are codes for the symbols after
\* the two rarest ones, x and y, have become one, that save one bit for each
\* occurrence of x and y: the two may as well have the longest codes, and these
\* be siblings.
LEMMA GreedyStep ==
  ASSUME NEW Q, IsFiniteSet(Q), NEW w \in [Q -> Nat], NEW l, Fits(l, Q),
         NEW x \in Q, NEW y \in Q, x # y,
         \A z \in Q : w[x] <= w[z], \A z \in Q \ {x} : w[y] <= w[z],
         NEW new, new \notin Q, NEW P, P = (Q \ {x, y}) \union {new},
         NEW v \in [P -> Nat], v[new] = w[x] + w[y],
         \A z \in Q \ {x, y} : v[z] = w[z]
  PROVE  \E m : /\ Fits(m, P)
                /\ BitsOf(v, m, P) \in Nat
                /\ BitsOf(v, m, P) + v[new] <= BitsOf(w, l, Q)
<1> DEFINE R == Q \ {x, y}
           W == Q \ {x}
<1>1. PICK n \in Nat : (\A q \in Q : l[q] <= n) /\ Room(l, n, Q) <= Pow2[n]
  BY DEF Fits
<1>2. l \in [Q -> Nat]
  BY DEF Fits
<1>3. PICK a \in Q : \A z \in Q : l[z] <= l[a]
  <2>1. Q # {} /\ \A z \in Q : l[z] \in Nat
    BY <1>2
  <2> QED  BY <2>1, LargestExists
<1>4. PICK k \in [Q -> Nat] : Exchanged(k, l, w, Q, n, x, a)
  <2>1. w[x] <= w[a] /\ l[x] <= l[a]
    BY <1>3
  <2>2. \A z \in Q : l[z] <= n
    BY <1>1
  <2> QED
    BY ONLY <1>2, <2>1, <2>2, IsFiniteSet(Q), w \in [Q -> Nat], x \in Q, a \in Q,
        n \in Nat, Exchange
<1>5. (\A z \in Q : k[z] <= k[x]) /\ (\A z \in Q : k[z] <= n)
  BY <1>1, <1>2, <1>3, <1>4 DEF Exchanged
<1>6. PICK b \in W : \A z \in W : k[z] <= k[b]
  <2>1. IsFiniteSet(W) /\ W # {} /\ \A z \in W : k[z] \in Nat
    BY FS_Subset
  <2> HIDE DEF W
  <2> QED  BY <2>1, LargestExists
<1>7. PICK d \in 0 .. n : d = k[b]
  BY <1>5, <1>6
<1>8. PICK j \in [Q -> Nat] : Exchanged(j, k, w, Q, n, y, b)
  <2>1. w[y] <= w[b] /\ k[y] <= k[b] /\ b \in Q
    BY <1>6
  <2>2. \A z \in Q : k[z] <= n
    BY <1>5
  <2> QED
    BY ONLY <2>1, <2>2, IsFiniteSet(Q), w \in [Q -> Nat], k \in [Q -> Nat], y \in Q,
        n \in Nat, Exchange
<1>9. /\ j[y] = d /\ j[x] >= d /\ \A z \in W : j[z] <= d
      /\ \A z \in Q : j[z] <= n
  BY <1>5, <1>6, <1>7, <1>8 DEF Exchanged
<1>10. Room(j, d, W) \in Nat /\ Room(j, d, W) < Pow2[d]
  <2>1. Room(j, n, Q) <= Pow2[n]
    BY <1>1, <1>4, <1>8 DEF Exchanged
  <2> QED  BY <1>9, <2>1, RoomLeft
<1>11. /\ IsFiniteSet(R) /\ IsFiniteSet(W) /\ IsFiniteSet(P)
       /\ W \ {y} = R /\ P \ {new} = R /\ y \in W /\ new \in P
       /\ R \subseteq Q /\ R \subseteq W /\ R \subseteq P
  BY FS_Subset, FS_AddElement
<1> HIDE DEF R, W
<1> DEFINE g == [z \in W |-> Pow2[d - j[z]]]
           t == Total(g, R)
<1>12. \A z \in W : g[z] \in Nat
  <2>1. \A z \in W : d - j[z] \in Nat
    BY <1>9 DEF W
  <2> QED  BY <2>1, Pow2Properties
<1>13. t \in Nat /\ t + 2 <= Pow2[d]
  <2>1. Room(j, d, W) = g[y] + t
    <3>1. Total(g, W) = g[y] + Total(g, W \ {y})
      BY <1>11, <1>12, TotalProperties
    <3> QED  BY <1>11, <3>1 DEF Room
  <2>2. g[y] = 1
    BY <1>9, <1>11, Pow2Properties
  <2>3. t \in Nat
    BY <1>11, <1>12, TotalProperties
  <2>4. Pow2[d] \in Nat
    BY Pow2Properties
  <2> HIDE DEF t, g
  <2> QED  BY <1>10, <2>1, <2>2, <2>3, <2>4
<1>14. d - 1 \in Nat /\ d \in Nat
  <2>1. d # 0
    <3> HIDE DEF t
    <3> QED  BY <1>13, Pow2Properties
  <2> QED  BY <2>1
<1> DEFINE m == [z \in P |-> IF z = new THEN d - 1 ELSE j[z]]
           h == [z \in P |-> Pow2[d - m[z]]]
           f == [z \in Q |-> w[z] * j[z]]
           e == [z \in P |-> v[z] * m[z]]
<1>15. /\ m \in [P -> Nat] /\ m[new] = d - 1
       /\ \A z \in R : m[z] = j[z] /\ z # new
       /\ \A z \in P : m[z] <= d
  BY <1>9, <1>11, <1>14 DEF R, W
<1> HIDE DEF m
<1>16. Fits(m, P)
  <2>1. \A z \in P : h[z] \in Nat
    BY <1>14, <1>15, RoomTerms
  <2>2. h[new] = 2
    <3>1. d - (d - 1) = 0 + 1
      BY <1>14
    <3>2. Pow2[0 + 1] = 2 * Pow2[0] /\ Pow2[0] = 1
      BY Pow2Properties
    <3> QED  BY <1>11, <1>15, <3>1, <3>2
  <2>3. \A z \in R : g[z] = h[z] /\ g[z] \in Nat
    BY <1>11, <1>12, <1>15
  <2>4. Total(h, P) = Room(m, d, P)
    BY DEF Room
  <2> HIDE DEF g, h
  <2>5. Total(h, P) = h[new] + Total(h, R)
    <3>1. Total(h, P) = h[new] + Total(h, P \ {new})
      BY ONLY <1>11, <2>1, TotalProperties
    <3> QED  BY ONLY <1>11, <3>1
  <2>6. Total(h, R) = t
    BY <1>11, <2>3, TotalEqual
  <2>7. Room(m, d, P) <= Pow2[d]
    <3> HIDE DEF t
    <3> QED  BY <1>13, <2>2, <2>4, <2>5, <2>6
  <2> QED  BY <1>14, <1>15, <2>7 DEF Fits
<1>17. BitsOf(v, m, P) \in Nat /\ BitsOf(v, m, P) + v[new] <= BitsOf(w, j, Q)
  <2>1. \A z \in Q : f[z] \in Nat
    OBVIOUS
  <2>2. \A z \in P : e[z] \in Nat
    BY <1>15
  <2>3. \A z \in R : f[z] = e[z] /\ f[z] \in Nat
    BY <1>11, <1>15 DEF R
  <2>4. Total(f, Q) = BitsOf(w, j, Q) /\ Total(e, P) = BitsOf(v, m, P)
    BY DEF BitsOf
  <2>5. /\ f[x] = w[x] * j[x] /\ f[y] = w[y] * j[y]
        /\ e[new] = (w[x] + w[y]) * (d - 1)
    BY <1>11, <1>15
  <2> HIDE DEF e, f
  <2>6. Total(f, Q) = f[x] + f[y] + Total(f, R)
    BY <2>1, TotalTwo DEF R
  <2>7. Total(e, P) = e[new] + Total(e, R) /\ Total(e, P) \in Nat
    <3>1. /\ Total(e, P) = e[new] + Total(e, P \ {new})
          /\ Total(e, P) \in Nat
      BY ONLY <1>11, <2>2, TotalProperties
    <3> QED  BY ONLY <1>11, <3>1
  <2>8. Total(e, R) = Total(f, R) /\ Total(f, R) \in Nat
    BY <1>11, <2>3, TotalEqual, TotalProperties
  <2>9. e[new] + (w[x] + w[y]) <= f[x] + f[y]
    <3>1. ASSUME NEW p \in Nat, NEW q \in Nat, NEW i \in Nat, NEW c \in Nat, c - 1 \in Nat, i >= c
          PROVE  (p + q) * (c - 1) + (p + q) <= p * i + q * c
      <4>1. p * i >= p * c
        BY <3>1
      <4>2. (p + q) * (c - 1) = p * c + q * c - (p + q)
        OBVIOUS
      <4>3. p * i \in Nat /\ p * c \in Nat /\ q * c \in Nat
        OBVIOUS
      <4> QED  BY <4>1, <4>2, <4>3
    <3>2. w[x] \in Nat /\ w[y] \in Nat /\ j[x] \in Nat
      OBVIOUS
    <3> QED  BY <1>9, <1>14, <2>5, <3>1, <3>2
  <2>10. f[x] \in Nat /\ f[y] \in Nat /\ e[new] \in Nat
    BY <1>11, <2>1, <2>2
  <2> QED  BY <2>4, <2>6, <2>7, <2>8, <2>9, <2>10
<1>18. /\ BitsOf(w, j, Q) \in Nat /\ BitsOf(w, k, Q) \in Nat
       /\ BitsOf(w, l, Q) \in Nat /\ v[new] \in Nat
  BY <1>2, <1>11, BitsOfType
<1> QED  BY <1>4, <1>8, <1>16, <1>17, <1>18 DEF Exchanged

-----------------------------------------------------------------------------
(* The queues as a set.                                                    *)

\* No node is queued twice.
Distinct(f, s) ==
  /\ IsInjective(f) /\ IsInjective(s)
  /\ Range(f) \intersect Range(s) = {}

DistinctInv == pc = "merge" => Distinct(first, second)

\* Each merge makes one node and takes one away from the queues.
CountInv ==
  /\ pc = "merge" => Len(nodes) + Queued(first, second) = 2 * Len(table)
  /\ pc = "traverse" => Len(nodes) + 1 = 2 * Len(table)

\* The head of a queue and what is behind it.
LEMMA HeadApart ==
  ASSUME NEW q \in Seq(Pointer), q # <<>>, IsInjective(q)
  PROVE  /\ Range(q) = {Head(q)} \union Range(Tail(q))
         /\ Head(q) \notin Range(Tail(q))
         /\ IsInjective(Tail(q))
<1>1. /\ DOMAIN q = 1 .. Len(q) /\ Len(q) \in Nat /\ Len(q) >= 1
      /\ Head(q) = q[1]
  BY LenProperties, EmptySeq
<1>2. /\ DOMAIN Tail(q) = 1 .. (Len(q) - 1)
      /\ \A i \in 1 .. (Len(q) - 1) : Tail(q)[i] = q[i + 1]
  BY <1>1, HeadTailProperties, LenProperties
<1>3. ASSUME NEW i \in DOMAIN q, i # 1
      PROVE  i - 1 \in DOMAIN Tail(q) /\ Tail(q)[i - 1] = q[i]
  BY <1>1, <1>2, <1>3
<1>4. ASSUME NEW i \in DOMAIN Tail(q)
      PROVE  i + 1 \in DOMAIN q /\ Tail(q)[i] = q[i + 1] /\ i + 1 # 1 /\ i \in Nat
  BY <1>1, <1>2
<1>5. 1 \in DOMAIN q
  BY <1>1
<1>6. Range(q) = {Head(q)} \union Range(Tail(q))
  <2>1. ASSUME NEW x \in Range(q) PROVE x \in {Head(q)} \union Range(Tail(q))
    BY <1>1, <1>3 DEF Range
  <2>2. Head(q) \in Range(q)
    BY <1>1, <1>5 DEF Range
  <2>3. ASSUME NEW x \in Range(Tail(q)) PROVE x \in Range(q)
    BY <1>4 DEF Range
  <2> QED  BY <2>1, <2>2, <2>3
<1>7. Head(q) \notin Range(Tail(q))
  BY <1>1, <1>4, <1>5 DEF Range, IsInjective
<1>8. IsInjective(Tail(q))
  <2> SUFFICES ASSUME NEW i \in DOMAIN Tail(q), NEW j \in DOMAIN Tail(q),
                      Tail(q)[i] = Tail(q)[j]
               PROVE  i = j
    BY DEF IsInjective
  <2>1. i + 1 = j + 1
    BY <1>4 DEF IsInjective
  <2> QED  BY <1>4, <2>1
<1> QED  BY <1>6, <1>7, <1>8

\* A pop takes one node from the set.
LEMMA PopSmallestDistinct ==
  ASSUME NEW f \in Seq(Pointer), NEW s \in Seq(Pointer), Queued(f, s) >= 1,
         Distinct(f, s)
  PROVE  /\ PopSmallest(f, s).result \in Range(f) \union Range(s)
         /\ Range(PopSmallest(f, s).first) \union Range(PopSmallest(f, s).second)
              = (Range(f) \union Range(s)) \ {PopSmallest(f, s).result}
         /\ Distinct(PopSmallest(f, s).first, PopSmallest(f, s).second)
<1>1. CASE TakesFirst(f, s)
  <2>1. f # <<>>
    BY <1>1 DEF TakesFirst
  <2>2. /\ Range(f) = {Head(f)} \union Range(Tail(f))
        /\ Head(f) \notin Range(Tail(f))
        /\ IsInjective(Tail(f))
    BY <2>1, HeadApart DEF Distinct
  <2>3. /\ PopSmallest(f, s).result = Head(f)
        /\ PopSmallest(f, s).first = Tail(f)
        /\ PopSmallest(f, s).second = s
    BY <1>1 DEF PopSmallest
  <2> QED  BY <2>2, <2>3 DEF Distinct
<1>2. CASE ~ TakesFirst(f, s)
  <2>1. s # <<>>
    BY <1>2, LenProperties, EmptySeq DEF TakesFirst, Queued
  <2>2. /\ Range(s) = {Head(s)} \union Range(Tail(s))
        /\ Head(s) \notin Range(Tail(s))
        /\ IsInjective(Tail(s))
    BY <2>1, HeadApart DEF Distinct
  <2>3. /\ PopSmallest(f, s).result = Head(s)
        /\ PopSmallest(f, s).first = f
        /\ PopSmallest(f, s).second = Tail(s)
    BY <1>2 DEF PopSmallest
  <2> QED  BY <2>2, <2>3 DEF Distinct
<1> QED  BY <1>1, <1>2

\* A merge replaces two nodes of the set by their parent.
LEMMA MergeQueued ==
  ASSUME TypeOK, Merge, Distinct(first, second),
         NEW L, L = PopLeft.result, NEW R, R = PopRight.result,
         NEW new, new = Len(nodes) + 1
  PROVE  /\ L \in QueuedNodes /\ R \in QueuedNodes /\ L # R
         /\ QueuedNodes \subseteq Pointer /\ new \notin Pointer
         /\ QueuedNodes' = (QueuedNodes \ {L, R}) \union {new}
         /\ Distinct(first, second)'
<1>1. /\ first \in Seq(Pointer) /\ second \in Seq(Pointer)
      /\ Queued(first, second) >= 1
      /\ PopLeft.first \in Seq(Pointer) /\ PopLeft.second \in Seq(Pointer)
      /\ Queued(PopLeft.first, PopLeft.second) >= 1
      /\ PopRight.first \in Seq(Pointer) /\ PopRight.second \in Seq(Pointer)
  BY MergePops DEF TypeOK
<1>2. /\ L \in QueuedNodes
      /\ Range(PopLeft.first) \union Range(PopLeft.second) = QueuedNodes \ {L}
      /\ Distinct(PopLeft.first, PopLeft.second)
  BY <1>1, PopSmallestDistinct DEF PopLeft, QueuedNodes
<1>3. /\ R \in Range(PopLeft.first) \union Range(PopLeft.second)
      /\ Range(PopRight.first) \union Range(PopRight.second)
           = (Range(PopLeft.first) \union Range(PopLeft.second)) \ {R}
      /\ Distinct(PopRight.first, PopRight.second)
  BY <1>1, <1>2, PopSmallestDistinct DEF PopRight
<1>4. /\ first' = PopRight.first /\ second' = Append(PopRight.second, new)
  BY DEF Merge
<1>5. QueuedNodes \subseteq Pointer /\ new \notin Pointer /\ new \in Nat
  <2>1. Len(nodes) \in Nat
    BY MergeNodes
  <2>2. QueuedNodes \subseteq Pointer
    BY <1>1, LenProperties, ElementOfSeq DEF QueuedNodes, Range
  <2> QED  BY <2>1, <2>2 DEF Pointer
<1> DEFINE s == PopRight.second
<1>6. /\ s \in Seq(Pointer \union {new}) /\ new \in Pointer \union {new}
      /\ s \in Seq(Pointer)
  BY <1>1, SeqMonotonic
<1>7. Range(second') = Range(s) \union {new}
  BY <1>4, <1>6, RangeAppend
<1>8. new \notin Range(s) /\ new \notin Range(PopRight.first)
  BY <1>2, <1>3, <1>5
<1>9. IsInjective(second')
  <2>1. /\ DOMAIN s = 1 .. Len(s) /\ Len(s) \in Nat
        /\ DOMAIN second' = 1 .. (Len(s) + 1)
        /\ \A i \in 1 .. Len(s) : second'[i] = s[i]
        /\ second'[Len(s) + 1] = new
    BY <1>4, <1>6, LenProperties, AppendProperties
  <2>2. \A i \in 1 .. Len(s) : s[i] # new
    BY <1>8, <2>1 DEF Range
  <2>3. \A i \in DOMAIN second' : i \in 1 .. Len(s) \/ i = Len(s) + 1
    BY <2>1
  <2>4. IsInjective(s)
    BY <1>3 DEF Distinct
  <2> HIDE DEF s
  <2> QED  BY <2>1, <2>2, <2>3, <2>4 DEF IsInjective
<1>10. Distinct(first, second)'
  BY <1>3, <1>4, <1>7, <1>8, <1>9 DEF Distinct
<1> QED  BY <1>2, <1>3, <1>4, <1>5, <1>7, <1>10 DEF QueuedNodes

\* It takes the two rarest.
LEMMA MergeRarest ==
  ASSUME TypeOK, QueuesAscending, Merge, Distinct(first, second),
         NEW L, L = PopLeft.result, NEW R, R = PopRight.result
  PROVE  /\ \A z \in QueuedNodes : nodes[L].count <= nodes[z].count
         /\ \A z \in QueuedNodes \ {L} : nodes[R].count <= nodes[z].count
<1>1. /\ first \in Seq(Pointer) /\ second \in Seq(Pointer)
      /\ Queued(first, second) >= 1
      /\ PopLeft.first \in Seq(Pointer) /\ PopLeft.second \in Seq(Pointer)
      /\ Queued(PopLeft.first, PopLeft.second) >= 1
      /\ L \in Pointer /\ R \in Pointer
  BY MergePops DEF TypeOK
<1>2. /\ Range(PopLeft.first) \union Range(PopLeft.second) = QueuedNodes \ {L}
      /\ Distinct(PopLeft.first, PopLeft.second)
  BY <1>1, PopSmallestDistinct DEF PopLeft, QueuedNodes
<1>3. Range(PopRight.first) \union Range(PopRight.second) = (QueuedNodes \ {L}) \ {R}
  BY <1>1, <1>2, PopSmallestDistinct DEF PopRight
<1>4. Below(L, PopLeft.first) /\ Below(L, PopLeft.second)
  BY <1>1, PopSmallestLeast DEF PopLeft, QueuesAscending
<1>5. Below(R, PopRight.first) /\ Below(R, PopRight.second)
  BY MergeLeast
<1>6. nodes[L].count \in Nat /\ nodes[R].count \in Nat
  BY <1>1, NodeCounts
<1> QED  BY <1>2, <1>3, <1>4, <1>5, <1>6 DEF Below, Range

\* The nodes left at the end of the merging.
LEMMA RootQueued ==
  ASSUME TypeInv, StartTraversal
  PROVE  Root \in Pointer /\ QueuedNodes = {Root} /\ Queued(first, second) = 1
<1> USE DEF TypeInv, StartTraversal
<1>1. /\ first \in Seq(Pointer) /\ second \in Seq(Pointer)
      /\ Len(first) \in Nat /\ Len(second) \in Nat
      /\ DOMAIN first = 1 .. Len(first) /\ DOMAIN second = 1 .. Len(second)
  BY LenProperties DEF TypeOK
<1>2. Len(first) + Len(second) = 1
  BY <1>1 DEF QueuesNotEmpty, Queued
<1>3. ASSUME NEW q \in Seq(Pointer), Len(q) = 1
      PROVE  Head(q) \in Pointer /\ Range(q) = {Head(q)}
  <2>1. q # <<>> /\ DOMAIN q = 1 .. 1 /\ 1 \in DOMAIN q
    BY <1>3, LenProperties, EmptySeq
  <2> QED  BY <2>1, HeadTailProperties DEF Range
<1>4. Range(<<>>) = {}
  BY DEF Range
<1>5. CASE second = <<>>
  <2>1. Len(first) = 1
    <3>1. Len(second) = 0
      BY <1>5
    <3>2. Len(first) \in Nat /\ Len(second) \in Nat
      BY <1>1
    <3> QED  BY ONLY <1>2, <3>1, <3>2
  <2> QED  BY <1>1, <1>2, <1>3, <1>4, <1>5, <2>1 DEF Root, QueuedNodes, Queued
<1>6. CASE second # <<>>
  <2>1. Len(second) = 1 /\ first = <<>>
    BY <1>1, <1>2, <1>6, EmptySeq
  <2> QED  BY <1>1, <1>2, <1>3, <1>4, <1>6, <2>1 DEF Root, QueuedNodes, Queued
<1> QED  BY <1>5, <1>6

\* The queues are empty initially.
LEMMA DistinctInvInit == Init => DistinctInv /\ CountInv
  BY DEF Init, DistinctInv, CountInv

\* Every step keeps the queued nodes apart and their number.
LEMMA DistinctInvStep ==
  TypeInv /\ DistinctInv /\ CountInv /\ [Next]_vars => DistinctInv' /\ CountInv'
<1> SUFFICES ASSUME TypeInv, DistinctInv, CountInv, [Next]_vars
             PROVE  DistinctInv' /\ CountInv'
  OBVIOUS
<1>1. CASE PushLeaves
  <2> DEFINE n == Len(table)
  <2>1. n \in Nat /\ pc' = "merge" /\ second' = <<>> /\ table' = table
    BY <1>1, TableEntries DEF TypeInv, TypeOK, StartsEmpty, PushLeaves
  <2>2. /\ nodes' = [i \in 1 .. n |-> LeafNode(table[i])]
        /\ first' = [i \in 1 .. n |-> i]
    BY <1>1 DEF PushLeaves
  <2> HIDE DEF n
  <2>3. IsInjective(first') /\ IsInjective(second') /\ Range(second') = {}
    BY <2>1, <2>2 DEF IsInjective, Range
  <2>4. Len(nodes') = n /\ Len(first') = n /\ Len(second') = 0
    BY <2>1, <2>2
  <2>5. DistinctInv'
    BY <2>3 DEF DistinctInv, Distinct
  <2>6. Len(nodes') + (Len(first') + Len(second')) = 2 * n
    BY ONLY <2>1, <2>4
  <2> QED  BY <2>1, <2>5, <2>6 DEF CountInv, Queued, n
<1>2. CASE Merge
  <2>1. pc = "merge" /\ pc' = "merge" /\ table' = table
    BY <1>2 DEF Merge
  <2>2. PICK L, R, new : L = PopLeft.result /\ R = PopRight.result /\ new = Len(nodes) + 1
    OBVIOUS
  <2>3. Distinct(first, second)'
    BY <1>2, <2>1, <2>2, MergeQueued DEF TypeInv, DistinctInv
  <2>4. /\ Len(nodes) \in Nat /\ Len(nodes') = Len(nodes) + 1
        /\ Queued(first, second) \in Nat
        /\ Queued(PopRight.first, PopRight.second) = Queued(first, second) - 2
        /\ PopRight.first \in Seq(Pointer) /\ PopRight.second \in Seq(Pointer)
    BY <1>2, MergeNodes, MergePops DEF TypeInv
  <2>5. /\ first' = PopRight.first
        /\ second' = Append(PopRight.second, Len(nodes) + 1)
    BY <1>2 DEF Merge
  <2>6. Len(second') = Len(PopRight.second) + 1
    <3>1. /\ PopRight.second \in Seq(Pointer \union {Len(nodes) + 1})
          /\ Len(nodes) + 1 \in Pointer \union {Len(nodes) + 1}
      BY <2>4, SeqMonotonic
    <3> QED  BY <2>5, <3>1, AppendProperties
  <2>7. Len(first') \in Nat /\ Len(PopRight.second) \in Nat
    BY <2>4, <2>5, LenProperties
  <2>8. Len(nodes) + Queued(first, second) = 2 * Len(table)
    BY <2>1 DEF CountInv
  <2>9. Len(first') + Len(PopRight.second) = Queued(first, second) - 2
    BY <2>4, <2>5 DEF Queued
  <2>10. Len(nodes') + (Len(first') + Len(second')) = 2 * Len(table)
    <3>1. PICK n \in Nat, q \in Nat, a \in Nat, b \in Nat :
            /\ n = Len(nodes) /\ q = Queued(first, second)
            /\ a = Len(first') /\ b = Len(PopRight.second)
      BY <2>4, <2>7
    <3>2. a + b = q - 2
      BY <2>9, <3>1
    <3>3. (n + 1) + (a + (b + 1)) = n + q
      BY ONLY <3>2, n \in Nat, q \in Nat, a \in Nat, b \in Nat
    <3>4. /\ Len(nodes') = n + 1 /\ Len(first') = a /\ Len(second') = b + 1
          /\ n + q = 2 * Len(table)
      BY <2>4, <2>6, <2>8, <3>1
    <3> QED  BY ONLY <3>3, <3>4
  <2> QED  BY <2>1, <2>3, <2>10 DEF DistinctInv, CountInv, Queued
<1>3. CASE StartTraversal
  <2>1. /\ pc = "merge" /\ pc' = "traverse" /\ table' = table /\ nodes' = nodes
        /\ Queued(first, second) = 1
    BY <1>3, RootQueued DEF StartTraversal
  <2> QED  BY <2>1 DEF DistinctInv, CountInv
<1>4. CASE UNCHANGED <<nodes, table, first, second>> /\ pc' # "merge"
           /\ (pc' = "traverse" => pc = "traverse")
  BY <1>4 DEF DistinctInv, CountInv
<1>5. CASE GenerateTrivial \/ VisitLeaf \/ VisitInner \/ Return
  BY <1>4, <1>5 DEF GenerateTrivial, VisitLeaf, VisitInner, Return
<1>6. CASE UNCHANGED vars
  BY <1>6 DEF vars, DistinctInv, CountInv, Distinct, Queued
<1> QED
  BY <1>1, <1>2, <1>3, <1>5, <1>6 DEF Next

-----------------------------------------------------------------------------
(* Merging loses no bits.                                                  *)

\* The bits spent below each node: C is the weighted length of the paths from
\* it to its leaves, since each inner node adds one bit for each occurrence.
IsCost(C) ==
  /\ C \in [Nat -> Nat]
  /\ \A i \in Pointer :
       IF IsLeaf(nodes[i])
         THEN C[i] = 0
         ELSE C[i] = nodes[i].count + C[nodes[i].left] + C[nodes[i].right]

Weights(Q) == [q \in Q |-> nodes[q].count]

\* What codes of these lengths cost for the table.
CostOf(l) == BitsOf(TableCounts(table), l, DOMAIN table)

\* No codes for the table that fit cost less than some codes for the roots of
\* the trees in the queues do together with what is spent below these roots.
NothingLost(C) ==
  \A l : Fits(l, DOMAIN table) =>
    \E m : /\ Fits(m, QueuedNodes)
           /\ BitsOf(Weights(QueuedNodes), m, QueuedNodes) + Total(C, QueuedNodes)
                <= CostOf(l)

MergeCostInv == pc = "merge" => \E C : IsCost(C) /\ NothingLost(C)

\* What the table offers.
LEMMA TableFunction ==
  ASSUME NEW t \in Tables
  PROVE  /\ IsFiniteSet(DOMAIN t)
         /\ DOMAIN t = 1 .. Len(t)
         /\ TableCounts(t) \in [DOMAIN t -> Nat]
         /\ \A i \in DOMAIN t : TableCounts(t)[i] = t[i].count
<1>1. /\ Len(t) \in Nat /\ DOMAIN t = 1 .. Len(t)
      /\ \A i \in DOMAIN t : t[i].count \in Nat
  BY TableEntries DEF TableNode
<1>2. IsFiniteSet(1 .. Len(t))
  <2>1. 1 \in Int /\ Len(t) \in Int
    BY <1>1
  <2> QED  BY ONLY <2>1, FS_Interval
<1> QED  BY <1>1, <1>2 DEF TableCounts

\* The leaves stand for the symbols of the table.
LEMMA MergeCostInvPushLeaves ==
  ASSUME TypeInv, PushLeaves
  PROVE  MergeCostInv'
<1> DEFINE n == Len(table)
           C == [i \in Nat |-> 0]
           Q == DOMAIN table
           w == TableCounts(table)
<1>1. /\ table \in Tables /\ table' = table
      /\ nodes' = [i \in 1 .. n |-> LeafNode(table[i])]
      /\ first' = [i \in 1 .. n |-> i]
      /\ second' = <<>>
  BY DEF TypeInv, TypeOK, StartsEmpty, PushLeaves
<1>2. /\ n \in Nat /\ Q = 1 .. n /\ IsFiniteSet(Q)
      /\ w \in [Q -> Nat] /\ \A i \in Q : w[i] = table[i].count
  BY <1>1, TableEntries, TableFunction
<1> HIDE DEF n, w
<1>3. QueuedNodes' = Q /\ Pointer' = Q /\ Q \subseteq Nat
  <2>1. Range(first') = 1 .. n
    BY <1>1, <1>2 DEF Range
  <2>2. Range(second') = {}
    BY <1>1 DEF Range
  <2>3. Len(nodes') = n
    BY <1>1, <1>2
  <2> QED  BY <1>2, <2>1, <2>2, <2>3 DEF QueuedNodes, Pointer
<1> HIDE DEF Q
<1>4. \A i \in Q : nodes'[i] = LeafNode(table[i])
  BY <1>1, <1>2
<1>5. \A i \in Q : IsLeaf(nodes'[i]) /\ nodes'[i].count = w[i]
  <2>1. \A e : IsLeaf(LeafNode(e)) /\ LeafNode(e).count = e.count
    BY DEF LeafNode, IsLeaf
  <2> QED  BY <1>2, <1>4, <2>1
<1>6. IsCost(C)'
  BY <1>3, <1>5 DEF IsCost
<1>7. Weights(QueuedNodes)' = w
  BY <1>2, <1>3, <1>5 DEF Weights
<1>8. Total(C, Q) = 0
  <2>1. \A x \in Q : C[x] = 0
    BY <1>3
  <2> HIDE DEF C
  <2> QED  BY <1>2, <2>1, TotalZero
<1> HIDE DEF C
<1>9. NothingLost(C)'
  <2> SUFFICES ASSUME NEW l, Fits(l, Q)
               PROVE  BitsOf(w, l, Q) + Total(C, Q) <= BitsOf(w, l, Q)
    BY <1>1, <1>3, <1>7 DEF NothingLost, CostOf, Q, w
  <2>1. BitsOf(w, l, Q) \in Nat
    BY <1>2, BitsOfType DEF Fits
  <2> QED  BY <1>8, <2>1
<1> QED  BY <1>6, <1>9 DEF MergeCostInv

\* A merge is the greedy step.
LEMMA MergeCostInvMerge ==
  ASSUME TypeInv, QueuesAscending, DistinctInv, MergeCostInv, Merge
  PROVE  MergeCostInv'
<1> USE DEF TypeInv
<1>1. pc = "merge" /\ table' = table
  BY DEF Merge
<1>2. PICK L, R, new : L = PopLeft.result /\ R = PopRight.result /\ new = Len(nodes) + 1
  OBVIOUS
<1>3. PICK C : IsCost(C) /\ NothingLost(C)
  BY <1>1 DEF MergeCostInv
<1>4. PICK Q, P, w, v :
        /\ Q = QueuedNodes /\ P = QueuedNodes'
        /\ w = Weights(Q) /\ v = Weights(QueuedNodes)'
  OBVIOUS
<1>5. /\ L \in Q /\ R \in Q /\ L # R /\ Q \subseteq Pointer /\ new \notin Pointer
      /\ P = (Q \ {L, R}) \union {new}
      /\ \A z \in Q : nodes[L].count <= nodes[z].count
      /\ \A z \in Q \ {L} : nodes[R].count <= nodes[z].count
  BY <1>1, <1>2, <1>4, MergeQueued, MergeRarest DEF DistinctInv
<1>6. /\ Len(nodes) \in Nat /\ Pointer' = Pointer \union {new} /\ Pointer \subseteq Nat
      /\ new \in Nat
      /\ \A i \in Pointer : nodes'[i] = nodes[i] /\ nodes[i].count \in Nat
      /\ nodes'[new].left = L /\ nodes'[new].right = R /\ ~ IsLeaf(nodes'[new])
      /\ nodes'[new].count = nodes[L].count + nodes[R].count
  <2>1. /\ Len(nodes) \in Nat /\ Len(nodes') = new
        /\ \A i \in Pointer : nodes'[i] = nodes[i]
        /\ nodes'[new] = ParentNode(L, R)
    BY <1>2, MergeNodes
  <2>2. Pointer' = Pointer \union {new} /\ Pointer \subseteq Nat /\ new \in Nat
    BY <1>2, <2>1 DEF Pointer
  <2>3. L # 0 /\ R # 0
    BY <1>5 DEF Pointer
  <2> QED  BY <2>1, <2>2, <2>3, NodeCounts DEF ParentNode, IsLeaf, NullPtr
<1>7. /\ IsFiniteSet(Q) /\ IsFiniteSet(P) /\ new \in P /\ new \notin Q
      /\ P \ {new} = Q \ {L, R}
  <2>1. IsFiniteSet(Pointer)
    <3>1. 1 \in Int /\ Len(nodes) \in Int
      BY <1>6
    <3> QED  BY ONLY <3>1, FS_Interval DEF Pointer
  <2>2. IsFiniteSet(Q)
    BY <1>5, <2>1, FS_Subset
  <2>3. IsFiniteSet(Q \ {L, R})
    BY <2>2, FS_Subset
  <2>4. IsFiniteSet(P)
    BY <1>5, <2>3, FS_AddElement
  <2> QED  BY <1>5, <2>2, <2>4
<1>8. /\ w \in [Q -> Nat] /\ \A z \in Q : w[z] = nodes[z].count
      /\ v \in [P -> Nat] /\ v[new] = w[L] + w[R]
      /\ \A z \in Q \ {L, R} : v[z] = w[z]
  <2>1. w = [q \in Q |-> nodes[q].count] /\ v = [q \in P |-> nodes'[q].count]
    BY <1>4 DEF Weights
  <2>2. \A z \in Q : nodes'[z].count = nodes[z].count /\ nodes[z].count \in Nat
    BY <1>5, <1>6
  <2>3. nodes'[new].count \in Nat
    <3>1. L \in Pointer /\ R \in Pointer
      BY <1>5
    <3>2. nodes[L].count \in Nat /\ nodes[R].count \in Nat
      BY <1>6, <3>1
    <3> QED  BY <1>6, <3>2
  <2>4. \A z \in P : nodes'[z].count \in Nat
    BY <1>5, <2>2, <2>3
  <2> QED  BY <1>5, <1>6, <1>7, <2>1, <2>2, <2>4
<1> DEFINE D == [i \in Nat |-> IF i = new THEN v[new] + C[L] + C[R] ELSE C[i]]
<1>9. /\ C \in [Nat -> Nat] /\ D \in [Nat -> Nat] /\ L \in Nat /\ R \in Nat
      /\ D[new] = v[new] + C[L] + C[R]
      /\ \A i \in Pointer : D[i] = C[i]
      /\ v[new] \in Nat
  <2>1. C \in [Nat -> Nat] /\ L \in Nat /\ R \in Nat
    BY <1>3, <1>5, <1>6 DEF IsCost
  <2>2. v[new] \in Nat
    BY <1>7, <1>8
  <2>3. v[new] + C[L] + C[R] \in Nat /\ \A i \in Nat : C[i] \in Nat
    BY ONLY <2>1, <2>2
  <2>4. D \in [Nat -> Nat] /\ D[new] = v[new] + C[L] + C[R]
    BY <1>6, <2>3
  <2>5. \A i \in Pointer : i \in Nat /\ i # new
    BY <1>5, <1>6
  <2>6. \A i \in Pointer : D[i] = C[i]
    BY <2>5
  <2> QED  BY <2>1, <2>2, <2>4, <2>6
<1> HIDE DEF D
<1>10. IsCost(D)'
  <2>1. ASSUME NEW i \in Pointer
        PROVE  IF IsLeaf(nodes'[i])
                 THEN D[i] = 0
                 ELSE D[i] = nodes'[i].count + D[nodes'[i].left] + D[nodes'[i].right]
    <3>1. ~ IsLeaf(nodes[i]) => nodes[i].left \in Pointer /\ nodes[i].right \in Pointer
      BY ChildrenType
    <3>2. nodes'[i] = nodes[i] /\ D[i] = C[i]
      BY <1>6, <1>9
    <3>3. CASE IsLeaf(nodes[i])
      BY <1>3, <3>2, <3>3 DEF IsCost
    <3>4. CASE ~ IsLeaf(nodes[i])
      <4>1. D[nodes[i].left] = C[nodes[i].left] /\ D[nodes[i].right] = C[nodes[i].right]
        BY <1>9, <3>1, <3>4
      <4> QED  BY <1>3, <3>2, <3>4, <4>1 DEF IsCost
    <3> QED  BY <3>3, <3>4
  <2>2. ~ IsLeaf(nodes'[new])
          /\ D[new] = nodes'[new].count + D[nodes'[new].left] + D[nodes'[new].right]
    <3>1. nodes'[new].count = v[new] /\ D[L] = C[L] /\ D[R] = C[R]
      BY <1>5, <1>6, <1>8, <1>9
    <3> QED  BY <1>6, <1>9, <3>1
  <2> QED  BY <1>6, <1>9, <2>1, <2>2 DEF IsCost
<1>11. /\ Total(D, P) = v[new] + Total(C, Q)
       /\ Total(C, Q) \in Nat
  <2> DEFINE S == Q \ {L, R}
  <2>1. (\A x \in Q : C[x] \in Nat) /\ (\A x \in P : D[x] \in Nat)
    BY <1>5, <1>6, <1>9
  <2>2. /\ Total(C, Q) = C[L] + C[R] + Total(C, S)
        /\ Total(C, S) \in Nat
    BY ONLY <1>5, <1>7, <2>1, TotalTwo
  <2>3. Total(D, P) = D[new] + Total(D, S)
    <3>1. Total(D, P) = D[new] + Total(D, P \ {new})
      BY ONLY <1>7, <2>1, TotalProperties
    <3> QED  BY ONLY <1>7, <3>1
  <2>4. Total(D, S) = Total(C, S)
    <3>1. IsFiniteSet(S)
      BY <1>7, FS_Subset
    <3>2. \A x \in S : D[x] \in Nat /\ D[x] = C[x]
      <4>1. \A x \in S : x \in Pointer /\ x \in Nat
        BY <1>5, <1>6
      <4>2. \A x \in S : D[x] \in Nat
        BY <1>9, <4>1
      <4> QED  BY <1>9, <4>1, <4>2
    <3> QED  BY <3>1, <3>2, TotalEqual
  <2>5. C[L] \in Nat /\ C[R] \in Nat
    BY <1>9
  <2>6. Total(C, Q) \in Nat
    BY ONLY <1>7, <2>1, TotalProperties
  <2> HIDE DEF S
  <2> QED  BY ONLY <1>9, <2>2, <2>3, <2>4, <2>5, <2>6
<1>12. NothingLost(D)'
  <2> SUFFICES ASSUME NEW l, Fits(l, DOMAIN table)
               PROVE  \E m : Fits(m, P) /\ BitsOf(v, m, P) + Total(D, P) <= CostOf(l)
    BY <1>1, <1>4 DEF NothingLost, CostOf
  <2>1. PICK m : Fits(m, Q) /\ BitsOf(w, m, Q) + Total(C, Q) <= CostOf(l)
    BY <1>3, <1>4 DEF NothingLost
  <2>2. PICK k : /\ Fits(k, P)
                 /\ BitsOf(v, k, P) \in Nat
                 /\ BitsOf(v, k, P) + v[new] <= BitsOf(w, m, Q)
    <3>1. (\A z \in Q : w[L] <= w[z]) /\ (\A z \in Q \ {L} : w[R] <= w[z])
      BY <1>5, <1>8
    <3> QED  BY ONLY <1>5, <1>7, <1>8, <2>1, <3>1, GreedyStep
  <2>3. BitsOf(w, m, Q) \in Nat /\ CostOf(l) \in Nat
    <3>1. BitsOf(w, m, Q) \in Nat
      BY <1>7, <1>8, <2>1, BitsOfType DEF Fits
    <3>2. CostOf(l) \in Nat
      BY TableFunction, BitsOfType DEF CostOf, Fits, TypeOK
    <3> QED  BY <3>1, <3>2
  <2>4. BitsOf(v, k, P) + Total(D, P) <= CostOf(l)
    BY ONLY <1>9, <1>11, <2>1, <2>2, <2>3
  <2> QED  BY <2>2, <2>4
<1> QED  BY <1>10, <1>12 DEF MergeCostInv

\* There are no queues initially.
LEMMA MergeCostInvInit == Init => MergeCostInv
  BY DEF Init, MergeCostInv

\* Every step keeps what the trees cost.
LEMMA MergeCostInvStep ==
  TypeInv /\ QueuesAscending /\ DistinctInv /\ MergeCostInv /\ [Next]_vars
    => MergeCostInv'
<1> SUFFICES ASSUME TypeInv, QueuesAscending, DistinctInv, MergeCostInv, [Next]_vars
             PROVE  MergeCostInv'
  OBVIOUS
<1>1. CASE PushLeaves BY <1>1, MergeCostInvPushLeaves
<1>2. CASE Merge BY <1>2, MergeCostInvMerge
<1>3. CASE GenerateTrivial \/ StartTraversal \/ VisitLeaf \/ VisitInner \/ Return
  BY <1>3 DEF GenerateTrivial, StartTraversal, VisitLeaf, VisitInner, Return, MergeCostInv
<1>4. CASE UNCHANGED vars
  <2>1. \A C : (IsCost(C)' <=> IsCost(C)) /\ (NothingLost(C)' <=> NothingLost(C))
    BY <1>4 DEF vars, IsCost, NothingLost, CostOf, Weights, QueuedNodes, Pointer, TableCounts
  <2> QED  BY <1>4, <2>1 DEF vars, MergeCostInv
<1> QED
  BY <1>1, <1>2, <1>3, <1>4 DEF Next

-----------------------------------------------------------------------------
(* The traversal gives each symbol what its node is charged.               *)

\* The paths stay shorter than the table is long, since a node is older than
\* its parent and the table has one leaf more than there are inner nodes.
PathLengthInv ==
  pc = "traverse" =>
    /\ \A j \in DOMAIN stack : \A i, k :
         stack[j].node = i /\ Len(stack[j].path) = k =>
           i + k <= Len(nodes) /\ k < Len(table)
    /\ \A c \in DOMAIN bit_table : Len(bit_table[c]) < Len(table)

\* v charges node i at depth k with v[<<i, k>>].
Charge == [Nat \X Nat -> Nat]

\* The charges of the States in s.
ChargesOf(v, s) == [j \in DOMAIN s |-> v[<<s[j].node, Len(s[j].path)>>]]

\* The charges of the symbols that have a code.
FoundCharges(v) ==
  [i \in DOMAIN table |->
     IF table[i].codepoint \in DOMAIN bit_table
       THEN v[<<i, Len(bit_table[table[i].codepoint])>>]
       ELSE 0]

Charged(v) == Total(FoundCharges(v), DOMAIN table) + SeqTotal(ChargesOf(v, stack))

State == [node : Nat, path : Seq(Bit)]

\* The charges of a sequence of States are those of the first and the rest.
LEMMA ChargesOfProperties ==
  ASSUME NEW v \in Charge, NEW s \in Seq(State)
  PROVE  /\ SeqTotal(ChargesOf(v, s)) \in Nat
         /\ s = <<>> => SeqTotal(ChargesOf(v, s)) = 0
         /\ s # <<>> => SeqTotal(ChargesOf(v, s))
                          = v[<<s[1].node, Len(s[1].path)>>]
                              + SeqTotal(ChargesOf(v, Tail(s)))
<1> DEFINE c == ChargesOf(v, s)
<1>0. ASSUME NEW t \in Seq(State)
      PROVE  /\ Len(t) \in Nat /\ DOMAIN t = 1 .. Len(t)
             /\ ChargesOf(v, t) \in Seq(Nat) /\ Len(ChargesOf(v, t)) = Len(t)
             /\ \A i \in 1 .. Len(t) :
                  ChargesOf(v, t)[i] = v[<<t[i].node, Len(t[i].path)>>]
  <2>1. Len(t) \in Nat /\ DOMAIN t = 1 .. Len(t)
    BY LenProperties
  <2>2. ASSUME NEW i \in 1 .. Len(t)
        PROVE  v[<<t[i].node, Len(t[i].path)>>] \in Nat
    <3>1. t[i] \in State
      BY <2>1, ElementOfSeq
    <3>2. t[i].node \in Nat /\ Len(t[i].path) \in Nat
      BY <3>1, LenProperties DEF State
    <3> QED  BY <3>2 DEF Charge
  <2> QED  BY <2>1, <2>2 DEF ChargesOf
<1>1. c \in Seq(Nat) /\ Len(c) = Len(s)
  BY <1>0
<1>2. ASSUME s # <<>>
      PROVE  SeqTotal(c) = v[<<s[1].node, Len(s[1].path)>>]
                             + SeqTotal(ChargesOf(v, Tail(s)))
  <2>1. /\ Len(s) \in Nat /\ Len(s) >= 1 /\ Tail(s) \in Seq(State)
        /\ Len(Tail(s)) = Len(s) - 1
        /\ \A i \in 1 .. (Len(s) - 1) : Tail(s)[i] = s[i + 1]
    BY <1>2, HeadTailProperties, LenProperties, EmptySeq
  <2> DEFINE d == Tail(c)
             e == ChargesOf(v, Tail(s))
  <2>2. c # <<>>
    <3> HIDE DEF c
    <3> QED  BY <1>1, <2>1, EmptySeq
  <2>3. /\ d \in Seq(Nat) /\ Len(d) = Len(s) - 1
        /\ \A i \in 1 .. (Len(s) - 1) : d[i] = c[i + 1]
    <3> HIDE DEF c
    <3> QED  BY <1>1, <2>2, HeadTailProperties
  <2>4. /\ e \in Seq(Nat) /\ Len(e) = Len(s) - 1
        /\ \A i \in 1 .. (Len(s) - 1) :
             e[i] = v[<<Tail(s)[i].node, Len(Tail(s)[i].path)>>]
    BY <1>0, <2>1
  <2>5. \A i \in 1 .. (Len(s) - 1) : c[i + 1] = v[<<s[i + 1].node, Len(s[i + 1].path)>>]
    <3>1. \A i \in 1 .. (Len(s) - 1) : i + 1 \in 1 .. Len(s)
      BY <2>1
    <3> QED  BY <1>0, <3>1
  <2>6. c[1] = v[<<s[1].node, Len(s[1].path)>>]
    <3>1. 1 \in 1 .. Len(s)
      BY <2>1
    <3> QED  BY <1>0, <3>1
  <2>7. \A i \in 1 .. (Len(s) - 1) : d[i] = e[i]
    <3> HIDE DEF c, d, e
    <3> QED  BY <2>1, <2>3, <2>4, <2>5
  <2> HIDE DEF c, d, e
  <2>8. d = e
    BY <2>3, <2>4, <2>7, SeqEqual
  <2>9. SeqTotal(c) = c[1] + SeqTotal(d)
    BY <1>1, <2>2, SeqTotalProperties DEF d
  <2> QED  BY <2>6, <2>8, <2>9 DEF e
<1>3. SeqTotal(c) \in Nat /\ (s = <<>> => SeqTotal(c) = 0)
  <2>1. s = <<>> => c = <<>>
    <3>1. s = <<>> => Len(c) = 0
      BY <1>1
    <3> HIDE DEF c
    <3> QED  BY <1>1, <3>1, EmptySeq
  <2> HIDE DEF c
  <2> QED  BY <1>1, <2>1, SeqTotalProperties
<1> QED  BY <1>2, <1>3

\* The charges of the symbols are numbers.
LEMMA FoundChargesType ==
  ASSUME TypeOK, NEW v \in Charge
  PROVE  /\ \A i \in DOMAIN table : FoundCharges(v)[i] \in Nat
         /\ Total(FoundCharges(v), DOMAIN table) \in Nat
<1>1. /\ DOMAIN table = 1 .. Len(table) /\ Len(table) \in Nat
      /\ IsFiniteSet(DOMAIN table)
  BY TableFunction, TableEntries DEF TypeOK
<1>2. \A i \in DOMAIN table : FoundCharges(v)[i] \in Nat
  <2> SUFFICES ASSUME NEW i \in DOMAIN table, table[i].codepoint \in DOMAIN bit_table
               PROVE  v[<<i, Len(bit_table[table[i].codepoint])>>] \in Nat
    BY DEF FoundCharges
  <2>1. Len(bit_table[table[i].codepoint]) \in Nat
    BY LenProperties DEF TypeOK
  <2>2. i \in Nat
    BY <1>1
  <2> QED  BY <2>1, <2>2 DEF Charge
<1> QED  BY <1>1, <1>2, TotalProperties

\* The stack consists of States.
LEMMA StackStates ==
  ASSUME TypeOK
  PROVE  stack \in Seq(State)
<1>1. Pointer \subseteq Nat
  BY LenProperties DEF TypeOK, Pointer
<1>2. [node : Pointer, path : Seq(Bit)] \subseteq State
  BY <1>1 DEF State
<1> QED  BY <1>2, SeqMonotonic DEF TypeOK

\* A leaf takes its charge with it.
LEMMA ChargedVisitLeaf ==
  ASSUME TypeInv, TreeInv, VisitLeaf, NEW v \in Charge
  PROVE  Charged(v)' <= Charged(v) /\ Charged(v)' \in Nat /\ Charged(v) \in Nat
<1> USE DEF TypeInv
<1> DEFINE cp == nodes[Top.node].codepoint
<1>1. /\ pc = "traverse" /\ stack # <<>>
      /\ stack' = Tail(stack) /\ table' = table
      /\ IsLeaf(nodes[Top.node])
      /\ DOMAIN bit_table' = DOMAIN bit_table \union {cp}
      /\ \A c \in DOMAIN bit_table' :
           bit_table'[c] = IF c = cp THEN Top.path ELSE bit_table[c]
  BY DEF VisitLeaf
<1>2. PICK x, k : x = Top.node /\ k = Len(Top.path)
  OBVIOUS
<1>3. /\ Len(table) \in Nat /\ DOMAIN table = 1 .. Len(table)
      /\ IsFiniteSet(DOMAIN table)
  BY TableFunction, TableEntries DEF TypeOK
<1>4. x \in DOMAIN table /\ k \in Nat /\ cp = table[x].codepoint
  <2>1. x \in Pointer /\ k \in Nat
    BY <1>1, <1>2, TopType, LenProperties
  <2>2. Len(nodes) \in Nat
    BY LenProperties DEF TypeOK
  <2>3. x \in 1 .. Len(table)
    BY <1>1, <1>2, <1>3, <2>1, <2>2 DEF TreeInv, LeavesInv, Pointer
  <2>4. nodes[x] = LeafNode(table[x])
    BY <1>1, <2>3 DEF TreeInv, LeavesInv
  <2> QED  BY <1>2, <1>3, <2>1, <2>3, <2>4, LeafNodeFields
<1>5. PICK d \in Nat : d = v[<<x, k>>]
  BY <1>3, <1>4 DEF Charge
<1>6. /\ SeqTotal(ChargesOf(v, stack)) = d + SeqTotal(ChargesOf(v, stack'))
      /\ SeqTotal(ChargesOf(v, stack')) \in Nat
  <2>1. stack \in Seq(State) /\ Tail(stack) \in Seq(State) /\ stack[1] = Top
    BY <1>1, StackStates, HeadTailProperties, TailElements
  <2> QED  BY <1>1, <1>2, <1>5, <2>1, ChargesOfProperties
<1>7. PICK f, g : f = FoundCharges(v) /\ g = FoundCharges(v)'
  OBVIOUS
<1>8. /\ \A i \in DOMAIN table : f[i] \in Nat
      /\ Total(f, DOMAIN table) \in Nat
      /\ \A i \in DOMAIN table : g[i] \in Nat
      /\ Total(g, DOMAIN table) \in Nat
  <2>1. \A i \in DOMAIN table : g[i] \in Nat
    <3> SUFFICES ASSUME NEW i \in DOMAIN table,
                        table[i].codepoint \in DOMAIN bit_table'
                 PROVE  v[<<i, Len(bit_table'[table[i].codepoint])>>] \in Nat
      BY <1>1, <1>7 DEF FoundCharges
    <3>1. \A c \in DOMAIN bit_table' : bit_table'[c] \in Seq(Bit)
      BY TypeInvVisitLeaf DEF TypeOK
    <3>2. i \in Nat /\ Len(bit_table'[table[i].codepoint]) \in Nat
      BY <1>3, <3>1, LenProperties
    <3> QED  BY <3>2 DEF Charge
  <2>2. Total(g, DOMAIN table) \in Nat
    BY <1>3, <2>1, TotalProperties
  <2> QED  BY <1>7, <2>1, <2>2, FoundChargesType
<1>9. g[x] = d
  <2>1. cp \in DOMAIN bit_table' /\ bit_table'[cp] = Top.path
    BY <1>1
  <2>2. g[x] = IF table[x].codepoint \in DOMAIN bit_table'
                 THEN v[<<x, Len(bit_table'[table[x].codepoint])>>] ELSE 0
    BY <1>1, <1>4, <1>7 DEF FoundCharges
  <2> QED  BY <1>2, <1>4, <1>5, <2>1, <2>2
<1>10. \A i \in DOMAIN table \ {x} : g[i] = f[i]
  <2> SUFFICES ASSUME NEW i \in DOMAIN table, i # x
               PROVE  g[i] = f[i]
    OBVIOUS
  <2>1. table[i].codepoint # cp
    <3>1. IsFrequencyTable(table)
      BY ConstantsAssumption DEF TypeOK
    <3>2. i < x \/ x < i
      BY <1>3, <1>4
    <3> QED  BY <1>4, <3>1, <3>2 DEF IsFrequencyTable
  <2> HIDE DEF cp
  <2>2. /\ f[i] = IF table[i].codepoint \in DOMAIN bit_table
                    THEN v[<<i, Len(bit_table[table[i].codepoint])>>] ELSE 0
        /\ g[i] = IF table[i].codepoint \in DOMAIN bit_table'
                    THEN v[<<i, Len(bit_table'[table[i].codepoint])>>] ELSE 0
    BY <1>1, <1>7 DEF FoundCharges
  <2>3. CASE table[i].codepoint \in DOMAIN bit_table
    <3>1. /\ table[i].codepoint \in DOMAIN bit_table'
          /\ bit_table'[table[i].codepoint] = bit_table[table[i].codepoint]
      BY <1>1, <2>1, <2>3
    <3> QED  BY <2>2, <2>3, <3>1
  <2>4. CASE table[i].codepoint \notin DOMAIN bit_table
    BY <1>1, <2>1, <2>2, <2>4
  <2> QED  BY <2>3, <2>4
<1>11. Total(g, DOMAIN table) <= Total(f, DOMAIN table) + d
  <2>1. g[x] <= f[x] + d
    BY <1>4, <1>8, <1>9
  <2>2. \A i \in DOMAIN table : f[i] \in Nat /\ g[i] \in Nat
    BY <1>8
  <2> QED  BY ONLY <1>3, <1>4, <1>10, <2>1, <2>2, d \in Nat, TotalChanged
<1>12. /\ Charged(v) = Total(f, DOMAIN table) + SeqTotal(ChargesOf(v, stack))
       /\ Charged(v)' = Total(g, DOMAIN table) + SeqTotal(ChargesOf(v, stack'))
  BY <1>1, <1>7 DEF Charged
<1> QED  BY ONLY <1>6, <1>8, <1>11, <1>12, d \in Nat

\* An inner node passes its charge on to its children.
LEMMA ChargedVisitInner ==
  ASSUME TypeInv, VisitInner, NEW v \in Charge,
         NEW i, i = Top.node, NEW k, k = Len(Top.path),
         v[<<nodes[i].left, k + 1>>] + v[<<nodes[i].right, k + 1>>] <= v[<<i, k>>]
  PROVE  Charged(v)' <= Charged(v) /\ Charged(v)' \in Nat /\ Charged(v) \in Nat
<1> USE DEF TypeInv
<1>1. /\ stack # <<>> /\ UNCHANGED <<table, bit_table, nodes>>
  BY DEF VisitInner
<1>2. /\ nodes[i].left \in Pointer /\ nodes[i].right \in Pointer
      /\ Len(stack') = Len(stack) + 1
      /\ stack'[1] = [node |-> nodes[i].left, path |-> Append(Top.path, 0)]
      /\ stack'[2] = [node |-> nodes[i].right, path |-> Append(Top.path, 1)]
      /\ \A j \in 3 .. Len(stack') : stack'[j] = stack[j - 1]
      /\ stack' \in Seq([node : Pointer, path : Seq(Bit)])
  BY VisitInnerStack
<1>3. stack \in Seq(State) /\ stack' \in Seq(State) /\ Pointer \subseteq Nat
  <2>1. Pointer \subseteq Nat
    BY LenProperties DEF TypeOK, Pointer
  <2>2. [node : Pointer, path : Seq(Bit)] \subseteq State
    BY <2>1 DEF State
  <2> QED  BY <1>2, <2>1, <2>2, StackStates, SeqMonotonic
<1>4. /\ Top \in [node : Pointer, path : Seq(Bit)] /\ stack[1] = Top
      /\ Len(stack) \in Nat /\ Len(stack) >= 1
  BY <1>1, <1>3, TopType, TailElements, LenProperties, EmptySeq
<1>5. /\ k \in Nat
      /\ Len(Append(Top.path, 0)) = k + 1 /\ Len(Append(Top.path, 1)) = k + 1
  <2>1. Top.path \in Seq(Bit) /\ 0 \in Bit /\ 1 \in Bit
    BY <1>4 DEF Bit
  <2> QED  BY <2>1, LenProperties, AppendProperties
<1> DEFINE t == Tail(stack')
           u == Tail(t)
           s == Tail(stack)
<1>6. /\ s \in Seq(State) /\ Len(s) = Len(stack) - 1
      /\ \A j \in 1 .. (Len(stack) - 1) : s[j] = stack[j + 1]
  BY <1>1, <1>3, <1>4, HeadTailProperties
<1>7. /\ stack' # <<>> /\ t \in Seq(State) /\ Len(t) = Len(stack)
      /\ \A j \in 1 .. Len(stack) : t[j] = stack'[j + 1]
  <2>1. stack' # <<>> /\ Len(stack') - 1 = Len(stack)
    BY <1>2, <1>3, <1>4, EmptySeq
  <2> QED  BY <1>3, <2>1, HeadTailProperties
<1>8. /\ t # <<>> /\ u \in Seq(State) /\ Len(u) = Len(stack) - 1
      /\ \A j \in 1 .. (Len(stack) - 1) : u[j] = t[j + 1]
  <2> HIDE DEF t
  <2>1. t # <<>>
    BY <1>4, <1>7, EmptySeq
  <2> QED  BY <1>7, <2>1, HeadTailProperties
<1>9. u = s
  <2> HIDE DEF t, u, s
  <2>1. ASSUME NEW j \in 1 .. (Len(stack) - 1) PROVE u[j] = s[j]
    <3>1. /\ j + 1 \in 1 .. Len(stack) /\ (j + 1) + 1 \in 3 .. Len(stack')
          /\ ((j + 1) + 1) - 1 = j + 1
      BY <1>2, <1>4
    <3>2. u[j] = t[j + 1] /\ t[j + 1] = stack'[(j + 1) + 1]
      BY <1>7, <1>8, <3>1
    <3>3. stack'[(j + 1) + 1] = stack[((j + 1) + 1) - 1]
      BY <1>2, <3>1
    <3> QED  BY <1>6, <3>1, <3>2, <3>3
  <2> QED  BY <1>6, <1>8, <2>1, SeqEqual
<1>10. t[1] = stack'[2]
  BY <1>4, <1>7
<1> HIDE DEF t, u, s
<1>11. /\ SeqTotal(ChargesOf(v, stack)) = v[<<i, k>>] + SeqTotal(ChargesOf(v, s))
       /\ SeqTotal(ChargesOf(v, s)) \in Nat
  BY <1>1, <1>3, <1>4, <1>6, ChargesOfProperties DEF s
<1>12. SeqTotal(ChargesOf(v, stack')) = v[<<nodes[i].left, k + 1>>] + SeqTotal(ChargesOf(v, t))
  <2>1. SeqTotal(ChargesOf(v, stack'))
          = v[<<stack'[1].node, Len(stack'[1].path)>>] + SeqTotal(ChargesOf(v, t))
    BY <1>3, <1>7, ChargesOfProperties DEF t
  <2> QED  BY <1>2, <1>5, <2>1
<1>13. SeqTotal(ChargesOf(v, t)) = v[<<nodes[i].right, k + 1>>] + SeqTotal(ChargesOf(v, s))
  <2>1. SeqTotal(ChargesOf(v, t))
          = v[<<t[1].node, Len(t[1].path)>>] + SeqTotal(ChargesOf(v, u))
    BY <1>7, <1>8, ChargesOfProperties DEF u
  <2> QED  BY <1>2, <1>5, <1>9, <1>10, <2>1
<1>14. /\ v[<<i, k>>] \in Nat /\ v[<<nodes[i].left, k + 1>>] \in Nat
       /\ v[<<nodes[i].right, k + 1>>] \in Nat
  <2>1. /\ i \in Nat /\ nodes[i].left \in Nat /\ nodes[i].right \in Nat
        /\ k + 1 \in Nat
    <3>1. Top.node \in Pointer
      BY <1>4
    <3>2. i \in Pointer
      BY <3>1
    <3>3. i \in Nat /\ nodes[i].left \in Nat /\ nodes[i].right \in Nat
      BY ONLY <1>2, <1>3, <3>2
    <3>4. k + 1 \in Nat
      BY ONLY <1>5
    <3> QED  BY <3>3, <3>4
  <2> QED  BY <1>5, <2>1 DEF Charge
<1>15. PICK f : f = Total(FoundCharges(v), DOMAIN table) /\ f \in Nat
  BY FoundChargesType
<1>16. /\ Charged(v) = f + SeqTotal(ChargesOf(v, stack))
       /\ Charged(v)' = f + SeqTotal(ChargesOf(v, stack'))
  BY <1>1, <1>15 DEF Charged, FoundCharges
<1> QED  BY ONLY <1>11, <1>12, <1>13, <1>14, <1>15, <1>16,
             v[<<nodes[i].left, k + 1>>] + v[<<nodes[i].right, k + 1>>] <= v[<<i, k>>]

\* There is no stack initially.
LEMMA PathLengthInvInit == Init => PathLengthInv
  BY DEF Init, PathLengthInv

\* The traversal starts with the empty path to the last node.
LEMMA PathLengthInvStartTraversal ==
  ASSUME TypeInv, LeavesInv, StartTraversal
  PROVE  PathLengthInv'
<1>1. /\ stack' = <<[node |-> Root, path |-> <<>>]>>
      /\ UNCHANGED <<table, nodes, bit_table>>
      /\ bit_table = <<>> /\ Len(table) > 1
  BY DEF TypeInv, StartsEmpty, StartTraversal, LeavesInv
<1>2. DOMAIN stack' = {1} /\ stack'[1].node = Root /\ Len(stack'[1].path) = 0
  BY <1>1
<1>3. PICK r \in Nat, n \in Nat, m \in Nat :
        /\ r = Root /\ n = Len(nodes) /\ m = Len(table) /\ r <= n /\ m > 1
  <2>1. Len(nodes) \in Nat /\ Len(table) \in Nat
    BY LenProperties, TableEntries DEF TypeInv, TypeOK
  <2>2. Root \in Pointer
    BY RootQueued
  <2>3. Root \in Nat /\ Root <= Len(nodes)
    BY ONLY <2>1, <2>2 DEF Pointer
  <2> QED  BY <1>1, <2>1, <2>3
<1>4. r + 0 <= n /\ 0 < m
  BY <1>3
<1>5. DOMAIN bit_table' = {}
  BY <1>1
<1> QED  BY <1>1, <1>2, <1>3, <1>4, <1>5 DEF PathLengthInv

\* A leaf keeps its path as its code.
LEMMA PathLengthInvVisitLeaf ==
  ASSUME TypeInv, PathLengthInv, VisitLeaf
  PROVE  PathLengthInv'
<1> DEFINE cp == nodes[Top.node].codepoint
<1>1. /\ pc = "traverse" /\ stack # <<>>
      /\ stack' = Tail(stack) /\ UNCHANGED <<table, nodes>>
      /\ DOMAIN bit_table' = DOMAIN bit_table \union {cp}
      /\ \A c \in DOMAIN bit_table' :
           bit_table'[c] = IF c = cp THEN Top.path ELSE bit_table[c]
  BY DEF VisitLeaf
<1>2. /\ 1 \in DOMAIN stack /\ stack[1] = Top
      /\ \A j \in DOMAIN stack' : j + 1 \in DOMAIN stack /\ stack'[j] = stack[j + 1]
  <2>1. stack \in Seq([node : Pointer, path : Seq(Bit)])
    BY DEF TypeInv, TypeOK
  <2>2. /\ Len(stack) \in Nat /\ Len(stack) >= 1 /\ DOMAIN stack = 1 .. Len(stack)
    BY <1>1, <2>1, LenProperties, EmptySeq
  <2>3. /\ DOMAIN stack' = 1 .. (Len(stack) - 1)
        /\ \A j \in 1 .. (Len(stack) - 1) : stack'[j] = stack[j + 1]
    BY <1>1, <2>1, TailElements, HeadTailProperties
  <2>4. stack[1] = Top
    BY DEF Top
  <2> QED  BY <2>2, <2>3, <2>4
<1>3. ASSUME NEW j \in DOMAIN stack', NEW i, NEW k,
             stack'[j].node = i, Len(stack'[j].path) = k
      PROVE  i + k <= Len(nodes') /\ k < Len(table')
  BY <1>1, <1>2, <1>3 DEF PathLengthInv
<1>4. ASSUME NEW c \in DOMAIN bit_table'
      PROVE  Len(bit_table'[c]) < Len(table')
  BY <1>1, <1>2 DEF PathLengthInv
<1> QED  BY <1>3, <1>4 DEF PathLengthInv

\* An inner node comes after the leaves and its children before it.
LEMMA PathLengthInvVisitInner ==
  ASSUME TypeInv, LeavesInv, CountInv, PathLengthInv, VisitInner
  PROVE  PathLengthInv'
<1> DEFINE x == Top.node
<1>1. /\ pc = "traverse" /\ stack # <<>> /\ UNCHANGED <<table, nodes, bit_table>>
      /\ ~ IsLeaf(nodes[x])
  BY DEF VisitInner
<1>2. /\ x \in Pointer /\ Top.path \in Seq(Bit) /\ IsHuffmanNode(x)
      /\ stack \in Seq([node : Pointer, path : Seq(Bit)])
      /\ Len(stack) \in Nat /\ Len(stack) >= 1
      /\ DOMAIN stack = 1 .. Len(stack) /\ stack[1] = Top
  <2>1. stack \in Seq([node : Pointer, path : Seq(Bit)])
    BY DEF TypeInv, TypeOK
  <2> QED  BY <1>1, <2>1, TopType, LenProperties, EmptySeq DEF TypeInv, Top
<1>3. PICK d \in Nat, k \in Nat, n \in Nat, m \in Nat, l \in Nat, r \in Nat :
        /\ d = x /\ k = Len(Top.path) /\ n = Len(nodes) /\ m = Len(table)
        /\ l = nodes[x].left /\ r = nodes[x].right
        /\ l <= d - 1 /\ r <= d - 1 /\ d + k <= n /\ d > m /\ n + 1 = 2 * m
  <2>1. Len(nodes) \in Nat /\ Len(table) \in Nat /\ Len(Top.path) \in Nat /\ x \in Nat
    <3>1. Len(nodes) \in Nat /\ Len(table) \in Nat
      BY LenProperties, TableEntries DEF TypeInv, TypeOK
    <3>2. Len(Top.path) \in Nat
      BY <1>2, LenProperties
    <3>3. x \in Nat
      BY ONLY <1>2, <3>1 DEF Pointer
    <3> QED  BY <3>1, <3>2, <3>3
  <2>2. nodes[x].left \in 1 .. (x - 1) /\ nodes[x].right \in 1 .. (x - 1)
    BY <1>1, <1>2 DEF IsHuffmanNode
  <2>3. nodes[x].left \in Nat /\ nodes[x].right \in Nat
        /\ nodes[x].left <= x - 1 /\ nodes[x].right <= x - 1
    BY ONLY <2>1, <2>2
  <2>4. x + Len(Top.path) <= Len(nodes)
    <3>1. 1 \in DOMAIN stack
      BY <1>2
    <3> QED  BY <1>1, <1>2, <3>1 DEF PathLengthInv
  <2>5. x > Len(table)
    <3>1. x <= Len(table) => x \in 1 .. Len(table)
      BY <1>2, <2>1 DEF Pointer
    <3>2. x \in 1 .. Len(table) => IsLeaf(nodes[x])
      BY <1>1, LeafNodeFields DEF LeavesInv
    <3> QED  BY <1>1, <2>1, <3>1, <3>2
  <2>6. Len(nodes) + 1 = 2 * Len(table)
    BY <1>1 DEF CountInv
  <2> QED  BY <2>1, <2>3, <2>4, <2>5, <2>6
<1>4. l + (k + 1) <= n /\ r + (k + 1) <= n /\ k + 1 < m
  <2>1. l <= d - 1 /\ r <= d - 1 /\ d + k <= n /\ d > m /\ n + 1 = 2 * m
    BY <1>3
  <2> QED
    BY ONLY <2>1, d \in Nat, k \in Nat, n \in Nat, m \in Nat, l \in Nat, r \in Nat
<1>5. /\ Len(stack') = Len(stack) + 1
      /\ stack'[1] = [node |-> nodes[x].left, path |-> Append(Top.path, 0)]
      /\ stack'[2] = [node |-> nodes[x].right, path |-> Append(Top.path, 1)]
      /\ \A j \in 3 .. Len(stack') : stack'[j] = stack[j - 1]
      /\ DOMAIN stack' = 1 .. Len(stack')
  BY VisitInnerStack, LenProperties DEF TypeInv
<1>6. Len(Append(Top.path, 0)) = k + 1 /\ Len(Append(Top.path, 1)) = k + 1
  <2>1. 0 \in Bit /\ 1 \in Bit
    BY DEF Bit
  <2> QED  BY <1>2, <1>3, <2>1, LenProperties, AppendProperties
<1>7. ASSUME NEW j \in DOMAIN stack'
      PROVE  /\ stack'[j].node + Len(stack'[j].path) <= n
             /\ Len(stack'[j].path) < m
  <2>1. CASE j = 1
    <3>1. stack'[j].node = l /\ Len(stack'[j].path) = k + 1
      <4>1. stack'[j] = [node |-> nodes[x].left, path |-> Append(Top.path, 0)]
        BY <1>5, <2>1
      <4> QED  BY <1>3, <1>6, <4>1
    <3> QED  BY <1>4, <3>1
  <2>2. CASE j = 2
    <3>1. stack'[j].node = r /\ Len(stack'[j].path) = k + 1
      <4>1. stack'[j] = [node |-> nodes[x].right, path |-> Append(Top.path, 1)]
        BY <1>5, <2>2
      <4> QED  BY <1>3, <1>6, <4>1
    <3> QED  BY <1>4, <3>1
  <2>3. CASE j \in 3 .. Len(stack')
    <3>1. j - 1 \in DOMAIN stack
      BY <1>2, <1>5, <2>3
    <3>2. stack'[j] = stack[j - 1]
      BY <1>5, <2>3
    <3> QED  BY <1>1, <1>3, <3>1, <3>2 DEF PathLengthInv
  <2>4. j = 1 \/ j = 2 \/ j \in 3 .. Len(stack')
    BY <1>2, <1>5
  <2> QED  BY <2>1, <2>2, <2>3, <2>4
<1>8. \A c \in DOMAIN bit_table' : Len(bit_table'[c]) < Len(table')
  BY <1>1 DEF PathLengthInv
<1> QED  BY <1>1, <1>3, <1>7, <1>8 DEF PathLengthInv

\* Every step of the traversal keeps the paths short.
LEMMA PathLengthInvStep ==
  TypeInv /\ LeavesInv /\ CountInv /\ PathLengthInv /\ [Next]_vars => PathLengthInv'
<1> SUFFICES ASSUME TypeInv, LeavesInv, CountInv, PathLengthInv, [Next]_vars
             PROVE  PathLengthInv'
  OBVIOUS
<1>1. CASE StartTraversal BY <1>1, PathLengthInvStartTraversal
<1>2. CASE VisitLeaf BY <1>2, PathLengthInvVisitLeaf
<1>3. CASE VisitInner BY <1>3, PathLengthInvVisitInner
<1>4. CASE GenerateTrivial \/ PushLeaves \/ Merge \/ Return
  BY <1>4 DEF GenerateTrivial, PushLeaves, Merge, Return, PathLengthInv
<1>5. CASE UNCHANGED vars
  BY <1>5 DEF vars, PathLengthInv
<1> QED
  BY <1>1, <1>2, <1>3, <1>4, <1>5 DEF Next

-----------------------------------------------------------------------------
(* The traversal spends no more than the trees promise.                    *)

\* A node at depth k takes k bits for each occurrence and what is below it.
CostCharge(C) ==
  [p \in Nat \X Nat |->
     IF p[1] \in Pointer THEN nodes[p[1]].count * p[2] + C[p[1]] ELSE 0]

\* A node at depth k takes up its part of a tree of depth n.
RoomCharge(n) ==
  [p \in Nat \X Nat |-> IF p[2] <= n THEN Pow2[n - p[2]] ELSE 0]

\* The codes found and the nodes to visit fit a tree of the table's length.
RoomKept ==
  \E v : v = RoomCharge(Len(table)) /\ Charged(v) <= Pow2[Len(table)]

\* They cost no more than any codes for the table that fit.
CostKept ==
  \E C, v : /\ IsCost(C)
           /\ v = CostCharge(C)
           /\ \A l : Fits(l, DOMAIN table) => Charged(v) <= CostOf(l)

TraversalCostInv == pc = "traverse" => RoomKept /\ CostKept

\* The bits below a node are a charge.
LEMMA CostChargeProperties ==
  ASSUME TypeOK, NEW C, IsCost(C), NEW v, v = CostCharge(C)
  PROVE  /\ v \in Charge
         /\ \A i \in Pointer, k \in Nat : v[<<i, k>>] = nodes[i].count * k + C[i]
<1>1. C \in [Nat -> Nat] /\ Pointer \subseteq Nat
  <2>1. Len(nodes) \in Nat
    BY LenProperties DEF TypeOK
  <2> QED  BY ONLY <2>1, IsCost(C) DEF Pointer, IsCost
<1>2. \A i \in Pointer : nodes[i].count \in Nat
  BY NodeCounts
<1>3. ASSUME NEW p \in Nat \X Nat
      PROVE  v[p] \in Nat
  <2>1. v[p] = IF p[1] \in Pointer THEN nodes[p[1]].count * p[2] + C[p[1]] ELSE 0
    BY DEF CostCharge
  <2>2. p[1] \in Nat /\ p[2] \in Nat
    OBVIOUS
  <2>3. CASE p[1] \in Pointer
    <3>1. PICK a \in Nat, b \in Nat, c \in Nat :
            a = nodes[p[1]].count /\ b = p[2] /\ c = C[p[1]]
      BY <1>1, <1>2, <2>2, <2>3
    <3>2. a * b + c \in Nat
      BY ONLY <3>1
    <3> QED  BY <2>1, <2>3, <3>1, <3>2
  <2>4. CASE p[1] \notin Pointer
    BY <2>1, <2>4
  <2> QED  BY <2>3, <2>4
<1>4. v \in Charge
  BY <1>3 DEF Charge, CostCharge
<1>5. ASSUME NEW i \in Pointer, NEW k \in Nat
      PROVE  v[<<i, k>>] = nodes[i].count * k + C[i]
  BY <1>1 DEF CostCharge
<1> QED  BY <1>4, <1>5

\* So is a part of a tree.
LEMMA RoomChargeProperties ==
  ASSUME NEW n \in Nat, NEW v, v = RoomCharge(n)
  PROVE  /\ v \in Charge
         /\ \A i \in Nat, k \in Nat : k <= n => v[<<i, k>>] = Pow2[n - k]
<1>1. ASSUME NEW p \in Nat \X Nat
      PROVE  v[p] \in Nat
  <2>1. v[p] = IF p[2] <= n THEN Pow2[n - p[2]] ELSE 0
    BY DEF RoomCharge
  <2>2. p[2] \in Nat
    OBVIOUS
  <2>3. p[2] <= n => Pow2[n - p[2]] \in Nat
    BY <2>2, Pow2Properties
  <2> QED  BY <2>1, <2>3
<1>2. v \in Charge
  BY <1>1 DEF Charge, RoomCharge
<1> QED  BY <1>2 DEF RoomCharge

\* The traversal starts with nothing but the charge of the root.
LEMMA StartCharged ==
  ASSUME TypeInv, StartTraversal, NEW v \in Charge
  PROVE  Charged(v)' = v[<<Root, 0>>]
<1>1. /\ stack' = <<[node |-> Root, path |-> <<>>]>>
      /\ bit_table' = <<>> /\ table' = table
  BY DEF TypeInv, StartsEmpty, StartTraversal
<1>2. Root \in Nat
  <2>1. Root \in Pointer /\ Len(nodes) \in Nat
    BY RootQueued, LenProperties DEF TypeInv, TypeOK
  <2> QED  BY ONLY <2>1 DEF Pointer
<1>3. Total(FoundCharges(v)', DOMAIN table) = 0
  <2> DEFINE g == FoundCharges(v)'
  <2>1. \A i \in DOMAIN table : g[i] = 0
    <3>1. DOMAIN bit_table' = {}
      BY <1>1
    <3> QED  BY <1>1, <3>1 DEF FoundCharges
  <2>2. IsFiniteSet(DOMAIN table)
    BY TableFunction DEF TypeInv, TypeOK
  <2> HIDE DEF g
  <2>3. Total(g, DOMAIN table) = 0
    BY <2>1, <2>2, TotalZero
  <2> QED  BY <2>3 DEF g
<1>4. SeqTotal(ChargesOf(v, stack')) = v[<<Root, 0>>] + 0
  <2>1. /\ stack' \in Seq(State) /\ stack' # <<>> /\ Tail(stack') = <<>>
        /\ stack'[1].node = Root /\ Len(stack'[1].path) = 0
    BY <1>1, <1>2 DEF State
  <2>2. <<>> \in Seq(State)
    OBVIOUS
  <2>3. SeqTotal(ChargesOf(v, <<>>)) = 0
    BY <2>2, ChargesOfProperties
  <2>4. SeqTotal(ChargesOf(v, stack'))
          = v[<<stack'[1].node, Len(stack'[1].path)>>] + SeqTotal(ChargesOf(v, Tail(stack')))
    BY <2>1, ChargesOfProperties
  <2> QED  BY <2>1, <2>3, <2>4
<1>5. v[<<Root, 0>>] \in Nat
  BY <1>2 DEF Charge
<1>6. Charged(v)' = Total(FoundCharges(v)', DOMAIN table) + SeqTotal(ChargesOf(v, stack'))
  BY <1>1 DEF Charged
<1> QED  BY ONLY <1>3, <1>4, <1>5, <1>6

\* There is no traversal initially.
LEMMA TraversalCostInvInit == Init => TraversalCostInv
  BY DEF Init, TraversalCostInv

\* The root stands for what merging promises.
LEMMA TraversalCostInvStartTraversal ==
  ASSUME TypeInv, MergeCostInv, StartTraversal
  PROVE  TraversalCostInv'
<1>1. pc = "merge" /\ UNCHANGED <<table, nodes, first, second>>
  BY DEF StartTraversal
<1>2. Root \in Pointer /\ QueuedNodes = {Root} /\ Pointer \subseteq Nat
  <2>1. Len(nodes) \in Nat
    BY LenProperties DEF TypeInv, TypeOK
  <2>2. Pointer \subseteq Nat
    BY ONLY <2>1 DEF Pointer
  <2> QED  BY <2>2, RootQueued
<1>3. PICK n \in Nat : n = Len(table)
  BY TableEntries DEF TypeInv, TypeOK
<1>4. RoomKept'
  <2>1. PICK v : v = RoomCharge(n)
    OBVIOUS
  <2>2. v \in Charge /\ v[<<Root, 0>>] = Pow2[n]
    <3>1. Root \in Nat /\ 0 \in Nat /\ 0 <= n /\ n - 0 = n
      BY <1>2
    <3> QED  BY <2>1, <3>1, RoomChargeProperties
  <2>3. Charged(v)' = Pow2[n] /\ Pow2[n] \in Nat
    BY <2>2, StartCharged, Pow2Properties
  <2>4. v = RoomCharge(Len(table')) /\ Charged(v)' <= Pow2[Len(table')]
    BY <1>1, <1>3, <2>1, <2>3
  <2> QED  BY <2>4 DEF RoomKept
<1>5. CostKept'
  <2>1. PICK C : IsCost(C) /\ NothingLost(C)
    BY <1>1 DEF MergeCostInv
  <2>2. PICK v : v = CostCharge(C)
    OBVIOUS
  <2>3. C[Root] \in Nat /\ v \in Charge /\ v[<<Root, 0>>] = C[Root]
    <3>1. C[Root] \in Nat /\ nodes[Root].count \in Nat
      BY <1>2, <2>1, NodeCounts DEF IsCost, TypeInv
    <3>2. v \in Charge /\ v[<<Root, 0>>] = nodes[Root].count * 0 + C[Root]
      BY <1>2, <2>1, <2>2, CostChargeProperties DEF TypeInv
    <3> QED  BY <3>1, <3>2
  <2>4. Charged(v)' = C[Root]
    BY <2>3, StartCharged
  <2>5. IsCost(C)' /\ v = CostCharge(C)'
    BY <1>1, <2>1, <2>2 DEF IsCost, CostCharge, Pointer
  <2>6. Total(C, QueuedNodes) = C[Root]
    <3>1. IsFiniteSet({Root}) /\ Root \in {Root} /\ {Root} \ {Root} = {}
      BY FS_Singleton
    <3>2. \A x \in {Root} : C[x] \in Nat
      BY <2>3
    <3>3. Total(C, {Root}) = C[Root] + Total(C, {Root} \ {Root})
      BY ONLY <3>1, <3>2, TotalProperties
    <3>4. Total(C, {}) = 0
      BY FS_EmptySet, TotalZero
    <3> QED  BY <1>2, <2>3, <3>1, <3>3, <3>4
  <2>7. ASSUME NEW l, Fits(l, DOMAIN table)
        PROVE  Charged(v)' <= CostOf(l)
    <3>1. PICK m : /\ Fits(m, QueuedNodes)
                   /\ BitsOf(Weights(QueuedNodes), m, QueuedNodes) + Total(C, QueuedNodes)
                        <= CostOf(l)
      BY <2>1, <2>7 DEF NothingLost
    <3>2. BitsOf(Weights(QueuedNodes), m, QueuedNodes) \in Nat
      <4>1. Weights(QueuedNodes) \in [QueuedNodes -> Nat]
        BY <1>2, NodeCounts DEF Weights, TypeInv
      <4>2. IsFiniteSet(QueuedNodes)
        BY <1>2, FS_Singleton
      <4> QED  BY <3>1, <4>1, <4>2, BitsOfType DEF Fits
    <3>3. CostOf(l) \in Nat
      BY <2>7, TableFunction, BitsOfType DEF CostOf, Fits, TypeInv, TypeOK
    <3> QED  BY ONLY <2>3, <2>4, <2>6, <3>1, <3>2, <3>3
  <2>8. \A l : CostOf(l)' = CostOf(l)
    BY <1>1 DEF CostOf
  <2>9. \A l : Fits(l, DOMAIN table') => Charged(v)' <= CostOf(l)'
    BY <1>1, <2>7, <2>8
  <2> QED  BY <2>5, <2>9 DEF CostKept
<1> QED  BY <1>1, <1>4, <1>5 DEF TraversalCostInv

\* Steps that leave the nodes and raise no charge.
LEMMA TraversalCostInvKept ==
  ASSUME TypeInv, TraversalCostInv, pc = "traverse", UNCHANGED <<table, nodes>>,
         \A v \in Charge :
           \/ v = RoomCharge(Len(table))
           \/ \E C : IsCost(C) /\ v = CostCharge(C)
           => Charged(v)' <= Charged(v) /\ Charged(v)' \in Nat /\ Charged(v) \in Nat
  PROVE  TraversalCostInv'
<1>1. PICK n \in Nat : n = Len(table)
  BY TableEntries DEF TypeInv, TypeOK
<1>2. RoomKept'
  <2>1. PICK v : v = RoomCharge(Len(table)) /\ Charged(v) <= Pow2[Len(table)]
    BY DEF TraversalCostInv, RoomKept
  <2>2. v \in Charge
    BY <1>1, <2>1, RoomChargeProperties
  <2>3. Charged(v)' <= Charged(v) /\ Charged(v)' \in Nat /\ Charged(v) \in Nat
    BY <2>1, <2>2
  <2>4. Pow2[n] \in Nat
    BY Pow2Properties
  <2>5. Charged(v)' <= Pow2[Len(table)]
    BY ONLY <1>1, <2>1, <2>3, <2>4
  <2>6. v = RoomCharge(Len(table')) /\ Charged(v)' <= Pow2[Len(table')]
    BY <2>1, <2>5
  <2> QED  BY <2>6 DEF RoomKept
<1>3. CostKept'
  <2>1. PICK C, v : /\ IsCost(C)
                    /\ v = CostCharge(C)
                    /\ \A l : Fits(l, DOMAIN table) => Charged(v) <= CostOf(l)
    BY DEF TraversalCostInv, CostKept
  <2>2. v \in Charge
    BY <2>1, CostChargeProperties DEF TypeInv
  <2>3. Charged(v)' <= Charged(v) /\ Charged(v)' \in Nat /\ Charged(v) \in Nat
    BY <2>1, <2>2
  <2>4. IsCost(C)' /\ v = CostCharge(C)'
    BY <2>1 DEF IsCost, CostCharge, Pointer
  <2>5. ASSUME NEW l, Fits(l, DOMAIN table')
        PROVE  Charged(v)' <= CostOf(l)'
    <3>1. Fits(l, DOMAIN table) /\ CostOf(l)' = CostOf(l)
      BY <2>5 DEF CostOf
    <3>2. CostOf(l) \in Nat
      BY <3>1, TableFunction, BitsOfType DEF CostOf, Fits, TypeInv, TypeOK
    <3>3. Charged(v) <= CostOf(l)
      BY <2>1, <3>1
    <3> QED  BY ONLY <2>3, <3>1, <3>2, <3>3
  <2> QED  BY <2>4, <2>5 DEF CostKept
<1> QED  BY <1>2, <1>3 DEF TraversalCostInv

\* What a node is charged, its children are charged together.
LEMMA ChargeSplit ==
  ASSUME TypeInv, LeavesInv, GrowthInv, PathLengthInv, VisitInner,
         NEW i, i = Top.node, NEW k, k = Len(Top.path),
         NEW v, \/ v = RoomCharge(Len(table))
                \/ \E C : IsCost(C) /\ v = CostCharge(C)
  PROVE  v[<<nodes[i].left, k + 1>>] + v[<<nodes[i].right, k + 1>>] <= v[<<i, k>>]
<1>1. /\ pc = "traverse" /\ stack # <<>> /\ ~ IsLeaf(nodes[i])
  BY DEF VisitInner
<1>2. /\ i \in Pointer /\ k \in Nat /\ 1 \in DOMAIN stack /\ stack[1] = Top
  <2>1. stack \in Seq([node : Pointer, path : Seq(Bit)])
    BY DEF TypeInv, TypeOK
  <2>2. Len(stack) \in Nat /\ Len(stack) >= 1 /\ DOMAIN stack = 1 .. Len(stack)
    BY <1>1, <2>1, LenProperties, EmptySeq
  <2>3. Top \in [node : Pointer, path : Seq(Bit)]
    BY <1>1, TopType DEF TypeInv
  <2>4. stack[1] = Top
    BY DEF Top
  <2> QED  BY <2>2, <2>3, <2>4, LenProperties
<1>3. PICK l, r : l = nodes[i].left /\ r = nodes[i].right /\ l \in Pointer /\ r \in Pointer
  BY <1>1, <1>2, ChildrenType DEF TypeInv
<1>4. i \in Nat /\ l \in Nat /\ r \in Nat
  <2>1. Len(nodes) \in Nat
    BY LenProperties DEF TypeInv, TypeOK
  <2> QED  BY ONLY <1>2, <1>3, <2>1 DEF Pointer
<1>5. CASE v = RoomCharge(Len(table))
  <2>1. PICK n \in Nat : n = Len(table)
    BY TableEntries DEF TypeInv, TypeOK
  <2>2. k < n
    BY <1>1, <1>2, <2>1 DEF PathLengthInv
  <2>3. /\ v[<<i, k>>] = Pow2[n - k]
        /\ v[<<l, k + 1>>] = Pow2[n - (k + 1)]
        /\ v[<<r, k + 1>>] = Pow2[n - (k + 1)]
    <3>1. k + 1 \in Nat /\ k <= n /\ k + 1 <= n
      BY <1>2, <2>1, <2>2
    <3> QED  BY <1>4, <1>2, <1>5, <2>1, <3>1, RoomChargeProperties
  <2>4. Pow2[n - k] = 2 * Pow2[n - (k + 1)] /\ Pow2[n - (k + 1)] \in Nat
    <3>1. n - (k + 1) \in Nat /\ n - k = (n - (k + 1)) + 1
      BY <1>2, <2>1, <2>2
    <3> QED  BY <3>1, Pow2Properties
  <2> QED  BY <1>3, <2>3, <2>4
<1>6. CASE \E C : IsCost(C) /\ v = CostCharge(C)
  <2>1. PICK C : IsCost(C) /\ v = CostCharge(C)
    BY <1>6
  <2>2. PICK a \in Nat, b \in Nat, x \in Nat, y \in Nat :
          /\ a = nodes[l].count /\ b = nodes[r].count /\ x = C[l] /\ y = C[r]
          /\ nodes[i].count = a + b /\ C[i] = (a + b) + x + y
    <3>1. nodes[l].count \in Nat /\ nodes[r].count \in Nat
      BY <1>3, NodeCounts DEF TypeInv
    <3>2. nodes[i].count = nodes[l].count + nodes[r].count
      BY <1>1, <1>2, <1>3 DEF GrowthInv, Grown
    <3>3. C[l] \in Nat /\ C[r] \in Nat
      BY <1>4, <2>1 DEF IsCost
    <3>4. C[i] = nodes[i].count + C[l] + C[r]
      BY <1>1, <1>2, <1>3, <2>1 DEF IsCost
    <3> QED  BY <3>1, <3>2, <3>3, <3>4
  <2>3. /\ v[<<i, k>>] = nodes[i].count * k + C[i]
        /\ v[<<l, k + 1>>] = a * (k + 1) + x
        /\ v[<<r, k + 1>>] = b * (k + 1) + y
    <3>1. \A j \in Pointer, d \in Nat : v[<<j, d>>] = nodes[j].count * d + C[j]
      BY <2>1, CostChargeProperties DEF TypeInv
    <3>2. k + 1 \in Nat
      BY <1>2
    <3>3. /\ v[<<i, k>>] = nodes[i].count * k + C[i]
          /\ v[<<l, k + 1>>] = nodes[l].count * (k + 1) + C[l]
          /\ v[<<r, k + 1>>] = nodes[r].count * (k + 1) + C[r]
      BY ONLY <1>2, <1>3, <3>1, <3>2
    <3> QED  BY <2>2, <3>3
  <2>4. PICK p, q, s, c, e : /\ p = v[<<i, k>>] /\ q = v[<<l, k + 1>>] /\ s = v[<<r, k + 1>>]
                             /\ c = nodes[i].count /\ e = C[i]
    OBVIOUS
  <2>5. /\ c = a + b /\ e = (a + b) + x + y /\ k \in Nat
        /\ p = c * k + e /\ q = a * (k + 1) + x /\ s = b * (k + 1) + y
    BY <1>2, <2>2, <2>3, <2>4
  <2>6. q + s <= p
    BY ONLY <2>5, a \in Nat, b \in Nat, x \in Nat, y \in Nat
  <2> QED  BY <1>3, <2>4, <2>6
<1> QED  BY <1>5, <1>6

\* The traversal keeps the charges.
LEMMA TraversalCostInvVisit ==
  ASSUME TypeInv, TreeInv, GrowthInv, PathLengthInv, TraversalCostInv,
         VisitLeaf \/ VisitInner
  PROVE  TraversalCostInv'
<1>1. pc = "traverse" /\ UNCHANGED <<table, nodes>>
  BY DEF VisitLeaf, VisitInner
<1>2. ASSUME NEW v \in Charge,
             \/ v = RoomCharge(Len(table))
             \/ \E C : IsCost(C) /\ v = CostCharge(C)
      PROVE  Charged(v)' <= Charged(v) /\ Charged(v)' \in Nat /\ Charged(v) \in Nat
  <2>1. CASE VisitLeaf
    BY <2>1, ChargedVisitLeaf
  <2>2. CASE VisitInner
    <3>1. PICK i, k : i = Top.node /\ k = Len(Top.path)
      OBVIOUS
    <3>2. v[<<nodes[i].left, k + 1>>] + v[<<nodes[i].right, k + 1>>] <= v[<<i, k>>]
      BY <1>2, <2>2, <3>1, ChargeSplit DEF TreeInv
    <3> QED  BY <2>2, <3>1, <3>2, ChargedVisitInner
  <2> QED  BY <2>1, <2>2
<1> QED  BY <1>1, <1>2, TraversalCostInvKept

\* So does every other step.
LEMMA TraversalCostInvStep ==
  TypeInv /\ TreeInv /\ GrowthInv /\ MergeCostInv /\ PathLengthInv
    /\ TraversalCostInv /\ [Next]_vars => TraversalCostInv'
<1> SUFFICES ASSUME TypeInv, TreeInv, GrowthInv, MergeCostInv, PathLengthInv,
                    TraversalCostInv, [Next]_vars
             PROVE  TraversalCostInv'
  OBVIOUS
<1>1. CASE StartTraversal BY <1>1, TraversalCostInvStartTraversal
<1>2. CASE VisitLeaf \/ VisitInner BY <1>2, TraversalCostInvVisit
<1>3. CASE GenerateTrivial \/ PushLeaves \/ Merge \/ Return
  BY <1>3 DEF GenerateTrivial, PushLeaves, Merge, Return, TraversalCostInv
<1>4. CASE UNCHANGED vars
  <2>1. RoomKept => RoomKept'
    BY <1>4 DEF vars, RoomKept, Charged, FoundCharges
  <2>2. CostKept => CostKept'
    BY <1>4 DEF vars, CostKept, Charged, FoundCharges, IsCost, CostCharge, CostOf, Pointer
  <2> QED  BY <1>4, <2>1, <2>2 DEF vars, TraversalCostInv
<1> QED
  BY <1>1, <1>2, <1>3, <1>4 DEF Next

-----------------------------------------------------------------------------
(* Every prefix code fits.                                                 *)

\* c gives every symbol in Q a code of at most n bits, none of which begins
\* another.
CodesFor(Q, c, n) ==
  /\ IsFiniteSet(Q)
  /\ c \in [Q -> Seq(Bit)]
  /\ \A q \in Q : Len(c[q]) <= n
  /\ \A p, q \in Q : p # q => ~ IsPrefix(c[p], c[q])

CodeRoom(Q, c, n) == Room([q \in Q |-> Len(c[q])], n, Q)

\* One of these codes is empty only if it is the only one.
LEMMA KraftEmptyCode ==
  ASSUME NEW n \in Nat, NEW Q, NEW c, CodesFor(Q, c, n),
         NEW e \in Q, c[e] = <<>>
  PROVE  CodeRoom(Q, c, n) <= Pow2[n]
<1> DEFINE f == [q \in Q |-> Pow2[n - [z \in Q |-> Len(c[z])][q]]]
<1>1. Q = {e}
  <2>1. \A q \in Q : IsPrefix(c[e], c[q])
    BY EmptyIsPrefix DEF CodesFor
  <2> QED  BY <2>1 DEF CodesFor
<1>2. f[e] = Pow2[n] /\ Pow2[n] \in Nat
  <2>1. Len(c[e]) = 0 /\ n - 0 = n
    OBVIOUS
  <2> QED  BY <2>1, Pow2Properties
<1>3. CodeRoom(Q, c, n) = Total(f, Q)
  BY DEF CodeRoom, Room
<1> HIDE DEF f
<1>4. Total(f, Q) = f[e] + Total(f, {})
  <2>1. IsFiniteSet({e}) /\ e \in {e} /\ {e} \ {e} = {} /\ \A x \in {e} : f[x] \in Nat
    BY <1>2, FS_Singleton
  <2>2. Total(f, {e}) = f[e] + Total(f, {e} \ {e})
    BY ONLY <2>1, TotalProperties
  <2> QED  BY <1>1, <2>1, <2>2
<1>5. Total(f, {}) = 0
  BY FS_EmptySet, TotalZero
<1> QED  BY ONLY <1>2, <1>3, <1>4, <1>5

\* The codes of the symbols in P begin with b; the same codes without it.
BeginWith(P, c, b) == \A q \in P : c[q] # <<>> /\ c[q][1] = b

WithoutFirst(P, c) == [q \in P |-> Tail(c[q])]

\* The codes that begin with the same bit are codes without it.
LEMMA KraftHalf ==
  ASSUME NEW n \in Nat, NEW m, m = n + 1, NEW Q, NEW c, CodesFor(Q, c, m),
         NEW b, NEW P, P \subseteq Q, BeginWith(P, c, b),
         NEW d, d = WithoutFirst(P, c)
  PROVE  /\ CodesFor(P, d, n)
         /\ \A q \in P : Len(d[q]) = Len(c[q]) - 1
<1>1. IsFiniteSet(P)
  BY FS_Subset DEF CodesFor
<1>2. ASSUME NEW q \in P
      PROVE  /\ d[q] \in Seq(Bit) /\ Len(c[q]) \in Nat /\ Len(d[q]) = Len(c[q]) - 1
             /\ \A i \in 1 .. Len(d[q]) : d[q][i] = c[q][i + 1]
             /\ Len(d[q]) <= n /\ c[q] \in Seq(Bit) /\ c[q][1] = b
  <2>1. PICK s \in Seq(Bit) : s = c[q] /\ s # <<>> /\ Len(s) <= n + 1
    BY <1>1 DEF CodesFor, BeginWith
  <2>2. /\ Tail(s) \in Seq(Bit) /\ Len(Tail(s)) = Len(s) - 1 /\ Len(s) \in Nat
        /\ \A i \in 1 .. Len(Tail(s)) : Tail(s)[i] = s[i + 1]
    BY <2>1, HeadTailProperties, LenProperties
  <2>3. d[q] = Tail(s) /\ c[q][1] = b
    BY <2>1 DEF WithoutFirst, BeginWith
  <2> QED  BY <2>1, <2>2, <2>3
<1>3. d \in [P -> Seq(Bit)]
  BY <1>2 DEF WithoutFirst
<1>4. ASSUME NEW p \in P, NEW q \in P, p # q, IsPrefix(d[p], d[q])
      PROVE  FALSE
  <2>1. Len(d[p]) <= Len(d[q]) /\ \A i \in 1 .. Len(d[p]) : d[p][i] = d[q][i]
    <3>1. d[p] \in Seq(Bit) /\ d[q] \in Seq(Bit)
      BY <1>2
    <3> QED  BY ONLY <1>4, <3>1, IsPrefixElements
  <2>2. ASSUME NEW i \in 1 .. Len(c[p]) PROVE c[p][i] = c[q][i]
    <3>1. CASE i = 1
      BY <1>2, <3>1
    <3>2. CASE i # 1
      <4>1. PICK j : j = i - 1 /\ j \in 1 .. Len(d[p]) /\ j \in 1 .. Len(d[q]) /\ j + 1 = i
        <5>1. PICK x \in Nat, y \in Nat, z \in Nat :
                /\ x = Len(c[p]) /\ y = Len(d[p]) /\ z = Len(d[q])
                /\ y = x - 1 /\ y <= z
          <6>1. Len(d[p]) \in Nat /\ Len(d[q]) \in Nat
            BY <1>2, LenProperties
          <6> QED  BY <1>2, <2>1, <6>1
        <5>2. i \in 1 .. x
          BY <5>1
        <5>3. i - 1 \in 1 .. y /\ i - 1 \in 1 .. z /\ (i - 1) + 1 = i
          BY ONLY <3>2, <5>1, <5>2, x \in Nat, y \in Nat, z \in Nat
        <5> QED  BY <5>1, <5>3
      <4>2. d[p][j] = c[p][j + 1] /\ d[q][j] = c[q][j + 1]
        BY <1>2, <4>1
      <4> QED  BY <2>1, <4>1, <4>2
    <3> QED  BY <3>1, <3>2
  <2>3. Len(c[p]) <= Len(c[q])
    BY <1>2, <2>1
  <2>4. IsPrefix(c[p], c[q])
    BY <1>2, <2>2, <2>3, IsPrefixElements
  <2> QED  BY <1>1, <1>4, <2>4 DEF CodesFor
<1> QED  BY <1>1, <1>2, <1>3, <1>4 DEF CodesFor

\* Both halves of a tree together.
LEMMA KraftStep ==
  ASSUME NEW n \in Nat, NEW Q, NEW c, CodesFor(Q, c, n + 1),
         \A q \in Q : c[q] # <<>>,
         \A P, d : CodesFor(P, d, n) => CodeRoom(P, d, n) <= Pow2[n]
  PROVE  CodeRoom(Q, c, n + 1) <= Pow2[n + 1]
<1> DEFINE P(b) == {q \in Q : c[q][1] = b}
           l == [q \in Q |-> Len(c[q])]
           f == [q \in Q |-> Pow2[(n + 1) - l[q]]]
<1>1. /\ IsFiniteSet(Q) /\ l \in [Q -> Nat] /\ \A q \in Q : l[q] <= n + 1
  <2>1. \A q \in Q : Len(c[q]) \in Nat
    BY LenProperties DEF CodesFor
  <2> QED  BY <2>1 DEF CodesFor
<1>2. \A q \in Q : f[q] \in Nat
  <2> HIDE DEF l
  <2>1. n + 1 \in Nat
    OBVIOUS
  <2> QED  BY <1>1, <2>1, RoomTerms
<1>3. ASSUME NEW b
      PROVE  Total(f, P(b)) <= Pow2[n]
  <2>1. PICK R, e : R = P(b) /\ e = WithoutFirst(R, c)
    OBVIOUS
  <2>2. CodesFor(R, e, n) /\ \A q \in R : Len(e[q]) = Len(c[q]) - 1
    <3>1. R \subseteq Q /\ BeginWith(R, c, b)
      BY <2>1 DEF BeginWith
    <3> HIDE DEF P, l, f
    <3>2. PICK k : k = n + 1
      OBVIOUS
    <3>3. CodesFor(Q, c, k)
      BY <3>2
    <3> QED  BY ONLY n \in Nat, <2>1, <3>1, <3>2, <3>3, KraftHalf
  <2> DEFINE m == [q \in R |-> Len(e[q])]
             g == [q \in R |-> Pow2[n - m[q]]]
  <2>3. R \subseteq Q /\ IsFiniteSet(R)
    BY <1>1, <2>1, FS_Subset
  <2>4. \A q \in R : f[q] = g[q] /\ f[q] \in Nat
    <3> SUFFICES ASSUME NEW q \in R PROVE f[q] = g[q] /\ f[q] \in Nat
      OBVIOUS
    <3>1. l[q] \in Nat /\ m[q] = l[q] - 1 /\ q \in Q
      BY <1>1, <2>2, <2>3
    <3> HIDE DEF l, m
    <3>2. (n + 1) - l[q] = n - m[q]
      BY <3>1
    <3> QED  BY <1>2, <3>1, <3>2
  <2>5. CodeRoom(R, e, n) = Total(g, R) /\ CodeRoom(R, e, n) <= Pow2[n]
    BY <2>2 DEF CodeRoom, Room
  <2> HIDE DEF f, g
  <2>6. Total(f, R) = Total(g, R)
    BY <2>3, <2>4, TotalEqual
  <2> QED  BY <2>1, <2>5, <2>6
<1>4. Q \ P(0) = P(1)
  <2>1. \A q \in Q : c[q][1] \in Bit
    <3> SUFFICES ASSUME NEW q \in Q PROVE c[q][1] \in Bit
      OBVIOUS
    <3>1. PICK s \in Seq(Bit) : s = c[q] /\ s # <<>>
      BY DEF CodesFor
    <3>2. Len(s) \in Nat /\ Len(s) >= 1
      BY <3>1, LenProperties, EmptySeq
    <3>3. s[1] \in Bit
      BY <3>2, ElementOfSeq
    <3> QED  BY <3>1, <3>3
  <2> QED  BY <2>1 DEF Bit
<1>5. CodeRoom(Q, c, n + 1) = Total(f, Q)
  BY DEF CodeRoom, Room
<1>6. P(0) \subseteq Q
  OBVIOUS
<1> HIDE DEF f, P
<1>7. /\ Total(f, Q) = Total(f, P(0)) + Total(f, P(1))
      /\ Total(f, P(0)) \in Nat /\ Total(f, P(1)) \in Nat
  <2>1. /\ Total(f, Q) = Total(f, P(0)) + Total(f, Q \ P(0))
        /\ Total(f, P(0)) \in Nat /\ Total(f, Q \ P(0)) \in Nat
    BY <1>1, <1>2, <1>6, TotalSplit
  <2> QED  BY <1>4, <2>1
<1>8. Total(f, P(0)) <= Pow2[n] /\ Total(f, P(1)) <= Pow2[n]
  BY <1>3
<1>9. Pow2[n + 1] = 2 * Pow2[n] /\ Pow2[n] \in Nat
  BY Pow2Properties
<1> QED  BY ONLY <1>5, <1>7, <1>8, <1>9

\* Kraft's inequality.
LEMMA KraftInequality ==
  ASSUME NEW n \in Nat, NEW Q, NEW c, CodesFor(Q, c, n)
  PROVE  CodeRoom(Q, c, n) <= Pow2[n]
<1> DEFINE T == {k \in Nat : \A P, d : CodesFor(P, d, k) => CodeRoom(P, d, k) <= Pow2[k]}
<1>1. 0 \in T
  <2> SUFFICES ASSUME NEW P, NEW d, CodesFor(P, d, 0)
               PROVE  CodeRoom(P, d, 0) <= Pow2[0]
    OBVIOUS
  <2>1. CASE P = {}
    <3>1. CodeRoom(P, d, 0) = 0
      <4> DEFINE f == [q \in P |-> Pow2[0 - [z \in P |-> Len(d[z])][q]]]
      <4>1. CodeRoom(P, d, 0) = Total(f, P)
        BY DEF CodeRoom, Room
      <4> HIDE DEF f
      <4>2. Total(f, P) = 0
        BY <2>1, FS_EmptySet, TotalZero
      <4> QED  BY <4>1, <4>2
    <3> QED  BY <3>1, Pow2Properties
  <2>2. CASE P # {}
    <3>1. PICK e : e \in P
      BY <2>2
    <3>2. d[e] \in Seq(Bit) /\ Len(d[e]) <= 0
      BY <3>1 DEF CodesFor
    <3>3. d[e] = <<>>
      <4>1. Len(d[e]) = 0
        BY <3>2, LenProperties
      <4> QED  BY <3>2, <4>1, EmptySeq
    <3> QED  BY <3>1, <3>3, KraftEmptyCode
  <2> QED  BY <2>1, <2>2
<1>2. ASSUME NEW k \in Nat, k \in T PROVE k + 1 \in T
  <2> SUFFICES ASSUME NEW P, NEW d, CodesFor(P, d, k + 1)
               PROVE  CodeRoom(P, d, k + 1) <= Pow2[k + 1]
    OBVIOUS
  <2>1. CASE \E e \in P : d[e] = <<>>
    <3>1. k + 1 \in Nat
      OBVIOUS
    <3> QED  BY <2>1, <3>1, KraftEmptyCode
  <2>2. CASE \A e \in P : d[e] # <<>>
    BY <1>2, <2>2, KraftStep
  <2> QED  BY <2>1, <2>2
<1> HIDE DEF T
<1>3. Nat \subseteq T
  BY <1>1, <1>2, SetInduction
<1> QED  BY <1>3 DEF T

-----------------------------------------------------------------------------
(* Minimal codes.                                                          *)

\* The bits of the model are those of this module.
LEMMA EncodedBitsSum ==
  ASSUME NEW t \in Tables, NEW l \in [DOMAIN t -> Nat]
  PROVE  /\ EncodedBits(t, l) = BitsOf(TableCounts(t), l, DOMAIN t)
         /\ EncodedBits(t, l) = Total([i \in DOMAIN t |-> t[i].count * l[i]], DOMAIN t)
         /\ EncodedBits(t, l) \in Nat
<1> DEFINE D == DOMAIN t
           f == [i \in D |-> t[i].count * l[i]]
           g == [i \in D |-> TableCounts(t)[i] * l[i]]
<1>1. /\ IsFiniteSet(D) /\ l \in [D -> Nat]
      /\ \A i \in D : TableCounts(t)[i] = t[i].count /\ t[i].count \in Nat
  BY TableFunction
<1> HIDE DEF D
<1>2. f = g /\ DOMAIN f = D /\ \A i \in D : f[i] \in Nat
  BY <1>1
<1>3. EncodedBits(t, l) = SumFunction(f)
  BY DEF EncodedBits, D
<1>4. BitsOf(TableCounts(t), l, D) = Total(g, D)
  BY DEF BitsOf
<1> HIDE DEF f, g
<1>5. SumFunction(f) = Total(f, D) /\ Total(f, D) \in Nat
  BY <1>1, <1>2, SumFunctionTotal, TotalProperties
<1> QED  BY <1>2, <1>3, <1>4, <1>5 DEF f, D

\* So is Kraft's inequality.
LEMMA FeasibleRoom ==
  ASSUME NEW t \in Tables, NEW l \in [DOMAIN t -> 1 .. (Len(t) - 1)]
  PROVE  Feasible(l) <=> Room(l, Len(t), DOMAIN t) <= Pow2[Len(t)]
<1> DEFINE n == Len(t)
           D == DOMAIN t
           f == [i \in D |-> Pow2[n - l[i]]]
<1>1. n \in Nat /\ D = 1 .. n /\ IsFiniteSet(D)
  BY TableEntries, TableFunction
<1> HIDE DEF n, D
<1>2. l \in [D -> Nat] /\ \A i \in D : l[i] <= n
  <2>1. l \in [D -> 1 .. (n - 1)]
    BY DEF n, D
  <2> QED  BY <1>1, <2>1
<1>3. Len(l) = n
  <2>1. DOMAIN l = 1 .. n
    BY <1>1, <1>2
  <2> QED  BY <1>1, <2>1
<1>4. Feasible(l) <=> SumFunction(f) <= Pow2[n]
  BY <1>1, <1>3 DEF Feasible
<1>5. (\A i \in D : f[i] \in Nat) /\ DOMAIN f = D
  BY <1>1, <1>2, RoomTerms
<1>6. Room(l, n, D) = Total(f, D)
  BY DEF Room
<1> HIDE DEF f
<1>7. SumFunction(f) = Total(f, D)
  BY <1>1, <1>5, SumFunctionTotal
<1> QED  BY <1>4, <1>6, <1>7 DEF n, D

\* How long the codes for the symbols of the table are.
LengthsIn(codes) == [i \in DOMAIN table |-> Len(codes[table[i].codepoint])]

\* The returned codes fit and cost as little as any that fit.
LEMMA ReturnCheapest ==
  ASSUME TypeInv, PathsInv, TreeInv, PathLengthInv, TraversalCostInv, Return,
         NEW h, h = LengthsIn(bit_table)
  PROVE  /\ h \in [DOMAIN table -> 1 .. (Len(table) - 1)]
         /\ Feasible(h)
         /\ \A l : Fits(l, DOMAIN table) => EncodedBits(table, h) <= CostOf(l)
         /\ EncodedBits(table, h) \in Nat
<1> DEFINE n == Len(table)
           D == DOMAIN table
<1>1. /\ pc = "traverse" /\ stack = <<>> /\ UNCHANGED <<table, bit_table>>
  BY DEF Return
<1>2. /\ table \in Tables /\ n \in Nat /\ n > 1 /\ D = 1 .. n /\ IsFiniteSet(D)
      /\ D \subseteq Pointer
      /\ \A i \in D : nodes[i] = LeafNode(table[i]) /\ table[i].count \in Nat
  <2>1. /\ table \in Tables /\ Len(nodes) \in Nat
        /\ \A i \in 1 .. n : table[i] \in TableNode
        /\ n \in Nat /\ D = 1 .. n /\ IsFiniteSet(D)
    BY TableEntries, TableFunction, LenProperties DEF TypeInv, TypeOK
  <2>2. n > 1 /\ n <= Len(nodes) /\ \A i \in 1 .. n : nodes[i] = LeafNode(table[i])
    BY <1>1 DEF TreeInv, LeavesInv
  <2>3. D \subseteq Pointer
    BY ONLY <2>1, <2>2 DEF Pointer
  <2>4. \A i \in 1 .. n : table[i].count \in Nat
    BY <2>1 DEF TableNode
  <2> QED  BY <2>1, <2>2, <2>3, <2>4
<1>3. /\ \A i \in D : table[i].codepoint \in DOMAIN bit_table
      /\ h \in [D -> 1 .. (n - 1)]
  <2>1. Abstract!IsPrefixCodeFor(bit_table, Abstract!Symbols(table))
    BY ReturnedCodes
  <2>2. \A i \in D : table[i].codepoint \in DOMAIN bit_table
    BY <2>1 DEF Abstract!IsPrefixCodeFor, Abstract!Symbols
  <2>3. ASSUME NEW i \in D
        PROVE  Len(bit_table[table[i].codepoint]) \in 1 .. (n - 1)
    <3>1. PICK c : c = table[i].codepoint /\ c \in DOMAIN bit_table
      BY <2>2
    <3>2. bit_table[c] \in Seq(Bit) /\ bit_table[c] # <<>>
      BY <1>1, <3>1 DEF TypeInv, TypeOK, TreeInv, TraversalInv
    <3>3. Len(bit_table[c]) \in Nat /\ Len(bit_table[c]) >= 1
      BY <3>2, LenProperties, EmptySeq
    <3>4. Len(bit_table[c]) < n
      BY <1>1, <3>1 DEF PathLengthInv
    <3> QED  BY <1>2, <3>1, <3>3, <3>4
  <2> QED  BY <2>2, <2>3 DEF LengthsIn
<1>4. \A i \in D : /\ i \in Nat /\ h[i] \in Nat /\ h[i] <= n
                   /\ h[i] = Len(bit_table[table[i].codepoint])
  BY <1>2, <1>3 DEF LengthsIn
<1>5. h \in [D -> Nat]
  BY <1>3, <1>4
<1>6. ASSUME NEW v \in Charge
      PROVE  Charged(v) = Total([i \in D |-> v[<<i, h[i]>>]], D)
  <2>1. SeqTotal(ChargesOf(v, stack)) = 0
    BY <1>1, StackStates, ChargesOfProperties DEF TypeInv
  <2>2. FoundCharges(v) = [i \in D |-> v[<<i, h[i]>>]]
    BY <1>3, <1>4 DEF FoundCharges
  <2>3. Total(FoundCharges(v), D) \in Nat
    BY FoundChargesType DEF TypeInv
  <2> QED  BY <2>1, <2>2, <2>3 DEF Charged
<1> HIDE DEF n, D
<1>7. Feasible(h)
  <2>1. PICK v : v = RoomCharge(n) /\ Charged(v) <= Pow2[n]
    BY <1>1 DEF TraversalCostInv, RoomKept, n
  <2>2. v \in Charge /\ \A i \in D : v[<<i, h[i]>>] = Pow2[n - h[i]]
    BY <1>2, <1>4, <2>1, RoomChargeProperties
  <2>3. [i \in D |-> v[<<i, h[i]>>]] = [i \in D |-> Pow2[n - h[i]]]
    BY <2>2
  <2>4. Charged(v) = Room(h, n, D)
    BY <1>6, <2>2, <2>3 DEF Room
  <2> QED  BY <1>2, <1>3, <2>1, <2>4, FeasibleRoom DEF n, D
<1>8. \A l : Fits(l, D) => EncodedBits(table, h) <= CostOf(l)
  <2>1. PICK C, v : /\ IsCost(C) /\ v = CostCharge(C)
                    /\ \A l : Fits(l, D) => Charged(v) <= CostOf(l)
    BY <1>1 DEF TraversalCostInv, CostKept, D
  <2>2. v \in Charge /\ \A i \in D : v[<<i, h[i]>>] = nodes[i].count * h[i] + C[i]
    BY <1>2, <1>4, <2>1, CostChargeProperties DEF TypeInv
  <2>3. ASSUME NEW i \in D
        PROVE  v[<<i, h[i]>>] = table[i].count * h[i]
    <3>1. nodes[i].count = table[i].count /\ IsLeaf(nodes[i])
      <4>1. \A e : LeafNode(e).count = e.count /\ IsLeaf(LeafNode(e))
        BY DEF LeafNode, IsLeaf
      <4> QED  BY <1>2, <4>1
    <3>2. C[i] = 0
      BY <1>2, <2>1, <3>1 DEF IsCost
    <3>3. table[i].count * h[i] \in Nat
      BY <1>2, <1>4
    <3> QED  BY <2>2, <3>1, <3>2, <3>3
  <2>4. [i \in D |-> v[<<i, h[i]>>]] = [i \in D |-> table[i].count * h[i]]
    BY <2>3
  <2>5. Charged(v) = EncodedBits(table, h)
    <3>1. Charged(v) = Total([i \in D |-> v[<<i, h[i]>>]], D)
      BY <1>6, <2>2
    <3>2. EncodedBits(table, h) = Total([i \in D |-> table[i].count * h[i]], D)
      BY <1>2, <1>5, EncodedBitsSum DEF D, n
    <3> QED  BY ONLY <2>4, <3>1, <3>2
  <2> QED  BY <2>1, <2>5
<1> QED  BY <1>2, <1>3, <1>5, <1>7, <1>8, EncodedBitsSum DEF D, n

\* The returned codes take as few bits as any lengths allow.
LEMMA ReturnOptimal ==
  ASSUME TypeInv, PathsInv, TreeInv, PathLengthInv, TraversalCostInv, Return
  PROVE  Optimal'
<1> DEFINE n == Len(table)
           D == DOMAIN table
           A == {m \in [D -> 1 .. (n - 1)] : Feasible(m)}
           S == {EncodedBits(table, l) : l \in A}
<1>1. PICK h : h = LengthsIn(bit_table)
  OBVIOUS
<1>2. table \in Tables /\ n \in Nat
  BY TableEntries DEF TypeInv, TypeOK
<1>3. /\ h \in A /\ EncodedBits(table, h) \in Nat
      /\ \A l : Fits(l, D) => EncodedBits(table, h) <= CostOf(l)
  BY <1>1, ReturnCheapest
<1>4. ASSUME NEW l \in A
      PROVE  EncodedBits(table, h) <= EncodedBits(table, l) /\ EncodedBits(table, l) \in Nat
  <2>1. l \in [D -> Nat] /\ (\A q \in D : l[q] <= n) /\ l \in [D -> 1 .. (n - 1)] /\ Feasible(l)
    BY <1>2
  <2>2. Room(l, n, D) <= Pow2[n]
    BY <1>2, <2>1, FeasibleRoom
  <2>3. EncodedBits(table, l) = CostOf(l) /\ EncodedBits(table, l) \in Nat
    BY <1>2, <2>1, EncodedBitsSum DEF CostOf
  <2>4. Fits(l, D)
    BY <1>2, <2>1, <2>2 DEF Fits
  <2> QED  BY <1>3, <2>3, <2>4
<1>5. EncodedBits(table, h) = MinimalBits(table)
  <2>1. MinimalBits(table) = Min(S)
    BY DEF MinimalBits
  <2>2. EncodedBits(table, h) \in S
    BY <1>3
  <2>3. \A y \in S : EncodedBits(table, h) <= y /\ y \in Nat
    BY <1>4
  <2> HIDE DEF S
  <2>4. Min(S) \in S /\ \A y \in S : Min(S) <= y
    BY <2>2, <2>3 DEF Min
  <2> QED  BY <1>3, <2>1, <2>2, <2>3, <2>4
<1>6. UNCHANGED <<table, bit_table>>
  BY DEF Return
<1> QED  BY <1>1, <1>5, <1>6 DEF Optimal, LengthsIn

\* Prefix codes for the table's codepoints have lengths that fit.
LEMMA PrefixCodeFits ==
  ASSUME TypeInv, Len(table) > 1,
         NEW codes, Abstract!IsPrefixCodeFor(codes, Abstract!Symbols(table))
  PROVE  Fits(LengthsIn(codes), DOMAIN table)
<1> DEFINE D == DOMAIN table
           c == [i \in D |-> codes[table[i].codepoint]]
           l == LengthsIn(codes)
<1>1. /\ IsFrequencyTable(table) /\ Len(table) \in Nat /\ D = 1 .. Len(table)
      /\ IsFiniteSet(D) /\ D # {}
  <2>1. table \in Tables
    BY DEF TypeInv, TypeOK
  <2>2. Len(table) \in Nat /\ D = 1 .. Len(table) /\ IsFiniteSet(D)
    BY <2>1, TableEntries, TableFunction
  <2>3. 1 \in D
    BY <2>2
  <2> QED  BY <2>1, <2>2, <2>3, ConstantsAssumption
<1>2. \A i \in D : table[i].codepoint \in DOMAIN codes
  BY DEF Abstract!IsPrefixCodeFor, Abstract!Symbols
<1>3. c \in [D -> Seq(Bit)]
  BY <1>2 DEF Abstract!IsPrefixCodeFor, Abstract!Bit, Bit
<1>4. ASSUME NEW p \in D, NEW q \in D, p # q
      PROVE  ~ IsPrefix(c[p], c[q])
  <2>1. table[p].codepoint # table[q].codepoint
    <3>1. p < q \/ q < p
      BY <1>1, <1>4
    <3> QED  BY <1>1, <3>1 DEF IsFrequencyTable
  <2> QED
    BY <1>2, <2>1 DEF Abstract!IsPrefixCodeFor, Abstract!IsPrefixFree, IsPrefix,
      Abstract!IsPrefix
<1>5. l = [i \in D |-> Len(c[i])]
  BY DEF LengthsIn
<1> HIDE DEF c, l, D
<1>6. l \in [D -> Nat]
  BY <1>3, <1>5, LenProperties
<1>7. PICK n \in Nat : \A i \in D : l[i] <= n
  <2>1. \E a \in D : \A i \in D : l[i] <= l[a]
    BY <1>1, <1>6, LargestExists
  <2> QED  BY <1>6, <2>1
<1>8. CodesFor(D, c, n)
  BY <1>1, <1>3, <1>4, <1>5, <1>7 DEF CodesFor
<1>9. Room(l, n, D) <= Pow2[n]
  BY <1>5, <1>8, KraftInequality DEF CodeRoom
<1> QED  BY <1>6, <1>7, <1>9 DEF Fits, l, D

\* No prefix code for the codepoints of the table, however long its codes are,
\* encodes the input in fewer bits than the one that is returned.
NoPrefixCodeCheaper ==
  pc = "returned" /\ Len(table) > 1 =>
    \A codes :
      Abstract!IsPrefixCodeFor(codes, Abstract!Symbols(table)) =>
        EncodedBits(table, LengthsIn(bit_table)) <= EncodedBits(table, LengthsIn(codes))

\* That is so when the call returns.
LEMMA ReturnNoPrefixCodeCheaper ==
  ASSUME TypeInv, PathsInv, TreeInv, PathLengthInv, TraversalCostInv, Return
  PROVE  NoPrefixCodeCheaper'
<1>1. /\ UNCHANGED <<table, bit_table>> /\ Len(table) > 1 /\ table \in Tables
  BY DEF Return, TreeInv, LeavesInv, TypeInv, TypeOK
<1>2. PICK h : h = LengthsIn(bit_table)
  OBVIOUS
<1>3. ASSUME NEW codes, Abstract!IsPrefixCodeFor(codes, Abstract!Symbols(table))
      PROVE  EncodedBits(table, h) <= EncodedBits(table, LengthsIn(codes))
  <2>1. PICK l : l = LengthsIn(codes)
    OBVIOUS
  <2>2. Fits(l, DOMAIN table)
    BY <1>1, <1>3, <2>1, PrefixCodeFits
  <2>3. EncodedBits(table, h) <= CostOf(l)
    BY <1>2, <2>2, ReturnCheapest
  <2>4. EncodedBits(table, l) = CostOf(l)
    BY <1>1, <2>2, EncodedBitsSum DEF Fits, CostOf
  <2> QED  BY <2>1, <2>3, <2>4
<1> QED  BY <1>1, <1>2, <1>3 DEF NoPrefixCodeCheaper, LengthsIn

\* Nothing is returned initially.
LEMMA OptimalInit == Init => Optimal /\ NoPrefixCodeCheaper
  BY DEF Init, Optimal, NoPrefixCodeCheaper

\* A trivial table promises nothing here, and what is returned stays.
LEMMA OptimalStep ==
  TypeInv /\ PathsInv /\ TreeInv /\ PathLengthInv /\ TraversalCostInv
    /\ Optimal /\ NoPrefixCodeCheaper /\ [Next]_vars
    => Optimal' /\ NoPrefixCodeCheaper'
<1> SUFFICES ASSUME TypeInv, PathsInv, TreeInv, PathLengthInv, TraversalCostInv,
                    Optimal, NoPrefixCodeCheaper, [Next]_vars
             PROVE  Optimal' /\ NoPrefixCodeCheaper'
  OBVIOUS
<1>1. CASE Return BY <1>1, ReturnOptimal, ReturnNoPrefixCodeCheaper
<1>2. CASE GenerateTrivial
  <2>1. Len(table) \in Nat /\ Len(table) <= 1 /\ table' = table
    BY <1>2, TableEntries DEF GenerateTrivial, TypeInv, TypeOK
  <2> QED  BY <2>1 DEF Optimal, NoPrefixCodeCheaper
<1>3. CASE PushLeaves \/ Merge \/ StartTraversal \/ VisitLeaf \/ VisitInner
  BY <1>3 DEF PushLeaves, Merge, StartTraversal, VisitLeaf, VisitInner, Optimal,
    NoPrefixCodeCheaper
<1>4. CASE UNCHANGED vars
  BY <1>4 DEF vars, Optimal, NoPrefixCodeCheaper, LengthsIn
<1> QED
  BY <1>1, <1>2, <1>3, <1>4 DEF Next

\* The invariants, one resting on the other.
LEMMA MinimalCorrect == Spec => [](Optimal /\ NoPrefixCodeCheaper)
<1>1. Spec => []TypeInv
  BY TypeInvInit, TypeInvStep, PTL DEF Spec
<1>2. Spec => []PathsInv
  BY <1>1, PathsInvInit, PathsInvStep, PTL DEF Spec
<1>3. Spec => []OrderInv
  BY <1>1, OrderInvInit, OrderInvStep, PTL DEF Spec
<1>4. Spec => []GrowthInv
  BY <1>1, <1>3, GrowthInvInit, GrowthInvStep, PTL DEF Spec
<1>5. Spec => []TreeInv
  BY <1>1, TreeInvInit, TreeInvStep, PTL DEF Spec
<1>6. Spec => [](DistinctInv /\ CountInv)
  BY <1>1, DistinctInvInit, DistinctInvStep, PTL DEF Spec
<1>7. OrderInv => QueuesAscending
  BY DEF OrderInv
<1>8. TreeInv => LeavesInv
  BY DEF TreeInv
<1>9. Spec => []MergeCostInv
  BY <1>1, <1>3, <1>6, <1>7, MergeCostInvInit, MergeCostInvStep, PTL DEF Spec
<1>10. Spec => []PathLengthInv
  BY <1>1, <1>5, <1>6, <1>8, PathLengthInvInit, PathLengthInvStep, PTL DEF Spec
<1>11. Spec => []TraversalCostInv
  BY <1>1, <1>4, <1>5, <1>9, <1>10, TraversalCostInvInit, TraversalCostInvStep, PTL
  DEF Spec
<1> QED
  BY <1>1, <1>2, <1>5, <1>10, <1>11, OptimalInit, OptimalStep, PTL DEF Spec

\* For every set of frequency tables the codes that generate_prefix_codes
\* returns for two symbols or more encode the input in as few bits as any
\* lengths that satisfy Kraft's inequality do: the two queues find the greedy
\* choices, and these lose nothing, whichever way the ties of pop_smallest go.
THEOREM OptimalCorrect == Spec => []Optimal
  BY MinimalCorrect, PTL

\* So no other prefix code for the codepoints of the input takes fewer bits than
\* the one that generate_prefix_codes returns.
THEOREM NoPrefixCodeCheaperCorrect == Spec => []NoPrefixCodeCheaper
  BY MinimalCorrect, PTL
=============================================================================
