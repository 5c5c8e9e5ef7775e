------------------------ MODULE CompressedFormatProofs ------------------------
(***************************************************************************)
(* Machine-checked facts about the operators of CompressedFormat, for      *)
(* every width of bytes and fields.                                        *)
(***************************************************************************)
EXTENDS CompressedFormat, SequenceLemmas, FiniteSetTheorems

-----------------------------------------------------------------------------
(* Division.                                                               *)

\* Quotient and remainder are what they are called.
LEMMA DivisionProperties ==
  ASSUME NEW n \in Nat, NEW b \in Nat \ {0}
  PROVE  /\ n \div b \in Nat /\ n % b \in 0 .. (b - 1)
         /\ n = (n \div b) * b + (n % b)
OBVIOUS

\* They are determined.
LEMMA DivisionUnique ==
  ASSUME NEW k \in Nat, NEW b \in Nat \ {0}, NEW j \in 0 .. (b - 1)
  PROVE  (k * b + j) \div b = k /\ (k * b + j) % b = j
OBVIOUS

\* Products and order.
LEMMA ProductOrder ==
  ASSUME NEW k \in Nat, NEW m \in Nat, NEW b \in Nat \ {0}
  PROVE  /\ k < m => k * b + b <= m * b
         /\ k <= m => k * b <= m * b
         /\ k * b \in Nat
         /\ (m - k) * b = m * b - k * b
         /\ (m + k) * b = m * b + k * b
OBVIOUS

-----------------------------------------------------------------------------
(* Numbers and bits.                                                       *)

\* The largest of finitely many numbers.
LEMMA MaxProperties ==
  ASSUME NEW S \in SUBSET Nat, S # {}, NEW m \in Nat, \A y \in S : y <= m
  PROVE  Max(S) \in S /\ \A y \in S : y <= Max(S)
<1> DEFINE Bounded(U, n) == U \in SUBSET Nat /\ U # {} /\ \A y \in U : y <= n
           T == {n \in Nat : \A U \in SUBSET Nat : Bounded(U, n) =>
                               \E x \in U : \A y \in U : y <= x}
<1>1. 0 \in T
  <2> SUFFICES ASSUME NEW U \in SUBSET Nat, Bounded(U, 0)
               PROVE  \E x \in U : \A y \in U : y <= x
    OBVIOUS
  <2>1. PICK x \in U : TRUE
    OBVIOUS
  <2>2. \A y \in U : y = 0
    OBVIOUS
  <2> QED  BY <2>1, <2>2
<1>2. ASSUME NEW n \in Nat, n \in T
      PROVE  n + 1 \in T
  <2> SUFFICES ASSUME NEW U \in SUBSET Nat, Bounded(U, n + 1)
               PROVE  \E x \in U : \A y \in U : y <= x
    OBVIOUS
  <2>1. CASE n + 1 \in U
    BY <2>1
  <2>2. CASE n + 1 \notin U
    <3>1. \A y \in U : y <= n
      BY <2>2
    <3> QED  BY <1>2, <3>1
  <2> QED  BY <2>1, <2>2
<1>3. Bounded(S, m)
  OBVIOUS
<1> HIDE DEF Bounded
<1>4. m \in T
  <2> HIDE DEF T
  <2> QED  BY <1>1, <1>2, SetInduction
<1>5. \E x \in S : \A y \in S : y <= x
  BY <1>3, <1>4
<1>6. \E x \in S : \A y \in S : x >= y
  BY <1>5
<1> QED  BY <1>6 DEF Max

\* The number that a sequence of bits stands for, first bit highest.
Number(bits) == FoldLeft(LAMBDA value, bit : 2 * value + bit, 0, bits)

\* The function that FoldLeft is defined with, in this case.
Iterates(it, bits) ==
  it = [s \in SUBSET (DOMAIN bits) |->
          IF s = {} THEN 0 ELSE 2 * it[s \ {Max(s)}] + bits[Max(s)]]

\* The same of the first m bits only.
IteratesUpTo(it, bits, m) ==
  \A s \in SUBSET (1 .. m) :
    it[s] = IF s = {} THEN 0 ELSE 2 * it[s \ {Max(s)}] + bits[Max(s)]

HasIterates(bits, m) == \E it \in [SUBSET (1 .. m) -> Nat] : IteratesUpTo(it, bits, m)

\* It exists.
LEMMA IteratesExists ==
  ASSUME NEW bits \in Seq(Bit)
  PROVE  \E it \in [SUBSET (DOMAIN bits) -> Nat] : Iterates(it, bits)
<1> DEFINE n == Len(bits)
           T == {m \in Nat : m <= n => HasIterates(bits, m)}
<1>1. n \in Nat /\ DOMAIN bits = 1 .. n /\ \A i \in 1 .. n : bits[i] \in Nat
  BY LenProperties, ElementOfSeq DEF Bit
<1>2. 0 \in T
  <2> DEFINE it == [s \in SUBSET (1 .. 0) |-> 0]
  <2>1. \A s \in SUBSET (1 .. 0) : s = {}
    OBVIOUS
  <2>2. it \in [SUBSET (1 .. 0) -> Nat] /\ IteratesUpTo(it, bits, 0)
    BY <2>1 DEF IteratesUpTo
  <2> QED  BY <2>2 DEF HasIterates
<1>3. ASSUME NEW m \in Nat, m \in T
      PROVE  m + 1 \in T
  <2> SUFFICES ASSUME m + 1 <= n
               PROVE  HasIterates(bits, m + 1)
    OBVIOUS
  <2>0. HasIterates(bits, m)
    BY <1>1, <1>3
  <2>1. PICK g \in [SUBSET (1 .. m) -> Nat] : IteratesUpTo(g, bits, m)
    BY <2>0 DEF HasIterates
  <2> DEFINE rest(s) == s \ {m + 1}
             it == [s \in SUBSET (1 .. (m + 1)) |->
                      IF m + 1 \in s THEN 2 * g[rest(s)] + bits[m + 1] ELSE g[s]]
  <2>2. ASSUME NEW s \in SUBSET (1 .. (m + 1))
        PROVE  /\ rest(s) \in SUBSET (1 .. m)
               /\ m + 1 \notin s => s \in SUBSET (1 .. m)
               /\ m + 1 \in s => Max(s) = m + 1
               /\ s # {} => Max(s) \in s
    <3>1. s \in SUBSET Nat /\ m + 1 \in Nat /\ \A y \in s : y <= m + 1
      OBVIOUS
    <3>2. s # {} => Max(s) \in s /\ \A y \in s : y <= Max(s)
      BY <3>1, MaxProperties
    <3>3. ASSUME m + 1 \in s PROVE Max(s) = m + 1
      <4>1. Max(s) \in s /\ m + 1 <= Max(s)
        BY <3>2, <3>3
      <4>2. Max(s) \in 1 .. (m + 1)
        BY <4>1
      <4> QED  BY <4>1, <4>2
    <3> QED  BY <3>2, <3>3
  <2>3. bits[m + 1] \in Nat
    BY <1>1
  <2>4. it \in [SUBSET (1 .. (m + 1)) -> Nat]
    <3>1. ASSUME NEW s \in SUBSET (1 .. (m + 1))
          PROVE  (IF m + 1 \in s THEN 2 * g[rest(s)] + bits[m + 1] ELSE g[s]) \in Nat
      <4>1. g[rest(s)] \in Nat /\ (m + 1 \notin s => g[s] \in Nat)
        BY <2>2
      <4> QED  BY <2>3, <4>1
    <3> QED  BY <3>1
  <2>5. ASSUME NEW s \in SUBSET (1 .. (m + 1))
        PROVE  it[s] = IF s = {} THEN 0 ELSE 2 * it[s \ {Max(s)}] + bits[Max(s)]
    <3>1. CASE m + 1 \in s
      <4>1. Max(s) = m + 1 /\ rest(s) \in SUBSET (1 .. m) /\ m + 1 \notin rest(s)
        BY <2>2, <3>1
      <4>2. rest(s) \in SUBSET (1 .. (m + 1)) /\ s # {}
        BY <3>1
      <4>3. it[rest(s)] = g[rest(s)]
        BY <4>1, <4>2
      <4> QED  BY <3>1, <4>1, <4>2, <4>3
    <3>2. CASE m + 1 \notin s
      <4>1. s \in SUBSET (1 .. m)
        BY <2>2, <3>2
      <4> DEFINE r == s \ {Max(s)}
      <4>2. r \in SUBSET (1 .. m) /\ r \in SUBSET (1 .. (m + 1)) /\ m + 1 \notin r
        BY <3>2, <4>1
      <4>3. it[s] = g[s] /\ it[r] = g[r]
        BY <3>2, <4>1, <4>2
      <4>4. g[s] = IF s = {} THEN 0 ELSE 2 * g[r] + bits[Max(s)]
        BY <2>1, <4>1 DEF IteratesUpTo
      <4> QED  BY <4>3, <4>4
    <3> QED  BY <3>1, <3>2
  <2> HIDE DEF it
  <2>6. IteratesUpTo(it, bits, m + 1)
    BY <2>5 DEF IteratesUpTo
  <2> QED  BY <2>4, <2>6 DEF HasIterates
<1> HIDE DEF T
<1>4. n \in T
  BY <1>1, <1>2, <1>3, SetInduction
<1>5. HasIterates(bits, n)
  BY <1>1, <1>4 DEF T
<1>6. PICK it \in [SUBSET (1 .. n) -> Nat] : IteratesUpTo(it, bits, n)
  BY <1>5 DEF HasIterates
<1>7. it = [s \in SUBSET (1 .. n) |-> it[s]]
  OBVIOUS
<1>8. Iterates(it, bits)
  BY <1>1, <1>6, <1>7 DEF Iterates, IteratesUpTo
<1> QED  BY <1>1, <1>6, <1>8

\* What is needed of it: its values at the first bits.
LEMMA NumberIterates ==
  ASSUME NEW bits \in Seq(Bit)
  PROVE  \E g \in [0 .. Len(bits) -> Nat] :
           /\ g[0] = 0
           /\ \A i \in 1 .. Len(bits) : g[i] = 2 * g[i - 1] + bits[i]
           /\ Number(bits) = g[Len(bits)]
<1> DEFINE n == Len(bits)
           it == CHOOSE f : Iterates(f, bits)
           g == [i \in 0 .. n |-> it[1 .. i]]
<1>1. n \in Nat /\ DOMAIN bits = 1 .. n /\ \A i \in 1 .. n : bits[i] \in Nat
  BY LenProperties, ElementOfSeq DEF Bit
<1>2. Iterates(it, bits)
  BY IteratesExists
<1>3. Number(bits) = it[1 .. n]
  <2>1. Number(bits) = it[DOMAIN bits]
    BY DEF Number, FoldLeft, MapThenFoldSet, Iterates
  <2> QED  BY <1>1, <2>1
<1> HIDE DEF it
<1>4. it[{}] = 0
  BY <1>2 DEF Iterates
<1>5. ASSUME NEW i \in 1 .. n
      PROVE  it[1 .. i] = 2 * it[1 .. (i - 1)] + bits[i]
  <2>1. 1 .. i \in SUBSET (DOMAIN bits) /\ 1 .. i # {} /\ (1 .. i) \ {i} = 1 .. (i - 1)
    BY <1>1
  <2>2. Max(1 .. i) = i
    <3>1. /\ 1 .. i \in SUBSET Nat /\ i \in Nat /\ i \in 1 .. i
          /\ \A y \in 1 .. i : y <= i
      BY <1>1
    <3>2. Max(1 .. i) \in 1 .. i /\ i <= Max(1 .. i)
      BY <2>1, <3>1, MaxProperties
    <3> QED  BY <3>1, <3>2
  <2> QED  BY <1>2, <2>1, <2>2 DEF Iterates
<1>6. g[0] = 0 /\ \A i \in 1 .. n : g[i] = 2 * g[i - 1] + bits[i]
  <2>1. 1 .. 0 = {}
    OBVIOUS
  <2>2. g[0] = 0
    BY <1>1, <1>4, <2>1
  <2>3. ASSUME NEW i \in 1 .. n PROVE g[i] = 2 * g[i - 1] + bits[i]
    <3>1. i \in 0 .. n /\ i - 1 \in 0 .. n
      BY <1>1
    <3> QED  BY <1>5, <3>1
  <2> QED  BY <2>2, <2>3
<1>7. Number(bits) = g[n]
  BY <1>1, <1>3
<1> HIDE DEF g
<1> DEFINE T == {i \in Nat : i <= n => g[i] \in Nat}
<1>8. 0 \in T
  BY <1>6
<1>9. ASSUME NEW i \in Nat, i \in T
      PROVE  i + 1 \in T
  <2> SUFFICES ASSUME i + 1 <= n
               PROVE  g[i + 1] \in Nat
    OBVIOUS
  <2>1. i + 1 \in 1 .. n /\ (i + 1) - 1 = i /\ i <= n
    BY <1>1
  <2>2. g[i] \in Nat /\ bits[i + 1] \in Nat /\ g[i + 1] = 2 * g[i] + bits[i + 1]
    BY <1>1, <1>6, <1>9, <2>1
  <2> QED  BY <2>2
<1> HIDE DEF T
<1>10. \A i \in 0 .. n : g[i] \in Nat
  <2>1. Nat \subseteq T
    BY <1>8, <1>9, SetInduction
  <2> QED  BY <1>1, <2>1 DEF T
<1>11. g \in [0 .. n -> Nat]
  BY <1>10 DEF g
<1> QED  BY <1>6, <1>7, <1>11

\* No bits stand for 0, and one bit more doubles the number.
LEMMA NumberAppend ==
  /\ Number(<<>>) = 0
  /\ \A bits \in Seq(Bit), bit \in Bit :
       Number(bits) \in Nat /\ Number(Append(bits, bit)) = 2 * Number(bits) + bit
<1>1. Number(<<>>) = 0
  <2>1. <<>> \in Seq(Bit) /\ Len(<<>>) = 0
    BY EmptySeq
  <2> QED  BY <2>1, NumberIterates
<1>2. ASSUME NEW bits \in Seq(Bit), NEW bit \in Bit
      PROVE  Number(bits) \in Nat /\ Number(Append(bits, bit)) = 2 * Number(bits) + bit
  <2> DEFINE n == Len(bits)
             more == Append(bits, bit)
  <2>1. /\ n \in Nat /\ more \in Seq(Bit) /\ Len(more) = n + 1
        /\ \A i \in 1 .. n : more[i] = bits[i]
        /\ more[n + 1] = bit
    BY AppendProperties, LenProperties
  <2> HIDE DEF more
  <2>2. PICK g \in [0 .. n -> Nat] :
          /\ g[0] = 0
          /\ \A i \in 1 .. n : g[i] = 2 * g[i - 1] + bits[i]
          /\ Number(bits) = g[n]
    BY NumberIterates
  <2>3. PICK h \in [0 .. (n + 1) -> Nat] :
          /\ h[0] = 0
          /\ \A i \in 1 .. (n + 1) : h[i] = 2 * h[i - 1] + more[i]
          /\ Number(more) = h[n + 1]
    BY <2>1, NumberIterates
  <2> DEFINE T == {i \in Nat : i <= n => g[i] = h[i]}
  <2>4. 0 \in T
    BY <2>2, <2>3
  <2>5. ASSUME NEW i \in Nat, i \in T
        PROVE  i + 1 \in T
    <3> SUFFICES ASSUME i + 1 <= n
                 PROVE  g[i + 1] = h[i + 1]
      OBVIOUS
    <3>1. i + 1 \in 1 .. n /\ i + 1 \in 1 .. (n + 1) /\ (i + 1) - 1 = i /\ i <= n
      BY <2>1
    <3> QED  BY <2>1, <2>2, <2>3, <2>5, <3>1
  <2> HIDE DEF T
  <2>6. n \in T
    BY <2>1, <2>4, <2>5, SetInduction
  <2>7. g[n] = h[n]
    BY <2>1, <2>6 DEF T
  <2>8. h[n + 1] = 2 * h[n] + bit
    <3>1. n + 1 \in 1 .. (n + 1) /\ (n + 1) - 1 = n
      BY <2>1
    <3> QED  BY <2>1, <2>3, <3>1
  <2>9. Number(bits) \in Nat
    <3>1. n \in 0 .. n
      BY <2>1
    <3> QED  BY <2>2, <3>1
  <2> QED  BY <2>2, <2>3, <2>7, <2>8, <2>9 DEF more
<1> QED  BY <1>1, <1>2

\* n bits stand for less than 2 to the n.
LEMMA NumberRange ==
  ASSUME NEW bits \in Seq(Bit)
  PROVE  Number(bits) \in 0 .. (Pow2[Len(bits)] - 1)
<1> DEFINE T == {s \in Seq(Bit) : Number(s) < Pow2[Len(s)]}
<1>1. <<>> \in T
  <2>1. <<>> \in Seq(Bit) /\ Len(<<>>) = 0
    BY EmptySeq
  <2> QED  BY <2>1, NumberAppend, Pow2Properties
<1>2. ASSUME NEW s \in Seq(Bit), NEW e \in Bit, s \in T
      PROVE  Append(s, e) \in T
  <2> DEFINE n == Len(s)
  <2>1. n \in Nat /\ Append(s, e) \in Seq(Bit) /\ Len(Append(s, e)) = n + 1
    BY AppendProperties, LenProperties
  <2>2. Number(s) \in Nat /\ Number(Append(s, e)) = 2 * Number(s) + e
    BY NumberAppend
  <2>3. Pow2[n] \in Nat /\ Pow2[n + 1] = 2 * Pow2[n] /\ Number(s) < Pow2[n]
    BY <1>2, <2>1, Pow2Properties
  <2>4. e = 0 \/ e = 1
    BY DEF Bit
  <2>5. Number(Append(s, e)) < Pow2[n + 1]
    BY <2>2, <2>3, <2>4
  <2> QED  BY <2>1, <2>5
<1> HIDE DEF T
<1>3. bits \in T
  BY <1>1, <1>2, SeqSetInduction
<1>4. Len(bits) \in Nat /\ Number(bits) \in Nat
  <2>1. 0 \in Bit
    BY DEF Bit
  <2> QED  BY <2>1, LenProperties, NumberAppend
<1>5. Pow2[Len(bits)] \in Nat
  BY <1>4, Pow2Properties
<1> QED  BY <1>3, <1>4, <1>5 DEF T

\* The bits of a number stand for it.
LEMMA NumberOfBits ==
  ASSUME NEW m \in Nat, NEW v \in 0 .. (Pow2[m] - 1)
  PROVE  Number([i \in 1 .. m |-> (v \div Pow2[m - i]) % 2]) = v
<1> DEFINE bits == [i \in 1 .. m |-> (v \div Pow2[m - i]) % 2]
           part(i) == v \div Pow2[m - i]
<1>1. v \in Nat /\ v < Pow2[m] /\ Pow2[m] \in Nat
  BY Pow2Properties
<1>2. ASSUME NEW i \in 0 .. m
      PROVE  Pow2[m - i] \in Nat \ {0} /\ part(i) \in Nat
  <2>1. m - i \in Nat
    OBVIOUS
  <2>2. Pow2[m - i] \in Nat \ {0}
    BY <2>1, Pow2Properties
  <2> QED  BY <1>1, <2>2, DivisionProperties
<1>3. ASSUME NEW i \in 1 .. m
      PROVE  bits[i] \in Bit /\ part(i) = 2 * part(i - 1) + bits[i]
  <2> DEFINE p == Pow2[m - i]
             q == Pow2[m - (i - 1)]
  <2>1. m - i \in Nat /\ m - (i - 1) = (m - i) + 1
    OBVIOUS
  <2>2. p \in Nat \ {0} /\ q = 2 * p
    BY <2>1, Pow2Properties
  <2> HIDE DEF p, q
  <2>3. /\ v \div p \in Nat /\ (v \div p) % 2 \in 0 .. 1
        /\ v \div p = 2 * (v \div q) + ((v \div p) % 2)
    <3> DEFINE a == v \div p
               b == a \div 2
    <3>1. a \in Nat /\ v % p \in 0 .. (p - 1) /\ v = a * p + (v % p)
      BY <1>1, <2>2, DivisionProperties
    <3>2. b \in Nat /\ a % 2 \in 0 .. 1 /\ a = b * 2 + (a % 2)
      <4>1. 2 \in Nat \ {0} /\ 2 - 1 = 1
        OBVIOUS
      <4> HIDE DEF a
      <4> QED  BY <3>1, <4>1, DivisionProperties
    <3> DEFINE j == (a % 2) * p + (v % p)
    <3>3. j \in 0 .. (q - 1)
      <4>1. CASE a % 2 = 0
        BY <2>2, <3>1, <4>1
      <4>2. CASE a % 2 = 1
        BY <2>2, <3>1, <4>2
      <4> QED  BY <3>2, <4>1, <4>2
    <3>4. v = b * q + j
      <4> HIDE DEF a, b
      <4> DEFINE x == v % p
                 y == a % 2
      <4>1. x \in Nat /\ y \in Nat
        BY <3>1, <3>2, <2>2
      <4>2. v = a * p + x /\ a = b * 2 + y
        BY <3>1, <3>2
      <4> HIDE DEF x, y
      <4>3. a * p = (b * 2) * p + y * p
        BY <2>2, <3>2, <4>1, <4>2
      <4>4. (b * 2) * p = b * (2 * p)
        BY <2>2, <3>2
      <4>5. j = y * p + x
        BY DEF x, y
      <4>6. b * q \in Nat /\ y * p \in Nat /\ b * q = (b * 2) * p
        BY <2>2, <3>2, <4>1, <4>4
      <4> HIDE DEF j
      <4> QED  BY <4>1, <4>2, <4>3, <4>5, <4>6
    <3> HIDE DEF j
    <3>5. v \div q = b
      <4> HIDE DEF b
      <4>1. q \in Nat \ {0}
        BY <2>2
      <4> QED  BY <3>2, <3>3, <3>4, <4>1, DivisionUnique
    <3> HIDE DEF b
    <3> QED  BY <3>1, <3>2, <3>5
  <2>4. part(i) = v \div p /\ part(i - 1) = v \div q /\ bits[i] = (v \div p) % 2
    BY DEF p, q
  <2> HIDE DEF part, bits
  <2> QED  BY <2>3, <2>4 DEF Bit
<1>4. bits \in [1 .. m -> Bit]
  <2>1. bits = [i \in 1 .. m |-> bits[i]]
    OBVIOUS
  <2> HIDE DEF bits
  <2> QED  BY <1>3, <2>1
<1> HIDE DEF bits, part
<1>5. bits \in Seq(Bit) /\ Len(bits) = m
  BY <1>4, SeqDef, LenProperties
<1>6. PICK g \in [0 .. m -> Nat] :
        /\ g[0] = 0
        /\ \A i \in 1 .. m : g[i] = 2 * g[i - 1] + bits[i]
        /\ Number(bits) = g[m]
  BY <1>5, NumberIterates
<1> DEFINE T == {i \in Nat : i <= m => g[i] = part(i)}
<1>7. 0 \in T
  <2>1. part(0) = v \div Pow2[m]
    BY DEF part
  <2>2. v \div Pow2[m] = 0
    <3>1. Pow2[m] \in Nat \ {0} /\ 0 \in Nat /\ v \in 0 .. (Pow2[m] - 1)
      BY Pow2Properties
    <3>2. v = 0 * Pow2[m] + v
      BY <1>1
    <3> QED  BY <3>1, <3>2, DivisionUnique
  <2> QED  BY <1>6, <2>1, <2>2
<1>8. ASSUME NEW i \in Nat, i \in T
      PROVE  i + 1 \in T
  <2> SUFFICES ASSUME i + 1 <= m
               PROVE  g[i + 1] = part(i + 1)
    OBVIOUS
  <2>1. i + 1 \in 1 .. m /\ (i + 1) - 1 = i /\ i <= m
    OBVIOUS
  <2>2. g[i + 1] = 2 * g[i] + bits[i + 1] /\ g[i] = part(i)
    BY <1>6, <1>8, <2>1
  <2>3. part(i + 1) = 2 * part(i) + bits[i + 1]
    BY <1>3, <2>1
  <2> QED  BY <2>2, <2>3
<1> HIDE DEF T
<1>9. m \in T
  BY <1>7, <1>8, SetInduction
<1>10. part(m) = v
  <2>1. m - m = 0 /\ v \div 1 = v
    BY <1>1
  <2> QED  BY <2>1, Pow2Properties DEF part
<1>11. Number(bits) = v
  BY <1>6, <1>9, <1>10 DEF T
<1> QED  BY <1>11 DEF bits

-----------------------------------------------------------------------------
(* Bits in bytes.                                                          *)

\* A bit has its byte and its place there.
LEMMA BitPlace ==
  ASSUME NEW n \in Nat, NEW i \in 1 .. n, NEW k \in Nat, n <= k * ByteBits
  PROVE  /\ 1 + ((i - 1) \div ByteBits) \in 1 .. k
         /\ 1 + ((i - 1) % ByteBits) \in 1 .. ByteBits
         /\ ((i - 1) \div ByteBits) * ByteBits + (1 + ((i - 1) % ByteBits)) = i
<1> DEFINE q == (i - 1) \div ByteBits
           r == (i - 1) % ByteBits
<1>1. ByteBits \in Nat \ {0} /\ i - 1 \in Nat
  BY WidthsAssumption
<1>2. q \in Nat /\ r \in 0 .. (ByteBits - 1) /\ i - 1 = q * ByteBits + r
  BY <1>1, DivisionProperties
<1> HIDE DEF q, r
<1>3. q < k
  <2> SUFFICES ASSUME k <= q PROVE FALSE
    BY <1>2
  <2>1. k * ByteBits <= q * ByteBits /\ k * ByteBits \in Nat /\ q * ByteBits \in Nat
    BY <1>1, <1>2, ProductOrder
  <2> QED  BY <1>1, <1>2, <2>1
<1>4. q * ByteBits \in Nat
  BY <1>1, <1>2, ProductOrder
<1>5. q * ByteBits + (1 + r) = i
  BY <1>1, <1>2, <1>4
<1>6. 1 + q \in 1 .. k /\ 1 + r \in 1 .. ByteBits
  BY <1>1, <1>2, <1>3
<1> QED  BY <1>5, <1>6 DEF q, r

\* n bits need so many bytes and no fewer.
LEMMA BytesForProperties ==
  ASSUME NEW n \in Nat
  PROVE  /\ BytesFor(n) \in Nat
         /\ n <= BytesFor(n) * ByteBits
         /\ \A k \in Nat : n <= k * ByteBits => BytesFor(n) <= k
         /\ \A k \in Nat : n = k * ByteBits => BytesFor(n) = k
<1> DEFINE m == n + ByteBits - 1
           q == m \div ByteBits
           r == m % ByteBits
<1>1. ByteBits \in Nat \ {0} /\ m \in Nat
  BY WidthsAssumption
<1>2. q \in Nat /\ r \in 0 .. (ByteBits - 1) /\ m = q * ByteBits + r
  BY <1>1, DivisionProperties
<1>3. BytesFor(n) = q
  BY DEF BytesFor
<1> HIDE DEF q, r
<1>4. q * ByteBits \in Nat
  BY <1>1, <1>2, ProductOrder
<1>5. n <= q * ByteBits
  BY <1>1, <1>2, <1>4
<1>6. ASSUME NEW k \in Nat, n <= k * ByteBits
      PROVE  q <= k
  <2> SUFFICES ASSUME k < q PROVE FALSE
    BY <1>2
  <2>1. k * ByteBits + ByteBits <= q * ByteBits /\ k * ByteBits \in Nat
    BY <1>1, <1>2, ProductOrder
  <2> QED  BY <1>1, <1>2, <1>4, <1>6, <2>1
<1>7. ASSUME NEW k \in Nat, n = k * ByteBits
      PROVE  q = k
  <2>1. k * ByteBits \in Nat
    BY <1>1, ProductOrder
  <2>2. q <= k
    BY <1>6, <1>7, <2>1
  <2>3. ~ (q < k)
    <3> SUFFICES ASSUME q < k PROVE FALSE
      OBVIOUS
    <3>1. q * ByteBits + ByteBits <= k * ByteBits
      BY <1>1, <1>2, ProductOrder
    <3> QED  BY <1>1, <1>4, <1>5, <1>7, <2>1, <3>1
  <2> QED  BY <1>2, <2>2, <2>3
<1> QED  BY <1>2, <1>3, <1>5, <1>6, <1>7

\* unpack_bits gives the bits in their order.
LEMMA UnpackBitsProperties ==
  ASSUME NEW bytes \in Seq(Byte), NEW n \in Nat, n <= Len(bytes) * ByteBits
  PROVE  /\ UnpackBits(bytes, n) \in Seq(Bit)
         /\ Len(UnpackBits(bytes, n)) = n
         /\ \A i \in 1 .. n :
              UnpackBits(bytes, n)[i]
                = bytes[1 + ((i - 1) \div ByteBits)][1 + ((i - 1) % ByteBits)]
<1> DEFINE bit(i) == bytes[1 + ((i - 1) \div ByteBits)][1 + ((i - 1) % ByteBits)]
<1>1. Len(bytes) \in Nat
  BY LenProperties
<1>2. ASSUME NEW i \in 1 .. n
      PROVE  bit(i) \in Bit
  <2>1. /\ 1 + ((i - 1) \div ByteBits) \in 1 .. Len(bytes)
        /\ 1 + ((i - 1) % ByteBits) \in 1 .. ByteBits
    BY <1>1, BitPlace
  <2>2. bytes[1 + ((i - 1) \div ByteBits)] \in Byte
    BY <2>1, ElementOfSeq
  <2> QED  BY <2>1, <2>2 DEF Byte
<1>3. UnpackBits(bytes, n) = [i \in 1 .. n |-> bit(i)]
  BY DEF UnpackBits
<1> HIDE DEF bit
<1>4. UnpackBits(bytes, n) \in [1 .. n -> Bit]
  BY <1>2, <1>3
<1>5. UnpackBits(bytes, n) \in Seq(Bit) /\ Len(UnpackBits(bytes, n)) = n
  BY <1>4, SeqDef, LenProperties
<1>6. \A i \in 1 .. n : UnpackBits(bytes, n)[i] = bit(i)
  BY <1>3
<1> QED  BY <1>5, <1>6 DEF bit

\* pack_bits gives whole bytes, and unpack_bits the bits back, with zeros
\* behind them.
LEMMA PackBitsProperties ==
  ASSUME NEW s \in Seq(Bit)
  PROVE  /\ PackBits(s) \in Seq(Byte)
         /\ Len(PackBits(s)) = BytesFor(Len(s))
         /\ \A n \in Nat : n <= BytesFor(Len(s)) * ByteBits =>
              \A i \in 1 .. n :
                UnpackBits(PackBits(s), n)[i] = IF i <= Len(s) THEN s[i] ELSE 0
<1> DEFINE b == BytesFor(Len(s))
           bit(i) == IF i <= Len(s) THEN s[i] ELSE 0
           byte(k) == [j \in 1 .. ByteBits |-> bit((k - 1) * ByteBits + j)]
<1>1. Len(s) \in Nat /\ b \in Nat /\ ByteBits \in Nat \ {0}
  BY LenProperties, BytesForProperties, WidthsAssumption
<1>2. \A i \in Nat \ {0} : bit(i) \in Bit
  <2> SUFFICES ASSUME NEW i \in Nat \ {0} PROVE bit(i) \in Bit
    OBVIOUS
  <2>1. CASE i <= Len(s)
    <3>1. i \in 1 .. Len(s)
      BY <1>1, <2>1
    <3> QED  BY <2>1, <3>1, ElementOfSeq
  <2>2. CASE ~ (i <= Len(s))
    BY <2>2 DEF Bit
  <2> QED  BY <2>1, <2>2
<1>3. PackBits(s) = [k \in 1 .. b |-> byte(k)]
  BY DEF PackBits
<1> HIDE DEF bit, b
<1>4. ASSUME NEW k \in 1 .. b
      PROVE  byte(k) \in Byte
  <2>1. k - 1 \in Nat
    BY <1>1
  <2>2. ASSUME NEW j \in 1 .. ByteBits
        PROVE  bit((k - 1) * ByteBits + j) \in Bit
    <3>1. (k - 1) * ByteBits \in Nat
      BY <1>1, <2>1, ProductOrder
    <3>2. (k - 1) * ByteBits + j \in Nat \ {0}
      BY <1>1, <3>1
    <3> QED  BY <1>2, <3>2
  <2> QED  BY <2>2 DEF Byte
<1>5. PackBits(s) \in [1 .. b -> Byte]
  <2> HIDE DEF byte
  <2> QED  BY <1>3, <1>4
<1>6. PackBits(s) \in Seq(Byte) /\ Len(PackBits(s)) = b
  BY <1>1, <1>5, SeqDef, LenProperties
<1>7. ASSUME NEW n \in Nat, n <= b * ByteBits, NEW i \in 1 .. n
      PROVE  UnpackBits(PackBits(s), n)[i] = bit(i)
  <2> DEFINE k == 1 + ((i - 1) \div ByteBits)
             j == 1 + ((i - 1) % ByteBits)
  <2>1. /\ k \in 1 .. b /\ j \in 1 .. ByteBits
        /\ ((i - 1) \div ByteBits) * ByteBits + j = i
    BY <1>1, <1>7, BitPlace
  <2>2. UnpackBits(PackBits(s), n)[i] = PackBits(s)[k][j]
    BY <1>6, <1>7, UnpackBitsProperties
  <2>3. k - 1 = (i - 1) \div ByteBits
    <3> DEFINE q == (i - 1) \div ByteBits
    <3>1. q \in Nat
      <4>1. i - 1 \in Nat
        OBVIOUS
      <4> QED  BY <1>1, <4>1, DivisionProperties
    <3>2. k = 1 + q
      OBVIOUS
    <3> HIDE DEF k, q
    <3>3. k - 1 = q
      BY <3>1, <3>2
    <3> QED  BY <3>3 DEF q
  <2>4. PackBits(s)[k] = byte(k)
    BY <1>3, <2>1
  <2> HIDE DEF k, j
  <2>5. byte(k)[j] = bit((k - 1) * ByteBits + j)
    BY <2>1
  <2> QED  BY <2>1, <2>2, <2>3, <2>4, <2>5
<1> QED  BY <1>6, <1>7 DEF bit, b

\* Any bytes stand for a number that fits into a field of their size.
LEMMA ReadBeRange ==
  ASSUME NEW bytes \in Seq(Byte)
  PROVE  /\ ReadBe(bytes) = Number(UnpackBits(bytes, Len(bytes) * ByteBits))
         /\ ReadBe(bytes) \in 0 .. (FieldRange(Len(bytes)) - 1)
<1> DEFINE n == Len(bytes) * ByteBits
           bits == UnpackBits(bytes, n)
<1>1. n \in Nat
  BY LenProperties, WidthsAssumption, ProductOrder
<1>2. bits \in Seq(Bit) /\ Len(bits) = n
  BY <1>1, UnpackBitsProperties
<1>3. ReadBe(bytes) = Number(bits)
  BY DEF ReadBe, Number
<1> HIDE DEF bits
<1>4. Number(bits) \in 0 .. (Pow2[n] - 1)
  BY <1>2, NumberRange
<1> QED  BY <1>3, <1>4 DEF FieldRange, bits

\* A number that fits into its field is read as it was written.
LEMMA WriteBeProperties ==
  ASSUME NEW n \in Nat, NEW v \in 0 .. (FieldRange(n) - 1)
  PROVE  /\ WriteBe(v, n) \in Seq(Byte) /\ Len(WriteBe(v, n)) = n
         /\ ReadBe(WriteBe(v, n)) = v
<1> DEFINE m == n * ByteBits
           bits == [i \in 1 .. m |-> (v \div Pow2[m - i]) % 2]
           bytes == PackBits(bits)
<1>1. m \in Nat /\ v \in 0 .. (Pow2[m] - 1) /\ v \in Nat
  BY WidthsAssumption, ProductOrder DEF FieldRange
<1>2. bits \in Seq(Bit) /\ Len(bits) = m
  <2>1. ASSUME NEW i \in 1 .. m
        PROVE  (v \div Pow2[m - i]) % 2 \in Bit
    <3> DEFINE p == Pow2[m - i]
               d == v \div p
    <3>1. m - i \in Nat
      BY <1>1
    <3>2. p \in Nat \ {0}
      BY <3>1, Pow2Properties
    <3>3. d \in Nat
      BY <1>1, <3>2, DivisionProperties
    <3> HIDE DEF d
    <3>4. d % 2 \in Bit
      BY <3>3 DEF Bit
    <3> QED  BY <3>4 DEF d
  <2> DEFINE e(i) == (v \div Pow2[m - i]) % 2
  <2>2. bits = [i \in 1 .. m |-> e(i)] /\ \A i \in 1 .. m : e(i) \in Bit
    BY <2>1
  <2> HIDE DEF bits, e
  <2>3. bits \in [1 .. m -> Bit]
    BY <2>2
  <2> QED  BY <1>1, <2>3, SeqDef, LenProperties
<1>3. WriteBe(v, n) = bytes
  BY DEF WriteBe
<1>4. Number(bits) = v
  BY <1>1, NumberOfBits
<1> HIDE DEF bits, bytes
<1>5. BytesFor(m) = n
  BY <1>1, BytesForProperties
<1>6. /\ bytes \in Seq(Byte) /\ Len(bytes) = n
      /\ \A i \in 1 .. m : UnpackBits(bytes, m)[i] = IF i <= m THEN bits[i] ELSE 0
  BY <1>1, <1>2, <1>5, PackBitsProperties DEF bytes
<1>7. UnpackBits(bytes, m) \in Seq(Bit) /\ Len(UnpackBits(bytes, m)) = m
  BY <1>1, <1>6, UnpackBitsProperties
<1>8. UnpackBits(bytes, m) = bits
  <2>1. \A i \in 1 .. m : UnpackBits(bytes, m)[i] = bits[i]
    BY <1>1, <1>6
  <2> QED  BY <1>2, <1>7, <2>1, SeqEqual
<1> QED  BY <1>3, <1>4, <1>6, <1>8, ReadBeRange

-----------------------------------------------------------------------------
(* The order of the header.                                                *)

IsInOrder(s, S) ==
  /\ s \in [1 .. Cardinality(S) -> S]
  /\ \A i, j \in DOMAIN s : i < j => s[i] < s[j]

HasOrder(S) == \E s : IsInOrder(s, S)

\* Finitely many numbers have an order.
LEMMA OrderExists ==
  ASSUME NEW m \in Nat, NEW S \in SUBSET (0 .. m)
  PROVE  HasOrder(S)
<1> DEFINE T == {k \in Nat : \A U \in SUBSET (0 .. (k - 1)) : HasOrder(U)}
<1>1. 0 \in T
  <2> SUFFICES ASSUME NEW U \in SUBSET (0 .. (0 - 1))
               PROVE  HasOrder(U)
    OBVIOUS
  <2>1. U = {} /\ Cardinality(U) = 0
    <3>1. U = {}
      OBVIOUS
    <3> QED  BY <3>1, FS_EmptySet
  <2>2. <<>> \in [1 .. 0 -> U] /\ DOMAIN <<>> = {}
    BY <2>1
  <2>3. IsInOrder(<<>>, U)
    BY <2>1, <2>2 DEF IsInOrder
  <2> QED  BY <2>3 DEF HasOrder
<1>2. ASSUME NEW k \in Nat, k \in T
      PROVE  k + 1 \in T
  <2> SUFFICES ASSUME NEW U \in SUBSET (0 .. ((k + 1) - 1))
               PROVE  HasOrder(U)
    OBVIOUS
  <2> DEFINE rest == U \ {k}
             n == Cardinality(rest)
  <2>1. rest \in SUBSET (0 .. (k - 1)) /\ U \in SUBSET (0 .. k)
    OBVIOUS
  <2>2. HasOrder(rest)
    BY <1>2, <2>1
  <2>3. PICK s : IsInOrder(s, rest)
    BY <2>2 DEF HasOrder
  <2>4. CASE k \notin U
    <3>1. rest = U
      BY <2>4
    <3> QED  BY <2>2, <3>1
  <2>5. CASE k \in U
    <3>1. IsFiniteSet(U)
      <4>1. IsFiniteSet(0 .. k)
        BY FS_Interval
      <4> QED  BY <2>1, <4>1, FS_Subset
    <3>2. n = Cardinality(U) - 1 /\ IsFiniteSet(rest) /\ n \in Nat
      <4>1. IsFiniteSet(rest) /\ n = Cardinality(U) - 1
        BY <2>5, <3>1, FS_RemoveElement
      <4> QED  BY <4>1, FS_CardinalityType
    <3>3. Cardinality(U) \in Nat
      BY <3>1, FS_CardinalityType
    <3>4. Cardinality(U) = n + 1
      BY <3>2, <3>3
    <3> HIDE DEF n
    <3> DEFINE t == [i \in 1 .. (n + 1) |-> IF i = n + 1 THEN k ELSE s[i]]
    <3>5. s \in [1 .. n -> rest] /\ \A i, j \in 1 .. n : i < j => s[i] < s[j]
      BY <2>3 DEF IsInOrder, n
    <3>6. t \in [1 .. (n + 1) -> U]
      <4>1. ASSUME NEW i \in 1 .. (n + 1)
            PROVE  (IF i = n + 1 THEN k ELSE s[i]) \in U
        <5>1. i # n + 1 => i \in 1 .. n
          BY <3>2
        <5> QED  BY <2>5, <3>5, <5>1
      <4> QED  BY <4>1
    <3>7. ASSUME NEW i \in 1 .. (n + 1), NEW j \in 1 .. (n + 1), i < j
          PROVE  t[i] < t[j]
      <4>1. i \in 1 .. n /\ t[i] = s[i] /\ s[i] \in rest
        BY <3>2, <3>5, <3>7
      <4>2. CASE j = n + 1
        <5>1. t[j] = k
          BY <4>2
        <5>2. s[i] \in 0 .. (k - 1)
          BY <2>1, <4>1
        <5>3. s[i] < k
          BY <5>2
        <5> QED  BY <4>1, <5>1, <5>3
      <4>3. CASE j # n + 1
        <5>1. j \in 1 .. n /\ t[j] = s[j]
          BY <3>2, <4>3
        <5> QED  BY <3>5, <3>7, <4>1, <5>1
      <4> QED  BY <4>2, <4>3
    <3> HIDE DEF t
    <3>8. IsInOrder(t, U)
      BY <3>4, <3>6, <3>7 DEF IsInOrder
    <3> QED  BY <3>8 DEF HasOrder
  <2> QED  BY <2>4, <2>5
<1> HIDE DEF T
<1>3. m + 1 \in T
  <2>1. m + 1 \in Nat
    OBVIOUS
  <2> QED  BY <1>1, <1>2, <2>1, SetInduction
<1>4. (m + 1) - 1 = m
  OBVIOUS
<1> QED  BY <1>3, <1>4 DEF T

\* An iteration of the map visits every key once.
LEMMA KeyOrderProperties ==
  ASSUME NEW m \in Nat, NEW S \in SUBSET (0 .. m)
  PROVE  /\ Cardinality(S) \in Nat
         /\ InKeyOrder(S) \in Seq(S)
         /\ Len(InKeyOrder(S)) = Cardinality(S)
         /\ \A i, j \in 1 .. Cardinality(S) :
              InKeyOrder(S)[i] = InKeyOrder(S)[j] => i = j
         /\ \A c \in S : \E i \in 1 .. Cardinality(S) : InKeyOrder(S)[i] = c
<1> DEFINE n == Cardinality(S)
           s == InKeyOrder(S)
<1>1. IsFiniteSet(S) /\ n \in Nat
  <2>1. IsFiniteSet(0 .. m)
    BY FS_Interval
  <2>2. IsFiniteSet(S)
    BY <2>1, FS_Subset
  <2> QED  BY <2>2, FS_CardinalityType
<1>2. s \in [1 .. n -> S] /\ \A i, j \in 1 .. n : i < j => s[i] < s[j]
  <2>1. PICK t : IsInOrder(t, S)
    BY OrderExists DEF HasOrder
  <2> QED  BY <2>1 DEF IsInOrder, InKeyOrder
<1> HIDE DEF s
<1>3. \A i, j \in 1 .. n : s[i] = s[j] => i = j
  <2> SUFFICES ASSUME NEW i \in 1 .. n, NEW j \in 1 .. n, s[i] = s[j], i # j
               PROVE  FALSE
    OBVIOUS
  <2>1. s[i] \in Nat /\ s[j] \in Nat
    <3>1. s[i] \in S /\ s[j] \in S
      BY <1>2
    <3>2. S \subseteq Nat
      OBVIOUS
    <3> QED  BY <3>1, <3>2
  <2>2. s[i] < s[j] \/ s[j] < s[i]
    BY <1>1, <1>2
  <2> QED  BY <2>1, <2>2
<1>4. s \in Seq(S) /\ Len(s) = n
  BY <1>1, <1>2, SeqDef, LenProperties
<1>5. \A c \in S : \E i \in 1 .. n : s[i] = c
  <2>1. s \in Injection(1 .. n, S)
    BY <1>2, <1>3 DEF Injection, IsInjective
  <2>2. Cardinality(1 .. n) = n
    BY <1>1, FS_Interval
  <2>3. s \in Surjection(1 .. n, S)
    BY <1>1, <2>1, <2>2, FS_Injection
  <2> QED  BY <2>3 DEF Surjection
<1> QED  BY <1>1, <1>3, <1>4, <1>5 DEF s

-----------------------------------------------------------------------------
(* The payload.                                                            *)

\* The codes of a text are bits, and one codepoint more adds its code.
LEMMA EncodedBitsProperties ==
  ASSUME NEW codes, \A c \in DOMAIN codes : codes[c] \in Seq(Bit),
         NEW S, NEW text \in Seq(S), NEW c \in S
  PROVE  /\ EncodedBits(<<>>, codes) = <<>>
         /\ EncodedBits(text, codes) \in Seq(Bit)
         /\ EncodedBits(Append(text, c), codes)
              = EncodedBits(text, codes)
                  \o (IF c \in DOMAIN codes THEN codes[c] ELSE <<>>)
<1> DEFINE R == Seq(Bit)
           f == [x \in S |-> IF x \in DOMAIN codes THEN codes[x] ELSE <<>>]
           parts(t) == Mapped(f, t)
           more == Append(text, c)
<1>1. f \in [S -> R] /\ f[c] \in R
  BY EmptySeq
<1>2. /\ \A i \in DOMAIN text : text[i] \in S
      /\ \A i \in DOMAIN more : more[i] \in S
  <2>1. more \in Seq(S)
    BY AppendProperties
  <2> HIDE DEF more
  <2> QED  BY <2>1, LenProperties, ElementOfSeq
<1>3. EncodedBits(text, codes) = FlattenSeq(parts(text))
  BY <1>2 DEF EncodedBits, Mapped
<1>4. EncodedBits(more, codes) = FlattenSeq(parts(more))
  <2> HIDE DEF more
  <2> QED  BY <1>2 DEF EncodedBits, Mapped
<1>5. f[c] = IF c \in DOMAIN codes THEN codes[c] ELSE <<>>
  OBVIOUS
<1> HIDE DEF f
<1>6. parts(text) \in Seq(R) /\ parts(more) = Append(parts(text), f[c])
  <2>1. more = Append(text, c)
    OBVIOUS
  <2>2. f \in [S -> R]
    BY <1>1
  <2> HIDE DEF R, more
  <2> QED  BY <2>1, <2>2, MapType, MapAppend
<1> HIDE DEF parts, more
<1>7. FlattenSeq(parts(text)) \in Seq(Bit)
  BY <1>6, FlattenSeqType
<1>8. FlattenSeq(parts(more)) = FlattenSeq(parts(text)) \o f[c]
  BY <1>1, <1>6, FlattenSeqAppend
<1>9. EncodedBits(<<>>, codes) = <<>>
  BY FlattenSeqEmpty DEF EncodedBits
<1> QED  BY <1>3, <1>4, <1>5, <1>7, <1>8, <1>9 DEF more
=============================================================================
