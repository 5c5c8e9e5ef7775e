---------------------------- MODULE SequenceLemmas ----------------------------
(***************************************************************************)
(* Facts about sequences and numbers that the proofs of several components *)
(* rest on: that a function on the numbers can be defined by recursion,    *)
(* what it means element by element that one sequence begins another, what *)
(* FlattenSeq, which the models use to join the output of the entries of a *)
(* table or the codes of a text, returns, what a sum over a finite set is  *)
(* made of, and what the powers of two are.                                *)
(***************************************************************************)
EXTENDS Powers, SequencesExt, SequenceTheorems, FiniteSetTheorems,
        WellFoundedInduction, TLAPS

\* Induction for a set in place of a predicate, from the least number outside.
LEMMA SetInduction ==
  ASSUME NEW T, 0 \in T, \A n \in Nat : n \in T => n + 1 \in T
  PROVE  Nat \subseteq T
<1> DEFINE U == Nat \ T
<1> SUFFICES ASSUME U # {} PROVE FALSE
  OBVIOUS
<1>1. PICK x \in U : \A y \in U : ~ (<<y, x>> \in OpToRel(<, Nat))
  <2>1. U \subseteq Nat
    OBVIOUS
  <2> QED  BY <2>1, WFMin, NatLessThanWellFounded
<1>2. x - 1 \in Nat /\ x - 1 \notin U
  <2>1. x - 1 \in Nat
    OBVIOUS
  <2>2. <<x - 1, x>> \in OpToRel(<, Nat)
    BY <2>1 DEF OpToRel
  <2> QED  BY <2>1, <2>2, <1>1
<1> QED  BY <1>2

-----------------------------------------------------------------------------
(* Functions defined by recursion.                                         *)

\* The first values of a function defined by recursion.
Recursion(g, base, step, n) ==
  /\ g[0] = base
  /\ \A i \in 0 .. (n - 1) : g[i + 1] = step[<<i, g[i]>>]

\* They exist.
LEMMA RecursionExists ==
  ASSUME NEW S, NEW base \in S, NEW step \in [Nat \X S -> S], NEW n \in Nat
  PROVE  \E g \in [0 .. n -> S] : Recursion(g, base, step, n)
<1> DEFINE T == {m \in Nat : \E g \in [0 .. m -> S] : Recursion(g, base, step, m)}
<1>1. 0 \in T
  <2> DEFINE g == [i \in 0 .. 0 |-> base]
  <2>1. g \in [0 .. 0 -> S] /\ Recursion(g, base, step, 0)
    BY DEF Recursion
  <2> QED  BY <2>1
<1>2. ASSUME NEW m \in Nat, m \in T
      PROVE  m + 1 \in T
  <2>1. PICK g \in [0 .. m -> S] : Recursion(g, base, step, m)
    BY <1>2
  <2> DEFINE e == step[<<m, g[m]>>]
             h == [i \in 0 .. (m + 1) |-> IF i = m + 1 THEN e ELSE g[i]]
  <2>2. e \in S
    <3>1. g[m] \in S
      OBVIOUS
    <3> QED  BY <3>1
  <2>3. /\ h \in [0 .. (m + 1) -> S] /\ h[m + 1] = e
        /\ \A i \in 0 .. m : h[i] = g[i]
    BY <2>2
  <2>4. e = step[<<m, g[m]>>]
    OBVIOUS
  <2> HIDE DEF h, e
  <2>5. h[0] = base
    BY <2>1, <2>3 DEF Recursion
  <2>6. ASSUME NEW i \in 0 .. m PROVE h[i + 1] = step[<<i, h[i]>>]
    <3>1. CASE i = m
      BY <2>3, <2>4, <3>1
    <3>2. CASE i # m
      <4>1. i \in 0 .. (m - 1) /\ i + 1 \in 0 .. m
        BY <3>2
      <4> QED  BY <2>1, <2>3, <4>1 DEF Recursion
    <3> QED  BY <3>1, <3>2
  <2>7. (m + 1) - 1 = m
    OBVIOUS
  <2>8. Recursion(h, base, step, m + 1)
    BY <2>5, <2>6, <2>7 DEF Recursion
  <2> QED  BY <2>3, <2>8
<1> HIDE DEF T
<1>3. n \in T
  BY <1>1, <1>2, SetInduction
<1> QED  BY <1>3 DEF T

\* They are determined.
LEMMA RecursionUnique ==
  ASSUME NEW base, NEW step, NEW m \in Nat, NEW n \in Nat, m <= n,
         NEW g, Recursion(g, base, step, m), NEW h, Recursion(h, base, step, n)
  PROVE  g[m] = h[m]
<1> DEFINE T == {i \in Nat : i <= m => g[i] = h[i]}
<1>1. 0 \in T
  BY DEF Recursion
<1>2. ASSUME NEW i \in Nat, i \in T
      PROVE  i + 1 \in T
  <2> SUFFICES ASSUME i + 1 <= m
               PROVE  g[i + 1] = h[i + 1]
    OBVIOUS
  <2>1. i \in 0 .. (m - 1) /\ i \in 0 .. (n - 1) /\ i <= m
    OBVIOUS
  <2>2. g[i] = h[i]
    BY <1>2, <2>1
  <2> QED  BY <2>1, <2>2 DEF Recursion
<1> HIDE DEF T
<1>3. m \in T
  BY <1>1, <1>2, SetInduction
<1> QED  BY <1>3 DEF T

\* A function on all numbers, given by its first value and a step.
IsRecursive(f, base, step) ==
  f[0] = base /\ \A n \in Nat : f[n + 1] = step[<<n, f[n]>>]

\* It exists.
LEMMA RecursiveFunction ==
  ASSUME NEW S, NEW base \in S, NEW step \in [Nat \X S -> S]
  PROVE  \E f \in [Nat -> S] : IsRecursive(f, base, step)
<1> DEFINE G(n) == CHOOSE g \in [0 .. n -> S] : Recursion(g, base, step, n)
           f == [n \in Nat |-> G(n)[n]]
<1>1. ASSUME NEW n \in Nat
      PROVE  G(n) \in [0 .. n -> S] /\ Recursion(G(n), base, step, n)
  BY RecursionExists
<1> HIDE DEF G
<1>2. f \in [Nat -> S]
  BY <1>1
<1>3. f[0] = base
  <2>1. Recursion(G(0), base, step, 0)
    BY <1>1
  <2> QED  BY <2>1 DEF Recursion
<1>4. ASSUME NEW n \in Nat PROVE f[n + 1] = step[<<n, f[n]>>]
  <2>1. Recursion(G(n), base, step, n) /\ Recursion(G(n + 1), base, step, n + 1)
    BY <1>1
  <2>2. G(n)[n] = G(n + 1)[n]
    BY <2>1, RecursionUnique
  <2>3. n \in 0 .. ((n + 1) - 1)
    OBVIOUS
  <2>4. G(n + 1)[n + 1] = step[<<n, G(n + 1)[n]>>]
    BY <2>1, <2>3 DEF Recursion
  <2> QED  BY <2>2, <2>4
<1> HIDE DEF f
<1> QED  BY <1>2, <1>3, <1>4 DEF IsRecursive

-----------------------------------------------------------------------------
(* IsPrefix is defined with SubSeq; the proofs read it one element at a     *)
(* time.                                                                   *)

\* A sequence is a prefix of another when it is not longer and agrees with it.
LEMMA IsPrefixElements ==
  ASSUME NEW S, NEW s \in Seq(S), NEW t \in Seq(S)
  PROVE  IsPrefix(s, t) <=>
           Len(s) <= Len(t) /\ \A i \in 1 .. Len(s) : s[i] = t[i]
<1>1. /\ s \in [1 .. Len(s) -> S] /\ t \in [1 .. Len(t) -> S]
      /\ Len(s) \in Nat /\ Len(t) \in Nat
  BY LenProperties
<1>2. CASE Len(s) <= Len(t)
  <2>1. Len(s) \in (1 - 1) .. Len(s) /\ Len(s) \in (1 - 1) .. Len(t)
    BY <1>1, <1>2
  <2>2. /\ SubSeq(s, 1, Len(s)) \in Seq(S)
        /\ Len(SubSeq(s, 1, Len(s))) = Len(s)
        /\ \A i \in 1 .. Len(s) : SubSeq(s, 1, Len(s))[i] = s[i]
    BY <1>1, <2>1, SubSeqProperties
  <2>3. /\ SubSeq(t, 1, Len(s)) \in Seq(S)
        /\ Len(SubSeq(t, 1, Len(s))) = Len(s)
        /\ \A i \in 1 .. Len(s) : SubSeq(t, 1, Len(s))[i] = t[i]
    BY <1>1, <2>1, SubSeqProperties
  <2>4. (\A i \in 1 .. Len(s) : s[i] = t[i])
          => SubSeq(s, 1, Len(s)) = SubSeq(t, 1, Len(s))
    BY <2>2, <2>3, SeqEqual
  <2> QED  BY <1>2, <2>2, <2>3, <2>4 DEF IsPrefix
<1>3. CASE ~ (Len(s) <= Len(t))
  BY <1>3 DEF IsPrefix
<1> QED  BY <1>2, <1>3

\* What begins a sequence begins every continuation of it.
LEMMA IsPrefixTransitive ==
  ASSUME NEW S, NEW s \in Seq(S), NEW t \in Seq(S), NEW u \in Seq(S),
         IsPrefix(s, t), IsPrefix(t, u)
  PROVE  IsPrefix(s, u)
<1>1. Len(s) \in Nat /\ Len(t) \in Nat /\ Len(u) \in Nat
  BY LenProperties
<1>2. Len(s) <= Len(t) /\ \A i \in 1 .. Len(s) : s[i] = t[i]
  BY IsPrefixElements
<1>3. Len(t) <= Len(u) /\ \A i \in 1 .. Len(t) : t[i] = u[i]
  BY IsPrefixElements
<1>4. Len(s) <= Len(u) /\ \A i \in 1 .. Len(s) : s[i] = u[i]
  BY <1>1, <1>2, <1>3
<1> QED  BY <1>4, IsPrefixElements

\* Every sequence is a prefix of itself.
LEMMA IsPrefixReflexive ==
  ASSUME NEW S, NEW s \in Seq(S)
  PROVE  IsPrefix(s, s)
<1>1. Len(s) \in Nat
  BY LenProperties
<1> QED  BY <1>1, IsPrefixElements

\* The empty sequence is a prefix of every sequence.
LEMMA EmptyIsPrefix ==
  ASSUME NEW S, NEW s \in Seq(S)
  PROVE  IsPrefix(<<>>, s)
<1>1. <<>> \in Seq(S) /\ Len(<<>>) = 0 /\ Len(s) \in Nat
  BY EmptySeq, LenProperties
<1>2. Len(<<>>) <= Len(s) /\ \A i \in 1 .. Len(<<>>) : <<>>[i] = s[i]
  BY <1>1
<1> QED  BY <1>1, <1>2, IsPrefixElements

\* A sequence is a prefix of what is appended to it.
LEMMA IsPrefixConcat ==
  ASSUME NEW S, NEW s \in Seq(S), NEW t \in Seq(S)
  PROVE  IsPrefix(s, s \o t)
<1>1. Len(s) \in Nat /\ Len(t) \in Nat
  BY LenProperties
<1>2. /\ s \o t \in Seq(S) /\ Len(s) <= Len(s \o t)
      /\ \A i \in 1 .. Len(s) : s[i] = (s \o t)[i]
  BY <1>1, ConcatProperties
<1> QED  BY <1>2, IsPrefixElements

\* An element in front of a sequence.
LEMMA ConsProperties ==
  ASSUME NEW S, NEW e \in S, NEW s \in Seq(S)
  PROVE  /\ <<e>> \o s \in Seq(S)
         /\ Len(<<e>> \o s) = Len(s) + 1
         /\ (<<e>> \o s)[1] = e
         /\ \A i \in 2 .. (Len(s) + 1) : (<<e>> \o s)[i] = s[i - 1]
<1>1. <<e>> \in Seq(S) /\ Len(<<e>>) = 1 /\ <<e>>[1] = e /\ Len(s) \in Nat
  BY LenProperties
<1> QED  BY <1>1, ConcatProperties

-----------------------------------------------------------------------------
(* FlattenSeq: the function it is defined with, and what follows for a     *)
(* sequence that gets one element more.                                    *)

\* g joins the first n elements of seqs.
Joins(g, seqs, n) ==
  g = [i \in 1 .. n |-> IF i = 1 THEN seqs[i] ELSE g[i - 1] \o seqs[i]]

\* The partial joins of a sequence of sequences exist.
LEMMA JoinsExists ==
  ASSUME NEW S, NEW seqs \in Seq(Seq(S)), NEW n \in 1 .. Len(seqs)
  PROVE  \E g \in [1 .. n -> Seq(S)] : Joins(g, seqs, n)
<1> DEFINE T == {m \in Nat : m + 1 <= Len(seqs) =>
                   \E g \in [1 .. (m + 1) -> Seq(S)] : Joins(g, seqs, m + 1)}
<1>1. Len(seqs) \in Nat /\ \A i \in 1 .. Len(seqs) : seqs[i] \in Seq(S)
  BY LenProperties, ElementOfSeq
<1>2. 0 \in T
  <2> SUFFICES ASSUME 1 <= Len(seqs)
               PROVE  \E g \in [1 .. 1 -> Seq(S)] : Joins(g, seqs, 1)
    OBVIOUS
  <2> DEFINE g == [i \in 1 .. 1 |-> seqs[i]]
  <2>1. g \in [1 .. 1 -> Seq(S)]
    BY <1>1
  <2>2. Joins(g, seqs, 1)
    BY DEF Joins
  <2> QED  BY <2>1, <2>2
<1>3. ASSUME NEW m \in Nat, m \in T
      PROVE  m + 1 \in T
  <2> SUFFICES ASSUME (m + 1) + 1 <= Len(seqs)
               PROVE  \E g \in [1 .. ((m + 1) + 1) -> Seq(S)] :
                        Joins(g, seqs, (m + 1) + 1)
    OBVIOUS
  <2>1. PICK g \in [1 .. (m + 1) -> Seq(S)] : Joins(g, seqs, m + 1)
    BY <1>1, <1>3
  <2> DEFINE e == g[m + 1] \o seqs[m + 2]
             h == [i \in 1 .. (m + 2) |-> IF i = m + 2 THEN e ELSE g[i]]
  <2>2. e \in Seq(S)
    <3>1. g[m + 1] \in Seq(S) /\ seqs[m + 2] \in Seq(S)
      BY <1>1
    <3> QED  BY <3>1, ConcatProperties
  <2>3. e = g[m + 1] \o seqs[m + 2] /\ (m + 1) + 1 = m + 2
    OBVIOUS
  <2> HIDE DEF e
  <2>4. /\ h[m + 2] = e
        /\ \A i \in 1 .. (m + 1) : h[i] = g[i]
    BY <2>2
  <2>5. \A i \in 1 .. (m + 1) :
          g[i] = IF i = 1 THEN seqs[i] ELSE g[i - 1] \o seqs[i]
    BY <2>1 DEF Joins
  <2>6. h \in [1 .. (m + 2) -> Seq(S)]
    BY <2>2
  <2> HIDE DEF h
  <2>7. \A i \in 1 .. (m + 2) :
          h[i] = IF i = 1 THEN seqs[i] ELSE h[i - 1] \o seqs[i]
    <3> SUFFICES ASSUME NEW i \in 1 .. (m + 2)
                 PROVE  h[i] = IF i = 1 THEN seqs[i] ELSE h[i - 1] \o seqs[i]
      OBVIOUS
    <3>1. CASE i = m + 2
      <4>1. i # 1 /\ i - 1 = m + 1 /\ m + 1 \in 1 .. (m + 1)
        BY <3>1
      <4>2. h[i] = g[m + 1] \o seqs[i] /\ h[i - 1] = g[m + 1]
        BY <3>1, <4>1, <2>4, <2>3
      <4> QED  BY <4>1, <4>2
    <3>2. CASE i # m + 2 /\ i # 1
      <4>1. i \in 1 .. (m + 1) /\ i - 1 \in 1 .. (m + 1)
        BY <3>2
      <4> QED  BY <3>2, <4>1, <2>4, <2>5
    <3>3. CASE i = 1
      <4>1. 1 \in 1 .. (m + 1)
        OBVIOUS
      <4> QED  BY <3>3, <4>1, <2>4, <2>5
    <3> QED  BY <3>1, <3>2, <3>3
  <2>8. Joins(h, seqs, m + 2)
    BY <2>6, <2>7 DEF Joins
  <2> QED  BY <2>6, <2>8, <2>3
<1> HIDE DEF T
<1>4. Nat \subseteq T
  BY <1>2, <1>3, SetInduction
<1>5. n - 1 \in T /\ (n - 1) + 1 = n
  BY <1>1, <1>4
<1> QED  BY <1>1, <1>5 DEF T

\* Partial joins of different lengths agree where both are defined.
LEMMA JoinsUnique ==
  ASSUME NEW seqs, NEW m \in Nat, NEW n \in Nat, m <= n,
         NEW g, Joins(g, seqs, m), NEW h, Joins(h, seqs, n)
  PROVE  \A i \in 1 .. m : g[i] = h[i]
<1> DEFINE T == {i \in Nat : i + 1 <= m => g[i + 1] = h[i + 1]}
<1>1. /\ \A i \in 1 .. m : g[i] = IF i = 1 THEN seqs[i] ELSE g[i - 1] \o seqs[i]
      /\ \A i \in 1 .. n : h[i] = IF i = 1 THEN seqs[i] ELSE h[i - 1] \o seqs[i]
  BY DEF Joins
<1>2. 0 \in T
  BY <1>1
<1>3. ASSUME NEW i \in Nat, i \in T
      PROVE  i + 1 \in T
  <2> SUFFICES ASSUME (i + 1) + 1 <= m
               PROVE  g[(i + 1) + 1] = h[(i + 1) + 1]
    OBVIOUS
  <2>1. g[i + 1] = h[i + 1] /\ (i + 1) + 1 = i + 2
    BY <1>3
  <2>2. i + 2 \in 1 .. m /\ i + 2 \in 1 .. n /\ i + 2 # 1 /\ (i + 2) - 1 = i + 1
    OBVIOUS
  <2>3. g[i + 2] = g[i + 1] \o seqs[i + 2] /\ h[i + 2] = h[i + 1] \o seqs[i + 2]
    BY <1>1, <2>2
  <2> QED  BY <2>1, <2>3
<1> HIDE DEF T
<1>4. Nat \subseteq T
  BY <1>2, <1>3, SetInduction
<1>5. \A i \in 1 .. m : i - 1 \in T /\ (i - 1) + 1 = i
  BY <1>4
<1> QED  BY <1>5 DEF T

\* FlattenSeq is the last of the partial joins.
LEMMA FlattenSeqJoins ==
  ASSUME NEW S, NEW seqs \in Seq(Seq(S)), seqs # <<>>
  PROVE  \E g \in [1 .. Len(seqs) -> Seq(S)] :
           Joins(g, seqs, Len(seqs)) /\ FlattenSeq(seqs) = g[Len(seqs)]
<1> DEFINE k == CHOOSE g : Joins(g, seqs, Len(seqs))
<1>1. Len(seqs) \in Nat /\ Len(seqs) # 0 /\ Len(seqs) \in 1 .. Len(seqs)
  BY LenProperties, EmptySeq
<1>2. PICK g \in [1 .. Len(seqs) -> Seq(S)] : Joins(g, seqs, Len(seqs))
  BY <1>1, JoinsExists
<1>3. Joins(k, seqs, Len(seqs))
  BY <1>2
<1>4. FlattenSeq(seqs) = k[Len(seqs)]
  BY <1>1 DEF FlattenSeq, Joins
<1> HIDE DEF k
<1>5. g[Len(seqs)] = k[Len(seqs)]
  BY <1>1, <1>2, <1>3, JoinsUnique
<1> QED  BY <1>2, <1>4, <1>5

\* Nothing flattens to nothing.
LEMMA FlattenSeqEmpty == FlattenSeq(<<>>) = <<>>
BY DEF FlattenSeq

\* What FlattenSeq returns is made of the same elements.
LEMMA FlattenSeqType ==
  ASSUME NEW S, NEW seqs \in Seq(Seq(S))
  PROVE  FlattenSeq(seqs) \in Seq(S)
<1>1. CASE seqs = <<>>
  BY <1>1, FlattenSeqEmpty, EmptySeq
<1>2. CASE seqs # <<>>
  <2>1. Len(seqs) \in 1 .. Len(seqs)
    BY <1>2, LenProperties, EmptySeq
  <2> QED  BY <1>2, <2>1, FlattenSeqJoins
<1> QED  BY <1>1, <1>2

\* One sequence more comes behind the others.
LEMMA FlattenSeqAppend ==
  ASSUME NEW S, NEW seqs \in Seq(Seq(S)), NEW x \in Seq(S)
  PROVE  FlattenSeq(Append(seqs, x)) = FlattenSeq(seqs) \o x
<1> DEFINE n == Len(seqs)
           more == Append(seqs, x)
<1>1. /\ n \in Nat /\ more \in Seq(Seq(S)) /\ Len(more) = n + 1
      /\ \A i \in 1 .. n : more[i] = seqs[i]
      /\ more[n + 1] = x /\ more # <<>>
  BY AppendProperties, LenProperties, EmptySeq
<1> HIDE DEF more
<1>2. PICK h \in [1 .. (n + 1) -> Seq(S)] :
        Joins(h, more, n + 1) /\ FlattenSeq(more) = h[n + 1]
  BY <1>1, FlattenSeqJoins
<1>3. \A i \in 1 .. (n + 1) :
        h[i] = IF i = 1 THEN more[i] ELSE h[i - 1] \o more[i]
  BY <1>2 DEF Joins
<1>4. CASE n = 0
  <2>1. seqs = <<>>
    BY <1>4, EmptySeq
  <2>2. FlattenSeq(more) = x
    BY <1>1, <1>2, <1>3, <1>4
  <2>3. <<>> \o x = x
    OBVIOUS
  <2> QED  BY <2>1, <2>2, <2>3, FlattenSeqEmpty DEF more
<1>5. CASE n # 0
  <2>1. seqs # <<>> /\ n \in 1 .. n
    BY <1>1, <1>5, EmptySeq
  <2>2. PICK g \in [1 .. n -> Seq(S)] :
          Joins(g, seqs, n) /\ FlattenSeq(seqs) = g[n]
    BY <2>1, FlattenSeqJoins
  <2> DEFINE r == [i \in 1 .. n |-> h[i]]
  <2>3. Joins(r, seqs, n)
    <3> SUFFICES ASSUME NEW i \in 1 .. n
                 PROVE  h[i] = IF i = 1 THEN seqs[i] ELSE r[i - 1] \o seqs[i]
      BY DEF Joins
    <3>1. i \in 1 .. (n + 1) /\ more[i] = seqs[i]
      BY <1>1
    <3>2. i # 1 => r[i - 1] = h[i - 1]
      BY <1>1
    <3> QED  BY <1>3, <3>1, <3>2
  <2>4. g[n] = r[n] /\ r[n] = h[n]
    <3> HIDE DEF r
    <3>1. g[n] = r[n]
      BY <1>1, <2>1, <2>2, <2>3, JoinsUnique
    <3> QED  BY <2>1, <3>1 DEF r
  <2>5. h[n + 1] = h[n] \o x
    <3>1. n + 1 # 1 /\ (n + 1) - 1 = n /\ n + 1 \in 1 .. (n + 1)
      BY <1>1, <1>5
    <3> QED  BY <1>1, <1>3, <3>1
  <2> QED  BY <1>2, <2>2, <2>4, <2>5 DEF more
<1> QED  BY <1>4, <1>5

-----------------------------------------------------------------------------
(* What follows by induction over a sequence.                              *)

\* Induction over sequences, for a set in place of a predicate.
LEMMA SeqSetInduction ==
  ASSUME NEW S, NEW T, <<>> \in T,
         \A s \in Seq(S), e \in S : s \in T => Append(s, e) \in T
  PROVE  Seq(S) \subseteq T
<1> DEFINE U == {n \in Nat : \A s \in Seq(S) : Len(s) = n => s \in T}
<1>1. 0 \in U
  <2>1. \A s \in Seq(S) : Len(s) = 0 => s = <<>>
    BY EmptySeq
  <2> QED  BY <2>1
<1>2. ASSUME NEW n \in Nat, n \in U
      PROVE  n + 1 \in U
  <2> SUFFICES ASSUME NEW s \in Seq(S), Len(s) = n + 1
               PROVE  s \in T
    OBVIOUS
  <2>1. s # <<>>
    <3>1. Len(<<>>) = 0
      OBVIOUS
    <3> QED  BY <3>1
  <2>2. PICK t \in Seq(S), e \in S : s = Append(t, e)
    BY <2>1, SequenceEmptyOrAppend
  <2>3. Len(t) = n
    <3>1. Len(s) = Len(t) + 1 /\ Len(t) \in Nat
      BY <2>2, AppendProperties, LenProperties
    <3> QED  BY <3>1
  <2>4. t \in T
    BY <1>2, <2>3
  <2> QED  BY <2>2, <2>4
<1> HIDE DEF U
<1>3. Nat \subseteq U
  BY <1>1, <1>2, SetInduction
<1>4. \A s \in Seq(S) : Len(s) \in Nat
  BY LenProperties
<1> QED  BY <1>3, <1>4 DEF U

\* The sequence of the elements, each on its own, flattens to the sequence.
LEMMA FlattenSingletons ==
  ASSUME NEW S, NEW s \in Seq(S)
  PROVE  FlattenSeq([i \in DOMAIN s |-> <<s[i]>>]) = s
<1> DEFINE parts(t) == [i \in DOMAIN t |-> <<t[i]>>]
           T == {t \in Seq(S) : FlattenSeq(parts(t)) = t}
<1>1. <<>> \in T
  <2>1. parts(<<>>) = <<>>
    OBVIOUS
  <2> QED  BY <2>1, FlattenSeqEmpty, EmptySeq
<1>2. ASSUME NEW t \in Seq(S), NEW e \in S, t \in T
      PROVE  Append(t, e) \in T
  <2> DEFINE n == Len(t)
  <2>1. /\ n \in Nat /\ DOMAIN t = 1 .. n
        /\ \A i \in 1 .. n : t[i] \in S
    BY LenProperties, ElementOfSeq
  <2>2. /\ Append(t, e) \in Seq(S) /\ Len(Append(t, e)) = n + 1
        /\ DOMAIN Append(t, e) = 1 .. (n + 1)
        /\ \A i \in 1 .. n : Append(t, e)[i] = t[i]
        /\ Append(t, e)[n + 1] = e
    BY AppendProperties, LenProperties
  <2>3. /\ parts(t) = [i \in 1 .. n |-> <<t[i]>>]
        /\ parts(t) \in Seq(Seq(S)) /\ Len(parts(t)) = n
    BY <2>1
  <2>4. /\ parts(Append(t, e)) = [i \in 1 .. (n + 1) |-> <<Append(t, e)[i]>>]
        /\ <<e>> \in Seq(S)
    BY <2>2
  <2> HIDE DEF n
  <2>5. /\ Append(parts(t), <<e>>) \in Seq(Seq(S))
        /\ Len(Append(parts(t), <<e>>)) = n + 1
        /\ \A i \in 1 .. n : Append(parts(t), <<e>>)[i] = parts(t)[i]
        /\ Append(parts(t), <<e>>)[n + 1] = <<e>>
    <3> HIDE DEF parts
    <3>1. parts(t) \in Seq(Seq(S)) /\ <<e>> \in Seq(S) /\ Len(parts(t)) = n
      BY <2>3, <2>4
    <3> DEFINE p == parts(t)
               x == <<e>>
    <3>2. p \in Seq(Seq(S)) /\ x \in Seq(S) /\ Len(p) = n
      BY <3>1
    <3> HIDE DEF p, x
    <3>3. /\ Append(p, x) \in Seq(Seq(S))
          /\ Len(Append(p, x)) = n + 1
          /\ \A i \in 1 .. n : Append(p, x)[i] = p[i]
          /\ Append(p, x)[n + 1] = x
      BY <3>2, AppendProperties
    <3> QED  BY <3>3 DEF p, x
  <2>6. parts(Append(t, e)) = Append(parts(t), <<e>>)
    <3>1. \A i \in 1 .. (n + 1) :
            <<Append(t, e)[i]>> = Append(parts(t), <<e>>)[i]
      BY <2>1, <2>2, <2>3, <2>5
    <3>2. DOMAIN Append(parts(t), <<e>>) = 1 .. (n + 1)
      BY <2>5, LenProperties
    <3>3. Append(parts(t), <<e>>)
            = [i \in 1 .. (n + 1) |-> Append(parts(t), <<e>>)[i]]
      <4> DEFINE more == Append(parts(t), <<e>>)
      <4>1. more \in [1 .. (n + 1) -> Seq(S)]
        BY <2>5, LenProperties
      <4> HIDE DEF more
      <4> QED  BY <4>1 DEF more
    <3> HIDE DEF parts
    <3> QED  BY <2>4, <3>1, <3>3
  <2>7. FlattenSeq(parts(Append(t, e))) = t \o <<e>>
    <3> HIDE DEF parts
    <3>1. FlattenSeq(Append(parts(t), <<e>>)) = FlattenSeq(parts(t)) \o <<e>>
      BY <2>3, <2>4, FlattenSeqAppend
    <3> QED  BY <1>2, <2>6, <3>1
  <2> QED  BY <2>2, <2>7, AppendIsConcat
<1> HIDE DEF T
<1>3. Seq(S) \subseteq T
  BY <1>1, <1>2, SeqSetInduction
<1> QED  BY <1>3 DEF T

\* A function applied to every element.
Mapped(f, s) == [i \in DOMAIN s |-> f[s[i]]]

\* It is applied to as many elements as there are.
LEMMA MapType ==
  ASSUME NEW S, NEW R, NEW f \in [S -> R], NEW s \in Seq(S)
  PROVE  Mapped(f, s) \in Seq(R)
<1> DEFINE p == Mapped(f, s)
<1>1. Len(s) \in Nat /\ DOMAIN s = 1 .. Len(s) /\ \A i \in 1 .. Len(s) : s[i] \in S
  BY LenProperties, ElementOfSeq
<1>2. p \in [1 .. Len(s) -> R]
  BY <1>1 DEF Mapped
<1> HIDE DEF p
<1>3. p \in Seq(R)
  BY <1>1, <1>2, SeqDef
<1> QED  BY <1>3 DEF p

\* One element more.
LEMMA MapAppend ==
  ASSUME NEW S, NEW R, NEW f \in [S -> R], NEW s \in Seq(S), NEW e \in S,
         NEW more, more = Append(s, e)
  PROVE  Mapped(f, more) = Append(Mapped(f, s), f[e])
<1> USE DEF Mapped
<1> DEFINE n == Len(s)
           p == Mapped(f, s)
           q == Mapped(f, more)
           r == Append(p, f[e])
<1>1. /\ n \in Nat /\ DOMAIN s = 1 .. n /\ DOMAIN more = 1 .. (n + 1)
      /\ \A i \in 1 .. n : more[i] = s[i] /\ s[i] \in S
      /\ more[n + 1] = e
  BY AppendProperties, LenProperties, ElementOfSeq
<1>2. p \in [1 .. n -> R] /\ \A i \in 1 .. n : p[i] = f[s[i]]
  BY <1>1
<1>3. q \in [1 .. (n + 1) -> R] /\ \A i \in 1 .. (n + 1) : q[i] = f[more[i]]
  <2>1. \A i \in 1 .. (n + 1) : more[i] \in S
    BY <1>1
  <2> QED  BY <1>1, <2>1
<1>4. f[e] \in R
  OBVIOUS
<1> HIDE DEF p, q
<1>5. p \in Seq(R) /\ Len(p) = n
  BY <1>1, <1>2, SeqDef, LenProperties
<1>6. q \in Seq(R) /\ Len(q) = n + 1
  <2>1. n + 1 \in Nat
    BY <1>1
  <2> QED  BY <1>3, <2>1, SeqDef, LenProperties
<1>7. /\ r \in Seq(R) /\ Len(r) = n + 1 /\ r[n + 1] = f[e]
      /\ \A i \in 1 .. n : r[i] = p[i]
  BY <1>4, <1>5, AppendProperties
<1> HIDE DEF r
<1>8. ASSUME NEW i \in 1 .. (n + 1)
      PROVE  q[i] = r[i]
  <2>1. CASE i = n + 1
    BY <1>1, <1>3, <1>7, <2>1
  <2>2. CASE i # n + 1
    <3>1. i \in 1 .. n
      BY <1>1, <2>2
    <3> QED  BY <1>1, <1>2, <1>3, <1>7, <3>1
  <2> QED  BY <2>1, <2>2
<1>9. q = r
  BY <1>6, <1>7, <1>8, SeqEqual
<1> QED  BY <1>5, <1>9 DEF p, q, r
-----------------------------------------------------------------------------
(* Sums over finite sets.                                                  *)

\* The sums of a function over all subsets of S, whatever is added first.
IsTotal(h, f, S) ==
  /\ h \in [SUBSET S -> Nat]
  /\ h[{}] = 0
  /\ \A s \in SUBSET S : \A x \in s : h[s] = f[x] + h[s \ {x}]

\* The sum over S.
Total(f, S) == (CHOOSE h : IsTotal(h, f, S))[S]

\* One element less is one less in number.
LEMMA CardinalityLess ==
  ASSUME NEW S, IsFiniteSet(S), NEW x \in S
  PROVE  /\ IsFiniteSet(S \ {x})
         /\ Cardinality(S) \in Nat \ {0}
         /\ Cardinality(S \ {x}) = Cardinality(S) - 1
  BY FS_RemoveElement, FS_CardinalityType, FS_EmptySet

\* Sums exist.
LEMMA TotalExists ==
  ASSUME NEW S, IsFiniteSet(S), NEW f, \A x \in S : f[x] \in Nat
  PROVE  \E h : IsTotal(h, f, S)
<1> DEFINE U == {n \in Nat : \A T \in SUBSET S : Cardinality(T) = n =>
                                \E h : IsTotal(h, f, T)}
<1>1. \A T \in SUBSET S : IsFiniteSet(T) /\ Cardinality(T) \in Nat
  BY FS_Subset, FS_CardinalityType
<1>2. 0 \in U
  <2> SUFFICES ASSUME NEW T \in SUBSET S, Cardinality(T) = 0
               PROVE  \E h : IsTotal(h, f, T)
    OBVIOUS
  <2>1. T = {}
    BY <1>1, FS_EmptySet
  <2>2. IsTotal([s \in SUBSET T |-> 0], f, T)
    BY <2>1 DEF IsTotal
  <2> QED  BY <2>2
<1>3. ASSUME NEW n \in Nat, n \in U
      PROVE  n + 1 \in U
  <2> SUFFICES ASSUME NEW T \in SUBSET S, Cardinality(T) = n + 1
               PROVE  \E h : IsTotal(h, f, T)
    OBVIOUS
  <2>1. T # {}
    BY <1>1, FS_EmptySet
  <2>2. PICK x \in T : TRUE
    BY <2>1
  <2> DEFINE R == T \ {x}
  <2>3. R \in SUBSET S /\ Cardinality(R) = n
    <3>1. Cardinality(R) = Cardinality(T) - 1
      BY <1>1, CardinalityLess
    <3> QED  BY <3>1
  <2>4. PICK k : IsTotal(k, f, R)
    BY <1>3, <2>3
  <2>5. /\ k \in [SUBSET R -> Nat] /\ k[{}] = 0
        /\ \A s \in SUBSET R : k[s] \in Nat
        /\ \A s \in SUBSET R : \A y \in s : k[s] = f[y] + k[s \ {y}]
    BY <2>4 DEF IsTotal
  <2> DEFINE h == [s \in SUBSET T |-> IF x \in s THEN f[x] + k[s \ {x}] ELSE k[s]]
  <2>6. \A s \in SUBSET T : s \ {x} \in SUBSET R
    OBVIOUS
  <2>7. \A s \in SUBSET T : x \notin s => s \in SUBSET R
    OBVIOUS
  <2>8. f[x] \in Nat /\ \A y \in T : f[y] \in Nat
    OBVIOUS
  <2> HIDE DEF R
  <2>9. h \in [SUBSET T -> Nat]
    BY <2>5, <2>6, <2>7, <2>8
  <2>10. h[{}] = 0
    BY <2>5
  <2>11. ASSUME NEW s \in SUBSET T, NEW y \in s
         PROVE  h[s] = f[y] + h[s \ {y}]
    <3>1. s \ {y} \in SUBSET T
      OBVIOUS
    <3>2. CASE x \notin s
      <4>1. s \in SUBSET R /\ x \notin s \ {y}
        BY <2>7, <3>2
      <4>2. k[s] = f[y] + k[s \ {y}]
        BY <2>5, <4>1
      <4>3. h[s] = k[s] /\ h[s \ {y}] = k[s \ {y}]
        BY <3>1, <3>2, <4>1
      <4> QED  BY <4>2, <4>3
    <3>3. CASE x = y
      <4>1. h[s] = f[x] + k[s \ {x}]
        BY <3>3
      <4>2. h[s \ {x}] = k[s \ {x}]
        BY <3>1, <3>3
      <4> QED  BY <3>3, <4>1, <4>2
    <3>4. CASE x \in s /\ x # y
      <4> DEFINE t == s \ {x}
      <4>1. t \in SUBSET R /\ y \in t /\ t \ {y} \in SUBSET R
        BY <2>6, <3>4
      <4>2. (s \ {y}) \ {x} = t \ {y}
        OBVIOUS
      <4>3. x \in s \ {y}
        BY <3>4
      <4> HIDE DEF t
      <4>4. k[t] = f[y] + k[t \ {y}]
        BY <2>5, <4>1
      <4>5. h[s] = f[x] + k[t]
        BY <3>4 DEF t
      <4>6. h[s \ {y}] = f[x] + k[t \ {y}]
        BY <3>1, <4>2, <4>3
      <4>7. k[t \ {y}] \in Nat /\ f[y] \in Nat
        BY <2>5, <2>8, <4>1
      <4> QED  BY ONLY <2>8, <4>4, <4>5, <4>6, <4>7
    <3> QED  BY <3>2, <3>3, <3>4
  <2>12. IsTotal(h, f, T)
    BY <2>9, <2>10, <2>11 DEF IsTotal
  <2> QED  BY <2>12
<1> HIDE DEF U
<1>4. Nat \subseteq U
  BY <1>2, <1>3, SetInduction
<1>5. Cardinality(S) \in U
  BY <1>1, <1>4
<1> QED  BY <1>5 DEF U

\* Sums of functions that agree on a set are equal on it.
LEMMA TotalsAgree ==
  ASSUME NEW S, NEW f, NEW h, IsTotal(h, f, S),
         NEW T, NEW g, NEW k, IsTotal(k, g, T),
         NEW r, IsFiniteSet(r), r \subseteq S, r \subseteq T,
         \A x \in r : f[x] = g[x]
  PROVE  h[r] = k[r]
<1> DEFINE U == {n \in Nat : \A s \in SUBSET r : Cardinality(s) = n => h[s] = k[s]}
<1>1. \A s \in SUBSET r : IsFiniteSet(s) /\ Cardinality(s) \in Nat
  BY FS_Subset, FS_CardinalityType
<1>2. 0 \in U
  <2>1. \A s \in SUBSET r : Cardinality(s) = 0 => s = {}
    BY <1>1, FS_EmptySet
  <2>2. h[{}] = k[{}]
    BY DEF IsTotal
  <2> QED  BY <2>1, <2>2
<1>3. ASSUME NEW n \in Nat, n \in U
      PROVE  n + 1 \in U
  <2> SUFFICES ASSUME NEW s \in SUBSET r, Cardinality(s) = n + 1
               PROVE  h[s] = k[s]
    OBVIOUS
  <2>1. s # {}
    BY <1>1, FS_EmptySet
  <2>2. PICK x \in s : TRUE
    BY <2>1
  <2>3. s \ {x} \in SUBSET r /\ Cardinality(s \ {x}) = n
    <3>1. Cardinality(s \ {x}) = Cardinality(s) - 1
      BY <1>1, CardinalityLess
    <3> QED  BY <3>1
  <2>4. h[s \ {x}] = k[s \ {x}]
    BY <1>3, <2>3
  <2>5. h[s] = f[x] + h[s \ {x}]
    <3>1. s \in SUBSET S
      OBVIOUS
    <3> QED  BY <3>1 DEF IsTotal
  <2>6. k[s] = g[x] + k[s \ {x}]
    <3>1. s \in SUBSET T
      OBVIOUS
    <3> QED  BY <3>1 DEF IsTotal
  <2>7. f[x] = g[x]
    OBVIOUS
  <2> QED  BY <2>4, <2>5, <2>6, <2>7
<1> HIDE DEF U
<1>4. Nat \subseteq U
  BY <1>2, <1>3, SetInduction
<1>5. Cardinality(r) \in U
  BY <1>1, <1>4
<1> QED  BY <1>5 DEF U

\* What is chosen is a sum.
LEMMA TotalChosen ==
  ASSUME NEW S, IsFiniteSet(S), NEW f, \A x \in S : f[x] \in Nat
  PROVE  \E h : IsTotal(h, f, S) /\ Total(f, S) = h[S]
<1> DEFINE h == CHOOSE h : IsTotal(h, f, S)
<1>1. IsTotal(h, f, S)
  BY TotalExists
<1> QED  BY <1>1 DEF Total

\* What a sum is made of.
LEMMA TotalProperties ==
  ASSUME NEW S, IsFiniteSet(S), NEW f, \A x \in S : f[x] \in Nat
  PROVE  /\ Total(f, S) \in Nat
         /\ S = {} => Total(f, S) = 0
         /\ \A x \in S : Total(f, S) = f[x] + Total(f, S \ {x})
<1>1. PICK h : IsTotal(h, f, S) /\ Total(f, S) = h[S]
  BY TotalChosen
<1>2. S \in SUBSET S
  OBVIOUS
<1>3. Total(f, S) \in Nat /\ (S = {} => Total(f, S) = 0)
  BY <1>1, <1>2 DEF IsTotal
<1>4. ASSUME NEW x \in S
      PROVE  Total(f, S) = f[x] + Total(f, S \ {x})
  <2> DEFINE R == S \ {x}
  <2>1. IsFiniteSet(R) /\ \A y \in R : f[y] \in Nat
    BY FS_Subset
  <2>2. PICK k : IsTotal(k, f, R) /\ Total(f, R) = k[R]
    BY <2>1, TotalChosen
  <2>3. R \subseteq S /\ R \subseteq R
    OBVIOUS
  <2>4. h[S] = f[x] + h[R]
    BY <1>1, <1>2 DEF IsTotal
  <2> HIDE DEF R
  <2>5. h[R] = k[R]
    BY <1>1, <2>1, <2>2, <2>3, TotalsAgree
  <2>6. Total(f, S) = f[x] + Total(f, R)
    BY <1>1, <2>2, <2>4, <2>5
  <2> QED  BY <2>6 DEF R
<1> QED  BY <1>3, <1>4

\* Functions that agree on a set have the same sum.
LEMMA TotalEqual ==
  ASSUME NEW S, IsFiniteSet(S), NEW f, NEW g,
         \A x \in S : f[x] \in Nat /\ f[x] = g[x]
  PROVE  Total(f, S) = Total(g, S)
<1>1. PICK h : IsTotal(h, f, S) /\ Total(f, S) = h[S]
  BY TotalChosen
<1>2. PICK k : IsTotal(k, g, S) /\ Total(g, S) = k[S]
  BY TotalChosen
<1>3. h[S] = k[S]
  BY <1>1, <1>2, TotalsAgree
<1> QED  BY <1>1, <1>2, <1>3

\* Elements whose value is zero do not matter.
LEMMA TotalOfNonzero ==
  ASSUME NEW S, IsFiniteSet(S), NEW f, \A x \in S : f[x] \in Nat,
         NEW P, \A x \in S : x \notin P => f[x] = 0
  PROVE  Total(f, S) = Total(f, S \cap P)
<1> DEFINE U == {n \in Nat : \A s \in SUBSET S : Cardinality(s) = n =>
                                Total(f, s) = Total(f, s \cap P)}
<1>1. \A s \in SUBSET S : /\ IsFiniteSet(s) /\ Cardinality(s) \in Nat
                          /\ \A x \in s : f[x] \in Nat
  BY FS_Subset, FS_CardinalityType
<1>2. 0 \in U
  <2>1. \A s \in SUBSET S : Cardinality(s) = 0 => s = {}
    BY <1>1, FS_EmptySet
  <2>2. {} \cap P = {}
    OBVIOUS
  <2> QED  BY <2>1, <2>2
<1>3. ASSUME NEW n \in Nat, n \in U
      PROVE  n + 1 \in U
  <2> SUFFICES ASSUME NEW s \in SUBSET S, Cardinality(s) = n + 1
               PROVE  Total(f, s) = Total(f, s \cap P)
    OBVIOUS
  <2>1. s # {}
    BY <1>1, FS_EmptySet
  <2>2. PICK x \in s : TRUE
    BY <2>1
  <2> DEFINE r == s \ {x}
  <2>3. r \in SUBSET S /\ Cardinality(r) = n
    <3>1. Cardinality(r) = Cardinality(s) - 1
      BY <1>1, CardinalityLess
    <3> QED  BY <3>1
  <2>4. Total(f, r) = Total(f, r \cap P)
    BY <1>3, <2>3
  <2>5. Total(f, s) = f[x] + Total(f, r)
    BY <1>1, TotalProperties
  <2>6. Total(f, r) \in Nat
    BY <1>1, <2>3, TotalProperties
  <2>7. CASE x \in P
    <3>1. s \cap P \in SUBSET S /\ x \in s \cap P
      BY <2>7
    <3>2. Total(f, s \cap P) = f[x] + Total(f, (s \cap P) \ {x})
      BY <1>1, <3>1, TotalProperties
    <3>3. (s \cap P) \ {x} = r \cap P
      OBVIOUS
    <3> QED  BY <2>4, <2>5, <3>2, <3>3
  <2>8. CASE x \notin P
    <3>1. s \cap P = r \cap P
      BY <2>8
    <3>2. f[x] = 0
      BY <2>8
    <3>3. Total(f, s) = Total(f, r)
      BY ONLY <2>5, <2>6, <3>2
    <3> QED  BY <2>4, <3>1, <3>3
  <2> QED  BY <2>7, <2>8
<1> HIDE DEF U
<1>4. Nat \subseteq U
  BY <1>2, <1>3, SetInduction
<1>5. Cardinality(S) \in U
  BY <1>1, <1>4
<1> QED  BY <1>5 DEF U

\* Renaming the elements does not change the sum.
LEMMA TotalRenamed ==
  ASSUME NEW S, IsFiniteSet(S), NEW f, NEW g, NEW b,
         \A x \in S : g[b[x]] \in Nat /\ f[x] = g[b[x]],
         \A x, y \in S : b[x] = b[y] => x = y
  PROVE  Total(f, S) = Total(g, {b[x] : x \in S})
<1> DEFINE image(s) == {b[x] : x \in s}
           U == {n \in Nat : \A s \in SUBSET S : Cardinality(s) = n =>
                                Total(f, s) = Total(g, image(s))}
<1>1. \A s \in SUBSET S : /\ IsFiniteSet(s) /\ Cardinality(s) \in Nat
                          /\ \A x \in s : f[x] \in Nat
  BY FS_Subset, FS_CardinalityType
<1>2. \A s \in SUBSET S : /\ IsFiniteSet(image(s))
                          /\ \A y \in image(s) : g[y] \in Nat
  <2> SUFFICES ASSUME NEW s \in SUBSET S
               PROVE  /\ IsFiniteSet(image(s))
                      /\ \A y \in image(s) : g[y] \in Nat
    OBVIOUS
  <2> DEFINE m == [x \in s |-> b[x]]
  <2>1. m \in Surjection(s, image(s))
    BY DEF Surjection
  <2>2. IsFiniteSet(image(s))
    BY <1>1, <2>1, FS_Surjection
  <2> QED  BY <2>2
<1>3. 0 \in U
  <2>1. \A s \in SUBSET S : Cardinality(s) = 0 => s = {}
    BY <1>1, FS_EmptySet
  <2>2. image({}) = {}
    OBVIOUS
  <2>3. Total(f, {}) = 0 /\ Total(g, {}) = 0
    BY FS_EmptySet, TotalProperties
  <2> HIDE DEF image
  <2> QED  BY <2>1, <2>2, <2>3
<1>4. ASSUME NEW n \in Nat, n \in U
      PROVE  n + 1 \in U
  <2> SUFFICES ASSUME NEW s \in SUBSET S, Cardinality(s) = n + 1
               PROVE  Total(f, s) = Total(g, image(s))
    OBVIOUS
  <2>1. s # {}
    BY <1>1, FS_EmptySet
  <2>2. PICK x \in s : TRUE
    BY <2>1
  <2> DEFINE r == s \ {x}
  <2>3. r \in SUBSET S /\ Cardinality(r) = n
    <3>1. Cardinality(r) = Cardinality(s) - 1
      BY <1>1, CardinalityLess
    <3> QED  BY <3>1
  <2>4. Total(f, r) = Total(g, image(r))
    BY <1>4, <2>3
  <2>5. Total(f, s) = f[x] + Total(f, r)
    BY <1>1, TotalProperties
  <2>6. image(s) \ {b[x]} = image(r) /\ b[x] \in image(s)
    OBVIOUS
  <2> HIDE DEF image
  <2>7. Total(g, image(s)) = g[b[x]] + Total(g, image(s) \ {b[x]})
    BY <1>2, <2>6, TotalProperties
  <2> QED  BY <2>4, <2>5, <2>6, <2>7
<1> HIDE DEF U
<1>5. Nat \subseteq U
  BY <1>3, <1>4, SetInduction
<1>6. Cardinality(S) \in U
  BY <1>1, <1>5
<1> QED  BY <1>6 DEF U

\* One element grows, or comes in.
LEMMA TotalGrows ==
  ASSUME NEW S, IsFiniteSet(S), NEW f, \A y \in S : f[y] \in Nat,
         NEW x, NEW g, NEW d \in Nat,
         \A y \in S \ {x} : g[y] = f[y],
         g[x] = (IF x \in S THEN f[x] ELSE 0) + d
  PROVE  Total(g, S \union {x}) = Total(f, S) + d
<1> DEFINE R == S \ {x}
           T == S \union {x}
<1>1. IsFiniteSet(R) /\ IsFiniteSet(T)
  BY FS_Subset, FS_AddElement
<1>2. g[x] \in Nat /\ \A y \in T : g[y] \in Nat
  <2>1. g[x] \in Nat
    OBVIOUS
  <2> QED  BY <2>1
<1>3. T \ {x} = R
  OBVIOUS
<1>4. Total(g, T) = g[x] + Total(g, R)
  <2>1. x \in T
    OBVIOUS
  <2> HIDE DEF T, R
  <2> QED  BY <1>1, <1>2, <1>3, <2>1, TotalProperties
<1>5. \A y \in R : f[y] \in Nat /\ f[y] = g[y]
  OBVIOUS
<1>6. Total(g, R) = Total(f, R) /\ Total(f, R) \in Nat
  <2> HIDE DEF R
  <2> QED  BY <1>1, <1>5, TotalEqual, TotalProperties
<1>7. CASE x \in S
  <2>1. Total(f, S) = f[x] + Total(f, R)
    BY <1>7, TotalProperties
  <2>2. f[x] \in Nat /\ g[x] = f[x] + d
    BY <1>7
  <2> HIDE DEF T, R
  <2> QED  BY <1>4, <1>6, <2>1, <2>2 DEF T
<1>8. CASE x \notin S
  <2>1. R = S /\ g[x] = d
    BY <1>8
  <2> HIDE DEF T, R
  <2> QED  BY <1>4, <1>6, <2>1 DEF T
<1> QED  BY <1>7, <1>8

\* The function that MapThenSumSet recurs with.
SumsUp(k, f, S) ==
  k = [s \in SUBSET S |->
         IF s = {} THEN 0
         ELSE f[CHOOSE x \in s : TRUE] + k[s \ {CHOOSE x \in s : TRUE}]]

\* Sums recur so.
LEMMA TotalSumsUp ==
  ASSUME NEW S, NEW f, NEW h, IsTotal(h, f, S)
  PROVE  SumsUp(h, f, S)
<1> DEFINE body(s) == IF s = {} THEN 0
                      ELSE f[CHOOSE x \in s : TRUE] + h[s \ {CHOOSE x \in s : TRUE}]
<1>1. \A s \in SUBSET S : h[s] = body(s)
  <2> SUFFICES ASSUME NEW s \in SUBSET S PROVE h[s] = body(s)
    OBVIOUS
  <2>1. CASE s = {}
    BY <2>1 DEF IsTotal
  <2>2. CASE s # {}
    <3>1. PICK x : x = CHOOSE y \in s : TRUE
      OBVIOUS
    <3>2. x \in s
      BY <2>2, <3>1
    <3>3. h[s] = f[x] + h[s \ {x}]
      BY <3>2 DEF IsTotal
    <3>4. body(s) = f[x] + h[s \ {x}]
      BY <2>2, <3>1
    <3> QED  BY <3>3, <3>4
  <2> QED  BY <2>1, <2>2
<1>2. h = [s \in SUBSET S |-> h[s]]
  BY DEF IsTotal
<1>3. h = [s \in SUBSET S |-> body(s)]
  BY <1>1, <1>2
<1> QED  BY <1>3 DEF SumsUp

\* What recurs so is a sum.
LEMMA SumsUpTotal ==
  ASSUME NEW S, IsFiniteSet(S), NEW f, NEW h, IsTotal(h, f, S),
         NEW k, SumsUp(k, f, S)
  PROVE  k[S] = h[S]
<1> DEFINE U == {n \in Nat : \A s \in SUBSET S : Cardinality(s) = n => k[s] = h[s]}
<1>1. \A s \in SUBSET S : IsFiniteSet(s) /\ Cardinality(s) \in Nat
  BY FS_Subset, FS_CardinalityType
<1>2. 0 \in U
  <2>1. \A s \in SUBSET S : Cardinality(s) = 0 => s = {}
    BY <1>1, FS_EmptySet
  <2>2. k[{}] = 0 /\ h[{}] = 0
    BY DEF SumsUp, IsTotal
  <2> QED  BY <2>1, <2>2
<1>3. ASSUME NEW n \in Nat, n \in U
      PROVE  n + 1 \in U
  <2> SUFFICES ASSUME NEW s \in SUBSET S, Cardinality(s) = n + 1
               PROVE  k[s] = h[s]
    OBVIOUS
  <2>1. s # {}
    BY <1>1, FS_EmptySet
  <2>2. PICK x : x = CHOOSE y \in s : TRUE
    OBVIOUS
  <2>3. x \in s
    BY <2>1, <2>2
  <2>4. s \ {x} \in SUBSET S /\ Cardinality(s \ {x}) = n
    <3>1. Cardinality(s \ {x}) = Cardinality(s) - 1
      BY <1>1, <2>3, CardinalityLess
    <3> QED  BY <3>1
  <2>5. k[s \ {x}] = h[s \ {x}]
    BY <1>3, <2>4
  <2>6. k[s] = f[x] + k[s \ {x}]
    BY <2>1, <2>2 DEF SumsUp
  <2>7. h[s] = f[x] + h[s \ {x}]
    BY <2>3 DEF IsTotal
  <2> QED  BY <2>5, <2>6, <2>7
<1> HIDE DEF U
<1>4. Nat \subseteq U
  BY <1>2, <1>3, SetInduction
<1>5. Cardinality(S) \in U
  BY <1>1, <1>4
<1> QED  BY <1>5 DEF U

\* What MapThenSumSet chooses gives the sum.
LEMMA SumChosen ==
  ASSUME NEW S, IsFiniteSet(S), NEW f, \A x \in S : f[x] \in Nat
  PROVE  /\ \E k : SumsUp(k, f, S)
         /\ \A k : SumsUp(k, f, S) => k[S] = Total(f, S)
<1>1. PICK h : IsTotal(h, f, S) /\ Total(f, S) = h[S]
  BY TotalChosen
<1>2. SumsUp(h, f, S)
  BY <1>1, TotalSumsUp
<1>3. \A k : SumsUp(k, f, S) => k[S] = h[S]
  BY <1>1, SumsUpTotal
<1> QED  BY <1>1, <1>2, <1>3
\* Induction over the subsets of a finite set.
LEMMA SubsetInduction ==
  ASSUME NEW S, IsFiniteSet(S), NEW T, {} \in T,
         \A s \in SUBSET S : \A x \in S : x \notin s /\ s \in T => s \union {x} \in T
  PROVE  S \in T
<1> DEFINE U == {n \in Nat : \A s \in SUBSET S : Cardinality(s) = n => s \in T}
<1>1. \A s \in SUBSET S : IsFiniteSet(s) /\ Cardinality(s) \in Nat
  BY FS_Subset, FS_CardinalityType
<1>2. 0 \in U
  BY <1>1, FS_EmptySet
<1>3. ASSUME NEW n \in Nat, n \in U
      PROVE  n + 1 \in U
  <2> SUFFICES ASSUME NEW s \in SUBSET S, Cardinality(s) = n + 1
               PROVE  s \in T
    OBVIOUS
  <2>1. s # {}
    BY <1>1, FS_EmptySet
  <2>2. PICK x \in s : TRUE
    BY <2>1
  <2>3. Cardinality(s \ {x}) = n
    <3>1. Cardinality(s \ {x}) = Cardinality(s) - 1
      BY <1>1, CardinalityLess
    <3> QED  BY <3>1
  <2>4. s \ {x} \in T /\ (s \ {x}) \union {x} = s /\ x \in S
    BY <1>3, <2>3
  <2> QED  BY <2>4
<1> HIDE DEF U
<1>4. Cardinality(S) \in U
  BY <1>1, <1>2, <1>3, SetInduction
<1> QED  BY <1>4 DEF U

\* A finite set of numbered things has one with the largest number.
LEMMA LargestExists ==
  ASSUME NEW S, IsFiniteSet(S), S # {}, NEW f, \A x \in S : f[x] \in Nat
  PROVE  \E a \in S : \A x \in S : f[x] <= f[a]
<1> DEFINE T == {s \in SUBSET S : s # {} => \E a \in s : \A x \in s : f[x] <= f[a]}
<1>1. ASSUME NEW s \in SUBSET S, NEW y \in S, s \in T
      PROVE  s \union {y} \in T
  <2>1. CASE s = {}
    BY <2>1
  <2>2. CASE s # {}
    <3>1. PICK a \in s : \A x \in s : f[x] <= f[a]
      BY <1>1, <2>2
    <3>2. CASE f[y] <= f[a]
      BY <3>1, <3>2
    <3>3. CASE f[a] <= f[y]
      <4>1. \A x \in s \union {y} : f[x] <= f[y]
        BY <3>1, <3>3
      <4> QED  BY <4>1
    <3> QED  BY <3>1, <3>2, <3>3
  <2> QED  BY <2>1, <2>2
<1>2. {} \in T
  OBVIOUS
<1> HIDE DEF T
<1>3. S \in T
  BY <1>1, <1>2, SubsetInduction
<1> QED  BY <1>3 DEF T

\* A common factor.
LEMMA TotalScaled ==
  ASSUME NEW S, IsFiniteSet(S), NEW k \in Nat, NEW f, NEW g,
         \A x \in S : g[x] \in Nat /\ f[x] = k * g[x]
  PROVE  Total(f, S) = k * Total(g, S)
<1> DEFINE T == {s \in SUBSET S : Total(f, s) = k * Total(g, s)}
<1>1. \A s \in SUBSET S : /\ IsFiniteSet(s)
                          /\ \A x \in s : f[x] \in Nat /\ g[x] \in Nat
                                            /\ f[x] = k * g[x]
  BY FS_Subset
<1>2. {} \in T
  <2>1. {} \in SUBSET S
    OBVIOUS
  <2>2. Total(f, {}) = 0 /\ Total(g, {}) = 0
    BY <1>1, <2>1, TotalProperties
  <2> QED  BY <2>1, <2>2
<1>3. ASSUME NEW s \in SUBSET S, NEW y \in S, y \notin s, s \in T
      PROVE  s \union {y} \in T
  <2> DEFINE r == s \union {y}
  <2>1. r \in SUBSET S /\ y \in r /\ r \ {y} = s
    BY <1>3
  <2>2. /\ Total(f, r) = f[y] + Total(f, s)
        /\ Total(g, r) = g[y] + Total(g, s)
        /\ Total(g, s) \in Nat
    <3> HIDE DEF r
    <3> QED  BY <1>1, <2>1, TotalProperties
  <2>3. Total(f, s) = k * Total(g, s) /\ f[y] = k * g[y] /\ g[y] \in Nat
    BY <1>3
  <2>4. \A a, b \in Nat : k * a + k * b = k * (a + b)
    OBVIOUS
  <2> QED  BY <2>1, <2>2, <2>3, <2>4
<1> HIDE DEF T
<1>4. S \in T
  BY <1>2, <1>3, SubsetInduction
<1> QED  BY <1>4 DEF T

\* Two elements taken out.
LEMMA TotalTwo ==
  ASSUME NEW S, IsFiniteSet(S), NEW f, \A x \in S : f[x] \in Nat,
         NEW p \in S, NEW q \in S, p # q
  PROVE  /\ Total(f, S) = f[p] + f[q] + Total(f, S \ {p, q})
         /\ Total(f, S \ {p, q}) \in Nat
<1> DEFINE r == S \ {p}
<1>1. IsFiniteSet(r) /\ q \in r /\ r \ {q} = S \ {p, q} /\ \A x \in r : f[x] \in Nat
  BY FS_Subset
<1>2. Total(f, S) = f[p] + Total(f, r)
  BY TotalProperties
<1>3. IsFiniteSet(S \ {p, q})
  BY FS_Subset
<1>4. Total(f, S \ {p, q}) \in Nat
  BY <1>3, TotalProperties
<1> HIDE DEF r
<1>5. Total(f, r) = f[q] + Total(f, S \ {p, q})
  BY <1>1, TotalProperties
<1>6. f[p] \in Nat /\ f[q] \in Nat
  OBVIOUS
<1> QED  BY ONLY <1>2, <1>4, <1>5, <1>6

\* One value larger by at most d makes the sum larger by at most d.
LEMMA TotalChanged ==
  ASSUME NEW S, IsFiniteSet(S), NEW x \in S, NEW f, NEW g,
         \A y \in S : f[y] \in Nat /\ g[y] \in Nat,
         \A y \in S \ {x} : g[y] = f[y],
         NEW d \in Nat, g[x] <= f[x] + d
  PROVE  Total(g, S) <= Total(f, S) + d
<1> DEFINE r == S \ {x}
<1>1. IsFiniteSet(r) /\ \A y \in r : f[y] \in Nat /\ f[y] = g[y]
  BY FS_Subset
<1>2. Total(f, S) = f[x] + Total(f, r) /\ Total(g, S) = g[x] + Total(g, r)
  BY TotalProperties
<1> HIDE DEF r
<1>3. Total(f, r) = Total(g, r) /\ Total(f, r) \in Nat
  BY <1>1, TotalEqual, TotalProperties
<1>4. f[x] \in Nat /\ g[x] \in Nat
  OBVIOUS
<1> QED  BY ONLY <1>2, <1>3, <1>4, d \in Nat, g[x] <= f[x] + d

\* A sum of nothing but zeros.
LEMMA TotalZero ==
  ASSUME NEW S, IsFiniteSet(S), NEW f, \A x \in S : f[x] = 0
  PROVE  Total(f, S) = 0
<1>1. \A x \in S : f[x] \in Nat /\ f[x] = 0 * f[x]
  OBVIOUS
<1>2. Total(f, S) = 0 * Total(f, S) /\ Total(f, S) \in Nat
  <2>1. 0 \in Nat
    OBVIOUS
  <2> QED  BY <1>1, <2>1, TotalScaled, TotalProperties
<1> QED  BY <1>2

\* A sum over a set is the sum over a part and the sum over the rest.
LEMMA TotalSplit ==
  ASSUME NEW S, IsFiniteSet(S), NEW f, \A x \in S : f[x] \in Nat,
         NEW R, R \subseteq S
  PROVE  /\ Total(f, S) = Total(f, R) + Total(f, S \ R)
         /\ Total(f, R) \in Nat /\ Total(f, S \ R) \in Nat
<1> DEFINE T == {s \in SUBSET S : Total(f, S) = Total(f, s) + Total(f, S \ s)}
<1>1. \A s \in SUBSET S : /\ IsFiniteSet(s) /\ (\A x \in s : f[x] \in Nat)
                          /\ Total(f, s) \in Nat
  <2> SUFFICES ASSUME NEW s \in SUBSET S
               PROVE  IsFiniteSet(s) /\ (\A x \in s : f[x] \in Nat) /\ Total(f, s) \in Nat
    OBVIOUS
  <2>1. IsFiniteSet(s) /\ \A x \in s : f[x] \in Nat
    BY FS_Subset
  <2> QED  BY <2>1, TotalProperties
<1>2. {} \in T
  <2>1. Total(f, {}) = 0
    BY FS_EmptySet, TotalZero
  <2>2. S \ {} = S /\ Total(f, S) \in Nat /\ {} \in SUBSET S
    BY <1>1
  <2>3. Total(f, S) = Total(f, {}) + Total(f, S \ {})
    BY ONLY <2>1, <2>2
  <2> QED  BY <2>2, <2>3
<1>3. ASSUME NEW s \in SUBSET R, NEW x \in R, x \notin s, s \in T
      PROVE  s \union {x} \in T
  <2> DEFINE u == s \union {x}
             r == S \ s
  <2>1. /\ u \in SUBSET S /\ r \in SUBSET S /\ x \in u /\ x \in r
        /\ u \ {x} = s /\ r \ {x} = S \ u /\ s \in SUBSET S
    BY <1>3
  <2> HIDE DEF u, r
  <2>2. /\ Total(f, u) = f[x] + Total(f, s)
        /\ Total(f, r) = f[x] + Total(f, S \ u)
    <3>1. /\ Total(f, u) = f[x] + Total(f, u \ {x})
          /\ Total(f, r) = f[x] + Total(f, r \ {x})
      BY <1>1, <2>1, TotalProperties
    <3> QED  BY <2>1, <3>1
  <2>3. Total(f, S) = Total(f, s) + Total(f, r)
    BY <1>3 DEF r
  <2>4. /\ f[x] \in Nat /\ Total(f, s) \in Nat /\ Total(f, S \ u) \in Nat
    <3>1. S \ u \in SUBSET S /\ x \in S
      BY <2>1
    <3> QED  BY <1>1, <2>1, <3>1
  <2>5. Total(f, S) = Total(f, u) + Total(f, S \ u)
    BY ONLY <2>2, <2>3, <2>4
  <2> QED  BY <2>1, <2>5 DEF u
<1>4. IsFiniteSet(R)
  BY FS_Subset
<1> HIDE DEF T
<1>5. R \in T
  BY <1>2, <1>3, <1>4, SubsetInduction
<1>6. S \ R \in SUBSET S
  OBVIOUS
<1> QED  BY <1>1, <1>5, <1>6 DEF T

\* The sum of the library is the sum.
LEMMA SumFunctionTotal ==
  ASSUME NEW f, IsFiniteSet(DOMAIN f), \A x \in DOMAIN f : f[x] \in Nat
  PROVE  SumFunction(f) = Total(f, DOMAIN f)
<1> DEFINE S == DOMAIN f
           iter == CHOOSE k : SumsUp(k, f, S)
<1>1. SumFunction(f) = iter[S]
  BY Zenon DEF SumFunction, SumFunctionOnSet, FoldFunctionOnSet, MapThenFoldSet, SumsUp
<1>2. /\ \E k : SumsUp(k, f, S)
      /\ \A k : SumsUp(k, f, S) => k[S] = Total(f, S)
  BY SumChosen
<1>3. SumsUp(iter, f, S)
  BY <1>2
<1> QED  BY <1>1, <1>2, <1>3

-----------------------------------------------------------------------------
(* Powers of two.                                                          *)

\* Pow2 is what its name says.
LEMMA Pow2Properties ==
  /\ Pow2[0] = 1
  /\ \A n \in Nat : Pow2[n] \in Nat \ {0} /\ Pow2[n + 1] = 2 * Pow2[n]
<1> DEFINE Rec(f) == f = [n \in Nat |-> IF n = 0 THEN 1 ELSE 2 * f[n - 1]]
           step == [p \in Nat \X Nat |-> 2 * p[2]]
<1>1. step \in [Nat \X Nat -> Nat] /\ \A n, v \in Nat : step[<<n, v>>] = 2 * v
  OBVIOUS
<1>2. 1 \in Nat
  OBVIOUS
<1> HIDE DEF step
<1>3. PICK f \in [Nat -> Nat] : IsRecursive(f, 1, step)
  <2>1. step \in [Nat \X Nat -> Nat]
    BY <1>1
  <2> QED  BY ONLY <1>2, <2>1, RecursiveFunction
<1>4. Rec(f)
  <2>1. ASSUME NEW n \in Nat
        PROVE  f[n] = IF n = 0 THEN 1 ELSE 2 * f[n - 1]
    <3>1. CASE n # 0
      <4>1. n - 1 \in Nat /\ (n - 1) + 1 = n
        BY <3>1
      <4>2. f[(n - 1) + 1] = step[<<n - 1, f[n - 1]>>] /\ f[n - 1] \in Nat
        BY <1>3, <4>1 DEF IsRecursive
      <4> QED  BY <1>1, <3>1, <4>1, <4>2
    <3> QED  BY <1>3, <3>1 DEF IsRecursive
  <2>2. f = [n \in Nat |-> f[n]]
    OBVIOUS
  <2> QED  BY <2>1, <2>2
<1>5. Rec(Pow2)
  <2>1. Pow2 = CHOOSE g : Rec(g)
    BY DEF Pow2
  <2> HIDE DEF Rec
  <2> QED  BY <1>4, <2>1
<1>6. Pow2[0] = 1 /\ \A n \in Nat : Pow2[n + 1] = 2 * Pow2[n]
  <2>1. \A n \in Nat : Pow2[n] = IF n = 0 THEN 1 ELSE 2 * Pow2[n - 1]
    BY <1>5
  <2> HIDE DEF Rec
  <2>2. ASSUME NEW n \in Nat PROVE Pow2[n + 1] = 2 * Pow2[n]
    <3>1. n + 1 \in Nat /\ n + 1 # 0 /\ (n + 1) - 1 = n
      OBVIOUS
    <3> QED  BY <2>1, <3>1
  <2> QED  BY <2>1, <2>2
<1> DEFINE T == {n \in Nat : Pow2[n] \in Nat \ {0}}
<1>7. 0 \in T /\ \A n \in Nat : n \in T => n + 1 \in T
  BY <1>6
<1> HIDE DEF T
<1>8. Nat \subseteq T
  BY <1>7, SetInduction
<1> QED  BY <1>6, <1>8 DEF T

\* Powers of sums.
LEMMA Pow2Sum ==
  ASSUME NEW a \in Nat, NEW b \in Nat
  PROVE  Pow2[a + b] = Pow2[a] * Pow2[b]
<1> DEFINE T == {n \in Nat : Pow2[a + n] = Pow2[a] * Pow2[n]}
<1>1. 0 \in T
  BY Pow2Properties
<1>2. ASSUME NEW n \in Nat, n \in T PROVE n + 1 \in T
  <2> DEFINE x == Pow2[a]
             y == Pow2[n]
  <2>1. /\ a + n \in Nat /\ a + (n + 1) = (a + n) + 1
        /\ x \in Nat /\ y \in Nat
        /\ Pow2[(a + n) + 1] = 2 * Pow2[a + n]
        /\ Pow2[n + 1] = 2 * y
    BY Pow2Properties
  <2>2. Pow2[a + n] = x * y
    BY <1>2
  <2> HIDE DEF x, y
  <2>3. 2 * (x * y) = x * (2 * y)
    BY <2>1
  <2>4. Pow2[a + (n + 1)] = x * Pow2[n + 1]
    BY <2>1, <2>2, <2>3
  <2> QED  BY <2>4 DEF x
<1> HIDE DEF T
<1>3. Nat \subseteq T
  BY <1>1, <1>2, SetInduction
<1> QED  BY <1>3 DEF T
=============================================================================
