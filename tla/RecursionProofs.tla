----------------------------- MODULE RecursionProofs -----------------------------
(***************************************************************************)
(* Induction on the natural numbers, and the existence of functions that   *)
(* are defined by recursion, stated with sets and functions.               *)
(***************************************************************************)
EXTENDS Naturals, Sequences, SequenceTheorems, WellFoundedInduction, TLAPS

(* Induction over a set of numbers: the smallest number that is not in it. *)
LEMMA SetInduction ==
  ASSUME NEW T, 0 \in T, \A n \in Nat : n \in T => n + 1 \in T
  PROVE  Nat \subseteq T
<1> SUFFICES ASSUME Nat \ T # {} PROVE FALSE
  OBVIOUS
<1> DEFINE less == OpToRel(<, Nat)
<1>1. less \subseteq Nat \X Nat /\ \A m, n \in Nat : <<m, n>> \in less <=> m < n
  BY DEF OpToRel
<1>2. IsWellFoundedOn(less, Nat)
  BY NatLessThanWellFounded
<1> HIDE DEF less
<1>3. PICK n \in Nat \ T : \A m \in Nat \ T : ~(<<m, n>> \in less)
  BY <1>2, WFMin
<1>4. n # 0 /\ n - 1 \in Nat /\ n - 1 < n
  BY <1>3
<1>5. n - 1 \in T
  BY <1>1, <1>3, <1>4
<1>6. (n - 1) + 1 \in T
  BY <1>4, <1>5
<1> QED
  BY <1>3, <1>6

(* f is computed from v0 by k steps. *)
Steps(V) == [Nat \X V -> V]

Computes(f, k, step, v0) == f[0] = v0 /\ \A i \in 1 .. k : f[i] = step[<<i, f[i - 1]>>]

(* Any number of steps can be computed. *)
LEMMA PartialRecursion ==
  ASSUME NEW V, NEW v0 \in V, NEW step \in Steps(V)
  PROVE  \A k \in Nat : \E f \in [0 .. k -> V] : Computes(f, k, step, v0)
<1> DEFINE T == {k \in Nat : \E f \in [0 .. k -> V] : Computes(f, k, step, v0)}
<1>1. 0 \in T
  <2> DEFINE f == [i \in 0 .. 0 |-> v0]
  <2>1. f \in [0 .. 0 -> V] /\ Computes(f, 0, step, v0)
    BY DEF Computes
  <2> QED
    BY <2>1
<1>2. ASSUME NEW n \in Nat, n \in T PROVE n + 1 \in T
  <2>1. PICK f \in [0 .. n -> V] : Computes(f, n, step, v0)
    BY <1>2
  <2> DEFINE g == [i \in 0 .. n + 1 |-> IF i = n + 1 THEN step[<<n + 1, f[n]>>] ELSE f[i]]
  <2>2. g \in [0 .. n + 1 -> V]
    <3>1. f[n] \in V /\ n + 1 \in Nat
      BY <2>1
    <3>2. step[<<n + 1, f[n]>>] \in V
      BY <3>1 DEF Steps
    <3>3. \A i \in 0 .. n + 1 : i = n + 1 \/ f[i] \in V
      BY <2>1
    <3> QED
      BY <3>2, <3>3
  <2>3. g[0] = v0
    BY <2>1 DEF Computes
  <2>4. ASSUME NEW i \in 1 .. n + 1 PROVE g[i] = step[<<i, g[i - 1]>>]
    <3>1. CASE i = n + 1
      <4>1. i - 1 = n /\ n \in 0 .. n + 1 /\ n # n + 1
        BY <3>1
      <4>2. g[i - 1] = f[n] /\ g[i] = step[<<n + 1, f[n]>>]
        BY <3>1, <4>1
      <4> QED
        BY <3>1, <4>2
    <3>2. CASE i # n + 1
      <4>1. i \in 1 .. n /\ g[i] = f[i] /\ g[i - 1] = f[i - 1]
        BY <3>2
      <4> QED
        BY <4>1, <2>1 DEF Computes
    <3> QED
      BY <3>1, <3>2
  <2> HIDE DEF g
  <2>5. Computes(g, n + 1, step, v0)
    BY <2>3, <2>4 DEF Computes
  <2> QED
    BY <2>2, <2>5
<1> HIDE DEF T
<1>3. Nat \subseteq T
  BY <1>1, <1>2, SetInduction
<1> QED
  BY <1>3 DEF T

(* What is computed does not depend on the number of steps. *)
LEMMA SameRecursion ==
  ASSUME NEW v0, NEW step, NEW k \in Nat, NEW f, Computes(f, k, step, v0),
         NEW m \in Nat, NEW g, Computes(g, m, step, v0),
         NEW j \in Nat, j <= k, j <= m
  PROVE  f[j] = g[j]
<1> DEFINE T == {i \in Nat : i <= k /\ i <= m => f[i] = g[i]}
<1>1. 0 \in T
  BY DEF Computes
<1>2. ASSUME NEW n \in Nat, n \in T PROVE n + 1 \in T
  <2> SUFFICES ASSUME n + 1 <= k, n + 1 <= m PROVE f[n + 1] = g[n + 1]
    OBVIOUS
  <2>1. n + 1 \in 1 .. k /\ n + 1 \in 1 .. m /\ (n + 1) - 1 = n /\ f[n] = g[n]
    BY <1>2
  <2>2. f[n + 1] = step[<<n + 1, f[(n + 1) - 1]>>]
    BY <2>1 DEF Computes
  <2>3. g[n + 1] = step[<<n + 1, g[(n + 1) - 1]>>]
    BY <2>1 DEF Computes
  <2> QED
    BY <2>1, <2>2, <2>3
<1> HIDE DEF T
<1>3. Nat \subseteq T
  BY <1>1, <1>2, SetInduction
<1> QED
  BY <1>3 DEF T

(* So there is a function that is computed for every number. *)
LEMMA Recursion ==
  ASSUME NEW V, NEW v0 \in V, NEW step \in Steps(V)
  PROVE  \E f \in [Nat -> V] : \A k \in Nat : Computes(f, k, step, v0)
<1> DEFINE upTo(k) == CHOOSE g : g \in [0 .. k -> V] /\ Computes(g, k, step, v0)
           f == [n \in Nat |-> upTo(n)[n]]
<1>1. \A k \in Nat : upTo(k) \in [0 .. k -> V] /\ Computes(upTo(k), k, step, v0)
  BY PartialRecursion
<1> HIDE DEF upTo
<1>2. f \in [Nat -> V]
  BY <1>1
<1>3. f[0] = v0
  BY <1>1 DEF Computes
<1>4. ASSUME NEW k \in Nat, NEW i \in 1 .. k PROVE f[i] = step[<<i, f[i - 1]>>]
  <2>1. i \in Nat /\ i - 1 \in Nat /\ i - 1 <= i /\ i \in 1 .. i
    OBVIOUS
  <2>2. upTo(i)[i] = step[<<i, upTo(i)[i - 1]>>]
    BY <2>1, <1>1 DEF Computes
  <2>3. upTo(i)[i - 1] = upTo(i - 1)[i - 1]
    <3>1. Computes(upTo(i), i, step, v0) /\ Computes(upTo(i - 1), i - 1, step, v0)
      BY <2>1, <1>1
    <3>2. i \in Nat /\ i - 1 \in Nat
      BY <2>1
    <3> DEFINE j == i - 1  p == upTo(i)  q == upTo(j)
    <3>3. /\ i \in Nat /\ Computes(p, i, step, v0)
          /\ j \in Nat /\ Computes(q, j, step, v0) /\ j <= i /\ j <= j
      BY <2>1, <3>1
    <3> HIDE DEF j, p, q
    <3>5. p[j] = q[j]
      BY <3>3, SameRecursion
    <3> QED
      BY <3>5 DEF j, p, q
  <2> QED
    BY <2>1, <2>2, <2>3
<1> HIDE DEF f
<1>5. \A k \in Nat : Computes(f, k, step, v0)
  BY <1>3, <1>4 DEF Computes
<1> QED
  BY <1>2, <1>5

-----------------------------------------------------------------------------
(***************************************************************************)
(* Sequences that are read from left to right.                             *)
(***************************************************************************)
(* Induction over a set of sequences. *)
LEMMA AppendInduction ==
  ASSUME NEW S, NEW T, <<>> \in T,
         \A s \in Seq(S), e \in S : s \in T => Append(s, e) \in T
  PROVE  Seq(S) \subseteq T
<1> DEFINE N == {n \in Nat : \A s \in Seq(S) : Len(s) = n => s \in T}
<1>1. 0 \in N
  <2> SUFFICES ASSUME NEW s \in Seq(S), Len(s) = 0 PROVE s \in T
    OBVIOUS
  <2> QED
    BY EmptySeq
<1>2. ASSUME NEW n \in Nat, n \in N PROVE n + 1 \in N
  <2> SUFFICES ASSUME NEW s \in Seq(S), Len(s) = n + 1 PROVE s \in T
    OBVIOUS
  <2> DEFINE front == [i \in 1 .. n |-> s[i]]
  <2>1. s # <<>> /\ s[n + 1] \in S /\ \A i \in 1 .. n : s[i] \in S
    BY EmptySeq, ElementOfSeq
  <2>2. front \in Seq(S) /\ Len(front) = n
    BY <2>1
  <2>3. s = Append(front, s[n + 1])
    <3> HIDE DEF front
    <3>1. /\ Append(front, s[n + 1]) \in Seq(S)
          /\ Len(Append(front, s[n + 1])) = n + 1
          /\ Append(front, s[n + 1])[n + 1] = s[n + 1]
          /\ \A i \in 1 .. n : Append(front, s[n + 1])[i] = front[i]
      BY <2>1, <2>2, AppendProperties
    <3>2. \A i \in 1 .. n : front[i] = s[i]
      BY DEF front
    <3>3. \A i \in 1 .. n + 1 : s[i] = Append(front, s[n + 1])[i]
      BY <3>1, <3>2
    <3> QED
      BY <3>1, <3>3, SeqEqual
  <2> HIDE DEF front
  <2>4. front \in T
    BY <1>2, <2>2
  <2> QED
    BY <2>1, <2>2, <2>3, <2>4
<1> HIDE DEF N
<1>3. Nat \subseteq N
  BY <1>1, <1>2, SetInduction
<1> QED
  BY <1>3, LenProperties DEF N

(* f is what next makes of v0 along the cells of text. *)
Folds(V, S) == [S \X V -> V]

Scans(f, text, next, v0) ==
  f[0] = v0 /\ \A i \in 1 .. Len(text) : f[i] = next[<<text[i], f[i - 1]>>]

LEMMA ScanExists ==
  ASSUME NEW S, NEW V, NEW v0 \in V, NEW next \in Folds(V, S), NEW text \in Seq(S)
  PROVE  \E f \in [0 .. Len(text) -> V] : Scans(f, text, next, v0)
<1> DEFINE step == [p \in Nat \X V |-> IF p[1] \in 1 .. Len(text)
                                       THEN next[<<text[p[1]], p[2]>>]
                                       ELSE p[2]]
<1>1. Len(text) \in Nat /\ \A i \in 1 .. Len(text) : text[i] \in S
  BY ElementOfSeq, LenProperties
<1>2. step \in Steps(V)
  <2> SUFFICES ASSUME NEW p \in Nat \X V
               PROVE  (IF p[1] \in 1 .. Len(text) THEN next[<<text[p[1]], p[2]>>] ELSE p[2]) \in V
    BY DEF Steps
  <2> QED
    BY <1>1 DEF Folds
<1>3. \A i \in 1 .. Len(text), v \in V : step[<<i, v>>] = next[<<text[i], v>>]
  OBVIOUS
<1> HIDE DEF step
<1>4. PICK f \in [0 .. Len(text) -> V] : Computes(f, Len(text), step, v0)
  BY <1>1, <1>2, PartialRecursion
<1>5. ASSUME NEW i \in 1 .. Len(text) PROVE f[i] = next[<<text[i], f[i - 1]>>]
  <2>1. i - 1 \in 0 .. Len(text)
    BY <1>1
  <2>2. f[i - 1] \in V
    BY <1>4, <2>1
  <2>3. f[i] = step[<<i, f[i - 1]>>]
    BY <1>4 DEF Computes
  <2> QED
    BY <1>3, <2>2, <2>3
<1>6. f[0] = v0
  BY <1>4 DEF Computes
<1> QED
  BY <1>4, <1>5, <1>6 DEF Scans

Longer(more, text, cell) == more = Append(text, cell)

Step(next, cell, value) == next[<<cell, value>>]

(* One cell more is one step more. *)
LEMMA ScanAppend ==
  ASSUME NEW S, NEW text \in Seq(S), NEW cell \in S, NEW next, NEW v0,
         NEW f, Scans(f, text, next, v0),
         NEW longer, Longer(longer, text, cell),
         NEW g, Scans(g, longer, next, v0)
  PROVE  g[Len(longer)] = Step(next, cell, f[Len(text)])
<1> DEFINE T == {i \in Nat : i <= Len(text) => f[i] = g[i]}
<1>0. /\ Len(text) \in Nat /\ Len(longer) = Len(text) + 1
      /\ longer[Len(text) + 1] = cell
      /\ \A i \in 1 .. Len(text) : longer[i] = text[i]
  BY AppendProperties, LenProperties DEF Longer
<1>1. 0 \in T
  BY DEF Scans
<1>2. ASSUME NEW n \in Nat, n \in T PROVE n + 1 \in T
  <2> SUFFICES ASSUME n + 1 <= Len(text) PROVE f[n + 1] = g[n + 1]
    OBVIOUS
  <2>1. n + 1 \in 1 .. Len(text) /\ n + 1 \in 1 .. Len(longer) /\ (n + 1) - 1 = n /\ f[n] = g[n]
    BY <1>0, <1>2
  <2>2. f[n + 1] = next[<<text[n + 1], f[(n + 1) - 1]>>]
    BY <2>1 DEF Scans
  <2>3. g[n + 1] = next[<<longer[n + 1], g[(n + 1) - 1]>>]
    BY <2>1 DEF Scans
  <2> QED
    BY <1>0, <2>1, <2>2, <2>3
<1> HIDE DEF T
<1>3. Nat \subseteq T
  BY <1>1, <1>2, SetInduction
<1>4. f[Len(text)] = g[Len(text)]
  BY <1>0, <1>3 DEF T
<1>5. Len(longer) \in 1 .. Len(longer) /\ Len(longer) - 1 = Len(text)
  BY <1>0
<1>6. g[Len(longer)] = next[<<longer[Len(longer)], g[Len(longer) - 1]>>]
  BY <1>5 DEF Scans
<1> QED
  BY <1>0, <1>4, <1>5, <1>6 DEF Step
=============================================================================
