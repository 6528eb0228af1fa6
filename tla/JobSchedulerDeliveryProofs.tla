----------------------- MODULE JobSchedulerDeliveryProofs -----------------------
(***************************************************************************)
(* Theorems about JobScheduler where nothing is late or torn, for any      *)
(* number of servers and files: every line is delivered once and in order, *)
(* the program dispatches like JobDispatch, and what comes to rest is      *)
(* finished.                                                               *)
(***************************************************************************)
EXTENDS JobSchedulerDelivery, JobSchedulerProofs, FiniteSetTheorems

-----------------------------------------------------------------------------
(***************************************************************************)
(* Sequences.                                                              *)
(***************************************************************************)
LEMMA ConcatAppend ==
  ASSUME NEW S, NEW s \in Seq(S), NEW t \in Seq(S), NEW e \in S
  PROVE  s \o Append(t, e) = Append(s \o t, e)
<1>1. <<e>> \in Seq(S) /\ s \o t \in Seq(S)
  BY ConcatProperties
<1>2. Append(t, e) = t \o <<e>> /\ Append(s \o t, e) = (s \o t) \o <<e>>
  BY <1>1, AppendIsConcat
<1>3. (s \o t) \o <<e>> = s \o (t \o <<e>>)
  BY <1>1, ConcatAssociative
<1> QED
  BY <1>2, <1>3

(* The first element of one sequence goes to the end of another. *)
LEMMA HeadMoves ==
  ASSUME NEW S, NEW s \in Seq(S), NEW t \in Seq(S), t # <<>>
  PROVE  Append(s, Head(t)) \o Tail(t) = s \o t
<1> DEFINE e == Head(t)
           u == Tail(t)
<1>1. e \in S /\ u \in Seq(S) /\ t = <<e>> \o u
  <2>1. /\ e \in S /\ u \in Seq(S) /\ Len(u) = Len(t) - 1
        /\ \A i \in 1 .. Len(u) : u[i] = t[i + 1]
    BY HeadTailProperties
  <2>2. Len(t) \in Nat \ {0} /\ e = t[1]
    BY EmptySeq
  <2> HIDE DEF e, u
  <2>3. <<e>> \in Seq(S) /\ Len(<<e>>) = 1 /\ <<e>>[1] = e
    BY <2>1
  <2> DEFINE one == <<e>>
  <2>4. one \in Seq(S) /\ Len(one) = 1 /\ one[1] = e
    BY <2>3
  <2> HIDE DEF one
  <2> DEFINE both == one \o u
  <2>5. /\ both \in Seq(S) /\ Len(both) = Len(one) + Len(u)
        /\ \A i \in 1 .. Len(one) + Len(u) :
             both[i] = IF i <= Len(one) THEN one[i] ELSE u[i - Len(one)]
    <3>1. one \in Seq(S) /\ u \in Seq(S)
      BY <2>1, <2>4
    <3> QED
      BY <3>1, ConcatProperties
  <2> HIDE DEF both
  <2>6. Len(both) = Len(t)
    BY <2>1, <2>2, <2>4, <2>5
  <2>7. ASSUME NEW i \in 1 .. Len(both) PROVE both[i] = t[i]
    <3>1. CASE i = 1
      BY <2>2, <2>4, <2>5, <2>6, <3>1
    <3>2. CASE i # 1
      <4>1. ~(i <= 1) /\ i - 1 \in 1 .. Len(u) /\ (i - 1) + 1 = i
        BY <2>1, <2>2, <2>6, <3>2
      <4> QED
        BY <2>1, <2>4, <2>5, <4>1
    <3> QED
      BY <3>1, <3>2
  <2>8. both = t
    BY <2>5, <2>6, <2>7, SeqEqual
  <2> QED
    BY <2>1, <2>8 DEF both, one
<1> HIDE DEF e, u
<1>2. <<e>> \in Seq(S) /\ Append(s, e) = s \o <<e>>
  BY <1>1, AppendIsConcat
<1>3. (s \o <<e>>) \o u = s \o (<<e>> \o u)
  BY <1>1, <1>2, ConcatAssociative
<1> QED
  BY <1>1, <1>2, <1>3 DEF e, u

-----------------------------------------------------------------------------
(***************************************************************************)
(* What the parser makes of whole lines.                                   *)
(***************************************************************************)
(* Cells that are no delimiter belong to the rest. *)
LEMMA ParsedTail ==
  ASSUME NEW d \in Cells, NEW text \in Seq(Cells)
  PROVE  \A tail \in Seq(Cells) :
           (\A i \in DOMAIN tail : tail[i] # d)
             => Parsed(text \o tail, d)
                  = [pieces |-> Parsed(text, d).pieces, rest |-> Parsed(text, d).rest \o tail]
<1> DEFINE found == Parsed(text, d)
           More(tail) == [pieces |-> found.pieces, rest |-> found.rest \o tail]
           Quiet(tail) == \A i \in DOMAIN tail : tail[i] # d
           Good(tail) == Quiet(tail) => Parsed(text \o tail, d) = More(tail)
           T == {tail \in Seq(Cells) : Good(tail)}
<1>0. found \in Parses(Cells) /\ found.pieces \in Seq(Seq(Cells)) /\ found.rest \in Seq(Cells)
  BY ParsedAppend DEF Parses
<1> HIDE DEF found
<1>1. <<>> \in T
  <2>1. text \o <<>> = text /\ found.rest \o <<>> = found.rest /\ <<>> \in Seq(Cells)
    BY <1>0, ConcatEmptySeq, EmptySeq
  <2>2. found = [pieces |-> found.pieces, rest |-> found.rest]
    BY <1>0 DEF Parses
  <2> QED
    BY <2>1, <2>2 DEF found
<1>2. ASSUME NEW tail \in Seq(Cells), NEW cell \in Cells, tail \in T
      PROVE  Append(tail, cell) \in T
  <2>0. Good(tail)
    <3> HIDE DEF Good
    <3> QED
      BY <1>2
  <2> DEFINE longer == Append(tail, cell)
             all == text \o tail
  <2>1. /\ longer \in Seq(Cells) /\ Len(longer) = Len(tail) + 1 /\ longer[Len(tail) + 1] = cell
        /\ \A i \in 1 .. Len(tail) : longer[i] = tail[i]
    BY AppendProperties
  <2>2. text \o longer = Append(all, cell)
    BY ConcatAppend
  <2>9. all \in Seq(Cells)
    BY ConcatProperties
  <2>3. found.rest \o longer = Append(found.rest \o tail, cell)
    <3> DEFINE r == found.rest
    <3>1. r \in Seq(Cells)
      BY <1>0
    <3> HIDE DEF r
    <3>2. r \o Append(tail, cell) = Append(r \o tail, cell)
      BY <3>1, ConcatAppend
    <3> QED
      BY <3>2 DEF r
  <2> SUFFICES ASSUME Quiet(longer) PROVE Parsed(text \o longer, d) = More(longer)
    BY <2>1
  <2> HIDE DEF longer
  <2>4. cell # d /\ Quiet(tail)
    <3>1. DOMAIN longer = 1 .. Len(tail) + 1 /\ DOMAIN tail = 1 .. Len(tail) /\ Len(tail) \in Nat
      BY <2>1, LenProperties
    <3> QED
      BY <2>1, <3>1
  <2>5. Parsed(all, d) = More(tail)
    <3> HIDE DEF Quiet, More
    <3> QED
      BY <2>0, <2>4
  <2> HIDE DEF all
  <2>6. Parsed(Append(all, cell), d) = Scanned(d, cell, More(tail))
    BY <2>5, <2>9, ParsedAppend
  <2>7. Scanned(d, cell, More(tail)) = More(longer)
    BY <2>3, <2>4 DEF Scanned
  <2> QED
    BY <2>2, <2>6, <2>7
<1> HIDE DEF T
<1>3. Seq(Cells) \subseteq T
  BY <1>1, <1>2, AppendInduction
<1> QED
  BY <1>3 DEF T, found

(* A line that is written is one more piece. *)
LEMMA ParsedLine ==
  ASSUME NEW d \in Cells, NEW text \in Seq(Cells), Parsed(text, d).rest = <<>>,
         NEW line \in Seq(Cells), \A i \in DOMAIN line : line[i] # d
  PROVE  /\ Parsed(text \o line \o <<d>>, d).pieces = Append(Parsed(text, d).pieces, line)
         /\ Parsed(text \o line \o <<d>>, d).rest = <<>>
<1> DEFINE found == Parsed(text, d)
           both == text \o line
<1>1. both \in Seq(Cells)
  BY ConcatProperties
<1>2. both \o <<d>> = Append(both, d)
  <2> HIDE DEF both
  <2> QED
    BY <1>1, AppendIsConcat
<1>3. Parsed(both, d) = [pieces |-> found.pieces, rest |-> line]
  <2>1. <<>> \o line = line
    BY ConcatEmptySeq
  <2> QED
    BY <2>1, ParsedTail
<1> HIDE DEF found, both
<1>4. Parsed(Append(both, d), d) = Scanned(d, d, Parsed(both, d))
  BY <1>1, ParsedAppend
<1>5. Scanned(d, d, Parsed(both, d)) = [pieces |-> Append(found.pieces, line), rest |-> <<>>]
  BY <1>3 DEF Scanned
<1> DEFINE after == Parsed(both \o <<d>>, d)
<1>7. after = [pieces |-> Append(found.pieces, line), rest |-> <<>>]
  BY <1>2, <1>4, <1>5
<1> HIDE DEF after
<1>8. after.pieces = Append(found.pieces, line) /\ after.rest = <<>>
  BY <1>7
<1> QED
  BY <1>8 DEF found, both, after

-----------------------------------------------------------------------------
(***************************************************************************)
(* Elements of sequences.                                                  *)
(***************************************************************************)
LEMMA Tuples ==
  ASSUME NEW S, NEW a \in S, NEW b \in S, NEW c \in S
  PROVE  /\ Append(<<>>, a) = <<a>> /\ Append(<<a>>, b) = <<a, b>>
         /\ Append(<<a, b>>, c) = <<a, b, c>>
<1> DEFINE one == <<a>>
           two == <<a, b>>
           three == <<a, b, c>>
           nothing == <<>>
<1>1. /\ nothing \in Seq(S) /\ Len(nothing) = 0
      /\ one \in Seq(S) /\ Len(one) = 1 /\ one[1] = a
      /\ two \in Seq(S) /\ Len(two) = 2 /\ two[1] = a /\ two[2] = b
      /\ three \in Seq(S) /\ Len(three) = 3
      /\ three[1] = a /\ three[2] = b /\ three[3] = c
  BY EmptySeq
<1> HIDE DEF one, two, three, nothing
<1>2. Append(nothing, a) = one
  <2> DEFINE t == Append(nothing, a)
  <2>1. t \in Seq(S) /\ Len(t) = Len(nothing) + 1 /\ t[Len(nothing) + 1] = a
    BY <1>1, AppendProperties
  <2> HIDE DEF t
  <2>2. Len(t) = Len(one) /\ \A i \in 1 .. Len(t) : t[i] = one[i]
    BY <1>1, <2>1
  <2> QED
    BY <1>1, <2>1, <2>2, SeqEqual DEF t
<1>3. Append(one, b) = two
  <2> DEFINE t == Append(one, b)
  <2>1. /\ t \in Seq(S) /\ Len(t) = Len(one) + 1 /\ t[Len(one) + 1] = b
        /\ \A i \in 1 .. Len(one) : t[i] = one[i]
    <3>1. one \in Seq(S)
      BY <1>1
    <3> QED
      BY <3>1, AppendProperties
  <2> HIDE DEF t
  <2>2. Len(t) = 2 /\ t[1] = a /\ t[2] = b
    <3>1. Len(one) + 1 = 2 /\ 1 \in 1 .. Len(one)
      BY <1>1
    <3> QED
      BY <1>1, <2>1, <3>1
  <2>3. Len(t) = Len(two) /\ \A i \in 1 .. Len(t) : t[i] = two[i]
    <3>1. \A i \in 1 .. 2 : i = 1 \/ i = 2
      OBVIOUS
    <3> QED
      BY <1>1, <2>2, <3>1
  <2> QED
    BY <1>1, <2>1, <2>3, SeqEqual DEF t
<1>4. Append(two, c) = three
  <2> DEFINE t == Append(two, c)
  <2>1. /\ t \in Seq(S) /\ Len(t) = Len(two) + 1 /\ t[Len(two) + 1] = c
        /\ \A i \in 1 .. Len(two) : t[i] = two[i]
    <3>1. two \in Seq(S)
      BY <1>1
    <3> QED
      BY <3>1, AppendProperties
  <2> HIDE DEF t
  <2>2. Len(t) = 3 /\ t[1] = a /\ t[2] = b /\ t[3] = c
    <3>1. Len(two) + 1 = 3 /\ 1 \in 1 .. Len(two) /\ 2 \in 1 .. Len(two)
      BY <1>1
    <3> QED
      BY <1>1, <2>1, <3>1
  <2>3. Len(t) = Len(three) /\ \A i \in 1 .. Len(t) : t[i] = three[i]
    <3>1. \A i \in 1 .. 3 : i = 1 \/ i = 2 \/ i = 3
      OBVIOUS
    <3> QED
      BY <1>1, <2>2, <3>1
  <2> QED
    BY <1>1, <2>1, <2>3, SeqEqual DEF t
<1> QED
  BY <1>2, <1>3, <1>4 DEF one, two, three, nothing

LEMMA RangeIs ==
  ASSUME NEW S, NEW s \in Seq(S)
  PROVE  /\ Len(s) \in Nat /\ DOMAIN s = 1 .. Len(s)
         /\ \A e : e \in Range(s) <=> \E i \in 1 .. Len(s) : s[i] = e
         /\ NoTwice(s) <=> \A i, j \in 1 .. Len(s) : s[i] = s[j] => i = j
BY LenProperties DEF Range, NoTwice

LEMMA RangeAppend ==
  ASSUME NEW S, NEW s \in Seq(S), NEW e \in S
  PROVE  /\ \A x : x \in Range(Append(s, e)) <=> x \in Range(s) \/ x = e
         /\ NoTwice(s) /\ e \notin Range(s) => NoTwice(Append(s, e))
<1> DEFINE t == Append(s, e)
<1>1. /\ t \in Seq(S) /\ Len(t) = Len(s) + 1 /\ t[Len(s) + 1] = e
      /\ \A i \in 1 .. Len(s) : t[i] = s[i]
  BY AppendProperties
<1> HIDE DEF t
<1>2. /\ Len(t) \in Nat /\ Len(s) \in Nat
      /\ \A x : x \in Range(s) <=> \E i \in 1 .. Len(s) : s[i] = x
      /\ \A x : x \in Range(t) <=> \E i \in 1 .. Len(t) : t[i] = x
  BY <1>1, RangeIs
<1>3. \A i \in 1 .. Len(t) : i \in 1 .. Len(s) \/ i = Len(s) + 1
  BY <1>1, <1>2
<1>4. \A x : x \in Range(t) <=> x \in Range(s) \/ x = e
  <2>1. ASSUME NEW x, x \in Range(t) PROVE x \in Range(s) \/ x = e
    BY <1>1, <1>2, <1>3, <2>1
  <2>2. ASSUME NEW x, x \in Range(s) PROVE x \in Range(t)
    <3>1. PICK i \in 1 .. Len(s) : s[i] = x
      BY <1>2, <2>2
    <3>2. i \in 1 .. Len(t) /\ t[i] = x
      BY <1>1, <1>2, <3>1
    <3> QED
      BY <1>2, <3>2
  <2>3. Len(s) + 1 \in 1 .. Len(t) /\ e \in Range(t)
    BY <1>1, <1>2
  <2> QED
    BY <2>1, <2>2, <2>3
<1>5. ASSUME NoTwice(s), e \notin Range(s) PROVE NoTwice(t)
  <2>1. \A i, j \in 1 .. Len(s) : s[i] = s[j] => i = j
    BY <1>5, RangeIs
  <2>2. \A i \in 1 .. Len(s) : s[i] # e
    BY <1>2, <1>5
  <2>3. \A i, j \in 1 .. Len(t) : t[i] = t[j] => i = j
    BY <1>1, <1>3, <2>1, <2>2
  <2> QED
    BY <1>1, <2>3, RangeIs
<1> QED
  BY <1>4, <1>5 DEF t

(* An element is taken out. *)
LEMMA RangeRemove ==
  ASSUME NEW S, NEW s \in Seq(S), NEW k \in DOMAIN s, NoTwice(s)
  PROVE  /\ Len(RemoveAt(s, k)) = Len(s) - 1
         /\ \A x : x \in Range(RemoveAt(s, k)) <=> x \in Range(s) /\ x # s[k]
         /\ NoTwice(RemoveAt(s, k))
<1> DEFINE t == RemoveAt(s, k)
           u == SubSeq(s, 1, k - 1)
           v == SubSeq(s, k + 1, Len(s))
<1>0. PICK n \in Nat : n = Len(s) /\ DOMAIN s = 1 .. n
  BY LenProperties
<1>1. k \in 1 .. n /\ k - 1 \in Int /\ k + 1 \in Int /\ 1 \in Int /\ n \in Int /\ k - 1 \in Nat
  BY <1>0
<1>2. \A i \in 1 .. n : s[i] \in S
  BY <1>0, ElementOfSeq
<1>3. u \in Seq(S) /\ Len(u) = k - 1 /\ \A i \in 1 .. k - 1 : u[i] = s[i]
  <2>1. \A i \in 1 .. k - 1 : s[i] \in S
    BY <1>1, <1>2
  <2>2. /\ u \in Seq(S)
        /\ Len(u) = IF 1 <= k - 1 THEN (k - 1) - 1 + 1 ELSE 0
        /\ \A i \in 1 .. (k - 1) - 1 + 1 : u[i] = s[1 + i - 1]
    BY <1>1, <2>1, SubSeqProperties
  <2> HIDE DEF u
  <2>3. Len(u) = k - 1
    BY <1>1, <2>2
  <2>4. ASSUME NEW i \in 1 .. k - 1 PROVE u[i] = s[i]
    <3>1. i \in 1 .. (k - 1) - 1 + 1 /\ 1 + i - 1 = i
      BY <1>1
    <3> QED
      BY <2>2, <3>1
  <2> QED
    BY <2>2, <2>3, <2>4
<1>4. v \in Seq(S) /\ Len(v) = n - k /\ \A i \in 1 .. n - k : v[i] = s[i + k]
  <2>1. \A i \in k + 1 .. n : s[i] \in S
    BY <1>1, <1>2
  <2>2. /\ v \in Seq(S)
        /\ Len(v) = IF k + 1 <= n THEN n - (k + 1) + 1 ELSE 0
        /\ \A i \in 1 .. n - (k + 1) + 1 : v[i] = s[(k + 1) + i - 1]
    BY <1>0, <1>1, <2>1, SubSeqProperties
  <2> HIDE DEF v
  <2>3. Len(v) = n - k
    BY <1>1, <2>2
  <2>4. ASSUME NEW i \in 1 .. n - k PROVE v[i] = s[i + k]
    <3>1. i \in 1 .. n - (k + 1) + 1 /\ (k + 1) + i - 1 = i + k
      BY <1>1
    <3> QED
      BY <2>2, <3>1
  <2> QED
    BY <2>2, <2>3, <2>4
<1>5. t = u \o v
  BY DEF RemoveAt
<1> HIDE DEF u, v, t
<1>6. /\ t \in Seq(S) /\ Len(t) = n - 1
      /\ \A i \in 1 .. n - 1 : t[i] = IF i < k THEN s[i] ELSE s[i + 1]
  <2> DEFINE w == u \o v
  <2>1. /\ w \in Seq(S) /\ Len(w) = Len(u) + Len(v)
        /\ \A i \in 1 .. Len(u) + Len(v) :
             w[i] = IF i <= Len(u) THEN u[i] ELSE v[i - Len(u)]
    <3>1. u \in Seq(S) /\ v \in Seq(S)
      BY <1>3, <1>4
    <3> QED
      BY <3>1, ConcatProperties
  <2> HIDE DEF w
  <2>2. Len(w) = n - 1 /\ Len(u) + Len(v) = n - 1
    <3>1. Len(w) = Len(u) + Len(v)
      BY <2>1
    <3>2. Len(u) = k - 1 /\ Len(v) = n - k
      BY <1>3, <1>4
    <3> QED
      BY <1>1, <3>1, <3>2
  <2>3. ASSUME NEW i \in 1 .. n - 1 PROVE w[i] = IF i < k THEN s[i] ELSE s[i + 1]
    <3>1. CASE i < k
      <4>1. i <= Len(u) /\ i \in 1 .. k - 1
        BY <1>1, <1>3, <3>1
      <4> QED
        BY <1>3, <2>1, <2>2, <3>1, <4>1
    <3>2. CASE ~(i < k)
      <4>1. ~(i <= Len(u)) /\ i - Len(u) \in 1 .. n - k /\ (i - Len(u)) + k = i + 1
        BY <1>1, <1>3, <3>2
      <4>2. w[i] = v[i - Len(u)]
        BY <2>1, <2>2, <4>1
      <4> QED
        BY <1>4, <3>2, <4>1, <4>2
    <3> QED
      BY <3>1, <3>2
  <2> QED
    BY <1>5, <2>1, <2>2, <2>3 DEF w
<1>7. \A i, j \in 1 .. n : s[i] = s[j] => i = j
  BY <1>0, RangeIs
<1>8. \A i \in 1 .. n - 1 : IF i < k THEN i \in 1 .. n ELSE i + 1 \in 1 .. n
  BY <1>1
<1>9. ASSUME NEW x PROVE x \in Range(t) <=> x \in Range(s) /\ x # s[k]
  <2>1. (x \in Range(t) <=> \E i \in 1 .. n - 1 : t[i] = x)
        /\ (x \in Range(s) <=> \E i \in 1 .. n : s[i] = x)
    BY <1>0, <1>6, RangeIs
  <2>2. ASSUME NEW i \in 1 .. n - 1, t[i] = x PROVE x \in Range(s) /\ x # s[k]
    <3>1. CASE i < k
      BY <1>1, <1>6, <1>7, <1>8, <2>1, <2>2, <3>1
    <3>2. CASE ~(i < k)
      <4>1. i + 1 \in 1 .. n /\ i + 1 # k /\ s[i + 1] = x
        BY <1>1, <1>6, <1>8, <2>2, <3>2
      <4> QED
        BY <1>1, <1>7, <2>1, <4>1
    <3> QED
      BY <3>1, <3>2
  <2>3. ASSUME NEW i \in 1 .. n, s[i] = x, x # s[k] PROVE x \in Range(t)
    <3>1. CASE i < k
      <4>1. i \in 1 .. n - 1 /\ t[i] = x
        BY <1>1, <1>6, <2>3, <3>1
      <4> QED
        BY <2>1, <4>1
    <3>2. CASE ~(i < k)
      <4>1. i - 1 \in 1 .. n - 1 /\ ~(i - 1 < k) /\ (i - 1) + 1 = i
        BY <1>1, <2>3, <3>2
      <4>2. t[i - 1] = x
        BY <1>6, <2>3, <4>1
      <4> QED
        BY <2>1, <4>1, <4>2
    <3> QED
      BY <3>1, <3>2
  <2> QED
    BY <2>1, <2>2, <2>3
<1>10. NoTwice(t)
  <2>1. ASSUME NEW i \in 1 .. n - 1, NEW j \in 1 .. n - 1, t[i] = t[j] PROVE i = j
    <3> DEFINE at(m) == IF m < k THEN m ELSE m + 1
    <3>1. at(i) \in 1 .. n /\ at(j) \in 1 .. n /\ t[i] = s[at(i)] /\ t[j] = s[at(j)]
      BY <1>6, <1>8
    <3>2. at(i) = at(j)
      BY <1>7, <2>1, <3>1
    <3> QED
      BY <1>1, <3>2
  <2>2. Len(t) = n - 1
    BY <1>6
  <2> QED
    BY <1>6, <2>1, <2>2, RangeIs
<1> QED
  BY <1>0, <1>6, <1>9, <1>10 DEF t

(* The head of the second of three sequences is what follows the first. *)
LEMMA Middle ==
  ASSUME NEW S, NEW a \in Seq(S), NEW b \in Seq(S), NEW c \in Seq(S), b # <<>>
  PROVE  /\ Len(a) \in Nat /\ Len(a) + 1 \in 1 .. Len(a \o b \o c)
         /\ (a \o b \o c)[Len(a) + 1] = Head(b)
         /\ \A i \in 1 .. Len(a) : (a \o b \o c)[i] = a[i]
<1> DEFINE ab == a \o b
           abc == ab \o c
<1>1. /\ ab \in Seq(S) /\ Len(ab) = Len(a) + Len(b)
      /\ \A i \in 1 .. Len(a) + Len(b) : ab[i] = IF i <= Len(a) THEN a[i] ELSE b[i - Len(a)]
  BY ConcatProperties
<1> HIDE DEF ab
<1>2. /\ abc \in Seq(S) /\ Len(abc) = Len(ab) + Len(c)
      /\ \A i \in 1 .. Len(ab) + Len(c) : abc[i] = IF i <= Len(ab) THEN ab[i] ELSE c[i - Len(ab)]
  <2>1. ab \in Seq(S)
    BY <1>1
  <2> QED
    BY <2>1, ConcatProperties
<1> HIDE DEF abc
<1>3. Len(a) \in Nat /\ Len(b) \in Nat \ {0} /\ Len(c) \in Nat /\ Head(b) = b[1]
  BY EmptySeq, LenProperties
<1>4. /\ Len(a) + 1 \in 1 .. Len(ab) /\ Len(a) + 1 \in 1 .. Len(abc)
      /\ ~(Len(a) + 1 <= Len(a)) /\ (Len(a) + 1) - Len(a) = 1
  BY <1>1, <1>2, <1>3
<1>5. ab[Len(a) + 1] = b[1]
  BY <1>1, <1>3, <1>4
<1>6. abc[Len(a) + 1] = ab[Len(a) + 1]
  BY <1>1, <1>2, <1>3, <1>4
<1>7. ASSUME NEW i \in 1 .. Len(a) PROVE abc[i] = a[i]
  <2>1. i \in 1 .. Len(ab) + Len(c) /\ i <= Len(ab) /\ i \in 1 .. Len(a) + Len(b) /\ i <= Len(a)
    BY <1>1, <1>3
  <2> QED
    BY <1>1, <1>2, <2>1
<1> QED
  BY <1>3, <1>4, <1>5, <1>6, <1>7 DEF ab, abc

-----------------------------------------------------------------------------
(***************************************************************************)
(* The lines of the clients, and what the LoadBalancer takes them for.     *)
(***************************************************************************)
LEMMA NamesDiffer ==
  /\ \A f : Name(f) = <<File(f)>>
  /\ \A f \in Files : Name(f) \in Seq(Cells)
  /\ \A f, g : Name(f) = Name(g) => f = g
<1>1. \A f : Name(f) = <<File(f)>>
  BY DEF Name
<1>2. \A f \in Files : <<File(f)>> \in Seq(Cells)
  BY CellTypes
<1>3. \A f, g : <<File(f)>> = <<File(g)>> => f = g
  BY CellsDiffer
<1> QED
  BY <1>1, <1>2, <1>3

LEMMA LinesDiffer ==
  /\ \A f, g : RequestLine(f) # FinishedLine(g)
  /\ \A f, g : RequestLine(f) = RequestLine(g) => f = g
  /\ \A f, g : FinishedLine(f) = FinishedLine(g) => f = g
<1>1. \A f, g : RequestLine(f) # FinishedLine(g)
  BY CellsDiffer DEF RequestLine, FinishedLine
<1>2. \A f, g : RequestLine(f) = RequestLine(g) => f = g
  BY CellsDiffer DEF RequestLine
<1>3. \A f, g : FinishedLine(f) = FinishedLine(g) => f = g
  BY CellsDiffer DEF FinishedLine
<1> QED
  BY <1>1, <1>2, <1>3

(* A line has no line end in it. *)
LEMMA LinesWithoutEnd ==
  \A line \in Lines : line \in Seq(Cells) /\ \A i \in DOMAIN line : line[i] # End
<1>1. ASSUME NEW f \in Files PROVE \A i \in DOMAIN RequestLine(f) : RequestLine(f)[i] # End
  BY CellsDiffer DEF RequestLine
<1>2. ASSUME NEW f \in Files PROVE \A i \in DOMAIN FinishedLine(f) : FinishedLine(f)[i] # End
  BY CellsDiffer DEF FinishedLine
<1> QED
  BY <1>1, <1>2, LineTypes DEF Lines

LEMMA CompletionLines ==
  ASSUME NEW f \in Files
  PROVE  /\ ~IsCompletion(RequestLine(f)) /\ IsCompletion(FinishedLine(f))
         /\ CompletedName(FinishedLine(f)) = Name(f)
<1>1. ~IsCompletion(RequestLine(f))
  BY CellsDiffer DEF IsCompletion, RequestLine, Range
<1> QED
  BY <1>1, NameOfFinished DEF Name

(* handle_request finds the name and the size. *)
LEMMA RequestPieces ==
  ASSUME NEW f \in Files
  PROVE  parse_with_delimiter(Append(RequestLine(f), Comma), Comma) = <<Name(f), <<Size>>>>
<1> DEFINE first == <<>> \o Name(f) \o <<Comma>>
           text == first \o <<Size>> \o <<Comma>>
<1>1. Comma \in Cells /\ <<>> \in Seq(Cells) /\ Name(f) \in Seq(Cells) /\ <<Size>> \in Seq(Cells)
  BY CellTypes, EmptySeq, NamesDiffer
<1>2. /\ \A i \in DOMAIN Name(f) : Name(f)[i] # Comma
      /\ \A i \in DOMAIN <<Size>> : <<Size>>[i] # Comma
  BY CellsDiffer DEF Name
<1>3. Parsed(<<>>, Comma).pieces = <<>> /\ Parsed(<<>>, Comma).rest = <<>>
  BY ParsedEmpty DEF Nothing
<1>4. /\ first = <<File(f), Comma>> /\ first \in Seq(Cells)
      /\ text = Append(RequestLine(f), Comma)
  <2>1. File(f) \in Cells /\ Size \in Cells
    BY CellTypes
  <2>2. <<>> \o Name(f) = Name(f)
    BY <1>1, ConcatEmptySeq
  <2>3. first = Append(Name(f), Comma)
    BY <1>1, <2>2, AppendIsConcat
  <2>4. Append(Name(f), Comma) = <<File(f), Comma>>
    BY <1>1, <2>1, Tuples DEF Name
  <2>5. <<File(f), Comma>> \in Seq(Cells)
    BY <1>1, <2>1
  <2>6. first = <<File(f), Comma>> /\ first \in Seq(Cells)
    BY <2>3, <2>4, <2>5
  <2> HIDE DEF first
  <2>7. first \o <<Size>> = Append(first, Size)
    BY <2>1, <2>6, AppendIsConcat
  <2>8. Append(first, Size) = RequestLine(f)
    BY <1>1, <2>1, <2>6, Tuples DEF RequestLine
  <2>9. RequestLine(f) \o <<Comma>> = Append(RequestLine(f), Comma)
    BY <1>1, LineTypes, AppendIsConcat
  <2> QED
    BY <2>6, <2>7, <2>8, <2>9
<1>5. /\ Parsed(first, Comma).pieces = Append(<<>>, Name(f)) /\ Parsed(first, Comma).rest = <<>>
  BY <1>1, <1>2, <1>3, ParsedLine
<1> HIDE DEF first
<1>6. Parsed(text, Comma).pieces = Append(Append(<<>>, Name(f)), <<Size>>)
  <2>1. Parsed(first \o <<Size>> \o <<Comma>>, Comma).pieces = Append(Parsed(first, Comma).pieces, <<Size>>)
    BY <1>1, <1>2, <1>4, <1>5, ParsedLine
  <2> QED
    BY <1>5, <2>1
<1>7. Append(Append(<<>>, Name(f)), <<Size>>) = <<Name(f), <<Size>>>>
  BY <1>1, Tuples
<1> QED
  BY <1>4, <1>6, <1>7 DEF parse_with_delimiter

-----------------------------------------------------------------------------
(***************************************************************************)
(* What the lines that are left are.                                       *)
(***************************************************************************)
LEMMA PipedType == TypeOK => Piped.pieces \in Seq(Seq(Cells)) /\ Piped.rest \in Seq(Cells)
<1> SUFFICES ASSUME TypeOK PROVE Piped.pieces \in Seq(Seq(Cells)) /\ Piped.rest \in Seq(Cells)
  OBVIOUS
<1>1. stream \in Seq(Cells)
  BY DEF TypeOK
<1>2. Parsed(stream, End) \in Parses(Cells)
  BY <1>1, ParsedAppend
<1> QED
  BY <1>2 DEF Parses, Piped

(* What was handled was sent. *)
LEMMA HandledWasSent ==
  ASSUME TypeOK, NamesFirst, Delivered
  PROVE  \A line \in Range(handled) : line \in Range(sent)
<1>1. CASE pc = "names"
  BY <1>1 DEF NamesFirst, Range
<1>2. CASE pc # "names"
  <2> DEFINE p == Piped.pieces
             hl == handled \o lines
  <2>1. handled \in Seq(Seq(Cells)) /\ lines \in Seq(Seq(Cells)) /\ p \in Seq(Seq(Cells))
    BY PipedType DEF TypeOK
  <2>2. sent = hl \o p
    BY <1>2 DEF Delivered
  <2> HIDE DEF p
  <2>3. /\ hl \in Seq(Seq(Cells)) /\ Len(hl) = Len(handled) + Len(lines)
        /\ \A i \in 1 .. Len(handled) + Len(lines) :
             hl[i] = IF i <= Len(handled) THEN handled[i] ELSE lines[i - Len(handled)]
    BY <2>1, ConcatProperties
  <2> HIDE DEF hl
  <2>4. /\ sent \in Seq(Seq(Cells)) /\ Len(sent) = Len(hl) + Len(p)
        /\ \A i \in 1 .. Len(hl) + Len(p) :
             sent[i] = IF i <= Len(hl) THEN hl[i] ELSE p[i - Len(hl)]
    <3>1. hl \in Seq(Seq(Cells)) /\ p \in Seq(Seq(Cells))
      BY <2>1, <2>3
    <3> QED
      BY <2>2, <3>1, ConcatProperties
  <2>5. Len(handled) \in Nat /\ Len(lines) \in Nat /\ Len(p) \in Nat
    BY <2>1, LenProperties
  <2>6. ASSUME NEW line \in Range(handled) PROVE line \in Range(sent)
    <3>1. PICK i \in 1 .. Len(handled) : handled[i] = line
      BY <2>1, RangeIs
    <3>2. i \in 1 .. Len(handled) + Len(lines) /\ i <= Len(handled)
      BY <2>5
    <3>3. hl[i] = line
      BY <2>3, <3>1, <3>2
    <3>4. i \in 1 .. Len(hl) + Len(p) /\ i <= Len(hl) /\ i \in 1 .. Len(sent)
      <4>1. Len(hl) = Len(handled) + Len(lines) /\ Len(sent) = Len(hl) + Len(p)
        BY <2>3, <2>4
      <4> HIDE DEF hl, p
      <4> QED
        BY <2>5, <3>2, <4>1
    <3>5. sent[i] = line
      BY <2>4, <3>3, <3>4
    <3> QED
      BY <2>4, <3>4, <3>5, RangeIs
  <2> QED
    BY <2>6
<1> QED
  BY <1>1, <1>2

(* The next line to handle is the next one that was sent, and new. *)
LEMMA NextLine ==
  ASSUME TypeOK, NamesFirst, Delivered, Written, pc = "batch", lines # <<>>
  PROVE  /\ Head(lines) \in Lines /\ Head(lines) \in Range(sent)
         /\ Head(lines) \notin Range(handled)
         /\ Len(handled) < Len(sent) /\ sent[Len(handled) + 1] = Head(lines)
<1> DEFINE p == Piped.pieces
           line == Head(lines)
<1>1. handled \in Seq(Seq(Cells)) /\ lines \in Seq(Seq(Cells)) /\ p \in Seq(Seq(Cells))
  BY PipedType DEF TypeOK
<1>2. sent = handled \o lines \o p
  BY DEF Delivered
<1> HIDE DEF p
<1>3. /\ Len(handled) \in Nat /\ Len(handled) + 1 \in 1 .. Len(handled \o lines \o p)
      /\ (handled \o lines \o p)[Len(handled) + 1] = line
      /\ \A i \in 1 .. Len(handled) : (handled \o lines \o p)[i] = handled[i]
  BY <1>1, Middle
<1>4. /\ Len(handled) + 1 \in 1 .. Len(sent) /\ sent[Len(handled) + 1] = line
      /\ \A i \in 1 .. Len(handled) : sent[i] = handled[i]
  BY <1>2, <1>3
<1> HIDE DEF line
<1>5. /\ sent \in Seq(Lines) /\ Len(sent) \in Nat
      /\ \A e : e \in Range(sent) <=> \E i \in 1 .. Len(sent) : sent[i] = e
      /\ \A i, j \in 1 .. Len(sent) : sent[i] = sent[j] => i = j
  BY RangeIs DEF TypeOK, Written
<1>6. line \in Lines
  BY <1>4, <1>5, ElementOfSeq
<1>7. line \in Range(sent)
  BY <1>4, <1>5
<1>8. ASSUME line \in Range(handled) PROVE FALSE
  <2>1. PICK i \in 1 .. Len(handled) : handled[i] = line
    BY <1>1, <1>8, RangeIs
  <2>2. i \in 1 .. Len(sent) /\ sent[i] = line /\ i # Len(handled) + 1
    BY <1>3, <1>4, <1>5, <2>1
  <2> QED
    BY <1>4, <1>5, <2>2
<1>9. Len(handled) < Len(sent)
  BY <1>3, <1>4, <1>5
<1> QED
  BY <1>4, <1>6, <1>7, <1>8, <1>9 DEF line

(* The name of a file is read as that name. *)
LEMMA OwnReading == \A f \in Files : \A name \in Readings(Name(f)) : name = Name(f)
BY DEF Readings, Garbled, Name

(* What handle_request does with a line of the client. *)
LEMMA RequestHandled ==
  ASSUME HandleLine, NEW f \in Files, Head(lines) = RequestLine(f)
  PROVE  /\ waiting' = Append(waiting, Name(f))
         /\ lines' = Tail(lines) /\ handled' = Append(handled, RequestLine(f))
         /\ UNCHANGED <<stream, emulator, pc, nexts, outbox, buffer, spoiled,
                        servers, queued, load, processing>>
<1> DEFINE parsed == parse_with_delimiter(Append(RequestLine(f), Comma), Comma)
<1>1. /\ handle_request(RequestLine(f)) /\ handled' = Append(handled, RequestLine(f))
      /\ UNCHANGED <<stream, emulator>>
  BY CompletionLines, HandleLineCases
<1>2. /\ Len(parsed) = 2 /\ parsed[1] = Name(f) /\ parsed[2] = <<Size>>
  <2>1. parsed = <<Name(f), <<Size>>>>
    BY RequestPieces
  <2> HIDE DEF parsed
  <2> QED
    BY <2>1
<1>3. parsed[2] # <<>>
  BY <1>2, EmptySeq, CellTypes
<1>4. /\ Continue /\ \E name \in Readings(Name(f)) : waiting' = Append(waiting, name)
      /\ UNCHANGED <<servers, queued, load, processing>>
  <2> DEFINE accept == /\ Continue
                       /\ \E name \in Readings(parsed[1]) : waiting' = Append(waiting, name)
                       /\ UNCHANGED <<servers, queued, load, processing>>
  <2>1. IF Len(parsed) = 1
        THEN accept \/ Throw \/ Crash
        ELSE \/ parsed[2] # <<>> /\ accept
             \/ parsed[2] # <<Size>> /\ Throw
    BY <1>1 DEF handle_request
  <2> HIDE DEF parsed
  <2>2. accept
    BY <1>2, <2>1
  <2> QED
    BY <1>2, <2>2
<1>5. waiting' = Append(waiting, Name(f))
  BY <1>4, OwnReading
<1> QED
  BY <1>1, <1>4, <1>5 DEF Continue

(* What handle_completion does when the file was given to a server. *)
LEMMA CompletionHandled ==
  ASSUME HandleLine, NEW f \in Files, Head(lines) = FinishedLine(f),
         Name(f) \in DOMAIN processing, NEW s, s = processing[Name(f)]
  PROVE  /\ load' = [load EXCEPT ![s] = @ - 1]
         /\ queued' = IF load[s] = 1 THEN [queued EXCEPT ![s] = @ + 1] ELSE queued
         /\ lines' = Tail(lines) /\ handled' = Append(handled, FinishedLine(f))
         /\ UNCHANGED <<stream, emulator, pc, nexts, outbox, buffer, spoiled,
                        servers, waiting, processing>>
<1>1. PICK name \in Readings(Name(f)) :
        /\ handle_completion(name) /\ handled' = Append(handled, <<Mark>> \o name)
        /\ UNCHANGED <<stream, emulator>>
  BY CompletionLines, HandleLineCases
<1>2. name = Name(f) /\ <<Mark>> \o name = FinishedLine(f)
  BY OwnReading, MarkedName DEF Name
<1> QED
  BY <1>1, <1>2 DEF handle_completion, Continue

-----------------------------------------------------------------------------
(***************************************************************************)
(* Files that wait, and files on a server.                                 *)
(***************************************************************************)
LEMMA FileSets ==
  ASSUME TypeOK
  PROVE  /\ Given \subseteq Files /\ Requested \subseteq Files /\ Completed \subseteq Files
         /\ \A f \in Files : f \in Given <=> Name(f) \in DOMAIN processing
         /\ \A f \in Files : f \in Requested <=> RequestLine(f) \in Range(handled)
         /\ \A f \in Files : f \in Completed <=> FinishedLine(f) \in Range(handled)
         /\ \A s : IsFiniteSet(OnServer(s)) /\ Cardinality(OnServer(s)) \in Nat
         /\ \A s : OnServer(s) = {} <=> Cardinality(OnServer(s)) = 0
         /\ IsFiniteSet(Idle) /\ Cardinality(Idle) \in Nat /\ (Idle = {} <=> Cardinality(Idle) = 0)
<1>1. /\ Given \subseteq Files /\ Requested \subseteq Files /\ Completed \subseteq Files
      /\ \A f \in Files : f \in Given <=> Name(f) \in DOMAIN processing
      /\ \A f \in Files : f \in Requested <=> RequestLine(f) \in Range(handled)
      /\ \A f \in Files : f \in Completed <=> FinishedLine(f) \in Range(handled)
  BY DEF Given, Requested, Completed
<1>2. IsFiniteSet(Files)
  BY CellTypes, FS_Interval DEF Files
<1>3. \A s : IsFiniteSet(OnServer(s))
  <2>1. \A s : OnServer(s) \subseteq Files
    BY <1>1 DEF OnServer
  <2> QED
    BY <1>2, <2>1, FS_Subset
<1>4. IsFiniteSet(Idle)
  <2>1. DOMAIN servers = 1 .. Len(servers) /\ Len(servers) \in Nat
    BY LenProperties DEF TypeOK
  <2>2. IsFiniteSet(DOMAIN servers)
    BY <2>1, FS_Interval
  <2> QED
    BY <2>2, FS_Subset DEF Idle
<1>5. /\ \A s : Cardinality(OnServer(s)) \in Nat
      /\ \A s : OnServer(s) = {} <=> Cardinality(OnServer(s)) = 0
  BY <1>3, FS_CardinalityType, FS_EmptySet
<1>6. Cardinality(Idle) \in Nat /\ (Idle = {} <=> Cardinality(Idle) = 0)
  BY <1>4, FS_CardinalityType, FS_EmptySet
<1> QED
  BY <1>1, <1>3, <1>4, <1>5, <1>6

LEMMA FileSetsNext ==
  ASSUME TypeOK'
  PROVE  /\ Given' \subseteq Files /\ Requested' \subseteq Files /\ Completed' \subseteq Files
         /\ \A f \in Files : f \in Given' <=> Name(f) \in DOMAIN processing'
         /\ \A f \in Files : f \in Requested' <=> RequestLine(f) \in Range(handled')
         /\ \A f \in Files : f \in Completed' <=> FinishedLine(f) \in Range(handled')
BY DEF Given, Requested, Completed

(* A completion is handled only of a finished file, which was given to a server. *)
LEMMA CompletedWereGiven ==
  ASSUME TypeOK, NamesFirst, Delivered, Written, Told
  PROVE  Completed \subseteq finished /\ finished \subseteq Given
<1>1. \A f \in Completed : f \in Files /\ FinishedLine(f) \in Range(sent)
  BY FileSets, HandledWasSent
<1> QED
  BY <1>1 DEF Written, Told

(* A set grows or shrinks by one element. *)
LEMMA CardinalityPlus ==
  ASSUME NEW S, IsFiniteSet(S), NEW e, e \notin S
  PROVE  Cardinality(S \cup {e}) = Cardinality(S) + 1
BY FS_AddElement

LEMMA CardinalityMinus ==
  ASSUME NEW S, IsFiniteSet(S), NEW e \in S
  PROVE  Cardinality(S \ {e}) = Cardinality(S) - 1
BY FS_RemoveElement

(* server->process_request and the map processing. *)
LEMMA GiveSome ==
  ASSUME TypeOK, TypeOK', Assigned, NEW i \in DOMAIN waiting, NEW s \in DOMAIN servers,
         Give(i, s), UNCHANGED handled
  PROVE  \E f \in Files :
           /\ f \in Requested /\ f \notin Given /\ waiting[i] = Name(f)
           /\ Given' = Given \cup {f} /\ processing'[Name(f)] = s
           /\ \A g \in Given : processing'[Name(g)] = processing[Name(g)]
           /\ Len(waiting') = Len(waiting) - 1
           /\ \A g \in Files : Name(g) \in Range(waiting') <=> Name(g) \in Range(waiting) /\ g # f
           /\ Assigned'
<1>1. waiting \in Seq(Seq(Cells)) /\ NoTwice(waiting)
  BY DEF TypeOK, Assigned
<1>2. PICK f \in Requested : waiting[i] = Name(f)
  BY DEF Assigned
<1>3. f \in Files /\ Name(f) \in Range(waiting)
  <2>1. waiting[i] \in Range(waiting)
    BY DEF Range
  <2> QED
    BY <1>2, <2>1, FileSets
<1>4. f \notin Given
  BY <1>3 DEF Assigned
<1>5. /\ waiting' = RemoveAt(waiting, i)
      /\ processing' = [n \in DOMAIN processing \cup {Name(f)} |->
                          IF n = Name(f) THEN s ELSE processing[n]]
  BY <1>2 DEF Give
<1>6. /\ Len(waiting') = Len(waiting) - 1 /\ NoTwice(waiting')
      /\ \A x : x \in Range(waiting') <=> x \in Range(waiting) /\ x # Name(f)
  BY <1>1, <1>2, <1>5, RangeRemove
<1>7. \A g : Name(g) = Name(f) => g = f
  BY NamesDiffer
<1>8. Given' = Given \cup {f}
  <2>1. \A g \in Files : g \in Given' <=> g \in Given \/ g = f
    BY <1>3, <1>5, <1>7, FileSets, FileSetsNext
  <2> QED
    BY <1>3, <2>1, FileSets, FileSetsNext
<1>9. processing'[Name(f)] = s /\ \A g \in Given : processing'[Name(g)] = processing[Name(g)]
  BY <1>4, <1>5, <1>7, FileSets
<1>10. Requested' = Requested
  BY DEF Requested
<1>11. Assigned'
  <2>1. \A g \in Files : Name(g) \in Range(waiting') <=> g \in Requested' \ Given'
    BY <1>6, <1>7, <1>8, <1>10 DEF Assigned
  <2>2. ASSUME NEW j \in DOMAIN waiting' PROVE \E g \in Requested' : waiting'[j] = Name(g)
    <3>1. waiting'[j] \in Range(waiting')
      BY DEF Range
    <3>2. waiting'[j] \in Range(waiting)
      BY <1>6, <3>1
    <3> QED
      BY <1>10, <3>2 DEF Assigned, Range
  <2> QED
    BY <1>2, <1>6, <1>8, <1>10, <2>1, <2>2 DEF Assigned
<1> QED
  BY <1>2, <1>3, <1>4, <1>6, <1>7, <1>8, <1>9, <1>11

LEMMA LoadType ==
  ASSUME TypeOK
  PROVE  /\ load \in [DOMAIN servers -> Int] /\ queued \in [DOMAIN servers -> Nat]
         /\ Idle = {s \in DOMAIN servers : queued[s] > 0}
         /\ \A f \in Given : processing[Name(f)] \in DOMAIN servers
         /\ DOMAIN waiting = 1 .. Len(waiting) /\ Len(waiting) \in Nat
         /\ (waiting = <<>> <=> Len(waiting) = 0)
<1>1. DOMAIN waiting = 1 .. Len(waiting) /\ Len(waiting) \in Nat /\ (waiting = <<>> <=> Len(waiting) = 0)
  BY LenProperties, EmptySeq DEF TypeOK
<1> QED
  BY <1>1 DEF TypeOK, Idle, Given

(* The counter of a server goes up with what it is given. *)
LEMMA LoadsUp ==
  ASSUME TypeOK, Loads, NEW s \in DOMAIN servers, NEW f \in Files,
         f \notin Given, f \notin Completed, UNCHANGED <<servers, handled>>,
         Given' = Given \cup {f}, processing'[Name(f)] = s,
         \A g \in Given : processing'[Name(g)] = processing[Name(g)],
         load' = [load EXCEPT ![s] = @ + 1]
  PROVE  /\ \A t \in DOMAIN servers' : load'[t] = Cardinality(OnServer(t)')
         /\ \A t \in DOMAIN servers : load'[t] = IF t = s THEN load[t] + 1 ELSE load[t]
         /\ \A t \in DOMAIN servers : load[t] \in Nat
<1>1. Completed' = Completed
  BY DEF Completed
<1>2. OnServer(s)' = OnServer(s) \cup {f} /\ f \notin OnServer(s)
  BY <1>1 DEF OnServer
<1>3. \A t : t # s => OnServer(t)' = OnServer(t)
  BY <1>1 DEF OnServer
<1>4. Cardinality(OnServer(s)') = Cardinality(OnServer(s)) + 1
  <2> DEFINE old == OnServer(s)
  <2>1. IsFiniteSet(old) /\ f \notin old
    BY <1>2, FileSets
  <2> HIDE DEF old
  <2>2. Cardinality(old \cup {f}) = Cardinality(old) + 1
    BY <2>1, CardinalityPlus
  <2> QED
    BY <1>2, <2>2 DEF old
<1>5. \A t \in DOMAIN servers : load[t] = Cardinality(OnServer(t)) /\ load[t] \in Nat
  BY FileSets DEF Loads
<1>6. \A t \in DOMAIN servers : load'[t] = IF t = s THEN load[t] + 1 ELSE load[t]
  BY LoadType
<1>7. ASSUME NEW t \in DOMAIN servers PROVE load'[t] = Cardinality(OnServer(t)')
  <2>1. CASE t = s
    BY <1>4, <1>5, <1>6, <2>1
  <2>2. CASE t # s
    <3>1. OnServer(t)' = OnServer(t)
      BY <1>3, <2>2
    <3> QED
      BY <1>5, <1>6, <2>2, <3>1
  <2> QED
    BY <2>1, <2>2
<1> QED
  BY <1>5, <1>6, <1>7

(* It goes down when a request is completed, and the server is queued when
   that was the last. *)
LEMMA LoadsDown ==
  ASSUME TypeOK, Loads, NEW f \in Given, f \notin Completed, NEW s, s = processing[Name(f)],
         UNCHANGED <<servers, processing>>, Completed' = Completed \cup {f},
         load' = [load EXCEPT ![s] = @ - 1],
         queued' = IF load[s] = 1 THEN [queued EXCEPT ![s] = @ + 1] ELSE queued
  PROVE  Loads' /\ Idle' \subseteq Idle \cup {s}
<1>1. Given' = Given /\ s \in DOMAIN servers
  BY LoadType DEF Given
<1>2. OnServer(s)' = OnServer(s) \ {f} /\ f \in OnServer(s)
  BY <1>1 DEF OnServer
<1>3. \A t : t # s => OnServer(t)' = OnServer(t)
  BY <1>1 DEF OnServer
<1>4. Cardinality(OnServer(s)') = Cardinality(OnServer(s)) - 1
  <2> DEFINE old == OnServer(s)
  <2>1. IsFiniteSet(old) /\ f \in old
    BY <1>2, FileSets
  <2> HIDE DEF old
  <2>2. Cardinality(old \ {f}) = Cardinality(old) - 1
    BY <2>1, CardinalityMinus
  <2> QED
    BY <1>2, <2>2 DEF old
<1>5. \A t \in DOMAIN servers : /\ load[t] = Cardinality(OnServer(t)) /\ load[t] \in Nat
                                /\ queued[t] = IF load[t] = 0 THEN 1 ELSE 0
  BY FileSets DEF Loads
<1>6. load[s] # 0
  BY <1>1, <1>2, <1>5, FileSets
<1>7. \A t \in DOMAIN servers :
        /\ load'[t] = IF t = s THEN load[t] - 1 ELSE load[t]
        /\ queued'[t] = IF t = s /\ load[t] = 1 THEN queued[t] + 1 ELSE queued[t]
  BY <1>1, LoadType
<1>8. \A t \in DOMAIN servers : queued'[t] = IF load'[t] = 0 THEN 1 ELSE 0
  BY <1>1, <1>5, <1>6, <1>7
<1>9. ASSUME NEW t \in DOMAIN servers PROVE load'[t] = Cardinality(OnServer(t)')
  <2>1. CASE t = s
    BY <1>4, <1>5, <1>7, <2>1
  <2>2. CASE t # s
    <3>1. OnServer(t)' = OnServer(t)
      BY <1>3, <2>2
    <3> QED
      BY <1>5, <1>7, <2>2, <3>1
  <2> QED
    BY <2>1, <2>2
<1>10. Loads'
  BY <1>8, <1>9 DEF Loads
<1>11. Idle' \subseteq Idle \cup {s}
  BY <1>7 DEF Idle
<1> QED
  BY <1>10, <1>11

(* Where no request is dispatched or completed, the counters stay right. *)
LEMMA LoadsSame ==
  ASSUME Loads, UNCHANGED <<servers, load, queued, processing>>, Completed' = Completed
  PROVE  Loads' /\ Idle' = Idle
<1>1. \A s : OnServer(s)' = OnServer(s)
  BY DEF OnServer, Given
<1>2. Idle' = Idle
  BY DEF Idle
<1> QED
  BY <1>1, <1>2 DEF Loads

-----------------------------------------------------------------------------
(***************************************************************************)
(* The emulator keeps the invariant.                                       *)
(***************************************************************************)
(* What does not depend on the stream. *)
LEMMA BalancerKept ==
  ASSUME Assigned, Loads, UNCHANGED <<handled, servers, load, queued, waiting, processing>>
  PROVE  /\ Assigned' /\ Loads' /\ Idle' = Idle
         /\ Given' = Given /\ Requested' = Requested /\ Completed' = Completed
<1>1. Given' = Given /\ Requested' = Requested /\ Completed' = Completed
  BY DEF Given, Requested, Completed
<1>2. Assigned'
  BY <1>1 DEF Assigned, NoTwice
<1> QED
  BY <1>1, <1>2, LoadsSame

LEMMA LineIsPiped ==
  ASSUME TypeOK, pc # "names", NamesFirst, Delivered,
         NEW line \in Lines, WriteLine(line)
  PROVE  NamesFirst' /\ Delivered'
<1> DEFINE p == Piped.pieces
           hl == handled \o lines
<1>1. line \in Seq(Cells) /\ \A i \in DOMAIN line : line[i] # End
  BY LinesWithoutEnd
<1>2. stream \in Seq(Cells) /\ End \in Cells /\ Parsed(stream, End).rest = <<>>
  BY CellTypes DEF TypeOK, Delivered, Piped
<1>3. /\ Parsed(stream \o line \o <<End>>, End).pieces = Append(Parsed(stream, End).pieces, line)
      /\ Parsed(stream \o line \o <<End>>, End).rest = <<>>
  BY <1>1, <1>2, ParsedLine
<1>4. /\ stream' = stream \o line \o <<End>> /\ sent' = Append(sent, line)
      /\ UNCHANGED <<announced, loop, balancer, handled, spoiled>>
  BY DEF WriteLine
<1>5. Piped'.pieces = Append(p, line) /\ Piped'.rest = <<>>
  BY <1>3, <1>4 DEF Piped
<1>6. hl \in Seq(Seq(Cells)) /\ p \in Seq(Seq(Cells)) /\ sent = hl \o p
  <2>1. handled \in Seq(Seq(Cells)) /\ lines \in Seq(Seq(Cells))
    BY DEF TypeOK
  <2>2. hl \in Seq(Seq(Cells))
    BY <2>1, ConcatProperties
  <2> QED
    BY <2>2, PipedType DEF Delivered
<1>7. hl' = hl
  BY <1>4 DEF loop
<1> HIDE DEF hl, p
<1>8. hl \o Append(p, line) = Append(hl \o p, line)
  BY <1>1, <1>6, ConcatAppend
<1>9. sent' = hl' \o Piped'.pieces
  BY <1>4, <1>5, <1>6, <1>7, <1>8
<1>10. Delivered'
  BY <1>4, <1>5, <1>9 DEF Delivered, loop, hl
<1>11. NamesFirst'
  BY <1>4 DEF NamesFirst, ServersKnown, loop, balancer
<1> QED
  BY <1>10, <1>11

LEMMA SubmitDelivery ==
  ASSUME TypeOK, DeliveryInv, NamesOnTime, Submit
  PROVE  DeliveryInv'
<1> DEFINE n == submitted + 1
<1>1. /\ NamesFirst /\ Delivered /\ Written /\ Assigned /\ Told /\ Loads /\ EnoughNexts
      /\ pc # "names"
  BY DEF DeliveryInv, Submit
<1>2. n \in Files /\ submitted \in Nat /\ sent \in Seq(Lines)
  BY CellTypes DEF Submit, TypeOK, Files
<1>3. /\ submitted' = n /\ WriteLine(RequestLine(n)) /\ sent' = Append(sent, RequestLine(n))
      /\ UNCHANGED <<announced, executing, finished, loop, balancer, handled, spoiled>>
  BY DEF Submit, WriteLine
<1>4. RequestLine(n) \in Lines /\ RequestLine(n) \notin Range(sent)
  <2>1. ~(n <= submitted)
    BY <1>2
  <2> QED
    BY <1>1, <1>2, <2>1, LineTypes DEF Written
<1>5. NamesFirst' /\ Delivered'
  BY <1>1, <1>3, <1>4, LineIsPiped
<1>6. /\ NoTwice(sent')
      /\ \A x : x \in Range(sent') <=> x \in Range(sent) \/ x = RequestLine(n)
  <2> DEFINE line == RequestLine(n)
  <2>1. line \in Lines /\ line \notin Range(sent)
    BY <1>4
  <2> HIDE DEF line
  <2>2. /\ \A x : x \in Range(Append(sent, line)) <=> x \in Range(sent) \/ x = line
        /\ NoTwice(Append(sent, line))
    BY <1>1, <1>2, <2>1, RangeAppend DEF Written
  <2> QED
    BY <1>3, <2>2 DEF line
<1>7. Written'
  <2>1. \A f \in Files : RequestLine(f) \in Range(sent') <=> f <= submitted'
    <3>1. \A f \in Files : f <= n <=> f <= submitted \/ f = n
      BY <1>2 DEF Files
    <3> QED
      BY <1>1, <1>3, <1>6, <3>1, LinesDiffer DEF Written
  <2>2. \A f \in Files : FinishedLine(f) \in Range(sent') <=> f \in finished'
    BY <1>1, <1>3, <1>6, LinesDiffer DEF Written
  <2> QED
    BY <1>6, <2>1, <2>2 DEF Written
<1>8. Assigned' /\ Loads' /\ Idle' = Idle /\ Given' = Given
  BY <1>1, <1>3, BalancerKept DEF balancer
<1>9. Told'
  BY <1>1, <1>3, <1>8 DEF Told, loop, balancer
<1>10. EnoughNexts'
  BY <1>1, <1>3, <1>8 DEF EnoughNexts, loop, balancer
<1> QED
  BY <1>5, <1>7, <1>8, <1>9, <1>10 DEF DeliveryInv

LEMMA FinishDelivery ==
  ASSUME TypeOK, Starting, Clients, DeliveryInv, NEW g \in Files, Finish(g)
  PROVE  DeliveryInv'
<1>1. /\ NamesFirst /\ Delivered /\ Written /\ Assigned /\ Told /\ Loads /\ EnoughNexts
      /\ g \in executing /\ g \notin finished /\ pc # "names"
  BY DEF DeliveryInv, Finish, Starting, Clients
<1>2. sent \in Seq(Lines)
  BY DEF TypeOK
<1>3. /\ executing' = executing \ {g} /\ finished' = finished \cup {g}
      /\ WriteLine(FinishedLine(g)) /\ sent' = Append(sent, FinishedLine(g))
      /\ UNCHANGED <<announced, submitted, loop, balancer, handled, spoiled>>
  BY DEF Finish, WriteLine
<1>4. FinishedLine(g) \in Lines /\ FinishedLine(g) \notin Range(sent)
  BY <1>1, LineTypes DEF Written
<1>5. NamesFirst' /\ Delivered'
  BY <1>1, <1>3, <1>4, LineIsPiped
<1>6. /\ NoTwice(sent')
      /\ \A x : x \in Range(sent') <=> x \in Range(sent) \/ x = FinishedLine(g)
  <2> DEFINE line == FinishedLine(g)
  <2>1. line \in Lines /\ line \notin Range(sent)
    BY <1>4
  <2> HIDE DEF line
  <2>2. /\ \A x : x \in Range(Append(sent, line)) <=> x \in Range(sent) \/ x = line
        /\ NoTwice(Append(sent, line))
    BY <1>1, <1>2, <2>1, RangeAppend DEF Written
  <2> QED
    BY <1>3, <2>2 DEF line
<1>7. Written'
  <2>1. \A f \in Files : RequestLine(f) \in Range(sent') <=> f <= submitted'
    BY <1>1, <1>3, <1>6, LinesDiffer DEF Written
  <2>2. \A f \in Files : FinishedLine(f) \in Range(sent') <=> f \in finished'
    BY <1>1, <1>3, <1>6, LinesDiffer DEF Written
  <2> QED
    BY <1>6, <2>1, <2>2 DEF Written
<1>8. Assigned' /\ Loads' /\ Idle' = Idle /\ Given' = Given
  BY <1>1, <1>3, BalancerKept DEF balancer
<1>9. executing' \cup finished' = executing \cup finished
  BY <1>1, <1>3
<1>10. Told'
  BY <1>1, <1>3, <1>8, <1>9 DEF Told, loop, balancer
<1>11. EnoughNexts'
  BY <1>1, <1>3, <1>8 DEF EnoughNexts, loop, balancer
<1> QED
  BY <1>5, <1>7, <1>8, <1>10, <1>11 DEF DeliveryInv

LEMMA AnnounceDelivery ==
  ASSUME TypeOK, Clients, DeliveryInv, Announce
  PROVE  DeliveryInv'
<1>1. /\ NamesFirst /\ Delivered /\ Written /\ Assigned /\ Told /\ Loads /\ EnoughNexts
      /\ pc = "names"
  BY DEF DeliveryInv, NamesFirst, Announce
<1>2. /\ stream' = NamesMessage /\ announced'
      /\ UNCHANGED <<submitted, executing, finished, sent, loop, balancer, handled, spoiled>>
  BY AnnouncedFirst DEF Announce
<1>3. Assigned' /\ Loads' /\ Idle' = Idle /\ Given' = Given
  BY <1>1, <1>2, BalancerKept DEF balancer
<1>4. NamesFirst' /\ Delivered'
  BY <1>1, <1>2 DEF NamesFirst, Delivered, ServersKnown, loop, balancer
<1>5. Written' /\ Told' /\ EnoughNexts'
  BY <1>1, <1>2, <1>3 DEF Written, Told, EnoughNexts, loop, balancer
<1> QED
  BY <1>3, <1>4, <1>5 DEF DeliveryInv

-----------------------------------------------------------------------------
(***************************************************************************)
(* Reads keep the invariant.                                               *)
(***************************************************************************)
LEMMA NoEndInNames == \A i \in DOMAIN NamesMessage : NamesMessage[i] # End
<1>1. \A i \in 1 .. 2 * NumServers : NamesMessage[i] = Comma \/ \E s : NamesMessage[i] = ServerName(s)
  BY DEF NamesMessage
<1>2. DOMAIN NamesMessage = 1 .. 2 * NumServers
  BY DEF NamesMessage
<1> QED
  BY <1>1, <1>2, CellsDiffer

(* Nothing is piped when the stream is empty. *)
LEMMA NothingPiped ==
  stream = <<>> => Piped.pieces = <<>> /\ Piped.rest = <<>>
BY ParsedEmpty DEF Piped, Nothing

LEMMA NothingPipedNext ==
  stream' = <<>> => Piped'.pieces = <<>> /\ Piped'.rest = <<>>
BY ParsedEmpty DEF Piped, Nothing

LEMMA ReadNamesDelivery ==
  ASSUME NamesOnTime, TypeOK, Starting, Clients, DeliveryInv, RoomLeft, ReadNames
  PROVE  DeliveryInv'
<1>1. /\ NamesFirst /\ Delivered /\ Written /\ Assigned /\ Told /\ pc = "names"
  BY DEF DeliveryInv, ReadNames
<1>2. /\ stream = NamesMessage /\ stream' = <<>> /\ pc' = "read"
      /\ queued' = [s \in DOMAIN servers' |-> 1] /\ load' = [s \in DOMAIN servers' |-> 0]
      /\ UNCHANGED <<emulator, lines, nexts, outbox, waiting, processing, handled, spoiled>>
  BY DEF ReadNames
<1>3. /\ sent = <<>> /\ handled = <<>> /\ waiting = <<>> /\ lines = <<>> /\ outbox = <<>>
      /\ executing = {} /\ finished = {} /\ DOMAIN processing = {}
  BY <1>1 DEF NamesFirst, Delivered, Starting
<1>4. NamesFirst'
  <2>1. ServersKnown'
    <3>1. [Next]_vars
      BY DEF Next, Loop
    <3> QED
      BY <1>1, <3>1, NextServersKnown DEF NamesFirst
  <2>2. announced'
    <3>1. NamesMessage # <<>>
      BY LineTypes, CellTypes, EmptySeq
    <3>2. announced
      BY <1>2, <3>1 DEF Clients
    <3> QED
      BY <1>2, <3>2 DEF emulator
  <2> QED
    BY <1>2, <2>1, <2>2 DEF NamesFirst
<1>5. Delivered'
  <2>1. buffer' = NamesMessage
    BY FirstRead
  <2>2. Len(buffer') < BufferSize /\ \A i \in DOMAIN buffer' : buffer'[i] # End
    BY <1>2, <2>1, NoEndInNames DEF RoomLeft
  <2>3. sent' = handled' \o lines' \o Piped'.pieces /\ Piped'.rest = <<>>
    <3>1. <<>> \o <<>> = <<>>
      BY EmptySeq, ConcatEmptySeq
    <3> QED
      BY <1>2, <1>3, <3>1, NothingPipedNext DEF emulator
  <2> QED
    BY <1>1, <1>2, <1>3, <2>2, <2>3 DEF Delivered
<1>6. /\ Given = {} /\ Given' = {} /\ Requested' = Requested
  BY <1>2, <1>3 DEF Given, Requested
<1>7. Written'
  BY <1>1, <1>2 DEF Written, emulator
<1>8. Assigned'
  BY <1>1, <1>2, <1>6 DEF Assigned
<1>9. Told'
  BY <1>1, <1>2, <1>3, <1>6 DEF Told, emulator
<1>10. Loads'
  <2>1. \A s : OnServer(s)' = {}
    BY <1>6 DEF OnServer
  <2>2. Cardinality({}) = 0
    BY FS_EmptySet
  <2> QED
    BY <1>2, <2>1, <2>2 DEF Loads
<1>11. EnoughNexts'
  BY <1>2, <1>3 DEF EnoughNexts
<1> QED
  BY <1>4, <1>5, <1>7, <1>8, <1>9, <1>10, <1>11 DEF DeliveryInv

(* A whole read finds the lines of the stream, and nothing else. *)
LEMMA WholeRead ==
  ASSUME WholeReads, TypeOK, Delivered, RoomLeft, ReadLines
  PROVE  stream' = <<>> /\ lines' = Piped.pieces /\ spoiled' = spoiled
<1>1. PICK k \in 1 .. BufferSize : ReadInto(k)
  BY DEF ReadLines
<1> DEFINE tail == SubSeq(buffer, k + 1, Len(buffer))
<1>0. PICK n \in Nat : n = Len(stream) /\ stream \in Seq(Cells)
  BY LenProperties DEF TypeOK
<1>2. k = n /\ n \in Nat \ {0} /\ n < BufferSize
  <2>1. k \in 1 .. n /\ (k = n \/ k = BufferSize)
    BY <1>0, <1>1 DEF ReadInto, ReadBeforeOld
  <2>2. n < BufferSize /\ BufferSize \in Nat
    BY <1>0, CellTypes DEF RoomLeft
  <2> QED
    BY <2>1, <2>2
<1>a. buffer' = SubSeq(stream, 1, k) \o tail
  <2>1. k # BufferSize
    BY <1>2
  <2> QED
    BY <1>1, <2>1 DEF ReadInto, ReadBeforeOld
<1>3. /\ stream' \in Seq(Cells) /\ Len(stream') = Len(stream) - k
      /\ buffer' \in Seq(Cells) /\ Len(buffer') = IF Len(buffer) > k THEN Len(buffer) ELSE k
  <2>1. k # BufferSize
    BY <1>2
  <2> QED
    BY <1>1, <2>1, ReadIntoCells DEF ReadsWhole, ReadsPiece
<1>4. stream' = <<>>
  BY <1>0, <1>2, <1>3, EmptySeq
<1>5. /\ buffer \in Seq(Cells) /\ Len(buffer) \in Nat /\ Len(buffer) < BufferSize
      /\ \A i \in 1 .. Len(buffer) : buffer[i] # End /\ buffer[i] \in Cells
  <2>1. buffer \in Seq(Cells)
    BY DEF TypeOK
  <2>2. Len(buffer) \in Nat /\ DOMAIN buffer = 1 .. Len(buffer)
    BY <2>1, LenProperties
  <2>3. \A i \in 1 .. Len(buffer) : buffer[i] \in Cells
    BY <2>1, ElementOfSeq
  <2> QED
    BY <2>1, <2>2, <2>3 DEF Delivered, ReadLines
<1>6. tail \in Seq(Cells) /\ \A i \in DOMAIN tail : tail[i] # End
  <2>0. PICK m \in Nat : m = Len(buffer)
    BY <1>5
  <2>1. k + 1 \in Int /\ m \in Int /\ \A i \in k + 1 .. m : buffer[i] \in Cells
    BY <1>2, <1>5, <2>0
  <2>2. /\ tail \in Seq(Cells)
        /\ Len(tail) = IF k + 1 <= m THEN m - (k + 1) + 1 ELSE 0
        /\ \A i \in 1 .. m - (k + 1) + 1 : tail[i] = buffer[(k + 1) + i - 1]
    BY <2>0, <2>1, SubSeqProperties
  <2> HIDE DEF tail
  <2>3. DOMAIN tail = 1 .. Len(tail)
    BY <2>2, LenProperties
  <2>4. ASSUME NEW i \in DOMAIN tail PROVE tail[i] # End
    <3>1. i \in 1 .. m - (k + 1) + 1 /\ (k + 1) + i - 1 \in 1 .. m
      BY <1>2, <2>0, <2>2, <2>3
    <3> QED
      BY <1>5, <2>0, <2>2, <3>1
  <2> QED
    BY <2>2, <2>4
<1>7. buffer' = stream \o tail
  <2>1. SubSeq(stream, 1, k) = stream
    <3> DEFINE all == SubSeq(stream, 1, k)
    <3>1. \A i \in 1 .. n : stream[i] \in Cells
      BY <1>0, ElementOfSeq
    <3>2. /\ all \in Seq(Cells)
          /\ Len(all) = IF 1 <= n THEN n - 1 + 1 ELSE 0
          /\ \A i \in 1 .. n - 1 + 1 : all[i] = stream[1 + i - 1]
      BY <1>0, <1>2, <3>1, SubSeqProperties
    <3> HIDE DEF all
    <3>3. Len(all) = n
      BY <1>2, <3>2
    <3>4. ASSUME NEW i \in 1 .. n PROVE all[i] = stream[i]
      <4>1. i \in 1 .. n - 1 + 1 /\ 1 + i - 1 = i
        OBVIOUS
      <4> QED
        BY <3>2, <4>1
    <3> QED
      BY <1>0, <3>2, <3>3, <3>4, SeqEqual DEF all
  <2> QED
    BY <1>a, <2>1
<1>8. Texts(buffer') = {buffer'}
  <2>1. Len(buffer') < BufferSize
    BY <1>2, <1>3, <1>5
  <2> QED
    BY <2>1 DEF Texts
<1>9. lines' = Parsed(buffer', End).pieces /\ spoiled' = (spoiled \/ buffer' # buffer')
  BY <1>8 DEF ReadLines, parse_with_delimiter
<1> HIDE DEF tail
<1>10. Parsed(stream \o tail, End) = [pieces |-> Piped.pieces, rest |-> Piped.rest \o tail]
  <2>1. End \in Cells
    BY CellTypes
  <2> QED
    BY <1>0, <1>6, <2>1, ParsedTail DEF Piped
<1>11. lines' = Piped.pieces
  BY <1>7, <1>9, <1>10
<1>12. spoiled' = spoiled
  BY <1>9 DEF TypeOK
<1> QED
  BY <1>4, <1>11, <1>12

LEMMA ReadLinesDelivery ==
  ASSUME WholeReads, TypeOK, TypeOK', DeliveryInv, RoomLeft, ReadLines
  PROVE  DeliveryInv'
<1>1. /\ NamesFirst /\ Delivered /\ Written /\ Assigned /\ Told /\ Loads /\ EnoughNexts
      /\ pc = "read"
  BY DEF DeliveryInv, ReadLines
<1>2. /\ stream' = <<>> /\ lines' = Piped.pieces /\ nexts' = Len(lines') /\ pc' = "batch"
      /\ UNCHANGED <<emulator, outbox, balancer, handled, spoiled>>
  BY <1>1, WholeRead DEF ReadLines, EventCount
<1>3. Delivered'
  <2> DEFINE p == Piped.pieces
  <2>1. sent = handled \o lines \o p /\ lines = <<>> /\ outbox = <<>>
    BY <1>1 DEF Delivered
  <2>2. handled \in Seq(Seq(Cells)) /\ p \in Seq(Seq(Cells))
    BY PipedType DEF TypeOK
  <2>3. lines' = p /\ Piped'.pieces = <<>> /\ Piped'.rest = <<>>
    BY <1>2, NothingPipedNext
  <2> HIDE DEF p
  <2>4. handled \o <<>> = handled /\ handled \o p \in Seq(Seq(Cells))
    BY <2>2, ConcatEmptySeq, ConcatProperties
  <2>5. (handled \o p) \o <<>> = handled \o p
    BY <2>4, ConcatEmptySeq
  <2>6. sent' = handled' \o lines' \o Piped'.pieces
    BY <1>2, <2>1, <2>3, <2>4, <2>5 DEF emulator
  <2> QED
    BY <1>1, <1>2, <2>3, <2>6 DEF Delivered
<1>4. NamesFirst'
  BY <1>1, <1>2 DEF NamesFirst, ServersKnown, emulator, balancer
<1>5. Assigned' /\ Loads' /\ Idle' = Idle /\ Given' = Given
  BY <1>1, <1>2, BalancerKept DEF balancer
<1>6. Written'
  BY <1>1, <1>2 DEF Written, emulator
<1>7. Told'
  BY <1>1, <1>2, <1>5 DEF Told, emulator, balancer
<1>8. EnoughNexts'
  <2>1. Len(lines') \in Nat /\ waiting' = waiting
    BY <1>2, LenProperties DEF TypeOK, balancer
  <2>2. CASE Idle = {}
    BY <1>2, <1>5, <2>1, <2>2, FileSets DEF EnoughNexts
  <2>3. CASE waiting = <<>>
    BY <1>2, <2>1, <2>3, LoadType DEF EnoughNexts
  <2> QED
    BY <1>1, <2>2, <2>3 DEF EnoughNexts
<1> QED
  BY <1>3, <1>4, <1>5, <1>6, <1>7, <1>8 DEF DeliveryInv

-----------------------------------------------------------------------------
(***************************************************************************)
(* Lines that are handled keep the invariant.                              *)
(***************************************************************************)
LEMMA LineMoves ==
  ASSUME TypeOK, NamesFirst, Delivered, pc = "batch", lines # <<>>,
         handled' = Append(handled, Head(lines)), lines' = Tail(lines),
         UNCHANGED <<pc, stream, emulator, outbox, buffer, spoiled>>
  PROVE  /\ Delivered'
         /\ Len(lines) \in Nat \ {0} /\ Len(lines') = Len(lines) - 1
         /\ \A x : x \in Range(handled') <=> x \in Range(handled) \/ x = Head(lines)
<1> DEFINE line == Head(lines)
<1>1. handled \in Seq(Seq(Cells)) /\ lines \in Seq(Seq(Cells)) /\ line \in Seq(Cells)
  BY TailType DEF TypeOK
<1>2. Append(handled, line) \o Tail(lines) = handled \o lines
  BY <1>1, HeadMoves
<1>3. handled' \o lines' = handled \o lines
  BY <1>2
<1>4. sent' = handled' \o lines' \o Piped'.pieces /\ Piped'.rest = <<>>
  BY <1>3 DEF Delivered, Piped, emulator
<1>5. Delivered'
  BY <1>4 DEF Delivered
<1>6. Len(lines) \in Nat \ {0} /\ Len(Tail(lines)) = Len(lines) - 1
  BY <1>1, HeadTailProperties, EmptySeq, LenProperties
<1> HIDE DEF line
<1>7. \A x : x \in Range(Append(handled, line)) <=> x \in Range(handled) \/ x = line
  BY <1>1, RangeAppend
<1> QED
  BY <1>5, <1>6, <1>7 DEF line

LEMMA RequestDelivery ==
  ASSUME TypeOK, TypeOK', DeliveryInv, HandleLine, NEW f \in Files, Head(lines) = RequestLine(f)
  PROVE  DeliveryInv'
<1>1. /\ NamesFirst /\ Delivered /\ Written /\ Assigned /\ Told /\ Loads /\ EnoughNexts
      /\ pc = "batch" /\ lines # <<>>
  BY DEF DeliveryInv, HandleLine
<1>2. /\ waiting' = Append(waiting, Name(f))
      /\ lines' = Tail(lines) /\ handled' = Append(handled, RequestLine(f))
      /\ UNCHANGED <<stream, emulator, pc, nexts, outbox, buffer, spoiled,
                     servers, queued, load, processing>>
  BY RequestHandled
<1>3. /\ Delivered' /\ Len(lines) \in Nat \ {0} /\ Len(lines') = Len(lines) - 1
      /\ \A x : x \in Range(handled') <=> x \in Range(handled) \/ x = RequestLine(f)
  BY <1>1, <1>2, LineMoves
<1>4. RequestLine(f) \notin Range(handled)
  BY <1>1, NextLine
<1>5. f \notin Requested /\ f \notin Given /\ Name(f) \notin Range(waiting)
  BY <1>1, <1>4, FileSets DEF Assigned
<1>6. /\ Given' = Given /\ Completed' = Completed
      /\ \A g \in Files : g \in Requested' <=> g \in Requested \/ g = f
  <2>1. Given' = Given
    BY <1>2 DEF Given
  <2>2. \A g \in Files : g \in Completed' <=> g \in Completed
    BY <1>3, LinesDiffer, FileSets, FileSetsNext
  <2>3. Completed' = Completed
    BY <2>2, FileSets, FileSetsNext
  <2>4. \A g \in Files : g \in Requested' <=> g \in Requested \/ g = f
    BY <1>3, LinesDiffer, FileSets, FileSetsNext
  <2> QED
    BY <2>1, <2>3, <2>4
<1>7. /\ NoTwice(waiting') /\ Len(waiting') = Len(waiting) + 1
      /\ \A x : x \in Range(waiting') <=> x \in Range(waiting) \/ x = Name(f)
  <2> DEFINE name == Name(f)
  <2>1. waiting \in Seq(Seq(Cells)) /\ name \in Seq(Cells)
    BY NamesDiffer DEF TypeOK
  <2>2. waiting' = Append(waiting, name) /\ name \notin Range(waiting)
    BY <1>2, <1>5
  <2> HIDE DEF name
  <2>3. /\ \A x : x \in Range(Append(waiting, name)) <=> x \in Range(waiting) \/ x = name
        /\ NoTwice(Append(waiting, name))
    BY <1>1, <2>1, <2>2, RangeAppend DEF Assigned
  <2>4. Len(Append(waiting, name)) = Len(waiting) + 1
    BY <2>1, AppendProperties
  <2> QED
    BY <2>2, <2>3, <2>4 DEF name
<1>8. Assigned'
  <2>1. \A g \in Files : Name(g) \in Range(waiting') <=> g \in Requested' \ Given'
    BY <1>1, <1>5, <1>6, <1>7, NamesDiffer DEF Assigned
  <2>2. ASSUME NEW j \in DOMAIN waiting' PROVE \E g \in Requested' : waiting'[j] = Name(g)
    <3>1. waiting'[j] \in Range(waiting')
      BY DEF Range
    <3>2. waiting'[j] = Name(f) \/ waiting'[j] \in Range(waiting)
      BY <1>7, <3>1
    <3>3. \A x \in Range(waiting) : \E g \in Requested : x = Name(g)
      BY <1>1 DEF Assigned, Range
    <3>4. f \in Requested' /\ Requested \subseteq Requested'
      BY <1>6, FileSets
    <3> QED
      BY <3>2, <3>3, <3>4
  <2> QED
    BY <1>1, <1>6, <1>7, <2>1, <2>2, FileSets DEF Assigned
<1>9. Loads' /\ Idle' = Idle
  BY <1>1, <1>2, <1>6, LoadsSame
<1>10. Told'
  BY <1>1, <1>2, <1>6 DEF Told, emulator
<1>11. Written' /\ NamesFirst'
  BY <1>1, <1>2 DEF Written, NamesFirst, ServersKnown, emulator
<1>12. EnoughNexts'
  <2>1. nexts' = nexts /\ nexts \in Nat /\ pc' = "batch" /\ Len(waiting) \in Nat
    BY <1>1, <1>2, LoadType DEF TypeOK
  <2>2. nexts - Len(lines) >= Cardinality(Idle) \/ nexts - Len(lines) >= Len(waiting)
    BY <1>1 DEF EnoughNexts
  <2>3. nexts' - Len(lines') >= Cardinality(Idle') \/ nexts' - Len(lines') >= Len(waiting')
    BY <1>3, <1>7, <1>9, <2>1, <2>2, FileSets
  <2> QED
    BY <2>1, <2>3 DEF EnoughNexts
<1> QED
  BY <1>3, <1>8, <1>9, <1>10, <1>11, <1>12 DEF DeliveryInv

LEMMA CompletionDelivery ==
  ASSUME TypeOK, TypeOK', DeliveryInv, HandleLine, NEW f \in Files, Head(lines) = FinishedLine(f)
  PROVE  DeliveryInv'
<1>1. /\ NamesFirst /\ Delivered /\ Written /\ Assigned /\ Told /\ Loads /\ EnoughNexts
      /\ pc = "batch" /\ lines # <<>>
  BY DEF DeliveryInv, HandleLine
<1>2. FinishedLine(f) \in Range(sent) /\ FinishedLine(f) \notin Range(handled)
  BY <1>1, NextLine
<1>3. f \in Given /\ f \notin Completed /\ Name(f) \in DOMAIN processing
  BY <1>1, <1>2, FileSets DEF Written, Told
<1>4. PICK s : s = processing[Name(f)]
  OBVIOUS
<1>5. /\ load' = [load EXCEPT ![s] = @ - 1]
      /\ queued' = IF load[s] = 1 THEN [queued EXCEPT ![s] = @ + 1] ELSE queued
      /\ lines' = Tail(lines) /\ handled' = Append(handled, FinishedLine(f))
      /\ UNCHANGED <<stream, emulator, pc, nexts, outbox, buffer, spoiled,
                     servers, waiting, processing>>
  BY <1>3, <1>4, CompletionHandled
<1>6. /\ Delivered' /\ Len(lines) \in Nat \ {0} /\ Len(lines') = Len(lines) - 1
      /\ \A x : x \in Range(handled') <=> x \in Range(handled) \/ x = FinishedLine(f)
  BY <1>1, <1>5, LineMoves
<1>7. Given' = Given /\ Requested' = Requested /\ Completed' = Completed \cup {f}
  <2>1. Given' = Given
    BY <1>5 DEF Given
  <2>2. \A g \in Files : g \in Requested' <=> g \in Requested
    BY <1>6, LinesDiffer, FileSets, FileSetsNext
  <2>3. \A g \in Files : g \in Completed' <=> g \in Completed \/ g = f
    BY <1>6, LinesDiffer, FileSets, FileSetsNext
  <2> QED
    BY <2>1, <2>2, <2>3, FileSets, FileSetsNext
<1>8. Loads' /\ Idle' \subseteq Idle \cup {s}
  BY <1>1, <1>3, <1>4, <1>5, <1>7, LoadsDown
<1>9. Assigned'
  BY <1>1, <1>5, <1>7 DEF Assigned, NoTwice
<1>10. Told'
  BY <1>1, <1>5, <1>7 DEF Told, emulator
<1>11. Written' /\ NamesFirst'
  BY <1>1, <1>5 DEF Written, NamesFirst, ServersKnown, emulator
<1>12. EnoughNexts'
  <2>1. nexts' = nexts /\ nexts \in Nat /\ pc' = "batch" /\ Len(waiting) \in Nat /\ waiting' = waiting
    BY <1>1, <1>5, LoadType DEF TypeOK
  <2>2. nexts - Len(lines) >= Cardinality(Idle) \/ nexts - Len(lines) >= Len(waiting)
    BY <1>1 DEF EnoughNexts
  <2>3. Cardinality(Idle') <= Cardinality(Idle) + 1 /\ Cardinality(Idle') \in Nat
    <3>1. IsFiniteSet(Idle \cup {s}) /\ Cardinality(Idle \cup {s}) <= Cardinality(Idle) + 1
          /\ Cardinality(Idle \cup {s}) \in Nat
      BY FileSets, FS_AddElement, FS_CardinalityType
    <3>2. Cardinality(Idle') <= Cardinality(Idle \cup {s}) /\ Cardinality(Idle') \in Nat
      BY <1>8, <3>1, FS_Subset, FS_CardinalityType
    <3> QED
      BY <3>1, <3>2, FileSets
  <2>4. nexts' - Len(lines') >= Cardinality(Idle') \/ nexts' - Len(lines') >= Len(waiting')
    BY <1>6, <2>1, <2>2, <2>3, FileSets
  <2> QED
    BY <2>1, <2>4 DEF EnoughNexts
<1> QED
  BY <1>6, <1>8, <1>9, <1>10, <1>11, <1>12 DEF DeliveryInv

LEMMA HandleLineDelivery ==
  ASSUME TypeOK, TypeOK', DeliveryInv, HandleLine
  PROVE  DeliveryInv'
<1>1. Head(lines) \in Lines
  BY NextLine DEF DeliveryInv, HandleLine
<1>2. \E f \in Files : Head(lines) = RequestLine(f) \/ Head(lines) = FinishedLine(f)
  BY <1>1 DEF Lines
<1> QED
  BY <1>2, RequestDelivery, CompletionDelivery

-----------------------------------------------------------------------------
(***************************************************************************)
(* Dispatches keep the invariant.                                          *)
(***************************************************************************)
LEMMA HandleNextDelivery ==
  ASSUME TypeOK, TypeOK', DeliveryInv, HandleNext
  PROVE  DeliveryInv'
<1>1. /\ NamesFirst /\ Delivered /\ Written /\ Assigned /\ Told /\ Loads /\ EnoughNexts
      /\ pc = "batch" /\ lines = <<>> /\ nexts > 0 /\ nexts' = nexts - 1
      /\ UNCHANGED <<stream, emulator, pc, buffer, lines, servers, handled, spoiled>>
  BY DEF DeliveryInv, HandleNext
<1>2. Written'
  BY <1>1 DEF Written, emulator
<1>3. Delivered'
  BY <1>1 DEF Delivered, Piped, emulator
<1>4. NamesFirst'
  BY <1>1 DEF NamesFirst, ServersKnown, emulator
<1>5. nexts \in Nat /\ Len(lines) = 0 /\ Len(waiting) \in Nat /\ Cardinality(Idle) \in Nat
  BY <1>1, LoadType, FileSets, EmptySeq DEF TypeOK
<1>6. nexts >= Cardinality(Idle) \/ nexts >= Len(waiting)
  BY <1>1, <1>5 DEF EnoughNexts
<1>7. CASE (Idle = {} \/ waiting = <<>>) /\ UNCHANGED <<queued, load, waiting, processing, outbox>>
  <2>1. Assigned' /\ Loads' /\ Idle' = Idle /\ Given' = Given
    BY <1>1, <1>7, BalancerKept
  <2>2. Told'
    BY <1>1, <1>7, <2>1 DEF Told, emulator
  <2>3. Cardinality(Idle) = 0 \/ Len(waiting) = 0
    BY <1>7, FileSets, LoadType
  <2>4. EnoughNexts'
    BY <1>1, <1>5, <1>7, <2>1, <2>3 DEF EnoughNexts
  <2> QED
    BY <1>2, <1>3, <1>4, <2>1, <2>2, <2>4 DEF DeliveryInv
<1>8. ASSUME NEW i \in DOMAIN waiting, NEW s \in Idle, Give(i, s),
             queued' = [queued EXCEPT ![s] = @ - 1],
             outbox' = Append(outbox, <<servers[s], waiting[i]>>)
      PROVE  DeliveryInv'
  <2>1. s \in DOMAIN servers /\ queued[s] > 0 /\ load' = [load EXCEPT ![s] = @ + 1]
    BY <1>8 DEF Idle, Give
  <2>2. PICK f \in Files :
           /\ f \in Requested /\ f \notin Given /\ waiting[i] = Name(f)
           /\ Given' = Given \cup {f} /\ processing'[Name(f)] = s
           /\ \A g \in Given : processing'[Name(g)] = processing[Name(g)]
           /\ Len(waiting') = Len(waiting) - 1
           /\ Assigned'
    BY <1>1, <1>8, <2>1, GiveSome
  <2>3. f \notin Completed
    BY <1>1, <2>2, CompletedWereGiven
  <2>4. /\ \A t \in DOMAIN servers' : load'[t] = Cardinality(OnServer(t)')
        /\ \A t \in DOMAIN servers : load'[t] = IF t = s THEN load[t] + 1 ELSE load[t]
        /\ \A t \in DOMAIN servers : load[t] \in Nat
    BY <1>1, <2>1, <2>2, <2>3, LoadsUp
  <2>5. \A t \in DOMAIN servers : queued'[t] = IF t = s THEN queued[t] - 1 ELSE queued[t]
    BY <1>8, <2>1, LoadType
  <2>6. \A t \in DOMAIN servers : queued[t] = IF load[t] = 0 THEN 1 ELSE 0
    BY <1>1 DEF Loads
  <2>7. Loads'
    <3>1. \A t \in DOMAIN servers : queued'[t] = IF load'[t] = 0 THEN 1 ELSE 0
      BY <2>1, <2>4, <2>5, <2>6
    <3> QED
      BY <1>1, <2>4, <3>1 DEF Loads
  <2>8. Idle' = Idle \ {s}
    <3>1. \A t \in DOMAIN servers : queued'[t] > 0 <=> queued[t] > 0 /\ t # s
      BY <2>1, <2>5, <2>6
    <3> QED
      BY <1>1, <3>1 DEF Idle
  <2>9. EnoughNexts'
    <3>1. Cardinality(Idle') = Cardinality(Idle) - 1
      BY <1>8, <2>8, FileSets, CardinalityMinus
    <3> QED
      BY <1>1, <1>5, <1>6, <2>2, <3>1 DEF EnoughNexts
  <2>10. Told'
    <3> DEFINE d == <<servers[s], Name(f)>>
    <3>1. outbox \in Seq(Seq(Cells) \X Seq(Cells)) /\ d \in Seq(Cells) \X Seq(Cells)
      <4>1. servers[s] \in Seq(Cells)
        BY <2>1, ElementOfSeq, LenProperties DEF TypeOK
      <4> QED
        BY <4>1, NamesDiffer DEF TypeOK
    <3>2. outbox' = Append(outbox, d)
      BY <1>8, <2>2
    <3>3. d[2] = Name(f) /\ d = <<servers'[processing'[Name(f)]], Name(f)>>
      BY <1>1, <2>2
    <3> HIDE DEF d
    <3>4. /\ DOMAIN outbox = 1 .. Len(outbox) /\ Len(outbox) \in Nat
          /\ DOMAIN outbox' = 1 .. Len(outbox) + 1 /\ outbox'[Len(outbox) + 1] = d
          /\ \A j \in 1 .. Len(outbox) : outbox'[j] = outbox[j]
      BY <3>1, <3>2, AppendProperties, LenProperties
    <3>5. ASSUME NEW j \in DOMAIN outbox'
          PROVE  \E g \in Given' : outbox'[j] = <<servers'[processing'[Name(g)]], Name(g)>>
      <4>1. CASE j = Len(outbox) + 1
        BY <2>2, <3>3, <3>4, <4>1
      <4>2. CASE j # Len(outbox) + 1
        <5>1. j \in DOMAIN outbox /\ outbox'[j] = outbox[j]
          BY <3>4, <4>2
        <5>2. PICK g \in Given : outbox[j] = <<servers[processing[Name(g)]], Name(g)>>
          BY <1>1, <5>1 DEF Told
        <5>3. g \in Given' /\ servers'[processing'[Name(g)]] = servers[processing[Name(g)]]
          BY <1>1, <2>2, <5>2
        <5> QED
          BY <5>1, <5>2, <5>3
      <4> QED
        BY <4>1, <4>2
    <3>6. ASSUME NEW g \in Given'
          PROVE  \/ g \in executing' \cup finished'
                 \/ \E j \in DOMAIN outbox' : outbox'[j][2] = Name(g)
      <4>1. CASE g = f
        <5>1. Len(outbox) + 1 \in DOMAIN outbox' /\ outbox'[Len(outbox) + 1][2] = Name(f)
          BY <3>3, <3>4
        <5> QED
          BY <4>1, <5>1
      <4>2. CASE g # f
        <5>1. \/ g \in executing \cup finished
              \/ \E j \in DOMAIN outbox : outbox[j][2] = Name(g)
          BY <1>1, <2>2, <4>2 DEF Told
        <5>2. \A j \in DOMAIN outbox : j \in DOMAIN outbox' /\ outbox'[j] = outbox[j]
          BY <3>4
        <5> QED
          BY <1>1, <5>1, <5>2 DEF emulator
      <4> QED
        BY <4>1, <4>2
    <3>7. executing' \cup finished' \subseteq Given'
      BY <1>1, <2>2 DEF Told, emulator
    <3> QED
      BY <3>5, <3>6, <3>7 DEF Told
  <2> QED
    BY <1>2, <1>3, <1>4, <2>2, <2>7, <2>9, <2>10 DEF DeliveryInv
<1> QED
  BY <1>7, <1>8 DEF HandleNext

(* A whole send tells the servers of all dispatches. *)
LEMMA WholeSend ==
  ASSUME WholeSends, NEW d, SendAll(d)
  PROVE  /\ executing' = executing \cup
              {f \in (1 .. submitted) \ finished :
                 \E i \in 1 .. Len(d), s \in 1 .. NumServers : d[i] = <<<<ServerName(s)>>, Name(f)>>}
         /\ UNCHANGED <<stream, announced, submitted, finished, sent, handled, spoiled>>
BY DEF SendAll, Name

LEMMA ServerNames ==
  ASSUME TypeOK, NamesFirst, pc # "names"
  PROVE  DOMAIN servers = 1 .. NumServers /\ \A s \in 1 .. NumServers : servers[s] = <<ServerName(s)>>
BY DEF NamesFirst, ServersKnown

LEMMA RequestedWereSubmitted ==
  ASSUME TypeOK, NamesFirst, Delivered, Written
  PROVE  \A f \in Requested : f \in 1 .. submitted
<1>1. \A f \in Requested : f \in Files /\ RequestLine(f) \in Range(sent)
  BY FileSets, HandledWasSent
<1>2. \A f \in Requested : f \in Files /\ f <= submitted
  BY <1>1 DEF Written
<1> QED
  BY <1>2, StreamAssumption DEF TypeOK, Files

LEMMA FinishBatchDelivery ==
  ASSUME WholeSends, TypeOK, TypeOK', DeliveryInv, FinishBatch
  PROVE  DeliveryInv'
<1>1. /\ NamesFirst /\ Delivered /\ Written /\ Assigned /\ Told /\ Loads /\ EnoughNexts
      /\ pc = "batch" /\ lines = <<>> /\ nexts = 0 /\ SendAll(outbox)
      /\ outbox' = <<>> /\ buffer' = <<>> /\ pc' = "read"
      /\ UNCHANGED <<lines, nexts, balancer>>
  BY DEF DeliveryInv, FinishBatch
<1>2. /\ executing' = executing \cup
           {f \in (1 .. submitted) \ finished :
              \E i \in 1 .. Len(outbox), s \in 1 .. NumServers :
                outbox[i] = <<<<ServerName(s)>>, Name(f)>>}
      /\ UNCHANGED <<stream, announced, submitted, finished, sent, handled, spoiled>>
  BY <1>1, WholeSend
<1>3. Assigned' /\ Loads' /\ Idle' = Idle /\ Given' = Given
  BY <1>1, <1>2, BalancerKept DEF balancer
<1>4. NamesFirst' /\ Written'
  BY <1>1, <1>2 DEF NamesFirst, Written, ServersKnown, balancer
<1>5. Delivered'
  <2>1. Len(<<>>) < BufferSize /\ DOMAIN <<>> = {}
    BY CellTypes, EmptySeq
  <2> QED
    BY <1>1, <1>2, <2>1 DEF Delivered, Piped
<1>6. EnoughNexts'
  <2>1. Len(lines) = 0 /\ Len(waiting) \in Nat /\ Cardinality(Idle) \in Nat
    BY <1>1, LoadType, FileSets, EmptySeq
  <2>2. Cardinality(Idle) = 0 \/ Len(waiting) = 0
    BY <1>1, <2>1 DEF EnoughNexts
  <2> QED
    BY <1>1, <1>3, <2>2, LoadType, FileSets DEF EnoughNexts, balancer
<1>7. Told'
  <2>1. DOMAIN outbox = 1 .. Len(outbox) /\ DOMAIN outbox' = {}
    BY <1>1, LenProperties, EmptySeq DEF TypeOK
  <2>2. ASSUME NEW i \in DOMAIN outbox
        PROVE  \E f \in Given : /\ outbox[i] = <<<<ServerName(processing[Name(f)])>>, Name(f)>>
                                /\ processing[Name(f)] \in 1 .. NumServers
    <3>1. PICK f \in Given : outbox[i] = <<servers[processing[Name(f)]], Name(f)>>
      BY <1>1 DEF Told
    <3>2. processing[Name(f)] \in 1 .. NumServers
      BY <1>1, <3>1, LoadType, ServerNames
    <3>3. servers[processing[Name(f)]] = <<ServerName(processing[Name(f)])>>
      BY <1>1, <3>2, ServerNames
    <3> QED
      BY <3>1, <3>2, <3>3
  <2>3. ASSUME NEW f \in executing', f \notin executing PROVE f \in Given
    <3>1. PICK i \in 1 .. Len(outbox), s \in 1 .. NumServers :
             outbox[i] = <<<<ServerName(s)>>, Name(f)>>
      BY <1>2, <2>3
    <3>2. PICK g \in Given : outbox[i] = <<<<ServerName(processing[Name(g)])>>, Name(g)>>
      BY <2>1, <2>2, <3>1
    <3>3. Name(f) = Name(g)
      BY <3>1, <3>2
    <3> QED
      BY <3>2, <3>3, NamesDiffer
  <2>4. ASSUME NEW f \in Given PROVE f \in executing' \cup finished'
    <3>1. CASE f \in executing \cup finished
      BY <1>2, <3>1
    <3>2. CASE f \notin executing \cup finished
      <4>1. PICK i \in DOMAIN outbox : outbox[i][2] = Name(f)
        BY <1>1, <3>2 DEF Told
      <4>2. PICK g \in Given : /\ outbox[i] = <<<<ServerName(processing[Name(g)])>>, Name(g)>>
                               /\ processing[Name(g)] \in 1 .. NumServers
        BY <2>2
      <4>3. g = f
        BY <4>1, <4>2, NamesDiffer
      <4>4. f \in (1 .. submitted) \ finished
        BY <1>1, <3>2, RequestedWereSubmitted DEF Assigned
      <4> QED
        BY <1>2, <2>1, <4>2, <4>3, <4>4
    <3> QED
      BY <3>1, <3>2
  <2>5. executing' \cup finished' \subseteq Given'
    BY <1>1, <1>2, <1>3, <2>3 DEF Told
  <2> QED
    BY <1>3, <2>1, <2>4, <2>5 DEF Told
<1> QED
  BY <1>3, <1>4, <1>5, <1>6, <1>7 DEF DeliveryInv

LEMMA HandleTimeoutDelivery ==
  ASSUME WholeSends, TypeOK, TypeOK', DeliveryInv, HandleTimeout
  PROVE  DeliveryInv'
<1>1. /\ NamesFirst /\ Delivered /\ Written /\ Assigned /\ Told /\ Loads /\ EnoughNexts
      /\ pc = "read" /\ waiting # <<>> /\ outbox = <<>> /\ DOMAIN outbox = {}
  BY EmptySeq DEF DeliveryInv, HandleTimeout, Delivered
<1>2. DOMAIN servers = 1 .. NumServers /\ \A s \in 1 .. NumServers : servers[s] = <<ServerName(s)>>
  BY <1>1, ServerNames
<1>3. servers # <<>>
  <2>1. 1 \in DOMAIN servers /\ DOMAIN <<>> = {}
    BY <1>2, CellTypes, EmptySeq
  <2> QED
    BY <2>1
<1>4. PICK i \in DOMAIN waiting, s \in DOMAIN servers :
        /\ Give(i, s) /\ SendAll(<<<<servers[s], waiting[i]>>>>)
        /\ UNCHANGED <<loop, servers, queued>>
  BY <1>3 DEF HandleTimeout
<1>5. handled' = handled
  BY <1>4 DEF SendAll
<1>6. PICK f \in Files :
         /\ f \in Requested /\ f \notin Given /\ waiting[i] = Name(f)
         /\ Given' = Given \cup {f} /\ processing'[Name(f)] = s
         /\ \A g \in Given : processing'[Name(g)] = processing[Name(g)]
         /\ Len(waiting') = Len(waiting) - 1
         /\ Assigned'
  BY <1>1, <1>4, <1>5, GiveSome
<1>7. f \notin Completed /\ f \notin finished /\ f \in 1 .. submitted
  BY <1>1, <1>6, CompletedWereGiven, RequestedWereSubmitted
<1>8. PICK d : d = <<<<servers[s], Name(f)>>>>
  OBVIOUS
<1>9. /\ executing' = executing \cup
           {g \in (1 .. submitted) \ finished :
              \E j \in 1 .. Len(d), t \in 1 .. NumServers : d[j] = <<<<ServerName(t)>>, Name(g)>>}
      /\ UNCHANGED <<stream, announced, submitted, finished, sent, handled, spoiled>>
  <2>1. SendAll(d)
    BY <1>4, <1>6, <1>8
  <2> QED
    BY <2>1, WholeSend
<1>10. executing' = executing \cup {f}
  <2>1. Len(d) = 1 /\ d[1] = <<<<ServerName(s)>>, Name(f)>> /\ s \in 1 .. NumServers
    BY <1>2, <1>8
  <2>2. f \in executing'
    BY <1>7, <1>9, <2>1
  <2>3. ASSUME NEW g \in executing', g \notin executing PROVE g = f
    <3>1. PICK j \in 1 .. Len(d), t \in 1 .. NumServers : d[j] = <<<<ServerName(t)>>, Name(g)>>
      BY <1>9, <2>3
    <3>2. j = 1
      BY <2>1, <3>1
    <3>3. Name(g) = Name(f)
      BY <2>1, <3>1, <3>2
    <3> QED
      BY <3>3, NamesDiffer
  <2> QED
    BY <1>9, <2>2, <2>3
<1>11. Idle = {} /\ \A t \in DOMAIN servers : queued[t] = 0 /\ load[t] # 0
  <2>1. Idle = {}
    BY <1>1 DEF EnoughNexts
  <2> QED
    BY <1>1, <2>1, LoadType DEF Loads
<1>12. load' = [load EXCEPT ![s] = @ + 1]
  BY <1>4 DEF Give
<1>13. /\ \A t \in DOMAIN servers' : load'[t] = Cardinality(OnServer(t)')
       /\ \A t \in DOMAIN servers : load'[t] = IF t = s THEN load[t] + 1 ELSE load[t]
       /\ \A t \in DOMAIN servers : load[t] \in Nat
  BY <1>1, <1>4, <1>5, <1>6, <1>7, <1>12, LoadsUp
<1>14. Loads' /\ Idle' = {}
  <2>1. servers' = servers /\ queued' = queued
    BY <1>4
  <2>2. \A t \in DOMAIN servers : load'[t] # 0
    BY <1>11, <1>13
  <2>3. Loads'
    BY <1>11, <1>13, <2>1, <2>2 DEF Loads
  <2> QED
    BY <1>11, <2>1, <2>3 DEF Idle
<1>15. Told'
  <2>1. executing \cup finished = Given
    BY <1>1 DEF Told
  <2>2. executing' \cup finished' = Given' /\ DOMAIN outbox' = {}
    BY <1>1, <1>4, <1>6, <1>9, <1>10, <2>1 DEF loop
  <2> QED
    BY <2>2 DEF Told
<1>16. Written'
  BY <1>1, <1>9 DEF Written
<1>17. Delivered'
  BY <1>1, <1>4, <1>9 DEF Delivered, Piped, loop
<1>18. NamesFirst'
  BY <1>1, <1>4, <1>9 DEF NamesFirst, ServersKnown, loop
<1>19. EnoughNexts'
  BY <1>1, <1>4, <1>14 DEF EnoughNexts, loop
<1> QED
  BY <1>6, <1>14, <1>15, <1>16, <1>17, <1>18, <1>19 DEF DeliveryInv

-----------------------------------------------------------------------------
(***************************************************************************)
(* The invariant.                                                          *)
(***************************************************************************)
LEMMA InitDelivery == Init => DeliveryInv
<1> SUFFICES ASSUME Init PROVE DeliveryInv
  OBVIOUS
<1>1. /\ stream = <<>> /\ announced = FALSE /\ submitted = 0 /\ executing = {} /\ finished = {}
      /\ pc = "names" /\ lines = <<>> /\ outbox = <<>> /\ servers = <<>> /\ waiting = <<>>
      /\ DOMAIN processing = {} /\ sent = <<>> /\ handled = <<>> /\ spoiled = FALSE
  BY DEF Init
<1>2. /\ DOMAIN servers = {} /\ DOMAIN outbox = {} /\ DOMAIN waiting = {} /\ DOMAIN sent = {}
      /\ Range(sent) = {} /\ Range(handled) = {} /\ Range(waiting) = {}
  BY <1>1 DEF Range
<1>3. Given = {} /\ Requested = {}
  BY <1>1, <1>2 DEF Given, Requested
<1>4. NamesFirst
  BY <1>1 DEF NamesFirst, ServersKnown
<1>5. Delivered
  BY <1>1 DEF Delivered
<1>6. Written
  BY <1>1, <1>2 DEF Written, NoTwice, Files
<1>7. Assigned
  BY <1>2, <1>3 DEF Assigned, NoTwice
<1>8. Told
  BY <1>1, <1>2, <1>3 DEF Told
<1>9. Loads
  BY <1>2 DEF Loads
<1>10. EnoughNexts
  BY <1>1 DEF EnoughNexts
<1> QED
  BY <1>4, <1>5, <1>6, <1>7, <1>8, <1>9, <1>10 DEF DeliveryInv

LEMMA SameDelivery == DeliveryInv /\ UNCHANGED vars => DeliveryInv'
<1> SUFFICES ASSUME DeliveryInv, UNCHANGED vars PROVE DeliveryInv'
  OBVIOUS
<1>1. UNCHANGED <<stream, announced, submitted, executing, finished, sent,
                  pc, buffer, lines, nexts, outbox, servers, queued, load, waiting, processing,
                  handled, spoiled>>
  BY DEF vars, emulator, loop, balancer
<1>2. /\ NamesFirst /\ Delivered /\ Written /\ Assigned /\ Told /\ Loads /\ EnoughNexts
  BY DEF DeliveryInv
<1>3. Assigned' /\ Loads' /\ Idle' = Idle /\ Given' = Given
  BY <1>1, <1>2, BalancerKept
<1>4. NamesFirst' /\ Delivered' /\ Written'
  BY <1>1, <1>2 DEF NamesFirst, ServersKnown, Delivered, Piped, Written
<1>5. Told' /\ EnoughNexts'
  BY <1>1, <1>2, <1>3 DEF Told, EnoughNexts
<1> QED
  BY <1>3, <1>4, <1>5 DEF DeliveryInv

LEMMA NextDelivery ==
  ASSUME NamesOnTime, WholeReads, WholeSends, IInv, RoomLeft, DeliveryInv, [Next]_vars
  PROVE  DeliveryInv'
<1>1. TypeOK /\ Starting /\ Clients
  BY DEF IInv
<1>2. TypeOK'
  BY <1>1, NextType
<1>3. CASE ReadNames
  BY <1>1, <1>3, ReadNamesDelivery
<1>4. CASE ReadLines
  BY <1>1, <1>2, <1>4, ReadLinesDelivery
<1>5. CASE HandleLine
  BY <1>1, <1>2, <1>5, HandleLineDelivery
<1>6. CASE HandleNext
  BY <1>1, <1>2, <1>6, HandleNextDelivery
<1>7. CASE FinishBatch
  BY <1>1, <1>2, <1>7, FinishBatchDelivery
<1>8. CASE HandleTimeout
  BY <1>1, <1>2, <1>8, HandleTimeoutDelivery
<1>9. CASE Announce
  BY <1>1, <1>9, AnnounceDelivery
<1>10. CASE Submit
  BY <1>1, <1>10, SubmitDelivery
<1>11. ASSUME NEW g \in Files, Finish(g) PROVE DeliveryInv'
  BY <1>1, <1>11, FinishDelivery
<1>12. CASE UNCHANGED vars
  BY <1>12, SameDelivery
<1> QED
  BY <1>3, <1>4, <1>5, <1>6, <1>7, <1>8, <1>9, <1>10, <1>11, <1>12 DEF Next, Loop, Emulator

(***************************************************************************)
(* Where nothing is late or torn and no read fills the buffer, the queues, *)
(* counters and lines of the loop fit what the emulator was told and wrote *)
(* (jobScheduler.cpp:501-529, 571-588).                                    *)
(***************************************************************************)
THEOREM DeliveryCorrect ==
  ASSUME NamesOnTime, WholeReads, WholeSends
  PROVE  Spec /\ []RoomLeft => []DeliveryInv
<1>1. IInv /\ RoomLeft /\ DeliveryInv /\ [Next]_vars => DeliveryInv'
  BY NextDelivery
<1> QED
  BY <1>1, InitDelivery, InductiveInvariant, PTL DEF Spec

-----------------------------------------------------------------------------
(***************************************************************************)
(* What comes to rest is finished.                                         *)
(***************************************************************************)
(* A file that was given to a server and is not completed keeps it loaded. *)
LEMMA LoadedServer ==
  ASSUME TypeOK, Loads, NEW s \in DOMAIN servers, load[s] # 0
  PROVE  \E g \in Given \ Completed : processing[Name(g)] = s
<1>1. Cardinality(OnServer(s)) # 0
  BY DEF Loads
<1>2. OnServer(s) # {}
  BY <1>1, FileSets
<1> QED
  BY <1>2 DEF OnServer

LEMMA RestIsFinished ==
  ASSUME TypeOK, DeliveryInv
  PROVE  SanityCheck
<1>1. NamesFirst /\ Delivered /\ Written /\ Assigned /\ Told /\ Loads /\ EnoughNexts
  BY DEF DeliveryInv
<1> SUFFICES ASSUME AtRest PROVE finished = 1 .. submitted
  BY DEF SanityCheck
<1>2. stream = <<>> /\ pc = "read" /\ executing = {} /\ lines = <<>> /\ outbox = <<>>
  BY <1>1 DEF AtRest, Delivered
<1>3. sent = handled
  <2>1. sent = handled \o <<>> \o <<>>
    BY <1>1, <1>2, NothingPiped DEF Delivered
  <2>2. handled \o <<>> = handled
    BY ConcatEmptySeq DEF TypeOK
  <2> QED
    BY <2>1, <2>2
<1>4. Given \subseteq finished /\ finished = Completed
  <2>1. Given \subseteq finished
    BY <1>1, <1>2 DEF Told
  <2>2. \A f \in Files : f \in finished <=> f \in Completed
    BY <1>1, <1>3, FileSets DEF Written
  <2> QED
    BY <2>1, <2>2, FileSets DEF TypeOK
<1>5. Requested = 1 .. submitted
  <2>1. \A f \in Files : f \in Requested <=> f <= submitted
    BY <1>1, <1>3, FileSets DEF Written
  <2>2. submitted \in 0 .. MaxFiles /\ MaxFiles \in Nat /\ Requested \subseteq 1 .. MaxFiles
    BY FileSets, StreamAssumption DEF TypeOK, Files
  <2>3. \A f \in 1 .. MaxFiles : f \in Requested <=> f \in 1 .. submitted
    BY <2>1, <2>2 DEF Files
  <2>4. 1 .. submitted \subseteq 1 .. MaxFiles
    BY <2>2
  <2> QED
    BY <2>2, <2>3, <2>4
<1>6. ASSUME NEW f \in Requested, f \notin Given PROVE FALSE
  <2>1. Name(f) \in Range(waiting)
    BY <1>1, <1>6, FileSets DEF Assigned
  <2>2. waiting # <<>>
    BY <2>1 DEF Range
  <2>3. Idle = {}
    BY <1>1, <1>2, <2>2 DEF EnoughNexts
  <2>4. 1 \in DOMAIN servers
    BY <1>1, <1>2, ServerNames, StreamAssumption
  <2>5. load[1] # 0
    BY <1>1, <2>3, <2>4, LoadType DEF Loads
  <2>6. \E g \in Given \ Completed : processing[Name(g)] = 1
    BY <1>1, <2>4, <2>5, LoadedServer
  <2> QED
    BY <1>4, <2>6
<1>7. finished \subseteq Requested
  BY <1>1 DEF Told, Assigned
<1> QED
  BY <1>4, <1>5, <1>6, <1>7

(***************************************************************************)
(* plot.py:31: where nothing is late or torn, once nothing is on its way   *)
(* the files finished are the files submitted.                             *)
(***************************************************************************)
THEOREM SanityCorrect ==
  ASSUME NamesOnTime, WholeReads, WholeSends
  PROVE  Spec /\ []RoomLeft => []SanityCheck
<1>1. IInv /\ DeliveryInv => SanityCheck
  BY RestIsFinished DEF IInv
<1> QED
  BY <1>1, DeliveryCorrect, InductiveInvariant, PTL

-----------------------------------------------------------------------------
(***************************************************************************)
(* Every line is delivered, once and in order.                             *)
(***************************************************************************)
LEMMA OnlyHandleLineHandles ==
  [Next]_vars /\ ~HandleLine => UNCHANGED handled
<1>1. HandleTimeout => UNCHANGED handled
  BY DEF HandleTimeout, SendAll
<1>2. ReadNames \/ ReadLines \/ HandleNext \/ FinishBatch => UNCHANGED handled
  BY DEF ReadNames, ReadLines, HandleNext, FinishBatch, SendAll
<1>3. Emulator => UNCHANGED handled
  BY DEF Emulator, Announce, Submit, Finish, WriteLine
<1> QED
  BY <1>1, <1>2, <1>3 DEF Next, Loop, vars

LEMMA MapsLines ==
  ASSUME TypeOK, Intact, DeliveryInv, [Next]_vars
  PROVE  [Delivery!Next]_(Delivery!vars)
<1>1. NamesFirst /\ Delivered /\ Written
  BY DEF DeliveryInv
<1>2. CASE HandleLine
  <2>1. pc = "batch" /\ lines # <<>> /\ UNCHANGED sent
    BY <1>2, HandleLineCases DEF emulator
  <2>2. handled' = Append(handled, Head(lines))
    BY <1>1, <1>2, HandlesHead DEF Delivered, TypeOK
  <2>3. Len(handled) < Len(sent) /\ sent[Len(handled) + 1] = Head(lines)
    BY <1>1, <2>1, NextLine
  <2> QED
    BY <2>1, <2>2, <2>3 DEF Delivery!Next, Delivery!Handle
<1>3. CASE Submit
  <2>1. submitted + 1 \in Files
    BY <1>3, StreamAssumption DEF Submit, TypeOK, Files
  <2>2. RequestLine(submitted + 1) \in Lines
    BY <2>1 DEF Lines
  <2>3. sent' = Append(sent, RequestLine(submitted + 1)) /\ UNCHANGED handled
    BY <1>3 DEF Submit, WriteLine
  <2> QED
    BY <2>2, <2>3 DEF Delivery!Next, Delivery!Send
<1>4. ASSUME NEW f \in Files, Finish(f) PROVE Delivery!Send
  <2>1. FinishedLine(f) \in Lines
    BY DEF Lines
  <2>2. sent' = Append(sent, FinishedLine(f)) /\ UNCHANGED handled
    BY <1>4 DEF Finish, WriteLine
  <2> QED
    BY <2>1, <2>2 DEF Delivery!Send
<1>5. CASE ReadNames \/ ReadLines \/ HandleNext \/ FinishBatch \/ HandleTimeout \/ Announce
           \/ UNCHANGED vars
  <2>1. UNCHANGED sent
    BY <1>5 DEF ReadNames, ReadLines, HandleNext, FinishBatch, HandleTimeout, SendAll, Announce,
                vars, emulator
  <2>2. UNCHANGED handled
    BY <1>5 DEF ReadNames, ReadLines, HandleNext, FinishBatch, HandleTimeout, SendAll, Announce,
                vars
  <2> QED
    BY <2>1, <2>2 DEF Delivery!vars
<1> QED
  BY <1>2, <1>3, <1>4, <1>5 DEF Next, Loop, Emulator, Delivery!Next

(***************************************************************************)
(* The safety part of DeliversLines: where nothing is late or torn, the    *)
(* LoadBalancer is given the lines of the stream, each once and in order,  *)
(* as if there were no buffer (jobScheduler.cpp:501-515, 571-584).         *)
(***************************************************************************)
THEOREM LinesInOrder ==
  ASSUME NamesOnTime, WholeReads, WholeSends
  PROVE  Spec /\ []RoomLeft => Delivery!SafeSpec
<1>1. Init => Delivery!Init
  BY DEF Init, Delivery!Init
<1>2. IInv /\ DeliveryInv /\ [Next]_vars => [Delivery!Next]_(Delivery!vars)
  BY MapsLines DEF IInv
<1> QED
  BY <1>1, <1>2, DeliveryCorrect, InductiveInvariant, PTL DEF Spec, Delivery!SafeSpec

-----------------------------------------------------------------------------
(***************************************************************************)
(* The program dispatches like JobDispatch.                                *)
(***************************************************************************)
WaitingFiles == {f \in Files : Name(f) \in Range(waiting)}

RunningOn ==
  [f \in Files |-> IF f \notin Completed /\ Name(f) \in DOMAIN processing
                   THEN processing[Name(f)] ELSE 0]

LEMMA DispatchIs ==
  /\ Dispatch!Init <=> WaitingFiles = {} /\ RunningOn = [f \in Files |-> 0] /\ Completed = {}
  /\ \A f : Dispatch!Submit(f) <=>
       /\ f \notin WaitingFiles \cup Completed /\ RunningOn[f] = 0
       /\ WaitingFiles' = WaitingFiles \cup {f} /\ RunningOn' = RunningOn /\ Completed' = Completed
  /\ \A s : Dispatch!Free(s) <=> \A f \in Files : RunningOn[f] # s
  /\ \A s, f : Dispatch!Give(s, f) <=>
       /\ f \in WaitingFiles /\ WaitingFiles' = WaitingFiles \ {f}
       /\ RunningOn' = [RunningOn EXCEPT ![f] = s] /\ Completed' = Completed
  /\ \A f : Dispatch!Finish(f) <=>
       /\ RunningOn[f] # 0 /\ RunningOn' = [RunningOn EXCEPT ![f] = 0]
       /\ Completed' = Completed \cup {f} /\ WaitingFiles' = WaitingFiles
  /\ UNCHANGED Dispatch!vars <=>
       WaitingFiles' = WaitingFiles /\ RunningOn' = RunningOn /\ Completed' = Completed
BY DEF Dispatch!Init, Dispatch!Submit, Dispatch!Free, Dispatch!Give, Dispatch!Finish,
       Dispatch!vars, WaitingFiles, RunningOn, Name

LEMMA RunningIs ==
  ASSUME TypeOK, NamesFirst, Delivered, Written, Assigned, Told
  PROVE  /\ \A f \in Files : f \in Given \ Completed =>
              RunningOn[f] = processing[Name(f)] /\ RunningOn[f] # 0
         /\ \A f \in Files : f \notin Given \ Completed => RunningOn[f] = 0
         /\ \A f \in Files : f \in WaitingFiles <=> f \in Requested \ Given
<1>1. \A f \in Files : RunningOn[f] = IF f \notin Completed /\ f \in Given THEN processing[Name(f)] ELSE 0
  BY FileSets DEF RunningOn
<1>2. \A f \in Given : processing[Name(f)] # 0
  <2>1. \A f \in Given : processing[Name(f)] \in DOMAIN servers
    BY LoadType
  <2>2. DOMAIN servers = 1 .. Len(servers)
    BY LenProperties DEF TypeOK
  <2> QED
    BY <2>1, <2>2
<1>3. \A f \in Files : f \in WaitingFiles <=> f \in Requested \ Given
  BY DEF WaitingFiles, Assigned
<1> QED
  BY <1>1, <1>2, <1>3

LEMMA SameDispatch ==
  ASSUME UNCHANGED <<waiting, processing, handled>>
  PROVE  UNCHANGED Dispatch!vars
<1>1. Completed' = Completed
  BY DEF Completed
<1>2. WaitingFiles' = WaitingFiles
  BY DEF WaitingFiles
<1>3. RunningOn' = RunningOn
  BY <1>1 DEF RunningOn
<1> QED
  BY <1>1, <1>2, <1>3, DispatchIs

(* A submitted file. *)
LEMMA MapsRequest ==
  ASSUME TypeOK, TypeOK', DeliveryInv, HandleLine, NEW f \in Files, Head(lines) = RequestLine(f)
  PROVE  Dispatch!Submit(f)
<1>1. /\ NamesFirst /\ Delivered /\ Written /\ Assigned /\ Told
      /\ pc = "batch" /\ lines # <<>>
  BY DEF DeliveryInv, HandleLine
<1>2. /\ waiting' = Append(waiting, Name(f)) /\ lines' = Tail(lines)
      /\ handled' = Append(handled, RequestLine(f))
      /\ UNCHANGED <<pc, stream, emulator, outbox, buffer, spoiled, processing>>
  BY RequestHandled
<1>3. \A x : x \in Range(handled') <=> x \in Range(handled) \/ x = RequestLine(f)
  BY <1>1, <1>2, LineMoves
<1>4. f \notin Requested
  BY <1>1, NextLine, FileSets
<1>5. Completed' = Completed
  <2>1. \A g \in Files : g \in Completed' <=> g \in Completed
    BY <1>3, LinesDiffer, FileSets, FileSetsNext
  <2> QED
    BY <2>1, FileSets, FileSetsNext
<1>6. RunningOn' = RunningOn
  BY <1>2, <1>5 DEF RunningOn
<1>7. WaitingFiles' = WaitingFiles \cup {f}
  <2>1. \A x : x \in Range(waiting') <=> x \in Range(waiting) \/ x = Name(f)
    BY <1>2, NamesDiffer, RangeAppend DEF TypeOK
  <2> QED
    BY <2>1, NamesDiffer DEF WaitingFiles
<1>8. f \notin Given /\ f \notin Completed
  BY <1>1, <1>4, CompletedWereGiven DEF Assigned
<1>9. f \notin WaitingFiles \cup Completed /\ RunningOn[f] = 0
  BY <1>1, <1>4, <1>8, RunningIs
<1> QED
  BY <1>5, <1>6, <1>7, <1>9, DispatchIs

(* A completed file. *)
LEMMA MapsCompletion ==
  ASSUME TypeOK, TypeOK', DeliveryInv, HandleLine, NEW f \in Files, Head(lines) = FinishedLine(f)
  PROVE  Dispatch!Finish(f)
<1>1. /\ NamesFirst /\ Delivered /\ Written /\ Assigned /\ Told
      /\ pc = "batch" /\ lines # <<>>
  BY DEF DeliveryInv, HandleLine
<1>2. FinishedLine(f) \in Range(sent) /\ FinishedLine(f) \notin Range(handled)
  BY <1>1, NextLine
<1>3. f \in Given \ Completed /\ Name(f) \in DOMAIN processing
  BY <1>1, <1>2, FileSets DEF Written, Told
<1>4. /\ handled' = Append(handled, FinishedLine(f)) /\ lines' = Tail(lines)
      /\ UNCHANGED <<pc, stream, emulator, outbox, buffer, spoiled, waiting, processing>>
  BY <1>3, CompletionHandled
<1>5. \A x : x \in Range(handled') <=> x \in Range(handled) \/ x = FinishedLine(f)
  BY <1>1, <1>4, LineMoves
<1>6. Completed' = Completed \cup {f}
  <2>1. \A g \in Files : g \in Completed' <=> g \in Completed \/ g = f
    BY <1>5, LinesDiffer, FileSets, FileSetsNext
  <2> QED
    BY <2>1, FileSets, FileSetsNext
<1>7. RunningOn' = [RunningOn EXCEPT ![f] = 0]
  BY <1>4, <1>6 DEF RunningOn
<1>8. RunningOn[f] # 0
  BY <1>1, <1>3, RunningIs
<1>9. WaitingFiles' = WaitingFiles
  BY <1>4 DEF WaitingFiles
<1> QED
  BY <1>6, <1>7, <1>8, <1>9, DispatchIs

(* A waiting file is given to a server, by handle_next or by a timeout. *)
LEMMA MapsGive ==
  ASSUME TypeOK, TypeOK', DeliveryInv, NEW i \in DOMAIN waiting, NEW s \in DOMAIN servers,
         Give(i, s), UNCHANGED handled
  PROVE  \E f \in Files : Dispatch!Give(s, f)
<1>1. NamesFirst /\ Delivered /\ Written /\ Assigned /\ Told
  BY DEF DeliveryInv
<1>2. PICK f \in Files :
         /\ f \in Requested /\ f \notin Given
         /\ Given' = Given \cup {f} /\ processing'[Name(f)] = s
         /\ \A g \in Given : processing'[Name(g)] = processing[Name(g)]
         /\ \A g \in Files : Name(g) \in Range(waiting') <=> Name(g) \in Range(waiting) /\ g # f
  BY <1>1, GiveSome
<1>3. Completed' = Completed
  BY DEF Completed
<1>4. f \in WaitingFiles /\ f \notin Completed
  BY <1>1, <1>2, RunningIs, CompletedWereGiven
<1>5. WaitingFiles' = WaitingFiles \ {f}
  BY <1>2 DEF WaitingFiles
<1>6. RunningOn' = [RunningOn EXCEPT ![f] = s]
  <2>1. ASSUME NEW g \in Files
        PROVE  RunningOn'[g] = IF g = f THEN s ELSE RunningOn[g]
    <3>1. RunningOn'[g] = IF g \notin Completed /\ g \in Given' THEN processing'[Name(g)] ELSE 0
      BY <1>3, FileSetsNext DEF RunningOn
    <3>2. RunningOn[g] = IF g \notin Completed /\ g \in Given THEN processing[Name(g)] ELSE 0
      BY FileSets DEF RunningOn
    <3> QED
      BY <1>2, <1>4, <3>1, <3>2
  <2> QED
    BY <2>1 DEF RunningOn
<1> QED
  BY <1>3, <1>4, <1>5, <1>6, DispatchIs

LEMMA MapsHandleNext ==
  ASSUME TypeOK, TypeOK', DeliveryInv, HandleNext
  PROVE  Dispatch!AssignSome \/ UNCHANGED Dispatch!vars
<1>1. /\ NamesFirst /\ Delivered /\ Written /\ Assigned /\ Told /\ Loads
      /\ pc = "batch" /\ UNCHANGED handled
  BY DEF DeliveryInv, HandleNext
<1>2. CASE UNCHANGED <<waiting, processing>>
  BY <1>1, <1>2, SameDispatch
<1>3. ASSUME NEW i \in DOMAIN waiting, NEW s \in Idle, Give(i, s)
      PROVE  Dispatch!AssignSome
  <2>1. s \in DOMAIN servers /\ queued[s] > 0 /\ s \in 1 .. NumServers
    BY <1>1, ServerNames DEF Idle
  <2>2. load[s] = 0
    BY <1>1, <2>1 DEF Loads
  <2>3. OnServer(s) = {}
    BY <1>1, <2>1, <2>2, FileSets DEF Loads
  <2>4. Dispatch!Free(s)
    <3>1. \A f \in Given \ Completed : processing[Name(f)] # s
      BY <2>3 DEF OnServer
    <3> QED
      BY <1>1, <2>1, <3>1, RunningIs, DispatchIs
  <2>5. PICK f \in Files : Dispatch!Give(s, f)
    BY <1>1, <1>3, <2>1, MapsGive
  <2> QED
    BY <2>1, <2>4, <2>5 DEF Dispatch!AssignSome, Dispatch!Assign
<1> QED
  BY <1>2, <1>3 DEF HandleNext

LEMMA MapsHandleTimeout ==
  ASSUME TypeOK, TypeOK', DeliveryInv, HandleTimeout
  PROVE  \E s \in 1 .. NumServers, f \in Files : Dispatch!Force(s, f)
<1>1. /\ NamesFirst /\ Delivered /\ Written /\ Assigned /\ Told /\ Loads /\ EnoughNexts
      /\ pc = "read" /\ waiting # <<>>
  BY DEF DeliveryInv, HandleTimeout
<1>2. DOMAIN servers = 1 .. NumServers
  BY <1>1, ServerNames
<1>3. servers # <<>>
  <2>1. 1 \in DOMAIN servers /\ DOMAIN <<>> = {}
    BY <1>2, CellTypes, EmptySeq
  <2> QED
    BY <2>1
<1>4. PICK i \in DOMAIN waiting, s \in DOMAIN servers : Give(i, s) /\ UNCHANGED handled
  BY <1>3 DEF HandleTimeout, SendAll
<1>5. PICK f \in Files : Dispatch!Give(s, f)
  BY <1>4, MapsGive
<1>6. ASSUME NEW t \in 1 .. NumServers PROVE ~Dispatch!Free(t)
  <2>1. Idle = {}
    BY <1>1 DEF EnoughNexts
  <2>2. load[t] # 0
    BY <1>1, <1>2, <2>1, LoadType DEF Loads
  <2>3. PICK g \in Given \ Completed : processing[Name(g)] = t
    BY <1>1, <1>2, <2>2, LoadedServer
  <2>4. g \in Files /\ RunningOn[g] = t
    BY <1>1, <2>3, FileSets, RunningIs
  <2> QED
    BY <2>4, DispatchIs
<1> QED
  BY <1>2, <1>4, <1>5, <1>6 DEF Dispatch!Force

LEMMA MapsDispatch ==
  ASSUME TypeOK, TypeOK', DeliveryInv, [Next]_vars
  PROVE  [Dispatch!Next]_(Dispatch!vars)
<1>1. CASE HandleLine
  <2>1. Head(lines) \in Lines
    BY <1>1, NextLine DEF DeliveryInv, HandleLine
  <2>2. ASSUME NEW f \in Files, Head(lines) = RequestLine(f) PROVE Dispatch!Submit(f)
    BY <1>1, <2>2, MapsRequest
  <2>3. ASSUME NEW f \in Files, Head(lines) = FinishedLine(f) PROVE Dispatch!Finish(f)
    BY <1>1, <2>3, MapsCompletion
  <2> QED
    BY <2>1, <2>2, <2>3 DEF Lines, Dispatch!Next
<1>2. CASE HandleNext
  BY <1>2, MapsHandleNext DEF Dispatch!Next
<1>3. CASE HandleTimeout
  BY <1>3, MapsHandleTimeout DEF Dispatch!Next
<1>4. CASE ReadNames \/ ReadLines \/ FinishBatch \/ Emulator \/ UNCHANGED vars
  <2>1. UNCHANGED <<waiting, processing, handled>>
    BY <1>4 DEF ReadNames, ReadLines, FinishBatch, SendAll, Emulator, Announce, Submit, Finish,
                WriteLine, vars, balancer
  <2> QED
    BY <2>1, SameDispatch
<1> QED
  BY <1>1, <1>2, <1>3, <1>4 DEF Next, Loop

LEMMA InitDispatch == Init => Dispatch!Init
<1> SUFFICES ASSUME Init PROVE Dispatch!Init
  OBVIOUS
<1>1. waiting = <<>> /\ handled = <<>> /\ DOMAIN processing = {}
  BY DEF Init
<1>2. Range(waiting) = {} /\ Range(handled) = {}
  BY <1>1 DEF Range
<1>3. WaitingFiles = {} /\ Completed = {}
  BY <1>2 DEF WaitingFiles, Completed
<1>4. RunningOn = [f \in Files |-> 0]
  BY <1>1, <1>3 DEF RunningOn
<1> QED
  BY <1>3, <1>4, DispatchIs

(***************************************************************************)
(* Where nothing is late or torn, stream, buffer and loop keep what the    *)
(* LoadBalancer promises: seen by file, each step of the program is a step *)
(* of JobDispatch or none (jobScheduler.cpp:501-529).                      *)
(***************************************************************************)
THEOREM RefinesJobDispatch ==
  ASSUME NamesOnTime, WholeReads, WholeSends
  PROVE  Spec /\ []RoomLeft => ImplementsJobDispatch
<1>1. IInv /\ IInv' /\ DeliveryInv /\ [Next]_vars => [Dispatch!Next]_(Dispatch!vars)
  BY MapsDispatch DEF IInv
<1> QED
  BY <1>1, InitDispatch, DeliveryCorrect, InductiveInvariant, PTL
     DEF Spec, ImplementsJobDispatch, Dispatch!SafeSpec

-----------------------------------------------------------------------------
(***************************************************************************)
(* The buffer has room while the files are few.                            *)
(***************************************************************************)
LEMMA LineLengths ==
  ASSUME TypeOK, NEW f \in Files
  PROVE  /\ WriteLine(RequestLine(f)) => Len(stream') = Len(stream) + 4
         /\ WriteLine(FinishedLine(f)) => Len(stream') = Len(stream) + 3
<1>1. ASSUME NEW line \in Seq(Cells)
      PROVE  Len(stream \o line \o <<End>>) = Len(stream) + Len(line) + 1
  <2>1. stream \in Seq(Cells) /\ <<End>> \in Seq(Cells) /\ Len(<<End>>) = 1
    BY CellTypes DEF TypeOK
  <2>2. stream \o line \in Seq(Cells) /\ Len(stream \o line) = Len(stream) + Len(line)
    BY <2>1, ConcatProperties
  <2> QED
    BY <2>1, <2>2, ConcatProperties
<1>2. Len(RequestLine(f)) = 3 /\ Len(FinishedLine(f)) = 2
  BY DEF RequestLine, FinishedLine
<1>3. Len(stream) \in Nat
  BY LenProperties DEF TypeOK
<1>4. RequestLine(f) \in Seq(Cells) /\ FinishedLine(f) \in Seq(Cells)
  BY LineTypes
<1>5. Len(stream \o RequestLine(f) \o <<End>>) = Len(stream) + Len(RequestLine(f)) + 1
  BY <1>1, <1>4
<1>6. Len(stream \o FinishedLine(f) \o <<End>>) = Len(stream) + Len(FinishedLine(f)) + 1
  BY <1>1, <1>4
<1>7. /\ Len(stream \o RequestLine(f) \o <<End>>) = Len(stream) + 4
      /\ Len(stream \o FinishedLine(f) \o <<End>>) = Len(stream) + 3
  BY <1>2, <1>3, <1>5, <1>6
<1> QED
  BY <1>7 DEF WriteLine

LEMMA NextUnread ==
  ASSUME NamesOnTime, IInv, Unread, [Next]_vars
  PROVE  Unread'
<1>1. TypeOK /\ Starting /\ Clients
  BY DEF IInv
<1>2. /\ Len(stream) \in Nat /\ submitted \in Nat /\ IsFiniteSet(finished)
      /\ Cardinality(finished) \in Nat
  <2>1. IsFiniteSet(Files)
    BY FS_Interval, StreamAssumption DEF Files
  <2>2. IsFiniteSet(finished)
    BY <1>1, <2>1, FS_Subset DEF TypeOK
  <2> QED
    BY <1>1, <2>2, FS_CardinalityType, LenProperties DEF TypeOK
<1>3. CASE ReadNames
  <2>1. /\ stream = NamesMessage /\ stream' = <<>> /\ pc' = "read"
        /\ UNCHANGED <<announced, submitted, finished>>
    BY <1>3 DEF ReadNames, emulator
  <2>2. Len(stream') = 0 /\ stream # <<>>
    BY <2>1, LineTypes, CellTypes, EmptySeq
  <2> QED
    BY <1>1, <1>2, <2>1, <2>2 DEF Unread, Clients
<1>4. CASE ReadLines
  <2>1. PICK k \in 1 .. BufferSize : ReadInto(k)
    BY <1>4 DEF ReadLines
  <2>2. PICK m \in {k - 1, k} : m \in Nat /\ Len(stream') = Len(stream) - m
    BY <1>1, <2>1, ReadMoves
  <2>3. pc # "names" /\ pc' # "names" /\ UNCHANGED <<announced, submitted, finished>>
    BY <1>4 DEF ReadLines, emulator
  <2> QED
    BY <1>2, <2>2, <2>3, CellTypes DEF Unread
<1>5. CASE HandleLine \/ HandleNext \/ FinishBatch \/ HandleTimeout
  <2>1. UNCHANGED <<stream, announced, submitted, finished>>
    BY <1>5 DEF HandleLine, HandleNext, FinishBatch, HandleTimeout, SendAll, emulator
  <2>2. pc # "names" /\ pc' # "names"
    BY <1>5, NeverBack DEF Loop, HandleLine, HandleNext, FinishBatch, HandleTimeout
  <2> QED
    BY <2>1, <2>2 DEF Unread
<1>6. CASE Announce
  <2>1. stream' = NamesMessage /\ pc = "names" /\ UNCHANGED pc
    BY <1>1, <1>6, AnnouncedFirst DEF Announce, loop, Unread
  <2> QED
    BY <1>6, <2>1 DEF Unread
<1>7. CASE Submit
  <2>1. /\ pc # "names" /\ submitted' = submitted + 1 /\ submitted + 1 \in Files
        /\ WriteLine(RequestLine(submitted + 1)) /\ UNCHANGED <<pc, announced, finished>>
    BY <1>1, <1>7, StreamAssumption DEF Submit, WriteLine, loop, TypeOK, Files
  <2>2. Len(stream') = Len(stream) + 4
    BY <1>1, <1>2, <2>1, LineLengths
  <2> QED
    BY <1>2, <2>1, <2>2 DEF Unread
<1>8. ASSUME NEW f \in Files, Finish(f) PROVE Unread'
  <2>1. /\ pc # "names" /\ f \notin finished /\ finished' = finished \cup {f}
        /\ WriteLine(FinishedLine(f)) /\ UNCHANGED <<pc, announced, submitted>>
    BY <1>1, <1>8 DEF Finish, WriteLine, loop, Starting, Clients
  <2>2. Len(stream') = Len(stream) + 3
    BY <1>1, <1>2, <2>1, LineLengths
  <2>3. Cardinality(finished') = Cardinality(finished) + 1
    BY <1>2, <2>1, CardinalityPlus
  <2> QED
    BY <1>2, <2>1, <2>2, <2>3 DEF Unread
<1>9. CASE UNCHANGED vars
  BY <1>9 DEF Unread, vars, emulator, loop
<1> QED
  BY <1>3, <1>4, <1>5, <1>6, <1>7, <1>8, <1>9 DEF Next, Loop, Emulator

LEMMA UnreadFits ==
  ASSUME FewFiles, TypeOK, Unread
  PROVE  RoomLeft
<1>1. CASE pc = "names"
  BY <1>1, LineTypes, CellTypes, EmptySeq DEF Unread, RoomLeft, FewFiles
<1>2. CASE pc # "names"
  <2>1. IsFiniteSet(Files) /\ Cardinality(Files) = MaxFiles
    BY FS_Interval, StreamAssumption DEF Files
  <2>2. Cardinality(finished) <= MaxFiles /\ Cardinality(finished) \in Nat
    BY <2>1, FS_Subset, FS_CardinalityType DEF TypeOK
  <2>3. Len(stream) \in Nat /\ submitted \in Nat /\ submitted <= MaxFiles
    BY StreamAssumption, LenProperties DEF TypeOK
  <2> QED
    BY <1>2, <2>2, <2>3, CellTypes DEF Unread, RoomLeft, FewFiles
<1> QED
  BY <1>1, <1>2

(***************************************************************************)
(* The hypothesis of the theorems above holds whenever the names are on    *)
(* time and the buffer is larger than all that is ever written: a read of  *)
(* 4096 bytes (jobScheduler.cpp:571-583) then leaves it room for a NUL.    *)
(***************************************************************************)
THEOREM RoomForFewFiles ==
  ASSUME NamesOnTime, FewFiles
  PROVE  Spec => []RoomLeft
<1>1. Init => Unread
  BY DEF Init, Unread
<1>2. IInv /\ Unread /\ [Next]_vars => Unread'
  BY NextUnread
<1>3. IInv /\ Unread => RoomLeft
  BY UnreadFits DEF IInv
<1> QED
  BY <1>1, <1>2, <1>3, InductiveInvariant, PTL DEF Spec
=============================================================================
