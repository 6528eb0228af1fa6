--------------------------- MODULE JobSchedulerProofs ---------------------------
(***************************************************************************)
(* Theorems about JobScheduler, for any number of servers and files, any   *)
(* size of the buffer and however reads and sends are cut: what the        *)
(* parser returns, that every variable keeps its type, that the scheduler  *)
(* knows the servers when their names come in time, and that no completion *)
(* is reported that did not happen.                                        *)
(***************************************************************************)
EXTENDS JobSchedulerInvariant, RecursionProofs, FiniteSetTheorems

-----------------------------------------------------------------------------
(***************************************************************************)
(* The parser, on any text.                                                *)
(***************************************************************************)
Nothing == [pieces |-> <<>>, rest |-> <<>>]

(* What one more cell changes. *)
Scanned(delimiter, cell, found) ==
  IF cell = delimiter
  THEN [pieces |-> Append(found.pieces, found.rest), rest |-> <<>>]
  ELSE [pieces |-> found.pieces, rest |-> Append(found.rest, cell)]

Parses(S) == [pieces : Seq(Seq(S)), rest : Seq(S)]

Scanner(S, delimiter) ==
  [p \in S \X Parses(S) |-> Scanned(delimiter, p[1], p[2])]

LEMMA ScannedType ==
  ASSUME NEW S, NEW d, NEW cell \in S, NEW found \in Parses(S)
  PROVE  Scanned(d, cell, found) \in Parses(S)
<1>1. found.pieces \in Seq(Seq(S)) /\ found.rest \in Seq(S)
  BY DEF Parses
<1>2. /\ Append(found.pieces, found.rest) \in Seq(Seq(S))
      /\ Append(found.rest, cell) \in Seq(S) /\ <<>> \in Seq(S)
  BY <1>1, AppendProperties, EmptySeq
<1> QED
  BY <1>1, <1>2 DEF Scanned, Parses

(* Parsed is computed along the cells of the text. *)
LEMMA ParsedScans ==
  ASSUME NEW S, NEW d, NEW text \in Seq(S)
  PROVE  \E f : /\ f \in [0 .. Len(text) -> Parses(S)]
                /\ Scans(f, text, Scanner(S, d), Nothing)
                /\ Parsed(text, d) = f[Len(text)]
<1> DEFINE next == Scanner(S, d)
           Rec(g) == g = [i \in 0 .. Len(text) |->
                            IF i = 0
                            THEN [pieces |-> <<>>, rest |-> <<>>]
                            ELSE LET before == g[i - 1]
                                 IN IF text[i] = d
                                    THEN [pieces |-> Append(before.pieces, before.rest), rest |-> <<>>]
                                    ELSE [pieces |-> before.pieces, rest |-> Append(before.rest, text[i])]]
<1>1. Nothing \in Parses(S)
  BY EmptySeq DEF Nothing, Parses
<1>2. next \in Folds(Parses(S), S)
  BY ScannedType DEF Folds, Scanner
<1>3. Len(text) \in Nat /\ \A i \in 1 .. Len(text) : text[i] \in S
  BY ElementOfSeq, LenProperties
<1>4. PICK f \in [0 .. Len(text) -> Parses(S)] : Scans(f, text, next, Nothing)
  <2> HIDE DEF next
  <2> QED
    BY <1>1, <1>2, ScanExists
<1>5. ASSUME NEW i \in 1 .. Len(text)
      PROVE  f[i] = Scanned(d, text[i], f[i - 1])
  <2>1. f[i] = next[<<text[i], f[i - 1]>>]
    <3> HIDE DEF next
    <3> QED
      BY <1>4 DEF Scans
  <2>2. i - 1 \in 0 .. Len(text)
    BY <1>3
  <2>3. text[i] \in S /\ f[i - 1] \in Parses(S)
    BY <1>3, <1>4, <2>2
  <2> QED
    BY <2>1, <2>3 DEF Scanner
<1>6. Rec(f)
  <2>1. ASSUME NEW i \in 0 .. Len(text)
        PROVE  f[i] = IF i = 0
                      THEN [pieces |-> <<>>, rest |-> <<>>]
                      ELSE LET before == f[i - 1]
                           IN IF text[i] = d
                              THEN [pieces |-> Append(before.pieces, before.rest), rest |-> <<>>]
                              ELSE [pieces |-> before.pieces, rest |-> Append(before.rest, text[i])]
    <3>1. CASE i = 0
      BY <3>1, <1>4 DEF Scans, Nothing
    <3>2. CASE i # 0
      <4>1. i \in 1 .. Len(text)
        BY <3>2
      <4> QED
        BY <3>2, <4>1, <1>5 DEF Scanned
    <3> QED
      BY <3>1, <3>2
  <2>2. DOMAIN f = 0 .. Len(text) /\ f = [i \in DOMAIN f |-> f[i]]
    BY <1>4
  <2> QED
    BY <2>1, <2>2
<1>7. Parsed(text, d) = (CHOOSE g : Rec(g))[Len(text)]
  BY DEF Parsed
<1>8. Rec(CHOOSE g : Rec(g))
  <2> HIDE DEF Rec
  <2> QED
    BY <1>6
<1> DEFINE h == CHOOSE g : Rec(g)
<1>9. /\ h \in [0 .. Len(text) -> {h[i] : i \in 0 .. Len(text)}]
      /\ h[0] = Nothing
      /\ \A i \in 1 .. Len(text) : h[i] = Scanned(d, text[i], h[i - 1])
  <2>1. Rec(h)
    BY <1>8
  <2> HIDE DEF h
  <2>2. h = [i \in 0 .. Len(text) |-> h[i]] /\ h[0] = Nothing
    BY <2>1, <1>3 DEF Nothing
  <2>3. ASSUME NEW i \in 1 .. Len(text) PROVE h[i] = Scanned(d, text[i], h[i - 1])
    <3>1. i \in 0 .. Len(text) /\ i # 0
      BY <1>3
    <3> QED
      BY <2>1, <3>1 DEF Scanned
  <2> QED
    BY <2>2, <2>3
<1> HIDE DEF h, next, Rec
<1> DEFINE T == {i \in Nat : i <= Len(text) => h[i] \in Parses(S)}
<1>10. 0 \in T
  BY <1>1, <1>9
<1>11. ASSUME NEW i \in Nat, i \in T PROVE i + 1 \in T
  <2> SUFFICES ASSUME i + 1 <= Len(text) PROVE h[i + 1] \in Parses(S)
    OBVIOUS
  <2>1. i + 1 \in 1 .. Len(text) /\ (i + 1) - 1 = i /\ h[i] \in Parses(S)
    BY <1>3, <1>11
  <2>2. h[i + 1] = Scanned(d, text[i + 1], h[i])
    BY <1>9, <2>1
  <2> QED
    BY <1>3, <2>1, <2>2, ScannedType
<1>12. Nat \subseteq T
  <2> HIDE DEF T
  <2> QED
    BY <1>10, <1>11, SetInduction
<1>13. \A i \in 0 .. Len(text) : h[i] \in Parses(S)
  BY <1>3, <1>12
<1>14. h \in [0 .. Len(text) -> Parses(S)]
  BY <1>9, <1>13
<1>15. ASSUME NEW i \in 1 .. Len(text) PROVE h[i] = next[<<text[i], h[i - 1]>>]
  <2>1. i - 1 \in 0 .. Len(text) /\ text[i] \in S
    BY <1>3
  <2>2. h[i - 1] \in Parses(S)
    BY <2>1, <1>13
  <2>3. next[<<text[i], h[i - 1]>>] = Scanned(d, text[i], h[i - 1])
    BY <2>1, <2>2 DEF next, Scanner
  <2> QED
    BY <2>3, <1>9
<1>16. Scans(h, text, next, Nothing)
  BY <1>9, <1>15 DEF Scans
<1>17. Parsed(text, d) = h[Len(text)]
  BY <1>7 DEF h
<1> QED
  BY <1>14, <1>16, <1>17 DEF next

(* The parser reads cell by cell. *)
LEMMA ParsedAppend ==
  ASSUME NEW S, NEW d, NEW text \in Seq(S)
  PROVE  /\ Parsed(text, d) \in Parses(S)
         /\ \A cell \in S : Parsed(Append(text, cell), d) = Scanned(d, cell, Parsed(text, d))
<1> DEFINE next == Scanner(S, d)
<1>1. PICK f : /\ f \in [0 .. Len(text) -> Parses(S)] /\ Scans(f, text, next, Nothing)
               /\ Parsed(text, d) = f[Len(text)]
  BY ParsedScans
<1>2. Parsed(text, d) \in Parses(S)
  BY <1>1, LenProperties
<1>3. ASSUME NEW cell \in S
      PROVE  Parsed(Append(text, cell), d) = Scanned(d, cell, Parsed(text, d))
  <2> DEFINE longer == Append(text, cell)
  <2>1. longer \in Seq(S)
    BY AppendProperties
  <2>2. PICK g : /\ Scans(g, longer, next, Nothing)
                 /\ Parsed(longer, d) = g[Len(longer)]
    <3> HIDE DEF longer
    <3> QED
      BY <2>1, ParsedScans
  <2>3. g[Len(longer)] = Step(next, cell, f[Len(text)])
    <3>1. /\ Scans(f, text, next, Nothing) /\ Scans(g, longer, next, Nothing)
          /\ Longer(longer, text, cell)
      BY <1>1, <2>2 DEF Longer
    <3> HIDE DEF next, longer
    <3> QED
      BY <3>1, ScanAppend
  <2>4. Step(next, cell, f[Len(text)]) = Scanned(d, cell, Parsed(text, d))
    BY <1>1, <1>2 DEF Scanner, Step
  <2> QED
    BY <2>2, <2>3, <2>4
<1> QED
  BY <1>2, <1>3

LEMMA ParsedEmpty ==
  ASSUME NEW d
  PROVE  Parsed(<<>>, d) = Nothing
<1>1. <<>> \in Seq({}) /\ Len(<<>>) = 0
  BY EmptySeq
<1>2. PICK f : Scans(f, <<>>, Scanner({}, d), Nothing) /\ Parsed(<<>>, d) = f[Len(<<>>)]
  BY <1>1, ParsedScans
<1> QED
  BY <1>1, <1>2 DEF Scans

-----------------------------------------------------------------------------
(***************************************************************************)
(* Where the pieces are: piece a begins at b[a], at the start of the text  *)
(* or behind a delimiter, and ends before one.                             *)
(***************************************************************************)
At(text, from, piece) == \A j \in 1 .. Len(piece) : piece[j] = text[from + j - 1]

Without(piece, d) == \A j \in 1 .. Len(piece) : piece[j] # d

Begins(text, d, from) == from = 1 \/ text[from - 1] = d

PieceAt(text, d, piece, from) ==
  /\ from \in Nat \ {0} /\ from + Len(piece) <= Len(text)
  /\ text[from + Len(piece)] = d
  /\ At(text, from, piece) /\ Without(piece, d) /\ Begins(text, d, from)

RestAt(text, d, rest, from) ==
  /\ from \in Nat \ {0} /\ from + Len(rest) = Len(text) + 1
  /\ At(text, from, rest) /\ Without(rest, d) /\ Begins(text, d, from)

Located(text, d, found, b) ==
  /\ \A a \in 1 .. Len(found.pieces) : PieceAt(text, d, found.pieces[a], b[a])
  /\ RestAt(text, d, found.rest, b[Len(found.pieces) + 1])
  /\ \A a, c \in 1 .. Len(found.pieces) + 1 : a < c => b[a] < b[c]

(* A longer text has what a shorter one had. *)
LEMMA AtAppend ==
  ASSUME NEW S, NEW text \in Seq(S), NEW cell \in S, NEW d,
         NEW piece \in Seq(S), NEW from \in Nat \ {0}, from + Len(piece) <= Len(text) + 1
  PROVE  /\ At(text, from, piece) => At(Append(text, cell), from, piece)
         /\ Begins(text, d, from) => Begins(Append(text, cell), d, from)
<1>1. /\ Len(text) \in Nat /\ Len(piece) \in Nat
      /\ \A i \in 1 .. Len(text) : Append(text, cell)[i] = text[i]
  BY AppendProperties, LenProperties
<1>2. \A j \in 1 .. Len(piece) : from + j - 1 \in 1 .. Len(text)
  BY <1>1
<1>3. from # 1 => from - 1 \in 1 .. Len(text)
  BY <1>1
<1> QED
  BY <1>1, <1>2, <1>3 DEF At, Begins

LEMMA PieceAppend ==
  ASSUME NEW S, NEW text \in Seq(S), NEW cell \in S, NEW d, NEW piece \in Seq(S), NEW from,
         PieceAt(text, d, piece, from)
  PROVE  PieceAt(Append(text, cell), d, piece, from)
<1>1. /\ Len(text) \in Nat /\ Len(piece) \in Nat /\ Len(Append(text, cell)) = Len(text) + 1
      /\ \A i \in 1 .. Len(text) : Append(text, cell)[i] = text[i]
  BY AppendProperties, LenProperties
<1>2. /\ from \in Nat \ {0} /\ from + Len(piece) <= Len(text) /\ text[from + Len(piece)] = d
      /\ At(text, from, piece) /\ Without(piece, d) /\ Begins(text, d, from)
  BY DEF PieceAt
<1>3. from + Len(piece) \in 1 .. Len(text) /\ from + Len(piece) <= Len(text) + 1
  BY <1>1, <1>2
<1>4. At(Append(text, cell), from, piece) /\ Begins(Append(text, cell), d, from)
  BY <1>2, <1>3, AtAppend
<1> QED
  BY <1>1, <1>2, <1>3, <1>4 DEF PieceAt

(* A delimiter makes the rest a piece. *)
LEMMA RestBecomesPiece ==
  ASSUME NEW S, NEW text \in Seq(S), NEW d \in S, NEW rest \in Seq(S), NEW from,
         RestAt(text, d, rest, from)
  PROVE  /\ PieceAt(Append(text, d), d, rest, from)
         /\ RestAt(Append(text, d), d, <<>>, Len(text) + 2)
         /\ from < Len(text) + 2
<1>1. /\ Len(text) \in Nat /\ Len(rest) \in Nat /\ Len(Append(text, d)) = Len(text) + 1
      /\ Append(text, d)[Len(text) + 1] = d
  BY AppendProperties, LenProperties
<1>2. /\ from \in Nat \ {0} /\ from + Len(rest) = Len(text) + 1
      /\ At(text, from, rest) /\ Without(rest, d) /\ Begins(text, d, from)
  BY DEF RestAt
<1>3. from + Len(rest) <= Len(text) + 1
  BY <1>1, <1>2
<1>4. At(Append(text, d), from, rest) /\ Begins(Append(text, d), d, from)
  BY <1>2, <1>3, AtAppend
<1>5. PieceAt(Append(text, d), d, rest, from)
  BY <1>1, <1>2, <1>4 DEF PieceAt
<1>6. RestAt(Append(text, d), d, <<>>, Len(text) + 2)
  <2>1. Len(<<>>) = 0 /\ (Len(text) + 2) - 1 = Len(text) + 1
    BY <1>1
  <2> QED
    BY <1>1, <2>1 DEF RestAt, At, Without, Begins
<1> QED
  BY <1>1, <1>2, <1>5, <1>6

(* Any other cell makes the rest longer. *)
LEMMA RestAppend ==
  ASSUME NEW S, NEW text \in Seq(S), NEW cell \in S, NEW d, cell # d,
         NEW rest \in Seq(S), NEW from, RestAt(text, d, rest, from)
  PROVE  RestAt(Append(text, cell), d, Append(rest, cell), from)
<1>1. /\ Len(text) \in Nat /\ Len(Append(text, cell)) = Len(text) + 1
      /\ Append(text, cell)[Len(text) + 1] = cell
      /\ Len(rest) \in Nat /\ Len(Append(rest, cell)) = Len(rest) + 1
      /\ Append(rest, cell)[Len(rest) + 1] = cell
      /\ \A j \in 1 .. Len(rest) : Append(rest, cell)[j] = rest[j]
  BY AppendProperties, LenProperties
<1>2. /\ from \in Nat \ {0} /\ from + Len(rest) = Len(text) + 1
      /\ At(text, from, rest) /\ Without(rest, d) /\ Begins(text, d, from)
  BY DEF RestAt
<1>3. from + Len(rest) <= Len(text) + 1
  BY <1>1, <1>2
<1>4. At(Append(text, cell), from, rest) /\ Begins(Append(text, cell), d, from)
  BY <1>2, <1>3, AtAppend
<1>5. ASSUME NEW j \in 1 .. Len(Append(rest, cell))
      PROVE  Append(rest, cell)[j] = Append(text, cell)[from + j - 1] /\ Append(rest, cell)[j] # d
  <2>1. CASE j \in 1 .. Len(rest)
    <3>1. Append(rest, cell)[j] = rest[j]
      BY <2>1, <1>1
    <3>2. rest[j] = Append(text, cell)[from + j - 1]
      BY <2>1, <1>4 DEF At
    <3>3. rest[j] # d
      BY <2>1, <1>2 DEF Without
    <3> QED
      BY <3>1, <3>2, <3>3
  <2>2. CASE j = Len(rest) + 1
    <3>1. from + j - 1 = Len(text) + 1
      BY <2>2, <1>1, <1>2
    <3> QED
      BY <2>2, <3>1, <1>1
  <2>3. j \in 1 .. Len(rest) \/ j = Len(rest) + 1
    <3>1. j \in 1 .. Len(rest) + 1
      BY <1>1
    <3> QED
      BY <3>1, <1>1
  <2> QED
    BY <2>1, <2>2, <2>3
<1>6. from + Len(Append(rest, cell)) = Len(Append(text, cell)) + 1
  BY <1>1, <1>2
<1> QED
  BY <1>2, <1>4, <1>5, <1>6 DEF RestAt, At, Without

(* Every text can be divided so. *)
LEMMA ParsedLocated ==
  ASSUME NEW S, NEW d \in S
  PROVE  \A text \in Seq(S) : \E b : Located(text, d, Parsed(text, d), b)
<1> DEFINE T == {text \in Seq(S) : \E b : Located(text, d, Parsed(text, d), b)}
<1>1. <<>> \in T
  <2> DEFINE b == [a \in {1} |-> 1]
  <2>1. Parsed(<<>>, d) = Nothing /\ Len(Nothing.pieces) = 0 /\ Nothing.rest = <<>>
    BY ParsedEmpty, EmptySeq DEF Nothing
  <2>2. RestAt(<<>>, d, <<>>, 1)
    BY EmptySeq DEF RestAt, At, Without, Begins
  <2>3. Located(<<>>, d, Nothing, b)
    BY <2>1, <2>2 DEF Located
  <2> QED
    BY <2>1, <2>3, EmptySeq
<1>2. ASSUME NEW text \in Seq(S), NEW cell \in S, text \in T
      PROVE  Append(text, cell) \in T
  <2> DEFINE found == Parsed(text, d)
             more == Parsed(Append(text, cell), d)
             n == Len(found.pieces)
  <2>1. PICK b : Located(text, d, found, b)
    BY <1>2
  <2>2. found \in Parses(S) /\ more = Scanned(d, cell, found) /\ Append(text, cell) \in Seq(S)
    BY ParsedAppend, AppendProperties
  <2> HIDE DEF found, more
  <2>3. /\ found.pieces \in Seq(Seq(S)) /\ found.rest \in Seq(S) /\ n \in Nat
        /\ \A a \in 1 .. n : found.pieces[a] \in Seq(S)
    BY <2>2, ElementOfSeq, LenProperties DEF Parses
  <2>4. /\ \A a \in 1 .. n : PieceAt(text, d, found.pieces[a], b[a])
        /\ RestAt(text, d, found.rest, b[n + 1])
        /\ \A a, c \in 1 .. n + 1 : a < c => b[a] < b[c]
    BY <2>1 DEF Located
  <2>5. \A a \in 1 .. n : PieceAt(Append(text, cell), d, found.pieces[a], b[a])
    BY <2>3, <2>4, PieceAppend
  <2>6. CASE cell = d
    <3> DEFINE c == [a \in 1 .. n + 2 |-> IF a = n + 2 THEN Len(text) + 2 ELSE b[a]]
    <3>1. more = [pieces |-> Append(found.pieces, found.rest), rest |-> <<>>]
      BY <2>2, <2>6 DEF Scanned
    <3>2. /\ Len(more.pieces) = n + 1 /\ more.rest = <<>>
          /\ more.pieces[n + 1] = found.rest
          /\ \A a \in 1 .. n : more.pieces[a] = found.pieces[a]
      BY <3>1, <2>3, AppendProperties
    <3>3. /\ PieceAt(Append(text, cell), d, found.rest, b[n + 1])
          /\ RestAt(Append(text, cell), d, <<>>, Len(text) + 2)
          /\ b[n + 1] < Len(text) + 2
      BY <2>3, <2>4, <2>6, RestBecomesPiece
    <3>4. c[n + 2] = Len(text) + 2 /\ \A a \in 1 .. n + 1 : c[a] = b[a]
      BY <2>3
    <3> HIDE DEF c
    <3>5. \A a \in 1 .. n + 1 : PieceAt(Append(text, cell), d, more.pieces[a], c[a])
      <4>1. \A a \in 1 .. n + 1 : a \in 1 .. n \/ a = n + 1
        BY <2>3
      <4>2. \A a \in 1 .. n : PieceAt(Append(text, cell), d, more.pieces[a], c[a])
        <5>1. \A a \in 1 .. n : a \in 1 .. n + 1
          BY <2>3
        <5> QED
          BY <5>1, <2>5, <3>2, <3>4
      <4>3. n + 1 \in 1 .. n + 1
        BY <2>3
      <4>4. PieceAt(Append(text, cell), d, more.pieces[n + 1], c[n + 1])
        BY <4>3, <3>2, <3>3, <3>4
      <4> QED
        BY <4>1, <4>2, <4>4
    <3>6. b[n + 1] \in Nat /\ Len(text) \in Nat /\ \A a \in 1 .. n : b[a] \in Nat
      BY <2>4, LenProperties DEF PieceAt, RestAt
    <3>7. ASSUME NEW a \in 1 .. n + 2, NEW e \in 1 .. n + 2, a < e PROVE c[a] < c[e]
      <4>1. CASE e = n + 2
        <5>1. a \in 1 .. n + 1 /\ n + 1 \in 1 .. n + 1 /\ (a \in 1 .. n \/ a = n + 1)
          BY <2>3, <3>7, <4>1
        <5>2. c[a] = b[a] /\ c[e] = Len(text) + 2
          BY <3>4, <4>1, <5>1
        <5>3. a \in 1 .. n => b[a] < b[n + 1] /\ b[a] \in Nat
          <6>1. a \in 1 .. n => a < n + 1
            BY <2>3
          <6>2. a < n + 1 => b[a] < b[n + 1]
            BY <2>4, <5>1
          <6> QED
            BY <6>1, <6>2, <3>6
        <5> HIDE DEF n
        <5> QED
          BY <3>3, <3>6, <5>1, <5>2, <5>3
      <4>2. CASE e # n + 2
        <5>1. a \in 1 .. n + 1 /\ e \in 1 .. n + 1
          BY <2>3, <3>7, <4>2
        <5> QED
          BY <2>4, <3>4, <3>7, <5>1
      <4> QED
        BY <4>1, <4>2
    <3>8. Len(more.pieces) + 1 = n + 2
      BY <2>3, <3>2
    <3>9. Located(Append(text, cell), d, more, c)
      BY <3>2, <3>3, <3>4, <3>5, <3>7, <3>8 DEF Located
    <3> QED
      BY <2>2, <3>9 DEF more
  <2>7. CASE cell # d
    <3>1. more = [pieces |-> found.pieces, rest |-> Append(found.rest, cell)]
      BY <2>2, <2>7 DEF Scanned
    <3>2. RestAt(Append(text, cell), d, Append(found.rest, cell), b[n + 1])
      BY <2>3, <2>4, <2>7, RestAppend
    <3>3. Located(Append(text, cell), d, more, b)
      BY <2>4, <2>5, <3>1, <3>2 DEF Located
    <3> QED
      BY <2>2, <3>3 DEF more
  <2> QED
    BY <2>6, <2>7
<1> HIDE DEF T
<1>3. Seq(S) \subseteq T
  BY <1>1, <1>2, AppendInduction
<1> QED
  BY <1>3 DEF T

-----------------------------------------------------------------------------
(***************************************************************************)
(* CompletedName, on a line that begins with its only mark.                *)
(***************************************************************************)
Kept(cell, name) == IF cell = Mark THEN name ELSE Append(name, cell)

Keeper == [p \in Cells \X Seq(Cells) |-> Kept(p[1], p[2])]

(* CompletedName is computed along the cells of the line. *)
LEMMA CompletedNameScans ==
  ASSUME NEW line \in Seq(Cells)
  PROVE  \E f : /\ f \in [0 .. Len(line) -> Seq(Cells)]
                /\ Scans(f, line, Keeper, <<>>)
                /\ CompletedName(line) = f[Len(line)]
<1> DEFINE Rec(g) == g = [i \in 0 .. Len(line) |->
                            IF i = 0 THEN <<>>
                            ELSE IF line[i] = Mark THEN g[i - 1]
                            ELSE Append(g[i - 1], line[i])]
<1>1. Keeper \in Folds(Seq(Cells), Cells) /\ <<>> \in Seq(Cells)
  <2>1. \A cell \in Cells, name \in Seq(Cells) : Kept(cell, name) \in Seq(Cells)
    BY AppendProperties DEF Kept
  <2> QED
    BY <2>1, EmptySeq DEF Keeper, Folds
<1>2. Len(line) \in Nat /\ \A i \in 1 .. Len(line) : line[i] \in Cells
  BY ElementOfSeq, LenProperties
<1>3. PICK f \in [0 .. Len(line) -> Seq(Cells)] : Scans(f, line, Keeper, <<>>)
  BY <1>1, ScanExists
<1>4. ASSUME NEW i \in 1 .. Len(line)
      PROVE  f[i] = Kept(line[i], f[i - 1])
  <2>1. f[i] = Keeper[<<line[i], f[i - 1]>>]
    BY <1>3 DEF Scans
  <2>2. i - 1 \in 0 .. Len(line)
    BY <1>2
  <2>3. line[i] \in Cells /\ f[i - 1] \in Seq(Cells)
    BY <1>2, <1>3, <2>2
  <2> QED
    BY <2>1, <2>3 DEF Keeper
<1>5. Rec(f)
  <2>1. ASSUME NEW i \in 0 .. Len(line)
        PROVE  f[i] = IF i = 0 THEN <<>>
                      ELSE IF line[i] = Mark THEN f[i - 1]
                      ELSE Append(f[i - 1], line[i])
    <3>1. CASE i = 0
      BY <3>1, <1>3 DEF Scans
    <3>2. CASE i # 0
      <4>1. i \in 1 .. Len(line)
        BY <3>2
      <4> QED
        BY <3>2, <4>1, <1>4 DEF Kept
    <3> QED
      BY <3>1, <3>2
  <2>2. DOMAIN f = 0 .. Len(line) /\ f = [i \in DOMAIN f |-> f[i]]
    BY <1>3
  <2> QED
    BY <2>1, <2>2
<1>6. CompletedName(line) = (CHOOSE g : Rec(g))[Len(line)]
  BY DEF CompletedName
<1> DEFINE h == CHOOSE g : Rec(g)
<1>7. Rec(h)
  <2> HIDE DEF Rec
  <2> QED
    BY <1>5
<1> HIDE DEF h
<1>8. h = [i \in 0 .. Len(line) |-> h[i]] /\ h[0] = <<>>
  BY <1>2, <1>7
<1>9. ASSUME NEW i \in 1 .. Len(line) PROVE h[i] = Kept(line[i], h[i - 1])
  <2>1. i \in 0 .. Len(line) /\ i # 0
    BY <1>2
  <2> QED
    BY <1>7, <2>1 DEF Kept
<1> HIDE DEF Rec
<1> DEFINE T == {i \in Nat : i <= Len(line) => h[i] \in Seq(Cells)}
<1>10. 0 \in T
  BY <1>8, EmptySeq
<1>11. ASSUME NEW i \in Nat, i \in T PROVE i + 1 \in T
  <2> SUFFICES ASSUME i + 1 <= Len(line) PROVE h[i + 1] \in Seq(Cells)
    OBVIOUS
  <2>1. i + 1 \in 1 .. Len(line) /\ (i + 1) - 1 = i /\ h[i] \in Seq(Cells)
    BY <1>2, <1>11
  <2>2. h[i + 1] = Kept(line[i + 1], h[i]) /\ line[i + 1] \in Cells
    BY <1>2, <1>9, <2>1
  <2> QED
    BY <2>1, <2>2, AppendProperties DEF Kept
<1>12. Nat \subseteq T
  <2> HIDE DEF T
  <2> QED
    BY <1>10, <1>11, SetInduction
<1>13. \A i \in 0 .. Len(line) : h[i] \in Seq(Cells)
  BY <1>2, <1>12
<1>14. h \in [0 .. Len(line) -> Seq(Cells)]
  BY <1>8, <1>13
<1>15. ASSUME NEW i \in 1 .. Len(line) PROVE h[i] = Keeper[<<line[i], h[i - 1]>>]
  <2>1. i - 1 \in 0 .. Len(line) /\ line[i] \in Cells
    BY <1>2
  <2> QED
    BY <2>1, <1>9, <1>13 DEF Keeper
<1> QED
  BY <1>6, <1>8, <1>14, <1>15 DEF Scans, h

(* Marks are removed, everything else is kept. *)
LEMMA CompletedNameAppend ==
  /\ CompletedName(<<>>) = <<>>
  /\ \A line \in Seq(Cells), cell \in Cells :
       /\ CompletedName(line) \in Seq(Cells)
       /\ CompletedName(Append(line, cell)) = Kept(cell, CompletedName(line))
<1>1. CompletedName(<<>>) = <<>>
  <2>1. <<>> \in Seq(Cells) /\ Len(<<>>) = 0
    BY EmptySeq
  <2>2. PICK f : Scans(f, <<>>, Keeper, <<>>) /\ CompletedName(<<>>) = f[Len(<<>>)]
    BY <2>1, CompletedNameScans
  <2> QED
    BY <2>1, <2>2 DEF Scans
<1>2. ASSUME NEW line \in Seq(Cells), NEW cell \in Cells
      PROVE  /\ CompletedName(line) \in Seq(Cells)
             /\ CompletedName(Append(line, cell)) = Kept(cell, CompletedName(line))
  <2> DEFINE longer == Append(line, cell)
  <2>1. PICK f : /\ f \in [0 .. Len(line) -> Seq(Cells)] /\ Scans(f, line, Keeper, <<>>)
                 /\ CompletedName(line) = f[Len(line)]
    BY CompletedNameScans
  <2>2. longer \in Seq(Cells)
    BY AppendProperties
  <2>3. PICK g : Scans(g, longer, Keeper, <<>>) /\ CompletedName(longer) = g[Len(longer)]
    <3> HIDE DEF longer
    <3> QED
      BY <2>2, CompletedNameScans
  <2>4. g[Len(longer)] = Step(Keeper, cell, f[Len(line)])
    <3> DEFINE nothing == <<>>
    <3>1. /\ Scans(f, line, Keeper, nothing) /\ Scans(g, longer, Keeper, nothing)
          /\ Longer(longer, line, cell)
      BY <2>1, <2>3 DEF Longer
    <3> HIDE DEF nothing, longer
    <3> QED
      BY <3>1, ScanAppend
  <2>5. f[Len(line)] \in Seq(Cells)
    BY <2>1, LenProperties
  <2>6. Step(Keeper, cell, f[Len(line)]) = Kept(cell, f[Len(line)])
    BY <2>5 DEF Keeper, Step
  <2> QED
    BY <2>1, <2>3, <2>4, <2>5, <2>6
<1> QED
  BY <1>1, <1>2

(* The line begins with a mark, and has no other. *)
OneMark(line) == line[1] = Mark /\ \A j \in 2 .. Len(line) : line[j] # Mark

Shifted(line, name) ==
  Len(name) = Len(line) - 1 /\ \A j \in 1 .. Len(line) - 1 : name[j] = line[j + 1]

LEMMA NameAfterMark ==
  \A line \in Seq(Cells) : line # <<>> /\ OneMark(line) => Shifted(line, CompletedName(line))
<1> DEFINE T == {line \in Seq(Cells) :
                   line # <<>> /\ OneMark(line) => Shifted(line, CompletedName(line))}
<1>1. <<>> \in T
  BY EmptySeq
<1>2. ASSUME NEW line \in Seq(Cells), NEW cell \in Cells, line \in T
      PROVE  Append(line, cell) \in T
  <2> DEFINE longer == Append(line, cell)
  <2>1. /\ longer \in Seq(Cells) /\ Len(longer) = Len(line) + 1 /\ longer[Len(line) + 1] = cell
        /\ Len(line) \in Nat
        /\ \A j \in 1 .. Len(line) : longer[j] = line[j]
    BY AppendProperties, LenProperties
  <2>2. CompletedName(longer) = Kept(cell, CompletedName(line)) /\ CompletedName(line) \in Seq(Cells)
    BY CompletedNameAppend
  <2> HIDE DEF longer
  <2> SUFFICES ASSUME OneMark(longer) PROVE Shifted(longer, CompletedName(longer))
    BY <2>1 DEF longer
  <2>3. CASE line = <<>>
    <3>1. Len(line) = 0 /\ cell = Mark
      BY <2>1, <2>3, EmptySeq DEF OneMark
    <3>2. CompletedName(longer) = <<>> /\ Len(<<>>) = 0
      BY <2>2, <2>3, <3>1, CompletedNameAppend, EmptySeq DEF Kept
    <3> QED
      BY <2>1, <3>1, <3>2 DEF Shifted
  <2>4. CASE line # <<>>
    <3> DEFINE name == CompletedName(line)
    <3>1. Len(line) \in Nat \ {0}
      BY <2>4, EmptySeq
    <3>2. OneMark(line) /\ cell # Mark
      <4>1. 1 \in 1 .. Len(line) /\ Len(line) + 1 \in 2 .. Len(longer)
        BY <2>1, <3>1
      <4>2. \A j \in 2 .. Len(line) : j \in 2 .. Len(longer) /\ j \in 1 .. Len(line)
        BY <2>1
      <4> QED
        BY <2>1, <4>1, <4>2 DEF OneMark
    <3>3. Shifted(line, name)
      BY <1>2, <2>4, <3>2
    <3>4. /\ CompletedName(longer) = Append(name, cell)
          /\ Len(Append(name, cell)) = Len(name) + 1 /\ Append(name, cell)[Len(name) + 1] = cell
          /\ \A j \in 1 .. Len(name) : Append(name, cell)[j] = name[j]
      BY <2>2, <3>2, AppendProperties DEF Kept
    <3> HIDE DEF name
    <3>5. Len(name) = Len(line) - 1
      BY <3>3 DEF Shifted
    <3>6. ASSUME NEW j \in 1 .. Len(longer) - 1 PROVE CompletedName(longer)[j] = longer[j + 1]
      <4>1. j \in 1 .. Len(line) - 1 \/ j = Len(line)
        BY <2>1, <3>1
      <4>2. CASE j \in 1 .. Len(line) - 1
        <5>1. j \in 1 .. Len(name) /\ j + 1 \in 1 .. Len(line)
          BY <3>1, <3>5, <4>2
        <5>2. name[j] = line[j + 1]
          BY <3>3, <4>2 DEF Shifted
        <5> QED
          BY <2>1, <3>4, <5>1, <5>2
      <4>3. CASE j = Len(line)
        BY <2>1, <3>1, <3>4, <3>5, <4>3
      <4> QED
        BY <4>1, <4>2, <4>3
    <3>7. Len(CompletedName(longer)) = Len(longer) - 1
      BY <2>1, <3>1, <3>4, <3>5
    <3> QED
      BY <3>6, <3>7 DEF Shifted
  <2> QED
    BY <2>3, <2>4
<1> HIDE DEF T
<1>3. Seq(Cells) \subseteq T
  BY <1>1, <1>2, AppendInduction
<1> QED
  BY <1>3 DEF T

-----------------------------------------------------------------------------
(***************************************************************************)
(* Types.                                                                  *)
(***************************************************************************)
LEMMA CellTypes ==
  /\ {Comma, Size, Mark, End, Junk} \subseteq Cells
  /\ \A f \in Files : File(f) \in Cells
  /\ \A s \in 1 .. NumServers : ServerName(s) \in Cells
  /\ MaxFiles \in Nat /\ NumServers \in Nat \ {0} /\ BufferSize \in Nat \ {0}
BY StreamAssumption DEF Cells

(* Types of cells tell them apart. *)
LEMMA CellsDiffer ==
  /\ Mark \notin {Comma, Size, End, Junk} /\ End \notin {Comma, Size, Junk} /\ Comma \notin {Size, Junk}
  /\ \A f : File(f) \notin {Comma, Size, Mark, End, Junk}
  /\ \A s : ServerName(s) \notin {Comma, Size, Mark, End, Junk}
  /\ \A f, s : File(f) # ServerName(s)
  /\ \A f, g : File(f) = File(g) => f = g
BY DEF Cell, File, ServerName, Comma, Size, Mark, End, Junk

LEMMA LineTypes ==
  /\ NamesMessage \in Seq(Cells) /\ Len(NamesMessage) = 2 * NumServers
  /\ \A f \in Files : RequestLine(f) \in Seq(Cells) /\ FinishedLine(f) \in Seq(Cells)
  /\ \A f \in Files : RequestLine(f) \in Lines /\ FinishedLine(f) \in Lines
<1>1. NamesMessage \in Seq(Cells) /\ Len(NamesMessage) = 2 * NumServers
  <2>1. 2 * NumServers \in Nat
    BY CellTypes
  <2>2. ASSUME NEW i \in 1 .. 2 * NumServers
        PROVE  (IF i % 2 = 1 THEN ServerName((i + 1) \div 2) ELSE Comma) \in Cells
    <3>1. CASE i % 2 = 1
      <4>1. (i + 1) \div 2 \in 1 .. NumServers
        BY CellTypes
      <4> QED
        BY <3>1, <4>1, CellTypes
    <3>2. CASE i % 2 # 1
      BY <3>2, CellTypes
    <3> QED
      BY <3>1, <3>2
  <2> QED
    BY <2>1, <2>2 DEF NamesMessage
<1>2. \A f \in Files : RequestLine(f) \in Seq(Cells) /\ FinishedLine(f) \in Seq(Cells)
  BY CellTypes DEF RequestLine, FinishedLine
<1> QED
  BY <1>1, <1>2 DEF Lines

LEMMA ParseType ==
  ASSUME NEW text \in Seq(Cells), NEW d
  PROVE  parse_with_delimiter(text, d) \in Seq(Seq(Cells))
BY ParsedAppend DEF parse_with_delimiter, Parses

LEMMA TextsType ==
  ASSUME NEW bytes \in Seq(Cells), NEW text \in Texts(bytes)
  PROVE  text \in Seq(Cells)
<1>1. <<Junk, End>> \in Seq(Cells)
  BY CellTypes
<1>2. bytes \o <<Junk, End>> \in Seq(Cells)
  BY <1>1, ConcatProperties
<1> QED
  BY <1>2 DEF Texts

(* Cells that are put over the first of the buffer. *)
Over(k, new) == new \o SubSeq(buffer, k + 1, Len(buffer))

LEMMA Overwritten ==
  ASSUME TypeOK, NEW k \in 1 .. BufferSize, NEW new \in Seq(Cells), Len(new) = k
  PROVE  /\ Over(k, new) \in Seq(Cells) /\ Len(Over(k, new)) <= BufferSize
         /\ Len(Over(k, new)) = IF Len(buffer) > k THEN Len(buffer) ELSE k
         /\ \A i \in 1 .. Len(Over(k, new)) :
              Over(k, new)[i] = IF i <= k THEN new[i] ELSE buffer[i]
<1> DEFINE old == SubSeq(buffer, k + 1, Len(buffer))
           both == Over(k, new)
<1>1. /\ buffer \in Seq(Cells) /\ Len(buffer) <= BufferSize
      /\ Len(buffer) \in Nat /\ BufferSize \in Nat /\ k \in Nat \ {0} /\ k <= BufferSize
      /\ both = new \o old
  BY CellTypes, LenProperties DEF TypeOK, Over
<1>2. \A i \in 1 .. Len(buffer) : buffer[i] \in Cells
  BY <1>1, ElementOfSeq
<1>3. /\ old \in Seq(Cells)
      /\ Len(old) = IF Len(buffer) > k THEN Len(buffer) - k ELSE 0
      /\ \A i \in 1 .. Len(buffer) - k : old[i] = buffer[k + i]
  <2>1. \A i \in k + 1 .. Len(buffer) : buffer[i] \in Cells
    BY <1>1, <1>2
  <2>2. k + 1 \in Int /\ Len(buffer) \in Int
    BY <1>1
  <2>3. /\ old \in Seq(Cells)
        /\ Len(old) = IF k + 1 <= Len(buffer) THEN Len(buffer) - (k + 1) + 1 ELSE 0
        /\ \A i \in 1 .. Len(buffer) - (k + 1) + 1 : old[i] = buffer[(k + 1) + i - 1]
    BY <2>1, <2>2, SubSeqProperties
  <2> HIDE DEF old
  <2>4. Len(old) = IF Len(buffer) > k THEN Len(buffer) - k ELSE 0
    BY <1>1, <2>3
  <2>5. ASSUME NEW i \in 1 .. Len(buffer) - k PROVE old[i] = buffer[k + i]
    <3>1. i \in 1 .. Len(buffer) - (k + 1) + 1 /\ (k + 1) + i - 1 = k + i
      BY <1>1
    <3>2. old[i] = buffer[(k + 1) + i - 1]
      BY <2>3, <3>1
    <3> QED
      BY <3>1, <3>2
  <2> QED
    BY <2>3, <2>4, <2>5
<1> HIDE DEF old, both
<1>4. /\ both \in Seq(Cells) /\ Len(both) = k + Len(old)
      /\ \A i \in 1 .. k + Len(old) : both[i] = IF i <= k THEN new[i] ELSE old[i - k]
  <2>1. /\ new \o old \in Seq(Cells) /\ Len(new \o old) = Len(new) + Len(old)
        /\ \A i \in 1 .. Len(new) + Len(old) :
             (new \o old)[i] = IF i <= Len(new) THEN new[i] ELSE old[i - Len(new)]
    BY <1>3, ConcatProperties
  <2> QED
    BY <1>1, <2>1
<1>5. Len(both) = IF Len(buffer) > k THEN Len(buffer) ELSE k
  BY <1>1, <1>3, <1>4
<1>6. ASSUME NEW i \in 1 .. Len(both)
      PROVE  both[i] = IF i <= k THEN new[i] ELSE buffer[i]
  <2>1. CASE i <= k
    BY <1>1, <1>4, <1>5, <2>1
  <2>2. CASE i > k
    <3>1. i - k \in 1 .. Len(buffer) - k /\ k + (i - k) = i
      BY <1>1, <1>5, <2>2
    <3>2. both[i] = old[i - k]
      <4>1. i \in 1 .. k + Len(old) /\ ~(i <= k)
        BY <1>1, <1>3, <1>4, <2>2
      <4> QED
        BY <1>4, <4>1
    <3>3. both[i] = buffer[i]
      BY <1>3, <3>1, <3>2
    <3>4. ~(i <= k)
      BY <1>1, <1>5, <2>2
    <3> QED
      BY <3>3, <3>4
  <2> QED
    BY <1>1, <2>1, <2>2
<1>7. Len(both) <= BufferSize
  BY <1>1, <1>5
<1>8. both = Over(k, new)
  BY DEF both
<1> QED
  BY <1>4, <1>5, <1>6, <1>7, <1>8

(* What a read of k whole cells leaves in the stream and in the buffer. *)
ReadsWhole(k) ==
  /\ Len(stream') = Len(stream) - k
  /\ \A i \in 1 .. Len(stream') : stream'[i] = stream[i + k]
  /\ \A i \in 1 .. Len(buffer') : buffer'[i] = IF i <= k THEN stream[i] ELSE buffer[i]

(* What a read leaves that ends inside the last of them. *)
ReadsPiece(k) ==
  /\ Divisible(stream[k]) /\ (WholeReads => k = BufferSize)
  /\ Len(stream') = Len(stream) - k + 1
  /\ \A i \in 1 .. Len(stream') : stream'[i] = IF i = 1 THEN Junk ELSE stream[i + k - 1]
  /\ \A i \in 1 .. Len(buffer') :
       buffer'[i] = IF i < k THEN stream[i] ELSE IF i = k THEN Junk ELSE buffer[i]

LEMMA ReadIntoCells ==
  ASSUME TypeOK, NEW k \in 1 .. BufferSize, ReadInto(k)
  PROVE  /\ k <= Len(stream)
         /\ stream' \in Seq(Cells)
         /\ buffer' \in Seq(Cells) /\ Len(buffer') <= BufferSize
         /\ Len(buffer') = IF Len(buffer) > k THEN Len(buffer) ELSE k
         /\ ReadsWhole(k) \/ ReadsPiece(k)
<1> DEFINE rest == SubSeq(stream, k + 1, Len(stream))
           whole == SubSeq(stream, 1, k)
           most == SubSeq(stream, 1, k - 1)
<1>a. \/ buffer' = Over(k, whole) /\ stream' = rest
      \/ /\ Divisible(stream[k]) /\ (WholeReads => k = BufferSize)
         /\ buffer' = Over(k, Append(most, Junk)) /\ stream' = <<Junk>> \o rest
  BY DEF ReadInto, ReadBeforeOld, Over
<1>b. k \in 1 .. Len(stream)
  BY DEF ReadInto, ReadBeforeOld
<1>c. stream \in Seq(Cells) /\ BufferSize \in Nat \ {0} /\ Junk \in Cells
  BY CellTypes DEF TypeOK
<1> HIDE DEF rest, whole, most
<1>1. /\ stream \in Seq(Cells) /\ Len(stream) \in Nat /\ BufferSize \in Nat
      /\ k \in Nat \ {0} /\ k <= Len(stream) /\ k <= BufferSize
      /\ Junk \in Cells
  BY <1>b, <1>c, LenProperties
<1> USE DEF rest, whole, most
<1>2. \A i \in 1 .. Len(stream) : stream[i] \in Cells
  BY <1>1, ElementOfSeq
<1>3. whole \in Seq(Cells) /\ Len(whole) = k /\ \A i \in 1 .. k : whole[i] = stream[i]
  <2>1. \A i \in 1 .. k : stream[i] \in Cells
    BY <1>1, <1>2
  <2> QED
    BY <1>1, <2>1, SubSeqProperties
<1>4. /\ most \in Seq(Cells) /\ Len(most) = k - 1
      /\ \A i \in 1 .. k - 1 : most[i] = stream[i]
  <2>1. \A i \in 1 .. k - 1 : stream[i] \in Cells
    BY <1>1, <1>2
  <2>2. 1 \in Int /\ k - 1 \in Int
    BY <1>1
  <2>3. /\ most \in Seq(Cells)
        /\ Len(most) = IF 1 <= k - 1 THEN (k - 1) - 1 + 1 ELSE 0
        /\ \A i \in 1 .. (k - 1) - 1 + 1 : most[i] = stream[1 + i - 1]
    BY <2>1, <2>2, SubSeqProperties
  <2> HIDE DEF most
  <2>4. Len(most) = k - 1 /\ (k - 1) - 1 + 1 = k - 1
    BY <1>1, <2>3
  <2>5. \A i \in 1 .. k - 1 : 1 + i - 1 = i
    BY <1>1
  <2> QED
    BY <2>3, <2>4, <2>5
<1>5. /\ rest \in Seq(Cells) /\ Len(rest) = Len(stream) - k
      /\ \A i \in 1 .. Len(stream) - k : rest[i] = stream[i + k]
  <2>1. \A i \in k + 1 .. Len(stream) : stream[i] \in Cells
    BY <1>1, <1>2
  <2>2. k + 1 \in Int /\ Len(stream) \in Int
    BY <1>1
  <2>3. /\ rest \in Seq(Cells)
        /\ Len(rest) = IF k + 1 <= Len(stream) THEN Len(stream) - (k + 1) + 1 ELSE 0
        /\ \A i \in 1 .. Len(stream) - (k + 1) + 1 : rest[i] = stream[(k + 1) + i - 1]
    BY <2>1, <2>2, SubSeqProperties
  <2> HIDE DEF rest
  <2>4. Len(rest) = Len(stream) - k /\ Len(stream) - (k + 1) + 1 = Len(stream) - k
    BY <1>1, <2>3
  <2>5. ASSUME NEW i \in 1 .. Len(stream) - k PROVE rest[i] = stream[i + k]
    <3>1. i \in 1 .. Len(stream) - (k + 1) + 1 /\ (k + 1) + i - 1 = i + k
      BY <1>1, <2>4
    <3>2. rest[i] = stream[(k + 1) + i - 1]
      BY <2>3, <3>1
    <3> QED
      BY <3>1, <3>2
  <2>6. rest \in Seq(Cells)
    BY <2>3
  <2> QED
    BY <2>4, <2>5, <2>6
<1> HIDE DEF rest, whole, most
<1>6. CASE buffer' = Over(k, whole) /\ stream' = rest
  <2>1. /\ buffer' \in Seq(Cells) /\ Len(buffer') <= BufferSize
        /\ Len(buffer') = IF Len(buffer) > k THEN Len(buffer) ELSE k
        /\ \A i \in 1 .. Len(buffer') : buffer'[i] = IF i <= k THEN whole[i] ELSE buffer[i]
    BY <1>3, <1>6, Overwritten
  <2>2. \A i \in 1 .. Len(buffer') : i <= k => i \in 1 .. k
    BY <1>1
  <2>3. \A i \in 1 .. Len(buffer') : buffer'[i] = IF i <= k THEN stream[i] ELSE buffer[i]
    BY <1>3, <2>1, <2>2
  <2> QED
    BY <1>1, <1>5, <1>6, <2>1, <2>3 DEF ReadsWhole
<1>7. CASE /\ Divisible(stream[k]) /\ (WholeReads => k = BufferSize)
           /\ buffer' = Over(k, Append(most, Junk)) /\ stream' = <<Junk>> \o rest
  <2> DEFINE new == Append(most, Junk)
             piece == <<Junk>>
  <2>1. /\ new \in Seq(Cells) /\ Len(new) = k /\ new[k] = Junk
        /\ \A i \in 1 .. k - 1 : new[i] = stream[i]
    <3>1. /\ new \in Seq(Cells) /\ Len(new) = Len(most) + 1 /\ new[Len(most) + 1] = Junk
          /\ \A i \in 1 .. Len(most) : new[i] = most[i]
      BY <1>1, <1>4, AppendProperties
    <3>2. Len(most) + 1 = k
      BY <1>1, <1>4
    <3> QED
      BY <1>4, <3>1, <3>2
  <2>2. piece \in Seq(Cells) /\ Len(piece) = 1 /\ piece[1] = Junk
    BY <1>1
  <2> HIDE DEF new, piece
  <2>3. buffer' = Over(k, new) /\ stream' = piece \o rest
    BY <1>7 DEF new, piece
  <2>4. /\ buffer' \in Seq(Cells) /\ Len(buffer') <= BufferSize
        /\ Len(buffer') = IF Len(buffer) > k THEN Len(buffer) ELSE k
        /\ \A i \in 1 .. Len(buffer') : buffer'[i] = IF i <= k THEN new[i] ELSE buffer[i]
    BY <2>1, <2>3, Overwritten
  <2>5. /\ stream' \in Seq(Cells) /\ Len(stream') = 1 + Len(rest)
        /\ \A i \in 1 .. 1 + Len(rest) : stream'[i] = IF i <= 1 THEN piece[i] ELSE rest[i - 1]
    <3>1. /\ piece \o rest \in Seq(Cells) /\ Len(piece \o rest) = Len(piece) + Len(rest)
          /\ \A i \in 1 .. Len(piece) + Len(rest) :
               (piece \o rest)[i] = IF i <= Len(piece) THEN piece[i] ELSE rest[i - Len(piece)]
      BY <1>5, <2>2, ConcatProperties
    <3> QED
      BY <2>2, <2>3, <3>1
  <2>6. ASSUME NEW i \in 1 .. Len(buffer')
        PROVE  buffer'[i] = IF i < k THEN stream[i] ELSE IF i = k THEN Junk ELSE buffer[i]
    <3>1. i < k => i \in 1 .. k - 1
      BY <1>1
    <3>2. buffer'[i] = IF i <= k THEN new[i] ELSE buffer[i]
      BY <2>4
    <3>3. i \in Int
      OBVIOUS
    <3> QED
      BY <1>1, <2>1, <3>1, <3>2, <3>3
  <2>7. ASSUME NEW i \in 1 .. Len(stream')
        PROVE  stream'[i] = IF i = 1 THEN Junk ELSE stream[i + k - 1]
    <3>1. CASE i = 1
      <4>1. 1 \in 1 .. 1 + Len(rest) /\ 1 <= 1
        BY <2>5, <3>1
      <4>2. stream'[1] = piece[1]
        BY <2>5, <4>1
      <4> QED
        BY <2>2, <3>1, <4>2
    <3>2. CASE i # 1
      <4>1. i - 1 \in 1 .. Len(stream) - k /\ (i - 1) + k = i + k - 1 /\ ~(i <= 1)
        BY <1>1, <1>5, <2>5, <3>2
      <4>2. stream'[i] = rest[i - 1]
        BY <2>5, <4>1
      <4> QED
        BY <1>5, <3>2, <4>1, <4>2
    <3> QED
      BY <3>1, <3>2
  <2>8. Len(stream') = Len(stream) - k + 1
    BY <1>1, <1>5, <2>5
  <2> QED
    BY <1>1, <1>7, <2>4, <2>5, <2>6, <2>7, <2>8 DEF ReadsPiece
<1> QED
  BY <1>1, <1>a, <1>6, <1>7

(***************************************************************************)
(* Either way the cells move forward by some m; the first that stays may   *)
(* be a piece, and so may the last that was taken.                         *)
(***************************************************************************)
LEMMA ReadMoves ==
  ASSUME TypeOK, NEW k \in 1 .. BufferSize, ReadInto(k)
  PROVE  \E m \in {k - 1, k} :
           /\ m \in Nat /\ m <= Len(stream) /\ Len(stream') = Len(stream) - m
           /\ \A i \in 1 .. Len(stream') :
                \/ stream'[i] = stream[i + m]
                \/ i = 1 /\ stream'[i] = Junk /\ Divisible(stream[i + m])
<1>1. k \in Nat \ {0} /\ k <= Len(stream) /\ Len(stream) \in Nat /\ k - 1 \in Nat
  BY ReadIntoCells, CellTypes, LenProperties DEF TypeOK
<1>2. CASE ReadsWhole(k)
  BY <1>1, <1>2 DEF ReadsWhole
<1>3. CASE ReadsPiece(k)
  <2> DEFINE m == k - 1
  <2>1. Len(stream') = Len(stream) - m /\ m <= Len(stream)
    BY <1>1, <1>3 DEF ReadsPiece
  <2>2. ASSUME NEW i \in 1 .. Len(stream')
        PROVE  \/ stream'[i] = stream[i + m]
               \/ i = 1 /\ stream'[i] = Junk /\ Divisible(stream[i + m])
    <3>1. i + m = i + k - 1 /\ (i = 1 => i + m = k)
      BY <1>1
    <3>2. stream'[i] = IF i = 1 THEN Junk ELSE stream[i + k - 1]
      BY <1>3 DEF ReadsPiece
    <3> QED
      BY <1>3, <3>1, <3>2 DEF ReadsPiece
  <2> QED
    BY <1>1, <2>1, <2>2
<1> QED
  BY <1>2, <1>3, ReadIntoCells

LEMMA ReadFills ==
  ASSUME TypeOK, NEW k \in 1 .. BufferSize, ReadInto(k), NEW i \in 1 .. Len(buffer')
  PROVE  /\ i > k => buffer'[i] = buffer[i]
         /\ i <= k => buffer'[i] = stream[i] \/ (i = k /\ buffer'[i] = Junk /\ Divisible(stream[i]))
<1>1. k \in Nat /\ i \in Nat
  BY CellTypes
<1>2. ReadsWhole(k) \/ ReadsPiece(k)
  BY ReadIntoCells
<1> QED
  BY <1>1, <1>2 DEF ReadsWhole, ReadsPiece

LEMMA WriteLineType ==
  ASSUME TypeOK, NEW line \in Lines, WriteLine(line)
  PROVE  stream' \in Seq(Cells) /\ sent' \in Seq(Lines)
<1>1. line \in Seq(Cells) /\ <<End>> \in Seq(Cells)
  BY LineTypes, CellTypes DEF Lines
<1>2. stream' = stream \o line \o <<End>> /\ sent' = Append(sent, line)
  BY DEF WriteLine
<1>3. stream \o line \in Seq(Cells)
  BY <1>1, ConcatProperties DEF TypeOK
<1> QED
  BY <1>1, <1>2, <1>3, ConcatProperties, AppendProperties DEF TypeOK

LEMMA EmulatorType == TypeOK /\ Emulator => TypeOK'
<1> SUFFICES ASSUME TypeOK, Emulator PROVE TypeOK'
  OBVIOUS
<1>1. CASE Announce
  <2>1. stream' \in Seq(Cells)
    BY <1>1, LineTypes, ConcatProperties DEF Announce, TypeOK
  <2> QED
    BY <1>1, <2>1 DEF Announce, TypeOK, loop, balancer
<1>2. CASE Submit
  <2>1. submitted + 1 \in Files /\ submitted' = submitted + 1
    BY <1>2, CellTypes DEF Submit, TypeOK, Files
  <2>2. stream' \in Seq(Cells) /\ sent' \in Seq(Lines)
    BY <1>2, <2>1, LineTypes, WriteLineType DEF Submit
  <2>3. submitted' \in 0 .. MaxFiles
    BY <2>1, CellTypes DEF Files
  <2> QED
    BY <1>2, <2>2, <2>3 DEF Submit, WriteLine, TypeOK, loop, balancer
<1>3. ASSUME NEW f \in Files, Finish(f) PROVE TypeOK'
  <2>1. stream' \in Seq(Cells) /\ sent' \in Seq(Lines)
    BY <1>3, LineTypes, WriteLineType DEF Finish
  <2> QED
    BY <1>3, <2>1 DEF Finish, WriteLine, TypeOK, loop, balancer
<1> QED
  BY <1>1, <1>2, <1>3 DEF Emulator

LEMMA ReadNamesType == TypeOK /\ Starting /\ ReadNames => TypeOK'
<1> SUFFICES ASSUME TypeOK, Starting, ReadNames PROVE TypeOK'
  OBVIOUS
<1>1. stream' \in Seq(Cells) /\ buffer' \in Seq(Cells) /\ Len(buffer') <= BufferSize
  <2>1. CASE \E k \in 1 .. BufferSize : ReadInto(k)
    BY <2>1, ReadIntoCells
  <2>2. CASE UNCHANGED <<stream, buffer>>
    BY <2>2 DEF TypeOK
  <2> QED
    BY <2>1, <2>2 DEF ReadNames
<1>2. servers' \in Seq(Seq(Cells))
  BY <1>1, TextsType, ParseType DEF ReadNames
<1>3. /\ queued' \in [DOMAIN servers' -> Nat] /\ load' \in [DOMAIN servers' -> Int]
  BY DEF ReadNames
<1>4. DOMAIN processing = {}
  BY DEF ReadNames, Starting
<1> QED
  BY <1>1, <1>2, <1>3, <1>4 DEF ReadNames, TypeOK, emulator

LEMMA ReadLinesType == TypeOK /\ ReadLines => TypeOK'
<1> SUFFICES ASSUME TypeOK, ReadLines PROVE TypeOK'
  OBVIOUS
<1>1. PICK k \in 1 .. BufferSize : ReadInto(k)
  BY DEF ReadLines
<1>2. stream' \in Seq(Cells) /\ buffer' \in Seq(Cells) /\ Len(buffer') <= BufferSize
  BY <1>1, ReadIntoCells
<1>3. lines' \in Seq(Seq(Cells))
  BY <1>2, TextsType, ParseType DEF ReadLines
<1>4. nexts' \in Nat
  BY <1>3, LenProperties DEF ReadLines, EventCount
<1>5. spoiled' \in BOOLEAN
  BY DEF ReadLines, TypeOK
<1> QED
  BY <1>2, <1>3, <1>4, <1>5 DEF ReadLines, TypeOK, emulator, balancer

(* The line always has a first piece. *)
LEMMA RequestParsed ==
  ASSUME NEW line \in Seq(Cells)
  PROVE  /\ parse_with_delimiter(Append(line, Comma), Comma) \in Seq(Seq(Cells))
         /\ Len(parse_with_delimiter(Append(line, Comma), Comma)) \in Nat \ {0}
         /\ parse_with_delimiter(Append(line, Comma), Comma)[1] \in Seq(Cells)
<1> DEFINE found == Parsed(line, Comma)
           parsed == parse_with_delimiter(Append(line, Comma), Comma)
<1>1. found \in Parses(Cells)
  BY ParsedAppend
<1>2. parsed = Append(found.pieces, found.rest)
  <2>1. Parsed(Append(line, Comma), Comma) = Scanned(Comma, Comma, found)
    BY ParsedAppend, CellTypes
  <2> QED
    BY <2>1 DEF parse_with_delimiter, Scanned
<1>3. found.pieces \in Seq(Seq(Cells)) /\ found.rest \in Seq(Cells)
  BY <1>1 DEF Parses
<1> HIDE DEF found
<1>4. parsed \in Seq(Seq(Cells)) /\ Len(parsed) = Len(found.pieces) + 1
  BY <1>2, <1>3, AppendProperties
<1>5. Len(found.pieces) \in Nat
  BY <1>3, LenProperties
<1> HIDE DEF parsed
<1>6. 1 \in 1 .. Len(parsed) /\ Len(parsed) \in Nat \ {0}
  BY <1>4, <1>5
<1>7. parsed[1] \in Seq(Cells)
  BY <1>4, <1>6, ElementOfSeq
<1> QED
  BY <1>4, <1>6, <1>7 DEF parsed

LEMMA TailType ==
  ASSUME TypeOK, lines # <<>>
  PROVE  Head(lines) \in Seq(Cells) /\ Tail(lines) \in Seq(Seq(Cells))
BY HeadTailProperties DEF TypeOK

(* A name, and what it may be read as. *)
LEMMA ReadingsType ==
  ASSUME NEW name \in Seq(Cells)
  PROVE  Readings(name) \subseteq Seq(Cells)
<1>1. \A f \in Files : <<File(f)>> \in Seq(Cells)
  BY CellTypes
<1> QED
  BY <1>1 DEF Readings

LEMMA CompletedNameType ==
  ASSUME NEW line \in Seq(Cells)
  PROVE  CompletedName(line) \in Seq(Cells)
BY CompletedNameAppend

(* The steps of HandleLine, for a completion and for a request. *)
LEMMA HandleLineCases ==
  ASSUME HandleLine
  PROVE  /\ pc = "batch" /\ lines # <<>> /\ UNCHANGED <<stream, emulator>>
         /\ \/ /\ IsCompletion(Head(lines))
               /\ \E name \in Readings(CompletedName(Head(lines))) :
                    handle_completion(name) /\ handled' = Append(handled, <<Mark>> \o name)
            \/ /\ ~IsCompletion(Head(lines)) /\ handle_request(Head(lines))
               /\ handled' = Append(handled, Head(lines))
BY DEF HandleLine

LEMMA HandleLineType == TypeOK /\ HandleLine => TypeOK'
<1> SUFFICES ASSUME TypeOK, HandleLine PROVE TypeOK'
  OBVIOUS
<1> DEFINE line == Head(lines)
<1>1. /\ line \in Seq(Cells) /\ Tail(lines) \in Seq(Seq(Cells))
      /\ <<>> \in Seq(Seq(Cells)) /\ <<>> \in Seq(Seq(Cells) \X Seq(Cells))
  BY HandleLineCases, TailType, EmptySeq
<1>2. UNCHANGED <<stream, emulator>>
  BY HandleLineCases
<1>3. ASSUME NEW more \in Seq(Cells), handled' = Append(handled, more)
      PROVE  handled' \in Seq(Seq(Cells))
  BY <1>3, AppendProperties DEF TypeOK
<1>4. ASSUME handled' \in Seq(Seq(Cells)), Throw PROVE TypeOK'
  BY <1>1, <1>2, <1>4 DEF Throw, TypeOK, emulator, balancer
<1>5. ASSUME handled' \in Seq(Seq(Cells)), Crash PROVE TypeOK'
  BY <1>2, <1>5 DEF Crash, TypeOK, emulator, balancer
<1>6. CASE handle_request(line) /\ handled' = Append(handled, line)
  <2> DEFINE parsed == parse_with_delimiter(Append(line, Comma), Comma)
  <2>0. handled' \in Seq(Seq(Cells))
    BY <1>1, <1>3, <1>6
  <2>1. Readings(parsed[1]) \subseteq Seq(Cells)
    <3>1. parsed[1] \in Seq(Cells)
      BY <1>1, RequestParsed
    <3> QED
      BY <3>1, ReadingsType
  <2>2. \/ Throw \/ Crash
        \/ /\ Continue /\ \E name \in Readings(parsed[1]) : waiting' = Append(waiting, name)
           /\ UNCHANGED <<servers, queued, load, processing>>
    BY <1>6 DEF handle_request
  <2> HIDE DEF parsed
  <2>3. ASSUME Continue, NEW name \in Readings(parsed[1]), waiting' = Append(waiting, name),
               UNCHANGED <<servers, queued, load, processing>>
        PROVE  TypeOK'
    <3>1. waiting' \in Seq(Seq(Cells))
      BY <2>1, <2>3, AppendProperties DEF TypeOK
    <3> QED
      BY <1>1, <1>2, <2>0, <2>3, <3>1 DEF Continue, TypeOK, emulator
  <2> QED
    BY <1>4, <1>5, <2>0, <2>2, <2>3
<1>7. ASSUME NEW name \in Readings(CompletedName(line)), handle_completion(name),
             handled' = Append(handled, <<Mark>> \o name)
      PROVE  TypeOK'
  <2>0. handled' \in Seq(Seq(Cells))
    <3>1. name \in Seq(Cells) /\ <<Mark>> \in Seq(Cells)
      BY <1>1, ReadingsType, CompletedNameType, CellTypes
    <3>2. <<Mark>> \o name \in Seq(Cells)
      BY <3>1, ConcatProperties
    <3> QED
      BY <1>3, <1>7, <3>2
  <2>1. CASE name \in DOMAIN processing
    <3> DEFINE s == processing[name]
    <3>1. s \in DOMAIN servers
      BY <2>1 DEF TypeOK
    <3>2. /\ load' = [load EXCEPT ![s] = @ - 1]
          /\ queued' = (IF load[s] = 1 THEN [queued EXCEPT ![s] = @ + 1] ELSE queued)
          /\ Continue /\ UNCHANGED <<servers, waiting, processing>>
      BY <1>7, <2>1 DEF handle_completion
    <3>3. queued \in [DOMAIN servers -> Nat] /\ load \in [DOMAIN servers -> Int]
      BY DEF TypeOK
    <3> HIDE DEF s
    <3>4. load' \in [DOMAIN servers' -> Int] /\ queued' \in [DOMAIN servers' -> Nat]
      BY <3>1, <3>2, <3>3
    <3> QED
      BY <1>1, <1>2, <2>0, <3>2, <3>4 DEF Continue, TypeOK, emulator
  <2> QED
    BY <1>5, <1>7, <2>0, <2>1 DEF handle_completion
<1> QED
  BY <1>6, <1>7, HandleLineCases

(* A request in the deques is given to a server. *)
LEMMA GiveType ==
  ASSUME TypeOK, NEW i \in DOMAIN waiting, NEW s \in DOMAIN servers, Give(i, s),
         UNCHANGED servers
  PROVE  /\ waiting[i] \in Seq(Cells) /\ servers[s] \in Seq(Cells)
         /\ waiting' \in Seq(Seq(Cells))
         /\ load' \in [DOMAIN servers' -> Int]
         /\ \A name \in DOMAIN processing' :
              name \in Seq(Cells) /\ processing'[name] \in DOMAIN servers'
<1>1. /\ waiting \in Seq(Seq(Cells)) /\ servers \in Seq(Seq(Cells))
      /\ load \in [DOMAIN servers -> Int]
      /\ \A name \in DOMAIN processing :
           name \in Seq(Cells) /\ processing[name] \in DOMAIN servers
  BY DEF TypeOK
<1>2. i \in 1 .. Len(waiting) /\ Len(waiting) \in Nat
  BY <1>1, LenProperties
<1>3. waiting[i] \in Seq(Cells) /\ servers[s] \in Seq(Cells)
  BY <1>1, <1>2, ElementOfSeq, LenProperties
<1>4. waiting' \in Seq(Seq(Cells))
  <2>1. /\ \A j \in 1 .. i - 1 : waiting[j] \in Seq(Cells)
        /\ \A j \in i + 1 .. Len(waiting) : waiting[j] \in Seq(Cells)
    <3>1. \A j \in 1 .. Len(waiting) : waiting[j] \in Seq(Cells)
      BY <1>1, ElementOfSeq
    <3>2. /\ \A j \in 1 .. i - 1 : j \in 1 .. Len(waiting)
          /\ \A j \in i + 1 .. Len(waiting) : j \in 1 .. Len(waiting)
      BY <1>2
    <3> QED
      BY <3>1, <3>2
  <2>2. 1 \in Int /\ i - 1 \in Int /\ i + 1 \in Int /\ Len(waiting) \in Int
    BY <1>2
  <2>3. /\ SubSeq(waiting, 1, i - 1) \in Seq(Seq(Cells))
        /\ SubSeq(waiting, i + 1, Len(waiting)) \in Seq(Seq(Cells))
    BY <2>1, <2>2, SubSeqProperties
  <2>4. waiting' = SubSeq(waiting, 1, i - 1) \o SubSeq(waiting, i + 1, Len(waiting))
    BY DEF Give, RemoveAt
  <2> QED
    BY <2>3, <2>4, ConcatProperties
<1>5. load' \in [DOMAIN servers' -> Int]
  BY <1>1 DEF Give
<1>6. processing' = [n \in DOMAIN processing \cup {waiting[i]} |->
                       IF n = waiting[i] THEN s ELSE processing[n]]
  BY DEF Give
<1> QED
  BY <1>1, <1>3, <1>4, <1>5, <1>6

LEMMA HandleNextType == TypeOK /\ HandleNext => TypeOK'
<1> SUFFICES ASSUME TypeOK, HandleNext PROVE TypeOK'
  OBVIOUS
<1>1. nexts' \in Nat
  BY DEF HandleNext, TypeOK
<1>2. CASE UNCHANGED <<queued, load, waiting, processing, outbox>>
  BY <1>1, <1>2 DEF HandleNext, TypeOK, emulator
<1>3. ASSUME NEW i \in DOMAIN waiting, NEW s \in Idle,
             Give(i, s), queued' = [queued EXCEPT ![s] = @ - 1],
             outbox' = Append(outbox, <<servers[s], waiting[i]>>)
      PROVE  TypeOK'
  <2>1. s \in DOMAIN servers /\ UNCHANGED servers
    BY DEF Idle, HandleNext
  <2>2. /\ waiting[i] \in Seq(Cells) /\ servers[s] \in Seq(Cells)
        /\ waiting' \in Seq(Seq(Cells)) /\ load' \in [DOMAIN servers' -> Int]
        /\ \A name \in DOMAIN processing' :
             name \in Seq(Cells) /\ processing'[name] \in DOMAIN servers'
    BY <1>3, <2>1, GiveType
  <2>3. queued' \in [DOMAIN servers' -> Nat]
    <3>1. queued \in [DOMAIN servers -> Nat] /\ queued[s] > 0
      BY DEF TypeOK, Idle
    <3>2. queued[s] - 1 \in Nat
      BY <2>1, <3>1
    <3> QED
      BY <1>3, <2>1, <3>1, <3>2
  <2>4. outbox' \in Seq(Seq(Cells) \X Seq(Cells))
    <3>1. <<servers[s], waiting[i]>> \in Seq(Cells) \X Seq(Cells)
      BY <2>2
    <3> QED
      BY <1>3, <3>1, AppendProperties DEF TypeOK
  <2> QED
    BY <1>1, <2>2, <2>3, <2>4 DEF HandleNext, TypeOK, emulator
<1> QED
  BY <1>2, <1>3 DEF HandleNext

LEMMA SendAllType ==
  ASSUME TypeOK, NEW dispatches, SendAll(dispatches)
  PROVE  executing' \subseteq Files
<1>1. 1 .. submitted \subseteq Files
  BY CellTypes DEF TypeOK, Files
<1>2. executing \subseteq Files
  BY DEF TypeOK
<1>3. executing' \subseteq executing \cup 1 .. submitted
  BY DEF SendAll
<1> QED
  BY <1>1, <1>2, <1>3

LEMMA FinishBatchType == TypeOK /\ FinishBatch => TypeOK'
<1> SUFFICES ASSUME TypeOK, FinishBatch PROVE TypeOK'
  OBVIOUS
<1>1. executing' \subseteq Files
  BY SendAllType DEF FinishBatch
<1>2. /\ <<>> \in Seq(Cells) /\ Len(<<>>) = 0 /\ <<>> \in Seq(Seq(Cells) \X Seq(Cells))
      /\ 0 <= BufferSize
  BY EmptySeq, CellTypes
<1>3. /\ buffer' = <<>> /\ outbox' = <<>> /\ pc' = "read" /\ UNCHANGED <<lines, nexts, balancer>>
      /\ UNCHANGED <<stream, announced, submitted, finished, sent, handled, spoiled>>
  BY DEF FinishBatch, SendAll
<1> QED
  BY <1>1, <1>2, <1>3 DEF TypeOK, balancer

LEMMA HandleTimeoutType == TypeOK /\ HandleTimeout => TypeOK'
<1> SUFFICES ASSUME TypeOK, HandleTimeout PROVE TypeOK'
  OBVIOUS
<1>1. CASE Crash /\ UNCHANGED <<stream, emulator, handled>>
  BY <1>1 DEF Crash, TypeOK, emulator, balancer
<1>2. ASSUME NEW i \in DOMAIN waiting, NEW s \in DOMAIN servers,
             Give(i, s), SendAll(<<<<servers[s], waiting[i]>>>>),
             UNCHANGED <<loop, servers, queued>>
      PROVE  TypeOK'
  <2>1. /\ waiting' \in Seq(Seq(Cells)) /\ load' \in [DOMAIN servers' -> Int]
        /\ \A name \in DOMAIN processing' :
             name \in Seq(Cells) /\ processing'[name] \in DOMAIN servers'
    BY <1>2, GiveType
  <2>2. executing' \subseteq Files
    BY <1>2, SendAllType
  <2>3. /\ UNCHANGED <<pc, buffer, lines, nexts, outbox, servers, queued>>
        /\ UNCHANGED <<stream, announced, submitted, finished, sent, handled, spoiled>>
    BY <1>2 DEF SendAll, loop
  <2> QED
    BY <2>1, <2>2, <2>3 DEF TypeOK
<1> QED
  BY <1>1, <1>2 DEF HandleTimeout

LEMMA InitType == Init => TypeOK /\ Starting
<1> SUFFICES ASSUME Init PROVE TypeOK /\ Starting
  OBVIOUS
<1>1. /\ \A S : <<>> \in Seq(S)
      /\ Len(<<>>) = 0 /\ DOMAIN <<>> = {} /\ DOMAIN processing = {}
      /\ 0 <= BufferSize /\ 0 \in 0 .. MaxFiles
  BY EmptySeq, CellTypes DEF Init
<1>2. queued \in [DOMAIN servers -> Nat] /\ load \in [DOMAIN servers -> Int]
  BY DEF Init
<1> QED
  BY <1>1, <1>2 DEF Init, TypeOK, Starting

LEMMA NextType == TypeOK /\ Starting /\ [Next]_vars => TypeOK'
<1> SUFFICES ASSUME TypeOK, Starting, [Next]_vars PROVE TypeOK'
  OBVIOUS
<1>1. CASE UNCHANGED vars
  BY <1>1 DEF vars, emulator, loop, balancer, TypeOK
<1> QED
  BY <1>1, EmulatorType, ReadNamesType, ReadLinesType, HandleLineType, HandleNextType,
     FinishBatchType, HandleTimeoutType DEF Next, Loop

(* Nothing goes back to the first read. *)
LEMMA NeverBack == Loop \/ HandleTimeout => pc' # "names"
<1>1. ReadNames \/ ReadLines \/ FinishBatch => pc' # "names"
  BY DEF ReadNames, ReadLines, FinishBatch
<1>2. HandleNext => pc' # "names"
  BY DEF HandleNext
<1>3. Throw \/ Crash => pc' # "names"
  BY DEF Throw, Crash
<1>4. HandleLine => pc' # "names"
  <2>1. HandleLine => pc = "batch"
    BY HandleLineCases
  <2>2. Continue => pc' = pc
    BY DEF Continue
  <2> SUFFICES ASSUME HandleLine PROVE Throw \/ Crash \/ Continue
    BY <2>1, <2>2, <1>3
  <2>3. \A name : handle_completion(name) => Crash \/ Continue
    BY DEF handle_completion
  <2>4. \A line : handle_request(line) => Throw \/ Crash \/ Continue
    BY DEF handle_request
  <2> QED
    BY <2>3, <2>4, HandleLineCases
<1>5. HandleTimeout => pc' # "names"
  BY <1>3 DEF HandleTimeout, loop
<1> QED
  BY <1>1, <1>2, <1>4, <1>5 DEF Loop

(* Nothing is executed before the first read. *)
LEMMA NextStarting == TypeOK /\ Starting /\ [Next]_vars => Starting'
<1> SUFFICES ASSUME TypeOK, Starting, [Next]_vars, pc' = "names" PROVE Starting'
  BY DEF Starting
<1>1. CASE Loop \/ HandleTimeout
  BY <1>1, NeverBack
<1>2. CASE Emulator
  BY <1>2 DEF Starting, Emulator, Announce, Submit, Finish, WriteLine, loop, balancer
<1>3. CASE UNCHANGED vars
  BY <1>3 DEF Starting, vars, loop, balancer, emulator
<1> QED
  BY <1>1, <1>2, <1>3 DEF Next

-----------------------------------------------------------------------------
(***************************************************************************)
(* The names of the servers.                                               *)
(***************************************************************************)
(* The message and the names of n servers. *)
Message(n) ==
  [i \in 1 .. 2 * n |-> IF i % 2 = 1 THEN ServerName((i + 1) \div 2) ELSE Comma]

Names(n) == [s \in 1 .. n |-> <<ServerName(s)>>]

(* One server more. *)
LEMMA MessageGrows ==
  ASSUME NEW n \in Nat, n + 1 <= NumServers,
         Message(n) \in Seq(Cells), Names(n) \in Seq(Seq(Cells))
  PROVE  /\ Message(n + 1) = Append(Append(Message(n), ServerName(n + 1)), Comma)
         /\ Names(n + 1) = Append(Names(n), <<ServerName(n + 1)>>)
<1>1. n + 1 \in 1 .. NumServers /\ ServerName(n + 1) \in Cells /\ Comma \in Cells
  BY CellTypes
<1>2. Message(n + 1) = Append(Append(Message(n), ServerName(n + 1)), Comma)
  <2> DEFINE old == Message(n)
             cell == ServerName(n + 1)
             one == Append(old, cell)
             two == Append(one, Comma)
  <2>0. old \in Seq(Cells) /\ cell \in Cells
    BY <1>1
  <2>1. Len(old) = 2 * n
    BY DEF Message
  <2> HIDE DEF old, cell
  <2>2. /\ one \in Seq(Cells) /\ Len(one) = 2 * n + 1 /\ one[2 * n + 1] = cell
        /\ \A i \in 1 .. 2 * n : one[i] = old[i]
    <3>1. /\ one \in Seq(Cells) /\ Len(one) = Len(old) + 1 /\ one[Len(old) + 1] = cell
          /\ \A i \in 1 .. Len(old) : one[i] = old[i]
      BY <2>0, SMTT(30), AppendProperties
    <3> HIDE DEF one
    <3> QED
      BY <2>1, <3>1
  <2> USE DEF old, cell
  <2> HIDE DEF one
  <2>3. /\ two \in Seq(Cells) /\ Len(two) = 2 * n + 2 /\ two[2 * n + 2] = Comma
        /\ \A i \in 1 .. 2 * n + 1 : two[i] = one[i]
    <3>1. one \in Seq(Cells) /\ Comma \in Cells
      BY <1>1, <2>2
    <3>2. /\ two \in Seq(Cells) /\ Len(two) = Len(one) + 1 /\ two[Len(one) + 1] = Comma
          /\ \A i \in 1 .. Len(one) : two[i] = one[i]
      BY <3>1, AppendProperties
    <3> HIDE DEF two
    <3>3. Len(one) + 1 = 2 * n + 2
      BY <2>2
    <3> QED
      BY <2>2, <3>2, <3>3
  <2> HIDE DEF two
  <2>4. /\ Message(n + 1) = [i \in 1 .. 2 * n + 2 |->
                               IF i % 2 = 1 THEN ServerName((i + 1) \div 2) ELSE Comma]
    BY DEF Message
  <2>5. ASSUME NEW i \in 1 .. 2 * n + 2 PROVE two[i] = Message(n + 1)[i]
    <3>1. CASE i \in 1 .. 2 * n
      <4>1. two[i] = Message(n)[i]
        BY <3>1, <2>2, <2>3
      <4> QED
        BY <3>1, <4>1, <2>4 DEF Message
    <3>2. CASE i = 2 * n + 1
      <4>1. i % 2 = 1 /\ (i + 1) \div 2 = n + 1
        BY <3>2
      <4> QED
        BY <3>2, <4>1, <2>2, <2>3, <2>4
    <3>3. CASE i = 2 * n + 2
      <4>1. i % 2 # 1
        BY <3>3
      <4> QED
        BY <3>3, <4>1, <2>3, <2>4
    <3> QED
      BY <3>1, <3>2, <3>3
  <2>6. two = Message(n + 1)
    <3>1. two \in [1 .. 2 * n + 2 -> Cells]
      BY <2>3, LenProperties
    <3> QED
      BY <2>4, <2>5, <3>1
  <2> QED
    BY <2>6 DEF one, two
<1>3. Names(n + 1) = Append(Names(n), <<ServerName(n + 1)>>)
  <2> DEFINE old == Names(n)
             name == <<ServerName(n + 1)>>
             more == Append(old, name)
  <2>1. old \in Seq(Seq(Cells)) /\ Len(old) = n /\ name \in Seq(Cells)
    BY <1>1 DEF Names
  <2> HIDE DEF old, name
  <2>2. /\ more \in Seq(Seq(Cells)) /\ Len(more) = n + 1
        /\ more[n + 1] = name
        /\ \A s \in 1 .. n : more[s] = old[s]
    BY <2>1, AppendProperties
  <2> USE DEF old, name
  <2> HIDE DEF more
  <2>3. more \in [1 .. n + 1 -> Seq(Cells)]
    BY <2>2, LenProperties
  <2>4. ASSUME NEW s \in 1 .. n + 1 PROVE more[s] = Names(n + 1)[s]
    BY <2>2 DEF Names
  <2>5. more = Names(n + 1)
    BY <2>3, <2>4 DEF Names
  <2> QED
    BY <2>5 DEF more
<1> QED
  BY <1>2, <1>3

(* The parser returns the names that were written. *)
LEMMA MessageParsed ==
  Parsed(NamesMessage, Comma) = [pieces |-> Names(NumServers), rest |-> <<>>]
<1> DEFINE Good(n) == /\ Message(n) \in Seq(Cells) /\ Names(n) \in Seq(Seq(Cells))
                      /\ Parsed(Message(n), Comma) = [pieces |-> Names(n), rest |-> <<>>]
           T == {n \in Nat : n <= NumServers => Good(n)}
<1>1. 0 \in T
  <2>1. Message(0) = <<>> /\ Names(0) = <<>>
    BY DEF Message, Names
  <2> QED
    BY <2>1, EmptySeq, ParsedEmpty DEF Nothing
<1>2. ASSUME NEW n \in Nat, n \in T PROVE n + 1 \in T
  <2> SUFFICES ASSUME n + 1 <= NumServers PROVE Good(n + 1)
    OBVIOUS
  <2>1. /\ Message(n) \in Seq(Cells) /\ Names(n) \in Seq(Seq(Cells))
        /\ Parsed(Message(n), Comma) = [pieces |-> Names(n), rest |-> <<>>]
    BY <1>2, CellTypes
  <2> DEFINE cell == ServerName(n + 1)
             one == Append(Message(n), cell)
  <2>2. cell \in Cells /\ Comma \in Cells /\ cell # Comma
    BY CellTypes, CellsDiffer
  <2>3. /\ Message(n + 1) = Append(one, Comma)
        /\ Names(n + 1) = Append(Names(n), <<cell>>)
    BY <2>1, MessageGrows
  <2> HIDE DEF cell
  <2>4. one \in Seq(Cells) /\ Append(<<>>, cell) = <<cell>> /\ <<cell>> \in Seq(Cells)
    BY <2>1, <2>2, AppendProperties
  <2>5. Parsed(one, Comma) = [pieces |-> Names(n), rest |-> <<cell>>]
    <3>1. Parsed(one, Comma) = Scanned(Comma, cell, Parsed(Message(n), Comma))
      BY <2>1, <2>2, ParsedAppend
    <3> QED
      BY <2>1, <2>2, <2>4, <3>1 DEF Scanned
  <2> HIDE DEF one
  <2>6. Parsed(Append(one, Comma), Comma) = [pieces |-> Append(Names(n), <<cell>>), rest |-> <<>>]
    <3>1. Parsed(Append(one, Comma), Comma) = Scanned(Comma, Comma, Parsed(one, Comma))
      BY <2>2, <2>4, ParsedAppend
    <3> QED
      BY <2>5, <3>1 DEF Scanned
  <2>7. Append(one, Comma) \in Seq(Cells) /\ Append(Names(n), <<cell>>) \in Seq(Seq(Cells))
    BY <2>1, <2>2, <2>4, AppendProperties
  <2> QED
    BY <2>3, <2>6, <2>7
<1> HIDE DEF T, Good
<1>3. Nat \subseteq T
  BY <1>1, <1>2, SetInduction
<1>4. NumServers \in T /\ NumServers <= NumServers
  BY <1>3, CellTypes
<1>5. Good(NumServers)
  BY <1>4 DEF T
<1> QED
  BY <1>5 DEF Good, NamesMessage, Message

(* Also when the buffer is full, and std::string reads on behind it. *)
LEMMA NamesRead ==
  \A text \in Texts(NamesMessage) : parse_with_delimiter(text, Comma) = Names(NumServers)
<1> DEFINE m == NamesMessage
           found == [pieces |-> Names(NumServers), rest |-> <<>>]
<1>1. m \in Seq(Cells) /\ Parsed(m, Comma) = found
  BY LineTypes, MessageParsed
<1>2. Junk \in Cells /\ End \in Cells /\ Junk # Comma /\ End # Comma
  BY CellTypes, CellsDiffer
<1> HIDE DEF m
<1>3. m \o <<Junk, End>> = Append(Append(m, Junk), End) /\ Append(m, Junk) \in Seq(Cells)
  BY <1>1, <1>2
<1>4. Parsed(Append(m, Junk), Comma) = [pieces |-> Names(NumServers), rest |-> Append(<<>>, Junk)]
  <2>1. Parsed(Append(m, Junk), Comma) = Scanned(Comma, Junk, found)
    BY <1>1, <1>2, ParsedAppend
  <2> QED
    BY <1>2, <2>1 DEF Scanned
<1>5. Parsed(Append(Append(m, Junk), End), Comma).pieces = Names(NumServers)
  <2>1. Parsed(Append(Append(m, Junk), End), Comma)
           = Scanned(Comma, End, Parsed(Append(m, Junk), Comma))
    BY <1>2, <1>3, ParsedAppend
  <2> QED
    BY <1>2, <1>4, <2>1 DEF Scanned
<1>6. \A text \in Texts(m) : text = m \/ text = Append(Append(m, Junk), End)
  BY <1>3 DEF Texts
<1>7. Parsed(m, Comma).pieces = Names(NumServers)
  BY <1>1
<1>8. \A text \in Texts(m) : Parsed(text, Comma).pieces = Names(NumServers)
  BY <1>5, <1>6, <1>7
<1> QED
  BY <1>8 DEF parse_with_delimiter, m

(* What is read at once, into an empty buffer, is what was written. *)
LEMMA FirstRead ==
  ASSUME TypeOK, Starting, ReadNames, NamesOnTime
  PROVE  buffer' = NamesMessage
<1>1. stream = NamesMessage /\ stream' = <<>> /\ buffer = <<>> /\ Len(<<>>) = 0
  BY EmptySeq DEF ReadNames, Starting
<1>2. NamesMessage \in Seq(Cells) /\ Len(NamesMessage) \in Nat \ {0}
  BY LineTypes, CellTypes
<1>3. PICK k \in 1 .. BufferSize : ReadInto(k)
  BY <1>1, <1>2 DEF ReadNames
<1>4. /\ k \in Nat \ {0} /\ k <= Len(stream) /\ Len(stream) \in Nat
      /\ buffer' \in Seq(Cells)
      /\ Len(buffer') = IF Len(buffer) > k THEN Len(buffer) ELSE k
      /\ ReadsWhole(k) \/ ReadsPiece(k)
  BY <1>1, <1>2, <1>3, ReadIntoCells, CellTypes
<1>5. ReadsWhole(k) /\ k = Len(NamesMessage) /\ Len(buffer') = k
  <2>1. Len(stream') = 0
    BY <1>1
  <2>2. ~ReadsPiece(k)
    BY <1>4, <2>1 DEF ReadsPiece
  <2> QED
    BY <1>1, <1>2, <1>4, <2>1, <2>2 DEF ReadsWhole
<1>6. \A i \in 1 .. Len(buffer') : buffer'[i] = NamesMessage[i]
  BY <1>1, <1>4, <1>5 DEF ReadsWhole
<1> QED
  BY <1>2, <1>4, <1>5, <1>6, SeqEqual

(* Only the first read changes what the scheduler knows. *)
LEMMA ServersKept == Next /\ ~ReadNames => UNCHANGED servers /\ (pc = "names" => pc' = "names")
<1>1. Emulator => UNCHANGED <<servers, pc>>
  BY DEF Emulator, Announce, Submit, Finish, WriteLine, loop, balancer
<1>2. ReadLines \/ HandleNext \/ FinishBatch => UNCHANGED servers /\ pc # "names"
  BY DEF ReadLines, HandleNext, FinishBatch, balancer
<1>3. Throw \/ Crash => UNCHANGED servers
  BY DEF Throw, Crash, balancer
<1>4. HandleLine => UNCHANGED servers /\ pc # "names"
  <2>1. \A name : handle_completion(name) => UNCHANGED servers
    BY <1>3 DEF handle_completion
  <2>2. \A line : handle_request(line) => UNCHANGED servers
    BY <1>3 DEF handle_request
  <2> QED
    BY <2>1, <2>2, HandleLineCases
<1>5. HandleTimeout => UNCHANGED servers /\ pc # "names"
  BY <1>3 DEF HandleTimeout
<1> QED
  BY <1>1, <1>2, <1>4, <1>5 DEF Next, Loop

LEMMA NextServersKnown ==
  ASSUME NamesOnTime, TypeOK, Starting, ServersKnown, [Next]_vars
  PROVE  ServersKnown'
<1>1. CASE ReadNames
  <2>1. servers' = Names(NumServers)
    BY <1>1, FirstRead, NamesRead DEF ReadNames
  <2> QED
    BY <2>1 DEF ServersKnown, Names
<1>2. CASE Next /\ ~ReadNames
  BY <1>2, ServersKept DEF ServersKnown
<1>3. CASE UNCHANGED vars
  BY <1>3 DEF ServersKnown, vars, loop, balancer
<1> QED
  BY <1>1, <1>2, <1>3

(***************************************************************************)
(* Every variable of the receive loop keeps its type, for any number of    *)
(* servers and files and any buffer: indices stay within the servers, the  *)
(* buffer within its size (jobScheduler.cpp:501-529, 571-588).             *)
(***************************************************************************)
THEOREM TypeCorrect == Spec => []TypeOK
<1>1. Spec => [](TypeOK /\ Starting)
  BY InitType, NextType, NextStarting, PTL DEF Spec
<1> QED
  BY <1>1, PTL

(***************************************************************************)
(* The scheduler knows exactly the servers the emulator named              *)
(* (jobScheduler.cpp:472-479), whatever the size of the buffer, when the   *)
(* first read returns the names and only them.                             *)
(***************************************************************************)
THEOREM NamesCorrect == ASSUME NamesOnTime PROVE Spec => []ServersKnown
<1>1. Init => ServersKnown
  BY DEF Init, ServersKnown
<1>2. TypeOK /\ Starting /\ ServersKnown /\ [Next]_vars => ServersKnown'
  BY NextServersKnown
<1> QED
  BY <1>1, <1>2, InitType, NextType, NextStarting, PTL DEF Spec

-----------------------------------------------------------------------------
(***************************************************************************)
(* The stream: lines that are written, and cells that are taken.           *)
(***************************************************************************)
LEMMA DomainOfStream == TypeOK => DOMAIN stream = 1 .. Len(stream) /\ Len(stream) \in Nat
BY LenProperties DEF TypeOK

LEMMA DomainOfBuffer ==
  /\ BufferSize \in Nat \ {0}
  /\ TypeOK => DOMAIN buffer = 1 .. Len(buffer) /\ Len(buffer) \in Nat
BY CellTypes, LenProperties DEF TypeOK

LEMMA WriteLineCells ==
  ASSUME TypeOK, NEW line \in Seq(Cells), WriteLine(line)
  PROVE  /\ stream' \in Seq(Cells) /\ Len(line) \in Nat
         /\ Len(stream') = Len(stream) + Len(line) + 1
         /\ \A i \in 1 .. Len(stream) : stream'[i] = stream[i]
         /\ \A j \in 1 .. Len(line) : stream'[Len(stream) + j] = line[j]
         /\ stream'[Len(stream) + Len(line) + 1] = End
<1> DEFINE old == stream
           most == old \o line
           all == most \o <<End>>
<1>1. old \in Seq(Cells) /\ <<End>> \in Seq(Cells) /\ Len(<<End>>) = 1 /\ <<End>>[1] = End
  BY CellTypes DEF TypeOK
<1>2. Len(old) \in Nat /\ Len(line) \in Nat
  BY <1>1, LenProperties
<1>3. /\ most \in Seq(Cells) /\ Len(most) = Len(old) + Len(line)
      /\ \A i \in 1 .. Len(old) + Len(line) :
           most[i] = IF i <= Len(old) THEN old[i] ELSE line[i - Len(old)]
  BY <1>1, ConcatProperties
<1> HIDE DEF most
<1>4. /\ all \in Seq(Cells) /\ Len(all) = Len(most) + 1
      /\ \A i \in 1 .. Len(most) + 1 :
           all[i] = IF i <= Len(most) THEN most[i] ELSE <<End>>[i - Len(most)]
  BY <1>1, <1>3, ConcatProperties
<1>5. stream' = all
  BY DEF WriteLine, most
<1> HIDE DEF all
<1>6. \A i \in 1 .. Len(old) : all[i] = old[i]
  BY <1>2, <1>3, <1>4
<1>7. ASSUME NEW j \in 1 .. Len(line) PROVE all[Len(old) + j] = line[j]
  <2>1. /\ Len(old) + j \in 1 .. Len(old) + Len(line) /\ ~(Len(old) + j <= Len(old))
        /\ (Len(old) + j) - Len(old) = j
    BY <1>2
  <2> QED
    BY <1>3, <1>4, <2>1
<1>8. all[Len(old) + Len(line) + 1] = End
  <2>1. /\ Len(most) + 1 \in 1 .. Len(most) + 1 /\ ~(Len(most) + 1 <= Len(most))
        /\ (Len(most) + 1) - Len(most) = 1
    BY <1>2, <1>3
  <2> QED
    BY <1>1, <1>3, <1>4, <2>1
<1> QED
  BY <1>2, <1>3, <1>4, <1>5, <1>6, <1>7, <1>8

(* What Framed says of one cell. *)
MarkFramed(i) ==
  stream[i] = Mark =>
    /\ i = 1 \/ stream[i - 1] = End
    /\ i + 2 <= Len(stream) /\ IsFile(stream[i + 1]) /\ stream[i + 2] = End

FileFramed(i) ==
  \A f \in Files : stream[i] = File(f) =>
    /\ i + 1 <= Len(stream)
    /\ stream[i + 1] # Comma => stream[i + 1] = End /\ f \in finished

CellsFramed ==
  /\ submitted > 0 /\ stream # <<>> => stream[Len(stream)] = End
  /\ \A i \in 1 .. Len(stream) : MarkFramed(i) /\ FileFramed(i)

LEMMA FramedCells == TypeOK => (Framed <=> CellsFramed)
BY DomainOfStream DEF Framed, CellsFramed, MarkFramed, FileFramed

LEMMA FramedCellsNext == TypeOK' => (Framed' <=> CellsFramed')
BY FramedCells, PTL

(* Lines that are written behind the others leave them as they are. *)
LEMMA OldCellsFramed ==
  ASSUME TypeOK, Framed, finished \subseteq finished',
         Len(stream') \in Nat, Len(stream') >= Len(stream),
         \A i \in 1 .. Len(stream) : stream'[i] = stream[i],
         NEW i \in 1 .. Len(stream)
  PROVE  MarkFramed(i)' /\ FileFramed(i)'
<1>1. MarkFramed(i) /\ FileFramed(i) /\ Len(stream) \in Nat
  BY FramedCells, DomainOfStream DEF CellsFramed
<1>2. MarkFramed(i)'
  <2> SUFFICES ASSUME stream[i] = Mark
               PROVE  /\ i = 1 \/ stream'[i - 1] = End
                      /\ i + 2 <= Len(stream') /\ IsFile(stream'[i + 1]) /\ stream'[i + 2] = End
    BY DEF MarkFramed, IsFile
  <2>1. /\ i = 1 \/ stream[i - 1] = End
        /\ i + 2 <= Len(stream) /\ IsFile(stream[i + 1]) /\ stream[i + 2] = End
    BY <1>1 DEF MarkFramed
  <2>2. i + 1 \in 1 .. Len(stream) /\ i + 2 \in 1 .. Len(stream) /\ (i = 1 \/ i - 1 \in 1 .. Len(stream))
    BY <1>1, <2>1
  <2> QED
    BY <1>1, <2>1, <2>2
<1>3. FileFramed(i)'
  <2> SUFFICES ASSUME NEW f \in Files, stream[i] = File(f)
               PROVE  /\ i + 1 <= Len(stream')
                      /\ stream'[i + 1] # Comma => stream'[i + 1] = End /\ f \in finished'
    BY DEF FileFramed
  <2>1. /\ i + 1 <= Len(stream)
        /\ stream[i + 1] # Comma => stream[i + 1] = End /\ f \in finished
    BY <1>1 DEF FileFramed
  <2>2. i + 1 \in 1 .. Len(stream)
    BY <1>1, <2>1
  <2> QED
    BY <1>1, <2>1, <2>2
<1> QED
  BY <1>2, <1>3

LEMMA SubmitFramed == TypeOK /\ Framed /\ Submit => Framed'
<1> SUFFICES ASSUME TypeOK, Framed, Submit PROVE Framed'
  OBVIOUS
<1> DEFINE f == submitted + 1
<1>0. PICK n \in Nat : n = Len(stream)
  BY DomainOfStream
<1>1. f \in Files /\ RequestLine(f) \in Seq(Cells) /\ WriteLine(RequestLine(f)) /\ finished' = finished
  <2>1. f \in Files
    BY CellTypes DEF Submit, TypeOK, Files
  <2> QED
    BY <2>1, LineTypes DEF Submit
<1> HIDE DEF f
<1>2. /\ Len(RequestLine(f)) = 3 /\ RequestLine(f)[1] = File(f)
      /\ RequestLine(f)[2] = Comma /\ RequestLine(f)[3] = Size
  BY DEF RequestLine
<1>3. /\ n \in Nat /\ Len(stream') = n + 4
      /\ \A i \in 1 .. n : stream'[i] = stream[i]
      /\ stream'[n + 1] = File(f) /\ stream'[n + 2] = Comma /\ stream'[n + 3] = Size
      /\ stream'[n + 4] = End
  <2>1. /\ Len(stream') = n + 3 + 1
        /\ \A i \in 1 .. n : stream'[i] = stream[i]
        /\ \A j \in 1 .. 3 : stream'[n + j] = RequestLine(f)[j]
        /\ stream'[n + 3 + 1] = End
    BY <1>0, <1>1, <1>2, WriteLineCells
  <2> QED
    BY <1>2, <2>1, DomainOfStream
<1>4. TypeOK'
  BY EmulatorType DEF Emulator
<1>5. \A i \in 1 .. n : MarkFramed(i)' /\ FileFramed(i)'
  BY <1>1, <1>3, <1>0, OldCellsFramed
<1>6. \A i \in {n + 1, n + 2, n + 3, n + 4} : MarkFramed(i)' /\ FileFramed(i)'
  BY <1>3, CellsDiffer DEF MarkFramed, FileFramed
<1>7. \A i \in 1 .. Len(stream') : i \in 1 .. n \/ i \in {n + 1, n + 2, n + 3, n + 4}
  BY <1>3
<1> QED
  BY <1>3, <1>4, <1>5, <1>6, <1>7, FramedCellsNext DEF CellsFramed

LEMMA FinishFramed ==
  ASSUME TypeOK, Clients, Framed, NEW f \in Files, Finish(f)
  PROVE  Framed'
<1>0. PICK n \in Nat : n = Len(stream)
  BY DomainOfStream
<1>1. /\ FinishedLine(f) \in Seq(Cells) /\ WriteLine(FinishedLine(f))
      /\ finished' = finished \cup {f} /\ f \in executing
  BY LineTypes DEF Finish
<1>2. Len(FinishedLine(f)) = 2 /\ FinishedLine(f)[1] = Mark /\ FinishedLine(f)[2] = File(f)
  BY DEF FinishedLine
<1>3. /\ n \in Nat /\ Len(stream') = n + 3
      /\ \A i \in 1 .. n : stream'[i] = stream[i]
      /\ stream'[n + 1] = Mark /\ stream'[n + 2] = File(f) /\ stream'[n + 3] = End
  <2>1. /\ Len(stream') = n + 2 + 1
        /\ \A i \in 1 .. n : stream'[i] = stream[i]
        /\ \A j \in 1 .. 2 : stream'[n + j] = FinishedLine(f)[j]
        /\ stream'[n + 2 + 1] = End
    BY <1>0, <1>1, <1>2, WriteLineCells
  <2> QED
    BY <1>2, <2>1, DomainOfStream
<1>4. n = 0 \/ stream[n] = End
  <2>1. submitted > 0
    BY <1>1 DEF Clients
  <2> QED
    BY <1>0, <2>1, EmptySeq DEF Framed
<1>5. TypeOK'
  BY EmulatorType DEF Emulator
<1>6. \A i \in 1 .. n : MarkFramed(i)' /\ FileFramed(i)'
  BY <1>1, <1>3, <1>0, OldCellsFramed
<1>7. MarkFramed(n + 1)'
  <2>1. n + 1 = 1 \/ stream'[(n + 1) - 1] = End
    BY <1>3, <1>4
  <2>2. IsFile(stream'[n + 2]) /\ (n + 1) + 1 = n + 2 /\ (n + 1) + 2 = n + 3
    BY <1>3 DEF IsFile
  <2> QED
    BY <1>3, <2>1, <2>2 DEF MarkFramed, IsFile
<1>8. FileFramed(n + 2)'
  <2>1. \A g \in Files : stream'[n + 2] = File(g) => g \in finished'
    BY <1>1, <1>3, CellsDiffer
  <2>2. (n + 2) + 1 = n + 3
    BY <1>3
  <2> QED
    BY <1>3, <2>1, <2>2 DEF FileFramed
<1>9. FileFramed(n + 1)' /\ MarkFramed(n + 2)' /\ MarkFramed(n + 3)' /\ FileFramed(n + 3)'
  BY <1>3, CellsDiffer DEF MarkFramed, FileFramed
<1>10. \A i \in 1 .. Len(stream') : i \in 1 .. n \/ i \in {n + 1, n + 2, n + 3}
  BY <1>3
<1> QED
  BY <1>3, <1>5, <1>6, <1>7, <1>8, <1>9, <1>10, FramedCellsNext DEF CellsFramed

(* Taking cells from the front leaves the others as they are. *)
LEMMA ReadFramed ==
  ASSUME TypeOK, TypeOK', Framed, NEW k \in 1 .. BufferSize, ReadInto(k),
         UNCHANGED <<submitted, finished>>
  PROVE  Framed'
<1>0. PICK n \in Nat : n = Len(stream)
  BY DomainOfStream
<1>1. PICK m \in Nat :
        /\ m <= n /\ Len(stream') = n - m
        /\ \A i \in 1 .. n - m :
             \/ stream'[i] = stream[i + m]
             \/ i = 1 /\ stream'[i] = Junk /\ Divisible(stream[i + m])
  <2>1. PICK m \in {k - 1, k} :
          /\ m \in Nat /\ m <= Len(stream) /\ Len(stream') = Len(stream) - m
          /\ \A i \in 1 .. Len(stream') :
               \/ stream'[i] = stream[i + m]
               \/ i = 1 /\ stream'[i] = Junk /\ Divisible(stream[i + m])
    BY ReadMoves
  <2> QED
    BY <1>0, <2>1
<1>2. /\ submitted > 0 /\ stream # <<>> => stream[n] = End
      /\ \A i \in 1 .. n : MarkFramed(i) /\ FileFramed(i)
  BY <1>0, FramedCells DEF CellsFramed
<1>3. submitted' > 0 /\ stream' # <<>> => stream'[Len(stream')] = End
  <2> SUFFICES ASSUME submitted > 0, stream' # <<>> PROVE stream'[n - m] = End
    BY <1>1
  <2>1. Len(stream') \in Nat \ {0}
    BY EmptySeq DEF TypeOK
  <2>2. n - m \in 1 .. n - m /\ (n - m) + m = n /\ n > 0
    BY <1>1, <2>1
  <2>3. stream # <<>>
    BY <1>0, <2>2, EmptySeq
  <2>4. stream[n] = End /\ ~Divisible(stream[n])
    BY <1>2, <2>3 DEF Divisible
  <2> QED
    BY <1>1, <2>2, <2>4
<1>4. ASSUME NEW i \in 1 .. n - m PROVE MarkFramed(i)' /\ FileFramed(i)'
  <2>1. i + m \in 1 .. n
    BY <1>1
  <2>2. MarkFramed(i + m) /\ FileFramed(i + m)
    BY <1>2, <2>1
  <2>3. MarkFramed(i)'
    <3> SUFFICES ASSUME stream'[i] = Mark
                 PROVE  /\ i = 1 \/ stream'[i - 1] = End
                        /\ i + 2 <= Len(stream') /\ IsFile(stream'[i + 1]) /\ stream'[i + 2] = End
      BY DEF MarkFramed, IsFile
    <3>0. stream[i + m] = Mark
      BY <1>1, CellsDiffer
    <3>1. /\ i + m = 1 \/ stream[(i + m) - 1] = End
          /\ (i + m) + 2 <= n /\ IsFile(stream[(i + m) + 1]) /\ stream[(i + m) + 2] = End
      BY <1>0, <2>2, <3>0 DEF MarkFramed
    <3>2. /\ i + 2 <= n - m /\ i + 1 \in 1 .. n - m /\ i + 2 \in 1 .. n - m
          /\ (i + 1) + m = (i + m) + 1 /\ (i + 2) + m = (i + m) + 2
          /\ i + 1 # 1 /\ i + 2 # 1
      <4>1. (i + m) + 2 <= n
        BY <3>1
      <4>2. i \in Nat \ {0}
        OBVIOUS
      <4> QED
        BY <4>1, <4>2
    <3>3. stream'[i + 1] = stream[(i + m) + 1] /\ stream'[i + 2] = stream[(i + m) + 2]
      BY <1>1, <3>2
    <3>4. i = 1 \/ stream'[i - 1] = End
      <4> SUFFICES ASSUME i # 1 PROVE stream'[i - 1] = End
        OBVIOUS
      <4>1. i - 1 \in 1 .. n - m /\ (i - 1) + m = (i + m) - 1 /\ i + m # 1
        BY <1>1
      <4>2. stream[(i - 1) + m] = End /\ ~Divisible(stream[(i - 1) + m])
        BY <3>1, <4>1 DEF Divisible
      <4> QED
        BY <1>1, <4>1, <4>2
    <3> QED
      BY <1>1, <3>1, <3>2, <3>3, <3>4
  <2>4. FileFramed(i)'
    <3> SUFFICES ASSUME NEW f \in Files, stream'[i] = File(f)
                 PROVE  /\ i + 1 <= Len(stream')
                        /\ stream'[i + 1] # Comma => stream'[i + 1] = End /\ f \in finished
      BY DEF FileFramed
    <3>0. stream[i + m] = File(f)
      BY <1>1, CellsDiffer
    <3>1. /\ (i + m) + 1 <= n
          /\ stream[(i + m) + 1] # Comma => stream[(i + m) + 1] = End /\ f \in finished
      BY <1>0, <2>2, <3>0 DEF FileFramed
    <3>2. i + 1 \in 1 .. n - m /\ (i + 1) + m = (i + m) + 1 /\ i + 1 # 1
      BY <1>1, <3>1
    <3>3. stream'[i + 1] = stream[(i + m) + 1] /\ i + 1 <= Len(stream')
      BY <1>1, <3>2
    <3> QED
      BY <3>1, <3>3
  <2> QED
    BY <2>3, <2>4
<1> QED
  BY <1>1, <1>3, <1>4, FramedCellsNext DEF CellsFramed

(* The message with the names has neither marks nor files. *)
LEMMA NamesHarmless ==
  \A i \in 1 .. Len(NamesMessage) :
    NamesMessage[i] # Mark /\ \A f \in Files : NamesMessage[i] # File(f)
<1>1. DOMAIN NamesMessage = 1 .. 2 * NumServers /\ Len(NamesMessage) = 2 * NumServers
  BY LineTypes DEF NamesMessage
<1>2. ASSUME NEW i \in 1 .. 2 * NumServers
      PROVE  NamesMessage[i] = Comma \/ \E s : NamesMessage[i] = ServerName(s)
  BY <1>2 DEF NamesMessage
<1> QED
  BY <1>1, <1>2, CellsDiffer

(* It is the first that is written. *)
LEMMA AnnouncedFirst ==
  ASSUME TypeOK, Clients, Announce
  PROVE  stream' = NamesMessage /\ submitted = 0
<1>1. stream = <<>> /\ submitted = 0
  BY DEF Clients, Announce
<1> QED
  BY <1>1, LineTypes, ConcatEmptySeq DEF Announce

LEMMA AnnounceFramed ==
  ASSUME TypeOK, Clients, Announce
  PROVE  Framed'
<1>1. stream' = NamesMessage /\ submitted' = 0
  BY AnnouncedFirst DEF Announce
<1>2. \A i \in 1 .. Len(stream') : MarkFramed(i)' /\ FileFramed(i)'
  BY <1>1, NamesHarmless DEF MarkFramed, FileFramed
<1>3. TypeOK' /\ ~(submitted' > 0)
  BY <1>1, EmulatorType DEF Emulator
<1> QED
  BY <1>2, <1>3, FramedCellsNext DEF CellsFramed

(* Where nothing is read or written. *)
LEMMA SameFramed ==
  ASSUME Framed, UNCHANGED <<stream, submitted, finished>>
  PROVE  Framed'
BY DEF Framed, IsFile

(* The steps that neither read nor write. *)
LEMMA StreamKept ==
  HandleLine \/ HandleNext \/ FinishBatch \/ HandleTimeout
    => UNCHANGED <<stream, announced, submitted, finished, sent>>
<1>1. HandleLine => UNCHANGED <<stream, announced, submitted, finished, sent>>
  BY HandleLineCases DEF emulator
<1> QED
  BY <1>1 DEF HandleNext, FinishBatch, HandleTimeout, SendAll, emulator

LEMMA NextFramed ==
  ASSUME TypeOK, TypeOK', Clients, Framed, [Next]_vars
  PROVE  Framed'
<1>1. CASE ReadNames \/ ReadLines
  <2>1. UNCHANGED <<submitted, finished>>
    BY <1>1 DEF ReadNames, ReadLines, emulator
  <2>2. \/ UNCHANGED stream
        \/ \E k \in 1 .. BufferSize : ReadInto(k)
    BY <1>1 DEF ReadNames, ReadLines
  <2> QED
    BY <2>1, <2>2, ReadFramed, SameFramed
<1>2. CASE HandleLine \/ HandleNext \/ FinishBatch \/ HandleTimeout
  BY <1>2, StreamKept, SameFramed
<1>3. CASE Emulator
  BY <1>3, AnnounceFramed, SubmitFramed, FinishFramed DEF Emulator
<1>4. CASE UNCHANGED vars
  BY <1>4, SameFramed DEF vars, emulator
<1> QED
  BY <1>1, <1>2, <1>3, <1>4 DEF Next, Loop

(* What is sent to the servers was submitted and is not finished. *)
LEMMA SendAllClients ==
  ASSUME TypeOK, Clients, NEW dispatches, SendAll(dispatches)
  PROVE  Clients'
<1>1. /\ executing' \subseteq executing \cup ((1 .. submitted) \ finished)
      /\ UNCHANGED <<stream, announced, submitted, finished>>
  BY DEF SendAll
<1>2. submitted \in Nat
  BY CellTypes DEF TypeOK
<1>3. executing' # {} => submitted > 0
  BY <1>1, <1>2 DEF Clients
<1> QED
  BY <1>1, <1>3 DEF Clients

LEMMA NextClients ==
  ASSUME TypeOK, Clients, [Next]_vars
  PROVE  Clients'
<1>1. CASE ReadNames \/ ReadLines
  <2>1. UNCHANGED <<announced, submitted, executing, finished>>
    BY <1>1 DEF ReadNames, ReadLines, emulator
  <2>2. UNCHANGED stream \/ Len(stream) # 0
    <3>1. ASSUME NEW k \in 1 .. BufferSize, ReadInto(k) PROVE Len(stream) # 0
      BY <3>1, ReadIntoCells, CellTypes
    <3> QED
      BY <1>1, <3>1 DEF ReadNames, ReadLines
  <2> QED
    BY <2>1, <2>2, EmptySeq DEF Clients
<1>2. CASE HandleLine \/ HandleNext
  BY <1>2, HandleLineCases DEF HandleNext, emulator, Clients
<1>3. CASE FinishBatch \/ HandleTimeout
  <2>1. (\E dispatches : SendAll(dispatches)) \/ UNCHANGED <<stream, emulator>>
    BY <1>3 DEF FinishBatch, HandleTimeout
  <2> QED
    BY <2>1, SendAllClients DEF emulator, Clients
<1>4. CASE Announce
  BY <1>4 DEF Announce, Clients
<1>5. CASE Submit
  <2>1. submitted' > 0 /\ UNCHANGED <<executing, finished>>
    BY <1>5, CellTypes DEF Submit, WriteLine, TypeOK
  <2>2. announced'
    BY <1>5 DEF Submit, WriteLine
  <2>3. executing' \cap finished' = {}
    BY <2>1 DEF Clients
  <2> QED
    BY <2>1, <2>2, <2>3 DEF Clients
<1>6. ASSUME NEW f \in Files, Finish(f) PROVE Clients'
  <2>1. announced /\ submitted > 0
    BY <1>6, CellTypes DEF Finish, Clients, TypeOK
  <2> QED
    BY <1>6, <2>1 DEF Finish, WriteLine, Clients
<1>7. CASE UNCHANGED vars
  BY <1>7 DEF vars, emulator, Clients
<1> QED
  BY <1>1, <1>2, <1>3, <1>4, <1>5, <1>6, <1>7 DEF Next, Loop, Emulator

-----------------------------------------------------------------------------
(***************************************************************************)
(* The buffer.                                                             *)
(***************************************************************************)
(* While no file is finished, no completion is in the stream. *)
LEMMA NothingFinished ==
  ASSUME TypeOK, Framed, finished = {}, NEW i \in 1 .. Len(stream)
  PROVE  stream[i] # Mark
<1>1. Len(stream) \in Nat /\ \A j \in 1 .. Len(stream) : MarkFramed(j) /\ FileFramed(j)
  BY FramedCells, DomainOfStream DEF CellsFramed
<1> SUFFICES ASSUME stream[i] = Mark PROVE FALSE
  OBVIOUS
<1>2. i + 2 <= Len(stream) /\ IsFile(stream[i + 1]) /\ stream[i + 2] = End
  BY <1>1 DEF MarkFramed
<1>3. i + 1 \in 1 .. Len(stream) /\ (i + 1) + 1 = i + 2
  BY <1>1, <1>2
<1>4. stream[i + 2] = Comma
  BY <1>1, <1>2, <1>3 DEF FileFramed, IsFile
<1> QED
  BY <1>2, <1>4, CellsDiffer

(* Marks in the buffer were read just now, or were there before. *)
LEMMA MarksAreNew ==
  ASSUME TypeOK, Unmarked(buffer), NEW k \in 1 .. BufferSize, ReadInto(k),
         NEW i \in 1 .. Len(buffer'), buffer'[i] = Mark
  PROVE  i <= k /\ i \in 1 .. Len(stream) /\ stream[i] = Mark
<1>1. /\ k \in Nat \ {0} /\ k <= Len(stream) /\ Len(stream) \in Nat
      /\ Len(buffer') = IF Len(buffer) > k THEN Len(buffer) ELSE k
      /\ Len(buffer) \in Nat /\ DOMAIN buffer = 1 .. Len(buffer)
  BY ReadIntoCells, DomainOfBuffer, DomainOfStream
<1>2. i <= k
  <2>1. ASSUME i > k PROVE FALSE
    <3>1. i \in DOMAIN buffer /\ buffer[i] = Mark
      BY <1>1, <2>1, ReadFills
    <3> QED
      BY <3>1 DEF Unmarked
  <2> QED
    BY <1>1, <2>1
<1>3. stream[i] = Mark
  BY <1>2, ReadFills, CellsDiffer
<1> QED
  BY <1>1, <1>2, <1>3

(* So the first read leaves no completion in the buffer. *)
LEMMA FirstReadUnmarked ==
  ASSUME TypeOK, TypeOK', Starting, Framed, ReadNames
  PROVE  Unmarked(buffer)' /\ waiting' = <<>> /\ executing' = {} /\ finished' = {}
<1>1. /\ buffer = <<>> /\ finished = {} /\ DOMAIN <<>> = {}
      /\ waiting' = <<>> /\ executing' = {} /\ finished' = {}
  BY EmptySeq DEF Starting, ReadNames, emulator
<1>2. CASE UNCHANGED <<stream, buffer>>
  BY <1>1, <1>2 DEF Unmarked
<1>3. ASSUME NEW k \in 1 .. BufferSize, ReadInto(k) PROVE Unmarked(buffer)'
  <2>1. DOMAIN buffer' = 1 .. Len(buffer')
    BY LenProperties DEF TypeOK
  <2>2. Unmarked(buffer)
    BY <1>1 DEF Unmarked
  <2>3. ASSUME NEW i \in 1 .. Len(buffer'), buffer'[i] = Mark PROVE FALSE
    BY <1>1, <1>3, <2>2, <2>3, MarksAreNew, NothingFinished
  <2> QED
    BY <2>1, <2>3 DEF Unmarked
<1> QED
  BY <1>1, <1>2, <1>3 DEF ReadNames

(* The steps of HandleLine: the batch goes on, or an exception or a crash ends it. *)
LEMMA HandleLineSteps ==
  ASSUME HandleLine
  PROVE  \/ pc' = "read" /\ spoiled' = TRUE
         \/ pc' = "stopped" /\ UNCHANGED <<buffer, spoiled>>
         \/ pc' = "batch" /\ lines' = Tail(lines) /\ UNCHANGED <<buffer, spoiled>>
<1>1. \A name : handle_completion(name) => Crash \/ Continue
  BY DEF handle_completion
<1>2. \A line : handle_request(line) => Throw \/ Crash \/ Continue
  BY DEF handle_request
<1>3. pc = "batch"
  BY HandleLineCases
<1>4. Throw \/ Crash \/ Continue
  BY <1>1, <1>2, HandleLineCases
<1>5. Throw => pc' = "read" /\ spoiled' = TRUE
  BY DEF Throw
<1>6. Crash => pc' = "stopped" /\ UNCHANGED <<buffer, spoiled>>
  BY DEF Crash
<1>7. Continue => pc' = "batch" /\ lines' = Tail(lines) /\ UNCHANGED <<buffer, spoiled>>
  BY <1>3 DEF Continue
<1> QED
  BY <1>4, <1>5, <1>6, <1>7

LEMMA NextLeftover ==
  ASSUME TypeOK, TypeOK', Starting, Clients, Framed, Leftover, [Next]_vars
  PROVE  Leftover'
<1> SUFFICES ASSUME pc' = "read", ~spoiled', buffer' # <<>>
             PROVE  Unmarked(buffer)' /\ waiting' = <<>> /\ executing' = {} /\ finished' = {}
  BY DEF Leftover
<1>1. CASE ReadNames
  BY <1>1, FirstReadUnmarked
<1>2. CASE ReadLines \/ HandleLine \/ HandleNext
  BY <1>2, HandleLineSteps, HandleLineCases DEF ReadLines, HandleNext
<1>3. CASE FinishBatch
  BY <1>3 DEF FinishBatch
<1>4. ASSUME UNCHANGED <<pc, buffer, spoiled, waiting, executing, finished>>
      PROVE  Unmarked(buffer)' /\ waiting' = <<>> /\ executing' = {} /\ finished' = {}
  BY <1>4 DEF Leftover, Unmarked
<1>5. CASE HandleTimeout
  <2>1. pc = "read" /\ waiting # <<>> /\ UNCHANGED <<buffer, spoiled>>
    BY <1>5 DEF HandleTimeout, Crash, loop, SendAll
  <2> QED
    BY <2>1 DEF Leftover
<1>6. CASE Announce \/ Submit
  BY <1>4, <1>6 DEF Announce, Submit, WriteLine, loop, balancer
<1>7. ASSUME NEW f \in Files, Finish(f)
      PROVE  Unmarked(buffer)' /\ waiting' = <<>> /\ executing' = {} /\ finished' = {}
  <2>1. executing # {} /\ UNCHANGED <<pc, buffer, spoiled>>
    BY <1>7 DEF Finish, WriteLine, loop
  <2> QED
    BY <2>1 DEF Leftover
<1>8. CASE UNCHANGED vars
  BY <1>4, <1>8 DEF vars, loop, emulator, balancer
<1> QED
  BY <1>1, <1>2, <1>3, <1>5, <1>6, <1>7, <1>8 DEF Next, Loop, Emulator

-----------------------------------------------------------------------------
(***************************************************************************)
(* A line that reports a completion was read from the stream in one piece. *)
(***************************************************************************)
(* While that is claimed, it was read into a buffer without completions. *)
LEMMA BufferUnmarked ==
  ASSUME TypeOK, Leftover, ReadLines, ~spoiled
  PROVE  Unmarked(buffer) /\ (buffer # <<>> => finished = {})
<1>1. CASE buffer = <<>>
  BY <1>1, EmptySeq DEF Unmarked
<1>2. CASE buffer # <<>>
  BY <1>2 DEF ReadLines, Leftover
<1> QED
  BY <1>1, <1>2

(* A mark that was read has its file and the line end behind it in the stream. *)
LEMMA MarkInStream ==
  ASSUME TypeOK, Framed, NEW p \in 1 .. Len(stream), stream[p] = Mark
  PROVE  /\ p = 1 \/ stream[p - 1] = End
         /\ p + 2 <= Len(stream) /\ stream[p + 2] = End
         /\ \E f \in Files : stream[p + 1] = File(f) /\ p \in Coming(f)
<1>1. MarkFramed(p) /\ Len(stream) \in Nat /\ DOMAIN stream = 1 .. Len(stream)
  BY FramedCells, DomainOfStream DEF CellsFramed
<1>2. /\ p = 1 \/ stream[p - 1] = End
      /\ p + 2 <= Len(stream) /\ IsFile(stream[p + 1]) /\ stream[p + 2] = End
  BY <1>1 DEF MarkFramed
<1>3. PICK f \in Files : stream[p + 1] = File(f)
  BY <1>2 DEF IsFile
<1>4. p \in Coming(f)
  BY <1>1, <1>2, <1>3 DEF Coming
<1> QED
  BY <1>2, <1>3, <1>4

(* A piece of the buffer with a mark is a line that was written. *)
LEMMA CompletionsWereComing ==
  ASSUME TypeOK, TypeOK', Framed, Unmarked(buffer), buffer # <<>> => finished = {},
         NEW k \in 1 .. BufferSize, ReadInto(k),
         NEW piece \in Seq(Cells), NEW p,
         PieceAt(buffer', End, piece, p), IsCompletion(piece)
  PROVE  \E f \in Files : piece = FinishedLine(f) /\ p \in Coming(f) /\ p + 1 <= k
<1>1. /\ p \in Nat \ {0} /\ p + Len(piece) <= Len(buffer')
      /\ buffer'[p + Len(piece)] = End
      /\ \A j \in 1 .. Len(piece) : piece[j] = buffer'[p + j - 1] /\ piece[j] # End
  BY DEF PieceAt, At, Without
<1>2. /\ Len(piece) \in Nat /\ DOMAIN piece = 1 .. Len(piece) /\ Len(buffer') \in Nat
      /\ Len(stream) \in Nat /\ Len(buffer) \in Nat /\ k \in Nat \ {0} /\ k <= Len(stream)
  <2>1. buffer \in Seq(Cells) /\ buffer' \in Seq(Cells) /\ BufferSize \in Nat \ {0}
    BY CellTypes DEF TypeOK
  <2>2. Len(stream) \in Nat /\ k <= Len(stream)
    BY DomainOfStream, ReadIntoCells
  <2> QED
    BY <2>1, <2>2, LenProperties
<1>3. PICK j \in 1 .. Len(piece) : piece[j] = Mark
  BY <1>2 DEF IsCompletion, Range
<1> DEFINE q == p + j - 1
<1>4. /\ q \in 1 .. Len(buffer') /\ buffer'[q] = Mark
      /\ q <= k /\ q \in 1 .. Len(stream) /\ stream[q] = Mark
  <2>1. q \in 1 .. Len(buffer') /\ buffer'[q] = Mark
    BY <1>1, <1>2, <1>3
  <2> HIDE DEF q
  <2> QED
    BY <2>1, MarksAreNew
<1>5. PICK f \in Files :
        /\ q = 1 \/ stream[q - 1] = End
        /\ q + 2 <= Len(stream) /\ stream[q + 2] = End
        /\ stream[q + 1] = File(f) /\ q \in Coming(f)
  <2> HIDE DEF q
  <2> QED
    BY <1>4, MarkInStream
<1>6. Len(buffer') = k
  <2>1. buffer = <<>>
    <3>1. ASSUME finished = {} PROVE FALSE
      BY <1>4, <3>1, NothingFinished
    <3> QED
      BY <3>1
  <2>2. Len(buffer) = 0 /\ Len(buffer') = IF Len(buffer) > k THEN Len(buffer) ELSE k
    BY <2>1, EmptySeq, ReadIntoCells
  <2> QED
    BY <1>2, <2>2
(* What the text has in these places is what the stream had. *)
<1>7. ASSUME NEW i \in 1 .. k, i < k \/ buffer'[i] = End PROVE buffer'[i] = stream[i]
  <2>1. i \in 1 .. Len(buffer') /\ i <= k /\ (i < k => i # k)
    BY <1>2, <1>6
  <2> QED
    BY <1>7, <2>1, ReadFills, CellsDiffer
<1>8. j = 1
  <2> SUFFICES ASSUME j # 1 PROVE FALSE
    OBVIOUS
  <2>1. j - 1 \in 1 .. Len(piece) /\ q - 1 \in 1 .. k /\ q - 1 < k /\ p + (j - 1) - 1 = q - 1
    BY <1>1, <1>2, <1>4
  <2>2. piece[j - 1] = buffer'[q - 1] /\ piece[j - 1] # End
    BY <1>1, <2>1
  <2>3. buffer'[q - 1] = stream[q - 1] /\ q # 1
    BY <1>1, <1>7, <2>1
  <2> QED
    BY <1>5, <2>2, <2>3
<1>9. q = p
  BY <1>1, <1>8
<1> HIDE DEF q
<1>10. Len(piece) # 1
  <2> SUFFICES ASSUME Len(piece) = 1 PROVE FALSE
    OBVIOUS
  <2>1. p + 1 \in 1 .. k /\ buffer'[p + 1] = End
    BY <1>1, <1>6
  <2>2. stream[p + 1] = End
    BY <1>7, <2>1
  <2> QED
    BY <1>5, <1>9, <2>2, CellsDiffer
<1>11. Len(piece) >= 2 /\ p + 1 < k
  BY <1>1, <1>2, <1>3, <1>6, <1>10
<1>12. piece[2] = File(f)
  <2>1. 2 \in 1 .. Len(piece) /\ p + 2 - 1 = p + 1 /\ p + 1 \in 1 .. k
    BY <1>1, <1>2, <1>11
  <2>2. piece[2] = buffer'[p + 1]
    BY <1>1, <2>1
  <2> QED
    BY <1>5, <1>7, <1>9, <1>11, <2>1, <2>2
<1>13. Len(piece) = 2
  <2> SUFFICES ASSUME Len(piece) # 2 PROVE FALSE
    OBVIOUS
  <2>1. 3 \in 1 .. Len(piece) /\ p + 3 - 1 = p + 2 /\ p + 2 \in 1 .. k /\ p + 2 < k
    BY <1>1, <1>2, <1>6, <1>11
  <2>2. piece[3] = buffer'[p + 2] /\ piece[3] # End
    BY <1>1, <2>1
  <2> QED
    BY <1>5, <1>7, <1>9, <2>1, <2>2
<1>14. piece = FinishedLine(f)
  <2>1. /\ FinishedLine(f) \in Seq(Cells) /\ Len(FinishedLine(f)) = 2
        /\ FinishedLine(f)[1] = Mark /\ FinishedLine(f)[2] = File(f)
    BY LineTypes DEF FinishedLine
  <2>2. \A i \in 1 .. Len(piece) : i = 1 \/ i = 2
    BY <1>13
  <2>3. \A i \in 1 .. Len(piece) : piece[i] = FinishedLine(f)[i]
    BY <1>3, <1>8, <1>12, <2>1, <2>2
  <2> QED
    BY <1>13, <2>1, <2>3, SeqEqual
<1>15. p + 1 <= k
  BY <1>1, <1>2, <1>11
<1> QED
  BY <1>5, <1>9, <1>14, <1>15

(* What remains of a completion without its mark. *)
LEMMA NameOfFinished ==
  \A f \in Files : CompletedName(FinishedLine(f)) = <<File(f)>> /\ IsCompletion(FinishedLine(f))
<1> TAKE f \in Files
<1> DEFINE line == FinishedLine(f)
           name == CompletedName(line)
<1>1. line \in Seq(Cells) /\ Len(line) = 2 /\ line[1] = Mark /\ line[2] = File(f)
  BY LineTypes DEF FinishedLine
<1> HIDE DEF line
<1>2. line # <<>> /\ OneMark(line)
  BY <1>1, EmptySeq, CellsDiffer DEF OneMark
<1>3. Len(name) = 1 /\ name[1] = File(f) /\ name \in Seq(Cells)
  <2>1. Shifted(line, name) /\ name \in Seq(Cells)
    BY <1>1, <1>2, NameAfterMark, CompletedNameType
  <2> HIDE DEF name
  <2>2. 1 \in 1 .. Len(line) - 1 /\ Len(line) - 1 = 1 /\ line[1 + 1] = File(f)
    BY <1>1
  <2> QED
    BY <2>1, <2>2 DEF Shifted
<1>4. <<File(f)>> \in Seq(Cells) /\ Len(<<File(f)>>) = 1 /\ <<File(f)>>[1] = File(f)
  BY CellTypes
<1>5. name = <<File(f)>>
  <2> HIDE DEF name
  <2>1. \A i \in 1 .. Len(name) : name[i] = <<File(f)>>[i]
    BY <1>3, <1>4
  <2> QED
    BY <1>3, <1>4, <2>1, SeqEqual
<1>6. IsCompletion(line)
  <2>1. DOMAIN line = 1 .. 2
    BY <1>1, LenProperties
  <2> QED
    BY <1>1, <2>1 DEF IsCompletion, Range
<1> QED
  BY <1>5, <1>6 DEF line

LEMMA MarkedName == \A f \in Files : <<Mark>> \o <<File(f)>> = FinishedLine(f)
<1> TAKE f \in Files
<1> DEFINE mark == <<Mark>>
           name == <<File(f)>>
           line == FinishedLine(f)
<1>1. /\ mark \in Seq(Cells) /\ Len(mark) = 1 /\ mark[1] = Mark
      /\ name \in Seq(Cells) /\ Len(name) = 1 /\ name[1] = File(f)
  BY CellTypes
<1>2. line \in Seq(Cells) /\ Len(line) = 2 /\ line[1] = Mark /\ line[2] = File(f)
  BY LineTypes DEF FinishedLine
<1> HIDE DEF mark, name, line
<1>3. /\ mark \o name \in Seq(Cells) /\ Len(mark \o name) = 1 + 1
      /\ \A i \in 1 .. 1 + 1 : (mark \o name)[i] = IF i <= 1 THEN mark[i] ELSE name[i - 1]
  BY <1>1, ConcatProperties
<1>4. (mark \o name)[1] = Mark /\ (mark \o name)[2] = File(f)
  <2>1. 1 \in 1 .. 1 + 1 /\ 2 \in 1 .. 1 + 1 /\ 1 <= 1 /\ ~(2 <= 1) /\ 2 - 1 = 1
    OBVIOUS
  <2> QED
    BY <1>1, <1>3, <2>1
<1>5. \A i \in 1 .. Len(line) : i = 1 \/ i = 2
  BY <1>2
<1>6. mark \o name = line
  BY <1>2, <1>3, <1>4, <1>5, SeqEqual
<1> QED
  BY <1>6 DEF mark, name, line

(* The parser, applied to what a read leaves in the buffer. *)
LEMMA LinesLocated ==
  ASSUME TypeOK, TypeOK', ReadLines, ~spoiled'
  PROVE  /\ ~spoiled /\ lines' \in Seq(Seq(Cells))
         /\ DOMAIN lines' = 1 .. Len(lines') /\ Len(lines') \in Nat
         /\ \E k, b :
              k \in 1 .. BufferSize /\ ReadInto(k) /\ Located(buffer', End, Parsed(buffer', End), b)
         /\ lines' = Parsed(buffer', End).pieces
<1>1. PICK k \in 1 .. BufferSize : ReadInto(k)
  BY DEF ReadLines
<1>2. PICK text \in Texts(buffer') :
        lines' = parse_with_delimiter(text, End) /\ spoiled' = (spoiled \/ text # buffer')
  BY DEF ReadLines
<1>3. ~spoiled /\ text = buffer' /\ buffer' \in Seq(Cells)
  BY <1>2 DEF TypeOK
<1>4. \E b : Located(buffer', End, Parsed(buffer', End), b)
  BY <1>3, ParsedLocated, CellTypes
<1> QED
  BY <1>1, <1>2, <1>3, <1>4, LenProperties DEF TypeOK, parse_with_delimiter

LEMMA NextIntact ==
  ASSUME TypeOK, TypeOK', Framed, Leftover, Intact, [Next]_vars
  PROVE  Intact'
<1> SUFFICES ASSUME pc' = "batch", ~spoiled', NEW i \in DOMAIN lines', IsCompletion(lines'[i])
             PROVE  \E f \in Files : lines'[i] = FinishedLine(f)
  BY DEF Intact
<1>1. CASE ReadLines
  <2>1. /\ ~spoiled /\ lines' \in Seq(Seq(Cells)) /\ i \in 1 .. Len(lines')
        /\ lines' = Parsed(buffer', End).pieces
    BY <1>1, LinesLocated
  <2>2. PICK k, b :
          k \in 1 .. BufferSize /\ ReadInto(k) /\ Located(buffer', End, Parsed(buffer', End), b)
    BY <1>1, LinesLocated
  <2>3. PieceAt(buffer', End, lines'[i], b[i])
    BY <2>1, <2>2 DEF Located
  <2>4. lines'[i] \in Seq(Cells)
    BY <2>1, ElementOfSeq
  <2> QED
    BY <1>1, <2>1, <2>2, <2>3, <2>4, BufferUnmarked, CompletionsWereComing
<1>2. CASE HandleLine
  <2>1. pc = "batch" /\ lines # <<>> /\ lines' = Tail(lines) /\ ~spoiled
    BY <1>2, HandleLineCases, HandleLineSteps
  <2>2. i + 1 \in DOMAIN lines /\ lines'[i] = lines[i + 1]
    <3>1. /\ lines \in Seq(Seq(Cells)) /\ Tail(lines) \in Seq(Seq(Cells))
          /\ Len(Tail(lines)) = Len(lines) - 1
          /\ \A j \in 1 .. Len(Tail(lines)) : Tail(lines)[j] = lines[j + 1]
      BY <2>1, HeadTailProperties DEF TypeOK
    <3>2. /\ DOMAIN Tail(lines) = 1 .. Len(Tail(lines)) /\ DOMAIN lines = 1 .. Len(lines)
          /\ Len(lines) \in Nat
      BY <3>1, LenProperties
    <3> QED
      BY <2>1, <3>1, <3>2
  <2> QED
    BY <2>1, <2>2 DEF Intact
<1>3. CASE HandleNext
  BY <1>3 DEF HandleNext, Intact
<1>4. CASE ReadNames \/ FinishBatch \/ HandleTimeout
  BY <1>4 DEF ReadNames, FinishBatch, HandleTimeout, Crash, loop
<1>5. CASE Emulator
  BY <1>5 DEF Emulator, Announce, Submit, Finish, WriteLine, loop, Intact
<1>6. CASE UNCHANGED vars
  BY <1>6 DEF vars, loop, Intact
<1> QED
  BY <1>1, <1>2, <1>3, <1>4, <1>5, <1>6 DEF Next, Loop

(* While its lines are intact, the loop hands on what it read. *)
LEMMA HandlesHead ==
  ASSUME Intact, ~spoiled, HandleLine, lines \in Seq(Seq(Cells))
  PROVE  handled' = Append(handled, Head(lines))
<1>1. CASE ~IsCompletion(Head(lines))
  BY <1>1, HandleLineCases
<1>2. CASE IsCompletion(Head(lines))
  <2>1. PICK f \in Files : Head(lines) = FinishedLine(f)
    <3>1. 1 \in DOMAIN lines /\ Head(lines) = lines[1] /\ pc = "batch"
      <4>1. lines # <<>> /\ pc = "batch"
        BY HandleLineCases
      <4>2. Len(lines) \in Nat \ {0} /\ DOMAIN lines = 1 .. Len(lines)
        BY <4>1, EmptySeq, LenProperties
      <4> QED
        BY <4>1, <4>2
    <3> QED
      BY <1>2, <3>1 DEF Intact
  <2>2. \A name \in Readings(<<File(f)>>) : name = <<File(f)>>
    BY DEF Readings, Garbled
  <2>3. handled' = Append(handled, <<Mark>> \o <<File(f)>>)
    BY <1>2, <2>1, <2>2, NameOfFinished, HandleLineCases
  <2> QED
    BY <2>1, <2>3, MarkedName
<1> QED
  BY <1>1, <1>2

-----------------------------------------------------------------------------
(***************************************************************************)
(* Where the completion of a file is.                                      *)
(***************************************************************************)
(* The completion of f is in at most one place, and in none before f is finished. *)
InOnePlace(f) ==
  /\ AtMostOne(Reports(f)) /\ AtMostOne(Pending(f)) /\ AtMostOne(Coming(f))
  /\ Reports(f) = {} \/ Pending(f) = {}
  /\ Reports(f) = {} \/ Coming(f) = {}
  /\ Pending(f) = {} \/ Coming(f) = {}
  /\ f \in finished \/ Reports(f) \cup Pending(f) \cup Coming(f) = {}

LEMMA ReportedPlaces == Reported <=> (~spoiled => \A f \in Files : InOnePlace(f))
BY DEF Reported, InOnePlace

LEMMA ReportedPlacesNext == Reported' <=> (~spoiled' => \A f \in Files : InOnePlace(f)')
BY DEF Reported, InOnePlace

(* Places that are emptied, and no file that is not finished any more. *)
LEMMA FewerPlaces ==
  ASSUME NEW f, InOnePlace(f), finished \subseteq finished',
         Reports(f)' \subseteq Reports(f), Pending(f)' \subseteq Pending(f),
         Coming(f)' \subseteq Coming(f)
  PROVE  InOnePlace(f)'
BY DEF InOnePlace, AtMostOne

(* A read moves what is coming nearer. *)
LEMMA ReadComing ==
  ASSUME TypeOK, TypeOK', NEW k \in 1 .. BufferSize, ReadInto(k), NEW f \in Files
  PROVE  /\ \A i \in Coming(f)' : \E j \in Coming(f) : j >= k
         /\ AtMostOne(Coming(f)) => AtMostOne(Coming(f)')
<1>0. PICK n \in Nat : n = Len(stream) /\ DOMAIN stream = 1 .. n
  BY DomainOfStream
<1>1. PICK m \in {k - 1, k} :
        /\ m \in Nat /\ m <= n /\ Len(stream') = n - m
        /\ \A i \in 1 .. n - m :
             \/ stream'[i] = stream[i + m]
             \/ i = 1 /\ stream'[i] = Junk /\ Divisible(stream[i + m])
  <2>1. PICK m \in {k - 1, k} :
          /\ m \in Nat /\ m <= Len(stream) /\ Len(stream') = Len(stream) - m
          /\ \A i \in 1 .. Len(stream') :
               \/ stream'[i] = stream[i + m]
               \/ i = 1 /\ stream'[i] = Junk /\ Divisible(stream[i + m])
    BY ReadMoves
  <2> QED
    BY <1>0, <2>1
<1>2. DOMAIN stream' = 1 .. n - m
  <2>1. stream' \in Seq(Cells)
    BY DEF TypeOK
  <2> QED
    BY <1>1, <2>1, LenProperties
<1>3. ASSUME NEW i \in Coming(f)' PROVE i \in Nat \ {0} /\ i + m \in Coming(f)
  <2>1. i \in 1 .. n - m /\ stream'[i] = Mark /\ i < n - m /\ stream'[i + 1] = File(f)
    BY <1>1, <1>2 DEF Coming
  <2>2. i + m \in 1 .. n /\ i + m < n /\ i + 1 \in 1 .. n - m /\ (i + 1) + m = (i + m) + 1
    <3>1. i \in Nat \ {0} /\ i < n - m
      BY <2>1
    <3>2. m \in Nat
      BY <1>1
    <3> QED
      BY <3>1, <3>2
  <2>3. stream'[i] = stream[i + m] /\ stream'[i + 1] = stream[(i + 1) + m]
    BY <1>1, <2>1, <2>2, CellsDiffer
  <2>4. stream[i + m] = Mark /\ stream[(i + m) + 1] = File(f)
    BY <2>1, <2>2, <2>3
  <2>5. i + m \in DOMAIN stream /\ i + m < Len(stream) /\ i \in Nat \ {0}
    BY <1>0, <2>1, <2>2
  <2> QED
    BY <2>4, <2>5 DEF Coming
<1>4. ASSUME AtMostOne(Coming(f)), NEW i \in Coming(f)', NEW j \in Coming(f)' PROVE i = j
  <2>1. i + m = j + m
    BY <1>3, <1>4 DEF AtMostOne
  <2> QED
    BY <1>1, <1>3, <2>1
<1>5. AtMostOne(Coming(f)) => AtMostOne(Coming(f)')
  BY <1>4 DEF AtMostOne
<1>6. ASSUME NEW i \in Coming(f)' PROVE \E j \in Coming(f) : j >= k
  <2>1. i \in Nat \ {0} /\ i + m \in Coming(f)
    BY <1>3
  <2>2. k \in Nat /\ (m = k - 1 \/ m = k)
    BY <1>1, CellTypes
  <2>3. i + m >= k
    BY <2>1, <2>2
  <2> QED
    BY <2>1, <2>3
<1> QED
  BY <1>5, <1>6

(* What was in the stream, what is read from it and what stays are the same completion. *)
LEMMA ReadLinesPlaces ==
  ASSUME TypeOK, TypeOK', Framed, Leftover, ReadLines, ~spoiled',
         NEW f \in Files, InOnePlace(f)
  PROVE  InOnePlace(f)'
<1>1. PICK k, b :
        k \in 1 .. BufferSize /\ ReadInto(k) /\ Located(buffer', End, Parsed(buffer', End), b)
  BY LinesLocated
<1>2. /\ ~spoiled /\ lines' \in Seq(Seq(Cells)) /\ lines' = Parsed(buffer', End).pieces
      /\ DOMAIN lines' = 1 .. Len(lines') /\ Len(lines') \in Nat
      /\ UNCHANGED <<handled, finished>> /\ k \in Nat
  BY <1>1, LinesLocated, CellTypes DEF ReadLines, emulator
<1>3. ASSUME NEW a \in Pending(f)' PROVE b[a] \in Coming(f) /\ b[a] + 1 <= k
  <2>1. a \in 1 .. Len(lines') /\ Reporting(lines'[a], f)
    BY <1>2 DEF Pending
  <2>2. lines'[a] \in Seq(Cells)
    BY <1>2, <2>1, ElementOfSeq
  <2>3. PieceAt(buffer', End, lines'[a], b[a])
    BY <1>1, <1>2, <2>1 DEF Located
  <2>4. PICK g \in Files : lines'[a] = FinishedLine(g) /\ b[a] \in Coming(g) /\ b[a] + 1 <= k
    BY <1>1, <1>2, <2>1, <2>2, <2>3, BufferUnmarked, CompletionsWereComing DEF Reporting
  <2>5. <<File(g)>> = <<File(f)>>
    BY <2>1, <2>4, NameOfFinished DEF Reporting
  <2>6. g = f
    <3>1. <<File(g)>>[1] = File(g) /\ <<File(f)>>[1] = File(f)
      OBVIOUS
    <3>2. File(g) = File(f)
      BY <2>5, <3>1
    <3> QED
      BY <3>2, CellsDiffer
  <2> QED
    BY <2>4, <2>6
<1>4. ASSUME NEW a \in Pending(f)', NEW c \in Pending(f)' PROVE a = c
  <2>1. b[a] = b[c] /\ b[a] \in Int
    <3>1. b[a] \in Int
      BY <1>3, DomainOfStream DEF Coming
    <3> QED
      BY <1>3, <3>1 DEF InOnePlace, AtMostOne
  <2>2. a \in 1 .. Len(lines') /\ c \in 1 .. Len(lines')
    BY <1>2 DEF Pending
  <2>3. a \in 1 .. Len(lines') + 1 /\ c \in 1 .. Len(lines') + 1
    BY <1>2, <2>2
  <2>4. (a < c => b[a] < b[c]) /\ (c < a => b[c] < b[a])
    BY <1>1, <1>2, <2>3 DEF Located
  <2>5. ~(b[a] < b[c]) /\ ~(b[c] < b[a])
    BY <2>1
  <2> QED
    BY <1>2, <2>2, <2>4, <2>5
<1>5. /\ \A i \in Coming(f)' : \E j \in Coming(f) : j >= k
      /\ AtMostOne(Coming(f)')
  BY <1>1, ReadComing DEF InOnePlace
<1>6. Reports(f)' = Reports(f)
  BY <1>2 DEF Reports
<1>7. Pending(f)' = {} \/ Coming(f)' = {}
  <2> SUFFICES ASSUME NEW a \in Pending(f)', NEW i \in Coming(f)' PROVE FALSE
    OBVIOUS
  <2>1. PICK j \in Coming(f) : j >= k
    BY <1>5
  <2>2. b[a] = j /\ b[a] + 1 <= k /\ j \in Int
    BY <1>3, DomainOfStream DEF InOnePlace, AtMostOne, Coming
  <2> QED
    BY <1>2, <2>1, <2>2
<1>8. Coming(f) = {} => Pending(f)' = {} /\ Coming(f)' = {}
  BY <1>3, <1>5
<1> QED
  BY <1>2, <1>4, <1>5, <1>6, <1>7, <1>8 DEF InOnePlace, AtMostOne

LEMMA ReadNamesPlaces ==
  ASSUME TypeOK, TypeOK', ReadNames, NEW f \in Files, InOnePlace(f)
  PROVE  InOnePlace(f)'
<1>1. /\ Reports(f)' = Reports(f) /\ Pending(f)' = {} /\ finished' = finished
  BY DEF ReadNames, Reports, Pending, emulator
<1>2. CASE UNCHANGED stream
  BY <1>1, <1>2, FewerPlaces DEF Coming
<1>3. ASSUME NEW k \in 1 .. BufferSize, ReadInto(k) PROVE InOnePlace(f)'
  <2>1. AtMostOne(Coming(f)') /\ (Coming(f) = {} => Coming(f)' = {})
    BY <1>3, ReadComing DEF InOnePlace
  <2> QED
    BY <1>1, <2>1 DEF InOnePlace, AtMostOne
<1> QED
  BY <1>2, <1>3 DEF ReadNames

(* The first of the lines becomes the last that was handled. *)
LEMMA HandleLinePlaces ==
  ASSUME TypeOK, TypeOK', Intact, HandleLine, ~spoiled, NEW f \in Files, InOnePlace(f)
  PROVE  InOnePlace(f)'
<1>1. /\ pc = "batch" /\ lines # <<>>
      /\ handled' = Append(handled, Head(lines))
      /\ UNCHANGED <<stream, finished>>
      /\ pc' # "batch" \/ lines' = Tail(lines)
  BY HandleLineCases, HandleLineSteps, HandlesHead DEF emulator, TypeOK
<1>2. PICK n \in Nat : n = Len(handled)
  BY LenProperties DEF TypeOK
<1>3. /\ DOMAIN handled = 1 .. n /\ DOMAIN handled' = 1 .. n + 1
      /\ handled'[n + 1] = Head(lines)
      /\ \A i \in 1 .. n : handled'[i] = handled[i]
  <2>1. Head(lines) \in Seq(Cells) /\ handled \in Seq(Seq(Cells)) /\ handled' \in Seq(Seq(Cells))
    BY <1>1, TailType DEF TypeOK
  <2> QED
    BY <1>1, <1>2, <2>1, AppendProperties, LenProperties
<1>4. /\ Head(lines) = lines[1] /\ 1 \in DOMAIN lines
      /\ \A i \in DOMAIN Tail(lines) :
           i \in Nat \ {0} /\ i + 1 \in DOMAIN lines /\ Tail(lines)[i] = lines[i + 1]
  <2>1. lines \in Seq(Seq(Cells)) /\ Len(lines) \in Nat \ {0} /\ DOMAIN lines = 1 .. Len(lines)
    BY <1>1, EmptySeq, LenProperties DEF TypeOK
  <2>2. /\ Tail(lines) \in Seq(Seq(Cells)) /\ Len(Tail(lines)) = Len(lines) - 1
        /\ \A i \in 1 .. Len(Tail(lines)) : Tail(lines)[i] = lines[i + 1]
    BY <1>1, <2>1, HeadTailProperties
  <2>3. DOMAIN Tail(lines) = 1 .. Len(Tail(lines))
    BY <2>2, LenProperties
  <2>4. Head(lines) = lines[1]
    BY <2>1
  <2> QED
    BY <2>1, <2>2, <2>3, <2>4
<1>5. Coming(f)' = Coming(f)
  BY <1>1 DEF Coming
<1>6. \A i \in Pending(f)' : i \in Nat \ {0} /\ i + 1 \in Pending(f)
  BY <1>1, <1>4 DEF Pending
<1>7. CASE Reporting(Head(lines), f)
  <2>1. 1 \in Pending(f)
    BY <1>1, <1>4, <1>7 DEF Pending
  <2>2. Pending(f)' = {}
    <3> SUFFICES ASSUME NEW i \in Pending(f)' PROVE FALSE
      OBVIOUS
    <3>1. i \in Nat \ {0} /\ i + 1 = 1
      BY <1>6, <2>1 DEF InOnePlace, AtMostOne
    <3> QED
      BY <3>1
  <2>3. Reports(f) = {} /\ Coming(f) = {} /\ f \in finished
    BY <2>1 DEF InOnePlace
  <2>4. Reports(f)' \subseteq {n + 1}
    <3> SUFFICES ASSUME NEW i \in 1 .. n, i \in Reports(f)' PROVE FALSE
      BY <1>3 DEF Reports
    <3>1. i \in Reports(f)
      BY <1>3 DEF Reports
    <3> QED
      BY <2>3, <3>1
  <2> QED
    BY <1>1, <1>5, <2>2, <2>3, <2>4 DEF InOnePlace, AtMostOne
<1>8. CASE ~Reporting(Head(lines), f)
  <2>1. Reports(f)' \subseteq Reports(f)
    <3> SUFFICES ASSUME NEW i \in Reports(f)' PROVE i \in Reports(f)
      OBVIOUS
    <3>1. i \in 1 .. n + 1 /\ Reporting(handled'[i], f)
      BY <1>3 DEF Reports, Reporting
    <3>2. i # n + 1
      BY <1>3, <1>8, <3>1
    <3>3. i \in 1 .. n
      BY <3>1, <3>2
    <3> QED
      BY <1>3, <3>1, <3>3 DEF Reports, Reporting
  <2>2. AtMostOne(Pending(f)') /\ (Pending(f) = {} => Pending(f)' = {})
    <3>1. ASSUME NEW i \in Pending(f)', NEW j \in Pending(f)' PROVE i = j
      <4>1. i + 1 = j + 1 /\ i \in Nat /\ j \in Nat
        BY <1>6 DEF InOnePlace, AtMostOne
      <4> QED
        BY <4>1
    <3> QED
      BY <1>6, <3>1 DEF AtMostOne
  <2> QED
    BY <1>1, <1>5, <2>1, <2>2 DEF InOnePlace, AtMostOne
<1> QED
  BY <1>7, <1>8

(* A mark has its line behind it, so what is written after it changes nothing. *)
LEMMA OldComing ==
  ASSUME TypeOK, TypeOK', Framed, NEW n \in Nat, n = Len(stream), n <= Len(stream'),
         \A i \in 1 .. n : stream'[i] = stream[i],
         NEW f \in Files, NEW i \in Coming(f)', i \in 1 .. n
  PROVE  i \in Coming(f)
<1>1. stream[i] = Mark /\ stream'[i + 1] = File(f) /\ i \in DOMAIN stream
  BY DomainOfStream DEF Coming
<1>2. i + 2 <= n
  BY <1>1, FramedCells, DomainOfStream DEF CellsFramed, MarkFramed
<1>3. i < n /\ i + 1 \in 1 .. n
  BY <1>2
<1> QED
  BY <1>1, <1>3 DEF Coming

LEMMA SubmitPlaces ==
  ASSUME TypeOK, TypeOK', Framed, Submit, NEW f \in Files, InOnePlace(f)
  PROVE  InOnePlace(f)'
<1> DEFINE g == submitted + 1
<1>1. g \in Files /\ RequestLine(g) \in Seq(Cells) /\ WriteLine(RequestLine(g))
  <2>1. g \in Files
    BY CellTypes DEF Submit, TypeOK, Files
  <2> QED
    BY <2>1, LineTypes DEF Submit
<1> HIDE DEF g
<1>2. /\ Len(RequestLine(g)) = 3 /\ RequestLine(g)[1] = File(g)
      /\ RequestLine(g)[2] = Comma /\ RequestLine(g)[3] = Size
  BY DEF RequestLine
<1>3. PICK n \in Nat : n = Len(stream)
  BY DomainOfStream
<1>4. /\ Len(stream') = n + 4
      /\ \A i \in 1 .. n : stream'[i] = stream[i]
      /\ stream'[n + 1] = File(g) /\ stream'[n + 2] = Comma /\ stream'[n + 3] = Size
      /\ stream'[n + 4] = End
  <2>1. /\ Len(stream') = n + 3 + 1
        /\ \A i \in 1 .. n : stream'[i] = stream[i]
        /\ \A j \in 1 .. 3 : stream'[n + j] = RequestLine(g)[j]
        /\ stream'[n + 3 + 1] = End
    BY <1>1, <1>2, <1>3, WriteLineCells
  <2> QED
    BY <1>2, <2>1, DomainOfStream
<1>5. DOMAIN stream' = 1 .. n + 4
  <2>1. stream' \in Seq(Cells)
    BY DEF TypeOK
  <2> QED
    BY <1>4, <2>1, LenProperties
<1>6. ASSUME NEW i \in Coming(f)' PROVE i \in Coming(f)
  <2>1. i \in 1 .. n + 4 /\ stream'[i] = Mark
    BY <1>5 DEF Coming
  <2>2. i \notin {n + 1, n + 2, n + 3, n + 4}
    BY <1>4, <2>1, CellsDiffer
  <2>3. i \in 1 .. n
    BY <2>1, <2>2
  <2> QED
    BY <1>3, <1>4, <2>3, OldComing
<1>7. UNCHANGED <<finished, pc, lines, handled>>
  BY DEF Submit, WriteLine, loop
<1> QED
  BY <1>6, <1>7, FewerPlaces DEF Reports, Pending

(* A file finishes once: no completion of it was anywhere. *)
LEMMA FinishPlaces ==
  ASSUME TypeOK, TypeOK', Clients, Framed, NEW g \in Files, Finish(g),
         NEW f \in Files, InOnePlace(f)
  PROVE  InOnePlace(f)'
<1>1. /\ FinishedLine(g) \in Seq(Cells) /\ WriteLine(FinishedLine(g))
      /\ finished' = finished \cup {g} /\ g \in executing
  BY LineTypes DEF Finish
<1>2. Len(FinishedLine(g)) = 2 /\ FinishedLine(g)[1] = Mark /\ FinishedLine(g)[2] = File(g)
  BY DEF FinishedLine
<1>3. PICK n \in Nat : n = Len(stream)
  BY DomainOfStream
<1>4. /\ Len(stream') = n + 3
      /\ \A i \in 1 .. n : stream'[i] = stream[i]
      /\ stream'[n + 1] = Mark /\ stream'[n + 2] = File(g) /\ stream'[n + 3] = End
  <2>1. /\ Len(stream') = n + 2 + 1
        /\ \A i \in 1 .. n : stream'[i] = stream[i]
        /\ \A j \in 1 .. 2 : stream'[n + j] = FinishedLine(g)[j]
        /\ stream'[n + 2 + 1] = End
    BY <1>1, <1>2, <1>3, WriteLineCells
  <2> QED
    BY <1>2, <2>1, DomainOfStream
<1>5. DOMAIN stream' = 1 .. n + 3
  <2>1. stream' \in Seq(Cells)
    BY DEF TypeOK
  <2> QED
    BY <1>4, <2>1, LenProperties
<1>6. ASSUME NEW i \in Coming(f)' PROVE i \in Coming(f) \/ (i = n + 1 /\ f = g)
  <2>1. i \in 1 .. n + 3 /\ stream'[i] = Mark /\ stream'[i + 1] = File(f)
    BY <1>5 DEF Coming
  <2>2. i \notin {n + 2, n + 3}
    BY <1>4, <2>1, CellsDiffer
  <2>3. CASE i \in 1 .. n
    BY <1>3, <1>4, <2>3, OldComing
  <2>4. CASE i = n + 1
    <3>1. (n + 1) + 1 = n + 2
      BY <1>3
    <3>2. File(f) = File(g)
      BY <1>4, <2>1, <2>4, <3>1
    <3> QED
      BY <2>4, <3>2, CellsDiffer
  <2> QED
    BY <2>1, <2>2, <2>3, <2>4
<1>7. UNCHANGED <<pc, lines, handled>>
  BY <1>1 DEF WriteLine, loop
<1>8. Reports(f)' = Reports(f) /\ Pending(f)' = Pending(f)
  BY <1>7 DEF Reports, Pending
<1>9. CASE f = g
  <2>1. Reports(f) = {} /\ Pending(f) = {} /\ Coming(f) = {}
    BY <1>1, <1>9 DEF InOnePlace, Clients
  <2> QED
    BY <1>1, <1>6, <1>8, <1>9, <2>1 DEF InOnePlace, AtMostOne
<1>10. CASE f # g
  BY <1>1, <1>6, <1>8, <1>10, FewerPlaces
<1> QED
  BY <1>9, <1>10

LEMMA AnnouncePlaces ==
  ASSUME TypeOK, Clients, Announce, NEW f \in Files, InOnePlace(f)
  PROVE  InOnePlace(f)'
<1>1. stream' = NamesMessage
  BY AnnouncedFirst DEF Announce
<1>2. UNCHANGED <<finished, pc, lines, handled>>
  BY DEF Announce, loop
<1>3. TypeOK'
  BY EmulatorType DEF Emulator
<1>4. Coming(f)' = {}
  <2>1. DOMAIN stream' = 1 .. Len(stream')
    BY <1>3, LenProperties DEF TypeOK
  <2> QED
    BY <1>1, <2>1, NamesHarmless DEF Coming
<1> QED
  BY <1>2, <1>4, FewerPlaces DEF Reports, Pending

(* The rest of a batch, a dispatch, and nothing at all. *)
LEMMA OtherPlaces ==
  ASSUME TypeOK, HandleNext \/ FinishBatch \/ HandleTimeout \/ UNCHANGED vars,
         NEW f \in Files, InOnePlace(f)
  PROVE  InOnePlace(f)'
<1>1. UNCHANGED <<stream, finished, handled>>
  BY DEF HandleNext, FinishBatch, HandleTimeout, SendAll, vars, emulator
<1>2. UNCHANGED <<pc, lines>> \/ pc' # "batch"
  BY DEF HandleNext, FinishBatch, HandleTimeout, Crash, vars, loop
<1>3. Pending(f)' \subseteq Pending(f)
  BY <1>2 DEF Pending
<1> QED
  BY <1>1, <1>3, FewerPlaces DEF Reports, Coming

(* No step takes back that a buffer was spoiled. *)
LEMMA SpoiledStays == TypeOK /\ [Next]_vars /\ ~spoiled' => ~spoiled
<1> SUFFICES ASSUME TypeOK, [Next]_vars, spoiled PROVE spoiled'
  BY DEF TypeOK
<1>1. CASE HandleLine
  BY <1>1, HandleLineSteps
<1>2. CASE HandleTimeout
  BY <1>2 DEF HandleTimeout, Crash, SendAll
<1>3. CASE ReadLines
  BY <1>3 DEF ReadLines
<1>4. CASE ReadNames \/ HandleNext \/ FinishBatch
  BY <1>4 DEF ReadNames, HandleNext, FinishBatch, SendAll
<1>5. CASE Emulator
  BY <1>5 DEF Emulator, Announce, Submit, Finish, WriteLine
<1>6. CASE UNCHANGED vars
  BY <1>6 DEF vars
<1> QED
  BY <1>1, <1>2, <1>3, <1>4, <1>5, <1>6 DEF Next, Loop

LEMMA NextReported ==
  ASSUME TypeOK, TypeOK', Clients, Framed, Leftover, Intact, Reported, [Next]_vars
  PROVE  Reported'
<1> SUFFICES ASSUME ~spoiled', NEW f \in Files PROVE InOnePlace(f)'
  BY ReportedPlacesNext
<1>1. ~spoiled /\ InOnePlace(f)
  BY SpoiledStays, ReportedPlaces
<1>2. CASE ReadNames
  BY <1>1, <1>2, ReadNamesPlaces
<1>3. CASE ReadLines
  BY <1>1, <1>3, ReadLinesPlaces
<1>4. CASE HandleLine
  BY <1>1, <1>4, HandleLinePlaces
<1>5. CASE HandleNext \/ FinishBatch \/ HandleTimeout \/ UNCHANGED vars
  BY <1>1, <1>5, OtherPlaces
<1>6. CASE Announce
  BY <1>1, <1>6, AnnouncePlaces
<1>7. CASE Submit
  BY <1>1, <1>7, SubmitPlaces
<1>8. ASSUME NEW g \in Files, Finish(g) PROVE InOnePlace(f)'
  BY <1>1, <1>8, FinishPlaces
<1> QED
  BY <1>2, <1>3, <1>4, <1>5, <1>6, <1>7, <1>8 DEF Next, Loop, Emulator

-----------------------------------------------------------------------------
(* What is finished was written. *)
LEMMA NextLogged ==
  ASSUME TypeOK, Logged, [Next]_vars
  PROVE  Logged'
<1>1. ASSUME NEW line \in Lines, WriteLine(line)
      PROVE  /\ \A f \in Files : Completions(f) \subseteq Completions(f)'
             /\ \A f \in Files : line = FinishedLine(f) => Completions(f)' # {}
  <2>1. /\ sent \in Seq(Lines) /\ sent' \in Seq(Lines) /\ Len(sent') = Len(sent) + 1
        /\ sent'[Len(sent) + 1] = line /\ \A i \in 1 .. Len(sent) : sent'[i] = sent[i]
    BY <1>1, AppendProperties DEF WriteLine, TypeOK
  <2>2. /\ DOMAIN sent = 1 .. Len(sent) /\ DOMAIN sent' = 1 .. Len(sent')
        /\ Len(sent) \in Nat
    BY <2>1, LenProperties
  <2>3. Len(sent) + 1 \in DOMAIN sent' /\ \A i \in DOMAIN sent : i \in DOMAIN sent'
    BY <2>1, <2>2
  <2> QED
    BY <2>1, <2>2, <2>3 DEF Completions
<1>2. ASSUME Submit PROVE Logged'
  <2>1. submitted + 1 \in Files
    BY <1>2, StreamAssumption DEF Submit, TypeOK, Files
  <2>2. RequestLine(submitted + 1) \in Lines
    BY <2>1 DEF Lines
  <2> QED
    BY <1>1, <1>2, <2>2 DEF Submit, Logged, TypeOK
<1>3. ASSUME NEW f \in Files, Finish(f) PROVE Logged'
  <2>1. FinishedLine(f) \in Lines
    BY DEF Lines
  <2> QED
    BY <1>1, <1>3, <2>1 DEF Finish, Logged, TypeOK
<1>4. CASE UNCHANGED <<sent, finished>>
  BY <1>4 DEF Logged, Completions
<1>5. HandleLine => UNCHANGED <<sent, finished>>
  BY HandleLineCases DEF emulator
<1>6. ReadNames \/ ReadLines \/ HandleNext \/ FinishBatch \/ HandleTimeout \/ Announce
        => UNCHANGED <<sent, finished>>
  BY DEF ReadNames, ReadLines, HandleNext, FinishBatch, HandleTimeout, SendAll, Announce, emulator
<1>7. UNCHANGED vars => UNCHANGED <<sent, finished>>
  BY DEF vars, emulator
<1> QED
  BY <1>2, <1>3, <1>4, <1>5, <1>6, <1>7 DEF Next, Loop, Emulator

LEMMA InitIInv == Init => IInv
<1> SUFFICES ASSUME Init PROVE IInv
  OBVIOUS
<1>1. TypeOK /\ Starting
  BY InitType
<1>2. /\ stream = <<>> /\ handled = <<>> /\ lines = <<>> /\ submitted = 0
      /\ executing = {} /\ finished = {} /\ pc = "names"
  BY DEF Init
<1>3. DOMAIN stream = {} /\ DOMAIN handled = {} /\ DOMAIN lines = {}
  BY <1>2
<1>4. Clients
  BY <1>2 DEF Clients
<1>5. Framed
  BY <1>2, <1>3 DEF Framed
<1>6. Leftover /\ Intact
  BY <1>2 DEF Leftover, Intact
<1>7. Reported
  BY <1>3 DEF Reported, Reports, Pending, Coming, AtMostOne
<1>8. Logged
  BY <1>2 DEF Logged
<1> QED
  BY <1>1, <1>4, <1>5, <1>6, <1>7, <1>8 DEF IInv

LEMMA NextIInv == IInv /\ [Next]_vars => IInv'
<1> SUFFICES ASSUME IInv, [Next]_vars PROVE IInv'
  OBVIOUS
<1>1. TypeOK /\ Starting /\ Clients /\ Logged /\ Framed /\ Leftover /\ Intact /\ Reported
  BY DEF IInv
<1>2. TypeOK'
  BY <1>1, NextType
<1>3. Starting'
  BY <1>1, NextStarting
<1>4. Clients'
  BY <1>1, NextClients
<1>5. Framed'
  BY <1>1, <1>2, NextFramed
<1>6. Leftover'
  BY <1>1, <1>2, NextLeftover
<1>7. Intact'
  BY <1>1, <1>2, NextIntact
<1>8. Reported'
  BY <1>1, <1>2, NextReported
<1>9. Logged'
  BY <1>1, NextLogged
<1> QED
  BY <1>2, <1>3, <1>4, <1>5, <1>6, <1>7, <1>8, <1>9 DEF IInv

(***************************************************************************)
(* What the emulator, the stream and the loop keep together wherever reads *)
(* cut the stream, inside names too: a mark in the stream has its line     *)
(* behind it, no line with a mark reaches the loop but as it was written,  *)
(* and the completion of a file is in one place (jobScheduler.cpp:501-511, *)
(* 570-591), until an exception or a full buffer spoils what is read.      *)
(***************************************************************************)
THEOREM InductiveInvariant == Spec => []IInv
<1> QED
  BY InitIInv, NextIInv, PTL DEF Spec

(***************************************************************************)
(* Wherever reads cut the stream, inside names too, a file is reported     *)
(* completed no more often than the emulator wrote so, until an exception  *)
(* is caught or the text of a full buffer goes on behind it                *)
(* (jobScheduler.cpp:501-511, 591).                                        *)
(***************************************************************************)
THEOREM CompletionsCorrect == Spec => []CompletionsAreReal
<1>1. ASSUME IInv, ~spoiled, NEW f \in Files
      PROVE  Cardinality(Reports(f)) <= Cardinality(Completions(f))
  <2>1. TypeOK /\ Logged /\ InOnePlace(f)
    BY <1>1, ReportedPlaces DEF IInv
  <2>2. IsFiniteSet(Completions(f)) /\ Cardinality(Completions(f)) \in Nat
    <3>1. DOMAIN sent = 1 .. Len(sent) /\ Len(sent) \in Nat
      BY <2>1, LenProperties DEF TypeOK
    <3>2. IsFiniteSet(DOMAIN sent)
      BY <3>1, FS_Interval
    <3> QED
      BY <3>2, FS_Subset, FS_CardinalityType DEF Completions
  <2>3. CASE Reports(f) = {}
    BY <2>2, <2>3, FS_EmptySet
  <2>4. ASSUME NEW i \in Reports(f)
        PROVE  Cardinality(Reports(f)) <= Cardinality(Completions(f))
    <3>1. Reports(f) = {i} /\ f \in finished
      BY <2>1, <2>4 DEF InOnePlace, AtMostOne
    <3>2. Completions(f) # {} /\ Cardinality(Reports(f)) = 1
      BY <2>1, <3>1, FS_Singleton DEF Logged
    <3>3. Cardinality(Completions(f)) # 0
      BY <2>2, <3>2, FS_EmptySet
    <3> QED
      BY <2>2, <3>2, <3>3
  <2> QED
    BY <2>3, <2>4
<1>2. IInv => CompletionsAreReal
  BY <1>1 DEF CompletionsAreReal
<1> QED
  BY <1>2, InductiveInvariant, PTL
=============================================================================
