------------------------------ MODULE LoggerProofs ------------------------------
(***************************************************************************)
(* Theorems about Logger, for any threads and any number of calls: the     *)
(* missing lock is all that keeps the log from being intact.               *)
(***************************************************************************)
EXTENDS Logger, RecursionProofs

-----------------------------------------------------------------------------
(* No two insertions overlap. *)
OneAtATime == \A t, u \in Threads : seen[t] # 0 /\ seen[u] # 0 => t = u

(* Nothing but whole messages is in the stream, the last one perhaps before *)
(* the put position was moved behind it.                                    *)
SerialInv ==
  /\ log_level \in Levels
  /\ slots \in Seq(Messages)
  /\ calls \in [Threads -> Seq(Messages)]
  /\ seen \in [Threads -> Nat]
  /\ position \in Nat \ {0}
  /\ OneAtATime
  /\ \A t \in Threads : seen[t] # 0 => seen[t] = position /\ Len(slots) = position
  /\ (\A t \in Threads : seen[t] = 0) => Len(slots) = position - 1
  /\ \A t \in Threads : Selected(slots, Of(t)) = Selected(calls[t], Severe)

-----------------------------------------------------------------------------
(***************************************************************************)
(* Selected, on any sequence.                                              *)
(***************************************************************************)
Chosen(wanted, m, selected) == IF m \in wanted THEN Append(selected, m) ELSE selected

Chooser(S, wanted) == [p \in S \X Seq(S) |-> Chosen(wanted, p[1], p[2])]

(* Selected is computed along the messages. *)
LEMMA SelectedScans ==
  ASSUME NEW S, NEW wanted, NEW messages \in Seq(S)
  PROVE  \E f : /\ f \in [0 .. Len(messages) -> Seq(S)]
                /\ Scans(f, messages, Chooser(S, wanted), <<>>)
                /\ Selected(messages, wanted) = f[Len(messages)]
<1> DEFINE Rec(g) == g = [i \in 0 .. Len(messages) |->
                            IF i = 0 THEN <<>>
                            ELSE IF messages[i] \in wanted THEN Append(g[i - 1], messages[i])
                            ELSE g[i - 1]]
           next == Chooser(S, wanted)
<1>1. next \in Folds(Seq(S), S) /\ <<>> \in Seq(S)
  <2>1. \A m \in S, s \in Seq(S) : Chosen(wanted, m, s) \in Seq(S)
    BY AppendProperties DEF Chosen
  <2> QED
    BY <2>1, EmptySeq DEF Chooser, Folds
<1>2. Len(messages) \in Nat /\ \A i \in 1 .. Len(messages) : messages[i] \in S
  BY ElementOfSeq, LenProperties
<1>3. PICK f \in [0 .. Len(messages) -> Seq(S)] : Scans(f, messages, next, <<>>)
  <2> DEFINE nothing == <<>>
  <2>1. nothing \in Seq(S)
    BY <1>1
  <2> HIDE DEF nothing, next
  <2>2. \E f \in [0 .. Len(messages) -> Seq(S)] : Scans(f, messages, next, nothing)
    BY <1>1, <2>1, ScanExists
  <2> QED
    BY <2>2 DEF nothing
<1>4. ASSUME NEW i \in 1 .. Len(messages)
      PROVE  f[i] = Chosen(wanted, messages[i], f[i - 1])
  <2>1. f[i] = next[<<messages[i], f[i - 1]>>]
    BY <1>3 DEF Scans
  <2>2. i - 1 \in 0 .. Len(messages)
    BY <1>2
  <2>3. messages[i] \in S /\ f[i - 1] \in Seq(S)
    BY <1>2, <1>3, <2>2
  <2> QED
    BY <2>1, <2>3 DEF Chooser
<1>5. Rec(f)
  <2>1. ASSUME NEW i \in 0 .. Len(messages)
        PROVE  f[i] = IF i = 0 THEN <<>>
                      ELSE IF messages[i] \in wanted THEN Append(f[i - 1], messages[i])
                      ELSE f[i - 1]
    <3>1. CASE i = 0
      BY <3>1, <1>3 DEF Scans
    <3>2. CASE i # 0
      <4>1. i \in 1 .. Len(messages)
        BY <3>2
      <4> QED
        BY <3>2, <4>1, <1>4 DEF Chosen
    <3> QED
      BY <3>1, <3>2
  <2>2. DOMAIN f = 0 .. Len(messages) /\ f = [i \in DOMAIN f |-> f[i]]
    BY <1>3
  <2> QED
    BY <2>1, <2>2
<1>6. Selected(messages, wanted) = (CHOOSE g : Rec(g))[Len(messages)]
  BY DEF Selected
<1> DEFINE h == CHOOSE g : Rec(g)
<1>7. Rec(h)
  <2> HIDE DEF Rec
  <2> QED
    BY <1>5
<1> HIDE DEF h
<1>8. h = [i \in 0 .. Len(messages) |-> h[i]] /\ h[0] = <<>>
  BY <1>2, <1>7
<1>9. ASSUME NEW i \in 1 .. Len(messages) PROVE h[i] = Chosen(wanted, messages[i], h[i - 1])
  <2>1. i \in 0 .. Len(messages) /\ i # 0
    BY <1>2
  <2> QED
    BY <1>7, <2>1 DEF Chosen
<1> HIDE DEF Rec
<1> DEFINE T == {i \in Nat : i <= Len(messages) => h[i] \in Seq(S)}
<1>10. 0 \in T
  BY <1>8, EmptySeq
<1>11. ASSUME NEW i \in Nat, i \in T PROVE i + 1 \in T
  <2> SUFFICES ASSUME i + 1 <= Len(messages) PROVE h[i + 1] \in Seq(S)
    OBVIOUS
  <2>1. i + 1 \in 1 .. Len(messages) /\ (i + 1) - 1 = i /\ h[i] \in Seq(S)
    BY <1>2, <1>11
  <2>2. h[i + 1] = Chosen(wanted, messages[i + 1], h[i]) /\ messages[i + 1] \in S
    BY <1>2, <1>9, <2>1
  <2> QED
    BY <2>1, <2>2, AppendProperties DEF Chosen
<1>12. Nat \subseteq T
  <2> HIDE DEF T
  <2> QED
    BY <1>10, <1>11, SetInduction
<1>13. \A i \in 0 .. Len(messages) : h[i] \in Seq(S)
  BY <1>2, <1>12
<1>14. h \in [0 .. Len(messages) -> Seq(S)]
  BY <1>8, <1>13
<1>15. ASSUME NEW i \in 1 .. Len(messages) PROVE h[i] = next[<<messages[i], h[i - 1]>>]
  <2>1. i - 1 \in 0 .. Len(messages) /\ messages[i] \in S
    BY <1>2
  <2> QED
    BY <2>1, <1>9, <1>13 DEF Chooser
<1> QED
  BY <1>6, <1>8, <1>14, <1>15 DEF Scans, h

(* A message more is selected or not, and changes nothing before it. *)
LEMMA SelectedAppend ==
  ASSUME NEW S, NEW wanted
  PROVE  /\ Selected(<<>>, wanted) = <<>>
         /\ \A messages \in Seq(S), m \in S :
              Selected(Append(messages, m), wanted)
                = Chosen(wanted, m, Selected(messages, wanted))
<1> DEFINE next == Chooser(S, wanted)
           nothing == <<>>
<1>0. \A messages \in Seq(S) :
        \E f : /\ f \in [0 .. Len(messages) -> Seq(S)] /\ Scans(f, messages, next, nothing)
               /\ Selected(messages, wanted) = f[Len(messages)]
  BY SelectedScans
<1>1. Selected(nothing, wanted) = nothing
  <2>1. nothing \in Seq(S) /\ Len(nothing) = 0
    BY EmptySeq
  <2> HIDE DEF nothing, next
  <2>2. PICK f : Scans(f, nothing, next, nothing) /\ Selected(nothing, wanted) = f[Len(nothing)]
    BY <1>0, <2>1
  <2> QED
    BY <2>1, <2>2 DEF Scans
<1>2. ASSUME NEW messages \in Seq(S), NEW m \in S
      PROVE  Selected(Append(messages, m), wanted) = Chosen(wanted, m, Selected(messages, wanted))
  <2> DEFINE longer == Append(messages, m)
  <2>1. longer \in Seq(S) /\ Longer(longer, messages, m)
    BY AppendProperties DEF Longer
  <2> HIDE DEF longer, nothing, next
  <2>2. PICK f : /\ f \in [0 .. Len(messages) -> Seq(S)] /\ Scans(f, messages, next, nothing)
                 /\ Selected(messages, wanted) = f[Len(messages)]
    BY <1>0
  <2>3. PICK g : Scans(g, longer, next, nothing) /\ Selected(longer, wanted) = g[Len(longer)]
    BY <1>0, <2>1
  <2>4. g[Len(longer)] = Step(next, m, f[Len(messages)])
    BY <2>1, <2>2, <2>3, ScanAppend
  <2>5. f[Len(messages)] \in Seq(S)
    BY <2>2, LenProperties
  <2>6. Step(next, m, f[Len(messages)]) = Chosen(wanted, m, f[Len(messages)])
    BY <2>5 DEF Chooser, Step, next
  <2> QED
    BY <2>2, <2>3, <2>4, <2>6 DEF longer
<1> QED
  BY <1>1, <1>2

-----------------------------------------------------------------------------
(***************************************************************************)
(* The invariant.                                                          *)
(***************************************************************************)
LEMMA InitSerial == Init => SerialInv
<1> SUFFICES ASSUME Init PROVE SerialInv
  OBVIOUS
<1>1. /\ log_level \in Levels /\ slots = <<>> /\ position = 1
      /\ \A t \in Threads : seen[t] = 0 /\ calls[t] = <<>>
      /\ seen \in [Threads -> Nat] /\ calls \in [Threads -> Seq(Messages)]
  BY EmptySeq DEF Init, Levels
<1>2. slots \in Seq(Messages) /\ Len(slots) = 0
  BY <1>1, EmptySeq
<1>3. OneAtATime
  BY <1>1 DEF OneAtATime
<1>4. \A t \in Threads : Selected(slots, Of(t)) = Selected(calls[t], Severe)
  BY <1>1, SelectedAppend
<1> QED
  BY <1>1, <1>2, <1>3, <1>4 DEF SerialInv

(* With the levels main can set, the gates let pass what is severe enough. *)
LEMMA GatesAreExact ==
  ASSUME log_level \in Levels, NEW lvl \in Severities
  PROVE  log_level > Gate(lvl) <=> ~(lvl >= log_level)
BY DEF Levels, Severities, Gate, DEBUG, INFO, WARN, ERROR, FATAL, DISABLED

(* A message written behind the last one is appended. *)
LEMMA WrittenBehind ==
  ASSUME NEW S, NEW s \in Seq(S), NEW m \in S
  PROVE  At(s, Len(s) + 1, m) = Append(s, m)
<1>1. Len(s) \in Nat /\ \A i \in 1 .. Len(s) : s[i] \in S
  BY ElementOfSeq, LenProperties
<1>2. /\ Append(s, m) \in Seq(S) /\ Len(Append(s, m)) = Len(s) + 1
      /\ Append(s, m)[Len(s) + 1] = m
      /\ \A i \in 1 .. Len(s) : Append(s, m)[i] = s[i]
  BY AppendProperties
<1>3. At(s, Len(s) + 1, m)
        = [k \in 1 .. Len(s) + 1 |-> IF k = Len(s) + 1 THEN m
                                     ELSE IF k <= Len(s) THEN s[k] ELSE Garbage]
  BY <1>1 DEF At
<1>4. /\ DOMAIN Append(s, m) = 1 .. Len(s) + 1
      /\ Append(s, m) = [k \in DOMAIN Append(s, m) |-> Append(s, m)[k]]
  <2> DEFINE longer == Append(s, m)
  <2>1. longer \in Seq(S) /\ Len(longer) = Len(s) + 1
    BY <1>2
  <2> HIDE DEF longer
  <2>2. longer \in [1 .. Len(longer) -> S]
    BY <2>1, LenProperties
  <2>3. DOMAIN longer = 1 .. Len(longer) /\ longer = [k \in DOMAIN longer |-> longer[k]]
    BY <2>2
  <2> QED
    BY <2>1, <2>3 DEF longer
<1>5. \A k \in 1 .. Len(s) + 1 :
        Append(s, m)[k] = IF k = Len(s) + 1 THEN m ELSE IF k <= Len(s) THEN s[k] ELSE Garbage
  BY <1>1, <1>2
<1>6. Append(s, m) = [k \in 1 .. Len(s) + 1 |-> Append(s, m)[k]]
  BY <1>4
<1> QED
  BY <1>3, <1>5, <1>6

LEMMA BeginWriteSerial ==
  ASSUME SerialInv, NEW t \in Threads, BeginWrite(t), OneAtATime'
  PROVE  SerialInv'
<1>1. /\ log_level \in Levels /\ slots \in Seq(Messages) /\ calls \in [Threads -> Seq(Messages)]
      /\ seen \in [Threads -> Nat] /\ position \in Nat \ {0}
      /\ \A u \in Threads : seen[u] # 0 => seen[u] = position /\ Len(slots) = position
      /\ (\A u \in Threads : seen[u] = 0) => Len(slots) = position - 1
      /\ \A u \in Threads : Selected(slots, Of(u)) = Selected(calls[u], Severe)
  BY DEF SerialInv
<1>2. Len(calls[t]) \in Nat
  BY <1>1, LenProperties
<1>3. PICK lvl \in Severities :
        LET m == Message(t, Len(calls[t]) + 1, lvl)
        IN /\ calls' = [calls EXCEPT ![t] = Append(@, m)]
           /\ IF log_level > Gate(lvl)
              THEN UNCHANGED <<slots, seen>>
              ELSE /\ slots' = At(slots, position, m)
                   /\ seen' = [seen EXCEPT ![t] = position]
  BY DEF BeginWrite
<1>4. PICK m : m = Message(t, Len(calls[t]) + 1, lvl)
  OBVIOUS
<1>5. m \in Messages /\ m.thread = t /\ m.level = lvl
  BY <1>2, <1>4 DEF Message, Messages
<1>6. /\ calls' = [calls EXCEPT ![t] = Append(@, m)]
      /\ log_level > Gate(lvl) => UNCHANGED <<slots, seen>>
      /\ ~(log_level > Gate(lvl)) => /\ slots' = At(slots, position, m)
                                     /\ seen' = [seen EXCEPT ![t] = position]
  BY <1>3, <1>4
<1>7. log_level' = log_level /\ position' = position /\ seen[t] = 0 /\ Severe' = Severe
  BY DEF BeginWrite, Severe
<1>8. calls' \in [Threads -> Seq(Messages)]
  BY <1>1, <1>5, <1>6, AppendProperties
<1>9. /\ \A u \in Threads \ {t} : calls'[u] = calls[u]
      /\ calls'[t] = Append(calls[t], m)
  BY <1>1, <1>6
<1>10. m \in Severe <=> ~(log_level > Gate(lvl))
  BY <1>1, <1>5, GatesAreExact DEF Severe
<1>11. Selected(calls'[t], Severe) = Chosen(Severe, m, Selected(calls[t], Severe))
  <2>1. \A messages \in Seq(Messages) :
          Selected(Append(messages, m), Severe) = Chosen(Severe, m, Selected(messages, Severe))
    BY <1>5, SelectedAppend
  <2>2. calls[t] \in Seq(Messages) /\ calls'[t] = Append(calls[t], m)
    BY <1>1, <1>9
  <2> QED
    BY <2>1, <2>2
<1>12. CASE log_level > Gate(lvl)
  <2>1. UNCHANGED <<slots, seen>>
    BY <1>6, <1>12
  <2>2. Selected(calls'[t], Severe) = Selected(calls[t], Severe)
    BY <1>10, <1>11, <1>12 DEF Chosen
  <2>3. \A u \in Threads : Selected(slots', Of(u)) = Selected(calls'[u], Severe')
    BY <1>1, <1>7, <1>9, <2>1, <2>2
  <2> QED
    BY <1>1, <1>7, <1>8, <2>1, <2>3 DEF SerialInv, Of
<1>13. CASE ~(log_level > Gate(lvl))
  <2>1. slots' = At(slots, position, m) /\ seen' = [seen EXCEPT ![t] = position]
    BY <1>6, <1>13
  <2>2. seen'[t] = position /\ \A u \in Threads \ {t} : seen'[u] = seen[u]
    BY <1>1, <2>1
  <2>3. \A u \in Threads : seen[u] = 0
    BY <1>1, <1>7, <2>2 DEF OneAtATime
  <2>4. Len(slots) + 1 = position
    BY <1>1, <2>3
  <2>5. slots' = Append(slots, m)
    BY <1>1, <1>5, <2>1, <2>4, WrittenBehind
  <2>6. slots' \in Seq(Messages) /\ Len(slots') = position
    BY <1>1, <1>5, <2>4, <2>5, AppendProperties
  <2>7. seen' \in [Threads -> Nat]
    BY <1>1, <2>1
  <2>8. \A u \in Threads : seen'[u] # 0 => seen'[u] = position /\ Len(slots') = position
    BY <2>2, <2>3, <2>6
  <2>9. ASSUME NEW u \in Threads PROVE Selected(slots', Of(u)) = Selected(calls'[u], Severe')
    <3>1. Selected(slots', Of(u)) = Chosen(Of(u), m, Selected(slots, Of(u)))
      <4>1. \A messages \in Seq(Messages) :
              Selected(Append(messages, m), Of(u)) = Chosen(Of(u), m, Selected(messages, Of(u)))
        BY <1>5, SelectedAppend
      <4> QED
        BY <1>1, <2>5, <4>1
    <3>2. m \in Of(u) <=> u = t
      BY <1>5 DEF Of
    <3>3. CASE u = t
      BY <1>1, <1>7, <1>10, <1>11, <1>13, <3>1, <3>2, <3>3 DEF Chosen
    <3>4. CASE u # t
      BY <1>1, <1>7, <1>9, <3>1, <3>2, <3>4 DEF Chosen
    <3> QED
      BY <3>3, <3>4
  <2>10. ~(\A u \in Threads : seen'[u] = 0)
    BY <1>1, <2>2
  <2> QED
    BY <1>1, <1>7, <1>8, <2>6, <2>7, <2>8, <2>9, <2>10 DEF SerialInv, Of
<1> QED
  BY <1>12, <1>13

LEMMA EndWriteSerial ==
  ASSUME SerialInv, NEW t \in Threads, EndWrite(t)
  PROVE  SerialInv'
<1>1. /\ seen \in [Threads -> Nat] /\ position \in Nat \ {0} /\ OneAtATime
      /\ \A u \in Threads : seen[u] # 0 => seen[u] = position /\ Len(slots) = position
  BY DEF SerialInv
<1>2. /\ seen[t] # 0 /\ position' \in {seen[t] + 1, position + 1}
      /\ seen' = [seen EXCEPT ![t] = 0] /\ UNCHANGED <<log_level, slots, calls>>
  BY DEF EndWrite
<1>3. position' = position + 1 /\ Len(slots') = position
  BY <1>1, <1>2
<1>4. \A u \in Threads : seen'[u] = 0
  BY <1>1, <1>2 DEF OneAtATime
<1>5. seen' \in [Threads -> Nat] /\ position' \in Nat \ {0} /\ Len(slots') = position' - 1
  BY <1>1, <1>2, <1>3
<1>6. OneAtATime'
  BY <1>4 DEF OneAtATime
<1>7. \A u \in Threads : Selected(slots', Of(u)) = Selected(calls'[u], Severe')
  BY <1>2 DEF SerialInv, Severe
<1> QED
  BY <1>2, <1>4, <1>5, <1>6, <1>7 DEF SerialInv, Of

LEMMA SameSerial == SerialInv /\ UNCHANGED vars => SerialInv'
BY DEF SerialInv, OneAtATime, Severe, Of, vars

LEMMA SerialIsIntact == SerialInv => MessagesIntact
<1> SUFFICES ASSUME SerialInv, \A t \in Threads : seen[t] = 0
             PROVE  /\ \A t \in Threads : Selected(File, Of(t)) = Selected(calls[t], Severe)
                    /\ Garbage \notin Range(File)
  BY DEF MessagesIntact
<1>1. slots \in Seq(Messages) /\ Len(slots) = position - 1 /\ position \in Nat \ {0}
  BY DEF SerialInv
<1>2. File = slots
  <2>1. PICK n \in Nat : n = Len(slots) /\ n = position - 1
    BY <1>1
  <2>2. \A i \in 1 .. n : slots[i] \in Messages
    BY <1>1, <2>1, ElementOfSeq
  <2> DEFINE all == SubSeq(slots, 1, n)
  <2>3. /\ all \in Seq(Messages)
        /\ Len(all) = IF 1 <= n THEN n - 1 + 1 ELSE 0
        /\ \A i \in 1 .. n - 1 + 1 : all[i] = slots[1 + i - 1]
    BY <2>1, <2>2, SubSeqProperties
  <2> HIDE DEF all
  <2>4. Len(all) = n
    BY <2>3
  <2>5. ASSUME NEW i \in 1 .. n PROVE all[i] = slots[i]
    <3>1. i \in 1 .. n - 1 + 1 /\ 1 + i - 1 = i
      OBVIOUS
    <3> QED
      BY <2>3, <3>1
  <2>6. all = slots
    BY <1>1, <2>1, <2>3, <2>4, <2>5, SeqEqual
  <2> QED
    BY <2>1, <2>6 DEF File, all
<1>3. Garbage \notin Messages
  BY DEF Garbage, Messages, Severities, DEBUG, FATAL, DISABLED
<1>4. Range(slots) \subseteq Messages
  BY <1>1, ElementOfSeq, LenProperties DEF Range
<1> QED
  BY <1>2, <1>3, <1>4 DEF SerialInv

(***************************************************************************)
(* Every behaviour of the program in which no two insertions               *)
(* (logger.cpp:32) overlap keeps the log what README.md:97 promises,       *)
(* whatever the threads: the missing lock is the only flaw, and the gate   *)
(* of write_error, 4 instead of 3, makes no difference as long as main     *)
(* cannot set the level "fatal".                                           *)
(***************************************************************************)
THEOREM IntactWithoutOverlap == Spec /\ []OneAtATime => []MessagesIntact
<1>1. SerialInv /\ [Next]_vars /\ OneAtATime' => SerialInv'
  BY BeginWriteSerial, EndWriteSerial, SameSerial DEF Next
<1> QED
  BY <1>1, InitSerial, SerialIsIntact, PTL DEF Spec
=============================================================================
