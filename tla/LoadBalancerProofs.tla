--------------------------- MODULE LoadBalancerProofs ---------------------------
(***************************************************************************)
(* Proofs about LoadBalancer, for any number of servers and requests: its  *)
(* types, the inductive invariant of LoadBalancerInvariant, what follows   *)
(* from it, and that LoadBalancer implements JobDispatch.                  *)
(***************************************************************************)
EXTENDS LoadBalancerInvariant, FiniteSetTheorems, SequenceTheorems, TLAPS

-----------------------------------------------------------------------------
(***************************************************************************)
(* Type correctness.                                                       *)
(***************************************************************************)
(* What the assumptions on the constants give the type proof. *)
LEMMA ConstantTypes ==
  /\ NumServers \in Nat \ {0} /\ MaxRequests \in Nat /\ MaxTime \in Nat
  /\ HalfSecond \in Nat /\ IntModulus \in Nat \ {0} /\ Epoch \in Nat
  /\ Sizes \subseteq Int
  /\ Servers \subseteq Nat /\ NoServer \notin Servers
BY CountsAssumption, ClockAssumption DEF Servers, NoServer

(* record_request keeps a statistic a statistic. *)
LEMMA RecordRequestType ==
  ASSUME NEW st \in Statistic, NEW n \in Int, NEW t \in Nat
  PROVE  RecordRequest(st, n, t) \in Statistic
<1>1. ASSUME NEW avg \in Average, NEW v \in Nat
      PROVE  Record(avg, v) \in Average
  BY <1>1 DEF Average, Record
<1>2. /\ st.requests \in Nat /\ st.requests_completed \in Nat
      /\ st.performance_metric \in Average /\ st.response_time \in Average
  BY DEF Statistic
<1>3. Calibrates(st, n) => t \div n \in Nat
  BY DEF Calibrates
<1>4. /\ Calibrates(st, n) => Record(st.performance_metric, t \div n) \in Average
      /\ Record(st.response_time, t) \in Average
  BY <1>1, <1>2, <1>3
<1> QED
  BY <1>2, <1>4 DEF RecordRequest, Statistic

(* process_request returns a statistic. *)
LEMMA ProcessRequestType ==
  ASSUME NEW st \in Statistic
  PROVE  ProcessRequest(st) \in Statistic
BY DEF ProcessRequest, Statistic

(* The type invariant holds initially. *)
LEMMA InitTypeInv == Init => TypeInv
<1> SUFFICES ASSUME Init PROVE TypeInv
  OBVIOUS
<1>1. NewStatistic \in Statistic
  BY DEF NewStatistic, Statistic, NewAverage, Average
<1>2. now = Epoch /\ now \in Nat
  BY ConstantTypes DEF Init
<1>3. inbox \in Seq(Line) /\ batch \in Seq(Line)
  BY DEF Init
<1>4. processing \in [Requests -> Servers \cup {NoServer}]
  BY DEF Init
<1> QED
  BY <1>1, <1>2, <1>3, <1>4, ConstantTypes
  DEF Init, TypeInv, TypeOK, DispatchedByNow, Unset, DEFAULT_MULTIPLIER

(* The two kinds of lines are lines. *)
LEMMA LineTypes ==
  /\ \A r \in Requests, n \in Sizes : RequestLine(r, n) \in Line
  /\ \A r \in Requests : FinishedLine(r) \in Line
  /\ \A line \in Line : /\ line.file \in Requests
                        /\ line.type = "request" => line.size \in Int
BY ConstantTypes DEF RequestLine, FinishedLine, Line

(* The clock, the client and the file servers keep the types. *)
LEMMA EnvironmentTypeInv == TypeInv /\ Environment => TypeInv'
<1> SUFFICES ASSUME TypeInv, Environment PROVE TypeInv'
  OBVIOUS
<1> USE DEF TypeInv, TypeOK, DispatchedByNow
<1>1. CASE Tick
  BY <1>1 DEF Tick, loop, serverQueues, requestQueues, requestFields, forcedCounts, timeouts
<1>2. CASE ClientSubmit
  <2> USE <1>2 DEF ClientSubmit
  <2>1. submitted + 1 \in Requests
    BY ConstantTypes DEF Requests
  <2>2. inbox' \in Seq(Line)
    BY <2>1, LineTypes
  <2>3. submitted' \in 0 .. MaxRequests
    BY ConstantTypes
  <2> QED
    BY <2>2, <2>3
    DEF loop, serverQueues, requestQueues, requestFields, forcedCounts, timeouts
<1>3. ASSUME NEW r \in Requests, ServerFinish(r) PROVE TypeInv'
  <2>1. inbox' \in Seq(Line) /\ executing' \subseteq Requests
    BY <1>3, LineTypes DEF ServerFinish
  <2> QED
    BY <1>3, <2>1
    DEF ServerFinish, loop, serverQueues, requestQueues, requestFields, forcedCounts, timeouts
<1> QED
  BY <1>1, <1>2, <1>3 DEF Environment

(* read keeps the types. *)
LEMMA ReadBatchTypeInv == TypeInv /\ ReadBatch => TypeInv'
<1> SUFFICES ASSUME TypeInv, ReadBatch PROVE TypeInv'
  OBVIOUS
<1>1. PICK k \in 1 .. Len(inbox) : /\ batch' = SubSeq(inbox, 1, k)
                                   /\ inbox' = SubSeq(inbox, k + 1, Len(inbox))
                                   /\ nexts' = EventCount(batch')
  BY DEF ReadBatch
<1>2. inbox \in Seq(Line)
  BY DEF TypeInv, TypeOK
<1>3. batch' \in Seq(Line) /\ inbox' \in Seq(Line)
  BY <1>1, <1>2, SubSeqProperties
<1>4. nexts' \in Nat
  BY <1>1, <1>3 DEF EventCount
<1> QED
  BY <1>3, <1>4
  DEF TypeInv, TypeOK, DispatchedByNow, ReadBatch, serverQueues, requestQueues,
      requestFields, forcedCounts, timeouts

(* handle_request keeps the types. *)
LEMMA HandleRequestTypeInv ==
  ASSUME TypeInv, NEW r \in Requests, NEW n \in Int, handle_request(r, n),
         batch' \in Seq(Line), UNCHANGED <<environment, nexts, outbox>>
  PROVE  TypeInv'
BY DEF TypeInv, TypeOK, DispatchedByNow, handle_request, environment, serverQueues,
       requestQueues, requestFields, forcedCounts, timeouts

(* Pushing a server keeps the types of the priority queues. *)
LEMMA PushType ==
  ASSUME NEW queue \in [Servers -> Nat], NEW s
  PROVE  [queue EXCEPT ![s] = @ + 1] \in [Servers -> Nat]
<1>1. CASE s \in Servers
  BY <1>1
<1>2. CASE s \notin Servers
  <2>1. [queue EXCEPT ![s] = @ + 1] = queue
    BY <1>2
  <2> QED
    BY <2>1
<1> QED
  BY <1>1, <1>2

(* handle_completion keeps the types. *)
LEMMA HandleCompletionTypeInv ==
  ASSUME TypeInv, NEW r \in Requests, handle_completion(r),
         batch' \in Seq(Line), UNCHANGED <<environment, nexts, outbox>>
  PROVE  TypeInv'
<1> DEFINE s == processing[r]
           recorded == RecordRequest(stat[s], size[r], now - start_time[r])
<1>1. stat' \in [Servers -> Statistic]
  <2>1. CASE s \in Servers
    <3>1. stat[s] \in Statistic /\ size[r] \in Int /\ now - start_time[r] \in Nat
      BY <2>1 DEF TypeInv, TypeOK, DispatchedByNow
    <3>2. recorded \in Statistic
      BY <3>1, RecordRequestType
    <3> QED
      BY <3>2, <2>1 DEF TypeInv, TypeOK, handle_completion
  <2>2. CASE s \notin Servers
    BY <2>2 DEF TypeInv, TypeOK, handle_completion
  <2> QED
    BY <2>1, <2>2
<1>2. /\ calibrated_servers' \in [Servers -> Nat]
      /\ approximated_servers' \in [Servers -> Nat]
  <2>1. /\ \/ calibrated_servers' = calibrated_servers
           \/ calibrated_servers' = [calibrated_servers EXCEPT ![s] = @ + 1]
        /\ \/ approximated_servers' = approximated_servers
           \/ approximated_servers' = [approximated_servers EXCEPT ![s] = @ + 1]
    BY DEF handle_completion, PushIfDrained
  <2>2. /\ calibrated_servers \in [Servers -> Nat]
        /\ approximated_servers \in [Servers -> Nat]
    BY DEF TypeInv, TypeOK
  <2> HIDE DEF s
  <2>3. /\ [calibrated_servers EXCEPT ![s] = @ + 1] \in [Servers -> Nat]
        /\ [approximated_servers EXCEPT ![s] = @ + 1] \in [Servers -> Nat]
    BY <2>2, PushType
  <2> QED
    BY <2>1, <2>2, <2>3
<1>3. /\ active_forced_requests' \in Nat
      /\ active_forced_requests_completed' \in Nat
      /\ multiplier' \in Nat
      /\ timeout_trigger' \in Nat
  <2>1. \/ UNCHANGED <<forcedCounts, timeouts>>
        \/ /\ active_forced_requests' = 0
           /\ active_forced_requests_completed' = 0
           /\ reset_timeout
        \/ /\ active_forced_requests_completed' = active_forced_requests_completed + 1
           /\ UNCHANGED <<active_forced_requests, timeouts>>
    BY DEF handle_completion, CountForcedCompletion
  <2> QED
    BY <2>1, SMTT(20)
    DEF TypeInv, TypeOK, forcedCounts, timeouts, reset_timeout, DEFAULT_MULTIPLIER, environment
<1>4. completed' \subseteq Requests
  BY DEF TypeInv, TypeOK, handle_completion
<1> QED
  BY <1>1, <1>2, <1>3, <1>4
  DEF TypeInv, TypeOK, DispatchedByNow, handle_completion, environment, requestQueues

(* Handling a line keeps the types. *)
LEMMA HandleLineTypeInv == TypeInv /\ HandleLine => TypeInv'
<1> SUFFICES ASSUME TypeInv, HandleLine PROVE TypeInv'
  OBVIOUS
<1>1. batch \in Seq(Line) /\ batch # <<>>
  BY DEF TypeInv, TypeOK, HandleLine
<1>2. Head(batch) \in Line /\ Tail(batch) \in Seq(Line)
  BY <1>1
<1> QED
  BY <1>2, LineTypes, HandleRequestTypeInv, HandleCompletionTypeInv DEF HandleLine

(* schedule_request_to_server keeps the types. *)
LEMMA ScheduleType ==
  ASSUME TypeInv, NEW s \in Servers, NEW r \in Requests,
         schedule_request_to_server(s, r), now' = now
  PROVE  /\ processing' \in [Requests -> Servers \cup {NoServer}]
         /\ start_time' \in [Requests -> Nat]
         /\ stat' \in [Servers -> Statistic]
         /\ DispatchedByNow'
<1>1. ProcessRequest(stat[s]) \in Statistic
  BY ProcessRequestType DEF TypeInv, TypeOK
<1> QED
  BY <1>1 DEF TypeInv, TypeOK, DispatchedByNow, schedule_request_to_server

(* A pop takes the server out of one of the two queues, which held it. *)
LEMMA PopType ==
  ASSUME TypeInv, NEW s \in Servers, PopApproximated(s) \/ PopCalibrated(s)
  PROVE  /\ approximated_servers' \in [Servers -> Nat]
         /\ calibrated_servers' \in [Servers -> Nat]
         /\ approximated_servers[s] + calibrated_servers[s] > 0
         /\ approximated_servers'[s] + calibrated_servers'[s]
              = approximated_servers[s] + calibrated_servers[s] - 1
         /\ \A t \in Servers \ {s} :
              /\ approximated_servers'[t] = approximated_servers[t]
              /\ calibrated_servers'[t] = calibrated_servers[t]
<1>1. /\ approximated_servers \in [Servers -> Nat]
      /\ calibrated_servers \in [Servers -> Nat]
  BY DEF TypeInv, TypeOK
<1>2. CASE PopApproximated(s)
  BY <1>1, <1>2 DEF PopApproximated, Tops
<1>3. CASE PopCalibrated(s)
  BY <1>1, <1>3 DEF PopCalibrated, Tops
<1> QED
  BY <1>2, <1>3

(* Either branch of handle_next pops the server it dispatches to. *)
LEMMA DispatchPops ==
  ASSUME NEW s \in Servers, NEW r \in Requests, HandleNextDispatch(s, r)
  PROVE  PopApproximated(s) \/ PopCalibrated(s)
BY DEF HandleNextDispatch, PopFastest

(* handle_next keeps the types. *)
LEMMA HandleNextTypeInv == TypeInv /\ HandleNext => TypeInv'
<1> SUFFICES ASSUME TypeInv, HandleNext PROVE TypeInv'
  OBVIOUS
<1>1. CASE HandleNextNothing
  BY <1>1
  DEF HandleNextNothing, TypeInv, TypeOK, DispatchedByNow, environment, serverQueues,
      requestQueues, requestFields, forcedCounts, timeouts
<1>2. ASSUME NEW s \in Servers, NEW r \in Requests, HandleNextDispatch(s, r)
      PROVE  TypeInv'
  <2>1. /\ approximated_servers' \in [Servers -> Nat]
        /\ calibrated_servers' \in [Servers -> Nat]
    BY <1>2, DispatchPops, PopType
  <2>2. /\ processing' \in [Requests -> Servers \cup {NoServer}]
        /\ start_time' \in [Requests -> Nat]
        /\ stat' \in [Servers -> Statistic]
        /\ DispatchedByNow'
    BY <1>2, ScheduleType DEF HandleNextDispatch, environment
  <2>3. /\ identified_requests' \subseteq Requests
        /\ unidentified_requests' \subseteq Requests
        /\ outbox' \subseteq Requests
        /\ nexts' \in Nat
        /\ multiplier' \in Nat
        /\ timeout_trigger' \in Nat
    BY <1>2
    DEF HandleNextDispatch, Dequeue, reset_timeout, TypeInv, TypeOK, DEFAULT_MULTIPLIER
  <2> QED
    BY <1>2, <2>1, <2>2, <2>3
    DEF HandleNextDispatch, TypeInv, TypeOK, environment, forcedCounts
<1> QED
  BY <1>1, <1>2 DEF HandleNext

(* Sending what was scheduled keeps the types. *)
LEMMA SendScheduledTypeInv == TypeInv /\ SendScheduled => TypeInv'
BY DEF SendScheduled, TypeInv, TypeOK, DispatchedByNow, serverQueues, requestQueues,
       requestFields, forcedCounts, timeouts

(* handle_timeout keeps the types. *)
LEMMA TimeoutTypeInv == TypeInv /\ Timeout => TypeInv'
<1> SUFFICES ASSUME TypeInv, NEW s \in Servers, NEW r \in Requests, HandleTimeout(s, r)
             PROVE  TypeInv'
  BY DEF Timeout
<1>1. /\ processing' \in [Requests -> Servers \cup {NoServer}]
      /\ start_time' \in [Requests -> Nat]
      /\ stat' \in [Servers -> Statistic]
      /\ DispatchedByNow'
  BY ScheduleType DEF HandleTimeout
<1>2. /\ forced' \in [Requests -> BOOLEAN]
      /\ identified_requests' \subseteq Requests
      /\ unidentified_requests' \subseteq Requests
      /\ executing' \subseteq Requests
  BY DEF HandleTimeout, Dequeue, TypeInv, TypeOK
<1>3. multiplier' \in Nat /\ active_forced_requests' \in Nat
  BY DEF HandleTimeout, TypeInv, TypeOK
<1> QED
  BY <1>1, <1>2, <1>3 DEF HandleTimeout, TypeInv, TypeOK, loop, serverQueues

(* Every step keeps the types. *)
LEMMA NextTypeInv == TypeInv /\ [Next]_vars => TypeInv'
<1> SUFFICES ASSUME TypeInv, [Next]_vars PROVE TypeInv'
  OBVIOUS
<1>1. CASE Next
  BY <1>1, EnvironmentTypeInv, ReadBatchTypeInv, HandleLineTypeInv, HandleNextTypeInv,
     SendScheduledTypeInv, TimeoutTypeInv DEF Next, Scheduler
<1>2. CASE UNCHANGED vars
  BY <1>2
  DEF vars, TypeInv, TypeOK, DispatchedByNow, environment, loop, serverQueues,
      requestQueues, requestFields, forcedCounts, timeouts
<1> QED
  BY <1>1, <1>2

(***************************************************************************)
(* Every variable of the scheduler always has its type.                    *)
(***************************************************************************)
THEOREM TypeCorrect == Spec => []TypeOK
<1>1. TypeInv => TypeOK
  BY DEF TypeInv
<1> QED
  BY <1>1, InitTypeInv, NextTypeInv, PTL DEF Spec

-----------------------------------------------------------------------------
(***************************************************************************)
(* Sequences of lines.                                                     *)
(***************************************************************************)
LEMMA LinesType == TypeOK => Lines \in Seq(Line)
BY ConcatProperties DEF TypeOK, Lines

(* A line that is appended is the only new one. *)
LEMMA AppendLine ==
  ASSUME NEW lines \in Seq(Line), NEW line \in Line,
         NEW longer, longer = Append(lines, line)
  PROVE  /\ \A type, r : HasLine(longer, type, r)
                           <=> HasLine(lines, type, r) \/ (type = line.type /\ r = line.file)
         /\ UniqueLines(lines) /\ ~HasLine(lines, line.type, line.file)
              => UniqueLines(longer)
<1>1. /\ Len(lines) \in Nat
      /\ Len(longer) = Len(lines) + 1
      /\ \A i \in 1 .. Len(lines) : longer[i] = lines[i]
      /\ longer[Len(lines) + 1] = line
  BY AppendProperties
<1>2. \A i \in 1 .. Len(longer) : i \in 1 .. Len(lines) \/ i = Len(lines) + 1
  BY <1>1
<1>3. 1 .. Len(lines) \subseteq 1 .. Len(longer) /\ Len(lines) + 1 \in 1 .. Len(longer)
  BY <1>1
<1>4. \A type, r : HasLine(longer, type, r)
                     <=> HasLine(lines, type, r) \/ (type = line.type /\ r = line.file)
  <2> SUFFICES ASSUME NEW type, NEW r
               PROVE  HasLine(longer, type, r)
                        <=> HasLine(lines, type, r) \/ (type = line.type /\ r = line.file)
    OBVIOUS
  <2>1. HasLine(longer, type, r)
          => HasLine(lines, type, r) \/ (type = line.type /\ r = line.file)
    BY <1>1, <1>2 DEF HasLine
  <2>2. HasLine(lines, type, r) => HasLine(longer, type, r)
    BY <1>1, <1>3 DEF HasLine
  <2>3. (type = line.type /\ r = line.file) => HasLine(longer, type, r)
    BY <1>1, <1>3 DEF HasLine
  <2> QED
    BY <2>1, <2>2, <2>3
<1>5. ASSUME UniqueLines(lines), ~HasLine(lines, line.type, line.file)
      PROVE  UniqueLines(longer)
  BY <1>1, <1>2, <1>3, <1>5 DEF UniqueLines, HasLine
<1> QED
  BY <1>4, <1>5

(* The line that is taken from the front was the only one of its kind. *)
LEMMA TailLine ==
  ASSUME NEW lines \in Seq(Line), lines # <<>>, UniqueLines(lines)
  PROVE  /\ HasLine(lines, Head(lines).type, Head(lines).file)
         /\ UniqueLines(Tail(lines))
         /\ \A type, r : HasLine(Tail(lines), type, r)
                           <=> /\ HasLine(lines, type, r)
                               /\ ~(type = Head(lines).type /\ r = Head(lines).file)
<1> DEFINE shorter == Tail(lines)
<1>1. /\ Len(lines) \in Nat \ {0}
      /\ Len(shorter) = Len(lines) - 1
      /\ \A i \in 1 .. Len(shorter) : shorter[i] = lines[i + 1]
      /\ Head(lines) = lines[1]
  BY HeadTailProperties
<1>2. \A i \in 1 .. Len(shorter) : i + 1 \in 1 .. Len(lines) /\ i + 1 # 1
  BY <1>1
<1>3. \A i \in 1 .. Len(lines) : i = 1 \/ (i - 1 \in 1 .. Len(shorter) /\ (i - 1) + 1 = i)
  BY <1>1
<1>4. 1 \in 1 .. Len(lines)
  BY <1>1
<1>5. HasLine(lines, Head(lines).type, Head(lines).file)
  BY <1>1, <1>4 DEF HasLine
<1> HIDE DEF shorter
<1>6. UniqueLines(shorter)
  <2> SUFFICES ASSUME NEW i \in 1 .. Len(shorter), NEW j \in 1 .. Len(shorter),
                      shorter[i].type = shorter[j].type, shorter[i].file = shorter[j].file
               PROVE  i = j
    BY DEF UniqueLines
  <2>1. i + 1 = j + 1
    BY <1>1, <1>2 DEF UniqueLines
  <2> QED
    BY <2>1
<1>7. ASSUME NEW type, NEW r
      PROVE  HasLine(shorter, type, r)
               <=> /\ HasLine(lines, type, r)
                   /\ ~(type = Head(lines).type /\ r = Head(lines).file)
  <2>1. ASSUME HasLine(shorter, type, r)
        PROVE  /\ HasLine(lines, type, r)
               /\ ~(type = Head(lines).type /\ r = Head(lines).file)
    <3>1. PICK i \in 1 .. Len(shorter) : shorter[i].type = type /\ shorter[i].file = r
      BY <2>1 DEF HasLine
    <3>2. i + 1 \in 1 .. Len(lines) /\ i + 1 # 1 /\ lines[i + 1] = shorter[i]
      BY <1>1, <1>2
    <3>3. HasLine(lines, type, r)
      BY <3>1, <3>2 DEF HasLine
    <3>4. ~(type = lines[1].type /\ r = lines[1].file)
      BY <3>1, <3>2, <1>4 DEF UniqueLines
    <3> QED
      BY <3>3, <3>4, <1>1
  <2>2. ASSUME HasLine(lines, type, r), ~(type = Head(lines).type /\ r = Head(lines).file)
        PROVE  HasLine(shorter, type, r)
    <3>1. PICK i \in 1 .. Len(lines) : lines[i].type = type /\ lines[i].file = r
      BY <2>2 DEF HasLine
    <3>2. i - 1 \in 1 .. Len(shorter) /\ shorter[i - 1] = lines[i]
      BY <3>1, <2>2, <1>1, <1>3
    <3> QED
      BY <3>1, <3>2 DEF HasLine
  <2> QED
    BY <2>1, <2>2
<1> QED
  BY <1>5, <1>6, <1>7 DEF shorter

(* How the actions change the lines the scheduler has not handled yet. *)
LEMMA LinesAppended ==
  ASSUME TypeOK, NEW line \in Line, inbox' = Append(inbox, line), batch' = batch
  PROVE  Lines' = Append(Lines, line)
<1>1. inbox \in Seq(Line) /\ batch \in Seq(Line) /\ <<line>> \in Seq(Line)
  BY DEF TypeOK
<1>2. Lines' = batch \o (inbox \o <<line>>)
  BY <1>1, AppendIsConcat DEF Lines
<1>3. Lines' = Lines \o <<line>>
  BY <1>1, <1>2, ConcatAssociative DEF Lines
<1> QED
  BY <1>3, LinesType, AppendIsConcat

(* ReadBatch moves lines from the socket to the batch; it changes none. *)
LEMMA LinesRead == TypeOK /\ ReadBatch => Lines' = Lines
<1> SUFFICES ASSUME TypeOK, ReadBatch PROVE Lines' = Lines
  OBVIOUS
<1>1. inbox \in Seq(Line) /\ batch = <<>>
  BY DEF TypeOK, ReadBatch, Quiescent
<1>2. PICK k \in 1 .. Len(inbox) : /\ batch' = SubSeq(inbox, 1, k)
                                   /\ inbox' = SubSeq(inbox, k + 1, Len(inbox))
  BY DEF ReadBatch
<1>3. Lines = inbox
  BY <1>1, ConcatEmptySeq DEF Lines
<1>4. SubSeq(inbox, 1, k) \o SubSeq(inbox, k + 1, Len(inbox)) = SubSeq(inbox, 1, Len(inbox))
  BY <1>1, ConcatAdjacentSubSeq
<1> QED
  BY <1>1, <1>2, <1>3, <1>4, SubSeqFull DEF Lines

(* HandleLine takes the first line away and leaves the others. *)
LEMMA LinesHandled ==
  ASSUME TypeOK, batch # <<>>, batch' = Tail(batch), inbox' = inbox
  PROVE  Lines # <<>> /\ Head(Lines) = Head(batch) /\ Lines' = Tail(Lines)
BY DEF TypeOK, Lines

-----------------------------------------------------------------------------
(***************************************************************************)
(* The files.                                                              *)
(***************************************************************************)
(* What FilesInv speaks of, besides the lines. *)
fileVars == <<submitted, executing, outbox, identified_requests, unidentified_requests,
              processing, completed, forced>>

(* A step that touches no line and no file keeps FilesInv. *)
LEMMA FilesFrame == FilesInv /\ Lines' = Lines /\ UNCHANGED fileVars => FilesInv'
BY DEF FilesInv, FileInv, Waiting, fileVars

(* ClientSubmit announces a file that was nowhere before. *)
LEMMA SubmitFiles == TypeOK /\ FilesInv /\ ClientSubmit => FilesInv'
<1> SUFFICES ASSUME TypeOK, FilesInv, ClientSubmit PROVE FilesInv'
  OBVIOUS
<1> DEFINE q == submitted + 1
<1>1. q \in Requests /\ submitted \in Nat /\ \A r \in Requests : r \in Nat
  BY ConstantTypes DEF TypeOK, ClientSubmit, Requests
<1>2. PICK line \in Line : /\ line.type = "request" /\ line.file = q
                           /\ inbox' = Append(inbox, line)
  <2>1. PICK n \in Sizes : inbox' = Append(inbox, RequestLine(q, n))
    BY DEF ClientSubmit
  <2>2. /\ RequestLine(q, n) \in Line
        /\ RequestLine(q, n).type = "request" /\ RequestLine(q, n).file = q
    BY <1>1, LineTypes DEF RequestLine
  <2> QED
    BY <2>1, <2>2
<1>3. Lines' = Append(Lines, line) /\ Lines \in Seq(Line)
  BY <1>2, LinesAppended, LinesType DEF ClientSubmit, loop
<1>4. FileInv(q) /\ ~(q <= submitted)
  BY <1>1 DEF FilesInv
<1>5. UniqueLines(Lines) /\ ~HasLine(Lines, "request", q)
  BY <1>4 DEF FilesInv, FileInv
<1>6. /\ \A type, r : HasLine(Lines', type, r)
                        <=> HasLine(Lines, type, r) \/ (type = "request" /\ r = q)
      /\ UniqueLines(Lines')
  BY <1>2, <1>3, <1>5, AppendLine, ZenonT(40)
<1>7. ASSUME NEW r \in Requests PROVE FileInv(r)'
  <2>1. FileInv(r) /\ submitted' = q /\ (r <= submitted => r <= q)
    BY <1>1 DEF FilesInv, ClientSubmit
  <2>2. r = q => processing[r] = NoServer /\ r \notin Waiting
    BY <1>4 DEF FileInv
  <2>3. UNCHANGED <<executing, outbox, Waiting, processing, completed, forced>>
    BY DEF ClientSubmit, loop, requestQueues, requestFields, Waiting
  <2> QED
    BY <2>1, <2>2, <2>3, <1>1, <1>6 DEF FileInv
<1> QED
  BY <1>6, <1>7 DEF FilesInv

(* ServerFinish turns an executing file into its finished line. *)
LEMMA FinishFiles ==
  ASSUME TypeOK, FilesInv, NEW q \in Requests, ServerFinish(q)
  PROVE  FilesInv'
<1>1. FinishedLine(q) \in Line /\ FinishedLine(q).type = "finished" /\ FinishedLine(q).file = q
  BY LineTypes DEF FinishedLine
<1>2. Lines' = Append(Lines, FinishedLine(q)) /\ Lines \in Seq(Line)
  BY <1>1, LinesAppended, LinesType DEF ServerFinish, loop
<1>3. /\ q \in executing /\ q \notin outbox /\ ~HasLine(Lines, "finished", q)
      /\ processing[q] # NoServer /\ q \notin completed
  BY DEF FilesInv, FileInv, ServerFinish
<1>4. /\ \A type, r : HasLine(Lines', type, r)
                        <=> HasLine(Lines, type, r) \/ (type = "finished" /\ r = q)
      /\ UniqueLines(Lines')
  BY <1>1, <1>2, <1>3, AppendLine, ZenonT(40) DEF FilesInv
<1>5. ASSUME NEW r \in Requests PROVE FileInv(r)'
  <2>1. FileInv(r) /\ executing' = executing \ {q}
    BY DEF FilesInv, ServerFinish
  <2>2. UNCHANGED <<submitted, outbox, Waiting, processing, completed, forced>>
    BY DEF ServerFinish, loop, requestQueues, requestFields, Waiting
  <2> QED
    BY <2>1, <2>2, <1>3, <1>4 DEF FileInv
<1> QED
  BY <1>4, <1>5 DEF FilesInv

(* A request line is handled. *)
LEMMA RequestFiles ==
  ASSUME TypeOK, FilesInv, HandleLine, Head(batch).type = "request"
  PROVE  FilesInv'
<1> DEFINE q == Head(batch).file
<1>1. /\ Lines \in Seq(Line) /\ Lines # <<>> /\ Head(Lines) = Head(batch)
      /\ Lines' = Tail(Lines)
  BY LinesType, LinesHandled DEF HandleLine, environment
<1>2. /\ HasLine(Lines, "request", q)
      /\ UniqueLines(Lines')
      /\ \A type, r : HasLine(Lines', type, r)
                        <=> HasLine(Lines, type, r) /\ ~(type = "request" /\ r = q)
  BY <1>1, TailLine DEF FilesInv
<1>3. handle_request(q, Head(batch).size)
  BY DEF HandleLine
<1>4. Waiting' = Waiting \cup {q}
  BY <1>3 DEF handle_request, Waiting
<1>5. q \in Requests /\ FileInv(q)
  <2>1. Head(batch) \in Line
    BY DEF HandleLine, TypeOK
  <2> QED
    BY <2>1, LineTypes DEF FilesInv
<1>6. ASSUME NEW r \in Requests PROVE FileInv(r)'
  <2>1. FileInv(r)
    BY DEF FilesInv
  <2>2. UNCHANGED <<submitted, executing, outbox, processing, completed, forced>>
    BY <1>3 DEF HandleLine, handle_request, environment
  <2> QED
    BY <2>1, <2>2, <1>2, <1>4, <1>5 DEF FileInv
<1> QED
  BY <1>2, <1>6 DEF FilesInv

(* A finished line is handled: its file was given to a server, once. *)
LEMMA CompletionFile ==
  ASSUME TypeOK, FilesInv, HandleLine, Head(batch).type = "finished"
  PROVE  LET r == Head(batch).file
         IN /\ handle_completion(r)
            /\ r \in Requests
            /\ processing[r] \in Servers
            /\ r \notin completed
            /\ HasLine(Lines, "finished", r)
<1>1. Head(batch) \in Line
  BY DEF HandleLine, TypeOK
<1>2. Lines \in Seq(Line) /\ Lines # <<>> /\ Head(Lines) = Head(batch)
  BY LinesType, LinesHandled DEF HandleLine, environment
<1>3. HasLine(Lines, "finished", Head(batch).file)
  BY <1>2, TailLine DEF FilesInv
<1>4. Head(batch).file \in Requests
  BY <1>1, LineTypes
<1>5. FileInv(Head(batch).file)
  BY <1>4 DEF FilesInv
<1>6. processing[Head(batch).file] \in Servers /\ Head(batch).file \notin completed
  BY <1>3, <1>4, <1>5 DEF FileInv, TypeOK
<1>7. handle_completion(Head(batch).file)
  BY DEF HandleLine
<1> QED
  BY <1>3, <1>4, <1>6, <1>7

(* handle_completion keeps the invariant of every file. *)
LEMMA CompletionFiles ==
  ASSUME TypeOK, FilesInv, HandleLine, Head(batch).type = "finished"
  PROVE  FilesInv'
<1> DEFINE q == Head(batch).file
<1>1. /\ Lines \in Seq(Line) /\ Lines # <<>> /\ Head(Lines) = Head(batch)
      /\ Lines' = Tail(Lines)
  BY LinesType, LinesHandled DEF HandleLine, environment
<1>2. /\ UniqueLines(Lines')
      /\ \A type, r : HasLine(Lines', type, r)
                        <=> HasLine(Lines, type, r) /\ ~(type = "finished" /\ r = q)
  BY <1>1, TailLine DEF FilesInv
<1>3. /\ handle_completion(q) /\ q \in Requests /\ processing[q] \in Servers
      /\ HasLine(Lines, "finished", q)
  BY CompletionFile
<1>4. ASSUME NEW r \in Requests PROVE FileInv(r)'
  <2>1. FileInv(r) /\ completed' = completed \cup {q}
    BY <1>3 DEF FilesInv, handle_completion
  <2>2. UNCHANGED <<submitted, executing, outbox, Waiting, processing, forced>>
    BY <1>3 DEF HandleLine, handle_completion, environment, requestQueues, Waiting
  <2> QED
    BY <2>1, <2>2, <1>2, <1>3, ConstantTypes DEF FileInv
<1> QED
  BY <1>2, <1>4 DEF FilesInv

(* The request that is dispatched was waiting, and is taken out of its deque. *)
LEMMA DispatchedWaited ==
  ASSUME NEW s \in Servers, NEW r \in Requests,
         HandleNextDispatch(s, r) \/ HandleTimeout(s, r)
  PROVE  r \in Waiting /\ Waiting' = Waiting \ {r}
BY DEF HandleNextDispatch, HandleTimeout, IsSmallest, IsOldest, IsFront, Dequeue, Waiting

(* A dispatch, by handle_next or by handle_timeout, keeps FilesInv. *)
LEMMA DispatchFiles ==
  ASSUME TypeOK, FilesInv, NEW s \in Servers, NEW q \in Requests,
         HandleNextDispatch(s, q) \/ HandleTimeout(s, q)
  PROVE  FilesInv'
<1>1. q \in Waiting /\ Waiting' = Waiting \ {q}
  BY DispatchedWaited
<1>2. Lines' = Lines
  BY DEF HandleNextDispatch, HandleTimeout, environment, loop, Lines
<1>3. /\ \/ outbox' = outbox \cup {q} /\ UNCHANGED <<executing, forced>>
         \/ executing' = executing \cup {q} /\ forced' = [forced EXCEPT ![q] = TRUE]
              /\ UNCHANGED outbox
      /\ UNCHANGED <<submitted, completed>>
  BY DEF HandleNextDispatch, HandleTimeout, environment, loop
<1>4. processing' = [processing EXCEPT ![q] = s]
  BY DEF HandleNextDispatch, HandleTimeout, schedule_request_to_server
<1>5. FileInv(q) /\ s # NoServer
  BY ConstantTypes DEF FilesInv
<1>6. ASSUME NEW r \in Requests PROVE FileInv(r)'
  <2>1. FileInv(r)
    BY DEF FilesInv
  <2>2. CASE r = q
    BY <2>2, <1>1, <1>2, <1>3, <1>4, <1>5 DEF FileInv, TypeOK
  <2>3. CASE r # q
    BY <2>1, <2>3, <1>1, <1>2, <1>3, <1>4 DEF FileInv, TypeOK
  <2> QED
    BY <2>2, <2>3
<1> QED
  BY <1>2, <1>6 DEF FilesInv

(* What was scheduled becomes what the servers execute. *)
LEMMA SendFiles == TypeOK /\ FilesInv /\ SendScheduled => FilesInv'
<1> SUFFICES ASSUME TypeOK, FilesInv, SendScheduled PROVE FilesInv'
  OBVIOUS
<1>1. Lines' = Lines
  BY DEF SendScheduled, Lines
<1>2. ASSUME NEW r \in Requests PROVE FileInv(r)'
  BY <1>1
  DEF SendScheduled, FilesInv, FileInv, Waiting, requestQueues, requestFields
<1> QED
  BY <1>1, <1>2 DEF FilesInv

(* Every step of the system keeps FilesInv. *)
LEMMA NextFiles == TypeOK /\ FilesInv /\ [Next]_vars => FilesInv'
<1> SUFFICES ASSUME TypeOK, FilesInv, [Next]_vars PROVE FilesInv'
  OBVIOUS
<1>1. CASE UNCHANGED vars
  BY <1>1, FilesFrame
  DEF vars, fileVars, environment, loop, requestQueues, requestFields, Lines
<1>2. CASE Tick
  BY <1>2, FilesFrame DEF Tick, fileVars, loop, requestQueues, requestFields, Lines
<1>3. CASE ReadBatch
  BY <1>3, FilesFrame, LinesRead DEF ReadBatch, fileVars, requestQueues, requestFields
<1>4. CASE HandleLine
  <2>1. Head(batch).type \in {"request", "finished"}
    BY <1>4 DEF HandleLine
  <2> QED
    BY <1>4, <2>1, RequestFiles, CompletionFiles
<1>5. CASE HandleNextNothing
  BY <1>5, FilesFrame
  DEF HandleNextNothing, fileVars, environment, requestQueues, requestFields, Lines
<1> QED
  BY <1>1, <1>2, <1>3, <1>4, <1>5, SubmitFiles, FinishFiles, DispatchFiles, SendFiles
  DEF Next, Environment, Scheduler, HandleNext, Timeout

(* A request line is of a file that is in no deque. *)
LEMMA NextDeques == TypeOK /\ FilesInv /\ DequesDisjoint /\ [Next]_vars => DequesDisjoint'
<1> SUFFICES ASSUME TypeOK, FilesInv, DequesDisjoint, [Next]_vars PROVE DequesDisjoint'
  OBVIOUS
<1>1. CASE UNCHANGED requestQueues
  BY <1>1 DEF DequesDisjoint, requestQueues
<1>2. CASE HandleLine /\ Head(batch).type = "request"
  <2> DEFINE q == Head(batch).file
  <2>1. Lines \in Seq(Line) /\ Lines # <<>> /\ Head(Lines) = Head(batch)
    BY <1>2, LinesType, LinesHandled DEF HandleLine, environment
  <2>2. HasLine(Lines, "request", q)
    BY <1>2, <2>1, TailLine DEF FilesInv
  <2>3. Head(batch) \in Line
    BY <1>2 DEF HandleLine, TypeOK
  <2>4. q \notin Waiting
    BY <2>2, <2>3, LineTypes DEF FilesInv, FileInv
  <2>5. handle_request(q, Head(batch).size)
    BY <1>2 DEF HandleLine
  <2> QED
    BY <2>4, <2>5 DEF handle_request, Waiting, DequesDisjoint, requestQueues
<1>3. CASE HandleLine /\ Head(batch).type = "finished"
  BY <1>1, <1>3, CompletionFile DEF handle_completion
<1>4. CASE HandleLine
  BY <1>2, <1>3, <1>4 DEF HandleLine
<1>5. ASSUME NEW s \in Servers, NEW r \in Requests,
             HandleNextDispatch(s, r) \/ HandleTimeout(s, r)
      PROVE  DequesDisjoint'
  BY <1>5 DEF HandleNextDispatch, HandleTimeout, Dequeue, DequesDisjoint
<1>6. CASE UNCHANGED vars
  BY <1>1, <1>6 DEF vars
<1>7. CASE Environment
  BY <1>1, <1>7 DEF Environment, Tick, ClientSubmit, ServerFinish
<1>8. CASE ReadBatch \/ SendScheduled \/ HandleNextNothing
  BY <1>1, <1>8 DEF ReadBatch, SendScheduled, HandleNextNothing
<1> QED
  BY <1>4, <1>5, <1>6, <1>7, <1>8 DEF Next, Scheduler, HandleNext, Timeout

-----------------------------------------------------------------------------
(***************************************************************************)
(* The place of a file.                                                    *)
(***************************************************************************)
(* A line is in the batch or in the socket, and is the only one of its kind. *)
LEMMA LinePlace ==
  ASSUME TypeOK, UniqueLines(Lines), NEW type, NEW r
  PROVE  /\ HasLine(Lines, type, r) => \E place : LinesOf(type, r) = {place}
         /\ ~HasLine(Lines, type, r) => LinesOf(type, r) = {}
<1> DEFINE Read == {i \in 1 .. Len(batch) : batch[i].type = type /\ batch[i].file = r}
           Unread == {i \in 1 .. Len(inbox) : inbox[i].type = type /\ inbox[i].file = r}
<1>1. LinesOf(type, r) = (Unread \X {"inbox"}) \cup (Read \X {"batch"})
  BY DEF LinesOf
<1>2. /\ Len(batch) \in Nat /\ Len(inbox) \in Nat
      /\ Len(Lines) = Len(batch) + Len(inbox)
      /\ \A i \in 1 .. Len(batch) : Lines[i] = batch[i]
      /\ \A i \in 1 .. Len(inbox) : Lines[i + Len(batch)] = inbox[i]
  BY DEF TypeOK, Lines
<1>3. \A i \in Read : /\ i \in 1 .. Len(Lines)
                      /\ Lines[i].type = type /\ Lines[i].file = r
  BY <1>2
<1>4. \A i \in Unread : /\ i + Len(batch) \in 1 .. Len(Lines)
                        /\ Lines[i + Len(batch)].type = type
                        /\ Lines[i + Len(batch)].file = r
  BY <1>2
<1>5. \A i \in 1 .. Len(Lines) : Lines[i].type = type /\ Lines[i].file = r
        => i \in Read \/ (i - Len(batch) \in Unread /\ i > Len(batch))
  BY <1>2
<1>6. Read \subseteq 1 .. Len(batch) /\ Unread \subseteq 1 .. Len(inbox)
  OBVIOUS
<1> HIDE DEF Read, Unread
<1>7. ASSUME HasLine(Lines, type, r)
      PROVE  \E place : LinesOf(type, r) = {place}
  <2>1. PICK i \in 1 .. Len(Lines) : Lines[i].type = type /\ Lines[i].file = r
    BY <1>7 DEF HasLine
  <2>2. /\ \A j \in Read : j = i
        /\ \A j \in Unread : j + Len(batch) = i
    BY <2>1, <1>3, <1>4 DEF UniqueLines
  <2>3. CASE i \in Read
    <3>1. Read = {i}
      BY <2>2, <2>3
    <3>2. \A j \in Unread : j \in Nat \ {0} /\ j + Len(batch) = i
      BY <2>2, <1>6
    <3>3. i <= Len(batch)
      BY <2>3, <1>6
    <3>4. Unread = {}
      BY <3>2, <3>3, <1>2
    <3>5. LinesOf(type, r) = {<<i, "batch">>}
      BY <3>1, <3>4, <1>1
    <3> QED
      BY <3>5
  <2>4. CASE i - Len(batch) \in Unread /\ i > Len(batch)
    <3> DEFINE k == i - Len(batch)
    <3>1. \A j \in Unread : j \in Nat /\ j + Len(batch) = i
      BY <2>2, <1>6
    <3>2. Unread = {k}
      BY <2>4, <3>1, <1>2
    <3>3. \A j \in Read : j <= Len(batch) /\ j = i
      BY <2>2, <1>6
    <3>4. Read = {}
      BY <3>3, <2>4, <1>2
    <3>5. LinesOf(type, r) = {<<k, "inbox">>}
      BY <3>2, <3>4, <1>1
    <3> QED
      BY <3>5
  <2> QED
    BY <2>1, <2>3, <2>4, <1>5
<1>8. ASSUME ~HasLine(Lines, type, r)
      PROVE  LinesOf(type, r) = {}
  <2>1. Read = {} /\ Unread = {}
    BY <1>8, <1>3, <1>4 DEF HasLine
  <2> QED
    BY <2>1, <1>1
<1> QED
  BY <1>7, <1>8

(* FilesInv and DequesDisjoint leave a file exactly one place. *)
LEMMA OnePlace == TypeOK /\ FilesInv /\ DequesDisjoint => EachFileInOnePlace
<1> SUFFICES ASSUME TypeOK, FilesInv, DequesDisjoint, NEW r \in Requests
             PROVE  Cardinality(Places(r)) = IF r <= submitted THEN 1 ELSE 0
  BY DEF EachFileInOnePlace
<1> DEFINE asked == LinesOf("request", r)
           done == LinesOf("finished", r)
           at(name, S) == {place \in {name} : r \in S}
           inDeque == at("identified", identified_requests)
                        \cup at("unidentified", unidentified_requests)
           given == at("outbox", outbox) \cup at("executing", executing)
           ended == at("completed", completed)
<1>1. FileInv(r)
  BY DEF FilesInv
<1>2. Places(r) = asked \cup done \cup inDeque \cup given \cup ended
  BY DEF Places
<1>3. /\ HasLine(Lines, "request", r) => \E place : asked = {place}
      /\ ~HasLine(Lines, "request", r) => asked = {}
  BY LinePlace DEF FilesInv
<1>4. /\ HasLine(Lines, "finished", r) => \E place : done = {place}
      /\ ~HasLine(Lines, "finished", r) => done = {}
  BY LinePlace DEF FilesInv
<1>5. /\ r \in Waiting => \E place : inDeque = {place}
      /\ r \notin Waiting => inDeque = {}
  BY DEF Waiting, DequesDisjoint
<1>6. /\ r \in outbox \cup executing => \E place : given = {place}
      /\ r \notin outbox \cup executing => given = {}
  BY <1>1 DEF FileInv
<1>7. /\ r \in completed => \E place : ended = {place}
      /\ r \notin completed => ended = {}
  OBVIOUS
<1> HIDE DEF asked, done, inDeque, given, ended
<1>8. CASE r <= submitted
  <2>1. \E place : Places(r) = {place}
    <3>1. CASE HasLine(Lines, "request", r)
      BY <3>1, <1>1, <1>2, <1>3, <1>4, <1>5, <1>6, <1>7 DEF FileInv
    <3>2. CASE r \in Waiting
      BY <3>2, <1>1, <1>2, <1>3, <1>4, <1>5, <1>6, <1>7 DEF FileInv
    <3>3. CASE r \in outbox \cup executing
      BY <3>3, <1>1, <1>2, <1>3, <1>4, <1>5, <1>6, <1>7 DEF FileInv
    <3>4. CASE HasLine(Lines, "finished", r)
      BY <3>4, <1>1, <1>2, <1>3, <1>4, <1>5, <1>6, <1>7 DEF FileInv
    <3>5. CASE r \in completed
      BY <3>5, <1>1, <1>2, <1>3, <1>4, <1>5, <1>6, <1>7 DEF FileInv
    <3> QED
      BY <1>1, <1>8, <3>1, <3>2, <3>3, <3>4, <3>5 DEF FileInv
  <2> QED
    BY <1>8, <2>1, FS_Singleton
<1>9. CASE ~(r <= submitted)
  <2>1. Places(r) = {}
    BY <1>1, <1>9, <1>2, <1>3, <1>4, <1>5, <1>6, <1>7 DEF FileInv
  <2> QED
    BY <1>9, <2>1, FS_EmptySet
<1> QED
  BY <1>8, <1>9

-----------------------------------------------------------------------------
(***************************************************************************)
(* The servers: their counters and the priority queues.                    *)
(***************************************************************************)
ServersInv == ActiveCountIsExact /\ QueuedExactlyWhenIdle /\ QueuesAreHomogeneous

(* Every set of requests is finite, and its cardinality a number. *)
LEMMA RequestsFinite ==
  ASSUME NEW S \in SUBSET Requests
  PROVE  /\ IsFiniteSet(S) /\ Cardinality(S) \in Nat
         /\ Cardinality(S) = 0 <=> S = {}
<1>1. IsFiniteSet(Requests)
  BY ConstantTypes, FS_Interval DEF Requests
<1>2. IsFiniteSet(S)
  BY <1>1, FS_Subset
<1> QED
  BY <1>2, FS_CardinalityType, FS_EmptySet

(* Every set of servers is finite, and its cardinality a number. *)
LEMMA ServersFinite ==
  ASSUME NEW S \in SUBSET Servers
  PROVE  /\ IsFiniteSet(S) /\ Cardinality(S) \in Nat
         /\ Cardinality(S) = 0 <=> S = {}
<1>1. IsFiniteSet(Servers)
  BY ConstantTypes, FS_Interval DEF Servers
<1>2. IsFiniteSet(S)
  BY <1>1, FS_Subset
<1> QED
  BY <1>2, FS_CardinalityType, FS_EmptySet

(* A step that touches no server keeps what is known of the servers. *)
LEMMA ServersFrame ==
  ServersInv /\ UNCHANGED <<processing, completed, stat, serverQueues>> => ServersInv'
BY DEF ServersInv, ActiveCountIsExact, QueuedExactlyWhenIdle, QueuesAreHomogeneous,
       Outstanding, serverQueues

(* The last handle_next of a batch leaves no idle server and waiting request. *)
LEMMA NothingLeftToMatch == TypeOK /\ EnoughNextsLeft => WorkConserving
<1> SUFFICES ASSUME TypeOK, EnoughNextsLeft, batch = <<>>, nexts = 0
             PROVE  Idle = {} \/ Waiting = {}
  BY DEF WorkConserving
<1>1. Idle \subseteq Servers /\ Waiting \subseteq Requests
  BY DEF Idle, Waiting, TypeOK
<1>2. Cardinality(Idle) <= 0 \/ Cardinality(Waiting) <= 0
  BY DEF EnoughNextsLeft
<1>3. Cardinality(Idle) \in Nat /\ Cardinality(Waiting) \in Nat
  BY <1>1, RequestsFinite, ServersFinite
<1> QED
  BY <1>1, <1>2, <1>3, RequestsFinite, ServersFinite

(* A dispatch adds one request to what its server has outstanding. *)
LEMMA DispatchOutstanding ==
  ASSUME TypeOK, FilesInv, NEW s \in Servers, NEW q \in Requests,
         HandleNextDispatch(s, q) \/ HandleTimeout(s, q)
  PROVE  /\ q \notin Outstanding(s)
         /\ Outstanding(s)' = Outstanding(s) \cup {q}
         /\ \A t \in Servers \ {s} : Outstanding(t)' = Outstanding(t)
         /\ stat' = [stat EXCEPT ![s] = ProcessRequest(@)]
<1>1. q \in Waiting
  BY DispatchedWaited
<1>2. processing[q] = NoServer /\ q \notin completed
  BY <1>1 DEF FilesInv, FileInv
<1>3. /\ processing' = [processing EXCEPT ![q] = s]
      /\ stat' = [stat EXCEPT ![s] = ProcessRequest(@)]
      /\ completed' = completed
  BY DEF HandleNextDispatch, HandleTimeout, schedule_request_to_server
<1> QED
  BY <1>2, <1>3, ConstantTypes DEF Outstanding, TypeOK

(* A dispatch keeps the active count of every server exact. *)
LEMMA DispatchCounts ==
  ASSUME TypeOK, FilesInv, ActiveCountIsExact, NEW s \in Servers, NEW q \in Requests,
         HandleNextDispatch(s, q) \/ HandleTimeout(s, q)
  PROVE  /\ ActiveCountIsExact'
         /\ \A t \in Servers : IsCalibrated(stat'[t]) <=> IsCalibrated(stat[t])
<1>1. /\ q \notin Outstanding(s)
      /\ Outstanding(s)' = Outstanding(s) \cup {q}
      /\ \A t \in Servers \ {s} : Outstanding(t)' = Outstanding(t)
      /\ stat' = [stat EXCEPT ![s] = ProcessRequest(@)]
  BY DispatchOutstanding
<1>2. /\ stat[s].requests \in Nat /\ stat[s].requests_completed \in Nat
      /\ stat'[s] = [stat[s] EXCEPT !.requests = @ + 1]
      /\ \A t \in Servers \ {s} : stat'[t] = stat[t]
  BY <1>1 DEF TypeOK, Statistic, ProcessRequest
<1>3. Cardinality(Outstanding(s) \cup {q}) = Cardinality(Outstanding(s)) + 1
  <2>1. IsFiniteSet(Outstanding(s))
    BY RequestsFinite DEF Outstanding
  <2> QED
    BY <2>1, <1>1, FS_AddElement
<1>4. /\ stat'[s].requests = stat[s].requests + 1
      /\ stat'[s].requests_completed = stat[s].requests_completed
      /\ stat'[s].performance_metric = stat[s].performance_metric
  BY <1>2 DEF TypeOK, Statistic
<1>5. ActiveRequestCount(stat'[s]) = ActiveRequestCount(stat[s]) + 1
  BY <1>2, <1>4 DEF ActiveRequestCount
<1>6. ASSUME NEW t \in Servers
      PROVE  ActiveRequestCount(stat'[t]) = Cardinality(Outstanding(t)')
  <2>1. CASE t = s
    BY <2>1, <1>1, <1>3, <1>5 DEF ActiveCountIsExact
  <2>2. CASE t # s
    BY <2>2, <1>1, <1>2 DEF ActiveCountIsExact
  <2> QED
    BY <2>1, <2>2
<1>7. ActiveCountIsExact'
  BY <1>6 DEF ActiveCountIsExact
<1>8. \A t \in Servers : stat'[t].performance_metric = stat[t].performance_metric
  BY <1>2, <1>4
<1> QED
  BY <1>7, <1>8 DEF IsCalibrated

(* handle_next takes the server it gives a request to out of its queue. *)
LEMMA NextDispatchServers ==
  ASSUME TypeOK, TypeInv, FilesInv, ServersInv, NEW s \in Servers, NEW q \in Requests,
         HandleNextDispatch(s, q)
  PROVE  ServersInv'
<1>1. /\ Outstanding(s)' = Outstanding(s) \cup {q}
      /\ \A t \in Servers \ {s} : Outstanding(t)' = Outstanding(t)
  BY DispatchOutstanding
<1>2. /\ ActiveCountIsExact'
      /\ \A t \in Servers : IsCalibrated(stat'[t]) <=> IsCalibrated(stat[t])
  BY DispatchCounts DEF ServersInv
<1>3. /\ approximated_servers \in [Servers -> Nat] /\ calibrated_servers \in [Servers -> Nat]
      /\ approximated_servers' \in [Servers -> Nat] /\ calibrated_servers' \in [Servers -> Nat]
      /\ approximated_servers[s] + calibrated_servers[s] > 0
      /\ approximated_servers'[s] + calibrated_servers'[s]
           = approximated_servers[s] + calibrated_servers[s] - 1
      /\ \A t \in Servers \ {s} : /\ approximated_servers'[t] = approximated_servers[t]
                                  /\ calibrated_servers'[t] = calibrated_servers[t]
  BY DispatchPops, PopType DEF TypeOK
<1>4. approximated_servers'[s] + calibrated_servers'[s] = 0
  BY <1>3 DEF ServersInv, QueuedExactlyWhenIdle
<1>5. QueuedExactlyWhenIdle'
  <2> SUFFICES ASSUME NEW t \in Servers
               PROVE  approximated_servers'[t] + calibrated_servers'[t]
                        = IF Outstanding(t)' = {} THEN 1 ELSE 0
    BY DEF QueuedExactlyWhenIdle
  <2>1. CASE t = s
    BY <2>1, <1>1, <1>4
  <2>2. CASE t # s
    BY <2>2, <1>1, <1>3 DEF ServersInv, QueuedExactlyWhenIdle
  <2> QED
    BY <2>1, <2>2
<1>6. approximated_servers'[s] = 0 /\ calibrated_servers'[s] = 0
  BY <1>3, <1>4
<1>7. QueuesAreHomogeneous'
  <2> SUFFICES ASSUME NEW t \in Servers
               PROVE  /\ approximated_servers'[t] > 0 => ~IsCalibrated(stat'[t])
                      /\ calibrated_servers'[t] > 0 => IsCalibrated(stat'[t])
    BY DEF QueuesAreHomogeneous
  <2>1. CASE t = s
    BY <2>1, <1>6
  <2>2. CASE t # s
    BY <2>2, <1>2, <1>3 DEF ServersInv, QueuesAreHomogeneous
  <2> QED
    BY <2>1, <2>2
<1> QED
  BY <1>2, <1>5, <1>7 DEF ServersInv

(* A forced request goes to a busy server, since none is idle. *)
LEMMA TimeoutServers ==
  ASSUME TypeOK, FilesInv, ServersInv, EnoughNextsLeft,
         NEW s \in Servers, NEW q \in Requests, HandleTimeout(s, q)
  PROVE  ServersInv'
<1>1. /\ Outstanding(s)' = Outstanding(s) \cup {q}
      /\ \A t \in Servers \ {s} : Outstanding(t)' = Outstanding(t)
  BY DispatchOutstanding
<1>2. /\ ActiveCountIsExact'
      /\ \A t \in Servers : IsCalibrated(stat'[t]) <=> IsCalibrated(stat[t])
  BY DispatchCounts DEF ServersInv
<1>3. UNCHANGED <<approximated_servers, calibrated_servers>>
  BY DEF HandleTimeout, serverQueues
<1>4. Idle = {}
  BY NothingLeftToMatch DEF HandleTimeout, Quiescent, WorkConserving
<1>5. Outstanding(s) # {}
  BY <1>4 DEF Idle, ServersInv, QueuedExactlyWhenIdle
<1>6. \A t \in Servers : Outstanding(t)' = {} <=> Outstanding(t) = {}
  BY <1>1, <1>5
<1>7. QueuedExactlyWhenIdle'
  BY <1>3, <1>6 DEF ServersInv, QueuedExactlyWhenIdle
<1>8. QueuesAreHomogeneous'
  BY <1>2, <1>3 DEF ServersInv, QueuesAreHomogeneous
<1> QED
  BY <1>2, <1>7, <1>8 DEF ServersInv

(* The server of a completed request goes back to a queue if it was its last. *)
LEMMA CompletionServers ==
  ASSUME TypeOK, ServersInv, NEW q \in Requests, handle_completion(q),
         processing[q] \in Servers, q \notin completed
  PROVE  /\ ServersInv'
         /\ approximated_servers[processing[q]] + calibrated_servers[processing[q]] = 0
         /\ \A t \in Servers \ {processing[q]} :
              /\ approximated_servers'[t] = approximated_servers[t]
              /\ calibrated_servers'[t] = calibrated_servers[t]
              /\ stat'[t] = stat[t]
<1> SUFFICES ASSUME NEW s \in Servers, s = processing[q]
             PROVE  /\ ServersInv'
                    /\ approximated_servers[s] + calibrated_servers[s] = 0
                    /\ \A t \in Servers \ {s} :
                         /\ approximated_servers'[t] = approximated_servers[t]
                         /\ calibrated_servers'[t] = calibrated_servers[t]
                         /\ stat'[t] = stat[t]
  OBVIOUS
<1> DEFINE recorded == RecordRequest(stat[s], size[q], now - start_time[q])
<1>1. /\ stat' = [stat EXCEPT ![s] = recorded]
      /\ completed' = completed \cup {q}
      /\ processing' = processing
      /\ PushIfDrained(s, stat[s], recorded)
  BY DEF handle_completion
<1>2. /\ q \in Outstanding(s)
      /\ Outstanding(s)' = Outstanding(s) \ {q}
      /\ \A t \in Servers \ {s} : Outstanding(t)' = Outstanding(t)
  BY <1>1 DEF Outstanding
<1>3. /\ Cardinality(Outstanding(s)) \in Nat \ {0}
      /\ Cardinality(Outstanding(s)') = Cardinality(Outstanding(s)) - 1
      /\ Outstanding(s)' = {} <=> Cardinality(Outstanding(s)) = 1
  <2>1. Outstanding(s) \in SUBSET Requests /\ Outstanding(s)' \in SUBSET Requests
    BY <1>2 DEF Outstanding
  <2>2. Cardinality(Outstanding(s)) # 0
    BY <1>2, <2>1, RequestsFinite
  <2>3. Cardinality(Outstanding(s) \ {q}) = Cardinality(Outstanding(s)) - 1
    BY <1>2, <2>1, RequestsFinite, FS_RemoveElement
  <2>4. Cardinality(Outstanding(s)) \in Nat
    BY <2>1, RequestsFinite
  <2>5. Cardinality(Outstanding(s)') = 0 <=> Outstanding(s)' = {}
    BY <2>1, RequestsFinite
  <2> QED
    BY <1>2, <2>2, <2>3, <2>4, <2>5
<1>4. /\ stat[s].requests \in Nat /\ stat[s].requests_completed \in Nat
      /\ stat[s].requests - stat[s].requests_completed = Cardinality(Outstanding(s))
  BY DEF TypeOK, Statistic, ServersInv, ActiveCountIsExact, ActiveRequestCount
<1>5. Drained(stat[s]) <=> Outstanding(s)' = {}
  BY <1>3, <1>4 DEF Drained
<1>6. /\ recorded.requests = IF Drained(stat[s]) THEN 0 ELSE stat[s].requests
      /\ recorded.requests_completed
           = IF Drained(stat[s]) THEN 0 ELSE stat[s].requests_completed + 1
  BY DEF RecordRequest
<1>7. ActiveRequestCount(recorded) = Cardinality(Outstanding(s)')
  BY <1>3, <1>4, <1>6 DEF Drained, ActiveRequestCount
<1> HIDE DEF recorded
<1>8. stat'[s] = recorded /\ \A t \in Servers \ {s} : stat'[t] = stat[t]
  BY <1>1 DEF TypeOK
<1>9. ActiveCountIsExact'
  <2> SUFFICES ASSUME NEW t \in Servers
               PROVE  ActiveRequestCount(stat'[t]) = Cardinality(Outstanding(t)')
    BY DEF ActiveCountIsExact
  <2>1. CASE t = s
    BY <2>1, <1>7, <1>8
  <2>2. CASE t # s
    BY <2>2, <1>2, <1>8 DEF ServersInv, ActiveCountIsExact
  <2> QED
    BY <2>1, <2>2
<1>10. /\ approximated_servers \in [Servers -> Nat] /\ calibrated_servers \in [Servers -> Nat]
       /\ approximated_servers[s] + calibrated_servers[s] = 0
  BY <1>2 DEF TypeOK, ServersInv, QueuedExactlyWhenIdle
<1>11. approximated_servers[s] = 0 /\ calibrated_servers[s] = 0
  BY <1>10
<1>12. /\ calibrated_servers'[s]
            = IF Drained(stat[s]) /\ IsCalibrated(recorded) THEN 1 ELSE 0
       /\ approximated_servers'[s]
            = IF Drained(stat[s]) /\ ~IsCalibrated(recorded) THEN 1 ELSE 0
       /\ \A t \in Servers \ {s} : /\ approximated_servers'[t] = approximated_servers[t]
                                   /\ calibrated_servers'[t] = calibrated_servers[t]
  BY <1>1, <1>10, <1>11 DEF PushIfDrained
<1>13. QueuedExactlyWhenIdle'
  <2> SUFFICES ASSUME NEW t \in Servers
               PROVE  approximated_servers'[t] + calibrated_servers'[t]
                        = IF Outstanding(t)' = {} THEN 1 ELSE 0
    BY DEF QueuedExactlyWhenIdle
  <2>1. CASE t = s
    BY <2>1, <1>5, <1>12
  <2>2. CASE t # s
    BY <2>2, <1>2, <1>12 DEF ServersInv, QueuedExactlyWhenIdle
  <2> QED
    BY <2>1, <2>2
<1>14. QueuesAreHomogeneous'
  <2> SUFFICES ASSUME NEW t \in Servers
               PROVE  /\ approximated_servers'[t] > 0 => ~IsCalibrated(stat'[t])
                      /\ calibrated_servers'[t] > 0 => IsCalibrated(stat'[t])
    BY DEF QueuesAreHomogeneous
  <2>1. CASE t = s
    BY <2>1, <1>8, <1>12
  <2>2. CASE t # s
    BY <2>2, <1>8, <1>12 DEF ServersInv, QueuesAreHomogeneous
  <2> QED
    BY <2>1, <2>2
<1> QED
  BY <1>8, <1>9, <1>10, <1>12, <1>13, <1>14 DEF ServersInv

(* Every step keeps the queues and the active counts right. *)
LEMMA NextServers ==
  TypeInv /\ FilesInv /\ ServersInv /\ EnoughNextsLeft /\ [Next]_vars => ServersInv'
<1> SUFFICES ASSUME TypeInv, FilesInv, ServersInv, EnoughNextsLeft, [Next]_vars
             PROVE  ServersInv'
  OBVIOUS
<1> TypeOK
  BY DEF TypeInv
<1>1. CASE UNCHANGED vars
  BY <1>1, ServersFrame DEF vars, requestFields
<1>2. CASE Environment
  BY <1>2, ServersFrame DEF Environment, Tick, ClientSubmit, ServerFinish, requestFields
<1>3. CASE ReadBatch \/ SendScheduled \/ HandleNextNothing
  BY <1>3, ServersFrame DEF ReadBatch, SendScheduled, HandleNextNothing, requestFields
<1>4. CASE HandleLine
  <2>1. CASE Head(batch).type = "request"
    <3>1. handle_request(Head(batch).file, Head(batch).size)
      BY <1>4, <2>1 DEF HandleLine
    <3> QED
      BY <3>1, ServersFrame DEF handle_request
  <2>2. CASE Head(batch).type = "finished"
    BY <1>4, <2>2, CompletionFile, CompletionServers
  <2> QED
    BY <1>4, <2>1, <2>2 DEF HandleLine
<1> QED
  BY <1>1, <1>2, <1>3, <1>4, NextDispatchServers, TimeoutServers
  DEF Next, Scheduler, HandleNext, Timeout

-----------------------------------------------------------------------------
(***************************************************************************)
(* The handle_next calls suffice.                                          *)
(***************************************************************************)
LEMMA IdleAndWaitingFinite ==
  ASSUME TypeOK
  PROVE  /\ IsFiniteSet(Idle) /\ Cardinality(Idle) \in Nat
         /\ IsFiniteSet(Waiting) /\ Cardinality(Waiting) \in Nat
         /\ Len(batch) \in Nat /\ nexts \in Nat
         /\ batch = <<>> <=> Len(batch) = 0
<1>1. Idle \subseteq Servers /\ Waiting \subseteq Requests
  BY DEF Idle, Waiting, TypeOK
<1>2. batch \in Seq(Line) /\ nexts \in Nat
  BY DEF TypeOK
<1> QED
  BY <1>1, <1>2, RequestsFinite, ServersFinite

(* A set that gains at most one element grows by at most one. *)
LEMMA AddAtMostOne ==
  ASSUME NEW S, NEW x, IsFiniteSet(S)
  PROVE  /\ Cardinality(S \cup {x}) \in Nat
         /\ Cardinality(S \cup {x}) <= Cardinality(S) + 1
<1>1. Cardinality(S) \in Nat
  BY FS_CardinalityType
<1>2. CASE x \in S
  <2>1. S \cup {x} = S
    BY <1>2
  <2> QED
    BY <1>1, <2>1
<1>3. CASE x \notin S
  <2>1. Cardinality(S \cup {x}) = Cardinality(S) + 1
    BY <1>3, FS_AddElement
  <2> QED
    BY <1>1, <2>1
<1> QED
  BY <1>2, <1>3

(* A step that keeps the idle servers, the waiting requests and the calls to
   come keeps EnoughNextsLeft. *)
LEMMA NextsFrame ==
  EnoughNextsLeft /\ UNCHANGED <<batch, nexts, serverQueues, requestQueues>>
    => EnoughNextsLeft'
BY DEF EnoughNextsLeft, Idle, Waiting, serverQueues, requestQueues

(* Between batches nothing is left to match; the new calls match the new lines. *)
LEMMA ReadBatchNexts == TypeInv /\ EnoughNextsLeft /\ ReadBatch => EnoughNextsLeft'
<1> SUFFICES ASSUME TypeInv, EnoughNextsLeft, ReadBatch PROVE EnoughNextsLeft'
  OBVIOUS
<1>1. batch = <<>> /\ nexts = 0 /\ nexts' = Len(batch')
  BY DEF ReadBatch, Quiescent, EventCount
<1>2. UNCHANGED <<Idle, Waiting>>
  BY DEF ReadBatch, serverQueues, requestQueues, Idle, Waiting
<1>3. Idle = {} \/ Waiting = {}
  BY <1>1, NothingLeftToMatch DEF WorkConserving, TypeInv
<1>4. Len(batch') \in Nat
  BY ReadBatchTypeInv, IdleAndWaitingFinite DEF TypeInv, TypeOK
<1> QED
  BY <1>1, <1>2, <1>3, <1>4, FS_EmptySet DEF EnoughNextsLeft

(* handle_request adds one waiting request and takes one line. *)
LEMMA RequestNexts ==
  ASSUME TypeOK, EnoughNextsLeft, HandleLine, Head(batch).type = "request"
  PROVE  EnoughNextsLeft'
<1>1. handle_request(Head(batch).file, Head(batch).size)
  BY DEF HandleLine
<1>2. Waiting' = Waiting \cup {Head(batch).file} /\ Idle' = Idle
  BY <1>1 DEF handle_request, Waiting, Idle, serverQueues
<1>3. Cardinality(Waiting') <= Cardinality(Waiting) + 1 /\ Cardinality(Waiting') \in Nat
  <2>1. /\ Cardinality(Waiting \cup {Head(batch).file}) <= Cardinality(Waiting) + 1
        /\ Cardinality(Waiting \cup {Head(batch).file}) \in Nat
    BY IdleAndWaitingFinite, AddAtMostOne
  <2> QED
    BY <1>2, <2>1
<1>4. Len(batch') = Len(batch) - 1 /\ Len(batch) \in Nat \ {0} /\ nexts' = nexts
  BY HeadTailProperties DEF HandleLine, TypeOK
<1> QED
  BY <1>2, <1>3, <1>4, IdleAndWaitingFinite DEF EnoughNextsLeft

(* handle_completion adds at most one idle server and takes one line. *)
LEMMA CompletionNexts ==
  ASSUME TypeOK, FilesInv, ServersInv, EnoughNextsLeft, HandleLine,
         Head(batch).type = "finished"
  PROVE  EnoughNextsLeft'
<1> DEFINE q == Head(batch).file
<1>1. /\ handle_completion(q) /\ q \in Requests
      /\ processing[q] \in Servers /\ q \notin completed
  BY CompletionFile
<1>2. Waiting' = Waiting
  BY <1>1 DEF handle_completion, requestQueues, Waiting
<1>3. \A t \in Servers \ {processing[q]} :
        /\ approximated_servers'[t] = approximated_servers[t]
        /\ calibrated_servers'[t] = calibrated_servers[t]
  BY <1>1, CompletionServers
<1>4. /\ processing[q] \notin Idle
      /\ Idle' = Idle \/ Idle' = Idle \cup {processing[q]}
  <2>1. approximated_servers[processing[q]] + calibrated_servers[processing[q]] = 0
    BY <1>1, CompletionServers
  <2> QED
    BY <1>3, <2>1 DEF Idle
<1>5. Cardinality(Idle') <= Cardinality(Idle) + 1 /\ Cardinality(Idle') \in Nat
  <2>1. /\ Cardinality(Idle \cup {processing[q]}) <= Cardinality(Idle) + 1
        /\ Cardinality(Idle \cup {processing[q]}) \in Nat
    BY IdleAndWaitingFinite, AddAtMostOne
  <2>2. CASE Idle' = Idle
    BY <2>2, IdleAndWaitingFinite
  <2>3. CASE Idle' = Idle \cup {processing[q]}
    BY <2>1, <2>3
  <2> QED
    BY <1>4, <2>2, <2>3
<1>6. Len(batch') = Len(batch) - 1 /\ Len(batch) \in Nat \ {0} /\ nexts' = nexts
  BY HeadTailProperties DEF HandleLine, TypeOK
<1> QED
  BY <1>2, <1>5, <1>6, IdleAndWaitingFinite DEF EnoughNextsLeft

(* When handle_next finds nothing, one of the two sides is empty. *)
LEMMA HandleNextNothingNexts ==
  TypeOK /\ EnoughNextsLeft /\ HandleNextNothing => EnoughNextsLeft'
<1> SUFFICES ASSUME TypeOK, EnoughNextsLeft, HandleNextNothing PROVE EnoughNextsLeft'
  OBVIOUS
<1>1. UNCHANGED <<Idle, Waiting, batch>> /\ batch = <<>> /\ nexts > 0 /\ nexts' = nexts - 1
  BY DEF HandleNextNothing, serverQueues, requestQueues, Idle, Waiting
<1>2. Cardinality(Idle) = 0 \/ Cardinality(Waiting) = 0
  BY FS_EmptySet DEF HandleNextNothing
<1> QED
  BY <1>1, <1>2, IdleAndWaitingFinite DEF EnoughNextsLeft

(* A dispatch takes one server and one request for the call it uses up. *)
LEMMA HandleNextDispatchNexts ==
  ASSUME TypeInv, ServersInv, EnoughNextsLeft, NEW s \in Servers, NEW q \in Requests,
         HandleNextDispatch(s, q)
  PROVE  EnoughNextsLeft'
<1> TypeOK
  BY DEF TypeInv
<1>1. q \in Waiting /\ Waiting' = Waiting \ {q}
  BY DispatchedWaited
<1>2. s \in Idle /\ Idle' = Idle \ {s}
  <2>1. /\ approximated_servers \in [Servers -> Nat] /\ calibrated_servers \in [Servers -> Nat]
        /\ approximated_servers[s] + calibrated_servers[s] > 0
        /\ approximated_servers'[s] + calibrated_servers'[s]
             = approximated_servers[s] + calibrated_servers[s] - 1
        /\ \A t \in Servers \ {s} : /\ approximated_servers'[t] = approximated_servers[t]
                                    /\ calibrated_servers'[t] = calibrated_servers[t]
    BY DispatchPops, PopType DEF TypeOK
  <2>2. approximated_servers[s] + calibrated_servers[s] = 1
    BY <2>1 DEF ServersInv, QueuedExactlyWhenIdle
  <2>3. s \in Idle
    BY <2>1 DEF Idle
  <2>4. s \notin Idle'
    <3>1. approximated_servers'[s] + calibrated_servers'[s] = 0
      BY <2>1, <2>2
    <3> QED
      BY <3>1 DEF Idle
  <2>5. \A t \in Servers \ {s} : t \in Idle' <=> t \in Idle
    BY <2>1 DEF Idle
  <2>6. Idle \subseteq Servers /\ Idle' \subseteq Servers
    BY DEF Idle
  <2> QED
    BY <2>3, <2>4, <2>5, <2>6
<1>3. /\ Cardinality(Waiting') = Cardinality(Waiting) - 1
      /\ Cardinality(Idle') = Cardinality(Idle) - 1
  BY <1>1, <1>2, IdleAndWaitingFinite, FS_RemoveElement
<1>4. batch' = batch /\ batch = <<>> /\ nexts > 0 /\ nexts' = nexts - 1
  BY DEF HandleNextDispatch
<1> QED
  BY <1>3, <1>4, IdleAndWaitingFinite DEF EnoughNextsLeft

(* handle_timeout takes a waiting request and makes no server idle. *)
LEMMA TimeoutNexts ==
  ASSUME TypeOK, EnoughNextsLeft, NEW s \in Servers, NEW q \in Requests, HandleTimeout(s, q)
  PROVE  EnoughNextsLeft'
<1>1. Idle = {} /\ Idle' = Idle
  BY NothingLeftToMatch DEF HandleTimeout, Quiescent, WorkConserving, serverQueues, Idle
<1>2. UNCHANGED <<batch, nexts>>
  BY DEF HandleTimeout, loop
<1> QED
  BY <1>1, <1>2, IdleAndWaitingFinite, FS_EmptySet DEF EnoughNextsLeft

(* Every step keeps EnoughNextsLeft. *)
LEMMA NextNexts ==
  TypeInv /\ FilesInv /\ ServersInv /\ EnoughNextsLeft /\ [Next]_vars => EnoughNextsLeft'
<1> SUFFICES ASSUME TypeInv, FilesInv, ServersInv, EnoughNextsLeft, [Next]_vars
             PROVE  EnoughNextsLeft'
  OBVIOUS
<1> TypeOK
  BY DEF TypeInv
<1>1. CASE UNCHANGED vars
  BY <1>1, NextsFrame DEF vars, loop
<1>2. CASE Environment
  BY <1>2, NextsFrame DEF Environment, Tick, ClientSubmit, ServerFinish, loop
<1>3. CASE SendScheduled
  BY <1>3, NextsFrame DEF SendScheduled
<1>4. CASE HandleLine
  <2>1. Head(batch).type \in {"request", "finished"}
    BY <1>4 DEF HandleLine
  <2> QED
    BY <1>4, <2>1, RequestNexts, CompletionNexts
<1> QED
  BY <1>1, <1>2, <1>3, <1>4, ReadBatchNexts, HandleNextNothingNexts,
     HandleNextDispatchNexts, TimeoutNexts
  DEF Next, Scheduler, HandleNext, Timeout

-----------------------------------------------------------------------------
(***************************************************************************)
(* The counters of forced requests.                                        *)
(***************************************************************************)
ForcedOutstanding == {r \in Requests : forced[r] /\ r \notin completed}

(* A step that touches no forced request keeps their counts exact. *)
LEMMA ForcedFrame ==
  ForcedCountsAreExact /\ UNCHANGED <<forced, completed, forcedCounts>>
    => ForcedCountsAreExact'
BY DEF ForcedCountsAreExact, forcedCounts

(* handle_timeout counts the request it forces. *)
LEMMA TimeoutForced ==
  ASSUME TypeOK, FilesInv, ForcedCountsAreExact,
         NEW s \in Servers, NEW q \in Requests, HandleTimeout(s, q)
  PROVE  ForcedCountsAreExact'
<1>1. /\ forced' = [forced EXCEPT ![q] = TRUE]
      /\ completed' = completed
      /\ active_forced_requests' = active_forced_requests + 1
      /\ active_forced_requests_completed' = active_forced_requests_completed
  BY DEF HandleTimeout
<1>2. ~forced[q] /\ q \notin completed
  <2>1. q \in Waiting
    BY DispatchedWaited
  <2> QED
    BY <2>1 DEF FilesInv, FileInv
<1>3. q \notin ForcedOutstanding /\ ForcedOutstanding' = ForcedOutstanding \cup {q}
  BY <1>1, <1>2 DEF ForcedOutstanding, TypeOK
<1>4. IsFiniteSet(ForcedOutstanding) /\ Cardinality(ForcedOutstanding) \in Nat
  BY RequestsFinite DEF ForcedOutstanding
<1>5. Cardinality(ForcedOutstanding') = Cardinality(ForcedOutstanding) + 1
  BY <1>3, <1>4, FS_AddElement
<1>6. /\ active_forced_requests \in Nat /\ active_forced_requests_completed \in Nat
      /\ active_forced_requests - active_forced_requests_completed
           = Cardinality(ForcedOutstanding)
      /\ active_forced_requests = 0
           \/ active_forced_requests_completed < active_forced_requests
  BY DEF TypeOK, ForcedCountsAreExact, ForcedOutstanding
<1> QED
  BY <1>1, <1>4, <1>5, <1>6 DEF ForcedCountsAreExact, ForcedOutstanding

(* handle_completion counts forced requests and resets after the last. *)
LEMMA CompletionForced ==
  ASSUME TypeOK, ForcedCountsAreExact, NEW q \in Requests, handle_completion(q),
         q \notin completed
  PROVE  ForcedCountsAreExact'
<1>1. /\ forced' = forced
      /\ completed' = completed \cup {q}
      /\ CountForcedCompletion(q)
  BY DEF handle_completion
<1>2. IsFiniteSet(ForcedOutstanding) /\ Cardinality(ForcedOutstanding) \in Nat
  BY RequestsFinite DEF ForcedOutstanding
<1>3. /\ active_forced_requests \in Nat /\ active_forced_requests_completed \in Nat
      /\ active_forced_requests - active_forced_requests_completed
           = Cardinality(ForcedOutstanding)
      /\ active_forced_requests = 0
           \/ active_forced_requests_completed < active_forced_requests
  BY DEF TypeOK, ForcedCountsAreExact, ForcedOutstanding
<1>4. CASE ~forced[q]
  <2>1. ForcedOutstanding' = ForcedOutstanding
    BY <1>1, <1>4 DEF ForcedOutstanding
  <2>2. UNCHANGED forcedCounts
    BY <1>1, <1>4 DEF CountForcedCompletion
  <2> QED
    BY <1>3, <2>1, <2>2 DEF ForcedCountsAreExact, ForcedOutstanding, forcedCounts
<1>5. CASE forced[q]
  <2>1. q \in ForcedOutstanding /\ ForcedOutstanding' = ForcedOutstanding \ {q}
    BY <1>1, <1>5 DEF ForcedOutstanding
  <2>2. Cardinality(ForcedOutstanding') = Cardinality(ForcedOutstanding) - 1
    BY <1>2, <2>1, FS_RemoveElement
  <2>3. Cardinality(ForcedOutstanding) # 0
    BY <1>2, <2>1, FS_EmptySet
  <2>4. CASE active_forced_requests_completed + 1 = active_forced_requests
    <3>1. active_forced_requests' = 0 /\ active_forced_requests_completed' = 0
      BY <1>1, <1>5, <2>4 DEF CountForcedCompletion
    <3>2. Cardinality(ForcedOutstanding') = 0
      BY <1>2, <1>3, <2>2, <2>4
    <3> QED
      BY <3>1, <3>2 DEF ForcedCountsAreExact, ForcedOutstanding
  <2>5. CASE active_forced_requests_completed + 1 # active_forced_requests
    <3>1. /\ active_forced_requests' = active_forced_requests
          /\ active_forced_requests_completed' = active_forced_requests_completed + 1
      BY <1>1, <1>5, <2>5 DEF CountForcedCompletion
    <3> QED
      BY <1>2, <1>3, <2>2, <2>3, <2>5, <3>1 DEF ForcedCountsAreExact, ForcedOutstanding
  <2> QED
    BY <2>4, <2>5
<1> QED
  BY <1>4, <1>5

(* Every step keeps the counts of forced requests exact. *)
LEMMA NextForced ==
  TypeOK /\ FilesInv /\ ForcedCountsAreExact /\ [Next]_vars => ForcedCountsAreExact'
<1> SUFFICES ASSUME TypeOK, FilesInv, ForcedCountsAreExact, [Next]_vars
             PROVE  ForcedCountsAreExact'
  OBVIOUS
<1>1. CASE UNCHANGED vars
  BY <1>1, ForcedFrame DEF vars, requestFields
<1>2. CASE Environment
  BY <1>2, ForcedFrame DEF Environment, Tick, ClientSubmit, ServerFinish, requestFields
<1>3. CASE ReadBatch \/ SendScheduled \/ HandleNext
  BY <1>3, ForcedFrame
  DEF ReadBatch, SendScheduled, HandleNext, HandleNextNothing, HandleNextDispatch,
      requestFields
<1>4. CASE HandleLine
  <2>1. CASE Head(batch).type = "request"
    <3>1. handle_request(Head(batch).file, Head(batch).size)
      BY <1>4, <2>1 DEF HandleLine
    <3> QED
      BY <3>1, ForcedFrame DEF handle_request
  <2>2. CASE Head(batch).type = "finished"
    BY <1>4, <2>2, CompletionFile, CompletionForced
  <2> QED
    BY <1>4, <2>1, <2>2 DEF HandleLine
<1> QED
  BY <1>1, <1>2, <1>3, <1>4, TimeoutForced DEF Next, Scheduler, Timeout

-----------------------------------------------------------------------------
(***************************************************************************)
(* The clock.                                                              *)
(***************************************************************************)
(* A step that touches none of what ClockInv speaks of. *)
LEMMA ClockFrame ==
  ClockInv /\ UNCHANGED <<now, processing, start_time, stat>> => ClockInv'
BY DEF ClockInv

(* A dispatched request starts now; no service time is recorded. *)
LEMMA DispatchClock ==
  ASSUME TypeOK, ClockInv, NEW s \in Servers, NEW q \in Requests,
         HandleNextDispatch(s, q) \/ HandleTimeout(s, q)
  PROVE  ClockInv'
<1>1. /\ processing' = [processing EXCEPT ![q] = s]
      /\ start_time' = [start_time EXCEPT ![q] = now]
      /\ stat' = [stat EXCEPT ![s] = ProcessRequest(@)]
      /\ now' = now
  BY DEF HandleNextDispatch, HandleTimeout, schedule_request_to_server, environment
<1>2. now >= Epoch
  BY ConstantTypes DEF ClockInv
<1>3. ASSUME NEW r \in Requests, processing'[r] # NoServer PROVE start_time'[r] >= Epoch
  BY <1>1, <1>2, <1>3 DEF ClockInv, TypeOK
<1>4. ASSUME NEW t \in Servers PROVE stat'[t].response_time = stat[t].response_time
  BY <1>1 DEF TypeOK, Statistic, ProcessRequest
<1> QED
  BY <1>1, <1>3, <1>4 DEF ClockInv

(* A recorded service time is at most MaxTime. *)
LEMMA CompletionClock ==
  ASSUME TypeInv, ClockInv, NEW q \in Requests, handle_completion(q),
         processing[q] \in Servers, now' = now
  PROVE  ClockInv'
<1> PICK s \in Servers : s = processing[q]
  OBVIOUS
<1> DEFINE served == now - start_time[q]
           before == stat[s].response_time
<1>1. /\ stat' = [stat EXCEPT ![s] = RecordRequest(stat[s], size[q], served)]
      /\ UNCHANGED <<processing, start_time>>
  BY DEF handle_completion
<1>2. served \in Nat /\ served <= MaxTime
  <2>1. start_time[q] >= Epoch
    BY ConstantTypes DEF ClockInv
  <2>2. /\ start_time[q] \in Nat /\ start_time[q] <= now
        /\ now \in Nat /\ now <= Epoch + MaxTime
    BY ConstantTypes DEF TypeInv, TypeOK, DispatchedByNow, ClockInv
  <2> QED
    BY <2>1, <2>2, ConstantTypes
<1>3. before.count \in Nat /\ before.total \in Nat /\ before.total <= MaxTime * before.count
  BY DEF TypeInv, TypeOK, Statistic, Average, ClockInv
<1>4. /\ stat'[s].response_time.count = before.count + 1
      /\ stat'[s].response_time.total = before.total + served
      /\ \A t \in Servers \ {s} : stat'[t] = stat[t]
  BY <1>1 DEF TypeInv, TypeOK, RecordRequest, Record
<1> HIDE DEF served, before
<1>5. before.total + served <= MaxTime * (before.count + 1)
  BY <1>2, <1>3, ConstantTypes
<1>6. ASSUME NEW t \in Servers
      PROVE  stat'[t].response_time.total <= MaxTime * stat'[t].response_time.count
  <2>1. CASE t = s
    BY <2>1, <1>4, <1>5
  <2>2. CASE t # s
    BY <2>2, <1>4 DEF ClockInv
  <2> QED
    BY <2>1, <2>2
<1> QED
  BY <1>1, <1>6 DEF ClockInv

(* Every step of the system keeps ClockInv. *)
LEMMA NextClock == TypeInv /\ FilesInv /\ ClockInv /\ [Next]_vars => ClockInv'
<1> SUFFICES ASSUME TypeInv, FilesInv, ClockInv, [Next]_vars PROVE ClockInv'
  OBVIOUS
<1> TypeOK
  BY DEF TypeInv
<1>1. CASE UNCHANGED vars
  BY <1>1, ClockFrame DEF vars, environment, requestFields
<1>2. CASE Tick
  BY <1>2, ConstantTypes DEF Tick, ClockInv, requestFields
<1>3. CASE ClientSubmit \/ \E r \in Requests : ServerFinish(r)
  BY <1>3, ClockFrame DEF ClientSubmit, ServerFinish, requestFields
<1>4. CASE ReadBatch \/ SendScheduled \/ HandleNextNothing
  BY <1>4, ClockFrame DEF ReadBatch, SendScheduled, HandleNextNothing, requestFields, environment
<1>5. CASE HandleLine /\ Head(batch).type = "request"
  BY <1>5, ClockFrame DEF HandleLine, handle_request, environment
<1>6. CASE HandleLine /\ Head(batch).type = "finished"
  BY <1>6, CompletionFile, CompletionClock DEF HandleLine, environment
<1>7. CASE HandleLine
  BY <1>5, <1>6, <1>7 DEF HandleLine
<1> QED
  BY <1>1, <1>2, <1>3, <1>4, <1>7, DispatchClock
  DEF Next, Environment, Scheduler, HandleNext, Timeout

-----------------------------------------------------------------------------
(***************************************************************************)
(* The invariant.                                                          *)
(***************************************************************************)
LEMMA InitIInv == Init => IInv
<1> SUFFICES ASSUME Init PROVE IInv
  OBVIOUS
<1>0. TypeInv
  BY InitTypeInv
<1> USE DEF Init
<1>1. Lines = <<>> /\ Waiting = {}
  BY DEF Lines, Waiting
<1>2. \A type, r : ~HasLine(Lines, type, r)
  BY <1>1 DEF HasLine
<1>3. FilesInv
  BY <1>1, <1>2, ConstantTypes DEF FilesInv, FileInv, UniqueLines, Requests
<1>4. \A s \in Servers : Outstanding(s) = {}
  BY ConstantTypes DEF Outstanding
<1>5. ActiveCountIsExact
  <2>1. Cardinality({}) = 0
    BY FS_EmptySet
  <2>2. \A s \in Servers : ActiveRequestCount(stat[s]) = 0
    BY DEF ActiveRequestCount, NewStatistic
  <2> QED
    BY <1>4, <2>1, <2>2 DEF ActiveCountIsExact
<1>6. QueuedExactlyWhenIdle /\ QueuesAreHomogeneous
  BY <1>4
  DEF QueuedExactlyWhenIdle, QueuesAreHomogeneous, IsCalibrated, IsValid, NewStatistic,
      NewAverage
<1>7. EnoughNextsLeft
  BY <1>1, FS_EmptySet DEF EnoughNextsLeft
<1>8. {r \in Requests : forced[r] /\ r \notin completed} = {}
  OBVIOUS
<1>9. ForcedCountsAreExact
  <2>1. Cardinality({}) = 0
    BY FS_EmptySet
  <2>2. active_forced_requests = 0 /\ active_forced_requests_completed = 0
    OBVIOUS
  <2> HIDE DEF Init
  <2>3. Cardinality({r \in Requests : forced[r] /\ r \notin completed}) = 0
    BY <1>8, <2>1, Zenon
  <2> QED
    BY <2>2, <2>3 DEF ForcedCountsAreExact
<1>10. DequesDisjoint
  BY DEF DequesDisjoint
<1>11. ClockInv
  <2>1. \A s \in Servers : stat[s].response_time = [count |-> 0, total |-> 0]
    BY DEF NewStatistic, NewAverage
  <2>2. 0 <= MaxTime * 0 /\ Epoch \in Epoch .. Epoch + MaxTime
    BY ConstantTypes
  <2>3. now = Epoch /\ \A r \in Requests : processing[r] = NoServer
    OBVIOUS
  <2> HIDE DEF Init
  <2> QED
    BY <2>1, <2>2, <2>3 DEF ClockInv
<1> QED
  BY <1>0, <1>3, <1>5, <1>6, <1>7, <1>9, <1>10, <1>11 DEF IInv

(***************************************************************************)
(* The inductive invariant holds always: the files, the priority queues,   *)
(* the counters and the pending handle_next calls of the scheduler fit     *)
(* together whatever the client and the file servers do.                   *)
(***************************************************************************)
THEOREM Invariance == Spec => [](TypeInv /\ IInv)
<1>1. Init => TypeInv /\ IInv
  BY InitTypeInv, InitIInv
<1>2. TypeInv /\ IInv /\ [Next]_vars => (TypeInv /\ IInv)'
  <2> SUFFICES ASSUME TypeInv, IInv, [Next]_vars PROVE TypeInv' /\ IInv'
    OBVIOUS
  <2>1. TypeInv'
    BY NextTypeInv
  <2>2. FilesInv' /\ DequesDisjoint' /\ ForcedCountsAreExact' /\ ClockInv'
    BY NextFiles, NextDeques, NextForced, NextClock DEF IInv, TypeInv
  <2>3. ServersInv' /\ EnoughNextsLeft'
    BY NextServers, NextNexts DEF IInv, ServersInv
  <2> QED
    BY <2>1, <2>2, <2>3 DEF IInv, ServersInv
<1> QED
  BY <1>1, <1>2, PTL DEF Spec

(***************************************************************************)
(* No line, dispatch or completion of a file is lost or doubled between    *)
(* the client, the scheduler and the servers.                              *)
(***************************************************************************)
THEOREM FilesCorrect == Spec => []EachFileInOnePlace
<1>1. TypeInv /\ IInv => EachFileInOnePlace
  BY OnePlace DEF IInv, TypeInv
<1> QED
  BY <1>1, Invariance, PTL

(***************************************************************************)
(* The priority queues hold each server exactly while it has nothing to do.*)
(***************************************************************************)
THEOREM QueuesCorrect == Spec => []QueuedExactlyWhenIdle
<1>1. IInv => QueuedExactlyWhenIdle
  BY DEF IInv
<1> QED
  BY <1>1, Invariance, PTL

(***************************************************************************)
(* The two counters of a ServerStatistic tell how many requests the server *)
(* still has.                                                              *)
(***************************************************************************)
THEOREM ActiveCountCorrect == Spec => []ActiveCountIsExact
<1>1. IInv => ActiveCountIsExact
  BY DEF IInv
<1> QED
  BY <1>1, Invariance, PTL

(***************************************************************************)
(* A priority queue never has to compare a calibrated server with one that *)
(* is not.                                                                 *)
(***************************************************************************)
THEOREM HomogeneityCorrect == Spec => []QueuesAreHomogeneous
<1>1. IInv => QueuesAreHomogeneous
  BY DEF IInv
<1> QED
  BY <1>1, Invariance, PTL

(***************************************************************************)
(* One handle_next per line of a batch leaves no idle server beside a      *)
(* waiting request.                                                        *)
(***************************************************************************)
THEOREM WorkConservation == Spec => []WorkConserving
<1>1. TypeInv /\ IInv => WorkConserving
  BY NothingLeftToMatch DEF IInv, TypeInv
<1> QED
  BY <1>1, Invariance, PTL

(***************************************************************************)
(* The counters of forced requests account for those still outstanding.    *)
(***************************************************************************)
THEOREM ForcedCountsCorrect == Spec => []ForcedCountsAreExact
<1>1. IInv => ForcedCountsAreExact
  BY DEF IInv
<1> QED
  BY <1>1, Invariance, PTL

-----------------------------------------------------------------------------
(***************************************************************************)
(* The keys of the queued servers.                                         *)
(***************************************************************************)
KeyKept(s) ==
  /\ stat'[s].performance_metric = stat[s].performance_metric
  /\ stat'[s].response_time = stat[s].response_time

QueuedKeysKept == \A s \in Idle \cap Idle' : KeyKept(s)

(* A dispatch changes no average of any server. *)
LEMMA DispatchKeys ==
  ASSUME TypeOK, FilesInv, NEW s \in Servers, NEW q \in Requests,
         HandleNextDispatch(s, q) \/ HandleTimeout(s, q)
  PROVE  QueuedKeysKept
<1>1. stat' = [stat EXCEPT ![s] = ProcessRequest(@)]
  BY DispatchOutstanding
<1>2. /\ stat[s] \in Statistic
      /\ stat'[s] = [stat[s] EXCEPT !.requests = @ + 1]
      /\ \A t \in Servers \ {s} : stat'[t] = stat[t]
  BY <1>1 DEF TypeOK, ProcessRequest
<1>3. KeyKept(s)
  BY <1>2 DEF Statistic, KeyKept
<1>4. \A t \in Servers : KeyKept(t)
  BY <1>2, <1>3 DEF KeyKept
<1> QED
  BY <1>4 DEF QueuedKeysKept, Idle

(* No step changes an average of a server that stays queued. *)
LEMMA NextKeys == TypeInv /\ IInv /\ [Next]_vars => QueuedKeysKept
<1> SUFFICES ASSUME TypeInv, IInv, [Next]_vars PROVE QueuedKeysKept
  OBVIOUS
<1> TypeOK /\ FilesInv /\ ServersInv
  BY DEF TypeInv, IInv, ServersInv
<1>1. CASE UNCHANGED stat
  BY <1>1 DEF QueuedKeysKept, KeyKept
<1>2. CASE HandleLine /\ Head(batch).type = "finished"
  <2> DEFINE q == Head(batch).file
  <2>1. /\ handle_completion(q) /\ q \in Requests
        /\ processing[q] \in Servers /\ q \notin completed
    BY <1>2, CompletionFile
  <2>2. /\ approximated_servers[processing[q]] + calibrated_servers[processing[q]] = 0
        /\ \A t \in Servers \ {processing[q]} : stat'[t] = stat[t]
    BY <2>1, CompletionServers
  <2>3. processing[q] \notin Idle /\ Idle \subseteq Servers
    BY <2>2 DEF Idle
  <2> QED
    BY <2>2, <2>3 DEF QueuedKeysKept, KeyKept
<1>3. CASE HandleLine /\ Head(batch).type = "request"
  BY <1>1, <1>3 DEF HandleLine, handle_request
<1>4. CASE UNCHANGED vars
  BY <1>1, <1>4 DEF vars
<1>5. CASE Environment
  BY <1>1, <1>5 DEF Environment, Tick, ClientSubmit, ServerFinish
<1>6. CASE ReadBatch \/ SendScheduled \/ HandleNextNothing
  BY <1>1, <1>6 DEF ReadBatch, SendScheduled, HandleNextNothing
<1>7. CASE HandleLine
  BY <1>2, <1>3, <1>7 DEF HandleLine
<1> QED
  BY <1>4, <1>5, <1>6, <1>7, DispatchKeys DEF Next, Scheduler, HandleNext, Timeout

(***************************************************************************)
(* The keys by which operator< orders two servers do not change while they *)
(* are in a std::priority_queue.                                           *)
(***************************************************************************)
THEOREM KeysCorrect == Spec => QueuedKeysAreStable
<1>1. TypeInv /\ IInv /\ [Next]_vars
        => [\A s \in Idle \cap Idle' :
              /\ stat'[s].performance_metric = stat[s].performance_metric
              /\ stat'[s].response_time = stat[s].response_time]_vars
  BY NextKeys DEF QueuedKeysKept, KeyKept
<1> QED
  BY <1>1, Invariance, PTL DEF Spec, QueuedKeysAreStable

-----------------------------------------------------------------------------
(***************************************************************************)
(* The refinement of JobDispatch.                                          *)
(***************************************************************************)
RunningOn == [r \in Requests |-> IF r \in completed THEN NoServer ELSE processing[r]]

(* A server is free for JobDispatch exactly when nothing is outstanding on it. *)
LEMMA FreeWhenNothingOutstanding ==
  ASSUME NEW s \in Servers
  PROVE  Promise!Free(s) <=> Outstanding(s) = {}
BY ConstantTypes DEF Promise!Free, Outstanding

(* A step that touches no queue of requests, no dispatch and no completion
   stutters for JobDispatch. *)
LEMMA UnchangedPromise ==
  UNCHANGED <<requestQueues, processing, completed>> => UNCHANGED Promise!vars
BY DEF Promise!vars, requestQueues, Waiting

(* Initial states are initial for JobDispatch. *)
LEMMA InitPromise == Init => Promise!Init
BY DEF Init, Promise!Init, Waiting

(* handle_request is a Submit. *)
LEMMA RequestSubmits ==
  ASSUME TypeOK, FilesInv, HandleLine, Head(batch).type = "request"
  PROVE  \E r \in Requests : Promise!Submit(r)
<1> DEFINE q == Head(batch).file
<1>1. handle_request(q, Head(batch).size)
  BY DEF HandleLine
<1>2. q \in Requests
  <2>1. Head(batch) \in Line
    BY DEF HandleLine, TypeOK
  <2> QED
    BY <2>1, LineTypes
<1>3. HasLine(Lines, "request", q)
  <2>1. Lines \in Seq(Line) /\ Lines # <<>> /\ Head(Lines) = Head(batch)
    BY LinesType, LinesHandled DEF HandleLine, environment
  <2> QED
    BY <2>1, TailLine DEF FilesInv
<1>4. q \notin Waiting /\ q \notin completed /\ processing[q] = NoServer
  BY <1>2, <1>3 DEF FilesInv, FileInv
<1>5. Waiting' = Waiting \cup {q} /\ UNCHANGED <<processing, completed>>
  BY <1>1 DEF handle_request, Waiting
<1>6. Promise!Submit(q)
  BY <1>2, <1>4, <1>5 DEF Promise!Submit
<1> QED
  BY <1>2, <1>6

(* handle_completion is a Finish. *)
LEMMA CompletionFinishes ==
  ASSUME TypeOK, FilesInv, HandleLine, Head(batch).type = "finished"
  PROVE  \E r \in Requests : Promise!Finish(r)
<1>1. PICK q \in Requests :
        /\ handle_completion(q) /\ processing[q] \in Servers
        /\ q \notin completed
  BY CompletionFile
<1>2. /\ completed' = completed \cup {q}
      /\ UNCHANGED <<Waiting, processing>>
  BY <1>1 DEF handle_completion, requestQueues, Waiting
<1>3. Promise!Finish(q)
  BY <1>1, <1>2, ConstantTypes DEF Promise!Finish
<1> QED
  BY <1>3

(* Every dispatch is a Give. *)
LEMMA DispatchGives ==
  ASSUME TypeOK, FilesInv, NEW s \in Servers, NEW q \in Requests,
         HandleNextDispatch(s, q) \/ HandleTimeout(s, q)
  PROVE  Promise!Give(s, q)
<1>1. q \in Waiting /\ Waiting' = Waiting \ {q}
  BY DispatchedWaited
<1>2. q \notin completed
  BY <1>1 DEF FilesInv, FileInv
<1>3. processing' = [processing EXCEPT ![q] = s] /\ completed' = completed
  BY DEF HandleNextDispatch, HandleTimeout, schedule_request_to_server
<1> QED
  BY <1>1, <1>2, <1>3 DEF Promise!Give, TypeOK

(* A dispatch of handle_next is an Assign: its server is free. *)
LEMMA HandleNextAssigns ==
  ASSUME TypeInv, IInv, NEW s \in Servers, NEW q \in Requests, HandleNextDispatch(s, q)
  PROVE  Promise!Assign(s, q)
<1>1. approximated_servers[s] + calibrated_servers[s] > 0
  BY DispatchPops, PopType
<1>2. Outstanding(s) = {}
  BY <1>1 DEF IInv, QueuedExactlyWhenIdle
<1> QED
  BY <1>2, FreeWhenNothingOutstanding, DispatchGives DEF Promise!Assign, IInv, TypeInv

(* A dispatch of handle_timeout is a Force: no server is free. *)
LEMMA TimeoutForces ==
  ASSUME TypeInv, IInv, NEW s \in Servers, NEW q \in Requests, HandleTimeout(s, q)
  PROVE  Promise!Force(s, q)
<1>1. Idle = {}
  BY NothingLeftToMatch DEF HandleTimeout, Quiescent, WorkConserving, IInv, TypeInv
<1>2. \A t \in Servers : Outstanding(t) # {}
  BY <1>1 DEF Idle, IInv, QueuedExactlyWhenIdle
<1> QED
  BY <1>2, FreeWhenNothingOutstanding, DispatchGives DEF Promise!Force, IInv, TypeInv

(* Every step is one of JobDispatch, or leaves its state alone. *)
LEMMA NextPromise == TypeInv /\ IInv /\ [Next]_vars => [Promise!Next]_(Promise!vars)
<1> SUFFICES ASSUME TypeInv, IInv, [Next]_vars
             PROVE  Promise!Next \/ UNCHANGED Promise!vars
  OBVIOUS
<1> TypeOK /\ FilesInv
  BY DEF TypeInv, IInv
<1>1. CASE UNCHANGED vars
  BY <1>1, UnchangedPromise DEF vars, requestFields
<1>2. CASE Environment
  BY <1>2, UnchangedPromise DEF Environment, Tick, ClientSubmit, ServerFinish, requestFields
<1>3. CASE ReadBatch \/ SendScheduled \/ HandleNextNothing
  BY <1>3, UnchangedPromise DEF ReadBatch, SendScheduled, HandleNextNothing, requestFields
<1>4. CASE HandleLine
  <2>1. Head(batch).type \in {"request", "finished"}
    BY <1>4 DEF HandleLine
  <2> QED
    BY <1>4, <2>1, RequestSubmits, CompletionFinishes DEF Promise!Next
<1>5. ASSUME NEW s \in Servers, NEW q \in Requests, HandleNextDispatch(s, q)
      PROVE  Promise!Next
  BY <1>5, HandleNextAssigns DEF Promise!Next, Promise!AssignSome
<1>6. ASSUME NEW s \in Servers, NEW q \in Requests, HandleTimeout(s, q)
      PROVE  Promise!Next
  BY <1>6, TimeoutForces DEF Promise!Next
<1> QED
  BY <1>1, <1>2, <1>3, <1>4, <1>5, <1>6 DEF Next, Scheduler, HandleNext, Timeout

(***************************************************************************)
(* The scheduler implements JobDispatch: a request is dispatched once, to  *)
(* a server that is free, or to a busy one only while none is free.        *)
(***************************************************************************)
THEOREM Refinement == Spec => ImplementsJobDispatch
<1> QED
  BY InitPromise, NextPromise, Invariance, PTL DEF Spec, ImplementsJobDispatch, Promise!SafeSpec
=============================================================================
