---------------------- MODULE LoadBalancerTimeoutProofs ----------------------
(***************************************************************************)
(* What handle_timeout does to a server, to the backoff and to the age of  *)
(* a request: forced requests calibrate no server, the multiplier is       *)
(* bounded, and the check of the age never holds.                          *)
(***************************************************************************)
EXTENDS LoadBalancerHistory, LoadBalancerProofs, RecursionProofs

-----------------------------------------------------------------------------
(***************************************************************************)
(* Requests that shared a server.                                          *)
(***************************************************************************)
allVars == <<vars, shared>>

(* No request of old is outstanding where the counter is at most one. *)
Remembered(old) ==
  \A s \in Servers : stat[s].requests <= 1 => Outstanding(s) \cap old = {}

(* Two requests on a server count as at least two. *)
LEMMA AloneNow == TypeOK /\ ActiveCountIsExact => Remembered(Sharing)
<1> SUFFICES ASSUME TypeOK, ActiveCountIsExact, NEW s \in Servers, stat[s].requests <= 1,
                    NEW r \in Outstanding(s), r \in Sharing
             PROVE  FALSE
  BY DEF Remembered
<1>1. /\ stat[s].requests \in Nat /\ stat[s].requests_completed \in Nat
      /\ stat[s].requests - stat[s].requests_completed = Cardinality(Outstanding(s))
  BY DEF TypeOK, Statistic, ActiveCountIsExact, ActiveRequestCount
<1>2. Outstanding(s) # {r}
  BY DEF Sharing, Outstanding
<1>3. PICK q \in Outstanding(s) : q # r
  BY <1>2
<1>4. Outstanding(s) \in SUBSET Requests /\ {r} \in SUBSET Requests
  BY DEF Outstanding
<1>5. Cardinality({r} \cup {q}) = 2
  <2>1. IsFiniteSet({r}) /\ Cardinality({r}) = 1
    BY FS_Singleton
  <2> QED
    BY <1>3, <2>1, FS_AddElement
<1>6. Cardinality({r} \cup {q}) <= Cardinality(Outstanding(s))
  BY <1>3, <1>4, RequestsFinite, FS_Subset
<1>7. Cardinality(Outstanding(s)) \in Nat
  BY <1>4, RequestsFinite
<1> QED
  BY <1>1, <1>5, <1>6, <1>7

(* Nothing changes on the servers. *)
LEMMA RememberedFrame ==
  ASSUME NEW old, Remembered(old), UNCHANGED <<stat, processing, completed>>
  PROVE  \A s \in Servers : stat'[s].requests <= 1 => Outstanding(s)' \cap old = {}
BY DEF Remembered, Outstanding

(* A dispatched request is new to its server, and the only one it has if the
   server was drained. *)
LEMMA RememberedDispatch ==
  ASSUME TypeOK, FilesInv, ActiveCountIsExact, NEW old, Remembered(old),
         \A r \in old : r \in Requests /\ processing[r] # NoServer,
         NEW s \in Servers, NEW q \in Requests,
         HandleNextDispatch(s, q) \/ HandleTimeout(s, q)
  PROVE  \A t \in Servers : stat'[t].requests <= 1 => Outstanding(t)' \cap old = {}
<1>1. /\ Outstanding(s)' = Outstanding(s) \cup {q}
      /\ \A t \in Servers \ {s} : Outstanding(t)' = Outstanding(t)
      /\ stat' = [stat EXCEPT ![s] = ProcessRequest(@)]
  BY DispatchOutstanding
<1>2. q \notin old
  BY DispatchedWaited DEF FilesInv, FileInv
<1>3. /\ \A t \in Servers \ {s} : stat'[t] = stat[t]
      /\ stat'[s].requests = stat[s].requests + 1
      /\ stat[s].requests \in Nat
  BY <1>1 DEF TypeOK, Statistic, ProcessRequest
<1>4. ASSUME NEW t \in Servers, stat'[t].requests <= 1
      PROVE  Outstanding(t)' \cap old = {}
  <2>1. stat[t].requests <= 1
    BY <1>3, <1>4
  <2>2. Outstanding(t) \cap old = {}
    BY <2>1 DEF Remembered
  <2> QED
    BY <1>1, <1>2, <2>2
<1> QED
  BY <1>4

(* record_request resets the counter of requests only when nothing is left. *)
LEMMA RememberedCompletion ==
  ASSUME TypeOK, ServersInv, NEW old, Remembered(old),
         NEW q \in Requests, handle_completion(q), processing[q] \in Servers,
         q \notin completed
  PROVE  \A t \in Servers : stat'[t].requests <= 1 => Outstanding(t)' \cap old = {}
<1> PICK s \in Servers : s = processing[q]
  OBVIOUS
<1>1. ServersInv' /\ \A t \in Servers \ {s} : stat'[t] = stat[t]
  BY CompletionServers
<1>2. \A t \in Servers : Outstanding(t)' \subseteq Outstanding(t)
  BY DEF handle_completion, Outstanding
<1>3. /\ stat'[s] = RecordRequest(stat[s], size[q], now - start_time[q])
      /\ stat[s].requests \in Nat
  BY DEF handle_completion, TypeOK, Statistic
<1>4. CASE Drained(stat[s])
  <2>1. stat'[s].requests = 0 /\ stat'[s].requests_completed = 0
    BY <1>3, <1>4 DEF RecordRequest
  <2>2. Cardinality(Outstanding(s)') = ActiveRequestCount(stat'[s])
    BY <1>1 DEF ServersInv, ActiveCountIsExact
  <2>3. Outstanding(s)' \in SUBSET Requests
    BY DEF Outstanding
  <2>4. Outstanding(s)' = {}
    BY <2>1, <2>2, <2>3, RequestsFinite DEF ActiveRequestCount
  <2> QED
    BY <1>1, <1>2, <2>4 DEF Remembered
<1>5. CASE ~Drained(stat[s])
  <2>1. stat'[s].requests = stat[s].requests
    BY <1>3, <1>5 DEF RecordRequest
  <2> QED
    BY <1>1, <1>2, <2>1 DEF Remembered
<1> QED
  BY <1>4, <1>5

(* No step makes a server forget. *)
LEMMA NextRemembered ==
  ASSUME TypeInv, IInv, NEW old, Remembered(old),
         \A r \in old : r \in Requests /\ processing[r] # NoServer,
         [Next]_vars
  PROVE  \A s \in Servers : stat'[s].requests <= 1 => Outstanding(s)' \cap old = {}
<1> TypeOK /\ FilesInv /\ ServersInv /\ ActiveCountIsExact
  BY DEF TypeInv, IInv, ServersInv
<1>1. CASE UNCHANGED vars
  BY <1>1, RememberedFrame DEF vars, requestFields
<1>2. CASE Environment
  BY <1>2, RememberedFrame DEF Environment, Tick, ClientSubmit, ServerFinish, requestFields
<1>3. CASE ReadBatch \/ SendScheduled \/ HandleNextNothing
  BY <1>3, RememberedFrame DEF ReadBatch, SendScheduled, HandleNextNothing, requestFields
<1>4. CASE HandleLine /\ Head(batch).type = "request"
  BY <1>4, RememberedFrame DEF HandleLine, handle_request
<1>5. CASE HandleLine /\ Head(batch).type = "finished"
  BY <1>5, CompletionFile, RememberedCompletion
<1>6. CASE HandleLine
  BY <1>4, <1>5, <1>6 DEF HandleLine
<1> QED
  BY <1>1, <1>2, <1>3, <1>6, RememberedDispatch DEF Next, Scheduler, HandleNext, Timeout

(* A request that was given to a server stays given to one. *)
LEMMA NextGiven ==
  ASSUME TypeOK, [Next]_vars, NEW r \in Requests, processing[r] # NoServer
  PROVE  processing'[r] # NoServer
<1>1. CASE UNCHANGED processing
  BY <1>1
<1>2. ASSUME NEW s \in Servers, NEW q \in Requests,
             HandleNextDispatch(s, q) \/ HandleTimeout(s, q)
      PROVE  processing'[r] # NoServer
  BY <1>2, ConstantTypes
  DEF HandleNextDispatch, HandleTimeout, schedule_request_to_server, TypeOK
<1>3. CASE HandleLine
  BY <1>1, <1>3 DEF HandleLine, handle_request, handle_completion
<1>4. CASE Environment
  BY <1>1, <1>4 DEF Environment, Tick, ClientSubmit, ServerFinish
<1>5. CASE ReadBatch \/ SendScheduled \/ HandleNextNothing
  BY <1>1, <1>5 DEF ReadBatch, SendScheduled, HandleNextNothing
<1>6. CASE UNCHANGED vars
  BY <1>1, <1>6 DEF vars
<1> QED
  BY <1>2, <1>3, <1>4, <1>5, <1>6 DEF Next, Scheduler, HandleNext, Timeout

(* CountersRememberSharing is preserved: what shares a server now counts as two. *)
LEMMA NextHistory ==
  TypeInv /\ IInv /\ (TypeInv /\ IInv)' /\ CountersRememberSharing /\ [HistoryNext]_allVars
    => CountersRememberSharing'
<1> SUFFICES ASSUME TypeInv, IInv, TypeInv', IInv', CountersRememberSharing,
                    [HistoryNext]_allVars
             PROVE  CountersRememberSharing'
  OBVIOUS
<1>1. /\ [Next]_vars
      /\ shared' \subseteq shared \cup Sharing'
  BY DEF HistoryNext, allVars
<1>2. /\ Remembered(shared)
      /\ \A r \in shared : r \in Requests /\ processing[r] # NoServer
  BY DEF CountersRememberSharing, Remembered
<1>3. \A s \in Servers : stat'[s].requests <= 1 => Outstanding(s)' \cap shared = {}
  BY <1>1, <1>2, NextRemembered
<1>4. \A s \in Servers : stat'[s].requests <= 1 => Outstanding(s)' \cap Sharing' = {}
  <2>1. TypeOK' /\ ActiveCountIsExact'
    BY DEF TypeInv, IInv
  <2>2. Remembered(Sharing)'
    BY <2>1, AloneNow, PTL
  <2> QED
    BY <2>2 DEF Remembered
<1>5. \A s \in Servers : stat'[s].requests <= 1 => Outstanding(s)' \cap shared' = {}
  BY <1>1, <1>3, <1>4
<1>6. \A r \in shared : r \in Requests /\ processing'[r] # NoServer
  BY <1>1, <1>2, NextGiven DEF TypeInv
<1>7. \A r \in Sharing' : r \in Requests /\ processing'[r] # NoServer
  BY ConstantTypes DEF Sharing, Outstanding
<1> QED
  BY <1>1, <1>5, <1>6, <1>7 DEF CountersRememberSharing

(* At the start nothing was shared. *)
LEMMA InitHistory == HistoryInit => CountersRememberSharing
BY DEF HistoryInit, CountersRememberSharing

(* A performance metric changes only in handle_completion of a request that is
   outstanding on the server, and of which the counters know no other. *)
LEMMA CalibratingStep ==
  TypeInv /\ IInv /\ CountersRememberSharing /\ [HistoryNext]_allVars
    => \A s \in Servers :
         stat'[s].performance_metric # stat[s].performance_metric
           => (completed' \ completed) \cap shared = {}
<1> SUFFICES ASSUME TypeInv, IInv, CountersRememberSharing, [HistoryNext]_allVars,
                    NEW s \in Servers,
                    stat'[s].performance_metric # stat[s].performance_metric
             PROVE  (completed' \ completed) \cap shared = {}
  OBVIOUS
<1> TypeOK /\ FilesInv /\ ServersInv
  BY DEF TypeInv, IInv, ServersInv
<1>1. [Next]_vars
  BY DEF HistoryNext, allVars
<1>2. CASE HandleLine /\ Head(batch).type = "finished"
  <2> DEFINE q == Head(batch).file
             before == stat[processing[q]]
  <2>1. /\ handle_completion(q) /\ q \in Requests
        /\ processing[q] \in Servers /\ q \notin completed
    BY <1>2, CompletionFile
  <2>2. \A t \in Servers \ {processing[q]} : stat'[t] = stat[t]
    BY <2>1, CompletionServers
  <2>3. s = processing[q]
    BY <2>2
  <2>4. stat'[s] = RecordRequest(stat[s], size[q], now - start_time[q])
    BY <2>1, <2>3 DEF handle_completion, TypeOK
  <2>5. Calibrates(stat[s], size[q])
    BY <2>4 DEF RecordRequest
  <2>6. Outstanding(s) \cap shared = {}
    BY <2>5 DEF Calibrates, CountersRememberSharing
  <2>7. q \in Outstanding(s) /\ completed' \ completed \subseteq {q}
    BY <2>1, <2>3 DEF Outstanding, handle_completion
  <2> QED
    BY <2>6, <2>7
<1>3. CASE UNCHANGED completed
  BY <1>3
<1>4. CASE HandleLine
  BY <1>2, <1>3, <1>4 DEF HandleLine, handle_request
<1>5. CASE UNCHANGED vars
  BY <1>3, <1>5 DEF vars, requestFields
<1>6. CASE Environment
  BY <1>3, <1>6 DEF Environment, Tick, ClientSubmit, ServerFinish, requestFields
<1>7. CASE ReadBatch \/ SendScheduled \/ HandleNextNothing
  BY <1>3, <1>7 DEF ReadBatch, SendScheduled, HandleNextNothing, requestFields
<1>8. ASSUME NEW t \in Servers, NEW r \in Requests,
             HandleNextDispatch(t, r) \/ HandleTimeout(t, r)
      PROVE  UNCHANGED completed
  BY <1>8 DEF HandleNextDispatch, HandleTimeout
<1> QED
  BY <1>1, <1>3, <1>4, <1>5, <1>6, <1>7, <1>8 DEF Next, Scheduler, HandleNext, Timeout

-----------------------------------------------------------------------------
(***************************************************************************)
(* LoadBalancer with its history behaves like LoadBalancer, so what holds  *)
(* of the one holds of the other.                                          *)
(***************************************************************************)
THEOREM HistoryRefines == HistorySpec => Spec
<1>1. HistoryInit => Init
  BY DEF HistoryInit
<1>2. [HistoryNext]_allVars => [Next]_vars
  BY DEF HistoryNext, allVars
<1> QED
  BY <1>1, <1>2, PTL DEF HistorySpec, Spec, allVars

(***************************************************************************)
(* While the counter of requests of a server is at most one, no request on *)
(* it ever had to share it.                                                *)
(***************************************************************************)
THEOREM SharingRemembered == HistorySpec => []CountersRememberSharing
<1>1. HistorySpec => [](TypeInv /\ IInv)
  BY HistoryRefines, Invariance, PTL
<1> QED
  BY <1>1, InitHistory, NextHistory, PTL DEF HistorySpec, allVars

(***************************************************************************)
(* Only a request that had its server to itself from its dispatch to its   *)
(* completion calibrates it.                                               *)
(***************************************************************************)
THEOREM CalibrationIsSound == HistorySpec => CalibratedByRequestsThatRanAlone
<1>1. HistorySpec => [](TypeInv /\ IInv)
  BY HistoryRefines, Invariance, PTL
<1>2. TypeInv /\ IInv /\ CountersRememberSharing /\ [HistoryNext]_allVars
        => [\A s \in Servers :
              stat'[s].performance_metric # stat[s].performance_metric
                => (completed' \ completed) \cap shared = {}]_allVars
  BY CalibratingStep
<1> QED
  BY <1>1, <1>2, SharingRemembered, PTL
  DEF HistorySpec, CalibratedByRequestsThatRanAlone, allVars

-----------------------------------------------------------------------------
(***************************************************************************)
(* The backoff.                                                            *)
(***************************************************************************)
(* The recursion of TwoTo defines a function. *)
LEMMA TwoToDef ==
  /\ TwoTo \in [Nat -> Nat \ {0}]
  /\ TwoTo[0] = 1
  /\ \A n \in Nat : TwoTo[n + 1] = 2 * TwoTo[n]
<1> DEFINE P == Nat \ {0}
           step == [p \in Nat \X P |-> 2 * p[2]]
<1>1. step \in Steps(P)
  BY DEF Steps
<1>2. PICK f \in [Nat -> P] : \A k \in Nat : Computes(f, k, step, 1)
  <2>1. 1 \in P
    OBVIOUS
  <2> HIDE DEF step, P
  <2> QED
    BY <1>1, <2>1, Recursion
<1>3. f[0] = 1
  BY <1>2 DEF Computes
<1>4. ASSUME NEW n \in Nat \ {0} PROVE f[n] = 2 * f[n - 1]
  <2>1. n \in Nat /\ n \in 1 .. n /\ n - 1 \in Nat
    OBVIOUS
  <2>2. f[n] = step[<<n, f[n - 1]>>]
    BY <1>2, <2>1 DEF Computes
  <2>3. <<n, f[n - 1]>> \in Nat \X P
    BY <1>2, <2>1
  <2> QED
    BY <2>2, <2>3
<1>5. f = [n \in Nat |-> IF n = 0 THEN 1 ELSE 2 * f[n - 1]]
  BY <1>2, <1>3, <1>4
<1>6. TwoTo = [n \in Nat |-> IF n = 0 THEN 1 ELSE 2 * TwoTo[n - 1]]
  <2> DEFINE Is(g) == g = [n \in Nat |-> IF n = 0 THEN 1 ELSE 2 * g[n - 1]]
  <2>1. TwoTo = CHOOSE g : Is(g)
    BY DEF TwoTo
  <2>2. Is(f)
    BY <1>5
  <2> HIDE DEF Is
  <2>3. Is(TwoTo)
    BY <2>1, <2>2
  <2> QED
    BY <2>3 DEF Is
<1>7. TwoTo[0] = 1 /\ \A n \in Nat : TwoTo[n + 1] = 2 * TwoTo[n]
  BY <1>6
<1>8. TwoTo \in [Nat -> P]
  <2> DEFINE T == {n \in Nat : TwoTo[n] \in P}
  <2>1. 0 \in T /\ \A n \in Nat : n \in T => n + 1 \in T
    BY <1>7
  <2> HIDE DEF T
  <2>2. Nat \subseteq T
    BY <2>1, SetInduction
  <2> QED
    BY <1>6, <2>2 DEF T
<1> QED
  BY <1>7, <1>8

(* Every step keeps the bound: a forced request doubles both sides, and the
   counter of the wave is reset only together with the multiplier. *)
LEMMA NextBackoff ==
  TypeInv /\ IInv /\ BackoffBounded /\ [Next]_vars => BackoffBounded'
<1> SUFFICES ASSUME TypeInv, IInv, BackoffBounded, [Next]_vars PROVE BackoffBounded'
  OBVIOUS
<1> TypeOK /\ FilesInv
  BY DEF TypeInv, IInv
<1> DEFINE limit(n) == DEFAULT_MULTIPLIER * TwoTo[n]
<1>1. \A n \in Nat : /\ limit(n) \in Nat /\ limit(n) >= DEFAULT_MULTIPLIER
                     /\ limit(n + 1) = 2 * limit(n)
  BY TwoToDef DEF DEFAULT_MULTIPLIER
<1>2. /\ active_forced_requests \in Nat /\ multiplier \in Nat
      /\ multiplier <= limit(active_forced_requests)
  BY DEF TypeOK, BackoffBounded
<1>3. BackoffBounded' <=> multiplier' <= limit(active_forced_requests')
  BY DEF BackoffBounded
<1> HIDE DEF limit
<1>4. CASE UNCHANGED <<multiplier, active_forced_requests>>
  BY <1>2, <1>3, <1>4
<1>5. CASE multiplier' = DEFAULT_MULTIPLIER /\ active_forced_requests' \in Nat
  BY <1>1, <1>3, <1>5
<1>6. ASSUME NEW s \in Servers, NEW r \in Requests, HandleTimeout(s, r)
      PROVE  BackoffBounded'
  <2>1. /\ multiplier' = 2 * multiplier
        /\ active_forced_requests' = active_forced_requests + 1
    BY <1>6 DEF HandleTimeout
  <2> QED
    BY <1>1, <1>2, <1>3, <2>1
<1>7. ASSUME NEW s \in Servers, NEW r \in Requests, HandleNextDispatch(s, r)
      PROVE  BackoffBounded'
  BY <1>2, <1>5, <1>7 DEF HandleNextDispatch, reset_timeout, forcedCounts
<1>8. CASE HandleLine /\ Head(batch).type = "request"
  BY <1>4, <1>8 DEF HandleLine, handle_request, forcedCounts, timeouts
<1>9. CASE HandleLine /\ Head(batch).type = "finished"
  <2>1. CountForcedCompletion(Head(batch).file)
    BY <1>9, CompletionFile DEF handle_completion
  <2> QED
    BY <1>4, <1>5, <2>1 DEF CountForcedCompletion, reset_timeout, forcedCounts, timeouts
<1>10. CASE HandleLine
  BY <1>8, <1>9, <1>10 DEF HandleLine
<1>11. CASE UNCHANGED vars
  BY <1>4, <1>11 DEF vars, forcedCounts, timeouts
<1>12. CASE Environment
  BY <1>4, <1>12 DEF Environment, Tick, ClientSubmit, ServerFinish, forcedCounts, timeouts
<1>13. CASE ReadBatch \/ SendScheduled \/ HandleNextNothing
  BY <1>4, <1>13 DEF ReadBatch, SendScheduled, HandleNextNothing, forcedCounts, timeouts
<1> QED
  BY <1>6, <1>7, <1>10, <1>11, <1>12, <1>13 DEF Next, Scheduler, HandleNext, Timeout

(***************************************************************************)
(* The multiplier is never doubled more often than requests were forced in *)
(* the current wave.                                                       *)
(***************************************************************************)
THEOREM BackoffCorrect == Spec => []BackoffBounded
<1>1. Init => BackoffBounded
  BY TwoToDef DEF Init, BackoffBounded, DEFAULT_MULTIPLIER
<1> QED
  BY <1>1, Invariance, NextBackoff, PTL DEF Spec

-----------------------------------------------------------------------------
(***************************************************************************)
(* The age of a request.                                                   *)
(***************************************************************************)
Sum == [count : Nat, total : Int \X (Nat \ {0})]

(* One round of the loop of average_response_time. *)
Add(s, sum) ==
  IF IsValid(stat[s].response_time)
  THEN [count |-> sum.count + 1,
        total |-> FracPlus(sum.total, Query(stat[s].response_time))]
  ELSE sum

NoSum == [count |-> 0, total |-> <<0, 1>>]

LEMMA AddType ==
  ASSUME TypeOK, NEW s \in Servers, NEW sum \in Sum
  PROVE  Add(s, sum) \in Sum
<1> DEFINE rt == stat[s].response_time
<1>1. rt.count \in Nat /\ rt.total \in Nat
  BY DEF TypeOK, Statistic, Average
<1>2. /\ sum.count \in Nat
      /\ sum.total[1] \in Int /\ sum.total[2] \in Nat \ {0}
  BY DEF Sum
<1>3. CASE IsValid(rt)
  <2>1. rt.count \in Nat \ {0} /\ Query(rt) = <<rt.total, rt.count>>
    BY <1>1, <1>3 DEF IsValid, Query
  <2>2. FracPlus(sum.total, Query(rt)) \in Int \X (Nat \ {0})
    <3>1. ASSUME NEW a \in Int, NEW b \in Nat \ {0}, NEW t \in Nat, NEW n \in Nat \ {0}
          PROVE  /\ a * n + t * b \in Int
                 /\ b * n \in Nat \ {0}
      OBVIOUS
    <3>2. /\ sum.total[1] * rt.count + rt.total * sum.total[2] \in Int
          /\ sum.total[2] * rt.count \in Nat \ {0}
      <4> HIDE DEF rt
      <4> QED
        BY <1>1, <1>2, <2>1, <3>1
    <3> QED
      BY <2>1, <3>2 DEF FracPlus
  <2> QED
    BY <1>2, <1>3, <2>2 DEF Add, Sum
<1>4. CASE ~IsValid(rt)
  BY <1>4 DEF Add
<1> QED
  BY <1>3, <1>4

(* The recursion of response_times defines a function. *)
LEMMA ResponseTimesDef ==
  ASSUME TypeOK
  PROVE  /\ response_times[0] = NoSum
         /\ \A s \in Servers : response_times[s] = Add(s, response_times[s - 1])
<1> DEFINE step == [p \in Nat \X Sum |-> IF p[1] \in Servers THEN Add(p[1], p[2]) ELSE p[2]]
           Rec(g) == g = [s \in 0 .. NumServers |->
                            IF s = 0 THEN NoSum ELSE Add(s, g[s - 1])]
<1>1. step \in Steps(Sum)
  BY AddType DEF Steps
<1>2. NoSum \in Sum
  BY DEF NoSum, Sum
<1>3. PICK f \in [Nat -> Sum] : \A k \in Nat : Computes(f, k, step, NoSum)
  <2> HIDE DEF step
  <2> QED
    BY <1>1, <1>2, Recursion
<1>4. f[0] = NoSum
  BY <1>3 DEF Computes
<1>5. ASSUME NEW s \in Servers PROVE f[s] = Add(s, f[s - 1])
  <2>1. s \in Nat /\ s - 1 \in Nat /\ s \in 1 .. s
    BY ConstantTypes DEF Servers
  <2>2. f[s] = step[<<s, f[s - 1]>>]
    BY <1>3, <2>1 DEF Computes
  <2>3. <<s, f[s - 1]>> \in Nat \X Sum
    BY <1>3, <2>1
  <2> QED
    BY <2>2, <2>3
<1> DEFINE g == [s \in 0 .. NumServers |-> f[s]]
<1>6. Rec(g)
  <2>1. ASSUME NEW s \in 0 .. NumServers
        PROVE  g[s] = IF s = 0 THEN NoSum ELSE Add(s, g[s - 1])
    <3>1. CASE s = 0
      BY <1>4, <3>1
    <3>2. CASE s # 0
      <4>1. s \in Servers /\ s - 1 \in 0 .. NumServers
        BY <3>2, ConstantTypes DEF Servers
      <4> QED
        BY <3>2, <4>1, <1>5
    <3> QED
      BY <3>1, <3>2
  <2> QED
    BY <2>1
<1>7. response_times = CHOOSE h : Rec(h)
  BY DEF response_times, Add, NoSum
<1>8. Rec(response_times)
  <2> HIDE DEF Rec, g
  <2> QED
    BY <1>6, <1>7
<1>9. ASSUME NEW s \in Servers PROVE response_times[s] = Add(s, response_times[s - 1])
  <2>1. s \in 0 .. NumServers /\ s # 0
    BY ConstantTypes DEF Servers
  <2> QED
    BY <1>8, <2>1
<1>10. 0 \in 0 .. NumServers
  BY ConstantTypes
<1> QED
  BY <1>8, <1>9, <1>10

(* An average is at most MaxTime, so a sum is at most MaxTime for each server. *)
AtMost(sum) ==
  /\ sum \in Sum
  /\ sum.total[1] <= MaxTime * (sum.total[2] * sum.count)

LEMMA AddAtMost ==
  ASSUME TypeOK, ClockInv, NEW s \in Servers, NEW sum, AtMost(sum)
  PROVE  AtMost(Add(s, sum))
<1> DEFINE rt == stat[s].response_time
           a == sum.total[1]
           b == sum.total[2]
           c == sum.count
           t == rt.total
           n == rt.count
           M == MaxTime
<1>1. Add(s, sum) \in Sum
  BY AddType DEF AtMost
<1>2. /\ a \in Int /\ b \in Nat \ {0} /\ c \in Nat /\ M \in Nat
      /\ a <= M * (b * c)
  BY ConstantTypes DEF AtMost, Sum
<1>3. t \in Nat /\ n \in Nat /\ t <= M * n
  BY DEF TypeOK, Statistic, Average, ClockInv
<1>4. CASE IsValid(rt)
  <2>1. /\ Add(s, sum).count = c + 1
        /\ Add(s, sum).total = <<a * n + t * b, b * n>>
    BY <1>4 DEF Add, FracPlus, Query
  <2> HIDE DEF a, b, c, t, n, M
  <2>2. a * n <= (M * (b * c)) * n
    BY <1>2, <1>3
  <2>3. t * b <= (M * n) * b
    BY <1>2, <1>3
  <2>4. (M * (b * c)) * n + (M * n) * b = M * ((b * n) * (c + 1))
    BY <1>2, <1>3
  <2>5. a * n + t * b <= M * ((b * n) * (c + 1))
    BY <1>2, <1>3, <2>2, <2>3, <2>4
  <2> QED
    BY <1>1, <2>1, <2>5 DEF AtMost, M
<1>5. CASE ~IsValid(rt)
  BY <1>5 DEF Add
<1> QED
  BY <1>4, <1>5

LEMMA ResponseTimesAtMost ==
  ASSUME TypeOK, ClockInv
  PROVE  AtMost(response_times[NumServers])
<1> DEFINE T == {s \in Nat : s <= NumServers => AtMost(response_times[s])}
<1>1. 0 \in T
  <2>1. AtMost(NoSum)
    BY ConstantTypes DEF AtMost, NoSum, Sum
  <2> QED
    BY <2>1, ResponseTimesDef
<1>2. ASSUME NEW s \in Nat, s \in T PROVE s + 1 \in T
  <2> SUFFICES ASSUME s + 1 <= NumServers PROVE AtMost(response_times[s + 1])
    OBVIOUS
  <2>1. s + 1 \in Servers /\ (s + 1) - 1 = s /\ s <= NumServers
    BY ConstantTypes DEF Servers
  <2>2. AtMost(response_times[s])
    BY <1>2, <2>1
  <2>3. response_times[s + 1] = Add(s + 1, response_times[s])
    BY <2>1, ResponseTimesDef
  <2> QED
    BY <2>1, <2>2, <2>3, AddAtMost
<1> HIDE DEF T
<1>3. Nat \subseteq T
  BY <1>1, <1>2, SetInduction
<1> QED
  BY <1>3, ConstantTypes DEF T

(* The wrapped arrival time is far below the time it is subtracted from. *)
LEMMA ArrivalTimeWraps ==
  ASSUME TypeOK, ClockInv, NEW r \in Requests
  PROVE  /\ get_arrival_time(r) \in Int
         /\ now - get_arrival_time(r) >= 2 * (HalfSecond + MaxTime)
<1> DEFINE m == arrival_time[r] % IntModulus
<1>1. arrival_time[r] \in Nat /\ IntModulus \in Nat \ {0}
  BY ConstantTypes DEF TypeOK
<1>2. m \in Nat /\ m < IntModulus
  BY <1>1
<1> HIDE DEF m
<1>3. get_arrival_time(r) \in Int /\ get_arrival_time(r) <= IntModulus
  BY <1>1, <1>2 DEF get_arrival_time, m
<1>4. now \in Nat /\ now >= Epoch
  BY ConstantTypes DEF TypeOK, ClockInv
<1> QED
  BY <1>3, <1>4, ConstantTypes, ClockAssumption

(* The check of the age holds no request back. *)
LEMMA AgeNeverChecked == TypeInv /\ IInv => AgeCheckNeverHolds
<1> SUFFICES ASSUME TypeOK, ClockInv, NEW r \in Waiting PROVE WaitedLongEnough(r)
  BY DEF TypeInv, IInv, AgeCheckNeverHolds
<1> r \in Requests
  BY DEF TypeOK, Waiting
<1> DEFINE age == now - get_arrival_time(r)
           sum == response_times[NumServers]
           a == sum.total[1]
           b == sum.total[2]
           c == sum.count
<1>1. age \in Int /\ age >= 2 * (HalfSecond + MaxTime)
  BY ArrivalTimeWraps DEF TypeOK
<1>2. /\ a \in Int /\ b \in Nat \ {0} /\ c \in Nat
      /\ a <= MaxTime * (b * c)
  BY ResponseTimesAtMost DEF AtMost, Sum
<1>3. HalfSecond \in Nat /\ MaxTime \in Nat
  BY ConstantTypes
<1>4. CASE c = 0
  <2>1. average_response_time = <<HalfSecond, 1>>
    BY <1>4 DEF average_response_time
  <2> HIDE DEF age
  <2>2. ~(age * 1 < (2 * HalfSecond) * 1)
    BY <1>1, <1>3
  <2> QED
    BY <2>1, <2>2 DEF WaitedLongEnough, FracLess, FracTimes, DEFAULT_MULTIPLIER, age
<1>5. CASE c # 0
  <2>1. average_response_time = <<a, b * c>>
    BY <1>5 DEF average_response_time
  <2> HIDE DEF age, a, b, c
  <2>2. b * c \in Nat
    BY <1>2
  <2> DEFINE d == b * c
  <2>3. d \in Nat /\ a <= MaxTime * d
    BY <1>2, <2>2
  <2> HIDE DEF d
  <2>4. age * d >= (2 * (HalfSecond + MaxTime)) * d
    BY <1>1, <1>3, <2>3
  <2>5. (2 * (HalfSecond + MaxTime)) * d >= 2 * (MaxTime * d)
    BY <1>3, <2>3
  <2>6. ~(age * d < (2 * a) * 1)
    BY <1>1, <1>2, <1>3, <2>3, <2>4, <2>5
  <2> QED
    BY <2>1, <2>6 DEF WaitedLongEnough, FracLess, FracTimes, DEFAULT_MULTIPLIER, age, d
<1> QED
  BY <1>4, <1>5

(***************************************************************************)
(* The age check of handle_timeout never keeps a request back: an int of   *)
(* any width is too small for the milliseconds since 1970.                 *)
(***************************************************************************)
THEOREM AgeCheckUseless == Spec => []AgeCheckNeverHolds
BY Invariance, AgeNeverChecked, PTL
=============================================================================
