------------------------------ MODULE LoadBalancer ------------------------------
(***************************************************************************)
(* The job scheduler of load_balancer/jobScheduler.cpp: the class          *)
(* LoadBalancer, the receive loop of main that feeds it, and, as its       *)
(* environment, the emulator server_client at the other end of the socket  *)
(* (the client that submits files and the file servers that execute them). *)
(*                                                                         *)
(* The program is single threaded.  One pass of its loop reads a batch of  *)
(* lines, handles every line, then calls handle_next once per line and     *)
(* sends what that scheduled; a timeout check follows some of the passes.  *)
(* The emulator appends lines to the socket and the clock advances between *)
(* any two of these steps.                                                 *)
(*                                                                         *)
(* A request is the number of its arrival: file names are unique in every  *)
(* client configuration of the repository, and the number then stands for  *)
(* the name, for the entry of the map `requests` and for the object.  The  *)
(* two deques are appended to in arrival order only, so a deque is the set *)
(* of its requests and its front is the smallest of them.                  *)
(***************************************************************************)
EXTENDS ServerStatistic, Sequences, FiniteSets

CONSTANTS
  NumServers,    (* servers named in the first message of the emulator       *)
  MaxRequests,   (* bound: requests the client submits                       *)
  Sizes,         (* sizes a request line can carry, -1 when it is withheld   *)
  MaxTime,       (* bound: clock ticks after the start                       *)
  Epoch,         (* clock value at the start, milliseconds since 1970        *)
  HalfSecond,    (* HALF_SECOND, the response time assumed before any sample *)
  IntModulus     (* 2^32, the range of a C++ int                             *)

ASSUME CountsAssumption ==
  /\ NumServers \in Nat \ {0}
  /\ MaxRequests \in Nat
  /\ MaxTime \in Nat
  /\ Sizes \subseteq Int

ASSUME ClockAssumption ==
  /\ HalfSecond \in Nat
  /\ IntModulus \in Nat \ {0}
  /\ Epoch \in Nat
  /\ Epoch > IntModulus + 2 * (HalfSecond + MaxTime)

Servers == 1 .. NumServers
Requests == 1 .. MaxRequests

DEFAULT_MULTIPLIER == 2
Unset == 0          (* time_point(), the default of a time *)
NoServer == 0

VARIABLES
  now,                    (* system_clock                                        *)
  submitted,              (* client: number of requests submitted so far         *)
  executing,              (* emulator: requests its servers are executing        *)
  inbox,                  (* lines in the socket, towards the scheduler          *)
  batch,                  (* request_pairs still to be handled                   *)
  nexts,                  (* handle_next calls still to be made for this batch   *)
  outbox,                 (* send_to_servers                                     *)
  approximated_servers,   (* priority queues of servers: how often each is in it *)
  calibrated_servers,
  identified_requests,    (* deques of requests                                  *)
  unidentified_requests,
  processing,             (* the server each request was given to                *)
  size,                   (* fields of the Request objects                       *)
  forced,
  arrival_time,
  start_time,
  completed,              (* requests whose completion_time is set               *)
  stat,                   (* the ServerStatistic of each server                  *)
  multiplier,
  active_forced_requests,
  active_forced_requests_completed,
  timeout_trigger

environment == <<now, submitted, executing, inbox>>
loop == <<batch, nexts, outbox>>
serverQueues == <<approximated_servers, calibrated_servers>>
requestQueues == <<identified_requests, unidentified_requests>>
requestFields == <<size, forced, arrival_time, start_time, completed>>
forcedCounts == <<active_forced_requests, active_forced_requests_completed>>
timeouts == <<multiplier, timeout_trigger>>

vars == <<environment, loop, serverQueues, requestQueues, processing, requestFields,
          stat, forcedCounts, timeouts>>

-----------------------------------------------------------------------------
(***************************************************************************)
(* Lines of the protocol: "name,size" and "Fname".                         *)
(***************************************************************************)
RequestLine(r, n) == [type |-> "request", file |-> r, size |-> n]
FinishedLine(r) == [type |-> "finished", file |-> r]

Line == [type : {"request"}, file : Requests, size : Sizes]
          \cup [type : {"finished"}, file : Requests]

Waiting == identified_requests \cup unidentified_requests

(* Dispatched, and the scheduler has not yet handled the completion. *)
Outstanding(s) ==
  {r \in Requests : processing[r] = s /\ r \notin completed}

Idle == {s \in Servers : approximated_servers[s] + calibrated_servers[s] > 0}

(* Between two batches: the loop is about to call read or handle_timeout. *)
Quiescent == batch = <<>> /\ nexts = 0 /\ outbox = {}

-----------------------------------------------------------------------------
Init ==
  /\ now = Epoch
  /\ submitted = 0
  /\ executing = {}
  /\ inbox = <<>>
  /\ batch = <<>>
  /\ nexts = 0
  /\ outbox = {}
  /\ approximated_servers = [s \in Servers |-> 1]
  /\ calibrated_servers = [s \in Servers |-> 0]
  /\ identified_requests = {}
  /\ unidentified_requests = {}
  /\ processing = [r \in Requests |-> NoServer]
  /\ size = [r \in Requests |-> 0]
  /\ forced = [r \in Requests |-> FALSE]
  /\ arrival_time = [r \in Requests |-> Unset]
  /\ start_time = [r \in Requests |-> Unset]
  /\ completed = {}
  /\ stat = [s \in Servers |-> NewStatistic]
  /\ multiplier = DEFAULT_MULTIPLIER
  /\ active_forced_requests = 0
  /\ active_forced_requests_completed = 0
  /\ timeout_trigger = now

-----------------------------------------------------------------------------
(***************************************************************************)
(* The environment.                                                        *)
(***************************************************************************)
Tick ==
  /\ now < Epoch + MaxTime
  /\ now' = now + 1
  /\ UNCHANGED <<submitted, executing, inbox, loop, serverQueues, requestQueues,
                 processing, requestFields, stat, forcedCounts, timeouts>>

ClientSubmit ==
  /\ submitted < MaxRequests
  /\ submitted' = submitted + 1
  /\ \E n \in Sizes : inbox' = Append(inbox, RequestLine(submitted + 1, n))
  /\ UNCHANGED <<now, executing, loop, serverQueues, requestQueues, processing,
                 requestFields, stat, forcedCounts, timeouts>>

ServerFinish(r) ==
  /\ r \in executing
  /\ executing' = executing \ {r}
  /\ inbox' = Append(inbox, FinishedLine(r))
  /\ UNCHANGED <<now, submitted, loop, serverQueues, requestQueues, processing,
                 requestFields, stat, forcedCounts, timeouts>>

-----------------------------------------------------------------------------
(***************************************************************************)
(* read returns some of the lines in the socket, at least one; handle_next *)
(* will be called as often as there are lines.                             *)
(***************************************************************************)
(* Faulty variant: completions do not count. *)
RequestCount(lines) == Len(SelectSeq(lines, LAMBDA line : line.type = "request"))

EventCount(lines) == Len(lines)

ReadBatch ==
  /\ Quiescent
  /\ \E k \in 1 .. Len(inbox) :
       /\ batch' = SubSeq(inbox, 1, k)
       /\ inbox' = SubSeq(inbox, k + 1, Len(inbox))
       /\ nexts' = EventCount(batch')
  /\ UNCHANGED <<now, submitted, executing, outbox, serverQueues, requestQueues,
                 processing, requestFields, stat, forcedCounts, timeouts>>

reset_timeout ==
  /\ multiplier' = DEFAULT_MULTIPLIER
  /\ timeout_trigger' = now

handle_request(r, n) ==
  /\ size' = [size EXCEPT ![r] = n]
  /\ arrival_time' = [arrival_time EXCEPT ![r] = now]
  /\ IF n > 0
     THEN /\ identified_requests' = identified_requests \cup {r}
          /\ UNCHANGED unidentified_requests
     ELSE /\ unidentified_requests' = unidentified_requests \cup {r}
          /\ UNCHANGED identified_requests
  /\ UNCHANGED <<serverQueues, processing, forced, start_time, completed, stat,
                 forcedCounts, timeouts>>

(* Faulty variant: the backoff outlives the wave of forced requests. *)
CountForcedCompletionKeepingBackoff(r) ==
  /\ IF ~forced[r]
     THEN UNCHANGED forcedCounts
     ELSE IF active_forced_requests_completed + 1 = active_forced_requests
     THEN active_forced_requests' = 0 /\ active_forced_requests_completed' = 0
     ELSE /\ active_forced_requests_completed' = active_forced_requests_completed + 1
          /\ UNCHANGED active_forced_requests
  /\ UNCHANGED timeouts

(* Faulty variant: the counter is compared before it is incremented. *)
CountForcedCompletionTooLate(r) ==
  IF ~forced[r]
  THEN UNCHANGED <<forcedCounts, timeouts>>
  ELSE IF active_forced_requests_completed = active_forced_requests
  THEN /\ active_forced_requests' = 0
       /\ active_forced_requests_completed' = 0
       /\ reset_timeout
  ELSE /\ active_forced_requests_completed' = active_forced_requests_completed + 1
       /\ UNCHANGED <<active_forced_requests, timeouts>>

(* The part of handle_completion that counts forced requests. *)
CountForcedCompletion(r) ==
  IF ~forced[r]
  THEN UNCHANGED <<forcedCounts, timeouts>>
  ELSE IF active_forced_requests_completed + 1 = active_forced_requests
  THEN /\ active_forced_requests' = 0
       /\ active_forced_requests_completed' = 0
       /\ reset_timeout
  ELSE /\ active_forced_requests_completed' = active_forced_requests_completed + 1
       /\ UNCHANGED <<active_forced_requests, timeouts>>

(* Faulty variant: the queue is chosen before the completion is recorded. *)
PushIfDrainedEarly(s, st, recorded) ==
  LET push(queue) == [queue EXCEPT ![s] = @ + 1]
      ready == Drained(st)
  IN /\ calibrated_servers' = IF ready /\ IsCalibrated(st)
                              THEN push(calibrated_servers) ELSE calibrated_servers
     /\ approximated_servers' = IF ready /\ ~IsCalibrated(st)
                                THEN push(approximated_servers) ELSE approximated_servers

(***************************************************************************)
(* A server that has completed all it was given goes back to the priority  *)
(* queue of its kind; st and recorded are its statistic before and after   *)
(* record_request.                                                         *)
(***************************************************************************)
PushIfDrained(s, st, recorded) ==
  LET push(queue) == [queue EXCEPT ![s] = @ + 1]
      ready == Drained(st)
  IN /\ calibrated_servers' = IF ready /\ IsCalibrated(recorded)
                              THEN push(calibrated_servers) ELSE calibrated_servers
     /\ approximated_servers' = IF ready /\ ~IsCalibrated(recorded)
                                THEN push(approximated_servers) ELSE approximated_servers

handle_completion(r) ==
  LET s == processing[r]
      recorded == RecordRequest(stat[s], size[r], now - start_time[r])
  IN /\ stat' = [stat EXCEPT ![s] = recorded]
     /\ completed' = completed \cup {r}
     /\ CountForcedCompletion(r)
     /\ PushIfDrained(s, stat[s], recorded)
     /\ UNCHANGED <<requestQueues, processing, size, forced, arrival_time, start_time>>

HandleLine ==
  /\ batch # <<>>
  /\ batch' = Tail(batch)
  /\ LET line == Head(batch)
     IN \/ line.type = "request" /\ handle_request(line.file, line.size)
        \/ line.type = "finished" /\ handle_completion(line.file)
  /\ UNCHANGED <<environment, nexts, outbox>>

-----------------------------------------------------------------------------
(***************************************************************************)
(* handle_next.  A top of a priority queue is a server no other server in  *)
(* it is less than: which of several equal ones is on top is left open.    *)
(***************************************************************************)
(* Faulty variant: the queue is not checked to be non-empty. *)
TopsUnchecked(queue) ==
  {s \in Servers : \A t \in Servers : queue[t] > 0 => ~ServerLess(stat[t], stat[s])}

Tops(queue) ==
  {s \in Servers : /\ queue[s] > 0
                   /\ \A t \in Servers : queue[t] > 0 => ~ServerLess(stat[t], stat[s])}

IsFront(queue, r) == r \in queue /\ \A q \in queue : r <= q

(* get_smallest_request: the first of the requests of the smallest size. *)
IsSmallest(r) ==
  /\ r \in identified_requests
  /\ \A q \in identified_requests :
       size[r] < size[q] \/ (size[r] = size[q] /\ r <= q)

(* Faulty variant: the arrival time as the 64-bit count it is made from. *)
get_arrival_time_unwrapped(r) == arrival_time[r]

(* get_arrival_time returns an int: the milliseconds since 1970 wrap. *)
get_arrival_time(r) ==
  LET m == arrival_time[r] % IntModulus
  IN IF 2 * m < IntModulus THEN m ELSE m - IntModulus

(***************************************************************************)
(* The front of the two deques that operator< on requests prefers; the     *)
(* unidentified one when they are equal.                                   *)
(***************************************************************************)
IsOldest(r) ==
  \/ /\ IsFront(identified_requests, r)
     /\ \A u \in Requests : IsFront(unidentified_requests, u)
                              => get_arrival_time(r) < get_arrival_time(u)
  \/ /\ IsFront(unidentified_requests, r)
     /\ \A i \in Requests : IsFront(identified_requests, i)
                              => ~(get_arrival_time(i) < get_arrival_time(r))

(* Faulty variant: the request stays in its deque when it is unidentified. *)
DequeueIdentified(r) ==
  /\ identified_requests' = identified_requests \ {r}
  /\ UNCHANGED unidentified_requests

Dequeue(r) ==
  /\ identified_requests' = identified_requests \ {r}
  /\ unidentified_requests' = unidentified_requests \ {r}

(* processing[...] = server; schedule_request_to_server(server, request) *)
schedule_request_to_server(s, r) ==
  /\ processing' = [processing EXCEPT ![r] = s]
  /\ start_time' = [start_time EXCEPT ![r] = now]
  /\ stat' = [stat EXCEPT ![s] = ProcessRequest(@)]

PopApproximated(s) ==
  /\ s \in Tops(approximated_servers)
  /\ approximated_servers' = [approximated_servers EXCEPT ![s] = @ - 1]
  /\ UNCHANGED calibrated_servers

PopCalibrated(s) ==
  /\ s \in Tops(calibrated_servers)
  /\ calibrated_servers' = [calibrated_servers EXCEPT ![s] = @ - 1]
  /\ UNCHANGED approximated_servers

(* Of the tops of the two queues, the one that responded faster. *)
PopFastest(s) ==
  \/ /\ PopCalibrated(s)
     /\ Tops(approximated_servers) = {}
  \/ /\ PopApproximated(s)
     /\ Tops(calibrated_servers) = {}
  \/ /\ PopCalibrated(s)
     /\ \E a \in Tops(approximated_servers) :
          ~FracLess(Query(stat[a].response_time), Query(stat[s].response_time))
  \/ /\ PopApproximated(s)
     /\ \E c \in Tops(calibrated_servers) :
          FracLess(Query(stat[s].response_time), Query(stat[c].response_time))

(* It returns "" when there is no server or no request to match. *)
HandleNextNothing ==
  /\ batch = <<>> /\ nexts > 0
  /\ Idle = {} \/ Waiting = {}
  /\ nexts' = nexts - 1
  /\ UNCHANGED <<environment, batch, outbox, serverQueues, requestQueues, processing,
                 requestFields, stat, forcedCounts, timeouts>>

HandleNextDispatch(s, r) ==
  /\ batch = <<>> /\ nexts > 0
  /\ nexts' = nexts - 1
  /\ IF Tops(approximated_servers) # {} /\ identified_requests # {}
     THEN PopApproximated(s) /\ IsSmallest(r)
     ELSE PopFastest(s) /\ IsOldest(r)
  /\ Dequeue(r)
  /\ schedule_request_to_server(s, r)
  /\ outbox' = outbox \cup {r}
  /\ reset_timeout
  /\ UNCHANGED <<environment, batch, size, forced, arrival_time, completed, forcedCounts>>

(* The text accumulated by the handle_next calls reaches the emulator. *)
SendScheduled ==
  /\ batch = <<>> /\ nexts = 0 /\ outbox # {}
  /\ executing' = executing \cup outbox
  /\ outbox' = {}
  /\ UNCHANGED <<now, submitted, inbox, batch, nexts, serverQueues, requestQueues,
                 processing, requestFields, stat, forcedCounts, timeouts>>

-----------------------------------------------------------------------------
(***************************************************************************)
(* handle_timeout.                                                         *)
(***************************************************************************)
(* server_count and total_response_time when the loop has seen s servers. *)
response_times[s \in 0 .. NumServers] ==
  IF s = 0
  THEN [count |-> 0, total |-> <<0, 1>>]
  ELSE IF IsValid(stat[s].response_time)
  THEN [count |-> response_times[s - 1].count + 1,
        total |-> FracPlus(response_times[s - 1].total, Query(stat[s].response_time))]
  ELSE response_times[s - 1]

average_response_time ==
  LET sum == response_times[NumServers]
  IN IF sum.count = 0
     THEN <<HalfSecond, 1>>
     ELSE <<sum.total[1], sum.total[2] * sum.count>>

TimeoutExpired ==
  ~FracLess(<<now - timeout_trigger, 1>>, FracTimes(multiplier, average_response_time))

(* The guard on the age of the request itself. *)
WaitedLongEnough(r) ==
  ~FracLess(<<now - get_arrival_time(r), 1>>,
            FracTimes(DEFAULT_MULTIPLIER, average_response_time))

(* get_timeout_handler replaces its candidate c by the server s. *)
BetterCandidate(s, c) ==
  LET active(t) == ActiveRequestCount(stat[t])
      response(t) == stat[t].response_time
  IN IF IsValid(response(c)) /\ IsValid(response(s))
     THEN FracLess(FracTimes(active(s), Query(response(s))),
                   FracTimes(active(c), Query(response(c))))
     ELSE active(s) < active(c)

(* candidate[i] is the candidate once the first i servers were looked at. *)
IsTimeoutScan(candidate) ==
  /\ candidate[1] = 1
  /\ \A i \in 2 .. NumServers :
       candidate[i] = IF BetterCandidate(i, candidate[i - 1]) THEN i ELSE candidate[i - 1]

TimeoutHandler(s) ==
  \E candidate \in [Servers -> Servers] : IsTimeoutScan(candidate) /\ s = candidate[NumServers]

HandleTimeout(s, r) ==
  /\ Quiescent
  /\ Waiting # {}
  /\ TimeoutExpired
  /\ IsOldest(r)
  /\ WaitedLongEnough(r)
  /\ forced' = [forced EXCEPT ![r] = TRUE]
  /\ Dequeue(r)
  /\ TimeoutHandler(s)
  /\ schedule_request_to_server(s, r)
  /\ multiplier' = 2 * multiplier
  /\ active_forced_requests' = active_forced_requests + 1
  /\ executing' = executing \cup {r}
  /\ UNCHANGED <<now, submitted, inbox, loop, serverQueues, size, arrival_time, completed,
                 active_forced_requests_completed, timeout_trigger>>

-----------------------------------------------------------------------------
HandleNext == HandleNextNothing \/ \E s \in Servers, r \in Requests : HandleNextDispatch(s, r)

Timeout == \E s \in Servers, r \in Requests : HandleTimeout(s, r)

Environment == Tick \/ ClientSubmit \/ \E r \in Requests : ServerFinish(r)

Scheduler == ReadBatch \/ HandleLine \/ HandleNext \/ SendScheduled \/ Timeout

Next == Environment \/ Scheduler

Spec == Init /\ [][Next]_vars

(***************************************************************************)
(* The loop of main never blocks for long (the socket has a receive        *)
(* timeout), and a file server finishes what it executes.  The client need *)
(* not submit anything.                                                    *)
(***************************************************************************)
Fairness ==
  /\ WF_vars(ReadBatch) /\ WF_vars(HandleLine)
  /\ WF_vars(HandleNext) /\ WF_vars(SendScheduled)
  /\ \A r \in Requests : WF_vars(ServerFinish(r))

FairSpec == Spec /\ Fairness

-----------------------------------------------------------------------------
(***************************************************************************)
(* Every variable has its type.                                            *)
(***************************************************************************)
TypeOK ==
  /\ now \in Nat
  /\ submitted \in 0 .. MaxRequests
  /\ executing \subseteq Requests
  /\ inbox \in Seq(Line)
  /\ batch \in Seq(Line)
  /\ nexts \in Nat
  /\ outbox \subseteq Requests
  /\ approximated_servers \in [Servers -> Nat]
  /\ calibrated_servers \in [Servers -> Nat]
  /\ identified_requests \subseteq Requests
  /\ unidentified_requests \subseteq Requests
  /\ processing \in [Requests -> Servers \cup {NoServer}]
  /\ size \in [Requests -> Int]
  /\ forced \in [Requests -> BOOLEAN]
  /\ arrival_time \in [Requests -> Nat]
  /\ start_time \in [Requests -> Nat]
  /\ completed \subseteq Requests
  /\ stat \in [Servers -> Statistic]
  /\ multiplier \in Nat
  /\ active_forced_requests \in Nat
  /\ active_forced_requests_completed \in Nat
  /\ timeout_trigger \in Nat

(***************************************************************************)
(* No line, dispatch or completion is lost or duplicated on its way: a     *)
(* submitted file is in exactly one place of its life cycle, a file not    *)
(* yet submitted in none (handle_request, handle_next, handle_timeout and  *)
(* handle_completion each move it exactly one place on).                   *)
(***************************************************************************)
LinesOf(type, r) ==
  {i \in 1 .. Len(inbox) : inbox[i].type = type /\ inbox[i].file = r}
    \X {"inbox"}
  \cup
  {i \in 1 .. Len(batch) : batch[i].type = type /\ batch[i].file = r}
    \X {"batch"}

Places(r) ==
  LinesOf("request", r) \cup LinesOf("finished", r)
  \cup {place \in {"identified"} : r \in identified_requests}
  \cup {place \in {"unidentified"} : r \in unidentified_requests}
  \cup {place \in {"outbox"} : r \in outbox}
  \cup {place \in {"executing"} : r \in executing}
  \cup {place \in {"completed"} : r \in completed}

EachFileInOnePlace ==
  \A r \in Requests : Cardinality(Places(r)) = IF r <= submitted THEN 1 ELSE 0

(***************************************************************************)
(* The two priority queues together hold every server that has nothing to  *)
(* do exactly once, and no server that has something to do: a server is    *)
(* never handed out twice and never forgotten, whatever mix of handle_next *)
(* dispatches, forced dispatches and completions it went through.          *)
(***************************************************************************)
QueuedExactlyWhenIdle ==
  \A s \in Servers :
    approximated_servers[s] + calibrated_servers[s] = IF Outstanding(s) = {} THEN 1 ELSE 0

(***************************************************************************)
(* active_request_count, two counters that record_request resets together, *)
(* is the number of requests the server really has outstanding.            *)
(***************************************************************************)
ActiveCountIsExact ==
  \A s \in Servers : ActiveRequestCount(stat[s]) = Cardinality(Outstanding(s))

(***************************************************************************)
(* A priority queue compares only servers of its own kind.  operator< is   *)
(* no strict weak order on a mix of calibrated and uncalibrated servers,   *)
(* and std::priority_queue needs one.                                      *)
(***************************************************************************)
QueuesAreHomogeneous ==
  \A s \in Servers :
    /\ approximated_servers[s] > 0 => ~IsCalibrated(stat[s])
    /\ calibrated_servers[s] > 0 => IsCalibrated(stat[s])

(***************************************************************************)
(* handle_next is called once per line of the batch.  That is enough: when *)
(* the loop goes back to read or to the timeout check, no server is idle   *)
(* while a request waits.  handle_timeout relies on it: it gives a server  *)
(* a request without taking the server out of its priority queue.          *)
(***************************************************************************)
WorkConserving == batch = <<>> /\ nexts = 0 => Idle = {} \/ Waiting = {}

(***************************************************************************)
(* The two counters of forced requests account for the forced requests     *)
(* still outstanding, so the backoff is reset exactly when the last of     *)
(* them completes, even if more were forced meanwhile.                     *)
(***************************************************************************)
ForcedCountsAreExact ==
  /\ active_forced_requests - active_forced_requests_completed
       = Cardinality({r \in Requests : forced[r] /\ r \notin completed})
  /\ active_forced_requests = 0 \/ active_forced_requests_completed < active_forced_requests

(* The powers of two. *)
TwoTo[n \in Nat] == IF n = 0 THEN 1 ELSE 2 * TwoTo[n - 1]

(***************************************************************************)
(* The doubling of the timeout multiplier is bounded by the forced         *)
(* requests of the current wave, although dispatches reset one and         *)
(* completions the other.                                                  *)
(***************************************************************************)
BackoffBounded == multiplier <= DEFAULT_MULTIPLIER * TwoTo[active_forced_requests]

(***************************************************************************)
(* The age check of handle_timeout (jobScheduler.cpp:375) never keeps a    *)
(* request back: get_arrival_time wraps to an int while the current time   *)
(* it is subtracted from does not, so the age is always enormous.          *)
(***************************************************************************)
AgeCheckNeverHolds == \A r \in Waiting : WaitedLongEnough(r)

(***************************************************************************)
(* The keys by which a server is ordered never change while it sits in a   *)
(* std::priority_queue, which would not notice and lose its order.         *)
(***************************************************************************)
QueuedKeysAreStable ==
  [][\A s \in Idle \cap Idle' :
       /\ stat'[s].performance_metric = stat[s].performance_metric
       /\ stat'[s].response_time = stat[s].response_time]_vars

(***************************************************************************)
(* Every file that was submitted is eventually completed, as plot.py:31    *)
(* asserts of the begun and the completed files of a run.                  *)
(***************************************************************************)
EverySubmittedFileCompletes ==
  \A r \in Requests : submitted >= r ~> r \in completed

(* JobDispatch as seen in the state of the scheduler. *)
Promise ==
  INSTANCE JobDispatch WITH
    waiting <- Waiting,
    running <- [r \in Requests |-> IF r \in completed THEN NoServer ELSE processing[r]],
    finished <- completed

(***************************************************************************)
(* Every step of the scheduler is one that JobDispatch allows: handle_next *)
(* gives a request only to a server that has nothing to do, and            *)
(* handle_timeout puts a second request on a server only while no server   *)
(* is free.                                                                *)
(***************************************************************************)
ImplementsJobDispatch == Promise!SafeSpec

(***************************************************************************)
(* It is as prompt as JobDispatch: a free server is not left without a     *)
(* waiting request for ever, and every dispatched request finishes.        *)
(***************************************************************************)
DispatchesInTime == Promise!Fairness
=============================================================================
