---------------------------- MODULE ServerStatistic ----------------------------
(***************************************************************************)
(* The per-server bookkeeping of load_balancer/jobScheduler.cpp: the class *)
(* Average, the class ServerStatistic and the comparison of two servers    *)
(* that orders the priority queues of the load balancer.                   *)
(*                                                                         *)
(* The code keeps averages as doubles.  Here an average is the exact       *)
(* fraction total / count, written <<total, count>>, and two fractions are *)
(* compared by cross multiplication.                                       *)
(***************************************************************************)
EXTENDS Integers

(***************************************************************************)
(* Average: how many values were recorded and their sum.                   *)
(***************************************************************************)
Average == [count : Nat, total : Nat]

NewAverage == [count |-> 0, total |-> 0]

Record(avg, value) == [count |-> avg.count + 1, total |-> avg.total + value]

IsValid(avg) == avg.count # 0

(* -1 until something was recorded, then the mean. *)
Query(avg) == IF IsValid(avg) THEN <<avg.total, avg.count>> ELSE <<-1, 1>>

(* Fractions with a positive denominator. *)
FracLess(p, q) == p[1] * q[2] < q[1] * p[2]

FracTimes(n, p) == <<n * p[1], p[2]>>

FracPlus(p, q) == <<p[1] * q[2] + q[1] * p[2], p[2] * q[2]>>

-----------------------------------------------------------------------------
(***************************************************************************)
(* ServerStatistic: the requests dispatched to the server and those        *)
(* completed since it was last drained, and its two averages.              *)
(***************************************************************************)
Statistic == [requests : Nat, requests_completed : Nat,
              performance_metric : Average, response_time : Average]

NewStatistic == [requests |-> 0, requests_completed |-> 0,
                 performance_metric |-> NewAverage, response_time |-> NewAverage]

ActiveRequestCount(st) == st.requests - st.requests_completed

IsCalibrated(st) == IsValid(st.performance_metric)

ProcessRequest(st) == [st EXCEPT !.requests = @ + 1]

(* Faulty variant: record_request always reports the server as drained. *)
AlwaysDrained(st) == TRUE

(* Faulty variant: the counters are compared before the completion counts. *)
DrainedBefore(st) == st.requests = st.requests_completed

(* record_request returns TRUE: the server has completed all it was given. *)
Drained(st) == st.requests = st.requests_completed + 1

(* Faulty variant: any last completion calibrates. *)
CalibratesWhenDrained(st, size) == Drained(st) /\ size > 0

(* The request ran alone and its size is known, so it calibrates the server. *)
Calibrates(st, size) == Drained(st) /\ st.requests = 1 /\ size > 0

(* Faulty variant: only one of the two counters is reset. *)
RecordRequestKeepingCompleted(st, size, service_time) ==
  [requests           |-> IF Drained(st) THEN 0 ELSE st.requests,
   requests_completed |-> st.requests_completed + 1,
   performance_metric |-> IF Calibrates(st, size)
                          THEN Record(st.performance_metric, service_time \div size)
                          ELSE st.performance_metric,
   response_time      |-> Record(st.response_time, service_time)]

(***************************************************************************)
(* record_request for a request of this size that took service_time; the   *)
(* performance metric is the integer quotient of two ints.                 *)
(***************************************************************************)
RecordRequest(st, size, service_time) ==
  [requests           |-> IF Drained(st) THEN 0 ELSE st.requests,
   requests_completed |-> IF Drained(st) THEN 0 ELSE st.requests_completed + 1,
   performance_metric |-> IF Calibrates(st, size)
                          THEN Record(st.performance_metric, service_time \div size)
                          ELSE st.performance_metric,
   response_time      |-> Record(st.response_time, service_time)]

(***************************************************************************)
(* operator< on servers: by performance metric, by response time as soon   *)
(* as one of the two is not calibrated.                                    *)
(***************************************************************************)
ServerLess(l, r) ==
  IF IsCalibrated(l) /\ IsCalibrated(r)
  THEN FracLess(Query(l.performance_metric), Query(r.performance_metric))
  ELSE FracLess(Query(l.response_time), Query(r.response_time))
=============================================================================
