-------------------------- MODULE LoadBalancerHistory --------------------------
(***************************************************************************)
(* LoadBalancer with a history variable: the requests that at some moment  *)
(* had to share their server with another one.                             *)
(***************************************************************************)
EXTENDS LoadBalancer

VARIABLE shared

Sharing ==
  {r \in Requests : \E s \in Servers : r \in Outstanding(s) /\ Outstanding(s) # {r}}

HistoryInit == Init /\ shared = {}

HistoryNext == Next /\ shared' = shared \cup Sharing'

HistorySpec == HistoryInit /\ [][HistoryNext]_<<vars, shared>>

(***************************************************************************)
(* The counters of record_request remember a wave: requests is reset only  *)
(* when the server is drained, so as long as it is at most one, nothing    *)
(* outstanding on the server has ever shared it.  Inductive together with  *)
(* the invariant of LoadBalancer.                                          *)
(***************************************************************************)
CountersRememberSharing ==
  /\ \A r \in shared : r \in Requests /\ processing[r] # NoServer
  /\ \A s \in Servers : stat[s].requests <= 1 => Outstanding(s) \cap shared = {}

(***************************************************************************)
(* A sample enters the performance metric of a server only from a request  *)
(* that had the server to itself from its dispatch to its completion: no   *)
(* forced request slows it down unnoticed (record_request sees only        *)
(* counters, which it resets whenever the server is drained).              *)
(***************************************************************************)
CalibratedByRequestsThatRanAlone ==
  [][\A s \in Servers :
       stat'[s].performance_metric # stat[s].performance_metric
         => (completed' \ completed) \cap shared = {}]_<<vars, shared>>
=============================================================================
