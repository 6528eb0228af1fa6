------------------------------ MODULE JobDispatch ------------------------------
(***************************************************************************)
(* What the scheduler of load_balancer/jobScheduler.cpp promises, without  *)
(* its queues, statistics and timers.  A submitted request is given to one *)
(* server, once.  A server is normally given a request only when it has    *)
(* none; a request is forced onto a busy server only while all are busy.   *)
(***************************************************************************)
CONSTANTS
  Servers,
  Requests,
  NoServer     (* not in Servers *)

VARIABLES
  waiting,    (* submitted, not yet given to a server              *)
  running,    (* the server each request was given to, or NoServer *)
  finished

vars == <<waiting, running, finished>>

Free(s) == \A r \in Requests : running[r] # s

Init ==
  /\ waiting = {}
  /\ running = [r \in Requests |-> NoServer]
  /\ finished = {}

Submit(r) ==
  /\ r \notin waiting \cup finished
  /\ running[r] = NoServer
  /\ waiting' = waiting \cup {r}
  /\ UNCHANGED <<running, finished>>

Give(s, r) ==
  /\ r \in waiting
  /\ waiting' = waiting \ {r}
  /\ running' = [running EXCEPT ![r] = s]
  /\ UNCHANGED finished

Assign(s, r) == Free(s) /\ Give(s, r)

Force(s, r) == (\A t \in Servers : ~Free(t)) /\ Give(s, r)

Finish(r) ==
  /\ running[r] # NoServer
  /\ running' = [running EXCEPT ![r] = NoServer]
  /\ finished' = finished \cup {r}
  /\ UNCHANGED waiting

AssignSome == \E s \in Servers, r \in Requests : Assign(s, r)

Next ==
  \/ \E r \in Requests : Submit(r) \/ Finish(r)
  \/ AssignSome
  \/ \E s \in Servers, r \in Requests : Force(s, r)

(* A free server does not leave requests waiting, and what runs finishes. *)
Fairness == WF_vars(AssignSome) /\ \A r \in Requests : WF_vars(Finish(r))

SafeSpec == Init /\ [][Next]_vars

Spec == SafeSpec /\ Fairness
=============================================================================
