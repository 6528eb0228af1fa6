------------------------- MODULE LoadBalancerInvariant -------------------------
(***************************************************************************)
(* An inductive invariant of LoadBalancer.  The properties to prove speak  *)
(* of the queues and counters; they are preserved only because every file  *)
(* is in one stage of its life (FilesInv) and because the handle_next      *)
(* calls still to come suffice (EnoughNextsLeft).                          *)
(***************************************************************************)
EXTENDS LoadBalancer

(* A service time is a natural number, as nothing was dispatched later than now. *)
DispatchedByNow == \A r \in Requests : start_time[r] <= now

TypeInv == TypeOK /\ DispatchedByNow

(* The lines the scheduler has not handled yet, oldest first. *)
Lines == batch \o inbox

HasLine(lines, type, r) ==
  \E i \in 1 .. Len(lines) : lines[i].type = type /\ lines[i].file = r

UniqueLines(lines) ==
  \A i, j \in 1 .. Len(lines) :
    lines[i].type = lines[j].type /\ lines[i].file = lines[j].file => i = j

(* A file is announced, waits, is given to a server, and is completed. *)
FileInv(r) ==
  /\ HasLine(Lines, "request", r)
       => r <= submitted /\ r \notin Waiting /\ processing[r] = NoServer
  /\ r \in Waiting => r <= submitted /\ processing[r] = NoServer
  /\ processing[r] # NoServer => r <= submitted
  /\ r \in outbox \cup executing \/ HasLine(Lines, "finished", r)
       => processing[r] # NoServer /\ r \notin completed
  /\ r \in outbox => r \notin executing
  /\ r \in outbox \cup executing => ~HasLine(Lines, "finished", r)
  /\ r \in completed \/ forced[r] => processing[r] # NoServer
  /\ r <= submitted => r \in Waiting \cup outbox \cup executing \cup completed
                        \/ HasLine(Lines, "request", r) \/ HasLine(Lines, "finished", r)

FilesInv == UniqueLines(Lines) /\ \A r \in Requests : FileInv(r)

(* handle_request puts a file into one of the two deques. *)
DequesDisjoint == identified_requests \cap unidentified_requests = {}

(***************************************************************************)
(* Every event of the batch that was handled adds at most one idle server  *)
(* or one waiting request, and every handle_next takes one of each.        *)
(***************************************************************************)
EnoughNextsLeft ==
  /\ Len(batch) <= nexts
  /\ \/ Cardinality(Idle) <= nexts - Len(batch)
     \/ Cardinality(Waiting) <= nexts - Len(batch)

(* No service time is longer than the time that has passed. *)
ClockInv ==
  /\ now \in Epoch .. Epoch + MaxTime
  /\ \A r \in Requests : processing[r] # NoServer => start_time[r] >= Epoch
  /\ \A s \in Servers : stat[s].response_time.total <= MaxTime * stat[s].response_time.count

(***************************************************************************)
(* The inductive invariant: what the files, the queues, the counters and   *)
(* the calls of handle_next in jobScheduler.cpp have to keep together.     *)
(***************************************************************************)
IInv ==
  /\ TypeInv
  /\ FilesInv
  /\ DequesDisjoint
  /\ ActiveCountIsExact
  /\ QueuedExactlyWhenIdle
  /\ QueuesAreHomogeneous
  /\ EnoughNextsLeft
  /\ ForcedCountsAreExact
  /\ ClockInv
=============================================================================
