-------------------------- MODULE ConnectionInvariant --------------------------
(***************************************************************************)
(* An inductive invariant of Connection.  What the peers see stays in      *)
(* order because a chunk is in one place at a time (Pipeline) and because  *)
(* the handler that writes or closes is the one that holds the mutex       *)
(* (Mutex); the telemetry depends on how far handle_connection came        *)
(* (Phases) and on who ended the loop of each direction (Endings).         *)
(***************************************************************************)
EXTENDS Connection

(* The handler of this direction is past lock_guard. *)
Holding(d) == handler[d] \in {Writing, Closing}

Mutex == \A d \in Directions : Holding(d) => lock = d

(* The status line was sent, or the client left before it. *)
Replied == pc \in {"arm_client", "arm_server", "arming_server"} \/ reply = 200
             \/ \E d \in Directions : handler[d] # None

(***************************************************************************)
(* handle_connection: nothing is read before both sockets are open, they   *)
(* are closed together, and not before end() was called.                   *)
(***************************************************************************)
Phases ==
  /\ pc \in {"resolve", "connect", "reply"} => reply = 0 /\ open["client"] /\ ~ended
  /\ pc \in {"resolve", "connect", "reply", "arm_client"} => handler["up"] = None
  /\ pc # "done" => handler["down"] = None
  /\ pc = "reply" => open["server"]
  /\ Replied => /\ open["client"] = open["server"]
                /\ ~open["client"] => ended
                /\ reply = 200 \/ peer["client"] # "open"
  /\ \A d \in Directions :
       /\ handler[d] = Writing => open["client"] /\ open["server"]
       /\ handler[d] = Closing => ended

(* A loop that is over was ended by a handler that closed, or a failed write. *)
Begun(d) ==
  /\ reply = 200
  /\ pc = "done" \/ (d = "up" /\ pc \in {"arm_server", "arming_server"})

Endings ==
  \A d \in Directions :
    Begun(d) /\ handler[d] = None /\ ~ended => result[d] = "data" /\ peer[Write(d)] # "open"

(* The chunk a handler carries from one socket to the other. *)
Carries(d) == handler[d] \in {Ready, Locking, Writing} /\ result[d] = "data"
Carried(d) == IF Carries(d) THEN 1 ELSE 0

(* The other end of a direction may still be given what is read. *)
Passable(d) == peer[Write(d)] = "open" /\ open["client"]

(* Chunks of a direction that are behind the handler, dropped ones included. *)
Passed(d) == Dropped(d) + Len(Delivered(Write(d)))

Pipeline ==
  \A d \in Directions :
    Passable(d) =>
      /\ Carries(d) => buffer[d] = Passed(d) + 1
      /\ \A i \in DOMAIN toProxy[Read(d)] : toProxy[Read(d)][i] = Passed(d) + Carried(d) + i
      /\ Passed(d) + Carried(d) + Len(toProxy[Read(d)]) <= sent[Read(d)]
      /\ \/ Passed(d) + Carried(d) + Len(toProxy[Read(d)]) = sent[Read(d)]
         \/ peer[Read(d)] = "reset"

(* A handler sees the end of the file only when the stream is used up. *)
EndOfFile ==
  \A d \in Directions :
    handler[d] \in {Ready, Locking, Closing} /\ result[d] = "eof"
      => toProxy[Read(d)] = <<>> /\ peer[Read(d)] = "closed"

(***************************************************************************)
(* Only a peer that left makes handle_read close the sockets; so they are  *)
(* open as long as the client stays and the downward loop has not ended.   *)
(***************************************************************************)
ClosedForAReason ==
  /\ \A d \in Directions :
       /\ handler[d] = Closing => result[d] \in ClosingErrors
       /\ handler[d] \in {Ready, Locking, Closing} /\ result[d] \in ClosingErrors
            => peer[Read(d)] # "open"
  /\ Replied /\ ~open["client"] /\ peer["client"] = "open"
       => pc = "done" /\ handler["down"] = None

(* What a peer can still read was sent through an established connection. *)
OnlyThroughTheTunnel == \A x \in Peers : toPeer[x] # <<>> => TunnelState # "closed"

(* What handle_connection and handle_read of connection.cpp keep together. *)
IInv ==
  /\ TypeOK
  /\ Mutex
  /\ Phases
  /\ Endings
  /\ Pipeline
  /\ EndOfFile
  /\ ClosedForAReason
  /\ OnlyThroughTheTunnel
  /\ RelayedInOrder
  /\ SizeIsExact
=============================================================================
