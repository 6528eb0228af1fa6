---------------------------- MODULE ServerInvariant ----------------------------
(***************************************************************************)
(* An inductive invariant of Server: how many handlers run (Threads), how  *)
(* far the shutdown came (Ordered), and which connections may still read   *)
(* (Connections).                                                          *)
(***************************************************************************)
EXTENDS Server

(* A handler runs on a worker of its own. *)
Threads == IsFiniteSet(Busy) /\ Cardinality(Busy) <= workers

(* The logger is closed after the workers were joined, and none is started then. *)
Ordered ==
  /\ main \in {"closing", "returned", "destroying"} => workers = 0
  /\ log # "open" => main \in {"returned", "destroying", "exited"} /\ workers = 0

(* The client handle_accept serves is not connected to a server yet. *)
Serving ==
  main \in {"endpoint", "reading", "creating", "connecting"}
    => current \in Clients /\ stage[current] = "accepted"

(***************************************************************************)
(* Only tunnels have handlers; one that writes holds the mutex, and the    *)
(* sockets are open; after they were closed no read is pending.            *)
(***************************************************************************)
Connections ==
  \A c \in Clients :
    /\ c \in shut => stage[c] = "tunnel"
    /\ \A d \in Directions :
         /\ handler[c][d] # "none" => stage[c] = "tunnel"
         /\ handler[c][d] = "writing" => lock[c] = d /\ c \notin shut
         /\ c \in shut => handler[c][d] # "armed"

(* What server.cpp, main.cpp and the handlers keep together. *)
IInv == TypeOK /\ Threads /\ Ordered /\ Serving /\ Connections
=============================================================================
