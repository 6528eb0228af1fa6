--------------------------------- MODULE Tunnel ---------------------------------
(***************************************************************************)
(* What a proxied connection of https_proxy promises, without buffers,     *)
(* threads, locks and sockets: two independent FIFO relays between a       *)
(* client and a server.  Each peer is given, in order and without gaps,    *)
(* what the other sends; while the tunnel is up, all of it.  A tunnel      *)
(* comes up at most once, and once it is down it stays down.               *)
(***************************************************************************)
EXTENDS Naturals, Sequences

CONSTANTS
  Peers,         (* two of them                                             *)
  Opposite(_)    (* the other peer                                          *)

VARIABLES
  state,         (* "closed", "up" or "down"                                *)
  sent,          (* number of chunks each peer has sent, numbered from 1    *)
  received       (* chunks each peer has been given                         *)

vars == <<state, sent, received>>

Init ==
  /\ state = "closed"
  /\ sent = [x \in Peers |-> 0]
  /\ received = [x \in Peers |-> <<>>]

Establish == state = "closed" /\ state' = "up" /\ UNCHANGED <<sent, received>>

Leave == state # "down" /\ state' = "down" /\ UNCHANGED <<sent, received>>

Send(x) ==
  /\ sent' = [sent EXCEPT ![x] = @ + 1]
  /\ UNCHANGED <<state, received>>

(* Also while the tunnel goes down: what was on its way may still arrive. *)
Deliver(x) ==
  /\ state # "closed"
  /\ Len(received[x]) < sent[Opposite(x)]
  /\ received' = [received EXCEPT ![x] = Append(@, Len(@) + 1)]
  /\ UNCHANGED <<state, sent>>

Next == Establish \/ Leave \/ \E x \in Peers : Send(x) \/ Deliver(x)

SafeSpec == Init /\ [][Next]_vars

Spec == SafeSpec /\ \A x \in Peers : WF_vars(state = "up" /\ Deliver(x))
=============================================================================
