------------------------------ MODULE LineDelivery ------------------------------
(***************************************************************************)
(* What the receive loop of load_balancer/jobScheduler.cpp promises to the *)
(* LoadBalancer: every line of the stream is handled, once, in the order   *)
(* of the stream, as if there were no buffer between them.                 *)
(***************************************************************************)
EXTENDS Naturals, Sequences

CONSTANT Lines

VARIABLES
  sent,      (* lines written to the stream          *)
  handled    (* lines given to the LoadBalancer      *)

vars == <<sent, handled>>

Init == sent = <<>> /\ handled = <<>>

Send ==
  /\ \E line \in Lines : sent' = Append(sent, line)
  /\ UNCHANGED handled

Handle ==
  /\ Len(handled) < Len(sent)
  /\ handled' = Append(handled, sent[Len(handled) + 1])
  /\ UNCHANGED sent

Next == Send \/ Handle

SafeSpec == Init /\ [][Next]_vars

Spec == SafeSpec /\ WF_vars(Handle)
=============================================================================
