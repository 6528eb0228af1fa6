----------------------------- MODULE MCLoadBalancer -----------------------------
(***************************************************************************)
(* LoadBalancer for TLC.                                                   *)
(***************************************************************************)
EXTENDS LoadBalancerInvariant

(* One known size and a withheld one. *)
OneSize == {-1, 1}

(* Two known sizes, so that get_smallest_request has a choice. *)
TwoSizes == {-1, 1, 2}
=============================================================================
