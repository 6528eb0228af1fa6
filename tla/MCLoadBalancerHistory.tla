------------------------- MODULE MCLoadBalancerHistory -------------------------
(***************************************************************************)
(* LoadBalancerHistory for TLC.                                            *)
(***************************************************************************)
EXTENDS LoadBalancerHistory

OneSize == {-1, 1}
=============================================================================
