------------------------------ MODULE MCConnection ------------------------------
(***************************************************************************)
(* Connection and its inductive invariant for TLC: the bounds are given in *)
(* the configurations.                                                     *)
(***************************************************************************)
EXTENDS ConnectionInvariant
=============================================================================
