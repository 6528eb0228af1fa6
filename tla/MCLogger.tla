-------------------------------- MODULE MCLogger --------------------------------
(***************************************************************************)
(* Logger for TLC: the threads are given in the configurations.            *)
(***************************************************************************)
EXTENDS Logger
=============================================================================
