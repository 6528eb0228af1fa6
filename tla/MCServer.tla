-------------------------------- MODULE MCServer --------------------------------
(***************************************************************************)
(* Server for TLC: the clients are given in the configurations.            *)
(***************************************************************************)
EXTENDS ServerInvariant

(* An empty line and one that a host may contain. *)
TwoLines == << <<>>, <<"a">> >>

(* Neither end of the tunnel of a client that is not hasty reads. *)
BothWays == (Clients \ Hasty) \X {"up", "down"}
=============================================================================
