----------------------------- MODULE MCJobScheduler -----------------------------
(***************************************************************************)
(* JobScheduler for TLC: its sizes are given in the configurations.        *)
(***************************************************************************)
EXTENDS JobSchedulerDelivery

(* Bound: lines that are handled after the buffer or a text was spoiled,   *)
(* when nothing is claimed of completions any more.                        *)
FewLinesAfterwards == spoiled => Len(handled) <= 3
=============================================================================
