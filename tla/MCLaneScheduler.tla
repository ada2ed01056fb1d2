-------------------------- MODULE MCLaneScheduler --------------------------
(* Values for the constants of LaneScheduler. *)
EXTENDS LaneScheduler, TLC

MCSymmetry == Permutations(Token) \cup Permutations(Pid)
=============================================================================
