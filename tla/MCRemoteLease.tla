--------------------------- MODULE MCRemoteLease ---------------------------
(* Values for the constants of RemoteLease. *)
EXTENDS RemoteLease, TLC

CONSTANTS w1, w2

AllCapable == [w \in Worker |-> Job]

MCSymmetry == Permutations(Worker)
=============================================================================
