---------------------------- MODULE MCRetirement ----------------------------
(* Instances of RunnerRetirement for TLC: the bounds are in the .cfg files. *)
EXTENDS RunnerRetirement
=============================================================================
