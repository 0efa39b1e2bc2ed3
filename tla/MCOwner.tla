------------------------------ MODULE MCOwner ------------------------------
(* Instances of OwnerPersistence for TLC. *)
EXTENDS OwnerPersistence

CONSTANTS c1, c2
=============================================================================
