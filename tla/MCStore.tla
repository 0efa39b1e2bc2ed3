------------------------------ MODULE MCStore ------------------------------
(* Instances of FileStore and StoreFeed for TLC. *)
EXTENDS StoreFeed, TLC

CONSTANTS p1, p2, m1, m2, m3

Three == (m1 :> p1) @@ (m2 :> p1) @@ (m3 :> p2)
=============================================================================
