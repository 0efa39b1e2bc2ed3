---------------------------- MODULE AtomicChange ----------------------------
(***************************************************************************)
(* What a change set promises (docs/CHANGE-TRANSACTIONS.md, "The commit    *)
(* guarantee"): all of its targets change at one instant, from the bytes   *)
(* the plan was made from to the planned bytes, or none of them ever does. *)
(* What has changed so is kept, unless something failed before it was      *)
(* reported: then all targets may be taken back, at one instant too.       *)
(***************************************************************************)
EXTENDS Integers

CONSTANTS File, Plan, Op, InitDisk

VARIABLES
  world,   \* the bytes of every file
  effect,  \* what has become of each operation
  failed   \* has a write, a restore or a publication failed

vars == <<world, effect, failed>>

Init == world = InitDisk /\ effect = [r \in Op |-> "none"] /\ failed = FALSE

\* An operation is announced.
Offer(r) ==
  /\ effect[r] = "none"
  /\ effect' = [effect EXCEPT ![r] = "open"]
  /\ UNCHANGED world

\* All targets of a plan at once, and only from the bytes it was planned from.
Land(r, p) ==
  /\ effect[r] = "open"
  /\ \A f \in DOMAIN p : world[f] = p[f].from
  /\ world' = [f \in File |-> IF f \in DOMAIN p THEN p[f].to ELSE world[f]]
  /\ effect' = [effect EXCEPT ![r] = "landed"]

\* Behind a failure only, and never of what was kept: all of them back at once.
TakeBack(r, p) ==
  /\ failed /\ effect[r] = "landed"
  /\ \A f \in DOMAIN p : world[f] = p[f].to
  /\ world' = [f \in File |-> IF f \in DOMAIN p THEN p[f].from ELSE world[f]]
  /\ effect' = [effect EXCEPT ![r] = "open"]

Keep(r) ==
  /\ effect[r] = "landed"
  /\ effect' = [effect EXCEPT ![r] = "kept"]
  /\ UNCHANGED world

Drop(r) ==
  /\ effect[r] = "open"
  /\ effect' = [effect EXCEPT ![r] = "dropped"]
  /\ UNCHANGED world

\* What is settled may be forgotten: nobody can tell any more what became of it.
Forget(S) ==
  /\ \A r \in S : effect[r] \in {"kept", "dropped"}
  /\ effect' = [r \in Op |-> IF r \in S THEN "forgotten" ELSE effect[r]]
  /\ UNCHANGED world

Next ==
  /\ \/ \E r \in Op : Offer(r) \/ Keep(r) \/ Drop(r) \/ \E p \in Plan : Land(r, p) \/ TakeBack(r, p)
     \/ \E S \in SUBSET Op : Forget(S)
  /\ failed' \in {failed, TRUE}

Spec == Init /\ [][Next]_vars
=============================================================================
