----------------------------- MODULE KeptStore -----------------------------
(***************************************************************************)
(* What a store promises its callers: a mutation is taken in once, with    *)
(* the others of its batch, the caller is told so only after that, and no  *)
(* later mutation undoes it.                                               *)
(***************************************************************************)
CONSTANT Mutation

VARIABLES
  kept,  \* the mutations the store has taken in
  told   \* those whose callers have been told so

vars == <<kept, told>>

Init == kept = {} /\ told = {}

Keep(batch) ==
  /\ batch # {} /\ batch \cap kept = {}
  /\ kept' = kept \cup batch
  /\ UNCHANGED told

Tell(batch) ==
  /\ batch \subseteq kept
  /\ told' = told \cup batch
  /\ UNCHANGED kept

Next == \E batch \in SUBSET Mutation : Keep(batch) \/ Tell(batch)

Spec == Init /\ [][Next]_vars
=============================================================================
