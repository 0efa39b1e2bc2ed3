---------------------------- MODULE SessionLife ----------------------------
(***************************************************************************)
(* What parking a session promises, whoever carries it out: an intent is   *)
(* on record before the runner may commit to leaving, a runner that has    *)
(* committed is not called back, and the intent of a runner that has left  *)
(* ends in a parked record, or in a new runner for the session.  An order  *)
(* to park needs no intent.                                                *)
(***************************************************************************)
VARIABLES
  alive,      \* the session's runner lives
  intended,   \* the record says that the session is to be parked
  committed,  \* the runner has agreed to leave
  parked      \* the record says parked

vars == <<alive, intended, committed, parked>>

Init == alive = TRUE /\ intended = FALSE /\ committed = FALSE /\ parked = FALSE

Intend ==
  /\ alive /\ ~intended /\ ~committed
  /\ intended' = TRUE
  /\ UNCHANGED <<alive, committed, parked>>

Withdraw ==
  /\ intended /\ ~committed
  /\ intended' = FALSE
  /\ UNCHANGED <<alive, committed, parked>>

Commit ==
  /\ alive /\ intended /\ ~committed
  /\ committed' = TRUE
  /\ UNCHANGED <<alive, intended, parked>>

Leave ==
  /\ alive
  /\ alive' = FALSE
  /\ UNCHANGED <<intended, committed, parked>>

\* The intent of a runner that is gone becomes the park.
Land ==
  /\ ~alive /\ intended
  /\ parked' = TRUE /\ intended' = FALSE /\ committed' = FALSE
  /\ UNCHANGED alive

\* The session is parked by order, whatever its runner has agreed to.
Dismiss ==
  /\ ~parked
  /\ parked' = TRUE /\ intended' = FALSE /\ committed' = FALSE
  /\ UNCHANGED alive

\* A new runner may find the intent of the one before it still on the record, or the
\* record parked.
Revive ==
  /\ ~alive
  /\ alive' = TRUE /\ committed' = FALSE
  /\ {intended', parked'} \subseteq BOOLEAN
  /\ intended' => ~parked'

Next == Intend \/ Withdraw \/ Commit \/ Leave \/ Land \/ Dismiss \/ Revive

Spec == Init /\ [][Next]_vars /\ WF_vars(Land)
=============================================================================
