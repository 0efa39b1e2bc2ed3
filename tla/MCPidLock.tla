------------------------------ MODULE MCPidLock ------------------------------
(* Instances of PidLock for TLC. *)
EXTENDS PidLock, TLC

CONSTANTS a1, a2, a3, main, daemon, successor, session, service

\* Two processes, and a third that goes by the owner of the first once that is dead.
Procs  == (a1 :> main) @@ (a2 :> daemon) @@ (a3 :> successor)
Owners == (a1 :> session) @@ (a2 :> service) @@ (a3 :> session)

\* Two processes, each under an owner of its own.
TwoProcs  == (a1 :> main) @@ (a2 :> daemon)
TwoOwners == (a1 :> session) @@ (a2 :> service)
==============================================================================
