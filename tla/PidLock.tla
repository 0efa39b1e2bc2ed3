------------------------------- MODULE PidLock -------------------------------
(***************************************************************************)
(* The lock file of substrate/pidLock.ts: the daemon lock, the desktop     *)
(* claim, task lists and transcript writers are guarded by a file that     *)
(* names its holder, and whose record may be taken over once the holder's  *)
(* process is dead.                                                        *)
(*                                                                         *)
(* An actor is one caller in one process; between two of its steps every   *)
(* other actor may act on the file.  A record's `at` tells acquisitions    *)
(* apart (acquiredAt), `stamp` the versions that restampPidLock writes.    *)
(***************************************************************************)
EXTENDS Integers, FiniteSets

CONSTANTS
  Actor, Proc, Owner,
  ProcOf, OwnerOf,   \* an actor's process and the owner identity it claims under
  Absent, Junk,      \* no file; a file that does not parse
  MaxClaims,         \* bound: calls of acquirePidLock
  MaxCrashes,        \* bound: process deaths
  MaxFaults          \* bound: failing links, renames and unlinks

ASSUME PidLockAssumption ==
  /\ ProcOf \in [Actor -> Proc] /\ OwnerOf \in [Actor -> Owner]
  /\ {MaxClaims, MaxCrashes, MaxFaults} \subseteq Nat

Record == [owner : Owner, pid : Proc, at : 1 .. MaxClaims, stamp : {0, 1}]

ASSUME FileAssumption == Absent # Junk /\ {Absent, Junk} \cap Record = {}

VARIABLES
  lock,      \* what is at the path
  act,       \* the actors
  alive,     \* the processes that run
  claims, crashes, faults,
  outdated   \* history: has a step replaced or removed another record than the one it read

vars == <<lock, act, alive, claims, crashes, faults, outdated>>

PC == {"idle", "claim", "read", "adopt", "judge", "raw", "confirm", "reclaim", "reread",
       "held", "stamp", "stamped", "stampread", "release", "unlink",
       "probejudge", "proberaw", "probeconfirm", "take", "putback"}

Probing == {"probejudge", "proberaw", "probeconfirm", "take", "putback"}

File == Record \cup {Absent, Junk}

ActorState == [pc : PC, attempt : {1, 2}, payload : Record \cup {Absent},
               seen : File, judged : File, taken : File]

Idle == [pc |-> "idle", attempt |-> 1, payload |-> Absent,
         seen |-> Absent, judged |-> Absent, taken |-> Absent]

Mine(a, file) == file \in Record /\ file.owner = OwnerOf[a]

\* HolderAlive as it would be if an unreadable record was nobody's to reclaim, and
\* if a restamp wrote another start token than the holder's.
HolderAliveOrJunk(file)    == file = Junk \/ (file \in Record /\ file.pid \in alive)
HolderAliveUnstamped(file) == file \in Record /\ file.pid \in alive /\ file.stamp = 0

\* holderAlive: the start token beside the pid makes a recycled pid a dead one.
HolderAlive(file) == file \in Record /\ file.pid \in alive

Goto(a, pc) == act' = [act EXCEPT ![a].pc = pc]
Return(a)   == act' = [act EXCEPT ![a] = Idle]
Fault       == faults < MaxFaults /\ faults' = faults + 1

\* Again as it would be if it did not count.
AgainForever(a) == act' = [act EXCEPT ![a].pc = "claim", ![a].attempt = @ + 1]

\* A second attempt, or not held.
Again(a) == act' = [act EXCEPT ![a] = IF @.attempt = 1
                                      THEN [Idle EXCEPT !.pc = "claim", !.attempt = 2,
                                                        !.payload = act[a].payload]
                                      ELSE Idle]

\* Put content at the path: outdated if it replaces another record than `seen`.
Put(a, content) ==
  /\ lock' = content
  /\ outdated' = (outdated \/ lock # act[a].seen)

------------------------------------------------------------------------------
(* acquirePidLock *)

\* An owner identity is minted for one acquisition or one process: nobody else is
\* using it, though a predecessor that died or failed to unlink may have.
Start(a) ==
  /\ act[a].pc = "idle" /\ ProcOf[a] \in alive
  /\ \A b \in Actor \ {a} : OwnerOf[b] = OwnerOf[a] => act[b].pc \in {"idle"} \cup Probing
  /\ claims < MaxClaims /\ claims' = claims + 1
  /\ act' = [act EXCEPT ![a] = [Idle EXCEPT
       !.pc = "claim",
       !.payload = [owner |-> OwnerOf[a], pid |-> ProcOf[a], at |-> claims', stamp |-> 0]]]
  /\ UNCHANGED <<lock, alive, crashes, faults, outdated>>

\* claimLockAtomically: a link that fails when the path exists.
Claim(a) ==
  /\ act[a].pc = "claim"
  /\ \/ lock = Absent /\ lock' = act[a].payload /\ Goto(a, "held") /\ UNCHANGED faults
     \/ lock # Absent /\ Goto(a, "read") /\ UNCHANGED <<lock, faults>>
     \/ Fault /\ Return(a) /\ UNCHANGED lock
  /\ UNCHANGED <<alive, claims, crashes, outdated>>

Read(a) ==
  /\ act[a].pc = "read"
  /\ act' = [act EXCEPT ![a].seen = lock,
                        ![a].pc = IF ~Mine(a, lock) THEN "judge"
                                  ELSE IF lock.pid = ProcOf[a] THEN "held" ELSE "adopt"]
  /\ UNCHANGED <<lock, alive, claims, crashes, faults, outdated>>

\* A record of the same owner under another pid is stamped over.
Adopt(a) ==
  /\ act[a].pc = "adopt"
  /\ \/ Put(a, act[a].payload) /\ Goto(a, "held") /\ UNCHANGED faults
     \/ Fault /\ Return(a) /\ UNCHANGED <<lock, outdated>>
  /\ UNCHANGED <<alive, claims, crashes>>

Judge(a) ==
  /\ act[a].pc = "judge"
  /\ IF HolderAlive(act[a].seen) THEN Return(a) ELSE Goto(a, "raw")
  /\ UNCHANGED <<lock, alive, claims, crashes, faults, outdated>>

\* The record that is to be found unchanged is read after the holder was judged.
Raw(a) ==
  /\ act[a].pc = "raw"
  /\ IF lock = Absent THEN Again(a)
     ELSE act' = [act EXCEPT ![a].judged = lock, ![a].pc = "confirm"]
  /\ UNCHANGED <<lock, alive, claims, crashes, faults, outdated>>

\* After REAP_CONFIRM_MS.
Confirm(a) ==
  /\ act[a].pc = "confirm"
  /\ IF lock # act[a].judged THEN Again(a) ELSE Goto(a, "reclaim")
  /\ UNCHANGED <<lock, alive, claims, crashes, faults, outdated>>

Reclaim(a) ==
  /\ act[a].pc = "reclaim"
  /\ \/ Put(a, act[a].payload) /\ Goto(a, "reread") /\ UNCHANGED faults
     \/ Fault /\ Return(a) /\ UNCHANGED <<lock, outdated>>
  /\ UNCHANGED <<alive, claims, crashes>>

Reread(a) ==
  /\ act[a].pc = "reread"
  /\ IF lock = act[a].payload THEN Goto(a, "held") ELSE Again(a)
  /\ UNCHANGED <<lock, alive, claims, crashes, faults, outdated>>

------------------------------------------------------------------------------
(* restampPidLock: when it returns false its caller gives the claim up *)

Restamp(a) ==
  /\ act[a].pc = "held"
  /\ act' = [act EXCEPT ![a].seen = lock,
                        ![a].pc = IF Mine(a, lock) /\ lock.pid = ProcOf[a]
                                  THEN "stamp" ELSE "release"]
  /\ UNCHANGED <<lock, alive, claims, crashes, faults, outdated>>

Stamp(a) ==
  /\ act[a].pc = "stamp"
  /\ Goto(a, IF lock = act[a].seen THEN "stamped" ELSE "release")
  /\ UNCHANGED <<lock, alive, claims, crashes, faults, outdated>>

StampRename(a) ==
  LET new == [act[a].seen EXCEPT !.stamp = 1 - @]
  IN  /\ act[a].pc = "stamped"
      /\ \/ /\ Put(a, new)
            /\ act' = [act EXCEPT ![a].pc = "stampread", ![a].payload = new]
            /\ UNCHANGED faults
         \/ Fault /\ Goto(a, "release") /\ UNCHANGED <<lock, outdated>>
      /\ UNCHANGED <<alive, claims, crashes>>

StampRead(a) ==
  /\ act[a].pc = "stampread"
  /\ Goto(a, IF lock = act[a].payload THEN "held" ELSE "release")
  /\ UNCHANGED <<lock, alive, claims, crashes, faults, outdated>>

------------------------------------------------------------------------------
(* releasePidLock *)

Release(a) ==
  /\ act[a].pc \in {"held", "release"}
  /\ IF Mine(a, lock) THEN act' = [act EXCEPT ![a].seen = lock, ![a].pc = "unlink"]
     ELSE Return(a)
  /\ UNCHANGED <<lock, alive, claims, crashes, faults, outdated>>

\* The path is unlinked whatever is there by now; a failure leaves the record behind.
Unlink(a) ==
  /\ act[a].pc = "unlink"
  /\ Return(a)
  /\ \/ Put(a, Absent) /\ UNCHANGED faults
     \/ Fault /\ UNCHANGED <<lock, outdated>>
  /\ UNCHANGED <<alive, claims, crashes>>

------------------------------------------------------------------------------
(* probePidLock with reclaimStale: a dead holder's record is moved aside *)

Probe(a) ==
  /\ act[a].pc = "idle" /\ ProcOf[a] \in alive
  /\ lock \in Record
  /\ act' = [act EXCEPT ![a].seen = lock, ![a].pc = "probejudge"]
  /\ UNCHANGED <<lock, alive, claims, crashes, faults, outdated>>

ProbeJudge(a) ==
  /\ act[a].pc = "probejudge"
  /\ IF HolderAlive(act[a].seen) THEN Return(a) ELSE Goto(a, "proberaw")
  /\ UNCHANGED <<lock, alive, claims, crashes, faults, outdated>>

ProbeRaw(a) ==
  /\ act[a].pc = "proberaw"
  /\ IF lock = Absent THEN Return(a)
     ELSE act' = [act EXCEPT ![a].judged = lock, ![a].pc = "probeconfirm"]
  /\ UNCHANGED <<lock, alive, claims, crashes, faults, outdated>>

ProbeConfirm(a) ==
  /\ act[a].pc = "probeconfirm"
  /\ IF lock # act[a].judged THEN Return(a) ELSE Goto(a, "take")
  /\ UNCHANGED <<lock, alive, claims, crashes, faults, outdated>>

Take(a) ==
  /\ act[a].pc = "take"
  /\ \/ /\ lock # Absent
        /\ Put(a, Absent)
        /\ act' = [act EXCEPT ![a].pc = "putback", ![a].taken = lock]
        /\ UNCHANGED faults
     \/ lock = Absent /\ Return(a) /\ UNCHANGED <<lock, outdated, faults>>
     \/ Fault /\ Return(a) /\ UNCHANGED <<lock, outdated>>
  /\ UNCHANGED <<alive, claims, crashes>>

\* If what was moved has a live holder after all it is linked back, unless the
\* path was claimed meanwhile.
PutBack(a) ==
  /\ act[a].pc = "putback"
  /\ lock' = IF HolderAlive(act[a].taken) /\ lock = Absent THEN act[a].taken ELSE lock
  /\ Return(a)
  /\ UNCHANGED <<alive, claims, crashes, faults, outdated>>

------------------------------------------------------------------------------
Crash(p) ==
  /\ p \in alive
  /\ crashes < MaxCrashes /\ crashes' = crashes + 1
  /\ alive' = alive \ {p}
  /\ act' = [a \in Actor |-> IF ProcOf[a] = p THEN Idle ELSE act[a]]
  /\ UNCHANGED <<lock, claims, faults, outdated>>

Init ==
  /\ lock \in {Absent, Junk}
  /\ act = [a \in Actor |-> Idle]
  /\ alive = Proc
  /\ claims = 0 /\ crashes = 0 /\ faults = 0
  /\ outdated = FALSE

\* An operation under way goes on by itself; how long a lock is held is open.
Step(a) ==
  \/ Claim(a) \/ Read(a) \/ Adopt(a) \/ Judge(a) \/ Raw(a) \/ Confirm(a) \/ Reclaim(a)
  \/ Reread(a) \/ Stamp(a) \/ StampRename(a) \/ StampRead(a) \/ Unlink(a)
  \/ ProbeJudge(a) \/ ProbeRaw(a) \/ ProbeConfirm(a) \/ Take(a) \/ PutBack(a)

Next ==
  \/ \E a \in Actor : Start(a) \/ Step(a) \/ Restamp(a) \/ Release(a) \/ Probe(a)
  \/ \E p \in Proc : Crash(p)

Spec == Init /\ [][Next]_vars

FairSpec == Spec /\ \A a \in Actor : WF_vars(Step(a))

------------------------------------------------------------------------------
(* Properties *)

TypeOK ==
  /\ lock \in File
  /\ act \in [Actor -> ActorState]
  /\ alive \subseteq Proc
  /\ claims \in 0 .. MaxClaims /\ crashes \in 0 .. MaxCrashes /\ faults \in 0 .. MaxFaults
  /\ outdated \in BOOLEAN

Holding == {"held", "stamp", "stamped", "stampread"}

\* Two callers never both hold the lock, as long as no step has acted on a read
\* that was out of date: the link, the takeover of dead records, the restamp, the
\* release and the probe leave no other way in.
ExclusiveUnlessOutdated ==
  ~outdated => \A a, b \in Actor : act[a].pc \in Holding /\ act[b].pc \in Holding => a = b

\* The record of a caller that holds the lock is never replaced or removed by a
\* process other than its own: a live holder is never stolen from.
NeverStolen ==
  [][\A a \in Actor :
       /\ act[a].pc \in Holding /\ lock \in Record
       /\ lock.owner = OwnerOf[a] /\ lock.pid = ProcOf[a] /\ lock' # lock
       => \/ ProcOf[a] \notin alive'
          \/ \E b \in Actor : ProcOf[b] = ProcOf[a] /\ act'[b] # act[b]]_vars

\* A record nobody stands behind, of a dead process or not even readable, does not
\* outlast a call of acquirePidLock that meets it, unless that caller dies or its
\* file operations fail.
Stale == lock = Junk \/ (lock \in Record /\ lock.pid \notin alive)

StaleGivesWay ==
  \A a \in Actor : act[a].pc = "claim" /\ Stale ~> ~Stale \/ ProcOf[a] \notin alive \/ faults > 0
=============================================================================
