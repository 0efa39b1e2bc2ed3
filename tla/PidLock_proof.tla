---------------------------- MODULE PidLock_proof ----------------------------
(***************************************************************************)
(* Proofs about the pid lock, for any actors, processes, owners and bounds.*)
(***************************************************************************)
EXTENDS PidLock, TLAPS

Acquiring == {"claim", "read", "adopt", "judge", "raw", "confirm", "reclaim", "reread"}
Doomed    == {"raw", "confirm", "reclaim", "proberaw", "probeconfirm", "take"}

Names(a, file) == file \in Record /\ file.owner = OwnerOf[a] /\ file.pid = ProcOf[a]

\* The parts of the inductive invariant.
DeadStop == \A a \in Actor : ProcOf[a] \notin alive => act[a].pc = "idle"

OwnersApart ==
  \A a, b \in Actor :
    a # b /\ OwnerOf[a] = OwnerOf[b] /\ act[a].pc \notin {"idle"} \cup Probing
    => act[b].pc \in {"idle"} \cup Probing

Payloads ==
  \A a \in Actor : act[a].pc \in Acquiring \cup {"stampread"} => Names(a, act[a].payload)

\* What an actor read, and is about to act on.
JudgedDead == \A a \in Actor : act[a].pc \in Doomed => ~HolderAlive(act[a].seen)

SeenOwn ==
  \A a \in Actor : /\ act[a].pc \in {"stamp", "stamped"} => Names(a, act[a].seen)
                   /\ act[a].pc \in {"adopt", "unlink"} => Mine(a, act[a].seen)

HoldersNamed ==
  ~outdated => \A a \in Actor : act[a].pc \in Holding => Names(a, lock)

IInv == TypeOK /\ DeadStop /\ OwnersApart /\ Payloads /\ JudgedDead /\ SeenOwn /\ HoldersNamed
------------------------------------------------------------------------------
(* Steps of one actor in general *)

\* TypeOK without the actors.
RestTyped ==
  /\ lock \in File
  /\ alive \subseteq Proc
  /\ claims \in 0 .. MaxClaims /\ crashes \in 0 .. MaxCrashes /\ faults \in 0 .. MaxFaults
  /\ outdated \in BOOLEAN

\* What actor a's record may be, given the processes that run.
Sound(a, s) ==
  /\ s \in ActorState
  /\ s.pc \in Acquiring \cup {"stampread"} => Names(a, s.payload)
  /\ s.pc \in Doomed => ~HolderAlive(s.seen)
  /\ s.pc \in {"stamp", "stamped"} => Names(a, s.seen)
  /\ s.pc \in {"adopt", "unlink"} => Mine(a, s.seen)

\* No other actor runs under the owner of a.
Alone(a) == \A b \in Actor : b # a /\ OwnerOf[b] = OwnerOf[a]
                              => act[b].pc \in {"idle"} \cup Probing

LEMMA Local ==
  ASSUME IInv, NEW a \in Actor
  PROVE  /\ act \in [Actor -> ActorState] /\ Sound(a, act[a]) /\ RestTyped
         /\ act[a].pc # "idle" => ProcOf[a] \in alive
         /\ act[a].pc \notin {"idle"} \cup Probing => Alone(a)
BY DEF IInv, TypeOK, RestTyped, Sound, Alone, DeadStop, OwnersApart, Payloads, JudgedDead, SeenOwn

\* A step that turns actor a's record into s keeps IInv, if s is sound, the owner is
\* a's alone, and the lock changes only under nobody else's hold.
LEMMA ActorStep ==
  ASSUME IInv, RestTyped', alive' = alive,
         NEW a \in Actor, ProcOf[a] \in alive,
         NEW s, Sound(a, s), act' = [act EXCEPT ![a] = s],
         s.pc \notin {"idle"} \cup Probing => Alone(a),
         ~outdated' => /\ ~outdated
                       /\ s.pc \in Holding => Names(a, lock')
                       /\ \/ lock' = lock
                          \/ \A b \in Actor : b # a => act[b].pc \notin Holding
  PROVE  IInv'
<1>1. act' \in [Actor -> ActorState] /\ act'[a] = s
      /\ \A b \in Actor : b # a => act'[b] = act[b]
  BY DEF IInv, TypeOK, Sound
<1>2. TypeOK'
  BY <1>1 DEF TypeOK, RestTyped
<1>3. DeadStop'
  BY <1>1 DEF IInv, DeadStop
<1>4. OwnersApart'
  <2> SUFFICES ASSUME NEW b \in Actor, NEW c \in Actor, b # c, OwnerOf[b] = OwnerOf[c],
                      act'[b].pc \notin {"idle"} \cup Probing
               PROVE  act'[c].pc \in {"idle"} \cup Probing
    BY DEF OwnersApart
  <2>1. CASE b = a
    BY <2>1, <1>1 DEF Alone
  <2>2. CASE c = a
    BY <2>2, <1>1 DEF Alone
  <2>3. CASE b # a /\ c # a
    BY <2>3, <1>1 DEF IInv, OwnersApart
  <2> QED BY <2>1, <2>2, <2>3
<1>5. Payloads' /\ JudgedDead' /\ SeenOwn'
  <2>1. \A b \in Actor : Sound(b, act'[b])
    BY <1>1, Local
  <2> QED BY <2>1 DEF Sound, Payloads, JudgedDead, SeenOwn, HolderAlive, Names, Mine
<1>6. HoldersNamed'
  BY <1>1 DEF IInv, HoldersNamed
<1> QED BY <1>2, <1>3, <1>4, <1>5, <1>6 DEF IInv

\* The same for a step that leaves the lock alone and does not enter the hold.
LEMMA QuietStep ==
  ASSUME IInv, RestTyped', alive' = alive, lock' = lock, outdated' = outdated,
         NEW a \in Actor, ProcOf[a] \in alive,
         NEW s, Sound(a, s), act' = [act EXCEPT ![a] = s],
         s.pc \notin {"idle"} \cup Probing => Alone(a),
         s.pc \in Holding => act[a].pc \in Holding \/ Names(a, lock)
  PROVE  IInv'
<1>1. ~outdated => (s.pc \in Holding => Names(a, lock))
  BY DEF IInv, HoldersNamed
<1>2. ~outdated' => /\ ~outdated
                    /\ s.pc \in Holding => Names(a, lock')
                    /\ \/ lock' = lock
                       \/ \A b \in Actor : b # a => act[b].pc \notin Holding
  BY <1>1 DEF Names
<1> QED BY <1>2, ActorStep

\* The record an actor returns with.
LEMMA Returned ==
  ASSUME NEW a \in Actor
  PROVE  Sound(a, Idle) /\ Idle.pc = "idle" /\ Idle.pc \notin Holding
BY DEF Sound, Idle, ActorState, PC, File, Acquiring, Doomed, Holding

LEMMA ReturnQuiet ==
  ASSUME IInv, RestTyped', alive' = alive, lock' = lock, outdated' = outdated,
         NEW a \in Actor, ProcOf[a] \in alive, Return(a)
  PROVE  IInv'
BY Returned, QuietStep DEF Return

\* A step of an operation under way that only moves on.
LEMMA GotoQuiet ==
  ASSUME IInv, RestTyped', alive' = alive, lock' = lock, outdated' = outdated,
         NEW a \in Actor, NEW q \in PC, Goto(a, q), act[a].pc # "idle",
         q \in Probing \/ act[a].pc \notin Probing,
         q \in Acquiring \cup {"stampread"} =>
           act[a].pc \in Acquiring \cup {"stampread"} \/ Names(a, act[a].payload),
         q \in Doomed => act[a].pc \in Doomed \/ ~HolderAlive(act[a].seen),
         q \in {"stamp", "stamped"} => act[a].pc \in {"stamp", "stamped"},
         q \notin {"adopt", "unlink"},
         q \in Holding => act[a].pc \in Holding \/ Names(a, lock)
  PROVE  IInv'
<1> DEFINE s == [act[a] EXCEPT !.pc = q]
<1>0. act[a] \in ActorState /\ Sound(a, act[a]) /\ ProcOf[a] \in alive
  BY Local DEF Sound
<1>1. /\ s \in ActorState /\ s.pc = q
      /\ s.payload = act[a].payload /\ s.seen = act[a].seen
  BY <1>0 DEF ActorState
<1>2. act' = [act EXCEPT ![a] = s]
  BY <1>0 DEF Goto
<1> HIDE DEF s
<1>3. Sound(a, s)
  BY <1>0, <1>1 DEF Sound
<1>4. s.pc \notin {"idle"} \cup Probing => Alone(a)
  BY <1>1, Local
<1> QED BY <1>0, <1>1, <1>2, <1>3, <1>4, QuietStep

\* A second attempt keeps the payload.
LEMMA AgainQuiet ==
  ASSUME IInv, RestTyped', alive' = alive, lock' = lock, outdated' = outdated,
         NEW a \in Actor, act[a].pc \in Acquiring, Again(a)
  PROVE  IInv'
<1> DEFINE s == IF act[a].attempt = 1
                THEN [Idle EXCEPT !.pc = "claim", !.attempt = 2, !.payload = act[a].payload]
                ELSE Idle
<1>0. act[a] \in ActorState /\ Sound(a, act[a]) /\ ProcOf[a] \in alive /\ Alone(a)
  BY Local DEF Sound, Acquiring, Probing
<1>1. Sound(a, s) /\ s.pc \notin Holding
  BY <1>0, Returned DEF Sound, Idle, ActorState, PC, File, Acquiring, Doomed, Holding
<1>2. act' = [act EXCEPT ![a] = s]
  BY <1>0 DEF Again
<1> HIDE DEF s
<1> QED BY <1>0, <1>1, <1>2, QuietStep

\* Nobody else holds the lock when its record is the actor's own, or of a dead
\* holder, or not there: the one place where the parts of IInv meet.
LEMMA NoOtherHolder ==
  ASSUME IInv, FileAssumption, ~outdated, NEW a \in Actor,
         \/ lock = Absent
         \/ act[a].pc \in {"adopt", "unlink", "stamped"} /\ lock = act[a].seen
         \/ act[a].pc \in {"reclaim", "take"} /\ lock = act[a].seen
  PROVE  \A b \in Actor : b # a => act[b].pc \notin Holding
<1> SUFFICES ASSUME NEW b \in Actor, b # a, act[b].pc \in Holding PROVE FALSE
  OBVIOUS
<1>1. Names(b, lock)
  BY DEF IInv, HoldersNamed
<1>2. ProcOf[b] \in alive
  BY DEF IInv, DeadStop, Holding
<1>3. Sound(a, act[a])
  BY Local
<1>4. CASE lock = Absent
  BY <1>1, <1>4 DEF Names, FileAssumption
<1>5. CASE act[a].pc \in {"adopt", "unlink", "stamped"} /\ lock = act[a].seen
  <2>1. OwnerOf[a] = OwnerOf[b]
    BY <1>1, <1>3, <1>5 DEF Sound, Names, Mine
  <2>2. Alone(a)
    BY <1>5, Local DEF Probing
  <2> QED BY <2>1, <2>2 DEF Alone, Holding, Probing
<1>6. CASE act[a].pc \in {"reclaim", "take"} /\ lock = act[a].seen
  <2>1. ~HolderAlive(lock)
    BY <1>3, <1>6 DEF Sound, Doomed
  <2> QED BY <2>1, <1>1, <1>2 DEF HolderAlive, Names
<1> QED BY <1>4, <1>5, <1>6

------------------------------------------------------------------------------
(* acquirePidLock *)

LEMMA StartStep == ASSUME IInv, PidLockAssumption, NEW a \in Actor, Start(a) PROVE IInv'
<1> DEFINE s == [Idle EXCEPT
             !.pc = "claim",
             !.payload = [owner |-> OwnerOf[a], pid |-> ProcOf[a], at |-> claims', stamp |-> 0]]
<1>1. RestTyped' /\ claims' \in 1 .. MaxClaims
  BY Local DEF RestTyped, Start, PidLockAssumption
<1>2. act' = [act EXCEPT ![a] = s] /\ Alone(a) /\ ProcOf[a] \in alive
  BY DEF Start, Alone
<1>3. s.payload \in Record /\ Names(a, s.payload) /\ s.pc = "claim" /\ s \in ActorState
  BY <1>1 DEF Record, Names, Idle, ActorState, PC, File, PidLockAssumption
<1> HIDE DEF s
<1>4. Sound(a, s)
  BY <1>3 DEF Sound, Doomed
<1> QED BY <1>1, <1>2, <1>3, <1>4, QuietStep DEF Start, Holding

LEMMA ClaimStep ==
  ASSUME IInv, PidLockAssumption, FileAssumption, NEW a \in Actor, Claim(a) PROVE IInv'
<1>0. /\ act[a] \in ActorState /\ Sound(a, act[a]) /\ RestTyped
      /\ ProcOf[a] \in alive /\ Alone(a) /\ alive' = alive /\ outdated' = outdated
  BY Local DEF Sound, Claim, Probing
<1>1. RestTyped'
  BY <1>0 DEF RestTyped, Claim, Fault, Goto, Return, File, Sound, Acquiring, Names, PidLockAssumption
<1>2. CASE lock = Absent /\ lock' = act[a].payload /\ Goto(a, "held")
  <2> DEFINE s == [act[a] EXCEPT !.pc = "held"]
  <2>1. s \in ActorState /\ s.pc = "held"
    BY <1>0 DEF ActorState, PC
  <2>2. Names(a, lock')
    BY <1>0, <1>2 DEF Sound, Claim, Acquiring
  <2>3. act' = [act EXCEPT ![a] = s]
    BY <1>2, <1>0 DEF Goto
  <2>4. ~outdated => \A b \in Actor : b # a => act[b].pc \notin Holding
    BY <1>2, NoOtherHolder
  <2> HIDE DEF s
  <2>5. Sound(a, s)
    BY <2>1 DEF Sound, Acquiring, Doomed
  <2> QED BY <1>0, <1>1, <2>1, <2>2, <2>3, <2>4, <2>5, ActorStep
<1>3. CASE lock # Absent /\ Goto(a, "read") /\ lock' = lock
  BY <1>0, <1>1, <1>3, GotoQuiet DEF Claim, PC, Acquiring, Doomed, Holding, Probing
<1>4. CASE Return(a) /\ lock' = lock
  BY <1>0, <1>1, <1>4, ReturnQuiet
<1> QED BY <1>2, <1>3, <1>4 DEF Claim

LEMMA ReadStep == ASSUME IInv, NEW a \in Actor, Read(a) PROVE IInv'
<1> DEFINE q == IF ~Mine(a, lock) THEN "judge"
                ELSE IF lock.pid = ProcOf[a] THEN "held" ELSE "adopt"
           s == [act[a] EXCEPT !.seen = lock, !.pc = q]
<1>0. /\ act[a] \in ActorState /\ Sound(a, act[a]) /\ RestTyped /\ RestTyped'
      /\ ProcOf[a] \in alive /\ Alone(a)
  BY Local DEF Sound, Read, RestTyped, Probing
<1>1. /\ s \in ActorState /\ s.pc = q /\ s.payload = act[a].payload /\ s.seen = lock
      /\ q \in {"judge", "held", "adopt"}
  BY <1>0 DEF ActorState, PC, RestTyped
<1>2. act' = [act EXCEPT ![a] = s]
  BY <1>0 DEF Read
<1>3. (q = "held" => Names(a, lock)) /\ (q = "adopt" => Mine(a, lock))
  BY DEF Mine, Names
<1> HIDE DEF s, q
<1>4. Sound(a, s)
  BY <1>0, <1>1, <1>3 DEF Sound, Doomed, Acquiring, Read
<1> QED BY <1>0, <1>1, <1>2, <1>3, <1>4, QuietStep DEF Read, Holding

\* A step that puts the actor's payload at the path and moves on to q.
LEMMA PutPayload ==
  ASSUME IInv, FileAssumption, RestTyped', alive' = alive,
         NEW a \in Actor, NEW q \in {"held", "reread"}, Goto(a, q),
         Put(a, act[a].payload), act[a].pc \in {"adopt", "reclaim"}
  PROVE  IInv'
<1> DEFINE s == [act[a] EXCEPT !.pc = q]
<1>0. /\ act[a] \in ActorState /\ Sound(a, act[a]) /\ ProcOf[a] \in alive /\ Alone(a)
      /\ Names(a, act[a].payload)
  BY Local DEF Sound, Acquiring, Probing
<1>1. s \in ActorState /\ s.pc = q /\ s.payload = act[a].payload /\ lock' = act[a].payload
  BY <1>0 DEF ActorState, PC, Put
<1>2. act' = [act EXCEPT ![a] = s]
  BY <1>0 DEF Goto
<1>3. ~outdated' => ~outdated /\ \A b \in Actor : b # a => act[b].pc \notin Holding
  BY NoOtherHolder DEF Put
<1> HIDE DEF s
<1>4. Sound(a, s)
  BY <1>0, <1>1 DEF Sound, Acquiring, Doomed
<1> QED BY <1>0, <1>1, <1>2, <1>3, <1>4, ActorStep

LEMMA AdoptStep ==
  ASSUME IInv, PidLockAssumption, FileAssumption, NEW a \in Actor, Adopt(a) PROVE IInv'
<1>0. /\ act[a] \in ActorState /\ Sound(a, act[a]) /\ RestTyped
      /\ ProcOf[a] \in alive /\ alive' = alive
  BY Local DEF Sound, Adopt
<1>1. RestTyped'
  <2>1. outdated' \in BOOLEAN
    BY <1>0 DEF RestTyped, Adopt, Put
  <2>2. faults' \in 0 .. MaxFaults
    BY <1>0 DEF RestTyped, Adopt, Fault, PidLockAssumption
  <2>3. lock' \in File
    BY <1>0 DEF RestTyped, Adopt, Put, Sound, File, Acquiring, Names
  <2> QED BY <1>0, <2>1, <2>2, <2>3 DEF RestTyped, Adopt
<1>2. CASE Put(a, act[a].payload) /\ Goto(a, "held")
  BY <1>0, <1>1, <1>2, PutPayload DEF Adopt
<1>3. CASE Return(a) /\ lock' = lock /\ outdated' = outdated
  BY <1>0, <1>1, <1>3, ReturnQuiet
<1> QED BY <1>2, <1>3 DEF Adopt

LEMMA ReclaimStep ==
  ASSUME IInv, PidLockAssumption, FileAssumption, NEW a \in Actor, Reclaim(a) PROVE IInv'
<1>0. /\ act[a] \in ActorState /\ Sound(a, act[a]) /\ RestTyped
      /\ ProcOf[a] \in alive /\ alive' = alive
  BY Local DEF Sound, Reclaim
<1>1. RestTyped'
  <2>1. outdated' \in BOOLEAN
    BY <1>0 DEF RestTyped, Reclaim, Put
  <2>2. faults' \in 0 .. MaxFaults
    BY <1>0 DEF RestTyped, Reclaim, Fault, PidLockAssumption
  <2>3. lock' \in File
    BY <1>0 DEF RestTyped, Reclaim, Put, Sound, File, Acquiring, Names
  <2> QED BY <1>0, <2>1, <2>2, <2>3 DEF RestTyped, Reclaim
<1>2. CASE Put(a, act[a].payload) /\ Goto(a, "reread")
  BY <1>0, <1>1, <1>2, PutPayload DEF Reclaim
<1>3. CASE Return(a) /\ lock' = lock /\ outdated' = outdated
  BY <1>0, <1>1, <1>3, ReturnQuiet
<1> QED BY <1>2, <1>3 DEF Reclaim

\* The steps that read and decide, and leave every variable but the actor alone.
LEMMA Unmoved ==
  ASSUME IInv, UNCHANGED <<lock, alive, claims, crashes, faults, outdated>>
  PROVE  RestTyped'
BY DEF IInv, TypeOK, RestTyped

LEMMA JudgeStep == ASSUME IInv, NEW a \in Actor, Judge(a) PROVE IInv'
<1>0. RestTyped' /\ ProcOf[a] \in alive
  BY Local, Unmoved DEF Judge
<1>1. CASE HolderAlive(act[a].seen)
  BY <1>0, <1>1, ReturnQuiet DEF Judge
<1>2. CASE ~HolderAlive(act[a].seen)
  BY <1>0, <1>2, GotoQuiet DEF Judge, PC, Acquiring, Doomed, Holding, Probing
<1> QED BY <1>1, <1>2

\* The step that keeps what it found at the path in `judged`.
LEMMA JudgedQuiet ==
  ASSUME IInv, UNCHANGED <<lock, alive, claims, crashes, faults, outdated>>,
         NEW a \in Actor, NEW q \in PC,
         act' = [act EXCEPT ![a].judged = lock, ![a].pc = q],
         \/ act[a].pc = "raw" /\ q = "confirm"
         \/ act[a].pc = "proberaw" /\ q = "probeconfirm"
  PROVE  IInv'
<1> DEFINE s == [act[a] EXCEPT !.judged = lock, !.pc = q]
<1>0. act[a] \in ActorState /\ Sound(a, act[a]) /\ RestTyped /\ ProcOf[a] \in alive
  BY Local DEF Sound
<1>1. /\ s \in ActorState /\ s.pc = q
      /\ s.payload = act[a].payload /\ s.seen = act[a].seen
  BY <1>0 DEF ActorState, RestTyped
<1>2. act' = [act EXCEPT ![a] = s]
  BY <1>0
<1> HIDE DEF s
<1>3. Sound(a, s)
  BY <1>0, <1>1 DEF Sound, Acquiring, Doomed
<1>4. s.pc \notin {"idle"} \cup Probing => Alone(a)
  BY <1>1, Local DEF Probing
<1> QED BY <1>0, <1>1, <1>2, <1>3, <1>4, QuietStep, Unmoved DEF Holding

LEMMA RawStep == ASSUME IInv, NEW a \in Actor, Raw(a) PROVE IInv'
<1>1. CASE lock = Absent
  BY <1>1, AgainQuiet, Unmoved DEF Raw, Acquiring
<1>2. CASE lock # Absent
  BY <1>2, JudgedQuiet DEF Raw, PC
<1> QED BY <1>1, <1>2

LEMMA ConfirmStep == ASSUME IInv, NEW a \in Actor, Confirm(a) PROVE IInv'
<1>1. CASE lock # act[a].judged
  BY <1>1, AgainQuiet, Unmoved DEF Confirm, Acquiring
<1>2. CASE lock = act[a].judged
  BY <1>2, Local, GotoQuiet, Unmoved DEF Confirm, PC, Acquiring, Doomed, Holding, Probing
<1> QED BY <1>1, <1>2

LEMMA RereadStep == ASSUME IInv, NEW a \in Actor, Reread(a) PROVE IInv'
<1>1. CASE lock = act[a].payload
  <2>1. Names(a, lock)
    BY <1>1, Local DEF Reread, Sound, Acquiring
  <2> QED BY <1>1, <2>1, Local, GotoQuiet, Unmoved
          DEF Reread, PC, Acquiring, Doomed, Holding, Probing
<1>2. CASE lock # act[a].payload
  BY <1>2, AgainQuiet, Unmoved DEF Reread, Acquiring
<1> QED BY <1>1, <1>2

------------------------------------------------------------------------------
(* restampPidLock, releasePidLock *)

\* A step that keeps what it read in `seen` and moves on to q.
LEMMA SeenQuiet ==
  ASSUME IInv, UNCHANGED <<lock, alive, claims, crashes, faults, outdated>>,
         NEW a \in Actor, NEW q \in {"stamp", "release", "unlink", "probejudge"},
         act' = [act EXCEPT ![a].seen = lock, ![a].pc = q],
         ProcOf[a] \in alive,
         q = "probejudge" \/ act[a].pc \notin {"idle"} \cup Probing,
         q = "stamp" => act[a].pc \in Holding /\ Names(a, lock),
         q = "unlink" => Mine(a, lock)
  PROVE  IInv'
<1> DEFINE s == [act[a] EXCEPT !.seen = lock, !.pc = q]
<1>0. act[a] \in ActorState /\ Sound(a, act[a]) /\ RestTyped
  BY Local DEF Sound
<1>1. s \in ActorState /\ s.pc = q /\ s.payload = act[a].payload /\ s.seen = lock
  BY <1>0 DEF ActorState, RestTyped, PC
<1>2. act' = [act EXCEPT ![a] = s]
  BY <1>0
<1> HIDE DEF s
<1>3. Sound(a, s)
  BY <1>0, <1>1 DEF Sound, Acquiring, Doomed
<1>4. s.pc \notin {"idle"} \cup Probing => Alone(a)
  BY <1>1, Local DEF Probing
<1> QED BY <1>1, <1>2, <1>3, <1>4, QuietStep, Unmoved DEF Holding

LEMMA RestampStep == ASSUME IInv, NEW a \in Actor, Restamp(a) PROVE IInv'
<1>0. ProcOf[a] \in alive /\ act[a].pc \in Holding /\ act[a].pc \notin {"idle"} \cup Probing
  BY Local DEF Restamp, Holding, Probing
<1>1. CASE Mine(a, lock) /\ lock.pid = ProcOf[a]
  BY <1>0, <1>1, SeenQuiet DEF Restamp, Mine, Names
<1>2. CASE ~(Mine(a, lock) /\ lock.pid = ProcOf[a])
  BY <1>0, <1>2, SeenQuiet DEF Restamp
<1> QED BY <1>1, <1>2

LEMMA StampStep == ASSUME IInv, NEW a \in Actor, Stamp(a) PROVE IInv'
<1>0. ProcOf[a] \in alive /\ RestTyped' /\ act[a].pc = "stamp"
  BY Local, Unmoved DEF Stamp
<1>1. CASE Goto(a, "stamped")
  BY <1>0, <1>1, GotoQuiet DEF Stamp, PC, Acquiring, Doomed, Holding, Probing
<1>2. CASE Goto(a, "release")
  BY <1>0, <1>2, GotoQuiet DEF Stamp, PC, Acquiring, Doomed, Holding, Probing
<1> QED BY <1>1, <1>2 DEF Stamp, Goto

LEMMA StampRenameStep ==
  ASSUME IInv, PidLockAssumption, FileAssumption, NEW a \in Actor, StampRename(a) PROVE IInv'
<1> DEFINE new == [act[a].seen EXCEPT !.stamp = 1 - @]
           s   == [act[a] EXCEPT !.pc = "stampread", !.payload = new]
<1>0. /\ act[a] \in ActorState /\ Sound(a, act[a]) /\ RestTyped /\ Alone(a)
      /\ ProcOf[a] \in alive /\ alive' = alive /\ act[a].pc = "stamped"
  BY Local DEF Sound, StampRename, Probing
<1>1. Names(a, new)
  BY <1>0 DEF Sound, Names, Record
<1>2. s \in ActorState /\ s.pc = "stampread" /\ s.payload = new
  <2> HIDE DEF new
  <2> QED BY <1>0, <1>1 DEF ActorState, PC, Names
<1>3. RestTyped'
  <2>1. outdated' \in BOOLEAN
    BY <1>0 DEF RestTyped, StampRename, Put
  <2>2. faults' \in 0 .. MaxFaults
    BY <1>0 DEF RestTyped, StampRename, Fault, PidLockAssumption
  <2>3. lock' \in File
    BY <1>0, <1>1 DEF RestTyped, StampRename, Put, File, Names
  <2> QED BY <1>0, <2>1, <2>2, <2>3 DEF RestTyped, StampRename
<1>4. CASE Put(a, new) /\ act' = [act EXCEPT ![a].pc = "stampread", ![a].payload = new]
  <2>1. act' = [act EXCEPT ![a] = s]
    BY <1>0, <1>4
  <2>2. ~outdated' => ~outdated /\ \A b \in Actor : b # a => act[b].pc \notin Holding
    BY <1>0, <1>4, NoOtherHolder DEF Put
  <2>3. lock' = new
    BY <1>4 DEF Put
  <2> HIDE DEF s, new
  <2>4. Sound(a, s)
    BY <1>1, <1>2 DEF Sound, Acquiring, Doomed
  <2> QED BY <1>0, <1>1, <1>2, <1>3, <2>1, <2>2, <2>3, <2>4, ActorStep
<1>5. CASE Goto(a, "release") /\ lock' = lock /\ outdated' = outdated
  BY <1>0, <1>3, <1>5, GotoQuiet DEF PC, Acquiring, Doomed, Holding, Probing
<1> QED BY <1>4, <1>5 DEF StampRename

LEMMA StampReadStep == ASSUME IInv, NEW a \in Actor, StampRead(a) PROVE IInv'
<1>0. ProcOf[a] \in alive /\ RestTyped' /\ act[a].pc = "stampread"
  BY Local, Unmoved DEF StampRead
<1>1. CASE Goto(a, "held")
  BY <1>0, <1>1, GotoQuiet DEF StampRead, PC, Acquiring, Doomed, Holding, Probing
<1>2. CASE Goto(a, "release")
  BY <1>0, <1>2, GotoQuiet DEF StampRead, PC, Acquiring, Doomed, Holding, Probing
<1> QED BY <1>1, <1>2 DEF StampRead, Goto

LEMMA ReleaseStep == ASSUME IInv, NEW a \in Actor, Release(a) PROVE IInv'
<1>0. ProcOf[a] \in alive /\ RestTyped' /\ act[a].pc \notin {"idle"} \cup Probing
  BY Local, Unmoved DEF Release, Probing
<1>1. CASE Mine(a, lock)
  BY <1>0, <1>1, SeenQuiet DEF Release
<1>2. CASE ~Mine(a, lock)
  BY <1>0, <1>2, ReturnQuiet DEF Release
<1> QED BY <1>1, <1>2

\* A step that empties the path and turns the actor's record into s.
LEMMA Emptied ==
  ASSUME IInv, FileAssumption, RestTyped', alive' = alive,
         NEW a \in Actor, act[a].pc \in {"unlink", "take"}, Put(a, Absent),
         NEW s, Sound(a, s), act' = [act EXCEPT ![a] = s], s.pc \in {"idle", "putback"}
  PROVE  IInv'
<1>1. ~outdated' => ~outdated /\ \A b \in Actor : b # a => act[b].pc \notin Holding
  BY NoOtherHolder DEF Put
<1> QED BY <1>1, Local, ActorStep DEF Holding, Probing

\* What a step that may empty the path, or fail, does to the other variables.
LEMMA EmptiedTyped ==
  ASSUME RestTyped, PidLockAssumption, NEW a \in Actor,
         UNCHANGED <<alive, claims, crashes>>,
         Put(a, Absent) \/ UNCHANGED <<lock, outdated>>,
         Fault \/ UNCHANGED faults
  PROVE  RestTyped'
<1>1. outdated' \in BOOLEAN
  BY DEF RestTyped, Put
<1>2. faults' \in 0 .. MaxFaults
  BY DEF RestTyped, Fault, PidLockAssumption
<1>3. lock' \in File
  BY DEF RestTyped, Put, File
<1> QED BY <1>1, <1>2, <1>3 DEF RestTyped

LEMMA UnlinkStep ==
  ASSUME IInv, PidLockAssumption, FileAssumption, NEW a \in Actor, Unlink(a) PROVE IInv'
<1>0. ProcOf[a] \in alive /\ alive' = alive /\ act[a].pc = "unlink" /\ RestTyped
  BY Local DEF Unlink
<1>1. RestTyped'
  BY <1>0, EmptiedTyped DEF Unlink
<1>2. CASE Put(a, Absent)
  BY <1>0, <1>1, <1>2, Emptied, Returned DEF Unlink, Return
<1>3. CASE UNCHANGED <<lock, outdated>>
  BY <1>0, <1>1, <1>3, ReturnQuiet DEF Unlink
<1> QED BY <1>2, <1>3 DEF Unlink

------------------------------------------------------------------------------
(* probePidLock *)

LEMMA ProbeStep == ASSUME IInv, NEW a \in Actor, Probe(a) PROVE IInv'
BY SeenQuiet DEF Probe

LEMMA ProbeJudgeStep == ASSUME IInv, NEW a \in Actor, ProbeJudge(a) PROVE IInv'
<1>0. RestTyped' /\ ProcOf[a] \in alive
  BY Local, Unmoved DEF ProbeJudge
<1>1. CASE HolderAlive(act[a].seen)
  BY <1>0, <1>1, ReturnQuiet DEF ProbeJudge
<1>2. CASE ~HolderAlive(act[a].seen)
  BY <1>0, <1>2, GotoQuiet DEF ProbeJudge, PC, Acquiring, Doomed, Holding, Probing
<1> QED BY <1>1, <1>2

LEMMA ProbeRawStep == ASSUME IInv, NEW a \in Actor, ProbeRaw(a) PROVE IInv'
<1>1. CASE lock = Absent
  BY <1>1, Local, ReturnQuiet, Unmoved DEF ProbeRaw
<1>2. CASE lock # Absent
  BY <1>2, JudgedQuiet DEF ProbeRaw, PC
<1> QED BY <1>1, <1>2

LEMMA ProbeConfirmStep == ASSUME IInv, NEW a \in Actor, ProbeConfirm(a) PROVE IInv'
<1>0. RestTyped' /\ ProcOf[a] \in alive
  BY Local, Unmoved DEF ProbeConfirm
<1>1. CASE lock # act[a].judged
  BY <1>0, <1>1, ReturnQuiet DEF ProbeConfirm
<1>2. CASE lock = act[a].judged
  BY <1>0, <1>2, GotoQuiet DEF ProbeConfirm, PC, Acquiring, Doomed, Holding, Probing
<1> QED BY <1>1, <1>2

LEMMA TakeStep ==
  ASSUME IInv, PidLockAssumption, FileAssumption, NEW a \in Actor, Take(a) PROVE IInv'
<1>0. /\ ProcOf[a] \in alive /\ alive' = alive /\ act[a].pc = "take"
      /\ RestTyped /\ act[a] \in ActorState
  BY Local DEF Take, Sound
<1>1. RestTyped'
  BY <1>0, EmptiedTyped DEF Take
<1>2. CASE /\ Put(a, Absent)
           /\ act' = [act EXCEPT ![a].pc = "putback", ![a].taken = lock]
  <2> DEFINE s == [act[a] EXCEPT !.pc = "putback", !.taken = lock]
  <2>1. s \in ActorState /\ s.pc = "putback"
    BY <1>0 DEF ActorState, PC, RestTyped
  <2>2. act' = [act EXCEPT ![a] = s]
    BY <1>0, <1>2
  <2> HIDE DEF s
  <2>3. Sound(a, s)
    BY <2>1 DEF Sound, Acquiring, Doomed
  <2> QED BY <1>0, <1>1, <1>2, <2>1, <2>2, <2>3, Emptied
<1>3. CASE Return(a) /\ UNCHANGED <<lock, outdated>>
  BY <1>0, <1>1, <1>3, ReturnQuiet
<1> QED BY <1>2, <1>3 DEF Take

LEMMA PutBackStep ==
  ASSUME IInv, FileAssumption, NEW a \in Actor, PutBack(a) PROVE IInv'
<1>0. /\ ProcOf[a] \in alive /\ alive' = alive /\ outdated' = outdated
      /\ RestTyped /\ act[a] \in ActorState
  BY Local DEF PutBack, Sound
<1>1. RestTyped'
  BY <1>0 DEF PutBack, RestTyped, ActorState
<1>2. CASE lock = Absent
  <2>1. ~outdated => \A b \in Actor : b # a => act[b].pc \notin Holding
    BY <1>2, NoOtherHolder
  <2>2. act' = [act EXCEPT ![a] = Idle]
    BY DEF PutBack, Return
  <2>3. Sound(a, Idle) /\ Idle.pc = "idle" /\ Idle.pc \notin Holding
    BY Returned
  <2> QED BY <1>0, <1>1, <2>1, <2>2, <2>3, ActorStep
<1>3. CASE lock # Absent
  BY <1>0, <1>1, <1>3, ReturnQuiet DEF PutBack
<1> QED BY <1>2, <1>3

------------------------------------------------------------------------------
LEMMA CrashStep ==
  ASSUME IInv, PidLockAssumption, NEW p \in Proc, Crash(p) PROVE IInv'
<1>1. \A a \in Actor : act'[a] = (IF ProcOf[a] = p THEN Idle ELSE act[a])
  BY DEF Crash
<1>2. \A a \in Actor : Sound(a, act[a]) /\ Sound(a, Idle) /\ Idle.pc = "idle"
  BY Local, Returned
<1>3. alive' = alive \ {p} /\ lock' = lock /\ outdated' = outdated
  BY DEF Crash
<1>4. TypeOK'
  <2>1. crashes' \in 0 .. MaxCrashes
    BY DEF Crash, IInv, TypeOK, PidLockAssumption
  <2>2. act' \in [Actor -> ActorState]
    BY <1>2 DEF Crash, Sound
  <2> QED BY <1>3, <2>1, <2>2 DEF Crash, IInv, TypeOK
<1>5. DeadStop'
  BY <1>1, <1>2, <1>3 DEF IInv, DeadStop
<1>6. OwnersApart'
  BY <1>1, <1>2, <1>3 DEF IInv, OwnersApart
<1>7. Payloads' /\ SeenOwn'
  BY <1>1, <1>2 DEF Sound, Payloads, SeenOwn, Names, Mine
<1>8. JudgedDead'
  BY <1>1, <1>2, <1>3 DEF Sound, JudgedDead, HolderAlive
<1>9. HoldersNamed'
  BY <1>1, <1>2, <1>3, Returned DEF IInv, HoldersNamed
<1> QED BY <1>4, <1>5, <1>6, <1>7, <1>8, <1>9 DEF IInv

LEMMA Initial == ASSUME Init PROVE IInv
<1>1. \A a \in Actor : act[a] = Idle /\ Sound(a, Idle) /\ Idle.pc = "idle"
                       /\ Idle.pc \notin Holding
  BY Returned DEF Init
<1>2. TypeOK
  <2>1. act \in [Actor -> ActorState]
    BY <1>1 DEF Init, Sound
  <2>2. lock \in File /\ alive \subseteq Proc /\ outdated \in BOOLEAN
    BY DEF Init, File
  <2>3. claims \in 0 .. MaxClaims /\ crashes \in 0 .. MaxCrashes /\ faults \in 0 .. MaxFaults
    BY PidLockAssumption DEF Init
  <2> QED BY <2>1, <2>2, <2>3 DEF TypeOK
<1>3. DeadStop /\ OwnersApart
  BY <1>1 DEF DeadStop, OwnersApart
<1>4. Payloads /\ JudgedDead /\ SeenOwn
  BY <1>1 DEF Sound, Payloads, JudgedDead, SeenOwn
<1>5. HoldersNamed
  BY <1>1 DEF HoldersNamed
<1> QED BY <1>2, <1>3, <1>4, <1>5 DEF IInv

LEMMA Inductive == ASSUME IInv, [Next]_vars PROVE IInv'
<1>1. ASSUME NEW a \in Actor, Start(a) PROVE IInv'
  BY <1>1, StartStep, PidLockAssumption
<1>2. ASSUME NEW a \in Actor, Step(a) PROVE IInv'
  BY <1>2, ClaimStep, ReadStep, AdoptStep, JudgeStep, RawStep, ConfirmStep, ReclaimStep,
     RereadStep, StampStep, StampRenameStep, StampReadStep, UnlinkStep, ProbeJudgeStep,
     ProbeRawStep, ProbeConfirmStep, TakeStep, PutBackStep, PidLockAssumption, FileAssumption
     DEF Step
<1>3. ASSUME NEW a \in Actor, Restamp(a) \/ Release(a) \/ Probe(a) PROVE IInv'
  BY <1>3, RestampStep, ReleaseStep, ProbeStep
<1>4. ASSUME NEW p \in Proc, Crash(p) PROVE IInv'
  BY <1>4, CrashStep, PidLockAssumption
<1>5. CASE UNCHANGED vars
  <2>1. RestTyped' /\ act' = act /\ alive' = alive /\ lock' = lock /\ outdated' = outdated
    BY <1>5, Unmoved DEF vars
  <2> QED BY <2>1 DEF IInv, TypeOK, RestTyped, DeadStop, OwnersApart, Payloads, JudgedDead,
                      SeenOwn, HoldersNamed, HolderAlive, Names, Mine
<1> QED BY <1>1, <1>2, <1>3, <1>4, <1>5 DEF Next

------------------------------------------------------------------------------
LEMMA Invariance == Spec => []IInv
<1>1. Init => IInv
  BY Initial
<1>2. IInv /\ [Next]_vars => IInv'
  BY Inductive
<1> QED BY <1>1, <1>2, PTL DEF Spec

\* The lock file holds a record, nothing, or what does not parse, and every caller is
\* at a step of acquirePidLock, restampPidLock, releasePidLock or probePidLock.
THEOREM LockTypeCorrect == Spec => []TypeOK
<1>1. IInv => TypeOK
  BY DEF IInv
<1> QED BY <1>1, Invariance, PTL

\* Any number of callers, in any number of processes that may die at any step: as
\* long as no step acted on a read that was out of date, one holds the lock at most.
\* Two holders would both be named by the record, so share an owner, and an owner
\* has one caller at a time.
THEOREM LockExclusive == Spec => []ExclusiveUnlessOutdated
<1>1. IInv => ExclusiveUnlessOutdated
  <2> SUFFICES ASSUME IInv, ~outdated, NEW a \in Actor, NEW b \in Actor, a # b,
                      act[a].pc \in Holding, act[b].pc \in Holding
               PROVE  FALSE
    BY DEF ExclusiveUnlessOutdated
  <2>1. Names(a, lock) /\ Names(b, lock)
    BY DEF IInv, HoldersNamed
  <2>2. Alone(a)
    BY Local DEF Holding, Probing
  <2> QED BY <2>1, <2>2 DEF Names, Alone, Holding, Probing
<1> QED BY <1>1, Invariance, PTL
=============================================================================
