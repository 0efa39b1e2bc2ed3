-------------------------- MODULE RunnerRetirement --------------------------
(***************************************************************************)
(* Parking a session: the daemon asks the session's runner to get ready    *)
(* (prepare), puts the intent on the session's record, asks it to leave    *)
(* (commit), and calls the record parked once the process is gone.  Or it  *)
(* kills the runner and calls the record parked at once; a runner in a     *)
(* turn is left to finish, the park requested on its record.               *)
(* daemon/runnerQuiescence.ts has both ends of the handshake,              *)
(* daemon/concourseWorkers.ts the record and the fence, daemon/roster.ts   *)
(* the signal, and what the daemon does when the child exits.              *)
(*                                                                         *)
(* One session, one record, one runner at a time.  An action is what one   *)
(* process does between two awaits.  `wire` and `answers` are the two      *)
(* directions of the runner's pipe: ordered, lost when the process dies.   *)
(***************************************************************************)
EXTENDS Naturals, Sequences

CONSTANTS
  MaxParks,     \* bound: park orders; a retirement begun by the n-th has token n
  MaxRunners,   \* bound: runner processes; the n-th has pid n
  MaxWords,     \* bound: dispatches and wakes
  MaxCrashes,   \* bound: deaths of the runner or of the daemon
  MaxTimeouts   \* bound: answers and exits the daemon stops waiting for

ASSUME RetirementAssumption ==
  {MaxParks, MaxWords, MaxCrashes, MaxTimeouts} \subseteq Nat /\ MaxRunners \in Nat \ {0}

VARIABLES
  record,    \* concourse-workers.json: the session's record
  runner,    \* the session's runner process
  wire,      \* daemon to runner
  answers,   \* runner to daemon
  up,        \* the daemon runs
  fence,     \* the daemon's RetirementFence of this session
  seat,      \* the roster's handle of the child
  exitHook,  \* the roster is about to call completeFencedRetirement
  words,     \* a dispatch to the session, as the daemon knows it
  parks, spoken, crashes, timeouts

counters == <<parks, spoken, crashes, timeouts>>
vars == <<record, runner, wire, answers, up, fence, seat, exitHook, words, counters>>

NoToken == 0
Token   == NoToken .. MaxParks
Verb    == {"prepare", "commit", "cancel"}

Fresh(pid) == [pid |-> pid, alive |-> TRUE, prep |-> NoToken, ready |-> FALSE,
               committed |-> NoToken, flushing |-> {}, accepting |-> FALSE, busy |-> FALSE]

Open == [phase |-> "open", token |-> NoToken, cancelled |-> FALSE, pc |-> "idle"]

----------------------------------------------------------------------------
(* The record and the process *)

\* workerPidAlive: pid and start token, so that another process's pid is not this one's.
PidAlive  == runner.alive /\ record.pid = runner.pid
SeatAlive == up /\ seat.state \in {"live", "respawning", "retiring"}
DoorOpen  == up /\ seat.state = "live"

\* The runner's end of the pipe is read until it exits, though a child that was told to
\* go has no door for new words.
Listening == up /\ seat.state \in {"live", "retiring"}
Fenced    == fence.phase \in {"preparing", "committing"}

\* retirementRefusal: what the record says against a retirement.
Refusal == record.parked \/ record.inTurn \/ ~PidAlive

\* stampParked: the request is done with; an intent is not its to take back.
Parked(r) == [r EXCEPT !.parked = TRUE, !.requested = FALSE]
Landed(r) == [Parked(r) EXCEPT !.intent = NoToken]

\* Invalidated as it would be if it dropped the token and left the preparation ready.
InvalidatedInPart(r) == IF r.committed # NoToken THEN r ELSE [r EXCEPT !.prep = NoToken]

\* RunnerQuiescence.invalidate
Invalidated(r) == IF r.committed # NoToken THEN r
                  ELSE [r EXCEPT !.prep = NoToken, !.ready = FALSE]

Ask(verb, token) ==
  IF DoorOpen
  THEN wire' = Append(wire, [verb |-> verb, token |-> token])
  ELSE UNCHANGED wire

\* Without a door the request fails on the spot, and so does the cancel after it:
\* the retirement is over and the fence stays where it is.
Asking(f, verb) == [f EXCEPT !.pc = IF DoorOpen THEN verb ELSE "idle"]

----------------------------------------------------------------------------
(* The daemon: the retirement *)

\* sessionControl 'park' of a living runner between turns: a retirement is begun, or the
\* standing one is told of demand.
ParkVerb ==
  /\ up /\ parks < MaxParks /\ PidAlive /\ ~record.inTurn /\ (Fenced \/ ~record.parked)
  /\ parks' = parks + 1
  /\ IF Fenced
     THEN /\ fence' = [fence EXCEPT !.cancelled = @ \/ fence.phase = "preparing"]
          /\ UNCHANGED wire
     ELSE /\ fence' = Asking([Open EXCEPT !.phase = "preparing", !.token = parks'], "prepare")
          /\ Ask("prepare", parks')
  /\ UNCHANGED <<record, runner, answers, up, seat, exitHook, words, spoken, crashes, timeouts>>

Awaited(m) == m.verb = fence.pc /\ m.token = fence.token

\* cancel(): ask the runner to forget the preparation.
Cancel == fence' = Asking(fence, "cancel") /\ Ask("cancel", fence.token)

\* The prepare was answered.  Nothing against it: the intent goes on the record (which
\* may fail), and the commit is asked for.
Prepared ==
  /\ up /\ answers # <<>> /\ fence.pc = "prepare" /\ Awaited(Head(answers))
  /\ answers' = Tail(answers)
  /\ \/ /\ Head(answers).ok /\ ~fence.cancelled /\ ~Refusal
        /\ record' = [record EXCEPT !.intent = fence.token, !.intentPid = record.pid]
        /\ seat' = [seat EXCEPT !.intentional = TRUE]
        /\ fence' = Asking([fence EXCEPT !.phase = "committing"], "commit")
        /\ Ask("commit", fence.token)
     \/ Cancel /\ UNCHANGED <<record, seat>>
  /\ UNCHANGED <<runner, up, exitHook, words, counters>>

Committed ==
  /\ up /\ answers # <<>> /\ fence.pc = "commit" /\ Awaited(Head(answers))
  /\ answers' = Tail(answers)
  /\ IF Head(answers).ok THEN fence' = [fence EXCEPT !.pc = "exit"] /\ UNCHANGED wire
     ELSE Cancel
  /\ UNCHANGED <<record, runner, up, seat, exitHook, words, counters>>

\* CancelConfirmed as it would be if any answer to the cancel were taken for a yes.
CancelConfirmedAlways(m) == TRUE

CancelConfirmed(m) == m.ok

Cancelled ==
  /\ up /\ answers # <<>> /\ fence.pc = "cancel" /\ Awaited(Head(answers))
  /\ answers' = Tail(answers)
  /\ IF CancelConfirmed(Head(answers))
     THEN /\ fence' = Open
          /\ seat' = [seat EXCEPT !.intentional = FALSE]
          /\ record' = [record EXCEPT !.intent = IF @ = fence.token THEN NoToken ELSE @]
     ELSE /\ fence' = [fence EXCEPT !.pc = "idle"]
          /\ UNCHANGED <<seat, record>>
  /\ UNCHANGED <<runner, wire, up, exitHook, words, counters>>

\* An answer nobody waits for any more.
LateAnswer ==
  /\ up /\ answers # <<>> /\ Head(answers).verb \in Verb /\ ~Awaited(Head(answers))
  /\ answers' = Tail(answers)
  /\ UNCHANGED <<record, runner, wire, up, fence, seat, exitHook, words, counters>>

\* The door closed under a request, or its deadline passed.
NoAnswer ==
  /\ up /\ fence.pc \in Verb
  /\ IF Listening THEN timeouts < MaxTimeouts /\ timeouts' = timeouts + 1
     ELSE UNCHANGED timeouts
  /\ IF fence.pc = "cancel" THEN fence' = [fence EXCEPT !.pc = "idle"] /\ UNCHANGED wire
     ELSE Cancel
  /\ UNCHANGED <<record, runner, answers, up, seat, exitHook, words, parks, spoken, crashes>>

\* finish(): the process is seen to be gone.  Is the intent another, or gone as well,
\* persistParked throws; the cancel that follows finds no door.
Landing ==
  /\ up /\ fence.pc = "exit" /\ ~SeatAlive /\ ~PidAlive
  /\ IF record.intent = fence.token
     THEN record' = Landed(record) /\ fence' = Open
     ELSE fence' = [fence EXCEPT !.pc = "idle"] /\ UNCHANGED record
  /\ UNCHANGED <<runner, wire, answers, up, seat, exitHook, words, counters>>

\* observeExit gives up.
ExitUnseen ==
  /\ up /\ fence.pc = "exit" /\ timeouts < MaxTimeouts
  /\ timeouts' = timeouts + 1
  /\ fence' = [fence EXCEPT !.pc = "idle"]
  /\ UNCHANGED <<record, runner, wire, answers, up, seat, exitHook, words, parks, spoken, crashes>>

----------------------------------------------------------------------------
(* The daemon: parking without the handshake *)

\* roster.kill: the child is told to go, a respawn that is due is called off; a seat whose
\* child is gone has nothing left to tell.
Killed(s) ==
  CASE s.state \in {"live", "retiring"} -> [state |-> "retiring", intentional |-> TRUE]
    [] s.state = "respawning" -> [state |-> "gone", intentional |-> TRUE]
    [] OTHER -> s

Kill == seat' = Killed(seat) /\ exitHook' = (exitHook \/ seat.state = "respawning")

\* parkConcourseSession: for park-all, and for the 'park' of a session that is attached, in
\* a turn or without a runner.  A turn is waited for, unless this is the cut at the end of
\* the daemon's drain.  A living child the daemon has no seat for is left alone.
ParkNow(cut) ==
  /\ up /\ parks < MaxParks /\ ~record.parked
  /\ cut => record.requested /\ PidAlive
  /\ parks' = parks + 1
  /\ IF PidAlive /\ record.inTurn /\ ~cut
     THEN record' = [record EXCEPT !.requested = TRUE] /\ UNCHANGED <<seat, exitHook>>
     ELSE (PidAlive => SeatAlive) /\ record' = Parked(record) /\ Kill
  /\ UNCHANGED <<runner, wire, answers, up, fence, words, spoken, crashes, timeouts>>

\* completeRequestedPark of a living runner at an idle edge: the record still says what it
\* said before the edge.
RequestDue == record.requested /\ ~record.parked /\ ~record.inTurn

----------------------------------------------------------------------------
(* The daemon: the child's exit, and the tick that reconciles the records *)

\* RespawnOf as it would be if an exit the daemon asked for were a crash like another.
RespawnAlways == {"respawning"}

\* handleCrash: an exit that was expected is final; another is answered by a new child,
\* until the respawns are exhausted.
RespawnOf == IF seat.intentional THEN {"gone"} ELSE {"respawning", "gone"}

ChildExit ==
  /\ Listening /\ ~runner.alive
  /\ \E s \in RespawnOf : seat' = [seat EXCEPT !.state = s]
  /\ exitHook' = (exitHook \/ seat.intentional)
  /\ record' = [record EXCEPT !.inTurn = FALSE]
  /\ wire' = <<>> /\ answers' = <<>>
  /\ words' = IF words = "sent" THEN "none" ELSE words
  /\ UNCHANGED <<runner, up, fence, counters>>

\* A new process in the seat; the record learns its pid.
Spawn(pid) ==
  /\ pid <= MaxRunners
  /\ runner' = Fresh(pid)
  /\ seat' = [state |-> "live", intentional |-> FALSE]

\* The new child is idle, so a requested park is completed, before the record learns the
\* pid: it names the process that died, and nobody is told to go.
Respawn ==
  /\ up /\ seat.state = "respawning"
  /\ Spawn(runner.pid + 1)
  /\ LET completed == IF record.requested /\ ~record.parked THEN Parked(record) ELSE record
     IN  record' = [completed EXCEPT !.pid = runner.pid + 1]
  /\ UNCHANGED <<wire, answers, up, fence, exitHook, words, counters>>

\* completeFencedRetirement, at the exit of a child that was to stop.  A retirement that
\* is still waiting for something is left to it; one that stands committing resumes its
\* wait; without a fence (the daemon is a new one) the intent on the record decides.
ExitCompleted ==
  /\ up /\ exitHook
  /\ exitHook' = FALSE
  /\ fence' = IF fence.phase = "committing" /\ fence.pc = "idle"
              THEN [fence EXCEPT !.pc = "exit"]
              ELSE [fence EXCEPT !.cancelled = @ \/ (fence.phase = "preparing" /\ fence.pc = "idle")]
  /\ record' = IF ~Fenced /\ ~record.parked /\ record.intent # NoToken /\ ~PidAlive
               THEN Landed(record) ELSE record
  /\ UNCHANGED <<runner, wire, answers, up, seat, words, counters>>

\* Reconciled as it would be if an intent were taken for the runner's exit.
ReconciledEarly(r, live) ==
  IF r.parked \/ r.intent = NoToken THEN r ELSE Landed(r)

\* Reconciled as it would be if an intent whose runner is gone were stale.
ReconciledStale(r, live) ==
  IF r.parked \/ r.intent = NoToken \/ (live /\ r.pid = r.intentPid) THEN r
  ELSE [r EXCEPT !.intent = NoToken]

\* reconcileConcourseWorkers, of the park that was requested and the intent on a record.
Reconciled(r, live) ==
  IF r.parked THEN r
  ELSE IF r.requested /\ ~live THEN Parked(r)
  ELSE IF r.intent = NoToken \/ (live /\ r.pid = r.intentPid) THEN r
  ELSE IF live THEN [r EXCEPT !.intent = NoToken]
  ELSE Landed(r)

Tick ==
  /\ up
  /\ record' = Reconciled(record, SeatAlive \/ PidAlive)
  /\ UNCHANGED <<runner, wire, answers, up, fence, seat, exitHook, words, counters>>

----------------------------------------------------------------------------
(* The daemon: work for the session *)

\* reviveConcourseWorker: a new process for a record whose own is gone.
Revive ==
  /\ up /\ ~PidAlive /\ ~SeatAlive
  /\ Spawn(runner.pid + 1)
  /\ record' = [record EXCEPT !.pid = runner.pid + 1, !.parked = FALSE, !.requested = FALSE]

\* A dispatch to the session is held while it retires; else it revives the session, or
\* is started on the runner it has (and fails if that is just being respawned).
Dispatch ==
  /\ up /\ words \in {"none", "held"}
  /\ IF words = "held" THEN UNCHANGED spoken
     ELSE spoken < MaxWords /\ spoken' = spoken + 1
  /\ \/ /\ record.intent # NoToken \/ Fenced
        /\ words' = "held"
        /\ UNCHANGED <<record, runner, seat>>
     \/ /\ record.intent = NoToken /\ ~Fenced
        /\ \/ PidAlive /\ words' = "starting" /\ UNCHANGED <<record, runner, seat>>
           \/ Revive /\ words' = "starting"
           \/ ~PidAlive /\ SeatAlive /\ words' = "none" /\ UNCHANGED <<record, runner, seat>>
  /\ UNCHANGED <<wire, answers, up, fence, exitHook, parks, crashes, timeouts>>

\* The operator's resume revives whatever retirement stands; of a session that still has
\* its runner it takes a requested park back.
Resume ==
  /\ \/ Revive
     \/ /\ up /\ (PidAlive \/ SeatAlive) /\ record.requested
        /\ record' = [record EXCEPT !.requested = FALSE]
        /\ UNCHANGED <<runner, seat>>
  /\ UNCHANGED <<wire, answers, up, fence, exitHook, words, counters>>

\* roster.reply, once the prompt is built.
Deliver ==
  /\ up /\ words = "starting"
  /\ IF DoorOpen
     THEN /\ wire' = Append(wire, [verb |-> "words", token |-> NoToken])
          /\ words' = "sent"
          /\ record' = [record EXCEPT !.inTurn = TRUE]
     ELSE words' = "none" /\ UNCHANGED <<wire, record>>
  /\ UNCHANGED <<runner, answers, up, fence, seat, exitHook, counters>>

Delivered ==
  /\ up /\ answers # <<>> /\ Head(answers).verb = "words"
  /\ answers' = Tail(answers)
  /\ words' = "none"
  /\ UNCHANGED <<record, runner, wire, up, fence, seat, exitHook, counters>>

----------------------------------------------------------------------------
(* The runner *)

RunnerOnly == UNCHANGED <<record, up, fence, seat, exitHook, words>>

Answer(m, ok) ==
  answers' = IF Listening THEN Append(answers, [verb |-> m.verb, token |-> m.token, ok |-> ok])
             ELSE answers

\* request(), up to its first await.
Asked ==
  /\ runner.alive /\ wire # <<>> /\ Head(wire).verb \in Verb
  /\ wire' = Tail(wire)
  /\ LET m == Head(wire)
         Refused == Answer(m, FALSE)
         Invalid == runner' = Invalidated(runner)
         Flush(r) == IF runner.busy THEN Refused /\ runner' = Invalidated(r)
                     ELSE /\ runner' = [r EXCEPT !.flushing = @ \cup {m}]
                          /\ UNCHANGED answers
     IN  IF runner.committed # NoToken
         THEN /\ Answer(m, m.verb = "commit" /\ m.token = runner.committed)
              /\ UNCHANGED runner
         ELSE CASE m.verb = "cancel" ->
                     IF runner.prep \notin {NoToken, m.token} THEN Refused /\ UNCHANGED runner
                     ELSE Answer(m, TRUE) /\ Invalid
                [] m.verb = "prepare" ->
                     IF runner.prep # NoToken THEN Refused /\ UNCHANGED runner
                     ELSE Flush([runner EXCEPT !.prep = m.token, !.ready = FALSE])
                [] m.verb = "commit" ->
                     IF runner.prep # m.token \/ ~runner.ready THEN Refused /\ UNCHANGED runner
                     ELSE Flush(runner)
  /\ RunnerOnly /\ UNCHANGED counters

\* StillCurrent as it would be if the preparation were not looked at again after the flush.
StillCurrentUnchecked(m) == runner.committed = NoToken

\* current(): the preparation this flush was for still stands.
StillCurrent(m) == runner.prep = m.token

\* request(), after the flush: which may have failed, and behind which work may have come.
Flushed(m, ok) ==
  /\ runner.alive /\ m \in runner.flushing
  /\ LET r == [runner EXCEPT !.flushing = @ \ {m}] IN
     IF StillCurrent(m) /\ ok /\ ~runner.busy
     THEN /\ Answer(m, TRUE)
          /\ runner' = IF m.verb = "prepare" THEN [r EXCEPT !.ready = TRUE]
                       ELSE [r EXCEPT !.committed = m.token, !.prep = NoToken, !.ready = FALSE]
     ELSE /\ Answer(m, FALSE)
          /\ runner' = IF StillCurrent(m) THEN Invalidated(r) ELSE r
  /\ RunnerOnly /\ UNCHANGED <<wire, counters>>

\* queue/add: the words are taken in over several awaits before they are queued.
Accept ==
  /\ runner.alive /\ wire # <<>> /\ Head(wire).verb = "words"
  /\ wire' = Tail(wire)
  /\ runner' = [runner EXCEPT !.accepting = TRUE]
  /\ RunnerOnly /\ UNCHANGED <<answers, counters>>

\* Queued work invalidates the preparation, if it is not too late.
Enqueue ==
  /\ runner.alive /\ runner.accepting
  /\ runner' = [Invalidated(runner) EXCEPT !.accepting = FALSE, !.busy = TRUE]
  /\ Answer([verb |-> "words", token |-> NoToken], TRUE)
  /\ RunnerOnly /\ UNCHANGED <<wire, counters>>

\* A schedule, a nudge, a background task: work the daemon does not know of.
Wake ==
  /\ runner.alive /\ runner.committed = NoToken /\ ~runner.busy
  /\ spoken < MaxWords /\ spoken' = spoken + 1
  /\ runner' = [Invalidated(runner) EXCEPT !.busy = TRUE]
  /\ RunnerOnly /\ UNCHANGED <<wire, answers, parks, crashes, timeouts>>

\* The outcome row: the roster's idle edge, with the park that was requested, and only then
\* the record's word that the turn is over.
TurnEnds ==
  /\ runner.alive /\ runner.busy /\ runner.committed = NoToken
  /\ runner' = [runner EXCEPT !.busy = FALSE]
  /\ LET due  == Listening /\ RequestDue
         done == IF due THEN Parked(record) ELSE record
     IN  /\ IF due THEN Kill ELSE UNCHANGED <<seat, exitHook>>
         /\ record' = IF Listening THEN [done EXCEPT !.inTurn = FALSE] ELSE record
  /\ UNCHANGED <<wire, answers, up, fence, words, counters>>

\* A runner that has committed closes its input and exits; one that was told to go, or
\* whose daemon is gone (armWorkerParentWatch), exits as well.
Gone == runner' = [runner EXCEPT !.alive = FALSE]

Exit ==
  /\ runner.alive /\ (runner.committed # NoToken \/ seat.state \in {"retiring", "orphan"})
  /\ Gone
  /\ RunnerOnly /\ UNCHANGED <<wire, answers, counters>>

----------------------------------------------------------------------------
(* Crashes *)

Crash == crashes < MaxCrashes /\ crashes' = crashes + 1

RunnerCrash ==
  /\ runner.alive /\ Crash /\ Gone
  /\ RunnerOnly /\ UNCHANGED <<wire, answers, parks, spoken, timeouts>>

DaemonCrash ==
  /\ up /\ Crash
  /\ up' = FALSE
  /\ fence' = Open /\ exitHook' = FALSE /\ words' = "none"
  /\ seat' = [state |-> "orphan", intentional |-> FALSE]
  /\ wire' = <<>> /\ answers' = <<>>
  /\ UNCHANGED <<record, runner, parks, spoken, timeouts>>

\* A daemon that starts has no seat for the session, and reconciles its records.
DaemonBoot ==
  /\ ~up
  /\ up' = TRUE
  /\ record' = Reconciled(record, PidAlive)
  /\ UNCHANGED <<runner, wire, answers, fence, seat, exitHook, words, counters>>

----------------------------------------------------------------------------
(* The system *)

Init ==
  /\ record = [parked |-> FALSE, requested |-> FALSE, intent |-> NoToken, intentPid |-> 1,
               pid |-> 1, inTurn |-> FALSE]
  /\ runner = Fresh(1)
  /\ seat = [state |-> "live", intentional |-> FALSE]
  /\ wire = <<>> /\ answers = <<>>
  /\ up = TRUE /\ fence = Open /\ exitHook = FALSE /\ words = "none"
  /\ parks = 0 /\ spoken = 0 /\ crashes = 0 /\ timeouts = 0

Retirement == ParkVerb \/ Prepared \/ Committed \/ Cancelled \/ LateAnswer \/ NoAnswer
              \/ Landing \/ ExitUnseen
Parking == \E cut \in BOOLEAN : ParkNow(cut)
Supervision == ChildExit \/ Respawn \/ ExitCompleted \/ Tick
Work   == Dispatch \/ Resume \/ Deliver \/ Delivered
Runner == Asked \/ (\E m \in runner.flushing, ok \in BOOLEAN : Flushed(m, ok))
          \/ Accept \/ Enqueue \/ Wake \/ TurnEnds \/ Exit
Crashes == RunnerCrash \/ DaemonCrash \/ DaemonBoot

Next == Retirement \/ Parking \/ Supervision \/ Work \/ Runner \/ Crashes

Spec == Init /\ [][Next]_vars

\* Both processes get on with what they have begun, the tick and the exit handlers run,
\* a daemon that died is started again.  Nobody has to park, dispatch or resume.
Fairness ==
  /\ WF_vars(Prepared) /\ WF_vars(Committed) /\ WF_vars(Cancelled) /\ WF_vars(LateAnswer)
  /\ WF_vars(NoAnswer) /\ WF_vars(Landing)
  /\ WF_vars(ChildExit) /\ WF_vars(ExitCompleted) /\ WF_vars(Tick)
  /\ WF_vars(Deliver) /\ WF_vars(Delivered)
  /\ WF_vars(Asked) /\ WF_vars(\E m \in runner.flushing : Flushed(m, TRUE))
  /\ WF_vars(Accept) /\ WF_vars(Enqueue) /\ WF_vars(TurnEnds) /\ WF_vars(Exit)
  /\ WF_vars(DaemonBoot)

FairSpec == Spec /\ Fairness

----------------------------------------------------------------------------
(* Properties *)

RecordType == [parked : BOOLEAN, requested : BOOLEAN, intent : Token, intentPid : 1 .. MaxRunners,
               pid : 1 .. MaxRunners, inTurn : BOOLEAN]
RequestType == [verb : Verb, token : Token]
RunnerType == [pid : 1 .. MaxRunners, alive : BOOLEAN, prep : Token, ready : BOOLEAN,
               committed : Token, flushing : SUBSET RequestType,
               accepting : BOOLEAN, busy : BOOLEAN]
FenceType == [phase : {"preparing", "committing"}, token : Token,
              cancelled : BOOLEAN, pc : Verb \cup {"idle", "exit"}] \cup {Open}
SeatType  == [state : {"live", "respawning", "retiring", "gone", "orphan"}, intentional : BOOLEAN]

\* Every variable holds what the code can put there; only a preparation that is there is
\* ready.
TypeOK ==
  /\ record \in RecordType /\ runner \in RunnerType /\ fence \in FenceType /\ seat \in SeatType
  /\ runner.ready => runner.prep # NoToken
  /\ wire \in Seq([verb : Verb \cup {"words"}, token : Token])
  /\ answers \in Seq([verb : Verb \cup {"words"}, token : Token, ok : BOOLEAN])
  /\ {up, exitHook} \subseteq BOOLEAN
  /\ words \in {"none", "held", "starting", "sent"}
  /\ {parks, spoken, crashes, timeouts} \subseteq Nat

\* Whoever writes it, the landing of a retirement (concourseWorkers.ts:2557), the exit
\* handler (2590), the tick and the boot (1668, 1679), park-all (2472) or a requested park
\* (2610): a session is called parked over a living runner only in the step that tells
\* this runner to go.  A child that has just been respawned is the exception, and
\* ParkedMeansLeaving says what becomes of it.
ParkedOrLeaving ==
  [][~record.parked /\ record'.parked /\ runner'.pid = runner.pid =>
       ~runner.alive \/ seat'.state = "retiring"]_vars

\* "no runner by intent" (stateLifecycle.ts:475): a runner that lives under a parked
\* record is on its way out.
ParkedMeansLeaving ==
  record.parked /\ runner.alive => seat.state \in {"retiring", "orphan"}

\* A park leaves no respawn behind it: "a dead runner parks at once, and the roster is told
\* to drop any pending crash-respawn under it" (prove-parked-state.ts:128).
ParkedNotRespawned == record.parked => seat.state # "respawning"

\* "finishes its turn, then parks" (main.ts:744): a requested park comes about, or the
\* operator takes it back.
RequestedParks == record.requested ~> ~record.requested

\* While a runner that has agreed to leave still lives, its session's record carries the
\* intent it agreed to: whatever answers were lost or late and whoever died, a daemon
\* that finds it dead can tell a park from a crash.
CommittedIsIntended ==
  runner.alive /\ runner.committed # NoToken =>
    record.intent = runner.committed /\ record.intentPid = runner.pid

\* The roster never starts a new child for a runner that left because it was asked to.
CommittedNotRespawned == seat.state = "respawning" => runner.committed = NoToken

\* The handshake implements SessionLife; above all, the intent of a dead runner lands.
Life == INSTANCE SessionLife WITH
  alive     <- runner.alive,
  intended  <- record.intent # NoToken /\ ~record.parked,
  committed <- runner.committed # NoToken /\ ~record.parked,
  parked    <- record.parked

LifeSpec == Life!Spec

\* The session of a runner that has agreed to leave is parked, unless somebody revives it
\* before: through any one crash and any lost answer.
CommittedParks == \A p \in 1 .. MaxRunners :
  (runner.pid = p /\ runner.committed # NoToken) ~> (record.parked \/ runner.pid > p)

\* "it delivers once the park has landed" (concourseDispatch.ts:712): once the record
\* says parked, dispatches to the session are no longer held.
ParkedIsOpen == record.parked ~> (record.intent = NoToken /\ ~Fenced)
=============================================================================
