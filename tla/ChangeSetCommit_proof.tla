------------------------ MODULE ChangeSetCommit_proof ------------------------
(***************************************************************************)
(* Proofs about ChangeSetCommit, for every value of its constants.  The    *)
(* inductive invariant IInv is the type invariant, what each actor record  *)
(* looks like at each pc (Shape), and who may touch which operation (Live).*)
(***************************************************************************)
EXTENDS ChangeSetCommit, FiniteSetTheorems, TLAPS

Stepping   == {"prepared", "probe", "write", "verify"}
Undoing    == {"comp", "undo", "reread"}
Recovering == {"restore", "restored", "settle"}

\* What an actor's record says of its pc.
Shaped(s) ==
  /\ s.pc = "idle" => s.plan = NoPlan
  /\ s.pc = "lock" => s.left # {}
  /\ s.pc \notin {"idle", "sweep"} \cup Recovering => s.plan \in Plan
  /\ s.op # 0 => s.pc \in Stepping \cup {"threw"} \cup Undoing
  /\ s.pc \in Stepping \cup {"threw"} => s.op # 0
  /\ s.pc \in Undoing => (s.op # 0 <=> s.job = 0)
  /\ s.job # 0 => s.pc \in Undoing \cup Recovering /\ s.snap \in Record
  /\ s.pc \in Recovering => s.job # 0 /\ s.verdict # "none"
  /\ s.pc \in {"lock", "probe", "write", "verify", "threw"} \cup Undoing => s.left \subseteq DOMAIN s.plan
  /\ s.pc \in {"restore", "restored"} => s.left \subseteq DOMAIN s.snap.plan

Shape == \A a \in Actor : Shaped(act[a])

\* Every operation an actor knows has been journaled.
Known(s) == s.op <= opCount /\ s.job <= opCount /\ \A e \in s.seen : e[1] <= opCount

\* An operation has one run at most, in the process its record names.
Live ==
  /\ \A r \in Op : r > opCount => journal[r] = NoRecord
  /\ \A a \in Actor : Known(act[a])
  /\ \A a \in Actor : act[a].op # 0 => writer[act[a].op] = ProcOf[a]
  /\ \A a, b \in Actor : a # b /\ act[a].op # 0 => act[a].op # act[b].op

IInv == TypeOK /\ Shape /\ Live /\ RecordFollowsRun /\ RecoveryLeavesLiveRuns
------------------------------------------------------------------------------
(* Steps of one actor in general *)

\* TypeOK without the journal and the actors.
RestTyped ==
  /\ disk \in [File -> Content]
  /\ temps \in [Op -> SUBSET File]
  /\ bundle \in [Plan -> Nat]
  /\ ahead \in [Actor -> SUBSET Actor]
  /\ booted \in [Proc -> BOOLEAN]
  /\ crashes \in Nat /\ faults \in Nat /\ edits \in Nat

\* A step after which the record of b's operation still says where b is.
Follows(b) == act[b].op # 0 => journal'[act[b].op].state \in StatesAt(act[b].pc)

LEMMA QuietFollows ==
  ASSUME IInv, journal' = journal
  PROVE  \A b \in Actor : Follows(b)
BY DEF IInv, RecordFollowsRun, Follows

\* A step that turns actor a's record into s keeps IInv, if s is well formed, if s
\* adopts no operation but one nobody runs, and if no other run lost its record.
LEMMA ActorStep ==
  ASSUME IInv, RestTyped', ActorAssumption, journal' \in [Op -> Record \cup {NoRecord}],
         NEW a \in Actor, NEW s \in ActorState, act' = [act EXCEPT ![a] = s],
         opCount' = opCount, writer' = writer, Shaped(s), Known(s),
         s.op \in {0, act[a].op},
         s.op # 0 => journal'[s.op].state \in StatesAt(s.pc),
         s.job # 0 => /\ \A b \in Actor : b # a => act[b].op # s.job
                      /\ s.op # s.job
                      /\ writer[s.job] \in {Dead, ProcOf[a]},
         \A b \in Actor : b # a => Follows(b),
         \A r \in Op : r > opCount => journal'[r] = journal[r]
  PROVE  IInv'
<1>0. act \in [Actor -> ActorState] /\ act' \in [Actor -> ActorState]
  BY DEF IInv, TypeOK
<1>1. act'[a] = s /\ \A b \in Actor : b # a => act'[b] = act[b]
  BY <1>0
<1>2. TypeOK'
  BY <1>0 DEF IInv, TypeOK, RestTyped
<1>3. Shape'
  BY <1>1 DEF IInv, Shape
<1>4. Live'
  <2>1. \A r \in Op : r > opCount' => journal'[r] = NoRecord
    BY DEF IInv, Live
  <2>2. \A b \in Actor : Known(act[b])' 
    BY <1>1 DEF IInv, Live, Known
  <2>3. \A b \in Actor : act'[b].op # 0 => writer'[act'[b].op] = ProcOf[b]
    BY <1>1 DEF IInv, Live
  <2>4. \A b, c \in Actor : b # c /\ act'[b].op # 0 => act'[b].op # act'[c].op
    BY <1>1 DEF IInv, Live
  <2> QED BY <2>1, <2>2, <2>3, <2>4 DEF Live
<1>5. RecordFollowsRun'
  BY <1>1 DEF IInv, RecordFollowsRun, Follows
<1>6. RecoveryLeavesLiveRuns'
  BY <1>1 DEF IInv, RecoveryLeavesLiveRuns
<1> QED BY <1>2, <1>3, <1>4, <1>5, <1>6 DEF IInv

\* The special case of a step that leaves the journal alone and adopts nothing.
LEMMA QuietStep ==
  ASSUME IInv, RestTyped', ActorAssumption, journal' = journal,
         NEW a \in Actor, NEW s \in ActorState, act' = [act EXCEPT ![a] = s],
         opCount' = opCount, writer' = writer, Shaped(s), s.seen \subseteq act[a].seen,
         s.op \in {0, act[a].op}, s.op # 0 => StatesAt(act[a].pc) \subseteq StatesAt(s.pc),
         s.job \in {0, act[a].job}
  PROVE  IInv'
<1>1. Known(s)
  BY DEF IInv, Live, Known, TypeOK, Op, ActorState, BoundAssumption
<1>2. s.op # 0 => journal'[s.op].state \in StatesAt(s.pc)
  BY DEF IInv, RecordFollowsRun
<1>3. s.job # 0 => /\ \A b \in Actor : b # a => act[b].op # s.job
                   /\ s.op # s.job
                   /\ writer[s.job] \in {Dead, ProcOf[a]}
  BY DEF IInv, RecoveryLeavesLiveRuns
<1>4. journal' \in [Op -> Record \cup {NoRecord}]
  BY DEF IInv, TypeOK
<1>5. \A b \in Actor : Follows(b)
  BY DEF IInv, RecordFollowsRun, Follows
<1> QED BY <1>1, <1>2, <1>3, <1>4, <1>5, ActorStep

LEMMA Local ==
  ASSUME IInv, NEW a \in Actor
  PROVE  /\ act \in [Actor -> ActorState] /\ act[a] \in ActorState
         /\ Shaped(act[a]) /\ Known(act[a]) /\ RestTyped
BY DEF IInv, TypeOK, Shape, Live, RestTyped

\* The record of a run that returns.
LEMMA Returned ==
  ASSUME NEW o \in Outcome
  PROVE  LET s == [Idle EXCEPT !.outcome = o]
         IN  /\ s \in ActorState /\ Shaped(s) /\ s.op = 0 /\ s.job = 0 /\ s.seen = {}
             /\ s.plan = NoPlan
BY DEF Idle, ActorState, PC, Outcome, Shaped, Stepping, Undoing, Recovering, NoRecord

LEMMA ReturnTyped ==
  ASSUME IInv, NEW a \in Actor, NEW o \in Outcome, Return(a, o)
  PROVE  ahead' \in [Actor -> SUBSET Actor]
BY DEF IInv, TypeOK, Return

LEMMA BeforeTyped ==
  ASSUME IInv, NEW a \in Actor, NEW p, NEW S, ahead' = [ahead EXCEPT ![a] = Before(a, p, S)]
  PROVE  ahead' \in [Actor -> SUBSET Actor]
BY DEF IInv, TypeOK, Before, Peers

LEMMA TargetsTyped ==
  ASSUME PlanAssumption, NEW p \in Plan
  PROVE  /\ DOMAIN p \subseteq File
         /\ \A f \in DOMAIN p : p[f].from \in Content /\ p[f].to \in Content
BY DEF PlanAssumption

------------------------------------------------------------------------------
(* The run: locks, checks, staging *)

LEMMA ReturnQuiet ==
  ASSUME IInv, RestTyped', ActorAssumption, journal' = journal, opCount' = opCount,
         writer' = writer, NEW a \in Actor, NEW o \in Outcome, Return(a, o)
  PROVE  IInv'
<1> DEFINE s == [Idle EXCEPT !.outcome = o]
<1>1. s \in ActorState /\ Shaped(s) /\ s.op = 0 /\ s.job = 0 /\ s.seen = {}
  BY Returned
<1>2. act' = [act EXCEPT ![a] = s]
  BY DEF Return
<1> HIDE DEF s
<1> QED BY <1>1, <1>2, QuietStep

LEMMA BeginStep ==
  ASSUME IInv, ActorAssumption, PlanAssumption, NEW a \in Actor, NEW p \in Plan, Begin(a, p)
  PROVE  IInv'
<1> DEFINE s == [Idle EXCEPT !.pc = "lock", !.plan = p, !.left = DOMAIN p]
<1>0. DOMAIN p \subseteq File /\ DOMAIN p # {}
  BY PlanAssumption DEF PlanAssumption
<1>1. s \in ActorState /\ Shaped(s) /\ s.op = 0 /\ s.job = 0 /\ s.seen = {}
  BY <1>0 DEF Idle, ActorState, PC, Outcome, Shaped, Stepping, Undoing, Recovering, NoRecord
<1>2. act' = [act EXCEPT ![a] = s]
  BY DEF Begin
<1>3. RestTyped' /\ journal' = journal /\ opCount' = opCount /\ writer' = writer
  BY Local, BeforeTyped DEF Begin, RestTyped
<1> HIDE DEF s
<1> QED BY <1>1, <1>2, <1>3, QuietStep

LEMMA LockStep ==
  ASSUME IInv, ActorAssumption, NEW a \in Actor, Lock(a)
  PROVE  IInv'
<1>1. PICK f \in act[a].left :
        /\ act' = [act EXCEPT ![a].left = @ \ {f},
                              ![a].pc = IF act[a].left = {f} THEN "start" ELSE "lock"]
        /\ ahead' = [ahead EXCEPT ![a] = Before(a, act[a].plan, act[a].left \ {f})]
  BY DEF Lock
<1> DEFINE s == [act[a] EXCEPT !.left = @ \ {f},
                               !.pc = IF act[a].left = {f} THEN "start" ELSE "lock"]
<1>2. act[a].pc = "lock" /\ Shaped(act[a]) /\ act[a] \in ActorState
  BY Local DEF Lock
<1>3. s \in ActorState
  BY <1>2 DEF ActorState, PC
<1>4. Shaped(s) /\ s.op = 0 /\ s.job = 0 /\ s.seen = act[a].seen
  BY <1>2 DEF Shaped, Stepping, Undoing, Recovering, ActorState
<1>5. act' = [act EXCEPT ![a] = s]
  BY <1>1, Local
<1>6. RestTyped' /\ journal' = journal /\ opCount' = opCount /\ writer' = writer
  <2>1. ahead' \in [Actor -> SUBSET Actor]
    BY <1>1, BeforeTyped
  <2> QED BY <2>1, Local DEF Lock, RestTyped
<1> HIDE DEF s
<1> QED BY <1>3, <1>4, <1>5, <1>6, QuietStep

LEMMA CancelStep ==
  ASSUME IInv, ActorAssumption, NEW a \in Actor, Cancel(a)
  PROVE  IInv'
<1>1. RestTyped'
  BY Local, ReturnTyped DEF Cancel, RestTyped, Outcome
<1> QED BY <1>1, ReturnQuiet DEF Cancel, Outcome

\* Sets of operations are finite.
LEMMA OpsFinite ==
  ASSUME BoundAssumption, NEW S \in SUBSET Op
  PROVE  Cardinality(S) \in Nat
<1>1. MaxOps \in Int
  BY DEF BoundAssumption
<1>2. IsFiniteSet(Op)
  BY <1>1, FS_Interval DEF Op
<1> QED BY <1>2, FS_Subset, FS_CardinalityType

LEMMA CheckStep ==
  ASSUME IInv, ActorAssumption, BoundAssumption, NEW a \in Actor, Check(a)
  PROVE  IInv'
<1>1. RestTyped' /\ journal' = journal /\ opCount' = opCount /\ writer' = writer
  BY Local, ReturnTyped DEF Check, RestTyped, Outcome
<1>2. CASE Return(a, "replayed") \/ Return(a, "stale")
  BY <1>1, <1>2, ReturnQuiet DEF Outcome
<1>3. CASE act' = [act EXCEPT ![a].pc = "checked", ![a].rev = Cardinality(Priors(a))]
  <2> DEFINE s == [act[a] EXCEPT !.pc = "checked", !.rev = Cardinality(Priors(a))]
  <2>1. act[a].pc = "check" /\ Shaped(act[a]) /\ act[a] \in ActorState
    BY Local DEF Check
  <2>2. Cardinality(Priors(a)) \in Nat
    BY OpsFinite DEF Priors
  <2>3. s \in ActorState
    BY <2>1, <2>2 DEF ActorState, PC
  <2>4. Shaped(s) /\ s.op = 0 /\ s.job = 0 /\ s.seen = act[a].seen
    BY <2>1 DEF Shaped, Stepping, Undoing, Recovering, ActorState
  <2>5. act' = [act EXCEPT ![a] = s]
    BY <1>3, Local
  <2> HIDE DEF s
  <2> QED BY <1>1, <2>3, <2>4, <2>5, QuietStep
<1> QED BY <1>2, <1>3 DEF Check

LEMMA BundleWritten ==
  ASSUME IInv, PlanAssumption, NEW p, WriteBundle(p)
  PROVE  bundle' \in [Plan -> Nat]
<1>1. \A q \in Plan : Cardinality(NewerIn(Plan \ {p}, q)) \in Nat
  BY FS_Subset, FS_CardinalityType DEF PlanAssumption, NewerIn
<1>2. \A q \in Plan : (IF q = p THEN 1 ELSE IF bundle[q] = 0 THEN 0
                       ELSE 2 + Cardinality(NewerIn(Plan \ {p}, q))) \in Nat
  <2>1. TAKE q \in Plan
  <2> DEFINE n == Cardinality(NewerIn(Plan \ {p}, q))
  <2>2. n \in Nat
    BY <1>1
  <2> HIDE DEF n
  <2>3. 2 + n \in Nat
    BY <2>2
  <2> QED BY <2>3 DEF n
<1> QED BY <1>2 DEF WriteBundle

LEMMA StageStep ==
  ASSUME IInv, ActorAssumption, PlanAssumption, NEW a \in Actor, Stage(a)
  PROVE  IInv'
<1> DEFINE s == [act[a] EXCEPT !.pc = "staged", !.staged = Staged(act[a].plan)]
<1>1. act[a].pc = "checked" /\ Shaped(act[a]) /\ act[a] \in ActorState
  BY Local DEF Stage
<1>2. act[a].plan \in Plan
  BY <1>1 DEF Shaped, Recovering
<1>3. Staged(act[a].plan) \subseteq File
  BY <1>2, TargetsTyped DEF Staged
<1>4. s \in ActorState
  BY <1>1, <1>3 DEF ActorState, PC
<1>5. Shaped(s) /\ s.op = 0 /\ s.job = 0 /\ s.seen = act[a].seen
  BY <1>1 DEF Shaped, Stepping, Undoing, Recovering, ActorState
<1>6. act' = [act EXCEPT ![a] = s]
  BY Local DEF Stage
<1>7. bundle' \in [Plan -> Nat]
  BY BundleWritten DEF Stage
<1>8. RestTyped' /\ journal' = journal /\ opCount' = opCount /\ writer' = writer
  BY <1>7, Local DEF Stage, RestTyped
<1> HIDE DEF s
<1> QED BY <1>4, <1>5, <1>6, <1>8, QuietStep

\* A run that fails before it has an operation.
LEMMA FailedStep ==
  ASSUME IInv, RestTyped', ActorAssumption, journal' = journal, opCount' = opCount,
         writer' = writer, NEW a \in Actor, act[a].pc \in {"check", "checked", "staged", "open"},
         \/ act' = [act EXCEPT ![a].pc = "failed"]
         \/ act' = [act EXCEPT ![a].pc = "failed", ![a].staged = {}]
  PROVE  IInv'
<1>1. Shaped(act[a]) /\ act[a] \in ActorState
  BY Local
<1>2. PICK g \in {act[a].staged, {}} : act' = [act EXCEPT ![a] = [act[a] EXCEPT !.pc = "failed", !.staged = g]]
  <2>1. [act[a] EXCEPT !.pc = "failed", !.staged = act[a].staged] = [act[a] EXCEPT !.pc = "failed"]
    BY <1>1 DEF ActorState
  <2> QED BY <2>1, Local
<1> DEFINE s == [act[a] EXCEPT !.pc = "failed", !.staged = g]
<1>3. s \in ActorState
  BY <1>1, <1>2 DEF ActorState, PC
<1>4. Shaped(s) /\ s.op = 0 /\ s.job = 0 /\ s.seen = act[a].seen
  BY <1>1 DEF Shaped, Stepping, Undoing, Recovering, ActorState
<1> HIDE DEF s
<1> QED BY <1>2, <1>3, <1>4, QuietStep DEF s

LEMMA StageFailsStep ==
  ASSUME IInv, ActorAssumption, PlanAssumption, NEW a \in Actor, StageFails(a)
  PROVE  IInv'
<1>1. bundle' \in [Plan -> Nat]
  BY BundleWritten, Local DEF StageFails, RestTyped
<1>2. RestTyped' /\ journal' = journal /\ opCount' = opCount /\ writer' = writer
  BY <1>1, Local DEF StageFails, Fault, RestTyped
<1> QED BY <1>2, FailedStep DEF StageFails

------------------------------------------------------------------------------
(* runJournaledOperation *)

LEMMA LockTimesOutStep ==
  ASSUME IInv, ActorAssumption, NEW a \in Actor, LockTimesOut(a)
  PROVE  IInv'
<1>1. RestTyped' /\ journal' = journal /\ opCount' = opCount /\ writer' = writer
  BY Local DEF LockTimesOut, RestTyped
<1> QED BY <1>1, FailedStep DEF LockTimesOut

\* An operation that isJournalWriterAlive denies is run by nobody, here or elsewhere.
LEMMA NotAliveNotRun ==
  ASSUME IInv, ActorAssumption, NEW a \in Actor, NEW r \in Op, ~WriterAlive(a, r)
  PROVE  /\ \A b \in Actor : act[b].op # r
         /\ writer[r] \in {Dead, ProcOf[a]}
<1>1. writer[r] \in {Dead, ProcOf[a]}
  BY DEF WriterAlive
<1>2. SUFFICES ASSUME NEW b \in Actor, act[b].op = r PROVE FALSE
  BY <1>1
<1>3. r # 0
  BY DEF Op, BoundAssumption
<1>4. writer[r] = ProcOf[b]
  BY <1>2, <1>3 DEF IInv, Live
<1>5. ProcOf[b] = ProcOf[a]
  BY <1>1, <1>4 DEF ActorAssumption
<1> QED BY <1>2, <1>5 DEF WriterAlive, Peers

LEMMA PrepareStep ==
  ASSUME IInv, ActorAssumption, PlanAssumption, NEW a \in Actor, Prepare(a)
  PROVE  IInv'
<1>0. act[a].pc = "staged" /\ Shaped(act[a]) /\ act[a] \in ActorState /\ Known(act[a])
  BY Local DEF Prepare
<1>1. RestTyped' /\ opCount' = opCount /\ writer' = writer
  BY Local, ReturnTyped DEF Prepare, RestTyped, Outcome
<1>2. CASE journal' = journal /\ (Return(a, "replayed") \/ Return(a, "in-flight"))
  BY <1>1, <1>2, ReturnQuiet DEF Outcome
<1>3. CASE journal' = journal /\ act' = [act EXCEPT ![a].pc = "open"]
  <2> DEFINE s == [act[a] EXCEPT !.pc = "open"]
  <2>1. s \in ActorState
    BY <1>0 DEF ActorState, PC
  <2>2. Shaped(s) /\ s.op = 0 /\ s.job = 0 /\ s.seen = act[a].seen
    BY <1>0 DEF Shaped, Stepping, Undoing, Recovering, ActorState
  <2>3. act' = [act EXCEPT ![a] = s]
    BY <1>3, Local
  <2> HIDE DEF s
  <2> QED BY <1>1, <1>3, <2>1, <2>2, <2>3, QuietStep
<1>4. ASSUME NEW r \in SameKey(a) \cap OpenOps, ~WriterAlive(a, r),
             journal' = [journal EXCEPT ![r].state = "compensating", ![r].note = {}],
             act' = [act EXCEPT ![a].pc = "comp", ![a].job = r, ![a].left = Targets(a),
                                ![a].snap = journal[r]]
      PROVE  IInv'
  <2> DEFINE s == [act[a] EXCEPT !.pc = "comp", !.job = r, !.left = Targets(a),
                                 !.snap = journal[r]]
  <2>1. r \in Op /\ r # 0 /\ r <= opCount
    BY DEF OpenOps, Open, NoRecord, Op, IInv, Live, TypeOK, BoundAssumption
  <2>2. journal[r] \in Record
    BY <2>1 DEF OpenOps, Open, NoRecord, IInv, TypeOK
  <2>3. act[a].plan \in Plan /\ Targets(a) = DOMAIN act[a].plan /\ Targets(a) \subseteq File
    BY <1>0, TargetsTyped DEF Shaped, Recovering, Targets, PlanAssumption
  <2>4. s \in ActorState
    BY <1>0, <2>1, <2>2, <2>3 DEF ActorState, PC
  <2>5. Shaped(s) /\ s.op = 0 /\ s.job = r /\ s.seen = act[a].seen
    BY <1>0, <2>1, <2>2, <2>3 DEF Shaped, Stepping, Undoing, Recovering, ActorState
  <2>6. Known(s)
    BY <1>0, <2>1, <2>5 DEF Known, IInv, TypeOK
  <2>7. act' = [act EXCEPT ![a] = s]
    BY <1>4, Local
  <2>8. journal' \in [Op -> Record \cup {NoRecord}]
    BY <1>4, <2>1, <2>2 DEF IInv, TypeOK, Record, Open
  <2>9. \A q \in Op : q # r => journal'[q] = journal[q]
    BY <1>4 DEF IInv, TypeOK
  <2>10. (\A b \in Actor : act[b].op # r) /\ writer[r] \in {Dead, ProcOf[a]}
    BY <1>4, <2>1, NotAliveNotRun
  <2>11. \A b \in Actor : act[b].op \in {0} \cup Op
    BY DEF IInv, TypeOK, ActorState
  <2>12. \A b \in Actor : b # a => Follows(b)
    BY <2>9, <2>10, <2>11 DEF IInv, RecordFollowsRun, Follows
  <2>13. \A q \in Op : q > opCount => journal'[q] = journal[q]
    BY <2>1, <2>9 DEF IInv, TypeOK, Op
  <2>14. s.job # 0 => /\ \A b \in Actor : b # a => act[b].op # s.job
                      /\ s.op # s.job
                      /\ writer[s.job] \in {Dead, ProcOf[a]}
    BY <2>1, <2>5, <2>10
  <2> HIDE DEF s
  <2> QED BY <1>1, <2>4, <2>5, <2>6, <2>7, <2>8, <2>12, <2>13, <2>14, ActorStep
<1> QED BY <1>2, <1>3, <1>4 DEF Prepare

\* A publication over the record of an operation nobody runs.
LEMMA PrepareFailsStep ==
  ASSUME IInv, ActorAssumption, BoundAssumption, NEW a \in Actor, PrepareFails(a)
  PROVE  IInv'
<1>1. PICK r \in Op : /\ Incomplete(a, r) /\ ~WriterAlive(a, r)
                      /\ PublishFails(r, [journal[r] EXCEPT !.state = "compensating", !.note = {}])
  BY DEF PrepareFails
<1>2. RestTyped' /\ opCount' = opCount /\ writer' = writer
  BY <1>1, Local DEF PrepareFails, PublishFails, Fault, RestTyped
<1>3. act[a].pc = "staged" /\ r \in OpenOps
  BY <1>1 DEF Incomplete, First
<1>4. CASE journal' = journal
  BY <1>2, <1>3, <1>4, FailedStep DEF PrepareFails
<1> DEFINE R == [journal[r] EXCEPT !.state = "compensating", !.note = {}]
<1>5. CASE journal' = [journal EXCEPT ![r] = R]
  <2> DEFINE s == [act[a] EXCEPT !.pc = "failed", !.staged = {}]
  <2>1. Shaped(act[a]) /\ act[a] \in ActorState /\ Known(act[a])
    BY Local
  <2>2. s \in ActorState
    BY <2>1 DEF ActorState, PC
  <2>3. Shaped(s) /\ s.op = 0 /\ s.job = 0 /\ s.seen = act[a].seen
    BY <1>3, <2>1 DEF Shaped, Stepping, Undoing, Recovering, ActorState
  <2>4. act' = [act EXCEPT ![a] = s]
    BY Local DEF PrepareFails
  <2>5. Known(s)
    BY <2>1, <2>3 DEF Known, IInv, TypeOK
  <2>6. r <= opCount /\ journal[r] \in Record
    BY <1>3 DEF OpenOps, Open, NoRecord, Op, IInv, Live, TypeOK, BoundAssumption
  <2>7. R \in Record
    BY <2>6 DEF Record, Open
  <2> HIDE DEF s, R
  <2>8. journal' \in [Op -> Record \cup {NoRecord}] /\ \A q \in Op : q # r => journal'[q] = journal[q]
    BY <1>5, <2>7 DEF IInv, TypeOK
  <2>9. \A b \in Actor : act[b].op # r /\ act[b].op \in {0} \cup Op
    BY <1>1, NotAliveNotRun DEF IInv, TypeOK, ActorState
  <2>10. \A b \in Actor : b # a => Follows(b)
    BY <2>8, <2>9 DEF IInv, RecordFollowsRun, Follows
  <2>11. \A q \in Op : q > opCount => journal'[q] = journal[q]
    BY <2>6, <2>8 DEF IInv, TypeOK, Op
  <2> QED BY <1>2, <2>2, <2>3, <2>4, <2>5, <2>8, <2>10, <2>11, ActorStep
<1> QED BY <1>1, <1>4, <1>5 DEF PublishFails

LEMMA RecTyped ==
  ASSUME IInv, ActorAssumption, NEW a \in Actor, act[a].plan \in Plan,
         NEW x \in Open \cup Terminal
  PROVE  Rec(a, x) \in Record /\ Rec(a, x).state = x
BY DEF Rec, Record, IInv, TypeOK, ActorState, ActorAssumption

LEMMA OpenOpStep ==
  ASSUME IInv, ActorAssumption, BoundAssumption, NEW a \in Actor, OpenOp(a)
  PROVE  IInv'
<1> DEFINE r == opCount + 1
           s == [act[a] EXCEPT !.pc = "prepared", !.op = r, !.staged = {}]
           e == Rec(a, "prepared")
<1>1. act[a].pc = "open" /\ Shaped(act[a]) /\ act[a] \in ActorState /\ Known(act[a])
  BY Local DEF OpenOp
<1>2. r \in Op /\ r # 0 /\ r > opCount /\ r \in Int /\ opCount \in Int
  BY DEF OpenOp, Op, IInv, TypeOK, BoundAssumption
<1>3. act[a].plan \in Plan /\ act[a].op = 0 /\ act[a].job = 0
  BY <1>1 DEF Shaped, Recovering, Stepping, Undoing
<1>4. /\ act' = [act EXCEPT ![a] = s] /\ journal' = [journal EXCEPT ![r] = e]
      /\ writer' = [writer EXCEPT ![r] = ProcOf[a]] /\ opCount' = r
      /\ temps' = [temps EXCEPT ![r] = act[a].staged]
      /\ UNCHANGED <<disk, bundle, ahead, booted, crashes, faults, edits>>
  BY Local DEF OpenOp
<1>5. e \in Record
  BY <1>1, <1>3, RecTyped DEF Open
<1> HIDE DEF r, e
<1>6. s \in ActorState
  BY <1>1, <1>2 DEF ActorState, PC
<1>7. Shaped(s) /\ s.op = r /\ s.job = 0 /\ s.seen = act[a].seen /\ s.pc = "prepared"
  BY <1>1, <1>2, <1>3 DEF Shaped, Stepping, Undoing, Recovering, ActorState
<1> HIDE DEF s
<1>8. act' \in [Actor -> ActorState] /\ act'[a] = s /\ \A b \in Actor : b # a => act'[b] = act[b]
  BY <1>4, <1>6, Local
<1>9. \A b \in Actor : act[b].op <= opCount /\ act[b].job <= opCount /\ act[b].op \in {0} \cup Op
                        /\ act[b].job \in {0} \cup Op /\ act[b].op # r /\ act[b].job # r
  BY <1>2 DEF IInv, Live, Known, TypeOK, ActorState, Op, BoundAssumption
<1>10. TypeOK'
  <2>1. journal' \in [Op -> Record \cup {NoRecord}]
    BY <1>2, <1>4, <1>5 DEF IInv, TypeOK
  <2>2. writer' \in [Op -> Proc \cup {Dead}]
    BY <1>2, <1>4 DEF IInv, TypeOK, ActorAssumption
  <2>3. temps' \in [Op -> SUBSET File]
    BY <1>1, <1>2, <1>4 DEF IInv, TypeOK, ActorState
  <2>4. opCount' \in 0 .. MaxOps
    BY <1>2, <1>4 DEF Op, BoundAssumption
  <2> QED BY <1>4, <1>8, <2>1, <2>2, <2>3, <2>4 DEF IInv, TypeOK
<1>11. Shape'
  BY <1>7, <1>8 DEF IInv, Shape
<1>12. \A q \in Op : q # r => journal'[q] = journal[q] /\ writer'[q] = writer[q]
  BY <1>4 DEF IInv, TypeOK
<1>13. journal'[r] = e /\ writer'[r] = ProcOf[a]
  BY <1>2, <1>4 DEF IInv, TypeOK
<1>14. Live'
  <2>1. \A q \in Op : q > opCount' => journal'[q] = NoRecord
    BY <1>2, <1>4, <1>12 DEF IInv, Live, Op
  <2>2. \A b \in Actor : Known(act[b])'
    <3>1. \A b \in Actor : Known(act[b])
      BY DEF IInv, Live
    <3>2. \A b \in Actor : act[b].seen \subseteq Op \X Record
      BY DEF IInv, TypeOK, ActorState
    <3>3. \A b \in Actor : \A x \in act[b].seen : x[1] <= opCount'
      BY <1>2, <1>4, <3>1, <3>2 DEF Known, r, Op, BoundAssumption
    <3>4. \A b \in Actor : act[b].op <= opCount' /\ act[b].job <= opCount'
      BY <1>2, <1>4, <1>9 DEF r, Op, BoundAssumption
    <3> QED BY <1>2, <1>4, <1>7, <1>8, <3>3, <3>4 DEF Known, Op, BoundAssumption
  <2>3. \A b \in Actor : act'[b].op # 0 => writer'[act'[b].op] = ProcOf[b]
    BY <1>7, <1>8, <1>9, <1>12, <1>13 DEF IInv, Live
  <2>4. \A b, c \in Actor : b # c /\ act'[b].op # 0 => act'[b].op # act'[c].op
    BY <1>7, <1>8, <1>9 DEF IInv, Live
  <2> QED BY <2>1, <2>2, <2>3, <2>4 DEF Live
<1>15. RecordFollowsRun'
  BY <1>7, <1>8, <1>9, <1>12, <1>13 DEF IInv, RecordFollowsRun, StatesAt, e, Rec
<1>16. RecoveryLeavesLiveRuns'
  BY <1>7, <1>8, <1>9, <1>12 DEF IInv, RecoveryLeavesLiveRuns
<1> QED BY <1>10, <1>11, <1>14, <1>15, <1>16 DEF IInv

\* The record is published all the same: an operation that nobody runs.
LEMMA OpenOpFailsStep ==
  ASSUME IInv, ActorAssumption, BoundAssumption, NEW a \in Actor, OpenOpFails(a)
  PROVE  IInv'
<1> DEFINE r == opCount + 1
           s == [act[a] EXCEPT !.pc = "failed", !.staged = {}]
           e == Rec(a, "prepared")
<1>1. act[a].pc = "open" /\ Shaped(act[a]) /\ act[a] \in ActorState /\ Known(act[a])
  BY Local DEF OpenOpFails
<1>2. act[a].plan \in Plan /\ act[a].op = 0 /\ act[a].job = 0
  BY <1>1 DEF Shaped, Recovering, Stepping, Undoing
<1>3. /\ act' = [act EXCEPT ![a] = s] /\ faults' \in Nat
      /\ UNCHANGED <<disk, temps, bundle, ahead, booted, crashes, edits>>
  <2>1. act' = [act EXCEPT ![a] = s]
    BY Local DEF OpenOpFails
  <2>2. faults' \in Nat
    BY DEF OpenOpFails, Fault, IInv, TypeOK
  <2> QED BY <2>1, <2>2 DEF OpenOpFails
<1>4. CASE UNCHANGED <<opCount, journal, writer>>
  <2>1. RestTyped'
    BY <1>3, Local DEF RestTyped
  <2> QED BY <1>1, <1>4, <2>1, FailedStep DEF OpenOpFails
<1>5. CASE /\ r \in Op /\ opCount' = r /\ journal' = [journal EXCEPT ![r] = e]
           /\ writer' = [writer EXCEPT ![r] = ProcOf[a]]
  <2>1. r \in Op /\ r # 0 /\ r > opCount /\ r \in Int /\ opCount \in Int
    BY <1>5 DEF Op, IInv, TypeOK, BoundAssumption
  <2>2. e \in Record
    BY <1>1, <1>2, RecTyped DEF Open
  <2>3. s \in ActorState
    BY <1>1 DEF ActorState, PC
  <2>4. Shaped(s) /\ s.op = 0 /\ s.job = 0 /\ s.seen = act[a].seen
    BY <1>1, <1>2 DEF Shaped, Stepping, Undoing, Recovering, ActorState
  <2> HIDE DEF r, e, s
  <2>5. act' \in [Actor -> ActorState] /\ act'[a] = s /\ \A b \in Actor : b # a => act'[b] = act[b]
    BY <1>3, <2>3, Local
  <2>6. \A b \in Actor : act[b].op <= opCount /\ act[b].job <= opCount /\ act[b].op \in {0} \cup Op
                          /\ act[b].job \in {0} \cup Op /\ act[b].op # r /\ act[b].job # r
    BY <2>1 DEF IInv, Live, Known, TypeOK, ActorState, Op, BoundAssumption
  <2>7. TypeOK'
    <3>1. journal' \in [Op -> Record \cup {NoRecord}]
      BY <2>1, <1>5, <2>2 DEF IInv, TypeOK
    <3>2. writer' \in [Op -> Proc \cup {Dead}]
      BY <2>1, <1>5 DEF IInv, TypeOK, ActorAssumption
    <3>3. opCount' \in 0 .. MaxOps
      BY <2>1, <1>5 DEF Op, BoundAssumption
    <3> QED BY <1>3, <2>5, <3>1, <3>2, <3>3 DEF IInv, TypeOK
  <2>8. Shape'
    BY <2>4, <2>5 DEF IInv, Shape
  <2>9. \A q \in Op : q # r => journal'[q] = journal[q] /\ writer'[q] = writer[q]
    BY <1>5 DEF IInv, TypeOK
  <2>10. Live'
    <3>1. \A q \in Op : q > opCount' => journal'[q] = NoRecord
      BY <2>1, <1>5, <2>9 DEF IInv, Live, Op
    <3>2. \A b \in Actor : Known(act[b])'
      <4>1. \A b \in Actor : Known(act[b]) /\ act[b].seen \subseteq Op \X Record
        BY DEF IInv, Live, TypeOK, ActorState
      <4>2. \A b \in Actor : \A x \in act[b].seen : x[1] <= opCount'
        BY <2>1, <1>5, <4>1 DEF Known, r, Op, BoundAssumption
      <4>3. \A b \in Actor : act[b].op <= opCount' /\ act[b].job <= opCount'
        BY <2>1, <1>5, <2>6 DEF r, Op, BoundAssumption
      <4>4. 0 <= opCount'
        BY <2>1, <1>5 DEF Op, BoundAssumption
      <4> QED BY <2>4, <2>5, <4>2, <4>3, <4>4 DEF Known
    <3>3. \A b \in Actor : act'[b].op # 0 => writer'[act'[b].op] = ProcOf[b]
      BY <2>4, <2>5, <2>6, <2>9 DEF IInv, Live
    <3>4. \A b, c \in Actor : b # c /\ act'[b].op # 0 => act'[b].op # act'[c].op
      BY <2>4, <2>5, <2>6 DEF IInv, Live
    <3> QED BY <3>1, <3>2, <3>3, <3>4 DEF Live
  <2>11. RecordFollowsRun'
    BY <2>4, <2>5, <2>6, <2>9 DEF IInv, RecordFollowsRun
  <2>12. RecoveryLeavesLiveRuns'
    BY <2>4, <2>5, <2>6, <2>9 DEF IInv, RecoveryLeavesLiveRuns
  <2> QED BY <2>7, <2>8, <2>10, <2>11, <2>12 DEF IInv
<1> QED BY <1>4, <1>5 DEF OpenOpFails

\* A run that rewrites the state of its own operation's record disturbs no other.
LEMMA OwnRecord ==
  ASSUME IInv, BoundAssumption, NEW a \in Actor, act[a].op # 0, NEW R \in Record,
         journal' = [journal EXCEPT ![act[a].op] = R]
  PROVE  /\ journal' \in [Op -> Record \cup {NoRecord}]
         /\ journal'[act[a].op] = R
         /\ \A b \in Actor : b # a => Follows(b)
         /\ \A r \in Op : r > opCount => journal'[r] = journal[r]
<1>1. act[a].op \in Op /\ act[a].op <= opCount
  BY DEF IInv, TypeOK, ActorState, Live, Known
<1>5. /\ journal'[act[a].op] = R
      /\ \A r \in Op : r # act[a].op => journal'[r] = journal[r]
      /\ journal' \in [Op -> Record \cup {NoRecord}]
  BY <1>1 DEF IInv, TypeOK
<1>6. \A b \in Actor : act[b].op \in {0} \cup Op /\ (b # a => act[b].op # act[a].op)
  BY DEF IInv, TypeOK, ActorState, Live
<1>7. \A r \in Op : r > opCount => r # act[a].op
  BY <1>1 DEF IInv, TypeOK, Op, BoundAssumption
<1> QED BY <1>1, <1>5, <1>6, <1>7 DEF IInv, RecordFollowsRun, Follows

\* A run that has not thrown finds its record where it left it.
LEMMA OwnRewritten ==
  ASSUME IInv, NEW a \in Actor, act[a].op # 0, act[a].pc # "threw", NEW x \in Open \cup Terminal
  PROVE  /\ journal[act[a].op] \in Record
         /\ [journal[act[a].op] EXCEPT !.state = x] \in Record
         /\ [journal[act[a].op] EXCEPT !.state = x].state = x
<1>1. act[a].op \in Op
  BY DEF IInv, TypeOK, ActorState
<1>2. journal[act[a].op].state # "none"
  BY DEF IInv, RecordFollowsRun, StatesAt
<1>3. journal[act[a].op] \in Record
  BY <1>1, <1>2 DEF IInv, TypeOK, NoRecord
<1> QED BY <1>3 DEF Record

\* Recovery that rewrites the record it works on disturbs no run.
LEMMA JobRecord ==
  ASSUME IInv, BoundAssumption, NEW a \in Actor, act[a].job # 0, NEW R \in Record,
         journal' = [journal EXCEPT ![act[a].job] = R]
  PROVE  /\ journal' \in [Op -> Record \cup {NoRecord}]
         /\ \A b \in Actor : b # a => Follows(b)
         /\ \A r \in Op : r > opCount => journal'[r] = journal[r]
<1>1. act[a].job \in Op /\ act[a].job <= opCount
  BY DEF IInv, TypeOK, ActorState, Live, Known
<1>2. /\ journal' \in [Op -> Record \cup {NoRecord}]
      /\ \A r \in Op : r # act[a].job => journal'[r] = journal[r]
  BY <1>1 DEF IInv, TypeOK
<1>3. \A b \in Actor : act[b].op \in {0} \cup Op /\ act[b].op # act[a].job
  BY DEF IInv, TypeOK, ActorState, RecoveryLeavesLiveRuns
<1>4. \A r \in Op : r > opCount => r # act[a].job
  BY <1>1 DEF IInv, TypeOK, Op, BoundAssumption
<1> QED BY <1>2, <1>3, <1>4 DEF IInv, RecordFollowsRun, Follows

\* The record recovery works on, with another state or other notes, is a record.
LEMMA JobRewritten ==
  ASSUME NEW R \in Record
  PROVE  /\ \A x \in Open \cup Terminal : [R EXCEPT !.state = x] \in Record
         /\ \A N \in SUBSET File : [R EXCEPT !.note = N] \in Record
BY DEF Record

LEMMA ApplyStep ==
  ASSUME IInv, ActorAssumption, PlanAssumption, BoundAssumption, NEW a \in Actor, Apply(a)
  PROVE  IInv'
<1> DEFINE s == [act[a] EXCEPT !.pc = "probe", !.left = Targets(a)]
<1>1. act[a].pc = "prepared" /\ Shaped(act[a]) /\ act[a] \in ActorState /\ Known(act[a])
  BY Local DEF Apply
<1>2. act[a].plan \in Plan /\ act[a].op # 0 /\ act[a].job = 0
  BY <1>1 DEF Shaped, Recovering, Stepping, Undoing
<1>3. Targets(a) = DOMAIN act[a].plan /\ Targets(a) \subseteq File
  BY <1>2, TargetsTyped DEF Targets, PlanAssumption
<1>4. s \in ActorState
  BY <1>1, <1>3 DEF ActorState, PC
<1>5. Shaped(s) /\ Known(s) /\ s.op = act[a].op /\ s.job = 0 /\ s.pc = "probe"
  BY <1>1, <1>2, <1>3 DEF Shaped, Known, Stepping, Undoing, Recovering, ActorState
<1>6. act' = [act EXCEPT ![a] = s]
  BY Local DEF Apply
<1>7. RestTyped' /\ opCount' = opCount /\ writer' = writer
  BY Local DEF Apply, RestTyped
<1> DEFINE R == [journal[act[a].op] EXCEPT !.state = "applying"]
<1>8. journal' = [journal EXCEPT ![act[a].op] = R] /\ R \in Record /\ R.state = "applying"
  BY <1>1, <1>2, OwnRewritten DEF Apply, Open
<1> HIDE DEF s, R
<1>9. /\ journal' \in [Op -> Record \cup {NoRecord}]
      /\ journal'[act[a].op].state = "applying"
      /\ \A b \in Actor : b # a => Follows(b)
      /\ \A r \in Op : r > opCount => journal'[r] = journal[r]
  BY <1>2, <1>8, OwnRecord
<1>10. s.op # 0 => journal'[s.op].state \in StatesAt(s.pc)
  BY <1>5, <1>9 DEF StatesAt
<1> QED BY <1>4, <1>5, <1>6, <1>7, <1>9, <1>10, ActorStep

\* A step of the run throws.
LEMMA ThrowStep ==
  ASSUME IInv, RestTyped', ActorAssumption, PlanAssumption, BoundAssumption, NEW a \in Actor,
         act[a].pc \in Stepping, NEW D \in SUBSET File, Throw(a, D),
         opCount' = opCount, writer' = writer,
         \/ journal' = journal
         \/ \E x \in {"applying", "committed"} :
              journal' = [journal EXCEPT ![act[a].op] = [journal[act[a].op] EXCEPT !.state = x]]
  PROVE  IInv'
<1> DEFINE s == [act[a] EXCEPT !.pc = "threw", !.left = Targets(a), !.drift = D]
<1>1. Shaped(act[a]) /\ act[a] \in ActorState /\ Known(act[a])
  BY Local
<1>2. act[a].plan \in Plan /\ act[a].op # 0 /\ act[a].job = 0 /\ act[a].pc # "threw"
  BY <1>1 DEF Shaped, Recovering, Stepping, Undoing
<1>3. Targets(a) = DOMAIN act[a].plan /\ Targets(a) \subseteq File
  BY <1>2, TargetsTyped DEF Targets, PlanAssumption
<1>4. s \in ActorState
  BY <1>1, <1>3 DEF ActorState, PC
<1>5. /\ Shaped(s) /\ Known(s) /\ s.op = act[a].op /\ s.job = 0 /\ s.pc = "threw"
      /\ s.seen = act[a].seen
  BY <1>1, <1>2, <1>3 DEF Shaped, Known, Stepping, Undoing, Recovering, ActorState
<1>6. act' = [act EXCEPT ![a] = s]
  BY Local DEF Throw
<1>7. StatesAt(act[a].pc) \subseteq StatesAt("threw")
  BY DEF StatesAt, Stepping
<1> HIDE DEF s
<1>8. CASE journal' = journal
  BY <1>4, <1>5, <1>6, <1>7, <1>8, QuietStep
<1>9. ASSUME NEW x \in {"applying", "committed"},
             journal' = [journal EXCEPT ![act[a].op] = [journal[act[a].op] EXCEPT !.state = x]]
      PROVE  IInv'
  <2> DEFINE R == [journal[act[a].op] EXCEPT !.state = x]
  <2>1. journal' = [journal EXCEPT ![act[a].op] = R] /\ R \in Record /\ R.state = x
    BY <1>2, <1>9, OwnRewritten DEF Open, Terminal
  <2> HIDE DEF R
  <2>2. /\ journal' \in [Op -> Record \cup {NoRecord}]
        /\ journal'[act[a].op].state = x
        /\ \A b \in Actor : b # a => Follows(b)
        /\ \A r \in Op : r > opCount => journal'[r] = journal[r]
    BY <1>2, <2>1, OwnRecord
  <2>3. s.op # 0 => journal'[s.op].state \in StatesAt(s.pc)
    BY <1>5, <2>2 DEF StatesAt
  <2> QED BY <1>4, <1>5, <1>6, <2>2, <2>3, ActorStep
<1> QED BY <1>8, <1>9

LEMMA ApplyFailsStep ==
  ASSUME IInv, ActorAssumption, PlanAssumption, BoundAssumption, NEW a \in Actor, ApplyFails(a)
  PROVE  IInv'
<1>1. RestTyped'
  BY Local DEF ApplyFails, PublishFails, Fault, RestTyped
<1> QED BY <1>1, ThrowStep DEF ApplyFails, PublishFails, Stepping

\* What holds of a run inside its steps or its own compensation.
LEMMA InRunFacts ==
  ASSUME IInv, PlanAssumption, NEW a \in Actor,
         act[a].pc \in {"probe", "write", "verify", "threw"} \cup Undoing
  PROVE  /\ act[a] \in ActorState /\ Shaped(act[a])
         /\ act[a].plan \in Plan /\ act[a].left \subseteq DOMAIN act[a].plan
         /\ DOMAIN act[a].plan \subseteq File /\ Targets(a) = DOMAIN act[a].plan
         /\ \A f \in DOMAIN act[a].plan : /\ act[a].plan[f].from \in Content
                                          /\ act[a].plan[f].to \in Content
<1>1. act[a] \in ActorState /\ Shaped(act[a])
  BY Local
<1>2. act[a].plan \in Plan /\ act[a].left \subseteq DOMAIN act[a].plan
  BY <1>1 DEF Shaped, Recovering, Undoing
<1> QED BY <1>1, <1>2, TargetsTyped DEF Targets, PlanAssumption

LEMMA ProbeStep ==
  ASSUME IInv, ActorAssumption, PlanAssumption, BoundAssumption, NEW a \in Actor, Probe(a)
  PROVE  IInv'
<1>1. act[a].pc = "probe"
  BY DEF Probe
<1>2. PICK f \in act[a].left :
        Throw(a, {f}) \/ act' = [act EXCEPT ![a].pc = "write"]
  BY DEF Probe
<1>6. RestTyped' /\ journal' = journal /\ opCount' = opCount /\ writer' = writer
  BY Local DEF Probe, RestTyped
<1>3. f \in File
  BY <1>1, <1>2, InRunFacts DEF Undoing
<1>4. CASE Throw(a, {f})
  BY <1>1, <1>3, <1>4, <1>6, ThrowStep DEF Stepping
<1>5. CASE act' = [act EXCEPT ![a].pc = "write"]
  <2> DEFINE s == [act[a] EXCEPT !.pc = "write"]
  <2>1. Shaped(act[a]) /\ act[a] \in ActorState
    BY Local
  <2>2. s \in ActorState
    BY <2>1 DEF ActorState, PC
  <2>3. /\ Shaped(s) /\ s.op = act[a].op /\ s.job = act[a].job /\ s.seen = act[a].seen
        /\ StatesAt(act[a].pc) \subseteq StatesAt(s.pc)
    BY <1>1, <2>1 DEF Shaped, Stepping, Undoing, Recovering, ActorState, StatesAt
  <2>4. act' = [act EXCEPT ![a] = s]
    BY <1>5, Local
  <2> HIDE DEF s
  <2> QED BY <1>6, <2>2, <2>3, <2>4, QuietStep
<1> QED BY <1>2, <1>4, <1>5

LEMMA WriteStep ==
  ASSUME IInv, ActorAssumption, PlanAssumption, NEW a \in Actor, Write(a)
  PROVE  IInv'
<1>1. act[a].pc = "write" /\ Shaped(act[a]) /\ act[a] \in ActorState
  BY Local DEF Write
<1>2. PICK f \in act[a].left :
        /\ disk' = [disk EXCEPT ![f] = act[a].plan[f].to]
        /\ temps' = [temps EXCEPT ![act[a].op] = @ \ {f}]
        /\ act' = [act EXCEPT ![a].pc = IF act[a].left = {f} THEN "verify" ELSE "probe",
                              ![a].left = IF @ = {f} THEN Targets(a) ELSE @ \ {f}]
  BY DEF Write, Put
<1> DEFINE s == [act[a] EXCEPT !.pc = IF act[a].left = {f} THEN "verify" ELSE "probe",
                               !.left = IF @ = {f} THEN Targets(a) ELSE @ \ {f}]
<1>3. /\ act[a].left \subseteq DOMAIN act[a].plan /\ DOMAIN act[a].plan \subseteq File
      /\ Targets(a) = DOMAIN act[a].plan /\ act[a].plan[f].to \in Content
  BY <1>1, InRunFacts DEF Undoing
<1>4. s \in ActorState
  BY <1>1, <1>3 DEF ActorState, PC
<1>5. /\ Shaped(s) /\ s.op = act[a].op /\ s.job = act[a].job /\ s.seen = act[a].seen
      /\ StatesAt(act[a].pc) \subseteq StatesAt(s.pc)
  BY <1>1, <1>3 DEF Shaped, Stepping, Undoing, Recovering, ActorState, StatesAt
<1>6. act' = [act EXCEPT ![a] = s]
  BY <1>2, Local
<1>7. disk' \in [File -> Content] /\ temps' \in [Op -> SUBSET File]
  BY <1>2, <1>3, Local DEF RestTyped
<1>8. RestTyped' /\ journal' = journal /\ opCount' = opCount /\ writer' = writer
  BY <1>7, Local DEF Write, RestTyped
<1> HIDE DEF s
<1> QED BY <1>4, <1>5, <1>6, <1>8, QuietStep

LEMMA WriteFailsStep ==
  ASSUME IInv, ActorAssumption, PlanAssumption, BoundAssumption, NEW a \in Actor, WriteFails(a)
  PROVE  IInv'
<1>1. RestTyped'
  BY Local DEF WriteFails, Fault, RestTyped
<1> QED BY <1>1, ThrowStep DEF WriteFails, Stepping

LEMMA WriteUnrecordedStep ==
  ASSUME IInv, ActorAssumption, PlanAssumption, BoundAssumption, NEW a \in Actor,
         WriteUnrecorded(a)
  PROVE  IInv'
<1>1. act[a].pc = "write"
  BY DEF WriteUnrecorded
<1>2. PICK f \in act[a].left :
        /\ disk' = [disk EXCEPT ![f] = act[a].plan[f].to]
        /\ temps' = [temps EXCEPT ![act[a].op] = @ \ {f}]
  BY DEF WriteUnrecorded, Put
<1>3. act[a].plan[f].to \in Content
  BY <1>1, InRunFacts DEF Undoing
<1>4. disk' \in [File -> Content] /\ temps' \in [Op -> SUBSET File]
  BY <1>2, <1>3, Local DEF RestTyped
<1>5. RestTyped'
  BY <1>4, Local DEF WriteUnrecorded, Fault, RestTyped
<1> QED BY <1>1, <1>5, ThrowStep DEF WriteUnrecorded, Stepping

LEMMA VerifyStep ==
  ASSUME IInv, ActorAssumption, PlanAssumption, BoundAssumption, NEW a \in Actor, Verify(a)
  PROVE  IInv'
<1>1. act[a].pc = "verify" /\ Shaped(act[a]) /\ act[a] \in ActorState
  BY Local DEF Verify
<1>2. PICK f \in act[a].left :
        Throw(a, {}) \/ act' = [act EXCEPT ![a].left = @ \ {f}]
  BY DEF Verify
<1>5. RestTyped' /\ journal' = journal /\ opCount' = opCount /\ writer' = writer
  BY Local DEF Verify, RestTyped
<1>3. CASE Throw(a, {})
  BY <1>1, <1>3, <1>5, ThrowStep DEF Stepping
<1>4. CASE act' = [act EXCEPT ![a].left = @ \ {f}]
  <2> DEFINE s == [act[a] EXCEPT !.left = @ \ {f}]
  <2>1. s \in ActorState
    BY <1>1 DEF ActorState
  <2>2. /\ Shaped(s) /\ s.op = act[a].op /\ s.job = act[a].job /\ s.seen = act[a].seen
        /\ s.pc = act[a].pc
    BY <1>1 DEF Shaped, Stepping, Undoing, Recovering, ActorState
  <2>3. act' = [act EXCEPT ![a] = s]
    BY <1>4, Local
  <2> HIDE DEF s
  <2> QED BY <1>5, <2>1, <2>2, <2>3, QuietStep
<1> QED BY <1>2, <1>3, <1>4

LEMMA CommitStep ==
  ASSUME IInv, ActorAssumption, BoundAssumption, NEW a \in Actor, Commit(a)
  PROVE  IInv'
<1> DEFINE s == [act[a] EXCEPT !.pc = "committed", !.op = 0]
<1>1. act[a].pc = "verify" /\ Shaped(act[a]) /\ act[a] \in ActorState /\ Known(act[a])
  BY Local DEF Commit
<1>2. act[a].plan \in Plan /\ act[a].op # 0 /\ act[a].job = 0
  BY <1>1 DEF Shaped, Recovering, Stepping, Undoing
<1>3. s \in ActorState
  BY <1>1 DEF ActorState, PC
<1>4. Shaped(s) /\ s.op = 0 /\ s.job = 0 /\ s.seen = act[a].seen
  BY <1>1, <1>2 DEF Shaped, Stepping, Undoing, Recovering, ActorState
<1>5. act' = [act EXCEPT ![a] = s]
  BY Local DEF Commit
<1>6. RestTyped' /\ opCount' = opCount /\ writer' = writer
  BY Local DEF Commit, RestTyped
<1> DEFINE R == [journal[act[a].op] EXCEPT !.state = "committed"]
<1>7. journal' = [journal EXCEPT ![act[a].op] = R] /\ R \in Record
  BY <1>1, <1>2, OwnRewritten DEF Commit, Terminal
<1> HIDE DEF s, R
<1>8. /\ journal' \in [Op -> Record \cup {NoRecord}]
      /\ \A b \in Actor : b # a => Follows(b)
      /\ \A r \in Op : r > opCount => journal'[r] = journal[r]
  BY <1>2, <1>7, OwnRecord
<1>9. Known(s)
  BY <1>1, <1>4 DEF Known, IInv, TypeOK
<1> QED BY <1>3, <1>4, <1>5, <1>6, <1>8, <1>9, ActorStep

LEMMA CommitFailsStep ==
  ASSUME IInv, ActorAssumption, PlanAssumption, BoundAssumption, NEW a \in Actor, CommitFails(a)
  PROVE  IInv'
<1>1. RestTyped'
  BY Local DEF CommitFails, PublishFails, Fault, RestTyped
<1> QED BY <1>1, ThrowStep DEF CommitFails, PublishFails, Stepping

LEMMA TurnStep ==
  ASSUME IInv, ActorAssumption, PlanAssumption, BoundAssumption, NEW a \in Actor, Turn(a)
  PROVE  IInv'
<1> DEFINE s == [act[a] EXCEPT !.pc = "comp"]
           R == Rec(a, "compensating")
<1>1. act[a].pc = "threw" /\ Shaped(act[a]) /\ act[a] \in ActorState /\ Known(act[a])
  BY Local DEF Turn
<1>2. act[a].plan \in Plan /\ act[a].op # 0 /\ act[a].job = 0
  BY <1>1 DEF Shaped, Recovering, Undoing
<1>3. s \in ActorState
  BY <1>1 DEF ActorState, PC
<1>4. Shaped(s) /\ Known(s) /\ s.op = act[a].op /\ s.job = 0 /\ s.pc = "comp"
  BY <1>1, <1>2 DEF Shaped, Known, Stepping, Undoing, Recovering, ActorState
<1>5. act' = [act EXCEPT ![a] = s]
  BY Local DEF Turn
<1>6. RestTyped' /\ opCount' = opCount /\ writer' = writer
  BY Local DEF Turn, RestTyped
<1>7. journal' = [journal EXCEPT ![act[a].op] = R] /\ R \in Record /\ R.state = "compensating"
  BY <1>2, RecTyped DEF Turn, Open
<1> HIDE DEF s, R
<1>8. /\ journal' \in [Op -> Record \cup {NoRecord}]
      /\ journal'[act[a].op].state = "compensating"
      /\ \A b \in Actor : b # a => Follows(b)
      /\ \A r \in Op : r > opCount => journal'[r] = journal[r]
  BY <1>2, <1>7, OwnRecord
<1>9. s.op # 0 => journal'[s.op].state \in StatesAt(s.pc)
  BY <1>4, <1>8 DEF StatesAt
<1> QED BY <1>3, <1>4, <1>5, <1>6, <1>8, <1>9, ActorStep

LEMMA TurnFailsStep ==
  ASSUME IInv, ActorAssumption, PlanAssumption, BoundAssumption, NEW a \in Actor, TurnFails(a)
  PROVE  IInv'
<1> DEFINE s == [act[a] EXCEPT !.pc = "failed", !.op = 0, !.left = {}]
           R == Rec(a, "compensating")
<1>1. act[a].pc = "threw" /\ Shaped(act[a]) /\ act[a] \in ActorState /\ Known(act[a])
  BY Local DEF TurnFails
<1>2. act[a].plan \in Plan /\ act[a].op # 0 /\ act[a].job = 0
  BY <1>1 DEF Shaped, Recovering, Undoing
<1>3. s \in ActorState
  BY <1>1 DEF ActorState, PC
<1>4. Shaped(s) /\ s.op = 0 /\ s.job = 0 /\ s.seen = act[a].seen
  BY <1>1, <1>2 DEF Shaped, Stepping, Undoing, Recovering, ActorState
<1>5. act' = [act EXCEPT ![a] = s]
  BY Local DEF TurnFails
<1>6. temps' \in [Op -> SUBSET File]
  BY DEF TurnFails, DropTemps, IInv, TypeOK
<1>7. RestTyped' /\ opCount' = opCount /\ writer' = writer
  BY <1>6, Local DEF TurnFails, PublishFails, Fault, RestTyped
<1>8. R \in Record
  BY <1>2, RecTyped DEF Open
<1>9. journal' \in {journal, [journal EXCEPT ![act[a].op] = R]}
  BY DEF TurnFails, PublishFails
<1> HIDE DEF s, R
<1>10. CASE journal' = journal
  BY <1>3, <1>4, <1>5, <1>7, <1>10, QuietStep
<1>11. CASE journal' = [journal EXCEPT ![act[a].op] = R]
  <2>1. /\ journal' \in [Op -> Record \cup {NoRecord}]
        /\ \A b \in Actor : b # a => Follows(b)
        /\ \A r \in Op : r > opCount => journal'[r] = journal[r]
    BY <1>2, <1>8, <1>11, OwnRecord
  <2>2. Known(s)
    BY <1>1, <1>4 DEF Known, IInv, TypeOK
  <2> QED BY <1>3, <1>4, <1>5, <1>7, <2>1, <2>2, ActorStep
<1> QED BY <1>9, <1>10, <1>11

\* Compaction unlinks terminal records only: a run that finds its own gone has thrown.
LEMMA Compacted ==
  ASSUME IInv, BoundAssumption, CompactJournal
  PROVE  /\ journal' \in [Op -> Record \cup {NoRecord}]
         /\ \A b \in Actor : Follows(b)
         /\ \A r \in Op : r > opCount => journal'[r] = journal[r]
<1>1. journal' \in [Op -> Record \cup {NoRecord}]
  BY DEF IInv, TypeOK, CompactJournal
<1>2. \A r \in Op : r \notin TerminalOps => journal'[r] = journal[r]
  BY DEF CompactJournal
<1>3. \A b \in Actor : Follows(b)
  <2>1. TAKE b \in Actor
  <2>2. act[b].op \in {0} \cup Op
    BY DEF IInv, TypeOK, ActorState
  <2>3. act[b].op # 0 => journal[act[b].op].state \in StatesAt(act[b].pc)
    BY DEF IInv, RecordFollowsRun
  <2>4. CASE act[b].op \notin TerminalOps
    BY <1>2, <2>2, <2>3, <2>4 DEF Follows
  <2>5. CASE act[b].op \in TerminalOps
    <3>1. act[b].op \in Op /\ act[b].op # 0 /\ journal[act[b].op].state \in Terminal
      BY <2>5 DEF TerminalOps, Op, BoundAssumption
    <3>2. act[b].pc = "threw"
      BY <2>3, <3>1 DEF StatesAt, Terminal
    <3>3. journal'[act[b].op] \in {journal[act[b].op], NoRecord}
      BY <3>1 DEF CompactJournal
    <3> QED BY <2>3, <3>1, <3>2, <3>3 DEF Follows, StatesAt, NoRecord
  <2> QED BY <2>4, <2>5
<1>4. \A r \in Op : r > opCount => r \notin TerminalOps
  BY DEF IInv, Live, TerminalOps, Terminal, NoRecord
<1> QED BY <1>1, <1>2, <1>3, <1>4

LEMMA BundlesTyped ==
  ASSUME IInv, CompactBundles
  PROVE  bundle' \in [Plan -> Nat]
BY DEF IInv, TypeOK, CompactBundles

LEMMA CloseStep ==
  ASSUME IInv, ActorAssumption, BoundAssumption, NEW a \in Actor, Close(a)
  PROVE  IInv'
<1> DEFINE s == [Idle EXCEPT !.outcome = "committed"]
<1>1. s \in ActorState /\ Shaped(s) /\ s.op = 0 /\ s.job = 0 /\ s.seen = {}
  BY Returned DEF Outcome
<1>2. act' = [act EXCEPT ![a] = s]
  BY DEF Close, Return
<1>3. RestTyped' /\ opCount' = opCount /\ writer' = writer
  BY BundlesTyped, ReturnTyped DEF Close, RestTyped, IInv, TypeOK, Outcome
<1> HIDE DEF s
<1>4. Known(s)
  BY <1>1 DEF Known, IInv, TypeOK
<1> QED BY <1>1, <1>2, <1>3, <1>4, Compacted, ActorStep DEF Close

------------------------------------------------------------------------------
(* compensate *)

\* A step within a compensation that leaves the journal alone.
LEMMA UndoingStep ==
  ASSUME IInv, RestTyped', ActorAssumption, journal' = journal, opCount' = opCount,
         writer' = writer, NEW a \in Actor, act[a].pc \in Undoing,
         NEW s \in ActorState, act' = [act EXCEPT ![a] = s], s.pc \in Undoing,
         s.left \subseteq act[a].left, s.plan = act[a].plan, s.op = act[a].op,
         s.job = act[a].job, s.snap = act[a].snap, s.seen = act[a].seen
  PROVE  IInv'
<1>1. Shaped(act[a])
  BY Local
<1>2. Shaped(s) /\ StatesAt(act[a].pc) \subseteq StatesAt(s.pc)
  BY <1>1 DEF Shaped, Stepping, Undoing, Recovering, StatesAt
<1> QED BY <1>2, QuietStep

LEMMA CompensateStep ==
  ASSUME IInv, ActorAssumption, PlanAssumption, NEW a \in Actor, Compensate(a)
  PROVE  IInv'
<1>1. act[a].pc = "comp" /\ act[a] \in ActorState /\ act \in [Actor -> ActorState]
  BY Local DEF Compensate
<1>2. PICK f \in act[a].left :
        \/ act' = [act EXCEPT ![a].left = @ \ {f}]
        \/ act' = [act EXCEPT ![a].pc = "undo"]
        \/ act' = [act EXCEPT ![a].left = @ \ {f}, ![a].bad = TRUE]
  BY DEF Compensate
<1>3. RestTyped' /\ journal' = journal /\ opCount' = opCount /\ writer' = writer
  BY Local DEF Compensate, RestTyped
<1>4. CASE act' = [act EXCEPT ![a].left = @ \ {f}]
  <2> DEFINE s == [act[a] EXCEPT !.left = @ \ {f}]
  <2>1. s \in ActorState
    BY <1>1 DEF ActorState
  <2>2. act' = [act EXCEPT ![a] = s]
    BY <1>1, <1>4
  <2>3. /\ s.pc = "comp" /\ s.left \subseteq act[a].left /\ s.plan = act[a].plan
        /\ s.op = act[a].op /\ s.job = act[a].job /\ s.snap = act[a].snap
        /\ s.seen = act[a].seen
    BY <1>1 DEF ActorState
  <2> HIDE DEF s
  <2> QED BY <1>1, <1>3, <2>1, <2>2, <2>3, UndoingStep DEF Undoing
<1>5. CASE act' = [act EXCEPT ![a].pc = "undo"]
  <2> DEFINE s == [act[a] EXCEPT !.pc = "undo"]
  <2>1. s \in ActorState
    BY <1>1 DEF ActorState, PC
  <2>2. act' = [act EXCEPT ![a] = s]
    BY <1>1, <1>5
  <2>3. /\ s.pc = "undo" /\ s.left \subseteq act[a].left /\ s.plan = act[a].plan
        /\ s.op = act[a].op /\ s.job = act[a].job /\ s.snap = act[a].snap
        /\ s.seen = act[a].seen
    BY <1>1 DEF ActorState
  <2> HIDE DEF s
  <2> QED BY <1>1, <1>3, <2>1, <2>2, <2>3, UndoingStep DEF Undoing
<1>6. CASE act' = [act EXCEPT ![a].left = @ \ {f}, ![a].bad = TRUE]
  <2> DEFINE s == [act[a] EXCEPT !.left = @ \ {f}, !.bad = TRUE]
  <2>1. s \in ActorState
    BY <1>1 DEF ActorState
  <2>2. act' = [act EXCEPT ![a] = s]
    BY <1>1, <1>6
  <2>3. /\ s.pc = "comp" /\ s.left \subseteq act[a].left /\ s.plan = act[a].plan
        /\ s.op = act[a].op /\ s.job = act[a].job /\ s.snap = act[a].snap
        /\ s.seen = act[a].seen
    BY <1>1 DEF ActorState
  <2> HIDE DEF s
  <2> QED BY <1>1, <1>3, <2>1, <2>2, <2>3, UndoingStep DEF Undoing
<1> QED BY <1>2, <1>4, <1>5, <1>6

LEMMA UndoStep ==
  ASSUME IInv, ActorAssumption, PlanAssumption, NEW a \in Actor, Undo(a)
  PROVE  IInv'
<1>1. act[a].pc = "undo" /\ act[a] \in ActorState /\ act \in [Actor -> ActorState]
  BY Local DEF Undo
<1>2. PICK f \in act[a].left :
        \/ /\ disk' = [disk EXCEPT ![f] = act[a].plan[f].from]
           /\ act' = [act EXCEPT ![a].pc = "reread"]
           /\ UNCHANGED faults
        \/ /\ faults' = faults + 1
           /\ act' = [act EXCEPT ![a].pc = "comp", ![a].left = @ \ {f}, ![a].bad = TRUE]
           /\ UNCHANGED disk \/ disk' = [disk EXCEPT ![f] = act[a].plan[f].from]
  BY DEF Undo, Fault
<1>3. disk' \in [File -> Content] /\ faults' \in Nat
  <2>1. f \in DOMAIN act[a].plan /\ act[a].plan[f].from \in Content
    BY <1>1, <1>2, InRunFacts DEF Undoing
  <2>2. disk \in [File -> Content] /\ faults \in Nat
    BY DEF IInv, TypeOK
  <2>3. disk' \in {disk, [disk EXCEPT ![f] = act[a].plan[f].from]} /\ faults' \in {faults, faults + 1}
    BY <1>2
  <2>4. disk' \in [File -> Content]
    BY <2>1, <2>2, <2>3
  <2>5. faults' \in Nat
    BY <2>2, <2>3
  <2> QED BY <2>4, <2>5
<1>4. RestTyped' /\ journal' = journal /\ opCount' = opCount /\ writer' = writer
  BY <1>3, Local DEF Undo, RestTyped
<1>5. CASE act' = [act EXCEPT ![a].pc = "reread"]
  <2> DEFINE s == [act[a] EXCEPT !.pc = "reread"]
  <2>1. s \in ActorState
    BY <1>1 DEF ActorState, PC
  <2>2. act' = [act EXCEPT ![a] = s]
    BY <1>1, <1>5
  <2>3. /\ s.pc = "reread" /\ s.left \subseteq act[a].left /\ s.plan = act[a].plan
        /\ s.op = act[a].op /\ s.job = act[a].job /\ s.snap = act[a].snap
        /\ s.seen = act[a].seen
    BY <1>1 DEF ActorState
  <2> HIDE DEF s
  <2> QED BY <1>1, <1>4, <2>1, <2>2, <2>3, UndoingStep DEF Undoing
<1>6. CASE act' = [act EXCEPT ![a].pc = "comp", ![a].left = @ \ {f}, ![a].bad = TRUE]
  <2> DEFINE s == [act[a] EXCEPT !.pc = "comp", !.left = @ \ {f}, !.bad = TRUE]
  <2>1. s \in ActorState
    BY <1>1 DEF ActorState, PC
  <2>2. act' = [act EXCEPT ![a] = s]
    BY <1>1, <1>6
  <2>3. /\ s.pc = "comp" /\ s.left \subseteq act[a].left /\ s.plan = act[a].plan
        /\ s.op = act[a].op /\ s.job = act[a].job /\ s.snap = act[a].snap
        /\ s.seen = act[a].seen
    BY <1>1 DEF ActorState
  <2> HIDE DEF s
  <2> QED BY <1>1, <1>4, <2>1, <2>2, <2>3, UndoingStep DEF Undoing
<1> QED BY <1>2, <1>5, <1>6

LEMMA RereadStep ==
  ASSUME IInv, ActorAssumption, PlanAssumption, NEW a \in Actor, Reread(a)
  PROVE  IInv'
<1>1. act[a].pc = "reread" /\ act[a] \in ActorState /\ act \in [Actor -> ActorState]
  BY Local DEF Reread
<1>2. PICK f \in act[a].left :
        act' = [act EXCEPT ![a].pc = "comp", ![a].left = @ \ {f},
                           ![a].bad = @ \/ disk[f] # act[a].plan[f].from]
  BY DEF Reread
<1> DEFINE s == [act[a] EXCEPT !.pc = "comp", !.left = @ \ {f},
                               !.bad = @ \/ disk[f] # act[a].plan[f].from]
<1>3. s \in ActorState
  BY <1>1 DEF ActorState, PC
<1>4. act' = [act EXCEPT ![a] = s]
  BY <1>1, <1>2
<1>5. /\ s.pc = "comp" /\ s.left \subseteq act[a].left /\ s.plan = act[a].plan
      /\ s.op = act[a].op /\ s.job = act[a].job /\ s.snap = act[a].snap
      /\ s.seen = act[a].seen
  BY <1>1 DEF ActorState
<1>6. RestTyped' /\ journal' = journal /\ opCount' = opCount /\ writer' = writer
  BY Local DEF Reread, RestTyped
<1> HIDE DEF s
<1> QED BY <1>1, <1>3, <1>4, <1>5, <1>6, UndoingStep DEF Undoing

\* Behind the walk, whether the record that settles the operation was published or not.
LEMMA WalkedStep ==
  ASSUME IInv, ActorAssumption, BoundAssumption, NEW a \in Actor, NEW pc \in {"failed", "open"},
         Walked(a, pc), faults' \in Nat,
         \/ journal' = journal
         \/ journal' = [journal EXCEPT ![IF act[a].job = 0 THEN act[a].op ELSE act[a].job] = Settled(a)]
  PROVE  IInv'
<1> DEFINE s == [act[a] EXCEPT !.pc = pc, !.op = 0, !.job = 0, !.snap = NoRecord, !.staged = {}]
<1>1. /\ act[a].pc = "comp" /\ act[a] \in ActorState /\ act \in [Actor -> ActorState]
      /\ Shaped(act[a]) /\ Known(act[a])
  BY Local DEF Walked
<1>2. s \in ActorState
  BY <1>1 DEF ActorState, PC
<1>3. act[a].plan \in Plan
  BY <1>1 DEF Shaped, Recovering
<1>4. Shaped(s) /\ s.op = 0 /\ s.job = 0 /\ s.seen = act[a].seen
  BY <1>1, <1>3 DEF Shaped, Stepping, Undoing, Recovering, ActorState
<1>5. act' = [act EXCEPT ![a] = s]
  BY <1>1 DEF Walked
<1>6. temps' \in [Op -> SUBSET File]
  BY DEF Walked, DropTemps, IInv, TypeOK
<1>7. RestTyped' /\ opCount' = opCount /\ writer' = writer
  BY <1>6, Local DEF Walked, RestTyped
<1>8. Known(s)
  BY <1>1, <1>4 DEF Known, IInv, TypeOK
<1>9. /\ journal' \in [Op -> Record \cup {NoRecord}]
      /\ \A b \in Actor : b # a => Follows(b)
      /\ \A r \in Op : r > opCount => journal'[r] = journal[r]
  <2>1. CASE journal' = journal
    BY <2>1 DEF IInv, TypeOK, RecordFollowsRun, Follows
  <2>2. CASE act[a].job = 0 /\ journal' = [journal EXCEPT ![act[a].op] = Settled(a)]
    <3>1. act[a].op # 0 /\ act[a].pc # "threw"
      BY <1>1, <2>2 DEF Shaped, Undoing
    <3>2. Settled(a) \in Record
      BY <2>2, <3>1, OwnRewritten DEF Settled, Terminal
    <3> HIDE DEF s
    <3> QED BY <2>2, <3>1, <3>2, OwnRecord
  <2>3. CASE act[a].job # 0 /\ journal' = [journal EXCEPT ![act[a].job] = Settled(a)]
    <3>1. Settled(a) \in Record
      BY <1>1, <2>3, JobRewritten DEF Shaped, Settled, Terminal
    <3> HIDE DEF s
    <3> QED BY <2>3, <3>1, JobRecord
  <2> QED BY <2>1, <2>2, <2>3
<1> HIDE DEF s
<1> QED BY <1>2, <1>4, <1>5, <1>7, <1>8, <1>9, ActorStep

LEMMA CompensatedStep ==
  ASSUME IInv, ActorAssumption, BoundAssumption, NEW a \in Actor, Compensated(a)
  PROVE  IInv'
<1>1. faults' \in Nat
  BY DEF Compensated, IInv, TypeOK
<1> QED BY <1>1, WalkedStep DEF Compensated

LEMMA CompensatedFailsStep ==
  ASSUME IInv, ActorAssumption, BoundAssumption, NEW a \in Actor, CompensatedFails(a)
  PROVE  IInv'
<1>1. faults' \in Nat
  BY DEF CompensatedFails, PublishFails, Fault, IInv, TypeOK
<1> QED BY <1>1, WalkedStep DEF CompensatedFails, PublishFails

LEMMA ConcludeStep ==
  ASSUME IInv, ActorAssumption, NEW a \in Actor, Conclude(a)
  PROVE  IInv'
<1>1. RestTyped' /\ journal' = journal /\ opCount' = opCount /\ writer' = writer
  BY Local, ReturnTyped DEF Conclude, RestTyped, Outcome
<1>2. PICK o \in Outcome : Return(a, o)
  BY DEF Conclude, Outcome
<1> QED BY <1>1, <1>2, ReturnQuiet

------------------------------------------------------------------------------
(* recoverChangeSetJournal *)

\* Listing the journal: whoever lists it knows only operations that were journaled.
LEMMA ListingStep ==
  ASSUME IInv, ActorAssumption, BoundAssumption, NEW a \in Actor,
         act[a].pc \in {"idle", "start"}, Listing(a), booted' \in [Proc -> BOOLEAN]
  PROVE  IInv'
<1> DEFINE seen == {<<r, journal[r]>> : r \in OpenOps}
           s == [act[a] EXCEPT !.pc = "sweep", !.outcome = "none", !.seen = seen]
<1>1. act[a] \in ActorState /\ act \in [Actor -> ActorState] /\ Shaped(act[a]) /\ Known(act[a])
  BY Local
<1>2. \A r \in OpenOps : r \in Op /\ journal[r] \in Record /\ r <= opCount
  <2>1. TAKE r \in OpenOps
  <2>2. r \in Op /\ journal[r].state \in Open
    BY DEF OpenOps
  <2>3. journal[r] # NoRecord
    BY <2>2 DEF Open, NoRecord
  <2>4. journal[r] \in Record
    BY <2>2, <2>3 DEF IInv, TypeOK
  <2> QED BY <2>2, <2>3, <2>4 DEF IInv, Live, TypeOK, Op, BoundAssumption
<1>3. seen \subseteq Op \X Record /\ \A e \in seen : e[1] <= opCount
  BY <1>2
<1> HIDE DEF seen
<1>4. s \in ActorState
  BY <1>1, <1>3 DEF ActorState, PC, Outcome
<1>5. Shaped(s) /\ s.op = 0 /\ s.job = 0 /\ s.seen = seen
  BY <1>1 DEF Shaped, Stepping, Undoing, Recovering, ActorState
<1>6. Known(s)
  BY <1>3, <1>5 DEF Known, IInv, TypeOK
<1>7. act' = [act EXCEPT ![a] = s]
  BY <1>1 DEF Listing, seen
<1>8. RestTyped' /\ opCount' = opCount /\ writer' = writer /\ journal' = journal
  BY Local DEF Listing, RestTyped
<1>9. journal' \in [Op -> Record \cup {NoRecord}]
  BY <1>8 DEF IInv, TypeOK
<1> HIDE DEF s
<1> QED BY <1>4, <1>5, <1>6, <1>7, <1>8, <1>9, QuietFollows, ActorStep

LEMMA SweepStep ==
  ASSUME IInv, ActorAssumption, BoundAssumption, NEW a \in Actor, Sweep(a)
  PROVE  IInv'
BY ListingStep DEF Sweep, IInv, TypeOK

LEMMA BootStep ==
  ASSUME IInv, ActorAssumption, BoundAssumption, NEW a \in Actor, Boot(a)
  PROVE  IInv'
<1>1. booted' \in [Proc -> BOOLEAN]
  BY DEF Boot, IInv, TypeOK, ActorAssumption
<1> QED BY <1>1, ListingStep DEF Boot

\* A step of the recovery that leaves the journal alone and at most drops its job.
LEMMA RecoveringStep ==
  ASSUME IInv, RestTyped', ActorAssumption, journal' = journal, opCount' = opCount,
         writer' = writer, NEW a \in Actor, act[a].pc \in Recovering \cup {"sweep"},
         NEW s \in ActorState, act' = [act EXCEPT ![a] = s],
         s.op = act[a].op, s.seen \subseteq act[a].seen,
         \/ s.pc = "sweep" /\ s.job = 0
         \/ /\ s.pc \in Recovering /\ s.job # 0 /\ s.job = act[a].job /\ s.snap = act[a].snap
            /\ s.verdict # "none" /\ s.left \subseteq DOMAIN s.snap.plan
  PROVE  IInv'
<1>1. Shaped(act[a]) /\ act[a].op = 0
  BY Local DEF Shaped, Stepping, Undoing, Recovering
<1>2. Shaped(s)
  BY <1>1 DEF Shaped, Stepping, Undoing, Recovering
<1> QED BY <1>1, <1>2, QuietStep

\* A restore that cannot go on leaves the operation unresolved.
LEMMA UnresolvedStep ==
  ASSUME IInv, RestTyped', ActorAssumption, journal' = journal, opCount' = opCount,
         writer' = writer, NEW a \in Actor, act[a].pc \in {"restore", "restored"},
         NEW f \in File,
         act' = [act EXCEPT ![a].pc = "settle", ![a].verdict = "unresolved",
                            ![a].note = {f}, ![a].left = {}]
  PROVE  IInv'
<1> DEFINE s == [act[a] EXCEPT !.pc = "settle", !.verdict = "unresolved",
                               !.note = {f}, !.left = {}]
<1>1. act[a] \in ActorState /\ act \in [Actor -> ActorState] /\ Shaped(act[a])
  BY Local
<1>2. s \in ActorState
  BY <1>1 DEF ActorState, PC
<1>3. act' = [act EXCEPT ![a] = s]
  BY <1>1
<1>4. /\ s.pc \in Recovering /\ s.job = act[a].job /\ s.job # 0 /\ s.snap = act[a].snap
      /\ s.op = act[a].op /\ s.verdict # "none" /\ s.left = {} /\ s.seen = act[a].seen
  BY <1>1 DEF ActorState, Shaped, Recovering
<1>5. act[a].pc \in Recovering
  BY DEF Recovering
<1> HIDE DEF s
<1> QED BY <1>2, <1>3, <1>4, <1>5, RecoveringStep

\* A restore that throws ends the handling of its operation.
LEMMA ThrownStep ==
  ASSUME IInv, RestTyped', ActorAssumption, journal' = journal, opCount' = opCount,
         writer' = writer, NEW a \in Actor, act[a].pc \in Recovering, LeftAsItIs(a)
  PROVE  IInv'
<1> DEFINE s == [act[a] EXCEPT !.pc = "sweep", !.job = 0, !.snap = NoRecord,
                               !.verdict = "none", !.note = {}, !.left = {}]
<1>1. act[a] \in ActorState /\ act \in [Actor -> ActorState]
  BY Local
<1>2. s \in ActorState
  BY <1>1 DEF ActorState, PC
<1>3. act' = [act EXCEPT ![a] = s]
  BY <1>1 DEF LeftAsItIs
<1>4. s.pc = "sweep" /\ s.job = 0 /\ s.op = act[a].op /\ s.seen = act[a].seen
  BY <1>1 DEF ActorState
<1> HIDE DEF s
<1> QED BY <1>2, <1>3, <1>4, RecoveringStep

\* The recovery takes on an operation whose run is gone.
LEMMA AdoptStep ==
  ASSUME IInv, RestTyped', ActorAssumption, PlanAssumption, BoundAssumption, journal' = journal,
         opCount' = opCount, writer' = writer, NEW a \in Actor, act[a].pc = "sweep",
         NEW r \in Op, NEW R \in Record, r <= opCount, ~WriterAlive(a, r),
         NEW seen \in SUBSET act[a].seen, NEW pc \in {"settle", "restore"},
         NEW verdict \in {"committed", "aborted", "unresolved"},
         NEW note \in SUBSET DOMAIN R.plan, NEW left \in SUBSET DOMAIN R.plan,
         act' = [act EXCEPT ![a] = [act[a] EXCEPT !.pc = pc, !.job = r, !.snap = R,
                   !.seen = seen, !.verdict = verdict, !.note = note, !.left = left]]
  PROVE  IInv'
<1> DEFINE s == [act[a] EXCEPT !.pc = pc, !.job = r, !.snap = R, !.seen = seen,
                               !.verdict = verdict, !.note = note, !.left = left]
<1>1. act[a] \in ActorState /\ Shaped(act[a]) /\ Known(act[a])
  BY Local
<1>2. DOMAIN R.plan \subseteq File /\ r # 0
  BY TargetsTyped DEF Record, Op, BoundAssumption
<1>3. s \in ActorState
  BY <1>1, <1>2 DEF ActorState, PC
<1>4. Shaped(s) /\ s.op = 0 /\ s.job = r /\ s.seen \subseteq act[a].seen
  BY <1>1, <1>2 DEF ActorState, Shaped, Stepping, Undoing, Recovering
<1>5. Known(s)
  BY <1>1, <1>4 DEF Known, IInv, TypeOK
<1>6. (\A b \in Actor : act[b].op # r) /\ writer[r] \in {Dead, ProcOf[a]}
  BY NotAliveNotRun
<1>7. journal' \in [Op -> Record \cup {NoRecord}]
  BY DEF IInv, TypeOK
<1>8. act' = [act EXCEPT ![a] = s]
  OBVIOUS
<1>9. s.job # 0 => /\ \A b \in Actor : b # a => act[b].op # s.job
                   /\ s.op # s.job
                   /\ writer[s.job] \in {Dead, ProcOf[a]}
  BY <1>2, <1>4, <1>6
<1> HIDE DEF s
<1>10. s.op \in {0, act[a].op} /\ (s.op # 0 => journal'[s.op].state \in StatesAt(s.pc))
  BY <1>4
<1>11. /\ \A b \in Actor : b # a => Follows(b)
       /\ \A q \in Op : q > opCount => journal'[q] = journal[q]
  BY QuietFollows
<1> QED BY <1>3, <1>4, <1>5, <1>7, <1>8, <1>9, <1>10, <1>11, ActorStep

LEMMA InspectStep ==
  ASSUME IInv, ActorAssumption, PlanAssumption, BoundAssumption, NEW a \in Actor, Inspect(a)
  PROVE  IInv'
<1>1. /\ act[a].pc = "sweep" /\ act[a] \in ActorState /\ act \in [Actor -> ActorState]
      /\ Shaped(act[a]) /\ Known(act[a])
  BY Local DEF Inspect
<1>2. PICK e \in act[a].seen :
        \/ act' = [act EXCEPT ![a].seen = @ \ {e}] /\ UNCHANGED temps
        \/ /\ ~WriterAlive(a, e[1])
           /\ UNCHANGED temps \/ DropTemps(e[1])
           /\ \/ Judge(a, e, "settle", "unresolved", In(e[2].plan, "other"), {})
              \/ Judge(a, e, "settle", "committed", {}, {})
              \/ Judge(a, e, "settle", "aborted", {}, {})
              \/ Judge(a, e, "restore", "aborted", {}, In(e[2].plan, "planned"))
  BY DEF Inspect
<1>3. e \in Op \X Record /\ e[1] <= opCount
  BY <1>1 DEF ActorState, Known
<1>4. e[1] \in Op /\ e[1] # 0 /\ e[2] \in Record
  BY <1>3 DEF Op, BoundAssumption
<1>5. DOMAIN e[2].plan \subseteq File
  BY <1>4, TargetsTyped DEF Record
<1>6. temps' \in [Op -> SUBSET File]
  BY <1>2, <1>4 DEF DropTemps, IInv, TypeOK
<1>7. RestTyped' /\ journal' = journal /\ opCount' = opCount /\ writer' = writer
  BY <1>6, Local DEF Inspect, RestTyped
<1>8. CASE act' = [act EXCEPT ![a].seen = @ \ {e}]
  <2> DEFINE s == [act[a] EXCEPT !.seen = @ \ {e}]
  <2>1. s \in ActorState
    BY <1>1 DEF ActorState
  <2>2. act' = [act EXCEPT ![a] = s]
    BY <1>1, <1>8
  <2>3. /\ s.pc = "sweep" /\ s.op = act[a].op /\ s.seen \subseteq act[a].seen
        /\ s.job = act[a].job /\ act[a].job = 0
    BY <1>1 DEF ActorState, Shaped, Undoing, Recovering
  <2> HIDE DEF s
  <2> QED BY <1>1, <1>7, <2>1, <2>2, <2>3, RecoveringStep
<1>9. ASSUME ~WriterAlive(a, e[1]),
             NEW pc \in {"settle", "restore"}, NEW verdict \in {"committed", "aborted", "unresolved"},
             NEW note \in SUBSET DOMAIN e[2].plan, NEW left \in SUBSET DOMAIN e[2].plan,
             Judge(a, e, pc, verdict, note, left)
      PROVE  IInv'
  <2>1. /\ act' = [act EXCEPT ![a] = [act[a] EXCEPT !.pc = pc, !.job = e[1], !.snap = e[2],
                    !.seen = @ \ {e}, !.verdict = verdict, !.note = note, !.left = left]]
        /\ act[a].seen \ {e} \subseteq act[a].seen
    BY <1>1, <1>9 DEF Judge
  <2> DEFINE r == e[1]
             R == e[2]
             S == act[a].seen \ {e}
  <2>2. /\ r \in Op /\ R \in Record /\ r <= opCount /\ ~WriterAlive(a, r)
        /\ S \in SUBSET act[a].seen
        /\ note \in SUBSET DOMAIN R.plan /\ left \in SUBSET DOMAIN R.plan
    BY <1>3, <1>4, <1>9
  <2>3. act' = [act EXCEPT ![a] = [act[a] EXCEPT !.pc = pc, !.job = r, !.snap = R,
                  !.seen = S, !.verdict = verdict, !.note = note, !.left = left]]
    BY <2>1
  <2> HIDE DEF r, R, S
  <2> QED BY <1>1, <1>7, <2>2, <2>3, AdoptStep
<1>10. /\ In(e[2].plan, "other") \in SUBSET DOMAIN e[2].plan
       /\ In(e[2].plan, "planned") \in SUBSET DOMAIN e[2].plan
       /\ {} \in SUBSET DOMAIN e[2].plan
  BY DEF In
<1> QED BY <1>2, <1>8, <1>9, <1>10

LEMMA RestoreStep ==
  ASSUME IInv, ActorAssumption, PlanAssumption, NEW a \in Actor, Restore(a)
  PROVE  IInv'
<1>1. /\ act[a].pc = "restore" /\ act[a] \in ActorState /\ act \in [Actor -> ActorState]
      /\ Shaped(act[a])
  BY Local DEF Restore
<1>2. /\ act[a].job # 0 /\ act[a].snap \in Record /\ act[a].left \subseteq DOMAIN act[a].snap.plan
      /\ act[a].verdict # "none"
  BY <1>1 DEF Shaped, Recovering
<1>3. /\ DOMAIN act[a].snap.plan \subseteq File
      /\ \A f \in DOMAIN act[a].snap.plan : act[a].snap.plan[f].from \in Content
  BY <1>2, TargetsTyped DEF Record
<1>4. PICK f \in act[a].left :
        \/ /\ act' = [act EXCEPT ![a].pc = "settle", ![a].verdict = "unresolved",
                                 ![a].note = {f}, ![a].left = {}]
           /\ UNCHANGED <<disk, faults>>
        \/ /\ disk' = [disk EXCEPT ![f] = act[a].snap.plan[f].from] /\ UNCHANGED faults
           /\ act' = [act EXCEPT ![a].pc = "restored"]
        \/ /\ faults' = faults + 1
           /\ disk' \in {disk, [disk EXCEPT ![f] = act[a].snap.plan[f].from]}
           /\ act' = [act EXCEPT ![a].pc = "restored"] \/ LeftAsItIs(a)
  BY DEF Restore, Fault
<1>5. disk' \in [File -> Content] /\ faults' \in Nat
  <2>1. disk \in [File -> Content] /\ faults \in Nat
    BY DEF IInv, TypeOK
  <2>2. CASE disk' = [disk EXCEPT ![f] = act[a].snap.plan[f].from] /\ faults' \in {faults, faults + 1}
    BY <1>2, <1>3, <1>4, <2>1, <2>2
  <2>3. CASE disk' = disk /\ faults' \in {faults, faults + 1}
    BY <2>1, <2>3
  <2> QED BY <1>4, <2>2, <2>3
<1>6. RestTyped' /\ journal' = journal /\ opCount' = opCount /\ writer' = writer
  BY <1>5, Local DEF Restore, RestTyped
<1>7. CASE act' = [act EXCEPT ![a].pc = "settle", ![a].verdict = "unresolved",
                              ![a].note = {f}, ![a].left = {}]
  BY <1>1, <1>2, <1>3, <1>6, <1>7, UnresolvedStep
<1>8. CASE act' = [act EXCEPT ![a].pc = "restored"]
  <2> DEFINE s == [act[a] EXCEPT !.pc = "restored"]
  <2>1. s \in ActorState
    BY <1>1 DEF ActorState, PC
  <2>2. act' = [act EXCEPT ![a] = s]
    BY <1>1, <1>8
  <2>3. /\ s.pc \in Recovering /\ s.job = act[a].job /\ s.snap = act[a].snap /\ s.op = act[a].op
        /\ s.verdict # "none" /\ s.left = act[a].left /\ s.seen = act[a].seen
    BY <1>1, <1>2 DEF ActorState, Recovering
  <2> HIDE DEF s
  <2>4. act[a].pc \in Recovering
    BY <1>1 DEF Recovering
  <2> QED BY <1>2, <1>6, <2>1, <2>2, <2>3, <2>4, RecoveringStep
<1>9. CASE LeftAsItIs(a)
  BY <1>1, <1>6, <1>9, ThrownStep DEF Recovering
<1> QED BY <1>4, <1>7, <1>8, <1>9

LEMMA RestoreRereadStep ==
  ASSUME IInv, ActorAssumption, PlanAssumption, NEW a \in Actor, RestoreReread(a)
  PROVE  IInv'
<1>1. /\ act[a].pc = "restored" /\ act[a] \in ActorState /\ act \in [Actor -> ActorState]
      /\ Shaped(act[a])
  BY Local DEF RestoreReread
<1>2. /\ act[a].job # 0 /\ act[a].snap \in Record /\ act[a].left \subseteq DOMAIN act[a].snap.plan
      /\ act[a].verdict # "none"
  BY <1>1 DEF Shaped, Recovering
<1>3. DOMAIN act[a].snap.plan \subseteq File
  BY <1>2, TargetsTyped DEF Record
<1>4. PICK f \in act[a].left :
        \/ act' = [act EXCEPT ![a].left = @ \ {f},
                              ![a].pc = IF act[a].left = {f} THEN "settle" ELSE "restore"]
        \/ act' = [act EXCEPT ![a].pc = "settle", ![a].verdict = "unresolved",
                              ![a].note = {f}, ![a].left = {}]
        \/ LeftAsItIs(a)
  BY DEF RestoreReread
<1>5. RestTyped' /\ journal' = journal /\ opCount' = opCount /\ writer' = writer
  BY Local DEF RestoreReread, RestTyped
<1>6. CASE act' = [act EXCEPT ![a].left = @ \ {f},
                              ![a].pc = IF act[a].left = {f} THEN "settle" ELSE "restore"]
  <2> DEFINE s == [act[a] EXCEPT !.left = @ \ {f},
                                 !.pc = IF act[a].left = {f} THEN "settle" ELSE "restore"]
  <2>1. s \in ActorState
    BY <1>1 DEF ActorState, PC
  <2>2. act' = [act EXCEPT ![a] = s]
    BY <1>1, <1>6
  <2>3. /\ s.pc \in Recovering /\ s.job = act[a].job /\ s.snap = act[a].snap /\ s.op = act[a].op
        /\ s.verdict # "none" /\ s.left \subseteq act[a].left /\ s.seen = act[a].seen
    BY <1>1, <1>2 DEF ActorState, Recovering
  <2> HIDE DEF s
  <2>4. act[a].pc \in Recovering
    BY <1>1 DEF Recovering
  <2> QED BY <1>2, <1>5, <2>1, <2>2, <2>3, <2>4, RecoveringStep
<1>7. CASE act' = [act EXCEPT ![a].pc = "settle", ![a].verdict = "unresolved",
                              ![a].note = {f}, ![a].left = {}]
  BY <1>1, <1>2, <1>3, <1>5, <1>7, UnresolvedStep
<1>8. CASE LeftAsItIs(a)
  BY <1>1, <1>5, <1>8, ThrownStep DEF Recovering
<1> QED BY <1>4, <1>6, <1>7, <1>8

\* A verdict, published or not.
LEMMA VerdictStep ==
  ASSUME IInv, RestTyped', ActorAssumption, BoundAssumption, NEW a \in Actor,
         act[a].pc = "settle", journal' \in {journal, Verdicted(a)}, LeftAsItIs(a),
         opCount' = opCount, writer' = writer
  PROVE  IInv'
<1> DEFINE s == [act[a] EXCEPT !.pc = "sweep", !.job = 0, !.snap = NoRecord,
                               !.verdict = "none", !.note = {}, !.left = {}]
<1>1. /\ act[a] \in ActorState /\ act \in [Actor -> ActorState]
      /\ Shaped(act[a]) /\ Known(act[a])
  BY Local
<1>2. act[a].job # 0 /\ act[a].snap \in Record /\ act[a].verdict # "none" /\ act[a].op = 0
  BY <1>1 DEF Shaped, Recovering, Stepping, Undoing
<1>3. s \in ActorState
  BY <1>1 DEF ActorState, PC
<1>4. Shaped(s) /\ s.op = 0 /\ s.job = 0 /\ s.seen = act[a].seen
  BY <1>1, <1>2 DEF Shaped, Stepping, Undoing, Recovering, ActorState
<1>5. act' = [act EXCEPT ![a] = s]
  BY <1>1 DEF LeftAsItIs
<1>6. Known(s)
  BY <1>1, <1>4 DEF Known, IInv, TypeOK
<1> HIDE DEF s
<1>7. CASE journal' = journal
  BY <1>3, <1>4, <1>5, <1>7, QuietStep
<1>8. ASSUME NEW R \in Record, journal' = [journal EXCEPT ![act[a].job] = R]
      PROVE  IInv'
  <2>1. /\ journal' \in [Op -> Record \cup {NoRecord}]
        /\ \A b \in Actor : b # a => Follows(b)
        /\ \A r \in Op : r > opCount => journal'[r] = journal[r]
    BY <1>2, <1>8, JobRecord
  <2> QED BY <1>3, <1>4, <1>5, <1>6, <2>1, ActorStep
<1>9. /\ [act[a].snap EXCEPT !.note = act[a].note] \in Record
      /\ act[a].verdict # "unresolved" => [act[a].snap EXCEPT !.state = act[a].verdict] \in Record
  BY <1>1, <1>2, JobRewritten DEF ActorState, Terminal
<1> QED BY <1>7, <1>8, <1>9 DEF Verdicted

LEMMA SettleStep ==
  ASSUME IInv, ActorAssumption, BoundAssumption, NEW a \in Actor, Settle(a)
  PROVE  IInv'
<1>1. RestTyped'
  BY Local DEF Settle, RestTyped
<1> QED BY <1>1, VerdictStep DEF Settle

LEMMA SettleFailsStep ==
  ASSUME IInv, ActorAssumption, BoundAssumption, NEW a \in Actor, SettleFails(a)
  PROVE  IInv'
<1>1. RestTyped'
  BY Local DEF SettleFails, Fault, RestTyped
<1> QED BY <1>1, VerdictStep DEF SettleFails

LEMMA SweepEndStep ==
  ASSUME IInv, ActorAssumption, BoundAssumption, NEW a \in Actor, SweepEnd(a)
  PROVE  IInv'
<1> DEFINE s == [act[a] EXCEPT !.pc = IF act[a].plan = NoPlan THEN "idle" ELSE "check"]
<1>1. /\ act[a].pc = "sweep" /\ act[a] \in ActorState /\ act \in [Actor -> ActorState]
      /\ Shaped(act[a]) /\ Known(act[a])
  BY Local DEF SweepEnd
<1>2. s \in ActorState
  BY <1>1 DEF ActorState, PC
<1>3. Shaped(s) /\ s.op = 0 /\ s.job = 0 /\ s.seen = act[a].seen
  BY <1>1 DEF Shaped, Stepping, Undoing, Recovering, ActorState
<1>4. act' = [act EXCEPT ![a] = s]
  BY <1>1 DEF SweepEnd
<1>5. RestTyped' /\ opCount' = opCount /\ writer' = writer
  BY BundlesTyped DEF SweepEnd, RestTyped, IInv, TypeOK
<1>6. Known(s)
  BY <1>1, <1>3 DEF Known, IInv, TypeOK
<1> HIDE DEF s
<1> QED BY <1>2, <1>3, <1>4, <1>5, <1>6, Compacted, ActorStep DEF SweepEnd

------------------------------------------------------------------------------
(* The environment *)

\* A death takes every run of the process, and nobody else's.
LEMMA CrashStep ==
  ASSUME IInv, ActorAssumption, BoundAssumption, NEW p \in Proc, Crash(p)
  PROVE  IInv'
<1>1. Idle \in ActorState /\ Shaped(Idle) /\ Idle.op = 0 /\ Idle.job = 0 /\ Idle.seen = {}
  BY DEF Idle, ActorState, PC, Outcome, NoRecord, Shaped, Stepping, Undoing, Recovering
<1>2. /\ act' = [a \in Actor |-> IF ProcOf[a] = p THEN Idle ELSE act[a]]
      /\ writer' = [r \in Op |-> IF writer[r] = p THEN Dead ELSE writer[r]]
      /\ booted' = [booted EXCEPT ![p] = FALSE] /\ crashes' = crashes + 1
      /\ ahead' = [a \in Actor |-> IF ProcOf[a] = p THEN {} ELSE ahead[a]]
      /\ UNCHANGED <<disk, journal, opCount, temps, bundle, faults, edits>>
  BY DEF Crash
<1> HIDE DEF Idle
<1>3. \A a \in Actor : act'[a] = IF ProcOf[a] = p THEN Idle ELSE act[a]
  BY <1>2
<1>4. \A r \in Op : writer'[r] = IF writer[r] = p THEN Dead ELSE writer[r]
  BY <1>2
<1>5. TypeOK'
  <2>1. act' \in [Actor -> ActorState]
    BY <1>1, <1>2 DEF IInv, TypeOK
  <2>2. writer' \in [Op -> Proc \cup {Dead}]
    BY <1>2 DEF IInv, TypeOK
  <2>3. booted' \in [Proc -> BOOLEAN] /\ crashes' \in Nat /\ ahead' \in [Actor -> SUBSET Actor]
    BY <1>2 DEF IInv, TypeOK
  <2> QED BY <1>2, <2>1, <2>2, <2>3 DEF IInv, TypeOK
<1>6. Shape'
  BY <1>1, <1>3 DEF IInv, Shape
<1>7. \A a \in Actor : act'[a].op # 0 =>
        act'[a] = act[a] /\ ProcOf[a] # p /\ act[a].op \in Op
  BY <1>1, <1>3 DEF IInv, TypeOK, ActorState
<1>8. Live'
  <2>1. \A a \in Actor : Known(act[a])'
    BY <1>1, <1>2, <1>3 DEF IInv, Live, Known, TypeOK
  <2>2. \A a \in Actor : act'[a].op # 0 => writer'[act'[a].op] = ProcOf[a]
    BY <1>4, <1>7 DEF IInv, Live
  <2>3. \A a, b \in Actor : a # b /\ act'[a].op # 0 => act'[a].op # act'[b].op
    <3>1. SUFFICES ASSUME NEW a \in Actor, NEW b \in Actor, a # b, act'[a].op # 0,
                          act'[a].op = act'[b].op
                   PROVE  FALSE
      OBVIOUS
    <3> QED BY <1>7, <3>1 DEF IInv, Live
  <2> QED BY <1>2, <2>1, <2>2, <2>3 DEF IInv, Live
<1>9. RecordFollowsRun'
  BY <1>2, <1>7 DEF IInv, RecordFollowsRun
<1>10. RecoveryLeavesLiveRuns'
  <2>1. SUFFICES ASSUME NEW a \in Actor, act'[a].job # 0
                 PROVE  /\ \A b \in Actor : act'[b].op # act'[a].job
                        /\ writer'[act'[a].job] \in {Dead, ProcOf[a]}
    BY DEF RecoveryLeavesLiveRuns
  <2>2. act'[a] = act[a] /\ ProcOf[a] # p /\ act[a].job \in Op
    BY <1>1, <1>3, <2>1 DEF IInv, TypeOK, ActorState
  <2>3. (\A b \in Actor : act[b].op # act[a].job) /\ writer[act[a].job] \in {Dead, ProcOf[a]}
    BY <2>1, <2>2 DEF IInv, RecoveryLeavesLiveRuns
  <2>4. act[a].job # 0
    BY <2>1, <2>2
  <2> QED BY <1>4, <1>7, <2>2, <2>3, <2>4
<1> QED BY <1>5, <1>6, <1>8, <1>9, <1>10 DEF IInv

LEMMA EditStep ==
  ASSUME IInv, ContentAssumption, NEW f \in File, NEW c \in EditorContent, Edit(f, c)
  PROVE  IInv'
<1>1. disk' \in [File -> Content] /\ edits' \in Nat
  BY DEF Edit, IInv, TypeOK, ContentAssumption
<1>2. UNCHANGED <<journal, opCount, writer, temps, bundle, act, ahead, booted, crashes, faults>>
  BY DEF Edit
<1>3. TypeOK'
  BY <1>1, <1>2 DEF IInv, TypeOK
<1> QED BY <1>2, <1>3 DEF IInv, Shape, Live, Known, RecordFollowsRun, RecoveryLeavesLiveRuns

------------------------------------------------------------------------------
(* The theorems *)

LEMMA Initial ==
  ASSUME Init, DiskAssumption, BoundAssumption
  PROVE  IInv
<1>1. Idle \in ActorState /\ Shaped(Idle) /\ Idle.op = 0 /\ Idle.job = 0 /\ Idle.seen = {}
  BY DEF Idle, ActorState, PC, Outcome, NoRecord, Shaped, Stepping, Undoing, Recovering
<1> HIDE DEF Idle
<1>2. TypeOK
  BY <1>1 DEF Init, TypeOK, DiskAssumption, BoundAssumption
<1>3. Shape
  BY <1>1 DEF Init, Shape
<1>4. Live
  BY <1>1 DEF Init, Live, Known
<1>5. RecordFollowsRun /\ RecoveryLeavesLiveRuns
  BY <1>1 DEF Init, RecordFollowsRun, RecoveryLeavesLiveRuns
<1> QED BY <1>2, <1>3, <1>4, <1>5 DEF IInv

LEMMA Stutter ==
  ASSUME IInv, UNCHANGED vars
  PROVE  IInv'
<1>1. UNCHANGED <<disk, journal, opCount, writer, temps, bundle, act, ahead, booted,
                  crashes, faults, edits>>
  BY DEF vars
<1>2. TypeOK'
  BY <1>1 DEF IInv, TypeOK
<1> QED BY <1>1, <1>2 DEF IInv, Shape, Live, Known, RecordFollowsRun, RecoveryLeavesLiveRuns

LEMMA Inductive ==
  ASSUME IInv, [Next]_vars
  PROVE  IInv'
<1>1. CASE UNCHANGED vars
  BY <1>1, Stutter
<1>2. ASSUME NEW a \in Actor, NEW p \in Plan, Begin(a, p) PROVE IInv'
  BY <1>2, ActorAssumption, PlanAssumption, BeginStep
<1>3. ASSUME NEW a \in Actor, Cancel(a) PROVE IInv'
  BY <1>3, ActorAssumption, CancelStep
<1>4. ASSUME NEW p \in Proc, Crash(p) PROVE IInv'
  BY <1>4, ActorAssumption, BoundAssumption, CrashStep
<1>5. ASSUME NEW f \in File, NEW c \in EditorContent, Edit(f, c) PROVE IInv'
  BY <1>5, ContentAssumption, EditStep
<1>6. ASSUME NEW a \in Actor, Step(a) PROVE IInv'
  <2>1. CASE Lock(a) \/ Check(a) \/ Stage(a)
    BY <2>1, ActorAssumption, PlanAssumption, BoundAssumption, LockStep, CheckStep, StageStep
  <2>2. CASE Boot(a) \/ Sweep(a) \/ Settle(a) \/ SweepEnd(a)
    BY <2>2, ActorAssumption, PlanAssumption, BoundAssumption,
       BootStep, SweepStep, SettleStep, SweepEndStep
  <2>3. CASE Inspect(a) \/ Restore(a) \/ RestoreReread(a)
    BY <2>3, ActorAssumption, PlanAssumption, BoundAssumption,
       InspectStep, RestoreStep, RestoreRereadStep
  <2>4. CASE Prepare(a) \/ LockTimesOut(a) \/ OpenOp(a) \/ Apply(a)
    BY <2>4, ActorAssumption, PlanAssumption, BoundAssumption,
       PrepareStep, LockTimesOutStep, OpenOpStep, ApplyStep
  <2>5. CASE Probe(a) \/ Write(a) \/ WriteFails(a) \/ Verify(a)
    BY <2>5, ActorAssumption, PlanAssumption, BoundAssumption,
       ProbeStep, WriteStep, WriteFailsStep, VerifyStep
  <2>6. CASE Commit(a) \/ Turn(a) \/ Close(a) \/ Compensated(a) \/ Conclude(a)
    BY <2>6, ActorAssumption, PlanAssumption, BoundAssumption,
       CommitStep, TurnStep, CloseStep, CompensatedStep, ConcludeStep
  <2>7. CASE Compensate(a) \/ Undo(a) \/ Reread(a)
    BY <2>7, ActorAssumption, PlanAssumption, CompensateStep, UndoStep, RereadStep
  <2> QED BY <1>6, <2>1, <2>2, <2>3, <2>4, <2>5, <2>6, <2>7 DEF Step
<1>7. ASSUME NEW a \in Actor, Fails(a) PROVE IInv'
  <2>1. CASE StageFails(a) \/ PrepareFails(a) \/ OpenOpFails(a) \/ ApplyFails(a)
    BY <2>1, ActorAssumption, PlanAssumption, BoundAssumption,
       StageFailsStep, PrepareFailsStep, OpenOpFailsStep, ApplyFailsStep
  <2>2. CASE WriteUnrecorded(a) \/ CommitFails(a) \/ TurnFails(a)
    BY <2>2, ActorAssumption, PlanAssumption, BoundAssumption,
       WriteUnrecordedStep, CommitFailsStep, TurnFailsStep
  <2>3. CASE CompensatedFails(a) \/ SettleFails(a)
    BY <2>3, ActorAssumption, BoundAssumption, CompensatedFailsStep, SettleFailsStep
  <2> QED BY <1>7, <2>1, <2>2, <2>3 DEF Fails
<1> QED BY <1>1, <1>2, <1>3, <1>4, <1>5, <1>6, <1>7 DEF Next

LEMMA Invariance == Spec => []IInv
<1>1. Init => IInv
  BY Initial, DiskAssumption, BoundAssumption
<1>2. IInv /\ [Next]_vars => IInv'
  BY Inductive
<1> QED BY <1>1, <1>2, PTL DEF Spec

\* Every step leaves every variable in its type, whatever the plans, the actors,
\* the processes and the outside editor: what the rest of the proofs stand on.
THEOREM TypeCorrect == Spec => []TypeOK
<1>1. IInv => TypeOK
  BY DEF IInv
<1> QED BY <1>1, Invariance, PTL

\* runJournaledOperation owns its record from openOp to the last transition: no
\* recovery sweep of any process settles or revives the operation of a run that
\* is under way, and compaction does not drop it.
THEOREM RecordFollows == Spec => []RecordFollowsRun
<1>1. IInv => RecordFollowsRun
  BY DEF IInv
<1> QED BY <1>1, Invariance, PTL

\* recoverChangeSetJournal and the revival of a dead run's operation work only on
\* operations that no run is writing, though they take no lock and act on records
\* read earlier.
THEOREM RecoveryLeaves == Spec => []RecoveryLeavesLiveRuns
<1>1. IInv => RecoveryLeavesLiveRuns
  BY DEF IInv
<1> QED BY <1>1, Invariance, PTL

------------------------------------------------------------------------------
(* The path locks *)

\* A step of an actor outside the lock loop that keeps its plan or gives it up, and with
\* it every slot.
Keeps(a) ==
  /\ act[a].pc # "lock" /\ act'[a].pc # "lock"
  /\ \/ act'[a].plan = act[a].plan /\ ahead' = ahead
     \/ /\ act'[a].plan = NoPlan
        /\ ahead' = [b \in Actor |-> IF b = a THEN {} ELSE ahead[b] \ {a}]
  /\ \A b \in Actor : b # a => act'[b] = act[b]

\* Only Begin and Lock have to do with a path lock.
LEMMA StepKeeps ==
  ASSUME IInv, NEW a \in Actor, Step(a) \/ Fails(a) \/ Cancel(a), ~Lock(a)
  PROVE  Keeps(a)
<1>0. act \in [Actor -> ActorState] /\ act[a] \in ActorState
  BY Local
<1>1. \A o \in Outcome : Return(a, o) /\ act[a].pc # "lock" => Keeps(a)
  BY <1>0 DEF Return, Idle, Keeps
<1>2. CASE Boot(a)
  BY <1>0, <1>2 DEF Boot, Keeps, ActorState, Listing
<1>3. CASE Sweep(a)
  BY <1>0, <1>3 DEF Sweep, Keeps, ActorState, Listing
<1>4. CASE Inspect(a)
  BY <1>0, <1>4 DEF Inspect, Keeps, ActorState, Judge
<1>5. CASE Restore(a)
  BY <1>0, <1>5 DEF Restore, Keeps, ActorState, LeftAsItIs
<1>6. CASE RestoreReread(a)
  BY <1>0, <1>6 DEF RestoreReread, Keeps, ActorState, LeftAsItIs
<1>7. CASE Settle(a) \/ SettleFails(a)
  BY <1>0, <1>7 DEF Settle, SettleFails, Keeps, ActorState, LeftAsItIs
<1>8. CASE SweepEnd(a)
  BY <1>0, <1>8 DEF SweepEnd, Keeps, ActorState
<1>9. CASE Check(a)
  BY <1>0, <1>1, <1>9 DEF Check, Keeps, ActorState, Outcome
<1>10. CASE Stage(a) \/ StageFails(a)
  BY <1>0, <1>10 DEF Stage, StageFails, Keeps, ActorState
<1>11. CASE Prepare(a)
  <2>1. /\ act[a].pc = "staged"
        /\ \/ Return(a, "replayed") \/ Return(a, "in-flight")
           \/ /\ \E r \in Op : act' = [act EXCEPT ![a].pc = "comp", ![a].job = r,
                                                  ![a].left = Targets(a), ![a].snap = journal[r]]
              /\ ahead' = ahead
           \/ act' = [act EXCEPT ![a].pc = "open"] /\ ahead' = ahead
    BY <1>11 DEF Prepare, OpenOps
  <2>2. CASE Return(a, "replayed") \/ Return(a, "in-flight")
    BY <1>1, <2>1, <2>2 DEF Outcome
  <2>3. ASSUME NEW r \in Op, act' = [act EXCEPT ![a].pc = "comp", ![a].job = r,
                                               ![a].left = Targets(a), ![a].snap = journal[r]],
               ahead' = ahead
        PROVE  Keeps(a)
    BY <1>0, <2>1, <2>3 DEF Keeps, ActorState
  <2>4. CASE act' = [act EXCEPT ![a].pc = "open"] /\ ahead' = ahead
    BY <1>0, <2>1, <2>4 DEF Keeps, ActorState
  <2> QED BY <2>1, <2>2, <2>3, <2>4
<1>12. CASE LockTimesOut(a) \/ PrepareFails(a)
  <2>1. CASE LockTimesOut(a)
    BY <1>0, <2>1 DEF LockTimesOut, Incomplete, Keeps, ActorState
  <2>2. CASE PrepareFails(a)
    BY <1>0, <2>2 DEF PrepareFails, Incomplete, Keeps, ActorState
  <2> QED BY <1>12, <2>1, <2>2
<1>13. CASE OpenOp(a) \/ OpenOpFails(a)
  BY <1>0, <1>13 DEF OpenOp, OpenOpFails, Keeps, ActorState
<1>14. CASE Apply(a) \/ ApplyFails(a)
  BY <1>0, <1>14 DEF Apply, ApplyFails, Throw, Keeps, ActorState
<1>15. CASE Probe(a)
  BY <1>0, <1>15 DEF Probe, Keeps, ActorState, Throw
<1>16. CASE Write(a)
  BY <1>0, <1>16 DEF Write, Keeps, ActorState
<1>17. CASE WriteFails(a) \/ WriteUnrecorded(a)
  BY <1>0, <1>17 DEF WriteFails, WriteUnrecorded, Keeps, ActorState, Throw
<1>18. CASE Verify(a)
  BY <1>0, <1>18 DEF Verify, Keeps, ActorState, Throw
<1>19. CASE Commit(a) \/ CommitFails(a)
  BY <1>0, <1>19 DEF Commit, CommitFails, Throw, Keeps, ActorState
<1>20. CASE Close(a)
  BY <1>0, <1>1, <1>20 DEF Close, Keeps, ActorState, Outcome
<1>21. CASE Compensate(a)
  BY <1>0, <1>21 DEF Compensate, Keeps, ActorState
<1>22. CASE Undo(a)
  BY <1>0, <1>22 DEF Undo, Keeps, ActorState
<1>23. CASE Reread(a)
  BY <1>0, <1>23 DEF Reread, Keeps, ActorState
<1>24. CASE Compensated(a) \/ CompensatedFails(a)
  <2>1. PICK pc \in {"failed", "open"} : Walked(a, pc)
    BY <1>24 DEF Compensated, CompensatedFails
  <2> QED BY <1>0, <2>1 DEF Walked, Keeps, ActorState
<1>25. CASE Conclude(a)
  BY <1>0, <1>1, <1>25 DEF Conclude, Keeps, ActorState, Outcome
<1>26. CASE Cancel(a)
  BY <1>0, <1>1, <1>26 DEF Cancel, Keeps, ActorState, Outcome
<1>27. CASE Turn(a) \/ TurnFails(a)
  BY <1>0, <1>27 DEF Turn, TurnFails, Keeps, ActorState
<1> QED
  BY <1>2, <1>3, <1>4, <1>5, <1>6, <1>7, <1>8, <1>9, <1>10, <1>11, <1>12, <1>13, <1>14, <1>15,
     <1>16, <1>17, <1>18, <1>19, <1>20, <1>21, <1>22, <1>23, <1>24, <1>25, <1>26, <1>27
     DEF Step, Fails

\* Of two runs of a process with a slot on one path, the one that still awaits it knows the
\* other before itself.
Queued ==
  \A a \in Actor : \A b \in Peers(a) : \A f \in InLine(a) \cap InLine(b) :
    (f \in Awaits(a) /\ b \in ahead[a]) \/ (f \in Awaits(b) /\ a \in ahead[b])

\* Whoever is before a run has a slot on the path it awaits, and if it awaits that path too,
\* nobody is before it that is not before the run.
Ranked ==
  \A a \in Actor : \A b \in ahead[a] :
    /\ b \in Peers(a)
    /\ \A f \in Awaits(a) :
         f \in InLine(b) /\ (f \in Awaits(b) => ahead[b] \subseteq ahead[a] \ {b})

\* Where an actor stands depends on its own record alone.
LEMMA StandsSame ==
  ASSUME NEW b \in Actor, act'[b] = act[b]
  PROVE  Awaits(b)' = Awaits(b) /\ InLine(b)' = InLine(b) /\ Held(b)' = Held(b)
BY DEF Awaits, InLine, Held, Targets, NextPath, First

LEMMA AwaitsNotHeld ==
  ASSUME NEW a \in Actor
  PROVE  /\ Awaits(a) \cap Held(a) = {} /\ (act[a].pc # "lock" => Awaits(a) = {})
         /\ Held(a) \subseteq InLine(a) /\ Awaits(a) \subseteq InLine(a)
BY DEF Awaits, Held, InLine

LEMMA KeepsLines ==
  ASSUME TypeOK, Queued, Ranked, NEW a \in Actor, Keeps(a)
  PROVE  Queued' /\ Ranked'
<1>1. \A b \in Actor : b # a => Awaits(b)' = Awaits(b) /\ InLine(b)' = InLine(b)
  BY StandsSame DEF Keeps
<1>2. Awaits(a) = {} /\ Awaits(a)' = {}
  BY DEF Keeps, Awaits
<1>3. CASE act'[a].plan = act[a].plan /\ ahead' = ahead
  <2>1. InLine(a)' = InLine(a)
    BY <1>2, <1>3 DEF Keeps, InLine, Held, Targets
  <2>2. \A b \in Actor : Awaits(b)' = Awaits(b) /\ InLine(b)' = InLine(b)
    BY <1>1, <1>2, <2>1
  <2> QED BY <1>3, <2>2 DEF Queued, Ranked, Peers
<1>4. CASE /\ act'[a].plan = NoPlan
           /\ ahead' = [b \in Actor |-> IF b = a THEN {} ELSE ahead[b] \ {a}]
  <2>1. InLine(a)' = {}
    BY <1>2, <1>4 DEF Keeps, InLine, Held, Targets
  <2>2. \A b \in Actor : ahead'[b] = IF b = a THEN {} ELSE ahead[b] \ {a}
    BY <1>4
  <2>3. ASSUME NEW b \in Actor, NEW c \in Peers(b), NEW f, f \in InLine(b)', f \in InLine(c)'
        PROVE  (f \in Awaits(b)' /\ c \in ahead'[b]) \/ (f \in Awaits(c)' /\ b \in ahead'[c])
    <3>1. c \in Actor /\ b # a /\ c # a
      BY <2>1, <2>3 DEF Peers
    <3>2. (f \in Awaits(b) /\ c \in ahead[b]) \/ (f \in Awaits(c) /\ b \in ahead[c])
      BY <1>1, <2>3, <3>1 DEF Queued
    <3> QED BY <1>1, <2>2, <3>1, <3>2
  <2>4. ASSUME NEW b \in Actor, NEW c \in ahead'[b]
        PROVE  /\ c \in Peers(b)
               /\ \A f \in Awaits(b)' : f \in InLine(c)' /\ (f \in Awaits(c)' => ahead'[c] \subseteq ahead'[b] \ {c})
    <3>0. b # a /\ c # a /\ c \in ahead[b]
      BY <2>2, <2>4
    <3>1. b # a /\ c # a /\ c \in ahead[b] /\ c \in Peers(b)
      BY <3>0 DEF Ranked
    <3>2. \A f \in Awaits(b) : f \in InLine(c) /\ (f \in Awaits(c) => ahead[c] \subseteq ahead[b] \ {c})
      BY <3>1 DEF Ranked
    <3>3. c \in Actor
      BY <3>1 DEF Peers
    <3> QED BY <1>1, <2>2, <3>1, <3>2, <3>3
  <2> QED BY <2>3, <2>4 DEF Queued, Ranked, Peers
<1> QED BY <1>3, <1>4 DEF Keeps

\* A run that takes a slot on the next path: it held and awaited what it is in line for now
\* already, but for that path, on which everybody with a slot is before it.
LEMMA SlotLines ==
  ASSUME TypeOK, Queued, Ranked, FileAssumption, NEW a \in Actor, NEW p, NEW S \in SUBSET File,
         \A b \in Actor : b # a => act'[b] = act[b],
         ahead' = [ahead EXCEPT ![a] = Before(a, p, S)],
         Awaits(a)' = {f \in S : NextPath(p, S, f)},
         S \cap InLine(a) = {},
         InLine(a)' \subseteq InLine(a) \cup Awaits(a)',
         Awaits(a) \subseteq InLine(a)',
         Held(a) \subseteq InLine(a)',
         Awaits(a) # {} => ahead[a] = {}
  PROVE  Queued' /\ Ranked'
<1>1. \A b \in Actor : b # a => Awaits(b)' = Awaits(b) /\ InLine(b)' = InLine(b)
  BY StandsSame
<1>2. ahead'[a] = Before(a, p, S) /\ \A b \in Actor : b # a => ahead'[b] = ahead[b]
  BY DEF TypeOK
<1>3. \A f \in Awaits(a)' : f \in S /\ NextPath(p, S, f)
  OBVIOUS
<1>4. ASSUME NEW b \in Peers(a), NEW f \in Awaits(a)', f \in InLine(b)
      PROVE  b \in ahead'[a]
  BY <1>2, <1>3, <1>4 DEF Before
<1>5. ASSUME NEW b \in Peers(a), NEW f, f \in InLine(a)', f \in InLine(b)
      PROVE  (f \in Awaits(a)' /\ b \in ahead'[a]) \/ (f \in Awaits(b) /\ a \in ahead[b])
  <2>1. CASE f \in Awaits(a)'
    BY <1>4, <1>5, <2>1
  <2>2. CASE f \notin Awaits(a)'
    <3>1. f \in InLine(a) \cap InLine(b)
      BY <1>5, <2>2
    <3>2. (f \in Awaits(a) /\ b \in ahead[a]) \/ (f \in Awaits(b) /\ a \in ahead[b])
      BY <3>1 DEF Queued
    <3> QED BY <3>2
  <2> QED BY <2>1, <2>2
<1>6. Queued'
  <2>1. ASSUME NEW b \in Actor, NEW c \in Peers(b), NEW f, f \in InLine(b)', f \in InLine(c)'
        PROVE  (f \in Awaits(b)' /\ c \in ahead'[b]) \/ (f \in Awaits(c)' /\ b \in ahead'[c])
    <3>1. c \in Actor /\ c # b /\ b \in Peers(c)
      BY DEF Peers
    <3>2. CASE b = a
      BY <1>1, <1>2, <1>5, <2>1, <3>1, <3>2
    <3>3. CASE c = a
      BY <1>1, <1>2, <1>5, <2>1, <3>1, <3>3
    <3>4. CASE b # a /\ c # a
      BY <1>1, <1>2, <2>1, <3>1, <3>4 DEF Queued
    <3> QED BY <3>2, <3>3, <3>4
  <2> QED BY <2>1 DEF Queued, Peers
<1>7. \A b \in ahead'[a] : b \in Peers(a) /\ \E f \in InLine(b) : NextPath(p, S, f)
  BY <1>2 DEF Before
<1>8. ASSUME NEW b \in ahead'[a], NEW f \in Awaits(a)'
       PROVE  f \in InLine(b) /\ (f \in Awaits(b) => ahead[b] \subseteq ahead'[a] \ {b})
  <2>1. b \in Peers(a) /\ b # a /\ b \in Actor
    BY <1>7 DEF Peers
  <2>2. PICK g \in InLine(b) : NextPath(p, S, g)
    BY <1>7
  <2>3. f = g
    <3>1. g \in S /\ f \in S /\ g <= f /\ f <= g
      BY <1>3, <2>2 DEF NextPath, First
    <3>2. g \in Nat /\ f \in Nat
      BY <3>1 DEF FileAssumption
    <3> QED BY <3>1, <3>2
  <2>4. ASSUME f \in Awaits(b), NEW c \in ahead[b]
        PROVE  c \in ahead'[a] \ {b}
    <3>1. c \in Peers(b) /\ f \in InLine(c)
      BY <2>1, <2>4 DEF Ranked
    <3>2. f \notin InLine(a)
      BY <1>3
    <3>3. c # a /\ c \in Peers(a) /\ c # b
      BY <2>1, <3>1, <3>2 DEF Peers
    <3> QED BY <1>4, <3>1, <3>3
  <2> QED BY <2>2, <2>3, <2>4
<1>9. Ranked'
  <2>1. ASSUME NEW b \in Actor, NEW c \in ahead'[b]
        PROVE  /\ c \in Peers(b)
               /\ \A f \in Awaits(b)' : f \in InLine(c)' /\ (f \in Awaits(c)' => ahead'[c] \subseteq ahead'[b] \ {c})
    <3>1. CASE b = a
      <4>1. c \in Peers(a) /\ c # a /\ c \in Actor
        BY <1>7, <2>1, <3>1 DEF Peers
      <4> QED BY <1>1, <1>2, <1>8, <2>1, <3>1, <4>1
    <3>2. CASE b # a
      <4>1. c \in ahead[b] /\ c \in Peers(b) /\ c \in Actor
        BY <1>2, <2>1, <3>2 DEF Ranked, Peers
      <4>2. \A f \in Awaits(b) : f \in InLine(c) /\ (f \in Awaits(c) => ahead[c] \subseteq ahead[b] \ {c})
        BY <4>1 DEF Ranked
      <4>3. CASE c # a
        BY <1>1, <1>2, <3>2, <4>1, <4>2, <4>3
      <4>4. CASE c = a
        <5>1. \A f \in Awaits(b) : f \in InLine(a)' /\ f \notin Awaits(a)'
          BY <4>2, <4>4 DEF InLine
        <5> QED BY <1>1, <3>2, <4>1, <4>4, <5>1
      <4> QED BY <4>3, <4>4
    <3> QED BY <3>1, <3>2
  <2> QED BY <2>1 DEF Ranked, Peers
<1> QED BY <1>6, <1>9

LEMMA LockLines ==
  ASSUME IInv, FileAssumption, Queued, Ranked, NEW a \in Actor, Lock(a)
  PROVE  Queued' /\ Ranked'
<1>0. /\ act \in [Actor -> ActorState] /\ act[a] \in ActorState /\ act[a].pc = "lock"
      /\ act[a].left \subseteq File /\ ahead[a] = {} /\ act[a].plan # NoPlan
      /\ act[a].left \subseteq DOMAIN act[a].plan
  BY Local, PlanAssumption DEF Lock, ActorState, Shaped, Recovering, PlanAssumption
<1>1. PICK f \in act[a].left :
        /\ NextPath(act[a].plan, act[a].left, f)
        /\ act' = [act EXCEPT ![a].left = @ \ {f},
                              ![a].pc = IF act[a].left = {f} THEN "start" ELSE "lock"]
        /\ ahead' = [ahead EXCEPT ![a] = Before(a, act[a].plan, act[a].left \ {f})]
  BY DEF Lock
<1> DEFINE p == act[a].plan
           S == act[a].left \ {f}
<1>2. /\ act'[a].left = S /\ act'[a].plan = p
      /\ act'[a].pc = IF act[a].left = {f} THEN "start" ELSE "lock"
      /\ \A b \in Actor : b # a => act'[b] = act[b]
  BY <1>0, <1>1 DEF ActorState
<1>3. S \in SUBSET File
  BY <1>0
<1>4. Awaits(a) = {f}
  <2>1. \A g \in act[a].left : NextPath(p, act[a].left, g) => g = f
    BY <1>0, <1>1 DEF NextPath, First, FileAssumption
  <2> QED BY <1>0, <1>1, <2>1 DEF Awaits
<1>5. Awaits(a)' = {g \in S : NextPath(p, S, g)}
  <2>1. CASE act[a].left = {f}
    <3>1. Awaits(a)' = {}
      BY <1>2, <2>1 DEF Awaits
    <3> QED BY <2>1, <3>1
  <2>2. CASE act[a].left # {f}
    BY <1>2, <2>2 DEF Awaits, NextPath, First
  <2> QED BY <2>1, <2>2
<1>6. Held(a) = Targets(a) \ act[a].left /\ Held(a)' = Targets(a) \ S
  BY <1>0, <1>1, <1>2 DEF Held, Targets
<1>7. Targets(a) = DOMAIN p
  BY <1>0 DEF Targets
<1>8. /\ S \cap InLine(a) = {} /\ InLine(a)' \subseteq InLine(a) \cup Awaits(a)'
      /\ Awaits(a) \subseteq InLine(a)' /\ Held(a) \subseteq InLine(a)'
  BY <1>0, <1>4, <1>6, <1>7 DEF InLine
<1> HIDE DEF p, S
<1>9. ahead' = [ahead EXCEPT ![a] = Before(a, p, S)]
  BY <1>1 DEF p, S
<1> QED BY <1>0, <1>2, <1>3, <1>5, <1>8, <1>9, SlotLines DEF IInv

LEMMA BeginLines ==
  ASSUME IInv, PlanAssumption, FileAssumption, Queued, Ranked, NEW a \in Actor, NEW p \in Plan,
         Begin(a, p)
  PROVE  Queued' /\ Ranked'
<1>1. /\ act \in [Actor -> ActorState] /\ p # NoPlan /\ DOMAIN p \in SUBSET File
      /\ act[a].pc = "idle" /\ act[a].plan = NoPlan
  BY Local, PlanAssumption DEF PlanAssumption, Begin, Shaped
<1>2. /\ act'[a].pc = "lock" /\ act'[a].plan = p /\ act'[a].left = DOMAIN p
      /\ \A b \in Actor : b # a => act'[b] = act[b]
  BY <1>1 DEF Begin, Idle
<1>3. Held(a)' = {} /\ InLine(a) = {}
  BY <1>1, <1>2 DEF Held, Targets, InLine, Awaits
<1>4. Awaits(a)' = {f \in DOMAIN p : NextPath(p, DOMAIN p, f)}
  BY <1>2 DEF Awaits, NextPath, First
<1>5. /\ InLine(a)' \subseteq InLine(a) \cup Awaits(a)' /\ Awaits(a) = {} /\ Held(a) = {}
      /\ DOMAIN p \cap InLine(a) = {}
  BY <1>3 DEF InLine
<1>6. ahead' = [ahead EXCEPT ![a] = Before(a, p, DOMAIN p)]
  BY DEF Begin
<1> DEFINE S == DOMAIN p
<1>7. /\ S \in SUBSET File /\ ahead' = [ahead EXCEPT ![a] = Before(a, p, S)]
      /\ Awaits(a)' = {f \in S : NextPath(p, S, f)} /\ S \cap InLine(a) = {}
  BY <1>1, <1>4, <1>5, <1>6
<1> HIDE DEF S
<1>8. TypeOK
  BY DEF IInv
<1>9. /\ Awaits(a) \subseteq InLine(a)' /\ Held(a) \subseteq InLine(a)'
      /\ InLine(a)' \subseteq InLine(a) \cup Awaits(a)' /\ (Awaits(a) # {} => ahead[a] = {})
      /\ \A b \in Actor : b # a => act'[b] = act[b]
  BY <1>2, <1>5
<1> QED BY <1>7, <1>8, <1>9, SlotLines

LEMMA CrashLines ==
  ASSUME Queued, Ranked, NEW p \in Proc, Crash(p)
  PROVE  Queued' /\ Ranked'
<1>1. \A a \in Actor : IF ProcOf[a] = p THEN act'[a] = Idle /\ ahead'[a] = {}
                                        ELSE act'[a] = act[a] /\ ahead'[a] = ahead[a]
  BY DEF Crash
<1>2. \A a \in Actor : ProcOf[a] = p => InLine(a)' = {}
  BY <1>1 DEF InLine, Held, Awaits, Targets, Idle
<1>3. \A a \in Actor : ProcOf[a] # p => Awaits(a)' = Awaits(a) /\ InLine(a)' = InLine(a)
  BY <1>1, StandsSame
<1>4. \A a \in Actor : \A b \in Peers(a) : ProcOf[b] = ProcOf[a] /\ b \in Actor
  BY DEF Peers
<1>5. Queued'
  BY <1>1, <1>2, <1>3, <1>4 DEF Queued, Peers
<1>6. Ranked'
  BY <1>1, <1>3, <1>4 DEF Ranked, Peers
<1> QED BY <1>5, <1>6

LEMMA LinesInvariant == Spec => [](Queued /\ Ranked)
<1>1. Init => Queued /\ Ranked
  BY DEF Init, Idle, Queued, Ranked, Held, Targets, Peers, InLine, Awaits
<1>2. IInv /\ (Queued /\ Ranked) /\ [Next]_vars => (Queued /\ Ranked)'
  <2>1. SUFFICES ASSUME IInv, Queued, Ranked, [Next]_vars PROVE Queued' /\ Ranked'
    OBVIOUS
  <2>2. CASE UNCHANGED <<act, ahead>>
    <3>1. \A a \in Actor : Awaits(a)' = Awaits(a) /\ InLine(a)' = InLine(a)
      BY <2>2, StandsSame
    <3> QED BY <2>1, <2>2, <3>1 DEF Queued, Ranked, Peers
  <2>3. ASSUME NEW a \in Actor, Step(a) \/ Fails(a) \/ Cancel(a) PROVE Queued' /\ Ranked'
    <3>1. CASE Lock(a)
      BY <2>1, <3>1, LockLines, FileAssumption
    <3>2. CASE ~Lock(a)
      BY <2>1, <2>3, <3>2, StepKeeps, KeepsLines DEF IInv
    <3> QED BY <3>1, <3>2
  <2>4. ASSUME NEW a \in Actor, NEW p \in Plan, Begin(a, p) PROVE Queued' /\ Ranked'
    BY <2>1, <2>4, BeginLines, PlanAssumption, FileAssumption
  <2>5. ASSUME NEW p \in Proc, Crash(p) PROVE Queued' /\ Ranked'
    BY <2>1, <2>5, CrashLines
  <2>6. ASSUME NEW f \in File, NEW c \in EditorContent, Edit(f, c) PROVE UNCHANGED <<act, ahead>>
    BY <2>6 DEF Edit
  <2>7. UNCHANGED vars => UNCHANGED <<act, ahead>>
    BY DEF vars
  <2> QED BY <2>1, <2>2, <2>3, <2>4, <2>5, <2>6, <2>7 DEF Next
<1> QED BY <1>1, <1>2, Invariance, PTL DEF Spec

\* acquirePathLocks: a run takes its slot on a path before it awaits anything, and awaits
\* every slot before its own.  So two runs of one process never hold the same target,
\* however many runs there are and whatever targets their plans share.
THEOREM PathsApart == Spec => []PathsExclusive
<1>1. Queued => PathsExclusive
  <2>1. SUFFICES ASSUME Queued, NEW a \in Actor, NEW b \in Peers(a), NEW f \in Held(a) \cap Held(b)
                 PROVE  FALSE
    BY DEF PathsExclusive
  <2>2. b \in Actor /\ f \in InLine(a) \cap InLine(b)
    BY <2>1 DEF Peers, InLine
  <2>3. f \in Awaits(a) \/ f \in Awaits(b)
    BY <2>1, <2>2 DEF Queued
  <2> QED BY <2>1, <2>2, <2>3, AwaitsNotHeld
<1> QED BY <1>1, LinesInvariant, PTL

------------------------------------------------------------------------------
(* No circle of waiting runs *)

LEMMA Greatest ==
  ASSUME FileAssumption, NEW T \in SUBSET File, T # {}
  PROVE  \E m \in T : \A f \in T : f <= m
<1> DEFINE Above(m) == {f \in T : f > m}
           X == {Above(m) : m \in T}
           R == StrictSubsetOrdering(File)
<1>1. X \subseteq SUBSET File /\ X # {}
  OBVIOUS
<1>2. IsWellFoundedOn(R, SUBSET File)
  <2>1. IsWellFoundedOn(R, FiniteSubsetsOf(File))
    BY FS_StrictSubsetOrderingWellFounded
  <2>2. FiniteSubsetsOf(File) = SUBSET File
    BY FS_FiniteSubsetsOfFinite DEF FileAssumption
  <2> QED BY <2>1, <2>2
<1>3. PICK U \in X : \A V \in X : ~(<<V, U>> \in R)
  <2> HIDE DEF X, R
  <2> QED BY <1>1, <1>2, WFMin
<1>4. PICK m \in T : U = Above(m)
  OBVIOUS
<1>5. ASSUME NEW f \in T, f > m PROVE FALSE
  <2>0. T \subseteq Nat
    BY DEF FileAssumption
  <2>1. f \in Above(m)
    BY <1>5
  <2>2. f \notin Above(f)
    BY <2>0
  <2>3. Above(f) \subseteq Above(m)
    <3>1. ASSUME NEW g \in T, g > f PROVE g > m
      <4>1. f \in Nat /\ g \in Nat /\ m \in Nat
        BY <2>0
      <4> QED BY <1>5, <3>1, <4>1
    <3> QED BY <3>1
  <2>4. <<Above(f), Above(m)>> \in R
    BY <2>1, <2>2, <2>3 DEF StrictSubsetOrdering
  <2> QED BY <1>3, <1>4, <2>4
<1> QED BY <1>5 DEF FileAssumption

LEMMA Least ==
  ASSUME FileAssumption, NEW T \in SUBSET File, T # {}
  PROVE  \E m \in T : \A f \in T : m <= f
<1>1. PICK m \in T : \A f \in T : ~(<<f, m>> \in OpToRel(<, Nat))
  <2>1. IsWellFoundedOn(OpToRel(<, Nat), Nat) /\ T \subseteq Nat
    BY NatLessThanWellFounded DEF FileAssumption
  <2> QED BY <2>1, WFMin
<1>2. \A f \in T : m \in Nat /\ f \in Nat /\ ~(f < m)
  BY <1>1 DEF OpToRel, FileAssumption
<1> QED BY <1>2

\* A run takes its paths in their order: those it holds come before those it lacks.
Sorted ==
  \A a \in Actor : act[a].pc = "lock" => \A f \in Held(a), g \in act[a].left : f < g

LEMMA LockSorted ==
  ASSUME IInv, PlanAssumption, FileAssumption, Sorted, NEW a \in Actor, Lock(a)
  PROVE  Sorted'
<1>0. /\ act \in [Actor -> ActorState] /\ act[a] \in ActorState /\ act[a].pc = "lock"
      /\ act[a].plan \in Plan /\ act[a].left \subseteq File /\ Targets(a) \subseteq File
  BY Local, PlanAssumption DEF Lock, Shaped, Recovering, ActorState, Targets
<1>1. PICK f \in act[a].left :
        /\ First(act[a].left, f)
        /\ act' = [act EXCEPT ![a].left = @ \ {f},
                              ![a].pc = IF act[a].left = {f} THEN "start" ELSE "lock"]
  BY DEF Lock, NextPath
<1>2. /\ act'[a].left = act[a].left \ {f} /\ Targets(a)' = Targets(a)
      /\ \A b \in Actor : b # a => act'[b] = act[b] /\ Held(b)' = Held(b)
  BY <1>0, <1>1 DEF Held, Targets, ActorState
<1>3. ASSUME act'[a].pc = "lock", NEW h \in Held(a)', NEW g \in act'[a].left PROVE h < g
  <2>1. h \in Held(a) \cup {f} /\ g \in act[a].left /\ g # f
    BY <1>0, <1>2, <1>3 DEF Held
  <2>2. h \in Held(a) => h < g
    BY <1>0, <2>1 DEF Sorted
  <2>3. h = f => h < g
    <3>1. f \in Nat /\ g \in Nat /\ f <= g
      BY <1>0, <1>1, <2>1 DEF First, FileAssumption
    <3> QED BY <2>1, <3>1
  <2> QED BY <2>1, <2>2, <2>3
<1> QED BY <1>2, <1>3 DEF Sorted

LEMMA KeepsSorted ==
  ASSUME Sorted, NEW a \in Actor, Keeps(a)
  PROVE  Sorted'
<1>1. \A b \in Actor : b # a => act'[b] = act[b] /\ Held(b)' = Held(b)
  BY DEF Keeps, Held, Targets
<1> QED BY <1>1 DEF Sorted, Keeps

LEMMA BeginSorted ==
  ASSUME IInv, PlanAssumption, Sorted, NEW a \in Actor, NEW p \in Plan, Begin(a, p)
  PROVE  Sorted'
<1>1. act \in [Actor -> ActorState] /\ p # NoPlan
  BY Local, PlanAssumption
<1>2. Held(a)' = {}
  BY <1>1 DEF Begin, Held, Targets, Idle
<1>3. \A b \in Actor : b # a => act'[b] = act[b] /\ Held(b)' = Held(b)
  BY <1>1 DEF Begin, Held, Targets
<1> QED BY <1>2, <1>3 DEF Sorted

LEMMA CrashSorted ==
  ASSUME Sorted, NEW p \in Proc, Crash(p)
  PROVE  Sorted'
<1>1. \A a \in Actor : act'[a] = IF ProcOf[a] = p THEN Idle ELSE act[a]
  BY DEF Crash
<1>2. \A a \in Actor : act'[a].pc = "lock" => act'[a] = act[a] /\ Held(a)' = Held(a)
  BY <1>1 DEF Held, Targets, Idle
<1> QED BY <1>2 DEF Sorted

LEMMA SortedInvariant == Spec => []Sorted
<1>1. Init => Sorted
  BY DEF Init, Idle, Sorted
<1>2. IInv /\ Sorted /\ [Next]_vars => Sorted'
  <2>1. SUFFICES ASSUME IInv, Sorted, [Next]_vars PROVE Sorted'
    OBVIOUS
  <2>2. CASE UNCHANGED vars
    BY <2>1, <2>2 DEF vars, Sorted, Held, Targets
  <2>3. ASSUME NEW a \in Actor, Step(a) \/ Fails(a) \/ Cancel(a) PROVE Sorted'
    BY <2>1, <2>3, LockSorted, StepKeeps, KeepsSorted, PlanAssumption, FileAssumption
  <2>4. ASSUME NEW a \in Actor, NEW p \in Plan, Begin(a, p) PROVE Sorted'
    BY <2>1, <2>4, BeginSorted, PlanAssumption
  <2>5. ASSUME NEW p \in Proc, Crash(p) PROVE Sorted'
    BY <2>1, <2>5, CrashSorted
  <2>6. ASSUME NEW f \in File, NEW c \in EditorContent, Edit(f, c) PROVE Sorted'
    BY <2>1, <2>6 DEF Edit, Sorted, Held, Targets
  <2> QED BY <2>1, <2>2, <2>3, <2>4, <2>5, <2>6 DEF Next
<1> QED BY <1>1, <1>2, Invariance, PTL DEF Spec

\* Some run of a set has nobody of it before itself that fewer are before.
LEMMA Foremost ==
  ASSUME TypeOK, ActorAssumption, NEW T \in SUBSET Actor, T # {}
  PROVE  \E a \in T : \A b \in T : ~(ahead[b] \subseteq ahead[a] /\ ahead[b] # ahead[a])
<1> DEFINE X == {ahead[a] : a \in T}
           R == StrictSubsetOrdering(Actor)
<1>1. X \subseteq SUBSET Actor /\ X # {}
  BY DEF TypeOK
<1>2. IsWellFoundedOn(R, SUBSET Actor)
  <2>1. IsWellFoundedOn(R, FiniteSubsetsOf(Actor))
    BY FS_StrictSubsetOrderingWellFounded
  <2>2. FiniteSubsetsOf(Actor) = SUBSET Actor
    BY FS_FiniteSubsetsOfFinite DEF ActorAssumption
  <2> QED BY <2>1, <2>2
<1>3. PICK U \in X : \A V \in X : ~(<<V, U>> \in R)
  <2> HIDE DEF X, R
  <2> QED BY <1>1, <1>2, WFMin
<1>4. PICK a \in T : U = ahead[a]
  OBVIOUS
<1>5. ASSUME NEW b \in T, ahead[b] \subseteq ahead[a], ahead[b] # ahead[a]
      PROVE  FALSE
  <2>1. ahead[b] \in X /\ ahead[b] \subseteq Actor /\ ahead[a] \subseteq Actor
    BY DEF TypeOK
  <2>2. <<ahead[b], ahead[a]>> \in R
    BY <1>5, <2>1 DEF StrictSubsetOrdering
  <2> QED BY <1>3, <1>4, <2>1, <2>2
<1> QED BY <1>5

LEMMA NoCircle ==
  ASSUME IInv, Sorted, Ranked, PlanAssumption, FileAssumption, ActorAssumption
  PROVE  NoCircularWait
<1> SUFFICES ASSUME NEW S \in (SUBSET {a \in Actor : act[a].pc \in {"lock", "staged"}}) \ {{}},
                    \A a \in S : WaitsFor(a) \cap S # {}
             PROVE  FALSE
  BY DEF NoCircularWait
<1> DEFINE W == {f \in File : \E a \in S : f \in Awaits(a)}
\* Who is waiting for the journal waits for somebody who waits for nothing here.
<1>1. ASSUME NEW a \in S
      PROVE  /\ act[a].pc = "lock" /\ \E f \in W : f \in Awaits(a)
             /\ \E b \in S : b \in ahead[a]
  <2>1. PICK b \in S : b \in WaitsFor(a)
    OBVIOUS
  <2>2. act[b].pc \notin JournalPc
    BY DEF JournalPc
  <2>3. act[a].pc = "lock" /\ b \in ahead[a]
    BY <2>1, <2>2 DEF WaitsFor
  <2>4. act[a].left \subseteq File /\ act[a].left # {}
    BY <2>3, Local, PlanAssumption DEF ActorState, Shaped
  <2>5. PICK f \in act[a].left : \A g \in act[a].left : f <= g
    BY <2>4, Least
  <2>6. f \in Awaits(a)
    BY <2>3, <2>5 DEF Awaits, NextPath, First
  <2> QED BY <2>1, <2>3, <2>4, <2>6
<1>2. PICK m \in W : \A f \in W : f <= m
  <2>1. W # {}
    <3> HIDE DEF W
    <3>0. S # {}
      OBVIOUS
    <3>1. PICK a \in S : TRUE
      BY <3>0
    <3> QED BY <1>1, <3>1
  <2> QED BY <2>1, Greatest, FileAssumption
<1> DEFINE T == {a \in S : m \in Awaits(a)}
<1>3. T \subseteq Actor /\ T # {}
  OBVIOUS
<1>4. PICK a \in T : \A b \in T : ~(ahead[b] \subseteq ahead[a] /\ ahead[b] # ahead[a])
  <2> HIDE DEF T
  <2> QED BY <1>3, Foremost DEF IInv
<1>5. PICK b \in S : b \in ahead[a]
  BY <1>1
<1>6. m \in InLine(b) /\ (m \in Awaits(b) => ahead[b] \subseteq ahead[a] \ {b})
  BY <1>5 DEF Ranked
<1>7. m \notin Awaits(b)
  BY <1>4, <1>5, <1>6
<1>8. m \in Held(b)
  BY <1>6, <1>7 DEF InLine
<1>9. PICK f \in W : f \in Awaits(b)
  BY <1>1
<1>10. m < f
  BY <1>1, <1>8, <1>9 DEF Sorted, Awaits
<1> QED BY <1>2, <1>9, <1>10 DEF FileAssumption

\* withPathLocks takes the locks in the order of the paths and the journal's chain
\* behind them all: no set of runs waits in a circle, however many runs there are.
THEOREM CirclesNever == Spec => []NoCircularWait
<1>1. IInv /\ Sorted /\ Queued /\ Ranked => NoCircularWait
  BY NoCircle, PlanAssumption, FileAssumption, ActorAssumption
<1> QED BY <1>1, Invariance, SortedInvariant, LinesInvariant, PTL

------------------------------------------------------------------------------
(* Later bytes *)

\* Between a run's look at a path and its write there, the path holds no later bytes.
Looked ==
  \A a \in Actor : act[a].pc \in {"write", "undo"} =>
    \A f \in act[a].left :
      (act[a].pc = "write" /\ First(act[a].left, f)) \/ (act[a].pc = "undo" /\ Final(act[a].left, f))
      => disk[f] \notin Foreign

\* What the program writes is planned or original bytes, never later ones.
WritesOwn == \A f \in File : disk'[f] # disk[f] => disk'[f] \notin Foreign

\* A look at a path that holds later bytes sends the run another way.
LEMMA ProbeLooks ==
  ASSUME IInv, PlanAssumption, NEW a \in Actor, Probe(a), act'[a].pc \in {"write", "undo"}
  PROVE  /\ disk' = disk /\ act'[a].pc = "write"
         /\ \A f \in act'[a].left : First(act'[a].left, f) => disk[f] \notin Foreign
<1>0. /\ act \in [Actor -> ActorState] /\ act[a] \in ActorState /\ act[a].pc = "probe"
      /\ act[a].plan \in Plan /\ act[a].left \subseteq DOMAIN act[a].plan
      /\ act[a].left \subseteq Nat
  BY Local, InRunFacts, PlanAssumption, FileAssumption DEF Probe
<1>1. PICK f \in act[a].left :
        /\ First(act[a].left, f)
        /\ \/ Drifted(a, f) /\ Throw(a, {f})
           \/ /\ ~Drifted(a, f) /\ act' = [act EXCEPT ![a].pc = "write"]
              /\ disk' = disk
  BY DEF Probe
<1>2. ~Throw(a, {f})
  BY <1>0 DEF Throw, ActorState
<1>3. /\ ~Drifted(a, f) /\ disk' = disk
      /\ act'[a].pc = "write" /\ act'[a].left = act[a].left
  BY <1>0, <1>1, <1>2 DEF ActorState
<1>4. disk[f] \in {act[a].plan[f].from, act[a].plan[f].to}
  BY <1>0, <1>3 DEF Drifted, In, Class
<1>5. disk[f] \notin Foreign
  BY <1>0, <1>4 DEF Foreign
<1>6. \A g \in act[a].left : First(act[a].left, g) => g = f
  BY <1>0, <1>1 DEF First
<1> QED BY <1>3, <1>5, <1>6

LEMMA CompensateLooks ==
  ASSUME IInv, PlanAssumption, NEW a \in Actor, Compensate(a), act'[a].pc \in {"write", "undo"}
  PROVE  /\ disk' = disk /\ act'[a].pc = "undo"
         /\ \A f \in act'[a].left : Final(act'[a].left, f) => disk[f] \notin Foreign
<1>0. /\ act \in [Actor -> ActorState] /\ act[a] \in ActorState /\ act[a].pc = "comp"
      /\ act[a].plan \in Plan /\ act[a].left \subseteq DOMAIN act[a].plan
      /\ act[a].left \subseteq Nat
  BY Local, InRunFacts, PlanAssumption, FileAssumption DEF Compensate, Undoing
<1>1. PICK f \in act[a].left :
        /\ Final(act[a].left, f)
        /\ \/ act' = [act EXCEPT ![a].left = @ \ {f}]
           \/ /\ f \in In(act[a].plan, "planned") \ act[a].drift
              /\ act' = [act EXCEPT ![a].pc = "undo"]
           \/ act' = [act EXCEPT ![a].left = @ \ {f}, ![a].bad = TRUE]
  BY DEF Compensate
<1>2. /\ f \in In(act[a].plan, "planned") /\ disk' = disk
      /\ act'[a].pc = "undo" /\ act'[a].left = act[a].left
  BY <1>0, <1>1 DEF ActorState, Compensate
<1>3. disk[f] = act[a].plan[f].to
  BY <1>2 DEF In, Class
<1>4. disk[f] \notin Foreign
  BY <1>0, <1>3 DEF Foreign
<1>5. \A g \in act[a].left : Final(act[a].left, g) => g = f
  BY <1>0, <1>1 DEF Final
<1> QED BY <1>2, <1>4, <1>5

\* Only these two looks lead to a write.
LEMMA OnlyLooksLead ==
  ASSUME IInv, NEW a \in Actor, Step(a) \/ Fails(a) \/ Cancel(a), ~Probe(a), ~Compensate(a)
  PROVE  act'[a].pc \notin {"write", "undo"}
<1>0. act \in [Actor -> ActorState] /\ act[a] \in ActorState
  BY Local
<1>1. \A o \in Outcome : Return(a, o) => act'[a].pc \notin {"write", "undo"}
  BY <1>0 DEF Return, Idle
<1>2. CASE Lock(a)
  BY <1>0, <1>2 DEF Lock, ActorState
<1>3. CASE Boot(a) \/ Sweep(a)
  BY <1>0, <1>3 DEF Boot, Sweep, Listing, ActorState
<1>4. CASE Inspect(a)
  BY <1>0, <1>4 DEF Inspect, Judge, ActorState
<1>5. CASE Restore(a)
  BY <1>0, <1>5 DEF Restore, LeftAsItIs, ActorState
<1>6. CASE RestoreReread(a)
  <2>1. \E f \in act[a].left :
          \/ act' = [act EXCEPT ![a].left = @ \ {f},
                                ![a].pc = IF act[a].left = {f} THEN "settle" ELSE "restore"]
          \/ act' = [act EXCEPT ![a].pc = "settle", ![a].verdict = "unresolved",
                                ![a].note = {f}, ![a].left = {}]
          \/ LeftAsItIs(a)
    BY <1>6 DEF RestoreReread
  <2> QED BY <1>0, <2>1 DEF ActorState, LeftAsItIs
<1>7. CASE Settle(a) \/ SettleFails(a) \/ SweepEnd(a)
  BY <1>0, <1>7 DEF Settle, SettleFails, LeftAsItIs, SweepEnd, ActorState
<1>8. CASE Check(a) \/ Cancel(a)
  BY <1>0, <1>1, <1>8 DEF Check, Cancel, ActorState, Outcome
<1>9. CASE Stage(a) \/ LockTimesOut(a) \/ OpenOp(a)
  BY <1>0, <1>9 DEF Stage, LockTimesOut, OpenOp, ActorState
<1>10. CASE Prepare(a)
  <2>1. \/ Return(a, "replayed") \/ Return(a, "in-flight")
        \/ \E r \in Op : act' = [act EXCEPT ![a].pc = "comp", ![a].job = r,
                                            ![a].left = Targets(a), ![a].snap = journal[r]]
        \/ act' = [act EXCEPT ![a].pc = "open"]
    BY <1>10 DEF Prepare, OpenOps
  <2>2. ASSUME NEW r \in Op, act' = [act EXCEPT ![a].pc = "comp", ![a].job = r,
                                            ![a].left = Targets(a), ![a].snap = journal[r]]
        PROVE  act'[a].pc = "comp"
    BY <1>0, <2>2 DEF ActorState
  <2> QED BY <1>0, <1>1, <2>1, <2>2 DEF ActorState, Outcome
<1>11. CASE Apply(a) \/ Write(a)
  BY <1>0, <1>11 DEF Apply, Write, ActorState
<1>12. CASE WriteFails(a) \/ Verify(a) \/ ApplyFails(a) \/ WriteUnrecorded(a) \/ CommitFails(a)
  BY <1>0, <1>12 DEF WriteFails, Verify, ApplyFails, WriteUnrecorded, CommitFails, Throw, ActorState
<1>13. CASE Commit(a) \/ Turn(a) \/ TurnFails(a)
  BY <1>0, <1>13 DEF Commit, Turn, TurnFails, ActorState
<1>14. CASE Close(a) \/ Conclude(a)
  BY <1>0, <1>1, <1>14 DEF Close, Conclude, Outcome
<1>15. CASE Undo(a)
  BY <1>0, <1>15 DEF Undo, ActorState
<1>16. CASE Reread(a)
  BY <1>0, <1>16 DEF Reread, ActorState
<1>17. CASE Compensated(a) \/ CompensatedFails(a)
  <2>1. PICK pc \in {"failed", "open"} : Walked(a, pc)
    BY <1>17 DEF Compensated, CompensatedFails
  <2> QED BY <1>0, <2>1 DEF Walked, ActorState
<1>18. CASE StageFails(a) \/ PrepareFails(a) \/ OpenOpFails(a)
  BY <1>0, <1>18 DEF StageFails, PrepareFails, OpenOpFails, ActorState
<1> QED
  BY <1>2, <1>3, <1>4, <1>5, <1>6, <1>7, <1>8, <1>9, <1>10, <1>11, <1>12, <1>13, <1>14, <1>15,
     <1>16, <1>17, <1>18 DEF Step, Fails

\* The steps that write, and what they write.
LEMMA StepWrites ==
  ASSUME IInv, PlanAssumption, NEW a \in Actor, Step(a) \/ Fails(a) \/ Cancel(a), disk' # disk
  PROVE  /\ act[a].pc \in {"write", "undo", "restore"}
         /\ act[a].pc = "restore" => act'[a] # act[a]
         /\ \E f \in act[a].left :
              /\ act[a].pc = "write" => First(act[a].left, f)
              /\ act[a].pc = "undo"  => Final(act[a].left, f)
              /\ \A g \in File : g # f => disk'[g] = disk[g]
         /\ WritesOwn
<1>0. /\ act \in [Actor -> ActorState] /\ act[a] \in ActorState /\ Shaped(act[a])
      /\ disk \in [File -> Content]
  BY Local DEF IInv, TypeOK
<1>1. Write(a) \/ WriteUnrecorded(a) \/ Undo(a) \/ Restore(a)
  BY DEF Step, Fails, Lock, Boot, Sweep, Listing, Inspect, RestoreReread, Settle, SettleFails,
         SweepEnd, Check, Stage, StageFails, Prepare, PrepareFails, LockTimesOut, OpenOp, OpenOpFails,
         Apply, ApplyFails, Probe, WriteFails, Verify, Commit, CommitFails, Turn, TurnFails,
         Close, Compensate, Reread, Compensated, CompensatedFails, Walked, Conclude, Cancel
<1>2. CASE Write(a) \/ WriteUnrecorded(a)
  <2>1. PICK f \in act[a].left :
          First(act[a].left, f) /\ disk' = [disk EXCEPT ![f] = act[a].plan[f].to]
    BY <1>2 DEF Write, WriteUnrecorded, Put
  <2>2. act[a].pc = "write" /\ act[a].plan \in Plan /\ f \in DOMAIN act[a].plan
    BY <1>2, InRunFacts DEF Write, WriteUnrecorded
  <2>3. act[a].plan[f].to \notin Foreign
    BY <2>2 DEF Foreign
  <2> QED BY <1>0, <2>1, <2>2, <2>3 DEF WritesOwn
<1>3. CASE Undo(a)
  <2>1. PICK f \in act[a].left :
          Final(act[a].left, f) /\ disk' = [disk EXCEPT ![f] = act[a].plan[f].from]
    BY <1>3 DEF Undo
  <2>2. act[a].pc = "undo" /\ act[a].plan \in Plan /\ f \in DOMAIN act[a].plan
    BY <1>3, InRunFacts DEF Undo, Undoing
  <2>3. act[a].plan[f].from \notin Foreign
    BY <2>2 DEF Foreign
  <2> QED BY <1>0, <2>1, <2>2, <2>3 DEF WritesOwn
<1>4. CASE Restore(a)
  <2>1. PICK f \in act[a].left :
          /\ disk' = [disk EXCEPT ![f] = act[a].snap.plan[f].from]
          /\ act' = [act EXCEPT ![a].pc = "restored"] \/ LeftAsItIs(a)
    BY <1>4 DEF Restore
  <2>2. /\ act[a].pc = "restore" /\ act[a].snap.plan \in Plan /\ f \in DOMAIN act[a].snap.plan
    BY <1>0, <1>4 DEF Restore, Shaped, Recovering, Record
  <2>3. act[a].snap.plan[f].from \notin Foreign
    BY <2>2 DEF Foreign
  <2>4. act'[a].pc \in {"restored", "sweep"}
    BY <1>0, <2>1 DEF ActorState, LeftAsItIs
  <2> QED BY <1>0, <2>1, <2>2, <2>3, <2>4 DEF WritesOwn
<1> QED BY <1>1, <1>2, <1>3, <1>4

\* A write of the program to other bytes than later ones leaves every look true.
LEMMA LooksLast ==
  ASSUME IInv, Looked, WritesOwn, NEW a \in Actor, act'[a].pc \notin {"write", "undo"},
         \A b \in Actor : b # a => act'[b] = act[b]
  PROVE  Looked'
<1>1. \A b \in Actor : act[b].left \subseteq File
  BY DEF IInv, TypeOK, ActorState
<1>2. Foreign' = Foreign
  BY DEF Foreign
<1> QED BY <1>1, <1>2 DEF Looked, WritesOwn, First, Final

LEMMA StepOthers ==
  ASSUME IInv, NEW a \in Actor, Step(a) \/ Fails(a) \/ Cancel(a)
  PROVE  \A b \in Actor : b # a => act'[b] = act[b]
<1>1. CASE Lock(a)
  BY <1>1, Local DEF Lock
<1>2. CASE ~Lock(a)
  BY <1>2, StepKeeps DEF Keeps
<1> QED BY <1>1, <1>2

LEMMA LookedInvariant ==
  ASSUME ~EditorInWindow
  PROVE  Spec => []Looked
<1>1. Init => Looked
  BY DEF Init, Idle, Looked
<1>2. IInv /\ Looked /\ [Next]_vars => Looked'
  <2>1. SUFFICES ASSUME IInv, Looked, [Next]_vars PROVE Looked'
    OBVIOUS
  <2>0. Foreign' = Foreign
    BY DEF Foreign
  <2>2. CASE UNCHANGED vars
    BY <2>0, <2>1, <2>2 DEF vars, Looked, First, Final
  <2>3. ASSUME NEW a \in Actor, Step(a) \/ Fails(a) \/ Cancel(a) PROVE Looked'
    <3>1. \A b \in Actor : b # a => act'[b] = act[b]
      BY <2>1, <2>3, StepOthers
    <3>2. WritesOwn
      BY <2>1, <2>3, StepWrites, PlanAssumption DEF WritesOwn
    <3>3. CASE act'[a].pc \notin {"write", "undo"}
      BY <2>1, <3>1, <3>2, <3>3, LooksLast
    <3>4. CASE act'[a].pc \in {"write", "undo"}
      <4>1. Probe(a) \/ Compensate(a)
        BY <2>1, <2>3, <3>4, OnlyLooksLead
      <4>2. /\ disk' = disk
            /\ \A f \in act'[a].left :
                 \/ act'[a].pc = "write" /\ First(act'[a].left, f)
                 \/ act'[a].pc = "undo" /\ Final(act'[a].left, f)
                 => disk[f] \notin Foreign
        BY <2>1, <3>4, <4>1, ProbeLooks, CompensateLooks, PlanAssumption
      <4> QED BY <2>0, <2>1, <3>1, <4>2 DEF Looked, First, Final
    <3> QED BY <3>3, <3>4
  <2>4. ASSUME NEW a \in Actor, NEW p \in Plan, Begin(a, p) PROVE Looked'
    <3>1. act'[a].pc = "lock" /\ (\A b \in Actor : b # a => act'[b] = act[b]) /\ disk' = disk
      BY <2>1, <2>4, Local DEF Begin, Idle
    <3> QED BY <2>1, <3>1, LooksLast DEF WritesOwn
  <2>5. ASSUME NEW p \in Proc, Crash(p) PROVE Looked'
    <3>1. (\A a \in Actor : act'[a] = IF ProcOf[a] = p THEN Idle ELSE act[a]) /\ disk' = disk
      BY <2>5 DEF Crash
    <3>2. \A a \in Actor : act'[a].pc \in {"write", "undo"} => act'[a] = act[a]
      BY <3>1 DEF Idle
    <3> QED BY <2>0, <2>1, <3>1, <3>2 DEF Looked, First, Final
  <2>6. ASSUME NEW f \in File, NEW c \in EditorContent, Edit(f, c) PROVE Looked'
    <3>1. act' = act /\ \A a \in Actor : act[a].pc \notin {"write", "undo"}
      BY <2>6 DEF Edit
    <3> QED BY <3>1 DEF Looked
  <2> QED BY <2>1, <2>2, <2>3, <2>4, <2>5, <2>6 DEF Next
<1> QED BY <1>1, <1>2, Invariance, PTL DEF Spec

\* The commit steps and the compensation replace only bytes they have just looked at:
\* however many runs and recoveries there are, what another program wrote before the
\* look stays.  What it writes between the look and the rename (EditorInWindow) nobody
\* can keep: that is the hypothesis.
THEOREM LaterBytesOfRuns ==
  ASSUME ~EditorInWindow
  PROVE  Spec => RunKeepsLaterBytes
<1> DEFINE Kept == \A f \in File : /\ disk[f] \in Foreign /\ disk'[f] # disk[f]
                                   /\ \A a \in Actor : act[a].pc = "restore" => act'[a] = act[a]
                                   => edits' # edits
<1>1. IInv /\ Looked /\ [Next]_vars => Kept
  <2>1. SUFFICES ASSUME IInv, Looked, [Next]_vars, NEW f \in File,
                        disk[f] \in Foreign, disk'[f] # disk[f],
                        \A a \in Actor : act[a].pc = "restore" => act'[a] = act[a]
                 PROVE  edits' # edits
    OBVIOUS
  <2>2. disk' # disk
    BY <2>1
  <2>3. ~UNCHANGED vars
    BY <2>2 DEF vars
  <2>4. ASSUME NEW a \in Actor, Step(a) \/ Fails(a) \/ Cancel(a) PROVE FALSE
    <3>1. /\ act[a].pc \in {"write", "undo"}
          /\ \E g \in act[a].left :
               /\ act[a].pc = "write" => First(act[a].left, g)
               /\ act[a].pc = "undo"  => Final(act[a].left, g)
               /\ \A h \in File : h # g => disk'[h] = disk[h]
      BY <2>1, <2>2, <2>4, StepWrites, PlanAssumption
    <3> QED BY <2>1, <3>1 DEF Looked
  <2>5. ASSUME NEW a \in Actor, NEW p \in Plan, Begin(a, p) PROVE FALSE
    BY <2>2, <2>5 DEF Begin
  <2>6. ASSUME NEW p \in Proc, Crash(p) PROVE FALSE
    BY <2>2, <2>6 DEF Crash
  <2>7. ASSUME NEW g \in File, NEW c \in EditorContent, Edit(g, c) PROVE edits' # edits
    BY <2>1, <2>7 DEF Edit, IInv, TypeOK
  <2> QED BY <2>1, <2>3, <2>4, <2>5, <2>6, <2>7 DEF Next
<1>2. Spec => []Looked
  BY LookedInvariant
<1> QED BY <1>1, <1>2, Invariance, PTL DEF Spec, RunKeepsLaterBytes
==============================================================================
