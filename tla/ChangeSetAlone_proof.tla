-------------------------- MODULE ChangeSetAlone_proof --------------------------
(***************************************************************************)
(* Proofs about ChangeSetCommit for runs that do not overlap: at any time  *)
(* one actor at most is past its path locks, in a run or in a recovery.    *)
(* The recovery sweep takes no lock and acts on the records it listed, so  *)
(* what is proved here is false without that hypothesis; processes may     *)
(* still die at any step, and the next run or boot finds what they left.   *)
(***************************************************************************)
EXTENDS ChangeSetCommit_proof

\* An actor that lists, judges or commits; one that waits for path locks does not.
Engaged(a) == act[a].pc \notin {"idle", "lock", "start"}

Alone == \A a, b \in Actor : Engaged(a) /\ Engaged(b) => a = b

\* There are no more plans than bundles are kept, so no bundle is ever swept.
Roomy == Cardinality(Plan) <= KeepBundles

------------------------------------------------------------------------------
(* The originals of an open operation stay in their bundle *)

OpenPlans == {journal[r].plan : r \in OpenOps}

Holding == {"sweep"} \cup Recovering
Writing == {"staged", "open", "threw"} \cup Stepping \cup Undoing

\* The plans whose originals an actor may still need, from what it holds in hand.
Relied(s) ==
  (IF s.pc \in Holding THEN {e[2].plan : e \in s.seen} ELSE {})
  \cup (IF s.job # 0 THEN {s.snap.plan} ELSE {})
  \cup (IF s.pc \in Writing THEN {s.plan} ELSE {})

Covered ==
  /\ \A p \in OpenPlans : bundle[p] # 0
  /\ \A a \in Actor : \A p \in Relied(act[a]) : bundle[p] # 0

\* Record t holds no more in hand than record s.
NoMore(s, t) ==
  /\ t.pc \in Holding => s.pc \in Holding /\ t.seen \subseteq s.seen
  /\ t.job # 0 => t.job = s.job /\ t.snap = s.snap
  /\ t.pc \in Writing => s.pc \in Writing /\ t.plan = s.plan

LEMMA NoMoreRelied ==
  ASSUME NEW s, NEW t, NoMore(s, t)
  PROVE  Relied(t) \subseteq Relied(s)
BY DEF NoMore, Relied, Holding, Writing

SameInHand(s, t) == t.seen = s.seen /\ t.job = s.job /\ t.snap = s.snap /\ t.plan = s.plan

\* The steps that touch neither the journal nor what the actor listed or adopted.
Quiet(a) ==
  \/ Lock(a) \/ Restore(a) \/ RestoreReread(a) \/ Check(a) \/ LockTimesOut(a)
  \/ Probe(a) \/ Write(a) \/ WriteFails(a) \/ WriteUnrecorded(a) \/ Verify(a)
  \/ Compensate(a) \/ Undo(a) \/ Reread(a) \/ Conclude(a) \/ Cancel(a)

LEMMA QuietJournal ==
  ASSUME NEW a \in Actor, Quiet(a)
  PROVE  journal' = journal
BY DEF Quiet, Lock, Restore, RestoreReread, Check, LockTimesOut, Probe, Write, WriteFails,
       WriteUnrecorded, Verify, Compensate, Undo, Reread, Conclude, Cancel

\* What the steps of a run do to its actor: the walk goes on, or it throws.
LEMMA WalkStep ==
  ASSUME IInv, NEW a \in Actor,
         \/ Probe(a) \/ Write(a) \/ WriteFails(a) \/ WriteUnrecorded(a) \/ Verify(a)
         \/ Apply(a) \/ ApplyFails(a) \/ CommitFails(a)
  PROVE  /\ SameInHand(act[a], act'[a]) /\ act[a].pc \in Stepping
         /\ act'[a].op = act[a].op /\ act'[a].rev = act[a].rev
         /\ act'[a].outcome = act[a].outcome
         /\ act'[a].pc \in {"probe", "write", "verify", "threw"}
         /\ act'[a].pc = "verify" => Write(a) \/ Verify(a)
<1>0. act \in [Actor -> ActorState] /\ act[a] \in ActorState
  BY Local
<1>1. CASE Probe(a)
  BY <1>0, <1>1 DEF Probe, Throw, ActorState, SameInHand, Stepping
<1>2. CASE Write(a)
  <2>1. PICK f \in act[a].left :
          act' = [act EXCEPT ![a].pc = IF act[a].left = {f} THEN "verify" ELSE "probe",
                             ![a].left = IF @ = {f} THEN Targets(a) ELSE @ \ {f}]
    BY <1>2 DEF Write
  <2>2. /\ SameInHand(act[a], act'[a]) /\ act'[a].op = act[a].op /\ act'[a].rev = act[a].rev
        /\ act'[a].outcome = act[a].outcome /\ act'[a].pc \in {"verify", "probe"}
    BY <1>0, <2>1 DEF ActorState, SameInHand
  <2>3. act[a].pc \in Stepping
    BY <1>2 DEF Write, Stepping
  <2> QED BY <1>2, <2>2, <2>3
<1>3. CASE WriteFails(a)
  BY <1>0, <1>3 DEF WriteFails, Throw, ActorState, SameInHand, Stepping
<1>4. CASE WriteUnrecorded(a)
  BY <1>0, <1>4 DEF WriteUnrecorded, Throw, ActorState, SameInHand, Stepping
<1>5. CASE Verify(a)
  BY <1>0, <1>5 DEF Verify, Throw, ActorState, SameInHand, Stepping
<1>6. CASE Apply(a)
  BY <1>0, <1>6 DEF Apply, ActorState, SameInHand, Stepping
<1>7. CASE ApplyFails(a)
  BY <1>0, <1>7 DEF ApplyFails, Throw, ActorState, SameInHand, Stepping
<1>8. CASE CommitFails(a)
  BY <1>0, <1>8 DEF CommitFails, Throw, ActorState, SameInHand, Stepping
<1> QED BY <1>1, <1>2, <1>3, <1>4, <1>5, <1>6, <1>7, <1>8

\* What the steps of a recovery past its inspection do to its actor.
LEMMA MendStep ==
  ASSUME IInv, NEW a \in Actor, Restore(a) \/ RestoreReread(a) \/ Settle(a) \/ SettleFails(a)
  PROVE  /\ act[a].pc \in Recovering
         /\ act'[a].pc \in {"restored", "settle", "restore", "sweep"}
         /\ act'[a].seen = act[a].seen /\ act'[a].op = act[a].op /\ act'[a].rev = act[a].rev
         /\ act'[a].plan = act[a].plan /\ act'[a].outcome = act[a].outcome
         /\ act'[a].pc = "sweep" => act'[a].job = 0
         /\ act'[a].job # 0 => act'[a].job = act[a].job /\ act'[a].snap = act[a].snap
<1>0. act \in [Actor -> ActorState] /\ act[a] \in ActorState
  BY Local
<1>1. /\ act[a].pc \in Recovering
      /\ \/ \E f \in act[a].left :
             \/ act' = [act EXCEPT ![a].pc = "restored"]
             \/ act' = [act EXCEPT ![a].left = @ \ {f},
                                   ![a].pc = IF act[a].left = {f} THEN "settle" ELSE "restore"]
             \/ act' = [act EXCEPT ![a].pc = "settle", ![a].verdict = "unresolved",
                                   ![a].note = {f}, ![a].left = {}]
         \/ LeftAsItIs(a)
  BY DEF Restore, RestoreReread, Settle, SettleFails, Recovering
<1>2. CASE LeftAsItIs(a)
  BY <1>0, <1>1, <1>2 DEF LeftAsItIs, ActorState
<1>3. ASSUME NEW f \in act[a].left,
             \/ act' = [act EXCEPT ![a].pc = "restored"]
             \/ act' = [act EXCEPT ![a].left = @ \ {f},
                                   ![a].pc = IF act[a].left = {f} THEN "settle" ELSE "restore"]
             \/ act' = [act EXCEPT ![a].pc = "settle", ![a].verdict = "unresolved",
                                   ![a].note = {f}, ![a].left = {}]
      PROVE  /\ act'[a].pc \in {"restored", "settle", "restore"}
             /\ act'[a].seen = act[a].seen /\ act'[a].op = act[a].op /\ act'[a].rev = act[a].rev
             /\ act'[a].plan = act[a].plan /\ act'[a].outcome = act[a].outcome
             /\ act'[a].job = act[a].job /\ act'[a].snap = act[a].snap
  BY <1>0, <1>3 DEF ActorState
<1> QED BY <1>1, <1>2, <1>3

\* What a run does whose walk back is behind it, or that gives up before it journals.
LEMMA EndStep ==
  ASSUME IInv, NEW a \in Actor,
         \/ Compensated(a) \/ CompensatedFails(a) \/ TurnFails(a)
         \/ StageFails(a) \/ PrepareFails(a) \/ LockTimesOut(a) \/ OpenOpFails(a)
  PROVE  /\ act'[a].pc \in {"failed", "open"} /\ act'[a].op = 0 /\ act'[a].job = 0
         /\ act'[a].plan = act[a].plan /\ act'[a].rev = act[a].rev
         /\ act'[a].outcome = act[a].outcome
         /\ act'[a].pc = "open" => Compensated(a) /\ act[a].job # 0
<1>0. act \in [Actor -> ActorState] /\ act[a] \in ActorState /\ Shaped(act[a])
  BY Local
<1>1. CASE Compensated(a)
  BY <1>0, <1>1 DEF Compensated, Walked, ActorState
<1>2. CASE CompensatedFails(a)
  BY <1>0, <1>2 DEF CompensatedFails, Walked, ActorState
<1>3. CASE TurnFails(a)
  <2>1. act[a].pc = "threw" /\ act[a].job = 0
    BY <1>0, <1>3 DEF TurnFails, Shaped, Undoing, Recovering
  <2> QED BY <1>0, <1>3, <2>1 DEF TurnFails, ActorState
<1>4. CASE StageFails(a) \/ PrepareFails(a) \/ LockTimesOut(a) \/ OpenOpFails(a)
  <2>1. /\ act[a].pc \in {"check", "checked", "staged", "open"}
        /\ \/ act' = [act EXCEPT ![a].pc = "failed"]
           \/ act' = [act EXCEPT ![a].pc = "failed", ![a].staged = {}]
    BY <1>4 DEF StageFails, PrepareFails, Incomplete, LockTimesOut, OpenOpFails
  <2>2. act[a].op = 0 /\ act[a].job = 0
    BY <1>0, <2>1 DEF Shaped, Stepping, Undoing, Recovering
  <2> QED BY <1>0, <2>1, <2>2 DEF ActorState
<1> QED BY <1>1, <1>2, <1>3, <1>4

\* A step that leaves the journal alone relies on nothing new.
LEMMA QuietRelies ==
  ASSUME IInv, NEW a \in Actor, Quiet(a)
  PROVE  NoMore(act[a], act'[a])
<1>0. act \in [Actor -> ActorState] /\ act[a] \in ActorState
  BY Local
<1>1. ASSUME NEW o \in Outcome, Return(a, o) PROVE NoMore(act[a], act'[a])
  BY <1>0, <1>1 DEF Return, Idle, NoMore, Holding, Writing, Recovering, Stepping, Undoing
<1>2. CASE Lock(a)
  <2>1. /\ SameInHand(act[a], act'[a]) /\ act'[a].pc \in {"lock", "start"}
    BY <1>0, <1>2 DEF Lock, ActorState, SameInHand
  <2> QED BY <2>1 DEF SameInHand, NoMore, Holding, Writing, Recovering, Stepping, Undoing
<1>3. CASE Restore(a) \/ RestoreReread(a)
  BY <1>3, MendStep DEF NoMore, Holding, Writing, Recovering, Stepping, Undoing
<1>7. CASE Probe(a) \/ Write(a) \/ WriteFails(a) \/ WriteUnrecorded(a) \/ Verify(a)
  <2>1. SameInHand(act[a], act'[a]) /\ act[a].pc \in Stepping
        /\ act'[a].pc \in {"probe", "write", "verify", "threw"}
    BY <1>7, WalkStep
  <2> QED BY <2>1 DEF SameInHand, NoMore, Holding, Writing, Recovering, Stepping, Undoing
<1>8. CASE LockTimesOut(a)
  <2>1. act'[a].job = 0 /\ act'[a].pc \in {"failed", "open"} /\ act'[a].plan = act[a].plan
        /\ act[a].pc = "staged"
    BY <1>8, EndStep DEF LockTimesOut
  <2> QED BY <2>1 DEF NoMore, Holding, Writing, Recovering, Stepping, Undoing
<1>4. CASE Check(a)
  <2>1. CASE act' = [act EXCEPT ![a].pc = "checked", ![a].rev = Cardinality(Priors(a))]
    <3>1. SameInHand(act[a], act'[a]) /\ act'[a].pc = "checked"
      BY <1>0, <2>1 DEF ActorState, SameInHand
    <3> QED BY <3>1 DEF SameInHand, NoMore, Holding, Writing, Recovering, Stepping, Undoing
  <2> QED BY <1>1, <1>4, <2>1 DEF Check, Outcome
<1>5. CASE Compensate(a) \/ Undo(a) \/ Reread(a)
  <2>1. SameInHand(act[a], act'[a]) /\ act[a].pc \in Undoing /\ act'[a].pc \in Undoing
    <3>1. CASE Compensate(a)
      BY <1>0, <3>1 DEF Compensate, ActorState, SameInHand, Undoing
    <3>2. CASE Undo(a)
      BY <1>0, <3>2 DEF Undo, ActorState, SameInHand, Undoing
    <3>3. CASE Reread(a)
      BY <1>0, <3>3 DEF Reread, ActorState, SameInHand, Undoing
    <3> QED BY <1>5, <3>1, <3>2, <3>3
  <2> QED BY <2>1 DEF SameInHand, NoMore, Holding, Writing, Recovering, Stepping, Undoing
<1>6. CASE Conclude(a) \/ Cancel(a)
  BY <1>1, <1>6 DEF Conclude, Cancel, Outcome
<1> QED BY <1>2, <1>3, <1>4, <1>5, <1>6, <1>7, <1>8 DEF Quiet

LEMMA SameRelies ==
  ASSUME journal' = journal
  PROVE  OpenPlans' = OpenPlans
BY DEF OpenPlans, OpenOps

\* What a step of actor a adds to the plans that count was known to the actor or open.
Relies(a) ==
  /\ Relied(act'[a]) \subseteq Relied(act[a]) \cup OpenPlans
  /\ OpenPlans' \subseteq Relied(act[a]) \cup OpenPlans

\* A step that publishes one record, of a plan the actor knew or of one that is open.
LEMMA RecordRelies ==
  ASSUME IInv, NEW a \in Actor, NEW r \in Op, NEW R \in Record, journal' = [journal EXCEPT ![r] = R],
         R.state \in Open => R.plan \in Relied(act[a]) \cup OpenPlans
  PROVE  OpenPlans' \subseteq Relied(act[a]) \cup OpenPlans
<1>1. journal \in [Op -> Record \cup {NoRecord}]
  BY DEF IInv, TypeOK
<1>2. \A q \in OpenOps' : \/ q = r /\ journal'[q] = R /\ R.state \in Open
                          \/ q \in OpenOps /\ journal'[q] = journal[q]
  BY <1>1 DEF OpenOps
<1> QED BY <1>2 DEF OpenPlans

\* A run's own record, as the run publishes it.
LEMMA OwnRelies ==
  ASSUME IInv, NEW a \in Actor, act[a].op # 0, act[a].pc # "threw", NEW x \in Open \cup Terminal,
         journal' = [journal EXCEPT ![act[a].op] = [journal[act[a].op] EXCEPT !.state = x]]
  PROVE  OpenPlans' \subseteq Relied(act[a]) \cup OpenPlans
<1> DEFINE R == [journal[act[a].op] EXCEPT !.state = x]
<1>1. act[a].op \in Op /\ journal[act[a].op] \in Record /\ R \in Record
  BY OwnRewritten, Local DEF ActorState
<1>2. journal[act[a].op].state \in Open
  BY DEF IInv, RecordFollowsRun, StatesAt, Open
<1>3. R.plan = journal[act[a].op].plan
  BY <1>1 DEF Record
<1>4. R.plan \in OpenPlans
  BY <1>1, <1>2, <1>3 DEF OpenPlans, OpenOps
<1> HIDE DEF R
<1>5. journal' = [journal EXCEPT ![act[a].op] = R]
  BY DEF R
<1> QED BY <1>1, <1>4, <1>5, RecordRelies

LEMMA RunRelies ==
  ASSUME IInv, NEW a \in Actor, Apply(a) \/ ApplyFails(a) \/ Commit(a) \/ CommitFails(a)
  PROVE  Relies(a)
<1>0. act \in [Actor -> ActorState] /\ act[a] \in ActorState /\ Shaped(act[a])
  BY Local
<1>1. act[a].pc \in Stepping /\ act[a].op # 0 /\ act[a].job = 0 /\ act[a].pc # "threw"
  BY <1>0 DEF Apply, ApplyFails, Commit, CommitFails, Shaped, Stepping, Undoing, Recovering
<1>2. \/ journal' = journal
      \/ \E x \in Open \cup Terminal :
           journal' = [journal EXCEPT ![act[a].op] = [journal[act[a].op] EXCEPT !.state = x]]
  BY DEF Apply, ApplyFails, Commit, CommitFails, PublishFails, Open, Terminal
<1>3. Relied(act'[a]) \subseteq Relied(act[a])
  <2>1. CASE Commit(a)
    <3>1. act'[a].pc = "committed" /\ act'[a].job = 0
      BY <1>0, <1>1, <2>1 DEF Commit, ActorState
    <3> QED BY <3>1 DEF Relied, Holding, Writing, Recovering, Stepping, Undoing
  <2>2. CASE ~Commit(a)
    <3>1. SameInHand(act[a], act'[a]) /\ act'[a].pc \in {"probe", "write", "verify", "threw"}
      BY <2>2, WalkStep
    <3> QED BY <1>1, <3>1 DEF SameInHand, Relied, Holding, Writing, Recovering, Stepping, Undoing
  <2> QED BY <2>1, <2>2
<1>4. OpenPlans' \subseteq Relied(act[a]) \cup OpenPlans
  BY <1>1, <1>2, OwnRelies, SameRelies
<1> QED BY <1>3, <1>4 DEF Relies

\* A run that threw reopens its record, whatever it says, for the plan it has in hand.
LEMMA TurnRelies ==
  ASSUME IInv, ActorAssumption, NEW a \in Actor, Turn(a) \/ TurnFails(a)
  PROVE  Relies(a)
<1>0. /\ act \in [Actor -> ActorState] /\ act[a] \in ActorState /\ Shaped(act[a])
      /\ act[a].pc = "threw"
  BY Local DEF Turn, TurnFails
<1>1. act[a].op \in Op /\ act[a].job = 0 /\ act[a].plan \in Plan
  BY <1>0 DEF Shaped, ActorState, Undoing, Recovering
<1>2. /\ Rec(a, "compensating") \in Record /\ Rec(a, "compensating").plan = act[a].plan
      /\ act[a].plan \in Relied(act[a])
  BY <1>0, <1>1, RecTyped DEF Rec, Relied, Writing, Open
<1>3. Relied(act'[a]) \subseteq Relied(act[a])
  <2>1. CASE Turn(a)
    <3>1. act'[a].pc = "comp" /\ act'[a].job = 0 /\ act'[a].plan = act[a].plan
      BY <1>0, <1>1, <2>1 DEF Turn, ActorState
    <3> QED BY <1>0, <3>1 DEF Relied, Holding, Writing, Recovering, Stepping, Undoing
  <2>2. CASE TurnFails(a)
    <3>1. act'[a].pc = "failed" /\ act'[a].job = 0
      BY <2>2, EndStep DEF TurnFails, Compensated, Walked
    <3> QED BY <3>1 DEF Relied, Holding, Writing, Recovering, Stepping, Undoing
  <2> QED BY <2>1, <2>2
<1>4. OpenPlans' \subseteq Relied(act[a]) \cup OpenPlans
  BY <1>1, <1>2, RecordRelies, SameRelies DEF Turn, TurnFails, PublishFails
<1> QED BY <1>3, <1>4 DEF Relies

LEMMA ListingRelies ==
  ASSUME IInv, NEW a \in Actor, act[a].pc \in {"idle", "start"}, Listing(a)
  PROVE  Relies(a)
<1>0. act \in [Actor -> ActorState] /\ act[a] \in ActorState /\ Shaped(act[a])
  BY Local
<1>1. act[a].job = 0
  BY <1>0 DEF Shaped, Undoing, Recovering
<1>2. /\ act'[a].pc = "sweep" /\ act'[a].job = 0
      /\ act'[a].seen = {<<r, journal[r]>> : r \in OpenOps}
  BY <1>0, <1>1 DEF Listing, ActorState
<1>3. Relied(act'[a]) \subseteq OpenPlans
  BY <1>2 DEF Relied, OpenPlans, Holding, Writing, Recovering, Stepping, Undoing
<1>4. OpenPlans' = OpenPlans
  BY DEF Listing, OpenPlans, OpenOps
<1> QED BY <1>3, <1>4 DEF Relies

LEMMA InspectRelies ==
  ASSUME IInv, NEW a \in Actor, Inspect(a)
  PROVE  Relies(a)
<1>0. act \in [Actor -> ActorState] /\ act[a] \in ActorState /\ act[a].pc = "sweep"
  BY Local DEF Inspect
<1>1. PICK e \in act[a].seen :
        \/ act' = [act EXCEPT ![a].seen = @ \ {e}]
        \/ \E pc \in {"settle", "restore"} : \E v, n, l : Judge(a, e, pc, v, n, l)
  BY DEF Inspect
<1>2. \/ /\ act'[a].pc = "sweep" /\ act'[a].job = act[a].job /\ act'[a].snap = act[a].snap
         /\ act'[a].seen \subseteq act[a].seen
      \/ /\ act'[a].pc \in {"settle", "restore"} /\ act'[a].snap = e[2]
         /\ act'[a].seen \subseteq act[a].seen
  <2>1. CASE act' = [act EXCEPT ![a].seen = @ \ {e}]
    BY <1>0, <2>1 DEF ActorState
  <2>2. ASSUME NEW pc \in {"settle", "restore"}, NEW v, NEW n, NEW l, Judge(a, e, pc, v, n, l)
        PROVE  /\ act'[a].pc \in {"settle", "restore"} /\ act'[a].snap = e[2]
               /\ act'[a].seen \subseteq act[a].seen
    BY <1>0, <2>2 DEF ActorState, Judge
  <2> QED BY <1>1, <2>1, <2>2
<1>3. Relied(act'[a]) \subseteq Relied(act[a])
  BY <1>0, <1>1, <1>2 DEF Relied, Holding, Writing, Recovering, Stepping, Undoing
<1>4. OpenPlans' = OpenPlans
  BY DEF Inspect, OpenPlans, OpenOps
<1> QED BY <1>3, <1>4 DEF Relies

\* A recovery that rewrites the record of its job gives it the plan it read.
LEMMA JobRelies ==
  ASSUME IInv, NEW a \in Actor, act[a].job # 0, NEW R \in Record, R.plan = act[a].snap.plan,
         journal' = [journal EXCEPT ![act[a].job] = R]
  PROVE  OpenPlans' \subseteq Relied(act[a]) \cup OpenPlans
<1>1. act[a].job \in Op /\ journal \in [Op -> Record \cup {NoRecord}]
  BY DEF IInv, TypeOK, ActorState
<1>2. \A r \in OpenOps' : journal'[r].plan = act[a].snap.plan \/ journal'[r].plan \in OpenPlans
  BY <1>1 DEF OpenOps, OpenPlans
<1> QED BY <1>2 DEF OpenPlans, Relied

LEMMA SettleRelies ==
  ASSUME IInv, NEW a \in Actor, Settle(a) \/ SettleFails(a)
  PROVE  Relies(a)
<1>0. /\ act \in [Actor -> ActorState] /\ act[a] \in ActorState /\ Shaped(act[a])
      /\ act[a].pc = "settle"
  BY Local DEF Settle, SettleFails
<1>1. act[a].job # 0 /\ act[a].snap \in Record /\ act[a].verdict # "none"
  BY <1>0 DEF Shaped, Recovering
<1>2. act'[a].pc = "sweep" /\ act'[a].job = 0 /\ act'[a].seen = act[a].seen
  BY <1>0 DEF Settle, SettleFails, LeftAsItIs, ActorState
<1>3. Relied(act'[a]) \subseteq Relied(act[a])
  BY <1>0, <1>2 DEF Relied, Holding, Writing, Recovering, Stepping, Undoing
<1>4. journal' \in {journal, Verdicted(a)}
  BY DEF Settle, SettleFails
<1>5. /\ [act[a].snap EXCEPT !.note = act[a].note] \in Record
      /\ act[a].verdict # "unresolved" => [act[a].snap EXCEPT !.state = act[a].verdict] \in Record
  BY <1>0, <1>1, JobRewritten DEF ActorState, Terminal
<1>6. /\ [act[a].snap EXCEPT !.note = act[a].note].plan = act[a].snap.plan
      /\ [act[a].snap EXCEPT !.state = act[a].verdict].plan = act[a].snap.plan
  BY <1>1 DEF Record
<1>7. OpenPlans' \subseteq Relied(act[a]) \cup OpenPlans
  BY <1>1, <1>4, <1>5, <1>6, JobRelies, SameRelies DEF Verdicted
<1> QED BY <1>3, <1>7 DEF Relies

LEMMA CompensatedRelies ==
  ASSUME IInv, NEW a \in Actor, Compensated(a) \/ CompensatedFails(a)
  PROVE  Relies(a)
<1>0. /\ act \in [Actor -> ActorState] /\ act[a] \in ActorState /\ Shaped(act[a])
      /\ act[a].pc = "comp"
  BY Local DEF Compensated, CompensatedFails, Walked
<1>1. act'[a].pc \in {"failed", "open"} /\ act'[a].job = 0 /\ act'[a].plan = act[a].plan
  BY EndStep
<1>2. Relied(act'[a]) \subseteq Relied(act[a])
  BY <1>0, <1>1 DEF Relied, Holding, Writing, Recovering, Stepping, Undoing
<1>3. journal' \in {journal, [journal EXCEPT ![IF act[a].job = 0 THEN act[a].op ELSE act[a].job] = Settled(a)]}
  BY DEF Compensated, CompensatedFails, PublishFails
<1>4. CASE act[a].job = 0 /\ journal' = [journal EXCEPT ![act[a].op] = Settled(a)]
  <2>1. act[a].op # 0 /\ act[a].pc # "threw"
    BY <1>0, <1>4 DEF Shaped, Undoing
  <2> QED BY <1>2, <1>4, <2>1, OwnRelies DEF Relies, Terminal, Settled
<1>5. CASE act[a].job # 0 /\ journal' = [journal EXCEPT ![act[a].job] = Settled(a)]
  <2>1. act[a].snap \in Record
    BY <1>0, <1>5 DEF Shaped
  <2>2. [act[a].snap EXCEPT !.state = "aborted"] \in Record
        /\ [act[a].snap EXCEPT !.state = "aborted"].plan = act[a].snap.plan
    BY <2>1 DEF Record, Terminal
  <2> QED BY <1>2, <1>5, <2>2, JobRelies DEF Relies, Settled
<1> QED BY <1>2, <1>3, <1>4, <1>5, SameRelies DEF Relies

LEMMA PrepareRelies ==
  ASSUME IInv, NEW a \in Actor, Prepare(a)
  PROVE  Relies(a)
<1>0. /\ act \in [Actor -> ActorState] /\ act[a] \in ActorState /\ Shaped(act[a])
      /\ act[a].pc = "staged" /\ act[a].job = 0
  BY Local DEF Prepare, Shaped, Undoing, Recovering
<1>1. CASE journal' = journal /\ (Return(a, "replayed") \/ Return(a, "in-flight"))
  BY <1>0, <1>1
     DEF Return, Idle, Relies, Relied, OpenPlans, OpenOps, Holding, Writing, Recovering, Stepping, Undoing
<1>2. CASE journal' = journal /\ act' = [act EXCEPT ![a].pc = "open"]
  <2>1. act'[a].pc = "open" /\ act'[a].job = 0 /\ act'[a].plan = act[a].plan
    BY <1>0, <1>2 DEF ActorState
  <2>2. Relied(act'[a]) \subseteq Relied(act[a])
    BY <1>0, <2>1 DEF Relied, Holding, Writing, Recovering, Stepping, Undoing
  <2> QED BY <1>2, <2>2 DEF Relies, OpenPlans, OpenOps
<1>3. ASSUME NEW r \in OpenOps,
             journal' = [journal EXCEPT ![r].state = "compensating", ![r].note = {}],
             act' = [act EXCEPT ![a].pc = "comp", ![a].job = r, ![a].left = Targets(a),
                                ![a].snap = journal[r]]
      PROVE  Relies(a)
  <2>1. /\ act'[a].pc = "comp" /\ act'[a].snap = journal[r] /\ act'[a].plan = act[a].plan
    BY <1>0, <1>3 DEF ActorState
  <2>2. Relied(act'[a]) \subseteq Relied(act[a]) \cup OpenPlans
    BY <1>0, <2>1 DEF Relied, OpenPlans, Holding, Writing, Recovering, Stepping, Undoing
  <2>3. journal \in [Op -> Record \cup {NoRecord}] /\ r \in Op /\ journal[r] \in Record
    BY DEF IInv, TypeOK, OpenOps, NoRecord, Open
  <2>4. journal'[r].plan = journal[r].plan /\ \A q \in Op : q # r => journal'[q] = journal[q]
    BY <1>3, <2>3 DEF Record
  <2>5. OpenPlans' \subseteq OpenPlans
    BY <2>4 DEF OpenPlans, OpenOps
  <2> QED BY <2>2, <2>5 DEF Relies
<1> QED BY <1>1, <1>2, <1>3 DEF Prepare

\* A publication that failed may still have opened the record, or reopened it.
LEMMA PrepareFailsRelies ==
  ASSUME IInv, NEW a \in Actor, PrepareFails(a)
  PROVE  Relies(a)
<1>1. act'[a].pc \in {"failed", "open"} /\ act'[a].job = 0 /\ act'[a].plan = act[a].plan
      /\ act[a].pc = "staged"
  BY EndStep DEF PrepareFails, Incomplete
<1>2. Relied(act'[a]) \subseteq Relied(act[a])
  BY <1>1 DEF Relied, Holding, Writing, Recovering, Stepping, Undoing
<1>3. PICK r \in OpenOps :
        PublishFails(r, [journal[r] EXCEPT !.state = "compensating", !.note = {}])
  BY DEF PrepareFails, Incomplete, First
<1> DEFINE R == [journal[r] EXCEPT !.state = "compensating", !.note = {}]
<1>4. r \in Op /\ journal[r] \in Record
  BY DEF IInv, TypeOK, OpenOps, NoRecord, Open
<1>5. R \in Record /\ R.plan = journal[r].plan
  BY <1>4 DEF Record, Open
<1>6. journal' \in {journal, [journal EXCEPT ![r] = R]} /\ R.plan \in OpenPlans
  BY <1>3, <1>5 DEF PublishFails, OpenPlans
<1> HIDE DEF R
<1>7. OpenPlans' \subseteq Relied(act[a]) \cup OpenPlans
  BY <1>4, <1>5, <1>6, RecordRelies, SameRelies
<1> QED BY <1>2, <1>7 DEF Relies

LEMMA OpenOpRelies ==
  ASSUME IInv, ActorAssumption, NEW a \in Actor, OpenOp(a) \/ OpenOpFails(a)
  PROVE  Relies(a)
<1>0. /\ act \in [Actor -> ActorState] /\ act[a] \in ActorState /\ Shaped(act[a])
      /\ act[a].pc = "open" /\ act[a].job = 0
  BY Local DEF OpenOp, OpenOpFails, Shaped, Undoing, Recovering
<1>1. act[a].plan \in Plan
  BY <1>0 DEF Shaped, Recovering
<1>2. Relied(act'[a]) \subseteq Relied(act[a])
  <2>1. CASE OpenOp(a)
    <3>1. act'[a].pc = "prepared" /\ act'[a].job = 0 /\ act'[a].plan = act[a].plan
      BY <1>0, <2>1 DEF OpenOp, ActorState
    <3> QED BY <1>0, <3>1 DEF Relied, Holding, Writing, Recovering, Stepping, Undoing
  <2>2. CASE OpenOpFails(a)
    <3>1. act'[a].pc \in {"failed", "open"} /\ act'[a].job = 0 /\ act'[a].plan = act[a].plan
      BY <2>2, EndStep
    <3> QED BY <1>0, <3>1 DEF Relied, Holding, Writing, Recovering, Stepping, Undoing
  <2> QED BY <2>1, <2>2
<1>3. /\ Rec(a, "prepared") \in Record /\ Rec(a, "prepared").plan = act[a].plan
      /\ act[a].plan \in Relied(act[a])
  BY <1>0, <1>1, RecTyped DEF Rec, Relied, Writing, Open
<1>4. \/ journal' = journal
      \/ opCount + 1 \in Op /\ journal' = [journal EXCEPT ![opCount + 1] = Rec(a, "prepared")]
  BY DEF OpenOp, OpenOpFails
<1>5. OpenPlans' \subseteq Relied(act[a]) \cup OpenPlans
  BY <1>3, <1>4, RecordRelies, SameRelies
<1> QED BY <1>2, <1>5 DEF Relies

\* Sweeping out old records opens none.
LEMMA CompactRelies ==
  ASSUME CompactJournal
  PROVE  OpenPlans' \subseteq OpenPlans
<1>1. \A r \in Op : journal'[r] \in {journal[r], NoRecord}
  BY DEF CompactJournal
<1>2. \A r \in OpenOps' : r \in OpenOps /\ journal'[r] = journal[r]
  BY <1>1 DEF OpenOps, Open, NoRecord
<1> QED BY <1>2 DEF OpenPlans

LEMMA StepRelies ==
  ASSUME IInv, ActorAssumption, NEW a \in Actor, Step(a) \/ Fails(a) \/ Cancel(a),
         ~Stage(a), ~StageFails(a), ~SweepEnd(a), ~Close(a)
  PROVE  Relies(a)
<1>1. CASE Quiet(a)
  BY <1>1, QuietRelies, QuietJournal, NoMoreRelied, SameRelies DEF Relies
<1>2. CASE Boot(a) \/ Sweep(a)
  BY <1>2, ListingRelies DEF Boot, Sweep
<1>3. CASE \/ Inspect(a) \/ Settle(a) \/ SettleFails(a) \/ Prepare(a) \/ PrepareFails(a)
           \/ OpenOp(a) \/ OpenOpFails(a) \/ Compensated(a) \/ CompensatedFails(a)
  BY <1>3, InspectRelies, SettleRelies, PrepareRelies, PrepareFailsRelies, OpenOpRelies,
     CompensatedRelies
<1>4. CASE \/ Apply(a) \/ ApplyFails(a) \/ Commit(a) \/ CommitFails(a) \/ Turn(a) \/ TurnFails(a)
  BY <1>4, RunRelies, TurnRelies
<1> QED BY <1>1, <1>2, <1>3, <1>4 DEF Step, Fails, Quiet

LEMMA ReliedTyped ==
  ASSUME IInv
  PROVE  OpenPlans \subseteq Plan /\ \A a \in Actor : Relied(act[a]) \subseteq Plan
<1>1. OpenPlans \subseteq Plan
  <2>1. \A r \in OpenOps : journal[r] \in Record
    BY DEF OpenOps, Open, NoRecord, IInv, TypeOK
  <2> QED BY <2>1 DEF OpenPlans, Record
<1>2. ASSUME NEW a \in Actor PROVE Relied(act[a]) \subseteq Plan
  <2>1. act[a] \in ActorState /\ Shaped(act[a])
    BY Local
  <2>2. \A e \in act[a].seen : e[2].plan \in Plan
    BY <2>1 DEF ActorState, Record
  <2>3. act[a].job # 0 => act[a].snap.plan \in Plan
    BY <2>1 DEF Shaped, Record
  <2>4. act[a].pc \in Writing => act[a].plan \in Plan
    BY <2>1 DEF Shaped, Writing, Stepping, Undoing, Recovering
  <2> QED BY <2>2, <2>3, <2>4 DEF Relied
<1> QED BY <1>1, <1>2

\* Where the bundles change: a new bundle is written, or old ones are swept.
LEMMA BundlesStay ==
  ASSUME NEW a \in Actor, Step(a) \/ Fails(a) \/ Cancel(a),
         ~Stage(a), ~StageFails(a), ~SweepEnd(a), ~Close(a)
  PROVE  bundle' = bundle
BY DEF Step, Fails, Lock, Boot, Sweep, Listing, Inspect, Restore, RestoreReread, Settle,
       SettleFails, Check, Prepare, PrepareFails, LockTimesOut, OpenOp, OpenOpFails, Apply,
       ApplyFails, Probe, Write, WriteFails, WriteUnrecorded, Verify, Commit, CommitFails,
       Turn, TurnFails, Compensate, Undo, Reread, Compensated, CompensatedFails, Walked,
       Conclude, Cancel

LEMMA WrittenBundle ==
  ASSUME IInv, PlanAssumption, NEW p \in Plan, WriteBundle(p)
  PROVE  bundle'[p] # 0 /\ \A q \in Plan : bundle[q] # 0 => bundle'[q] # 0
<1>1. \A q \in Plan : Cardinality(NewerIn(Plan \ {p}, q)) \in Nat
  BY FS_Subset, FS_CardinalityType DEF PlanAssumption, NewerIn
<1>2. bundle'[p] # 0
  BY DEF WriteBundle
<1>3. ASSUME NEW q \in Plan, bundle[q] # 0 PROVE bundle'[q] # 0
  <2> DEFINE n == Cardinality(NewerIn(Plan \ {p}, q))
  <2>1. n \in Nat
    BY <1>1
  <2>2. bundle'[q] = IF q = p THEN 1 ELSE 2 + n
    BY <1>3 DEF WriteBundle
  <2> HIDE DEF n
  <2> QED BY <2>1, <2>2
<1> QED BY <1>2, <1>3

LEMMA StageCovers ==
  ASSUME IInv, Covered, PlanAssumption, NEW a \in Actor, Stage(a) \/ StageFails(a)
  PROVE  Covered'
<1>0. /\ act \in [Actor -> ActorState] /\ act[a] \in ActorState /\ Shaped(act[a])
      /\ act[a].pc \in {"check", "checked"} /\ journal' = journal
  BY Local DEF Stage, StageFails
<1>1. act[a].job = 0 /\ act[a].plan \in Plan
  BY <1>0 DEF Shaped, Undoing, Recovering
<1>2. \A q \in Plan : bundle[q] # 0 => bundle'[q] # 0
  BY <1>1, WrittenBundle DEF Stage, StageFails
<1>3. \A p \in Relied(act'[a]) : bundle'[p] # 0
  <2>1. CASE Stage(a)
    <3>1. act'[a].pc = "staged" /\ act'[a].job = 0 /\ act'[a].plan = act[a].plan
      BY <1>0, <1>1, <2>1 DEF Stage, ActorState
    <3>2. Relied(act'[a]) = {act[a].plan}
      BY <3>1 DEF Relied, Holding, Writing, Recovering, Stepping, Undoing
    <3> QED BY <1>1, <2>1, <3>2, WrittenBundle DEF Stage
  <2>2. CASE StageFails(a)
    <3>1. act'[a].pc = "failed" /\ act'[a].job = 0
      BY <1>0, <1>1, <2>2 DEF StageFails, ActorState
    <3> QED BY <3>1 DEF Relied, Holding, Writing, Recovering, Stepping, Undoing
  <2> QED BY <2>1, <2>2
<1>4. OpenPlans' = OpenPlans /\ \A b \in Actor : b # a => act'[b] = act[b]
  BY <1>0, SameRelies, Local DEF Stage, StageFails
<1>5. OpenPlans \subseteq Plan /\ \A b \in Actor : Relied(act[b]) \subseteq Plan
  BY ReliedTyped
<1> QED BY <1>2, <1>3, <1>4, <1>5 DEF Covered

\* A sweep of the bundles leaves the plans of open operations, and with room all.
LEMMA CompactKeeps ==
  ASSUME IInv, PlanAssumption, BoundAssumption, CompactBundles, NEW p \in Plan, bundle[p] # 0,
         p \in OpenPlans \/ Roomy
  PROVE  bundle'[p] # 0
<1>1. CASE p \in OpenPlans
  BY <1>1 DEF CompactBundles, OpenPlans
<1>2. CASE Roomy
  <2> DEFINE N == NewerIn(Plan \ OpenPlans, p)
  <2>1. IsFiniteSet(Plan \ {p}) /\ Cardinality(Plan \ {p}) = Cardinality(Plan) - 1
        /\ Cardinality(Plan) \in Nat
    BY FS_RemoveElement, FS_CardinalityType DEF PlanAssumption
  <2>2. bundle[p] \in Nat
    BY DEF IInv, TypeOK
  <2>3. N \subseteq Plan \ {p}
    BY <2>2 DEF NewerIn
  <2>4. Cardinality(N) <= Cardinality(Plan \ {p}) /\ Cardinality(N) \in Nat
    BY <2>1, <2>3, FS_Subset, FS_CardinalityType
  <2>5. Cardinality(N) < KeepBundles
    BY <1>2, <2>1, <2>4 DEF Roomy, BoundAssumption
  <2> QED BY <2>5 DEF CompactBundles, OpenPlans
<1> QED BY <1>1, <1>2

\* Neither the end of a sweep nor of a commit takes a bundle still needed.
LEMMA CompactCovers ==
  ASSUME IInv, Covered, PlanAssumption, BoundAssumption, Alone \/ Roomy,
         NEW a \in Actor, SweepEnd(a) \/ Close(a)
  PROVE  Covered'
<1>0. /\ act \in [Actor -> ActorState] /\ act[a] \in ActorState /\ Shaped(act[a])
      /\ CompactJournal /\ CompactBundles /\ act[a].pc \in {"sweep", "committed"}
  BY Local DEF SweepEnd, Close
<1>1. act[a].job = 0
  BY <1>0 DEF Shaped, Undoing, Recovering
<1>2. Relied(act'[a]) = {} /\ \A b \in Actor : b # a => act'[b] = act[b]
  <2>1. CASE SweepEnd(a)
    <3>1. act'[a].pc \in {"idle", "check"} /\ act'[a].job = 0
      BY <1>0, <1>1, <2>1 DEF SweepEnd, ActorState
    <3> QED BY <1>0, <2>1, <3>1
            DEF SweepEnd, Relied, Holding, Writing, Recovering, Stepping, Undoing
  <2>2. CASE Close(a)
    <3>1. act'[a].pc = "idle" /\ act'[a].job = 0
      BY <1>0, <2>2 DEF Close, Return, Idle
    <3> QED BY <1>0, <2>2, <3>1
            DEF Close, Return, Relied, Holding, Writing, Recovering, Stepping, Undoing
  <2> QED BY <2>1, <2>2
<1>3. OpenPlans' \subseteq OpenPlans
  BY <1>0, CompactRelies
<1>4. OpenPlans \subseteq Plan /\ \A b \in Actor : Relied(act[b]) \subseteq Plan
  BY ReliedTyped
<1>5. \A p \in Plan : bundle[p] # 0 /\ p \in OpenPlans => bundle'[p] # 0
  BY <1>0, CompactKeeps
<1>6. CASE Roomy
  <2>1. \A p \in Plan : bundle[p] # 0 => bundle'[p] # 0
    BY <1>0, <1>6, CompactKeeps
  <2> QED BY <1>2, <1>3, <1>4, <2>1 DEF Covered
<1>7. CASE Alone
  <2>1. ASSUME NEW b \in Actor, b # a PROVE Relied(act[b]) = {}
    <3>1. act[b].pc \in {"idle", "lock", "start"}
      BY <1>0, <1>7, <2>1 DEF Alone, Engaged
    <3>2. act[b].job = 0
      BY <3>1, Local DEF Shaped, Undoing, Recovering
    <3> QED BY <3>1, <3>2 DEF Relied, Holding, Writing, Recovering, Stepping, Undoing
  <2> QED BY <1>2, <1>3, <1>4, <1>5, <2>1 DEF Covered
<1> QED BY <1>6, <1>7

LEMMA CoveredStep ==
  ASSUME IInv, Covered, ActorAssumption, PlanAssumption, BoundAssumption, Alone \/ Roomy,
         NEW a \in Actor, Step(a) \/ Fails(a) \/ Cancel(a)
  PROVE  Covered'
<1>1. CASE ~Stage(a) /\ ~StageFails(a) /\ ~SweepEnd(a) /\ ~Close(a)
  <2>1. Relies(a) /\ bundle' = bundle /\ \A b \in Actor : b # a => act'[b] = act[b]
    BY <1>1, StepRelies, BundlesStay, StepOthers
  <2> QED BY <2>1 DEF Relies, Covered
<1> QED BY <1>1, StageCovers, CompactCovers

LEMMA CoveredInvariant == Spec /\ [](Alone \/ Roomy) => []Covered
<1>1. Init => Covered
  <2>1. SUFFICES ASSUME Init PROVE Covered
    OBVIOUS
  <2>2. OpenOps = {}
    BY <2>1 DEF Init, OpenOps, Open, NoRecord
  <2>3. \A a \in Actor : act[a].pc = "idle" /\ act[a].job = 0
    BY <2>1 DEF Init, Idle
  <2> QED BY <2>2, <2>3
          DEF Covered, OpenPlans, Relied, Holding, Writing, Recovering, Stepping, Undoing
<1>2. IInv /\ Covered /\ (Alone \/ Roomy) /\ [Next]_vars => Covered'
  <2>1. SUFFICES ASSUME IInv, Covered, Alone \/ Roomy, [Next]_vars PROVE Covered'
    OBVIOUS
  <2>2. CASE UNCHANGED vars
    BY <2>1, <2>2 DEF vars, Covered, OpenPlans, OpenOps
  <2>3. ASSUME NEW a \in Actor, Step(a) \/ Fails(a) \/ Cancel(a) PROVE Covered'
    BY <2>1, <2>3, CoveredStep, ActorAssumption, PlanAssumption, BoundAssumption
  <2>4. ASSUME NEW a \in Actor, NEW p \in Plan, Begin(a, p) PROVE Covered'
    <3>1. /\ act'[a].pc = "lock" /\ act'[a].job = 0 /\ \A b \in Actor : b # a => act'[b] = act[b]
      BY <2>1, <2>4, Local DEF Begin, Idle
    <3>2. Relied(act'[a]) = {}
      BY <3>1 DEF Relied, Holding, Writing, Recovering, Stepping, Undoing
    <3>3. bundle' = bundle /\ OpenPlans' = OpenPlans
      BY <2>4 DEF Begin, OpenPlans, OpenOps
    <3> QED BY <2>1, <3>1, <3>2, <3>3 DEF Covered
  <2>5. ASSUME NEW p \in Proc, Crash(p) PROVE Covered'
    <3>1. Relied(Idle) = {}
      BY DEF Idle, Relied, Holding, Writing, Recovering, Stepping, Undoing
    <3>2. /\ \A a \in Actor : act'[a] = IF ProcOf[a] = p THEN Idle ELSE act[a]
          /\ bundle' = bundle /\ OpenPlans' = OpenPlans
      BY <2>5 DEF Crash, OpenPlans, OpenOps
    <3> QED BY <2>1, <3>1, <3>2 DEF Covered
  <2>6. ASSUME NEW f \in File, NEW c \in EditorContent, Edit(f, c) PROVE Covered'
    BY <2>1, <2>6 DEF Edit, Covered, OpenPlans, OpenOps
  <2> QED BY <2>1, <2>2, <2>3, <2>4, <2>5, <2>6 DEF Next
<1> QED BY <1>1, <1>2, Invariance, PTL DEF Spec

\* changeSetCommit.ts saves the original bytes before the journal record and sweeps
\* old bundles, sparing those of open records: as long as runs and recoveries do not
\* overlap, or no more plans exist than bundles are kept, every open operation's
\* originals stay there to be put back.  (A sweep that overlaps a run staged but not
\* yet journaled may take its bundle: no record names it.)
THEOREM BundlesKept == Spec /\ [](Alone \/ Roomy) => []BundleCovers
<1>1. Covered => BundleCovers
  BY DEF Covered, OpenPlans, BundleCovers
<1> QED BY <1>1, CoveredInvariant, PTL

------------------------------------------------------------------------------
(* What an actor has in hand is what the journal says *)

\* The record of a commit by actor a: its owner, its plan, its key.
Mine(a, R) == R.owner = OwnerOf[a] /\ R.plan = act[a].plan /\ R.rev = act[a].rev

Current(a) ==
  /\ act[a].pc \in Holding =>
       \A e \in act[a].seen : /\ e[1] \in OpenOps /\ e[2] = journal[e[1]]
                              /\ e[1] # act[a].job
  /\ act[a].op # 0 => journal[act[a].op] \in Record /\ Mine(a, journal[act[a].op])
  /\ act[a].job # 0 => act[a].job \in OpenOps
  /\ act[a].pc \in Recovering => act[a].snap = journal[act[a].job]
  /\ act[a].pc \in Undoing /\ act[a].job # 0 =>
       Mine(a, act[a].snap) /\ Mine(a, journal[act[a].job])

UpToDate == \A a \in Actor : Current(a)

\* An actor that is not engaged has nothing in hand.
LEMMA NotEngaged ==
  ASSUME IInv, NEW a \in Actor, ~Engaged(a)
  PROVE  act[a].op = 0 /\ act[a].job = 0 /\ Current(a)
<1>1. Shaped(act[a])
  BY Local
<1> QED BY <1>1 DEF Engaged, Shaped, Current, Holding, Stepping, Undoing, Recovering

\* Only an engaged actor moves the journal, and only in one of four ways.
LEMMA JournalMoves ==
  ASSUME IInv, NEW a \in Actor, Step(a) \/ Fails(a) \/ Cancel(a), journal' # journal
  PROVE  /\ Engaged(a)
         /\ \/ CompactJournal
            \/ \E r \in Op : /\ \A q \in Op : q # r => journal'[q] = journal[q]
                             /\ \/ r \in {act[a].op, act[a].job} \/ r \in OpenOps
                                \/ r = opCount + 1 /\ (OpenOp(a) \/ OpenOpFails(a))
<1>0. act[a] \in ActorState /\ Shaped(act[a]) /\ journal \in [Op -> Record \cup {NoRecord}]
  BY Local DEF IInv, TypeOK
<1>1. \/ Settle(a) \/ SettleFails(a) \/ SweepEnd(a) \/ Close(a)
      \/ Prepare(a) \/ PrepareFails(a) \/ OpenOp(a) \/ OpenOpFails(a)
      \/ Apply(a) \/ ApplyFails(a) \/ Commit(a) \/ CommitFails(a) \/ Turn(a) \/ TurnFails(a)
      \/ Compensated(a) \/ CompensatedFails(a)
  BY QuietJournal DEF Step, Fails, Quiet, Boot, Sweep, Listing, Inspect, Stage, StageFails
<1>2. Engaged(a)
  BY <1>1 DEF Engaged, Settle, SettleFails, SweepEnd, Prepare, PrepareFails, Incomplete, OpenOp,
              OpenOpFails, Apply, ApplyFails, Commit, CommitFails, Turn, TurnFails, Close,
              Compensated, CompensatedFails, Walked
<1>3. CASE SweepEnd(a) \/ Close(a)
  BY <1>2, <1>3 DEF SweepEnd, Close
<1>4. CASE Settle(a) \/ SettleFails(a)
  <2>1. act[a].job \in Op
    BY <1>0, <1>4 DEF Settle, SettleFails, Shaped, Recovering, ActorState
  <2>2. \A q \in Op : q # act[a].job => journal'[q] = journal[q]
    BY <1>0, <1>4 DEF Settle, SettleFails, Verdicted
  <2> QED BY <1>2, <2>1, <2>2
<1>5. CASE \/ Apply(a) \/ ApplyFails(a) \/ Commit(a) \/ CommitFails(a) \/ Turn(a) \/ TurnFails(a)
  <2>1. act[a].pc \in Stepping \cup {"threw"}
    BY <1>5 DEF Apply, ApplyFails, Commit, CommitFails, Turn, TurnFails, Stepping
  <2>2. act[a].op \in Op
    BY <1>0, <2>1 DEF Shaped, ActorState
  <2>3. \E R : journal' = [journal EXCEPT ![act[a].op] = R]
    BY <1>0, <1>5 DEF Apply, ApplyFails, Commit, CommitFails, Turn, TurnFails, PublishFails
  <2>4. \A q \in Op : q # act[a].op => journal'[q] = journal[q]
    BY <1>0, <2>3
  <2> QED BY <1>2, <2>2, <2>4
<1>6. CASE Compensated(a) \/ CompensatedFails(a)
  <2>1. act[a].op # 0 <=> act[a].job = 0
    BY <1>0, <1>6 DEF Compensated, CompensatedFails, Walked, Shaped, Undoing
  <2>2. PICK r \in Op : r \in {act[a].op, act[a].job} /\ r = IF act[a].job = 0 THEN act[a].op ELSE act[a].job
    BY <1>0, <2>1 DEF ActorState
  <2>3. \A q \in Op : q # r => journal'[q] = journal[q]
    BY <1>0, <1>6, <2>2 DEF Compensated, CompensatedFails, PublishFails
  <2> QED BY <1>2, <2>2, <2>3
<1>7. CASE OpenOp(a) \/ OpenOpFails(a)
  <2>1. opCount + 1 \in Op /\ \A q \in Op : q # opCount + 1 => journal'[q] = journal[q]
    BY <1>0, <1>7 DEF OpenOp, OpenOpFails
  <2> QED BY <1>2, <1>7, <2>1
<1>8. CASE Prepare(a) \/ PrepareFails(a)
  <2>1. PICK r \in OpenOps :
          \/ journal' = [journal EXCEPT ![r].state = "compensating", ![r].note = {}]
          \/ journal' = [journal EXCEPT ![r] = [journal[r] EXCEPT !.state = "compensating", !.note = {}]]
    <3>1. CASE Prepare(a)
      BY <3>1 DEF Prepare
    <3>2. CASE PrepareFails(a)
      BY <3>2 DEF PrepareFails, Incomplete, First, PublishFails
    <3> QED BY <1>8, <3>1, <3>2
  <2>2. r \in Op /\ \A q \in Op : q # r => journal'[q] = journal[q]
    BY <1>0, <2>1 DEF OpenOps
  <2> QED BY <1>2, <2>1, <2>2
<1> QED BY <1>1, <1>3, <1>4, <1>5, <1>6, <1>7, <1>8

\* What the quiet steps do to a run's own operation and key: nothing.
LEMMA QuietOwn ==
  ASSUME IInv, NEW a \in Actor, Quiet(a)
  PROVE  act'[a].op \in {0, act[a].op} /\ (act'[a].op # 0 \/ act'[a].job # 0 => act'[a].rev = act[a].rev)
<1>0. act \in [Actor -> ActorState] /\ act[a] \in ActorState
  BY Local
<1>1. ASSUME NEW o \in Outcome, Return(a, o) PROVE act'[a].op = 0 /\ act'[a].job = 0
  BY <1>0, <1>1 DEF Return, Idle
<1>2. CASE Lock(a)
  BY <1>0, <1>2 DEF Lock, ActorState
<1>10. CASE LockTimesOut(a)
  BY <1>10, EndStep
<1>3. CASE Probe(a) \/ Write(a) \/ WriteFails(a) \/ WriteUnrecorded(a) \/ Verify(a)
  BY <1>3, WalkStep
<1>4. CASE Restore(a) \/ RestoreReread(a)
  BY <1>4, MendStep
<1>5. CASE Check(a)
  <2>1. CASE act' = [act EXCEPT ![a].pc = "checked", ![a].rev = Cardinality(Priors(a))]
    <3>1. act[a].op = 0 /\ act[a].job = 0
      BY <1>5, Local DEF Check, Shaped, Stepping, Undoing, Recovering
    <3> QED BY <1>0, <2>1, <3>1 DEF ActorState
  <2> QED BY <1>1, <1>5, <2>1 DEF Check, Outcome
<1>6. CASE Compensate(a)
  BY <1>0, <1>6 DEF Compensate, ActorState
<1>7. CASE Undo(a)
  BY <1>0, <1>7 DEF Undo, ActorState
<1>8. CASE Reread(a)
  BY <1>0, <1>8 DEF Reread, ActorState
<1>9. CASE Conclude(a) \/ Cancel(a)
  BY <1>1, <1>9 DEF Conclude, Cancel, Outcome
<1> QED BY <1>2, <1>3, <1>4, <1>5, <1>6, <1>7, <1>8, <1>9, <1>10 DEF Quiet

LEMMA QuietCurrent ==
  ASSUME IInv, IInv', NEW a \in Actor, Current(a), Quiet(a)
  PROVE  Current(a)'
<1>1. NoMore(act[a], act'[a]) /\ journal' = journal /\ act'[a].op \in {0, act[a].op}
      /\ (act'[a].op # 0 \/ act'[a].job # 0 => act'[a].rev = act[a].rev)
  BY QuietRelies, QuietJournal, QuietOwn
<1>2. Shaped(act[a]) /\ Shaped(act'[a])
  BY DEF IInv, Shape
<1>3. OpenOps' = OpenOps
  BY <1>1 DEF OpenOps
<1>4. act'[a].pc \in Holding =>
       \A e \in act'[a].seen : /\ e[1] \in OpenOps /\ e[2] = journal[e[1]]
                               /\ e[1] # act'[a].job
  <2>1. SUFFICES ASSUME act'[a].pc \in Holding, NEW e \in act'[a].seen
                 PROVE  e[1] \in OpenOps /\ e[2] = journal[e[1]] /\ e[1] # act'[a].job
    OBVIOUS
  <2>2. e \in act[a].seen /\ act[a].pc \in Holding /\ act'[a].job \in {0, act[a].job}
    BY <1>1, <2>1 DEF NoMore
  <2>3. e[1] # 0
    BY <2>2 DEF Current, OpenOps, Op, BoundAssumption
  <2> QED BY <2>2, <2>3 DEF Current
<1>5. act'[a].op # 0 => journal'[act'[a].op] \in Record /\ Mine(a, journal[act[a].op])'
  BY <1>1, <1>2 DEF Current, Mine, NoMore, Shaped, Writing
<1>6. act'[a].job # 0 => act'[a].job \in OpenOps
  BY <1>1 DEF Current, NoMore
<1>7. act'[a].pc \in Recovering => act'[a].snap = journal[act'[a].job]
  BY <1>1, <1>2 DEF Current, NoMore, Shaped, Holding, Recovering, Undoing
<1>8. act'[a].pc \in Undoing /\ act'[a].job # 0 => Mine(a, act[a].snap)' /\ Mine(a, journal[act[a].job])'
  BY <1>1, <1>2 DEF Current, Mine, NoMore, Shaped, Writing, Recovering, Undoing, Stepping
<1> QED BY <1>1, <1>3, <1>4, <1>5, <1>6, <1>7, <1>8 DEF Current

\* A run's own record moves from state to state and stays the run's own.
LEMMA RunCurrent ==
  ASSUME IInv, IInv', ActorAssumption, NEW a \in Actor, Current(a),
         Apply(a) \/ ApplyFails(a) \/ Commit(a) \/ CommitFails(a) \/ Turn(a)
  PROVE  Current(a)'
<1>0. /\ act \in [Actor -> ActorState] /\ act[a] \in ActorState /\ Shaped(act[a])
      /\ Shaped(act'[a]) /\ journal \in [Op -> Record \cup {NoRecord}]
  BY Local DEF IInv, Shape, TypeOK
<1>1. /\ act[a].pc \in Stepping \cup {"threw"} /\ act[a].op # 0 /\ act[a].job = 0
      /\ act[a].op \in Op /\ act[a].plan \in Plan
  BY <1>0 DEF Apply, ApplyFails, Commit, CommitFails, Turn, Shaped, Stepping, Undoing, Recovering,
              ActorState
<1>2. /\ act'[a].plan = act[a].plan /\ act'[a].rev = act[a].rev /\ act'[a].job = act[a].job
      /\ act'[a].op \in {0, act[a].op} /\ act'[a].pc \notin Holding
  <2>1. CASE Apply(a) \/ ApplyFails(a) \/ CommitFails(a)
    BY <2>1, WalkStep DEF SameInHand, Holding, Recovering
  <2>2. CASE Commit(a)
    BY <1>0, <2>2 DEF Commit, ActorState, Holding, Recovering
  <2>3. CASE Turn(a)
    BY <1>0, <2>3 DEF Turn, ActorState, Holding, Recovering
  <2> QED BY <2>1, <2>2, <2>3
<1>3. PICK R : /\ journal' = journal \/ journal' = [journal EXCEPT ![act[a].op] = R]
               /\ R \in Record /\ Mine(a, R)
  <2>1. CASE Turn(a)
    <3>1. Rec(a, "compensating") \in Record /\ Mine(a, Rec(a, "compensating"))
      BY <1>1, RecTyped DEF Rec, Mine, Open
    <3> QED BY <2>1, <3>1 DEF Turn
  <2>2. ASSUME NEW x \in {"applying", "committed"},
               \/ journal' = journal
               \/ journal' = [journal EXCEPT ![act[a].op] = [journal[act[a].op] EXCEPT !.state = x]]
        PROVE  \E R : /\ journal' = journal \/ journal' = [journal EXCEPT ![act[a].op] = R]
                      /\ R \in Record /\ Mine(a, R)
    <3> DEFINE T == [journal[act[a].op] EXCEPT !.state = x]
    <3>1. T \in Record /\ Mine(a, T)
      BY <1>1 DEF Current, Record, Mine, Open, Terminal
    <3> QED BY <2>2, <3>1
  <2> QED BY <2>1, <2>2 DEF Apply, ApplyFails, Commit, CommitFails, PublishFails
<1>6. act'[a].op # 0 => journal'[act'[a].op] \in Record /\ Mine(a, journal[act[a].op])'
  BY <1>0, <1>1, <1>2, <1>3 DEF Current, Mine
<1> QED BY <1>1, <1>2, <1>6 DEF Current, Holding

LEMMA ListingCurrent ==
  ASSUME IInv, NEW a \in Actor, act[a].pc \in {"idle", "start"}, Listing(a)
  PROVE  Current(a)'
<1>0. act \in [Actor -> ActorState] /\ act[a] \in ActorState /\ Shaped(act[a])
  BY Local
<1>1. act[a].job = 0 /\ act[a].op = 0
  BY <1>0 DEF Shaped, Stepping, Undoing, Recovering
<1>2. /\ act'[a].pc = "sweep" /\ act'[a].job = 0 /\ act'[a].op = 0
      /\ act'[a].seen = {<<r, journal[r]>> : r \in OpenOps}
  BY <1>0, <1>1 DEF Listing, ActorState
<1>3. journal' = journal /\ OpenOps' = OpenOps
  BY DEF Listing, OpenOps
<1>4. \A r \in OpenOps : r # 0
  BY DEF OpenOps, Op, BoundAssumption
<1> QED BY <1>2, <1>3, <1>4 DEF Current, Recovering, Undoing

LEMMA InspectCurrent ==
  ASSUME IInv, NEW a \in Actor, Current(a), Inspect(a)
  PROVE  Current(a)'
<1>0. /\ act \in [Actor -> ActorState] /\ act[a] \in ActorState /\ act[a].pc = "sweep"
      /\ Shaped(act[a])
  BY Local DEF Inspect
<1>1. PICK e \in act[a].seen :
        \/ act' = [act EXCEPT ![a].seen = @ \ {e}]
        \/ \E pc \in {"settle", "restore"} : \E v, n, l : Judge(a, e, pc, v, n, l)
  BY DEF Inspect
<1>2. journal' = journal /\ OpenOps' = OpenOps
  BY DEF Inspect, OpenOps
<1>3. act[a].op = 0 /\ act[a].job = 0
  BY <1>0 DEF Shaped, Stepping, Undoing, Recovering
<1>4. CASE act' = [act EXCEPT ![a].seen = @ \ {e}]
  <2>1. /\ act'[a].pc = "sweep" /\ act'[a].job = 0 /\ act'[a].op = 0
        /\ act'[a].seen \subseteq act[a].seen
    BY <1>0, <1>3, <1>4 DEF ActorState
  <2> QED BY <1>0, <1>2, <1>3, <2>1 DEF Current, Holding, Recovering, Undoing
<1>5. ASSUME NEW pc \in {"settle", "restore"}, NEW v, NEW n, NEW l, Judge(a, e, pc, v, n, l)
      PROVE  Current(a)'
  <2>1. /\ act'[a].pc \in {"settle", "restore"} /\ act'[a].snap = e[2] /\ act'[a].op = 0
        /\ act'[a].seen = act[a].seen \ {e} /\ act'[a].job = e[1]
    BY <1>0, <1>3, <1>5 DEF ActorState, Judge
  <2>2. \A x \in act[a].seen : x[1] \in OpenOps /\ x[2] = journal[x[1]] /\ x = <<x[1], x[2]>>
    BY <1>0 DEF Current, Holding, ActorState
  <2>3. \A x \in act'[a].seen : x[1] # e[1]
    BY <2>1, <2>2
  <2> QED BY <1>2, <2>1, <2>2, <2>3 DEF Current, Recovering, Undoing
<1> QED BY <1>1, <1>4, <1>5

\* An actor between runs, or at a pc that has nothing in hand.
LEMMA EmptyHanded ==
  ASSUME NEW a \in Actor, act'[a].op = 0, act'[a].job = 0,
         act'[a].pc \notin Recovering, act'[a].pc = "sweep" => act'[a].seen = {}
  PROVE  Current(a)'
BY DEF Current, Holding

LEMMA SettleCurrent ==
  ASSUME IInv, NEW a \in Actor, Current(a), Settle(a) \/ SettleFails(a)
  PROVE  Current(a)'
<1>0. /\ act \in [Actor -> ActorState] /\ act[a] \in ActorState /\ Shaped(act[a])
      /\ act[a].pc = "settle" /\ journal \in [Op -> Record \cup {NoRecord}]
  BY Local DEF Settle, SettleFails, IInv, TypeOK
<1>1. /\ act'[a].pc = "sweep" /\ act'[a].job = 0 /\ act'[a].seen = act[a].seen
      /\ act'[a].op = 0
  BY <1>0 DEF Settle, SettleFails, LeftAsItIs, ActorState, Shaped, Stepping, Undoing, Recovering
<1>2. \A q \in Op : q # act[a].job => journal'[q] = journal[q]
  BY <1>0 DEF Settle, SettleFails, Verdicted
<1>3. \A e \in act'[a].seen : e[1] \in OpenOps' /\ e[2] = journal'[e[1]] /\ e[1] # 0
  BY <1>0, <1>1, <1>2 DEF Current, Holding, Recovering, OpenOps, Op, BoundAssumption
<1> QED BY <1>1, <1>3 DEF Current, Recovering, Undoing

LEMMA PrepareCurrent ==
  ASSUME IInv, NEW a \in Actor, Current(a), Prepare(a)
  PROVE  Current(a)'
<1>0. /\ act \in [Actor -> ActorState] /\ act[a] \in ActorState /\ Shaped(act[a])
      /\ act[a].pc = "staged" /\ act[a].job = 0 /\ act[a].op = 0
      /\ journal \in [Op -> Record \cup {NoRecord}]
  BY Local DEF Prepare, Shaped, Stepping, Undoing, Recovering, IInv, TypeOK
<1>1. CASE Return(a, "replayed") \/ Return(a, "in-flight")
  <2>1. act'[a].pc = "idle" /\ act'[a].op = 0 /\ act'[a].job = 0
    BY <1>0, <1>1 DEF Return, Idle
  <2> QED BY <2>1, EmptyHanded DEF Recovering
<1>2. CASE act' = [act EXCEPT ![a].pc = "open"]
  <2>1. act'[a].pc = "open" /\ act'[a].op = 0 /\ act'[a].job = 0
    BY <1>0, <1>2 DEF ActorState
  <2> QED BY <2>1, EmptyHanded DEF Recovering
<1>3. ASSUME NEW r \in SameKey(a) \cap OpenOps,
             journal' = [journal EXCEPT ![r].state = "compensating", ![r].note = {}],
             act' = [act EXCEPT ![a].pc = "comp", ![a].job = r, ![a].left = Targets(a),
                                ![a].snap = journal[r]]
      PROVE  Current(a)'
  <2>1. /\ act'[a].pc = "comp" /\ act'[a].snap = journal[r] /\ act'[a].plan = act[a].plan
        /\ act'[a].rev = act[a].rev /\ act'[a].op = 0 /\ act'[a].job = r
    BY <1>0, <1>3 DEF ActorState
  <2>2. r \in Op /\ journal[r] \in Record /\ Mine(a, journal[r])
    BY <1>0 DEF OpenOps, NoRecord, Open, SameKey, Mine
  <2>3. /\ journal'[r].state = "compensating" /\ journal'[r].owner = journal[r].owner
        /\ journal'[r].plan = journal[r].plan /\ journal'[r].rev = journal[r].rev
    BY <1>0, <1>3, <2>2 DEF Record
  <2>4. r \in OpenOps'
    BY <2>2, <2>3 DEF OpenOps, Open
  <2> QED BY <2>1, <2>2, <2>3, <2>4 DEF Current, Mine, Holding, Recovering
<1> QED BY <1>1, <1>2, <1>3 DEF Prepare

LEMMA OpenOpCurrent ==
  ASSUME IInv, ActorAssumption, NEW a \in Actor, OpenOp(a)
  PROVE  Current(a)'
<1>0. /\ act \in [Actor -> ActorState] /\ act[a] \in ActorState /\ Shaped(act[a])
      /\ act[a].pc = "open" /\ act[a].job = 0 /\ journal \in [Op -> Record \cup {NoRecord}]
      /\ opCount + 1 \in Op
  BY Local DEF OpenOp, Shaped, Undoing, Recovering, IInv, TypeOK
<1>1. /\ act'[a].pc = "prepared" /\ act'[a].job = 0 /\ act'[a].op = opCount + 1
      /\ act'[a].plan = act[a].plan /\ act'[a].rev = act[a].rev
  BY <1>0 DEF OpenOp, ActorState
<1>2. Rec(a, "prepared") \in Record /\ Mine(a, Rec(a, "prepared"))
  BY <1>0, RecTyped DEF Rec, Mine, Open, Shaped, Recovering
<1>3. journal'[opCount + 1] \in Record /\ Mine(a, journal'[opCount + 1])
  BY <1>0, <1>2 DEF OpenOp
<1> QED BY <1>1, <1>3 DEF Current, Mine, Holding, Recovering

\* Steps after which the actor has nothing in hand.
LEMMA ReleaseCurrent ==
  ASSUME IInv, NEW a \in Actor,
         \/ Stage(a) \/ SweepEnd(a) \/ Close(a) \/ Compensated(a) \/ CompensatedFails(a)
         \/ TurnFails(a) \/ StageFails(a) \/ PrepareFails(a) \/ OpenOpFails(a)
  PROVE  Current(a)'
<1>0. /\ act \in [Actor -> ActorState] /\ act[a] \in ActorState /\ Shaped(act[a])
  BY Local
<1>1. CASE Stage(a)
  <2>1. act'[a].pc = "staged" /\ act'[a].op = 0 /\ act'[a].job = 0
    BY <1>0, <1>1 DEF Stage, ActorState, Shaped, Stepping, Undoing, Recovering
  <2> QED BY <2>1, EmptyHanded DEF Recovering
<1>2. CASE SweepEnd(a)
  <2>1. act'[a].pc \in {"idle", "check"} /\ act'[a].op = 0 /\ act'[a].job = 0
    BY <1>0, <1>2 DEF SweepEnd, ActorState, Shaped, Stepping, Undoing, Recovering
  <2> QED BY <2>1, EmptyHanded DEF Recovering
<1>3. CASE Close(a)
  <2>1. act'[a].pc = "idle" /\ act'[a].op = 0 /\ act'[a].job = 0
    BY <1>0, <1>3 DEF Close, Return, Idle
  <2> QED BY <2>1, EmptyHanded DEF Recovering
<1>4. CASE \/ Compensated(a) \/ CompensatedFails(a) \/ TurnFails(a) \/ StageFails(a)
           \/ PrepareFails(a) \/ OpenOpFails(a)
  <2>1. act'[a].pc \in {"failed", "open"} /\ act'[a].op = 0 /\ act'[a].job = 0
    BY <1>4, EndStep
  <2> QED BY <2>1, EmptyHanded DEF Recovering
<1> QED BY <1>1, <1>2, <1>3, <1>4

LEMMA UpToDateStep ==
  ASSUME IInv, IInv', ActorAssumption, UpToDate, Alone, NEW a \in Actor, Step(a) \/ Fails(a) \/ Cancel(a)
  PROVE  UpToDate'
<1>1. Current(a)
  BY DEF UpToDate
<1>2. Current(a)'
  <2>1. CASE Quiet(a)
    BY <1>1, <2>1, QuietCurrent
  <2>2. CASE Boot(a) \/ Sweep(a)
    BY <2>2, ListingCurrent DEF Boot, Sweep
  <2>3. CASE Inspect(a) \/ Settle(a) \/ SettleFails(a) \/ Prepare(a) \/ OpenOp(a)
    BY <1>1, <2>3, InspectCurrent, SettleCurrent, PrepareCurrent, OpenOpCurrent
  <2>4. CASE Apply(a) \/ ApplyFails(a) \/ Commit(a) \/ CommitFails(a) \/ Turn(a)
    BY <1>1, <2>4, RunCurrent
  <2>5. CASE \/ Stage(a) \/ SweepEnd(a) \/ Close(a) \/ Compensated(a) \/ CompensatedFails(a)
             \/ TurnFails(a) \/ StageFails(a) \/ PrepareFails(a) \/ OpenOpFails(a)
    BY <2>5, ReleaseCurrent
  <2> QED BY <2>1, <2>2, <2>3, <2>4, <2>5 DEF Step, Fails, Quiet
<1>3. ASSUME NEW b \in Actor, b # a PROVE Current(b)'
  <2>1. act'[b] = act[b]
    BY <1>3, StepOthers
  <2>2. CASE journal' = journal
    BY <2>1, <2>2 DEF UpToDate, Current, Mine, OpenOps
  <2>3. CASE journal' # journal
    <3>1. Engaged(a)
      BY <2>3, JournalMoves
    <3>2. ~Engaged(b)'
      BY <1>3, <2>1, <3>1 DEF Alone, Engaged
    <3>3. act'[b].op = 0 /\ act'[b].job = 0
      BY <1>3, <2>1, <3>1, NotEngaged DEF Alone
    <3> QED BY <3>2, <3>3, EmptyHanded DEF Engaged, Recovering
  <2> QED BY <2>2, <2>3
<1> QED BY <1>2, <1>3 DEF UpToDate

LEMMA UpToDateInvariant == Spec /\ []Alone => []UpToDate
<1>1. Init => UpToDate
  BY DEF Init, Idle, UpToDate, Current, Holding, Recovering, Undoing
<1>2. IInv /\ IInv' /\ UpToDate /\ Alone /\ [Next]_vars => UpToDate'
  <2>1. SUFFICES ASSUME IInv, IInv', UpToDate, Alone, [Next]_vars PROVE UpToDate'
    OBVIOUS
  <2>2. CASE UNCHANGED vars
    BY <2>1, <2>2 DEF vars, UpToDate, Current, Mine, OpenOps
  <2>3. ASSUME NEW a \in Actor, Step(a) \/ Fails(a) \/ Cancel(a) PROVE UpToDate'
    BY <2>1, <2>3, UpToDateStep, ActorAssumption
  <2>4. ASSUME NEW a \in Actor, NEW p \in Plan, Begin(a, p) PROVE UpToDate'
    <3>1. /\ act'[a].pc = "lock" /\ act'[a].op = 0 /\ act'[a].job = 0
          /\ \A b \in Actor : b # a => act'[b] = act[b]
      BY <2>1, <2>4, Local DEF Begin, Idle
    <3>2. Current(a)'
      BY <3>1, EmptyHanded DEF Recovering
    <3>3. \A b \in Actor : b # a => Current(b)'
      BY <2>1, <2>4, <3>1 DEF Begin, UpToDate, Current, Mine, OpenOps
    <3> QED BY <3>2, <3>3 DEF UpToDate
  <2>5. ASSUME NEW p \in Proc, Crash(p) PROVE UpToDate'
    <3>1. (\A a \in Actor : act'[a] = IF ProcOf[a] = p THEN Idle ELSE act[a]) /\ journal' = journal
      BY <2>5 DEF Crash
    <3>2. \A a \in Actor : ProcOf[a] = p => Current(a)'
      BY <3>1, EmptyHanded DEF Idle, Recovering
    <3>3. \A a \in Actor : ProcOf[a] # p => Current(a)'
      BY <2>1, <3>1 DEF UpToDate, Current, Mine, OpenOps
    <3> QED BY <3>2, <3>3 DEF UpToDate
  <2>6. ASSUME NEW f \in File, NEW c \in EditorContent, Edit(f, c) PROVE UpToDate'
    BY <2>1, <2>6 DEF Edit, UpToDate, Current, Mine, OpenOps
  <2> QED BY <2>1, <2>2, <2>3, <2>4, <2>5, <2>6 DEF Next
<1> QED BY <1>1, <1>2, Invariance, PTL DEF Spec

Stays == \A r \in TerminalOps : (\A a \in Actor : act[a].op # r) => journal'[r] \in {journal[r], NoRecord}

LEMMA StaysStep ==
  ASSUME IInv, UpToDate, [Next]_vars
  PROVE  Stays
<1>1. SUFFICES ASSUME journal' # journal PROVE Stays
  BY DEF Stays
<1>2. PICK a \in Actor : Step(a) \/ Fails(a) \/ Cancel(a)
  BY <1>1 DEF Next, vars, Begin, Crash, Edit
<1>3. CASE CompactJournal
  BY <1>3 DEF CompactJournal, TerminalOps, Stays
<1>4. ASSUME NEW r \in Op, \A q \in Op : q # r => journal'[q] = journal[q],
             r \in {act[a].op, act[a].job} \/ r \in OpenOps \/ r = opCount + 1
      PROVE  Stays
  <2>1. r # 0
    BY DEF Op, BoundAssumption
  <2>3. r = act[a].job => journal[r].state \notin Terminal
    BY <2>1 DEF UpToDate, Current, OpenOps, Open, Terminal
  <2>4. r = opCount + 1 => journal[r].state \notin Terminal
    BY DEF IInv, TypeOK, Live, NoRecord, Terminal, Op, BoundAssumption
  <2>5. r \notin TerminalOps \/ r = act[a].op
    BY <1>4, <2>3, <2>4 DEF TerminalOps, OpenOps, Open, Terminal
  <2> QED BY <1>4, <2>5 DEF TerminalOps, Stays
<1> QED BY <1>1, <1>2, <1>3, <1>4, JournalMoves

\* Recovery and revival publish records they read earlier over the journal's (settle,
\* compensate): where runs and recoveries do not overlap, what they read is still what
\* the journal says, and an operation that is committed or aborted, and that no run has
\* in hand any more, stays as it is, whatever crashes, outside edits, failing writes and
\* failing publications there are.  (While its own run has it in hand a commit does not
\* stay: a publication that fails behind its rename is compensated.)
THEOREM SettledForGood == Spec /\ []Alone => SettledStays
<1>1. IInv /\ UpToDate /\ [Next]_vars => Stays
  BY StaysStep
<1> QED BY <1>1, UpToDateInvariant, Invariance, PTL DEF Spec, SettledStays, Stays

------------------------------------------------------------------------------
(* What a run reports *)

\* No record has been compacted away yet: a key is used up for good.
Remembered == \A r \in Op : r <= opCount => journal[r].state # "none"

\* The editor stays away from the moment the run rereads its targets until it returns.
EditorAway == [][edits' # edits => \A a \in Actor : act[a].pc \notin {"verify", "committed"}]_vars

\* How a run gets to where it trusts its key or its bytes.
LEMMA PcAfter ==
  ASSUME IInv, NEW a \in Actor, Step(a) \/ Fails(a) \/ Cancel(a)
  PROVE  /\ act'[a].pc = "checked" => Check(a)
         /\ act'[a].pc = "staged" => Stage(a)
         /\ act'[a].pc = "open" => Prepare(a) \/ Compensated(a)
         /\ act'[a].pc = "verify" => Write(a) \/ Verify(a)
         /\ act'[a].pc = "committed" => Commit(a)
<1> DEFINE Trusting == {"checked", "staged", "open", "verify", "committed"}
<1>0. act \in [Actor -> ActorState] /\ act[a] \in ActorState
  BY Local
<1>1. \A o \in Outcome : Return(a, o) => act'[a].pc \notin Trusting
  BY <1>0 DEF Return, Idle
<1>2. CASE Lock(a)
  <2>1. act'[a].pc \in {"start", "lock"}
    BY <1>0, <1>2 DEF Lock, ActorState
  <2> QED BY <2>1
<1>3. CASE Boot(a) \/ Sweep(a)
  <2>1. act'[a].pc = "sweep"
    BY <1>0, <1>3 DEF Boot, Sweep, Listing, ActorState
  <2> QED BY <2>1
<1>4. CASE Inspect(a)
  <2>1. act'[a].pc \in {"sweep", "settle", "restore"}
    BY <1>0, <1>4 DEF Inspect, Judge, ActorState
  <2> QED BY <2>1
<1>5. CASE Restore(a) \/ RestoreReread(a) \/ Settle(a) \/ SettleFails(a)
  <2>1. act'[a].pc \in {"restored", "settle", "restore", "sweep"}
    BY <1>5, MendStep
  <2> QED BY <2>1
<1>6. CASE SweepEnd(a)
  <2>1. act'[a].pc \in {"idle", "check"}
    BY <1>0, <1>6 DEF SweepEnd, ActorState
  <2> QED BY <2>1
<1>7. CASE Check(a)
  <2>1. act'[a].pc \in {"idle", "checked"}
    BY <1>0, <1>7 DEF Check, Return, Idle, ActorState
  <2> QED BY <1>7, <2>1
<1>8. CASE Stage(a)
  <2>1. act'[a].pc = "staged"
    BY <1>0, <1>8 DEF Stage, ActorState
  <2> QED BY <1>8, <2>1
<1>9. CASE Prepare(a)
  <2>1. act'[a].pc \in {"idle", "open", "comp"}
    <3>1. \/ Return(a, "replayed") \/ Return(a, "in-flight")
          \/ \E r \in Op : act' = [act EXCEPT ![a].pc = "comp", ![a].job = r,
                                              ![a].left = Targets(a), ![a].snap = journal[r]]
          \/ act' = [act EXCEPT ![a].pc = "open"]
      BY <1>9 DEF Prepare, OpenOps
    <3>2. ASSUME NEW r \in Op, act' = [act EXCEPT ![a].pc = "comp", ![a].job = r,
                                              ![a].left = Targets(a), ![a].snap = journal[r]]
          PROVE  act'[a].pc = "comp"
      BY <1>0, <3>2 DEF ActorState
    <3>3. act' = [act EXCEPT ![a].pc = "open"] => act'[a].pc = "open"
      BY <1>0 DEF ActorState
    <3>4. Return(a, "replayed") \/ Return(a, "in-flight") => act'[a].pc = "idle"
      BY <1>0 DEF Return, Idle
    <3> QED BY <3>1, <3>2, <3>3, <3>4
  <2> QED BY <1>9, <2>1
<1>10. CASE OpenOp(a)
  <2>1. act'[a].pc = "prepared"
    BY <1>0, <1>10 DEF OpenOp, ActorState
  <2> QED BY <2>1
<1>11. CASE \/ Probe(a) \/ Write(a) \/ WriteFails(a) \/ WriteUnrecorded(a) \/ Verify(a)
            \/ Apply(a) \/ ApplyFails(a) \/ CommitFails(a)
  <2>1. /\ act'[a].pc \in {"probe", "write", "verify", "threw"}
        /\ act'[a].pc = "verify" => Write(a) \/ Verify(a)
    BY <1>11, WalkStep
  <2> QED BY <2>1
<1>12. CASE Commit(a)
  <2>1. act'[a].pc = "committed"
    BY <1>0, <1>12 DEF Commit, ActorState
  <2> QED BY <1>12, <2>1
<1>13. CASE Turn(a) \/ Compensate(a) \/ Undo(a) \/ Reread(a)
  <2>1. act'[a].pc \in {"comp", "undo", "reread"}
    <3>1. CASE Turn(a)
      BY <1>0, <3>1 DEF Turn, ActorState
    <3>2. CASE Compensate(a)
      BY <1>0, <3>2 DEF Compensate, ActorState
    <3>3. CASE Undo(a)
      BY <1>0, <3>3 DEF Undo, ActorState
    <3>4. CASE Reread(a)
      BY <1>0, <3>4 DEF Reread, ActorState
    <3> QED BY <1>13, <3>1, <3>2, <3>3, <3>4
  <2> QED BY <2>1
<1>14. CASE \/ Compensated(a) \/ CompensatedFails(a) \/ TurnFails(a)
            \/ StageFails(a) \/ PrepareFails(a) \/ LockTimesOut(a) \/ OpenOpFails(a)
  <2>1. act'[a].pc \in {"failed", "open"} /\ (act'[a].pc = "open" => Compensated(a))
    BY <1>14, EndStep
  <2> QED BY <2>1
<1>15. CASE Close(a) \/ Conclude(a) \/ Cancel(a)
  <2>1. act'[a].pc \notin Trusting
    BY <1>1, <1>15 DEF Close, Conclude, Cancel, Outcome
  <2> QED BY <2>1
<1> QED
  BY <1>2, <1>3, <1>4, <1>5, <1>6, <1>7, <1>8, <1>9, <1>10, <1>11, <1>12, <1>13, <1>14, <1>15
     DEF Step, Fails

\* A run gets the operation it opens, and none besides.
LEMMA RunsOpened ==
  ASSUME IInv, NEW a \in Actor, Step(a) \/ Fails(a) \/ Cancel(a)
  PROVE  \/ act'[a].op \in {0, act[a].op}
         \/ OpenOp(a) /\ act'[a].op = opCount + 1
<1>0. act \in [Actor -> ActorState] /\ act[a] \in ActorState
  BY Local
<1>1. \A o : Return(a, o) => act'[a].op = 0
  BY <1>0 DEF Return, Idle
<1>2. CASE Quiet(a)
  BY <1>2, QuietOwn
<1>3. CASE Boot(a) \/ Sweep(a)
  BY <1>0, <1>3 DEF Boot, Sweep, Listing, ActorState
<1>4. CASE Inspect(a)
  BY <1>0, <1>4 DEF Inspect, Judge, ActorState
<1>5. CASE Settle(a) \/ SettleFails(a)
  BY <1>5, MendStep
<1>6. CASE SweepEnd(a)
  BY <1>0, <1>6 DEF SweepEnd, ActorState
<1>7. CASE Stage(a)
  BY <1>0, <1>7 DEF Stage, ActorState
<1>8. CASE Prepare(a)
  <2>1. \/ Return(a, "replayed") \/ Return(a, "in-flight")
        \/ \E r \in Op : act' = [act EXCEPT ![a].pc = "comp", ![a].job = r,
                                            ![a].left = Targets(a), ![a].snap = journal[r]]
        \/ act' = [act EXCEPT ![a].pc = "open"]
    BY <1>8 DEF Prepare, OpenOps
  <2>2. ASSUME NEW r \in Op, act' = [act EXCEPT ![a].pc = "comp", ![a].job = r,
                                            ![a].left = Targets(a), ![a].snap = journal[r]]
        PROVE  act'[a].op = act[a].op
    BY <1>0, <2>2 DEF ActorState
  <2>3. act' = [act EXCEPT ![a].pc = "open"] => act'[a].op = act[a].op
    BY <1>0 DEF ActorState
  <2> QED BY <1>1, <2>1, <2>2, <2>3
<1>9. CASE OpenOp(a)
  <2>1. act'[a].op = opCount + 1
    BY <1>0, <1>9 DEF OpenOp, ActorState
  <2> QED BY <1>9, <2>1
<1>10. CASE Apply(a) \/ ApplyFails(a) \/ CommitFails(a)
  BY <1>10, WalkStep
<1>11. CASE Commit(a)
  BY <1>0, <1>11 DEF Commit, ActorState
<1>12. CASE Turn(a)
  BY <1>0, <1>12 DEF Turn, ActorState
<1>13. CASE \/ Compensated(a) \/ CompensatedFails(a) \/ TurnFails(a)
            \/ StageFails(a) \/ PrepareFails(a) \/ OpenOpFails(a)
  BY <1>13, EndStep
<1>14. CASE Close(a)
  BY <1>1, <1>14 DEF Close
<1> QED
  BY <1>2, <1>3, <1>4, <1>5, <1>6, <1>7, <1>8, <1>9, <1>10, <1>11, <1>12, <1>13, <1>14
     DEF Step, Fails, Quiet

\* The targets a run has reread, and all of them once it has committed, hold planned bytes.
Verified(a) ==
  /\ act[a].pc = "verify" => Targets(a) \ act[a].left \subseteq In(act[a].plan, "planned")
  /\ act[a].pc = "committed" => In(act[a].plan, "planned") = DOMAIN act[a].plan

\* Nobody but an engaged actor writes.
LEMMA EngagedWrites ==
  ASSUME IInv, PlanAssumption, NEW a \in Actor, Step(a) \/ Fails(a) \/ Cancel(a), disk' # disk
  PROVE  Engaged(a) /\ act[a].pc \notin {"verify", "committed"}
BY StepWrites DEF Engaged

LEMMA VerifiedStep ==
  ASSUME IInv, PlanAssumption, Alone, NEW a \in Actor, Step(a) \/ Fails(a) \/ Cancel(a),
         \A b \in Actor : Verified(b)
  PROVE  \A b \in Actor : Verified(b)'
<1>0. act \in [Actor -> ActorState] /\ act[a] \in ActorState /\ Shaped(act[a])
  BY Local
<1>1. Verified(a)'
  <2>1. ASSUME act'[a].pc = "verify"
        PROVE  act'[a].plan = act[a].plan /\ Targets(a)' \ act'[a].left \subseteq In(act[a].plan, "planned")'
    <3>1. CASE Write(a)
      <4>1. PICK f \in act[a].left :
              act' = [act EXCEPT ![a].pc = IF act[a].left = {f} THEN "verify" ELSE "probe",
                                 ![a].left = IF @ = {f} THEN Targets(a) ELSE @ \ {f}]
        BY <3>1 DEF Write
      <4>2. act'[a].left = Targets(a) /\ act'[a].plan = act[a].plan
        BY <1>0, <2>1, <4>1 DEF ActorState
      <4> QED BY <4>2 DEF Targets
    <3>2. CASE Verify(a)
      <4>1. PICK f \in act[a].left :
              \/ Throw(a, {})
              \/ /\ f \in In(act[a].plan, "planned") /\ disk' = disk
                 /\ act' = [act EXCEPT ![a].left = @ \ {f}]
        BY <3>2 DEF Verify
      <4>2. ~Throw(a, {})
        BY <1>0, <2>1 DEF Throw, ActorState
      <4>3. /\ f \in In(act[a].plan, "planned") /\ disk' = disk
            /\ act'[a].left = act[a].left \ {f} /\ act'[a].plan = act[a].plan
        BY <1>0, <4>1, <4>2 DEF ActorState
      <4>4. Targets(a) \ act[a].left \subseteq In(act[a].plan, "planned")
        BY <3>2 DEF Verify, Verified
      <4> QED BY <4>3, <4>4 DEF Targets, In, Class
    <3> QED BY <2>1, <3>1, <3>2, PcAfter
  <2>2. ASSUME act'[a].pc = "committed"
        PROVE  In(act[a].plan, "planned")' = DOMAIN act'[a].plan
    <3>1. Commit(a)
      BY <2>2, PcAfter
    <3>2. act[a].pc = "verify" /\ act[a].left = {} /\ disk' = disk /\ act'[a].plan = act[a].plan
      BY <1>0, <3>1 DEF Commit, ActorState
    <3>3. Targets(a) = DOMAIN act[a].plan
      BY <3>2, InRunFacts
    <3>4. DOMAIN act[a].plan \subseteq In(act[a].plan, "planned")
      BY <3>2, <3>3 DEF Verified
    <3> QED BY <3>2, <3>4 DEF In, Class
  <2> QED BY <2>1, <2>2 DEF Verified
<1>2. ASSUME NEW b \in Actor, b # a PROVE Verified(b)'
  <2>1. act'[b] = act[b]
    BY <1>2, StepOthers
  <2>2. CASE disk' = disk
    BY <2>1, <2>2 DEF Verified, Targets, In, Class
  <2>3. CASE disk' # disk
    BY <1>2, <2>1, <2>3, EngagedWrites DEF Alone, Engaged, Verified
  <2> QED BY <2>2, <2>3
<1> QED BY <1>1, <1>2

\* Which steps report, and on what grounds.
LEMMA Reports ==
  ASSUME IInv, NEW a \in Actor, Step(a) \/ Fails(a) \/ Cancel(a), act[a].outcome = "none",
         act'[a].outcome \in {"committed", "replayed"}
  PROVE  /\ disk' = disk
         /\ \/ act[a].pc = "committed"
            \/ Replays(a)
            \/ act[a].pc = "staged" /\ \E r \in SameKey(a) : journal[r].state = "committed"
<1> DEFINE Silent == act'[a].outcome \notin {"committed", "replayed"}
<1>0. act \in [Actor -> ActorState] /\ act[a] \in ActorState
  BY Local
<1>1. \A o \in Outcome : Return(a, o) => act'[a].outcome = o
  BY <1>0 DEF Return, Idle
<1>2. CASE Lock(a)
  <2>1. Silent
    BY <1>0, <1>2 DEF Lock, ActorState
  <2> QED BY <2>1
<1>3. CASE Boot(a) \/ Sweep(a)
  <2>1. Silent
    BY <1>0, <1>3 DEF Boot, Sweep, Listing, ActorState
  <2> QED BY <2>1
<1>4. CASE Inspect(a)
  <2>1. Silent
    BY <1>0, <1>4 DEF Inspect, Judge, ActorState
  <2> QED BY <2>1
<1>5. CASE Restore(a) \/ RestoreReread(a) \/ Settle(a) \/ SettleFails(a)
  <2>1. Silent
    BY <1>5, MendStep
  <2> QED BY <2>1
<1>6. CASE SweepEnd(a)
  <2>1. Silent
    BY <1>0, <1>6 DEF SweepEnd, ActorState
  <2> QED BY <2>1
<1>7. CASE Check(a)
  <2>1. CASE Replays(a)
    BY <1>7, <2>1 DEF Check
  <2>2. CASE ~Replays(a)
    <3>1. Silent
      BY <1>0, <1>1, <1>7, <2>2 DEF Check, ActorState, Outcome
    <3> QED BY <3>1
  <2> QED BY <2>1, <2>2
<1>8. CASE Stage(a)
  <2>1. Silent
    BY <1>0, <1>8 DEF Stage, ActorState
  <2> QED BY <2>1
<1>9. CASE Prepare(a)
  <2>1. \/ \E r \in SameKey(a) : journal[r].state = "committed"
        \/ Return(a, "in-flight")
        \/ \E r \in Op : act' = [act EXCEPT ![a].pc = "comp", ![a].job = r,
                                            ![a].left = Targets(a), ![a].snap = journal[r]]
        \/ act' = [act EXCEPT ![a].pc = "open"]
    BY <1>9 DEF Prepare, OpenOps
  <2>2. ASSUME NEW r \in Op, act' = [act EXCEPT ![a].pc = "comp", ![a].job = r,
                                            ![a].left = Targets(a), ![a].snap = journal[r]]
        PROVE  Silent
    BY <1>0, <2>2 DEF ActorState
  <2>3. Return(a, "in-flight") \/ act' = [act EXCEPT ![a].pc = "open"] => Silent
    BY <1>0, <1>1 DEF Outcome, ActorState
  <2> QED BY <1>9, <2>1, <2>2, <2>3 DEF Prepare
<1>10. CASE OpenOp(a)
  <2>1. Silent
    BY <1>0, <1>10 DEF OpenOp, ActorState
  <2> QED BY <2>1
<1>11. CASE \/ Probe(a) \/ Write(a) \/ WriteFails(a) \/ WriteUnrecorded(a) \/ Verify(a)
            \/ Apply(a) \/ ApplyFails(a) \/ CommitFails(a)
  <2>1. Silent
    BY <1>11, WalkStep
  <2> QED BY <2>1
<1>12. CASE Commit(a)
  <2>1. Silent
    BY <1>0, <1>12 DEF Commit, ActorState
  <2> QED BY <2>1
<1>13. CASE Turn(a)
  <2>1. Silent
    BY <1>0, <1>13 DEF Turn, ActorState
  <2> QED BY <2>1
<1>14. CASE Compensate(a)
  <2>1. Silent
    BY <1>0, <1>14 DEF Compensate, ActorState
  <2> QED BY <2>1
<1>15. CASE Undo(a)
  <2>1. Silent
    BY <1>0, <1>15 DEF Undo, ActorState
  <2> QED BY <2>1
<1>16. CASE Reread(a)
  <2>1. Silent
    BY <1>0, <1>16 DEF Reread, ActorState
  <2> QED BY <2>1
<1>17. CASE \/ Compensated(a) \/ CompensatedFails(a) \/ TurnFails(a)
            \/ StageFails(a) \/ PrepareFails(a) \/ LockTimesOut(a) \/ OpenOpFails(a)
  <2>1. Silent
    BY <1>17, EndStep
  <2> QED BY <2>1
<1>18. CASE Close(a)
  BY <1>18 DEF Close
<1>19. CASE Conclude(a) \/ Cancel(a)
  <2>1. \E o \in {"stale", "failed-restored", "indeterminate", "cancelled"} : Return(a, o)
    BY <1>19 DEF Conclude, Cancel
  <2>2. Silent
    BY <1>1, <2>1 DEF Outcome
  <2> QED BY <2>2
<1> QED
  BY <1>2, <1>3, <1>4, <1>5, <1>6, <1>7, <1>8, <1>9, <1>10, <1>11, <1>12, <1>13, <1>14, <1>15,
     <1>16, <1>17, <1>18, <1>19 DEF Step, Fails

\* The commits of a plan for an owner: what the next one's key counts.  One that its run
\* still has in hand does not count: the run may yet take it back.
Commits(o, p) == {r \in Op : /\ journal[r].state = "committed"
                             /\ journal[r].owner = o /\ journal[r].plan = p
                             /\ \A a \in Actor : act[a].op # r}

\* Every key ever given out counts at most the commits there are, and the key of a
\* commit counts fewer: a run that counts them all never meets its own key committed.
Numbered ==
  \A r \in RecordedOps :
    LET n == Cardinality(Commits(journal[r].owner, journal[r].plan))
    IN  /\ journal[r].rev <= n
        /\ journal[r].state = "committed" /\ (\A a \in Actor : act[a].op # r)
             => journal[r].rev < n

Keyed(a) ==
  LET n == Cardinality(Commits(OwnerOf[a], act[a].plan))
  IN  /\ act[a].pc \in {"checked", "staged"} => act[a].rev = n
      /\ act[a].pc = "open" \/ (act[a].pc \in Undoing /\ act[a].job # 0) => act[a].rev <= n

\* A record keeps its owner, its plan and its key.
KeepsKeys ==
  \A r \in RecordedOps :
    \/ journal'[r] = NoRecord
    \/ /\ journal'[r].owner = journal[r].owner /\ journal'[r].plan = journal[r].plan
       /\ journal'[r].rev = journal[r].rev

\* A step that publishes one record, with the owner, plan and key the last one had.
LEMMA SameKeys ==
  ASSUME IInv, NEW r \in Op, journal[r] \in Record, NEW R \in Record,
         journal' = [journal EXCEPT ![r] = R],
         R.owner = journal[r].owner, R.plan = journal[r].plan, R.rev = journal[r].rev
  PROVE  KeepsKeys
<1>1. journal \in [Op -> Record \cup {NoRecord}]
  BY DEF IInv, TypeOK
<1>2. journal'[r] = R /\ \A q \in Op : q # r => journal'[q] = journal[q]
  BY <1>1
<1> QED BY <1>2 DEF KeepsKeys, RecordedOps

LEMMA KeysKept ==
  ASSUME IInv, UpToDate, ActorAssumption, NEW a \in Actor, Step(a) \/ Fails(a) \/ Cancel(a)
  PROVE  KeepsKeys
<1>0. /\ act[a] \in ActorState /\ Shaped(act[a]) /\ journal \in [Op -> Record \cup {NoRecord}]
      /\ Current(a)
  BY Local DEF IInv, TypeOK, UpToDate
<1>1. CASE journal' = journal
  BY <1>1 DEF KeepsKeys
<1>2. CASE CompactJournal
  BY <1>2 DEF CompactJournal, KeepsKeys, RecordedOps
<1>3. CASE Settle(a) \/ SettleFails(a)
  <2>1. act[a].job \in Op /\ act[a].snap = journal[act[a].job] /\ act[a].snap \in Record
        /\ act[a].verdict # "none"
    BY <1>0, <1>3 DEF Settle, SettleFails, Shaped, Recovering, ActorState, Current
  <2>2. /\ [act[a].snap EXCEPT !.note = act[a].note] \in Record
        /\ act[a].verdict # "unresolved" => [act[a].snap EXCEPT !.state = act[a].verdict] \in Record
    BY <1>0, <2>1, JobRewritten DEF ActorState, Terminal
  <2>3. \A R \in {[act[a].snap EXCEPT !.note = act[a].note], [act[a].snap EXCEPT !.state = act[a].verdict]} :
          R.owner = act[a].snap.owner /\ R.plan = act[a].snap.plan /\ R.rev = act[a].snap.rev
    BY <2>1 DEF Record
  <2>4. \/ journal' = journal
        \/ \E R \in Record : /\ journal' = [journal EXCEPT ![act[a].job] = R]
                             /\ R.owner = act[a].snap.owner /\ R.plan = act[a].snap.plan
                             /\ R.rev = act[a].snap.rev
    BY <1>3, <2>2, <2>3 DEF Settle, SettleFails, Verdicted
  <2> QED BY <1>1, <2>1, <2>4, SameKeys
<1>4. CASE Apply(a) \/ ApplyFails(a) \/ Commit(a) \/ CommitFails(a)
  <2>1. act[a].pc \in Stepping
    BY <1>4 DEF Apply, ApplyFails, Commit, CommitFails, Stepping
  <2>2. act[a].op \in Op /\ journal[act[a].op] \in Record
    BY <1>0, <2>1 DEF Shaped, ActorState, Current
  <2>3. \/ journal' = journal
        \/ \E x \in {"applying", "committed"} :
             journal' = [journal EXCEPT ![act[a].op] = [journal[act[a].op] EXCEPT !.state = x]]
    BY <1>4 DEF Apply, ApplyFails, Commit, CommitFails, PublishFails
  <2>4. \A x \in {"applying", "committed"} :
          LET R == [journal[act[a].op] EXCEPT !.state = x]
          IN  /\ R \in Record /\ R.owner = journal[act[a].op].owner
              /\ R.plan = journal[act[a].op].plan /\ R.rev = journal[act[a].op].rev
    BY <2>2 DEF Record, Open, Terminal
  <2> QED BY <1>1, <2>2, <2>3, <2>4, SameKeys
<1>5. CASE Compensated(a) \/ CompensatedFails(a)
  <2>1. act[a].pc = "comp"
    BY <1>5 DEF Compensated, CompensatedFails, Walked
  <2>2. PICK r \in Op : r = IF act[a].job = 0 THEN act[a].op ELSE act[a].job
    BY <1>0, <2>1 DEF Shaped, Undoing, ActorState
  <2>3. journal' \in {journal, [journal EXCEPT ![r] = Settled(a)]}
    BY <1>5, <2>2 DEF Compensated, CompensatedFails, PublishFails
  <2>4. journal[r] \in Record /\ Mine(a, journal[r])
    <3>1. CASE act[a].job = 0
      BY <1>0, <2>1, <2>2, <3>1 DEF Current, Shaped, Undoing
    <3>2. CASE act[a].job # 0
      BY <1>0, <2>1, <2>2, <3>2 DEF Current, Undoing, OpenOps, Open, NoRecord
    <3> QED BY <3>1, <3>2
  <2>5. Settled(a) \in Record /\ Mine(a, Settled(a))
    <3>1. CASE act[a].job = 0
      BY <2>2, <2>4, <3>1 DEF Settled, Record, Terminal, Mine
    <3>2. CASE act[a].job # 0
      BY <1>0, <2>1, <3>2 DEF Settled, Current, Shaped, Undoing, Record, Terminal, Mine
    <3> QED BY <3>1, <3>2
  <2> QED BY <1>1, <2>3, <2>4, <2>5, SameKeys DEF Mine
<1>6. CASE OpenOp(a) \/ OpenOpFails(a)
  <2>1. \A q \in Op : q # opCount + 1 => journal'[q] = journal[q]
    BY <1>0, <1>6 DEF OpenOp, OpenOpFails
  <2>2. opCount + 1 \notin RecordedOps
    BY DEF IInv, TypeOK, Live, NoRecord, RecordedOps, Op, BoundAssumption
  <2> QED BY <2>1, <2>2 DEF KeepsKeys, RecordedOps
<1>7. CASE (Prepare(a) \/ PrepareFails(a)) /\ journal' # journal
  <2>1. PICK r \in OpenOps :
          \/ journal' = [journal EXCEPT ![r].state = "compensating", ![r].note = {}]
          \/ journal' = [journal EXCEPT ![r] = [journal[r] EXCEPT !.state = "compensating", !.note = {}]]
    <3>1. CASE Prepare(a)
      BY <1>7, <3>1 DEF Prepare
    <3>2. CASE PrepareFails(a)
      BY <1>7, <3>2 DEF PrepareFails, Incomplete, First, PublishFails
    <3> QED BY <1>7, <3>1, <3>2
  <2>2. r \in Op /\ journal[r] \in Record /\ \A q \in Op : q # r => journal'[q] = journal[q]
    BY <1>0, <2>1 DEF OpenOps, NoRecord, Open
  <2>3. /\ journal'[r].owner = journal[r].owner /\ journal'[r].plan = journal[r].plan
        /\ journal'[r].rev = journal[r].rev
    BY <1>0, <2>1, <2>2 DEF Record
  <2> QED BY <2>2, <2>3 DEF KeepsKeys, RecordedOps
<1>8. CASE SweepEnd(a) \/ Close(a)
  BY <1>2, <1>8 DEF SweepEnd, Close
<1>9. CASE Turn(a) \/ TurnFails(a)
  <2>1. act[a].op \in Op /\ act[a].plan \in Plan
    BY <1>0, <1>9 DEF Turn, TurnFails, Shaped, ActorState, Recovering
  <2>2. journal[act[a].op] \in Record /\ Mine(a, journal[act[a].op])
    BY <1>0, <2>1 DEF Current, Op, BoundAssumption
  <2>3. Rec(a, "compensating") \in Record /\ Mine(a, Rec(a, "compensating"))
    BY <2>1, RecTyped DEF Rec, Mine, Open
  <2>4. journal' \in {journal, [journal EXCEPT ![act[a].op] = Rec(a, "compensating")]}
    BY <1>9 DEF Turn, TurnFails, PublishFails
  <2> QED BY <1>1, <2>1, <2>2, <2>3, <2>4, SameKeys DEF Mine
<1> QED
  BY <1>1, <1>3, <1>4, <1>5, <1>6, <1>7, <1>8, <1>9, QuietJournal
     DEF Step, Fails, Quiet, Boot, Sweep, Listing, Inspect, Stage, StageFails

\* Only the first publication of an operation makes a record where there was none.
LEMMA NewRecord ==
  ASSUME IInv, UpToDate, NEW a \in Actor, Step(a) \/ Fails(a) \/ Cancel(a),
         NEW r \in Op, r \notin RecordedOps, r \in RecordedOps'
  PROVE  (OpenOp(a) \/ OpenOpFails(a)) /\ r = opCount + 1
<1>0. journal[r].state = "none" /\ journal'[r].state # "none" /\ journal' # journal
  BY DEF RecordedOps
<1>1. ~CompactJournal
  <2>1. CompactJournal => journal'[r] \in {journal[r], NoRecord}
    BY DEF CompactJournal
  <2> QED BY <1>0, <2>1 DEF NoRecord
<1>2. \/ r \in {act[a].op, act[a].job} \/ r \in OpenOps
      \/ r = opCount + 1 /\ (OpenOp(a) \/ OpenOpFails(a))
  BY <1>0, <1>1, JournalMoves
<1>3. r # 0
  BY DEF Op, BoundAssumption
<1>4. r # act[a].op
  BY <1>0, <1>3 DEF UpToDate, Current, Record, Open, Terminal
<1>5. r # act[a].job /\ r \notin OpenOps
  BY <1>0, <1>3 DEF UpToDate, Current, OpenOps, Open
<1> QED BY <1>2, <1>4, <1>5

LEMMA CountNext ==
  ASSUME IInv, [Next]_vars
  PROVE  /\ opCount' \in {opCount, opCount + 1}
         /\ \A r \in RecordedOps : r <= opCount /\ r <= opCount'
<1>1. opCount' \in {opCount, opCount + 1}
  <2>1. ASSUME NEW a \in Actor, Step(a) \/ Fails(a) \/ Cancel(a) PROVE opCount' \in {opCount, opCount + 1}
    <3>1. CASE Quiet(a)
      BY <3>1 DEF Quiet, Lock, Restore, RestoreReread, Check, LockTimesOut, Probe, Write,
                  WriteFails, WriteUnrecorded, Verify, Compensate, Undo, Reread, Conclude, Cancel
    <3>2. CASE \/ Boot(a) \/ Sweep(a) \/ Inspect(a) \/ Settle(a) \/ SettleFails(a) \/ SweepEnd(a)
               \/ Stage(a) \/ StageFails(a) \/ Prepare(a) \/ PrepareFails(a)
      BY <3>2 DEF Boot, Sweep, Listing, Inspect, Settle, SettleFails, SweepEnd, Stage, StageFails,
                  Prepare, PrepareFails
    <3>3. CASE \/ Apply(a) \/ ApplyFails(a) \/ Commit(a) \/ CommitFails(a) \/ Close(a)
               \/ Turn(a) \/ TurnFails(a)
      BY <3>3 DEF Apply, ApplyFails, Commit, CommitFails, Close, Turn, TurnFails
    <3>4. CASE OpenOp(a) \/ OpenOpFails(a) \/ Compensated(a) \/ CompensatedFails(a)
      BY <3>4 DEF OpenOp, OpenOpFails, Compensated, CompensatedFails, Walked
    <3> QED BY <2>1, <3>1, <3>2, <3>3, <3>4 DEF Step, Fails, Quiet
  <2> QED BY <2>1 DEF Next, Begin, Crash, Edit, vars
<1>2. opCount \in Nat
  BY DEF IInv, TypeOK, BoundAssumption
<1>3. \A r \in RecordedOps : r <= opCount
  BY <1>2 DEF IInv, Live, RecordedOps, NoRecord, Op, BoundAssumption
<1>4. \A r \in RecordedOps : r \in Int
  BY DEF RecordedOps, Op, BoundAssumption
<1> QED BY <1>1, <1>2, <1>3, <1>4

\* No run gets an operation that was journaled before.
LEMMA NoneAdopted ==
  ASSUME IInv, [Next]_vars, NEW b \in Actor
  PROVE  act'[b].op \in {0, act[b].op} \/ act'[b].op = opCount + 1
<1>1. ASSUME NEW a \in Actor, Step(a) \/ Fails(a) \/ Cancel(a)
      PROVE  act'[b].op \in {0, act[b].op} \/ act'[b].op = opCount + 1
  BY <1>1, RunsOpened, StepOthers
<1>2. ASSUME NEW a \in Actor, NEW p \in Plan, Begin(a, p) PROVE act'[b].op \in {0, act[b].op}
  BY <1>2, Local DEF Begin, Idle
<1>3. ASSUME NEW p \in Proc, Crash(p) PROVE act'[b].op \in {0, act[b].op}
  BY <1>3 DEF Crash, Idle
<1> QED BY <1>1, <1>2, <1>3 DEF Next, Edit, vars

LEMMA CommitsTyped ==
  ASSUME NEW S \in SUBSET Op, NEW T \in SUBSET S
  PROVE  /\ Cardinality(S) \in Nat /\ Cardinality(T) \in Nat
         /\ Cardinality(T) <= Cardinality(S)
         /\ \A r \in S \ T : Cardinality(T) < Cardinality(S)
<1>1. IsFiniteSet(S) /\ IsFiniteSet(T)
  <2>1. IsFiniteSet(Op)
    BY BoundAssumption, FS_Interval DEF Op, BoundAssumption
  <2> QED BY <2>1, FS_Subset
<1>2. Cardinality(S) \in Nat /\ Cardinality(T) \in Nat /\ Cardinality(T) <= Cardinality(S)
  BY <1>1, FS_CardinalityType, FS_Subset
<1>3. ASSUME NEW r \in S \ T PROVE Cardinality(T) < Cardinality(S)
  <2>1. /\ Cardinality(S \ {r}) = Cardinality(S) - 1 /\ IsFiniteSet(S \ {r})
    BY <1>1, FS_RemoveElement
  <2>2. T \subseteq S \ {r}
    BY <1>3
  <2>3. Cardinality(T) <= Cardinality(S \ {r})
    BY <2>1, <2>2, FS_Subset
  <2> QED BY <1>2, <2>1, <2>3
<1> QED BY <1>2, <1>3

\* With nothing forgotten, commits only ever become more.
LEMMA CommitsGrow ==
  ASSUME IInv, UpToDate, [Next]_vars, Remembered', NEW o, NEW p
  PROVE  Commits(o, p) \subseteq Commits(o, p)'
<1>1. SUFFICES ASSUME NEW r \in Commits(o, p) PROVE r \in Commits(o, p)'
  OBVIOUS
<1>2. r \in TerminalOps /\ r \in RecordedOps /\ r \in Op /\ \A a \in Actor : act[a].op # r
  BY DEF Commits, TerminalOps, Terminal, RecordedOps
<1>3. journal'[r] \in {journal[r], NoRecord}
  BY <1>2, StaysStep DEF Stays
<1>4. journal'[r].state # "none" /\ r <= opCount
  BY <1>2, CountNext DEF Remembered
<1>5. journal'[r] = journal[r]
  BY <1>3, <1>4 DEF NoRecord
<1>6. r # 0 /\ r # opCount + 1
  BY <1>2, <1>4 DEF IInv, TypeOK, Op, BoundAssumption
<1>7. \A b \in Actor : act'[b].op # r
  BY <1>2, <1>6, NoneAdopted
<1> QED BY <1>5, <1>7 DEF Commits

LEMMA CommitsSame ==
  ASSUME journal' = journal, \A b \in Actor : act'[b].op = act[b].op, NEW o, NEW p
  PROVE  Commits(o, p)' = Commits(o, p)
BY DEF Commits

LEMMA NumberedStep ==
  ASSUME IInv, UpToDate, Numbered, Remembered', [Next]_vars, KeepsKeys,
         \A r \in RecordedOps' \ RecordedOps :
           \E a \in Actor : (OpenOp(a) \/ OpenOpFails(a)) /\ r = opCount + 1,
         \A a \in Actor : Keyed(a)
  PROVE  Numbered'
<1>1. SUFFICES ASSUME NEW r \in RecordedOps', NEW o, NEW p,
                      o = journal'[r].owner, p = journal'[r].plan
               PROVE  /\ journal'[r].rev <= Cardinality(Commits(o, p)')
                      /\ journal'[r].state = "committed" /\ (\A a \in Actor : act'[a].op # r)
                           => journal'[r].rev < Cardinality(Commits(o, p)')
  BY DEF Numbered, Commits
<1> DEFINE N == Commits(o, p)
           M == Commits(o, p)'
<1>2. r \in Op /\ journal'[r].state # "none"
  BY DEF RecordedOps
<1>3. N \subseteq M /\ M \subseteq Op
  BY CommitsGrow DEF Commits
<1>4. /\ Cardinality(N) \in Nat /\ Cardinality(M) \in Nat /\ Cardinality(N) <= Cardinality(M)
      /\ \A q \in M \ N : Cardinality(N) < Cardinality(M)
  <2> HIDE DEF N, M
  <2> QED BY <1>3, CommitsTyped
<1>5. CASE r \in RecordedOps
  <2>1. /\ journal'[r].owner = journal[r].owner /\ journal'[r].plan = journal[r].plan
        /\ journal'[r].rev = journal[r].rev
    BY <1>2, <1>5 DEF KeepsKeys, NoRecord
  <2>2. journal[r].rev \in Nat
    BY <1>5 DEF RecordedOps, NoRecord, IInv, TypeOK, Record
  <2> DEFINE Free == \A a \in Actor : act[a].op # r
             FreeNow == \A a \in Actor : act'[a].op # r
  <2>3. /\ journal[r].rev <= Cardinality(N)
        /\ journal[r].state = "committed" /\ Free => journal[r].rev < Cardinality(N)
    BY <1>1, <1>5, <2>1 DEF Numbered
  <2>4. journal'[r].state = "committed" /\ FreeNow => r \in M
    BY <1>1, <1>2 DEF Commits
  <2>5. r \in N => journal[r].state = "committed" /\ Free
    BY DEF Commits
  <2> HIDE DEF N, M, Free, FreeNow
  <2>6. journal'[r].rev <= Cardinality(M)
    BY <1>4, <2>1, <2>2, <2>3
  <2>7. journal'[r].state = "committed" /\ FreeNow => journal'[r].rev < Cardinality(M)
    <3>1. CASE r \in N
      BY <1>4, <2>1, <2>2, <2>3, <2>5, <3>1
    <3>2. CASE r \notin N
      BY <1>4, <2>1, <2>2, <2>3, <2>4, <3>2
    <3> QED BY <3>1, <3>2
  <2> QED BY <2>6, <2>7 DEF M, FreeNow
<1>6. CASE r \notin RecordedOps
  <2>1. PICK a \in Actor : (OpenOp(a) \/ OpenOpFails(a)) /\ r = opCount + 1
    BY <1>1, <1>6
  <2>2. /\ journal'[r] \in {Rec(a, "prepared"), journal[r]} /\ act[a].pc = "open"
    BY <1>1, <1>2, <2>1 DEF OpenOp, OpenOpFails, IInv, TypeOK
  <2>3. journal'[r] = Rec(a, "prepared")
    BY <1>2, <1>6, <2>2 DEF RecordedOps
  <2>4. /\ o = OwnerOf[a] /\ p = act[a].plan /\ journal'[r].rev = act[a].rev
        /\ journal'[r].state = "prepared"
    BY <1>1, <2>3 DEF Rec
  <2>5. act[a].rev <= Cardinality(N) /\ act[a].rev \in Nat
    BY <2>2, <2>4, Local DEF Keyed, ActorState
  <2> HIDE DEF N, M
  <2>6. journal'[r].rev <= Cardinality(M)
    BY <1>4, <2>4, <2>5
  <2> QED BY <2>4, <2>6 DEF M
<1> QED BY <1>5, <1>6

\* A run that revives its dead predecessor's operation, or has done so, keeps its key.
LEMMA KeyOpen ==
  ASSUME IInv, NEW a \in Actor, Prepare(a) \/ Compensated(a),
         act'[a].pc = "open" \/ act'[a].job # 0
  PROVE  /\ act'[a].plan = act[a].plan /\ act'[a].rev = act[a].rev
         /\ act[a].pc = "staged" \/ (act[a].pc \in Undoing /\ act[a].job # 0)
<1>0. act \in [Actor -> ActorState] /\ act[a] \in ActorState
  BY Local
<1>1. CASE Prepare(a)
  <2>1. \/ Return(a, "replayed") \/ Return(a, "in-flight")
        \/ \E r \in Op : act' = [act EXCEPT ![a].pc = "comp", ![a].job = r,
                                            ![a].left = Targets(a), ![a].snap = journal[r]]
        \/ act' = [act EXCEPT ![a].pc = "open"]
    BY <1>1 DEF Prepare, OpenOps
  <2>2. ~(Return(a, "replayed") \/ Return(a, "in-flight"))
    BY <1>0 DEF Return, Idle
  <2>3. ASSUME NEW r \in Op, act' = [act EXCEPT ![a].pc = "comp", ![a].job = r,
                                            ![a].left = Targets(a), ![a].snap = journal[r]]
        PROVE  act'[a].plan = act[a].plan /\ act'[a].rev = act[a].rev
    BY <1>0, <2>3 DEF ActorState
  <2>4. act' = [act EXCEPT ![a].pc = "open"]
          => act'[a].plan = act[a].plan /\ act'[a].rev = act[a].rev
    BY <1>0 DEF ActorState
  <2>5. act[a].pc = "staged"
    BY <1>1 DEF Prepare
  <2> QED BY <2>1, <2>2, <2>3, <2>4, <2>5
<1>2. CASE Compensated(a)
  <2>1. /\ act'[a].plan = act[a].plan /\ act'[a].rev = act[a].rev /\ act'[a].job = 0
        /\ act'[a].pc = "open" => act[a].job # 0
    BY <1>2, EndStep
  <2>2. act[a].pc = "comp"
    BY <1>2 DEF Compensated, Walked
  <2> QED BY <2>1, <2>2 DEF Undoing
<1> QED BY <1>1, <1>2

LEMMA KeyUndoing ==
  ASSUME IInv, IInv', NEW a \in Actor, Step(a) \/ Fails(a) \/ Cancel(a),
         act'[a].pc \in Undoing, act'[a].job # 0
  PROVE  /\ act'[a].plan = act[a].plan /\ act'[a].rev = act[a].rev
         /\ act[a].pc = "staged" \/ (act[a].pc \in Undoing /\ act[a].job # 0)
<1>0. act \in [Actor -> ActorState] /\ act[a] \in ActorState /\ Shaped(act[a])
  BY Local
<1>1. CASE Quiet(a)
  <2>1. NoMore(act[a], act'[a]) /\ act'[a].rev = act[a].rev
    BY <1>1, QuietRelies, QuietOwn
  <2>2. act[a].pc \in Writing /\ act'[a].plan = act[a].plan /\ act[a].job # 0
    BY <2>1 DEF NoMore, Writing
  <2> QED BY <1>0, <2>1, <2>2 DEF Shaped, Writing, Stepping, Undoing, Recovering
<1>2. CASE Boot(a) \/ Sweep(a)
  <2>1. act'[a].pc = "sweep"
    BY <1>0, <1>2 DEF Boot, Sweep, Listing, ActorState
  <2> QED BY <2>1 DEF Undoing
<1>9. CASE Settle(a) \/ SettleFails(a)
  <2>1. act'[a].pc \in {"restored", "settle", "restore", "sweep"}
    BY <1>9, MendStep
  <2> QED BY <2>1 DEF Undoing
<1>3. CASE Inspect(a)
  <2>1. act'[a].pc \in {"sweep", "settle", "restore"}
    BY <1>0, <1>3 DEF Inspect, Judge, ActorState
  <2> QED BY <2>1 DEF Undoing
<1>4. CASE SweepEnd(a)
  <2>1. act'[a].pc \in {"idle", "check"}
    BY <1>0, <1>4 DEF SweepEnd, ActorState
  <2> QED BY <2>1 DEF Undoing
<1>5. CASE Stage(a) \/ OpenOp(a)
  <2>1. act'[a].pc \in {"staged", "prepared"}
    BY <1>0, <1>5 DEF Stage, OpenOp, ActorState
  <2> QED BY <2>1 DEF Undoing
<1>6. CASE Prepare(a)
  BY <1>6, KeyOpen
<1>7. CASE Apply(a) \/ ApplyFails(a) \/ CommitFails(a)
  <2>1. act'[a].pc \in {"probe", "write", "verify", "threw"}
    BY <1>7, WalkStep
  <2> QED BY <2>1 DEF Undoing
<1>8. CASE Commit(a)
  <2>1. act'[a].pc = "committed"
    BY <1>0, <1>8 DEF Commit, ActorState
  <2> QED BY <2>1 DEF Undoing
<1>10. CASE Close(a)
  <2>1. act'[a].pc = "idle"
    BY <1>0, <1>10 DEF Close, Return, Idle
  <2> QED BY <2>1 DEF Undoing
<1>11. CASE Turn(a)
  <2>1. act'[a].job = 0
    BY <1>0, <1>11 DEF Turn, ActorState, Shaped, Undoing, Recovering
  <2> QED BY <2>1
<1>12. CASE \/ Compensated(a) \/ CompensatedFails(a) \/ TurnFails(a)
            \/ StageFails(a) \/ PrepareFails(a) \/ OpenOpFails(a)
  <2>1. act'[a].job = 0
    BY <1>12, EndStep
  <2> QED BY <2>1
<1> QED
  BY <1>1, <1>2, <1>3, <1>4, <1>5, <1>6, <1>7, <1>8, <1>9, <1>10, <1>11, <1>12
     DEF Step, Fails, Quiet

\* An actor that does not move keeps its key: nobody else is past its path locks.
LEMMA KeyedOthers ==
  ASSUME IInv, Alone, NEW b \in Actor, Keyed(b), act'[b] = act[b],
         journal' = journal \/ ~Engaged(b),
         \A c \in Actor : c # b /\ ~Engaged(c) => act'[c].op = act[c].op
  PROVE  Keyed(b)'
<1>1. CASE ~Engaged(b)
  BY <1>1 DEF Keyed, Engaged, Undoing
<1>2. CASE Engaged(b)
  <2>1. \A c \in Actor : act'[c].op = act[c].op
    BY <1>2 DEF Alone
  <2>2. Commits(OwnerOf[b], act[b].plan)' = Commits(OwnerOf[b], act[b].plan)
    <3>1. PICK p : p = act[b].plan
      OBVIOUS
    <3>2. Commits(OwnerOf[b], p)' = Commits(OwnerOf[b], p)
      BY <1>2, <2>1, CommitsSame
    <3>3. act'[b].plan = p
      BY <3>1
    <3>4. Commits(OwnerOf[b], act[b].plan)' = Commits(OwnerOf[b], p)'
      BY <3>3 DEF Commits
    <3> QED BY <3>1, <3>2, <3>4
  <2> QED BY <2>2 DEF Keyed
<1> QED BY <1>1, <1>2

\* A run that finds its predecessors committed counts them all: none is still in hand.
LEMMA PriorsCount ==
  ASSUME IInv, Alone, NEW a \in Actor, act[a].pc = "check"
  PROVE  Priors(a) = Commits(OwnerOf[a], act[a].plan)
<1>1. act[a].op = 0 /\ \A b \in Actor : b # a => act[b].op = 0
  BY Local, NotEngaged DEF Alone, Engaged, Shaped, Stepping, Undoing
<1>2. \A r \in Op : r # 0
  BY DEF Op, BoundAssumption
<1> QED BY <1>1, <1>2 DEF Priors, Commits

LEMMA KeyedStep ==
  ASSUME IInv, IInv', UpToDate, Alone, Remembered', [Next]_vars,
         NEW a \in Actor, Step(a) \/ Fails(a) \/ Cancel(a), \A b \in Actor : Keyed(b)
  PROVE  \A b \in Actor : Keyed(b)'
<1>0. act \in [Actor -> ActorState] /\ act[a] \in ActorState /\ Keyed(a)
  BY Local
<1>1. ASSUME NEW b \in Actor, b # a PROVE Keyed(b)'
  <2>1. \A c \in Actor : c # a => act'[c] = act[c]
    BY StepOthers
  <2>2. journal' = journal \/ ~Engaged(b)
    BY <1>1, JournalMoves DEF Alone
  <2>3. ~Engaged(a) => act'[a].op = act[a].op
    BY RunsOpened, NotEngaged DEF OpenOp, Engaged
  <2> QED BY <1>1, <2>1, <2>2, <2>3, KeyedOthers
<1>2. PICK p : p = act[a].plan
  OBVIOUS
<1> DEFINE n == Cardinality(Commits(OwnerOf[a], p))
           m == Cardinality(Commits(OwnerOf[a], p)')
<1>3. n \in Nat /\ m \in Nat /\ n <= m
  <2>1. Commits(OwnerOf[a], p) \subseteq Commits(OwnerOf[a], p)' /\ Commits(OwnerOf[a], p)' \subseteq Op
    BY CommitsGrow DEF Commits
  <2> QED BY <2>1, CommitsTyped
<1>4. act'[a].plan = p => Cardinality(Commits(OwnerOf[a], act[a].plan)') = m
  BY DEF Commits
<1>5. Cardinality(Commits(OwnerOf[a], act[a].plan)) = n
  BY <1>2
<1>6. journal' = journal /\ act'[a].op = act[a].op => m = n
  <2>1. act'[a].op = act[a].op => \A b \in Actor : act'[b].op = act[b].op
    BY StepOthers
  <2> QED BY <2>1, CommitsSame
<1> HIDE DEF n, m
<1>7. ASSUME act'[a].pc = "checked" PROVE Keyed(a)'
  <2>1. Check(a) /\ journal' = journal
    BY <1>7, PcAfter, QuietJournal DEF Quiet
  <2>2. act' = [act EXCEPT ![a].pc = "checked", ![a].rev = Cardinality(Priors(a))]
    BY <1>0, <1>7, <2>1 DEF Check, Return, Idle
  <2>3. /\ act'[a].rev = Cardinality(Priors(a)) /\ act'[a].plan = act[a].plan
        /\ act'[a].op = act[a].op
    BY <1>0, <2>2 DEF ActorState
  <2>4. Priors(a) = Commits(OwnerOf[a], act[a].plan)
    BY <2>1, PriorsCount DEF Check
  <2> QED BY <1>2, <1>4, <1>5, <1>6, <1>7, <2>1, <2>3, <2>4 DEF Keyed, Undoing
<1>8. ASSUME act'[a].pc = "staged" PROVE Keyed(a)'
  <2>1. Stage(a)
    BY <1>8, PcAfter
  <2>2. /\ journal' = journal /\ act[a].pc = "checked"
        /\ act'[a].rev = act[a].rev /\ act'[a].plan = act[a].plan /\ act'[a].op = act[a].op
    BY <1>0, <2>1 DEF Stage, ActorState
  <2> QED BY <1>0, <1>2, <1>4, <1>5, <1>6, <1>8, <2>2 DEF Keyed, Undoing
<1>9. ASSUME act'[a].pc = "open" \/ (act'[a].pc \in Undoing /\ act'[a].job # 0)
      PROVE  Keyed(a)'
  <2>1. /\ act'[a].plan = act[a].plan /\ act'[a].rev = act[a].rev
        /\ act[a].pc = "staged" \/ (act[a].pc \in Undoing /\ act[a].job # 0)
    BY <1>9, PcAfter, KeyOpen, KeyUndoing
  <2>2. act[a].rev <= n /\ act[a].rev \in Nat
    BY <1>0, <1>3, <1>5, <2>1 DEF Keyed, ActorState
  <2>3. act'[a].rev <= m
    BY <1>3, <2>1, <2>2
  <2> QED BY <1>2, <1>4, <1>9, <2>1, <2>3 DEF Keyed, Undoing
<1>10. ASSUME act'[a].pc \notin {"checked", "staged", "open"},
              act'[a].pc \in Undoing => act'[a].job = 0
       PROVE  Keyed(a)'
  BY <1>10 DEF Keyed
<1>11. Keyed(a)'
  BY <1>7, <1>8, <1>9, <1>10
<1> QED BY <1>1, <1>11

\* What a run goes by when it reports: the bytes it reread, and a key of its own.
Grounded == Numbered /\ \A a \in Actor : Verified(a) /\ Keyed(a)

EditorAwayStep == edits' # edits => \A a \in Actor : act[a].pc \notin {"verify", "committed"}

LEMMA GroundedStep ==
  ASSUME IInv, IInv', UpToDate, Alone, Remembered', Grounded, [Next]_vars, [EditorAwayStep]_vars
  PROVE  Grounded'
<1>1. CASE UNCHANGED vars
  BY <1>1 DEF vars, Grounded, Numbered, RecordedOps, Verified, Keyed, Commits, Targets, In, Class
<1>2. ASSUME NEW a \in Actor, Step(a) \/ Fails(a) \/ Cancel(a) PROVE Grounded'
  <2>1. Numbered'
    <3>1. KeepsKeys
      BY <1>2, KeysKept, ActorAssumption
    <3>2. \A r \in RecordedOps' \ RecordedOps : (OpenOp(a) \/ OpenOpFails(a)) /\ r = opCount + 1
      <4>1. \A r \in RecordedOps' : r \in Op
        BY DEF RecordedOps
      <4> QED BY <1>2, <4>1, NewRecord
    <3>3. Numbered /\ \A b \in Actor : Keyed(b)
      BY DEF Grounded
    <3> QED BY <3>1, <3>2, <3>3, NumberedStep
  <2> QED BY <1>2, <2>1, KeyedStep, VerifiedStep, PlanAssumption DEF Grounded
<1>3. ASSUME journal' = journal PROVE Numbered'
  BY <1>3, NumberedStep DEF Grounded, KeepsKeys, RecordedOps
<1>4. ASSUME NEW a \in Actor, NEW p \in Plan, Begin(a, p) PROVE Grounded'
  <2>1. /\ act'[a].pc = "lock" /\ act'[a].op = 0 /\ act[a].pc = "idle"
        /\ \A b \in Actor : b # a => act'[b] = act[b]
        /\ journal' = journal /\ disk' = disk
    BY <1>4, Local DEF Begin, Idle
  <2>2. act[a].op = 0
    BY <2>1, NotEngaged DEF Engaged
  <2>3. \A b \in Actor : act'[b] = act[b] => Keyed(b)'
    BY <2>1, <2>2, KeyedOthers DEF Grounded
  <2>4. \A b \in Actor : act'[b] = act[b] \/ act'[b].pc = "lock"
    BY <2>1
  <2>5. \A b \in Actor : (Verified(b) /\ Keyed(b))'
    BY <2>1, <2>3, <2>4 DEF Grounded, Verified, Keyed, Targets, In, Class, Undoing
  <2> QED BY <1>3, <2>1, <2>5 DEF Grounded
<1>5. ASSUME NEW p \in Proc, Crash(p) PROVE Grounded'
  <2>1. /\ \A a \in Actor : act'[a] = IF ProcOf[a] = p THEN Idle ELSE act[a]
        /\ journal' = journal /\ disk' = disk
    BY <1>5 DEF Crash
  <2>2. \A b \in Actor : act'[b] = act[b] \/ act'[b].pc = "idle"
    BY <2>1 DEF Idle
  <2>3. \A b \in Actor : ~Engaged(b) => act'[b].op = act[b].op
    BY <2>1, NotEngaged DEF Idle
  <2>4. \A b \in Actor : act'[b] = act[b] => Keyed(b)'
    BY <2>1, <2>3, KeyedOthers DEF Grounded
  <2>5. \A b \in Actor : (Verified(b) /\ Keyed(b))'
    BY <2>1, <2>2, <2>4 DEF Grounded, Verified, Keyed, Targets, In, Class, Undoing
  <2> QED BY <1>3, <2>1, <2>5 DEF Grounded
<1>6. ASSUME NEW f \in File, NEW c \in EditorContent, Edit(f, c) PROVE Grounded'
  <2>1. act' = act /\ journal' = journal /\ edits' # edits
    BY <1>6 DEF Edit, IInv, TypeOK
  <2>2. \A a \in Actor : act[a].pc \notin {"verify", "committed"}
    BY <2>1 DEF EditorAwayStep, vars
  <2>3. \A b \in Actor : (Verified(b) /\ Keyed(b))'
    BY <2>1, <2>2 DEF Grounded, Verified, Keyed, Commits
  <2> QED BY <1>3, <2>1, <2>3 DEF Grounded
<1> QED BY <1>1, <1>2, <1>4, <1>5, <1>6 DEF Next

\* A run that returns committed has reread every target as planned, and one that returns
\* replayed has too: with its key counted from the journal it never meets its own key
\* committed, the one answer that is given without reading a file.  The hypotheses are
\* those under which it holds: runs and recoveries that do not overlap, a journal that
\* has not yet forgotten a commit (compaction frees its key: see the run
\* changeset_replay), and no edit between the last reread and the report.
THEOREM ReportsHold == Spec /\ []Alone /\ []Remembered /\ EditorAway => ReportedMeansPlanned
<1> DEFINE Honest == \A a \in Actor :
                       act'[a].outcome \in {"committed", "replayed"} /\ act[a].outcome = "none"
                       => In(act[a].plan, "planned") = DOMAIN act[a].plan
<1>1. Init => Grounded
  <2>1. SUFFICES ASSUME Init PROVE Grounded
    OBVIOUS
  <2>2. RecordedOps = {} /\ \A a \in Actor : act[a].pc = "idle"
    BY <2>1 DEF Init, RecordedOps, NoRecord, Idle
  <2> QED BY <2>2 DEF Grounded, Numbered, Verified, Keyed, Undoing
<1>2. IInv /\ Alone /\ Grounded /\ [Next]_vars => Honest
  <2>1. SUFFICES ASSUME IInv, Alone, Grounded, [Next]_vars, NEW a \in Actor,
                        act'[a].outcome \in {"committed", "replayed"}, act[a].outcome = "none"
                 PROVE  In(act[a].plan, "planned") = DOMAIN act[a].plan
    OBVIOUS
  <2>2. act'[a] # act[a]
    BY <2>1
  <2>3. Step(a) \/ Fails(a) \/ Cancel(a)
    <3>1. ~UNCHANGED vars
      BY <2>2 DEF vars
    <3>2. ASSUME NEW b \in Actor, Step(b) \/ Fails(b) \/ Cancel(b) PROVE b = a
      BY <2>1, <2>2, <3>2, StepOthers
    <3>3. ASSUME NEW b \in Actor, NEW p \in Plan, Begin(b, p) PROVE FALSE
      <4>1. act'[b].outcome = "none" /\ \A c \in Actor : c # b => act'[c] = act[c]
        BY <2>1, <3>3, Local DEF Begin, Idle
      <4> QED BY <2>1, <2>2, <4>1
    <3>4. ASSUME NEW p \in Proc, Crash(p) PROVE FALSE
      BY <2>1, <2>2, <3>4 DEF Crash, Idle
    <3>5. ASSUME NEW f \in File, NEW c \in EditorContent, Edit(f, c) PROVE FALSE
      BY <2>2, <3>5 DEF Edit
    <3> QED BY <2>1, <3>1, <3>2, <3>3, <3>4, <3>5 DEF Next
  <2>4. \/ act[a].pc = "committed"
        \/ Replays(a)
        \/ act[a].pc = "staged" /\ \E r \in SameKey(a) : journal[r].state = "committed"
    BY <2>1, <2>3, Reports
  <2>5. CASE act[a].pc = "committed"
    BY <2>1, <2>5 DEF Grounded, Verified
  <2>6. CASE Replays(a)
    <3>1. act[a].plan \in Plan
      <4>1. PICK r \in Op : journal[r].state = "committed" /\ journal[r].plan = act[a].plan
        BY <2>6 DEF Replays, Priors
      <4> QED BY <2>1, <4>1 DEF IInv, TypeOK, NoRecord, Record
    <3> QED BY <2>6, <3>1, PlanAssumption DEF Replays, Targets, PlanAssumption
  <2>7. ASSUME act[a].pc = "staged", NEW r \in SameKey(a), journal[r].state = "committed"
        PROVE  FALSE
    <3> DEFINE n == Cardinality(Commits(OwnerOf[a], act[a].plan))
    <3>1. r \in RecordedOps /\ journal[r].rev = act[a].rev
          /\ journal[r].owner = OwnerOf[a] /\ journal[r].plan = act[a].plan
      BY DEF SameKey, RecordedOps
    <3>5. \A b \in Actor : act[b].op # r
      <4>1. act[a].op = 0 /\ \A b \in Actor : b # a => act[b].op = 0
        BY <2>1, <2>7, Local, NotEngaged DEF Alone, Engaged, Shaped, Stepping, Undoing
      <4> QED BY <3>1, <4>1 DEF RecordedOps, Op, BoundAssumption
    <3>2. act[a].rev < n
      BY <2>1, <2>7, <3>1, <3>5 DEF Grounded, Numbered
    <3>3. act[a].rev = n
      BY <2>1, <2>7 DEF Grounded, Keyed
    <3>4. act[a].rev \in Nat
      BY <2>1, Local DEF ActorState
    <3> HIDE DEF n
    <3> QED BY <3>2, <3>3, <3>4
  <2> QED BY <2>4, <2>5, <2>6, <2>7
<1>3. IInv /\ IInv' /\ UpToDate /\ Alone /\ Remembered' /\ Grounded /\ [Next]_vars
        /\ [EditorAwayStep]_vars => Grounded'
  BY GroundedStep
<1> QED BY <1>1, <1>2, <1>3, UpToDateInvariant, Invariance, PTL
        DEF Spec, EditorAway, EditorAwayStep, ReportedMeansPlanned
==============================================================================
