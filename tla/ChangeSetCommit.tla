--------------------------- MODULE ChangeSetCommit ---------------------------
(***************************************************************************)
(* The multi-file text commit shared by the ChangeSet tool, the Structure  *)
(* planner, LSP workspace edits and /rewind                                *)
(* (services/changeTransaction/changeSetCommit.ts), on top of the durable  *)
(* operation journal (substrate/operationJournal.ts).                      *)
(*                                                                         *)
(* An actor is one thread of control of one process: a call of             *)
(* runTextChangeSetCommit, or the boot recovery pass.  Actors of a process *)
(* share its path locks, its journal chain and its set of live operations; *)
(* processes share the disk: the target files, the journal, the bundles.   *)
(* An editor outside the program writes the target files as it likes.      *)
(*                                                                         *)
(* A file's bytes are one Content; a digest is the content it digests.  A  *)
(* plan gives each of its target files the content it was planned from and *)
(* the content it is to have; Absent before is a "create" target, Absent   *)
(* after a "delete" target, neither a "write" target.                      *)
(***************************************************************************)
EXTENDS Integers, FiniteSets

CONSTANTS
  File,            \* target paths; the order of the numbers is their sort order
  Content,         \* file contents, Absent included
  Absent,          \* the content of a path that does not exist
  Plan,            \* plans: functions from target files to [from, to]
  NoPlan,
  Actor, Proc, Owner,
  ProcOf, OwnerOf, \* the process an actor runs in, the owner it commits for
  Dead,            \* the writer of an operation whose process is gone
  InitDisk,
  EditorContent,   \* what the outside editor may write
  MaxOps,          \* bound: operations ever journaled
  MaxCrashes,      \* bound: process deaths
  MaxFaults,       \* bound: failing renames, unlinks, restores and publications
  MaxEdits,        \* bound: outside edits
  EditorInWindow,  \* may the editor hit between one path's probe and its write
  VerdictFails,    \* may recovery fail to publish its verdict
  KeepTerminal,    \* KEEP_TERMINAL_OPS
  KeepBundles      \* CHANGESET_BOUNDS.bundleKeepTerminal

Op == 1 .. MaxOps  \* operations, in the order of their createdAt

ASSUME FileAssumption == File \subseteq Nat /\ IsFiniteSet(File)
ASSUME ContentAssumption == Absent \in Content /\ EditorContent \subseteq Content
ASSUME PlanAssumption ==
  /\ IsFiniteSet(Plan) /\ NoPlan \notin Plan
  /\ \A p \in Plan : /\ DOMAIN p \subseteq File /\ DOMAIN p # {}
                     /\ \A f \in DOMAIN p : /\ p[f].from \in Content
                                            /\ p[f].to \in Content
                                            /\ p[f].from # p[f].to
ASSUME ActorAssumption ==
  IsFiniteSet(Actor) /\ ProcOf \in [Actor -> Proc] /\ OwnerOf \in [Actor -> Owner] /\ Dead \notin Proc
ASSUME DiskAssumption == InitDisk \in [File -> Content]
ASSUME BoundAssumption ==
  /\ {MaxOps, MaxCrashes, MaxFaults, MaxEdits, KeepTerminal, KeepBundles} \subseteq Nat
  /\ EditorInWindow \in BOOLEAN /\ VerdictFails \in BOOLEAN

VARIABLES
  disk,     \* the target files
  journal,  \* op-<id>.json: the record of each operation
  opCount,  \* operations journaled so far
  writer,   \* the process whose pid an operation's record carries
  temps,    \* staged temps of a journaled operation still beside their targets
  bundle,   \* a plan's saved originals: 0 none, else its rank by mtime, 1 newest
  act,      \* the actors
  ahead,    \* per actor: who took a slot before it on the path whose lock it waits for
  booted,   \* has the process run its boot recovery
  crashes, faults, edits

vars == <<disk, journal, opCount, writer, temps, bundle, act, ahead, booted, crashes, faults, edits>>

------------------------------------------------------------------------------
(* Records *)

PC == {"idle", "lock", "start", "sweep", "restore", "restored", "settle", "check", "checked",
       "staged", "open", "prepared", "probe", "write", "verify", "threw", "comp", "undo", "reread",
       "committed", "failed"}
Outcome == {"none", "committed", "replayed", "stale", "cancelled", "in-flight",
            "failed-restored", "indeterminate"}

Open     == {"prepared", "applying", "compensating"}
Terminal == {"committed", "aborted"}
NoRecord == [state |-> "none"]

Record == [owner : Owner, plan : Plan, rev : Nat, state : Open \cup Terminal,
           note : SUBSET File]

\* OpenOps as it would be if the walker did not skip terminal records.
RecordedOps == {r \in Op : journal[r].state # "none"}

\* Operations with a record that is not terminal, and with one that is.
OpenOps     == {r \in Op : journal[r].state \in Open}
TerminalOps == {r \in Op : journal[r].state \in Terminal}

ActorState == [pc : PC, plan : Plan \cup {NoPlan}, rev : Nat, left : SUBSET File,
               op : {0} \cup Op, job : {0} \cup Op, seen : SUBSET (Op \X Record),
               snap : Record \cup {NoRecord}, staged : SUBSET File,
               verdict : {"none", "committed", "aborted", "unresolved"},
               note : SUBSET File, drift : SUBSET File, bad : BOOLEAN, outcome : Outcome]

Idle == [pc |-> "idle", plan |-> NoPlan, rev |-> 0, left |-> {}, op |-> 0, job |-> 0,
         seen |-> {}, snap |-> NoRecord, staged |-> {}, verdict |-> "none",
         note |-> {}, drift |-> {}, bad |-> FALSE, outcome |-> "none"]

Targets(a) == IF act[a].plan = NoPlan THEN {} ELSE DOMAIN act[a].plan

\* The record of a run's own operation, as the run publishes it.
Rec(a, state) == [owner |-> OwnerOf[a], plan |-> act[a].plan, rev |-> act[a].rev,
                  state |-> state, note |-> {}]

First(S, f) == f \in S /\ \A g \in S : f <= g
Final(S, f) == f \in S /\ \A g \in S : g <= f

\* classifyDiskState, the three kinds of target at once.
Class(p, f, c) == IF c = p[f].from THEN "original"
                  ELSE IF c = p[f].to THEN "planned" ELSE "other"

In(p, class) == {f \in DOMAIN p : Class(p, f, disk[f]) = class}

\* What a run stages a temp for.
Staged(p) == {f \in DOMAIN p : p[f].to # Absent}

\* Pcs inside runJournaledOperation, and those that hold the journal's lock.
JournalPc == {"open", "prepared", "probe", "write", "verify", "threw", "comp", "undo", "reread"}
Preparing(a) == act[a].pc = "open" \/ (act[a].pc \in {"comp", "undo", "reread"} /\ act[a].job # 0)

Peers(a) == {b \in Actor \ {a} : ProcOf[b] = ProcOf[a]}

\* Paths whose lock an actor holds: all from the lock loop's end to the release.
Held(a) == IF act[a].pc = "lock" THEN Targets(a) \ act[a].left ELSE Targets(a)

\* The next path in order, and as it would be if files to be created were locked first.
NextPathNewFirst(p, S, f) ==
  IF \E g \in S : p[g].from = Absent THEN f \in S /\ p[f].from = Absent ELSE First(S, f)
NextPath(p, S, f) == First(S, f)

\* The path an actor's lock loop awaits, and the paths on whose chain it has a slot; with
\* its mutant: as it would be if the slot was taken behind the await.
Awaits(a)     == {f \in act[a].left : act[a].pc = "lock" /\ NextPath(act[a].plan, act[a].left, f)}
InLineLate(a) == Held(a)
InLine(a)     == Held(a) \cup Awaits(a)

\* Who has a slot on the next path of S, when a run of a with plan p comes to take its own.
Before(a, p, S) == {b \in Peers(a) : \E f \in InLine(b) : NextPath(p, S, f)}

\* Its faults: the live set never asked, only the live set asked, a dead pid trusted.
WriterAliveByPid(a, r)  == writer[r] \notin {Dead, ProcOf[a]}
WriterAliveHere(a, r)   == \E b \in Peers(a) \cup {a} : act[b].op = r
WriterAliveOnPaper(a, r) == WriterAliveHere(a, r) \/ writer[r] # ProcOf[a]

\* isJournalWriterAlive, asked by actor a about operation r.
WriterAlive(a, r) ==
  \/ \E b \in Peers(a) \cup {a} : act[b].op = r
  \/ writer[r] # Dead /\ writer[r] # ProcOf[a]

------------------------------------------------------------------------------
(* Compaction of the journal and of the bundles *)

CompactJournal ==
  journal' = [r \in Op |->
    IF r \in TerminalOps /\ Cardinality({s \in TerminalOps : s > r}) >= KeepTerminal
    THEN NoRecord ELSE journal[r]]

NewerIn(S, p) == {q \in S : bundle[q] > 0 /\ bundle[q] < bundle[p]}

\* CompactBundles as it would be if it went by age alone.
CompactBundlesByAge ==
  bundle' = [p \in Plan |->
    IF Cardinality(NewerIn(Plan, p)) < KeepBundles THEN bundle[p] ELSE 0]

CompactBundles ==
  LET live == {journal[r].plan : r \in OpenOps}
  IN  bundle' = [p \in Plan |->
        IF p \in live \/ Cardinality(NewerIn(Plan \ live, p)) < KeepBundles
        THEN bundle[p] ELSE 0]

WriteBundle(p) ==
  bundle' = [q \in Plan |->
    IF q = p THEN 1
    ELSE IF bundle[q] = 0 THEN 0 ELSE 2 + Cardinality(NewerIn(Plan \ {p}, q))]

------------------------------------------------------------------------------
(* runTextChangeSetCommit: locks, checks, staging *)

\* The run returns: outcome, and every lock released.
Return(a, outcome) ==
  /\ act' = [act EXCEPT ![a] = [Idle EXCEPT !.outcome = outcome]]
  /\ ahead' = [b \in Actor |-> IF b = a THEN {} ELSE ahead[b] \ {a}]

\* At most MaxOps operations: a run starts only while one is left for it.
InRun(b) == act[b].plan # NoPlan /\ act[b].op = 0
           /\ act[b].pc \notin {"failed", "committed"}

\* The run takes its slot on the first path before it awaits anything.
Begin(a, p) ==
  /\ act[a].pc = "idle"
  /\ opCount + Cardinality({b \in Actor : InRun(b)}) < MaxOps
  /\ act' = [act EXCEPT ![a] = [Idle EXCEPT !.pc = "lock", !.plan = p, !.left = DOMAIN p]]
  /\ ahead' = [ahead EXCEPT ![a] = Before(a, p, DOMAIN p)]
  /\ UNCHANGED <<disk, journal, opCount, writer, temps, bundle, booted, crashes, faults, edits>>

\* Every slot before its own is released: the path is locked, and the slot on the next is
\* taken before anything else is awaited.
Lock(a) ==
  /\ act[a].pc = "lock" /\ ahead[a] = {}
  /\ \E f \in act[a].left :
       /\ NextPath(act[a].plan, act[a].left, f)
       /\ act' = [act EXCEPT ![a].left = @ \ {f},
                             ![a].pc = IF act[a].left = {f} THEN "start" ELSE "lock"]
       /\ ahead' = [ahead EXCEPT ![a] = Before(a, act[a].plan, act[a].left \ {f})]
  /\ UNCHANGED <<disk, journal, opCount, writer, temps, bundle, booted, crashes, faults, edits>>

\* The three places where the run looks at its abort signal.
Cancel(a) ==
  /\ act[a].pc \in {"start", "checked", "staged"}
  /\ Return(a, "cancelled")
  /\ UNCHANGED <<disk, journal, opCount, writer, temps, bundle, booted, crashes, faults, edits>>

\* Commits of the same plan for the same owner that the journal still holds.
Priors(a) == {r \in Op : /\ journal[r].state = "committed"
                         /\ journal[r].owner = OwnerOf[a]
                         /\ journal[r].plan = act[a].plan}

\* Replays as it would be if the journal was believed and the files not read.
ReplaysByRecord(a) == Priors(a) # {}
Replays(a)         == Priors(a) # {} /\ In(act[a].plan, "planned") = Targets(a)

\* Fresh as it would be if it let through whatever a half-done set left behind.
FreshOrPlanned(a) == In(act[a].plan, "other") = {}
Fresh(a)          == In(act[a].plan, "original") = Targets(a)

\* Current bytes and prior commits decide: replayed, stale, or go on under key #rev.
Check(a) ==
  /\ act[a].pc = "check"
  /\ \/ Replays(a) /\ Return(a, "replayed")
     \/ ~Replays(a) /\ ~Fresh(a) /\ Return(a, "stale")
     \/ /\ ~Replays(a) /\ Fresh(a)
        /\ act' = [act EXCEPT ![a].pc = "checked", ![a].rev = Cardinality(Priors(a))]
        /\ UNCHANGED ahead
  /\ UNCHANGED <<disk, journal, opCount, writer, temps, bundle, booted, crashes, faults, edits>>

\* Originals into the bundle, planned bytes into temps beside the targets.
Stage(a) ==
  /\ act[a].pc = "checked"
  /\ WriteBundle(act[a].plan)
  /\ act' = [act EXCEPT ![a].pc = "staged", ![a].staged = Staged(act[a].plan)]
  /\ UNCHANGED <<disk, journal, opCount, writer, temps, ahead, booted, crashes, faults, edits>>

Fault == faults < MaxFaults /\ faults' = faults + 1

\* The listing of the journal, the bundle or a temp fails: nothing is journaled.
StageFails(a) ==
  /\ act[a].pc \in {"check", "checked"} /\ Fault
  /\ \/ UNCHANGED bundle
     \/ act[a].pc = "checked" /\ WriteBundle(act[a].plan)
  /\ act' = [act EXCEPT ![a].pc = "failed"]
  /\ UNCHANGED <<disk, journal, opCount, writer, temps, ahead, booted, crashes, edits>>

------------------------------------------------------------------------------
(* runJournaledOperation: prepare *)

SameKey(a) == {r \in Op : /\ journal[r].state # "none"
                          /\ journal[r].owner = OwnerOf[a]
                          /\ journal[r].plan = act[a].plan
                          /\ journal[r].rev = act[a].rev}

\* publishOp rejects: before its rename, or in the flush behind it.
PublishFails(r, rec) == Fault /\ journal' \in {journal, [journal EXCEPT ![r] = rec]}

\* The first operation of the run's key that is not settled, if the lock is the run's.
Incomplete(a, r) ==
  /\ act[a].pc = "staged"
  /\ \A b \in Peers(a) : act[b].pc \notin JournalPc
  /\ \A b \in Actor \ {a} : ~Preparing(b)
  /\ \A q \in SameKey(a) : journal[q].state # "committed"
  /\ First(SameKey(a) \cap OpenOps, r)

\* Enter the chain and the journal lock and look the idempotency key up.
Prepare(a) ==
  LET committed  == {r \in SameKey(a) : journal[r].state = "committed"}
      incomplete == SameKey(a) \cap OpenOps
  IN  /\ act[a].pc = "staged"
      /\ \A b \in Peers(a) : act[b].pc \notin JournalPc
      /\ \A b \in Actor \ {a} : ~Preparing(b)
      /\ \/ /\ committed # {}
            /\ Return(a, "replayed")
            /\ UNCHANGED journal
         \/ \E r \in incomplete :
            /\ committed = {} /\ First(incomplete, r)
            /\ WriterAlive(a, r)
            /\ Return(a, "in-flight")
            /\ UNCHANGED journal
         \/ \E r \in incomplete :
            /\ committed = {} /\ First(incomplete, r)
            /\ ~WriterAlive(a, r)
            /\ journal' = [journal EXCEPT ![r].state = "compensating", ![r].note = {}]
            /\ act' = [act EXCEPT ![a].pc = "comp", ![a].job = r, ![a].left = Targets(a),
                                  ![a].snap = journal[r]]
            /\ UNCHANGED ahead
         \/ /\ committed = {} /\ incomplete = {}
            /\ act' = [act EXCEPT ![a].pc = "open"]
            /\ UNCHANGED <<journal, ahead>>
      /\ UNCHANGED <<disk, opCount, writer, temps, bundle, booted, crashes, faults, edits>>

\* The record of the dead operation cannot be published: the run fails before it began.
PrepareFails(a) ==
  /\ \E r \in Op : /\ Incomplete(a, r) /\ ~WriterAlive(a, r)
                   /\ PublishFails(r, [journal[r] EXCEPT !.state = "compensating", !.note = {}])
  /\ act' = [act EXCEPT ![a].pc = "failed", ![a].staged = {}]
  /\ UNCHANGED <<disk, opCount, writer, temps, bundle, ahead, booted, crashes, edits>>

\* The journal lock stays held elsewhere through every retry: the run fails before it began.
LockTimesOut(a) ==
  /\ act[a].pc = "staged"
  /\ \A b \in Peers(a) : act[b].pc \notin JournalPc
  /\ \E b \in Actor \ {a} : Preparing(b)
  /\ act' = [act EXCEPT ![a].pc = "failed", ![a].staged = {}]
  /\ UNCHANGED <<disk, journal, opCount, writer, temps, bundle, ahead, booted, crashes, faults, edits>>

\* The prepared record is published; the operation is live in this process.
OpenOp(a) ==
  LET r == opCount + 1
  IN  /\ act[a].pc = "open"
      /\ r \in Op
      /\ opCount' = r
      /\ journal' = [journal EXCEPT ![r] = Rec(a, "prepared")]
      /\ writer' = [writer EXCEPT ![r] = ProcOf[a]]
      /\ temps' = [temps EXCEPT ![r] = act[a].staged]
      /\ act' = [act EXCEPT ![a].pc = "prepared", ![a].op = r, ![a].staged = {}]
      /\ UNCHANGED <<disk, bundle, ahead, booted, crashes, faults, edits>>

\* It is not, or it is and the flush behind its rename failed: it is not live, the temps go.
OpenOpFails(a) ==
  LET r == opCount + 1
  IN  /\ act[a].pc = "open" /\ Fault
      /\ \/ UNCHANGED <<opCount, journal, writer>>
         \/ /\ r \in Op
            /\ opCount' = r
            /\ journal' = [journal EXCEPT ![r] = Rec(a, "prepared")]
            /\ writer' = [writer EXCEPT ![r] = ProcOf[a]]
      /\ act' = [act EXCEPT ![a].pc = "failed", ![a].staged = {}]
      /\ UNCHANGED <<disk, temps, bundle, ahead, booted, crashes, edits>>

------------------------------------------------------------------------------
(* runJournaledOperation: the steps *)

\* A step throws, or the publication of its result does.
Throw(a, drifted) ==
  act' = [act EXCEPT ![a].pc = "threw", ![a].left = Targets(a), ![a].drift = drifted]

Apply(a) ==
  /\ act[a].pc = "prepared"
  /\ journal' = [journal EXCEPT ![act[a].op].state = "applying"]
  /\ act' = [act EXCEPT ![a].pc = "probe", ![a].left = Targets(a)]
  /\ UNCHANGED <<disk, opCount, writer, temps, bundle, ahead, booted, crashes, faults, edits>>

ApplyFails(a) ==
  /\ act[a].pc = "prepared"
  /\ PublishFails(act[a].op, [journal[act[a].op] EXCEPT !.state = "applying"])
  /\ Throw(a, {})
  /\ UNCHANGED <<disk, opCount, writer, temps, bundle, ahead, booted, crashes, edits>>

\* Drifted as it would be if a path to be created was taken to be free.
DriftedUnlessNew(a, f) == f \in In(act[a].plan, "other") /\ act[a].plan[f].from # Absent
Drifted(a, f)          == f \in In(act[a].plan, "other")

\* commit-i, first half: the bytes must still be the original (or already planned).
Probe(a) ==
  /\ act[a].pc = "probe"
  /\ \E f \in act[a].left :
       /\ First(act[a].left, f)
       /\ \/ Drifted(a, f) /\ Throw(a, {f})
          \/ ~Drifted(a, f) /\ act' = [act EXCEPT ![a].pc = "write"]
  /\ UNCHANGED <<disk, journal, opCount, writer, temps, bundle, ahead, booted, crashes, faults, edits>>

\* commit-i, second half: the temp renamed over the target, or the target unlinked.
CanWrite(a, f) == IF act[a].plan[f].to = Absent THEN disk[f] # Absent
                  ELSE f \in temps[act[a].op]

Put(a, f) ==
  /\ First(act[a].left, f)
  /\ CanWrite(a, f)
  /\ disk' = [disk EXCEPT ![f] = act[a].plan[f].to]
  /\ temps' = [temps EXCEPT ![act[a].op] = @ \ {f}]

Write(a) ==
  /\ act[a].pc = "write"
  /\ \E f \in act[a].left :
       /\ Put(a, f)
       /\ act' = [act EXCEPT ![a].pc = IF act[a].left = {f} THEN "verify" ELSE "probe",
                             ![a].left = IF @ = {f} THEN Targets(a) ELSE @ \ {f}]
  /\ UNCHANGED <<journal, opCount, writer, bundle, ahead, booted, crashes, faults, edits>>

WriteFails(a) ==
  /\ act[a].pc = "write"
  /\ \/ /\ \E f \in act[a].left : First(act[a].left, f) /\ ~CanWrite(a, f)
        /\ UNCHANGED faults
     \/ Fault
  /\ Throw(a, {})
  /\ UNCHANGED <<disk, journal, opCount, writer, temps, bundle, ahead, booted, crashes, edits>>

\* The bytes are in place and the step's result cannot be published.
WriteUnrecorded(a) ==
  /\ act[a].pc = "write" /\ Fault
  /\ \E f \in act[a].left : Put(a, f)
  /\ Throw(a, {})
  /\ UNCHANGED <<journal, opCount, writer, bundle, ahead, booted, crashes, edits>>

\* The verify step rereads every target.
Verify(a) ==
  /\ act[a].pc = "verify"
  /\ \E f \in act[a].left :
       /\ First(act[a].left, f)
       /\ \/ f \notin In(act[a].plan, "planned") /\ Throw(a, {})
          \/ f \in In(act[a].plan, "planned") /\ act' = [act EXCEPT ![a].left = @ \ {f}]
  /\ UNCHANGED <<disk, journal, opCount, writer, temps, bundle, ahead, booted, crashes, faults, edits>>

Commit(a) ==
  /\ act[a].pc = "verify" /\ act[a].left = {}
  /\ journal' = [journal EXCEPT ![act[a].op].state = "committed"]
  /\ act' = [act EXCEPT ![a].pc = "committed", ![a].op = 0]
  /\ UNCHANGED <<disk, opCount, writer, temps, bundle, ahead, booted, crashes, faults, edits>>

\* The verify step's result or the commit is not published, or it is and the flush failed.
CommitFails(a) ==
  /\ act[a].pc = "verify" /\ act[a].left = {}
  /\ PublishFails(act[a].op, [journal[act[a].op] EXCEPT !.state = "committed"])
  /\ Throw(a, {})
  /\ UNCHANGED <<disk, opCount, writer, temps, bundle, ahead, booted, crashes, edits>>

\* The catch publishes `compensating`, whatever the record says by now, and then walks the
\* targets back.
Turn(a) ==
  /\ act[a].pc = "threw"
  /\ journal' = [journal EXCEPT ![act[a].op] = Rec(a, "compensating")]
  /\ act' = [act EXCEPT ![a].pc = "comp"]
  /\ UNCHANGED <<disk, opCount, writer, temps, bundle, ahead, booted, crashes, faults, edits>>

\* DropTemps as it would be if nobody swept up.
KeepTemps(r) == UNCHANGED temps
DropTemps(r) == temps' = [temps EXCEPT ![r] = {}]

\* If that fails too nothing is walked back: the operation is left as it is.
TurnFails(a) ==
  /\ act[a].pc = "threw"
  /\ PublishFails(act[a].op, Rec(a, "compensating"))
  /\ DropTemps(act[a].op)
  /\ act' = [act EXCEPT ![a].pc = "failed", ![a].op = 0, ![a].left = {}]
  /\ UNCHANGED <<disk, opCount, writer, bundle, ahead, booted, crashes, edits>>

\* Compaction of journal and bundles, then the run returns.
Close(a) ==
  /\ act[a].pc = "committed"
  /\ CompactJournal
  /\ CompactBundles
  /\ Return(a, "committed")
  /\ UNCHANGED <<disk, opCount, writer, temps, booted, crashes, faults, edits>>

------------------------------------------------------------------------------
(* compensate: of the run's own operation (job = 0) or, under the journal   *)
(* lock, of an earlier one with the same key whose writer died (job = r)    *)

Compensate(a) ==
  /\ act[a].pc = "comp"
  /\ \E f \in act[a].left :
       /\ Final(act[a].left, f)
       /\ \/ /\ f \in act[a].drift \cup In(act[a].plan, "original")
             /\ act' = [act EXCEPT ![a].left = @ \ {f}]
          \/ /\ f \in In(act[a].plan, "planned") \ act[a].drift
             /\ act' = [act EXCEPT ![a].pc = "undo"]
          \/ /\ f \in In(act[a].plan, "other") \ act[a].drift
             /\ act' = [act EXCEPT ![a].left = @ \ {f}, ![a].bad = TRUE]
  /\ UNCHANGED <<disk, journal, opCount, writer, temps, bundle, ahead, booted, crashes, faults, edits>>

\* The original bytes back; a restore that rejects may have been renamed into place.
Undo(a) ==
  LET p == act[a].plan
  IN  /\ act[a].pc = "undo"
      /\ \E f \in act[a].left :
           /\ Final(act[a].left, f)
           /\ \/ /\ disk' = [disk EXCEPT ![f] = p[f].from]
                 /\ act' = [act EXCEPT ![a].pc = "reread"]
                 /\ UNCHANGED faults
              \/ /\ Fault
                 /\ act' = [act EXCEPT ![a].pc = "comp", ![a].left = @ \ {f}, ![a].bad = TRUE]
                 /\ \/ UNCHANGED disk
                    \/ p[f].from # Absent /\ disk' = [disk EXCEPT ![f] = p[f].from]
      /\ UNCHANGED <<journal, opCount, writer, temps, bundle, ahead, booted, crashes, edits>>

Reread(a) ==
  /\ act[a].pc = "reread"
  /\ \E f \in act[a].left :
       /\ Final(act[a].left, f)
       /\ act' = [act EXCEPT ![a].pc = "comp", ![a].left = @ \ {f},
                             ![a].bad = @ \/ disk[f] # act[a].plan[f].from]
  /\ UNCHANGED <<disk, journal, opCount, writer, temps, bundle, ahead, booted, crashes, faults, edits>>

\* The record that settles what was walked back.
Settled(a) == IF act[a].job = 0 THEN [journal[act[a].op] EXCEPT !.state = "aborted"]
              ELSE [act[a].snap EXCEPT !.state = "aborted"]

\* Behind the walk: the temps are gone, and the run goes on to pc with nothing in hand.
Walked(a, pc) ==
  LET own == act[a].job = 0
  IN  /\ act[a].pc = "comp" /\ act[a].left = {}
      /\ IF own THEN DropTemps(act[a].op) ELSE UNCHANGED temps
      /\ act' = [act EXCEPT ![a].pc = pc, ![a].op = 0, ![a].job = 0, ![a].snap = NoRecord,
                            ![a].staged = {}]
      /\ UNCHANGED <<disk, opCount, writer, bundle, ahead, booted, crashes, edits>>

\* Temps gone; incomplete compensation leaves the record compensating.
Compensated(a) ==
  LET own == act[a].job = 0
      r   == IF own THEN act[a].op ELSE act[a].job
  IN  /\ Walked(a, IF own \/ act[a].bad THEN "failed" ELSE "open")
      /\ journal' = IF act[a].bad THEN journal ELSE [journal EXCEPT ![r] = Settled(a)]
      /\ UNCHANGED faults

CompensatedFails(a) ==
  /\ ~act[a].bad
  /\ Walked(a, "failed")
  /\ PublishFails(IF act[a].job = 0 THEN act[a].op ELSE act[a].job, Settled(a))

\* The outcome of a run that failed, from the bytes as they are now.
Conclude(a) ==
  LET p == act[a].plan
  IN  /\ act[a].pc = "failed"
      /\ Return(a, IF act[a].drift # {} /\ DOMAIN p \ act[a].drift \subseteq In(p, "original")
                   THEN "stale"
                   ELSE IF In(p, "original") = DOMAIN p THEN "failed-restored"
                   ELSE "indeterminate")
      /\ UNCHANGED <<disk, journal, opCount, writer, temps, bundle, booted, crashes, faults, edits>>

------------------------------------------------------------------------------
(* recoverChangeSetJournal: before every run, and once after every boot.  It *)
(* takes no lock: the records it read may be out of date when it acts.       *)

\* seen: the listed operations still to do, each with the record as it was read.
Listing(a) ==
  /\ act' = [act EXCEPT ![a].pc = "sweep", ![a].outcome = "none",
                        ![a].seen = {<<r, journal[r]>> : r \in OpenOps}]
  /\ UNCHANGED <<disk, journal, opCount, writer, temps, bundle, ahead, crashes, faults, edits>>

Sweep(a) == act[a].pc = "start" /\ Listing(a) /\ UNCHANGED booted

Boot(a) ==
  /\ act[a].pc = "idle" /\ ~booted[ProcOf[a]]
  /\ Listing(a)
  /\ booted' = [booted EXCEPT ![ProcOf[a]] = TRUE]

\* The verdict on a listed operation, and what is left to restore for it.
Judge(a, e, pc, verdict, note, left) ==
  act' = [act EXCEPT ![a].pc = pc, ![a].job = e[1], ![a].snap = e[2], ![a].seen = @ \ {e},
                     ![a].verdict = verdict, ![a].note = note, ![a].left = left]

\* One listed operation: left to its writer, or judged from the current bytes.
Inspect(a) ==
  /\ act[a].pc = "sweep"
  /\ \E e \in act[a].seen :
       LET r == e[1]
           p == e[2].plan
       IN  /\ \A x \in act[a].seen : r <= x[1]
           /\ \/ /\ WriterAlive(a, r)
                 /\ act' = [act EXCEPT ![a].seen = @ \ {e}]
                 /\ UNCHANGED temps
              \/ /\ ~WriterAlive(a, r) /\ In(p, "other") # {}
                 /\ Judge(a, e, "settle", "unresolved", In(p, "other"), {})
                 /\ UNCHANGED temps
              \/ /\ ~WriterAlive(a, r) /\ In(p, "other") = {}
                 /\ IF In(p, "planned") = DOMAIN p THEN Judge(a, e, "settle", "committed", {}, {})
                    ELSE IF In(p, "planned") = {} THEN Judge(a, e, "settle", "aborted", {}, {})
                    ELSE Judge(a, e, "restore", "aborted", {}, In(p, "planned"))
                 /\ DropTemps(r)
  /\ UNCHANGED <<disk, journal, opCount, writer, bundle, ahead, booted, crashes, faults, edits>>

\* What recovery throws over one operation it swallows, and goes on to the next.
LeftAsItIs(a) ==
  act' = [act EXCEPT ![a].pc = "sweep", ![a].job = 0, ![a].snap = NoRecord,
                     ![a].verdict = "none", ![a].note = {}, ![a].left = {}]

\* The original bytes back from the bundle (a created file: unlinked).  A restore that
\* rejects may have been renamed into place.
Restore(a) ==
  LET p == act[a].snap.plan
  IN  /\ act[a].pc = "restore"
      /\ \E f \in act[a].left :
           /\ Final(act[a].left, f)
           /\ \/ /\ p[f].from # Absent /\ bundle[p] = 0
                 /\ act' = [act EXCEPT ![a].pc = "settle", ![a].verdict = "unresolved",
                                       ![a].note = {f}, ![a].left = {}]
                 /\ UNCHANGED <<disk, faults>>
              \/ /\ p[f].from = Absent \/ bundle[p] # 0
                 /\ disk' = [disk EXCEPT ![f] = p[f].from]
                 /\ act' = [act EXCEPT ![a].pc = "restored"]
                 /\ UNCHANGED faults
              \/ /\ p[f].from = Absent /\ Fault
                 /\ act' = [act EXCEPT ![a].pc = "restored"]
                 /\ UNCHANGED disk
              \/ /\ p[f].from # Absent /\ bundle[p] # 0 /\ Fault
                 /\ disk' \in {disk, [disk EXCEPT ![f] = p[f].from]}
                 /\ LeftAsItIs(a)
      /\ UNCHANGED <<journal, opCount, writer, temps, bundle, ahead, booted, crashes, edits>>

RestoreReread(a) ==
  LET p == act[a].snap.plan
  IN  /\ act[a].pc = "restored"
      /\ \E f \in act[a].left :
           /\ Final(act[a].left, f)
           /\ \/ /\ disk[f] = p[f].from
                 /\ act' = [act EXCEPT ![a].left = @ \ {f},
                                       ![a].pc = IF act[a].left = {f} THEN "settle" ELSE "restore"]
              \/ /\ disk[f] # p[f].from /\ (disk[f] # Absent \/ p[f].from = Absent)
                 /\ act' = [act EXCEPT ![a].pc = "settle", ![a].verdict = "unresolved",
                                       ![a].note = {f}, ![a].left = {}]
              \/ /\ disk[f] # p[f].from /\ disk[f] = Absent
                 /\ LeftAsItIs(a)
      /\ UNCHANGED <<disk, journal, opCount, writer, temps, bundle, ahead, booted, crashes, faults, edits>>

\* The journal with the verdict written over whatever the record says now; with its
\* mutant: as it would be if any verdict was written down as the state.
VerdictedVerbatim(a) ==
  [journal EXCEPT ![act[a].job] = [act[a].snap EXCEPT !.state = act[a].verdict]]

Verdicted(a) ==
  LET r == act[a].job
      s == act[a].snap
  IN  IF act[a].verdict # "unresolved" THEN [journal EXCEPT ![r] = [s EXCEPT !.state = act[a].verdict]]
      ELSE IF s.note # act[a].note THEN [journal EXCEPT ![r] = [s EXCEPT !.note = act[a].note]]
      ELSE journal

Settle(a) ==
  /\ act[a].pc = "settle"
  /\ journal' = Verdicted(a)
  /\ LeftAsItIs(a)
  /\ UNCHANGED <<disk, opCount, writer, temps, bundle, ahead, booted, crashes, faults, edits>>

\* The verdict is not published, or it is and the flush behind its rename failed.
SettleFails(a) ==
  /\ VerdictFails /\ Fault
  /\ act[a].pc = "settle" /\ Verdicted(a) # journal
  /\ journal' \in {journal, Verdicted(a)}
  /\ LeftAsItIs(a)
  /\ UNCHANGED <<disk, opCount, writer, temps, bundle, ahead, booted, crashes, edits>>

SweepEnd(a) ==
  /\ act[a].pc = "sweep" /\ act[a].seen = {}
  /\ CompactJournal
  /\ CompactBundles
  /\ act' = [act EXCEPT ![a].pc = IF act[a].plan = NoPlan THEN "idle" ELSE "check"]
  /\ UNCHANGED <<disk, opCount, writer, temps, ahead, booted, crashes, faults, edits>>

------------------------------------------------------------------------------
(* The environment *)

\* A process dies and a new one, with another pid, takes its place.
Crash(p) ==
  /\ crashes < MaxCrashes
  /\ crashes' = crashes + 1
  /\ act' = [a \in Actor |-> IF ProcOf[a] = p THEN Idle ELSE act[a]]
  /\ ahead' = [a \in Actor |-> IF ProcOf[a] = p THEN {} ELSE ahead[a]]
  /\ writer' = [r \in Op |-> IF writer[r] = p THEN Dead ELSE writer[r]]
  /\ booted' = [booted EXCEPT ![p] = FALSE]
  /\ UNCHANGED <<disk, journal, opCount, temps, bundle, faults, edits>>

Edit(f, c) ==
  /\ edits < MaxEdits
  /\ disk[f] # c
  /\ EditorInWindow \/ \A a \in Actor : act[a].pc \notin {"write", "undo"}
  /\ edits' = edits + 1
  /\ disk' = [disk EXCEPT ![f] = c]
  /\ UNCHANGED <<journal, opCount, writer, temps, bundle, act, ahead, booted, crashes, faults>>

------------------------------------------------------------------------------
Init ==
  /\ disk = InitDisk
  /\ journal = [r \in Op |-> NoRecord]
  /\ opCount = 0
  /\ writer = [r \in Op |-> Dead]
  /\ temps = [r \in Op |-> {}]
  /\ bundle = [p \in Plan |-> 0]
  /\ act = [a \in Actor |-> Idle]
  /\ ahead = [a \in Actor |-> {}]
  /\ booted = [p \in Proc |-> TRUE]
  /\ crashes = 0 /\ faults = 0 /\ edits = 0

\* What the program does by itself once a run or a recovery is under way.
Step(a) ==
  \/ Lock(a) \/ Boot(a) \/ Sweep(a) \/ Inspect(a) \/ Restore(a) \/ RestoreReread(a)
  \/ Settle(a) \/ SweepEnd(a) \/ Check(a) \/ Stage(a) \/ Prepare(a)
  \/ LockTimesOut(a) \/ OpenOp(a)
  \/ Apply(a) \/ Probe(a) \/ Write(a) \/ WriteFails(a) \/ Verify(a) \/ Commit(a) \/ Turn(a)
  \/ Close(a) \/ Compensate(a) \/ Undo(a) \/ Reread(a) \/ Compensated(a) \/ Conclude(a)

\* A publication or a staging write that rejects.
Fails(a) ==
  \/ StageFails(a) \/ PrepareFails(a) \/ OpenOpFails(a) \/ ApplyFails(a) \/ WriteUnrecorded(a)
  \/ CommitFails(a) \/ TurnFails(a) \/ CompensatedFails(a) \/ SettleFails(a)

Next ==
  \/ \E a \in Actor : Step(a) \/ Fails(a) \/ Cancel(a) \/ \E p \in Plan : Begin(a, p)
  \/ \E p \in Proc : Crash(p)
  \/ \E f \in File, c \in EditorContent : Edit(f, c)

Spec == Init /\ [][Next]_vars

\* An actor's awaits complete: it never stops for good where it can go on.  The
\* journal's chain is a queue too: whoever waits in it is not overtaken for ever.
\* The boot recovery is scheduled by the boot and not put off by runs.
Fairness == \A a \in Actor :
  WF_vars(Step(a)) /\ SF_vars(Prepare(a) \/ LockTimesOut(a)) /\ SF_vars(Boot(a))

FairSpec == Spec /\ Fairness

------------------------------------------------------------------------------
(* Properties *)

TypeOK ==
  /\ disk \in [File -> Content]
  /\ journal \in [Op -> Record \cup {NoRecord}]
  /\ opCount \in 0 .. MaxOps
  /\ writer \in [Op -> Proc \cup {Dead}]
  /\ temps \in [Op -> SUBSET File]
  /\ bundle \in [Plan -> Nat]
  /\ act \in [Actor -> ActorState]
  /\ ahead \in [Actor -> SUBSET Actor]
  /\ booted \in [Proc -> BOOLEAN]
  /\ crashes \in Nat /\ faults \in Nat /\ edits \in Nat

\* Two runs of one process never hold the same target: what lets a run trust
\* the bytes it checked against every other run of its process.
PathsExclusive == \A a, b \in Actor : b \in Peers(a) => Held(a) \cap Held(b) = {}

\* The record of an operation whose run is under way says where that run is:
\* no recovery, of this process or another, has settled or revived it, and no
\* compaction has dropped it.  Only a run that threw cannot tell what its last,
\* failed, publication has left behind.
StatesAt(pc) == CASE pc = "prepared" -> {"prepared"}
                  [] pc \in {"probe", "write", "verify"} -> {"applying"}
                  [] pc = "threw" -> {"prepared", "applying", "committed", "none"}
                  [] OTHER -> {"compensating"}

RecordFollowsRun ==
  \A a \in Actor : act[a].op # 0 => journal[act[a].op].state \in StatesAt(act[a].pc)

\* Recovery acts on an operation only when the run that writes it is gone: no
\* actor runs it, and its pid is dead or this process's own.
RecoveryLeavesLiveRuns ==
  \A a \in Actor : act[a].job # 0 =>
    /\ \A b \in Actor : act[b].op # act[a].job
    /\ writer[act[a].job] \in {Dead, ProcOf[a]}

\* The originals of every target that may have to be put back are still there.
BundleCovers ==
  \A r \in OpenOps : bundle[journal[r].plan] # 0

\* An operation that is settled, by its own run or by recovery, leaves no staged temp
\* beside the user's files.  (A later run with its key that settles it for a dead
\* writer does leave them: its compensate() knows only the temps it staged itself.)
SweptWhenSettled ==
  [][\A r \in OpenOps : r \in TerminalOps' /\ (\A a \in Actor : act[a].pc = "comp" => act[a].job # r)
       => temps'[r] = {}]_vars

\* A run that reports its change set as committed or replayed reports it while
\* every target holds its planned bytes.
ReportedMeansPlanned ==
  [][\A a \in Actor :
       act'[a].outcome \in {"committed", "replayed"} /\ act[a].outcome = "none"
       => In(act[a].plan, "planned") = DOMAIN act[a].plan]_vars

\* A committed or aborted operation that its run has let go is never reopened or
\* decided the other way, whatever recovery still has in hand.
SettledStays ==
  [][\A r \in TerminalOps : (\A a \in Actor : act[a].op # r)
       => journal'[r] \in {journal[r], NoRecord}]_vars

\* A publication that fails preserves the record it was to replace.
FailedPublishPreserves ==
  [][\A a \in Actor : act[a].pc # "threw" /\ act'[a].pc = "threw" => journal' = journal]_vars

\* A commit is not lost: while the newest operation on a file is committed, only
\* the editor changes that file (a later run journals an operation of its own first).
CommittedStands ==
  [][\A f \in File, r \in Op :
       /\ journal[r].state = "committed" /\ f \in DOMAIN journal[r].plan
       /\ \A s \in Op : s > r /\ journal[s].state # "none" => f \notin DOMAIN journal[s].plan
       /\ disk'[f] # disk[f]
       => edits' # edits]_vars

\* Bytes that are neither original nor planned to the program's writer are later
\* bytes: only the editor itself replaces what the editor wrote.
Foreign == {c \in EditorContent : \A p \in Plan : \A f \in DOMAIN p : c \notin {p[f].from, p[f].to}}

LaterBytesKept ==
  [][\A f \in File : disk[f] \in Foreign /\ disk'[f] # disk[f] => edits' # edits]_vars

\* The same, of the writes of the run itself and of its own compensation.
RunKeepsLaterBytes ==
  [][\A f \in File : /\ disk[f] \in Foreign /\ disk'[f] # disk[f]
                     /\ \A a \in Actor : act[a].pc = "restore" => act'[a] = act[a]
       => edits' # edits]_vars

\* The runs in front of run a, in the queue of its next path or in the journal's chain.
WaitsFor(a) == {b \in Peers(a) :
  \/ act[a].pc = "lock" /\ b \in ahead[a]
  \/ act[a].pc = "staged" /\ act[b].pc \in JournalPc}

\* Runs never wait on each other in a circle, whether for a path lock (the next
\* in order) or, with path locks held, for their turn in the journal's chain.
NoCircularWait ==
  \A S \in (SUBSET {a \in Actor : act[a].pc \in {"lock", "staged"}}) \ {{}} :
    \E a \in S : WaitsFor(a) \cap S = {}

\* Every run returns, whatever fails or runs out of retries on its way: one that
\* did not would keep its path locks for ever.
RunsReturn == \A a \in Actor : act[a].pc # "idle" ~> act[a].pc = "idle"

\* An operation whose process died is settled: the recovery at the next boot, or
\* before the next run, decides it, unless a restore failed or an editor was there.
InterruptedSettles ==
  \A r \in Op : r \in OpenOps /\ writer[r] = Dead
             ~> r \notin OpenOps \/ faults > 0 \/ edits > 0

------------------------------------------------------------------------------
(* Seen from outside, a change set takes effect at once or never.  A file of *)
(* an operation not yet settled counts as planned only when all of them are. *)

Unsettled(f) == {r \in OpenOps : f \in DOMAIN journal[r].plan}

World == [f \in File |->
  IF \E r \in Unsettled(f) : In(journal[r].plan, "planned") # DOMAIN journal[r].plan
  THEN LET r == CHOOSE r \in Unsettled(f) :
                   In(journal[r].plan, "planned") # DOMAIN journal[r].plan
       IN  journal[r].plan[f].from
  ELSE disk[f]]

\* A commit is kept when its run has let go of it; until then, and while all targets of an
\* open operation are in place, it has landed and no more.
Effect == [r \in Op |->
  IF r > opCount THEN "none"
  ELSE IF journal[r].state = "aborted" THEN "dropped"
  ELSE IF r \in OpenOps
       THEN IF In(journal[r].plan, "planned") = DOMAIN journal[r].plan THEN "landed" ELSE "open"
  ELSE IF \E a \in Actor : act[a].op = r THEN "landed"
  ELSE IF journal[r].state = "committed" THEN "kept" ELSE "forgotten"]

Atomic == INSTANCE AtomicChange WITH world <- World, effect <- Effect, failed <- faults > 0

ImplementsAtomic == Atomic!Spec
=============================================================================
