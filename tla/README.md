# TLA+ models of Mercury

Mercury is a terminal coding agent: an interactive process, a daemon that hosts
further session runners, crewmates, and a durable state shared by all of them
through plain files. This directory holds TLA+ models of the parts of it in
which concurrency and failure decide correctness, the TLC instances that check
them, and TLAPS proofs of what matters most. Paths below are relative to the
repository root; the TypeScript source is under `src/`.

Contents: [inventory](#the-system) · [the models](#the-models) ·
[the runs](#the-runs) · [fairness](#fairness) · [the proofs](#the-proofs) ·
[what the models found](#what-the-models-found) ·
[what is left out](#what-is-left-out) · [the plan](#the-plan)

## The system

Everything durable goes through a small substrate (locks, atomic publication,
journals, stores); services build transactions, crew and persistence on it; the
daemon supervises processes; the run core drives one conversation turn at a
time. "Status" is the state of this project: M modelled, p partly, – not yet.

| Component (source) | | State it keeps | Operations | Interacts through |
|---|---|---|---|---|
| Change-set commit (`services/changeTransaction/changeSetCommit.ts`) | M | target files, staged temps, bundles of originals, the path locks of a process | commit, compensate, recover, compact bundles | hands steps and a compensation (callbacks) to the journal; called by the ChangeSet tool, the Structure planner, workspace edits, `/rewind` and the boot |
| Operation journal (`substrate/operationJournal.ts`) | p | `op-<id>.json` records, a promise chain per directory, the operations live in the process, a lock file | run, republish, compact, liveness of a writer | calls its client back; shared by all processes |
| Boot recovery (`substrate/recoveryOrchestrator.ts`) | p | one report per process | sweep temps, recover change sets, collect epochs, reconcile daemon records | everything durable |
| Pid lock (`substrate/pidLock.ts`) | M | one file naming owner, pid and start token | acquire, restamp, release, probe | daemon lock, desktop claim, task lists, transcript writers, caches |
| Change-set planning (`changeSetPlan.ts`, `changeSetStore.ts`) | – | plans, approvals | lower hunks and anchors to whole-file plans | produces the commit's request |
| Atomic publication (`substrate/durablePublish.ts`) | p | temp, target, directory entry | write, flush, rename, flush the directory | every writer |
| File store, group commit (`substrate/fileStore.ts`, `groupCommit.ts`, `storeRevision.ts`, `storeRecovery.ts`) | p | a JSON document, its revision, a lock, a queue of mutations, watchers | mutate, batch, publish, subscribe, emit, recover | crew, workers, settings; other processes through the file |
| Owner persistence (`substrate/serialGeneration.ts`, `services/run/persistenceActor.ts`, `runSidecar.ts`, `ownerScopedStore.ts`) | M | accepted and committed generation of each lane, the write chain of an owner, the states in the store | accept, pump, settle, drain, release, evict, dispose | the run coordinator; one sidecar file |
| Runner retirement (`daemon/runnerQuiescence.ts`, `concourseWorkers.ts`) | M | the daemon's fence and token, the intent on the record, the runner's quiescence | prepare, commit, cancel, demand, land | requests and answers between daemon and runner that may be lost or late |
| Daemon supervision (`daemon/main.ts`, `roster.ts`, `concourseDispatch.ts`, `workerParentWatch.ts`) | p | roster, respawn budget, records | spawn, respawn, dispatch, revive, reconcile | control socket, the runners' pipes |
| Permission asks (`daemon/permissionAsks.ts`) | – | open asks | forward, answer, expire | runner, daemon, clients |
| Run coordination (`services/run/*`) | p | the run's owner scope, continuation latch | start, continue, stop, persist | turn machine, persistence |
| Turn machine, tool scheduling (`run-core/turn-machine.ts`, `model-lane.ts`, `pauseGate.ts`, `services/tools/*`) | p | the reply under way, its calls, their early starts, the batch, the context, the pause gates | ask, stream, retract, back up, start early, sort, run a batch, park, interrupt, compact | providers, tools, the operator; crewmates share the gates |
| Crew (`services/crew/*`) | – | inboxes, obligations, conversations | post, claim, discharge | file stores |
| Channel (`services/channel/*`) | – | hybrid logical clock, sealed frames | tick, merge, seal, open | peers |
| Task lists, session writer (`utils/tasks.ts`, `sessionWriter.ts`) | – | task files, transcripts | claim, complete, append | pid lock |
| Primitives, providers, tools, interface, extensions | – | projections, streams, screens | | thin over the above, or external |

**Which behaviours are hard.** Several runs of one process interleave at every
`await`; several processes act on the same files with nothing between a read
and the write that follows; a process may die between any two file operations,
its recovery too; an editor writes the same files; a lock's retries run out; a
file operation fails and the others of its group do not. `PROJECT.json` lists
each place as a hazard, with the property that covers it.

**What makes each component correct.** Change sets: all targets or none, seen
from outside, and what was reported is kept; every interrupted set is settled;
what recovery needs is kept until then and no temp is left after; a live operation is never recovered; what
an editor wrote is never overwritten. Pid lock: one holder; a dead holder's
record gives way; a live one's does not. File store: no lost update, callers are
told the truth, a subscriber sees no older document after a newer and ends up
with the last. Owner persistence: the file never goes back, what was answered
settled is in it, nothing accepted is forgotten in silence. Runner retirement:
a record is called parked only of a runner that is gone or told to go, an agreed
departure is never taken for a crash and lands, whoever dies; a park that was
requested comes about; a parked session is open.
Tool calls: each is run at most once and answered once, calls whose claims
conflict keep their order and never overlap, an interrupt ends the turn. Crew: an obligation is discharged once.

## The models

### ChangeSetCommit

A file's bytes are one value (a digest is the content it digests); a plan is a
function from target files to `[from, to]`, `Absent` before for a creation and
after for a deletion. An *actor* is one thread of control: a call of
`runTextChangeSetCommit`, or the boot recovery. Actors of a process share its
path locks, its journal chain and its set of live operations; processes share
`disk`, `journal`, `temps`, `bundle`.

| Actions | Code |
|---|---|
| `Begin`, `Lock`, `Cancel`, `Check`, `Stage`, `StageFails` | the run up to the journal: the slots on the sorted path locks, the abort checks, replay/stale by current bytes and prior commits, bundle and temps |
| `Prepare`, `PrepareFails`, `LockTimesOut`, `OpenOp`, `OpenOpFails` | `runJournaledOperation`: chain and lock, lookup by idempotency key (owner, plan, `#r` number), the prepared record |
| `Apply`, `ApplyFails`, `Probe`, `Write`, `WriteFails`, `WriteUnrecorded`, `Verify`, `Commit`, `CommitFails`, `Close` | the steps `commit-i` and `verify`, the record's states, compaction |
| `Turn`, `TurnFails` | the catch of `runJournaledOperation`: it publishes `compensating` whatever the record says by now |
| `Compensate`, `Undo`, `Reread`, `Compensated`, `CompensatedFails`, `Conclude` | compensation of the run's own operation, or under the journal lock of a dead one with the same key, and the outcome |
| `Sweep`, `Boot`, `Inspect`, `Restore`, `RestoreReread`, `Settle`, `SettleFails`, `SweepEnd` | `recoverChangeSetJournal` and `reconcileFromPayload`, before each run and after each boot |
| `Crash`, `Edit` | a process death (a new process with another pid follows), an outside editor |

Three things are easy to miss. Recovery keeps the records it listed (`seen`,
`snap`) and acts on them after other awaits, as the code does. And a re-run
that compensates a dead operation of its own key drops its *own* staged temps
with the closure it passes in, so its later writes fail and it ends
`failed-restored`; the model keeps this (`staged` reset in `Compensated`). It also
leaves the dead run's temps where they are. And a publication that fails
(`PublishFails`) fails before its rename or in the flush of the directory behind it,
when the record is replaced all the same: so a run may have thrown over a record
that is committed on disk, and reopens it.

`AtomicChange` is the promise of `docs/CHANGE-TRANSACTIONS.md`: an announced
operation takes effect on all of its targets at one instant (`Land`), or never. It
is kept (`Keep`) when its run lets go of it; before, and only behind a failure, all
of its targets may be taken back, at one instant too (`TakeBack`). What is settled
may be forgotten, as compaction does (`Forget`).
`ChangeSetCommit` implements it under the mapping `World`/`Effect`: a file of an
operation not yet settled counts as planned only when all of them are.

Abstractions, each with its reason:
- All targets are classified in one step in `Check`, `Inspect` and `Conclude`.
  The compensation and the run's own writes go target by target, because there
  the interleaving with the editor is what the properties are about.
- Per-step records are left out: the change-set recovery decides by bytes alone.
- A path lock is a promise chain, and `ahead` is what an actor awaits on it: who took
  a slot before it on its next path. The slot is taken with the step before the await
  (`Begin`, and each `Lock` for the next path), as in `acquirePathLocks`. The journal's
  chain is a mutex that somebody waiting gets next, with strong fairness in place of its
  order; its lock file is a mutex freed by a crash, whose retries may run out
  (`LockTimesOut`).
- `Check` reads the targets and the journal's listing in one step, and a read that fails
  for another reason than a missing file counts as the file's absence, as `readOrNull`
  has it. A recovery whose listing fails (572) is not modelled: it changes nothing.
- `VerdictFails` says whether recovery may fail to publish its verdict. It is a constant
  because one promise holds only without it: with `VerdictFails = TRUE`,
  `ImplementsAtomic` is violated (see what the models found).
- No pid is reused; a bundle that was partly written counts as the one before it;
  payloads decode. Temps staged before there is a record, and those a failing prepare
  leaves, belong to the boot's sweep of orphans, which is not modelled.
- While a run whose commit failed behind its rename has not yet published `compensating`,
  its record is committed, so a compaction by another process may drop its bundle:
  `BundleCovers` is claimed of open records and of one thread at a time.
- Failure texts are the set of files they name (`note`), which recovery compares.

### PidLock

An *actor* is a caller in a process, claiming under an owner identity. `lock` is
what is at the path: a record (owner, pid, acquisition, version), nothing, or
`Junk`, a file that does not parse. Every file operation is one action and
others may act between any two.

| Actions | Code |
|---|---|
| `Start`, `Claim` | `acquirePidLock`, `claimLockAtomically`: the link that fails on an existing path |
| `Read`, `Adopt` | the holder is read; same owner: held, or stamped over under the new pid |
| `Judge`, `Raw`, `Confirm`, `Reclaim`, `Reread` | dead or unreadable: read, wait, read again, rename over, read back |
| `Restamp`, `Stamp`, `StampRename`, `StampRead` | `restampPidLock`; its caller gives up when it fails |
| `Release`, `Unlink` | `releasePidLock`: read, then unlink whatever is there |
| `Probe`, `ProbeJudge`, `ProbeRaw`, `ProbeConfirm`, `Take`, `PutBack` | `probePidLock` with `reclaimStale`: the record is moved aside, and linked back if its holder lives |
| `Crash` | a process death |

`outdated` is a history variable: it becomes true when a step replaces or
removes another record than the one its actor read. The code cannot exclude
this (there is no compare-and-rename), so mutual exclusion is stated relative to
it; `pidlock_stolen` shows that one such step really happens without any death.

Abstractions: the start token beside the pid makes a recycled pid a dead one, so
pids are not reused. `acquiredAt` tells two acquisitions apart even within one
millisecond. `Start` asks that nobody else is claiming or holding under the
owner identity: owners are minted per acquisition (`randomUUID`, `tasks.ts:122`)
or per process (`sessionWriter.ts:7`, `controlSocket.ts:525`, `desktopClaim.ts`).
An owner whose process died, or whose unlink failed, may come back in another
process and finds its old record there, which is what `Adopt` is for.
`acquirePidLockWithRetry` is a new `Start`. The retry loop of the release
(383-411) changes nothing where the error is not one of Windows' transient ones.
`PutBack` judges and links in one step: in between the holder can only die,
which leaves a dead record, a state other steps reach.

### RunnerRetirement

Parking a session: the daemon's fence asks the session's runner to *prepare*,
puts an intent on the session's record, asks it to *commit*, waits for its exit
and calls the record parked. Where there is no handshake (the session is attached, in
a turn or without a runner, and for park-all) the runner is killed and the record
called parked at once, or, in a turn, the park is requested on the record and completed
at an idle edge behind it. One session, one record, at most one live runner;
the n-th retirement has token n, the n-th runner pid n. `wire` and `answers` are
the two directions of the runner's pipe: ordered, and lost with either process.
`fence.pc` is what the fence's promise is waiting for.

| Actions | Code |
|---|---|
| `ParkVerb`, `Prepared`, `Committed`, `Cancelled`, `LateAnswer`, `NoAnswer`, `Landing`, `ExitUnseen` | `RetirementFence.retire`, `run`, `cancel`, `finish` with the effects that `retireConcourseSession` gives them |
| `ParkNow`, `Kill` | `parkConcourseSession`: by the park verb, by park-all, and as the cut at the end of the daemon's drain; `roster.kill` |
| `RequestDue`, in `TurnEnds` and `Respawn` | `completeRequestedPark` at the idle edges of the roster |
| `ChildExit`, `Respawn`, `ExitCompleted` | `handleCrash` of the roster, the respawn, `completeFencedRetirement` |
| `Tick`, `DaemonBoot` | `reconcileConcourseWorkers`, on the timer and at boot |
| `Dispatch`, `Deliver`, `Delivered`, `Resume` | the dispatch to a session (held, started, delivered), revival, the operator's resume |
| `Asked`, `Flushed` | `RunnerQuiescence.request`, up to its await and behind it |
| `Accept`, `Enqueue`, `Wake`, `TurnEnds`, `Exit` | the runner's input, its queue, its own work, its exit (committed, or its daemon gone) |
| `RunnerCrash`, `DaemonCrash` | deaths; a new daemon has no seat, fence or pipe of the old runner |

`SessionLife` is what a park promises whoever carries it out: intent before
commitment, no way back after it, and the intent of a dead runner lands. The
model implements it, its fairness included (`LifeSpec`).

Abstractions: the record's other reasons against a retirement (stopped,
attached) are left out, as is a `stop` of the session; an attached seat's park is
`ParkNow`. A newborn session, which is released and not parked, is left out, and so are
the two stamps behind a failed revival and a failed reactivation
(`concourseWorkers.ts:2006`, `2093`) of a session that has no runner and gets none. A
respawn's delay and budget are a choice. The record's `inTurn` is written where the code
schedules that write: at an outcome row that is behind the roster's idle edge, since it
waits for a dynamic import. `Respawn` puts the spawn, its idle edge and the record's new
pid in one step, in this order. `TurnEnds` includes the row's way to the daemon. A
daemon's death empties the pipe (what the runner could still have read is lost with it).
Behind the cut the daemon shuts down, which is left to `DaemonCrash`. A record that is
written by hand or by an older version is not considered. A runner process that outlives
its pid's record cannot be: the start token tells it apart.

### FileStore and StoreFeed

`FileStore` is a store that several processes have open: each has a lane that
collects mutations into a batch, takes the lock, reads, applies, publishes, lets
the lock go and answers. A document is a revision and the set of mutations in
it. `StoreFeed` adds a listener: the emission loop (`stat`, `read`, compare,
tell), the publications of the same process that overtake it (`publishEpoch` is
`moved`), and the read at subscription. `KeptStore` is the promise to callers: a
mutation is taken in once, its caller told so only after, and nothing undoes it.

| Actions | Code |
|---|---|
| `Submit`, `Drain`, `FailBatch`, `Release` | `groupCommitLane` |
| `Seed` | `ensureExists`, without the lock |
| `Acquire`, `AcquireFails` | proper-lockfile: a dead holder's lock goes stale |
| `Read`, `ReadFails`, `LastGood`, `ApplyTo` | the lane's `read`, and where a fail-open store resumes from |
| `PublishFails`, `Publish`, `FlushFails`, `Book` | `durableAtomicPublish` and what `publish` notes behind it |
| `Subscribe`, `FirstRead`, `FirstReadFails`, `FirstValue`, `Unsubscribe` | `subscribeChanges`, `stopWatching` |
| `EmitBegin`, `EmitStat`, `EmitRead`, `EmitReadFails`, `EmitAct`, `BookAndTell` | `emitIfChanged`, `emitOnce`, `fanOut` |
| `Damage`, `Crash` | a file that does not decode, the death of a process |

Four things the code does and a reader may not expect, all in the model. A
failing flush of the directory comes after the rename: the callers are told that
their mutations failed, and they are in the document all the same (so a
rejection promises nothing, and no property says it does). A fail-open store
whose read merely *fails* (no bytes) is treated as damaged: there is nothing to
copy, and the next publication replaces it from the last good document, though
`docs/DURABILITY.md:48-51` speaks of preserved bytes; `dropped` counts what is
left out. An emission whose read fails is given up and repeated, but not where nothing
has been emitted before (`GivesUp`): then the stat of the bytes it did not read is
remembered, and no later tick looks at them; a read at subscription that fails tells the
listener nothing. `blind`, a history variable, marks both until the listener is told
something. And `stopWatching` forgets the last good document, so that a recovery
after the last listener has gone resumes from an empty one.

Abstractions: a live holder that sleeps past its lock's stale time
(`assertStillHeld`) is left out; `AcquireFails` stands for a seed that fails as well
(both reject the batch with the lock free); a stat that fails only makes the emission
read, and is left out; a stat is as good as the contents (no two contents share one); the values a
mutation function computes are its membership.

### OwnerPersistence

The snapshots of one owner's run. `current` is the state in the owner-scoped
store; each state ever made has a lane (`serialGenerationLane`), and their
commits are written by one chain per owner. Callers flush, or drain a state that
is evicted or disposed of at shutdown; `caller` holds the call between awaits.

| Actions | Code |
|---|---|
| `Accept`, `TimerFires` | `acceptGeneration`: accept, then poke or schedule |
| `Pump`, `GoesOn`, `CommitDone`, `CommitFails` | `pump`'s loop over awaited commits |
| `Write`, `Land` | `saveRunSidecar`'s chain and the publication |
| `Flush`, `Evict`, `Dispose`, `Again`, `FlushEnds`, `Releases`, `DrainEnds` | `settle` and `release`, under `flushRun`, the store's eviction and its shutdown |

`MaxCommits` and `MaxRounds` are the code's `MAX_COMMITS_PER_PUMP` (64) and
`MAX_SETTLE_ROUNDS` (8). Two exceptions are part of the properties. A request
behind a shutdown's disposal makes a new lane that does not wait for the old
one's last commit (`Late`): the older snapshot may land last. A pump that stops
at its limit has swallowed the poke of what was accepted meanwhile (`cut`), and
nobody pumps again until the next accept or flush. `Write` takes the await of the
writer epoch together with the place in the chain behind it.

### TurnTools

The tool calls of one turn. Replies stream in and are kept, retracted by the
provider, settled for a backup engine, cut short and asked again, or die; a call
that only reads may start while its reply still streams (`EarlyStarts`); the
round sorts the calls into batches and runs one batch after the other; every
call passes two pause gates; an interrupt reaches all of it. A block is a call,
numbered as it came. `step` is where its run is, `lane` where the generator that
waits for it in its batch is, `body` whose tool is at work: an abandoned call is
done, and its tool is not.

| Actions | Code |
|---|---|
| `Ask`, `Stream`, `StreamEnds`, `StreamDies` | `streamModel`, and what `runEventCore` does behind it |
| `Retract`, `BackUp`, `Retry`, `CutShort` | a fallback within the stream, a backup engine, `resetForRetry` behind either; the cut tool call |
| `Admit` | `EarlyStarts.offer` behind its await; offers are served in order |
| `Sort` | `runTools`: waits for the offers (`ready`), then partitions block by block |
| `Begin`, `Hear`, `EndBatch` | the generators of a batch under the cap, results into the transcript, queued modifiers of the context, the next batch or the next reply |
| `Pause`, `Reopen`, `Park`, `Pass` | `createPauseGate` and `parkBeforeTool`: the operator's gate, then the run's |
| `Refuse`, `Call`, `Return`, `Abandon`, `Late` | `runToolUse` up to the tool, its return, and `settleUnderAbort` |
| `Interrupt` | the turn's abort signal |

Abstractions: a call's claim is fixed before the turn (`Script` is what the model
may ask for), and the claim computed for the early start is the one the round
computes. A `lift` of one seat is a reopening for that seat, which is the only
one here. What hooks, rules and the operator decide is the choice between
`Refuse` and `Call`; the hooks behind a call belong to `Return`. One action
begins a generator and one hears its result, so progress messages are left out.
The next iteration has an `EarlyStarts` of its own, which is why `Stale` goes by
the reply. Not modelled: chant trimming and the loop guard's verdict (they end
the turn, as `EndBatch` may), a stream that dies of an image's size (no call of it has
begun), result room, the recovery loops and compaction,
the closing turn, stop hooks, and a throw that leaves `runToolUse`.

### MC modules

`MCChangeSet`, `MCPidLock`, `MCRetirement`, `MCStore`, `MCOwner` and `MCTools` name
the processes, owners, plans, disks and claims the configurations use. They
replace no definition of the models.

## The runs

`CHECK_DEADLOCK FALSE` everywhere: every bound on runs, deaths and claims lets
the system stop for good.

| Run | Instance | Shows |
|---|---|---|
| `changeset_crash` | one thread, rewrite+create+delete and its rewind, 4 operations, 3 deaths, 2 failures, no bundle kept by age | the change set is atomic seen from outside (`ImplementsAtomic`), every interrupted set is settled (`InterruptedSettles`) and stays so (`SettledStays`), originals are kept until then (`BundleCovers`), a reported commit is on disk (`ReportedMeansPlanned`) |
| `changeset_processes` | two runs of a process and one of another, 2 operations, 1 death, 1 failure (recovery's verdicts included), 1 edit (foreign bytes, or bytes equal to an original) | the slots of the path locks exclude (`PathsExclusive`), nobody waits in a circle for path locks and the journal (`NoCircularWait`), no recovery, re-run or compaction touches a live operation (`RecordFollowsRun`, `RecoveryLeavesLiveRuns`), runs and their compensations never replace an editor's bytes (`RunKeepsLaterBytes`), whoever settles an operation sweeps its temps (`SweptWhenSettled`) |
| `pidlock_contend` | three callers in three processes, the third going by the first one's owner, 2 claims, 2 deaths, 1 failure, initially nothing or junk | two hold the lock only after an outdated step (`ExclusiveUnlessOutdated`); dead and unreadable records give way (`StaleGivesWay`) |
| `retirement_handshake` | 2 parks, 3 runners, 2 dispatches or wakes, 2 deaths, 1 answer or exit not waited for | a record is called parked only over a runner that is gone or told to go in that step (`ParkedOrLeaving`), a child just respawned excepted; an agreed departure is on record (`CommittedIsIntended`), no crash (`CommittedNotRespawned`) and ends parked (`CommittedParks`); refinement of `SessionLife` (`LifeSpec`) |
| `store_feed` | two processes, one with a listener, three mutations, 1 fault (damage, a failing read of a lane or an emission, a failing write or flush, a death) | resolved mutations stay (`KeepsWhatItTold`, refinement of `KeptStore`); nothing older after newer (`NeverOldAfterNew`); the listener catches up, unless a failing read was forgotten (`CatchesUp`); no lane is stuck (`LanesGoOn`) |
| `owner_lives` | 4 snapshots, 3 states of an owner, 2 callers, pumps of 2 commits, 2 settle rounds, 1 failing write | the sidecar never goes back (`NeverBackwards`), settled is durable (`SettledIsDurable`), drained is committed or reported (`DrainedOrDegraded`), and without a flush all gets there (`GetsThere`) |
| `turn_tools` | 3 calls in 2 replies, six scripts of claims over two files, two generators at a time, two gates | conflicting calls keep their order and never overlap, early or batched (`ConflictsInOrder`, `ConflictsApart`); a call runs at most once and for a reply that stands (`RunsOnce`), is answered once (`AnsweredOnce`) and changes the context in its turn (`ContextInOrder`); an interrupt ends the turn (`AbortEnds`); an open gate holds nobody (`NobodyForgotten`) |
| `changeset_replay` | violation of `ReportedMeansPlanned` | see the findings |
| `changeset_lost_commit` | violation of `CommittedStands` | " |
| `changeset_later_bytes` | violation of `LaterBytesKept` | " |
| `pidlock_stolen` | violation of `NeverStolen` | " |
| `retirement_reopen` | violation of `ParkedIsOpen` | " |

Each of the following properties is stated in its module too and has a configuration
of its own; TLC's answer is given here, and the behaviours it finds are described under
[what the models found](#what-the-models-found).

| Configuration | Instance | Answer |
|---|---|---|
| `changeset_wait.cfg` | two runs of a process and one of another, 2 operations, 1 failure, no death | `RunsReturn` holds: every run returns, through path locks, chain and lock file |
| `changeset_flush.cfg` | one run, 1 failure | `FailedPublishPreserves` is violated |
| `changeset_undecided.cfg` | one thread, two plans with a file in common, 1 death, 1 failing verdict | `CommittedStands` is violated without any stale listing |
| `retirement_respawn.cfg` | 1 park, 2 runners, 1 dispatch or wake, 1 death | `ParkedMeansLeaving` is violated |
| `retirement_cancel.cfg` | 2 parks, 1 dispatch or wake, no death | `ParkedNotRespawned` is violated |
| `retirement_request.cfg` | 1 park, 1 dispatch or wake, no death | `RequestedParks` is violated |
| `store_missed.cfg` | as `store_feed` | `FloorCatchesUp` is violated |

*Why the bounds are enough.* Three deaths let a run, the recovery after it and
the recovery after that die once each at any step; four operations allow
apply, rewind, apply again and one more, so a plan meets its own earlier
commits, and with three records kept the fourth makes compaction drop one, which
is where `AtomicChange` forgets; `KeepBundles = 0` makes age alone drop every bundle, so that only the
protection of open operations keeps them. Two failures let a publication fail, and the
publication or the restore behind it. Two runs over the same two files
are the least that can hold paths in opposite order, and the journal's chain is
the third party of a circle. Three actors in two
processes give a live peer, a live stranger and the dead, and let a run settle a dead
operation of its own key, which one actor alone never does. In the lock, a stale
record and a call that meets it take two claims, and two claims by three callers
let a holder, a contender and a successor meet; exclusion is proved for any
number of claims. `changeset_crash` has one actor: two concurrent passes
of recovery can overwrite each other's verdict (that is `changeset_lost_commit`).
Its recovery publishes its verdicts (`VerdictFails`); `SettledForGood` and the other
theorems but `ActsAtOnce` cover those it does not publish.
Two parks let a late answer of one retirement meet the next; three runners, a
respawned and a revived one meet its intent; two deaths, a daemon die around the
death of its runner. One fault in a store is a death with the lock, or a failure
at any one step, with three mutations to make two batches in one process and
one in the other. Three states give an evicted lane, its successor and a third;
pumps of two commits and two rounds reach both limits with four snapshots. Three
calls are the least in which one joins two others or overtakes a pair, with two
generators one of three has to wait, and two replies let one be taken back and
its calls live on beside the next one's; the six scripts have each kind of claim
before and behind each other one that it can meet there.

`EditorInWindow = FALSE`: the editor acts everywhere but between the probe of
one path and its own rename, a window no portable system call closes and which
the code does not claim to close.

## Fairness

`ChangeSetCommit`: weak fairness of each actor's next step (an await completes);
strong fairness of entering the journal, because its chain is served in order and the
lock file's retries end in success or in `LockTimesOut` (the queues of the path locks
are modelled, and need none); strong fairness of the boot
recovery, which the boot schedules once and runs do not put off. Failures, starting a run,
cancelling, deaths and edits have none. `PidLock`: weak fairness of the next
file operation of a call under way; nothing obliges a caller to start, restamp,
release or probe, so a lock may be held for ever. `RunnerRetirement`: weak
fairness of the handshake's continuations, the tick, the exit handlers and the
runner's own steps, and of the start of a daemon that died; flushes that fail
are not fair, those that succeed are. `StoreFeed`: weak fairness of every lane's
next step, of the emission's and the polling floor's; that a free lock is taken
in the end says that the lock's retries outlast the other holders (they need not:
`AcquireFails`). `OwnerPersistence`: writes return, timers fire, resolved
promises go on. `TurnTools`: weak fairness of the continuations of a call, an
offer, a batch and a retry, and of what answers an interrupt: the stream, an ask
that waits, the grace after which a call is abandoned. No tool has to return, no
reply to end, no gate to open, nobody to answer. Parking, dispatching, submitting, accepting, flushing, faults and
deaths have none.

## The proofs

For every value of the constants, under the named assumptions of the modules
(files are numbers, plans are finite functions from and to different contents,
bounds are naturals, settle rounds at least two, runners at least one; `ProcOf`, `OwnerOf` and `By` are
functions; watchers are processes; a script gives each call a claim, overlap of
paths is symmetric, a turn has at least one reply; the markers `Absent` and `Junk` are not records):

| Theorem | States |
|---|---|
| `ChangeSetCommit_proof!TypeCorrect` | `Spec => []TypeOK` |
| `RecordFollows` | the record of an operation under way is where its run is |
| `RecoveryLeaves` | recovery and re-runs act only on operations nobody runs |
| `PathsApart` | no two runs of a process hold the same path, as each takes its slot before it awaits |
| `CirclesNever` | no set of runs waits in a circle |
| `LaterBytesOfRuns` | no run, forward or in compensation, replaces foreign bytes, if the editor keeps out of the window |
| `ChangeSetAlone_proof!BundlesKept` | the originals of an open operation stay, if runs are alone or bundles have room |
| `SettledForGood` | what is settled and in no run's hand is never reopened or decided the other way, if runs are alone |
| `ReportsHold` | what is reported committed or replayed is on disk, if runs are alone, records are remembered and the editor is away |
| `ChangeSetAtomic_proof!ActsAtOnce` | the commit implements `AtomicChange`, if runs are alone, nobody edits, no run begins on a set that a failure left open, and recovery's verdicts are published |
| `NoTempsLeft` | whoever settles an operation has swept its temps, but for a re-run under its key |
| `PidLock_proof!LockTypeCorrect` | `Spec => []TypeOK` |
| `LockExclusive` | two holders only after an outdated step |
| `OwnerPersistence_proof!OwnerTypeCorrect` | `Spec => []TypeOK` |
| `SidecarForward` | the sidecar never goes back to an older snapshot |
| `SettledDurable` | what was answered settled is in the sidecar |
| `Drained` | a drained state has committed its last snapshot, or says that it failed to |
| `StoreFeed_proof!StoreKeeps` | the store implements `KeptStore` |
| `FeedForward` | a listener is told of nothing older after something newer |
| `RunnerRetirement_proof!RetirementTypeCorrect` | `Spec => []TypeOK` |
| `ParkedIsTold` | a session is called parked over a runner that is gone or told to go in that step |
| `CommittedIntended` | a living runner that agreed to leave has its own intent on record |
| `NotRespawned` | no new child for a runner that left because it had agreed to |
| `LifeKept` | every behaviour is one of `SessionLife`, but for its fairness |
| `TurnTools_proof!TypesHold` | `Spec => []TypeOK` |
| `ConflictsStayApart` | calls whose claims conflict are never at work together |
| `ConflictsKeepOrder` | a call starts behind every earlier call it conflicts with |
| `CallsRunOnce` | a tool is called at most once, in a reply that was not reset |
| `CallsAnsweredOnce` | each call of a reply that stays has one result, each other none |
| `ContextKeepsOrder` | the modifiers of the context are applied in the order of the calls |

*Change sets.* `RecordFollowsRun` is not inductive: a recovery that holds a job
could publish over the record of a run. It needs `RecoveryLeavesLiveRuns` (a job
has no run and its writer is dead or this process), which in turn needs to know
that an operation has one run, that its writer is that run's process, and that
no actor has seen an operation that was never journaled (`Live`), and what an
actor record looks like at each step (`Shape`). The invariant is
`TypeOK /\ Shape /\ Live /\ RecordFollowsRun /\ RecoveryLeavesLiveRuns` (`IInv`); most
steps go through one lemma for a step of one actor (`ActorStep`, `QuietStep`).
The decisive case is `Inspect`: the live set and the pid together exclude every
run of the operation, and no later step can start one, as operations are numbered
afresh. `PathsExclusive` is about the slots: of two runs of a process with a slot on one
path, the one that still awaits it has the other before itself (`Queued`), and whoever
is before a run has a slot on the path it awaits, with nobody before it that is not
before the run as well (`Ranked`). Two holders of one path await nothing on it, so
`Queued` denies them. If the slot were taken behind the await (`InLineLate`) neither
would see the other, and TLC finds both inside. `NoCircularWait` needs `Sorted` besides:
the paths a run holds come before those it still lacks. Of those in a supposed
circle that wait for the greatest path any of them waits for, take one with the fewest
before it; by `Ranked` the one of the circle before it no longer awaits that path but
holds it, and would wait for a greater one. Who
waits for the journal's chain waits for a run that waits for nothing. `LaterBytesOfRuns` says what a run knows
when it writes: the bytes it probed are still there, or another run of the program
has written since, and what the program writes is nobody's later bytes. It is
false without its hypothesis, and says nothing of a recovery's restores
(`changeset_later_bytes`).

*Change sets, one at a time.* Recovery lists the records, takes no lock and acts
on what it listed. Two of them, or one beside a run, can therefore overwrite each
other's verdict (`changeset_lost_commit`), and what the one swept the other may
still need. So these three theorems have a hypothesis about the behaviour, not
about the constants: `Alone`, that one actor at most is past its path locks at any
time. Any number of actors, processes and owners may exist, wait, die at any step
and take over from one another. That is how one session with one process uses the
code; nothing in the code enforces it across processes.
- `BundlesKept`: besides the plans of open records, a plan counts whose originals
  an actor may need from what it holds in hand, listed, adopted or staged
  (`Relied`). The strengthened invariant `Covered` fails only where a sweep compacts
  while another actor has staged a bundle and not journaled it yet, which `Alone`
  excludes; so does `Roomy`, that there are no more plans than bundles are kept, and
  then runs may overlap as they like.
- `SettledForGood`: `UpToDate` says that what the engaged actor listed or adopted
  is still what the journal says, so a verdict is published over the very record it
  is about. A run that threw is the one actor that does not know its record: the
  publication that failed may have replaced it, and may have committed it. The theorem
  speaks of operations that no run has in hand.
- `ReportsHold`: a commit is reported behind the verification (`Verified`) or as a
  replay, which the current bytes or the idempotency key decide. (Commits that a failing
  publication left behind in a run's hand do not count until it lets them go.) That the key is
  free for a run that saw its files unplanned needs that commits are numbered
  without gaps (`Numbered`, `Keyed`), which compaction breaks
  (`changeset_replay`): hence `Remembered`, that every journaled operation still has
  its record. `EditorAway` says that the editor does not act between a run's first
  reread and its report, where nothing looks again.

*A change set at once or never.* The hypothesis of `ActsAtOnce`, `Undisturbed`, is
`Alone`, no outside edit, and either no fault or `StartsClean`: no run that passed its
check has a file in common with an open operation. Deaths remain, at any step, and
failing staging, writes, unlinks, restores and publications of a run. `StartsClean` is
needed behind a failure: the set may then stay half done, and a run of another plan that
finds its own originals among the half-done bytes builds on what was not to be seen (TLC
shows it with two plans on one file, one fault, and no other actor). With one thread and
a plan and its rewind it always holds, and `Undisturbed` is true of every state of
`changeset_crash`. `VerdictFails` is excluded besides, by an assumption on the constant:
`changeset_undecided.cfg` shows why.

The invariant is `Tidy`. It speaks of the operations that are open or in a run's hand
(`Pending`): a record that a failing publication has committed is one the run is about
to reopen. They have no file in common (`Apart`), and each of
their files is as planned from or as planned (`OursAll`). An open operation is in
somebody's hand, or left behind a failure, or its writer is dead and whoever is
engaged is a sweep that has it on its list (`Left`): so without a failure nothing is
open behind the sweep, and a run that starts on untouched files shares none with them.
`Running`, `Walking` and `Restoring` say (together `Placed`), for a run, its compensation
and a recovery, which of the targets are planned: those that the actor has written and
not yet walked back; all of them only behind a failure, once the run has thrown. A
compensation or a recovery that could not put a file back (`bad`,
`unresolved`) leaves the set half done and its record open, so a record is settled over
files that are all planned or all original. Every action
has a lemma that it keeps `Tidy`; four lemmas say what a step of a run, of a recovery or
of neither has to leave alone (`QuietTidy`, `HandTidy`, `OwnTidy`, `HoldTidy`).

For the refinement, `TidyShows` reads `World` and `Effect` off the operations one by
one; by `Apart` one operation at most hides a file. A step that moves bytes only where
they are hidden is not seen (`Unseen`), nor is a record that changes and stays
pending (`StateAtomic`). The last write of a run is `Land`, its new record `Offer`, the
step in which a run or a recovery lets a commit go `Keep`, the first restore of a set
that is all in place `TakeBack`, an aborted record `Drop`, and compaction `Forget`.

*No temps left.* `NoTempsLeft` has no hypothesis. `TempsTold` says of each actor which
temps of its operation can still be there (`Sweeps`): those of the targets that are left
to write, none behind the last write, none of an operation that a recovery is restoring
or has decided. So a commit leaves none, `Walked` and `TurnFails` drop them, and a
verdict but `unresolved` comes behind `Inspect`, which has dropped them.

*The lock.* `HoldersNamed` says that, unless a step was outdated, whoever holds
the lock is named by the record. It is kept because a step that replaces or
removes the record it read does so for one of three reasons: the record is its
own (`SeenOwn`), so a holder of it would share the owner, and an owner has one
caller at a time (`OwnersApart`); or its process is dead (`JudgedDead`, and the dead
stay dead), while holders live (`DeadStop`); or the path is empty. The lemma
`NoOtherHolder` is where these meet. TLC checked the whole invariant on the
instance of `pidlock_contend` before it was proved.

*The owner's snapshots.* Neither theorem is inductive by itself: that an older
snapshot is not written over a newer one depends on which lane writes. `OneLane`
says that until a request comes late only the newest lane of the owner has
anything to write, because a lane is evicted only when it is final and done.
`Agrees` ties the owner's chain to what each lane has in flight, `LanesSane`
orders a lane's accepted, scheduled and committed generations, `ReleasedSane` says
what is left of a lane that was let go, and `CallsSane` what a flush or drain
under way relies on from one round to the next. The lemmas of the first part say
what accepting, a pump that goes on and a pump that ends do to these; the theorem
has one step per action. `SettledDurable`, `Drained` and `SidecarForward` are
read off the same invariant, `OInv`.

*The store.* `StoreKeeps` is a refinement: what is kept is what the document
holds together with what a recovery left out. That a publication adds to the
document it replaces, and to nothing else, needs that the lock has one live
holder and that the document a holder read is still there (`Locked`); that a
mutation is taken in once needs that a lane's batch awaits its answers and is not
yet taken in before the rename (`LanesOK`); and what a process or a listener knows
was taken in (`Known`). Each action is then a step of `KeptStore` or leaves its
variables alone. `FeedForward` adds to this invariant, `KInv`, that no document a
process knows is ahead of the file, that the same contents have the same revision,
and that a publication which loses nothing raises it (`Chained`): bytes that no
publication overtook are then not behind what is known, and a listener asked for
the first time knows nothing yet (`Unasked`). The invariant is `FInv`.

*Retirement.* Whether the intent of a runner that agreed to leave is on record
depends on the requests and answers under way, so the invariant `RInv` speaks of
the pipes. Tokens are new everywhere when they are handed out (`Tokens`). The
requests in the pipe belong to the standing retirement, and nothing but words
follows a cancel or precedes a prepare that is still to be read (`Requests`). A
cancel that was granted means that the runner cannot commit to the token any more
(`Withdrawn`), so the daemon may clear the intent behind it. A runner is *bound*
to a token when it has committed to it or still may, by a request in the pipe or
one it is flushing for: then the daemon's fence, if it stands, is committing with
that token, and the record names it (`BoundIsFenced`, `BoundIsIntended`), until it
says parked. For `ParkedIsTold` it matters that the pid on record is the runner's
(`Processes`), so that a landing, the exit handler, the tick and the boot all look at the
process that lives, and that a kill beside the stamp finds the child in its seat.
`LifeKept`
shows each action to be a step of `SessionLife` or to leave its variables alone.

*Tool calls.* The decisive step is `Call(b)`. If `b` started early it conflicts
with no earlier call of its reply. If not, it runs in its batch: the batches are
intervals of the reply's calls (`Batches`), so an earlier call that conflicts with
it lies in an earlier one, and all of that one's generators have ended (`Rounds`);
it was heard, so it is done (`Running`), and its tool is at work only if it was
abandoned, under an interrupt, when no tool is called any more, or because it was
told to stop, when its reply was reset. A later call of the reply that conflicts
with `b` has not started for the same reasons. `Starting` ties the state of an
offer to the step of its call and its place in the round, `Fates` says what
became of each reply, and with `Answered`, how many results a call has at each of
them, it gives `AnsweredOnce`. The invariant is `TInv`. For `ContextInOrder` the
modifiers queued in a batch are those of its calls that were heard, none applied
yet, and all applied ones are of earlier batches.

TLC checked `OInv`, the store's `FInv`, `RInv` and `TInv` on the instances of
`owner_lives`, `store_feed`, `retirement_handshake` and `turn_tools` before they
were proved, and `Tidy` on that of `changeset_crash` and on one of two processes with
overlapping plans, faults and deaths.

*Only model-checked.* Everything temporal under fairness (`InterruptedSettles`,
`RunsReturn`, `StaleGivesWay`, `CommittedParks`, `LanesGoOn`, `CatchesUp`,
`GetsThere`, `AbortEnds`, `NobodyForgotten`): liveness and ENABLED are out of the
prover's reach. So is the fairness in `LifeSpec`, whose safety is `LifeKept`.
No module declares a RECURSIVE operator.

## What the models found

1. `changeset_replay`: the suffix of an idempotency key counts prior commits
   that are still listed, and compaction drops old ones; the count repeats, the
   journal answers with another commit's record, and the run reports `replayed`
   with nothing written.
2. `changeset_lost_commit`: recovery acts on a list it read before other awaits
   and takes no lock; it can restore originals under a run that is writing the
   same files, and the run's operation is committed all the same.
3. `changeset_later_bytes`: recovery classifies all targets and then restores
   without reading again; what an editor saves in between is lost, which the
   documentation excludes.
4. `pidlock_stolen`: the record that a claim confirms and replaces is not the
   one whose holder it judged dead. Released and taken again between the two
   reads, the lock is stolen from a live holder.

5. `retirement_reopen`: a runner's exit is turned into a park by the handshake
   or by the reconciling tick. If the tick is first, the handshake finds its
   intent gone, and leaves the fence closed: the session is parked and every
   dispatch to it is held, although the dispatch was told that it would deliver
   once the park has landed. (A lost answer to a cancel closes the fence around a
   live runner in the same way; there the code means it.)

`PROJECT.json` quotes the lines and the documents for each of these. One more has
no property of its own, because `TurnTools` states its properties around it:

6. A reply that is cut inside a tool call is taken back and asked again
   (`turn-machine.ts:1534-1562`) with `continue`, and nothing resets
   `iter.early`: the calls of the cut reply that started early have run, or go on
   beside those of the new one, while the notice (line 1538) says "nothing ran".
   They are calls that read, so a write of the new reply can meet a read of the
   old; `ConflictsApart` excuses the calls of cut replies.

The rest have a property and a configuration each, named here:

7. `changeset_flush`: a publication whose directory flush fails behind its rename
   rejects, although the record is replaced (`durablePublish.ts:329-347`);
   `docs/DURABILITY.md:14-15` says that a failed publication preserves the prior
   destination. If the record was the committed one, the operation takes the
   rejection for a failure and publishes `compensating` and `aborted` over it
   (`operationJournal.ts:343-356`): a commit that a reader may have seen is taken
   back. If `aborted` fails in its turn, the boot finishes it.
8. `changeset_undecided`: recovery swallows a verdict that cannot be published
   (`changeSetCommit.ts:610-612`), so an operation stays open after its originals
   are back. A later plan commits over one of its files, with the very bytes the
   open operation had planned; the next boot takes them for that operation's own
   and restores the original over the newer commit
   (`docs/CHANGE-TRANSACTIONS.md:213-218`).
9. `retirement_respawn`: the respawned child's pid reaches the record by way of an
   import (`roster.ts:600-604`), and the idle edge fires before (`654`). A park
   requested of the dead runner is completed there: `completeRequestedPark`
   (`concourseWorkers.ts:2596-2614`) sees a dead pid, kills nobody and stamps
   `parked`, and the new child lives under a record that is to have "no runner by
   intent" (`stateLifecycle.ts:475`).
10. `retirement_cancel`: a runner that has answered a cancel is killed and parked by
   the park of all sessions; then the answer arrives and takes the expected exit
   back (`runnerQuiescence.ts:130-134`). The exit counts as a crash, and a respawn
   is armed under a parked record (against `prove-parked-state.ts:128`).
11. `retirement_request`: at the end of a turn the settled mark waits behind an
   import (`roster.ts:727-732`), and the idle edge comes first: a requested park
   finds the turn in flight and returns (`concourseWorkers.ts:2607`). When the mark
   lands nobody looks again until the next idle edge, though "finishes its turn, then
   parks" (`daemon/main.ts:744`).
12. `store_missed`: a failing read of a listener that has been told nothing yet leaves
   the stat of the unread bytes remembered (`fileStore.ts:364-367`), and later ticks
   return at 359. The floor's promise that what was missed is delivered
   (`durableOperationMatrix.ts:83`, `86`) holds only once the file changes again.

## What is left out

Of the modelled components: undecodable payloads and torn records, the generic
`recoverJournalDir` (only the health probe calls it), the other boot sweeps, the
lock's fallback on file systems without hard links, directories that do not
exist yet, and Windows' transient errors; a store lock that is lost while its
holder lives, how watchers are started, the copy of damaged bytes; the writer
epoch (nothing reads it back). Words that a runner accepted before its
commitment and queues after it are lost (`cli/run.ts:1478` ignores the answer of
`invalidate()`); the model has the step, and no property forbids it, because the
promise of `prove-runner-quiescence.ts:30` is about the class alone. Of the
system: everything marked – in the inventory. Providers, tools, the interface,
extensions and the native helpers stay out for good: protocol translation, input
and output, layout; they are most of the repository's lines. The cryptography of
the channel is out of a model checker's reach.

## The plan

In order; each with an MC module, configurations, and a proof module where a
theorem is named.

1. `ChangeSetCommit`, `AtomicChange`, `PidLock`, `RunnerRetirement`,
   `SessionLife`, `FileStore`, `StoreFeed`, `KeptStore`, `OwnerPersistence`,
   `TurnTools`, and the proofs listed above (done).
2. `CrewInbox` over `FileStore`, task claims on the pid lock, and the hybrid
   logical clock as a pure module with proofs of monotonicity.
3. The rest of the turn machine: compaction, the recovery loops, stop hooks and
   the closing turn.

Runs are few on purpose; questions that share an instance share a run.
