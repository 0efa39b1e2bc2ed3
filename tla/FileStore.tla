----------------------------- MODULE FileStore -----------------------------
(***************************************************************************)
(* A JSON document that several processes update: substrate/fileStore.ts   *)
(* on substrate/groupCommit.ts.  A process collects the mutations that     *)
(* arrive while it is busy into one batch; a batch takes the file's lock,  *)
(* reads the document, applies, publishes by rename, lets the lock go and  *)
(* answers its callers.                                                    *)
(*                                                                         *)
(* A document is its revision and the set of mutations it contains.  The   *)
(* lock is proper-lockfile's: it outlives a holder that dies, and is then  *)
(* for the taking once it has gone stale.  That a holder lives but sleeps  *)
(* for longer than that, which assertStillHeld is about, is left out.      *)
(***************************************************************************)
EXTENDS Naturals

CONSTANTS
  Proc,        \* the processes that have the store open
  Mutation,    \* the mutations; each is submitted at most once
  By,          \* the process whose caller submits a mutation
  FailOpen,    \* the store's onReadFailure is 'empty' (else it is 'throw')
  Batching,    \* MERCURY_GROUP_COMMIT
  None,        \* nothing known
  MaxFaults    \* bound: damages, failing reads, writes and flushes, deaths of processes

ASSUME StoreAssumption ==
  /\ {FailOpen, Batching} \subseteq BOOLEAN
  /\ MaxFaults \in Nat
  /\ By \in [Mutation -> Proc]

VARIABLES
  disk,     \* the file; one that is damaged still counts what it contained
  lock,     \* the lock directory beside it: "free", "held", or "stale" once its holder died
  lane,     \* per process: the group-commit lane
  rt,       \* per process: the store's runtime, as far as the lane uses it
  outcome,  \* per mutation: what its caller knows
  dropped,  \* history: what recoveries left out
  faults

storeVars == <<disk, lock, lane, rt, outcome, dropped, faults>>

Document == [rev : Nat, muts : SUBSET Mutation]
Empty    == [rev |-> 0, muts |-> {}]

Bytes == [rev |-> disk.rev, muts |-> disk.muts]

IdleLane == [queue |-> {}, batch |-> {}, done |-> {}, pc |-> "idle",
             next |-> Empty, recovery |-> FALSE]

\* raw: the document the process published or emitted last; seen: its revision watermark.
NewRuntime == [raw |-> None, seen |-> 0]

At(p, pc)   == lane[p].pc = pc
Goto(p, pc) == lane' = [lane EXCEPT ![p].pc = pc]

Fault == faults < MaxFaults /\ faults' = faults + 1

----------------------------------------------------------------------------
(* The callers *)

Answers(set, answer) ==
  outcome' = [m \in Mutation |-> IF m \in set THEN answer ELSE outcome[m]]

Submit(p, m) ==
  /\ By[m] = p /\ outcome[m] = "new"
  /\ Answers({m}, "pending")
  /\ lane' = [lane EXCEPT ![p].queue = @ \cup {m}]
  /\ UNCHANGED <<disk, lock, rt, dropped, faults>>

\* The lane with its batch behind it.
Behind(p, pc) == [IdleLane EXCEPT !.queue = lane[p].queue, !.pc = pc]

\* FailBatch as it would be if a failure left the lock where it is.
FailBatchAndKeep(p, pc) ==
  /\ Answers(lane[p].batch, "rejected")
  /\ lane' = [lane EXCEPT ![p] = Behind(p, "idle")]

\* A batch that fails answers everybody before it lets the lock go.
FailBatch(p, pc) ==
  /\ Answers(lane[p].batch, "rejected")
  /\ lane' = [lane EXCEPT ![p] = Behind(p, pc)]

----------------------------------------------------------------------------
(* The lane: one batch at a time *)

Batches(queue) == IF Batching THEN {queue} ELSE {{m} : m \in queue}

\* ... and the first thing it asks is whether the file is there: ensureExists.
Drain(p) ==
  /\ At(p, "idle") /\ lane[p].queue # {}
  /\ \E batch \in Batches(lane[p].queue) :
       lane' = [lane EXCEPT ![p].queue = @ \ batch, ![p].batch = batch,
                            ![p].pc = IF disk.state = "missing" THEN "seed" ELSE "acquire"]
  /\ UNCHANGED <<disk, lock, rt, outcome, dropped, faults>>

\* SeedLands as it would be if the seed were renamed into place.
SeedLandsAlways == TRUE

\* A missing file is seeded by a link, which fails if it has appeared since.
SeedLands == disk.state = "missing"

Seed(p) ==
  /\ At(p, "seed")
  /\ disk' = IF SeedLands THEN [state |-> "ready", rev |-> 0, muts |-> {}] ELSE disk
  /\ Goto(p, "acquire")
  /\ UNCHANGED <<lock, rt, outcome, dropped, faults>>

Acquire(p) ==
  /\ At(p, "acquire") /\ lock # "held"
  /\ lock' = "held"
  /\ Goto(p, "read")
  /\ UNCHANGED <<disk, rt, outcome, dropped, faults>>

\* The retries are spent before the lock is free, or stale; or ensureExists fails, on the
\* way to its link or behind it.
AcquireFails(p) ==
  /\ \/ At(p, "acquire") /\ lock # "free" /\ UNCHANGED faults
     \/ (At(p, "seed") \/ At(p, "acquire")) /\ Fault
  /\ FailBatch(p, "idle")
  /\ UNCHANGED <<disk, lock, rt, dropped>>

\* The mutations are applied, each to the result of the one before; those that throw are
\* left out, and if all do there is nothing to publish.
ApplyTo(p, base, recovery) ==
  \E done \in SUBSET lane[p].batch :
    lane' = [lane EXCEPT ![p].done = done,
                         ![p].next = [rev |-> base.rev + 1, muts |-> base.muts \cup done],
                         ![p].recovery = recovery,
                         ![p].pc = IF done = {} THEN "release" ELSE "publish"]

Read(p) ==
  /\ At(p, "read") /\ disk.state = "ready"
  /\ ApplyTo(p, Bytes, FALSE)
  /\ UNCHANGED <<disk, lock, rt, outcome, dropped, faults>>

\* What a mutation of a fail-open store starts from when the file cannot be read: what
\* this process knew of it last.
LastGood(p) == [muts |-> IF rt[p].raw = None THEN {} ELSE rt[p].raw.muts,
                rev  |-> rt[p].seen]

\* The file is damaged, or reading it fails.
ReadFails(p) ==
  /\ At(p, "read")
  /\ \/ disk.state = "damaged" /\ UNCHANGED faults
     \/ disk.state = "ready" /\ Fault
  /\ IF FailOpen THEN ApplyTo(p, LastGood(p), TRUE) /\ UNCHANGED outcome
     ELSE FailBatch(p, "release")
  /\ UNCHANGED <<disk, lock, rt, dropped>>

\* Publishing fails before the rename: nothing has changed.
PublishFails(p) ==
  /\ At(p, "publish") /\ Fault
  /\ FailBatch(p, "release")
  /\ UNCHANGED <<disk, lock, rt, dropped>>

\* The rename.
Publish(p) ==
  /\ At(p, "publish")
  /\ disk' = [state |-> "ready", rev |-> lane[p].next.rev, muts |-> lane[p].next.muts]
  /\ dropped' = IF lane[p].recovery THEN dropped \cup (disk.muts \ lane[p].next.muts)
                ELSE dropped
  /\ Goto(p, "flush")
  /\ UNCHANGED <<lock, rt, outcome, faults>>

\* Flushing the directory fails: the callers are told that it all failed.
FlushFails(p) ==
  /\ At(p, "flush") /\ Fault
  /\ FailBatch(p, "release")
  /\ UNCHANGED <<disk, lock, rt, dropped>>

\* publish(), behind the file: the runtime knows what it has published.
Book(p) ==
  /\ At(p, "flush")
  /\ rt' = [rt EXCEPT ![p].raw = lane[p].next,
                      ![p].seen = IF @ > lane[p].next.rev THEN @ ELSE lane[p].next.rev]
  /\ Goto(p, "release")
  /\ UNCHANGED <<disk, lock, outcome, dropped, faults>>

\* The lock goes, then the callers are told: those that threw, what they threw.
Release(p) ==
  /\ At(p, "release")
  /\ lock' = "free"
  /\ outcome' = [m \in Mutation |-> IF m \notin lane[p].batch THEN outcome[m]
                                    ELSE IF m \in lane[p].done THEN "resolved" ELSE "rejected"]
  /\ lane' = [lane EXCEPT ![p] = Behind(p, "idle")]
  /\ UNCHANGED <<disk, rt, dropped, faults>>

----------------------------------------------------------------------------
(* Faults from outside *)

Damage ==
  /\ disk.state = "ready" /\ Fault
  /\ disk' = [disk EXCEPT !.state = "damaged"]
  /\ UNCHANGED <<lock, lane, rt, outcome, dropped>>

\* A process dies and is started again; a lock it held stays where it is.
Crash(p) ==
  /\ Fault
  /\ Answers(lane[p].queue \cup lane[p].batch, "unknown")
  /\ lane' = [lane EXCEPT ![p] = IdleLane]
  /\ rt' = [rt EXCEPT ![p] = NewRuntime]
  /\ lock' = IF At(p, "idle") \/ At(p, "seed") \/ At(p, "acquire") THEN lock ELSE "stale"
  /\ UNCHANGED <<disk, dropped>>

----------------------------------------------------------------------------
Init ==
  /\ disk = [state |-> "missing", rev |-> 0, muts |-> {}]
  /\ lock = "free"
  /\ lane = [p \in Proc |-> IdleLane]
  /\ rt = [p \in Proc |-> NewRuntime]
  /\ outcome = [m \in Mutation |-> "new"]
  /\ dropped = {}
  /\ faults = 0

Step(p) ==
  \/ Drain(p) \/ Seed(p) \/ Acquire(p) \/ AcquireFails(p) \/ Read(p)
  \/ ReadFails(p) \/ PublishFails(p) \/ Publish(p) \/ FlushFails(p) \/ Book(p)
  \/ Release(p)
=============================================================================
