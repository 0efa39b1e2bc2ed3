----------------------------- MODULE StoreFeed -----------------------------
(***************************************************************************)
(* A subscriber of a FileStore: how the runtime of a process tells its     *)
(* listener of the commits of this process (from the lane) and of those of *)
(* others (from the file, on a watcher's event or the polling floor), and  *)
(* how it keeps the two and the read at subscription apart.                *)
(*                                                                         *)
(* `bytes` is what a read of the file has returned and its continuation    *)
(* has yet to look at; `got` is what the listener was told last.  A stat   *)
(* that fails, which only makes the emission read, is left out.            *)
(***************************************************************************)
EXTENDS FileStore

CONSTANTS
  Watcher,   \* the processes with a listener
  MaxSubs    \* bound: subscriptions

ASSUME FeedAssumption == Watcher \subseteq Proc /\ MaxSubs \in Nat

VARIABLES
  feed,  \* per process: its listener and the emission under way
  subs   \* subscriptions so far

vars == <<storeVars, feed, subs>>

\* moved: publishEpoch has changed since the emission began; passed: emissionSeq has since
\* the subscription; first, firstBytes: the read at subscription; blind, a history variable:
\* since an emission told the listener something, a read for it has failed and need not be
\* repeated.
NoFeed == [on |-> FALSE, pc |-> "off", moved |-> FALSE, key |-> None, statKey |-> None,
           bytes |-> None, first |-> "none", firstBytes |-> None, passed |-> FALSE, got |-> None,
           blind |-> FALSE]

\* fanOut, of one listener.
Told(f, doc) == [f EXCEPT !.passed = TRUE, !.got = doc, !.blind = FALSE]

Is(p, pc) == feed[p].pc = pc

Seeded == [state |-> "ready", rev |-> 0, muts |-> {}]
DocOf(bytes) == IF bytes.state = "missing" THEN None ELSE [rev |-> bytes.rev, muts |-> bytes.muts]
Seen(seen, rev) == IF rev = 0 THEN seen ELSE rev

----------------------------------------------------------------------------
(* Subscription *)

Subscribe(p) ==
  /\ ~feed[p].on /\ subs < MaxSubs
  /\ subs' = subs + 1
  /\ feed' = [feed EXCEPT ![p].on = TRUE, ![p].first = "reading", ![p].passed = FALSE, ![p].got = None,
                          ![p].blind = FALSE]
  /\ UNCHANGED storeVars

\* The last listener goes: stopWatching forgets what was seen.
Unsubscribe(p) ==
  /\ feed[p].on
  /\ feed' = [feed EXCEPT ![p].on = FALSE, ![p].first = "none", ![p].firstBytes = None,
                          ![p].statKey = None]
  /\ rt' = [rt EXCEPT ![p] = NewRuntime]
  /\ UNCHANGED <<disk, lock, lane, outcome, dropped, faults, subs>>

FirstRead(p) ==
  /\ feed[p].first = "reading"
  /\ feed' = [feed EXCEPT ![p].first = "read", ![p].firstBytes = disk]
  /\ UNCHANGED <<storeVars, subs>>

\* 'recoverable': the listener is told nothing.
FirstReadFails(p) ==
  /\ feed[p].first = "reading" /\ Fault
  /\ feed' = [feed EXCEPT ![p].first = "none", ![p].blind = @ \/ ~feed[p].passed]
  /\ UNCHANGED <<disk, lock, lane, rt, outcome, dropped, subs>>

\* The value at subscription, unless something has been emitted in the meantime.
FirstValue(p) ==
  /\ feed[p].first = "read"
  /\ LET bytes == feed[p].firstBytes
         tell  == ~feed[p].passed /\ bytes.state # "damaged"
     IN  /\ feed' = [feed EXCEPT ![p].first = "none", ![p].firstBytes = None,
                       ![p].got = IF tell THEN [rev |-> bytes.rev, muts |-> bytes.muts] ELSE @]
         /\ rt' = IF tell /\ rt[p].seen = 0 THEN [rt EXCEPT ![p].seen = bytes.rev] ELSE rt
  /\ UNCHANGED <<disk, lock, lane, outcome, dropped, faults, subs>>

----------------------------------------------------------------------------
(* emitIfChanged *)

\* On the floor's tick, or on an event of the watcher, which forgets the stat.
EmitBegin(p) ==
  /\ feed[p].on /\ Is(p, "off")
  /\ \E statKey \in {feed[p].statKey, None} :
       feed' = [feed EXCEPT ![p].pc = "stat", ![p].moved = FALSE, ![p].statKey = statKey]
  /\ UNCHANGED <<storeVars, subs>>

EmitStat(p) ==
  /\ Is(p, "stat")
  /\ IF disk = feed[p].statKey /\ ~feed[p].moved
     THEN feed' = [feed EXCEPT ![p].pc = "off"]
     ELSE feed' = [feed EXCEPT ![p].pc = "read", ![p].key = disk]
  /\ UNCHANGED <<storeVars, subs>>

EmitRead(p) ==
  /\ Is(p, "read")
  /\ feed' = [feed EXCEPT ![p].pc = "act", ![p].bytes = disk]
  /\ UNCHANGED <<storeVars, subs>>

\* Remembers as it would be if the stat were kept whatever was published since.
RemembersAlways(p) == TRUE

\* The stat goes with the bytes only if this process has not published in between.
Remembers(p) == ~feed[p].moved

\* Given up as it would be if a failing read remembered the stat whatever was emitted before.
GivesUpAlways(p) == TRUE

\* A failing read is given up; but where nothing has been emitted yet it passes for that of
\* a missing file, and the stat of the bytes that were not read is remembered.
GivesUp(p) == rt[p].raw = None

EmitReadFails(p) ==
  /\ Is(p, "read") /\ Fault
  /\ feed' = [feed EXCEPT ![p] =
       LET f == [@ EXCEPT !.pc = "off", !.key = None] IN
       IF GivesUp(p) /\ Remembers(p)
       THEN [f EXCEPT !.statKey = feed[p].key, !.blind = @ \/ rt[p].raw = None]
       ELSE f]
  /\ UNCHANGED <<disk, lock, lane, rt, outcome, dropped, subs>>

\* Emits as it would be if the bytes were not held against the publications since.
EmitsUnfenced(p) == feed[p].on /\ DocOf(feed[p].bytes) # rt[p].raw

Emits(p) == ~feed[p].moved /\ feed[p].on /\ DocOf(feed[p].bytes) # rt[p].raw

EmitAct(p) ==
  /\ Is(p, "act")
  /\ LET bytes == feed[p].bytes
         quiet == rt[p].raw = None /\ bytes = Seeded
         tell  == Emits(p) /\ bytes.state # "damaged" /\ ~quiet
         f == [feed[p] EXCEPT !.pc = "off", !.bytes = None, !.key = None,
                              !.statKey = IF Remembers(p) THEN feed[p].key ELSE @]
     IN  /\ feed' = [feed EXCEPT ![p] =
                       IF tell THEN Told(f, [rev |-> bytes.rev, muts |-> bytes.muts]) ELSE f]
         /\ rt' = IF tell THEN [rt EXCEPT ![p].raw = DocOf(bytes), ![p].seen = Seen(@, bytes.rev)]
                  ELSE IF Emits(p) /\ quiet THEN [rt EXCEPT ![p].raw = Empty]
                  ELSE rt
  /\ UNCHANGED <<disk, lock, lane, outcome, dropped, faults, subs>>

----------------------------------------------------------------------------
(* The store's own steps, as the feed sees them *)

\* publish() ends the emission under way and tells the listener itself.
BookAndTell(p) ==
  /\ Book(p)
  /\ LET f == [feed[p] EXCEPT !.moved = TRUE, !.statKey = None] IN
     feed' = [feed EXCEPT ![p] = IF feed[p].on /\ rt[p].raw # lane[p].next
                                 THEN Told(f, lane[p].next) ELSE f]
  /\ UNCHANGED subs

CrashAll(p) == Crash(p) /\ feed' = [feed EXCEPT ![p] = NoFeed] /\ UNCHANGED subs

Quiet(p) ==
  \/ Drain(p) \/ Seed(p) \/ Acquire(p) \/ AcquireFails(p) \/ Read(p)
  \/ ReadFails(p) \/ PublishFails(p) \/ Publish(p) \/ FlushFails(p)
  \/ Release(p)

Listen(p) == \/ Subscribe(p) \/ Unsubscribe(p)
             \/ FirstRead(p) \/ FirstReadFails(p) \/ FirstValue(p)
             \/ EmitBegin(p) \/ EmitStat(p) \/ EmitRead(p) \/ EmitReadFails(p) \/ EmitAct(p)

FeedInit == Init /\ feed = [p \in Proc |-> NoFeed] /\ subs = 0

Next ==
  \/ \E p \in Proc : Quiet(p) /\ UNCHANGED <<feed, subs>>
  \/ \E p \in Proc : BookAndTell(p)
  \/ \E p \in Proc : CrashAll(p)
  \/ \E p \in Proc, m \in Mutation : Submit(p, m) /\ UNCHANGED <<feed, subs>>
  \/ Damage /\ UNCHANGED <<feed, subs>>
  \/ \E p \in Watcher : Listen(p)

Spec == FeedInit /\ [][Next]_vars

\* The event loop and the polling floor.  That a lock that is free is taken in the end
\* says that proper-lockfile's retries outlast the other holders.
Go(p) == \/ Drain(p) \/ Seed(p) \/ Acquire(p) \/ Read(p) \/ ReadFails(p)
         \/ Publish(p) \/ Release(p)

Fairness ==
  /\ \A p \in Proc : /\ WF_vars(Go(p) /\ UNCHANGED <<feed, subs>>)
                     /\ WF_vars(BookAndTell(p))
  /\ \A p \in Watcher : /\ WF_vars(FirstRead(p)) /\ WF_vars(FirstValue(p))
                        /\ WF_vars(EmitBegin(p)) /\ WF_vars(EmitStat(p))
                        /\ WF_vars(EmitRead(p)) /\ WF_vars(EmitAct(p))

FairSpec == Spec /\ Fairness

----------------------------------------------------------------------------
(* Properties *)

Kept == INSTANCE KeptStore WITH
  kept <- disk.muts \cup dropped,
  told <- {m \in Mutation : outcome[m] = "resolved"}

\* A caller whose mutation was resolved finds it in the document, and no batch of any
\* process takes it out again: not a seed that comes late, not a batch that waited for a
\* lock whose holder died, not a publication that failed half way.  Only the recovery of a
\* damaged fail-open store leaves anything out (groupCommitLane, ensureExists, publish).
KeepsWhatItTold == Kept!Spec

\* A listener that has been told of a document by the commits of its own process or by the
\* watcher is not told of an older one next, however the reads of the file and the
\* publications of the process overlap (emitOnce's publishEpoch).  The read at subscription
\* (FirstValue) is not held against an emission that is under way, and nothing is promised
\* across a recovery, which may start the revisions over.
NeverOldAfterNew ==
  [][\A p \in Watcher :
       rt[p].raw # None /\ feed[p].got = rt[p].raw /\ feed'[p].got # None /\ dropped = {}
         => feed'[p].got.rev >= feed[p].got.rev]_vars

\* No lane is stuck: whatever fails, and whoever dies with the lock, each lane is done with
\* its batch in the end (drain's finally, the lock's staleness).
LanesGoOn == \A p \in Proc : []<>At(p, "idle")

UpToDate(p) == ~feed[p].on \/ disk.state # "ready"
                 \/ (feed[p].got # None /\ feed[p].got.muts = disk.muts)

\* A listener that stays ends up with what the file contains, whoever published it and
\* however often an emission was given up in between (lastStatKey, emitDirty): a read that
\* fails is repeated, unless nothing had been emitted before it or it was the read at
\* subscription.
CatchesUp == \A p \in Watcher : []<>(feed[p].blind \/ UpToDate(p))

\* "A missed rename event is still bounded by the poll floor" (durableOperationMatrix.ts:83):
\* a listener that has been told a value is brought up to date by a later tick, whatever
\* read failed.
FloorCatchesUp == \A p \in Watcher : []<>(feed[p].got = None \/ UpToDate(p))
=============================================================================
