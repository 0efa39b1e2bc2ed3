-------------------------- MODULE OwnerPersistence --------------------------
(***************************************************************************)
(* How a run's snapshots get to its sidecar file: a coordinator's state is *)
(* kept in an owner-scoped store, each state has a lane that commits the   *)
(* latest accepted snapshot (substrate/serialGeneration.ts, under          *)
(* persistenceActor.ts), and the commits of one owner are written one      *)
(* after the other (runSidecar.ts), whichever lane they come from.  A      *)
(* state that leaves the store is drained; the owner's next request gets a *)
(* new one.                                                                *)
(*                                                                         *)
(* One owner.  A snapshot is its number in the order of acceptance.        *)
(***************************************************************************)
EXTENDS Naturals, Sequences

CONSTANTS
  Caller,      \* those who flush or drain, one call at a time each
  MaxCommits,  \* MAX_COMMITS_PER_PUMP
  MaxRounds,   \* MAX_SETTLE_ROUNDS
  MaxLives,    \* bound: states made for the owner
  MaxAccepts,  \* bound: snapshots accepted
  MaxFaults    \* bound: writes that fail

ASSUME OwnerAssumption ==
  /\ {MaxCommits, MaxLives} \subseteq Nat \ {0}
  /\ MaxRounds \in Nat \ {0, 1}
  /\ {MaxAccepts, MaxFaults} \subseteq Nat

Life == 1 .. MaxLives

VARIABLES
  lives,    \* states made so far
  current,  \* the one in the store, or 0
  lane,     \* per life
  chain,    \* the owner's write chain: the write under way, then those behind it
  disk,     \* the snapshot in the sidecar
  stamp,    \* snapshots accepted so far
  caller,   \* the flushes and drains under way
  closing,  \* the life that was disposed of at shutdown, or 0
  faults

vars == <<lives, current, lane, chain, disk, stamp, caller, closing, faults>>

\* inFlight: the snapshot being committed, 0 without an active pump; count: the commits of
\* this pump; cut: the pump ended at its limit.
FreshLane == [accepted |-> 0, committed |-> 0, inFlight |-> 0, count |-> 0, cut |-> FALSE,
              failed |-> FALSE, released |-> FALSE, timer |-> FALSE]

NoCall == [pc |-> "off", life |-> 0, kind |-> "flush", round |-> 0, asked |-> 0, answer |-> "none"]

State(ln) == IF ln.failed THEN "degraded"
             ELSE IF ln.accepted = 0 THEN "clean"
             ELSE IF ln.committed < ln.accepted THEN "pending" ELSE "settled"

HasUncommittedWork(ln) == State(ln) \in {"pending", "degraded"}

Write(l, n) == [life |-> l, snapshot |-> n, landed |-> FALSE]

----------------------------------------------------------------------------
(* pump *)

CanCommit(ln) == ~ln.released /\ ln.committed < ln.accepted

\* Starts as it would be if a pump that is active were not looked at.
StartsAnyway(ln) == CanCommit(ln)

Starts(ln) == ln.inFlight = 0 /\ CanCommit(ln)

Committing(ln, count) ==
  [ln EXCEPT !.inFlight = ln.accepted, !.count = count, !.cut = FALSE]

\* The lane l, made ln by what went before, is pumped.
Pump(l, ln) ==
  /\ lane' = [lane EXCEPT ![l] = IF Starts(ln) THEN Committing(ln, 1) ELSE ln]
  /\ chain' = IF Starts(ln) THEN Append(chain, Write(l, ln.accepted)) ELSE chain

\* A caller that pumps waits for the pump's promise, which may have resolved already.
Waits(ln) == IF ln.inFlight # 0 \/ CanCommit(ln) THEN "waiting" ELSE "woken"

\* The pump's promise resolves.
Wake(l) ==
  caller' = [c \in Caller |-> IF caller[c].life = l /\ caller[c].pc = "waiting"
                              THEN [caller[c] EXCEPT !.pc = "woken"] ELSE caller[c]]

\* GoesOn as it would be if a pump made one commit.
GoesOnNever(ln) == FALSE

\* The pump's loop, after a commit.
GoesOn(ln) == CanCommit(ln) /\ ln.count < MaxCommits

AtLimit(ln) == CanCommit(ln) /\ ln.count = MaxCommits

\* Counts as it would be if `accepted` were read behind the await.
CountsAccepted(ln) == ln.accepted

\* What a commit that returns has committed: what was accepted when it began.
Counts(ln) == ln.inFlight

\* The write at the head of the chain replaces the sidecar.
Land ==
  /\ chain # <<>> /\ ~Head(chain).landed
  /\ disk' = Head(chain).snapshot
  /\ chain' = [chain EXCEPT ![1].landed = TRUE]
  /\ UNCHANGED <<lives, current, lane, stamp, caller, closing, faults>>

CommitDone ==
  /\ chain # <<>> /\ Head(chain).landed
  /\ LET l  == Head(chain).life
         ln == [lane[l] EXCEPT !.committed = Counts(lane[l]), !.failed = FALSE]
     IN  IF GoesOn(ln)
         THEN /\ lane' = [lane EXCEPT ![l] = Committing(ln, ln.count + 1)]
              /\ chain' = Append(Tail(chain), Write(l, ln.accepted))
              /\ UNCHANGED caller
         ELSE /\ lane' = [lane EXCEPT ![l] = [ln EXCEPT !.inFlight = 0, !.cut = AtLimit(ln)]]
              /\ chain' = Tail(chain)
              /\ Wake(l)
  /\ UNCHANGED <<lives, current, disk, stamp, closing, faults>>

\* The write fails, before its rename or behind it: the pump ends.
CommitFails ==
  /\ chain # <<>> /\ faults < MaxFaults
  /\ faults' = faults + 1
  /\ LET l == Head(chain).life IN
       /\ lane' = [lane EXCEPT ![l] = [@ EXCEPT !.failed = TRUE, !.inFlight = 0]]
       /\ Wake(l)
  /\ chain' = Tail(chain)
  /\ UNCHANGED <<lives, current, disk, stamp, closing>>

----------------------------------------------------------------------------
(* The coordinator *)

\* The state in the store, a new one if there is none, accepts a snapshot and schedules its
\* commit: at once, or when the timer fires.
Accept ==
  /\ stamp < MaxAccepts
  /\ stamp' = stamp + 1
  /\ \E l \in Life :
       /\ IF current # 0 THEN l = current /\ UNCHANGED lives
          ELSE l = lives + 1 /\ lives' = l
       /\ current' = l
       /\ \/ Pump(l, [lane[l] EXCEPT !.accepted = stamp', !.timer = FALSE])
          \/ /\ lane' = [lane EXCEPT ![l].accepted = stamp', ![l].timer = TRUE]
             /\ UNCHANGED chain
  /\ UNCHANGED <<disk, caller, closing, faults>>

TimerFires(l) ==
  /\ lane[l].timer
  /\ Pump(l, [lane[l] EXCEPT !.timer = FALSE])
  /\ UNCHANGED <<lives, current, disk, stamp, caller, closing, faults>>

\* flush and drain stop the timer and settle.
Settle(c, kind) ==
  /\ caller[c].pc = "off" /\ current # 0
  /\ LET ln == [lane[current] EXCEPT !.timer = FALSE] IN
       /\ Pump(current, ln)
       /\ caller' = [caller EXCEPT ![c] = [pc |-> Waits(ln), life |-> current, kind |-> kind,
                                           round |-> 1, asked |-> ln.accepted, answer |-> "none"]]

Flush(c) ==
  /\ Settle(c, "flush")
  /\ UNCHANGED <<lives, current, disk, stamp, closing, faults>>

\* Evictable as it would be without `retain`.
EvictableAlways(ln) == TRUE

\* The store is over its cap; a state with uncommitted work is retained.
Evictable(ln) == ~HasUncommittedWork(ln)

Evict(c) ==
  /\ current # 0 /\ Evictable(lane[current])
  /\ Settle(c, "drain")
  /\ current' = 0
  /\ UNCHANGED <<lives, disk, stamp, closing, faults>>

\* At shutdown every state goes.
Dispose(c) ==
  /\ closing = 0
  /\ Settle(c, "drain")
  /\ closing' = current
  /\ current' = 0
  /\ UNCHANGED <<lives, disk, stamp, faults>>

----------------------------------------------------------------------------
(* settle and release, behind an await *)

Woken(c) == caller[c].pc = "woken"

\* SettleEnds as it would be if a round that has waited were enough.
SettleEndsAfterOne(c) == TRUE

SettleEnds(c) ==
  LET ln == lane[caller[c].life] IN
  ln.released \/ ln.failed \/ ln.committed >= ln.accepted \/ caller[c].round = MaxRounds

Again(c) ==
  /\ Woken(c) /\ caller[c].round > 0 /\ ~SettleEnds(c)
  /\ LET l == caller[c].life IN
       /\ Pump(l, lane[l])
       /\ caller' = [caller EXCEPT ![c].round = @ + 1, ![c].pc = Waits(lane[l])]
  /\ UNCHANGED <<lives, current, disk, stamp, closing, faults>>

Answers(c, ln) ==
  caller' = [caller EXCEPT ![c].pc = "off", ![c].answer = State(ln)]

FlushEnds(c) ==
  /\ Woken(c) /\ caller[c].kind = "flush" /\ SettleEnds(c)
  /\ Answers(c, lane[caller[c].life])
  /\ UNCHANGED <<lives, current, lane, chain, disk, stamp, closing, faults>>

\* A drain goes on to release, which awaits a pump that runs.
Releases(c) ==
  /\ Woken(c) /\ caller[c].kind = "drain" /\ caller[c].round > 0 /\ SettleEnds(c)
  /\ caller' = [caller EXCEPT ![c].round = 0,
                  ![c].pc = IF lane[caller[c].life].inFlight # 0 THEN "waiting" ELSE "woken"]
  /\ UNCHANGED <<lives, current, lane, chain, disk, stamp, closing, faults>>

DrainEnds(c) ==
  /\ Woken(c) /\ caller[c].round = 0
  /\ lane' = [lane EXCEPT ![caller[c].life].released = TRUE]
  /\ Answers(c, lane[caller[c].life])
  /\ UNCHANGED <<lives, current, chain, disk, stamp, closing, faults>>

----------------------------------------------------------------------------
Init ==
  /\ lives = 0 /\ current = 0
  /\ lane = [l \in Life |-> FreshLane]
  /\ chain = <<>>
  /\ disk = 0 /\ stamp = 0
  /\ caller = [c \in Caller |-> NoCall]
  /\ closing = 0
  /\ faults = 0

GoOn(c) == Again(c) \/ FlushEnds(c) \/ Releases(c) \/ DrainEnds(c)

Next ==
  \/ Accept \/ Land \/ CommitDone \/ CommitFails
  \/ \E l \in Life : TimerFires(l)
  \/ \E c \in Caller : Flush(c) \/ Evict(c) \/ Dispose(c) \/ GoOn(c)

Spec == Init /\ [][Next]_vars

\* Writes return, timers fire, promises that have resolved go on.
Fairness ==
  /\ WF_vars(Land) /\ WF_vars(CommitDone)
  /\ \A l \in Life : WF_vars(TimerFires(l))
  /\ \A c \in Caller : WF_vars(GoOn(c))

FairSpec == Spec /\ Fairness

----------------------------------------------------------------------------
(* Properties *)

LaneState ==
  [accepted : Nat, committed : Nat, inFlight : Nat, count : Nat, cut : BOOLEAN,
   failed : BOOLEAN, released : BOOLEAN, timer : BOOLEAN]

Call == [pc : {"off", "waiting", "woken"}, life : 0 .. MaxLives, kind : {"flush", "drain"},
         round : Nat, asked : Nat,
         answer : {"none", "clean", "degraded", "pending", "settled"}]

\* The shape of the state; what the chain holds is what the lanes have in flight, and no
\* lane has two commits under way, however often it is poked and settled (pump's `active`).
TypeOK ==
  /\ lives \in 0 .. MaxLives /\ current \in 0 .. lives /\ closing \in 0 .. lives
  /\ lane \in [Life -> LaneState]
  /\ chain \in Seq([life : Life, snapshot : Nat, landed : BOOLEAN])
  /\ {disk, stamp, faults} \subseteq Nat
  /\ caller \in [Caller -> Call]
  /\ \A i \in DOMAIN chain : lane[chain[i].life].inFlight = chain[i].snapshot
  /\ \A i, j \in DOMAIN chain : chain[i].life = chain[j].life => i = j
  /\ \A l \in Life : lane[l].inFlight # 0 => \E i \in DOMAIN chain : chain[i].life = l

\* A request that comes after the owner was disposed of at shutdown.
Late == closing # 0 /\ lives > closing

\* The sidecar is never put back to an older snapshot, whichever lane commits, in whatever
\* order the pumps, timers, flushes and evictions of the owner's states come.  A request
\* behind a shutdown's disposal is not covered: its lane does not wait for the old one's
\* last commit.
NeverBackwards == [][Late' \/ disk' >= disk]_vars

\* A caller whose flush or drain was answered `settled` finds in the sidecar what had been
\* accepted when it called, or something newer.
SettledIsDurable ==
  \A c \in Caller : caller[c].answer = "settled" => disk >= caller[c].asked \/ Late

\* A state that has gone from the store and been drained has lost nothing: its last snapshot
\* was committed, or the lane says that it was not.
DrainedOrDegraded ==
  \A l \in Life : lane[l].released => lane[l].committed = lane[l].accepted \/ lane[l].failed

\* What has been accepted is committed, or found not to be, without anybody's flush, unless
\* the pump that took it along stopped at its limit.
GetsThere ==
  \A l \in Life : []<>(lane[l].committed = lane[l].accepted \/ lane[l].failed \/ lane[l].cut)
=============================================================================
