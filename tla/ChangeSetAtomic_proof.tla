------------------------- MODULE ChangeSetAtomic_proof -------------------------
(***************************************************************************)
(* Where runs and recoveries do not overlap and nobody else writes the     *)
(* files, a change set takes effect at once or never: ChangeSetCommit      *)
(* implements AtomicChange.  Processes may die at any step, and staging,   *)
(* renames, unlinks, restores and the run's publications may fail.  And,   *)
(* with no such hypothesis, an operation that is settled leaves no temp.   *)
(***************************************************************************)
EXTENDS ChangeSetAlone_proof

PlanOf(r) == journal[r].plan

\* The targets that hold their planned bytes; all of them do; all hold their original
\* bytes; every target holds the one or the other.
Done(p)      == {f \in DOMAIN p : disk[f] = p[f].to}
Full(p)      == Done(p) = DOMAIN p
Untouched(p) == \A f \in DOMAIN p : disk[f] = p[f].from
Ours(p)      == \A f \in DOMAIN p : disk[f] \in {p[f].from, p[f].to}

\* A run begins on files that no unsettled operation has a claim on.
StartsClean == \A a \in Actor : act[a].pc = "checked" =>
                 \A r \in OpenOps : DOMAIN PlanOf(r) \cap Targets(a) = {}

\* One engaged actor at a time, no outside edit, and behind a failure no run on the files
\* of an operation that the failure left open.
Undisturbed == Alone /\ edits = 0 /\ (faults = 0 \/ StartsClean)

------------------------------------------------------------------------------
(* The invariant *)

\* Operations that are open or that a run has in hand: a publication that failed may have
\* committed the record behind the run's back, and the run reopens it.
Pending == {r \in Op : r \in OpenOps \/ \E a \in Actor : act[a].op = r}

OursAll == \A r \in Pending : Ours(PlanOf(r))

Apart == \A r, s \in Pending : r # s => DOMAIN PlanOf(r) \cap DOMAIN PlanOf(s) = {}

\* An open operation that actor a does not run or recover was left behind a failure, or by
\* a process that died, and then actor a, if engaged, is about to recover it.
LeftBy(a) == \A r \in OpenOps : act[a].op # r /\ act[a].job # r =>
  \/ faults > 0
  \/ /\ writer[r] = Dead
     /\ Engaged(a) => act[a].pc \in Holding /\ \E e \in act[a].seen : e[1] = r

Left == \A r \in OpenOps :
  \/ faults > 0
  \/ \E a \in Actor : act[a].op = r \/ act[a].job = r
  \/ /\ writer[r] = Dead
     /\ \A a \in Actor : Engaged(a) => act[a].pc \in Holding /\ \E e \in act[a].seen : e[1] = r

\* Between the check and the record: the files are as planned from, and nobody else's.
Starting(a) == act[a].pc \in {"checked", "staged", "open"} =>
  /\ Untouched(act[a].plan)
  /\ \A r \in OpenOps : DOMAIN PlanOf(r) \cap DOMAIN act[a].plan = {}

\* The run forward: what is left is original and the rest is planned.
Running(a) ==
  LET p == act[a].plan
  IN  /\ act[a].pc = "prepared" => Untouched(p)
      /\ act[a].pc \in {"probe", "write"} => act[a].left # {} /\ Done(p) = DOMAIN p \ act[a].left
      /\ act[a].pc = "verify" => Full(p)

\* The way back, of the run's own operation.  A failure alone gets it there with all
\* targets planned, or lets it miss one.
Walking(a) ==
  LET p == act[a].plan
  IN  act[a].pc \in {"threw"} \cup Undoing =>
        /\ act[a].job = 0 /\ act[a].drift = {}
        /\ Full(p) => faults > 0
        /\ ~act[a].bad => Done(p) \subseteq act[a].left
        /\ act[a].pc = "threw" /\ journal[act[a].op].state \notin Open => Full(p)
        /\ act[a].pc = "reread" => \A f \in act[a].left : Final(act[a].left, f) => f \notin Done(p)

\* The recovery: what is planned is left to restore, and was never all.
Restoring(a) ==
  LET p == act[a].snap.plan
  IN  /\ act[a].pc \in {"restore", "restored"} =>
           act[a].verdict = "aborted" /\ Done(p) \subseteq act[a].left /\ ~Full(p)
      /\ act[a].pc = "restored" => \A f \in act[a].left :
           Final(act[a].left, f) => f \notin Done(p) \/ faults > 0
      /\ act[a].pc = "settle" =>
           /\ act[a].verdict = "committed" => Full(p)
           /\ act[a].verdict = "aborted" => Done(p) = {}
           /\ act[a].verdict = "unresolved" => faults > 0

\* Only a failure makes a compensation incomplete.
Clean(a) == act[a].bad => faults > 0

Placed(a) == Starting(a) /\ Running(a) /\ Walking(a) /\ Restoring(a) /\ Clean(a)

Tidy == OursAll /\ Apart /\ Left /\ \A a \in Actor : Placed(a)

------------------------------------------------------------------------------
(* Plans and bytes *)

LEMMA PlanFacts ==
  ASSUME PlanAssumption, NEW p \in Plan
  PROVE  /\ DOMAIN p # {} /\ DOMAIN p \subseteq File
         /\ \A f \in DOMAIN p : p[f].from # p[f].to
BY DEF PlanAssumption

LEMMA FinalUnique ==
  ASSUME NEW S \in SUBSET Nat, NEW f \in S, NEW g \in S, Final(S, f), Final(S, g)
  PROVE  f = g
<1>1. f <= g /\ g <= f /\ f \in Int /\ g \in Int
  BY DEF Final
<1> QED BY <1>1

LEMMA InDone ==
  ASSUME PlanAssumption, NEW p \in Plan
  PROVE  /\ In(p, "planned") = Done(p)
         /\ In(p, "original") = {f \in DOMAIN p : disk[f] = p[f].from}
         /\ In(p, "other") = {f \in DOMAIN p : disk[f] \notin {p[f].from, p[f].to}}
         /\ In(p, "planned")' = Done(p)'
BY PlanFacts DEF In, Class, Done

\* Open records, and those a run has in hand, are records, and their plans plans.
LEMMA PendingTyped ==
  ASSUME IInv, UpToDate, BoundAssumption, NEW r \in Pending
  PROVE  /\ r \in Op /\ r # 0 /\ r <= opCount
         /\ journal[r] \in Record /\ PlanOf(r) \in Plan
<1>1. r \in Op /\ journal[r] \in Record
  BY DEF Pending, OpenOps, Open, NoRecord, IInv, TypeOK, UpToDate, Current, Op
<1>2. r <= opCount
  BY <1>1 DEF NoRecord, Record, IInv, TypeOK, Live, Op, BoundAssumption, Open, Terminal
<1> QED BY <1>1, <1>2 DEF Record, PlanOf, Op, BoundAssumption

\* What the actors hold: a run's own operation, and a recovery's.
LEMMA InHand ==
  ASSUME IInv, UpToDate, BoundAssumption, NEW a \in Actor
  PROVE  /\ act[a].op # 0 => /\ act[a].op \in Pending /\ PlanOf(act[a].op) = act[a].plan
                             /\ act[a].pc # "threw" => act[a].op \in OpenOps
         /\ act[a].job # 0 => act[a].job \in OpenOps
         /\ act[a].pc \in Recovering => /\ act[a].job \in OpenOps
                                        /\ act[a].snap = journal[act[a].job]
                                        /\ PlanOf(act[a].job) = act[a].snap.plan
         /\ act[a].pc \in Holding => \A e \in act[a].seen : /\ e[1] \in OpenOps
                                                            /\ e[2] = journal[e[1]]
<1>1. Shaped(act[a]) /\ act[a] \in ActorState
  BY Local
<1>2. act[a].op # 0 => act[a].op \in Op /\ journal[act[a].op] \in Record /\ Mine(a, journal[act[a].op])
  BY <1>1 DEF UpToDate, Current, ActorState
<1>3. act[a].op # 0 /\ act[a].pc # "threw" => journal[act[a].op].state \in Open
  BY <1>1, <1>2 DEF IInv, RecordFollowsRun, StatesAt, Open, Shaped, Stepping, Undoing
<1> QED BY <1>1, <1>2, <1>3 DEF UpToDate, Current, Mine, OpenOps, Pending, PlanOf, Shaped

\* While an actor is engaged no other holds anything.
LEMMA OthersEmpty ==
  ASSUME IInv, Alone, NEW a \in Actor, Engaged(a)
  PROVE  \A b \in Actor : b # a => ~Engaged(b) /\ act[b].op = 0 /\ act[b].job = 0
BY NotEngaged DEF Alone

\* So what is pending is open or in its hand.
LEMMA PendingSeen ==
  ASSUME IInv, Alone, NEW a \in Actor, Engaged(a), NEW r \in Pending
  PROVE  r \in OpenOps \/ (r = act[a].op /\ act[a].op # 0)
<1>1. r # 0 \/ r \in OpenOps
  BY BoundAssumption DEF Pending, Op
<1> QED BY <1>1, OthersEmpty DEF Pending

\* What an actor that is not engaged has to satisfy.
LEMMA NotPlaced ==
  ASSUME NEW a \in Actor
  PROVE  /\ ~Engaged(a) => (Placed(a) <=> Clean(a))
         /\ ~Engaged(a)' => (Placed(a)' <=> Clean(a)')
BY DEF Placed, Starting, Running, Walking, Restoring, Undoing, Engaged

\* Left, seen from the engaged actor.
LEMMA LeftSeen ==
  ASSUME IInv, Alone, Left, NEW a \in Actor, Engaged(a)
  PROVE  LeftBy(a)
<1>1. SUFFICES ASSUME NEW r \in OpenOps, act[a].op # r, act[a].job # r
               PROVE  \/ faults > 0
                      \/ /\ writer[r] = Dead
                         /\ act[a].pc \in Holding /\ \E e \in act[a].seen : e[1] = r
  BY DEF LeftBy
<1>2. r # 0
  BY BoundAssumption DEF OpenOps, Op
<1>3. \A b \in Actor : act[b].op # r /\ act[b].job # r
  BY <1>1, <1>2, OthersEmpty
<1> QED BY <1>1, <1>3 DEF Left

\* The bytes of pending operations move between original and planned only.
Moves == \A r \in Pending : \A f \in DOMAIN PlanOf(r) :
           disk'[f] \in {disk[f], PlanOf(r)[f].from, PlanOf(r)[f].to}

LEMMA BytesTidy ==
  ASSUME OursAll, Apart, Pending' \subseteq Pending, \A r \in Pending' : PlanOf(r)' = PlanOf(r), Moves
  PROVE  OursAll' /\ Apart'
<1>1. \A r \in Pending' : r \in Pending /\ PlanOf(r)' = PlanOf(r)
  OBVIOUS
<1>2. OursAll'
  BY <1>1 DEF OursAll, Ours, Moves
<1>3. Apart'
  BY <1>1 DEF Apart
<1> QED BY <1>2, <1>3

\* Tidy behind a step of actor a, from what concerns actor a alone.
LEMMA TidyFrom ==
  ASSUME IInv, IInv', Alone, Alone', Tidy, NEW a \in Actor, Engaged(a) \/ Engaged(a)',
         \A b \in Actor : b # a => act'[b] = act[b], faults' >= faults,
         OursAll', Apart', LeftBy(a)', Placed(a)'
  PROVE  Tidy'
<1>1. \A b \in Actor : b # a => ~Engaged(b)' /\ ~Engaged(b)
  BY DEF Alone, Engaged
<1>2. ASSUME NEW b \in Actor, b # a PROVE Placed(b)'
  <2>1. Clean(b) /\ act'[b] = act[b]
    BY <1>2 DEF Tidy, Placed
  <2>2. faults \in Nat /\ faults' \in Nat
    BY DEF IInv, TypeOK
  <2>3. Clean(b)'
    BY <2>1, <2>2 DEF Clean
  <2> QED BY <1>1, <1>2, <2>3, NotPlaced
<1>3. Left'
  <2>1. SUFFICES ASSUME NEW r \in OpenOps', \A b \in Actor : act'[b].op # r /\ act'[b].job # r,
                        ~(faults' > 0)
                 PROVE  /\ writer'[r] = Dead
                        /\ \A b \in Actor : Engaged(b)' => act'[b].pc \in Holding
                                                           /\ \E e \in act'[b].seen : e[1] = r
    BY DEF Left
  <2>2. /\ writer'[r] = Dead
        /\ Engaged(a)' => act'[a].pc \in Holding /\ \E e \in act'[a].seen : e[1] = r
    BY <2>1 DEF LeftBy
  <2> QED BY <1>1, <2>2
<1> QED BY <1>2, <1>3 DEF Tidy

\* The same of a run or a returning actor: what it lets go of open, it lets go of behind a
\* failure.
LEMMA HandTidy ==
  ASSUME IInv, IInv', Alone, Alone', Tidy, NEW a \in Actor, Engaged(a), act[a].pc \notin Holding,
         \A b \in Actor : b # a => act'[b] = act[b], faults' >= faults,
         Pending' \subseteq Pending, \A r \in Pending' : PlanOf(r)' = PlanOf(r), Moves,
         \A r \in OpenOps' : r \in {act[a].op, act[a].job}
                             => r \in {act'[a].op, act'[a].job} \/ faults' > 0,
         Placed(a)'
  PROVE  Tidy'
<1>1. ASSUME NEW r \in OpenOps', act'[a].op # r, act'[a].job # r
      PROVE  faults' > 0
  <2>1. CASE r \in {act[a].op, act[a].job}
    BY <1>1, <2>1
  <2>2. CASE r \notin {act[a].op, act[a].job}
    <3>1. r \in Pending
      BY DEF Pending, OpenOps
    <3>2. r \in OpenOps
      BY <2>2, <3>1, PendingSeen
    <3>3. faults > 0
      BY <2>2, <3>2, LeftSeen DEF LeftBy, Tidy
    <3>4. faults \in Nat /\ faults' \in Nat
      BY DEF IInv, TypeOK
    <3> QED BY <3>3, <3>4
  <2> QED BY <2>1, <2>2
<1>2. LeftBy(a)'
  BY <1>1 DEF LeftBy
<1> QED BY <1>2, BytesTidy, TidyFrom DEF Tidy

\* And of a recovery, whose list says what it has still to see.
LEMMA HoldTidy ==
  ASSUME IInv, IInv', Alone, Alone', Tidy, NEW a \in Actor,
         act[a].pc \in Holding, act'[a].pc \in Holding,
         \A b \in Actor : b # a => act'[b] = act[b], faults' >= faults, writer' = writer,
         Pending' \subseteq Pending, \A r \in Pending' : PlanOf(r)' = PlanOf(r), Moves,
         \A r \in OpenOps' : r \in {act[a].op, act[a].job}
                             => r \in {act'[a].op, act'[a].job} \/ faults' > 0,
         \A e \in act[a].seen : e \in act'[a].seen \/ e[1] = act'[a].job \/ faults' > 0,
         Placed(a)'
  PROVE  Tidy'
<1>0. Engaged(a)
  BY DEF Engaged, Holding, Recovering
<1>1. ASSUME NEW r \in OpenOps', act'[a].op # r, act'[a].job # r
      PROVE  faults' > 0 \/ (writer'[r] = Dead /\ \E e \in act'[a].seen : e[1] = r)
  <2>1. CASE r \in {act[a].op, act[a].job}
    BY <1>1, <2>1
  <2>2. CASE r \notin {act[a].op, act[a].job}
    <3>1. r \in Pending
      BY DEF Pending, OpenOps
    <3>2. r \in OpenOps
      BY <1>0, <2>2, <3>1, PendingSeen
    <3>3. faults > 0 \/ (writer[r] = Dead /\ \E e \in act[a].seen : e[1] = r)
      BY <1>0, <2>2, <3>2, LeftSeen DEF LeftBy, Tidy
    <3>4. faults \in Nat /\ faults' \in Nat
      BY DEF IInv, TypeOK
    <3>5. CASE faults > 0
      BY <3>4, <3>5
    <3>6. ASSUME writer[r] = Dead, NEW e \in act[a].seen, e[1] = r
          PROVE  faults' > 0 \/ (writer'[r] = Dead /\ \E d \in act'[a].seen : d[1] = r)
      BY <1>1, <3>6
    <3> QED BY <3>3, <3>5, <3>6
  <2> QED BY <2>1, <2>2
<1>2. LeftBy(a)'
  BY <1>1 DEF LeftBy
<1> QED BY <1>0, <1>2, BytesTidy, TidyFrom DEF Tidy

------------------------------------------------------------------------------
(* Steps that leave files and journal alone *)

LEMMA StillPending ==
  ASSUME BoundAssumption, journal' = journal, \A b \in Actor : act'[b].op \in {0, act[b].op}
  PROVE  /\ OpenOps' = OpenOps /\ Pending' \subseteq Pending
         /\ \A r \in Op : PlanOf(r)' = PlanOf(r)
BY DEF OpenOps, Pending, PlanOf, Op

LEMMA QuietTidy ==
  ASSUME IInv, IInv', Alone, Alone', Tidy, BoundAssumption, NEW a \in Actor, Engaged(a),
         act[a].pc \notin Holding, \A b \in Actor : b # a => act'[b] = act[b],
         disk' = disk, journal' = journal, faults' >= faults,
         act'[a].op = act[a].op, act'[a].job = act[a].job, Placed(a)'
  PROVE  Tidy'
<1>1. \A b \in Actor : act'[b].op \in {0, act[b].op}
  OBVIOUS
<1>2. /\ OpenOps' = OpenOps /\ Pending' \subseteq Pending
      /\ \A r \in Pending' : PlanOf(r)' = PlanOf(r)
  BY <1>1, StillPending DEF Pending
<1>3. Moves
  BY DEF Moves
<1> QED BY <1>2, <1>3, HandTidy

\* A run that returns without anything in hand.
LEMMA ReturnTidy ==
  ASSUME IInv, IInv', Alone, Alone', Tidy, BoundAssumption, NEW a \in Actor, NEW o, Return(a, o),
         Engaged(a), act[a].pc \notin Holding, act[a].op = 0, act[a].job = 0,
         disk' = disk, journal' = journal, faults' = faults
  PROVE  Tidy'
<1>0. act \in [Actor -> ActorState] /\ faults \in Nat
  BY DEF IInv, TypeOK
<1>1. /\ act'[a].pc = "idle" /\ ~act'[a].bad /\ act'[a].op = 0 /\ act'[a].job = 0
      /\ \A b \in Actor : b # a => act'[b] = act[b]
  BY <1>0 DEF Return, Idle
<1>2. Placed(a)'
  BY <1>1, NotPlaced DEF Engaged, Clean
<1>3. faults' >= faults
  BY <1>0
<1> QED BY <1>1, <1>2, <1>3, QuietTidy

\* Steps of an actor that is not engaged, neither before nor behind it.
LEMMA WaitTidy ==
  ASSUME IInv, Tidy, BoundAssumption, NEW a \in Actor, ~Engaged(a), ~Engaged(a)',
         \A b \in Actor : b # a => act'[b] = act[b],
         act'[a].bad => act[a].bad, act'[a].op = 0, act'[a].job = 0,
         disk' = disk, journal' = journal, writer' = writer, faults' = faults
  PROVE  Tidy'
<1>1. act[a].op = 0 /\ act[a].job = 0
  BY NotEngaged
<1>2. /\ OpenOps' = OpenOps /\ Pending' \subseteq Pending
      /\ \A r \in Op : PlanOf(r)' = PlanOf(r)
  BY <1>1, StillPending
<1>3. OursAll' /\ Apart'
  <2>1. \A r \in Pending' : r \in Pending /\ PlanOf(r)' = PlanOf(r)
    BY <1>2 DEF Pending
  <2> QED BY <2>1 DEF Tidy, OursAll, Ours, Apart
<1>4. Placed(a)'
  <2>1. Clean(a)
    BY DEF Tidy, Placed
  <2> QED BY <2>1, NotPlaced DEF Clean
<1>5. ASSUME NEW b \in Actor, b # a PROVE Placed(b)'
  <2>1. Placed(b) /\ act'[b] = act[b]
    BY <1>5 DEF Tidy
  <2>2. Starting(b)' /\ Clean(b)'
    BY <1>2, <2>1 DEF Placed, Starting, Clean, Untouched, PlanOf
  <2>3. Running(b)' /\ Walking(b)'
    BY <2>1 DEF Placed, Running, Walking, Full, Done, Untouched, Final
  <2>4. Restoring(b)'
    BY <2>1 DEF Placed, Restoring, Full, Done, Final
  <2> QED BY <2>2, <2>3, <2>4 DEF Placed
<1>6. Left'
  <2>1. SUFFICES ASSUME NEW r \in OpenOps, \A b \in Actor : act'[b].op # r /\ act'[b].job # r,
                        ~(faults > 0)
                 PROVE  /\ writer[r] = Dead
                        /\ \A b \in Actor : Engaged(b)' => act'[b].pc \in Holding
                                                           /\ \E e \in act'[b].seen : e[1] = r
    BY <1>2 DEF Left
  <2>2. \A b \in Actor : act[b].op # r /\ act[b].job # r
    BY <1>1, <2>1
  <2>3. writer[r] = Dead /\ \A b \in Actor : Engaged(b) => act[b].pc \in Holding
                                                           /\ \E e \in act[b].seen : e[1] = r
    BY <2>1, <2>2 DEF Tidy, Left
  <2>4. \A b \in Actor : Engaged(b)' => b # a /\ Engaged(b)
    BY DEF Engaged
  <2> QED BY <2>3, <2>4
<1> QED BY <1>3, <1>4, <1>5, <1>6 DEF Tidy

LEMMA LockTidy ==
  ASSUME IInv, Tidy, BoundAssumption, NEW a \in Actor,
         Lock(a) \/ (Cancel(a) /\ ~Engaged(a)) \/ \E p \in Plan : Begin(a, p)
  PROVE  Tidy'
<1>0. /\ act \in [Actor -> ActorState] /\ act[a] \in ActorState /\ Shaped(act[a])
  BY Local
<1>1. CASE Lock(a)
  <2>1. /\ act'[a].pc \in {"lock", "start"} /\ act[a].pc = "lock" /\ act'[a].bad = act[a].bad
        /\ act'[a].op = act[a].op /\ act'[a].job = act[a].job
        /\ \A b \in Actor : b # a => act'[b] = act[b]
    <3>1. PICK f \in act[a].left :
            act' = [act EXCEPT ![a].left = @ \ {f},
                               ![a].pc = IF act[a].left = {f} THEN "start" ELSE "lock"]
      BY <1>1 DEF Lock
    <3> QED BY <1>0, <1>1, <3>1 DEF Lock, ActorState
  <2>2. ~Engaged(a) /\ ~Engaged(a)'
    BY <2>1 DEF Engaged
  <2> QED BY <1>1, <2>1, <2>2, WaitTidy, NotEngaged DEF Lock
<1>2. CASE Cancel(a) /\ ~Engaged(a)
  <2>1. act'[a].pc = "idle" /\ ~act'[a].bad /\ act'[a].op = 0 /\ act'[a].job = 0
    BY <1>0, <1>2 DEF Cancel, Return, Idle
  <2>2. ~Engaged(a)' /\ \A b \in Actor : b # a => act'[b] = act[b]
    BY <1>0, <1>2, <2>1 DEF Cancel, Return, Engaged
  <2> QED BY <1>2, <2>1, <2>2, WaitTidy DEF Cancel
<1>3. CASE \E p \in Plan : Begin(a, p)
  <2> PICK p \in Plan : Begin(a, p)
    BY <1>3
  <2>0. act' = [act EXCEPT ![a] = [Idle EXCEPT !.pc = "lock", !.plan = p, !.left = DOMAIN p]]
    BY DEF Begin
  <2>1. /\ act'[a].pc = "lock" /\ ~act'[a].bad /\ act'[a].op = 0 /\ act'[a].job = 0
        /\ \A b \in Actor : b # a => act'[b] = act[b]
    BY <1>0, <2>0 DEF Idle
  <2>2. ~Engaged(a) /\ ~Engaged(a)'
    BY <2>1 DEF Begin, Engaged
  <2> QED BY <2>1, <2>2, WaitTidy DEF Begin
<1> QED BY <1>1, <1>2, <1>3

Good == IInv /\ UpToDate /\ Tidy /\ Undisturbed

LEMMA GoodLocal ==
  ASSUME Good, NEW a \in Actor
  PROVE  /\ IInv /\ UpToDate /\ Tidy /\ Alone /\ Placed(a)
         /\ act \in [Actor -> ActorState] /\ act[a] \in ActorState /\ Shaped(act[a])
         /\ faults \in Nat
BY Local DEF Good, Tidy, Undisturbed, IInv, TypeOK

\* The bytes decide, and the files are nobody else's: behind a failure, by hypothesis;
\* else because the sweep left no operation open.
LEMMA CheckTidy ==
  ASSUME Good, IInv', Undisturbed', PlanAssumption, BoundAssumption, NEW a \in Actor, Check(a)
  PROVE  Tidy'
<1>0. /\ IInv /\ Tidy /\ Alone /\ Alone' /\ act \in [Actor -> ActorState]
      /\ act[a] \in ActorState /\ Shaped(act[a]) /\ act[a].pc = "check" /\ faults \in Nat /\ Placed(a)
  BY GoodLocal DEF Check, Undisturbed
<1>1. /\ Engaged(a) /\ act[a].pc \notin Holding /\ act[a].op = 0 /\ act[a].job = 0
      /\ act[a].plan \in Plan
  BY <1>0 DEF Engaged, Holding, Shaped, Stepping, Undoing, Recovering
<1>2. CASE Return(a, "replayed") \/ Return(a, "stale")
  BY <1>0, <1>1, <1>2, ReturnTidy DEF Check
<1>3. CASE Fresh(a) /\ act' = [act EXCEPT ![a].pc = "checked", ![a].rev = Cardinality(Priors(a))]
  <2>1. /\ act'[a].pc = "checked" /\ act'[a].plan = act[a].plan /\ act'[a].bad = act[a].bad
        /\ act'[a].op = act[a].op /\ act'[a].job = act[a].job
        /\ \A b \in Actor : b # a => act'[b] = act[b]
    BY <1>0, <1>3 DEF ActorState
  <2>2. Targets(a) = DOMAIN act[a].plan /\ Targets(a)' = DOMAIN act[a].plan
    BY <1>1, <2>1 DEF Targets, PlanAssumption
  <2>3. Untouched(act[a].plan)
    BY <1>1, <1>3, <2>2, InDone DEF Fresh, Untouched
  <2>4. OpenOps' = OpenOps /\ journal' = journal /\ disk' = disk /\ faults' = faults
    BY DEF Check, OpenOps
  <2>5. \A r \in OpenOps : DOMAIN PlanOf(r) \cap DOMAIN act[a].plan = {}
    <3>1. CASE faults = 0
      <4>1. ASSUME NEW r \in OpenOps PROVE FALSE
        <5>1. r # 0
          BY BoundAssumption DEF OpenOps, Op
        <5> QED BY <1>0, <1>1, <3>1, <5>1, LeftSeen DEF LeftBy, Tidy
      <4> QED BY <4>1
    <3>2. CASE faults # 0
      <4>1. StartsClean'
        BY <2>4, <3>2 DEF Undisturbed
      <4> QED BY <2>1, <2>2, <2>4, <4>1 DEF StartsClean, PlanOf
    <3> QED BY <3>1, <3>2
  <2>6. Starting(a)'
    BY <2>1, <2>3, <2>4, <2>5 DEF Starting, Untouched, PlanOf
  <2>7. Clean(a)'
    BY <1>0, <2>1, <2>4 DEF Placed, Clean
  <2>8. Placed(a)'
    BY <2>1, <2>6, <2>7 DEF Placed, Running, Walking, Restoring, Undoing
  <2>9. faults' >= faults
    BY <1>0, <2>4
  <2> QED BY <1>0, <1>1, <2>1, <2>4, <2>8, <2>9, QuietTidy
<1> QED BY <1>2, <1>3 DEF Check

LEMMA StageTidy ==
  ASSUME Good, IInv', Undisturbed', BoundAssumption, NEW a \in Actor, Stage(a)
  PROVE  Tidy'
<1>0. /\ IInv /\ Tidy /\ Alone /\ Alone' /\ act \in [Actor -> ActorState]
      /\ act[a] \in ActorState /\ Shaped(act[a]) /\ act[a].pc = "checked" /\ faults \in Nat /\ Placed(a)
  BY GoodLocal DEF Stage, Undisturbed
<1>1. Engaged(a) /\ act[a].pc \notin Holding
  BY <1>0 DEF Engaged, Holding, Recovering
<1>2. /\ act'[a].pc = "staged" /\ act'[a].plan = act[a].plan /\ act'[a].bad = act[a].bad
      /\ act'[a].op = act[a].op /\ act'[a].job = act[a].job
      /\ \A b \in Actor : b # a => act'[b] = act[b]
  BY <1>0 DEF Stage, ActorState
<1>3. OpenOps' = OpenOps /\ journal' = journal /\ disk' = disk /\ faults' = faults
  BY DEF Stage, OpenOps
<1>4. Starting(a)' /\ Clean(a)'
  BY <1>0, <1>2, <1>3 DEF Placed, Starting, Untouched, PlanOf, Clean
<1>5. Placed(a)'
  BY <1>2, <1>4 DEF Placed, Running, Walking, Restoring, Undoing
<1>6. faults' >= faults
  BY <1>0, <1>3
<1> QED BY <1>0, <1>1, <1>2, <1>3, <1>5, <1>6, QuietTidy

\* No open operation is left for the key: it would have the same files.
LEMMA NothingToRevive ==
  ASSUME Good, PlanAssumption, BoundAssumption, NEW a \in Actor, act[a].pc = "staged"
  PROVE  SameKey(a) \cap OpenOps = {}
<1>1. SUFFICES ASSUME NEW r \in SameKey(a) \cap OpenOps PROVE FALSE
  OBVIOUS
<1>2. PlanOf(r) = act[a].plan
  BY DEF SameKey, PlanOf
<1>3. DOMAIN PlanOf(r) \cap DOMAIN act[a].plan = {}
  BY GoodLocal DEF Placed, Starting
<1>4. PlanOf(r) \in Plan
  BY GoodLocal, PendingTyped DEF Pending, OpenOps
<1> QED BY <1>2, <1>3, <1>4, PlanFacts

LEMMA PrepareTidy ==
  ASSUME Good, IInv', Undisturbed', PlanAssumption, BoundAssumption, NEW a \in Actor,
         Prepare(a) \/ PrepareFails(a)
  PROVE  Tidy' /\ journal' = journal /\ disk' = disk /\ faults' = faults
<1>0. /\ IInv /\ Tidy /\ Alone /\ Alone' /\ act \in [Actor -> ActorState]
      /\ act[a] \in ActorState /\ Shaped(act[a]) /\ act[a].pc = "staged" /\ faults \in Nat /\ Placed(a)
  BY GoodLocal DEF Prepare, PrepareFails, Incomplete, Undisturbed
<1>1. Engaged(a) /\ act[a].pc \notin Holding /\ act[a].op = 0 /\ act[a].job = 0
  BY <1>0 DEF Engaged, Holding, Recovering, Undoing, Shaped, Stepping
<1>2. SameKey(a) \cap OpenOps = {}
  BY <1>0, NothingToRevive
<1>3. Prepare(a)
  BY <1>2 DEF PrepareFails, Incomplete, First
<1>4. /\ disk' = disk /\ journal' = journal /\ faults' = faults
      /\ \/ Return(a, "replayed")
         \/ act' = [act EXCEPT ![a].pc = "open"]
  BY <1>2, <1>3 DEF Prepare, First
<1>5. CASE Return(a, "replayed")
  BY <1>0, <1>1, <1>4, <1>5, ReturnTidy
<1>6. CASE act' = [act EXCEPT ![a].pc = "open"]
  <2>1. /\ act'[a].pc = "open" /\ act'[a].plan = act[a].plan /\ act'[a].bad = act[a].bad
        /\ act'[a].op = act[a].op /\ act'[a].job = act[a].job
        /\ \A b \in Actor : b # a => act'[b] = act[b]
    BY <1>0, <1>6 DEF ActorState
  <2>2. OpenOps' = OpenOps
    BY <1>4 DEF OpenOps
  <2>3. Starting(a)' /\ Clean(a)'
    BY <1>0, <1>4, <2>1, <2>2 DEF Placed, Starting, Untouched, PlanOf, Clean
  <2>4. Placed(a)'
    BY <2>1, <2>3 DEF Placed, Running, Walking, Restoring, Undoing
  <2>5. faults' >= faults
    BY <1>0, <1>4
  <2> QED BY <1>0, <1>1, <1>4, <2>1, <2>4, <2>5, QuietTidy
<1> QED BY <1>4, <1>5, <1>6

\* A run that gives up before its record, with nothing on disk of it.
LEMMA GivesUpTidy ==
  ASSUME Good, IInv', Undisturbed', BoundAssumption, NEW a \in Actor,
         StageFails(a) \/ LockTimesOut(a) \/ (OpenOpFails(a) /\ journal' = journal)
  PROVE  Tidy'
<1>0. /\ IInv /\ Tidy /\ Alone /\ Alone' /\ act \in [Actor -> ActorState]
      /\ act[a] \in ActorState /\ Shaped(act[a]) /\ faults \in Nat /\ Placed(a)
      /\ act[a].pc \in {"check", "checked", "staged", "open"}
  BY GoodLocal DEF StageFails, LockTimesOut, OpenOpFails, Undisturbed
<1>1. Engaged(a) /\ act[a].pc \notin Holding /\ act[a].op = 0 /\ act[a].job = 0
  BY <1>0 DEF Engaged, Holding, Recovering, Undoing, Shaped, Stepping
<1>2. /\ act'[a].pc = "failed" /\ act'[a].bad = act[a].bad
      /\ act'[a].op = act[a].op /\ act'[a].job = act[a].job
      /\ \A b \in Actor : b # a => act'[b] = act[b]
  <2>1. \/ act' = [act EXCEPT ![a].pc = "failed"]
        \/ act' = [act EXCEPT ![a].pc = "failed", ![a].staged = {}]
    BY DEF StageFails, LockTimesOut, OpenOpFails
  <2> QED BY <1>0, <2>1 DEF ActorState
<1>3. journal' = journal /\ disk' = disk /\ faults' >= faults
  BY <1>0 DEF StageFails, LockTimesOut, OpenOpFails, Fault
<1>4. Clean(a)'
  <2>1. faults' \in Nat
    BY DEF IInv, TypeOK
  <2> QED BY <1>0, <1>2, <1>3, <2>1 DEF Placed, Clean
<1>5. Placed(a)'
  BY <1>2, <1>4 DEF Placed, Starting, Running, Walking, Restoring, Undoing
<1> QED BY <1>0, <1>1, <1>2, <1>3, <1>5, QuietTidy

------------------------------------------------------------------------------
(* A run's own operation *)

\* The record of a run that begins.
LEMMA OpenOpFacts ==
  ASSUME Good, PlanAssumption, BoundAssumption, NEW a \in Actor,
         OpenOp(a) \/ (OpenOpFails(a) /\ journal' # journal)
  PROVE  \E r \in Op, p \in Plan :
           /\ r = opCount + 1 /\ p = act[a].plan /\ r \notin Pending /\ r > opCount
           /\ act'[a].op \in {0, r} /\ (act'[a].op = 0 => faults' > 0)
           /\ OpenOps' = OpenOps \cup {r} /\ Pending' \subseteq Pending \cup {r}
           /\ \A s \in Op : s # r => journal'[s] = journal[s]
           /\ journal'[r].plan = p /\ Untouched(p)
           /\ \A s \in Pending : s \in OpenOps /\ DOMAIN PlanOf(s) \cap DOMAIN p = {}
<1>0. /\ IInv /\ UpToDate /\ Tidy /\ Alone /\ act \in [Actor -> ActorState]
      /\ act[a] \in ActorState /\ Shaped(act[a]) /\ act[a].pc = "open" /\ Placed(a)
      /\ faults \in Nat /\ opCount \in Nat /\ journal \in [Op -> Record \cup {NoRecord}]
  BY GoodLocal DEF OpenOp, OpenOpFails, IInv, TypeOK
<1>1. /\ Engaged(a) /\ act[a].op = 0 /\ act[a].plan \in Plan
  BY <1>0 DEF Engaged, Shaped, Stepping, Undoing, Recovering
<1> DEFINE r == opCount + 1
           p == act[a].plan
<1>2. /\ r \in Op /\ journal' = [journal EXCEPT ![r] = Rec(a, "prepared")]
      /\ disk' = disk
  BY DEF OpenOp, OpenOpFails
<1>3. Rec(a, "prepared").plan = p /\ Rec(a, "prepared").state = "prepared"
  BY DEF Rec
<1>4. /\ \A s \in Op : s # r => journal'[s] = journal[s]
      /\ journal'[r].plan = p /\ journal'[r].state = "prepared"
  BY <1>0, <1>2, <1>3
<1>5. r \notin Pending /\ r > opCount
  BY <1>0, PendingTyped
<1>6. OpenOps' = OpenOps \cup {r}
  BY <1>2, <1>4 DEF OpenOps, Open
<1>7. act'[a].op \in {0, r} /\ \A b \in Actor : b # a => act'[b] = act[b]
  BY <1>0, <1>1 DEF OpenOp, OpenOpFails, ActorState
<1>8. act'[a].op = 0 => faults' > 0
  <2>1. CASE OpenOp(a)
    <3>1. act'[a].op = r /\ r # 0
      BY <1>0, <2>1 DEF OpenOp, ActorState
    <3> QED BY <3>1
  <2>2. CASE OpenOpFails(a)
    BY <1>0, <2>2 DEF OpenOpFails, Fault
  <2> QED BY <2>1, <2>2
<1>9. Pending' \subseteq Pending \cup {r}
  <2>1. SUFFICES ASSUME NEW s \in Pending', s # r PROVE s \in Pending
    OBVIOUS
  <2>2. s \in Op /\ (s \in OpenOps \/ \E b \in Actor : act'[b].op = s)
    BY <1>6, <2>1 DEF Pending
  <2>3. s # 0
    BY <2>2, BoundAssumption DEF Op
  <2> QED BY <1>7, <2>1, <2>2, <2>3 DEF Pending
<1>10. /\ Untouched(p)
       /\ \A s \in Pending : s \in OpenOps /\ DOMAIN PlanOf(s) \cap DOMAIN p = {}
  BY <1>0, <1>1, PendingSeen DEF Placed, Starting
<1> HIDE DEF r, p
<1>11. /\ r = opCount + 1 /\ p = act[a].plan /\ r \in Op /\ p \in Plan
  BY <1>1, <1>2 DEF r, p
<1> QED BY <1>4, <1>5, <1>6, <1>7, <1>8, <1>9, <1>10, <1>11

LEMMA OpenOpTidy ==
  ASSUME Good, IInv', Undisturbed', PlanAssumption, BoundAssumption, NEW a \in Actor,
         OpenOp(a) \/ (OpenOpFails(a) /\ journal' # journal)
  PROVE  Tidy'
<1>0. /\ IInv /\ UpToDate /\ Tidy /\ Alone /\ Alone' /\ act \in [Actor -> ActorState]
      /\ act[a] \in ActorState /\ act[a].pc = "open" /\ Placed(a) /\ faults \in Nat /\ faults' \in Nat
      /\ disk' = disk
  BY GoodLocal DEF OpenOp, OpenOpFails, Undisturbed, IInv, TypeOK
<1>1. Engaged(a) /\ act[a].pc \notin Holding
  BY <1>0 DEF Engaged, Holding, Recovering
<1> PICK r \in Op, p \in Plan :
           /\ p = act[a].plan /\ r \notin Pending
           /\ act'[a].op \in {0, r} /\ (act'[a].op = 0 => faults' > 0)
           /\ OpenOps' = OpenOps \cup {r} /\ Pending' \subseteq Pending \cup {r}
           /\ \A s \in Op : s # r => journal'[s] = journal[s]
           /\ journal'[r].plan = p /\ Untouched(p)
           /\ \A s \in Pending : s \in OpenOps /\ DOMAIN PlanOf(s) \cap DOMAIN p = {}
  BY OpenOpFacts
<1>2. /\ act'[a].pc \in {"prepared", "failed"} /\ act'[a].plan = p /\ act'[a].bad = act[a].bad
      /\ \A b \in Actor : b # a => act'[b] = act[b]
  BY <1>0 DEF OpenOp, OpenOpFails, ActorState
<1>3. faults' >= faults
  BY <1>0 DEF OpenOp, OpenOpFails, Fault
<1>4. \A s \in Pending : s \in Op /\ s # r /\ PlanOf(s)' = PlanOf(s)
  BY DEF Pending, PlanOf
<1>5. OursAll'
  <2>1. SUFFICES ASSUME NEW s \in Pending' PROVE Ours(PlanOf(s))'
    BY DEF OursAll
  <2>2. CASE s = r
    BY <1>0, <2>2 DEF Ours, Untouched, PlanOf
  <2>3. CASE s \in Pending
    BY <1>0, <1>4, <2>3 DEF Tidy, OursAll, Ours
  <2> QED BY <2>2, <2>3
<1>6. Apart'
  <2>1. SUFFICES ASSUME NEW s \in Pending', NEW t \in Pending', s # t
                 PROVE  DOMAIN PlanOf(s)' \cap DOMAIN PlanOf(t)' = {}
    BY DEF Apart
  <2>2. CASE s \in Pending /\ t \in Pending
    BY <1>0, <1>4, <2>1, <2>2 DEF Tidy, Apart
  <2>3. CASE s = r /\ t \in Pending
    BY <1>4, <2>3 DEF PlanOf
  <2>4. CASE t = r /\ s \in Pending
    BY <1>4, <2>4 DEF PlanOf
  <2> QED BY <2>1, <2>2, <2>3, <2>4
<1>7. LeftBy(a)'
  <2>1. SUFFICES ASSUME NEW s \in OpenOps', act'[a].op # s PROVE faults' > 0
    BY DEF LeftBy
  <2>2. CASE s = r
    BY <2>1, <2>2
  <2>3. CASE s \in OpenOps
    <3>1. act[a].op # s /\ act[a].job # s
      <4>1. s # 0 /\ Shaped(act[a])
        BY <1>0, <2>3, GoodLocal, BoundAssumption DEF OpenOps, Op
      <4> QED BY <1>0, <4>1 DEF Shaped, Stepping, Undoing, Recovering
    <3>2. faults > 0
      BY <1>0, <1>1, <2>3, <3>1, LeftSeen DEF LeftBy, Tidy
    <3> QED BY <1>0, <1>3, <3>2
  <2> QED BY <2>2, <2>3
<1>8. Clean(a)'
  BY <1>0, <1>2, <1>3 DEF Placed, Clean
<1>9. Placed(a)'
  BY <1>0, <1>2, <1>8 DEF Placed, Starting, Running, Untouched, Walking, Restoring, Undoing
<1> QED BY <1>0, <1>1, <1>2, <1>3, <1>5, <1>6, <1>7, <1>9, TidyFrom

\* What a run with an operation in hand may rely on.
LEMMA RunFacts ==
  ASSUME Good, PlanAssumption, BoundAssumption, NEW a \in Actor, act[a].op # 0
  PROVE  /\ act[a].op \in Pending /\ act[a].op \in Op /\ PlanOf(act[a].op) = act[a].plan
         /\ act[a].pc # "threw" => act[a].op \in OpenOps
         /\ journal[act[a].op] \in Record
         /\ act[a].plan \in Plan /\ Ours(act[a].plan) /\ Targets(a) = DOMAIN act[a].plan
         /\ DOMAIN act[a].plan # {} /\ DOMAIN act[a].plan \subseteq File
         /\ \A f \in DOMAIN act[a].plan : act[a].plan[f].from # act[a].plan[f].to
         /\ act[a].job = 0 /\ Engaged(a) /\ act[a].pc \notin Holding
         /\ act[a].pc \in Stepping \cup {"threw"} \cup Undoing
<1>0. /\ IInv /\ UpToDate /\ Tidy /\ Placed(a) /\ act[a] \in ActorState /\ Shaped(act[a])
  BY GoodLocal
<1>1. /\ act[a].op \in Pending /\ PlanOf(act[a].op) = act[a].plan
      /\ act[a].pc # "threw" => act[a].op \in OpenOps
  BY <1>0, InHand
<1>2. act[a].op \in Op /\ journal[act[a].op] \in Record /\ act[a].plan \in Plan
  BY <1>0, <1>1, PendingTyped
<1>3. /\ act[a].pc \in Stepping \cup {"threw"} \cup Undoing
      /\ act[a].job = 0
  BY <1>0 DEF Shaped, Undoing, Recovering, Stepping, Placed, Walking
<1>4. Engaged(a) /\ act[a].pc \notin Holding
  BY <1>3 DEF Engaged, Holding, Recovering, Stepping, Undoing
<1>5. Ours(act[a].plan)
  BY <1>0, <1>1 DEF Tidy, OursAll
<1>6. /\ DOMAIN act[a].plan # {} /\ DOMAIN act[a].plan \subseteq File
      /\ \A f \in DOMAIN act[a].plan : act[a].plan[f].from # act[a].plan[f].to
      /\ Targets(a) = DOMAIN act[a].plan
  BY <1>2, PlanFacts DEF PlanAssumption, Targets
<1> QED BY <1>1, <1>2, <1>3, <1>4, <1>5, <1>6

\* A run's step: one record, its own, and one byte string, of its own targets.
OwnRecordOnly(a) ==
  \/ journal' = journal
  \/ \E R \in Record : /\ R.plan = act[a].plan
                       /\ journal' = [journal EXCEPT ![act[a].op] = R]

OwnByteOnly(a) ==
  \/ disk' = disk
  \/ \E f \in DOMAIN act[a].plan : \E c \in {act[a].plan[f].from, act[a].plan[f].to} :
       disk' = [disk EXCEPT ![f] = c]

LEMMA OwnTidy ==
  ASSUME Good, IInv', Undisturbed', PlanAssumption, BoundAssumption, NEW a \in Actor,
         act[a].op # 0, \A b \in Actor : b # a => act'[b] = act[b], faults' >= faults,
         OwnRecordOnly(a), OwnByteOnly(a),
         \/ act'[a].op = act[a].op
         \/ act'[a].op = 0 /\ (act[a].op \in OpenOps' => faults' > 0),
         Placed(a)'
  PROVE  Tidy'
<1>0. /\ IInv /\ UpToDate /\ Tidy /\ Alone /\ Alone' /\ act[a].job = 0
      /\ Engaged(a) /\ act[a].pc \notin Holding
      /\ journal \in [Op -> Record \cup {NoRecord}] /\ disk \in [File -> Content]
  BY GoodLocal, RunFacts DEF Undisturbed, IInv, TypeOK
<1> PICK r \in Op, p \in Plan : /\ r = act[a].op /\ p = act[a].plan /\ r \in Pending
                                /\ PlanOf(r) = p /\ r # 0
  BY RunFacts
<1>1. \A s \in Op : s # r => journal'[s] = journal[s]
  BY <1>0 DEF OwnRecordOnly
<1>2. \A s \in Op : PlanOf(s)' = PlanOf(s)
  <2>1. journal'[r].plan = p
    BY <1>0 DEF OwnRecordOnly, PlanOf
  <2> QED BY <1>1, <2>1 DEF PlanOf
<1>3. Pending' \subseteq Pending
  <2>1. SUFFICES ASSUME NEW s \in Pending', s # r PROVE s \in Pending
    OBVIOUS
  <2>2. s \in Op /\ (s \in OpenOps' \/ \E b \in Actor : act'[b].op = s)
    BY <2>1 DEF Pending
  <2>3. s # 0
    BY <2>2, BoundAssumption DEF Op
  <2>4. CASE s \in OpenOps'
    <3>1. s \in OpenOps
      BY <1>1, <2>1, <2>2, <2>4 DEF OpenOps
    <3> QED BY <2>2, <3>1 DEF Pending
  <2>5. CASE \E b \in Actor : act'[b].op = s
    BY <2>1, <2>2, <2>3, <2>5 DEF Pending
  <2> QED BY <2>2, <2>4, <2>5
<1>4. Moves
  <2>1. SUFFICES ASSUME NEW s \in Pending, NEW f \in DOMAIN PlanOf(s)
                 PROVE  disk'[f] \in {disk[f], PlanOf(s)[f].from, PlanOf(s)[f].to}
    BY DEF Moves
  <2>2. f \in File
    BY <1>0, <2>1, PendingTyped, PlanFacts
  <2>3. CASE s = r
    BY <1>0, <2>2, <2>3 DEF OwnByteOnly
  <2>4. CASE s # r
    <3>1. f \notin DOMAIN p
      BY <1>0, <2>1, <2>4 DEF Tidy, Apart
    <3> QED BY <1>0, <2>2, <3>1 DEF OwnByteOnly
  <2> QED BY <2>3, <2>4
<1>5. \A s \in OpenOps' : s \in {act[a].op, act[a].job} => s \in {act'[a].op, act'[a].job} \/ faults' > 0
  <2>1. SUFFICES ASSUME NEW s \in OpenOps', s = r PROVE s = act'[a].op \/ faults' > 0
    BY <1>0, BoundAssumption DEF OpenOps, Op
  <2> QED BY <2>1
<1>6. \A s \in Pending' : PlanOf(s)' = PlanOf(s)
  BY <1>2 DEF Pending
<1> QED BY <1>0, <1>3, <1>4, <1>5, <1>6, HandTidy

LEMMA DoneMoves ==
  ASSUME disk \in [File -> Content], PlanAssumption, NEW p \in Plan, NEW f \in DOMAIN p
  PROVE  /\ disk' = [disk EXCEPT ![f] = p[f].to] => Done(p)' = Done(p) \cup {f}
         /\ disk' = [disk EXCEPT ![f] = p[f].from] => Done(p)' = Done(p) \ {f}
<1>1. f \in File /\ DOMAIN p \subseteq File /\ p[f].from # p[f].to
  BY PlanFacts
<1>2. ASSUME disk' = [disk EXCEPT ![f] = p[f].to] PROVE Done(p)' = Done(p) \cup {f}
  <2>1. disk'[f] = p[f].to /\ \A g \in DOMAIN p : g # f => disk'[g] = disk[g]
    BY <1>1, <1>2
  <2> QED BY <2>1 DEF Done
<1>3. ASSUME disk' = [disk EXCEPT ![f] = p[f].from] PROVE Done(p)' = Done(p) \ {f}
  <2>1. disk'[f] = p[f].from /\ \A g \in DOMAIN p : g # f => disk'[g] = disk[g]
    BY <1>1, <1>3
  <2> QED BY <1>1, <2>1 DEF Done
<1> QED BY <1>2, <1>3

\* The record with another state.
LEMMA OwnState ==
  ASSUME Good, PlanAssumption, BoundAssumption, NEW a \in Actor, act[a].op # 0,
         NEW x \in Open \cup Terminal,
         journal' = [journal EXCEPT ![act[a].op].state = x]
  PROVE  OwnRecordOnly(a) /\ journal'[act[a].op].state = x
<1>1. /\ journal[act[a].op] \in Record /\ act[a].op \in Op /\ PlanOf(act[a].op) = act[a].plan
      /\ journal \in [Op -> Record \cup {NoRecord}]
  BY RunFacts DEF Good, IInv, TypeOK
<1>2. journal' = [journal EXCEPT ![act[a].op] = [journal[act[a].op] EXCEPT !.state = x]]
  OBVIOUS
<1> PICK R : R = [journal[act[a].op] EXCEPT !.state = x]
  OBVIOUS
<1>3. R \in Record /\ R.plan = act[a].plan /\ R.state = x
  BY <1>1 DEF Record, PlanOf
<1> QED BY <1>1, <1>2, <1>3 DEF OwnRecordOnly

LEMMA ApplyTidy ==
  ASSUME Good, IInv', Undisturbed', PlanAssumption, BoundAssumption, NEW a \in Actor, Apply(a)
  PROVE  Tidy'
<1>0. /\ act \in [Actor -> ActorState] /\ act[a] \in ActorState /\ Shaped(act[a])
      /\ act[a].pc = "prepared" /\ act[a].op # 0 /\ Placed(a) /\ faults \in Nat
      /\ disk' = disk /\ faults' = faults
  BY GoodLocal DEF Apply, Shaped, Stepping
<1> PICK p \in Plan : p = act[a].plan /\ Targets(a) = DOMAIN p /\ DOMAIN p # {}
  BY <1>0, RunFacts
<1>1. OwnRecordOnly(a)
  BY <1>0, OwnState DEF Apply, Open
<1>2. /\ act'[a].pc = "probe" /\ act'[a].plan = p /\ act'[a].left = DOMAIN p
      /\ act'[a].bad = act[a].bad /\ act'[a].op = act[a].op
      /\ \A b \in Actor : b # a => act'[b] = act[b]
  BY <1>0 DEF Apply, ActorState
<1>3. Done(p)' = {}
  BY <1>0, PlanFacts DEF Placed, Running, Untouched, Done
<1>4. Running(a)' /\ Clean(a)'
  BY <1>0, <1>2, <1>3 DEF Running, Placed, Clean
<1>5. Placed(a)'
  BY <1>2, <1>4 DEF Placed, Starting, Walking, Restoring, Undoing
<1> QED BY <1>0, <1>1, <1>2, <1>5, OwnTidy DEF OwnByteOnly

\* A step throws: all targets stand as they are, and only a failure finds them all planned.
LEMMA ThrowTidy ==
  ASSUME Good, IInv', Undisturbed', PlanAssumption, BoundAssumption, NEW a \in Actor,
         act[a].op # 0, Throw(a, {}), faults' >= faults, OwnRecordOnly(a), OwnByteOnly(a),
         NEW p \in Plan, p = act[a].plan, Full(p)' => faults' > 0,
         journal'[act[a].op].state \notin Open => Full(p)'
  PROVE  Tidy'
<1>0. /\ act \in [Actor -> ActorState] /\ act[a] \in ActorState /\ Placed(a) /\ faults \in Nat
      /\ act[a].job = 0 /\ faults' \in Nat
  BY GoodLocal, RunFacts DEF IInv, TypeOK
<1>9. Targets(a) = DOMAIN p
  BY RunFacts
<1>1. /\ act'[a].pc = "threw" /\ act'[a].plan = p /\ act'[a].left = DOMAIN p
      /\ act'[a].bad = act[a].bad /\ act'[a].op = act[a].op /\ act'[a].job = 0
      /\ act'[a].drift = {}
      /\ \A b \in Actor : b # a => act'[b] = act[b]
  BY <1>0, <1>9 DEF Throw, ActorState
<1>2. Done(p)' \subseteq DOMAIN p
  BY DEF Done
<1>3. Walking(a)'
  BY <1>1, <1>2 DEF Walking
<1>4. Clean(a)'
  BY <1>0, <1>1 DEF Clean, Placed
<1>5. Placed(a)'
  BY <1>1, <1>3, <1>4 DEF Placed, Starting, Running, Restoring
<1> QED BY <1>1, <1>5, OwnTidy

LEMMA ApplyFailsTidy ==
  ASSUME Good, IInv', Undisturbed', PlanAssumption, BoundAssumption, NEW a \in Actor, ApplyFails(a)
  PROVE  Tidy'
<1>0. /\ act[a].pc = "prepared" /\ act[a].op # 0 /\ Placed(a) /\ faults \in Nat /\ Shaped(act[a])
      /\ disk' = disk /\ Throw(a, {})
      /\ journal' = journal \/ journal' = [journal EXCEPT ![act[a].op].state = "applying"]
      /\ faults' = faults + 1
  BY GoodLocal DEF ApplyFails, PublishFails, Fault, Shaped, Stepping
<1>1. act[a].op \in OpenOps
  BY <1>0, RunFacts
<1>2. OwnRecordOnly(a) /\ journal'[act[a].op].state \in Open
  <2>1. CASE journal' = journal
    BY <1>1, <2>1 DEF OwnRecordOnly, OpenOps
  <2>2. CASE journal' = [journal EXCEPT ![act[a].op].state = "applying"]
    BY <1>0, <2>2, OwnState DEF Open
  <2> QED BY <1>0, <2>1, <2>2
<1>3. faults' >= faults /\ faults' > 0 /\ OwnByteOnly(a)
  BY <1>0 DEF OwnByteOnly
<1>4. PICK p \in Plan : p = act[a].plan
  BY <1>0, RunFacts
<1> QED BY <1>0, <1>2, <1>3, <1>4, ThrowTidy

\* What a run meets in front of a write.
LEMMA WriteFacts ==
  ASSUME Good, PlanAssumption, BoundAssumption, NEW a \in Actor, act[a].pc \in {"probe", "write"}
  PROVE  /\ act[a].op # 0 /\ act[a].left # {} /\ act[a].left \subseteq DOMAIN act[a].plan
         /\ Done(act[a].plan) = DOMAIN act[a].plan \ act[a].left
         /\ ~Full(act[a].plan)
<1>0. /\ Shaped(act[a]) /\ Placed(a)
  BY GoodLocal
<1>1. /\ act[a].op # 0 /\ act[a].left # {} /\ act[a].left \subseteq DOMAIN act[a].plan
      /\ Done(act[a].plan) = DOMAIN act[a].plan \ act[a].left
  BY <1>0 DEF Shaped, Stepping, Placed, Running
<1> QED BY <1>1 DEF Full

LEMMA ProbeTidy ==
  ASSUME Good, IInv', Undisturbed', PlanAssumption, BoundAssumption, NEW a \in Actor, Probe(a)
  PROVE  Tidy'
<1>0. /\ act \in [Actor -> ActorState] /\ act[a] \in ActorState /\ act[a].pc = "probe"
      /\ Placed(a) /\ faults \in Nat /\ disk' = disk /\ journal' = journal /\ faults' = faults
  BY GoodLocal DEF Probe
<1>1. /\ act[a].op # 0 /\ act[a].left # {} /\ act[a].left \subseteq DOMAIN act[a].plan
      /\ Done(act[a].plan) = DOMAIN act[a].plan \ act[a].left
  BY <1>0, WriteFacts
<1> PICK p \in Plan : p = act[a].plan /\ Ours(p)
  BY <1>1, RunFacts
<1>2. act' = [act EXCEPT ![a].pc = "write"]
  <2>1. In(p, "other") = {}
    BY InDone DEF Ours
  <2> QED BY <2>1 DEF Probe, Drifted
<1>3. /\ act'[a].pc = "write" /\ act'[a].plan = p /\ act'[a].left = act[a].left
      /\ act'[a].bad = act[a].bad /\ act'[a].op = act[a].op
      /\ \A b \in Actor : b # a => act'[b] = act[b]
  BY <1>0, <1>2 DEF ActorState
<1>4. Running(a)' /\ Clean(a)'
  BY <1>0, <1>1, <1>3 DEF Running, Placed, Clean, Done
<1>5. Placed(a)'
  BY <1>3, <1>4 DEF Placed, Starting, Walking, Restoring, Undoing
<1> QED BY <1>0, <1>1, <1>3, <1>5, OwnTidy DEF OwnRecordOnly, OwnByteOnly

LEMMA WriteTidy ==
  ASSUME Good, IInv', Undisturbed', PlanAssumption, BoundAssumption, NEW a \in Actor, Write(a)
  PROVE  Tidy'
<1>0. /\ act \in [Actor -> ActorState] /\ act[a] \in ActorState /\ act[a].pc = "write"
      /\ Placed(a) /\ faults \in Nat /\ journal' = journal /\ faults' = faults
      /\ disk \in [File -> Content]
  BY GoodLocal DEF Write, IInv, TypeOK
<1>1. /\ act[a].op # 0 /\ act[a].left # {} /\ act[a].left \subseteq DOMAIN act[a].plan
      /\ Done(act[a].plan) = DOMAIN act[a].plan \ act[a].left
  BY <1>0, WriteFacts
<1> PICK p \in Plan : p = act[a].plan /\ Targets(a) = DOMAIN p
  BY <1>1, RunFacts
<1>9. PICK f \in act[a].left :
        /\ Put(a, f)
        /\ act' = [act EXCEPT ![a].pc = IF act[a].left = {f} THEN "verify" ELSE "probe",
                              ![a].left = IF @ = {f} THEN Targets(a) ELSE @ \ {f}]
  BY DEF Write
<1>2. f \in DOMAIN p /\ disk' = [disk EXCEPT ![f] = p[f].to]
  BY <1>1, <1>9 DEF Put
<1>3. Done(p)' = Done(p) \cup {f}
  BY <1>0, <1>2, DoneMoves
<1>4. /\ act'[a].pc = (IF act[a].left = {f} THEN "verify" ELSE "probe") /\ act'[a].plan = p
      /\ act'[a].left = (IF act[a].left = {f} THEN DOMAIN p ELSE act[a].left \ {f})
      /\ act'[a].bad = act[a].bad /\ act'[a].op = act[a].op
      /\ \A b \in Actor : b # a => act'[b] = act[b]
  BY <1>0, <1>9 DEF ActorState
<1>5. Running(a)'
  <2>1. CASE act[a].left = {f}
    <3>1. Full(p)'
      BY <1>1, <1>2, <1>3, <2>1 DEF Full
    <3>2. act'[a].pc = "verify" /\ act'[a].plan = p
      BY <1>4, <2>1
    <3> QED BY <3>1, <3>2 DEF Running
  <2>2. CASE act[a].left # {f}
    <3>1. act[a].left \ {f} # {} /\ Done(p)' = DOMAIN p \ (act[a].left \ {f})
      BY <1>1, <1>2, <1>3, <2>2
    <3>2. act'[a].pc = "probe" /\ act'[a].plan = p /\ act'[a].left = act[a].left \ {f}
      BY <1>4, <2>2
    <3> QED BY <3>1, <3>2 DEF Running
  <2> QED BY <2>1, <2>2
<1>6. Clean(a)'
  BY <1>0, <1>4 DEF Placed, Clean
<1>7. Placed(a)'
  <2>1. act'[a].pc \in {"verify", "probe"}
    BY <1>4
  <2> QED BY <1>5, <1>6, <2>1 DEF Placed, Starting, Walking, Restoring, Undoing
<1>8. OwnByteOnly(a) /\ OwnRecordOnly(a) /\ faults' >= faults
  <2>1. OwnByteOnly(a)
    BY <1>2 DEF OwnByteOnly
  <2>2. OwnRecordOnly(a)
    BY <1>0 DEF OwnRecordOnly
  <2>3. faults' >= faults
    BY <1>0
  <2> QED BY <2>1, <2>2, <2>3
<1>10. act'[a].op = act[a].op /\ \A b \in Actor : b # a => act'[b] = act[b]
  BY <1>4
<1> QED BY <1>1, <1>7, <1>8, <1>10, OwnTidy

LEMMA WriteFailsTidy ==
  ASSUME Good, IInv', Undisturbed', PlanAssumption, BoundAssumption, NEW a \in Actor,
         WriteFails(a) \/ WriteUnrecorded(a)
  PROVE  Tidy'
<1>0. /\ act[a].pc = "write" /\ Throw(a, {}) /\ journal' = journal /\ faults \in Nat
      /\ faults' \in {faults, faults + 1} /\ (WriteUnrecorded(a) => faults' = faults + 1)
  BY GoodLocal DEF WriteFails, WriteUnrecorded, Fault
<1>1. /\ act[a].op # 0 /\ act[a].left \subseteq DOMAIN act[a].plan /\ ~Full(act[a].plan)
  BY <1>0, WriteFacts
<1> PICK p \in Plan : p = act[a].plan
  BY <1>1, RunFacts
<1>2. act[a].op \in OpenOps
  BY <1>0, <1>1, RunFacts
<1>3. OwnByteOnly(a) /\ (Full(p)' => faults' > 0)
  <2>1. CASE WriteFails(a)
    <3>1. disk' = disk
      BY <2>1 DEF WriteFails
    <3> QED BY <1>1, <3>1 DEF OwnByteOnly, Full, Done
  <2>2. CASE WriteUnrecorded(a)
    <3>1. OwnByteOnly(a)
      BY <1>1, <2>2 DEF WriteUnrecorded, Put, OwnByteOnly
    <3> QED BY <1>0, <2>2, <3>1
  <2> QED BY <2>1, <2>2
<1>4. OwnRecordOnly(a) /\ journal'[act[a].op].state \in Open
  BY <1>0, <1>2 DEF OwnRecordOnly, OpenOps
<1>5. faults' >= faults
  BY <1>0
<1> QED BY <1>0, <1>1, <1>3, <1>4, <1>5, ThrowTidy

LEMMA VerifyTidy ==
  ASSUME Good, IInv', Undisturbed', PlanAssumption, BoundAssumption, NEW a \in Actor, Verify(a)
  PROVE  Tidy'
<1>0. /\ act \in [Actor -> ActorState] /\ act[a] \in ActorState /\ act[a].pc = "verify"
      /\ Placed(a) /\ faults \in Nat /\ disk' = disk /\ journal' = journal /\ faults' = faults
      /\ act[a].op # 0 /\ act[a].left \subseteq DOMAIN act[a].plan
  BY GoodLocal DEF Verify, Shaped, Stepping
<1> PICK p \in Plan : p = act[a].plan
  BY <1>0, RunFacts
<1>1. Full(p)
  BY <1>0 DEF Placed, Running
<1> PICK f \in act[a].left : act' = [act EXCEPT ![a].left = @ \ {f}]
  BY <1>0, <1>1, InDone DEF Verify, Full
<1>2. /\ act'[a].pc = "verify" /\ act'[a].plan = p
      /\ act'[a].bad = act[a].bad /\ act'[a].op = act[a].op
      /\ \A b \in Actor : b # a => act'[b] = act[b]
  BY <1>0 DEF ActorState
<1>3. Running(a)' /\ Clean(a)'
  BY <1>0, <1>1, <1>2 DEF Running, Placed, Clean, Full, Done
<1>4. Placed(a)'
  BY <1>2, <1>3 DEF Placed, Starting, Walking, Restoring, Undoing
<1> QED BY <1>0, <1>2, <1>4, OwnTidy DEF OwnRecordOnly, OwnByteOnly

LEMMA CommitTidy ==
  ASSUME Good, IInv', Undisturbed', PlanAssumption, BoundAssumption, NEW a \in Actor, Commit(a)
  PROVE  Tidy'
<1>0. /\ act \in [Actor -> ActorState] /\ act[a] \in ActorState /\ act[a].pc = "verify"
      /\ Placed(a) /\ faults \in Nat /\ disk' = disk /\ faults' = faults /\ act[a].op # 0
  BY GoodLocal DEF Commit, Shaped, Stepping
<1>1. OwnRecordOnly(a) /\ journal'[act[a].op].state = "committed"
  BY <1>0, OwnState DEF Commit, Terminal
<1>2. /\ act'[a].pc = "committed" /\ act'[a].bad = act[a].bad /\ act'[a].op = 0
      /\ \A b \in Actor : b # a => act'[b] = act[b]
  BY <1>0 DEF Commit, ActorState
<1>3. act[a].op \notin OpenOps'
  BY <1>1 DEF OpenOps, Open
<1>4. Clean(a)'
  BY <1>0, <1>2 DEF Placed, Clean
<1>5. Placed(a)'
  BY <1>2, <1>4 DEF Placed, Starting, Running, Walking, Restoring, Undoing
<1> QED BY <1>0, <1>1, <1>2, <1>3, <1>5, OwnTidy DEF OwnByteOnly

LEMMA CommitFailsTidy ==
  ASSUME Good, IInv', Undisturbed', PlanAssumption, BoundAssumption, NEW a \in Actor, CommitFails(a)
  PROVE  Tidy'
<1>0. /\ act[a].pc = "verify" /\ act[a].op # 0 /\ Placed(a) /\ faults \in Nat /\ Shaped(act[a])
      /\ disk' = disk /\ Throw(a, {})
      /\ journal' = journal \/ journal' = [journal EXCEPT ![act[a].op].state = "committed"]
      /\ faults' = faults + 1
  BY GoodLocal DEF CommitFails, PublishFails, Fault, Shaped, Stepping
<1>1. OwnRecordOnly(a)
  <2>1. CASE journal' = journal
    BY <2>1 DEF OwnRecordOnly
  <2>2. CASE journal' = [journal EXCEPT ![act[a].op].state = "committed"]
    BY <1>0, <2>2, OwnState DEF Terminal
  <2> QED BY <1>0, <2>1, <2>2
<1> PICK p \in Plan : p = act[a].plan
  BY <1>0, RunFacts
<1>2. Full(p)'
  BY <1>0 DEF Placed, Running, Full, Done
<1>3. faults' >= faults /\ faults' > 0
  BY <1>0
<1>4. OwnByteOnly(a)
  BY <1>0 DEF OwnByteOnly
<1> QED BY <1>0, <1>1, <1>2, <1>3, <1>4, ThrowTidy

LEMMA TurnRecord ==
  ASSUME Good, PlanAssumption, BoundAssumption, ActorAssumption, NEW a \in Actor, Turn(a) \/ TurnFails(a)
  PROVE  OwnRecordOnly(a)
<1>0. /\ act[a] \in ActorState /\ act[a].op # 0 /\ IInv
  BY GoodLocal DEF Turn, TurnFails, Shaped, Stepping
<1>1. PICK p \in Plan : p = act[a].plan
  BY <1>0, RunFacts
<1>2. PICK R : R = Rec(a, "compensating")
  OBVIOUS
<1>3. R \in Record /\ R.plan = act[a].plan
  BY <1>0, <1>1, <1>2, RecTyped DEF Rec, Open
<1>4. journal' = journal \/ journal' = [journal EXCEPT ![act[a].op] = R]
  BY <1>2 DEF Turn, TurnFails, PublishFails
<1> QED BY <1>3, <1>4 DEF OwnRecordOnly

LEMMA TurnTidy ==
  ASSUME Good, IInv', Undisturbed', PlanAssumption, BoundAssumption, ActorAssumption,
         NEW a \in Actor, Turn(a) \/ TurnFails(a)
  PROVE  Tidy'
<1>0. /\ act \in [Actor -> ActorState] /\ act[a] \in ActorState /\ act[a].pc = "threw"
      /\ Placed(a) /\ faults \in Nat /\ disk' = disk /\ act[a].op # 0 /\ IInv
  BY GoodLocal DEF Turn, TurnFails, Shaped, Stepping
<1>1. PICK p \in Plan : p = act[a].plan
  BY <1>0, RunFacts
<1>2. OwnRecordOnly(a)
  BY TurnRecord
<1>3. OwnByteOnly(a)
  BY <1>0 DEF OwnByteOnly
<1>4. CASE Turn(a)
  <2>1. /\ act'[a].pc = "comp" /\ act'[a].plan = p /\ act'[a].left = act[a].left
        /\ act'[a].bad = act[a].bad /\ act'[a].op = act[a].op /\ act'[a].job = act[a].job
        /\ act'[a].drift = act[a].drift
        /\ \A b \in Actor : b # a => act'[b] = act[b]
    BY <1>0, <1>1, <1>4 DEF Turn, ActorState
  <2>2. faults' = faults
    BY <1>4 DEF Turn
  <2>3. Walking(a)'
    BY <1>0, <1>1, <2>1, <2>2 DEF Placed, Walking, Full, Done, Undoing
  <2>4. Clean(a)'
    BY <1>0, <2>1, <2>2 DEF Placed, Clean
  <2>5. Placed(a)'
    BY <2>1, <2>3, <2>4 DEF Placed, Starting, Running, Restoring
  <2>6. faults' >= faults
    BY <1>0, <2>2
  <2> QED BY <1>0, <1>2, <1>3, <2>1, <2>5, <2>6, OwnTidy
<1>5. CASE TurnFails(a)
  <2>1. /\ act'[a].pc = "failed" /\ act'[a].bad = act[a].bad /\ act'[a].op = 0
        /\ \A b \in Actor : b # a => act'[b] = act[b]
    BY <1>0, <1>5 DEF TurnFails, ActorState
  <2>2. faults' = faults + 1
    BY <1>5 DEF TurnFails, PublishFails, Fault
  <2>3. faults' >= faults /\ faults' > 0
    BY <1>0, <2>2
  <2>4. Placed(a)'
    BY <2>1, <2>3 DEF Placed, Starting, Running, Walking, Restoring, Undoing, Clean
  <2> QED BY <1>0, <1>2, <1>3, <2>1, <2>3, <2>4, OwnTidy
<1> QED BY <1>4, <1>5

\* What the compensation may rely on.
LEMMA UndoFacts ==
  ASSUME Good, PlanAssumption, BoundAssumption, NEW a \in Actor, act[a].pc \in Undoing
  PROVE  /\ act[a].op # 0 /\ act[a].op \in OpenOps /\ act[a].job = 0 /\ act[a].drift = {}
         /\ act[a].plan \in Plan /\ PlanOf(act[a].op) = act[a].plan /\ Ours(act[a].plan)
         /\ act[a].left \subseteq DOMAIN act[a].plan /\ DOMAIN act[a].plan \subseteq File
         /\ \A f \in DOMAIN act[a].plan : act[a].plan[f].from # act[a].plan[f].to
         /\ Full(act[a].plan) => faults > 0
         /\ ~act[a].bad => Done(act[a].plan) \subseteq act[a].left
         /\ act[a].bad => faults > 0
         /\ act[a].pc = "reread" =>
              \A f \in act[a].left : Final(act[a].left, f) => f \notin Done(act[a].plan)
         /\ In(act[a].plan, "planned") = Done(act[a].plan) /\ In(act[a].plan, "other") = {}
<1>1. /\ Placed(a) /\ Shaped(act[a]) /\ act[a].pc # "threw"
  BY GoodLocal DEF Undoing
<1>2. /\ act[a].job = 0 /\ act[a].drift = {}
      /\ Full(act[a].plan) => faults > 0
      /\ ~act[a].bad => Done(act[a].plan) \subseteq act[a].left
      /\ act[a].bad => faults > 0
      /\ act[a].pc = "reread" =>
           \A f \in act[a].left : Final(act[a].left, f) => f \notin Done(act[a].plan)
  BY <1>1 DEF Placed, Walking, Clean
<1>3. act[a].op # 0 /\ act[a].left \subseteq DOMAIN act[a].plan
  BY <1>1, <1>2 DEF Shaped
<1>4. /\ act[a].op \in OpenOps /\ act[a].plan \in Plan /\ PlanOf(act[a].op) = act[a].plan
      /\ Ours(act[a].plan) /\ DOMAIN act[a].plan \subseteq File
      /\ \A f \in DOMAIN act[a].plan : act[a].plan[f].from # act[a].plan[f].to
  BY <1>1, <1>3, RunFacts
<1>5. In(act[a].plan, "planned") = Done(act[a].plan) /\ In(act[a].plan, "other") = {}
  BY <1>4, InDone DEF Ours
<1> QED BY <1>2, <1>3, <1>4, <1>5

\* The walk goes on, from where it stands.
LEMMA WalkTidy ==
  ASSUME Good, IInv', Undisturbed', PlanAssumption, BoundAssumption, NEW a \in Actor,
         act[a].pc \in Undoing, act'[a].pc \in Undoing, act'[a].plan = act[a].plan,
         act'[a].op = act[a].op, act'[a].job = act[a].job, act'[a].drift = act[a].drift,
         \A b \in Actor : b # a => act'[b] = act[b],
         journal' = journal, OwnByteOnly(a), faults' >= faults,
         NEW p \in Plan, p = act[a].plan,
         Full(p)' => faults' > 0,
         ~act'[a].bad => Done(p)' \subseteq act'[a].left,
         act'[a].bad => faults' > 0,
         act'[a].pc = "reread" => \A f \in act'[a].left : Final(act'[a].left, f) => f \notin Done(p)'
  PROVE  Tidy'
<1>1. act[a].op # 0 /\ act[a].job = 0 /\ act[a].drift = {}
  BY UndoFacts
<1>2. Walking(a)'
  BY <1>1 DEF Walking, Final, Undoing
<1>3. Placed(a)'
  BY <1>2 DEF Placed, Starting, Running, Restoring, Undoing, Clean
<1> QED BY <1>1, <1>3, OwnTidy DEF OwnRecordOnly

LEMMA CompensateTidy ==
  ASSUME Good, IInv', Undisturbed', PlanAssumption, BoundAssumption, NEW a \in Actor, Compensate(a)
  PROVE  Tidy'
<1>0. /\ act \in [Actor -> ActorState] /\ act[a] \in ActorState /\ act[a].pc = "comp"
      /\ act[a].pc \in Undoing /\ faults \in Nat /\ disk' = disk /\ faults' = faults /\ journal' = journal
  BY GoodLocal DEF Compensate, Undoing
<1>1. PICK p \in Plan : p = act[a].plan
  BY <1>0, UndoFacts
<1>2. /\ act[a].drift = {} /\ In(p, "other") = {} /\ In(p, "planned") = Done(p)
      /\ In(p, "original") = {g \in DOMAIN p : disk[g] = p[g].from}
      /\ \A g \in DOMAIN p : p[g].from # p[g].to
      /\ Full(p) => faults > 0
      /\ ~act[a].bad => Done(p) \subseteq act[a].left
      /\ act[a].bad => faults > 0
  BY <1>0, <1>1, UndoFacts, InDone
<1>3. PICK f \in act[a].left :
           \/ f \in In(p, "original") /\ act' = [act EXCEPT ![a].left = @ \ {f}]
           \/ act' = [act EXCEPT ![a].pc = "undo"]
  BY <1>1, <1>2 DEF Compensate
<1>4. /\ act'[a].pc \in {"comp", "undo"} /\ act'[a].plan = act[a].plan /\ act'[a].bad = act[a].bad
      /\ act'[a].op = act[a].op /\ act'[a].job = act[a].job /\ act'[a].drift = act[a].drift
      /\ \/ f \notin Done(p) /\ act'[a].left = act[a].left \ {f}
         \/ act'[a].left = act[a].left
      /\ \A b \in Actor : b # a => act'[b] = act[b]
  <2>1. CASE f \in In(p, "original") /\ act' = [act EXCEPT ![a].left = @ \ {f}]
    <3>1. f \notin Done(p)
      BY <1>2, <2>1 DEF Done
    <3> QED BY <1>0, <2>1, <3>1 DEF ActorState
  <2>2. CASE act' = [act EXCEPT ![a].pc = "undo"]
    BY <1>0, <2>2 DEF ActorState
  <2> QED BY <1>3, <2>1, <2>2
<1>5. Done(p)' = Done(p) /\ (Full(p)' <=> Full(p)) /\ OwnByteOnly(a) /\ act'[a].pc \in Undoing
  BY <1>0, <1>4 DEF Done, Full, OwnByteOnly, Undoing
<1>6. /\ Full(p)' => faults' > 0
      /\ ~act'[a].bad => Done(p)' \subseteq act'[a].left
      /\ act'[a].bad => faults' > 0
      /\ act'[a].pc # "reread"
  BY <1>0, <1>2, <1>4, <1>5
<1>7. faults' >= faults
  BY <1>0
<1> QED BY <1>0, <1>1, <1>4, <1>5, <1>6, <1>7, WalkTidy

LEMMA UndoTidy ==
  ASSUME Good, IInv', Undisturbed', PlanAssumption, BoundAssumption, FileAssumption,
         NEW a \in Actor, Undo(a)
  PROVE  Tidy'
<1>0. /\ act \in [Actor -> ActorState] /\ act[a] \in ActorState /\ act[a].pc = "undo"
      /\ act[a].pc \in Undoing /\ faults \in Nat /\ faults' \in Nat /\ journal' = journal
      /\ disk \in [File -> Content]
  BY GoodLocal DEF Undo, Undoing, IInv, TypeOK
<1>1. PICK p \in Plan : p = act[a].plan
  BY <1>0, UndoFacts
<1>2. /\ act[a].left \subseteq DOMAIN p /\ DOMAIN p \subseteq File /\ File \subseteq Nat
      /\ \A g \in DOMAIN p : p[g].from # p[g].to
      /\ Full(p) => faults > 0
      /\ ~act[a].bad => Done(p) \subseteq act[a].left
      /\ act[a].bad => faults > 0
  BY <1>0, <1>1, UndoFacts DEF FileAssumption
<1>3. PICK f \in act[a].left :
           /\ Final(act[a].left, f)
           /\ \/ /\ disk' = [disk EXCEPT ![f] = p[f].from]
                 /\ act' = [act EXCEPT ![a].pc = "reread"]
                 /\ UNCHANGED faults
              \/ /\ Fault
                 /\ act' = [act EXCEPT ![a].pc = "comp", ![a].left = @ \ {f}, ![a].bad = TRUE]
                 /\ \/ UNCHANGED disk
                    \/ p[f].from # Absent /\ disk' = [disk EXCEPT ![f] = p[f].from]
  BY <1>1 DEF Undo
<1>4. f \in DOMAIN p /\ (disk' = disk \/ disk' = [disk EXCEPT ![f] = p[f].from])
  BY <1>2, <1>3
<1>5. OwnByteOnly(a)
  BY <1>1, <1>4 DEF OwnByteOnly
<1>6. Done(p)' \subseteq Done(p) /\ (Full(p)' => Full(p))
  <2>1. CASE disk' = disk
    BY <2>1 DEF Done, Full
  <2>2. CASE disk' = [disk EXCEPT ![f] = p[f].from]
    <3>1. Done(p)' = Done(p) \ {f}
      BY <1>0, <1>4, <2>2, DoneMoves
    <3>2. ~Full(p)'
      BY <1>4, <3>1 DEF Full
    <3> QED BY <3>1, <3>2
  <2> QED BY <1>4, <2>1, <2>2
<1>7. CASE disk' = [disk EXCEPT ![f] = p[f].from] /\ act' = [act EXCEPT ![a].pc = "reread"]
           /\ UNCHANGED faults
  <2>1. /\ act'[a].pc = "reread" /\ act'[a].plan = act[a].plan /\ act'[a].bad = act[a].bad
        /\ act'[a].op = act[a].op /\ act'[a].job = act[a].job /\ act'[a].drift = act[a].drift
        /\ act'[a].left = act[a].left
        /\ \A b \in Actor : b # a => act'[b] = act[b]
    BY <1>0, <1>7 DEF ActorState
  <2>2. \A g \in act'[a].left : Final(act'[a].left, g) => g \notin Done(p)'
    <3>1. SUFFICES ASSUME NEW g \in act[a].left, Final(act[a].left, g) PROVE g \notin Done(p)'
      BY <2>1
    <3>2. g = f
      BY <1>2, <1>3, <3>1, FinalUnique
    <3>3. Done(p)' = Done(p) \ {f}
      BY <1>0, <1>4, <1>7, DoneMoves
    <3> QED BY <3>2, <3>3
  <2>3. /\ Full(p)' => faults' > 0
        /\ ~act'[a].bad => Done(p)' \subseteq act'[a].left
        /\ act'[a].bad => faults' > 0
        /\ faults' >= faults
    BY <1>0, <1>2, <1>6, <1>7, <2>1
  <2>4. act'[a].pc \in Undoing
    BY <2>1 DEF Undoing
  <2> QED BY <1>0, <1>1, <1>5, <2>1, <2>2, <2>3, <2>4, WalkTidy
<1>8. CASE Fault /\ act' = [act EXCEPT ![a].pc = "comp", ![a].left = @ \ {f}, ![a].bad = TRUE]
  <2>1. /\ act'[a].pc = "comp" /\ act'[a].plan = act[a].plan /\ act'[a].bad
        /\ act'[a].op = act[a].op /\ act'[a].job = act[a].job /\ act'[a].drift = act[a].drift
        /\ \A b \in Actor : b # a => act'[b] = act[b]
    BY <1>0, <1>8 DEF ActorState
  <2>2. faults' > 0 /\ faults' >= faults
    BY <1>0, <1>8 DEF Fault
  <2>3. act'[a].pc \in Undoing /\ act'[a].pc # "reread"
    BY <2>1 DEF Undoing
  <2> QED BY <1>0, <1>1, <1>5, <2>1, <2>2, <2>3, WalkTidy
<1> QED BY <1>3, <1>7, <1>8

LEMMA RereadTidy ==
  ASSUME Good, IInv', Undisturbed', PlanAssumption, BoundAssumption, NEW a \in Actor, Reread(a)
  PROVE  Tidy'
<1>0. /\ act \in [Actor -> ActorState] /\ act[a] \in ActorState /\ act[a].pc = "reread"
      /\ act[a].pc \in Undoing /\ faults \in Nat /\ disk' = disk /\ faults' = faults /\ journal' = journal
  BY GoodLocal DEF Reread, Undoing
<1>1. PICK p \in Plan : p = act[a].plan
  BY <1>0, UndoFacts
<1>2. /\ Full(p) => faults > 0
      /\ ~act[a].bad => Done(p) \subseteq act[a].left
      /\ act[a].bad => faults > 0
      /\ Ours(p) /\ act[a].left \subseteq DOMAIN p
      /\ \A f \in act[a].left : Final(act[a].left, f) => f \notin Done(p)
  BY <1>0, <1>1, UndoFacts
<1>3. PICK f \in act[a].left :
           /\ Final(act[a].left, f)
           /\ act' = [act EXCEPT ![a].pc = "comp", ![a].left = @ \ {f},
                                 ![a].bad = @ \/ disk[f] # p[f].from]
  BY <1>1 DEF Reread
<1>4. f \notin Done(p) /\ disk[f] = p[f].from
  BY <1>2, <1>3 DEF Ours, Done
<1>5. /\ act'[a].pc = "comp" /\ act'[a].plan = act[a].plan /\ (act'[a].bad <=> act[a].bad)
      /\ act'[a].op = act[a].op /\ act'[a].job = act[a].job /\ act'[a].drift = act[a].drift
      /\ act'[a].left = act[a].left \ {f}
      /\ \A b \in Actor : b # a => act'[b] = act[b]
  BY <1>0, <1>3, <1>4 DEF ActorState
<1>6. Done(p)' = Done(p) /\ (Full(p)' <=> Full(p)) /\ OwnByteOnly(a) /\ act'[a].pc \in Undoing
  BY <1>0, <1>5 DEF Done, Full, OwnByteOnly, Undoing
<1>7. /\ Full(p)' => faults' > 0
      /\ ~act'[a].bad => Done(p)' \subseteq act'[a].left
      /\ act'[a].bad => faults' > 0
      /\ act'[a].pc # "reread" /\ faults' >= faults
  BY <1>0, <1>2, <1>4, <1>5, <1>6
<1> QED BY <1>0, <1>1, <1>5, <1>6, <1>7, WalkTidy

\* Behind the walk: aborted with all originals back, or left compensating behind a failure.
LEMMA CompensatedFacts ==
  ASSUME Good, PlanAssumption, BoundAssumption, NEW a \in Actor, Compensated(a) \/ CompensatedFails(a)
  PROVE  /\ act[a].pc = "comp" /\ act[a].op # 0 /\ disk' = disk /\ OwnRecordOnly(a)
         /\ act'[a].pc = "failed" /\ act'[a].op = 0 /\ act'[a].bad = act[a].bad
         /\ \A b \in Actor : b # a => act'[b] = act[b]
         /\ ~act[a].bad => Done(act[a].plan) = {}
         /\ faults' >= faults
         /\ \/ faults' > 0 /\ journal' = journal
            \/ ~act[a].bad /\ journal' = [journal EXCEPT ![act[a].op].state = "aborted"]
<1>0. /\ act \in [Actor -> ActorState] /\ act[a] \in ActorState /\ act[a].pc = "comp"
      /\ act[a].pc \in Undoing /\ act[a].left = {} /\ disk' = disk /\ faults \in Nat
  BY GoodLocal DEF Compensated, CompensatedFails, Walked, Undoing
<1>1. /\ act[a].op # 0 /\ act[a].job = 0
      /\ ~act[a].bad => Done(act[a].plan) = {}
      /\ act[a].bad => faults > 0
  BY <1>0, UndoFacts
<1>2. Walked(a, "failed")
  BY <1>1 DEF Compensated, CompensatedFails
<1>3. /\ act'[a].pc = "failed" /\ act'[a].op = 0 /\ act'[a].bad = act[a].bad
      /\ \A b \in Actor : b # a => act'[b] = act[b]
  BY <1>0, <1>2 DEF Walked, ActorState
<1>4. Settled(a) = [journal[act[a].op] EXCEPT !.state = "aborted"]
  BY <1>1 DEF Settled
<1>5. \/ Compensated(a) /\ act[a].bad /\ journal' = journal /\ faults' = faults
      \/ ~act[a].bad /\ journal' = [journal EXCEPT ![act[a].op] = Settled(a)] /\ faults' = faults
      \/ /\ Fault /\ ~act[a].bad
         /\ journal' = journal \/ journal' = [journal EXCEPT ![act[a].op] = Settled(a)]
  BY <1>1 DEF Compensated, CompensatedFails, PublishFails
<1>6. /\ faults' >= faults
      /\ \/ faults' > 0 /\ journal' = journal
         \/ ~act[a].bad /\ journal' = [journal EXCEPT ![act[a].op].state = "aborted"]
  <2>1. faults' = faults \/ Fault
    BY <1>5
  <2>2. Fault => faults' = faults + 1
    BY DEF Fault
  <2>3. faults' >= faults /\ (Fault => faults' > 0)
    BY <1>0, <2>1, <2>2
  <2>4. CASE act[a].bad
    BY <1>0, <1>1, <1>5, <2>3, <2>4
  <2>5. CASE ~act[a].bad /\ journal' = [journal EXCEPT ![act[a].op] = Settled(a)]
    BY <1>4, <2>3, <2>5
  <2>6. CASE Fault /\ journal' = journal
    BY <2>3, <2>6
  <2> QED BY <1>5, <2>4, <2>5, <2>6
<1>7. OwnRecordOnly(a)
  <2>1. CASE journal' = journal
    BY <2>1 DEF OwnRecordOnly
  <2>2. CASE journal' = [journal EXCEPT ![act[a].op].state = "aborted"]
    BY <1>1, <2>2, OwnState DEF Terminal
  <2> QED BY <1>6, <2>1, <2>2
<1> QED BY <1>0, <1>1, <1>3, <1>6, <1>7

LEMMA CompensatedTidy ==
  ASSUME Good, IInv', Undisturbed', PlanAssumption, BoundAssumption, NEW a \in Actor,
         Compensated(a) \/ CompensatedFails(a)
  PROVE  Tidy'
<1>1. /\ act[a].op # 0 /\ disk' = disk /\ OwnRecordOnly(a)
      /\ act'[a].pc = "failed" /\ act'[a].op = 0 /\ act'[a].bad = act[a].bad
      /\ \A b \in Actor : b # a => act'[b] = act[b]
      /\ faults' >= faults
      /\ \/ faults' > 0 /\ journal' = journal
         \/ ~act[a].bad /\ journal' = [journal EXCEPT ![act[a].op].state = "aborted"]
  BY CompensatedFacts
<1>2. act[a].op \in OpenOps' => faults' > 0
  <2>1. CASE journal' = [journal EXCEPT ![act[a].op].state = "aborted"]
    <3>1. journal'[act[a].op].state = "aborted"
      BY <1>1, <2>1, OwnState DEF Terminal
    <3> QED BY <3>1 DEF OpenOps, Open
  <2> QED BY <1>1, <2>1
<1>3. Clean(a)'
  <2>1. Clean(a) /\ faults \in Nat /\ faults' \in Nat
    BY GoodLocal DEF Placed, IInv, TypeOK
  <2> QED BY <1>1, <2>1 DEF Clean
<1>4. Placed(a)'
  BY <1>1, <1>3 DEF Placed, Starting, Running, Walking, Restoring, Undoing
<1> QED BY <1>1, <1>2, <1>4, OwnTidy DEF OwnByteOnly

LEMMA CompactOps ==
  ASSUME CompactJournal
  PROVE  /\ OpenOps' = OpenOps
         /\ \A r \in Op : \/ journal'[r] = journal[r]
                          \/ r \in TerminalOps /\ journal'[r] = NoRecord
<1>1. \A r \in Op : \/ journal'[r] = journal[r]
                    \/ r \in TerminalOps /\ journal'[r] = NoRecord
  BY DEF CompactJournal
<1> QED BY <1>1 DEF OpenOps, TerminalOps, Open, Terminal, NoRecord

\* Compaction, by an actor with nothing in hand: no run has anything in hand then.
LEMMA CompactPending ==
  ASSUME IInv, Alone, BoundAssumption, NEW a \in Actor, Engaged(a), act[a].op = 0,
         CompactJournal, \A b \in Actor : act'[b].op = act[b].op
  PROVE  /\ Pending = OpenOps /\ Pending' = Pending /\ OpenOps' = OpenOps
         /\ \A r \in Pending : PlanOf(r)' = PlanOf(r)
<1>1. \A b \in Actor : act[b].op = 0
  BY OthersEmpty
<1>2. Pending = OpenOps /\ Pending' = OpenOps' /\ OpenOps' = OpenOps
  BY <1>1, CompactOps DEF Pending, Op, OpenOps
<1>3. \A r \in OpenOps : r \in Op /\ r \notin TerminalOps
  BY DEF OpenOps, TerminalOps, Open, Terminal
<1>4. \A r \in OpenOps : journal'[r] = journal[r]
  BY <1>3, CompactOps
<1> QED BY <1>2, <1>4 DEF PlanOf

LEMMA CloseTidy ==
  ASSUME Good, IInv', Undisturbed', BoundAssumption, NEW a \in Actor, Close(a)
  PROVE  Tidy'
<1>0. /\ IInv /\ Tidy /\ Alone /\ Alone' /\ act \in [Actor -> ActorState]
      /\ Shaped(act[a]) /\ faults \in Nat /\ act[a].pc = "committed" /\ CompactJournal
      /\ disk' = disk /\ faults' = faults
  BY GoodLocal DEF Undisturbed, Close
<1>1. Engaged(a) /\ act[a].pc \notin Holding /\ act[a].op = 0 /\ act[a].job = 0
  BY <1>0 DEF Engaged, Holding, Recovering, Shaped, Stepping, Undoing
<1>2. /\ act'[a].pc = "idle" /\ ~act'[a].bad /\ act'[a].op = 0
      /\ \A b \in Actor : b # a => act'[b] = act[b]
  BY <1>0 DEF Close, Return, Idle
<1>3. /\ Pending' \subseteq Pending /\ \A r \in Pending' : PlanOf(r)' = PlanOf(r)
      /\ OpenOps' = OpenOps
  BY <1>0, <1>1, <1>2, CompactPending
<1>4. Placed(a)'
  BY <1>2, NotPlaced DEF Engaged, Clean
<1>5. \A r \in OpenOps' : r \notin {act[a].op, act[a].job}
  BY <1>1, <1>3, BoundAssumption DEF OpenOps, Op
<1>6. Moves /\ faults' >= faults
  BY <1>0 DEF Moves
<1> QED BY <1>0, <1>1, <1>2, <1>3, <1>4, <1>5, <1>6, HandTidy

\* A run that returns behind a failure, or that its caller cancels.
LEMMA EndsTidy ==
  ASSUME Good, IInv', Undisturbed', BoundAssumption, NEW a \in Actor,
         Conclude(a) \/ (Cancel(a) /\ Engaged(a))
  PROVE  Tidy'
<1>0. /\ IInv /\ Tidy /\ Alone /\ Alone' /\ Shaped(act[a])
      /\ act[a].pc \in {"failed", "checked", "staged"}
      /\ disk' = disk /\ journal' = journal /\ faults' = faults
  BY GoodLocal DEF Undisturbed, Conclude, Cancel, Engaged
<1>1. Engaged(a) /\ act[a].pc \notin Holding /\ act[a].op = 0 /\ act[a].job = 0
  BY <1>0 DEF Engaged, Holding, Recovering, Shaped, Stepping, Undoing
<1>2. \E o : Return(a, o)
  BY DEF Conclude, Cancel
<1> QED BY <1>0, <1>1, <1>2, ReturnTidy

------------------------------------------------------------------------------
(* The recovery *)

LEMMA ListingTidy ==
  ASSUME Good, IInv', Undisturbed', BoundAssumption, NEW a \in Actor, Boot(a) \/ Sweep(a)
  PROVE  Tidy'
<1>0. /\ IInv /\ Tidy /\ Alone /\ Alone' /\ act \in [Actor -> ActorState] /\ Placed(a)
      /\ act[a] \in ActorState /\ faults \in Nat /\ act[a].pc \in {"idle", "start"} /\ Listing(a)
  BY GoodLocal DEF Undisturbed, Boot, Sweep
<1>1. ~Engaged(a)
  BY <1>0 DEF Engaged
<1>2. /\ act'[a].pc = "sweep" /\ act'[a].bad = act[a].bad
      /\ act'[a].op = act[a].op /\ act'[a].job = act[a].job
      /\ act'[a].seen = {<<r, journal[r]>> : r \in OpenOps}
      /\ \A b \in Actor : b # a => act'[b] = act[b]
      /\ disk' = disk /\ journal' = journal /\ faults' = faults /\ writer' = writer
  BY <1>0 DEF Listing, ActorState
<1>3. \A b \in Actor : act'[b].op \in {0, act[b].op}
  BY <1>2
<1>4. /\ OpenOps' = OpenOps /\ Pending' \subseteq Pending
      /\ \A r \in Pending' : PlanOf(r)' = PlanOf(r)
  BY <1>2, <1>3, StillPending DEF Pending
<1>5. OursAll' /\ Apart'
  BY <1>0, <1>2, <1>4, BytesTidy DEF Tidy, Moves
<1>6. Clean(a)'
  BY <1>0, <1>2 DEF Placed, Clean
<1>7. Placed(a)'
  BY <1>2, <1>6 DEF Placed, Starting, Running, Walking, Restoring, Undoing
<1>8. Engaged(a)' /\ faults' >= faults
  BY <1>0, <1>2 DEF Engaged
<1>9. \A b \in Actor : ~Engaged(b)
  BY <1>0, <1>1, <1>2, <1>8 DEF Alone, Engaged
<1>10. LeftBy(a)'
  <2>1. SUFFICES ASSUME NEW r \in OpenOps
                 PROVE  \/ faults > 0
                        \/ writer[r] = Dead /\ \E e \in act'[a].seen : e[1] = r
    BY <1>2, <1>4 DEF LeftBy, Holding
  <2>2. r # 0
    BY BoundAssumption DEF OpenOps, Op
  <2>3. \A b \in Actor : act[b].op # r /\ act[b].job # r
    BY <1>0, <1>9, <2>2, NotEngaged
  <2>4. faults > 0 \/ writer[r] = Dead
    BY <1>0, <2>3 DEF Tidy, Left
  <2>5. <<r, journal[r]>> \in act'[a].seen
    BY <1>2
  <2> QED BY <2>4, <2>5
<1> QED BY <1>0, <1>2, <1>5, <1>7, <1>8, <1>10, TidyFrom

\* What a recovery has in hand.
LEMMA RecoveryFacts ==
  ASSUME Good, PlanAssumption, BoundAssumption, NEW a \in Actor, act[a].pc \in Recovering
  PROVE  /\ act[a].job \in OpenOps /\ act[a].job \in Op /\ act[a].job # 0
         /\ act[a].snap = journal[act[a].job] /\ act[a].snap.plan = PlanOf(act[a].job)
         /\ act[a].snap \in Record
         /\ act[a].snap.plan \in Plan /\ Ours(act[a].snap.plan) /\ Restoring(a)
         /\ act[a].pc \in {"restore", "restored"} => act[a].left \subseteq DOMAIN act[a].snap.plan
<1>1. IInv /\ UpToDate /\ Tidy /\ Shaped(act[a]) /\ Placed(a)
  BY GoodLocal
<1>2. /\ act[a].job \in OpenOps /\ act[a].snap = journal[act[a].job]
      /\ PlanOf(act[a].job) = act[a].snap.plan
  BY <1>1, InHand
<1>3. act[a].job \in Pending
  BY <1>2 DEF Pending, OpenOps
<1>4. /\ act[a].job \in Op /\ act[a].job # 0 /\ act[a].snap.plan \in Plan
      /\ act[a].snap \in Record
  BY <1>1, <1>2, <1>3, PendingTyped
<1> QED BY <1>1, <1>2, <1>3, <1>4 DEF Tidy, OursAll, Placed, Shaped

\* An actor in a recovery runs no operation, and no other does.
LEMMA NoRun ==
  ASSUME Good, NEW a \in Actor, act[a].pc \in Holding
  PROVE  /\ Engaged(a) /\ \A b \in Actor : act[b].op = 0
         /\ act[a].pc = "sweep" => act[a].job = 0
<1>1. IInv /\ Alone /\ Shaped(act[a])
  BY GoodLocal
<1>2. Engaged(a) /\ act[a].op = 0 /\ (act[a].pc = "sweep" => act[a].job = 0)
  BY <1>1 DEF Engaged, Holding, Recovering, Shaped, Stepping, Undoing
<1> QED BY <1>1, <1>2, OthersEmpty

\* A step of a recovery in front of its verdict's publication.
LEMMA MendTidy ==
  ASSUME Good, IInv', Undisturbed', PlanAssumption, BoundAssumption, NEW a \in Actor,
         act[a].pc \in Holding, act'[a].pc \in Holding, act'[a].op = act[a].op,
         \A b \in Actor : b # a => act'[b] = act[b],
         journal' = journal, writer' = writer, faults' >= faults,
         \/ disk' = disk
         \/ /\ act[a].pc \in Recovering
            /\ \E f \in DOMAIN act[a].snap.plan :
                 disk' = [disk EXCEPT ![f] = act[a].snap.plan[f].from],
         act[a].job # 0 => act'[a].job = act[a].job \/ faults' > 0,
         \A e \in act[a].seen : e \in act'[a].seen \/ e[1] = act'[a].job \/ faults' > 0,
         Placed(a)'
  PROVE  Tidy'
<1>0. IInv /\ Tidy /\ Alone /\ Alone' /\ disk \in [File -> Content]
  BY GoodLocal DEF Undisturbed, IInv, TypeOK
<1>1. \A b \in Actor : act[b].op = 0 /\ act'[b].op \in {0, act[b].op}
  BY NoRun
<1>2. /\ OpenOps' = OpenOps /\ Pending' \subseteq Pending
      /\ \A r \in Pending' : PlanOf(r)' = PlanOf(r)
  BY <1>1, StillPending DEF Pending
<1>3. Moves
  <2>1. CASE disk' = disk
    BY <2>1 DEF Moves
  <2>2. CASE act[a].pc \in Recovering /\ disk' # disk
    <3>1. /\ act[a].job \in Pending /\ act[a].snap.plan = PlanOf(act[a].job)
      BY <2>2, RecoveryFacts DEF Pending, OpenOps
    <3>2. PICK f \in DOMAIN PlanOf(act[a].job) :
            disk' = [disk EXCEPT ![f] = PlanOf(act[a].job)[f].from]
      BY <2>2, <3>1
    <3>3. SUFFICES ASSUME NEW s \in Pending, NEW g \in DOMAIN PlanOf(s)
                   PROVE  disk'[g] \in {disk[g], PlanOf(s)[g].from, PlanOf(s)[g].to}
      BY DEF Moves
    <3>4. s # act[a].job => g # f
      BY <1>0, <3>1, <3>2, <3>3 DEF Tidy, Apart
    <3>5. g \in File
      BY <1>0, <3>3, GoodLocal, PendingTyped, PlanFacts
    <3>6. s = act[a].job /\ g = f => disk'[g] = PlanOf(s)[g].from
      BY <1>0, <3>2, <3>5
    <3>7. g # f => disk'[g] = disk[g]
      BY <1>0, <3>2, <3>5
    <3> QED BY <3>4, <3>6, <3>7
  <2> QED BY <2>1, <2>2
<1>4. \A r \in OpenOps' : r \in {act[a].op, act[a].job}
                           => r \in {act'[a].op, act'[a].job} \/ faults' > 0
  <2>1. SUFFICES ASSUME NEW r \in OpenOps', r \in {act[a].op, act[a].job}
                 PROVE  r \in {act'[a].op, act'[a].job} \/ faults' > 0
    OBVIOUS
  <2>2. r # 0
    BY BoundAssumption DEF OpenOps, Op
  <2> QED BY <1>1, <2>1, <2>2
<1> QED BY <1>0, <1>2, <1>3, <1>4, HoldTidy

\* The cases of one listed operation, in what they do to the actor.
LEMMA InspectCases ==
  ASSUME Good, PlanAssumption, BoundAssumption, NEW a \in Actor, Inspect(a)
  PROVE  \E e \in act[a].seen :
           /\ act'[a].pc \in Holding /\ act'[a].op = act[a].op /\ act'[a].bad = act[a].bad
           /\ act'[a].seen = act[a].seen \ {e}
           /\ \A b \in Actor : b # a => act'[b] = act[b]
           /\ \/ faults > 0 /\ act'[a].pc = "sweep"
              \/ /\ act'[a].job = e[1] /\ act'[a].snap.plan = e[2].plan /\ e[2].plan \in Plan
                 /\ \/ /\ act'[a].pc = "settle" /\ act'[a].verdict = "committed"
                       /\ Full(e[2].plan)
                    \/ /\ act'[a].pc = "settle" /\ act'[a].verdict = "aborted"
                       /\ Done(e[2].plan) = {}
                    \/ /\ act'[a].pc = "restore" /\ act'[a].verdict = "aborted"
                       /\ act'[a].left = Done(e[2].plan) /\ ~Full(e[2].plan)
<1>0. /\ IInv /\ UpToDate /\ Tidy /\ Alone /\ act \in [Actor -> ActorState] /\ act[a] \in ActorState
      /\ Shaped(act[a]) /\ act[a].pc = "sweep" /\ act[a].pc \in Holding
  BY GoodLocal DEF Inspect, Holding
<1>1. PICK e \in act[a].seen :
        \/ /\ WriterAlive(a, e[1])
           /\ act' = [act EXCEPT ![a].seen = @ \ {e}]
        \/ In(e[2].plan, "other") # {}
        \/ IF In(e[2].plan, "planned") = DOMAIN e[2].plan
           THEN Judge(a, e, "settle", "committed", {}, {})
           ELSE IF In(e[2].plan, "planned") = {} THEN Judge(a, e, "settle", "aborted", {}, {})
           ELSE Judge(a, e, "restore", "aborted", {}, In(e[2].plan, "planned"))
  BY DEF Inspect
<1>2. e[1] \in OpenOps /\ e[2] = journal[e[1]] /\ e[2].plan = PlanOf(e[1]) /\ e[1] # 0
  BY <1>0, InHand, BoundAssumption DEF PlanOf, OpenOps, Op
<1>3. e[2].plan \in Plan /\ Ours(e[2].plan)
  BY <1>0, <1>2, PendingTyped DEF Tidy, OursAll, Pending, OpenOps
<1>4. In(e[2].plan, "other") = {} /\ In(e[2].plan, "planned") = Done(e[2].plan)
  BY <1>3, InDone DEF Ours
<1>5. CASE WriterAlive(a, e[1]) /\ act' = [act EXCEPT ![a].seen = @ \ {e}]
  <2>1. \A b \in Actor : act[b].op # e[1]
    BY <1>0, <1>2, NoRun
  <2>2. writer[e[1]] # Dead
    BY <1>5, <2>1 DEF WriterAlive, Peers
  <2>3. act[a].job # e[1] /\ act[a].op # e[1] /\ Engaged(a)
    BY <1>0, <1>2, <2>1, NoRun
  <2>4. faults > 0
    BY <1>0, <1>2, <2>2, <2>3, LeftSeen DEF LeftBy, Tidy
  <2>5. /\ act'[a].pc = "sweep" /\ act'[a].op = act[a].op /\ act'[a].bad = act[a].bad
        /\ act'[a].seen = act[a].seen \ {e} /\ \A b \in Actor : b # a => act'[b] = act[b]
    BY <1>0, <1>5 DEF ActorState
  <2> QED BY <2>4, <2>5 DEF Holding
<1>6. ASSUME NEW pc \in {"settle", "restore"}, NEW v, NEW l, Judge(a, e, pc, v, {}, l)
      PROVE  /\ act'[a].pc = pc /\ act'[a].job = e[1] /\ act'[a].snap = e[2] /\ act'[a].verdict = v
             /\ act'[a].left = l /\ act'[a].op = act[a].op /\ act'[a].bad = act[a].bad
             /\ act'[a].seen = act[a].seen \ {e} /\ \A b \in Actor : b # a => act'[b] = act[b]
             /\ act'[a].pc \in Holding
  BY <1>0, <1>6 DEF Judge, ActorState, Holding, Recovering
<1>7. CASE Judge(a, e, "settle", "committed", {}, {}) /\ Full(e[2].plan)
  BY <1>3, <1>6, <1>7
<1>8. CASE Judge(a, e, "settle", "aborted", {}, {}) /\ Done(e[2].plan) = {}
  BY <1>3, <1>6, <1>8
<1>9. CASE Judge(a, e, "restore", "aborted", {}, Done(e[2].plan)) /\ ~Full(e[2].plan)
  BY <1>3, <1>6, <1>9
<1> QED BY <1>1, <1>4, <1>5, <1>7, <1>8, <1>9 DEF Full

LEMMA InspectTidy ==
  ASSUME Good, IInv', Undisturbed', PlanAssumption, BoundAssumption, NEW a \in Actor, Inspect(a)
  PROVE  Tidy'
<1>0. /\ act[a].pc = "sweep" /\ act[a].pc \in Holding /\ Placed(a) /\ faults \in Nat
      /\ disk' = disk /\ journal' = journal /\ faults' = faults /\ writer' = writer
  BY GoodLocal DEF Inspect, Holding
<1>1. PICK e \in act[a].seen :
           /\ act'[a].pc \in Holding /\ act'[a].op = act[a].op /\ act'[a].bad = act[a].bad
           /\ act'[a].seen = act[a].seen \ {e}
           /\ \A b \in Actor : b # a => act'[b] = act[b]
           /\ \/ faults > 0 /\ act'[a].pc = "sweep"
              \/ /\ act'[a].job = e[1] /\ act'[a].snap.plan = e[2].plan /\ e[2].plan \in Plan
                 /\ \/ /\ act'[a].pc = "settle" /\ act'[a].verdict = "committed"
                       /\ Full(e[2].plan)
                    \/ /\ act'[a].pc = "settle" /\ act'[a].verdict = "aborted"
                       /\ Done(e[2].plan) = {}
                    \/ /\ act'[a].pc = "restore" /\ act'[a].verdict = "aborted"
                       /\ act'[a].left = Done(e[2].plan) /\ ~Full(e[2].plan)
  BY InspectCases
<1>2. Restoring(a)'
  <2>1. CASE act'[a].pc = "sweep"
    BY <2>1 DEF Restoring
  <2>2. CASE act'[a].pc # "sweep"
    <3>1. PICK p : p = e[2].plan
      OBVIOUS
    <3>2. Done(p)' = Done(p) /\ (Full(p)' <=> Full(p)) /\ act'[a].snap.plan = p
      BY <1>0, <1>1, <2>2, <3>1 DEF Done, Full
    <3> QED BY <1>1, <2>2, <3>1, <3>2 DEF Restoring
  <2> QED BY <2>1, <2>2
<1>3. Clean(a)'
  BY <1>0, <1>1 DEF Placed, Clean
<1>4. Placed(a)'
  BY <1>1, <1>2, <1>3 DEF Placed, Starting, Running, Walking, Holding, Recovering, Undoing
<1>5. act[a].job = 0 /\ faults' >= faults
  BY <1>0, NoRun
<1>6. \A x \in act[a].seen : x \in act'[a].seen \/ x[1] = act'[a].job \/ faults' > 0
  BY <1>0, <1>1
<1> QED BY <1>0, <1>1, <1>4, <1>5, <1>6, MendTidy

LEMMA RestoreTidy ==
  ASSUME Good, IInv', Undisturbed', Covered, PlanAssumption, BoundAssumption, FileAssumption,
         NEW a \in Actor, Restore(a)
  PROVE  Tidy'
<1>0. /\ act \in [Actor -> ActorState] /\ act[a] \in ActorState /\ Placed(a)
      /\ faults \in Nat /\ faults' \in Nat /\ act[a].pc = "restore" /\ act[a].pc \in Recovering
      /\ act[a].pc \in Holding /\ disk \in [File -> Content]
      /\ journal' = journal /\ writer' = writer
  BY GoodLocal DEF Restore, Recovering, Holding, IInv, TypeOK
<1>1. PICK p \in Plan : p = act[a].snap.plan
  BY <1>0, RecoveryFacts
<1>2. /\ act[a].left \subseteq DOMAIN p /\ DOMAIN p \subseteq File /\ File \subseteq Nat
      /\ act[a].verdict = "aborted" /\ Done(p) \subseteq act[a].left /\ ~Full(p)
  BY <1>0, <1>1, RecoveryFacts, PlanFacts DEF Restoring, FileAssumption
<1>3. bundle[p] # 0
  BY <1>0, <1>1, RecoveryFacts DEF Covered, OpenPlans, PlanOf
<1>4. PICK f \in act[a].left :
        /\ Final(act[a].left, f)
        /\ disk' = disk \/ disk' = [disk EXCEPT ![f] = p[f].from]
        /\ \/ /\ disk' = [disk EXCEPT ![f] = p[f].from] /\ UNCHANGED faults
              /\ act' = [act EXCEPT ![a].pc = "restored"]
           \/ /\ Fault
              /\ act' = [act EXCEPT ![a].pc = "restored"]
           \/ /\ Fault
              /\ LeftAsItIs(a)
  BY <1>1, <1>3 DEF Restore
<1>5. Done(p)' \subseteq Done(p) /\ ~Full(p)'
  <2>1. CASE disk' = disk
    BY <1>2, <2>1 DEF Done, Full
  <2>2. CASE disk' = [disk EXCEPT ![f] = p[f].from]
    <3>1. Done(p)' = Done(p) \ {f}
      BY <1>0, <1>2, <1>4, <2>2, DoneMoves
    <3>2. f \in DOMAIN p
      BY <1>2, <1>4
    <3> QED BY <3>1, <3>2 DEF Full
  <2> QED BY <1>4, <2>1, <2>2
<1>6. \/ disk' = disk
      \/ \E g \in DOMAIN act[a].snap.plan : disk' = [disk EXCEPT ![g] = act[a].snap.plan[g].from]
  BY <1>1, <1>2, <1>4
<1>7. Fault => faults' > 0 /\ faults' >= faults
  BY <1>0 DEF Fault
<1>8. CASE act' = [act EXCEPT ![a].pc = "restored"]
  <2>1. /\ act'[a].pc = "restored" /\ act'[a].op = act[a].op /\ act'[a].job = act[a].job
        /\ act'[a].snap = act[a].snap /\ act'[a].verdict = act[a].verdict
        /\ act'[a].left = act[a].left /\ act'[a].seen = act[a].seen /\ act'[a].bad = act[a].bad
        /\ \A b \in Actor : b # a => act'[b] = act[b]
        /\ act'[a].pc \in Holding
    BY <1>0, <1>8 DEF ActorState, Holding, Recovering
  <2>2. /\ faults' >= faults
        /\ \/ faults' > 0
           \/ disk' = [disk EXCEPT ![f] = p[f].from]
    BY <1>0, <1>4, <1>7
  <2>3. \A g \in act[a].left : Final(act[a].left, g) => g \notin Done(p)' \/ faults' > 0
    <3>1. SUFFICES ASSUME NEW g \in act[a].left, Final(act[a].left, g), ~(faults' > 0)
                   PROVE  g \notin Done(p)'
      OBVIOUS
    <3>2. g = f /\ f \in DOMAIN p
      BY <1>2, <1>4, <3>1, FinalUnique
    <3>3. Done(p)' = Done(p) \ {f}
      BY <1>0, <2>2, <3>1, <3>2, DoneMoves
    <3> QED BY <3>2, <3>3
  <2>4. act'[a].snap.plan = p
    BY <1>1, <2>1
  <2>5. Restoring(a)'
    BY <1>2, <1>5, <2>1, <2>3, <2>4 DEF Restoring, Final
  <2>6. Clean(a)'
    BY <1>0, <2>1, <2>2 DEF Placed, Clean
  <2>7. Placed(a)'
    BY <2>1, <2>5, <2>6 DEF Placed, Starting, Running, Walking, Undoing
  <2> QED BY <1>0, <1>6, <2>1, <2>2, <2>7, MendTidy
<1>9. CASE LeftAsItIs(a) /\ Fault
  <2>1. /\ act'[a].pc = "sweep" /\ act'[a].op = act[a].op /\ act'[a].bad = act[a].bad
        /\ \A b \in Actor : b # a => act'[b] = act[b]
    BY <1>0, <1>9 DEF LeftAsItIs, ActorState
  <2>2. faults' > 0 /\ faults' >= faults
    BY <1>7, <1>9
  <2>3. Placed(a)'
    BY <2>1, <2>2 DEF Placed, Starting, Running, Walking, Restoring, Clean, Undoing
  <2> QED BY <1>0, <1>6, <2>1, <2>2, <2>3, MendTidy DEF Holding
<1> QED BY <1>4, <1>8, <1>9

LEMMA RestoreRereadTidy ==
  ASSUME Good, IInv', Undisturbed', PlanAssumption, BoundAssumption, NEW a \in Actor, RestoreReread(a)
  PROVE  Tidy'
<1>0. /\ act \in [Actor -> ActorState] /\ act[a] \in ActorState /\ Placed(a)
      /\ faults \in Nat /\ act[a].pc = "restored" /\ act[a].pc \in Recovering
      /\ act[a].pc \in Holding /\ disk' = disk /\ faults' = faults
      /\ journal' = journal /\ writer' = writer
  BY GoodLocal DEF RestoreReread, Recovering, Holding
<1>1. PICK p \in Plan : p = act[a].snap.plan
  BY <1>0, RecoveryFacts
<1>2. /\ act[a].left \subseteq DOMAIN p /\ Ours(p)
      /\ \A g \in DOMAIN p : p[g].from # p[g].to
      /\ act[a].verdict = "aborted" /\ Done(p) \subseteq act[a].left /\ ~Full(p)
      /\ \A g \in act[a].left : Final(act[a].left, g) => g \notin Done(p) \/ faults > 0
  BY <1>0, <1>1, RecoveryFacts, PlanFacts DEF Restoring
<1>3. Done(p)' = Done(p) /\ ~Full(p)' /\ faults' >= faults
  BY <1>0, <1>2 DEF Done, Full
<1>4. PICK f \in act[a].left :
        /\ Final(act[a].left, f)
        /\ \/ /\ disk[f] = p[f].from
              /\ act' = [act EXCEPT ![a].left = @ \ {f},
                                    ![a].pc = IF act[a].left = {f} THEN "settle" ELSE "restore"]
           \/ /\ disk[f] # p[f].from
              /\ act' = [act EXCEPT ![a].pc = "settle", ![a].verdict = "unresolved",
                                    ![a].note = {f}, ![a].left = {}]
           \/ /\ disk[f] # p[f].from
              /\ LeftAsItIs(a)
  BY <1>1 DEF RestoreReread
<1>5. disk[f] = p[f].from => f \notin Done(p)
  BY <1>2, <1>4 DEF Done
<1>6. disk[f] # p[f].from => faults > 0
  BY <1>2, <1>4 DEF Ours, Done
<1>7. CASE /\ disk[f] = p[f].from
           /\ act' = [act EXCEPT ![a].left = @ \ {f},
                                 ![a].pc = IF act[a].left = {f} THEN "settle" ELSE "restore"]
  <2>1. /\ act'[a].pc = IF act[a].left = {f} THEN "settle" ELSE "restore"
        /\ act'[a].left = act[a].left \ {f} /\ act'[a].job = act[a].job /\ act'[a].snap = act[a].snap
        /\ act'[a].verdict = "aborted" /\ act'[a].seen = act[a].seen /\ act'[a].bad = act[a].bad
        /\ act'[a].op = act[a].op /\ \A b \in Actor : b # a => act'[b] = act[b]
    BY <1>0, <1>2, <1>7 DEF ActorState
  <2>2. Done(p)' \subseteq act'[a].left /\ (act'[a].pc = "settle" => Done(p)' = {})
    <3>1. Done(p) \subseteq act[a].left \ {f}
      BY <1>2, <1>5, <1>7
    <3>2. act'[a].pc = "settle" => act[a].left = {f}
      BY <2>1
    <3> QED BY <1>3, <2>1, <3>1, <3>2
  <2>3. act'[a].pc \in {"settle", "restore"} /\ act'[a].snap.plan = p
    BY <1>1, <2>1
  <2>4. Restoring(a)'
    BY <1>3, <2>1, <2>2, <2>3 DEF Restoring
  <2>5. Clean(a)'
    BY <1>0, <2>1 DEF Placed, Clean
  <2>6. Placed(a)' /\ act'[a].pc \in Holding
    BY <2>3, <2>4, <2>5 DEF Placed, Starting, Running, Walking, Undoing, Holding, Recovering
  <2> QED BY <1>0, <1>3, <2>1, <2>6, MendTidy
<1>8. CASE act' = [act EXCEPT ![a].pc = "settle", ![a].verdict = "unresolved",
                              ![a].note = {f}, ![a].left = {}] /\ faults > 0
  <2>1. /\ act'[a].pc = "settle" /\ act'[a].verdict = "unresolved" /\ act'[a].job = act[a].job
        /\ act'[a].seen = act[a].seen /\ act'[a].op = act[a].op
        /\ \A b \in Actor : b # a => act'[b] = act[b]
    BY <1>0, <1>8 DEF ActorState
  <2>2. Restoring(a)' /\ Clean(a)'
    BY <1>0, <1>8, <2>1 DEF Restoring, Clean
  <2>3. Placed(a)' /\ act'[a].pc \in Holding
    BY <2>1, <2>2 DEF Placed, Starting, Running, Walking, Undoing, Holding, Recovering
  <2> QED BY <1>0, <1>3, <2>1, <2>3, MendTidy
<1>9. CASE LeftAsItIs(a) /\ faults > 0
  <2>1. /\ act'[a].pc = "sweep" /\ act'[a].op = act[a].op /\ act'[a].bad = act[a].bad
        /\ \A b \in Actor : b # a => act'[b] = act[b]
    BY <1>0, <1>9 DEF LeftAsItIs, ActorState
  <2>2. Placed(a)'
    BY <1>0, <1>9, <2>1 DEF Placed, Starting, Running, Walking, Restoring, Clean, Undoing
  <2> QED BY <1>0, <1>3, <1>9, <2>1, <2>2, MendTidy DEF Holding
<1> QED BY <1>4, <1>6, <1>7, <1>8, <1>9

\* What the end of a recovery does to the record: decided by the bytes, or left behind a failure.
LEMMA SettleFacts ==
  ASSUME Good, PlanAssumption, BoundAssumption, NEW a \in Actor, Settle(a)
  PROVE  \E j \in OpenOps :
           /\ act[a].job = j /\ PlanOf(j) \in Plan
           /\ \A s \in Op : PlanOf(s)' = PlanOf(s)
           /\ \A s \in Op : s # j => journal'[s] = journal[s]
           /\ \/ faults > 0 /\ journal'[j].state = journal[j].state
              \/ journal'[j].state = "committed" /\ Full(PlanOf(j))
              \/ journal'[j].state = "aborted" /\ Done(PlanOf(j)) = {}
<1>0. /\ act[a].pc = "settle" /\ act[a].pc \in Recovering
      /\ act[a] \in ActorState /\ Shaped(act[a]) /\ journal \in [Op -> Record \cup {NoRecord}]
      /\ journal' = Verdicted(a)
  BY GoodLocal DEF Settle, Recovering, Good, IInv, TypeOK
<1>1. PICK j \in OpenOps : j = act[a].job
  BY <1>0, RecoveryFacts
<1>2. PICK s : s = act[a].snap
  OBVIOUS
<1>3. /\ j \in Op /\ s = journal[j] /\ s \in Record /\ s.plan = PlanOf(j) /\ PlanOf(j) \in Plan
      /\ act[a].verdict = "committed" => Full(s.plan)
      /\ act[a].verdict = "aborted" => Done(s.plan) = {}
      /\ act[a].verdict = "unresolved" => faults > 0
      /\ act[a].verdict \in {"committed", "aborted", "unresolved"}
  BY <1>0, <1>1, <1>2, RecoveryFacts DEF Restoring, Shaped, ActorState
<1>4. CASE act[a].verdict = "unresolved"
  <2>1. journal' = journal \/ journal' = [journal EXCEPT ![j] = [s EXCEPT !.note = act[a].note]]
    BY <1>0, <1>1, <1>2, <1>4 DEF Verdicted
  <2>2. /\ \A r \in Op : r # j => journal'[r] = journal[r]
        /\ journal'[j].plan = s.plan /\ journal'[j].state = s.state
    BY <1>0, <1>3, <2>1 DEF Record
  <2>3. \A r \in Op : PlanOf(r)' = PlanOf(r)
    BY <1>3, <2>2 DEF PlanOf
  <2> QED BY <1>1, <1>3, <1>4, <2>2, <2>3
<1>5. CASE act[a].verdict # "unresolved"
  <2>1. journal' = [journal EXCEPT ![j] = [s EXCEPT !.state = act[a].verdict]]
    BY <1>0, <1>1, <1>2, <1>5 DEF Verdicted
  <2>2. /\ \A r \in Op : r # j => journal'[r] = journal[r]
        /\ journal'[j].plan = s.plan /\ journal'[j].state = act[a].verdict
    BY <1>0, <1>3, <2>1 DEF Record
  <2>3. \A r \in Op : PlanOf(r)' = PlanOf(r)
    BY <1>3, <2>2 DEF PlanOf
  <2> QED BY <1>1, <1>3, <1>5, <2>2, <2>3
<1> QED BY <1>4, <1>5

LEMMA SettleTidy ==
  ASSUME Good, IInv', Undisturbed', PlanAssumption, BoundAssumption, NEW a \in Actor, Settle(a)
  PROVE  Tidy'
<1>0. /\ IInv /\ Tidy /\ Alone /\ Alone' /\ act \in [Actor -> ActorState] /\ act[a] \in ActorState
      /\ faults \in Nat /\ act[a].pc = "settle" /\ act[a].pc \in Holding /\ Placed(a)
      /\ disk' = disk /\ faults' = faults /\ writer' = writer /\ LeftAsItIs(a)
  BY GoodLocal DEF Undisturbed, Settle, Holding, Recovering
<1>1. PICK j \in OpenOps :
           /\ act[a].job = j
           /\ \A s \in Op : PlanOf(s)' = PlanOf(s)
           /\ \A s \in Op : s # j => journal'[s] = journal[s]
           /\ faults > 0 \/ journal'[j].state \in Terminal
           /\ journal'[j].state \in Open => journal[j].state \in Open
  BY SettleFacts DEF Terminal, OpenOps
<1>2. \A b \in Actor : act[b].op = 0
  BY <1>0, NoRun
<1>3. /\ act'[a].pc = "sweep" /\ act'[a].seen = act[a].seen /\ act'[a].bad = act[a].bad
      /\ act'[a].op = act[a].op /\ act'[a].pc \in Holding
      /\ \A b \in Actor : b # a => act'[b] = act[b]
  BY <1>0 DEF LeftAsItIs, ActorState, Holding
<1>4. OpenOps' \subseteq OpenOps /\ j \in Op
  BY <1>1 DEF OpenOps
<1>5. Pending' \subseteq Pending /\ \A r \in Pending' : PlanOf(r)' = PlanOf(r)
  <2>1. \A b \in Actor : act'[b].op = 0
    BY <1>2, <1>3
  <2>2. \A r \in Pending' : r \in Op /\ r \in OpenOps
    <3>1. SUFFICES ASSUME NEW r \in Pending' PROVE r \in Op /\ r \in OpenOps
      OBVIOUS
    <3>2. r \in Op /\ (r \in OpenOps' \/ r = 0)
      BY <2>1 DEF Pending
    <3>3. r # 0
      BY <3>2, BoundAssumption DEF Op
    <3> QED BY <1>4, <3>2, <3>3
  <2> QED BY <1>1, <2>2 DEF Pending
<1>6. \A r \in OpenOps' : r \in {act[a].op, act[a].job} => r \in {act'[a].op, act'[a].job} \/ faults' > 0
  <2>1. SUFFICES ASSUME NEW r \in OpenOps', r \in {act[a].op, act[a].job} PROVE faults' > 0
    OBVIOUS
  <2>2. r # 0 /\ r \in Op /\ journal'[r].state \in Open
    BY BoundAssumption DEF OpenOps, Op
  <2>3. r = j
    BY <1>1, <1>2, <2>1, <2>2
  <2> QED BY <1>0, <1>1, <2>2, <2>3 DEF Open, Terminal
<1>7. Placed(a)'
  BY <1>0, <1>3 DEF Placed, Starting, Running, Walking, Restoring, Clean, Undoing
<1>8. Moves /\ faults' >= faults
  BY <1>0 DEF Moves
<1> QED BY <1>0, <1>3, <1>5, <1>6, <1>7, <1>8, HoldTidy

\* Nothing open is left behind a sweep but what a failure left.
LEMMA SweepEndTidy ==
  ASSUME Good, IInv', Undisturbed', BoundAssumption, NEW a \in Actor, SweepEnd(a)
  PROVE  Tidy'
<1>0. /\ IInv /\ Tidy /\ Alone /\ Alone' /\ act \in [Actor -> ActorState] /\ act[a] \in ActorState
      /\ faults \in Nat /\ act[a].pc = "sweep" /\ act[a].pc \in Holding /\ act[a].seen = {}
      /\ CompactJournal /\ Placed(a) /\ disk' = disk /\ faults' = faults
  BY GoodLocal DEF Undisturbed, SweepEnd, Holding
<1>1. Engaged(a) /\ act[a].op = 0 /\ act[a].job = 0
  BY <1>0, NoRun
<1>2. /\ act'[a].pc \in {"idle", "check"} /\ act'[a].bad = act[a].bad /\ act'[a].op = act[a].op
      /\ \A b \in Actor : b # a => act'[b] = act[b]
  BY <1>0 DEF SweepEnd, ActorState
<1>3. \A b \in Actor : act'[b].op = act[b].op
  BY <1>2
<1>4. /\ Pending' \subseteq Pending /\ \A r \in Pending' : PlanOf(r)' = PlanOf(r)
      /\ OpenOps' = OpenOps
  BY <1>0, <1>1, <1>3, CompactPending
<1>5. Placed(a)'
  BY <1>0, <1>2 DEF Placed, Starting, Running, Walking, Restoring, Clean, Undoing
<1>6. Moves /\ faults' >= faults
  BY <1>0 DEF Moves
<1>7. LeftBy(a)'
  <2>1. SUFFICES ASSUME NEW r \in OpenOps PROVE faults > 0
    BY <1>0, <1>4 DEF LeftBy
  <2>2. r # 0
    BY BoundAssumption DEF OpenOps, Op
  <2> QED BY <1>0, <1>1, <2>2, LeftSeen DEF LeftBy, Tidy
<1>8. OursAll' /\ Apart'
  BY <1>0, <1>4, <1>6, BytesTidy DEF Tidy
<1> QED BY <1>0, <1>1, <1>2, <1>5, <1>6, <1>7, <1>8, TidyFrom

------------------------------------------------------------------------------
(* The invariant holds *)

\* A dead process leaves its operation to the next sweep, with no actor engaged in it.
LEMMA CrashTidy ==
  ASSUME Good, IInv', Undisturbed', ActorAssumption, BoundAssumption, NEW q \in Proc, Crash(q)
  PROVE  Tidy'
<1>0. /\ IInv /\ UpToDate /\ Tidy /\ Alone /\ Alone' /\ writer \in [Op -> Proc \cup {Dead}]
  BY DEF Good, Undisturbed, IInv, TypeOK
<1>1. /\ disk' = disk /\ journal' = journal /\ faults' = faults
      /\ \A a \in Actor : act'[a] = IF ProcOf[a] = q THEN Idle ELSE act[a]
      /\ \A r \in Op : writer'[r] = IF writer[r] = q THEN Dead ELSE writer[r]
  BY DEF Crash
<1>2. \A b \in Actor : act'[b].op \in {0, act[b].op}
  BY <1>1 DEF Idle
<1>3. /\ OpenOps' = OpenOps /\ Pending' \subseteq Pending
      /\ \A r \in Op : PlanOf(r)' = PlanOf(r)
  BY <1>1, <1>2, StillPending
<1>4. OursAll' /\ Apart'
  <2>1. \A r \in Pending' : PlanOf(r)' = PlanOf(r)
    BY <1>3 DEF Pending
  <2> QED BY <1>0, <1>1, <1>3, <2>1, BytesTidy DEF Tidy, Moves
<1>5. ASSUME NEW a \in Actor PROVE Placed(a)'
  <2>1. CASE ProcOf[a] = q
    <3>1. act'[a].pc = "idle" /\ ~act'[a].bad
      BY <1>1, <2>1 DEF Idle
    <3> QED BY <3>1, NotPlaced DEF Engaged, Clean
  <2>2. CASE ProcOf[a] # q
    <3>1. Placed(a) /\ act'[a] = act[a]
      BY <1>0, <1>1, <2>2 DEF Tidy
    <3>2. Starting(a)' /\ Clean(a)'
      BY <1>1, <1>3, <3>1 DEF Placed, Starting, Clean, Untouched, PlanOf
    <3>3. Running(a)' /\ Walking(a)'
      BY <1>1, <3>1 DEF Placed, Running, Walking, Full, Done, Untouched, Final
    <3>4. Restoring(a)'
      BY <1>1, <3>1 DEF Placed, Restoring, Full, Done, Final
    <3> QED BY <3>2, <3>3, <3>4 DEF Placed
  <2> QED BY <2>1, <2>2
<1>6. Left'
  <2>1. SUFFICES ASSUME NEW r \in OpenOps, \A a \in Actor : act'[a].op # r /\ act'[a].job # r,
                        ~(faults > 0)
                 PROVE  /\ writer'[r] = Dead
                        /\ \A a \in Actor : Engaged(a)' => act'[a].pc \in Holding
                                                           /\ \E e \in act'[a].seen : e[1] = r
    BY <1>1, <1>3 DEF Left
  <2>2. r \in Op /\ r # 0
    BY BoundAssumption DEF OpenOps, Op
  <2>3. CASE \E b \in Actor : act[b].op = r \/ act[b].job = r
    <3>1. PICK b \in Actor : act[b].op = r \/ act[b].job = r
      BY <2>3
    <3>2. ProcOf[b] = q /\ Engaged(b)
      <4>1. ProcOf[b] = q
        BY <1>1, <2>1, <3>1
      <4> QED BY <1>0, <2>2, <3>1, <4>1, NotEngaged
    <3>3. writer[r] \in {Dead, q}
      BY <1>0, <2>2, <3>1, <3>2 DEF IInv, Live, RecoveryLeavesLiveRuns
    <3>4. \A a \in Actor : ~Engaged(a)'
      BY <1>0, <1>1, <3>2 DEF Alone, Engaged, Idle
    <3> QED BY <1>1, <2>2, <3>3, <3>4
  <2>4. CASE ~\E b \in Actor : act[b].op = r \/ act[b].job = r
    <3>1. writer[r] = Dead /\ \A b \in Actor : Engaged(b) => act[b].pc \in Holding
                                                             /\ \E e \in act[b].seen : e[1] = r
      BY <1>0, <2>1, <2>4 DEF Tidy, Left
    <3>2. writer'[r] = Dead
      BY <1>1, <2>2, <3>1
    <3>3. \A a \in Actor : Engaged(a)' => act'[a] = act[a] /\ Engaged(a)
      BY <1>1 DEF Engaged, Idle
    <3> QED BY <3>1, <3>2, <3>3
  <2> QED BY <2>3, <2>4
<1> QED BY <1>4, <1>5, <1>6 DEF Tidy

LEMMA StillTidy ==
  ASSUME Tidy, UNCHANGED vars
  PROVE  Tidy'
<1>0. act' = act /\ disk' = disk /\ journal' = journal /\ writer' = writer /\ faults' = faults
  BY DEF vars
<1>1. /\ OpenOps' = OpenOps /\ Pending' = Pending
      /\ \A r \in Op : PlanOf(r)' = PlanOf(r)
  BY <1>0 DEF OpenOps, Pending, PlanOf
<1>2. OursAll' /\ Apart'
  <2>1. \A r \in Pending : r \in Op
    BY DEF Pending
  <2> QED BY <1>0, <1>1, <2>1 DEF Tidy, OursAll, Ours, Apart
<1>3. Left'
  BY <1>0, <1>1 DEF Tidy, Left, Engaged
<1>4. ASSUME NEW a \in Actor PROVE Placed(a)'
  <2>1. Placed(a)
    BY DEF Tidy
  <2>2. Starting(a)' /\ Clean(a)'
    BY <1>0, <1>1, <2>1 DEF Placed, Starting, Clean, Untouched, PlanOf
  <2>3. Running(a)' /\ Walking(a)'
    BY <1>0, <2>1 DEF Placed, Running, Walking, Full, Done, Untouched, Final
  <2>4. Restoring(a)'
    BY <1>0, <2>1 DEF Placed, Restoring, Full, Done, Final
  <2> QED BY <2>2, <2>3, <2>4 DEF Placed
<1> QED BY <1>2, <1>3, <1>4 DEF Tidy

LEMMA TidyStep ==
  ASSUME Good, IInv', Undisturbed', Covered, ~VerdictFails, PlanAssumption, BoundAssumption,
         FileAssumption, ActorAssumption, NEW a \in Actor, Step(a) \/ Fails(a) \/ Cancel(a)
  PROVE  Tidy'
<1>1. CASE Lock(a) \/ Cancel(a) \/ Conclude(a)
  BY <1>1, LockTidy, EndsTidy, GoodLocal
<1>2. CASE Boot(a) \/ Sweep(a) \/ Inspect(a) \/ Settle(a) \/ SettleFails(a) \/ SweepEnd(a)
  BY <1>2, ListingTidy, InspectTidy, SettleTidy, SweepEndTidy DEF SettleFails
<1>3. CASE Restore(a) \/ RestoreReread(a)
  BY <1>3, RestoreTidy, RestoreRereadTidy
<1>4. CASE Check(a) \/ Stage(a) \/ Prepare(a) \/ PrepareFails(a) \/ StageFails(a) \/ LockTimesOut(a)
  BY <1>4, CheckTidy, StageTidy, PrepareTidy, GivesUpTidy
<1>5. CASE OpenOp(a) \/ OpenOpFails(a)
  BY <1>5, OpenOpTidy, GivesUpTidy
<1>6. CASE Apply(a) \/ ApplyFails(a) \/ Probe(a) \/ Write(a) \/ WriteFails(a) \/ WriteUnrecorded(a)
  BY <1>6, ApplyTidy, ApplyFailsTidy, ProbeTidy, WriteTidy, WriteFailsTidy
<1>7. CASE Verify(a) \/ Commit(a) \/ CommitFails(a) \/ Turn(a) \/ TurnFails(a) \/ Close(a)
  BY <1>7, VerifyTidy, CommitTidy, CommitFailsTidy, TurnTidy, CloseTidy
<1>8. CASE Compensate(a) \/ Undo(a) \/ Reread(a) \/ Compensated(a) \/ CompensatedFails(a)
  BY <1>8, CompensateTidy, UndoTidy, RereadTidy, CompensatedTidy
<1> QED BY <1>1, <1>2, <1>3, <1>4, <1>5, <1>6, <1>7, <1>8 DEF Step, Fails

LEMMA TidyInvariant == ~VerdictFails /\ Spec /\ []Undisturbed => []Tidy
<1> SUFFICES ASSUME ~VerdictFails PROVE Spec /\ []Undisturbed => []Tidy
  OBVIOUS
<1>1. Init => Tidy
  <2>1. SUFFICES ASSUME Init PROVE Tidy
    OBVIOUS
  <2>2. \A a \in Actor : act[a].pc = "idle" /\ ~act[a].bad /\ act[a].op = 0
    BY <2>1 DEF Init, Idle
  <2>3. OpenOps = {}
    BY <2>1 DEF Init, OpenOps, Open, NoRecord
  <2>4. Pending = {}
    BY <2>2, <2>3, BoundAssumption DEF Pending, Op
  <2>5. \A a \in Actor : Placed(a)
    BY <2>2, NotPlaced DEF Engaged, Clean
  <2> QED BY <2>3, <2>4, <2>5 DEF Tidy, OursAll, Apart, Left
<1>2. /\ IInv /\ IInv' /\ UpToDate /\ Covered /\ Tidy
      /\ Undisturbed /\ Undisturbed' /\ [Next]_vars
      => Tidy'
  <2>1. SUFFICES ASSUME IInv, IInv', UpToDate, Covered, Tidy,
                        Undisturbed, Undisturbed', [Next]_vars
                 PROVE  Tidy'
    OBVIOUS
  <2>2. CASE UNCHANGED vars
    BY <2>1, <2>2, StillTidy
  <2>3. Good
    BY <2>1 DEF Good
  <2>4. ASSUME NEW a \in Actor, Step(a) \/ Fails(a) \/ Cancel(a) PROVE Tidy'
    BY <2>1, <2>3, <2>4, TidyStep, PlanAssumption, BoundAssumption, FileAssumption, ActorAssumption
  <2>5. ASSUME NEW a \in Actor, NEW p \in Plan, Begin(a, p) PROVE Tidy'
    BY <2>1, <2>5, LockTidy, BoundAssumption
  <2>6. ASSUME NEW p \in Proc, Crash(p) PROVE Tidy'
    BY <2>1, <2>3, <2>6, CrashTidy, ActorAssumption, BoundAssumption
  <2>7. ASSUME NEW f \in File, NEW c \in EditorContent, Edit(f, c) PROVE Tidy'
    BY <2>1, <2>7 DEF Edit, Undisturbed
  <2> QED BY <2>1, <2>2, <2>4, <2>5, <2>6, <2>7 DEF Next
<1>3. Undisturbed => Alone /\ (Alone \/ Roomy)
  BY DEF Undisturbed
<1> QED BY <1>1, <1>2, <1>3, Invariance, UpToDateInvariant, CoveredInvariant, PTL DEF Spec


------------------------------------------------------------------------------
(* What is seen from outside *)

\* No pending operation shows a file otherwise than it is.
Plain(f) == \A r \in Pending : f \in DOMAIN PlanOf(r) => Full(PlanOf(r)) \/ disk[f] = PlanOf(r)[f].from

\* World and Effect, operation by operation.
Shown ==
  /\ World = [f \in File |-> World[f]] /\ Effect = [r \in Op |-> Effect[r]]
  /\ \A f \in File : Plain(f) => World[f] = disk[f]
  /\ \A f \in File : \A r \in Pending :
       f \in DOMAIN PlanOf(r) /\ ~Full(PlanOf(r)) => World[f] = PlanOf(r)[f].from
  /\ \A r \in Pending : Effect[r] = IF Full(PlanOf(r)) THEN "landed" ELSE "open"
  /\ \A r \in Op \ Pending : Effect[r] =
       IF r > opCount THEN "none"
       ELSE CASE journal[r].state = "none" -> "forgotten"
              [] journal[r].state = "committed" -> "kept"
              [] OTHER -> "dropped"

\* A pending operation that is not open is one that its run will reopen: all is planned.
LEMMA CommittedInHand ==
  ASSUME IInv, UpToDate, Tidy, BoundAssumption, NEW r \in Pending, r \notin OpenOps
  PROVE  Full(PlanOf(r)) /\ journal[r].state = "committed" /\ \E a \in Actor : act[a].op = r
<1>1. PICK a \in Actor : act[a].op = r
  BY DEF Pending
<1>2. r # 0 /\ journal[r] \in Record /\ r \in Op
  BY PendingTyped
<1>3. act[a].pc = "threw" /\ PlanOf(r) = act[a].plan
  BY <1>1, <1>2, InHand
<1>4. journal[r].state \in {"prepared", "applying", "committed", "none"}
  BY <1>1, <1>2, <1>3 DEF IInv, RecordFollowsRun, StatesAt
<1>5. journal[r].state \notin Open
  BY <1>2 DEF OpenOps
<1>6. Full(act[a].plan)
  BY <1>1, <1>3, <1>5 DEF Tidy, Placed, Walking
<1> QED BY <1>1, <1>2, <1>3, <1>4, <1>5, <1>6 DEF Record, Open, Terminal

LEMMA TidyShows == IInv /\ UpToDate /\ Tidy => Shown
<1> SUFFICES ASSUME IInv, UpToDate, Tidy PROVE Shown
  OBVIOUS
<1>1. \A r \in Pending : /\ r \in Op /\ r <= opCount /\ PlanOf(r) \in Plan
                         /\ In(PlanOf(r), "planned") = Done(PlanOf(r))
  BY PendingTyped, InDone, PlanAssumption, BoundAssumption
<1>2. \A r \in Pending : ~Full(PlanOf(r)) => r \in OpenOps
  BY CommittedInHand, BoundAssumption
<1>3. OpenOps \subseteq Pending
  BY DEF Pending, OpenOps
<1>4. ASSUME NEW f \in File
      PROVE  World[f] = IF \E r \in Pending : f \in DOMAIN PlanOf(r) /\ ~Full(PlanOf(r))
                        THEN LET r == CHOOSE r \in Unsettled(f) :
                                        In(journal[r].plan, "planned") # DOMAIN journal[r].plan
                             IN  journal[r].plan[f].from
                        ELSE disk[f]
  <2>1. (\E r \in Unsettled(f) : In(journal[r].plan, "planned") # DOMAIN journal[r].plan)
        <=> \E r \in Pending : f \in DOMAIN PlanOf(r) /\ ~Full(PlanOf(r))
    BY <1>1, <1>2, <1>3 DEF Unsettled, Full, PlanOf
  <2> QED BY <2>1 DEF World
<1>5. ASSUME NEW f \in File, NEW r \in Pending, f \in DOMAIN PlanOf(r), ~Full(PlanOf(r))
      PROVE  World[f] = PlanOf(r)[f].from
  <2> DEFINE s == CHOOSE s \in Unsettled(f) :
                    In(journal[s].plan, "planned") # DOMAIN journal[s].plan
  <2>1. r \in Unsettled(f) /\ In(journal[r].plan, "planned") # DOMAIN journal[r].plan
    BY <1>1, <1>2, <1>5 DEF Unsettled, Full, PlanOf
  <2>2. s \in Unsettled(f)
    BY <2>1
  <2>3. s = r
    BY <1>3, <1>5, <2>2 DEF Unsettled, Tidy, Apart, PlanOf
  <2>4. World[f] = journal[s].plan[f].from
    BY <1>4, <1>5
  <2> QED BY <2>3, <2>4 DEF PlanOf
<1>6. ASSUME NEW f \in File, Plain(f) PROVE World[f] = disk[f]
  <2>1. CASE \E r \in Pending : f \in DOMAIN PlanOf(r) /\ ~Full(PlanOf(r))
    BY <1>5, <1>6, <2>1 DEF Plain
  <2>2. CASE ~\E r \in Pending : f \in DOMAIN PlanOf(r) /\ ~Full(PlanOf(r))
    BY <1>4, <2>2
  <2> QED BY <2>1, <2>2
<1>7. \A r \in Pending : Effect[r] = IF Full(PlanOf(r)) THEN "landed" ELSE "open"
  <2>1. SUFFICES ASSUME NEW r \in Pending
                 PROVE  Effect[r] = IF Full(PlanOf(r)) THEN "landed" ELSE "open"
    OBVIOUS
  <2>2. r \in Op /\ ~(r > opCount)
    BY <1>1 DEF IInv, TypeOK, Op
  <2>3. CASE r \in OpenOps
    BY <1>1, <2>2, <2>3 DEF Effect, Full, PlanOf, OpenOps, Open
  <2>4. CASE r \notin OpenOps
    <3>1. Full(PlanOf(r)) /\ journal[r].state = "committed" /\ \E a \in Actor : act[a].op = r
      BY <2>4, CommittedInHand, BoundAssumption
    <3> QED BY <2>2, <2>4, <3>1 DEF Effect
  <2> QED BY <2>3, <2>4
<1>8. \A r \in Op \ Pending : Effect[r] =
       IF r > opCount THEN "none"
       ELSE CASE journal[r].state = "none" -> "forgotten"
              [] journal[r].state = "committed" -> "kept"
              [] OTHER -> "dropped"
  <2>1. SUFFICES ASSUME NEW r \in Op, r \notin Pending
                 PROVE  Effect[r] = IF r > opCount THEN "none"
                                    ELSE CASE journal[r].state = "none" -> "forgotten"
                                           [] journal[r].state = "committed" -> "kept"
                                           [] OTHER -> "dropped"
    OBVIOUS
  <2>2. r \notin OpenOps /\ ~\E a \in Actor : act[a].op = r
    BY <2>1 DEF Pending
  <2>3. journal[r].state \in {"none", "committed", "aborted"}
    BY <2>2 DEF OpenOps, IInv, TypeOK, Record, NoRecord, Open, Terminal
  <2> QED BY <2>1, <2>2, <2>3 DEF Effect
<1>9. World = [f \in File |-> World[f]] /\ Effect = [r \in Op |-> Effect[r]]
  BY DEF World, Effect
<1> QED BY <1>5, <1>6, <1>7, <1>8, <1>9 DEF Shown

LEMMA TidyShowsNext == IInv' /\ UpToDate' /\ Tidy' => Shown'
BY TidyShows, PTL

\* The good state, and what is seen of it before and behind a step.
LEMMA GoodShown ==
  ASSUME Good, Good'
  PROVE  /\ Shown /\ Shown' /\ IInv /\ Tidy /\ Alone /\ Alone' /\ UpToDate
         /\ disk \in [File -> Content] /\ opCount \in Nat /\ faults \in Nat /\ faults' \in Nat
BY TidyShows, TidyShowsNext DEF Good, Undisturbed, IInv, TypeOK

\* A file is shown as before: hidden by the same operation, or plain before and behind.
LEMMA Steady ==
  ASSUME Shown, Shown', NEW f \in File,
         \/ \E r \in Pending : /\ r \in Pending' /\ f \in DOMAIN PlanOf(r) /\ PlanOf(r)' = PlanOf(r)
                               /\ ~Full(PlanOf(r)) /\ ~Full(PlanOf(r))'
         \/ Plain(f) /\ Plain(f)' /\ disk'[f] = disk[f]
  PROVE  World'[f] = World[f]
<1>1. CASE Plain(f) /\ Plain(f)' /\ disk'[f] = disk[f]
  BY <1>1 DEF Shown
<1>2. ASSUME NEW r \in Pending, r \in Pending', f \in DOMAIN PlanOf(r),
             PlanOf(r)' = PlanOf(r), ~Full(PlanOf(r)), ~Full(PlanOf(r))'
      PROVE  World'[f] = World[f]
  <2>1. World[f] = PlanOf(r)[f].from
    BY <1>2 DEF Shown
  <2>2. World'[f] = PlanOf(r)'[f].from
    BY <1>2 DEF Shown
  <2> QED BY <1>2, <2>1, <2>2
<1> QED BY <1>1, <1>2

LEMMA SameFull ==
  ASSUME Shown, Shown', NEW r \in Pending, r \in Pending', Full(PlanOf(r))' <=> Full(PlanOf(r))
  PROVE  Effect'[r] = Effect[r]
<1>1. CASE Full(PlanOf(r))
  <2>1. Effect[r] = "landed"
    BY <1>1 DEF Shown
  <2>2. Effect'[r] = "landed"
    BY <1>1 DEF Shown
  <2> QED BY <2>1, <2>2
<1>2. CASE ~Full(PlanOf(r))
  <2>1. Effect[r] = "open"
    BY <1>2 DEF Shown
  <2>2. Effect'[r] = "open"
    BY <1>2 DEF Shown
  <2> QED BY <2>1, <2>2
<1> QED BY <1>1, <1>2

LEMMA SameGone ==
  ASSUME Shown, Shown', NEW r \in Op, r \notin Pending, r \notin Pending',
         (r > opCount') <=> (r > opCount), journal'[r].state = journal[r].state
  PROVE  Effect'[r] = Effect[r]
<1>1. Effect[r] = IF r > opCount THEN "none"
                  ELSE CASE journal[r].state = "none" -> "forgotten"
                         [] journal[r].state = "committed" -> "kept"
                         [] OTHER -> "dropped"
  BY DEF Shown
<1>2. Effect'[r] = IF r > opCount' THEN "none"
                   ELSE CASE journal'[r].state = "none" -> "forgotten"
                          [] journal'[r].state = "committed" -> "kept"
                          [] OTHER -> "dropped"
  BY DEF Shown
<1> QED BY <1>1, <1>2

\* The files at large are shown as before, if bytes moved only where they are hidden.
LEMMA SameWorld ==
  ASSUME Shown, Shown',
         \A r \in Pending : r \in Pending' /\ PlanOf(r)' = PlanOf(r)
                            /\ (Full(PlanOf(r))' <=> Full(PlanOf(r))),
         Pending' \subseteq Pending,
         \A f \in File : disk'[f] # disk[f]
                         => \E r \in Pending : f \in DOMAIN PlanOf(r) /\ ~Full(PlanOf(r))
  PROVE  World' = World
<1>1. ASSUME NEW f \in File PROVE World'[f] = World[f]
  <2>1. CASE \E r \in Pending : f \in DOMAIN PlanOf(r) /\ ~Full(PlanOf(r))
    BY <2>1, Steady
  <2>2. CASE ~\E r \in Pending : f \in DOMAIN PlanOf(r) /\ ~Full(PlanOf(r))
    <3>1. Plain(f)
      BY <2>2 DEF Plain
    <3>2. Plain(f)'
      BY <2>2 DEF Plain
    <3> QED BY <2>2, <3>1, <3>2, Steady
  <2> QED BY <2>1, <2>2
<1> QED BY <1>1 DEF Shown

\* The same operations, as full as before, and bytes moved only where they are hidden.
LEMMA Unseen ==
  ASSUME Shown, Shown', opCount' = opCount, Pending' = Pending,
         \A r \in Pending : PlanOf(r)' = PlanOf(r) /\ (Full(PlanOf(r))' <=> Full(PlanOf(r))),
         \A r \in Op \ Pending : journal'[r].state = journal[r].state,
         \A f \in File : disk'[f] # disk[f]
                         => \E r \in Pending : f \in DOMAIN PlanOf(r) /\ ~Full(PlanOf(r))
  PROVE  World' = World /\ Effect' = Effect
<1>1. World' = World
  BY SameWorld
<1>2. ASSUME NEW r \in Op PROVE Effect'[r] = Effect[r]
  <2>1. CASE r \in Pending
    BY <2>1, SameFull
  <2>2. CASE r \notin Pending
    BY <2>2, SameGone
  <2> QED BY <2>1, <2>2
<1> QED BY <1>1, <1>2 DEF Shown

\* What is planned of a plan is a matter of the bytes alone.
LEMMA SameBytes ==
  ASSUME disk' = disk, NEW r \in Op, PlanOf(r)' = PlanOf(r)
  PROVE  Full(PlanOf(r))' <=> Full(PlanOf(r))
BY DEF Full, Done

LEMMA UnseenQuiet ==
  ASSUME Shown, Shown', opCount' = opCount, journal' = journal, disk' = disk, Pending' = Pending
  PROVE  World' = World /\ Effect' = Effect
<1>1. \A r \in Pending : r \in Op /\ PlanOf(r)' = PlanOf(r)
  BY DEF Pending, PlanOf
<1>2. \A r \in Pending : Full(PlanOf(r))' <=> Full(PlanOf(r))
  BY <1>1, SameBytes
<1> QED BY <1>1, <1>2, Unseen

\* What is pending is a matter of the journal and of what the runs have in hand.
LEMMA SamePending ==
  ASSUME journal' = journal, \A b \in Actor : act'[b].op = act[b].op
  PROVE  Pending' = Pending
<1>1. OpenOps' = OpenOps
  BY DEF OpenOps
<1> QED BY <1>1 DEF Pending

------------------------------------------------------------------------------
(* Every step is a step of AtomicChange, or none *)

AtomicStep == [Atomic!Next]_(Atomic!vars)

\* A failure is not undone.
LEMMA FailedMoves ==
  ASSUME faults \in Nat, faults' \in Nat, faults' >= faults
  PROVE  (faults > 0)' \in {faults > 0, TRUE}
<1>1. CASE faults' > 0
  <2>1. (faults > 0)' = TRUE
    BY <1>1
  <2> QED BY <2>1
<1>2. CASE ~(faults' > 0)
  <2>1. ~(faults > 0)
    BY <1>2
  <2>2. (faults > 0)' = (faults > 0)
    BY <1>2, <2>1
  <2> QED BY <2>2
<1> QED BY <1>1, <1>2

LEMMA StutterStep ==
  ASSUME World' = World, Effect' = Effect, faults \in Nat, faults' \in Nat, faults' >= faults
  PROVE  AtomicStep
<1>1. Effect' = [r \in Op |-> IF r \in {} THEN "forgotten" ELSE Effect[r]]
  BY DEF Effect
<1>2. Atomic!Forget({})
  BY <1>1 DEF Atomic!Forget
<1>3. (faults > 0)' \in {faults > 0, TRUE}
  BY FailedMoves
<1> QED BY <1>2, <1>3 DEF AtomicStep, Atomic!Next

LEMMA DropStep ==
  ASSUME NEW r \in Op, World' = World, Effect[r] = "open", Effect' = [Effect EXCEPT ![r] = "dropped"],
         faults \in Nat, faults' \in Nat, faults' >= faults
  PROVE  AtomicStep
<1>1. Atomic!Drop(r)
  BY DEF Atomic!Drop
<1>2. (faults > 0)' \in {faults > 0, TRUE}
  BY FailedMoves
<1> QED BY <1>1, <1>2 DEF AtomicStep, Atomic!Next

LEMMA KeepStep ==
  ASSUME NEW r \in Op, World' = World, Effect[r] = "landed", Effect' = [Effect EXCEPT ![r] = "kept"],
         faults \in Nat, faults' \in Nat, faults' >= faults
  PROVE  AtomicStep
<1>1. Atomic!Keep(r)
  BY DEF Atomic!Keep
<1>2. (faults > 0)' \in {faults > 0, TRUE}
  BY FailedMoves
<1> QED BY <1>1, <1>2 DEF AtomicStep, Atomic!Next

\* An operation is settled and let go: it was full and is kept, or it had nothing and is
\* dropped.
LEMMA LetGo ==
  ASSUME Good, Good', PlanAssumption, BoundAssumption, opCount' = opCount, disk' = disk,
         faults' >= faults, NEW r \in Pending, Pending' = Pending \ {r},
         \A s \in Op : PlanOf(s)' = PlanOf(s),
         \A s \in Op : s # r => journal'[s] = journal[s],
         \/ Full(PlanOf(r)) /\ journal'[r].state = "committed"
         \/ Done(PlanOf(r)) = {} /\ journal'[r].state = "aborted"
  PROVE  AtomicStep
<1>0. /\ r \in Op /\ r <= opCount /\ PlanOf(r) \in Plan /\ Ours(PlanOf(r))
      /\ Shown /\ Shown' /\ opCount \in Nat /\ faults \in Nat /\ faults' \in Nat
  BY GoodShown, PendingTyped DEF Tidy, OursAll
<1>1. ASSUME NEW s \in Pending, s # r
      PROVE  s \in Pending' /\ s \in Op /\ PlanOf(s)' = PlanOf(s) /\ (Full(PlanOf(s))' <=> Full(PlanOf(s)))
  BY <1>1, SameBytes DEF Pending
<1>2. ASSUME NEW f \in File PROVE World'[f] = World[f]
  <2>1. CASE \E s \in Pending : s # r /\ f \in DOMAIN PlanOf(s) /\ ~Full(PlanOf(s))
    BY <1>0, <1>1, <2>1, Steady
  <2>2. CASE ~\E s \in Pending : s # r /\ f \in DOMAIN PlanOf(s) /\ ~Full(PlanOf(s))
    <3>1. f \in DOMAIN PlanOf(r) => Full(PlanOf(r)) \/ disk[f] = PlanOf(r)[f].from
      BY <1>0 DEF Ours, Done
    <3>2. Plain(f)
      BY <2>2, <3>1 DEF Plain
    <3>3. Plain(f)'
      BY <1>1, <2>2 DEF Plain
    <3> QED BY <1>0, <3>2, <3>3, Steady
  <2> QED BY <2>1, <2>2
<1>3. ASSUME NEW s \in Op, s # r PROVE Effect'[s] = Effect[s]
  <2>1. CASE s \in Pending
    BY <1>0, <1>1, <1>3, <2>1, SameFull
  <2>2. CASE s \notin Pending
    <3>1. s \notin Pending'
      BY <2>2
    <3> QED BY <1>0, <1>3, <2>2, <3>1, SameGone
  <2> QED BY <2>1, <2>2
<1>4. r \in Op \ Pending' /\ ~(r > opCount')
  BY <1>0 DEF Op
<1>5. World' = World
  BY <1>0, <1>2 DEF Shown
<1>6. CASE Full(PlanOf(r)) /\ journal'[r].state = "committed"
  <2>1. Effect[r] = "landed"
    BY <1>0, <1>6 DEF Shown
  <2>2. Effect'[r] = "kept"
    BY <1>0, <1>4, <1>6 DEF Shown
  <2>3. Effect' = [Effect EXCEPT ![r] = "kept"]
    BY <1>0, <1>3, <2>2 DEF Shown
  <2> QED BY <1>0, <1>5, <2>1, <2>3, KeepStep
<1>7. CASE Done(PlanOf(r)) = {} /\ journal'[r].state = "aborted"
  <2>1. ~Full(PlanOf(r))
    BY <1>0, <1>7, PlanFacts DEF Full
  <2>2. Effect[r] = "open"
    BY <1>0, <2>1 DEF Shown
  <2>3. Effect'[r] = "dropped"
    BY <1>0, <1>4, <1>7 DEF Shown
  <2>4. Effect' = [Effect EXCEPT ![r] = "dropped"]
    BY <1>0, <1>3, <2>3 DEF Shown
  <2> QED BY <1>0, <1>5, <2>2, <2>4, DropStep
<1> QED BY <1>6, <1>7

\* Nothing moves but who does what: nothing is seen.
LEMMA QuietAtomic ==
  ASSUME Good, Good', opCount' = opCount, journal' = journal, disk' = disk, faults' >= faults,
         \A b \in Actor : act'[b].op = act[b].op
  PROVE  AtomicStep
BY GoodShown, SamePending, UnseenQuiet, StutterStep

\* The record of the operation in hand is rewritten, and the operation stays in hand.
LEMMA StateAtomic ==
  ASSUME Good, Good', PlanAssumption, BoundAssumption, NEW a \in Actor, act[a].op # 0,
         OwnRecordOnly(a), disk' = disk, opCount' = opCount, faults' >= faults,
         \A b \in Actor : act'[b].op = act[b].op
  PROVE  AtomicStep
<1>0. Shown /\ Shown' /\ faults \in Nat /\ faults' \in Nat /\ journal \in [Op -> Record \cup {NoRecord}]
  BY GoodShown DEF IInv, TypeOK
<1> PICK r \in Pending : r = act[a].op /\ PlanOf(r) = act[a].plan
  BY RunFacts
<1>1. r \in Op /\ \A s \in Op : s # r => journal'[s] = journal[s]
  BY <1>0 DEF OwnRecordOnly, Pending
<1>2. PlanOf(r)' = PlanOf(r)
  BY <1>0, <1>1 DEF OwnRecordOnly, PlanOf
<1>3. Pending' = Pending
  BY <1>1 DEF Pending, OpenOps
<1>4. \A s \in Pending : s \in Op /\ PlanOf(s)' = PlanOf(s)
  BY <1>1, <1>2 DEF Pending, PlanOf
<1>5. \A s \in Pending : Full(PlanOf(s))' <=> Full(PlanOf(s))
  BY <1>4, SameBytes
<1>6. \A s \in Op \ Pending : journal'[s].state = journal[s].state
  BY <1>1
<1>7. World' = World /\ Effect' = Effect
  BY <1>0, <1>3, <1>4, <1>5, <1>6, Unseen
<1> QED BY <1>0, <1>7, StutterStep

\* A byte of an operation that is not full, neither before nor behind.
LEMMA ByteAtomic ==
  ASSUME Good, Good', PlanAssumption, BoundAssumption, opCount' = opCount, journal' = journal,
         Pending' = Pending, faults' >= faults, NEW r \in Pending, NEW f \in DOMAIN PlanOf(r), NEW c,
         disk' = [disk EXCEPT ![f] = c], ~Full(PlanOf(r)), ~Full(PlanOf(r))'
  PROVE  AtomicStep
<1>0. Shown /\ Shown' /\ Tidy /\ disk \in [File -> Content] /\ faults \in Nat /\ faults' \in Nat
  BY GoodShown
<1>1. \A g \in File : g # f => disk'[g] = disk[g]
  BY <1>0
<1>2. \A s \in Pending : s \in Op /\ PlanOf(s)' = PlanOf(s) /\ PlanOf(s) \in Plan
  BY GoodShown, PendingTyped DEF PlanOf
<1>3. ASSUME NEW s \in Pending, s # r PROVE Full(PlanOf(s))' <=> Full(PlanOf(s))
  <2>1. f \notin DOMAIN PlanOf(s) /\ DOMAIN PlanOf(s) \subseteq File
    BY <1>0, <1>2, <1>3, PlanFacts DEF Tidy, Apart
  <2>2. \A g \in DOMAIN PlanOf(s) : disk'[g] = disk[g]
    BY <1>1, <2>1
  <2> QED BY <1>2, <1>3, <2>2 DEF Full, Done
<1>4. \A s \in Pending : Full(PlanOf(s))' <=> Full(PlanOf(s))
  BY <1>3
<1>5. World' = World /\ Effect' = Effect
  BY <1>0, <1>1, <1>2, <1>4, Unseen
<1> QED BY <1>0, <1>5, StutterStep

\* One byte makes an operation full, or was the first to go back of a full one: all of its
\* targets are seen to change at once.
LEMMA AllAtOnce ==
  ASSUME Good, Good', PlanAssumption, BoundAssumption, opCount' = opCount, journal' = journal,
         Pending' = Pending, NEW r \in Pending, NEW p \in Plan, p = PlanOf(r),
         NEW f \in DOMAIN p, NEW c, disk' = [disk EXCEPT ![f] = c], Full(p)' <=> ~Full(p)
  PROVE  /\ r \in Op /\ PlanOf(r)' = p
         /\ Full(p)  => /\ \A g \in DOMAIN p : World[g] = p[g].to
                        /\ World' = [g \in File |-> IF g \in DOMAIN p THEN p[g].from ELSE World[g]]
                        /\ Effect[r] = "landed" /\ Effect' = [Effect EXCEPT ![r] = "open"]
         /\ ~Full(p) => /\ \A g \in DOMAIN p : World[g] = p[g].from
                        /\ World' = [g \in File |-> IF g \in DOMAIN p THEN p[g].to ELSE World[g]]
                        /\ Effect[r] = "open" /\ Effect' = [Effect EXCEPT ![r] = "landed"]
<1>0. Shown /\ Shown' /\ Tidy /\ disk \in [File -> Content]
  BY GoodShown
<1>1. r \in Op /\ PlanOf(r)' = p
  BY DEF Pending, PlanOf
<1>2. DOMAIN p \subseteq File /\ \A g \in File : g # f => disk'[g] = disk[g]
  BY <1>0, PlanFacts
<1>3. \A s \in Pending : /\ s \in Op /\ PlanOf(s)' = PlanOf(s) /\ DOMAIN PlanOf(s) \subseteq File
                         /\ s # r => DOMAIN PlanOf(s) \cap DOMAIN p = {}
  BY <1>0, GoodShown, PendingTyped, PlanFacts DEF PlanOf, Tidy, Apart
<1>4. ASSUME NEW s \in Pending, s # r PROVE Full(PlanOf(s))' <=> Full(PlanOf(s))
  <2>1. \A g \in DOMAIN PlanOf(s) : disk'[g] = disk[g]
    BY <1>2, <1>3, <1>4
  <2>2. PlanOf(s)' = PlanOf(s)
    BY <1>3, <1>4
  <2> QED BY <2>1, <2>2 DEF Full, Done
<1>5. ASSUME NEW g \in DOMAIN p
      PROVE  /\ Full(p)  => World[g] = p[g].to /\ World'[g] = p[g].from
             /\ ~Full(p) => World[g] = p[g].from /\ World'[g] = p[g].to
  <2>1. g \in File
    BY <1>2
  <2>2. CASE Full(p)
    <3>1. Plain(g)
      BY <1>3, <2>2 DEF Plain
    <3>2. World[g] = disk[g] /\ disk[g] = p[g].to
      BY <1>0, <2>1, <2>2, <3>1 DEF Shown, Full, Done
    <3>3. World'[g] = p[g].from
      BY <1>0, <1>1, <2>1, <2>2 DEF Shown
    <3> QED BY <2>2, <3>2, <3>3
  <2>3. CASE ~Full(p)
    <3>1. Plain(g)'
      BY <1>1, <1>3, <2>3 DEF Plain
    <3>2. World'[g] = disk'[g] /\ disk'[g] = p[g].to
      BY <1>0, <2>1, <2>3, <3>1 DEF Shown, Full, Done
    <3>3. World[g] = p[g].from
      BY <1>0, <2>1, <2>3 DEF Shown
    <3> QED BY <2>3, <3>2, <3>3
  <2> QED BY <2>2, <2>3
<1>6. ASSUME NEW g \in File, g \notin DOMAIN p PROVE World'[g] = World[g]
  <2>1. CASE \E s \in Pending : g \in DOMAIN PlanOf(s) /\ ~Full(PlanOf(s))
    <3>1. PICK s \in Pending : g \in DOMAIN PlanOf(s) /\ ~Full(PlanOf(s))
      BY <2>1
    <3>2. s # r
      BY <1>6, <3>1
    <3>3. ~Full(PlanOf(s))' /\ PlanOf(s)' = PlanOf(s)
      BY <1>3, <1>4, <3>1, <3>2
    <3> QED BY <1>0, <3>1, <3>3, Steady
  <2>2. CASE ~\E s \in Pending : g \in DOMAIN PlanOf(s) /\ ~Full(PlanOf(s))
    <3>1. Plain(g)
      BY <2>2 DEF Plain
    <3>2. Plain(g)'
      BY <1>1, <1>3, <1>4, <1>6, <2>2 DEF Plain
    <3>3. disk'[g] = disk[g]
      BY <1>2, <1>6
    <3> QED BY <1>0, <3>1, <3>2, <3>3, Steady
  <2> QED BY <2>1, <2>2
<1>7. /\ Full(p)  => Effect[r] = "landed" /\ Effect'[r] = "open"
      /\ ~Full(p) => Effect[r] = "open" /\ Effect'[r] = "landed"
  <2>1. Effect[r] = IF Full(p) THEN "landed" ELSE "open"
    BY <1>0 DEF Shown
  <2>2. Effect'[r] = IF Full(p)' THEN "landed" ELSE "open"
    BY <1>0, <1>1 DEF Shown
  <2> QED BY <2>1, <2>2
<1>8. ASSUME NEW s \in Op, s # r PROVE Effect'[s] = Effect[s]
  <2>1. CASE s \in Pending
    BY <1>0, <1>4, <1>8, <2>1, SameFull
  <2>2. CASE s \notin Pending
    BY <1>0, <2>2, SameGone
  <2> QED BY <2>1, <2>2
<1>9. World' = [g \in File |-> World'[g]] /\ Effect = [s \in Op |-> Effect[s]] /\ Effect' = [s \in Op |-> Effect'[s]]
  BY <1>0 DEF Shown
<1>10. CASE Full(p)
  <2>1. \A g \in File : World'[g] = IF g \in DOMAIN p THEN p[g].from ELSE World[g]
    BY <1>5, <1>6, <1>10
  <2>2. Effect' = [Effect EXCEPT ![r] = "open"]
    BY <1>1, <1>7, <1>8, <1>9, <1>10
  <2> QED BY <1>1, <1>5, <1>7, <1>9, <1>10, <2>1, <2>2
<1>11. CASE ~Full(p)
  <2>1. \A g \in File : World'[g] = IF g \in DOMAIN p THEN p[g].to ELSE World[g]
    BY <1>5, <1>6, <1>11
  <2>2. Effect' = [Effect EXCEPT ![r] = "landed"]
    BY <1>1, <1>7, <1>8, <1>9, <1>11
  <2> QED BY <1>1, <1>5, <1>7, <1>9, <1>11, <2>1, <2>2
<1> QED BY <1>10, <1>11

\* The last of the writes is the instant of the change.
LEMMA LastWriteLands ==
  ASSUME Good, Good', PlanAssumption, BoundAssumption, opCount' = opCount, journal' = journal,
         Pending' = Pending, faults' >= faults, NEW r \in Pending, NEW p \in Plan, p = PlanOf(r),
         NEW f \in DOMAIN p, NEW c, disk' = [disk EXCEPT ![f] = c], ~Full(p), Full(p)'
  PROVE  AtomicStep
<1>1. Atomic!Land(r, p) /\ r \in Op
  BY AllAtOnce DEF Atomic!Land
<1>2. (faults > 0)' \in {faults > 0, TRUE}
  BY GoodShown, FailedMoves
<1> QED BY <1>1, <1>2 DEF AtomicStep, Atomic!Next

\* Behind a failure the first restore of a set that is all in place takes it back.
LEMMA FirstUndoTakesBack ==
  ASSUME Good, Good', PlanAssumption, BoundAssumption, opCount' = opCount, journal' = journal,
         Pending' = Pending, faults > 0, faults' >= faults, NEW r \in Pending, NEW p \in Plan,
         p = PlanOf(r), NEW f \in DOMAIN p, NEW c, disk' = [disk EXCEPT ![f] = c], Full(p), ~Full(p)'
  PROVE  AtomicStep
<1>1. Atomic!TakeBack(r, p) /\ r \in Op
  BY AllAtOnce DEF Atomic!TakeBack
<1>2. (faults > 0)' \in {faults > 0, TRUE}
  BY GoodShown, FailedMoves
<1> QED BY <1>1, <1>2 DEF AtomicStep, Atomic!Next

\* Steps that touch neither record nor byte, and take nothing in hand.
LEMMA QuietSteps ==
  ASSUME IInv, NEW a \in Actor,
         \/ Lock(a) \/ Cancel(a) \/ LockTimesOut(a) \/ Conclude(a) \/ Boot(a) \/ Sweep(a)
         \/ Inspect(a) \/ RestoreReread(a) \/ Check(a) \/ Stage(a) \/ StageFails(a)
         \/ Compensate(a) \/ Reread(a) \/ Probe(a) \/ Verify(a) \/ WriteFails(a)
  PROVE  /\ journal' = journal /\ disk' = disk /\ opCount' = opCount /\ faults' >= faults
         /\ \A b \in Actor : act'[b].op = act[b].op
<1>0. act \in [Actor -> ActorState] /\ act[a] \in ActorState /\ faults \in Nat /\ Shaped(act[a])
  BY Local DEF IInv, TypeOK
<1>1. \A o : Return(a, o) /\ act[a].op = 0 => \A b \in Actor : act'[b].op = act[b].op
  BY <1>0 DEF Return, Idle
<1>2. \A d : Throw(a, d) => \A b \in Actor : act'[b].op = act[b].op
  BY <1>0 DEF Throw, ActorState
<1>3. CASE Lock(a) \/ LockTimesOut(a) \/ Stage(a) \/ StageFails(a)
  <2>1. journal' = journal /\ disk' = disk /\ opCount' = opCount
    BY <1>3 DEF Lock, LockTimesOut, Stage, StageFails
  <2>2. faults' = faults \/ faults' = faults + 1
    BY <1>3 DEF Lock, LockTimesOut, Stage, StageFails, Fault
  <2>3. \A b \in Actor : act'[b].op = act[b].op
    <3>1. CASE Lock(a)
      <4>1. \E l, x : act' = [act EXCEPT ![a].left = l, ![a].pc = x]
        BY <3>1 DEF Lock
      <4> QED BY <1>0, <4>1 DEF ActorState
    <3>2. CASE LockTimesOut(a)
      BY <1>0, <3>2 DEF LockTimesOut, ActorState
    <3>3. CASE Stage(a)
      BY <1>0, <3>3 DEF Stage, ActorState
    <3>4. CASE StageFails(a)
      BY <1>0, <3>4 DEF StageFails, ActorState
    <3> QED BY <1>3, <3>1, <3>2, <3>3, <3>4
  <2>4. faults' >= faults
    BY <1>0, <2>2
  <2> QED BY <2>1, <2>3, <2>4
<1>4. CASE Cancel(a) \/ Conclude(a) \/ Check(a)
  <2>1. /\ journal' = journal /\ disk' = disk /\ opCount' = opCount /\ faults' = faults
        /\ act[a].pc \in {"start", "check", "checked", "staged", "failed"}
    BY <1>4 DEF Cancel, Conclude, Check
  <2>2. act[a].op = 0
    BY <1>0, <2>1 DEF Shaped, Stepping, Undoing
  <2>3. (\E o : Return(a, o)) \/ \E n : act' = [act EXCEPT ![a].pc = "checked", ![a].rev = n]
    BY <1>4 DEF Cancel, Conclude, Check
  <2>4. \A b \in Actor : act'[b].op = act[b].op
    <3>1. CASE \E o : Return(a, o)
      BY <1>1, <2>2, <3>1
    <3>2. CASE \E n : act' = [act EXCEPT ![a].pc = "checked", ![a].rev = n]
      BY <1>0, <3>2 DEF ActorState
    <3> QED BY <2>3, <3>1, <3>2
  <2>5. faults' >= faults
    BY <1>0, <2>1
  <2> QED BY <2>1, <2>4, <2>5
<1>5. CASE Boot(a) \/ Sweep(a) \/ RestoreReread(a) \/ Compensate(a) \/ Reread(a)
  <2>1. journal' = journal /\ disk' = disk /\ opCount' = opCount /\ faults' = faults
    BY <1>5 DEF Boot, Sweep, Listing, RestoreReread, Compensate, Reread
  <2>2. \A b \in Actor : act'[b].op = act[b].op
    <3>1. CASE Boot(a) \/ Sweep(a)
      BY <1>0, <3>1 DEF Boot, Sweep, Listing, ActorState
    <3>2. CASE RestoreReread(a)
      <4>1. \/ \E l, x : act' = [act EXCEPT ![a].left = l, ![a].pc = x]
            \/ \E n : act' = [act EXCEPT ![a].pc = "settle", ![a].verdict = "unresolved",
                                        ![a].note = n, ![a].left = {}]
            \/ LeftAsItIs(a)
        BY <3>2 DEF RestoreReread
      <4>2. CASE \E l, x : act' = [act EXCEPT ![a].left = l, ![a].pc = x]
        BY <1>0, <4>2 DEF ActorState
      <4>3. CASE \E n : act' = [act EXCEPT ![a].pc = "settle", ![a].verdict = "unresolved",
                                          ![a].note = n, ![a].left = {}]
        BY <1>0, <4>3 DEF ActorState
      <4>4. CASE LeftAsItIs(a)
        BY <1>0, <4>4 DEF LeftAsItIs, ActorState
      <4> QED BY <4>1, <4>2, <4>3, <4>4
    <3>3. CASE Compensate(a)
      BY <1>0, <3>3 DEF Compensate, ActorState
    <3>4. CASE Reread(a)
      <4>1. \E l, x : act' = [act EXCEPT ![a].pc = "comp", ![a].left = l, ![a].bad = x]
        BY <3>4 DEF Reread
      <4> QED BY <1>0, <4>1 DEF ActorState
    <3> QED BY <1>5, <3>1, <3>2, <3>3, <3>4
  <2>3. faults' >= faults
    BY <1>0, <2>1
  <2> QED BY <2>1, <2>2, <2>3
<1>6. CASE Inspect(a)
  <2>1. journal' = journal /\ disk' = disk /\ opCount' = opCount /\ faults' = faults
    BY <1>6 DEF Inspect
  <2>2. \/ \E e : act' = [act EXCEPT ![a].seen = @ \ {e}]
        \/ \E e, pc, v, n, l : Judge(a, e, pc, v, n, l)
    BY <1>6 DEF Inspect
  <2>3. \A b \in Actor : act'[b].op = act[b].op
    <3>1. CASE \E e : act' = [act EXCEPT ![a].seen = @ \ {e}]
      BY <1>0, <3>1 DEF ActorState
    <3>2. CASE \E e, pc, v, n, l : Judge(a, e, pc, v, n, l)
      <4>1. PICK e, pc, v, n, l : Judge(a, e, pc, v, n, l)
        BY <3>2
      <4> QED BY <1>0, <4>1 DEF Judge, ActorState
    <3> QED BY <2>2, <3>1, <3>2
  <2>4. faults' >= faults
    BY <1>0, <2>1
  <2> QED BY <2>1, <2>3, <2>4
<1>7. CASE Probe(a) \/ Verify(a) \/ WriteFails(a)
  <2>1. journal' = journal /\ disk' = disk /\ opCount' = opCount
    BY <1>7 DEF Probe, Verify, WriteFails
  <2>2. faults' = faults \/ faults' = faults + 1
    BY <1>7 DEF Probe, Verify, WriteFails, Fault
  <2>3. \/ \E d : Throw(a, d)
        \/ act' = [act EXCEPT ![a].pc = "write"]
        \/ \E f : act' = [act EXCEPT ![a].left = @ \ {f}]
    BY <1>7 DEF Probe, Verify, WriteFails
  <2>4. \A b \in Actor : act'[b].op = act[b].op
    <3>1. CASE \E d : Throw(a, d)
      BY <1>2, <3>1
    <3>2. CASE act' = [act EXCEPT ![a].pc = "write"]
      BY <1>0, <3>2 DEF ActorState
    <3>3. CASE \E f : act' = [act EXCEPT ![a].left = @ \ {f}]
      BY <1>0, <3>3 DEF ActorState
    <3> QED BY <2>3, <3>1, <3>2, <3>3
  <2>5. faults' >= faults
    BY <1>0, <2>2
  <2> QED BY <2>1, <2>4, <2>5
<1> QED BY <1>3, <1>4, <1>5, <1>6, <1>7

\* Nothing to revive: the journal's lookup only takes the lock, or ends the run.
LEMMA PrepareAtomic ==
  ASSUME Good, Good', PlanAssumption, BoundAssumption, NEW a \in Actor, Prepare(a) \/ PrepareFails(a)
  PROVE  AtomicStep
<1>0. /\ act \in [Actor -> ActorState] /\ act[a] \in ActorState /\ faults \in Nat /\ Shaped(act[a])
      /\ act[a].pc = "staged" /\ act[a].op = 0
  BY GoodLocal DEF Prepare, PrepareFails, Incomplete, Shaped, Stepping, Undoing
<1>1. journal' = journal /\ disk' = disk /\ faults' = faults
  BY PrepareTidy DEF Good
<1>2. opCount' = opCount
  BY DEF Prepare, PrepareFails
<1>3. \/ \E o : Return(a, o)
      \/ act' = [act EXCEPT ![a].pc = "open"]
      \/ \E r : act' = [act EXCEPT ![a].pc = "comp", ![a].job = r, ![a].left = Targets(a),
                                  ![a].snap = journal[r]]
      \/ act' = [act EXCEPT ![a].pc = "failed", ![a].staged = {}]
  BY DEF Prepare, PrepareFails
<1>4. \A b \in Actor : act'[b].op = act[b].op
  <2>1. CASE \E o : Return(a, o)
    BY <1>0, <2>1 DEF Return, Idle
  <2>2. CASE act' = [act EXCEPT ![a].pc = "open"]
    BY <1>0, <2>2 DEF ActorState
  <2>3. CASE \E r : act' = [act EXCEPT ![a].pc = "comp", ![a].job = r, ![a].left = Targets(a),
                                      ![a].snap = journal[r]]
    BY <1>0, <2>3 DEF ActorState
  <2>4. CASE act' = [act EXCEPT ![a].pc = "failed", ![a].staged = {}]
    BY <1>0, <2>4 DEF ActorState
  <2> QED BY <1>3, <2>1, <2>2, <2>3, <2>4
<1>5. faults' >= faults
  BY <1>0, <1>1
<1> QED BY <1>1, <1>2, <1>4, <1>5, QuietAtomic

\* The record is published, and nothing has changed yet; or it is not.
LEMMA OfferAtomic ==
  ASSUME Good, Good', PlanAssumption, BoundAssumption, NEW a \in Actor,
         OpenOp(a) \/ (OpenOpFails(a) /\ journal' # journal)
  PROVE  AtomicStep
<1>0. /\ IInv /\ Tidy /\ Shown /\ Shown' /\ disk' = disk /\ opCount \in Nat
      /\ opCount' = opCount + 1 /\ faults \in Nat /\ faults' \in Nat
      /\ faults' = faults \/ faults' = faults + 1
  BY GoodShown DEF OpenOp, OpenOpFails, Fault
<1> PICK r \in Op, p \in Plan :
      /\ r = opCount + 1 /\ p = act[a].plan /\ r \notin Pending
      /\ OpenOps' = OpenOps \cup {r} /\ Pending' \subseteq Pending \cup {r}
      /\ \A s \in Op : s # r => journal'[s] = journal[s]
      /\ journal'[r].plan = p /\ Untouched(p)
      /\ \A s \in Pending : s \in OpenOps /\ DOMAIN PlanOf(s) \cap DOMAIN p = {}
  BY OpenOpFacts
<1>1. Pending' = Pending \cup {r}
  <2>1. \A s \in Pending : s \in OpenOps' /\ s \in Op
    BY DEF Pending
  <2>2. OpenOps' \subseteq Pending'
    BY DEF Pending, OpenOps
  <2> QED BY <2>1, <2>2
<1>2. \A s \in Pending : s \in Op /\ s # r /\ s \in Pending' /\ PlanOf(s)' = PlanOf(s)
  BY <1>1 DEF Pending, PlanOf
<1>3. \A s \in Pending : Full(PlanOf(s))' <=> Full(PlanOf(s))
  BY <1>0, <1>2, SameBytes
<1>4. ~Full(PlanOf(r))' /\ PlanOf(r)' = p
  BY <1>0, PlanFacts DEF Full, Done, PlanOf, Untouched
<1>5. ASSUME NEW f \in File PROVE World'[f] = World[f]
  <2>1. CASE \E s \in Pending : f \in DOMAIN PlanOf(s) /\ ~Full(PlanOf(s))
    BY <1>0, <1>2, <1>3, <2>1, Steady
  <2>2. CASE ~\E s \in Pending : f \in DOMAIN PlanOf(s) /\ ~Full(PlanOf(s))
    <3>1. Plain(f)
      BY <2>2 DEF Plain
    <3>2. ASSUME NEW s \in Pending', f \in DOMAIN PlanOf(s)'
          PROVE  Full(PlanOf(s))' \/ disk'[f] = PlanOf(s)'[f].from
      <4>1. CASE s = r
        BY <1>0, <1>4, <3>2, <4>1 DEF Untouched
      <4>2. CASE s # r
        BY <1>1, <1>2, <1>3, <2>2, <3>2, <4>2
      <4> QED BY <4>1, <4>2
    <3>3. Plain(f)'
      BY <3>2 DEF Plain
    <3> QED BY <1>0, <3>1, <3>3, Steady
  <2> QED BY <2>1, <2>2
<1>6. Effect[r] = "none" /\ Effect'[r] = "open"
  <2>1. r > opCount
    BY <1>0
  <2>2. Effect[r] = "none"
    BY <1>0, <2>1 DEF Shown
  <2>3. r \in Pending'
    BY <1>1
  <2>4. Effect'[r] = "open"
    BY <1>0, <1>4, <2>3 DEF Shown
  <2> QED BY <2>2, <2>4
<1>7. ASSUME NEW s \in Op, s # r PROVE Effect'[s] = Effect[s]
  <2>1. CASE s \in Pending
    BY <1>0, <1>2, <1>3, <2>1, SameFull
  <2>2. CASE s \notin Pending
    <3>1. s \notin Pending' /\ journal'[s] = journal[s]
      BY <1>1, <1>7, <2>2
    <3>2. (s > opCount') <=> (s > opCount)
      BY <1>0, <1>7 DEF Op
    <3> QED BY <1>0, <2>2, <3>1, <3>2, SameGone
  <2> QED BY <2>1, <2>2
<1>8. World' = World /\ Effect' = [Effect EXCEPT ![r] = "open"]
  BY <1>0, <1>5, <1>6, <1>7 DEF Shown
<1>9. Atomic!Offer(r)
  BY <1>6, <1>8 DEF Atomic!Offer
<1>10. faults' >= faults
  BY <1>0
<1>11. (faults > 0)' \in {faults > 0, TRUE}
  BY <1>0, <1>10, FailedMoves
<1> QED BY <1>9, <1>11 DEF AtomicStep, Atomic!Next

LEMMA OpenOpAtomic ==
  ASSUME Good, Good', PlanAssumption, BoundAssumption, NEW a \in Actor, OpenOp(a) \/ OpenOpFails(a)
  PROVE  AtomicStep
<1>1. CASE OpenOp(a) \/ journal' # journal
  BY <1>1, OfferAtomic
<1>2. CASE OpenOpFails(a) /\ journal' = journal
  <2>0. /\ act \in [Actor -> ActorState] /\ act[a] \in ActorState /\ faults \in Nat /\ Shaped(act[a])
        /\ act[a].pc = "open" /\ act[a].op = 0 /\ opCount \in Nat /\ IInv
        /\ journal \in [Op -> Record \cup {NoRecord}]
    BY <1>2, GoodLocal DEF OpenOpFails, Shaped, Stepping, Undoing, IInv, TypeOK
  <2>1. opCount' = opCount
    <3>1. SUFFICES ASSUME opCount + 1 \in Op,
                          journal' = [journal EXCEPT ![opCount + 1] = Rec(a, "prepared")]
                   PROVE  FALSE
      BY <1>2 DEF OpenOpFails
    <3>2. journal[opCount + 1] = NoRecord
      BY <2>0, <3>1 DEF IInv, Live
    <3>3. journal'[opCount + 1].state = "prepared"
      BY <2>0, <3>1 DEF Rec
    <3> QED BY <1>2, <3>2, <3>3 DEF NoRecord
  <2>2. disk' = disk /\ \A b \in Actor : act'[b].op = act[b].op
    BY <1>2, <2>0 DEF OpenOpFails, ActorState
  <2>3. faults' >= faults
    <3>1. faults' = faults + 1
      BY <1>2 DEF OpenOpFails, Fault
    <3> QED BY <2>0, <3>1
  <2> QED BY <1>2, <2>1, <2>2, <2>3, QuietAtomic
<1> QED BY <1>1, <1>2

LEMMA RecordsAtomic ==
  ASSUME Good, Good', PlanAssumption, BoundAssumption, NEW a \in Actor,
         Apply(a) \/ ApplyFails(a) \/ CommitFails(a) \/ Turn(a)
  PROVE  AtomicStep
<1>0. /\ act \in [Actor -> ActorState] /\ act[a] \in ActorState /\ faults \in Nat
      /\ act[a].op # 0
  BY GoodLocal DEF Apply, ApplyFails, CommitFails, Turn, Shaped, Stepping
<1>1. disk' = disk /\ opCount' = opCount /\ (faults' = faults \/ faults' = faults + 1)
  BY DEF Apply, ApplyFails, CommitFails, Turn, PublishFails, Fault
<1>2. \A b \in Actor : act'[b].op = act[b].op
  <2>1. \/ \E d : Throw(a, d)
        \/ \E x, l : act' = [act EXCEPT ![a].pc = x, ![a].left = l]
        \/ act' = [act EXCEPT ![a].pc = "comp"]
    BY DEF Apply, ApplyFails, CommitFails, Turn
  <2>2. CASE \E d : Throw(a, d)
    BY <1>0, <2>2 DEF Throw, ActorState
  <2>3. CASE \E x, l : act' = [act EXCEPT ![a].pc = x, ![a].left = l]
    BY <1>0, <2>3 DEF ActorState
  <2>4. CASE act' = [act EXCEPT ![a].pc = "comp"]
    BY <1>0, <2>4 DEF ActorState
  <2> QED BY <2>1, <2>2, <2>3, <2>4
<1>3. OwnRecordOnly(a)
  <2>1. CASE Apply(a) \/ ApplyFails(a)
    <3>1. journal' = journal \/ journal' = [journal EXCEPT ![act[a].op].state = "applying"]
      BY <2>1 DEF Apply, ApplyFails, PublishFails
    <3>2. CASE journal' = journal
      BY <3>2 DEF OwnRecordOnly
    <3>3. CASE journal' = [journal EXCEPT ![act[a].op].state = "applying"]
      BY <1>0, <3>3, OwnState DEF Open
    <3> QED BY <3>1, <3>2, <3>3
  <2>2. CASE CommitFails(a)
    <3>1. journal' = journal \/ journal' = [journal EXCEPT ![act[a].op].state = "committed"]
      BY <2>2 DEF CommitFails, PublishFails
    <3>2. CASE journal' = journal
      BY <3>2 DEF OwnRecordOnly
    <3>3. CASE journal' = [journal EXCEPT ![act[a].op].state = "committed"]
      BY <1>0, <3>3, OwnState DEF Terminal
    <3> QED BY <3>1, <3>2, <3>3
  <2>3. CASE Turn(a)
    BY <2>3, TurnRecord, ActorAssumption
  <2> QED BY <2>1, <2>2, <2>3
<1>4. faults' >= faults
  BY <1>0, <1>1
<1> QED BY <1>0, <1>1, <1>2, <1>3, <1>4, StateAtomic

LEMMA WriteAtomic ==
  ASSUME Good, Good', PlanAssumption, BoundAssumption, NEW a \in Actor, Write(a) \/ WriteUnrecorded(a)
  PROVE  AtomicStep
<1>0. /\ act \in [Actor -> ActorState] /\ act[a] \in ActorState /\ faults \in Nat
      /\ act[a].pc = "write" /\ act[a].op # 0 /\ ~Full(act[a].plan)
      /\ act[a].left \subseteq DOMAIN act[a].plan
  BY GoodLocal, WriteFacts DEF Write, WriteUnrecorded
<1>1. /\ journal' = journal /\ opCount' = opCount
      /\ faults' = faults \/ faults' = faults + 1
  BY DEF Write, WriteUnrecorded, Fault
<1> PICK r \in Pending, p \in Plan : r = act[a].op /\ p = act[a].plan /\ PlanOf(r) = p
  BY <1>0, RunFacts
<1>2. PICK f \in DOMAIN p : disk' = [disk EXCEPT ![f] = p[f].to]
  BY <1>0 DEF Write, WriteUnrecorded, Put
<1>3. \A b \in Actor : act'[b].op = act[b].op
  <2>1. (\E d : Throw(a, d)) \/ \E x, l : act' = [act EXCEPT ![a].pc = x, ![a].left = l]
    BY DEF Write, WriteUnrecorded
  <2>2. CASE \E d : Throw(a, d)
    BY <1>0, <2>2 DEF Throw, ActorState
  <2>3. CASE \E x, l : act' = [act EXCEPT ![a].pc = x, ![a].left = l]
    BY <1>0, <2>3 DEF ActorState
  <2> QED BY <2>1, <2>2, <2>3
<1>4. Pending' = Pending
  BY <1>1, <1>3, SamePending
<1>5. faults' >= faults
  BY <1>0, <1>1
<1>6. PlanOf(r)' = p /\ ~Full(p)
  BY <1>0, <1>1 DEF PlanOf
<1>7. CASE Full(p)'
  BY <1>1, <1>2, <1>4, <1>5, <1>6, <1>7, LastWriteLands
<1>8. CASE ~Full(p)'
  BY <1>1, <1>2, <1>4, <1>5, <1>6, <1>8, ByteAtomic
<1> QED BY <1>7, <1>8

\* A byte goes back: the first of a full set takes the set back, another is not seen.
LEMMA UndoAtomic ==
  ASSUME Good, Good', PlanAssumption, BoundAssumption, NEW a \in Actor, Undo(a)
  PROVE  AtomicStep
<1>0. /\ act \in [Actor -> ActorState] /\ act[a] \in ActorState /\ faults \in Nat
      /\ act[a].pc = "undo" /\ act[a].pc \in Undoing /\ journal' = journal /\ opCount' = opCount
      /\ faults' = faults \/ faults' = faults + 1
  BY GoodLocal DEF Undo, Undoing, Fault
<1> PICK r \in Pending, p \in Plan : r = act[a].op /\ p = act[a].plan /\ PlanOf(r) = p
  BY <1>0, UndoFacts, RunFacts
<1>1. act[a].left \subseteq DOMAIN p /\ (Full(p) => faults > 0) /\ \A g \in DOMAIN p : p[g].from # p[g].to
  BY <1>0, UndoFacts
<1>2. disk' = disk \/ \E f \in DOMAIN p : disk' = [disk EXCEPT ![f] = p[f].from]
  BY <1>1 DEF Undo
<1>3. \A b \in Actor : act'[b].op = act[b].op
  <2>1. \/ act' = [act EXCEPT ![a].pc = "reread"]
        \/ \E l : act' = [act EXCEPT ![a].pc = "comp", ![a].left = l, ![a].bad = TRUE]
    BY DEF Undo
  <2>2. CASE act' = [act EXCEPT ![a].pc = "reread"]
    BY <1>0, <2>2 DEF ActorState
  <2>3. CASE \E l : act' = [act EXCEPT ![a].pc = "comp", ![a].left = l, ![a].bad = TRUE]
    BY <1>0, <2>3 DEF ActorState
  <2> QED BY <2>1, <2>2, <2>3
<1>4. Pending' = Pending
  BY <1>0, <1>3, SamePending
<1>5. faults' >= faults
  BY <1>0
<1>6. CASE disk' = disk
  BY <1>0, <1>3, <1>5, <1>6, QuietAtomic
<1>7. ASSUME NEW f \in DOMAIN p, disk' = [disk EXCEPT ![f] = p[f].from] PROVE AtomicStep
  <2>1. f \in File /\ disk \in [File -> Content] /\ PlanOf(r)' = p
    BY <1>0, GoodShown, PlanFacts DEF PlanOf
  <2>2. ~Full(p)'
    BY <1>1, <1>7, <2>1 DEF Full, Done
  <2>3. CASE Full(p)
    BY <1>0, <1>1, <1>4, <1>5, <1>7, <2>2, <2>3, FirstUndoTakesBack
  <2>4. CASE ~Full(p)
    BY <1>0, <1>4, <1>5, <1>7, <2>1, <2>2, <2>4, ByteAtomic
  <2> QED BY <2>3, <2>4
<1> QED BY <1>2, <1>6, <1>7

LEMMA RestoreAtomic ==
  ASSUME Good, Good', PlanAssumption, BoundAssumption, NEW a \in Actor, Restore(a)
  PROVE  AtomicStep
<1>0. /\ act \in [Actor -> ActorState] /\ act[a] \in ActorState /\ faults \in Nat
      /\ act[a].pc = "restore" /\ act[a].pc \in Recovering /\ journal' = journal /\ opCount' = opCount
      /\ faults' = faults \/ faults' = faults + 1
  BY GoodLocal DEF Restore, Recovering, Fault
<1>1. act[a].job \in Pending
  BY <1>0, RecoveryFacts DEF Pending
<1> PICK r \in Pending, p \in Plan : r = act[a].job /\ p = act[a].snap.plan /\ PlanOf(r) = p
  BY <1>0, <1>1, RecoveryFacts
<1>2. act[a].left \subseteq DOMAIN p /\ ~Full(p)
  BY <1>0, RecoveryFacts DEF Restoring
<1>3. disk' = disk \/ \E f \in DOMAIN p : disk' = [disk EXCEPT ![f] = p[f].from]
  BY <1>2 DEF Restore
<1>4. \A b \in Actor : act'[b].op = act[b].op
  <2>1. \/ \E n : act' = [act EXCEPT ![a].pc = "settle", ![a].verdict = "unresolved",
                                   ![a].note = n, ![a].left = {}]
        \/ act' = [act EXCEPT ![a].pc = "restored"]
        \/ LeftAsItIs(a)
    BY DEF Restore
  <2>2. CASE \E n : act' = [act EXCEPT ![a].pc = "settle", ![a].verdict = "unresolved",
                                     ![a].note = n, ![a].left = {}]
    BY <1>0, <2>2 DEF ActorState
  <2>3. CASE act' = [act EXCEPT ![a].pc = "restored"]
    BY <1>0, <2>3 DEF ActorState
  <2>4. CASE LeftAsItIs(a)
    BY <1>0, <2>4 DEF LeftAsItIs, ActorState
  <2> QED BY <2>1, <2>2, <2>3, <2>4
<1>5. Pending' = Pending
  BY <1>0, <1>4, SamePending
<1>6. faults' >= faults
  BY <1>0
<1>7. CASE disk' = disk
  BY <1>0, <1>4, <1>6, <1>7, QuietAtomic
<1>8. ASSUME NEW f \in DOMAIN p, disk' = [disk EXCEPT ![f] = p[f].from] PROVE AtomicStep
  <2>1. f \in File /\ disk \in [File -> Content] /\ PlanOf(r)' = p /\ p[f].from # p[f].to
    BY <1>0, GoodShown, PlanFacts DEF PlanOf
  <2>2. ~Full(p)'
    BY <1>8, <2>1 DEF Full, Done
  <2> QED BY <1>0, <1>2, <1>5, <1>6, <1>8, <2>1, <2>2, ByteAtomic
<1> QED BY <1>3, <1>7, <1>8

\* A run lets its operation go: settled over what is already seen, or open as before.
LEMMA EndAtomic ==
  ASSUME Good, Good', PlanAssumption, BoundAssumption, NEW a \in Actor, act[a].op # 0,
         act'[a].op = 0, \A b \in Actor : b # a => act'[b] = act[b],
         disk' = disk, opCount' = opCount, faults' >= faults, OwnRecordOnly(a),
         LET s == journal'[act[a].op].state
         IN  s \in Open \/ (s = "committed" /\ Full(act[a].plan))
                        \/ (s = "aborted" /\ Done(act[a].plan) = {})
  PROVE  AtomicStep
<1>0. /\ Shown /\ Shown' /\ faults \in Nat /\ faults' \in Nat /\ IInv
      /\ journal \in [Op -> Record \cup {NoRecord}]
  BY GoodShown DEF IInv, TypeOK
<1> PICK r \in Pending : r = act[a].op /\ PlanOf(r) = act[a].plan
  BY RunFacts
<1>1. r \in Op /\ \A s \in Op : s # r => journal'[s] = journal[s]
  BY <1>0 DEF OwnRecordOnly, Pending
<1>2. \A s \in Op : PlanOf(s)' = PlanOf(s)
  BY <1>0, <1>1 DEF OwnRecordOnly, PlanOf
<1>3. \A b \in Actor : b # a => act[b].op # r
  BY <1>0 DEF IInv, Live
<1>4. \A s \in Op : s # r => (s \in Pending' <=> s \in Pending)
  <2>1. SUFFICES ASSUME NEW s \in Op, s # r PROVE s \in Pending' <=> s \in Pending
    OBVIOUS
  <2>2. s \in OpenOps' <=> s \in OpenOps
    BY <1>1, <2>1 DEF OpenOps
  <2>3. s # 0
    BY BoundAssumption DEF Op
  <2>4. (\E b \in Actor : act'[b].op = s) <=> \E b \in Actor : act[b].op = s
    BY <2>1, <2>3
  <2> QED BY <2>2, <2>4 DEF Pending
<1>5. r \in Pending' <=> journal'[r].state \in Open
  <2>1. r # 0
    BY <1>1, BoundAssumption DEF Op
  <2>2. ~\E b \in Actor : act'[b].op = r
    BY <1>3, <2>1
  <2> QED BY <1>1, <2>2 DEF Pending, OpenOps
<1>6. Pending \subseteq Op /\ Pending' \subseteq Op
  BY DEF Pending
<1>7. CASE journal'[r].state \in Open
  <2>1. Pending' = Pending
    <3>1. \A s \in Op : s \in Pending' <=> s \in Pending
      BY <1>4, <1>5, <1>7
    <3> QED BY <1>6, <3>1
  <2>2. \A s \in Pending : PlanOf(s)' = PlanOf(s) /\ (Full(PlanOf(s))' <=> Full(PlanOf(s)))
    BY <1>2, <1>6, SameBytes
  <2>3. \A s \in Op \ Pending : journal'[s].state = journal[s].state
    BY <1>1
  <2>4. World' = World /\ Effect' = Effect
    BY <1>0, <2>1, <2>2, <2>3, Unseen
  <2> QED BY <1>0, <2>4, StutterStep
<1>8. CASE journal'[r].state \notin Open
  <2>1. Pending' = Pending \ {r}
    BY <1>4, <1>5, <1>6, <1>8
  <2> QED BY <1>1, <1>2, <1>8, <2>1, LetGo
<1> QED BY <1>7, <1>8

LEMMA LetsGoAtomic ==
  ASSUME Good, Good', PlanAssumption, BoundAssumption, ActorAssumption, NEW a \in Actor,
         Commit(a) \/ TurnFails(a) \/ Compensated(a) \/ CompensatedFails(a)
  PROVE  AtomicStep
<1>1. CASE Commit(a)
  <2>0. /\ act \in [Actor -> ActorState] /\ act[a].pc = "verify" /\ act[a].op # 0 /\ Placed(a)
        /\ disk' = disk /\ opCount' = opCount /\ faults' = faults /\ faults \in Nat
    BY <1>1, GoodLocal DEF Commit, Shaped, Stepping
  <2>1. OwnRecordOnly(a) /\ journal'[act[a].op].state = "committed"
    BY <1>1, <2>0, OwnState DEF Commit, Terminal
  <2>2. act'[a].op = 0 /\ \A b \in Actor : b # a => act'[b] = act[b]
    BY <1>1, <2>0 DEF Commit, ActorState
  <2>3. Full(act[a].plan)
    BY <2>0 DEF Placed, Running
  <2>4. faults' >= faults
    BY <2>0
  <2> QED BY <2>0, <2>1, <2>2, <2>3, <2>4, EndAtomic
<1>2. CASE TurnFails(a)
  <2>0. /\ act \in [Actor -> ActorState] /\ act[a].pc = "threw" /\ act[a].op # 0 /\ Placed(a) /\ IInv
        /\ disk' = disk /\ opCount' = opCount /\ faults' = faults + 1 /\ faults \in Nat
        /\ journal \in [Op -> Record \cup {NoRecord}]
    BY <1>2, GoodLocal DEF TurnFails, PublishFails, Fault, Shaped, Stepping, IInv, TypeOK
  <2>1. OwnRecordOnly(a)
    BY <1>2, TurnRecord
  <2>2. act'[a].op = 0 /\ \A b \in Actor : b # a => act'[b] = act[b]
    BY <1>2, <2>0 DEF TurnFails, ActorState
  <2>3. faults' >= faults
    BY <2>0
  <2>4. act[a].op \in Op /\ act[a].op \in Pending /\ PlanOf(act[a].op) = act[a].plan
    BY <2>0, RunFacts
  <2>5. journal'[act[a].op].state \in Open
        \/ (journal'[act[a].op].state = "committed" /\ Full(act[a].plan))
    <3>1. journal' = journal \/ journal' = [journal EXCEPT ![act[a].op] = Rec(a, "compensating")]
      BY <1>2 DEF TurnFails, PublishFails
    <3>2. CASE journal' = [journal EXCEPT ![act[a].op] = Rec(a, "compensating")]
      BY <2>0, <2>4, <3>2 DEF Rec, Open
    <3>3. CASE journal' = journal /\ act[a].op \in OpenOps
      BY <3>3 DEF OpenOps
    <3>4. CASE journal' = journal /\ act[a].op \notin OpenOps
      BY <2>4, <3>4, CommittedInHand, GoodShown
    <3> QED BY <3>1, <3>2, <3>3, <3>4
  <2> QED BY <2>0, <2>1, <2>2, <2>3, <2>5, EndAtomic
<1>3. CASE Compensated(a) \/ CompensatedFails(a)
  <2>1. /\ act[a].pc = "comp" /\ act[a].op # 0 /\ disk' = disk /\ OwnRecordOnly(a)
        /\ act'[a].op = 0 /\ \A b \in Actor : b # a => act'[b] = act[b]
        /\ ~act[a].bad => Done(act[a].plan) = {}
        /\ faults' >= faults
        /\ \/ journal' = journal
           \/ ~act[a].bad /\ journal' = [journal EXCEPT ![act[a].op].state = "aborted"]
    BY <1>3, CompensatedFacts
  <2>2. opCount' = opCount
    BY <1>3 DEF Compensated, CompensatedFails, Walked
  <2>3. act[a].op \in OpenOps
    BY <2>1, RunFacts
  <2>4. journal'[act[a].op].state \in Open
        \/ (journal'[act[a].op].state = "aborted" /\ Done(act[a].plan) = {})
    <3>1. CASE journal' = journal
      BY <2>3, <3>1 DEF OpenOps
    <3>2. CASE ~act[a].bad /\ journal' = [journal EXCEPT ![act[a].op].state = "aborted"]
      BY <2>1, <3>2, OwnState DEF Terminal
    <3> QED BY <2>1, <3>1, <3>2
  <2> QED BY <2>1, <2>2, <2>4, EndAtomic
<1> QED BY <1>1, <1>2, <1>3

LEMMA SettleAtomic ==
  ASSUME Good, Good', PlanAssumption, BoundAssumption, NEW a \in Actor, Settle(a)
  PROVE  AtomicStep
<1>0. /\ act \in [Actor -> ActorState] /\ disk' = disk /\ opCount' = opCount /\ faults' = faults
      /\ Shown /\ Shown' /\ faults \in Nat /\ faults' \in Nat
      /\ act[a].pc \in Holding
  BY GoodShown, GoodLocal DEF Settle, Holding, Recovering
<1>1. \A b \in Actor : act[b].op = 0 /\ act'[b].op = 0
  <2>1. \A b \in Actor : act[b].op = 0
    BY <1>0, NoRun
  <2> QED BY <1>0, <2>1 DEF Settle, LeftAsItIs, ActorState
<1>2. Pending = OpenOps /\ Pending' = OpenOps'
  <2>1. 0 \notin Op
    BY BoundAssumption DEF Op
  <2> QED BY <1>1, <2>1 DEF Pending, OpenOps
<1>3. PICK r \in OpenOps :
           /\ \A s \in Op : PlanOf(s)' = PlanOf(s)
           /\ \A s \in Op : s # r => journal'[s] = journal[s]
           /\ \/ journal'[r].state = journal[r].state
              \/ journal'[r].state = "committed" /\ Full(PlanOf(r))
              \/ journal'[r].state = "aborted" /\ Done(PlanOf(r)) = {}
  BY SettleFacts
<1>4. faults' >= faults /\ OpenOps \subseteq Op
  BY <1>0 DEF OpenOps
<1>5. CASE journal'[r].state = journal[r].state
  <2>1. Pending' = Pending
    BY <1>2, <1>3, <1>5 DEF OpenOps
  <2>2. \A s \in Pending : PlanOf(s)' = PlanOf(s) /\ (Full(PlanOf(s))' <=> Full(PlanOf(s)))
    BY <1>0, <1>2, <1>3, <1>4, SameBytes
  <2>3. \A s \in Op \ Pending : journal'[s].state = journal[s].state
    BY <1>2, <1>3
  <2>4. World' = World /\ Effect' = Effect
    BY <1>0, <2>1, <2>2, <2>3, Unseen
  <2> QED BY <1>0, <1>4, <2>4, StutterStep
<1>6. CASE journal'[r].state \in {"committed", "aborted"}
  <2>1. Pending' = Pending \ {r}
    BY <1>2, <1>3, <1>6 DEF OpenOps, Open
  <2> QED BY <1>0, <1>2, <1>3, <1>4, <1>6, <2>1, LetGo DEF OpenOps, Open
<1> QED BY <1>3, <1>5, <1>6

\* Settled records go, and only they.
LEMMA CompactAtomic ==
  ASSUME Good, Good', BoundAssumption, NEW a \in Actor, Close(a) \/ SweepEnd(a)
  PROVE  AtomicStep
<1>0. /\ IInv /\ Alone /\ Shown /\ Shown' /\ opCount \in Nat /\ faults \in Nat /\ faults' \in Nat
      /\ CompactJournal /\ disk' = disk /\ opCount' = opCount /\ faults' = faults
      /\ Engaged(a) /\ act[a].op = 0 /\ act \in [Actor -> ActorState] /\ act[a] \in ActorState
  BY GoodShown, GoodLocal DEF Close, SweepEnd, Engaged, Shaped, Stepping, Undoing
<1>1. \A b \in Actor : act'[b].op = act[b].op
  <2>1. (\E o : Return(a, o)) \/ \E x : act' = [act EXCEPT ![a].pc = x]
    BY DEF Close, SweepEnd
  <2>2. CASE \E o : Return(a, o)
    BY <1>0, <2>2 DEF Return, Idle
  <2>3. CASE \E x : act' = [act EXCEPT ![a].pc = x]
    BY <1>0, <2>3 DEF ActorState
  <2> QED BY <2>1, <2>2, <2>3
<1>2. Pending = OpenOps /\ Pending' = Pending /\ \A r \in Pending : r \in Op /\ PlanOf(r)' = PlanOf(r)
  BY <1>0, <1>1, CompactPending DEF Pending
<1>3. \A r \in Op : \/ journal'[r] = journal[r]
                    \/ r \in TerminalOps /\ journal'[r] = NoRecord
  BY <1>0, CompactOps
<1>4. \A r \in Pending : Full(PlanOf(r))' <=> Full(PlanOf(r))
  BY <1>0, <1>2, SameBytes
<1>5. World' = World
  BY <1>0, <1>2, <1>4, SameWorld
<1> DEFINE S == {r \in TerminalOps : journal'[r] = NoRecord}
<1>6. ASSUME NEW r \in Op, r \notin S PROVE Effect'[r] = Effect[r]
  <2>1. CASE r \in Pending
    BY <1>0, <1>2, <1>4, <2>1, SameFull
  <2>2. CASE r \notin Pending
    <3>1. journal'[r] = journal[r]
      BY <1>3, <1>6
    <3> QED BY <1>0, <1>2, <2>2, <3>1, SameGone
  <2> QED BY <2>1, <2>2
<1>7. ASSUME NEW r \in S PROVE r \in Op /\ Effect[r] \in {"kept", "dropped"} /\ Effect'[r] = "forgotten"
  <2>1. /\ r \in Op /\ r \notin Pending /\ journal[r].state \in {"committed", "aborted"}
        /\ journal'[r].state = "none" /\ journal[r] # NoRecord
    BY <1>2, <1>7 DEF TerminalOps, OpenOps, Terminal, Open, NoRecord
  <2>2. ~(r > opCount)
    BY <1>0, <2>1 DEF IInv, Live
  <2>3. Effect[r] \in {"kept", "dropped"}
    BY <1>0, <2>1, <2>2 DEF Shown
  <2>4. Effect'[r] = "forgotten"
    BY <1>0, <1>2, <2>1, <2>2 DEF Shown
  <2> QED BY <2>1, <2>3, <2>4
<1>8. Effect' = [r \in Op |-> IF r \in S THEN "forgotten" ELSE Effect[r]]
  <2>1. Effect' = [r \in Op |-> Effect'[r]]
    BY <1>0 DEF Shown
  <2>2. \A r \in Op : Effect'[r] = IF r \in S THEN "forgotten" ELSE Effect[r]
    BY <1>6, <1>7
  <2> HIDE DEF S
  <2> QED BY <2>1, <2>2
<1>9. S \in SUBSET Op
  BY DEF TerminalOps
<1> HIDE DEF S
<1>10. Atomic!Forget(S)
  BY <1>5, <1>7, <1>8 DEF Atomic!Forget
<1>11. faults' >= faults
  BY <1>0
<1>12. (faults > 0)' \in {faults > 0, TRUE}
  BY <1>0, <1>11, FailedMoves
<1> QED BY <1>9, <1>10, <1>12 DEF AtomicStep, Atomic!Next

\* A process dies: what its run had committed behind its own back is kept.
LEMMA CrashAtomic ==
  ASSUME Good, Good', PlanAssumption, BoundAssumption, NEW q \in Proc, Crash(q)
  PROVE  AtomicStep
<1>0. /\ IInv /\ Alone /\ Tidy /\ UpToDate /\ Shown /\ Shown' /\ faults \in Nat /\ faults' \in Nat
      /\ disk' = disk /\ journal' = journal /\ opCount' = opCount /\ faults' = faults
  BY GoodShown DEF Crash
<1>1. \A b \in Actor : act'[b] = IF ProcOf[b] = q THEN Idle ELSE act[b]
  BY DEF Crash
<1>2. \A b \in Actor : act'[b].op \in {0, act[b].op}
  BY <1>1 DEF Idle
<1>3. OpenOps' = OpenOps /\ Pending' \subseteq Pending /\ \A r \in Op : PlanOf(r)' = PlanOf(r)
  BY <1>0, <1>2, StillPending
<1>4. faults' >= faults /\ Pending \subseteq Op
  BY <1>0 DEF Pending
<1>5. CASE Pending' = Pending
  BY <1>0, <1>4, <1>5, UnseenQuiet, StutterStep
<1>6. CASE Pending' # Pending
  <2>1. PICK r \in Pending : r \notin Pending'
    BY <1>3, <1>6
  <2>2. r \notin OpenOps
    BY <1>3, <2>1 DEF Pending, OpenOps
  <2>3. PICK a \in Actor : act[a].op = r
    BY <2>2, CommittedInHand, <1>0
  <2>4. Full(PlanOf(r)) /\ journal'[r].state = "committed"
    BY <1>0, <2>2, CommittedInHand
  <2>5. r # 0 /\ \A b \in Actor : b # a => act[b].op = 0
    <3>1. r # 0
      BY <1>0, PendingTyped
    <3>2. Engaged(a)
      BY <1>0, <2>3, <3>1, NotEngaged
    <3> QED BY <1>0, <3>1, <3>2, OthersEmpty
  <2>6. ASSUME NEW s \in Pending, s # r PROVE s \in Pending'
    <3>1. s # 0 /\ s \in Op
      BY <1>0, PendingTyped
    <3>2. s \in OpenOps
      BY <2>3, <2>5, <2>6, <3>1 DEF Pending
    <3> QED BY <1>3, <3>1, <3>2 DEF Pending
  <2>7. Pending' = Pending \ {r}
    BY <1>3, <2>1, <2>6
  <2> QED BY <1>0, <1>3, <1>4, <2>4, <2>7, LetGo
<1> QED BY <1>5, <1>6

LEMMA BeginAtomic ==
  ASSUME Good, Good', NEW a \in Actor, NEW p \in Plan, Begin(a, p)
  PROVE  AtomicStep
<1>0. /\ act \in [Actor -> ActorState] /\ Shaped(act[a]) /\ faults \in Nat /\ faults' = faults
      /\ journal' = journal /\ disk' = disk /\ opCount' = opCount /\ act[a].pc = "idle"
  BY GoodLocal DEF Begin
<1>1. act' = [act EXCEPT ![a] = [Idle EXCEPT !.pc = "lock", !.plan = p, !.left = DOMAIN p]]
  BY DEF Begin
<1>2. act[a].op = 0
  BY <1>0 DEF Shaped, Stepping, Undoing
<1>3. \A b \in Actor : act'[b].op = act[b].op
  BY <1>0, <1>1, <1>2 DEF Idle
<1>4. faults' >= faults
  BY <1>0
<1> QED BY <1>0, <1>3, <1>4, QuietAtomic

LEMMA StepAtomic ==
  ASSUME Good, Good', ~VerdictFails, PlanAssumption, BoundAssumption, ActorAssumption,
         NEW a \in Actor, Step(a) \/ Fails(a) \/ Cancel(a)
  PROVE  AtomicStep
<1>1. CASE \/ Lock(a) \/ Cancel(a) \/ LockTimesOut(a) \/ Conclude(a) \/ Boot(a) \/ Sweep(a)
           \/ Inspect(a) \/ RestoreReread(a) \/ Check(a) \/ Stage(a) \/ StageFails(a)
           \/ Compensate(a) \/ Reread(a) \/ Probe(a) \/ Verify(a) \/ WriteFails(a)
  BY <1>1, QuietSteps, QuietAtomic, GoodShown
<1>2. CASE Prepare(a) \/ PrepareFails(a) \/ OpenOp(a) \/ OpenOpFails(a)
  BY <1>2, PrepareAtomic, OpenOpAtomic
<1>3. CASE Apply(a) \/ ApplyFails(a) \/ CommitFails(a) \/ Turn(a) \/ Write(a) \/ WriteUnrecorded(a)
  BY <1>3, RecordsAtomic, WriteAtomic
<1>4. CASE Undo(a) \/ Restore(a) \/ Settle(a) \/ Close(a) \/ SweepEnd(a)
  BY <1>4, UndoAtomic, RestoreAtomic, SettleAtomic, CompactAtomic
<1>5. CASE Commit(a) \/ TurnFails(a) \/ Compensated(a) \/ CompensatedFails(a)
  BY <1>5, LetsGoAtomic
<1>6. ~SettleFails(a)
  BY DEF SettleFails
<1> QED BY <1>1, <1>2, <1>3, <1>4, <1>5, <1>6 DEF Step, Fails

\* changeSetCommit.ts promises that a change set takes effect whole or not at all.  Where
\* no two actors are engaged at once, nobody else writes the files, no run begins on the
\* files of an operation that a failure left open, and recovery can publish its verdicts,
\* it does: with the files of unsettled operations taken as they were planned from until
\* all of them are written, every step, be it a death or a failure of the run (in staging,
\* in a rename, an unlink or a restore, in the publication of its record), is one atomic
\* change of all the targets of one plan, the end of an operation, or no visible step.  A
\* set that is all in place is taken back only behind a failure, whole, and never once its
\* run has let the commit go.  (A run that begins on a half-done set takes what it finds
\* for its own originals; a sweep that overlaps a run, and an edit, may leave a set part
\* planned and part not; a verdict that is not published leaves the next sweep to judge
\* files that others have written since.)
THEOREM ActsAtOnce == ~VerdictFails /\ Spec /\ []Undisturbed => ImplementsAtomic
<1> SUFFICES ASSUME ~VerdictFails PROVE Spec /\ []Undisturbed => ImplementsAtomic
  OBVIOUS
<1>1. Init => Atomic!Init
  <2>1. SUFFICES ASSUME Init PROVE Atomic!Init
    OBVIOUS
  <2>2. OpenOps = {} /\ disk = InitDisk /\ opCount = 0 /\ faults = 0
    BY <2>1 DEF Init, OpenOps, Open, NoRecord
  <2>3. World = InitDisk
    BY <2>2, DiskAssumption DEF World, Unsettled
  <2>4. \A r \in Op : r > opCount
    BY <2>2 DEF Op
  <2>5. Effect = [r \in Op |-> "none"]
    BY <2>4 DEF Effect
  <2>6. (faults > 0) = FALSE
    BY <2>2
  <2> QED BY <2>3, <2>5, <2>6 DEF Atomic!Init
<1>2. Good /\ Good' /\ [Next]_vars => [Atomic!Next]_(Atomic!vars)
  <2>1. SUFFICES ASSUME Good, Good', [Next]_vars PROVE AtomicStep
    BY DEF AtomicStep
  <2>2. CASE UNCHANGED vars
    <3>1. /\ journal' = journal /\ disk' = disk /\ opCount' = opCount /\ faults' = faults
          /\ act' = act /\ faults \in Nat
      BY <2>1, <2>2, GoodShown DEF vars
    <3>2. faults' >= faults
      BY <3>1
    <3> QED BY <2>1, <3>1, <3>2, QuietAtomic
  <2>3. ASSUME NEW a \in Actor, Step(a) \/ Fails(a) \/ Cancel(a) PROVE AtomicStep
    BY <2>1, <2>3, StepAtomic, PlanAssumption, BoundAssumption, ActorAssumption
  <2>4. ASSUME NEW a \in Actor, NEW p \in Plan, Begin(a, p) PROVE AtomicStep
    BY <2>1, <2>4, BeginAtomic
  <2>5. ASSUME NEW p \in Proc, Crash(p) PROVE AtomicStep
    BY <2>1, <2>5, CrashAtomic, PlanAssumption, BoundAssumption
  <2>6. ASSUME NEW f \in File, NEW c \in EditorContent, Edit(f, c) PROVE AtomicStep
    BY <2>1, <2>6 DEF Edit, Good, Undisturbed
  <2> QED BY <2>1, <2>2, <2>3, <2>4, <2>5, <2>6 DEF Next
<1>3. Undisturbed => Alone
  BY DEF Undisturbed
<1>4. IInv /\ UpToDate /\ Tidy /\ Undisturbed => Good
  BY DEF Good
<1>5. Spec /\ []Undisturbed => []Tidy
  BY TidyInvariant
<1>6. Spec /\ []Undisturbed => []Good
  BY <1>3, <1>4, <1>5, Invariance, UpToDateInvariant, PTL
<1> QED BY <1>1, <1>2, <1>6, PTL DEF Spec, ImplementsAtomic, Atomic!Spec

------------------------------------------------------------------------------
(* What is settled leaves no temp *)

\* What an actor has in hand is as far on as its temps: what a run has left to write may
\* have one, what it has written has none, and a verdict is on what has none.
Sweeps(a) ==
  /\ act[a].staged \subseteq Targets(a)
  /\ act[a].pc = "prepared" => temps[act[a].op] \subseteq Targets(a)
  /\ act[a].pc \in {"probe", "write"} => temps[act[a].op] \subseteq act[a].left
  /\ act[a].pc = "verify" => temps[act[a].op] = {}
  /\ act[a].pc \in Recovering => act[a].snap.state \in Open
  /\ act[a].pc \in Recovering /\ (act[a].pc # "settle" \/ act[a].verdict # "unresolved")
       => temps[act[a].job] = {}
  /\ act[a].pc \in Holding => \A e \in act[a].seen : e[2].state \in Open

TempsTold == /\ \A r \in Op : r > opCount => temps[r] = {}
             /\ \A a \in Actor : Sweeps(a)

\* Temps only go, but for those of the operation that is opened.
Fewer == \A r \in Op : temps'[r] \subseteq temps[r]

LEMMA TempsGo ==
  ASSUME IInv, NEW a \in Actor, Step(a) \/ Fails(a) \/ Cancel(a), ~OpenOp(a)
  PROVE  Fewer
<1>0. temps \in [Op -> SUBSET File]
  BY DEF IInv, TypeOK
<1>1. ASSUME NEW r, temps' = [temps EXCEPT ![r] = {}] PROVE Fewer
  BY <1>0, <1>1 DEF Fewer
<1>2. ASSUME NEW r, NEW f, temps' = [temps EXCEPT ![r] = @ \ {f}] PROVE Fewer
  BY <1>0, <1>2 DEF Fewer
<1>3. CASE UNCHANGED temps
  BY <1>3 DEF Fewer
<1>4. CASE Inspect(a)
  <2>1. UNCHANGED temps \/ \E r : DropTemps(r)
    BY <1>4 DEF Inspect
  <2> QED BY <1>1, <1>3, <2>1 DEF DropTemps
<1>5. CASE TurnFails(a) \/ Compensated(a) \/ CompensatedFails(a)
  <2>1. UNCHANGED temps \/ \E r : DropTemps(r)
    BY <1>5 DEF TurnFails, Compensated, CompensatedFails, Walked
  <2> QED BY <1>1, <1>3, <2>1 DEF DropTemps
<1>6. CASE Write(a) \/ WriteUnrecorded(a)
  <2>1. \E r, f : temps' = [temps EXCEPT ![r] = @ \ {f}]
    BY <1>6 DEF Write, WriteUnrecorded, Put
  <2> QED BY <1>2, <2>1
<1>7. CASE \/ Lock(a) \/ Cancel(a) \/ LockTimesOut(a) \/ Conclude(a) \/ Boot(a) \/ Sweep(a)
           \/ RestoreReread(a) \/ Check(a) \/ Stage(a) \/ StageFails(a) \/ Compensate(a)
           \/ Reread(a) \/ Probe(a) \/ Verify(a) \/ WriteFails(a) \/ Close(a) \/ SweepEnd(a)
  <2>1. UNCHANGED temps
    BY <1>7 DEF Lock, Cancel, LockTimesOut, Conclude, Boot, Sweep, Listing, RestoreReread, Check,
                Stage, StageFails, Compensate, Reread, Probe, Verify, WriteFails, Close, SweepEnd
  <2> QED BY <1>3, <2>1
<1>8. CASE \/ Prepare(a) \/ PrepareFails(a) \/ OpenOpFails(a) \/ Apply(a) \/ ApplyFails(a)
           \/ Commit(a) \/ CommitFails(a) \/ Turn(a) \/ Undo(a) \/ Restore(a) \/ Settle(a) \/ SettleFails(a)
  <2>1. UNCHANGED temps
    BY <1>8 DEF Prepare, PrepareFails, OpenOpFails, Apply, ApplyFails, Commit, CommitFails, Turn,
                Undo, Restore, Settle, SettleFails
  <2> QED BY <1>3, <2>1
<1> QED BY <1>4, <1>5, <1>6, <1>7, <1>8 DEF Step, Fails

\* Who does nothing is as far on as before.
LEMMA OthersSweep ==
  ASSUME IInv, NEW b \in Actor, Sweeps(b), act'[b] = act[b],
         \A r \in Op : r <= opCount => temps'[r] \subseteq temps[r]
  PROVE  Sweeps(b)'
<1>1. /\ Shaped(act[b]) /\ Known(act[b]) /\ act[b] \in ActorState /\ opCount \in Nat
  BY Local DEF IInv, TypeOK, Live
<1>2. act[b].op # 0 => temps'[act[b].op] \subseteq temps[act[b].op]
  BY <1>1 DEF Known, ActorState
<1>3. act[b].job # 0 => temps'[act[b].job] \subseteq temps[act[b].job]
  BY <1>1 DEF Known, ActorState
<1>4. /\ act[b].pc \in {"prepared", "probe", "write", "verify"} => act[b].op # 0
      /\ act[b].pc \in Recovering => act[b].job # 0
  BY <1>1 DEF Shaped, Stepping
<1> QED BY <1>2, <1>3, <1>4 DEF Sweeps, Targets

\* An actor that has nothing in hand that its temps could contradict.
LEMMA LooseSweeps ==
  ASSUME NEW a \in Actor, act[a].staged \subseteq Targets(a),
         act'[a].pc \notin {"prepared", "probe", "write", "verify"} \cup Holding,
         \/ act'[a].staged = {}
         \/ act'[a].plan = act[a].plan /\ act'[a].staged = act[a].staged
  PROVE  Sweeps(a)'
<1>1. act'[a].staged \subseteq Targets(a)'
  BY DEF Targets
<1> QED BY <1>1 DEF Sweeps, Holding

\* The parts of a run that come before its record, and behind its last step.
LEMMA FrontSweeps ==
  ASSUME IInv, NEW a \in Actor, Sweeps(a),
         \/ Lock(a) \/ Cancel(a) \/ LockTimesOut(a) \/ Conclude(a) \/ Check(a) \/ Stage(a)
         \/ StageFails(a) \/ Prepare(a) \/ PrepareFails(a) \/ OpenOpFails(a) \/ Close(a)
  PROVE  Sweeps(a)'
<1>0. act \in [Actor -> ActorState] /\ act[a] \in ActorState /\ act[a].staged \subseteq Targets(a) /\ Shaped(act[a])
  BY Local DEF IInv, TypeOK, Sweeps
<1>1. \A o : Return(a, o) => Sweeps(a)'
  <2>1. SUFFICES ASSUME NEW o, Return(a, o) PROVE Sweeps(a)'
    OBVIOUS
  <2>2. act'[a].pc = "idle" /\ act'[a].staged = {}
    BY <1>0, <2>1 DEF Return, Idle
  <2> QED BY <1>0, <2>2, LooseSweeps DEF Holding, Recovering
<1>2. CASE \E o : Return(a, o)
  BY <1>1, <1>2
<1>3. CASE Lock(a)
  <2>1. PICK f : act' = [act EXCEPT ![a].left = @ \ {f},
                                    ![a].pc = IF act[a].left = {f} THEN "start" ELSE "lock"]
    BY <1>3 DEF Lock
  <2>2. act'[a].pc \in {"start", "lock"} /\ act'[a].plan = act[a].plan /\ act'[a].staged = act[a].staged
    BY <1>0, <2>1 DEF ActorState
  <2> QED BY <1>0, <2>2, LooseSweeps DEF Holding, Recovering
<1>4. CASE Stage(a)
  <2>1. /\ act'[a].pc = "staged" /\ act'[a].plan = act[a].plan /\ act'[a].staged = Staged(act[a].plan)
        /\ act[a].plan \in Plan
    BY <1>0, <1>4 DEF Stage, ActorState, Shaped, Recovering
  <2>2. act[a].plan # NoPlan
    BY <2>1, PlanAssumption DEF PlanAssumption
  <2>3. act'[a].staged \subseteq Targets(a)'
    BY <2>1, <2>2 DEF Targets, Staged
  <2> QED BY <2>1, <2>3 DEF Sweeps, Holding, Recovering
<1>5. CASE Check(a) \/ Cancel(a) \/ Conclude(a) \/ Close(a)
  <2>1. (\E o : Return(a, o)) \/ \E n : act' = [act EXCEPT ![a].pc = "checked", ![a].rev = n]
    BY <1>5 DEF Check, Cancel, Conclude, Close
  <2>2. CASE \E n : act' = [act EXCEPT ![a].pc = "checked", ![a].rev = n]
    <3>1. act'[a].pc = "checked" /\ act'[a].plan = act[a].plan /\ act'[a].staged = act[a].staged
      BY <1>0, <2>2 DEF ActorState
    <3> QED BY <1>0, <3>1, LooseSweeps DEF Holding, Recovering
  <2> QED BY <1>2, <2>1, <2>2
<1>6. CASE StageFails(a) \/ LockTimesOut(a) \/ PrepareFails(a) \/ OpenOpFails(a)
  <2>1. \/ act' = [act EXCEPT ![a].pc = "failed"]
        \/ act' = [act EXCEPT ![a].pc = "failed", ![a].staged = {}]
    BY <1>6 DEF StageFails, LockTimesOut, PrepareFails, OpenOpFails
  <2>2. act'[a].pc = "failed" /\ act'[a].plan = act[a].plan /\ act'[a].staged \in {act[a].staged, {}}
    BY <1>0, <2>1 DEF ActorState
  <2> QED BY <1>0, <2>2, LooseSweeps DEF Holding, Recovering
<1>7. CASE Prepare(a)
  <2>1. \/ \E o : Return(a, o)
        \/ act' = [act EXCEPT ![a].pc = "open"]
        \/ \E r : act' = [act EXCEPT ![a].pc = "comp", ![a].job = r, ![a].left = Targets(a),
                                    ![a].snap = journal[r]]
    BY <1>7 DEF Prepare
  <2>2. CASE act' = [act EXCEPT ![a].pc = "open"]
    <3>1. act'[a].pc = "open" /\ act'[a].plan = act[a].plan /\ act'[a].staged = act[a].staged
      BY <1>0, <2>2 DEF ActorState
    <3> QED BY <1>0, <3>1, LooseSweeps DEF Holding, Recovering
  <2>3. CASE \E r : act' = [act EXCEPT ![a].pc = "comp", ![a].job = r, ![a].left = Targets(a),
                                    ![a].snap = journal[r]]
    <3>1. act'[a].pc = "comp" /\ act'[a].plan = act[a].plan /\ act'[a].staged = act[a].staged
      BY <1>0, <2>3 DEF ActorState
    <3> QED BY <1>0, <3>1, LooseSweeps DEF Holding, Recovering
  <2> QED BY <1>2, <2>1, <2>2, <2>3
<1> QED BY <1>3, <1>4, <1>5, <1>6, <1>7

\* Only the run that opens an operation counts one more.
LEMMA OnlyOpens ==
  ASSUME NEW a \in Actor, Step(a) \/ Fails(a) \/ Cancel(a), ~OpenOp(a)
  PROVE  opCount' = opCount \/ OpenOpFails(a)
<1>1. CASE \/ Lock(a) \/ Cancel(a) \/ LockTimesOut(a) \/ Conclude(a) \/ Boot(a) \/ Sweep(a)
           \/ RestoreReread(a) \/ Check(a) \/ Stage(a) \/ StageFails(a) \/ Compensate(a)
           \/ Reread(a) \/ Probe(a) \/ Verify(a) \/ WriteFails(a) \/ Close(a) \/ SweepEnd(a)
  BY <1>1 DEF Lock, Cancel, LockTimesOut, Conclude, Boot, Sweep, Listing, RestoreReread, Check,
              Stage, StageFails, Compensate, Reread, Probe, Verify, WriteFails, Close, SweepEnd
<1>2. CASE \/ Prepare(a) \/ PrepareFails(a) \/ Apply(a) \/ ApplyFails(a) \/ Inspect(a)
           \/ Commit(a) \/ CommitFails(a) \/ Turn(a) \/ Undo(a) \/ Restore(a) \/ Settle(a) \/ SettleFails(a)
  BY <1>2 DEF Prepare, PrepareFails, Apply, ApplyFails, Inspect,
              Commit, CommitFails, Turn, Undo, Restore, Settle, SettleFails
<1>3. CASE \/ TurnFails(a) \/ Compensated(a) \/ CompensatedFails(a) \/ Write(a) \/ WriteUnrecorded(a)
  BY <1>3 DEF TurnFails, Compensated, CompensatedFails, Walked, Write, WriteUnrecorded
<1> QED BY <1>1, <1>2, <1>3 DEF Step, Fails

\* A run that opens its operation and writes.
LEMMA RunSweeps ==
  ASSUME IInv, NEW a \in Actor, Sweeps(a),
         \/ OpenOp(a) \/ Apply(a) \/ ApplyFails(a) \/ Probe(a) \/ Write(a) \/ WriteFails(a)
         \/ WriteUnrecorded(a) \/ Verify(a) \/ Commit(a) \/ CommitFails(a)
  PROVE  Sweeps(a)'
<1>0. /\ act \in [Actor -> ActorState] /\ act[a] \in ActorState /\ act[a].staged \subseteq Targets(a)
      /\ Shaped(act[a]) /\ temps \in [Op -> SUBSET File]
  BY Local DEF IInv, TypeOK, Sweeps
<1>1. CASE OpenOp(a)
  <2>1. PICK r \in Op : temps' = [temps EXCEPT ![r] = act[a].staged]
                        /\ act' = [act EXCEPT ![a].pc = "prepared", ![a].op = r, ![a].staged = {}]
    BY <1>1 DEF OpenOp
  <2>2. /\ act'[a].pc = "prepared" /\ act'[a].op = r /\ act'[a].staged = {}
        /\ act'[a].plan = act[a].plan /\ temps'[r] = act[a].staged
    BY <1>0, <2>1 DEF ActorState
  <2> QED BY <1>0, <2>2 DEF Sweeps, Targets, Holding, Recovering
<1>2. CASE Apply(a)
  <2>1. /\ act'[a].pc = "probe" /\ act'[a].left = Targets(a) /\ act'[a].op = act[a].op
        /\ act'[a].plan = act[a].plan /\ act'[a].staged = act[a].staged
        /\ temps' = temps /\ act[a].pc = "prepared"
    BY <1>0, <1>2 DEF Apply, ActorState
  <2> QED BY <1>0, <2>1 DEF Sweeps, Targets, Holding, Recovering
<1>3. ASSUME NEW x, Throw(a, x) PROVE Sweeps(a)'
  <2>1. act'[a].pc = "threw" /\ act'[a].plan = act[a].plan /\ act'[a].staged = act[a].staged
    BY <1>0, <1>3 DEF Throw, ActorState
  <2> QED BY <1>0, <2>1, LooseSweeps DEF Holding, Recovering
<1>4. CASE ApplyFails(a) \/ WriteFails(a) \/ WriteUnrecorded(a) \/ CommitFails(a)
  BY <1>3, <1>4 DEF ApplyFails, WriteFails, WriteUnrecorded, CommitFails
<1>5. CASE Probe(a)
  <2>1. temps' = temps /\ act[a].pc = "probe"
        /\ ((\E x : Throw(a, x)) \/ act' = [act EXCEPT ![a].pc = "write"])
    BY <1>5 DEF Probe
  <2>2. CASE act' = [act EXCEPT ![a].pc = "write"]
    <3>1. /\ act'[a].pc = "write" /\ act'[a].left = act[a].left /\ act'[a].op = act[a].op
          /\ act'[a].plan = act[a].plan /\ act'[a].staged = act[a].staged
      BY <1>0, <2>2 DEF ActorState
    <3> QED BY <1>0, <2>1, <3>1 DEF Sweeps, Targets, Holding, Recovering
  <2> QED BY <1>3, <2>1, <2>2
<1>6. CASE Write(a)
  <2>1. PICK f \in act[a].left :
             /\ temps' = [temps EXCEPT ![act[a].op] = @ \ {f}]
             /\ act' = [act EXCEPT ![a].pc = IF act[a].left = {f} THEN "verify" ELSE "probe",
                                   ![a].left = IF @ = {f} THEN Targets(a) ELSE @ \ {f}]
    BY <1>6 DEF Write, Put
  <2>2. act[a].pc = "write" /\ act[a].op \in Op
    BY <1>0, <1>6 DEF Write, Shaped, Stepping, ActorState
  <2>3. temps'[act[a].op] = temps[act[a].op] \ {f} /\ temps[act[a].op] \subseteq act[a].left
    BY <1>0, <2>1, <2>2 DEF Sweeps
  <2>4. /\ act'[a].op = act[a].op /\ act'[a].plan = act[a].plan /\ act'[a].staged = act[a].staged
        /\ act'[a].pc = IF act[a].left = {f} THEN "verify" ELSE "probe"
        /\ act'[a].left = IF act[a].left = {f} THEN Targets(a) ELSE act[a].left \ {f}
    BY <1>0, <2>1 DEF ActorState
  <2>5. CASE act[a].left = {f}
    <3>1. act'[a].pc = "verify" /\ temps'[act[a].op] = {}
      BY <2>3, <2>4, <2>5
    <3> QED BY <1>0, <2>4, <3>1 DEF Sweeps, Targets, Holding, Recovering
  <2>6. CASE act[a].left # {f}
    <3>1. act'[a].pc = "probe" /\ temps'[act[a].op] \subseteq act'[a].left
      BY <2>3, <2>4, <2>6
    <3> QED BY <1>0, <2>4, <3>1 DEF Sweeps, Targets, Holding, Recovering
  <2> QED BY <2>5, <2>6
<1>7. CASE Verify(a)
  <2>1. temps' = temps /\ act[a].pc = "verify"
        /\ ((\E x : Throw(a, x)) \/ \E f : act' = [act EXCEPT ![a].left = @ \ {f}])
    BY <1>7 DEF Verify
  <2>2. CASE \E f : act' = [act EXCEPT ![a].left = @ \ {f}]
    <3>1. /\ act'[a].pc = act[a].pc /\ act'[a].op = act[a].op
          /\ act'[a].plan = act[a].plan /\ act'[a].staged = act[a].staged
      BY <1>0, <2>2 DEF ActorState
    <3> QED BY <1>0, <2>1, <3>1 DEF Sweeps, Targets, Holding, Recovering
  <2> QED BY <1>3, <2>1, <2>2
<1>8. CASE Commit(a)
  <2>1. act'[a].pc = "committed" /\ act'[a].plan = act[a].plan /\ act'[a].staged = act[a].staged
    BY <1>0, <1>8 DEF Commit, ActorState
  <2> QED BY <1>0, <2>1, LooseSweeps DEF Holding, Recovering
<1> QED BY <1>1, <1>2, <1>4, <1>5, <1>6, <1>7, <1>8

\* A run that walks back.
LEMMA WalkSweeps ==
  ASSUME IInv, NEW a \in Actor, Sweeps(a),
         \/ Turn(a) \/ TurnFails(a) \/ Compensate(a) \/ Undo(a) \/ Reread(a)
         \/ Compensated(a) \/ CompensatedFails(a)
  PROVE  Sweeps(a)'
<1>0. act \in [Actor -> ActorState] /\ act[a] \in ActorState /\ act[a].staged \subseteq Targets(a)
  BY DEF IInv, TypeOK, Sweeps
<1>1. CASE Turn(a) \/ TurnFails(a)
  <2>1. \/ act' = [act EXCEPT ![a].pc = "comp"]
        \/ act' = [act EXCEPT ![a].pc = "failed", ![a].op = 0, ![a].left = {}]
    BY <1>1 DEF Turn, TurnFails
  <2>2. act'[a].pc \in {"comp", "failed"} /\ act'[a].plan = act[a].plan /\ act'[a].staged = act[a].staged
    BY <1>0, <2>1 DEF ActorState
  <2> QED BY <1>0, <2>2, LooseSweeps DEF Holding, Recovering
<1>2. CASE Compensate(a) \/ Undo(a) \/ Reread(a)
  <2>1. CASE Compensate(a)
    <3>1. /\ act[a].pc = "comp"
          /\ \/ \E f : act' = [act EXCEPT ![a].left = @ \ {f}]
             \/ \E f : act' = [act EXCEPT ![a].left = @ \ {f}, ![a].bad = TRUE]
             \/ act' = [act EXCEPT ![a].pc = "undo"]
      BY <2>1 DEF Compensate
    <3>2. /\ act'[a].pc \in {"comp", "undo"}
          /\ act'[a].plan = act[a].plan /\ act'[a].staged = act[a].staged
      <4>1. CASE \E f : act' = [act EXCEPT ![a].left = @ \ {f}]
        <5>1. PICK f : act' = [act EXCEPT ![a].left = @ \ {f}]
          BY <4>1
        <5>2. act'[a].pc = act[a].pc /\ act'[a].plan = act[a].plan /\ act'[a].staged = act[a].staged
          BY <1>0, <5>1 DEF ActorState
        <5> QED BY <3>1, <5>2
      <4>2. CASE \E f : act' = [act EXCEPT ![a].left = @ \ {f}, ![a].bad = TRUE]
        <5>1. PICK f : act' = [act EXCEPT ![a].left = @ \ {f}, ![a].bad = TRUE]
          BY <4>2
        <5>2. act'[a].pc = act[a].pc /\ act'[a].plan = act[a].plan /\ act'[a].staged = act[a].staged
          BY <1>0, <5>1 DEF ActorState
        <5> QED BY <3>1, <5>2
      <4>3. CASE act' = [act EXCEPT ![a].pc = "undo"]
        BY <1>0, <4>3 DEF ActorState
      <4> QED BY <3>1, <4>1, <4>2, <4>3
    <3> QED BY <1>0, <3>2, LooseSweeps DEF Holding, Recovering
  <2>2. CASE Undo(a)
    <3>1. \/ act' = [act EXCEPT ![a].pc = "reread"]
          \/ \E f : act' = [act EXCEPT ![a].pc = "comp", ![a].left = @ \ {f}, ![a].bad = TRUE]
      BY <2>2 DEF Undo
    <3>2. /\ act'[a].pc \in {"comp", "reread"}
          /\ act'[a].plan = act[a].plan /\ act'[a].staged = act[a].staged
      <4>1. CASE act' = [act EXCEPT ![a].pc = "reread"]
        BY <1>0, <4>1 DEF ActorState
      <4>2. CASE \E f : act' = [act EXCEPT ![a].pc = "comp", ![a].left = @ \ {f}, ![a].bad = TRUE]
        BY <1>0, <4>2 DEF ActorState
      <4> QED BY <3>1, <4>1, <4>2
    <3> QED BY <1>0, <3>2, LooseSweeps DEF Holding, Recovering
  <2>3. CASE Reread(a)
    <3>1. \E f, x : act' = [act EXCEPT ![a].pc = "comp", ![a].left = @ \ {f}, ![a].bad = x]
      BY <2>3 DEF Reread
    <3>2. act'[a].pc = "comp" /\ act'[a].plan = act[a].plan /\ act'[a].staged = act[a].staged
      BY <1>0, <3>1 DEF ActorState
    <3> QED BY <1>0, <3>2, LooseSweeps DEF Holding, Recovering
  <2> QED BY <1>2, <2>1, <2>2, <2>3
<1>3. CASE Compensated(a) \/ CompensatedFails(a)
  <2>1. \E pc \in {"failed", "open"} :
           act' = [act EXCEPT ![a].pc = pc, ![a].op = 0, ![a].job = 0, ![a].snap = NoRecord,
                              ![a].staged = {}]
    BY <1>3 DEF Compensated, CompensatedFails, Walked
  <2>2. act'[a].pc \in {"failed", "open"} /\ act'[a].staged = {}
    BY <1>0, <2>1 DEF ActorState
  <2> QED BY <1>0, <2>2, LooseSweeps DEF Holding, Recovering
<1> QED BY <1>1, <1>2, <1>3

\* What an inspection comes to.
LEMMA InspectForms ==
  ASSUME NEW a \in Actor, Inspect(a)
  PROVE  \E e \in act[a].seen :
           \/ act' = [act EXCEPT ![a].seen = @ \ {e}]
           \/ \E n : Judge(a, e, "settle", "unresolved", n, {})
           \/ /\ DropTemps(e[1])
              /\ \E l : \E pc \in {"settle", "restore"}, v \in {"committed", "aborted"} :
                   Judge(a, e, pc, v, {}, l)
BY DEF Inspect

\* A recovery.
LEMMA SweepSweeps ==
  ASSUME IInv, BoundAssumption, NEW a \in Actor, Sweeps(a),
         \/ Boot(a) \/ Sweep(a) \/ Inspect(a) \/ Restore(a) \/ RestoreReread(a)
         \/ Settle(a) \/ SettleFails(a) \/ SweepEnd(a)
  PROVE  Sweeps(a)'
<1>0. /\ act \in [Actor -> ActorState] /\ act[a] \in ActorState /\ act[a].staged \subseteq Targets(a)
      /\ temps \in [Op -> SUBSET File] /\ Shaped(act[a])
  BY Local DEF IInv, TypeOK, Sweeps
<1>1. CASE Boot(a) \/ Sweep(a)
  <2>1. /\ act'[a].pc = "sweep" /\ act'[a].plan = act[a].plan /\ act'[a].staged = act[a].staged
        /\ act'[a].seen = {<<r, journal[r]>> : r \in OpenOps}
    BY <1>0, <1>1 DEF Boot, Sweep, Listing, ActorState
  <2>2. \A e \in act'[a].seen : e[2].state \in Open
    BY <2>1 DEF OpenOps
  <2> QED BY <1>0, <2>1, <2>2 DEF Sweeps, Targets, Recovering
<1>2. ASSUME act[a].pc \in Holding, LeftAsItIs(a) PROVE Sweeps(a)'
  <2>1. /\ act'[a].pc = "sweep" /\ act'[a].plan = act[a].plan /\ act'[a].staged = act[a].staged
        /\ act'[a].seen = act[a].seen
    BY <1>0, <1>2 DEF LeftAsItIs, ActorState
  <2> QED BY <1>0, <1>2, <2>1 DEF Sweeps, Targets, Recovering
<1>3. CASE Settle(a) \/ SettleFails(a)
  BY <1>2, <1>3 DEF Settle, SettleFails, Holding, Recovering
<1>4. CASE SweepEnd(a)
  <2>1. \E x \in {"idle", "check"} : act' = [act EXCEPT ![a].pc = x]
    BY <1>4 DEF SweepEnd
  <2>2. /\ act'[a].pc \in {"idle", "check"} /\ act'[a].plan = act[a].plan
        /\ act'[a].staged = act[a].staged
    BY <1>0, <2>1 DEF ActorState
  <2> QED BY <1>0, <2>2, LooseSweeps DEF Holding, Recovering
<1>5. CASE Inspect(a)
  <2>0. act[a].pc = "sweep" /\ \A e \in act[a].seen : e[2].state \in Open /\ e[1] \in Op
    BY <1>0, <1>5 DEF Inspect, Sweeps, Holding, ActorState
  <2>1. PICK e \in act[a].seen :
          \/ act' = [act EXCEPT ![a].seen = @ \ {e}]
          \/ \E n : Judge(a, e, "settle", "unresolved", n, {})
          \/ /\ DropTemps(e[1])
             /\ \E l : \E pc \in {"settle", "restore"}, v \in {"committed", "aborted"} :
                  Judge(a, e, pc, v, {}, l)
    BY <1>5, InspectForms
  <2>2. CASE act' = [act EXCEPT ![a].seen = @ \ {e}]
    <3>1. /\ act'[a].pc = "sweep" /\ act'[a].plan = act[a].plan /\ act'[a].staged = act[a].staged
          /\ act'[a].seen = act[a].seen \ {e}
      BY <1>0, <2>0, <2>2 DEF ActorState
    <3> QED BY <1>0, <2>0, <3>1 DEF Sweeps, Targets, Recovering
  <2>3. ASSUME NEW pc \in {"settle", "restore"}, NEW v, NEW n, NEW l, Judge(a, e, pc, v, n, l),
               (pc = "settle" /\ v = "unresolved") \/ DropTemps(e[1])
        PROVE  Sweeps(a)'
    <3>1. /\ act'[a].pc = pc /\ act'[a].job = e[1] /\ act'[a].snap = e[2] /\ act'[a].verdict = v
          /\ act'[a].seen = act[a].seen \ {e} /\ act'[a].plan = act[a].plan
          /\ act'[a].staged = act[a].staged
      BY <1>0, <2>3 DEF Judge, ActorState
    <3>2. DropTemps(e[1]) => temps'[e[1]] = {}
      BY <1>0, <2>0 DEF DropTemps
    <3> QED BY <1>0, <2>0, <2>3, <3>1, <3>2 DEF Sweeps, Targets, Holding, Recovering
  <2> QED BY <2>1, <2>2, <2>3
<1>6. CASE Restore(a) \/ RestoreReread(a)
  <2>1. /\ act[a].pc \in {"restore", "restored"} /\ temps' = temps
        /\ \/ LeftAsItIs(a)
           \/ act' = [act EXCEPT ![a].pc = "restored"]
           \/ \E n : act' = [act EXCEPT ![a].pc = "settle", ![a].verdict = "unresolved",
                                      ![a].note = n, ![a].left = {}]
           \/ \E f : act' = [act EXCEPT ![a].left = @ \ {f},
                                      ![a].pc = IF act[a].left = {f} THEN "settle" ELSE "restore"]
    <3>1. CASE Restore(a)
      BY <3>1 DEF Restore
    <3>2. CASE RestoreReread(a)
      BY <3>2 DEF RestoreReread
    <3> QED BY <1>6, <3>1, <3>2
  <2>2. /\ act[a].pc \in Holding /\ act[a].snap.state \in Open /\ temps[act[a].job] = {}
        /\ \A e \in act[a].seen : e[2].state \in Open
    BY <2>1 DEF Sweeps, Holding, Recovering
  <2>3. CASE LeftAsItIs(a)
    BY <1>2, <2>2, <2>3
  <2>4. CASE ~LeftAsItIs(a)
    <3>1. /\ act'[a].pc \in Recovering /\ act'[a].job = act[a].job /\ act'[a].snap = act[a].snap
          /\ act'[a].seen = act[a].seen /\ act'[a].plan = act[a].plan /\ act'[a].staged = act[a].staged
      <4>1. CASE act' = [act EXCEPT ![a].pc = "restored"]
        BY <1>0, <4>1 DEF ActorState, Recovering
      <4>2. CASE \E n : act' = [act EXCEPT ![a].pc = "settle", ![a].verdict = "unresolved",
                                      ![a].note = n, ![a].left = {}]
        BY <1>0, <4>2 DEF ActorState, Recovering
      <4>3. CASE \E f : act' = [act EXCEPT ![a].left = @ \ {f},
                                      ![a].pc = IF act[a].left = {f} THEN "settle" ELSE "restore"]
        <5>1. PICK f : act' = [act EXCEPT ![a].left = @ \ {f},
                                      ![a].pc = IF act[a].left = {f} THEN "settle" ELSE "restore"]
          BY <4>3
        <5> QED BY <1>0, <5>1 DEF ActorState, Recovering
      <4> QED BY <2>1, <2>4, <4>1, <4>2, <4>3
    <3> QED BY <1>0, <2>1, <2>2, <3>1 DEF Sweeps, Targets, Holding, Recovering
  <2> QED BY <2>3, <2>4
<1> QED BY <1>1, <1>3, <1>4, <1>5, <1>6

\* Behind a step no actor's temps contradict what it has in hand.
LEMMA TempsStep ==
  ASSUME IInv, BoundAssumption, TempsTold, NEW a \in Actor, Step(a) \/ Fails(a) \/ Cancel(a)
  PROVE  TempsTold'
<1>0. /\ \A b \in Actor : b # a => act'[b] = act[b]
      /\ temps \in [Op -> SUBSET File] /\ opCount \in Nat
  BY StepOthers DEF IInv, TypeOK
<1>1. Sweeps(a)'
  <2>1. CASE \/ Lock(a) \/ Cancel(a) \/ LockTimesOut(a) \/ Conclude(a) \/ Check(a) \/ Stage(a)
             \/ StageFails(a) \/ Prepare(a) \/ PrepareFails(a) \/ OpenOpFails(a) \/ Close(a)
    BY <2>1, FrontSweeps DEF TempsTold
  <2>2. CASE \/ OpenOp(a) \/ Apply(a) \/ ApplyFails(a) \/ Probe(a) \/ Write(a) \/ WriteFails(a)
             \/ WriteUnrecorded(a) \/ Verify(a) \/ Commit(a) \/ CommitFails(a)
    BY <2>2, RunSweeps DEF TempsTold
  <2>3. CASE \/ Turn(a) \/ TurnFails(a) \/ Compensate(a) \/ Undo(a) \/ Reread(a)
             \/ Compensated(a) \/ CompensatedFails(a)
    BY <2>3, WalkSweeps DEF TempsTold
  <2>4. CASE \/ Boot(a) \/ Sweep(a) \/ Inspect(a) \/ Restore(a) \/ RestoreReread(a)
             \/ Settle(a) \/ SettleFails(a) \/ SweepEnd(a)
    BY <2>4, SweepSweeps DEF TempsTold
  <2> QED BY <2>1, <2>2, <2>3, <2>4 DEF Step, Fails
<1>2. CASE OpenOp(a)
  <2>1. PICK r \in Op : /\ r = opCount + 1 /\ opCount' = r
                        /\ temps' = [temps EXCEPT ![r] = act[a].staged]
    BY <1>2 DEF OpenOp
  <2>2. \A q \in Op : q # r => temps'[q] = temps[q]
    BY <1>0, <2>1
  <2>3. \A q \in Op : q <= opCount => q # r
    BY <1>0, <2>1
  <2>4. \A q \in Op : q <= opCount => temps'[q] \subseteq temps[q]
    BY <2>2, <2>3
  <2>5. \A b \in Actor : b # a => Sweeps(b)'
    BY <1>0, <2>4, OthersSweep DEF TempsTold
  <2>6. \A q \in Op : q > opCount' => q > opCount /\ q # r
    BY <1>0, <2>1 DEF Op
  <2>7. \A q \in Op : q > opCount' => temps'[q] = {}
    BY <2>2, <2>6 DEF TempsTold
  <2> QED BY <1>1, <2>5, <2>7 DEF TempsTold
<1>3. CASE ~OpenOp(a)
  <2>1. Fewer
    BY <1>3, TempsGo
  <2>2. \A b \in Actor : b # a => Sweeps(b)'
    BY <1>0, <2>1, OthersSweep DEF TempsTold, Fewer
  <2>3. opCount' = opCount \/ OpenOpFails(a)
    BY <1>3, OnlyOpens
  <2>4. opCount' = opCount \/ opCount' = opCount + 1
    BY <2>3 DEF OpenOpFails
  <2>5. \A q \in Op : q > opCount' => q > opCount
    BY <1>0, <2>4 DEF Op
  <2>6. \A q \in Op : q > opCount' => temps'[q] = {}
    BY <2>1, <2>5 DEF TempsTold, Fewer
  <2> QED BY <1>1, <2>2, <2>6 DEF TempsTold
<1> QED BY <1>2, <1>3

\* Who begins or dies has nothing in hand, and temps stay as they are.
LEMMA TempsElse ==
  ASSUME IInv, ActorAssumption, TempsTold, UNCHANGED <<temps, opCount>>,
         \A a \in Actor : \/ act'[a] = act[a]
                          \/ act'[a].pc \in {"idle", "lock"} /\ act'[a].staged = {}
  PROVE  TempsTold'
<1>1. ASSUME NEW a \in Actor PROVE Sweeps(a)'
  <2>1. Sweeps(a) /\ act[a].staged \subseteq Targets(a)
    BY DEF TempsTold, Sweeps
  <2>2. CASE act'[a] = act[a]
    BY <2>1, <2>2, OthersSweep
  <2>3. CASE act'[a].pc \in {"idle", "lock"} /\ act'[a].staged = {}
    BY <2>1, <2>3, LooseSweeps DEF Holding, Recovering
  <2> QED BY <2>2, <2>3
<1> QED BY <1>1 DEF TempsTold

LEMMA TempsInvariant == Spec => []TempsTold
<1>1. Init => TempsTold
  BY DEF Init, TempsTold, Sweeps, Targets, Idle, Holding, Recovering
<1>2. IInv /\ TempsTold /\ [Next]_vars => TempsTold'
  <2>1. SUFFICES ASSUME IInv, TempsTold, [Next]_vars PROVE TempsTold'
    OBVIOUS
  <2>2. CASE UNCHANGED vars
    BY <2>1, <2>2, TempsElse, ActorAssumption DEF vars
  <2>3. ASSUME NEW a \in Actor, Step(a) \/ Fails(a) \/ Cancel(a) PROVE TempsTold'
    BY <2>1, <2>3, TempsStep, BoundAssumption
  <2>4. ASSUME NEW a \in Actor, NEW p \in Plan, Begin(a, p) PROVE TempsTold'
    <3>1. act'[a].pc = "lock" /\ act'[a].staged = {} /\ \A b \in Actor : b # a => act'[b] = act[b]
      BY <2>1, <2>4, Local DEF Begin, Idle
    <3> QED BY <2>1, <2>4, <3>1, TempsElse, ActorAssumption DEF Begin
  <2>5. ASSUME NEW p \in Proc, Crash(p) PROVE TempsTold'
    <3>1. \A a \in Actor : act'[a] = IF ProcOf[a] = p THEN Idle ELSE act[a]
      BY <2>5 DEF Crash
    <3>2. Idle.pc = "idle" /\ Idle.staged = {}
      BY DEF Idle
    <3> HIDE DEF Idle
    <3>3. \A a \in Actor : act'[a] = act[a] \/ (act'[a].pc \in {"idle", "lock"} /\ act'[a].staged = {})
      BY <3>1, <3>2
    <3> QED BY <2>1, <2>5, <3>3, TempsElse, ActorAssumption DEF Crash
  <2>6. ASSUME NEW f \in File, NEW c \in EditorContent, Edit(f, c) PROVE TempsTold'
    BY <2>1, <2>6, TempsElse, ActorAssumption DEF Edit
  <2> QED BY <2>1, <2>2, <2>3, <2>4, <2>5, <2>6 DEF Next
<1> QED BY <1>1, <1>2, Invariance, PTL DEF Spec

\* Who settles an operation: its run with a commit or behind its walk back, or a recovery.
LEMMA SettlesSwept ==
  ASSUME IInv, BoundAssumption, NEW a \in Actor, Step(a) \/ Fails(a) \/ Cancel(a), Sweeps(a),
         NEW r \in OpenOps, r \in TerminalOps', act[a].pc = "comp" => act[a].job # r
  PROVE  temps'[r] = {}
<1>0. /\ act[a] \in ActorState /\ Shaped(act[a]) /\ journal \in [Op -> Record \cup {NoRecord}]
      /\ temps \in [Op -> SUBSET File]
  BY Local DEF IInv, TypeOK
<1>1. /\ r \in Op /\ journal[r].state \in Open /\ journal'[r].state \in Terminal
  BY DEF OpenOps, TerminalOps
<1>2. journal'[r].state \notin Open /\ journal'[r] # journal[r]
  BY <1>1 DEF Open, Terminal
<1>3. \/ Settle(a) \/ SettleFails(a) \/ SweepEnd(a) \/ Close(a)
      \/ Prepare(a) \/ PrepareFails(a) \/ OpenOp(a) \/ OpenOpFails(a)
      \/ Apply(a) \/ ApplyFails(a) \/ Commit(a) \/ CommitFails(a) \/ Turn(a) \/ TurnFails(a)
      \/ Compensated(a) \/ CompensatedFails(a)
  BY <1>2, QuietJournal DEF Step, Fails, Quiet, Boot, Sweep, Listing, Inspect, Stage, StageFails
<1>4. CASE Commit(a) \/ CommitFails(a)
  <2>1. act[a].pc = "verify" /\ temps' = temps /\ \E R : journal' = [journal EXCEPT ![act[a].op] = R]
    BY <1>2, <1>4 DEF Commit, CommitFails, PublishFails
  <2>2. act[a].op = r
    BY <1>0, <1>1, <1>2, <2>1
  <2> QED BY <2>1, <2>2 DEF Sweeps
<1>5. CASE Compensated(a) \/ CompensatedFails(a)
  <2>1. /\ act[a].pc = "comp"
        /\ \E R : journal' = [journal EXCEPT ![IF act[a].job = 0 THEN act[a].op ELSE act[a].job] = R]
        /\ act[a].job = 0 => DropTemps(act[a].op)
    BY <1>2, <1>5 DEF Compensated, CompensatedFails, Walked, PublishFails
  <2>2. r = IF act[a].job = 0 THEN act[a].op ELSE act[a].job
    BY <1>0, <1>1, <1>2, <2>1
  <2>3. act[a].op = r /\ DropTemps(r)
    BY <2>1, <2>2
  <2> QED BY <1>0, <1>1, <2>3 DEF DropTemps
<1>6. CASE Settle(a) \/ SettleFails(a)
  <2>1. /\ act[a].pc = "settle" /\ temps' = temps /\ journal'[r] = Verdicted(a)[r]
        /\ act[a].snap.state \in Open
    BY <1>2, <1>6 DEF Settle, SettleFails, Sweeps, Recovering
  <2>2. act[a].job = r
    BY <1>0, <1>1, <1>2, <2>1 DEF Verdicted
  <2>3. act[a].verdict # "unresolved"
    <3>1. SUFFICES ASSUME act[a].verdict = "unresolved" PROVE FALSE
      OBVIOUS
    <3>2. act[a].snap \in Record /\ act[a].snap.state \notin Terminal
      BY <1>0, <2>1, <2>2 DEF Shaped, Recovering, Op, Open, Terminal
    <3>3. journal'[r] \in {journal[r], [act[a].snap EXCEPT !.note = act[a].note]}
      BY <1>0, <1>1, <2>1, <2>2, <3>1 DEF Verdicted
    <3>4. [act[a].snap EXCEPT !.note = act[a].note].state = act[a].snap.state
      BY <3>2 DEF Record
    <3> QED BY <1>1, <1>2, <3>2, <3>3, <3>4
  <2> QED BY <2>1, <2>2, <2>3 DEF Sweeps, Recovering
<1>7. CASE SweepEnd(a) \/ Close(a)
  <2>1. OpenOps' = OpenOps
    BY <1>7, CompactOps DEF SweepEnd, Close
  <2> QED BY <1>2, <2>1 DEF OpenOps
<1>8. CASE Prepare(a) \/ PrepareFails(a)
  <2>1. PICK q \in OpenOps :
          \/ journal' = [journal EXCEPT ![q].state = "compensating", ![q].note = {}]
          \/ journal' = [journal EXCEPT ![q] = [journal[q] EXCEPT !.state = "compensating", !.note = {}]]
    <3>1. CASE Prepare(a)
      BY <1>2, <3>1 DEF Prepare
    <3>2. CASE PrepareFails(a)
      BY <1>2, <3>2 DEF PrepareFails, Incomplete, First, PublishFails
    <3> QED BY <1>8, <3>1, <3>2
  <2>2. r = q
    BY <1>0, <1>1, <1>2, <2>1
  <2>3. journal[r] \in Record
    BY <1>0, <1>1 DEF NoRecord, Open
  <2>4. CASE journal' = [journal EXCEPT ![q].state = "compensating", ![q].note = {}]
    <3>1. journal'[r].state = "compensating"
      BY <1>0, <1>1, <2>2, <2>3, <2>4 DEF Record
    <3> QED BY <1>2, <3>1 DEF Open
  <2>5. CASE journal' = [journal EXCEPT ![q] = [journal[q] EXCEPT !.state = "compensating", !.note = {}]]
    <3>1. journal'[r] = [journal[r] EXCEPT !.state = "compensating", !.note = {}]
      BY <1>0, <1>1, <2>2, <2>5
    <3>2. journal'[r].state = "compensating"
      BY <2>3, <3>1 DEF Record
    <3> QED BY <1>2, <3>2 DEF Open
  <2> QED BY <2>1, <2>4, <2>5
<1>9. CASE OpenOp(a) \/ OpenOpFails(a) \/ Turn(a) \/ TurnFails(a)
  <2>1. \E q, s : s \in Open /\ journal' = [journal EXCEPT ![q] = Rec(a, s)]
    BY <1>2, <1>9 DEF OpenOp, OpenOpFails, Turn, TurnFails, PublishFails, Open
  <2>2. PICK s \in Open : journal'[r] = Rec(a, s)
    BY <1>0, <1>1, <1>2, <2>1
  <2> QED BY <1>2, <2>2 DEF Rec
<1>10. CASE Apply(a) \/ ApplyFails(a)
  <2>1. journal' = [journal EXCEPT ![act[a].op] = [journal[act[a].op] EXCEPT !.state = "applying"]]
    BY <1>2, <1>10 DEF Apply, ApplyFails, PublishFails
  <2>2. act[a].op = r
    BY <1>0, <1>1, <1>2, <2>1
  <2>3. journal'[r] = [journal[r] EXCEPT !.state = "applying"]
    BY <1>0, <1>1, <2>1, <2>2
  <2>4. journal[r] \in Record
    BY <1>0, <1>1 DEF NoRecord, Open
  <2>5. journal'[r].state = "applying"
    BY <2>3, <2>4 DEF Record
  <2> QED BY <1>2, <2>5 DEF Open
<1> QED BY <1>3, <1>4, <1>5, <1>6, <1>7, <1>8, <1>9, <1>10

\* An operation that is settled leaves none of its staged temps beside the user's files,
\* whoever settles it and whatever failed or died before: its run's commit, its walk back,
\* and a recovery of another process all know the temps they have to see gone.  Only the
\* re-run that settles a dead run's operation under its own key does not, and is left out.
THEOREM NoTempsLeft == Spec => SweptWhenSettled
<1>1. IInv /\ TempsTold /\ [Next]_vars
      => [\A r \in OpenOps : r \in TerminalOps' /\ (\A a \in Actor : act[a].pc = "comp" => act[a].job # r)
            => temps'[r] = {}]_vars
  <2>1. SUFFICES ASSUME IInv, TempsTold, [Next]_vars, NEW r \in OpenOps, r \in TerminalOps',
                        \A a \in Actor : act[a].pc = "comp" => act[a].job # r
                 PROVE  temps'[r] = {}
    OBVIOUS
  <2>2. journal' # journal
    BY <2>1 DEF OpenOps, TerminalOps, Open, Terminal
  <2>3. PICK a \in Actor : Step(a) \/ Fails(a) \/ Cancel(a)
    BY <2>1, <2>2 DEF Next, vars, Begin, Crash, Edit
  <2> QED BY <2>1, <2>3, SettlesSwept, BoundAssumption DEF TempsTold
<1> QED BY <1>1, Invariance, TempsInvariant, PTL DEF Spec, SweptWhenSettled
=============================================================================
