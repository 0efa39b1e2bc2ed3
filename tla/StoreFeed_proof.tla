-------------------------- MODULE StoreFeed_proof --------------------------
(***************************************************************************)
(* Proofs that the file store keeps what it tells its callers (FileStore,  *)
(* with the feed's steps, implements KeptStore) and that its feed never    *)
(* goes back, for any processes, mutations and policies.                   *)
(***************************************************************************)
EXTENDS StoreFeed, TLAPS

File == [state : {"missing", "ready", "damaged"}, rev : Nat, muts : SUBSET Mutation]

LaneState ==
  [queue : SUBSET Mutation, batch : SUBSET Mutation, done : SUBSET Mutation,
   pc : {"idle", "seed", "acquire", "read", "publish", "flush", "release"},
   next : Document, recovery : BOOLEAN]

Runtime == [raw : Document \cup {None}, seen : Nat]

FeedState ==
  [on : BOOLEAN, pc : {"off", "stat", "read", "act"}, moved : BOOLEAN,
   key : File \cup {None}, statKey : File \cup {None}, bytes : File \cup {None},
   first : {"none", "reading", "read"}, firstBytes : File \cup {None},
   passed : BOOLEAN, got : Document \cup {None}, blind : BOOLEAN]

Typed ==
  /\ disk \in File /\ lock \in {"free", "held", "stale"} /\ dropped \subseteq Mutation
  /\ lane \in [Proc -> LaneState] /\ rt \in [Proc -> Runtime] /\ feed \in [Proc -> FeedState]
  /\ outcome \in [Mutation -> {"new", "pending", "resolved", "rejected", "unknown"}]

\* What the store has taken in, a recovery's losses included.
Taken == disk.muts \cup dropped

\* The lock has one holder, who is alive.
Holds(p) == lane[p].pc \in {"read", "publish", "flush", "release"}

Locked ==
  /\ \A p \in Proc : Holds(p) => lock = "held"
  /\ \A p, q \in Proc : Holds(p) /\ Holds(q) => p = q

\* A mutation in a lane awaits its answer, and is taken in with its batch; what a lane is
\* about to publish has all that the file contains.
LaneOK(p) ==
  LET ln == lane[p] IN
  /\ ln.queue \cap ln.batch = {} /\ ln.done \subseteq ln.batch
  /\ \A m \in ln.queue \cup ln.batch : By[m] = p /\ outcome[m] = "pending"
  /\ ln.queue \cap Taken = {}
  /\ ln.pc = "idle" => ln.batch = {}
  /\ ln.pc \in {"seed", "acquire", "read", "publish"} => ln.batch \cap Taken = {}
  /\ ln.pc = "publish" =>
       /\ ln.done # {} /\ ln.done \subseteq ln.next.muts /\ ln.next.muts \subseteq Taken \cup ln.done
       /\ disk.state # "missing"
       /\ ln.recovery \/ disk.muts \subseteq ln.next.muts
  /\ ln.pc \in {"flush", "release"} => ln.done \subseteq Taken
  /\ ln.pc = "flush" => ln.next.muts \subseteq Taken

LanesOK == \A p \in Proc : LaneOK(p)

\* A process knows only of what was taken in.
Known ==
  \A p \in Proc :
    /\ rt[p].raw = None \/ (rt[p].raw \in Document /\ rt[p].raw.muts \subseteq Taken)
    /\ feed[p].pc = "act" => feed[p].bytes \in File /\ feed[p].bytes.muts \subseteq Taken
    /\ feed[p].first = "read" => feed[p].firstBytes \in File

KInv ==
  /\ Typed /\ Locked /\ LanesOK /\ Known
  /\ \A m \in Mutation : outcome[m] = "new" => m \notin Taken
  /\ disk.state = "missing" => disk.muts = {}

\* A step as KeptStore sees it.
KeptStep == [Kept!Next]_(Kept!vars)
------------------------------------------------------------------------------
(* Steps in general *)

LEMMA Types ==
  ASSUME KInv
  PROVE  /\ \A p \in Proc : lane[p] \in LaneState /\ LaneOK(p) /\ rt[p] \in Runtime
                            /\ feed[p] \in FeedState
         /\ disk \in File /\ disk.muts \subseteq Mutation /\ disk.rev \in Nat
         /\ Taken \subseteq Mutation
BY DEF KInv, Typed, LanesOK, File, Taken

\* Process p has moved; its batch may have been taken in.
LEMMA Assemble ==
  ASSUME KInv, NEW p \in Proc, NEW S \in SUBSET lane[p].batch, Taken' = Taken \cup S,
         Typed', Locked', Known', LaneOK(p)',
         \A q \in Proc : q # p => lane'[q] = lane[q],
         \A m \in Mutation : By[m] # p => outcome'[m] = outcome[m],
         \A m \in Mutation : outcome'[m] = "new" => outcome[m] = "new",
         \A q \in Proc : q # p /\ lane[q].pc = "publish" =>
           disk'.state # "missing" /\ disk'.muts = disk.muts,
         disk'.state = "missing" => disk'.muts = {}
  PROVE  KInv'
<1>1. lane[p] \in LaneState /\ LaneOK(p)
  BY Types
<1>2. S \subseteq Mutation /\ \A m \in S : By[m] = p /\ outcome[m] = "pending"
  BY <1>1 DEF LaneState, LaneOK
<1>3. ASSUME NEW q \in Proc, q # p PROVE LaneOK(q)'
  <2>1. LaneOK(q) /\ lane[q] \in LaneState /\ lane'[q] = lane[q]
    BY <1>3, Types
  <2>2. \A m \in lane[q].queue \cup lane[q].batch :
          m \in Mutation /\ By[m] = q /\ outcome[m] = "pending"
    BY <2>1 DEF LaneOK, LaneState
  <2>3. \A m \in lane[q].queue \cup lane[q].batch : m \notin S /\ outcome'[m] = "pending"
    BY <1>2, <1>3, <2>2
  <2>4. /\ lane[q].queue \cap lane[q].batch = {} /\ lane[q].done \subseteq lane[q].batch
        /\ lane[q].queue \cap Taken' = {}
        /\ lane[q].pc \in {"seed", "acquire", "read", "publish"} => lane[q].batch \cap Taken' = {}
    BY <2>1, <2>3 DEF LaneOK
  <2>5. lane[q].pc = "publish" =>
          /\ lane[q].done # {} /\ lane[q].done \subseteq lane[q].next.muts
          /\ lane[q].next.muts \subseteq Taken' \cup lane[q].done
          /\ disk'.state # "missing" /\ (lane[q].recovery \/ disk'.muts \subseteq lane[q].next.muts)
    BY <2>1, <1>3 DEF LaneOK
  <2>6. /\ lane[q].pc = "idle" => lane[q].batch = {}
        /\ lane[q].pc \in {"flush", "release"} => lane[q].done \subseteq Taken'
        /\ lane[q].pc = "flush" => lane[q].next.muts \subseteq Taken'
    BY <2>1 DEF LaneOK
  <2> HIDE DEF Taken
  <2> QED BY <2>1, <2>2, <2>3, <2>4, <2>5, <2>6 DEF LaneOK
<1>4. ASSUME NEW m \in Mutation, outcome'[m] = "new" PROVE m \notin Taken'
  BY <1>2, <1>4 DEF KInv
<1>5. LanesOK'
  BY <1>3 DEF LanesOK
<1> QED BY <1>4, <1>5 DEF KInv

LEMMA KnownGrows ==
  ASSUME KInv, rt' = rt, feed' = feed, Taken \subseteq Taken'
  PROVE  Known'
BY DEF KInv, Known

LEMMA LockKept ==
  ASSUME KInv, NEW p \in Proc, \A q \in Proc : q # p => lane'[q] = lane[q], lock' = lock,
         Holds(p)' => Holds(p)
  PROVE  Locked'
BY DEF KInv, Locked, Holds

\* ... and nothing but its lane and the answers to its callers has changed.
LEMMA Moves ==
  ASSUME KInv, NEW p \in Proc, Typed', Locked', LaneOK(p)',
         \A q \in Proc : q # p => lane'[q] = lane[q],
         disk' = disk, dropped' = dropped, rt' = rt, feed' = feed,
         \A m \in Mutation : By[m] # p => outcome'[m] = outcome[m],
         \A m \in Mutation : outcome'[m] = "new" => outcome[m] = "new"
  PROVE  KInv' /\ Taken' = Taken
<1>1. Taken' = Taken
  BY DEF Taken
<1>2. Taken' = Taken \cup {} /\ {} \in SUBSET lane[p].batch
  BY <1>1
<1>3. Known'
  BY <1>1, KnownGrows
<1>4. /\ \A q \in Proc : q # p /\ lane[q].pc = "publish" =>
            disk'.state # "missing" /\ disk'.muts = disk.muts
      /\ disk'.state = "missing" => disk'.muts = {}
  BY DEF KInv, LanesOK, LaneOK
<1> QED BY <1>1, <1>2, <1>3, <1>4, Assemble

\* Nothing new for the callers.
LEMMA Still ==
  ASSUME Taken' = Taken,
         \A m \in Mutation : outcome'[m] = "resolved" <=> outcome[m] = "resolved"
  PROVE  KeptStep
<1>1. (disk.muts \cup dropped)' = disk.muts \cup dropped
  BY DEF Taken
<1>2. {m \in Mutation : outcome[m] = "resolved"}' = {m \in Mutation : outcome[m] = "resolved"}
  OBVIOUS
<1> QED BY <1>1, <1>2 DEF KeptStep, Kept!vars
------------------------------------------------------------------------------
(* The lane *)

LEMMA DoSubmit ==
  ASSUME KInv, NEW p \in Proc, NEW m \in Mutation, Submit(p, m), UNCHANGED <<feed, subs>>
  PROVE  KInv' /\ KeptStep
<1> DEFINE r == [lane[p] EXCEPT !.queue = @ \cup {m}]
<1>1. /\ By[m] = p /\ outcome[m] = "new" /\ disk' = disk /\ lock' = lock /\ rt' = rt
      /\ dropped' = dropped /\ feed' = feed
      /\ outcome' = [k \in Mutation |-> IF k \in {m} THEN "pending" ELSE outcome[k]]
  BY DEF Submit, Answers
<1>2. lane[p] \in LaneState /\ LaneOK(p)
  BY Types
<1>3. lane' = [lane EXCEPT ![p] = r]
  BY DEF Submit
<1>4. /\ r \in LaneState /\ r.queue = lane[p].queue \cup {m} /\ r.batch = lane[p].batch
      /\ r.done = lane[p].done /\ r.pc = lane[p].pc /\ r.next = lane[p].next
      /\ r.recovery = lane[p].recovery
  BY <1>2 DEF LaneState
<1> HIDE DEF r
<1>5. Typed'
  BY <1>1, <1>3, <1>4 DEF KInv, Typed
<1>6. lane'[p] = r /\ \A q \in Proc : q # p => lane'[q] = lane[q]
  BY <1>3 DEF KInv, Typed
<1>7. Locked'
  BY <1>1, <1>4, <1>6, LockKept DEF Holds
<1>8. Taken' = Taken
  BY <1>1 DEF Taken
<1>10. m \notin Taken /\ m \notin lane[p].batch /\ m \notin lane[p].queue
  BY <1>1, <1>2 DEF KInv, LaneOK
<1>11. LaneOK(p)'
  <2>1. \A k \in r.queue \cup r.batch : By[k] = p /\ outcome'[k] = "pending"
    BY <1>1, <1>2, <1>4 DEF LaneOK, LaneState
  <2> HIDE DEF Taken
  <2> QED BY <1>1, <1>2, <1>4, <1>6, <1>8, <1>10, <2>1 DEF LaneOK
<1>12. KInv'
  <2>1. /\ \A k \in Mutation : By[k] # p => outcome'[k] = outcome[k]
        /\ \A k \in Mutation : outcome'[k] = "new" => outcome[k] = "new"
    BY <1>1
  <2> QED BY <1>1, <1>5, <1>6, <1>7, <1>11, <2>1, Moves
<1>13. KeptStep
  BY <1>1, <1>8, Still
<1> QED BY <1>12, <1>13

LEMMA DoDrain ==
  ASSUME KInv, NEW p \in Proc, Drain(p), UNCHANGED <<feed, subs>>
  PROVE  KInv' /\ KeptStep
<1>1. PICK batch \in Batches(lane[p].queue) :
        lane' = [lane EXCEPT ![p].queue = @ \ batch, ![p].batch = batch,
                             ![p].pc = IF disk.state = "missing" THEN "seed" ELSE "acquire"]
  BY DEF Drain
<1>2. /\ lane[p].pc = "idle" /\ disk' = disk /\ lock' = lock /\ rt' = rt /\ outcome' = outcome
      /\ dropped' = dropped /\ feed' = feed
  BY DEF Drain, At
<1>3. lane[p] \in LaneState /\ LaneOK(p)
  BY Types
<1>4. batch \subseteq lane[p].queue /\ batch \subseteq Mutation
  BY <1>3 DEF Batches, LaneState
<1> DEFINE pc == IF disk.state = "missing" THEN "seed" ELSE "acquire"
           r == [lane[p] EXCEPT !.queue = @ \ batch, !.batch = batch, !.pc = pc]
<1>5. pc \in {"seed", "acquire"}
  OBVIOUS
<1>6. lane' = [lane EXCEPT ![p] = r]
  BY <1>1
<1> HIDE DEF pc
<1>7. /\ r \in LaneState /\ r.queue = lane[p].queue \ batch /\ r.batch = batch
      /\ r.done = lane[p].done /\ r.pc = pc
  BY <1>3, <1>4, <1>5 DEF LaneState
<1> HIDE DEF r
<1>8. Typed'
  BY <1>2, <1>6, <1>7 DEF KInv, Typed
<1>9. lane'[p] = r /\ \A q \in Proc : q # p => lane'[q] = lane[q]
  BY <1>6 DEF KInv, Typed
<1>10. Locked'
  BY <1>2, <1>5, <1>7, <1>9, LockKept DEF Holds
<1>11. LaneOK(p)'
  <2>1. Taken' = Taken /\ lane[p].batch = {} /\ lane[p].done = {} /\ lane[p].queue \cap Taken = {}
        /\ \A m \in lane[p].queue : By[m] = p /\ outcome[m] = "pending"
    BY <1>2, <1>3 DEF LaneOK, Taken
  <2> HIDE DEF Taken
  <2> QED BY <1>2, <1>4, <1>5, <1>7, <1>9, <2>1 DEF LaneOK
<1>12. KInv' /\ Taken' = Taken
  BY <1>2, <1>8, <1>9, <1>10, <1>11, Moves
<1> QED BY <1>2, <1>12, Still

\* The lane goes to another step, and that is all.
LEMMA Goes ==
  ASSUME KInv, NEW p \in Proc, NEW pc \in {"acquire", "read"}, Goto(p, pc),
         lane[p].pc \in {"seed", "acquire"}
  PROVE  /\ lane' \in [Proc -> LaneState] /\ \A q \in Proc : q # p => lane'[q] = lane[q]
         /\ lane'[p].pc = pc
         /\ outcome' = outcome /\ Taken' = Taken => LaneOK(p)'
<1> DEFINE r == [lane[p] EXCEPT !.pc = pc]
<1>1. lane[p] \in LaneState /\ LaneOK(p)
  BY Types
<1>2. lane' = [lane EXCEPT ![p] = r]
  BY DEF Goto
<1>3. /\ r \in LaneState /\ r.queue = lane[p].queue /\ r.batch = lane[p].batch
      /\ r.done = lane[p].done /\ r.pc = pc
  BY <1>1 DEF LaneState
<1> HIDE DEF r
<1>4. lane'[p] = r /\ (\A q \in Proc : q # p => lane'[q] = lane[q]) /\ lane' \in [Proc -> LaneState]
  BY <1>2, <1>3 DEF KInv, Typed
<1>5. ASSUME outcome' = outcome, Taken' = Taken PROVE LaneOK(p)'
  <2>1. /\ lane[p].queue \cap lane[p].batch = {} /\ lane[p].done \subseteq lane[p].batch
        /\ \A m \in lane[p].queue \cup lane[p].batch : By[m] = p /\ outcome[m] = "pending"
        /\ lane[p].queue \cap Taken = {} /\ lane[p].batch \cap Taken = {}
    BY <1>1 DEF LaneOK
  <2> HIDE DEF Taken
  <2> QED BY <1>3, <1>4, <1>5, <2>1 DEF LaneOK
<1> QED BY <1>3, <1>4, <1>5

LEMMA DoSeed ==
  ASSUME KInv, NEW p \in Proc, Seed(p), UNCHANGED <<feed, subs>>
  PROVE  KInv' /\ KeptStep
<1>1. /\ lane[p].pc = "seed" /\ Goto(p, "acquire") /\ lock' = lock /\ rt' = rt
      /\ outcome' = outcome /\ dropped' = dropped /\ feed' = feed
      /\ disk' = IF SeedLands THEN [state |-> "ready", rev |-> 0, muts |-> {}] ELSE disk
  BY DEF Seed, At
<1>2. disk' \in File /\ disk'.muts = disk.muts /\ disk'.state # "missing"
  <2>1. CASE disk.state = "missing"
    BY <1>1, <2>1 DEF KInv, SeedLands, File
  <2>2. CASE disk.state # "missing"
    BY <1>1, <2>2, Types DEF SeedLands
  <2> QED BY <2>1, <2>2
<1>3. Taken' = Taken
  BY <1>1, <1>2 DEF Taken
<1>4. /\ lane' \in [Proc -> LaneState] /\ \A q \in Proc : q # p => lane'[q] = lane[q]
      /\ lane'[p].pc = "acquire" /\ LaneOK(p)'
  BY <1>1, <1>3, Goes
<1>5. Typed'
  BY <1>1, <1>2, <1>4 DEF KInv, Typed
<1>6. Locked'
  BY <1>1, <1>4, LockKept DEF Holds
<1>7. Known'
  BY <1>1, <1>3, KnownGrows
<1>8. Taken' = Taken \cup {} /\ {} \in SUBSET lane[p].batch
  BY <1>3
<1>9. KInv'
  BY <1>1, <1>2, <1>4, <1>5, <1>6, <1>7, <1>8, Assemble
<1> QED BY <1>1, <1>3, <1>9, Still

LEMMA DoAcquire ==
  ASSUME KInv, NEW p \in Proc, Acquire(p), UNCHANGED <<feed, subs>>
  PROVE  KInv' /\ KeptStep
<1>1. /\ lane[p].pc = "acquire" /\ lock # "held" /\ Goto(p, "read") /\ lock' = "held"
      /\ rt' = rt /\ outcome' = outcome /\ dropped' = dropped /\ feed' = feed /\ disk' = disk
  BY DEF Acquire, At
<1>2. Taken' = Taken
  BY <1>1 DEF Taken
<1>3. /\ lane' \in [Proc -> LaneState] /\ \A q \in Proc : q # p => lane'[q] = lane[q]
      /\ LaneOK(p)'
  BY <1>1, <1>2, Goes
<1>4. Typed'
  BY <1>1, <1>3 DEF KInv, Typed
<1>5. Locked'
  BY <1>1, <1>3 DEF KInv, Locked, Holds
<1>6. KInv'
  BY <1>1, <1>3, <1>4, <1>5, Moves
<1> QED BY <1>1, <1>2, <1>6, Still

\* A batch fails: its process lets the lock go next, if it has it.
LEMMA Fails ==
  ASSUME KInv, NEW p \in Proc, NEW pc \in {"idle", "release"}, FailBatch(p, pc),
         pc = "release" => Holds(p), disk' = disk, lock' = lock, rt' = rt, dropped' = dropped,
         feed' = feed
  PROVE  KInv' /\ KeptStep
<1> DEFINE r == Behind(p, pc)
<1>1. /\ outcome' = [m \in Mutation |-> IF m \in lane[p].batch THEN "rejected" ELSE outcome[m]]
      /\ lane' = [lane EXCEPT ![p] = r]
  BY DEF FailBatch, Answers
<1>2. lane[p] \in LaneState /\ LaneOK(p)
  BY Types
<1>3. /\ r \in LaneState /\ r.queue = lane[p].queue /\ r.batch = {} /\ r.done = {} /\ r.pc = pc
  BY <1>2 DEF Behind, IdleLane, LaneState, Empty, Document
<1> HIDE DEF r
<1>4. Typed'
  BY <1>1, <1>3 DEF KInv, Typed
<1>5. lane'[p] = r /\ \A q \in Proc : q # p => lane'[q] = lane[q]
  BY <1>1 DEF KInv, Typed
<1>6. Locked'
  BY <1>3, <1>5, LockKept DEF Holds
<1>7. \A m \in lane[p].batch : By[m] = p /\ outcome[m] = "pending"
  BY <1>2 DEF LaneOK
<1>8. LaneOK(p)'
  <2>1. Taken' = Taken
    BY DEF Taken
  <2>2. \A m \in lane[p].queue : m \in Mutation /\ By[m] = p /\ outcome'[m] = "pending"
    BY <1>1, <1>2 DEF LaneOK, LaneState
  <2>3. lane[p].queue \cap Taken = {}
    BY <1>2 DEF LaneOK
  <2> HIDE DEF Taken
  <2> QED BY <1>3, <1>5, <2>1, <2>2, <2>3 DEF LaneOK
<1>9. /\ \A m \in Mutation : By[m] # p => outcome'[m] = outcome[m]
      /\ \A m \in Mutation : outcome'[m] = "new" => outcome[m] = "new"
      /\ \A m \in Mutation : outcome'[m] = "resolved" <=> outcome[m] = "resolved"
  BY <1>1, <1>7
<1>10. KInv' /\ Taken' = Taken
  BY <1>4, <1>5, <1>6, <1>8, <1>9, Moves
<1> QED BY <1>9, <1>10, Still

LEMMA DoFailures ==
  ASSUME KInv, NEW p \in Proc, AcquireFails(p) \/ PublishFails(p) \/ FlushFails(p),
         UNCHANGED <<feed, subs>>
  PROVE  KInv' /\ KeptStep
<1>1. disk' = disk /\ lock' = lock /\ rt' = rt /\ dropped' = dropped /\ feed' = feed
  BY DEF AcquireFails, PublishFails, FlushFails
<1>2. CASE AcquireFails(p)
  BY <1>1, <1>2, Fails DEF AcquireFails
<1>3. CASE PublishFails(p)
  BY <1>1, <1>3, Fails DEF PublishFails, At, Holds
<1>4. CASE FlushFails(p)
  BY <1>1, <1>4, Fails DEF FlushFails, At, Holds
<1> QED BY <1>2, <1>3, <1>4

\* The mutations are applied to a base that has been taken in.
LEMMA Applies ==
  ASSUME KInv, NEW p \in Proc, NEW base, base.rev \in Nat, base.muts \subseteq Taken,
         NEW recovery \in BOOLEAN, recovery \/ base.muts = disk.muts,
         lane[p].pc = "read", disk.state # "missing", ApplyTo(p, base, recovery),
         disk' = disk, lock' = lock, rt' = rt, outcome' = outcome, dropped' = dropped, feed' = feed
  PROVE  KInv' /\ KeptStep
<1>1. PICK done \in SUBSET lane[p].batch :
        lane' = [lane EXCEPT ![p].done = done,
                             ![p].next = [rev |-> base.rev + 1, muts |-> base.muts \cup done],
                             ![p].recovery = recovery,
                             ![p].pc = IF done = {} THEN "release" ELSE "publish"]
  BY DEF ApplyTo
<1>2. lane[p] \in LaneState /\ LaneOK(p)
  BY Types
<1> DEFINE pc == IF done = {} THEN "release" ELSE "publish"
           next == [rev |-> base.rev + 1, muts |-> base.muts \cup done]
           r == [lane[p] EXCEPT !.done = done, !.next = next, !.recovery = recovery, !.pc = pc]
<1>3. /\ pc \in {"release", "publish"} /\ (pc = "publish" => done # {}) /\ (pc = "release" => done = {})
      /\ next \in Document /\ next.muts = base.muts \cup done /\ done \subseteq Mutation
  BY <1>2, Types DEF Document, LaneState
<1>4. lane' = [lane EXCEPT ![p] = r]
  BY <1>1
<1> HIDE DEF pc, next
<1>5. /\ r \in LaneState /\ r.queue = lane[p].queue /\ r.batch = lane[p].batch /\ r.done = done
      /\ r.next = next /\ r.recovery = recovery /\ r.pc = pc
  BY <1>2, <1>3 DEF LaneState
<1> HIDE DEF r
<1>6. Typed'
  BY <1>4, <1>5 DEF KInv, Typed
<1>7. lane'[p] = r /\ \A q \in Proc : q # p => lane'[q] = lane[q]
  BY <1>4 DEF KInv, Typed
<1>8. Locked'
  BY <1>3, <1>5, <1>7, LockKept DEF Holds
<1>9. LaneOK(p)'
  <2>1. Taken' = Taken
    BY DEF Taken
  <2>2. /\ lane[p].queue \cap lane[p].batch = {}
        /\ \A m \in lane[p].queue \cup lane[p].batch : By[m] = p /\ outcome[m] = "pending"
        /\ lane[p].queue \cap Taken = {} /\ lane[p].batch \cap Taken = {}
    BY <1>2 DEF LaneOK
  <2>3. pc = "publish" =>
          /\ done # {} /\ done \subseteq next.muts /\ next.muts \subseteq Taken \cup done
          /\ recovery \/ disk.muts \subseteq next.muts
    BY <1>3
  <2> HIDE DEF Taken
  <2> QED BY <1>3, <1>5, <1>7, <2>1, <2>2, <2>3 DEF LaneOK
<1>10. KInv' /\ Taken' = Taken
  BY <1>6, <1>7, <1>8, <1>9, Moves
<1> QED BY <1>10, Still

LEMMA DoRead ==
  ASSUME KInv, NEW p \in Proc, Read(p) \/ ReadFails(p), UNCHANGED <<feed, subs>>
  PROVE  KInv' /\ KeptStep
<1>1. CASE Read(p)
  <2>1. /\ lane[p].pc = "read" /\ disk.state # "missing" /\ ApplyTo(p, Bytes, FALSE) /\ disk' = disk
        /\ lock' = lock /\ rt' = rt /\ outcome' = outcome /\ dropped' = dropped /\ feed' = feed
    BY <1>1 DEF Read, At
  <2>2. Bytes.rev \in Nat /\ Bytes.muts = disk.muts /\ Bytes.muts \subseteq Taken
    BY Types DEF Bytes, Taken
  <2> QED BY <2>1, <2>2, Applies
<1>2. CASE ReadFails(p)
  <2>1. /\ lane[p].pc = "read" /\ disk.state # "missing" /\ disk' = disk
        /\ lock' = lock /\ rt' = rt /\ dropped' = dropped /\ feed' = feed
    BY <1>2 DEF ReadFails, At
  <2>2. CASE FailOpen
    <3>1. ApplyTo(p, LastGood(p), TRUE) /\ outcome' = outcome
      BY <1>2, <2>2 DEF ReadFails
    <3>2. LastGood(p).rev \in Nat /\ LastGood(p).muts \subseteq Taken
      <4>1. rt[p].seen \in Nat
        BY Types DEF Runtime
      <4> QED BY <4>1 DEF KInv, Known, LastGood
    <3> QED BY <2>1, <3>1, <3>2, Applies
  <2>3. CASE ~FailOpen
    <3>1. FailBatch(p, "release")
      BY <1>2, <2>3 DEF ReadFails
    <3> QED BY <2>1, <3>1, Fails DEF Holds
  <2> QED BY <2>2, <2>3
<1> QED BY <1>1, <1>2

LEMMA DoPublish ==
  ASSUME KInv, NEW p \in Proc, Publish(p), UNCHANGED <<feed, subs>>
  PROVE  KInv' /\ KeptStep
<1> DEFINE r == [lane[p] EXCEPT !.pc = "flush"]
<1>1. /\ lane[p].pc = "publish" /\ lane' = [lane EXCEPT ![p] = r]
      /\ disk' = [state |-> "ready", rev |-> lane[p].next.rev, muts |-> lane[p].next.muts]
      /\ dropped' = IF lane[p].recovery THEN dropped \cup (disk.muts \ lane[p].next.muts) ELSE dropped
      /\ lock' = lock /\ rt' = rt /\ outcome' = outcome /\ feed' = feed
  BY DEF Publish, At, Goto
<1>2. lane[p] \in LaneState /\ LaneOK(p)
  BY Types
<1>3. /\ r \in LaneState /\ r.queue = lane[p].queue /\ r.batch = lane[p].batch /\ r.next = lane[p].next
      /\ r.done = lane[p].done /\ r.pc = "flush"
  BY <1>2 DEF LaneState
<1> HIDE DEF r
<1>4. lane[p].next \in Document /\ lane[p].next.muts \subseteq Mutation /\ lane[p].next.rev \in Nat
  BY <1>2 DEF LaneState, Document
<1>5. disk' \in File /\ disk'.muts = lane[p].next.muts /\ disk'.state # "missing"
  BY <1>1, <1>4 DEF File
<1>6. dropped' \subseteq Mutation
  BY <1>1, Types DEF KInv, Typed
<1>7. /\ lane[p].done # {} /\ lane[p].done \subseteq lane[p].next.muts
      /\ lane[p].next.muts \subseteq Taken \cup lane[p].done
      /\ lane[p].recovery \/ disk.muts \subseteq lane[p].next.muts
      /\ lane[p].batch \cap Taken = {} /\ lane[p].done \subseteq lane[p].batch
  BY <1>1, <1>2 DEF LaneOK
<1>8. Taken' = Taken \cup lane[p].done
  <2>1. disk'.muts \cup dropped' = lane[p].next.muts \cup disk.muts \cup dropped
    BY <1>1, <1>5, <1>7
  <2>2. Taken' = lane[p].next.muts \cup Taken
    BY <2>1 DEF Taken
  <2> HIDE DEF Taken
  <2> QED BY <1>7, <2>2
<1>9. lane'[p] = r /\ \A q \in Proc : q # p => lane'[q] = lane[q]
  BY <1>1 DEF KInv, Typed
<1>10. Typed'
  BY <1>1, <1>3, <1>5, <1>6 DEF KInv, Typed
<1>11. Locked'
  BY <1>1, <1>9, LockKept DEF Holds
<1>12. Known'
  BY <1>1, <1>8, KnownGrows
<1>13. LaneOK(p)'
  <2>1. /\ lane[p].queue \cap lane[p].batch = {} /\ lane[p].queue \cap Taken = {}
        /\ \A m \in lane[p].queue \cup lane[p].batch : By[m] = p /\ outcome[m] = "pending"
    BY <1>2 DEF LaneOK
  <2> HIDE DEF Taken
  <2> QED BY <1>1, <1>3, <1>7, <1>8, <1>9, <2>1 DEF LaneOK
<1>14. \A q \in Proc : q # p /\ lane[q].pc = "publish" => FALSE
  BY <1>1 DEF KInv, Locked, Holds
<1>15. KInv'
  BY <1>1, <1>5, <1>7, <1>8, <1>9, <1>10, <1>11, <1>12, <1>13, <1>14, Assemble
<1>16. KeptStep
  <2>1. lane[p].done \in SUBSET Mutation
    BY <1>2 DEF LaneState
  <2>2. Kept!Keep(lane[p].done)
    <3>1. lane[p].done \cap (disk.muts \cup dropped) = {}
      BY <1>7 DEF Taken
    <3>2. (disk.muts \cup dropped)' = (disk.muts \cup dropped) \cup lane[p].done
      BY <1>8 DEF Taken
    <3>3. {m \in Mutation : outcome[m] = "resolved"}' = {m \in Mutation : outcome[m] = "resolved"}
      BY <1>1
    <3> QED BY <1>7, <3>1, <3>2, <3>3 DEF Kept!Keep
  <2> QED BY <2>1, <2>2 DEF KeptStep, Kept!Next
<1> QED BY <1>15, <1>16

LEMMA DoBook ==
  ASSUME KInv, NEW p \in Proc, BookAndTell(p) PROVE KInv' /\ KeptStep
<1> DEFINE r == [lane[p] EXCEPT !.pc = "release"]
           seen == IF rt[p].seen > lane[p].next.rev THEN rt[p].seen ELSE lane[p].next.rev
           t == [rt[p] EXCEPT !.raw = lane[p].next, !.seen = seen]
           f == [feed[p] EXCEPT !.moved = TRUE, !.statKey = None]
           g == IF feed[p].on /\ rt[p].raw # lane[p].next
                THEN Told(f, lane[p].next) ELSE f
<1>1. lane[p] \in LaneState /\ LaneOK(p) /\ rt[p] \in Runtime /\ feed[p] \in FeedState
  BY Types
<1>2. /\ lane[p].pc = "flush" /\ lane' = [lane EXCEPT ![p] = r] /\ feed' = [feed EXCEPT ![p] = g]
      /\ disk' = disk /\ lock' = lock /\ outcome' = outcome /\ dropped' = dropped
      /\ rt' = [rt EXCEPT ![p].raw = lane[p].next, ![p].seen = seen]
  BY DEF BookAndTell, Book, At, Goto
<1>3. lane[p].next \in Document /\ lane[p].next.rev \in Nat /\ rt[p].seen \in Nat
  BY <1>1 DEF LaneState, Document, Runtime
<1>4. seen \in Nat
  BY <1>3
<1>5. rt' = [rt EXCEPT ![p] = t]
  BY <1>2
<1> HIDE DEF seen
<1>6. t \in Runtime /\ t.raw = lane[p].next
  BY <1>1, <1>3, <1>4 DEF Runtime
<1> HIDE DEF t
<1>7. /\ r \in LaneState /\ r.queue = lane[p].queue /\ r.batch = lane[p].batch /\ r.done = lane[p].done
      /\ r.pc = "release"
  BY <1>1 DEF LaneState
<1> HIDE DEF r
<1>8. f \in FeedState /\ f.pc = feed[p].pc /\ f.bytes = feed[p].bytes
      /\ f.first = feed[p].first /\ f.firstBytes = feed[p].firstBytes
  BY <1>1 DEF FeedState
<1> HIDE DEF f
<1>9. /\ g \in FeedState /\ g.pc = feed[p].pc /\ g.bytes = feed[p].bytes
      /\ g.first = feed[p].first /\ g.firstBytes = feed[p].firstBytes
  <2>1. /\ Told(f, lane[p].next) \in FeedState
        /\ Told(f, lane[p].next).pc = f.pc
        /\ Told(f, lane[p].next).bytes = f.bytes
        /\ Told(f, lane[p].next).first = f.first
        /\ Told(f, lane[p].next).firstBytes = f.firstBytes
    BY <1>3, <1>8 DEF FeedState, Told
  <2> QED BY <1>8, <2>1
<1> HIDE DEF g
<1>10. Typed'
  BY <1>2, <1>5, <1>6, <1>7, <1>9 DEF KInv, Typed
<1>11. /\ lane'[p] = r /\ \A q \in Proc : q # p => lane'[q] = lane[q]
       /\ \A q \in Proc : rt'[q] = IF q = p THEN t ELSE rt[q]
       /\ \A q \in Proc : feed'[q] = IF q = p THEN g ELSE feed[q]
  BY <1>2, <1>5 DEF KInv, Typed
<1>12. Locked'
  BY <1>2, <1>11, LockKept DEF Holds
<1>13. Taken' = Taken
  BY <1>2 DEF Taken
<1>14. lane[p].next.muts \subseteq Taken /\ lane[p].done \subseteq Taken
  BY <1>1, <1>2 DEF LaneOK
<1>15. Known'
  <2> SUFFICES ASSUME NEW q \in Proc
               PROVE  /\ rt'[q].raw = None \/ (rt'[q].raw \in Document /\ rt'[q].raw.muts \subseteq Taken)
                      /\ feed'[q].pc = "act" => feed'[q].bytes \in File /\ feed'[q].bytes.muts \subseteq Taken
                      /\ feed'[q].first = "read" => feed'[q].firstBytes \in File
    BY <1>13 DEF Known
  <2>1. /\ rt[q].raw = None \/ (rt[q].raw \in Document /\ rt[q].raw.muts \subseteq Taken)
        /\ feed[q].pc = "act" => feed[q].bytes \in File /\ feed[q].bytes.muts \subseteq Taken
        /\ feed[q].first = "read" => feed[q].firstBytes \in File
    BY DEF KInv, Known
  <2> HIDE DEF Taken
  <2> QED BY <1>3, <1>6, <1>9, <1>11, <1>14, <2>1
<1>16. LaneOK(p)'
  <2>1. /\ lane[p].queue \cap lane[p].batch = {} /\ lane[p].done \subseteq lane[p].batch
        /\ \A m \in lane[p].queue \cup lane[p].batch : By[m] = p /\ outcome[m] = "pending"
        /\ lane[p].queue \cap Taken = {}
    BY <1>1 DEF LaneOK
  <2> HIDE DEF Taken
  <2> QED BY <1>2, <1>7, <1>11, <1>13, <1>14, <2>1 DEF LaneOK
<1>17. KInv'
  <2>1. Taken' = Taken \cup {} /\ {} \in SUBSET lane[p].batch
    BY <1>13
  <2>2. /\ \A q \in Proc : q # p /\ lane[q].pc = "publish" =>
              disk'.state # "missing" /\ disk'.muts = disk.muts
        /\ disk'.state = "missing" => disk'.muts = {}
    BY <1>2 DEF KInv, LanesOK, LaneOK
  <2> QED BY <1>2, <1>10, <1>11, <1>12, <1>15, <1>16, <2>1, <2>2, Assemble
<1> QED BY <1>2, <1>13, <1>17, Still

LEMMA DoRelease ==
  ASSUME KInv, NEW p \in Proc, Release(p), UNCHANGED <<feed, subs>>
  PROVE  KInv' /\ KeptStep
<1> DEFINE r == Behind(p, "idle")
<1>1. /\ lane[p].pc = "release" /\ lock' = "free" /\ lane' = [lane EXCEPT ![p] = r]
      /\ outcome' = [m \in Mutation |-> IF m \notin lane[p].batch THEN outcome[m]
                                         ELSE IF m \in lane[p].done THEN "resolved" ELSE "rejected"]
      /\ disk' = disk /\ rt' = rt /\ dropped' = dropped /\ feed' = feed
  BY DEF Release, At
<1>2. lane[p] \in LaneState /\ LaneOK(p)
  BY Types
<1>3. /\ r \in LaneState /\ r.queue = lane[p].queue /\ r.batch = {} /\ r.done = {} /\ r.pc = "idle"
  BY <1>2 DEF Behind, IdleLane, LaneState, Empty, Document
<1> HIDE DEF r
<1>4. Typed'
  BY <1>1, <1>3 DEF KInv, Typed
<1>5. lane'[p] = r /\ \A q \in Proc : q # p => lane'[q] = lane[q]
  BY <1>1 DEF KInv, Typed
<1>6. Locked'
  BY <1>1, <1>3, <1>5 DEF KInv, Locked, Holds
<1>7. /\ \A m \in lane[p].batch : By[m] = p /\ outcome[m] = "pending"
      /\ lane[p].done \subseteq lane[p].batch /\ lane[p].done \subseteq Taken
  BY <1>1, <1>2 DEF LaneOK
<1>8. LaneOK(p)'
  <2>1. Taken' = Taken
    BY <1>1 DEF Taken
  <2>2. \A m \in lane[p].queue : m \in Mutation /\ By[m] = p /\ outcome'[m] = "pending"
    BY <1>1, <1>2 DEF LaneOK, LaneState
  <2>3. lane[p].queue \cap Taken = {}
    BY <1>2 DEF LaneOK
  <2> HIDE DEF Taken
  <2> QED BY <1>3, <1>5, <2>1, <2>2, <2>3 DEF LaneOK
<1>9. /\ \A m \in Mutation : By[m] # p => outcome'[m] = outcome[m]
      /\ \A m \in Mutation : outcome'[m] = "new" => outcome[m] = "new"
  BY <1>1, <1>7
<1>10. KInv'
  BY <1>1, <1>4, <1>5, <1>6, <1>8, <1>9, Moves
<1>11. PICK S \in SUBSET Mutation : S = lane[p].done
  BY <1>2 DEF LaneState
<1>12. Kept!Tell(S)
  <2>1. {m \in Mutation : outcome[m] = "resolved"}' = {m \in Mutation : outcome[m] = "resolved"} \cup S
    <3>1. ASSUME NEW m \in Mutation
          PROVE  outcome'[m] = "resolved" <=> outcome[m] = "resolved" \/ m \in S
      BY <1>1, <1>7, <1>11
    <3> QED BY <3>1, <1>11
  <2>2. (disk.muts \cup dropped)' = disk.muts \cup dropped /\ S \subseteq disk.muts \cup dropped
    BY <1>1, <1>7, <1>11 DEF Taken
  <2> QED BY <2>1, <2>2 DEF Kept!Tell
<1>13. Kept!Next
  BY <1>12 DEF Kept!Next
<1> QED BY <1>10, <1>13 DEF KeptStep
------------------------------------------------------------------------------
(* What happens to the file and to the processes *)

LEMMA DoDamage ==
  ASSUME KInv, Damage, UNCHANGED <<feed, subs>> PROVE KInv' /\ KeptStep
<1>1. /\ disk' = [disk EXCEPT !.state = "damaged"] /\ lock' = lock /\ lane' = lane /\ rt' = rt
      /\ outcome' = outcome /\ dropped' = dropped /\ feed' = feed
  BY DEF Damage
<1>2. disk' \in File /\ disk'.muts = disk.muts /\ disk'.state = "damaged"
  BY <1>1, Types DEF File
<1>3. Taken' = Taken
  BY <1>1, <1>2 DEF Taken
<1>4. Typed'
  BY <1>1, <1>2 DEF KInv, Typed
<1>5. Locked'
  BY <1>1 DEF KInv, Locked, Holds
<1>6. Known'
  BY <1>1, <1>3, KnownGrows
<1>7. LanesOK'
  <2> SUFFICES ASSUME NEW p \in Proc PROVE LaneOK(p)'
    BY DEF LanesOK
  <2>1. LaneOK(p)
    BY Types
  <2> HIDE DEF Taken
  <2> QED BY <1>1, <1>2, <1>3, <2>1 DEF LaneOK
<1>8. KInv'
  BY <1>1, <1>2, <1>3, <1>4, <1>5, <1>6, <1>7 DEF KInv
<1> QED BY <1>1, <1>3, <1>8, Still

LEMMA DoCrash ==
  ASSUME KInv, NEW p \in Proc, CrashAll(p) PROVE KInv' /\ KeptStep
<1>1. /\ outcome' = [m \in Mutation |-> IF m \in lane[p].queue \cup lane[p].batch THEN "unknown"
                                         ELSE outcome[m]]
      /\ lane' = [lane EXCEPT ![p] = IdleLane] /\ rt' = [rt EXCEPT ![p] = NewRuntime]
      /\ feed' = [feed EXCEPT ![p] = NoFeed] /\ disk' = disk /\ dropped' = dropped
      /\ lock' = IF lane[p].pc \in {"idle", "seed", "acquire"} THEN lock ELSE "stale"
  BY DEF CrashAll, Crash, Answers, At
<1>2. lane[p] \in LaneState /\ LaneOK(p)
  BY Types
<1>3. /\ IdleLane \in LaneState /\ IdleLane.queue = {} /\ IdleLane.batch = {} /\ IdleLane.done = {}
      /\ IdleLane.pc = "idle"
  BY DEF IdleLane, LaneState, Empty, Document
<1>4. NewRuntime \in Runtime /\ NewRuntime.raw = None
  BY DEF NewRuntime, Runtime
<1>5. NoFeed \in FeedState /\ NoFeed.pc = "off" /\ NoFeed.first = "none"
  BY DEF NoFeed, FeedState
<1>6. Typed'
  BY <1>1, <1>3, <1>4, <1>5 DEF KInv, Typed
<1>7. /\ lane'[p] = IdleLane /\ \A q \in Proc : q # p => lane'[q] = lane[q]
      /\ \A q \in Proc : rt'[q] = IF q = p THEN NewRuntime ELSE rt[q]
      /\ \A q \in Proc : feed'[q] = IF q = p THEN NoFeed ELSE feed[q]
  BY <1>1 DEF KInv, Typed
<1>8. Locked'
  <2>1. ~Holds(p)' /\ \A q \in Proc : q # p => (Holds(q)' <=> Holds(q))
    BY <1>3, <1>7 DEF Holds
  <2>2. lock' # lock => Holds(p)
    BY <1>1, <1>2 DEF LaneState, Holds
  <2> QED BY <2>1, <2>2 DEF KInv, Locked
<1>9. Taken' = Taken
  BY <1>1 DEF Taken
<1>10. Known'
  BY <1>4, <1>5, <1>7, <1>9 DEF KInv, Known
<1>11. LaneOK(p)'
  BY <1>3, <1>7 DEF LaneOK
<1>12. \A m \in lane[p].queue \cup lane[p].batch : By[m] = p /\ outcome[m] = "pending"
  BY <1>2 DEF LaneOK
<1>13. /\ \A m \in Mutation : By[m] # p => outcome'[m] = outcome[m]
       /\ \A m \in Mutation : outcome'[m] = "new" => outcome[m] = "new"
       /\ \A m \in Mutation : outcome'[m] = "resolved" <=> outcome[m] = "resolved"
  BY <1>1, <1>12
<1>14. KInv'
  <2>1. Taken' = Taken \cup {} /\ {} \in SUBSET lane[p].batch
    BY <1>9
  <2>2. /\ \A q \in Proc : q # p /\ lane[q].pc = "publish" =>
              disk'.state # "missing" /\ disk'.muts = disk.muts
        /\ disk'.state = "missing" => disk'.muts = {}
    BY <1>1 DEF KInv, LanesOK, LaneOK
  <2> QED BY <1>6, <1>7, <1>8, <1>10, <1>11, <1>13, <2>1, <2>2, Assemble
<1> QED BY <1>9, <1>13, <1>14, Still

\* A process listens: its feed and its runtime change, and nothing else.
LEMMA Listens ==
  ASSUME KInv, NEW p \in Proc, NEW g \in FeedState, NEW t \in Runtime,
         feed' = [feed EXCEPT ![p] = g], rt' = [rt EXCEPT ![p] = t],
         t.raw = None \/ (t.raw \in Document /\ t.raw.muts \subseteq Taken),
         g.pc = "act" => g.bytes \in File /\ g.bytes.muts \subseteq Taken,
         g.first = "read" => g.firstBytes \in File,
         disk' = disk, lock' = lock, lane' = lane, outcome' = outcome, dropped' = dropped
  PROVE  KInv' /\ KeptStep
<1>1. Taken' = Taken
  BY DEF Taken
<1>2. Typed'
  BY DEF KInv, Typed
<1>3. Locked'
  BY DEF KInv, Locked, Holds
<1>4. /\ \A q \in Proc : rt'[q] = IF q = p THEN t ELSE rt[q]
      /\ \A q \in Proc : feed'[q] = IF q = p THEN g ELSE feed[q]
  BY DEF KInv, Typed
<1>5. Known'
  <2> HIDE DEF Taken
  <2> QED BY <1>1, <1>4 DEF KInv, Known
<1>6. LanesOK'
  <2> SUFFICES ASSUME NEW q \in Proc PROVE LaneOK(q)'
    BY DEF LanesOK
  <2>1. LaneOK(q)
    BY Types
  <2> HIDE DEF Taken
  <2> QED BY <1>1, <2>1 DEF LaneOK
<1>7. KInv'
  BY <1>1, <1>2, <1>3, <1>5, <1>6 DEF KInv
<1> QED BY <1>1, <1>7, Still

\* A listener that has come, or the read for it, or the beginning of an emission.
LEMMA DoFeeds ==
  ASSUME KInv, NEW p \in Proc,
         \/ Subscribe(p) \/ FirstRead(p) \/ FirstReadFails(p)
         \/ EmitBegin(p) \/ EmitStat(p) \/ EmitRead(p) \/ EmitReadFails(p)
  PROVE  KInv' /\ KeptStep
<1>1. /\ disk' = disk /\ lock' = lock /\ lane' = lane /\ rt' = rt /\ outcome' = outcome
      /\ dropped' = dropped
  BY DEF Subscribe, FirstRead, FirstReadFails, EmitBegin, EmitStat, EmitRead, EmitReadFails, storeVars
<1>2. feed[p] \in FeedState /\ rt[p] \in Runtime /\ disk \in File /\ disk.muts \subseteq Taken
  BY Types DEF Taken
<1>3. /\ rt[p].raw = None \/ (rt[p].raw \in Document /\ rt[p].raw.muts \subseteq Taken)
      /\ feed[p].pc = "act" => feed[p].bytes \in File /\ feed[p].bytes.muts \subseteq Taken
      /\ feed[p].first = "read" => feed[p].firstBytes \in File
  BY DEF KInv, Known
<1>4. \E g \in FeedState :
        /\ feed' = [feed EXCEPT ![p] = g]
        /\ g.pc = "act" => g.bytes \in File /\ g.bytes.muts \subseteq Taken
        /\ g.first = "read" => g.firstBytes \in File
  <2>1. CASE Subscribe(p)
    <3> DEFINE g == [feed[p] EXCEPT !.on = TRUE, !.first = "reading", !.passed = FALSE, !.got = None,
                              !.blind = FALSE]
    <3>1. /\ g \in FeedState /\ g.pc = feed[p].pc /\ g.bytes = feed[p].bytes /\ g.first = "reading"
      BY <1>2 DEF FeedState
    <3>2. feed' = [feed EXCEPT ![p] = g]
      BY <2>1 DEF Subscribe
    <3> HIDE DEF g
    <3> QED BY <1>3, <3>1, <3>2
  <2>2. CASE FirstRead(p)
    <3> DEFINE g == [feed[p] EXCEPT !.first = "read", !.firstBytes = disk]
    <3>1. /\ g \in FeedState /\ g.pc = feed[p].pc /\ g.bytes = feed[p].bytes /\ g.firstBytes = disk
      BY <1>2 DEF FeedState
    <3>2. feed' = [feed EXCEPT ![p] = g]
      BY <2>2 DEF FirstRead
    <3> HIDE DEF g
    <3> QED BY <1>2, <1>3, <3>1, <3>2
  <2>3. CASE EmitBegin(p)
    <3>1. PICK k \in {feed[p].statKey, None} :
            feed' = [feed EXCEPT ![p].pc = "stat", ![p].moved = FALSE, ![p].statKey = k]
      BY <2>3 DEF EmitBegin
    <3> DEFINE g == [feed[p] EXCEPT !.pc = "stat", !.moved = FALSE, !.statKey = k]
    <3>2. k \in File \cup {None}
      BY <1>2 DEF FeedState
    <3>3. /\ g \in FeedState /\ g.pc = "stat" /\ g.first = feed[p].first
          /\ g.firstBytes = feed[p].firstBytes
      BY <1>2, <3>2 DEF FeedState
    <3>4. feed' = [feed EXCEPT ![p] = g]
      BY <3>1
    <3> HIDE DEF g
    <3> QED BY <1>3, <3>3, <3>4
  <2>4. CASE EmitStat(p)
    <3>1. \/ feed' = [feed EXCEPT ![p].pc = "off"]
          \/ feed' = [feed EXCEPT ![p].pc = "read", ![p].key = disk]
      BY <2>4 DEF EmitStat
    <3>2. CASE feed' = [feed EXCEPT ![p].pc = "off"]
      <4> DEFINE g == [feed[p] EXCEPT !.pc = "off"]
      <4>1. /\ g \in FeedState /\ g.pc = "off" /\ g.first = feed[p].first
            /\ g.firstBytes = feed[p].firstBytes
        BY <1>2 DEF FeedState
      <4>2. feed' = [feed EXCEPT ![p] = g]
        BY <3>2
      <4> HIDE DEF g
      <4> QED BY <1>3, <4>1, <4>2
    <3>3. CASE feed' = [feed EXCEPT ![p].pc = "read", ![p].key = disk]
      <4> DEFINE g == [feed[p] EXCEPT !.pc = "read", !.key = disk]
      <4>1. /\ g \in FeedState /\ g.pc = "read" /\ g.first = feed[p].first
            /\ g.firstBytes = feed[p].firstBytes
        BY <1>2 DEF FeedState
      <4>2. feed' = [feed EXCEPT ![p] = g]
        BY <3>3
      <4> HIDE DEF g
      <4> QED BY <1>3, <4>1, <4>2
    <3> QED BY <3>1, <3>2, <3>3
  <2>5. CASE EmitRead(p)
    <3> DEFINE g == [feed[p] EXCEPT !.pc = "act", !.bytes = disk]
    <3>1. /\ g \in FeedState /\ g.bytes = disk /\ g.first = feed[p].first
          /\ g.firstBytes = feed[p].firstBytes
      BY <1>2 DEF FeedState
    <3>2. feed' = [feed EXCEPT ![p] = g]
      BY <2>5 DEF EmitRead
    <3> HIDE DEF g
    <3> QED BY <1>2, <1>3, <3>1, <3>2
  <2>6. CASE FirstReadFails(p)
    <3> DEFINE g == [feed[p] EXCEPT !.first = "none", !.blind = feed[p].blind \/ ~feed[p].passed]
    <3>1. /\ g \in FeedState /\ g.pc = feed[p].pc /\ g.bytes = feed[p].bytes /\ g.first = "none"
      BY <1>2 DEF FeedState
    <3>2. feed' = [feed EXCEPT ![p] = g]
      BY <2>6 DEF FirstReadFails
    <3> HIDE DEF g
    <3> QED BY <1>3, <3>1, <3>2
  <2>7. CASE EmitReadFails(p)
    <3> DEFINE f == [feed[p] EXCEPT !.pc = "off", !.key = None]
               h == [f EXCEPT !.statKey = feed[p].key, !.blind = f.blind \/ rt[p].raw = None]
    <3>1. /\ f \in FeedState /\ f.pc = "off" /\ f.first = feed[p].first
          /\ f.firstBytes = feed[p].firstBytes
      BY <1>2 DEF FeedState
    <3>2. feed' = [feed EXCEPT ![p] = IF GivesUp(p) /\ Remembers(p) THEN h ELSE f]
      BY <2>7 DEF EmitReadFails
    <3> HIDE DEF f
    <3>3. /\ h \in FeedState /\ h.pc = "off" /\ h.first = feed[p].first
          /\ h.firstBytes = feed[p].firstBytes
      BY <1>2, <3>1 DEF FeedState
    <3> HIDE DEF h
    <3>4. feed' = [feed EXCEPT ![p] = f] \/ feed' = [feed EXCEPT ![p] = h]
      BY <3>2
    <3>5. CASE feed' = [feed EXCEPT ![p] = f]
      BY <1>3, <3>1, <3>5
    <3>6. CASE feed' = [feed EXCEPT ![p] = h]
      BY <1>3, <3>3, <3>6
    <3> QED BY <3>4, <3>5, <3>6
  <2> QED BY <2>1, <2>2, <2>3, <2>4, <2>5, <2>6, <2>7
<1>5. rt' = [rt EXCEPT ![p] = rt[p]]
  BY <1>1 DEF KInv, Typed
<1>6. PICK t \in Runtime : t = rt[p]
  BY <1>2
<1> HIDE DEF Taken
<1> QED BY <1>1, <1>3, <1>4, <1>5, <1>6, Listens

LEMMA DoUnsubscribe ==
  ASSUME KInv, NEW p \in Proc, Unsubscribe(p) PROVE KInv' /\ KeptStep
<1> DEFINE g == [feed[p] EXCEPT !.on = FALSE, !.first = "none", !.firstBytes = None, !.statKey = None]
<1>1. /\ disk' = disk /\ lock' = lock /\ lane' = lane /\ outcome' = outcome /\ dropped' = dropped
      /\ feed' = [feed EXCEPT ![p] = g] /\ rt' = [rt EXCEPT ![p] = NewRuntime]
  BY DEF Unsubscribe
<1>2. feed[p] \in FeedState
  BY Types
<1>3. g \in FeedState /\ g.pc = feed[p].pc /\ g.bytes = feed[p].bytes /\ g.first = "none"
  BY <1>2 DEF FeedState
<1> HIDE DEF g
<1>4. feed[p].pc = "act" => feed[p].bytes \in File /\ feed[p].bytes.muts \subseteq Taken
  BY DEF KInv, Known
<1>5. NewRuntime \in Runtime /\ NewRuntime.raw = None
  BY DEF NewRuntime, Runtime
<1> HIDE DEF Taken
<1> QED BY <1>1, <1>3, <1>4, <1>5, Listens

LEMMA DoFirstValue ==
  ASSUME KInv, NEW p \in Proc, FirstValue(p) PROVE KInv' /\ KeptStep
<1> DEFINE bytes == feed[p].firstBytes
           tell  == ~feed[p].passed /\ bytes.state # "damaged"
           doc   == [rev |-> bytes.rev, muts |-> bytes.muts]
           got   == IF tell THEN doc ELSE feed[p].got
           g     == [feed[p] EXCEPT !.first = "none", !.firstBytes = None, !.got = got]
           seen  == IF tell /\ rt[p].seen = 0 THEN bytes.rev ELSE rt[p].seen
           t     == [rt[p] EXCEPT !.seen = seen]
<1>1. /\ disk' = disk /\ lock' = lock /\ lane' = lane /\ outcome' = outcome /\ dropped' = dropped
      /\ feed' = [feed EXCEPT ![p] = g] /\ feed[p].first = "read"
      /\ rt' = IF tell /\ rt[p].seen = 0 THEN [rt EXCEPT ![p].seen = bytes.rev] ELSE rt
  BY DEF FirstValue
<1>2. feed[p] \in FeedState /\ rt[p] \in Runtime
  BY Types
<1>3. /\ bytes \in File
      /\ rt[p].raw = None \/ (rt[p].raw \in Document /\ rt[p].raw.muts \subseteq Taken)
      /\ feed[p].pc = "act" => feed[p].bytes \in File /\ feed[p].bytes.muts \subseteq Taken
  BY <1>1 DEF KInv, Known
<1>4. doc \in Document /\ bytes.rev \in Nat
  BY <1>3 DEF File, Document
<1> HIDE DEF doc, bytes
<1>5. got \in Document \cup {None}
  BY <1>2, <1>4 DEF FeedState
<1> HIDE DEF got
<1>6. g \in FeedState /\ g.pc = feed[p].pc /\ g.bytes = feed[p].bytes /\ g.first = "none"
  BY <1>2, <1>5 DEF FeedState
<1> HIDE DEF g
<1>7. seen \in Nat
  BY <1>2, <1>4 DEF Runtime
<1>8. rt' = [rt EXCEPT ![p] = t]
  BY <1>1, <1>2 DEF KInv, Typed, Runtime
<1> HIDE DEF seen
<1>9. t \in Runtime /\ t.raw = rt[p].raw
  BY <1>2, <1>7 DEF Runtime
<1> HIDE DEF t, Taken
<1> QED BY <1>1, <1>3, <1>6, <1>8, <1>9, Listens

LEMMA DoEmitAct ==
  ASSUME KInv, NEW p \in Proc, EmitAct(p) PROVE KInv' /\ KeptStep
<1> DEFINE bytes == feed[p].bytes
           quiet == rt[p].raw = None /\ bytes = Seeded
           tell  == Emits(p) /\ bytes.state # "damaged" /\ ~quiet
           doc   == [rev |-> bytes.rev, muts |-> bytes.muts]
           key   == IF Remembers(p) THEN feed[p].key ELSE feed[p].statKey
           f     == [feed[p] EXCEPT !.pc = "off", !.bytes = None, !.key = None, !.statKey = key]
           g     == IF tell THEN Told(f, doc) ELSE f
           seen  == Seen(rt[p].seen, bytes.rev)
           told  == [rt[p] EXCEPT !.raw = DocOf(bytes), !.seen = seen]
           t     == IF tell THEN told
                    ELSE IF Emits(p) /\ quiet THEN [rt[p] EXCEPT !.raw = Empty] ELSE rt[p]
<1>1. /\ disk' = disk /\ lock' = lock /\ lane' = lane /\ outcome' = outcome /\ dropped' = dropped
      /\ feed' = [feed EXCEPT ![p] = g] /\ feed[p].pc = "act"
      /\ rt' = IF tell THEN [rt EXCEPT ![p].raw = DocOf(bytes), ![p].seen = Seen(@, bytes.rev)]
               ELSE IF Emits(p) /\ quiet THEN [rt EXCEPT ![p].raw = Empty]
               ELSE rt
  BY DEF EmitAct, Is
<1>2. feed[p] \in FeedState /\ rt[p] \in Runtime
  BY Types
<1>3. /\ bytes \in File /\ bytes.muts \subseteq Taken
      /\ rt[p].raw = None \/ (rt[p].raw \in Document /\ rt[p].raw.muts \subseteq Taken)
      /\ feed[p].first = "read" => feed[p].firstBytes \in File
  BY <1>1 DEF KInv, Known
<1>4. doc \in Document /\ bytes.rev \in Nat /\ Empty \in Document /\ Empty.muts = {}
      /\ (DocOf(bytes) = None \/ DocOf(bytes) = doc) /\ doc.muts = bytes.muts
  BY <1>3 DEF File, Document, Empty, DocOf
<1>5. seen \in Nat
  BY <1>2, <1>4 DEF Seen, Runtime
<1>6. rt' = [rt EXCEPT ![p] = t]
  <2>1. rt = [rt EXCEPT ![p] = rt[p]]
    BY DEF KInv, Typed
  <2>2. [rt EXCEPT ![p].raw = DocOf(bytes), ![p].seen = Seen(@, bytes.rev)] = [rt EXCEPT ![p] = told]
    OBVIOUS
  <2> HIDE DEF told, quiet, bytes
  <2> QED BY <1>1, <2>1, <2>2
<1> HIDE DEF seen, doc, bytes
<1>7. told \in Runtime /\ told.raw = DocOf(bytes)
  BY <1>2, <1>4, <1>5 DEF Runtime
<1>8. [rt[p] EXCEPT !.raw = Empty] \in Runtime /\ [rt[p] EXCEPT !.raw = Empty].raw = Empty
  BY <1>2, <1>4 DEF Runtime
<1> HIDE DEF told
<1>9. t \in Runtime /\ (t.raw = None \/ (t.raw \in Document /\ t.raw.muts \subseteq Taken))
  <2> HIDE DEF Taken, tell, quiet
  <2>1. CASE tell
    BY <2>1, <1>3, <1>4, <1>7
  <2>2. CASE ~tell /\ Emits(p) /\ quiet
    BY <2>2, <1>4, <1>8
  <2>3. CASE ~tell /\ ~(Emits(p) /\ quiet)
    BY <2>3, <1>2, <1>3
  <2> QED BY <2>1, <2>2, <2>3
<1>10. key \in File \cup {None}
  BY <1>2 DEF FeedState
<1> HIDE DEF key
<1>11. /\ f \in FeedState /\ f.pc = "off" /\ f.first = feed[p].first
       /\ f.firstBytes = feed[p].firstBytes
  BY <1>2, <1>10 DEF FeedState
<1> HIDE DEF f
<1>12. /\ Told(f, doc) \in FeedState
       /\ Told(f, doc).pc = "off"
       /\ Told(f, doc).first = feed[p].first
       /\ Told(f, doc).firstBytes = feed[p].firstBytes
  BY <1>4, <1>11 DEF FeedState, Told
<1>13. /\ g \in FeedState /\ g.pc = "off" /\ g.first = feed[p].first
       /\ g.firstBytes = feed[p].firstBytes
  <2> HIDE DEF tell
  <2> QED BY <1>11, <1>12
<1> HIDE DEF g, t, Taken
<1> QED BY <1>1, <1>3, <1>6, <1>9, <1>13, Listens
------------------------------------------------------------------------------
(* The theorem *)

LEMMA KInvInit == FeedInit => KInv /\ Kept!Init
<1> SUFFICES ASSUME FeedInit PROVE KInv /\ Kept!Init
  OBVIOUS
<1>1. /\ disk = [state |-> "missing", rev |-> 0, muts |-> {}] /\ lock = "free" /\ dropped = {}
      /\ lane = [p \in Proc |-> IdleLane] /\ rt = [p \in Proc |-> NewRuntime]
      /\ outcome = [m \in Mutation |-> "new"] /\ feed = [p \in Proc |-> NoFeed]
  BY DEF FeedInit, Init
<1>2. disk \in File /\ disk.muts = {} /\ Taken = {}
  BY <1>1 DEF File, Taken
<1>3. IdleLane \in LaneState /\ NewRuntime \in Runtime /\ NoFeed \in FeedState
  BY DEF IdleLane, LaneState, Empty, Document, NewRuntime, Runtime, NoFeed, FeedState
<1>4. Typed
  BY <1>1, <1>2, <1>3 DEF Typed
<1>5. Locked /\ Known
  BY <1>1 DEF Locked, Holds, Known, IdleLane, NewRuntime, NoFeed
<1>6. LanesOK
  BY <1>1 DEF LanesOK, LaneOK, IdleLane
<1>7. KInv
  BY <1>2, <1>4, <1>5, <1>6 DEF KInv
<1>8. Kept!Init
  BY <1>1, <1>2 DEF Kept!Init
<1> QED BY <1>7, <1>8

LEMMA KInvNext ==
  ASSUME KInv, [Next]_vars PROVE KInv' /\ KeptStep
<1>1. ASSUME NEW p \in Proc, Quiet(p), UNCHANGED <<feed, subs>> PROVE KInv' /\ KeptStep
  BY <1>1, DoDrain, DoSeed, DoAcquire, DoFailures, DoRead, DoPublish, DoRelease DEF Quiet
<1>2. ASSUME NEW p \in Watcher, Listen(p) PROVE KInv' /\ KeptStep
  <2>1. p \in Proc
    BY FeedAssumption
  <2> QED BY <1>2, <2>1, DoFeeds, DoUnsubscribe, DoFirstValue, DoEmitAct DEF Listen
<1>3. CASE UNCHANGED vars
  <2>1. /\ disk' = disk /\ lock' = lock /\ lane' = lane /\ rt' = rt /\ outcome' = outcome
        /\ dropped' = dropped /\ feed' = feed
    BY <1>3 DEF vars, storeVars
  <2>2. Taken' = Taken
    BY <2>1 DEF Taken
  <2>3. Typed' /\ Locked' /\ Known'
    BY <2>1, <2>2, KnownGrows DEF KInv, Typed, Locked, Holds
  <2>4. LanesOK'
    BY <2>1, <2>2 DEF KInv, LanesOK, LaneOK
  <2>5. KInv'
    BY <2>1, <2>2, <2>3, <2>4 DEF KInv
  <2> QED BY <2>1, <2>2, <2>5, Still
<1> QED BY <1>1, <1>2, <1>3, DoSubmit, DoBook, DoCrash, DoDamage DEF Next

\* For any processes, mutations, policies and faults: the store with its lanes and feeds
\* implements KeptStore.  What a batch publishes is taken in once, its callers are told
\* `resolved` only behind the rename, and nothing that was taken in is lost but by a
\* recovery (groupCommitLane, readForMutate, publish).
THEOREM StoreKeeps == Spec => KeepsWhatItTold
<1>1. KInv /\ [Next]_vars => KInv' /\ [Kept!Next]_(Kept!vars)
  BY KInvNext DEF KeptStep
<1> QED BY <1>1, KInvInit, PTL DEF Spec, KeepsWhatItTold, Kept!Spec
------------------------------------------------------------------------------
(* The feed *)

\* A document that was published no later than the one in the file.
NotAhead(d) == d.rev <= disk.rev /\ (d.muts = disk.muts => d.rev = disk.rev)

\* What a process knows, and what the emission under way has read, is not ahead of the
\* file; what was read and not overtaken by a publication is not behind what is known.
Knows(p) ==
  /\ rt[p].seen <= disk.rev
  /\ rt[p].raw # None => NotAhead(rt[p].raw) /\ rt[p].raw.rev <= rt[p].seen
  /\ feed[p].pc = "act" =>
       /\ NotAhead(feed[p].bytes)
       /\ ~feed[p].moved /\ rt[p].raw # None => rt[p].raw.rev <= feed[p].bytes.rev
  /\ feed[p].first = "read" => feed[p].firstBytes.rev <= disk.rev

\* A publication that loses nothing has a higher revision than the file's.
Forward(p) ==
  /\ lane[p].pc = "publish" /\ disk.muts \subseteq lane[p].next.muts => disk.rev < lane[p].next.rev
  /\ lane[p].pc = "flush" => disk.rev = lane[p].next.rev /\ disk.muts = lane[p].next.muts

Chained == dropped = {} =>
  /\ disk.muts = {} => disk.rev = 0
  /\ \A p \in Proc : Knows(p) /\ Forward(p)

\* Until something is emitted or the first read has told it, a listener knows nothing.
Unasked == \A p \in Proc : feed[p].first # "none" /\ ~feed[p].passed => feed[p].got = None

FInv == KInv /\ Chained /\ Unasked

LEMMA Numbers ==
  ASSUME KInv
  PROVE  /\ disk.rev \in Nat
         /\ \A p \in Proc :
              /\ rt[p].seen \in Nat /\ lane[p].next.rev \in Nat /\ lane[p].next \in Document
              /\ rt[p].raw # None => rt[p].raw \in Document /\ rt[p].raw.rev \in Nat
              /\ feed[p].pc = "act" => feed[p].bytes.rev \in Nat
              /\ feed[p].first = "read" => feed[p].firstBytes.rev \in Nat
<1>1. \A d \in Document : d.rev \in Nat
  BY DEF Document
<1>2. \A b \in File : b.rev \in Nat
  BY DEF File
<1> QED BY <1>1, <1>2, Types DEF KInv, Known, Runtime, LaneState

\* One process moves, and the file's document stays.
LEMMA OneMoves ==
  ASSUME FInv, NEW p \in Proc, dropped' = dropped,
         dropped = {} => disk'.rev = disk.rev /\ disk'.muts = disk.muts,
         \A q \in Proc : q # p => lane'[q] = lane[q] /\ rt'[q] = rt[q] /\ feed'[q] = feed[q],
         dropped = {} => Knows(p)' /\ Forward(p)',
         feed'[p].first # "none" /\ ~feed'[p].passed => feed'[p].got = None
  PROVE  Chained' /\ Unasked'
<1>1. ASSUME dropped = {}, NEW q \in Proc, q # p PROVE Knows(q)' /\ Forward(q)'
  BY <1>1 DEF FInv, Chained, Knows, Forward, NotAhead
<1>2. Chained'
  BY <1>1 DEF FInv, Chained
<1>3. Unasked'
  BY DEF FInv, Unasked
<1> QED BY <1>2, <1>3

\* Its lane moves on, not to publish or behind the publication.
LEMMA LaneMoves ==
  ASSUME FInv, NEW p \in Proc, dropped' = dropped, rt' = rt, feed' = feed,
         dropped = {} => disk'.rev = disk.rev /\ disk'.muts = disk.muts,
         \A q \in Proc : q # p => lane'[q] = lane[q],
         dropped = {} => Forward(p)'
  PROVE  Chained' /\ Unasked'
<1>1. dropped = {} => Knows(p)'
  BY DEF FInv, Chained, Knows, NotAhead
<1>2. feed'[p].first # "none" /\ ~feed'[p].passed => feed'[p].got = None
  BY DEF FInv, Unasked
<1> QED BY <1>1, <1>2, OneMoves

LEMMA FeedSubmit ==
  ASSUME FInv, NEW p \in Proc, NEW m \in Mutation, Submit(p, m), UNCHANGED <<feed, subs>>
  PROVE  Chained' /\ Unasked'
<1>1. lane \in [Proc -> LaneState]
  BY DEF FInv, KInv, Typed
<1>2. /\ disk' = disk /\ dropped' = dropped /\ rt' = rt /\ feed' = feed
      /\ \A q \in Proc : q # p => lane'[q] = lane[q]
      /\ lane'[p].pc = lane[p].pc /\ lane'[p].next = lane[p].next
  BY <1>1 DEF Submit, LaneState
<1>3. dropped = {} => Forward(p)'
  BY <1>2 DEF FInv, Chained, Forward
<1> QED BY <1>2, <1>3, LaneMoves

LEMMA FeedQuiet ==
  ASSUME FInv, NEW p \in Proc,
         \/ Drain(p) \/ Seed(p) \/ Acquire(p) \/ AcquireFails(p)
         \/ PublishFails(p) \/ FlushFails(p) \/ Release(p),
         UNCHANGED <<feed, subs>>
  PROVE  Chained' /\ Unasked'
<1>1. lane \in [Proc -> LaneState]
  BY DEF FInv, KInv, Typed
<1>2. dropped' = dropped /\ rt' = rt /\ feed' = feed
  BY DEF Drain, Seed, Acquire, AcquireFails, PublishFails, FlushFails, Release
<1>3. (\A q \in Proc : q # p => lane'[q] = lane[q]) /\ lane'[p].pc \notin {"publish", "flush"}
  <2>1. CASE Drain(p)
    BY <1>1, <2>1 DEF Drain, LaneState
  <2>2. CASE Seed(p) \/ Acquire(p)
    BY <1>1, <2>2 DEF Seed, Acquire, Goto, LaneState
  <2>3. CASE AcquireFails(p) \/ PublishFails(p) \/ FlushFails(p) \/ Release(p)
    BY <1>1, <2>3 DEF AcquireFails, PublishFails, FlushFails, Release, FailBatch, Behind, IdleLane
  <2> QED BY <2>1, <2>2, <2>3
<1>4. ASSUME dropped = {} PROVE disk'.rev = disk.rev /\ disk'.muts = disk.muts
  <2>1. CASE Seed(p)
    <3>1. disk.state = "missing" => disk.muts = {} /\ disk.rev = 0
      BY <1>4 DEF FInv, KInv, Chained
    <3> QED BY <2>1, <3>1 DEF Seed, SeedLands
  <2>2. CASE ~Seed(p)
    BY <2>2 DEF Drain, Acquire, AcquireFails, PublishFails, FlushFails, Release
  <2> QED BY <2>1, <2>2
<1>5. Forward(p)'
  BY <1>3 DEF Forward
<1> QED BY <1>2, <1>3, <1>4, <1>5, LaneMoves

\* What is read and applied goes beyond the file, unless it leaves something out.
LEMMA FeedApplies ==
  ASSUME FInv, NEW p \in Proc, NEW base, NEW recovery \in BOOLEAN,
         lane[p].pc = "read", ApplyTo(p, base, recovery),
         base.rev \in Nat, base.muts \subseteq Taken,
         dropped = {} /\ base.muts = disk.muts => disk.rev <= base.rev,
         disk' = disk, dropped' = dropped, rt' = rt, feed' = feed
  PROVE  Chained' /\ Unasked'
<1>1. lane \in [Proc -> LaneState] /\ lane[p].batch \cap Taken = {} /\ disk.rev \in Nat
  BY Types, Numbers DEF FInv, KInv, Typed, LaneOK
<1>2. PICK done \in SUBSET lane[p].batch :
        lane' = [lane EXCEPT ![p].done = done,
                             ![p].next = [rev |-> base.rev + 1, muts |-> base.muts \cup done],
                             ![p].recovery = recovery,
                             ![p].pc = IF done = {} THEN "release" ELSE "publish"]
  BY DEF ApplyTo
<1>3. /\ \A q \in Proc : q # p => lane'[q] = lane[q]
      /\ lane'[p].next = [rev |-> base.rev + 1, muts |-> base.muts \cup done]
      /\ lane'[p].pc \in {"release", "publish"}
  BY <1>1, <1>2 DEF LaneState
<1>4. ASSUME dropped = {}, disk.muts \subseteq base.muts \cup done PROVE disk.rev < base.rev + 1
  <2>1. Taken = disk.muts
    BY <1>4 DEF Taken
  <2>2. base.muts = disk.muts
    BY <1>1, <1>4, <2>1
  <2> QED BY <1>1, <1>4, <2>2
<1>5. dropped = {} => Forward(p)'
  BY <1>3, <1>4 DEF Forward
<1> QED BY <1>3, <1>5, LaneMoves

LEMMA FeedRead ==
  ASSUME FInv, NEW p \in Proc, Read(p) \/ ReadFails(p), UNCHANGED <<feed, subs>>
  PROVE  Chained' /\ Unasked'
<1>1. lane[p].pc = "read" /\ disk' = disk /\ dropped' = dropped /\ rt' = rt /\ feed' = feed
  BY DEF Read, ReadFails, At
<1>2. CASE Read(p)
  <2>1. Bytes.rev = disk.rev /\ Bytes.muts = disk.muts /\ Bytes.rev \in Nat /\ Bytes.muts \subseteq Taken
    BY Types DEF FInv, Bytes, Taken
  <2>2. ApplyTo(p, Bytes, FALSE)
    BY <1>2 DEF Read
  <2>3. disk.rev <= Bytes.rev
    BY <2>1
  <2> HIDE DEF Bytes
  <2> QED BY <1>1, <2>1, <2>2, <2>3, FeedApplies
<1>3. CASE ReadFails(p) /\ FailOpen
  <2>1. ApplyTo(p, LastGood(p), TRUE)
    BY <1>3 DEF ReadFails
  <2>2. LastGood(p).rev \in Nat /\ LastGood(p).muts \subseteq Taken
    BY Numbers DEF FInv, KInv, Known, LastGood
  <2>3. ASSUME dropped = {}, LastGood(p).muts = disk.muts PROVE disk.rev <= LastGood(p).rev
    <3>1. /\ disk.muts = {} => disk.rev = 0
          /\ rt[p].raw # None => NotAhead(rt[p].raw) /\ rt[p].raw.rev <= rt[p].seen
      BY <2>3 DEF FInv, Chained, Knows
    <3>2. disk.rev \in Nat /\ rt[p].seen \in Nat /\ LastGood(p).rev = rt[p].seen
      BY Numbers DEF FInv, LastGood
    <3>3. CASE rt[p].raw = None
      BY <2>3, <3>1, <3>2, <3>3 DEF LastGood
    <3>4. CASE rt[p].raw # None
      BY <2>3, <3>1, <3>2, <3>4 DEF LastGood, NotAhead
    <3> QED BY <3>3, <3>4
  <2> QED BY <1>1, <2>1, <2>2, <2>3, FeedApplies
<1>4. CASE ReadFails(p) /\ ~FailOpen
  <2>1. (\A q \in Proc : q # p => lane'[q] = lane[q]) /\ lane'[p].pc = "release"
    BY <1>4 DEF ReadFails, FailBatch, Behind, IdleLane, FInv, KInv, Typed
  <2>2. Forward(p)'
    BY <2>1 DEF Forward
  <2> QED BY <1>1, <2>1, <2>2, LaneMoves
<1> QED BY <1>2, <1>3, <1>4

LEMMA FeedPublish ==
  ASSUME FInv, NEW p \in Proc, Publish(p), UNCHANGED <<feed, subs>>
  PROVE  Chained' /\ Unasked'
<1>1. /\ lane[p].pc = "publish" /\ rt' = rt /\ feed' = feed
      /\ disk'.rev = lane[p].next.rev /\ disk'.muts = lane[p].next.muts
      /\ lane'[p].pc = "flush" /\ lane'[p].next = lane[p].next
      /\ \A q \in Proc : q # p => lane'[q] = lane[q]
  BY Types DEF Publish, At, Goto, FInv, KInv, Typed, LaneState
<1>2. \A q \in Proc : q # p => lane[q].pc \notin {"publish", "flush"}
  BY <1>1 DEF FInv, KInv, Locked, Holds
<1>3. Unasked'
  BY <1>1 DEF FInv, Unasked
<1>4. ASSUME dropped' = {} PROVE Chained'
  <2>1. /\ dropped = {} /\ disk.muts \subseteq lane[p].next.muts /\ lane[p].done # {}
        /\ lane[p].done \subseteq lane[p].next.muts /\ lane[p].done \cap Taken = {}
    BY <1>1, <1>4, Types DEF Publish, LaneOK, FInv
  <2>2. Taken = disk.muts
    BY <2>1 DEF Taken
  <2>3. disk.rev < disk'.rev /\ disk.rev \in Nat /\ disk'.rev \in Nat
    BY <1>1, <2>1, Numbers DEF FInv, Chained, Forward
  <2>4. disk'.muts # {} /\ \A S \in SUBSET disk.muts : S # disk'.muts
    BY <1>1, <2>1, <2>2
  <2>5. ASSUME NEW q \in Proc PROVE Knows(q)'
    <3>1. Knows(q)
      BY <2>1 DEF FInv, Chained
    <3>2. rt'[q] = rt[q] /\ feed'[q] = feed[q] /\ rt[q].seen \in Nat
      BY <1>1, Numbers DEF FInv
    <3>3. rt[q].seen <= disk'.rev
      BY <2>3, <3>1, <3>2 DEF Knows
    <3>4. rt[q].raw # None => NotAhead(rt[q].raw)'
      <4>1. CASE rt[q].raw # None
        <5>1. rt[q].raw.rev \in Nat /\ rt[q].raw.muts \subseteq Taken /\ NotAhead(rt[q].raw)
          BY <3>1, <4>1, Numbers DEF Knows, FInv, KInv, Known
        <5> QED BY <1>1, <2>2, <2>3, <2>4, <5>1 DEF NotAhead
      <4> QED BY <4>1
    <3>5. feed[q].pc = "act" => NotAhead(feed[q].bytes)'
      <4>1. CASE feed[q].pc = "act"
        <5>1. feed[q].bytes.rev \in Nat /\ feed[q].bytes.muts \subseteq Taken /\ NotAhead(feed[q].bytes)
          BY <3>1, <4>1, Numbers DEF Knows, FInv, KInv, Known
        <5> QED BY <1>1, <2>2, <2>3, <2>4, <5>1 DEF NotAhead
      <4> QED BY <4>1
    <3>6. feed[q].first = "read" => feed[q].firstBytes.rev <= disk'.rev
      BY <2>3, <3>1, Numbers DEF Knows, FInv
    <3> QED BY <1>1, <3>1, <3>2, <3>3, <3>4, <3>5, <3>6 DEF Knows
  <2>6. ASSUME NEW q \in Proc PROVE Forward(q)'
    BY <1>1, <1>2 DEF Forward
  <2> QED BY <2>4, <2>5, <2>6 DEF Chained
<1>5. Chained'
  BY <1>4 DEF Chained
<1> QED BY <1>3, <1>5

LEMMA FeedBook ==
  ASSUME FInv, NEW p \in Proc, BookAndTell(p)
  PROVE  Chained' /\ Unasked'
<1>1. /\ lane \in [Proc -> LaneState] /\ rt \in [Proc -> Runtime] /\ feed \in [Proc -> FeedState]
      /\ lane[p].pc = "flush" /\ disk' = disk /\ dropped' = dropped
  BY DEF FInv, KInv, Typed, BookAndTell, Book, At
<1>2. /\ \A q \in Proc : q # p => lane'[q] = lane[q] /\ rt'[q] = rt[q] /\ feed'[q] = feed[q]
      /\ lane'[p].pc = "release" /\ rt'[p].raw = lane[p].next
      /\ rt'[p].seen = IF rt[p].seen > lane[p].next.rev THEN rt[p].seen ELSE lane[p].next.rev
      /\ feed'[p].moved /\ feed'[p].pc = feed[p].pc /\ feed'[p].bytes = feed[p].bytes
      /\ feed'[p].first = feed[p].first /\ feed'[p].firstBytes = feed[p].firstBytes
      /\ \/ feed'[p].passed
         \/ feed'[p].passed = feed[p].passed /\ feed'[p].got = feed[p].got
  BY <1>1 DEF BookAndTell, Book, Goto, LaneState, Runtime, FeedState, Told
<1>3. feed'[p].first # "none" /\ ~feed'[p].passed => feed'[p].got = None
  BY <1>2 DEF FInv, Unasked
<1>4. ASSUME dropped = {} PROVE Knows(p)' /\ Forward(p)'
  <2>1. /\ disk.rev \in Nat /\ rt[p].seen \in Nat /\ lane[p].next.rev = disk.rev
        /\ lane[p].next.muts = disk.muts /\ Knows(p)
    BY <1>1, <1>4, Numbers DEF FInv, Chained, Forward
  <2>2. rt'[p].seen = disk.rev
    BY <1>2, <2>1 DEF Knows
  <2>3. Knows(p)'
    BY <1>1, <1>2, <2>1, <2>2 DEF Knows, NotAhead
  <2>4. Forward(p)'
    BY <1>2 DEF Forward
  <2> QED BY <2>3, <2>4
<1> QED BY <1>1, <1>2, <1>3, <1>4, OneMoves

LEMMA FeedOutside ==
  ASSUME FInv,
         \/ Damage /\ UNCHANGED <<feed, subs>>
         \/ \E p \in Proc : CrashAll(p)
  PROVE  Chained' /\ Unasked'
<1>1. CASE Damage /\ UNCHANGED <<feed, subs>>
  <2>1. /\ disk'.rev = disk.rev /\ disk'.muts = disk.muts /\ dropped' = dropped /\ rt' = rt
        /\ lane' = lane /\ feed' = feed
    BY <1>1, Types DEF Damage, FInv, File
  <2>2. \A p \in Proc : Knows(p) /\ Forward(p) => Knows(p)' /\ Forward(p)'
    BY <2>1 DEF Knows, Forward, NotAhead
  <2> QED BY <2>1, <2>2 DEF FInv, Chained, Unasked
<1>2. ASSUME NEW p \in Proc, CrashAll(p) PROVE Chained' /\ Unasked'
  <2>1. /\ disk' = disk /\ dropped' = dropped
        /\ lane'[p] = IdleLane /\ rt'[p] = NewRuntime /\ feed'[p] = NoFeed
        /\ \A q \in Proc : q # p => lane'[q] = lane[q] /\ rt'[q] = rt[q] /\ feed'[q] = feed[q]
    BY <1>2 DEF CrashAll, Crash, FInv, KInv, Typed
  <2>2. Knows(p)' /\ Forward(p)'
    BY <2>1, Numbers DEF Knows, Forward, IdleLane, NewRuntime, NoFeed, FInv
  <2>3. feed'[p].first = "none"
    BY <2>1 DEF NoFeed
  <2> QED BY <2>1, <2>2, <2>3, OneMoves
<1> QED BY <1>1, <1>2

\* The listener comes or goes, or an emission or the first read begins or goes on.
LEMMA FeedListens ==
  ASSUME FInv, NEW p \in Proc,
         \/ Subscribe(p) \/ Unsubscribe(p) \/ FirstRead(p) \/ FirstReadFails(p)
         \/ EmitBegin(p) \/ EmitStat(p) \/ EmitRead(p) \/ EmitReadFails(p)
  PROVE  Chained' /\ Unasked'
<1>1. feed \in [Proc -> FeedState] /\ rt \in [Proc -> Runtime] /\ disk.rev \in Nat
  BY Numbers DEF FInv, KInv, Typed
<1>2. disk' = disk /\ dropped' = dropped /\ lane' = lane
  BY DEF Subscribe, Unsubscribe, FirstRead, FirstReadFails, EmitBegin, EmitStat, EmitRead,
         EmitReadFails, storeVars
<1>3. \A q \in Proc : q # p => rt'[q] = rt[q] /\ feed'[q] = feed[q]
  BY <1>1 DEF Subscribe, Unsubscribe, FirstRead, FirstReadFails, EmitBegin, EmitStat, EmitRead,
              EmitReadFails, storeVars
<1>4. feed[p].first # "none" /\ ~feed[p].passed => feed[p].got = None
  BY DEF FInv, Unasked
<1>5. dropped = {} => Knows(p) /\ Forward(p)
  BY DEF FInv, Chained
<1>6. Forward(p)' <=> Forward(p)
  BY <1>2 DEF Forward
<1>7. /\ dropped = {} => Knows(p)'
      /\ feed'[p].first # "none" /\ ~feed'[p].passed => feed'[p].got = None
  <2>1. CASE Subscribe(p)
    <3>1. /\ rt' = rt /\ feed'[p].pc = feed[p].pc /\ feed'[p].bytes = feed[p].bytes
          /\ feed'[p].moved = feed[p].moved /\ feed'[p].first = "reading" /\ feed'[p].got = None
      BY <1>1, <2>1 DEF Subscribe, storeVars, FeedState
    <3> QED BY <1>2, <1>5, <3>1 DEF Knows, NotAhead
  <2>2. CASE Unsubscribe(p)
    <3>1. /\ rt'[p].raw = None /\ rt'[p].seen = 0 /\ feed'[p].first = "none"
          /\ feed'[p].pc = feed[p].pc /\ feed'[p].bytes = feed[p].bytes
      BY <1>1, <2>2 DEF Unsubscribe, NewRuntime, FeedState
    <3> QED BY <1>1, <1>2, <1>5, <3>1 DEF Knows, NotAhead
  <2>3. CASE FirstRead(p)
    <3>1. /\ rt' = rt /\ feed[p].first = "reading"
          /\ feed'[p].first = "read" /\ feed'[p].firstBytes = disk
          /\ feed'[p].pc = feed[p].pc /\ feed'[p].bytes = feed[p].bytes
          /\ feed'[p].moved = feed[p].moved
          /\ feed'[p].passed = feed[p].passed /\ feed'[p].got = feed[p].got
      BY <1>1, <2>3 DEF FirstRead, storeVars, FeedState
    <3> QED BY <1>1, <1>2, <1>4, <1>5, <3>1 DEF Knows, NotAhead
  <2>4. CASE EmitBegin(p) \/ EmitStat(p)
    <3>1. /\ rt' = rt /\ feed'[p].pc # "act"
          /\ feed'[p].first = feed[p].first /\ feed'[p].firstBytes = feed[p].firstBytes
          /\ feed'[p].passed = feed[p].passed /\ feed'[p].got = feed[p].got
      BY <1>1, <2>4 DEF EmitBegin, EmitStat, storeVars, FeedState
    <3> QED BY <1>2, <1>4, <1>5, <3>1 DEF Knows, NotAhead
  <2>5. CASE EmitRead(p)
    <3>1. /\ rt' = rt /\ feed'[p].bytes = disk
          /\ feed'[p].first = feed[p].first /\ feed'[p].firstBytes = feed[p].firstBytes
          /\ feed'[p].passed = feed[p].passed /\ feed'[p].got = feed[p].got
      BY <1>1, <2>5 DEF EmitRead, storeVars, FeedState
    <3> QED BY <1>1, <1>2, <1>4, <1>5, <3>1 DEF Knows, NotAhead
  <2>6. CASE FirstReadFails(p)
    <3>1. /\ rt' = rt /\ feed'[p].first = "none"
          /\ feed'[p].pc = feed[p].pc /\ feed'[p].bytes = feed[p].bytes
          /\ feed'[p].moved = feed[p].moved
      BY <1>1, <2>6 DEF FirstReadFails, FeedState
    <3> QED BY <1>2, <1>5, <3>1 DEF Knows, NotAhead
  <2>7. CASE EmitReadFails(p)
    <3>1. /\ rt' = rt /\ feed'[p].pc # "act"
          /\ feed'[p].first = feed[p].first /\ feed'[p].firstBytes = feed[p].firstBytes
          /\ feed'[p].passed = feed[p].passed /\ feed'[p].got = feed[p].got
      BY <1>1, <2>7 DEF EmitReadFails, FeedState
    <3> QED BY <1>2, <1>4, <1>5, <3>1 DEF Knows, NotAhead
  <2> QED BY <2>1, <2>2, <2>3, <2>4, <2>5, <2>6, <2>7
<1> QED BY <1>2, <1>3, <1>5, <1>6, <1>7, OneMoves

LEMMA FeedFirstValue ==
  ASSUME FInv, NEW p \in Proc, FirstValue(p)
  PROVE  Chained' /\ Unasked'
<1>1. feed \in [Proc -> FeedState] /\ rt \in [Proc -> Runtime] /\ feed[p].first = "read"
  BY DEF FInv, KInv, Typed, FirstValue
<1>2. /\ disk' = disk /\ dropped' = dropped /\ lane' = lane
      /\ \A q \in Proc : q # p => rt'[q] = rt[q] /\ feed'[q] = feed[q]
      /\ feed'[p].first = "none" /\ feed'[p].pc = feed[p].pc /\ feed'[p].bytes = feed[p].bytes
      /\ feed'[p].moved = feed[p].moved /\ rt'[p].raw = rt[p].raw
      /\ \/ rt'[p].seen = rt[p].seen
         \/ rt[p].seen = 0 /\ rt'[p].seen = feed[p].firstBytes.rev
  BY <1>1 DEF FirstValue, FeedState, Runtime
<1>3. ASSUME dropped = {} PROVE Knows(p)' /\ Forward(p)'
  <2>1. /\ Knows(p) /\ Forward(p) /\ feed[p].firstBytes.rev \in Nat /\ rt[p].seen \in Nat
        /\ rt[p].raw # None => rt[p].raw.rev \in Nat
    BY <1>1, <1>3, Numbers DEF FInv, Chained
  <2>2. rt'[p].seen <= disk.rev /\ (rt[p].raw # None => rt[p].raw.rev <= rt'[p].seen)
    BY <1>1, <1>2, <2>1 DEF Knows
  <2>3. Knows(p)'
    BY <1>2, <2>1, <2>2 DEF Knows, NotAhead
  <2>4. Forward(p)'
    BY <1>2, <2>1 DEF Forward
  <2> QED BY <2>3, <2>4
<1> QED BY <1>2, <1>3, OneMoves

LEMMA FeedEmitAct ==
  ASSUME FInv, NEW p \in Proc, EmitAct(p)
  PROVE  Chained' /\ Unasked'
<1> DEFINE bytes == feed[p].bytes
<1>1. feed \in [Proc -> FeedState] /\ rt \in [Proc -> Runtime] /\ feed[p].pc = "act"
  BY DEF FInv, KInv, Typed, EmitAct, Is
<1>2. /\ disk' = disk /\ dropped' = dropped /\ lane' = lane
      /\ \A q \in Proc : q # p => rt'[q] = rt[q] /\ feed'[q] = feed[q]
      /\ feed'[p].pc = "off" /\ feed'[p].first = feed[p].first
      /\ feed'[p].firstBytes = feed[p].firstBytes
      /\ feed'[p].passed \/ (feed'[p].passed = feed[p].passed /\ feed'[p].got = feed[p].got)
  <2> DEFINE f == [feed[p] EXCEPT !.pc = "off", !.bytes = None, !.key = None,
                                  !.statKey = IF Remembers(p) THEN feed[p].key ELSE feed[p].statKey]
             doc == [rev |-> bytes.rev, muts |-> bytes.muts]
  <2>1. /\ disk' = disk /\ dropped' = dropped /\ lane' = lane
        /\ feed' = [feed EXCEPT ![p] = f] \/ feed' = [feed EXCEPT ![p] = Told(f, doc)]
        /\ \A q \in Proc : q # p => rt'[q] = rt[q]
    BY <1>1 DEF EmitAct
  <2>2. /\ f.pc = "off" /\ f.first = feed[p].first /\ f.firstBytes = feed[p].firstBytes
        /\ f.passed = feed[p].passed /\ f.got = feed[p].got
    BY <1>1 DEF FeedState
  <2>3. Told(f, doc).pc = "off" /\ Told(f, doc).first = f.first
        /\ Told(f, doc).firstBytes = f.firstBytes /\ Told(f, doc).passed
    BY <1>1 DEF Told, FeedState
  <2> HIDE DEF f, doc, bytes
  <2> QED BY <1>1, <2>1, <2>2, <2>3
<1>3. \/ rt'[p] = rt[p]
      \/ rt'[p].raw = DocOf(bytes) /\ rt'[p].seen = Seen(rt[p].seen, bytes.rev)
      \/ rt'[p].raw = Empty /\ rt'[p].seen = rt[p].seen
  <2>1. \/ rt' = rt
        \/ rt' = [rt EXCEPT ![p].raw = DocOf(bytes), ![p].seen = Seen(@, bytes.rev)]
        \/ rt' = [rt EXCEPT ![p].raw = Empty]
    BY <1>1 DEF EmitAct
  <2> HIDE DEF bytes
  <2> QED BY <1>1, <2>1 DEF Runtime
<1>4. ASSUME dropped = {} PROVE Knows(p)' /\ Forward(p)'
  <2>1. /\ Knows(p) /\ Forward(p) /\ bytes.rev \in Nat /\ rt[p].seen \in Nat /\ disk.rev \in Nat
        /\ disk.muts = {} => disk.rev = 0
    BY <1>1, <1>4, Numbers DEF FInv, Chained
  <2>2. NotAhead(bytes)
    BY <1>1, <2>1 DEF Knows
  <2>3. /\ rt'[p].seen <= disk.rev
        /\ rt'[p].raw # None => NotAhead(rt'[p].raw) /\ rt'[p].raw.rev <= rt'[p].seen
    <3>1. CASE rt'[p] = rt[p]
      BY <2>1, <3>1 DEF Knows
    <3>2. CASE rt'[p].raw = DocOf(bytes) /\ rt'[p].seen = Seen(rt[p].seen, bytes.rev)
      BY <2>1, <2>2, <3>2 DEF Knows, NotAhead, DocOf, Seen
    <3>3. CASE rt'[p].raw = Empty /\ rt'[p].seen = rt[p].seen
      BY <2>1, <3>3 DEF Knows, NotAhead, Empty
    <3> QED BY <1>3, <3>1, <3>2, <3>3
  <2>4. Knows(p)'
    BY <1>2, <2>1, <2>3 DEF Knows, NotAhead
  <2>5. Forward(p)'
    BY <1>2, <2>1 DEF Forward
  <2> QED BY <2>4, <2>5
<1>5. feed'[p].first # "none" /\ ~feed'[p].passed => feed'[p].got = None
  BY <1>2 DEF FInv, Unasked
<1> QED BY <1>2, <1>4, <1>5, OneMoves

LEMMA FeedInvariant == Spec => []FInv
<1>1. FeedInit => FInv
  <2> SUFFICES ASSUME FeedInit PROVE FInv
    OBVIOUS
  <2>1. /\ disk = [state |-> "missing", rev |-> 0, muts |-> {}]
        /\ rt = [p \in Proc |-> NewRuntime]
        /\ lane = [p \in Proc |-> IdleLane]
        /\ feed = [p \in Proc |-> NoFeed]
    BY DEF FeedInit, Init
  <2>2. /\ NewRuntime.raw = None /\ NewRuntime.seen = 0
        /\ IdleLane.pc = "idle" /\ NoFeed.pc = "off" /\ NoFeed.first = "none"
    BY DEF NewRuntime, IdleLane, NoFeed
  <2>3. \A p \in Proc : /\ rt[p].raw = None /\ rt[p].seen = 0
                        /\ lane[p].pc = "idle" /\ feed[p].pc = "off" /\ feed[p].first = "none"
    BY <2>1, <2>2
  <2>4. Chained
    BY <2>1, <2>3 DEF Chained, Knows, Forward
  <2>5. Unasked
    BY <2>3 DEF Unasked
  <2> QED BY <2>4, <2>5, KInvInit DEF FInv
<1>2. FInv /\ [Next]_vars => FInv'
  <2> SUFFICES ASSUME FInv, [Next]_vars PROVE FInv'
    OBVIOUS
  <2>1. KInv'
    BY KInvNext DEF FInv
  <2>2. ASSUME NEW p \in Proc, Quiet(p), UNCHANGED <<feed, subs>> PROVE Chained' /\ Unasked'
    BY <2>2, FeedQuiet, FeedRead, FeedPublish DEF Quiet
  <2>3. ASSUME NEW p \in Watcher, Listen(p) PROVE Chained' /\ Unasked'
    <3>1. p \in Proc
      BY FeedAssumption
    <3> QED BY <2>3, <3>1, FeedListens, FeedFirstValue, FeedEmitAct DEF Listen
  <2>4. ASSUME UNCHANGED vars PROVE Chained' /\ Unasked'
    <3>1. disk' = disk /\ lane' = lane /\ rt' = rt /\ dropped' = dropped /\ feed' = feed
      BY <2>4 DEF vars, storeVars
    <3>2. \A p \in Proc : Knows(p) /\ Forward(p) => Knows(p)' /\ Forward(p)'
      BY <3>1 DEF Knows, Forward, NotAhead
    <3> QED BY <3>1, <3>2 DEF FInv, Chained, Unasked
  <2>5. ASSUME NEW p \in Proc, BookAndTell(p) \/ CrashAll(p) PROVE Chained' /\ Unasked'
    BY <2>5, FeedBook, FeedOutside
  <2>6. ASSUME NEW p \in Proc, NEW m \in Mutation, Submit(p, m), UNCHANGED <<feed, subs>>
        PROVE  Chained' /\ Unasked'
    BY <2>6, FeedSubmit
  <2>7. ASSUME Damage, UNCHANGED <<feed, subs>> PROVE Chained' /\ Unasked'
    BY <2>7, FeedOutside
  <2>8. Chained' /\ Unasked'
    BY <2>2, <2>3, <2>4, <2>5, <2>6, <2>7 DEF Next
  <2> QED BY <2>1, <2>8 DEF FInv
<1> QED BY <1>1, <1>2, PTL DEF Spec

\* What a listener is told next is not older: what its process published is in the file,
\* what was read before a publication is dropped, and the read at subscription is only
\* told to a listener that knows nothing.
LEMMA NothingOlder ==
  ASSUME FInv, [Next]_vars, NEW p \in Watcher, dropped = {},
         rt[p].raw # None, feed[p].got = rt[p].raw, feed'[p].got # None
  PROVE  feed'[p].got.rev >= feed[p].got.rev
<1>1. /\ p \in Proc /\ feed \in [Proc -> FeedState] /\ feed[p].got.rev \in Nat
      /\ Knows(p) /\ Forward(p)
  BY FeedAssumption, Numbers DEF FInv, KInv, Typed, Chained
<1>2. CASE feed'[p].got = feed[p].got
  BY <1>1, <1>2
<1>3. ASSUME NEW q \in Proc, BookAndTell(q) PROVE feed'[p].got.rev >= feed[p].got.rev
  <2>1. CASE feed'[p].got # feed[p].got
    <3>1. q = p /\ lane[p].pc = "flush" /\ feed'[p].got = lane[p].next
      BY <1>1, <1>3, <2>1 DEF BookAndTell, Book, At, FeedState, Told
    <3> QED BY <1>1, <3>1 DEF Knows, Forward, NotAhead
  <2> QED BY <1>2, <2>1
<1>4. ASSUME NEW q \in Proc, CrashAll(q) PROVE feed'[p].got.rev >= feed[p].got.rev
  BY <1>1, <1>4, <1>2 DEF CrashAll, NoFeed
<1>5. ASSUME NEW q \in Watcher, EmitAct(q) PROVE feed'[p].got.rev >= feed[p].got.rev
  <2>1. CASE feed'[p].got # feed[p].got
    <3>1. /\ q = p /\ feed[p].pc = "act" /\ ~feed[p].moved
          /\ feed'[p].got.rev = feed[p].bytes.rev
      BY <1>1, <1>5, <2>1 DEF EmitAct, Is, Emits, FeedState, Told
    <3> QED BY <1>1, <3>1, Numbers DEF Knows, FInv
  <2> QED BY <1>2, <2>1
<1>6. ASSUME NEW q \in Watcher, FirstValue(q) PROVE feed'[p].got.rev >= feed[p].got.rev
  <2>1. CASE feed'[p].got # feed[p].got
    <3>1. q = p /\ feed[p].first = "read" /\ ~feed[p].passed
      BY <1>1, <1>6, <2>1 DEF FirstValue, FeedState
    <3> QED BY <1>1, <3>1 DEF FInv, Unasked
  <2> QED BY <1>2, <2>1
<1>7. ASSUME NEW q \in Watcher,
             \/ Subscribe(q) \/ Unsubscribe(q) \/ FirstRead(q) \/ FirstReadFails(q)
             \/ EmitBegin(q) \/ EmitStat(q) \/ EmitRead(q) \/ EmitReadFails(q)
      PROVE  feed'[p].got.rev >= feed[p].got.rev
  <2>1. CASE Subscribe(q) \/ Unsubscribe(q) \/ FirstRead(q) \/ FirstReadFails(q)
    BY <1>1, <1>2, <2>1 DEF Subscribe, Unsubscribe, FirstRead, FirstReadFails, FeedState
  <2>2. CASE EmitBegin(q) \/ EmitStat(q) \/ EmitRead(q)
    BY <1>1, <1>2, <2>2 DEF EmitBegin, EmitStat, EmitRead, FeedState
  <2>3. CASE EmitReadFails(q)
    <3>1. feed'[p].got = feed[p].got
      BY <1>1, <2>3 DEF EmitReadFails, FeedState
    <3> QED BY <1>2, <3>1
  <2> QED BY <1>7, <2>1, <2>2, <2>3
<1>8. CASE feed' = feed
  BY <1>2, <1>8
<1> QED BY <1>3, <1>4, <1>5, <1>6, <1>7, <1>8 DEF Next, Listen, vars

\* However the reads of the file and the publications of any number of processes overlap,
\* and whatever fails, a listener is told of no older document after a newer one (emitOnce
\* and its publishEpoch, publish, subscribeChanges), as long as no recovery lost anything.
THEOREM FeedForward == Spec => NeverOldAfterNew
<1>1. FInv /\ [Next]_vars =>
        [\A p \in Watcher :
           rt[p].raw # None /\ feed[p].got = rt[p].raw /\ feed'[p].got # None /\ dropped = {}
             => feed'[p].got.rev >= feed[p].got.rev]_vars
  BY NothingOlder
<1> QED BY <1>1, FeedInvariant, PTL DEF Spec, NeverOldAfterNew

=============================================================================
