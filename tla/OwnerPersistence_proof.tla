----------------------- MODULE OwnerPersistence_proof -----------------------
(***************************************************************************)
(* Proofs about the persistence of an owner's snapshots, for any callers,  *)
(* limits and bounds.                                                      *)
(***************************************************************************)
EXTENDS OwnerPersistence, SequenceTheorems, TLAPS

\* TypeOK, without what ties the chain to the lanes.
Typed ==
  /\ lives \in 0 .. MaxLives /\ current \in 0 .. lives /\ closing \in 0 .. lives
  /\ lane \in [Life -> LaneState]
  /\ chain \in Seq([life : Life, snapshot : Nat, landed : BOOLEAN])
  /\ {disk, stamp, faults} \subseteq Nat
  /\ caller \in [Caller -> Call]

\* The chain s holds what the lanes ln have in flight, each lane's commit once.
Agrees(s, ln) ==
  /\ \A i \in DOMAIN s : s[i].snapshot # 0 /\ ln[s[i].life].inFlight = s[i].snapshot
  /\ \A i, j \in DOMAIN s : s[i].life = s[j].life => i = j
  /\ \A l \in Life : ln[l].inFlight # 0 => \E i \in DOMAIN s : s[i].life = l

Sane(ln) ==
  /\ ln.committed <= ln.accepted /\ ln.accepted <= stamp /\ ln.inFlight <= ln.accepted
  /\ ln.inFlight # 0 => ln.committed < ln.inFlight

LanesSane ==
  /\ \A l \in Life : Sane(lane[l])
  /\ \A l \in Life : l > lives => lane[l] = FreshLane
  /\ current # 0 => current = lives

\* What the lane has in flight is the last it will; and it is done with, or failed.
Final(ln) == ln.inFlight \in {0, ln.accepted}
Done(ln)  == ln.released \/ ln.failed \/ ln.committed = ln.accepted

CallSane(c) ==
  caller[c].pc # "off" =>
    LET l == caller[c].life IN
    /\ l \in 1 .. lives /\ caller[c].asked <= lane[l].accepted
    /\ caller[c].round = 0 => caller[c].kind = "drain"
    /\ caller[c].kind = "drain" =>
         /\ l # current
         /\ caller[c].pc = "woken" \/ caller[c].round # 1 => Final(lane[l])
         /\ caller[c].round = 0 \/ (caller[c].pc = "woken" /\ caller[c].round # 1) => Done(lane[l])

CallsSane == \A c \in Caller : CallSane(c)

ReleasedSane ==
  \A l \in Life : lane[l].released =>
    l # current /\ l <= lives /\ Final(lane[l])
    /\ (lane[l].failed \/ lane[l].committed = lane[l].accepted)

\* Until a request comes behind the shutdown's disposal, only the newest lane writes.
OneLane ==
  ~Late =>
    /\ \A i \in DOMAIN chain : /\ chain[i].life = lives /\ disk <= chain[i].snapshot
                               /\ chain[i].landed => disk = chain[i].snapshot
    /\ \A l \in Life : lane[l].committed <= disk
    /\ \A l \in Life : l < lives \/ (l = lives /\ current = 0 /\ closing = 0)
                       => lane[l].inFlight = 0 /\ lane[l].committed = lane[l].accepted
    /\ lives # 0 => disk <= lane[lives].accepted
    /\ disk <= stamp

OInv == Typed /\ Agrees(chain, lane) /\ LanesSane /\ CallsSane /\ ReleasedSane /\ OneLane
        /\ SettledIsDurable
------------------------------------------------------------------------------
(* The chain *)

Entry == [life : Life, snapshot : Nat, landed : BOOLEAN]

LEMMA Limits == /\ MaxCommits \in Nat /\ MaxRounds \in Nat /\ MaxRounds > 1
                /\ MaxLives \in Nat /\ Life = 1 .. MaxLives
BY OwnerAssumption DEF Life

\* A lane without a commit under way starts one.
LEMMA ChainStarts ==
  ASSUME NEW s \in Seq(Entry), NEW ln \in [Life -> LaneState], Agrees(s, ln),
         NEW l \in Life, ln[l].inFlight = 0, NEW m \in LaneState, m.inFlight # 0
  PROVE  LET t == Append(s, Write(l, m.inFlight)) IN
         /\ t \in Seq(Entry) /\ Agrees(t, [ln EXCEPT ![l] = m])
         /\ \A i \in DOMAIN t : (i \in DOMAIN s /\ t[i] = s[i]) \/ t[i] = Write(l, m.inFlight)
<1> DEFINE w == Write(l, m.inFlight)
           t == Append(s, w)
           n == Len(s)
<1>1. w \in Entry /\ w.life = l /\ w.snapshot = m.inFlight
  BY DEF Write, Entry, LaneState
<1> HIDE DEF w
<1>2. /\ t \in Seq(Entry) /\ n \in Nat /\ DOMAIN s = 1 .. n /\ DOMAIN t = 1 .. (n + 1)
      /\ t[n + 1] = w /\ \A i \in 1 .. n : t[i] = s[i]
  BY <1>1
<1> HIDE DEF t
<1>3. \A i \in 1 .. n : s[i] \in Entry /\ s[i].life # l /\ s[i].life \in Life
  <2>1. \A i \in 1 .. n : s[i] \in Entry
    BY <1>2
  <2> SUFFICES ASSUME NEW i \in 1 .. n
               PROVE  s[i] \in Entry /\ s[i].life # l /\ s[i].life \in Life
    OBVIOUS
  <2>2. s[i] \in Entry /\ s[i].life \in Life
    BY <2>1 DEF Entry
  <2>3. s[i].snapshot # 0 /\ ln[s[i].life].inFlight = s[i].snapshot
    BY <1>2 DEF Agrees
  <2> QED BY <2>2, <2>3
<1>4. \A k \in Life : [ln EXCEPT ![l] = m][k] = IF k = l THEN m ELSE ln[k]
  OBVIOUS
<1>5. Agrees(t, [ln EXCEPT ![l] = m])
  <2>1. ASSUME NEW i \in DOMAIN t
        PROVE  t[i].snapshot # 0 /\ [ln EXCEPT ![l] = m][t[i].life].inFlight = t[i].snapshot
    BY <2>1, <1>1, <1>2, <1>3, <1>4 DEF Agrees
  <2>2. ASSUME NEW i \in DOMAIN t, NEW j \in DOMAIN t, t[i].life = t[j].life PROVE i = j
    BY <2>2, <1>1, <1>2, <1>3 DEF Agrees
  <2>3. ASSUME NEW k \in Life, [ln EXCEPT ![l] = m][k].inFlight # 0
        PROVE  \E i \in DOMAIN t : t[i].life = k
    <3>1. CASE k = l
      BY <3>1, <1>1, <1>2
    <3>2. CASE k # l
      BY <3>2, <2>3, <1>2, <1>4 DEF Agrees
    <3> QED BY <3>1, <3>2
  <2> QED BY <2>1, <2>2, <2>3 DEF Agrees
<1> QED BY <1>1, <1>2, <1>5 DEF t, w

\* The lane at the head of the chain ends its commit.
LEMMA ChainEnds ==
  ASSUME NEW s \in Seq(Entry), s # <<>>, NEW ln \in [Life -> LaneState], Agrees(s, ln),
         NEW m \in LaneState, m.inFlight = 0
  PROVE  LET t == Tail(s) IN
         /\ Head(s) \in Entry /\ Head(s) = s[1] /\ 1 \in DOMAIN s
         /\ t \in Seq(Entry) /\ Agrees(t, [ln EXCEPT ![Head(s).life] = m])
         /\ \A i \in DOMAIN t : i + 1 \in DOMAIN s /\ t[i] = s[i + 1]
<1> DEFINE t == Tail(s)
           n == Len(s)
           l == Head(s).life
<1>1. /\ t \in Seq(Entry) /\ n \in Nat \ {0} /\ DOMAIN s = 1 .. n /\ DOMAIN t = 1 .. (n - 1)
      /\ Head(s) = s[1] /\ \A i \in 1 .. (n - 1) : t[i] = s[i + 1]
  OBVIOUS
<1>a. \A i \in 1 .. n : s[i] \in Entry
  BY <1>1
<1>2. Head(s) \in Entry /\ l \in Life
  BY <1>1, <1>a DEF Entry
<1> HIDE DEF t
<1>3. \A i \in 1 .. (n - 1) : t[i] \in Entry /\ t[i].life # l /\ t[i].life \in Life
  <2> SUFFICES ASSUME NEW i \in 1 .. (n - 1)
               PROVE  t[i] \in Entry /\ t[i].life # l /\ t[i].life \in Life
    OBVIOUS
  <2>1. t[i] = s[i + 1] /\ i + 1 \in 1 .. n /\ i + 1 # 1 /\ 1 \in 1 .. n
    BY <1>1
  <2>2. s[i + 1].life # s[1].life
    BY <2>1, <1>1 DEF Agrees
  <2> QED BY <2>1, <2>2, <1>1, <1>a DEF Entry
<1> HIDE DEF l
<1>4. \A k \in Life : [ln EXCEPT ![l] = m][k] = IF k = l THEN m ELSE ln[k]
  BY <1>2
<1>5. Agrees(t, [ln EXCEPT ![l] = m])
  <2>1. ASSUME NEW i \in DOMAIN t
        PROVE  t[i].snapshot # 0 /\ [ln EXCEPT ![l] = m][t[i].life].inFlight = t[i].snapshot
    <3>1. i \in 1 .. (n - 1) /\ i + 1 \in DOMAIN s /\ t[i] = s[i + 1]
      BY <2>1, <1>1
    <3> QED BY <3>1, <1>3, <1>4 DEF Agrees
  <2>2. ASSUME NEW i \in DOMAIN t, NEW j \in DOMAIN t, t[i].life = t[j].life PROVE i = j
    <3>1. i + 1 \in DOMAIN s /\ j + 1 \in DOMAIN s /\ s[i + 1].life = s[j + 1].life
      BY <2>2, <1>1
    <3> QED BY <3>1, <2>2, <1>1 DEF Agrees
  <2>3. ASSUME NEW k \in Life, [ln EXCEPT ![l] = m][k].inFlight # 0
        PROVE  \E i \in DOMAIN t : t[i].life = k
    <3>1. k # l /\ ln[k].inFlight # 0
      BY <2>3, <1>4
    <3>2. PICK i \in DOMAIN s : s[i].life = k
      BY <3>1 DEF Agrees
    <3>3. i # 1
      BY <3>1, <3>2, <1>1 DEF l
    <3>4. i - 1 \in DOMAIN t /\ t[i - 1] = s[i]
      BY <3>2, <3>3, <1>1
    <3> QED BY <3>2, <3>4
  <2> QED BY <2>1, <2>2, <2>3 DEF Agrees
<1> QED BY <1>1, <1>2, <1>5 DEF t, l

\* The write at the head lands.
LEMMA ChainLands ==
  ASSUME NEW s \in Seq(Entry), s # <<>>, NEW ln \in [Life -> LaneState], Agrees(s, ln)
  PROVE  LET t == [s EXCEPT ![1].landed = TRUE] IN
         /\ t \in Seq(Entry) /\ Agrees(t, ln) /\ Head(s) = s[1] /\ 1 \in DOMAIN s
         /\ DOMAIN t = DOMAIN s
         /\ \A i \in DOMAIN s : /\ t[i].life = s[i].life /\ t[i].snapshot = s[i].snapshot
                                /\ i # 1 => t[i] = s[i]
<1> DEFINE t == [s EXCEPT ![1].landed = TRUE]
<1>1. /\ Len(s) \in Nat \ {0} /\ DOMAIN s = 1 .. Len(s) /\ DOMAIN t = DOMAIN s /\ Head(s) = s[1]
      /\ \A i \in DOMAIN s : s[i] \in Entry
  OBVIOUS
<1>2. PICK e \in Entry : e = [s[1] EXCEPT !.landed = TRUE]
  <2>1. s[1] \in [life : Life, snapshot : Nat, landed : BOOLEAN]
    BY <1>1 DEF Entry
  <2> QED BY <2>1 DEF Entry
<1>3. \A i \in DOMAIN s : /\ t[i] \in Entry /\ t[i].life = s[i].life /\ t[i].snapshot = s[i].snapshot
                          /\ i # 1 => t[i] = s[i]
  <2>1. e.life = s[1].life /\ e.snapshot = s[1].snapshot
    <3>1. s[1] \in [life : Life, snapshot : Nat, landed : BOOLEAN]
      BY <1>1 DEF Entry
    <3> QED BY <1>2, <3>1
  <2>2. t = [s EXCEPT ![1] = e]
    BY <1>2
  <2> QED BY <1>1, <2>1, <2>2
<1>4. t \in Seq(Entry)
  BY <1>1, <1>2, ExceptSeq, 1 \in 1 .. Len(s)
<1> HIDE DEF t
<1>5. Agrees(t, ln)
  BY <1>1, <1>3 DEF Agrees
<1> QED BY <1>1, <1>3, <1>4, <1>5 DEF t
------------------------------------------------------------------------------
(* Steps in general *)

\* Lane l becomes m, having accepted n; the chain gets the commit that starts, if any.
Moved(l, m, n) ==
  /\ m \in LaneState /\ lane' = [lane EXCEPT ![l] = m]
  /\ m.committed = lane[l].committed /\ m.failed = lane[l].failed
  /\ m.released = lane[l].released /\ m.accepted = n
  /\ \/ m.inFlight = lane[l].inFlight
     \/ lane[l].inFlight = 0 /\ m.inFlight = n /\ lane[l].committed < n /\ ~m.released
  /\ chain' \in Seq(Entry) /\ Agrees(chain', lane')
  /\ \A i \in DOMAIN chain' :
       \/ i \in DOMAIN chain /\ chain'[i] = chain[i]
       \/ m.inFlight # lane[l].inFlight /\ chain'[i] = Write(l, n)

LEMMA Basics ==
  ASSUME OInv
  PROVE  /\ chain \in Seq(Entry) /\ lane \in [Life -> LaneState] /\ caller \in [Caller -> Call]
         /\ lives \in Nat /\ current \in Nat /\ closing \in Nat /\ lives <= MaxLives
         /\ current <= lives /\ closing <= lives
         /\ disk \in Nat /\ stamp \in Nat /\ faults \in Nat
         /\ current # 0 => current \in Life /\ current = lives
         /\ \A l \in Life : l \in Nat /\ Sane(lane[l]) /\ lane[l] \in LaneState
BY Limits DEF OInv, Typed, LanesSane, Entry

\* Chain and lanes agree however else a lane changes.
LEMMA AgreesKept ==
  ASSUME NEW s, NEW ln \in [Life -> LaneState], Agrees(s, ln), NEW l \in Life,
         NEW m, m.inFlight = ln[l].inFlight, \A i \in DOMAIN s : s[i].life \in Life
  PROVE  Agrees(s, [ln EXCEPT ![l] = m])
<1>1. \A k \in Life : [ln EXCEPT ![l] = m][k].inFlight = ln[k].inFlight
  OBVIOUS
<1> QED BY <1>1 DEF Agrees

LEMMA Pumped ==
  ASSUME OInv, NEW l \in Life, NEW ln \in LaneState, Pump(l, ln),
         ln.inFlight = lane[l].inFlight, ln.committed = lane[l].committed,
         ln.failed = lane[l].failed, ln.released = lane[l].released
  PROVE  \E m \in LaneState : Moved(l, m, ln.accepted)
<1>1. CASE Starts(ln)
  <2> DEFINE m == Committing(ln, 1)
  <2>1. /\ m \in LaneState /\ m.inFlight = ln.accepted /\ m.accepted = ln.accepted
        /\ m.committed = ln.committed /\ m.failed = ln.failed /\ m.released = ln.released
    BY DEF Committing, LaneState
  <2>2. ln.inFlight = 0 /\ ln.committed < ln.accepted /\ ~ln.released
    BY <1>1 DEF Starts, CanCommit
  <2>3. ln.accepted # 0 /\ ln.committed \in Nat /\ ln.accepted \in Nat
    BY <2>2 DEF LaneState
  <2>4. lane' = [lane EXCEPT ![l] = m] /\ chain' = Append(chain, Write(l, m.inFlight))
    BY <1>1, <2>1 DEF Pump
  <2> HIDE DEF m
  <2>5. /\ chain' \in Seq(Entry) /\ Agrees(chain', lane')
        /\ \A i \in DOMAIN chain' : \/ i \in DOMAIN chain /\ chain'[i] = chain[i]
                                    \/ chain'[i] = Write(l, m.inFlight)
    BY <2>1, <2>2, <2>3, <2>4, ChainStarts, Basics DEF OInv
  <2> QED BY <2>1, <2>2, <2>3, <2>4, <2>5 DEF Moved
<1>2. CASE ~Starts(ln)
  <2>1. lane' = [lane EXCEPT ![l] = ln] /\ chain' = chain
    BY <1>2 DEF Pump
  <2>2. \A i \in DOMAIN chain : chain[i].life \in Life
    <3>1. \A i \in DOMAIN chain : chain[i] \in Entry
      BY Basics
    <3> QED BY <3>1 DEF Entry
  <2>3. Agrees(chain', lane')
    BY <2>1, <2>2, AgreesKept, Basics DEF OInv
  <2> QED BY <2>1, <2>3, Basics DEF Moved
<1> QED BY <1>1, <1>2

\* What a caller relies on in its lane is kept.
Keeps(l, m) ==
  /\ lane[l].accepted <= m.accepted
  /\ l # current /\ l <= lives => /\ Final(lane[l]) => Final(m)
                                  /\ Final(lane[l]) /\ Done(lane[l]) => Done(m)

LEMMA CallKept ==
  ASSUME OInv, NEW l \in Life, NEW m \in LaneState, lane' = [lane EXCEPT ![l] = m], Keeps(l, m),
         lives' \in Nat, lives <= lives', \A k \in 1 .. lives : k # current => k # current',
         NEW c \in Caller,
         \/ caller'[c] = caller[c]
         \/ /\ caller[c].pc = "waiting" /\ caller[c].life = l
            /\ caller'[c] = [caller[c] EXCEPT !.pc = "woken"]
            /\ m.inFlight = 0
            /\ Final(lane[l]) => Done(m)
  PROVE  CallSane(c)'
<1> DEFINE k == caller[c].life
<1>1. CallSane(c) /\ caller[c] \in Call
  BY Basics DEF OInv, CallsSane
<1>2. \A j \in Life : lane'[j] = IF j = l THEN m ELSE lane[j]
  BY Basics
<1> SUFFICES ASSUME caller'[c].pc # "off" PROVE CallSane(c)'
  BY DEF CallSane
<1>3. /\ caller[c].pc # "off" /\ caller'[c].life = k /\ caller'[c].asked = caller[c].asked
      /\ caller'[c].kind = caller[c].kind /\ caller'[c].round = caller[c].round
  BY <1>1 DEF Call
<1>4. k \in 1 .. lives /\ k \in Life /\ k \in 1 .. lives'
  BY <1>1, <1>3, Basics, Limits DEF CallSane
<1>5. caller[c].asked <= lane'[k].accepted
  <2>1. caller[c].asked <= lane[k].accepted
    BY <1>1, <1>3 DEF CallSane
  <2>2. lane[k] \in LaneState /\ lane'[k] \in LaneState
    BY <1>2, <1>4, Basics
  <2>3. lane[k].accepted <= lane'[k].accepted
    <3>1. CASE k = l
      BY <3>1, <1>2, <1>4 DEF Keeps
    <3>2. CASE k # l
      BY <3>2, <2>2, <1>2, <1>4 DEF LaneState
    <3> QED BY <3>1, <3>2
  <2> QED BY <2>1, <2>2, <2>3, <1>1 DEF LaneState, Call
<1>6. caller'[c].round = 0 => caller'[c].kind = "drain"
  BY <1>1, <1>3 DEF CallSane
<1>7. ASSUME caller[c].kind = "drain"
      PROVE  /\ k # current'
             /\ caller'[c].pc = "woken" \/ caller[c].round # 1 => Final(lane'[k])
             /\ caller[c].round = 0 \/ (caller'[c].pc = "woken" /\ caller[c].round # 1)
                => Done(lane'[k])
  <2>1. /\ k # current
        /\ caller[c].pc = "woken" \/ caller[c].round # 1 => Final(lane[k])
        /\ caller[c].round = 0 \/ (caller[c].pc = "woken" /\ caller[c].round # 1) => Done(lane[k])
    BY <1>1, <1>3, <1>7 DEF CallSane
  <2>2. k # current'
    BY <2>1, <1>4
  <2>3. CASE caller'[c] = caller[c]
    BY <2>1, <2>2, <2>3, <1>2, <1>4 DEF Keeps
  <2>4. CASE /\ caller[c].pc = "waiting" /\ k = l /\ m.inFlight = 0
             /\ caller'[c] = [caller[c] EXCEPT !.pc = "woken"]
             /\ Final(lane[l]) => Done(m)
    <3>1. Final(m) /\ lane'[k] = m
      BY <2>4, <1>2, <1>4 DEF Final
    <3> QED BY <2>1, <2>2, <2>4, <3>1 DEF Keeps
  <2> QED BY <2>3, <2>4
<1> QED BY <1>3, <1>4, <1>5, <1>6, <1>7 DEF CallSane

\* What was answered stays true.
LEMMA DurableKept ==
  ASSUME OInv, Late => Late', disk' \in Nat, Late' \/ disk <= disk',
         \A c \in Caller : caller'[c].answer = "settled" =>
           caller[c].answer = "settled" /\ caller'[c].asked = caller[c].asked
  PROVE  SettledIsDurable'
<1> SUFFICES ASSUME NEW c \in Caller, caller'[c].answer = "settled", ~Late'
             PROVE  disk' >= caller'[c].asked
  BY DEF SettledIsDurable
<1>1. disk >= caller[c].asked
  BY DEF OInv, SettledIsDurable
<1>2. caller[c].asked \in Nat /\ disk \in Nat
  BY Basics DEF Call
<1> QED BY <1>1, <1>2

\* A lane that stays what the others rely on.
LEMMA LanesKept ==
  ASSUME OInv, NEW l \in Life, NEW m \in LaneState, lane' = [lane EXCEPT ![l] = m], Sane(m)',
         stamp' \in Nat, stamp <= stamp', lives' \in Nat, lives <= lives', l <= lives',
         current' # 0 => current' = lives', \A k \in 1 .. lives : k # current => k # current',
         m.released => l # current' /\ Final(m) /\ (m.failed \/ m.committed = m.accepted)
  PROVE  LanesSane' /\ ReleasedSane'
<1>1. \A j \in Life : lane'[j] = IF j = l THEN m ELSE lane[j]
  BY Basics
<1>2. ASSUME NEW k \in Life PROVE Sane(lane[k])'
  <2>1. CASE k = l
    BY <2>1, <1>1
  <2>2. CASE k # l
    <3>1. lane'[k] = lane[k] /\ Sane(lane[k]) /\ lane[k].accepted \in Nat
      BY <2>2, <1>1, Basics DEF LaneState
    <3> QED BY <3>1, Basics DEF Sane
  <2> QED BY <2>1, <2>2
<1>3. \A k \in Life : k > lives' => lane'[k] = FreshLane
  BY <1>1, Basics DEF OInv, LanesSane
<1>4. ASSUME NEW k \in Life, lane'[k].released
      PROVE  k # current' /\ k <= lives' /\ Final(lane'[k])
             /\ (lane'[k].failed \/ lane'[k].committed = lane'[k].accepted)
  <2>1. CASE k = l
    BY <2>1, <1>1, <1>4
  <2>2. CASE k # l
    <3>1. k # current /\ k <= lives /\ Final(lane[k])
          /\ (lane[k].failed \/ lane[k].committed = lane[k].accepted)
      BY <2>2, <1>1, <1>4 DEF OInv, ReleasedSane
    <3>2. k \in 1 .. lives
      BY <3>1, Limits, Basics
    <3> QED BY <2>2, <3>1, <3>2, <1>1, Basics
  <2> QED BY <2>1, <2>2
<1> QED BY <1>2, <1>3, <1>4 DEF LanesSane, ReleasedSane

\* A lane is pumped and has accepted nothing new.
LEMMA KeepMoved ==
  ASSUME OInv, NEW l \in 1 .. lives, NEW m \in LaneState, Moved(l, m, lane[l].accepted),
         lives' = lives, disk' = disk, stamp' = stamp, current' \in {current, 0},
         closing' = 0 => closing = 0, Late => Late',
         current' # current /\ closing' = 0 =>
           lane[lives].inFlight = 0 /\ lane[lives].committed = lane[lives].accepted
  PROVE  LanesSane' /\ ReleasedSane' /\ OneLane' /\ Keeps(l, m)
<1> DEFINE n == lane[l].accepted
<1>1. /\ l \in Life /\ l \in Nat /\ lane[l] \in LaneState /\ Sane(lane[l])
      /\ \A j \in Life : lane'[j] = IF j = l THEN m ELSE lane[j]
      /\ m.committed = lane[l].committed /\ m.failed = lane[l].failed
      /\ m.released = lane[l].released /\ m.accepted = n
      /\ \/ m.inFlight = lane[l].inFlight
         \/ lane[l].inFlight = 0 /\ m.inFlight = n /\ lane[l].committed < n /\ ~m.released
  BY Basics, Limits DEF Moved
<1>2. n \in Nat /\ lane[l].committed \in Nat /\ lane[l].inFlight \in Nat
  BY <1>1 DEF LaneState
<1>3. Sane(m)'
  BY <1>1, <1>2 DEF Sane
<1>4. LanesSane' /\ ReleasedSane'
  <2>1. m.released => l # current' /\ Final(m) /\ (m.failed \/ m.committed = m.accepted)
    <3>1. lane[l].released => l # current /\ Final(lane[l])
                              /\ (lane[l].failed \/ lane[l].committed = lane[l].accepted)
      BY <1>1 DEF OInv, ReleasedSane
    <3>2. l # 0
      BY Basics
    <3> QED BY <1>1, <3>1, <3>2 DEF Final
  <2>2. /\ stamp' \in Nat /\ stamp <= stamp' /\ lives' \in Nat /\ lives <= lives' /\ l <= lives'
        /\ current' # 0 => current' = lives' /\ \A k \in 1 .. lives : k # current => k # current'
    BY Basics
  <2>3. lane' = [lane EXCEPT ![l] = m]
    BY DEF Moved
  <2> HIDE DEF n
  <2>4. l \in Life
    BY <1>1
  <2>5. stamp' \in Nat /\ stamp <= stamp'
    BY <2>2
  <2>6. lives' \in Nat /\ lives <= lives' /\ l <= lives'
    BY <2>2
  <2>7. current' # 0 => current' = lives'
    BY <2>2
  <2>8. \A k \in 1 .. lives : k # current => k # current'
    BY <2>2
  <2> QED BY <2>4, <1>3, <2>1, <2>3, <2>5, <2>6, <2>7, <2>8, LanesKept, Zenon
<1>5. Keeps(l, m)
  BY <1>1, <1>2 DEF Keeps, Final, Done
<1>6. ASSUME ~Late' PROVE OneLane'
  <2>1. /\ \A i \in DOMAIN chain : /\ chain[i].life = lives /\ disk <= chain[i].snapshot
                                   /\ chain[i].landed => disk = chain[i].snapshot
        /\ \A k \in Life : lane[k].committed <= disk
        /\ \A k \in Life : k < lives \/ (k = lives /\ current = 0 /\ closing = 0)
                           => lane[k].inFlight = 0 /\ lane[k].committed = lane[k].accepted
        /\ lives # 0 => disk <= lane[lives].accepted
        /\ disk <= stamp
    BY <1>6 DEF OInv, OneLane
  <2>2. lane[l].committed < n => l = lives
    BY <2>1, <1>1, <1>2, Basics
  <2>3. ASSUME NEW i \in DOMAIN chain'
        PROVE  /\ chain'[i].life = lives /\ disk <= chain'[i].snapshot
               /\ chain'[i].landed => disk = chain'[i].snapshot
    <3>1. CASE i \in DOMAIN chain /\ chain'[i] = chain[i]
      BY <3>1, <2>1
    <3>2. CASE m.inFlight # lane[l].inFlight /\ chain'[i] = Write(l, n)
      <4>1. l = lives /\ lives # 0
        BY <3>2, <1>1, <2>2, Basics
      <4>2. chain'[i].life = l /\ chain'[i].snapshot = n /\ ~chain'[i].landed
        BY <3>2 DEF Write
      <4> QED BY <4>1, <4>2, <2>1
    <3> QED BY <2>3, <3>1, <3>2 DEF Moved
  <2>4. ASSUME NEW k \in Life PROVE lane'[k].committed <= disk
    BY <2>1, <1>1
  <2>5. ASSUME NEW k \in Life, k < lives \/ (k = lives /\ current' = 0 /\ closing' = 0)
        PROVE  lane'[k].inFlight = 0 /\ lane'[k].committed = lane'[k].accepted
    <3>1. lane[k].inFlight = 0 /\ lane[k].committed = lane[k].accepted
      BY <2>5, <2>1
    <3> QED BY <3>1, <1>1, <1>2
  <2>6. lives # 0 => disk <= lane'[lives].accepted
    BY <2>1, <1>1, Basics, Limits
  <2> QED BY <2>1, <2>3, <2>4, <2>5, <2>6 DEF OneLane
<1>7. OneLane'
  BY <1>6 DEF OneLane
<1> QED BY <1>4, <1>5, <1>7

\* The current lane, or a new one, has accepted the next snapshot.
LEMMA AcceptMoved ==
  ASSUME OInv, NEW l \in Life, NEW m \in LaneState, Moved(l, m, stamp'),
         stamp' = stamp + 1, disk' = disk, closing' = closing, current' = l, lives' = l,
         (current = l /\ lives = l) \/ (current = 0 /\ l = lives + 1)
  PROVE  LanesSane' /\ ReleasedSane' /\ OneLane' /\ Keeps(l, m)
<1>1. /\ l \in Nat \ {0} /\ lane[l] \in LaneState /\ Sane(lane[l])
      /\ \A j \in Life : lane'[j] = IF j = l THEN m ELSE lane[j]
      /\ m.committed = lane[l].committed /\ m.released = lane[l].released /\ m.accepted = stamp'
      /\ m.inFlight = lane[l].inFlight \/ (m.inFlight = stamp' /\ lane[l].committed < stamp')
  BY Basics, Limits DEF Moved
<1>2. stamp' \in Nat /\ lane[l].committed \in Nat /\ lane[l].inFlight \in Nat /\ lane[l].accepted \in Nat
  BY <1>1, Basics DEF LaneState
<1>3. Sane(m)'
  BY <1>1, <1>2, Basics DEF Sane
<1>4. ~lane[l].released
  BY Basics DEF OInv, ReleasedSane
<1>5. LanesSane' /\ ReleasedSane'
  <2>1. /\ stamp <= stamp' /\ lives' \in Nat /\ lives <= lives' /\ l <= lives'
        /\ current' # 0 => current' = lives' /\ \A k \in 1 .. lives : k # current => k # current'
    BY Basics
  <2>2. lane' = [lane EXCEPT ![l] = m]
    BY DEF Moved
  <2> QED BY <1>1, <1>2, <1>3, <1>4, <2>1, <2>2, LanesKept
<1>6. Keeps(l, m)
  BY <1>1, <1>2, Basics DEF Keeps, Sane
<1>7. ASSUME ~Late' PROVE OneLane'
  <2>0. ~Late /\ (current = 0 => closing = 0)
    BY <1>7, Basics DEF Late
  <2>1. /\ \A i \in DOMAIN chain : /\ chain[i].life = lives /\ disk <= chain[i].snapshot
                                   /\ chain[i].landed => disk = chain[i].snapshot
        /\ \A k \in Life : lane[k].committed <= disk
        /\ \A k \in Life : k < lives \/ (k = lives /\ current = 0 /\ closing = 0)
                           => lane[k].inFlight = 0 /\ lane[k].committed = lane[k].accepted
        /\ disk <= stamp
    BY <2>0 DEF OInv, OneLane
  <2>2. ASSUME NEW i \in DOMAIN chain PROVE lives = l
    <3>1. lives = chain[i].life /\ lane[chain[i].life].inFlight # 0 /\ chain[i] \in Entry
      BY <2>1, Basics DEF OInv, Agrees
    <3>2. lives \in Life
      BY <3>1 DEF Entry
    <3> QED BY <2>0, <2>1, <3>1, <3>2
  <2>3. ASSUME NEW i \in DOMAIN chain'
        PROVE  /\ chain'[i].life = l /\ disk <= chain'[i].snapshot
               /\ chain'[i].landed => disk = chain'[i].snapshot
    <3>1. CASE i \in DOMAIN chain /\ chain'[i] = chain[i]
      BY <3>1, <2>1, <2>2
    <3>2. CASE chain'[i] = Write(l, stamp')
      <4>1. chain'[i].life = l /\ chain'[i].snapshot = stamp' /\ ~chain'[i].landed
        BY <3>2 DEF Write
      <4> QED BY <4>1, <2>1, Basics
    <3> QED BY <2>3, <3>1, <3>2 DEF Moved
  <2>4. ASSUME NEW k \in Life PROVE lane'[k].committed <= disk
    BY <2>1, <1>1
  <2>5. ASSUME NEW k \in Life, k < l
        PROVE  lane'[k].inFlight = 0 /\ lane'[k].committed = lane'[k].accepted
    BY <2>5, <2>0, <2>1, <1>1, Basics
  <2>6. disk <= lane'[l].accepted /\ disk <= stamp'
    BY <2>1, <1>1, Basics
  <2> QED BY <1>1, <2>3, <2>4, <2>5, <2>6 DEF OneLane
<1> QED BY <1>5, <1>6, <1>7 DEF OneLane
------------------------------------------------------------------------------
(* The actions *)

LEMMA DoTimerFires ==
  ASSUME OInv, NEW l \in Life, TimerFires(l) PROVE OInv'
<1>1. l \in 1 .. lives
  <2>1. lane[l].timer = TRUE => l <= lives
    BY Basics DEF OInv, LanesSane, FreshLane
  <2> QED BY <2>1, Basics, Limits DEF TimerFires, LaneState
<1> DEFINE ln == [lane[l] EXCEPT !.timer = FALSE]
<1>2. lane[l] \in LaneState
  BY Basics
<1>3. /\ ln \in LaneState /\ ln.inFlight = lane[l].inFlight /\ ln.committed = lane[l].committed
      /\ ln.failed = lane[l].failed /\ ln.released = lane[l].released
      /\ ln.accepted = lane[l].accepted
  BY <1>2 DEF LaneState
<1>4. /\ Pump(l, ln) /\ lives' = lives /\ current' = current /\ disk' = disk /\ stamp' = stamp
      /\ caller' = caller /\ closing' = closing /\ faults' = faults
  BY DEF TimerFires
<1> HIDE DEF ln
<1>5. PICK m \in LaneState : Moved(l, m, lane[l].accepted)
  BY <1>3, <1>4, Pumped
<1>6. Late' <=> Late
  BY <1>4 DEF Late
<1>7. LanesSane' /\ ReleasedSane' /\ OneLane' /\ Keeps(l, m)
  BY <1>1, <1>4, <1>5, <1>6, KeepMoved
<1>8. lane' = [lane EXCEPT ![l] = m] /\ chain' \in Seq(Entry) /\ Agrees(chain', lane')
  BY <1>5 DEF Moved
<1>9. Typed'
  BY <1>4, <1>8, Basics DEF OInv, Typed, Entry
<1>10. CallsSane'
  <2>1. lives' \in Nat /\ lives <= lives' /\ \A k \in 1 .. lives : k # current => k # current'
    BY <1>4, Basics
  <2> QED BY <1>4, <1>7, <1>8, <2>1, CallKept DEF CallsSane
<1>11. SettledIsDurable'
  BY <1>4, <1>6, DurableKept, Basics
<1> QED BY <1>7, <1>8, <1>9, <1>10, <1>11 DEF OInv

LEMMA DoAccept ==
  ASSUME OInv, Accept PROVE OInv'
<1>1. PICK l \in Life :
       /\ IF current # 0 THEN l = current /\ UNCHANGED lives
          ELSE l = lives + 1 /\ lives' = l
       /\ current' = l
       /\ \/ Pump(l, [lane[l] EXCEPT !.accepted = stamp', !.timer = FALSE])
          \/ /\ lane' = [lane EXCEPT ![l].accepted = stamp', ![l].timer = TRUE]
             /\ UNCHANGED chain
  BY DEF Accept
<1>2. /\ stamp' = stamp + 1 /\ disk' = disk /\ caller' = caller /\ closing' = closing
      /\ faults' = faults
  BY DEF Accept
<1>3. (current = l /\ lives = l /\ lives' = l) \/ (current = 0 /\ l = lives + 1 /\ lives' = l)
  BY <1>1, Basics
<1>4. stamp' \in Nat /\ lane[l] \in LaneState /\ l \in 1 .. MaxLives
  BY <1>2, Basics, Limits
<1>5. PICK m \in LaneState : Moved(l, m, stamp')
  <2>1. CASE Pump(l, [lane[l] EXCEPT !.accepted = stamp', !.timer = FALSE])
    <3> DEFINE ln == [lane[l] EXCEPT !.accepted = stamp', !.timer = FALSE]
    <3>1. /\ ln \in LaneState /\ ln.inFlight = lane[l].inFlight /\ ln.committed = lane[l].committed
          /\ ln.failed = lane[l].failed /\ ln.released = lane[l].released /\ ln.accepted = stamp'
      BY <1>4 DEF LaneState
    <3>2. Pump(l, ln)
      BY <2>1
    <3> HIDE DEF ln
    <3> QED BY <3>1, <3>2, Pumped
  <2>2. CASE lane' = [lane EXCEPT ![l].accepted = stamp', ![l].timer = TRUE] /\ UNCHANGED chain
    <3> DEFINE ln == [lane[l] EXCEPT !.accepted = stamp', !.timer = TRUE]
    <3>1. /\ ln \in LaneState /\ ln.inFlight = lane[l].inFlight /\ ln.committed = lane[l].committed
          /\ ln.failed = lane[l].failed /\ ln.released = lane[l].released /\ ln.accepted = stamp'
      BY <1>4 DEF LaneState
    <3>2. lane' = [lane EXCEPT ![l] = ln]
      BY <2>2, Basics
    <3> HIDE DEF ln
    <3>3. \A i \in DOMAIN chain : chain[i].life \in Life
      <4>1. \A i \in DOMAIN chain : chain[i] \in Entry
        BY Basics
      <4> QED BY <4>1 DEF Entry
    <3>4. Agrees(chain, [lane EXCEPT ![l] = ln])
      <4>1. Agrees(chain, lane) /\ lane \in [Life -> LaneState]
        BY Basics DEF OInv
      <4> QED BY <4>1, <3>1, <3>3, AgreesKept
    <3>5. Agrees(chain', lane')
      BY <2>2, <3>2, <3>4
    <3> QED BY <2>2, <3>1, <3>2, <3>5, Basics DEF Moved
  <2> QED BY <1>1, <2>1, <2>2
<1>6. LanesSane' /\ ReleasedSane' /\ OneLane' /\ Keeps(l, m)
  BY <1>1, <1>2, <1>3, <1>5, AcceptMoved
<1>7. lane' = [lane EXCEPT ![l] = m] /\ chain' \in Seq(Entry) /\ Agrees(chain', lane')
  BY <1>5 DEF Moved
<1>8. Late => Late'
  BY <1>2, <1>3, Basics DEF Late
<1>9. Typed'
  BY <1>1, <1>2, <1>3, <1>4, <1>7, Basics, Limits DEF OInv, Typed, Entry
<1>10. CallsSane'
  <2>1. lives' \in Nat /\ lives <= lives' /\ \A k \in 1 .. lives : k # current => k # current'
    BY <1>1, <1>3, Basics
  <2> QED BY <1>2, <1>6, <1>7, <2>1, CallKept DEF CallsSane
<1>11. SettledIsDurable'
  BY <1>2, <1>8, DurableKept, Basics
<1> QED BY <1>6, <1>7, <1>9, <1>10, <1>11 DEF OInv

\* A flush, an eviction, or the disposal.
LEMMA DoSettle ==
  ASSUME OInv, NEW c \in Caller, NEW kind \in {"flush", "drain"}, Settle(c, kind),
         lives' = lives, disk' = disk, stamp' = stamp, faults' = faults,
         current' \in {current, 0}, closing' \in 0 .. lives,
         kind = "drain" => current' = 0, closing' = 0 => closing = 0, Late => Late',
         current' # current /\ closing' = 0 =>
           lane[lives].inFlight = 0 /\ lane[lives].committed = lane[lives].accepted
  PROVE  OInv'
<1> DEFINE l == current
           ln == [lane[l] EXCEPT !.timer = FALSE]
<1>1. /\ l \in 1 .. lives /\ l \in Life /\ lane[l] \in LaneState /\ caller[c].pc = "off"
      /\ l = lives
  BY Basics DEF Settle
<1>2. /\ ln \in LaneState /\ ln.inFlight = lane[l].inFlight /\ ln.committed = lane[l].committed
      /\ ln.failed = lane[l].failed /\ ln.released = lane[l].released
      /\ ln.accepted = lane[l].accepted
  BY <1>1 DEF LaneState
<1>3. /\ Pump(l, ln)
      /\ caller' = [caller EXCEPT ![c] = [pc |-> Waits(ln), life |-> l, kind |-> kind,
                                          round |-> 1, asked |-> ln.accepted, answer |-> "none"]]
  BY DEF Settle
<1> HIDE DEF ln
<1>4. PICK m \in LaneState : Moved(l, m, lane[l].accepted)
  BY <1>1, <1>2, <1>3, Pumped
<1>5. LanesSane' /\ ReleasedSane' /\ OneLane' /\ Keeps(l, m)
  BY <1>1, <1>4, KeepMoved
<1>6. /\ lane' = [lane EXCEPT ![l] = m] /\ chain' \in Seq(Entry) /\ Agrees(chain', lane')
      /\ m.accepted = lane[l].accepted
      /\ m.inFlight = lane[l].inFlight \/ m.inFlight = lane[l].accepted
  BY <1>4 DEF Moved
<1>7. Waits(ln) = "woken" => lane[l].inFlight = 0
  BY <1>2 DEF Waits
<1>8. Waits(ln) \in {"woken", "waiting"}
  BY DEF Waits
<1>9. caller'[c] = [pc |-> Waits(ln), life |-> l, kind |-> kind, round |-> 1,
                    asked |-> lane[l].accepted, answer |-> "none"]
      /\ \A d \in Caller : d # c => caller'[d] = caller[d]
  BY <1>2, <1>3, Basics
<1>10. Typed'
  <2>1. caller' \in [Caller -> Call]
    <3>1. lane[l].accepted \in Nat /\ l \in 0 .. MaxLives
      BY <1>1, Basics, Limits DEF LaneState
    <3>2. [pc |-> Waits(ln), life |-> l, kind |-> kind,
           round |-> 1, asked |-> ln.accepted, answer |-> "none"] \in Call
      BY <1>2, <1>8, <3>1 DEF Call
    <3> QED BY <1>3, <3>2, Basics
  <2>2. lane' \in [Life -> LaneState]
    BY <1>6, Basics
  <2>3. chain' \in Seq([life : Life, snapshot : Nat, landed : BOOLEAN])
    BY <1>6 DEF Entry
  <2>4. lives' \in 0 .. MaxLives /\ current' \in 0 .. lives' /\ closing' \in 0 .. lives'
    BY Basics, Limits
  <2>5. {disk', stamp', faults'} \subseteq Nat
    BY Basics
  <2> QED BY <2>1, <2>2, <2>3, <2>4, <2>5 DEF Typed
<1>11. CallsSane'
  <2> SUFFICES ASSUME NEW d \in Caller PROVE CallSane(d)'
    BY DEF CallsSane
  <2>1. CASE d = c
    <3>1. lane'[l] = m /\ lane[l].accepted \in Nat
      BY <1>1, <1>6, Basics DEF LaneState
    <3>2. Waits(ln) = "woken" => Final(m)
      BY <1>6, <1>7 DEF Final
    <3>3. kind = "drain" => l # current'
      BY <1>1
    <3>4. lane[l].accepted <= m.accepted
      BY <1>6, <3>1
    <3> QED BY <1>1, <1>9, <2>1, <3>1, <3>2, <3>3, <3>4 DEF CallSane
  <2>2. CASE d # c
    <3>1. lives' \in Nat /\ lives <= lives' /\ \A k \in 1 .. lives : k # current => k # current'
      BY Basics
    <3> QED BY <1>1, <1>5, <1>6, <1>9, <2>2, <3>1, CallKept
  <2> QED BY <2>1, <2>2
<1>12. SettledIsDurable'
  <2>1. \A d \in Caller : caller'[d].answer = "settled" =>
          caller[d].answer = "settled" /\ caller'[d].asked = caller[d].asked
    BY <1>9
  <2> QED BY <2>1, DurableKept, Basics
<1> QED BY <1>5, <1>6, <1>10, <1>11, <1>12 DEF OInv

LEMMA DoCalls ==
  ASSUME OInv, NEW c \in Caller, Flush(c) \/ Evict(c) \/ Dispose(c) PROVE OInv'
<1>1. CASE Flush(c)
  <2>1. /\ Settle(c, "flush") /\ lives' = lives /\ current' = current /\ disk' = disk
        /\ stamp' = stamp /\ closing' = closing /\ faults' = faults
    BY <1>1 DEF Flush
  <2>2. Late => Late'
    BY <2>1 DEF Late
  <2> QED BY <2>1, <2>2, DoSettle, Basics
<1>2. CASE Evict(c)
  <2>1. /\ Settle(c, "drain") /\ lives' = lives /\ current' = 0 /\ disk' = disk
        /\ stamp' = stamp /\ closing' = closing /\ faults' = faults
        /\ current # 0 /\ ~HasUncommittedWork(lane[current])
    BY <1>2 DEF Evict, Evictable
  <2>2. Late => Late'
    BY <2>1 DEF Late
  <2>3. lane[lives].inFlight = 0 /\ lane[lives].committed = lane[lives].accepted
    <3>1. Sane(lane[lives]) /\ lane[lives] \in LaneState /\ current = lives
      BY <2>1, Basics
    <3> QED BY <2>1, <3>1 DEF HasUncommittedWork, State, Sane, LaneState
  <2>4. current' \in {current, 0} /\ closing' \in 0 .. lives /\ (closing' = 0 => closing = 0)
    BY <2>1, Basics
  <2> HIDE DEF Late
  <2> QED BY <2>1, <2>2, <2>3, <2>4, DoSettle
<1>3. CASE Dispose(c)
  <2>1. /\ Settle(c, "drain") /\ lives' = lives /\ current' = 0 /\ disk' = disk
        /\ stamp' = stamp /\ closing' = current /\ faults' = faults /\ closing = 0
        /\ current # 0
    BY <1>3 DEF Dispose, Settle
  <2>2. Late => Late'
    BY <2>1 DEF Late
  <2>3. current' \in {current, 0} /\ closing' \in 0 .. lives /\ closing' # 0
    BY <2>1, Basics
  <2> QED BY <2>1, <2>2, <2>3, DoSettle
<1> QED BY <1>1, <1>2, <1>3

LEMMA DoAgain ==
  ASSUME OInv, NEW c \in Caller, Again(c) PROVE OInv'
<1> DEFINE l == caller[c].life
<1>1. /\ caller[c].pc = "woken" /\ caller[c].round > 0 /\ ~SettleEnds(c)
      /\ Pump(l, lane[l])
      /\ caller' = [caller EXCEPT ![c].round = @ + 1, ![c].pc = Waits(lane[l])]
      /\ lives' = lives /\ current' = current /\ disk' = disk /\ stamp' = stamp
      /\ closing' = closing /\ faults' = faults
  BY DEF Again, Woken
<1>2. CallSane(c) /\ caller[c] \in Call /\ caller[c].round \in Nat
  BY Basics DEF OInv, CallsSane, Call
<1>3. l \in 1 .. lives /\ l \in Life
  BY <1>1, <1>2, Basics, Limits DEF CallSane
<1>4. lane[l] \in LaneState /\ Sane(lane[l])
  BY <1>3, Basics
<1>5. PICK m \in LaneState : Moved(l, m, lane[l].accepted)
  BY <1>1, <1>3, <1>4, Pumped
<1>6. Late' <=> Late
  BY <1>1 DEF Late
<1>7. LanesSane' /\ ReleasedSane' /\ OneLane' /\ Keeps(l, m)
  BY <1>1, <1>3, <1>5, <1>6, KeepMoved
<1>8. /\ lane' = [lane EXCEPT ![l] = m] /\ chain' \in Seq(Entry) /\ Agrees(chain', lane')
      /\ m.accepted = lane[l].accepted
  BY <1>5 DEF Moved
<1>9. Waits(lane[l]) = "waiting"
  BY <1>1, <1>4 DEF SettleEnds, Waits, CanCommit, LaneState
<1>10. /\ caller' = [caller EXCEPT ![c] = [caller[c] EXCEPT !.round = @ + 1, !.pc = "waiting"]]
       /\ [caller[c] EXCEPT !.round = @ + 1, !.pc = "waiting"] \in Call
       /\ caller'[c] = [caller[c] EXCEPT !.round = @ + 1, !.pc = "waiting"]
       /\ \A d \in Caller : d # c => caller'[d] = caller[d]
  BY <1>1, <1>2, <1>9, Basics DEF Call
<1>11. Typed'
  <2>1. caller' \in [Caller -> Call]
    BY <1>10, Basics
  <2>2. lane' \in [Life -> LaneState]
    BY <1>8, Basics
  <2>3. chain' \in Seq([life : Life, snapshot : Nat, landed : BOOLEAN])
    BY <1>8 DEF Entry
  <2>4. lives' \in 0 .. MaxLives /\ current' \in 0 .. lives' /\ closing' \in 0 .. lives'
    BY <1>1, Basics, Limits
  <2>5. {disk', stamp', faults'} \subseteq Nat
    BY <1>1, Basics
  <2> QED BY <2>1, <2>2, <2>3, <2>4, <2>5 DEF Typed
<1>12. CallsSane'
  <2> SUFFICES ASSUME NEW d \in Caller PROVE CallSane(d)'
    BY DEF CallsSane
  <2>1. CASE d = c
    <3>1. /\ caller'[c].life = l /\ caller'[c].asked = caller[c].asked /\ caller'[c].pc = "waiting"
          /\ caller'[c].kind = caller[c].kind /\ caller'[c].round = caller[c].round + 1
      BY <1>2, <1>10 DEF Call
    <3>2. lane'[l] = m /\ m.accepted = lane[l].accepted
      BY <1>3, <1>8, Basics
    <3>3. l \in 1 .. lives /\ caller[c].asked <= lane[l].accepted
      BY <1>1, <1>2 DEF CallSane
    <3>4. caller[c].kind = "drain" => l # current /\ Final(lane[l])
      BY <1>1, <1>2 DEF CallSane
    <3>5. caller[c].kind = "drain" => l # current' /\ Final(m)
      BY <1>1, <1>3, <1>7, <3>4, Basics DEF Keeps
    <3>6. caller'[c].round # 0 /\ caller'[c].round # 1
      BY <1>1, <1>2, <3>1
    <3> QED BY <1>1, <2>1, <3>1, <3>2, <3>3, <3>5, <3>6 DEF CallSane
  <2>2. CASE d # c
    <3>1. lives' \in Nat /\ lives <= lives' /\ \A k \in 1 .. lives : k # current => k # current'
      BY <1>1, Basics
    <3> QED BY <1>3, <1>7, <1>8, <1>10, <2>2, <3>1, CallKept
  <2> QED BY <2>1, <2>2
<1>13. SettledIsDurable'
  <2>1. \A d \in Caller : caller'[d].answer = "settled" =>
          caller[d].answer = "settled" /\ caller'[d].asked = caller[d].asked
    BY <1>2, <1>10 DEF Call
  <2> QED BY <1>1, <1>6, <2>1, DurableKept, Basics
<1> QED BY <1>7, <1>8, <1>11, <1>12, <1>13 DEF OInv

\* Whoever awaits the promise of lane l's pump is woken.
LEMMA Woke ==
  ASSUME OInv, NEW l \in Life, NEW m \in LaneState, lane' = [lane EXCEPT ![l] = m], Keeps(l, m),
         m.inFlight = 0, Final(lane[l]) => Done(m), Wake(l), lives' = lives, current' = current
  PROVE  /\ caller' \in [Caller -> Call] /\ CallsSane'
         /\ \A c \in Caller : caller'[c].answer = caller[c].answer
                             /\ caller'[c].asked = caller[c].asked
<1>1. \A c \in Caller : caller[c] \in Call
  BY Basics
<1>2. ASSUME NEW c \in Caller
      PROVE  /\ caller'[c] = IF caller[c].life = l /\ caller[c].pc = "waiting"
                             THEN [caller[c] EXCEPT !.pc = "woken"] ELSE caller[c]
             /\ caller'[c] \in Call
             /\ caller'[c].answer = caller[c].answer /\ caller'[c].asked = caller[c].asked
  BY <1>1 DEF Wake, Call
<1>3. caller' \in [Caller -> Call]
  BY <1>1, <1>2 DEF Wake
<1>4. lives' \in Nat /\ lives <= lives' /\ \A k \in 1 .. lives : k # current => k # current'
  BY Basics
<1>5. ASSUME NEW c \in Caller PROVE CallSane(c)'
  <2>1. CASE caller[c].life = l /\ caller[c].pc = "waiting"
    <3>1. caller'[c] = [caller[c] EXCEPT !.pc = "woken"]
      BY <1>2, <2>1
    <3> QED BY <1>4, <2>1, <3>1, CallKept
  <2>2. CASE ~(caller[c].life = l /\ caller[c].pc = "waiting")
    <3>1. caller'[c] = caller[c]
      BY <1>2, <2>2
    <3> QED BY <1>4, <3>1, CallKept
  <2> QED BY <2>1, <2>2
<1> QED BY <1>2, <1>3, <1>5 DEF CallsSane

LEMMA AtHead ==
  ASSUME OInv, chain # <<>>
  PROVE  LET h == Head(chain) IN
         /\ h = chain[1] /\ 1 \in DOMAIN chain /\ h \in Entry
         /\ h.life \in Life /\ h.life \in 1 .. lives
         /\ lane[h.life].inFlight = h.snapshot /\ h.snapshot # 0 /\ h.snapshot \in Nat
         /\ ~Late => /\ h.life = lives /\ disk <= h.snapshot /\ (h.landed => disk = h.snapshot)
                     /\ DOMAIN chain = {1}
<1>1. /\ Head(chain) = chain[1] /\ 1 \in DOMAIN chain
      /\ \A i \in DOMAIN chain : chain[i] \in Entry
  BY Basics
<1>2. Head(chain).life \in Life /\ Head(chain).snapshot \in Nat /\ Head(chain) \in Entry
  BY <1>1 DEF Entry
<1>3. lane[Head(chain).life].inFlight = Head(chain).snapshot /\ Head(chain).snapshot # 0
  BY <1>1 DEF OInv, Agrees
<1>4. Head(chain).life \in 1 .. lives
  <2>1. FreshLane.inFlight = 0
    BY DEF FreshLane
  <2>2. Head(chain).life <= lives
    BY <1>2, <1>3, <2>1, Basics DEF OInv, LanesSane
  <2> QED BY <1>2, <2>2, Limits, Basics
<1>5. ASSUME ~Late
      PROVE  /\ Head(chain).life = lives /\ disk <= Head(chain).snapshot
             /\ (Head(chain).landed => disk = Head(chain).snapshot) /\ DOMAIN chain = {1}
  <2>1. \A i \in DOMAIN chain : /\ chain[i].life = lives /\ disk <= chain[i].snapshot
                                /\ chain[i].landed => disk = chain[i].snapshot
    BY <1>5 DEF OInv, OneLane
  <2>2. \A i \in DOMAIN chain : i = 1
    BY <1>1, <2>1 DEF OInv, Agrees
  <2> QED BY <1>1, <2>1, <2>2
<1> QED BY <1>1, <1>2, <1>3, <1>4, <1>5

\* The pump of the lane at the head ends.
LEMMA PumpEnds ==
  ASSUME OInv, chain # <<>>, NEW l, l = Head(chain).life, NEW m \in LaneState,
         m.inFlight = 0, m.accepted = lane[l].accepted, m.released = lane[l].released,
         m.committed <= m.accepted, Final(lane[l]) => m.failed \/ m.committed = m.accepted,
         ~Late => m.committed <= disk,
         lane' = [lane EXCEPT ![l] = m], chain' = Tail(chain), Wake(l), faults' \in Nat,
         lives' = lives, current' = current, disk' = disk, stamp' = stamp, closing' = closing
  PROVE  OInv'
<1>1. /\ 1 \in DOMAIN chain /\ l \in Life /\ l \in 1 .. lives /\ lane[l].inFlight # 0
      /\ ~Late => l = lives /\ DOMAIN chain = {1}
      /\ lane[l] \in LaneState /\ Sane(lane[l])
  BY AtHead, Basics
<1>2. /\ chain' \in Seq(Entry) /\ Agrees(chain', lane')
      /\ \A i \in DOMAIN chain' : i + 1 \in DOMAIN chain /\ chain'[i] = chain[i + 1]
  <2>1. chain \in Seq(Entry) /\ lane \in [Life -> LaneState] /\ Agrees(chain, lane)
    BY Basics DEF OInv
  <2> QED BY <2>1, ChainEnds
<1>3. \A j \in Life : lane'[j] = IF j = l THEN m ELSE lane[j]
  BY Basics
<1>4. LanesSane' /\ ReleasedSane'
  <2>1. Sane(m)'
    BY <1>1, Basics DEF Sane, LaneState
  <2>2. m.released => l # current' /\ Final(m) /\ (m.failed \/ m.committed = m.accepted)
    <3>1. lane[l].released => l # current /\ Final(lane[l])
      BY <1>1 DEF OInv, ReleasedSane
    <3> QED BY <3>1 DEF Final
  <2>3. stamp' \in Nat /\ stamp <= stamp'
    BY Basics
  <2>4. lives' \in Nat /\ lives <= lives' /\ l <= lives'
    BY <1>1, Basics
  <2>5. current' # 0 => current' = lives'
    BY Basics
  <2>6. \A k \in 1 .. lives : k # current => k # current'
    OBVIOUS
  <2> QED BY <1>1, <2>1, <2>2, <2>3, <2>4, <2>5, <2>6, LanesKept, Zenon
<1>5. (Final(lane[l]) => Done(m)) /\ Keeps(l, m)
  BY <1>1 DEF Keeps, Final, Done, LaneState
<1>6. /\ caller' \in [Caller -> Call] /\ CallsSane'
      /\ \A c \in Caller : caller'[c].answer = caller[c].answer /\ caller'[c].asked = caller[c].asked
  BY <1>1, <1>5, Woke
<1>7. ASSUME ~Late' PROVE OneLane'
  <2>0. ~Late
    BY <1>7 DEF Late
  <2>1. /\ \A k \in Life : lane[k].committed <= disk
        /\ \A k \in Life : k < lives \/ (k = lives /\ current = 0 /\ closing = 0)
                           => lane[k].inFlight = 0 /\ lane[k].committed = lane[k].accepted
        /\ lives # 0 => disk <= lane[lives].accepted
        /\ disk <= stamp
    BY <2>0 DEF OInv, OneLane
  <2>2. \A i \in DOMAIN chain' : FALSE
    <3>1. \A i \in DOMAIN chain' : i \in Nat \ {0}
      BY <1>2
    <3> QED BY <1>1, <1>2, <2>0, <3>1
  <2>3. ASSUME NEW k \in Life PROVE lane'[k].committed <= disk
    BY <2>0, <2>1, <1>3
  <2>4. ASSUME NEW k \in Life, k < lives \/ (k = lives /\ current = 0 /\ closing = 0)
        PROVE  lane'[k].inFlight = 0 /\ lane'[k].committed = lane'[k].accepted
    BY <2>1, <2>4, <1>1, <1>3
  <2>5. lives # 0 => disk <= lane'[lives].accepted
    BY <2>0, <2>1, <1>1, <1>3
  <2> QED BY <2>1, <2>2, <2>3, <2>4, <2>5 DEF OneLane
<1>8. OneLane'
  BY <1>7 DEF OneLane
<1>9. Typed'
  <2>1. caller' \in [Caller -> Call]
    BY <1>6
  <2>2. lane' \in [Life -> LaneState]
    BY <1>1, Basics
  <2>3. chain' \in Seq([life : Life, snapshot : Nat, landed : BOOLEAN])
    BY <1>2 DEF Entry
  <2>4. lives' \in 0 .. MaxLives /\ current' \in 0 .. lives' /\ closing' \in 0 .. lives'
    BY <1>1, Basics, Limits
  <2>5. {disk', stamp', faults'} \subseteq Nat
    BY <1>1, Basics
  <2> QED BY <2>1, <2>2, <2>3, <2>4, <2>5 DEF Typed
<1>10. SettledIsDurable'
  BY <1>6, DurableKept, Basics DEF Late
<1> QED BY <1>2, <1>4, <1>6, <1>8, <1>9, <1>10 DEF OInv

LEMMA DoCommitFails ==
  ASSUME OInv, CommitFails PROVE OInv'
<1> DEFINE l == Head(chain).life
           m == [lane[l] EXCEPT !.failed = TRUE, !.inFlight = 0]
<1>1. /\ chain # <<>> /\ lane' = [lane EXCEPT ![l] = m] /\ Wake(l) /\ chain' = Tail(chain)
      /\ lives' = lives /\ current' = current /\ disk' = disk /\ stamp' = stamp
      /\ closing' = closing /\ faults' = faults + 1
  BY AtHead, Basics DEF CommitFails
<1>2. l \in Life /\ lane[l] \in LaneState /\ Sane(lane[l])
  BY <1>1, AtHead, Basics
<1>3. /\ m \in LaneState /\ m.inFlight = 0 /\ m.accepted = lane[l].accepted
      /\ m.released = lane[l].released /\ m.committed = lane[l].committed /\ m.failed
  BY <1>2 DEF LaneState
<1>4. ~Late => m.committed <= disk
  BY <1>2, <1>3 DEF OInv, OneLane
<1>5. m.committed <= m.accepted
  BY <1>2, <1>3 DEF Sane
<1>6. faults' \in Nat
  BY <1>1, Basics
<1> HIDE DEF l, m
<1>7. l = Head(chain).life
  BY DEF l
<1> QED BY <1>1, <1>3, <1>4, <1>5, <1>6, <1>7, PumpEnds

\* The lane at the head goes on with its next commit.
LEMMA PumpGoesOn ==
  ASSUME OInv, chain # <<>>, Head(chain).landed, NEW l, l = Head(chain).life,
         NEW m \in LaneState, m.inFlight = m.accepted, m.accepted = lane[l].accepted,
         ~m.released, m.released = lane[l].released,
         m.committed = lane[l].inFlight, m.committed < m.accepted,
         lane' = [lane EXCEPT ![l] = m],
         chain' = Append(Tail(chain), Write(l, lane[l].accepted)),
         caller' = caller, faults' = faults,
         lives' = lives, current' = current, disk' = disk, stamp' = stamp, closing' = closing
  PROVE  OInv'
<1>1. /\ 1 \in DOMAIN chain /\ l \in Life /\ l \in 1 .. lives /\ lane[l].inFlight # 0
      /\ ~Late => l = lives /\ DOMAIN chain = {1} /\ disk = lane[l].inFlight
      /\ lane[l] \in LaneState /\ Sane(lane[l])
  BY AtHead, Basics
<1>2. PICK z \in LaneState : z.inFlight = 0
  <2>1. FreshLane \in LaneState /\ FreshLane.inFlight = 0
    BY DEF FreshLane, LaneState
  <2> QED BY <2>1
<1> DEFINE mid == [lane EXCEPT ![l] = z]
           t == Tail(chain)
<1>3. chain \in Seq(Entry) /\ lane \in [Life -> LaneState] /\ Agrees(chain, lane)
  BY Basics DEF OInv
<1>4. /\ t \in Seq(Entry) /\ Agrees(t, mid)
      /\ \A i \in DOMAIN t : i + 1 \in DOMAIN chain /\ t[i] = chain[i + 1]
  BY <1>2, <1>3, ChainEnds
<1>5. /\ mid \in [Life -> LaneState] /\ mid[l].inFlight = 0 /\ lane' = [mid EXCEPT ![l] = m]
      /\ m.inFlight # 0
  BY <1>1, <1>2, <1>3 DEF LaneState
<1> HIDE DEF mid, t
<1>6. /\ chain' \in Seq(Entry) /\ Agrees(chain', lane')
      /\ \A i \in DOMAIN chain' : (i \in DOMAIN t /\ chain'[i] = t[i]) \/ chain'[i] = Write(l, m.inFlight)
  <2>1. chain' = Append(t, Write(l, m.inFlight))
    BY DEF t
  <2> DEFINE u == Append(t, Write(l, m.inFlight))
  <2>2. /\ u \in Seq(Entry) /\ Agrees(u, [mid EXCEPT ![l] = m])
        /\ \A i \in DOMAIN u : (i \in DOMAIN t /\ u[i] = t[i]) \/ u[i] = Write(l, m.inFlight)
    <3>1. t \in Seq(Entry) /\ mid \in [Life -> LaneState] /\ Agrees(t, mid)
      BY <1>4, <1>5
    <3>2. l \in Life /\ mid[l].inFlight = 0 /\ m \in LaneState /\ m.inFlight # 0
      BY <1>1, <1>5
    <3> QED BY <3>1, <3>2, ChainStarts, Zenon
  <2> HIDE DEF u
  <2>3. chain' = u
    BY <2>1 DEF u
  <2> QED BY <1>5, <2>2, <2>3
<1>7. \A j \in Life : lane'[j] = IF j = l THEN m ELSE lane[j]
  BY Basics
<1>8. LanesSane' /\ ReleasedSane'
  <2>1. Sane(m)'
    <3>1. m.accepted \in Nat /\ m.committed \in Nat
      BY DEF LaneState
    <3>2. lane[l].accepted <= stamp
      BY <1>1 DEF Sane
    <3> QED BY <3>1, <3>2 DEF Sane
  <2>2. m.released => l # current' /\ Final(m) /\ (m.failed \/ m.committed = m.accepted)
    OBVIOUS
  <2>3. stamp' \in Nat /\ stamp <= stamp'
    BY Basics
  <2>4. lives' \in Nat /\ lives <= lives' /\ l <= lives'
    BY <1>1, Basics
  <2>5. current' # 0 => current' = lives'
    BY Basics
  <2>6. \A k \in 1 .. lives : k # current => k # current'
    OBVIOUS
  <2> QED BY <1>1, <2>1, <2>2, <2>3, <2>4, <2>5, <2>6, LanesKept, Zenon
<1>9. Keeps(l, m)
  <2>1. ~(Final(lane[l]))
    BY <1>1 DEF Final, LaneState
  <2> QED BY <1>1, <2>1 DEF Keeps, LaneState
<1>10. CallsSane'
  <2>1. lives' \in Nat /\ lives <= lives' /\ \A k \in 1 .. lives : k # current => k # current'
    BY Basics
  <2> QED BY <1>1, <1>9, <2>1, CallKept DEF CallsSane
<1>11. ASSUME ~Late' PROVE OneLane'
  <2>0. ~Late
    BY <1>11 DEF Late
  <2>1. /\ \A k \in Life : lane[k].committed <= disk
        /\ \A k \in Life : k < lives \/ (k = lives /\ current = 0 /\ closing = 0)
                           => lane[k].inFlight = 0 /\ lane[k].committed = lane[k].accepted
        /\ lives # 0 => disk <= lane[lives].accepted
        /\ disk <= stamp
    BY <2>0 DEF OInv, OneLane
  <2>2. ASSUME NEW i \in DOMAIN chain'
        PROVE  chain'[i].life = lives /\ disk <= chain'[i].snapshot /\ ~chain'[i].landed
    <3>1. i \notin DOMAIN t
      <4>1. i \in DOMAIN t => i \in Nat \ {0} /\ i + 1 \in DOMAIN chain
        BY <1>4
      <4> QED BY <4>1, <1>1, <2>0
    <3>2. chain'[i] = Write(l, m.inFlight)
      BY <1>6, <2>2, <3>1
    <3>3. chain'[i].life = l /\ chain'[i].snapshot = m.inFlight /\ ~chain'[i].landed
      BY <3>2 DEF Write
    <3>4. l = lives /\ l # 0 /\ disk <= m.inFlight
      BY <2>0, <2>1, <1>1
    <3> QED BY <3>3, <3>4
  <2>3. ASSUME NEW k \in Life PROVE lane'[k].committed <= disk
    BY <2>0, <2>1, <1>1, <1>7, Basics
  <2>4. ASSUME NEW k \in Life, k < lives \/ (k = lives /\ current = 0 /\ closing = 0)
        PROVE  lane'[k].inFlight = 0 /\ lane'[k].committed = lane'[k].accepted
    BY <2>1, <2>4, <1>1, <1>7
  <2>5. lives # 0 => disk <= lane'[lives].accepted
    BY <2>0, <2>1, <1>1, <1>7
  <2> QED BY <2>1, <2>2, <2>3, <2>4, <2>5 DEF OneLane
<1>12. OneLane'
  BY <1>11 DEF OneLane
<1>13. Typed'
  <2>1. caller' \in [Caller -> Call]
    BY Basics
  <2>2. lane' \in [Life -> LaneState]
    BY <1>1, Basics
  <2>3. chain' \in Seq([life : Life, snapshot : Nat, landed : BOOLEAN])
    BY <1>6 DEF Entry
  <2>4. lives' \in 0 .. MaxLives /\ current' \in 0 .. lives' /\ closing' \in 0 .. lives'
    BY <1>1, Basics, Limits
  <2>5. {disk', stamp', faults'} \subseteq Nat
    BY <1>1, Basics
  <2> QED BY <2>1, <2>2, <2>3, <2>4, <2>5 DEF Typed
<1>14. SettledIsDurable'
  BY DurableKept, Basics DEF Late
<1> QED BY <1>6, <1>8, <1>10, <1>12, <1>13, <1>14 DEF OInv

LEMMA DoCommitDone ==
  ASSUME OInv, CommitDone PROVE OInv'
<1> DEFINE l == Head(chain).life
           ln == [lane[l] EXCEPT !.committed = lane[l].inFlight, !.failed = FALSE]
<1>1. /\ chain # <<>> /\ Head(chain).landed
      /\ IF GoesOn(ln)
         THEN /\ lane' = [lane EXCEPT ![l] = Committing(ln, ln.count + 1)]
              /\ chain' = Append(Tail(chain), Write(l, ln.accepted))
              /\ UNCHANGED caller
         ELSE /\ lane' = [lane EXCEPT ![l] = [ln EXCEPT !.inFlight = 0, !.cut = AtLimit(ln)]]
              /\ chain' = Tail(chain)
              /\ Wake(l)
      /\ lives' = lives /\ current' = current /\ disk' = disk /\ stamp' = stamp
      /\ closing' = closing /\ faults' = faults
  BY DEF CommitDone, Counts
<1>2. /\ l \in Life /\ lane[l] \in LaneState /\ Sane(lane[l]) /\ lane[l].inFlight # 0
      /\ ~Late => disk = lane[l].inFlight
  BY <1>1, AtHead, Basics
<1>3. /\ ln \in LaneState /\ ln.inFlight = lane[l].inFlight /\ ln.committed = lane[l].inFlight
      /\ ln.accepted = lane[l].accepted /\ ln.released = lane[l].released /\ ~ln.failed
      /\ ln.inFlight <= ln.accepted
  BY <1>2 DEF LaneState, Sane
<1> HIDE DEF l, ln
<1>4. l = Head(chain).life
  BY DEF l
<1>5. CASE GoesOn(ln)
  <2> DEFINE m == Committing(ln, ln.count + 1)
  <2>1. /\ m \in LaneState /\ m.inFlight = m.accepted /\ m.accepted = lane[l].accepted
        /\ m.released = lane[l].released /\ m.committed = lane[l].inFlight
    <3> DEFINE n == ln.count + 1
    <3>1. n \in Nat
      BY <1>3 DEF LaneState
    <3>2. m = Committing(ln, n)
      OBVIOUS
    <3> HIDE DEF n, m
    <3> QED BY <1>3, <3>1, <3>2 DEF Committing, LaneState
  <2>2. ~m.released /\ m.committed < m.accepted
    BY <1>3, <1>5, <2>1 DEF GoesOn, CanCommit
  <2>3. lane' = [lane EXCEPT ![l] = m] /\ chain' = Append(Tail(chain), Write(l, lane[l].accepted))
        /\ caller' = caller
    BY <1>1, <1>3, <1>5
  <2> HIDE DEF m
  <2> QED BY <1>1, <1>4, <2>1, <2>2, <2>3, PumpGoesOn
<1>6. CASE ~GoesOn(ln)
  <2> DEFINE m == [ln EXCEPT !.inFlight = 0, !.cut = AtLimit(ln)]
  <2>1. AtLimit(ln) \in BOOLEAN
    BY DEF AtLimit, CanCommit
  <2>2. /\ m \in LaneState /\ m.inFlight = 0 /\ m.accepted = lane[l].accepted
        /\ m.released = lane[l].released /\ m.committed = lane[l].inFlight
    BY <1>3, <2>1 DEF LaneState
  <2>3. lane' = [lane EXCEPT ![l] = m] /\ chain' = Tail(chain) /\ Wake(l)
    BY <1>1, <1>6
  <2> HIDE DEF m
  <2>4. m.committed <= m.accepted
    BY <1>3, <2>2
  <2>5. Final(lane[l]) => m.failed \/ m.committed = m.accepted
    BY <1>2, <2>2 DEF Final
  <2>6. ~Late => m.committed <= disk
    BY <1>2, <2>2, Basics
  <2>7. faults' \in Nat
    BY <1>1, Basics
  <2> QED BY <1>1, <1>4, <2>2, <2>3, <2>4, <2>5, <2>6, <2>7, PumpEnds
<1> QED BY <1>5, <1>6

LEMMA DoLand ==
  ASSUME OInv, Land PROVE OInv' /\ (Late' \/ disk' >= disk)
<1>1. /\ chain # <<>> /\ disk' = Head(chain).snapshot
      /\ chain' = [chain EXCEPT ![1].landed = TRUE]
      /\ lives' = lives /\ current' = current /\ lane' = lane /\ stamp' = stamp
      /\ caller' = caller /\ closing' = closing /\ faults' = faults
  BY DEF Land
<1>2. chain \in Seq(Entry) /\ lane \in [Life -> LaneState] /\ Agrees(chain, lane)
  BY Basics DEF OInv
<1>3. /\ chain' \in Seq(Entry) /\ Agrees(chain', lane') /\ Head(chain) = chain[1]
      /\ DOMAIN chain' = DOMAIN chain
      /\ \A i \in DOMAIN chain : /\ chain'[i].life = chain[i].life
                                 /\ chain'[i].snapshot = chain[i].snapshot
  BY <1>1, <1>2, ChainLands
<1>4. /\ 1 \in DOMAIN chain /\ disk' \in Nat
      /\ ~Late => /\ chain[1].life = lives /\ disk <= disk' /\ DOMAIN chain = {1}
                  /\ lane[lives].inFlight = disk' /\ lives \in Life
  BY <1>1, AtHead
<1>5. Late' <=> Late
  BY <1>1 DEF Late
<1>6. OneLane'
  <2> SUFFICES ASSUME ~Late PROVE OneLane'
    BY <1>5 DEF OneLane
  <2>1. /\ \A k \in Life : lane[k].committed <= disk
        /\ \A k \in Life : k < lives \/ (k = lives /\ current = 0 /\ closing = 0)
                           => lane[k].inFlight = 0 /\ lane[k].committed = lane[k].accepted
    BY DEF OInv, OneLane
  <2>2. ASSUME NEW i \in DOMAIN chain' PROVE chain'[i].life = lives /\ disk' = chain'[i].snapshot
    BY <1>1, <1>3, <1>4
  <2>3. ASSUME NEW k \in Life PROVE lane[k].committed <= disk'
    BY <1>4, <2>1, Basics DEF LaneState
  <2>4. disk' <= lane[lives].accepted /\ disk' <= stamp
    BY <1>4, Basics DEF Sane, LaneState
  <2> QED BY <1>1, <1>4, <2>1, <2>2, <2>3, <2>4 DEF OneLane
<1>7. LanesSane' /\ ReleasedSane' /\ CallsSane'
  BY <1>1 DEF OInv, LanesSane, Sane, ReleasedSane, CallsSane, CallSane
<1>8. Typed'
  BY <1>1, <1>3, <1>4 DEF OInv, Typed, Entry
<1>9. Late' \/ disk' >= disk
  BY <1>4, <1>5, Basics
<1>10. SettledIsDurable'
  BY <1>1, <1>4, <1>5, DurableKept
<1> QED BY <1>3, <1>6, <1>7, <1>8, <1>9, <1>10 DEF OInv

\* A caller is answered.
LEMMA Answered ==
  ASSUME OInv, NEW c \in Caller, caller[c].pc = "woken", Answers(c, lane[caller[c].life])
  PROVE  LET l == caller[c].life IN
         /\ l \in 1 .. lives /\ l \in Life
         /\ caller'[c] = [caller[c] EXCEPT !.pc = "off", !.answer = State(lane[l])]
         /\ caller'[c].pc = "off" /\ \A d \in Caller : d # c => caller'[d] = caller[d]
         /\ caller' \in [Caller -> Call]
         /\ ~Late => \A d \in Caller : caller'[d].answer = "settled" => disk >= caller'[d].asked
<1> DEFINE l == caller[c].life
<1>1. CallSane(c) /\ caller[c] \in Call
  BY Basics DEF OInv, CallsSane
<1>2. l \in 1 .. lives /\ l \in Life /\ caller[c].asked <= lane[l].accepted
  BY <1>1, Basics, Limits DEF CallSane
<1>3. lane[l] \in LaneState /\ Sane(lane[l])
  BY <1>2, Basics
<1>4. State(lane[l]) \in {"clean", "degraded", "pending", "settled"}
  BY DEF State
<1>5. /\ caller' = [caller EXCEPT ![c] = [caller[c] EXCEPT !.pc = "off", !.answer = State(lane[l])]]
      /\ caller'[c] = [caller[c] EXCEPT !.pc = "off", !.answer = State(lane[l])]
      /\ \A d \in Caller : d # c => caller'[d] = caller[d]
  BY <1>1, Basics DEF Answers
<1>6. /\ caller'[c] \in Call /\ caller'[c].pc = "off" /\ caller'[c].answer = State(lane[l])
      /\ caller'[c].asked = caller[c].asked
  <2> DEFINE a == State(lane[l])
             r == [caller[c] EXCEPT !.pc = "off", !.answer = a]
  <2>1. a \in {"clean", "degraded", "pending", "settled"}
    BY <1>4
  <2> HIDE DEF a
  <2>2. r \in Call /\ r.pc = "off" /\ r.answer = a /\ r.asked = caller[c].asked
    BY <1>1, <2>1 DEF Call
  <2>3. caller'[c] = r
    BY <1>5 DEF a
  <2> HIDE DEF r
  <2> QED BY <2>2, <2>3 DEF a
<1>7. caller' \in [Caller -> Call]
  BY <1>5, <1>6, Basics
<1>8. ASSUME ~Late, NEW d \in Caller, caller'[d].answer = "settled"
      PROVE  disk >= caller'[d].asked
  <2>1. CASE d = c
    <3>1. lane[l].committed >= lane[l].accepted
      BY <1>3, <1>6, <1>8, <2>1 DEF State, LaneState
    <3>2. lane[l].committed <= disk
      BY <1>2, <1>8 DEF OInv, OneLane
    <3>3. /\ lane[l].committed \in Nat /\ lane[l].accepted \in Nat /\ caller[c].asked \in Nat
          /\ disk \in Nat
      BY <1>1, <1>3, Basics DEF LaneState, Call
    <3> QED BY <1>2, <1>6, <2>1, <3>1, <3>2, <3>3
  <2>2. CASE d # c
    BY <1>5, <1>8, <2>2 DEF OInv, SettledIsDurable
  <2> QED BY <2>1, <2>2
<1> QED BY <1>2, <1>5, <1>6, <1>7, <1>8

LEMMA DoFlushEnds ==
  ASSUME OInv, NEW c \in Caller, FlushEnds(c) PROVE OInv'
<1>1. /\ caller[c].pc = "woken" /\ Answers(c, lane[caller[c].life])
      /\ lives' = lives /\ current' = current /\ lane' = lane /\ chain' = chain /\ disk' = disk
      /\ stamp' = stamp /\ closing' = closing /\ faults' = faults
  BY DEF FlushEnds, Woken
<1>2. /\ caller'[c].pc = "off" /\ \A d \in Caller : d # c => caller'[d] = caller[d]
      /\ caller' \in [Caller -> Call]
      /\ ~Late => \A d \in Caller : caller'[d].answer = "settled" => disk >= caller'[d].asked
  BY <1>1, Answered
<1>3. ASSUME NEW d \in Caller PROVE CallSane(d)'
  BY <1>1, <1>2 DEF OInv, CallsSane, CallSane
<1>4. SettledIsDurable'
  BY <1>1, <1>2 DEF SettledIsDurable, Late
<1>5. Typed'
  BY <1>1, <1>2 DEF OInv, Typed
<1>6. LanesSane' /\ ReleasedSane' /\ OneLane'
  BY <1>1 DEF OInv, LanesSane, Sane, ReleasedSane, OneLane, Late
<1>7. Agrees(chain', lane')
  BY <1>1 DEF OInv
<1> QED BY <1>3, <1>4, <1>5, <1>6, <1>7 DEF OInv, CallsSane

LEMMA DoReleases ==
  ASSUME OInv, NEW c \in Caller, Releases(c) PROVE OInv'
<1> DEFINE l == caller[c].life
           p == IF lane[l].inFlight # 0 THEN "waiting" ELSE "woken"
<1>1. /\ caller[c].pc = "woken" /\ caller[c].kind = "drain" /\ caller[c].round > 0 /\ SettleEnds(c)
      /\ caller' = [caller EXCEPT ![c].round = 0, ![c].pc = p]
      /\ lives' = lives /\ current' = current /\ lane' = lane /\ chain' = chain /\ disk' = disk
      /\ stamp' = stamp /\ closing' = closing /\ faults' = faults
  BY DEF Releases, Woken
<1>2. CallSane(c) /\ caller[c] \in Call /\ caller[c].round \in Nat
  BY Basics DEF OInv, CallsSane, Call
<1>3. l \in 1 .. lives /\ l \in Life /\ caller[c].asked <= lane[l].accepted
      /\ l # current /\ Final(lane[l])
  BY <1>1, <1>2, Basics, Limits DEF CallSane
<1>4. lane[l] \in LaneState /\ Sane(lane[l])
  BY <1>3, Basics
<1>5. Done(lane[l])
  <2>1. CASE caller[c].round = MaxRounds
    BY <1>1, <1>2, <2>1, Limits DEF CallSane
  <2>2. CASE lane[l].committed >= lane[l].accepted
    BY <1>4, <2>2 DEF Sane, LaneState, Done
  <2> QED BY <1>1, <2>1, <2>2 DEF SettleEnds, Done
<1>6. p \in {"waiting", "woken"}
  OBVIOUS
<1> HIDE DEF p
<1>7. /\ caller' = [caller EXCEPT ![c] = [caller[c] EXCEPT !.round = 0, !.pc = p]]
      /\ caller'[c] = [caller[c] EXCEPT !.round = 0, !.pc = p]
      /\ \A d \in Caller : d # c => caller'[d] = caller[d]
  BY <1>1, <1>2, Basics DEF Call
<1>8. /\ caller'[c] \in Call /\ caller'[c].pc = p /\ caller'[c].round = 0
      /\ caller'[c].life = l /\ caller'[c].kind = "drain" /\ caller'[c].asked = caller[c].asked
      /\ caller'[c].answer = caller[c].answer
  <2> DEFINE r == [caller[c] EXCEPT !.round = 0, !.pc = p]
  <2>1. /\ r \in Call /\ r.pc = p /\ r.round = 0 /\ r.life = l /\ r.kind = "drain"
        /\ r.asked = caller[c].asked /\ r.answer = caller[c].answer
    BY <1>1, <1>2, <1>6 DEF Call
  <2> HIDE DEF r
  <2>2. caller'[c] = r
    BY <1>7 DEF r
  <2> QED BY <2>1, <2>2
<1>9. caller' \in [Caller -> Call]
  BY <1>7, <1>8, Basics
<1>10. ASSUME NEW d \in Caller PROVE CallSane(d)'
  <2>1. CASE d = c
    BY <1>1, <1>3, <1>5, <1>8, <2>1 DEF CallSane
  <2>2. CASE d # c
    BY <1>1, <1>7, <2>2 DEF OInv, CallsSane, CallSane
  <2> QED BY <2>1, <2>2
<1>11. SettledIsDurable'
  <2>1. \A d \in Caller : caller'[d].answer = caller[d].answer /\ caller'[d].asked = caller[d].asked
    BY <1>7, <1>8
  <2> QED BY <1>1, <2>1 DEF OInv, SettledIsDurable, Late
<1>12. Typed'
  BY <1>1, <1>9 DEF OInv, Typed
<1>13. LanesSane' /\ ReleasedSane' /\ OneLane'
  BY <1>1 DEF OInv, LanesSane, Sane, ReleasedSane, OneLane, Late
<1>14. Agrees(chain', lane')
  BY <1>1 DEF OInv
<1> QED BY <1>10, <1>11, <1>12, <1>13, <1>14 DEF OInv, CallsSane

LEMMA DoDrainEnds ==
  ASSUME OInv, NEW c \in Caller, DrainEnds(c) PROVE OInv'
<1>0. PICK l, m : l = caller[c].life /\ m = [lane[l] EXCEPT !.released = TRUE]
  OBVIOUS
<1>1. /\ caller[c].pc = "woken" /\ caller[c].round = 0 /\ Answers(c, lane[l])
      /\ lane' = [lane EXCEPT ![l].released = TRUE]
      /\ lives' = lives /\ current' = current /\ chain' = chain /\ disk' = disk
      /\ stamp' = stamp /\ closing' = closing /\ faults' = faults
  BY <1>0 DEF DrainEnds, Woken
<1>2. /\ l \in 1 .. lives /\ l \in Life
      /\ caller'[c].pc = "off" /\ \A d \in Caller : d # c => caller'[d] = caller[d]
      /\ caller' \in [Caller -> Call]
      /\ ~Late => \A d \in Caller : caller'[d].answer = "settled" => disk >= caller'[d].asked
  BY <1>0, <1>1, Answered
<1>3. lane[l] \in LaneState /\ Sane(lane[l])
  BY <1>2, Basics
<1>4. l # current /\ Final(lane[l]) /\ Done(lane[l])
  BY <1>0, <1>1 DEF OInv, CallsSane, CallSane
<1>5. /\ m \in LaneState /\ m.released /\ m.inFlight = lane[l].inFlight
      /\ m.accepted = lane[l].accepted /\ m.committed = lane[l].committed
      /\ m.failed = lane[l].failed /\ lane' = [lane EXCEPT ![l] = m]
  BY <1>0, <1>1, <1>2, <1>3, Basics DEF LaneState
<1>6. \A j \in Life : lane'[j] = IF j = l THEN m ELSE lane[j]
  BY <1>5, Basics
<1>7. Agrees(chain', lane')
  <2>1. Agrees(chain, lane) /\ lane \in [Life -> LaneState]
    BY Basics DEF OInv
  <2>2. \A i \in DOMAIN chain : chain[i].life \in Life
    <3>1. \A i \in DOMAIN chain : chain[i] \in Entry
      BY Basics
    <3> QED BY <3>1 DEF Entry
  <2>3. Agrees(chain, [lane EXCEPT ![l] = m])
    BY <1>2, <1>5, <2>1, <2>2, AgreesKept
  <2> QED BY <1>1, <1>5, <2>3
<1>8. Final(m) /\ (m.failed \/ m.committed = m.accepted)
  <2>1. lane[l].failed \/ lane[l].committed = lane[l].accepted
    BY <1>2, <1>4 DEF Done, OInv, ReleasedSane
  <2> QED BY <1>4, <1>5, <2>1 DEF Final
<1>9. Keeps(l, m)
  BY <1>3, <1>5, <1>8 DEF Keeps, Done, LaneState
<1>10. LanesSane' /\ ReleasedSane'
  <2>1. Sane(m)'
    <3>1. lane[l].accepted <= stamp /\ lane[l].committed <= lane[l].accepted
          /\ lane[l].inFlight <= lane[l].accepted
          /\ (lane[l].inFlight # 0 => lane[l].committed < lane[l].inFlight)
      BY <1>3 DEF Sane
    <3> QED BY <1>1, <1>5, <3>1 DEF Sane
  <2>2. m.released => l # current' /\ Final(m) /\ (m.failed \/ m.committed = m.accepted)
    BY <1>1, <1>4, <1>8
  <2>3. stamp' \in Nat /\ stamp <= stamp'
    BY <1>1, Basics
  <2>4. lives' \in Nat /\ lives <= lives' /\ l <= lives'
    BY <1>1, <1>2, Basics
  <2>5. current' # 0 => current' = lives'
    BY <1>1, Basics
  <2>6. \A k \in 1 .. lives : k # current => k # current'
    BY <1>1
  <2> QED BY <1>2, <1>5, <2>1, <2>2, <2>3, <2>4, <2>5, <2>6, LanesKept, Zenon
<1>11. OneLane'
  <2> SUFFICES ASSUME ~Late PROVE OneLane'
    BY <1>1 DEF OneLane, Late
  <2>1. /\ \A k \in Life : /\ lane'[k].committed = lane[k].committed
                           /\ lane'[k].inFlight = lane[k].inFlight
                           /\ lane'[k].accepted = lane[k].accepted
    BY <1>5, <1>6
  <2>2. lives # 0 => lives \in Life
    BY Basics, Limits
  <2> QED BY <1>1, <2>1, <2>2 DEF OInv, OneLane
<1>12. ASSUME NEW d \in Caller PROVE CallSane(d)'
  <2>1. CASE d = c
    BY <1>2, <2>1 DEF CallSane
  <2>2. CASE d # c
    <3>1. lives' \in Nat /\ lives <= lives' /\ \A k \in 1 .. lives : k # current => k # current'
      BY <1>1, Basics
    <3> QED BY <1>2, <1>5, <1>9, <2>2, <3>1, CallKept
  <2> QED BY <2>1, <2>2
<1>13. SettledIsDurable'
  BY <1>1, <1>2 DEF SettledIsDurable, Late
<1>14. Typed'
  <2>1. lane' \in [Life -> LaneState]
    BY <1>5, Basics
  <2> QED BY <1>1, <1>2, <2>1 DEF OInv, Typed
<1> QED BY <1>7, <1>10, <1>11, <1>12, <1>13, <1>14 DEF OInv, CallsSane
------------------------------------------------------------------------------
(* The theorems *)

LEMMA OInvInit == Init => OInv
<1> SUFFICES ASSUME Init PROVE OInv
  OBVIOUS
<1>1. /\ lives = 0 /\ current = 0 /\ closing = 0 /\ disk = 0 /\ stamp = 0 /\ faults = 0
      /\ chain = <<>> /\ DOMAIN chain = {}
      /\ \A l \in Life : lane[l] = FreshLane /\ l \in Nat \ {0}
      /\ \A c \in Caller : caller[c] = NoCall
  BY Limits DEF Init
<1>2. FreshLane \in LaneState /\ NoCall \in Call
  BY Limits DEF FreshLane, LaneState, NoCall, Call
<1>3. Typed
  BY <1>1, <1>2, Limits DEF Init, Typed
<1>4. LanesSane
  BY <1>1 DEF LanesSane, Sane, FreshLane
<1>5. CallsSane /\ SettledIsDurable
  BY <1>1 DEF CallsSane, CallSane, NoCall, SettledIsDurable
<1>6. ReleasedSane /\ OneLane
  BY <1>1 DEF ReleasedSane, OneLane, FreshLane
<1>7. Agrees(chain, lane)
  BY <1>1 DEF Agrees, FreshLane
<1> QED BY <1>3, <1>4, <1>5, <1>6, <1>7 DEF OInv

LEMMA OInvNext ==
  ASSUME OInv, [Next]_vars PROVE OInv' /\ (Late' \/ disk' >= disk)
<1>0. disk' = disk => disk' >= disk
  BY Basics
<1>1. CASE Accept
  <2>1. disk' = disk
    BY <1>1 DEF Accept
  <2> QED BY <1>0, <1>1, <2>1, DoAccept
<1>2. CASE Land
  BY <1>2, DoLand
<1>3. CASE CommitDone
  <2>1. disk' = disk
    BY <1>3 DEF CommitDone
  <2> QED BY <1>0, <1>3, <2>1, DoCommitDone
<1>4. CASE CommitFails
  <2>1. disk' = disk
    BY <1>4 DEF CommitFails
  <2> QED BY <1>0, <1>4, <2>1, DoCommitFails
<1>5. ASSUME NEW l \in Life, TimerFires(l) PROVE OInv' /\ disk' >= disk
  <2>1. disk' = disk
    BY <1>5 DEF TimerFires
  <2> QED BY <1>0, <1>5, <2>1, DoTimerFires
<1>6. ASSUME NEW c \in Caller, Flush(c) \/ Evict(c) \/ Dispose(c)
      PROVE  OInv' /\ disk' >= disk
  <2>1. disk' = disk
    BY <1>6 DEF Flush, Evict, Dispose
  <2> QED BY <1>0, <1>6, <2>1, DoCalls
<1>7. ASSUME NEW c \in Caller, GoOn(c) PROVE OInv' /\ disk' >= disk
  <2>1. CASE Again(c)
    <3>1. disk' = disk
      BY <2>1 DEF Again
    <3> QED BY <1>0, <2>1, <3>1, DoAgain
  <2>2. CASE FlushEnds(c)
    <3>1. disk' = disk
      BY <2>2 DEF FlushEnds
    <3> QED BY <1>0, <2>2, <3>1, DoFlushEnds
  <2>3. CASE Releases(c)
    <3>1. disk' = disk
      BY <2>3 DEF Releases
    <3> QED BY <1>0, <2>3, <3>1, DoReleases
  <2>4. CASE DrainEnds(c)
    <3>1. disk' = disk
      BY <2>4 DEF DrainEnds
    <3> QED BY <1>0, <2>4, <3>1, DoDrainEnds
  <2> QED BY <1>7, <2>1, <2>2, <2>3, <2>4 DEF GoOn
<1>8. CASE UNCHANGED vars
  <2>1. /\ lives' = lives /\ current' = current /\ lane' = lane /\ chain' = chain /\ disk' = disk
        /\ stamp' = stamp /\ caller' = caller /\ closing' = closing /\ faults' = faults
    BY <1>8 DEF vars
  <2>2. Typed' /\ Agrees(chain', lane')
    BY <2>1 DEF OInv, Typed
  <2>3. LanesSane' /\ ReleasedSane' /\ OneLane'
    BY <2>1 DEF OInv, LanesSane, Sane, ReleasedSane, OneLane, Late
  <2>4. CallsSane' /\ SettledIsDurable'
    BY <2>1 DEF OInv, CallsSane, CallSane, SettledIsDurable, Late
  <2> QED BY <2>1, <2>2, <2>3, <2>4, Basics DEF OInv
<1> QED BY <1>1, <1>2, <1>3, <1>4, <1>5, <1>6, <1>7, <1>8 DEF Next

LEMMA OInvAlways == Spec => []OInv
<1>1. OInv /\ [Next]_vars => OInv'
  BY OInvNext
<1> QED BY <1>1, OInvInit, PTL DEF Spec

\* For any callers, limits and bounds: the state keeps its shape, and the owner's write chain
\* holds what the lanes have in flight, one commit of a lane at most (pump's `active`).
THEOREM OwnerTypeCorrect == Spec => []TypeOK
<1>1. OInv => TypeOK
  BY DEF OInv, Typed, Agrees, TypeOK
<1> QED BY <1>1, OInvAlways, PTL

\* For any callers, limits and bounds: a caller that was told `settled` by flush or drain finds
\* its snapshot in the sidecar, or a newer one.
THEOREM SettledDurable == Spec => []SettledIsDurable
<1>1. OInv => SettledIsDurable
  BY DEF OInv
<1> QED BY <1>1, OInvAlways, PTL

\* For any callers, limits and bounds: a state that was drained and released (settle, release)
\* has committed its last snapshot, or says that it failed to.
THEOREM Drained == Spec => []DrainedOrDegraded
<1>1. OInv => DrainedOrDegraded
  BY DEF OInv, ReleasedSane, DrainedOrDegraded
<1> QED BY <1>1, OInvAlways, PTL

\* For any callers, limits and bounds: no write of any of the owner's lanes puts the sidecar
\* back to an older snapshot (saveRunSidecar's chain), unless a request comes behind the
\* disposal at shutdown.
THEOREM SidecarForward == Spec => NeverBackwards
<1>1. OInv /\ [Next]_vars => [Late' \/ disk' >= disk]_vars
  BY OInvNext
<1> QED BY <1>1, OInvAlways, PTL DEF Spec, NeverBackwards
=============================================================================
