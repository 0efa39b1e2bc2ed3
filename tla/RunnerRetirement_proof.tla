----------------------- MODULE RunnerRetirement_proof -----------------------
(***************************************************************************)
(* Proofs about RunnerRetirement, for every bound.  The properties are not *)
(* inductive: that a runner which agreed to leave has its intent on record *)
(* depends on which requests and answers are under way.  RInv says so, and *)
(* the theorems are read off it.                                           *)
(***************************************************************************)
EXTENDS RunnerRetirement, TLAPS

-----------------------------------------------------------------------------
(* The invariant *)

\* A request of the daemon, the answer of the runner, the fence while it may also be settling.
Message == [verb : Verb \cup {"words"}, token : Token]
Reply   == [verb : Verb \cup {"words"}, token : Token, ok : BOOLEAN]
AFence  == [phase : {"open", "preparing", "committing"}, token : Token,
            cancelled : BOOLEAN, pc : Verb \cup {"idle", "exit"}]

Typed ==
  /\ record \in RecordType /\ runner \in RunnerType /\ fence \in AFence /\ seat \in SeatType
  /\ runner.ready => runner.prep # NoToken
  /\ wire \in Seq(Message) /\ answers \in Seq(Reply)
  /\ up \in BOOLEAN /\ exitHook \in BOOLEAN
  /\ words \in {"none", "held", "starting", "sent"}
  /\ parks \in Nat /\ spoken \in Nat /\ crashes \in Nat /\ timeouts \in Nat

\* What is in a pipe.
Elems(s) == {s[i] : i \in 1 .. Len(s)}

\* Nothing but words is behind a cancel or before a prepare.
Ordered(s) == \A i, j \in 1 .. Len(s) : i < j =>
  /\ s[i].verb = "cancel" => s[j].verb = "words"
  /\ s[j].verb = "prepare" => s[i].verb = "words"

\* What may be sent behind s.
MayFollow(verb, s) == \A m \in Elems(s) :
  /\ m.verb = "cancel" => verb = "words"
  /\ verb = "prepare" => m.verb = "words"

Request(verb, t) == [verb |-> verb, token |-> t]

\* Tokens are handed out in order, so that the next one is new everywhere.
Tokens ==
  /\ parks <= MaxParks
  /\ fence.token <= parks /\ runner.prep <= parks
  /\ \A m \in Elems(wire) \cup Elems(answers) \cup runner.flushing :
       m.token <= parks /\ (m.verb # "words" => m.token # NoToken)
  /\ \A m \in runner.flushing : m.verb # "cancel"

Processes ==
  /\ record.pid = runner.pid
  /\ ~up => seat.state = "orphan" /\ fence = Open /\ ~exitHook
  /\ ~Listening => wire = <<>> /\ answers = <<>>
  /\ seat.state = "respawning" => ~runner.alive /\ runner.committed = NoToken

\* Where the daemon's promise stands.
Stands ==
  /\ fence.phase = "open" => fence = Open
  /\ Fenced => fence.token # NoToken
  /\ fence.pc = "prepare" => fence.phase = "preparing"
  /\ fence.pc = "commit" => fence.phase = "committing"

\* The requests in the pipe are those of the standing retirement, and the last is a cancel.
Requests ==
  /\ Ordered(wire)
  /\ \A m \in Elems(wire) : m.verb \in Verb => Fenced /\ m.token = fence.token
  /\ \A m \in Elems(wire) \cup Elems(answers) :
       m.verb = "cancel" /\ m.token = fence.token => fence.pc \in {"cancel", "idle", "exit"}
  /\ \A m \in Elems(wire) : m.verb = "prepare" =>
       /\ fence.phase = "preparing"
       /\ Request("prepare", m.token) \notin runner.flushing
       /\ \A a \in Elems(answers) : ~(a.verb = "prepare" /\ a.token = m.token)
  /\ fence.phase = "preparing" => Request("commit", fence.token) \notin runner.flushing

\* After a cancel that was granted the runner cannot commit to the token any more.
Withdrawn ==
  \A a \in Elems(answers) : a.verb = "cancel" /\ a.ok /\ a.token = fence.token =>
    /\ runner.prep # a.token /\ runner.committed # a.token
    /\ \A m \in Elems(wire) : m.verb = "words"

\* The runner has committed to t, or may still do so.
Bound(t) ==
  \/ runner.committed = t /\ t # NoToken
  \/ Request("commit", t) \in Elems(wire)
  \/ Request("commit", t) \in runner.flushing /\ runner.prep = t

\* The daemon knows of it while it hears the runner ...
BoundIsFenced == Listening => \A t \in Token : Bound(t) =>
  fence.phase = "committing" /\ fence.token = t /\ seat.intentional

\* ... and the record says so, until it says parked.
BoundIsIntended ==
  /\ runner.alive => \A t \in Token : Bound(t) =>
       record.intent = t /\ record.intentPid = runner.pid
  /\ runner.committed # NoToken /\ ~record.parked =>
       record.intent = runner.committed /\ record.intentPid = runner.pid

RInv == /\ Typed /\ Tokens /\ Processes /\ Stands /\ Requests /\ Withdrawn
        /\ BoundIsFenced /\ BoundIsIntended

-----------------------------------------------------------------------------
(* Pipes *)

LEMMA Emptied == Elems(<<>>) = {} /\ Ordered(<<>>)
BY DEF Elems, Ordered

LEMMA Added ==
  ASSUME NEW S, NEW s \in Seq(S), NEW e \in S
  PROVE  Append(s, e) \in Seq(S) /\ Elems(Append(s, e)) = Elems(s) \cup {e}
<1>1. Append(s, e) \in Seq(S) /\ Len(Append(s, e)) = Len(s) + 1
  OBVIOUS
<1>2. /\ \A i \in 1 .. Len(s) : Append(s, e)[i] = s[i]
      /\ Append(s, e)[Len(s) + 1] = e /\ Len(s) \in Nat
  OBVIOUS
<1>3. Elems(Append(s, e)) \subseteq Elems(s) \cup {e}
  BY <1>1, <1>2 DEF Elems
<1>4. Elems(s) \cup {e} \subseteq Elems(Append(s, e))
  BY <1>1, <1>2 DEF Elems
<1>. QED  BY <1>1, <1>3, <1>4

LEMMA Took ==
  ASSUME NEW S, NEW s \in Seq(S), s # <<>>
  PROVE  /\ Head(s) \in S /\ Tail(s) \in Seq(S)
         /\ Elems(s) = {Head(s)} \cup Elems(Tail(s))
<1>1. /\ Head(s) \in S /\ Tail(s) \in Seq(S) /\ Head(s) = s[1] /\ 1 \in 1 .. Len(s)
      /\ Len(Tail(s)) = Len(s) - 1 /\ Len(s) \in Nat
      /\ \A i \in 1 .. Len(Tail(s)) : Tail(s)[i] = s[i + 1]
  OBVIOUS
<1>2. Elems(s) \subseteq {Head(s)} \cup Elems(Tail(s))
  <2>. SUFFICES ASSUME NEW i \in 1 .. Len(s) PROVE s[i] \in {Head(s)} \cup Elems(Tail(s))
    BY DEF Elems
  <2>1. CASE i = 1  BY <2>1, <1>1
  <2>2. CASE i # 1
    <3>1. i - 1 \in 1 .. Len(Tail(s)) /\ Tail(s)[i - 1] = s[i]  BY <2>2, <1>1
    <3>. QED  BY <3>1 DEF Elems
  <2>. QED  BY <2>1, <2>2
<1>3. {Head(s)} \cup Elems(Tail(s)) \subseteq Elems(s)
  BY <1>1 DEF Elems
<1>. QED  BY <1>1, <1>2, <1>3

LEMMA TypedPipe ==
  ASSUME NEW S, NEW s \in Seq(S)
  PROVE  Elems(s) \subseteq S /\ (s = <<>> => Elems(s) = {})
BY DEF Elems

LEMMA OrderedTook ==
  ASSUME NEW S, NEW s \in Seq(S), s # <<>>, Ordered(s)
  PROVE  /\ Ordered(Tail(s))
         /\ \A m \in Elems(Tail(s)) :
              /\ Head(s).verb = "cancel" => m.verb = "words"
              /\ m.verb = "prepare" => Head(s).verb = "words"
<1>1. /\ Head(s) = s[1] /\ 1 \in 1 .. Len(s)
      /\ Len(Tail(s)) = Len(s) - 1 /\ Len(s) \in Nat
      /\ \A i \in 1 .. Len(Tail(s)) : Tail(s)[i] = s[i + 1] /\ i + 1 \in 1 .. Len(s)
  OBVIOUS
<1>2. Ordered(Tail(s))
  <2>. SUFFICES ASSUME NEW i \in 1 .. Len(Tail(s)), NEW j \in 1 .. Len(Tail(s)), i < j
                PROVE  /\ Tail(s)[i].verb = "cancel" => Tail(s)[j].verb = "words"
                       /\ Tail(s)[j].verb = "prepare" => Tail(s)[i].verb = "words"
    BY DEF Ordered
  <2>1. i + 1 \in 1 .. Len(s) /\ j + 1 \in 1 .. Len(s) /\ i + 1 < j + 1  BY <1>1
  <2>. QED  BY <1>1, <2>1 DEF Ordered
<1>3. ASSUME NEW i \in 1 .. Len(Tail(s))
      PROVE  /\ s[1].verb = "cancel" => Tail(s)[i].verb = "words"
             /\ Tail(s)[i].verb = "prepare" => s[1].verb = "words"
  <2>1. i + 1 \in 1 .. Len(s) /\ 1 < i + 1 /\ Tail(s)[i] = s[i + 1]  BY <1>1
  <2>. QED  BY <1>1, <2>1 DEF Ordered
<1>. QED  BY <1>1, <1>2, <1>3 DEF Elems

LEMMA OrderedAdded ==
  ASSUME NEW S, NEW s \in Seq(S), NEW e \in S, Ordered(s), MayFollow(e.verb, s)
  PROVE  Ordered(Append(s, e))
<1>1. /\ Len(Append(s, e)) = Len(s) + 1 /\ Len(s) \in Nat
      /\ \A i \in 1 .. Len(s) : Append(s, e)[i] = s[i] /\ s[i] \in Elems(s)
      /\ Append(s, e)[Len(s) + 1] = e
  BY DEF Elems
<1>. SUFFICES ASSUME NEW i \in 1 .. Len(s) + 1, NEW j \in 1 .. Len(s) + 1, i < j
              PROVE  /\ Append(s, e)[i].verb = "cancel" => Append(s, e)[j].verb = "words"
                     /\ Append(s, e)[j].verb = "prepare" => Append(s, e)[i].verb = "words"
  BY <1>1 DEF Ordered
<1>2. i \in 1 .. Len(s)  BY <1>1
<1>3. CASE j \in 1 .. Len(s)  BY <1>1, <1>2, <1>3 DEF Ordered
<1>4. CASE j = Len(s) + 1  BY <1>1, <1>2, <1>4 DEF MayFollow
<1>. QED  BY <1>1, <1>3, <1>4

-----------------------------------------------------------------------------
(* The pipes of the session *)

LEMMA Zero ==
  /\ NoToken \in Token /\ Token \subseteq Nat /\ MaxParks \in Nat
  /\ MaxRunners \in Nat /\ 1 \in 1 .. MaxRunners
BY RetirementAssumption DEF Token, NoToken

LEMMA Pipes ==
  ASSUME Typed
  PROVE  /\ wire \in Seq(Message) /\ Elems(wire) \subseteq Message
         /\ answers \in Seq(Reply) /\ Elems(answers) \subseteq Reply
BY TypedPipe DEF Typed

LEMMA Sends ==
  ASSUME RInv, NEW v \in Verb \cup {"words"}, NEW t \in Token,
         IF DoorOpen THEN wire' = Append(wire, Request(v, t)) ELSE UNCHANGED wire
  PROVE  /\ wire' \in Seq(Message) /\ Request(v, t) \in Message
         /\ Elems(wire') = IF DoorOpen THEN Elems(wire) \cup {Request(v, t)} ELSE Elems(wire)
         /\ MayFollow(v, wire) => Ordered(wire')
         /\ ~Listening => wire' = <<>>
<1>1. wire \in Seq(Message) /\ Ordered(wire) /\ (~Listening => wire = <<>>)
  BY Pipes DEF RInv, Requests, Processes
<1>2. Request(v, t) \in Message /\ Request(v, t).verb = v
  BY DEF Request, Message
<1>3. CASE DoorOpen
  <2>. DEFINE e == Request(v, t)
  <2>1. e \in Message /\ e.verb = v /\ wire' = Append(wire, e)  BY <1>2, <1>3
  <2>. HIDE DEF e
  <2>2. wire' \in Seq(Message) /\ Elems(wire') = Elems(wire) \cup {e}
    BY <1>1, <2>1, Added
  <2>3. MayFollow(v, wire) => Ordered(wire')
    BY <1>1, <2>1, OrderedAdded
  <2>. QED  BY <1>3, <2>1, <2>2, <2>3 DEF e, DoorOpen, Listening
<1>4. CASE ~DoorOpen  BY <1>1, <1>2, <1>4
<1>. QED  BY <1>3, <1>4

LEMMA Receives ==
  ASSUME RInv, wire # <<>>, wire' = Tail(wire)
  PROVE  /\ Head(wire) \in Message /\ Head(wire) \in Elems(wire)
         /\ wire' \in Seq(Message) /\ Elems(wire') \subseteq Elems(wire)
         /\ Ordered(wire') /\ Listening
         /\ \A m \in Elems(wire') :
              /\ Head(wire).verb = "cancel" => m.verb = "words"
              /\ m.verb = "prepare" => Head(wire).verb = "words"
<1>1. wire \in Seq(Message) /\ Ordered(wire) /\ Listening
  BY Pipes DEF RInv, Requests, Processes
<1>. QED  BY <1>1, Took, OrderedTook

LEMMA Hears ==
  ASSUME RInv, answers # <<>>, answers' = Tail(answers)
  PROVE  /\ Head(answers) \in Reply /\ Head(answers) \in Elems(answers)
         /\ answers' \in Seq(Reply) /\ Elems(answers') \subseteq Elems(answers)
         /\ Listening
<1>1. answers \in Seq(Reply) /\ Listening
  BY Pipes DEF RInv, Processes
<1>. QED  BY <1>1, Took

LEMMA Says ==
  ASSUME RInv, NEW m \in Message, NEW ok \in BOOLEAN, Answer(m, ok)
  PROVE  /\ answers' \in Seq(Reply)
         /\ Elems(answers') \subseteq
              Elems(answers) \cup {[verb |-> m.verb, token |-> m.token, ok |-> ok]}
         /\ ~Listening => answers' = <<>>
<1>1. answers \in Seq(Reply) /\ (~Listening => answers = <<>>)
  BY Pipes DEF RInv, Processes
<1>2. [verb |-> m.verb, token |-> m.token, ok |-> ok] \in Reply
  BY DEF Message, Reply
<1>3. CASE Listening
  <2>1. answers' = Append(answers, [verb |-> m.verb, token |-> m.token, ok |-> ok])
    BY <1>3 DEF Answer
  <2>. QED  BY <1>1, <1>2, <1>3, <2>1, Added
<1>4. CASE ~Listening  BY <1>1, <1>4 DEF Answer
<1>. QED  BY <1>3, <1>4

-----------------------------------------------------------------------------
(* Steps in general *)

LEMMA Types ==
  ASSUME RInv
  PROVE  /\ record \in RecordType /\ runner \in RunnerType /\ fence \in AFence /\ seat \in SeatType
         /\ runner.ready => runner.prep # NoToken
         /\ up \in BOOLEAN /\ exitHook \in BOOLEAN
         /\ words \in {"none", "held", "starting", "sent"}
         /\ parks \in Nat /\ spoken \in Nat /\ crashes \in Nat /\ timeouts \in Nat
         /\ wire \in Seq(Message) /\ answers \in Seq(Reply)
         /\ Elems(wire) \subseteq Message /\ Elems(answers) \subseteq Reply
BY Pipes DEF RInv, Typed

LEMMA Spawned ==
  ASSUME NEW pid \in Nat \ {0}, Spawn(pid)
  PROVE  /\ runner' = Fresh(pid) /\ seat' = [state |-> "live", intentional |-> FALSE]
         /\ runner' \in RunnerType /\ ~runner'.ready /\ seat' \in SeatType /\ pid \in 1 .. MaxRunners
BY Zero DEF Spawn, Fresh, RunnerType, SeatType

\* The runner moves.  A is what it may say.
LEMMA RunnerMoves ==
  ASSUME RInv, Typed', UNCHANGED <<record, up, fence, seat, exitHook, parks>>,
         runner.alive, runner'.alive, runner'.pid = runner.pid, runner'.prep <= parks,
         \A m \in runner'.flushing : m \in runner.flushing \/
           (m \in Elems(wire) /\ m.verb \in Verb \ {"cancel"}),
         \A t \in Token : Bound(t)' => Bound(t),
         Elems(wire') \subseteq Elems(wire), Ordered(wire'),
         NEW A \in SUBSET Reply, Elems(answers') \subseteq Elems(answers) \cup A,
         \A a \in A : \/ a.verb = "words" /\ a.token <= parks
                      \/ Request(a.verb, a.token) \in Elems(wire) \cup runner.flushing,
         \A m \in Elems(wire') : m.verb = "prepare" =>
           /\ Request("prepare", m.token) \notin runner'.flushing
           /\ \A a \in A : ~(a.verb = "prepare" /\ a.token = m.token),
         ~Listening => wire' = <<>> /\ answers' = <<>>,
         Withdrawn'
  PROVE  RInv'
<1>1. Tokens'
  <2>1. parks' = parks /\ fence' = fence  OBVIOUS
  <2>2. \A m \in Elems(wire') \cup runner'.flushing :
          m.token <= parks /\ (m.verb # "words" => m.token # NoToken)
    BY DEF RInv, Tokens
  <2>3. ASSUME NEW a \in A PROVE a.token <= parks /\ (a.verb # "words" => a.token # NoToken)
    <3>1. Request(a.verb, a.token).verb = a.verb /\ Request(a.verb, a.token).token = a.token
      BY DEF Request
    <3>2. CASE a.verb = "words" /\ a.token <= parks  BY <3>2
    <3>3. CASE Request(a.verb, a.token) \in Elems(wire) \cup runner.flushing
      <4>. DEFINE x == Request(a.verb, a.token)
      <4>. HIDE DEF x
      <4>1. x.token <= parks /\ (x.verb # "words" => x.token # NoToken)
        BY <3>3 DEF RInv, Tokens, x
      <4>. QED  BY <3>1, <4>1 DEF x
    <3>. QED  BY <2>3, <3>2, <3>3
  <2>. QED  BY <2>1, <2>2, <2>3 DEF RInv, Tokens
<1>2. Processes'
  BY DEF RInv, Processes, Listening
<1>3. Stands'
  BY DEF RInv, Stands, Fenced
<1>4. Requests'
  <2>1. \A m \in Elems(wire') : m.verb \in Verb => Fenced' /\ m.token = fence.token
    BY DEF RInv, Requests, Fenced
  <2>2. ASSUME NEW m \in Elems(wire') \cup Elems(answers'), m.verb = "cancel",
               m.token = fence.token
        PROVE  fence.pc \in {"cancel", "idle", "exit"}
    <3>1. m \in Elems(wire) \cup Elems(answers) \/
          (m \in A /\ Request("cancel", m.token) \in Elems(wire) \cup runner.flushing)
      BY <2>2
    <3>2. \A x \in runner.flushing : x.verb # "cancel"  BY DEF RInv, Tokens
    <3>3. Request("cancel", m.token).verb = "cancel" /\ Request("cancel", m.token).token = m.token
      BY DEF Request
    <3>. QED  BY <2>2, <3>1, <3>2, <3>3 DEF RInv, Requests
  <2>3. \A m \in Elems(wire') : m.verb = "prepare" =>
          /\ fence.phase = "preparing"
          /\ Request("prepare", m.token) \notin runner'.flushing
          /\ \A a \in Elems(answers') : ~(a.verb = "prepare" /\ a.token = m.token)
    BY DEF RInv, Requests
  <2>4. fence.phase = "preparing" => Request("commit", fence.token) \notin runner'.flushing
    <3>. SUFFICES ASSUME fence.phase = "preparing",
                         Request("commit", fence.token) \in runner'.flushing
                  PROVE  FALSE
      OBVIOUS
    <3>1. Request("commit", fence.token) \in Elems(wire)
      BY DEF RInv, Requests
    <3>2. fence.token \in Token /\ Listening
      BY <3>1, Types, Emptied DEF RInv, Processes, AFence
    <3>. QED  BY <3>1, <3>2 DEF RInv, BoundIsFenced, Bound
  <2>. QED  BY <2>1, <2>2, <2>3, <2>4 DEF Requests
<1>5. BoundIsFenced'
  BY DEF RInv, BoundIsFenced, Listening
<1>6. BoundIsIntended'
  <2>1. ASSUME runner'.committed # NoToken
        PROVE  record.intent = runner'.committed /\ record.intentPid = runner.pid
    <3>1. PICK t \in Token : t = runner'.committed  BY DEF Typed, RunnerType
    <3>2. Bound(t)'  BY <2>1, <3>1 DEF Bound
    <3>. QED  BY <3>1, <3>2 DEF RInv, BoundIsIntended
  <2>. QED  BY <2>1 DEF RInv, BoundIsIntended
<1>. QED  BY <1>1, <1>2, <1>3, <1>4, <1>5, <1>6 DEF RInv

\* The daemon listens or waits; the runner and the requests are where they were.
LEMMA FenceMoves ==
  ASSUME RInv, Typed', UNCHANGED <<record, runner, up, seat, parks>>,
         exitHook' => exitHook,
         fence'.phase = fence.phase, fence'.token = fence.token,
         fence'.pc \in {fence.pc, "exit", "idle"},
         fence.phase = "open" => fence' = fence,
         Elems(wire') \subseteq Elems(wire), Ordered(wire'),
         Elems(answers') \subseteq Elems(answers),
         ~Listening => wire' = <<>> /\ answers' = <<>>
  PROVE  RInv'
<1>1. Tokens'
  BY DEF RInv, Tokens
<1>2. Processes'
  BY DEF RInv, Processes, Listening, Open
<1>3. Stands'
  BY DEF RInv, Stands, Fenced
<1>4. Requests'
  <2>1. Fenced' = Fenced  BY DEF Fenced
  <2>2. fence.pc \in {"cancel", "idle", "exit"} => fence'.pc \in {"cancel", "idle", "exit"}
    OBVIOUS
  <2>. QED  BY <2>1, <2>2 DEF RInv, Requests
<1>5. Withdrawn'
  BY DEF RInv, Withdrawn
<1>6. BoundIsFenced'
  BY DEF RInv, BoundIsFenced, Bound, Listening
<1>7. BoundIsIntended'
  BY DEF RInv, BoundIsIntended, Bound
<1>. QED  BY <1>1, <1>2, <1>3, <1>4, <1>5, <1>6, <1>7 DEF RInv

\* The daemon asks for a cancel.
LEMMA Cancels ==
  ASSUME RInv, Typed', UNCHANGED <<record, runner, up, seat, exitHook, parks>>,
         fence.pc \in {"prepare", "commit"}, Cancel,
         Elems(answers') \subseteq Elems(answers), ~Listening => answers' = <<>>
  PROVE  RInv'
<1>1. fence \in AFence /\ fence.token \in Token /\ fence.phase # "open" /\ Fenced /\ fence.token # NoToken
  BY Types DEF RInv, Stands, Open, AFence, Fenced
<1>2. /\ fence'.phase = fence.phase /\ fence'.token = fence.token
      /\ fence'.pc \in {"cancel", "idle"} /\ fence'.cancelled = fence.cancelled
  BY <1>1 DEF Cancel, Asking, AFence
<1>3. \A m \in Elems(wire) \cup Elems(answers) : ~(m.verb = "cancel" /\ m.token = fence.token)
  BY DEF RInv, Requests
<1>4. \A m \in Elems(wire) : m.verb # "cancel"
  BY <1>3 DEF RInv, Requests, Verb
<1>5. Request("cancel", fence.token).verb = "cancel" /\ Request("cancel", fence.token).token = fence.token
  BY DEF Request
<1>6. /\ Elems(wire') \subseteq Elems(wire) \cup {Request("cancel", fence.token)}
      /\ Ordered(wire') /\ (~Listening => wire' = <<>>)
  <2>1. IF DoorOpen THEN wire' = Append(wire, Request("cancel", fence.token)) ELSE UNCHANGED wire
    BY DEF Cancel, Ask, Request
  <2>2. MayFollow("cancel", wire)  BY <1>4 DEF MayFollow
  <2>3. "cancel" \in Verb \cup {"words"}  BY DEF Verb
  <2>. QED  BY <1>1, <2>1, <2>2, <2>3, Sends
<1>7. Tokens'
  BY <1>1, <1>2, <1>5, <1>6 DEF RInv, Tokens
<1>8. Processes'
  <2>1. up  BY <1>1 DEF RInv, Processes, Open
  <2>. QED  BY <1>6, <2>1 DEF RInv, Processes, Listening
<1>9. Stands'
  BY <1>1, <1>2 DEF RInv, Stands, Fenced
<1>10. Requests'
  <2>1. Fenced' = Fenced  BY <1>2 DEF Fenced
  <2>. QED  BY <1>1, <1>2, <1>5, <1>6, <2>1 DEF RInv, Requests
<1>11. Withdrawn'
  BY <1>2, <1>3 DEF Withdrawn
<1>12. ASSUME NEW t \in Token, Bound(t)' PROVE Bound(t)
  <2>1. Request("commit", t) # Request("cancel", fence.token)
    BY <1>5 DEF Request
  <2>. QED  BY <1>6, <1>12, <2>1 DEF Bound
<1>13. BoundIsFenced'
  BY <1>2, <1>12 DEF RInv, BoundIsFenced, Listening
<1>14. BoundIsIntended'
  BY <1>12 DEF RInv, BoundIsIntended
<1>. QED  BY <1>7, <1>8, <1>9, <1>10, <1>11, <1>13, <1>14 DEF RInv

LEMMA CancelTyped ==
  ASSUME RInv, Cancel
  PROVE  fence' \in AFence /\ wire' \in Seq(Message)
<1>1. fence \in AFence /\ fence.token \in Token  BY Types DEF AFence
<1>2. fence' \in AFence  BY <1>1 DEF Cancel, Asking, AFence, Verb
<1>3. IF DoorOpen THEN wire' = Append(wire, Request("cancel", fence.token)) ELSE UNCHANGED wire
  BY DEF Cancel, Ask, Request
<1>4. "cancel" \in Verb \cup {"words"}  BY DEF Verb
<1>. QED  BY <1>1, <1>2, <1>3, <1>4, Sends

\* A token that is handed out is new.
LEMMA Tokened ==
  ASSUME RInv
  PROVE  /\ fence.token <= parks /\ runner.prep <= parks
         /\ fence.token \in Nat /\ runner.prep \in Nat
         /\ \A m \in Elems(wire) \cup Elems(answers) \cup runner.flushing :
              /\ m.token \in Nat /\ m.token <= parks
              /\ m.verb # "words" => m.token # NoToken
         /\ \A m \in runner.flushing : m.verb # "cancel"
BY Types, Zero DEF RInv, Tokens, AFence, RunnerType, RequestType, Message, Reply
-----------------------------------------------------------------------------
(* The runner *)

LEMMA DoAccept == ASSUME RInv, Accept PROVE RInv'
<1>. DEFINE A == {}
<1>1. /\ runner.alive /\ wire # <<>> /\ wire' = Tail(wire) /\ answers' = answers
      /\ runner' = [runner EXCEPT !.accepting = TRUE]
      /\ UNCHANGED <<record, up, fence, seat, exitHook, words, parks, spoken, crashes, timeouts>>
  BY DEF Accept, RunnerOnly, counters
<1>2. /\ runner' \in RunnerType /\ runner'.alive /\ runner'.pid = runner.pid
      /\ runner'.prep = runner.prep /\ runner'.ready = runner.ready
      /\ runner'.flushing = runner.flushing /\ runner'.committed = runner.committed
  BY <1>1, Types DEF RunnerType
<1>3. /\ wire' \in Seq(Message) /\ Elems(wire') \subseteq Elems(wire) /\ Ordered(wire') /\ Listening
  BY <1>1, Receives
<1>4. Typed'  BY <1>1, <1>2, <1>3, Types DEF Typed
<1>5. \A t \in Token : Bound(t)' => Bound(t)  BY <1>2, <1>3 DEF Bound
<1>6. Withdrawn'  BY <1>1, <1>2, <1>3 DEF RInv, Withdrawn
<1>7. \A m \in Elems(wire') : m.verb = "prepare" => Request("prepare", m.token) \notin runner'.flushing
  BY <1>2, <1>3 DEF RInv, Requests
<1>8. runner'.prep <= parks  BY <1>2 DEF RInv, Tokens
<1>9. A \in SUBSET Reply /\ Elems(answers') \subseteq Elems(answers) \cup A /\ \A a \in A : FALSE
  BY <1>1
<1>. HIDE DEF A
<1>. QED  BY <1>1, <1>2, <1>3, <1>4, <1>5, <1>6, <1>7, <1>8, <1>9, RunnerMoves

LEMMA DoWake == ASSUME RInv, Wake PROVE RInv'
<1>. DEFINE A == {}
<1>1. /\ runner.alive /\ runner.committed = NoToken /\ wire' = wire /\ answers' = answers
      /\ runner' = [Invalidated(runner) EXCEPT !.busy = TRUE]
      /\ UNCHANGED <<record, up, fence, seat, exitHook, words, parks, crashes, timeouts>>
      /\ spoken' = spoken + 1
  BY DEF Wake, RunnerOnly
<1>2. /\ runner' \in RunnerType /\ runner'.alive /\ runner'.pid = runner.pid
      /\ runner'.prep = NoToken /\ ~runner'.ready
      /\ runner'.flushing = runner.flushing /\ runner'.committed = runner.committed
  BY <1>1, Types, Zero DEF RunnerType, Invalidated
<1>4. Typed'  BY <1>1, <1>2, Types DEF Typed
<1>5. \A t \in Token : Bound(t)' => Bound(t)
  <2>1. \A t \in Token : t = NoToken => Request("commit", t) \notin runner.flushing
    BY DEF RInv, Tokens, Request
  <2>. QED  BY <1>1, <1>2, <2>1 DEF Bound
<1>6. Withdrawn'
  <2>1. \A a \in Elems(answers) : a.verb = "cancel" => a.token # NoToken  BY DEF RInv, Tokens
  <2>. QED  BY <1>1, <1>2, <2>1 DEF RInv, Withdrawn
<1>7. /\ \A m \in Elems(wire') : m.verb = "prepare" => Request("prepare", m.token) \notin runner'.flushing
      /\ Ordered(wire') /\ (~Listening => wire' = <<>> /\ answers' = <<>>)
  BY <1>1, <1>2 DEF RInv, Requests, Processes
<1>8. runner'.prep <= parks  BY <1>2, Types DEF NoToken
<1>9. A \in SUBSET Reply /\ Elems(answers') \subseteq Elems(answers) \cup A /\ \A a \in A : FALSE
  BY <1>1
<1>. HIDE DEF A
<1>. QED  BY <1>1, <1>2, <1>4, <1>5, <1>6, <1>7, <1>8, <1>9, RunnerMoves

LEMMA DoEnqueue == ASSUME RInv, Enqueue PROVE RInv'
<1>. DEFINE w == Request("words", NoToken)
            y == [verb |-> "words", token |-> NoToken, ok |-> TRUE]
<1>1. /\ runner.alive /\ wire' = wire /\ Answer(w, TRUE)
      /\ runner' = [Invalidated(runner) EXCEPT !.accepting = FALSE, !.busy = TRUE]
      /\ UNCHANGED <<record, up, fence, seat, exitHook, words, parks, spoken, crashes, timeouts>>
  BY DEF Enqueue, RunnerOnly, counters, Request
<1>2. /\ runner' \in RunnerType /\ runner'.alive /\ runner'.pid = runner.pid
      /\ runner'.prep \in {runner.prep, NoToken} /\ (runner'.ready => runner'.prep # NoToken)
      /\ runner'.flushing = runner.flushing /\ runner'.committed = runner.committed
  BY <1>1, Types, Zero DEF RunnerType, Invalidated
<1>3. /\ w \in Message /\ y \in Reply /\ answers' \in Seq(Reply)
      /\ Elems(answers') \subseteq Elems(answers) \cup {y} /\ (~Listening => answers' = <<>>)
  <2>1. w \in Message /\ w.verb = "words" /\ w.token = NoToken  BY Zero DEF Message, Request
  <2>2. y \in Reply  BY Zero DEF Reply
  <2>. HIDE DEF w
  <2>. QED  BY <1>1, <2>1, <2>2, Says
<1>4. Typed'  BY <1>1, <1>2, <1>3, Types DEF Typed
<1>5. \A t \in Token : Bound(t)' => Bound(t)
  <2>1. \A t \in Token : t = NoToken => Request("commit", t) \notin runner.flushing
    BY DEF RInv, Tokens, Request
  <2>. QED  BY <1>1, <1>2, <2>1 DEF Bound
<1>6. Withdrawn'
  <2>1. \A a \in Elems(answers) : a.verb = "cancel" => a.token # NoToken  BY DEF RInv, Tokens
  <2>2. y.verb # "cancel"  OBVIOUS
  <2>. HIDE DEF y
  <2>. QED  BY <1>1, <1>2, <1>3, <2>1, <2>2 DEF RInv, Withdrawn
<1>7. /\ \A m \in Elems(wire') : m.verb = "prepare" => Request("prepare", m.token) \notin runner'.flushing
      /\ Ordered(wire') /\ (~Listening => wire' = <<>>)
  BY <1>1, <1>2 DEF RInv, Requests, Processes
<1>8. runner'.prep <= parks  BY <1>2, Types DEF NoToken, RInv, Tokens
<1>9. /\ y.verb = "words" /\ y.token <= parks
  BY Types DEF NoToken
<1>. HIDE DEF y
<1>10. /\ {y} \in SUBSET Reply /\ \A a \in {y} : a.verb = "words" /\ a.token <= parks
       /\ \A a \in {y} : a.verb # "prepare"
  BY <1>3, <1>9
<1>. QED  BY <1>1, <1>2, <1>3, <1>4, <1>5, <1>6, <1>7, <1>8, <1>10, RunnerMoves

LEMMA DoFlushed ==
  ASSUME RInv, NEW m \in runner.flushing, NEW ok \in BOOLEAN, Flushed(m, ok)
  PROVE  RInv'
<1>. DEFINE y(b) == [verb |-> m.verb, token |-> m.token, ok |-> b]
            r == [runner EXCEPT !.flushing = @ \ {m}]
<1>1. /\ runner.alive /\ wire' = wire
      /\ UNCHANGED <<record, up, fence, seat, exitHook, words, parks, spoken, crashes, timeouts>>
  BY DEF Flushed, RunnerOnly, counters
<1>2. /\ m \in RequestType /\ m = Request(m.verb, m.token) /\ m \in Message /\ m.verb \in {"prepare", "commit"}
      /\ m.token # NoToken /\ m.token \in Token /\ m.token <= parks
  BY Types DEF RInv, Tokens, RunnerType, RequestType, Message, Request, Verb
<1>3. /\ r \in RunnerType /\ r.pid = runner.pid /\ r.alive = runner.alive /\ r.prep = runner.prep
      /\ r.ready = runner.ready /\ r.committed = runner.committed
      /\ r.flushing = runner.flushing \ {m}
  <2>1. runner \in RunnerType /\ runner.flushing \ {m} \in SUBSET RequestType
    BY Types DEF RunnerType
  <2>. QED  BY <2>1 DEF RunnerType
<1>4. PICK b \in BOOLEAN : Answer(m, b) /\
        (\/ /\ b /\ runner.prep = m.token /\ m.verb = "prepare"
            /\ runner' = [r EXCEPT !.ready = TRUE]
         \/ /\ b /\ runner.prep = m.token /\ m.verb = "commit"
            /\ runner' = [r EXCEPT !.committed = m.token, !.prep = NoToken, !.ready = FALSE]
         \/ ~b /\ runner' \in {r, Invalidated(r)})
  BY <1>2 DEF Flushed, StillCurrent
<1>5. /\ runner' \in RunnerType /\ runner'.alive /\ runner'.pid = runner.pid
      /\ runner'.prep \in {runner.prep, NoToken} /\ (runner'.ready => runner'.prep # NoToken)
      /\ runner'.flushing = runner.flushing \ {m}
      /\ runner'.committed = runner.committed \/
           (m.verb = "commit" /\ runner.prep = m.token /\ runner'.committed = m.token)
  <2>. HIDE DEF r
  <2>1. CASE runner' = [r EXCEPT !.ready = TRUE] /\ runner.prep = m.token
    BY <2>1, <1>1, <1>2, <1>3 DEF RunnerType
  <2>2. CASE runner' = [r EXCEPT !.committed = m.token, !.prep = NoToken, !.ready = FALSE]
             /\ runner.prep = m.token /\ m.verb = "commit"
    BY <2>2, <1>1, <1>2, <1>3, Zero DEF RunnerType
  <2>3. CASE runner' = r
    BY <2>3, <1>1, <1>3, Types
  <2>4. CASE runner' = Invalidated(r)
    <3>1. CASE r.committed # NoToken  BY <2>4, <3>1, <1>1, <1>3, Types DEF Invalidated
    <3>2. CASE r.committed = NoToken  BY <2>4, <3>2, <1>1, <1>3, Zero DEF RunnerType, Invalidated
    <3>. QED  BY <3>1, <3>2
  <2>. QED  BY <1>4, <2>1, <2>2, <2>3, <2>4
<1>6. /\ y(b) \in Reply /\ answers' \in Seq(Reply)
      /\ Elems(answers') \subseteq Elems(answers) \cup {y(b)} /\ (~Listening => answers' = <<>>)
  BY <1>2, <1>4, Says DEF Reply, Message
<1>7. Typed'  BY <1>1, <1>5, <1>6, Types DEF Typed
<1>8. \A t \in Token : Bound(t)' => Bound(t)
  <2>1. \A t \in Token : t = NoToken => Request("commit", t) \notin runner.flushing
    BY DEF RInv, Tokens, Request
  <2>2. ASSUME NEW t \in Token, runner'.committed = t, t # NoToken PROVE Bound(t)
    BY <1>2, <1>5, <2>2 DEF Bound
  <2>. QED  BY <1>1, <1>5, <2>1, <2>2 DEF Bound
<1>9. y(b).verb = m.verb /\ y(b).token = m.token
  OBVIOUS
<1>. HIDE DEF y
<1>10. Withdrawn'
  <2>1. \A a \in Elems(answers) : a.verb = "cancel" => a.token # NoToken  BY DEF RInv, Tokens
  <2>. QED  BY <1>1, <1>2, <1>5, <1>6, <1>9, <2>1 DEF RInv, Withdrawn
<1>11. /\ \A x \in Elems(wire') : x.verb = "prepare" =>
            /\ Request("prepare", x.token) \notin runner'.flushing
            /\ \A a \in {y(b)} : ~(a.verb = "prepare" /\ a.token = x.token)
       /\ Ordered(wire') /\ (~Listening => wire' = <<>>)
  BY <1>1, <1>2, <1>5, <1>9 DEF RInv, Requests, Processes
<1>12. runner'.prep <= parks  BY <1>5, Types DEF NoToken, RInv, Tokens
<1>13. /\ {y(b)} \in SUBSET Reply
       /\ \A a \in {y(b)} : Request(a.verb, a.token) \in Elems(wire) \cup runner.flushing
  BY <1>2, <1>6, <1>9
<1>. QED  BY <1>1, <1>5, <1>6, <1>7, <1>8, <1>10, <1>11, <1>12, <1>13, RunnerMoves

LEMMA DoAsked == ASSUME RInv, Asked PROVE RInv'
<1>. DEFINE m == Head(wire)
            y(b) == [verb |-> m.verb, token |-> m.token, ok |-> b]
<1>1. /\ runner.alive /\ wire # <<>> /\ m.verb \in Verb /\ wire' = Tail(wire)
      /\ UNCHANGED <<record, up, fence, seat, exitHook, words, parks, spoken, crashes, timeouts>>
  BY DEF Asked, RunnerOnly, counters
<1>2. /\ m \in Message /\ m \in Elems(wire) /\ wire' \in Seq(Message)
      /\ Elems(wire') \subseteq Elems(wire) /\ Ordered(wire') /\ Listening
      /\ \A x \in Elems(wire') : /\ m.verb = "cancel" => x.verb = "words"
                                 /\ x.verb # "prepare"
  BY <1>1, Receives DEF Verb
<1>3. /\ m = Request(m.verb, m.token) /\ m \in RequestType /\ m.token \in Token
      /\ m.token # NoToken /\ m.token <= parks /\ m.token = fence.token /\ Fenced
  BY <1>1, <1>2 DEF Message, RequestType, Request, RInv, Requests, Tokens, Verb
<1>4. \/ \E b \in BOOLEAN : Answer(m, b) /\ runner' \in {runner, Invalidated(runner),
           Invalidated([runner EXCEPT !.prep = m.token, !.ready = FALSE])}
           /\ (b /\ m.verb = "cancel" =>
                 runner.prep \in {NoToken, m.token} /\ runner' = Invalidated(runner)
                 /\ runner.committed = NoToken)
           /\ (runner.committed # NoToken => runner' = runner)
      \/ /\ answers' = answers /\ m.verb = "prepare"
         /\ runner' = [runner EXCEPT !.prep = m.token, !.ready = FALSE, !.flushing = @ \cup {m}]
      \/ /\ answers' = answers /\ m.verb = "commit" /\ runner.prep = m.token
         /\ runner' = [runner EXCEPT !.flushing = @ \cup {m}]
  BY <1>1 DEF Asked, Verb
<1>. HIDE DEF m
<1>5. \A t \in Token : t = NoToken => Request("commit", t) \notin runner.flushing
  BY DEF RInv, Tokens, Request
<1>6. Typed /\ \A a \in Elems(answers) : a.verb = "cancel" => a.token # NoToken
  BY DEF RInv, Tokens
<1>7. runner'.prep \in {runner.prep, NoToken, m.token} => runner'.prep <= parks
  BY <1>3, Types DEF NoToken, RInv, Tokens
<1>8. ASSUME NEW b \in BOOLEAN, Answer(m, b),
             runner' \in {runner, Invalidated(runner),
                          Invalidated([runner EXCEPT !.prep = m.token, !.ready = FALSE])},
             b /\ m.verb = "cancel" =>
               runner.prep \in {NoToken, m.token} /\ runner' = Invalidated(runner)
               /\ runner.committed = NoToken,
             runner.committed # NoToken => runner' = runner
      PROVE  RInv'
  <2>1. /\ runner' \in RunnerType /\ runner'.alive /\ runner'.pid = runner.pid
        /\ (runner'.ready => runner'.prep # NoToken)
        /\ runner'.prep \in {runner.prep, NoToken}
        /\ runner'.flushing = runner.flushing /\ runner'.committed = runner.committed
        /\ b /\ m.verb = "cancel" => runner'.prep = NoToken
    BY <1>1, <1>3, <1>8, Types, Zero DEF RunnerType, Invalidated
  <2>2. /\ y(b) \in Reply /\ answers' \in Seq(Reply)
        /\ Elems(answers') \subseteq Elems(answers) \cup {y(b)}
    BY <1>2, <1>8, Says DEF Reply, Message
  <2>3. y(b).verb = m.verb /\ y(b).token = m.token /\ y(b).ok = b
    OBVIOUS
  <2>. HIDE DEF y
  <2>4. Typed'  BY <1>1, <1>2, <2>1, <2>2, Types DEF Typed
  <2>5. \A t \in Token : Bound(t)' => Bound(t)
    BY <1>2, <1>5, <2>1 DEF Bound
  <2>6. Withdrawn'
    <3>1. ASSUME b, m.verb = "cancel"
          PROVE  /\ runner'.prep # m.token /\ runner'.committed # m.token
                 /\ \A x \in Elems(wire') : x.verb = "words"
      BY <1>2, <1>3, <1>8, <2>1, <3>1
    <3>. QED  BY <1>1, <1>2, <1>6, <2>1, <2>2, <2>3, <3>1 DEF RInv, Withdrawn
  <2>7. /\ {y(b)} \in SUBSET Reply
        /\ \A a \in {y(b)} : Request(a.verb, a.token) \in Elems(wire) \cup runner.flushing
    BY <1>2, <1>3, <2>2, <2>3
  <2>. QED  BY <1>1, <1>2, <1>7, <2>1, <2>2, <2>4, <2>5, <2>6, <2>7, RunnerMoves
<1>9. ASSUME answers' = answers, m.verb \in {"prepare", "commit"}, m.verb = "commit" => runner.prep = m.token,
             runner' = IF m.verb = "prepare"
                       THEN [runner EXCEPT !.prep = m.token, !.ready = FALSE, !.flushing = @ \cup {m}]
                       ELSE [runner EXCEPT !.flushing = @ \cup {m}]
      PROVE  RInv'
  <2>. DEFINE A == {}
  <2>1. /\ runner' \in RunnerType /\ runner'.alive /\ runner'.pid = runner.pid
        /\ (runner'.ready => runner'.prep # NoToken)
        /\ runner'.prep = IF m.verb = "prepare" THEN m.token ELSE runner.prep
        /\ runner'.flushing = runner.flushing \cup {m} /\ runner'.committed = runner.committed
    BY <1>1, <1>3, <1>9, Types DEF RunnerType
  <2>2. Typed'  BY <1>1, <1>2, <1>9, <2>1, Types DEF Typed
  <2>3. ASSUME NEW t \in Token, Bound(t)' PROVE Bound(t)
    <3>1. CASE runner.committed = t /\ t # NoToken  BY <3>1 DEF Bound
    <3>2. CASE Request("commit", t) \in Elems(wire)  BY <3>2 DEF Bound
    <3>3. CASE Request("commit", t) \in runner.flushing /\ runner'.prep = t
      <4>1. CASE m.verb = "prepare"
        <5>1. fence.phase = "preparing"  BY <1>2, <4>1 DEF RInv, Requests
        <5>. QED  BY <1>3, <2>1, <3>3, <4>1, <5>1 DEF RInv, Requests
      <4>2. CASE m.verb = "commit"  BY <2>1, <3>3, <4>2 DEF Bound
      <4>. QED  BY <1>9, <4>1, <4>2
    <3>4. CASE Request("commit", t) = m  BY <1>2, <3>4 DEF Bound
    <3>. QED  BY <1>2, <2>1, <2>3, <3>1, <3>2, <3>3, <3>4 DEF Bound
  <2>4. Withdrawn'
    <3>1. \A a \in Elems(answers) : ~(a.verb = "cancel" /\ a.ok /\ a.token = fence.token)
      BY <1>2, <1>9 DEF RInv, Withdrawn
    <3>. QED  BY <1>1, <1>9, <3>1 DEF Withdrawn
  <2>5. A \in SUBSET Reply /\ Elems(answers') \subseteq Elems(answers) \cup A /\ \A a \in A : FALSE
    BY <1>9
  <2>. HIDE DEF A
  <2>. QED  BY <1>1, <1>2, <1>7, <1>9, <2>1, <2>2, <2>3, <2>4, <2>5, RunnerMoves DEF Verb
<1>. QED  BY <1>4, <1>8, <1>9

LEMMA RunnerDies ==
  ASSUME RInv, Gone, UNCHANGED <<record, wire, answers, up, fence, seat, exitHook, words, parks>>,
         spoken' \in Nat, crashes' \in Nat, timeouts' \in Nat
  PROVE  RInv'
<1>1. /\ runner' \in RunnerType /\ ~runner'.alive /\ runner'.pid = runner.pid
      /\ runner'.prep = runner.prep /\ runner'.ready = runner.ready
      /\ runner'.committed = runner.committed /\ runner'.flushing = runner.flushing
  BY Types DEF Gone, RunnerType
<1>2. Typed'  BY <1>1, Types DEF Typed
<1>3. Tokens' /\ Processes' /\ Stands'
  BY <1>1 DEF RInv, Tokens, Processes, Stands, Listening, Fenced
<1>4. Requests' /\ Withdrawn'
  BY <1>1 DEF RInv, Requests, Withdrawn, Fenced
<1>5. \A t \in Token : Bound(t)' <=> Bound(t)
  BY <1>1 DEF Bound
<1>6. BoundIsFenced' /\ BoundIsIntended'
  BY <1>1, <1>5 DEF RInv, BoundIsFenced, BoundIsIntended, Listening
<1>. QED  BY <1>2, <1>3, <1>4, <1>6 DEF RInv

LEMMA DoDies == ASSUME RInv, Exit \/ RunnerCrash PROVE RInv'
BY RunnerDies, Types DEF Exit, RunnerCrash, RunnerOnly, counters, Crash

\* The record changes, its intent at most by being dropped; the child may be told to go.
LEMMA RecordMoves ==
  ASSUME RInv, record' \in RecordType, record'.pid = record.pid,
         record'.intent \in {NoToken, record.intent}, record'.intentPid = record.intentPid,
         runner.committed # NoToken /\ ~record'.parked => record'.intent = record.intent /\ ~record.parked,
         runner.alive => \A t \in Token : Bound(t) => record'.intent = record.intent,
         seat' \in SeatType, seat.intentional => seat'.intentional,
         seat'.state = seat.state \/ (up /\ seat'.state \in {"retiring", "gone"}),
         seat.state \in {"live", "retiring"} <=> seat'.state \in {"live", "retiring"},
         exitHook' \in BOOLEAN, exitHook' => up,
         parks' \in Nat, parks <= parks', parks' <= MaxParks,
         UNCHANGED <<wire, answers, fence, words, spoken, crashes, timeouts>>,
         up' \in BOOLEAN, up => up', runner' \in RunnerType,
         runner' = [runner EXCEPT !.busy = runner'.busy]
  PROVE  RInv'
<1>1. /\ runner'.alive = runner.alive /\ runner'.pid = runner.pid
      /\ runner'.prep = runner.prep /\ runner'.ready = runner.ready
      /\ runner'.committed = runner.committed /\ runner'.flushing = runner.flushing
  BY Types DEF RunnerType
<1>2. Typed'  BY <1>1, Types DEF Typed
<1>3. ~up => seat.state = "orphan" /\ fence = Open /\ ~exitHook
  BY DEF RInv, Processes
<1>4. Listening' <=> Listening
  BY <1>3, Types DEF Listening
<1>5. Tokens'
  BY <1>1, Types, Tokened DEF RInv, Tokens, RunnerType, AFence
<1>6. Stands'
  BY DEF RInv, Stands, Fenced
<1>7. Processes'
  BY <1>1, <1>3, <1>4 DEF RInv, Processes
<1>8. Requests' /\ Withdrawn'
  BY <1>1 DEF RInv, Requests, Withdrawn, Fenced
<1>9. \A t \in Token : Bound(t)' <=> Bound(t)
  BY <1>1 DEF Bound
<1>10. BoundIsFenced' /\ BoundIsIntended'
  BY <1>1, <1>4, <1>9 DEF RInv, BoundIsFenced, BoundIsIntended
<1>. QED  BY <1>2, <1>5, <1>6, <1>7, <1>8, <1>10 DEF RInv

\* Nobody but the one that is told to go learns of a kill.
LEMMA KillMoves ==
  ASSUME RInv, Kill
  PROVE  /\ seat' \in SeatType /\ (seat.intentional => seat'.intentional)
         /\ seat'.state = seat.state \/ seat'.state \in {"retiring", "gone"}
         /\ seat.state \in {"live", "retiring"} <=> seat'.state \in {"live", "retiring"}
         /\ exitHook' \in BOOLEAN
BY Types DEF Kill, Killed, SeatType

LEMMA DoTurnEnds == ASSUME RInv, TurnEnds PROVE RInv'
<1>1. /\ runner' = [runner EXCEPT !.busy = FALSE]
      /\ UNCHANGED <<wire, answers, up, fence, words, counters>>
      /\ \/ Listening /\ record' = [Parked(record) EXCEPT !.inTurn = FALSE] /\ Kill
         \/ record' \in {record, [record EXCEPT !.inTurn = FALSE]} /\ UNCHANGED <<seat, exitHook>>
  BY DEF TurnEnds
<1>2. /\ runner' \in RunnerType /\ runner' = [runner EXCEPT !.busy = runner'.busy]
      /\ exitHook => up
  BY <1>1, Types DEF RunnerType, RInv, Processes
<1>3. /\ record' \in RecordType /\ record'.pid = record.pid /\ record'.intent = record.intent
      /\ record'.intentPid = record.intentPid /\ (record.parked => record'.parked)
  BY <1>1, Types DEF RecordType, Parked
<1>4. parks' \in Nat /\ parks <= parks' /\ parks' <= MaxParks
      /\ UNCHANGED <<spoken, crashes, timeouts>>
  BY <1>1, Types DEF RInv, Tokens, counters
<1>5. CASE Listening /\ Kill
  <2>1. up  BY <1>5 DEF Listening
  <2>. QED  BY <1>1, <1>2, <1>3, <1>4, <1>5, <2>1, Types, KillMoves, RecordMoves
<1>6. CASE UNCHANGED <<seat, exitHook>>
  BY <1>1, <1>2, <1>3, <1>4, <1>6, Types, RecordMoves
<1>. QED  BY <1>1, <1>5, <1>6

LEMMA DoParkNow == ASSUME RInv, NEW cut \in BOOLEAN, ParkNow(cut) PROVE RInv'
<1>1. /\ up /\ parks < MaxParks /\ parks' = parks + 1
      /\ UNCHANGED <<runner, wire, answers, up, fence, words, spoken, crashes, timeouts>>
      /\ \/ record' = Parked(record) /\ Kill
         \/ record' = [record EXCEPT !.requested = TRUE] /\ UNCHANGED <<seat, exitHook>>
  BY DEF ParkNow
<1>2. runner' \in RunnerType /\ runner' = [runner EXCEPT !.busy = runner'.busy]
  BY <1>1, Types DEF RunnerType
<1>3. /\ record' \in RecordType /\ record'.pid = record.pid /\ record'.intent = record.intent
      /\ record'.intentPid = record.intentPid /\ (record.parked => record'.parked)
  BY <1>1, Types DEF RecordType, Parked
<1>4. parks' \in Nat /\ parks <= parks' /\ parks' <= MaxParks
  BY <1>1, Types, Zero
<1>5. CASE Kill
  BY <1>1, <1>2, <1>3, <1>4, <1>5, Types, KillMoves, RecordMoves
<1>6. CASE UNCHANGED <<seat, exitHook>>
  BY <1>1, <1>2, <1>3, <1>4, <1>6, Types, RecordMoves
<1>. QED  BY <1>1, <1>5, <1>6

-----------------------------------------------------------------------------
(* The daemon *)

\* The runner of a record.
LEMMA Alive ==
  ASSUME RInv
  PROVE  (PidAlive <=> runner.alive) /\ record.pid = runner.pid
BY Types DEF RInv, Processes, PidAlive, RunnerType

LEMMA DoReconcile ==
  ASSUME RInv, NEW live \in BOOLEAN, runner.alive => live,
         runner.committed # NoToken /\ ~record.parked => record.intentPid = runner.pid,
         record' = Reconciled(record, live), up' \in BOOLEAN, up => up',
         UNCHANGED <<runner, wire, answers, fence, seat, exitHook, words, counters>>
  PROVE  RInv'
<1>1. /\ record' \in RecordType /\ record'.pid = record.pid
      /\ record'.intent \in {NoToken, record.intent} /\ record'.intentPid = record.intentPid
  BY Types, Zero DEF Reconciled, Parked, Landed, RecordType
<1>2. ASSUME live, record.intentPid = record.pid PROVE record'.intent = record.intent
  BY <1>2 DEF Reconciled
<1>3. runner.committed # NoToken /\ ~record'.parked => record'.intent = record.intent /\ ~record.parked
  BY Alive, Types DEF Reconciled, Parked, Landed, RecordType
<1>4. runner.alive => \A t \in Token : Bound(t) => record'.intent = record.intent
  BY <1>2, Alive DEF RInv, BoundIsIntended
<1>5. /\ runner' \in RunnerType /\ runner' = [runner EXCEPT !.busy = runner'.busy]
      /\ (exitHook' => up) /\ parks' \in Nat /\ parks <= parks' /\ parks' <= MaxParks
      /\ UNCHANGED <<spoken, crashes, timeouts>>
  BY Types DEF RunnerType, RInv, Processes, Tokens, counters
<1>. QED  BY <1>1, <1>3, <1>4, <1>5, Types, RecordMoves

LEMMA DoTick == ASSUME RInv, Tick \/ DaemonBoot PROVE RInv'
<1>1. runner.committed # NoToken /\ ~record.parked => record.intentPid = runner.pid
  BY DEF RInv, BoundIsIntended
<1>2. CASE Tick
  BY <1>1, <1>2, Alive, Types, DoReconcile DEF Tick, SeatAlive
<1>3. CASE DaemonBoot
  BY <1>1, <1>3, Alive, Types, DoReconcile DEF DaemonBoot, PidAlive
<1>. QED  BY <1>2, <1>3

LEMMA DoExitUnseen == ASSUME RInv, ExitUnseen PROVE RInv'
<1>1. /\ fence' = [fence EXCEPT !.pc = "idle"] /\ timeouts' = timeouts + 1 /\ up /\ fence.pc = "exit"
      /\ UNCHANGED <<record, runner, wire, answers, up, seat, exitHook, words, parks, spoken, crashes>>
  BY DEF ExitUnseen
<1>2. fence' \in AFence /\ fence'.phase = fence.phase /\ fence'.token = fence.token /\ fence'.pc = "idle"
  BY <1>1, Types DEF AFence
<1>3. Typed'  BY <1>1, <1>2, Types DEF Typed
<1>4. fence.phase # "open" /\ Ordered(wire) /\ (~Listening => wire = <<>> /\ answers = <<>>)
  BY <1>1 DEF RInv, Stands, Open, Requests, Processes
<1>. QED  BY <1>1, <1>2, <1>3, <1>4, FenceMoves

\* An answer is taken that changes no more than what the daemon waits for.
LEMMA Heard ==
  ASSUME RInv, answers # <<>>, answers' = Tail(answers),
         fence' \in {fence, [fence EXCEPT !.pc = "exit"], [fence EXCEPT !.pc = "idle"]},
         fence' = fence \/ fence.pc # "idle",
         UNCHANGED <<record, runner, wire, up, seat, exitHook, counters>>,
         words' \in {words, "none"}
  PROVE  RInv'
<1>1. /\ fence' \in AFence /\ fence'.phase = fence.phase /\ fence'.token = fence.token
      /\ fence'.pc \in {fence.pc, "exit", "idle"}
  BY Types DEF AFence
<1>2. answers' \in Seq(Reply) /\ Elems(answers') \subseteq Elems(answers) /\ Listening
  BY Hears
<1>3. Typed'  BY <1>1, <1>2, Types DEF Typed, counters
<1>4. (fence.phase = "open" => fence' = fence) /\ Ordered(wire') /\ parks' = parks
  BY DEF RInv, Stands, Open, Requests, counters
<1>. QED  BY <1>1, <1>2, <1>3, <1>4, FenceMoves

LEMMA DoHeard == ASSUME RInv, LateAnswer \/ Delivered PROVE RInv'
BY Heard DEF LateAnswer, Delivered

LEMMA DoCommitted == ASSUME RInv, Committed PROVE RInv'
<1>1. /\ answers # <<>> /\ answers' = Tail(answers) /\ fence.pc = "commit"
      /\ UNCHANGED <<record, runner, up, seat, exitHook, words, counters>>
  BY DEF Committed
<1>2. CASE fence' = [fence EXCEPT !.pc = "exit"] /\ wire' = wire
  BY <1>1, <1>2, Heard
<1>3. CASE Cancel
  <2>1. answers' \in Seq(Reply) /\ Elems(answers') \subseteq Elems(answers) /\ Listening
    BY <1>1, Hears
  <2>2. fence' \in AFence /\ wire' \in Seq(Message)
    BY <1>3, CancelTyped
  <2>3. Typed'  BY <1>1, <2>1, <2>2, Types DEF Typed, counters
  <2>. QED  BY <1>1, <1>3, <2>1, <2>3, Cancels DEF counters
<1>. QED  BY <1>2, <1>3 DEF Committed

LEMMA DoNoAnswer == ASSUME RInv, NoAnswer PROVE RInv'
<1>1. /\ fence.pc \in Verb /\ timeouts' \in Nat
      /\ UNCHANGED <<record, runner, answers, up, seat, exitHook, words, parks, spoken, crashes>>
  BY Types DEF NoAnswer
<1>2. Ordered(wire) /\ (~Listening => wire = <<>> /\ answers = <<>>) /\ fence.phase # "open"
  BY <1>1 DEF RInv, Requests, Processes, Stands, Open, Verb
<1>3. CASE fence.pc = "cancel"
  <2>1. fence' = [fence EXCEPT !.pc = "idle"] /\ wire' = wire
    BY <1>3 DEF NoAnswer
  <2>2. fence' \in AFence /\ fence'.phase = fence.phase /\ fence'.token = fence.token /\ fence'.pc = "idle"
    BY <2>1, Types DEF AFence
  <2>3. Typed'  BY <1>1, <2>1, <2>2, Types DEF Typed
  <2>. QED  BY <1>1, <1>2, <2>1, <2>2, <2>3, FenceMoves
<1>4. CASE fence.pc \in {"prepare", "commit"}
  <2>1. Cancel  BY <1>4 DEF NoAnswer
  <2>2. fence' \in AFence /\ wire' \in Seq(Message)  BY <2>1, CancelTyped
  <2>3. Typed'  BY <1>1, <2>2, Types DEF Typed
  <2>. QED  BY <1>1, <1>2, <1>4, <2>1, <2>3, Cancels
<1>. QED  BY <1>1, <1>3, <1>4 DEF Verb

LEMMA DoPrepared == ASSUME RInv, Prepared PROVE RInv'
<1>1. /\ answers # <<>> /\ answers' = Tail(answers) /\ fence.pc = "prepare" /\ up
      /\ Head(answers).verb = "prepare" /\ Head(answers).token = fence.token
      /\ UNCHANGED <<runner, up, exitHook, words, counters>>
  BY DEF Prepared, Awaited
<1>2. /\ answers' \in Seq(Reply) /\ Elems(answers') \subseteq Elems(answers) /\ Listening
      /\ Head(answers) \in Elems(answers)
  BY <1>1, Hears
<1>3. CASE Cancel /\ UNCHANGED <<record, seat>>
  <2>1. fence' \in AFence /\ wire' \in Seq(Message)  BY <1>3, CancelTyped
  <2>2. Typed'  BY <1>1, <1>2, <1>3, <2>1, Types DEF Typed, counters
  <2>. QED  BY <1>1, <1>2, <1>3, <2>2, Cancels DEF counters
<1>4. CASE /\ ~Refusal
           /\ record' = [record EXCEPT !.intent = fence.token, !.intentPid = record.pid]
           /\ seat' = [seat EXCEPT !.intentional = TRUE]
           /\ fence' = Asking([fence EXCEPT !.phase = "committing"], "commit")
           /\ Ask("commit", fence.token)
  <2>1. /\ fence.phase = "preparing" /\ Fenced /\ fence.token # NoToken /\ fence.token \in Token
        /\ fence.token <= parks
    BY <1>1, Types DEF RInv, Stands, Tokens, Fenced, AFence
  <2>2. /\ record' \in RecordType /\ record'.intent = fence.token /\ record'.intentPid = runner.pid
        /\ record'.pid = runner.pid /\ record'.parked = record.parked
    BY <1>4, <2>1, Alive, Types DEF RecordType
  <2>3. seat' \in SeatType /\ seat'.state = seat.state /\ seat'.intentional
    BY <1>4, Types DEF SeatType
  <2>4. /\ fence' \in AFence /\ fence'.phase = "committing" /\ fence'.token = fence.token
        /\ fence'.pc \in {"commit", "idle"} /\ fence'.cancelled = fence.cancelled
    BY <1>2, <1>4, <2>1, Types DEF Asking, AFence, Verb
  <2>. DEFINE c == Request("commit", fence.token)
  <2>5. /\ c \in Message /\ c.verb = "commit" /\ c.token = fence.token
    BY <2>1 DEF Request, Message, Verb
  <2>6. \A m \in Elems(wire) \cup Elems(answers) : ~(m.verb = "cancel" /\ m.token = fence.token)
    BY <1>1 DEF RInv, Requests
  <2>7. \A m \in Elems(wire) : m.verb = "words"
    <3>1. \A m \in Elems(wire) : m.verb # "cancel" /\ m.verb # "prepare"
      BY <1>1, <1>2, <2>6 DEF RInv, Requests, Verb
    <3>2. \A m \in Elems(wire) : m.verb # "commit"
      <4>. SUFFICES ASSUME NEW m \in Elems(wire), m.verb = "commit" PROVE FALSE
        OBVIOUS
      <4>1. m \in Message  BY Types
      <4>2. m = Request("commit", m.token) /\ m.token \in Token  BY <4>1 DEF Message, Request
      <4>3. Bound(m.token)  BY <4>2 DEF Bound
      <4>. QED  BY <1>2, <2>1, <4>2, <4>3 DEF RInv, BoundIsFenced
    <3>. QED  BY <3>1, <3>2, Types DEF Message, Verb
  <2>8. Elems(wire') \subseteq Elems(wire) \cup {c} /\ wire' \in Seq(Message) /\ Ordered(wire')
    <3>1. IF DoorOpen THEN wire' = Append(wire, c) ELSE UNCHANGED wire
      BY <1>4 DEF Ask, Request
    <3>2. MayFollow("commit", wire) /\ "commit" \in Verb \cup {"words"}
      BY <2>7 DEF MayFollow, Verb
    <3>. QED  BY <1>2, <2>1, <3>1, <3>2, Sends
  <2>. HIDE DEF c
  <2>9. Typed'  BY <1>1, <1>2, <2>2, <2>3, <2>4, <2>8, Types DEF Typed, counters
  <2>10. Tokens'
    BY <1>1, <1>2, <2>1, <2>4, <2>5, <2>8 DEF RInv, Tokens, counters
  <2>11. Processes'
    BY <1>1, <1>2, <2>2, <2>3 DEF RInv, Processes, Listening
  <2>12. Stands'
    BY <2>1, <2>4 DEF Stands, Fenced
  <2>13. Requests'
    BY <1>1, <1>2, <2>1, <2>4, <2>5, <2>6, <2>7, <2>8 DEF Requests, Fenced, Verb
  <2>14. Withdrawn'
    BY <1>1, <1>2, <2>4, <2>6 DEF Withdrawn
  <2>15. \A t \in Token : ~Bound(t)
    BY <1>2, <2>1 DEF RInv, BoundIsFenced
  <2>16. \A t \in Token : Bound(t)' => t = fence.token
    BY <1>1, <2>5, <2>8, <2>15 DEF Bound, Request
  <2>17. BoundIsFenced'
    BY <2>3, <2>4, <2>16 DEF BoundIsFenced
  <2>18. runner.committed = NoToken
    BY <2>15, Types DEF Bound, RunnerType
  <2>19. BoundIsIntended'
    BY <1>1, <2>2, <2>16, <2>18 DEF BoundIsIntended
  <2>. QED  BY <2>9, <2>10, <2>11, <2>12, <2>13, <2>14, <2>17, <2>19 DEF RInv
<1>. QED  BY <1>3, <1>4 DEF Prepared

LEMMA DoCancelled == ASSUME RInv, Cancelled PROVE RInv'
<1>1. /\ answers # <<>> /\ answers' = Tail(answers) /\ fence.pc = "cancel" /\ up
      /\ Head(answers).verb = "cancel" /\ Head(answers).token = fence.token
      /\ UNCHANGED <<runner, wire, up, exitHook, words, counters>>
  BY DEF Cancelled, Awaited
<1>2. /\ answers' \in Seq(Reply) /\ Elems(answers') \subseteq Elems(answers) /\ Listening
      /\ Head(answers) \in Elems(answers)
  BY <1>1, Hears
<1>3. CASE fence' = [fence EXCEPT !.pc = "idle"] /\ UNCHANGED <<seat, record>>
  BY <1>1, <1>3, Heard
<1>4. CASE /\ Head(answers).ok /\ fence' = Open
           /\ seat' = [seat EXCEPT !.intentional = FALSE]
           /\ record' = [record EXCEPT !.intent = IF @ = fence.token THEN NoToken ELSE @]
  <2>1. /\ runner.prep # fence.token /\ runner.committed # fence.token
        /\ \A m \in Elems(wire) : m.verb = "words"
    BY <1>1, <1>2, <1>4 DEF RInv, Withdrawn
  <2>2. \A t \in Token : ~Bound(t)
    <3>. SUFFICES ASSUME NEW t \in Token, Bound(t) PROVE FALSE
      OBVIOUS
    <3>1. t = fence.token  BY <1>2 DEF RInv, BoundIsFenced
    <3>2. Request("commit", t).verb = "commit"  BY DEF Request
    <3>. QED  BY <2>1, <3>1, <3>2 DEF Bound
  <2>3. /\ record' \in RecordType /\ record'.pid = record.pid /\ record'.parked = record.parked
        /\ record'.intent = IF record.intent = fence.token THEN NoToken ELSE record.intent
    BY <1>4, Types, Zero DEF RecordType
  <2>4. seat' \in SeatType /\ seat'.state = seat.state /\ ~seat'.intentional
    BY <1>4, Types DEF SeatType
  <2>5. fence' \in AFence /\ fence'.phase = "open" /\ fence'.token = NoToken /\ fence'.pc = "idle"
    BY <1>4, Zero DEF Open, AFence
  <2>6. Typed'  BY <1>1, <1>2, <2>3, <2>4, <2>5, Types DEF Typed, counters
  <2>7. Tokens'
    BY <1>1, <1>2, <2>5, Types DEF RInv, Tokens, counters, NoToken
  <2>8. Processes'
    BY <1>1, <1>2, <2>3, <2>4 DEF RInv, Processes, Listening
  <2>9. Stands'
    BY <1>4, <2>5 DEF Stands, Fenced
  <2>10. Requests'
    <3>1. \A m \in Elems(answers) : m.verb = "cancel" => m.token # NoToken  BY DEF RInv, Tokens
    <3>. QED  BY <1>1, <1>2, <2>1, <2>5, <3>1 DEF RInv, Requests, Verb
  <2>11. Withdrawn'
    <3>1. \A m \in Elems(answers) : m.verb = "cancel" => m.token # NoToken  BY DEF RInv, Tokens
    <3>. QED  BY <1>2, <2>5, <3>1 DEF Withdrawn
  <2>12. \A t \in Token : ~Bound(t)'  BY <1>1, <2>2 DEF Bound
  <2>13. BoundIsFenced'  BY <2>12 DEF BoundIsFenced
  <2>14. runner.committed = NoToken  BY <2>2, Types DEF Bound, RunnerType
  <2>15. BoundIsIntended'  BY <1>1, <2>12, <2>14 DEF BoundIsIntended
  <2>. QED  BY <2>6, <2>7, <2>8, <2>9, <2>10, <2>11, <2>13, <2>15 DEF RInv
<1>. QED  BY <1>3, <1>4 DEF Cancelled, CancelConfirmed

\* Without a door the pipe is empty: a new runner has heard of nothing.
LEMMA NewRunner ==
  ASSUME RInv, up, ~Listening, Spawn(runner.pid + 1),
         record' \in RecordType, record'.pid = runner.pid + 1,
         record'.intent = record.intent, record'.intentPid = record.intentPid,
         UNCHANGED <<wire, answers, up, fence, exitHook, parks, crashes, timeouts>>,
         words' \in {"none", "held", "starting", "sent"}, spoken' \in Nat
  PROVE  RInv'
<1>1. runner.pid + 1 \in Nat \ {0}  BY Types DEF RunnerType
<1>2. /\ runner' = Fresh(runner.pid + 1) /\ seat' = [state |-> "live", intentional |-> FALSE]
      /\ runner' \in RunnerType /\ ~runner'.ready /\ seat' \in SeatType
  BY <1>1, Spawned
<1>3. /\ runner'.pid = runner.pid + 1 /\ runner'.committed = NoToken /\ runner'.prep = NoToken
      /\ runner'.flushing = {} /\ runner'.alive
  BY <1>2 DEF Fresh
<1>4. wire' = <<>> /\ answers' = <<>> /\ Elems(wire') = {} /\ Elems(answers') = {}
  BY Emptied DEF RInv, Processes
<1>5. Typed'  BY <1>2, Types DEF Typed
<1>6. Tokens'  BY <1>3, <1>4, Types DEF RInv, Tokens, NoToken
<1>7. Processes'  BY <1>2, <1>3, <1>4 DEF RInv, Processes
<1>8. Stands'  BY DEF RInv, Stands, Fenced
<1>9. Requests'  BY <1>3, <1>4, Emptied DEF Requests
<1>10. Withdrawn'  BY <1>4 DEF Withdrawn
<1>11. \A t \in Token : ~Bound(t)'  BY <1>3, <1>4 DEF Bound
<1>12. BoundIsFenced' /\ BoundIsIntended'
  BY <1>3, <1>11 DEF BoundIsFenced, BoundIsIntended
<1>. QED  BY <1>5, <1>6, <1>7, <1>8, <1>9, <1>10, <1>12 DEF RInv

LEMMA DoRespawn == ASSUME RInv, Respawn PROVE RInv'
<1>1. /\ up /\ seat.state = "respawning" /\ Spawn(runner.pid + 1)
      /\ \E r \in {record, Parked(record)} : record' = [r EXCEPT !.pid = runner.pid + 1]
      /\ UNCHANGED <<wire, answers, up, fence, exitHook, words, counters>>
  BY DEF Respawn
<1>2. runner.pid + 1 \in 1 .. MaxRunners
  BY <1>1, Types, Spawned DEF RunnerType
<1>3. /\ record' \in RecordType /\ record'.pid = runner.pid + 1
      /\ record'.intent = record.intent /\ record'.intentPid = record.intentPid
  BY <1>1, <1>2, Types DEF RecordType, Parked
<1>4. ~Listening  BY <1>1 DEF Listening
<1>. QED  BY <1>1, <1>3, <1>4, Types, NewRunner DEF counters

LEMMA DoRevive ==
  ASSUME RInv, Revive, UNCHANGED <<wire, answers, up, fence, exitHook, parks, crashes, timeouts>>,
         words' \in {"none", "held", "starting", "sent"}, spoken' \in Nat
  PROVE  RInv'
<1>1. /\ up /\ ~SeatAlive /\ Spawn(runner.pid + 1)
      /\ record' = [record EXCEPT !.pid = runner.pid + 1, !.parked = FALSE, !.requested = FALSE]
  BY DEF Revive
<1>2. runner.pid + 1 \in 1 .. MaxRunners
  BY <1>1, Types, Spawned DEF RunnerType
<1>3. /\ record' \in RecordType /\ record'.pid = runner.pid + 1
      /\ record'.intent = record.intent /\ record'.intentPid = record.intentPid
  BY <1>1, <1>2, Types DEF RecordType
<1>4. ~Listening  BY <1>1 DEF SeatAlive, Listening
<1>. QED  BY <1>1, <1>3, <1>4, NewRunner

LEMMA Held ==
  ASSUME RInv, UNCHANGED <<record, runner, seat, wire, answers, up, fence, exitHook, parks, crashes, timeouts>>,
         words' \in {"none", "held", "starting", "sent"}, spoken' \in Nat
  PROVE  RInv'
<1>1. Typed'  BY Types DEF Typed
<1>2. Ordered(wire') /\ Elems(wire') = Elems(wire) /\ Elems(answers') = Elems(answers)
      /\ (~Listening => wire' = <<>> /\ answers' = <<>>)
  BY DEF RInv, Requests, Processes
<1>. QED  BY <1>1, <1>2, FenceMoves

LEMMA DoWork == ASSUME RInv, Dispatch \/ Resume PROVE RInv'
<1>1. CASE Resume
  <2>1. CASE Revive
    BY <1>1, <2>1, DoRevive, Types DEF Resume, counters
  <2>2. CASE record' = [record EXCEPT !.requested = FALSE] /\ UNCHANGED <<runner, seat>>
    <3>1. /\ record' \in RecordType /\ record'.pid = record.pid /\ record'.intent = record.intent
          /\ record'.intentPid = record.intentPid /\ record'.parked = record.parked
      BY <2>2, Types DEF RecordType
    <3>2. /\ runner' \in RunnerType /\ runner' = [runner EXCEPT !.busy = runner'.busy]
          /\ (exitHook => up) /\ parks' \in Nat /\ parks <= parks' /\ parks' <= MaxParks
          /\ UNCHANGED <<wire, answers, up, fence, exitHook, words, spoken, crashes, timeouts>>
      BY <1>1, <2>2, Types DEF Resume, RunnerType, RInv, Processes, Tokens, counters
    <3>. QED  BY <2>2, <3>1, <3>2, Types, RecordMoves
  <2>. QED  BY <1>1, <2>1, <2>2 DEF Resume
<1>2. CASE Dispatch
  <2>1. /\ spoken' \in Nat /\ words' \in {"none", "held", "starting", "sent"}
        /\ UNCHANGED <<wire, answers, up, fence, exitHook, parks, crashes, timeouts>>
        /\ Revive \/ UNCHANGED <<record, runner, seat>>
    BY <1>2, Types DEF Dispatch
  <2>. QED  BY <2>1, Held, DoRevive
<1>. QED  BY <1>1, <1>2

LEMMA DoDeliver == ASSUME RInv, Deliver PROVE RInv'
<1>1. CASE ~DoorOpen
  BY <1>1, Types, Held DEF Deliver, counters
<1>2. CASE DoorOpen
  <2>. DEFINE w == Request("words", NoToken)
  <2>1. /\ up /\ wire' = Append(wire, w) /\ words' = "sent"
        /\ record' = [record EXCEPT !.inTurn = TRUE]
        /\ UNCHANGED <<runner, answers, up, fence, seat, exitHook, counters>>
    BY <1>2 DEF Deliver, Request
  <2>2. w.verb = "words" /\ w.token = NoToken  BY DEF Request
  <2>3. wire' \in Seq(Message) /\ Elems(wire') = Elems(wire) \cup {w} /\ Ordered(wire')
    <3>1. MayFollow("words", wire) /\ "words" \in Verb \cup {"words"}  BY DEF MayFollow
    <3>. QED  BY <1>2, <2>1, <3>1, Zero, Sends
  <2>4. /\ record' \in RecordType /\ record'.pid = record.pid /\ record'.parked = record.parked
        /\ record'.intent = record.intent /\ record'.intentPid = record.intentPid
    BY <2>1, Types DEF RecordType
  <2>5. \A t \in Token : Request("commit", t) # w
    BY <2>2 DEF Request
  <2>. HIDE DEF w
  <2>6. Typed'  BY <2>1, <2>3, <2>4, Types DEF Typed, counters
  <2>7. Tokens'
    BY <2>1, <2>2, <2>3, Types DEF RInv, Tokens, counters, NoToken
  <2>8. Processes' /\ Stands'
    BY <1>2, <2>1, <2>4 DEF RInv, Processes, Stands, Fenced, Listening, DoorOpen
  <2>9. Requests'
    BY <2>1, <2>2, <2>3 DEF RInv, Requests, Fenced, Verb
  <2>10. Withdrawn'
    BY <2>1, <2>2, <2>3 DEF RInv, Withdrawn
  <2>11. \A t \in Token : Bound(t)' => Bound(t)
    BY <2>1, <2>3, <2>5 DEF Bound
  <2>12. BoundIsFenced' /\ BoundIsIntended'
    BY <2>1, <2>4, <2>11 DEF RInv, BoundIsFenced, BoundIsIntended, Listening
  <2>. QED  BY <2>6, <2>7, <2>8, <2>9, <2>10, <2>12 DEF RInv
<1>. QED  BY <1>1, <1>2

LEMMA DoExitCompleted == ASSUME RInv, ExitCompleted PROVE RInv'
<1>1. /\ exitHook' = FALSE /\ up
      /\ UNCHANGED <<runner, wire, answers, up, seat, words, counters>>
      /\ fence' = IF fence.phase = "committing" /\ fence.pc = "idle"
                  THEN [fence EXCEPT !.pc = "exit"]
                  ELSE [fence EXCEPT !.cancelled = @ \/ (fence.phase = "preparing" /\ fence.pc = "idle")]
  BY DEF ExitCompleted
<1>2. CASE record' = record
  <2>3. /\ fence' \in AFence /\ fence'.phase = fence.phase /\ fence'.token = fence.token
        /\ fence'.pc \in {fence.pc, "exit"}
    BY <1>1, Types DEF AFence
  <2>4. fence.phase = "open" => fence' = fence
    <3>. SUFFICES ASSUME fence = Open, fence.phase = "open" PROVE fence' = fence
      BY DEF RInv, Stands
    <3>1. fence.cancelled = FALSE /\ fence.phase # "preparing" /\ fence.phase # "committing"
      BY DEF Open
    <3>2. (fence.cancelled \/ (fence.phase = "preparing" /\ fence.pc = "idle")) = FALSE
      BY <3>1
    <3>3. fence' = [fence EXCEPT !.cancelled = FALSE]
      BY <1>1, <3>1, <3>2
    <3>. QED  BY <3>1, <3>3, Types DEF AFence
  <2>5. Typed'  BY <1>1, <1>2, <2>3, Types DEF Typed, counters
  <2>6. Ordered(wire) /\ (~Listening => wire = <<>> /\ answers = <<>>)
    BY DEF RInv, Requests, Processes
  <2>. QED  BY <1>1, <1>2, <2>3, <2>4, <2>5, <2>6, FenceMoves DEF counters
<1>3. CASE ~Fenced /\ ~record.parked /\ ~PidAlive /\ record' = Landed(record)
  <2>1. fence' = fence
    <3>1. (fence.cancelled \/ (fence.phase = "preparing" /\ fence.pc = "idle")) = fence.cancelled
      BY <1>3, Types DEF Fenced, AFence
    <3>2. fence' = [fence EXCEPT !.cancelled = fence.cancelled]
      BY <1>1, <1>3, <3>1 DEF Fenced
    <3>. QED  BY <3>2, Types DEF AFence
  <2>2. /\ record' \in RecordType /\ record'.pid = record.pid /\ record'.intent = NoToken
        /\ record'.intentPid = record.intentPid /\ record'.parked
    BY <1>3, Types, Zero DEF RecordType, Landed, Parked
  <2>3. ~runner.alive  BY <1>3, Alive
  <2>4. /\ runner' \in RunnerType /\ runner' = [runner EXCEPT !.busy = runner'.busy]
        /\ parks' \in Nat /\ parks <= parks' /\ parks' <= MaxParks
        /\ UNCHANGED <<spoken, crashes, timeouts>>
    BY <1>1, Types DEF RunnerType, RInv, Tokens, counters
  <2>. QED  BY <1>1, <2>1, <2>2, <2>3, <2>4, Types, RecordMoves
<1>. QED  BY <1>2, <1>3 DEF ExitCompleted

LEMMA DoLanding == ASSUME RInv, Landing PROVE RInv'
<1>1. /\ up /\ fence.pc = "exit" /\ ~SeatAlive /\ ~runner.alive
      /\ UNCHANGED <<runner, wire, answers, up, seat, exitHook, words, counters>>
  BY Alive DEF Landing
<1>2. wire = <<>> /\ answers = <<>> /\ ~Listening /\ Elems(wire) = {} /\ Elems(answers) = {}
  BY <1>1, Emptied DEF RInv, Processes, SeatAlive, Listening
<1>3. CASE fence' = [fence EXCEPT !.pc = "idle"] /\ record' = record
  <2>1. fence' \in AFence /\ fence'.phase = fence.phase /\ fence'.token = fence.token /\ fence'.pc = "idle"
    BY <1>3, Types DEF AFence
  <2>2. Typed'  BY <1>1, <1>3, <2>1, Types DEF Typed, counters
  <2>3. fence.phase # "open"  BY <1>1 DEF RInv, Stands, Open
  <2>. QED  BY <1>1, <1>2, <1>3, <2>1, <2>2, <2>3, Emptied, FenceMoves DEF counters
<1>4. CASE record' = Landed(record) /\ fence' = Open
  <2>1. /\ record' \in RecordType /\ record'.parked /\ record'.intent = NoToken
        /\ record'.pid = record.pid /\ record'.intentPid = record.intentPid
    BY <1>4, Types, Zero DEF Landed, Parked, RecordType
  <2>2. fence' \in AFence /\ fence'.phase = "open" /\ fence'.token = NoToken /\ fence'.pc = "idle"
    BY <1>4, Zero DEF Open, AFence
  <2>3. Typed'  BY <1>1, <2>1, <2>2, Types DEF Typed, counters
  <2>4. Tokens'  BY <1>1, <1>2, <2>2, Types DEF RInv, Tokens, counters, NoToken
  <2>5. Processes'  BY <1>1, <1>2, <2>1 DEF RInv, Processes, SeatAlive, Listening
  <2>6. Stands'  BY <1>4, <2>2 DEF Stands, Fenced
  <2>7. Requests' /\ Withdrawn'  BY <1>1, <1>2, <2>2, Emptied DEF Requests, Withdrawn
  <2>8. BoundIsFenced' /\ BoundIsIntended'
    BY <1>1, <1>2, <2>1 DEF BoundIsFenced, BoundIsIntended, Listening
  <2>. QED  BY <2>3, <2>4, <2>5, <2>6, <2>7, <2>8 DEF RInv
<1>. QED  BY <1>3, <1>4 DEF Landing

\* The pipe goes with either of its ends.
LEMMA PipeLost ==
  ASSUME RInv, wire' = <<>>, answers' = <<>>, ~Listening', up' => ~runner.alive,
         runner' = runner, record' \in RecordType, record'.pid = record.pid,
         record'.parked = record.parked, record'.intent = record.intent,
         record'.intentPid = record.intentPid,
         fence' \in {fence, Open}, seat' \in SeatType, up' \in BOOLEAN, exitHook' \in BOOLEAN,
         ~up' => seat'.state = "orphan" /\ fence' = Open /\ ~exitHook',
         seat'.state = "respawning" => ~runner.alive /\ runner.committed = NoToken,
         words' \in {"none", "held", "starting", "sent"},
         UNCHANGED <<parks, spoken, timeouts>>, crashes' \in Nat
  PROVE  RInv'
<1>1. Elems(wire') = {} /\ Elems(answers') = {} /\ Ordered(wire')
  BY Emptied
<1>2. Open \in AFence /\ Open.token = NoToken /\ Open.phase = "open" /\ Open.pc = "idle"
  BY Zero DEF Open, AFence
<1>3. Typed'  BY <1>2, Types DEF Typed
<1>4. Tokens'  BY <1>1, <1>2, Types DEF RInv, Tokens, NoToken
<1>5. Processes'  BY DEF RInv, Processes
<1>6. Stands'  BY <1>2 DEF RInv, Stands, Fenced
<1>7. Requests' /\ Withdrawn'  BY <1>1, <1>2 DEF RInv, Requests, Withdrawn
<1>8. \A t \in Token : Bound(t)' => Bound(t)  BY <1>1 DEF Bound
<1>9. BoundIsFenced' /\ BoundIsIntended'
  BY <1>8 DEF RInv, BoundIsFenced, BoundIsIntended
<1>. QED  BY <1>3, <1>4, <1>5, <1>6, <1>7, <1>9 DEF RInv

LEMMA DoDaemonCrash == ASSUME RInv, DaemonCrash PROVE RInv'
<1>1. /\ up' = FALSE /\ fence' = Open /\ exitHook' = FALSE /\ words' = "none"
      /\ seat' = [state |-> "orphan", intentional |-> FALSE] /\ wire' = <<>> /\ answers' = <<>>
      /\ UNCHANGED <<record, runner, parks, spoken, timeouts>> /\ crashes' \in Nat
  BY Types DEF DaemonCrash, Crash
<1>2. ~Listening' /\ seat' \in SeatType
  BY <1>1 DEF Listening, SeatType
<1>. QED  BY <1>1, <1>2, Types, PipeLost

LEMMA DoChildExit == ASSUME RInv, ChildExit PROVE RInv'
<1>1. /\ up /\ Listening /\ ~runner.alive /\ wire' = <<>> /\ answers' = <<>>
      /\ exitHook' = (exitHook \/ seat.intentional)
      /\ record' = [record EXCEPT !.inTurn = FALSE]
      /\ words' \in {"none", words}
      /\ UNCHANGED <<runner, up, fence, counters>>
  BY DEF ChildExit, Listening
<1>2. PICK s \in {"respawning", "gone"} :
        seat' = [seat EXCEPT !.state = s] /\ (seat.intentional => s = "gone")
  BY DEF ChildExit, RespawnOf
<1>3. seat' \in SeatType /\ seat'.state = s /\ seat'.intentional = seat.intentional /\ exitHook' \in BOOLEAN
  BY <1>1, <1>2, Types DEF SeatType
<1>4. /\ record' \in RecordType /\ record'.pid = record.pid /\ record'.parked = record.parked
      /\ record'.intent = record.intent /\ record'.intentPid = record.intentPid
  BY <1>1, Types DEF RecordType
<1>5. runner.committed # NoToken => seat.intentional
  <2>. SUFFICES ASSUME runner.committed # NoToken PROVE seat.intentional
    OBVIOUS
  <2>1. Bound(runner.committed) /\ runner.committed \in Token /\ Listening
    BY <1>1, Types DEF Bound, RunnerType
  <2>. QED  BY <2>1 DEF RInv, BoundIsFenced
<1>8. ~Listening' /\ (seat'.state = "respawning" => runner.committed = NoToken)
  BY <1>2, <1>3, <1>5 DEF Listening
<1>. QED  BY <1>1, <1>3, <1>4, <1>8, Types, PipeLost DEF counters

LEMMA DoParkVerb == ASSUME RInv, ParkVerb PROVE RInv'
<1>1. /\ up /\ parks < MaxParks /\ parks' = parks + 1
      /\ UNCHANGED <<record, runner, answers, up, seat, exitHook, words, spoken, crashes, timeouts>>
  BY DEF ParkVerb
<1>2. parks' \in Token /\ parks' \in Nat /\ parks' # NoToken /\ parks' <= MaxParks
  BY <1>1, Zero, Types DEF Token, NoToken
<1>3. CASE Fenced
  <2>1. fence' = [fence EXCEPT !.cancelled = @ \/ fence.phase = "preparing"] /\ wire' = wire
    BY <1>3 DEF ParkVerb
  <2>2. /\ fence' \in AFence /\ fence'.phase = fence.phase /\ fence'.token = fence.token
        /\ fence'.pc = fence.pc
    BY <2>1, Types DEF AFence
  <2>3. Typed'  BY <1>1, <1>2, <2>1, <2>2, Types DEF Typed
  <2>4. Tokens'  BY <1>1, <1>2, <2>1, <2>2, Types, Tokened DEF Tokens
  <2>5. Processes' /\ Stands'
    BY <1>1, <1>3, <2>1, <2>2 DEF RInv, Processes, Stands, Listening, Fenced, Open
  <2>6. Requests' /\ Withdrawn'
    BY <1>1, <2>1, <2>2 DEF RInv, Requests, Withdrawn, Fenced
  <2>7. BoundIsFenced' /\ BoundIsIntended'
    BY <1>1, <2>1, <2>2 DEF RInv, BoundIsFenced, BoundIsIntended, Bound, Listening
  <2>. QED  BY <2>3, <2>4, <2>5, <2>6, <2>7 DEF RInv
<1>4. CASE ~Fenced
  <2>. DEFINE p == Request("prepare", parks')
  <2>1. /\ fence' = Asking([Open EXCEPT !.phase = "preparing", !.token = parks'], "prepare")
        /\ Ask("prepare", parks')
    BY <1>4 DEF ParkVerb
  <2>2. /\ fence' \in AFence /\ fence'.phase = "preparing" /\ fence'.token = parks'
        /\ fence'.pc \in {"prepare", "idle"}
    BY <1>2, <2>1 DEF Asking, Open, AFence, Verb
  <2>3. p.verb = "prepare" /\ p.token = parks'  BY DEF Request
  <2>4. \A m \in Elems(wire) : m.verb = "words"
    BY <1>4, Types DEF RInv, Requests, Message
  <2>5. /\ Elems(wire') \subseteq Elems(wire) \cup {p} /\ wire' \in Seq(Message)
        /\ Ordered(wire') /\ (~Listening => wire' = <<>>)
    <3>1. PICK t \in Token : t = parks'  BY <1>2
    <3>2. IF DoorOpen THEN wire' = Append(wire, Request("prepare", t)) ELSE UNCHANGED wire
      BY <2>1, <3>1 DEF Ask, Request
    <3>3. MayFollow("prepare", wire) /\ "prepare" \in Verb \cup {"words"}
      BY <2>4 DEF MayFollow, Verb
    <3>. QED  BY <3>1, <3>2, <3>3, Sends
  <2>6. \A m \in Elems(wire) \cup Elems(answers) \cup runner.flushing : m.token # parks'
    BY <1>1, Types, Tokened
  <2>7. \A t \in Token : Request("commit", t).token = t /\ Request("commit", t) # p
    BY <2>3 DEF Request
  <2>8. Request("prepare", parks').token = parks' /\ Request("commit", parks').token = parks'
    BY DEF Request
  <2>. HIDE DEF p
  <2>9. Typed'  BY <1>1, <1>2, <2>2, <2>5, Types DEF Typed
  <2>10. Tokens'  BY <1>1, <1>2, <2>2, <2>3, <2>5, Types, Tokened DEF Tokens
  <2>11. Processes'
    BY <1>1, <2>5 DEF RInv, Processes, Listening
  <2>12. Stands'  BY <1>2, <2>2 DEF Stands, Fenced
  <2>13. Requests'
    <3>1. Fenced'  BY <2>2 DEF Fenced
    <3>. QED  BY <1>1, <2>2, <2>3, <2>4, <2>5, <2>6, <2>8, <3>1 DEF Requests, Verb
  <2>14. Withdrawn'  BY <1>1, <2>2, <2>6 DEF Withdrawn
  <2>15. \A t \in Token : Bound(t)' => Bound(t)
    BY <1>1, <2>5, <2>7 DEF Bound
  <2>16. Listening => \A t \in Token : ~Bound(t)
    BY <1>4 DEF RInv, BoundIsFenced, Fenced
  <2>17. BoundIsFenced'  BY <1>1, <2>15, <2>16 DEF BoundIsFenced, Listening
  <2>18. BoundIsIntended'  BY <1>1, <2>15 DEF RInv, BoundIsIntended
  <2>. QED  BY <2>9, <2>10, <2>11, <2>12, <2>13, <2>14, <2>17, <2>18 DEF RInv
<1>. QED  BY <1>3, <1>4

-----------------------------------------------------------------------------
(* The invariant *)

LEMMA Invariance == Spec => []RInv
<1>1. Init => RInv
  <2>. SUFFICES ASSUME Init PROVE RInv
    OBVIOUS
  <2>1. /\ Elems(wire) = {} /\ Elems(answers) = {} /\ Ordered(wire)
        /\ Open \in AFence /\ Fresh(1) \in RunnerType
    BY Emptied, Zero DEF Init, Open, AFence, Fresh, RunnerType
  <2>2. Typed
    <3>1. record \in RecordType /\ seat \in SeatType
      BY Zero DEF Init, RecordType, SeatType
    <3>2. runner \in RunnerType /\ ~runner.ready
      BY <2>1 DEF Init, Fresh
    <3>3. wire \in Seq(Message) /\ answers \in Seq(Reply)
      BY DEF Init
    <3>4. /\ up \in BOOLEAN /\ exitHook \in BOOLEAN /\ words \in {"none", "held", "starting", "sent"}
          /\ parks \in Nat /\ spoken \in Nat /\ crashes \in Nat /\ timeouts \in Nat
          /\ fence \in AFence
      BY <2>1 DEF Init
    <3>. QED  BY <3>1, <3>2, <3>3, <3>4 DEF Typed
  <2>3. Tokens /\ Processes /\ Stands
    BY <2>1, Zero DEF Init, Tokens, Processes, Stands, Fresh, Open, Fenced, Listening, NoToken
  <2>4. Requests /\ Withdrawn
    BY <2>1 DEF Init, Requests, Withdrawn, Fresh
  <2>5. BoundIsFenced /\ BoundIsIntended
    BY <2>1 DEF Init, BoundIsFenced, BoundIsIntended, Bound, Fresh
  <2>. QED  BY <2>2, <2>3, <2>4, <2>5 DEF RInv
<1>2. RInv /\ [Next]_vars => RInv'
  <2>. SUFFICES ASSUME RInv, [Next]_vars PROVE RInv'
    OBVIOUS
  <2>1. CASE Retirement
    BY <2>1, DoParkVerb, DoPrepared, DoCommitted, DoCancelled, DoHeard, DoNoAnswer, DoLanding,
       DoExitUnseen DEF Retirement
  <2>2. CASE Supervision \/ Parking
    BY <2>2, DoChildExit, DoRespawn, DoExitCompleted, DoTick, DoParkNow DEF Supervision, Parking
  <2>3. CASE Work
    BY <2>3, DoWork, DoDeliver, DoHeard DEF Work
  <2>4. CASE Runner
    BY <2>4, DoAsked, DoFlushed, DoAccept, DoEnqueue, DoWake, DoTurnEnds, DoDies DEF Runner
  <2>5. CASE Crashes
    BY <2>5, DoDies, DoDaemonCrash, DoTick DEF Crashes
  <2>6. CASE UNCHANGED vars
    BY <2>6, Held, Types DEF vars, counters
  <2>. QED  BY <2>1, <2>2, <2>3, <2>4, <2>5, <2>6 DEF Next
<1>. QED  BY <1>1, <1>2, PTL DEF Spec

(***************************************************************************)
(* Every variable keeps its type: no request or answer that the two ends   *)
(* (daemon/runnerQuiescence.ts) do not know is ever in a pipe.             *)
(***************************************************************************)
THEOREM RetirementTypeCorrect == Spec => []TypeOK
<1>1. RInv => TypeOK
  <2>. SUFFICES ASSUME RInv PROVE TypeOK
    OBVIOUS
  <2>1. fence \in FenceType
    <3>1. fence \in AFence /\ (fence.phase = "open" => fence = Open)
      BY Types DEF RInv, Stands
    <3>. QED  BY <3>1 DEF AFence, FenceType
  <2>. QED  BY <2>1, Types DEF TypeOK, Message, Reply
<1>. QED  BY <1>1, Invariance, PTL

(***************************************************************************)
(* A living runner that has agreed to leave has its own intent on record   *)
(* (the commit of runnerQuiescence.ts behind the intent that               *)
(* concourseWorkers.ts writes), for any losses and deaths.                 *)
(***************************************************************************)
THEOREM CommittedIntended == Spec => []CommittedIsIntended
<1>1. RInv => CommittedIsIntended
  BY Types DEF RInv, BoundIsIntended, Bound, CommittedIsIntended, RunnerType
<1>. QED  BY <1>1, Invariance, PTL

(***************************************************************************)
(* handleCrash (roster.ts) never gives a new child to a session whose      *)
(* runner left because it was asked to.                                    *)
(***************************************************************************)
THEOREM NotRespawned == Spec => []CommittedNotRespawned
<1>1. RInv => CommittedNotRespawned
  BY DEF RInv, Processes, CommittedNotRespawned
<1>. QED  BY <1>1, Invariance, PTL

(***************************************************************************)
(* Every place of concourseWorkers.ts that writes the word parked (2386,   *)
(* through 2472, 2557, 2590, 2610, 1668 and 1679) does so over a runner    *)
(* that is gone or is told to go in the same step, but for the child that  *)
(* was just respawned: for any number of deaths, parks and lost answers.   *)
(***************************************************************************)
THEOREM ParkedIsTold == Spec => ParkedOrLeaving
<1>. DEFINE Told == ~record.parked /\ record'.parked /\ runner'.pid = runner.pid =>
                      ~runner.alive \/ seat'.state = "retiring"
<1>1. RInv /\ [Next]_vars => Told
  <2>. SUFFICES ASSUME RInv, [Next]_vars, ~record.parked, record'.parked,
                       runner'.pid = runner.pid, runner.alive
                PROVE  seat'.state = "retiring"
    OBVIOUS
  <2>1. PidAlive /\ runner.pid + 1 # runner.pid /\ seat.state # "respawning"
    BY Alive, Types DEF RInv, Processes, RunnerType
  <2>2. CASE Retirement
    <3>1. record'.parked => Landing
      BY <2>2, Types DEF Retirement, ParkVerb, Prepared, Committed, Cancelled, LateAnswer,
         NoAnswer, ExitUnseen, RecordType
    <3>. QED  BY <2>1, <3>1 DEF Landing
  <2>3. CASE Parking
    <3>1. PICK cut \in BOOLEAN : ParkNow(cut)  BY <2>3 DEF Parking
    <3>2. SeatAlive /\ Kill
      BY <2>1, <3>1, Types DEF ParkNow, RecordType
    <3>. QED  BY <2>1, <3>2, Types DEF SeatAlive, Kill, Killed, SeatType
  <2>4. CASE Supervision
    <3>1. CASE ChildExit  BY <3>1 DEF ChildExit
    <3>2. CASE Respawn  BY <2>1, <3>2 DEF Respawn
    <3>3. CASE ExitCompleted  BY <2>1, <3>3 DEF ExitCompleted
    <3>4. CASE Tick
      BY <2>1, <3>4, Types DEF Tick, Reconciled, RecordType
    <3>. QED  BY <2>4, <3>1, <3>2, <3>3, <3>4 DEF Supervision
  <2>5. CASE Work
    BY <2>1, <2>5, Types DEF Work, Dispatch, Resume, Revive, Deliver, Delivered, RecordType
  <2>6. CASE Runner
    <3>1. CASE TurnEnds
      <4>1. Listening /\ Kill
        BY <3>1, Types DEF TurnEnds, RecordType
      <4>. QED  BY <4>1, Types DEF Listening, Kill, Killed, SeatType
    <3>2. CASE ~TurnEnds
      BY <2>6, <3>2 DEF Runner, RunnerOnly, Asked, Flushed, Accept, Enqueue, Wake, Exit
    <3>. QED  BY <3>1, <3>2
  <2>7. CASE Crashes
    BY <2>1, <2>7, Types DEF Crashes, RunnerCrash, RunnerOnly, DaemonCrash, DaemonBoot,
       Reconciled, RecordType
  <2>8. CASE UNCHANGED vars
    BY <2>8 DEF vars
  <2>. QED  BY <2>2, <2>3, <2>4, <2>5, <2>6, <2>7, <2>8 DEF Next
<1>2. Told => [~record.parked /\ record'.parked /\ runner'.pid = runner.pid =>
                 ~runner.alive \/ seat'.state = "retiring"]_vars
  OBVIOUS
<1>. QED  BY <1>1, <1>2, Invariance, PTL DEF Spec, ParkedOrLeaving

-----------------------------------------------------------------------------
(* The handshake takes the steps of SessionLife *)

LifeStep == [Life!Next]_(Life!vars)

LEMMA SameLife ==
  ASSUME runner'.alive = runner.alive, record'.parked = record.parked,
         (record'.intent # NoToken <=> record.intent # NoToken) \/ record.parked,
         (runner'.committed # NoToken <=> runner.committed # NoToken) \/ record.parked
  PROVE  LifeStep
BY DEF LifeStep, Life!vars

\* The record is called parked, whatever the runner has agreed to.
LEMMA DismissLife ==
  ASSUME RInv, runner'.alive = runner.alive, ~record.parked, record'.parked
  PROVE  LifeStep
BY DEF LifeStep, Life!vars, Life!Next, Life!Dismiss

LEMMA RunnerLife == ASSUME RInv, Asked \/ Accept \/ Enqueue \/ Wake \/ TurnEnds PROVE LifeStep
<1>1. /\ runner'.alive = runner.alive /\ runner'.committed = runner.committed
  <2>1. CASE Asked
    <3>. DEFINE r == [runner EXCEPT !.prep = Head(wire).token, !.ready = FALSE]
    <3>1. \/ runner' \in {runner, Invalidated(runner), Invalidated(r)}
          \/ runner' \in {[runner EXCEPT !.flushing = @ \cup {Head(wire)}],
                         [r EXCEPT !.flushing = @ \cup {Head(wire)}]}
      BY <2>1 DEF Asked, Verb
    <3>. QED  BY <3>1, Types DEF Invalidated, RunnerType
  <2>2. CASE Accept \/ Enqueue \/ Wake \/ TurnEnds
    BY <2>2, Types DEF Accept, Enqueue, Wake, TurnEnds, Invalidated, RunnerType
  <2>. QED  BY <2>1, <2>2
<1>2. /\ record'.parked = record.parked \/ record'.parked
      /\ record'.parked \in BOOLEAN /\ record.parked \in BOOLEAN
      /\ record'.intent = record.intent
  BY Types DEF Asked, Accept, Enqueue, Wake, TurnEnds, RunnerOnly, RecordType, Parked
<1>. QED  BY <1>1, <1>2, SameLife, DismissLife

LEMMA ParkNowLife == ASSUME RInv, NEW cut \in BOOLEAN, ParkNow(cut) PROVE LifeStep
<1>1. /\ record'.parked \in BOOLEAN /\ ~record.parked /\ record.parked \in BOOLEAN
      /\ record'.intent = record.intent /\ runner' = runner
  BY Types DEF ParkNow, RecordType, Parked
<1>. QED  BY <1>1, SameLife, DismissLife

LEMMA FlushedLife ==
  ASSUME RInv, NEW m \in runner.flushing, NEW ok \in BOOLEAN, Flushed(m, ok)
  PROVE  LifeStep
<1>1. record' = record /\ runner.alive
  BY DEF Flushed, RunnerOnly
<1>2. m \in RequestType /\ m.token # NoToken /\ m.token \in Token /\ m.verb # "cancel"
  BY Types DEF RInv, Tokens, RunnerType, RequestType, Verb
<1>3. /\ runner'.alive = runner.alive
      /\ \/ runner'.committed = runner.committed
         \/ m.verb # "prepare" /\ runner.prep = m.token /\ runner'.committed = m.token
  BY Types DEF Flushed, StillCurrent, Invalidated, RunnerType
<1>4. CASE runner'.committed = runner.committed
  BY <1>1, <1>3, <1>4, SameLife
<1>5. CASE m.verb # "prepare" /\ runner.prep = m.token /\ runner'.committed = m.token
  <2>1. m = Request("commit", m.token)
    BY <1>2, <1>5 DEF RequestType, Request, Verb
  <2>2. Bound(m.token)  BY <1>5, <2>1 DEF Bound
  <2>3. record.intent # NoToken
    BY <1>1, <1>2, <2>2 DEF RInv, BoundIsIntended
  <2>. QED  BY <1>1, <1>2, <1>3, <1>5, <2>3, SameLife DEF LifeStep, Life!vars, Life!Next, Life!Commit
<1>. QED  BY <1>3, <1>4, <1>5

LEMMA DiesLife == ASSUME RInv, Exit \/ RunnerCrash PROVE LifeStep
<1>1. record' = record /\ runner.alive /\ ~runner'.alive /\ runner'.committed = runner.committed
      /\ runner'.alive = FALSE
  BY Types DEF Exit, RunnerCrash, RunnerOnly, Gone, RunnerType
<1>. QED  BY <1>1 DEF LifeStep, Life!vars, Life!Next, Life!Leave

LEMMA ReconcileLife == ASSUME RInv, Tick \/ DaemonBoot PROVE LifeStep
<1>1. PICK live \in BOOLEAN : record' = Reconciled(record, live) /\ (runner.alive => live)
  BY Alive, Types DEF Tick, DaemonBoot, SeatAlive, PidAlive
<1>2. runner' = runner  BY DEF Tick, DaemonBoot
<1>3. CASE record' = record
  BY <1>2, <1>3, SameLife
<1>4. CASE /\ ~record.parked /\ record.intent # NoToken /\ live /\ record.pid # record.intentPid
           /\ record' = [record EXCEPT !.intent = NoToken]
  <2>1. runner.committed = NoToken
    BY <1>4, Alive DEF RInv, BoundIsIntended
  <2>2. record'.intent = NoToken /\ record'.parked = record.parked
    BY <1>4, Types DEF RecordType
  <2>. QED  BY <1>2, <1>4, <2>1, <2>2 DEF LifeStep, Life!vars, Life!Next, Life!Withdraw
<1>5. CASE ~record.parked /\ record' \in {Parked(record), Landed(record)}
  <2>1. record'.parked  BY <1>5, Types DEF RecordType, Parked, Landed
  <2>. QED  BY <1>2, <1>5, <2>1, DismissLife
<1>. QED  BY <1>1, <1>3, <1>4, <1>5 DEF Reconciled

LEMMA NewLife ==
  ASSUME RInv, Spawn(runner.pid + 1), ~runner.alive, record'.parked \in BOOLEAN
  PROVE  LifeStep
<1>1. runner'.alive = TRUE /\ runner'.committed = NoToken
  BY DEF Spawn, Fresh
<1>. QED  BY <1>1 DEF LifeStep, Life!vars, Life!Next, Life!Revive

LEMMA SpawnLife == ASSUME RInv, Respawn \/ Dispatch \/ Resume PROVE LifeStep
<1>1. CASE Respawn
  <2>1. Spawn(runner.pid + 1) /\ record'.parked \in BOOLEAN
    BY <1>1, Types DEF Respawn, RecordType, Parked
  <2>2. ~runner.alive  BY <1>1 DEF Respawn, RInv, Processes
  <2>. QED  BY <2>1, <2>2, NewLife
<1>2. CASE Revive
  <2>1. Spawn(runner.pid + 1) /\ record'.parked = FALSE
    BY <1>2, Types DEF Revive, RecordType
  <2>2. ~runner.alive  BY <1>2, Alive DEF Revive
  <2>. QED  BY <2>1, <2>2, NewLife
<1>3. CASE record' \in {record, [record EXCEPT !.requested = FALSE]} /\ runner' = runner
  <2>1. record'.parked = record.parked /\ record'.intent = record.intent
    BY <1>3, Types DEF RecordType
  <2>. QED  BY <1>3, <2>1, SameLife
<1>. QED  BY <1>1, <1>2, <1>3 DEF Dispatch, Resume

LEMMA PreparedLife == ASSUME RInv, Prepared PROVE LifeStep
<1>1. runner' = runner  BY DEF Prepared
<1>2. CASE record' = record  BY <1>1, <1>2, SameLife
<1>3. CASE ~Refusal /\ record' = [record EXCEPT !.intent = fence.token, !.intentPid = record.pid]
  <2>1. /\ fence.token # NoToken /\ fence.phase = "preparing" /\ answers # <<>>
    BY DEF Prepared, RInv, Stands, Fenced
  <2>2. record'.intent # NoToken /\ record'.parked = record.parked /\ runner.alive = TRUE
    BY <1>3, <2>1, Alive, Types DEF RecordType, RunnerType, Refusal
  <2>3. runner.committed = NoToken
    <3>. SUFFICES ASSUME runner.committed # NoToken PROVE FALSE
      OBVIOUS
    <3>1. Bound(runner.committed) /\ runner.committed \in Token /\ Listening
      BY <2>1, Types DEF Bound, RunnerType, RInv, Processes
    <3>. QED  BY <2>1, <3>1 DEF RInv, BoundIsFenced
  <2>. QED  BY <1>1, <2>2, <2>3, SameLife DEF LifeStep, Life!vars, Life!Next, Life!Intend
<1>. QED  BY <1>2, <1>3 DEF Prepared

LEMMA CancelledLife == ASSUME RInv, Cancelled PROVE LifeStep
<1>1. runner' = runner  BY DEF Cancelled
<1>2. CASE record' = record  BY <1>1, <1>2, SameLife
<1>3. CASE /\ Head(answers).ok
           /\ record' = [record EXCEPT !.intent = IF @ = fence.token THEN NoToken ELSE @]
  <2>1. /\ answers # <<>> /\ Head(answers).verb = "cancel" /\ Head(answers).token = fence.token
        /\ answers' = Tail(answers)
    BY DEF Cancelled, Awaited
  <2>2. Head(answers) \in Elems(answers) /\ Listening  BY <2>1, Hears
  <2>3. runner.committed # fence.token  BY <1>3, <2>1, <2>2 DEF RInv, Withdrawn
  <2>4. runner.committed = NoToken
    <3>. SUFFICES ASSUME runner.committed # NoToken PROVE FALSE
      OBVIOUS
    <3>1. Bound(runner.committed) /\ runner.committed \in Token
      BY Types DEF Bound, RunnerType
    <3>. QED  BY <2>2, <2>3, <3>1 DEF RInv, BoundIsFenced
  <2>5. /\ record'.parked = record.parked
        /\ record'.intent = NoToken \/ record'.intent = record.intent
    BY <1>3, Types DEF RecordType
  <2>. QED  BY <1>1, <2>4, <2>5, SameLife DEF LifeStep, Life!vars, Life!Next, Life!Withdraw
<1>. QED  BY <1>2, <1>3 DEF Cancelled, CancelConfirmed

LEMMA LandingLife == ASSUME RInv, Landing \/ ExitCompleted PROVE LifeStep
<1>1. runner' = runner  BY DEF Landing, ExitCompleted
<1>2. CASE record' = record  BY <1>1, <1>2, SameLife
<1>3. CASE record' = Landed(record)
  <2>1. record'.parked = TRUE /\ record'.intent = NoToken
    BY <1>3, Types DEF Landed, Parked, RecordType
  <2>. QED  BY <1>1, <2>1, SameLife, DismissLife
<1>. QED  BY <1>2, <1>3 DEF Landing, ExitCompleted

LEMMA OtherLife ==
  ASSUME RInv, \/ ParkVerb \/ Committed \/ LateAnswer \/ NoAnswer \/ ExitUnseen
               \/ ChildExit \/ Deliver \/ Delivered \/ DaemonCrash
  PROVE  LifeStep
<1>1. runner' = runner
  BY DEF ParkVerb, Committed, LateAnswer, NoAnswer, ExitUnseen, ChildExit,
     Deliver, Delivered, DaemonCrash
<1>2. record'.parked = record.parked /\ record'.intent = record.intent
  BY Types DEF ParkVerb, Committed, LateAnswer, NoAnswer, ExitUnseen, ChildExit,
     Deliver, Delivered, DaemonCrash, RecordType
<1>. QED  BY <1>1, <1>2, SameLife

(***************************************************************************)
(* The handshake implements SessionLife but for its fairness: the intent   *)
(* is on record before the runner commits, nobody takes back what it has   *)
(* committed to, and only the intent of a runner that is gone lands.       *)
(***************************************************************************)
THEOREM LifeKept == Spec => Life!Init /\ [][Life!Next]_(Life!vars)
<1>1. Init => Life!Init
  BY DEF Init, Life!Init, Fresh
<1>2. RInv /\ [Next]_vars => LifeStep
  <2>. SUFFICES ASSUME RInv, [Next]_vars PROVE LifeStep
    OBVIOUS
  <2>1. CASE Retirement
    BY <2>1, PreparedLife, CancelledLife, LandingLife, OtherLife DEF Retirement
  <2>2. CASE Supervision \/ Parking
    BY <2>2, SpawnLife, ReconcileLife, LandingLife, ParkNowLife, OtherLife DEF Supervision, Parking
  <2>3. CASE Work
    BY <2>3, SpawnLife, OtherLife DEF Work
  <2>4. CASE Runner
    BY <2>4, RunnerLife, FlushedLife, DiesLife DEF Runner
  <2>5. CASE Crashes
    BY <2>5, DiesLife, ReconcileLife, OtherLife DEF Crashes
  <2>6. CASE UNCHANGED vars
    BY <2>6, SameLife DEF vars
  <2>. QED  BY <2>1, <2>2, <2>3, <2>4, <2>5, <2>6 DEF Next
<1>. QED  BY <1>1, <1>2, Invariance, PTL DEF Spec, LifeStep

=============================================================================
