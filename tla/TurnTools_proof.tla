-------------------------- MODULE TurnTools_proof --------------------------
(***************************************************************************)
(* Proofs about TurnTools: types; calls that conflict are apart and in     *)
(* order; a tool is called once; every call is answered once; modifiers of *)
(* the context are applied in the order of the calls.                      *)
(***************************************************************************)
EXTENDS TurnTools, FiniteSetTheorems, SequenceTheorems, TLAPS

\* Blocks are numbered as they came, and so are their replies.
Numbered ==
  /\ \A b \in Block : of[b] # 0 <=> b <= streamed
  /\ \A b, c \in Block : b < c /\ of[c] # 0 => of[b] <= of[c]
  /\ \A b \in Block : of[b] <= attempt

\* What became of a reply: reset, cut, or heard to the end.
Fates ==
  /\ \A k \in retracted : k \in reset \/ (k = attempt /\ pc = "retracting")
  /\ pc = "retracting" => attempt \in retracted
  /\ pc \in {"retracting", "backing"} => attempt < MaxAttempts
  /\ \A k \in cut : k < attempt /\ k \notin reset /\ k \notin retracted
  /\ \A k \in reset : k < attempt \/ (k = attempt /\ pc = "over")
  /\ \A b \in Block : of[b] # 0 /\ (of[b] < attempt \/ pc = "over") =>
       of[b] \in reset \cup cut \/ lane[b] = "ended"

\* Where a call is agrees with how it was started and where its block is in the round.
Starting(b) ==
  /\ offer[b] = "none" <=> of[b] = 0
  /\ step[b] = "idle" <=> offer[b] \notin {"started", "taken"} /\ lane[b] = "off"
  /\ offer[b] \in {"started", "taken"} => Early(b)
  /\ offer[b] = "started" => lane[b] = "off"
  /\ offer[b] = "taken" => lane[b] # "off"
  /\ offer[b] \in {"none", "queued"} => lane[b] = "off" /\ lead[b] = 0

Running(b) ==
  /\ lane[b] # "off" => lead[b] # 0 /\ of[b] \notin reset \cup cut \cup retracted
  /\ lane[b] = "live" => pc = "running" /\ of[b] = attempt /\ lead[b] = cur
  /\ lane[b] = "ended" => step[b] = "done"
  /\ starts[b] = 1 => step[b] \in {"calling", "done"}
  /\ b \in body => starts[b] = 1
  /\ b \in body /\ step[b] = "done" => Stopped(b)
  /\ b \in stopped => of[b] \in reset
  /\ of[b] \in reset /\ step[b] # "idle" => b \in stopped

\* A batch is a run of blocks that begins with its lead, all compatible.
Batches ==
  /\ \A b \in Block : lead[b] # 0 => /\ lead[b] <= b /\ of[lead[b]] = of[b] /\ of[b] # 0
                                     /\ lead[lead[b]] = lead[b]
  /\ \A c \in Block : lead[c] # 0 => \A b \in Earlier(c) : lead[b] # 0 /\ lead[b] <= lead[c]
  /\ \A c \in Block : lead[c] # 0 => \A b \in Earlier(c) : lead[b] = lead[c] => ~Conflict(b, c)

\* The round goes from batch to batch.
Rounds ==
  /\ pc \in {"asking", "streaming", "retracting", "backing"} =>
       \A b \in Blocks(attempt) : lead[b] = 0
  /\ pc = "sorting" =>
       \A b \in Blocks(attempt) :
         /\ lane[b] = "off"
         /\ lead[b] # 0 => cur \in Blocks(attempt) /\ lead[cur] = cur /\ cur <= lead[b]
  /\ pc = "running" =>
       /\ cur \in Blocks(attempt) /\ lead[cur] = cur
       /\ \A b \in Blocks(attempt) : /\ lead[b] # 0
                                     /\ lead[b] < cur => lane[b] = "ended"
                                     /\ lead[b] > cur => lane[b] = "off"

Answered ==
  \A b \in Block : answers[b] =
    IF lane[b] = "ended" \/ of[b] \in reset \ retracted \/ (of[b] = attempt /\ pc = "backing")
    THEN 1 ELSE 0

\* A tool that was called had no earlier call in its way.
Ordered ==
  \A b \in Block : starts[b] = 1 => \A c \in Earlier(b) : Conflict(b, c) => lane[c] = "ended"

TInv ==
  /\ TypeOK /\ Numbered /\ Fates
  /\ \A b \in Block : Starting(b) /\ Running(b)
  /\ Batches /\ Rounds /\ Answered /\ Ordered /\ ConflictsApart

-----------------------------------------------------------------------------
(* Steps in general *)

LEMMA Sizes ==
  /\ MaxBlocks \in Nat /\ MaxAttempts \in Nat /\ 1 \in Reply /\ Block \subseteq Nat \ {0}
  /\ Reply \subseteq Nat \ {0} /\ None \notin Gate
BY ToolsAssumption DEF Block, Reply

\* Which actions touch what.
LEMMA Touches ==
  ASSUME [Next]_vars
  PROVE  /\ UNCHANGED claim
         /\ UNCHANGED <<streamed, of>> \/ Stream
         /\ UNCHANGED lead \/ \E b \in Block : Sort(b)
         /\ UNCHANGED lane \/ \E b \in Block : Begin(b) \/ Hear(b)
         /\ UNCHANGED offer \/ Stream \/ \E b \in Block : Admit(b) \/ Begin(b)
         /\ UNCHANGED answers \/ BackUp \/ StreamDies \/ \E b \in Block : Hear(b)
         /\ UNCHANGED cur \/ EndBatch \/ \E b \in Block : Sort(b)
         /\ UNCHANGED starts \/ \E b \in Block : Call(b)
         /\ UNCHANGED body \/ \E b \in Block : Call(b) \/ Return(b) \/ Late(b)
         /\ UNCHANGED <<reset, stopped>> \/ Retry \/ StreamDies
         /\ UNCHANGED retracted \/ Retract
         /\ UNCHANGED cut \/ CutShort
         /\ UNCHANGED aborted \/ Interrupt
         /\ UNCHANGED step \/ \E b \in Block : \/ Pass(b) \/ Refuse(b) \/ Call(b) \/ Return(b)
                                                \/ Abandon(b) \/ Admit(b) \/ Begin(b)
         /\ UNCHANGED <<pc, attempt>> \/ EndBatch \/ (\E b \in Block : Sort(b))
            \/ Ask \/ Retract \/ BackUp \/ Retry \/ StreamDies \/ CutShort \/ StreamEnds
<1>1. CASE \E g \in Gate : Pause(g) \/ Reopen(g)
  BY <1>1 DEF Pause, Reopen, turnVars, replyVars, callVars, roundVars
<1>2. CASE \E b \in Block : Park(b) \/ Pass(b) \/ Refuse(b) \/ Abandon(b)
  BY <1>2 DEF Park, Pass, Refuse, Abandon, turnVars, replyVars, callVars, roundVars
<1>3. CASE \E b \in Block : Call(b) \/ Return(b) \/ Late(b)
  BY <1>3 DEF Call, Return, Late, turnVars, replyVars, callVars, roundVars
<1>4. CASE \E b \in Block : Admit(b)
  BY <1>4 DEF Admit, turnVars, replyVars, callVars, roundVars
<1>5. CASE \E b \in Block : Sort(b) \/ Hear(b)
  BY <1>5 DEF Sort, Hear, turnVars, replyVars, callVars, roundVars
<1>6. CASE \E b \in Block : Begin(b)
  BY <1>6 DEF Begin, turnVars, replyVars, callVars, roundVars
<1>7. CASE Ask \/ Stream \/ Retract \/ BackUp \/ CutShort \/ StreamEnds
  BY <1>7 DEF Ask, Stream, Retract, BackUp, CutShort, StreamEnds,
              turnVars, replyVars, callVars, roundVars
<1>8. CASE Retry \/ StreamDies
  BY <1>8 DEF Retry, StreamDies, replyVars, callVars, roundVars
<1>9. CASE EndBatch
  BY <1>9 DEF EndBatch, replyVars, callVars, roundVars
<1>10. CASE Interrupt
  BY <1>10 DEF Interrupt, replyVars, callVars, roundVars
<1>11. CASE UNCHANGED vars
  BY <1>11 DEF vars, turnVars, replyVars, callVars, roundVars
<1>. QED
  BY <1>1, <1>2, <1>3, <1>4, <1>5, <1>6, <1>7, <1>8, <1>9, <1>10, <1>11 DEF Next

-----------------------------------------------------------------------------
(* Types *)

LEMMA TypesInit == Init => TypeOK
<1>. SUFFICES ASSUME Init PROVE TypeOK
  OBVIOUS
<1>. USE Sizes DEF Init
<1>1. claim \in [Block -> Claim]
  BY ToolsAssumption
<1>2. /\ of \in [Block -> 0 .. MaxAttempts] /\ starts \in [Block -> 0 .. 1]
      /\ lead \in [Block -> 0 .. MaxBlocks] /\ answers \in [Block -> 0 .. 1]
  OBVIOUS
<1>3. /\ offer \in [Block -> {"none", "queued", "passed", "started", "taken"}]
      /\ step \in [Block -> {"idle", "checking", "deciding", "calling", "done"}]
      /\ at \in [Block -> Gate \cup {None}] /\ lane \in [Block -> {"off", "live", "ended"}]
  OBVIOUS
<1>4. attempt \in Reply /\ streamed \in 0 .. MaxBlocks /\ cur \in 0 .. MaxBlocks
  OBVIOUS
<1>5. /\ pc = "asking" /\ aborted \in BOOLEAN /\ retracted = {} /\ cut = {} /\ reset = {} /\ closed = {}
      /\ stopped = {} /\ body = {} /\ brings = {}
  OBVIOUS
<1>. QED  BY <1>1, <1>2, <1>3, <1>4, <1>5 DEF TypeOK

LEMMA TypesReset ==
  ASSUME TypeOK, NEW k \in Reply, Reset(k)
  PROVE  reset' \subseteq Reply /\ stopped' \subseteq Block /\ at' \in [Block -> Gate \cup {None}]
BY DEF TypeOK, Reset, Blocks

LEMMA TypesSettle ==
  ASSUME TypeOK, Answered, NEW k \in Reply, k = attempt, pc = "streaming", Settle(k),
         \A b \in Blocks(k) : lane[b] = "off", attempt \notin reset
  PROVE  answers' \in [Block -> 0 .. 1]
BY Sizes DEF TypeOK, Settle, Answered, Blocks

LEMMA TypesStep == TInv /\ [Next]_vars => TypeOK'
<1>. SUFFICES ASSUME TInv, [Next]_vars PROVE TypeOK'
  OBVIOUS
<1>. USE Sizes DEF TInv
<1>s. \A b \in Block : lead[b] = 0 => lane[b] = "off"
  BY DEF TypeOK, Running
<1>r. pc = "streaming" => attempt \notin reset /\ \A b \in Blocks(attempt) : lane[b] = "off"
  BY <1>s DEF TypeOK, Fates, Rounds, Reply, Blocks
<1>1. CASE \E g \in Gate : Pause(g) \/ Reopen(g)
  BY <1>1 DEF TypeOK, Pause, Reopen, turnVars, replyVars, callVars, roundVars
<1>2. CASE \E b \in Block : Park(b) \/ Pass(b) \/ Refuse(b) \/ Return(b) \/ Abandon(b) \/ Late(b)
  BY <1>2 DEF TypeOK, Park, Holding, Gate, Pass, Refuse, Return, Abandon, Late,
              turnVars, replyVars, callVars, roundVars
<1>3. ASSUME NEW b \in Block, Call(b) PROVE TypeOK'
  <2>1. starts[b] = 0
    BY <1>3 DEF Call, TypeOK, Running
  <2>. QED  BY <1>3, <2>1 DEF TypeOK, Call, turnVars, replyVars, roundVars
<1>4. ASSUME NEW b \in Block, Admit(b) \/ Begin(b) PROVE TypeOK'
  BY <1>4 DEF TypeOK, Admit, Begin, turnVars, replyVars, roundVars
<1>5. ASSUME NEW b \in Block, Sort(b) PROVE TypeOK'
  <2>1. Earlier(b) # {} => b - 1 \in Block
    BY DEF Earlier, Blocks, Block
  <2>2. lead' \in [Block -> 0 .. MaxBlocks] /\ cur' \in 0 .. MaxBlocks
    BY <1>5, <2>1 DEF Sort, TypeOK, Block
  <2>. QED  BY <1>5, <2>2 DEF TypeOK, Sort, replyVars, callVars
<1>6. ASSUME NEW b \in Block, Hear(b) PROVE TypeOK'
  <2>1. answers[b] = 0
    <3>1. lane[b] = "live" /\ of[b] = attempt /\ pc = "running"  BY <1>6 DEF Hear, Running
    <3>2. attempt \notin reset  BY <3>1 DEF Fates, TypeOK, Reply
    <3>. QED  BY <3>1, <3>2 DEF Answered
  <2>2. answers' \in [Block -> 0 .. 1] /\ lane' \in [Block -> {"off", "live", "ended"}]
    BY <1>6, <2>1 DEF TypeOK, Hear
  <2>. QED  BY <1>6, <2>2 DEF TypeOK, Hear, turnVars, replyVars, callVars
<1>7. CASE Ask \/ Retract \/ CutShort \/ StreamEnds
  <2>1. /\ pc' \in {"streaming", "retracting", "asking", "over", "sorting"}
        /\ attempt' \in Reply /\ retracted' \subseteq Reply /\ cut' \subseteq Reply
    <3>1. CASE Ask \/ Retract  BY <3>1 DEF TypeOK, Ask, Retract
    <3>2. CASE CutShort  BY <3>2 DEF TypeOK, CutShort, Reply
    <3>3. CASE StreamEnds  BY <3>3 DEF TypeOK, StreamEnds
    <3>. QED  BY <1>7, <3>1, <3>2, <3>3
  <2>2. UNCHANGED <<reset, aborted, closed, replyVars, offer, callVars, roundVars>>
    BY <1>7 DEF Ask, Retract, CutShort, StreamEnds
  <2>. QED  BY <2>1, <2>2 DEF TypeOK, replyVars, callVars, roundVars
<1>8. CASE Stream
  BY <1>8 DEF TypeOK, Stream, Reply, Block, turnVars, callVars, roundVars
<1>9. CASE BackUp
  <2>1. answers' \in [Block -> 0 .. 1]
    BY <1>9, <1>r, TypesSettle DEF BackUp, TypeOK
  <2>. QED  BY <1>9, <2>1 DEF BackUp, TypeOK, replyVars, callVars
<1>10. CASE Retry
  <2>1. reset' \subseteq Reply /\ stopped' \subseteq Block /\ at' \in [Block -> Gate \cup {None}]
    BY <1>10, TypesReset DEF Retry, TypeOK
  <2>2. attempt' \in Reply
    BY <1>10 DEF Retry, TypeOK, Fates, Reply
  <2>. QED  BY <1>10, <2>1, <2>2 DEF Retry, TypeOK, replyVars, roundVars
<1>11. CASE StreamDies
  <2>1. reset' \subseteq Reply /\ stopped' \subseteq Block /\ at' \in [Block -> Gate \cup {None}]
    BY <1>11, TypesReset DEF StreamDies, TypeOK
  <2>2. answers' \in [Block -> 0 .. 1]
    BY <1>11, <1>r, TypesSettle DEF StreamDies, TypeOK
  <2>. QED  BY <1>11, <2>1, <2>2 DEF StreamDies, TypeOK, replyVars
<1>12. CASE EndBatch
  <2>1. cur' \in 0 .. MaxBlocks
    BY <1>12 DEF EndBatch, Blocks, Block
  <2>2. pc' \in {pc, "over", "asking"} /\ attempt' \in Reply
    BY <1>12 DEF EndBatch, TypeOK, Reply
  <2>. QED  BY <1>12, <2>1, <2>2 DEF EndBatch, TypeOK, replyVars, callVars
<1>13. CASE Interrupt
  BY <1>13 DEF Interrupt, TypeOK, replyVars, roundVars
<1>14. CASE UNCHANGED vars
  BY <1>14 DEF TypeOK, vars, turnVars, replyVars, callVars, roundVars
<1>. QED
  BY <1>1, <1>2, <1>3, <1>4, <1>5, <1>6, <1>7, <1>8, <1>9, <1>10, <1>11, <1>12, <1>13, <1>14 DEF Next

-----------------------------------------------------------------------------
(* What the invariant says of the reply under way *)

LEMMA Symmetric ==
  ASSUME TypeOK, NEW b \in Block, NEW c \in Block
  PROVE  Conflict(b, c) <=> Conflict(c, b)
<1>1. claim[b] \in Claim /\ claim[c] \in Claim
  BY DEF TypeOK
<1>2. CASE claim[b].kind = "exclusive" \/ claim[c].kind = "exclusive"
  BY <1>2 DEF Conflict, Compatible
<1>3. CASE claim[b].kind # "exclusive" /\ claim[c].kind # "exclusive"
  <2>1. CASE claim[b].kind = "free" \/ claim[c].kind = "free"
    BY <1>3, <2>1 DEF Conflict, Compatible
  <2>2. CASE claim[b].kind # "free" /\ claim[c].kind # "free"
    <3>1. <<claim[b].path, claim[c].path>> \in Overlap <=> <<claim[c].path, claim[b].path>> \in Overlap
      <4>1. \A p, q : <<p, q>> \in Overlap => p \in Path /\ q \in Path
        BY ToolsAssumption
      <4>. QED  BY <4>1, ToolsAssumption
    <3>. QED  BY <1>3, <2>2, <3>1 DEF Conflict, Compatible
  <2>. QED  BY <2>1, <2>2
<1>. QED  BY <1>2, <1>3

LEMMA Current ==
  ASSUME TInv
  PROVE  /\ attempt \in Nat \ {0}
         /\ pc # "over" => attempt \notin reset \cup cut
         /\ pc \notin {"over", "retracting"} => attempt \notin retracted
         /\ pc \in {"asking", "streaming", "retracting", "backing", "sorting"} =>
              \A b \in Blocks(attempt) : lane[b] = "off"
<1>. USE Sizes DEF TInv, TypeOK
<1>1. attempt \in Nat \ {0} /\ Reply \subseteq Nat
  OBVIOUS
<1>2. (pc # "over" => attempt \notin reset) /\ attempt \notin cut
  BY <1>1 DEF Fates
<1>3. pc \notin {"over", "retracting"} => attempt \notin retracted
  BY <1>2 DEF Fates
<1>4. pc \in {"asking", "streaming", "retracting", "backing", "sorting"} =>
        \A b \in Blocks(attempt) : lane[b] = "off"
  BY DEF Rounds, Running, Blocks
<1>. QED  BY <1>1, <1>2, <1>3, <1>4

LEMMA Streams ==
  ASSUME TInv, Stream
  PROVE  /\ streamed + 1 \in Block /\ of[streamed + 1] = 0
         /\ \A b \in Block : of'[b] = IF b = streamed + 1 THEN attempt ELSE of[b]
         /\ \A b \in Block : of[b] # 0 => b # streamed + 1 /\ of'[b] = of[b] /\ Earlier(b)' = Earlier(b)
         /\ \A b \in Block : of[b] # 0 <=> b <= streamed
         /\ lead[streamed + 1] = 0 /\ lane[streamed + 1] = "off" /\ offer[streamed + 1] = "none"
         /\ step[streamed + 1] = "idle" /\ starts[streamed + 1] = 0
         /\ answers[streamed + 1] = 0 /\ streamed + 1 \notin body \cup stopped
         /\ attempt \notin reset \cup cut \cup retracted
<1>. USE Sizes
<1>1. streamed \in 0 .. MaxBlocks /\ streamed + 1 \in Block /\ streamed \in Nat
  BY DEF TInv, TypeOK, Stream, Block
<1>2. \A b \in Block : of[b] # 0 <=> b <= streamed
  BY DEF TInv, Numbered
<1>3. of[streamed + 1] = 0
  BY <1>1, <1>2
<1>4. \A b \in Block : of'[b] = IF b = streamed + 1 THEN attempt ELSE of[b]
  BY <1>1 DEF TInv, TypeOK, Stream
<1>5. ASSUME NEW b \in Block, of[b] # 0
      PROVE  b # streamed + 1 /\ of'[b] = of[b] /\ Earlier(b)' = Earlier(b)
  <2>1. b < streamed + 1  BY <1>1, <1>2, <1>5
  <2>2. of'[b] = of[b]  BY <1>1, <1>4, <2>1
  <2>3. \A c \in Block : c < b => of'[c] = of[c]  BY <1>1, <1>4, <2>1
  <2>4. Earlier(b)' = Earlier(b)  BY <2>2, <2>3 DEF Earlier, Blocks
  <2>. QED  BY <1>1, <2>1, <2>2, <2>4
<1>6. attempt \notin reset \cup cut \cup retracted
  BY Current DEF Stream
<1>7. lead[streamed + 1] = 0
  BY <1>1, <1>3 DEF TInv, Batches
<1>8. lane[streamed + 1] = "off" /\ offer[streamed + 1] = "none" /\ step[streamed + 1] = "idle"
  BY <1>1, <1>3, <1>7 DEF TInv, Running, Starting, TypeOK
<1>9. starts[streamed + 1] = 0
  BY <1>1, <1>8 DEF TInv, Running, TypeOK
<1>10. streamed + 1 \notin body \cup stopped
  BY <1>1, <1>3, <1>9 DEF TInv, Running, TypeOK
<1>11. answers[streamed + 1] = 0
  BY <1>1, <1>3, <1>8 DEF TInv, Answered, TypeOK, Stream
<1>. QED  BY <1>1, <1>2, <1>3, <1>4, <1>5, <1>6, <1>7, <1>8, <1>9, <1>10, <1>11

\* The calls of a reply follow each other.
LEMMA Before ==
  ASSUME TInv, NEW b \in Block, of[b] = attempt, Earlier(b) # {}
  PROVE  b - 1 \in Earlier(b)
<1>. USE Sizes
<1>1. PICK c \in Earlier(b) : TRUE  OBVIOUS
<1>2. c \in Block /\ c < b /\ of[c] = of[b] /\ b - 1 \in Block
  BY DEF Earlier, Blocks, Block
<1>3. of[b] # 0
  BY Current
<1>4. of[b - 1] # 0
  BY <1>2, <1>3 DEF TInv, Numbered, TypeOK
<1>5. of[c] <= of[b - 1] /\ of[b - 1] <= of[b]
  BY <1>2, <1>3, <1>4 DEF TInv, Numbered, TypeOK
<1>6. of[b - 1] = of[b]
  BY <1>2, <1>5 DEF TInv, TypeOK
<1>. QED  BY <1>2, <1>6 DEF Earlier, Blocks

LEMMA Begins ==
  ASSUME TInv, NEW b \in Block, Begin(b)
  PROVE  /\ pc = "running" /\ of[b] = attempt /\ lead[b] = cur /\ lead[b] # 0 /\ lane[b] = "off"
         /\ offer[b] \in {"passed", "started"} /\ attempt \notin reset \cup cut \cup retracted
         /\ \A c \in Block : lane'[c] = IF c = b THEN "live" ELSE lane[c]
<1>1. pc = "running" /\ of[b] = attempt /\ lead[b] = cur /\ lane[b] = "off"
  BY DEF Begin, Batch, Blocks
<1>2. lead[b] # 0
  BY <1>1 DEF TInv, Rounds, Blocks
<1>3. attempt \notin reset \cup cut \cup retracted
  BY <1>1, Current
<1>4. offer[b] \in {"passed", "started"}
  BY <1>1, <1>2, Sizes, Current DEF TInv, Starting, TypeOK
<1>5. \A c \in Block : lane'[c] = IF c = b THEN "live" ELSE lane[c]
  BY DEF Begin, TInv, TypeOK
<1>. QED  BY <1>1, <1>2, <1>3, <1>4, <1>5

LEMMA Hears ==
  ASSUME TInv, NEW b \in Block, Hear(b)
  PROVE  /\ pc = "running" /\ of[b] = attempt /\ lead[b] = cur /\ lane[b] = "live" /\ step[b] = "done"
         /\ answers[b] = 0 /\ attempt \notin reset \cup cut \cup retracted
         /\ \A c \in Block : lane'[c] = IF c = b THEN "ended" ELSE lane[c]
         /\ \A c \in Block : answers'[c] = IF c = b THEN 1 ELSE answers[c]
<1>1. lane[b] = "live" /\ step[b] = "done" /\ pc = "running" /\ of[b] = attempt /\ lead[b] = cur
  BY DEF TInv, Hear, Running
<1>2. attempt \notin reset \cup cut \cup retracted
  BY <1>1, Current
<1>3. answers[b] = 0
  BY <1>1, <1>2 DEF TInv, Answered
<1>4. \A c \in Block : lane'[c] = IF c = b THEN "ended" ELSE lane[c]
  BY DEF Hear, TInv, TypeOK
<1>5. \A c \in Block : answers'[c] = IF c = b THEN 1 ELSE answers[c]
  BY <1>3 DEF Hear, TInv, TypeOK
<1>. QED  BY <1>1, <1>2, <1>3, <1>4, <1>5

\* A batch that ends leaves nothing of its reply behind but the later batches.
LEMMA Ends ==
  ASSUME TInv, EndBatch
  PROVE  /\ pc = "running" /\ UNCHANGED <<of, lead, lane>>
         /\ \/ /\ pc' = pc /\ attempt' = attempt
               /\ cur' \in Blocks(attempt) /\ lead[cur'] = cur' /\ cur' > cur
               /\ \A b \in Blocks(attempt) : /\ lead[b] < cur' => lane[b] = "ended"
                                             /\ lead[b] > cur' => lane[b] = "off"
            \/ /\ \A b \in Blocks(attempt) : lane[b] = "ended"
               /\ \/ pc' = "over" /\ attempt' = attempt
                  \/ pc' = "asking" /\ attempt' = attempt + 1
<1>. DEFINE later == {b \in Blocks(attempt) : b > cur /\ lead[b] = b}
<1>1. pc = "running" /\ UNCHANGED <<of, lead, lane>> /\ \A b \in Batch(cur) : lane[b] = "ended"
  BY DEF EndBatch, replyVars
<1>2. /\ cur \in Blocks(attempt) /\ lead[cur] = cur
      /\ \A b \in Blocks(attempt) : /\ lead[b] # 0
                                    /\ lead[b] < cur => lane[b] = "ended"
                                    /\ lead[b] > cur => lane[b] = "off"
  BY <1>1 DEF TInv, Rounds
<1>3. \A b \in Block : lead[b] \in Nat /\ b \in Nat
  BY Sizes DEF TInv, TypeOK
<1>4. \A b \in Blocks(attempt) : lead[b] > cur => lead[b] \in later
  BY <1>2, Sizes DEF TInv, Batches, Blocks, TypeOK, Block
<1>5. ASSUME NEW d \in later, cur' = d, \A c \in later : d <= c, pc' = pc, attempt' = attempt
      PROVE  /\ cur' \in Blocks(attempt) /\ lead[cur'] = cur' /\ cur' > cur
             /\ \A b \in Blocks(attempt) : /\ lead[b] < cur' => lane[b] = "ended"
                                           /\ lead[b] > cur' => lane[b] = "off"
  <2>1. d \in Blocks(attempt) /\ lead[d] = d /\ d > cur
    OBVIOUS
  <2>2. ASSUME NEW b \in Blocks(attempt), lead[b] < d PROVE lane[b] = "ended"
    <3>1. b \in Block /\ d \in Block /\ cur \in Block  BY <1>2 DEF Blocks
    <3>2. lead[b] <= cur
      BY <1>3, <1>4, <1>5, <2>2, <3>1
    <3>3. CASE lead[b] = cur  BY <1>1, <3>3 DEF Batch
    <3>4. CASE lead[b] < cur  BY <1>2, <3>4
    <3>. QED  BY <1>3, <3>1, <3>2, <3>3, <3>4
  <2>3. ASSUME NEW b \in Blocks(attempt), lead[b] > d PROVE lane[b] = "off"
    <3>1. b \in Block /\ d \in Block /\ cur \in Block  BY <1>2 DEF Blocks
    <3>2. lead[b] > cur  BY <1>3, <2>1, <2>3, <3>1
    <3>. QED  BY <1>2, <3>2
  <2>. QED  BY <1>5, <2>1, <2>2, <2>3
<1>6. ASSUME later = {}, NEW b \in Blocks(attempt) PROVE lane[b] = "ended"
  <2>1. b \in Block /\ cur \in Block  BY <1>2 DEF Blocks
  <2>2. ~(lead[b] > cur)  BY <1>4, <1>6
  <2>3. CASE lead[b] = cur  BY <1>1, <2>3 DEF Batch
  <2>4. CASE lead[b] < cur  BY <1>2, <2>4
  <2>. QED  BY <1>3, <2>1, <2>2, <2>3, <2>4
<1>7. \/ /\ \E d \in later : cur' = d /\ \A c \in later : d <= c
         /\ pc' = pc /\ attempt' = attempt
      \/ /\ later = {}
         /\ \/ pc' = "over" /\ attempt' = attempt
            \/ pc' = "asking" /\ attempt' = attempt + 1
  BY DEF EndBatch
<1>. HIDE DEF later
<1>. QED  BY <1>1, <1>5, <1>6, <1>7

-----------------------------------------------------------------------------
(* The invariant holds at first *)

LEMMA InvInit == Init => TInv
<1>. SUFFICES ASSUME Init PROVE TInv
  OBVIOUS
<1>1. TypeOK  BY TypesInit
<1>2. /\ \A b \in Block : /\ of[b] = 0 /\ lead[b] = 0 /\ lane[b] = "off" /\ offer[b] = "none"
                          /\ step[b] = "idle" /\ starts[b] = 0 /\ answers[b] = 0
      /\ pc = "asking" /\ attempt = 1 /\ streamed = 0 /\ retracted = {} /\ cut = {} /\ reset = {}
      /\ body = {} /\ stopped = {}
  BY DEF Init
<1>. HIDE DEF Init
<1>3. Numbered
  BY <1>2, Sizes DEF Numbered, Block
<1>4. Fates /\ Batches /\ Rounds /\ Ordered /\ ConflictsApart
  BY <1>2 DEF Fates, Batches, Rounds, Ordered, ConflictsApart, Blocks
<1>5. Answered
  BY <1>2 DEF Answered
<1>6. \A b \in Block : Starting(b) /\ Running(b)
  BY <1>2 DEF Starting, Running
<1>. QED  BY <1>1, <1>3, <1>4, <1>5, <1>6 DEF TInv

-----------------------------------------------------------------------------
(* The invariant is kept, part by part *)

LEMMA NumberedStep == TInv /\ [Next]_vars => Numbered'
<1>. SUFFICES ASSUME TInv, [Next]_vars PROVE Numbered'
  OBVIOUS
<1>. USE Sizes
<1>0. attempt \in Nat /\ \A b \in Block : of[b] \in Nat
  BY DEF TInv, TypeOK
<1>1. CASE Stream
  <2>1. streamed' = streamed + 1 /\ attempt' = attempt /\ streamed \in Nat
    BY <1>1 DEF Stream, turnVars, TInv, TypeOK
  <2>2. \A b \in Block : b \in Nat /\ of'[b] = IF b = streamed + 1 THEN attempt ELSE of[b]
    BY <1>1, Streams
  <2>3. (\A b \in Block : of[b] # 0 <=> b <= streamed) /\ attempt # 0
    BY <1>1, Streams, Current
  <2>4. \A b \in Block : (of'[b] # 0 <=> b <= streamed + 1) /\ of'[b] <= attempt
    BY <1>0, <2>1, <2>2, <2>3 DEF TInv, Numbered
  <2>5. ASSUME NEW b \in Block, NEW c \in Block, b < c, of'[c] # 0 PROVE of'[b] <= of'[c]
    <3>1. c <= streamed + 1 /\ b # streamed + 1  BY <2>1, <2>2, <2>4, <2>5
    <3>2. CASE c = streamed + 1  BY <2>2, <2>4, <3>2
    <3>3. CASE c # streamed + 1  BY <2>2, <2>5, <3>1, <3>3 DEF TInv, Numbered
    <3>. QED  BY <3>2, <3>3
  <2>. QED  BY <2>1, <2>4, <2>5 DEF Numbered
<1>2. CASE UNCHANGED <<streamed, of>>
  <2>1. attempt' = attempt \/ attempt' = attempt + 1
    BY Touches DEF EndBatch, Sort, Ask, Retract, BackUp, Retry, StreamDies, CutShort, StreamEnds
  <2>. QED  BY <1>0, <1>2, <2>1 DEF TInv, Numbered
<1>. QED  BY <1>1, <1>2, Touches

LEMMA BatchesStep == TInv /\ [Next]_vars => Batches'
<1>. SUFFICES ASSUME TInv, [Next]_vars PROVE Batches'
  OBVIOUS
<1>. USE Sizes
<1>0. claim' = claim
  BY Touches
<1>1. CASE Stream
  <2>1. lead' = lead /\ (\A b \in Block : lead[b] # 0 => of[b] # 0 /\ lead[b] \in Block)
    BY <1>1 DEF Stream, roundVars, TInv, Batches, TypeOK, Block
  <2>2. \A b \in Block : lead[b] # 0 => of'[lead[b]] = of[lead[b]]
    BY <1>1, <2>1, Streams DEF TInv, Batches
  <2>. QED  BY <1>0, <1>1, <2>1, <2>2, Streams DEF TInv, Batches, Conflict, Earlier, Blocks
<1>2. ASSUME NEW b \in Block, Sort(b) PROVE Batches'
  <2>. DEFINE l == IF Earlier(b) # {} /\ Joins(b, lead[b - 1]) THEN lead[b - 1] ELSE b
  <2>1. /\ lead[b] = 0 /\ of[b] = attempt /\ of' = of
        /\ \A c \in Earlier(b) : lead[c] # 0
        /\ \A c \in Block : lead'[c] = IF c = b THEN l ELSE lead[c]
    BY <1>2 DEF Sort, TInv, TypeOK, replyVars
  <2>2. \A c \in Block : Earlier(c)' = Earlier(c) /\ \A d \in Block : Conflict(c, d)' = Conflict(c, d)
    BY <1>0, <2>1 DEF Earlier, Blocks, Conflict
  <2>3. \A c \in Block : lead[c] \in Nat /\ c \in Nat /\ c # 0
    BY DEF TInv, TypeOK
  <2>4. /\ l \in Block /\ l <= b /\ of[l] = of[b] /\ of[b] # 0
        /\ l = b \/ (l # b /\ lead[l] = l)
        /\ \A c \in Earlier(b) : lead[c] <= l
        /\ \A c \in Earlier(b) : lead[c] = l => ~Conflict(c, b)
    <3>1. of[b] # 0
      BY <2>1, Current
    <3>2. CASE Earlier(b) # {} /\ Joins(b, lead[b - 1])
      <4>1. b - 1 \in Earlier(b)
        BY <2>1, <3>2, Before
      <4>2. l = lead[b - 1] /\ l # 0 /\ b - 1 \in Block /\ of[b - 1] = of[b]
        BY <2>1, <3>2, <4>1 DEF Earlier, Blocks
      <4>3. l <= b - 1 /\ of[l] = of[b] /\ lead[l] = l /\ l \in Block
        BY <4>2, <2>3 DEF TInv, Batches, Block
      <4>4. ASSUME NEW c \in Earlier(b) PROVE lead[c] <= l
        <5>1. c = b - 1 \/ c \in Earlier(b - 1)
          BY <4>2 DEF Earlier, Blocks
        <5>. QED  BY <4>2, <5>1, <2>3 DEF TInv, Batches
      <4>5. ASSUME NEW c \in Earlier(b), lead[c] = l PROVE ~Conflict(c, b)
        <5>1. c \in Batch(lead[b - 1])
          BY <2>1, <4>2, <4>5 DEF Batch, Earlier, Blocks
        <5>. QED  BY <3>2, <5>1 DEF Joins
      <4>. QED  BY <2>3, <3>1, <4>2, <4>3, <4>4, <4>5
    <3>3. CASE ~(Earlier(b) # {} /\ Joins(b, lead[b - 1]))
      <4>1. l = b
        BY <3>3
      <4>2. ASSUME NEW c \in Earlier(b) PROVE lead[c] < b
        <5>1. c \in Block /\ c < b /\ lead[c] # 0  BY <2>1 DEF Earlier, Blocks
        <5>. QED  BY <2>3, <5>1 DEF TInv, Batches
      <4>. QED  BY <2>3, <3>1, <4>1, <4>2 DEF Earlier, Blocks
    <3>. QED  BY <3>2, <3>3
  <2>. HIDE DEF l
  <2>5. ASSUME NEW c \in Block, lead'[c] # 0
        PROVE  lead'[c] <= c /\ of[lead'[c]] = of[c] /\ of[c] # 0 /\ lead'[lead'[c]] = lead'[c]
    <3>1. CASE c = b  BY <2>1, <2>4, <3>1
    <3>2. CASE c # b
      <4>1. lead'[c] = lead[c] /\ lead[c] # 0  BY <2>1, <2>5, <3>2
      <4>2. lead[c] <= c /\ of[lead[c]] = of[c] /\ of[c] # 0 /\ lead[lead[c]] = lead[c]
        BY <4>1 DEF TInv, Batches
      <4>3. lead[c] \in Block /\ lead[c] # b
        BY <2>1, <2>3, <4>1, <4>2 DEF Block
      <4>. QED  BY <2>1, <4>1, <4>2, <4>3
    <3>. QED  BY <3>1, <3>2
  <2>6. ASSUME NEW c \in Block, lead'[c] # 0, NEW d \in Earlier(c)
        PROVE  /\ lead'[d] # 0 /\ lead'[d] <= lead'[c]
               /\ lead'[d] = lead'[c] => ~Conflict(d, c)
    <3>1. d \in Block /\ d # c  BY <2>3 DEF Earlier, Blocks
    <3>2. CASE c = b  BY <2>1, <2>4, <3>1, <3>2
    <3>3. CASE c # b
      <4>1. lead'[c] = lead[c] /\ lead[c] # 0  BY <2>1, <2>6, <3>3
      <4>2. lead[d] # 0 /\ lead[d] <= lead[c] /\ (lead[d] = lead[c] => ~Conflict(d, c))
        BY <4>1 DEF TInv, Batches
      <4>3. d # b  BY <2>1, <4>2
      <4>. QED  BY <2>1, <3>1, <4>1, <4>2, <4>3
    <3>. QED  BY <3>2, <3>3
  <2>7. \A c \in Block, d \in Block : d \in Earlier(c) => (Conflict(d, c)' = Conflict(d, c))
    BY <2>2
  <2>8. \A c \in Block : Earlier(c) \subseteq Block
    BY DEF Earlier, Blocks
  <2>. QED  BY <2>1, <2>2, <2>5, <2>6, <2>7, <2>8 DEF Batches
<1>3. CASE UNCHANGED <<of, lead>>
  BY <1>0, <1>3 DEF TInv, Batches, Earlier, Blocks, Conflict
<1>. QED  BY <1>1, <1>2, <1>3, Touches

LEMMA FatesStep == TInv /\ [Next]_vars => Fates'
<1>. SUFFICES ASSUME TInv, [Next]_vars PROVE Fates'
  OBVIOUS
<1>. USE Sizes
<1>0. /\ attempt \in Nat /\ MaxAttempts \in Nat /\ attempt <= MaxAttempts
      /\ retracted \subseteq Nat /\ cut \subseteq Nat /\ reset \subseteq Nat
      /\ \A b \in Block : of[b] \in Nat /\ of[b] <= attempt
  BY DEF TInv, TypeOK, Reply, Numbered
<1>1. CASE Stream
  <2>1. UNCHANGED <<pc, attempt, retracted, cut, reset, lane>> /\ pc = "streaming"
    BY <1>1 DEF Stream, turnVars, roundVars
  <2>2. \A b \in Block : of'[b] # 0 /\ of'[b] < attempt => of'[b] = of[b]
    BY <1>0, <1>1, Streams
  <2>. QED  BY <1>0, <2>1, <2>2 DEF TInv, Fates
<1>2. ASSUME NEW b \in Block, Sort(b) PROVE Fates'
  BY <1>2 DEF TInv, Fates, Sort, replyVars
<1>3. ASSUME NEW b \in Block, Begin(b) \/ Hear(b) PROVE Fates'
  <2>1. UNCHANGED <<pc, attempt, retracted, cut, reset, of>>
    BY <1>3 DEF Begin, Hear, turnVars, replyVars
  <2>2. \A c \in Block : lane[c] = "ended" => lane'[c] = "ended"
    BY <1>3, Begins, Hears
  <2>. QED  BY <2>1, <2>2 DEF TInv, Fates
<1>4. CASE Ask \/ Retract \/ BackUp \/ StreamEnds
  <2>1. UNCHANGED <<attempt, cut, reset, of, lane>>
    BY <1>4 DEF Ask, Retract, BackUp, StreamEnds, replyVars, roundVars
  <2>2. CASE Retract  BY <1>0, <2>1, <2>2 DEF Retract, TInv, Fates
  <2>3. CASE Ask \/ BackUp  BY <1>0, <2>1, <2>3 DEF Ask, BackUp, TInv, Fates
  <2>4. CASE StreamEnds
    <3>1. pc = "streaming" /\ retracted' = retracted  BY <2>4 DEF StreamEnds
    <3>2. CASE pc' = "over"
      <4>1. Blocks(attempt) = {}  BY <2>4, <3>2 DEF StreamEnds
      <4>2. \A b \in Block : of[b] # attempt  BY <4>1 DEF Blocks
      <4>3. \A b \in Block : of[b] # 0 => of[b] < attempt  BY <1>0, <4>2
      <4>. QED  BY <1>0, <2>1, <3>1, <3>2, <4>3 DEF TInv, Fates
    <3>3. CASE pc' = "sorting"
      BY <2>1, <3>1, <3>3 DEF TInv, Fates
    <3>. QED  BY <2>4, <3>2, <3>3 DEF StreamEnds
  <2>. QED  BY <1>4, <2>2, <2>3, <2>4
<1>5. CASE Retry
  <2>1. /\ UNCHANGED <<retracted, cut, of, lane>> /\ attempt' = attempt + 1
        /\ reset' = reset \cup {attempt} /\ pc \in {"retracting", "backing"}
        /\ pc' \in {"streaming", "asking"} /\ attempt < MaxAttempts
    BY <1>5 DEF Retry, Reset, replyVars, roundVars, TInv, Fates
  <2>2. \A b \in Block : of[b] < attempt + 1 => of[b] < attempt \/ of[b] = attempt
    BY <1>0
  <2>3. /\ \A k \in retracted : k \in reset'
        /\ \A k \in cut : k < attempt' /\ k \notin reset' /\ k \notin retracted
        /\ \A k \in reset' : k < attempt'
    BY <1>0, <2>1 DEF TInv, Fates
  <2>4. \A b \in Block : of[b] # 0 /\ of[b] < attempt' => of[b] \in reset' \cup cut \/ lane[b] = "ended"
    BY <1>0, <2>1, <2>2 DEF TInv, Fates
  <2>. QED  BY <2>1, <2>3, <2>4 DEF Fates
<1>6. CASE StreamDies
  <2>1. /\ UNCHANGED <<attempt, retracted, cut, of, lane>>
        /\ reset' = reset \cup {attempt} /\ pc = "streaming" /\ pc' = "over"
    BY <1>6 DEF StreamDies, Reset, replyVars
  <2>2. \A b \in Block : of[b] < attempt \/ of[b] = attempt
    BY <1>0
  <2>. QED  BY <1>0, <2>1, <2>2 DEF TInv, Fates
<1>7. CASE CutShort
  <2>1. /\ UNCHANGED <<retracted, reset, of, lane>> /\ cut' = cut \cup {attempt}
        /\ attempt' = attempt + 1 /\ pc = "streaming" /\ pc' = "asking"
        /\ attempt \notin reset \cup retracted
    BY <1>7, Current DEF CutShort, replyVars, roundVars
  <2>2. \A b \in Block : of[b] < attempt + 1 => of[b] < attempt \/ of[b] = attempt
    BY <1>0
  <2>. QED  BY <1>0, <2>1, <2>2 DEF TInv, Fates
<1>8. CASE EndBatch
  <2>1. UNCHANGED <<retracted, cut, reset, of, lane>> /\ pc = "running"
    BY <1>8 DEF EndBatch, replyVars
  <2>2. CASE pc' = pc /\ attempt' = attempt
    BY <2>1, <2>2 DEF TInv, Fates
  <2>3. CASE /\ \A b \in Blocks(attempt) : lane[b] = "ended"
             /\ \/ pc' = "over" /\ attempt' = attempt
                \/ pc' = "asking" /\ attempt' = attempt + 1
    <3>1. \A b \in Block : of[b] = attempt => lane[b] = "ended"
      BY <2>3 DEF Blocks
    <3>2. \A b \in Block : of[b] < attempt \/ of[b] = attempt
      BY <1>0
    <3>3. attempt <= attempt' /\ attempt' \in Nat
      BY <1>0, <2>3
    <3>. QED  BY <1>0, <2>1, <2>3, <3>1, <3>2, <3>3 DEF TInv, Fates
  <2>. QED  BY <1>8, <2>2, <2>3, Ends
<1>9. CASE UNCHANGED <<pc, attempt, retracted, cut, reset, of, lane>>
  BY <1>9 DEF TInv, Fates
<1>. QED
  BY <1>1, <1>2, <1>3, <1>4, <1>5, <1>6, <1>7, <1>8, <1>9, Touches

LEMMA StartingStep == TInv /\ [Next]_vars => \A b \in Block : Starting(b)'
<1>. SUFFICES ASSUME TInv, [Next]_vars, NEW b \in Block PROVE Starting(b)'
  OBVIOUS
<1>. USE Sizes
<1>0. claim' = claim /\ Starting(b) /\ Running(b) /\ offer[b] \in {"none", "queued", "passed", "started", "taken"}
  BY Touches DEF TInv, TypeOK
<1>1. CASE Stream
  <2>1. UNCHANGED <<step, lane, lead>> /\ attempt # 0
        /\ \A c \in Block : offer'[c] = IF c = streamed + 1 THEN "queued" ELSE offer[c]
    BY <1>1, Current DEF Stream, callVars, roundVars, TInv, TypeOK
  <2>2. CASE b = streamed + 1
    BY <1>0, <1>1, <2>1, <2>2, Streams DEF Starting
  <2>3. CASE b # streamed + 1
    <3>1. offer[b] \in {"started", "taken"} => of[b] # 0 /\ Early(b)
      BY <1>0 DEF Starting
    <3>2. of[b] # 0 /\ Early(b) => Early(b)'
      BY <1>0, <1>1, Streams DEF Early, Conflict
    <3>3. offer'[b] = offer[b] /\ of'[b] = of[b]
      BY <1>1, <2>1, <2>3, Streams
    <3>. QED  BY <1>0, <2>1, <3>1, <3>2, <3>3 DEF Starting
  <2>. QED  BY <2>2, <2>3
<1>e. ASSUME UNCHANGED of PROVE Early(b)' <=> Early(b)
  BY <1>0, <1>e DEF Early, Earlier, Blocks, Conflict
<1>2. ASSUME NEW c \in Block, Sort(c) PROVE Starting(b)'
  <2>1. UNCHANGED <<of, offer, step, lane>> /\ Ready /\ of[c] = attempt
        /\ (b = c \/ lead'[b] = lead[b])
    BY <1>2 DEF Sort, replyVars, callVars, TInv, TypeOK
  <2>2. offer[c] # "queued" /\ of[c] # 0
    BY <2>1, Current DEF Ready, Blocks
  <2>3. offer[c] # "none"
    BY <2>2 DEF TInv, Starting
  <2>. QED  BY <1>0, <1>e, <2>1, <2>2, <2>3 DEF Starting
<1>3. ASSUME NEW c \in Block, Begin(c) PROVE Starting(b)'
  <2>1. UNCHANGED <<of, lead>> /\ offer[c] \in {"passed", "started"} /\ lane[c] = "off"
        /\ lane'[b] = IF b = c THEN "live" ELSE lane[b]
    BY <1>3, Begins DEF Begin, replyVars
  <2>2. IF offer[c] = "started"
        THEN offer'[b] = (IF b = c THEN "taken" ELSE offer[b]) /\ step' = step
        ELSE step'[b] = (IF b = c THEN "checking" ELSE step[b]) /\ offer' = offer
    BY <1>3 DEF Begin, TInv, TypeOK
  <2>. QED  BY <1>0, <1>e, <2>1, <2>2 DEF Starting
<1>4. ASSUME NEW c \in Block, Hear(c) PROVE Starting(b)'
  <2>1. UNCHANGED <<of, lead, offer, step>> /\ lane[c] = "live"
        /\ lane'[b] = IF b = c THEN "ended" ELSE lane[b]
    BY <1>4, Hears DEF Hear, replyVars, callVars
  <2>. QED  BY <1>0, <1>e, <2>1 DEF Starting
<1>5. ASSUME NEW c \in Block, Admit(c) PROVE Starting(b)'
  <2>1. UNCHANGED <<of, lead, lane>> /\ offer[c] = "queued"
    BY <1>5 DEF Admit, replyVars, roundVars
  <2>2. \/ Early(c) /\ offer'[b] = (IF b = c THEN "started" ELSE offer[b])
           /\ step'[b] = (IF b = c THEN "checking" ELSE step[b])
        \/ offer'[b] = (IF b = c THEN "passed" ELSE offer[b]) /\ step' = step
    BY <1>5 DEF Admit, TInv, TypeOK
  <2>. QED  BY <1>0, <1>e, <2>1, <2>2 DEF Starting
<1>6. ASSUME NEW c \in Block, Pass(c) \/ Refuse(c) \/ Call(c) \/ Return(c) \/ Abandon(c) PROVE Starting(b)'
  <2>1. UNCHANGED <<of, offer, lead, lane>> /\ step[c] # "idle"
        /\ (step'[b] = step[b] \/ (b = c /\ step'[b] # "idle"))
    BY <1>6 DEF Pass, Refuse, Call, Return, Abandon, replyVars, roundVars, TInv, TypeOK
  <2>2. step'[b] = "idle" <=> step[b] = "idle"
    BY <2>1
  <2>3. Early(b)' <=> Early(b)
    BY <1>e, <2>1
  <2>. QED  BY <1>0, <2>1, <2>2, <2>3 DEF Starting
<1>7. CASE UNCHANGED <<of, offer, step, lead, lane>>
  BY <1>0, <1>e, <1>7 DEF Starting
<1>. QED  BY <1>1, <1>2, <1>3, <1>4, <1>5, <1>6, <1>7, Touches

LEMMA RunningStep == TInv /\ [Next]_vars => \A b \in Block : Running(b)'
<1>. SUFFICES ASSUME TInv, [Next]_vars, NEW b \in Block PROVE Running(b)'
  OBVIOUS
<1>. USE Sizes
<1>0. /\ Starting(b) /\ Running(b) /\ attempt \in Nat /\ of[b] \in Nat /\ of[b] <= attempt
      /\ starts[b] \in {0, 1} /\ lead[b] \in Nat
      /\ lane[b] \in {"off", "live", "ended"} /\ retracted \subseteq Nat \ {0}
  BY DEF TInv, TypeOK, Numbered
<1>1. CASE Stream
  <2>1. UNCHANGED <<pc, attempt, retracted, cut, reset, aborted, step, stopped, body, starts, lead, lane, cur>>
    BY <1>1 DEF Stream, turnVars, callVars, roundVars
  <2>2. CASE b = streamed + 1
    BY <1>0, <1>1, <2>1, <2>2, Streams DEF Running, Stopped
  <2>3. CASE b # streamed + 1
    BY <1>0, <1>1, <2>1, <2>3, Streams DEF Running, Stopped
  <2>. QED  BY <2>2, <2>3
<1>2. ASSUME NEW c \in Block, Sort(c) PROVE Running(b)'
  <2>1. /\ UNCHANGED <<attempt, retracted, cut, reset, aborted, step, stopped, body, starts, lane, of>>
        /\ pc = "sorting" /\ of[c] = attempt
        /\ b = c \/ lead'[b] = lead[b]
    BY <1>2 DEF Sort, replyVars, callVars, TInv, TypeOK
  <2>2. lane[c] = "off" /\ lane[b] # "live"
    BY <1>0, <2>1, Current DEF Blocks, Running
  <2>. QED  BY <1>0, <2>1, <2>2 DEF Running, Stopped
<1>3. ASSUME NEW c \in Block, Begin(c) PROVE Running(b)'
  <2>1. /\ UNCHANGED <<pc, attempt, retracted, cut, reset, aborted, stopped, body, starts, lead, cur, of>>
        /\ pc = "running" /\ of[c] = attempt /\ lead[c] = cur /\ lead[c] # 0 /\ lane[c] = "off"
        /\ attempt \notin reset \cup cut \cup retracted
        /\ lane'[b] = IF b = c THEN "live" ELSE lane[b]
    BY <1>3, Begins DEF Begin, turnVars, replyVars
  <2>2. step'[b] = step[b] \/ (b = c /\ step[b] = "idle" /\ step'[b] = "checking")
    BY <1>0, <1>3, <2>1, Begins DEF Begin, TInv, TypeOK, Starting
  <2>. QED  BY <1>0, <2>1, <2>2 DEF Running, Stopped
<1>4. ASSUME NEW c \in Block, Hear(c) PROVE Running(b)'
  <2>1. /\ UNCHANGED <<pc, attempt, retracted, cut, reset, aborted, step, stopped, body, starts, lead, cur, of>>
        /\ lane[c] = "live" /\ step[c] = "done"
        /\ lane'[b] = IF b = c THEN "ended" ELSE lane[b]
    BY <1>4, Hears DEF Hear, turnVars, replyVars, callVars
  <2>. QED  BY <1>0, <2>1 DEF Running, Stopped
<1>5. ASSUME NEW c \in Block, Admit(c) PROVE Running(b)'
  <2>1. UNCHANGED <<pc, attempt, retracted, cut, reset, aborted, stopped, body, starts, lead, lane, cur, of>>
        /\ offer[c] = "queued"
    BY <1>5 DEF Admit, turnVars, replyVars, roundVars
  <2>2. step[c] = "idle" /\ lane[c] = "off"
    BY <2>1 DEF TInv, Starting
  <2>3. \/ step'[b] = step[b]
        \/ b = c /\ step'[b] = "checking" /\ of[c] \notin reset
    BY <1>5 DEF Admit, Stale, TInv, TypeOK
  <2>. QED  BY <1>0, <2>1, <2>2, <2>3 DEF Running, Stopped
<1>6. ASSUME NEW c \in Block,
             Pass(c) \/ Refuse(c) \/ Call(c) \/ Return(c) \/ Abandon(c) \/ Late(c)
      PROVE  Running(b)'
  <2>1. UNCHANGED <<pc, attempt, retracted, cut, reset, aborted, stopped, lead, lane, cur, of>>
    BY <1>6 DEF Pass, Refuse, Call, Return, Abandon, Late, turnVars, replyVars, roundVars
  <2>2. CASE b # c
    <3>1. step'[b] = step[b] /\ starts'[b] = starts[b] /\ (b \in body' <=> b \in body)
      BY <1>6, <2>2 DEF Pass, Refuse, Call, Return, Abandon, Late, TInv, TypeOK
    <3>. QED  BY <1>0, <2>1, <3>1 DEF Running, Stopped
  <2>3. CASE b = c /\ (Pass(c) \/ Refuse(c))
    <3>1. step[b] \in {"checking", "deciding"} /\ step'[b] \in {"deciding", "done"}
          /\ body' = body /\ starts' = starts
      BY <2>3 DEF Pass, Refuse, TInv, TypeOK
    <3>. QED  BY <1>0, <2>1, <3>1 DEF Running, Stopped
  <2>4. CASE b = c /\ Call(c)
    <3>1. step[b] = "deciding" /\ step'[b] = "calling" /\ body' = body \cup {b}
          /\ starts'[b] = starts[b] + 1
      BY <2>4 DEF Call, TInv, TypeOK
    <3>2. starts[b] = 0  BY <1>0, <3>1 DEF Running
    <3>. QED  BY <1>0, <2>1, <3>1, <3>2 DEF Running, Stopped
  <2>5. CASE b = c /\ (Return(c) \/ Late(c))
    <3>1. step[b] # "idle" /\ step'[b] = "done" /\ body' = body \ {b} /\ starts' = starts
      BY <2>5 DEF Return, Late, TInv, TypeOK
    <3>. QED  BY <1>0, <2>1, <3>1 DEF Running, Stopped
  <2>6. CASE b = c /\ Abandon(c)
    <3>1. step[b] = "calling" /\ step'[b] = "done" /\ Stopped(b) /\ body' = body /\ starts' = starts
      BY <2>6 DEF Abandon, TInv, TypeOK
    <3>. QED  BY <1>0, <2>1, <3>1 DEF Running, Stopped
  <2>. QED  BY <1>6, <2>2, <2>3, <2>4, <2>5, <2>6
<1>7. CASE Retry \/ StreamDies
  <2>1. /\ UNCHANGED <<retracted, cut, aborted, step, body, starts, lead, lane, cur, of>>
        /\ pc \in {"streaming", "retracting", "backing"} /\ reset' = reset \cup {attempt}
        /\ stopped' = stopped \cup {c \in Blocks(attempt) : offer[c] = "started"}
    BY <1>7 DEF Retry, StreamDies, Reset, replyVars, roundVars
  <2>2. of[b] = attempt => lane[b] = "off"
    BY <2>1, Current DEF Blocks
  <2>3. lane[b] # "live"
    BY <1>0, <2>1, <2>2 DEF Running
  <2>4. b \in stopped' => of[b] \in reset'
    BY <1>0, <2>1 DEF Running, Blocks
  <2>5. of[b] \in reset' /\ step[b] # "idle" => b \in stopped'
    <3>1. of[b] = attempt /\ step[b] # "idle" => offer[b] = "started"
      BY <1>0, <2>2 DEF Starting
    <3>. QED  BY <1>0, <2>1, <3>1 DEF Running, Blocks
  <2>. QED  BY <1>0, <2>1, <2>2, <2>3, <2>4, <2>5 DEF Running, Stopped
<1>8. CASE Ask \/ Retract \/ BackUp \/ CutShort \/ StreamEnds
  <2>1. /\ UNCHANGED <<reset, aborted, step, stopped, body, starts, lead, lane, cur, of>>
        /\ pc \in {"asking", "streaming"}
        /\ retracted' \subseteq retracted \cup {attempt} /\ cut' \subseteq cut \cup {attempt}
    BY <1>8 DEF Ask, Retract, BackUp, CutShort, StreamEnds, replyVars, callVars, roundVars
  <2>2. (of[b] = attempt => lane[b] = "off") /\ lane[b] # "live"
    BY <1>0, <2>1, Current DEF Blocks, Running
  <2>. QED  BY <1>0, <2>1, <2>2 DEF Running, Stopped
<1>9. CASE EndBatch
  <2>1. UNCHANGED <<retracted, cut, reset, aborted, step, stopped, body, starts, lead, lane, of>>
        /\ \A c \in Batch(cur) : lane[c] = "ended"
    BY <1>9 DEF EndBatch, replyVars, callVars
  <2>2. lane[b] # "live"
    BY <1>0, <2>1 DEF Running, Batch, Blocks
  <2>. QED  BY <1>0, <2>1, <2>2 DEF Running, Stopped
<1>10. CASE Interrupt
  <2>1. UNCHANGED <<pc, attempt, retracted, cut, reset, step, stopped, body, starts, lead, lane, cur, of>>
        /\ aborted'
    BY <1>10 DEF Interrupt, replyVars, roundVars
  <2>. QED  BY <1>0, <2>1 DEF Running, Stopped
<1>11. CASE UNCHANGED <<pc, attempt, retracted, cut, reset, aborted, step, stopped, body, starts, lead, lane, cur, of>>
  BY <1>0, <1>11 DEF Running, Stopped
<1>. QED
  BY <1>1, <1>2, <1>3, <1>4, <1>5, <1>6, <1>7, <1>8, <1>9, <1>10, <1>11, Touches

LEMMA RoundsStep == TInv /\ [Next]_vars => Rounds'
<1>. SUFFICES ASSUME TInv, [Next]_vars PROVE Rounds'
  OBVIOUS
<1>. USE Sizes
<1>0. /\ attempt \in Nat \ {0} /\ cur \in Nat
      /\ \A b \in Block : of[b] \in Nat /\ of[b] <= attempt /\ lead[b] \in Nat
  BY DEF TInv, TypeOK, Numbered
<1>n. \A b \in Block : of[b] # attempt + 1
  BY <1>0
<1>1. CASE Stream
  <2>1. UNCHANGED <<pc, attempt, lead, lane, cur>> /\ pc = "streaming"
    BY <1>1 DEF Stream, turnVars, roundVars
  <2>. QED  BY <1>1, <2>1, Streams DEF TInv, Rounds, Blocks
<1>2. ASSUME NEW b \in Block, Sort(b) PROVE Rounds'
  <2>1. /\ UNCHANGED <<attempt, of, lane, streamed>> /\ pc = "sorting" /\ of[b] = attempt /\ lead[b] = 0
        /\ \A c \in Earlier(b) : lead[c] # 0
        /\ cur' = IF Earlier(b) = {} THEN b ELSE cur
        /\ pc' = IF b = streamed THEN "running" ELSE "sorting"
        /\ \A c \in Block : c # b => lead'[c] = lead[c]
    BY <1>2 DEF Sort, replyVars, TInv, TypeOK
  <2>2. Batches'
    BY BatchesStep
  <2>3. lead'[b] # 0
    <3>1. lead'[b] = IF Earlier(b) # {} /\ Joins(b, lead[b - 1]) THEN lead[b - 1] ELSE b
      BY <1>2 DEF Sort, TInv, TypeOK
    <3>2. CASE Earlier(b) # {} /\ Joins(b, lead[b - 1])
      <4>1. b - 1 \in Earlier(b)  BY <1>2, <3>2, Before DEF Sort
      <4>. QED  BY <2>1, <3>1, <3>2, <4>1
    <3>3. CASE ~(Earlier(b) # {} /\ Joins(b, lead[b - 1]))  BY <3>1, <3>3
    <3>. QED  BY <3>2, <3>3
  <2>4. \A c \in Blocks(attempt) : lane[c] = "off"
    BY <2>1, Current
  <2>5. ASSUME NEW c \in Blocks(attempt), lead'[c] # 0
        PROVE  cur' \in Blocks(attempt) /\ lead'[cur'] = cur' /\ cur' <= lead'[c]
    <3>1. c \in Block /\ of[c] = attempt /\ b \in Nat /\ c \in Nat  BY DEF Blocks
    <3>2. c = b \/ c < b
      <4>1. CASE c # b
        <5>1. lead[c] # 0  BY <2>1, <2>5, <3>1, <4>1
        <5>2. b \in Earlier(c) => lead[b] # 0  BY <3>1, <5>1 DEF TInv, Batches
        <5>. QED  BY <2>1, <3>1, <4>1, <5>2 DEF Earlier, Blocks
      <4>. QED  BY <4>1
    <3>3. CASE Earlier(b) = {}
      <4>1. c = b /\ cur' = b
        BY <2>1, <3>1, <3>2, <3>3 DEF Earlier, Blocks
      <4>2. lead'[b] = b
        BY <1>2, <3>3 DEF Sort, TInv, TypeOK
      <4>. QED  BY <2>1, <3>1, <4>1, <4>2 DEF Blocks
    <3>4. CASE Earlier(b) # {}
      <4>1. PICK d \in Earlier(b) : TRUE  BY <3>4
      <4>2. d \in Blocks(attempt) /\ lead[d] # 0  BY <2>1, <4>1 DEF Earlier, Blocks
      <4>3. cur \in Blocks(attempt) /\ lead[cur] = cur /\ cur' = cur
        BY <2>1, <3>4, <4>2 DEF TInv, Rounds
      <4>4. cur # b /\ lead'[cur] = cur
        BY <2>1, <4>3, Sizes DEF Blocks
      <4>5. CASE c # b
        BY <2>1, <2>5, <3>1, <4>3, <4>4, <4>5 DEF TInv, Rounds
      <4>6. CASE c = b
        <5>1. lead'[d] <= lead'[b] /\ lead'[d] = lead[d] /\ cur <= lead[d]
          <6>1. d \in Block /\ d # b /\ d \in Earlier(b)'
            BY <2>1, <4>1 DEF Earlier, Blocks
          <6>2. lead'[d] <= lead'[b]  BY <2>2, <2>3, <6>1 DEF Batches
          <6>. QED  BY <2>1, <4>2, <6>1, <6>2 DEF TInv, Rounds
        <5>2. lead'[b] \in Nat
          BY TypesStep DEF TypeOK
        <5>. QED  BY <1>0, <4>2, <4>3, <4>4, <4>6, <5>1, <5>2 DEF Blocks
      <4>. QED  BY <4>5, <4>6
    <3>. QED  BY <3>3, <3>4
  <2>6. CASE b # streamed
    BY <2>1, <2>4, <2>5, <2>6 DEF Rounds, Blocks
  <2>7. CASE b = streamed
    <3>1. ASSUME NEW c \in Blocks(attempt) PROVE lead'[c] # 0
      <4>1. c \in Block /\ c <= b /\ of[c] = of[b]
        BY <1>0, <2>1, <2>7 DEF Blocks, TInv, Numbered
      <4>2. CASE c = b  BY <2>3, <4>2
      <4>3. CASE c # b  BY <2>1, <4>1, <4>3, Sizes DEF Earlier, Blocks
      <4>. QED  BY <4>2, <4>3
    <3>2. b \in Blocks(attempt)  BY <2>1 DEF Blocks
    <3>3. \A c \in Blocks(attempt) : lead'[c] \in Nat /\ cur' \in Nat
      BY TypesStep DEF TypeOK, Blocks
    <3>. QED  BY <2>1, <2>4, <2>5, <2>7, <3>1, <3>2, <3>3 DEF Rounds, Blocks
  <2>. QED  BY <2>6, <2>7
<1>3. ASSUME NEW b \in Block, Begin(b) PROVE Rounds'
  <2>1. UNCHANGED <<pc, attempt, lead, cur, of>> /\ pc = "running" /\ lead[b] = cur
    BY <1>3, Begins DEF Begin, turnVars, replyVars
  <2>2. \A c \in Block : c # b => lane'[c] = lane[c]
    BY <1>3, Begins
  <2>. QED  BY <1>0, <2>1, <2>2 DEF TInv, Rounds, Blocks
<1>4. ASSUME NEW b \in Block, Hear(b) PROVE Rounds'
  <2>1. UNCHANGED <<pc, attempt, lead, cur, of>> /\ pc = "running" /\ lead[b] = cur
    BY <1>4, Hears DEF Hear, turnVars, replyVars
  <2>2. \A c \in Block : c # b => lane'[c] = lane[c]
    BY <1>4, Hears
  <2>. QED  BY <1>0, <2>1, <2>2 DEF TInv, Rounds, Blocks
<1>5. CASE EndBatch
  <2>1. CASE /\ pc' = pc /\ attempt' = attempt
             /\ cur' \in Blocks(attempt) /\ lead[cur'] = cur' /\ cur' > cur
             /\ \A b \in Blocks(attempt) : /\ lead[b] < cur' => lane[b] = "ended"
                                           /\ lead[b] > cur' => lane[b] = "off"
    BY <1>5, <2>1, Ends DEF TInv, Rounds, Blocks
  <2>2. CASE pc' = "over" \/ (pc' = "asking" /\ attempt' = attempt + 1)
    BY <1>5, <1>n, <2>2, Ends DEF Rounds, Blocks
  <2>. QED  BY <1>5, <2>1, <2>2, Ends
<1>6. CASE Ask \/ Retract \/ BackUp \/ StreamEnds
  <2>1. UNCHANGED <<attempt, lead, lane, cur, of>> /\ pc \in {"asking", "streaming"}
        /\ pc' \in {"streaming", "retracting", "backing", "sorting", "over"}
    BY <1>6 DEF Ask, Retract, BackUp, StreamEnds, replyVars, roundVars
  <2>2. \A b \in Blocks(attempt) : lead[b] = 0 /\ lane[b] = "off"
    BY <2>1, Current DEF TInv, Rounds
  <2>. QED  BY <2>1, <2>2 DEF Rounds, Blocks
<1>7. CASE Retry \/ StreamDies \/ CutShort
  <2>1. of' = of /\ (pc' = "over" \/ (pc' \in {"streaming", "asking"} /\ attempt' = attempt + 1))
    BY <1>7 DEF Retry, StreamDies, CutShort, replyVars
  <2>. QED  BY <1>n, <2>1 DEF Rounds, Blocks
<1>8. CASE UNCHANGED <<pc, attempt, lead, lane, cur, of>>
  BY <1>8 DEF TInv, Rounds, Blocks
<1>. QED
  BY <1>1, <1>2, <1>3, <1>4, <1>5, <1>6, <1>7, <1>8, Touches

LEMMA AnsweredStep == TInv /\ [Next]_vars => Answered'
<1>. SUFFICES ASSUME TInv, [Next]_vars PROVE Answered'
  OBVIOUS
<1>. USE Sizes
<1>. DEFINE Due(b) == lane[b] = "ended" \/ of[b] \in reset \ retracted
                      \/ (of[b] = attempt /\ pc = "backing")
<1>0. /\ attempt \in Nat \ {0}
      /\ \A b \in Block : of[b] \in Nat /\ of[b] <= attempt /\ answers[b] = IF Due(b) THEN 1 ELSE 0
  BY DEF TInv, TypeOK, Numbered, Answered
<1>f. ASSUME \A b \in Block : Due(b)' <=> Due(b), answers' = answers PROVE Answered'
  BY <1>0, <1>f DEF Answered
<1>1. CASE Stream
  <2>1. UNCHANGED <<pc, attempt, retracted, reset, lane, answers>> /\ pc = "streaming"
    BY <1>1 DEF Stream, turnVars, roundVars
  <2>2. \A b \in Block : Due(b)' <=> Due(b)
    BY <1>1, <2>1, Streams DEF TInv, TypeOK
  <2>. QED  BY <1>f, <2>1, <2>2
<1>2. ASSUME NEW b \in Block, Sort(b) PROVE Answered'
  <2>1. UNCHANGED <<attempt, retracted, reset, lane, answers, of>> /\ pc # "backing" /\ pc' # "backing"
    BY <1>2 DEF Sort, replyVars
  <2>. QED  BY <1>f, <2>1
<1>3. ASSUME NEW b \in Block, Begin(b) PROVE Answered'
  <2>1. UNCHANGED <<pc, attempt, retracted, reset, answers, of>>
    BY <1>3 DEF Begin, turnVars, replyVars
  <2>2. \A c \in Block : lane[c] = "ended" <=> lane'[c] = "ended"
    BY <1>3, Begins
  <2>. QED  BY <1>f, <2>1, <2>2
<1>4. ASSUME NEW b \in Block, Hear(b) PROVE Answered'
  <2>1. UNCHANGED <<pc, attempt, retracted, reset, of>>
    BY <1>4 DEF Hear, turnVars, replyVars
  <2>2. \A c \in Block : c # b => (Due(c)' <=> Due(c)) /\ answers'[c] = answers[c]
    BY <1>4, <2>1, Hears
  <2>3. Due(b)' /\ answers'[b] = 1
    BY <1>4, <2>1, Hears
  <2>. QED  BY <1>0, <2>2, <2>3 DEF Answered
<1>5. CASE BackUp
  <2>1. UNCHANGED <<attempt, retracted, reset, lane, of>> /\ pc = "streaming" /\ pc' = "backing"
        /\ \A b \in Block : answers'[b] = IF of[b] = attempt THEN answers[b] + 1 ELSE answers[b]
    BY <1>5 DEF BackUp, Settle, replyVars
  <2>2. attempt \notin reset /\ \A b \in Block : of[b] = attempt => lane[b] = "off"
    BY <2>1, Current DEF Blocks
  <2>3. \A b \in Block : of[b] = attempt => answers[b] = 0
    BY <1>0, <2>1, <2>2
  <2>. QED  BY <1>0, <2>1, <2>3 DEF Answered
<1>6. CASE StreamDies
  <2>1. UNCHANGED <<attempt, retracted, lane, of>> /\ pc = "streaming" /\ pc' = "over"
        /\ reset' = reset \cup {attempt}
        /\ \A b \in Block : answers'[b] = IF of[b] = attempt THEN answers[b] + 1 ELSE answers[b]
    BY <1>6 DEF StreamDies, Reset, Settle, replyVars
  <2>2. attempt \notin reset \cup retracted /\ \A b \in Block : of[b] = attempt => lane[b] = "off"
    BY <2>1, Current DEF Blocks
  <2>3. \A b \in Block : of[b] = attempt => answers[b] = 0
    BY <1>0, <2>1, <2>2
  <2>. QED  BY <1>0, <2>1, <2>2, <2>3 DEF Answered
<1>7. CASE Retry
  <2>1. UNCHANGED <<retracted, lane, of, answers>> /\ pc \in {"retracting", "backing"}
        /\ pc' \in {"streaming", "asking"} /\ reset' = reset \cup {attempt}
    BY <1>7 DEF Retry, Reset, replyVars, roundVars
  <2>2. pc = "retracting" <=> attempt \in retracted
    BY <2>1, Current DEF TInv, Fates
  <2>3. \A b \in Block : Due(b)' <=> Due(b)
    BY <1>0, <2>1, <2>2
  <2>. QED  BY <1>f, <2>1, <2>3
<1>8. CASE Ask \/ Retract \/ CutShort \/ StreamEnds
  <2>1. UNCHANGED <<reset, lane, of, answers>> /\ pc \in {"asking", "streaming"} /\ pc' # "backing"
        /\ retracted' \in {retracted, retracted \cup {attempt}}
    BY <1>8 DEF Ask, Retract, CutShort, StreamEnds, replyVars, roundVars
  <2>2. attempt \notin reset
    BY <2>1, Current
  <2>3. \A b \in Block : Due(b)' <=> Due(b)
    BY <2>1, <2>2
  <2>. QED  BY <1>f, <2>1, <2>3
<1>9. CASE EndBatch
  <2>1. UNCHANGED <<retracted, reset, lane, of, answers>> /\ pc = "running" /\ pc' # "backing"
    BY <1>9, Ends DEF EndBatch, replyVars
  <2>. QED  BY <1>f, <2>1
<1>10. CASE UNCHANGED <<pc, attempt, retracted, reset, lane, of, answers>>
  BY <1>f, <1>10
<1>. QED
  BY <1>1, <1>2, <1>3, <1>4, <1>5, <1>6, <1>7, <1>8, <1>9, <1>10, Touches

\* Where a tool is called, no call before it is in its way, and it was not called before.
LEMMA Calls ==
  ASSUME TInv, NEW b \in Block, Call(b)
  PROVE  /\ step[b] = "deciding" /\ ~aborted /\ b \notin stopped /\ of[b] # 0
         /\ starts[b] = 0 /\ of[b] \notin reset /\ lane[b] # "ended"
         /\ \A c \in Earlier(b) : Conflict(b, c) => lane[c] = "ended"
<1>. USE Sizes
<1>1. step[b] = "deciding" /\ ~aborted /\ b \notin stopped
  BY DEF Call, Stopped
<1>2. Starting(b) /\ Running(b)
  BY DEF TInv
<1>3. of[b] # 0
  BY <1>1, <1>2 DEF Starting, Running, TInv, Batches
<1>4. starts[b] = 0 /\ of[b] \notin reset /\ lane[b] # "ended"
  BY <1>1, <1>2 DEF Running, TInv, TypeOK
<1>5. ASSUME NEW c \in Earlier(b), Conflict(b, c) PROVE lane[c] = "ended"
  <2>1. c \in Block /\ of[c] = of[b] /\ Conflict(c, b)
    BY <1>5, Symmetric DEF TInv, Earlier, Blocks
  <2>2. offer[b] \notin {"started", "taken"}
    BY <1>2, <2>1 DEF Starting, Early
  <2>3. lane[b] = "live"
    BY <1>1, <1>2, <1>4, <2>2 DEF Starting, TInv, TypeOK
  <2>4. pc = "running" /\ of[b] = attempt /\ lead[b] = cur /\ lead[b] # 0
    BY <1>2, <2>3 DEF Running
  <2>5. lead[c] <= lead[b] /\ lead[c] # lead[b]
    BY <2>1, <2>4 DEF TInv, Batches
  <2>6. lead[c] < cur
    BY <2>1, <2>4, <2>5 DEF TInv, TypeOK
  <2>. QED  BY <2>1, <2>4, <2>6 DEF TInv, Rounds, Blocks
<1>. QED  BY <1>1, <1>3, <1>4, <1>5

LEMMA OrderedStep == TInv /\ [Next]_vars => Ordered'
<1>. SUFFICES ASSUME TInv, [Next]_vars PROVE Ordered'
  OBVIOUS
<1>. USE Sizes
<1>0. claim' = claim
  BY Touches
<1>1. ASSUME NEW c \in Block, lane[c] = "ended" PROVE lane'[c] = "ended"
  <2>1. ASSUME NEW b \in Block, Begin(b) \/ Hear(b) PROVE lane'[c] = "ended"
    BY <1>1, <2>1, Begins, Hears
  <2>. QED  BY <1>1, <2>1, Touches
<1>2. ASSUME NEW b \in Block, starts'[b] = 1
      PROVE  /\ Earlier(b)' = Earlier(b)
             /\ \A c \in Earlier(b) : Conflict(b, c) => lane[c] = "ended"
  <2>1. CASE Stream
    <3>1. starts' = starts  BY <2>1 DEF Stream, callVars
    <3>2. of[b] # 0  BY <1>2, <3>1 DEF TInv, Running, Starting, Batches
    <3>. QED  BY <1>2, <2>1, <3>1, <3>2, Streams DEF TInv, Ordered
  <2>2. ASSUME NEW d \in Block, Call(d)
        PROVE  /\ Earlier(b)' = Earlier(b)
               /\ \A c \in Earlier(b) : Conflict(b, c) => lane[c] = "ended"
    <3>1. of' = of  BY <2>2 DEF Call, replyVars
    <3>2. CASE b = d  BY <2>2, <3>1, <3>2, Calls DEF Earlier, Blocks
    <3>3. CASE b # d
      <4>1. starts[b] = 1  BY <1>2, <2>2, <3>3 DEF Call, TInv, TypeOK
      <4>. QED  BY <3>1, <4>1 DEF TInv, Ordered, Earlier, Blocks
    <3>. QED  BY <3>2, <3>3
  <2>3. CASE UNCHANGED <<of, starts>>
    BY <1>2, <2>3 DEF TInv, Ordered, Earlier, Blocks
  <2>. QED  BY <2>1, <2>2, <2>3, Touches
<1>. QED  BY <1>0, <1>1, <1>2 DEF Ordered, Conflict, Earlier, Blocks

LEMMA ApartStep == TInv /\ [Next]_vars => ConflictsApart'
<1>. SUFFICES ASSUME TInv, [Next]_vars PROVE ConflictsApart'
  OBVIOUS
<1>. USE Sizes
<1>0. /\ claim' = claim /\ body \subseteq Block /\ reset \subseteq reset' /\ cut \subseteq cut'
      /\ \A b \in body : starts[b] = 1 /\ (step[b] = "done" => Stopped(b))
  BY Touches DEF TInv, TypeOK, Running, Retry, StreamDies, Reset, CutShort
<1>1. ASSUME NEW b \in body PROVE of'[b] = of[b]
  <2>1. CASE Stream  BY <1>0, <2>1, Streams
  <2>. QED  BY <2>1, Touches
<1>2. ASSUME NEW b \in Block, Call(b) PROVE ConflictsApart'
  <2>1. /\ body' = body \cup {b} /\ UNCHANGED <<of, reset, cut>>
        /\ step[b] = "deciding" /\ ~aborted /\ of[b] # 0
        /\ starts[b] = 0 /\ of[b] \notin reset /\ lane[b] # "ended"
    BY <1>2, Calls DEF Call, turnVars, replyVars
  <2>2. ASSUME NEW c \in body, Conflict(b, c), of[b] \notin cut, of[c] \notin reset \cup cut PROVE FALSE
    <3>1. c \in Block /\ starts[c] = 1 /\ c # b
      BY <1>0, <2>1
    <3>2. step[c] # "done" /\ lane[c] # "ended"
      BY <1>0, <2>1, <2>2, <3>1 DEF Stopped, TInv, Running
    <3>3. of[c] # 0
      BY <3>1 DEF TInv, Running, Starting, Batches
    <3>4. of[b] = attempt /\ of[c] = attempt
      BY <2>1, <2>2, <3>1, <3>2, <3>3 DEF TInv, Fates, Numbered, TypeOK
    <3>5. CASE c < b
      BY <1>2, <2>2, <3>1, <3>2, <3>4, <3>5, Calls DEF Earlier, Blocks
    <3>6. CASE b < c
      <4>1. b \in Earlier(c)  BY <3>1, <3>4, <3>6 DEF Earlier, Blocks
      <4>2. Conflict(c, b)  BY <2>2, <3>1, Symmetric DEF TInv
      <4>. QED  BY <2>1, <3>1, <4>1, <4>2 DEF TInv, Ordered
    <3>. QED  BY <3>1, <3>5, <3>6
  <2>3. ASSUME NEW c \in body, Conflict(b, c) \/ Conflict(c, b)
        PROVE  {of[b], of[c]} \cap (reset \cup cut) # {}
    <3>1. Conflict(b, c)  BY <1>0, <2>3, Symmetric DEF TInv
    <3>. QED  BY <2>1, <2>2, <3>1
  <2>4. \A c, d \in body : c # d /\ Conflict(c, d) => {of[c], of[d]} \cap (reset \cup cut) # {}
    BY DEF TInv, ConflictsApart
  <2>5. {of[b], of[b]} = {of[b]} /\ \A c \in body : {of[b], of[c]} = {of[c], of[b]}
    OBVIOUS
  <2>. QED  BY <1>0, <2>1, <2>3, <2>4, <2>5 DEF ConflictsApart, Conflict
<1>3. CASE body' \subseteq body
  <2>. SUFFICES ASSUME NEW b \in body, NEW c \in body, b # c, Conflict(b, c)
                PROVE  {of[b], of[c]} \cap (reset' \cup cut') # {}
    BY <1>0, <1>1, <1>3 DEF ConflictsApart, Conflict
  <2>1. {of[b], of[c]} \cap (reset \cup cut) # {}
    BY DEF TInv, ConflictsApart
  <2>. QED  BY <1>0, <2>1
<1>4. (\E b \in Block : Call(b)) \/ body' \subseteq body
  BY Touches DEF Return, Late
<1>. QED  BY <1>2, <1>3, <1>4

LEMMA InvStep == TInv /\ [Next]_vars => TInv'
BY TypesStep, NumberedStep, FatesStep, StartingStep, RunningStep, BatchesStep, RoundsStep,
   AnsweredStep, OrderedStep, ApartStep DEF TInv

LEMMA Invariant == Spec => []TInv
BY InvInit, InvStep, PTL DEF Spec

-----------------------------------------------------------------------------
(* The theorems *)

\* The types hold in every state; a tool call starts at most once.
THEOREM TypesHold == Spec => []TypeOK
<1>1. TInv => TypeOK
  BY DEF TInv
<1>. QED  BY <1>1, Invariant, PTL

\* Conflicting calls are never at work together (claimsCompatible, EarlyStarts, runTools).
THEOREM ConflictsStayApart == Spec => []ConflictsApart
<1>1. TInv => ConflictsApart
  BY DEF TInv
<1>. QED  BY <1>1, Invariant, PTL

\* A tool is called behind the answers of all the calls in its way.
THEOREM ConflictsKeepOrder == Spec => ConflictsInOrder
<1>1. TInv /\ [Next]_vars =>
        [\A b \in Block : starts'[b] # starts[b] =>
           \A c \in Earlier(b) : Conflict(b, c) => lane[c] = "ended" /\ c \notin body]_vars
  <2>. SUFFICES ASSUME TInv, [Next]_vars, NEW b \in Block, starts'[b] # starts[b],
                       NEW c \in Earlier(b), Conflict(b, c)
                PROVE  lane[c] = "ended" /\ c \notin body
    OBVIOUS
  <2>1. Call(b)
    <3>1. PICK d \in Block : Call(d)  BY Touches
    <3>. QED  BY <3>1 DEF Call, TInv, TypeOK
  <2>2. lane[c] = "ended" /\ ~aborted /\ c \in Block
    BY <2>1, Calls DEF Earlier, Blocks
  <2>3. c \notin body
    BY <2>2 DEF TInv, Running, Stopped
  <2>. QED  BY <2>2, <2>3
<1>. QED  BY <1>1, Invariant, PTL DEF Spec, ConflictsInOrder

\* A tool is called once, and never for a reply that was reset (offer, take, reset).
THEOREM CallsRunOnce == Spec => RunsOnce
<1>1. TInv /\ [Next]_vars =>
        [\A b \in Block : starts'[b] # starts[b] => starts[b] = 0 /\ of[b] \notin reset]_vars
  <2>. SUFFICES ASSUME TInv, [Next]_vars, NEW b \in Block, starts'[b] # starts[b]
                PROVE  starts[b] = 0 /\ of[b] \notin reset
    OBVIOUS
  <2>1. Call(b)
    <3>1. PICK d \in Block : Call(d)  BY Touches
    <3>. QED  BY <3>1 DEF Call, TInv, TypeOK
  <2>. QED  BY <2>1, Calls
<1>. QED  BY <1>1, Invariant, PTL DEF Spec, RunsOnce

\* The calls of a reply that is kept are answered once, those of one taken back never.
THEOREM CallsAnsweredOnce == Spec => []AnsweredOnce
<1>1. TInv => AnsweredOnce
  <2>. SUFFICES ASSUME TInv, NEW b \in Block
                PROVE  /\ answers[b] <= 1
                       /\ of[b] \in retracted \cup cut => answers[b] = 0
                       /\ of[b] > 0 /\ (of[b] < attempt \/ pc = "over")
                          /\ of[b] \notin retracted \cup cut => answers[b] = 1
    BY DEF AnsweredOnce
  <2>1. answers[b] = IF lane[b] = "ended" \/ of[b] \in reset \ retracted
                        \/ (of[b] = attempt /\ pc = "backing") THEN 1 ELSE 0
    BY DEF TInv, Answered
  <2>2. ASSUME of[b] \in retracted \cup cut PROVE answers[b] = 0
    <3>1. lane[b] # "ended"
      BY <2>2 DEF TInv, Running
    <3>2. of[b] \notin reset \ retracted
      BY <2>2 DEF TInv, Fates
    <3>3. ~(of[b] = attempt /\ pc = "backing")
      BY <2>2, Current
    <3>. QED  BY <2>1, <3>1, <3>2, <3>3
  <2>3. ASSUME of[b] > 0, of[b] < attempt \/ pc = "over", of[b] \notin retracted \cup cut
        PROVE  answers[b] = 1
    <3>1. of[b] # 0  BY <2>3 DEF TInv, TypeOK
    <3>2. of[b] \in reset \/ lane[b] = "ended"  BY <2>3, <3>1 DEF TInv, Fates
    <3>. QED  BY <2>1, <2>3, <3>2
  <2>. QED  BY <2>1, <2>2, <2>3
<1>. QED  BY <1>1, Invariant, PTL

-----------------------------------------------------------------------------
(* The order of the context *)

\* A list of a finite set of numbers in their order misses none of them.
LEMMA InOrderCovers ==
  ASSUME NEW S \in SUBSET Block, NEW q \in InOrder(S)
  PROVE  /\ q \in Seq(S) /\ DOMAIN q = 1 .. Len(q)
         /\ \A i, j \in 1 .. Len(q) : i < j => q[i] < q[j]
         /\ \A b \in S : \E i \in 1 .. Len(q) : q[i] = b
<1>. DEFINE n == Cardinality(S)
<1>1. IsFiniteSet(S) /\ n \in Nat /\ S \subseteq Nat
  <2>1. IsFiniteSet(Block) /\ Block \subseteq Nat
    <3>1. 1 \in Int /\ MaxBlocks \in Int
      BY Sizes
    <3>. QED  BY <3>1, Sizes, FS_Interval DEF Block
  <2>2. IsFiniteSet(S)
    BY <2>1, FS_Subset
  <2>. QED  BY <2>1, <2>2, FS_CardinalityType
<1>2. q \in [1 .. n -> S] /\ \A i, j \in 1 .. n : i < j => q[i] < q[j]
  BY DEF InOrder
<1>3. q \in Seq(S) /\ Len(q) = n /\ DOMAIN q = 1 .. n
  BY <1>1, <1>2
<1>4. q \in Injection(1 .. n, S)
  <2>1. ASSUME NEW i \in 1 .. n, NEW j \in 1 .. n, q[i] = q[j] PROVE i = j
    <3>1. q[i] \in Nat /\ q[j] \in Nat /\ (i < j => q[i] < q[j]) /\ (j < i => q[j] < q[i])
      BY <1>1, <1>2
    <3>2. ~(i < j) /\ ~(j < i)
      BY <2>1, <3>1
    <3>. QED  BY <1>1, <3>2
  <2>. QED  BY <1>2, <2>1 DEF Injection, IsInjective
<1>5. Cardinality(1 .. n) = n
  BY <1>1, FS_Interval
<1>6. q \in Surjection(1 .. n, S)
  BY <1>1, <1>4, <1>5, FS_Injection
<1>. QED  BY <1>2, <1>3, <1>6 DEF Surjection

\* A block whose modifier, if it has one, is in the context by now.
Through(b) ==
  /\ lane[b] = "ended"
  /\ of[b] < attempt \/ pc # "running" \/ lead[b] < cur \/ claim[b].kind = "exclusive"

Merged ==
  /\ context \in Seq(Block)
  /\ \A i, j \in DOMAIN context : i < j => context[i] < context[j]
  /\ \A i \in DOMAIN context : Through(context[i])
  /\ \A b \in brings : Through(b) => \E i \in DOMAIN context : context[i] = b

\* A step that leaves the context and the modifiers alone, and what is through.
LEMMA MergedQuiet ==
  ASSUME Merged, context' = context, brings' = brings,
         \A b \in Block : Through(b)' <=> Through(b), TInv
  PROVE  Merged'
<1>1. \A i \in DOMAIN context : context[i] \in Block
  BY DEF Merged
<1>2. brings \subseteq Block
  BY DEF TInv, TypeOK
<1>. QED  BY <1>1, <1>2 DEF Merged

\* A round runs behind all that is through: the blocks of its batch are later ones.
LEMMA Behind ==
  ASSUME TInv, pc = "running", NEW b \in Block, of[b] = attempt, lead[b] = cur,
         NEW c \in Block, Through(c), c # b
  PROVE  c < b
<1>. USE Sizes
<1>0. /\ b \in Nat /\ c \in Nat /\ lead[b] \in Nat /\ lead[c] \in Nat /\ of[c] \in Nat
      /\ attempt \in Nat /\ cur \in Nat /\ of[c] <= attempt /\ lane[c] = "ended"
  BY DEF TInv, TypeOK, Through, Numbered
<1>1. of[c] # 0 /\ lead[c] # 0 /\ of[b] # 0 /\ lead[b] # 0
  BY <1>0, Current DEF TInv, Running, Batches, Rounds, Blocks
<1>2. CASE of[c] < attempt
  <2>1. ~(b < c)
    BY <1>0, <1>1, <1>2 DEF TInv, Numbered
  <2>. QED  BY <1>0, <2>1
<1>3. CASE of[c] = attempt
  <2>1. lead[c] <= cur
    BY <1>0, <1>3 DEF TInv, Rounds, Blocks
  <2>2. CASE lead[c] < cur
    <3>1. ~(b < c)
      BY <1>0, <1>1, <1>3, <2>2 DEF TInv, Batches, Earlier, Blocks
    <3>. QED  BY <1>0, <3>1
  <2>3. CASE lead[c] = cur
    <3>1. claim[c].kind = "exclusive"
      BY <1>0, <1>3, <2>3 DEF Through
    <3>2. Conflict(b, c) /\ Conflict(c, b)
      BY <3>1 DEF Conflict, Compatible
    <3>3. b \notin Earlier(c) /\ c \notin Earlier(b)
      BY <1>1, <2>3, <3>2 DEF TInv, Batches
    <3>. QED  BY <1>0, <1>3, <3>3 DEF Earlier, Blocks
  <2>. QED  BY <1>0, <2>1, <2>2, <2>3
<1>. QED  BY <1>0, <1>2, <1>3

\* What a result adds to the context goes to its end.
LEMMA HearMerges ==
  ASSUME TInv, Merged, NEW b \in Block, Hear(b)
  PROVE  Merged'
<1>. USE Sizes
<1>1. /\ pc = "running" /\ of[b] = attempt /\ lead[b] = cur /\ lane[b] = "live"
      /\ UNCHANGED <<pc, attempt, of, lead, cur, claim, brings>>
      /\ context' = IF Applied(b) THEN Append(context, b) ELSE context
      /\ \A c \in Block : lane'[c] = IF c = b THEN "ended" ELSE lane[c]
  BY Hears DEF Hear, turnVars, replyVars, callVars
<1>2. \A c \in Block : c # b => (Through(c)' <=> Through(c))
  BY <1>1 DEF Through
<1>3. Through(b)' <=> claim[b].kind = "exclusive"
  BY <1>1 DEF Through, TInv, TypeOK
<1>4. /\ context \in Seq(Block) /\ brings \subseteq Block /\ ~Through(b)
      /\ \A i \in DOMAIN context : context[i] \in Block
  BY <1>1 DEF Merged, Through, TInv, TypeOK
<1>5. CASE Applied(b)
  <2>. DEFINE n == Len(context)
  <2>1. /\ context' \in Seq(Block) /\ n \in Nat /\ DOMAIN context = 1 .. n
        /\ DOMAIN context' = 1 .. n + 1 /\ context'[n + 1] = b
        /\ \A i \in 1 .. n : context'[i] = context[i]
    BY <1>1, <1>4, <1>5
  <2>2. ASSUME NEW i \in 1 .. n PROVE context[i] < b
    <3>1. context[i] \in Block /\ Through(context[i])
      BY <1>4, <2>1 DEF Merged
    <3>. QED  BY <1>1, <1>4, <3>1, Behind
  <2>3. \A i \in 1 .. n + 1 : i \in 1 .. n \/ i = n + 1
    BY <2>1
  <2>. HIDE DEF n
  <2>4. \A i, j \in DOMAIN context' : i < j => context'[i] < context'[j]
    <3>1. SUFFICES ASSUME NEW i \in 1 .. n + 1, NEW j \in 1 .. n + 1, i < j
                   PROVE  context'[i] < context'[j]
      BY <2>1
    <3>2. i \in 1 .. n
      BY <2>1, <3>1
    <3>. QED  BY <2>1, <2>2, <2>3, <3>1, <3>2 DEF Merged
  <2>5. Through(b)'
    BY <1>3, <1>5 DEF Applied
  <2>6. \A i \in DOMAIN context' : Through(context[i])'
    <3>1. SUFFICES ASSUME NEW i \in 1 .. n + 1 PROVE Through(context[i])'
      BY <2>1
    <3>2. CASE i = n + 1
      BY <2>1, <2>5, <3>2 DEF Through
    <3>3. CASE i \in 1 .. n
      <4>1. context[i] \in Block /\ Through(context[i]) /\ context[i] # b
        BY <1>4, <2>1, <3>3 DEF Merged
      <4>2. lane'[context[i]] = lane[context[i]]
        BY <1>1, <4>1
      <4>. QED  BY <1>1, <2>1, <3>3, <4>1, <4>2 DEF Through
    <3>. QED  BY <2>3, <3>2, <3>3
  <2>7. \A c \in brings : Through(c)' => \E i \in DOMAIN context' : context'[i] = c
    <3>1. SUFFICES ASSUME NEW c \in brings, Through(c)'
                   PROVE  \E i \in 1 .. n + 1 : context'[i] = c
      BY <2>1
    <3>2. CASE c = b
      BY <2>1, <3>2
    <3>3. CASE c # b
      <4>1. PICK i \in 1 .. n : context[i] = c
        BY <1>2, <1>4, <2>1, <3>1, <3>3 DEF Merged
      <4>. QED  BY <2>1, <4>1
    <3>. QED  BY <3>2, <3>3
  <2>. QED  BY <1>1, <2>1, <2>4, <2>6, <2>7 DEF Merged
<1>6. CASE ~Applied(b)
  <2>1. b \in brings => ~Through(b)'
    BY <1>3, <1>6 DEF Applied
  <2>. QED  BY <1>1, <1>2, <1>4, <1>6, <2>1 DEF Merged
<1>. QED  BY <1>5, <1>6

\* What a batch has queued goes to the end of the context, in its order.
LEMMA EndMerges ==
  ASSUME TInv, Merged, EndBatch
  PROVE  Merged'
<1>. USE Sizes
<1>1. /\ pc = "running" /\ UNCHANGED <<of, lead, lane, claim, brings>>
      /\ \A b \in Batch(cur) : lane[b] = "ended"
  BY DEF EndBatch, replyVars, callVars
<1>2. PICK q \in InOrder(Queued) : context' = context \o q
  BY DEF EndBatch
<1>3. Queued \in SUBSET Block
  BY DEF Queued, Batch, Blocks
<1>. DEFINE n == Len(context)
            m == Len(q)
<1>4. /\ q \in Seq(Queued) /\ DOMAIN q = 1 .. m
      /\ \A i, j \in 1 .. m : i < j => q[i] < q[j]
      /\ \A b \in Queued : \E i \in 1 .. m : q[i] = b
  BY <1>2, <1>3, InOrderCovers
<1>5. /\ context \in Seq(Block) /\ q \in Seq(Block) /\ n \in Nat /\ m \in Nat
      /\ DOMAIN context = 1 .. n /\ \A i \in 1 .. n : context[i] \in Block
      /\ \A i \in 1 .. m : q[i] \in Queued
  <2>1. context \in Seq(Block) /\ q \in Seq(Block)
    BY <1>3, <1>4, SeqMonotonic DEF Merged
  <2>2. n \in Nat /\ m \in Nat /\ DOMAIN context = 1 .. n
    BY <2>1
  <2>3. \A i \in 1 .. n : context[i] \in Block
    BY <2>1
  <2>4. \A i \in 1 .. m : q[i] \in Queued
    BY <1>4, ElementOfSeq
  <2>. QED  BY <2>1, <2>2, <2>3, <2>4
<1>6. /\ context' \in Seq(Block) /\ DOMAIN context' = 1 .. n + m
      /\ \A i \in 1 .. n : context'[i] = context[i]
      /\ \A i \in 1 .. m : context'[n + i] = q[i]
  <2>1. context' \in Seq(Block) /\ Len(context') = n + m
    BY <1>2, <1>5, ConcatProperties
  <2>2. \A i \in 1 .. n + m : context'[i] = IF i <= n THEN context[i] ELSE q[i - n]
    BY <1>2, <1>5, ConcatProperties
  <2>3. \A i \in 1 .. m : n + i \in 1 .. n + m /\ ~(n + i <= n) /\ (n + i) - n = i
    BY <1>5
  <2>4. \A i \in 1 .. n : i \in 1 .. n + m /\ i <= n
    BY <1>5
  <2>. HIDE DEF n, m
  <2>. QED  BY <2>1, <2>2, <2>3, <2>4 DEF n, m
<1>7. \A i \in 1 .. n + m : i \in 1 .. n \/ \E j \in 1 .. m : i = n + j
  <2>1. ASSUME NEW i \in 1 .. n + m, i \notin 1 .. n PROVE i - n \in 1 .. m /\ i = n + (i - n)
    BY <1>5, <2>1
  <2>. QED  BY <2>1
<1>. HIDE DEF n, m
\* After the step all that has ended is through; before it, all but the batch was.
<1>8. \A b \in Block : lane[b] = "ended" => Through(b)'
  <2>1. SUFFICES ASSUME NEW b \in Block, lane[b] = "ended" PROVE Through(b)'
    OBVIOUS
  <2>2. /\ of[b] \in Nat /\ attempt \in Nat /\ of[b] <= attempt /\ lead[b] \in Nat /\ cur \in Nat
        /\ of[b] = attempt => lead[b] <= cur
    BY <1>1, <2>1 DEF TInv, TypeOK, Numbered, Rounds, Blocks
  <2>3. CASE pc' = "over" \/ (pc' = "asking" /\ attempt' = attempt + 1)
    BY <1>1, <2>1, <2>3 DEF Through
  <2>4. CASE attempt' = attempt /\ cur' \in Blocks(attempt) /\ cur' > cur
    BY <1>1, <2>1, <2>2, <2>4 DEF Through, Blocks
  <2>. QED  BY <2>3, <2>4, Ends
<1>9. \A b \in brings : lane[b] = "ended" => Through(b) \/ b \in Queued
  <2>1. SUFFICES ASSUME NEW b \in brings, lane[b] = "ended", ~Through(b) PROVE b \in Queued
    OBVIOUS
  <2>2. /\ b \in Block /\ of[b] \in Nat /\ attempt \in Nat /\ of[b] <= attempt
        /\ lead[b] \in Nat /\ cur \in Nat
    BY DEF TInv, TypeOK, Numbered
  <2>3. of[b] = attempt /\ ~(lead[b] < cur) /\ ~Applied(b)
    BY <1>1, <2>1, <2>2 DEF Through, Applied
  <2>4. lead[b] <= cur
    BY <1>1, <2>1, <2>2, <2>3 DEF TInv, Rounds, Blocks
  <2>. QED  BY <2>1, <2>2, <2>3, <2>4 DEF Queued, Batch, Blocks
<1>10. \A b \in Queued : /\ b \in Block /\ lane[b] = "ended" /\ of[b] = attempt /\ lead[b] = cur
                         /\ ~Through(b)
  BY <1>1 DEF Queued, Batch, Blocks, Applied, Through, TInv, TypeOK
<1>11. \A i \in 1 .. n, j \in 1 .. m : context[i] < q[j]
  <2>1. SUFFICES ASSUME NEW i \in 1 .. n, NEW j \in 1 .. m PROVE context[i] < q[j]
    OBVIOUS
  <2>2. q[j] \in Queued /\ context[i] \in Block /\ Through(context[i])
    BY <1>5 DEF Merged
  <2>. QED  BY <1>1, <1>10, <2>2, Behind
<1>12. \A i, j \in DOMAIN context' : i < j => context'[i] < context'[j]
  <2>1. SUFFICES ASSUME NEW i \in 1 .. n + m, NEW j \in 1 .. n + m, i < j
                 PROVE  context'[i] < context'[j]
    BY <1>6
  <2>2. CASE i \in 1 .. n /\ j \in 1 .. n
    BY <1>5, <1>6, <2>1, <2>2 DEF Merged
  <2>3. ASSUME i \in 1 .. n, NEW k \in 1 .. m, j = n + k PROVE context'[i] < context'[j]
    BY <1>6, <1>11, <2>3
  <2>4. ASSUME NEW h \in 1 .. m, i = n + h, NEW k \in 1 .. m, j = n + k
        PROVE  context'[i] < context'[j]
    <3>1. h < k
      BY <1>5, <2>1, <2>4
    <3>. QED  BY <1>4, <1>6, <2>4, <3>1
  <2>5. ASSUME NEW h \in 1 .. m, i = n + h, j \in 1 .. n PROVE FALSE
    BY <1>5, <2>1, <2>5
  <2>. QED  BY <1>7, <2>2, <2>3, <2>4, <2>5
<1>13. \A i \in DOMAIN context' : Through(context[i])'
  <2>1. \A i \in 1 .. n : lane[context'[i]] = "ended" /\ context'[i] \in Block
    BY <1>5, <1>6 DEF Merged, Through
  <2>2. \A j \in 1 .. m : lane[context'[n + j]] = "ended" /\ context'[n + j] \in Block
    BY <1>5, <1>6, <1>10
  <2>3. ASSUME NEW i \in 1 .. n + m
        PROVE  context'[i] \in Block /\ lane[context'[i]] = "ended"
    <3>1. CASE i \in 1 .. n
      BY <2>1, <3>1
    <3>2. ASSUME NEW j \in 1 .. m, i = n + j
          PROVE  context'[i] \in Block /\ lane[context'[i]] = "ended"
      BY <2>2, <3>2
    <3>. QED  BY <1>7, <3>1, <3>2
  <2>4. ASSUME NEW c \in Block, lane[c] = "ended", NEW i, context'[i] = c PROVE Through(context[i])'
    BY <1>8, <2>4 DEF Through
  <2>. QED  BY <1>6, <2>3, <2>4
<1>14. \A b \in brings : Through(b)' => \E i \in DOMAIN context' : context'[i] = b
  <2>1. SUFFICES ASSUME NEW b \in brings, Through(b)'
                 PROVE  \E i \in 1 .. n + m : context'[i] = b
    BY <1>6
  <2>2. lane[b] = "ended"
    BY <1>1, <2>1 DEF Through
  <2>3. CASE Through(b)
    <3>1. PICK i \in 1 .. n : context[i] = b
      BY <1>5, <2>3 DEF Merged
    <3>. QED  BY <1>5, <1>6, <3>1
  <2>4. CASE b \in Queued
    <3>1. PICK i \in 1 .. m : q[i] = b
      BY <1>4, <2>4
    <3>2. n + i \in 1 .. n + m
      BY <1>5
    <3>. QED  BY <1>6, <3>1, <3>2
  <2>. QED  BY <1>9, <2>2, <2>3, <2>4
<1>. QED  BY <1>1, <1>6, <1>12, <1>13, <1>14 DEF Merged

LEMMA MergedStep == TInv /\ Merged /\ [Next]_vars => Merged'
<1>. SUFFICES ASSUME TInv, Merged, [Next]_vars PROVE Merged'
  OBVIOUS
<1>. USE Sizes
<1>0. /\ claim' = claim /\ brings \subseteq Block /\ attempt \in Nat
      /\ \A b \in Block : of[b] \in Nat /\ of[b] <= attempt
  BY Touches DEF TInv, TypeOK, Numbered
<1>1. CASE UNCHANGED <<pc, attempt, of, lane, lead, cur, context, brings>>
  <2>1. \A b \in Block : Through(b)' <=> Through(b)
    BY <1>0, <1>1 DEF Through
  <2>. QED  BY <1>1, <2>1, MergedQuiet
<1>2. ASSUME NEW b \in Block, Return(b) PROVE Merged'
  <2>1. /\ UNCHANGED <<pc, attempt, of, lane, lead, cur, context>>
        /\ brings' = brings \cup {b} /\ step[b] = "calling"
    BY <1>2 DEF Return, turnVars, replyVars, roundVars
  <2>2. \A c \in Block : Through(c)' <=> Through(c)
    BY <1>0, <2>1 DEF Through
  <2>3. ~Through(b)
    BY <2>1 DEF Through, TInv, Running
  <2>4. \A i \in DOMAIN context : context[i] \in Block
    BY DEF Merged
  <2>. QED  BY <1>0, <2>1, <2>2, <2>3, <2>4 DEF Merged
<1>3. ASSUME NEW b \in Block, Begin(b) PROVE Merged'
  <2>1. UNCHANGED <<pc, attempt, of, lead, cur, context, brings>>
    BY <1>3 DEF Begin, turnVars, replyVars
  <2>2. \A c \in Block : Through(c)' <=> Through(c)
    BY <1>0, <1>3, <2>1, Begins DEF Through
  <2>. QED  BY <2>1, <2>2, MergedQuiet
<1>4. ASSUME NEW b \in Block, Hear(b) PROVE Merged'
  BY <1>4, HearMerges
<1>5. CASE EndBatch
  BY <1>5, EndMerges
\* Outside a round every block that has ended is one of an earlier reply.
<1>6. ASSUME pc \notin {"running", "over"}, UNCHANGED <<lane, context, brings>>,
             attempt' \in {attempt, attempt + 1},
             \A b \in Block : of[b] # 0 => of'[b] = of[b]
      PROVE  Merged'
  <2>1. ASSUME NEW b \in Block, lane[b] = "ended" PROVE of[b] < attempt /\ of[b] # 0
    <3>1. of[b] # attempt
      BY <1>6, <2>1, Current DEF TInv, TypeOK, Blocks
    <3>2. of[b] # 0
      BY <2>1 DEF TInv, Running, Batches
    <3>. QED  BY <1>0, <3>1, <3>2
  <2>2. \A b \in Block : Through(b)' <=> Through(b)
    BY <1>0, <1>6, <2>1 DEF Through
  <2>. QED  BY <1>6, <2>2, MergedQuiet
<1>7. CASE Stream
  <2>1. pc = "streaming" /\ UNCHANGED <<lane, context, brings, attempt>>
    BY <1>7 DEF Stream, turnVars, callVars, roundVars
  <2>. QED  BY <1>6, <1>7, <2>1, Streams
<1>8. ASSUME NEW b \in Block, Sort(b) PROVE Merged'
  BY <1>6, <1>8 DEF Sort, replyVars, callVars
<1>9. CASE Ask \/ Retract \/ BackUp \/ CutShort \/ StreamEnds
  BY <1>6, <1>9 DEF Ask, Retract, BackUp, CutShort, StreamEnds, replyVars, callVars, roundVars
<1>10. CASE Retry \/ StreamDies
  BY <1>6, <1>10 DEF Retry, StreamDies, replyVars, roundVars
<1>11. CASE \E g \in Gate : Pause(g) \/ Reopen(g)
  BY <1>1, <1>11 DEF Pause, Reopen, turnVars, replyVars, callVars, roundVars
<1>12. CASE \E b \in Block : Park(b) \/ Pass(b) \/ Refuse(b) \/ Call(b) \/ Abandon(b) \/ Late(b) \/ Admit(b)
  BY <1>1, <1>12 DEF Park, Pass, Refuse, Call, Abandon, Late, Admit, turnVars, replyVars, roundVars
<1>13. CASE Interrupt
  BY <1>1, <1>13 DEF Interrupt, replyVars, roundVars
<1>14. CASE UNCHANGED vars
  BY <1>1, <1>14 DEF vars, turnVars, replyVars, callVars, roundVars
<1>. QED
  BY <1>2, <1>3, <1>4, <1>5, <1>7, <1>8, <1>9, <1>10, <1>11, <1>12, <1>13, <1>14 DEF Next

\* The modifiers of the calls reach the context in the order of the calls, each once and
\* none left out, though their results arrive in any order, some before others began.
THEOREM ContextKeepsOrder == Spec => []ContextInOrder
<1>1. Init => Merged
  BY DEF Init, Merged
<1>2. TInv /\ Merged => ContextInOrder
  BY DEF Merged, ContextInOrder, Through
<1>. QED  BY <1>1, <1>2, MergedStep, Invariant, PTL DEF Spec
=============================================================================
