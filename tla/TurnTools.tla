----------------------------- MODULE TurnTools -----------------------------
(***************************************************************************)
(* The tool calls of one turn: replies that stream in, are retracted,      *)
(* settled for a backup engine, cut or kept; the calls of a reply that     *)
(* start early, while it still streams; the batches of the round behind    *)
(* it; the pause gates every call passes; and the interrupt.               *)
(*                                                                         *)
(* A block is a tool call, numbered as it came.  `attempt` is the reply    *)
(* under way, `of` the reply of a block.  `step` is where a call is,       *)
(* whether it started early or in its batch; `at` the gate it is parked    *)
(* at; `body` the calls whose tool is at work, which may outlive a call    *)
(* that was abandoned.  `lane` is the generator of a block in its batch,   *)
(* and a batch goes by its first block (`lead`).                           *)
(***************************************************************************)
EXTENDS Integers, Sequences, FiniteSets

CONSTANTS
  Path,         \* the canonical paths that calls claim
  Overlap,      \* the pairs of paths of which one is, or holds, the other
  None,         \* no path, no gate
  Cap,          \* DEFAULT_MAX_TOOL_USE_CONCURRENCY
  MaxBlocks,    \* bound: calls in the turn
  MaxAttempts,  \* bound: replies in the turn
  Script        \* what the model may ask for: the claims of its calls

Block == 1 .. MaxBlocks
Reply == 1 .. MaxAttempts
Gate  == {"operator", "run"}

\* A BatchClaim; crew: the call launches a crewmate.
Claim == [kind : {"exclusive", "free", "reads", "writes"}, path : Path \cup {None}, crew : BOOLEAN]

ASSUME ToolsAssumption ==
  /\ Script \subseteq [Block -> Claim]
  /\ Overlap \subseteq Path \X Path
  /\ \A p, q \in Path : <<p, q>> \in Overlap => <<q, p>> \in Overlap
  /\ None \notin Path \cup Gate
  /\ Cap \in Nat \ {0}
  /\ MaxBlocks \in Nat /\ MaxAttempts \in Nat \ {0}

VARIABLES
  pc,         \* the turn: asking, streaming, retracting, backing, sorting, running, over
  attempt,    \* the reply under way
  retracted,  \* replies taken back from the transcript
  cut,        \* replies taken back because a call in them was cut short
  reset,      \* replies whose early starts were reset
  aborted,    \* the turn's abort signal
  closed,     \* the gates that hold the key of this seat
  streamed,   \* blocks so far
  of, claim,  \* per block: its reply and its claim
  offer,      \* per block: none, queued, passed, started, taken
  step, at,   \* per block: idle, checking (parked at a gate), deciding, calling, done
  stopped,    \* blocks whose own abort signal a reset has fired
  body,       \* blocks whose tool is at work
  starts,     \* per block: how often its tool was called
  brings,     \* blocks whose result came with a context modifier
  lead,       \* per block: the first of its batch, 0 before it is sorted
  lane,       \* per block: off, live, ended
  cur,        \* the batch under way
  answers,    \* per block: results in the transcript
  context     \* the modifiers applied to the context, in their order

turnVars  == <<pc, attempt, retracted, cut, reset, aborted>>
replyVars == <<streamed, of, claim>>
callVars  == <<step, at, stopped, body, starts, brings>>
roundVars == <<lead, lane, cur, answers, context>>

vars == <<turnVars, closed, replyVars, offer, callVars, roundVars>>

----------------------------------------------------------------------------
(* Claims *)

\* claimsCompatible
Compatible(a, b) ==
  /\ "exclusive" \notin {a.kind, b.kind}
  /\ "writes" \in {a.kind, b.kind} =>
       "free" \notin {a.kind, b.kind} /\ <<a.path, b.path>> \notin Overlap

Conflict(b, c) == ~Compatible(claim[b], claim[c])

Blocks(k)  == {b \in Block : of[b] = k}
Earlier(b) == {c \in Blocks(of[b]) : c < b}

----------------------------------------------------------------------------
Init ==
  /\ pc = "asking" /\ attempt = 1 /\ retracted = {} /\ cut = {} /\ reset = {}
  /\ aborted = FALSE
  /\ closed = {}
  /\ streamed = 0
  /\ of = [b \in Block |-> 0]
  /\ claim \in Script
  /\ offer = [b \in Block |-> "none"]
  /\ step = [b \in Block |-> "idle"]
  /\ at = [b \in Block |-> None]
  /\ stopped = {} /\ body = {} /\ brings = {}
  /\ starts = [b \in Block |-> 0]
  /\ lead = [b \in Block |-> 0]
  /\ lane = [b \in Block |-> "off"]
  /\ cur = 0
  /\ answers = [b \in Block |-> 0]
  /\ context = <<>>

----------------------------------------------------------------------------
(* The pause gates *)

\* The gate a call meets first: the operator's, then the run's own.
Holding == IF "operator" \in closed THEN "operator"
           ELSE IF "run" \in closed THEN "run" ELSE None

\* Those a gate lets go, as it would be if it let go the first only, and as it is.
ReleasedFirst(g) == {b \in Block : at[b] = g /\ \A c \in Block : at[c] = g => b <= c}
Released(g)      == {b \in Block : at[b] = g}

Pause(g) ==
  /\ g \notin closed
  /\ closed' = closed \cup {g}
  /\ UNCHANGED <<turnVars, replyVars, offer, callVars, roundVars>>

\* resume, or lift for the key of this seat, which a resume and a pause take back.
Reopen(g) ==
  /\ g \in closed
  /\ closed' = closed \ {g}
  /\ at' = [b \in Block |-> IF b \in Released(g) THEN None ELSE at[b]]
  /\ UNCHANGED <<turnVars, replyVars, offer, step, stopped, body, starts, brings, roundVars>>

----------------------------------------------------------------------------
(* One call: parkBeforeTool and runToolUse *)

Stopped(b) == aborted \/ b \in stopped

Park(b) ==
  /\ step[b] = "checking" /\ at[b] = None
  /\ Holding # None /\ ~Stopped(b)
  /\ at' = [at EXCEPT ![b] = Holding]
  /\ UNCHANGED <<turnVars, closed, replyVars, offer, step, stopped, body, starts, brings, roundVars>>

\* Its fault: a gate that holds a call whose signal has fired.
FreeWhenOpen(b) == Holding = None
Free(b)         == Holding = None \/ Stopped(b)

Pass(b) ==
  /\ step[b] = "checking" /\ at[b] = None
  /\ Free(b)
  /\ step' = [step EXCEPT ![b] = "deciding"]
  /\ UNCHANGED <<turnVars, closed, replyVars, offer, at, stopped, body, starts, brings, roundVars>>

\* An interrupt result, or a refusal by a hook, a rule or the operator.
Refuse(b) ==
  /\ step[b] = "deciding"
  /\ step' = [step EXCEPT ![b] = "done"]
  /\ UNCHANGED <<turnVars, closed, replyVars, offer, at, stopped, body, starts, brings, roundVars>>

\* The tool is called, the signal looked at once more behind hooks and ask.
Call(b) ==
  /\ step[b] = "deciding" /\ ~Stopped(b)
  /\ step' = [step EXCEPT ![b] = "calling"]
  /\ body' = body \cup {b}
  /\ starts' = [starts EXCEPT ![b] = @ + 1]
  /\ UNCHANGED <<turnVars, closed, replyVars, offer, at, stopped, brings, roundVars>>

Return(b) ==
  /\ step[b] = "calling"
  /\ step' = [step EXCEPT ![b] = "done"]
  /\ body' = body \ {b} /\ brings' = brings \cup {b}
  /\ UNCHANGED <<turnVars, closed, replyVars, offer, at, stopped, starts, roundVars>>

\* settleUnderAbort: TOOL_ABORT_GRACE_MS after the signal the call is abandoned.
Abandon(b) ==
  /\ step[b] = "calling" /\ Stopped(b)
  /\ step' = [step EXCEPT ![b] = "done"]
  /\ UNCHANGED <<turnVars, closed, replyVars, offer, at, stopped, body, starts, brings, roundVars>>

\* The late result of an abandoned call is dropped.
Late(b) ==
  /\ b \in body /\ step[b] = "done"
  /\ body' = body \ {b}
  /\ UNCHANGED <<turnVars, closed, replyVars, offer, step, at, stopped, starts, brings, roundVars>>

----------------------------------------------------------------------------
(* EarlyStarts *)

\* Early as it would be if a call was held against the calls at work only.
EarlyBesideRunning(b) ==
  /\ claim[b].kind \in {"free", "reads"} /\ ~claim[b].crew
  /\ \A c \in Earlier(b) \cap body : ~Conflict(c, b)

Early(b) ==
  /\ claim[b].kind \in {"free", "reads"} /\ ~claim[b].crew
  /\ \A c \in Earlier(b) : ~Conflict(c, b)

\* Stale as it would be if an offer did not remember the generation it came in.
StaleNever(b) == FALSE
Stale(b)      == of[b] \in reset

\* offer, behind its await: an offer from before a reset is let go.
Admit(b) ==
  /\ offer[b] = "queued"
  /\ \A c \in Earlier(b) : offer[c] # "queued"
  /\ IF ~Stale(b) /\ Early(b)
     THEN offer' = [offer EXCEPT ![b] = "started"] /\ step' = [step EXCEPT ![b] = "checking"]
     ELSE offer' = [offer EXCEPT ![b] = "passed"] /\ UNCHANGED step
  /\ UNCHANGED <<turnVars, closed, replyVars, at, stopped, body, starts, brings, roundVars>>

\* The calls started early for reply k are told to stop, and leave the gates.
Reset(k) ==
  LET told == {b \in Blocks(k) : offer[b] = "started"}
  IN  /\ reset' = reset \cup {k}
      /\ stopped' = stopped \cup told
      /\ at' = [b \in Block |-> IF b \in told THEN None ELSE at[b]]

----------------------------------------------------------------------------
(* streamModel: the reply comes in *)

\* The operator's gate holds the model's call too; an interrupt leads on as well.
Ask ==
  /\ pc = "asking" /\ ("operator" \notin closed \/ aborted)
  /\ pc' = "streaming"
  /\ UNCHANGED <<attempt, retracted, cut, reset, aborted, closed, replyVars, offer, callVars, roundVars>>

Stream ==
  /\ pc = "streaming" /\ streamed < MaxBlocks
  /\ streamed' = streamed + 1
  /\ of' = [of EXCEPT ![streamed + 1] = attempt]
  /\ offer' = [offer EXCEPT ![streamed + 1] = "queued"]
  /\ UNCHANGED <<turnVars, closed, claim, callVars, roundVars>>

\* emitSyntheticSettlements; its fault: the calls that have started are left to themselves.
SettleUnstarted(k) ==
  answers' = [b \in Block |-> IF of[b] = k /\ offer[b] # "started" THEN answers[b] + 1 ELSE answers[b]]
Settle(k) == answers' = [b \in Block |-> IF of[b] = k THEN answers[b] + 1 ELSE answers[b]]

\* onStreamingFallback: the provider begins the reply anew.
Retract ==
  /\ pc = "streaming" /\ attempt < MaxAttempts
  /\ pc' = "retracting" /\ retracted' = retracted \cup {attempt}
  /\ UNCHANGED <<attempt, cut, reset, aborted, closed, replyVars, offer, callVars, roundVars>>

\* FallbackTriggeredError: the calls are answered, and a backup engine is asked.
BackUp ==
  /\ pc = "streaming" /\ attempt < MaxAttempts
  /\ pc' = "backing" /\ Settle(attempt)
  /\ UNCHANGED <<attempt, retracted, cut, reset, aborted, closed, replyVars, offer, callVars,
                 lead, lane, cur, context>>

\* resetForRetry, behind the events of either.
Retry ==
  /\ pc \in {"retracting", "backing"}
  /\ pc' = IF pc = "retracting" THEN "streaming" ELSE "asking"
  /\ attempt' = attempt + 1
  /\ Reset(attempt)
  /\ UNCHANGED <<retracted, cut, aborted, closed, replyVars, offer, step, body, starts, brings, roundVars>>

\* A fault of the stream, or its end under an interrupt: the turn is over.
StreamDies ==
  /\ pc = "streaming"
  /\ pc' = "over"
  /\ Reset(attempt) /\ Settle(attempt)
  /\ UNCHANGED <<attempt, retracted, cut, aborted, closed, replyVars, offer, step, body, starts,
                 brings, lead, lane, cur, context>>

\* The reply was cut inside a call: taken back and asked again, with nothing reset.
CutShort ==
  /\ pc = "streaming" /\ ~aborted /\ attempt < MaxAttempts
  /\ pc' = "asking" /\ attempt' = attempt + 1 /\ cut' = cut \cup {attempt}
  /\ UNCHANGED <<retracted, reset, aborted, closed, replyVars, offer, callVars, roundVars>>

StreamEnds ==
  /\ pc = "streaming" /\ ~aborted
  /\ pc' = IF Blocks(attempt) = {} THEN "over" ELSE "sorting"
  /\ UNCHANGED <<attempt, retracted, cut, reset, aborted, closed, replyVars, offer, callVars, roundVars>>

----------------------------------------------------------------------------
(* runTools: the round *)

\* Ready as it would be if the round did not wait for the offers under way.
ReadyAtOnce == TRUE
Ready       == \A b \in Blocks(attempt) : offer[b] # "queued"

\* The batch of block c, as far as it is sorted.
Batch(c) == {b \in Blocks(attempt) : lead[b] = c}

\* Joins as it would be if a call was held against the last of the batch only.
JoinsLast(b, c) == claim[b].kind # "exclusive" /\ claim[c].kind # "exclusive" /\ ~Conflict(b - 1, b)

Joins(b, c) ==
  /\ claim[b].kind # "exclusive" /\ claim[c].kind # "exclusive"
  /\ \A held \in Batch(c) : ~Conflict(held, b)

\* One block joins the last batch or opens another; behind the last the round runs.
Sort(b) ==
  /\ pc = "sorting" /\ Ready
  /\ of[b] = attempt /\ lead[b] = 0 /\ \A c \in Earlier(b) : lead[c] # 0
  /\ lead' = [lead EXCEPT ![b] =
       IF Earlier(b) # {} /\ Joins(b, lead[b - 1]) THEN lead[b - 1] ELSE b]
  /\ cur' = IF Earlier(b) = {} THEN b ELSE cur
  /\ pc' = IF b = streamed THEN "running" ELSE pc
  /\ UNCHANGED <<attempt, retracted, cut, reset, aborted, closed, replyVars, offer, callVars,
                 lane, answers, context>>

\* all() starts the next generator in order: the call taken from its early start, or new.
Begin(b) ==
  /\ pc = "running" /\ b \in Batch(cur) /\ lane[b] = "off"
  /\ \A c \in Batch(cur) : c < b => lane[c] # "off"
  /\ Cardinality({c \in Batch(cur) : lane[c] = "live"}) < Cap
  /\ lane' = [lane EXCEPT ![b] = "live"]
  /\ IF offer[b] = "started"
     THEN offer' = [offer EXCEPT ![b] = "taken"] /\ UNCHANGED step
     ELSE step' = [step EXCEPT ![b] = "checking"] /\ UNCHANGED offer
  /\ UNCHANGED <<turnVars, closed, replyVars, at, stopped, body, starts, brings,
                 lead, cur, answers, context>>

\* The result reaches the transcript; outside a concurrent batch its modifier applies at once.
AppliedAtOnce(b) == b \in brings
Applied(b)       == b \in brings /\ claim[b].kind = "exclusive"

Hear(b) ==
  /\ lane[b] = "live" /\ step[b] = "done"
  /\ lane' = [lane EXCEPT ![b] = "ended"]
  /\ answers' = [answers EXCEPT ![b] = @ + 1]
  /\ context' = IF Applied(b) THEN Append(context, b) ELSE context
  /\ UNCHANGED <<turnVars, closed, replyVars, offer, callVars, lead, cur>>

\* The modifiers a concurrent batch has queued, and a set of blocks in their order.
Queued     == {b \in Batch(cur) \cap brings : ~Applied(b)}
InOrder(S) == {q \in [1 .. Cardinality(S) -> S] : \A i, j \in DOMAIN q : i < j => q[i] < q[j]}

\* The batch is through: the next one, or behind the last the next reply, or the end,
\* for an interrupt, a hook or the loop guard.
EndBatch ==
  LET later == {b \in Blocks(attempt) : b > cur /\ lead[b] = b}
  IN  /\ pc = "running" /\ \A b \in Batch(cur) : lane[b] = "ended"
      /\ \E q \in InOrder(Queued) : context' = context \o q
      /\ \/ /\ \E b \in later : cur' = b /\ \A c \in later : b <= c
            /\ UNCHANGED <<pc, attempt>>
         \/ /\ later = {} /\ cur' = 0
            /\ \/ pc' = "over" /\ UNCHANGED attempt
               \/ /\ ~aborted /\ attempt < MaxAttempts
                  /\ pc' = "asking" /\ attempt' = attempt + 1
      /\ UNCHANGED <<retracted, cut, reset, aborted, closed, replyVars, offer, callVars,
                     lead, lane, answers>>

----------------------------------------------------------------------------
\* The abort signal reaches every call, and every call that is parked goes on.
Interrupt ==
  /\ pc # "over" /\ ~aborted
  /\ aborted' = TRUE
  /\ at' = [b \in Block |-> None]
  /\ UNCHANGED <<pc, attempt, retracted, cut, reset, closed, replyVars, offer, step, stopped,
                 body, starts, brings, roundVars>>

Next ==
  \/ \E g \in Gate : Pause(g) \/ Reopen(g)
  \/ \E b \in Block : \/ Park(b) \/ Pass(b) \/ Refuse(b) \/ Call(b)
                      \/ Return(b) \/ Abandon(b) \/ Late(b)
                      \/ Admit(b) \/ Sort(b) \/ Begin(b) \/ Hear(b)
  \/ Ask \/ Stream \/ Retract \/ BackUp \/ Retry \/ StreamDies \/ CutShort \/ StreamEnds
  \/ EndBatch \/ Interrupt

Spec == Init /\ [][Next]_vars

\* Continuations run, and an interrupt is answered: by the stream, by an ask that is
\* waiting, by the grace of a call.  No tool has to return, no operator to answer.
Fairness ==
  /\ \A b \in Block :
       /\ WF_vars(Park(b) \/ Pass(b)) /\ WF_vars(Stopped(b) /\ Refuse(b)) /\ WF_vars(Abandon(b))
       /\ WF_vars(Admit(b)) /\ WF_vars(Sort(b)) /\ WF_vars(Begin(b)) /\ WF_vars(Hear(b))
  /\ WF_vars(Retry) /\ WF_vars(EndBatch)
  /\ WF_vars(aborted /\ (Ask \/ StreamDies))

FairSpec == Spec /\ Fairness

----------------------------------------------------------------------------
(* Properties *)

TypeOK ==
  /\ pc \in {"asking", "streaming", "retracting", "backing", "sorting", "running", "over"}
  /\ attempt \in Reply /\ retracted \subseteq Reply /\ cut \subseteq Reply /\ reset \subseteq Reply
  /\ aborted \in BOOLEAN
  /\ closed \subseteq Gate
  /\ streamed \in 0 .. MaxBlocks
  /\ of \in [Block -> 0 .. MaxAttempts] /\ claim \in [Block -> Claim]
  /\ offer \in [Block -> {"none", "queued", "passed", "started", "taken"}]
  /\ step \in [Block -> {"idle", "checking", "deciding", "calling", "done"}]
  /\ at \in [Block -> Gate \cup {None}]
  /\ stopped \subseteq Block /\ body \subseteq Block /\ brings \subseteq Block
  /\ starts \in [Block -> 0 .. 1]
  /\ lead \in [Block -> 0 .. MaxBlocks] /\ cur \in 0 .. MaxBlocks
  /\ lane \in [Block -> {"off", "live", "ended"}]
  /\ answers \in [Block -> 0 .. 1]

\* Two calls whose claims conflict are never at work together, whether they started
\* early or in their batch; a call whose reply was dropped runs out by itself.
ConflictsApart ==
  \A b, c \in body : b # c /\ Conflict(b, c) => {of[b], of[c]} \cap (reset \cup cut) # {}

\* A tool is called only when every earlier call of its reply that it conflicts with
\* has been answered and is no longer at work: early starts overtake nothing.
ConflictsInOrder ==
  [][\A b \in Block : starts'[b] # starts[b] =>
       \A c \in Earlier(b) : Conflict(b, c) => lane[c] = "ended" /\ c \notin body]_vars

\* A call's tool is called at most once, early or in the round, in a reply that has
\* not been reset.
RunsOnce ==
  [][\A b \in Block : starts'[b] # starts[b] => starts[b] = 0 /\ of[b] \notin reset]_vars

\* Every call of a reply that stays in the transcript has one result in it when the
\* turn goes on or ends, interrupted or not; a call of a reply taken back has none.
AnsweredOnce ==
  \A b \in Block :
    /\ answers[b] <= 1
    /\ of[b] \in retracted \cup cut => answers[b] = 0
    /\ of[b] > 0 /\ (of[b] < attempt \/ pc = "over") /\ of[b] \notin retracted \cup cut
         => answers[b] = 1

\* The modifiers of a round are applied in the order of its calls, each once.
ContextInOrder ==
  /\ context \in Seq(Block)
  /\ \A i, j \in DOMAIN context : i < j => context[i] < context[j]
  /\ \A b \in brings : lane[b] = "ended" /\ of[b] < attempt => \E i \in DOMAIN context : context[i] = b

\* An interrupt ends the turn, with a gate closed, a tool that hangs or an ask open.
AbortEnds == aborted ~> pc = "over"

\* Nobody is left behind at a gate that was opened.
NobodyForgotten == \A b \in Block : []<>(Holding # None \/ step[b] # "checking")

============================================================================
