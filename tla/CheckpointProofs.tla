-------------------------- MODULE CheckpointProofs --------------------------
(***************************************************************************)
(* Theorems about CheckpointWorker for any goals, workers, quotes, lease   *)
(* length and bounds.  The handler leaves the queue a queue, so that every *)
(* theorem of WorkQueueProofs carries over; on top of it the decisions are *)
(* shown to be sound, by the inductive invariant DecisionsSound.           *)
(***************************************************************************)
EXTENDS CheckpointWorker, WorkQueueProofs, FiniteSetTheorems

-----------------------------------------------------------------------------
\* A handle() call moves nothing of the queue, or returns, or throws.
LEMMA HandleStepIsQueueStep ==
    ASSUME NEW w \in Workers, HandleStep(w)
    PROVE  HandlerStep(w) \/ UNCHANGED vars
<1>1. {"VALIDATION", "UNKNOWN"} \subseteq HandlerReasons
  BY CheckpointWorkerAssumption
<1>2. ASSUME NEW reason \in {"VALIDATION", "UNKNOWN"}, NEW cause,
             Throw(w, reason, cause)
      PROVE  HandlerStep(w)
  BY <1>1, <1>2 DEF Throw, HandlerStep
<1>3. ASSUME NEW call, Await(w, call)
      PROVE  UNCHANGED vars
  BY <1>3 DEF Await
<1>4. CASE LoadContext(w)
  BY <1>2, <1>3, <1>4 DEF LoadContext
<1>5. CASE StatusFails(w)
  BY <1>2, <1>5 DEF StatusFails
<1>6. CASE ReadStatus(w)
  BY <1>3, <1>6 DEF ReadStatus
<1>7. CASE ReadQuote(w)
  BY <1>2, <1>3, <1>7 DEF ReadQuote
<1>8. CASE RecordDecision(w)
  BY <1>8 DEF RecordDecision, HandlerStep
<1>9. CASE StoreFails(w)
  BY <1>1, <1>2, <1>9 DEF StoreFails, HandlerStep
<1> QED
  BY <1>4, <1>5, <1>6, <1>7, <1>8, <1>9 DEF HandleStep

LEMMA StepIsQueueStep == [CheckpointNext]_checkpointVars => [Next]_vars
<1> SUFFICES ASSUME [CheckpointNext]_checkpointVars
             PROVE  [Next]_vars
  OBVIOUS
<1>1. CASE UNCHANGED checkpointVars
  BY <1>1 DEF checkpointVars
<1>2. CASE (Tick \/ \E i \in Items : Enqueue(i)) /\ UNCHANGED handlerVars
  BY <1>2 DEF Next
<1>3. CASE \E i \in Items : OrderMoves(i)
  BY <1>3 DEF OrderMoves
<1>4. ASSUME NEW w \in Workers, QueueStep(w)
      PROVE  Next
  BY <1>4 DEF QueueStep, Next
<1>5. ASSUME NEW w \in Workers, HandleStep(w)
      PROVE  [Next]_vars
  BY <1>5, HandleStepIsQueueStep DEF Next
<1>6. ASSUME NEW w \in Workers, FaultStep(w)
      PROVE  Next
  BY <1>6 DEF FaultStep, Next
<1> QED
  BY <1>1, <1>2, <1>3, <1>4, <1>5, <1>6 DEF CheckpointNext

\* With the checkpoint handler in it the queue behaves as WorkQueue says, for
\* any goals, quotes and order movements: what is proved of Spec holds here.
THEOREM HandlerKeepsQueue == CheckpointSpec => QueueUnderHandler
<1>1. CheckpointInit => Init
  BY DEF CheckpointInit
<1> QED
  BY <1>1, StepIsQueueStep, PTL DEF CheckpointSpec, QueueUnderHandler, Spec

-----------------------------------------------------------------------------
(* The decision rule, for any of its inputs.                               *)

\* A context is a goal with its fields.
LEMMA GoalFields ==
    ASSUME NEW goal \in Contexts, goal # Nothing
    PROVE  /\ goal.deadline \in Nat /\ goal.minimumBuyAmount \in Nat
           /\ goal.replacementCount \in {0, 1}
BY CheckpointWorkerAssumption

\* The rule answers with one of its five actions.
LEMMA DecideType ==
    ASSUME NEW goal, NEW now, NEW orderState, NEW quote
    PROVE  /\ decideCheckpoint(goal, now, orderState, quote).action \in DecisionAction
           /\ decideCheckpoint(goal, now, orderState, quote).explanation \in Explanation
BY DEF decideCheckpoint, Decision, DecisionAction, Explanation

\* A filled order is reconciled before anything else is looked at.
LEMMA DecideFilled ==
    ASSUME NEW goal, NEW now, NEW quote
    PROVE  decideCheckpoint(goal, now, "FULFILLED", quote).action = "RECONCILE_FULFILLED"
BY DEF decideCheckpoint, Decision

\* What must hold for the rule to ask for a replacement.
LEMMA DecideReplace ==
    ASSUME NEW goal, NEW now, NEW orderState, NEW quote,
           decideCheckpoint(goal, now, orderState, quote).action = "REPLACE_ONCE"
    PROVE  /\ orderState \notin {"FULFILLED", "CANCELLED", "EXPIRED"}
           /\ ~isTerminal(goal.state)
           /\ ~(now >= goal.deadline)
           /\ ~(now < checkpointAt(goal.deadline))
           /\ ~(goal.replacementCount > 0)
           /\ isFreshExecutableQuote(quote, now)
           /\ ~(quote.buyAmount < goal.minimumBuyAmount)
BY DEF decideCheckpoint, Decision

-----------------------------------------------------------------------------
(* The inductive invariant.                                                *)

\* What is true of a decision from the moment it is made: it is dated in the
\* past, a replacement is warranted, and a fill that came first was seen.
Sound(e) ==
    /\ e.now <= clock
    /\ e.output = "REPLACE_ONCE" =>
          LET goal == goals[e.goalId]
          IN  /\ goal # Nothing /\ ~isTerminal(goal.state)
              /\ goal.replacementCount = 0
              /\ goal.deadline - CHECKPOINT_LEAD <= e.now /\ e.now < goal.deadline
              /\ endedAt[e.goalId] >= e.now
              /\ e.quote.executable /\ e.quote.validUntil > e.now
              /\ e.quote.buyAmount >= goal.minimumBuyAmount
    /\ (order[e.goalId] = "fulfilled" /\ endedAt[e.goalId] < e.now)
          => e.output = "RECONCILE_FULFILLED"

\* The same of a handle() call: while a quote is sought the order was open when
\* the call's clock was read; while a decision is recorded, it is sound.
CallSound(w) ==
    LET i == workers[w].item
        call == calls[w]
    IN  /\ call.now <= clock
        /\ call.step # "load" => workers[w].pc = "handling" /\ goals[i] # Nothing
        /\ call.step = "quote" =>
              /\ call.orderState = "OPEN"
              /\ endedAt[i] >= call.now
        /\ call.step = "record" =>
              call.evidence \in Evidence /\ call.evidence.goalId = i
                  /\ Sound(call.evidence)

DecisionsSound ==
    /\ goals \in [Items -> Contexts]
    /\ order \in [Items -> OrderStatus]
    /\ calls \in [Workers -> Call]
    /\ \A w \in Workers : CallSound(w)
    /\ decisions \subseteq Evidence
    /\ \A e \in decisions : Sound(e)
    /\ endedAt \in [Items -> Nat]
    /\ \A i \in Items :
          order[i] \in {"presignaturePending", "open"} => endedAt[i] = Never
    /\ clock <= MaxTime
    /\ lastCause \in [Items -> Cause]
    /\ redelivered \subseteq Items

LEMMA SoundImplies ==
    DecisionsSound => CheckpointTypeOK /\ ReplaceIsWarranted /\ FilledIsNeverMissed
BY DEF DecisionsSound, CallSound, Sound, CheckpointTypeOK, ReplaceIsWarranted,
       FilledIsNeverMissed

LEMMA InitSound == CheckpointInit => DecisionsSound
<1> SUFFICES ASSUME CheckpointInit PROVE DecisionsSound
  OBVIOUS
<1>1. NoCall \in Call /\ NoCall.now = 0 /\ NoCall.step = "load"
  BY DEF NoCall, Call, OrderState
<1>2. Never \in Nat /\ 0 <= MaxTime
  BY WorkQueueAssumption DEF Never
<1>3. \A w \in Workers : CallSound(w)
  BY <1>1 DEF CheckpointInit, Init, CallSound
<1>4. order \in [Items -> OrderStatus]
  BY DEF CheckpointInit, OrderStatus
<1> QED
  BY <1>1, <1>2, <1>3, <1>4 DEF CheckpointInit, Init, DecisionsSound, Cause

\* Soundness survives the passing of time.
LEMMA SoundLater ==
    ASSUME TypeOK, DecisionsSound, NEW e \in Evidence, Sound(e),
           clock' \in Nat, clock' >= clock, UNCHANGED <<goals, order, endedAt>>
    PROVE  Sound(e)'
BY DEF TypeOK, DecisionsSound, Sound, Evidence

\* A worker's call stays sound when neither it nor its goal moves.
LEMMA CallSoundLater ==
    ASSUME TypeOK, DecisionsSound, NEW w \in Workers,
           clock' \in Nat, clock' >= clock, UNCHANGED <<goals, order, endedAt>>,
           calls'[w] = calls[w], workers'[w] = workers[w]
    PROVE  CallSound(w)'
<1>1. CallSound(w) /\ calls[w] \in Call
  BY DEF DecisionsSound
<1>2. calls[w].now \in Nat /\ clock \in Nat
  BY <1>1 DEF Call, TypeOK
<1>3. ASSUME calls[w].step = "record"
      PROVE  Sound(calls[w].evidence)'
  <2>1. PICK e \in Evidence : e = calls[w].evidence /\ Sound(e)
    BY <1>1, <1>3 DEF CallSound
  <2>2. Sound(e)'
    BY <2>1, SoundLater
  <2> QED
    BY <2>1, <2>2 DEF Sound
<1> QED
  BY <1>1, <1>2, <1>3 DEF CallSound

\* An order that opens or ends leaves what was decided sound: it ends now.
LEMMA OrderMovesSound ==
    ASSUME TypeOK, DecisionsSound, NEW i \in Items, OrderMoves(i)
    PROVE  DecisionsSound'
<1>1. clock \in Nat /\ clock <= MaxTime /\ Never > MaxTime /\ Never \in Nat
  BY WorkQueueAssumption DEF TypeOK, DecisionsSound, Never
<1>2. /\ UNCHANGED <<clock, workers, goals, calls, decisions, lastCause, redelivered>>
      /\ order \in [Items -> OrderStatus] /\ endedAt \in [Items -> Nat]
      /\ order[i] \in {"presignaturePending", "open"} /\ endedAt[i] = Never
  BY DEF OrderMoves, vars, DecisionsSound
<1>3. \/ /\ order' = [order EXCEPT ![i] = "open"]
         /\ endedAt' = endedAt
      \/ /\ \E status \in {"fulfilled", "cancelled", "expired"} :
               order' = [order EXCEPT ![i] = status]
         /\ endedAt' = [endedAt EXCEPT ![i] = clock]
  BY DEF OrderMoves
<1>4. order' \in [Items -> OrderStatus] /\ endedAt' \in [Items -> Nat]
  BY <1>1, <1>2, <1>3 DEF OrderStatus
<1>5. \A j \in Items :
          order'[j] \in {"presignaturePending", "open"} => endedAt'[j] = Never
  BY <1>2, <1>3 DEF DecisionsSound
<1>6. \A j \in Items, t \in Nat :
          /\ t <= clock /\ endedAt[j] >= t => endedAt'[j] >= t
          /\ j = i /\ t <= clock => order'[j] # "fulfilled" \/ endedAt'[j] >= t
          /\ j # i => order'[j] = order[j] /\ endedAt'[j] = endedAt[j]
  BY <1>1, <1>2, <1>3, <1>4
<1>7. ASSUME NEW e \in Evidence, Sound(e)
      PROVE  Sound(e)'
  <2>1. e.goalId \in Items /\ e.now \in Nat /\ e.now <= clock
    BY <1>7 DEF Evidence, Sound
  <2>2. endedAt[e.goalId] \in Nat /\ endedAt'[e.goalId] \in Nat
    BY <1>2, <1>4, <2>1
  <2> QED
    BY <1>2, <1>6, <1>7, <2>1, <2>2 DEF Sound
<1>8. ASSUME NEW w \in Workers
      PROVE  CallSound(w)'
  <2>1. CallSound(w) /\ calls[w] \in Call /\ calls[w].now \in Nat
    BY DEF DecisionsSound, Call
  <2>2. calls[w].step # "load" => workers[w].item \in Items
    BY <2>1 DEF CallSound, TypeOK
  <2>3. ASSUME calls[w].step = "record"
        PROVE  Sound(calls[w].evidence)'
    <3>1. PICK e \in Evidence : e = calls[w].evidence /\ Sound(e)
      BY <2>1, <2>3 DEF CallSound
    <3>2. Sound(e)' /\ e = calls'[w].evidence
      BY <1>2, <1>7, <3>1
    <3> QED
      BY <3>2 DEF Sound
  <2>4. calls[w].step = "quote" => endedAt'[workers[w].item] >= calls[w].now
    BY <1>6, <2>1, <2>2 DEF CallSound
  <2> QED
    BY <1>2, <2>1, <2>3, <2>4 DEF CallSound
<1> QED
  BY <1>2, <1>4, <1>5, <1>7, <1>8 DEF DecisionsSound

\* A step of w's own call: what it leaves must be sound, the rest is as before.
LEMMA CallMovesSound ==
    ASSUME TypeOK, DecisionsSound, NEW w \in Workers, NEW c \in Call,
           calls' = [calls EXCEPT ![w] = c], CallSound(w)',
           UNCHANGED <<clock, goals, order, endedAt>>,
           \A v \in Workers \ {w} : workers'[v] = workers[v],
           decisions' \subseteq Evidence, \A e \in decisions' : Sound(e),
           lastCause' \in [Items -> Cause], redelivered' \subseteq Items
    PROVE  DecisionsSound'
<1>1. clock' \in Nat /\ clock' >= clock
  BY DEF TypeOK
<1>2. calls' \in [Workers -> Call]
  BY DEF DecisionsSound
<1>3. ASSUME NEW v \in Workers \ {w}
      PROVE  CallSound(v)'
  BY <1>1, <1>3, CallSoundLater DEF DecisionsSound
<1>4. ASSUME NEW e \in decisions'
      PROVE  Sound(e)'
  BY <1>1, <1>4, SoundLater
<1> QED
  BY <1>1, <1>2, <1>3, <1>4 DEF DecisionsSound

-----------------------------------------------------------------------------
(* One lemma per step of handle().                                         *)

LEMMA NoCallSound == NoCall \in Call /\ NoCall.now = 0 /\ NoCall.step = "load"
BY DEF NoCall, Call, OrderState

\* handle() throws.
LEMMA ThrowSound ==
    ASSUME TypeOK, DecisionsSound, NEW w \in Workers, NEW reason,
           NEW cause \in Cause, Throw(w, reason, cause)
    PROVE  DecisionsSound'
<1>1. /\ calls' = [calls EXCEPT ![w] = NoCall]
      /\ UNCHANGED <<clock, goals, order, endedAt, decisions, redelivered>>
      /\ \A v \in Workers \ {w} : workers'[v] = workers[v]
  BY DEF Throw, HandlerThrows, TypeOK
<1>2. calls'[w] = NoCall
  BY <1>1 DEF DecisionsSound
<1>3. CallSound(w)'
  BY <1>1, <1>2, NoCallSound DEF CallSound, TypeOK
<1>4. lastCause' \in [Items -> Cause]
  BY DEF Throw, DecisionsSound
<1> QED
  BY <1>1, <1>3, <1>4, NoCallSound, CallMovesSound DEF DecisionsSound

\* handle() returns, or throws, having written its decision.
LEMMA RecordedSound ==
    ASSUME TypeOK, DecisionsSound, NEW w \in Workers, InCall(w, "record"),
           calls' = [calls EXCEPT ![w] = NoCall],
           decisions' = decisions \cup {calls[w].evidence},
           UNCHANGED <<clock, goals, order, endedAt, redelivered>>,
           \A v \in Workers \ {w} : workers'[v] = workers[v],
           lastCause' \in [Items -> Cause]
    PROVE  DecisionsSound'
<1>1. calls'[w] = NoCall
  BY DEF DecisionsSound
<1>2. CallSound(w)'
  BY <1>1, NoCallSound DEF CallSound, TypeOK
<1>3. calls[w].evidence \in Evidence /\ Sound(calls[w].evidence)
  BY DEF DecisionsSound, CallSound, InCall
<1>4. decisions' \subseteq Evidence /\ \A e \in decisions' : Sound(e)
  BY <1>3 DEF DecisionsSound
<1>5. redelivered' \subseteq Items
  BY DEF DecisionsSound
<1> QED
  BY <1>2, <1>4, <1>5, NoCallSound, CallMovesSound

\* handle() goes on to its next await.
LEMMA AwaitSound ==
    ASSUME TypeOK, DecisionsSound, NEW w \in Workers, NEW c \in Call,
           Await(w, c), workers[w].pc = "handling",
           c.now <= clock, goals[workers[w].item] # Nothing,
           c.step = "quote" =>
               c.orderState = "OPEN" /\ endedAt[workers[w].item] >= c.now,
           c.step = "record" =>
               c.evidence \in Evidence /\ c.evidence.goalId = workers[w].item
                   /\ Sound(c.evidence)
    PROVE  DecisionsSound'
<1>1. /\ calls' = [calls EXCEPT ![w] = c]
      /\ UNCHANGED <<clock, goals, order, endedAt, decisions, redelivered,
                     lastCause, workers>>
  BY DEF Await, vars
<1>2. calls'[w] = c
  BY <1>1 DEF DecisionsSound
<1>3. c.step = "record" => Sound(calls[w].evidence)'
  BY <1>1, <1>2 DEF Sound
<1>4. CallSound(w)'
  BY <1>1, <1>2, <1>3 DEF CallSound
<1> QED
  BY <1>1, <1>4, CallMovesSound DEF DecisionsSound

LEMMA LoadContextSound ==
    ASSUME TypeOK, DecisionsSound, NEW w \in Workers, LoadContext(w)
    PROVE  DecisionsSound'
<1>1. CASE Throw(w, "VALIDATION", "context-missing")
  BY <1>1, ThrowSound DEF Cause
<1>2. CASE /\ goals[workers[w].item] # Nothing
           /\ Await(w, [calls[w] EXCEPT !.step = "status", !.now = clock])
  <2>1. calls[w] \in Call /\ clock \in Nat
    BY DEF DecisionsSound, TypeOK
  <2>2. PICK c : c = [calls[w] EXCEPT !.step = "status", !.now = clock]
    OBVIOUS
  <2>3. c \in Call /\ c.step = "status" /\ c.now = clock
    BY <2>1, <2>2 DEF Call
  <2>4. workers[w].pc = "handling"
    BY DEF LoadContext, InCall
  <2>5. Await(w, c)
    BY <1>2, <2>2 DEF Await
  <2>6. c.now <= clock
    BY <2>1, <2>3
  <2> QED
    BY <1>2, <2>3, <2>4, <2>5, <2>6, AwaitSound
<1> QED
  BY <1>1, <1>2 DEF LoadContext

LEMMA StatusFailsSound ==
    ASSUME TypeOK, DecisionsSound, NEW w \in Workers, StatusFails(w)
    PROVE  DecisionsSound'
BY ThrowSound DEF StatusFails, Cause

LEMMA StoreFailsSound ==
    ASSUME TypeOK, DecisionsSound, NEW w \in Workers, StoreFails(w)
    PROVE  DecisionsSound'
<1>1. CASE Throw(w, "UNKNOWN", "database")
  BY <1>1, ThrowSound DEF Cause
<1>2. CASE /\ InCall(w, "record")
           /\ HandlerThrows(w, "UNKNOWN")
           /\ calls' = [calls EXCEPT ![w] = NoCall]
           /\ decisions' = decisions \cup {calls[w].evidence}
           /\ lastCause' = [lastCause EXCEPT ![workers[w].item] = "database"]
           /\ UNCHANGED <<goals, order, endedAt, redelivered>>
  <2>1. lastCause' \in [Items -> Cause]
    BY <1>2 DEF DecisionsSound, Cause
  <2>2. \A v \in Workers \ {w} : workers'[v] = workers[v]
    BY <1>2 DEF HandlerThrows, TypeOK
  <2> QED
    BY <1>2, <2>1, <2>2, RecordedSound DEF HandlerThrows
<1> QED
  BY <1>1, <1>2 DEF StoreFails

LEMMA RecordDecisionSound ==
    ASSUME TypeOK, DecisionsSound, NEW w \in Workers, RecordDecision(w)
    PROVE  DecisionsSound'
<1>1. \A v \in Workers \ {w} : workers'[v] = workers[v]
  BY DEF RecordDecision, HandlerReturns, TypeOK
<1>2. lastCause' \in [Items -> Cause]
  BY DEF RecordDecision, DecisionsSound
<1> QED
  BY <1>1, <1>2, RecordedSound DEF RecordDecision, HandlerReturns

\* CoW's status becomes the rule's order state, and OPEN only if still open.
LEMMA StatusRead ==
    ASSUME NEW status \in OrderStatus
    PROVE  /\ toFillPilotOrderState(status) \in OrderState
           /\ status = "fulfilled" => toFillPilotOrderState(status) = "FULFILLED"
           /\ toFillPilotOrderState(status) = "OPEN"
                 => status \in {"presignaturePending", "open"}
BY DEF OrderStatus, OrderState, toFillPilotOrderState

\* The stored decision is made of its inputs and of what they determine.
LEMMA EvaluateFields ==
    ASSUME NEW i \in Items, NEW now \in Nat, NEW orderState \in OrderState,
           NEW quote \in Quote,
           NEW e, e = evaluateCheckpoint(i, now, orderState, quote)
    PROVE  /\ e \in Evidence
           /\ e.goalId = i /\ e.now = now /\ e.quote = quote
           /\ e.output = decideCheckpoint(goals[i], now, orderState, quote).action
<1> DEFINE d == decideCheckpoint(goals[i], now, orderState, quote)
<1>1. d.action \in DecisionAction /\ d.explanation \in Explanation
  BY DecideType
<1>2. e = [goalId |-> i, now |-> now, orderState |-> orderState, quote |-> quote,
           output |-> d.action, explanation |-> d.explanation]
  BY DEF evaluateCheckpoint
<1> HIDE DEF d
<1>3. e \in Evidence /\ e.goalId = i /\ e.now = now /\ e.quote = quote
        /\ e.output = d.action
  BY <1>1, <1>2 DEF Evidence
<1> QED
  BY <1>3 DEF d

LEMMA ReadStatusSound ==
    ASSUME TypeOK, DecisionsSound, NEW w \in Workers, ReadStatus(w)
    PROVE  DecisionsSound'
<1> DEFINE i == workers[w].item
           now == calls[w].now
           orderState == toFillPilotOrderState(order[i])
           quoteCall == [calls[w] EXCEPT !.step = "quote", !.orderState = orderState]
           evidence == evaluateCheckpoint(i, now, orderState, NoQuote)
           recordCall == [calls[w] EXCEPT !.step = "record", !.evidence = evidence]
<1>1. /\ InCall(w, "status")
      /\ IF needsFreshQuote(goals[i], now, orderState)
         THEN Await(w, quoteCall) ELSE Await(w, recordCall)
  BY DEF ReadStatus
<1>2. /\ i \in Items /\ workers[w].pc = "handling" /\ calls[w] \in Call
      /\ now \in Nat /\ now <= clock /\ goals[i] # Nothing /\ clock \in Nat
      /\ order[i] \in OrderStatus /\ endedAt[i] \in Nat /\ clock <= MaxTime
      /\ order[i] \in {"presignaturePending", "open"} => endedAt[i] = Never
  BY <1>1 DEF InCall, DecisionsSound, CallSound, TypeOK, Call
<1>3. /\ orderState \in OrderState
      /\ order[i] = "fulfilled" => orderState = "FULFILLED"
      /\ orderState = "OPEN" => endedAt[i] >= now
  <2>1. Never >= now
    BY <1>2, WorkQueueAssumption DEF Never
  <2> QED
    BY <1>2, <2>1, StatusRead
<1> HIDE DEF i, now, orderState
<1>4. CASE needsFreshQuote(goals[i], now, orderState)
  <2>1. PICK c : c = quoteCall
    OBVIOUS
  <2>2. c \in Call /\ c.step = "quote" /\ c.now = now /\ c.orderState = orderState
    BY <1>2, <1>3, <2>1 DEF Call, now
  <2>3. orderState = "OPEN"
    BY <1>4 DEF needsFreshQuote
  <2>4. Await(w, c)
    BY <1>1, <1>4, <2>1 DEF Await
  <2> QED
    BY <1>2, <1>3, <2>2, <2>3, <2>4, AwaitSound DEF i
<1>5. CASE ~needsFreshQuote(goals[i], now, orderState)
  <2>1. PICK c : c = recordCall
    OBVIOUS
  <2>2. NoQuote \in Quote
    BY DEF NoQuote, Quote
  <2>3. PICK e : e = evidence
    OBVIOUS
  <2>4. /\ e \in Evidence
        /\ e.goalId = i /\ e.now = now
        /\ e.output = decideCheckpoint(goals[i], now, orderState, NoQuote).action
    BY <1>2, <1>3, <2>2, <2>3, EvaluateFields
  <2> HIDE DEF evidence
  <2>5. c \in Call /\ c.step = "record" /\ c.now = now /\ c.evidence = e
    BY <1>2, <2>1, <2>3, <2>4 DEF Call, now
  <2>6. e.output # "REPLACE_ONCE"
    BY <2>4, DecideReplace DEF isFreshExecutableQuote
  <2>7. order[i] = "fulfilled" => e.output = "RECONCILE_FULFILLED"
    BY <1>3, <2>4, DecideFilled
  <2>8. Sound(e)
    BY <1>2, <2>4, <2>6, <2>7 DEF Sound
  <2>9. Await(w, c)
    BY <1>1, <1>5, <2>1 DEF Await
  <2> QED
    BY <1>2, <2>4, <2>5, <2>8, <2>9, AwaitSound DEF i
<1> QED
  BY <1>4, <1>5

\* A decision made from a quote sought while the order was open is sound.
LEMMA QuotedDecisionSound ==
    ASSUME TypeOK, DecisionsSound, NEW i \in Items, NEW now \in Nat,
           NEW quote \in Quote, goals[i] # Nothing, now <= clock, endedAt[i] >= now,
           NEW e, e = evaluateCheckpoint(i, now, "OPEN", quote)
    PROVE  e \in Evidence /\ e.goalId = i /\ Sound(e)
<1> DEFINE goal == goals[i]
<1>1. /\ e \in Evidence
      /\ e.goalId = i /\ e.now = now /\ e.quote = quote
      /\ e.output = decideCheckpoint(goal, now, "OPEN", quote).action
  BY EvaluateFields DEF OrderState
<1>2. /\ goal.deadline \in Nat /\ goal.minimumBuyAmount \in Nat
      /\ goal.replacementCount \in {0, 1}
      /\ endedAt[i] \in Nat /\ CHECKPOINT_LEAD \in Nat
  BY GoalFields, CheckpointPolicyAssumption DEF DecisionsSound
<1>3. ASSUME e.output = "REPLACE_ONCE"
      PROVE  /\ ~isTerminal(goal.state) /\ goal.replacementCount = 0
             /\ goal.deadline - CHECKPOINT_LEAD <= now /\ now < goal.deadline
             /\ quote.executable /\ quote.validUntil > now
             /\ quote.buyAmount >= goal.minimumBuyAmount
  <2>1. /\ ~isTerminal(goal.state)
        /\ ~(now >= goal.deadline)
        /\ ~(now < checkpointAt(goal.deadline))
        /\ ~(goal.replacementCount > 0)
        /\ isFreshExecutableQuote(quote, now)
        /\ ~(quote.buyAmount < goal.minimumBuyAmount)
    BY <1>1, <1>3, DecideReplace
  <2>2. quote.executable /\ quote.validUntil > now
    BY <2>1 DEF isFreshExecutableQuote
  <2>3. quote.buyAmount \in Nat
    BY DEF Quote
  <2> HIDE DEF goal
  <2> QED
    BY <1>2, <2>1, <2>2, <2>3 DEF checkpointAt
<1>4. ~(endedAt[i] < now)
  BY <1>2
<1> QED
  BY <1>1, <1>3, <1>4 DEF Sound

LEMMA ReadQuoteSound ==
    ASSUME TypeOK, DecisionsSound, NEW w \in Workers, ReadQuote(w)
    PROVE  DecisionsSound'
<1> DEFINE i == workers[w].item
           now == calls[w].now
<1>1. /\ InCall(w, "quote") /\ i \in Items /\ workers[w].pc = "handling"
      /\ calls[w] \in Call /\ now \in Nat /\ now <= clock /\ clock \in Nat
      /\ goals[i] # Nothing /\ calls[w].orderState = "OPEN" /\ endedAt[i] >= now
  BY DEF ReadQuote, InCall, DecisionsSound, CallSound, TypeOK, Call
<1>2. ASSUME NEW cause \in Cause, Throw(w, "UNKNOWN", cause)
      PROVE  DecisionsSound'
  BY <1>2, ThrowSound
<1>3. ASSUME NEW verified \in BOOLEAN, NEW amount \in BuyAmounts, NEW life \in QuoteLives,
             LET response == [verified |-> verified, buyAmount |-> amount,
                              expiration |-> clock + life]
                 verdict == preflightVerdict(goals[i], now, response)
                 quote == quoteSnapshot(now, response)
             IN  IF verdict = "accepted"
                 THEN Await(w, [calls[w] EXCEPT !.step = "record",
                          !.evidence = evaluateCheckpoint(
                                         i, now, calls[w].orderState, quote)])
                 ELSE Throw(w, "UNKNOWN", verdict)
      PROVE  DecisionsSound'
  <2> DEFINE response == [verified |-> verified, buyAmount |-> amount,
                          expiration |-> clock + life]
             verdict == preflightVerdict(goals[i], now, response)
             quote == quoteSnapshot(now, response)
             evidence == evaluateCheckpoint(i, now, "OPEN", quote)
             recordCall == [calls[w] EXCEPT !.step = "record", !.evidence = evidence]
  <2>1. IF verdict = "accepted"
        THEN Await(w, recordCall) ELSE Throw(w, "UNKNOWN", verdict)
    BY <1>1, <1>3
  <2>2. verdict \in Cause \cup {"accepted"}
    BY DEF preflightVerdict, Cause
  <2>3. quote \in Quote
    <3>1. clock + life \in Nat /\ amount \in Nat
      BY <1>1, CheckpointWorkerAssumption
    <3> QED
      BY <1>1, <3>1 DEF quoteSnapshot, Quote
  <2> HIDE DEF response, verdict, quote
  <2>4. CASE verdict = "accepted"
    <3>1. PICK q : q = quote
      OBVIOUS
    <3>2. PICK e : e = evidence
      OBVIOUS
    <3>3. e \in Evidence /\ e.goalId = i /\ Sound(e)
      BY <1>1, <2>3, <3>1, <3>2, QuotedDecisionSound
    <3>4. PICK c : c = recordCall
      OBVIOUS
    <3>5. Await(w, c)
      BY <2>1, <2>4, <3>4 DEF Await
    <3> HIDE DEF evidence
    <3>6. c \in Call /\ c.step = "record" /\ c.now = now /\ c.evidence = e
      BY <1>1, <3>2, <3>3, <3>4 DEF Call
    <3> QED
      BY <1>1, <3>3, <3>5, <3>6, AwaitSound
  <2>5. CASE verdict # "accepted"
    BY <1>2, <2>1, <2>2, <2>5
  <2> QED
    BY <2>4, <2>5
<1> QED
  BY <1>2, <1>3 DEF ReadQuote, Cause

LEMMA HandleStepSound ==
    ASSUME TypeOK, DecisionsSound, NEW w \in Workers, HandleStep(w)
    PROVE  DecisionsSound'
BY LoadContextSound, StatusFailsSound, ReadStatusSound, ReadQuoteSound,
   RecordDecisionSound, StoreFailsSound DEF HandleStep

-----------------------------------------------------------------------------
\* A step of the queue's own is never in the middle of a handle() call.
LEMMA CycleOutsideHandle ==
    ASSUME TypeOK, NEW w \in Workers, CycleStep(w)
    PROVE  /\ workers[w].pc # "handling"
           /\ clock' = clock
           /\ \A v \in Workers \ {w} : workers'[v] = workers[v]
<1> USE DEF TypeOK
<1>1. CASE StartCycle(w)  BY <1>1 DEF StartCycle
<1>2. CASE NothingDue(w)  BY <1>2 DEF NothingDue
<1>3. CASE SelectForUpdate(w)  BY <1>3 DEF SelectForUpdate
<1>4. CASE CommitClaim(w)  BY <1>4 DEF CommitClaim
<1>5. CASE Complete(w)  BY <1>5 DEF Complete
<1>6. CASE CompleteRejected(w)  BY <1>6 DEF CompleteRejected
<1>7. CASE Fail(w)  BY <1>7 DEF Fail
<1>8. CASE FailRejected(w)  BY <1>8 DEF FailRejected
<1> QED
  BY <1>1, <1>2, <1>3, <1>4, <1>5, <1>6, <1>7, <1>8 DEF CycleStep

LEMMA QueueStepSound ==
    ASSUME TypeOK, DecisionsSound, NEW w \in Workers, QueueStep(w)
    PROVE  DecisionsSound'
<1>1. /\ workers[w].pc # "handling" /\ clock' = clock
      /\ \A v \in Workers \ {w} : workers'[v] = workers[v]
      /\ UNCHANGED <<goals, order, calls, decisions, endedAt, lastCause>>
  BY CycleOutsideHandle DEF QueueStep
<1>2. PICK c : c = calls[w]
  OBVIOUS
<1>3. c \in Call /\ c.step = "load" /\ c.now <= clock
  BY <1>1, <1>2 DEF DecisionsSound, CallSound
<1>4. calls' = [calls EXCEPT ![w] = c]
  BY <1>1, <1>2 DEF DecisionsSound
<1>5. CallSound(w)'
  BY <1>1, <1>2, <1>3 DEF CallSound
<1>6. redelivered' \subseteq Items
  <2>1. workers[w].pc = "locking" => workers[w].item \in Items
    BY DEF TypeOK
  <2> QED
    BY <2>1 DEF QueueStep, DecisionsSound
<1> QED
  BY <1>1, <1>3, <1>4, <1>5, <1>6, CallMovesSound DEF DecisionsSound

LEMMA FaultStepSound ==
    ASSUME TypeOK, DecisionsSound, NEW w \in Workers, FaultStep(w)
    PROVE  DecisionsSound'
<1>1. /\ clock' = clock
      /\ \A v \in Workers \ {w} : workers'[v] = workers[v]
      /\ calls' = [calls EXCEPT ![w] = NoCall]
      /\ UNCHANGED <<goals, order, decisions, endedAt, lastCause, redelivered>>
  BY DEF FaultStep, Fault, CompleteErrs, Crash, TypeOK
<1>2. calls'[w] = NoCall
  BY <1>1 DEF DecisionsSound
<1>3. CallSound(w)'
  BY <1>1, <1>2, NoCallSound DEF CallSound, TypeOK
<1> QED
  BY <1>1, <1>3, NoCallSound, CallMovesSound DEF DecisionsSound

\* Time passes, or a job is enqueued, and every call stands still.
LEMMA OutsideSound ==
    ASSUME TypeOK, DecisionsSound,
           Tick \/ \E i \in Items : Enqueue(i), UNCHANGED handlerVars
    PROVE  DecisionsSound'
<1>1. clock' \in Nat /\ clock' >= clock /\ clock' <= MaxTime /\ workers' = workers
  <2>1. clock \in Nat /\ clock <= MaxTime /\ MaxTime \in Nat
    BY WorkQueueAssumption DEF TypeOK, DecisionsSound
  <2>2. (clock' = clock + 1 /\ clock < MaxTime) \/ clock' = clock
    BY DEF Tick, Enqueue
  <2>3. workers' = workers
    BY DEF Tick, Enqueue
  <2> QED
    BY <2>1, <2>2, <2>3
<1>2. UNCHANGED <<goals, order, calls, decisions, endedAt, lastCause, redelivered>>
  BY DEF handlerVars
<1>3. ASSUME NEW v \in Workers
      PROVE  CallSound(v)'
  BY <1>1, <1>2, CallSoundLater
<1>4. ASSUME NEW e \in decisions'
      PROVE  Sound(e)'
  <2>1. e \in Evidence /\ Sound(e)
    BY <1>2, <1>4 DEF DecisionsSound
  <2> QED
    BY <1>1, <1>2, <2>1, SoundLater
<1> QED
  BY <1>1, <1>2, <1>3, <1>4 DEF DecisionsSound

LEMMA StillSound ==
    ASSUME TypeOK, UNCHANGED checkpointVars, DecisionsSound
    PROVE  DecisionsSound'
<1>1. UNCHANGED <<clock, workers, goals, order, calls, decisions, endedAt,
                  lastCause, redelivered>>
  BY DEF checkpointVars, vars, handlerVars
<1> QED
  BY <1>1 DEF DecisionsSound, CallSound, Sound

LEMMA StepSound ==
    TypeOK /\ DecisionsSound /\ [CheckpointNext]_checkpointVars
        => DecisionsSound'
BY StillSound, OutsideSound, OrderMovesSound, QueueStepSound, HandleStepSound,
   FaultStepSound DEF CheckpointNext

-----------------------------------------------------------------------------
THEOREM DecisionsStaySound == CheckpointSpec => []DecisionsSound
<1>1. CheckpointSpec => []TypeOK
  BY HandlerKeepsQueue, TypeCorrect DEF QueueUnderHandler
<1>2. CheckpointInit => DecisionsSound
  BY InitSound
<1> QED
  BY <1>1, <1>2, StepSound, PTL DEF CheckpointSpec

\* The handler's variables keep their types, and a call in progress has the
\* goal it loaded and, once it is recording, the decision of that goal.
THEOREM CheckpointTypeCorrect == CheckpointSpec => []CheckpointTypeOK
BY DecisionsStaySound, SoundImplies, PTL

\* Whatever moves between the reads of a handle() call, a recorded REPLACE_ONCE
\* was warranted at the time it carries.
THEOREM ReplacementsWarranted == CheckpointSpec => []ReplaceIsWarranted
BY DecisionsStaySound, SoundImplies, PTL

\* No goal is given up whose order had been filled when its checkpoint began.
THEOREM FillsNeverMissed == CheckpointSpec => []FilledIsNeverMissed
BY DecisionsStaySound, SoundImplies, PTL

-----------------------------------------------------------------------------
(* A complete job has its decision.                                        *)

\* The goal of that name has a decision in the table.
Decided(i) == \E e \in decisions : e.goalId = i

CompletingIsDecided ==
    \A w \in Workers : workers[w].pc = "completing" => Decided(workers[w].item)

\* A failed job is pending or dead.
LEMMA FailedRowState ==
    ASSUME NEW row \in Row, NEW now, NEW reason
    PROVE  FailedRow(row, now, reason).state \in {"PENDING", "DEAD"}
<1> DEFINE dueAt == now + Smaller(MAX_RETRY_DELAY, BASE_RETRY_DELAY * 2^(row.attempts))
           attempts == row.attempts + 1
<1>1. RetryRow(row, now) = [row EXCEPT !.attempts = attempts, !.state = "PENDING",
                                       !.dueAt = dueAt, !.leaseExpiresAt = NoLease]
  BY DEF RetryRow
<1>2. DeadRow(row) = [row EXCEPT !.attempts = attempts, !.state = "DEAD",
                                 !.leaseExpiresAt = NoLease]
  BY DEF DeadRow
<1> HIDE DEF dueAt, attempts
<1>3. RetryRow(row, now).state = "PENDING" /\ DeadRow(row).state = "DEAD"
  BY <1>1, <1>2 DEF Row
<1> QED
  BY <1>3 DEF FailedRow

\* Only a worker that came back from its handler completes a job.
LEMMA CycleCompletes ==
    ASSUME TypeOK, NEW w \in Workers, CycleStep(w) \/ Fault(w)
    PROVE  /\ \A i \in Items : rows'[i].state = "COMPLETE" =>
                \/ rows[i].state = "COMPLETE"
                \/ workers[w].pc = "completing" /\ workers[w].item = i
           /\ \A v \in Workers : workers'[v].pc = "completing" =>
                workers'[v] = workers[v]
<1> USE DEF TypeOK, Idle
<1>1. CASE StartCycle(w)  BY <1>1 DEF StartCycle, Cycle
<1>2. CASE NothingDue(w)  BY <1>2 DEF NothingDue
<1>3. CASE SelectForUpdate(w)  BY <1>3 DEF SelectForUpdate, Cycle
<1>4. CASE CommitClaim(w)
  <2>1. \A row \in Row, now \in Nat : ClaimedRow(row, now).state = "LEASED"
    BY DEF ClaimedRow, Row
  <2> QED
    BY <1>4, <2>1 DEF CommitClaim, Cycle
<1>5. CASE Complete(w)  BY <1>5 DEF Complete
<1>6. CASE CompleteRejected(w)  BY <1>6 DEF CompleteRejected, Cycle
<1>7. CASE Fail(w)
  BY <1>7, FailedRowState DEF Fail
<1>8. CASE FailRejected(w)  BY <1>8 DEF FailRejected
<1>9. CASE CompleteErrs(w)  BY <1>9 DEF CompleteErrs, Cycle
<1>10. CASE Crash(w)  BY <1>10 DEF Crash
<1> QED
  BY <1>1, <1>2, <1>3, <1>4, <1>5, <1>6, <1>7, <1>8, <1>9, <1>10
     DEF CycleStep, Fault

\* A handle() call returns only with its goal's decision in the table.
LEMMA HandleReturnsDecided ==
    ASSUME TypeOK, DecisionsSound, NEW w \in Workers, HandleStep(w)
    PROVE  /\ rows' = rows /\ decisions \subseteq decisions'
           /\ \A v \in Workers : workers'[v].pc = "completing" =>
                \/ workers'[v] = workers[v]
                \/ Decided(workers[v].item)' /\ workers'[v].item = workers[v].item
<1>1. ASSUME NEW reason, NEW cause, Throw(w, reason, cause)
      PROVE  /\ rows' = rows /\ decisions' = decisions
             /\ \A v \in Workers : workers'[v].pc = "completing" =>
                  workers'[v] = workers[v]
  BY <1>1 DEF Throw, HandlerThrows, TypeOK, Cycle
<1>2. ASSUME NEW call, Await(w, call)
      PROVE  rows' = rows /\ decisions' = decisions /\ workers' = workers
  BY <1>2 DEF Await, vars
<1>3. CASE LoadContext(w)  BY <1>1, <1>2, <1>3 DEF LoadContext
<1>4. CASE StatusFails(w)  BY <1>1, <1>4 DEF StatusFails
<1>5. CASE ReadStatus(w)  BY <1>2, <1>5 DEF ReadStatus
<1>6. CASE ReadQuote(w)  BY <1>1, <1>2, <1>6 DEF ReadQuote
<1>7. CASE RecordDecision(w)
  <2>1. calls[w].evidence.goalId = workers[w].item
    BY <1>7 DEF RecordDecision, InCall, DecisionsSound, CallSound
  <2>2. /\ workers' = [workers EXCEPT ![w].pc = "completing"] /\ rows' = rows
        /\ decisions' = decisions \cup {calls[w].evidence}
    BY <1>7 DEF RecordDecision, HandlerReturns
  <2>3. workers'[w].item = workers[w].item
    BY <2>2 DEF TypeOK, Cycle
  <2>4. \E e \in decisions' : e.goalId = workers[w].item
    BY <2>1, <2>2
  <2>5. \A v \in Workers \ {w} : workers'[v] = workers[v]
    BY <2>2 DEF TypeOK
  <2> QED
    BY <2>2, <2>3, <2>4, <2>5 DEF Decided
<1>8. CASE StoreFails(w)
  <2>1. ASSUME HandlerThrows(w, "UNKNOWN")
        PROVE  rows' = rows /\ \A v \in Workers : workers'[v].pc = "completing" =>
                                  workers'[v] = workers[v]
    BY <2>1 DEF HandlerThrows, TypeOK, Cycle
  <2> QED
    BY <1>1, <1>8, <2>1 DEF StoreFails
<1> QED
  BY <1>3, <1>4, <1>5, <1>6, <1>7, <1>8 DEF HandleStep

LEMMA StepDecided ==
    TypeOK /\ DecisionsSound /\ CompletingIsDecided /\ CompleteMeansRecorded
        /\ [CheckpointNext]_checkpointVars
    => CompletingIsDecided' /\ CompleteMeansRecorded'
<1> SUFFICES ASSUME TypeOK, DecisionsSound, CompletingIsDecided, CompleteMeansRecorded,
                    [CheckpointNext]_checkpointVars
             PROVE  CompletingIsDecided' /\ CompleteMeansRecorded'
  OBVIOUS
<1>1. ASSUME decisions \subseteq decisions', NEW w \in Workers,
             \A i \in Items : rows'[i].state = "COMPLETE" =>
                 \/ rows[i].state = "COMPLETE"
                 \/ workers[w].pc = "completing" /\ workers[w].item = i,
             \A v \in Workers : workers'[v].pc = "completing" =>
                 \/ workers'[v] = workers[v]
                 \/ Decided(workers[v].item)' /\ workers'[v].item = workers[v].item
      PROVE  CompletingIsDecided' /\ CompleteMeansRecorded'
  BY <1>1 DEF CompletingIsDecided, CompleteMeansRecorded, Decided
<1>2. ASSUME UNCHANGED <<rows, workers, decisions>>
      PROVE  CompletingIsDecided' /\ CompleteMeansRecorded'
  BY <1>2 DEF CompletingIsDecided, CompleteMeansRecorded, Decided
<1>3. CASE UNCHANGED checkpointVars
  BY <1>2, <1>3 DEF checkpointVars, vars, handlerVars
<1>4. CASE Tick /\ UNCHANGED handlerVars
  BY <1>2, <1>4 DEF Tick, handlerVars
<1>5. ASSUME NEW i \in Items, Enqueue(i), UNCHANGED handlerVars
      PROVE  CompletingIsDecided' /\ CompleteMeansRecorded'
  <2>1. workers' = workers /\ decisions' = decisions
    BY <1>5 DEF Enqueue, handlerVars
  <2>2. \A j \in Items : rows'[j].state = "COMPLETE" => rows[j].state = "COMPLETE"
    BY <1>5 DEF Enqueue, TypeOK, Row
  <2> QED
    BY <2>1, <2>2 DEF CompletingIsDecided, CompleteMeansRecorded, Decided
<1>6. CASE \E i \in Items : OrderMoves(i)
  BY <1>2, <1>6 DEF OrderMoves, vars
<1>7. ASSUME NEW w \in Workers, QueueStep(w) \/ FaultStep(w)
      PROVE  CompletingIsDecided' /\ CompleteMeansRecorded'
  <2>1. decisions' = decisions /\ (CycleStep(w) \/ Fault(w))
    BY <1>7 DEF QueueStep, FaultStep
  <2> QED
    BY <1>1, <2>1, CycleCompletes
<1>8. ASSUME NEW w \in Workers, HandleStep(w)
      PROVE  CompletingIsDecided' /\ CompleteMeansRecorded'
  BY <1>1, <1>8, HandleReturnsDecided
<1> QED
  BY <1>3, <1>4, <1>5, <1>6, <1>7, <1>8 DEF CheckpointNext

\* However workers crash, overrun their leases and complete each other's jobs,
\* a complete checkpoint has its decision in the table.
THEOREM CompleteIsRecorded == CheckpointSpec => []CompleteMeansRecorded
<1>1. CheckpointSpec => []TypeOK
  BY HandlerKeepsQueue, TypeCorrect DEF QueueUnderHandler
<1>2. CheckpointInit => CompletingIsDecided /\ CompleteMeansRecorded
  BY DEF CheckpointInit, Init, Idle, AbsentRow, CompletingIsDecided, CompleteMeansRecorded
<1> QED
  BY <1>1, <1>2, DecisionsStaySound, StepDecided, PTL DEF CheckpointSpec

-----------------------------------------------------------------------------
(* No decision before its time.                                            *)

\* A row never falls due before its job was first meant to, and a cycle that
\* was handed a job began after that: the queue's share.
QueueTimely ==
    /\ \A i \in Items : rows[i].state # "ABSENT" => rows[i].dueAt >= DueAt[i]
    /\ \A w \in Workers :
          workers[w].pc \in {"handling", "completing", "failing"} =>
              workers[w].now >= DueAt[workers[w].item]

\* The row a failure leaves is due no earlier than the cycle's `now`, or than
\* it was.
LEMMA FailedRowDue ==
    ASSUME NEW row \in Row, NEW now \in Nat, NEW reason
    PROVE  LET failed == FailedRow(row, now, reason)
           IN  \/ failed.dueAt \in Nat /\ failed.dueAt >= now
               \/ failed.dueAt = row.dueAt
<1> DEFINE delay == Smaller(MAX_RETRY_DELAY, BASE_RETRY_DELAY * 2^(row.attempts))
           dueAt == now + delay
           attempts == row.attempts + 1
<1>1. row.attempts \in 0..MAX_WORK_ATTEMPTS
  BY DEF Row
<1>2. delay \in Nat
  BY <1>1, DelayNat
<1> HIDE DEF delay
<1>3. dueAt \in Nat /\ dueAt >= now
  BY <1>2
<1>4. RetryRow(row, now) = [row EXCEPT !.attempts = attempts, !.state = "PENDING",
                                       !.dueAt = dueAt, !.leaseExpiresAt = NoLease]
  BY DEF RetryRow, delay
<1>5. DeadRow(row) = [row EXCEPT !.attempts = attempts, !.state = "DEAD",
                                 !.leaseExpiresAt = NoLease]
  BY DEF DeadRow
<1> HIDE DEF dueAt, attempts
<1>6. RetryRow(row, now).dueAt = dueAt /\ DeadRow(row).dueAt = row.dueAt
  BY <1>4, <1>5 DEF Row
<1> QED
  BY <1>3, <1>6 DEF FailedRow

\* One worker's step: its row and its own cycle stay timely.
LEMMA WorkerTimely ==
    ASSUME TypeOK, LocksHeld, QueueTimely, NEW w \in Workers,
           CycleStep(w) \/ HandlerStep(w) \/ Fault(w)
    PROVE  QueueTimely'
<1> USE DEF TypeOK, QueueTimely
<1>1. /\ rows \in [Items -> Row] /\ workers[w] \in Cycle /\ workers[w].now \in Nat
      /\ \A i \in Items : rows[i].dueAt \in Nat /\ DueAt[i] \in Nat
  BY WorkQueueAssumption DEF Cycle, Row
<1>2. CASE StartCycle(w)  BY <1>2 DEF StartCycle, Cycle
<1>3. CASE NothingDue(w)  BY <1>3 DEF NothingDue, Idle
<1>4. CASE SelectForUpdate(w)  BY <1>4 DEF SelectForUpdate, Cycle
<1>5. CASE CommitClaim(w)
  <2> DEFINE i == workers[w].item
  <2>1. /\ i \in Items /\ rows[i].dueAt <= workers[w].now
        /\ rows[i].state \in {"PENDING", "LEASED"}
    BY <1>5 DEF CommitClaim, LocksHeld
  <2>2. workers[w].now >= DueAt[i]
    BY <1>1, <2>1
  <2>3. ClaimedRow(rows[i], workers[w].now).dueAt = rows[i].dueAt
    BY <2>1 DEF ClaimedRow, Row
  <2> QED
    BY <1>5, <2>1, <2>2, <2>3 DEF CommitClaim, Cycle
<1>6. CASE HandlerStep(w) \/ CompleteRejected(w) \/ FailRejected(w) \/ Crash(w)
  BY <1>6 DEF HandlerStep, HandlerReturns, HandlerThrows, CompleteRejected,
              FailRejected, Crash, Cycle, Idle
<1>7. CASE Complete(w) \/ CompleteErrs(w)
  <2> DEFINE i == workers[w].item
  <2>1. i \in Items
    BY <1>7 DEF Complete, CompleteErrs
  <2>2. PICK row : row = CompletedRow(rows[i])
    OBVIOUS
  <2>3. row.dueAt = rows[i].dueAt
    BY <2>1, <2>2 DEF CompletedRow, Row
  <2>4. \/ rows' = rows
        \/ rows[i].state = "LEASED" /\ rows' = [rows EXCEPT ![i] = row]
    BY <1>7, <2>2 DEF Complete, CompleteErrs
  <2>5. \A j \in Items : rows'[j].state # "ABSENT" => rows'[j].dueAt >= DueAt[j]
    BY <2>1, <2>3, <2>4
  <2>6. \A v \in Workers : workers'[v].pc \in {"handling", "completing", "failing"} =>
            /\ workers'[v].now = workers[v].now /\ workers'[v].item = workers[v].item
            /\ workers[v].pc \in {"handling", "completing", "failing"}
    BY <1>7 DEF Complete, CompleteErrs, Cycle, Idle
  <2> QED
    BY <2>5, <2>6
<1>8. CASE Fail(w)
  <2> DEFINE i == workers[w].item
  <2>1. /\ i \in Items /\ rows[i].state # "ABSENT" /\ workers[w].now >= DueAt[i]
        /\ rows[i].dueAt >= DueAt[i]
    BY <1>8 DEF Fail
  <2>2. PICK failed : failed = FailedRow(rows[i], workers[w].now, workers[w].reason)
    OBVIOUS
  <2>3. failed.dueAt >= DueAt[i]
    <3>1. \/ failed.dueAt \in Nat /\ failed.dueAt >= workers[w].now
          \/ failed.dueAt = rows[i].dueAt
      BY <1>1, <2>1, <2>2, FailedRowDue
    <3> QED
      BY <1>1, <2>1, <3>1
  <2>4. rows' = [rows EXCEPT ![i] = failed] /\ workers' = [workers EXCEPT ![w] = Idle]
    BY <1>8, <2>2 DEF Fail
  <2> QED
    BY <2>1, <2>3, <2>4 DEF Idle
<1> QED
  BY <1>2, <1>3, <1>4, <1>5, <1>6, <1>7, <1>8
     DEF CycleStep, Fault

LEMMA StepTimely ==
    TypeOK /\ LocksHeld /\ QueueTimely /\ [Next]_vars => QueueTimely'
<1> SUFFICES ASSUME TypeOK, LocksHeld, QueueTimely, [Next]_vars
             PROVE  QueueTimely'
  OBVIOUS
<1>1. CASE UNCHANGED vars
  BY <1>1 DEF vars, QueueTimely
<1>2. CASE Tick
  BY <1>2 DEF Tick, QueueTimely
<1>3. ASSUME NEW i \in Items, Enqueue(i) PROVE QueueTimely'
  BY <1>3, WorkQueueAssumption DEF Enqueue, QueueTimely, TypeOK, Row
<1> QED
  BY <1>1, <1>2, <1>3, WorkerTimely DEF Next

\* What a handle() call has read, and what is recorded, is no earlier.
CallTimely(w) ==
    /\ calls[w].step # "load" => calls[w].now >= DueAt[workers[w].item]
    /\ calls[w].step = "record" => calls[w].evidence.explanation # "checkpoint not due"

CheckpointsTimely ==
    /\ \A i \in Items :
          goals[i] # Nothing => DueAt[i] = checkpointAt(goals[i].deadline)
    /\ \A w \in Workers : CallTimely(w)
    /\ NeverDecidedEarly

\* At or after the time the checkpoint opens the rule has another answer.
LEMMA EvaluateTimely ==
    ASSUME NEW i \in Items, NEW now \in Nat, NEW orderState, NEW quote,
           goals[i] # Nothing, goals[i] \in Contexts,
           now >= checkpointAt(goals[i].deadline)
    PROVE  evaluateCheckpoint(i, now, orderState, quote).explanation
               # "checkpoint not due"
<1>1. ~(now < checkpointAt(goals[i].deadline))
  BY GoalFields, CheckpointPolicyAssumption DEF checkpointAt
<1>2. decideCheckpoint(goals[i], now, orderState, quote).explanation
          # "checkpoint not due"
  BY <1>1 DEF decideCheckpoint, Decision
<1> QED
  BY <1>2 DEF evaluateCheckpoint

\* A step that gives w the call c, and may record what w was recording.
LEMMA CallMovesTimely ==
    ASSUME DecisionsSound, CheckpointsTimely, NEW w \in Workers, NEW c,
           calls' = [calls EXCEPT ![w] = c], UNCHANGED goals,
           \A v \in Workers \ {w} : workers'[v] = workers[v],
           \/ c.step = "load"
           \/ /\ workers'[w] = workers[w] /\ c.now >= DueAt[workers[w].item]
              /\ c.step = "record" => c.evidence.explanation # "checkpoint not due",
           \/ decisions' = decisions
           \/ InCall(w, "record") /\ decisions' = decisions \cup {calls[w].evidence}
    PROVE  CheckpointsTimely'
<1>1. calls'[w] = c /\ \A v \in Workers \ {w} : calls'[v] = calls[v]
  BY DEF DecisionsSound
<1>2. CallTimely(w)'
  BY <1>1 DEF CallTimely
<1>3. ASSUME NEW v \in Workers \ {w}
      PROVE  CallTimely(v)'
  BY <1>1, <1>3 DEF CallTimely, CheckpointsTimely
<1>4. NeverDecidedEarly'
  BY DEF NeverDecidedEarly, CheckpointsTimely, CallTimely, InCall
<1> QED
  BY <1>2, <1>3, <1>4 DEF CheckpointsTimely

LEMMA ThrowTimely ==
    ASSUME TypeOK, DecisionsSound, CheckpointsTimely, NEW w \in Workers,
           NEW reason, NEW cause, Throw(w, reason, cause)
    PROVE  CheckpointsTimely'
<1>1. /\ calls' = [calls EXCEPT ![w] = NoCall] /\ UNCHANGED <<goals, decisions>>
      /\ \A v \in Workers \ {w} : workers'[v] = workers[v]
  BY DEF Throw, HandlerThrows, TypeOK
<1> QED
  BY <1>1, NoCallSound, CallMovesTimely

LEMMA AwaitTimely ==
    ASSUME TypeOK, DecisionsSound, CheckpointsTimely, NEW w \in Workers, NEW c,
           Await(w, c), c.now >= DueAt[workers[w].item],
           c.step = "record" => c.evidence.explanation # "checkpoint not due"
    PROVE  CheckpointsTimely'
<1>1. /\ calls' = [calls EXCEPT ![w] = c] /\ UNCHANGED <<goals, decisions, workers>>
  BY DEF Await, vars
<1> QED
  BY <1>1, CallMovesTimely

\* The handler reads its clock after its cycle read the claim's.
LEMMA LoadContextTimely ==
    ASSUME TypeOK, DecisionsSound, NowPast, QueueTimely, CheckpointsTimely,
           NEW w \in Workers, LoadContext(w)
    PROVE  CheckpointsTimely'
<1>1. CASE Throw(w, "VALIDATION", "context-missing")
  BY <1>1, ThrowTimely
<1>2. CASE Await(w, [calls[w] EXCEPT !.step = "status", !.now = clock])
  <2>1. PICK c : c = [calls[w] EXCEPT !.step = "status", !.now = clock]
    OBVIOUS
  <2>2. c.step = "status" /\ c.now = clock
    BY <2>1 DEF DecisionsSound, Call
  <2>3. workers[w].pc = "handling" /\ workers[w].item \in Items
    BY DEF LoadContext, InCall, TypeOK
  <2>4. /\ workers[w].now \in Nat /\ workers[w].now <= clock /\ clock \in Nat
        /\ DueAt[workers[w].item] \in Nat
        /\ workers[w].now >= DueAt[workers[w].item]
    BY <2>3, WorkQueueAssumption DEF TypeOK, Cycle, NowPast, QueueTimely
  <2>5. clock >= DueAt[workers[w].item]
    BY <2>4
  <2> QED
    BY <1>2, <2>1, <2>2, <2>5, AwaitTimely
<1> QED
  BY <1>1, <1>2 DEF LoadContext

LEMMA ReadStatusTimely ==
    ASSUME TypeOK, DecisionsSound, CheckpointsTimely, NEW w \in Workers, ReadStatus(w)
    PROVE  CheckpointsTimely'
<1> DEFINE i == workers[w].item
           now == calls[w].now
           orderState == toFillPilotOrderState(order[i])
           quoteCall == [calls[w] EXCEPT !.step = "quote", !.orderState = orderState]
           evidence == evaluateCheckpoint(i, now, orderState, NoQuote)
           recordCall == [calls[w] EXCEPT !.step = "record", !.evidence = evidence]
<1>1. \/ Await(w, quoteCall) \/ Await(w, recordCall)
  BY DEF ReadStatus
<1>2. /\ calls[w] \in Call /\ calls[w].step = "status" /\ i \in Items /\ now \in Nat
      /\ goals[i] # Nothing /\ goals[i] \in Contexts
  BY DEF ReadStatus, InCall, DecisionsSound, CallSound, TypeOK, Call
<1>3. now >= DueAt[i] /\ now >= checkpointAt(goals[i].deadline)
  BY <1>2 DEF CheckpointsTimely, CallTimely
<1>4. evidence.explanation # "checkpoint not due"
  BY <1>2, <1>3, EvaluateTimely
<1> HIDE DEF orderState, evidence
<1>5. quoteCall.step = "quote" /\ quoteCall.now = now
  BY <1>2 DEF Call
<1>6. recordCall.now = now /\ recordCall.evidence = evidence
  BY <1>2 DEF Call
<1>7. PICK a, b : a = quoteCall /\ b = recordCall
  OBVIOUS
<1>8. CASE Await(w, a)
  BY <1>3, <1>5, <1>7, <1>8, AwaitTimely
<1>9. CASE Await(w, b)
  BY <1>3, <1>4, <1>6, <1>7, <1>9, AwaitTimely
<1> QED
  BY <1>1, <1>7, <1>8, <1>9

LEMMA ReadQuoteTimely ==
    ASSUME TypeOK, DecisionsSound, CheckpointsTimely, NEW w \in Workers, ReadQuote(w)
    PROVE  CheckpointsTimely'
<1> DEFINE i == workers[w].item
           now == calls[w].now
           recordCall(quote) == [calls[w] EXCEPT !.step = "record",
               !.evidence = evaluateCheckpoint(i, now, calls[w].orderState, quote)]
<1>1. \/ \E cause : Throw(w, "UNKNOWN", cause)
      \/ \E quote : Await(w, recordCall(quote))
  BY DEF ReadQuote
<1>2. /\ calls[w] \in Call /\ calls[w].step = "quote" /\ i \in Items /\ now \in Nat
      /\ goals[i] # Nothing /\ goals[i] \in Contexts
  BY DEF ReadQuote, InCall, DecisionsSound, CallSound, TypeOK, Call
<1>3. now >= DueAt[i] /\ now >= checkpointAt(goals[i].deadline)
  BY <1>2 DEF CheckpointsTimely, CallTimely
<1>4. ASSUME NEW quote, Await(w, recordCall(quote))
      PROVE  CheckpointsTimely'
  <2>1. PICK e : e = evaluateCheckpoint(i, now, calls[w].orderState, quote)
    OBVIOUS
  <2>2. e.explanation # "checkpoint not due"
    BY <1>2, <1>3, <2>1, EvaluateTimely
  <2>3. PICK c : c = [calls[w] EXCEPT !.step = "record", !.evidence = e]
    OBVIOUS
  <2>4. c.now = now /\ c.evidence = e
    BY <1>2, <2>3 DEF Call
  <2>5. Await(w, c)
    BY <1>4, <2>1, <2>3
  <2> QED
    BY <1>3, <2>2, <2>4, <2>5, AwaitTimely
<1> QED
  BY <1>1, <1>4, ThrowTimely

LEMMA HandleStepTimely ==
    ASSUME TypeOK, DecisionsSound, NowPast, QueueTimely, CheckpointsTimely,
           NEW w \in Workers, HandleStep(w)
    PROVE  CheckpointsTimely'
<1>1. CASE StatusFails(w)
  BY <1>1, ThrowTimely DEF StatusFails
<1>2. CASE RecordDecision(w) \/ StoreFails(w)
  <2>1. /\ calls' = [calls EXCEPT ![w] = NoCall] /\ goals' = goals
        /\ \A v \in Workers \ {w} : workers'[v] = workers[v]
        /\ \/ decisions' = decisions
           \/ InCall(w, "record") /\ decisions' = decisions \cup {calls[w].evidence}
    BY <1>2 DEF RecordDecision, StoreFails, Throw, HandlerReturns, HandlerThrows, TypeOK
  <2> QED
    BY <2>1, NoCallSound, CallMovesTimely
<1> QED
  BY <1>1, <1>2, LoadContextTimely, ReadStatusTimely, ReadQuoteTimely DEF HandleStep

LEMMA StepCheckpointsTimely ==
    TypeOK /\ NowPast /\ QueueTimely /\ DecisionsSound /\ CheckpointsTimely
        /\ [CheckpointNext]_checkpointVars
    => CheckpointsTimely'
<1> SUFFICES ASSUME TypeOK, NowPast, QueueTimely, DecisionsSound, CheckpointsTimely,
                    [CheckpointNext]_checkpointVars
             PROVE  CheckpointsTimely'
  OBVIOUS
<1>1. ASSUME UNCHANGED <<goals, workers, calls, decisions>>
      PROVE  CheckpointsTimely'
  BY <1>1 DEF CheckpointsTimely, CallTimely, NeverDecidedEarly
<1>2. CASE UNCHANGED checkpointVars
  BY <1>1, <1>2 DEF checkpointVars, vars, handlerVars
<1>3. CASE (Tick \/ \E i \in Items : Enqueue(i)) /\ UNCHANGED handlerVars
  BY <1>1, <1>3 DEF Tick, Enqueue, handlerVars
<1>4. CASE \E i \in Items : OrderMoves(i)
  BY <1>1, <1>4 DEF OrderMoves, vars
<1>5. ASSUME NEW w \in Workers, QueueStep(w)
      PROVE  CheckpointsTimely'
  <2>1. /\ workers[w].pc # "handling" /\ UNCHANGED <<goals, calls, decisions>>
        /\ \A v \in Workers \ {w} : workers'[v] = workers[v]
    BY <1>5, CycleOutsideHandle DEF QueueStep
  <2>2. PICK c : c = calls[w]
    OBVIOUS
  <2>3. c.step = "load" /\ calls' = [calls EXCEPT ![w] = c]
    BY <2>1, <2>2 DEF DecisionsSound, CallSound
  <2> QED
    BY <2>1, <2>3, CallMovesTimely
<1>6. ASSUME NEW w \in Workers, FaultStep(w)
      PROVE  CheckpointsTimely'
  <2>1. /\ calls' = [calls EXCEPT ![w] = NoCall] /\ UNCHANGED <<goals, decisions>>
        /\ \A v \in Workers \ {w} : workers'[v] = workers[v]
    BY <1>6 DEF FaultStep, Fault, CompleteErrs, Crash, TypeOK
  <2> QED
    BY <2>1, NoCallSound, CallMovesTimely
<1> QED
  BY <1>2, <1>3, <1>4, <1>5, <1>6, HandleStepTimely DEF CheckpointNext

\* Whichever worker runs a checkpoint, after whatever failures and retries, the
\* decision it records is never that the checkpoint is not due yet.
THEOREM NoDecisionIsEarly == CheckpointSpec => []NeverDecidedEarly
<1>1. CheckpointSpec => Spec
  BY HandlerKeepsQueue DEF QueueUnderHandler
<1>2. IInv => TypeOK /\ NowPast /\ LocksHeld
  BY DEF IInv
<1>3. Init => QueueTimely
  BY DEF Init, AbsentRow, Idle, QueueTimely
<1>4. Spec => []QueueTimely
  BY <1>2, <1>3, Invariance, StepTimely, PTL DEF Spec
<1>5. CheckpointInit => CheckpointsTimely
  BY NoCallSound DEF CheckpointInit, CheckpointsTimely, CallTimely, NeverDecidedEarly
<1>6. CheckpointsTimely => NeverDecidedEarly
  BY DEF CheckpointsTimely
<1> QED
  BY <1>1, <1>2, <1>4, <1>5, <1>6, Invariance, DecisionsStaySound,
     StepCheckpointsTimely, PTL DEF CheckpointSpec

-----------------------------------------------------------------------------
(* One delivery, one decision.                                             *)

\* w was handed job i and has not finished with it.
Working(w, i) ==
    workers[w].pc \in {"handling", "completing", "failing"} /\ workers[w].item = i

Undecided(i) == \A e \in decisions : e.goalId # i

\* While i has only been delivered once: before the delivery nobody works on it
\* and nothing is decided; after it one worker does, and until that worker's
\* handler is done nothing is decided.
DeliveredOnce(i) ==
    /\ rows[i].state \in {"ABSENT", "PENDING"} =>
          Undecided(i) /\ \A w \in Workers : ~Working(w, i)
    /\ \A v, w \in Workers : Working(v, i) /\ Working(w, i) => v = w
    /\ \A w \in Workers : Working(w, i) /\ workers[w].pc = "handling" => Undecided(i)
    /\ \A d, e \in decisions : d.goalId = i /\ e.goalId = i => d = e

\* A failure is never retried: only an expired lease delivers a job again.
Deliveries ==
    /\ \A w \in Workers : workers[w].pc = "failing" => ~Retryable(workers[w].reason)
    /\ \A i \in Items \ redelivered : DeliveredOnce(i)

\* Workers only let go, and no row goes back to pending.
LEMMA LettingGo ==
    ASSUME Deliveries, NEW i \in Items \ redelivered, decisions' = decisions,
           rows'[i].state \in {"ABSENT", "PENDING"} =>
               rows[i].state \in {"ABSENT", "PENDING"},
           \A v \in Workers :
               Working(v, i)' =>
                  Working(v, i) /\ (workers'[v].pc = "handling" => workers[v].pc = "handling")
    PROVE  DeliveredOnce(i)'
<1>1. DeliveredOnce(i)
  BY DEF Deliveries
<1>2. Undecided(i) => Undecided(i)'
  BY DEF Undecided
<1> QED
  BY <1>1, <1>2 DEF DeliveredOnce

\* A cycle's steps and faults other than the claim itself.
LEMMA CycleLetsGo ==
    ASSUME TypeOK, NEW w \in Workers, Deliveries,
           CycleStep(w) \/ Fault(w), ~CommitClaim(w)
    PROVE  /\ \A i \in Items : rows'[i].state \in {"ABSENT", "PENDING"} =>
                rows[i].state \in {"ABSENT", "PENDING"}
           /\ \A v \in Workers :
                /\ workers'[v].pc \in {"handling", "completing", "failing"} =>
                     /\ workers[v].pc \in {"handling", "completing", "failing"}
                     /\ workers'[v].item = workers[v].item
                /\ workers'[v].pc = "handling" => workers[v].pc = "handling"
                /\ workers'[v].pc = "failing" => ~Retryable(workers'[v].reason)
<1> USE DEF TypeOK, Idle, Deliveries
<1>1. CASE StartCycle(w)  BY <1>1 DEF StartCycle, Cycle
<1>2. CASE NothingDue(w)  BY <1>2 DEF NothingDue
<1>3. CASE SelectForUpdate(w)  BY <1>3 DEF SelectForUpdate, Cycle
<1>4. CASE Complete(w) \/ CompleteErrs(w)
  <2>1. CompletedRow(rows[workers[w].item]).state = "COMPLETE"
    BY <1>4 DEF Complete, CompleteErrs, CompletedRow, Row
  <2>2. \A i \in Items : rows'[i].state \in {"ABSENT", "PENDING"} =>
            rows[i].state \in {"ABSENT", "PENDING"}
    BY <1>4, <2>1 DEF Complete, CompleteErrs
  <2>3. ~Retryable("UNKNOWN")
    BY DEF Retryable
  <2>4. \/ workers' = [workers EXCEPT ![w] = Idle]
        \/ /\ workers[w].pc = "completing"
           /\ workers' = [workers EXCEPT ![w].pc = "failing", ![w].reason = "UNKNOWN"]
    BY <1>4 DEF Complete, CompleteErrs
  <2> QED
    BY <2>2, <2>3, <2>4 DEF Cycle
<1>5. CASE CompleteRejected(w)
  BY <1>5 DEF CompleteRejected, Cycle, Retryable
<1>6. CASE Fail(w)
  <2>1. ~Retryable(workers[w].reason) /\ rows[workers[w].item] \in Row
    BY <1>6 DEF Fail
  <2>2. FailedRow(rows[workers[w].item], workers[w].now, workers[w].reason).state = "DEAD"
    BY <2>1 DEF FailedRow, DeadRow, Row
  <2> QED
    BY <1>6, <2>2 DEF Fail
<1>7. CASE FailRejected(w) \/ Crash(w)
  BY <1>7 DEF FailRejected, Crash
<1> QED
  BY <1>1, <1>2, <1>3, <1>4, <1>5, <1>6, <1>7 DEF CycleStep, Fault

\* The claim of a pending row is its first delivery, of a leased row another.
LEMMA ClaimDelivers ==
    ASSUME TypeOK, LocksHeld, Deliveries, NEW w \in Workers, QueueStep(w),
           CommitClaim(w)
    PROVE  Deliveries'
<1> PICK i : i = workers[w].item
  OBVIOUS
<1>1. i \in Items /\ workers[w].pc = "locking" /\ rows[i].state \in {"PENDING", "LEASED"}
  BY DEF CommitClaim, LocksHeld, TypeOK
<1>2. /\ workers' = [workers EXCEPT ![w].pc = "handling"]
      /\ rows' = [rows EXCEPT ![i] = ClaimedRow(@, workers[w].now)]
      /\ decisions' = decisions
      /\ redelivered' = IF rows[i].state = "LEASED"
                        THEN redelivered \cup {i} ELSE redelivered
  BY <1>1 DEF QueueStep, CommitClaim
<1>3. ClaimedRow(rows[i], workers[w].now).state = "LEASED"
  BY <1>1 DEF ClaimedRow, Row, TypeOK
<1>4. /\ workers'[w].pc = "handling" /\ workers'[w].item = i
      /\ \A v \in Workers \ {w} : workers'[v] = workers[v]
  BY <1>2 DEF TypeOK, Cycle
<1>5. /\ rows'[i].state = "LEASED"
      /\ \A j \in Items \ {i} : rows'[j] = rows[j]
  BY <1>1, <1>2, <1>3 DEF TypeOK
<1>6. ASSUME NEW j \in Items \ redelivered', j # i
      PROVE  DeliveredOnce(j)'
  <2>1. j \in Items \ redelivered
    BY <1>2, <1>6
  <2>2. \A v \in Workers :
            Working(v, j)' =>
              Working(v, j) /\ (workers'[v].pc = "handling" => workers[v].pc = "handling")
    BY <1>4, <1>6 DEF Working
  <2> QED
    BY <1>2, <1>5, <1>6, <2>1, <2>2, LettingGo
<1>7. ASSUME i \notin redelivered'
      PROVE  DeliveredOnce(i)'
  <2>1. rows[i].state = "PENDING" /\ i \notin redelivered
    BY <1>1, <1>2, <1>7
  <2>2. /\ DeliveredOnce(i) /\ Undecided(i)
        /\ \A v \in Workers : ~Working(v, i)
    BY <1>1, <2>1 DEF Deliveries, DeliveredOnce
  <2>3. Undecided(i)' /\ \A v \in Workers : Working(v, i)' => v = w
    BY <1>2, <1>4, <2>2 DEF Undecided, Working
  <2> QED
    BY <1>5, <2>3 DEF DeliveredOnce, Undecided
<1>8. \A v \in Workers : workers'[v].pc = "failing" => ~Retryable(workers'[v].reason)
  BY <1>4 DEF Deliveries
<1> QED
  BY <1>1, <1>6, <1>7, <1>8 DEF Deliveries

\* A handler ends having recorded its decision, the first of its job.
LEMMA RecordDelivers ==
    ASSUME TypeOK, DecisionsSound, Deliveries, NEW w \in Workers, InCall(w, "record"),
           rows' = rows, redelivered' = redelivered,
           decisions' = decisions \cup {calls[w].evidence},
           workers'[w].pc \in {"completing", "failing"},
           workers'[w].item = workers[w].item,
           workers'[w].pc = "failing" => ~Retryable(workers'[w].reason),
           \A v \in Workers \ {w} : workers'[v] = workers[v]
    PROVE  Deliveries'
<1> DEFINE i == workers[w].item
<1>1. /\ calls[w].evidence.goalId = i /\ workers[w].pc = "handling" /\ i \in Items
  BY DEF InCall, DecisionsSound, CallSound, TypeOK
<1>2. ASSUME NEW j \in Items \ redelivered, j # i
      PROVE  DeliveredOnce(j)'
  <2>1. DeliveredOnce(j)
    BY DEF Deliveries
  <2>2. /\ Undecided(j) => Undecided(j)'
        /\ \A e \in decisions' : e.goalId = j => e \in decisions
    BY <1>1, <1>2 DEF Undecided
  <2>3. \A v \in Workers :
            Working(v, j)' =>
              Working(v, j) /\ (workers'[v].pc = "handling" => workers[v].pc = "handling")
    BY <1>2 DEF Working
  <2> QED
    BY <2>1, <2>2, <2>3 DEF DeliveredOnce
<1>3. ASSUME i \notin redelivered
      PROVE  DeliveredOnce(i)'
  <2>1. /\ DeliveredOnce(i) /\ Working(w, i)
    BY <1>1, <1>3 DEF Deliveries, Working
  <2>2. /\ Undecided(i) /\ rows[i].state \notin {"ABSENT", "PENDING"}
        /\ \A v \in Workers : Working(v, i) => v = w
    BY <1>1, <2>1 DEF DeliveredOnce
  <2>3. \A v \in Workers : Working(v, i)' => v = w
    BY <2>2 DEF Working
  <2>4. \A e \in decisions' : e.goalId = i => e = calls[w].evidence
    BY <2>2 DEF Undecided
  <2> QED
    BY <2>2, <2>3, <2>4 DEF DeliveredOnce
<1>4. \A v \in Workers : workers'[v].pc = "failing" => ~Retryable(workers'[v].reason)
  BY DEF Deliveries
<1> QED
  BY <1>1, <1>2, <1>3, <1>4 DEF Deliveries

LEMMA HandleStepDelivers ==
    ASSUME TypeOK, DecisionsSound, Deliveries, NEW w \in Workers, HandleStep(w)
    PROVE  Deliveries'
<1>1. ~Retryable("VALIDATION") /\ ~Retryable("UNKNOWN")
  BY DEF Retryable
<1>2. ASSUME UNCHANGED <<rows, decisions, redelivered>>,
             \/ workers' = workers
             \/ \E reason \in {"VALIDATION", "UNKNOWN"} : HandlerThrows(w, reason)
      PROVE  Deliveries'
  <2>1. \A v \in Workers :
          /\ workers'[v].item = workers[v].item
          /\ \/ workers'[v] = workers[v]
             \/ /\ workers[v].pc = "handling" /\ workers'[v].pc = "failing"
                /\ ~Retryable(workers'[v].reason)
    BY <1>1, <1>2 DEF HandlerThrows, TypeOK, Cycle
  <2>2. \A j \in Items, v \in Workers :
            Working(v, j)' =>
              Working(v, j) /\ (workers'[v].pc = "handling" => workers[v].pc = "handling")
    BY <2>1 DEF Working
  <2>3. ASSUME NEW j \in Items \ redelivered'
        PROVE  DeliveredOnce(j)'
    BY <1>2, <2>2, LettingGo
  <2> QED
    BY <2>1, <2>3 DEF Deliveries
<1>3. ASSUME NEW reason \in {"VALIDATION", "UNKNOWN"}, NEW cause, Throw(w, reason, cause)
      PROVE  Deliveries'
  BY <1>2, <1>3 DEF Throw, HandlerThrows
<1>4. ASSUME NEW call, Await(w, call)
      PROVE  Deliveries'
  BY <1>2, <1>4 DEF Await, vars
<1>5. CASE RecordDecision(w)
  <2>1. /\ workers'[w].pc = "completing" /\ workers'[w].item = workers[w].item
        /\ \A v \in Workers \ {w} : workers'[v] = workers[v]
    BY <1>5 DEF RecordDecision, HandlerReturns, TypeOK, Cycle
  <2> QED
    BY <1>5, <2>1, RecordDelivers DEF RecordDecision, HandlerReturns
<1>6. ASSUME InCall(w, "record"), HandlerThrows(w, "UNKNOWN"),
             decisions' = decisions \cup {calls[w].evidence}, redelivered' = redelivered
      PROVE  Deliveries'
  <2>1. /\ workers'[w].pc = "failing" /\ workers'[w].item = workers[w].item
        /\ workers'[w].reason = "UNKNOWN"
        /\ \A v \in Workers \ {w} : workers'[v] = workers[v]
    BY <1>6 DEF HandlerThrows, TypeOK, Cycle
  <2> QED
    BY <1>1, <1>6, <2>1, RecordDelivers DEF HandlerThrows
<1>7. CASE StoreFails(w)  BY <1>3, <1>6, <1>7 DEF StoreFails
<1>8. CASE LoadContext(w)  BY <1>3, <1>4, <1>8 DEF LoadContext
<1>9. CASE StatusFails(w)  BY <1>3, <1>9 DEF StatusFails
<1>10. CASE ReadStatus(w)  BY <1>4, <1>10 DEF ReadStatus
<1>11. CASE ReadQuote(w)  BY <1>3, <1>4, <1>11 DEF ReadQuote
<1> QED
  BY <1>5, <1>7, <1>8, <1>9, <1>10, <1>11 DEF HandleStep

LEMMA StepDelivers ==
    TypeOK /\ LocksHeld /\ DecisionsSound /\ Deliveries
        /\ [CheckpointNext]_checkpointVars
    => Deliveries'
<1> SUFFICES ASSUME TypeOK, LocksHeld, DecisionsSound, Deliveries,
                    [CheckpointNext]_checkpointVars
             PROVE  Deliveries'
  OBVIOUS
<1>1. ASSUME decisions' = decisions, redelivered \subseteq redelivered',
             \A i \in Items : rows'[i].state \in {"ABSENT", "PENDING"} =>
                rows[i].state \in {"ABSENT", "PENDING"},
             \A v \in Workers :
                /\ workers'[v].pc \in {"handling", "completing", "failing"} =>
                     /\ workers[v].pc \in {"handling", "completing", "failing"}
                     /\ workers'[v].item = workers[v].item
                /\ workers'[v].pc = "handling" => workers[v].pc = "handling"
                /\ workers'[v].pc = "failing" => ~Retryable(workers'[v].reason)
      PROVE  Deliveries'
  <2>1. \A j \in Items, v \in Workers :
            Working(v, j)' =>
              Working(v, j) /\ (workers'[v].pc = "handling" => workers[v].pc = "handling")
    BY <1>1 DEF Working
  <2>2. ASSUME NEW j \in Items \ redelivered'
        PROVE  DeliveredOnce(j)'
    BY <1>1, <2>1, LettingGo
  <2> QED
    BY <1>1, <2>2 DEF Deliveries
<1>2. ASSUME UNCHANGED <<rows, workers, decisions, redelivered>>
      PROVE  Deliveries'
  BY <1>1, <1>2 DEF Deliveries
<1>3. CASE UNCHANGED checkpointVars
  BY <1>2, <1>3 DEF checkpointVars, vars, handlerVars
<1>4. CASE Tick /\ UNCHANGED handlerVars
  BY <1>2, <1>4 DEF Tick, handlerVars
<1>5. ASSUME NEW i \in Items, Enqueue(i), UNCHANGED handlerVars
      PROVE  Deliveries'
  <2>1. \A j \in Items : rows'[j].state \in {"ABSENT", "PENDING"} =>
            rows[j].state \in {"ABSENT", "PENDING"}
    BY <1>5 DEF Enqueue, TypeOK
  <2> QED
    BY <1>1, <1>5, <2>1 DEF Enqueue, handlerVars, Deliveries
<1>6. CASE \E i \in Items : OrderMoves(i)
  BY <1>2, <1>6 DEF OrderMoves, vars
<1>7. ASSUME NEW w \in Workers, QueueStep(w)
      PROVE  Deliveries'
  <2>1. CASE CommitClaim(w)
    BY <1>7, <2>1, ClaimDelivers
  <2>2. CASE ~CommitClaim(w)
    BY <1>1, <1>7, <2>2, CycleLetsGo DEF QueueStep
  <2> QED
    BY <2>1, <2>2
<1>8. ASSUME NEW w \in Workers, FaultStep(w)
      PROVE  Deliveries'
  <2>1. ~CommitClaim(w)
    BY <1>8 DEF FaultStep, Fault, CompleteErrs, Crash, CommitClaim, TypeOK, Cycle, Idle
  <2> QED
    BY <1>1, <1>8, <2>1, CycleLetsGo DEF FaultStep
<1> QED
  BY <1>3, <1>4, <1>5, <1>6, <1>7, <1>8, HandleStepDelivers DEF CheckpointNext

\* Decisions of a job that are all the same one are at most one.
LEMMA DeliveriesImply == Deliveries => OneDecisionPerDelivery
<1> SUFFICES ASSUME Deliveries, NEW i \in Items \ redelivered
             PROVE  Cardinality({e \in decisions : e.goalId = i}) <= 1
  BY DEF OneDecisionPerDelivery
<1> DEFINE S == {e \in decisions : e.goalId = i}
<1>1. \A d, e \in S : d = e
  BY DEF Deliveries, DeliveredOnce
<1>2. CASE S = {}
  BY <1>2, FS_EmptySet
<1>3. CASE S # {}
  <2>1. PICK d : d \in S
    BY <1>3
  <2>2. S = {d}
    BY <1>1, <2>1
  <2> QED
    BY <2>2, FS_Singleton
<1> QED
  BY <1>2, <1>3

\* A job whose lease never expired under its worker has at most one decision,
\* whatever fails on the way and however many workers there are.
THEOREM DeliveredOnceDecidedOnce == CheckpointSpec => []OneDecisionPerDelivery
<1>1. CheckpointSpec => []IInv
  BY HandlerKeepsQueue, Invariance DEF QueueUnderHandler
<1>2. IInv => TypeOK /\ LocksHeld
  BY DEF IInv
<1>3. CheckpointInit => Deliveries
  BY DEF CheckpointInit, Init, Idle, AbsentRow, Deliveries, DeliveredOnce, Working,
         Undecided
<1> QED
  BY <1>1, <1>2, <1>3, DecisionsStaySound, StepDelivers, DeliveriesImply, PTL
     DEF CheckpointSpec
=============================================================================
