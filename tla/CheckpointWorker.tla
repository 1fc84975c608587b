-------------------------- MODULE CheckpointWorker --------------------------
(***************************************************************************)
(* WorkQueue with its real handler:                                        *)
(*   src/worker/checkpoint-handler.ts      CheckpointHandler.handle        *)
(*   src/worker/checkpoint-decision.ts     evaluateCheckpoint              *)
(*   src/server/db/checkpoint-store.ts     load and record                 *)
(*   src/worker/checkpoint-runtime.ts      which sources are plugged in    *)
(* A job of Items is the one checkpoint of the goal of that name, so it is *)
(* of kind CHECKPOINT.  handle() awaits four calls (the goal and its       *)
(* order, the order's status at CoW, a quote from CoW, the insert of the   *)
(* decision); each is a step, and the order book, the clock, other workers *)
(* and crashes move between them.                                          *)
(*                                                                         *)
(* External: the order's status at CoW and CoW's answers.  No code posts   *)
(* an order yet (the lifecycle is disabled); as in the handler's tests a   *)
(* goal starts with its posted order in place, or without one.             *)
(***************************************************************************)
EXTENDS WorkQueue, CheckpointPolicy, FiniteSets

CONSTANTS
    Contexts,       \* the goals a job may be about, or Nothing: no posted order
    BuyAmounts,     \* the amounts CoW may quote
    QuoteLives      \* how long CoW's quotes last when they are answered

ASSUME CheckpointWorkerAssumption ==
    /\ \A c \in Contexts \ {Nothing} :
          c.state \in GoalState /\ c.deadline \in Nat /\ c.minimumBuyAmount \in Nat
              /\ c.replacementCount \in {0, 1}
    /\ HandlerReasons = {"VALIDATION", "UNKNOWN"}
    /\ BuyAmounts \subseteq Nat
    /\ QuoteLives \subseteq Nat

VARIABLES
    goals,         \* goal and posted order of each job, as load() finds them
    order,         \* external: each order's status at CoW
    calls,         \* the local variables of each worker's handle() call
    decisions,     \* the decisions table
    endedAt,       \* aux: when the order stopped being open, or Never
    lastCause,     \* aux: what made the handler throw last, per job
    redelivered    \* aux: jobs claimed again while leased

handlerVars == <<goals, order, calls, decisions, endedAt, lastCause, redelivered>>
checkpointVars == <<vars, handlerVars>>

Never == MaxTime + 1

\* A handle() call: the step it awaits, its sampled clock, what it has read
\* and, last, the decision it is writing.
NoEvidence == [goalId |-> Nothing]
NoCall == [step |-> "load", now |-> 0, orderState |-> "OPEN", evidence |-> NoEvidence]

Cause == {"none", "context-missing", "rate-limited", "unavailable", "unsupported",
          "quote-transport", "quote-expired", "quote-unverified", "quote-malformed",
          "quote-below-floor", "database"}

CheckpointInit ==
    /\ Init
    /\ goals \in [Items -> Contexts]
    \* buildCheckpointWork: the job falls due when its goal's checkpoint opens.
    /\ \A i \in Items :
          goals[i] # Nothing => DueAt[i] = checkpointAt(goals[i].deadline)
    /\ order \in [Items -> {"presignaturePending", "open"}]
    /\ calls = [w \in Workers |-> NoCall]
    /\ decisions = {}
    /\ endedAt = [i \in Items |-> Never]
    /\ lastCause = [i \in Items |-> "none"]
    /\ redelivered = {}

-----------------------------------------------------------------------------
\* evaluateCheckpoint: the inputs are stored with the output they determine.
evaluateCheckpoint(i, now, orderState, quote) ==
    LET d == decideCheckpoint(goals[i], now, orderState, quote)
    IN  [goalId |-> i, now |-> now, orderState |-> orderState, quote |-> quote,
         output |-> d.action, explanation |-> d.explanation]

InCall(w, step) == workers[w].pc = "handling" /\ calls[w].step = step

\* handle() throws: a WorkFailure("VALIDATION"), or a plain Error ("UNKNOWN").
Throw(w, reason, cause) ==
    /\ HandlerThrows(w, reason)
    /\ calls' = [calls EXCEPT ![w] = NoCall]
    /\ lastCause' = [lastCause EXCEPT ![workers[w].item] = cause]
    /\ UNCHANGED <<goals, order, decisions, endedAt, redelivered>>

\* handle() moves on to the next await.
Await(w, call) ==
    /\ calls' = [calls EXCEPT ![w] = call]
    /\ UNCHANGED <<vars, goals, order, decisions, endedAt, lastCause, redelivered>>

\* load() answers, and the handler's clock is read at once.
LoadContext(w) ==
    /\ InCall(w, "load")
    /\ \/ /\ goals[workers[w].item] = Nothing
          /\ Throw(w, "VALIDATION", "context-missing")
       \/ /\ goals[workers[w].item] # Nothing
          /\ Await(w, [calls[w] EXCEPT !.step = "status", !.now = clock])

\* Every failure of the status read is a VALIDATION failure.
StatusFails(w) ==
    /\ InCall(w, "status")
    /\ \E cause \in {"rate-limited", "unavailable", "unsupported"} :
          Throw(w, "VALIDATION", cause)

ReadStatus(w) ==
    LET i == workers[w].item
        now == calls[w].now
        orderState == toFillPilotOrderState(order[i])
    IN  /\ InCall(w, "status")
        /\ IF needsFreshQuote(goals[i], now, orderState)
           THEN Await(w, [calls[w] EXCEPT !.step = "quote", !.orderState = orderState])
           ELSE Await(w, [calls[w] EXCEPT !.step = "record",
                            !.evidence = evaluateCheckpoint(i, now, orderState, NoQuote)])

\* The quote is judged by the `now` sampled before the status was read.
ReadQuote(w) ==
    LET i == workers[w].item
        now == calls[w].now
    IN  /\ InCall(w, "quote")
        /\ \/ /\ quoteRequestExpired(goals[i], now)
              /\ Throw(w, "UNKNOWN", "quote-expired")
           \/ /\ ~quoteRequestExpired(goals[i], now)
              /\ Throw(w, "UNKNOWN", "quote-transport")
           \/ /\ ~quoteRequestExpired(goals[i], now)
              /\ \E verified \in BOOLEAN, amount \in BuyAmounts, life \in QuoteLives :
                   LET response == [verified |-> verified, buyAmount |-> amount,
                                    expiration |-> clock + life]
                       verdict == preflightVerdict(goals[i], now, response)
                       quote == quoteSnapshot(now, response)
                   IN  IF verdict = "accepted"
                       THEN Await(w, [calls[w] EXCEPT !.step = "record",
                                !.evidence = evaluateCheckpoint(
                                               i, now, calls[w].orderState, quote)])
                       ELSE Throw(w, "UNKNOWN", verdict)

\* Two mistakes in recording: returning before the insert is made, and asking
\* for a retry when the insert's acknowledgement is lost.
RecordMutUnawaited(w) ==
    /\ InCall(w, "record")
    /\ HandlerReturns(w)
    /\ calls' = [calls EXCEPT ![w] = NoCall]
    /\ UNCHANGED <<goals, order, decisions, endedAt, lastCause, redelivered>>

RecordMutRetry(w) ==
    /\ InCall(w, "record")
    /\ HandlerThrows(w, "NETWORK")
    /\ calls' = [calls EXCEPT ![w] = NoCall]
    /\ decisions' = decisions \cup {calls[w].evidence}
    /\ UNCHANGED <<goals, order, endedAt, lastCause, redelivered>>

\* INSERT ... ON CONFLICT DO NOTHING on (goalId, inputHash); the handler returns.
RecordDecision(w) ==
    /\ InCall(w, "record")
    /\ HandlerReturns(w)
    /\ calls' = [calls EXCEPT ![w] = NoCall]
    /\ decisions' = decisions \cup {calls[w].evidence}
    /\ UNCHANGED <<goals, order, endedAt, lastCause, redelivered>>

\* A database call of the handler fails; a failed insert may have taken effect.
StoreFails(w) ==
    \/ /\ InCall(w, "load") \/ InCall(w, "record")
       /\ Throw(w, "UNKNOWN", "database")
    \/ /\ InCall(w, "record")
       /\ HandlerThrows(w, "UNKNOWN")
       /\ calls' = [calls EXCEPT ![w] = NoCall]
       /\ decisions' = decisions \cup {calls[w].evidence}
       /\ lastCause' = [lastCause EXCEPT ![workers[w].item] = "database"]
       /\ UNCHANGED <<goals, order, endedAt, redelivered>>

-----------------------------------------------------------------------------
\* The queue's own steps; claiming a leased row delivers its job again.
QueueStep(w) ==
    /\ CycleStep(w)
    /\ redelivered' = IF workers[w].pc = "locking" /\ rows[workers[w].item].state = "LEASED"
                      THEN redelivered \cup {workers[w].item} ELSE redelivered
    /\ UNCHANGED <<goals, order, calls, decisions, endedAt, lastCause>>

FaultStep(w) ==
    /\ Fault(w)
    /\ calls' = [calls EXCEPT ![w] = NoCall]
    /\ UNCHANGED <<goals, order, decisions, endedAt, lastCause, redelivered>>

\* External: an order opens, and is filled, cancelled or expires, for good.
OrderMoves(i) ==
    /\ goals[i] # Nothing
    /\ \/ /\ order[i] = "presignaturePending"
          /\ order' = [order EXCEPT ![i] = "open"]
          /\ UNCHANGED endedAt
       \/ /\ order[i] \in {"presignaturePending", "open"}
          /\ \E status \in {"fulfilled", "cancelled", "expired"} :
                /\ order[i] = "presignaturePending" => status # "fulfilled"
                /\ order' = [order EXCEPT ![i] = status]
          /\ endedAt' = [endedAt EXCEPT ![i] = clock]
    /\ UNCHANGED <<vars, goals, calls, decisions, lastCause, redelivered>>

HandleStep(w) ==
    \/ LoadContext(w) \/ StatusFails(w) \/ ReadStatus(w) \/ ReadQuote(w)
    \/ RecordDecision(w) \/ StoreFails(w)

CheckpointNext ==
    \/ (Tick \/ \E i \in Items : Enqueue(i)) /\ UNCHANGED handlerVars
    \/ \E i \in Items : OrderMoves(i)
    \/ \E w \in Workers :
          QueueStep(w) \/ HandleStep(w) \/ FaultStep(w)

CheckpointSpec == CheckpointInit /\ [][CheckpointNext]_checkpointVars

-----------------------------------------------------------------------------
(* Properties.                                                             *)

Quote == [buyAmount : Nat, executable : BOOLEAN, receivedAt : Nat, validUntil : Nat]

Evidence == [goalId : Items, now : Nat, orderState : OrderState, quote : Quote,
             output : DecisionAction, explanation : Explanation]

Call == [step : {"load", "status", "quote", "record"}, now : Nat,
         orderState : OrderState, evidence : Evidence \cup {NoEvidence}]

CheckpointTypeOK ==
    /\ goals \in [Items -> Contexts]
    /\ order \in [Items -> OrderStatus]
    /\ calls \in [Workers -> Call]
    /\ \A w \in Workers :
          /\ calls[w].step # "load" => workers[w].pc = "handling"
                                         /\ goals[workers[w].item] # Nothing
          /\ calls[w].step = "record" => calls[w].evidence \in Evidence
                                           /\ calls[w].evidence.goalId = workers[w].item
    /\ decisions \subseteq Evidence
    /\ endedAt \in [Items -> Nat]
    /\ lastCause \in [Items -> Cause]
    /\ redelivered \subseteq Items

\* A job only counts as complete once its decision is in the table, although
\* the two are separate calls, workers crash in between and a worker may
\* complete a job another one has been handed.
CompleteMeansRecorded ==
    \A i \in Items :
        rows[i].state = "COMPLETE" => \E e \in decisions : e.goalId = i

\* A REPLACE_ONCE receipt is warranted at the moment it is dated: the goal is
\* posted, unreplaced and inside its checkpoint window, its order had not been
\* filled, cancelled or expired before, and the quote met the floor and had not
\* run out.  (The status is read after the clock, so it can only be newer.)
ReplaceIsWarranted ==
    \A e \in decisions : e.output = "REPLACE_ONCE" =>
        LET goal == goals[e.goalId]
        IN  /\ goal # Nothing /\ ~isTerminal(goal.state)
            /\ goal.replacementCount = 0
            /\ goal.deadline - CHECKPOINT_LEAD <= e.now /\ e.now < goal.deadline
            /\ endedAt[e.goalId] >= e.now
            /\ e.quote.executable /\ e.quote.validUntil > e.now
            /\ e.quote.buyAmount >= goal.minimumBuyAmount

\* A goal is never marked missed when its order had been filled by the time
\* the decision is dated, however late the checkpoint runs.
FilledIsNeverMissed ==
    \A e \in decisions :
        (order[e.goalId] = "fulfilled" /\ endedAt[e.goalId] < e.now)
            => e.output = "RECONCILE_FULFILLED"

\* No checkpoint is decided before it is due: the handler's clock is read
\* after the claim's, and the claim was due.
NeverDecidedEarly ==
    \A e \in decisions : e.explanation # "checkpoint not due"

\* Delivered once, a job leaves at most one decision; only the recovery of an
\* expired lease, after a crash or under a slow worker, can leave a second one.
OneDecisionPerDelivery ==
    \A i \in Items \ redelivered :
        Cardinality({e \in decisions : e.goalId = i}) <= 1

\* With this handler in it the queue is still the queue: a handle() call moves
\* nothing of the queue until it returns, or throws one of HandlerReasons.
QueueUnderHandler == Spec

\* src/server/integrations/cow-reader.ts:49, "CoW is rate limiting reads; retry
\* later.": a checkpoint whose status read met a rate limit or an outage is
\* tried again while it has attempts left.  The code kills it (see the README).
TransientReadsAreRetried ==
    \A i \in Items :
        (lastCause[i] \in {"rate-limited", "unavailable"}
            /\ rows[i].attempts < MAX_WORK_ATTEMPTS)
        => rows[i].state # "DEAD"

\* src/domain/checkpoint.test.ts:46, "keeps watching ... for a stale/below-floor
\* quote": a quote below the floor leaves a decision to keep watching, not a
\* dead job.  The code throws on such a quote before deciding (see the README).
BelowFloorKeepsWatching ==
    \A i \in Items : lastCause[i] = "quote-below-floor" => rows[i].state # "DEAD"
=============================================================================
