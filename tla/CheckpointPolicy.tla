-------------------------- MODULE CheckpointPolicy --------------------------
(***************************************************************************)
(* The pure rules a checkpoint applies:                                    *)
(*   src/domain/checkpoint.ts               decideCheckpoint and its parts *)
(*   src/worker/cow-order-state.ts          toFillPilotOrderState          *)
(*   src/worker/checkpoint-handler.ts       needsFreshQuote                *)
(*   src/worker/cow-checkpoint-sources.ts   CowFreshQuoteReader            *)
(*   src/server/integrations/cow-preflight.ts  what it accepts as a quote  *)
(* Times are ticks and token amounts small numbers.  A goal is a record    *)
(* [state, deadline, minimumBuyAmount, replacementCount].                  *)
(***************************************************************************)
EXTENDS Integers

CONSTANTS
    CHECKPOINT_LEAD,     \* 5 minutes in the code
    MAX_QUOTE_AGE,       \* 1 minute in the code
    TicksPerSecond       \* deadlines are cut to whole seconds for CoW

ASSUME CheckpointPolicyAssumption ==
    /\ CHECKPOINT_LEAD \in Nat \ {0}
    /\ MAX_QUOTE_AGE \in Nat
    /\ TicksPerSecond \in Nat \ {0}

GoalState == {"DRAFT", "READY", "WATCHING", "REPLACING",
              "FULFILLED", "MISSED", "FAILED"}

OrderState == {"OPEN", "FULFILLED", "CANCELLED", "EXPIRED"}

OrderStatus == {"presignaturePending", "open", "fulfilled", "cancelled", "expired"}

DecisionAction == {"KEEP_WATCHING", "REPLACE_ONCE", "RECONCILE_FULFILLED",
                   "MARK_MISSED", "NOOP_TERMINAL"}

Explanation == {"order fulfilled", "goal already terminal", "deadline passed",
                "order is no longer open", "checkpoint not due",
                "replacement limit reached", "no fresh executable quote",
                "quote below minimum receive", "fresh quote meets minimum receive"}

\* An absent quote.
NoQuote == [buyAmount |-> 0, executable |-> FALSE, receivedAt |-> 0, validUntil |-> 0]

-----------------------------------------------------------------------------
isTerminal(state) == state \in {"FULFILLED", "MISSED", "FAILED"}

checkpointAt(deadline) == deadline - CHECKPOINT_LEAD

\* A mistake: reading a closed order as one that is still open.
ToStateMutClosed(status) ==
    CASE status \in {"presignaturePending", "open", "cancelled"} -> "OPEN"
      [] status = "fulfilled" -> "FULFILLED"
      [] status = "expired"   -> "EXPIRED"

toFillPilotOrderState(status) ==
    CASE status \in {"presignaturePending", "open"} -> "OPEN"
      [] status = "fulfilled" -> "FULFILLED"
      [] status = "cancelled" -> "CANCELLED"
      [] status = "expired"   -> "EXPIRED"

needsFreshQuote(goal, now, orderState) ==
    /\ orderState = "OPEN"
    /\ ~isTerminal(goal.state)
    /\ goal.replacementCount = 0
    /\ now >= checkpointAt(goal.deadline)
    /\ now < goal.deadline

isFreshExecutableQuote(quote, now) ==
    /\ quote # NoQuote
    /\ quote.executable
    /\ quote.receivedAt <= now
    /\ now - quote.receivedAt <= MAX_QUOTE_AGE
    /\ quote.validUntil > now

Decision(action, explanation) == [action |-> action, explanation |-> explanation]

\* A mistake: looking at the deadline before looking for a fill.
DecideMutDeadlineFirst(goal, now, orderState, quote) ==
    IF now >= goal.deadline THEN Decision("MARK_MISSED", "deadline passed")
    ELSE IF orderState = "FULFILLED"
         THEN Decision("RECONCILE_FULFILLED", "order fulfilled")
         ELSE Decision("KEEP_WATCHING", "no fresh executable quote")

\* The early returns of the code, in their order.
decideCheckpoint(goal, now, orderState, quote) ==
    IF orderState = "FULFILLED"
    THEN Decision("RECONCILE_FULFILLED", "order fulfilled")
    ELSE IF isTerminal(goal.state)
    THEN Decision("NOOP_TERMINAL", "goal already terminal")
    ELSE IF now >= goal.deadline
    THEN Decision("MARK_MISSED", "deadline passed")
    ELSE IF orderState \in {"CANCELLED", "EXPIRED"}
    THEN Decision("MARK_MISSED", "order is no longer open")
    ELSE IF now < checkpointAt(goal.deadline)
    THEN Decision("KEEP_WATCHING", "checkpoint not due")
    ELSE IF goal.replacementCount > 0
    THEN Decision("KEEP_WATCHING", "replacement limit reached")
    ELSE IF ~isFreshExecutableQuote(quote, now)
    THEN Decision("KEEP_WATCHING", "no fresh executable quote")
    ELSE IF quote.buyAmount < goal.minimumBuyAmount
    THEN Decision("KEEP_WATCHING", "quote below minimum receive")
    ELSE Decision("REPLACE_ONCE", "fresh quote meets minimum receive")

-----------------------------------------------------------------------------
(* getCowPreflight: CoW's answer, a record [verified, buyAmount,           *)
(* expiration], is a quote or an error thrown.                             *)

Second(t) == t \div TicksPerSecond

\* The request itself is refused in the last, partial second.
quoteRequestExpired(goal, now) == Second(goal.deadline) <= Second(now)

preflightVerdict(goal, now, response) ==
    IF ~response.verified THEN "quote-unverified"
    ELSE IF response.expiration <= now THEN "quote-malformed"
    ELSE IF response.buyAmount < goal.minimumBuyAmount THEN "quote-below-floor"
    ELSE "accepted"

\* receivedAt is the `now` the handler read before asking, not the time of
\* the answer.
quoteSnapshot(now, response) ==
    [buyAmount |-> response.buyAmount, executable |-> response.verified,
     receivedAt |-> now, validUntil |-> response.expiration]
=============================================================================
