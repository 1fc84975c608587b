----------------------------- MODULE Lifecycle -----------------------------
(***************************************************************************)
(* The life of goals and of the replacement of their orders:               *)
(*   src/domain/goal.ts, src/domain/replacement.ts                         *)
(* Both are pure transition functions that throw for an event they do not  *)
(* accept, so any event may be offered at any time and a refused one       *)
(* changes nothing.  Nothing in the repository couples the two machines of *)
(* a goal; here too the events of either come in any order.                *)
(*                                                                         *)
(* `oldOrder`, `newPresign`, `newOrder` and `replacements` are auxiliary:  *)
(* what the accepted events say has happened outside the program.          *)
(***************************************************************************)
EXTENDS Naturals

CONSTANT Goals

VARIABLES
    state,              \* Goal.state
    replacementCount,
    replacement,        \* ReplacementState
    oldOrder,           \* aux: the first order may still be filled
    newPresign,         \* aux: the second order is signed on chain
    newOrder,           \* aux: the second order is posted
    replacements        \* aux: how many replacements a goal has begun

vars == <<state, replacementCount, replacement,
          oldOrder, newPresign, newOrder, replacements>>

goalVars == <<state, replacementCount, replacements>>
replacementVars == <<replacement, oldOrder, newPresign, newOrder>>

terminalStates == {"FULFILLED", "MISSED", "FAILED"}
GoalState == {"DRAFT", "READY", "WATCHING", "REPLACING"} \cup terminalStates

terminalReplacements == {"POSTED", "COMPENSATED", "FAILED"}
ReplacementState ==
    {"NONE", "NEW_PRESIGN_CONFIRMED", "OLD_INVALIDATED"} \cup terminalReplacements

isTerminal(s) == s \in terminalStates
isReplacementTerminal(s) == s \in terminalReplacements
canScheduleWrite(s) == s \in {"READY", "WATCHING", "REPLACING"}

Init ==
    /\ state = [g \in Goals |-> "DRAFT"]
    /\ replacementCount = [g \in Goals |-> 0]
    /\ replacement = [g \in Goals |-> "NONE"]
    /\ oldOrder = [g \in Goals |-> TRUE]
    /\ newPresign = [g \in Goals |-> FALSE]
    /\ newOrder = [g \in Goals |-> FALSE]
    /\ replacements = [g \in Goals |-> 0]

-----------------------------------------------------------------------------
(* transitionGoal                                                          *)

Become(g, s) ==
    /\ state' = [state EXCEPT ![g] = s]
    /\ UNCHANGED replacementVars

\* A mistake: a goal that has ended may still be declared missed or failed.
EndMutAnytime(g) ==
    \E s \in terminalStates :
        Become(g, s) /\ UNCHANGED <<replacementCount, replacements>>

\* FULFILL, MISS, FAIL
End(g) ==
    /\ ~isTerminal(state[g])
    /\ \E s \in terminalStates : Become(g, s)
    /\ UNCHANGED <<replacementCount, replacements>>

ARM(g) ==
    /\ state[g] = "DRAFT" /\ Become(g, "READY")
    /\ UNCHANGED <<replacementCount, replacements>>

START_WATCHING(g) ==
    /\ state[g] = "READY" /\ Become(g, "WATCHING")
    /\ UNCHANGED <<replacementCount, replacements>>

\* A mistake: the count is not looked at.
BeginMutUncounted(g) ==
    /\ state[g] = "WATCHING"
    /\ Become(g, "REPLACING")
    /\ replacements' = [replacements EXCEPT ![g] = @ + 1]
    /\ UNCHANGED replacementCount

BEGIN_REPLACEMENT(g) ==
    /\ state[g] = "WATCHING" /\ replacementCount[g] = 0
    /\ Become(g, "REPLACING")
    /\ replacements' = [replacements EXCEPT ![g] = @ + 1]
    /\ UNCHANGED replacementCount

POST_REPLACEMENT(g) ==
    /\ state[g] = "REPLACING" /\ Become(g, "WATCHING")
    /\ replacementCount' = [replacementCount EXCEPT ![g] = 1]
    /\ UNCHANGED replacements

-----------------------------------------------------------------------------
(* transitionReplacement                                                   *)

Move(g, from, to) ==
    /\ replacement[g] \in from
    /\ replacement' = [replacement EXCEPT ![g] = to]
    /\ UNCHANGED goalVars

CONFIRM_NEW_PRESIGN(g) ==
    /\ Move(g, {"NONE"}, "NEW_PRESIGN_CONFIRMED")
    /\ newPresign' = [newPresign EXCEPT ![g] = TRUE]
    /\ UNCHANGED <<oldOrder, newOrder>>

CONFIRM_OLD_INVALIDATION(g) ==
    /\ Move(g, {"NEW_PRESIGN_CONFIRMED"}, "OLD_INVALIDATED")
    /\ oldOrder' = [oldOrder EXCEPT ![g] = FALSE]
    /\ UNCHANGED <<newPresign, newOrder>>

\* A mistake: a signature is enough to post the new order.
PostNewMutEarly(g) ==
    /\ Move(g, {"NEW_PRESIGN_CONFIRMED", "OLD_INVALIDATED"}, "POSTED")
    /\ newOrder' = [newOrder EXCEPT ![g] = TRUE]
    /\ UNCHANGED <<oldOrder, newPresign>>

POST_NEW_ORDER(g) ==
    /\ Move(g, {"OLD_INVALIDATED"}, "POSTED")
    /\ newOrder' = [newOrder EXCEPT ![g] = TRUE]
    /\ UNCHANGED <<oldOrder, newPresign>>

\* A mistake: the clean-up is accepted whatever became of the old order.
CleanMutLate(g) ==
    /\ Move(g, {"NEW_PRESIGN_CONFIRMED", "OLD_INVALIDATED"}, "COMPENSATED")
    /\ newPresign' = [newPresign EXCEPT ![g] = FALSE]
    /\ UNCHANGED <<oldOrder, newOrder>>

CLEAN_UP_UNUSED_PRESIGN(g) ==
    /\ Move(g, {"NEW_PRESIGN_CONFIRMED"}, "COMPENSATED")
    /\ newPresign' = [newPresign EXCEPT ![g] = FALSE]
    /\ UNCHANGED <<oldOrder, newOrder>>

FAIL(g) ==
    /\ Move(g, {s \in ReplacementState : ~isReplacementTerminal(s)}, "FAILED")
    /\ UNCHANGED <<oldOrder, newPresign, newOrder>>

-----------------------------------------------------------------------------
Next ==
    \E g \in Goals :
        \/ End(g) \/ ARM(g) \/ START_WATCHING(g)
        \/ BEGIN_REPLACEMENT(g) \/ POST_REPLACEMENT(g)
        \/ CONFIRM_NEW_PRESIGN(g) \/ CONFIRM_OLD_INVALIDATION(g)
        \/ POST_NEW_ORDER(g) \/ CLEAN_UP_UNUSED_PRESIGN(g) \/ FAIL(g)

Spec == Init /\ [][Next]_vars

-----------------------------------------------------------------------------
(* Properties.                                                             *)

TypeOK ==
    /\ state \in [Goals -> GoalState]
    /\ replacementCount \in [Goals -> 0..1]
    /\ replacement \in [Goals -> ReplacementState]
    /\ oldOrder \in [Goals -> BOOLEAN]
    /\ newPresign \in [Goals -> BOOLEAN]
    /\ newOrder \in [Goals -> BOOLEAN]
    /\ replacements \in [Goals -> Nat]

\* "A goal can replace its order at most once": whatever the order of events, a
\* goal begins one replacement in its life, though it watches again afterwards.
ReplacedAtMostOnce == \A g \in Goals : replacements[g] <= 1

\* The two orders of a goal are never both open to be filled, and the second is
\* never posted unsigned.
NeverTwoOrders ==
    \A g \in Goals : newOrder[g] => ~oldOrder[g] /\ newPresign[g]

\* A replacement that ends in anything but FAILED leaves one order standing and
\* no signature without its order: only FAIL can leave one behind, or no order.
OneOrderStands ==
    \A g \in Goals :
        replacement[g] \in {"POSTED", "COMPENSATED"} =>
            oldOrder[g] # newOrder[g] /\ newOrder[g] = newPresign[g]

\* Once no write may be scheduled for a goal that had left its draft, none ever
\* may again.
WritesEndForGood ==
    [][\A g \in Goals :
          (state[g] # "DRAFT" /\ ~canScheduleWrite(state[g])) =>
              ~canScheduleWrite(state'[g]) /\ state'[g] = state[g]]_vars
=============================================================================
