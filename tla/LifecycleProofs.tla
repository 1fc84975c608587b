-------------------------- MODULE LifecycleProofs --------------------------
(***************************************************************************)
(* Proofs about the lives of goals and replacements, for any set of goals. *)
(* The strengthening says what each state of either machine implies of     *)
(* what has happened: Counted for the goals, Stands for the replacements.  *)
(***************************************************************************)
EXTENDS Lifecycle, TLAPS

\* No replacement has begun until one could, and only one ever does.
Counted ==
    \A g \in Goals :
        /\ replacements[g] \in 0..1
        /\ \/ state[g] \in {"DRAFT", "READY"}
           \/ state[g] = "WATCHING" /\ replacementCount[g] = 0
           => replacements[g] = 0

\* What each state of a replacement says of the two orders.
Stands ==
    \A g \in Goals :
        /\ replacement[g] \in {"NONE", "NEW_PRESIGN_CONFIRMED", "COMPENSATED"} => oldOrder[g]
        /\ replacement[g] \in {"OLD_INVALIDATED", "POSTED"} => ~oldOrder[g] /\ newPresign[g]
        /\ replacement[g] = "NEW_PRESIGN_CONFIRMED" => newPresign[g]
        /\ replacement[g] \in {"NONE", "COMPENSATED"} => ~newPresign[g]
        /\ newOrder[g] <=> replacement[g] = "POSTED"

Inv == TypeOK /\ Counted /\ Stands

\* A goal's own events leave the replacements as they are.
LEMMA GoalStep ==
    ASSUME NEW g \in Goals, Inv,
           End(g) \/ ARM(g) \/ START_WATCHING(g) \/ BEGIN_REPLACEMENT(g) \/ POST_REPLACEMENT(g)
    PROVE  Inv'
<1> USE DEF Inv, TypeOK, Counted, Stands, Become, replacementVars, GoalState, terminalStates
<1>1. CASE End(g)
    BY <1>1 DEF End, isTerminal
<1>2. CASE ARM(g)
    BY <1>2 DEF ARM
<1>3. CASE START_WATCHING(g)
    BY <1>3 DEF START_WATCHING
<1>4. CASE BEGIN_REPLACEMENT(g)
    BY <1>4 DEF BEGIN_REPLACEMENT
<1>5. CASE POST_REPLACEMENT(g)
    BY <1>5 DEF POST_REPLACEMENT
<1> QED
    BY <1>1, <1>2, <1>3, <1>4, <1>5

\* The events of a replacement leave the goals as they are.
LEMMA ReplacementStep ==
    ASSUME NEW g \in Goals, Inv,
           \/ CONFIRM_NEW_PRESIGN(g) \/ CONFIRM_OLD_INVALIDATION(g)
           \/ POST_NEW_ORDER(g) \/ CLEAN_UP_UNUSED_PRESIGN(g) \/ FAIL(g)
    PROVE  Inv'
<1> USE DEF Inv, TypeOK, Counted, Stands, Move, goalVars,
            ReplacementState, terminalReplacements
<1>1. CASE CONFIRM_NEW_PRESIGN(g)
    BY <1>1 DEF CONFIRM_NEW_PRESIGN
<1>2. CASE CONFIRM_OLD_INVALIDATION(g)
    BY <1>2 DEF CONFIRM_OLD_INVALIDATION
<1>3. CASE POST_NEW_ORDER(g)
    BY <1>3 DEF POST_NEW_ORDER
<1>4. CASE CLEAN_UP_UNUSED_PRESIGN(g)
    BY <1>4 DEF CLEAN_UP_UNUSED_PRESIGN
<1>5. CASE FAIL(g)
    BY <1>5 DEF FAIL, isReplacementTerminal
<1> QED
    BY <1>1, <1>2, <1>3, <1>4, <1>5

LEMMA Invariance == Spec => []Inv
<1>1. Init => Inv
    BY DEF Init, Inv, TypeOK, Counted, Stands, GoalState, ReplacementState
<1>2. Inv /\ [Next]_vars => Inv'
  <2> SUFFICES ASSUME Inv, [Next]_vars PROVE Inv'
      OBVIOUS
  <2>1. CASE Next
      BY <2>1, GoalStep, ReplacementStep DEF Next
  <2>2. CASE UNCHANGED vars
      BY <2>2 DEF vars, Inv, TypeOK, Counted, Stands
  <2> QED
      BY <2>1, <2>2
<1> QED
    BY <1>1, <1>2, PTL DEF Spec

\* Type correctness of both machines and of what is said to have happened.
THEOREM LifecycleTypeCorrect == Spec => []TypeOK
<1>1. Inv => TypeOK
    BY DEF Inv
<1> QED
    BY <1>1, Invariance, PTL

\* "A goal can replace its order at most once" (src/domain/goal.ts:58), for any
\* goals and any order of their events.
THEOREM ReplacesOnce == Spec => []ReplacedAtMostOnce
<1>1. ASSUME Inv, NEW g \in Goals PROVE replacements[g] <= 1
  <2>1. replacements[g] \in 0..1
      BY <1>1 DEF Inv, Counted
  <2> QED
      BY <2>1
<1>2. Inv => ReplacedAtMostOnce
    BY <1>1 DEF ReplacedAtMostOnce
<1> QED
    BY <1>2, Invariance, PTL

\* The new order is never posted while the old one may still be filled.
THEOREM NoTwoOrders == Spec => []NeverTwoOrders
<1>1. Inv => NeverTwoOrders
    BY DEF Inv, Stands, NeverTwoOrders
<1> QED
    BY <1>1, Invariance, PTL

\* Whatever way a replacement ends, unless it fails, one order stands and no
\* signature is left without its order.
THEOREM OneStands == Spec => []OneOrderStands
<1>1. ASSUME Inv PROVE OneOrderStands
  <2>1. ASSUME NEW g \in Goals, replacement[g] = "POSTED"
        PROVE  oldOrder[g] = FALSE /\ newOrder[g] = TRUE /\ newPresign[g] = TRUE
      BY <1>1, <2>1 DEF Inv, TypeOK, Stands
  <2>2. ASSUME NEW g \in Goals, replacement[g] = "COMPENSATED"
        PROVE  oldOrder[g] = TRUE /\ newOrder[g] = FALSE /\ newPresign[g] = FALSE
      BY <1>1, <2>2 DEF Inv, TypeOK, Stands
  <2> QED
      BY <2>1, <2>2 DEF OneOrderStands
<1> QED
    BY <1>1, Invariance, PTL

\* No event starts a goal again that may not schedule a write any more.
THEOREM WritesEnd == Spec => WritesEndForGood
<1>1. Inv /\ [Next]_vars =>
        [\A g \in Goals :
            (state[g] # "DRAFT" /\ ~canScheduleWrite(state[g])) =>
                ~canScheduleWrite(state'[g]) /\ state'[g] = state[g]]_vars
  <2> SUFFICES ASSUME Inv, Next, NEW g \in Goals,
                      state[g] # "DRAFT", ~canScheduleWrite(state[g])
               PROVE  state'[g] = state[g]
      BY DEF canScheduleWrite
  <2>1. PICK h \in Goals :
            \/ End(h) \/ ARM(h) \/ START_WATCHING(h)
            \/ BEGIN_REPLACEMENT(h) \/ POST_REPLACEMENT(h)
            \/ state' = state
      BY DEF Next, Move, goalVars, CONFIRM_NEW_PRESIGN, CONFIRM_OLD_INVALIDATION,
             POST_NEW_ORDER, CLEAN_UP_UNUSED_PRESIGN, FAIL
  <2>2. isTerminal(state[g])
      BY DEF Inv, TypeOK, GoalState, canScheduleWrite, isTerminal
  <2> QED
      BY <2>1, <2>2 DEF Inv, TypeOK, GoalState, terminalStates, isTerminal, Become,
             End, ARM, START_WATCHING, BEGIN_REPLACEMENT, POST_REPLACEMENT
<1> QED
    BY <1>1, Invariance, PTL DEF Spec, WritesEndForGood
=============================================================================
