----------------------------- MODULE MCGoalPage -----------------------------
(* One page; fetches of a kind overlap in pairs.                           *)
EXTENDS GoalPage, TLC

CONSTANTS u1, u2, s1, s2, t1, t2

GoalPageSymmetry ==
    Permutations(Uids) \cup Permutations(Slots) \cup Permutations(RefreshSlots)
=============================================================================
