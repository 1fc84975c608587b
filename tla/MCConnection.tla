---------------------------- MODULE MCConnection ----------------------------
(* One browser with up to two attempts and two requests at a time.         *)
EXTENDS Connection, TLC

CONSTANTS a1, a2, r1, r2, c1

ConnectionSymmetry == Permutations(Requests) \cup Permutations(Attempts)
=============================================================================
