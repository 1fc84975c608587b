---------------------------- MODULE MCWorkQueue ----------------------------
(* Small instances of WorkQueue: times are in ticks, LeaseMs = 2 of them.  *)
EXTENDS WorkQueue, TLC

CONSTANTS i1, i2, w1, w2

\* One job due after a tick; two jobs, the second due at once.
OneDueAt == (i1 :> 1)
TwoDueAt == (i1 :> 1 @@ i2 :> 0)

WorkerSymmetry == Permutations(Workers)
=============================================================================
