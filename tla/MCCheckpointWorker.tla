------------------------- MODULE MCCheckpointWorker -------------------------
(* One goal of each kind, its checkpoint due two ticks before the deadline. *)
EXTENDS CheckpointWorker, TLC

CONSTANTS g1, w1, w2

Goal(state, replaced) ==
    [state |-> state, deadline |-> 4, minimumBuyAmount |-> 2,
     replacementCount |-> replaced]

\* Watching, already replaced, already over, and without a posted order.
AllContexts == {Goal("WATCHING", 0), Goal("WATCHING", 1), Goal("MISSED", 0), Nothing}
WatchingContext == {Goal("WATCHING", 0)}

\* As CheckpointInit asks, due at checkpointAt(deadline).
CheckpointDueAt == [i \in {g1} |-> checkpointAt(4)]

WorkerSymmetry == Permutations(Workers)
=============================================================================
