------------------------------ MODULE WorkItem ------------------------------
(***************************************************************************)
(* What src/domain/work.ts promises about ONE job: it is written down once *)
(* as pending work, it is only ever claimed when due and not held, only a  *)
(* leased job is completed or failed, and a completed or dead job is never *)
(* touched again.  WorkQueue is shown to implement this for each of its    *)
(* rows.                                                                   *)
(***************************************************************************)
EXTENDS Work

VARIABLES
    item,    \* the job, or NoItem before it is enqueued
    clock    \* wall-clock time; a caller's `now` was read at it or earlier

NoItem == [state |-> "ABSENT", attempts |-> 0, dueAt |-> 0,
           leaseExpiresAt |-> NoLease]

Init == item = NoItem

Enqueue ==
    /\ item = NoItem
    /\ item' = [NoItem EXCEPT !.state = "PENDING", !.dueAt = item'.dueAt]

Claim ==
    \E now \in 0..clock : canClaim(item, now) /\ item' = claimWorkItem(item, now)

Complete == item.state = "LEASED" /\ item' = completeWorkItem(item)

\* failWorkItem is given any job; that only a leased one fails is the queue's rule
\* (WHERE ... AND state = 'LEASED'), as it is completeWorkItem's of its own.
Fail ==
    /\ item.state = "LEASED"
    /\ \E now \in 0..clock, reason \in RetryReason :
          item' = failWorkItem(item, now, reason)

Next == Enqueue \/ Claim \/ Complete \/ Fail

Spec == Init /\ [][Next]_item
=============================================================================
