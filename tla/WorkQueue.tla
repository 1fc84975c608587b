----------------------------- MODULE WorkQueue -----------------------------
(***************************************************************************)
(* The durable job queue and the workers that drain it:                    *)
(*   src/server/db/work-queue.ts   PostgresWorkQueue, the SQL statements   *)
(*   src/worker/worker-cycle.ts    runWorkerCycle, one worker's control    *)
(*   src/server/db/repository.ts   enqueueCheckpointWork                   *)
(*                                                                         *)
(* `rows` is the work_items table.  `workers` holds the local variables of *)
(* the runWorkerCycle call each worker is in: where it is (pc), the job it *)
(* was handed, the `now` it read when the cycle began and the reason it    *)
(* will report.  Between two of its steps any other worker may move, time  *)
(* may pass and the process may die.                                       *)
(*                                                                         *)
(* What the handler does with a job is left open here (it may return, or   *)
(* throw for any reason); CheckpointWorker composes the real handler.      *)
(* `holder` and `usurped` are auxiliary: no step reads them.               *)
(***************************************************************************)
EXTENDS Work

CONSTANTS
    Items,            \* jobs, named by their deduplication key
    Workers,          \* concurrent runWorkerCycle loops
    Nothing,          \* no job / no worker / no reason
    DueAt,            \* when each job first falls due
    HandlerReasons,   \* the reasons handlers report, a subset of RetryReason
    MaxTime,          \* bound: the clock stops here
    Slack,            \* bound: how far the clock runs past the last awaited instant
    MaxFaults         \* bound: crashes and failed database calls

ASSUME WorkQueueAssumption ==
    /\ DueAt \in [Items -> Nat]
    /\ HandlerReasons \subseteq RetryReason
    /\ MaxTime \in Nat
    /\ Slack \in Nat
    /\ MaxFaults \in Nat
    /\ Nothing \notin Items \cup Workers \cup RetryReason

VARIABLES
    clock,      \* wall-clock time
    rows,       \* the work_items table
    workers,    \* the runWorkerCycle call each worker is in
    faults,     \* crashes and failed database calls so far
    holder,     \* aux: the worker whose claim wrote the row's current lease
    usurped     \* aux: jobs whose lease was ended by someone else

vars == <<clock, rows, workers, faults, holder, usurped>>

Idle == [pc |-> "idle", item |-> Nothing, now |-> 0, reason |-> Nothing]

AbsentRow == [state |-> "ABSENT", attempts |-> 0, dueAt |-> 0,
              leaseExpiresAt |-> NoLease]

Row == [state : WorkState \cup {"ABSENT"}, attempts : 0..MAX_WORK_ATTEMPTS,
        dueAt : Nat, leaseExpiresAt : Nat \cup {NoLease}]

Cycle == [pc : {"idle", "claiming", "locking", "handling", "completing",
                "failing"},
          item : Items \cup {Nothing}, now : Nat,
          reason : RetryReason \cup {Nothing}]

Init ==
    /\ clock = 0
    /\ rows = [i \in Items |-> AbsentRow]
    /\ workers = [w \in Workers |-> Idle]
    /\ faults = 0
    /\ holder = [i \in Items |-> Nothing]
    /\ usurped = {}

-----------------------------------------------------------------------------
(* Row locks.  The claim is one statement, but a SELECT ... FOR UPDATE and *)
(* then an UPDATE: the row is locked in between.                           *)

LockedByOther(w, i) ==
    \E v \in Workers \ {w} : workers[v].pc = "locking" /\ workers[v].item = i

\* Four mistakes the definition of Due below avoids; each breaks a property: no
\* SKIP LOCKED, a lease that is not honoured, a lease that is never recovered,
\* a due time that is not looked at.
DueMutNoLock(w) ==
    LET now == workers[w].now
    IN  {i \in Items :
           /\ rows[i].dueAt <= now
           /\ \/ rows[i].state = "PENDING"
              \/ rows[i].state = "LEASED" /\ rows[i].leaseExpiresAt <= now}

DueMutAnyLease(w) ==
    LET now == workers[w].now
    IN  {i \in Items :
           /\ ~LockedByOther(w, i)
           /\ rows[i].dueAt <= now
           /\ rows[i].state \in {"PENDING", "LEASED"}}

DueMutPendingOnly(w) ==
    LET now == workers[w].now
    IN  {i \in Items :
           /\ ~LockedByOther(w, i)
           /\ rows[i].dueAt <= now
           /\ rows[i].state = "PENDING"}

DueMutEarly(w) ==
    LET now == workers[w].now
    IN  {i \in Items :
           /\ ~LockedByOther(w, i)
           /\ \/ rows[i].state = "PENDING"
              \/ rows[i].state = "LEASED" /\ rows[i].leaseExpiresAt <= now}

\* The rows a claim at the cycle's `now` may pick, after SKIP LOCKED.
Due(w) ==
    LET now == workers[w].now
    IN  {i \in Items :
           /\ ~LockedByOther(w, i)
           /\ rows[i].dueAt <= now
           /\ \/ rows[i].state = "PENDING"
              \/ rows[i].state = "LEASED" /\ rows[i].leaseExpiresAt <= now}

-----------------------------------------------------------------------------
(* The table's row after each statement.                                   *)

ClaimedRow(row, now) ==
    [row EXCEPT !.state = "LEASED", !.leaseExpiresAt = now + LeaseMs]

CompletedRow(row) ==
    [row EXCEPT !.state = "COMPLETE", !.leaseExpiresAt = NoLease]

RetryRow(row, now) ==
    [row EXCEPT
        !.attempts = @ + 1, !.state = "PENDING",
        !.dueAt = now + Smaller(MAX_RETRY_DELAY,
                                BASE_RETRY_DELAY * 2^(row.attempts)),
        !.leaseExpiresAt = NoLease]

DeadRow(row) ==
    [row EXCEPT !.attempts = @ + 1, !.state = "DEAD", !.leaseExpiresAt = NoLease]

\* A mistake FailedRow avoids: counting the failures before this one.
FailedRowMutBound(row, now, reason) ==
    IF Retryable(reason) /\ row.attempts < MAX_WORK_ATTEMPTS
    THEN RetryRow(row, now) ELSE DeadRow(row)

FailedRow(row, now, reason) ==
    IF Retryable(reason) /\ row.attempts + 1 < MAX_WORK_ATTEMPTS
    THEN RetryRow(row, now) ELSE DeadRow(row)

-----------------------------------------------------------------------------
(* Steps.                                                                  *)

\* enqueueCheckpointWork: insert unless the deduplication key is present.
Enqueue(i) ==
    /\ rows[i].state = "ABSENT"
    /\ rows' = [rows EXCEPT ![i].state = "PENDING", ![i].dueAt = DueAt[i]]
    /\ UNCHANGED <<clock, workers, faults, holder, usurped>>

\* runWorkerCycle(queue, handler, now = new Date()).
StartCycle(w) ==
    /\ workers[w].pc = "idle"
    /\ workers' = [workers EXCEPT ![w].pc = "claiming", ![w].now = clock]
    /\ UNCHANGED <<clock, rows, faults, holder, usurped>>

\* claimDue finds no row: the cycle is "idle".
NothingDue(w) ==
    /\ workers[w].pc = "claiming"
    /\ Due(w) = {}
    /\ workers' = [workers EXCEPT ![w] = Idle]
    /\ UNCHANGED <<clock, rows, faults, holder, usurped>>

\* claimDue's SELECT locks the row that fell due first.
SelectForUpdate(w) ==
    /\ workers[w].pc = "claiming"
    /\ \E i \in Due(w) :
          /\ \A j \in Due(w) : rows[i].dueAt <= rows[j].dueAt
          /\ workers' = [workers EXCEPT ![w].pc = "locking", ![w].item = i]
    /\ UNCHANGED <<clock, rows, faults, holder, usurped>>

\* claimDue's UPDATE commits: the lease counts from the cycle's `now`.
CommitClaim(w) ==
    LET i == workers[w].item
    IN  /\ workers[w].pc = "locking"
        /\ rows' = [rows EXCEPT ![i] = ClaimedRow(@, workers[w].now)]
        /\ holder' = [holder EXCEPT ![i] = w]
        /\ workers' = [workers EXCEPT ![w].pc = "handling"]
        /\ UNCHANGED <<clock, faults, usurped>>

HandlerReturns(w) ==
    /\ workers[w].pc = "handling"
    /\ workers' = [workers EXCEPT ![w].pc = "completing"]
    /\ UNCHANGED <<clock, rows, faults, holder, usurped>>

\* A WorkFailure carries its reason; anything else thrown is "UNKNOWN".
HandlerThrows(w, reason) ==
    /\ workers[w].pc = "handling"
    /\ workers' = [workers EXCEPT ![w].pc = "failing", ![w].reason = reason]
    /\ UNCHANGED <<clock, rows, faults, holder, usurped>>

\* The lease on i is ended, by its holder or by a worker that has lost it.
EndLease(w, i) ==
    /\ holder' = [holder EXCEPT ![i] = Nothing]
    /\ usurped' = IF holder[i] = w THEN usurped ELSE usurped \cup {i}

\* complete(): WHERE id = i AND state = 'LEASED'.
Complete(w) ==
    LET i == workers[w].item
    IN  /\ workers[w].pc = "completing"
        /\ ~LockedByOther(w, i)
        /\ rows[i].state = "LEASED"
        /\ rows' = [rows EXCEPT ![i] = CompletedRow(@)]
        /\ EndLease(w, i)
        /\ workers' = [workers EXCEPT ![w] = Idle]
        /\ UNCHANGED <<clock, faults>>

\* complete() changes no row and throws inside the try: the job is failed.
CompleteRejected(w) ==
    LET i == workers[w].item
    IN  /\ workers[w].pc = "completing"
        /\ ~LockedByOther(w, i)
        /\ rows[i].state # "LEASED"
        /\ workers' = [workers EXCEPT ![w].pc = "failing",
                                      ![w].reason = "UNKNOWN"]
        /\ UNCHANGED <<clock, rows, faults, holder, usurped>>

\* The database call fails, before or after its effect: the job is failed.
CompleteErrs(w) ==
    LET i == workers[w].item
    IN  /\ workers[w].pc = "completing"
        /\ faults < MaxFaults
        /\ faults' = faults + 1
        /\ workers' = [workers EXCEPT ![w].pc = "failing",
                                      ![w].reason = "UNKNOWN"]
        /\ \/ UNCHANGED <<rows, holder, usurped>>
           \/ /\ ~LockedByOther(w, i)
              /\ rows[i].state = "LEASED"
              /\ rows' = [rows EXCEPT ![i] = CompletedRow(@)]
              /\ EndLease(w, i)
        /\ UNCHANGED clock

\* A mistake Fail avoids: failing the row whatever its state.
FailMutUnguarded(w) ==
    LET i == workers[w].item
    IN  /\ workers[w].pc = "failing"
        /\ ~LockedByOther(w, i)
        /\ rows' = [rows EXCEPT ![i] = FailedRow(@, workers[w].now,
                                                 workers[w].reason)]
        /\ EndLease(w, i)
        /\ workers' = [workers EXCEPT ![w] = Idle]
        /\ UNCHANGED <<clock, faults>>

\* fail(): WHERE id = i AND state = 'LEASED'; the back-off counts from `now`.
Fail(w) ==
    LET i == workers[w].item
    IN  /\ workers[w].pc = "failing"
        /\ ~LockedByOther(w, i)
        /\ rows[i].state = "LEASED"
        /\ rows' = [rows EXCEPT ![i] = FailedRow(@, workers[w].now,
                                                 workers[w].reason)]
        /\ EndLease(w, i)
        /\ workers' = [workers EXCEPT ![w] = Idle]
        /\ UNCHANGED <<clock, faults>>

\* fail() changes no row and throws: the cycle's promise rejects.
FailRejected(w) ==
    LET i == workers[w].item
    IN  /\ workers[w].pc = "failing"
        /\ ~LockedByOther(w, i)
        /\ rows[i].state # "LEASED"
        /\ workers' = [workers EXCEPT ![w] = Idle]
        /\ UNCHANGED <<clock, rows, faults, holder, usurped>>

\* The process dies, or a database call of the cycle throws out of it: the
\* call's local variables are gone, a row lock is rolled back and a written
\* lease is left behind.
Crash(w) ==
    /\ workers[w].pc # "idle"
    /\ faults < MaxFaults
    /\ faults' = faults + 1
    /\ workers' = [workers EXCEPT ![w] = Idle]
    /\ UNCHANGED <<clock, rows, holder, usurped>>

\* Time matters to a row until it is due and until its lease has expired.
Awaited ==
    UNION {{rows[i].dueAt, rows[i].leaseExpiresAt} :
             i \in {j \in Items : rows[j].state \in {"PENDING", "LEASED"}}}

Tick ==
    /\ clock < MaxTime
    /\ \E t \in Awaited : clock < t + Slack
    /\ clock' = clock + 1
    /\ UNCHANGED <<rows, workers, faults, holder, usurped>>

\* What the queue and the worker's own code do with a cycle.
CycleStep(w) ==
    \/ StartCycle(w) \/ NothingDue(w) \/ SelectForUpdate(w) \/ CommitClaim(w)
    \/ Complete(w) \/ CompleteRejected(w) \/ Fail(w) \/ FailRejected(w)

HandlerStep(w) ==
    HandlerReturns(w) \/ \E reason \in HandlerReasons : HandlerThrows(w, reason)

Fault(w) == CompleteErrs(w) \/ Crash(w)

Next ==
    \/ Tick
    \/ \E i \in Items : Enqueue(i)
    \/ \E w \in Workers : CycleStep(w) \/ HandlerStep(w) \/ Fault(w)

Spec == Init /\ [][Next]_vars

\* Each worker keeps calling runWorkerCycle, its calls and its handler come
\* back, and time passes.  Crashes owe nothing.
Fairness ==
    /\ WF_vars(Tick)
    /\ \A w \in Workers : WF_vars(CycleStep(w) \/ HandlerStep(w))

FairSpec == Spec /\ Fairness

-----------------------------------------------------------------------------
(* Properties.                                                             *)

TypeOK ==
    /\ clock \in Nat
    /\ rows \in [Items -> Row]
    /\ workers \in [Workers -> Cycle]
    /\ \A w \in Workers :
          /\ workers[w].pc \in {"locking", "handling", "completing", "failing"}
                => workers[w].item \in Items
          /\ workers[w].pc = "failing" => workers[w].reason \in RetryReason
    /\ faults \in Nat
    /\ holder \in [Items -> Workers \cup {Nothing}]
    /\ usurped \subseteq Items

\* A row's columns agree however claims, completions, failures and crashes of
\* several workers interleave: a lease is written exactly while the row is
\* leased (so that a crashed worker's row can be found again), no live row has
\* used up its attempts, and a dead row has at least the failure that killed it.
RowsCoherent ==
    \A i \in Items :
        LET row == rows[i]
        IN  /\ row.state = "LEASED" <=> row.leaseExpiresAt # NoLease
            /\ row.state # "DEAD" => row.attempts < MAX_WORK_ATTEMPTS
            /\ row.state = "DEAD" => row.attempts \in 1..MAX_WORK_ATTEMPTS

\* w was handed a job and its own lease, counted from its own `now`, still runs.
WithinLease(w, i) ==
    /\ workers[w].item = i
    /\ workers[w].pc \in {"handling", "completing", "failing"}
    /\ clock < workers[w].now + LeaseMs

\* As long as no worker has ended a lease that was not its own, a job has at
\* most one worker within its lease, and the row records that worker's lease
\* (or the job is complete, and that worker has yet to learn it).
\* This is what FOR UPDATE SKIP LOCKED and the lease predicate buy.
ExclusiveLease ==
    \A i \in Items \ usurped : \A w \in Workers :
        WithinLease(w, i) =>
            /\ \/ rows[i].state = "COMPLETE"
               \/ /\ rows[i].state = "LEASED"
                  /\ rows[i].leaseExpiresAt = workers[w].now + LeaseMs
            /\ \A v \in Workers \ {w} : ~WithinLease(v, i)

\* A lease is only ever ended by another worker once it has expired: whoever
\* ends a lease that is not its own had, by then, overrun its own lease.
\* (A worker that keeps to its lease never disturbs another.)
OnlyLateWorkersUsurp ==
    [][ \A i \in Items, w \in Workers :
          (/\ i \in usurped' \ usurped
           /\ workers[w].item = i
           /\ workers'[w] # workers[w])
          => ~WithinLease(w, i) ]_vars

\* A job that is COMPLETE or DEAD is never touched again, whatever a worker
\* that lost its lease, or retried a call that had taken effect, still does.
EndedJobsStayEnded ==
    [][ \A i \in Items :
          rows[i].state \in {"COMPLETE", "DEAD"} => rows'[i] = rows[i] ]_vars

\* Each row lives the life src/domain/work.ts gives a job: the SQL statements
\* implement canClaim, claimWorkItem, completeWorkItem and failWorkItem.
Job(i) == INSTANCE WorkItem WITH item <- rows[i]

RowsImplementWorkItem ==
    /\ \A i \in Items : Job(i)!Init
    /\ [][ \A i \in Items : [Job(i)!Next]_(rows[i]) ]_vars

\* Every enqueued job is eventually completed or dead, crashed workers'
\* leases included, under the fairness above and finitely many faults.
EveryJobEnds ==
    \A i \in Items :
        rows[i].state = "PENDING" ~> rows[i].state \in {"COMPLETE", "DEAD"}

\* src/server/db/work-queue.ts:13, "FOR UPDATE SKIP LOCKED makes a due row
\* visible to only one worker, while a previous worker's expired lease can be
\* recovered": no two workers are within their leases of the same job.
\* The code does not ensure it (see the README): neither complete() nor fail()
\* says whose lease it ends, so a late fail() hands the job out again.
VisibleToOnlyOneWorker ==
    \A i \in Items : \A v, w \in Workers :
        WithinLease(v, i) /\ WithinLease(w, i) => v = w
=============================================================================
