-------------------------- MODULE WorkQueueProofs --------------------------
(***************************************************************************)
(* Theorems about WorkQueue for any jobs, workers, lease length, attempt   *)
(* limit and bounds.  The inductive invariant is IInv.                     *)
(***************************************************************************)
EXTENDS WorkQueue, TLAPS

\* A cycle's `now` was read in the past.
NowPast == \A w \in Workers : workers[w].now <= clock

\* A worker between its SELECT and its UPDATE is alone on a row that was, and
\* because it is locked still is, claimable at that worker's `now`.
LocksHeld ==
    \A w \in Workers :
        workers[w].pc = "locking" =>
            LET i == workers[w].item
            IN  /\ ~LockedByOther(w, i)
                /\ rows[i].dueAt <= workers[w].now
                /\ \/ rows[i].state = "PENDING"
                   \/ /\ rows[i].state = "LEASED"
                      /\ rows[i].leaseExpiresAt <= workers[w].now

\* The lease a worker works within is recorded as its own.
HolderKnown ==
    \A i \in Items \ usurped, w \in Workers :
        WithinLease(w, i) /\ rows[i].state = "LEASED" => holder[i] = w

IInv == TypeOK /\ RowsCoherent /\ NowPast /\ LocksHeld /\ ExclusiveLease
            /\ HolderKnown

-----------------------------------------------------------------------------
\* A delay is a natural number.
LEMMA DelayNat ==
    \A n \in 0..MAX_WORK_ATTEMPTS :
        Smaller(MAX_RETRY_DELAY, BASE_RETRY_DELAY * 2^n) \in Nat
<1> TAKE n \in 0..MAX_WORK_ATTEMPTS
<1>1. 2^n \in Nat
  BY DoublingAssumption
<1>2. \A k \in Nat : BASE_RETRY_DELAY * k \in Nat
  BY WorkAssumption
<1>3. BASE_RETRY_DELAY * 2^n \in Nat
  BY <1>1, <1>2
<1> QED
  BY <1>3, WorkAssumption DEF Smaller

\* What fail() makes of a leased row that has attempts left is a row again,
\* with one more attempt, not leased, and dead or due later.
LEMMA FailedRowType ==
    ASSUME NEW row \in Row, NEW now \in Nat, NEW reason \in RetryReason,
           row.attempts < MAX_WORK_ATTEMPTS
    PROVE  /\ FailedRow(row, now, reason) \in Row
           /\ FailedRow(row, now, reason).attempts = row.attempts + 1
           /\ FailedRow(row, now, reason).leaseExpiresAt = NoLease
           /\ FailedRow(row, now, reason).state \in {"PENDING", "DEAD"}
           /\ FailedRow(row, now, reason).state = "PENDING"
                => row.attempts + 1 < MAX_WORK_ATTEMPTS
<1>1. row.attempts \in 0..MAX_WORK_ATTEMPTS /\ MAX_WORK_ATTEMPTS \in Nat
  BY WorkAssumption DEF Row
<1> DEFINE delay == Smaller(MAX_RETRY_DELAY, BASE_RETRY_DELAY * 2^(row.attempts))
<1>2. delay \in Nat
  BY <1>1, DelayNat
<1>3. now + delay \in Nat
  BY <1>2
<1> DEFINE due == now + delay
           attempts == row.attempts + 1
<1>4. attempts \in 0..MAX_WORK_ATTEMPTS
  BY <1>1
<1>5. /\ RetryRow(row, now) =
           [row EXCEPT !.attempts = attempts, !.state = "PENDING",
                       !.dueAt = due, !.leaseExpiresAt = NoLease]
      /\ DeadRow(row) =
           [row EXCEPT !.attempts = attempts, !.state = "DEAD",
                       !.leaseExpiresAt = NoLease]
  BY DEF RetryRow, DeadRow, delay, due, attempts, Row
<1>6. FailedRow(row, now, reason) =
        IF Retryable(reason) /\ attempts < MAX_WORK_ATTEMPTS
        THEN RetryRow(row, now) ELSE DeadRow(row)
  BY DEF FailedRow, attempts
<1> HIDE DEF due, attempts
<1>7. /\ RetryRow(row, now) \in Row
      /\ RetryRow(row, now).attempts = attempts
      /\ RetryRow(row, now).leaseExpiresAt = NoLease
      /\ RetryRow(row, now).state = "PENDING"
  BY <1>3, <1>4, <1>5 DEF Row, WorkState, due
<1>8. /\ DeadRow(row) \in Row
      /\ DeadRow(row).attempts = attempts
      /\ DeadRow(row).leaseExpiresAt = NoLease
      /\ DeadRow(row).state = "DEAD"
  BY <1>4, <1>5 DEF Row, WorkState
<1> QED
  BY <1>6, <1>7, <1>8 DEF attempts

LEMMA ClaimedRowType ==
    ASSUME NEW row \in Row, NEW now \in Nat
    PROVE  /\ ClaimedRow(row, now) \in Row
           /\ ClaimedRow(row, now).leaseExpiresAt = now + LeaseMs
           /\ ClaimedRow(row, now).state = "LEASED"
           /\ ClaimedRow(row, now).attempts = row.attempts
<1> DEFINE expires == now + LeaseMs
<1>1. expires \in Nat
  BY WorkAssumption
<1>2. ClaimedRow(row, now) =
        [row EXCEPT !.state = "LEASED", !.leaseExpiresAt = expires]
  BY DEF ClaimedRow
<1> HIDE DEF expires
<1>3. /\ ClaimedRow(row, now) \in Row
      /\ ClaimedRow(row, now).leaseExpiresAt = expires
      /\ ClaimedRow(row, now).state = "LEASED"
      /\ ClaimedRow(row, now).attempts = row.attempts
  BY <1>1, <1>2 DEF Row, WorkState
<1> QED
  BY <1>3 DEF expires

LEMMA CompletedRowType ==
    ASSUME NEW row \in Row
    PROVE  /\ CompletedRow(row) \in Row
           /\ CompletedRow(row).leaseExpiresAt = NoLease
           /\ CompletedRow(row).state = "COMPLETE"
           /\ CompletedRow(row).attempts = row.attempts
BY DEF CompletedRow, Row, WorkState, NoLease

-----------------------------------------------------------------------------
LEMMA InitIInv == Init => IInv
<1> SUFFICES ASSUME Init PROVE IInv
  OBVIOUS
<1> USE WorkAssumption, WorkQueueAssumption DEF Init
<1>1. TypeOK
  BY DEF TypeOK, Row, Cycle, AbsentRow, Idle, WorkState, NoLease
<1>2. RowsCoherent
  BY DEF RowsCoherent, AbsentRow, NoLease
<1>3. NowPast /\ LocksHeld /\ ExclusiveLease /\ HolderKnown
  BY DEF NowPast, LocksHeld, ExclusiveLease, HolderKnown, WithinLease, Idle
<1> QED
  BY <1>1, <1>2, <1>3 DEF IInv

\* Writing one row of the table, or one worker's variables, keeps their types.
LEMMA RowWritten ==
    ASSUME TypeOK, NEW i \in Items, NEW row \in Row,
           rows' = [rows EXCEPT ![i] = row]
    PROVE  /\ rows' \in [Items -> Row]
           /\ rows'[i] = row
           /\ \A j \in Items \ {i} : rows'[j] = rows[j]
BY DEF TypeOK

\* Only these fields of Cycle tie to the job being worked on.
CycleOK(c) ==
    /\ c \in Cycle
    /\ c.pc \in {"locking", "handling", "completing", "failing"} => c.item \in Items
    /\ c.pc = "failing" => c.reason \in RetryReason

LEMMA CycleWritten ==
    ASSUME TypeOK, NEW w \in Workers, NEW c, CycleOK(c),
           workers' = [workers EXCEPT ![w] = c]
    PROVE  /\ workers' \in [Workers -> Cycle]
           /\ \A v \in Workers : CycleOK(workers'[v])
BY DEF TypeOK, CycleOK

\* Every step of a worker's own call leaves it with variables of their types.
LEMMA CycleTypes ==
    ASSUME TypeOK, NEW w \in Workers, CycleStep(w) \/ HandlerStep(w) \/ Fault(w)
    PROVE  /\ workers' \in [Workers -> Cycle]
           /\ \A v \in Workers : CycleOK(workers'[v])
<1> USE WorkQueueAssumption
<1> DEFINE c == workers[w]
<1>1. c \in Cycle /\ CycleOK(c) /\ clock \in Nat
  BY DEF TypeOK, CycleOK
<1>2. CycleOK(Idle)
  BY DEF CycleOK, Cycle, Idle
<1>3. CASE workers' = [workers EXCEPT ![w] = Idle]
  BY <1>2, <1>3, CycleWritten
<1>4. CASE StartCycle(w)
  <2>1. CycleOK([c EXCEPT !.pc = "claiming", !.now = clock])
    BY <1>1 DEF CycleOK, Cycle
  <2>2. workers' = [workers EXCEPT ![w] = [c EXCEPT !.pc = "claiming", !.now = clock]]
    BY <1>4 DEF StartCycle, TypeOK
  <2> QED
    BY <2>1, <2>2, CycleWritten
<1>5. CASE SelectForUpdate(w)
  <2>1. PICK i \in Items :
          workers' = [workers EXCEPT ![w] = [c EXCEPT !.pc = "locking", !.item = i]]
    BY <1>5 DEF SelectForUpdate, Due, TypeOK
  <2>2. CycleOK([c EXCEPT !.pc = "locking", !.item = i])
    BY <1>1 DEF CycleOK, Cycle
  <2> QED
    BY <2>1, <2>2, CycleWritten
<1>6. CASE CommitClaim(w)
  <2>1. CycleOK([c EXCEPT !.pc = "handling"])
    BY <1>1, <1>6 DEF CycleOK, Cycle, CommitClaim
  <2>2. workers' = [workers EXCEPT ![w] = [c EXCEPT !.pc = "handling"]]
    BY <1>6 DEF CommitClaim, TypeOK
  <2> QED
    BY <2>1, <2>2, CycleWritten
<1>7. CASE HandlerReturns(w)
  <2>1. CycleOK([c EXCEPT !.pc = "completing"])
    BY <1>1, <1>7 DEF CycleOK, Cycle, HandlerReturns
  <2>2. workers' = [workers EXCEPT ![w] = [c EXCEPT !.pc = "completing"]]
    BY <1>7 DEF HandlerReturns, TypeOK
  <2> QED
    BY <2>1, <2>2, CycleWritten
<1>8. ASSUME NEW r \in RetryReason, c.pc \in {"handling", "completing"},
             workers' = [workers EXCEPT ![w].pc = "failing", ![w].reason = r]
      PROVE  /\ workers' \in [Workers -> Cycle]
             /\ \A v \in Workers : CycleOK(workers'[v])
  <2>1. CycleOK([c EXCEPT !.pc = "failing", !.reason = r])
    BY <1>1, <1>8 DEF CycleOK, Cycle
  <2>2. workers' = [workers EXCEPT ![w] = [c EXCEPT !.pc = "failing", !.reason = r]]
    BY <1>8 DEF TypeOK
  <2> QED
    BY <2>1, <2>2, CycleWritten
<1>9. "UNKNOWN" \in RetryReason
  BY DEF RetryReason
<1>10. CASE NothingDue(w) \/ Complete(w) \/ Fail(w) \/ FailRejected(w) \/ Crash(w)
  BY <1>3, <1>10 DEF NothingDue, Complete, Fail, FailRejected, Crash
<1>11. CASE CompleteRejected(w) \/ CompleteErrs(w)
  BY <1>8, <1>9, <1>11 DEF CompleteRejected, CompleteErrs
<1>12. CASE \E r \in HandlerReasons : HandlerThrows(w, r)
  BY <1>8, <1>12 DEF HandlerThrows
<1> QED
  BY <1>4, <1>5, <1>6, <1>7, <1>10, <1>11, <1>12 DEF CycleStep, HandlerStep, Fault

\* The columns of every row agree after every step, and types are kept.
LEMMA NextTypeOK ==
    TypeOK /\ RowsCoherent /\ LocksHeld /\ [Next]_vars => TypeOK' /\ RowsCoherent'
<1> SUFFICES ASSUME TypeOK, RowsCoherent, LocksHeld, [Next]_vars
             PROVE  TypeOK' /\ RowsCoherent'
  OBVIOUS
<1> USE WorkQueueAssumption
<1>1. CASE UNCHANGED vars
  BY <1>1 DEF vars, TypeOK, RowsCoherent
<1>2. CASE Tick
  BY <1>2 DEF Tick, TypeOK, RowsCoherent
<1>3. ASSUME NEW i \in Items, Enqueue(i) PROVE TypeOK' /\ RowsCoherent'
  <2> DEFINE row == [rows[i] EXCEPT !.state = "PENDING", !.dueAt = DueAt[i]]
  <2>1. row \in Row /\ row.state = "PENDING" /\ row.attempts = rows[i].attempts
        /\ row.leaseExpiresAt = rows[i].leaseExpiresAt
    BY DEF TypeOK, Row, WorkState
  <2>2. rows' = [rows EXCEPT ![i] = row]
    BY <1>3 DEF Enqueue, TypeOK
  <2>3. rows[i].state = "ABSENT"
    BY <1>3 DEF Enqueue
  <2> HIDE DEF row
  <2>4. RowsCoherent'
    BY <2>1, <2>2, <2>3, RowWritten DEF RowsCoherent
  <2>5. TypeOK'
    BY <1>3, <2>1, <2>2, RowWritten DEF Enqueue, TypeOK
  <2> QED
    BY <2>4, <2>5
<1>4. ASSUME NEW w \in Workers, CycleStep(w) \/ HandlerStep(w) \/ Fault(w)
      PROVE  TypeOK' /\ RowsCoherent'
  <2> DEFINE i == workers[w].item
  <2>1. /\ workers' \in [Workers -> Cycle]
        /\ \A v \in Workers : CycleOK(workers'[v])
    BY <1>4, CycleTypes
  <2>2. CASE rows' = rows /\ holder' = holder /\ usurped' = usurped /\ clock' = clock
             /\ faults' \in Nat
    BY <2>1, <2>2 DEF TypeOK, RowsCoherent, CycleOK
  <2>3. CASE CommitClaim(w)
    <3> DEFINE row == ClaimedRow(rows[i], workers[w].now)
    <3>1. i \in Items /\ workers[w].now \in Nat /\ rows[i] \in Row
      BY <2>3 DEF CommitClaim, TypeOK, Cycle
    <3>0. row \in Row /\ row.state = "LEASED" /\ row.attempts = rows[i].attempts
          /\ row.leaseExpiresAt = workers[w].now + LeaseMs
      BY <3>1, ClaimedRowType
    <3>2. row \in Row /\ row.state = "LEASED" /\ row.attempts = rows[i].attempts
          /\ row.leaseExpiresAt # NoLease
      <4> HIDE DEF row
      <4> QED
        BY <3>0, <3>1, WorkAssumption DEF NoLease
    <3>3. rows' = [rows EXCEPT ![i] = row]
      BY <2>3 DEF CommitClaim
    <3>4. rows[i].state # "DEAD"
      BY <2>3 DEF CommitClaim, LocksHeld
    <3> HIDE DEF row
    <3>5. RowsCoherent'
      BY <3>1, <3>2, <3>3, <3>4, RowWritten DEF RowsCoherent
    <3>6. TypeOK'
      BY <2>1, <2>3, <3>1, <3>2, <3>3, RowWritten DEF CommitClaim, TypeOK, CycleOK
    <3> QED
      BY <3>5, <3>6
  <2>4. CASE EndLease(w, i) /\ clock' = clock /\ faults' \in Nat /\ i \in Items
             /\ rows' = [rows EXCEPT ![i] = CompletedRow(@)] /\ rows[i].state = "LEASED"
    <3> DEFINE row == CompletedRow(rows[i])
    <3>1. row \in Row /\ row.state = "COMPLETE" /\ row.attempts = rows[i].attempts
          /\ row.leaseExpiresAt = NoLease
      BY <2>4, CompletedRowType DEF TypeOK
    <3>2. rows' = [rows EXCEPT ![i] = row]
      BY <2>4
    <3> HIDE DEF row
    <3>3. RowsCoherent'
      BY <2>4, <3>1, <3>2, RowWritten DEF RowsCoherent
    <3>4. TypeOK'
      BY <2>1, <2>4, <3>1, <3>2, RowWritten DEF EndLease, TypeOK, CycleOK
    <3> QED
      BY <3>3, <3>4
  <2>5. CASE Fail(w)
    <3> DEFINE row == FailedRow(rows[i], workers[w].now, workers[w].reason)
    <3>1. /\ i \in Items /\ workers[w].now \in Nat /\ workers[w].reason \in RetryReason
          /\ rows[i] \in Row /\ rows[i].state = "LEASED"
          /\ rows[i].attempts < MAX_WORK_ATTEMPTS
      BY <2>5 DEF Fail, TypeOK, Cycle, RowsCoherent
    <3>2. /\ row \in Row /\ row.state \in {"PENDING", "DEAD"}
          /\ row.attempts = rows[i].attempts + 1 /\ row.leaseExpiresAt = NoLease
          /\ row.state = "PENDING" => rows[i].attempts + 1 < MAX_WORK_ATTEMPTS
      BY <3>1, FailedRowType
    <3>3. rows' = [rows EXCEPT ![i] = row]
      BY <2>5 DEF Fail
    <3> HIDE DEF row
    <3>4. RowsCoherent'
      BY <3>1, <3>2, <3>3, RowWritten, WorkAssumption DEF RowsCoherent, Row
    <3>5. TypeOK'
      BY <2>1, <2>5, <3>1, <3>2, <3>3, RowWritten DEF Fail, EndLease, TypeOK, CycleOK
    <3> QED
      BY <3>4, <3>5
  <2> QED
    BY <1>4, <2>2, <2>3, <2>4, <2>5
    DEF CycleStep, HandlerStep, Fault, StartCycle, NothingDue, SelectForUpdate,
        HandlerReturns, HandlerThrows, Complete, CompleteRejected, CompleteErrs,
        FailRejected, Crash, TypeOK
<1> QED
  BY <1>1, <1>2, <1>3, <1>4 DEF Next

-----------------------------------------------------------------------------
\* A job is only claimed by the worker that locked it, so a locked row keeps
\* its columns and no second worker comes to lock it.
LEMMA NextLocksHeld ==
    TypeOK /\ RowsCoherent /\ NowPast /\ LocksHeld /\ [Next]_vars
        => NowPast' /\ LocksHeld'
<1> SUFFICES ASSUME TypeOK, RowsCoherent, NowPast, LocksHeld, [Next]_vars
             PROVE  NowPast' /\ LocksHeld'
  OBVIOUS
<1>1. CASE UNCHANGED vars
  BY <1>1 DEF vars, NowPast, LocksHeld, LockedByOther
<1>2. CASE Tick
  BY <1>2 DEF Tick, TypeOK, Cycle, NowPast, LocksHeld, LockedByOther
<1>3. ASSUME NEW i \in Items, Enqueue(i) PROVE NowPast' /\ LocksHeld'
  BY <1>3 DEF Enqueue, TypeOK, NowPast, LocksHeld, LockedByOther
<1>4. ASSUME NEW w \in Workers, CycleStep(w) \/ HandlerStep(w) \/ Fault(w)
      PROVE  NowPast' /\ LocksHeld'
  <2>1. clock' = clock /\ clock \in Nat
    BY <1>4 DEF CycleStep, HandlerStep, Fault, StartCycle, NothingDue, SelectForUpdate,
        CommitClaim, HandlerReturns, HandlerThrows, Complete, CompleteRejected,
        CompleteErrs, Fail, FailRejected, Crash, TypeOK
  <2>2. NowPast'
    BY <1>4, <2>1 DEF NowPast, TypeOK, Cycle, Idle, CycleStep, HandlerStep, Fault,
        StartCycle, NothingDue, SelectForUpdate, CommitClaim, HandlerReturns,
        HandlerThrows, Complete, CompleteRejected, CompleteErrs, Fail, FailRejected, Crash
  <2>3. \A v \in Workers \ {w} : workers'[v] = workers[v]
    BY <1>4 DEF TypeOK, CycleStep, HandlerStep, Fault, StartCycle, NothingDue,
        SelectForUpdate, CommitClaim, HandlerReturns, HandlerThrows, Complete,
        CompleteRejected, CompleteErrs, Fail, FailRejected, Crash
  <2>4. CASE SelectForUpdate(w)
    <3>1. PICK i \in Due(w) :
            workers' = [workers EXCEPT ![w].pc = "locking", ![w].item = i]
      BY <2>4 DEF SelectForUpdate
    <3>2. /\ i \in Items /\ ~LockedByOther(w, i)
          /\ rows[i].dueAt <= workers[w].now
          /\ \/ rows[i].state = "PENDING"
             \/ rows[i].state = "LEASED" /\ rows[i].leaseExpiresAt <= workers[w].now
      BY DEF Due
    <3>3. workers'[w].item = i /\ workers'[w].now = workers[w].now
      BY <3>1 DEF TypeOK, Cycle
    <3>4. rows' = rows
      BY <2>4 DEF SelectForUpdate
    <3>5. ASSUME NEW v \in Workers \ {w}, workers[v].pc = "locking"
          PROVE  workers[v].item # i
      BY <3>2, <3>5 DEF LockedByOther
    <3>6. LocksHeld'
      BY <2>3, <3>2, <3>3, <3>4, <3>5 DEF LocksHeld, LockedByOther
    <3> QED
      BY <2>2, <3>6
  <2>5. ASSUME workers'[w].pc # "locking",
               \A v \in Workers \ {w} :
                  workers[v].pc = "locking" => rows'[workers[v].item] = rows[workers[v].item]
        PROVE  LocksHeld'
    BY <2>3, <2>5 DEF LocksHeld, LockedByOther
  <2>6. ASSUME NEW j \in Items, ~LockedByOther(w, j), NEW row,
               rows' = [rows EXCEPT ![j] = row]
        PROVE  \A v \in Workers \ {w} :
                  workers[v].pc = "locking" => rows'[workers[v].item] = rows[workers[v].item]
    BY <2>6 DEF LockedByOther, TypeOK
  <2>7. CASE rows' = rows /\ ~SelectForUpdate(w)
    <3>1. workers'[w].pc # "locking"
      BY <1>4, <2>7 DEF TypeOK, Cycle, Idle, CycleStep, HandlerStep, Fault,
        StartCycle, NothingDue, CommitClaim, HandlerReturns,
        HandlerThrows, Complete, CompleteRejected, CompleteErrs, Fail, FailRejected, Crash
    <3> QED
      BY <2>2, <2>5, <2>7, <3>1
  <2>8. CASE CommitClaim(w) \/ Complete(w) \/ Fail(w) \/ CompleteErrs(w)
    <3>1. workers'[w].pc # "locking"
      BY <2>8 DEF TypeOK, Cycle, Idle, CommitClaim, Complete, Fail, CompleteErrs
    <3>2. workers[w].item \in Items
      BY <2>8 DEF TypeOK, CommitClaim, Complete, Fail, CompleteErrs
    <3>3. \/ rows' = rows
          \/ /\ ~LockedByOther(w, workers[w].item)
             /\ \E row : rows' = [rows EXCEPT ![workers[w].item] = row]
      BY <2>8 DEF CommitClaim, Complete, Fail, CompleteErrs, LocksHeld
    <3> QED
      BY <2>2, <2>5, <2>6, <3>1, <3>2, <3>3
  <2> QED
    BY <1>4, <2>4, <2>7, <2>8
    DEF CycleStep, HandlerStep, Fault, StartCycle, NothingDue, HandlerReturns,
        HandlerThrows, CompleteRejected, FailRejected, Crash
<1> QED
  BY <1>1, <1>2, <1>3, <1>4 DEF Next

-----------------------------------------------------------------------------
\* Only the commit of a claim puts a worker within a lease.
LEMMA WithinLeaseIsClaimed ==
    ASSUME TypeOK, [Next]_vars, NEW v \in Workers, NEW i \in Items,
           ~(CommitClaim(v) /\ workers[v].item = i), WithinLease(v, i)'
    PROVE  WithinLease(v, i) /\ workers'[v].now = workers[v].now
<1>1. workers[v] \in Cycle /\ clock \in Nat /\ LeaseMs \in Nat
  BY WorkAssumption DEF TypeOK
<1>2. CASE UNCHANGED workers
  <2>1. clock' = clock \/ Tick
    BY DEF Next, vars, Enqueue, CycleStep, HandlerStep, Fault, StartCycle, NothingDue,
      SelectForUpdate, CommitClaim, HandlerReturns, HandlerThrows, Complete,
      CompleteRejected, CompleteErrs, Fail, FailRejected, Crash
  <2>2. clock' >= clock /\ clock' \in Nat
    BY <1>1, <2>1 DEF Tick
  <2> QED
    BY <1>1, <1>2, <2>1, <2>2 DEF WithinLease, Cycle
<1>3. ASSUME NEW w \in Workers, CycleStep(w) \/ HandlerStep(w) \/ Fault(w)
      PROVE  WithinLease(v, i) /\ workers'[v].now = workers[v].now
  <2>1. clock' = clock
    BY <1>3 DEF CycleStep, HandlerStep, Fault, StartCycle, NothingDue, SelectForUpdate,
      CommitClaim, HandlerReturns, HandlerThrows, Complete, CompleteRejected,
      CompleteErrs, Fail, FailRejected, Crash
  <2>2. CASE v # w
    <3>1. workers'[v] = workers[v]
      BY <1>3, <2>2 DEF TypeOK, CycleStep, HandlerStep, Fault, StartCycle, NothingDue,
        SelectForUpdate, CommitClaim, HandlerReturns, HandlerThrows, Complete,
        CompleteRejected, CompleteErrs, Fail, FailRejected, Crash
    <3> QED
      BY <2>1, <3>1 DEF WithinLease
  <2>3. CASE v = w
    <3>1. workers'[v].pc \in {"handling", "completing", "failing"} /\ workers'[v].item = i
      BY DEF WithinLease
    <3>2. CASE CommitClaim(v)
      BY <1>1, <3>1, <3>2 DEF CommitClaim, TypeOK, Cycle
    <3>3. CASE workers'[v] = Idle \/ StartCycle(v) \/ SelectForUpdate(v)
      BY <1>1, <3>1, <3>3 DEF Idle, StartCycle, SelectForUpdate, TypeOK, Cycle
    <3>4. CASE HandlerReturns(v) \/ CompleteRejected(v) \/ CompleteErrs(v)
               \/ \E r \in HandlerReasons : HandlerThrows(v, r)
      <4>1. /\ workers[v].pc \in {"handling", "completing", "failing"}
            /\ workers'[v].item = workers[v].item /\ workers'[v].now = workers[v].now
        BY <1>1, <3>4 DEF HandlerReturns, CompleteRejected, CompleteErrs, HandlerThrows,
          TypeOK, Cycle
      <4> QED
        BY <2>1, <3>1, <4>1 DEF WithinLease
    <3> QED
      BY <1>3, <2>3, <3>2, <3>3, <3>4 DEF CycleStep, HandlerStep, Fault, NothingDue,
        Complete, Fail, FailRejected, Crash, TypeOK
  <2> QED
    BY <2>2, <2>3
<1> QED
  BY <1>2, <1>3 DEF Next, vars, Tick, Enqueue

\* While nobody has usurped a job, the lease its row carries is the lease of
\* the one worker within it; whoever claims it next waits for that to expire.
LEMMA NextExclusive ==
    IInv /\ [Next]_vars => ExclusiveLease' /\ HolderKnown'
<1> SUFFICES ASSUME IInv, [Next]_vars,
                    NEW i \in Items, i \notin usurped',
                    NEW v \in Workers, WithinLease(v, i)'
             PROVE  /\ \/ rows'[i].state = "COMPLETE"
                       \/ /\ rows'[i].state = "LEASED"
                          /\ rows'[i].leaseExpiresAt = workers'[v].now + LeaseMs
                          /\ holder'[i] = v
                    /\ \A u \in Workers \ {v} : ~WithinLease(u, i)'
  BY DEF ExclusiveLease, HolderKnown
<1> USE DEF IInv
<1>1. i \notin usurped
  BY DEF Next, vars, Tick, Enqueue, CycleStep, HandlerStep, Fault, StartCycle,
    NothingDue, SelectForUpdate, CommitClaim, HandlerReturns, HandlerThrows, Complete,
    CompleteRejected, CompleteErrs, Fail, FailRejected, Crash, EndLease
<1>2. CASE \E w \in Workers : CommitClaim(w) /\ workers[w].item = i
  <2>1. PICK w \in Workers : CommitClaim(w) /\ workers[w].item = i
    BY <1>2
  <2>2. /\ workers[w].now \in Nat /\ workers[w].now <= clock /\ clock \in Nat
        /\ \/ rows[i].state = "PENDING"
           \/ rows[i].state = "LEASED" /\ rows[i].leaseExpiresAt <= workers[w].now
    BY <2>1 DEF TypeOK, Cycle, NowPast, LocksHeld, CommitClaim
  <2>3. \A u \in Workers : ~WithinLease(u, i)
    <3> SUFFICES ASSUME NEW u \in Workers, WithinLease(u, i) PROVE FALSE
      OBVIOUS
    <3>1. rows[i].leaseExpiresAt = workers[u].now + LeaseMs
      BY <1>1, <2>2 DEF ExclusiveLease
    <3>2. workers[u].now + LeaseMs > clock /\ workers[u].now \in Nat /\ LeaseMs \in Nat
      BY WorkAssumption DEF WithinLease, TypeOK, Cycle
    <3>3. rows[i].state = "LEASED"
      BY <1>1, <2>2 DEF ExclusiveLease
    <3> QED
      BY <2>2, <3>1, <3>2, <3>3
  <2>4. \A u \in Workers \ {w} : ~CommitClaim(u) /\ ~WithinLease(u, i)'
    <3> SUFFICES ASSUME NEW u \in Workers \ {w}
                 PROVE  ~CommitClaim(u) /\ ~WithinLease(u, i)'
      OBVIOUS
    <3>1. ~CommitClaim(u)
      <4>1. workers'[u] = workers[u]
        BY <2>1 DEF CommitClaim, TypeOK
      <4>2. CommitClaim(u) => workers'[u].pc = "handling" /\ workers[u].pc = "locking"
        BY DEF CommitClaim, TypeOK, Cycle
      <4> QED
        BY <4>1, <4>2
    <3> QED
      BY <2>3, <3>1, WithinLeaseIsClaimed
  <2>5. v = w
    BY <2>4
  <2>6. rows'[i] = ClaimedRow(rows[i], workers[w].now) /\ holder'[i] = w
        /\ workers'[w].now = workers[w].now
    BY <2>1 DEF CommitClaim, TypeOK, Cycle
  <2>7. /\ ClaimedRow(rows[i], workers[w].now).state = "LEASED"
        /\ ClaimedRow(rows[i], workers[w].now).leaseExpiresAt = workers[w].now + LeaseMs
    BY <2>2, ClaimedRowType DEF TypeOK
  <2> QED
    BY <2>4, <2>5, <2>6, <2>7
<1>3. CASE ~ \E w \in Workers : CommitClaim(w) /\ workers[w].item = i
  <2>1. WithinLease(v, i) /\ workers'[v].now = workers[v].now
    BY <1>3, WithinLeaseIsClaimed
  <2>2. \A u \in Workers \ {v} : ~WithinLease(u, i)'
    BY <1>1, <1>3, <2>1, WithinLeaseIsClaimed DEF ExclusiveLease
  <2>3. \/ rows[i].state = "COMPLETE"
        \/ /\ rows[i].state = "LEASED"
           /\ rows[i].leaseExpiresAt = workers[v].now + LeaseMs
           /\ holder[i] = v
    BY <1>1, <2>1 DEF ExclusiveLease, HolderKnown
  <2>4. CASE rows'[i] = rows[i] /\ holder'[i] = holder[i]
    BY <2>1, <2>2, <2>3, <2>4
  <2>5. CASE rows'[i].state = "COMPLETE"
    BY <2>2, <2>5
  <2>6. ASSUME NEW w \in Workers, Fail(w), workers[w].item = i
        PROVE  FALSE
    <3>1. holder[i] = v
      BY <2>3, <2>6 DEF Fail
    <3>2. v = w
      BY <1>1, <2>6, <3>1 DEF Fail, EndLease
    <3> QED
      BY <2>6, <3>2 DEF Fail, WithinLease, Idle, TypeOK
  <2>7. ASSUME NEW w \in Workers, CycleStep(w) \/ HandlerStep(w) \/ Fault(w)
        PROVE  \/ rows'[i] = rows[i] /\ holder'[i] = holder[i]
               \/ rows'[i].state = "COMPLETE"
    <3>1. CASE Complete(w) \/ CompleteErrs(w)
      <4>1. CompletedRow(rows[i]).state = "COMPLETE"
        BY CompletedRowType DEF TypeOK
      <4> QED
        BY <3>1, <4>1 DEF Complete, CompleteErrs, EndLease, TypeOK
    <3>2. CASE Fail(w) \/ CommitClaim(w)
      BY <1>3, <2>6, <3>2 DEF Fail, CommitClaim, EndLease, TypeOK
    <3> QED
      BY <2>7, <3>1, <3>2 DEF CycleStep, HandlerStep, Fault, StartCycle, NothingDue,
        SelectForUpdate, HandlerReturns, HandlerThrows, CompleteRejected, FailRejected,
        Crash
  <2>8. ASSUME NEW j \in Items, Enqueue(j)
        PROVE  rows'[i] = rows[i] /\ holder'[i] = holder[i]
    BY <2>3, <2>8 DEF Enqueue, TypeOK
  <2> QED
    BY <2>4, <2>5, <2>7, <2>8 DEF Next, vars, Tick
<1> QED
  BY <1>2, <1>3

-----------------------------------------------------------------------------
\* The invariant holds in every reachable state.
THEOREM Invariance == Spec => []IInv
<1>1. IInv /\ [Next]_vars => IInv'
  BY NextTypeOK, NextLocksHeld, NextExclusive DEF IInv
<1> QED
  BY InitIInv, <1>1, PTL DEF Spec

\* Rows, worker variables and the clock keep their types.
THEOREM TypeCorrect == Spec => []TypeOK
BY Invariance, PTL DEF IInv

\* A row's state, lease and attempts agree at all times.
THEOREM RowsAgree == Spec => []RowsCoherent
BY Invariance, PTL DEF IInv

\* As long as nobody ended a foreign lease, at most one worker is within its
\* lease on a job, for any number of workers.
THEOREM LeaseIsExclusive == Spec => []ExclusiveLease
BY Invariance, PTL DEF IInv

-----------------------------------------------------------------------------
\* Completed and dead rows are never written again.
THEOREM EndedStayEnded == Spec => EndedJobsStayEnded
<1>1. ASSUME IInv, [Next]_vars, NEW i \in Items,
             rows[i].state \in {"COMPLETE", "DEAD"}
      PROVE  rows'[i] = rows[i]
  <2>1. ASSUME NEW w \in Workers, CycleStep(w) \/ HandlerStep(w) \/ Fault(w)
        PROVE  rows'[i] = rows[i]
    BY <1>1, <2>1 DEF IInv, LocksHeld, TypeOK, CycleStep, HandlerStep, Fault,
      StartCycle, NothingDue, SelectForUpdate, CommitClaim, HandlerReturns,
      HandlerThrows, Complete, CompleteRejected, CompleteErrs, Fail, FailRejected, Crash
  <2>2. ASSUME NEW j \in Items, Enqueue(j) PROVE rows'[i] = rows[i]
    BY <1>1, <2>2 DEF IInv, TypeOK, Enqueue
  <2> QED
    BY <1>1, <2>1, <2>2 DEF Next, Tick, vars
<1>2. IInv /\ [Next]_vars
        => [\A i \in Items :
              rows[i].state \in {"COMPLETE", "DEAD"} => rows'[i] = rows[i]]_vars
  BY <1>1
<1> QED
  BY Invariance, <1>2, PTL DEF Spec, EndedJobsStayEnded

\* Whoever ends a lease that is not its own has overrun its own lease.
THEOREM OnlyLateUsurp == Spec => OnlyLateWorkersUsurp
<1>1. ASSUME IInv, [Next]_vars, NEW i \in Items, NEW w \in Workers,
             i \in usurped' \ usurped, workers[w].item = i,
             workers'[w] # workers[w], WithinLease(w, i)
      PROVE  FALSE
  <2>1. PICK u \in Workers : /\ Complete(u) \/ CompleteErrs(u) \/ Fail(u)
                             /\ workers[u].item = i /\ EndLease(u, i)
                             /\ rows[i].state = "LEASED"
    BY <1>1 DEF Next, vars, Tick, Enqueue, CycleStep, HandlerStep, Fault, StartCycle,
      NothingDue, SelectForUpdate, CommitClaim, HandlerReturns, HandlerThrows, Complete,
      CompleteRejected, CompleteErrs, Fail, FailRejected, Crash, EndLease
  <2>2. u = w
    BY <1>1, <2>1 DEF IInv, TypeOK, Complete, CompleteErrs, Fail
  <2>3. holder[i] = w
    BY <1>1, <2>1 DEF IInv, HolderKnown
  <2> QED
    BY <1>1, <2>1, <2>2, <2>3 DEF EndLease
<1>2. IInv /\ [Next]_vars
        => [\A i \in Items, w \in Workers :
              (/\ i \in usurped' \ usurped
               /\ workers[w].item = i
               /\ workers'[w] # workers[w])
              => ~WithinLease(w, i)]_vars
  BY <1>1
<1> QED
  BY Invariance, <1>2, PTL DEF Spec, OnlyLateWorkersUsurp

-----------------------------------------------------------------------------
\* Nothing is written to a row before it is enqueued.
AbsentEmpty == \A i \in Items : rows[i].state = "ABSENT" => rows[i] = AbsentRow

\* No statement makes a row absent again.
LEMMA NextAbsentEmpty == IInv /\ AbsentEmpty /\ [Next]_vars => AbsentEmpty'
<1> SUFFICES ASSUME IInv, AbsentEmpty, [Next]_vars,
                    NEW i \in Items, rows'[i].state = "ABSENT"
             PROVE  rows'[i] = AbsentRow
  BY DEF AbsentEmpty
<1>1. ASSUME NEW j \in Items, NEW row, row.state # "ABSENT",
             rows' = [rows EXCEPT ![j] = row]
      PROVE  rows'[i] = rows[i]
  BY <1>1 DEF IInv, TypeOK
<1>2. ASSUME NEW j \in Items, Enqueue(j) PROVE rows'[i] = rows[i]
  <2>1. [rows[j] EXCEPT !.state = "PENDING", !.dueAt = DueAt[j]].state # "ABSENT"
    BY DEF IInv, TypeOK, Row
  <2> QED
    BY <1>1, <1>2, <2>1 DEF Enqueue, IInv, TypeOK
<1>3. ASSUME NEW w \in Workers, CycleStep(w) \/ HandlerStep(w) \/ Fault(w)
      PROVE  rows'[i] = rows[i]
  <2> DEFINE j == workers[w].item
  <2>1. CASE CommitClaim(w)
    <3>1. j \in Items /\ workers[w].now \in Nat /\ rows[j] \in Row
      BY <2>1 DEF CommitClaim, IInv, TypeOK, Cycle
    <3>2. ClaimedRow(rows[j], workers[w].now).state # "ABSENT"
      BY <3>1, ClaimedRowType
    <3> QED
      BY <1>1, <2>1, <3>1, <3>2 DEF CommitClaim
  <2>2. CASE Complete(w) \/ CompleteErrs(w)
    <3>1. j \in Items /\ rows[j] \in Row
      BY <2>2 DEF Complete, CompleteErrs, IInv, TypeOK
    <3>2. CompletedRow(rows[j]).state # "ABSENT"
      BY <3>1, CompletedRowType
    <3> QED
      BY <1>1, <2>2, <3>1, <3>2 DEF Complete, CompleteErrs
  <2>3. CASE Fail(w)
    <3>1. /\ j \in Items /\ rows[j] \in Row /\ rows[j].attempts < MAX_WORK_ATTEMPTS
          /\ workers[w].now \in Nat /\ workers[w].reason \in RetryReason
      BY <2>3 DEF Fail, IInv, TypeOK, Cycle, RowsCoherent
    <3>2. FailedRow(rows[j], workers[w].now, workers[w].reason).state # "ABSENT"
      BY <3>1, FailedRowType
    <3> QED
      BY <1>1, <2>3, <3>1, <3>2 DEF Fail
  <2> QED
    BY <1>3, <2>1, <2>2, <2>3 DEF CycleStep, HandlerStep, Fault, StartCycle, NothingDue,
      SelectForUpdate, HandlerReturns, HandlerThrows, CompleteRejected, FailRejected, Crash
<1> QED
  BY <1>2, <1>3 DEF Next, vars, Tick, AbsentEmpty

\* The UPDATE of fail() computes what failWorkItem computes: the delay before
\* the n-th retry is the same whether counted before or after the increment.
LEMMA FailedRowIsFailWorkItem ==
    ASSUME NEW row \in Row, NEW now \in Nat, NEW reason \in RetryReason,
           row.attempts < MAX_WORK_ATTEMPTS
    PROVE  FailedRow(row, now, reason) = failWorkItem(row, now, reason)
<1>1. row.attempts \in 0..MAX_WORK_ATTEMPTS /\ MAX_WORK_ATTEMPTS \in Nat
  BY WorkAssumption DEF Row
<1>2. (row.attempts + 1) - 1 = row.attempts
  BY <1>1
<1>3. BASE_RETRY_DELAY * 2^(row.attempts) \in Nat
  <2>1. \A k \in Nat : BASE_RETRY_DELAY * k \in Nat
    BY WorkAssumption
  <2> QED
    BY <1>1, <2>1, DoublingAssumption
<1>4. retryDelayMs(row.attempts + 1)
        = Smaller(MAX_RETRY_DELAY, BASE_RETRY_DELAY * 2^(row.attempts))
  BY <1>2, <1>3, WorkAssumption DEF retryDelayMs, Smaller
<1>5. row.attempts + 1 >= MAX_WORK_ATTEMPTS <=> ~(row.attempts + 1 < MAX_WORK_ATTEMPTS)
  BY <1>1
<1> QED
  BY <1>4, <1>5 DEF FailedRow, failWorkItem, RetryRow, DeadRow

\* Every row lives the life the domain gives a job.
THEOREM RowsAreWorkItems == Spec => RowsImplementWorkItem
<1>1. Init => AbsentEmpty /\ \A i \in Items : Job(i)!Init
  BY DEF Init, AbsentEmpty, Job!Init, Job!NoItem, AbsentRow, Job!NoLease, NoLease
<1>2. IInv /\ AbsentEmpty /\ [Next]_vars
        => [\A i \in Items : [Job(i)!Next]_(rows[i])]_vars
  <2> SUFFICES ASSUME IInv, AbsentEmpty, Next, NEW i \in Items, rows'[i] # rows[i]
               PROVE  Job(i)!Next
    BY DEF vars
  <2> USE DEF IInv
  <2>1. ASSUME NEW j \in Items, Enqueue(j) PROVE Job(i)!Enqueue
    <3>1. j = i /\ rows[i] = AbsentRow
      BY <2>1 DEF Enqueue, TypeOK, AbsentEmpty
    <3>2. rows'[i] = [AbsentRow EXCEPT !.state = "PENDING", !.dueAt = DueAt[i]]
      BY <2>1, <3>1 DEF Enqueue, TypeOK
    <3>3. rows'[i].dueAt = DueAt[i]
      BY <3>2 DEF AbsentRow
    <3> QED
      BY <3>1, <3>2, <3>3 DEF Job!Enqueue, Job!NoItem, AbsentRow, Job!NoLease, NoLease
  <2>2. ASSUME NEW w \in Workers, CommitClaim(w) PROVE Job(i)!Claim
    <3> DEFINE now == workers[w].now
    <3>1. workers[w].item = i
      BY <2>2 DEF CommitClaim, TypeOK
    <3>2. now \in 0..clock /\ rows[i] \in Row
      BY <2>2 DEF CommitClaim, TypeOK, Cycle, NowPast
    <3>3. Job(i)!canClaim(rows[i], now)
      BY <2>2, <3>1, <3>2 DEF CommitClaim, LocksHeld, RowsCoherent, Job!canClaim,
        Job!NoLease, NoLease
    <3>4. rows'[i] = Job(i)!claimWorkItem(rows[i], now)
      BY <2>2, <3>1, <3>2 DEF CommitClaim, ClaimedRow, Job!claimWorkItem, TypeOK
    <3> QED
      BY <3>2, <3>3, <3>4 DEF Job!Claim
  <2>3. ASSUME NEW w \in Workers, Complete(w) \/ CompleteErrs(w) PROVE Job(i)!Complete
    BY <2>3 DEF Complete, CompleteErrs, TypeOK, Job!Complete, Job!completeWorkItem,
      CompletedRow, Job!NoLease, NoLease
  <2>4. ASSUME NEW w \in Workers, Fail(w) PROVE Job(i)!Fail
    <3> DEFINE now == workers[w].now
               reason == workers[w].reason
    <3>1. workers[w].item = i
      BY <2>4 DEF Fail, TypeOK
    <3>2. /\ now \in 0..clock /\ reason \in RetryReason /\ rows[i] \in Row
          /\ rows[i].state = "LEASED" /\ rows[i].attempts < MAX_WORK_ATTEMPTS
      BY <2>4, <3>1 DEF Fail, TypeOK, Cycle, NowPast, RowsCoherent
    <3>3. rows'[i] = failWorkItem(rows[i], now, reason)
      BY <2>4, <3>1, <3>2, FailedRowIsFailWorkItem DEF Fail, TypeOK
    <3>4. failWorkItem(rows[i], now, reason) = Job(i)!failWorkItem(rows[i], now, reason)
      BY DEF failWorkItem, Job!failWorkItem, Retryable, Job!Retryable, retryDelayMs,
        Job!retryDelayMs, Smaller, Job!Smaller, NoLease, Job!NoLease
    <3> QED
      BY <3>2, <3>3, <3>4 DEF Job!Fail, Job!RetryReason, RetryReason
  <2> QED
    BY <2>1, <2>2, <2>3, <2>4 DEF Job!Next, Next, Tick, CycleStep, HandlerStep, Fault,
      StartCycle, NothingDue, SelectForUpdate, HandlerReturns, HandlerThrows,
      CompleteRejected, FailRejected, Crash
<1> QED
  BY <1>1, <1>2, Invariance, NextAbsentEmpty, PTL DEF Spec, RowsImplementWorkItem
=============================================================================
