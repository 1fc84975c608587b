-------------------------------- MODULE Work --------------------------------
(***************************************************************************)
(* The pure rules of a durable job, src/domain/work.ts: when a job may be  *)
(* claimed and what a claim, a completion and a failure make of it.  No    *)
(* caller, clock or database is known here; WorkItem turns these rules     *)
(* into the life a job is promised, WorkQueue is the SQL that runs.        *)
(***************************************************************************)
EXTENDS Integers

CONSTANTS
    MAX_WORK_ATTEMPTS,   \* 5 in the code
    BASE_RETRY_DELAY,    \* 1 second in the code
    MAX_RETRY_DELAY,     \* 1 minute in the code
    LeaseMs              \* DEFAULT_WORK_LEASE_MS, 1 minute in the code

ASSUME WorkAssumption ==
    /\ MAX_WORK_ATTEMPTS \in Nat \ {0}
    /\ BASE_RETRY_DELAY \in Nat
    /\ MAX_RETRY_DELAY \in Nat
    /\ LeaseMs \in Nat \ {0}

\* Powers of two are natural numbers.  A fact of arithmetic that the proofs
\* cite because the backends have no theory of exponentiation.
ASSUME DoublingAssumption == \A n \in 0..MAX_WORK_ATTEMPTS : 2^n \in Nat

RetryReason == {"NETWORK", "RATE_LIMIT", "SERVER", "UNAUTHORIZED",
                "VALIDATION", "REVERT", "CONFLICT", "UNKNOWN"}

WorkState == {"PENDING", "LEASED", "COMPLETE", "DEAD"}

\* An absent leaseExpiresAt (undefined in TypeScript, NULL in the table).
NoLease == -1

Smaller(a, b) == IF a < b THEN a ELSE b

-----------------------------------------------------------------------------
Retryable(reason) == reason \in {"NETWORK", "RATE_LIMIT", "SERVER"}

retryDelayMs(attempts) ==
    Smaller(BASE_RETRY_DELAY * 2^(attempts - 1), MAX_RETRY_DELAY)

canClaim(item, now) ==
    /\ item.dueAt <= now
    /\ \/ item.state = "PENDING"
       \/ /\ item.state = "LEASED"
          /\ item.leaseExpiresAt # NoLease
          /\ item.leaseExpiresAt <= now

claimWorkItem(item, now) ==
    [item EXCEPT !.state = "LEASED", !.leaseExpiresAt = now + LeaseMs]

completeWorkItem(item) ==
    [item EXCEPT !.state = "COMPLETE", !.leaseExpiresAt = NoLease]

failWorkItem(item, now, reason) ==
    LET attempts == item.attempts + 1
    IN  IF ~Retryable(reason) \/ attempts >= MAX_WORK_ATTEMPTS
        THEN [item EXCEPT !.attempts = attempts, !.state = "DEAD",
                          !.leaseExpiresAt = NoLease]
        ELSE [item EXCEPT !.attempts = attempts, !.state = "PENDING",
                          !.dueAt = now + retryDelayMs(attempts),
                          !.leaseExpiresAt = NoLease]
=============================================================================
