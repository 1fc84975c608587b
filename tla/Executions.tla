----------------------------- MODULE Executions -----------------------------
(***************************************************************************)
(* The pre-signature routes, their ledger and KeeperHub:                   *)
(*   src/app/api/goals/[id]/presign-simulation/route.ts       POST         *)
(*   src/app/api/goals/[id]/presign-execution/route.ts        POST         *)
(*   src/app/api/goals/[id]/executions/[executionId]/route.ts GET          *)
(*   src/server/db/repository.ts    the keeperhub_executions table         *)
(*   src/server/integrations/keeperhub-*.ts   the three KeeperHub adapters *)
(* A request is a process: each call it awaits is a step, other requests   *)
(* run in between, and it may fail or die at any await.  All requests here *)
(* are of a connected wallet about its own goals, which are drafts: no     *)
(* code moves a goal out of DRAFT.                                         *)
(*                                                                         *)
(* External: KeeperHub, which runs one execution per Idempotency-Key and   *)
(* answers a repeated key with the execution it already has, so executions *)
(* are named by the order whose pre-signature they carry; and CoW, whose   *)
(* quote for a goal fixes the terms of the order to sign.                  *)
(*                                                                         *)
(* `approved`, `submittedFor`, `returned` and `lost` are auxiliary.        *)
(***************************************************************************)
EXTENDS Integers

CONSTANTS
    Goals, Requests, Nothing,
    Terms,          \* what quotes may make of an order: amounts, expiry, fee
    TermsOf,        \* the terms quotes may give each goal's order
    NetworkOf       \* the network each goal was drafted for

Network == {"base-mainnet", "ethereum-sepolia"}

ASSUME ExecutionsAssumption ==
    /\ TermsOf \in [Goals -> SUBSET Terms]
    /\ NetworkOf \in [Goals -> Network]
    /\ Nothing \notin Goals \cup [terms : Terms, network : Network]

\* The network a profile argument left out stands for.
DefaultNetwork == "base-mainnet"

\* An order's UID is a digest of its terms under its network's domain.
Uid == [terms : Terms, network : Network]

\* Ledger rows are unique by idempotency key.
Key == [operation : {"simulation", "presign"}, uid : Uid]

simulationKey(uid) == [operation |-> "simulation", uid |-> uid]

\* A mistake: one key for an order's simulation and its execution.
PresignKeyMutShared(uid) == simulationKey(uid)

presignKey(uid) == [operation |-> "presign", uid |-> uid]

ExecutionState == {"SIMULATED", "SUBMITTED", "CONFIRMED", "FAILED"}

Evidence == {"simulated", "rejected"}

Snapshot == [status : {"none", "pending", "running", "completed", "failed"},
             proof : BOOLEAN]

VARIABLES
    ledger,         \* the keeperhub_executions table, NoRow where a key is absent
    remote,         \* external: KeeperHub's execution of each order's pre-signature
    requests,       \* the local variables of each request
    approved,       \* aux: orders whose pre-signature KeeperHub simulated well
    submittedFor,   \* aux: goal and order of every request that submitted
    returned,       \* aux: goal, key and evidence of every insert that returned
    lost            \* aux: orders submitted by a request that died before recording,
                    \* and by none that recorded since

vars == <<ledger, remote, requests, approved, submittedFor, returned, lost>>

Row == [goal : Goals, network : Network, evidence : Evidence,
        execution : Uid \cup {Nothing}, state : ExecutionState, proof : BOOLEAN]

NoRow == [state |-> "ABSENT"]

Unborn == [status |-> "none", proof |-> FALSE]

Request == [pc : {"idle", "quoting", "simulating", "submitting", "recording",
                  "reading", "applying"},
            route : {"simulate", "execute", "reconcile"},
            goal : Goals \cup {Nothing}, uid : Uid \cup {Nothing},
            evidence : Evidence \cup {Nothing},
            outcome : {"SUBMITTED", "CONFIRMED", "FAILED", Nothing}]

Idle == [pc |-> "idle", route |-> "simulate", goal |-> Nothing, uid |-> Nothing,
         evidence |-> Nothing, outcome |-> Nothing]

Init ==
    /\ ledger = [k \in Key |-> NoRow]
    /\ remote = [u \in Uid |-> Unborn]
    /\ requests = [r \in Requests |-> Idle]
    /\ approved = {}
    /\ submittedFor = {}
    /\ returned = {}
    /\ lost = {}

At(r, pc) == requests[r].pc = pc

Goto(r, pc) == requests' = [requests EXCEPT ![r].pc = pc]

Respond(r) == requests' = [requests EXCEPT ![r] = Idle]

-----------------------------------------------------------------------------
(* The two POST routes.                                                    *)

\* A connected wallet asks; its goal is read and is a draft.
Post(r, route, g) ==
    /\ At(r, "idle")
    /\ requests' = [requests EXCEPT ![r] =
                      [Idle EXCEPT !.pc = "quoting", !.route = route, !.goal = g]]
    /\ UNCHANGED <<ledger, remote, approved, submittedFor, returned, lost>>

\* presign-simulation quotes and signs for the goal's network, presign-execution
\* passes no profile on, neither to the quote nor to the order.
NetworkUsed(r) ==
    IF requests[r].route = "simulate" THEN NetworkOf[requests[r].goal]
    ELSE DefaultNetwork

\* getValidatedCowQuote and buildPresignOrder.
Quote(r) ==
    /\ At(r, "quoting")
    /\ \E terms \in TermsOf[requests[r].goal] :
          requests' = [requests EXCEPT
             ![r].pc = "simulating",
             ![r].uid = [terms |-> terms, network |-> NetworkUsed(r)]]
    /\ UNCHANGED <<ledger, remote, approved, submittedFor, returned, lost>>

\* KeeperHub simulates the call; only the simulation route keeps a rejection.
\* A mistake Simulate avoids: executing whatever the simulation said.
SimulateMutIgnored(r) ==
    /\ At(r, "simulating")
    /\ \E evidence \in Evidence :
          /\ requests' = [requests EXCEPT
                ![r].pc = IF requests[r].route = "execute"
                          THEN "submitting" ELSE "recording",
                ![r].evidence = evidence]
          /\ approved' = IF evidence = "simulated"
                         THEN approved \cup {requests[r].uid} ELSE approved
    /\ UNCHANGED <<ledger, remote, submittedFor, returned, lost>>

Simulate(r) ==
    /\ At(r, "simulating")
    /\ \/ /\ requests' = [requests EXCEPT
                ![r].pc = IF requests[r].route = "execute"
                          THEN "submitting" ELSE "recording",
                ![r].evidence = "simulated"]
          /\ approved' = approved \cup {requests[r].uid}
       \/ /\ IF requests[r].route = "execute"
             THEN Respond(r)
             ELSE requests' = [requests EXCEPT ![r].pc = "recording",
                                               ![r].evidence = "rejected"]
          /\ UNCHANGED approved
    /\ UNCHANGED <<ledger, remote, submittedFor, returned, lost>>

\* submitPresignature: KeeperHub starts an execution unless the key has one.
Submit(r) ==
    LET uid == requests[r].uid
    IN  /\ At(r, "submitting")
        /\ remote' = IF remote[uid] = Unborn
                     THEN [remote EXCEPT ![uid].status = "pending"] ELSE remote
        /\ submittedFor' = submittedFor \cup {<<requests[r].goal, uid>>}
        /\ Goto(r, "recording")
        /\ UNCHANGED <<ledger, approved, returned, lost>>

\* INSERT ... ON CONFLICT (idempotency_key) DO NOTHING; then the route answers.
Insert(r, key, row) ==
    /\ ledger' = IF ledger[key] = NoRow THEN [ledger EXCEPT ![key] = row] ELSE ledger
    /\ returned' = returned \cup {<<requests[r].goal, key, row.evidence>>}
    /\ Respond(r)
    /\ UNCHANGED <<remote, approved, submittedFor>>

\* recordSimulationEvidence: the state is SIMULATED whatever the simulation said.
RecordSimulationEvidence(r) ==
    LET uid == requests[r].uid
    IN  /\ At(r, "recording") /\ requests[r].route = "simulate"
        /\ Insert(r, simulationKey(uid),
             [goal |-> requests[r].goal, network |-> uid.network,
              evidence |-> requests[r].evidence, execution |-> Nothing,
              state |-> "SIMULATED", proof |-> FALSE])
        /\ UNCHANGED lost

\* recordSubmittedExecution names no chain: the column's default is Base.
RecordSubmittedExecution(r) ==
    LET uid == requests[r].uid
    IN  /\ At(r, "recording") /\ requests[r].route = "execute"
        /\ Insert(r, presignKey(uid),
             [goal |-> requests[r].goal, network |-> DefaultNetwork,
              evidence |-> requests[r].evidence, execution |-> uid,
              state |-> "SUBMITTED", proof |-> FALSE])
        /\ lost' = lost \ {uid}

-----------------------------------------------------------------------------
(* The status route.                                                       *)

\* readExecutionForWallet: a row of this goal that carries this execution.
Get(r, g, uid) ==
    /\ At(r, "idle")
    /\ \E k \in Key : /\ ledger[k] # NoRow
                      /\ ledger[k].goal = g /\ ledger[k].execution = uid
    /\ requests' = [requests EXCEPT ![r] =
                      [Idle EXCEPT !.pc = "reading", !.route = "reconcile",
                                   !.goal = g, !.uid = uid]]
    /\ UNCHANGED <<ledger, remote, approved, submittedFor, returned, lost>>

\* A mistake: taking a running execution for a completed one.
ReconcileMutRunning(snapshot) ==
    CASE snapshot.status = "pending" -> "SUBMITTED"
      [] snapshot.status = "failed" -> "FAILED"
      [] OTHER -> "CONFIRMED"

\* reconcileKeeperHubExecution; an execution neither under way nor failed is
\* confirmed by its proof alone, and without it the call throws.
reconcileKeeperHubExecution(snapshot) ==
    CASE snapshot.status \in {"pending", "running"} -> "SUBMITTED"
      [] snapshot.status = "failed" -> "FAILED"
      [] snapshot.status \notin {"pending", "running", "failed"} /\ snapshot.proof
            -> "CONFIRMED"
      [] OTHER -> Nothing

\* KeeperHub's answer is what it was when it was read.
ReadStatus(r) ==
    LET outcome == reconcileKeeperHubExecution(remote[requests[r].uid])
    IN  /\ At(r, "reading")
        /\ IF outcome = Nothing
           THEN Respond(r)
           ELSE requests' = [requests EXCEPT ![r].pc = "applying",
                                             ![r].outcome = outcome]
        /\ UNCHANGED <<ledger, remote, approved, submittedFor, returned, lost>>

\* What an UPDATE with a reconciled outcome makes of a row.
ReconciledRow(row, outcome) ==
    [row EXCEPT !.state = outcome, !.proof = @ \/ outcome = "CONFIRMED"]

\* A mistake: writing an outcome over one that is final.
ApplyMutAnyState(r) ==
    LET key == presignKey(requests[r].uid)
    IN  /\ At(r, "applying")
        /\ ledger' = [ledger EXCEPT ![key] = ReconciledRow(@, requests[r].outcome)]
        /\ Respond(r)
        /\ UNCHANGED <<remote, approved, submittedFor, returned, lost>>

\* applyExecutionReconciliation: WHERE state IN ('SIMULATED', 'SUBMITTED').
ApplyReconciliation(r) ==
    LET key == presignKey(requests[r].uid)
    IN  /\ At(r, "applying")
        /\ ledger' = IF ledger[key].state \in {"SIMULATED", "SUBMITTED"}
                     THEN [ledger EXCEPT ![key] =
                             ReconciledRow(@, requests[r].outcome)]
                     ELSE ledger
        /\ Respond(r)
        /\ UNCHANGED <<remote, approved, submittedFor, returned, lost>>

-----------------------------------------------------------------------------
\* KeeperHub accepted the execution, and its row is still to be written.
Recording(r) == At(r, "recording") /\ requests[r].route = "execute"

\* A call throws, or the process dies, with the request's calls done so far.
RequestFails(r) ==
    /\ ~At(r, "idle")
    /\ Respond(r)
    /\ lost' = IF Recording(r) THEN lost \cup {requests[r].uid} ELSE lost
    /\ UNCHANGED <<ledger, remote, approved, submittedFor, returned>>

\* External: an execution runs and ends; its proof may be published later.
RemoteMoves(uid) ==
    /\ \E s \in Snapshot :
          /\ \/ remote[uid].status = "pending" /\ s.status \in {"running", "failed"}
             \/ remote[uid].status = "running" /\ s.status \in {"completed", "failed"}
             \/ remote[uid].status = "completed" /\ ~remote[uid].proof
                  /\ s = [status |-> "completed", proof |-> TRUE]
          /\ s.proof => s.status = "completed"
          /\ remote' = [remote EXCEPT ![uid] = s]
    /\ UNCHANGED <<ledger, requests, approved, submittedFor, returned, lost>>

Step(r) ==
    \/ \E g \in Goals : Post(r, "simulate", g) \/ Post(r, "execute", g)
    \/ Quote(r) \/ Simulate(r) \/ Submit(r)
    \/ RecordSimulationEvidence(r) \/ RecordSubmittedExecution(r)
    \/ \E g \in Goals, uid \in Uid : Get(r, g, uid)
    \/ ReadStatus(r) \/ ApplyReconciliation(r) \/ RequestFails(r)

Next == (\E r \in Requests : Step(r)) \/ (\E uid \in Uid : RemoteMoves(uid))

Spec == Init /\ [][Next]_vars

-----------------------------------------------------------------------------
(* Properties.                                                             *)

TypeOK ==
    /\ ledger \in [Key -> Row \cup {NoRow}]
    /\ remote \in [Uid -> Snapshot]
    /\ requests \in [Requests -> Request]
    /\ approved \subseteq Uid
    /\ submittedFor \subseteq Goals \X Uid
    /\ returned \subseteq Goals \X Key \X Evidence
    /\ lost \subseteq Uid

\* Whatever polls raced, the ledger says of an execution what KeeperHub said:
\* an execution in the ledger exists there, a confirmed one completed and has
\* its on-chain proof, a failed one failed, and a row's chain and evidence are
\* those of its order.
LedgerAgreesWithRemote ==
    \A k \in Key : ledger[k] # NoRow =>
        LET row == ledger[k]
        IN  /\ row.network = k.uid.network
            /\ row.evidence = "simulated" => k.uid \in approved
            /\ row.execution # Nothing => row.execution = k.uid /\ remote[k.uid] # Unborn
            /\ row.state = "CONFIRMED" <=> row.proof
            /\ row.state = "CONFIRMED" => remote[k.uid] = [status |-> "completed", proof |-> TRUE]
            /\ row.state = "FAILED" => remote[k.uid].status = "failed"

\* src/server/db/repository.ts:316: a poll that answers late cannot turn a
\* terminal row back into a submitted one, nor change its outcome.
OutcomesAreFinal ==
    [][ \A k \in Key : ledger[k].state \in {"CONFIRMED", "FAILED"} => ledger'[k] = ledger[k] ]_vars

\* KeeperHub is never asked to execute a call it has not simulated well.
OnlySimulatedIsSubmitted ==
    \A u \in Uid : remote[u] # Unborn => u \in approved

\* The status route finds every execution KeeperHub runs: it is in the ledger, by
\* its own name, however the inserts of simulations and other requests came
\* before it.  The one exception is an execution no request lived to record
\* after KeeperHub accepted it, until a request for the same order is recorded.
RecordedIsTracked ==
    \A u \in Uid : remote[u] # Unborn =>
        \/ \E k \in Key : ledger[k] # NoRow /\ ledger[k].execution = u
        \/ \E r \in Requests : Recording(r) /\ requests[r].uid = u
        \/ u \in lost

\* How far an execution has come: a completed one has ended once its proof is
\* published.
Progress(snapshot) ==
    CASE snapshot.status = "none" -> "none"
      [] snapshot.status = "failed" -> "failed"
      [] snapshot.status = "completed" /\ snapshot.proof -> "completed"
      [] OTHER -> "running"

Authorized(u) == INSTANCE Authorization WITH
    simulation <- IF ledger[simulationKey(u)] = NoRow THEN "none"
                  ELSE ledger[simulationKey(u)].evidence,
    recorded <- IF ledger[presignKey(u)] = NoRow THEN "none"
                ELSE ledger[presignKey(u)].state,
    execution <- Progress(remote[u])

\* Each order lives the life of the module Authorization, whatever requests race,
\* fail or repeat: its rows are written once, never ahead of KeeperHub, and its
\* outcome is final.
OrdersAreAuthorizations ==
    /\ \A u \in Uid : Authorized(u)!Init
    /\ [][ \A u \in Uid : [Authorized(u)!Next]_(Authorized(u)!state) ]_vars

\* src/env.ts:94, "Testnet writes require an independent opt-in and never reuse
\* Base settings": what is submitted for a goal is an order on its network.
\* The code does not ensure it (see the README).
SubmitsOnTheGoalsNetwork ==
    \A pair \in submittedFor : pair[2].network = NetworkOf[pair[1]]

\* src/app/api/testnet/goals/[id]/canary-review/route.ts:51, "No successful
\* Ethereum Sepolia simulation exists for this connected goal.": it says so
\* when the goal has no such row, so no success may have been recorded for it.
\* The code does not ensure it (see the README).
NoSuccessfulSimulationExists ==
    \A g \in Goals, u \in Uid :
        (/\ u.network = "ethereum-sepolia"
         /\ <<g, simulationKey(u), "simulated">> \in returned)
        => \E k \in Key : ledger[k] # NoRow /\ ledger[k].goal = g
                            /\ ledger[k].network = "ethereum-sepolia"
                            /\ ledger[k].state = "SIMULATED"
=============================================================================
