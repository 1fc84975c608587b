-------------------------- MODULE ExecutionsProofs --------------------------
(***************************************************************************)
(* Theorems about Executions for any goals, requests, order terms and      *)
(* networks.  The inductive invariant is IInv: beside the properties it    *)
(* says what a request in flight still knows to be true when it acts.      *)
(* Last, the routes are shown to implement Authorization for each order.   *)
(***************************************************************************)
EXTENDS Executions, TLAPS

\* The rows that name an execution are those of pre-signatures.
LedgerNames ==
    \A k \in Key : ledger[k] # NoRow =>
        (ledger[k].execution # Nothing <=> k.operation = "presign")

\* Only a completed execution publishes a proof.
ProofsFollowCompletion ==
    \A u \in Uid : remote[u].proof => remote[u].status = "completed"

\* What a request that ran simulations may count on when it submits or records.
KnowsPosting(q) ==
    /\ q.pc \in {"simulating", "submitting", "recording"} =>
          /\ q.uid \in Uid
          /\ q.route \in {"simulate", "execute"}
          /\ q.route = "execute" => q.uid.network = DefaultNetwork
    /\ q.pc = "submitting" => q.route = "execute"
    /\ q.pc \in {"submitting", "recording"} =>
          /\ q.evidence \in Evidence
          /\ q.evidence = "simulated" => q.uid \in approved
          /\ q.route = "execute" => q.evidence = "simulated"
    /\ q.pc = "recording" /\ q.route = "execute" => remote[q.uid] # Unborn

\* What a poll may count on: its row stays, and what KeeperHub told it lasts.
KnowsPolling(q) ==
    /\ q.pc \in {"reading", "applying"} =>
          q.uid \in Uid /\ ledger[presignKey(q.uid)] # NoRow
    /\ q.pc = "applying" =>
          /\ q.outcome \in {"SUBMITTED", "CONFIRMED", "FAILED"}
          /\ q.outcome = "CONFIRMED" =>
                remote[q.uid] = [status |-> "completed", proof |-> TRUE]
          /\ q.outcome = "FAILED" => remote[q.uid].status = "failed"

Knows(q) ==
    /\ q.pc # "idle" => q.goal \in Goals
    /\ q.pc = "quoting" => q.route \in {"simulate", "execute"}
    /\ KnowsPosting(q)
    /\ KnowsPolling(q)

IInv ==
    /\ TypeOK
    /\ LedgerAgreesWithRemote
    /\ LedgerNames
    /\ OnlySimulatedIsSubmitted
    /\ ProofsFollowCompletion
    /\ \A r \in Requests : Knows(requests[r])
    /\ \A pair \in returned : ledger[pair[2]] # NoRow

-----------------------------------------------------------------------------
\* Facts about keys: those of simulations and executions never coincide.
LEMMA KeysDiffer ==
    /\ \A u \in Uid : presignKey(u) \in Key /\ simulationKey(u) \in Key
    /\ \A u \in Uid : presignKey(u).uid = u /\ simulationKey(u).uid = u
    /\ \A u \in Uid : /\ presignKey(u).operation = "presign"
                      /\ simulationKey(u).operation # "presign"
    /\ \A k \in Key : k.uid \in Uid
    /\ \A k \in Key : k.operation = "presign" => k = presignKey(k.uid)
BY DEF presignKey, simulationKey, Key

LEMMA NoRowIsNoRow == NoRow \notin Row
BY DEF NoRow, Row, ExecutionState

LEMMA InitIInv == Init => IInv
<1> SUFFICES ASSUME Init PROVE IInv
  OBVIOUS
<1>1. TypeOK
  BY DEF Init, TypeOK, Unborn, Snapshot, Idle, Request
<1>2. LedgerAgreesWithRemote /\ LedgerNames
  BY DEF Init, LedgerAgreesWithRemote, LedgerNames
<1>3. OnlySimulatedIsSubmitted /\ ProofsFollowCompletion
  BY DEF Init, OnlySimulatedIsSubmitted, ProofsFollowCompletion, Unborn
<1>4. \A r \in Requests : Knows(requests[r])
  BY DEF Init, Knows, KnowsPosting, KnowsPolling, Idle
<1> QED
  BY <1>1, <1>2, <1>3, <1>4 DEF Init, IInv

\* A request's own step that changes no shared state, but may have had an order
\* simulated, keeps the invariant when the request knows what it must.
LEMMA RequestMoves ==
    ASSUME IInv, NEW r \in Requests, NEW q \in Request,
           requests' = [requests EXCEPT ![r] = q],
           UNCHANGED <<ledger, remote, submittedFor, returned>>, lost' \subseteq Uid,
           approved \subseteq approved', approved' \subseteq Uid,
           Knows(q)'
    PROVE  IInv'
<1>1. TypeOK'
  BY DEF IInv, TypeOK
<1>2. /\ LedgerAgreesWithRemote' /\ LedgerNames' /\ OnlySimulatedIsSubmitted'
      /\ ProofsFollowCompletion'
  BY DEF IInv, LedgerAgreesWithRemote, LedgerNames, OnlySimulatedIsSubmitted,
         ProofsFollowCompletion
<1>3. ASSUME NEW s \in Requests PROVE Knows(requests[s])'
  <2>1. CASE s = r
    BY <2>1 DEF IInv, TypeOK
  <2>2. CASE s # r
    <3>1. requests'[s] = requests[s] /\ Knows(requests[s])
      BY <2>2 DEF IInv, TypeOK
    <3> QED
      BY <3>1 DEF Knows, KnowsPosting, KnowsPolling
  <2> QED
    BY <2>1, <2>2
<1> QED
  BY <1>1, <1>2, <1>3 DEF IInv

\* Answering, or dying, leaves an idle request, which need know nothing.
LEMMA RequestEnds ==
    ASSUME IInv, NEW r \in Requests, Respond(r), lost' \subseteq Uid,
           UNCHANGED <<ledger, remote, approved, submittedFor, returned>>
    PROVE  IInv'
<1>1. Idle \in Request /\ Knows(Idle)'
  BY DEF Idle, Request, Knows, KnowsPosting, KnowsPolling
<1> QED
  BY <1>1, RequestMoves DEF Respond, IInv, TypeOK

-----------------------------------------------------------------------------
(* One lemma per action that only moves its request.                       *)

LEMMA PostKeeps ==
    ASSUME IInv, NEW r \in Requests, NEW g \in Goals,
           NEW route \in {"simulate", "execute"}, Post(r, route, g)
    PROVE  IInv'
<1> DEFINE q == [Idle EXCEPT !.pc = "quoting", !.route = route, !.goal = g]
<1>1. q \in Request /\ Knows(q)'
  BY DEF Idle, Request, Knows, KnowsPosting, KnowsPolling
<1>2. requests' = [requests EXCEPT ![r] = q]
  BY DEF Post
<1> QED
  BY <1>1, <1>2, RequestMoves DEF Post, IInv, TypeOK, vars

LEMMA QuoteKeeps ==
    ASSUME IInv, NEW r \in Requests, Quote(r)
    PROVE  IInv'
<1>1. PICK terms \in TermsOf[requests[r].goal] :
        requests' = [requests EXCEPT
             ![r].pc = "simulating",
             ![r].uid = [terms |-> terms, network |-> NetworkUsed(r)]]
  BY DEF Quote
<1>2. requests[r] \in Request /\ requests[r].pc = "quoting"
  BY DEF Quote, At, IInv, TypeOK
<1>3. requests[r].goal \in Goals
  BY <1>2 DEF IInv, Knows
<1>4. terms \in Terms
  BY <1>1, <1>3, ExecutionsAssumption
<1>5. /\ NetworkUsed(r) \in Network
      /\ requests[r].route = "execute" => NetworkUsed(r) = DefaultNetwork
  BY <1>3, ExecutionsAssumption DEF NetworkUsed, DefaultNetwork, Network
<1>6. PICK uid \in Uid : /\ uid = [terms |-> terms, network |-> NetworkUsed(r)]
                         /\ requests[r].route = "execute"
                              => uid.network = DefaultNetwork
  <2> DEFINE u == [terms |-> terms, network |-> NetworkUsed(r)]
  <2>1. u \in Uid /\ u.network = NetworkUsed(r)
    BY <1>4, <1>5 DEF Uid
  <2> QED
    BY <2>1, <1>5
<1>7. requests[r].route \in {"simulate", "execute"}
  BY <1>2 DEF IInv, Knows
<1>8. PICK q \in Request : q = [requests[r] EXCEPT !.pc = "simulating", !.uid = uid]
  BY <1>2 DEF Request
<1>9. Knows(q)'
  BY <1>2, <1>3, <1>6, <1>7, <1>8 DEF Request, Knows, KnowsPosting, KnowsPolling
<1>10. requests' = [requests EXCEPT ![r] = q]
  BY <1>1, <1>6, <1>8 DEF IInv, TypeOK
<1> QED
  BY <1>9, <1>10, RequestMoves DEF Quote, IInv, TypeOK

LEMMA SimulateKeeps ==
    ASSUME IInv, NEW r \in Requests, Simulate(r)
    PROVE  IInv'
<1>1. /\ requests[r] \in Request /\ requests[r].pc = "simulating"
      /\ requests[r].goal \in Goals /\ requests[r].uid \in Uid
      /\ Knows(requests[r]) /\ approved \subseteq Uid
  BY DEF Simulate, At, IInv, TypeOK, Knows, KnowsPosting
<1>2. UNCHANGED <<ledger, remote, submittedFor, returned>> /\ lost' \subseteq Uid
  BY DEF Simulate, IInv, TypeOK
<1>3. CASE /\ requests' = [requests EXCEPT
                ![r].pc = IF requests[r].route = "execute"
                          THEN "submitting" ELSE "recording",
                ![r].evidence = "simulated"]
           /\ approved' = approved \cup {requests[r].uid}
  <2>1. PICK q \in Request : q = [requests[r] EXCEPT
                !.pc = IF requests[r].route = "execute"
                       THEN "submitting" ELSE "recording",
                !.evidence = "simulated"]
    BY <1>1 DEF Request, Evidence
  <2>2. Knows(q)'
    BY <1>1, <1>2, <1>3, <2>1
       DEF Request, Evidence, Knows, KnowsPosting, KnowsPolling
  <2>3. requests' = [requests EXCEPT ![r] = q]
    BY <1>3, <2>1 DEF IInv, TypeOK
  <2> QED
    BY <1>1, <1>2, <1>3, <2>2, <2>3, RequestMoves
<1>4. CASE requests[r].route = "execute" /\ Respond(r) /\ UNCHANGED approved
  BY <1>2, <1>4, RequestEnds
<1>5. CASE /\ requests[r].route # "execute"
           /\ requests' = [requests EXCEPT ![r].pc = "recording",
                                           ![r].evidence = "rejected"]
           /\ UNCHANGED approved
  <2>1. PICK q \in Request :
          q = [requests[r] EXCEPT !.pc = "recording", !.evidence = "rejected"]
    BY <1>1 DEF Request, Evidence
  <2>2. Knows(q)'
    BY <1>1, <1>2, <1>5, <2>1
       DEF Request, Evidence, Knows, KnowsPosting, KnowsPolling
  <2>3. requests' = [requests EXCEPT ![r] = q]
    BY <1>5, <2>1 DEF IInv, TypeOK
  <2> QED
    BY <1>1, <1>2, <1>5, <2>2, <2>3, RequestMoves
<1> QED
  BY <1>3, <1>4, <1>5 DEF Simulate

LEMMA GetKeeps ==
    ASSUME IInv, NEW r \in Requests, NEW g \in Goals, NEW uid \in Uid,
           Get(r, g, uid)
    PROVE  IInv'
<1>1. PICK k \in Key : ledger[k] # NoRow /\ ledger[k].execution = uid
  BY DEF Get
<1>2. k = presignKey(uid)
  <2>1. uid # Nothing
    BY ExecutionsAssumption DEF Uid
  <2>2. k.operation = "presign" /\ k.uid = uid
    BY <1>1, <2>1 DEF IInv, LedgerNames, LedgerAgreesWithRemote
  <2> QED
    BY <2>2, KeysDiffer
<1> DEFINE q == [Idle EXCEPT !.pc = "reading", !.route = "reconcile",
                             !.goal = g, !.uid = uid]
<1>3. q \in Request
  BY DEF Idle, Request
<1>4. Knows(q)'
  BY <1>1, <1>2 DEF Get, Idle, Knows, KnowsPosting, KnowsPolling
<1> QED
  BY <1>3, <1>4, RequestMoves DEF Get, IInv, TypeOK

LEMMA ReadStatusKeeps ==
    ASSUME IInv, NEW r \in Requests, ReadStatus(r)
    PROVE  IInv'
<1> DEFINE snapshot == remote[requests[r].uid]
           outcome == reconcileKeeperHubExecution(snapshot)
<1>1. /\ requests[r] \in Request /\ requests[r].pc = "reading"
      /\ Knows(requests[r]) /\ requests[r].uid \in Uid
      /\ snapshot \in Snapshot
  BY DEF ReadStatus, At, IInv, TypeOK, Knows, KnowsPolling
<1>2. /\ UNCHANGED <<ledger, remote, approved, submittedFor, returned>>
      /\ lost' \subseteq Uid
  BY DEF ReadStatus, IInv, TypeOK
<1>3. CASE outcome = Nothing /\ Respond(r)
  BY <1>2, <1>3, RequestEnds
<1>4. CASE /\ outcome # Nothing
           /\ requests' = [requests EXCEPT ![r].pc = "applying",
                                           ![r].outcome = outcome]
  <2>1. PICK o : o = outcome
    OBVIOUS
  <2>2. /\ o \in {"SUBMITTED", "CONFIRMED", "FAILED"}
        /\ o = "CONFIRMED" => snapshot.status = "completed" /\ snapshot.proof
        /\ o = "FAILED" => snapshot.status = "failed"
    <3>1. snapshot.proof => snapshot.status = "completed"
      BY <1>1 DEF IInv, ProofsFollowCompletion
    <3> QED
      BY <1>1, <1>4, <2>1, <3>1 DEF reconcileKeeperHubExecution
  <2>3. o = "CONFIRMED" => snapshot = [status |-> "completed", proof |-> TRUE]
    BY <1>1, <2>2 DEF Snapshot
  <2>4. PICK q \in Request : q = [requests[r] EXCEPT !.pc = "applying", !.outcome = o]
    BY <1>1, <2>2 DEF Request
  <2>5. Knows(q)'
    BY <1>1, <1>2, <2>2, <2>3, <2>4
       DEF Request, Knows, KnowsPosting, KnowsPolling
  <2>6. requests' = [requests EXCEPT ![r] = q]
    BY <1>4, <2>1, <2>4 DEF IInv, TypeOK
  <2>7. approved \subseteq Uid
    BY DEF IInv, TypeOK
  <2> QED
    BY <1>2, <2>5, <2>6, <2>7, RequestMoves
<1> QED
  BY <1>3, <1>4 DEF ReadStatus

-----------------------------------------------------------------------------
(* The steps that change the ledger or KeeperHub's executions.  What the   *)
(* other requests know survives them: rows never go, an execution that has *)
(* begun stays begun, and one that has ended keeps its end.                *)

LEMMA KnowledgeLasts ==
    ASSUME IInv, NEW r \in Requests, TypeOK',
           \/ requests' \in {requests, [requests EXCEPT ![r] = Idle]}
           \/ /\ At(r, "submitting") /\ remote'[requests[r].uid] # Unborn
              /\ requests' = [requests EXCEPT ![r].pc = "recording"],
           UNCHANGED approved,
           \A k \in Key : ledger[k] # NoRow => ledger'[k] # NoRow,
           \A u \in Uid :
              /\ remote[u] # Unborn => remote'[u] # Unborn
              /\ remote[u] = [status |-> "completed", proof |-> TRUE]
                    => remote'[u] = remote[u]
              /\ remote[u].status = "failed" => remote'[u].status = "failed"
    PROVE  \A s \in Requests : Knows(requests[s])'
<1> SUFFICES ASSUME NEW s \in Requests PROVE Knows(requests[s])'
  OBVIOUS
<1>1. Knows(requests[s]) /\ requests[s] \in Request
  BY DEF IInv, TypeOK
<1>2. \A u \in Uid : presignKey(u) \in Key
  BY KeysDiffer
<1>3. CASE requests'[s] = requests[s]
  BY <1>1, <1>2, <1>3 DEF Knows, KnowsPosting, KnowsPolling
<1>4. CASE requests'[s] = Idle
  BY <1>4 DEF Idle, Knows, KnowsPosting, KnowsPolling
<1>5. CASE /\ s = r /\ At(r, "submitting") /\ remote'[requests[r].uid] # Unborn
           /\ requests' = [requests EXCEPT ![r].pc = "recording"]
  <2>1. requests'[s] = [requests[s] EXCEPT !.pc = "recording"]
    BY <1>5 DEF IInv, TypeOK
  <2>2. requests[s].pc = "submitting" /\ remote'[requests[s].uid] # Unborn
    BY <1>5 DEF At
  <2> QED
    BY <1>1, <2>1, <2>2 DEF Request, Knows, KnowsPosting, KnowsPolling
<1> QED
  BY <1>3, <1>4, <1>5 DEF IInv, TypeOK

LEMMA SubmitKeeps ==
    ASSUME IInv, NEW r \in Requests, Submit(r)
    PROVE  IInv'
<1>1. PICK uid \in Uid : uid = requests[r].uid
  BY DEF Submit, At, IInv, Knows, KnowsPosting
<1>2. /\ uid \in approved /\ requests[r] \in Request
      /\ requests[r].goal \in Goals
  BY <1>1 DEF Submit, At, IInv, TypeOK, Knows, KnowsPosting
<1>3. /\ remote' = IF remote[uid] = Unborn
                   THEN [remote EXCEPT ![uid].status = "pending"] ELSE remote
      /\ submittedFor' = submittedFor \cup {<<requests[r].goal, uid>>}
      /\ requests' = [requests EXCEPT ![r].pc = "recording"]
      /\ UNCHANGED <<ledger, approved, returned, lost>>
  BY <1>1 DEF Submit, Goto
<1>4. TypeOK'
  <2>1. remote' \in [Uid -> Snapshot]
    BY <1>3 DEF IInv, TypeOK, Snapshot
  <2>2. requests' \in [Requests -> Request]
    BY <1>2, <1>3 DEF IInv, TypeOK, Request
  <2>3. submittedFor' \subseteq Goals \X Uid
    BY <1>1, <1>2, <1>3 DEF IInv, TypeOK
  <2> QED
    BY <1>3, <2>1, <2>2, <2>3 DEF IInv, TypeOK
<1>5. /\ \A u \in Uid : remote[u] # Unborn => remote'[u] = remote[u]
      /\ remote'[uid] # Unborn
      /\ \A u \in Uid : u # uid => remote'[u] = remote[u]
  BY <1>3 DEF IInv, TypeOK, Snapshot, Unborn
<1>6. LedgerAgreesWithRemote'
  <2> SUFFICES ASSUME NEW k \in Key, ledger[k] # NoRow
               PROVE  remote[k.uid] # Unborn => remote'[k.uid] = remote[k.uid]
    BY <1>3, KeysDiffer, NoRowIsNoRow
       DEF IInv, TypeOK, LedgerAgreesWithRemote, Unborn, Row
  <2> QED
    BY <1>5, KeysDiffer
<1>7. LedgerNames' /\ (\A entry \in returned : ledger[entry[2]] # NoRow)'
  BY <1>3 DEF IInv, LedgerNames
<1>8. OnlySimulatedIsSubmitted'
  BY <1>2, <1>3, <1>5 DEF IInv, OnlySimulatedIsSubmitted
<1>10. ProofsFollowCompletion'
  <2>1. remote'[uid].proof => remote'[uid] = remote[uid]
    BY <1>3 DEF IInv, TypeOK, Snapshot, Unborn
  <2> QED
    BY <1>5, <2>1 DEF IInv, ProofsFollowCompletion
<1>9. \A s \in Requests : Knows(requests[s])'
  <2>1. \A u \in Uid :
          /\ remote[u] # Unborn => remote'[u] # Unborn
          /\ remote[u] = [status |-> "completed", proof |-> TRUE]
                => remote'[u] = remote[u]
          /\ remote[u].status = "failed" => remote'[u].status = "failed"
    <3> SUFFICES ASSUME NEW u \in Uid
                 PROVE  /\ remote[u] # Unborn => remote'[u] # Unborn
                        /\ remote[u] = [status |-> "completed", proof |-> TRUE]
                              => remote'[u] = remote[u]
                        /\ remote[u].status = "failed"
                              => remote'[u].status = "failed"
      OBVIOUS
    <3>1. remote[u].status \in {"completed", "failed"} => remote[u] # Unborn
      BY DEF Unborn
    <3> QED
      BY <1>5, <3>1
  <2>2. At(r, "submitting") /\ remote'[requests[r].uid] # Unborn
    BY <1>1, <1>5 DEF Submit
  <2> QED
    BY <1>3, <1>4, <2>1, <2>2, KnowledgeLasts
<1> QED
  BY <1>4, <1>6, <1>7, <1>8, <1>9, <1>10 DEF IInv

\* A new row that agrees with its order and KeeperHub keeps the invariant.
LEMMA InsertKeeps ==
    ASSUME IInv, NEW r \in Requests, NEW key \in Key, NEW row \in Row,
           Insert(r, key, row), requests[r].goal \in Goals,
           row.network = key.uid.network,
           row.evidence = "simulated" => key.uid \in approved,
           row.execution # Nothing <=> key.operation = "presign",
           row.execution # Nothing =>
              row.execution = key.uid /\ remote[key.uid] # Unborn,
           row.state \in {"SIMULATED", "SUBMITTED"}, ~row.proof, lost' \subseteq Uid
    PROVE  IInv'
<1>1. /\ ledger' = IF ledger[key] = NoRow THEN [ledger EXCEPT ![key] = row]
                                          ELSE ledger
      /\ returned' = returned \cup {<<requests[r].goal, key, row.evidence>>}
      /\ requests' = [requests EXCEPT ![r] = Idle]
      /\ UNCHANGED <<remote, approved, submittedFor>>
  BY DEF Insert, Respond
<1>2. /\ \A k \in Key : ledger'[k] = ledger[k] \/ (k = key /\ ledger'[k] = row)
      /\ \A k \in Key : ledger[k] # NoRow => ledger'[k] = ledger[k]
      /\ ledger'[key] # NoRow
  BY <1>1, NoRowIsNoRow DEF IInv, TypeOK
<1>3. TypeOK'
  <2>1. ledger' \in [Key -> Row \cup {NoRow}]
    BY <1>1 DEF IInv, TypeOK
  <2>2. requests' \in [Requests -> Request]
    BY <1>1 DEF IInv, TypeOK, Idle, Request
  <2>3. returned' \subseteq Goals \X Key \X Evidence
    BY <1>1 DEF IInv, TypeOK, Row
  <2> QED
    BY <1>1, <2>1, <2>2, <2>3 DEF IInv, TypeOK
<1>4. LedgerAgreesWithRemote' /\ LedgerNames'
  BY <1>1, <1>2 DEF IInv, LedgerAgreesWithRemote, LedgerNames
<1>5. OnlySimulatedIsSubmitted' /\ ProofsFollowCompletion'
  BY <1>1 DEF IInv, OnlySimulatedIsSubmitted, ProofsFollowCompletion
<1>6. \A s \in Requests : Knows(requests[s])'
  BY <1>1, <1>2, <1>3, KnowledgeLasts
<1>7. (\A entry \in returned : ledger[entry[2]] # NoRow)'
  <2>1. \A entry \in returned : entry[2] \in Key
    BY DEF IInv, TypeOK
  <2> QED
    BY <1>1, <1>2, <2>1 DEF IInv
<1> QED
  BY <1>3, <1>4, <1>5, <1>6, <1>7 DEF IInv

LEMMA RecordSimulationKeeps ==
    ASSUME IInv, NEW r \in Requests, RecordSimulationEvidence(r)
    PROVE  IInv'
<1>1. PICK uid \in Uid, evidence \in Evidence, goal \in Goals :
        /\ uid = requests[r].uid /\ evidence = requests[r].evidence
        /\ goal = requests[r].goal
        /\ evidence = "simulated" => uid \in approved
  BY DEF RecordSimulationEvidence, At, IInv, Knows, KnowsPosting
<1> DEFINE key == simulationKey(uid)
           row == [goal |-> goal, network |-> uid.network, evidence |-> evidence,
                   execution |-> Nothing, state |-> "SIMULATED", proof |-> FALSE]
<1>2. key \in Key /\ key.uid = uid /\ key.operation # "presign"
  BY KeysDiffer
<1>3. row \in Row
  BY DEF Row, Uid, ExecutionState
<1>4. Insert(r, key, row) /\ lost' \subseteq Uid
  BY <1>1 DEF RecordSimulationEvidence, IInv, TypeOK
<1> QED
  BY <1>1, <1>2, <1>3, <1>4, InsertKeeps

LEMMA RecordSubmittedKeeps ==
    ASSUME IInv, NEW r \in Requests, RecordSubmittedExecution(r)
    PROVE  IInv'
<1>1. PICK uid \in Uid, evidence \in Evidence, goal \in Goals :
        /\ uid = requests[r].uid /\ evidence = requests[r].evidence
        /\ goal = requests[r].goal
        /\ uid \in approved /\ uid.network = DefaultNetwork
        /\ remote[uid] # Unborn
  BY DEF RecordSubmittedExecution, At, IInv, Knows, KnowsPosting
<1> DEFINE key == presignKey(uid)
           row == [goal |-> goal, network |-> DefaultNetwork,
                   evidence |-> evidence, execution |-> uid,
                   state |-> "SUBMITTED", proof |-> FALSE]
<1>2. key \in Key /\ key.uid = uid /\ key.operation = "presign"
  BY KeysDiffer
<1>3. row \in Row
  BY DEF Row, ExecutionState, DefaultNetwork, Network
<1>4. uid # Nothing
  BY ExecutionsAssumption DEF Uid
<1>5. Insert(r, key, row) /\ lost' \subseteq Uid
  BY <1>1 DEF RecordSubmittedExecution, IInv, TypeOK
<1> QED
  BY <1>1, <1>2, <1>3, <1>4, <1>5, InsertKeeps

\* The outcome a poll applies is one KeeperHub's execution has had since.
LEMMA ApplyKeeps ==
    ASSUME IInv, NEW r \in Requests, ApplyReconciliation(r)
    PROVE  IInv'
<1>1. /\ requests[r].uid \in Uid
      /\ requests[r].outcome \in {"SUBMITTED", "CONFIRMED", "FAILED"}
      /\ KnowsPolling(requests[r]) /\ requests[r].pc = "applying"
  BY DEF ApplyReconciliation, At, IInv, Knows, KnowsPolling
<1>2. PICK uid \in Uid, outcome \in {"SUBMITTED", "CONFIRMED", "FAILED"} :
        /\ uid = requests[r].uid /\ outcome = requests[r].outcome
        /\ outcome = "CONFIRMED" =>
              remote[uid] = [status |-> "completed", proof |-> TRUE]
        /\ outcome = "FAILED" => remote[uid].status = "failed"
        /\ ledger[presignKey(uid)] # NoRow
  BY <1>1 DEF KnowsPolling
<1>3. PICK key \in Key : /\ key = presignKey(uid)
                         /\ key.uid = uid /\ key.operation = "presign"
  BY KeysDiffer
<1>4. /\ UNCHANGED <<remote, approved, submittedFor, returned, lost>> /\ Respond(r)
      /\ lost' \subseteq Uid
  BY DEF ApplyReconciliation, IInv, TypeOK
<1>5. ledger' = IF ledger[key].state \in {"SIMULATED", "SUBMITTED"}
                THEN [ledger EXCEPT ![key] = ReconciledRow(@, outcome)] ELSE ledger
  BY <1>2, <1>3 DEF ApplyReconciliation
<1>6. CASE ledger' = ledger
  BY <1>4, <1>6, RequestEnds
<1>7. CASE /\ ledger[key].state \in {"SIMULATED", "SUBMITTED"}
           /\ ledger' = [ledger EXCEPT ![key] = ReconciledRow(@, outcome)]
  <2>1. PICK row \in Row : row = ledger[key]
    BY <1>2, <1>3 DEF IInv, TypeOK
  <2>2. /\ row.network = key.uid.network
        /\ row.evidence = "simulated" => key.uid \in approved
        /\ row.execution = key.uid /\ remote[uid] # Unborn
        /\ row.state \in {"SIMULATED", "SUBMITTED"} /\ row.proof = FALSE
        /\ row.execution # Nothing
    <3>1. row.execution # Nothing
      BY <1>2, <1>3, <2>1 DEF IInv, LedgerNames
    <3>2. row.state = "CONFIRMED" <=> row.proof
      BY <1>2, <1>3, <2>1 DEF IInv, LedgerAgreesWithRemote
    <3>3. row.proof = FALSE
      BY <1>7, <2>1, <3>2 DEF Row
    <3> QED
      BY <1>2, <1>3, <1>7, <2>1, <3>1, <3>3 DEF IInv, LedgerAgreesWithRemote
  <2>3. PICK new : new = ReconciledRow(row, outcome)
    OBVIOUS
  <2>4. /\ new \in Row
        /\ new.network = row.network /\ new.evidence = row.evidence
        /\ new.execution = row.execution
        /\ new.state = outcome /\ new.proof = (outcome = "CONFIRMED")
    BY <2>2, <2>3 DEF ReconciledRow, Row, ExecutionState
  <2>5. /\ \A k \in Key : k # key => ledger'[k] = ledger[k]
        /\ ledger'[key] = new /\ new # NoRow
    BY <1>7, <2>1, <2>3, <2>4, NoRowIsNoRow DEF IInv, TypeOK
  <2>6. TypeOK'
    <3>1. ledger' \in [Key -> Row \cup {NoRow}]
      BY <1>7, <2>1, <2>3, <2>4 DEF IInv, TypeOK
    <3>2. requests' \in [Requests -> Request]
      BY <1>4 DEF Respond, IInv, TypeOK, Idle, Request
    <3> QED
      BY <1>4, <3>1, <3>2 DEF IInv, TypeOK
  <2>7. LedgerAgreesWithRemote'
    <3> SUFFICES ASSUME NEW k \in Key, ledger'[k] # NoRow
                 PROVE  LET held == ledger'[k]
          IN  /\ held.network = k.uid.network
              /\ held.evidence = "simulated" => k.uid \in approved
              /\ held.execution # Nothing =>
                    held.execution = k.uid /\ remote[k.uid] # Unborn
              /\ held.state = "CONFIRMED" <=> held.proof
              /\ held.state = "CONFIRMED" =>
                    remote[k.uid] = [status |-> "completed", proof |-> TRUE]
              /\ held.state = "FAILED" => remote[k.uid].status = "failed"
      BY <1>4 DEF LedgerAgreesWithRemote
    <3>1. CASE k = key
      BY <1>2, <1>3, <2>2, <2>4, <2>5, <3>1
    <3>2. CASE k # key
      BY <2>5, <3>2 DEF IInv, LedgerAgreesWithRemote
    <3> QED
      BY <3>1, <3>2
  <2>8. LedgerNames'
    BY <1>3, <2>2, <2>4, <2>5 DEF IInv, LedgerNames
  <2>9. OnlySimulatedIsSubmitted' /\ ProofsFollowCompletion'
    BY <1>4 DEF IInv, OnlySimulatedIsSubmitted, ProofsFollowCompletion
  <2>10. \A s \in Requests : Knows(requests[s])'
    BY <1>4, <2>5, <2>6, KnowledgeLasts DEF Respond
  <2>11. (\A entry \in returned : ledger[entry[2]] # NoRow)'
    <3>1. \A entry \in returned : entry[2] \in Key
      BY DEF IInv, TypeOK
    <3> QED
      BY <1>4, <2>5, <3>1 DEF IInv
  <2> QED
    BY <2>6, <2>7, <2>8, <2>9, <2>10, <2>11 DEF IInv
<1> QED
  BY <1>5, <1>6, <1>7

LEMMA RemoteKeeps ==
    ASSUME IInv, NEW uid \in Uid, RemoteMoves(uid)
    PROVE  IInv'
<1>1. PICK s \in Snapshot :
        /\ \/ remote[uid].status = "pending" /\ s.status \in {"running", "failed"}
           \/ remote[uid].status = "running" /\ s.status \in {"completed", "failed"}
           \/ remote[uid].status = "completed" /\ ~remote[uid].proof
                /\ s = [status |-> "completed", proof |-> TRUE]
        /\ s.proof => s.status = "completed"
        /\ remote' = [remote EXCEPT ![uid] = s]
  BY DEF RemoteMoves
<1>2. UNCHANGED <<ledger, requests, approved, submittedFor, returned, lost>>
  BY DEF RemoteMoves
<1>3. /\ remote[uid] # Unborn /\ remote[uid].status # "failed"
      /\ remote[uid] # [status |-> "completed", proof |-> TRUE]
      /\ s # Unborn
  BY <1>1 DEF Unborn
<1>4. /\ \A u \in Uid : remote'[u] = remote[u] \/ (u = uid /\ remote'[u] = s)
      /\ \A u \in Uid : remote[u] = Unborn => remote'[u] = Unborn
  BY <1>1, <1>3 DEF IInv, TypeOK
<1>5. \A u \in Uid :
        /\ remote[u] # Unborn => remote'[u] # Unborn
        /\ remote[u] = [status |-> "completed", proof |-> TRUE]
              => remote'[u] = remote[u]
        /\ remote[u].status = "failed" => remote'[u].status = "failed"
  BY <1>3, <1>4
<1>6. TypeOK'
  BY <1>1, <1>2 DEF IInv, TypeOK
<1>7. LedgerAgreesWithRemote' /\ LedgerNames'
  BY <1>2, <1>5, KeysDiffer DEF IInv, LedgerAgreesWithRemote, LedgerNames
<1>8. OnlySimulatedIsSubmitted' /\ ProofsFollowCompletion'
  BY <1>1, <1>2, <1>4 DEF IInv, OnlySimulatedIsSubmitted, ProofsFollowCompletion
<1>9. \A r \in Requests : Knows(requests[r])'
  BY <1>2, <1>5, <1>6, KnowledgeLasts
<1>10. (\A entry \in returned : ledger[entry[2]] # NoRow)'
  BY <1>2 DEF IInv
<1> QED
  BY <1>6, <1>7, <1>8, <1>9, <1>10 DEF IInv

\* The invariant is inductive.
LEMMA NextIInv == IInv /\ [Next]_vars => IInv'
<1> SUFFICES ASSUME IInv, [Next]_vars PROVE IInv'
  OBVIOUS
<1>1. ASSUME NEW r \in Requests, Step(r) PROVE IInv'
  <2>1. CASE \E g \in Goals : Post(r, "simulate", g) \/ Post(r, "execute", g)
    BY <2>1, PostKeeps
  <2>2. CASE Quote(r)
    BY <2>2, QuoteKeeps
  <2>3. CASE Simulate(r)
    BY <2>3, SimulateKeeps
  <2>4. CASE Submit(r)
    BY <2>4, SubmitKeeps
  <2>5. CASE RecordSimulationEvidence(r)
    BY <2>5, RecordSimulationKeeps
  <2>6. CASE RecordSubmittedExecution(r)
    BY <2>6, RecordSubmittedKeeps
  <2>7. CASE \E g \in Goals, uid \in Uid : Get(r, g, uid)
    BY <2>7, GetKeeps
  <2>8. CASE ReadStatus(r)
    BY <2>8, ReadStatusKeeps
  <2>9. CASE ApplyReconciliation(r)
    BY <2>9, ApplyKeeps
  <2>10. CASE RequestFails(r)
    <3>1. Recording(r) => requests[r].uid \in Uid
      BY DEF Recording, At, IInv, Knows, KnowsPosting
    <3>2. lost' \subseteq Uid
      BY <2>10, <3>1 DEF RequestFails, IInv, TypeOK
    <3> QED
      BY <2>10, <3>2, RequestEnds DEF RequestFails
  <2> QED
    BY <1>1, <2>1, <2>2, <2>3, <2>4, <2>5, <2>6, <2>7, <2>8, <2>9, <2>10 DEF Step
<1>2. ASSUME NEW uid \in Uid, RemoteMoves(uid) PROVE IInv'
  BY <1>2, RemoteKeeps
<1>3. CASE UNCHANGED vars
  <2>1. \A r \in Requests : Knows(requests[r])'
    BY <1>3 DEF vars, IInv, Knows, KnowsPosting, KnowsPolling
  <2> QED
    BY <1>3, <2>1 DEF vars, IInv, TypeOK, LedgerAgreesWithRemote, LedgerNames,
                      OnlySimulatedIsSubmitted, ProofsFollowCompletion
<1> QED
  BY <1>1, <1>2, <1>3 DEF Next

-----------------------------------------------------------------------------
LEMMA Invariance == Spec => []IInv
BY InitIInv, NextIInv, PTL DEF Spec

\* Rows, snapshots and the requests' variables keep their types.
THEOREM ExecutionsTypeCorrect == Spec => []TypeOK
<1>1. IInv => TypeOK
  BY DEF IInv
<1> QED
  BY <1>1, Invariance, PTL

\* The ledger never says of an execution what KeeperHub did not say of it,
\* whatever polls, retries and crashes interleave.
THEOREM LedgerTellsTheTruth == Spec => []LedgerAgreesWithRemote
<1>1. IInv => LedgerAgreesWithRemote
  BY DEF IInv
<1> QED
  BY <1>1, Invariance, PTL

\* Nothing is executed that KeeperHub did not simulate first.
THEOREM SimulatedBeforeSubmitted == Spec => []OnlySimulatedIsSubmitted
<1>1. IInv => OnlySimulatedIsSubmitted
  BY DEF IInv
<1> QED
  BY <1>1, Invariance, PTL

\* The execution of an order stays within reach of the status route, or on its
\* way there, whatever inserts, repeats and crashes come between.
LEMMA TrackingLasts ==
    ASSUME IInv, IInv', RecordedIsTracked, [Next]_vars
    PROVE  RecordedIsTracked'
<1> DEFINE Tracked(u) == \E k \in Key : ledger[k] # NoRow /\ ledger[k].execution = u
           OnItsWay(u) == \E r \in Requests : Recording(r) /\ requests[r].uid = u
<1> SUFFICES ASSUME NEW u \in Uid, remote'[u] # Unborn
             PROVE  Tracked(u)' \/ OnItsWay(u)' \/ u \in lost'
  BY DEF RecordedIsTracked
<1>1. ASSUME \A k \in Key : ledger[k] # NoRow =>
                 ledger'[k] # NoRow /\ ledger'[k].execution = ledger[k].execution,
             Tracked(u)
      PROVE  Tracked(u)'
  BY <1>1
<1>2. ASSUME NEW r \in Requests, ~Recording(r) \/ requests[r].uid # u,
             \A s \in Requests : s # r => requests'[s] = requests[s],
             OnItsWay(u)
      PROVE  OnItsWay(u)'
  BY <1>2 DEF Recording, At
<1>3. ASSUME remote[u] # Unborn PROVE Tracked(u) \/ OnItsWay(u) \/ u \in lost
  BY <1>3 DEF RecordedIsTracked
<1>4. ASSUME NEW r \in Requests, Submit(r)
      PROVE  Tracked(u)' \/ OnItsWay(u)' \/ u \in lost'
  <2>1. /\ requests' = [requests EXCEPT ![r].pc = "recording"]
        /\ UNCHANGED <<ledger, lost>> /\ At(r, "submitting")
        /\ requests[r] \in Request /\ requests[r].uid \in Uid
        /\ requests[r].route = "execute"
    BY <1>4 DEF Submit, Goto, At, IInv, TypeOK, Knows, KnowsPosting
  <2>2. CASE requests[r].uid = u
    <3>1. Recording(r)' /\ requests'[r].uid = u
      BY <2>1, <2>2 DEF Recording, At, Request, IInv, TypeOK
    <3> QED
      BY <3>1
  <2>3. CASE requests[r].uid # u
    <3>1. remote'[u] = remote[u]
      BY <1>4, <2>1, <2>3 DEF Submit, IInv, TypeOK
    <3>2. \A s \in Requests : s # r => requests'[s] = requests[s]
      BY <2>1 DEF IInv, TypeOK
    <3> QED
      BY <1>2, <1>3, <2>1, <2>3, <3>1, <3>2
  <2> QED
    BY <2>2, <2>3
<1>5. ASSUME NEW r \in Requests, RecordSubmittedExecution(r)
      PROVE  Tracked(u)' \/ OnItsWay(u)' \/ u \in lost'
  <2>1. PICK uid \in Uid : uid = requests[r].uid /\ remote[uid] # Unborn
    BY <1>5 DEF RecordSubmittedExecution, At, IInv, Knows, KnowsPosting
  <2>2. PICK key \in Key, row \in Row :
          /\ key = presignKey(uid) /\ row.execution = uid /\ Insert(r, key, row)
          /\ key.operation = "presign" /\ key.uid = uid
    <3>1. requests[r].goal \in Goals /\ requests[r].evidence \in Evidence
      BY <1>5 DEF RecordSubmittedExecution, At, IInv, Knows, KnowsPosting
    <3> DEFINE row == [goal |-> requests[r].goal, network |-> DefaultNetwork,
                       evidence |-> requests[r].evidence, execution |-> uid,
                       state |-> "SUBMITTED", proof |-> FALSE]
    <3>2. row \in Row
      BY <3>1 DEF Row, ExecutionState, DefaultNetwork, Network
    <3>3. presignKey(uid) \in Key /\ presignKey(uid).operation = "presign"
          /\ presignKey(uid).uid = uid
      BY KeysDiffer
    <3>4. Insert(r, presignKey(uid), row)
      BY <1>5, <2>1 DEF RecordSubmittedExecution
    <3> QED
      BY <3>2, <3>3, <3>4
  <2>3. /\ ledger'[key] # NoRow
        /\ \A k \in Key : ledger[k] # NoRow => ledger'[k] = ledger[k]
    BY <2>2, NoRowIsNoRow DEF Insert, IInv, TypeOK
  <2>4. CASE uid = u
    <3>1. ledger'[key].execution # Nothing
      BY <2>2, <2>3 DEF IInv, LedgerNames
    <3>2. ledger'[key].execution = u
      BY <2>2, <2>3, <2>4, <3>1 DEF IInv, LedgerAgreesWithRemote
    <3> QED
      BY <2>3, <3>2
  <2>5. CASE uid # u
    <3>1. remote' = remote /\ requests' = [requests EXCEPT ![r] = Idle]
          /\ lost' = lost \ {uid}
      BY <1>5, <2>1, <2>2 DEF RecordSubmittedExecution, Insert, Respond
    <3>2. \A s \in Requests : s # r => requests'[s] = requests[s]
      BY <3>1 DEF IInv, TypeOK
    <3> QED
      BY <1>1, <1>2, <1>3, <2>1, <2>3, <2>5, <3>1, <3>2
  <2> QED
    BY <2>4, <2>5
<1>6. ASSUME NEW r \in Requests, RequestFails(r)
      PROVE  Tracked(u)' \/ OnItsWay(u)' \/ u \in lost'
  <2>1. /\ UNCHANGED <<ledger, remote>>
        /\ \A s \in Requests : s # r => requests'[s] = requests[s]
    BY <1>6 DEF RequestFails, Respond, IInv, TypeOK
  <2>2. lost' = IF Recording(r) THEN lost \cup {requests[r].uid} ELSE lost
    BY <1>6 DEF RequestFails
  <2> QED
    BY <1>2, <1>3, <2>1, <2>2
<1>7. ASSUME NEW r \in Requests, RecordSimulationEvidence(r)
      PROVE  Tracked(u)' \/ OnItsWay(u)' \/ u \in lost'
  <2>1. PICK key, row : Insert(r, key, row)
    BY <1>7 DEF RecordSimulationEvidence
  <2>2. /\ \A s \in Requests : s # r => requests'[s] = requests[s]
        /\ \A k \in Key : ledger[k] # NoRow => ledger'[k] = ledger[k]
        /\ UNCHANGED <<remote, lost>> /\ ~Recording(r)
    BY <1>7, <2>1 DEF RecordSimulationEvidence, Insert, Respond, Recording, IInv, TypeOK
  <2> QED
    BY <1>1, <1>2, <1>3, <2>2
<1>8. ASSUME NEW r \in Requests, ApplyReconciliation(r)
      PROVE  Tracked(u)' \/ OnItsWay(u)' \/ u \in lost'
  <2>1. /\ \A s \in Requests : s # r => requests'[s] = requests[s]
        /\ UNCHANGED <<remote, lost>> /\ ~Recording(r)
    BY <1>8 DEF ApplyReconciliation, Respond, Recording, At, IInv, TypeOK
  <2>2. PICK key \in Key : key = presignKey(requests[r].uid) /\ ledger[key] \in Row
    BY <1>8, KeysDiffer DEF ApplyReconciliation, At, IInv, TypeOK, Knows, KnowsPolling
  <2>3. PICK outcome : outcome = requests[r].outcome
    OBVIOUS
  <2>4. \/ ledger' = ledger
        \/ ledger' = [ledger EXCEPT ![key] = ReconciledRow(@, outcome)]
    BY <1>8, <2>2, <2>3 DEF ApplyReconciliation
  <2>5. ReconciledRow(ledger[key], outcome).execution = ledger[key].execution
    BY <2>2 DEF ReconciledRow, Row
  <2>6. ASSUME NEW k \in Key, ledger[k] # NoRow
        PROVE  ledger'[k] # NoRow /\ ledger'[k].execution = ledger[k].execution
    <3>1. CASE ledger'[k] = ledger[k]
      BY <2>6, <3>1
    <3>2. CASE k = key /\ ledger'[k] = ReconciledRow(ledger[key], outcome)
      <4>1. DOMAIN ledger'[k] = DOMAIN ledger[key] /\ "goal" \in DOMAIN ledger[key]
        BY <2>2, <3>2 DEF ReconciledRow, Row
      <4>2. DOMAIN NoRow = {"state"}
        BY DEF NoRow
      <4> QED
        BY <2>5, <3>2, <4>1, <4>2
    <3> QED
      BY <2>4, <3>1, <3>2 DEF IInv, TypeOK
  <2> QED
    BY <1>1, <1>2, <1>3, <2>1, <2>6
<1>9. ASSUME NEW r \in Requests,
             UNCHANGED <<ledger, remote, lost>>, ~Recording(r),
             \A s \in Requests : s # r => requests'[s] = requests[s]
      PROVE  Tracked(u)' \/ OnItsWay(u)' \/ u \in lost'
  BY <1>2, <1>3, <1>9
<1>10. ASSUME NEW r \in Requests, Step(r)
       PROVE  \/ Submit(r) \/ RecordSubmittedExecution(r) \/ RequestFails(r)
              \/ RecordSimulationEvidence(r) \/ ApplyReconciliation(r)
              \/ /\ UNCHANGED <<ledger, remote, lost>> /\ ~Recording(r)
                 /\ \A s \in Requests : s # r => requests'[s] = requests[s]
  <2>1. requests \in [Requests -> Request]
    BY DEF IInv, TypeOK
  <2> QED
    BY <1>10, <2>1 DEF Step, Post, Quote, Simulate, Get, ReadStatus, Respond, Recording, At
<1>11. ASSUME NEW uid \in Uid, RemoteMoves(uid)
       PROVE  Tracked(u)' \/ OnItsWay(u)' \/ u \in lost'
  <2>1. UNCHANGED <<ledger, requests, lost>>
    BY <1>11 DEF RemoteMoves
  <2>2. remote[u] # Unborn
    <3>1. remote[uid] # Unborn
      BY <1>11 DEF RemoteMoves, Unborn
    <3>2. u # uid => remote'[u] = remote[u]
      BY <1>11 DEF RemoteMoves, IInv, TypeOK
    <3> QED
      BY <3>1, <3>2
  <2> QED
    BY <1>3, <2>1, <2>2 DEF Recording, At
<1>12. CASE UNCHANGED vars
  BY <1>3, <1>12 DEF vars, Recording, At
<1> QED
  BY <1>4, <1>5, <1>6, <1>7, <1>8, <1>9, <1>10, <1>11, <1>12 DEF Next

\* Every execution KeeperHub runs can be found by the status route, unless the
\* request that submitted it died before recording it and none repeated it.
THEOREM RecordedStaysTracked == Spec => []RecordedIsTracked
<1>1. Init => RecordedIsTracked
  BY DEF Init, RecordedIsTracked
<1>2. IInv /\ IInv' /\ RecordedIsTracked /\ [Next]_vars => RecordedIsTracked'
  BY TrackingLasts
<1> QED
  BY <1>1, <1>2, Invariance, PTL DEF Spec

\* A row that has its final outcome never changes again.
THEOREM OutcomesStayFinal == Spec => OutcomesAreFinal
<1> DEFINE Final == \A k \in Key : ledger[k].state \in {"CONFIRMED", "FAILED"}
                                        => ledger'[k] = ledger[k]
<1>1. IInv /\ [Next]_vars => [Final]_vars
  <2> SUFFICES ASSUME IInv, Next PROVE Final
    OBVIOUS
  <2>1. CASE UNCHANGED ledger
    BY <2>1
  <2>2. ASSUME NEW r \in Requests,
               RecordSimulationEvidence(r) \/ RecordSubmittedExecution(r)
        PROVE  Final
    <3>1. PICK key, row : Insert(r, key, row)
      BY <2>2 DEF RecordSimulationEvidence, RecordSubmittedExecution
    <3>2. NoRow.state = "ABSENT"
      BY DEF NoRow
    <3> QED
      BY <3>1, <3>2 DEF Insert, IInv, TypeOK
  <2>3. ASSUME NEW r \in Requests, ApplyReconciliation(r) PROVE Final
    BY <2>3 DEF ApplyReconciliation, IInv, TypeOK
  <2>4. ASSUME NEW r \in Requests, Step(r)
        PROVE  \/ UNCHANGED ledger
               \/ RecordSimulationEvidence(r) \/ RecordSubmittedExecution(r)
               \/ ApplyReconciliation(r)
    BY <2>4 DEF Step, Post, Quote, Simulate, Submit, Get, ReadStatus, RequestFails
  <2>5. ASSUME NEW uid \in Uid, RemoteMoves(uid) PROVE UNCHANGED ledger
    BY <2>5 DEF RemoteMoves
  <2> QED
    BY <2>1, <2>2, <2>3, <2>4, <2>5 DEF Next
<1> QED
  BY <1>1, Invariance, PTL DEF Spec, OutcomesAreFinal

-----------------------------------------------------------------------------
(* The refinement: each order lives the life of the module Authorization.  *)

\* What the rows of an order say, and what they never say: an authorization's
\* row is not that of a simulation.
SimulationOf(u) ==
    IF ledger[simulationKey(u)] = NoRow THEN "none" ELSE ledger[simulationKey(u)].evidence

RecordedOf(u) ==
    IF ledger[presignKey(u)] = NoRow THEN "none" ELSE ledger[presignKey(u)].state

OrdersSound == \A u \in Uid : ledger[presignKey(u)].state # "SIMULATED"

OrderStands(u) ==
    /\ SimulationOf(u)' = SimulationOf(u) /\ RecordedOf(u)' = RecordedOf(u)
    /\ Progress(remote[u])' = Progress(remote[u])

\* An execution that exists has made progress, and only one that ended is told so.
LEMMA ProgressFacts ==
    ASSUME IInv, NEW u \in Uid
    PROVE  /\ Progress(remote[u]) \in {"none", "running", "completed", "failed"}
           /\ Progress(remote[u]) = "none" <=> remote[u] = Unborn
           /\ Progress(remote[u]) = "completed"
                <=> remote[u] = [status |-> "completed", proof |-> TRUE]
           /\ Progress(remote[u]) = "failed" <=> remote[u].status = "failed"
<1>1. remote[u] \in Snapshot /\ (remote[u].proof => remote[u].status = "completed")
  BY DEF IInv, TypeOK, ProofsFollowCompletion
<1>2. PICK snapshot \in Snapshot : snapshot = remote[u]
  BY <1>1
<1>3. snapshot = Unborn <=> snapshot.status = "none"
  <2>1. Unborn.status = "none"
    BY DEF Unborn
  <2>2. ASSUME snapshot.status = "none" PROVE snapshot = Unborn
    <3>1. ~snapshot.proof /\ snapshot.proof \in BOOLEAN
      BY <1>1, <1>2, <2>2 DEF Snapshot
    <3>2. snapshot.proof = FALSE
      BY <3>1
    <3> QED
      BY <2>2, <3>2 DEF Snapshot, Unborn
  <2> QED
    BY <2>1, <2>2
<1>4. snapshot = [status |-> "completed", proof |-> TRUE]
        <=> snapshot.status = "completed" /\ snapshot.proof
  BY DEF Snapshot
<1>5. snapshot.status \in {"none", "pending", "running", "completed", "failed"}
  BY DEF Snapshot
<1>6. /\ Progress(snapshot) \in {"none", "running", "completed", "failed"}
      /\ Progress(snapshot) = "none" <=> snapshot.status = "none"
      /\ Progress(snapshot) = "completed"
           <=> snapshot.status = "completed" /\ snapshot.proof
      /\ Progress(snapshot) = "failed" <=> snapshot.status = "failed"
  BY <1>5 DEF Progress
<1> QED
  BY <1>2, <1>3, <1>4, <1>6

\* An order whose row is inserted: its simulation's, or its authorization's.
LEMMA InsertedOrder ==
    ASSUME IInv, NEW r \in Requests, NEW key \in Key, NEW row \in Row,
           Insert(r, key, row), NEW u \in Uid
    PROVE  \/ UNCHANGED <<ledger[simulationKey(u)], ledger[presignKey(u)]>>
           \/ /\ key = simulationKey(u) /\ ledger[key] = NoRow /\ ledger'[key] = row
              /\ ledger'[presignKey(u)] = ledger[presignKey(u)]
           \/ /\ key = presignKey(u) /\ ledger[key] = NoRow /\ ledger'[key] = row
              /\ ledger'[simulationKey(u)] = ledger[simulationKey(u)]
<1>1. /\ simulationKey(u) \in Key /\ presignKey(u) \in Key
      /\ simulationKey(u) # presignKey(u)
  BY KeysDiffer
<1>2. \/ ledger' = ledger
      \/ ledger[key] = NoRow /\ ledger' = [ledger EXCEPT ![key] = row]
  BY DEF Insert
<1> QED
  BY <1>1, <1>2 DEF IInv, TypeOK

LEMMA OrdersStaySound == ASSUME IInv, OrdersSound, [Next]_vars PROVE OrdersSound'
<1> USE DEF OrdersSound
<1>1. ASSUME NEW r \in Requests,
             RecordSimulationEvidence(r) \/ RecordSubmittedExecution(r)
      PROVE  OrdersSound'
  <2>1. PICK key, row : Insert(r, key, row) /\ (key.operation = "presign" => row.state = "SUBMITTED")
    BY <1>1 DEF RecordSimulationEvidence, RecordSubmittedExecution, simulationKey
  <2>2. \A u \in Uid : presignKey(u) \in Key /\ presignKey(u).operation = "presign"
    BY KeysDiffer
  <2>3. \A u \in Uid : \/ ledger'[presignKey(u)] = ledger[presignKey(u)]
                       \/ ledger'[presignKey(u)] = row /\ key = presignKey(u)
    BY <2>1, <2>2 DEF Insert, IInv, TypeOK
  <2> QED
    BY <2>1, <2>2, <2>3 DEF Insert
<1>2. ASSUME NEW r \in Requests, ApplyReconciliation(r) PROVE OrdersSound'
  <2>1. PICK outcome \in {"SUBMITTED", "CONFIRMED", "FAILED"} :
          /\ outcome = requests[r].outcome /\ requests[r].uid \in Uid
          /\ ledger[presignKey(requests[r].uid)] \in Row
    BY <1>2, KeysDiffer DEF ApplyReconciliation, At, IInv, TypeOK, Knows, KnowsPolling
  <2>2. PICK key \in Key : key = presignKey(requests[r].uid)
    BY <2>1, KeysDiffer
  <2>3. ledger' \in {ledger, [ledger EXCEPT ![key] = ReconciledRow(@, outcome)]}
    BY <1>2, <2>1, <2>2 DEF ApplyReconciliation
  <2>4. ReconciledRow(ledger[key], outcome).state # "SIMULATED"
    BY <2>1, <2>2 DEF ReconciledRow, Row
  <2>5. \A u \in Uid : presignKey(u) \in Key
    BY KeysDiffer
  <2>6. \A u \in Uid : ledger'[presignKey(u)].state # "SIMULATED"
    BY <2>3, <2>4, <2>5 DEF IInv, TypeOK
  <2> QED
    BY <1>2, <2>6 DEF ApplyReconciliation
<1>3. ASSUME NEW r \in Requests, Submit(r) PROVE OrdersSound'
  BY <1>3 DEF Submit
<1>4. ASSUME NEW uid \in Uid, RemoteMoves(uid) PROVE OrdersSound'
  BY <1>4 DEF RemoteMoves
<1>5. ASSUME NEW r \in Requests, Step(r)
      PROVE  \/ UNCHANGED <<ledger, remote>> \/ Submit(r) \/ ApplyReconciliation(r)
             \/ RecordSimulationEvidence(r) \/ RecordSubmittedExecution(r)
  BY <1>5 DEF Step, Post, Quote, Simulate, Get, ReadStatus, RequestFails
<1> QED
  BY <1>1, <1>2, <1>3, <1>4, <1>5 DEF Next, vars

LEMMA InitOrders == Init => OrdersSound /\ \A u \in Uid : Authorized(u)!Init
<1> SUFFICES ASSUME Init, NEW u \in Uid
             PROVE  /\ ledger[presignKey(u)].state # "SIMULATED"
                    /\ Authorized(u)!Init
  BY DEF OrdersSound
<1>1. ledger[presignKey(u)] = NoRow /\ ledger[simulationKey(u)] = NoRow
      /\ remote[u] = Unborn
  BY KeysDiffer DEF Init
<1>2. NoRow.state = "ABSENT" /\ ~Unborn.proof /\ Unborn.status = "none"
  BY DEF NoRow, Unborn
<1> QED
  BY <1>1, <1>2 DEF Authorized!Init, Progress

\* Every step of the routes, and of KeeperHub, is a step of the order it is about.
LEMMA OrderMoves ==
    ASSUME IInv, OrdersSound, OrdersSound', IInv', Next, NEW u \in Uid
    PROVE  Authorized(u)!Next \/ OrderStands(u)
<1> USE DEF SimulationOf, RecordedOf
<1>0. presignKey(u) \in Key /\ simulationKey(u) \in Key
  BY KeysDiffer
<1>1. ASSUME NEW r \in Requests, RecordSimulationEvidence(r)
      PROVE  Authorized(u)!Simulate \/ OrderStands(u)
  <2>1. PICK uid \in Uid, row \in Row : Insert(r, simulationKey(uid), row)
    <3>1. /\ requests[r].uid \in Uid /\ requests[r].evidence \in Evidence
          /\ requests[r].goal \in Goals
      BY <1>1 DEF RecordSimulationEvidence, At, IInv, Knows, KnowsPosting
    <3> DEFINE row == [goal |-> requests[r].goal, network |-> requests[r].uid.network,
                       evidence |-> requests[r].evidence, execution |-> Nothing,
                       state |-> "SIMULATED", proof |-> FALSE]
    <3>2. row \in Row /\ Insert(r, simulationKey(requests[r].uid), row)
      BY <1>1, <3>1 DEF RecordSimulationEvidence, Row, Uid, ExecutionState
    <3> QED
      BY <3>1, <3>2
  <2>2. row.evidence \in {"simulated", "rejected"}
    BY DEF Row, Evidence
  <2>3. remote' = remote /\ simulationKey(uid) \in Key /\ simulationKey(uid) # presignKey(u)
    BY <2>1, KeysDiffer DEF Insert
  <2>4. \/ UNCHANGED <<ledger[simulationKey(u)], ledger[presignKey(u)]>>
        \/ /\ ledger[simulationKey(u)] = NoRow /\ ledger'[simulationKey(u)] = row
           /\ ledger'[presignKey(u)] = ledger[presignKey(u)]
    BY <2>1, <2>3, InsertedOrder
  <2> QED
    BY <2>2, <2>3, <2>4, NoRowIsNoRow DEF OrderStands, Authorized!Simulate
<1>2. ASSUME NEW r \in Requests, RecordSubmittedExecution(r)
      PROVE  Authorized(u)!Record \/ OrderStands(u)
  <2>1. PICK uid \in Uid, row \in Row :
          /\ Insert(r, presignKey(uid), row) /\ row.state = "SUBMITTED"
          /\ remote[uid] # Unborn
    <3>1. /\ requests[r].uid \in Uid /\ requests[r].evidence \in Evidence
          /\ requests[r].goal \in Goals /\ remote[requests[r].uid] # Unborn
      BY <1>2 DEF RecordSubmittedExecution, At, IInv, Knows, KnowsPosting
    <3> DEFINE row == [goal |-> requests[r].goal, network |-> DefaultNetwork,
                       evidence |-> requests[r].evidence, execution |-> requests[r].uid,
                       state |-> "SUBMITTED", proof |-> FALSE]
    <3>2. /\ row \in Row /\ row.state = "SUBMITTED"
          /\ Insert(r, presignKey(requests[r].uid), row)
      BY <1>2, <3>1 DEF RecordSubmittedExecution, Row, ExecutionState, DefaultNetwork, Network
    <3> QED
      BY <3>1, <3>2
  <2>2. remote' = remote /\ presignKey(uid) \in Key /\ presignKey(uid) # simulationKey(u)
        /\ (presignKey(uid) = presignKey(u) => uid = u)
    BY <2>1, KeysDiffer DEF Insert
  <2>3. \/ UNCHANGED <<ledger[simulationKey(u)], ledger[presignKey(u)]>>
        \/ /\ uid = u /\ ledger[presignKey(u)] = NoRow /\ ledger'[presignKey(u)] = row
           /\ ledger'[simulationKey(u)] = ledger[simulationKey(u)]
    BY <2>1, <2>2, InsertedOrder
  <2>4. uid = u => Progress(remote[u]) # "none"
    BY <2>1, ProgressFacts
  <2> QED
    BY <2>1, <2>2, <2>3, <2>4, NoRowIsNoRow DEF OrderStands, Authorized!Record
<1>3. ASSUME NEW r \in Requests, Submit(r)
      PROVE  Authorized(u)!Submit \/ OrderStands(u)
  <2>1. UNCHANGED ledger /\ requests[r].uid \in Uid
    BY <1>3 DEF Submit, At, IInv, Knows, KnowsPosting
  <2>2. \/ remote'[u] = remote[u]
        \/ remote[u] = Unborn /\ remote'[u] = [status |-> "pending", proof |-> FALSE]
    <3>1. PICK uid \in Uid : uid = requests[r].uid
      BY <2>1
    <3>2. remote' = IF remote[uid] = Unborn
                    THEN [remote EXCEPT ![uid].status = "pending"] ELSE remote
      BY <1>3, <3>1 DEF Submit
    <3>3. CASE u = uid /\ remote[uid] = Unborn
      <4>1. remote'[u] = [Unborn EXCEPT !.status = "pending"]
        BY <3>2, <3>3 DEF IInv, TypeOK
      <4> QED
        BY <3>3, <4>1 DEF Unborn
    <3>4. CASE u # uid \/ remote[uid] # Unborn
      BY <3>2, <3>4 DEF IInv, TypeOK
    <3> QED
      BY <3>3, <3>4
  <2>3. Progress(Unborn) = "none" /\ Progress([status |-> "pending", proof |-> FALSE]) = "running"
    BY DEF Progress, Unborn
  <2> QED
    BY <2>1, <2>2, <2>3 DEF OrderStands, Authorized!Submit
<1>4. ASSUME NEW r \in Requests, ApplyReconciliation(r)
      PROVE  Authorized(u)!Settle \/ OrderStands(u)
  <2>1. PICK uid \in Uid, outcome \in {"SUBMITTED", "CONFIRMED", "FAILED"} :
          /\ uid = requests[r].uid /\ outcome = requests[r].outcome
          /\ outcome = "CONFIRMED" => remote[uid] = [status |-> "completed", proof |-> TRUE]
          /\ outcome = "FAILED" => remote[uid].status = "failed"
          /\ ledger[presignKey(uid)] \in Row
    BY <1>4, KeysDiffer DEF ApplyReconciliation, At, IInv, TypeOK, Knows, KnowsPolling
  <2>2. /\ remote' = remote /\ presignKey(uid) \in Key
        /\ presignKey(uid) # simulationKey(u)
        /\ presignKey(uid) = presignKey(u) => uid = u
    BY <1>4, KeysDiffer DEF ApplyReconciliation
  <2>3. \/ ledger' = ledger
        \/ /\ ledger[presignKey(uid)].state \in {"SIMULATED", "SUBMITTED"}
           /\ ledger' = [ledger EXCEPT ![presignKey(uid)] = ReconciledRow(@, outcome)]
    BY <1>4, <2>1 DEF ApplyReconciliation
  <2>4. CASE ledger' = ledger
    BY <2>2, <2>4 DEF OrderStands
  <2>5. CASE /\ ledger[presignKey(uid)].state \in {"SIMULATED", "SUBMITTED"}
             /\ ledger' = [ledger EXCEPT ![presignKey(uid)] = ReconciledRow(@, outcome)]
    <3>1. ledger'[simulationKey(u)] = ledger[simulationKey(u)]
      BY <1>0, <2>2, <2>5 DEF IInv, TypeOK
    <3>2. ledger[presignKey(uid)].state = "SUBMITTED"
      BY <2>5 DEF OrdersSound
    <3>3. CASE u # uid
      <4>1. ledger'[presignKey(u)] = ledger[presignKey(u)]
        BY <1>0, <2>2, <2>5, <3>3 DEF IInv, TypeOK
      <4> QED
        BY <2>2, <3>1, <4>1 DEF OrderStands
    <3>4. CASE u = uid
      <4>1. ReconciledRow(ledger[presignKey(u)], outcome) \in Row
            /\ ReconciledRow(ledger[presignKey(u)], outcome).state = outcome
        BY <2>1, <3>4 DEF ReconciledRow, Row, ExecutionState
      <4>2. /\ ledger'[presignKey(u)] # NoRow /\ ledger'[presignKey(u)].state = outcome
            /\ ledger[presignKey(u)] # NoRow /\ ledger[presignKey(u)].state = "SUBMITTED"
        BY <1>0, <2>1, <2>5, <3>2, <3>4, <4>1, NoRowIsNoRow DEF IInv, TypeOK
      <4>3. CASE outcome = "SUBMITTED"
        BY <2>2, <3>1, <4>2, <4>3 DEF OrderStands
      <4>4. CASE outcome = "CONFIRMED"
        <5>1. Progress(remote[u]) = "completed"
          BY <2>1, <3>4, <4>4, ProgressFacts
        <5> QED
          BY <2>2, <3>1, <4>2, <4>4, <5>1 DEF Authorized!Settle, Authorized!Outcome
      <4>5. CASE outcome = "FAILED"
        <5>1. Progress(remote[u]) = "failed"
          BY <2>1, <3>4, <4>5, ProgressFacts
        <5> QED
          BY <2>2, <3>1, <4>2, <4>5, <5>1 DEF Authorized!Settle, Authorized!Outcome
      <4> QED
        BY <4>3, <4>4, <4>5
    <3> QED
      BY <3>3, <3>4
  <2> QED
    BY <2>3, <2>4, <2>5
<1>5. ASSUME NEW uid \in Uid, RemoteMoves(uid)
      PROVE  Authorized(u)!End \/ OrderStands(u)
  <2>1. UNCHANGED ledger
    BY <1>5 DEF RemoteMoves
  <2>2. \/ remote'[u] = remote[u]
        \/ /\ remote[u].status \in {"pending", "running", "completed"}
           /\ remote[u].status = "completed" => ~remote[u].proof
           /\ remote'[u].status \in {"running", "completed", "failed"}
    BY <1>5 DEF RemoteMoves, IInv, TypeOK, Snapshot
  <2>3. CASE remote'[u] = remote[u]
    BY <2>1, <2>3 DEF OrderStands
  <2>4. CASE /\ remote[u].status \in {"pending", "running", "completed"}
             /\ remote[u].status = "completed" => ~remote[u].proof
             /\ remote'[u].status \in {"running", "completed", "failed"}
    <3>1. Progress(remote[u]) = "running"
      BY <2>4 DEF Progress
    <3>2. Progress(remote'[u]) \in {"running", "completed", "failed"}
      BY <2>4 DEF Progress
    <3> QED
      BY <2>1, <3>1, <3>2 DEF OrderStands, Authorized!End
  <2> QED
    BY <2>2, <2>3, <2>4
<1>6. ASSUME NEW r \in Requests, Step(r)
      PROVE  \/ UNCHANGED <<ledger, remote>> \/ Submit(r) \/ ApplyReconciliation(r)
             \/ RecordSimulationEvidence(r) \/ RecordSubmittedExecution(r)
  BY <1>6 DEF Step, Post, Quote, Simulate, Get, ReadStatus, RequestFails
<1>7. ASSUME UNCHANGED <<ledger, remote>> PROVE OrderStands(u)
  BY <1>7 DEF OrderStands
<1> QED
  BY <1>1, <1>2, <1>3, <1>4, <1>5, <1>6, <1>7 DEF Next, Authorized!Next

\* The routes implement the life of an authorization, for every order: whatever
\* requests race, repeat or die, for any goals, networks and quotes.
THEOREM RoutesAreAuthorizations == Spec => OrdersAreAuthorizations
<1>1. IInv /\ OrdersSound /\ [Next]_vars => OrdersSound'
  BY OrdersStaySound
<1>2. IInv /\ IInv' /\ OrdersSound /\ OrdersSound' /\ [Next]_vars
        => [\A u \in Uid : [Authorized(u)!Next]_(Authorized(u)!state)]_vars
  <2> SUFFICES ASSUME IInv, IInv', OrdersSound, OrdersSound', Next, NEW u \in Uid
               PROVE  Authorized(u)!Next \/ UNCHANGED Authorized(u)!state
    OBVIOUS
  <2>1. OrderStands(u) => UNCHANGED Authorized(u)!state
    BY DEF OrderStands, SimulationOf, RecordedOf, Authorized!state
  <2> QED
    BY <2>1, OrderMoves
<1> QED
  BY <1>1, <1>2, InitOrders, Invariance, PTL DEF Spec, OrdersAreAuthorizations
=============================================================================
