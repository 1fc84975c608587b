------------------------------ MODULE GoalPage ------------------------------
(***************************************************************************)
(* The page of one goal, with its three panels, and the evidence they show:*)
(*   src/components/goal-timeline/goal-timeline.tsx                        *)
(*   src/components/goal-preflight/goal-preflight.tsx                      *)
(*   src/components/authorization-review/authorization-review.tsx          *)
(*   src/app/api/goals/history/route.ts, listGoalHistoryForWallet          *)
(* Each panel keeps what it last loaded.  Loads and receipt refreshes are  *)
(* fetches that nothing orders or cancels: they are answered in any order, *)
(* with what the ledger was when each was served, and may fail.            *)
(*                                                                         *)
(* The routes that write the ledger are the module Executions'; here each  *)
(* is the one step that its effect on this goal's rows is, whoever asked   *)
(* for it.  External: the operator who submits, and KeeperHub.             *)
(*                                                                         *)
(* `heard` and `disturbed` are auxiliary.                                  *)
(***************************************************************************)
EXTENDS Integers, Sequences

CONSTANTS
    Uids, None,
    Panels,         \* the panels that load the history
    Slots,          \* bounds the loads a panel has under way
    RefreshSlots    \* bounds the refreshes the timeline has under way

ASSUME GoalPageAssumption ==
    /\ None \notin Uids
    /\ "timeline" \in Panels /\ Panels \subseteq {"timeline", "review"}
    /\ Slots # {}

VARIABLES
    listed,     \* the goal is in the history of the connected wallet
    ledger,     \* this goal's rows of keeperhub_executions, oldest first
    taken,      \* the keys under which other goals' rows of that table stand
    remote,     \* external: KeeperHub's execution of each order
    panels,     \* the `goal` state of the two panels that load the history
    loads,      \* their fetches
    preflight,  \* the state of the third panel
    simulation, \* the simulation that panel waits for
    receipt,    \* the timeline's receiptStatus
    refreshes,  \* its fetches
    heard,      \* aux: the rows there were when this page learned of its simulation
    disturbed   \* aux: panels that a load has failed, or an older answer come after a newer

vars == <<listed, ledger, taken, remote, panels, loads, preflight, simulation,
          receipt, refreshes, heard, disturbed>>

ExecutionState == {"SIMULATED", "SUBMITTED", "CONFIRMED", "FAILED"}

Operation == {"presign-simulation", "presign"}

Row == [operation : Operation, uid : Uids,
        evidence : {"simulated", "rejected"}, state : ExecutionState]

NoRow == [absent |-> "row"]

\* reconcileKeeperHubExecution (the module Executions has the whole of it).
Reconciled == [none |-> "none", running |-> "SUBMITTED", completed |-> "CONFIRMED",
               failed |-> "FAILED"]

\* What a panel says: that it is reading, an error, or a goal with its latest row.
View == [says : {"reading", "error", "goal"}, rows : Nat, latest : Row \cup {NoRow}]

Unread == [says |-> "reading", rows |-> 0, latest |-> NoRow]

Load == [stage : {"idle", "sent", "served"}, view : View]

NoLoad == [stage |-> "idle", view |-> Unread]

Outcome == {"none", "SUBMITTED", "CONFIRMED", "FAILED"}

Refresh == [stage : {"idle", "sent", "reconciled", "served"},
            uid : Uids \cup {None}, outcome : Outcome, overlaps : BOOLEAN]

NoRefresh == [stage |-> "idle", uid |-> None, outcome |-> "none", overlaps |-> FALSE]

Receipt == [says : {"none", "reading", "read", "unreadable"},
            uid : Uids \cup {None}, outcome : Outcome]

NoReceipt == [says |-> "none", uid |-> None, outcome |-> "none"]

Preflight == [activeStep : {"none", "quote", "simulation"}, quoteEligible : BOOLEAN]

Ready == [activeStep |-> "none", quoteEligible |-> FALSE]

Simulation == {"none", "sent", "simulated", "rejected"}

\* A page that has just mounted: both panels load.
FreshLoads ==
    {[panel \in Panels |-> [s \in Slots |->
        IF s = slot THEN [NoLoad EXCEPT !.stage = "sent"] ELSE NoLoad]] : slot \in Slots}

Init ==
    /\ listed \in BOOLEAN
    /\ ledger = <<>> /\ taken = {}
    /\ remote = [u \in Uids |-> "none"]
    /\ panels = [panel \in Panels |-> Unread]
    /\ loads \in FreshLoads
    /\ preflight = Ready
    /\ simulation = "none"
    /\ receipt = NoReceipt
    /\ refreshes = [s \in RefreshSlots |-> NoRefresh]
    /\ heard = 0
    /\ disturbed = {}

Loading(panel) == \E s \in Slots : loads[panel][s].stage # "idle"

-----------------------------------------------------------------------------
(* The ledger, as the routes and KeeperHub change it.                      *)

Recorded(operation, uid) ==
    \E n \in DOMAIN ledger : ledger[n].operation = operation /\ ledger[n].uid = uid

\* INSERT ... ON CONFLICT (idempotency_key) DO NOTHING: the key is the order's, so
\* the row that is there already may be another goal's.
Insert(row) ==
    ledger' = IF Recorded(row.operation, row.uid) \/ <<row.operation, row.uid>> \in taken
              THEN ledger ELSE Append(ledger, row)

Started(uid) == [remote EXCEPT ![uid] = IF @ = "none" THEN "running" ELSE @]

SimulationRow(uid, evidence) ==
    [operation |-> "presign-simulation", uid |-> uid, evidence |-> evidence,
     state |-> "SIMULATED"]

\* Another tab, or an earlier load of this page, simulates.
OtherSimulation(uid, evidence) ==
    /\ listed
    /\ Insert(SimulationRow(uid, evidence))
    /\ UNCHANGED <<listed, taken, remote, panels, loads, preflight, simulation, receipt,
                   refreshes, heard, disturbed>>

\* The operator calls presign-execution.
SubmitPresign(uid) ==
    /\ listed
    /\ Insert([operation |-> "presign", uid |-> uid, evidence |-> "simulated",
               state |-> "SUBMITTED"])
    /\ remote' = Started(uid)
    /\ UNCHANGED <<listed, taken, panels, loads, preflight, simulation, receipt,
                   refreshes, heard, disturbed>>

\* A goal whose quote makes the same order simulates or submits it.
OtherGoal(operation, uid) ==
    /\ ~Recorded(operation, uid)
    /\ taken' = taken \cup {<<operation, uid>>}
    /\ remote' = IF operation = "presign" THEN Started(uid) ELSE remote
    /\ UNCHANGED <<listed, ledger, panels, loads, preflight, simulation, receipt,
                   refreshes, heard, disturbed>>

RemoteEnds(uid, outcome) ==
    /\ remote[uid] = "running"
    /\ remote' = [remote EXCEPT ![uid] = outcome]
    /\ UNCHANGED <<listed, ledger, taken, panels, loads, preflight, simulation, receipt,
                   refreshes, heard, disturbed>>

-----------------------------------------------------------------------------
(* Timeline and review: load().                                            *)

\* A mistake: only the review listens.
SentMutReview(targets, slot) ==
    [panel \in Panels |-> IF panel = "review"
        THEN [loads[panel] EXCEPT ![slot[panel]] = [NoLoad EXCEPT !.stage = "sent"]]
        ELSE loads[panel]]

\* The fetches after one more is sent for each of these panels.
Sent(targets, slot) ==
    [panel \in Panels |-> IF panel \in targets
        THEN [loads[panel] EXCEPT ![slot[panel]] = [NoLoad EXCEPT !.stage = "sent"]]
        ELSE loads[panel]]

\* The first of a goal's rows, the newest first.
LatestExecution(rows) == IF rows = <<>> THEN NoRow ELSE rows[Len(rows)]

\* GET history; a goal that is not in the answer is left undefined.
ServeLoad(panel, s) ==
    /\ loads[panel][s].stage = "sent"
    /\ loads' = [loads EXCEPT ![panel][s] =
         [stage |-> "served",
          view |-> IF listed
                   THEN [says |-> "goal", rows |-> Len(ledger),
                         latest |-> LatestExecution(ledger)]
                   ELSE Unread]]
    /\ UNCHANGED <<listed, ledger, taken, remote, panels, preflight, simulation, receipt,
                   refreshes, heard, disturbed>>

DeliverLoad(panel, s) ==
    /\ loads[panel][s].stage = "served"
    /\ panels' = [panels EXCEPT ![panel] = loads[panel][s].view]
    /\ loads' = [loads EXCEPT ![panel][s] = NoLoad]
    /\ disturbed' = IF loads[panel][s].view.rows < panels[panel].rows
                    THEN disturbed \cup {panel} ELSE disturbed
    /\ UNCHANGED <<listed, ledger, taken, remote, preflight, simulation, receipt,
                   refreshes, heard>>

\* The timeline says so; the review keeps what it shows.
FailLoad(panel, s) ==
    /\ loads[panel][s].stage # "idle"
    /\ panels' = IF panel = "timeline" THEN [panels EXCEPT ![panel].says = "error"] ELSE panels
    /\ loads' = [loads EXCEPT ![panel][s] = NoLoad]
    /\ disturbed' = disturbed \cup {panel}
    /\ UNCHANGED <<listed, ledger, taken, remote, preflight, simulation, receipt,
                   refreshes, heard>>

-----------------------------------------------------------------------------
(* Preflight: a quote, then a simulation of the order it makes.            *)

RequestQuote ==
    /\ preflight.activeStep = "none"
    /\ preflight' = [activeStep |-> "quote", quoteEligible |-> FALSE]
    /\ UNCHANGED <<listed, ledger, taken, remote, panels, loads, simulation, receipt,
                   refreshes, heard, disturbed>>

QuoteAnswered ==
    /\ preflight.activeStep = "quote"
    /\ \E ok \in BOOLEAN :
          preflight' = [activeStep |-> "none", quoteEligible |-> ok /\ listed]
    /\ UNCHANGED <<listed, ledger, taken, remote, panels, loads, simulation, receipt,
                   refreshes, heard, disturbed>>

simulatePresignature ==
    /\ preflight.activeStep = "none" /\ preflight.quoteEligible
    /\ preflight' = [preflight EXCEPT !.activeStep = "simulation"]
    /\ simulation' = "sent"
    /\ UNCHANGED <<listed, ledger, taken, remote, panels, loads, receipt, refreshes,
                   heard, disturbed>>

\* The route simulates the order of a new quote, and records what came of it.
Simulate(uid, evidence) ==
    /\ simulation = "sent"
    /\ Insert(SimulationRow(uid, evidence))
    /\ simulation' = evidence
    /\ UNCHANGED <<listed, taken, remote, panels, loads, preflight, receipt, refreshes,
                   heard, disturbed>>

StepEnds ==
    /\ preflight' = [preflight EXCEPT !.activeStep = "none"]
    /\ simulation' = "none"

\* "fillpilot:evidence-updated": both panels load again, and no earlier load is
\* cancelled.
SimulationAnswered ==
    /\ simulation \in {"simulated", "rejected"}
    /\ StepEnds
    /\ IF simulation = "simulated"
       THEN /\ heard' = Len(ledger)
            /\ \E slot \in [Panels -> Slots] :
                  /\ \A panel \in Panels : loads[panel][slot[panel]].stage = "idle"
                  /\ loads' = Sent(Panels, slot)
       ELSE UNCHANGED <<loads, heard>>
    /\ UNCHANGED <<listed, ledger, taken, remote, panels, receipt, refreshes, disturbed>>

\* An error answer, or none, whatever the route has done.
SimulationLost ==
    /\ preflight.activeStep = "simulation"
    /\ StepEnds
    /\ UNCHANGED <<listed, ledger, taken, remote, panels, loads, receipt, refreshes,
                   heard, disturbed>>

-----------------------------------------------------------------------------
(* The timeline's refreshReceipt, and the status route that serves it.     *)

Shown == panels["timeline"].latest

\* The button is there while the latest row has an execution, also during a refresh.
RefreshReceipt(s) ==
    /\ refreshes[s].stage = "idle"
    /\ panels["timeline"].says = "goal"
    /\ Shown # NoRow /\ Shown.operation = "presign"
    /\ receipt' = [receipt EXCEPT !.says = "reading"]
    /\ LET others == {t \in RefreshSlots : refreshes[t].stage # "idle"}
       IN  refreshes' = [t \in RefreshSlots |->
             IF t = s THEN [stage |-> "sent", uid |-> Shown.uid, outcome |-> "none",
                            overlaps |-> others # {}]
             ELSE [refreshes[t] EXCEPT !.overlaps = @ \/ t \in others]]
    /\ UNCHANGED <<listed, ledger, taken, remote, panels, loads, preflight, simulation,
                   heard, disturbed>>

\* A mistake: a running execution may be reported although it has ended (a cached read).
ReadStatusMutCached(s) ==
    /\ refreshes[s].stage = "sent"
    /\ \E status \in {"running", remote[refreshes[s].uid]} :
          refreshes' = [refreshes EXCEPT ![s].stage = "reconciled",
                                         ![s].outcome = Reconciled[status]]
    /\ UNCHANGED <<listed, ledger, taken, remote, panels, loads, preflight, simulation,
                   receipt, heard, disturbed>>

ReadStatus(s) ==
    /\ refreshes[s].stage = "sent"
    /\ refreshes' = [refreshes EXCEPT ![s].stage = "reconciled",
                                      ![s].outcome = Reconciled[remote[refreshes[s].uid]]]
    /\ UNCHANGED <<listed, ledger, taken, remote, panels, loads, preflight, simulation,
                   receipt, heard, disturbed>>

\* A mistake: answering without waiting for the update.
ApplyMutUnawaited(s) ==
    /\ refreshes[s].stage = "reconciled"
    /\ refreshes' = [refreshes EXCEPT ![s].stage = "served"]
    /\ UNCHANGED <<listed, ledger, taken, remote, panels, loads, preflight, simulation,
                   receipt, heard, disturbed>>

\* A mistake: writing an outcome over one that is final.
ApplyMutAnyState(s) ==
    /\ refreshes[s].stage = "reconciled"
    /\ refreshes' = [refreshes EXCEPT ![s].stage = "served"]
    /\ ledger' = [n \in DOMAIN ledger |->
         IF ledger[n].operation = "presign" /\ ledger[n].uid = refreshes[s].uid
         THEN [ledger[n] EXCEPT !.state = refreshes[s].outcome] ELSE ledger[n]]
    /\ UNCHANGED <<listed, taken, remote, panels, loads, preflight, simulation, receipt,
                   heard, disturbed>>

\* applyExecutionReconciliation, then the answer: the outcome just read.
ApplyReconciliation(s) ==
    /\ refreshes[s].stage = "reconciled"
    /\ refreshes' = [refreshes EXCEPT ![s].stage = "served"]
    /\ ledger' = [n \in DOMAIN ledger |->
         IF /\ ledger[n].operation = "presign" /\ ledger[n].uid = refreshes[s].uid
            /\ ledger[n].state = "SUBMITTED"
         THEN [ledger[n] EXCEPT !.state = refreshes[s].outcome] ELSE ledger[n]]
    /\ UNCHANGED <<listed, taken, remote, panels, loads, preflight, simulation, receipt,
                   heard, disturbed>>

DeliverReceipt(s) ==
    /\ refreshes[s].stage = "served"
    /\ receipt' = [says |-> "read", uid |-> refreshes[s].uid, outcome |-> refreshes[s].outcome]
    /\ refreshes' = [refreshes EXCEPT ![s] = NoRefresh]
    /\ UNCHANGED <<listed, ledger, taken, remote, panels, loads, preflight, simulation,
                   heard, disturbed>>

\* A mistake: an error answer is ignored.
FailReceiptMutSilent(s) ==
    /\ refreshes[s].stage # "idle"
    /\ refreshes' = [refreshes EXCEPT ![s] = NoRefresh]
    /\ UNCHANGED <<listed, ledger, taken, remote, panels, loads, preflight, simulation,
                   receipt, heard, disturbed>>

\* The connection, KeeperHub, the database or the network fails; or KeeperHub
\* reports a completed execution without its transaction.
FailReceipt(s) ==
    /\ refreshes[s].stage # "idle"
    /\ receipt' = [receipt EXCEPT !.says = "unreadable"]
    /\ refreshes' = [refreshes EXCEPT ![s] = NoRefresh]
    /\ UNCHANGED <<listed, ledger, taken, remote, panels, loads, preflight, simulation,
                   heard, disturbed>>

-----------------------------------------------------------------------------
Reload ==
    /\ panels' = [panel \in Panels |-> Unread]
    /\ loads' \in FreshLoads
    /\ preflight' = Ready
    /\ simulation' = "none"
    /\ receipt' = NoReceipt
    /\ refreshes' = [s \in RefreshSlots |-> NoRefresh]
    /\ heard' = 0
    /\ disturbed' = {}
    /\ UNCHANGED <<listed, ledger, taken, remote>>

\* The fetches under way and the routes that serve them.
LoadStep(panel) ==
    \E s \in Slots : ServeLoad(panel, s) \/ DeliverLoad(panel, s) \/ FailLoad(panel, s)

PreflightStep ==
    \/ QuoteAnswered \/ SimulationAnswered \/ SimulationLost
    \/ \E u \in Uids, evidence \in {"simulated", "rejected"} : Simulate(u, evidence)

ReceiptStep ==
    \E s \in RefreshSlots : \/ ReadStatus(s) \/ ApplyReconciliation(s)
                            \/ DeliverReceipt(s) \/ FailReceipt(s)

Next ==
    \/ \E panel \in Panels : LoadStep(panel)
    \/ PreflightStep \/ ReceiptStep
    \/ RequestQuote \/ simulatePresignature
    \/ \E s \in RefreshSlots : RefreshReceipt(s)
    \/ Reload
    \/ \E u \in Uids :
         \/ SubmitPresign(u)
         \/ \E evidence \in {"simulated", "rejected"} : OtherSimulation(u, evidence)
         \/ \E operation \in Operation : OtherGoal(operation, u)
         \/ \E outcome \in {"completed", "failed"} : RemoteEnds(u, outcome)

Spec == Init /\ [][Next]_vars

-----------------------------------------------------------------------------
(* Properties.                                                             *)

TypeOK ==
    /\ listed \in BOOLEAN
    /\ ledger \in Seq(Row)
    /\ taken \subseteq Operation \X Uids
    /\ remote \in [Uids -> {"none", "running", "completed", "failed"}]
    /\ panels \in [Panels -> View]
    /\ loads \in [Panels -> [Slots -> Load]]
    /\ preflight \in Preflight
    /\ simulation \in Simulation
    /\ receipt \in Receipt
    /\ refreshes \in [RefreshSlots -> Refresh]
    /\ heard \in Nat
    /\ disturbed \subseteq Panels

\* "CONFIRMED: verified transaction": a page says it only of an execution that
\* KeeperHub completed and whose row in the ledger says so too.
VerifiedIsRecorded ==
    (receipt.says = "read" /\ receipt.outcome = "CONFIRMED") =>
        /\ remote[receipt.uid] = "completed"
        /\ \E n \in DOMAIN ledger :
              /\ ledger[n].operation = "presign" /\ ledger[n].uid = receipt.uid
              /\ ledger[n].state = "CONFIRMED"

\* The row of an operation on an order.
RowOf(operation, u) ==
    ledger[CHOOSE n \in DOMAIN ledger : ledger[n].operation = operation /\ ledger[n].uid = u]

Authorized(u) == INSTANCE Authorization WITH
    simulation <- IF Recorded("presign-simulation", u)
                  THEN RowOf("presign-simulation", u).evidence ELSE "none",
    recorded <- IF Recorded("presign", u) THEN RowOf("presign", u).state ELSE "none",
    execution <- remote[u]

\* The ledger this page looks at is the one the routes keep (Executions): each
\* order lives the life of the module Authorization, also when refreshes overlap.
OrdersAreAuthorizations ==
    /\ \A u \in Uids : Authorized(u)!Init
    /\ [][ \A u \in Uids : [Authorized(u)!Next]_(Authorized(u)!state) ]_vars

\* src/components/goal-timeline/goal-timeline.tsx:58: what the page has learned of
\* its own simulation reaches both other panels.  However loads overlap, with none
\* under way a panel shows at least the rows there were then, and the newest of
\* those it has, unless a load failed or an older answer came after a newer one.
EvidenceReachesPanels ==
    \A panel \in Panels \ disturbed :
        (listed /\ ~Loading(panel)) =>
            /\ panels[panel].says = "goal"
            /\ panels[panel].rows >= heard
            /\ panels[panel].rows > 0 =>
                 panels[panel].latest.uid = ledger[panels[panel].rows].uid
                 /\ panels[panel].latest.operation = ledger[panels[panel].rows].operation

\* src/components/goal-timeline/goal-timeline.tsx:75: receipts of an execution
\* are read out in order, and an outcome that is final is taken back by no
\* later refresh, unless the button was pressed again while one was under way.
ReceiptGoesBackOnlyByOverlap ==
    [][ (/\ receipt.outcome \in {"CONFIRMED", "FAILED"}
         /\ receipt'.says = "read" /\ receipt'.uid = receipt.uid
         /\ receipt'.outcome # receipt.outcome)
          => \E s \in RefreshSlots : refreshes[s].overlaps /\ refreshes'[s] = NoRefresh ]_vars

\* The refresh line says "Reading KeeperHub receipt" only while a refresh is under
\* way, and the preflight's buttons are disabled for a simulation only while one
\* is: neither waits for an answer that has come or cannot come.
WaitsAreAnswered ==
    /\ receipt.says = "reading" => \E s \in RefreshSlots : refreshes[s].stage # "idle"
    /\ preflight.activeStep = "simulation" <=> simulation # "none"

\* src/components/goal-timeline/goal-timeline.tsx:72, "Reading execution
\* evidence": the timeline says so while a load is under way.  The code does
\* not ensure it (see the README).
ReadingMeansLoading ==
    panels["timeline"].says = "reading" => Loading("timeline")

\* src/components/goal-timeline/goal-timeline.tsx:162, "Guarded - not created.":
\* the timeline does not say that of the authorization it has just reported as
\* a verified transaction.  The code does not ensure it (see the README).
GuardedMeansUnauthorized ==
    (panels["timeline"].says = "goal" /\ Shown # NoRow /\ Shown.state # "CONFIRMED")
        => ~(receipt.says = "read" /\ receipt.outcome = "CONFIRMED" /\ receipt.uid = Shown.uid)

\* src/components/authorization-review/authorization-review.tsx:61, "One exact
\* authorization, held.": the order under review has not been authorized.  The
\* code does not ensure it (see the README).
HeldMeansUnsubmitted ==
    (/\ panels["review"].says = "goal" /\ panels["review"].latest # NoRow
     /\ panels["review"].latest.evidence = "simulated")
        => panels["review"].latest.operation # "presign"
=============================================================================
