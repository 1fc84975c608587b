--------------------------- MODULE GoalPageProofs ---------------------------
(***************************************************************************)
(* Proofs about the page of a goal, for any orders, panels, loads and      *)
(* refreshes.  The strengthening says what every row, every view that is   *)
(* shown or on its way, and every refresh knows.  Last, the ledger the     *)
(* page sees is shown to implement Authorization for each order.           *)
(***************************************************************************)
EXTENDS GoalPage, TLAPS

Final == {"CONFIRMED", "FAILED"}

\* An authorization has a row once KeeperHub has its execution, and says of it
\* that it was submitted or what has become of it.
LedgerTrue ==
    \A n \in DOMAIN ledger : ledger[n].operation = "presign" =>
        /\ remote[ledger[n].uid] # "none"
        /\ ledger[n].state \in {"SUBMITTED", Reconciled[remote[ledger[n].uid]]}

\* A view shows the newest of the rows there were when its load was served.
ViewTrue(v) ==
    /\ v.rows <= Len(ledger)
    /\ v.rows = 0 => v.latest = NoRow
    /\ v.rows # 0 => /\ v.latest # NoRow
                     /\ v.latest.uid = ledger[v.rows].uid
                     /\ v.latest.operation = ledger[v.rows].operation

ViewsTrue ==
    \A panel \in Panels :
        ViewTrue(panels[panel]) /\ \A s \in Slots : ViewTrue(loads[panel][s].view)

PresignRow(u) ==
    \E n \in DOMAIN ledger : ledger[n].operation = "presign" /\ ledger[n].uid = u

EndedRow(u, outcome) ==
    \E n \in DOMAIN ledger : /\ ledger[n].operation = "presign" /\ ledger[n].uid = u
                             /\ ledger[n].state = outcome

\* A refresh asks for an execution the ledger has; the final outcome it brings is
\* KeeperHub's, and recorded when it is answered; and unless it overlaps another,
\* it brings nothing older than what is shown.
RefreshTrue(r) ==
    r.stage # "idle" =>
        /\ r.uid \in Uids /\ PresignRow(r.uid)
        /\ r.stage \in {"reconciled", "served"} =>
             /\ r.outcome # "none"
             /\ r.outcome \in Final => Reconciled[remote[r.uid]] = r.outcome
             /\ ~r.overlaps /\ receipt.outcome \in Final /\ receipt.uid = r.uid
                  => r.outcome = receipt.outcome
        /\ r.stage = "served" /\ r.outcome \in Final => EndedRow(r.uid, r.outcome)

RefreshesTrue == \A s \in RefreshSlots : RefreshTrue(refreshes[s])

OverlapsKnown ==
    \A s, t \in RefreshSlots :
        s # t /\ refreshes[s].stage # "idle" /\ refreshes[t].stage # "idle"
            => refreshes[s].overlaps /\ refreshes[t].overlaps

ReceiptTrue ==
    receipt.outcome \in Final =>
        /\ receipt.uid \in Uids
        /\ Reconciled[remote[receipt.uid]] = receipt.outcome
        /\ EndedRow(receipt.uid, receipt.outcome)

Reaches(v) == v.says = "goal" /\ v.rows >= heard

Reached(panel) ==
    \/ Reaches(panels[panel])
    \/ \E s \in Slots :
          \/ loads[panel][s].stage = "sent"
          \/ loads[panel][s].stage = "served" /\ Reaches(loads[panel][s].view)

ServedGoal(load) == load.stage = "served" => load.view.says = "goal"

\* What a panel that nothing disturbed shows, or one of its loads will bring, was
\* served after the page heard of its simulation.
PanelsReached ==
    listed => /\ \A panel \in Panels, s \in Slots : ServedGoal(loads[panel][s])
              /\ \A panel \in Panels \ disturbed : Reached(panel)

HeardRows == heard <= Len(ledger)

Inv ==
    /\ TypeOK /\ LedgerTrue /\ ViewsTrue /\ RefreshesTrue /\ OverlapsKnown
    /\ ReceiptTrue /\ PanelsReached /\ HeardRows /\ WaitsAreAnswered

-----------------------------------------------------------------------------
(* Constants of the model, and the ledger.                                 *)

\* What a status of KeeperHub's becomes.
LEMMA ReconciledFacts ==
    /\ Reconciled["none"] = "none" /\ Reconciled["running"] = "SUBMITTED"
    /\ Reconciled["completed"] = "CONFIRMED" /\ Reconciled["failed"] = "FAILED"
BY DEF Reconciled

LEMMA RecordFacts ==
    /\ NoRow \notin Row /\ Unread \in View /\ NoLoad \in Load
    /\ NoLoad.stage = "idle" /\ NoLoad.view = Unread
    /\ Unread.rows = 0 /\ Unread.latest = NoRow
    /\ NoRefresh \in Refresh /\ NoRefresh.stage = "idle"
    /\ NoReceipt \in Receipt /\ NoReceipt.outcome = "none" /\ NoReceipt.says = "none"
    /\ Ready \in Preflight /\ Ready.activeStep = "none"
BY DEF NoRow, Row, Unread, View, NoLoad, Load, NoRefresh, Refresh, NoReceipt,
       Receipt, Outcome, Ready, Preflight

\* The ledger grows, and only a submitted row changes, and that in its state.
LedgerGrows ==
    /\ Len(ledger) <= Len(ledger')
    /\ \A n \in DOMAIN ledger :
          /\ n \in DOMAIN ledger'
          /\ ledger'[n].uid = ledger[n].uid /\ ledger'[n].operation = ledger[n].operation
          /\ ledger'[n].state = ledger[n].state \/ ledger[n].state = "SUBMITTED"

RemoteAdvances ==
    \A u \in Uids : remote[u] \in {"completed", "failed"} => remote'[u] = remote[u]

\* What was so of the ledger and of KeeperHub's executions stays so.
LEMMA WorldKeeps ==
    ASSUME TypeOK, TypeOK', LedgerGrows, RemoteAdvances
    PROVE  /\ \A v \in View : ViewTrue(v) => ViewTrue(v)'
           /\ \A u \in Uids : PresignRow(u) => PresignRow(u)'
           /\ \A u \in Uids, o \in Final : EndedRow(u, o) => EndedRow(u, o)'
           /\ \A u \in Uids, o \in Final :
                Reconciled[remote[u]] = o => Reconciled[remote'[u]] = o
<1>1. ASSUME NEW v \in View, ViewTrue(v) PROVE ViewTrue(v)'
  <2>1. v.rows \in Nat /\ Len(ledger) \in Nat /\ Len(ledger') \in Nat
        /\ DOMAIN ledger = 1..Len(ledger)
      BY DEF View, TypeOK
  <2> QED
      BY <1>1, <2>1 DEF ViewTrue, LedgerGrows
<1>2. ASSUME NEW u \in Uids, PresignRow(u) PROVE PresignRow(u)'
    BY <1>2 DEF PresignRow, LedgerGrows
<1>3. ASSUME NEW u \in Uids, NEW o \in Final, EndedRow(u, o) PROVE EndedRow(u, o)'
    BY <1>3 DEF EndedRow, LedgerGrows, Final
<1>4. ASSUME NEW u \in Uids, NEW o \in Final, Reconciled[remote[u]] = o
      PROVE  Reconciled[remote'[u]] = o
  <2>1. remote[u] \in {"none", "running", "completed", "failed"}
      BY DEF TypeOK
  <2>2. remote[u] \in {"completed", "failed"}
      BY <1>4, <2>1, ReconciledFacts DEF Final
  <2> QED
      BY <1>4, <2>2 DEF RemoteAdvances
<1> QED
    BY <1>1, <1>2, <1>3, <1>4

\* A row is inserted unless there is one of its key.
LEMMA InsertGrows ==
    ASSUME TypeOK, NEW row \in Row, Insert(row)
    PROVE  /\ ledger' \in Seq(Row) /\ LedgerGrows
           /\ \A n \in DOMAIN ledger' :
                (n \in DOMAIN ledger /\ ledger'[n] = ledger[n]) \/ ledger'[n] = row
<1>1. CASE ledger' = ledger
    BY <1>1 DEF TypeOK, LedgerGrows
<1>2. CASE ledger' # ledger
  <2>1. ledger \in Seq(Row) /\ ledger' = Append(ledger, row)
      BY <1>2 DEF Insert, TypeOK
  <2>2. /\ ledger' \in Seq(Row) /\ Len(ledger') = Len(ledger) + 1 /\ Len(ledger) \in Nat
        /\ DOMAIN ledger = 1..Len(ledger) /\ DOMAIN ledger' = 1..(Len(ledger) + 1)
        /\ \A n \in 1..Len(ledger) : ledger'[n] = ledger[n]
        /\ ledger'[Len(ledger) + 1] = row
      BY <2>1
  <2> QED
      BY <2>2 DEF LedgerGrows
<1> QED
    BY <1>1, <1>2

\* The page does not move while the ledger and KeeperHub do.
LEMMA PageStands ==
    ASSUME Inv, TypeOK', LedgerTrue', LedgerGrows, RemoteAdvances,
           UNCHANGED <<listed, panels, loads, receipt, refreshes, heard, disturbed>>,
           WaitsAreAnswered'
    PROVE  Inv'
<1> USE WorldKeeps DEF Inv
<1>1. ViewsTrue'
  <2>1. /\ \A panel \in Panels : panels[panel] \in View
        /\ \A panel \in Panels, s \in Slots : loads[panel][s].view \in View
      BY DEF TypeOK, Load
  <2> QED
      BY <2>1 DEF ViewsTrue, ViewTrue
<1>2. RefreshesTrue'
  <2> SUFFICES ASSUME NEW s \in RefreshSlots PROVE RefreshTrue(refreshes[s])'
      BY DEF RefreshesTrue
  <2>1. RefreshTrue(refreshes[s])
      BY DEF RefreshesTrue
  <2> QED
      BY <2>1 DEF RefreshTrue
<1>3. ReceiptTrue'
    BY DEF ReceiptTrue
<1>4. PanelsReached' /\ OverlapsKnown'
    BY DEF PanelsReached, OverlapsKnown, Reaches, Reached, ServedGoal
<1>5. HeardRows'
    BY DEF HeardRows, LedgerGrows, TypeOK
<1> QED
    BY <1>1, <1>2, <1>3, <1>4, <1>5

-----------------------------------------------------------------------------
(* The ledger and KeeperHub.                                               *)

LEMMA LedgerUids == ASSUME Inv PROVE \A n \in DOMAIN ledger : ledger[n].uid \in Uids
<1>1. \A n \in DOMAIN ledger : ledger[n] \in Row
    BY DEF Inv, TypeOK
<1> QED
    BY <1>1 DEF Row

\* A simulation's row tells nothing of an authorization.
LEMMA SimulationKeeps ==
    ASSUME Inv, NEW uid \in Uids, NEW evidence \in {"simulated", "rejected"},
           Insert(SimulationRow(uid, evidence)), UNCHANGED remote
    PROVE  ledger' \in Seq(Row) /\ LedgerTrue' /\ LedgerGrows /\ RemoteAdvances
<1>1. SimulationRow(uid, evidence) \in Row /\ SimulationRow(uid, evidence).operation # "presign"
    BY DEF SimulationRow, Row, Operation, ExecutionState
<1>2. /\ ledger' \in Seq(Row) /\ LedgerGrows
      /\ \A n \in DOMAIN ledger' : (n \in DOMAIN ledger /\ ledger'[n] = ledger[n])
                                     \/ ledger'[n] = SimulationRow(uid, evidence)
    BY <1>1, InsertGrows DEF Inv
<1>3. LedgerTrue'
    BY <1>1, <1>2 DEF Inv, LedgerTrue
<1> QED
    BY <1>2, <1>3 DEF RemoteAdvances

LEMMA SimulationStep ==
    ASSUME Inv, NEW uid \in Uids, NEW evidence \in {"simulated", "rejected"},
           OtherSimulation(uid, evidence) \/ Simulate(uid, evidence)
    PROVE  Inv'
<1>1. Insert(SimulationRow(uid, evidence)) /\ UNCHANGED remote
    BY DEF OtherSimulation, Simulate
<1>2. ledger' \in Seq(Row) /\ LedgerTrue' /\ LedgerGrows /\ RemoteAdvances
    BY <1>1, SimulationKeeps
<1>3. TypeOK'
    BY <1>2 DEF OtherSimulation, Simulate, Inv, TypeOK, Simulation
<1>4. WaitsAreAnswered'
    BY DEF OtherSimulation, Simulate, Inv, WaitsAreAnswered
<1> QED
    BY <1>2, <1>3, <1>4, PageStands DEF OtherSimulation, Simulate

LEMMA SubmitPresignStep == ASSUME Inv, NEW uid \in Uids, SubmitPresign(uid) PROVE Inv'
<1>1. PICK row : row = [operation |-> "presign", uid |-> uid, evidence |-> "simulated",
                        state |-> "SUBMITTED"]
    OBVIOUS
<1>2. row \in Row /\ row.uid = uid /\ row.state = "SUBMITTED" /\ Insert(row)
    BY <1>1 DEF Row, Operation, ExecutionState, SubmitPresign
<1>3. /\ ledger' \in Seq(Row) /\ LedgerGrows
      /\ \A n \in DOMAIN ledger' :
           (n \in DOMAIN ledger /\ ledger'[n] = ledger[n]) \/ ledger'[n] = row
    BY <1>2, InsertGrows DEF Inv
<1>4. \A u \in Uids : remote[u] # "none" => remote'[u] = remote[u]
    BY DEF SubmitPresign, Started, Inv, TypeOK
<1>5. remote'[uid] # "none" /\ remote' \in [Uids -> {"none", "running", "completed", "failed"}]
    BY DEF SubmitPresign, Started, Inv, TypeOK
<1>6. \A n \in DOMAIN ledger : ledger[n].uid \in Uids
    BY LedgerUids
<1>7. LedgerTrue'
    BY <1>2, <1>3, <1>4, <1>5, <1>6 DEF Inv, LedgerTrue
<1>8. TypeOK' /\ WaitsAreAnswered'
    BY <1>3, <1>5 DEF SubmitPresign, Inv, TypeOK, WaitsAreAnswered
<1> QED
    BY <1>3, <1>4, <1>7, <1>8, PageStands DEF SubmitPresign, RemoteAdvances

\* Another goal's row tells this one's nothing, and starts what had not been.
LEMMA OtherGoalStep ==
    ASSUME Inv, NEW operation \in Operation, NEW uid \in Uids, OtherGoal(operation, uid)
    PROVE  Inv'
<1>1. /\ \A u \in Uids : remote[u] # "none" => remote'[u] = remote[u]
      /\ remote' \in [Uids -> {"none", "running", "completed", "failed"}]
    BY DEF OtherGoal, Started, Inv, TypeOK
<1>2. UNCHANGED ledger /\ \A n \in DOMAIN ledger : ledger[n].uid \in Uids
    BY LedgerUids DEF OtherGoal
<1>3. LedgerTrue'
    BY <1>1, <1>2 DEF Inv, LedgerTrue
<1>4. LedgerGrows /\ RemoteAdvances
    BY <1>1, <1>2 DEF LedgerGrows, RemoteAdvances, Inv, TypeOK
<1>5. TypeOK' /\ WaitsAreAnswered'
    BY <1>1 DEF OtherGoal, Inv, TypeOK, WaitsAreAnswered
<1> QED
    BY <1>3, <1>4, <1>5, PageStands DEF OtherGoal

LEMMA RemoteEndsStep ==
    ASSUME Inv, NEW uid \in Uids, NEW outcome \in {"completed", "failed"},
           RemoteEnds(uid, outcome)
    PROVE  Inv'
<1>1. /\ remote[uid] = "running" /\ remote'[uid] = outcome
      /\ \A u \in Uids : u # uid => remote'[u] = remote[u]
      /\ remote' \in [Uids -> {"none", "running", "completed", "failed"}]
    BY DEF RemoteEnds, Inv, TypeOK
<1>2. UNCHANGED ledger /\ \A n \in DOMAIN ledger : ledger[n].uid \in Uids
    BY LedgerUids DEF RemoteEnds
<1>3. LedgerTrue'
    BY <1>1, <1>2, ReconciledFacts DEF Inv, LedgerTrue
<1>4. LedgerGrows /\ RemoteAdvances
    BY <1>1, <1>2 DEF LedgerGrows, RemoteAdvances, Inv, TypeOK
<1>5. TypeOK' /\ WaitsAreAnswered'
    BY <1>1 DEF RemoteEnds, Inv, TypeOK, WaitsAreAnswered
<1> QED
    BY <1>3, <1>4, <1>5, PageStands DEF RemoteEnds

\* Submitted rows of the execution take the outcome; the others have it already.
LEMMA ApplyStep == ASSUME Inv, NEW s \in RefreshSlots, ApplyReconciliation(s) PROVE Inv'
<1> DEFINE r == refreshes[s]
<1>1. /\ r \in Refresh /\ r.stage = "reconciled" /\ RefreshTrue(r)
      /\ refreshes' = [refreshes EXCEPT ![s].stage = "served"]
      /\ UNCHANGED <<listed, taken, remote, panels, loads, preflight, simulation, receipt,
                     heard, disturbed>>
    BY DEF ApplyReconciliation, Inv, TypeOK, RefreshesTrue
<1>2. /\ r.uid \in Uids /\ PresignRow(r.uid) /\ r.outcome \in {"SUBMITTED", "CONFIRMED", "FAILED"}
      /\ r.outcome \in Final => Reconciled[remote[r.uid]] = r.outcome
    BY <1>1 DEF RefreshTrue, Refresh, Outcome
<1>3. /\ ledger \in Seq(Row) /\ DOMAIN ledger = 1..Len(ledger) /\ Len(ledger) \in Nat
      /\ \A n \in DOMAIN ledger : ledger[n] \in Row
    BY DEF Inv, TypeOK
<1>4. ASSUME NEW n \in DOMAIN ledger
      PROVE  /\ n \in DOMAIN ledger' /\ ledger'[n] \in Row
             /\ ledger'[n].uid = ledger[n].uid /\ ledger'[n].operation = ledger[n].operation
             /\ IF /\ ledger[n].operation = "presign" /\ ledger[n].uid = r.uid
                   /\ ledger[n].state = "SUBMITTED"
                THEN ledger'[n].state = r.outcome
                ELSE ledger'[n].state = ledger[n].state
    BY <1>2, <1>3 DEF ApplyReconciliation, Row, Operation, ExecutionState
<1>5. ledger' \in Seq(Row) /\ Len(ledger') = Len(ledger) /\ DOMAIN ledger' = DOMAIN ledger
  <2>1. ledger' = [n \in 1..Len(ledger) |-> ledger'[n]]
      BY <1>3 DEF ApplyReconciliation
  <2> QED
      BY <1>3, <1>4, <2>1
<1>6. LedgerGrows /\ RemoteAdvances
    BY <1>1, <1>3, <1>4, <1>5 DEF LedgerGrows, RemoteAdvances
<1>7. LedgerTrue'
    BY <1>1, <1>2, <1>4, <1>5 DEF Inv, LedgerTrue, Final
<1>8. r.outcome \in Final => EndedRow(r.uid, r.outcome)'
  <2> SUFFICES ASSUME r.outcome \in Final PROVE EndedRow(r.uid, r.outcome)'
      OBVIOUS
  <2>1. PICK n \in DOMAIN ledger : ledger[n].operation = "presign" /\ ledger[n].uid = r.uid
      BY <1>2 DEF PresignRow
  <2>2. ledger[n].state \in {"SUBMITTED", r.outcome}
      BY <1>2, <2>1 DEF Inv, LedgerTrue
  <2>3. /\ n \in DOMAIN ledger' /\ ledger'[n].operation = "presign"
        /\ ledger'[n].uid = r.uid /\ ledger'[n].state = r.outcome
      BY <1>4, <2>1, <2>2
  <2>4. r.uid = refreshes'[s].uid /\ r.outcome = refreshes'[s].outcome
      BY <1>1 DEF Inv, TypeOK, Refresh
  <2> QED
      BY <2>3, <2>4 DEF EndedRow
<1>9. TypeOK'
    BY <1>1, <1>5 DEF Inv, TypeOK, Refresh
<1>10. ViewsTrue' /\ ReceiptTrue'
  <2>1. /\ \A v \in View : ViewTrue(v) => ViewTrue(v)'
        /\ \A u \in Uids, o \in Final : EndedRow(u, o) => EndedRow(u, o)'
      BY <1>6, <1>9, WorldKeeps DEF Inv
  <2>2. ViewsTrue'
      BY <1>1, <2>1 DEF Inv, ViewsTrue, TypeOK, Load, ViewTrue
  <2>3. ReceiptTrue'
      BY <1>1, <2>1 DEF Inv, ReceiptTrue
  <2> QED
      BY <2>2, <2>3
<1>11. ASSUME NEW t \in RefreshSlots PROVE RefreshTrue(refreshes[t])'
  <2>1. CASE t # s
    <3>1. RefreshTrue(refreshes[t]) /\ refreshes'[t] = refreshes[t]
        BY <1>1, <2>1 DEF Inv, RefreshesTrue, TypeOK
    <3> QED
        BY <1>1, <1>6, <1>9, <3>1, WorldKeeps DEF Inv, RefreshTrue
  <2>2. CASE t = s
    <3>1. /\ refreshes'[s].stage = "served" /\ refreshes'[s].uid = r.uid
          /\ refreshes'[s].outcome = r.outcome /\ refreshes'[s].overlaps = r.overlaps
        BY <1>1 DEF Inv, TypeOK, Refresh
    <3>2. PresignRow(r.uid)'
        BY <1>2, <1>6, <1>9, <3>1, WorldKeeps DEF Inv
    <3> QED
        BY <1>1, <1>2, <1>8, <2>2, <3>1, <3>2 DEF RefreshTrue
  <2> QED
      BY <2>1, <2>2
<1>12. OverlapsKnown'
    BY <1>1 DEF Inv, OverlapsKnown, TypeOK, Refresh
<1>13. PanelsReached' /\ HeardRows'
    BY <1>1, <1>5 DEF Inv, PanelsReached, Reaches, Reached, ServedGoal, HeardRows
<1>14. WaitsAreAnswered'
    BY <1>1 DEF Inv, WaitsAreAnswered, TypeOK, Refresh
<1> QED
    BY <1>7, <1>9, <1>10, <1>11, <1>12, <1>13, <1>14 DEF Inv, RefreshesTrue

-----------------------------------------------------------------------------
(* Loads of the history.                                                   *)

\* The ledger, the preflight and the receipts stand while a load goes a step on.
LEMMA LoadKeeps ==
    ASSUME Inv, NEW panel \in Panels, NEW s \in Slots, NEW load \in Load,
           loads' = [loads EXCEPT ![panel][s] = load],
           panels' \in [Panels -> View],
           \A other \in Panels : other # panel => panels'[other] = panels[other],
           disturbed \subseteq disturbed', disturbed' \subseteq Panels,
           UNCHANGED <<listed, ledger, taken, remote, preflight, simulation, receipt, refreshes, heard>>,
           ViewTrue(load.view), ViewTrue(panels'[panel]),
           listed => ServedGoal(load) /\ (panel \notin disturbed' => Reached(panel)')
    PROVE  Inv'
<1>1. /\ loads' \in [Panels -> [Slots -> Load]] /\ loads'[panel][s] = load
      /\ \A p \in Panels, t \in Slots : p # panel \/ t # s => loads'[p][t] = loads[p][t]
    BY DEF Inv, TypeOK
<1>2. TypeOK' /\ HeardRows' /\ LedgerTrue' /\ WaitsAreAnswered'
    BY <1>1 DEF Inv, TypeOK, HeardRows, LedgerTrue, WaitsAreAnswered
<1>3. RefreshesTrue' /\ OverlapsKnown' /\ ReceiptTrue'
    BY DEF Inv, RefreshesTrue, RefreshTrue, PresignRow, EndedRow, OverlapsKnown, ReceiptTrue
<1>4. ViewsTrue'
  <2>1. ASSUME NEW p \in Panels, NEW t \in Slots PROVE ViewTrue(loads[p][t].view)'
    <3>1. CASE p = panel /\ t = s
        BY <1>1, <3>1 DEF ViewTrue
    <3>2. CASE p # panel \/ t # s
        BY <1>1, <3>2 DEF Inv, ViewsTrue, ViewTrue
    <3> QED
        BY <3>1, <3>2
  <2>2. ASSUME NEW p \in Panels PROVE ViewTrue(panels[p])'
    <3>1. CASE p = panel
        BY <3>1 DEF ViewTrue
    <3>2. CASE p # panel
        BY <3>2 DEF Inv, ViewsTrue, ViewTrue
    <3> QED
        BY <3>1, <3>2
  <2> QED
      BY <2>1, <2>2 DEF ViewsTrue
<1>5. PanelsReached'
  <2> SUFFICES ASSUME listed
               PROVE  /\ \A p \in Panels, t \in Slots : ServedGoal(loads[p][t])'
                      /\ \A p \in Panels \ disturbed' : Reached(p)'
      BY DEF PanelsReached
  <2>1. ASSUME NEW p \in Panels, NEW t \in Slots PROVE ServedGoal(loads'[p][t])
    <3>1. CASE p = panel /\ t = s
        BY <1>1, <3>1
    <3>2. CASE p # panel \/ t # s
        BY <1>1, <3>2 DEF Inv, PanelsReached
    <3> QED
        BY <3>1, <3>2
  <2>2. ASSUME NEW p \in Panels \ disturbed' PROVE Reached(p)'
    <3>1. CASE p = panel
        BY <3>1
    <3>2. CASE p # panel
      <4>1. (\A t \in Slots : loads'[p][t] = loads[p][t]) /\ panels'[p] = panels[p]
          BY <1>1, <3>2
      <4>2. Reached(p)
          BY DEF Inv, PanelsReached
      <4> QED
          BY <4>1, <4>2 DEF Reached, Reaches
    <3> QED
        BY <3>1, <3>2
  <2> QED
      BY <2>1, <2>2 DEF ServedGoal
<1> QED
    BY <1>2, <1>3, <1>4, <1>5 DEF Inv

LEMMA LoadStepKeeps ==
    ASSUME Inv, NEW panel \in Panels, NEW s \in Slots,
           ServeLoad(panel, s) \/ DeliverLoad(panel, s) \/ FailLoad(panel, s)
    PROVE  Inv'
<1>1. /\ loads[panel][s] \in Load /\ loads[panel][s].view \in View /\ panels[panel] \in View
      /\ ViewTrue(loads[panel][s].view) /\ ViewTrue(panels[panel])
    BY DEF Inv, TypeOK, Load, ViewsTrue
<1>2. NoLoad \in Load /\ NoLoad.stage = "idle" /\ ViewTrue(NoLoad.view) /\ ViewTrue(Unread)
      /\ Unread \in View
    BY RecordFacts DEF ViewTrue, Inv, TypeOK
<1>3. CASE ServeLoad(panel, s)
  <2> DEFINE read == [says |-> "goal", rows |-> Len(ledger), latest |-> LatestExecution(ledger)]
  <2>1. /\ Len(ledger) \in Nat /\ DOMAIN ledger = 1..Len(ledger)
        /\ \A n \in DOMAIN ledger : ledger[n] \in Row
        /\ ledger = <<>> <=> Len(ledger) = 0
      BY DEF Inv, TypeOK
  <2>2. read \in View /\ ViewTrue(read) /\ read.says = "goal" /\ read.rows = Len(ledger)
      BY <2>1, RecordFacts DEF LatestExecution, View, ViewTrue
  <2>0. PICK load : load = [stage |-> "served", view |-> IF listed THEN read ELSE Unread]
      OBVIOUS
  <2>3. /\ load \in Load /\ ViewTrue(load.view) /\ load.stage = "served"
        /\ listed => load.view = read
      BY <1>2, <2>0, <2>2 DEF Load
  <2>4. listed => Reaches(load.view)
      BY <2>1, <2>2, <2>3 DEF Reaches, Inv, HeardRows, TypeOK
  <2>5. loads[panel][s].stage = "sent" /\ loads' = [loads EXCEPT ![panel][s] = load]
        /\ UNCHANGED <<listed, ledger, taken, remote, panels, preflight, simulation, receipt,
                       refreshes, heard, disturbed>>
      BY <1>3, <2>0 DEF ServeLoad
  <2>6. /\ panels' \in [Panels -> View] /\ panels'[panel] = panels[panel]
        /\ \A other \in Panels : other # panel => panels'[other] = panels[other]
        /\ disturbed \subseteq disturbed' /\ disturbed' \subseteq Panels
      BY <2>5 DEF Inv, TypeOK
  <2>7. ViewTrue(panels'[panel])
      BY <1>1, <2>6
  <2>8. listed => ServedGoal(load) /\ Reached(panel)'
    <3>1. loads'[panel][s] = load
        BY <2>5 DEF Inv, TypeOK
    <3> QED
        BY <2>2, <2>3, <2>4, <2>5, <3>1 DEF Reached, Reaches, ServedGoal
  <2>9. UNCHANGED <<listed, ledger, taken, remote, preflight, simulation, receipt, refreshes, heard>>
      BY <2>5
  <2> HIDE DEF read
  <2> QED
      BY <2>3, <2>5, <2>6, <2>7, <2>8, <2>9, LoadKeeps
<1>4. CASE DeliverLoad(panel, s)
  <2>1. /\ loads[panel][s].stage = "served" /\ loads' = [loads EXCEPT ![panel][s] = NoLoad]
        /\ panels' = [panels EXCEPT ![panel] = loads[panel][s].view]
        /\ disturbed' = IF loads[panel][s].view.rows < panels[panel].rows
                        THEN disturbed \cup {panel} ELSE disturbed
        /\ UNCHANGED <<listed, ledger, taken, remote, preflight, simulation, receipt,
                       refreshes, heard>>
      BY <1>4 DEF DeliverLoad
  <2>2. /\ panels' \in [Panels -> View] /\ panels'[panel] = loads[panel][s].view
        /\ \A other \in Panels : other # panel => panels'[other] = panels[other]
      BY <1>1, <2>1 DEF Inv, TypeOK
  <2>3. ASSUME listed PROVE panel \notin disturbed' => Reached(panel)'
    <3> SUFFICES ASSUME panel \notin disturbed' PROVE Reached(panel)'
        OBVIOUS
    <3>1. Reached(panel) /\ loads[panel][s].view.says = "goal"
        BY <2>1, <2>3 DEF Inv, PanelsReached, ServedGoal
    <3>2. \A t \in Slots : t # s => loads'[panel][t] = loads[panel][t]
        BY <2>1 DEF Inv, TypeOK
    <3>3. CASE Reaches(panels[panel])
      <4>1. /\ loads[panel][s].view.rows >= panels[panel].rows
            /\ loads[panel][s].view.rows \in Nat /\ panels[panel].rows \in Nat
            /\ heard \in Nat
          BY <1>1, <2>1 DEF View, Inv, TypeOK
      <4> QED
          BY <2>1, <2>2, <3>1, <3>3, <4>1 DEF Reached, Reaches
    <3>4. CASE Reaches(loads[panel][s].view)
        BY <2>1, <2>2, <3>4 DEF Reached, Reaches
    <3>5. CASE \E t \in Slots : t # s /\ (\/ loads[panel][t].stage = "sent"
                                          \/ /\ loads[panel][t].stage = "served"
                                             /\ Reaches(loads[panel][t].view))
        BY <2>1, <3>2, <3>5 DEF Reached, Reaches
    <3> QED
        BY <2>1, <3>1, <3>3, <3>4, <3>5 DEF Reached
  <2>4. disturbed \subseteq disturbed' /\ disturbed' \subseteq Panels /\ ServedGoal(NoLoad)
      BY <1>2, <2>1 DEF Inv, TypeOK, ServedGoal
  <2> QED
      BY <1>1, <1>2, <2>1, <2>2, <2>3, <2>4, LoadKeeps
<1>5. CASE FailLoad(panel, s)
  <2>1. /\ loads' = [loads EXCEPT ![panel][s] = NoLoad]
        /\ panels' = IF panel = "timeline" THEN [panels EXCEPT ![panel].says = "error"]
                                           ELSE panels
        /\ disturbed' = disturbed \cup {panel}
        /\ UNCHANGED <<listed, ledger, taken, remote, preflight, simulation, receipt,
                       refreshes, heard>>
      BY <1>5 DEF FailLoad
  <2>2. /\ panels' \in [Panels -> View]
        /\ panels'[panel].rows = panels[panel].rows
        /\ panels'[panel].latest = panels[panel].latest
        /\ \A other \in Panels : other # panel => panels'[other] = panels[other]
      BY <1>1, <2>1 DEF Inv, TypeOK, View
  <2>3. ViewTrue(panels'[panel]) /\ disturbed' \subseteq Panels /\ panel \in disturbed'
        /\ ServedGoal(NoLoad)
      BY <1>1, <1>2, <2>1, <2>2 DEF ViewTrue, Inv, TypeOK, ServedGoal
  <2> QED
      BY <1>2, <2>1, <2>2, <2>3, LoadKeeps
<1> QED
    BY <1>3, <1>4, <1>5

-----------------------------------------------------------------------------
(* The preflight.                                                          *)

\* A quote, and a simulation asked for or lost, touch the preflight only.
LEMMA QuoteStep ==
    ASSUME Inv, RequestQuote \/ QuoteAnswered \/ simulatePresignature \/ SimulationLost
    PROVE  Inv'
<1>1. /\ preflight \in Preflight
      /\ UNCHANGED <<listed, ledger, taken, remote, panels, loads, receipt, refreshes,
                     heard, disturbed>>
    BY DEF Inv, TypeOK, RequestQuote, QuoteAnswered, simulatePresignature, SimulationLost,
           StepEnds
<1>2. preflight' \in Preflight /\ simulation' \in Simulation
  <2>1. ASSUME NEW step \in {"none", "quote", "simulation"}, NEW eligible \in BOOLEAN
        PROVE  [activeStep |-> step, quoteEligible |-> eligible] \in Preflight
      BY DEF Preflight
  <2>2. CASE QuoteAnswered
    <3>1. PICK ok \in BOOLEAN :
             preflight' = [activeStep |-> "none", quoteEligible |-> ok /\ listed]
        BY <2>2 DEF QuoteAnswered
    <3>2. (ok /\ listed) \in BOOLEAN
        OBVIOUS
    <3> QED
        BY <2>1, <2>2, <3>1, <3>2 DEF QuoteAnswered, Inv, TypeOK
  <2>3. CASE RequestQuote
      BY <2>1, <2>3 DEF RequestQuote, Inv, TypeOK
  <2>4. CASE simulatePresignature
      BY <2>4 DEF simulatePresignature, Inv, TypeOK, Preflight, Simulation
  <2>5. CASE SimulationLost
      BY <2>5 DEF SimulationLost, StepEnds, Inv, TypeOK, Preflight, Simulation
  <2> QED
      BY <2>2, <2>3, <2>4, <2>5
<1>3. preflight'.activeStep = "simulation" <=> simulation' # "none"
    BY <1>1 DEF Inv, WaitsAreAnswered, RequestQuote, QuoteAnswered, simulatePresignature,
                SimulationLost, StepEnds, Preflight
<1>4. TypeOK' /\ WaitsAreAnswered'
    BY <1>1, <1>2, <1>3 DEF Inv, TypeOK, WaitsAreAnswered
<1> QED
    BY <1>1, <1>4 DEF Inv, LedgerTrue, ViewsTrue, ViewTrue, RefreshesTrue, RefreshTrue,
                      PresignRow, EndedRow, OverlapsKnown, ReceiptTrue, PanelsReached, Reaches,
                      Reached, ServedGoal, HeardRows

\* Every panel loads again, beside what it is loading.
LEMMA SimulationAnsweredStep == ASSUME Inv, SimulationAnswered PROVE Inv'
<1>1. /\ preflight' \in Preflight /\ preflight'.activeStep = "none" /\ simulation' = "none"
      /\ UNCHANGED <<listed, ledger, taken, remote, panels, receipt, refreshes,
                     disturbed>>
    BY DEF SimulationAnswered, StepEnds, Inv, TypeOK, Preflight
<1>2. WaitsAreAnswered'
    BY <1>1 DEF Inv, WaitsAreAnswered
<1>3. LedgerTrue' /\ RefreshesTrue' /\ OverlapsKnown' /\ ReceiptTrue'
    BY <1>1 DEF Inv, LedgerTrue, RefreshesTrue, RefreshTrue, PresignRow, EndedRow,
                OverlapsKnown, ReceiptTrue
<1>4. CASE simulation # "simulated"
  <2>1. UNCHANGED <<loads, heard>>
      BY <1>4 DEF SimulationAnswered
  <2> QED
      BY <1>1, <1>2, <1>3, <2>1 DEF Inv, TypeOK, Simulation, ViewsTrue, ViewTrue,
                                    PanelsReached, Reaches, Reached, ServedGoal, HeardRows
<1>5. CASE simulation = "simulated"
  <2>1. PICK slot \in [Panels -> Slots] : loads' = Sent(Panels, slot)
      BY <1>5 DEF SimulationAnswered
  <2>2. heard' = Len(ledger)
      BY <1>5 DEF SimulationAnswered
  <2>3. PICK sent : sent = [NoLoad EXCEPT !.stage = "sent"]
      OBVIOUS
  <2>4. sent \in Load /\ sent.stage = "sent" /\ sent.view = Unread
      BY <2>3, RecordFacts DEF Load
  <2>5. \A panel \in Panels : loads'[panel] = [loads[panel] EXCEPT ![slot[panel]] = sent]
      BY <2>1, <2>3 DEF Sent
  <2>6. \A panel \in Panels, s \in Slots :
           loads'[panel][s] = IF s = slot[panel] THEN sent ELSE loads[panel][s]
    <3> SUFFICES ASSUME NEW panel \in Panels, NEW s \in Slots
                 PROVE  loads'[panel][s] = IF s = slot[panel] THEN sent ELSE loads[panel][s]
        OBVIOUS
    <3>1. loads[panel] \in [Slots -> Load] /\ slot[panel] \in Slots
        BY DEF Inv, TypeOK
    <3>2. loads'[panel] = [loads[panel] EXCEPT ![slot[panel]] = sent]
        BY <2>5
    <3> QED
        BY <3>1, <3>2
  <2>7. loads' \in [Panels -> [Slots -> Load]]
      BY <2>1, <2>3, <2>4 DEF Sent, Inv, TypeOK
  <2>8. TypeOK'
      BY <1>1, <2>2, <2>7 DEF Inv, TypeOK, Simulation
  <2>9. HeardRows'
      BY <1>1, <2>2 DEF HeardRows, Inv, TypeOK
  <2>10. ViewsTrue'
    <3>1. ViewTrue(Unread)'
        BY <1>1, RecordFacts DEF ViewTrue, Inv, TypeOK
    <3>2. ASSUME NEW panel \in Panels, NEW s \in Slots PROVE ViewTrue(loads[panel][s].view)'
        BY <1>1, <2>4, <2>6, <3>1 DEF Inv, ViewsTrue, ViewTrue
    <3> QED
        BY <1>1, <3>2 DEF Inv, ViewsTrue, ViewTrue
  <2>11. PanelsReached'
    <3>1. ASSUME NEW panel \in Panels PROVE Reached(panel)'
        BY <2>4, <2>6 DEF Reached
    <3>2. ASSUME listed, NEW panel \in Panels, NEW s \in Slots
          PROVE  ServedGoal(loads'[panel][s])
        BY <2>4, <2>6, <3>2 DEF ServedGoal, Inv, PanelsReached
    <3> QED
        BY <1>1, <3>1, <3>2 DEF PanelsReached, ServedGoal
  <2> QED
      BY <1>2, <1>3, <2>8, <2>9, <2>10, <2>11 DEF Inv
<1> QED
    BY <1>4, <1>5

-----------------------------------------------------------------------------
(* Receipts.                                                               *)

\* Only the receipt and its refreshes move.
LEMMA ReceiptKeeps ==
    ASSUME Inv, receipt' \in Receipt, refreshes' \in [RefreshSlots -> Refresh],
           UNCHANGED <<listed, ledger, taken, remote, panels, loads, preflight, simulation,
                       heard, disturbed>>,
           RefreshesTrue', OverlapsKnown', ReceiptTrue',
           receipt'.says = "reading" => \E s \in RefreshSlots : refreshes'[s].stage # "idle"
    PROVE  Inv'
BY DEF Inv, TypeOK, LedgerTrue, ViewsTrue, ViewTrue, PanelsReached, Reaches, Reached, ServedGoal,
       HeardRows, WaitsAreAnswered

\* The latest row has an execution, and so is an authorization's.
LEMMA RefreshReceiptStep == ASSUME Inv, NEW s \in RefreshSlots, RefreshReceipt(s) PROVE Inv'
<1>1. Shown.uid \in Uids /\ PresignRow(Shown.uid)
  <2>1. /\ panels["timeline"] \in View /\ ViewTrue(panels["timeline"])
        /\ Shown = panels["timeline"].latest /\ Shown # NoRow /\ Shown.operation = "presign"
      BY GoalPageAssumption DEF Inv, TypeOK, ViewsTrue, RefreshReceipt, Shown
  <2>2. Shown \in Row /\ panels["timeline"].rows \in 1..Len(ledger)
      BY <2>1 DEF View, ViewTrue, Inv, TypeOK
  <2> QED
      BY <2>1, <2>2 DEF ViewTrue, PresignRow, Row, Inv, TypeOK
<1>2. /\ receipt' = [receipt EXCEPT !.says = "reading"]
      /\ refreshes[s].stage = "idle"
      /\ UNCHANGED <<listed, ledger, taken, remote, panels, loads, preflight, simulation,
                     heard, disturbed>>
    BY DEF RefreshReceipt
<1>3. receipt' \in Receipt /\ receipt'.uid = receipt.uid /\ receipt'.outcome = receipt.outcome
    BY <1>2 DEF Inv, TypeOK, Receipt
<1>4. PICK others : others = {t \in RefreshSlots : refreshes[t].stage # "idle"}
    OBVIOUS
<1>5. refreshes' = [t \in RefreshSlots |->
             IF t = s THEN [stage |-> "sent", uid |-> Shown.uid, outcome |-> "none",
                            overlaps |-> others # {}]
             ELSE [refreshes[t] EXCEPT !.overlaps = @ \/ t \in others]]
    BY <1>4 DEF RefreshReceipt
<1>6. /\ refreshes'[s] \in Refresh /\ refreshes'[s].stage = "sent"
      /\ refreshes'[s].uid = Shown.uid /\ (others # {} => refreshes'[s].overlaps)
    BY <1>1, <1>5 DEF Refresh, Outcome
<1>7. ASSUME NEW t \in RefreshSlots, t # s
      PROVE  /\ refreshes'[t] \in Refresh
             /\ refreshes'[t].stage = refreshes[t].stage /\ refreshes'[t].uid = refreshes[t].uid
             /\ refreshes'[t].outcome = refreshes[t].outcome
             /\ refreshes[t].overlaps => refreshes'[t].overlaps
             /\ t \in others => refreshes'[t].overlaps
    BY <1>5, <1>7 DEF Inv, TypeOK, Refresh
<1>8. refreshes' \in [RefreshSlots -> Refresh]
  <2>1. \A t \in RefreshSlots : refreshes'[t] \in Refresh
      BY <1>6, <1>7
  <2>2. refreshes' = [t \in RefreshSlots |-> refreshes'[t]]
      BY <1>5
  <2> QED
      BY <2>1, <2>2
<1>9. RefreshesTrue'
  <2> SUFFICES ASSUME NEW t \in RefreshSlots PROVE RefreshTrue(refreshes[t])'
      BY DEF RefreshesTrue
  <2>1. CASE t = s
      BY <1>1, <1>2, <1>6, <2>1 DEF RefreshTrue, PresignRow
  <2>2. CASE t # s
      BY <1>2, <1>3, <1>7, <2>2 DEF Inv, RefreshesTrue, RefreshTrue, PresignRow, EndedRow
  <2> QED
      BY <2>1, <2>2
<1>10. OverlapsKnown'
  <2> SUFFICES ASSUME NEW t \in RefreshSlots, NEW u \in RefreshSlots, t # u,
                      refreshes'[t].stage # "idle", refreshes'[u].stage # "idle"
               PROVE  refreshes'[t].overlaps
      BY DEF OverlapsKnown
  <2>1. \A v \in RefreshSlots : v # s /\ refreshes'[v].stage # "idle" => v \in others
      BY <1>4, <1>7
  <2>2. CASE t = s
      BY <1>6, <2>1, <2>2
  <2>3. CASE t # s
      BY <1>7, <2>1, <2>3
  <2> QED
      BY <2>2, <2>3
<1>11. ReceiptTrue'
    BY <1>2, <1>3 DEF Inv, ReceiptTrue, EndedRow
<1> QED
    BY <1>2, <1>3, <1>6, <1>8, <1>9, <1>10, <1>11, ReceiptKeeps

\* While a receipt that is shown is final, a status that is read is the same.
LEMMA ReadStatusStep == ASSUME Inv, NEW s \in RefreshSlots, ReadStatus(s) PROVE Inv'
<1> DEFINE r == refreshes[s]
<1>1. /\ r \in Refresh /\ r.stage = "sent" /\ RefreshTrue(r)
      /\ refreshes' = [refreshes EXCEPT ![s].stage = "reconciled",
                                        ![s].outcome = Reconciled[remote[r.uid]]]
      /\ UNCHANGED <<listed, ledger, taken, remote, panels, loads, preflight, simulation,
                     receipt, heard, disturbed>>
    BY DEF ReadStatus, Inv, TypeOK, RefreshesTrue
<1>2. r.uid \in Uids /\ PresignRow(r.uid) /\ remote[r.uid] \in {"running", "completed", "failed"}
    BY <1>1 DEF RefreshTrue, PresignRow, Inv, LedgerTrue, TypeOK
<1>3. Reconciled[remote[r.uid]] \in {"SUBMITTED", "CONFIRMED", "FAILED"}
    BY <1>2, ReconciledFacts
<1>4. /\ refreshes'[s] \in Refresh /\ refreshes'[s].stage = "reconciled"
      /\ refreshes'[s].uid = r.uid /\ refreshes'[s].overlaps = r.overlaps
      /\ refreshes'[s].outcome = Reconciled[remote[r.uid]]
      /\ \A t \in RefreshSlots : t # s => refreshes'[t] = refreshes[t]
      /\ refreshes' \in [RefreshSlots -> Refresh]
    BY <1>1, <1>3 DEF Inv, TypeOK, Refresh, Outcome
<1>5. RefreshTrue(refreshes[s])'
    BY <1>1, <1>2, <1>3, <1>4 DEF RefreshTrue, PresignRow, Inv, ReceiptTrue
<1>6. RefreshesTrue'
    BY <1>1, <1>4, <1>5 DEF Inv, RefreshesTrue, RefreshTrue, PresignRow, EndedRow
<1>7. OverlapsKnown'
    BY <1>1, <1>4 DEF Inv, OverlapsKnown
<1>8. ReceiptTrue'
    BY <1>1 DEF Inv, ReceiptTrue, EndedRow
<1>9. receipt' \in Receipt
    BY <1>1 DEF Inv, TypeOK
<1>10. receipt'.says = "reading" => \E t \in RefreshSlots : refreshes'[t].stage # "idle"
    BY <1>4
<1> QED
    BY <1>1, <1>4, <1>6, <1>7, <1>8, <1>9, <1>10, ReceiptKeeps

\* What is read out is what the refresh knows; whoever else is waiting overlaps it.
LEMMA ReceiptEnds ==
    ASSUME Inv, NEW s \in RefreshSlots, DeliverReceipt(s) \/ FailReceipt(s)
    PROVE  Inv'
<1> DEFINE r == refreshes[s]
<1>1. /\ r \in Refresh /\ r.stage # "idle" /\ RefreshTrue(r)
      /\ refreshes' = [refreshes EXCEPT ![s] = NoRefresh]
      /\ UNCHANGED <<listed, ledger, taken, remote, panels, loads, preflight, simulation,
                     heard, disturbed>>
    BY DEF DeliverReceipt, FailReceipt, Inv, TypeOK, RefreshesTrue
<1>2. /\ refreshes'[s].stage = "idle"
      /\ \A t \in RefreshSlots : t # s => refreshes'[t] = refreshes[t]
      /\ refreshes' \in [RefreshSlots -> Refresh]
    BY <1>1, RecordFacts DEF Inv, TypeOK
<1>3. receipt' \in Receipt /\ receipt'.says # "reading"
  <2>1. CASE DeliverReceipt(s)
      BY <1>1, <2>1 DEF DeliverReceipt, Receipt, Refresh
  <2>2. CASE FailReceipt(s)
      BY <2>2 DEF FailReceipt, Inv, TypeOK, Receipt
  <2> QED
      BY <2>1, <2>2
<1>4. ReceiptTrue'
  <2>1. CASE DeliverReceipt(s)
      BY <1>1, <2>1 DEF DeliverReceipt, RefreshTrue, ReceiptTrue, EndedRow
  <2>2. CASE FailReceipt(s)
    <3>1. receipt'.outcome = receipt.outcome /\ receipt'.uid = receipt.uid
        BY <2>2 DEF FailReceipt, Inv, TypeOK, Receipt
    <3> QED
        BY <1>1, <3>1 DEF Inv, ReceiptTrue, EndedRow
  <2> QED
      BY <2>1, <2>2
<1>5. ASSUME NEW t \in RefreshSlots PROVE RefreshTrue(refreshes[t])'
  <2>1. CASE refreshes'[t].stage = "idle"
      BY <2>1 DEF RefreshTrue
  <2>2. CASE refreshes'[t].stage # "idle"
    <3>1. t # s /\ refreshes'[t] = refreshes[t] /\ refreshes[t].overlaps /\ RefreshTrue(refreshes[t])
        BY <1>1, <1>2, <2>2 DEF Inv, OverlapsKnown, RefreshesTrue
    <3> QED
        BY <1>1, <3>1 DEF RefreshTrue, PresignRow, EndedRow
  <2> QED
      BY <2>1, <2>2
<1>6. OverlapsKnown'
    BY <1>2 DEF Inv, OverlapsKnown
<1>7. RefreshesTrue'
    BY <1>5 DEF RefreshesTrue
<1> QED
    BY <1>1, <1>2, <1>3, <1>4, <1>6, <1>7, ReceiptKeeps

-----------------------------------------------------------------------------
(* All together.                                                           *)

LEMMA FreshFacts ==
    ASSUME NEW fresh \in FreshLoads
    PROVE  /\ fresh \in [Panels -> [Slots -> Load]]
           /\ \A panel \in Panels, s \in Slots : fresh[panel][s].view = Unread
           /\ \A panel \in Panels, s \in Slots : fresh[panel][s].stage # "served"
           /\ \A panel \in Panels : \E s \in Slots : fresh[panel][s].stage = "sent"
<1>1. PICK sent : sent = [NoLoad EXCEPT !.stage = "sent"]
    OBVIOUS
<1>2. sent \in Load /\ sent.stage = "sent" /\ sent.view = Unread
    BY <1>1, RecordFacts DEF Load
<1>3. PICK slot \in Slots :
         fresh = [panel \in Panels |-> [s \in Slots |-> IF s = slot THEN sent ELSE NoLoad]]
    BY <1>1 DEF FreshLoads
<1>4. \A panel \in Panels, s \in Slots :
         fresh[panel][s] = IF s = slot THEN sent ELSE NoLoad
    BY <1>3
<1> QED
    BY <1>2, <1>3, <1>4, RecordFacts

\* A page that opens has heard of nothing, and each of its panels loads once.
LEMMA Opens ==
    ASSUME ledger \in Seq(Row), panels = [panel \in Panels |-> Unread],
           NEW fresh \in FreshLoads, loads = fresh, receipt = NoReceipt,
           refreshes = [s \in RefreshSlots |-> NoRefresh], heard = 0, disturbed = {},
           preflight = Ready, simulation = "none"
    PROVE  /\ panels \in [Panels -> View] /\ loads \in [Panels -> [Slots -> Load]]
           /\ receipt \in Receipt /\ refreshes \in [RefreshSlots -> Refresh]
           /\ preflight \in Preflight /\ simulation \in Simulation
           /\ heard \in Nat /\ disturbed \subseteq Panels
           /\ ViewsTrue /\ RefreshesTrue /\ OverlapsKnown /\ ReceiptTrue
           /\ PanelsReached /\ HeardRows /\ WaitsAreAnswered
<1>1. Len(ledger) \in Nat /\ ViewTrue(Unread)
    BY RecordFacts DEF ViewTrue
<1>2. ViewsTrue
    BY <1>1, FreshFacts DEF ViewsTrue
<1>3. PanelsReached
  <2>1. \A panel \in Panels : \E s \in Slots : loads[panel][s].stage = "sent"
      BY FreshFacts
  <2>2. \A panel \in Panels, s \in Slots : loads[panel][s].stage # "served"
      BY FreshFacts
  <2> QED
      BY <2>1, <2>2 DEF PanelsReached, Reached, ServedGoal
<1>4. RefreshesTrue /\ OverlapsKnown /\ ReceiptTrue /\ WaitsAreAnswered
    BY RecordFacts DEF RefreshesTrue, RefreshTrue, OverlapsKnown, ReceiptTrue, Final,
                       WaitsAreAnswered
<1>5. HeardRows
    BY <1>1 DEF HeardRows
<1>6. loads \in [Panels -> [Slots -> Load]] /\ panels \in [Panels -> View]
    BY FreshFacts, RecordFacts
<1>7. /\ receipt \in Receipt /\ refreshes \in [RefreshSlots -> Refresh]
      /\ preflight \in Preflight /\ simulation \in Simulation
      /\ heard \in Nat /\ disturbed \subseteq Panels
    BY RecordFacts DEF Simulation
<1> QED
    BY <1>2, <1>3, <1>4, <1>5, <1>6, <1>7

LEMMA InitInv == Init => Inv
<1> SUFFICES ASSUME Init PROVE Inv
    OBVIOUS
<1>1. ledger \in Seq(Row) /\ LedgerTrue
    BY DEF Init, LedgerTrue
<1>2. TypeOK
    BY <1>1, Opens DEF Init, TypeOK
<1> QED
    BY <1>1, <1>2, Opens DEF Init, Inv

LEMMA ReloadStep == ASSUME Inv, Reload PROVE Inv'
<1>1. PICK fresh \in FreshLoads : loads' = fresh
    BY DEF Reload
<1>2. /\ ledger' \in Seq(Row) /\ panels' = [panel \in Panels |-> Unread]
      /\ receipt' = NoReceipt /\ refreshes' = [s \in RefreshSlots |-> NoRefresh]
      /\ heard' = 0 /\ disturbed' = {} /\ preflight' = Ready /\ simulation' = "none"
      /\ UNCHANGED <<listed, ledger, taken, remote>>
    BY DEF Reload, Inv, TypeOK
<1>3. /\ Len(ledger) \in Nat /\ ViewTrue(Unread)'
      /\ NoReceipt.outcome \notin Final
    BY <1>2, RecordFacts DEF ViewTrue, Inv, TypeOK, Final
<1>4. TypeOK'
    BY <1>1, <1>2, FreshFacts, RecordFacts DEF Inv, TypeOK, Simulation
<1>5. ViewsTrue'
    BY <1>1, <1>2, <1>3, FreshFacts DEF ViewsTrue, ViewTrue
<1>6. PanelsReached'
  <2>1. \A panel \in Panels : \E s \in Slots : loads'[panel][s].stage = "sent"
      BY <1>1, FreshFacts
  <2>2. \A panel \in Panels, s \in Slots : loads'[panel][s].stage # "served"
      BY <1>1, FreshFacts
  <2> QED
      BY <2>1, <2>2 DEF PanelsReached, Reached, ServedGoal
<1>7. RefreshesTrue' /\ OverlapsKnown' /\ ReceiptTrue' /\ WaitsAreAnswered'
    BY <1>2, <1>3, RecordFacts DEF RefreshesTrue, RefreshTrue, OverlapsKnown, ReceiptTrue,
                                   WaitsAreAnswered
<1>8. HeardRows' /\ LedgerTrue'
    BY <1>2, <1>3 DEF HeardRows, LedgerTrue, Inv
<1> QED
    BY <1>4, <1>5, <1>6, <1>7, <1>8 DEF Inv

LEMMA NextInv == ASSUME Inv, [Next]_vars PROVE Inv'
<1>1. ASSUME NEW panel \in Panels, LoadStep(panel) PROVE Inv'
    BY <1>1, LoadStepKeeps DEF LoadStep
<1>2. ASSUME PreflightStep PROVE Inv'
    BY <1>2, QuoteStep, SimulationAnsweredStep, SimulationStep DEF PreflightStep
<1>3. ASSUME ReceiptStep PROVE Inv'
    BY <1>3, ReadStatusStep, ApplyStep, ReceiptEnds DEF ReceiptStep
<1>4. ASSUME RequestQuote \/ simulatePresignature \/ Reload
             \/ \E s \in RefreshSlots : RefreshReceipt(s)
      PROVE  Inv'
    BY <1>4, QuoteStep, ReloadStep, RefreshReceiptStep
<1>5. ASSUME NEW u \in Uids,
             \/ SubmitPresign(u)
             \/ \E evidence \in {"simulated", "rejected"} : OtherSimulation(u, evidence)
             \/ \E operation \in Operation : OtherGoal(operation, u)
             \/ \E outcome \in {"completed", "failed"} : RemoteEnds(u, outcome)
      PROVE  Inv'
    BY <1>5, SubmitPresignStep, SimulationStep, OtherGoalStep, RemoteEndsStep
<1>6. ASSUME UNCHANGED vars PROVE Inv'
    BY <1>6 DEF vars, Inv, TypeOK, LedgerTrue, ViewsTrue, ViewTrue, RefreshesTrue, RefreshTrue,
                PresignRow, EndedRow, OverlapsKnown, ReceiptTrue, PanelsReached, Reaches,
                Reached, ServedGoal, HeardRows, WaitsAreAnswered
<1> QED
    BY <1>1, <1>2, <1>3, <1>4, <1>5, <1>6 DEF Next

LEMMA Invariance == Spec => []Inv
<1>1. Inv /\ [Next]_vars => Inv'
    BY NextInv
<1> QED
    BY InitInv, <1>1, PTL DEF Spec

-----------------------------------------------------------------------------

\* The panels, their fetches and the ledger keep their types.
THEOREM GoalPageTypeCorrect == Spec => []TypeOK
<1>1. Inv => TypeOK
    BY DEF Inv
<1> QED
    BY Invariance, <1>1, PTL

\* Whatever fetches overlap, fail or come late, the page reports a verified
\* transaction only if KeeperHub completed it and the ledger says so.
THEOREM VerifiedStaysRecorded == Spec => []VerifiedIsRecorded
<1>1. Inv => VerifiedIsRecorded
  <2> SUFFICES ASSUME Inv, receipt.says = "read", receipt.outcome = "CONFIRMED"
               PROVE  /\ remote[receipt.uid] = "completed"
                      /\ EndedRow(receipt.uid, "CONFIRMED")
      BY DEF VerifiedIsRecorded, EndedRow
  <2>1. /\ receipt.uid \in Uids /\ Reconciled[remote[receipt.uid]] = "CONFIRMED"
        /\ EndedRow(receipt.uid, "CONFIRMED")
      BY DEF Inv, ReceiptTrue, Final
  <2>2. remote[receipt.uid] \in {"none", "running", "completed", "failed"}
      BY <2>1 DEF Inv, TypeOK
  <2> QED
      BY <2>1, <2>2, ReconciledFacts
<1> QED
    BY Invariance, <1>1, PTL

\* What the page's own simulation recorded reaches every panel, whatever else loads.
THEOREM EvidenceReaches == Spec => []EvidenceReachesPanels
<1>1. Inv => EvidenceReachesPanels
  <2> SUFFICES ASSUME Inv, NEW panel \in Panels \ disturbed, listed, ~Loading(panel)
               PROVE  /\ panels[panel].says = "goal"
                      /\ panels[panel].rows >= heard
                      /\ panels[panel].rows > 0 =>
                           panels[panel].latest.uid = ledger[panels[panel].rows].uid
                           /\ panels[panel].latest.operation
                                = ledger[panels[panel].rows].operation
      BY DEF EvidenceReachesPanels
  <2>1. Reaches(panels[panel]) /\ ViewTrue(panels[panel]) /\ panels[panel].rows \in Nat
      BY DEF Inv, PanelsReached, Reached, Loading, ViewsTrue, TypeOK, View
  <2> QED
      BY <2>1 DEF Reaches, ViewTrue
<1> QED
    BY Invariance, <1>1, PTL

\* Nothing on the page waits for an answer that cannot come.
THEOREM WaitsStayAnswered == Spec => []WaitsAreAnswered
<1>1. Inv => WaitsAreAnswered
    BY DEF Inv
<1> QED
    BY Invariance, <1>1, PTL

\* A refresh that overlaps no other never takes a final outcome back.
THEOREM ReceiptsAdvance == Spec => ReceiptGoesBackOnlyByOverlap
<1> DEFINE GoesBack == /\ receipt.outcome \in {"CONFIRMED", "FAILED"}
                       /\ receipt'.says = "read" /\ receipt'.uid = receipt.uid
                       /\ receipt'.outcome # receipt.outcome
           Overlapped == \E s \in RefreshSlots :
                            refreshes[s].overlaps /\ refreshes'[s] = NoRefresh
<1>1. Inv /\ [Next]_vars => [GoesBack => Overlapped]_vars
  <2> SUFFICES ASSUME Inv, Next, GoesBack PROVE Overlapped
      OBVIOUS
  <2>1. ASSUME NEW s \in RefreshSlots, DeliverReceipt(s) PROVE Overlapped
    <3>1. /\ refreshes[s].stage = "served" /\ RefreshTrue(refreshes[s])
          /\ receipt' = [says |-> "read", uid |-> refreshes[s].uid,
                         outcome |-> refreshes[s].outcome]
          /\ refreshes' = [refreshes EXCEPT ![s] = NoRefresh]
        BY <2>1 DEF DeliverReceipt, Inv, RefreshesTrue
    <3>2. refreshes[s].overlaps
        BY <3>1 DEF RefreshTrue, Final, Inv, TypeOK, Refresh
    <3>3. refreshes'[s] = NoRefresh
        BY <3>1 DEF Inv, TypeOK
    <3> QED
        BY <3>2, <3>3
  <2>2. ASSUME receipt' = receipt \/ receipt'.outcome = receipt.outcome \/ receipt'.says # "read"
        PROVE  Overlapped
      BY <2>2
  <2>3. ASSUME NEW s \in RefreshSlots, FailReceipt(s) \/ RefreshReceipt(s)
        PROVE  receipt'.outcome = receipt.outcome
      BY <2>3 DEF FailReceipt, RefreshReceipt, Inv, TypeOK, Receipt
  <2>4. ASSUME Reload PROVE receipt'.says # "read"
      BY <2>4, RecordFacts DEF Reload
  <2>5. ASSUME ReceiptStep PROVE Overlapped
      BY <2>1, <2>2, <2>3, <2>5 DEF ReceiptStep, ReadStatus, ApplyReconciliation
  <2>6. ASSUME \/ \E panel \in Panels : LoadStep(panel)
               \/ PreflightStep \/ RequestQuote \/ simulatePresignature
        PROVE  receipt' = receipt
      BY <2>6 DEF LoadStep, ServeLoad, DeliverLoad, FailLoad, PreflightStep, QuoteAnswered,
                  SimulationAnswered, SimulationLost, Simulate, RequestQuote, simulatePresignature
  <2>7. ASSUME NEW u \in Uids,
               \/ SubmitPresign(u)
               \/ \E evidence \in {"simulated", "rejected"} : OtherSimulation(u, evidence)
               \/ \E operation \in Operation : OtherGoal(operation, u)
               \/ \E outcome \in {"completed", "failed"} : RemoteEnds(u, outcome)
        PROVE  receipt' = receipt
      BY <2>7 DEF SubmitPresign, OtherSimulation, OtherGoal, RemoteEnds
  <2> QED
      BY <2>2, <2>3, <2>4, <2>5, <2>6, <2>7 DEF Next
<1> QED
    BY Invariance, <1>1, PTL DEF Spec, ReceiptGoesBackOnlyByOverlap

-----------------------------------------------------------------------------
(* The refinement: each order lives the life of the module Authorization.  *)

Says(rows, n, operation, u) ==
    n \in DOMAIN rows /\ rows[n].operation = operation /\ rows[n].uid = u

\* The unique index on the idempotency key: an order has one row of each kind.
Unique(rows) ==
    \A n, m \in DOMAIN rows :
        rows[n].operation = rows[m].operation /\ rows[n].uid = rows[m].uid => n = m

SimulationOf(u) ==
    IF Recorded("presign-simulation", u) THEN RowOf("presign-simulation", u).evidence ELSE "none"

RecordedOf(u) == IF Recorded("presign", u) THEN RowOf("presign", u).state ELSE "none"

OrderStands(u) ==
    /\ SimulationOf(u)' = SimulationOf(u) /\ RecordedOf(u)' = RecordedOf(u)
    /\ remote'[u] = remote[u]

\* The row of an order is the one there is.
LEMMA TheRow ==
    ASSUME NEW rows, Unique(rows), NEW operation, NEW u, NEW n, Says(rows, n, operation, u)
    PROVE  (CHOOSE m \in DOMAIN rows : rows[m].operation = operation /\ rows[m].uid = u) = n
<1> DEFINE m == CHOOSE k \in DOMAIN rows : rows[k].operation = operation /\ rows[k].uid = u
<1>1. m \in DOMAIN rows /\ rows[m].operation = operation /\ rows[m].uid = u
    BY DEF Says
<1> QED
    BY <1>1 DEF Unique, Says

LEMMA TheRowNow ==
    ASSUME Unique(ledger), NEW operation, NEW u, NEW n, Says(ledger, n, operation, u)
    PROVE  Recorded(operation, u) /\ RowOf(operation, u) = ledger[n]
<1>1. (CHOOSE m \in DOMAIN ledger : ledger[m].operation = operation /\ ledger[m].uid = u) = n
    BY TheRow
<1> QED
    BY <1>1 DEF Says, Recorded, RowOf

LEMMA TheRowThen ==
    ASSUME Unique(ledger'), NEW operation, NEW u, NEW n, Says(ledger', n, operation, u)
    PROVE  Recorded(operation, u)' /\ RowOf(operation, u)' = ledger'[n]
<1>1. (CHOOSE m \in DOMAIN ledger' : ledger'[m].operation = operation /\ ledger'[m].uid = u) = n
    BY TheRow
<1> QED
    BY <1>1 DEF Says, Recorded, RowOf

\* An insert leaves every row there was, and writes its own only if there was none.
LEMMA InsertedRow ==
    ASSUME TypeOK, Unique(ledger), NEW row \in Row, Insert(row)
    PROVE  /\ Unique(ledger')
           /\ \A n \in DOMAIN ledger : n \in DOMAIN ledger' /\ ledger'[n] = ledger[n]
           /\ \A n \in DOMAIN ledger' :
                \/ n \in DOMAIN ledger
                \/ ledger'[n] = row /\ ~Recorded(row.operation, row.uid)
<1>1. CASE ledger' = ledger
    BY <1>1
<1>2. CASE ledger' # ledger
  <2>1. /\ ledger \in Seq(Row) /\ ledger' = Append(ledger, row)
        /\ ~Recorded(row.operation, row.uid)
      BY <1>2 DEF Insert, TypeOK
  <2>2. /\ Len(ledger) \in Nat /\ DOMAIN ledger = 1..Len(ledger)
        /\ DOMAIN ledger' = 1..(Len(ledger) + 1)
        /\ \A n \in 1..Len(ledger) : ledger'[n] = ledger[n]
        /\ ledger'[Len(ledger) + 1] = row
      BY <2>1
  <2>3. \A n \in DOMAIN ledger' :
           (n \in DOMAIN ledger /\ ledger'[n] = ledger[n])
           \/ (n = Len(ledger) + 1 /\ ledger'[n] = row)
      BY <2>2
  <2>4. Unique(ledger')
    <3> SUFFICES ASSUME NEW n \in DOMAIN ledger', NEW m \in DOMAIN ledger',
                        ledger'[n].operation = ledger'[m].operation,
                        ledger'[n].uid = ledger'[m].uid
                 PROVE  n = m
        BY DEF Unique
    <3>1. CASE n \in DOMAIN ledger /\ m \in DOMAIN ledger
        BY <2>2, <3>1 DEF Unique
    <3>2. CASE n \notin DOMAIN ledger \/ m \notin DOMAIN ledger
        BY <2>1, <2>2, <2>3, <3>2 DEF Recorded
    <3> QED
        BY <3>1, <3>2
  <2> QED
      BY <2>1, <2>2, <2>3, <2>4
<1> QED
    BY <1>1, <1>2

\* What the rows of each order say after an insert.
LEMMA InsertedOrder ==
    ASSUME TypeOK, Unique(ledger), NEW row \in Row, Insert(row), NEW operation, NEW u
    PROVE  \/ /\ Recorded(operation, u)' /\ Recorded(operation, u)
              /\ RowOf(operation, u)' = RowOf(operation, u)
           \/ ~Recorded(operation, u)' /\ ~Recorded(operation, u)
           \/ /\ operation = row.operation /\ u = row.uid
              /\ ~Recorded(operation, u) /\ Recorded(operation, u)'
              /\ RowOf(operation, u)' = row
<1>0. /\ Unique(ledger')
      /\ \A n \in DOMAIN ledger : n \in DOMAIN ledger' /\ ledger'[n] = ledger[n]
      /\ \A n \in DOMAIN ledger' :
           \/ n \in DOMAIN ledger
           \/ ledger'[n] = row /\ ~Recorded(row.operation, row.uid)
    BY InsertedRow
<1>1. CASE Recorded(operation, u)
  <2>1. PICK n \in DOMAIN ledger : Says(ledger, n, operation, u)
      BY <1>1 DEF Recorded, Says
  <2>2. Says(ledger', n, operation, u) /\ ledger'[n] = ledger[n]
      BY <1>0, <2>1 DEF Says
  <2> QED
      BY <1>0, <1>1, <2>1, <2>2, TheRowNow, TheRowThen
<1>2. CASE ~Recorded(operation, u) /\ Recorded(operation, u)'
  <2>1. PICK n \in DOMAIN ledger' : Says(ledger', n, operation, u)
      BY <1>2 DEF Recorded, Says
  <2>2. n \notin DOMAIN ledger
      BY <1>0, <1>2, <2>1 DEF Recorded, Says
  <2>3. ledger'[n] = row /\ operation = row.operation /\ u = row.uid
      BY <1>0, <2>1, <2>2 DEF Says
  <2> QED
      BY <1>0, <1>2, <2>1, <2>3, TheRowThen
<1> QED
    BY <1>1, <1>2

\* A reconciliation writes the outcome in the submitted row of its order only.
LEMMA ReconciledOrder ==
    ASSUME TypeOK, Unique(ledger), NEW s \in RefreshSlots, ApplyReconciliation(s),
           NEW operation, NEW u
    PROVE  /\ Unique(ledger')
           /\ \/ ~Recorded(operation, u)' /\ ~Recorded(operation, u)
              \/ /\ Recorded(operation, u)' /\ Recorded(operation, u)
                 /\ RowOf(operation, u)' = RowOf(operation, u)
              \/ /\ Recorded(operation, u)' /\ Recorded(operation, u)
                 /\ operation = "presign" /\ u = refreshes[s].uid
                 /\ RowOf(operation, u).state = "SUBMITTED"
                 /\ RowOf(operation, u)'.state = refreshes[s].outcome
<1>1. DOMAIN ledger' = DOMAIN ledger
    BY DEF ApplyReconciliation
<1>2. ASSUME NEW n \in DOMAIN ledger
      PROVE  /\ ledger[n] \in Row
             /\ ledger'[n].operation = ledger[n].operation
             /\ ledger'[n].uid = ledger[n].uid
             /\ \/ ledger'[n] = ledger[n]
                \/ /\ ledger[n].operation = "presign" /\ ledger[n].uid = refreshes[s].uid
                   /\ ledger[n].state = "SUBMITTED"
                   /\ ledger'[n].state = refreshes[s].outcome
  <2>1. ledger[n] \in Row
      BY DEF TypeOK
  <2> QED
      BY <2>1 DEF ApplyReconciliation, Row
<1>3. Unique(ledger')
    BY <1>1, <1>2 DEF Unique
<1>4. CASE Recorded(operation, u)
  <2>1. PICK n \in DOMAIN ledger : Says(ledger, n, operation, u)
      BY <1>4 DEF Recorded, Says
  <2>2. Says(ledger', n, operation, u)
      BY <1>1, <1>2, <2>1 DEF Says
  <2>3. RowOf(operation, u) = ledger[n] /\ RowOf(operation, u)' = ledger'[n]
        /\ Recorded(operation, u)'
      BY <1>3, <2>1, <2>2, TheRowNow, TheRowThen
  <2> QED
      BY <1>2, <1>3, <1>4, <2>1, <2>3 DEF Says
<1>5. CASE ~Recorded(operation, u)
  <2>1. ~Recorded(operation, u)'
      BY <1>1, <1>2, <1>5 DEF Recorded
  <2> QED
      BY <1>3, <1>5, <2>1
<1> QED
    BY <1>4, <1>5

\* The row of an authorization is submitted or tells what has become of it.
LEMMA AuthorizationRow ==
    ASSUME Inv, Unique(ledger), NEW u \in Uids, Recorded("presign", u)
    PROVE  /\ remote[u] # "none"
           /\ RowOf("presign", u).state \in {"SUBMITTED", Reconciled[remote[u]]}
<1>1. PICK n \in DOMAIN ledger : Says(ledger, n, "presign", u)
    BY DEF Recorded, Says
<1>2. RowOf("presign", u) = ledger[n]
    BY <1>1, TheRowNow
<1> QED
    BY <1>1, <1>2 DEF Says, Inv, LedgerTrue

\* The steps that touch the ledger or KeeperHub's executions.
LEMMA WorldSteps ==
    ASSUME Next
    PROVE  \/ UNCHANGED <<ledger, remote>>
           \/ \E u \in Uids, evidence \in {"simulated", "rejected"} :
                OtherSimulation(u, evidence) \/ Simulate(u, evidence)
           \/ \E u \in Uids : SubmitPresign(u)
           \/ \E u \in Uids, operation \in Operation : OtherGoal(operation, u)
           \/ \E u \in Uids, outcome \in {"completed", "failed"} : RemoteEnds(u, outcome)
           \/ \E s \in RefreshSlots : ApplyReconciliation(s)
<1>1. ASSUME NEW panel \in Panels, LoadStep(panel) PROVE UNCHANGED <<ledger, remote>>
    BY <1>1 DEF LoadStep, ServeLoad, DeliverLoad, FailLoad
<1>2. ASSUME QuoteAnswered \/ SimulationAnswered \/ SimulationLost \/ RequestQuote
             \/ simulatePresignature \/ Reload \/ \E s \in RefreshSlots : RefreshReceipt(s)
      PROVE  UNCHANGED <<ledger, remote>>
    BY <1>2 DEF QuoteAnswered, SimulationAnswered, SimulationLost, RequestQuote,
                simulatePresignature, Reload, RefreshReceipt
<1>3. ASSUME NEW s \in RefreshSlots, ReadStatus(s) \/ DeliverReceipt(s) \/ FailReceipt(s)
      PROVE  UNCHANGED <<ledger, remote>>
    BY <1>3 DEF ReadStatus, DeliverReceipt, FailReceipt
<1> QED
    BY <1>1, <1>2, <1>3 DEF Next, PreflightStep, ReceiptStep

LEMMA UniqueKept == ASSUME Inv, Unique(ledger), [Next]_vars PROVE Unique(ledger')
<1> USE DEF Inv
<1>1. ASSUME NEW u \in Uids, NEW evidence \in {"simulated", "rejected"},
             OtherSimulation(u, evidence) \/ Simulate(u, evidence)
      PROVE  Unique(ledger')
  <2>1. SimulationRow(u, evidence) \in Row
      BY DEF SimulationRow, Row, Operation, ExecutionState
  <2> QED
      BY <1>1, <2>1, InsertedRow DEF OtherSimulation, Simulate
<1>2. ASSUME NEW u \in Uids, SubmitPresign(u) PROVE Unique(ledger')
  <2>1. [operation |-> "presign", uid |-> u, evidence |-> "simulated",
         state |-> "SUBMITTED"] \in Row
      BY DEF Row, Operation, ExecutionState
  <2> QED
      BY <1>2, <2>1, InsertedRow DEF SubmitPresign
<1>3. ASSUME NEW s \in RefreshSlots, ApplyReconciliation(s) PROVE Unique(ledger')
    BY <1>3, ReconciledOrder
<1>4. ASSUME NEW u \in Uids, NEW outcome \in {"completed", "failed"}, RemoteEnds(u, outcome)
      PROVE  Unique(ledger')
    BY <1>4 DEF RemoteEnds
<1>5. ASSUME NEW u \in Uids, NEW operation \in Operation, OtherGoal(operation, u)
      PROVE  Unique(ledger')
    BY <1>5 DEF OtherGoal
<1> QED
    BY <1>1, <1>2, <1>3, <1>4, <1>5, WorldSteps DEF vars

\* Every step is a step of the order it is about.
LEMMA OrderMoves ==
    ASSUME Inv, Unique(ledger), Next, NEW u \in Uids
    PROVE  Authorized(u)!Next \/ OrderStands(u)
<1> USE DEF SimulationOf, RecordedOf
<1>0. TypeOK
    BY DEF Inv
<1>1. ASSUME NEW uid \in Uids, NEW evidence \in {"simulated", "rejected"},
             OtherSimulation(uid, evidence) \/ Simulate(uid, evidence)
      PROVE  Authorized(u)!Simulate \/ OrderStands(u)
  <2>1. PICK row \in Row : /\ row = SimulationRow(uid, evidence)
                           /\ row.operation = "presign-simulation"
                           /\ row.evidence = evidence
    <3>1. PICK row : row = SimulationRow(uid, evidence)
        OBVIOUS
    <3>2. /\ row \in Row /\ row.operation = "presign-simulation"
          /\ row.evidence = evidence
        BY <3>1 DEF SimulationRow, Row, Operation, ExecutionState
    <3> QED
        BY <3>1, <3>2
  <2>2. Insert(row) /\ remote' = remote
      BY <1>1, <2>1 DEF OtherSimulation, Simulate
  <2>3. RecordedOf(u)' = RecordedOf(u)
      BY <1>0, <2>1, <2>2, InsertedOrder
  <2>4. \/ SimulationOf(u)' = SimulationOf(u)
        \/ SimulationOf(u) = "none" /\ SimulationOf(u)' = evidence
      BY <1>0, <2>1, <2>2, InsertedOrder
  <2> QED
      BY <2>2, <2>3, <2>4 DEF OrderStands, Authorized!Simulate
<1>2. ASSUME NEW uid \in Uids, SubmitPresign(uid)
      PROVE  Authorized(u)!Submit \/ Authorized(u)!Record \/ OrderStands(u)
  <2>1. PICK row \in Row : /\ row = [operation |-> "presign", uid |-> uid,
                                     evidence |-> "simulated", state |-> "SUBMITTED"]
                           /\ row.operation = "presign" /\ row.uid = uid
                           /\ row.state = "SUBMITTED"
    <3>1. PICK row : row = [operation |-> "presign", uid |-> uid,
                            evidence |-> "simulated", state |-> "SUBMITTED"]
        OBVIOUS
    <3>2. /\ row \in Row /\ row.operation = "presign" /\ row.uid = uid
          /\ row.state = "SUBMITTED"
        BY <3>1 DEF Row, Operation, ExecutionState
    <3> QED
        BY <3>1, <3>2
  <2>2. /\ Insert(row)
        /\ remote' = Started(uid)
      BY <1>2, <2>1 DEF SubmitPresign
  <2>3. SimulationOf(u)' = SimulationOf(u)
      BY <1>0, <2>1, <2>2, InsertedOrder
  <2>4. CASE u # uid
    <3>1. RecordedOf(u)' = RecordedOf(u)
        BY <1>0, <2>1, <2>2, <2>4, InsertedOrder
    <3>2. remote'[u] = remote[u]
        BY <1>0, <2>2, <2>4 DEF Started, TypeOK
    <3> QED
        BY <2>3, <3>1, <3>2 DEF OrderStands
  <2>5. CASE u = uid
    <3>1. remote'[u] = IF remote[u] = "none" THEN "running" ELSE remote[u]
        BY <1>0, <2>2, <2>5 DEF Started, TypeOK
    <3>2. \/ RecordedOf(u)' = RecordedOf(u) /\ Recorded("presign", u)
          \/ ~Recorded("presign", u)' /\ ~Recorded("presign", u)
          \/ RecordedOf(u) = "none" /\ RecordedOf(u)' = "SUBMITTED"
        BY <1>0, <2>1, <2>2, InsertedOrder
    <3>3. CASE ~Recorded("presign", u)' /\ ~Recorded("presign", u)
        BY <2>3, <3>1, <3>3 DEF OrderStands, Authorized!Submit
    <3>4. CASE RecordedOf(u)' = RecordedOf(u) /\ Recorded("presign", u)
      <4>1. remote[u] # "none"
          BY <3>4, AuthorizationRow
      <4> QED
          BY <2>3, <3>1, <3>4, <4>1 DEF OrderStands
    <3>5. CASE RecordedOf(u) = "none" /\ RecordedOf(u)' = "SUBMITTED"
        BY <2>3, <3>1, <3>5 DEF Authorized!Submit, Authorized!Record
    <3> QED
        BY <3>2, <3>3, <3>4, <3>5
  <2> QED
      BY <2>4, <2>5
<1>3. ASSUME NEW uid \in Uids, NEW outcome \in {"completed", "failed"},
             RemoteEnds(uid, outcome)
      PROVE  Authorized(u)!End \/ OrderStands(u)
  <2>1. UNCHANGED ledger
      BY <1>3 DEF RemoteEnds
  <2>2. \/ remote'[u] = remote[u]
        \/ remote[u] = "running" /\ remote'[u] \in {"completed", "failed"}
      BY <1>0, <1>3 DEF RemoteEnds, TypeOK
  <2>3. SimulationOf(u)' = SimulationOf(u) /\ RecordedOf(u)' = RecordedOf(u)
      BY <2>1 DEF Recorded, RowOf
  <2> QED
      BY <2>2, <2>3 DEF OrderStands, Authorized!End
<1>4. ASSUME NEW s \in RefreshSlots, ApplyReconciliation(s)
      PROVE  Authorized(u)!Settle \/ OrderStands(u)
  <2>1. remote' = remote
      BY <1>4 DEF ApplyReconciliation
  <2>2. SimulationOf(u)' = SimulationOf(u)
      BY <1>0, <1>4, ReconciledOrder
  <2>3. \/ RecordedOf(u)' = RecordedOf(u)
        \/ /\ Recorded("presign", u)' /\ Recorded("presign", u)
           /\ u = refreshes[s].uid
           /\ RecordedOf(u) = "SUBMITTED" /\ RecordedOf(u)' = refreshes[s].outcome
      BY <1>0, <1>4, ReconciledOrder
  <2>4. CASE RecordedOf(u)' = RecordedOf(u)
      BY <2>1, <2>2, <2>4 DEF OrderStands
  <2>5. CASE /\ u = refreshes[s].uid /\ RecordedOf(u) = "SUBMITTED"
             /\ RecordedOf(u)' = refreshes[s].outcome
    <3>1. /\ refreshes[s].outcome \in {"SUBMITTED", "CONFIRMED", "FAILED"}
          /\ refreshes[s].outcome \in Final => Reconciled[remote[u]] = refreshes[s].outcome
          /\ remote[u] \in {"none", "running", "completed", "failed"}
        BY <1>4, <2>5 DEF ApplyReconciliation, Inv, RefreshesTrue, RefreshTrue, TypeOK,
                          Refresh, Outcome
    <3>2. CASE refreshes[s].outcome = "SUBMITTED"
        BY <2>1, <2>2, <2>5, <3>2 DEF OrderStands
    <3>3. CASE refreshes[s].outcome = "CONFIRMED"
      <4>1. remote[u] = "completed"
          BY <3>1, <3>3, ReconciledFacts DEF Final
      <4> QED
          BY <2>1, <2>2, <2>5, <3>3, <4>1 DEF Authorized!Settle, Authorized!Outcome
    <3>4. CASE refreshes[s].outcome = "FAILED"
      <4>1. remote[u] = "failed"
          BY <3>1, <3>4, ReconciledFacts DEF Final
      <4> QED
          BY <2>1, <2>2, <2>5, <3>4, <4>1 DEF Authorized!Settle, Authorized!Outcome
    <3> QED
        BY <3>1, <3>2, <3>3, <3>4
  <2> QED
      BY <2>3, <2>4, <2>5
<1>5. ASSUME NEW operation \in Operation, NEW uid \in Uids, OtherGoal(operation, uid)
      PROVE  Authorized(u)!Submit \/ OrderStands(u)
  <2>1. UNCHANGED ledger
      BY <1>5 DEF OtherGoal
  <2>2. \/ remote'[u] = remote[u]
        \/ remote[u] = "none" /\ remote'[u] = "running"
      BY <1>0, <1>5 DEF OtherGoal, Started, TypeOK
  <2>3. SimulationOf(u)' = SimulationOf(u) /\ RecordedOf(u)' = RecordedOf(u)
      BY <2>1 DEF Recorded, RowOf
  <2> QED
      BY <2>2, <2>3 DEF OrderStands, Authorized!Submit
<1>6. ASSUME UNCHANGED <<ledger, remote>> PROVE OrderStands(u)
    BY <1>6 DEF OrderStands, Recorded, RowOf
<1> QED
    BY <1>1, <1>2, <1>3, <1>4, <1>5, <1>6, WorldSteps DEF Authorized!Next

\* The ledger as the page sees it is a ledger of authorizations, like the routes':
\* for every order, whatever simulates, submits and refreshes at once.
THEOREM PageLedgerIsAuthorizations == Spec => OrdersAreAuthorizations
<1>1. Init => Unique(ledger) /\ \A u \in Uids : Authorized(u)!Init
    BY DEF Init, Unique, Authorized!Init, Recorded
<1>2. Inv /\ Unique(ledger) /\ [Next]_vars => Unique(ledger)'
    BY UniqueKept DEF Unique
<1>3. Inv /\ Unique(ledger) /\ [Next]_vars
        => [\A u \in Uids : [Authorized(u)!Next]_(Authorized(u)!state)]_vars
  <2> SUFFICES ASSUME Inv, Unique(ledger), Next, NEW u \in Uids
               PROVE  Authorized(u)!Next \/ UNCHANGED Authorized(u)!state
      OBVIOUS
  <2>1. OrderStands(u) => UNCHANGED Authorized(u)!state
      BY DEF OrderStands, SimulationOf, RecordedOf, Authorized!state
  <2> QED
      BY <2>1, OrderMoves
<1> QED
    BY <1>1, <1>2, <1>3, Invariance, PTL DEF Spec, OrdersAreAuthorizations
=============================================================================
