---------------------------- MODULE Authorization ----------------------------
(***************************************************************************)
(* What the ledger promises about ONE order: its simulation is written     *)
(* down once and for good; its authorization has a row only when KeeperHub *)
(* has its execution, and the row takes that execution's outcome, once,    *)
(* when there is one.  The routes (Executions) are shown to implement this *)
(* for each order, and so are the steps the page of a goal sees the ledger *)
(* take (GoalPage), which are those of the routes grouped more coarsely.   *)
(***************************************************************************)

VARIABLES
    simulation,     \* what the row of the order's simulation says
    recorded,       \* what the row of its authorization says
    execution       \* external: how far KeeperHub's execution of it has come

state == <<simulation, recorded, execution>>

\* What an outcome is called in the ledger.
Outcome == [completed |-> "CONFIRMED", failed |-> "FAILED"]

Init == simulation = "none" /\ recorded = "none" /\ execution = "none"

Simulate ==
    /\ simulation = "none" /\ simulation' \in {"simulated", "rejected"}
    /\ UNCHANGED <<recorded, execution>>

\* KeeperHub starts an execution; whoever asked for it may record it at once.
Submit ==
    /\ execution = "none" /\ execution' = "running"
    /\ recorded' \in {recorded, "SUBMITTED"}
    /\ UNCHANGED simulation

Record ==
    /\ execution # "none" /\ recorded = "none" /\ recorded' = "SUBMITTED"
    /\ UNCHANGED <<simulation, execution>>

End ==
    /\ execution = "running" /\ execution' \in {"completed", "failed"}
    /\ UNCHANGED <<simulation, recorded>>

Settle ==
    /\ recorded = "SUBMITTED" /\ execution \in {"completed", "failed"}
    /\ recorded' = Outcome[execution]
    /\ UNCHANGED <<simulation, execution>>

Next == Simulate \/ Submit \/ Record \/ End \/ Settle

Spec == Init /\ [][Next]_state
=============================================================================
