------------------------------ MODULE MCCanary ------------------------------
(* Two open pages, and room for KeeperHub to run the ping twice.           *)
EXTENDS Canary, TLC

CONSTANTS p1, p2, e1, e2

CanarySymmetry == Permutations(Pages) \cup Permutations(Executions)
=============================================================================
