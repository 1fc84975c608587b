---------------------------- MODULE MCExecutions ----------------------------
(* Two requests; goals of one wallet, one on each network.                 *)
EXTENDS Executions, TLC

CONSTANTS g1, g2, t1, r1, r2

\* Quotes give both goals the same terms, so that they share an order's UID.
SharedTerms == [g \in {g1, g2} |-> {t1}]
MixedGoals == (g1 :> "base-mainnet" @@ g2 :> "ethereum-sepolia")

RequestSymmetry == Permutations(Requests)
=============================================================================
