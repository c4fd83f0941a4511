--------------------------- MODULE MCRunScheduler ---------------------------
(* Graphs for TLC to run RunScheduler on.                                  *)
EXTENDS RunScheduler, TLC

Edge(t, up, type) == [task |-> t, on |-> up, type |-> type]

\* 2 needs the data of 1 and another pipeline; 3 starts a child run once 1
\* succeeded and 2 failed, which a repetition of 2 undoes.
BranchEdges == {Edge(2, 1, "HAS_DATA"), Edge(3, 1, "SUCCESS"), Edge(3, 2, "FAILURE")}
BranchCondition == (1 :> "ANY") @@ (2 :> "N") @@ (3 :> "ALL")
BranchCount == (1 :> 0) @@ (2 :> 2) @@ (3 :> 0)
BranchRetries == (1 :> 1) @@ (2 :> 0) @@ (3 :> 0)

\* Two unrelated tasks without retries.
NoEdges == {}
PairCondition == [t \in 1..2 |-> "ALL"]
PairZero == [t \in 1..2 |-> 0]
=============================================================================
