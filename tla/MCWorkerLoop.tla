----------------------------- MODULE MCWorkerLoop -----------------------------
(* A small instance of WorkerLoop: a task, and a second one that depends on it
   and reuses its asset. *)
EXTENDS WorkerLoop, TLC

CONSTANTS first, second, w1, w2

MCScope == [t \in Task |-> <<t>>]
MCDeps == [t \in Task |-> IF t = second THEN {first} \cap Task ELSE {}]
MCEvidence == [t \in Task |-> NoKey]
MCVisible == [w \in Worker |-> Task]
MCKind == [t \in Task |-> IF t = first THEN "fixed_sample_patch" ELSE "bounded_json"]
MCSource == [t \in Task |-> IF t = second /\ first \in Task THEN first ELSE NoTask]

One == [w \in Worker |-> 0]
Two == [w \in Worker |-> IF w = w2 THEN 1 ELSE 0]

MCStarts == [w \in Worker |-> IF w = w1 THEN 2 ELSE 1]

\* The second worker of the chain starts late and sees the dependent task only.
ChainVisible == [w \in Worker |-> IF w = w1 THEN Task ELSE {second}]
ChainStarts == [w \in Worker |-> IF w = w1 THEN 2 ELSE 1]

MCBounds == {[input |-> 1, output |-> 0, kind |-> "unbounded", cost |-> 0, enforced |-> FALSE]}
MCUsages == {[prompt |-> 1, completion |-> 0]}
MCPolicies == {[priced |-> TRUE, allowance |-> 1, admission |-> TRUE,
                unknownCost |-> FALSE, unknownUsage |-> TRUE]}
=============================================================================
