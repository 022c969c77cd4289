---------------------------- MODULE MCBudgetLedger ----------------------------
(* Small instances of BudgetLedger: one cheap and one dear request shape, and
   providers that report less, exactly, or more than they agreed to. *)
EXTENDS BudgetLedger, TLC

MCBounds == {[input |-> 1, output |-> 1, kind |-> "verified", cost |-> 3, enforced |-> TRUE],
             [input |-> 1, output |-> 0, kind |-> "unbounded", cost |-> 0, enforced |-> FALSE]}

MCUsages == {[prompt |-> 1, completion |-> 0], [prompt |-> 1, completion |-> 1],
             [prompt |-> 1, completion |-> 3]}

\* The default policy with prices, and with the allowance an operator adds.
PricedPolicy == [priced |-> TRUE, allowance |-> 0, admission |-> TRUE,
                 unknownCost |-> FALSE, unknownUsage |-> FALSE]
DefaultPolicies == {PricedPolicy}

\* Without prices, every request stays uncosted; without admission control the
\* ceiling only stops the swarm after the fact.
MCPolicies ==
    {[PricedPolicy EXCEPT !.allowance = 2],
     [PricedPolicy EXCEPT !.admission = FALSE, !.unknownUsage = TRUE],
     [PricedPolicy EXCEPT !.priced = FALSE, !.allowance = 3],
     [PricedPolicy EXCEPT !.priced = FALSE, !.allowance = 3, !.unknownCost = TRUE]}

MCSymmetry == Permutations(Task) \cup Permutations(Worker) \cup Permutations(Request)
=============================================================================
