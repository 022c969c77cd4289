--------------------------- MODULE MCResearchTasks ---------------------------
(* Small instances of the research service. ResearchTasks: one task whose agent
   publishes a candidate, and one in which another agent reproduces it.
   ResearchRecords: two members who write the records of their project.
   LearnedField: two workers and a host who learn from completed tasks. The
   three share no variable, and proposals, reviews and corrections none among each
   other: a behaviour is one of the five, by part. *)
EXTENDS ResearchTasks, ResearchRecords, LearnedField, TLC

CONSTANTS origin, repro, w1, w2, c1, c2
CONSTANTS f0, f1, f2, f3, small, large

MCScope == [t \in Task |-> <<"src">>]
MCDeps == [t \in Task |-> IF t = repro THEN {origin} ELSE {}]
MCEvidence == [t \in Task |-> NoKey]
MCVisible == [w \in Worker |-> IF w = w1 THEN {origin} ELSE {repro}]
MCHost == [c \in Caller |-> IF c = c1 THEN w1 ELSE w2]
MCOutcomes == {[verdict |-> "passed", known |-> TRUE], [verdict |-> "passed", known |-> FALSE]}
MCBounds == {[input |-> 1, output |-> 0, kind |-> "unbounded", cost |-> 0, enforced |-> FALSE]}
MCUsages == {[prompt |-> 1, completion |-> 0]}
MCPolicies == {[priced |-> TRUE, allowance |-> 1, admission |-> TRUE,
                unknownCost |-> FALSE, unknownUsage |-> TRUE]}

\* The members work in two workspaces. w1 reproduces (f1) what w2 found (f0), and w2
\* does so itself, twice (f2, f3), the three from one source; w1 keeps one branch,
\* and both keep the other.
MCWorkspace == [m \in Member |-> m]
MCAuthor == [f \in Fact |-> IF f = f1 THEN w1 ELSE w2]
MCSubject == [f \in Fact |-> "candidate"]
MCSource == [f \in Fact |-> IF f = f0 THEN "idea" ELSE "paper"]
MCRole == [f \in Fact |-> IF f = f0 THEN "original" ELSE "reproduction"]
MCConclusion == [f \in Fact |-> "supported"]
MCKeepers == [b \in Branch |-> IF b = small THEN {w1} ELSE {w1, w2}]

VARIABLE part

Parts == {"tasks", "proposals", "reviews", "corrections", "field"}
MCInit == part \in Parts /\ Init /\ RecordsInit /\ FieldInit

InRecords(A) == A /\ UNCHANGED <<vars, fieldVars, part>>

TasksPart == part = "tasks" /\ Next /\ UNCHANGED <<recordVars, fieldVars, part>>
ProposalsPart == part = "proposals" /\ InRecords(\E m \in Member : ProposeNext(m) \/ CallLost(m))
ReviewsPart == part = "reviews" /\ InRecords(\E m \in Member : ReviewNext(m) \/ CallLost(m))
CorrectionsPart == part = "corrections" /\ InRecords(\E m \in Member : CorrectNext(m) \/ CallLost(m))
FieldPart == part = "field" /\ FieldNext /\ UNCHANGED <<vars, recordVars, part>>

MCNext == TasksPart \/ ProposalsPart \/ ReviewsPart \/ CorrectionsPart \/ FieldPart

MCSpec == MCInit /\ [][MCNext]_<<vars, recordVars, fieldVars, part>>
=============================================================================
