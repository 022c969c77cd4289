----------------------------- MODULE MCTaskLedger -----------------------------
(* Small instances of TaskLedger: a directory task with a child inside it,
   and a sibling that depends on the child. *)
EXTENDS TaskLedger

CONSTANTS dir, child, later, w1, w2

MCScope == [t \in Task |-> CASE t = dir -> <<"repo", "a">>
                             [] t = child -> <<"repo", "a", "b">>
                             [] OTHER -> <<"repo", "c">>]
MCDeps == [t \in Task |-> IF t = later THEN {child} \cap Task ELSE {}]
MCDerived == {later} \cap Task
MCEvidence == [t \in Task |-> NoKey]
MCVisible == [w \in Worker |-> Task]

\* Each worker is authorised for one side of the overlap.
SplitVisible == [w \in Worker |-> IF w = w1 THEN {dir, later} ELSE {child}]

MCSymmetry == Permutations(Worker) \cup Permutations(Result)
                  \cup Permutations(Request)

\* The workspace of dir is the root of the file system.
RootScope == [t \in Task |-> IF t = dir THEN <<>> ELSE <<"a">>]
=============================================================================
