------------------------------ MODULE FencedLocks ------------------------------
(***************************************************************************)
(* What the ledger promises its workers, with the table, the clock and the *)
(* transactions left out: a lock per task, numbered generations, and no    *)
(* two held locks whose scopes collide.                                    *)
(***************************************************************************)
EXTENDS Naturals

CONSTANTS Task, Collide(_, _)

VARIABLES
    issued,     \* issued[t]: how many generations of t have been granted
    held        \* held[t]: the generation that holds t now, 0 when none does

lockVars == <<issued, held>>

LocksInit ==
    /\ issued = [t \in Task |-> 0]
    /\ held = [t \in Task |-> 0]

\* A free task is granted to a generation never seen before.
Acquire(t) ==
    /\ held[t] = 0
    /\ \A c \in Task \ {t} : Collide(c, t) => held[c] = 0
    /\ issued' = [issued EXCEPT ![t] = @ + 1]
    /\ held' = [held EXCEPT ![t] = issued[t] + 1]

\* Holders give up, finish or run out of time, several at once when they
\* share a deadline.
Vacate(S) ==
    /\ held' = [t \in Task |-> IF t \in S THEN 0 ELSE held[t]]
    /\ UNCHANGED issued

LocksNext ==
    \/ \E t \in Task : Acquire(t)
    \/ \E S \in SUBSET Task : Vacate(S)

LocksSpec == LocksInit /\ [][LocksNext]_lockVars
=============================================================================
