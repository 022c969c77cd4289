---------------------------- MODULE MCSharedBreaker ----------------------------
(* Small instances of SharedBreaker, which reads failure facts, and of FactStore,
   the file that keeps them.  The breaker sees the file as a sequence of records,
   so the two share no variable: a behaviour is one of either, by part. *)
EXTENDS SharedBreaker, FactStore, TLC

VARIABLE part

MCInit == part \in {"breaker", "store"} /\ Init /\ FactsInit

BreakerPart == part = "breaker" /\ Next /\ UNCHANGED <<factVars, part>>
StorePart == part = "store" /\ FactsNext /\ UNCHANGED <<vars, part>>

MCSpec == MCInit /\ [][BreakerPart \/ StorePart]_<<vars, factVars, part>>

MCSymmetry == Permutations(Worker)
=============================================================================
