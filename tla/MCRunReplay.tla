---------------------------- MODULE MCRunReplay ----------------------------
(* A small instance of RunReplay: two processes over one run. *)
EXTENDS RunReplay, TLC

Symmetric == Permutations(Process) \cup Permutations(Gene)
=============================================================================
