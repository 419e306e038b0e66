------------------------------ MODULE MCRuns ------------------------------
(* Bounded instance of Runs; the callers are interchangeable. *)
EXTENDS Runs, TLC

CallerSymmetry == Permutations(Callers)
=============================================================================
