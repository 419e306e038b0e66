--------------------------- MODULE MCSupervisor ---------------------------
(* Bounded instances of Supervisor.  The handlers are interchangeable, and *)
(* so are the identities of worker goroutines.                             *)
EXTENDS Supervisor, TLC

ThreadSymmetry == Permutations(Callers) \cup Permutations(Workers)
=============================================================================
