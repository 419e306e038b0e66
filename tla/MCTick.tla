------------------------------ MODULE MCTick ------------------------------
(* Bounded instance of Tick. *)
EXTENDS Tick
=============================================================================
