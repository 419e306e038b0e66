----------------------------- MODULE MCEnrich -----------------------------
(* Bounded instance of Enrich. *)
EXTENDS Enrich
=============================================================================
