---------------------------- MODULE MCChWriter ----------------------------
(* A bounded instance of ChWriter.                                         *)
EXTENDS ChWriter
=============================================================================
