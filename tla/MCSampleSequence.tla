-------------------------- MODULE MCSampleSequence --------------------------
(* Bounded instances of SampleSequence.                                    *)
EXTENDS SampleSequence
=============================================================================
