------------------------------- MODULE GoInt -------------------------------
(***************************************************************************)
(* What the sequential parts of the program share: integers of a fixed     *)
(* width, and the absent value (a nil pointer, a JSON field left out, a    *)
(* NULL column).                                                           *)
(***************************************************************************)
EXTENDS Integers

CONSTANTS MinInt, MaxInt,   \* the least and the greatest int
          Nil

ASSUME GoIntAssumption == MaxInt \in Nat \ {0} /\ MinInt = -(MaxInt + 1) /\ Nil \notin Int

\* The arithmetic of int wraps around.
Wrap(n) == ((n - MinInt) % (MaxInt - MinInt + 1)) + MinInt
=============================================================================
