------------------------------- MODULE MCAdmin -------------------------------
(***************************************************************************)
(* A small instance of Admin for TLC.                                      *)
(***************************************************************************)
EXTENDS AdminProperties, TLC

CONSTANTS A, f1, f2, g1, a1, h1

MCSeed     == [x \in {A} |-> 1]
\* The two keys, the address and a header, take the same part in everything.
MCSymmetry == Permutations({f1, f2}) \cup Permutations({a1, h1})

=============================================================================
