-------------------------------- MODULE MCAuth --------------------------------
(***************************************************************************)
(* Small instances of Auth for TLC.                                        *)
(***************************************************************************)
EXTENDS AuthProperties, TLC

CONSTANTS p1, p2, e1, r1, r2, t1, l1

MCSymmetry == Permutations({p1, p2}) \cup Permutations({r1, r2})

=============================================================================
