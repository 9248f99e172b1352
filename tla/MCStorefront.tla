----------------------------- MODULE MCStorefront -----------------------------
(***************************************************************************)
(* A small instance of Storefront for TLC.                                 *)
(***************************************************************************)
EXTENDS StorefrontProperties, TLC

CONSTANTS ann, bob, x, f1, f2

\* Bob's cart has something in it from an earlier visit.
MCCarts == [u \in {ann, bob} |-> [p \in {x} |-> IF u = ann THEN 2 ELSE 1]]

MCSymmetry == Permutations({f1, f2})

=============================================================================
