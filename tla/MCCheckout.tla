------------------------------ MODULE MCCheckout ------------------------------
(***************************************************************************)
(* Small instances of Checkout for TLC.                                    *)
(***************************************************************************)
EXTENDS CheckoutProperties, TLC

CONSTANTS u1, c1, c2, x1, x2, p1, p2

MCOneOwner == [c \in {c1} |-> u1]
MCOwner    == [c \in {c1, c2} |-> u1]

MCSymmetry == Permutations({c1, c2}) \cup Permutations({p1, p2})

=============================================================================
