-------------------------------- MODULE MCCart --------------------------------
(***************************************************************************)
(* Small instances of CartService for TLC.                                 *)
(***************************************************************************)
EXTENDS CartProperties

CONSTANTS p1, p2, r1, r2, A, B

MCAtFirst == {[x \in {A, B} |-> 0], [x \in {A, B} |-> IF x = A THEN 1 ELSE 0]}

MCOperations ==
    {[kind |-> "add", product |-> A, quantity |-> 1],
     [kind |-> "add", product |-> B, quantity |-> 2],
     [kind |-> "remove", product |-> A],
     [kind |-> "clear"],
     [kind |-> "read"]}

MCWrites ==
    {[kind |-> "add", product |-> A, quantity |-> 1],
     [kind |-> "remove", product |-> A]}

=============================================================================
