------------------------------- MODULE MCCatalog -------------------------------
(***************************************************************************)
(* Small instances of Catalog for TLC.                                     *)
(***************************************************************************)
EXTENDS CatalogProperties, TLC

CONSTANTS p1, p2, r1, r2, r3, A, B

MCSymmetry == Permutations(Pod) \cup Permutations(Request)

MCSeed == [x \in {A, B} |-> IF x = A THEN 2 ELSE 1]

Take(a, b) ==
    [kind |-> "reserve",
     lines |-> [x \in {A, B} |->
                  [first |-> IF x = A THEN a ELSE b, second |-> 0]]]

MCReservations == {Take(1, 0), Take(1, 1), Take(2, 0)}

\* Two lines for one product, whose stock is 2.
MCTwoLines ==
    [kind |-> "reserve",
     lines |-> [x \in {A, B} |-> IF x = A THEN [first |-> 1, second |-> 2]
                                         ELSE [first |-> 0, second |-> 0]]]

MCAllOperations ==
    {Take(2, 1), MCTwoLines,
     [kind |-> "add", product |-> B, stock |-> -1],
     [kind |-> "patch", product |-> A, stock |-> 2],
     [kind |-> "patch", product |-> A, stock |-> -1],
     [kind |-> "delete", product |-> B],
     [kind |-> "list"]}

=============================================================================
