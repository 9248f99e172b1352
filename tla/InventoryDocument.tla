-------------------------- MODULE InventoryDocument --------------------------
(***************************************************************************)
(* The catalog keeps its whole inventory as one document: an array of      *)
(* products, held in the memory of a pod or serialised under one Redis     *)
(* key.  This module has the document and what each HTTP operation does to *)
(* it, as pure operators; Catalog says when they run and on which copy,    *)
(* AtomicInventory what they would amount to if each one were atomic.      *)
(*                                                                         *)
(* Of a product only its presence in the array and its stock are kept: no  *)
(* handler branches on a name, a price or a category.                      *)
(***************************************************************************)
EXTENDS Integers, FiniteSets

CONSTANTS
    Product,    \* product ids, as the reservation handler trims them
    Request,    \* HTTP requests, each sent at most once
    Operation,  \* what the clients of a run ask for
    SeedStock   \* the stock of data/products.js

\* A reservation is an array of lines.  Several lines may name one product
\* (their ids are trimmed only here, a cart merges its lines untrimmed): it is
\* enough to have two.  Quantity 0 stands for a line that is not there, since
\* the handler refuses a quantity that is not a positive integer.
Lines       == [Product -> [first: Nat, second: Nat]]
Reservation == [kind: {"reserve"}, lines: Lines]
Addition    == [kind: {"add"}, product: Product, stock: Int]
Correction  == [kind: {"patch"}, product: Product, stock: Int]
Removal     == [kind: {"delete"}, product: Product]
Listing     == [kind: {"list"}]

ASSUME OperationAssumption ==
    Operation \subseteq
        (Reservation \cup Addition \cup Correction \cup Removal \cup Listing)

ASSUME SeedAssumption == SeedStock \in [Product -> Nat]

\* "writes" is a history field: the requests whose effect this copy of the
\* document has in it.  No action of the program reads it.
Document ==
    [listed: SUBSET Product, stock: [Product -> Int], writes: SUBSET Request]

Seed == [listed |-> Product, stock |-> SeedStock, writes |-> {}]

-----------------------------------------------------------------------------

Quantity(op, p) == op.lines[p].first + op.lines[p].second

\* The checks that answer 400 before the inventory is loaded.
WellFormed(op) ==
    /\ op.kind = "reserve" => \E p \in Product : Quantity(op, p) > 0
    /\ op.kind = "patch"   => op.stock >= 0

\* Each line is compared with the stock on its own.
Covers(doc, p, quantity) ==
    quantity > 0 => p \in doc.listed /\ doc.stock[p] >= quantity

\* Mutant: only asks that the product exists.
InStockListed(op, doc) ==
    \A p \in Product : Quantity(op, p) > 0 => p \in doc.listed

InStock(op, doc) ==
    \A p \in Product : /\ Covers(doc, p, op.lines[p].first)
                       /\ Covers(doc, p, op.lines[p].second)

\* The checks on the loaded inventory that answer 404 or 409.
Accepts(op, doc) ==
    /\ op.kind = "reserve"             => InStock(op, doc)
    /\ op.kind = "add"                 => op.product \notin doc.listed
    /\ op.kind \in {"patch", "delete"} => op.product \in doc.listed

\* A listing changes nothing and saves nothing.
Mutates(op) == op.kind # "list"

-----------------------------------------------------------------------------

\* Mutant: takes one off, whatever the quantity.
DecrementByOne(op, doc) ==
    [doc EXCEPT !.stock = [p \in Product |->
        IF Quantity(op, p) > 0 THEN doc.stock[p] - 1 ELSE doc.stock[p]]]

\* All the lines of a product are taken off, one after the other.
Decrement(op, doc) ==
    [doc EXCEPT !.stock = [p \in Product |-> doc.stock[p] - Quantity(op, p)]]

AddProduct(op, doc) ==
    [doc EXCEPT !.listed = @ \cup {op.product},
                !.stock[op.product] = op.stock]

SetStock(op, doc) ==
    [doc EXCEPT !.stock[op.product] = op.stock]

\* A product that is not listed has no stock: its entry is kept at 0.
RemoveProduct(op, doc) ==
    [doc EXCEPT !.listed = @ \ {op.product},
                !.stock[op.product] = 0]

Mutation(op, doc) ==
    CASE op.kind = "reserve" -> Decrement(op, doc)
      [] op.kind = "add"     -> AddProduct(op, doc)
      [] op.kind = "patch"   -> SetStock(op, doc)
      [] op.kind = "delete"  -> RemoveProduct(op, doc)
      [] OTHER               -> doc

\* The document a handler saves: the loaded one with the request's effect.
Updated(r, op, doc) ==
    [Mutation(op, doc) EXCEPT !.writes = @ \cup {r}]

=============================================================================
