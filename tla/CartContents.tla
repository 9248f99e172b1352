---------------------------- MODULE CartContents ----------------------------
(***************************************************************************)
(* One user's cart and what the cart service's operations do to it.  The   *)
(* carts of different users are under different keys and do not interact.  *)
(***************************************************************************)
EXTENDS Naturals

CONSTANTS
    Product,    \* product ids, compared as the exact strings a client sent
    Request,    \* HTTP requests that have passed requireAuth, sent once each
    Operation,  \* what the user asks for
    AtFirst     \* carts that Redis may have from earlier on

Adding   == [kind: {"add"}, product: Product, quantity: Nat \ {0}]
Removing == [kind: {"remove"}, product: Product]
Other    == [kind: {"read", "clear"}]

ASSUME OperationAssumption ==
    Operation \subseteq (Adding \cup Removing \cup Other)

\* The array of {productId, quantity}: at most one entry for a product, an
\* absent one has quantity 0.
Cart  == [Product -> Nat]
Empty == [p \in Product |-> 0]

ASSUME AtFirstAssumption == AtFirst \subseteq Cart

\* A removal of what is not there is answered 404.
Allows(op, cart) == op.kind = "remove" => cart[op.product] > 0

Effect(op, cart) ==
    CASE op.kind = "add"    -> [cart EXCEPT ![op.product] = @ + op.quantity]
      [] op.kind = "remove" -> [cart EXCEPT ![op.product] = 0]
      [] op.kind = "clear"  -> Empty
      [] OTHER              -> cart

=============================================================================
