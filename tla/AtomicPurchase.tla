--------------------------- MODULE AtomicPurchase ---------------------------
(***************************************************************************)
(* What a checkout promises: at one point the whole cart of its user       *)
(* becomes an order, its items leave the stock and the cart is empty; or   *)
(* it is refused with reason, or fails, and nothing happens.               *)
(***************************************************************************)
EXTENDS Naturals, FiniteSets

CONSTANTS User, Checkout, Unit, Malformed, Owner, Stock

VARIABLES
    signedIn,  \* the users with a session
    hasEmail,  \* the users an invoice can be sent to, for good
    unused,    \* items not put in a cart yet
    carts,     \* what each user has put in the cart
    left,      \* how much stock is left
    bought,    \* the items of each checkout's order, {} when it has none
    outcome    \* how each checkout ended: "open" until then

purchaseVars == <<signedIn, hasEmail, unused, carts, left, bought, outcome>>

PurchaseInit ==
    /\ signedIn = User /\ hasEmail \in SUBSET User
    /\ unused = Unit
    /\ carts = [u \in User |-> {}]
    /\ left = Stock
    /\ bought = [c \in Checkout |-> {}]
    /\ outcome = [c \in Checkout |-> "open"]

Sign(u) ==
    /\ signedIn' \in {signedIn \ {u}, signedIn \cup {u}}
    /\ UNCHANGED <<hasEmail, unused, carts, left, bought, outcome>>

Add(u, x) ==
    /\ x \in unused
    /\ unused' = unused \ {x}
    /\ carts' = [carts EXCEPT ![u] = @ \cup {x}]
    /\ UNCHANGED <<signedIn, hasEmail, left, bought, outcome>>

Buy(c) ==
    LET items == carts[Owner[c]] IN
    /\ outcome[c] = "open"
    /\ Owner[c] \in hasEmail
    /\ items # {} /\ items \cap Malformed = {} /\ Cardinality(items) <= left
    /\ left' = left - Cardinality(items)
    /\ bought' = [bought EXCEPT ![c] = items]
    /\ carts' = [carts EXCEPT ![Owner[c]] = {}]
    /\ outcome' = [outcome EXCEPT ![c] = "bought"]
    /\ UNCHANGED <<signedIn, hasEmail, unused>>

\* There is nothing to buy, not enough of it or something that cannot be
\* bought, or nobody to buy it or to invoice.
Refuse(c) ==
    LET items == carts[Owner[c]] IN
    /\ outcome[c] = "open"
    /\ \/ items = {} \/ items \cap Malformed # {} \/ Cardinality(items) > left
       \/ Owner[c] \notin signedIn \cap hasEmail
    /\ outcome' = [outcome EXCEPT ![c] = "refused"]
    /\ UNCHANGED <<signedIn, hasEmail, unused, carts, left, bought>>

\* A call fails or its answer is lost, or a process ends with all its checkouts.
Fail(gone) ==
    /\ \A c \in gone : outcome[c] \in {"open", "refused"}
    /\ outcome' = [c \in Checkout |->
                     IF c \in gone THEN "failed" ELSE outcome[c]]
    /\ UNCHANGED <<signedIn, hasEmail, unused, carts, left, bought>>

PurchaseNext ==
    \/ \E u \in User : Sign(u) \/ \E x \in Unit : Add(u, x)
    \/ \E c \in Checkout : Buy(c) \/ Refuse(c)
    \/ \E gone \in SUBSET Checkout : Fail(gone)

PurchaseSpec == PurchaseInit /\ [][PurchaseNext]_purchaseVars

=============================================================================
