------------------------- MODULE StorefrontProperties -------------------------
(***************************************************************************)
(* What a user of the storefront may rely on, however they click.          *)
(***************************************************************************)
EXTENDS Storefront, FiniteSetsExt

\* The user the page names, if it names one, is the account of its token, and
\* the user in the path of every call is the account of the call's token,
\* whatever signs in or out while calls are under way, and although a sign-in
\* may bring the token first and the user later, or never: no call is ever
\* refused as another user's (app.js 86-93, 427-439, 441-479).
CallsAreOfOneAccount ==
    /\ session.user # Nobody => session.user = session.token
    /\ \A f \in Flow :
         flow[f] # Idle /\ flow[f].call.kind # "sign in" =>
             flow[f].call.user = flow[f].call.token

CartOf(u) == IF u = Nobody THEN Empty ELSE cart[u]

\* For a user who lets one handler end before the next click, and unless a call
\* fails, the cart page shows the cart, and the drawer what its button orders;
\* and after a failure asking for the cart again repairs it (app.js 285-362,
\* 528-614).
PageIsCurrent ==
    AtRest /\ calm =>
        /\ page = "cart" => shown = CartOf(session.user)
        /\ drawer => summary = CartOf(session.user)

-----------------------------------------------------------------------------

\* A change of quantity between its two calls: the item is out of the cart.
Between(f) ==
    /\ flow[f] # Idle
    /\ flow[f].kind = "change" /\ flow[f].quantity > 0
    /\ \/ flow[f].call.kind = "remove" /\ flow[f].call.at = "ok"
       \/ flow[f].call.kind = "add" /\ flow[f].call.at \in {"sent", "read"}

Changing(u, p) ==
    {f \in Flow : Between(f) /\ flow[f].user = u /\ flow[f].product = p}

\* What changes under way have taken out, by the number they have seen.
TakenOut(u, p) ==
    IF Changing(u, p) = {} THEN 0
    ELSE MapThenSumSet(LAMBDA f : flow[f].from, Changing(u, p))

Done(h) == /\ h.call.at = "ok"
           /\ h.kind = "change" /\ h.quantity > 0 => h.call.kind = "add"

Basket == INSTANCE AtomicBasket WITH
    basket <- [u \in User |-> [p \in Product |->
                 cart[u][p] + TakenOut(u, p)]],
    click  <- [f \in Flow |->
                 LET h == flow[f] IN
                 IF h = Idle THEN [state |-> "none"]
                 ELSE IF \/ h.kind = "sign in" \/ h.call.at = "refused"
                         \/ h.todo[1] \in {"count", "read"}
                   THEN [state |-> "none"]
                 ELSE [state |-> IF Done(h) THEN "done" ELSE "pressed",
                       kind |-> h.kind, user |-> h.user, product |-> h.product,
                       from |-> h.from, quantity |-> h.quantity,
                       ordered |-> IF h.kind = "order" /\ Done(h)
                                     THEN h.call.items ELSE Empty]]

\* The handlers whose call is saved in this step.
Saving == {f \in Flow : /\ flow[f] # Idle /\ flow[f].call.at \in {"sent", "read"}
                        /\ flow'[f] # Idle /\ flow'[f].call.at = "ok"}

\* What the promise does not cover.  The cart was saved by another call since
\* this one read it; a row showed another number than the cart has; an item is
\* removed or ordered while another handler is changing its quantity;
Clash == \E f \in Saving : /\ flow[f].call.at = "read"
                           /\ flow[f].call.items # cart[flow[f].call.user]
OldNumber == \E f \in Saving :
    /\ flow[f].kind = "change" /\ flow[f].call.kind = "remove"
    /\ flow[f].call.items[flow[f].product] # flow[f].from
Overlap == \E f \in Saving, g \in Flow :
    /\ flow[f].kind \in {"remove", "clear", "order"} /\ Between(g)
    /\ flow[g].user = flow[f].user
\* a change of quantity ends between its calls, because the second fails or
\* nobody is signed in any more, or goes on in the cart of another user; and a
\* service goes on with what the browser has given up.
CutOff  == \E f \in Flow : /\ Between(f)
                           /\ (flow'[f] = Idle \/ flow'[f].call.at = "refused")
Another == \E f \in Saving : flow[f].call.user # flow[f].user
Late    == late' # late /\ cart' # cart

\* Every other step changes nothing of a basket or is one of the atomic basket:
\* handlers that overlap, fail, or outlive their session change a basket by
\* whole clicks, each at most once, and an order is for all that the basket had
\* in it (app.js 152-171, 285-335, 528-573, 592-614).
ImplementsAtomicBasket ==
    [][ \/ UNCHANGED <<cart, flow>> \/ UNCHANGED Basket!basketVars
        \/ Clash \/ OldNumber \/ Overlap \/ CutOff \/ Another \/ Late
        \/ Basket!BasketNext ]_vars

=============================================================================
