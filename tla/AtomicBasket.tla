----------------------------- MODULE AtomicBasket -----------------------------
(***************************************************************************)
(* What the buttons of the storefront promise: each click changes the      *)
(* basket of the user who made it at one point, or not at all.             *)
(***************************************************************************)
EXTENDS Naturals

CONSTANTS User, Product, Flow

VARIABLES
    basket,  \* the basket of each user
    click    \* the click of each handler until it has been answered

basketVars == <<basket, click>>

NoClick == [state |-> "none"]
Changed(b, p, n) == [b EXCEPT ![p] = n]
Nothing == [p \in Product |-> 0]

Press(f) ==
    /\ click[f] = NoClick
    /\ click'[f].state = "pressed"
    /\ click' = [click EXCEPT ![f] = click'[f]]
    /\ UNCHANGED basket

\* What a click makes of a basket; for a click on "+" or "-" the difference
\* between the number it has seen and the number it asks for.
Result(c, b) ==
    CASE c.kind \in {"quick add", "add item"} ->
           Changed(b, c.product, b[c.product] + c.quantity)
      [] c.kind = "change" ->
           Changed(b, c.product, (b[c.product] + c.quantity) - c.from)
      [] c.kind = "remove" -> Changed(b, c.product, 0)
      [] c.kind \in {"clear", "order"} -> Nothing

\* An order is for what was in the basket.
TakeEffect(f) ==
    LET c == click[f] IN
    /\ c.state = "pressed"
    /\ basket' = [basket EXCEPT ![c.user] = Result(c, @)]
    /\ click' = [click EXCEPT ![f].state = "done",
                              ![f].ordered = IF c.kind = "order"
                                               THEN basket[c.user] ELSE Nothing]

\* The handler is told of the effect, or of an error.
Leave(f) ==
    /\ click[f] # NoClick
    /\ click' = [click EXCEPT ![f] = NoClick]
    /\ UNCHANGED basket

BasketNext == \E f \in Flow : Press(f) \/ TakeEffect(f) \/ Leave(f)

=============================================================================
