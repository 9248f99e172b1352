------------------------------ MODULE Storefront ------------------------------
(***************************************************************************)
(* The storefront in one browser: its session, the pages it shows, and the *)
(* handlers of its buttons, which await their calls one after the other    *)
(* while the user goes on clicking.  No button is disabled meanwhile, and  *)
(* a handler reads the session again for each of its calls.                *)
(*                                                                         *)
(* The calls reach the cart and checkout services, modelled here by the    *)
(* two steps of their handlers that matter to a cart: it is loaded, and    *)
(* later saved as a whole.  Products are loaded before the cart is shown,  *)
(* the number on the cart button and the messages are left out.            *)
(***************************************************************************)
EXTENDS Sequences, Naturals

CONSTANTS
    User,       \* customers with an account
    Nobody,     \* no account
    Product,
    CartsAtFirst,
    Flow,       \* handlers that are under way at once
    MaxClicks,  \* bound: clicks that start a handler
    MaxFaults   \* bound: calls that fail or are given up

INSTANCE CartContents WITH Request <- {}, Operation <- {}, AtFirst <- {}

ASSUME UserAssumption  == Nobody \notin User
ASSUME CartsAssumption == CartsAtFirst \in [User -> Cart]
ASSUME BoundAssumption == MaxClicks \in Nat /\ MaxFaults \in Nat

VARIABLES
    session,  \* session.user and session.accessToken, by whose they are; the
              \* token comes first where the answer to a sign-in has no user
    page,     \* the page shown
    shown,    \* the cart in cartList
    summary,  \* the cart in checkoutSummary
    drawer,   \* whether the checkout drawer is open
    flow,     \* the handlers under way
    cart,     \* the carts at the cart service
    late,     \* calls the browser has given up, and a service has not
    clicks, faults,
    calm      \* history: since the cart was last asked for, with nothing else
              \* under way, one handler ran at a time and no call failed

browser == <<session, page, shown, summary, drawer>>
vars    == <<browser, flow, cart, late, clicks, faults, calm>>

\* "home" stands for the forms to sign in and to register too.
Page == {"home", "catalog", "cart", "thank-you"}
Kind == {"quick add", "add item", "change", "remove", "clear", "view",
         "check out", "order", "sign in"}

\* Mutant: a change of quantity does not remove the item first.
ChangeCallsAddOnly(kind, quantity) ==
    CASE kind \in {"quick add", "add item", "change"} -> <<"add">>
      [] kind \in {"remove", "clear", "order"}         -> <<kind>>
      [] kind = "sign in"                             -> <<"sign in", "me">>
      [] OTHER                                        -> <<>>

ChangeCalls(kind, quantity) ==
    CASE kind \in {"quick add", "add item"}   -> <<"add">>
      [] kind = "change" /\ quantity > 0      -> <<"remove", "add">>
      [] kind = "change" /\ quantity = 0      -> <<"remove">>
      [] kind \in {"remove", "clear", "order"} -> <<kind>>
      [] kind = "sign in"                     -> <<"sign in", "me">>
      [] OTHER                                -> <<>>

\* Mutant: a change leaves the list as it was drawn.
RefreshCallsNoList(kind) ==
    CASE kind = "sign in"               -> <<>>
      [] kind \in {"view", "check out"} -> <<"read">>
      [] OTHER                          -> <<"count">>

RefreshCalls(kind) ==
    CASE kind = "sign in"               -> <<>>
      [] kind = "quick add"             -> <<"count">>
      [] kind \in {"view", "check out"} -> <<"read">>
      [] OTHER                          -> <<"count", "read">>

\* The calls of a handler, in their order.  "count" is updateCartCount.
Calls(kind, quantity) == ChangeCalls(kind, quantity) \o RefreshCalls(kind)

CallKind == {"add", "remove", "clear", "order", "read", "count", "sign in", "me"}
Call == [kind: CallKind, user: User, token: User \cup {Nobody},
         product: Product, quantity: Nat, items: Cart,
         at: {"sent", "read", "ok", "refused"}]
Idle == [kind |-> "none"]

\* user, product, from and quantity are those of the click; from is the
\* number that was shown.
Handler == [kind: Kind, user: User, product: Product, from: Nat, quantity: Nat,
            todo: Seq(CallKind), call: Call]

TypeOK ==
    /\ session \in [user: User \cup {Nobody}, token: User \cup {Nobody}]
    /\ page \in Page /\ drawer \in BOOLEAN /\ calm \in BOOLEAN
    /\ shown \in Cart /\ summary \in Cart
    /\ flow \in [Flow -> Handler \cup {Idle}]
    /\ cart \in [User -> Cart]
    /\ late \subseteq Call
    /\ clicks \in 0..MaxClicks /\ faults \in 0..MaxFaults

SignedOut == [user |-> Nobody, token |-> Nobody]

Init ==
    /\ session = SignedOut
    /\ page = "home" /\ drawer = FALSE
    /\ shown = Empty /\ summary = Empty
    /\ flow = [f \in Flow |-> Idle]
    /\ cart = CartsAtFirst
    /\ late = {}
    /\ clicks = 0 /\ faults = 0
    /\ calm = TRUE

AtRest == late = {} /\ \A f \in Flow : flow[f] = Idle

-----------------------------------------------------------------------------
(* Handlers.                                                               *)

\* request: the path and the header are made from the session of the moment;
\* that of "me" is made from the token alone.
Request(kind, h, s) ==
    [kind |-> kind,
     user |-> CASE kind = "sign in" -> h.user
                [] kind = "me"      -> s.token
                [] OTHER            -> s.user,
     token |-> s.token, product |-> h.product, quantity |-> h.quantity,
     items |-> Empty, at |-> "sent"]

\* Mutant: does not look whether somebody is signed in.
GoOnAnyway(f, h, todo, s) ==
    IF todo = <<>>
      THEN flow' = [flow EXCEPT ![f] = Idle]
      ELSE flow' = [flow EXCEPT ![f] =
             [kind |-> h.kind, user |-> h.user, product |-> h.product,
              from |-> h.from, quantity |-> h.quantity,
              todo |-> todo, call |-> Request(todo[1], h, s)]]

\* The calls for which the page needs to know the user.
OfUser(kind) == kind \notin {"sign in", "me"}

\* Goes on to the next call.  When the page knows no user, adding throws,
\* counting is skipped and the cart is drawn empty.
GoOn(f, h, todo, s) ==
    IF todo = <<>> \/ (s.user = Nobody /\ OfUser(todo[1]))
      THEN flow' = [flow EXCEPT ![f] = Idle]
      ELSE flow' = [flow EXCEPT ![f] =
             [kind |-> h.kind, user |-> h.user, product |-> h.product,
              from |-> h.from, quantity |-> h.quantity,
              todo |-> todo, call |-> Request(todo[1], h, s)]]

DrawnEmpty(todo, s) ==
    s.user = Nobody /\ todo # <<>> /\ todo[1] \in {"count", "read"}
                    /\ todo[Len(todo)] = "read"

\* A button that calls.
Click(f, kind, user, product, from, quantity) ==
    /\ flow[f] = Idle /\ clicks < MaxClicks
    /\ clicks' = clicks + 1
    /\ calm' = (AtRest /\ (calm \/ kind \in {"view", "check out"}))
    /\ GoOn(f, [kind |-> kind, user |-> user, product |-> product,
                from |-> from, quantity |-> quantity],
            Calls(kind, quantity), session)
    /\ UNCHANGED <<session, shown, summary, drawer, cart, late, faults>>

\* The backdrop of the open drawer covers the page.
On(p) == page = p /\ ~drawer

SignedIn == session.user # Nobody /\ session.token # Nobody

\* A button of the shown page or of the drawer.
Buy(f, kind, product, from, quantity) ==
    /\ SignedIn
    /\ Click(f, kind, session.user, product, from, quantity)
    /\ UNCHANGED page

QuickAdd(f, p) == On("catalog") /\ Buy(f, "quick add", p, 0, 1)

AddCart(f, p) == On("cart") /\ Buy(f, "add item", p, 0, 1)

\* The buttons of a row go by the number it shows.
Change(f, p, next) ==
    /\ On("cart") /\ shown[p] > 0 /\ next \in {shown[p] - 1, shown[p] + 1}
    /\ Buy(f, "change", p, shown[p], next)

RemoveItem(f, p) == /\ On("cart") /\ shown[p] > 0
                    /\ Buy(f, "remove", p, shown[p], 0)

ClearCart(f) == \E p \in Product : On("cart") /\ Buy(f, "clear", p, 0, 0)

ViewCart(f) == \E p \in Product : On("cart") /\ Buy(f, "view", p, 0, 0)

GoCheckout(f) == \E p \in Product : On("cart") /\ Buy(f, "check out", p, 0, 0)

PlaceOrder(f) == \E p \in Product : drawer /\ Buy(f, "order", p, 0, 0)

\* requireSignedIn.
SendHome ==
    /\ ~SignedIn /\ (page \in {"catalog", "cart"} \/ drawer)
    /\ page' = "home"
    /\ UNCHANGED <<session, shown, summary, drawer, flow, cart, late, clicks,
                   faults, calm>>

\* The cart button, and switchPage("cart"): it asks for a token only, and the
\* cart of a user who is not known yet is drawn empty.
OpenCart(f) ==
    /\ ~drawer /\ session.token # Nobody
    /\ page' = "cart"
    /\ \/ /\ session.user # Nobody
          /\ \E p \in Product : Click(f, "view", session.user, p, 0, 0)
       \/ /\ session.user = Nobody
          /\ shown' = Empty
          /\ calm' = (calm /\ AtRest)
          /\ UNCHANGED <<session, summary, drawer, flow, cart, late, clicks,
                         faults>>

GoTo(p) ==
    /\ ~drawer /\ page # p
    /\ page' = p
    /\ UNCHANGED <<session, shown, summary, drawer, flow, cart, late, clicks,
                   faults, calm>>

SignIn(f, u) ==
    /\ On("home")
    /\ \E p \in Product : Click(f, "sign in", u, p, 0, 0)
    /\ UNCHANGED page

\* Nothing is asked of the auth service, and no handler is stopped.
LogOut ==
    /\ ~drawer /\ session # SignedOut
    /\ session' = SignedOut
    /\ shown' = Empty
    /\ calm' = (calm /\ AtRest)
    /\ UNCHANGED <<page, summary, drawer, flow, cart, late, clicks, faults>>

CloseDrawer ==
    /\ drawer
    /\ drawer' = FALSE
    /\ UNCHANGED <<session, page, shown, summary, flow, cart, late, clicks,
                   faults, calm>>

-----------------------------------------------------------------------------
(* Answers.                                                                *)

\* Mutant: the session takes the token of the moment.
MeToken(h) == session.token

\* syncSessionFromAuthMe was given the token of its sign-in.
TokenOf(h) == h.user

\* The answer to a sign-in has the token, and the user where the auth service
\* issues the tokens itself: with Cognito there is none before "me" is answered.
SessionsAfter(h) ==
    CASE h.call.kind = "sign in" -> [user: {h.call.user, Nobody},
                                     token: {h.call.user}]
      [] h.call.kind = "me" -> {[user |-> h.call.token, token |-> TokenOf(h)]}
      [] OTHER              -> {session}

RenderCart(items) == shown' = items

\* The answer to "Go to checkout" opens the drawer, an order closes it.
RenderSummary(h) ==
    IF h.kind = "check out" THEN summary' = h.call.items /\ drawer' = TRUE
    ELSE /\ drawer' = (drawer /\ h.call.kind # "order")
         /\ UNCHANGED summary

\* What a handler does with an answer before its next call.
Answered(f) ==
    LET h == flow[f]  rest == Tail(h.todo) IN
    /\ h # Idle /\ h.call.at = "ok"
    /\ page' = CASE h.call.kind = "sign in" -> "catalog"
                 [] h.call.kind = "order"   -> "thank-you"
                 [] OTHER                   -> page
    /\ \E s \in SessionsAfter(h) :
         /\ session' = s
         /\ RenderCart(IF h.call.kind = "read"    THEN h.call.items
                       ELSE IF DrawnEmpty(rest, s) THEN Empty ELSE shown)
         /\ GoOn(f, h, rest, s)
    /\ RenderSummary(h)
    /\ UNCHANGED <<cart, late, clicks, faults, calm>>

\* An error ends the handler with a message, but for the two calls that catch
\* their own.
Refused(f) ==
    LET h == flow[f]  rest == Tail(h.todo) IN
    /\ h # Idle /\ h.call.at = "refused"
    /\ IF h.call.kind \in {"count", "me"}
         THEN /\ GoOn(f, h, rest, session)
              /\ RenderCart(IF DrawnEmpty(rest, session) THEN Empty ELSE shown)
         ELSE /\ flow' = [flow EXCEPT ![f] = Idle]
              /\ UNCHANGED shown
    /\ UNCHANGED <<session, page, summary, drawer, cart, late, clicks, faults,
                   calm>>

-----------------------------------------------------------------------------
(* The services.                                                           *)

\* How far a service brings a call in one step, and the cart it leaves.
Outcomes(c) ==
    LET now      == cart[c.user]
        To(at)   == [call |-> [c EXCEPT !.at = at], cart |-> now]
        Saved(d) == [call |-> [c EXCEPT !.at = "ok"], cart |-> d]
    IN
    CASE c.kind \in {"sign in", "me", "count"} -> {To("ok"), To("refused")}
      [] c.user # c.token -> {To("refused")}
      [] c.kind = "clear" -> {Saved(Empty)}
      [] c.at = "sent"    ->
           {[call |-> [c EXCEPT !.at = IF c.kind = "read" THEN "ok" ELSE "read",
                                !.items = now],
             cart |-> now]}
      [] c.kind = "order" -> (IF c.items = Empty THEN {} ELSE {Saved(Empty)})
                               \cup {To("refused")}
      [] OTHER -> IF Allows(c, c.items) THEN {Saved(Effect(c, c.items))}
                                        ELSE {To("refused")}

Serve(f) ==
    LET c == flow[f].call IN
    /\ flow[f] # Idle /\ c.at \in {"sent", "read"}
    /\ \E o \in Outcomes(c) :
         /\ flow' = [flow EXCEPT ![f].call = o.call]
         /\ cart' = [cart EXCEPT ![c.user] = o.cart]
    /\ UNCHANGED <<browser, late, clicks, faults, calm>>

\* A call fails on its way, or is given up after five seconds (the proxy's
\* timeout); the service may still be at it.
Fail(f) ==
    LET c == flow[f].call IN
    /\ faults < MaxFaults /\ faults' = faults + 1
    /\ flow[f] # Idle /\ c.at \in {"sent", "read", "ok"}
    /\ flow' = [flow EXCEPT ![f].call.at = "refused"]
    /\ calm' = FALSE
    /\ \/ UNCHANGED late
       \/ /\ c.at \in {"sent", "read"}
          /\ c.kind \in {"add", "remove", "clear", "order"}
          /\ late' = late \cup {c}
    /\ UNCHANGED <<browser, cart, clicks>>

ServeLate(c) ==
    /\ c \in late
    /\ \E o \in Outcomes(c) :
         /\ late' = (late \ {c}) \cup (IF o.call.at = "read" THEN {o.call} ELSE {})
         /\ cart' = [cart EXCEPT ![c.user] = o.cart]
    /\ UNCHANGED <<browser, flow, clicks, faults, calm>>

-----------------------------------------------------------------------------

Clicks(f) ==
    \/ \E p \in Product :
         \/ QuickAdd(f, p) \/ AddCart(f, p) \/ RemoveItem(f, p)
         \/ \E next \in {shown[p] - 1, shown[p] + 1} : Change(f, p, next)
    \/ ClearCart(f) \/ ViewCart(f) \/ GoCheckout(f) \/ PlaceOrder(f)
    \/ OpenCart(f)
    \/ \E u \in User : SignIn(f, u)

Next ==
    \/ \E f \in Flow : Clicks(f) \/ Answered(f) \/ Refused(f) \/ Serve(f) \/ Fail(f)
    \/ SendHome \/ LogOut \/ CloseDrawer
    \/ \E p \in {"home", "catalog"} : GoTo(p)
    \/ \E c \in late : ServeLate(c)

Spec == Init /\ [][Next]_vars

=============================================================================
