--------------------------- MODULE StorefrontProofs ---------------------------
(***************************************************************************)
(* The storefront proved: types, that no call mixes two accounts, and that *)
(* a page at rest shows what the user has.                                 *)
(***************************************************************************)
EXTENDS StorefrontProperties, SequenceTheorems, TLAPS

\* A handler is under way, or idle.
LEMMA HandlerIsNotIdle == \A h \in Handler : h # Idle
<1> SUFFICES ASSUME NEW h \in Handler PROVE h # Idle OBVIOUS
<1>1. "todo" \in DOMAIN h BY DEF Handler
<1>2. "todo" \notin DOMAIN Idle BY DEF Idle
<1> QED BY <1>1, <1>2

\* The calls of every button but the one to sign in.
OfNoSignIn == CallKind \ {"sign in", "me"}

\* Why all calls are of one account.  The page's user, if any, is its token's; a
\* handler that signs in asks first for the token and then who it is of, with
\* that token, and no other handler makes these calls.
OneAccountEach(h) ==
    LET c == h.call IN
    /\ h.todo # <<>> /\ c.kind = h.todo[1]
    /\ h.kind = "sign in" => h.todo \in {<<"sign in", "me">>, <<"me">>}
    /\ h.kind # "sign in" => h.todo \in Seq(OfNoSignIn)
    /\ c.kind = "sign in" => c.user = h.user
    /\ c.kind = "me" => c.token = h.user
    /\ c.kind # "sign in" => c.user = c.token

Accounts ==
    /\ session.user # Nobody => session.user = session.token
    /\ \A f \in Flow : flow[f] # Idle => OneAccountEach(flow[f])

IInv == TypeOK /\ Accounts

\* What is left of the calls of a handler after its first one.
LEMMA RestOfCalls ==
    /\ Tail(<<"sign in", "me">>) = <<"me">>
    /\ Tail(<<"me">>) = <<>> /\ Tail(<<"read">>) = <<>>
    /\ <<"sign in", "me">> # <<>> /\ <<"me">> # <<>>
    /\ <<"sign in", "me">>[1] = "sign in" /\ <<"me">>[1] = "me"
    /\ <<"sign in", "me">> \in Seq(CallKind) /\ <<"me">> \in Seq(CallKind)
    /\ \A s \in Seq(OfNoSignIn) : s \in Seq(CallKind)
<1>1. /\ Tail(<<"sign in", "me">>) = <<"me">> /\ Tail(<<"me">>) = <<>>
      /\ Tail(<<"read">>) = <<>>
  OBVIOUS
<1>2. /\ <<"sign in", "me">> # <<>> /\ <<"me">> # <<>>
      /\ <<"sign in", "me">>[1] = "sign in" /\ <<"me">>[1] = "me"
  OBVIOUS
<1>3. <<"sign in", "me">> \in Seq(CallKind) /\ <<"me">> \in Seq(CallKind)
  BY DEF CallKind
<1>4. \A s \in Seq(OfNoSignIn) : s \in Seq(CallKind)
  BY SeqMonotonic DEF OfNoSignIn
<1> QED BY <1>1, <1>2, <1>3, <1>4

\* The first call of a handler that has one.
LEMMA FirstOfCalls ==
    ASSUME NEW S, NEW s \in Seq(S), s # <<>>
    PROVE  s[1] \in S /\ Tail(s) \in Seq(S)
<1>1. 1 \in 1..Len(s) OBVIOUS
<1> QED BY <1>1, ElementOfSeq, HeadTailProperties

\* The calls of each button.
LEMMA CallsOfButtons ==
    ASSUME NEW kind \in Kind, NEW quantity \in Nat
    PROVE  /\ kind = "sign in" => Calls(kind, quantity) = <<"sign in", "me">>
           /\ kind # "sign in" => Calls(kind, quantity) \in Seq(OfNoSignIn)
<1>1. CASE kind = "sign in"
  <2>1. ChangeCalls(kind, quantity) = <<"sign in", "me">> BY <1>1 DEF ChangeCalls
  <2>2. RefreshCalls(kind) = <<>> BY <1>1 DEF RefreshCalls
  <2>3. <<"sign in", "me">> \in Seq(CallKind) BY RestOfCalls
  <2> QED BY <1>1, <2>1, <2>2, <2>3, ConcatEmptySeq DEF Calls
<1>2. CASE kind # "sign in"
  <2>1. ChangeCalls(kind, quantity) \in Seq(OfNoSignIn)
    <3>1. /\ <<"add">> \in Seq(OfNoSignIn) /\ <<"remove", "add">> \in Seq(OfNoSignIn)
          /\ <<"remove">> \in Seq(OfNoSignIn) /\ <<"clear">> \in Seq(OfNoSignIn)
          /\ <<"order">> \in Seq(OfNoSignIn) /\ <<>> \in Seq(OfNoSignIn)
      BY DEF OfNoSignIn, CallKind
    <3> QED BY <1>2, <3>1 DEF ChangeCalls, Kind
  <2>2. RefreshCalls(kind) \in Seq(OfNoSignIn)
    <3>1. /\ <<"read">> \in Seq(OfNoSignIn) /\ <<"count">> \in Seq(OfNoSignIn)
          /\ <<"count", "read">> \in Seq(OfNoSignIn) /\ <<>> \in Seq(OfNoSignIn)
      BY DEF OfNoSignIn, CallKind
    <3> QED BY <1>2, <3>1 DEF RefreshCalls, Kind
  <2> QED BY <1>2, <2>1, <2>2, ConcatProperties DEF Calls
<1> QED BY <1>1, <1>2

\* Going on to the next call, with the session of the moment.
LEMMA GoesOn ==
    ASSUME IInv, NEW f \in Flow, NEW h, NEW todo, NEW s, GoOn(f, h, todo, s),
           h.kind \in Kind, h.user \in User, h.product \in Product,
           h.from \in Nat, h.quantity \in Nat,
           s \in [user: User \cup {Nobody}, token: User \cup {Nobody}],
           s.user # Nobody => s.user = s.token,
           h.kind = "sign in" =>
             \/ todo = <<"sign in", "me">> \/ todo = <<>>
             \/ todo = <<"me">> /\ s.token = h.user,
           h.kind # "sign in" => todo \in Seq(OfNoSignIn)
    PROVE  /\ flow' \in [Flow -> Handler \cup {Idle}]
           /\ \A g \in Flow : flow'[g] # Idle => OneAccountEach(flow'[g])
<1>1. flow \in [Flow -> Handler \cup {Idle}] BY DEF IInv, TypeOK
<1>2. \A g \in Flow \ {f} : flow'[g] # Idle => OneAccountEach(flow'[g])
  BY <1>1 DEF GoOn, IInv, Accounts
<1>3. CASE flow' = [flow EXCEPT ![f] = Idle] BY <1>1, <1>2, <1>3
<1>4. CASE todo # <<>> /\ (s.user # Nobody \/ ~OfUser(todo[1]))
  <2> DEFINE c == Request(todo[1], h, s)
  <2> DEFINE k == [kind |-> h.kind, user |-> h.user, product |-> h.product,
                   from |-> h.from, quantity |-> h.quantity,
                   todo |-> todo, call |-> c]
  <2>1. flow' = [flow EXCEPT ![f] = k] BY <1>4 DEF GoOn
  <2>2. todo \in Seq(CallKind) /\ todo[1] \in CallKind
    <3>1. CASE h.kind = "sign in" BY <1>4, <3>1, RestOfCalls DEF CallKind
    <3>2. CASE h.kind # "sign in"
      <4>1. todo \in Seq(CallKind) BY <3>2, RestOfCalls
      <4> QED BY <1>4, <4>1, FirstOfCalls
    <3> QED BY <3>1, <3>2
  <2> DEFINE u == CASE todo[1] = "sign in" -> h.user
                    [] todo[1] = "me"      -> s.token
                    [] OTHER               -> s.user
  <2>3. c = [kind |-> todo[1], user |-> u, token |-> s.token,
             product |-> h.product, quantity |-> h.quantity, items |-> Empty,
             at |-> "sent"]
    BY DEF Request
  <2>4. u \in User /\ Empty \in Cart
    <3>1. todo[1] = "me" => s.token \in User
      <4>1. CASE h.kind = "sign in" BY <1>4, <4>1, RestOfCalls
      <4>2. CASE h.kind # "sign in"
        <5>1. todo[1] \in OfNoSignIn BY <1>4, <4>2, FirstOfCalls
        <5> QED BY <5>1 DEF OfNoSignIn
      <4> QED BY <4>1, <4>2
    <3>2. todo[1] \notin {"sign in", "me"} => s.user \in User
      BY <1>4 DEF OfUser
    <3> QED BY <3>1, <3>2 DEF Empty, Cart
  <2> HIDE DEF c, u
  <2>5. c \in Call BY <2>2, <2>3, <2>4 DEF Call
  <2>6. c.kind = todo[1] /\ c.token = s.token /\ c.user = u BY <2>3
  <2> USE DEF u
  <2>7. k \in Handler BY <2>2, <2>5 DEF Handler
  <2>8. k.kind = h.kind /\ k.user = h.user /\ k.todo = todo /\ k.call = c
    OBVIOUS
  <2> HIDE DEF k
  <2>9. h.kind # "sign in" => todo[1] \in OfNoSignIn
    <3> SUFFICES ASSUME h.kind # "sign in" PROVE todo[1] \in OfNoSignIn OBVIOUS
    <3> QED BY <1>4, FirstOfCalls
  <2>10. OneAccountEach(k)
    <3>1. CASE h.kind = "sign in"
      BY <1>4, <2>6, <2>8, <3>1, RestOfCalls DEF OneAccountEach
    <3>2. CASE h.kind # "sign in"
      BY <1>4, <2>6, <2>8, <2>9, <3>2 DEF OneAccountEach, OfNoSignIn, OfUser
    <3> QED BY <3>1, <3>2
  <2> QED BY <1>1, <1>2, <2>1, <2>7, <2>10
<1> QED BY <1>3, <1>4 DEF GoOn

-----------------------------------------------------------------------------
(* The steps.                                                              *)

\* A click starts a handler of its page.
LEMMA ClickKeeps ==
    ASSUME IInv, NEW f \in Flow, NEW kind \in Kind, NEW user \in User,
           NEW product \in Product, NEW from \in Nat, NEW quantity \in Nat,
           Click(f, kind, user, product, from, quantity), page' \in Page
    PROVE  IInv'
<1> DEFINE h == [kind |-> kind, user |-> user, product |-> product,
                 from |-> from, quantity |-> quantity]
<1>1. GoOn(f, h, Calls(kind, quantity), session) BY DEF Click
<1>2. /\ h.kind = kind /\ h.user = user /\ h.product = product
      /\ h.from = from /\ h.quantity = quantity
  OBVIOUS
<1> HIDE DEF h
<1>3. /\ session \in [user: User \cup {Nobody}, token: User \cup {Nobody}]
      /\ session.user # Nobody => session.user = session.token
  BY DEF IInv, TypeOK, Accounts
<1>4. /\ flow' \in [Flow -> Handler \cup {Idle}]
      /\ \A g \in Flow : flow'[g] # Idle => OneAccountEach(flow'[g])
  BY <1>1, <1>2, <1>3, CallsOfButtons, GoesOn
<1>5. clicks' \in 0..MaxClicks
  <2>1. clicks \in 0..MaxClicks /\ clicks < MaxClicks /\ clicks' = clicks + 1
    BY DEF Click, IInv, TypeOK
  <2> QED BY <2>1, BoundAssumption
<1>6. calm' \in BOOLEAN BY DEF Click, AtRest, IInv, TypeOK
<1>7. TypeOK' BY <1>4, <1>5, <1>6 DEF Click, IInv, TypeOK
<1>8. Accounts' BY <1>3, <1>4 DEF Click, Accounts
<1> QED BY <1>7, <1>8 DEF IInv

\* So does one for which somebody must be signed in.
LEMMA BuyKeeps ==
    ASSUME IInv, NEW f \in Flow, NEW kind \in Kind, NEW product \in Product,
           NEW from \in Nat, NEW quantity \in Nat,
           Buy(f, kind, product, from, quantity)
    PROVE  IInv'
<1>1. session.user \in User BY DEF Buy, SignedIn, IInv, TypeOK
<1>2. page' \in Page BY DEF Buy, IInv, TypeOK
<1>3. Click(f, kind, session.user, product, from, quantity) BY DEF Buy
<1> QED BY <1>1, <1>2, <1>3, ClickKeeps

\* Every button clicks as somebody, with numbers that are shown.
LEMMA ClicksKeep ==
    ASSUME IInv, NEW f \in Flow, Clicks(f)
    PROVE  IInv'
<1>1. /\ page \in Page /\ session.user \in User \cup {Nobody}
      /\ shown \in [Product -> Nat]
  BY DEF IInv, TypeOK, Cart
<1>2. ASSUME NEW p \in Product, QuickAdd(f, p) \/ AddCart(f, p) PROVE IInv'
  <2>1. PICK kind \in Kind : Buy(f, kind, p, 0, 1)
    BY <1>2 DEF QuickAdd, AddCart, Kind
  <2> QED BY <2>1, BuyKeeps
<1>3. ASSUME NEW p \in Product, RemoveItem(f, p) PROVE IInv'
  <2>1. "remove" \in Kind /\ shown[p] \in Nat BY <1>1 DEF Kind
  <2>2. Buy(f, "remove", p, shown[p], 0) BY <1>3 DEF RemoveItem
  <2> QED BY <2>1, <2>2, BuyKeeps
<1>4. ASSUME NEW p \in Product, NEW next, Change(f, p, next) PROVE IInv'
  <2>1. "change" \in Kind /\ shown[p] \in Nat BY <1>1 DEF Kind
  <2>2. next \in Nat BY <1>4, <2>1 DEF Change
  <2>3. Buy(f, "change", p, shown[p], next) BY <1>4 DEF Change
  <2> QED BY <2>1, <2>2, <2>3, BuyKeeps
<1>5. CASE ClearCart(f) \/ ViewCart(f) \/ GoCheckout(f) \/ PlaceOrder(f)
  <2>1. PICK kind \in Kind, p \in Product : Buy(f, kind, p, 0, 0)
    BY <1>5 DEF ClearCart, ViewCart, GoCheckout, PlaceOrder, Kind
  <2> QED BY <2>1, BuyKeeps
<1>6. CASE OpenCart(f)
  <2>1. page' \in Page /\ "view" \in Kind BY <1>6 DEF OpenCart, Page, Kind
  <2>2. CASE session.user # Nobody
    <3>1. PICK p \in Product : Click(f, "view", session.user, p, 0, 0)
      BY <1>6, <2>2 DEF OpenCart
    <3>2. session.user \in User BY <1>1, <2>2
    <3> QED BY <2>1, <3>1, <3>2, ClickKeeps
  <2>3. CASE session.user = Nobody
    <3>1. /\ UNCHANGED <<session, summary, drawer, flow, cart, late, clicks,
                         faults>>
          /\ shown' = Empty /\ calm' = (calm /\ AtRest)
      BY <1>6, <2>3 DEF OpenCart
    <3>2. shown' \in Cart /\ calm' \in BOOLEAN
      BY <3>1 DEF Empty, Cart, AtRest, IInv, TypeOK
    <3> QED BY <2>1, <3>1, <3>2 DEF IInv, TypeOK, Accounts
  <2> QED BY <2>2, <2>3
<1>7. ASSUME NEW u \in User, SignIn(f, u) PROVE IInv'
  <2>1. PICK p \in Product : Click(f, "sign in", u, p, 0, 0)
    BY <1>7 DEF SignIn
  <2>2. page' \in Page /\ "sign in" \in Kind BY <1>1, <1>7 DEF SignIn, Kind
  <2> QED BY <2>1, <2>2, ClickKeeps
<1> QED BY <1>2, <1>3, <1>4, <1>5, <1>6, <1>7 DEF Clicks

\* The clicks that call nothing.
LEMMA OthersKeep ==
    ASSUME IInv,
           \/ SendHome \/ LogOut \/ CloseDrawer
           \/ \E p \in {"home", "catalog"} : GoTo(p)
           \/ UNCHANGED vars
    PROVE  IInv'
<1>1. /\ UNCHANGED <<summary, flow, cart, late, clicks, faults>>
      /\ session' \in {session, SignedOut} /\ shown' \in {shown, Empty}
  BY DEF SendHome, LogOut, CloseDrawer, GoTo, vars, browser
<1>2. page' \in Page /\ drawer' \in BOOLEAN /\ calm' \in BOOLEAN
  <2>1. CASE SendHome BY <2>1 DEF SendHome, IInv, TypeOK, Page
  <2>2. CASE LogOut BY <2>2 DEF LogOut, AtRest, IInv, TypeOK
  <2>3. CASE CloseDrawer BY <2>3 DEF CloseDrawer, IInv, TypeOK
  <2>4. CASE \E p \in {"home", "catalog"} : GoTo(p)
    BY <2>4 DEF GoTo, IInv, TypeOK, Page
  <2>5. CASE UNCHANGED vars BY <2>5 DEF vars, browser, IInv, TypeOK
  <2> QED BY <2>1, <2>2, <2>3, <2>4, <2>5
<1>3. shown' \in Cart
  BY <1>1 DEF Empty, Cart, IInv, TypeOK
<1>4. /\ session' \in [user: User \cup {Nobody}, token: User \cup {Nobody}]
      /\ session'.user # Nobody => session'.user = session'.token
  BY <1>1 DEF SignedOut, IInv, TypeOK, Accounts
<1>5. TypeOK' BY <1>1, <1>2, <1>3, <1>4 DEF IInv, TypeOK
<1>6. Accounts' BY <1>1, <1>4 DEF IInv, Accounts, OneAccountEach
<1> QED BY <1>5, <1>6 DEF IInv

\* What a service does with a call leaves the call what it is.
LEMMA OutcomeKeeps ==
    ASSUME IInv, NEW c \in Call, NEW o \in Outcomes(c)
    PROVE  /\ o.call \in Call /\ o.cart \in Cart
           /\ o.call.kind = c.kind /\ o.call.user = c.user
           /\ o.call.token = c.token
<1>1. c.user \in User /\ c.items \in Cart /\ cart[c.user] \in Cart
      /\ c.product \in Product /\ c.quantity \in Nat
  BY DEF Call, IInv, TypeOK
<1>2. Effect(c, c.items) \in Cart /\ Empty \in Cart
  BY <1>1 DEF Effect, Empty, Cart
<1>3. \E at \in {"sent", "read", "ok", "refused"}, items \in Cart, d \in Cart :
        o = [call |-> [c EXCEPT !.at = at, !.items = items], cart |-> d]
  BY <1>1, <1>2, ZenonT(30) DEF Outcomes, Call
<1>4. PICK at \in {"sent", "read", "ok", "refused"}, items \in Cart, d \in Cart :
        o = [call |-> [c EXCEPT !.at = at, !.items = items], cart |-> d]
  BY <1>3
<1> DEFINE e == [c EXCEPT !.at = at, !.items = items]
<1>5. e \in Call /\ e.kind = c.kind /\ e.user = c.user /\ e.token = c.token
  BY DEF Call
<1>6. o.call = e /\ o.cart = d BY <1>4
<1> HIDE DEF e
<1> QED BY <1>5, <1>6

\* A call that goes on, or is given up, is still the call of its handler.
LEMMA CallGoesOn ==
    ASSUME IInv, NEW f \in Flow, flow[f] # Idle, NEW d \in Call,
           d.kind = flow[f].call.kind, d.user = flow[f].call.user,
           d.token = flow[f].call.token,
           flow' = [flow EXCEPT ![f].call = d]
    PROVE  /\ flow' \in [Flow -> Handler \cup {Idle}]
           /\ \A g \in Flow : flow'[g] # Idle => OneAccountEach(flow'[g])
<1>1. flow[f] \in Handler /\ flow \in [Flow -> Handler \cup {Idle}]
  BY DEF IInv, TypeOK
<1> DEFINE k == [flow[f] EXCEPT !.call = d]
<1>2. flow' = [flow EXCEPT ![f] = k] OBVIOUS
<1>3. /\ k \in Handler /\ k.todo = flow[f].todo /\ k.kind = flow[f].kind
      /\ k.user = flow[f].user /\ k.call = d
  BY <1>1 DEF Handler
<1> HIDE DEF k
<1>4. OneAccountEach(k)
  <2>1. OneAccountEach(flow[f]) BY DEF IInv, Accounts
  <2> QED BY <1>3, <2>1 DEF OneAccountEach
<1> QED BY <1>1, <1>2, <1>3, <1>4 DEF IInv, Accounts

\* The steps of the services, and calls that fail.
LEMMA ServicesKeep ==
    ASSUME IInv, \/ \E f \in Flow : Serve(f) \/ Fail(f)
                 \/ \E c \in late : ServeLate(c)
    PROVE  IInv'
<1>1. ASSUME NEW f \in Flow, Serve(f) PROVE IInv'
  <2>1. flow[f] # Idle /\ flow[f] \in Handler BY <1>1 DEF Serve, IInv, TypeOK
  <2>2. flow[f].call \in Call BY <2>1 DEF Handler
  <2>3. PICK o \in Outcomes(flow[f].call) :
          /\ flow' = [flow EXCEPT ![f].call = o.call]
          /\ cart' = [cart EXCEPT ![flow[f].call.user] = o.cart]
    BY <1>1 DEF Serve
  <2>4. /\ o.call \in Call /\ o.cart \in Cart
        /\ o.call.kind = flow[f].call.kind /\ o.call.user = flow[f].call.user
        /\ o.call.token = flow[f].call.token
    BY <2>2, OutcomeKeeps
  <2>5. /\ flow' \in [Flow -> Handler \cup {Idle}]
        /\ \A g \in Flow : flow'[g] # Idle => OneAccountEach(flow'[g])
    BY <2>1, <2>3, <2>4, CallGoesOn
  <2>6. cart' \in [User -> Cart] BY <2>3, <2>4 DEF IInv, TypeOK
  <2>7. UNCHANGED <<browser, late, clicks, faults, calm>> BY <1>1 DEF Serve
  <2> QED BY <2>5, <2>6, <2>7 DEF IInv, TypeOK, Accounts, browser
<1>2. ASSUME NEW f \in Flow, Fail(f) PROVE IInv'
  <2>1. flow[f] # Idle /\ flow[f] \in Handler BY <1>2 DEF Fail, IInv, TypeOK
  <2>2. flow[f].call \in Call BY <2>1 DEF Handler
  <2> DEFINE d == [flow[f].call EXCEPT !.at = "refused"]
  <2>3. flow' = [flow EXCEPT ![f].call = d] BY <1>2 DEF Fail
  <2>4. /\ d \in Call /\ d.kind = flow[f].call.kind
        /\ d.user = flow[f].call.user /\ d.token = flow[f].call.token
    BY <2>2 DEF Call
  <2> HIDE DEF d
  <2>5. /\ flow' \in [Flow -> Handler \cup {Idle}]
        /\ \A g \in Flow : flow'[g] # Idle => OneAccountEach(flow'[g])
    BY <2>1, <2>3, <2>4, CallGoesOn
  <2>6. late' \subseteq Call BY <1>2, <2>2 DEF Fail, IInv, TypeOK
  <2>7. faults' \in 0..MaxFaults
    <3>1. faults \in 0..MaxFaults /\ faults < MaxFaults /\ faults' = faults + 1
      BY <1>2 DEF Fail, IInv, TypeOK
    <3> QED BY <3>1, BoundAssumption
  <2>8. UNCHANGED <<browser, cart, clicks>> /\ calm' \in BOOLEAN
    BY <1>2 DEF Fail
  <2> QED BY <2>5, <2>6, <2>7, <2>8 DEF IInv, TypeOK, Accounts, browser
<1>3. ASSUME NEW c \in late, ServeLate(c) PROVE IInv'
  <2>1. c \in Call BY DEF IInv, TypeOK
  <2>2. PICK o \in Outcomes(c) :
          /\ late' = (late \ {c}) \cup (IF o.call.at = "read" THEN {o.call} ELSE {})
          /\ cart' = [cart EXCEPT ![c.user] = o.cart]
    BY <1>3 DEF ServeLate
  <2>3. o.call \in Call /\ o.cart \in Cart BY <2>1, OutcomeKeeps
  <2>4. late' \subseteq Call /\ cart' \in [User -> Cart]
    BY <2>2, <2>3 DEF IInv, TypeOK
  <2>5. UNCHANGED <<browser, flow, clicks, faults, calm>>
    BY <1>3 DEF ServeLate
  <2> QED BY <2>4, <2>5 DEF IInv, TypeOK, Accounts, browser, OneAccountEach
<1> QED BY <1>1, <1>2, <1>3

\* An answer gives the session of one account, if any, and the next call is made
\* from it.
LEMMA AnsweredKeeps ==
    ASSUME IInv, NEW f \in Flow, Answered(f) \/ Refused(f)
    PROVE  IInv'
<1> DEFINE h == flow[f]
<1> DEFINE rest == Tail(h.todo)
<1>1. h # Idle /\ h \in Handler /\ OneAccountEach(h)
  BY DEF Answered, Refused, IInv, TypeOK, Accounts
<1>2. /\ h.call \in Call /\ h.kind \in Kind /\ h.user \in User
      /\ h.product \in Product /\ h.from \in Nat /\ h.quantity \in Nat
      /\ h.todo # <<>>
  BY <1>1 DEF Handler, OneAccountEach
<1>3. /\ h.call.items \in Cart /\ h.call.user \in User
      /\ h.call.token \in User \cup {Nobody} /\ Empty \in Cart
  BY <1>2 DEF Call, Empty, Cart
<1>4. /\ h.kind = "sign in" => \/ rest = <<"me">> /\ h.call.kind = "sign in"
                               \/ rest = <<>> /\ h.call.kind = "me"
      /\ h.kind # "sign in" => rest \in Seq(OfNoSignIn)
  BY <1>1, <1>2, RestOfCalls, FirstOfCalls DEF OneAccountEach
<1>6. /\ session \in [user: User \cup {Nobody}, token: User \cup {Nobody}]
      /\ session.user # Nobody => session.user = session.token
  BY DEF IInv, TypeOK, Accounts
<1>7. CASE Answered(f)
  <2>2. PICK s \in SessionsAfter(h) :
          /\ GoOn(f, h, rest, s) /\ session' = s
          /\ RenderCart(IF h.call.kind = "read" THEN h.call.items
                        ELSE IF DrawnEmpty(rest, s) THEN Empty ELSE shown)
    BY <1>7 DEF Answered
  <2>1. /\ s \in [user: User \cup {Nobody}, token: User \cup {Nobody}]
        /\ s.user # Nobody => s.user = s.token
        /\ h.call.kind = "sign in" => s.token = h.user
    <3>1. CASE h.call.kind = "sign in"
      <4>1. s \in [user: {h.call.user, Nobody}, token: {h.call.user}]
        BY <2>2, <3>1 DEF SessionsAfter
      <4>2. h.call.user = h.user BY <1>1, <3>1 DEF OneAccountEach
      <4> QED BY <1>2, <4>1, <4>2
    <3>2. CASE h.call.kind = "me"
      <4>1. s = [user |-> h.call.token, token |-> h.user]
        BY <2>2, <3>2 DEF SessionsAfter, TokenOf
      <4>2. h.call.token = h.user BY <1>1, <3>2 DEF OneAccountEach
      <4> QED BY <1>2, <3>2, <4>1, <4>2
    <3>3. CASE h.call.kind \notin {"sign in", "me"}
      <4>1. s = session BY <2>2, <3>3 DEF SessionsAfter
      <4>2. h.call.kind # "sign in" BY <3>3
      <4> HIDE DEF h
      <4> QED BY <1>6, <4>1, <4>2
    <3> QED BY <3>1, <3>2, <3>3
  <2> HIDE DEF h, rest
  <2>3. /\ flow' \in [Flow -> Handler \cup {Idle}]
        /\ \A g \in Flow : flow'[g] # Idle => OneAccountEach(flow'[g])
    BY <1>2, <1>4, <2>1, <2>2, GoesOn
  <2>4. page' \in Page
    BY <1>7 DEF Answered, Page, IInv, TypeOK
  <2>5. shown' \in Cart
    BY <1>3, <2>2 DEF RenderCart, IInv, TypeOK, h
  <2>6. summary' \in Cart /\ drawer' \in BOOLEAN
    BY <1>3, <1>7 DEF Answered, RenderSummary, IInv, TypeOK, h
  <2>7. UNCHANGED <<cart, late, clicks, faults, calm>> BY <1>7 DEF Answered
  <2>8. TypeOK'
    BY <2>1, <2>2, <2>3, <2>4, <2>5, <2>6, <2>7 DEF IInv, TypeOK
  <2>9. Accounts' BY <2>1, <2>2, <2>3 DEF Accounts
  <2> QED BY <2>8, <2>9 DEF IInv
<1>8. CASE Refused(f)
  <2>1. /\ flow' \in [Flow -> Handler \cup {Idle}]
        /\ \A g \in Flow : flow'[g] # Idle => OneAccountEach(flow'[g])
    <3>1. CASE flow' = [flow EXCEPT ![f] = Idle]
      BY <3>1 DEF IInv, TypeOK, Accounts
    <3>2. CASE GoOn(f, h, rest, session) /\ h.call.kind \in {"count", "me"}
      <4> HIDE DEF h, rest
      <4>1. h.kind = "sign in" => rest = <<>> BY <1>4, <3>2
      <4> QED BY <1>2, <1>4, <1>6, <3>2, <4>1, GoesOn
    <3> QED BY <1>8, <3>1, <3>2 DEF Refused
  <2>2. shown' \in Cart
    BY <1>3, <1>8 DEF Refused, RenderCart, IInv, TypeOK
  <2>3. UNCHANGED <<session, page, summary, drawer, cart, late, clicks, faults,
                    calm>>
    BY <1>8 DEF Refused
  <2> QED BY <2>1, <2>2, <2>3 DEF IInv, TypeOK, Accounts
<1> QED BY <1>7, <1>8

\* The initial states satisfy the invariant.
LEMMA Initially == Init => IInv
<1> SUFFICES ASSUME Init PROVE IInv OBVIOUS
<1>1. Empty \in Cart BY DEF Empty, Cart
<1>2. 0 \in 0..MaxClicks /\ 0 \in 0..MaxFaults BY BoundAssumption
<1>3. TypeOK
  BY <1>1, <1>2, CartsAssumption DEF Init, TypeOK, SignedOut, Page
<1>4. Accounts BY DEF Init, Accounts, SignedOut
<1> QED BY <1>3, <1>4 DEF IInv

\* Every step preserves it.
LEMMA NextKeeps == IInv /\ [Next]_vars => IInv'
BY ClicksKeep, OthersKeep, ServicesKeep, AnsweredKeeps DEF Next

\* Every reachable state of the storefront is well typed.
THEOREM TypeCorrect == Spec => []TypeOK
<1>1. IInv => TypeOK BY DEF IInv
<1> QED BY <1>1, Initially, NextKeeps, PTL DEF Spec

\* Whatever is clicked, answered, refused or given up, and whoever signs in or
\* out meanwhile, the page's user and token and those of every call are of one
\* account.
THEOREM AccountsAreNotMixed == Spec => []CallsAreOfOneAccount
<1>1. IInv => CallsAreOfOneAccount
  BY DEF IInv, Accounts, OneAccountEach, CallsAreOfOneAccount
<1> QED BY <1>1, Initially, NextKeeps, PTL DEF Spec

-----------------------------------------------------------------------------
(* The page is current.                                                    *)

Fresh ==
    /\ page = "cart" => shown = CartOf(session.user)
    /\ drawer => summary = CartOf(session.user)

OfRefresh == {"add", "count", "read"}

\* The cart is read last, and after the first call nothing is refused for good.
RefreshesLast(todo) ==
    /\ todo # <<>> /\ todo[Len(todo)] = "read"
    /\ \A i \in 2..Len(todo) : todo[i] \in OfRefresh

\* A handler that is alone, and whose calls all arrive.  It runs where nothing
\* has to be current, or it reads the cart of the page's user at its end; until
\* then the drawer is open only for an order that is not yet answered, only a
\* removal or an order can be refused, which leaves everything as it was, and
\* what has been read is the cart.
Steady(h) ==
    LET c == h.call IN
    IF h.kind \in {"quick add", "sign in"} THEN page # "cart" /\ ~drawer
    ELSE /\ c.user = session.user
         /\ RefreshesLast(h.todo)
         /\ h.kind \in {"view", "check out"} => h.todo = <<"read">>
         /\ drawer => h.kind = "order" /\ c.kind = "order"
         /\ c.kind \in {"remove", "order"} /\ c.at # "ok" => Fresh
         /\ c.at = "refused" => c.kind \in {"count", "remove", "order"}
         /\ c.kind = "read" => \/ c.at = "sent"
                               \/ c.at = "ok" /\ c.items = cart[c.user]

Alone ==
    /\ late = {}
    /\ \A f, g \in Flow : flow[f] # Idle /\ flow[g] # Idle => f = g

Calmly ==
    calm => /\ Alone
            /\ \A f \in Flow : flow[f] # Idle => Steady(flow[f])
            /\ AtRest => Fresh

\* The calls that a button begins with.
LEMMA FirstCalls ==
    /\ \A call \in CallKind :
         <<call>> \in Seq(CallKind) /\ Len(<<call>>) = 1 /\ <<call>>[1] = call
    /\ <<"remove", "add">> \in Seq(CallKind)
    /\ Len(<<"remove", "add">>) = 2 /\ <<"remove", "add">>[2] = "add"
    /\ <<"add">> \in Seq(CallKind) /\ Len(<<"add">>) = 1
    /\ <<"count">> \in Seq(CallKind) /\ Len(<<"count">>) = 1
    /\ <<"read">> \in Seq(CallKind) /\ RefreshesLast(<<"read">>)
    /\ <<"read">>[1] = "read"
    /\ <<"count", "read">> \in Seq(CallKind) /\ Len(<<"count", "read">>) = 2
    /\ <<"count", "read">>[1] = "count" /\ <<"count", "read">>[2] = "read"
<1>1. \A call \in CallKind :
        <<call>> \in Seq(CallKind) /\ Len(<<call>>) = 1 /\ <<call>>[1] = call
  OBVIOUS
<1>2. /\ <<"remove", "add">> \in Seq(CallKind)
      /\ Len(<<"remove", "add">>) = 2 /\ <<"remove", "add">>[2] = "add"
  BY DEF CallKind
<1>3. /\ <<"add">> \in Seq(CallKind) /\ Len(<<"add">>) = 1
      /\ <<"count">> \in Seq(CallKind) /\ Len(<<"count">>) = 1
  BY DEF CallKind
<1>4. <<"read">> \in Seq(CallKind) /\ RefreshesLast(<<"read">>)
      /\ <<"read">>[1] = "read"
  BY DEF CallKind, RefreshesLast
<1>5. /\ <<"count", "read">> \in Seq(CallKind) /\ Len(<<"count", "read">>) = 2
      /\ <<"count", "read">>[1] = "count" /\ <<"count", "read">>[2] = "read"
  BY DEF CallKind
<1> QED BY <1>1, <1>2, <1>3, <1>4, <1>5

\* Two calls at most, and a refresh that ends with the reading of the cart.
LEMMA RefreshIsLast ==
    ASSUME NEW a \in Seq(CallKind), Len(a) \in {1, 2}, Len(a) = 2 => a[2] = "add"
    PROVE  /\ RefreshesLast(a \o <<"count", "read">>)
           /\ (a \o <<"count", "read">>)[1] = a[1]
<1> DEFINE b == <<"count", "read">>
           t == a \o b
<1>1. b \in Seq(CallKind) /\ Len(b) = 2 /\ b[1] = "count" /\ b[2] = "read"
  BY FirstCalls
<1> HIDE DEF b
<1>2. /\ t \in Seq(CallKind) /\ Len(t) = Len(a) + 2
      /\ \A i \in 1..(Len(a) + 2) :
           t[i] = IF i <= Len(a) THEN a[i] ELSE b[i - Len(a)]
  BY <1>1, ConcatProperties
<1> HIDE DEF t
<1>3. t # <<>> BY <1>2, EmptySeq
<1>4. t[Len(t)] = "read" /\ t[1] = a[1] BY <1>1, <1>2
<1>5. ASSUME NEW i \in 2..Len(t) PROVE t[i] \in OfRefresh
  <2>1. CASE i <= Len(a) BY <1>2, <2>1 DEF OfRefresh
  <2>2. CASE i > Len(a) BY <1>1, <1>2, <2>2 DEF OfRefresh
  <2> QED BY <2>1, <2>2
<1> QED BY <1>3, <1>4, <1>5 DEF RefreshesLast, t, b

\* The calls of the buttons that do not only add or sign in.
LEMMA CallsEndWithRead ==
    ASSUME NEW kind \in Kind, NEW quantity \in Nat
    PROVE  LET t == Calls(kind, quantity) IN
           /\ kind \notin {"quick add", "sign in"} => RefreshesLast(t)
           /\ kind \in {"view", "check out"} => t = <<"read">>
           /\ kind = "order" => t[1] = "order"
           /\ kind = "quick add" => t # <<>>
<1>1. CASE kind \in {"view", "check out"}
  <2>1. ChangeCalls(kind, quantity) = <<>> /\ RefreshCalls(kind) = <<"read">>
    BY <1>1 DEF ChangeCalls, RefreshCalls
  <2>2. Calls(kind, quantity) = <<"read">>
    BY <2>1, FirstCalls, ConcatEmptySeq DEF Calls
  <2> QED BY <1>1, <2>2, FirstCalls
<1>2. CASE kind \in {"add item", "change", "remove", "clear", "order"}
  <2>1. RefreshCalls(kind) = <<"count", "read">> BY <1>2 DEF RefreshCalls
  <2> DEFINE a == ChangeCalls(kind, quantity)
  <2>2. \/ \E call \in CallKind : a = <<call>> /\ (kind = "order" => call = "order")
        \/ a = <<"remove", "add">> /\ kind # "order"
    <3>1. CASE kind = "add item"
      <4>1. a = <<"add">> /\ "add" \in CallKind
        BY <3>1 DEF ChangeCalls, CallKind
      <4> QED BY <3>1, <4>1
    <3>2. CASE kind = "change" /\ quantity > 0
      <4>1. a = <<"remove", "add">> BY <3>2 DEF ChangeCalls
      <4> QED BY <3>2, <4>1
    <3>3. CASE kind = "change" /\ quantity = 0
      <4>1. a = <<"remove">> /\ "remove" \in CallKind
        BY <3>3 DEF ChangeCalls, CallKind
      <4> QED BY <3>3, <4>1
    <3>4. CASE kind \in {"remove", "clear", "order"}
      <4>1. a = <<kind>> /\ kind \in CallKind
        BY <3>4 DEF ChangeCalls, CallKind
      <4> QED BY <4>1
    <3>5. quantity > 0 \/ quantity = 0 OBVIOUS
    <3> HIDE DEF a
    <3> QED BY <1>2, <3>1, <3>2, <3>3, <3>4, <3>5, Zenon
  <2>3. /\ a \in Seq(CallKind) /\ Len(a) \in {1, 2}
        /\ Len(a) = 2 => a[2] = "add"
        /\ kind = "order" => a[1] = "order"
    <3> HIDE DEF a
    <3>1. CASE a = <<"remove", "add">> /\ kind # "order"
      <4>1. a \in Seq(CallKind) /\ Len(a) = 2 /\ a[2] = "add"
        BY <3>1, FirstCalls
      <4> QED BY <3>1, <4>1
    <3>2. ASSUME NEW call \in CallKind, a = <<call>>, kind = "order" => call = "order"
          PROVE  <2>3!:
      <4>1. a \in Seq(CallKind) /\ Len(a) = 1 /\ a[1] = call
        BY <3>2, FirstCalls
      <4> QED BY <3>2, <4>1
    <3> QED BY <2>2, <3>1, <3>2
  <2> HIDE DEF a
  <2>4. /\ RefreshesLast(a \o <<"count", "read">>)
        /\ (a \o <<"count", "read">>)[1] = a[1]
    BY <2>3, RefreshIsLast
  <2> QED BY <1>2, <2>1, <2>3, <2>4 DEF Calls, a
<1>3. CASE kind = "quick add"
  <2>1. Calls(kind, quantity) = <<"add">> \o <<"count">>
    BY <1>3 DEF Calls, ChangeCalls, RefreshCalls
  <2>2. Len(Calls(kind, quantity)) = 2
    BY <2>1, FirstCalls, ConcatProperties
  <2>3. Calls(kind, quantity) # <<>> BY <2>2, EmptySeq
  <2> QED BY <1>3, <2>3
<1>4. CASE kind = "sign in" BY <1>4
<1> QED BY <1>1, <1>2, <1>3, <1>4 DEF Kind

\* What is left of calls that refresh last.
LEMMA RestRefreshesLast ==
    ASSUME NEW s \in Seq(CallKind), RefreshesLast(s)
    PROVE  /\ Tail(s) = <<>> => s[1] = "read"
           /\ Tail(s) # <<>> => RefreshesLast(Tail(s)) /\ Tail(s)[1] \in OfRefresh
<1>1. /\ s # <<>> /\ Len(s) \in Nat \ {0} /\ s[Len(s)] = "read"
      /\ Tail(s) \in Seq(CallKind) /\ Len(Tail(s)) = Len(s) - 1
      /\ \A i \in 1..Len(Tail(s)) : Tail(s)[i] = s[i + 1]
  BY HeadTailProperties, EmptySeq DEF RefreshesLast
<1>2. Tail(s) # <<>> <=> Len(Tail(s)) # 0 BY <1>1, EmptySeq
<1>3. CASE Tail(s) = <<>> BY <1>1, <1>2, <1>3
<1>4. CASE Tail(s) # <<>>
  <2>1. Len(s) > 1 /\ Tail(s)[Len(Tail(s))] = s[Len(s)] /\ Tail(s)[1] = s[2]
    BY <1>1, <1>2, <1>4
  <2>2. \A i \in 1..Len(Tail(s)) : Tail(s)[i] \in OfRefresh
    BY <1>1 DEF RefreshesLast
  <2> QED BY <1>1, <1>4, <2>1, <2>2 DEF RefreshesLast
<1> QED BY <1>3, <1>4

\* A handler that goes on alone.
LEMMA AloneGoesOn ==
    ASSUME IInv, Alone, NEW f \in Flow, NEW h, h.kind \in Kind,
           AtRest \/ flow[f] # Idle,
           flow' = [flow EXCEPT ![f] = h], late' = late
    PROVE  /\ Alone' /\ flow'[f] = h /\ h # Idle /\ ~AtRest'
           /\ \A g \in Flow \ {f} : flow'[g] = Idle
<1>1. h # Idle
  <2>1. Idle.kind \notin Kind BY DEF Kind, Idle
  <2> QED BY <2>1
<1>2. flow'[f] = h /\ \A g \in Flow \ {f} : flow'[g] = Idle
  BY DEF IInv, TypeOK, Alone, AtRest
<1> QED BY <1>1, <1>2 DEF Alone, AtRest

\* A handler that ends alone.
LEMMA AloneEnds ==
    ASSUME IInv, Alone, NEW f \in Flow, flow[f] # Idle,
           flow' = [flow EXCEPT ![f] = Idle], late' = late
    PROVE  Alone' /\ \A g \in Flow : flow'[g] = Idle
<1>1. \A g \in Flow : flow'[g] = Idle BY DEF IInv, TypeOK, Alone
<1> QED BY <1>1 DEF Alone

\* A click.
LEMMA ClickIsCalm ==
    ASSUME IInv, Calmly, NEW f \in Flow, NEW kind \in Kind, NEW user,
           NEW product, NEW from, NEW quantity \in Nat,
           Click(f, kind, user, product, from, quantity),
           session.user # Nobody \/ kind = "sign in",
           kind \in {"quick add", "sign in"} => page' # "cart" /\ ~drawer,
           kind \notin {"quick add", "sign in"} => (drawer => kind = "order"),
           page' = page \/ kind = "view"
    PROVE  Calmly'
<1> SUFFICES ASSUME calm' PROVE Calmly' BY DEF Calmly
<1> DEFINE t == Calls(kind, quantity)
           h == [kind |-> kind, user |-> user, product |-> product,
                 from |-> from, quantity |-> quantity]
           k == [kind |-> h.kind, user |-> h.user, product |-> h.product,
                 from |-> h.from, quantity |-> h.quantity, todo |-> t,
                 call |-> Request(t[1], h, session)]
<1>1. /\ AtRest /\ (calm \/ kind \in {"view", "check out"})
      /\ UNCHANGED <<session, shown, summary, drawer, cart, late>>
  BY DEF Click
<1>2. Alone BY <1>1 DEF AtRest, Alone
<1>3. /\ t # <<>> /\ (session.user # Nobody \/ ~OfUser(t[1]))
      /\ ~OfUser(t[1]) => kind \in {"quick add", "sign in"}
  <2>1. CASE kind = "sign in" BY <2>1, CallsOfButtons, RestOfCalls DEF OfUser
  <2>2. CASE kind # "sign in"
    <3>1. t \in Seq(OfNoSignIn) BY <2>2, CallsOfButtons
    <3>2. t # <<>> BY <2>2, CallsEndWithRead DEF RefreshesLast
    <3>3. t[1] \in OfNoSignIn BY <3>1, <3>2, FirstOfCalls
    <3> QED BY <2>2, <3>2, <3>3 DEF OfNoSignIn, OfUser
  <2> QED BY <2>1, <2>2
<1>4. flow' = [flow EXCEPT ![f] = k]
  BY <1>3 DEF Click, GoOn
<1>5. k.kind = kind /\ k.todo = t /\ k.call = Request(t[1], h, session)
  OBVIOUS
<1>6. /\ k.call.kind = t[1] /\ k.call.at = "sent"
      /\ OfUser(t[1]) => k.call.user = session.user
  BY <1>5 DEF Request, OfUser
<1> HIDE DEF k, t
<1>7. /\ Alone' /\ flow'[f] = k /\ ~AtRest'
      /\ \A g \in Flow \ {f} : flow'[g] = Idle
  BY <1>1, <1>2, <1>4, <1>5, AloneGoesOn
<1>8. Steady(flow[f])'
  <2>1. CASE kind \in {"quick add", "sign in"}
    BY <1>1, <1>5, <1>7, <2>1 DEF Steady
  <2>2. CASE kind \notin {"quick add", "sign in"}
    <3>1. /\ RefreshesLast(t)
          /\ kind \in {"view", "check out"} => t = <<"read">>
          /\ kind = "order" => t[1] = "order"
      BY <2>2, CallsEndWithRead DEF t
    <3>2. t[1] \in {"remove", "order"} => Fresh'
      <4>1. <<"read">>[1] = "read" BY FirstCalls
      <4>2. t[1] \in {"remove", "order"} => calm /\ page' = page
        BY <1>1, <3>1, <4>1
      <4> QED BY <1>1, <4>2 DEF Calmly, Fresh, CartOf
    <3> QED BY <1>1, <1>3, <1>5, <1>6, <1>7, <2>2, <3>1, <3>2 DEF Steady
  <2> QED BY <2>1, <2>2
<1> QED BY <1>7, <1>8 DEF Calmly

\* Every button that calls is where it is shown.
LEMMA ClicksAreCalm ==
    ASSUME IInv, Calmly, NEW f \in Flow, Clicks(f)
    PROVE  Calmly'
<1>1. shown \in [Product -> Nat] BY DEF IInv, TypeOK, Cart
<1>2. ASSUME NEW kind \in Kind, NEW product, NEW from, NEW quantity \in Nat,
             Buy(f, kind, product, from, quantity),
             kind # "sign in", kind = "quick add" => On("catalog"),
             kind # "quick add" => ~drawer \/ kind = "order"
      PROVE  Calmly'
  <2>1. /\ Click(f, kind, session.user, product, from, quantity)
        /\ session.user # Nobody /\ page' = page
    BY <1>2 DEF Buy, SignedIn
  <2>2. kind = "quick add" => page' # "cart" /\ ~drawer
    BY <1>2, <2>1 DEF On
  <2> QED BY <1>2, <2>1, <2>2, ClickIsCalm
<1>3. ASSUME NEW p \in Product, QuickAdd(f, p) PROVE Calmly'
  <2>1. "quick add" \in Kind BY DEF Kind
  <2> QED BY <1>2, <1>3, <2>1 DEF QuickAdd
<1>4. ASSUME NEW p \in Product, AddCart(f, p) PROVE Calmly'
  <2>1. "add item" \in Kind BY DEF Kind
  <2> QED BY <1>2, <1>4, <2>1 DEF AddCart, On
<1>5. ASSUME NEW p \in Product, RemoveItem(f, p) PROVE Calmly'
  <2>1. "remove" \in Kind BY DEF Kind
  <2> QED BY <1>2, <1>5, <2>1 DEF RemoveItem, On
<1>6. ASSUME NEW p \in Product, NEW next, Change(f, p, next) PROVE Calmly'
  <2>1. "change" \in Kind BY DEF Kind
  <2>2. next \in Nat BY <1>1, <1>6 DEF Change
  <2> QED BY <1>2, <1>6, <2>1, <2>2 DEF Change, On
<1>7. CASE ClearCart(f) \/ ViewCart(f) \/ GoCheckout(f)
  <2>1. PICK kind \in {"clear", "view", "check out"}, p \in Product :
          Buy(f, kind, p, 0, 0)
    BY <1>7 DEF ClearCart, ViewCart, GoCheckout
  <2>2. ~drawer /\ kind \in Kind
    BY <1>7 DEF ClearCart, ViewCart, GoCheckout, On, Kind
  <2> QED BY <1>2, <2>1, <2>2
<1>8. CASE PlaceOrder(f)
  <2>1. "order" \in Kind BY DEF Kind
  <2> QED BY <1>2, <1>8, <2>1 DEF PlaceOrder
<1>9. CASE OpenCart(f)
  <2>1. ~drawer /\ page' = "cart" /\ "view" \in Kind
    BY <1>9 DEF OpenCart, Kind
  <2>2. CASE session.user # Nobody
    <3>1. PICK p \in Product : Click(f, "view", session.user, p, 0, 0)
      BY <1>9, <2>2 DEF OpenCart
    <3> QED BY <2>1, <2>2, <3>1, ClickIsCalm
  <2>3. CASE session.user = Nobody
    <3>1. /\ UNCHANGED <<session, drawer, flow, cart, late>>
          /\ shown' = Empty /\ calm' = (calm /\ AtRest)
      BY <1>9, <2>3 DEF OpenCart
    <3>2. Fresh' BY <2>1, <2>3, <3>1 DEF Fresh, CartOf
    <3>3. ASSUME calm' PROVE Alone' /\ \A g \in Flow : flow'[g] = Idle
      BY <3>1, <3>3 DEF AtRest, Alone
    <3> QED BY <3>2, <3>3 DEF Calmly
  <2> QED BY <2>2, <2>3
<1>10. ASSUME NEW u \in User, SignIn(f, u) PROVE Calmly'
  <2>1. PICK p \in Product : Click(f, "sign in", u, p, 0, 0)
    BY <1>10 DEF SignIn
  <2>2. page' = page /\ page = "home" /\ ~drawer /\ "sign in" \in Kind
    BY <1>10 DEF SignIn, On, Kind
  <2> QED BY <2>1, <2>2, ClickIsCalm
<1> QED BY <1>3, <1>4, <1>5, <1>6, <1>7, <1>8, <1>9, <1>10 DEF Clicks

\* Another page, a closed drawer, and a log-out while nothing is under way.
LEMMA OthersAreCalm ==
    ASSUME IInv, Calmly,
           \/ SendHome \/ LogOut \/ CloseDrawer
           \/ \E p \in {"home", "catalog"} : GoTo(p)
           \/ UNCHANGED vars
    PROVE  Calmly'
<1> SUFFICES ASSUME calm' PROVE Calmly' BY DEF Calmly
<1>1. /\ UNCHANGED <<summary, flow, cart, late>> /\ calm
      /\ page' = "cart" => page = "cart"
      /\ drawer' => drawer
      /\ \/ UNCHANGED <<session, shown>>
         \/ LogOut /\ AtRest
  <2>1. CASE SendHome BY <2>1 DEF SendHome
  <2>2. CASE LogOut BY <2>2 DEF LogOut
  <2>3. CASE CloseDrawer BY <2>3 DEF CloseDrawer
  <2>4. CASE \E p \in {"home", "catalog"} : GoTo(p) BY <2>4 DEF GoTo
  <2>5. CASE UNCHANGED vars BY <2>5 DEF vars, browser
  <2> QED BY <2>1, <2>2, <2>3, <2>4, <2>5
<1>2. Alone' BY <1>1 DEF Calmly, Alone
<1>3. CASE UNCHANGED <<session, shown>>
  <2>1. Fresh => Fresh' BY <1>1, <1>3 DEF Fresh, CartOf
  <2>2. ASSUME NEW f \in Flow, flow'[f] # Idle PROVE Steady(flow[f])'
    <3>1. Steady(flow[f]) /\ flow' = flow BY <1>1, <2>2 DEF Calmly
    <3> QED BY <1>1, <1>3, <2>1, <3>1 DEF Steady
  <2>3. AtRest' => Fresh' BY <1>1, <2>1 DEF Calmly, AtRest
  <2> QED BY <1>2, <2>2, <2>3 DEF Calmly
<1>4. CASE LogOut /\ AtRest
  <2>1. \A f \in Flow : flow'[f] = Idle BY <1>1, <1>4 DEF AtRest
  <2>2. Fresh' BY <1>4 DEF LogOut, SignedOut, Fresh, CartOf
  <2> QED BY <1>2, <2>1, <2>2 DEF Calmly
<1> QED BY <1>1, <1>3, <1>4

\* What a service does with a call of the page's user.
LEMMA OutcomeIsCalm ==
    ASSUME NEW c \in Call, c.kind \in OfNoSignIn, c.user = c.token,
           c.at \in {"sent", "read"}, c.kind = "read" => c.at = "sent",
           NEW o \in Outcomes(c)
    PROVE  /\ o.call.at # "ok" => o.cart = cart[c.user]
           /\ o.call.at = "refused" => c.kind \in {"count", "remove", "order"}
           /\ c.kind = "read" => /\ o.call.at = "ok" /\ o.cart = cart[c.user]
                                 /\ o.call.items = cart[c.user]
<1> DEFINE now     == cart[c.user]
           ok      == [c EXCEPT !.at = "ok"]
           refused == [c EXCEPT !.at = "refused"]
           got     == [c EXCEPT !.at = "read", !.items = now]
           shows   == [c EXCEPT !.at = "ok", !.items = now]
<1>1. /\ ok.at = "ok" /\ refused.at = "refused" /\ got.at = "read"
      /\ shows.at = "ok" /\ shows.items = now
  BY DEF Call
<1>2. \/ /\ c.kind = "count"
         /\ o = [call |-> ok, cart |-> now] \/ o = [call |-> refused, cart |-> now]
      \/ c.kind = "clear" /\ o = [call |-> ok, cart |-> Empty]
      \/ c.kind = "read" /\ o = [call |-> shows, cart |-> now]
      \/ c.kind # "read" /\ o = [call |-> got, cart |-> now]
      \/ /\ c.kind = "order"
         /\ o = [call |-> ok, cart |-> Empty] \/ o = [call |-> refused, cart |-> now]
      \/ /\ c.kind \in {"add", "remove"}
         /\ \/ o = [call |-> ok, cart |-> Effect(c, c.items)]
            \/ c.kind = "remove" /\ o = [call |-> refused, cart |-> now]
  BY ZenonT(60) DEF Outcomes, Allows, OfNoSignIn, CallKind
<1> HIDE DEF now, ok, refused, got, shows
<1>3. /\ o.call.at # "ok" => o.cart = now
      /\ o.call.at = "refused" => c.kind \in {"count", "remove", "order"}
      /\ c.kind = "read" => /\ o.call.at = "ok" /\ o.cart = now
                            /\ o.call.items = now
  BY <1>1, <1>2
<1> QED BY <1>3 DEF now

\* A handler that is under way makes no call of a sign-in unless it is one.
LEMMA OwnCall ==
    ASSUME IInv, NEW f \in Flow, flow[f] # Idle
    PROVE  LET h == flow[f]  c == h.call IN
           /\ h \in Handler /\ c \in Call /\ h.kind \in Kind
           /\ h.todo \in Seq(CallKind) /\ h.todo # <<>> /\ c.kind = h.todo[1]
           /\ h.kind # "sign in" => /\ c.kind \in OfNoSignIn
                                    /\ c.user = c.token /\ c.user \in User
<1>1. flow[f] \in Handler /\ OneAccountEach(flow[f])
  BY DEF IInv, TypeOK, Accounts
<1>2. /\ flow[f].call \in Call /\ flow[f].kind \in Kind
      /\ flow[f].todo \in Seq(CallKind)
  BY <1>1 DEF Handler
<1>3. flow[f].call.user \in User BY <1>2 DEF Call
<1>4. flow[f].kind # "sign in" => flow[f].call.kind \in OfNoSignIn
  BY <1>1, FirstOfCalls DEF OneAccountEach
<1> QED BY <1>1, <1>2, <1>3, <1>4 DEF OneAccountEach, OfNoSignIn

\* A service brings the call of the handler further.
LEMMA ServeIsCalm ==
    ASSUME IInv, Calmly, NEW f \in Flow, Serve(f)
    PROVE  Calmly'
<1> SUFFICES ASSUME calm' PROVE Calmly' BY DEF Calmly
<1> DEFINE h == flow[f]
           c == h.call
<1>1. /\ UNCHANGED <<session, page, shown, summary, drawer, late>> /\ calm
      /\ h # Idle /\ c.at \in {"sent", "read"}
  BY DEF Serve, browser
<1>2. PICK o \in Outcomes(c) :
        /\ flow' = [flow EXCEPT ![f].call = o.call]
        /\ cart' = [cart EXCEPT ![c.user] = o.cart]
  BY DEF Serve
<1>3. /\ h \in Handler /\ c \in Call /\ h.kind \in Kind
      /\ h.kind # "sign in" => /\ c.kind \in OfNoSignIn
                               /\ c.user = c.token /\ c.user \in User
  BY <1>1, OwnCall
<1>4. Steady(h) /\ Alone BY <1>1 DEF Calmly
<1>5. o.call.kind = c.kind /\ o.call.user = c.user
  BY <1>3, OutcomeKeeps
<1> DEFINE k == [h EXCEPT !.call = o.call]
<1>6. flow' = [flow EXCEPT ![f] = k] BY <1>2
<1>7. k.kind = h.kind /\ k.todo = h.todo /\ k.call = o.call
  BY <1>3 DEF Handler
<1> HIDE DEF k
<1>8. /\ Alone' /\ flow'[f] = k /\ ~AtRest'
      /\ \A g \in Flow \ {f} : flow'[g] = Idle
  BY <1>1, <1>3, <1>4, <1>6, <1>7, AloneGoesOn
<1>9. Steady(flow[f])'
  <2>1. CASE h.kind \in {"quick add", "sign in"}
    BY <1>1, <1>4, <1>7, <1>8, <2>1 DEF Steady
  <2>2. CASE h.kind \notin {"quick add", "sign in"}
    <3>1. /\ c.user = session.user
          /\ RefreshesLast(h.todo)
          /\ h.kind \in {"view", "check out"} => h.todo = <<"read">>
          /\ drawer => h.kind = "order" /\ c.kind = "order"
          /\ c.kind \in {"remove", "order"} => Fresh
          /\ c.kind = "read" => c.at = "sent"
      BY <1>1, <1>4, <2>2 DEF Steady
    <3>2. /\ o.call.at # "ok" => o.cart = cart[c.user]
          /\ o.call.at = "refused" => c.kind \in {"count", "remove", "order"}
          /\ c.kind = "read" => /\ o.call.at = "ok" /\ o.cart = cart[c.user]
                                /\ o.call.items = cart[c.user]
      BY <1>1, <1>3, <2>2, <3>1, OutcomeIsCalm
    <3>3. cart'[c.user] = o.cart
      BY <1>2, <1>3, <2>2 DEF IInv, TypeOK
    <3>4. o.call.at # "ok" => (Fresh => Fresh')
      BY <1>1, <1>2, <1>3, <2>2, <3>2 DEF IInv, TypeOK, Fresh, CartOf
    <3> HIDE DEF h, c
    <3> QED
      BY <1>1, <1>5, <1>7, <1>8, <2>2, <3>1, <3>2, <3>3, <3>4
         DEF Steady
  <2> QED BY <2>1, <2>2
<1> QED BY <1>8, <1>9 DEF Calmly

\* A call that goes on after an answer.
LEMMA NextCallIsCalm ==
    ASSUME IInv, Alone, NEW f \in Flow, flow[f] # Idle,
           flow[f].kind \notin {"quick add", "sign in"},
           RefreshesLast(flow[f].todo), Tail(flow[f].todo) # <<>>,
           flow[f].kind \in {"view", "check out"} => flow[f].todo = <<"read">>,
           GoOn(f, flow[f], Tail(flow[f].todo), session),
           session.user # Nobody, session' = session, ~drawer', late' = late
    PROVE  Alone' /\ ~AtRest' /\ \A g \in Flow : flow'[g] # Idle => Steady(flow[g])'
<1> DEFINE h == flow[f]
           rest == Tail(h.todo)
           k == [kind |-> h.kind, user |-> h.user, product |-> h.product,
                 from |-> h.from, quantity |-> h.quantity, todo |-> rest,
                 call |-> Request(rest[1], h, session)]
<1>1. h.kind \in Kind /\ h.todo \in Seq(CallKind) BY OwnCall
<1>2. RefreshesLast(rest) /\ rest[1] \in OfRefresh
  BY <1>1, RestRefreshesLast
<1>3. flow' = [flow EXCEPT ![f] = k] BY DEF GoOn
<1>4. k.kind = h.kind /\ k.todo = rest /\ k.call = Request(rest[1], h, session)
  OBVIOUS
<1>5. k.call.kind = rest[1] /\ k.call.at = "sent" /\ k.call.user = session.user
  BY <1>2, <1>4 DEF Request, OfRefresh
<1>6. h.kind \notin {"view", "check out"}
  <2> HIDE DEF h, k
  <2>1. Tail(<<"read">>) = <<>> BY RestOfCalls
  <2> QED BY <2>1 DEF h
<1> HIDE DEF k
<1>7. /\ Alone' /\ flow'[f] = k /\ ~AtRest'
      /\ \A g \in Flow \ {f} : flow'[g] = Idle
  BY <1>1, <1>3, <1>4, AloneGoesOn
<1> HIDE DEF h, rest
<1>8. h.kind \notin {"quick add", "sign in"} BY DEF h
<1>9. Steady(flow[f])'
  BY <1>2, <1>4, <1>5, <1>6, <1>7, <1>8 DEF Steady, OfRefresh
<1> QED BY <1>7, <1>9

\* The answer to a call.
LEMMA AnsweredIsCalm ==
    ASSUME IInv, Calmly, NEW f \in Flow, Answered(f)
    PROVE  Calmly'
<1> SUFFICES ASSUME calm' PROVE Calmly' BY DEF Calmly
<1> DEFINE h == flow[f]
           c == h.call
           rest == Tail(h.todo)
<1>1. /\ h # Idle /\ c.at = "ok" /\ UNCHANGED <<cart, late>> /\ calm
      /\ drawer' => h.kind = "check out" \/ (drawer /\ c.kind # "order")
      /\ h.kind = "check out" => summary' = c.items
      /\ page' = "cart" => page = "cart"
      /\ c.kind = "read" => shown' = c.items
  BY DEF Answered, RenderSummary, RenderCart
<1>2. /\ h \in Handler /\ c \in Call /\ h.kind \in Kind
      /\ h.todo \in Seq(CallKind) /\ h.todo # <<>> /\ c.kind = h.todo[1]
      /\ h.kind # "sign in" => /\ c.kind \in OfNoSignIn
                               /\ c.user = c.token /\ c.user \in User
  BY <1>1, OwnCall
<1>3. Steady(h) /\ Alone BY <1>1 DEF Calmly
<1>4. PICK s \in SessionsAfter(h) : GoOn(f, h, rest, s) /\ session' = s
  BY DEF Answered
<1>5. CASE h.kind \in {"quick add", "sign in"}
  <2>1. page' # "cart" /\ ~drawer'
    BY <1>1, <1>3, <1>5 DEF Steady
  <2>2. /\ Alone'
        /\ \A g \in Flow : flow'[g] # Idle => flow'[g].kind = h.kind
    <3>1. CASE flow' = [flow EXCEPT ![f] = Idle]
      BY <1>1, <1>3, <3>1, AloneEnds
    <3>2. CASE flow' # [flow EXCEPT ![f] = Idle]
      <4> DEFINE k == [kind |-> h.kind, user |-> h.user, product |-> h.product,
                       from |-> h.from, quantity |-> h.quantity, todo |-> rest,
                       call |-> Request(rest[1], h, s)]
      <4>1. flow' = [flow EXCEPT ![f] = k] BY <1>4, <3>2 DEF GoOn
      <4>2. k.kind = h.kind OBVIOUS
      <4> HIDE DEF k
      <4>3. /\ Alone' /\ flow'[f] = k
            /\ \A g \in Flow \ {f} : flow'[g] = Idle
        BY <1>1, <1>2, <1>3, <4>1, <4>2, AloneGoesOn
      <4> QED BY <4>2, <4>3
    <3> QED BY <3>1, <3>2
  <2>3. \A g \in Flow : flow'[g] # Idle => Steady(flow[g])'
    BY <1>5, <2>1, <2>2 DEF Steady
  <2>4. Fresh' BY <2>1 DEF Fresh
  <2> QED BY <2>2, <2>3, <2>4 DEF Calmly
<1>6. CASE h.kind \notin {"quick add", "sign in"}
  <2>1. /\ c.user = session.user
        /\ RefreshesLast(h.todo)
        /\ h.kind \in {"view", "check out"} => h.todo = <<"read">>
        /\ drawer => h.kind = "order" /\ c.kind = "order"
        /\ c.kind = "read" => c.items = cart[c.user]
    BY <1>1, <1>3, <1>6 DEF Steady
  <2>2. session' = session /\ session.user \in User
    BY <1>2, <1>4, <1>6, <2>1 DEF SessionsAfter, OfNoSignIn
  <2>3. session.user # Nobody BY <2>2, UserAssumption
  <2>4. CASE rest = <<>>
    <3>1. c.kind = "read" BY <1>2, <2>1, <2>4, RestRefreshesLast
    <3>2. flow' = [flow EXCEPT ![f] = Idle] BY <1>4, <2>4 DEF GoOn
    <3>3. Alone' /\ \A g \in Flow : flow'[g] = Idle
      BY <1>1, <1>3, <3>2, AloneEnds
    <3>4. Fresh'
      BY <1>1, <2>1, <2>2, <2>3, <3>1 DEF Fresh, CartOf
    <3> QED BY <3>3, <3>4 DEF Calmly
  <2>5. CASE rest # <<>>
    <3>1. h.kind # "check out"
      <4>1. Tail(<<"read">>) = <<>> BY RestOfCalls
      <4> QED BY <2>1, <2>5, <4>1
    <3>2. ~drawer' BY <1>1, <2>1, <3>1
    <3>3. GoOn(f, h, rest, session) BY <1>4, <2>2
    <3>4. Alone' /\ ~AtRest' /\ \A g \in Flow : flow'[g] # Idle => Steady(flow[g])'
      BY <1>1, <1>3, <1>6, <2>1, <2>2, <2>3, <2>5, <3>2, <3>3, NextCallIsCalm
    <3> QED BY <3>4 DEF Calmly
  <2> QED BY <2>4, <2>5
<1> QED BY <1>5, <1>6

\* An error.
LEMMA RefusedIsCalm ==
    ASSUME IInv, Calmly, NEW f \in Flow, Refused(f)
    PROVE  Calmly'
<1> SUFFICES ASSUME calm' PROVE Calmly' BY DEF Calmly
<1> DEFINE h == flow[f]
           c == h.call
           rest == Tail(h.todo)
<1>1. /\ h # Idle /\ c.at = "refused" /\ calm
      /\ UNCHANGED <<session, page, summary, drawer, cart, late>>
      /\ \/ c.kind \in {"count", "me"} /\ GoOn(f, h, rest, session)
         \/ /\ c.kind \notin {"count", "me"}
            /\ flow' = [flow EXCEPT ![f] = Idle] /\ shown' = shown
  BY DEF Refused
<1>2. /\ h \in Handler /\ c \in Call /\ h.kind \in Kind
      /\ h.todo \in Seq(CallKind) /\ h.todo # <<>> /\ c.kind = h.todo[1]
      /\ h.kind # "sign in" => /\ c.kind \in OfNoSignIn
                               /\ c.user = c.token /\ c.user \in User
  BY <1>1, OwnCall
<1>3. Steady(h) /\ Alone BY <1>1 DEF Calmly
<1>4. CASE h.kind \in {"quick add", "sign in"}
  <2>1. page' # "cart" /\ ~drawer' BY <1>1, <1>3, <1>4 DEF Steady
  <2>2. /\ Alone'
        /\ \A g \in Flow : flow'[g] # Idle => flow'[g].kind = h.kind
    <3>1. CASE flow' = [flow EXCEPT ![f] = Idle]
      BY <1>1, <1>3, <3>1, AloneEnds
    <3>2. CASE flow' # [flow EXCEPT ![f] = Idle]
      <4> DEFINE k == [kind |-> h.kind, user |-> h.user, product |-> h.product,
                       from |-> h.from, quantity |-> h.quantity, todo |-> rest,
                       call |-> Request(rest[1], h, session)]
      <4>1. flow' = [flow EXCEPT ![f] = k] BY <1>1, <3>2 DEF GoOn
      <4>2. k.kind = h.kind OBVIOUS
      <4> HIDE DEF k
      <4>3. /\ Alone' /\ flow'[f] = k
            /\ \A g \in Flow \ {f} : flow'[g] = Idle
        BY <1>1, <1>2, <1>3, <4>1, <4>2, AloneGoesOn
      <4> QED BY <4>2, <4>3
    <3> QED BY <3>1, <3>2
  <2>3. \A g \in Flow : flow'[g] # Idle => Steady(flow[g])'
    BY <1>4, <2>1, <2>2 DEF Steady
  <2>4. Fresh' BY <2>1 DEF Fresh
  <2> QED BY <2>2, <2>3, <2>4 DEF Calmly
<1>5. CASE h.kind \notin {"quick add", "sign in"}
  <2>1. /\ c.user = session.user
        /\ RefreshesLast(h.todo)
        /\ h.kind \in {"view", "check out"} => h.todo = <<"read">>
        /\ drawer => h.kind = "order" /\ c.kind = "order"
        /\ c.kind \in {"count", "remove", "order"}
        /\ c.kind \in {"remove", "order"} => Fresh
    BY <1>1, <1>3, <1>5 DEF Steady
  <2>2. session.user # Nobody BY <1>2, <1>5, <2>1, UserAssumption
  <2>3. CASE c.kind = "count"
    <3>1. rest # <<>> BY <1>2, <2>1, <2>3, RestRefreshesLast
    <3>2. ~drawer' /\ GoOn(f, h, rest, session) BY <1>1, <2>1, <2>3
    <3>3. Alone' /\ ~AtRest' /\ \A g \in Flow : flow'[g] # Idle => Steady(flow[g])'
      BY <1>1, <1>3, <1>5, <2>1, <2>2, <3>1, <3>2, NextCallIsCalm
    <3> QED BY <3>3 DEF Calmly
  <2>4. CASE c.kind \in {"remove", "order"}
    <3>1. Alone' /\ \A g \in Flow : flow'[g] = Idle
      BY <1>1, <1>3, <2>4, AloneEnds
    <3>2. Fresh' BY <1>1, <2>1, <2>4 DEF Fresh, CartOf
    <3> QED BY <3>1, <3>2 DEF Calmly
  <2> QED BY <2>1, <2>3, <2>4
<1> QED BY <1>4, <1>5

\* Every step.
LEMMA NextIsCalm == IInv /\ Calmly /\ [Next]_vars => Calmly'
<1> SUFFICES ASSUME IInv, Calmly, [Next]_vars PROVE Calmly' OBVIOUS
<1>1. ASSUME NEW f \in Flow, Fail(f) PROVE Calmly'
  BY <1>1 DEF Fail, Calmly
<1>2. ASSUME NEW c \in late, ServeLate(c) PROVE Calmly'
  BY <1>2 DEF ServeLate, Calmly, Alone
<1> QED
  BY <1>1, <1>2, ClicksAreCalm, OthersAreCalm, ServeIsCalm, AnsweredIsCalm,
     RefusedIsCalm
     DEF Next

\* When everything that the user has started has ended, one handler at a time
\* and without a failed call since the cart was last asked for, the cart page
\* shows the cart and the drawer what its button orders: after every button,
\* refusal, change of page, sign-in and log-out.
THEOREM PageStaysCurrent == Spec => []PageIsCurrent
<1>1. Init => Calmly
  <2> SUFFICES ASSUME Init PROVE Calmly OBVIOUS
  <2>1. Alone /\ \A f \in Flow : flow[f] = Idle BY DEF Init, Alone
  <2>2. Fresh BY DEF Init, Fresh
  <2> QED BY <2>1, <2>2 DEF Calmly
<1>2. Calmly => PageIsCurrent BY DEF Calmly, PageIsCurrent, Fresh
<1> QED BY <1>1, <1>2, Initially, NextKeeps, NextIsCalm, PTL DEF Spec

=============================================================================
