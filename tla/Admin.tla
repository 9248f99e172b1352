-------------------------------- MODULE Admin --------------------------------
(***************************************************************************)
(* The admin panel in one browser, and the admin service behind it, which  *)
(* limits attempts to sign in and passes every other call on to the        *)
(* catalog once the auth service has checked the token.                    *)
(*                                                                         *)
(* The catalog is the atomic inventory that Catalog is compared with:      *)
(* customers reserve from it meanwhile.  Messages, filters, statistics and *)
(* the table of orders are left out.                                       *)
(***************************************************************************)
EXTENDS Integers, FiniteSets

CONSTANTS
    Product, SeedStock,
    Flow,        \* handlers of buttons that are under way at once
    NoRows,      \* the table before inventory was loaded
    AdminPod,    \* replicas of the admin service
    Address,     \* where attempts come from, as a pod sees it
    Forwarded,   \* first values of X-Forwarded-For
    NoHeader,    \* no such header
    Limit,       \* authRateLimitMax
    Window,      \* authRateLimitWindowMs
    MaxTime,     \* bound: ticks of the clock
    MaxClicks,   \* bound: clicks that start a handler
    MaxReserved, \* bound: reservations of customers
    MaxFaults    \* bound: calls that fail or are given up

INSTANCE InventoryDocument WITH Request <- {}, Operation <- {}

ASSUME LimitAssumption == Limit \in Nat \ {0} /\ Window \in Nat \ {0}
ASSUME BoundAssumption == {MaxTime, MaxClicks, MaxReserved, MaxFaults} \subseteq Nat
ASSUME StockAssumption == SeedStock \in [Product -> Nat]

VARIABLES
    \* The panel.
    token,      \* whether authState has a token
    mfa,        \* whether the field for the code is shown
    busy,       \* uiState.busy
    rows,       \* the products in the table
    flow,       \* the handlers under way
    \* The services.
    inventory,  \* the document of the catalog
    late,       \* calls the panel was told have failed, and the catalog has not
    entry,      \* authAttempts of the pods, by pod and key
    now,        \* Date.now()
    clicks, faults,
    \* History.
    admitted,   \* attempts let through under a key of a pod, by their time
    reserved,   \* what customers have taken of each product
    calm        \* one handler has run at a time and no call failed since the
                \* inventory was last loaded with nothing else under way

panel   == <<token, mfa, busy, rows>>
limiter == <<entry, now, admitted>>
stocks  == <<inventory, reserved>>
vars    == <<panel, flow, stocks, late, limiter, clicks, faults, calm>>

Change == [kind: {"patch"}, product: Product, stock: Nat]
            \cup [kind: {"add"}, product: Product, stock: Int]
            \cup [kind: {"delete"}, product: Product]
Attempt == [kind: {"login", "mfa"}]
Look    == [kind: {"load", "orders"}]

View == [doc: Document, reserved: [Product -> Nat]]

\* "seen" is the table at the time of the click, and for a load what the
\* catalog has answered.  Every call but an attempt carries a token.
Call == [op: Attempt, token: BOOLEAN, seen: View \cup {NoRows},
         at: {"sent", "admitted", "challenge", "ok", "refused"}]
          \cup [op: Change \cup Look, token: {TRUE}, seen: View \cup {NoRows},
                at: {"sent", "admitted", "ok", "refused"}]
Idle == [op |-> "none"]

\* The key is the address only when there is no X-Forwarded-For.  Whoever is
\* the first to write one chooses the key, a client included, so that one
\* address may have many keys and many addresses one.
RateLimitKey(address, header) ==
    IF header = NoHeader THEN address ELSE header

Slot == AdminPod \X {RateLimitKey(a, h) : a \in Address,
                                          h \in Forwarded \cup {NoHeader}}

NoEntry == [windowStart |-> 0, count |-> 0]

TypeOK ==
    /\ token \in BOOLEAN /\ mfa \in BOOLEAN /\ busy \in BOOLEAN
    /\ rows \in View \cup {NoRows}
    /\ flow \in [Flow -> Call \cup {Idle}]
    /\ inventory \in Document /\ late \subseteq {c \in Call : c.op \in Change}
    /\ entry \in [Slot -> [windowStart: 0..MaxTime, count: 0..Limit]]
    /\ now \in 0..MaxTime
    /\ clicks \in 0..MaxClicks /\ faults \in 0..MaxFaults
    /\ admitted \in [Slot -> [0..MaxTime -> Nat]]
    /\ reserved \in [Product -> Nat] /\ calm \in BOOLEAN

Init ==
    /\ token = FALSE /\ mfa = FALSE /\ busy = FALSE /\ rows = NoRows
    /\ flow = [f \in Flow |-> Idle]
    /\ inventory = Seed /\ late = {}
    /\ entry = [s \in Slot |-> NoEntry] /\ now = 0
    /\ clicks = 0 /\ faults = 0
    /\ admitted = [s \in Slot |-> [t \in 0..MaxTime |-> 0]]
    /\ reserved = [p \in Product |-> 0] /\ calm = TRUE

AtRest == late = {} /\ \A f \in Flow : flow[f] = Idle

-----------------------------------------------------------------------------
(* The buttons.  setBusy disables those above the tables, and not the ones *)
(* in a row.                                                               *)

Sent(op) == [op |-> op, token |-> token, seen |-> rows, at |-> "sent"]

Click(f, op) ==
    /\ flow[f] = Idle /\ clicks < MaxClicks
    /\ clicks' = clicks + 1
    /\ busy' = TRUE
    /\ flow' = [flow EXCEPT ![f] = Sent(op)]
    /\ calm' = (AtRest /\ (calm \/ op.kind = "load"))
    /\ UNCHANGED <<token, mfa, rows, stocks, late, limiter, faults>>

Login(f)     == ~busy /\ Click(f, [kind |-> "login"])
SubmitMfa(f) == ~busy /\ mfa /\ Click(f, [kind |-> "mfa"])

Load(f)   == ~busy /\ token /\ Click(f, [kind |-> "load"])
Orders(f) == ~busy /\ token /\ Click(f, [kind |-> "orders"])

\* The number in the row, which the admin may have edited, is what the stock
\* is set to.
Save(f, p) ==
    /\ token /\ rows # NoRows /\ p \in rows.doc.listed
    /\ \E edited \in {0, 1} :
         /\ rows.doc.stock[p] + edited >= 0
         /\ Click(f, [kind |-> "patch", product |-> p,
                      stock |-> rows.doc.stock[p] + edited])

Delete(f, p) ==
    /\ token /\ rows # NoRows /\ p \in rows.doc.listed
    /\ Click(f, [kind |-> "delete", product |-> p])

Add(f, p) == /\ ~busy /\ token
             /\ Click(f, [kind |-> "add", product |-> p, stock |-> 1])

Logout ==
    /\ ~busy /\ token
    /\ token' = FALSE
    /\ rows' = NoRows
    /\ UNCHANGED <<mfa, busy, flow, stocks, late, limiter, clicks, faults, calm>>

-----------------------------------------------------------------------------
(* Answers.                                                                *)

\* Mutant: sends the call whether somebody is signed in or not.
LoadInventoryAnyway(f, signedIn) ==
    /\ flow' = [flow EXCEPT ![f] =
         [op |-> [kind |-> "load"], token |-> signedIn, seen |-> NoRows,
          at |-> "sent"]]
    /\ busy' = TRUE

\* Mutant: believes that a table, once loaded, shows the change.
LoadInventoryOnce(f, signedIn) ==
    IF signedIn /\ rows = NoRows
      THEN LoadInventoryAnyway(f, signedIn)
      ELSE /\ flow' = [flow EXCEPT ![f] = Idle]
           /\ busy' = FALSE

\* loadInventory at the end of another handler, which returns at once, and
\* leaves busy as it is, when nobody is signed in any more.
LoadInventory(f, signedIn) ==
    IF signedIn
      THEN /\ flow' = [flow EXCEPT ![f] =
                [op |-> [kind |-> "load"], token |-> TRUE, seen |-> NoRows,
                 at |-> "sent"]]
           /\ busy' = TRUE
      ELSE /\ flow' = [flow EXCEPT ![f] = Idle]
           /\ UNCHANGED busy

RenderProducts(view) == rows' = view

End(f) == /\ flow' = [flow EXCEPT ![f] = Idle]
          /\ busy' = FALSE

Answered(f) ==
    /\ flow[f] # Idle /\ flow[f].at = "ok"
    /\ \/ /\ flow[f].op.kind \in {"login", "mfa"}
          /\ token' = TRUE /\ mfa' = FALSE
          /\ LoadInventory(f, TRUE)
          /\ UNCHANGED rows
       \/ /\ flow[f].op.kind \in {"patch", "add", "delete"}
          /\ LoadInventory(f, token)
          /\ UNCHANGED <<token, mfa, rows>>
       \/ /\ flow[f].op.kind = "load"
          /\ RenderProducts(flow[f].seen)
          /\ End(f)
          /\ UNCHANGED <<token, mfa>>
       \/ /\ flow[f].op.kind = "orders"
          /\ End(f)
          /\ UNCHANGED <<token, mfa, rows>>
    /\ UNCHANGED <<stocks, late, limiter, clicks, faults, calm>>

Challenged(f) ==
    /\ flow[f] # Idle /\ flow[f].at = "challenge"
    /\ mfa' = (mfa \/ flow[f].op.kind = "login")
    /\ End(f)
    /\ UNCHANGED <<token, rows, stocks, late, limiter, clicks, faults, calm>>

\* Mutant: the message is shown and the buttons are not enabled again.
RefusedBusy(f) ==
    /\ flow[f] # Idle /\ flow[f].at = "refused"
    /\ flow' = [flow EXCEPT ![f] = Idle]
    /\ calm' = (calm /\ flow[f].op.kind # "load")
    /\ UNCHANGED <<panel, stocks, late, limiter, clicks, faults>>

Refused(f) ==
    /\ flow[f] # Idle /\ flow[f].at = "refused"
    /\ End(f)
    /\ calm' = (calm /\ flow[f].op.kind # "load")
    /\ UNCHANGED <<token, mfa, rows, stocks, late, limiter, clicks, faults>>

-----------------------------------------------------------------------------
(* The admin service.                                                      *)

\* Mutant: one attempt more than the limit.
AdmitsOneMore(s) ==
    \/ entry[s].count = 0 \/ now - entry[s].windowStart >= Window
    \/ entry[s].count <= Limit

\* authRateLimit for one key at one pod: a window starts with the first attempt
\* after the last one.
Expired(s) == entry[s].count = 0 \/ now - entry[s].windowStart >= Window
Admits(s)  == Expired(s) \/ entry[s].count < Limit

LetThrough(s) ==
    /\ entry' = [entry EXCEPT ![s] =
         IF Expired(s) THEN [windowStart |-> now, count |-> 1]
         ELSE [windowStart |-> entry[s].windowStart, count |-> entry[s].count + 1]]
    /\ admitted' = [admitted EXCEPT ![s][now] = @ + 1]
    /\ UNCHANGED now

Answer(f, at) == flow' = [flow EXCEPT ![f].at = at]

\* An attempt of the panel, and what Cognito says of one that is let through:
\* a wrong password or code, the challenge to enter a code, or a token.
Limited(f, s) ==
    /\ flow[f] # Idle /\ flow[f].at = "sent"
    /\ flow[f].op.kind \in {"login", "mfa"}
    /\ \/ Admits(s) /\ LetThrough(s) /\ Answer(f, "admitted")
       \/ ~Admits(s) /\ Answer(f, "refused") /\ UNCHANGED limiter
    /\ UNCHANGED <<panel, stocks, late, clicks, faults, calm>>

Authenticate(f) ==
    /\ flow[f] # Idle /\ flow[f].at = "admitted"
    /\ flow[f].op.kind \in {"login", "mfa"}
    /\ \E at \in {"refused", "challenge", "ok"} : Answer(f, at)
    /\ UNCHANGED <<panel, stocks, late, limiter, clicks, faults, calm>>

\* An attempt from outside this panel, under any key.
OtherAttempt(s) ==
    /\ Admits(s) /\ LetThrough(s)
    /\ UNCHANGED <<panel, flow, stocks, late, clicks, faults, calm>>

\* requireAdmin: the token may be of no admin, or no longer.
RequireAdmin(f) ==
    /\ flow[f] # Idle /\ flow[f].at = "sent"
    /\ flow[f].op.kind \notin {"login", "mfa"}
    /\ \/ flow[f].token /\ Answer(f, "admitted")
       \/ Answer(f, "refused")
    /\ UNCHANGED <<panel, stocks, late, limiter, clicks, faults, calm>>

-----------------------------------------------------------------------------
(* The catalog.                                                            *)

Perform(f) ==
    LET c == flow[f] IN
    /\ c # Idle /\ c.at = "admitted"
    /\ \/ /\ c.op \in Change /\ Accepts(c.op, inventory)
          /\ inventory' = Mutation(c.op, inventory) /\ Answer(f, "ok")
          /\ UNCHANGED reserved
       \/ /\ c.op \in Change /\ ~Accepts(c.op, inventory)
          /\ Answer(f, "refused") /\ UNCHANGED stocks
       \/ /\ c.op \in Look
          /\ flow' = [flow EXCEPT ![f] =
               [op |-> c.op, token |-> TRUE, at |-> "ok",
                seen |-> IF c.op.kind = "orders" THEN NoRows
                         ELSE [doc |-> inventory, reserved |-> reserved]]]
          /\ UNCHANGED stocks
    /\ UNCHANGED <<panel, late, limiter, clicks, faults, calm>>

Reserve(p) ==
    /\ inventory.stock[p] > 0 /\ reserved[p] < MaxReserved
    /\ inventory' = [inventory EXCEPT !.stock[p] = @ - 1]
    /\ reserved' = [reserved EXCEPT ![p] = @ + 1]
    /\ UNCHANGED <<panel, flow, late, limiter, clicks, faults, calm>>

\* A call fails on its way, or is given up after five seconds while the
\* catalog is still at it.
Fail(f) ==
    LET c == flow[f] IN
    /\ faults < MaxFaults /\ faults' = faults + 1
    /\ c # Idle /\ c.at # "refused"
    /\ Answer(f, "refused")
    /\ calm' = FALSE
    /\ \/ UNCHANGED late
       \/ c.op \in Change /\ c.at = "admitted" /\ late' = late \cup {c}
    /\ UNCHANGED <<panel, stocks, limiter, clicks>>

PerformLate(c) ==
    /\ c \in late /\ late' = late \ {c}
    /\ inventory' = IF Accepts(c.op, inventory) THEN Mutation(c.op, inventory)
                                                ELSE inventory
    /\ UNCHANGED <<panel, flow, reserved, limiter, clicks, faults, calm>>

Tick == /\ now < MaxTime /\ now' = now + 1
        /\ UNCHANGED <<panel, flow, stocks, late, entry, admitted, clicks,
                       faults, calm>>

-----------------------------------------------------------------------------

Buttons(f) ==
    \/ Login(f) \/ SubmitMfa(f) \/ Load(f) \/ Orders(f)
    \/ \E p \in Product : Save(f, p) \/ Delete(f, p) \/ Add(f, p)

Next ==
    \/ Logout \/ Tick
    \/ \E f \in Flow :
         \/ Buttons(f) \/ Answered(f) \/ Challenged(f) \/ Refused(f)
         \/ \E s \in Slot : Limited(f, s)
         \/ Authenticate(f) \/ RequireAdmin(f) \/ Perform(f) \/ Fail(f)
    \/ \E s \in Slot : OtherAttempt(s)
    \/ \E p \in Product : Reserve(p)
    \/ \E c \in late : PerformLate(c)

Spec == Init /\ [][Next]_vars

=============================================================================
