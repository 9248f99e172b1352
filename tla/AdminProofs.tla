----------------------------- MODULE AdminProofs -----------------------------
(***************************************************************************)
(* The admin panel proved: types, the disabling of buttons, what a save    *)
(* makes of the stock, and how many attempts the limiter lets through, for *)
(* every instance.                                                         *)
(***************************************************************************)
EXTENDS AdminProperties, DataLemmas

\* A handler under way is not an idle one.
LEMMA CallIsNotIdle == \A c \in Call : c # Idle
<1> SUFFICES ASSUME NEW c \in Call PROVE c # Idle OBVIOUS
<1>1. "at" \in DOMAIN c BY DEF Call
<1>2. "at" \notin DOMAIN Idle BY DEF Idle
<1> QED BY <1>1, <1>2

\* The products a catalog starts with are an inventory.
LEMMA SeedIsDocument == Seed \in Document
BY StockAssumption DEF Seed, Document

\* What each operation of the panel makes of the document.
LEMMA MutationIsDocument ==
    ASSUME NEW op \in Change, NEW doc \in Document
    PROVE  Mutation(op, doc) \in Document
<1>1. CASE op.kind = "patch"
  <2> DEFINE stock == [doc.stock EXCEPT ![op.product] = op.stock]
  <2>1. op.product \in Product /\ op.stock \in Int BY <1>1 DEF Change
  <2>2. stock \in [Product -> Int] BY <2>1 DEF Document
  <2>3. Mutation(op, doc) = [listed |-> doc.listed, stock |-> stock,
                             writes |-> doc.writes]
    BY <1>1 DEF Mutation, SetStock, Document
  <2> HIDE DEF stock
  <2> QED BY <2>2, <2>3 DEF Document
<1>2. CASE op.kind = "add"
  <2> DEFINE stock == [doc.stock EXCEPT ![op.product] = op.stock]
  <2>1. op.product \in Product /\ op.stock \in Int BY <1>2 DEF Change
  <2>2. stock \in [Product -> Int] BY <2>1 DEF Document
  <2>3. Mutation(op, doc) = [listed |-> doc.listed \cup {op.product},
                             stock |-> stock, writes |-> doc.writes]
    BY <1>2 DEF Mutation, AddProduct, Document
  <2> HIDE DEF stock
  <2> QED BY <2>1, <2>2, <2>3 DEF Document
<1>3. CASE op.kind = "delete"
  <2> DEFINE stock == [doc.stock EXCEPT ![op.product] = 0]
  <2>1. op.product \in Product BY <1>3 DEF Change
  <2>2. stock \in [Product -> Int] BY <2>1 DEF Document
  <2>3. Mutation(op, doc) = [listed |-> doc.listed \ {op.product},
                             stock |-> stock, writes |-> doc.writes]
    BY <1>3 DEF Mutation, RemoveProduct, Document
  <2> HIDE DEF stock
  <2> QED BY <2>1, <2>2, <2>3 DEF Document
<1> QED BY <1>1, <1>2, <1>3 DEF Change

-----------------------------------------------------------------------------
(* Types.                                                                  *)

\* An answer to a call changes nothing of it but how far it is.
LEMMA AnswerKeepsCall ==
    ASSUME TypeOK, NEW f \in Flow, flow[f] # Idle,
           NEW at, Answer(f, at),
           \/ at \in {"admitted", "ok", "refused"}
           \/ at = "challenge" /\ flow[f].op \in Attempt
    PROVE  /\ flow' \in [Flow -> Call \cup {Idle}]
           /\ flow'[f] \in Call
           /\ flow'[f].at = at /\ flow'[f].op = flow[f].op
           /\ flow'[f].seen = flow[f].seen
           /\ \A g \in Flow \ {f} : flow'[g] = flow[g]
<1>1. flow[f] \in Call /\ flow \in [Flow -> Call \cup {Idle}] BY DEF TypeOK
<1>2. flow' = [flow EXCEPT ![f] = [flow[f] EXCEPT !.at = at]]
  BY <1>1 DEF Answer
<1> DEFINE c == [flow[f] EXCEPT !.at = at]
<1>3. c = [op |-> flow[f].op, token |-> flow[f].token,
           seen |-> flow[f].seen, at |-> at]
  <2> DEFINE calls(ops, tokens, ats) ==
        [op: ops, token: tokens, seen: View \cup {NoRows}, at: ats]
  <2>1. ASSUME NEW A, NEW B, NEW D, NEW d \in calls(A, B, D)
        PROVE  [d EXCEPT !.at = at] = [op |-> d.op, token |-> d.token,
                                       seen |-> d.seen, at |-> at]
    OBVIOUS
  <2>2. \E A, B, D : flow[f] \in calls(A, B, D)
    <3>1. CASE flow[f] \in [op: Attempt, token: BOOLEAN, seen: View \cup {NoRows},
                            at: {"sent", "admitted", "challenge", "ok", "refused"}]
      BY <3>1
    <3>2. CASE flow[f] \in [op: Change \cup Look, token: {TRUE},
                            seen: View \cup {NoRows},
                            at: {"sent", "admitted", "ok", "refused"}]
      BY <3>2
    <3> QED BY <1>1, <3>1, <3>2 DEF Call
  <2> QED BY <2>1, <2>2
<1>4. c \in Call
  <2>1. CASE flow[f].op \in Attempt
    <3>1. flow[f].token \in BOOLEAN /\ flow[f].seen \in View \cup {NoRows}
      BY <1>1 DEF Call
    <3>2. at \in {"sent", "admitted", "challenge", "ok", "refused"} OBVIOUS
    <3> HIDE DEF c
    <3> QED BY <1>3, <2>1, <3>1, <3>2 DEF Call
  <2>2. CASE flow[f].op \notin Attempt
    <3>1. /\ flow[f].op \in Change \cup Look /\ flow[f].token = TRUE
          /\ flow[f].seen \in View \cup {NoRows}
      BY <1>1, <2>2 DEF Call
    <3>2. at \in {"sent", "admitted", "ok", "refused"} BY <2>2
    <3> HIDE DEF c
    <3> QED BY <1>3, <3>1, <3>2 DEF Call
  <2> QED BY <2>1, <2>2
<1>5. flow' = [flow EXCEPT ![f] = c] BY <1>2
<1> HIDE DEF c
<1>6. c.at = at /\ c.op = flow[f].op /\ c.seen = flow[f].seen BY <1>3
<1> QED BY <1>1, <1>4, <1>5, <1>6

\* The kinds of a call tell what it carries.
LEMMA CallKinds ==
    ASSUME NEW c \in Call
    PROVE  /\ c.op \in Attempt \cup Change \cup Look
           /\ c.op \in Attempt <=> c.op.kind \in {"login", "mfa"}
           /\ c.op \in Change <=> c.op.kind \in {"patch", "add", "delete"}
           /\ c.op \in Look <=> c.op.kind \in {"load", "orders"}
           /\ c.op \notin Attempt => c.token = TRUE
           /\ c.seen \in View \cup {NoRows}
<1>1. /\ c.op \in Attempt \cup Change \cup Look
      /\ c.op \notin Attempt => c.token = TRUE
      /\ c.seen \in View \cup {NoRows}
  BY DEF Call
<1>2. /\ \A op \in Attempt : op.kind \in {"login", "mfa"}
      /\ \A op \in Look : op.kind \in {"load", "orders"}
  BY DEF Attempt, Look
<1>3. \A op \in Change : op.kind \in {"patch", "add", "delete"}
  BY DEF Change
<1> QED BY <1>1, <1>2, <1>3

\* The call of loadInventory.
LEMMA LoadIsCall ==
    [op |-> [kind |-> "load"], token |-> TRUE, seen |-> NoRows, at |-> "sent"]
      \in Call
<1>1. [kind |-> "load"] \in Look BY DEF Look
<1> QED BY <1>1 DEF Call

\* A click of a button that exists.
LEMMA ClickKeepsTypes ==
    ASSUME TypeOK, NEW f \in Flow, NEW op, Click(f, op),
           op \in Attempt \cup Change \cup Look,
           op \in Attempt \/ token
    PROVE  TypeOK' /\ flow'[f] \in Call
<1>1. Sent(op) \in Call
  <2>1. Sent(op) = [op |-> op, token |-> token, seen |-> rows, at |-> "sent"]
    BY DEF Sent
  <2>2. token \in BOOLEAN /\ rows \in View \cup {NoRows} BY DEF TypeOK
  <2>3. CASE op \in Attempt
    <3>1. ASSUME NEW t \in BOOLEAN
          PROVE  [op |-> op, token |-> t, seen |-> rows, at |-> "sent"] \in Call
      BY <2>2, <2>3 DEF Call
    <3> QED BY <2>1, <2>2, <3>1
  <2>4. CASE op \notin Attempt /\ token = TRUE BY <2>1, <2>2, <2>4 DEF Call
  <2> QED BY <2>2, <2>3, <2>4
<1>2. flow' \in [Flow -> Call \cup {Idle}] /\ flow'[f] \in Call
  BY <1>1 DEF Click, TypeOK
<1>3. clicks' \in 0..MaxClicks BY BoundAssumption DEF Click, TypeOK
<1>4. busy' \in BOOLEAN /\ calm' \in BOOLEAN BY DEF Click, AtRest, TypeOK
<1> QED
  BY <1>2, <1>3, <1>4 DEF Click, TypeOK, stocks, limiter

\* An attempt that a pod lets through stays within its limit.
LEMMA LetThroughKeepsTypes ==
    ASSUME TypeOK, NEW g \in Slot, Admits(g), LetThrough(g)
    PROVE  /\ entry' \in [Slot -> [windowStart: 0..MaxTime, count: 0..Limit]]
           /\ now' \in 0..MaxTime
           /\ admitted' \in [Slot -> [0..MaxTime -> Nat]]
<1>1. /\ entry \in [Slot -> [windowStart: 0..MaxTime, count: 0..Limit]]
      /\ now \in 0..MaxTime
      /\ admitted \in [Slot -> [0..MaxTime -> Nat]]
      /\ Limit \in Nat \ {0}
  BY LimitAssumption DEF TypeOK
<1>2. ASSUME Expired(g)
      PROVE  entry' \in [Slot -> [windowStart: 0..MaxTime, count: 0..Limit]]
  <2>1. entry' = [entry EXCEPT ![g] = [windowStart |-> now, count |-> 1]]
    BY <1>2 DEF LetThrough
  <2>2. 1 \in 0..Limit BY <1>1
  <2> QED BY <1>1, <2>1, <2>2
<1>3. ASSUME ~Expired(g)
      PROVE  entry' \in [Slot -> [windowStart: 0..MaxTime, count: 0..Limit]]
  <2> DEFINE e == [windowStart |-> entry[g].windowStart,
                   count |-> entry[g].count + 1]
  <2>1. entry' = [entry EXCEPT ![g] = e]
    BY <1>3 DEF LetThrough
  <2>2. entry[g].count + 1 \in 0..Limit BY <1>1, <1>3 DEF Admits
  <2>3. e \in [windowStart: 0..MaxTime, count: 0..Limit] BY <1>1, <2>2
  <2> HIDE DEF e
  <2> QED BY <1>1, <2>1, <2>3
<1>4. admitted' \in [Slot -> [0..MaxTime -> Nat]]
  <2> DEFINE counts == [admitted[g] EXCEPT ![now] = admitted[g][now] + 1]
  <2>1. admitted' = [admitted EXCEPT ![g] = counts] BY DEF LetThrough
  <2>2. admitted[g] \in [0..MaxTime -> Nat] /\ admitted[g][now] \in Nat
    BY <1>1
  <2>3. admitted[g][now] + 1 \in Nat BY <2>2
  <2>4. counts \in [0..MaxTime -> Nat] BY <2>2, <2>3
  <2> HIDE DEF counts
  <2> QED BY <1>1, <2>1, <2>4
<1> QED BY <1>1, <1>2, <1>3, <1>4 DEF LetThrough

\* Every button sends an operation, and all but an attempt need a token; the
\* ones of a row send the product the row shows.
LEMMA ButtonsClick ==
    ASSUME TypeOK, NEW f \in Flow, Buttons(f)
    PROVE  \E op \in Attempt \cup Change \cup Look :
             /\ Click(f, op)
             /\ op \in Attempt \/ token
             /\ op.kind = "patch" =>
                  rows # NoRows /\ op.product \in rows.doc.listed
             /\ op \in Look /\ op.kind = "load" => Load(f)
<1>1. CASE Login(f) \/ SubmitMfa(f)
  <2>1. PICK op \in Attempt : Click(f, op)
    BY <1>1 DEF Login, SubmitMfa, Attempt
  <2>2. op.kind \in {"login", "mfa"} BY DEF Attempt
  <2> QED BY <2>1, <2>2
<1>2. CASE Load(f) \/ Orders(f)
  <2>1. PICK op \in Look : Click(f, op) /\ token
                           /\ (op.kind = "load" => Load(f))
    BY <1>2 DEF Load, Orders, Look
  <2>2. op.kind \in {"load", "orders"} BY DEF Look
  <2> QED BY <2>1, <2>2
<1>3. ASSUME NEW p \in Product, Save(f, p)
      PROVE  \E op \in Change : /\ Click(f, op) /\ token
                                /\ rows # NoRows /\ op.product \in rows.doc.listed
  <2>1. rows \in View BY <1>3 DEF Save, TypeOK
  <2>2. PICK edited \in {0, 1} :
          /\ rows.doc.stock[p] + edited >= 0
          /\ Click(f, [kind |-> "patch", product |-> p,
                       stock |-> rows.doc.stock[p] + edited])
    BY <1>3 DEF Save
  <2> DEFINE op == [kind |-> "patch", product |-> p,
                    stock |-> rows.doc.stock[p] + edited]
  <2>3. rows.doc.stock[p] \in Int BY <2>1 DEF View, Document
  <2>4. rows.doc.stock[p] + edited \in Nat BY <2>2, <2>3
  <2>5. op \in Change /\ op.product = p BY <2>4 DEF Change
  <2>6. Click(f, op) BY <2>2
  <2> HIDE DEF op
  <2> QED BY <1>3, <2>5, <2>6 DEF Save
<1>4. ASSUME NEW p \in Product, Delete(f, p) \/ Add(f, p)
      PROVE  \E op \in Change : Click(f, op) /\ token /\ op.kind # "patch"
  <2>1. /\ [kind |-> "delete", product |-> p] \in Change
        /\ [kind |-> "add", product |-> p, stock |-> 1] \in Change
    BY DEF Change
  <2>2. CASE Delete(f, p) BY <2>1, <2>2 DEF Delete
  <2>3. CASE Add(f, p) BY <2>1, <2>3 DEF Add
  <2> QED BY <1>4, <2>2, <2>3
<1>5. \A op \in Change : op \notin Look
  BY DEF Change, Look
<1> QED BY <1>1, <1>2, <1>3, <1>4, <1>5 DEF Buttons

\* So a click keeps the types.
LEMMA ButtonsKeepTypes ==
    ASSUME TypeOK, NEW f \in Flow, Buttons(f)
    PROVE  TypeOK' /\ flow'[f] \in Call
BY ButtonsClick, ClickKeepsTypes

\* What a handler does with an answer.
LEMMA AnsweredKeepsTypes ==
    ASSUME TypeOK, NEW f \in Flow, Answered(f) \/ Challenged(f) \/ Refused(f)
    PROVE  TypeOK'
<1>1. /\ flow' \in [Flow -> Call \cup {Idle}]
      /\ busy' \in BOOLEAN /\ token' \in BOOLEAN /\ mfa' \in BOOLEAN
      /\ calm' \in BOOLEAN
  BY LoadIsCall
  DEF Answered, Challenged, Refused, LoadInventory, End, TypeOK
<1>2. rows' \in View \cup {NoRows}
  <2>1. flow[f] \in Call BY DEF TypeOK, Answered, Challenged, Refused
  <2>2. flow[f].seen \in View \cup {NoRows} BY <2>1, CallKinds
  <2> QED BY <2>2
    DEF Answered, Challenged, Refused, RenderProducts, TypeOK
<1>3. UNCHANGED <<stocks, late, limiter, clicks, faults>>
  BY DEF Answered, Challenged, Refused
<1> QED BY <1>1, <1>2, <1>3 DEF TypeOK, stocks, limiter

\* The steps of the admin service.
LEMMA ServiceKeepsTypes ==
    ASSUME TypeOK, NEW f \in Flow,
           \/ \E g \in Slot : Limited(f, g)
           \/ Authenticate(f) \/ RequireAdmin(f)
    PROVE  TypeOK'
<1>1. flow[f] # Idle /\ flow[f] \in Call
  BY DEF Limited, Authenticate, RequireAdmin, TypeOK
<1>2. \E at : /\ Answer(f, at)
              /\ \/ at \in {"admitted", "ok", "refused"}
                 \/ at = "challenge" /\ flow[f].op \in Attempt
  BY <1>1, CallKinds DEF Limited, Authenticate, RequireAdmin
<1>3. flow' \in [Flow -> Call \cup {Idle}] BY <1>1, <1>2, AnswerKeepsCall
<1>4. /\ entry' \in [Slot -> [windowStart: 0..MaxTime, count: 0..Limit]]
      /\ now' \in 0..MaxTime
      /\ admitted' \in [Slot -> [0..MaxTime -> Nat]]
  <2>1. CASE UNCHANGED limiter BY <2>1 DEF limiter, TypeOK
  <2>2. CASE \E g \in Slot : Admits(g) /\ LetThrough(g)
    BY <2>2, LetThroughKeepsTypes
  <2> QED BY <2>1, <2>2 DEF Limited, Authenticate, RequireAdmin
<1>5. UNCHANGED <<panel, stocks, late, clicks, faults, calm>>
  BY DEF Limited, Authenticate, RequireAdmin
<1> QED BY <1>3, <1>4, <1>5 DEF TypeOK, panel, stocks

\* What a change makes of the catalog.
LEMMA CatalogKeepsTypes ==
    ASSUME TypeOK, NEW f \in Flow, Perform(f)
    PROVE  TypeOK' /\ flow'[f] \in Call
<1>1. flow[f] # Idle /\ flow[f] \in Call BY DEF Perform, TypeOK
<1>2. flow' \in [Flow -> Call \cup {Idle}] /\ flow'[f] \in Call
  <2>1. CASE Answer(f, "ok") \/ Answer(f, "refused")
    BY <1>1, <2>1, AnswerKeepsCall
  <2>2. CASE flow[f].op \in Look
    <3> DEFINE view == IF flow[f].op.kind = "orders" THEN NoRows
                       ELSE [doc |-> inventory, reserved |-> reserved]
    <3> DEFINE c == [op |-> flow[f].op, token |-> TRUE, seen |-> view,
                     at |-> "ok"]
    <3>1. flow[f].op \notin Attempt /\ flow[f].op \notin Change
      BY <1>1, <2>2, CallKinds
    <3>2. view \in View \cup {NoRows} BY DEF View, TypeOK
    <3>3. flow' = [flow EXCEPT ![f] = c]
      BY <1>1, <2>2, <3>1 DEF Perform, TypeOK
    <3> HIDE DEF view
    <3>4. c \in Call BY <2>2, <3>2 DEF Call
    <3> HIDE DEF c
    <3> QED BY <3>3, <3>4 DEF TypeOK
  <2> QED BY <2>1, <2>2 DEF Perform
<1>3. inventory' \in Document
  BY MutationIsDocument DEF Perform, TypeOK, stocks
<1>4. reserved' \in [Product -> Nat] BY DEF Perform, TypeOK, stocks
<1> QED BY <1>2, <1>3, <1>4 DEF Perform, TypeOK, panel, limiter

\* A step of a service for one handler says of the call how far it is, and
\* what was seen, and leaves the other handlers alone.
LEMMA AnswerOrLook ==
    ASSUME TypeOK, NEW f \in Flow,
           \/ \E g \in Slot : Limited(f, g)
           \/ Authenticate(f) \/ RequireAdmin(f) \/ Perform(f) \/ Fail(f)
    PROVE  /\ flow[f] # Idle /\ flow[f] \in Call
           /\ flow'[f] \in Call /\ flow'[f].op = flow[f].op
           /\ flow[f].op \notin Look => flow'[f].seen = flow[f].seen
           /\ \A g \in Flow \ {f} : flow'[g] = flow[g]
<1>1. flow[f] # Idle /\ flow[f] \in Call
  BY DEF Limited, Authenticate, RequireAdmin, Perform, Fail, TypeOK
<1>2. CASE \E at : /\ Answer(f, at)
                   /\ \/ at \in {"admitted", "ok", "refused"}
                      \/ at = "challenge" /\ flow[f].op \in Attempt
  <2>1. PICK at : /\ Answer(f, at)
                  /\ \/ at \in {"admitted", "ok", "refused"}
                     \/ at = "challenge" /\ flow[f].op \in Attempt
    BY <1>2
  <2>2. /\ flow'[f] \in Call
        /\ flow'[f].op = flow[f].op /\ flow'[f].seen = flow[f].seen
        /\ \A g \in Flow \ {f} : flow'[g] = flow[g]
    BY <1>1, <2>1, AnswerKeepsCall
  <2> QED BY <1>1, <2>2
<1>3. CASE Perform(f) /\ flow[f].op \in Look
  <2>1. flow[f].op \notin Change BY <1>1, <1>3, CallKinds
  <2>2. /\ flow'[f].op = flow[f].op
        /\ \A g \in Flow \ {f} : flow'[g] = flow[g]
    BY <1>3, <2>1 DEF Perform, TypeOK
  <2> QED BY <1>1, <1>3, <2>2, CatalogKeepsTypes
<1> QED
  BY <1>1, <1>2, <1>3, CallKinds
  DEF Limited, Authenticate, RequireAdmin, Perform, Fail

\* A reservation moves a unit from the stock to what customers have.
LEMMA ReserveTakesOne ==
    ASSUME TypeOK, NEW p \in Product, Reserve(p)
    PROVE  /\ inventory' \in Document /\ reserved' \in [Product -> Nat]
           /\ inventory'.listed = inventory.listed
           /\ \A x \in Product : inventory'.stock[x] + reserved'[x]
                                   = inventory.stock[x] + reserved[x]
<1> DEFINE stock == [inventory.stock EXCEPT ![p] = inventory.stock[p] - 1]
<1>1. inventory' = [listed |-> inventory.listed, stock |-> stock,
                    writes |-> inventory.writes]
  BY DEF Reserve, TypeOK, Document
<1>2. /\ inventory.stock \in [Product -> Int] /\ reserved \in [Product -> Nat]
      /\ inventory.listed \subseteq Product
      /\ inventory.writes = {}
  BY DEF TypeOK, Document
<1>3. reserved' = [reserved EXCEPT ![p] = reserved[p] + 1] BY DEF Reserve
<1>4. stock \in [Product -> Int] BY <1>2
<1>5. \A x \in Product : stock[x] + reserved'[x]
                          = inventory.stock[x] + reserved[x]
  <2> SUFFICES ASSUME NEW x \in Product
               PROVE  stock[x] + reserved'[x] = inventory.stock[x] + reserved[x]
    OBVIOUS
  <2>1. CASE x = p
    <3>1. stock[x] = inventory.stock[x] - 1 /\ reserved'[x] = reserved[x] + 1
      BY <1>2, <1>3, <2>1
    <3>2. inventory.stock[x] \in Int /\ reserved[x] \in Int BY <1>2
    <3> HIDE DEF stock
    <3> QED BY <3>1, <3>2
  <2>2. CASE x # p
    <3>1. stock[x] = inventory.stock[x] /\ reserved'[x] = reserved[x]
      BY <1>2, <1>3, <2>2
    <3> QED BY <3>1
  <2> QED BY <2>1, <2>2
<1>6. reserved' \in [Product -> Nat]
  <2>1. reserved[p] + 1 \in Nat BY <1>2
  <2> QED BY <1>2, <1>3, <2>1
<1> HIDE DEF stock
<1>7. inventory' \in Document BY <1>1, <1>2, <1>4 DEF Document
<1>8. inventory'.stock = stock /\ inventory'.listed = inventory.listed
  BY <1>1
<1> QED BY <1>5, <1>6, <1>7, <1>8

\* What happens outside the panel.
LEMMA OthersKeepTypes ==
    ASSUME TypeOK,
           \/ Logout \/ Tick
           \/ \E f \in Flow : Fail(f)
           \/ \E g \in Slot : OtherAttempt(g)
           \/ \E p \in Product : Reserve(p)
           \/ \E c \in late : PerformLate(c)
    PROVE  TypeOK'
<1>1. CASE Logout BY <1>1 DEF Logout, TypeOK, stocks, limiter
<1>2. CASE Tick
  BY <1>2, BoundAssumption DEF Tick, TypeOK, panel, stocks
<1>3. ASSUME NEW f \in Flow, Fail(f) PROVE TypeOK'
  <2>1. flow[f] # Idle /\ flow[f] \in Call BY <1>3 DEF Fail, TypeOK
  <2>2. flow' \in [Flow -> Call \cup {Idle}]
    BY <1>3, <2>1, AnswerKeepsCall DEF Fail
  <2>3. late' \subseteq {c \in Call : c.op \in Change}
    BY <1>3, <2>1 DEF Fail, TypeOK
  <2>4. faults' \in 0..MaxFaults BY <1>3, BoundAssumption DEF Fail, TypeOK
  <2>5. calm' \in BOOLEAN BY <1>3 DEF Fail
  <2> QED
    BY <1>3, <2>2, <2>3, <2>4, <2>5 DEF Fail, TypeOK, panel, stocks, limiter
<1>4. ASSUME NEW g \in Slot, OtherAttempt(g) PROVE TypeOK'
  BY <1>4, LetThroughKeepsTypes DEF OtherAttempt, TypeOK, panel, stocks
<1>5. ASSUME NEW p \in Product, Reserve(p) PROVE TypeOK'
  <2>1. inventory' \in Document /\ reserved' \in [Product -> Nat]
    BY <1>5, ReserveTakesOne
  <2> QED BY <1>5, <2>1 DEF Reserve, TypeOK, panel, limiter
<1>6. ASSUME NEW c \in late, PerformLate(c) PROVE TypeOK'
  <2>1. c.op \in Change /\ inventory \in Document BY DEF TypeOK
  <2>2. inventory' \in Document
    BY <1>6, <2>1, MutationIsDocument DEF PerformLate
  <2> QED BY <1>6, <2>2 DEF PerformLate, TypeOK, panel, limiter
<1> QED BY <1>1, <1>2, <1>3, <1>4, <1>5, <1>6

\* Every reachable state of the panel and the admin service is well typed.
THEOREM TypeCorrect == Spec => []TypeOK
<1>1. Init => TypeOK
  <2> SUFFICES ASSUME Init PROVE TypeOK OBVIOUS
  <2>1. /\ 0 \in 0..MaxTime /\ 0 \in 0..Limit
        /\ 0 \in 0..MaxClicks /\ 0 \in 0..MaxFaults
    BY BoundAssumption, LimitAssumption
  <2>2. entry \in [Slot -> [windowStart: 0..MaxTime, count: 0..Limit]]
    BY <2>1 DEF Init, NoEntry
  <2> QED BY <2>1, <2>2, SeedIsDocument DEF Init, TypeOK
<1>2. TypeOK /\ [Next]_vars => TypeOK'
  <2> SUFFICES ASSUME TypeOK, [Next]_vars PROVE TypeOK' OBVIOUS
  <2>1. CASE UNCHANGED vars
    BY <2>1 DEF vars, panel, stocks, limiter, TypeOK
  <2>2. ASSUME NEW f \in Flow,
               \/ Buttons(f) \/ Answered(f) \/ Challenged(f) \/ Refused(f)
               \/ \E g \in Slot : Limited(f, g)
               \/ Authenticate(f) \/ RequireAdmin(f) \/ Perform(f)
        PROVE  TypeOK'
    BY <2>2, ButtonsKeepTypes, AnsweredKeepsTypes, ServiceKeepsTypes,
       CatalogKeepsTypes
  <2> QED BY <2>1, <2>2, OthersKeepTypes DEF Next
<1> QED BY <1>1, <1>2, PTL DEF Spec

-----------------------------------------------------------------------------
(* The disabling of buttons.                                               *)

\* Why the panel is never left disabled.  A handler that may end without
\* turning busy off is one that finds nobody signed in; then there is an
\* attempt to sign in under way, which turns it off or goes on to load.
Ends(f) == flow[f] # Idle /\ (token \/ flow[f].op \in Attempt)
WillEnable == busy => \E f \in Flow : Ends(f)

\* Every step keeps a handler that will turn busy off.
LEMMA NextKeepsEnabling ==
    ASSUME TypeOK, WillEnable, [Next]_vars
    PROVE  WillEnable'
<1> USE DEF WillEnable, Ends
<1>1. CASE UNCHANGED vars BY <1>1 DEF vars, panel
<1>2. ASSUME NEW f \in Flow, Buttons(f) PROVE WillEnable'
  <2>1. PICK op : Click(f, op) /\ (op \in Attempt \/ token)
    BY <1>2, ButtonsClick
  <2>2. flow'[f] # Idle BY <1>2, ButtonsKeepTypes, CallIsNotIdle
  <2>3. flow'[f].op = op /\ token' = token BY <2>1 DEF Click, Sent, TypeOK
  <2> QED BY <2>1, <2>2, <2>3
<1>3. ASSUME NEW f \in Flow, Answered(f) PROVE WillEnable'
  <2>1. flow[f] # Idle /\ flow[f] \in Call BY <1>3 DEF Answered, TypeOK
  <2>2. CASE LoadInventory(f, TRUE) /\ token' = TRUE
    <3>1. flow'[f] \in Call /\ flow'[f] # Idle
      BY <2>2, LoadIsCall, CallIsNotIdle DEF LoadInventory, TypeOK
    <3> QED BY <2>2, <3>1
  <2>3. CASE LoadInventory(f, token) /\ token' = token
             /\ flow[f].op.kind \in {"patch", "add", "delete"}
    <3>1. CASE token
      <4>1. flow'[f] \in Call /\ flow'[f] # Idle
        BY <2>3, <3>1, LoadIsCall, CallIsNotIdle DEF LoadInventory, TypeOK
      <4> QED BY <2>3, <3>1, <4>1
    <3>2. CASE ~token
      <4>1. flow[f].op \notin Attempt BY <2>1, <2>3, CallKinds
      <4>2. busy' = busy /\ \A g \in Flow \ {f} : flow'[g] = flow[g]
        BY <2>3, <3>2 DEF LoadInventory, TypeOK
      <4> QED BY <2>3, <3>2, <4>1, <4>2
    <3> QED BY <3>1, <3>2
  <2>4. CASE End(f) BY <2>4 DEF End
  <2> QED BY <1>3, <2>2, <2>3, <2>4 DEF Answered
<1>4. ASSUME NEW f \in Flow, Challenged(f) \/ Refused(f) PROVE WillEnable'
  BY <1>4 DEF Challenged, Refused, End
<1>5. ASSUME NEW f \in Flow,
             \/ \E g \in Slot : Limited(f, g)
             \/ Authenticate(f) \/ RequireAdmin(f) \/ Perform(f) \/ Fail(f)
      PROVE  WillEnable'
  <2>1. UNCHANGED <<busy, token>>
    BY <1>5 DEF Limited, Authenticate, RequireAdmin, Perform, Fail, panel
  <2>2. /\ flow'[f] \in Call /\ flow'[f].op = flow[f].op
        /\ \A g \in Flow \ {f} : flow'[g] = flow[g]
    BY <1>5, AnswerOrLook
  <2>3. flow'[f] # Idle BY <2>2, CallIsNotIdle
  <2> QED BY <2>1, <2>2, <2>3
<1>6. CASE Logout BY <1>6 DEF Logout
<1>7. CASE \/ Tick
           \/ \E g \in Slot : OtherAttempt(g)
           \/ \E p \in Product : Reserve(p)
           \/ \E c \in late : PerformLate(c)
  BY <1>7 DEF Tick, OtherAttempt, Reserve, PerformLate, panel
<1> QED BY <1>1, <1>2, <1>3, <1>4, <1>5, <1>6, <1>7 DEF Next

\* However handlers overlap and whatever fails, busy is only on while a handler
\* is under way that turns it off, or whose successor does.
THEOREM NeverLeftDisabled == Spec => []BusyEnds
<1>1. Init => WillEnable BY DEF Init, WillEnable
<1>2. TypeOK /\ WillEnable /\ [Next]_vars => WillEnable'
  BY NextKeepsEnabling
<1>3. WillEnable => BusyEnds BY DEF WillEnable, Ends, BusyEnds
<1> QED BY <1>1, <1>2, <1>3, TypeCorrect, PTL DEF Spec

-----------------------------------------------------------------------------
(* What a save makes of the stock.                                         *)

\* The table, or what a handler has seen of it, accounts for the stock: what
\* is missing from it has been reserved since.
Matches(view) ==
    view # NoRows =>
        \A p \in view.doc.listed :
            inventory.stock[p] + reserved[p] = view.doc.stock[p] + view.reserved[p]

\* The handler's next answer or the one after it replaces the table.
Reloads(c) == \/ c.op.kind = "load"
              \/ c.op \in Change /\ c.at = "ok"

\* While the admin waits for each handler: one is under way, and busy until it
\* ends; the table accounts for the stock unless it is about to be replaced; so
\* does what a save or a load has seen.
Accounted(c) ==
    /\ busy
    /\ c.op \in Attempt \/ token
    /\ c.op.kind = "patch" /\ c.at # "ok" =>
         /\ c.seen # NoRows /\ c.op.product \in c.seen.doc.listed
         /\ Matches(c.seen)
    /\ c.op.kind = "load" /\ c.at = "ok" => Matches(c.seen)

Accounts ==
    calm =>
        /\ late = {}
        /\ \A f, g \in Flow : flow[f] # Idle /\ flow[g] # Idle => f = g
        /\ \A f \in Flow : flow[f] # Idle => Accounted(flow[f])
        /\ (\A f \in Flow : flow[f] # Idle => ~Reloads(flow[f])) => Matches(rows)

\* As long as neither the inventory nor what is reserved of it changes, the
\* same views match; and they do after a reservation.
LEMMA SameMatches ==
    ASSUME NEW view, Matches(view), UNCHANGED stocks
    PROVE  Matches(view)'
BY DEF Matches, stocks

\* A reservation takes from the stock what it adds to the reserved units.
LEMMA ReserveMatches ==
    ASSUME TypeOK, NEW p \in Product, Reserve(p),
           NEW view \in View \cup {NoRows}, Matches(view)
    PROVE  Matches(view)'
<1>1. \A x \in Product : inventory'.stock[x] + reserved'[x]
                         = inventory.stock[x] + reserved[x]
  BY ReserveTakesOne
<1>2. CASE view = NoRows BY <1>2 DEF Matches
<1>3. CASE view \in View
  <2>1. view.doc.listed \subseteq Product BY <1>3 DEF View, Document
  <2> QED BY <1>1, <2>1 DEF Matches
<1> QED BY <1>2, <1>3

\* A click at rest: the table still matches, or the click is to load it.
LEMMA ButtonsAccount ==
    ASSUME TypeOK, Accounts, NEW f \in Flow, Buttons(f)
    PROVE  Accounts'
<1> SUFFICES ASSUME calm' PROVE Accounts' BY DEF Accounts
<1>1. PICK op \in Attempt \cup Change \cup Look :
        /\ Click(f, op)
        /\ op \in Attempt \/ token
        /\ op.kind = "patch" => rows # NoRows /\ op.product \in rows.doc.listed
  BY ButtonsClick
<1>2. /\ late = {} /\ \A g \in Flow : flow[g] = Idle
      /\ calm \/ op.kind = "load"
  BY <1>1 DEF Click, AtRest
<1>3. /\ flow'[f] = [op |-> op, token |-> token, seen |-> rows, at |-> "sent"]
      /\ \A g \in Flow \ {f} : flow'[g] = Idle
      /\ busy' /\ token' = token /\ rows' = rows /\ late' = late
      /\ UNCHANGED stocks
  BY <1>1, <1>2 DEF Click, Sent, TypeOK, stocks
<1>4. op.kind # "load" => Matches(rows)' /\ ~Reloads(flow'[f])
  <2> SUFFICES ASSUME op.kind # "load" PROVE Matches(rows)' /\ ~Reloads(flow'[f])
    OBVIOUS
  <2>1. Matches(rows) BY <1>2 DEF Accounts
  <2>2. Matches(rows)' BY <2>1, <1>3 DEF Matches, stocks
  <2>3. flow'[f].op = op /\ flow'[f].at = "sent" BY <1>3
  <2> QED BY <2>2, <2>3 DEF Reloads
<1>5. flow'[f] # Idle BY ButtonsKeepTypes, CallIsNotIdle
<1>6. Accounted(flow[f])'
  <2>1. /\ flow'[f].op = op /\ flow'[f].at = "sent" /\ flow'[f].seen = rows
    BY <1>3
  <2>2. op.kind = "patch" => Matches(flow[f].seen)'
    BY <1>3, <1>4, <2>1 DEF Matches
  <2> QED BY <1>1, <1>3, <2>1, <2>2 DEF Accounted
<1>7. (\A g \in Flow : flow'[g] # Idle => ~Reloads(flow'[g])) => Matches(rows)'
  <2>1. op.kind = "load" => Reloads(flow'[f]) BY <1>3 DEF Reloads
  <2> QED BY <1>4, <1>5, <2>1
<1> QED BY <1>2, <1>3, <1>5, <1>6, <1>7 DEF Accounts, Reloads

\* Where the one handler under way goes on or ends, what is to be shown of it.
LEMMA OneGoesOn ==
    ASSUME TypeOK, Accounts, NEW f \in Flow, flow[f] # Idle,
           \A g \in Flow \ {f} : flow'[g] = flow[g],
           calm' => calm, late' = late,
           calm' /\ flow'[f] # Idle => Accounted(flow[f])',
           calm' /\ (flow'[f] # Idle => ~Reloads(flow[f])') => Matches(rows)'
    PROVE  Accounts'
<1> SUFFICES ASSUME calm' PROVE Accounts' BY DEF Accounts
<1>1. \A g \in Flow \ {f} : flow'[g] = Idle BY DEF Accounts
<1>2. late' = {} BY DEF Accounts
<1>3. \A g, h \in Flow : flow'[g] # Idle /\ flow'[h] # Idle => g = h
  BY <1>1
<1>4. \A g \in Flow : flow'[g] # Idle => Accounted(flow[g])'
  BY <1>1
<1>5. (\A g \in Flow : flow'[g] # Idle => ~Reloads(flow[g])') => Matches(rows)'
  OBVIOUS
<1> QED BY <1>2, <1>3, <1>4, <1>5 DEF Accounts

\* An answer: a change is followed by a load, a load replaces the table.
LEMMA AnsweredAccounts ==
    ASSUME TypeOK, Accounts, NEW f \in Flow,
           Answered(f) \/ Challenged(f) \/ Refused(f)
    PROVE  Accounts'
<1>1. /\ flow[f] # Idle /\ flow[f] \in Call /\ late' = late /\ (calm' => calm)
      /\ UNCHANGED stocks
      /\ \A g \in Flow \ {f} : flow'[g] = flow[g]
  BY DEF Answered, Challenged, Refused, LoadInventory, End, TypeOK
<1>2. ASSUME calm'
      PROVE  /\ flow'[f] # Idle => Accounted(flow[f])'
             /\ (flow'[f] # Idle => ~Reloads(flow[f])') => Matches(rows)'
  <2>1. Accounted(flow[f]) BY <1>1, <1>2 DEF Accounts
  <2>2. ~Reloads(flow[f]) => Matches(rows)
    <3>1. \A g \in Flow : flow[g] # Idle => g = f BY <1>1, <1>2 DEF Accounts
    <3> QED BY <1>1, <1>2, <3>1 DEF Accounts
  <2>3. CASE LoadInventory(f, TRUE) /\ token'
    <3>1. /\ flow'[f] = [op |-> [kind |-> "load"], token |-> TRUE,
                         seen |-> NoRows, at |-> "sent"]
          /\ busy'
      BY <2>3 DEF LoadInventory, TypeOK
    <3>2. flow'[f].op.kind = "load" /\ flow'[f].at = "sent" BY <3>1
    <3>3. flow'[f] # Idle BY <3>1, LoadIsCall, CallIsNotIdle
    <3> QED BY <2>3, <3>1, <3>2, <3>3 DEF Accounted, Reloads
  <2>4. CASE flow'[f] = Idle /\ rows' = rows /\ ~Reloads(flow[f])
    BY <1>1, <2>2, <2>4, SameMatches DEF Matches, stocks
  <2>5. CASE flow'[f] = Idle /\ rows' = flow[f].seen /\ flow[f].op.kind = "load"
             /\ flow[f].at = "ok"
    BY <1>1, <2>1, <2>5 DEF Accounted, Matches, stocks
  <2>6. CASE Answered(f)
    <3>1. CASE flow[f].op.kind \in {"login", "mfa"}
      BY <2>3, <2>6, <3>1 DEF Answered
    <3>2. CASE flow[f].op.kind \in {"patch", "add", "delete"}
      <4>1. flow[f].op \notin Attempt BY <1>1, <3>2, CallKinds
      <4>2. token = TRUE BY <2>1, <4>1 DEF Accounted, TypeOK
      <4>3. LoadInventory(f, token) /\ token' = token
        BY <2>6, <3>2 DEF Answered
      <4>4. LoadInventory(f, TRUE) /\ token' BY <4>2, <4>3
      <4> QED BY <2>3, <4>4
    <3>3. CASE flow[f].op.kind = "load"
      BY <2>5, <2>6, <3>3 DEF Answered, RenderProducts, End, TypeOK
    <3>4. CASE flow[f].op.kind = "orders"
      <4>1. flow[f].op \notin Change BY <1>1, <3>4, CallKinds
      <4> QED BY <2>4, <2>6, <3>4, <4>1 DEF Answered, End, Reloads, TypeOK
    <3> QED BY <2>6, <3>1, <3>2, <3>3, <3>4 DEF Answered
  <2>7. CASE Challenged(f)
    <3>1. flow[f].op \in Attempt
      <4>1. flow[f].at = "challenge" BY <2>7 DEF Challenged
      <4> QED BY <1>1, <4>1 DEF Call
    <3>2. flow[f].op \notin Change /\ flow[f].op.kind # "load"
      BY <1>1, <3>1, CallKinds
    <3> QED BY <2>4, <2>7, <3>2 DEF Challenged, End, Reloads, TypeOK
  <2>8. CASE Refused(f)
    BY <1>2, <2>4, <2>8 DEF Refused, End, Reloads, TypeOK
  <2> QED BY <2>6, <2>7, <2>8
<1> QED BY <1>1, <1>2, OneGoesOn

\* Before the catalog is asked nothing changes that the table could miss.
LEMMA ServiceAccounts ==
    ASSUME TypeOK, Accounts, NEW f \in Flow,
           \/ \E g \in Slot : Limited(f, g)
           \/ Authenticate(f) \/ RequireAdmin(f)
    PROVE  Accounts'
<1>1. /\ flow[f] # Idle /\ flow[f] \in Call
      /\ flow'[f] \in Call /\ flow'[f].op = flow[f].op
      /\ \A g \in Flow \ {f} : flow'[g] = flow[g]
      /\ flow[f].op \notin Look => flow'[f].seen = flow[f].seen
  BY AnswerOrLook
<1>2. UNCHANGED <<panel, stocks, late, calm>>
  BY DEF Limited, Authenticate, RequireAdmin
<1>3. \/ flow[f].op \in Attempt
      \/ flow'[f].at # "ok" /\ flow[f].at # "ok"
  <2>1. CASE RequireAdmin(f)
    <3>1. /\ flow[f].at = "sent"
          /\ \E at \in {"admitted", "refused"} : Answer(f, at)
      BY <2>1 DEF RequireAdmin
    <3>2. PICK at \in {"admitted", "refused"} : Answer(f, at) BY <3>1
    <3>3. flow'[f].at = at BY <1>1, <3>2, AnswerKeepsCall
    <3> QED BY <3>1, <3>3
  <2>2. CASE Authenticate(f) \/ \E g \in Slot : Limited(f, g)
    BY <1>1, <2>2, CallKinds DEF Authenticate, Limited
  <2> QED BY <2>1, <2>2
<1>4. Reloads(flow[f])' <=> Reloads(flow[f])
  <2>1. flow[f].op \in Attempt => flow[f].op \notin Change /\ flow[f].op.kind # "load"
    BY <1>1, CallKinds
  <2> QED BY <1>1, <1>3, <2>1 DEF Reloads
<1>5. ASSUME calm'
      PROVE  /\ Accounted(flow[f])'
             /\ ~Reloads(flow[f])' => Matches(rows)'
  <2>1. calm BY <1>2, <1>5
  <2>2. Accounted(flow[f]) BY <1>1, <2>1 DEF Accounts
  <2>3. ~Reloads(flow[f]) => Matches(rows)
    <3>1. \A g \in Flow : flow[g] # Idle => g = f BY <1>1, <2>1 DEF Accounts
    <3> QED BY <2>1, <3>1 DEF Accounts
  <2>4. flow[f].op.kind = "patch" => flow[f].op \notin Look /\ flow[f].op \notin Attempt
    BY <1>1, CallKinds
  <2>5. flow[f].op.kind = "load" => flow[f].op \notin Attempt
    BY <1>1, CallKinds
  <2>6. Accounted(flow[f])'
    BY <1>1, <1>2, <1>3, <2>2, <2>4, <2>5 DEF Accounted, Matches, panel, stocks
  <2> QED BY <1>2, <1>4, <2>3, <2>6 DEF Matches, panel, stocks
<1>6. flow'[f] # Idle BY <1>1, CallIsNotIdle
<1> QED BY <1>1, <1>2, <1>5, <1>6, OneGoesOn

\* The catalog makes a change, which a load will show, or answers a load.
LEMMA CatalogAccounts ==
    ASSUME TypeOK, Accounts, NEW f \in Flow, Perform(f)
    PROVE  Accounts'
<1>1. /\ flow[f] # Idle /\ flow[f] \in Call
      /\ flow'[f] \in Call /\ flow'[f].op = flow[f].op
      /\ \A g \in Flow \ {f} : flow'[g] = flow[g]
      /\ flow[f].op \notin Look => flow'[f].seen = flow[f].seen
  BY AnswerOrLook
<1>2. UNCHANGED <<panel, late, calm>> /\ flow[f].at = "admitted"
  BY DEF Perform
<1>3. flow'[f] # Idle BY <1>1, CallIsNotIdle
<1>4. ASSUME calm'
      PROVE  /\ Accounted(flow[f])'
             /\ ~Reloads(flow[f])' => Matches(rows)'
  <2>1. calm /\ busy' = busy /\ token' = token /\ rows' = rows
    BY <1>2, <1>4 DEF panel
  <2>2. Accounted(flow[f]) BY <1>1, <2>1 DEF Accounts
  <2>3. ~Reloads(flow[f]) => Matches(rows)
    <3>1. \A g \in Flow : flow[g] # Idle => g = f BY <1>1, <2>1 DEF Accounts
    <3> QED BY <2>1, <3>1 DEF Accounts
  <2>4. CASE flow[f].op \in Change
    <3>1. flow[f].op.kind # "load" /\ flow[f].op \notin Look
      BY <1>1, <2>4, CallKinds
    <3>2. CASE Answer(f, "ok")
      <4>1. flow'[f].at = "ok" BY <1>1, <3>2, AnswerKeepsCall
      <4> QED BY <1>1, <2>1, <2>2, <2>4, <3>1, <4>1 DEF Accounted, Reloads
    <3>3. CASE Answer(f, "refused") /\ UNCHANGED stocks
      <4>1. flow'[f].at = "refused" BY <1>1, <3>3, AnswerKeepsCall
      <4>2. Matches(rows)' BY <1>2, <2>1, <2>3, <3>1, <3>3 DEF Reloads, Matches, stocks
      <4>3. flow[f].op.kind = "patch" => Matches(flow[f].seen)'
        BY <1>1, <1>2, <2>2, <3>1, <3>3 DEF Accounted, Matches, stocks
      <4> QED BY <1>1, <1>2, <2>1, <2>2, <3>1, <4>1, <4>2, <4>3 DEF Accounted
    <3> QED BY <2>4, <3>1, <3>2, <3>3 DEF Perform
  <2>5. CASE flow[f].op \in Look
    <3>1. flow[f].op \notin Change /\ flow[f].op.kind # "patch"
      BY <1>1, <2>5, CallKinds
    <3>2. UNCHANGED stocks BY <2>5, <3>1 DEF Perform
    <3>3. flow[f].op.kind = "load" =>
            flow'[f].seen = [doc |-> inventory, reserved |-> reserved]
      BY <1>1, <3>1 DEF Perform, TypeOK
    <3>4. flow[f].op.kind = "load" => Matches(flow[f].seen)'
      BY <3>2, <3>3 DEF Matches, stocks
    <3>5. Accounted(flow[f])'
      BY <1>1, <2>1, <2>2, <3>1, <3>4 DEF Accounted
    <3>6. ~Reloads(flow[f])' => Matches(rows)'
      BY <1>1, <2>1, <2>3, <3>1, <3>2 DEF Reloads, Matches, stocks
    <3> QED BY <3>5, <3>6
  <2> QED BY <2>4, <2>5 DEF Perform
<1> QED BY <1>1, <1>2, <1>3, <1>4, OneGoesOn

\* A customer's reservation is what the table accounts for.
LEMMA ReserveAccounts ==
    ASSUME TypeOK, Accounts, NEW p \in Product, Reserve(p)
    PROVE  Accounts'
<1>1. UNCHANGED <<panel, flow, late, calm>> BY DEF Reserve
<1>2. rows \in View \cup {NoRows} BY DEF TypeOK
<1>3. \A f \in Flow : flow[f] # Idle => flow[f].seen \in View \cup {NoRows}
  BY CallKinds DEF TypeOK
<1>4. Matches(rows) => Matches(rows)'
  <2>1. rows' = rows BY <1>1 DEF panel
  <2>2. \A view \in View \cup {NoRows} : Matches(view) => Matches(view)'
    BY ReserveMatches
  <2> QED BY <1>2, <2>1, <2>2 DEF Matches
<1>5. \A f \in Flow : flow[f] # Idle /\ Matches(flow[f].seen)
                        => Matches(flow[f].seen)'
  <2>1. flow' = flow BY <1>1
  <2>2. \A view \in View \cup {NoRows} : Matches(view) => Matches(view)'
    BY ReserveMatches
  <2> QED BY <1>3, <2>1, <2>2 DEF Matches
<1>6. \A f \in Flow : flow[f] # Idle /\ Accounted(flow[f]) => Accounted(flow[f])'
  BY <1>1, <1>5 DEF Accounted, panel
<1> QED BY <1>1, <1>4, <1>6 DEF Accounts, Reloads

\* The other steps change nothing that the table could miss, or end the calm.
LEMMA OthersAccount ==
    ASSUME TypeOK, Accounts,
           \/ Logout \/ Tick
           \/ \E f \in Flow : Fail(f)
           \/ \E g \in Slot : OtherAttempt(g)
           \/ \E c \in late : PerformLate(c)
           \/ UNCHANGED vars
    PROVE  Accounts'
<1>1. CASE Logout
  <2>1. rows' = NoRows /\ flow' = flow /\ late' = late /\ calm' = calm /\ ~busy
    BY <1>1 DEF Logout
  <2>2. calm => \A f \in Flow : flow[f] = Idle
    BY <2>1 DEF Accounts, Accounted
  <2>3. Matches(rows)' BY <2>1 DEF Matches
  <2> QED BY <2>1, <2>2, <2>3 DEF Accounts
<1>2. CASE \E f \in Flow : Fail(f)
  <2>1. ~calm' BY <1>2 DEF Fail
  <2> QED BY <2>1 DEF Accounts
<1>3. CASE \E c \in late : PerformLate(c)
  <2>1. ~calm /\ calm' = calm BY <1>3 DEF PerformLate, Accounts
  <2> QED BY <2>1 DEF Accounts
<1>4. CASE Tick \/ (\E g \in Slot : OtherAttempt(g)) \/ UNCHANGED vars
  <2>1. UNCHANGED <<panel, flow, stocks, late, calm>>
    BY <1>4 DEF Tick, OtherAttempt, vars
  <2> QED
    BY <2>1 DEF Accounts, Accounted, Reloads, Matches, panel, stocks
<1> QED BY <1>1, <1>2, <1>3, <1>4

\* For an admin who lets each handler end, a save changes the stock by what was
\* edited and by the reservations since its row was loaded, however calls and
\* reservations interleave.
THEOREM SavesAccountForTheStock == Spec => StockIsAccountedFor
<1> DEFINE Right ==
      \A f \in Flow : calm /\ Saved(f) =>
          LET c == flow[f]  p == flow[f].op.product IN
          inventory'.stock[p] = inventory.stock[p]
                                  + (c.op.stock - c.seen.doc.stock[p])
                                  + (reserved[p] - c.seen.reserved[p])
<1>1. Init => Accounts
  BY DEF Init, Accounts, Matches
<1>2. TypeOK /\ Accounts /\ [Next]_vars => Accounts'
  BY ButtonsAccount, AnsweredAccounts, ServiceAccounts, CatalogAccounts,
     ReserveAccounts, OthersAccount DEF Next
<1>3. TypeOK /\ Accounts /\ [Next]_vars => [Right]_vars
  <2> SUFFICES ASSUME TypeOK, Accounts, Next, NEW f \in Flow, calm, Saved(f)
               PROVE  inventory'.stock[flow[f].op.product] =
                        inventory.stock[flow[f].op.product]
                          + (flow[f].op.stock
                               - flow[f].seen.doc.stock[flow[f].op.product])
                          + (reserved[flow[f].op.product]
                               - flow[f].seen.reserved[flow[f].op.product])
    BY DEF Right
  <2> DEFINE c == flow[f]
  <2> DEFINE p == c.op.product
  <2>1. c # Idle /\ c \in Call /\ c.at = "admitted" /\ flow'[f].at = "ok"
        /\ c.op.kind = "patch"
    BY DEF Saved, TypeOK
  <2>2. Perform(f)
    <3>1. \A g \in Flow \ {f} :
            ~ \/ Buttons(g) \/ Answered(g) \/ Challenged(g) \/ Refused(g)
              \/ \E h \in Slot : Limited(g, h)
              \/ Authenticate(g) \/ RequireAdmin(g) \/ Perform(g) \/ Fail(g)
      <4> SUFFICES ASSUME NEW g \in Flow \ {f}
                   PROVE  ~ \/ Buttons(g) \/ Answered(g) \/ Challenged(g) \/ Refused(g)
                            \/ \E h \in Slot : Limited(g, h)
                            \/ Authenticate(g) \/ RequireAdmin(g) \/ Perform(g)
                            \/ Fail(g)
        OBVIOUS
      <4>1. flow'[f] # flow[f] BY <2>1
      <4>2. Buttons(g) => flow'[f] = flow[f]
        BY ButtonsClick, ZenonT(30) DEF Click, TypeOK
      <4>3. Answered(g) \/ Challenged(g) \/ Refused(g) => flow'[f] = flow[f]
        BY DEF Answered, Challenged, Refused, LoadInventory, End, TypeOK
      <4> QED BY <4>1, <4>2, <4>3, AnswerOrLook
    <3>2. ~(Buttons(f) \/ Answered(f) \/ Challenged(f) \/ Refused(f))
      BY <2>1, ButtonsClick DEF Answered, Challenged, Refused, Click
    <3>3. ~ \/ \E g \in Slot : Limited(f, g)
            \/ Authenticate(f) \/ RequireAdmin(f)
      BY <2>1 DEF Limited, Authenticate, RequireAdmin
    <3>4. ~Fail(f) BY <2>1, AnswerKeepsCall DEF Fail
    <3>5. ~ \/ Logout \/ Tick
            \/ \E g \in Slot : OtherAttempt(g)
            \/ \E x \in Product : Reserve(x)
            \/ \E d \in late : PerformLate(d)
      BY <2>1 DEF Logout, Tick, OtherAttempt, Reserve, PerformLate
    <3> QED BY <3>1, <3>2, <3>3, <3>4, <3>5 DEF Next
  <2>3. c.op \in Change BY <2>1, CallKinds
  <2>4. p \in Product /\ c.op.stock \in Nat BY <2>1, <2>3 DEF Change
  <2>5. /\ c.seen # NoRows /\ p \in c.seen.doc.listed /\ Matches(c.seen)
    BY <2>1 DEF Accounts, Accounted
  <2>6. c.seen \in View BY <2>1, <2>5, CallKinds
  <2>7. inventory.stock[p] + reserved[p] = c.seen.doc.stock[p] + c.seen.reserved[p]
    BY <2>5 DEF Matches
  <2>8. inventory' = SetStock(c.op, inventory)
    <3>1. ~Answer(f, "refused")
      BY <2>1, AnswerKeepsCall
    <3>2. c.op \notin Look BY <2>1, CallKinds
    <3>3. inventory' = Mutation(c.op, inventory) BY <2>2, <3>1, <3>2 DEF Perform
    <3> QED BY <2>1, <3>3 DEF Mutation
  <2>9. inventory'.stock[p] = c.op.stock
    BY <2>4, <2>8 DEF SetStock, TypeOK, Document
  <2>10. /\ inventory.stock[p] \in Int /\ reserved[p] \in Int
         /\ c.seen.doc.stock[p] \in Int /\ c.seen.reserved[p] \in Int
    BY <2>4, <2>6 DEF TypeOK, View, Document
  <2> HIDE DEF p, c
  <2>11. inventory'.stock[p] = inventory.stock[p]
                                 + (c.op.stock - c.seen.doc.stock[p])
                                 + (reserved[p] - c.seen.reserved[p])
    BY <2>4, <2>7, <2>9, <2>10
  <2> QED BY <2>11 DEF p, c
<1>4. Spec => [][Right]_vars
  BY <1>1, <1>2, <1>3, TypeCorrect, PTL DEF Spec
<1> QED BY <1>4 DEF StockIsAccountedFor

-----------------------------------------------------------------------------
(* The limit on attempts.                                                  *)

\* How many attempts a pod let through from one time to before another.
Times(t, v)     == {u \in 0..MaxTime : t <= u /\ u < v}
Counted(a, t, v) == SumFunctionOnSet(a, Times(t, v))

\* Why the attempts are bounded.  All attempts since the start of the window are
\* counted, the first of them at its start and none after its end.  And whoever
\* looks at the end of the stretch before it misses the first attempt of the
\* window before.
Fits(a, start, count, time) ==
    /\ start <= time
    /\ \A u \in 0..MaxTime : u > time \/ u >= start + Window => a[u] = 0
    /\ Counted(a, start, MaxTime + 1) = count
    /\ count = 0 => \A u \in 0..MaxTime : a[u] = 0
    /\ count > 0 => a[start] >= 1
    /\ \A t \in 0..MaxTime :
         /\ start < t + Window => Counted(a, t, start) <= Limit - 1
         /\ Counted(a, t, t + Window) <= 2 * Limit - 1

WindowsFit ==
    \A g \in Slot :
        Fits(admitted[g], entry[g].windowStart, entry[g].count, now)

\* There are finitely many times, and the attempts of a stretch are at least
\* those of a part of it.
LEMMA CountedMore ==
    ASSUME NEW a \in [0..MaxTime -> Nat], NEW t, NEW v, NEW t2, NEW v2,
           Times(t2, v2) \subseteq Times(t, v)
    PROVE  /\ IsFiniteSet(Times(t, v)) /\ \A u \in Times(t, v) : a[u] \in Nat
           /\ Counted(a, t, v) \in Nat /\ Counted(a, t2, v2) \in Nat
           /\ Counted(a, t2, v2) <= Counted(a, t, v)
<1>1. IsFiniteSet(0..MaxTime) BY BoundAssumption, FS_Interval
<1>2. IsFiniteSet(Times(t, v)) /\ \A u \in Times(t, v) : a[u] \in Nat
  BY <1>1, FS_Subset DEF Times
<1> QED BY <1>2, SumOfNaturals DEF Counted

\* A stretch in two parts.
LEMMA CountedParts ==
    ASSUME NEW a \in [0..MaxTime -> Nat], NEW t \in Int, NEW w \in Int,
           NEW v \in Int, t <= w, w <= v
    PROVE  Counted(a, t, v) = Counted(a, t, w) + Counted(a, w, v)
<1>1. /\ Times(t, v) = Times(t, w) \cup Times(w, v)
      /\ Times(t, w) \cap Times(w, v) = {}
  BY BoundAssumption DEF Times
<1>2. /\ IsFiniteSet(Times(t, w)) /\ IsFiniteSet(Times(w, v))
      /\ \A u \in Times(t, w) : a[u] \in Nat
      /\ \A u \in Times(w, v) : a[u] \in Nat
  BY CountedMore
<1> DEFINE A == Times(t, w)
<1> DEFINE B == Times(w, v)
<1>3. SumFunctionOnSet(a, A \cup B)
        = SumFunctionOnSet(a, A) + SumFunctionOnSet(a, B)
  <2>1. \A u \in A \cup B : a[u] \in Int BY <1>2
  <2> HIDE DEF A, B
  <2> QED BY <1>1, <1>2, <2>1, SumOfBoth DEF A, B
<1> QED BY <1>1, <1>3 DEF Counted

\* The attempts at its first moment apart.
LEMMA CountedFirst ==
    ASSUME NEW a \in [0..MaxTime -> Nat], NEW t \in 0..MaxTime, NEW v \in Int,
           t < v
    PROVE  Counted(a, t, v) = a[t] + Counted(a, t + 1, v)
<1>1. t \in Times(t, v) /\ Times(t, v) \ {t} = Times(t + 1, v)
  BY BoundAssumption DEF Times
<1>2. IsFiniteSet(Times(t, v)) /\ \A u \in Times(t, v) : a[u] \in Nat
  BY CountedMore
<1> DEFINE A == Times(t, v)
<1>3. SumFunctionOnSet(a, A) = a[t] + SumFunctionOnSet(a, A \ {t})
  <2>1. t \in A /\ IsFiniteSet(A) /\ \A u \in A : a[u] \in Int BY <1>1, <1>2
  <2> HIDE DEF A
  <2> QED BY <2>1, SumOfOne
<1> QED BY <1>1, <1>3 DEF Counted

\* No attempt in a stretch.
LEMMA CountedNone ==
    ASSUME NEW a \in [0..MaxTime -> Nat], NEW t, NEW v,
           \A u \in Times(t, v) : a[u] = 0
    PROVE  Counted(a, t, v) = 0
<1>1. IsFiniteSet(Times(t, v)) BY CountedMore
<1> QED BY <1>1, SumOfZeros DEF Counted

\* One attempt more.
LEMMA CountedOneMore ==
    ASSUME NEW a \in [0..MaxTime -> Nat], NEW n \in 0..MaxTime,
           NEW t \in Int, NEW v \in Int, NEW b \in [0..MaxTime -> Nat],
           b[n] = a[n] + 1, \A u \in 0..MaxTime : u # n => b[u] = a[u]
    PROVE  /\ t <= n /\ n < v => Counted(b, t, v) = Counted(a, t, v) + 1
           /\ ~(t <= n /\ n < v) => Counted(b, t, v) = Counted(a, t, v)
<1> DEFINE T == Times(t, v)
<1>1. /\ IsFiniteSet(T) /\ T \subseteq 0..MaxTime
      /\ \A u \in T : a[u] \in Int /\ b[u] \in Int
  <2>1. IsFiniteSet(T) BY CountedMore
  <2>2. T \subseteq 0..MaxTime BY DEF Times
  <2> HIDE DEF T
  <2> QED BY <2>1, <2>2
<1>2. ASSUME n \notin T PROVE SumFunctionOnSet(b, T) = SumFunctionOnSet(a, T)
  <2>1. \A u \in T : b[u] \in Int /\ b[u] = a[u] BY <1>1, <1>2
  <2> HIDE DEF T
  <2> QED BY <1>1, <2>1, SumOfSame
<1>3. ASSUME n \in T PROVE SumFunctionOnSet(b, T) = SumFunctionOnSet(a, T) + 1
  <2> DEFINE R == T \ {n}
  <2>1. IsFiniteSet(R) /\ \A u \in R : b[u] \in Int /\ b[u] = a[u]
    BY <1>1, FS_Subset
  <2>2. SumFunctionOnSet(b, R) = SumFunctionOnSet(a, R)
    <3> HIDE DEF R
    <3> QED BY <2>1, SumOfSame
  <2>3. /\ \A u \in T : a[u] \in Int
        /\ \A u \in T : b[u] \in Int
    BY <1>1
  <2> HIDE DEF T
  <2>4. /\ SumFunctionOnSet(a, T) = a[n] + SumFunctionOnSet(a, R)
        /\ SumFunctionOnSet(a, R) \in Int
    BY <1>1, <1>3, <2>3, SumOfOne
  <2>5. SumFunctionOnSet(b, T) = b[n] + SumFunctionOnSet(b, R)
    BY <1>1, <1>3, <2>3, SumOfOne
  <2> HIDE DEF R
  <2> QED BY <2>2, <2>4, <2>5
<1>4. n \in T <=> (t <= n /\ n < v) BY DEF Times
<1> QED BY <1>2, <1>3, <1>4 DEF Counted

\* An attempt that starts a window: the last one, if any, is over.
LEMMA WindowStarts ==
    ASSUME NEW a \in [0..MaxTime -> Nat], NEW start \in 0..MaxTime,
           NEW count \in 0..Limit, NEW time \in 0..MaxTime,
           Fits(a, start, count, time), count = 0 \/ time - start >= Window
    PROVE  Fits([a EXCEPT ![time] = a[time] + 1], time, 1, time)
<1> DEFINE b == [a EXCEPT ![time] = a[time] + 1]
<1>0. /\ MaxTime \in Nat /\ Limit \in Nat \ {0} /\ Window \in Nat \ {0}
      /\ MaxTime + 1 \in Int /\ start \in Int /\ time \in Int /\ time + 1 \in Int
      /\ start + 1 \in Int
  BY BoundAssumption, LimitAssumption
<1>1. /\ b \in [0..MaxTime -> Nat] /\ b[time] = a[time] + 1
      /\ \A u \in 0..MaxTime : u # time => b[u] = a[u]
  OBVIOUS
<1>2. \A u \in 0..MaxTime : u >= time => a[u] = 0
  BY <1>0 DEF Fits
<1>3. \A t \in 0..MaxTime, v \in Int : t >= time => Counted(a, t, v) = 0
  <2> SUFFICES ASSUME NEW t \in 0..MaxTime, NEW v \in Int, t >= time
               PROVE  Counted(a, t, v) = 0
    OBVIOUS
  <2>1. \A u \in Times(t, v) : a[u] = 0 BY <1>0, <1>2 DEF Times
  <2> QED BY <2>1, CountedNone
<1>4. \A t \in 0..MaxTime, v \in Int :
        /\ Counted(a, t, v) \in Nat
        /\ t <= time /\ time < v => Counted(b, t, v) = Counted(a, t, v) + 1
        /\ ~(t <= time /\ time < v) => Counted(b, t, v) = Counted(a, t, v)
  <2> SUFFICES ASSUME NEW t \in 0..MaxTime, NEW v \in Int
               PROVE  /\ Counted(a, t, v) \in Nat
                      /\ t <= time /\ time < v
                           => Counted(b, t, v) = Counted(a, t, v) + 1
                      /\ ~(t <= time /\ time < v)
                           => Counted(b, t, v) = Counted(a, t, v)
    OBVIOUS
  <2>1. Counted(a, t, v) \in Nat BY CountedMore
  <2>2. t \in Int BY <1>0
  <2> HIDE DEF b
  <2>3. /\ t <= time /\ time < v => Counted(b, t, v) = Counted(a, t, v) + 1
        /\ ~(t <= time /\ time < v) => Counted(b, t, v) = Counted(a, t, v)
    BY ZenonT(30), <1>1, <2>2, CountedOneMore
  <2> QED BY <2>1, <2>3
<1> HIDE DEF b
<1>5. \A u \in 0..MaxTime : u > time \/ u >= time + Window => b[u] = 0
  BY SMTT(30), <1>0, <1>1, <1>2
<1>6. Counted(b, time, MaxTime + 1) = 1
  BY <1>0, <1>3, <1>4
<1>7. b[time] >= 1 BY <1>1
<1>8. ASSUME NEW t \in 0..MaxTime, time < t + Window, t <= time
      PROVE  Counted(a, t, time) <= Limit - 1
  <2>1. CASE count = 0
    <3>1. \A u \in Times(t, time) : a[u] = 0 BY <2>1 DEF Fits, Times
    <3>2. Counted(a, t, time) = 0 BY <3>1, CountedNone
    <3> QED BY <1>0, <3>2
  <2>2. CASE count # 0
    <3>1. start < t BY <1>0, <1>8, <2>2
    <3>2. Counted(a, start, MaxTime + 1)
            = a[start] + Counted(a, start + 1, MaxTime + 1)
      <4>1. start < MaxTime + 1 BY <1>0
      <4> QED BY <1>0, <4>1, CountedFirst
    <3>3. Times(t, time) \subseteq Times(start + 1, MaxTime + 1)
      BY <1>0, <3>1 DEF Times
    <3>4. /\ Counted(a, t, time) <= Counted(a, start + 1, MaxTime + 1)
          /\ Counted(a, t, time) \in Nat
          /\ Counted(a, start + 1, MaxTime + 1) \in Nat
      BY <3>3, CountedMore
    <3>5. Counted(a, start, MaxTime + 1) = count /\ a[start] >= 1
      BY <2>2 DEF Fits
    <3>6. a[start] \in Nat OBVIOUS
    <3> QED BY SMTT(30), <1>0, <3>2, <3>4, <3>5, <3>6
  <2> QED BY <2>1, <2>2
<1>9. ASSUME NEW t \in 0..MaxTime
      PROVE  /\ time < t + Window => Counted(b, t, time) <= Limit - 1
             /\ Counted(b, t, t + Window) <= 2 * Limit - 1
  <2>0. t \in Int /\ t + Window \in Int BY <1>0
  <2>1. ASSUME time < t + Window PROVE Counted(b, t, time) <= Limit - 1
    <3>1. Counted(b, t, time) = Counted(a, t, time) BY <1>0, <1>4
    <3>2. CASE t <= time BY <1>8, <2>1, <3>1, <3>2
    <3>3. CASE ~(t <= time)
      <4>1. t >= time BY <1>0, <2>0, <3>3
      <4>2. Counted(a, t, time) = 0 BY <1>0, <1>3, <4>1
      <4> QED BY <1>0, <3>1, <4>2
    <3> QED BY <3>2, <3>3
  <2>2. Counted(b, t, t + Window) <= 2 * Limit - 1
    <3>1. CASE t <= time /\ time < t + Window
      <4>1. Counted(b, t, t + Window) = Counted(a, t, t + Window) + 1
        BY <1>4, <2>0, <3>1
      <4>2. Counted(a, t, t + Window)
              = Counted(a, t, time) + Counted(a, time, t + Window)
        <5>1. time <= t + Window BY <1>0, <2>0, <3>1
        <5> QED BY <1>0, <2>0, <3>1, <5>1, CountedParts
      <4>3. Counted(a, time, t + Window) = 0 BY <1>0, <1>3, <2>0
      <4>4. Counted(a, t, time) <= Limit - 1 /\ Counted(a, t, time) \in Nat
        BY <1>0, <1>4, <1>8, <3>1
      <4> QED BY <1>0, <4>1, <4>2, <4>3, <4>4
    <3>2. CASE ~(t <= time /\ time < t + Window)
      <4>1. Counted(b, t, t + Window) = Counted(a, t, t + Window)
        BY <1>4, <2>0, <3>2
      <4> QED BY <4>1 DEF Fits
    <3> QED BY <3>1, <3>2
  <2> QED BY <2>1, <2>2
<1>10. Fits(b, time, 1, time) BY <1>0, <1>5, <1>6, <1>7, <1>9 DEF Fits
<1> QED BY <1>10 DEF b

\* An attempt within the window.
LEMMA WindowGoesOn ==
    ASSUME NEW a \in [0..MaxTime -> Nat], NEW start \in 0..MaxTime,
           NEW count \in 0..Limit, NEW time \in 0..MaxTime,
           Fits(a, start, count, time), count # 0, time - start < Window,
           count < Limit
    PROVE  Fits([a EXCEPT ![time] = a[time] + 1], start, count + 1, time)
<1> DEFINE b == [a EXCEPT ![time] = a[time] + 1]
<1>0. /\ MaxTime \in Nat /\ Limit \in Nat \ {0} /\ Window \in Nat \ {0}
      /\ MaxTime + 1 \in Int /\ start \in Int /\ time \in Int
      /\ start <= time /\ count \in Nat
  BY BoundAssumption, LimitAssumption DEF Fits
<1>1. /\ b \in [0..MaxTime -> Nat] /\ b[time] = a[time] + 1
      /\ \A u \in 0..MaxTime : u # time => b[u] = a[u]
  OBVIOUS
<1>2. \A t \in 0..MaxTime, v \in Int :
        /\ Counted(a, t, v) \in Nat
        /\ t <= time /\ time < v => Counted(b, t, v) = Counted(a, t, v) + 1
        /\ ~(t <= time /\ time < v) => Counted(b, t, v) = Counted(a, t, v)
  <2> SUFFICES ASSUME NEW t \in 0..MaxTime, NEW v \in Int
               PROVE  /\ Counted(a, t, v) \in Nat
                      /\ t <= time /\ time < v
                           => Counted(b, t, v) = Counted(a, t, v) + 1
                      /\ ~(t <= time /\ time < v)
                           => Counted(b, t, v) = Counted(a, t, v)
    OBVIOUS
  <2>1. Counted(a, t, v) \in Nat BY CountedMore
  <2>2. t \in Int BY <1>0
  <2> HIDE DEF b
  <2>3. /\ t <= time /\ time < v => Counted(b, t, v) = Counted(a, t, v) + 1
        /\ ~(t <= time /\ time < v) => Counted(b, t, v) = Counted(a, t, v)
    BY ZenonT(30), <1>1, <2>2, CountedOneMore
  <2> QED BY <2>1, <2>3
<1> HIDE DEF b
<1>3. \A u \in 0..MaxTime : u > time \/ u >= start + Window => b[u] = 0
  <2> SUFFICES ASSUME NEW u \in 0..MaxTime, u > time \/ u >= start + Window
               PROVE  b[u] = 0
    OBVIOUS
  <2>1. a[u] = 0 BY DEF Fits
  <2>2. u # time BY <1>0
  <2> QED BY <1>1, <2>1, <2>2
<1>4. Counted(b, start, MaxTime + 1) = count + 1
  <2>1. Counted(a, start, MaxTime + 1) = count BY DEF Fits
  <2>2. time < MaxTime + 1 BY <1>0
  <2> QED BY <1>0, <1>2, <2>1, <2>2
<1>5. b[start] >= 1
  <2>1. a[start] >= 1 /\ a[start] \in Nat BY DEF Fits
  <2> QED BY <1>1, <2>1
<1>6. \A v \in Int, t \in 0..MaxTime : t >= start => Counted(a, t, v) <= count
  <2> SUFFICES ASSUME NEW v \in Int, NEW t \in 0..MaxTime, t >= start
               PROVE  Counted(a, t, v) <= count
    OBVIOUS
  <2>1. Times(t, v) \subseteq Times(start, MaxTime + 1)
    BY <1>0 DEF Times
  <2>2. Counted(a, t, v) <= Counted(a, start, MaxTime + 1)
    BY <2>1, CountedMore
  <2> QED BY <2>2 DEF Fits
<1>7. ASSUME NEW t \in 0..MaxTime
      PROVE  /\ start < t + Window => Counted(b, t, start) <= Limit - 1
             /\ Counted(b, t, t + Window) <= 2 * Limit - 1
  <2>0. t \in Int /\ t + Window \in Int BY <1>0
  <2>1. ASSUME start < t + Window PROVE Counted(b, t, start) <= Limit - 1
    <3>1. Counted(b, t, start) = Counted(a, t, start) BY <1>0, <1>2
    <3> QED BY <2>1, <3>1 DEF Fits
  <2>2. CASE t <= time /\ time < t + Window
    <3>1. Counted(b, t, t + Window) = Counted(a, t, t + Window) + 1
      BY <1>2, <2>0, <2>2
    <3>2. start < t + Window BY <1>0, <2>0, <2>2
    <3>3. CASE t <= start
      <4>1. Counted(a, t, t + Window)
              = Counted(a, t, start) + Counted(a, start, t + Window)
        <5>1. start <= t + Window BY <1>0, <2>0, <3>2
        <5> QED BY <1>0, <2>0, <3>3, <5>1, CountedParts
      <4>2. Counted(a, t, start) <= Limit - 1 BY <3>2 DEF Fits
      <4>3. Counted(a, start, t + Window) <= count BY <1>0, <1>6, <2>0
      <4>4. Counted(a, t, start) \in Nat /\ Counted(a, start, t + Window) \in Nat
        BY <1>0, <1>2, <2>0
      <4>5. Counted(b, t, t + Window) <= 2 * Limit - 1
        BY SMTT(30), <1>0, <3>1, <4>1, <4>2, <4>3, <4>4
      <4> QED BY <2>1, <4>5
    <3>4. CASE ~(t <= start)
      <4>1. t >= start BY <1>0, <2>0, <3>4
      <4>2. Counted(a, t, t + Window) <= count BY <1>6, <2>0, <4>1
      <4>3. Counted(a, t, t + Window) \in Nat BY <1>2, <2>0
      <4>4. Counted(b, t, t + Window) <= 2 * Limit - 1
        BY <1>0, <3>1, <4>2, <4>3
      <4> QED BY <2>1, <4>4
    <3> QED BY <3>3, <3>4
  <2>3. CASE ~(t <= time /\ time < t + Window)
    <3>1. Counted(b, t, t + Window) = Counted(a, t, t + Window)
      BY <1>2, <2>0, <2>3
    <3>2. Counted(b, t, t + Window) <= 2 * Limit - 1 BY <3>1 DEF Fits
    <3> QED BY <2>1, <3>2
  <2> QED BY <2>2, <2>3
<1>8. count + 1 # 0 BY <1>0
<1>9. Fits(b, start, count + 1, time)
  BY <1>0, <1>3, <1>4, <1>5, <1>7, <1>8 DEF Fits
<1> QED BY <1>9 DEF b

\* A pod lets an attempt through.
LEMMA LetThroughFits ==
    ASSUME TypeOK, WindowsFit, NEW g \in Slot, Admits(g), LetThrough(g)
    PROVE  WindowsFit'
<1> DEFINE e == entry[g]
<1>1. /\ entry \in [Slot -> [windowStart: 0..MaxTime, count: 0..Limit]]
      /\ admitted \in [Slot -> [0..MaxTime -> Nat]] /\ now \in 0..MaxTime
      /\ now' = now /\ Limit \in Nat
  BY LimitAssumption DEF TypeOK, LetThrough
<1>2. /\ e.windowStart \in 0..MaxTime /\ e.count \in 0..Limit
      /\ Fits(admitted[g], e.windowStart, e.count, now)
  BY <1>1 DEF WindowsFit
<1>3. /\ admitted' = [admitted EXCEPT ![g] = [admitted[g] EXCEPT ![now] = admitted[g][now] + 1]]
      /\ entry' = [entry EXCEPT ![g] = entry'[g]]
      /\ entry'[g] = IF Expired(g) THEN [windowStart |-> now, count |-> 1]
                     ELSE [windowStart |-> e.windowStart, count |-> e.count + 1]
  BY <1>1 DEF LetThrough
<1> DEFINE a == admitted[g]
<1> DEFINE start == e.windowStart
<1> DEFINE count == e.count
<1> DEFINE b == [a EXCEPT ![now] = a[now] + 1]
<1>4. Fits(admitted'[g], entry'[g].windowStart, entry'[g].count, now)
  <2>1. admitted'[g] = b BY <1>1, <1>3
  <2>2. /\ a \in [0..MaxTime -> Nat] /\ start \in 0..MaxTime
        /\ count \in 0..Limit /\ now \in 0..MaxTime /\ Fits(a, start, count, now)
    BY <1>1, <1>2
  <2>3. CASE Expired(g)
    <3>1. count = 0 \/ now - start >= Window BY <2>3 DEF Expired
    <3>2. Fits(b, now, 1, now)
      <4> HIDE DEF a, start, count
      <4> QED BY <2>2, <3>1, WindowStarts
    <3> QED BY <1>3, <2>1, <2>3, <3>2
  <2>4. CASE ~Expired(g)
    <3>1. /\ count # 0 /\ now - start < Window /\ count < Limit
      BY <1>1, <1>2, <2>4, LimitAssumption DEF Expired, Admits
    <3>2. Fits(b, start, count + 1, now)
      <4> HIDE DEF a, start, count
      <4> QED BY <2>2, <3>1, WindowGoesOn
    <3> QED BY <1>3, <2>1, <2>4, <3>2
  <2> QED BY <2>3, <2>4
<1>5. \A h \in Slot \ {g} : entry'[h] = entry[h] /\ admitted'[h] = admitted[h]
  BY <1>1, <1>3
<1> HIDE DEF e
<1> QED BY <1>1, <1>4, <1>5 DEF WindowsFit

\* The clock goes on.
LEMMA TickFits ==
    ASSUME TypeOK, WindowsFit, Tick
    PROVE  WindowsFit'
<1>1. /\ now \in Nat /\ now' = now + 1 /\ UNCHANGED <<entry, admitted>>
      /\ \A g \in Slot : entry[g].windowStart \in Nat
  BY DEF Tick, TypeOK
<1>2. ASSUME NEW g \in Slot
      PROVE  Fits(admitted[g], entry[g].windowStart, entry[g].count, now + 1)
  <2>1. Fits(admitted[g], entry[g].windowStart, entry[g].count, now)
    BY DEF WindowsFit
  <2> QED BY <1>1, <2>1, BoundAssumption DEF Fits
<1> QED BY <1>1, <1>2 DEF WindowsFit

\* Whenever windows start, no stretch of time as long as a window has twice the
\* limit of attempts.
THEOREM AttemptsStayBounded == Spec => []AttemptsBounded
<1>1. Init => WindowsFit
  <2> SUFFICES ASSUME Init, NEW g \in Slot
               PROVE  Fits(admitted[g], entry[g].windowStart, entry[g].count, now)
    BY DEF WindowsFit
  <2> DEFINE a == [t \in 0..MaxTime |-> 0]
  <2>1. /\ admitted[g] = a /\ entry[g].windowStart = 0 /\ entry[g].count = 0
        /\ now = 0
    BY DEF Init, NoEntry
  <2>2. a \in [0..MaxTime -> Nat] /\ \A u \in 0..MaxTime : a[u] = 0 OBVIOUS
  <2> HIDE DEF a
  <2>3. \A t, v : Counted(a, t, v) = 0
    <3> SUFFICES ASSUME NEW t, NEW v PROVE Counted(a, t, v) = 0 OBVIOUS
    <3>1. \A u \in Times(t, v) : a[u] = 0 BY <2>2 DEF Times
    <3> QED BY <2>2, <3>1, CountedNone
  <2>4. Fits(a, 0, 0, 0)
    BY <2>2, <2>3, LimitAssumption, BoundAssumption DEF Fits
  <2> QED BY <2>1, <2>4
<1>2. TypeOK /\ WindowsFit /\ [Next]_vars => WindowsFit'
  <2> SUFFICES ASSUME TypeOK, WindowsFit, [Next]_vars PROVE WindowsFit' OBVIOUS
  <2>1. CASE UNCHANGED limiter BY <2>1 DEF limiter, WindowsFit
  <2>2. CASE \E g \in Slot : Admits(g) /\ LetThrough(g)
    BY <2>2, LetThroughFits
  <2>3. CASE Tick BY <2>3, TickFits
  <2>4. ASSUME NEW f \in Flow,
               Buttons(f) \/ Answered(f) \/ Challenged(f) \/ Refused(f)
        PROVE  UNCHANGED limiter
    BY <2>4, ButtonsClick DEF Click, Answered, Challenged, Refused
  <2>5. ASSUME NEW f \in Flow,
               \/ \E g \in Slot : Limited(f, g)
               \/ Authenticate(f) \/ RequireAdmin(f) \/ Perform(f) \/ Fail(f)
        PROVE  \/ UNCHANGED limiter
               \/ \E g \in Slot : Admits(g) /\ LetThrough(g)
    BY <2>5 DEF Limited, Authenticate, RequireAdmin, Perform, Fail
  <2>6. ASSUME \/ Logout \/ UNCHANGED vars
               \/ \E g \in Slot : OtherAttempt(g)
               \/ \E p \in Product : Reserve(p)
               \/ \E c \in late : PerformLate(c)
        PROVE  \/ UNCHANGED limiter
               \/ \E g \in Slot : Admits(g) /\ LetThrough(g)
    BY <2>6 DEF Logout, vars, OtherAttempt, Reserve, PerformLate
  <2> QED BY <2>1, <2>2, <2>3, <2>4, <2>5, <2>6 DEF Next
<1>3. WindowsFit => AttemptsBounded
  BY DEF WindowsFit, Fits, Counted, Times, AttemptsBounded
<1> QED BY <1>1, <1>2, <1>3, TypeCorrect, PTL DEF Spec

=============================================================================
