---------------------------- MODULE CheckoutProofs ----------------------------
(***************************************************************************)
(* The checkout proved: types, what orders, reservations and answers have  *)
(* to do with one another, what a user who waits for answers may rely on,  *)
(* and that a checkout is one purchase but for what AtomicPurchase leaves  *)
(* out.                                                                    *)
(***************************************************************************)
EXTENDS CheckoutProperties, FiniteSetTheorems, TLAPS

\* The steps of one checkout, of its handler or of a service it has called.
StepOf(c) ==
    \/ \E p \in Pod : Start(c, p)
    \/ Handle(c) \/ Timeout(c) \/ Serve(c)
    \/ FailAuth(c) \/ BreakCall(c) \/ LoseCall(c) \/ HangInsert(c)

\* The steps that are of no checkout and end no process.
Outside ==
    \/ \E u \in User : SignOut(u) \/ SignIn(u) \/ \E x \in Unit : AddItem(u, x)
    \/ \E p \in Pod : ConnectDatabase(p)
    \/ DatabaseStops \/ DatabaseStarts

\* A step is one of a checkout, one of the world outside, or ends a process.
LEMMA StepsAreOfThreeSorts ==
    ASSUME Next
    PROVE  \/ \E c \in Checkout : StepOf(c)
           \/ Outside
           \/ \E p \in Pod : Restart(p) /\ faults' \in {faults, faults + 1}
                             /\ (faults' = faults \/ faults < MaxFaults)
BY DEF Next, StepOf, Outside, Crash, PoolError, Happens

-----------------------------------------------------------------------------
(* Types.                                                                  *)

\* One fault more is one of those there may be.
LEMMA FaultsStayBounded ==
    ASSUME faults \in 0..MaxFaults, NEW fault, Happens(fault)
    PROVE  faults' \in 0..MaxFaults
BY CheckoutAssumption DEF Happens

\* The order of a handler is an order.
LEMMA OrdersAreTyped ==
    ASSUME NEW c \in Checkout, NEW s \in TaskState
    PROVE  OrderOf(c, s) \in Order
BY DEF OrderOf, Order, TaskState

\* An answer, and what a service replies, leaves a handler typed and every
\* other handler as it is.
Only(c) ==
    /\ task' \in [Checkout -> TaskState]
    /\ \A d \in Checkout \ {c} : task'[d] = task[d]

\* An answer ends one handler and touches no other.
LEMMA AnswersOnly ==
    ASSUME TypeOK, NEW c \in Checkout,
           NEW a \in {"201", "400", "401", "409", "500"}, Answers(c, a)
    PROVE  /\ Only(c) /\ task'[c] = [task[c] EXCEPT !.pc = "done", !.answer = a]
<1>1. task \in [Checkout -> TaskState] BY DEF TypeOK
<1>2. [task[c] EXCEPT !.pc = "done", !.answer = a] \in TaskState
  <2>1. task[c] \in TaskState BY <1>1
  <2> QED BY <2>1 DEF TaskState
<1>3. task' = [task EXCEPT ![c] = [task[c] EXCEPT !.pc = "done", !.answer = a]]
  BY <1>1 DEF Answers
<1> QED BY <1>1, <1>2, <1>3 DEF Only

\* What a service makes of a call touches no other handler either.
LEMMA RepliesOnly ==
    ASSUME TypeOK, NEW c \in Checkout,
           NEW a \in {"served", "refused", "unverified", "failed", "lost"},
           Replies(c, a)
    PROVE  Only(c) /\ task'[c] = [task[c] EXCEPT !.state = a]
<1>1. task \in [Checkout -> TaskState] BY DEF TypeOK
<1>2. [task[c] EXCEPT !.state = a] \in TaskState
  BY <1>1 DEF TaskState
<1>3. task' = [task EXCEPT ![c] = [task[c] EXCEPT !.state = a]]
  BY <1>1 DEF Replies
<1> QED BY <1>1, <1>2, <1>3 DEF Only

\* A handler that sends its next call waits for that one.
LEMMA SendsOnly ==
    ASSUME TypeOK, NEW c \in Checkout, NEW s \in TaskState, NEW call \in Call,
           Sends(c, s, call)
    PROVE  Only(c) /\ task'[c] = [s EXCEPT !.call = call, !.state = "sent"]
<1>1. task \in [Checkout -> TaskState] BY DEF TypeOK
<1>2. [s EXCEPT !.call = call, !.state = "sent"] \in TaskState
  BY DEF TaskState
<1>3. task' = [task EXCEPT ![c] = [s EXCEPT !.call = call, !.state = "sent"]]
  BY <1>1 DEF Sends
<1> QED BY <1>1, <1>2, <1>3 DEF Only

\* What each step of a checkout does with its handler.
LEMMA StartMoves ==
    ASSUME TypeOK, NEW c \in Checkout, NEW p \in Pod, Start(c, p)
    PROVE  /\ Only(c)
           /\ task'[c] = [[task[c] EXCEPT !.pc = "waiting", !.pod = p]
                            EXCEPT !.call = "auth", !.state = "sent"]
           /\ task'[c].pc = "waiting" /\ task'[c].call = "auth"
           /\ task'[c].state = "sent" /\ task'[c].answer = task[c].answer
           /\ task'[c].invoice = task[c].invoice /\ task'[c].pod = p
<1> DEFINE s == [task[c] EXCEPT !.pc = "waiting", !.pod = p]
<1>1. task[c] \in TaskState BY DEF TypeOK
<1>2. s \in TaskState BY <1>1 DEF TaskState
<1>3. Sends(c, s, "auth") BY DEF Start
<1>4. Only(c) /\ task'[c] = [s EXCEPT !.call = "auth", !.state = "sent"]
  BY <1>2, <1>3, SendsOnly, ZenonT(30) DEF Call, HttpCall
<1>5. s.answer = task[c].answer /\ s.invoice = task[c].invoice
      /\ s.pc = "waiting" /\ s.pod = p
  BY <1>1 DEF TaskState
<1> HIDE DEF s
<1>6. /\ task'[c].pc = s.pc /\ task'[c].call = "auth"
      /\ task'[c].state = "sent" /\ task'[c].answer = s.answer
      /\ task'[c].invoice = s.invoice /\ task'[c].pod = s.pod
  BY <1>2, <1>4 DEF TaskState
<1>7. task'[c] = [s EXCEPT !.call = "auth", !.state = "sent"] /\ Only(c)
  BY <1>4
<1> USE DEF s
<1> QED BY <1>5, <1>6, <1>7

\* After the session: 400 without a usable email, or else the cart.
LEMMA HaveSessionMoves ==
    ASSUME TypeOK, NEW c \in Checkout, HaveSession(c)
    PROVE  /\ Only(c)
           /\ \/ /\ Owner[c] \notin hasEmail
                 /\ task'[c] = [task[c] EXCEPT !.pc = "done", !.answer = "400"]
              \/ /\ Owner[c] \in hasEmail
                 /\ task'[c] = [task[c] EXCEPT !.call = "cart",
                                               !.state = "sent"]
<1>1. task[c] \in TaskState BY DEF TypeOK
<1>2. CASE Owner[c] \notin hasEmail BY <1>2, AnswersOnly DEF HaveSession
<1>3. CASE Owner[c] \in hasEmail
  <2>1. Sends(c, task[c], "cart") /\ "cart" \in Call
    BY <1>3 DEF HaveSession, Call, HttpCall
  <2> QED BY <1>1, <1>3, <2>1, SendsOnly, ZenonT(30)
<1> QED BY <1>2, <1>3

\* After the cart: 400 when it is empty, or else the reservation.
LEMMA HaveCartMoves ==
    ASSUME TypeOK, NEW c \in Checkout, HaveCart(c)
    PROVE  /\ Only(c)
           /\ \/ /\ task[c].items = {}
                 /\ task'[c] = [task[c] EXCEPT !.pc = "done", !.answer = "400"]
              \/ /\ task[c].items # {}
                 /\ task'[c] = [task[c] EXCEPT !.call = "reserve",
                                               !.state = "sent"]
<1>1. task[c] \in TaskState BY DEF TypeOK
<1>2. CASE task[c].items = {} BY <1>2, AnswersOnly DEF HaveCart
<1>3. CASE task[c].items # {}
  <2>1. Sends(c, task[c], "reserve") /\ "reserve" \in Call
    BY <1>3 DEF HaveCart, Call, HttpCall
  <2> QED BY <1>1, <1>3, <2>1, SendsOnly, ZenonT(30)
<1> QED BY <1>2, <1>3

\* The order has this checkout's number or, by a collision, that of another.
LEMMA HaveReservationMoves ==
    ASSUME TypeOK, NEW c \in Checkout, HaveReservation(c)
    PROVE  \E id \in Checkout :
             LET s == [task[c] EXCEPT !.id = id] IN
             /\ Only(c) /\ faults' \in 0..MaxFaults
             /\ \/ /\ task'[c] = [s EXCEPT !.call = "save", !.state = "sent"]
                   /\ UNCHANGED memory
                \/ /\ task'[c] = [s EXCEPT !.call = "clear", !.state = "sent"]
                   /\ memory' = [memory EXCEPT ![s.pod] =
                                              @ \cup {OrderOf(c, s)}]
<1>1. task[c] \in TaskState /\ task[c].pod \in Pod \cup {"none"}
      /\ task[c].id \in Checkout
  BY DEF TypeOK, TaskState
<1>2. PICK id \in Checkout : /\ Save(c, [task[c] EXCEPT !.id = id])
                             /\ faults' \in 0..MaxFaults
  <2>1. CASE Save(c, task[c]) /\ UNCHANGED faults
    <3>1. task[c] = [task[c] EXCEPT !.id = task[c].id] BY <1>1 DEF TaskState
    <3> QED BY <1>1, <2>1, <3>1 DEF TypeOK
  <2>2. CASE /\ Happens("same id")
             /\ \E d \in Checkout \ {c} :
                   Save(c, [task[c] EXCEPT !.id = task[d].id])
    <3>1. \A d \in Checkout : task[d].id \in Checkout BY DEF TypeOK, TaskState
    <3>2. faults' \in 0..MaxFaults BY <2>2, FaultsStayBounded DEF TypeOK
    <3> QED BY <2>2, <3>1, <3>2
  <2> QED BY <2>1, <2>2 DEF HaveReservation
<1> DEFINE s == [task[c] EXCEPT !.id = id]
<1>3. s \in TaskState BY <1>1 DEF TaskState
<1> HIDE DEF s
<1>4. \/ Sends(c, s, "save") /\ UNCHANGED memory
      \/ /\ Sends(c, s, "clear")
         /\ memory' = [memory EXCEPT ![s.pod] = @ \cup {OrderOf(c, s)}]
  BY <1>2 DEF Save, s
<1>5. "save" \in Call /\ "clear" \in Call BY DEF Call, HttpCall
<1>6. \/ /\ Only(c) /\ UNCHANGED memory
         /\ task'[c] = [s EXCEPT !.call = "save", !.state = "sent"]
      \/ /\ Only(c)
         /\ task'[c] = [s EXCEPT !.call = "clear", !.state = "sent"]
         /\ memory' = [memory EXCEPT ![s.pod] = @ \cup {OrderOf(c, s)}]
  BY <1>3, <1>4, <1>5, SendsOnly, ZenonT(30)
<1> QED BY <1>2, <1>6 DEF s

\* After the order: the cart is to be cleared.
LEMMA OrderSavedMoves ==
    ASSUME TypeOK, NEW c \in Checkout, OrderSaved(c)
    PROVE  /\ Only(c)
           /\ task'[c] = [task[c] EXCEPT !.call = "clear", !.state = "sent"]
<1>1. task[c] \in TaskState BY DEF TypeOK
<1> QED BY <1>1, SendsOnly DEF OrderSaved, Call, HttpCall

\* After that: 201, and the invoice is on its way.
LEMMA CartClearedMoves ==
    ASSUME TypeOK, NEW c \in Checkout, CartCleared(c)
    PROVE  /\ Only(c)
           /\ task'[c] = [task[c] EXCEPT !.pc = "done", !.answer = "201",
                                         !.invoice = "sent"]
<1> DEFINE t == [task[c] EXCEPT !.pc = "done", !.answer = "201",
                                !.invoice = "sent"]
<1>1. task \in [Checkout -> TaskState] BY DEF TypeOK
<1>2. t \in TaskState
  <2>1. task[c] \in TaskState BY <1>1
  <2> QED BY <2>1 DEF TaskState
<1>3. task' = [task EXCEPT ![c] = t] BY <1>1 DEF CartCleared
<1> QED BY <1>1, <1>2, <1>3 DEF Only

\* A failed call is answered with its status.
LEMMA CallRejectedMoves ==
    ASSUME TypeOK, NEW c \in Checkout, CallRejected(c)
    PROVE  /\ Only(c)
           /\ \E a \in {"400", "401", "409", "500"} :
                 /\ task'[c] = [task[c] EXCEPT !.pc = "done", !.answer = a]
                 /\ a \in {"400", "409"} => /\ task[c].call = "reserve"
                                           /\ task[c].state = "refused"
<1> DEFINE a == StatusOf(c)
<1>1. a \in {"400", "401", "409", "500"} BY DEF StatusOf
<1>2. a \in {"400", "409"} =>
        task[c].call = "reserve" /\ task[c].state = "refused"
  BY DEF StatusOf
<1>3. Answers(c, a) BY DEF CallRejected
<1> HIDE DEF a
<1> QED BY <1>1, <1>2, <1>3, AnswersOnly

\* A call without an answer in time: 500, or 401 for the first.
LEMMA TimeoutMoves ==
    ASSUME TypeOK, NEW c \in Checkout, Timeout(c)
    PROVE  /\ Only(c) /\ faults' \in 0..MaxFaults
           /\ \E a \in {"401", "500"} :
                 task'[c] = [task[c] EXCEPT !.pc = "done", !.answer = a]
<1> DEFINE a == StatusOf(c)
<1>1. a \in {"401", "500"} BY DEF Timeout, StatusOf
<1>2. Answers(c, a) BY DEF Timeout
<1>3. faults' \in 0..MaxFaults BY FaultsStayBounded DEF Timeout, TypeOK
<1> HIDE DEF a
<1> QED BY <1>1, <1>2, <1>3, AnswersOnly

\* The invoice event reaches the queue, or is given up.
LEMMA QueueInvoiceMoves ==
    ASSUME TypeOK, NEW c \in Checkout, QueueInvoice(c)
    PROVE  /\ Only(c) /\ faults' \in 0..MaxFaults
           /\ \E i \in {"queued", "failed"} :
                 task'[c] = [task[c] EXCEPT !.invoice = i]
<1>1. task \in [Checkout -> TaskState] BY DEF TypeOK
<1>2. faults' \in 0..MaxFaults BY FaultsStayBounded DEF QueueInvoice, TypeOK
<1>3. PICK i \in {"queued", "failed"} :
        task' = [task EXCEPT ![c] = [task[c] EXCEPT !.invoice = i]]
  BY <1>1 DEF QueueInvoice
<1>4. [task[c] EXCEPT !.invoice = i] \in TaskState
  <2>1. task[c] \in TaskState BY <1>1
  <2> QED BY <2>1 DEF TaskState
<1> QED BY <1>1, <1>2, <1>3, <1>4 DEF Only

\* The auth service knows the session, or refuses.
LEMMA ServeAuthMoves ==
    ASSUME TypeOK, NEW c \in Checkout, ServeAuth(c)
    PROVE  /\ Only(c)
           /\ \E a \in {"served", "refused"} :
                 task'[c] = [task[c] EXCEPT !.state = a]
<1> DEFINE a == IF Owner[c] \in session THEN "served" ELSE "refused"
<1>1. a \in {"served", "refused"} OBVIOUS
<1>2. Replies(c, a) BY DEF ServeAuth
<1> HIDE DEF a
<1> QED BY <1>1, <1>2, RepliesOnly

\* The cart is read for a handler that waits, as it is then.
LEMMA ServeCartMoves ==
    ASSUME TypeOK, NEW c \in Checkout, ServeCart(c)
    PROVE  /\ Only(c)
           /\ \/ task'[c] = [task[c] EXCEPT !.state = "refused"]
              \/ task'[c] = [task[c] EXCEPT !.state = "served",
                                            !.items = cart[Owner[c]]]
<1>1. task \in [Checkout -> TaskState] /\ cart \in [User -> SUBSET Unit]
      /\ Owner[c] \in User
  BY CheckoutAssumption DEF TypeOK
<1> DEFINE t == [task[c] EXCEPT !.state = "served", !.items = cart[Owner[c]]]
<1>2. CASE Owner[c] \in session
  <2>1. t \in TaskState
    <3>1. task[c] \in TaskState /\ cart[Owner[c]] \in SUBSET Unit BY <1>1
    <3> QED BY <3>1 DEF TaskState
  <2>2. task' = [task EXCEPT ![c] = t] BY <1>1, <1>2 DEF ServeCart
  <2> QED BY <1>1, <2>1, <2>2 DEF Only
<1>3. CASE Owner[c] \notin session BY <1>3, RepliesOnly DEF ServeCart
<1> QED BY <1>2, <1>3

\* The catalog takes the items whole, or refuses.
LEMMA ServeReserveMoves ==
    ASSUME TypeOK, NEW c \in Checkout, ServeReserve(c)
    PROVE  /\ Only(c)
           /\ \/ /\ task'[c] = [task[c] EXCEPT !.state = "refused"]
                 /\ UNCHANGED <<stock, taken>>
              \/ /\ task'[c] = [task[c] EXCEPT !.state = "served"]
                 /\ taken' = [taken EXCEPT ![c] = task[c].items]
                 /\ stock' \in Nat
<1>1. task[c].items \in SUBSET Unit /\ stock \in Nat BY DEF TypeOK, TaskState
<1>2. Cardinality(task[c].items) \in Nat
  BY <1>1, FS_Subset, FS_CardinalityType, CheckoutAssumption
<1>3. CASE task[c].items \cap Malformed = {} /\ Cardinality(task[c].items) <= stock
  <2>1. /\ stock' = stock - Cardinality(task[c].items)
        /\ taken' = [taken EXCEPT ![c] = task[c].items]
        /\ Replies(c, "served")
    BY <1>3 DEF ServeReserve
  <2>2. stock' \in Nat BY <1>1, <1>2, <1>3, <2>1
  <2> QED BY <2>1, <2>2, RepliesOnly
<1>4. CASE ~ /\ task[c].items \cap Malformed = {}
             /\ Cardinality(task[c].items) <= stock
  BY <1>4, RepliesOnly DEF ServeReserve
<1> QED BY <1>3, <1>4

\* Postgres inserts the order, refuses it, or fails.
LEMMA ServeSaveMoves ==
    ASSUME TypeOK, NEW c \in Checkout, ServeSave(c)
    PROVE  /\ Only(c)
           /\ \/ /\ task'[c] = [task[c] EXCEPT !.state = "served"]
                 /\ database' = database \cup {OrderOf(c, task[c])}
              \/ /\ \E a \in {"refused", "failed"} :
                       task'[c] = [task[c] EXCEPT !.state = a]
                 /\ UNCHANGED database
<1> DEFINE known == \E o \in database : o.id = task[c].id
<1>1. CASE dbUp /\ ~known BY <1>1, RepliesOnly DEF ServeSave
<1>2. CASE ~(dbUp /\ ~known)
  <2> DEFINE a == IF dbUp THEN "refused" ELSE "failed"
  <2>1. a \in {"refused", "failed"} OBVIOUS
  <2>2. Replies(c, a) /\ UNCHANGED database BY <1>2 DEF ServeSave
  <2> HIDE DEF a
  <2> QED BY <2>1, <2>2, RepliesOnly
<1> QED BY <1>1, <1>2

\* The cart service empties the cart, or refuses.
LEMMA ServeClearMoves ==
    ASSUME TypeOK, NEW c \in Checkout, ServeClear(c)
    PROVE  /\ Only(c)
           /\ \/ /\ task'[c] = [task[c] EXCEPT !.state = "served"]
                 /\ cart' = [cart EXCEPT ![Owner[c]] = {}]
              \/ /\ task'[c] = [task[c] EXCEPT !.state = "refused"]
                 /\ UNCHANGED cart
BY RepliesOnly DEF ServeClear

\* Calls that break, get lost or hang.
LEMMA CallFails ==
    ASSUME TypeOK, NEW c \in Checkout,
           FailAuth(c) \/ BreakCall(c) \/ LoseCall(c) \/ HangInsert(c)
    PROVE  /\ Only(c) /\ faults' \in 0..MaxFaults
           /\ Waiting(c)
           /\ \E a \in {"unverified", "failed", "lost"} :
                 task'[c] = [task[c] EXCEPT !.state = a]
           /\ UNCHANGED <<outside, process, storage>>
<1>1. faults' \in 0..MaxFaults
  BY FaultsStayBounded DEF FailAuth, BreakCall, LoseCall, HangInsert, TypeOK
<1> QED BY <1>1, RepliesOnly DEF FailAuth, BreakCall, LoseCall, HangInsert,
                                  HttpCall

\* The steps of a checkout preserve the types.
LEMMA StepTypes ==
    ASSUME TypeOK, NEW c \in Checkout, StepOf(c)
    PROVE  TypeOK'
<1>1. Only(c) => task' \in [Checkout -> TaskState] BY DEF Only
<1>2. ASSUME NEW p \in Pod, Start(c, p) PROVE TypeOK'
  BY <1>1, <1>2, StartMoves
     DEF TypeOK, Start, outside, process, storage
<1>3. CASE HaveSession(c) \/ HaveCart(c)
  BY <1>1, <1>3, HaveSessionMoves, HaveCartMoves
     DEF TypeOK, HaveSession, HaveCart, outside, process, storage
<1>4. CASE HaveReservation(c)
  <2>1. PICK id \in Checkout :
          LET s == [task[c] EXCEPT !.id = id] IN
          /\ Only(c) /\ faults' \in 0..MaxFaults
          /\ \/ UNCHANGED memory
             \/ memory' = [memory EXCEPT ![s.pod] = @ \cup {OrderOf(c, s)}]
    BY <1>4, HaveReservationMoves
  <2> DEFINE s == [task[c] EXCEPT !.id = id]
  <2>2. task[c] \in TaskState BY DEF TypeOK
  <2>3. s \in TaskState BY <2>2 DEF TaskState
  <2>4. OrderOf(c, s) \in Order BY <2>3, OrdersAreTyped
  <2>5. memory' \in [Pod -> SUBSET Order] BY <2>1, <2>4 DEF TypeOK
  <2> QED BY <1>1, <1>4, <2>1, <2>5
          DEF TypeOK, HaveReservation, outside, storage
<1>5. CASE OrderSaved(c)
  BY <1>1, <1>5, OrderSavedMoves
     DEF TypeOK, OrderSaved, outside, process, storage
<1>6. CASE CartCleared(c)
  BY <1>1, <1>6, CartClearedMoves
     DEF TypeOK, CartCleared, outside, process, storage
<1>7. CASE CallRejected(c)
  BY <1>1, <1>7, CallRejectedMoves
     DEF TypeOK, CallRejected, outside, process, storage
<1>8. CASE QueueInvoice(c)
  BY <1>1, <1>8, QueueInvoiceMoves
     DEF TypeOK, QueueInvoice, outside, process, storage
<1>9. CASE Timeout(c)
  BY <1>1, <1>9, TimeoutMoves DEF TypeOK, Timeout, outside, process, storage
<1>10. CASE ServeAuth(c) \/ ServeCart(c)
  BY <1>1, <1>10, ServeAuthMoves, ServeCartMoves
     DEF TypeOK, ServeAuth, ServeCart, outside, process, storage
<1>11. CASE ServeReserve(c)
  <2>1. task[c].items \in SUBSET Unit BY DEF TypeOK, TaskState
  <2>2. taken' \in [Checkout -> SUBSET Unit] /\ stock' \in Nat
    BY <1>11, <2>1, ServeReserveMoves DEF TypeOK
  <2> QED BY <1>1, <1>11, <2>2, ServeReserveMoves
          DEF TypeOK, ServeReserve, process, storage
<1>12. CASE ServeSave(c)
  <2>1. OrderOf(c, task[c]) \in Order BY OrdersAreTyped DEF TypeOK
  <2>2. database' \in SUBSET Order BY <1>12, <2>1, ServeSaveMoves DEF TypeOK
  <2> QED BY <1>1, <1>12, <2>2, ServeSaveMoves
          DEF TypeOK, ServeSave, outside, process
<1>13. CASE ServeClear(c)
  <2>1. cart' \in [User -> SUBSET Unit] BY <1>13, ServeClearMoves DEF TypeOK
  <2> QED BY <1>1, <1>13, <2>1, ServeClearMoves
          DEF TypeOK, ServeClear, process, storage
<1>14. CASE FailAuth(c) \/ BreakCall(c) \/ LoseCall(c) \/ HangInsert(c)
  BY <1>1, <1>14, CallFails DEF TypeOK, outside, process, storage
<1> QED BY <1>2, <1>3, <1>4, <1>5, <1>6, <1>7, <1>8, <1>9, <1>10, <1>11,
           <1>12, <1>13, <1>14 DEF StepOf, Handle, Serve

\* A process that ends: its handlers are dropped, its orders forgotten, and of
\* the invoice events it was sending some may be lost.
LEMMA RestartMoves ==
    ASSUME TypeOK, NEW p \in Pod, Restart(p)
    PROVE  /\ task' \in [Checkout -> TaskState]
           /\ \A c \in Checkout :
                \/ task'[c] = task[c]
                \/ /\ Waiting(c)
                   /\ task'[c] = [task[c] EXCEPT !.pc = "done",
                                                 !.answer = "dropped"]
                \/ /\ ~Waiting(c) /\ task[c].invoice = "sent"
                   /\ task'[c] = [task[c] EXCEPT !.invoice = "failed"]
<1>1. task \in [Checkout -> TaskState] BY DEF TypeOK
<1>2. PICK lost \in SUBSET {c \in Checkout :
                               task[c].pod = p /\ task[c].invoice = "sent"} :
        task' = [c \in Checkout |->
                   IF Waiting(c) /\ task[c].pod = p
                     THEN [task[c] EXCEPT !.pc = "done", !.answer = "dropped"]
                   ELSE IF c \in lost THEN [task[c] EXCEPT !.invoice = "failed"]
                   ELSE task[c]]
  BY DEF Restart
<1>3. ASSUME NEW c \in Checkout
      PROVE  /\ [task[c] EXCEPT !.pc = "done", !.answer = "dropped"] \in TaskState
             /\ [task[c] EXCEPT !.invoice = "failed"] \in TaskState
  <2>1. task[c] \in TaskState BY <1>1
  <2> QED BY <2>1 DEF TaskState
<1>4. \A c \in Checkout : c \in lost => task[c].pod = p /\ task[c].invoice = "sent"
  BY <1>2
<1> QED BY <1>1, <1>2, <1>3, <1>4

\* So do those outside.
LEMMA OutsideTypes == TypeOK /\ Outside => TypeOK'
<1> SUFFICES ASSUME TypeOK, Outside PROVE TypeOK' OBVIOUS
<1>1. ASSUME NEW u \in User, SignOut(u) \/ SignIn(u) PROVE TypeOK'
  BY <1>1 DEF SignOut, SignIn, TypeOK, process, storage
<1>2. ASSUME NEW u \in User, NEW x \in Unit, AddItem(u, x) PROVE TypeOK'
  <2>1. cart' \in [User -> SUBSET Unit] BY <1>2 DEF AddItem, TypeOK
  <2> QED BY <1>2, <2>1 DEF AddItem, TypeOK, process, storage
<1>3. ASSUME NEW p \in Pod, ConnectDatabase(p) PROVE TypeOK'
  <2>1. faults' \in 0..MaxFaults
    BY <1>3, FaultsStayBounded DEF ConnectDatabase, TypeOK
  <2> QED BY <1>3, <2>1 DEF ConnectDatabase, TypeOK, outside, storage
<1>4. CASE DatabaseStops
  <2>1. faults' \in 0..MaxFaults
    BY <1>4, FaultsStayBounded DEF DatabaseStops, TypeOK
  <2> QED BY <1>4, <2>1 DEF DatabaseStops, TypeOK, outside, process
<1>5. CASE DatabaseStarts
  BY <1>5 DEF DatabaseStarts, TypeOK, outside, process
<1> QED BY <1>1, <1>2, <1>3, <1>4, <1>5 DEF Outside

\* And the end of a process.
LEMMA RestartTypes ==
    ASSUME TypeOK, NEW p \in Pod, Restart(p), faults' \in 0..MaxFaults
    PROVE  TypeOK'
<1>1. task' \in [Checkout -> TaskState] BY RestartMoves
<1>2. memory' \in [Pod -> SUBSET Order] /\ forgotten' \in SUBSET Order
  BY DEF Restart, TypeOK
<1> QED BY <1>1, <1>2 DEF Restart, TypeOK, outside, storage

\* And so every step.
LEMMA NextTypes == TypeOK /\ [Next]_vars => TypeOK'
<1> SUFFICES ASSUME TypeOK, [Next]_vars PROVE TypeOK' OBVIOUS
<1>1. CASE Next
  <2>1. ASSUME NEW p \in Pod, Restart(p), faults' \in {faults, faults + 1},
               faults' = faults \/ faults < MaxFaults
        PROVE  TypeOK'
    <3>1. faults' \in 0..MaxFaults BY <2>1, CheckoutAssumption DEF TypeOK
    <3> QED BY <2>1, <3>1, RestartTypes
  <2> QED BY <1>1, <2>1, StepsAreOfThreeSorts, StepTypes, OutsideTypes
<1>2. CASE UNCHANGED vars
  BY <1>2 DEF vars, outside, process, storage, TypeOK
<1> QED BY <1>1, <1>2

\* Every reachable state of the checkout is well typed.
THEOREM TypeCorrect == Spec => []TypeOK
<1>1. Init => TypeOK
  BY CheckoutAssumption DEF Init, TypeOK, Idle, TaskState
<1> QED BY <1>1, NextTypes, PTL DEF Spec

-----------------------------------------------------------------------------
(* Orders, reservations and answers.                                       *)

OrdersBy(c) == {o \in Stored : o.by = c}

\* What a checkout has done, by its last call and how far that is: what it has
\* reserved and stored, and why it was answered so.  A call that has been given
\* up may have been served.
Books(c, t, reserved, orders) ==
    LET order == {OrderOf(c, t)} IN
    /\ t.pc = "idle" => t.call = "none" /\ t.state = "none" /\ t.answer = "none"
    /\ t.pc = "waiting" =>
          t.answer = "none" /\ t.call # "none" /\ t.pod \in Pod
    /\ t.invoice # "none" => t.answer = "201"
    /\ t.answer = "400" =>
          \/ (t.call \in {"auth", "cart"} /\ t.state = "served")
          \/ (t.call = "reserve" /\ t.state = "refused")
    /\ t.answer = "409" => t.call = "reserve" /\ t.state = "refused"
    /\ t.answer = "201" => t.call = "clear"
    /\ t.call \in {"none", "auth", "cart"} => reserved = {} /\ orders = {}
    /\ t.call = "reserve" =>
          /\ t.items # {} /\ orders = {}
          /\ t.state \in {"sent", "refused"} => reserved = {}
          /\ t.state = "served" => reserved = t.items
    /\ t.call = "save" =>
          /\ t.items # {} /\ reserved = t.items /\ orders \subseteq order
          /\ t.state \in {"sent", "refused"} => orders = {}
          /\ t.state = "served" => orders = order
    /\ t.call = "clear" =>
          t.items # {} /\ reserved = t.items /\ orders = order

BooksAgree == \A c \in Checkout : Books(c, task[c], taken[c], OrdersBy(c))

\* The books of one checkout are not those of another.
LEMMA OneBook ==
    ASSUME BooksAgree, NEW c \in Checkout, Only(c),
           \A d \in Checkout \ {c} : taken'[d] = taken[d],
           NEW added, \A o \in added : o.by = c, Stored' = Stored \cup added,
           Books(c, task'[c], taken'[c], OrdersBy(c) \cup added)
    PROVE  BooksAgree'
<1> SUFFICES ASSUME NEW d \in Checkout
             PROVE  Books(d, task'[d], taken'[d], OrdersBy(d)')
  BY DEF BooksAgree, Books, OrderOf
<1>1. CASE d = c
  <2>1. OrdersBy(c)' = OrdersBy(c) \cup added BY DEF OrdersBy
  <2> QED BY <1>1, <2>1
<1>2. CASE d # c
  <2>1. OrdersBy(d)' = OrdersBy(d) BY <1>2 DEF OrdersBy
  <2>2. task'[d] = task[d] /\ taken'[d] = taken[d] BY <1>2 DEF Only
  <2> QED BY <2>1, <2>2 DEF BooksAgree
<1> QED BY <1>1, <1>2

\* A step that stores nothing.
LEMMA StoredStays ==
    ASSUME UNCHANGED <<database, memory, forgotten>>
    PROVE  Stored' = Stored
BY DEF Stored

\* An order in the memory of a pod is one order more.
LEMMA MemoryStores ==
    ASSUME TypeOK, UNCHANGED <<database, forgotten>>, NEW p \in Pod, NEW o,
           memory' = [memory EXCEPT ![p] = @ \cup {o}]
    PROVE  Stored' = Stored \cup {o}
<1>1. UNION {memory'[q] : q \in Pod} = {o} \cup UNION {memory[q] : q \in Pod}
  BY DEF TypeOK
<1> QED BY <1>1 DEF Stored

\* The orders of a memory that ends are remembered as forgotten.
LEMMA RestartStores ==
    ASSUME TypeOK, NEW p \in Pod, Restart(p)
    PROVE  Stored' = Stored
<1>1. /\ memory' = [memory EXCEPT ![p] = {}]
      /\ forgotten' = forgotten \cup memory[p] /\ database' = database
  BY DEF Restart, storage
<1>2. memory \in [Pod -> SUBSET Order] BY DEF TypeOK
<1>3. memory[p] \cup UNION {memory'[q] : q \in Pod}
        = UNION {memory[q] : q \in Pod}
  BY <1>1, <1>2
<1> QED BY <1>1, <1>3 DEF Stored

\* A step of one handler that stores and reserves nothing has only its own
\* books to keep.
LEMMA BookTurn ==
    ASSUME BooksAgree, NEW c \in Checkout, Only(c),
           UNCHANGED <<taken, database, memory, forgotten>>,
           Books(c, task'[c], taken[c], OrdersBy(c))
    PROVE  BooksAgree'
<1> DEFINE none == {}
<1>1. Stored' = Stored \cup none BY StoredStays
<1>2. OrdersBy(c) \cup none = OrdersBy(c) OBVIOUS
<1>3. Books(c, task'[c], taken'[c], OrdersBy(c) \cup none) BY <1>2
<1>4. /\ \A o \in none : o.by = c
      /\ \A d \in Checkout \ {c} : taken'[d] = taken[d]
  OBVIOUS
<1> HIDE DEF none
<1> QED BY <1>1, <1>3, <1>4, OneBook

\* The handler's steps.
LEMMA HandlerBooks ==
    ASSUME TypeOK, BooksAgree, NEW c \in Checkout,
           Handle(c) \/ Timeout(c) \/ \E p \in Pod : Start(c, p)
    PROVE  BooksAgree'
<1> DEFINE t == task[c]
<1>1. t \in TaskState BY DEF TypeOK
<1>2. Books(c, t, taken[c], OrdersBy(c)) BY DEF BooksAgree
<1>3. ASSUME NEW p \in Pod, Start(c, p) PROVE BooksAgree'
  <2>1. /\ Only(c) /\ t.pc = "idle"
        /\ UNCHANGED <<taken, database, memory, forgotten>>
    BY <1>3, StartMoves DEF Start, outside, process, storage
  <2>2. /\ task'[c].pc = "waiting" /\ task'[c].call = "auth"
        /\ task'[c].state = "sent" /\ task'[c].answer = t.answer
        /\ task'[c].invoice = t.invoice
    BY <1>3, StartMoves
  <2>3. Books(c, task'[c], taken[c], OrdersBy(c))
    <3>1. t.call = "none" /\ t.answer = "none" BY <1>2, <2>1 DEF Books
    <3>2. taken[c] = {} /\ OrdersBy(c) = {} BY <1>2, <3>1 DEF Books
    <3>3. t.invoice = "none" BY <1>2, <3>1 DEF Books
    <3>4. task'[c].pod \in Pod BY <1>3, StartMoves
    <3>5. task'[c].answer = "none" /\ task'[c].invoice = "none"
      BY <2>2, <3>1, <3>3
    <3> QED BY <2>2, <3>2, <3>4, <3>5 DEF Books
  <2> QED BY <2>1, <2>3, BookTurn
<1>4. CASE HaveCart(c)
  <2>1. /\ Only(c) /\ t.pc = "waiting" /\ t.call = "cart" /\ t.state = "served"
        /\ UNCHANGED <<taken, database, memory, forgotten>>
    BY <1>4, HaveCartMoves
       DEF HaveCart, Served, Waiting, outside, process, storage
  <2>2. Books(c, task'[c], taken[c], OrdersBy(c))
    <3>1. CASE task'[c] = [t EXCEPT !.pc = "done", !.answer = "400"]
      BY <1>1, <1>2, <2>1, <3>1 DEF Books, TaskState
    <3>2. CASE /\ t.items # {}
               /\ task'[c] = [t EXCEPT !.call = "reserve", !.state = "sent"]
      BY <1>1, <1>2, <2>1, <3>2 DEF Books, TaskState
    <3> QED BY <1>4, <3>1, <3>2, HaveCartMoves
  <2> QED BY <2>1, <2>2, BookTurn
<1>10. CASE HaveSession(c)
  <2>1. /\ Only(c) /\ t.pc = "waiting" /\ t.call = "auth" /\ t.state = "served"
        /\ UNCHANGED <<taken, database, memory, forgotten>>
    BY <1>10, HaveSessionMoves
       DEF HaveSession, Served, Waiting, outside, process, storage
  <2>2. Books(c, task'[c], taken[c], OrdersBy(c))
    <3>1. CASE task'[c] = [t EXCEPT !.pc = "done", !.answer = "400"]
      BY <1>1, <1>2, <2>1, <3>1 DEF Books, TaskState
    <3>2. CASE task'[c] = [t EXCEPT !.call = "cart", !.state = "sent"]
      BY <1>1, <1>2, <2>1, <3>2 DEF Books, TaskState
    <3> QED BY <1>10, <3>1, <3>2, HaveSessionMoves
  <2> QED BY <2>1, <2>2, BookTurn
<1>5. CASE HaveReservation(c)
  <2>1. /\ t.pc = "waiting" /\ t.call = "reserve" /\ t.state = "served"
        /\ UNCHANGED <<taken, database, forgotten>>
    BY <1>5 DEF HaveReservation, Served, Waiting, outside, storage
  <2>2. PICK id \in Checkout :
          LET s == [t EXCEPT !.id = id] IN
          /\ Only(c)
          /\ \/ /\ task'[c] = [s EXCEPT !.call = "save", !.state = "sent"]
                /\ UNCHANGED memory
             \/ /\ task'[c] = [s EXCEPT !.call = "clear", !.state = "sent"]
                /\ memory' = [memory EXCEPT ![s.pod] = @ \cup {OrderOf(c, s)}]
    BY <1>5, HaveReservationMoves
  <2> DEFINE s == [t EXCEPT !.id = id]
  <2>3. CASE task'[c] = [s EXCEPT !.call = "save", !.state = "sent"]
             /\ UNCHANGED memory
    <3>1. Books(c, task'[c], taken[c], OrdersBy(c))
      BY <1>1, <1>2, <2>1, <2>3 DEF Books, TaskState
    <3> QED BY <2>1, <2>2, <2>3, <3>1, BookTurn
  <2>4. CASE /\ task'[c] = [s EXCEPT !.call = "clear", !.state = "sent"]
             /\ memory' = [memory EXCEPT ![s.pod] = @ \cup {OrderOf(c, s)}]
    <3> DEFINE o == OrderOf(c, s)
    <3>1. s.pod = t.pod /\ t.pod \in Pod
      BY <1>1, <1>2, <2>1 DEF Books, TaskState
    <3>2. Stored' = Stored \cup {o}
      <4> HIDE DEF o, s, t
      <4> QED BY <2>1, <2>4, <3>1, MemoryStores DEF o
    <3>3. o.by = c /\ o = OrderOf(c, task'[c])
      BY <1>1, <2>4 DEF OrderOf, TaskState
    <3>4. Books(c, task'[c], taken'[c], OrdersBy(c) \cup {o})
      <4>1. OrdersBy(c) \cup {o} = {OrderOf(c, task'[c])}
        BY <1>2, <2>1, <3>3 DEF Books
      <4>2. /\ task'[c].pc = "waiting" /\ task'[c].pod = t.pod
            /\ task'[c].call = "clear" /\ task'[c].state = "sent"
            /\ task'[c].items = t.items /\ task'[c].answer = t.answer
            /\ task'[c].invoice = t.invoice
        BY <1>1, <2>1, <2>4 DEF TaskState
      <4> HIDE DEF o, s
      <4> QED BY <1>2, <2>1, <4>1, <4>2 DEF Books
    <3>5. \A d \in Checkout \ {c} : taken'[d] = taken[d] BY <2>1
    <3> DEFINE added == {o}
    <3>6. /\ \A q \in added : q.by = c
          /\ Stored' = Stored \cup added
          /\ Books(c, task'[c], taken'[c], OrdersBy(c) \cup added)
      BY <3>2, <3>3, <3>4
    <3> HIDE DEF o, s, added
    <3> QED BY <2>2, <3>5, <3>6, OneBook
  <2> QED BY <2>2, <2>3, <2>4
<1>6. CASE OrderSaved(c)
  <2>1. /\ Only(c) /\ t.pc = "waiting" /\ t.call = "save" /\ t.state = "served"
        /\ task'[c] = [t EXCEPT !.call = "clear", !.state = "sent"]
        /\ UNCHANGED <<taken, database, memory, forgotten>>
    BY <1>6, OrderSavedMoves
       DEF OrderSaved, Served, Waiting, outside, process, storage
  <2>2. Books(c, task'[c], taken[c], OrdersBy(c))
    BY <1>1, <1>2, <2>1 DEF Books, TaskState, OrderOf
  <2> QED BY <2>1, <2>2, BookTurn
<1>7. CASE CartCleared(c)
  <2>1. /\ Only(c) /\ t.pc = "waiting" /\ t.call = "clear"
        /\ task'[c] = [t EXCEPT !.pc = "done", !.answer = "201",
                                !.invoice = "sent"]
        /\ UNCHANGED <<taken, database, memory, forgotten>>
    BY <1>7, CartClearedMoves
       DEF CartCleared, Served, Waiting, outside, process, storage
  <2>2. Books(c, task'[c], taken[c], OrdersBy(c))
    BY <1>1, <1>2, <2>1 DEF Books, TaskState, OrderOf
  <2> QED BY <2>1, <2>2, BookTurn
<1>8. CASE CallRejected(c) \/ Timeout(c)
  <2>1. /\ Only(c) /\ t.pc = "waiting"
        /\ UNCHANGED <<taken, database, memory, forgotten>>
    BY <1>8, CallRejectedMoves, TimeoutMoves
       DEF CallRejected, Timeout, Waiting, outside, process, storage
  <2>2. PICK a \in {"400", "401", "409", "500"} :
          /\ task'[c] = [t EXCEPT !.pc = "done", !.answer = a]
          /\ a \in {"400", "409"} => t.call = "reserve" /\ t.state = "refused"
    BY <1>8, CallRejectedMoves, TimeoutMoves
  <2>3. Books(c, task'[c], taken[c], OrdersBy(c))
    BY <1>1, <1>2, <2>1, <2>2 DEF Books, TaskState, OrderOf
  <2> QED BY <2>1, <2>3, BookTurn
<1>9. CASE QueueInvoice(c)
  <2>1. /\ Only(c) /\ t.invoice = "sent"
        /\ UNCHANGED <<taken, database, memory, forgotten>>
    BY <1>9, QueueInvoiceMoves
       DEF QueueInvoice, outside, process, storage
  <2>2. PICK i \in {"queued", "failed"} : task'[c] = [t EXCEPT !.invoice = i]
    BY <1>9, QueueInvoiceMoves
  <2>3. Books(c, task'[c], taken[c], OrdersBy(c))
    BY <1>1, <1>2, <2>1, <2>2 DEF Books, TaskState, OrderOf
  <2> QED BY <2>1, <2>3, BookTurn
<1> QED BY <1>3, <1>4, <1>5, <1>6, <1>7, <1>8, <1>9, <1>10 DEF Handle

\* The steps of the services, and calls that fail.
LEMMA ServiceBooks ==
    ASSUME TypeOK, BooksAgree, NEW c \in Checkout,
           \/ Serve(c)
           \/ FailAuth(c) \/ BreakCall(c) \/ LoseCall(c) \/ HangInsert(c)
    PROVE  BooksAgree'
<1> DEFINE t == task[c]
<1>1. t \in TaskState BY DEF TypeOK
<1>2. Books(c, t, taken[c], OrdersBy(c)) BY DEF BooksAgree
<1>8. CASE ServeAuth(c)
  <2>1. /\ Only(c) /\ t.pc = "waiting" /\ t.call = "auth"
        /\ UNCHANGED <<taken, database, memory, forgotten>>
    BY <1>8, ServeAuthMoves
       DEF ServeAuth, Arrives, Waiting, outside, process, storage
  <2>2. PICK a \in {"served", "refused"} : task'[c] = [t EXCEPT !.state = a]
    BY <1>8, ServeAuthMoves
  <2>3. Books(c, task'[c], taken[c], OrdersBy(c))
    BY <1>1, <1>2, <2>1, <2>2 DEF Books, TaskState, OrderOf
  <2> QED BY <2>1, <2>3, BookTurn
<1>3. CASE ServeCart(c)
  <2>1. /\ Only(c) /\ t.pc = "waiting" /\ t.call = "cart"
        /\ UNCHANGED <<taken, database, memory, forgotten>>
    BY <1>3, ServeCartMoves
       DEF ServeCart, Arrives, Waiting, outside, process, storage
  <2>2. /\ task'[c].pc = "waiting" /\ task'[c].pod = t.pod
        /\ task'[c].call = "cart" /\ task'[c].answer = t.answer
        /\ task'[c].invoice = t.invoice
    BY <1>1, <1>3, <2>1, ServeCartMoves, ZenonT(30) DEF TaskState
  <2>3. Books(c, task'[c], taken[c], OrdersBy(c))
    BY <1>2, <2>1, <2>2 DEF Books
  <2> QED BY <2>1, <2>3, BookTurn
<1>4. CASE ServeReserve(c)
  <2>1. /\ Only(c) /\ t.call = "reserve" /\ t.state = "sent"
        /\ UNCHANGED <<database, memory, forgotten>>
    BY <1>4, ServeReserveMoves
       DEF ServeReserve, Arrives, process, storage
  <2>2. CASE task'[c] = [t EXCEPT !.state = "refused"] /\ UNCHANGED taken
    <3>1. Books(c, task'[c], taken[c], OrdersBy(c))
      BY <1>1, <1>2, <2>1, <2>2 DEF Books, TaskState
    <3> QED BY <2>1, <2>2, <3>1, BookTurn
  <2>3. CASE /\ task'[c] = [t EXCEPT !.state = "served"]
             /\ taken' = [taken EXCEPT ![c] = t.items]
    <3> DEFINE none == {}
    <3>1. /\ taken'[c] = t.items
          /\ \A d \in Checkout \ {c} : taken'[d] = taken[d]
      BY <2>3 DEF TypeOK
    <3>2. Books(c, task'[c], taken'[c], OrdersBy(c) \cup none)
      BY <1>1, <1>2, <2>1, <2>3, <3>1 DEF Books, TaskState
    <3>3. \A o \in none : o.by = c OBVIOUS
    <3>4. Stored' = Stored \cup none BY <2>1, StoredStays
    <3> HIDE DEF none
    <3> QED BY <2>1, <3>1, <3>2, <3>3, <3>4, OneBook
  <2> QED BY <1>4, <2>2, <2>3, ServeReserveMoves
<1>5. CASE ServeSave(c)
  <2>1. /\ Only(c) /\ t.call = "save" /\ t.state = "sent"
        /\ UNCHANGED <<taken, memory, forgotten>>
    BY <1>5, ServeSaveMoves DEF ServeSave, Arrives, process, outside
  <2>2. ASSUME NEW a \in {"refused", "failed"},
               task'[c] = [t EXCEPT !.state = a], UNCHANGED database
        PROVE  BooksAgree'
    <3>1. Books(c, task'[c], taken[c], OrdersBy(c))
      BY <1>1, <1>2, <2>1, <2>2 DEF Books, TaskState, OrderOf
    <3> QED BY <2>1, <2>2, <3>1, BookTurn
  <2>3. CASE /\ task'[c] = [t EXCEPT !.state = "served"]
             /\ database' = database \cup {OrderOf(c, t)}
    <3> DEFINE o == OrderOf(c, t)
    <3> DEFINE added == {o}
    <3>1. Stored' = Stored \cup added BY <2>1, <2>3 DEF Stored
    <3>2. o.by = c /\ o = OrderOf(c, task'[c])
      BY <1>1, <2>3 DEF OrderOf, TaskState
    <3>3. OrdersBy(c) \cup added = {OrderOf(c, task'[c])}
      BY <1>2, <2>1, <3>2 DEF Books
    <3>4. Books(c, task'[c], taken'[c], OrdersBy(c) \cup added)
      <4>1. /\ task'[c].pc = t.pc /\ task'[c].pod = t.pod
            /\ task'[c].call = t.call /\ task'[c].state = "served"
            /\ task'[c].items = t.items /\ task'[c].answer = t.answer
            /\ task'[c].invoice = t.invoice
        BY <1>1, <2>3 DEF TaskState
      <4> HIDE DEF o, added
      <4> QED BY <1>2, <2>1, <3>3, <4>1 DEF Books
    <3>5. \A d \in Checkout \ {c} : taken'[d] = taken[d] BY <2>1
    <3>6. \A q \in added : q.by = c BY <3>2
    <3> HIDE DEF o, added
    <3> QED BY <2>1, <3>1, <3>4, <3>5, <3>6, OneBook
  <2> QED BY <1>5, <2>2, <2>3, ServeSaveMoves
<1>6. CASE ServeClear(c)
  <2>1. /\ Only(c) /\ t.call = "clear" /\ t.state = "sent"
        /\ UNCHANGED <<taken, database, memory, forgotten>>
    BY <1>6, ServeClearMoves
       DEF ServeClear, Arrives, process, storage
  <2>2. PICK a \in {"served", "refused"} : task'[c] = [t EXCEPT !.state = a]
    BY <1>6, ServeClearMoves
  <2>3. Books(c, task'[c], taken[c], OrdersBy(c))
    BY <1>1, <1>2, <2>1, <2>2 DEF Books, TaskState, OrderOf
  <2> QED BY <2>1, <2>3, BookTurn
<1>7. CASE FailAuth(c) \/ BreakCall(c) \/ LoseCall(c) \/ HangInsert(c)
  <2>1. /\ Only(c) /\ t.pc = "waiting"
        /\ UNCHANGED <<taken, database, memory, forgotten>>
    BY <1>7, CallFails DEF Waiting, outside, process, storage
  <2>2. PICK a \in {"unverified", "failed", "lost"} : task'[c] = [t EXCEPT !.state = a]
    BY <1>7, CallFails
  <2>3. Books(c, task'[c], taken[c], OrdersBy(c))
    BY <1>1, <1>2, <2>1, <2>2 DEF Books, TaskState, OrderOf
  <2> QED BY <2>1, <2>3, BookTurn
<1> QED BY <1>3, <1>4, <1>5, <1>6, <1>7, <1>8 DEF Serve

\* A process that ends leaves the books in order.
LEMMA RestartBooks ==
    ASSUME TypeOK, BooksAgree, NEW p \in Pod, Restart(p)
    PROVE  BooksAgree'
<1>1. Stored' = Stored BY RestartStores
<1>2. taken' = taken BY DEF Restart, outside
<1>3. ASSUME NEW c \in Checkout
      PROVE  Books(c, task'[c], taken[c], OrdersBy(c))
  <2>1. task[c] \in TaskState BY DEF TypeOK
  <2>2. Books(c, task[c], taken[c], OrdersBy(c)) BY DEF BooksAgree
  <2>3. CASE task'[c] = task[c] BY <2>2, <2>3
  <2>4. CASE /\ Waiting(c)
             /\ task'[c] = [task[c] EXCEPT !.pc = "done", !.answer = "dropped"]
    BY <2>1, <2>2, <2>4 DEF Books, TaskState, OrderOf, Waiting
  <2>5. CASE /\ ~Waiting(c) /\ task[c].invoice = "sent"
             /\ task'[c] = [task[c] EXCEPT !.invoice = "failed"]
    BY <2>1, <2>2, <2>5 DEF Books, TaskState, OrderOf, Waiting
  <2> QED BY <2>3, <2>4, <2>5, RestartMoves
<1>4. \A c \in Checkout : OrdersBy(c)' = OrdersBy(c) BY <1>1 DEF OrdersBy
<1> QED BY <1>2, <1>3, <1>4 DEF BooksAgree, Books, OrderOf

\* A step of no handler changes no book.
LEMMA OtherBooks ==
    ASSUME BooksAgree,
           UNCHANGED <<task, taken, database, memory, forgotten>>
    PROVE  BooksAgree'
<1>1. Stored' = Stored BY StoredStays
<1> QED BY <1>1 DEF BooksAgree, OrdersBy, Books, OrderOf

\* Every step keeps the books.
LEMMA NextBooks == TypeOK /\ BooksAgree /\ [Next]_vars => BooksAgree'
<1> SUFFICES ASSUME TypeOK, BooksAgree, [Next]_vars PROVE BooksAgree' OBVIOUS
<1>1. CASE Outside
  <2>1. UNCHANGED <<task, taken, database, memory, forgotten>>
    BY <1>1 DEF Outside, SignOut, SignIn, AddItem, ConnectDatabase,
                DatabaseStops, DatabaseStarts, outside, process, storage
  <2> QED BY <2>1, OtherBooks
<1>2. CASE UNCHANGED vars
  BY <1>2, OtherBooks DEF vars, outside, process, storage
<1>3. ASSUME NEW c \in Checkout, StepOf(c) PROVE BooksAgree'
  BY <1>3, HandlerBooks, ServiceBooks DEF StepOf
<1> QED BY <1>1, <1>2, <1>3, StepsAreOfThreeSorts, RestartBooks

\* So types and books hold in every reachable state.
LEMMA BooksInvariant == Spec => [](TypeOK /\ BooksAgree)
<1>1. Init => TypeOK
  BY CheckoutAssumption DEF Init, TypeOK, Idle, TaskState
<1>2. Init => BooksAgree
  <2> SUFFICES ASSUME Init, NEW c \in Checkout
               PROVE  Books(c, task[c], taken[c], OrdersBy(c))
    BY DEF BooksAgree
  <2>1. OrdersBy(c) = {} BY DEF Init, OrdersBy, Stored
  <2>2. task[c] = Idle(c) /\ taken[c] = {} BY DEF Init
  <2> QED BY <2>1, <2>2 DEF Books, Idle
<1> QED BY <1>1, <1>2, NextTypes, NextBooks, PTL DEF Spec

\* An order, wherever it is kept, lists what the catalog has taken off the stock
\* for it, and a checkout has one order at most: for every number of pods, users
\* and checkouts, whatever fails, comes late or collides.
THEOREM OrdersMatchReservations == Spec => []OrdersAreReserved
<1>1. TypeOK /\ BooksAgree => OrdersAreReserved
  <2> SUFFICES ASSUME TypeOK, BooksAgree, NEW o \in Stored
               PROVE  /\ o.items = taken[o.by] /\ o.items # {}
                      /\ \A q \in Stored : q.by = o.by => q = o
    BY DEF OrdersAreReserved
  <2>1. o.by \in Checkout BY DEF TypeOK, Stored, Order
  <2> DEFINE c == o.by
  <2>2. Books(c, task[c], taken[c], OrdersBy(c)) /\ task[c] \in TaskState
    BY <2>1 DEF BooksAgree, TypeOK
  <2>3. o \in OrdersBy(c) BY DEF OrdersBy
  <2>4. /\ OrdersBy(c) \subseteq {OrderOf(c, task[c])}
        /\ taken[c] = task[c].items /\ task[c].items # {}
    BY <2>2, <2>3 DEF Books, TaskState, Call, HttpCall
  <2>5. o.items = task[c].items BY <2>3, <2>4 DEF OrderOf
  <2>6. \A q \in Stored : q.by = c => q = o BY <2>3, <2>4 DEF OrdersBy
  <2> QED BY <2>4, <2>5, <2>6
<1> QED BY <1>1, BooksInvariant, PTL

\* A 201, or an invoice, only for an order that is stored.
THEOREM ConfirmedHaveOrders == Spec => []ConfirmedIsStored
<1>1. BooksAgree => ConfirmedIsStored
  <2> SUFFICES ASSUME BooksAgree, NEW c \in Checkout,
                      task[c].answer = "201" \/ task[c].invoice # "none"
               PROVE  HasOrder(c) /\ task[c].answer = "201"
    BY DEF ConfirmedIsStored
  <2>1. Books(c, task[c], taken[c], OrdersBy(c)) BY DEF BooksAgree
  <2>2. task[c].answer = "201" /\ OrdersBy(c) = {OrderOf(c, task[c])}
    BY <2>1 DEF Books
  <2> QED BY <2>2 DEF HasOrder, OrdersBy
<1> QED BY <1>1, BooksInvariant, PTL

\* A checkout answered 400 or 409 has done nothing and will do nothing.
THEOREM RefusedDidNothing == Spec => []RefusalsHaveNoEffect
<1>1. BooksAgree => RefusalsHaveNoEffect
  <2> SUFFICES ASSUME BooksAgree, NEW c \in Checkout,
                      task[c].answer \in {"400", "409"}
               PROVE  /\ taken[c] = {} /\ ~HasOrder(c)
                      /\ task[c].state # "sent"
    BY DEF RefusalsHaveNoEffect
  <2>1. Books(c, task[c], taken[c], OrdersBy(c)) BY DEF BooksAgree
  <2>2. taken[c] = {} /\ OrdersBy(c) = {} /\ task[c].state # "sent"
    BY <2>1 DEF Books
  <2> QED BY <2>2 DEF HasOrder, OrdersBy
<1> QED BY <1>1, BooksInvariant, PTL

-----------------------------------------------------------------------------
(* Items, and a user who waits for answers.                                *)

\* The handler has read the cart and is under way.
HasRead(c) ==
    /\ Waiting(c)
    /\ \/ task[c].call \in {"reserve", "save", "clear"}
       \/ task[c].call = "cart" /\ task[c].state = "served"

\* An item is in one cart, and in the hands of the checkouts of one user.
ItemsAreOnce ==
    /\ \A u, v \in User : u # v => cart[u] \cap cart[v] = {}
    /\ \A u \in User : cart[u] \cap unused = {}
    /\ \A c \in Checkout :
          /\ task[c].items \cap unused = {}
          /\ \A u \in User \ {Owner[c]} : task[c].items \cap cart[u] = {}
          /\ \A d \in Checkout :
                Owner[c] # Owner[d] => task[c].items \cap task[d].items = {}

\* A user who waits has one checkout under way, whose items the cart does not
\* outgrow; when it ends the cart has none of them.
OneByOne == OneAtATime =>
    /\ \A c, d \in Checkout :
          Waiting(c) /\ Waiting(d) /\ Owner[c] = Owner[d] => c = d
    /\ \A c \in Checkout :
          /\ HasRead(c) => cart[Owner[c]] \subseteq task[c].items
          /\ Served(c, "clear") => cart[Owner[c]] = {}
          /\ task[c].answer = "201" => task[c].items \cap cart[Owner[c]] = {}
          /\ \A d \in Checkout \ {c} :
                task[c].answer = "201" /\ (task[d].answer = "201" \/ HasRead(d))
                  => task[c].items \cap task[d].items = {}

Patience == ItemsAreOnce /\ OneByOne

\* A step that puts nothing in a cart, after which each handler has the items it
\* had, and is not further than it was.
LEMMA CalmSteps ==
    ASSUME TypeOK, Patience, UNCHANGED unused,
           \A u \in User : cart'[u] \subseteq cart[u],
           \A c \in Checkout :
              /\ task'[c].items = task[c].items
              /\ Waiting(c)' => Waiting(c)
              /\ HasRead(c)' => HasRead(c)
              /\ Served(c, "clear")' =>
                    Served(c, "clear") \/ cart'[Owner[c]] = {}
              /\ task'[c].answer = "201" => task[c].answer = "201"
    PROVE  Patience'
<1>1. ItemsAreOnce' BY DEF Patience, ItemsAreOnce
<1>2. Owner \in [Checkout -> User] BY CheckoutAssumption
<1>3. OneByOne'
  <2> SUFFICES ASSUME OneAtATime PROVE OneByOne' BY DEF OneByOne
  <2>1. \A c, d \in Checkout :
          Waiting(c)' /\ Waiting(d)' /\ Owner[c] = Owner[d] => c = d
    BY DEF Patience, OneByOne
  <2>2. ASSUME NEW c \in Checkout
        PROVE  /\ HasRead(c)' => cart'[Owner[c]] \subseteq task'[c].items
               /\ Served(c, "clear")' => cart'[Owner[c]] = {}
               /\ task'[c].answer = "201" =>
                     task'[c].items \cap cart'[Owner[c]] = {}
               /\ \A d \in Checkout \ {c} :
                    /\ task'[c].answer = "201"
                    /\ task'[d].answer = "201" \/ HasRead(d)'
                    => task'[c].items \cap task'[d].items = {}
    BY <1>2, <2>2 DEF Patience, OneByOne
  <2> QED BY <2>1, <2>2 DEF OneByOne
<1> QED BY <1>1, <1>3 DEF Patience

\* The same for a step of one handler.
LEMMA CalmStep ==
    ASSUME TypeOK, Patience, UNCHANGED <<unused, cart>>,
           NEW c \in Checkout, Only(c),
           task'[c].items = task[c].items,
           Waiting(c)' => Waiting(c),
           HasRead(c)' => HasRead(c),
           Served(c, "clear")' => Served(c, "clear") \/ cart'[Owner[c]] = {},
           task'[c].answer = "201" => task[c].answer = "201"
    PROVE  Patience'
<1>1. \A d \in Checkout \ {c} :
        /\ task'[d] = task[d] /\ Waiting(d)' = Waiting(d)
        /\ HasRead(d)' = HasRead(d)
        /\ Served(d, "clear")' = Served(d, "clear")
  BY DEF Only, Waiting, HasRead, Served
<1> QED BY <1>1, CalmSteps

\* An item is put in a cart: it was in no hands, and its user waits for nothing.
LEMMA AddItemPatience ==
    ASSUME TypeOK, Patience, NEW u \in User, NEW x \in Unit, AddItem(u, x)
    PROVE  Patience'
<1>1. /\ x \in unused /\ unused' = unused \ {x}
      /\ cart' = [cart EXCEPT ![u] = @ \cup {x}] /\ task' = task
      /\ OneAtATime => \A c \in Checkout : Owner[c] = u => ~Waiting(c)
  BY DEF AddItem, MayAct
<1>2. /\ cart'[u] = cart[u] \cup {x}
      /\ \A v \in User \ {u} : cart'[v] = cart[v]
  BY <1>1 DEF TypeOK
<1>3. ItemsAreOnce' BY <1>1, <1>2 DEF Patience, ItemsAreOnce
<1>4. OneByOne'
  <2> SUFFICES ASSUME OneAtATime PROVE OneByOne' BY DEF OneByOne
  <2>1. \A c \in Checkout :
          /\ Waiting(c)' = Waiting(c) /\ HasRead(c)' = HasRead(c)
          /\ Served(c, "clear")' = Served(c, "clear")
    BY <1>1 DEF Waiting, HasRead, Served
  <2>2. \A c \in Checkout : HasRead(c) \/ Served(c, "clear") => Owner[c] # u
    BY <1>1 DEF HasRead, Served
  <2>3. \A c \in Checkout : x \notin task[c].items
    BY <1>1 DEF Patience, ItemsAreOnce
  <2>4. Owner \in [Checkout -> User] BY CheckoutAssumption
  <2>5. OneByOne BY DEF Patience
  <2>6. \A c \in Checkout :
          /\ HasRead(c)' => cart'[Owner[c]] \subseteq task'[c].items
          /\ Served(c, "clear")' => cart'[Owner[c]] = {}
    BY <1>1, <1>2, <2>1, <2>2, <2>4, <2>5 DEF OneByOne
  <2>7. \A c \in Checkout : task'[c].answer = "201" =>
                               task'[c].items \cap cart'[Owner[c]] = {}
    <3> SUFFICES ASSUME NEW c \in Checkout, task[c].answer = "201"
                 PROVE  task[c].items \cap cart'[Owner[c]] = {}
      BY <1>1
    <3>1. task[c].items \cap cart[Owner[c]] = {} BY <2>5 DEF OneByOne
    <3>2. cart'[Owner[c]] \subseteq cart[Owner[c]] \cup {x} BY <1>2, <2>4
    <3> QED BY <2>3, <3>1, <3>2
  <2> QED BY <1>1, <2>1, <2>5, <2>6, <2>7 DEF OneByOne
<1> QED BY <1>3, <1>4 DEF Patience

\* A checkout starts: its user waits for no other.
LEMMA StartPatience ==
    ASSUME TypeOK, Patience, BooksAgree,
           NEW c \in Checkout, NEW p \in Pod, Start(c, p)
    PROVE  Patience'
<1>1. task[c] \in TaskState /\ Only(c) BY StartMoves DEF TypeOK
<1>2. /\ task'[c].items = task[c].items /\ ~HasRead(c)'
      /\ ~Served(c, "clear")' /\ task'[c].answer # "201"
  <2>1. task[c].pc = "idle" /\ task[c].answer = "none"
    BY DEF Start, BooksAgree, Books
  <2> QED BY <1>1, <2>1, StartMoves, ZenonT(30)
          DEF TaskState, HasRead, Served, Waiting
<1>3. /\ UNCHANGED <<unused, cart>>
      /\ OneAtATime => \A d \in Checkout : Owner[d] = Owner[c] => ~Waiting(d)
  BY DEF Start, outside, MayAct
<1>4. \A d \in Checkout \ {c} :
        /\ task'[d] = task[d] /\ Waiting(d)' = Waiting(d)
        /\ HasRead(d)' = HasRead(d) /\ Served(d, "clear")' = Served(d, "clear")
  BY <1>1 DEF Only, Waiting, HasRead, Served
<1>5. ItemsAreOnce' BY <1>2, <1>3, <1>4 DEF Patience, ItemsAreOnce
<1>6. OneByOne' BY <1>2, <1>3, <1>4 DEF Patience, OneByOne
<1> QED BY <1>5, <1>6 DEF Patience

\* A cart is read: the items in it are in no confirmed order.
LEMMA ServeCartPatience ==
    ASSUME TypeOK, Patience, BooksAgree, NEW c \in Checkout, ServeCart(c)
    PROVE  Patience'
<1>1. task[c] \in TaskState /\ Only(c) /\ UNCHANGED <<unused, cart>>
  BY ServeCartMoves DEF TypeOK, ServeCart, outside
<1>2. Waiting(c) /\ task[c].call = "cart" /\ task[c].answer = "none"
  BY DEF ServeCart, Arrives, Waiting, BooksAgree, Books
<1>3. CASE task'[c] = [task[c] EXCEPT !.state = "refused"]
  <2>1. /\ task'[c].items = task[c].items /\ ~HasRead(c)'
        /\ ~Served(c, "clear")' /\ task'[c].answer # "201"
    BY <1>1, <1>2, <1>3 DEF TaskState, HasRead, Served
  <2> QED BY <1>1, <1>2, <2>1, CalmStep
<1>4. CASE task'[c] = [task[c] EXCEPT !.state = "served",
                                      !.items = cart[Owner[c]]]
  <2>1. /\ task'[c].items = cart[Owner[c]] /\ Waiting(c)'
        /\ ~Served(c, "clear")' /\ task'[c].answer = "none"
    BY <1>1, <1>2, <1>4 DEF TaskState, Served, Waiting
  <2>2. \A d \in Checkout \ {c} :
          /\ task'[d] = task[d] /\ Waiting(d)' = Waiting(d)
          /\ HasRead(d)' = HasRead(d)
          /\ Served(d, "clear")' = Served(d, "clear")
    BY <1>1 DEF Only, Waiting, HasRead, Served
  <2>3. Owner \in [Checkout -> User] BY CheckoutAssumption
  <2>4. ItemsAreOnce' BY <1>1, <2>1, <2>2, <2>3 DEF Patience, ItemsAreOnce
  <2>5. OneByOne'
    <3> SUFFICES ASSUME OneAtATime PROVE OneByOne' BY DEF OneByOne
    <3>1. OneByOne /\ ItemsAreOnce BY DEF Patience
    <3>2. \A d \in Checkout \ {c} : task[d].answer = "201" =>
             task[d].items \cap cart[Owner[c]] = {}
      BY <2>3, <3>1 DEF OneByOne, ItemsAreOnce
    <3> QED BY <1>1, <1>2, <2>1, <2>2, <3>1, <3>2 DEF OneByOne
  <2> QED BY <2>4, <2>5 DEF Patience
<1> QED BY <1>3, <1>4, ServeCartMoves

\* A checkout is confirmed: the cart is empty.
LEMMA CartClearedPatience ==
    ASSUME TypeOK, Patience, NEW c \in Checkout, CartCleared(c)
    PROVE  Patience'
<1>1. task[c] \in TaskState /\ Only(c) /\ UNCHANGED <<unused, cart>>
  BY CartClearedMoves DEF TypeOK, CartCleared, outside
<1>2. /\ task'[c].items = task[c].items /\ ~Waiting(c)' /\ ~HasRead(c)'
      /\ ~Served(c, "clear")'
  BY <1>1, CartClearedMoves, ZenonT(30) DEF TaskState, Waiting, HasRead, Served
<1>3. Served(c, "clear") /\ Waiting(c) /\ HasRead(c)
  BY DEF CartCleared, Served, HasRead
<1>4. \A d \in Checkout \ {c} :
        /\ task'[d] = task[d] /\ Waiting(d)' = Waiting(d)
        /\ HasRead(d)' = HasRead(d) /\ Served(d, "clear")' = Served(d, "clear")
  BY <1>1 DEF Only, Waiting, HasRead, Served
<1>5. ItemsAreOnce' BY <1>1, <1>2, <1>4 DEF Patience, ItemsAreOnce
<1>6. OneByOne'
  <2> SUFFICES ASSUME OneAtATime PROVE OneByOne' BY DEF OneByOne
  <2>1. OneByOne /\ ItemsAreOnce BY DEF Patience
  <2>2. cart[Owner[c]] = {} BY <1>3, <2>1 DEF OneByOne
  <2>3. \A d \in Checkout \ {c} : HasRead(d) \/ task[d].answer = "201" =>
           task[c].items \cap task[d].items = {}
    <3>1. \A d \in Checkout \ {c} : HasRead(d) => Owner[d] # Owner[c]
      BY <1>3, <2>1 DEF OneByOne, HasRead
    <3>2. \A d \in Checkout \ {c} : task[d].answer = "201" =>
             task[d].items \cap task[c].items = {}
      BY <1>3, <2>1 DEF OneByOne
    <3> QED BY <2>1, <3>1, <3>2 DEF ItemsAreOnce
  <2> QED BY <1>1, <1>2, <1>4, <2>1, <2>2, <2>3 DEF OneByOne
<1> QED BY <1>5, <1>6 DEF Patience

\* Handlers that go on with what they have read, and calls that are served.
LEMMA GoOnPatience ==
    ASSUME TypeOK, Patience, NEW c \in Checkout,
           \/ HaveSession(c) \/ HaveCart(c) \/ HaveReservation(c)
           \/ OrderSaved(c) \/ ServeAuth(c) \/ ServeReserve(c) \/ ServeSave(c)
    PROVE  Patience'
<1>1. task[c] \in TaskState /\ UNCHANGED <<unused, cart>>
  BY DEF TypeOK, HaveSession, HaveCart, HaveReservation, OrderSaved, ServeAuth,
         ServeReserve, ServeSave, outside
<1>2. CASE HaveCart(c)
  <2>1. Served(c, "cart") /\ Only(c) BY <1>2, HaveCartMoves DEF HaveCart
  <2>2. CASE task'[c] = [task[c] EXCEPT !.pc = "done", !.answer = "400"]
    <3>1. /\ task'[c].items = task[c].items /\ ~Waiting(c)'
          /\ task'[c].answer # "201"
      BY <1>1, <2>2 DEF TaskState, Waiting
    <3> QED BY <1>1, <2>1, <3>1, CalmStep DEF HasRead, Served
  <2>3. CASE task'[c] = [task[c] EXCEPT !.call = "reserve", !.state = "sent"]
    <3>1. /\ task'[c].items = task[c].items /\ task'[c].answer = task[c].answer
          /\ task'[c].state = "sent"
      BY <1>1, <2>3 DEF TaskState
    <3>2. Waiting(c) /\ HasRead(c) /\ ~Served(c, "clear")'
      BY <2>1, <3>1 DEF Served, HasRead
    <3> QED BY <1>1, <2>1, <3>1, <3>2, CalmStep
  <2> QED BY <1>2, <2>2, <2>3, HaveCartMoves
<1>3. CASE HaveReservation(c) \/ OrderSaved(c)
  <2>1. Only(c) /\ Waiting(c) /\ HasRead(c)
    BY <1>3, HaveReservationMoves, OrderSavedMoves
       DEF HaveReservation, OrderSaved, Served, HasRead
  <2>2. /\ task'[c].items = task[c].items /\ task'[c].answer = task[c].answer
        /\ task'[c].state = "sent"
    <3>1. CASE HaveReservation(c)
      BY <1>1, <3>1, HaveReservationMoves, ZenonT(60) DEF TaskState
    <3>2. CASE OrderSaved(c)
      BY <1>1, <3>2, OrderSavedMoves, ZenonT(60) DEF TaskState
    <3> QED BY <1>3, <3>1, <3>2
  <2>3. ~Served(c, "clear")' BY <2>2 DEF Served
  <2> QED BY <1>1, <2>1, <2>2, <2>3, CalmStep
<1>4. CASE ServeAuth(c) \/ ServeReserve(c) \/ ServeSave(c)
  <2>1. Only(c) /\ task[c].call \in {"auth", "reserve", "save"}
    BY <1>4, ServeAuthMoves, ServeReserveMoves, ServeSaveMoves
       DEF ServeAuth, ServeReserve, ServeSave, Arrives
  <2>2. PICK a \in {"served", "refused", "failed"} :
          task'[c] = [task[c] EXCEPT !.state = a]
    BY <1>4, ServeAuthMoves, ServeReserveMoves, ServeSaveMoves
  <2>3. /\ task'[c].items = task[c].items /\ task'[c].answer = task[c].answer
        /\ task'[c].pc = task[c].pc /\ task'[c].call = task[c].call
    BY <1>1, <2>2 DEF TaskState
  <2>4. /\ Waiting(c)' = Waiting(c) /\ HasRead(c)' = HasRead(c)
        /\ ~Served(c, "clear")'
    BY <2>1, <2>3 DEF Waiting, HasRead, Served
  <2> QED BY <1>1, <2>1, <2>3, <2>4, CalmStep
<1>5. CASE HaveSession(c)
  <2>1. /\ Only(c) /\ Waiting(c)
        /\ task[c].call = "auth"
    BY <1>5, HaveSessionMoves DEF HaveSession, Served
  <2>2. CASE task'[c] = [task[c] EXCEPT !.pc = "done", !.answer = "400"]
    <3>1. /\ task'[c].items = task[c].items /\ ~Waiting(c)'
          /\ task'[c].answer # "201"
      BY <1>1, <2>2 DEF TaskState, Waiting
    <3> QED BY <1>1, <2>1, <3>1, CalmStep DEF HasRead, Served
  <2>3. CASE task'[c] = [task[c] EXCEPT !.call = "cart", !.state = "sent"]
    <3>1. /\ task'[c].items = task[c].items /\ task'[c].answer = task[c].answer
          /\ task'[c].call = "cart" /\ task'[c].state = "sent"
      BY <1>1, <2>3 DEF TaskState
    <3> QED BY <1>1, <2>1, <3>1, CalmStep DEF HasRead, Served
  <2> QED BY <1>5, <2>2, <2>3, HaveSessionMoves
<1> QED BY <1>2, <1>3, <1>4, <1>5

\* Handlers that end without a 201, invoices, and calls that fail.
LEMMA EndPatience ==
    ASSUME TypeOK, Patience, NEW c \in Checkout,
           \/ CallRejected(c) \/ Timeout(c) \/ QueueInvoice(c)
           \/ FailAuth(c) \/ BreakCall(c) \/ LoseCall(c) \/ HangInsert(c)
    PROVE  Patience'
<1>1. task[c] \in TaskState /\ UNCHANGED <<unused, cart>>
  BY DEF TypeOK, CallRejected, Timeout, QueueInvoice, FailAuth, BreakCall,
         LoseCall, HangInsert, outside
<1>2. CASE CallRejected(c) \/ Timeout(c)
  <2>1. Only(c) BY <1>2, CallRejectedMoves, TimeoutMoves
  <2>2. PICK a \in {"400", "401", "409", "500"} :
          task'[c] = [task[c] EXCEPT !.pc = "done", !.answer = a]
    BY <1>2, CallRejectedMoves, TimeoutMoves
  <2>3. /\ task'[c].items = task[c].items /\ ~Waiting(c)'
        /\ task'[c].answer # "201"
    BY <1>1, <2>2 DEF TaskState, Waiting
  <2> QED BY <1>1, <2>1, <2>3, CalmStep DEF HasRead, Served
<1>3. CASE QueueInvoice(c)
  <2>1. Only(c) BY <1>3, QueueInvoiceMoves
  <2>2. PICK i \in {"queued", "failed"} :
          task'[c] = [task[c] EXCEPT !.invoice = i]
    BY <1>3, QueueInvoiceMoves
  <2>3. /\ task'[c].items = task[c].items /\ task'[c].answer = task[c].answer
        /\ task'[c].pc = task[c].pc /\ task'[c].call = task[c].call
        /\ task'[c].state = task[c].state
    BY <1>1, <2>2 DEF TaskState
  <2> QED BY <1>1, <2>1, <2>3, CalmStep DEF Waiting, HasRead, Served
<1>4. CASE FailAuth(c) \/ BreakCall(c) \/ LoseCall(c) \/ HangInsert(c)
  <2>1. Only(c) BY <1>4, CallFails
  <2>2. PICK a \in {"unverified", "failed", "lost"} :
          task'[c] = [task[c] EXCEPT !.state = a]
    BY <1>4, CallFails
  <2>3. /\ task'[c].items = task[c].items /\ task'[c].answer = task[c].answer
        /\ task'[c].pc = task[c].pc /\ task'[c].call = task[c].call
        /\ task'[c].state # "served"
    BY <1>1, <2>2 DEF TaskState
  <2> QED BY <1>1, <2>1, <2>3, CalmStep DEF Waiting, HasRead, Served
<1> QED BY <1>2, <1>3, <1>4

\* A clearing empties the cart, also for a handler that has given up.
LEMMA ServeClearPatience ==
    ASSUME TypeOK, Patience, NEW c \in Checkout, ServeClear(c)
    PROVE  Patience'
<1>1. /\ task[c] \in TaskState /\ Only(c) /\ UNCHANGED unused
      /\ task[c].call = "clear"
  BY ServeClearMoves DEF TypeOK, ServeClear, Arrives
<1>2. PICK a \in {"served", "refused"} :
        /\ task'[c] = [task[c] EXCEPT !.state = a]
        /\ \/ a = "served" /\ cart' = [cart EXCEPT ![Owner[c]] = {}]
           \/ a = "refused" /\ cart' = cart
  BY ServeClearMoves
<1>3. /\ task'[c].items = task[c].items /\ task'[c].answer = task[c].answer
      /\ task'[c].pc = task[c].pc /\ task'[c].call = "clear"
      /\ task'[c].state = a
  BY <1>1, <1>2 DEF TaskState
<1>4. Owner[c] \in User /\ cart \in [User -> SUBSET Unit]
  BY CheckoutAssumption DEF TypeOK
<1>5. /\ \A u \in User : cart'[u] \subseteq cart[u]
      /\ a = "served" => cart'[Owner[c]] = {}
  BY <1>2, <1>4
<1>6. /\ Waiting(c)' = Waiting(c) /\ HasRead(c)' = HasRead(c)
      /\ Served(c, "clear")' => cart'[Owner[c]] = {}
  BY <1>1, <1>3, <1>5 DEF Waiting, HasRead, Served
<1>7. \A d \in Checkout \ {c} :
        /\ task'[d] = task[d] /\ Waiting(d)' = Waiting(d)
        /\ HasRead(d)' = HasRead(d) /\ Served(d, "clear")' = Served(d, "clear")
  BY <1>1 DEF Only, Waiting, HasRead, Served
<1> QED BY <1>1, <1>3, <1>5, <1>6, <1>7, CalmSteps

\* A process that ends confirms and reads nothing.
LEMMA RestartPatience ==
    ASSUME TypeOK, Patience, NEW p \in Pod, Restart(p)
    PROVE  Patience'
<1>1. UNCHANGED <<unused, cart>> BY DEF Restart, outside
<1>2. ASSUME NEW c \in Checkout
      PROVE  /\ task'[c].items = task[c].items
             /\ Waiting(c)' => Waiting(c) /\ task'[c] = task[c]
             /\ task'[c].answer = "201" => task[c].answer = "201"
  <2>1. task[c] \in TaskState BY DEF TypeOK
  <2>2. CASE task'[c] = task[c] BY <2>2 DEF Waiting
  <2>3. CASE task'[c] = [task[c] EXCEPT !.pc = "done", !.answer = "dropped"]
    BY <2>1, <2>3 DEF TaskState, Waiting
  <2>4. CASE /\ ~Waiting(c)
             /\ task'[c] = [task[c] EXCEPT !.invoice = "failed"]
    BY <2>1, <2>4 DEF TaskState, Waiting
  <2> QED BY <2>2, <2>3, <2>4, RestartMoves
<1>3. \A c \in Checkout : /\ HasRead(c)' => HasRead(c)
                          /\ Served(c, "clear")' => Served(c, "clear")
  BY <1>2 DEF HasRead, Served
<1> QED BY <1>1, <1>2, <1>3, CalmSteps

\* Every step preserves both.
LEMMA NextPatience ==
    TypeOK /\ BooksAgree /\ Patience /\ [Next]_vars => Patience'
<1> SUFFICES ASSUME TypeOK, BooksAgree, Patience, [Next]_vars PROVE Patience'
  OBVIOUS
<1>1. CASE UNCHANGED <<unused, cart, task>>
  BY <1>1, CalmSteps DEF Waiting, HasRead, Served
<1>2. CASE Outside
  <2>1. \/ UNCHANGED <<unused, cart, task>>
        \/ \E u \in User, x \in Unit : AddItem(u, x)
    BY <1>2 DEF Outside, SignOut, SignIn, ConnectDatabase, DatabaseStops,
                DatabaseStarts, outside, storage
  <2> QED BY <1>1, <2>1, AddItemPatience
<1>3. ASSUME NEW c \in Checkout, StepOf(c) PROVE Patience'
  BY <1>3, StartPatience, ServeCartPatience, CartClearedPatience, GoOnPatience,
     EndPatience, ServeClearPatience DEF StepOf, Handle, Serve
<1>4. CASE UNCHANGED vars BY <1>1, <1>4 DEF vars, outside
<1> QED BY <1>2, <1>3, <1>4, StepsAreOfThreeSorts, RestartPatience

\* So they hold in every reachable state.
LEMMA PatienceInvariant == Spec => []Patience
<1>1. Init => Patience
  <2> SUFFICES ASSUME Init PROVE Patience OBVIOUS
  <2>1. /\ Owner \in [Checkout -> User] /\ cart = [u \in User |-> {}]
        /\ \A c \in Checkout : task[c] = Idle(c)
    BY CheckoutAssumption DEF Init
  <2>2. ASSUME NEW c \in Checkout
        PROVE  task[c].items = {} /\ task[c].answer = "none" /\ ~Waiting(c)
    <3>1. task[c] = Idle(c) BY <2>1
    <3>2. /\ Idle(c).items = {} /\ Idle(c).answer = "none"
          /\ Idle(c).pc = "idle"
      BY DEF Idle
    <3> HIDE DEF Idle
    <3> QED BY <3>1, <3>2 DEF Waiting
  <2>3. ItemsAreOnce BY <2>1, <2>2 DEF ItemsAreOnce
  <2>4. OneByOne BY <2>1, <2>2 DEF OneByOne, HasRead, Served
  <2> QED BY <2>3, <2>4 DEF Patience
<1> QED BY <1>1, NextPatience, BooksInvariant, PTL DEF Spec

\* A user who waits for each answer never buys an item twice, however many
\* checkouts failed before, came late or were tried again.
THEOREM PatientBuyOnce == OneAtATime /\ Spec => []NoItemConfirmedTwice
<1>1. CASE OneAtATime
  <2>1. Patience => NoItemConfirmedTwice
    BY <1>1 DEF Patience, OneByOne, NoItemConfirmedTwice
  <2> QED BY <2>1, PatienceInvariant, PTL
<1>2. CASE ~OneAtATime BY <1>2
<1> QED BY <1>1, <1>2

\* Some order is stored for what leaves a cart, one that has it if its user waits.
LeavesIntoOrders ==
    \A u \in User : \A x \in cart[u] \ cart'[u] :
       \E c \in Checkout :
          /\ Owner[c] = u /\ HasOrder(c)
          /\ OneAtATime /\ Waiting(c) => x \in task[c].items

\* A cart is cleared: the order is stored, and has all of it.
LEMMA ClearingLeavesIntoOrders ==
    ASSUME TypeOK, BooksAgree, Patience, NEW c \in Checkout, ServeClear(c)
    PROVE  LeavesIntoOrders
<1>1. /\ Books(c, task[c], taken[c], OrdersBy(c))
      /\ task[c].call = "clear"
  BY DEF BooksAgree, ServeClear, Arrives
<1>2. HasOrder(c)
  <2>1. OrdersBy(c) = {OrderOf(c, task[c])} BY <1>1 DEF Books
  <2> QED BY <2>1 DEF OrdersBy, HasOrder
<1>3. \A u \in User \ {Owner[c]} : cart'[u] = cart[u]
  BY ServeClearMoves, ZenonT(30) DEF TypeOK
<1>4. OneAtATime /\ Waiting(c) => cart[Owner[c]] \subseteq task[c].items
  BY <1>1 DEF HasRead, Patience, OneByOne
<1> QED BY <1>2, <1>3, <1>4 DEF LeavesIntoOrders

\* No other step takes anything from a cart.
LEMMA StepsLeaveIntoOrders ==
    TypeOK /\ BooksAgree /\ Patience /\ [Next]_vars => [LeavesIntoOrders]_vars
<1> SUFFICES ASSUME TypeOK, BooksAgree, Patience, Next PROVE LeavesIntoOrders
  OBVIOUS
<1>1. CASE cart' = cart BY <1>1 DEF LeavesIntoOrders
<1>2. ASSUME NEW u \in User, NEW x \in Unit, AddItem(u, x)
      PROVE  LeavesIntoOrders
  BY <1>2 DEF AddItem, TypeOK, LeavesIntoOrders
<1>3. CASE Outside
  BY <1>1, <1>2, <1>3 DEF Outside, SignOut, SignIn, ConnectDatabase,
                          DatabaseStops, DatabaseStarts, outside
<1>4. ASSUME NEW c \in Checkout, StepOf(c) PROVE LeavesIntoOrders
  BY <1>1, <1>4, ClearingLeavesIntoOrders
     DEF StepOf, Start, Handle, HaveSession, HaveCart, HaveReservation,
         OrderSaved, CartCleared, CallRejected, QueueInvoice, Timeout, Serve,
         ServeAuth, ServeCart,
         ServeReserve, ServeSave, FailAuth, BreakCall, LoseCall, HangInsert,
         outside
<1>5. ASSUME NEW p \in Pod, Restart(p) PROVE LeavesIntoOrders
  BY <1>1, <1>5 DEF Restart, outside
<1> QED BY <1>3, <1>4, <1>5, StepsAreOfThreeSorts

\* A cart is emptied only for a stored order, and of nothing that is not in it
\* while its user waits.
THEOREM CartsGoIntoOrders == Spec => CartsEmptyIntoOrders
<1>1. Spec => [][LeavesIntoOrders]_vars
  BY StepsLeaveIntoOrders, BooksInvariant, PatienceInvariant, PTL DEF Spec
<1> QED BY <1>1 DEF CartsEmptyIntoOrders, LeavesIntoOrders

-----------------------------------------------------------------------------
(* One purchase.                                                           *)

\* How a checkout has ended for the atomic purchase, and what it has bought.
EndOf(c) ==
    IF Bought(c) \/ task[c].answer = "201" THEN "bought"
    ELSE IF WillRefuse(c)                  THEN "refused"
    ELSE IF WillFail(c)                    THEN "failed"
    ELSE "open"
SoldTo(c) == IF Bought(c) THEN task[c].items ELSE Ordered(c)

\* A step of the purchase, or one it does not know of.
Purchases ==
    \/ Purchase!PurchaseNext \/ UNCHANGED Purchase!purchaseVars
    \/ FailsLate \/ ServedLate \/ CartChanged

\* Where a checkout stands for the purchase, by its last call.
LEMMA Standing ==
    ASSUME TypeOK, BooksAgree, NEW c \in Checkout, Waiting(c)
    PROVE  /\ task[c].answer = "none" /\ task[c].call \in Call
           /\ task[c].call \in {"auth", "cart"} => ~Bought(c)
           /\ task[c].call \in {"save", "clear"} => Bought(c)
           /\ task[c].call = "reserve" =>
                 /\ task[c].state = "served" => Bought(c)
                 /\ task[c].state \in {"sent", "refused"} => ~Bought(c)
<1>1. task[c] \in TaskState /\ Books(c, task[c], taken[c], OrdersBy(c))
  BY DEF TypeOK, BooksAgree
<1> QED BY <1>1 DEF Books, Bought, Waiting, TaskState

\* How an open checkout, a refused and a failed one are told apart.
LEMMA EndWhileWaiting ==
    ASSUME TypeOK, BooksAgree, NEW c \in Checkout, Waiting(c), ~Bought(c)
    PROVE  /\ task[c].state = "sent" => EndOf(c) = "open"
           /\ task[c].state = "refused" => EndOf(c) = "refused"
           /\ task[c].state \in {"unverified", "failed", "lost"} =>
                 EndOf(c) = "failed"
           /\ Served(c, "auth") => EndOf(c) = IF Owner[c] \in hasEmail
                                                THEN "open" ELSE "refused"
           /\ Served(c, "cart") => EndOf(c) = IF task[c].items = {}
                                                THEN "refused" ELSE "open"
           /\ task[c].state = "served" => EndOf(c) \in {"open", "refused"}
<1>1. task[c] \in TaskState /\ task[c].answer = "none" /\ task[c].call \in Call
  BY Standing DEF TypeOK
<1>2. task[c].state = "served" => task[c].call \in {"auth", "cart"}
  BY <1>1, Standing DEF Call, HttpCall
<1> QED BY <1>1, <1>2 DEF EndOf, WillRefuse, WillFail, Served

\* The checkouts whose handler a step leaves alone stand where they did.
LEMMA OthersStand ==
    ASSUME NEW c \in Checkout, Only(c), UNCHANGED hasEmail,
           \A d \in Checkout \ {c} : taken'[d] = taken[d],
           NEW added, \A o \in added : o.by = c, Stored' = Stored \cup added
    PROVE  \A d \in Checkout \ {c} :
             /\ task'[d] = task[d] /\ Bought(d)' = Bought(d)
             /\ SoldTo(d)' = SoldTo(d) /\ EndOf(d)' = EndOf(d)
<1> SUFFICES ASSUME NEW d \in Checkout \ {c}
             PROVE  /\ task'[d] = task[d] /\ Bought(d)' = Bought(d)
                    /\ SoldTo(d)' = SoldTo(d) /\ EndOf(d)' = EndOf(d)
  OBVIOUS
<1>1. task'[d] = task[d] /\ taken'[d] = taken[d] BY DEF Only
<1>2. Bought(d)' = Bought(d) BY <1>1 DEF Bought, Waiting
<1>3. {q \in Stored : q.by = d}' = {q \in Stored : q.by = d} OBVIOUS
<1>4. Ordered(d)' = Ordered(d) BY <1>3 DEF Ordered
<1>5. SoldTo(d)' = SoldTo(d) BY <1>1, <1>2, <1>4 DEF SoldTo
<1>6. WillRefuse(d)' = WillRefuse(d) /\ WillFail(d)' = WillFail(d)
  BY <1>1 DEF WillRefuse, WillFail, Served, Waiting
<1>7. EndOf(d)' = EndOf(d) BY <1>1, <1>2, <1>6 DEF EndOf
<1> QED BY <1>1, <1>2, <1>5, <1>7

\* What is left in a cart changes with the cart, with what is bought of it and
\* with nothing else.
LEMMA LeftStays ==
    ASSUME NEW u \in User, cart'[u] = cart[u],
           \A c \in Checkout : Owner[c] = u =>
              /\ Bought(c)' = Bought(c)
              /\ Bought(c) => task'[c].items = task[c].items
    PROVE  Left(u)' = Left(u)
<1>1. {d \in Checkout : Owner[d] = u /\ Bought(d)}'
        = {d \in Checkout : Owner[d] = u /\ Bought(d)}
  OBVIOUS
<1>2. UNION {task[c].items : c \in {d \in Checkout : Owner[d] = u /\ Bought(d)}}'
        = UNION {task[c].items : c \in {d \in Checkout : Owner[d] = u /\ Bought(d)}}
  BY <1>1
<1> QED BY <1>2 DEF Left

\* The purchase counts as the checkout does.
LEMMA CountsAlike == \A S : Purchase!Cardinality(S) = Cardinality(S)
BY DEF Purchase!Cardinality, Cardinality

\* Nothing that the purchase knows of has changed.
LEMMA StandsStill ==
    ASSUME UNCHANGED <<session, hasEmail, unused, stock>>,
           \A u \in User : Left(u)' = Left(u),
           \A c \in Checkout : SoldTo(c)' = SoldTo(c) /\ EndOf(c)' = EndOf(c)
    PROVE  Purchases
<1> DEFINE carts == [u \in User |-> Left(u)]
           sold == [c \in Checkout |-> SoldTo(c)]
           ends == [c \in Checkout |-> EndOf(c)]
<1>1. carts' = carts /\ sold' = sold /\ ends' = ends OBVIOUS
<1>2. UNCHANGED <<session, hasEmail, unused, carts, stock, sold, ends>>
  <2> HIDE DEF carts, sold, ends
  <2> QED BY <1>1
<1> QED BY <1>2, Zenon DEF Purchases, Purchase!purchaseVars, SoldTo, EndOf

\* A step of one handler that leaves it where it stands, and reserves nothing.
LEMMA HandlerStandsStill ==
    ASSUME NEW c \in Checkout, Only(c),
           UNCHANGED <<session, hasEmail, unused, stock, cart, taken>>,
           NEW added, \A o \in added : o.by = c, Stored' = Stored \cup added,
           Bought(c)' = Bought(c), Bought(c) => task'[c].items = task[c].items,
           SoldTo(c)' = SoldTo(c), EndOf(c)' = EndOf(c)
    PROVE  Purchases
<1>1. \A d \in Checkout \ {c} :
        /\ task'[d] = task[d] /\ Bought(d)' = Bought(d)
        /\ SoldTo(d)' = SoldTo(d) /\ EndOf(d)' = EndOf(d)
  BY OthersStand
<1>2. \A u \in User : Left(u)' = Left(u) BY <1>1, LeftStays
<1> QED BY <1>1, <1>2, StandsStill

\* A checkout that has not bought has nothing.
LEMMA NothingSold ==
    ASSUME UNCHANGED <<database, memory, forgotten>>, NEW c \in Checkout,
           ~Bought(c), ~Bought(c)'
    PROVE  SoldTo(c)' = SoldTo(c)
<1>1. Stored' = Stored BY StoredStays
<1>2. Ordered(c)' = Ordered(c) BY <1>1 DEF Ordered
<1> QED BY <1>2 DEF SoldTo

\* One that goes on without an order changes its end at most.
LEMMA OnlyItsEnd ==
    ASSUME NEW c \in Checkout, Only(c),
           UNCHANGED <<session, hasEmail, unused, stock, cart, taken>>,
           UNCHANGED <<database, memory, forgotten>>,
           ~Bought(c), ~Bought(c)'
    PROVE  /\ \A u \in User : Left(u)' = Left(u)
           /\ \A d \in Checkout : SoldTo(d)' = SoldTo(d)
           /\ \A d \in Checkout \ {c} : EndOf(d)' = EndOf(d)
<1> DEFINE none == {}
<1>1. \A o \in none : o.by = c OBVIOUS
<1>2. Stored' = Stored \cup none BY StoredStays
<1>3. \A d \in Checkout \ {c} : taken'[d] = taken[d] OBVIOUS
<1> HIDE DEF none
<1>4. \A d \in Checkout \ {c} :
        /\ task'[d] = task[d] /\ Bought(d)' = Bought(d)
        /\ SoldTo(d)' = SoldTo(d) /\ EndOf(d)' = EndOf(d)
  BY <1>1, <1>2, <1>3, OthersStand
<1>5. SoldTo(c)' = SoldTo(c) BY NothingSold
<1>6. Bought(c)' = Bought(c) BY DEF Bought
<1>7. \A u \in User : Left(u)' = Left(u) BY <1>4, <1>6, LeftStays
<1> QED BY <1>4, <1>5, <1>7

\* The checkouts in "gone" fail, and nothing else happens.
LEMMA TheyFail ==
    ASSUME UNCHANGED <<session, hasEmail, unused, stock>>,
           \A u \in User : Left(u)' = Left(u),
           \A c \in Checkout : SoldTo(c)' = SoldTo(c),
           NEW gone \in SUBSET Checkout,
           \A c \in gone : EndOf(c) \in {"open", "refused"} /\ EndOf(c)' = "failed",
           \A c \in Checkout \ gone : EndOf(c)' = EndOf(c)
    PROVE  Purchases
<1> DEFINE carts == [u \in User |-> Left(u)]
           sold == [c \in Checkout |-> SoldTo(c)]
           ends == [c \in Checkout |-> EndOf(c)]
<1>1. carts' = carts /\ sold' = sold OBVIOUS
<1>2. /\ \A c \in gone : ends[c] \in {"open", "refused"}
      /\ ends' = [c \in Checkout |-> IF c \in gone THEN "failed" ELSE ends[c]]
  <2>1. \A c \in Checkout : ends[c] = EndOf(c) OBVIOUS
  <2>2. ends' = [c \in Checkout |-> EndOf(c)'] OBVIOUS
  <2>3. [c \in Checkout |-> EndOf(c)']
          = [c \in Checkout |-> IF c \in gone THEN "failed" ELSE ends[c]]
    BY <2>1
  <2> QED BY <2>1, <2>2, <2>3
<1>3. UNCHANGED <<session, hasEmail, unused, carts, stock, sold>>
  <2> HIDE DEF carts, sold, ends
  <2> QED BY <1>1
<1>4. Purchase!Fail(gone)
  BY <1>2, <1>3, Zenon DEF Purchase!Fail, SoldTo, EndOf
<1> QED BY <1>4 DEF Purchases, Purchase!PurchaseNext

\* A checkout is refused: there is nothing to buy, too little of it or what
\* cannot be bought, or nobody to buy it or to invoice.
LEMMA ItIsRefused ==
    ASSUME UNCHANGED <<session, hasEmail, unused, stock>>,
           \A u \in User : Left(u)' = Left(u),
           \A d \in Checkout : SoldTo(d)' = SoldTo(d),
           NEW c \in Checkout, EndOf(c) = "open", EndOf(c)' = "refused",
           \A d \in Checkout \ {c} : EndOf(d)' = EndOf(d),
           \/ Left(Owner[c]) = {} \/ Left(Owner[c]) \cap Malformed # {}
           \/ Cardinality(Left(Owner[c])) > stock
           \/ Owner[c] \notin session \cap hasEmail
    PROVE  Purchases
<1> DEFINE carts == [u \in User |-> Left(u)]
           sold == [d \in Checkout |-> SoldTo(d)]
           ends == [d \in Checkout |-> EndOf(d)]
<1>1. carts' = carts /\ sold' = sold OBVIOUS
<1>2. ends[c] = "open" /\ ends' = [ends EXCEPT ![c] = "refused"] OBVIOUS
<1>3. carts[Owner[c]] = Left(Owner[c]) BY CheckoutAssumption
<1>4. UNCHANGED <<session, hasEmail, unused, carts, stock, sold>>
  <2> HIDE DEF carts, sold, ends
  <2> QED BY <1>1
<1>5. \/ carts[Owner[c]] = {} \/ carts[Owner[c]] \cap Malformed # {}
      \/ Cardinality(carts[Owner[c]]) > stock
      \/ Owner[c] \notin session \cap hasEmail
  BY <1>3
<1>6. Purchase!Refuse(c)
  BY <1>2, <1>4, <1>5, CountsAlike, Zenon DEF Purchase!Refuse, SoldTo, EndOf
<1> QED BY <1>6 DEF Purchases, Purchase!PurchaseNext

\* A checkout buys the whole cart.
LEMMA ItBuys ==
    ASSUME UNCHANGED <<session, hasEmail, unused>>, NEW c \in Checkout,
           Owner[c] \in hasEmail, Left(Owner[c]) \cap Malformed = {},
           EndOf(c) = "open", EndOf(c)' = "bought",
           \A d \in Checkout \ {c} : EndOf(d)' = EndOf(d),
           Left(Owner[c]) # {}, Cardinality(Left(Owner[c])) <= stock,
           stock' = stock - Cardinality(Left(Owner[c])),
           SoldTo(c)' = Left(Owner[c]),
           \A d \in Checkout \ {c} : SoldTo(d)' = SoldTo(d),
           Left(Owner[c])' = {},
           \A u \in User \ {Owner[c]} : Left(u)' = Left(u)
    PROVE  Purchases
<1> DEFINE carts == [u \in User |-> Left(u)]
           sold == [d \in Checkout |-> SoldTo(d)]
           ends == [d \in Checkout |-> EndOf(d)]
           items == carts[Owner[c]]
<1>1. Owner[c] \in User BY CheckoutAssumption
<1>2. items = Left(Owner[c]) BY <1>1
<1>3. ends[c] = "open" /\ ends' = [ends EXCEPT ![c] = "bought"] OBVIOUS
<1>4. sold' = [sold EXCEPT ![c] = items] BY <1>2
<1>5. carts' = [carts EXCEPT ![Owner[c]] = {}] BY <1>1
<1>6. /\ items # {} /\ items \cap Malformed = {}
      /\ Cardinality(items) <= stock
      /\ stock' = stock - Cardinality(items)
  BY <1>2
<1>7. Purchase!Buy(c)
  BY <1>3, <1>4, <1>5, <1>6, CountsAlike, Zenon DEF Purchase!Buy, SoldTo, EndOf
<1> QED BY <1>7 DEF Purchases, Purchase!PurchaseNext

\* Whatever else was put in the cart, what was bought is cleared from it before
\* the handler goes on.
ClearedOfOrders ==
    \A c \in Checkout :
        Served(c, "clear") => cart[Owner[c]] \cap task[c].items = {}

\* It is so while the carts do not grow and no call to clear one is served.
LEMMA StaysCleared ==
    ASSUME ClearedOfOrders,
           \A u \in User : cart'[u] \subseteq cart[u],
           \A c \in Checkout :
              Served(c, "clear")' =>
                 Served(c, "clear") /\ task'[c].items = task[c].items
    PROVE  ClearedOfOrders'
BY CheckoutAssumption DEF ClearedOfOrders

\* And when a step of one handler leaves it at another call.
LEMMA OneStaysCleared ==
    ASSUME ClearedOfOrders, NEW c \in Checkout, Only(c), UNCHANGED cart,
           ~Served(c, "clear")'
    PROVE  ClearedOfOrders'
<1>1. \A d \in Checkout \ {c} :
        task'[d] = task[d] /\ Served(d, "clear")' = Served(d, "clear")
  BY DEF Only, Served, Waiting
<1> QED BY <1>1 DEF ClearedOfOrders

\* Every step keeps it so.
LEMMA NextCleared ==
    TypeOK /\ Patience /\ ClearedOfOrders /\ [Next]_vars => ClearedOfOrders'
<1> SUFFICES ASSUME TypeOK, Patience, ClearedOfOrders, [Next]_vars
             PROVE  ClearedOfOrders'
  OBVIOUS
<1>1. CASE UNCHANGED <<cart, task>>
  BY <1>1, StaysCleared DEF Served, Waiting
<1>2. ASSUME NEW u \in User, NEW x \in Unit, AddItem(u, x)
      PROVE  ClearedOfOrders'
  <2>1. /\ x \in unused /\ UNCHANGED task
        /\ cart' = [cart EXCEPT ![u] = @ \cup {x}]
    BY <1>2 DEF AddItem
  <2>2. \A c \in Checkout : x \notin task[c].items
    BY <2>1 DEF Patience, ItemsAreOnce
  <2>3. \A v \in User : cart'[v] \subseteq cart[v] \cup {x}
    BY <2>1 DEF TypeOK
  <2>4. \A c \in Checkout : Served(c, "clear")' = Served(c, "clear")
    BY <2>1 DEF Served, Waiting
  <2> QED BY <2>1, <2>2, <2>3, <2>4, CheckoutAssumption DEF ClearedOfOrders
<1>3. CASE Outside
  BY <1>1, <1>2, <1>3 DEF Outside, SignOut, SignIn, ConnectDatabase,
                          DatabaseStops, DatabaseStarts, outside
<1>4. ASSUME NEW c \in Checkout, StepOf(c) PROVE ClearedOfOrders'
  <2> DEFINE t == task[c]
  <2>1. t \in TaskState BY DEF TypeOK
  <2>2. ASSUME NEW p \in Pod, Start(c, p) PROVE ClearedOfOrders'
    <3>1. Only(c) /\ UNCHANGED cart BY <2>2, StartMoves DEF Start, outside
    <3>2. task'[c].state = "sent"
      BY <2>1, <2>2, StartMoves DEF TaskState
    <3> QED BY <3>1, <3>2, OneStaysCleared DEF Served, Waiting
  <2>3. CASE HaveSession(c) \/ HaveCart(c)
    <3>1. Only(c) /\ UNCHANGED cart
      BY <2>3, HaveSessionMoves, HaveCartMoves DEF HaveSession, HaveCart, outside
    <3>2. task'[c].state = "sent" \/ task'[c].pc = "done"
      BY <2>1, <2>3, HaveSessionMoves, HaveCartMoves, ZenonT(30) DEF TaskState
    <3> QED BY <3>1, <3>2, OneStaysCleared DEF Served, Waiting
  <2>4. CASE HaveReservation(c) \/ OrderSaved(c)
    <3>1. Only(c) /\ UNCHANGED cart
      BY <2>4, HaveReservationMoves, OrderSavedMoves
         DEF HaveReservation, OrderSaved, outside
    <3>2. task'[c].state = "sent"
      BY <2>1, <2>4, HaveReservationMoves, OrderSavedMoves, ZenonT(30)
         DEF TaskState
    <3> QED BY <3>1, <3>2, OneStaysCleared DEF Served
  <2>5. CASE CartCleared(c) \/ CallRejected(c) \/ Timeout(c)
    <3>1. Only(c) /\ UNCHANGED cart
      BY <2>5, CartClearedMoves, CallRejectedMoves, TimeoutMoves
         DEF CartCleared, CallRejected, Timeout, outside
    <3>2. task'[c].pc = "done"
      <4>1. CASE CartCleared(c)
        BY <2>1, <4>1, CartClearedMoves, ZenonT(60) DEF TaskState
      <4>2. CASE CallRejected(c)
        BY <2>1, <4>2, CallRejectedMoves, ZenonT(60) DEF TaskState
      <4>3. CASE Timeout(c)
        BY <2>1, <4>3, TimeoutMoves, ZenonT(60) DEF TaskState
      <4> QED BY <2>5, <4>1, <4>2, <4>3
    <3> QED BY <3>1, <3>2, OneStaysCleared DEF Served, Waiting
  <2>6. CASE QueueInvoice(c)
    <3>1. Only(c) /\ UNCHANGED cart
      BY <2>6, QueueInvoiceMoves DEF QueueInvoice, outside
    <3>2. /\ task'[c].items = t.items /\ task'[c].pc = t.pc
          /\ task'[c].call = t.call /\ task'[c].state = t.state
      BY <2>1, <2>6, QueueInvoiceMoves, ZenonT(30) DEF TaskState
    <3>3. \A d \in Checkout :
             Served(d, "clear")' =>
                Served(d, "clear") /\ task'[d].items = task[d].items
      BY <3>1, <3>2 DEF Only, Served, Waiting
    <3> QED BY <3>1, <3>3, StaysCleared
  <2>7. CASE ServeAuth(c) \/ ServeCart(c) \/ ServeReserve(c) \/ ServeSave(c)
    <3>1. Only(c) /\ UNCHANGED cart /\ t.call # "clear"
      BY <2>7, ServeAuthMoves, ServeCartMoves, ServeReserveMoves, ServeSaveMoves
         DEF ServeAuth, ServeCart, ServeReserve, ServeSave, Arrives, outside
    <3>2. task'[c].call = t.call
      <4>1. CASE ServeCart(c) BY <2>1, <4>1, ServeCartMoves DEF TaskState
      <4>2. CASE ServeReserve(c) BY <2>1, <4>2, ServeReserveMoves DEF TaskState
      <4>3. CASE ServeSave(c) BY <2>1, <4>3, ServeSaveMoves DEF TaskState
      <4>4. CASE ServeAuth(c) BY <2>1, <4>4, ServeAuthMoves DEF TaskState
      <4> QED BY <2>7, <4>1, <4>2, <4>3, <4>4
    <3> QED BY <3>1, <3>2, OneStaysCleared DEF Served
  <2>8. CASE ServeClear(c)
    <3>1. Only(c) BY <2>8, ServeClearMoves
    <3>2. CASE /\ task'[c] = [t EXCEPT !.state = "served"]
               /\ cart' = [cart EXCEPT ![Owner[c]] = {}]
      <4>1. /\ cart'[Owner[c]] = {}
            /\ \A u \in User : cart'[u] \subseteq cart[u]
        BY <3>2, CheckoutAssumption DEF TypeOK
      <4>2. \A d \in Checkout \ {c} :
              task'[d] = task[d] /\ Served(d, "clear")' = Served(d, "clear")
        BY <3>1 DEF Only, Served, Waiting
      <4> QED BY <4>1, <4>2, CheckoutAssumption DEF ClearedOfOrders
    <3>3. CASE task'[c] = [t EXCEPT !.state = "refused"] /\ UNCHANGED cart
      <4>1. task'[c].state = "refused" BY <2>1, <3>3 DEF TaskState
      <4> QED BY <3>1, <3>3, <4>1, OneStaysCleared DEF Served
    <3> QED BY <2>8, <3>2, <3>3, ServeClearMoves
  <2>9. CASE FailAuth(c) \/ BreakCall(c) \/ LoseCall(c) \/ HangInsert(c)
    <3>1. Only(c) /\ UNCHANGED cart BY <2>9, CallFails DEF outside
    <3>2. task'[c].state # "served"
      BY <2>1, <2>9, CallFails, ZenonT(30) DEF TaskState
    <3> QED BY <3>1, <3>2, OneStaysCleared DEF Served
  <2> QED BY <1>4, <2>2, <2>3, <2>4, <2>5, <2>6, <2>7, <2>8, <2>9
          DEF StepOf, Handle, Serve
<1>5. ASSUME NEW p \in Pod, Restart(p) PROVE ClearedOfOrders'
  <2>1. UNCHANGED cart BY <1>5 DEF Restart, outside
  <2>2. ASSUME NEW c \in Checkout, Served(c, "clear")'
        PROVE  task'[c] = task[c]
    <3>1. task[c] \in TaskState /\ task'[c].pc = "waiting"
      BY <2>2 DEF TypeOK, Served, Waiting
    <3>2. task'[c] # [task[c] EXCEPT !.pc = "done", !.answer = "dropped"]
      BY <3>1 DEF TaskState
    <3>3. Waiting(c) \/ task'[c] # [task[c] EXCEPT !.invoice = "failed"]
      BY <3>1 DEF TaskState, Waiting
    <3> QED BY <1>5, <3>2, <3>3, RestartMoves
  <2> QED BY <2>1, <2>2, StaysCleared DEF Served, Waiting
<1>6. CASE UNCHANGED vars BY <1>1, <1>6 DEF vars, outside
<1> QED BY <1>3, <1>4, <1>5, <1>6, StepsAreOfThreeSorts

\* A checkout that is past the auth service has an email to send the invoice to.
Invoiceable ==
    \A c \in Checkout :
        task[c].call \notin {"none", "auth"} => Owner[c] \in hasEmail

\* A step of one handler that goes on to another call only with an email.
LEMMA OneInvoiceable ==
    ASSUME Invoiceable, NEW c \in Checkout, Only(c), UNCHANGED hasEmail,
           \/ task'[c].call = "auth" \/ task'[c].call = task[c].call
           \/ task[c].call \notin {"none", "auth"} \/ Owner[c] \in hasEmail
    PROVE  Invoiceable'
BY DEF Invoiceable, Only

\* Every step keeps it so.
LEMMA NextInvoiceable == TypeOK /\ Invoiceable /\ [Next]_vars => Invoiceable'
<1> SUFFICES ASSUME TypeOK, Invoiceable, [Next]_vars PROVE Invoiceable'
  OBVIOUS
<1>1. CASE Outside \/ UNCHANGED vars
  <2>1. UNCHANGED <<hasEmail, task>>
    BY <1>1 DEF Outside, SignOut, SignIn, AddItem, ConnectDatabase,
                DatabaseStops, DatabaseStarts, vars, outside
  <2> QED BY <2>1 DEF Invoiceable
<1>2. ASSUME NEW c \in Checkout, StepOf(c) PROVE Invoiceable'
  <2> DEFINE t == task[c]
  <2>1. t \in TaskState BY DEF TypeOK
  <2>2. UNCHANGED hasEmail
    BY <1>2 DEF StepOf, Start, Handle, HaveSession, HaveCart, HaveReservation,
                OrderSaved, CartCleared, CallRejected, QueueInvoice, Timeout,
                Serve, ServeAuth, ServeCart, ServeReserve, ServeSave,
                ServeClear, FailAuth, BreakCall, LoseCall, HangInsert, outside
  <2>3. ASSUME NEW p \in Pod, Start(c, p) PROVE Invoiceable'
    <3>1. task'[c].call = "auth" BY <2>1, <2>3, StartMoves DEF TaskState
    <3> QED BY <2>2, <2>3, <3>1, StartMoves, OneInvoiceable
  <2>4. CASE HaveSession(c)
    <3>1. task'[c].call = t.call \/ Owner[c] \in hasEmail
      BY <2>1, <2>4, HaveSessionMoves DEF TaskState
    <3> QED BY <2>2, <2>4, <3>1, HaveSessionMoves, OneInvoiceable
  <2>5. CASE HaveCart(c) \/ HaveReservation(c) \/ OrderSaved(c)
    <3>1. Only(c) /\ t.call \notin {"none", "auth"}
      BY <2>5, HaveCartMoves, HaveReservationMoves, OrderSavedMoves
         DEF HaveCart, HaveReservation, OrderSaved, Served
    <3> QED BY <2>2, <3>1, OneInvoiceable
  <2>6. CASE CartCleared(c) \/ CallRejected(c) \/ Timeout(c) \/ QueueInvoice(c)
    <3>1. Only(c) /\ task'[c].call = t.call
      <4>1. CASE CartCleared(c) BY <2>1, <4>1, CartClearedMoves DEF TaskState
      <4>2. CASE CallRejected(c) BY <2>1, <4>2, CallRejectedMoves DEF TaskState
      <4>3. CASE Timeout(c) BY <2>1, <4>3, TimeoutMoves DEF TaskState
      <4>4. CASE QueueInvoice(c) BY <2>1, <4>4, QueueInvoiceMoves DEF TaskState
      <4> QED BY <2>6, <4>1, <4>2, <4>3, <4>4
    <3> QED BY <2>2, <3>1, OneInvoiceable
  <2>7. CASE Serve(c)
    <3>1. Only(c) /\ task'[c].call = t.call
      <4>1. CASE ServeAuth(c) BY <2>1, <4>1, ServeAuthMoves DEF TaskState
      <4>2. CASE ServeCart(c) BY <2>1, <4>2, ServeCartMoves DEF TaskState
      <4>3. CASE ServeReserve(c) BY <2>1, <4>3, ServeReserveMoves DEF TaskState
      <4>4. CASE ServeSave(c) BY <2>1, <4>4, ServeSaveMoves DEF TaskState
      <4>5. CASE ServeClear(c) BY <2>1, <4>5, ServeClearMoves DEF TaskState
      <4> QED BY <2>7, <4>1, <4>2, <4>3, <4>4, <4>5 DEF Serve
    <3> QED BY <2>2, <3>1, OneInvoiceable
  <2>8. CASE FailAuth(c) \/ BreakCall(c) \/ LoseCall(c) \/ HangInsert(c)
    <3>1. Only(c) /\ task'[c].call = t.call
      BY <2>1, <2>8, CallFails DEF TaskState
    <3> QED BY <2>2, <3>1, OneInvoiceable
  <2> QED BY <1>2, <2>3, <2>4, <2>5, <2>6, <2>7, <2>8 DEF StepOf, Handle
<1>3. ASSUME NEW p \in Pod, Restart(p) PROVE Invoiceable'
  <2>1. UNCHANGED hasEmail BY <1>3 DEF Restart, outside
  <2>2. \A c \in Checkout : task'[c].call = task[c].call
    <3> SUFFICES ASSUME NEW c \in Checkout PROVE task'[c].call = task[c].call
      OBVIOUS
    <3>1. task[c] \in TaskState BY DEF TypeOK
    <3> QED BY <1>3, <3>1, RestartMoves DEF TaskState
  <2> QED BY <2>1, <2>2 DEF Invoiceable
<1> QED BY <1>1, <1>2, <1>3, StepsAreOfThreeSorts

\* What the world outside does is a sign-in, a sign-out, an item more in a cart,
\* or nothing that the purchase knows of.
LEMMA OutsidePurchases ==
    ASSUME TypeOK, Patience, Outside
    PROVE  Purchases
<1>1. UNCHANGED <<hasEmail, task, taken, stock, memory, forgotten, database>>
  BY DEF Outside, SignOut, SignIn, AddItem, ConnectDatabase, DatabaseStops,
         DatabaseStarts, outside, process, storage
<1>2. Stored' = Stored BY <1>1, StoredStays
<1>3. \A c \in Checkout : Bought(c)' = Bought(c) /\ task'[c] = task[c]
  BY <1>1 DEF Bought, Waiting
<1>4. \A c \in Checkout : SoldTo(c)' = SoldTo(c) /\ EndOf(c)' = EndOf(c)
  <2> SUFFICES ASSUME NEW c \in Checkout
               PROVE  SoldTo(c)' = SoldTo(c) /\ EndOf(c)' = EndOf(c)
    OBVIOUS
  <2>1. Ordered(c)' = Ordered(c) BY <1>2 DEF Ordered
  <2>2. WillRefuse(c)' = WillRefuse(c) /\ WillFail(c)' = WillFail(c)
    BY <1>1, <1>3 DEF WillRefuse, WillFail, Served, Waiting
  <2> QED BY <1>3, <2>1, <2>2 DEF SoldTo, EndOf
<1> DEFINE carts == [u \in User |-> Left(u)]
           sold == [c \in Checkout |-> SoldTo(c)]
           ends == [c \in Checkout |-> EndOf(c)]
<1>5. sold' = sold /\ ends' = ends BY <1>4
<1>6. CASE UNCHANGED <<unused, cart>>
  <2>1. \A u \in User : Left(u)' = Left(u) BY <1>3, <1>6, LeftStays
  <2>2. CASE UNCHANGED session BY <1>1, <1>4, <1>6, <2>1, <2>2, StandsStill
  <2>3. ASSUME NEW u \in User, SignOut(u) \/ SignIn(u) PROVE Purchases
    <3>1. carts' = carts BY <2>1
    <3>2. UNCHANGED <<hasEmail, unused, carts, stock, sold, ends>>
      <4> HIDE DEF carts, sold, ends
      <4> QED BY <1>1, <1>5, <1>6, <3>1
    <3>3. session' \in {session \ {u}, session \cup {u}}
      BY <2>3 DEF SignOut, SignIn
    <3>4. Purchase!Sign(u)
      BY <3>2, <3>3, Zenon DEF Purchase!Sign, SoldTo, EndOf
    <3> QED BY <3>4 DEF Purchases, Purchase!PurchaseNext
  <2>4. UNCHANGED session \/ \E u \in User : SignOut(u) \/ SignIn(u)
    BY DEF Outside, AddItem, ConnectDatabase, DatabaseStops, DatabaseStarts,
           outside
  <2> QED BY <2>2, <2>3, <2>4
<1>7. ASSUME NEW u \in User, NEW x \in Unit, AddItem(u, x) PROVE Purchases
  <2>1. /\ x \in unused /\ unused' = unused \ {x} /\ UNCHANGED session
        /\ cart' = [cart EXCEPT ![u] = @ \cup {x}]
    BY <1>7 DEF AddItem
  <2>2. \A c \in Checkout : x \notin task[c].items
    BY <2>1 DEF Patience, ItemsAreOnce
  <2>3. \A v \in User \ {u} : Left(v)' = Left(v)
    <3>1. \A v \in User \ {u} : cart'[v] = cart[v] BY <2>1 DEF TypeOK
    <3> QED BY <1>3, <3>1, LeftStays
  <2>4. Left(u)' = Left(u) \cup {x}
    <3> DEFINE gone == UNION {task[c].items :
                               c \in {d \in Checkout : Owner[d] = u /\ Bought(d)}}
    <3>1. gone' = gone /\ x \notin gone BY <1>3, <2>2
    <3>2. cart'[u] = cart[u] \cup {x} BY <2>1 DEF TypeOK
    <3>3. Left(u) = cart[u] \ gone /\ Left(u)' = cart'[u] \ gone'
      BY DEF Left
    <3> HIDE DEF gone
    <3> QED BY <3>1, <3>2, <3>3
  <2>5. carts' = [carts EXCEPT ![u] = @ \cup {x}] BY <2>3, <2>4
  <2>6. UNCHANGED <<session, hasEmail, stock, sold, ends>>
    <3> HIDE DEF sold, ends
    <3> QED BY <1>1, <1>5, <2>1
  <2>7. Purchase!Add(u, x)
    BY <2>1, <2>5, <2>6, Zenon DEF Purchase!Add, SoldTo, EndOf
  <2> QED BY <2>7 DEF Purchases, Purchase!PurchaseNext
<1>8. \/ UNCHANGED <<unused, cart>>
      \/ \E u \in User, x \in Unit : AddItem(u, x)
  BY DEF Outside, SignOut, SignIn, ConnectDatabase, DatabaseStops,
         DatabaseStarts, outside
<1> QED BY <1>6, <1>7, <1>8

\* A checkout starts.
LEMMA StartPurchases ==
    ASSUME TypeOK, BooksAgree, NEW c \in Checkout, NEW p \in Pod, Start(c, p)
    PROVE  Purchases
<1> DEFINE t == task[c]
<1>1. /\ t \in TaskState /\ t.pc = "idle" /\ t.answer = "none"
      /\ t.call = "none" /\ t.state = "none"
  BY DEF TypeOK, BooksAgree, Books, Start
<1>2. /\ Only(c) /\ UNCHANGED <<session, hasEmail, unused, stock, cart, taken>>
      /\ UNCHANGED <<database, memory, forgotten>>
  BY StartMoves DEF Start, outside, process, storage
<1>3. taken[c] = {} BY <1>1 DEF BooksAgree, Books
<1>4. ~Bought(c) /\ ~Bought(c)' BY <1>2, <1>3 DEF Bought
<1>5. EndOf(c) = "open"
  BY <1>1, <1>4 DEF EndOf, WillRefuse, WillFail, Served, Waiting
<1>6. /\ task'[c].answer = "none" /\ task'[c].state = "sent"
  BY <1>1, StartMoves DEF TaskState
<1>7. EndOf(c)' = "open"
  BY <1>4, <1>6 DEF EndOf, WillRefuse, WillFail, Served
<1> QED BY <1>2, <1>4, <1>5, <1>7, OnlyItsEnd, StandsStill

\* The session is known, or not.
LEMMA ServeAuthPurchases ==
    ASSUME TypeOK, BooksAgree, NEW c \in Checkout, ServeAuth(c)
    PROVE  Purchases
<1> DEFINE t == task[c]
<1>1. /\ t \in TaskState /\ Waiting(c) /\ t.answer = "none"
      /\ t.call = "auth" /\ t.state = "sent" /\ ~Bought(c)
  BY Standing DEF TypeOK, ServeAuth, Arrives
<1>2. /\ Only(c) /\ UNCHANGED <<session, hasEmail, unused, stock, cart, taken>>
      /\ UNCHANGED <<database, memory, forgotten>>
  BY ServeAuthMoves DEF ServeAuth, outside, process, storage
<1>3. EndOf(c) = "open" BY <1>1, EndWhileWaiting
<1>4. taken[c] = {} BY <1>1 DEF Bought
<1>5. ~Bought(c)' BY <1>2, <1>4 DEF Bought
<1>6. CASE Owner[c] \in session
  <2>1. task'[c] = [t EXCEPT !.state = "served"]
    BY <1>6, RepliesOnly DEF ServeAuth
  <2>2. /\ Waiting(c)' /\ task'[c].answer = "none" /\ task'[c].call = "auth"
        /\ task'[c].state = "served"
    BY <1>1, <2>1 DEF TaskState, Waiting
  <2>3. CASE Owner[c] \notin hasEmail
    <3>1. EndOf(c)' = "refused"
      BY <1>2, <1>5, <2>2, <2>3 DEF EndOf, WillRefuse, WillFail, Served
    <3> QED BY <1>2, <1>3, <1>1, <1>5, <2>3, <3>1, OnlyItsEnd, ItIsRefused
  <2>4. CASE Owner[c] \in hasEmail
    <3>1. EndOf(c)' = "open"
      BY <1>2, <1>5, <2>2, <2>4 DEF EndOf, WillRefuse, WillFail, Served
    <3> QED BY <1>1, <1>2, <1>3, <1>5, <3>1, OnlyItsEnd, StandsStill
  <2> QED BY <2>3, <2>4
<1>7. CASE Owner[c] \notin session
  <2>1. task'[c] = [t EXCEPT !.state = "refused"]
    BY <1>7, RepliesOnly DEF ServeAuth
  <2>2. task'[c].state = "refused" /\ task'[c].answer = "none"
    BY <1>1, <2>1 DEF TaskState
  <2>3. EndOf(c)' = "refused" BY <1>5, <2>2 DEF EndOf, WillRefuse, WillFail
  <2> QED BY <1>1, <1>2, <1>3, <1>5, <1>7, <2>3, OnlyItsEnd, ItIsRefused
<1> QED BY <1>6, <1>7

\* The session is there: 400 for want of an email, as was decided before.
LEMMA HaveSessionPurchases ==
    ASSUME TypeOK, BooksAgree, NEW c \in Checkout, HaveSession(c)
    PROVE  Purchases
<1> DEFINE t == task[c]
<1>1. /\ t \in TaskState /\ Waiting(c) /\ t.answer = "none"
      /\ t.call = "auth" /\ t.state = "served" /\ ~Bought(c)
  BY Standing DEF TypeOK, HaveSession, Served
<1>2. /\ Only(c) /\ UNCHANGED <<session, hasEmail, unused, stock, cart, taken>>
      /\ UNCHANGED <<database, memory, forgotten>>
  BY HaveSessionMoves DEF HaveSession, outside, process, storage
<1>3. taken[c] = {} BY <1>1 DEF Bought
<1>4. ~Bought(c)' BY <1>2, <1>3 DEF Bought
<1>5. Served(c, "auth") BY <1>1 DEF Served
<1>6. EndOf(c)' = EndOf(c)
  <2>1. CASE /\ Owner[c] \notin hasEmail
             /\ task'[c] = [t EXCEPT !.pc = "done", !.answer = "400"]
    <3>1. task'[c].answer = "400" BY <1>1, <2>1 DEF TaskState
    <3>2. EndOf(c)' = "refused" BY <1>4, <3>1 DEF EndOf, WillRefuse
    <3> QED BY <1>1, <1>5, <2>1, <3>2, EndWhileWaiting
  <2>2. CASE /\ Owner[c] \in hasEmail
             /\ task'[c] = [t EXCEPT !.call = "cart", !.state = "sent"]
    <3>1. task'[c].answer = "none" /\ task'[c].state = "sent"
      BY <1>1, <2>2 DEF TaskState
    <3>2. EndOf(c)' = "open"
      BY <1>4, <3>1 DEF EndOf, WillRefuse, WillFail, Served
    <3> QED BY <1>1, <1>5, <2>2, <3>2, EndWhileWaiting
  <2> QED BY <2>1, <2>2, HaveSessionMoves
<1> QED BY <1>1, <1>2, <1>4, <1>6, OnlyItsEnd, StandsStill

\* The cart is read: what the checkout is to buy, or why it will not.
LEMMA ServeCartPurchases ==
    ASSUME TypeOK, BooksAgree, NEW c \in Checkout, ServeCart(c)
    PROVE  Purchases
<1> DEFINE t == task[c]
<1>1. /\ t \in TaskState /\ Waiting(c) /\ t.answer = "none"
      /\ t.call = "cart" /\ t.state = "sent" /\ ~Bought(c)
  BY Standing DEF TypeOK, ServeCart, Arrives
<1>2. /\ Only(c) /\ UNCHANGED <<session, hasEmail, unused, stock, cart, taken>>
      /\ UNCHANGED <<database, memory, forgotten>>
  BY ServeCartMoves DEF ServeCart, outside, process, storage
<1>3. EndOf(c) = "open" BY <1>1, EndWhileWaiting
<1>4. taken[c] = {} BY <1>1 DEF Bought
<1>5. ~Bought(c)' BY <1>2, <1>4 DEF Bought
<1>6. CASE Owner[c] \in session
  <2>1. task'[c] = [t EXCEPT !.state = "served", !.items = cart[Owner[c]]]
    BY <1>6 DEF ServeCart, TypeOK
  <2>2. /\ Waiting(c)' /\ task'[c].answer = "none" /\ task'[c].call = "cart"
        /\ task'[c].state = "served" /\ task'[c].items = cart[Owner[c]]
    BY <1>1, <2>1 DEF TaskState, Waiting
  <2>3. CASE cart[Owner[c]] = {}
    <3>1. EndOf(c)' = "refused"
      BY <1>5, <2>2, <2>3 DEF EndOf, WillRefuse, WillFail, Served
    <3>2. Left(Owner[c]) = {} BY <2>3 DEF Left
    <3> QED BY <1>1, <1>2, <1>3, <1>5, <3>1, <3>2, OnlyItsEnd, ItIsRefused
  <2>4. CASE cart[Owner[c]] # {}
    <3>1. EndOf(c)' = "open"
      BY <1>5, <2>2, <2>4 DEF EndOf, WillRefuse, WillFail, Served
    <3> QED BY <1>1, <1>2, <1>3, <1>5, <3>1, OnlyItsEnd, StandsStill
  <2> QED BY <2>3, <2>4
<1>7. CASE Owner[c] \notin session
  <2>1. task'[c] = [t EXCEPT !.state = "refused"]
    BY <1>7, RepliesOnly DEF ServeCart
  <2>2. Waiting(c)' /\ task'[c].state = "refused"
    BY <1>1, <2>1 DEF TaskState, Waiting
  <2>3. EndOf(c)' = "refused"
    <3>1. task'[c].answer = "none" BY <1>1, <2>1 DEF TaskState
    <3> QED BY <1>5, <2>2, <3>1 DEF EndOf, WillRefuse, WillFail
  <2> QED BY <1>1, <1>2, <1>3, <1>5, <1>7, <2>3, OnlyItsEnd, ItIsRefused
<1> QED BY <1>6, <1>7

\* The cart is there: 400 for an empty one, as was decided when it was read.
LEMMA HaveCartPurchases ==
    ASSUME TypeOK, BooksAgree, NEW c \in Checkout, HaveCart(c)
    PROVE  Purchases
<1> DEFINE t == task[c]
<1>1. /\ t \in TaskState /\ Waiting(c) /\ t.answer = "none"
      /\ t.call = "cart" /\ t.state = "served" /\ ~Bought(c)
  BY Standing DEF TypeOK, HaveCart, Served
<1>2. /\ Only(c) /\ UNCHANGED <<session, hasEmail, unused, stock, cart, taken>>
      /\ UNCHANGED <<database, memory, forgotten>>
  BY HaveCartMoves DEF HaveCart, outside, process, storage
<1>3. taken[c] = {} BY <1>1 DEF Bought
<1>4. ~Bought(c)' BY <1>2, <1>3 DEF Bought
<1>5. EndOf(c)' = EndOf(c)
  <2>1. CASE /\ t.items = {}
             /\ task'[c] = [t EXCEPT !.pc = "done", !.answer = "400"]
    <3>1. task'[c].answer = "400" /\ ~Waiting(c)'
      BY <1>1, <2>1 DEF TaskState, Waiting
    <3>2. EndOf(c)' = "refused"
      BY <1>4, <3>1 DEF EndOf, WillRefuse, WillFail
    <3> QED BY <1>1, <2>1, <3>2, EndWhileWaiting DEF Served
  <2>2. CASE /\ t.items # {}
             /\ task'[c] = [t EXCEPT !.call = "reserve", !.state = "sent"]
    <3>1. task'[c].answer = "none" /\ task'[c].state = "sent"
      BY <1>1, <2>2 DEF TaskState
    <3>2. EndOf(c)' = "open"
      BY <1>4, <3>1 DEF EndOf, WillRefuse, WillFail, Served
    <3> QED BY <1>1, <2>2, <3>2, EndWhileWaiting DEF Served
  <2> QED BY <2>1, <2>2, HaveCartMoves
<1> QED BY <1>1, <1>2, <1>4, <1>5, OnlyItsEnd, StandsStill

\* The catalog has the items, and the checkout has bought them.
LEMMA ServeReservePurchases ==
    ASSUME TypeOK, BooksAgree, Invoiceable, NEW c \in Checkout, ServeReserve(c)
    PROVE  Purchases
<1> DEFINE t == task[c]
<1>1. /\ t \in TaskState /\ t.call = "reserve" /\ t.state = "sent"
      /\ t.items # {} /\ Owner[c] \in hasEmail
  BY DEF TypeOK, ServeReserve, Arrives, BooksAgree, Books, Invoiceable
<1>2. PICK a \in {"served", "refused"} : task'[c] = [t EXCEPT !.state = a]
  BY ServeReserveMoves
<1>3. /\ task'[c].state = a /\ task'[c].pc = t.pc /\ task'[c].call = t.call
      /\ task'[c].items = t.items /\ task'[c].answer = t.answer
  BY <1>1, <1>2 DEF TaskState
<1>4. /\ Only(c) /\ UNCHANGED <<session, hasEmail, unused, cart>>
      /\ UNCHANGED <<database, memory, forgotten>>
  BY ServeReserveMoves DEF ServeReserve, process, storage
<1>5. CASE ~Waiting(c)
  BY <1>1, <1>3, <1>5 DEF ServedLate, Purchases
<1>6. CASE Waiting(c)
  <2>1. ~Bought(c) /\ EndOf(c) = "open" /\ t.answer = "none"
    BY <1>1, <1>6, Standing, EndWhileWaiting
  <2>2. CASE Left(Owner[c]) # t.items
    <3>1. task'[c] # task[c] BY <1>1, <1>3
    <3> QED BY <1>1, <1>6, <2>1, <2>2, <3>1 DEF CartChanged, Purchases
  <2>3. CASE /\ Left(Owner[c]) = t.items
             /\ t.items \cap Malformed = {} /\ Cardinality(t.items) <= stock
    <3>1. /\ stock' = stock - Cardinality(t.items)
          /\ taken' = [taken EXCEPT ![c] = t.items]
      BY <2>3 DEF ServeReserve
    <3>2. /\ taken'[c] = t.items
          /\ \A d \in Checkout \ {c} : taken'[d] = taken[d]
      BY <3>1 DEF TypeOK
    <3>3. Bought(c)' BY <1>1, <1>3, <1>6, <3>2 DEF Bought, Waiting
    <3>4. EndOf(c)' = "bought"
      <4>1. task'[c].state = "served"
        <5>1. Replies(c, "served") BY <2>3 DEF ServeReserve
        <5>2. task'[c] = [t EXCEPT !.state = "served"] BY <5>1, RepliesOnly
        <5> QED BY <1>1, <5>2 DEF TaskState
      <4> QED BY <1>1, <1>3, <2>1, <3>3, <4>1
              DEF EndOf, WillRefuse, WillFail, Served
    <3>5. SoldTo(c)' = t.items BY <1>3, <3>3 DEF SoldTo
    <3> DEFINE none == {}
    <3>6. \A o \in none : o.by = c OBVIOUS
    <3>7. Stored' = Stored \cup none BY <1>4, StoredStays
    <3> HIDE DEF none
    <3>8. \A d \in Checkout \ {c} :
            /\ task'[d] = task[d] /\ Bought(d)' = Bought(d)
            /\ SoldTo(d)' = SoldTo(d) /\ EndOf(d)' = EndOf(d)
      BY <1>4, <3>2, <3>6, <3>7, OthersStand
    <3>9. \A u \in User \ {Owner[c]} : Left(u)' = Left(u)
      BY <1>4, <3>8, LeftStays
    <3>10. Left(Owner[c])' = {}
      <4>1. t.items \subseteq (UNION {task[d].items :
               d \in {e \in Checkout : Owner[e] = Owner[c] /\ Bought(e)}})'
        BY <1>3, <3>3
      <4>2. \A d \in Checkout \ {c} : Bought(d) =>
               task'[d].items = task[d].items /\ Bought(d)'
        BY <3>8
      <4>3. cart'[Owner[c]] = cart[Owner[c]] BY <1>4
      <4>4. cart[Owner[c]] \ t.items \subseteq
              (UNION {task[d].items :
               d \in {e \in Checkout : Owner[e] = Owner[c] /\ Bought(e)}})'
        BY <2>1, <2>3, <4>2 DEF Left
      <4> QED BY <4>1, <4>3, <4>4 DEF Left
    <3> QED BY <1>1, <1>4, <2>1, <2>3, <3>1, <3>4, <3>5, <3>8, <3>9, <3>10,
               ItBuys
  <2>4. CASE /\ Left(Owner[c]) = t.items
             /\ ~ /\ t.items \cap Malformed = {}
                  /\ Cardinality(t.items) <= stock
    <3>1. /\ Replies(c, "refused") /\ UNCHANGED <<stock, taken>>
      BY <2>4 DEF ServeReserve
    <3>2. task'[c] = [t EXCEPT !.state = "refused"] BY <3>1, RepliesOnly
    <3>3. task'[c].state = "refused" /\ Waiting(c)'
      BY <1>1, <1>6, <3>2 DEF TaskState, Waiting
    <3>4. ~Bought(c)' BY <1>6, <2>1, <3>1 DEF Bought
    <3>5. EndOf(c)' = "refused"
      BY <1>3, <2>1, <3>3, <3>4 DEF EndOf, WillRefuse, WillFail
    <3>6. \/ Left(Owner[c]) \cap Malformed # {}
          \/ Cardinality(Left(Owner[c])) > stock
      <4>1. t.items \in SUBSET Unit /\ stock \in Nat
        BY <1>1 DEF TypeOK, TaskState
      <4>2. Cardinality(t.items) \in Nat
        BY <4>1, FS_Subset, FS_CardinalityType, CheckoutAssumption
      <4> QED BY <2>4, <4>1, <4>2
    <3> QED BY <1>4, <2>1, <3>1, <3>4, <3>5, <3>6, OnlyItsEnd, ItIsRefused
  <2> QED BY <2>2, <2>3, <2>4
<1> QED BY <1>5, <1>6

\* A handler that has bought goes on.
LEMMA BuyerGoesOn ==
    ASSUME NEW c \in Checkout, Only(c),
           UNCHANGED <<session, hasEmail, unused, stock, cart, taken>>,
           NEW added, \A o \in added : o.by = c, Stored' = Stored \cup added,
           Bought(c), Waiting(c)', task'[c].items = task[c].items
    PROVE  Purchases
<1>1. Bought(c)' BY DEF Bought
<1>2. SoldTo(c)' = SoldTo(c) BY <1>1 DEF SoldTo
<1>3. EndOf(c)' = EndOf(c) BY <1>1 DEF EndOf
<1>4. Bought(c)' = Bought(c) BY <1>1 DEF Bought
<1> QED BY <1>2, <1>3, <1>4, HandlerStandsStill

\* Its order is stored, or on its way to the database.
LEMMA OrderPurchases ==
    ASSUME TypeOK, BooksAgree, NEW c \in Checkout,
           HaveReservation(c) \/ OrderSaved(c)
    PROVE  Purchases
<1> DEFINE t == task[c]
           none == {}
<1>1. t \in TaskState /\ Waiting(c) /\ Bought(c) /\ t.pod \in Pod
  BY Standing DEF TypeOK, HaveReservation, OrderSaved, Served, BooksAgree,
                  Books, Waiting
<1>2. UNCHANGED <<session, hasEmail, unused, stock, cart, taken>>
  BY DEF HaveReservation, OrderSaved, outside
<1>3. UNCHANGED <<database, forgotten>>
  BY DEF HaveReservation, OrderSaved, storage, process
<1>4. \A o \in none : o.by = c OBVIOUS
<1>5. CASE OrderSaved(c)
  <2>1. Only(c) /\ task'[c] = [t EXCEPT !.call = "clear", !.state = "sent"]
    BY <1>5, OrderSavedMoves
  <2>2. Waiting(c)' /\ task'[c].items = t.items
    BY <1>1, <2>1 DEF Waiting, TaskState
  <2>3. UNCHANGED memory BY <1>5 DEF OrderSaved, process
  <2>4. Stored' = Stored \cup none BY <1>3, <2>3, StoredStays
  <2> HIDE DEF none
  <2> QED BY <1>1, <1>2, <1>4, <2>1, <2>2, <2>4, BuyerGoesOn
<1>6. CASE HaveReservation(c)
  <2>1. PICK id \in Checkout :
          LET s == [t EXCEPT !.id = id] IN
          /\ Only(c)
          /\ \/ /\ task'[c] = [s EXCEPT !.call = "save", !.state = "sent"]
                /\ UNCHANGED memory
             \/ /\ task'[c] = [s EXCEPT !.call = "clear", !.state = "sent"]
                /\ memory' = [memory EXCEPT ![s.pod] = @ \cup {OrderOf(c, s)}]
    BY <1>6, HaveReservationMoves
  <2> DEFINE s == [t EXCEPT !.id = id]
             o == OrderOf(c, s)
             added == {o}
  <2>2. Waiting(c)' /\ task'[c].items = t.items
    BY <1>1, <2>1, ZenonT(30) DEF Waiting, TaskState
  <2>3. CASE UNCHANGED memory
    <3>1. Stored' = Stored \cup none BY <1>3, <2>3, StoredStays
    <3> HIDE DEF none, s
    <3> QED BY <1>1, <1>2, <1>4, <2>1, <2>2, <3>1, BuyerGoesOn
  <2>4. CASE memory' = [memory EXCEPT ![s.pod] = @ \cup {o}]
    <3>1. s.pod \in Pod BY <1>1 DEF TaskState
    <3>2. \A q \in added : q.by = c BY DEF OrderOf
    <3>3. Stored' = Stored \cup added
      <4> HIDE DEF o, s
      <4> QED BY <1>3, <2>4, <3>1, MemoryStores
    <3> HIDE DEF o, s, added
    <3> QED BY <1>1, <1>2, <2>1, <2>2, <3>2, <3>3, BuyerGoesOn
  <2> QED BY <2>1, <2>3, <2>4
<1> QED BY <1>5, <1>6

\* Postgres stores the order of a checkout that has bought, or refuses it.
LEMMA ServeSavePurchases ==
    ASSUME TypeOK, BooksAgree, NEW c \in Checkout, ServeSave(c)
    PROVE  Purchases
<1> DEFINE t == task[c]
           none == {}
           o == OrderOf(c, t)
           added == {o}
<1>1. t \in TaskState /\ t.call = "save" /\ t.state = "sent"
  BY DEF TypeOK, ServeSave, Arrives
<1>2. PICK a \in {"served", "refused", "failed"} :
        task'[c] = [t EXCEPT !.state = a]
  BY ServeSaveMoves
<1>3. task'[c].state = a /\ task'[c].pc = t.pc /\ task'[c].items = t.items
  BY <1>1, <1>2 DEF TaskState
<1>4. CASE ~Waiting(c)
  BY <1>1, <1>3, <1>4 DEF ServedLate, Purchases
<1>5. CASE Waiting(c)
  <2>1. Bought(c) /\ Waiting(c)' BY <1>1, <1>3, <1>5, Standing DEF Waiting
  <2>2. /\ Only(c) /\ UNCHANGED <<session, hasEmail, unused, stock, cart, taken>>
        /\ UNCHANGED <<memory, forgotten>>
    BY ServeSaveMoves DEF ServeSave, outside, process
  <2>3. CASE UNCHANGED database
    <3>1. \A q \in none : q.by = c OBVIOUS
    <3>2. Stored' = Stored \cup none BY <2>2, <2>3, StoredStays
    <3> HIDE DEF none
    <3> QED BY <1>3, <2>1, <2>2, <3>1, <3>2, BuyerGoesOn
  <2>4. CASE database' = database \cup added
    <3>1. Stored' = Stored \cup added BY <2>2, <2>4 DEF Stored
    <3>2. \A q \in added : q.by = c BY DEF OrderOf
    <3> HIDE DEF added
    <3> QED BY <1>3, <2>1, <2>2, <3>1, <3>2, BuyerGoesOn
  <2> QED BY <2>3, <2>4, ServeSaveMoves
<1> QED BY <1>4, <1>5

\* The cart is cleared: of nothing but what was bought, or it had changed.
LEMMA ServeClearPurchases ==
    ASSUME TypeOK, BooksAgree, NEW c \in Checkout, ServeClear(c)
    PROVE  Purchases
<1> DEFINE t == task[c]
           none == {}
<1>1. t \in TaskState /\ t.call = "clear" /\ t.state = "sent"
  BY DEF TypeOK, ServeClear, Arrives
<1>2. PICK a \in {"served", "refused"} : task'[c] = [t EXCEPT !.state = a]
  BY ServeClearMoves
<1>3. task'[c].state = a /\ task'[c].pc = t.pc /\ task'[c].items = t.items
  BY <1>1, <1>2 DEF TaskState
<1>4. CASE ~Waiting(c)
  BY <1>1, <1>3, <1>4 DEF ServedLate, Purchases
<1>5. CASE Waiting(c)
  <2>1. Bought(c) /\ Waiting(c)' BY <1>1, <1>3, <1>5, Standing DEF Waiting
  <2>2. CASE Left(Owner[c]) # {}
    <3>1. task'[c] # task[c] BY <1>1, <1>3
    <3> QED BY <1>1, <1>5, <2>1, <2>2, <3>1 DEF CartChanged, Purchases
  <2>3. CASE Left(Owner[c]) = {}
    <3>1. /\ Only(c) /\ UNCHANGED <<session, hasEmail, unused, stock, taken>>
          /\ UNCHANGED <<database, memory, forgotten>>
      BY ServeClearMoves DEF ServeClear, process, storage
    <3>2. \A q \in none : q.by = c OBVIOUS
    <3>3. Stored' = Stored \cup none BY <3>1, StoredStays
    <3> HIDE DEF none
    <3>4. \A d \in Checkout \ {c} :
            /\ task'[d] = task[d] /\ Bought(d)' = Bought(d)
            /\ SoldTo(d)' = SoldTo(d) /\ EndOf(d)' = EndOf(d)
      BY <3>1, <3>2, <3>3, OthersStand
    <3>5. Bought(c)' BY <2>1, <3>1 DEF Bought
    <3>6. SoldTo(c)' = SoldTo(c) /\ EndOf(c)' = EndOf(c)
      BY <1>3, <2>1, <3>5 DEF SoldTo, EndOf
    <3>7. Bought(c)' = Bought(c) BY <2>1, <3>5 DEF Bought
    <3>8. \A d \in Checkout :
            /\ Bought(d)' = Bought(d)
            /\ Bought(d) => task'[d].items = task[d].items
      BY <1>3, <3>4, <3>7
    <3>9. /\ \A u \in User \ {Owner[c]} : cart'[u] = cart[u]
          /\ cart'[Owner[c]] \in {cart[Owner[c]], {}}
      <4>1. cart' = cart \/ cart' = [cart EXCEPT ![Owner[c]] = {}]
        BY ServeClearMoves
      <4> QED BY <4>1, CheckoutAssumption DEF TypeOK
    <3>10. \A u \in User : Left(u)' = Left(u)
      <4>1. CASE cart'[Owner[c]] = cart[Owner[c]]
        BY <3>8, <3>9, <4>1, LeftStays
      <4>2. CASE cart'[Owner[c]] = {}
        <5>1. Left(Owner[c])' = {} BY <4>2 DEF Left
        <5>2. \A u \in User \ {Owner[c]} : Left(u)' = Left(u)
          BY <3>8, <3>9, LeftStays
        <5> QED BY <2>3, <5>1, <5>2
      <4> QED BY <3>9, <4>1, <4>2
    <3> QED BY <3>1, <3>4, <3>6, <3>10, StandsStill
  <2> QED BY <2>2, <2>3
<1> QED BY <1>4, <1>5

\* The checkout is confirmed: it has its order, and nothing of it is in the cart.
LEMMA CartClearedPurchases ==
    ASSUME TypeOK, BooksAgree, ClearedOfOrders, NEW c \in Checkout,
           CartCleared(c)
    PROVE  Purchases
<1> DEFINE t == task[c]
           none == {}
<1>1. /\ t \in TaskState /\ Waiting(c) /\ t.call = "clear" /\ Bought(c)
      /\ cart[Owner[c]] \cap t.items = {}
  BY Standing DEF TypeOK, CartCleared, Served, ClearedOfOrders
<1>2. /\ Only(c) /\ UNCHANGED <<session, hasEmail, unused, stock, cart, taken>>
      /\ UNCHANGED <<database, memory, forgotten>>
  BY CartClearedMoves DEF CartCleared, outside, process, storage
<1>3. task'[c].answer = "201" /\ ~Waiting(c)'
  BY <1>1, CartClearedMoves DEF TaskState, Waiting
<1>4. ~Bought(c)' BY <1>3 DEF Bought
<1>5. SoldTo(c)' = SoldTo(c)
  <2>1. OrdersBy(c) = {OrderOf(c, t)} BY <1>1 DEF BooksAgree, Books
  <2>2. {o.items : o \in OrdersBy(c)} = {t.items} BY <2>1 DEF OrderOf
  <2>3. Ordered(c) = t.items BY <2>2 DEF Ordered, OrdersBy
  <2>4. Stored' = Stored BY <1>2, StoredStays
  <2>5. Ordered(c)' = Ordered(c) BY <2>4 DEF Ordered
  <2> QED BY <1>1, <1>4, <2>3, <2>5 DEF SoldTo
<1>6. EndOf(c)' = EndOf(c) BY <1>1, <1>3 DEF EndOf
<1>7. \A o \in none : o.by = c OBVIOUS
<1>8. Stored' = Stored \cup none BY <1>2, StoredStays
<1>9. \A d \in Checkout \ {c} :
        /\ task'[d] = task[d] /\ Bought(d)' = Bought(d)
        /\ SoldTo(d)' = SoldTo(d) /\ EndOf(d)' = EndOf(d)
  <2> HIDE DEF none
  <2> QED BY <1>2, <1>7, <1>8, OthersStand
<1>10. \A u \in User : Left(u)' = Left(u)
  <2>1. \A u \in User \ {Owner[c]} : Left(u)' = Left(u)
    BY <1>2, <1>9, LeftStays
  <2>2. Left(Owner[c])' = Left(Owner[c])
    <3> DEFINE u == Owner[c]
               gone == UNION {task[d].items :
                              d \in {e \in Checkout : Owner[e] = u /\ Bought(e)}}
    <3>1. gone = gone' \cup t.items
      <4>1. {e \in Checkout : Owner[e] = u /\ Bought(e)}
              = {e \in Checkout : Owner[e] = u /\ Bought(e)}' \cup {c}
        BY <1>1, <1>9
      <4>2. \A e \in {e \in Checkout : Owner[e] = u /\ Bought(e)}' :
               e # c /\ task'[e] = task[e]
        BY <1>4, <1>9
      <4> QED BY <4>1, <4>2
    <3>2. Left(u) = cart[u] \ gone /\ Left(u)' = cart[u] \ gone'
      BY <1>2 DEF Left
    <3> HIDE DEF gone
    <3> QED BY <1>1, <3>1, <3>2
  <2> QED BY <2>1, <2>2
<1> QED BY <1>2, <1>5, <1>6, <1>9, <1>10, StandsStill

\* A checkout that has bought fails late; another one fails, or is refused as
\* was decided when its call was served.
LEMMA RejectionPurchases ==
    ASSUME TypeOK, BooksAgree, NEW c \in Checkout, CallRejected(c) \/ Timeout(c)
    PROVE  Purchases
<1> DEFINE t == task[c]
<1>1. /\ t \in TaskState /\ Waiting(c) /\ t.answer = "none" /\ t.call \in Call
      /\ t.state \in {"sent", "refused", "unverified", "failed", "lost"}
  BY Standing DEF TypeOK, CallRejected, Timeout
<1>2. /\ Only(c) /\ UNCHANGED <<session, hasEmail, unused, stock, cart, taken>>
      /\ UNCHANGED <<database, memory, forgotten>>
  BY CallRejectedMoves, TimeoutMoves
     DEF CallRejected, Timeout, outside, process, storage
<1>3. PICK a \in {"400", "401", "409", "500"} :
        /\ a = StatusOf(c)
        /\ task'[c] = [t EXCEPT !.pc = "done", !.answer = a]
  <2>1. StatusOf(c) \in {"400", "401", "409", "500"} BY DEF StatusOf
  <2>2. Answers(c, StatusOf(c)) BY DEF CallRejected, Timeout
  <2> QED BY <2>1, <2>2, AnswersOnly
<1>4. task'[c].answer = a /\ task'[c].state = t.state /\ ~Waiting(c)'
  BY <1>1, <1>3 DEF TaskState, Waiting
<1>5. ~Bought(c)' BY <1>4 DEF Bought
<1>6. CASE Bought(c)
  BY <1>4, <1>6 DEF FailsLate, Purchases
<1>7. CASE ~Bought(c)
  <2>1. /\ t.state = "refused" => a \in {"400", "401", "409"}
        /\ t.state # "refused" => a \in {"401", "500"}
    <3>1. t.call \in {"auth", "cart", "reserve", "clear"}
      BY <1>1, <1>7, Standing DEF Call, HttpCall
    <3> QED BY <1>3, <3>1 DEF StatusOf
  <2>2. EndOf(c)' = IF t.state = "refused" THEN "refused" ELSE "failed"
    <3>1. a # "201" BY <1>3
    <3>2. WillRefuse(c)' <=> t.state = "refused"
      BY <1>4, <2>1 DEF WillRefuse, Served
    <3>3. t.state # "refused" => WillFail(c)' BY <1>4, <2>1 DEF WillFail
    <3> QED BY <1>4, <1>5, <3>1, <3>2, <3>3 DEF EndOf
  <2>3. CASE t.state # "sent"
    <3>1. EndOf(c)' = EndOf(c) BY <1>1, <1>7, <2>2, <2>3, EndWhileWaiting
    <3> QED BY <1>2, <1>5, <1>7, <3>1, OnlyItsEnd, StandsStill
  <2>4. CASE t.state = "sent"
    <3>1. EndOf(c) = "open" /\ EndOf(c)' = "failed"
      BY <1>1, <1>7, <2>2, <2>4, EndWhileWaiting
    <3> DEFINE gone == {c}
    <3>2. gone \in SUBSET Checkout OBVIOUS
    <3>3. \A d \in gone : EndOf(d) \in {"open", "refused"} /\ EndOf(d)' = "failed"
      BY <3>1
    <3>4. Checkout \ gone = Checkout \ {c} OBVIOUS
    <3> HIDE DEF gone
    <3> QED BY <1>2, <1>5, <1>7, <3>2, <3>3, <3>4, OnlyItsEnd, TheyFail
  <2> QED BY <2>3, <2>4
<1> QED BY <1>6, <1>7

\* A call fails: after the purchase it is only noticed, before it is the end.
LEMMA CallFailsPurchases ==
    ASSUME TypeOK, BooksAgree, NEW c \in Checkout,
           FailAuth(c) \/ BreakCall(c) \/ LoseCall(c) \/ HangInsert(c)
    PROVE  Purchases
<1> DEFINE t == task[c]
           none == {}
           gone == {c}
<1>1. /\ t \in TaskState /\ Waiting(c) /\ t.answer = "none"
      /\ t.state \in {"sent", "served", "refused"}
  BY Standing DEF TypeOK, FailAuth, BreakCall, LoseCall, HangInsert
<1>2. /\ Only(c) /\ UNCHANGED <<session, hasEmail, unused, stock, cart, taken>>
      /\ UNCHANGED <<database, memory, forgotten>>
  BY CallFails DEF outside, process, storage
<1>3. PICK a \in {"unverified", "failed", "lost"} : task'[c] = [t EXCEPT !.state = a]
  BY CallFails
<1>4. /\ task'[c].state = a /\ task'[c].items = t.items
      /\ task'[c].answer = "none" /\ Waiting(c)'
  BY <1>1, <1>3 DEF TaskState, Waiting
<1>5. CASE Bought(c)
  <2>1. \A o \in none : o.by = c OBVIOUS
  <2>2. Stored' = Stored \cup none BY <1>2, StoredStays
  <2> HIDE DEF none
  <2> QED BY <1>2, <1>4, <1>5, <2>1, <2>2, BuyerGoesOn
<1>6. CASE ~Bought(c)
  <2>1. taken[c] = {} BY <1>1, <1>6 DEF Bought
  <2>2. ~Bought(c)' BY <1>2, <2>1 DEF Bought
  <2>3. EndOf(c)' = "failed"
    BY <1>4, <2>2 DEF EndOf, WillRefuse, WillFail, Served
  <2>4. EndOf(c) \in {"open", "refused"}
    BY <1>1, <1>6, EndWhileWaiting DEF Served
  <2>5. gone \in SUBSET Checkout OBVIOUS
  <2>6. \A d \in gone : EndOf(d) \in {"open", "refused"} /\ EndOf(d)' = "failed"
    BY <2>3, <2>4
  <2>7. Checkout \ gone = Checkout \ {c} OBVIOUS
  <2> HIDE DEF gone
  <2> QED BY <1>2, <1>6, <2>2, <2>5, <2>6, <2>7, OnlyItsEnd, TheyFail
<1> QED BY <1>5, <1>6

\* Of the invoice the purchase knows nothing.
LEMMA InvoicePurchases ==
    ASSUME TypeOK, NEW c \in Checkout, QueueInvoice(c)
    PROVE  Purchases
<1> DEFINE t == task[c]
           none == {}
<1>1. t \in TaskState BY DEF TypeOK
<1>2. PICK i \in {"queued", "failed"} : task'[c] = [t EXCEPT !.invoice = i]
  BY QueueInvoiceMoves
<1>3. /\ Only(c) /\ UNCHANGED <<session, hasEmail, unused, stock, cart, taken>>
      /\ UNCHANGED <<database, memory, forgotten>>
  BY QueueInvoiceMoves DEF QueueInvoice, outside, process, storage
<1>4. /\ task'[c].pc = t.pc /\ task'[c].state = t.state
      /\ task'[c].call = t.call /\ task'[c].items = t.items
      /\ task'[c].answer = t.answer
  BY <1>1, <1>2 DEF TaskState
<1>5. Bought(c)' = Bought(c) BY <1>3, <1>4 DEF Bought, Waiting
<1>6. Stored' = Stored BY <1>3, StoredStays
<1>7. Ordered(c)' = Ordered(c) BY <1>6 DEF Ordered
<1>8. SoldTo(c)' = SoldTo(c) BY <1>4, <1>5, <1>7 DEF SoldTo
<1>9. WillRefuse(c)' = WillRefuse(c) /\ WillFail(c)' = WillFail(c)
  BY <1>3, <1>4 DEF WillRefuse, WillFail, Served, Waiting
<1>10. EndOf(c)' = EndOf(c) BY <1>4, <1>5, <1>9 DEF EndOf
<1>11. \A o \in none : o.by = c OBVIOUS
<1>12. Stored' = Stored \cup none BY <1>6
<1> HIDE DEF none
<1> QED BY <1>3, <1>4, <1>5, <1>8, <1>10, <1>11, <1>12, HandlerStandsStill

\* A process ends: one of its checkouts has bought and fails late, or all of
\* them fail and leave nothing behind.
LEMMA RestartPurchases ==
    ASSUME TypeOK, BooksAgree, NEW p \in Pod, Restart(p)
    PROVE  Purchases
<1>1. UNCHANGED <<session, hasEmail, unused, stock, cart, taken>>
  BY DEF Restart, outside
<1>2. Stored' = Stored BY RestartStores
<1>3. ASSUME NEW c \in Checkout
      PROVE  /\ task'[c].items = task[c].items
             /\ \/ /\ Waiting(c) /\ ~Waiting(c)'
                   /\ task'[c].answer = "dropped"
                \/ /\ Waiting(c)' = Waiting(c)
                   /\ task'[c].answer = task[c].answer
                   /\ task'[c].state = task[c].state
                   /\ task'[c].call = task[c].call
  <2>1. task[c] \in TaskState BY DEF TypeOK
  <2>2. CASE task'[c] = task[c] BY <2>2 DEF Waiting
  <2>3. CASE /\ Waiting(c)
             /\ task'[c] = [task[c] EXCEPT !.pc = "done", !.answer = "dropped"]
    BY <2>1, <2>3 DEF TaskState, Waiting
  <2>4. CASE /\ ~Waiting(c)
             /\ task'[c] = [task[c] EXCEPT !.invoice = "failed"]
    BY <2>1, <2>4 DEF TaskState, Waiting
  <2> QED BY <2>2, <2>3, <2>4, RestartMoves
<1> DEFINE dropped == {c \in Checkout : Waiting(c) /\ task'[c].answer = "dropped"}
           gone == {c \in dropped : EndOf(c) \in {"open", "refused"}}
<1>4. CASE \E c \in Checkout : Bought(c) /\ c \in dropped
  BY <1>4 DEF FailsLate, Purchases
<1>5. CASE \A c \in Checkout : Bought(c) => c \notin dropped
  <2>1. \A c \in dropped : ~Waiting(c)'
    <3> SUFFICES ASSUME NEW c \in dropped PROVE ~Waiting(c)' OBVIOUS
    <3>1. task[c].answer = "none" BY Standing
    <3> QED BY <1>3, <3>1
  <2>2. \A c \in Checkout : Bought(c)' = Bought(c)
    BY <1>1, <1>3, <1>5, <2>1 DEF Bought
  <2>3. \A c \in Checkout : SoldTo(c)' = SoldTo(c)
    <3> SUFFICES ASSUME NEW c \in Checkout PROVE SoldTo(c)' = SoldTo(c) OBVIOUS
    <3>1. Ordered(c)' = Ordered(c) BY <1>2 DEF Ordered
    <3> QED BY <1>3, <2>2, <3>1 DEF SoldTo
  <2>4. \A u \in User : Left(u)' = Left(u) BY <1>1, <1>3, <2>2, LeftStays
  <2>5. \A c \in dropped : EndOf(c)' = "failed"
    <3> SUFFICES ASSUME NEW c \in dropped PROVE EndOf(c)' = "failed" OBVIOUS
    <3>1. ~Bought(c)' /\ ~Waiting(c)' /\ task'[c].answer = "dropped"
      BY <2>1 DEF Bought
    <3> QED BY <3>1 DEF EndOf, WillRefuse, WillFail, Served
  <2>6. \A c \in dropped : EndOf(c) \in {"open", "refused", "failed"}
    <3> SUFFICES ASSUME NEW c \in dropped
                 PROVE  EndOf(c) \in {"open", "refused", "failed"}
      OBVIOUS
    <3>1. task[c].answer = "none" /\ ~Bought(c) BY <1>5, Standing
    <3> QED BY <3>1 DEF EndOf
  <2>7. \A c \in Checkout \ dropped : EndOf(c)' = EndOf(c)
    <3> SUFFICES ASSUME NEW c \in Checkout \ dropped
                 PROVE  EndOf(c)' = EndOf(c)
      OBVIOUS
    <3>1. /\ Waiting(c)' = Waiting(c) /\ task'[c].answer = task[c].answer
          /\ task'[c].state = task[c].state /\ task'[c].call = task[c].call
          /\ task'[c].items = task[c].items
      BY <1>3
    <3>2. WillRefuse(c)' = WillRefuse(c) /\ WillFail(c)' = WillFail(c)
      BY <1>1, <3>1 DEF WillRefuse, WillFail, Served
    <3> QED BY <2>2, <3>1, <3>2 DEF EndOf
  <2>8. gone \in SUBSET Checkout /\ \A c \in gone : c \in dropped OBVIOUS
  <2>9. \A c \in gone : EndOf(c) \in {"open", "refused"} /\ EndOf(c)' = "failed"
    BY <2>5
  <2>10. \A c \in Checkout \ gone : EndOf(c)' = EndOf(c)
    BY <2>5, <2>6, <2>7
  <2> HIDE DEF gone, dropped
  <2> QED BY <1>1, <2>3, <2>4, <2>8, <2>9, <2>10, TheyFail
<1> QED BY <1>4, <1>5

\* So every step is one of the purchase, or one it does not know of.
LEMMA NextPurchases ==
    TypeOK /\ BooksAgree /\ Patience /\ ClearedOfOrders /\ Invoiceable
        /\ [Next]_vars => Purchases
<1> SUFFICES ASSUME TypeOK, BooksAgree, Patience, ClearedOfOrders, Invoiceable,
                    [Next]_vars
             PROVE  Purchases
  OBVIOUS
<1>1. ASSUME NEW c \in Checkout, StepOf(c) PROVE Purchases
  BY <1>1, StartPurchases, HaveSessionPurchases, HaveCartPurchases,
     OrderPurchases, CartClearedPurchases, RejectionPurchases,
     InvoicePurchases, ServeAuthPurchases, ServeCartPurchases, ServeReservePurchases, ServeSavePurchases,
     ServeClearPurchases, CallFailsPurchases DEF StepOf, Handle, Serve
<1>2. CASE UNCHANGED vars
  <2>1. UNCHANGED <<session, hasEmail, unused, stock, cart, taken, task>>
    BY <1>2 DEF vars, outside
  <2>2. Stored' = Stored
    BY <1>2, StoredStays DEF vars, process, storage
  <2>3. \A c \in Checkout :
          Bought(c)' = Bought(c) /\ task'[c].items = task[c].items
    BY <2>1 DEF Bought, Waiting
  <2>4. \A u \in User : Left(u)' = Left(u) BY <2>1, <2>3, LeftStays
  <2>5. \A c \in Checkout : SoldTo(c)' = SoldTo(c) /\ EndOf(c)' = EndOf(c)
    <3> SUFFICES ASSUME NEW c \in Checkout
                 PROVE  SoldTo(c)' = SoldTo(c) /\ EndOf(c)' = EndOf(c)
      OBVIOUS
    <3>1. Ordered(c)' = Ordered(c) BY <2>2 DEF Ordered
    <3>2. WillRefuse(c)' = WillRefuse(c) /\ WillFail(c)' = WillFail(c)
      BY <2>1 DEF WillRefuse, WillFail, Served, Waiting
    <3> QED BY <2>1, <2>3, <3>1, <3>2 DEF SoldTo, EndOf
  <2> QED BY <2>1, <2>4, <2>5, StandsStill
<1> QED BY <1>1, <1>2, StepsAreOfThreeSorts, OutsidePurchases, RestartPurchases

\* A checkout starts with an open outcome and nothing bought.
LEMMA StartsAsPurchase == Init => Purchase!PurchaseInit
<1> SUFFICES ASSUME Init PROVE Purchase!PurchaseInit OBVIOUS
<1>1. /\ session = User /\ hasEmail \in SUBSET User /\ unused = Unit /\ stock = Stock
      /\ cart = [u \in User |-> {}] /\ Stored = {}
  BY DEF Init, Stored
<1>2. ASSUME NEW c \in Checkout PROVE SoldTo(c) = {} /\ EndOf(c) = "open"
  <2>1. task[c] = Idle(c) /\ taken[c] = {} BY DEF Init
  <2>2. /\ task[c].pc = "idle" /\ task[c].answer = "none"
        /\ task[c].state = "none"
    BY <2>1 DEF Idle
  <2>3. Ordered(c) = {} BY <1>1 DEF Ordered
  <2> QED BY <2>2, <2>3
          DEF SoldTo, EndOf, Bought, WillRefuse, WillFail, Served, Waiting
<1>3. \A u \in User : Left(u) = {} BY <1>1 DEF Left
<1> DEFINE carts == [u \in User |-> Left(u)]
           sold == [c \in Checkout |-> SoldTo(c)]
           ends == [c \in Checkout |-> EndOf(c)]
<1>4. /\ carts = [u \in User |-> {}] /\ sold = [c \in Checkout |-> {}]
      /\ ends = [c \in Checkout |-> "open"]
  BY <1>2, <1>3
<1> QED BY <1>1, <1>4, Zenon DEF Purchase!PurchaseInit, SoldTo, EndOf

\* However calls break, get lost or come late, a checkout is one purchase of the
\* whole cart, or none, but for the three ways in which it may not be that the
\* property names.
THEOREM PurchaseIsAtomic == Spec => ImplementsAtomicPurchase
<1>1. Init => ClearedOfOrders
  BY DEF Init, Idle, ClearedOfOrders, Served, Waiting
<1>2. Spec => []ClearedOfOrders
  BY <1>1, NextCleared, TypeCorrect, PatienceInvariant, PTL DEF Spec
<1>5. Init => Invoiceable BY DEF Init, Idle, Invoiceable
<1>6. Spec => []Invoiceable
  BY <1>5, NextInvoiceable, TypeCorrect, PTL DEF Spec
<1>3. Spec => [][Purchases]_(Purchase!purchaseVars)
  BY <1>2, <1>6, NextPurchases, BooksInvariant, PatienceInvariant, PTL DEF Spec
<1>4. Purchases => [\/ Purchase!PurchaseNext
                   \/ FailsLate \/ ServedLate
                   \/ CartChanged]_(Purchase!purchaseVars)
  BY DEF Purchases
<1> QED BY <1>3, <1>4, StartsAsPurchase, PTL
        DEF Spec, ImplementsAtomicPurchase

=============================================================================
