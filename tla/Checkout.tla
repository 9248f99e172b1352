------------------------------ MODULE Checkout ------------------------------
(***************************************************************************)
(* The checkout service: pods that turn a user's cart into an order with   *)
(* five calls one after the other, to auth, to the cart, to the catalog,   *)
(* to Postgres and to the cart again, and none that takes any of them back. *)
(*                                                                         *)
(* An HTTP call may fail, get lost, or be answered only after the handler  *)
(* has given up on it; what it asks for may still be done then.  The cart  *)
(* and the catalog serve a call in one step here: CartService and Catalog  *)
(* say when they do not.                                                   *)
(***************************************************************************)
EXTENDS Naturals, FiniteSets

CONSTANTS
    User,
    Checkout,    \* POST /checkout requests, sent once each
    Owner,       \* whose cart a checkout is for
    Unit,        \* one item each, put in a cart at most once
    Malformed,   \* those the cart takes and the catalog does not: a blank id
    Stock,       \* how many items the catalog has at the start
    Pod,         \* replicas of the checkout deployment
    Fault,       \* the faults of a run, see FaultKind
    MaxFaults,   \* bound: how many of them happen
    OneAtATime   \* does a user wait for an answer before the next request?

HttpFault    == {"broken", "lost", "slow", "auth"}
PodFault     == {"crash", "invoice", "same id"}
StorageFault == {"database", "table", "hang"}
FaultKind    == HttpFault \cup PodFault \cup StorageFault

ASSUME CheckoutAssumption ==
    /\ Owner \in [Checkout -> User]
    /\ IsFiniteSet(Unit) /\ Malformed \subseteq Unit
    /\ Stock \in Nat
    /\ Fault \subseteq FaultKind
    /\ MaxFaults \in Nat
    /\ OneAtATime \in BOOLEAN

VARIABLES
    unused,     \* items not put in a cart yet
    session,    \* the users whose token the auth service knows
    hasEmail,   \* the users whose account has a usable email, for good
    cart,       \* what each user has in the cart
    stock,      \* how much stock the catalog has
    taken,      \* history: the items the catalog has reserved for a checkout
    task,       \* the continuation of every handler
    settled,    \* has a pod ended connectDatabase?
    dbReady,    \* the flag of that name
    dbUp,       \* is Postgres reachable?
    database,   \* the orders table
    memory,     \* the array "orders" of every pod
    forgotten,  \* history: orders in the memory of processes that have ended
    faults      \* faults so far

outside == <<unused, session, hasEmail, cart, stock, taken>>
storage == <<dbUp, database>>
process == <<settled, dbReady, memory, forgotten>>
vars == <<outside, task, process, storage, faults>>

HttpCall == {"auth", "cart", "reserve", "clear"}
Call     == HttpCall \cup {"save"}

\* "call" and "state" are the last call of the handler and how far it is: a
\* call that is "sent" may still be served when its handler is "done".
TaskState ==
    [pc: {"idle", "waiting", "done"}, pod: Pod \cup {"none"},
     call: Call \cup {"none"},
     state: {"none", "sent", "served", "refused", "unverified",
             "failed", "lost"},
     items: SUBSET Unit, id: Checkout,
     answer: {"none", "201", "400", "401", "409", "500", "dropped"},
     invoice: {"none", "sent", "queued", "failed"}]

Order == [id: Checkout, by: Checkout, items: SUBSET Unit]

TypeOK ==
    /\ unused \in SUBSET Unit
    /\ session \in SUBSET User /\ hasEmail \in SUBSET User
    /\ cart \in [User -> SUBSET Unit]
    /\ stock \in Nat
    /\ taken \in [Checkout -> SUBSET Unit]
    /\ task \in [Checkout -> TaskState]
    /\ settled \in SUBSET Pod
    /\ dbReady \in SUBSET Pod
    /\ dbUp \in BOOLEAN
    /\ database \in SUBSET Order
    /\ memory \in [Pod -> SUBSET Order]
    /\ forgotten \in SUBSET Order
    /\ faults \in 0..MaxFaults

Idle(c) == [pc |-> "idle", pod |-> "none", call |-> "none", state |-> "none",
            items |-> {}, id |-> c, answer |-> "none", invoice |-> "none"]

\* A pod listens before it has connected to the database.
Init ==
    /\ unused = Unit
    /\ session = User /\ hasEmail \in SUBSET User
    /\ cart = [u \in User |-> {}]
    /\ stock = Stock
    /\ taken = [c \in Checkout |-> {}]
    /\ task = [c \in Checkout |-> Idle(c)]
    /\ settled = {}
    /\ dbReady = {}
    /\ dbUp = TRUE
    /\ database = {}
    /\ memory = [p \in Pod |-> {}]
    /\ forgotten = {}
    /\ faults = 0

-----------------------------------------------------------------------------
(* The user, and a session that ends on another device or by its time.     *)

Waiting(c) == task[c].pc = "waiting"

MayAct(u) ==
    OneAtATime => ~ \E c \in Checkout : Owner[c] = u /\ Waiting(c)

AddItem(u, x) ==
    /\ MayAct(u) /\ u \in session
    /\ x \in unused
    /\ unused' = unused \ {x}
    /\ cart' = [cart EXCEPT ![u] = @ \cup {x}]
    /\ UNCHANGED <<session, hasEmail, stock, taken, task, process, storage,
                   faults>>

SignOut(u) ==
    /\ u \in session
    /\ session' = session \ {u}
    /\ UNCHANGED <<unused, hasEmail, cart, stock, taken, task, process, storage,
                   faults>>

SignIn(u) ==
    /\ u \notin session
    /\ session' = session \cup {u}
    /\ UNCHANGED <<unused, hasEmail, cart, stock, taken, task, process, storage,
                   faults>>

-----------------------------------------------------------------------------
(* The handler of POST /checkout.                                          *)

Sends(c, s, call) ==
    task' = [task EXCEPT ![c] = [s EXCEPT !.call = call, !.state = "sent"]]

Answers(c, answer) ==
    task' = [task EXCEPT ![c].pc = "done", ![c].answer = answer]

\* requireAuth.  A request that has no token ends as one whose token is not
\* known.
Start(c, p) ==
    /\ task[c].pc = "idle" /\ MayAct(Owner[c])
    /\ Sends(c, [task[c] EXCEPT !.pc = "waiting", !.pod = p], "auth")
    /\ UNCHANGED <<outside, process, storage, faults>>

Served(c, call) ==
    Waiting(c) /\ task[c].call = call /\ task[c].state = "served"

HaveSession(c) ==
    /\ Served(c, "auth")
    /\ IF Owner[c] \in hasEmail THEN Sends(c, task[c], "cart")
                                ELSE Answers(c, "400")
    /\ UNCHANGED <<outside, process, storage, faults>>

HaveCart(c) ==
    /\ Served(c, "cart")
    /\ IF task[c].items = {} THEN Answers(c, "400")
                             ELSE Sends(c, task[c], "reserve")
    /\ UNCHANGED <<outside, process, storage, faults>>

OrderOf(c, s) == [id |-> s.id, by |-> c, items |-> s.items]

\* Mutant: the insertion is not awaited.
SaveNoAwait(c, s) ==
    LET p == s.pod IN
    /\ IF p \in dbReady
         THEN UNCHANGED memory
         ELSE memory' = [memory EXCEPT ![p] = @ \cup {OrderOf(c, s)}]
    /\ Sends(c, s, "clear")

\* Orders go to Postgres or to the memory of the pod as dbReady has it.
Save(c, s) ==
    LET p == s.pod IN
    IF p \in dbReady
      THEN /\ Sends(c, s, "save")
           /\ UNCHANGED memory
      ELSE /\ memory' = [memory EXCEPT ![p] = @ \cup {OrderOf(c, s)}]
           /\ Sends(c, s, "clear")

Happens(fault) ==
    /\ fault \in Fault /\ faults < MaxFaults
    /\ faults' = faults + 1

\* Mutant: the order lists what is in the cart by now.
HaveReservationReread(c) ==
    /\ Served(c, "reserve")
    /\ Save(c, [task[c] EXCEPT !.items = cart[Owner[c]]])
    /\ UNCHANGED <<outside, settled, dbReady, forgotten, storage, faults>>

\* createOrderId takes the millisecond and one number of a thousand: two
\* orders may get the same id.
HaveReservation(c) ==
    /\ Served(c, "reserve")
    /\ \/ /\ Save(c, task[c])
          /\ UNCHANGED faults
       \/ /\ Happens("same id")
          /\ \E d \in Checkout \ {c} : Save(c, [task[c] EXCEPT !.id = task[d].id])
    /\ UNCHANGED <<outside, settled, dbReady, forgotten, storage>>

\* Mutant: the clearing of the cart is not awaited.
OrderSavedNoAwait(c) ==
    /\ Served(c, "save")
    /\ task' = [task EXCEPT ![c].pc = "done", ![c].answer = "201",
                            ![c].call = "clear", ![c].state = "sent",
                            ![c].invoice = "sent"]
    /\ UNCHANGED <<outside, process, storage, faults>>

OrderSaved(c) ==
    /\ Served(c, "save")
    /\ Sends(c, task[c], "clear")
    /\ UNCHANGED <<outside, process, storage, faults>>

\* Mutant: no invoice is asked for.
CartClearedNoInvoice(c) ==
    /\ Served(c, "clear")
    /\ Answers(c, "201")
    /\ UNCHANGED <<outside, process, storage, faults>>

\* The answer goes out first, and nobody waits for the invoice.
CartCleared(c) ==
    /\ Served(c, "clear")
    /\ task' = [task EXCEPT ![c].pc = "done", ![c].answer = "201",
                            ![c].invoice = "sent"]
    /\ UNCHANGED <<outside, process, storage, faults>>

\* Mutant: an error without a status counts as missing stock.
StatusOfDefault409(c) ==
    IF task[c].call = "auth" \/ task[c].state = "unverified" THEN "401"
    ELSE IF task[c].state # "refused" THEN "409"
    ELSE CASE task[c].call \in {"cart", "clear"} -> "401"
           [] task[c].call = "reserve" ->
                IF task[c].items \cap Malformed # {} THEN "400" ELSE "409"
           [] OTHER -> "500"

\* The status of the failed call, or where it has none 401 for the call to auth
\* and 500 for the others.
StatusOf(c) ==
    IF task[c].call = "auth" \/ task[c].state = "unverified" THEN "401"
    ELSE IF task[c].state # "refused" THEN "500"
    ELSE CASE task[c].call \in {"cart", "clear"} -> "401"
           [] task[c].call = "reserve" ->
                IF task[c].items \cap Malformed # {} THEN "400" ELSE "409"
           [] OTHER -> "500"

CallRejected(c) ==
    /\ Waiting(c) /\ task[c].state \in {"refused", "unverified", "failed"}
    /\ Answers(c, StatusOf(c))
    /\ UNCHANGED <<outside, process, storage, faults>>

\* Mutant: fetchJson sets no timeout.
TimeoutNever(c) ==
    /\ Waiting(c) /\ task[c].call \in HttpCall
    /\ task[c].state = "sent" /\ Happens("slow")
    /\ Answers(c, StatusOf(c))
    /\ UNCHANGED <<outside, process, storage>>

\* Five seconds without an answer end a call, not what it asks for.
Timeout(c) ==
    /\ Waiting(c) /\ task[c].call \in HttpCall
    /\ \/ task[c].state = "lost" /\ UNCHANGED faults
       \/ task[c].state = "sent" /\ Happens("slow")
    /\ Answers(c, StatusOf(c))
    /\ UNCHANGED <<outside, process, storage>>

\* triggerInvoice; its failure is logged and nothing more.
QueueInvoice(c) ==
    /\ task[c].invoice = "sent"
    /\ \/ /\ task' = [task EXCEPT ![c].invoice = "queued"]
          /\ UNCHANGED faults
       \/ /\ Happens("invoice")
          /\ task' = [task EXCEPT ![c].invoice = "failed"]
    /\ UNCHANGED <<outside, process, storage>>

-----------------------------------------------------------------------------
(* The services a checkout calls, which do not know whether it still waits. *)

Arrives(c, call) == task[c].call = call /\ task[c].state = "sent"
Replies(c, state) == task' = [task EXCEPT ![c].state = state]

ServeAuth(c) ==
    /\ Arrives(c, "auth") /\ Waiting(c)
    /\ Replies(c, IF Owner[c] \in session THEN "served" ELSE "refused")
    /\ UNCHANGED <<outside, process, storage, faults>>

\* The cart service asks for the session again.
ServeCart(c) ==
    /\ Arrives(c, "cart") /\ Waiting(c)
    /\ IF Owner[c] \in session
         THEN task' = [task EXCEPT ![c].state = "served",
                                   ![c].items = cart[Owner[c]]]
         ELSE Replies(c, "refused")
    /\ UNCHANGED <<outside, process, storage, faults>>

\* Mutant: the stock is not looked at.
ServeReserveUnchecked(c) ==
    /\ Arrives(c, "reserve")
    /\ stock' = stock - Cardinality(task[c].items)
    /\ taken' = [taken EXCEPT ![c] = task[c].items]
    /\ Replies(c, "served")
    /\ UNCHANGED <<unused, session, hasEmail, cart, process, storage, faults>>

ServeReserve(c) ==
    LET items == task[c].items IN
    /\ Arrives(c, "reserve")
    /\ IF items \cap Malformed = {} /\ Cardinality(items) <= stock
         THEN /\ stock' = stock - Cardinality(items)
              /\ taken' = [taken EXCEPT ![c] = items]
              /\ Replies(c, "served")
         ELSE /\ Replies(c, "refused")
              /\ UNCHANGED <<stock, taken>>
    /\ UNCHANGED <<unused, session, hasEmail, cart, process, storage, faults>>

\* And again.
ServeClear(c) ==
    /\ Arrives(c, "clear")
    /\ IF Owner[c] \in session
         THEN /\ cart' = [cart EXCEPT ![Owner[c]] = {}]
              /\ Replies(c, "served")
         ELSE Replies(c, "refused") /\ UNCHANGED cart
    /\ UNCHANGED <<unused, session, hasEmail, stock, taken, process, storage,
                   faults>>

ServeSave(c) ==
    LET known == \E o \in database : o.id = task[c].id IN
    /\ Arrives(c, "save")
    /\ IF dbUp /\ ~known
         THEN /\ database' = database \cup {OrderOf(c, task[c])}
              /\ Replies(c, "served")
         ELSE /\ Replies(c, IF dbUp THEN "refused" ELSE "failed")
              /\ UNCHANGED database
    /\ UNCHANGED <<outside, process, dbUp, faults>>

\* The auth service is away or cannot verify: the checkout itself, or the cart
\* service that asks for it, is told 401 or nothing of a session that is alive.
FailAuth(c) ==
    /\ Happens("auth")
    /\ Waiting(c) /\ task[c].call \in {"auth", "cart", "clear"}
    /\ task[c].state = "sent"
    /\ Replies(c, "unverified")
    /\ UNCHANGED <<outside, process, storage>>

\* A connection breaks before or after the call is served.
BreakCall(c) ==
    /\ Happens("broken")
    /\ Waiting(c) /\ task[c].state \in {"sent", "served", "refused"}
    /\ Replies(c, "failed")
    /\ UNCHANGED <<outside, process, storage>>

LoseCall(c) ==
    /\ Happens("lost")
    /\ Waiting(c) /\ task[c].call \in HttpCall
    /\ task[c].state \in {"sent", "served"}
    /\ Replies(c, "lost")
    /\ UNCHANGED <<outside, process, storage>>

\* The INSERT has no timeout: when Postgres does not answer, before or after
\* it was done, the handler waits until its process ends.
HangInsert(c) ==
    /\ Happens("hang")
    /\ Waiting(c) /\ task[c].call = "save"
    /\ task[c].state \in {"sent", "served"}
    /\ Replies(c, "lost")
    /\ UNCHANGED <<outside, process, storage>>

-----------------------------------------------------------------------------
(* Pods and Postgres.                                                      *)

\* connectDatabase; when it fails the pod keeps orders in memory for good.
ConnectDatabase(p) ==
    /\ p \notin settled
    /\ settled' = settled \cup {p}
    /\ \/ /\ dbReady' = IF dbUp THEN dbReady \cup {p} ELSE dbReady
          /\ UNCHANGED faults
       \/ /\ Happens("table")
          /\ UNCHANGED dbReady
    /\ UNCHANGED <<outside, task, storage, memory, forgotten>>

\* The process ends and is started again.  Of the invoice events it was
\* sending, some may still go out.
Restart(p) ==
    LET sending == {c \in Checkout : task[c].pod = p /\ task[c].invoice = "sent"} IN
    /\ settled' = settled \ {p}
    /\ dbReady' = dbReady \ {p}
    /\ memory' = [memory EXCEPT ![p] = {}]
    /\ forgotten' = forgotten \cup memory[p]
    /\ \E lost \in SUBSET sending :
         task' = [c \in Checkout |->
            IF Waiting(c) /\ task[c].pod = p
              THEN [task[c] EXCEPT !.pc = "done", !.answer = "dropped"]
            ELSE IF c \in lost THEN [task[c] EXCEPT !.invoice = "failed"]
            ELSE task[c]]
    /\ UNCHANGED <<outside, storage>>

Crash(p) == Happens("crash") /\ Restart(p)

DatabaseStops ==
    /\ Happens("database")
    /\ dbUp
    /\ dbUp' = FALSE
    /\ UNCHANGED <<outside, task, process, database>>

DatabaseStarts ==
    /\ ~dbUp
    /\ dbUp' = TRUE
    /\ UNCHANGED <<outside, task, process, database, faults>>

\* The pool reports the loss of an idle connection by an error event that has
\* no listener, which ends the process.
PoolError(p) ==
    /\ ~dbUp /\ p \in dbReady
    /\ Restart(p)
    /\ UNCHANGED faults

-----------------------------------------------------------------------------

Handle(c) ==
    \/ HaveSession(c) \/ HaveCart(c) \/ HaveReservation(c) \/ OrderSaved(c)
    \/ CartCleared(c) \/ CallRejected(c) \/ QueueInvoice(c)

Serve(c) ==
    ServeAuth(c) \/ ServeCart(c) \/ ServeReserve(c) \/ ServeSave(c) \/ ServeClear(c)

Next ==
    \/ \E u \in User : SignOut(u) \/ SignIn(u) \/ \E x \in Unit : AddItem(u, x)
    \/ \E c \in Checkout :
         \/ \E p \in Pod : Start(c, p)
         \/ Handle(c) \/ Timeout(c) \/ Serve(c)
         \/ FailAuth(c) \/ BreakCall(c) \/ LoseCall(c) \/ HangInsert(c)
    \/ \E p \in Pod : ConnectDatabase(p) \/ Crash(p) \/ PoolError(p)
    \/ DatabaseStops \/ DatabaseStarts

Spec == Init /\ [][Next]_vars

=============================================================================
