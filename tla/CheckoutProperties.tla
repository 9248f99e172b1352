-------------------------- MODULE CheckoutProperties --------------------------
(***************************************************************************)
(* What a checkout leaves behind when its calls fail, race or come late.   *)
(***************************************************************************)
EXTENDS Checkout

\* Every order there is, and every order that a process took with it.
Stored == database \cup forgotten \cup UNION {memory[p] : p \in Pod}

HasOrder(c) == \E o \in Stored : o.by = c

\* An order, wherever it is kept, lists exactly what the catalog has taken off
\* the stock for it, and a checkout has one order at most (checkout 346-377).
OrdersAreReserved ==
    \A o \in Stored :
        /\ o.items = taken[o.by] /\ o.items # {}
        /\ \A q \in Stored : q.by = o.by => q = o

\* 201 is answered, and an invoice asked for, only for an order that is
\* stored: with every call failing, late or lost, and ids that collide
\* (checkout 377-399).
ConfirmedIsStored ==
    \A c \in Checkout :
        task[c].answer = "201" \/ task[c].invoice # "none"
            => HasOrder(c) /\ task[c].answer = "201"

\* A checkout that is answered 400 or 409 has left nothing behind and will
\* leave nothing behind: no stock is or will be taken and there is no order
\* (checkout 321-333, 339-344, 357-361, 400-419).
RefusalsHaveNoEffect ==
    \A c \in Checkout :
        task[c].answer \in {"400", "409"} =>
            /\ taken[c] = {} /\ ~HasOrder(c)
            /\ task[c].state # "sent"

\* A cart is emptied only for a checkout whose order is stored, also by a call
\* its handler has given up.  While the handler waits, and its user with it,
\* nothing is lost that is not in the order (checkout 377-382).
CartsEmptyIntoOrders ==
    [][ \A u \in User : \A x \in cart[u] \ cart'[u] :
          \E c \in Checkout :
             /\ Owner[c] = u /\ HasOrder(c)
             /\ OneAtATime /\ Waiting(c) => x \in task[c].items ]_vars

\* No item is in the orders of two confirmed checkouts of a user who waits for
\* answers, however often the user tries again after a failure (checkout
\* 335-390).
NoItemConfirmedTwice ==
    \A c, d \in Checkout :
        c # d /\ task[c].answer = "201" /\ task[d].answer = "201"
            => task[c].items \cap task[d].items = {}

-----------------------------------------------------------------------------

\* From the reservation on, a checkout that is under way has bought.
Bought(c)  == Waiting(c) /\ taken[c] # {}
Ordered(c) == UNION {o.items : o \in {q \in Stored : q.by = c}}

\* A user's cart, without what was bought and is still to be cleared.
Left(u) == cart[u] \ UNION {task[c].items :
                               c \in {d \in Checkout : Owner[d] = u /\ Bought(d)}}

\* It is decided where a call is served, and the answer follows.
WillRefuse(c) ==
    \/ task[c].answer \in {"400", "409"}
    \/ task[c].answer \in {"none", "401"} /\ task[c].state = "refused"
    \/ Served(c, "auth") /\ Owner[c] \notin hasEmail
    \/ Served(c, "cart") /\ task[c].items = {}

\* A 401 that is no refusal: nobody could tell whether the session is alive.
WillFail(c) ==
    \/ task[c].answer \in {"500", "dropped"}
    \/ task[c].answer = "401" /\ task[c].state # "refused"
    \/ Waiting(c) /\ task[c].state \in {"unverified", "failed", "lost"}

Purchase == INSTANCE AtomicPurchase WITH
    signedIn <- session,
    hasEmail <- hasEmail,
    unused   <- unused,
    carts    <- [u \in User |-> Left(u)],
    left     <- stock,
    bought   <- [c \in Checkout |->
                   IF Bought(c) THEN task[c].items ELSE Ordered(c)],
    outcome  <- [c \in Checkout |->
                   IF Bought(c) \/ task[c].answer = "201" THEN "bought"
                   ELSE IF WillRefuse(c)                  THEN "refused"
                   ELSE IF WillFail(c)                    THEN "failed"
                   ELSE "open"]

\* What one purchase does not know of: a checkout fails after its reservation,
\* a call is served after its handler gave up, and a checkout goes on with a
\* cart that has changed since it was read.
FailsLate == \E c \in Checkout :
    Bought(c) /\ task'[c].answer \notin {"none", "201"}
ServedLate == \E c \in Checkout :
    ~Waiting(c) /\ task[c].state = "sent" /\ task'[c].state # "sent"
CartChanged == \E c \in Checkout :
    /\ Waiting(c) /\ task'[c] # task[c]
    /\ task[c].call \notin {"auth", "cart"} \/ Served(c, "cart")
    /\ Left(Owner[c]) # IF Bought(c) THEN {} ELSE task[c].items

\* Every other step is one of the atomic purchase: with calls that break or get
\* lost, crashes, and a database that comes and goes, a checkout buys the whole
\* cart at one point, or is refused for a reason of its user, cart or stock, or
\* fails and leaves nothing behind (checkout 261-284, 321-419).
ImplementsAtomicPurchase ==
    /\ Purchase!PurchaseInit
    /\ [][ \/ Purchase!PurchaseNext
           \/ FailsLate \/ ServedLate \/ CartChanged ]_(Purchase!purchaseVars)

-----------------------------------------------------------------------------

\* Node runs the loop of every live pod and its timers; a service answers the
\* calls that somebody waits for, unless they are lost.
Fairness ==
    \A c \in Checkout :
        /\ WF_vars(Handle(c))
        /\ WF_vars(Timeout(c))
        /\ WF_vars(Waiting(c) /\ Serve(c))

FairSpec == Spec /\ Fairness

\* Every checkout ends, whichever calls are lost (checkout 245-247), but for one
\* whose INSERT Postgres does not answer (checkout 114).
Hung(c) == task[c].call = "save" /\ task[c].state = "lost"
CheckoutsEnd ==
    \A c \in Checkout : Waiting(c) ~> (task[c].pc = "done" \/ Hung(c))

\* A confirmed order does not stay without its invoice event: it is queued,
\* unless the queue refused it or the pod died (checkout 392-399).
ConfirmedIsInvoiced ==
    \A c \in Checkout :
        (task[c].answer = "201") ~> (task[c].invoice \in {"queued", "failed"})

\* "(falls back to in-memory if DB is unavailable)" (checkout/README.md 9): a
\* checkout that has its stock is not failed for want of the database.
FallsBackToMemory ==
    \A c \in Checkout : task[c].answer = "500" => taken[c] = {}

=============================================================================
