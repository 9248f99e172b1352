---------------------------- MODULE CartProperties ----------------------------
(***************************************************************************)
(* What can go wrong with a cart, and what cannot.                         *)
(***************************************************************************)
EXTENDS CartService

\* A handler that no other save has disturbed since its read holds the cart
\* of this moment, and is about to save the effect of its request on it (cart
\* 61-86, 236-245): also across lost connections, crashes and a Redis that
\* comes back empty.
UndisturbedCopiesAreCurrent ==
    \A r \in Request :
        ~task[r].disturbed =>
            /\ task[r].pc = "got" => task[r].cart = redisCart
            /\ task[r].pc = "set" =>
                  /\ Allows(task[r].op, redisCart)
                  /\ task[r].cart = Effect(task[r].op, redisCart)

\* Every handler that awaits Redis does so once, at one pod, and only at a
\* pod that serves with Redis: no reply can reach a process that has gone.
AwaitedAtLivePods ==
    /\ \A p \in Pod : pending[p] # <<>> =>
          pod[p] = "serving" /\ socket[p] /\ redisReady[p]
    /\ \A r \in Request : task[r].pc \in Sent \cup Executed =>
          \E p \in Pod : r \in Queued(p)
    /\ \A p, q \in Pod : p # q => Queued(p) \cap Queued(q) = {}

Atomic == INSTANCE AtomicCart WITH
    cart    <- redisCart,
    outcome <- [r \in Request |->
                  IF task[r].pc = "saved"
                    THEN [state |-> "applied", op |-> task[r].op,
                          shown |-> task[r].cart]
                  ELSE IF task[r].answer = "none"
                    THEN [state |-> "waiting"]
                  ELSE [state |-> task[r].answer, op |-> task[r].op,
                        shown |-> task[r].cart]]

\* What the one cart of a user does not know of: a handler goes on with a cart
\* that another one has saved over since, a pod answers from its memory, and
\* Redis comes back empty.
Overlapped ==
    \E r \in Request : /\ task[r].disturbed /\ task[r].op.kind # "clear"
                       /\ task[r].pc \in HasRead /\ task'[r] # task[r]
FromMemory == \E r \in Request : task[r].pc = "idle" /\ task'[r].pc = "done"
DataLost   == redisUp /\ ~redisUp'

\* Every other step is one of the atomic cart: with requests under way on two
\* pods, lost connections and crashes, a request does once and whole what it
\* asked for and is shown the cart it made, or is refused with reason, or ends
\* without an answer (cart 61-86, 199-290).
ImplementsAtomicCart ==
    /\ Atomic!AtomicInit
    /\ [][ \/ Atomic!AtomicNext
           \/ Overlapped \/ FromMemory \/ DataLost ]_(Atomic!cartVars)

-----------------------------------------------------------------------------

\* Every request a pod has taken ends: answered, or dropped with its pod.
EveryRequestEnds ==
    \A r \in Request : (task[r].pc # "idle") ~> (task[r].pc = "done")

\* A pod that has lost its connection or its process serves again, Redis
\* being started again whenever it stops.
PodsServeAgain == \A p \in Pod : []<>(pod[p] = "serving")

\* "Uses Redis when available": a pod whose connection to Redis stays up in
\* the end uses it (cart/README.md 5).
UsesRedisWhenAvailable ==
    \A p \in Pod : <>[](redisUp /\ socket[p]) => []<>redisReady[p]

=============================================================================
