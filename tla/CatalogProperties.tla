-------------------------- MODULE CatalogProperties --------------------------
(***************************************************************************)
(* What can go wrong in the catalog, and what cannot.                      *)
(***************************************************************************)
EXTENDS Catalog, Functions

\* Every copy of the inventory: in Redis, in memory, and in the hands of a
\* handler that has read one or is about to save one.
Copies ==
    ( {redisDoc} \cup {inventory[p] : p \in Pod}
                 \cup {task[t].items : t \in Task} ) \ {NoDocument}

\* Each line of a reservation is compared with the full stock on its own, and a
\* product may be added with any stock: what an operation may leave below zero.
ShortBy(op, p, stock) ==
    \/ /\ op.kind = "reserve"
       /\ op.lines[p].first > 0 /\ op.lines[p].second > 0
       /\ stock >= -op.lines[p].first /\ stock >= -op.lines[p].second
    \/ op.kind = "add" /\ op.product = p /\ stock >= op.stock

\* However handlers overlap, no copy of the inventory has a negative stock but
\* for a product that was added so, or that a reservation names on two lines,
\* and then by no more than either line (catalog 130, 163, 175, 232, 251).
StockCoversEachLine ==
    \A doc \in Copies : \A p \in Product :
        \/ doc.stock[p] >= 0
        \/ \E op \in Operation : ShortBy(op, p, doc.stock[p])

\* What the given requests ask for of a product, if all of them reserve.
Taken(requests, p) ==
    SumFunctionOnSet([r \in requests |-> Quantity(task[r].op, p)], requests)

\* However handlers overlap, fall back to memory or die, a copy of the
\* inventory never has a part of a reservation, or one of them twice: while
\* only reservations were made on it, its stock is the seed less each of them
\* (catalog 249-261).
CopiesAccountForTheirWrites ==
    \A doc \in Copies :
        (\A r \in doc.writes : task[r].op.kind = "reserve") =>
            \A p \in Product :
                doc.stock[p] = SeedStock[p] - Taken(doc.writes, p)

\* A write leaves Redis only by a handler that read the key before that write
\* was there and saved after it, or by a restart of Redis (catalog 52-80).
NoStaleOverwrite ==
    [][ \A w \in Writes(redisDoc) \ Writes(redisDoc') :
            \/ redisDoc' = NoDocument
            \/ \E t \in Task : /\ task[t].pc \in {"seed", "set"}
                               /\ task'[t].pc \in Executed
                               /\ w \in task[t].missed ]_vars

\* Why it is so: a handler on its way to save has in its copy, or has missed
\* since it read, every write that Redis has; and the copy with which it is
\* filling an absent key never has a write that the memory of its pod, which
\* it goes on with, has not.
ReadersKnow ==
    /\ \A t \in Task :
         task[t].pc \in HasRead =>
             Writes(redisDoc) \subseteq Writes(task[t].items) \cup task[t].missed
    /\ \A p \in Pod : \A t \in Queued(p) :
         task[t].pc \in {"seed", "seeded"} =>
             Writes(task[t].items) \subseteq inventory[p].writes

\* A task awaits Redis at one pod at most, a start only at its own.
QueuesApart ==
    \A p \in Pod :
        /\ Queued(p) \subseteq Request \cup {p}
        /\ \A t \in Queued(p) \cap Request : task[t].pc # "idle"
        /\ \A q \in Pod \ {p} : Queued(p) \cap Queued(q) = {}

\* Both together are inductive, and NoStaleOverwrite follows from them: see
\* CatalogProofs.
HandlersAndQueues == ReadersKnow /\ QueuesApart

\* What clients were told they have never exceeds the seed (catalog 197,
\* "validates stock and decrements atomically per request").  For runs whose
\* clients only reserve.
NoOversell ==
    \A p \in Product :
        Taken({r \in Request : task[r].answer = "ok"}, p) <= SeedStock[p]

\* The inventory of the catalog is the key, or what will fill it.
Current == IF redisDoc = NoDocument THEN Seed ELSE redisDoc

Atomic == INSTANCE AtomicInventory WITH
    current <- Current,
    outcome <- [r \in Request |->
                  IF task[r].pc = "saved"
                    THEN [state |-> "applied", op |-> task[r].op]
                  ELSE IF task[r].answer = "none"
                    THEN [state |-> "waiting"]
                  ELSE [state |-> task[r].answer, op |-> task[r].op]]

\* What one inventory does not know of: a handler goes on with a copy that is
\* not, or no longer, the one in Redis; a pod without Redis answers from its
\* memory; and the key is lost.
Stale(t) ==
    \/ task[t].pc = "got"  /\ task[t].items # redisDoc
    \/ task[t].pc = "seed" /\ task[t].items # Current
    \/ task[t].pc = "set"  /\ Writes(task[t].items) # Writes(redisDoc) \cup {t}
    \/ /\ task[t].pc = "seeded"
       /\ \E p \in Pod : t \in Queued(p) /\ inventory[p] # redisDoc
OnStaleCopy == \E t \in Task : Stale(t) /\ task'[t] # task[t]
FromMemory  ==
    \/ \E r \in Request : task[r].pc = "idle" /\ task'[r].pc = "done"
    \/ \E p \in Pod : ~redisReady[p] /\ pending'[p] # pending[p]
KeyLost     == redisDoc # NoDocument /\ redisDoc' = NoDocument

\* Every other step is one of the atomic inventory: with two requests under way
\* on two pods, a pod that fills the key, broken connections and crashes, a
\* request takes effect once and whole, or is refused with reason, or ends
\* without an answer (catalog 52-80, 198-264).
ImplementsAtomicInventory ==
    /\ Atomic!AtomicInit
    /\ [][ \/ OnStaleCopy \/ FromMemory \/ KeyLost
           \/ Atomic!AtomicNext ]_(Atomic!abstractVars)

-----------------------------------------------------------------------------

\* Node runs the loop of every live pod, Kubernetes restarts a pod that has
\* exited, and Redis either answers a command or its connection breaks.
Fairness == \A p \in Pod : WF_vars(Service(p)) /\ WF_vars(Redis(p))
FairSpec == Spec /\ Fairness

\* Whatever breaks between its commands, a request that a pod has taken ends:
\* with an answer, or with the connection its dying pod drops.
EveryRequestEnds ==
    \A r \in Request : (task[r].pc # "idle") ~> (task[r].pc = "done")

\* A pod always comes to serve again: no failure, at the start or later,
\* leaves it waiting for Redis (catalog 17-50, 267-272).
PodsServeAgain == \A p \in Pod : []<>(pod[p] = "serving")

=============================================================================
