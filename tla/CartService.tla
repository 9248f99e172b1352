----------------------------- MODULE CartService -----------------------------
(***************************************************************************)
(* The cart service: pods that keep a user's cart under one Redis key with *)
(* GET and SET, or in their own memory once their Redis client has had an  *)
(* error.  As in the catalog a handler awaits between the GET and the SET; *)
(* unlike there, neither is inside a try, and the client reconnects for    *)
(* ever.                                                                   *)
(***************************************************************************)
EXTENDS CartContents, Sequences

CONSTANTS
    Pod,         \* replicas of the cart deployment
    Fault,       \* the faults of a run, see FaultKind
    MaxFaults    \* bound: how many of them happen

FaultKind == {"connection", "redis down", "crash"}

ASSUME BoundAssumption == /\ Fault \subseteq FaultKind
                          /\ MaxFaults \in Nat

VARIABLES
    redisUp,      \* is Redis reachable?
    redisCart,    \* the value of cart:<userId>, Empty when absent
    socket,       \* is a pod's client connected?
    pod,          \* where a pod is in its life
    redisReady,   \* the flag of that name
    memoryCart,   \* cartsByUser of a pod, for this user
    pending,      \* requests awaiting a command of their pod, as sent
    task,         \* the continuation of every handler
    faults        \* faults so far

vars == <<redisUp, redisCart, socket, pod, redisReady, memoryCart, pending,
          task, faults>>

Sent     == {"get", "set"}
Executed == {"got", "saved"}
HasRead  == {"got", "set"}

\* "disturbed" is a history field: Redis has saved for another handler since
\* this one read.  No action of the program reads it.
TaskState ==
    [pc: {"idle", "done"} \cup Sent \cup Executed,
     op: Operation \cup {[kind |-> "none"]},
     cart: Cart, disturbed: BOOLEAN,
     answer: {"none", "ok", "refused", "dropped"}]

TypeOK ==
    /\ redisUp \in BOOLEAN
    /\ redisCart \in Cart
    /\ socket \in [Pod -> BOOLEAN]
    /\ pod \in [Pod -> {"connecting", "serving"}]
    /\ redisReady \in [Pod -> BOOLEAN]
    /\ memoryCart \in [Pod -> Cart]
    /\ pending \in [Pod -> Seq(Request)]
    /\ task \in [Request -> TaskState]
    /\ faults \in 0..MaxFaults

Idle == [pc |-> "idle", op |-> [kind |-> "none"], cart |-> Empty,
         disturbed |-> FALSE, answer |-> "none"]

\* Mutant: getInMemoryCart does not create the cart it does not find.
InitNoArray ==
    /\ redisUp = TRUE
    /\ redisCart \in AtFirst
    /\ socket = [p \in Pod |-> FALSE]
    /\ pod = [p \in Pod |-> "connecting"]
    /\ redisReady = [p \in Pod |-> FALSE]
    /\ memoryCart = [p \in Pod |-> <<>>]
    /\ pending = [p \in Pod |-> <<>>]
    /\ task = [r \in Request |-> Idle]
    /\ faults = 0

Init ==
    /\ redisUp = TRUE
    /\ redisCart \in AtFirst
    /\ socket = [p \in Pod |-> FALSE]
    /\ pod = [p \in Pod |-> "connecting"]
    /\ redisReady = [p \in Pod |-> FALSE]
    /\ memoryCart = [p \in Pod |-> Empty]
    /\ pending = [p \in Pod |-> <<>>]
    /\ task = [r \in Request |-> Idle]
    /\ faults = 0

-----------------------------------------------------------------------------

Queued(p) == {pending[p][i] : i \in 1..Len(pending[p])}

Await(r, p, queue, state) ==
    /\ task' = [task EXCEPT ![r] = state]
    /\ pending' = [pending EXCEPT ![p] = Append(queue, r)]

\* The answer shows a cart, but for a refusal, or a request without answer.
Ended(op, answer, shown) ==
    [Idle EXCEPT !.pc = "done", !.op = op, !.answer = answer, !.cart = shown]

Finish(r, p, queue, op, answer, shown) ==
    /\ task' = [task EXCEPT ![r] = Ended(op, answer, shown)]
    /\ pending' = [pending EXCEPT ![p] = queue]

-----------------------------------------------------------------------------
(* Requests.  Clearing the cart does not read it first.                    *)

SendGet(r, p, op) ==
    /\ pod[p] = "serving" /\ redisReady[p]
    /\ task[r].pc = "idle"
    /\ op.kind # "clear"
    /\ Await(r, p, pending[p], [Idle EXCEPT !.pc = "get", !.op = op])
    /\ UNCHANGED <<redisUp, redisCart, socket, pod, redisReady, memoryCart,
                   faults>>

SendClear(r, p, op) ==
    /\ pod[p] = "serving" /\ redisReady[p]
    /\ task[r].pc = "idle"
    /\ op.kind = "clear"
    /\ Await(r, p, pending[p], [Idle EXCEPT !.pc = "set", !.op = op])
    /\ UNCHANGED <<redisUp, redisCart, socket, pod, redisReady, memoryCart,
                   faults>>

\* In memory nothing is awaited between the load and the answer.
ServeFromMemory(r, p, op) ==
    /\ pod[p] = "serving" /\ ~redisReady[p]
    /\ task[r].pc = "idle"
    /\ IF Allows(op, memoryCart[p])
         THEN /\ memoryCart' = [memoryCart EXCEPT ![p] = Effect(op, @)]
              /\ Finish(r, p, pending[p], op, "ok", memoryCart'[p])
         ELSE /\ Finish(r, p, pending[p], op, "refused", Empty)
              /\ UNCHANGED memoryCart
    /\ UNCHANGED <<redisUp, redisCart, socket, pod, redisReady, faults>>

-----------------------------------------------------------------------------
(* Redis executes the commands of a connection in the order it gets them.  *)

IsNext(p, i) ==
    /\ i \in 1..Len(pending[p])
    /\ task[pending[p][i]].pc \in Sent
    /\ \A j \in 1..(i - 1) : task[pending[p][j]].pc \in Executed

ServerGet(p) ==
    /\ socket[p]
    /\ \E i \in 1..Len(pending[p]) :
         LET r == pending[p][i] IN
         /\ IsNext(p, i) /\ task[r].pc = "get"
         /\ task' = [task EXCEPT ![r].pc = "got", ![r].cart = redisCart]
    /\ UNCHANGED <<redisUp, redisCart, socket, pod, redisReady, memoryCart,
                   pending, faults>>

ServerSet(p) ==
    /\ socket[p]
    /\ \E i \in 1..Len(pending[p]) :
         LET r == pending[p][i] IN
         /\ IsNext(p, i) /\ task[r].pc = "set"
         /\ redisCart' = task[r].cart
         /\ task' = [u \in Request |->
              IF u = r THEN [task[r] EXCEPT !.pc = "saved"]
              ELSE IF task[u].pc \in HasRead
                     THEN [task[u] EXCEPT !.disturbed = TRUE]
                     ELSE task[u]]
    /\ UNCHANGED <<redisUp, socket, pod, redisReady, memoryCart, pending,
                   faults>>

-----------------------------------------------------------------------------
(* The pod handles the replies in the order of the commands.               *)

Reply(p, pc) ==
    /\ redisReady[p] /\ pending[p] # <<>>
    /\ task[Head(pending[p])].pc = pc

\* Mutant: answers 404 and still saves an empty cart.
ReceiveCartForgetful(p) ==
    LET r == Head(pending[p])
        s == task[r] IN
    /\ Reply(p, "got")
    /\ Await(r, p, Tail(pending[p]),
             [s EXCEPT !.pc = "set",
                       !.cart = IF Allows(s.op, s.cart)
                                  THEN Effect(s.op, s.cart) ELSE Empty])
    /\ UNCHANGED <<redisUp, redisCart, socket, pod, redisReady, memoryCart,
                   faults>>

ReceiveCart(p) ==
    LET r == Head(pending[p])
        s == task[r] IN
    /\ Reply(p, "got")
    /\ CASE s.op.kind = "read" ->
              Finish(r, p, Tail(pending[p]), s.op, "ok", s.cart)
         [] ~Allows(s.op, s.cart) ->
              Finish(r, p, Tail(pending[p]), s.op, "refused", Empty)
         [] OTHER ->
              Await(r, p, Tail(pending[p]),
                    [s EXCEPT !.pc = "set", !.cart = Effect(s.op, s.cart)])
    /\ UNCHANGED <<redisUp, redisCart, socket, pod, redisReady, memoryCart,
                   faults>>

AnswerSaved(p) ==
    LET r == Head(pending[p]) IN
    /\ Reply(p, "saved")
    /\ Finish(r, p, Tail(pending[p]), task[r].op, "ok", task[r].cart)
    /\ UNCHANGED <<redisUp, redisCart, socket, pod, redisReady, memoryCart,
                   faults>>

-----------------------------------------------------------------------------
(* The client connects and reconnects with redis's default strategy, which *)
(* never gives up; only the first connection sets redisReady.              *)

\* Mutant: the app listens when the connection has failed, not in any case.
ConnectCatch(p) ==
    /\ pod[p] = "connecting" /\ redisUp
    /\ socket' = [socket EXCEPT ![p] = TRUE]
    /\ redisReady' = [redisReady EXCEPT ![p] = TRUE]
    /\ UNCHANGED <<redisUp, redisCart, pod, memoryCart, pending, task, faults>>

Connect(p) ==
    /\ pod[p] = "connecting" /\ redisUp
    /\ pod' = [pod EXCEPT ![p] = "serving"]
    /\ socket' = [socket EXCEPT ![p] = TRUE]
    /\ redisReady' = [redisReady EXCEPT ![p] = TRUE]
    /\ UNCHANGED <<redisUp, redisCart, memoryCart, pending, task, faults>>

Reconnect(p) ==
    /\ pod[p] = "serving" /\ ~socket[p] /\ redisUp
    /\ socket' = [socket EXCEPT ![p] = TRUE]
    /\ UNCHANGED <<redisUp, redisCart, pod, redisReady, memoryCart, pending,
                   task, faults>>

\* A process that ends forgets its memory, drops its requests, and is
\* started again.
Dropped(gone) ==
    [r \in Request |-> IF \E p \in gone : r \in Queued(p)
                         THEN Ended(task[r].op, "dropped", Empty) ELSE task[r]]

\* Mutant: the error event leaves redisReady set, so that later requests wait
\* in the client for a connection.
DisconnectReady(lost) ==
    LET dead == {p \in lost : pending[p] # <<>>} IN
    /\ socket' = [p \in Pod |-> socket[p] /\ p \notin lost]
    /\ redisReady' = [p \in Pod |-> redisReady[p] /\ p \notin dead]
    /\ pod' = [p \in Pod |-> IF p \in dead THEN "connecting" ELSE pod[p]]
    /\ memoryCart' = [p \in Pod |-> IF p \in dead THEN Empty
                                                  ELSE memoryCart[p]]
    /\ pending' = [p \in Pod |-> IF p \in dead THEN <<>> ELSE pending[p]]
    /\ task' = Dropped(dead)

\* Mutant: a rejected command is caught and its request never answered.
DisconnectSilent(lost) ==
    /\ socket' = [p \in Pod |-> socket[p] /\ p \notin lost]
    /\ redisReady' = [p \in Pod |-> redisReady[p] /\ p \notin lost]
    /\ pending' = [p \in Pod |-> IF p \in lost THEN <<>> ELSE pending[p]]
    /\ UNCHANGED <<pod, memoryCart, task>>

\* The pods of "lost" see their connection close: the error event clears
\* redisReady, and a command that waits for its reply is rejected, which no
\* handler catches, so the process ends.
Disconnect(lost) ==
    LET dead == {p \in lost : pending[p] # <<>>} IN
    /\ socket' = [p \in Pod |-> socket[p] /\ p \notin lost]
    /\ redisReady' = [p \in Pod |-> redisReady[p] /\ p \notin lost]
    /\ pod' = [p \in Pod |-> IF p \in dead THEN "connecting" ELSE pod[p]]
    /\ memoryCart' = [p \in Pod |-> IF p \in dead THEN Empty
                                                  ELSE memoryCart[p]]
    /\ pending' = [p \in Pod |-> IF p \in dead THEN <<>> ELSE pending[p]]
    /\ task' = Dropped(dead)

Happens(fault) ==
    /\ fault \in Fault /\ faults < MaxFaults
    /\ faults' = faults + 1

LoseConnection(p) ==
    /\ Happens("connection")
    /\ socket[p]
    /\ Disconnect({p})
    /\ UNCHANGED <<redisUp, redisCart>>

\* Redis has no volume: what it held is gone when it comes back.
RedisStops ==
    /\ Happens("redis down")
    /\ redisUp
    /\ redisUp' = FALSE
    /\ redisCart' = Empty
    /\ Disconnect({p \in Pod : socket[p]})

RedisStarts ==
    /\ ~redisUp
    /\ redisUp' = TRUE
    /\ UNCHANGED <<redisCart, socket, pod, redisReady, memoryCart, pending,
                   task, faults>>

Crash(p) ==
    /\ Happens("crash")
    /\ pod[p] = "serving"
    /\ pod' = [pod EXCEPT ![p] = "connecting"]
    /\ socket' = [socket EXCEPT ![p] = FALSE]
    /\ redisReady' = [redisReady EXCEPT ![p] = FALSE]
    /\ memoryCart' = [memoryCart EXCEPT ![p] = Empty]
    /\ pending' = [pending EXCEPT ![p] = <<>>]
    /\ task' = Dropped({p})
    /\ UNCHANGED <<redisUp, redisCart>>

-----------------------------------------------------------------------------

Service(p) == ReceiveCart(p) \/ AnswerSaved(p) \/ Connect(p) \/ Reconnect(p)
Redis(p)   == ServerGet(p) \/ ServerSet(p)

Next ==
    \/ \E r \in Request, p \in Pod, op \in Operation :
         SendGet(r, p, op) \/ SendClear(r, p, op) \/ ServeFromMemory(r, p, op)
    \/ \E p \in Pod : Service(p) \/ Redis(p) \/ LoseConnection(p) \/ Crash(p)
    \/ RedisStops \/ RedisStarts

Spec == Init /\ [][Next]_vars

\* Node runs every live loop, Redis answers or the connection closes, and a
\* Redis that has stopped is started again by Kubernetes.
Fairness ==
    /\ \A p \in Pod : WF_vars(Service(p)) /\ WF_vars(Redis(p))
    /\ WF_vars(RedisStarts)

FairSpec == Spec /\ Fairness

=============================================================================
