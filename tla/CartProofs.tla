------------------------------ MODULE CartProofs ------------------------------
(***************************************************************************)
(* The cart service proved: types, requests that await Redis, that an      *)
(* undisturbed save is exact, and that the service is one cart but for     *)
(* what AtomicCart leaves out.                                             *)
(***************************************************************************)
EXTENDS CartProperties, DataLemmas

\* What an operation makes of a cart is a cart.
LEMMA EffectIsCart ==
    ASSUME NEW op \in Operation \cup {[kind |-> "none"]}, NEW c \in Cart
    PROVE  Effect(op, c) \in Cart
<1>1. CASE op \in Adding
  <2>1. op.kind = "add" /\ op.product \in Product /\ op.quantity \in Nat
    BY <1>1 DEF Adding
  <2>2. Effect(op, c) = [c EXCEPT ![op.product] = c[op.product] + op.quantity]
    BY <2>1 DEF Effect, Cart
  <2> QED BY <2>1, <2>2 DEF Cart
<1>2. CASE op \in Removing
  <2>1. op.kind = "remove" /\ op.product \in Product BY <1>2 DEF Removing
  <2>2. Effect(op, c) = [c EXCEPT ![op.product] = 0] BY <2>1 DEF Effect
  <2> QED BY <2>1, <2>2 DEF Cart
<1>3. CASE op \in Other \cup {[kind |-> "none"]}
  <2>1. op.kind \in {"read", "clear", "none"} BY <1>3 DEF Other
  <2>2. Effect(op, c) \in {Empty, c} BY <2>1 DEF Effect
  <2> QED BY <2>2 DEF Empty, Cart
<1> QED BY <1>1, <1>2, <1>3, OperationAssumption

\* A cart without items is a cart.
LEMMA EmptyIsCart == Empty \in Cart
BY DEF Empty, Cart

\* The states of a handler that the actions write.
LEMMA IdleIsTyped == Idle \in TaskState /\ Idle.pc = "idle"
BY EmptyIsCart DEF Idle, TaskState

\* A handler that has ended is typed, and keeps its request.
LEMMA EndedIsTyped ==
    ASSUME NEW op \in Operation \cup {[kind |-> "none"]}, NEW c \in Cart,
           NEW answer \in {"ok", "refused", "dropped"}
    PROVE  LET s == Ended(op, answer, c) IN
           /\ s \in TaskState /\ s.pc = "done" /\ s.op = op
           /\ s.cart = c /\ s.answer = answer
BY IdleIsTyped DEF TaskState, Ended

\* So is one that has sent its first command.
LEMMA SentIsTyped ==
    ASSUME NEW op \in Operation, NEW pc \in Sent
    PROVE  LET s == [Idle EXCEPT !.pc = pc, !.op = op] IN
           /\ s \in TaskState /\ s.pc = pc /\ s.op = op
           /\ s.cart = Empty /\ s.answer = "none"
<1>1. Idle.cart = Empty /\ Idle.answer = "none" BY DEF Idle
<1> QED BY <1>1, IdleIsTyped DEF TaskState

\* What Redis changes of a handler.
LEMMA ExecutedIsTyped ==
    ASSUME NEW t \in TaskState, NEW c \in Cart, NEW pc \in Sent \cup Executed
    PROVE  /\ [t EXCEPT !.pc = pc] \in TaskState
           /\ [t EXCEPT !.pc = pc, !.cart = c] \in TaskState
BY DEF TaskState

\* A handler that is saved over stays typed.
LEMMA DisturbedIsTyped ==
    ASSUME NEW t \in TaskState
    PROVE  [t EXCEPT !.disturbed = TRUE] \in TaskState
BY DEF TaskState

-----------------------------------------------------------------------------
(* The inductive invariant.                                                *)

Awaiting(r) == task[r].pc \in Sent \cup Executed

\* A pod that uses Redis serves and is connected, and only such a pod has
\* commands under way.
Connected ==
    \A p \in Pod :
        /\ redisReady[p] => socket[p] /\ pod[p] = "serving"
        /\ pending[p] # <<>> => redisReady[p]

\* A request awaits Redis when it is queued, once and at one pod.
QueuesApart ==
    /\ \A p \in Pod : /\ Once(pending[p])
                      /\ \A r \in Queued(p) : Awaiting(r)
                      /\ \A q \in Pod \ {p} : Queued(p) \cap Queued(q) = {}
    /\ \A r \in Request : Awaiting(r) => \E p \in Pod : r \in Queued(p)

IInv == TypeOK /\ Connected /\ QueuesApart /\ UndisturbedCopiesAreCurrent

\* What a pod awaits are the elements of its queue.
LEMMA QueuedAreElements ==
    \A p \in Pod : Queued(p) = Elements(pending[p])
BY DEF Queued, Elements

\* Only requests are queued.
LEMMA QueuedRequests ==
    ASSUME TypeOK
    PROVE  \A p \in Pod : Queued(p) \subseteq Request
BY ElementOfSeq DEF TypeOK, Queued

-----------------------------------------------------------------------------
(* Most steps are a turn of a pod: one request goes on, and is put at the  *)
(* end of the queue or ends.                                               *)

\* The queue without the request.
TurnOf(p, r, queue) ==
    /\ queue \in Seq(Request) /\ Once(queue) /\ r \notin Elements(queue)
    /\ Elements(queue) \subseteq Queued(p)
    /\ Queued(p) \subseteq Elements(queue) \cup {r}
    /\ r \in Queued(p) \/ task[r].pc = "idle"

Turn(p, r, queue, s) ==
    /\ task' = [task EXCEPT ![r] = s]
    /\ \/ s.pc = "done" /\ pending' = [pending EXCEPT ![p] = queue]
       \/ s.pc \in Sent /\ pending' = [pending EXCEPT ![p] = Append(queue, r)]

\* After a turn every request that awaits is still queued once, at one pod.
LEMMA TurnKeepsQueues ==
    ASSUME TypeOK, QueuesApart, NEW p \in Pod, NEW r \in Request, NEW queue,
           NEW s \in TaskState, TurnOf(p, r, queue), Turn(p, r, queue, s)
    PROVE  /\ pending' \in [Pod -> Seq(Request)]
           /\ task' \in [Request -> TaskState]
           /\ QueuesApart'
<1> DEFINE next == IF s.pc = "done" THEN queue ELSE Append(queue, r)
<1>1. /\ next \in Seq(Request) /\ Once(next)
      /\ Elements(next) = IF s.pc = "done" THEN Elements(queue)
                                           ELSE Elements(queue) \cup {r}
  <2>1. /\ queue \in Seq(Request) /\ Once(queue)
        /\ Append(queue, r) \in Seq(Request) /\ Once(Append(queue, r))
        /\ Elements(Append(queue, r)) = Elements(queue) \cup {r}
    BY AppendTail DEF TurnOf
  <2>2. CASE s.pc = "done" BY <2>1, <2>2
  <2>3. CASE s.pc # "done" BY <2>1, <2>3
  <2> QED BY <2>2, <2>3
<1>2. pending' = [pending EXCEPT ![p] = next] BY DEF Turn, Sent
<1>3. s.pc = "done" \/ s.pc \in Sent BY DEF Turn
<1> HIDE DEF next
<1>4. pending' \in [Pod -> Seq(Request)] /\ pending'[p] = next
      /\ \A q \in Pod \ {p} : pending'[q] = pending[q]
  BY <1>1, <1>2 DEF TypeOK
<1>5. /\ task' \in [Request -> TaskState] /\ task'[r] = s
      /\ \A u \in Request \ {r} : task'[u] = task[u]
  BY DEF Turn, TypeOK
<1>6. /\ Queued(p)' = Elements(next)
      /\ \A q \in Pod \ {p} : Queued(q)' = Queued(q)
  BY <1>4 DEF Queued, Elements
<1>7. \A q \in Pod \ {p} : r \notin Queued(q)
  BY DEF TurnOf, QueuesApart, Awaiting, Sent, Executed
<1>8. \A q \in Pod : Queued(q) \subseteq Request
  BY ElementOfSeq DEF TypeOK, Queued
<1>9. ASSUME NEW q \in Pod
      PROVE  /\ Once(pending'[q])
             /\ \A u \in Queued(q)' : Awaiting(u)'
             /\ \A o \in Pod \ {q} : Queued(q)' \cap Queued(o)' = {}
  <2>1. Once(pending'[q]) BY <1>1, <1>4 DEF QueuesApart
  <2>2. ASSUME NEW u \in Queued(q)' PROVE Awaiting(u)'
    <3>1. CASE u = r
      <4>1. s.pc # "done"
        BY <1>1, <1>6, <1>7, <2>2, <3>1 DEF TurnOf
      <4> QED BY <1>3, <1>5, <3>1, <4>1 DEF Awaiting
    <3>2. CASE u # r
      <4>1. u \in Queued(q) BY <1>1, <1>6, <2>2, <3>2 DEF TurnOf
      <4>2. u \in Request BY <1>8, <4>1
      <4> QED BY <1>5, <3>2, <4>1, <4>2 DEF QueuesApart, Awaiting
    <3> QED BY <3>1, <3>2
  <2>3. ASSUME NEW o \in Pod \ {q} PROVE Queued(q)' \cap Queued(o)' = {}
    BY <1>1, <1>6, <1>7 DEF QueuesApart, TurnOf
  <2> QED BY <2>1, <2>2, <2>3
<1>10. ASSUME NEW u \in Request, Awaiting(u)'
       PROVE  \E q \in Pod : u \in Queued(q)'
  <2>1. CASE u = r
    <3>1. s.pc # "done" BY <1>5, <1>10, <2>1 DEF Awaiting, Sent, Executed
    <3> QED BY <1>1, <1>6, <2>1, <3>1
  <2>2. CASE u # r
    <3>1. PICK q \in Pod : u \in Queued(q)
      BY <1>5, <1>10, <2>2 DEF QueuesApart, Awaiting
    <3>2. CASE q = p BY <1>1, <1>6, <2>2, <3>1, <3>2 DEF TurnOf
    <3>3. CASE q # p BY <1>6, <3>1, <3>3
    <3> QED BY <3>2, <3>3
  <2> QED BY <2>1, <2>2
<1> QED BY <1>4, <1>5, <1>9, <1>10 DEF QueuesApart

\* What a turn has to do for the rest of the invariant.
LEMMA TurnKeepsIInv ==
    ASSUME IInv, NEW p \in Pod, NEW r \in Request, NEW queue,
           NEW s \in TaskState, TurnOf(p, r, queue), Turn(p, r, queue, s),
           redisReady[p],
           UNCHANGED <<redisUp, redisCart, socket, pod, redisReady, memoryCart,
                       faults>>,
           s.pc = "set" /\ ~s.disturbed => /\ Allows(s.op, redisCart)
                                           /\ s.cart = Effect(s.op, redisCart)
    PROVE  IInv'
<1>1. /\ pending' \in [Pod -> Seq(Request)]
      /\ task' \in [Request -> TaskState] /\ QueuesApart'
  BY TurnKeepsQueues DEF IInv
<1>2. TypeOK' BY <1>1 DEF IInv, TypeOK
<1>3. Connected'
  <2>1. \A q \in Pod \ {p} : pending'[q] = pending[q] BY DEF Turn, IInv, TypeOK
  <2> QED BY <2>1 DEF IInv, Connected
<1>4. UndisturbedCopiesAreCurrent'
  <2>1. task'[r] = s /\ \A u \in Request \ {r} : task'[u] = task[u]
    BY DEF Turn, IInv, TypeOK
  <2>2. s.pc # "got" BY DEF Turn, Sent
  <2> QED BY <2>1, <2>2 DEF IInv, UndisturbedCopiesAreCurrent
<1> QED BY <1>1, <1>2, <1>3, <1>4 DEF IInv

\* The request at the head of a queue, and a new one, can take a turn.
LEMMA HeadTakesTurn ==
    ASSUME IInv, NEW p \in Pod, pending[p] # <<>>
    PROVE  /\ Head(pending[p]) \in Request
           /\ TurnOf(p, Head(pending[p]), Tail(pending[p]))
<1>1. pending[p] \in Seq(Request) /\ Once(pending[p])
  BY DEF IInv, TypeOK, QueuesApart
<1> QED BY <1>1, TakeHead, QueuedAreElements DEF TurnOf

\* A request that starts on a pod is not in its queue yet.
LEMMA NewTakesTurn ==
    ASSUME IInv, NEW p \in Pod, NEW r \in Request, task[r].pc = "idle"
    PROVE  TurnOf(p, r, pending[p])
<1>1. pending[p] \in Seq(Request) /\ Once(pending[p])
  BY DEF IInv, TypeOK, QueuesApart
<1>2. r \notin Queued(p)
  BY DEF IInv, QueuesApart, Awaiting, Sent, Executed
<1> QED BY <1>1, <1>2, QueuedAreElements DEF TurnOf

\* Sending a command and answering are turns.
LEMMA AwaitKeepsIInv ==
    ASSUME IInv, NEW p \in Pod, NEW r \in Request, NEW queue,
           TurnOf(p, r, queue), redisReady[p],
           NEW s \in TaskState, s.pc \in Sent, Await(r, p, queue, s),
           UNCHANGED <<redisUp, redisCart, socket, pod, redisReady, memoryCart,
                       faults>>,
           s.pc = "set" /\ ~s.disturbed => /\ Allows(s.op, redisCart)
                                           /\ s.cart = Effect(s.op, redisCart)
    PROVE  IInv'
<1>1. Turn(p, r, queue, s) BY DEF Turn, Await
<1> QED BY <1>1, TurnKeepsIInv

\* An answer ends a turn.
LEMMA FinishKeepsIInv ==
    ASSUME IInv, NEW p \in Pod, NEW r \in Request, NEW queue,
           TurnOf(p, r, queue), redisReady[p],
           NEW op \in Operation \cup {[kind |-> "none"]},
           NEW answer \in {"ok", "refused", "dropped"}, NEW shown \in Cart,
           Finish(r, p, queue, op, answer, shown),
           UNCHANGED <<redisUp, redisCart, socket, pod, redisReady, memoryCart,
                       faults>>
    PROVE  IInv'
<1> DEFINE s == Ended(op, answer, shown)
<1>1. s \in TaskState /\ s.pc = "done" BY EndedIsTyped
<1>2. Turn(p, r, queue, s) BY <1>1 DEF Turn, Finish
<1> HIDE DEF s
<1> QED BY <1>1, <1>2, TurnKeepsIInv

-----------------------------------------------------------------------------
(* The actions.                                                            *)

\* A request that sends its first command.
LEMMA SendKeepsIInv ==
    ASSUME IInv, NEW p \in Pod, NEW r \in Request, NEW op \in Operation,
           SendGet(r, p, op) \/ SendClear(r, p, op)
    PROVE  IInv'
<1>1. redisReady[p] /\ TurnOf(p, r, pending[p])
  BY NewTakesTurn DEF SendGet, SendClear
<1>2. CASE SendGet(r, p, op)
  <2> DEFINE s == [Idle EXCEPT !.pc = "get", !.op = op]
  <2>1. s \in TaskState /\ s.pc = "get"
    <3>1. "get" \in Sent BY DEF Sent
    <3> QED BY <3>1, SentIsTyped
  <2>2. Await(r, p, pending[p], s) BY <1>2 DEF SendGet
  <2> HIDE DEF s
  <2> QED BY <1>1, <1>2, <2>1, <2>2, AwaitKeepsIInv DEF SendGet, Sent
<1>3. CASE SendClear(r, p, op)
  <2> DEFINE s == [Idle EXCEPT !.pc = "set", !.op = op]
  <2>1. s \in TaskState /\ s.pc = "set" /\ s.op = op /\ s.cart = Empty
    <3>1. "set" \in Sent BY DEF Sent
    <3> QED BY <3>1, SentIsTyped
  <2>2. Allows(op, redisCart) /\ Effect(op, redisCart) = Empty
    BY <1>3 DEF SendClear, Allows, Effect
  <2>3. Await(r, p, pending[p], s) BY <1>3 DEF SendClear
  <2> HIDE DEF s
  <2> QED BY <1>1, <1>3, <2>1, <2>2, <2>3, AwaitKeepsIInv DEF SendClear, Sent
<1> QED BY <1>2, <1>3

\* In memory: a request that has not been queued is answered at once.
LEMMA MemoryKeepsIInv ==
    ASSUME IInv, NEW p \in Pod, NEW r \in Request, NEW op \in Operation,
           ServeFromMemory(r, p, op)
    PROVE  IInv'
<1>1. memoryCart[p] \in Cart /\ Effect(op, memoryCart[p]) \in Cart
  BY EffectIsCart DEF IInv, TypeOK
<1>2. memoryCart' \in [Pod -> Cart] /\ memoryCart'[p] \in Cart
  BY <1>1 DEF ServeFromMemory, IInv, TypeOK
<1>3. PICK s \in TaskState : /\ s.pc = "done" /\ task' = [task EXCEPT ![r] = s]
                             /\ pending' = [pending EXCEPT ![p] = pending[p]]
  <2>1. CASE Allows(op, memoryCart[p])
    <3> DEFINE n == Ended(op, "ok", memoryCart'[p])
    <3>1. n \in TaskState /\ n.pc = "done" BY <1>2, EndedIsTyped
    <3>2. Finish(r, p, pending[p], op, "ok", memoryCart'[p])
      BY <2>1 DEF ServeFromMemory
    <3> QED BY <3>1, <3>2 DEF Finish
  <2>2. CASE ~Allows(op, memoryCart[p])
    <3> DEFINE n == Ended(op, "refused", Empty)
    <3>1. n \in TaskState /\ n.pc = "done" BY EmptyIsCart, EndedIsTyped
    <3>2. Finish(r, p, pending[p], op, "refused", Empty)
      BY <2>2 DEF ServeFromMemory
    <3> QED BY <3>1, <3>2 DEF Finish
  <2> QED BY <2>1, <2>2
<1>4. TurnOf(p, r, pending[p]) BY NewTakesTurn DEF ServeFromMemory
<1>5. Turn(p, r, pending[p], s) BY <1>3 DEF Turn
<1>6. /\ pending' \in [Pod -> Seq(Request)]
      /\ task' \in [Request -> TaskState] /\ QueuesApart'
  BY <1>4, <1>5, TurnKeepsQueues DEF IInv
<1>7. UNCHANGED <<redisUp, redisCart, socket, pod, redisReady, faults>>
  BY DEF ServeFromMemory
<1>8. TypeOK' BY <1>2, <1>6, <1>7 DEF IInv, TypeOK
<1>9. Connected'
  <2>1. pending' = pending BY <1>3 DEF IInv, TypeOK
  <2> QED BY <1>7, <2>1 DEF IInv, Connected
<1>10. UndisturbedCopiesAreCurrent'
  <2>1. task'[r] = s /\ \A u \in Request \ {r} : task'[u] = task[u]
    BY <1>3 DEF IInv, TypeOK
  <2> QED BY <1>3, <1>7, <2>1 DEF IInv, UndisturbedCopiesAreCurrent
<1> QED BY <1>6, <1>8, <1>9, <1>10 DEF IInv

\* The replies.
LEMMA ReplyKeepsIInv ==
    ASSUME IInv, NEW p \in Pod, ReceiveCart(p) \/ AnswerSaved(p)
    PROVE  IInv'
<1> DEFINE r == Head(pending[p])
           s == task[r]
           queue == Tail(pending[p])
<1>1. redisReady[p] /\ pending[p] # <<>> BY DEF ReceiveCart, AnswerSaved, Reply
<1>2. r \in Request /\ TurnOf(p, r, queue) BY <1>1, HeadTakesTurn
<1>3. /\ s \in TaskState /\ s.cart \in Cart
      /\ s.op \in Operation \cup {[kind |-> "none"]}
  BY <1>2 DEF IInv, TypeOK, TaskState
<1>4. UNCHANGED <<redisUp, redisCart, socket, pod, redisReady, memoryCart,
                  faults>>
  BY DEF ReceiveCart, AnswerSaved
<1>5. CASE \E answer \in {"ok", "refused", "dropped"}, shown \in Cart :
             Finish(r, p, queue, s.op, answer, shown)
  <2> HIDE DEF r, s, queue
  <2> QED BY <1>1, <1>2, <1>3, <1>4, <1>5, FinishKeepsIInv
<1>6. CASE AnswerSaved(p) BY <1>3, <1>5, <1>6 DEF AnswerSaved
<1>7. CASE ReceiveCart(p)
  <2>1. s.pc = "got" BY <1>7 DEF ReceiveCart, Reply
  <2>2. CASE s.op.kind = "read"
    <3>1. Finish(r, p, queue, s.op, "ok", s.cart)
      BY <1>7, <2>2 DEF ReceiveCart, Allows
    <3> QED BY <1>3, <1>5, <3>1
  <2>3. CASE s.op.kind # "read" /\ ~Allows(s.op, s.cart)
    <3>1. Finish(r, p, queue, s.op, "refused", Empty)
      BY <1>7, <2>3 DEF ReceiveCart
    <3> QED BY <1>5, <3>1, EmptyIsCart
  <2>4. CASE s.op.kind # "read" /\ Allows(s.op, s.cart)
    <3> DEFINE n == [s EXCEPT !.pc = "set", !.cart = Effect(s.op, s.cart)]
    <3>1. Effect(s.op, s.cart) \in Cart BY <1>3, EffectIsCart
    <3>2. /\ n \in TaskState /\ n.pc = "set" /\ n.op = s.op
          /\ n.disturbed = s.disturbed /\ n.cart = Effect(s.op, s.cart)
      <4> HIDE DEF s
      <4> QED BY <1>3, <3>1 DEF TaskState, Sent
    <3>3. Await(r, p, queue, n) BY <1>7, <2>4 DEF ReceiveCart
    <3>4. ~s.disturbed => s.cart = redisCart
      BY <1>2, <2>1 DEF IInv, UndisturbedCopiesAreCurrent
    <3> HIDE DEF r, s, queue, n
    <3> QED BY <1>1, <1>2, <1>4, <2>4, <3>2, <3>3, <3>4, AwaitKeepsIInv DEF Sent
  <2> QED BY <2>2, <2>3, <2>4
<1> QED BY <1>6, <1>7

\* Queues stay apart when they, and who awaits, stay.
LEMMA SameQueues ==
    ASSUME TypeOK, QueuesApart, UNCHANGED pending,
           \A r \in Request : Awaiting(r)' = Awaiting(r)
    PROVE  QueuesApart'
<1>1. \A p \in Pod : Queued(p)' = Queued(p) /\ Queued(p) \subseteq Request
  BY QueuedRequests DEF Queued
<1> QED BY <1>1 DEF QueuesApart

\* Commands that Redis executes: a read is current, a save disturbs all others
\* that have read.
LEMMA RedisKeepsIInv ==
    ASSUME IInv, NEW p \in Pod, ServerGet(p) \/ ServerSet(p)
    PROVE  IInv'
<1>1. PICK i \in 1..Len(pending[p]) :
        \/ /\ task[pending[p][i]].pc = "get"
           /\ task' = [task EXCEPT ![pending[p][i]] =
                          [task[pending[p][i]] EXCEPT !.pc = "got",
                                                      !.cart = redisCart]]
           /\ redisCart' = redisCart
        \/ /\ task[pending[p][i]].pc = "set"
           /\ redisCart' = task[pending[p][i]].cart
           /\ task' = [u \in Request |->
                IF u = pending[p][i] THEN [task[u] EXCEPT !.pc = "saved"]
                ELSE IF task[u].pc \in HasRead
                       THEN [task[u] EXCEPT !.disturbed = TRUE] ELSE task[u]]
  <2>1. CASE ServerGet(p)
    <3>1. PICK i \in 1..Len(pending[p]) :
            /\ task[pending[p][i]].pc = "get"
            /\ task' = [task EXCEPT ![pending[p][i]].pc = "got",
                                    ![pending[p][i]].cart = redisCart]
      BY <2>1 DEF ServerGet
    <3>2. pending[p][i] \in Request BY ElementOfSeq DEF IInv, TypeOK
    <3>3. task' = [task EXCEPT ![pending[p][i]] =
                     [task[pending[p][i]] EXCEPT !.pc = "got",
                                                 !.cart = redisCart]]
      BY <3>1, <3>2 DEF IInv, TypeOK
    <3>4. redisCart' = redisCart BY <2>1 DEF ServerGet
    <3> QED BY <3>1, <3>3, <3>4
  <2>2. CASE ServerSet(p)
    <3>1. PICK i \in 1..Len(pending[p]) :
            /\ task[pending[p][i]].pc = "set"
            /\ redisCart' = task[pending[p][i]].cart
            /\ task' = [u \in Request |->
                 IF u = pending[p][i]
                   THEN [task[pending[p][i]] EXCEPT !.pc = "saved"]
                 ELSE IF task[u].pc \in HasRead
                        THEN [task[u] EXCEPT !.disturbed = TRUE] ELSE task[u]]
      BY <2>2 DEF ServerSet
    <3>2. [u \in Request |->
             IF u = pending[p][i]
               THEN [task[pending[p][i]] EXCEPT !.pc = "saved"]
             ELSE IF task[u].pc \in HasRead
                    THEN [task[u] EXCEPT !.disturbed = TRUE] ELSE task[u]]
          = [u \in Request |->
               IF u = pending[p][i] THEN [task[u] EXCEPT !.pc = "saved"]
               ELSE IF task[u].pc \in HasRead
                      THEN [task[u] EXCEPT !.disturbed = TRUE] ELSE task[u]]
      OBVIOUS
    <3> QED BY <3>1, <3>2
  <2> QED BY <2>1, <2>2
<1> DEFINE r == pending[p][i]
<1>2. r \in Request /\ r \in Queued(p)
  BY ElementOfSeq DEF IInv, TypeOK, Queued
<1>3. UNCHANGED <<redisUp, socket, pod, redisReady, memoryCart, pending, faults>>
  BY DEF ServerGet, ServerSet
<1>4. task \in [Request -> TaskState] /\ redisCart \in Cart
  BY DEF IInv, TypeOK
<1> HIDE DEF r
<1>6. CASE /\ task[r].pc = "get" /\ redisCart' = redisCart
           /\ task' = [task EXCEPT ![r] = [task[r] EXCEPT !.pc = "got",
                                                         !.cart = redisCart]]
  <2>1. /\ task' \in [Request -> TaskState]
        /\ task'[r].pc = "got" /\ task'[r].cart = redisCart
        /\ \A u \in Request \ {r} : task'[u] = task[u]
    <3>1. [task[r] EXCEPT !.pc = "got", !.cart = redisCart] \in TaskState
      BY <1>2, <1>4, ExecutedIsTyped DEF Executed
    <3>2. task[r] \in TaskState BY <1>2, <1>4
    <3> QED BY <1>2, <1>4, <1>6, <3>1, <3>2 DEF TaskState
  <2>2. \A u \in Request : Awaiting(u)' = Awaiting(u)
    BY <1>2, <1>6, <2>1 DEF Awaiting, Sent, Executed
  <2>3. TypeOK' BY <1>3, <1>4, <1>6, <2>1 DEF IInv, TypeOK
  <2>4. Connected' BY <1>3 DEF IInv, Connected
  <2>5. QueuesApart' BY <1>3, <2>2, SameQueues DEF IInv
  <2>6. UndisturbedCopiesAreCurrent'
    BY <1>6, <2>1 DEF IInv, UndisturbedCopiesAreCurrent
  <2> QED BY <2>3, <2>4, <2>5, <2>6 DEF IInv
<1>7. CASE /\ task[r].pc = "set" /\ redisCart' = task[r].cart
           /\ task' = [u \in Request |->
                IF u = r THEN [task[u] EXCEPT !.pc = "saved"]
                ELSE IF task[u].pc \in HasRead
                       THEN [task[u] EXCEPT !.disturbed = TRUE] ELSE task[u]]
  <2>1. ASSUME NEW u \in Request
        PROVE  /\ task'[u] \in TaskState
               /\ task'[u].pc = IF u = r THEN "saved" ELSE task[u].pc
               /\ u # r /\ task[u].pc \in HasRead => task'[u].disturbed
    <3>1. task[u] \in TaskState BY <1>4
    <3>2. CASE u = r
      <4>1. task'[u] = [task[u] EXCEPT !.pc = "saved"] BY <1>7, <3>2
      <4>2. task'[u] \in TaskState
        <5>1. "saved" \in Sent \cup Executed BY DEF Executed
        <5>2. [task[u] EXCEPT !.pc = "saved"] \in TaskState
          BY <1>4, <3>1, <5>1, ExecutedIsTyped
        <5> QED BY <4>1, <5>2
      <4> QED BY <3>1, <3>2, <4>1, <4>2 DEF TaskState
    <3>3. CASE u # r /\ task[u].pc \in HasRead
      <4>1. task'[u] = [task[u] EXCEPT !.disturbed = TRUE] BY <1>7, <3>3
      <4>2. task'[u] \in TaskState
        BY <1>4, <3>1, <4>1, DisturbedIsTyped
      <4> QED BY <3>1, <3>3, <4>1, <4>2 DEF TaskState
    <3>4. CASE u # r /\ task[u].pc \notin HasRead
      <4>1. task'[u] = task[u] BY <1>7, <3>4
      <4> QED BY <3>1, <3>4, <4>1
    <3> QED BY <3>2, <3>3, <3>4
  <2>2. task' \in [Request -> TaskState] BY <1>7, <2>1
  <2>3. redisCart' \in Cart BY <1>2, <1>4, <1>7 DEF TaskState
  <2>4. \A u \in Request : Awaiting(u)' = Awaiting(u)
    BY <1>7, <2>1 DEF Awaiting, Sent, Executed
  <2>5. TypeOK' BY <1>3, <2>2, <2>3 DEF IInv, TypeOK
  <2>6. Connected' BY <1>3 DEF IInv, Connected
  <2>7. QueuesApart' BY <1>3, <2>4, SameQueues DEF IInv
  <2>8. UndisturbedCopiesAreCurrent'
    BY <2>1 DEF UndisturbedCopiesAreCurrent, HasRead
  <2> QED BY <2>5, <2>6, <2>7, <2>8 DEF IInv
<1> QED BY <1>1, <1>6, <1>7 DEF r

-----------------------------------------------------------------------------
(* Connections and processes.                                              *)

\* The processes of "dead" end: with the rest of the invariant this keeps their
\* requests and queues in step.
\* Processes that end take their queues and those who wait in them along.
LEMMA DropKeepsQueues ==
    ASSUME TypeOK, QueuesApart, NEW dead \in SUBSET Pod,
           pending' = [p \in Pod |-> IF p \in dead THEN <<>> ELSE pending[p]],
           task' = Dropped(dead)
    PROVE  /\ pending' \in [Pod -> Seq(Request)]
           /\ task' \in [Request -> TaskState]
           /\ QueuesApart'
           /\ \A r \in Request : Awaiting(r)' =>
                 /\ task'[r] = task[r]
                 /\ \E p \in Pod \ dead : r \in Queued(p)
<1>1. /\ pending \in [Pod -> Seq(Request)] /\ task \in [Request -> TaskState]
      /\ <<>> \in Seq(Request)
  BY DEF TypeOK
<1>2. pending' \in [Pod -> Seq(Request)] BY <1>1
<1>3. ASSUME NEW r \in Request
      PROVE  /\ task'[r] \in TaskState
             /\ (\E p \in dead : r \in Queued(p)) => task'[r].pc = "done"
             /\ ~ (\E p \in dead : r \in Queued(p)) => task'[r] = task[r]
  <2>1. /\ Ended(task[r].op, "dropped", Empty) \in TaskState
        /\ Ended(task[r].op, "dropped", Empty).pc = "done"
    <3>1. task[r].op \in Operation \cup {[kind |-> "none"]}
      BY <1>1 DEF TaskState
    <3> QED BY <3>1, EmptyIsCart, EndedIsTyped
  <2>2. task'[r] = IF \E p \in dead : r \in Queued(p)
                     THEN Ended(task[r].op, "dropped", Empty) ELSE task[r]
    BY DEF Dropped
  <2> HIDE DEF Ended
  <2> QED BY <1>1, <2>1, <2>2
<1>4. task' \in [Request -> TaskState]
  <2>1. task' = [r \in Request |-> task'[r]] BY DEF Dropped
  <2> QED BY <1>3, <2>1
<1>5. /\ \A p \in dead : Queued(p)' = {}
      /\ \A p \in Pod \ dead : Queued(p)' = Queued(p)
  <2>1. \A p \in dead : pending'[p] = <<>> OBVIOUS
  <2>2. \A p \in Pod \ dead : pending'[p] = pending[p] OBVIOUS
  <2> QED BY <2>1, <2>2 DEF Queued
<1>6. ASSUME NEW r \in Request, Awaiting(r)'
      PROVE  task'[r] = task[r] /\ \E p \in Pod \ dead : r \in Queued(p)
  <2>1. task'[r] = task[r] /\ ~ \E p \in dead : r \in Queued(p)
    BY <1>3, <1>6 DEF Awaiting, Sent, Executed
  <2>2. Awaiting(r) BY <1>6, <2>1 DEF Awaiting
  <2> QED BY <2>1, <2>2 DEF QueuesApart
<1>7. ASSUME NEW p \in Pod
      PROVE  /\ Once(pending'[p])
             /\ \A r \in Queued(p)' : Awaiting(r)'
             /\ \A q \in Pod \ {p} : Queued(p)' \cap Queued(q)' = {}
  <2>1. Once(pending'[p]) BY NoElements DEF QueuesApart
  <2>2. ASSUME NEW r \in Queued(p)' PROVE Awaiting(r)'
    <3>1. p \notin dead /\ r \in Queued(p) BY <1>5
    <3>2. r \in Request /\ ~ \E q \in dead : r \in Queued(q)
      BY <3>1, QueuedRequests DEF QueuesApart
    <3>3. task'[r] = task[r] BY <1>3, <3>2
    <3> QED BY <3>1, <3>3 DEF QueuesApart, Awaiting
  <2>3. \A q \in Pod \ {p} : Queued(p)' \cap Queued(q)' = {}
    BY <1>5 DEF QueuesApart
  <2> QED BY <2>1, <2>2, <2>3
<1>8. ASSUME NEW r \in Request, Awaiting(r)'
      PROVE  \E p \in Pod : r \in Queued(p)'
  BY <1>5, <1>6, <1>8
<1> QED BY <1>2, <1>4, <1>6, <1>7, <1>8 DEF QueuesApart

\* A lost connection ends the pods that awaited Redis, and only those.
LEMMA DisconnectKeepsIInv ==
    ASSUME IInv, NEW lost \in SUBSET Pod, Disconnect(lost),
           redisUp' \in BOOLEAN, faults' \in 0..MaxFaults, redisCart' \in Cart,
           redisCart' = redisCart \/ lost = {p \in Pod : socket[p]}
    PROVE  IInv'
<1> DEFINE dead == {p \in lost : pending[p] # <<>>}
<1>1. dead \in SUBSET Pod OBVIOUS
<1>2. /\ pending' = [p \in Pod |-> IF p \in dead THEN <<>> ELSE pending[p]]
      /\ task' = Dropped(dead)
  BY DEF Disconnect
<1>3. /\ socket' = [p \in Pod |-> socket[p] /\ p \notin lost]
      /\ redisReady' = [p \in Pod |-> redisReady[p] /\ p \notin lost]
      /\ pod' = [p \in Pod |-> IF p \in dead THEN "connecting" ELSE pod[p]]
      /\ memoryCart' = [p \in Pod |-> IF p \in dead THEN Empty
                                                    ELSE memoryCart[p]]
  BY DEF Disconnect
<1>4. dead \subseteq lost /\ \A p \in lost \ dead : pending[p] = <<>> OBVIOUS
<1> HIDE DEF dead
<1>5. /\ pending' \in [Pod -> Seq(Request)]
      /\ task' \in [Request -> TaskState] /\ QueuesApart'
      /\ \A r \in Request : Awaiting(r)' =>
            /\ task'[r] = task[r]
            /\ \E p \in Pod \ dead : r \in Queued(p)
  BY <1>1, <1>2, DropKeepsQueues DEF IInv
<1>6. TypeOK'
  <2>1. socket' \in [Pod -> BOOLEAN] /\ redisReady' \in [Pod -> BOOLEAN]
    BY <1>3
  <2>2. pod' \in [Pod -> {"connecting", "serving"}]
    BY <1>3 DEF IInv, TypeOK
  <2>3. memoryCart' \in [Pod -> Cart] BY <1>3, EmptyIsCart DEF IInv, TypeOK
  <2> QED BY <1>5, <2>1, <2>2, <2>3 DEF TypeOK
<1>7. Connected'
  <2> SUFFICES ASSUME NEW p \in Pod
               PROVE  /\ redisReady'[p] => socket'[p] /\ pod'[p] = "serving"
                      /\ pending'[p] # <<>> => redisReady'[p]
    BY DEF Connected
  <2>1. pending'[p] # <<>> => pending[p] # <<>> /\ p \notin lost
    BY <1>2, <1>4
  <2> QED BY <1>3, <1>4, <2>1 DEF IInv, Connected
<1>8. UndisturbedCopiesAreCurrent'
  <2>1. CASE redisCart' = redisCart
    BY <1>5, <2>1
       DEF IInv, UndisturbedCopiesAreCurrent, Awaiting, Sent, Executed
  <2>2. CASE lost = {p \in Pod : socket[p]}
    <3>1. \A r \in Request : ~Awaiting(r)'
      <4> SUFFICES ASSUME NEW r \in Request, Awaiting(r)' PROVE FALSE OBVIOUS
      <4>1. PICK p \in Pod \ dead : r \in Queued(p) BY <1>5
      <4>2. pending[p] # <<>> BY <4>1 DEF Queued
      <4>3. socket[p] BY <4>2 DEF IInv, Connected
      <4> QED BY <1>4, <2>2, <4>1, <4>2, <4>3
    <3> QED BY <3>1
            DEF UndisturbedCopiesAreCurrent, Awaiting, Sent, Executed
  <2> QED BY <2>1, <2>2
<1> QED BY <1>5, <1>6, <1>7, <1>8 DEF IInv

\* One fault more is one of those there may be.
LEMMA FaultsStayBounded ==
    ASSUME faults \in 0..MaxFaults, NEW fault, Happens(fault)
    PROVE  faults' \in 0..MaxFaults
BY BoundAssumption DEF Happens

\* Faults: Redis stops, a connection is lost, a process ends.
LEMMA FaultKeepsIInv ==
    ASSUME IInv,
           RedisStops \/ \E p \in Pod : LoseConnection(p) \/ Crash(p)
    PROVE  IInv'
<1>1. faults' \in 0..MaxFaults
  BY FaultsStayBounded DEF RedisStops, LoseConnection, Crash, IInv, TypeOK
<1>2. CASE RedisStops
  <2> DEFINE lost == {p \in Pod : socket[p]}
  <2>1. /\ Disconnect(lost) /\ redisUp' = FALSE /\ redisCart' = Empty
        /\ lost \in SUBSET Pod
    BY <1>2 DEF RedisStops
  <2> QED BY <1>1, <2>1, EmptyIsCart, DisconnectKeepsIInv
<1>3. ASSUME NEW p \in Pod, LoseConnection(p) PROVE IInv'
  <2>1. /\ Disconnect({p}) /\ redisUp' = redisUp /\ redisCart' = redisCart
        /\ {p} \in SUBSET Pod
    BY <1>3 DEF LoseConnection
  <2>2. redisUp' \in BOOLEAN /\ redisCart' \in Cart BY <2>1 DEF IInv, TypeOK
  <2> QED BY <1>1, <2>1, <2>2, DisconnectKeepsIInv
<1>4. ASSUME NEW p \in Pod, Crash(p) PROVE IInv'
  <2> DEFINE dead == {p}
  <2>1. /\ pending' = [q \in Pod |-> IF q \in dead THEN <<>> ELSE pending[q]]
        /\ task' = Dropped(dead) /\ dead \in SUBSET Pod
    <3>1. pending' = [pending EXCEPT ![p] = <<>>] /\ task' = Dropped({p})
      BY <1>4 DEF Crash
    <3> QED BY <3>1 DEF IInv, TypeOK
  <2>2. /\ redisUp' = redisUp /\ redisCart' = redisCart
        /\ socket' = [socket EXCEPT ![p] = FALSE]
        /\ redisReady' = [redisReady EXCEPT ![p] = FALSE]
        /\ pod' = [pod EXCEPT ![p] = "connecting"]
        /\ memoryCart' = [memoryCart EXCEPT ![p] = Empty]
    BY <1>4 DEF Crash
  <2> HIDE DEF dead
  <2>3. /\ pending' \in [Pod -> Seq(Request)]
        /\ task' \in [Request -> TaskState] /\ QueuesApart'
        /\ \A r \in Request : Awaiting(r)' => task'[r] = task[r]
    BY <2>1, DropKeepsQueues DEF IInv
  <2>4. TypeOK' BY <1>1, <2>2, <2>3, EmptyIsCart DEF IInv, TypeOK
  <2>5. Connected' BY <2>1, <2>2 DEF IInv, TypeOK, Connected, dead
  <2>6. UndisturbedCopiesAreCurrent'
    BY <2>2, <2>3
       DEF IInv, UndisturbedCopiesAreCurrent, Awaiting, Sent, Executed
  <2> QED BY <2>3, <2>4, <2>5, <2>6 DEF IInv
<1> QED BY <1>2, <1>3, <1>4

\* Connecting, reconnecting and a Redis that starts touch no request.
LEMMA AsideKeepsIInv ==
    ASSUME IInv,
           \/ UNCHANGED vars \/ RedisStarts
           \/ \E p \in Pod : Connect(p) \/ Reconnect(p)
    PROVE  IInv'
<1>1. /\ UNCHANGED <<redisCart, memoryCart, pending, task, faults>>
      /\ redisUp' \in BOOLEAN
  BY DEF vars, RedisStarts, Connect, Reconnect, IInv, TypeOK
<1>2. /\ socket' \in [Pod -> BOOLEAN] /\ redisReady' \in [Pod -> BOOLEAN]
      /\ pod' \in [Pod -> {"connecting", "serving"}]
  BY DEF vars, RedisStarts, Connect, Reconnect, IInv, TypeOK
<1>3. TypeOK' BY <1>1, <1>2 DEF IInv, TypeOK
<1>4. Connected'
  BY <1>1 DEF vars, RedisStarts, Connect, Reconnect, IInv, TypeOK, Connected
<1>5. QueuesApart' BY <1>1, SameQueues DEF IInv, Awaiting
<1>6. UndisturbedCopiesAreCurrent' BY <1>1 DEF IInv, UndisturbedCopiesAreCurrent
<1> QED BY <1>3, <1>4, <1>5, <1>6 DEF IInv

-----------------------------------------------------------------------------

\* The initial states satisfy the invariant.
LEMMA Initially == Init => IInv
<1> SUFFICES ASSUME Init PROVE IInv OBVIOUS
<1>1. TypeOK
  <2>1. <<>> \in Seq(Request) OBVIOUS
  <2> QED BY <2>1, IdleIsTyped, EmptyIsCart, AtFirstAssumption, BoundAssumption
          DEF Init, TypeOK
<1>2. Connected BY DEF Init, Connected
<1>3. \A r \in Request : task[r].pc = "idle" BY IdleIsTyped DEF Init
<1>4. \A p \in Pod : Queued(p) = {} /\ Once(pending[p])
  BY NoElements DEF Init, Queued
<1>5. QueuesApart
  BY <1>3, <1>4 DEF QueuesApart, Awaiting, Sent, Executed
<1>6. UndisturbedCopiesAreCurrent BY <1>3 DEF UndisturbedCopiesAreCurrent
<1> QED BY <1>1, <1>2, <1>5, <1>6 DEF IInv

\* Every step preserves it.
LEMMA NextKeepsIInv == IInv /\ [Next]_vars => IInv'
BY SendKeepsIInv, MemoryKeepsIInv, ReplyKeepsIInv, RedisKeepsIInv,
   FaultKeepsIInv, AsideKeepsIInv DEF Next, Service, Redis

\* So it holds of every reachable state.
LEMMA Invariance == Spec => []IInv
BY Initially, NextKeepsIInv, PTL DEF Spec

\* Every reachable state of the cart service is well typed.
THEOREM TypeCorrect == Spec => []TypeOK
BY Invariance, PTL DEF IInv

\* A handler that no other save has disturbed holds the cart of this moment and
\* saves the effect of its request on it, for any number of pods and requests
\* and across every lost connection, crash and restart of Redis.
THEOREM UndisturbedAreExact == Spec => []UndisturbedCopiesAreCurrent
BY Invariance, PTL DEF IInv

\* A request awaits Redis once, at one pod, which serves and is connected.
THEOREM NoReplyToTheDead == Spec => []AwaitedAtLivePods
<1>1. IInv => AwaitedAtLivePods
  BY DEF IInv, Connected, QueuesApart, Awaiting, AwaitedAtLivePods
<1> QED BY <1>1, Invariance, PTL

-----------------------------------------------------------------------------
(* Every step is one of the atomic cart, or one that it does not know of.   *)

\* How far a request is for the atomic cart.
Out(s) ==
    IF s.pc = "saved" THEN [state |-> "applied", op |-> s.op, shown |-> s.cart]
    ELSE IF s.answer = "none" THEN [state |-> "waiting"]
    ELSE [state |-> s.answer, op |-> s.op, shown |-> s.cart]

OutSame(r) == Out(task'[r]) = Out(task[r])
Outs == [r \in Request |-> Out(task[r])]

Covered ==
    \/ Atomic!AtomicNext \/ UNCHANGED Atomic!cartVars
    \/ Overlapped \/ FromMemory \/ DataLost

\* What is known of a handler by where it is: it has no answer before it ends,
\* only one that has started is for an operation of the user, and a clear, which
\* does not read, saves the empty cart.
Asks(s) ==
    /\ s.pc # "done" => s.answer = "none"
    /\ s.pc # "idle" => s.op \in Operation
    /\ s.pc \in {"get", "got"} => s.op.kind # "clear"
    /\ s.pc = "set" /\ s.op.kind = "clear" => s.cart = Empty

AllAsk == \A r \in Request : Asks(task[r])

\* Nothing happens to the atomic cart.
LEMMA Stutters ==
    ASSUME redisCart' = redisCart, \A r \in Request : OutSame(r)
    PROVE  Covered
BY DEF Covered, Out, OutSame, Atomic!cartVars

\* A request takes effect.
LEMMA Serves ==
    ASSUME NEW r \in Request, NEW op \in Operation, NEW state \in {"ok", "applied"},
           Out(task[r]) = [state |-> "waiting"], Allows(op, redisCart),
           redisCart' = Effect(op, redisCart),
           Out(task'[r]) = [state |-> state, op |-> op, shown |-> redisCart'],
           \A u \in Request \ {r} : OutSame(u)
    PROVE  Covered
<1>1. /\ Outs[r] = [state |-> "waiting"]
      /\ Outs' = [Outs EXCEPT ![r] =
                    [state |-> state, op |-> op, shown |-> redisCart']]
  BY DEF Outs, OutSame
<1>2. /\ Atomic!Effect(op, redisCart) = Effect(op, redisCart)
      /\ Atomic!Allows(op, redisCart)
  BY DEF Allows, Effect, Empty, Atomic!Allows, Atomic!Effect, Atomic!Empty
<1>3. Atomic!Serve(r, op)
  BY <1>1, <1>2 DEF Outs, Out, Atomic!Serve, Atomic!Waiting, Atomic!Reached
<1> QED BY <1>3 DEF Covered, Atomic!AtomicNext

\* A request is refused.
LEMMA Refuses ==
    ASSUME NEW r \in Request, NEW op \in Operation,
           Out(task[r]) = [state |-> "waiting"], ~Allows(op, redisCart),
           redisCart' = redisCart,
           Out(task'[r]) = [state |-> "refused", op |-> op, shown |-> Empty],
           \A u \in Request \ {r} : OutSame(u)
    PROVE  Covered
<1>1. Atomic!Refuse(r, op)
  BY DEF Out, OutSame, Allows, Empty, Atomic!Refuse, Atomic!Waiting,
         Atomic!Reached, Atomic!Allows, Atomic!Empty
<1> QED BY <1>1 DEF Covered, Atomic!AtomicNext

\* A request that took effect is answered.
LEMMA Confirms ==
    ASSUME NEW r \in Request, NEW op, NEW shown,
           Out(task[r]) = [state |-> "applied", op |-> op, shown |-> shown],
           redisCart' = redisCart,
           Out(task'[r]) = [state |-> "ok", op |-> op, shown |-> shown],
           \A u \in Request \ {r} : OutSame(u)
    PROVE  Covered
<1>1. Atomic!Confirm(r) BY DEF Out, OutSame, Atomic!Confirm
<1> QED BY <1>1 DEF Covered, Atomic!AtomicNext

\* Requests end without an answer.
LEMMA Loses ==
    ASSUME NEW gone \in SUBSET Request, redisCart' = redisCart,
           \A r \in gone : /\ task[r].op \in Operation
                           /\ \/ Out(task[r]) = [state |-> "waiting"]
                              \/ \E shown : Out(task[r]) =
                                   [state |-> "applied", op |-> task[r].op,
                                    shown |-> shown]
                           /\ Out(task'[r]) =
                                [state |-> "dropped", op |-> task[r].op,
                                 shown |-> Empty],
           \A u \in Request \ gone : OutSame(u)
    PROVE  Covered
<1> DEFINE ops == [r \in gone |-> task[r].op]
<1>1. ops \in [gone -> Operation] OBVIOUS
<1>2. \A r \in gone : ops[r] = task[r].op OBVIOUS
<1> HIDE DEF ops
<1>3. Atomic!Empty = Empty BY DEF Empty, Atomic!Empty
<1>4. Outs' = [r \in Request |->
                 IF r \in gone
                   THEN [state |-> "dropped", op |-> ops[r], shown |-> Empty]
                   ELSE Outs[r]]
  BY <1>2 DEF Outs, OutSame
<1>5. ASSUME NEW r \in gone
      PROVE  /\ Outs[r].state \in {"waiting", "applied"}
             /\ Outs[r] # [state |-> "waiting"] => ops[r] = Outs[r].op
  <2>1. CASE Outs[r] = [state |-> "waiting"] BY <2>1
  <2>2. CASE Outs[r] # [state |-> "waiting"]
    <3>1. PICK shown :
            Outs[r] = [state |-> "applied", op |-> task[r].op, shown |-> shown]
      BY <2>2 DEF Outs
    <3> QED BY <1>2, <3>1
  <2> QED BY <2>1, <2>2
<1>6. \E a \in [gone -> Operation] :
        /\ \A r \in gone : Outs[r] # [state |-> "waiting"] => a[r] = Outs[r].op
        /\ Outs' = [r \in Request |->
                      IF r \in gone
                        THEN [state |-> "dropped", op |-> a[r], shown |-> Empty]
                        ELSE Outs[r]]
  BY <1>1, <1>4, <1>5
<1>7. /\ \A r \in gone : Outs[r].state \in {"waiting", "applied"}
      /\ \E asked \in [gone -> Operation] :
           /\ \A r \in gone :
                Outs[r] # [state |-> "waiting"] => asked[r] = Outs[r].op
           /\ Outs' = [r \in Request |->
                         IF r \in gone
                           THEN [state |-> "dropped", op |-> asked[r],
                                 shown |-> Atomic!Empty]
                           ELSE Outs[r]]
      /\ redisCart' = redisCart
  <2> HIDE DEF Outs
  <2> QED BY <1>3, <1>5, <1>6
<1>8. Atomic!Lose(gone)
  BY <1>7 DEF Outs, Out, Atomic!Lose, Atomic!Waiting, Atomic!Reached
<1> QED BY <1>8 DEF Covered, Atomic!AtomicNext

\* A request that has started or awaits Redis waits for its effect.
LEMMA AskedWaits ==
    ASSUME NEW s, Asks(s), s.pc \in {"idle", "get", "got", "set"}
    PROVE  Out(s) = [state |-> "waiting"]
BY DEF Asks, Out

\* What the end of a handler is for the atomic cart.
LEMMA EndedIsOut ==
    ASSUME NEW op \in Operation, NEW shown \in Cart,
           NEW answer \in {"ok", "refused", "dropped"}
    PROVE  /\ Out(Ended(op, answer, shown)) =
                [state |-> answer, op |-> op, shown |-> shown]
           /\ Asks(Ended(op, answer, shown))
<1> DEFINE s == Ended(op, answer, shown)
<1>1. s.pc = "done" /\ s.op = op /\ s.cart = shown /\ s.answer = answer
  BY EndedIsTyped
<1> HIDE DEF s
<1>2. Out(s) = [state |-> answer, op |-> op, shown |-> shown] /\ Asks(s)
  BY <1>1 DEF Out, Asks
<1> QED BY <1>2 DEF s

\* One handler moves.
LEMMA OneMoves ==
    ASSUME TypeOK, AllAsk, NEW r \in Request, NEW s, Asks(s),
           task' = [task EXCEPT ![r] = s]
    PROVE  task'[r] = s /\ AllAsk' /\ \A u \in Request \ {r} : OutSame(u)
BY DEF TypeOK, AllAsk, OutSame

\* A request is sent to Redis, or served from memory.
LEMMA SendIsCovered ==
    ASSUME IInv, AllAsk, NEW r \in Request, NEW p \in Pod, NEW op \in Operation,
           SendGet(r, p, op) \/ SendClear(r, p, op) \/ ServeFromMemory(r, p, op)
    PROVE  AllAsk' /\ Covered
<1>1. CASE SendGet(r, p, op) \/ SendClear(r, p, op)
  <2>1. PICK pc \in {"get", "set"} :
          /\ task' = [task EXCEPT ![r] = [Idle EXCEPT !.pc = pc, !.op = op]]
          /\ pc = "get" => op.kind # "clear"
    BY <1>1 DEF SendGet, SendClear, Await
  <2> DEFINE s == [Idle EXCEPT !.pc = pc, !.op = op]
  <2>2. s.pc = pc /\ s.op = op /\ s.cart = Empty /\ s.answer = "none"
    <3>1. Idle.cart = Empty /\ Idle.answer = "none" BY DEF Idle
    <3> QED BY <3>1, IdleIsTyped DEF TaskState
  <2>3. task' = [task EXCEPT ![r] = s] BY <2>1
  <2> HIDE DEF s
  <2>4. Asks(s) BY <2>1, <2>2 DEF Asks
  <2>5. task[r].pc = "idle" /\ redisCart' = redisCart
    BY <1>1 DEF SendGet, SendClear
  <2>6. task'[r] = s /\ AllAsk' /\ \A u \in Request \ {r} : OutSame(u)
    BY <2>3, <2>4, OneMoves DEF IInv
  <2>7. OutSame(r)
    <3>1. Out(task[r]) = [state |-> "waiting"] BY <2>5, AskedWaits DEF AllAsk
    <3>2. Out(s) = [state |-> "waiting"] BY <2>2, <2>4, AskedWaits
    <3> QED BY <2>6, <3>1, <3>2 DEF OutSame
  <2> QED BY <2>5, <2>6, <2>7, Stutters
<1>2. CASE ServeFromMemory(r, p, op)
  <2>1. \E answer \in {"ok", "refused"}, shown \in Cart :
          task' = [task EXCEPT ![r] = Ended(op, answer, shown)]
    <3>1. Effect(op, memoryCart[p]) \in Cart BY EffectIsCart DEF IInv, TypeOK
    <3>2. memoryCart' = [memoryCart EXCEPT ![p] = Effect(op, memoryCart[p])]
            => memoryCart'[p] \in Cart
      BY <3>1 DEF IInv, TypeOK
    <3> QED BY <1>2, <3>2, EmptyIsCart DEF ServeFromMemory, Finish
  <2>2. PICK answer \in {"ok", "refused"}, shown \in Cart :
          task' = [task EXCEPT ![r] = Ended(op, answer, shown)]
    BY <2>1
  <2> DEFINE s == Ended(op, answer, shown)
  <2>3. s.pc = "done" /\ Asks(s) BY EndedIsTyped, EndedIsOut
  <2>4. task' = [task EXCEPT ![r] = s] BY <2>2
  <2> HIDE DEF s
  <2>5. task'[r] = s /\ AllAsk' BY <2>3, <2>4, OneMoves DEF IInv
  <2>6. FromMemory BY <1>2, <2>3, <2>5 DEF FromMemory, ServeFromMemory
  <2> QED BY <2>5, <2>6 DEF Covered
<1> QED BY <1>1, <1>2

\* A reply reaches its handler.
LEMMA ReplyIsCovered ==
    ASSUME IInv, AllAsk, NEW p \in Pod, ReceiveCart(p) \/ AnswerSaved(p)
    PROVE  AllAsk' /\ Covered
<1> DEFINE r == Head(pending[p])
           s == task[r]
           queue == Tail(pending[p])
<1>1. pending[p] # <<>> /\ redisCart' = redisCart
  BY DEF ReceiveCart, AnswerSaved, Reply
<1>2. r \in Request BY <1>1, HeadTakesTurn
<1>3. /\ s \in TaskState /\ s.cart \in Cart /\ Asks(s)
  BY <1>2 DEF IInv, TypeOK, TaskState, AllAsk
<1>4. CASE AnswerSaved(p)
  <2>1. /\ s.pc = "saved" /\ s.op \in Operation
        /\ task' = [task EXCEPT ![r] = Ended(s.op, "ok", s.cart)]
    BY <1>3, <1>4 DEF AnswerSaved, Reply, Finish, Asks
  <2>2. Out(s) = [state |-> "applied", op |-> s.op, shown |-> s.cart]
    BY <2>1 DEF Out
  <2> HIDE DEF r, s
  <2>3. /\ task'[r] = Ended(s.op, "ok", s.cart)
        /\ AllAsk' /\ \A u \in Request \ {r} : OutSame(u)
    BY ZenonT(30), <1>2, <1>3, <2>1, EndedIsOut, OneMoves DEF IInv
  <2>4. Out(task'[r]) = [state |-> "ok", op |-> s.op, shown |-> s.cart]
    BY <1>3, <2>1, <2>3, EndedIsOut
  <2>5. Out(task[r]) = [state |-> "applied", op |-> s.op, shown |-> s.cart]
    BY <2>2 DEF s
  <2> QED BY <1>1, <1>2, <2>3, <2>4, <2>5, Confirms
<1>5. CASE ReceiveCart(p)
  <2>1. s.pc = "got" /\ s.op \in Operation /\ s.op.kind # "clear"
    BY <1>3, <1>5 DEF ReceiveCart, Reply, Asks
  <2>2. Out(s) = [state |-> "waiting"] BY <1>3, <2>1, AskedWaits
  <2>3. ~s.disturbed => s.cart = redisCart
    BY <1>2, <2>1 DEF IInv, UndisturbedCopiesAreCurrent
  <2>4. ASSUME s.disturbed, task'[r] # task[r] PROVE Covered
    BY <1>2, <2>1, <2>4 DEF Covered, Overlapped, HasRead
  <2>5. ASSUME NEW answer \in {"ok", "refused"}, NEW shown \in Cart,
               task' = [task EXCEPT ![r] = Ended(s.op, answer, shown)]
        PROVE  /\ AllAsk' /\ \A u \in Request \ {r} : OutSame(u)
               /\ Out(task'[r]) =
                    [state |-> answer, op |-> s.op, shown |-> shown]
               /\ task'[r] # task[r]
    <3>1. /\ task'[r] = Ended(s.op, answer, shown)
          /\ AllAsk' /\ \A u \in Request \ {r} : OutSame(u)
      BY <1>2, <2>1, <2>5, EndedIsOut, OneMoves DEF IInv
    <3>2. task'[r].pc = "done" BY <2>1, <3>1, EndedIsTyped
    <3> QED BY <2>1, <3>1, <3>2, EndedIsOut
  <2>6. CASE s.op.kind = "read"
    <3>1. task' = [task EXCEPT ![r] = Ended(s.op, "ok", s.cart)]
      <4>1. Finish(r, p, queue, s.op, "ok", s.cart)
        BY <1>5, <2>6 DEF ReceiveCart, Allows
      <4> QED BY <4>1 DEF Finish
    <3>2. CASE ~s.disturbed
      <4>1. Effect(s.op, redisCart) = redisCart /\ Allows(s.op, redisCart)
        BY <2>6 DEF Effect, Allows
      <4>2. Out(task'[r]) = [state |-> "ok", op |-> s.op, shown |-> redisCart']
        BY <1>1, <1>3, <2>3, <2>5, <3>1, <3>2
      <4> HIDE DEF r, s
      <4>3. Out(task[r]) = [state |-> "waiting"] BY <2>2 DEF s
      <4> QED BY <1>1, <1>2, <1>3, <2>1, <2>5, <3>1, <4>1, <4>2, <4>3, Serves
    <3>3. CASE s.disturbed BY <1>3, <2>4, <2>5, <3>1, <3>3
    <3> QED BY <3>2, <3>3
  <2>7. CASE s.op.kind # "read" /\ ~Allows(s.op, s.cart)
    <3>1. task' = [task EXCEPT ![r] = Ended(s.op, "refused", Empty)]
      BY <1>5, <2>7 DEF ReceiveCart, Finish
    <3>2. CASE ~s.disturbed
      <4>1. ~Allows(s.op, redisCart) BY <2>3, <2>7, <3>2
      <4> HIDE DEF r, s
      <4>2. Out(task[r]) = [state |-> "waiting"] BY <2>2 DEF s
      <4> QED
        BY <1>1, <1>2, <2>1, <2>5, <3>1, <4>1, <4>2, EmptyIsCart, Refuses
    <3>3. CASE s.disturbed BY <2>4, <2>5, <3>1, <3>3, EmptyIsCart
    <3> QED BY <3>2, <3>3
  <2>8. CASE s.op.kind # "read" /\ Allows(s.op, s.cart)
    <3> DEFINE n == [s EXCEPT !.pc = "set", !.cart = Effect(s.op, s.cart)]
    <3>1. task' = [task EXCEPT ![r] = n]
      BY <1>5, <2>8 DEF ReceiveCart, Await
    <3>2. n.pc = "set" /\ n.op = s.op /\ n.answer = s.answer
      <4> HIDE DEF s
      <4> QED BY <1>3 DEF TaskState
    <3> HIDE DEF n, s, r
    <3>3. Asks(n) BY <1>3, <2>1, <3>2 DEF Asks
    <3>4. task'[r] = n /\ AllAsk' /\ \A u \in Request \ {r} : OutSame(u)
      BY <1>2, <3>1, <3>3, OneMoves DEF IInv
    <3>5. OutSame(r)
      <4>1. Out(n) = [state |-> "waiting"] BY <3>2, <3>3, AskedWaits
      <4>2. Out(task[r]) = [state |-> "waiting"] BY <2>2 DEF s
      <4> QED BY <3>4, <4>1, <4>2 DEF OutSame
    <3> QED BY <1>1, <3>4, <3>5, Stutters
  <2> QED BY <2>6, <2>7, <2>8
<1> QED BY <1>4, <1>5

\* Redis executes a command.
LEMMA RedisIsCovered ==
    ASSUME IInv, AllAsk, NEW p \in Pod, Redis(p)
    PROVE  AllAsk' /\ Covered
<1>1. \A i \in 1..Len(pending[p]) : pending[p][i] \in Request
  BY ElementOfSeq DEF IInv, TypeOK
<1>2. CASE ServerGet(p)
  <2>1. PICK r \in Request :
          /\ task[r].pc = "get" /\ redisCart' = redisCart
          /\ task' = [task EXCEPT ![r] =
                        [task[r] EXCEPT !.pc = "got", !.cart = redisCart]]
    <3>1. PICK i \in 1..Len(pending[p]) :
            /\ task[pending[p][i]].pc = "get"
            /\ task' = [task EXCEPT ![pending[p][i]].pc = "got",
                                    ![pending[p][i]].cart = redisCart]
      BY <1>2 DEF ServerGet
    <3>2. task' = [task EXCEPT ![pending[p][i]] =
                     [task[pending[p][i]] EXCEPT !.pc = "got",
                                                 !.cart = redisCart]]
      BY <1>1, <3>1 DEF IInv, TypeOK
    <3>3. redisCart' = redisCart BY <1>2 DEF ServerGet
    <3> QED BY <1>1, <3>1, <3>2, <3>3
  <2> DEFINE s == [task[r] EXCEPT !.pc = "got", !.cart = redisCart]
  <2>2. s.pc = "got" /\ s.op = task[r].op /\ s.answer = task[r].answer
    BY DEF IInv, TypeOK, TaskState
  <2>3. task' = [task EXCEPT ![r] = s] BY <2>1
  <2> HIDE DEF s
  <2>4. Asks(s) BY <2>1, <2>2 DEF Asks, AllAsk
  <2>5. task'[r] = s /\ AllAsk' /\ \A u \in Request \ {r} : OutSame(u)
    BY <2>3, <2>4, OneMoves DEF IInv
  <2>6. Out(s) = [state |-> "waiting"] BY <2>2, <2>4, AskedWaits
  <2>7. Out(task[r]) = [state |-> "waiting"] BY <2>1, AskedWaits DEF AllAsk
  <2>8. OutSame(r) BY <2>5, <2>6, <2>7 DEF OutSame
  <2> QED BY <2>1, <2>5, <2>8, Stutters
<1>3. CASE ServerSet(p)
  <2>1. PICK r \in Request :
          /\ task[r].pc = "set" /\ redisCart' = task[r].cart
          /\ task' = [u \in Request |->
               IF u = r THEN [task[r] EXCEPT !.pc = "saved"]
               ELSE IF task[u].pc \in HasRead
                      THEN [task[u] EXCEPT !.disturbed = TRUE]
                      ELSE task[u]]
    BY <1>1, <1>3 DEF ServerSet
  <2>2. /\ task'[r].pc = "saved" /\ task'[r].op = task[r].op
        /\ task'[r].cart = task[r].cart /\ task'[r].answer = task[r].answer
    BY <2>1 DEF IInv, TypeOK, TaskState
  <2>3. ASSUME NEW u \in Request \ {r}
        PROVE  /\ task'[u].pc = task[u].pc /\ task'[u].op = task[u].op
               /\ task'[u].cart = task[u].cart /\ task'[u].answer = task[u].answer
    BY <2>1 DEF IInv, TypeOK, TaskState
  <2>4. AllAsk' BY <2>1, <2>2, <2>3 DEF AllAsk, Asks
  <2>5. \A u \in Request \ {r} : OutSame(u) BY <2>3 DEF OutSame, Out
  <2>6. Asks(task[r]) /\ task[r].op \in Operation
    BY <2>1 DEF AllAsk, Asks
  <2>7. Out(task'[r]) =
          [state |-> "applied", op |-> task[r].op, shown |-> redisCart']
    BY <2>1, <2>2 DEF Out
  <2>8. Out(task[r]) = [state |-> "waiting"] BY <2>1, <2>6, AskedWaits
  <2>9. CASE task[r].disturbed /\ task[r].op.kind # "clear"
    BY <2>1, <2>2, <2>4, <2>9 DEF Covered, Overlapped, HasRead
  <2>10. CASE task[r].op.kind = "clear"
    <3>1. Allows(task[r].op, redisCart) /\ redisCart' = Effect(task[r].op, redisCart)
      BY <2>1, <2>6, <2>10 DEF Allows, Effect, Asks
    <3> QED BY <2>4, <2>5, <2>6, <2>7, <2>8, <3>1, Serves
  <2>11. CASE ~task[r].disturbed
    <3>1. Allows(task[r].op, redisCart) /\ redisCart' = Effect(task[r].op, redisCart)
      BY <2>1, <2>11 DEF IInv, UndisturbedCopiesAreCurrent
    <3> QED BY <2>4, <2>5, <2>6, <2>7, <2>8, <3>1, Serves
  <2> QED BY <2>9, <2>10, <2>11
<1> QED BY <1>2, <1>3 DEF Redis

\* A process ends, and drops its requests.
LEMMA DropIsCovered ==
    ASSUME IInv, AllAsk, NEW gone \in SUBSET Pod, task' = Dropped(gone)
    PROVE  AllAsk' /\ (redisCart' = redisCart => Covered)
<1> DEFINE lost == {r \in Request : \E p \in gone : r \in Queued(p)}
<1>1. ASSUME NEW r \in lost
      PROVE  /\ task[r].op \in Operation /\ Asks(task[r])
             /\ task'[r] = Ended(task[r].op, "dropped", Empty)
             /\ \/ Out(task[r]) = [state |-> "waiting"]
                \/ Out(task[r]) = [state |-> "applied", op |-> task[r].op,
                                   shown |-> task[r].cart]
  <2>1. r \in Request /\ Awaiting(r) BY DEF IInv, QueuesApart
  <2>2. Asks(task[r]) /\ task[r].op \in Operation
    BY <2>1 DEF AllAsk, Asks, Awaiting, Sent, Executed
  <2>3. \/ Out(task[r]) = [state |-> "waiting"]
        \/ Out(task[r]) = [state |-> "applied", op |-> task[r].op,
                           shown |-> task[r].cart]
    BY <2>1, <2>2 DEF Asks, Out, Awaiting, Sent, Executed
  <2> QED BY <2>1, <2>2, <2>3 DEF Dropped
<1>2. \A u \in Request \ lost : task'[u] = task[u] BY DEF Dropped
<1>3. \A r \in lost : /\ Asks(task'[r])
                      /\ Out(task'[r]) = [state |-> "dropped",
                                          op |-> task[r].op, shown |-> Empty]
  BY <1>1, EmptyIsCart, EndedIsOut
<1>4. lost \subseteq Request OBVIOUS
<1> HIDE DEF lost
<1>5. AllAsk' BY <1>2, <1>3 DEF AllAsk
<1>6. \A u \in Request \ lost : OutSame(u) BY <1>2 DEF OutSame
<1>7. ASSUME redisCart' = redisCart PROVE Covered
  BY <1>1, <1>3, <1>4, <1>6, <1>7, Loses
<1> QED BY <1>5, <1>7

\* What no handler notices.
LEMMA AsideIsCovered ==
    ASSUME AllAsk, UNCHANGED <<redisCart, task>>
    PROVE  AllAsk' /\ Covered
<1>1. \A r \in Request : OutSame(r) BY DEF OutSame
<1> QED BY <1>1, Stutters DEF AllAsk

\* Every step.
LEMMA NextIsCovered ==
    ASSUME IInv, AllAsk, [Next]_vars
    PROVE  AllAsk' /\ Covered
<1>1. ASSUME NEW p \in Pod, Service(p) \/ LoseConnection(p) \/ Crash(p)
      PROVE  AllAsk' /\ Covered
  <2>1. CASE Connect(p) \/ Reconnect(p)
    BY <2>1, AsideIsCovered DEF Connect, Reconnect
  <2>2. CASE LoseConnection(p)
    BY <2>2, DropIsCovered DEF LoseConnection, Disconnect
  <2>3. CASE Crash(p) BY <2>3, DropIsCovered DEF Crash
  <2> QED BY <1>1, <2>1, <2>2, <2>3, ReplyIsCovered DEF Service
<1>2. CASE RedisStops
  <2>1. DataLost BY <1>2 DEF RedisStops, DataLost
  <2>2. AllAsk'
    <3>1. \E gone \in SUBSET Pod : task' = Dropped(gone)
      BY <1>2 DEF RedisStops, Disconnect
    <3> QED BY <3>1, DropIsCovered
  <2> QED BY <2>1, <2>2 DEF Covered
<1>3. CASE RedisStarts \/ UNCHANGED vars
  BY <1>3, AsideIsCovered DEF RedisStarts, vars
<1> QED BY <1>1, <1>2, <1>3, SendIsCovered, RedisIsCovered DEF Next

\* With any number of pods and requests under way, lost connections, crashes and
\* a Redis that starts empty, every step that overlaps with no other save and
\* finds Redis is one of the cart that a user was promised: a request takes
\* effect once and whole and is shown the cart it made, or is refused with
\* reason, or ends without an answer.
THEOREM CartIsAtomic == Spec => ImplementsAtomicCart
<1>1. Init => AllAsk /\ Atomic!AtomicInit
  <2> SUFFICES ASSUME Init PROVE AllAsk /\ Atomic!AtomicInit OBVIOUS
  <2>1. Idle.pc = "idle" /\ Idle.answer = "none" BY DEF Idle
  <2>2. AllAsk BY <2>1 DEF Init, AllAsk, Asks
  <2>3. Atomic!AtomicInit
    BY <2>1 DEF Init, Atomic!AtomicInit, Atomic!Waiting
  <2> QED BY <2>2, <2>3
<1>2. IInv /\ AllAsk /\ [Next]_vars => AllAsk' /\ Covered
  BY NextIsCovered
<1>3. Covered => [ \/ Atomic!AtomicNext
                   \/ Overlapped \/ FromMemory \/ DataLost ]_(Atomic!cartVars)
  BY DEF Covered
<1>4. Spec => [][ \/ Atomic!AtomicNext
                  \/ Overlapped \/ FromMemory \/ DataLost ]_(Atomic!cartVars)
  BY <1>1, <1>2, <1>3, Invariance, PTL DEF Spec
<1> QED BY <1>1, <1>4, PTL DEF Spec, ImplementsAtomicCart

=============================================================================
