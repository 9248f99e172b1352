---------------------------- MODULE CatalogProofs ----------------------------
(***************************************************************************)
(* The catalog proved, for every instance: types, lost writes and stock,   *)
(* what every copy of the inventory is made of, and that the service is    *)
(* one inventory but for what AtomicInventory leaves out.                  *)
(***************************************************************************)
EXTENDS CatalogProperties, DataLemmas

\* What a handler saves is a document, and has in it the writes of the loaded
\* one and its own request.
LEMMA UpdatedIsDocument ==
    ASSUME NEW r \in Request, NEW op \in Operation \cup {Boot},
           NEW doc \in Document
    PROVE  /\ Updated(r, op, doc) \in Document
           /\ Updated(r, op, doc).writes = doc.writes \cup {r}
<1> DEFINE d == Mutation(op, doc)
<1>1. d \in Document /\ d.writes = doc.writes
  <2>1. CASE op \in Reservation
    <3>1. \A p \in Product : Quantity(op, p) \in Nat
      BY <2>1 DEF Quantity, Reservation, Lines
    <3>2. op.kind = "reserve" BY <2>1 DEF Reservation
    <3>3. d = Decrement(op, doc) BY <3>2 DEF Mutation
    <3> QED BY <3>1, <3>3 DEF Decrement, Document
  <2>2. CASE op \in Addition
    <3> DEFINE stock == [doc.stock EXCEPT ![op.product] = op.stock]
    <3>1. d = AddProduct(op, doc)
      BY <2>2 DEF Mutation, Addition
    <3>2. stock \in [Product -> Int] /\ op.product \in Product
      BY <2>2 DEF Document, Addition
    <3>3. d = [listed |-> doc.listed \cup {op.product}, stock |-> stock,
               writes |-> doc.writes]
      BY <3>1 DEF AddProduct, Document
    <3> HIDE DEF stock, d
    <3> QED BY <3>2, <3>3 DEF Document
  <2>3. CASE op \in Correction
    <3> DEFINE stock == [doc.stock EXCEPT ![op.product] = op.stock]
    <3>1. d = SetStock(op, doc)
      BY <2>3 DEF Mutation, Correction
    <3>2. stock \in [Product -> Int] /\ op.product \in Product
      BY <2>3 DEF Document, Correction
    <3>3. d = [listed |-> doc.listed, stock |-> stock, writes |-> doc.writes]
      BY <3>1 DEF SetStock, Document
    <3> HIDE DEF stock, d
    <3> QED BY <3>2, <3>3 DEF Document
  <2>4. CASE op \in Removal
    <3> DEFINE stock == [doc.stock EXCEPT ![op.product] = 0]
    <3>1. d = RemoveProduct(op, doc)
      BY <2>4 DEF Mutation, Removal
    <3>2. stock \in [Product -> Int] /\ op.product \in Product
      BY <2>4 DEF Document, Removal
    <3>3. d = [listed |-> doc.listed \ {op.product}, stock |-> stock,
               writes |-> doc.writes]
      BY <3>1 DEF RemoveProduct, Document
    <3> HIDE DEF stock, d
    <3> QED BY <3>2, <3>3 DEF Document
  <2>5. CASE op \in Listing \cup {Boot}
    <3>1. d = doc BY <2>5 DEF Mutation, Listing, Boot
    <3> QED BY <3>1 DEF Document
  <2> QED BY <2>1, <2>2, <2>3, <2>4, <2>5, OperationAssumption
<1>2. Updated(r, op, doc) = [d EXCEPT !.writes = @ \cup {r}]
  BY DEF Updated
<1> HIDE DEF d
<1> QED BY <1>1, <1>2 DEF Document

-----------------------------------------------------------------------------
(* Most steps are a turn of a pod's loop: one task of the pod goes on, and  *)
(* is put back at the end of its queue or not.                             *)

Turn(p, t, queue) ==
    /\ task' \in [Task -> TaskState]
    /\ \A u \in Task \ {t} : task'[u] = task[u]
    /\ t \in Request => task'[t].pc # "idle"
    /\ \/ pending' = [pending EXCEPT ![p] = queue]
       \/ pending' = [pending EXCEPT ![p] = Append(queue, t)]

\* The task that goes on is one of the queue, a new request, or the start of
\* the pod; the queue loses nothing else.
TurnOf(p, t, queue) ==
    /\ t \in Request \cup {p}
    /\ t \in Queued(p) \/ t = p \/ task[t].pc = "idle"
    /\ queue \in Seq(Task)
    /\ Elements(queue) \subseteq Queued(p)

\* After a turn every task is still queued once, and at one pod; the queues of
\* the other pods are untouched.
LEMMA TurnKeepsQueues ==
    ASSUME TypeOK, QueuesApart, NEW p \in Pod, NEW t, NEW queue,
           TurnOf(p, t, queue), Turn(p, t, queue)
    PROVE  /\ pending' \in [Pod -> Seq(Task)]
           /\ QueuesApart'
           /\ \A q \in Pod \ {p} : Queued(q)' = Queued(q) /\ t \notin Queued(q)
           /\ Queued(p)' \subseteq Queued(p) \cup {t}
<1>1. t \in Task BY DEF TurnOf, Task
<1>2. /\ Append(queue, t) \in Seq(Task)
      /\ Elements(Append(queue, t)) = Elements(queue) \cup {t}
  BY <1>1, AppendTail DEF TurnOf
<1>3. pending' \in [Pod -> Seq(Task)] BY <1>2 DEF TypeOK, TurnOf, Turn
<1>4. \A q \in Pod \ {p} : Queued(q)' = Queued(q)
  <2>1. \A q \in Pod \ {p} : pending'[q] = pending[q] BY DEF TypeOK, Turn
  <2> QED BY <2>1 DEF Queued
<1>5. Queued(p)' = Elements(queue) \/ Queued(p)' = Elements(queue) \cup {t}
  <2>1. Queued(p)' = Elements(pending'[p]) BY DEF Queued, Elements
  <2>2. pending'[p] \in {queue, Append(queue, t)} BY DEF TypeOK, Turn
  <2> QED BY <2>1, <2>2, <1>2
<1>6. \A q \in Pod \ {p} : t \notin Queued(q)
  <2> SUFFICES ASSUME NEW q \in Pod \ {p} PROVE t \notin Queued(q)
    OBVIOUS
  <2>1. CASE t \in Queued(p) BY <2>1 DEF QueuesApart
  <2>2. CASE t = p BY <2>2, TaskAssumption DEF QueuesApart
  <2>3. CASE task[t].pc = "idle" /\ t \in Request
    BY <2>3 DEF QueuesApart
  <2> QED BY <2>1, <2>2, <2>3 DEF TurnOf
<1>7. QueuesApart'
  <2>1. ASSUME NEW q \in Pod PROVE Queued(q)' \subseteq Request \cup {q}
    BY <1>4, <1>5, <2>1 DEF QueuesApart, TurnOf
  <2>2. ASSUME NEW q \in Pod, NEW u \in Queued(q)' \cap Request
        PROVE  task'[u].pc # "idle"
    <3>1. CASE u = t BY <3>1 DEF Turn
    <3>2. CASE u # t
      <4>1. u \in Queued(q) BY <1>4, <1>5, <3>2 DEF TurnOf
      <4>2. task'[u] = task[u] BY <3>2 DEF Turn, Task
      <4> QED BY <4>1, <4>2 DEF QueuesApart
    <3> QED BY <3>1, <3>2
  <2>3. ASSUME NEW q \in Pod, NEW o \in Pod \ {q}
        PROVE  Queued(q)' \cap Queued(o)' = {}
    BY <1>4, <1>5, <1>6 DEF QueuesApart, TurnOf
  <2> QED BY <2>1, <2>2, <2>3 DEF QueuesApart
<1> QED BY <1>3, <1>4, <1>5, <1>6, <1>7 DEF TurnOf

\* What a turn has to do for ReadersKnow to stay true.
LEMMA TurnKeepsReaders ==
    ASSUME TypeOK, QueuesApart, ReadersKnow, NEW p \in Pod, NEW t, NEW queue,
           TurnOf(p, t, queue), Turn(p, t, queue),
           redisDoc' = redisDoc,
           \A q \in Pod : inventory[q].writes \subseteq inventory'[q].writes,
           task'[t].pc \in HasRead =>
             Writes(redisDoc) \subseteq
                 Writes(task'[t].items) \cup task'[t].missed,
           task'[t].pc \in {"seed", "seeded"} =>
             Writes(task'[t].items) \subseteq inventory'[p].writes
    PROVE  ReadersKnow'
<1>0. t \in Task BY DEF TurnOf, Task
<1>1. ASSUME NEW u \in Task, task'[u].pc \in HasRead
      PROVE  Writes(redisDoc') \subseteq
                 Writes(task'[u].items) \cup task'[u].missed
  <2>1. CASE u = t BY <1>1, <2>1
  <2>2. CASE u # t BY <1>1, <2>2 DEF Turn, ReadersKnow
  <2> QED BY <2>1, <2>2
<1>2. ASSUME NEW q \in Pod, NEW u \in Queued(q)',
             task'[u].pc \in {"seed", "seeded"}
      PROVE  Writes(task'[u].items) \subseteq inventory'[q].writes
  <2> USE <1>2
  <2>0. u \in Task BY TurnKeepsQueues DEF QueuesApart, Task
  <2>1. CASE u = t
    <3>1. q = p BY <2>1, TurnKeepsQueues
    <3> QED BY <2>1, <3>1
  <2>2. CASE u # t
    <3>1. u \in Queued(q) BY <2>2, TurnKeepsQueues
    <3>2. task'[u] = task[u] BY <2>0, <2>2 DEF Turn
    <3> QED BY <3>1, <3>2 DEF ReadersKnow
  <2> QED BY <2>1, <2>2
<1> QED BY <1>1, <1>2 DEF ReadersKnow, Writes

-----------------------------------------------------------------------------
(* The shared parts of the handlers are turns.                             *)

\* Answering a request is a turn.
LEMMA FinishIsTurn ==
    ASSUME TypeOK, NEW p \in Pod, NEW t, NEW queue, TurnOf(p, t, queue),
           NEW op \in Operation \cup {Boot},
           NEW answer \in {"ok", "refused", "dropped"},
           Finish(t, p, queue, op, answer)
    PROVE  Turn(p, t, queue) /\ task'[t].pc = "done"
<1> DEFINE s == [Idle EXCEPT !.pc = "done", !.op = op, !.answer = answer]
<1>1. t \in Task BY DEF TurnOf, Task
<1>2. s \in TaskState /\ s.pc = "done" BY DEF Idle, TaskState
<1>3. task' = [task EXCEPT ![t] = s] /\ pending' = [pending EXCEPT ![p] = queue]
  BY DEF Finish
<1> HIDE DEF s
<1> QED BY <1>1, <1>2, <1>3 DEF Turn, TypeOK

\* Sending a command to Redis is a turn.
LEMMA AwaitIsTurn ==
    ASSUME TypeOK, NEW p \in Pod, NEW t, NEW queue, TurnOf(p, t, queue),
           NEW s \in TaskState, s.pc # "idle", Await(t, p, queue, s)
    PROVE  Turn(p, t, queue) /\ task'[t] = s
<1>1. t \in Task BY DEF TurnOf, Task
<1> QED BY <1>1 DEF Turn, TypeOK, Await

\* A handler that goes on with a document: from Redis while Redis is there,
\* or else with the one in memory.
LEMMA ProceedIsTurn ==
    ASSUME TypeOK, ReadersKnow, NEW p \in Pod, NEW t \in Request, NEW queue,
           TurnOf(p, t, queue), NEW op \in Operation \cup {Boot},
           NEW items \in Document, NEW aliased \in BOOLEAN,
           Proceed(t, p, queue, op, items, aliased),
           aliased \/ ~redisReady[p] => items = inventory[p],
           redisReady[p] =>
             Writes(redisDoc) \subseteq Writes(items) \cup task[t].missed
    PROVE  /\ Turn(p, t, queue)
           /\ inventory' \in [Pod -> Document]
           /\ \A q \in Pod : inventory[q].writes \subseteq inventory'[q].writes
           /\ task'[t].pc \notin {"seed", "seeded"}
           /\ task'[t].pc \in HasRead =>
                Writes(redisDoc) \subseteq
                    Writes(task'[t].items) \cup task'[t].missed
<1> DEFINE next == Updated(t, op, items)
           s == [task[t] EXCEPT !.pc = "set", !.op = op, !.items = next]
<1>0. t \in Task BY DEF Task
<1>1. next \in Document /\ next.writes = items.writes \cup {t}
  BY UpdatedIsDocument
<1>2. CASE /\ UNCHANGED inventory
           /\ \E answer \in {"ok", "refused"} : Finish(t, p, queue, op, answer)
  BY <1>2, FinishIsTurn DEF TypeOK, HasRead
<1>3. CASE /\ inventory' = IF aliased \/ ~redisReady[p]
                             THEN [inventory EXCEPT ![p] = next] ELSE inventory
           /\ IF redisReady[p] THEN Await(t, p, queue, s)
                               ELSE Finish(t, p, queue, op, "ok")
  <2>1. /\ inventory' \in [Pod -> Document]
        /\ \A q \in Pod : inventory[q].writes \subseteq inventory'[q].writes
    <3> HIDE DEF next
    <3> QED BY <1>1, <1>3 DEF TypeOK
  <2>2. CASE Finish(t, p, queue, op, "ok")
    BY <2>1, <2>2, FinishIsTurn DEF HasRead
  <2>3. CASE redisReady[p] /\ Await(t, p, queue, s)
    <3>1. /\ s \in TaskState /\ s.pc = "set" /\ s.items = next
          /\ s.missed = task[t].missed
      <4> HIDE DEF next
      <4> QED BY <1>0, <1>1, ZenonT(30) DEF TypeOK, TaskState, Sent
    <3>2. Turn(p, t, queue) /\ task'[t] = s
      <4> HIDE DEF s
      <4> QED BY <2>3, <3>1, AwaitIsTurn
    <3>3. Writes(items) \subseteq Writes(next)
      <4> HIDE DEF next
      <4> QED BY <1>1, DocumentAssumption DEF Writes
    <3> HIDE DEF s, next
    <3> QED BY <2>1, <2>3, <3>1, <3>2, <3>3
  <2> QED BY <1>3, <2>2, <2>3
<1> QED BY <1>2, <1>3 DEF Proceed

\* What follows a load is a turn, whether a handler goes on or a pod listens.
LEMMA LoadedIsTurn ==
    ASSUME TypeOK, ReadersKnow, NEW p \in Pod, NEW t, NEW queue,
           TurnOf(p, t, queue),
           NEW items \in Document, NEW aliased \in BOOLEAN,
           Loaded(t, p, queue, items, aliased),
           aliased \/ ~redisReady[p] => items = inventory[p],
           redisReady[p] =>
             Writes(redisDoc) \subseteq Writes(items) \cup task[t].missed
    PROVE  /\ Turn(p, t, queue)
           /\ pod' \in [Pod -> {"down", "loading", "serving", "failing"}]
           /\ inventory' \in [Pod -> Document]
           /\ \A q \in Pod : inventory[q].writes \subseteq inventory'[q].writes
           /\ task'[t].pc \notin {"seed", "seeded"}
           /\ task'[t].pc \in HasRead =>
                Writes(redisDoc) \subseteq
                    Writes(task'[t].items) \cup task'[t].missed
<1>1. CASE t = p
  <2>1. t \in Task /\ t \notin Request
    BY <1>1, TaskAssumption DEF Task
  <2>2. Idle \in TaskState /\ Idle.pc = "idle" BY DEF Idle, TaskState
  <2>3. Listen(p, queue) /\ UNCHANGED inventory BY <1>1 DEF Loaded
  <2>4. Turn(p, t, queue) /\ task'[t] = Idle
    BY <1>1, <2>1, <2>2, <2>3 DEF Listen, Turn, TypeOK
  <2>5. pod' \in [Pod -> {"down", "loading", "serving", "failing"}]
    BY <2>3 DEF Listen, TypeOK
  <2>6. inventory' = inventory /\ inventory' \in [Pod -> Document]
    BY <2>3 DEF TypeOK
  <2> QED BY <2>2, <2>4, <2>5, <2>6 DEF HasRead
<1>2. CASE t # p
  <2>1. t \in Request /\ t \in Task BY <1>2 DEF TurnOf, Task
  <2>2. Proceed(t, p, queue, task[t].op, items, aliased) /\ UNCHANGED pod
    BY <1>2 DEF Loaded
  <2>3. task[t].op \in Operation \cup {Boot}
    BY <2>1 DEF TypeOK, TaskState
  <2>4. pod' \in [Pod -> {"down", "loading", "serving", "failing"}]
    BY <2>2 DEF TypeOK
  <2> QED BY <2>1, <2>2, <2>3, <2>4, ProceedIsTurn
<1> QED BY <1>1, <1>2

-----------------------------------------------------------------------------
(* The inductive invariant.                                                *)

IInv == TypeOK /\ QueuesApart /\ ReadersKnow

\* A turn of the loop of a pod keeps it.
LEMMA TurnKeepsIInv ==
    ASSUME IInv, NEW p \in Pod, NEW t, NEW queue,
           TurnOf(p, t, queue), Turn(p, t, queue),
           UNCHANGED <<redisDoc, link, redisReady, faults>>,
           pod' \in [Pod -> {"down", "loading", "serving", "failing"}],
           inventory' \in [Pod -> Document],
           \A q \in Pod : inventory[q].writes \subseteq inventory'[q].writes,
           task'[t].pc \in HasRead =>
             Writes(redisDoc) \subseteq
                 Writes(task'[t].items) \cup task'[t].missed,
           task'[t].pc \in {"seed", "seeded"} =>
             Writes(task'[t].items) \subseteq inventory'[p].writes
    PROVE  IInv'
<1>1. TypeOK'
  BY TurnKeepsQueues DEF IInv, TypeOK, Turn
<1>2. QueuesApart' BY TurnKeepsQueues DEF IInv
<1>3. ReadersKnow' BY TurnKeepsReaders DEF IInv
<1> QED BY <1>1, <1>2, <1>3 DEF IInv

\* The head of a queue can take a turn.
LEMMA HeadTakesTurn ==
    ASSUME IInv, NEW p \in Pod, pending[p] # <<>>
    PROVE  /\ Head(pending[p]) \in Task
           /\ Head(pending[p]) \in Queued(p)
           /\ TurnOf(p, Head(pending[p]), Tail(pending[p]))
<1>1. pending[p] \in Seq(Task) BY DEF IInv, TypeOK
<1>2. Queued(p) = Elements(pending[p]) BY DEF Queued, Elements
<1> QED BY <1>1, <1>2, TakeHead DEF TurnOf, IInv, QueuesApart

\* So can a request that was not sent before.
LEMMA RequestTakesTurn ==
    ASSUME IInv, NEW p \in Pod, NEW r \in Request, task[r].pc = "idle"
    PROVE  TurnOf(p, r, pending[p])
BY DEF TurnOf, IInv, TypeOK, Queued, Elements

\* A request that arrives keeps it, malformed, sent to Redis or from memory.
LEMMA ReceiveKeepsIInv ==
    ASSUME IInv, NEW p \in Pod, NEW r \in Request, NEW op \in Operation,
           \/ RefuseMalformed(r, p, op)
           \/ SendGet(r, p, op)
           \/ ServeFromMemory(r, p, op)
    PROVE  IInv'
<1> USE DEF IInv
<1>1. CASE RefuseMalformed(r, p, op)
  <2>1. TurnOf(p, r, pending[p]) BY <1>1, RequestTakesTurn DEF RefuseMalformed
  <2>2. Turn(p, r, pending[p]) /\ task'[r].pc = "done"
    BY <1>1, <2>1, FinishIsTurn DEF RefuseMalformed
  <2> QED BY <1>1, <2>1, <2>2, TurnKeepsIInv
          DEF RefuseMalformed, HasRead, TypeOK
<1>2. CASE SendGet(r, p, op)
  <2> DEFINE s == [Idle EXCEPT !.pc = "get", !.op = op]
  <2>1. TurnOf(p, r, pending[p]) BY <1>2, RequestTakesTurn DEF SendGet
  <2>2. s \in TaskState /\ s.pc = "get" BY DEF Idle, TaskState, Sent
  <2>3. Await(r, p, pending[p], s) BY <1>2 DEF SendGet
  <2>4. Turn(p, r, pending[p]) /\ task'[r] = s
    <3> HIDE DEF s
    <3> QED BY <2>1, <2>2, <2>3, AwaitIsTurn
  <2> HIDE DEF s
  <2> QED BY <1>2, <2>1, <2>2, <2>4, TurnKeepsIInv
          DEF SendGet, HasRead, TypeOK
<1>3. CASE ServeFromMemory(r, p, op)
  <2>1. TurnOf(p, r, pending[p]) BY <1>3, RequestTakesTurn DEF ServeFromMemory
  <2>2. inventory[p] \in Document BY DEF TypeOK
  <2>3. /\ Turn(p, r, pending[p])
        /\ inventory' \in [Pod -> Document]
        /\ \A q \in Pod : inventory[q].writes \subseteq inventory'[q].writes
        /\ task'[r].pc \notin {"seed", "seeded"}
        /\ task'[r].pc \in HasRead =>
             Writes(redisDoc) \subseteq
                 Writes(task'[r].items) \cup task'[r].missed
    BY <1>3, <2>1, <2>2, ProceedIsTurn DEF ServeFromMemory
  <2> QED BY <1>3, <2>1, <2>3, TurnKeepsIInv DEF ServeFromMemory, TypeOK
<1> QED BY <1>1, <1>2, <1>3

\* So does a load that ends: with a document, a filled key or a rejection.
LEMMA LoadKeepsIInv ==
    ASSUME IInv, NEW p \in Pod,
           ReceiveDocument(p) \/ ContinueSeeded(p) \/ FallBack(p)
    PROVE  IInv'
<1> DEFINE t == Head(pending[p])
           queue == Tail(pending[p])
<1> USE DEF IInv
<1>0. inventory[p] \in Document BY DEF TypeOK
<1>00. pending[p] # <<>> /\ t \in Task /\ t \in Queued(p)
  BY HeadTakesTurn DEF ReceiveDocument, ContinueSeeded, FallBack, Reply
<1>1. CASE ReceiveDocument(p)
  <2>1. TurnOf(p, t, queue) BY <1>1, HeadTakesTurn DEF ReceiveDocument, Reply
  <2>2. Loaded(t, p, queue, task[t].items, FALSE) BY <1>1 DEF ReceiveDocument
  <2>3. task[t].items \in Document
    BY <1>1, <1>00 DEF ReceiveDocument, TypeOK, TaskState
  <2>4. redisReady[p] =>
          Writes(redisDoc) \subseteq Writes(task[t].items) \cup task[t].missed
    BY <1>1, <1>00 DEF ReceiveDocument, Reply, ReadersKnow, HasRead
  <2>5. FALSE \/ ~redisReady[p] => task[t].items = inventory[p]
    BY <1>1 DEF ReceiveDocument, Reply
  <2> HIDE DEF t, queue
  <2>6. /\ Turn(p, t, queue)
        /\ pod' \in [Pod -> {"down", "loading", "serving", "failing"}]
        /\ inventory' \in [Pod -> Document]
        /\ \A q \in Pod : inventory[q].writes \subseteq inventory'[q].writes
        /\ task'[t].pc \notin {"seed", "seeded"}
        /\ task'[t].pc \in HasRead =>
             Writes(redisDoc) \subseteq
                 Writes(task'[t].items) \cup task'[t].missed
    BY <2>1, <2>2, <2>3, <2>4, <2>5, LoadedIsTurn
  <2> QED BY <1>1, <2>1, <2>6, TurnKeepsIInv DEF ReceiveDocument
<1>2. CASE ContinueSeeded(p)
  <2>1. TurnOf(p, t, queue) BY <1>2, HeadTakesTurn DEF ContinueSeeded, Reply
  <2>2. Loaded(t, p, queue, inventory[p], TRUE) BY <1>2 DEF ContinueSeeded
  <2>3. inventory[p] \in Document
    BY <1>0
  <2>4. redisReady[p] =>
          Writes(redisDoc) \subseteq Writes(inventory[p]) \cup task[t].missed
    <3>1. /\ Writes(redisDoc) \subseteq
              Writes(task[t].items) \cup task[t].missed
          /\ Writes(task[t].items) \subseteq inventory[p].writes
      BY <1>2, <1>00 DEF ContinueSeeded, Reply, ReadersKnow, HasRead
    <3>2. Writes(inventory[p]) = inventory[p].writes
      BY <1>0, DocumentAssumption DEF Writes
    <3> QED BY <3>1, <3>2
  <2>5. TRUE \/ ~redisReady[p] => inventory[p] = inventory[p]
    BY <1>2 DEF ContinueSeeded, Reply
  <2> HIDE DEF t, queue
  <2>6. /\ Turn(p, t, queue)
        /\ pod' \in [Pod -> {"down", "loading", "serving", "failing"}]
        /\ inventory' \in [Pod -> Document]
        /\ \A q \in Pod : inventory[q].writes \subseteq inventory'[q].writes
        /\ task'[t].pc \notin {"seed", "seeded"}
        /\ task'[t].pc \in HasRead =>
             Writes(redisDoc) \subseteq
                 Writes(task'[t].items) \cup task'[t].missed
    BY <2>1, <2>2, <2>3, <2>4, <2>5, LoadedIsTurn
  <2> QED BY <1>2, <2>1, <2>6, TurnKeepsIInv DEF ContinueSeeded
<1>3. CASE FallBack(p)
  <2>1. TurnOf(p, t, queue) BY <1>3, HeadTakesTurn DEF FallBack, Reply
  <2>2. Loaded(t, p, queue, inventory[p], TRUE) BY <1>3 DEF FallBack
  <2>3. inventory[p] \in Document
    BY <1>0
  <2>4. redisReady[p] =>
          Writes(redisDoc) \subseteq Writes(inventory[p]) \cup task[t].missed
    BY <1>3 DEF FallBack
  <2>5. TRUE \/ ~redisReady[p] => inventory[p] = inventory[p]
    BY <1>3 DEF FallBack, Reply
  <2> HIDE DEF t, queue
  <2>6. /\ Turn(p, t, queue)
        /\ pod' \in [Pod -> {"down", "loading", "serving", "failing"}]
        /\ inventory' \in [Pod -> Document]
        /\ \A q \in Pod : inventory[q].writes \subseteq inventory'[q].writes
        /\ task'[t].pc \notin {"seed", "seeded"}
        /\ task'[t].pc \in HasRead =>
             Writes(redisDoc) \subseteq
                 Writes(task'[t].items) \cup task'[t].missed
    BY <2>1, <2>2, <2>3, <2>4, <2>5, LoadedIsTurn
  <2> QED BY <1>3, <2>1, <2>6, TurnKeepsIInv DEF FallBack
<1> QED BY <1>1, <1>2, <1>3

\* So do the other replies and rejections.
LEMMA ReplyKeepsIInv ==
    ASSUME IInv, NEW p \in Pod,
           SendSeed(p) \/ AnswerSaved(p) \/ FailToSave(p)
    PROVE  IInv'
<1> DEFINE t == Head(pending[p])
           queue == Tail(pending[p])
<1> USE DEF IInv
<1>1. pending[p] # <<>>
  BY DEF SendSeed, AnswerSaved, FailToSave, Reply
<1>2. TurnOf(p, t, queue) /\ t \in Task BY <1>1, HeadTakesTurn
<1>3. /\ inventory[p] \in Document
      /\ task[t] \in TaskState
      /\ task[t].op \in Operation \cup {Boot}
  BY <1>2 DEF TypeOK, TaskState
<1>4. CASE SendSeed(p)
  <2> DEFINE s == [task[t] EXCEPT !.pc = "seed", !.items = inventory[p]]
  <2>1. /\ s \in TaskState /\ s.pc = "seed" /\ s.items = inventory[p]
        /\ s.missed = task[t].missed
    BY <1>3 DEF TaskState, Sent
  <2>2. Await(t, p, queue, s) BY <1>4 DEF SendSeed
  <2>3. Writes(redisDoc) \subseteq task[t].missed
    BY <1>2, <1>4 DEF SendSeed, Reply, ReadersKnow, HasRead, Writes
  <2>4. Writes(s.items) \subseteq inventory[p].writes
    BY <2>1, <1>3, DocumentAssumption DEF Writes
  <2> HIDE DEF s, t, queue
  <2>5. Turn(p, t, queue) /\ task'[t] = s
    BY <1>2, <2>1, <2>2, AwaitIsTurn
  <2>6. /\ pod' \in [Pod -> {"down", "loading", "serving", "failing"}]
        /\ inventory' = inventory /\ inventory' \in [Pod -> Document]
    BY <1>4 DEF SendSeed, TypeOK
  <2> QED BY <1>2, <1>4, <2>1, <2>3, <2>4, <2>5, <2>6, TurnKeepsIInv
          DEF SendSeed
<1>5. CASE AnswerSaved(p) \/ FailToSave(p)
  <2>1. \E answer \in {"ok", "dropped"} :
            Finish(t, p, queue, task[t].op, answer)
    BY <1>5 DEF AnswerSaved, FailToSave
  <2>2. /\ pod' \in [Pod -> {"down", "loading", "serving", "failing"}]
        /\ inventory' = inventory /\ inventory' \in [Pod -> Document]
        /\ UNCHANGED <<redisDoc, link, redisReady, faults>>
    BY <1>5 DEF AnswerSaved, FailToSave, TypeOK
  <2> HIDE DEF t, queue
  <2>3. Turn(p, t, queue) /\ task'[t].pc = "done"
    BY <1>2, <1>3, <2>1, FinishIsTurn
  <2> QED BY <1>2, <2>2, <2>3, TurnKeepsIInv DEF HasRead
<1> QED BY <1>4, <1>5

\* A GET gives its task the writes of the key, and nothing it could miss.
LEMMA ServerGetKeepsIInv ==
    ASSUME IInv, NEW p \in Pod, ServerGet(p)
    PROVE  IInv'
<1> USE DEF IInv
<1>1. PICK i \in 1..Len(pending[p]) :
        /\ task[pending[p][i]].pc = "get"
        /\ task' = [task EXCEPT ![pending[p][i]].pc = "got",
                                ![pending[p][i]].items = redisDoc,
                                ![pending[p][i]].missed = {}]
  BY DEF ServerGet
<1> DEFINE t == pending[p][i]
<1>2. t \in Task /\ task[t].pc = "get" BY <1>1, ElementOfSeq DEF TypeOK
<1>3. UNCHANGED <<redisDoc, link, pod, redisReady, inventory, pending, faults>>
  BY DEF ServerGet
<1> HIDE DEF t
<1>4. /\ task' \in [Task -> TaskState]
      /\ task'[t].pc = "got" /\ task'[t].items = redisDoc
      /\ \A u \in Task \ {t} : task'[u] = task[u]
  <2>1. task[t] \in TaskState /\ redisDoc \in Document \cup {NoDocument}
    BY <1>2 DEF TypeOK
  <2> DEFINE s == [task[t] EXCEPT !.pc = "got", !.items = redisDoc,
                                  !.missed = {}]
  <2>2. s \in TaskState /\ s.pc = "got" /\ s.items = redisDoc
    BY <2>1 DEF TaskState, Executed
  <2>3. task' = [task EXCEPT ![t] = s] BY <1>1, <1>2 DEF TypeOK, t
  <2> HIDE DEF s
  <2> QED BY <1>2, <2>2, <2>3 DEF TypeOK
<1>5. TypeOK' BY <1>3, <1>4 DEF TypeOK
<1>6. QueuesApart'
  <2>1. \A q \in Pod : Queued(q)' = Queued(q) BY <1>3 DEF Queued
  <2>2. \A r \in Request : task'[r].pc = "idle" <=> task[r].pc = "idle"
    BY <1>2, <1>4 DEF Task
  <2> QED BY <2>1, <2>2 DEF QueuesApart
<1>7. ReadersKnow'
  BY <1>2, <1>3, <1>4 DEF ReadersKnow, QueuesApart, Queued, Writes, Task
<1> QED BY <1>5, <1>6, <1>7

\* A SET puts what it writes on the record of all who have read.
LEMMA ServerSetKeepsIInv ==
    ASSUME IInv, NEW p \in Pod, ServerSet(p)
    PROVE  IInv'
<1> USE DEF IInv
<1> DEFINE Seen(t, u) ==
      IF u = t
        THEN [task[t] EXCEPT !.pc = IF @ = "set" THEN "saved" ELSE "seeded",
                             !.missed = {}]
        ELSE IF task[u].pc \in HasRead
               THEN [task[u] EXCEPT !.missed = @ \cup Writes(task[t].items)]
               ELSE task[u]
<1>1. PICK i \in 1..Len(pending[p]) :
        /\ task[pending[p][i]].pc \in {"seed", "set"}
        /\ redisDoc' = task[pending[p][i]].items
        /\ task' = [u \in Task |-> Seen(pending[p][i], u)]
  BY DEF ServerSet
<1> DEFINE t == pending[p][i]
<1>2. t \in Task /\ t \in Queued(p) /\ task[t].pc \in {"seed", "set"}
  BY <1>1, ElementOfSeq DEF TypeOK, Queued
<1>3. UNCHANGED <<link, pod, redisReady, inventory, pending, faults>>
  BY DEF ServerSet
<1>4. /\ redisDoc' = task[t].items
      /\ \A u \in Task : task'[u] = Seen(t, u)
      /\ task' = [u \in Task |-> Seen(t, u)]
  BY <1>1
<1> HIDE DEF t
<1>5. task[t].items \in Document \cup {NoDocument}
  BY <1>2 DEF TypeOK, TaskState
<1>6. Writes(task[t].items) \subseteq Request
  BY <1>5, DocumentAssumption DEF Writes, Document
<1>7. ASSUME NEW u \in Task
      PROVE  /\ Seen(t, u) \in TaskState
             /\ Seen(t, u).pc = "idle" <=> task[u].pc = "idle"
             /\ Seen(t, u).items = task[u].items
             /\ Seen(t, u).pc \in {"seed", "seeded"} =>
                  task[u].pc \in {"seed", "seeded"}
             /\ u # t => Seen(t, u).pc = task[u].pc
  <2>1. task[u] \in TaskState /\ task[t] \in TaskState BY <1>2 DEF TypeOK
  <2>2. CASE u = t
    BY <1>2, <2>1, <2>2 DEF TaskState, Executed
  <2>3. CASE u # t
    BY <1>6, <2>1, <2>3 DEF TaskState
  <2> QED BY <2>2, <2>3
<1>8. \A u \in Task : Seen(t, u).pc \in HasRead =>
        Writes(redisDoc') \subseteq Writes(task[u].items) \cup Seen(t, u).missed
  <2> SUFFICES ASSUME NEW u \in Task, Seen(t, u).pc \in HasRead
               PROVE  Writes(redisDoc') \subseteq
                          Writes(task[u].items) \cup Seen(t, u).missed
    OBVIOUS
  <2>0. task[u] \in TaskState BY DEF TypeOK
  <2>1. CASE u = t BY <1>4, <2>1
  <2>2. CASE u # t
    BY <1>4, <1>7, <2>0, <2>2 DEF TaskState
  <2> QED BY <2>1, <2>2
<1> HIDE DEF Seen
<1>9. TypeOK' BY <1>3, <1>4, <1>5, <1>7 DEF TypeOK
<1>10. QueuesApart'
  <2>1. \A q \in Pod : Queued(q)' = Queued(q) BY <1>3 DEF Queued
  <2>2. \A r \in Request : task'[r].pc = "idle" <=> task[r].pc = "idle"
    BY <1>4, <1>7 DEF Task
  <2> QED BY <2>1, <2>2 DEF QueuesApart
<1>11. ReadersKnow'
  <2>1. ASSUME NEW u \in Task, task'[u].pc \in HasRead
        PROVE  Writes(redisDoc') \subseteq
                   Writes(task'[u].items) \cup task'[u].missed
    BY <1>4, <1>7, <1>8, <2>1
  <2>2. ASSUME NEW q \in Pod, NEW u \in Queued(q)',
               task'[u].pc \in {"seed", "seeded"}
        PROVE  Writes(task'[u].items) \subseteq inventory'[q].writes
    <3>1. u \in Queued(q) /\ u \in Task
      BY <1>3, <2>2 DEF Queued, QueuesApart, Task
    <3> QED BY <1>3, <1>4, <1>7, <2>2, <3>1 DEF ReadersKnow
  <2> QED BY <2>1, <2>2 DEF ReadersKnow, Writes
<1> QED BY <1>9, <1>10, <1>11

\* Steps that change neither a task nor a queue nor a memory, and leave the
\* key as it is or absent.
LEMMA AsideKeepsIInv ==
    ASSUME IInv, UNCHANGED <<inventory, pending, task>>,
           redisDoc' \in {redisDoc, NoDocument},
           link' \in [Pod -> {"none", "up", "broken"}],
           pod' \in [Pod -> {"down", "loading", "serving", "failing"}],
           redisReady' \in [Pod -> BOOLEAN],
           faults' \in 0..MaxFaults
    PROVE  IInv'
<1> USE DEF IInv
<1>1. TypeOK' BY DEF TypeOK
<1>2. \A q \in Pod : Queued(q)' = Queued(q) BY DEF Queued
<1>3. QueuesApart' BY <1>2 DEF QueuesApart
<1>4. Writes(redisDoc') \subseteq Writes(redisDoc) BY DEF Writes
<1>5. \A doc : Writes(doc)' = Writes(doc') BY DEF Writes
<1>6. ReadersKnow' BY <1>2, <1>4, <1>5 DEF ReadersKnow, Writes
<1> QED BY <1>1, <1>3, <1>6

\* The start of a pod queues its own load.
LEMMA ConnectKeepsIInv ==
    ASSUME IInv, NEW p \in Pod, Connect(p)
    PROVE  IInv'
<1> USE DEF IInv
<1> DEFINE s == [Idle EXCEPT !.pc = "get"]
<1>1. s \in TaskState /\ s.pc = "get" BY DEF Idle, TaskState, Sent
<1>2. /\ task' = [task EXCEPT ![p] = s]
      /\ pending' = [pending EXCEPT ![p] = Append(<<>>, p)]
      /\ UNCHANGED <<redisDoc, inventory, faults>>
      /\ p \in Task /\ p \notin Request
  BY TaskAssumption DEF Connect, Await, Task
<1> HIDE DEF s
<1>3. <<>> \in Seq(Task) /\ Elements(<<>>) = {} BY NoElements, EmptySeq
<1>4. TurnOf(p, p, <<>>) BY <1>3 DEF TurnOf
<1>5. Turn(p, p, <<>>) /\ task'[p].pc = "get"
  BY <1>1, <1>2 DEF Turn, TypeOK
<1>6. /\ link' \in [Pod -> {"none", "up", "broken"}]
      /\ pod' \in [Pod -> {"down", "loading", "serving", "failing"}]
      /\ redisReady' \in [Pod -> BOOLEAN]
  BY DEF Connect, TypeOK
<1>7. QueuesApart' /\ pending' \in [Pod -> Seq(Task)]
  BY <1>4, <1>5, TurnKeepsQueues
<1>8. TypeOK' BY <1>2, <1>5, <1>6, <1>7 DEF TypeOK, Turn
<1>9. ReadersKnow'
  BY <1>2, <1>4, <1>5, TurnKeepsReaders DEF HasRead
<1> QED BY <1>7, <1>8, <1>9

\* The end of a process drops its queue and leaves the others alone.
LEMMA StopKeepsIInv ==
    ASSUME IInv, NEW p \in Pod, Stop(p), faults' \in 0..MaxFaults
    PROVE  IInv'
<1> USE DEF IInv
<1> DEFINE ended(t) ==
      IF t \in Pod THEN Idle
      ELSE [Idle EXCEPT !.pc = "done", !.op = task[t].op,
                        !.answer = "dropped"]
<1>1. ASSUME NEW t \in Task
      PROVE  /\ ended(t) \in TaskState
             /\ ended(t).pc \in {"idle", "done"}
             /\ t \in Request => ended(t).pc = "done"
  <2>1. task[t].op \in Operation \cup {Boot} BY DEF TypeOK, TaskState
  <2> QED BY <2>1, TaskAssumption DEF Idle, TaskState
<1>2. \A t \in Task : task'[t] = IF t \notin Queued(p) THEN task[t] ELSE ended(t)
  BY DEF Stop
<1>3. task' \in [Task -> TaskState]
  <2>1. task' = [t \in Task |-> IF t \notin Queued(p) THEN task[t] ELSE ended(t)]
    BY DEF Stop
  <2> HIDE DEF ended
  <2> QED BY <1>1, <2>1 DEF TypeOK
<1> HIDE DEF ended
<1>4. /\ redisDoc' = redisDoc
      /\ inventory' = [inventory EXCEPT ![p] = Seed]
      /\ pending' = [pending EXCEPT ![p] = <<>>]
  BY DEF Stop
<1>5. TypeOK'
  <2>1. Seed \in Document BY SeedAssumption DEF Seed, Document
  <2>2. <<>> \in Seq(Task) BY EmptySeq
  <2>3. inventory' \in [Pod -> Document] BY <1>4, <2>1 DEF TypeOK
  <2>4. pending' \in [Pod -> Seq(Task)] BY <1>4, <2>2 DEF TypeOK
  <2>5. /\ link' \in [Pod -> {"none", "up", "broken"}]
        /\ pod' \in [Pod -> {"down", "loading", "serving", "failing"}]
        /\ redisReady' \in [Pod -> BOOLEAN]
    BY DEF Stop, TypeOK
  <2> QED BY <1>3, <1>4, <2>3, <2>4, <2>5 DEF TypeOK
<1>6. Queued(p)' = {} /\ \A q \in Pod \ {p} : Queued(q)' = Queued(q)
  <2>1. pending'[p] = <<>> /\ \A q \in Pod \ {p} : pending'[q] = pending[q]
    BY <1>4 DEF TypeOK
  <2> QED BY <2>1, NoElements DEF Queued, Elements
<1>7. QueuesApart'
  <2>1. \A r \in Request : task[r].pc # "idle" => task'[r].pc # "idle"
    BY <1>1, <1>2 DEF Task
  <2> QED BY <1>6, <2>1 DEF QueuesApart
<1>8. ReadersKnow'
  <2>1. ASSUME NEW u \in Task, task'[u].pc \in HasRead
        PROVE  Writes(redisDoc') \subseteq
                   Writes(task'[u].items) \cup task'[u].missed
    BY <1>1, <1>2, <1>4, <2>1 DEF ReadersKnow, HasRead
  <2>2. ASSUME NEW q \in Pod, NEW u \in Queued(q)',
               task'[u].pc \in {"seed", "seeded"}
        PROVE  Writes(task'[u].items) \subseteq inventory'[q].writes
    <3>1. q # p /\ u \in Queued(q) /\ u \in Task
      BY <1>6, <2>2 DEF QueuesApart, Task
    <3>2. task'[u] = task[u] BY <1>1, <1>2, <2>2, <3>1
    <3>3. inventory'[q] = inventory[q] BY <1>4, <3>1 DEF TypeOK
    <3> QED BY <2>2, <3>1, <3>2, <3>3 DEF ReadersKnow
  <2> QED BY <2>1, <2>2 DEF ReadersKnow, Writes
<1> QED BY <1>5, <1>7, <1>8

-----------------------------------------------------------------------------
(* The theorems.                                                           *)

\* It holds at first, when nothing is queued and the key is absent.
LEMMA InitHolds == Init => IInv
<1> SUFFICES ASSUME Init PROVE IInv OBVIOUS
<1>1. Seed \in Document BY SeedAssumption DEF Seed, Document
<1>2. Idle \in TaskState /\ Idle.pc = "idle" BY DEF Idle, TaskState
<1>3. \A p \in Pod : Queued(p) = {}
  <2>1. \A p \in Pod : pending[p] = <<>> BY DEF Init
  <2> QED BY <2>1, NoElements DEF Queued, Elements
<1>4. TypeOK
  <2>1. <<>> \in Seq(Task) BY EmptySeq
  <2> QED BY <1>1, <1>2, <2>1, BoundAssumption DEF Init, TypeOK
<1>5. QueuesApart BY <1>3 DEF QueuesApart
<1>6. ReadersKnow BY <1>2, <1>3 DEF ReadersKnow, Init, HasRead, Task
<1> QED BY <1>4, <1>5, <1>6 DEF IInv

\* Every step keeps it.
LEMMA NextKeepsIInv == IInv /\ [Next]_vars => IInv'
<1> SUFFICES ASSUME IInv, [Next]_vars PROVE IInv' OBVIOUS
<1> USE DEF IInv
<1>1. CASE ReceiveRequest
  BY <1>1, ReceiveKeepsIInv DEF ReceiveRequest
<1>2. ASSUME NEW p \in Pod, Service(p) PROVE IInv'
  <2>1. CASE ReceiveDocument(p) \/ ContinueSeeded(p) \/ FallBack(p)
    BY <2>1, LoadKeepsIInv
  <2>2. CASE SendSeed(p) \/ AnswerSaved(p) \/ FailToSave(p)
    BY <2>2, ReplyKeepsIInv
  <2>3. CASE Connect(p) BY <2>3, ConnectKeepsIInv
  <2>4. CASE RedisError(p)
    BY <2>4, AsideKeepsIInv DEF RedisError, TypeOK
  <2>5. CASE Exit(p) BY <2>5, StopKeepsIInv DEF Exit, TypeOK
  <2> QED BY <1>2, <2>1, <2>2, <2>3, <2>4, <2>5 DEF Service
<1>3. ASSUME NEW p \in Pod, Redis(p) PROVE IInv'
  BY <1>3, ServerGetKeepsIInv, ServerSetKeepsIInv DEF Redis
<1>4. CASE Environment
  <2>1. ASSUME NEW fault, Happens(fault) PROVE faults' \in 0..MaxFaults
    BY <2>1, BoundAssumption DEF Happens, TypeOK
  <2>2. ASSUME NEW p \in Pod, Crash(p) PROVE IInv'
    BY <2>1, <2>2, StopKeepsIInv DEF Crash
  <2>3. ASSUME NEW p \in Pod, LoseConnection(p) PROVE IInv'
    BY <2>1, <2>3, AsideKeepsIInv DEF LoseConnection, TypeOK
  <2>4. CASE RestartRedis
    <3>1. link' \in [Pod -> {"none", "up", "broken"}]
      BY <2>4 DEF RestartRedis, TypeOK
    <3> QED BY <2>1, <2>4, <3>1, AsideKeepsIInv DEF RestartRedis, TypeOK
  <2>5. CASE DeleteKey
    BY <2>1, <2>5, AsideKeepsIInv DEF DeleteKey, TypeOK
  <2>6. ASSUME NEW p \in Pod, FailToConnect(p) PROVE IInv'
    BY <2>1, <2>6, AsideKeepsIInv DEF FailToConnect, TypeOK
  <2> QED BY <1>4, <2>2, <2>3, <2>4, <2>5, <2>6 DEF Environment
<1>5. CASE UNCHANGED vars
  BY <1>5, AsideKeepsIInv DEF vars, TypeOK
<1> QED BY <1>1, <1>2, <1>3, <1>4, <1>5 DEF Next

\* So it holds in every reachable state.
LEMMA Invariance == Spec => []IInv
BY InitHolds, NextKeepsIInv, PTL DEF Spec

\* Every reachable state of the catalog is well typed.
THEOREM TypeCorrect == Spec => []TypeOK
BY Invariance, PTL DEF IInv

\* A handler on its way to save has, or has missed since it read, every write
\* that Redis has, and no task awaits Redis at two pods.
THEOREM HandlersKeepUp == Spec => []HandlersAndQueues
BY Invariance, PTL DEF IInv, HandlersAndQueues

\* A write leaves Redis only by a handler that read before it was there.
THEOREM WritesAreOnlyLostToOverlap == Spec => NoStaleOverwrite
<1> DEFINE Overwrite ==
      \A w \in Writes(redisDoc) \ Writes(redisDoc') :
          \/ redisDoc' = NoDocument
          \/ \E t \in Task : /\ task[t].pc \in {"seed", "set"}
                             /\ task'[t].pc \in Executed
                             /\ w \in task[t].missed
<1>1. IInv /\ [Next]_vars => [Overwrite]_vars
  <2> SUFFICES ASSUME IInv, Next, redisDoc' # redisDoc, redisDoc' # NoDocument
               PROVE  Overwrite
    BY DEF vars
  <2>1. PICK p \in Pod : ServerSet(p)
    <3>1. ~ReceiveRequest
      BY DEF ReceiveRequest, RefuseMalformed, SendGet, ServeFromMemory
    <3>2. \A p \in Pod : ~Service(p)
      BY DEF Service, ReceiveDocument, SendSeed, ContinueSeeded, AnswerSaved,
             Connect, RedisError, FallBack, FailToSave, Exit, Stop
    <3>3. ~Environment
      BY DEF Environment, FailToConnect, Crash, Stop, LoseConnection,
             RestartRedis, DeleteKey
    <3>4. \A p \in Pod : ~ServerGet(p) BY DEF ServerGet
    <3> QED BY <3>1, <3>2, <3>3, <3>4 DEF Next, Redis
  <2>2. PICK i \in 1..Len(pending[p]) :
          /\ task[pending[p][i]].pc \in {"seed", "set"}
          /\ redisDoc' = task[pending[p][i]].items
          /\ task'[pending[p][i]].pc \in Executed
    <3>1. \A i \in 1..Len(pending[p]) : pending[p][i] \in Task
      BY ElementOfSeq DEF IInv, TypeOK
    <3>2. \A t \in Task : task[t] \in TaskState BY DEF IInv, TypeOK
    <3> QED BY <2>1, <3>1, <3>2 DEF ServerSet, Executed, TaskState
  <2>3. pending[p][i] \in Task BY ElementOfSeq DEF IInv, TypeOK
  <2>4. Writes(redisDoc) \subseteq
            Writes(redisDoc') \cup task[pending[p][i]].missed
    BY <2>2, <2>3 DEF IInv, ReadersKnow, HasRead
  <2> QED BY <2>2, <2>3, <2>4
<1>2. Spec => [][Overwrite]_vars
  BY <1>1, Invariance, PTL DEF Spec
<1> QED BY <1>2 DEF NoStaleOverwrite

-----------------------------------------------------------------------------
(* Where a copy of the inventory comes from: it is one that was there, or   *)
(* the seed, or what a handler that goes on makes of one of these.          *)

\* A request has settled what it asks for once it saves.
Decided(s) == s.pc \in {"set", "saved", "done"}

Known == Copies \cup {NoDocument, Seed}

Made(doc) ==
    \/ doc \in Known
    \/ \E r \in Request, op \in Operation \cup {Boot}, old \in Known \ {NoDocument} :
         /\ ~Decided(task[r]) /\ Decided(task'[r]) /\ task'[r].op = op
         /\ WellFormed(op) /\ Accepts(op, old)
         /\ doc = Updated(r, op, old)

\* What a task still works on was checked when it arrived.
Asked == \A t \in Task : task[t].pc # "done" => WellFormed(task[t].op)

\* What a step does to the copies and to the requests.
CopiesMade ==
    /\ Made(redisDoc')
    /\ \A p \in Pod : Made(inventory'[p])
    /\ \A t \in Task : Made(task'[t].items)
    /\ \A r \in Request :
         Decided(task[r]) => Decided(task'[r]) /\ task'[r].op = task[r].op
    /\ Asked'

\* Every copy there is.
LEMMA CopiesKnown ==
    ASSUME TypeOK
    PROVE  /\ redisDoc \in Known
           /\ \A p \in Pod : inventory[p] \in Known \ {NoDocument}
           /\ \A t \in Task : task[t].items \in Known
           /\ Known \ {NoDocument} \subseteq Document
<1>1. Seed \in Document BY SeedAssumption DEF Seed, Document
<1>2. \A p \in Pod : inventory[p] \in Document BY DEF TypeOK
<1>3. \A t \in Task : task[t].items \in Document \cup {NoDocument}
  BY DEF TypeOK, TaskState
<1>4. redisDoc \in Document \cup {NoDocument} BY DEF TypeOK
<1> QED BY <1>1, <1>2, <1>3, <1>4, DocumentAssumption DEF Known, Copies

\* Nothing but one task and the memories changes.
LEMMA TurnMakesCopies ==
    ASSUME IInv, Asked, NEW t \in Task,
           redisDoc' = redisDoc,
           \A u \in Task \ {t} : task'[u] = task[u],
           \A p \in Pod : Made(inventory'[p]),
           Made(task'[t].items),
           t \in Request /\ Decided(task[t]) =>
               Decided(task'[t]) /\ task'[t].op = task[t].op,
           task'[t].pc # "done" => WellFormed(task'[t].op)
    PROVE  CopiesMade
<1>1. /\ Made(redisDoc') /\ \A u \in Task \ {t} : Made(task'[u].items)
  BY CopiesKnown DEF Made, IInv
<1>2. Asked' BY DEF Asked
<1>3. \A r \in Request :
        Decided(task[r]) => Decided(task'[r]) /\ task'[r].op = task[r].op
  BY DEF Task
<1> QED BY <1>1, <1>2, <1>3 DEF CopiesMade

\* A task that is idle holds no copy.
LEMMA IdleHasNone ==
    ASSUME NEW s, s.items = Idle.items
    PROVE  Made(s.items) /\ WellFormed(Idle.op)
BY DEF Made, Known, Idle, WellFormed, Boot

\* An answer makes no copy.
LEMMA FinishMakesCopies ==
    ASSUME IInv, Asked, NEW t \in Task, NEW p \in Pod, NEW queue,
           NEW op, NEW answer, Finish(t, p, queue, op, answer),
           Decided(task[t]) => op = task[t].op,
           redisDoc' = redisDoc, \A q \in Pod : Made(inventory'[q])
    PROVE  CopiesMade
<1> DEFINE s == [Idle EXCEPT !.pc = "done", !.op = op, !.answer = answer]
<1>1. s.items = Idle.items /\ s.pc = "done" /\ s.op = op BY DEF Idle
<1>2. task' = [task EXCEPT ![t] = s] BY DEF Finish
<1> HIDE DEF s
<1>3. task'[t] = s /\ \A u \in Task \ {t} : task'[u] = task[u]
  BY <1>2 DEF IInv, TypeOK
<1>4. Made(task'[t].items) /\ Decided(task'[t])
  BY <1>1, <1>3, IdleHasNone DEF Decided
<1> QED BY <1>1, <1>3, <1>4, TurnMakesCopies

\* What a handler was answered with an accepted operation.
LEMMA FinishDecides ==
    ASSUME IInv, NEW t \in Task, NEW p \in Pod, NEW queue, NEW op, NEW answer,
           Finish(t, p, queue, op, answer)
    PROVE  Decided(task'[t]) /\ task'[t].op = op
<1> DEFINE s == [Idle EXCEPT !.pc = "done", !.op = op, !.answer = answer]
<1>1. s.pc = "done" /\ s.op = op BY DEF Idle
<1>2. task' = [task EXCEPT ![t] = s] BY DEF Finish
<1> HIDE DEF s
<1> QED BY <1>1, <1>2 DEF IInv, TypeOK, Decided

\* A command takes its copy with it.
LEMMA AwaitMakesCopies ==
    ASSUME IInv, Asked, NEW t \in Task, NEW p \in Pod, NEW queue, NEW s,
           Await(t, p, queue, s), Made(s.items), WellFormed(s.op),
           t \in Request => ~Decided(task[t]),
           redisDoc' = redisDoc, \A q \in Pod : Made(inventory'[q])
    PROVE  CopiesMade
<1>1. task'[t] = s /\ \A u \in Task \ {t} : task'[u] = task[u]
  BY DEF Await, IInv, TypeOK
<1> QED BY <1>1, TurnMakesCopies

\* A handler goes on with a copy.
LEMMA ProceedMakesCopies ==
    ASSUME IInv, Asked, NEW p \in Pod, NEW t \in Request, ~Decided(task[t]),
           NEW queue, NEW op \in Operation \cup {Boot}, WellFormed(op),
           NEW items \in Known \ {NoDocument}, NEW aliased,
           Proceed(t, p, queue, op, items, aliased),
           redisDoc' = redisDoc
    PROVE  CopiesMade
<1> DEFINE next == Updated(t, op, items)
           s == [task[t] EXCEPT !.pc = "set", !.op = op, !.items = next]
<1>0. t \in Task /\ task[t] \in TaskState BY DEF Task, IInv, TypeOK
<1>1. CASE /\ UNCHANGED inventory
           /\ \E answer \in {"ok", "refused"} : Finish(t, p, queue, op, answer)
  <2>1. \A q \in Pod : Made(inventory'[q]) BY <1>1, CopiesKnown DEF Made, IInv
  <2> QED BY <1>0, <1>1, <2>1, FinishMakesCopies
<1>2. CASE /\ Accepts(op, items)
           /\ inventory' = IF aliased \/ ~redisReady[p]
                             THEN [inventory EXCEPT ![p] = next] ELSE inventory
           /\ IF redisReady[p] THEN Await(t, p, queue, s)
                               ELSE Finish(t, p, queue, op, "ok")
  <2>1. s.items = next /\ s.op = op /\ Decided(s)
    <3> HIDE DEF next
    <3> QED BY <1>0 DEF TaskState, Decided
  <2>2. Decided(task'[t]) /\ task'[t].op = op
    <3> HIDE DEF s
    <3>1. CASE redisReady[p]
      <4>1. task'[t] = s BY <1>0, <1>2, <3>1 DEF Await, IInv, TypeOK
      <4> QED BY <2>1, <4>1
    <3>2. CASE ~redisReady[p] BY <1>0, <1>2, <3>2, FinishDecides
    <3> QED BY <3>1, <3>2
  <2>3. Made(next) BY <1>2, <2>2 DEF Made
  <2> HIDE DEF next
  <2>4. \A q \in Pod : Made(inventory'[q])
    <3>1. \A q \in Pod : inventory'[q] \in {inventory[q], next}
      BY <1>2 DEF IInv, TypeOK
    <3>2. \A q \in Pod : Made(inventory[q]) BY CopiesKnown DEF Made, IInv
    <3> QED BY <2>3, <3>1, <3>2
  <2> HIDE DEF s
  <2>5. CASE redisReady[p]
    BY <1>0, <1>2, <2>1, <2>3, <2>4, <2>5, AwaitMakesCopies
  <2>6. CASE ~redisReady[p]
    BY <1>0, <1>2, <2>4, <2>6, FinishMakesCopies
  <2> QED BY <2>5, <2>6
<1> QED BY <1>1, <1>2 DEF Proceed

\* So does whatever follows a load.
LEMMA LoadedMakesCopies ==
    ASSUME IInv, Asked, NEW p \in Pod,
           NEW t \in Request \cup {p}, ~Decided(task[t]), NEW queue,
           NEW items \in Known \ {NoDocument}, NEW aliased,
           Loaded(t, p, queue, items, aliased), redisDoc' = redisDoc
    PROVE  CopiesMade
<1>0. t \in Task /\ task[t] \in TaskState BY DEF Task, IInv, TypeOK
<1>1. CASE t = p
  <2>1. task' = [task EXCEPT ![p] = Idle] /\ UNCHANGED inventory
    BY <1>1 DEF Loaded, Listen
  <2>2. task'[t] = Idle /\ \A u \in Task \ {t} : task'[u] = task[u]
    BY <1>0, <1>1, <2>1 DEF IInv, TypeOK
  <2>3. \A q \in Pod : Made(inventory'[q]) BY <2>1, CopiesKnown DEF Made, IInv
  <2> QED BY <1>0, <2>2, <2>3, IdleHasNone, TurnMakesCopies
<1>2. CASE t # p
  <2>1. t \in Request /\ Proceed(t, p, queue, task[t].op, items, aliased)
    BY <1>2 DEF Loaded
  <2>2. task[t].op \in Operation \cup {Boot} /\ WellFormed(task[t].op)
    BY <1>0 DEF TaskState, Asked, Decided
  <2> QED BY <2>1, <2>2, ProceedMakesCopies
<1> QED BY <1>1, <1>2

\* A process that ends starts again from the seed.
LEMMA StopMakesCopies ==
    ASSUME IInv, Asked, NEW p \in Pod, Stop(p)
    PROVE  CopiesMade
<1>1. redisDoc' = redisDoc /\ \A q \in Pod : inventory'[q] \in {inventory[q], Seed}
  <2>1. redisDoc' = redisDoc /\ inventory' = [inventory EXCEPT ![p] = Seed]
    BY DEF Stop
  <2> QED BY <2>1 DEF IInv, TypeOK
<1>2. \A q \in Pod : Made(inventory'[q])
  BY <1>1, CopiesKnown DEF Made, Known, IInv
<1>3. ASSUME NEW t \in Task
      PROVE  /\ Made(task'[t].items)
             /\ task'[t].pc # "done" => WellFormed(task'[t].op)
             /\ t \in Request /\ Decided(task[t]) =>
                    Decided(task'[t]) /\ task'[t].op = task[t].op
  <2> DEFINE s == [Idle EXCEPT !.pc = "done", !.op = task[t].op,
                               !.answer = "dropped"]
  <2>1. task'[t] = task[t] \/ task'[t] = s \/ (t \in Pod /\ task'[t] = Idle)
    <3>1. task'[t] = IF t \notin Queued(p) THEN task[t]
                     ELSE IF t \in Pod THEN Idle ELSE s
      BY DEF Stop
    <3> HIDE DEF s
    <3> QED BY <3>1
  <2>2. s.pc = "done" /\ s.items = Idle.items /\ s.op = task[t].op BY DEF Idle
  <2> HIDE DEF s
  <2>3. CASE task'[t] = task[t] BY <2>3, CopiesKnown DEF Made, Asked, IInv
  <2>4. CASE task'[t] = s BY <2>2, <2>4, IdleHasNone DEF Decided
  <2>5. CASE t \in Pod /\ task'[t] = Idle
    BY <2>5, IdleHasNone, TaskAssumption
  <2> QED BY <2>1, <2>3, <2>4, <2>5
<1>4. Asked' BY <1>3 DEF Asked
<1>5. Made(redisDoc') BY <1>1, CopiesKnown DEF Made, IInv
<1> QED BY <1>2, <1>3, <1>4, <1>5 DEF CopiesMade, Task

\* A step of a pod.
LEMMA ServiceMakesCopies ==
    ASSUME IInv, Asked, NEW p \in Pod, Service(p)
    PROVE  CopiesMade
<1> DEFINE t == Head(pending[p])
           queue == Tail(pending[p])
<1>1. ASSUME pending[p] # <<>>
      PROVE  t \in Task /\ t \in Request \cup {p} /\ task[t] \in TaskState
  BY <1>1, HeadTakesTurn DEF IInv, QueuesApart, TypeOK
<1>2. /\ inventory[p] \in Known \ {NoDocument}
      /\ \A q \in Pod : inventory'[q] = inventory[q] => Made(inventory'[q])
  BY CopiesKnown DEF Made, IInv
<1>3. CASE ReceiveDocument(p)
  <2>1. /\ pending[p] # <<>> /\ redisDoc' = redisDoc
        /\ ~Decided(task[t]) /\ task[t].items # NoDocument
        /\ Loaded(t, p, queue, task[t].items, FALSE)
    BY <1>3 DEF ReceiveDocument, Reply, Decided
  <2>2. task[t].items \in Known \ {NoDocument}
    BY <1>1, <2>1, CopiesKnown DEF IInv
  <2> HIDE DEF t, queue
  <2> QED BY <1>1, <2>1, <2>2, LoadedMakesCopies
<1>4. CASE ContinueSeeded(p)
  <2>1. /\ pending[p] # <<>> /\ redisDoc' = redisDoc
        /\ ~Decided(task[t])
        /\ Loaded(t, p, queue, inventory[p], TRUE)
    BY <1>4 DEF ContinueSeeded, Reply, Decided
  <2> HIDE DEF t, queue
  <2> QED BY <1>1, <1>2, <2>1, LoadedMakesCopies
<1>5. CASE FallBack(p)
  <2>1. /\ pending[p] # <<>> /\ redisDoc' = redisDoc
        /\ ~Decided(task[t])
        /\ Loaded(t, p, queue, inventory[p], TRUE)
    BY <1>5 DEF FallBack, Loading, Decided
  <2> HIDE DEF t, queue
  <2> QED BY <1>1, <1>2, <2>1, LoadedMakesCopies
<1>6. CASE SendSeed(p)
  <2> DEFINE s == [task[t] EXCEPT !.pc = "seed", !.items = inventory[p]]
  <2>1. /\ pending[p] # <<>> /\ redisDoc' = redisDoc /\ inventory' = inventory
        /\ task[t].pc = "got" /\ ~Decided(task[t]) /\ Await(t, p, queue, s)
    BY <1>6 DEF SendSeed, Reply, Decided
  <2>2. s.items = inventory[p] /\ s.op = task[t].op
    BY <1>1, <2>1 DEF TaskState
  <2>3. WellFormed(s.op) /\ Made(s.items)
    BY <1>1, <1>2, <2>1, <2>2 DEF Asked, Made
  <2>4. \A q \in Pod : Made(inventory'[q]) BY <1>2, <2>1
  <2> HIDE DEF t, queue, s
  <2> QED BY <1>1, <2>1, <2>3, <2>4, AwaitMakesCopies
<1>7. CASE AnswerSaved(p) \/ FailToSave(p)
  <2>1. /\ pending[p] # <<>> /\ redisDoc' = redisDoc /\ inventory' = inventory
        /\ \E answer : Finish(t, p, queue, task[t].op, answer)
    BY <1>7 DEF AnswerSaved, FailToSave, Reply
  <2>2. \A q \in Pod : Made(inventory'[q]) BY <1>2, <2>1
  <2> HIDE DEF t, queue
  <2> QED BY <1>1, <2>1, <2>2, FinishMakesCopies
<1>8. CASE Connect(p)
  <2> DEFINE s == [Idle EXCEPT !.pc = "get"]
  <2>1. /\ redisDoc' = redisDoc /\ inventory' = inventory
        /\ Await(p, p, <<>>, s) /\ p \in Task
    BY <1>8 DEF Connect, Task
  <2>2. s.items = Idle.items /\ s.op = Idle.op BY DEF Idle
  <2>3. \A q \in Pod : Made(inventory'[q]) BY <1>2, <2>1
  <2> HIDE DEF s
  <2>4. Made(s.items) /\ WellFormed(s.op) BY <2>2, IdleHasNone
  <2> QED BY <2>1, <2>3, <2>4, AwaitMakesCopies, TaskAssumption
<1>9. CASE RedisError(p)
  <2>1. UNCHANGED <<redisDoc, inventory, task>>
    BY <1>9 DEF RedisError
  <2> QED BY <2>1, CopiesKnown DEF CopiesMade, Made, Asked, IInv
<1>10. CASE Exit(p)
  BY <1>10, StopMakesCopies DEF Exit
<1> QED BY <1>3, <1>4, <1>5, <1>6, <1>7, <1>8, <1>9, <1>10 DEF Service

\* Any step.
LEMMA NextMakesCopies ==
    ASSUME IInv, Asked, [Next]_vars
    PROVE  CopiesMade
<1>0. ASSUME UNCHANGED <<inventory, task>>, redisDoc' \in {redisDoc, NoDocument}
      PROVE  CopiesMade
  BY <1>0, CopiesKnown DEF CopiesMade, Made, Known, Asked, IInv
<1>1. ASSUME NEW r \in Request, NEW p \in Pod, NEW op \in Operation,
             \/ RefuseMalformed(r, p, op)
             \/ SendGet(r, p, op)
             \/ ServeFromMemory(r, p, op)
      PROVE  CopiesMade
  <2>0. r \in Task /\ ~Decided(task[r])
    BY <1>1 DEF Task, Decided, RefuseMalformed, SendGet, ServeFromMemory
  <2>1. \A q \in Pod : inventory'[q] = inventory[q] => Made(inventory'[q])
    BY CopiesKnown DEF Made, IInv
  <2>2. CASE RefuseMalformed(r, p, op)
    <3>1. /\ redisDoc' = redisDoc /\ inventory' = inventory
          /\ Finish(r, p, pending[p], op, "refused")
      BY <2>2 DEF RefuseMalformed
    <3> QED BY <2>0, <2>1, <3>1, FinishMakesCopies
  <2>3. CASE SendGet(r, p, op)
    <3> DEFINE s == [Idle EXCEPT !.pc = "get", !.op = op]
    <3>1. /\ redisDoc' = redisDoc /\ inventory' = inventory
          /\ Await(r, p, pending[p], s) /\ WellFormed(op)
      BY <2>3 DEF SendGet
    <3>2. s.items = Idle.items /\ s.op = op BY DEF Idle
    <3> HIDE DEF s
    <3>3. Made(s.items) BY <3>2, IdleHasNone
    <3> QED BY <2>0, <2>1, <3>1, <3>2, <3>3, AwaitMakesCopies
  <2>4. CASE ServeFromMemory(r, p, op)
    <3>1. /\ redisDoc' = redisDoc /\ WellFormed(op)
          /\ Proceed(r, p, pending[p], op, inventory[p], TRUE)
      BY <2>4 DEF ServeFromMemory
    <3>2. inventory[p] \in Known \ {NoDocument} BY CopiesKnown DEF IInv
    <3> QED BY <2>0, <3>1, <3>2, ProceedMakesCopies
  <2> QED BY <1>1, <2>2, <2>3, <2>4
<1>2. ASSUME NEW p \in Pod, ServerGet(p) PROVE CopiesMade
  <2>1. PICK i \in 1..Len(pending[p]) :
          LET t == pending[p][i] IN
          /\ task[t].pc = "get"
          /\ task' = [task EXCEPT ![t].pc = "got", ![t].items = redisDoc,
                                  ![t].missed = {}]
    BY <1>2 DEF ServerGet
  <2> DEFINE t == pending[p][i]
  <2>2. t \in Task BY <2>1, ElementOfSeq DEF IInv, TypeOK
  <2>3. /\ task[t].pc = "get"
        /\ task' = [task EXCEPT ![t].pc = "got", ![t].items = redisDoc,
                                ![t].missed = {}]
    BY <2>1
  <2> HIDE DEF t
  <2>4. /\ task'[t].items = redisDoc /\ task'[t].op = task[t].op
        /\ \A u \in Task \ {t} : task'[u] = task[u]
    BY <2>2, <2>3 DEF IInv, TypeOK, TaskState
  <2>5. redisDoc' = redisDoc /\ inventory' = inventory
    BY <1>2 DEF ServerGet
  <2>6. Made(redisDoc) /\ \A q \in Pod : Made(inventory'[q])
    BY <2>5, CopiesKnown DEF Made, IInv
  <2>7. ~Decided(task[t]) /\ WellFormed(task[t].op)
    BY <2>2, <2>3 DEF Decided, Asked
  <2> QED BY <2>2, <2>4, <2>5, <2>6, <2>7, TurnMakesCopies
<1>3. ASSUME NEW p \in Pod, ServerSet(p) PROVE CopiesMade
  <2>1. PICK t \in Task :
          /\ task[t].pc \in {"seed", "set"}
          /\ redisDoc' = task[t].items
          /\ \A u \in Task :
               task'[u] = IF u = t
                 THEN [task[t] EXCEPT
                         !.pc = IF @ = "set" THEN "saved" ELSE "seeded",
                         !.missed = {}]
                 ELSE IF task[u].pc \in HasRead
                        THEN [task[u] EXCEPT !.missed =
                                                 @ \cup Writes(task[t].items)]
                        ELSE task[u]
    <3>1. \A i \in 1..Len(pending[p]) : pending[p][i] \in Task
      BY ElementOfSeq DEF IInv, TypeOK
    <3> QED BY <1>3, <3>1 DEF ServerSet
  <2>2. ASSUME NEW u \in Task
        PROVE  /\ task'[u].items = task[u].items
               /\ task'[u].op = task[u].op
               /\ task'[u].pc # "done" => task[u].pc # "done"
               /\ Decided(task[u]) => Decided(task'[u])
    <3>1. task[u] \in TaskState BY DEF IInv, TypeOK
    <3>2. CASE u = t BY <2>1, <3>1, <3>2 DEF TaskState, Decided
    <3>3. CASE u # t BY <2>1, <3>1, <3>3 DEF TaskState, Decided
    <3> QED BY <3>2, <3>3
  <2>3. inventory' = inventory BY <1>3 DEF ServerSet
  <2>4. /\ Made(redisDoc') /\ \A q \in Pod : Made(inventory'[q])
        /\ \A u \in Task : Made(task'[u].items)
    BY <2>1, <2>2, <2>3, CopiesKnown DEF Made, IInv
  <2>5. Asked' BY <2>2 DEF Asked
  <2> QED BY <2>2, <2>4, <2>5 DEF CopiesMade, Task
<1>4. CASE Environment
  <2>1. ASSUME NEW p \in Pod, Crash(p) PROVE CopiesMade
    BY <2>1, StopMakesCopies DEF Crash
  <2>2. CASE \/ RestartRedis \/ DeleteKey
             \/ \E p \in Pod : FailToConnect(p) \/ LoseConnection(p)
    BY <1>0, <2>2 DEF RestartRedis, DeleteKey, FailToConnect, LoseConnection
  <2> QED BY <1>4, <2>1, <2>2 DEF Environment
<1>5. CASE UNCHANGED vars
  BY <1>0, <1>5 DEF vars
<1> QED
  BY <1>1, <1>2, <1>3, <1>4, <1>5, ServiceMakesCopies
  DEF Next, ReceiveRequest, Redis

\* Every request that is under way is well formed.
LEMMA AskedAlways == Spec => []Asked
<1>1. Init => Asked
  BY IdleHasNone DEF Init, Asked
<1>2. IInv /\ Asked /\ [Next]_vars => Asked'
  BY NextMakesCopies DEF CopiesMade
<1> QED BY <1>1, <1>2, Invariance, PTL DEF Spec

-----------------------------------------------------------------------------
(* No copy of the inventory goes below zero by more than one line of a     *)
(* reservation that names a product twice, or than it was added with.      *)

Enough(stock, x) == stock >= 0 \/ \E op \in Operation : ShortBy(op, x, stock)

Sound(doc) ==
    doc # NoDocument => \A x \in Product : Enough(doc.stock[x], x)

AllSound ==
    /\ Sound(redisDoc)
    /\ \A p \in Pod : Sound(inventory[p])
    /\ \A t \in Task : Sound(task[t].items)

\* An accepted operation leaves a sound copy sound, stale or not.
LEMMA UpdatedIsSound ==
    ASSUME NEW r \in Request, NEW op \in Operation \cup {Boot},
           NEW doc \in Document, Sound(doc),
           WellFormed(op), Accepts(op, doc)
    PROVE  Sound(Updated(r, op, doc))
<1> DEFINE d == Mutation(op, doc)
<1>1. \A x \in Product : doc.stock[x] \in Int /\ Enough(doc.stock[x], x)
  BY DocumentAssumption DEF Sound, Document
<1>2. \A x \in Product : Enough(d.stock[x], x)
  <2>1. CASE op \in Operation /\ op \in Reservation
    <3>1. op.kind = "reserve" BY <2>1 DEF Reservation
    <3>2. \A x \in Product : d.stock[x] = doc.stock[x] - Quantity(op, x)
      BY <3>1 DEF Mutation, Decrement, Document
    <3>3. ASSUME NEW x \in Product
          PROVE  Enough(doc.stock[x] - Quantity(op, x), x)
      <4> DEFINE f == op.lines[x].first
                 g == op.lines[x].second
                 n == doc.stock[x]
      <4>1. f \in Nat /\ g \in Nat /\ n \in Int
        BY <1>1, <2>1, <3>1 DEF Reservation, Lines
      <4>2. (f > 0 => n >= f) /\ (g > 0 => n >= g)
        BY <3>1 DEF Accepts, InStock, Covers
      <4>3. Quantity(op, x) = f + g BY DEF Quantity
      <4>4. CASE f = 0 /\ g = 0
        <5>1. n - (f + g) = n BY <4>1, <4>4
        <5> QED BY <1>1, <4>3, <5>1
      <4>5. CASE (f = 0) # (g = 0)
        <5>1. n - (f + g) >= 0 BY <4>1, <4>2, <4>5
        <5> QED BY <4>3, <5>1 DEF Enough
      <4>6. CASE f # 0 /\ g # 0
        <5>1. /\ f > 0 /\ g > 0
              /\ n - (f + g) >= -f /\ n - (f + g) >= -g
          BY <4>1, <4>2, <4>6
        <5>2. ShortBy(op, x, n - (f + g)) BY <3>1, <5>1 DEF ShortBy
        <5> QED BY <2>1, <4>3, <5>2 DEF Enough
      <4> QED BY <4>4, <4>5, <4>6
    <3> HIDE DEF d
    <3> QED BY <1>1, <3>2, <3>3
  <2>2. CASE op \in Operation /\ op \in Addition
    <3>1. op.kind = "add" /\ op.stock \in Int /\ op.product \in Product
      BY <2>2 DEF Addition
    <3>2. d.stock = [doc.stock EXCEPT ![op.product] = op.stock]
      BY <3>1 DEF Mutation, AddProduct, Document
    <3>3. Enough(op.stock, op.product)
      BY <2>2, <3>1 DEF Enough, ShortBy
    <3> HIDE DEF d
    <3> QED BY <1>1, <3>1, <3>2, <3>3 DEF Document
  <2>3. CASE op \in Correction
    <3>1. op.kind = "patch" /\ op.stock >= 0 /\ op.product \in Product
      BY <2>3 DEF Correction, WellFormed
    <3>2. d.stock = [doc.stock EXCEPT ![op.product] = op.stock]
      BY <3>1 DEF Mutation, SetStock, Document
    <3>3. Enough(op.stock, op.product) BY <3>1 DEF Enough
    <3> HIDE DEF d
    <3> QED BY <1>1, <3>1, <3>2, <3>3 DEF Document
  <2>4. CASE op \in Removal
    <3>1. op.kind = "delete" /\ op.product \in Product
      BY <2>4 DEF Removal
    <3>2. d.stock = [doc.stock EXCEPT ![op.product] = 0]
      BY <3>1 DEF Mutation, RemoveProduct, Document
    <3>3. Enough(0, op.product) BY DEF Enough
    <3> HIDE DEF d
    <3> QED BY <1>1, <3>1, <3>2, <3>3 DEF Document
  <2>5. CASE op \in Listing \cup {Boot}
    BY <1>1, <2>5 DEF Mutation, Listing, Boot
  <2> QED BY <2>1, <2>2, <2>3, <2>4, <2>5, OperationAssumption
<1>3. Updated(r, op, doc).stock = d.stock
  <2>1. Updated(r, op, doc) = [d EXCEPT !.writes = @ \cup {r}]
    BY DEF Updated
  <2> HIDE DEF d
  <2>2. Updated(r, op, doc) \in Document BY UpdatedIsDocument
  <2> QED BY <2>1, <2>2 DEF Document
<1> HIDE DEF d
<1> QED BY <1>2, <1>3 DEF Sound

\* So no step makes a copy unsound.
LEMMA NextKeepsSound ==
    ASSUME IInv, Asked, AllSound, [Next]_vars
    PROVE  AllSound'
<1>1. Sound(Seed) BY SeedAssumption DEF Sound, Enough, Seed
<1>2. \A doc \in Known : Sound(doc) BY <1>1 DEF Known, Copies, AllSound, Sound
<1>3. ASSUME NEW doc, Made(doc) PROVE Sound(doc)
  <2>1. CASE doc \in Known BY <1>2, <2>1
  <2>2. ASSUME NEW r \in Request, NEW op \in Operation \cup {Boot},
               NEW old \in Known \ {NoDocument},
               WellFormed(op), Accepts(op, old), doc = Updated(r, op, old)
        PROVE  Sound(doc)
    <3>1. old \in Document /\ Sound(old) BY <1>2, CopiesKnown DEF IInv
    <3> QED BY <2>2, <3>1, UpdatedIsSound
  <2> QED BY <1>3, <2>1, <2>2 DEF Made
<1> QED BY <1>3, NextMakesCopies DEF CopiesMade, AllSound, Sound

\* Whatever operations there are, no pod, no handler and not Redis ever has a
\* stock below zero, however the handlers overlap and whatever fails, by more
\* than a line of a reservation that names a product twice, or than it was
\* added with.
THEOREM StockCoversLines == Spec => []StockCoversEachLine
<1>1. Init => AllSound
  <2> SUFFICES ASSUME Init PROVE AllSound OBVIOUS
  <2>1. Sound(NoDocument) BY DEF Sound
  <2>2. Sound(Seed) BY SeedAssumption DEF Sound, Enough, Seed
  <2> QED BY <2>1, <2>2 DEF Init, AllSound, Idle
<1>2. IInv /\ Asked /\ AllSound /\ [Next]_vars => AllSound'
  BY NextKeepsSound
<1>3. AllSound => StockCoversEachLine
  BY DEF AllSound, StockCoversEachLine, Copies, Sound, Enough
<1> QED BY <1>1, <1>2, <1>3, Invariance, AskedAlways, PTL DEF Spec

\* So it is never negative at all where each reservation names a product once
\* and products are added with no negative stock.
OneLineEach ==
    \A op \in Operation :
        /\ op.kind = "reserve" => \A x \in Product : op.lines[x].second = 0
        /\ op.kind = "add"     => op.stock >= 0

NonNegative == \A doc \in Copies : \A x \in Product : doc.stock[x] >= 0

\* Where no operation is of that kind, no copy of the stock is ever negative.
THEOREM StockNeverNegative == OneLineEach /\ Spec => []NonNegative
<1>1. ASSUME OneLineEach, TypeOK, StockCoversEachLine PROVE NonNegative
  <2> SUFFICES ASSUME NEW doc \in Copies, NEW x \in Product,
                      NEW op \in Operation, ShortBy(op, x, doc.stock[x])
               PROVE  doc.stock[x] >= 0
    BY <1>1 DEF NonNegative, StockCoversEachLine
  <2>1. doc.stock[x] \in Int
    BY <1>1 DEF TypeOK, Copies, Document, TaskState
  <2>2. CASE op.kind = "reserve"
    BY <1>1, <2>2 DEF OneLineEach, ShortBy
  <2>3. CASE op.kind = "add"
    <3>1. op.stock \in Int
      BY <2>3, OperationAssumption
      DEF Reservation, Addition, Correction, Removal, Listing
    <3>2. op.stock >= 0 /\ doc.stock[x] >= op.stock
      BY <1>1, <2>3 DEF OneLineEach, ShortBy
    <3> QED BY <2>1, <3>1, <3>2
  <2> QED BY <2>2, <2>3 DEF ShortBy
<1>2. OneLineEach => OneLineEach' BY DEF OneLineEach
<1> QED BY <1>1, <1>2, TypeCorrect, StockCoversLines, PTL

-----------------------------------------------------------------------------
(* The reservations in a copy of the inventory account for its stock.       *)

TakenBy(tasks, requests, x) ==
    SumFunctionOnSet([r \in requests |-> Quantity(tasks[r].op, x)], requests)

Accounted(tasks, doc) ==
    doc # NoDocument =>
        /\ IsFiniteSet(doc.writes) /\ doc.writes \subseteq Request
        /\ \A r \in doc.writes : Decided(tasks[r])
        /\ (\A r \in doc.writes : tasks[r].op.kind = "reserve") =>
             \A x \in Product :
                 doc.stock[x] = SeedStock[x] - TakenBy(tasks, doc.writes, x)

AllAccounted ==
    /\ Accounted(task, redisDoc)
    /\ \A p \in Pod : Accounted(task, inventory[p])
    /\ \A t \in Task : Accounted(task, task[t].items)

\* What a reservation asks for is a natural number.
LEMMA QuantityIsNat ==
    ASSUME NEW op \in Operation \cup {Boot}, op.kind = "reserve", NEW x \in Product
    PROVE  Quantity(op, x) \in Nat
<1>1. op \in Reservation
  BY OperationAssumption
  DEF Boot, Reservation, Addition, Correction, Removal, Listing
<1> QED BY <1>1 DEF Reservation, Lines, Quantity

\* A reservation that is accepted takes off what it asks for.
LEMMA UpdatedTakes ==
    ASSUME NEW r \in Request, NEW op \in Operation \cup {Boot},
           NEW doc \in Document, op.kind = "reserve", NEW x \in Product
    PROVE  Updated(r, op, doc).stock[x] = doc.stock[x] - Quantity(op, x)
<1> DEFINE d == Mutation(op, doc)
<1>1. d.stock[x] = doc.stock[x] - Quantity(op, x)
  BY DEF Mutation, Decrement, Document
<1>2. Updated(r, op, doc) = [d EXCEPT !.writes = @ \cup {r}] BY DEF Updated
<1> HIDE DEF d
<1>3. Updated(r, op, doc) \in Document BY UpdatedIsDocument
<1>4. Updated(r, op, doc).stock = d.stock BY <1>2, <1>3 DEF Document
<1> QED BY <1>1, <1>4

\* Requests that were decided stay as they are, and so does what they took.
LEMMA AccountStays ==
    ASSUME TypeOK, TypeOK', NEW doc \in Document, Accounted(task, doc),
           \A r \in Request :
             Decided(task[r]) => Decided(task'[r]) /\ task'[r].op = task[r].op
    PROVE  Accounted(task', doc)
<1> DEFINE W == doc.writes
<1>1. /\ IsFiniteSet(W) /\ W \subseteq Request
      /\ \A r \in W : Decided(task[r]) /\ Decided(task'[r])
                       /\ task'[r].op = task[r].op
  BY DocumentAssumption DEF Accounted
<1>2. ASSUME \A r \in W : task'[r].op.kind = "reserve", NEW x \in Product
      PROVE  doc.stock[x] = SeedStock[x] - TakenBy(task', W, x)
  <2> DEFINE f == [r \in W |-> Quantity(task[r].op, x)]
             g == [r \in W |-> Quantity(task'[r].op, x)]
  <2>1. \A r \in W : task[r].op \in Operation \cup {Boot}
    BY <1>1 DEF TypeOK, TaskState, Task
  <2>2. \A r \in W : f[r] \in Int /\ f[r] = g[r]
    BY <1>1, <1>2, <2>1, QuantityIsNat
  <2>3. SumFunctionOnSet(f, W) = SumFunctionOnSet(g, W)
    <3> HIDE DEF f, g, W
    <3> QED BY <1>1, <2>2, SumOfSame
  <2>4. doc.stock[x] = SeedStock[x] - TakenBy(task, W, x)
    BY <1>1, <1>2, DocumentAssumption DEF Accounted
  <2> QED BY <2>3, <2>4 DEF TakenBy
<1> QED BY <1>1, <1>2 DEF Accounted

\* A handler adds its request, which is in no copy before.
LEMMA AccountGrows ==
    ASSUME TypeOK, TypeOK', NEW doc \in Document, Accounted(task, doc),
           \A r \in Request :
             Decided(task[r]) => Decided(task'[r]) /\ task'[r].op = task[r].op,
           NEW t \in Request, ~Decided(task[t]), Decided(task'[t]),
           NEW op \in Operation \cup {Boot}, task'[t].op = op
    PROVE  Accounted(task', Updated(t, op, doc))
<1> DEFINE next == Updated(t, op, doc)
           V == doc.writes
           W == V \cup {t}
<1>1. /\ IsFiniteSet(V) /\ V \subseteq Request
      /\ \A r \in V : Decided(task[r]) /\ Decided(task'[r])
                       /\ task'[r].op = task[r].op
  BY DocumentAssumption DEF Accounted
<1>2. next \in Document /\ next.writes = W BY UpdatedIsDocument
<1>3. IsFiniteSet(W) /\ W \subseteq Request /\ t \notin V
  BY <1>1, FS_AddElement
<1>4. ASSUME \A r \in W : task'[r].op.kind = "reserve", NEW x \in Product
      PROVE  next.stock[x] = SeedStock[x] - TakenBy(task', W, x)
  <2> DEFINE f == [r \in V |-> Quantity(task'[r].op, x)]
             g == [r \in W |-> Quantity(task'[r].op, x)]
  <2>0. Accounted(task', doc) BY AccountStays
  <2>1. doc.stock[x] = SeedStock[x] - SumFunctionOnSet(f, V)
    BY <1>1, <1>4, <2>0, DocumentAssumption DEF Accounted, TakenBy
  <2>2. \A r \in W : task'[r].op \in Operation \cup {Boot}
    BY <1>3 DEF TypeOK, TaskState, Task
  <2>3. /\ \A r \in W : g[r] \in Int
        /\ \A r \in V : f[r] \in Int /\ f[r] = g[r]
        /\ g[t] = Quantity(op, x)
    BY <1>4, <2>2, QuantityIsNat
  <2>4. SumFunctionOnSet(f, V) = SumFunctionOnSet(g, V)
    <3> HIDE DEF f, g, V
    <3> QED BY <1>1, <2>3, SumOfSame
  <2>5. SumFunctionOnSet(g, W) = SumFunctionOnSet(g, V) + g[t]
    <3>1. \A r \in V \cup {t} : g[r] \in Int BY <2>3
    <3> HIDE DEF g, V
    <3> QED BY <1>1, <1>3, <3>1, SumOneMore
  <2>6. SumFunctionOnSet(g, V) \in Int
    <3>1. \A r \in V : g[r] \in Int BY <2>3
    <3> HIDE DEF g, V
    <3> QED BY <1>1, <3>1, SumOfOne
  <2>7. next.stock[x] = doc.stock[x] - Quantity(op, x)
    BY <1>4, UpdatedTakes
  <2>8. SeedStock[x] \in Int /\ Quantity(op, x) \in Int
    BY <1>4, SeedAssumption, QuantityIsNat
  <2> HIDE DEF f, g, next, V
  <2>9. next.stock[x] = SeedStock[x] - SumFunctionOnSet(g, W)
    BY <2>1, <2>3, <2>4, <2>5, <2>6, <2>7, <2>8
  <2> QED BY <2>9 DEF TakenBy, g
<1>5. \A r \in W : Decided(task'[r]) BY <1>1
<1> HIDE DEF next, W
<1>6. Accounted(task', next) BY <1>2, <1>3, <1>4, <1>5 DEF Accounted
<1> QED BY <1>6 DEF next

\* So every step keeps the account.
LEMMA NextKeepsAccounts ==
    ASSUME IInv, Asked, IInv', AllAccounted, [Next]_vars
    PROVE  AllAccounted'
<1>1. Accounted(task, Seed)
  <2>1. Seed.writes = {} /\ Seed.stock = SeedStock /\ IsFiniteSet({})
    BY FS_EmptySet DEF Seed
  <2>2. \A x : TakenBy(task, {}, x) = 0 BY SumOfNone DEF TakenBy
  <2>3. \A x \in Product : SeedStock[x] - 0 = SeedStock[x] BY SeedAssumption
  <2> QED BY <2>1, <2>2, <2>3 DEF Accounted
<1>2. \A doc \in Known : Accounted(task, doc)
  BY <1>1 DEF Known, Copies, AllAccounted, Accounted
<1>3. CopiesMade BY NextMakesCopies
<1>4. ASSUME NEW doc, Made(doc) PROVE Accounted(task', doc)
  <2>1. CASE doc \in Known \ {NoDocument}
    <3>1. doc \in Document /\ Accounted(task, doc)
      BY <1>2, <2>1, CopiesKnown DEF IInv
    <3> QED BY <1>3, <3>1, AccountStays DEF CopiesMade, IInv
  <2>2. ASSUME NEW r \in Request, NEW op \in Operation \cup {Boot},
               NEW old \in Known \ {NoDocument},
               ~Decided(task[r]), Decided(task'[r]), task'[r].op = op,
               doc = Updated(r, op, old)
        PROVE  Accounted(task', doc)
    <3>1. old \in Document /\ Accounted(task, old)
      BY <1>2, CopiesKnown DEF IInv
    <3> QED BY <1>3, <2>2, <3>1, AccountGrows DEF CopiesMade, IInv
  <2>3. CASE doc = NoDocument BY <2>3 DEF Accounted
  <2> QED BY <1>4, <2>1, <2>2, <2>3 DEF Made
<1> QED BY <1>3, <1>4 DEF CopiesMade, AllAccounted

\* So it holds in every reachable state.
LEMMA AccountedAlways == Spec => []AllAccounted
<1>1. Init => AllAccounted
  <2> SUFFICES ASSUME Init PROVE AllAccounted OBVIOUS
  <2>1. Accounted(task, NoDocument) BY DEF Accounted
  <2>2. Accounted(task, Seed)
    <3>1. Seed.writes = {} /\ Seed.stock = SeedStock /\ IsFiniteSet({})
      BY FS_EmptySet DEF Seed
    <3>2. \A x : TakenBy(task, {}, x) = 0 BY SumOfNone DEF TakenBy
    <3>3. \A x \in Product : SeedStock[x] - 0 = SeedStock[x] BY SeedAssumption
    <3> QED BY <3>1, <3>2, <3>3 DEF Accounted
  <2> QED BY <2>1, <2>2 DEF Init, AllAccounted, Idle
<1>2. IInv /\ Asked /\ IInv' /\ AllAccounted /\ [Next]_vars => AllAccounted'
  BY NextKeepsAccounts
<1> QED BY <1>1, <1>2, Invariance, AskedAlways, PTL DEF Spec

\* Whatever fails and however handlers overlap, every copy of the inventory on
\* which only reservations were made has the seed less each of them, whole and
\* once.
THEOREM CopiesAreAccountedFor == Spec => []CopiesAccountForTheirWrites
<1>1. AllAccounted => CopiesAccountForTheirWrites
  BY ZenonT(30)
  DEF AllAccounted, CopiesAccountForTheirWrites, Copies, Accounted, TakenBy,
      Taken
<1> QED BY <1>1, AccountedAlways, PTL

-----------------------------------------------------------------------------
(* Where a request stands: what its handler awaits, in which order, and     *)
(* what it is about to save.                                                *)

\* The commands of a connection are executed in order.
QueuesInOrder ==
    \A p \in Pod :
        /\ Once(pending[p])
        /\ \A t \in Queued(p) : task[t].pc \in Sent \cup Executed
        /\ \A t, u \in Queued(p) :
             Before(pending[p], t, u) /\ task[u].pc \in Executed =>
                 task[t].pc \in Executed

\* A request that waits has no answer, and is one of those that were asked.
UnderWay ==
    \A t \in Task :
        /\ task[t].pc # "done" => task[t].answer = "none"
        /\ t \in Request /\ task[t].pc # "idle" => task[t].op \in Operation
        /\ task[t].pc \in Saving => t \in Request
        /\ task[t].pc \in {"seed", "set"} => task[t].items # NoDocument

\* What a turn leaves of the queue of its pod.
Kept(p, t, queue) ==
    /\ Once(queue) /\ t \notin Elements(queue)
    /\ \A x, y : Before(queue, x, y) => Before(pending[p], x, y)
    /\ \A x \in Elements(queue) : \A y :
         Before(pending[p], x, y) => Before(queue, x, y)

\* A turn ends: with an answer, or a pod that listens; or it waits for Redis.
Ends(p, t, queue) ==
    /\ task'[t].pc \in {"idle", "done"} /\ task'[t].items = NoDocument
    /\ pending'[p] = queue
    /\ task'[t].pc = "idle" => task'[t].answer = "none"
    /\ t \in Request => task'[t].op \in Operation

\* What a handler goes on with, which it has read or which is in memory.
AtHand(p, t, doc) ==
    /\ doc # NoDocument
    /\ doc = inventory[p] \/ (task[t].pc = "got" /\ doc = task[t].items)

Waits(p, t, queue) ==
    /\ pending'[p] = Append(queue, t)
    /\ task'[t].answer = "none"
    /\ t \in Request => task'[t].op \in Operation
    /\ \/ task'[t].pc = "get" /\ task'[t].items = NoDocument
       \/ task'[t].pc = "seed" /\ task'[t].items = inventory[p]
       \/ /\ task'[t].pc = "set" /\ t \in Request /\ ~Decided(task[t])
          /\ Mutates(task'[t].op)
          /\ \E old : /\ AtHand(p, t, old) /\ Accepts(task'[t].op, old)
                      /\ task'[t].items = Updated(t, task'[t].op, old)

\* One task of a pod has its turn.
TakesTurn(p, t, queue) ==
    /\ TurnOf(p, t, queue) /\ Turn(p, t, queue) /\ Kept(p, t, queue)
    /\ redisDoc' = redisDoc
    /\ \A q \in Pod \ {p} : inventory'[q] = inventory[q]
    /\ inventory'[p].writes \subseteq inventory[p].writes \cup {t}
    /\ Ends(p, t, queue) \/ Waits(p, t, queue)

\* Nothing happens to a task.
Aside ==
    /\ UNCHANGED <<inventory, pending, task>>
    /\ redisDoc' \in {redisDoc, NoDocument}

\* The head leaves a queue, or the whole queue stays, or there is none.
LEMMA QueueIsKept ==
    ASSUME TypeOK, QueuesInOrder, NEW p \in Pod, NEW t, NEW queue,
           \/ pending[p] # <<>> /\ t = Head(pending[p]) /\ queue = Tail(pending[p])
           \/ t \notin Queued(p) /\ queue = pending[p]
           \/ queue = <<>>
    PROVE  Kept(p, t, queue)
<1>0. pending[p] \in Seq(Task) /\ Once(pending[p])
  BY DEF TypeOK, QueuesInOrder
<1>1. CASE pending[p] # <<>> /\ t = Head(pending[p]) /\ queue = Tail(pending[p])
  <2>1. Once(queue) /\ t \notin Elements(queue) BY <1>0, <1>1, TakeHead
  <2>2. \A x, y : /\ Before(queue, x, y) => Before(pending[p], x, y)
                  /\ Before(pending[p], x, y) /\ x # t => Before(queue, x, y)
    BY <1>0, <1>1, OrderOfTail
  <2> QED BY <2>1, <2>2 DEF Kept
<1>2. CASE t \notin Queued(p) /\ queue = pending[p]
  BY <1>0, <1>2 DEF Kept, Queued, Elements
<1>3. CASE queue = <<>>
  BY <1>3, NoElements, OrderIsOfElements DEF Kept
<1> QED BY <1>1, <1>2, <1>3

\* An answer ends a turn.
LEMMA FinishEnds ==
    ASSUME TypeOK, NEW p \in Pod, NEW t \in Task, NEW queue, NEW op, NEW answer,
           Finish(t, p, queue, op, answer), t \in Request => op \in Operation
    PROVE  Ends(p, t, queue) /\ task'[t].pc = "done"
<1> DEFINE s == [Idle EXCEPT !.pc = "done", !.op = op, !.answer = answer]
<1>1. s.pc = "done" /\ s.items = NoDocument /\ s.op = op BY DEF Idle
<1>2. task' = [task EXCEPT ![t] = s] /\ pending' = [pending EXCEPT ![p] = queue]
  BY DEF Finish
<1> HIDE DEF s
<1>3. task'[t] = s /\ pending'[p] = queue BY <1>2 DEF TypeOK
<1> QED BY <1>1, <1>3 DEF Ends

\* A command makes it wait.
LEMMA AwaitWaits ==
    ASSUME TypeOK, NEW p \in Pod, NEW t \in Task, NEW queue, NEW s,
           Await(t, p, queue, s)
    PROVE  task'[t] = s /\ pending'[p] = Append(queue, t)
BY DEF Await, TypeOK

\* A handler goes on with what it has at hand.
LEMMA ProceedTakesTurn ==
    ASSUME IInv, NEW p \in Pod, NEW t \in Request, ~Decided(task[t]),
           task[t].answer = "none", NEW queue,
           TurnOf(p, t, queue), Kept(p, t, queue),
           NEW op \in Operation, NEW items \in Document, AtHand(p, t, items),
           NEW aliased \in BOOLEAN,
           aliased \/ ~redisReady[p] => items = inventory[p],
           redisReady[p] =>
             Writes(redisDoc) \subseteq Writes(items) \cup task[t].missed,
           Proceed(t, p, queue, op, items, aliased), redisDoc' = redisDoc
    PROVE  /\ TakesTurn(p, t, queue)
           /\ task'[t].pc \in {"done", "set"}
           /\ ~redisReady[p] => task'[t].pc = "done"
<1> DEFINE next == Updated(t, op, items)
           s == [task[t] EXCEPT !.pc = "set", !.op = op, !.items = next]
<1>0. t \in Task /\ task[t] \in TaskState BY DEF Task, IInv, TypeOK
<1>1. Turn(p, t, queue) BY ProceedIsTurn DEF IInv
<1>2. next.writes = items.writes \cup {t} BY UpdatedIsDocument
<1>3. /\ \A q \in Pod \ {p} : inventory'[q] = inventory[q]
      /\ inventory'[p].writes \subseteq inventory[p].writes \cup {t}
  <2>1. CASE UNCHANGED inventory BY <2>1
  <2>2. CASE inventory' = IF aliased \/ ~redisReady[p]
                            THEN [inventory EXCEPT ![p] = next] ELSE inventory
    <3> HIDE DEF next
    <3> QED BY <1>2, <2>2 DEF IInv, TypeOK
  <2> HIDE DEF next
  <2> QED BY <2>1, <2>2 DEF Proceed, next
<1>4. CASE \E answer : Finish(t, p, queue, op, answer)
  BY <1>0, <1>1, <1>3, <1>4, FinishEnds DEF TakesTurn, IInv
<1>5. CASE /\ redisReady[p] /\ Accepts(op, items) /\ Mutates(op)
           /\ Await(t, p, queue, s)
  <2>1. /\ s.pc = "set" /\ s.op = op /\ s.items = next
        /\ s.answer = "none"
    <3> HIDE DEF next
    <3> QED BY <1>0 DEF TaskState
  <2> HIDE DEF s
  <2>2. task'[t] = s /\ pending'[p] = Append(queue, t)
    BY <1>0, <1>5, AwaitWaits DEF IInv
  <2>3. Waits(p, t, queue) BY <1>5, <2>1, <2>2 DEF Waits
  <2> QED BY <1>1, <1>3, <1>5, <2>1, <2>2, <2>3 DEF TakesTurn
<1> QED BY <1>4, <1>5 DEF Proceed

\* So does whatever follows a load.
LEMMA LoadedTakesTurn ==
    ASSUME IInv, UnderWay, NEW p \in Pod, NEW t, ~Decided(task[t]),
           t \in Request => task[t].pc # "idle", NEW queue,
           TurnOf(p, t, queue), Kept(p, t, queue),
           NEW items \in Document, AtHand(p, t, items),
           NEW aliased \in BOOLEAN,
           aliased \/ ~redisReady[p] => items = inventory[p],
           redisReady[p] =>
             Writes(redisDoc) \subseteq Writes(items) \cup task[t].missed,
           Loaded(t, p, queue, items, aliased), redisDoc' = redisDoc
    PROVE  TakesTurn(p, t, queue)
<1>0. t \in Task /\ task[t] \in TaskState BY DEF TurnOf, Task, IInv, TypeOK
<1>1. CASE t = p
  <2>1. /\ Turn(p, t, queue)
        /\ task' = [task EXCEPT ![p] = Idle]
        /\ pending' = [pending EXCEPT ![p] = queue] /\ UNCHANGED inventory
    BY <1>1, LoadedIsTurn DEF IInv, Loaded, Listen
  <2>2. task'[t] = Idle /\ pending'[p] = queue
    BY <1>0, <1>1, <2>1 DEF IInv, TypeOK
  <2>3. Ends(p, t, queue) BY <1>1, <2>2, TaskAssumption DEF Ends, Idle
  <2> QED BY <2>1, <2>3 DEF TakesTurn
<1>2. CASE t # p
  <2>1. t \in Request /\ Proceed(t, p, queue, task[t].op, items, aliased)
    BY <1>2 DEF TurnOf, Loaded
  <2>2. task[t].op \in Operation /\ task[t].answer = "none"
    BY <1>0, <2>1 DEF UnderWay, Decided
  <2> QED BY <2>1, <2>2, ProceedTakesTurn
<1> QED BY <1>1, <1>2

\* A request that arrives has a turn,
LEMMA ReceiveTakesTurn ==
    ASSUME IInv, QueuesInOrder, UnderWay, NEW p \in Pod, NEW r \in Request,
           NEW op \in Operation,
           \/ RefuseMalformed(r, p, op)
           \/ SendGet(r, p, op)
           \/ ServeFromMemory(r, p, op)
    PROVE  /\ TakesTurn(p, r, pending[p])
           /\ SendGet(r, p, op) \/ task'[r].pc = "done"
<1> DEFINE queue == pending[p]
<1>0. task[r].pc = "idle" /\ r \in Task /\ redisDoc' = redisDoc
  BY DEF RefuseMalformed, SendGet, ServeFromMemory, Task
<1>1. TurnOf(p, r, queue) BY <1>0, RequestTakesTurn
<1>2. Kept(p, r, queue)
  <2>1. r \notin Queued(p) BY <1>0 DEF IInv, QueuesApart
  <2> QED BY <2>1, QueueIsKept DEF IInv
<1>3. CASE RefuseMalformed(r, p, op)
  <2>1. Finish(r, p, queue, op, "refused") /\ inventory' = inventory
    BY <1>3 DEF RefuseMalformed
  <2> HIDE DEF queue
  <2>2. Turn(p, r, queue) BY <1>1, <2>1, FinishIsTurn DEF IInv
  <2>3. Ends(p, r, queue) /\ task'[r].pc = "done"
    BY <1>0, <2>1, FinishEnds DEF IInv
  <2> QED BY <1>0, <1>1, <1>2, <2>1, <2>2, <2>3 DEF TakesTurn, queue
<1>4. CASE SendGet(r, p, op)
  <2> DEFINE s == [Idle EXCEPT !.pc = "get", !.op = op]
  <2>1. Await(r, p, queue, s) /\ inventory' = inventory
    BY <1>4 DEF SendGet
  <2>2. /\ s \in TaskState /\ s.pc = "get" /\ s.op = op
        /\ s.items = NoDocument /\ s.answer = "none"
    BY DEF Idle, TaskState, Sent
  <2> HIDE DEF queue, s
  <2>3. Turn(p, r, queue) BY <1>1, <2>1, <2>2, AwaitIsTurn DEF IInv
  <2>4. task'[r] = s /\ pending'[p] = Append(queue, r)
    BY <1>0, <2>1, AwaitWaits DEF IInv
  <2>5. Waits(p, r, queue) BY <2>2, <2>4 DEF Waits
  <2> QED BY <1>0, <1>1, <1>2, <1>4, <2>1, <2>3, <2>5 DEF TakesTurn, queue
<1>5. CASE ServeFromMemory(r, p, op)
  <2>1. /\ Proceed(r, p, queue, op, inventory[p], TRUE) /\ ~redisReady[p]
        /\ inventory[p] \in Document
    BY <1>5 DEF ServeFromMemory, IInv, TypeOK
  <2>2. AtHand(p, r, inventory[p]) BY <2>1, DocumentAssumption DEF AtHand
  <2>3. ~Decided(task[r]) /\ task[r].answer = "none"
    BY <1>0 DEF Decided, UnderWay
  <2> HIDE DEF queue
  <2>4. TakesTurn(p, r, queue) /\ task'[r].pc = "done"
    BY <1>0, <1>1, <1>2, <2>1, <2>2, <2>3, ProceedTakesTurn
  <2> QED BY <2>4 DEF queue
<1> QED BY <1>3, <1>4, <1>5

\* and so has every task whose reply or rejection comes,
LEMMA HeadHasTurn ==
    ASSUME IInv, QueuesInOrder, UnderWay, NEW p \in Pod,
           \/ ReceiveDocument(p) \/ ContinueSeeded(p) \/ FallBack(p)
           \/ SendSeed(p) \/ AnswerSaved(p) \/ FailToSave(p)
    PROVE  TakesTurn(p, Head(pending[p]), Tail(pending[p]))
<1> DEFINE t == Head(pending[p])
           queue == Tail(pending[p])
<1>0. pending[p] # <<>> /\ redisDoc' = redisDoc
  BY DEF ReceiveDocument, ContinueSeeded, FallBack, SendSeed, AnswerSaved,
         FailToSave, Reply
<1>1. /\ TurnOf(p, t, queue) /\ t \in Task /\ t \in Queued(p)
      /\ task[t] \in TaskState
  BY <1>0, HeadTakesTurn DEF IInv, TypeOK
<1>2. Kept(p, t, queue) BY <1>0, QueueIsKept DEF IInv
<1>3. /\ inventory[p] \in Document
      /\ t \in Request => task[t].pc # "idle" /\ task[t].op \in Operation
  BY <1>1 DEF IInv, TypeOK, QueuesApart, UnderWay
<1>4. CASE ReceiveDocument(p)
  <2>1. /\ Loaded(t, p, queue, task[t].items, FALSE) /\ task[t].pc = "got"
        /\ redisReady[p] /\ task[t].items # NoDocument
    BY <1>4 DEF ReceiveDocument, Reply
  <2>2. /\ AtHand(p, t, task[t].items) /\ task[t].items \in Document
        /\ ~Decided(task[t])
    BY <1>1, <2>1 DEF AtHand, TaskState, Decided
  <2>3. Writes(redisDoc) \subseteq Writes(task[t].items) \cup task[t].missed
    BY <1>1, <2>1 DEF IInv, ReadersKnow, HasRead
  <2> HIDE DEF t, queue
  <2>4. TakesTurn(p, t, queue)
    BY <1>0, <1>1, <1>2, <1>3, <2>1, <2>2, <2>3, LoadedTakesTurn
  <2> QED BY <2>4 DEF t, queue
<1>5. CASE ContinueSeeded(p) \/ FallBack(p)
  <2>1. Loaded(t, p, queue, inventory[p], TRUE) /\ ~Decided(task[t])
    BY <1>5 DEF ContinueSeeded, FallBack, Reply, Loading, Decided
  <2>2. AtHand(p, t, inventory[p]) BY <1>3, DocumentAssumption DEF AtHand
  <2>3. redisReady[p] =>
          Writes(redisDoc) \subseteq Writes(inventory[p]) \cup task[t].missed
    <3>1. CASE FallBack(p) BY <3>1 DEF FallBack
    <3>2. CASE ContinueSeeded(p)
      <4>1. /\ Writes(redisDoc) \subseteq
                Writes(task[t].items) \cup task[t].missed
            /\ Writes(task[t].items) \subseteq inventory[p].writes
        BY <1>1, <3>2 DEF ContinueSeeded, Reply, IInv, ReadersKnow, HasRead
      <4>2. Writes(inventory[p]) = inventory[p].writes
        BY <1>3, DocumentAssumption DEF Writes
      <4> QED BY <4>1, <4>2
    <3> QED BY <1>5, <3>1, <3>2
  <2> HIDE DEF t, queue
  <2>4. TakesTurn(p, t, queue)
    BY <1>0, <1>1, <1>2, <1>3, <2>1, <2>2, <2>3, LoadedTakesTurn
  <2> QED BY <2>4 DEF t, queue
<1>6. CASE SendSeed(p)
  <2> DEFINE s == [task[t] EXCEPT !.pc = "seed", !.items = inventory[p]]
  <2>1. /\ Await(t, p, queue, s) /\ inventory' = inventory
        /\ task[t].pc = "got"
    BY <1>6 DEF SendSeed, Reply
  <2>2. /\ s \in TaskState /\ s.pc = "seed" /\ s.items = inventory[p]
        /\ s.op = task[t].op /\ s.answer = task[t].answer
    BY <1>1, <1>3 DEF TaskState, Sent
  <2>3. s.answer = "none" BY <1>1, <2>1, <2>2 DEF UnderWay
  <2> HIDE DEF t, queue, s
  <2>4. Turn(p, t, queue) BY <1>1, <2>1, <2>2, AwaitIsTurn DEF IInv
  <2>5. task'[t] = s /\ pending'[p] = Append(queue, t)
    BY <1>1, <2>1, AwaitWaits DEF IInv
  <2>6. Waits(p, t, queue) BY <1>3, <2>2, <2>3, <2>5 DEF Waits
  <2>7. TakesTurn(p, t, queue)
    BY <1>0, <1>1, <1>2, <2>1, <2>4, <2>6 DEF TakesTurn
  <2> QED BY <2>7 DEF t, queue
<1>7. CASE AnswerSaved(p) \/ FailToSave(p)
  <2>1. /\ inventory' = inventory
        /\ \E answer \in {"ok", "dropped"} :
              Finish(t, p, queue, task[t].op, answer)
    BY <1>7 DEF AnswerSaved, FailToSave
  <2>2. task[t].op \in Operation \cup {Boot} BY <1>1 DEF TaskState
  <2> HIDE DEF t, queue
  <2>3. Turn(p, t, queue) BY <1>1, <2>1, <2>2, FinishIsTurn DEF IInv
  <2>4. Ends(p, t, queue) BY <1>1, <1>3, <2>1, FinishEnds DEF IInv
  <2>5. TakesTurn(p, t, queue)
    BY <1>0, <1>1, <1>2, <2>1, <2>3, <2>4 DEF TakesTurn
  <2> QED BY <2>5 DEF t, queue
<1> QED BY <1>4, <1>5, <1>6, <1>7

\* and the start of a pod.
LEMMA ConnectTakesTurn ==
    ASSUME IInv, QueuesInOrder, NEW p \in Pod, Connect(p)
    PROVE  TakesTurn(p, p, <<>>)
<1> DEFINE s == [Idle EXCEPT !.pc = "get"]
<1>1. Await(p, p, <<>>, s) /\ UNCHANGED <<redisDoc, inventory>>
  BY DEF Connect
<1>2. /\ s \in TaskState /\ s.pc = "get" /\ s.items = NoDocument
      /\ s.answer = "none"
  BY DEF Idle, TaskState, Sent
<1>3. <<>> \in Seq(Task) /\ Elements(<<>>) = {} BY NoElements, EmptySeq
<1>4. TurnOf(p, p, <<>>) BY <1>3 DEF TurnOf
<1>5. Kept(p, p, <<>>) BY QueueIsKept DEF IInv
<1>6. p \in Task /\ p \notin Request BY TaskAssumption DEF Task
<1> HIDE DEF s
<1>7. Turn(p, p, <<>>) BY <1>1, <1>2, <1>4, AwaitIsTurn DEF IInv
<1>8. task'[p] = s /\ pending'[p] = Append(<<>>, p)
  BY <1>1, <1>6, AwaitWaits DEF IInv
<1>9. Waits(p, p, <<>>) BY <1>2, <1>6, <1>8 DEF Waits
<1> QED BY <1>1, <1>4, <1>5, <1>7, <1>9 DEF TakesTurn

\* Every other step executes a command, ends a process, or leaves all tasks
\* as they are.
LEMMA StepsOfTasks ==
    ASSUME IInv, QueuesInOrder, UnderWay, [Next]_vars
    PROVE  \/ \E p \in Pod : \/ \E t, queue : TakesTurn(p, t, queue)
                             \/ ServerGet(p) \/ ServerSet(p) \/ Stop(p)
           \/ Aside
<1>1. CASE ReceiveRequest BY <1>1, ReceiveTakesTurn DEF ReceiveRequest
<1>2. ASSUME NEW p \in Pod, Service(p)
      PROVE  (\E t, queue : TakesTurn(p, t, queue)) \/ Stop(p) \/ Aside
  BY <1>2, HeadHasTurn, ConnectTakesTurn DEF Service, Exit, RedisError, Aside
<1>3. CASE Environment
  BY <1>3 DEF Environment, FailToConnect, Crash, LoseConnection, RestartRedis,
              DeleteKey, Aside
<1>4. CASE UNCHANGED vars BY <1>4 DEF vars, Aside
<1> QED BY <1>1, <1>2, <1>3, <1>4 DEF Next, Redis

\* After a turn the queues are those there were, without the task or with it
\* at the end of the queue of its pod.
LEMMA QueuesAfterTurn ==
    ASSUME IInv, NEW p \in Pod, NEW t, NEW queue, TakesTurn(p, t, queue)
    PROVE  /\ t \in Task /\ queue \in Seq(Task)
           /\ \A q \in Pod \ {p} : /\ pending'[q] = pending[q]
                                   /\ Queued(q)' = Queued(q) /\ t \notin Queued(q)
           /\ \/ pending'[p] = queue /\ Queued(p)' = Elements(queue)
              \/ /\ pending'[p] = Append(queue, t)
                 /\ Queued(p)' = Elements(queue) \cup {t}
           /\ Elements(queue) \subseteq Queued(p)
           /\ \A q \in Pod : Queued(q) \subseteq Task
<1>1. t \in Task /\ queue \in Seq(Task) /\ Elements(queue) \subseteq Queued(p)
  BY DEF TakesTurn, TurnOf, Task
<1>2. \A q \in Pod \ {p} : /\ pending'[q] = pending[q]
                           /\ Queued(q)' = Queued(q) /\ t \notin Queued(q)
  <2>1. \A q \in Pod \ {p} : pending'[q] = pending[q]
    BY DEF TakesTurn, Turn, IInv, TypeOK
  <2> QED BY <2>1, TurnKeepsQueues DEF TakesTurn, IInv
<1>3. Queued(p)' = Elements(pending'[p]) BY DEF Queued, Elements
<1>4. \A q \in Pod : Queued(q) \subseteq Task
  BY DEF IInv, QueuesApart, Task
<1>5. pending'[p] = queue \/ pending'[p] = Append(queue, t)
  BY DEF TakesTurn, Ends, Waits
<1>6. Elements(Append(queue, t)) = Elements(queue) \cup {t}
  BY <1>1, AppendTail
<1> QED BY <1>1, <1>2, <1>3, <1>4, <1>5, <1>6

\* A turn keeps the order of the queues.
LEMMA TurnKeepsOrder ==
    ASSUME IInv, QueuesInOrder, NEW p \in Pod, NEW t, NEW queue,
           TakesTurn(p, t, queue)
    PROVE  QueuesInOrder'
<1> DEFINE Good(q) ==
      /\ Once(pending'[q])
      /\ \A u \in Queued(q)' : task'[u].pc \in Sent \cup Executed
      /\ \A u, v \in Queued(q)' :
           Before(pending'[q], u, v) /\ task'[v].pc \in Executed =>
               task'[u].pc \in Executed
<1>1. \A u \in Task \ {t} : task'[u] = task[u] BY DEF TakesTurn, Turn
<1>2. ASSUME NEW q \in Pod \ {p} PROVE Good(q)
  <2>1. \A u \in Queued(q) : task'[u] = task[u] BY <1>1, QueuesAfterTurn
  <2>2. pending'[q] = pending[q] /\ Queued(q)' = Queued(q) BY QueuesAfterTurn
  <2> QED BY <2>1, <2>2 DEF QueuesInOrder
<1>3. /\ Once(queue) /\ t \notin Elements(queue)
      /\ \A u \in Elements(queue) :
           task'[u] = task[u] /\ task[u].pc \in Sent \cup Executed
      /\ \A u, v \in Elements(queue) :
           Before(queue, u, v) /\ task[v].pc \in Executed =>
               task[u].pc \in Executed
  <2>1. \A u \in Elements(queue) : u \in Task /\ u \in Queued(p)
    BY QueuesAfterTurn
  <2> QED BY <1>1, <2>1 DEF TakesTurn, Kept, QueuesInOrder
<1>4. ASSUME pending'[p] = queue, Queued(p)' = Elements(queue) PROVE Good(p)
  BY <1>3, <1>4
<1>5. ASSUME Waits(p, t, queue) PROVE Good(p)
  <2>1. /\ pending'[p] = Append(queue, t) /\ t \in Task
        /\ Queued(p)' = Elements(queue) \cup {t} /\ queue \in Seq(Task)
    <3>1. Queued(p)' = Elements(pending'[p]) BY DEF Queued, Elements
    <3> QED BY <1>5, <3>1, QueuesAfterTurn, AppendTail DEF Waits
  <2>2. task'[t].pc \in Sent /\ task'[t].pc \notin Executed
    BY <1>5 DEF Waits, Sent, Executed
  <2>3. \A u, v : Before(Append(queue, t), u, v) =>
                      Before(queue, u, v) \/ (u \in Elements(queue) /\ v = t)
    BY <2>1, OrderOfAppend
  <2>4. Once(pending'[p]) BY <1>3, <2>1, AppendTail
  <2>5. \A u, v : Before(queue, u, v) => u \in Elements(queue) /\ v \in Elements(queue)
    BY OrderIsOfElements
  <2> QED BY <1>3, <2>1, <2>2, <2>3, <2>4, <2>5
<1>6. ASSUME Ends(p, t, queue) PROVE Good(p)
  <2>1. pending'[p] = queue /\ Queued(p)' = Elements(queue)
    BY <1>6 DEF Ends, Queued, Elements
  <2> QED BY <1>4, <2>1
<1>7. \A q \in Pod : Good(q) BY <1>2, <1>5, <1>6 DEF TakesTurn
<1> HIDE DEF Good
<1>8. QueuesInOrder' <=> \A q \in Pod : Good(q) BY DEF QueuesInOrder, Good
<1> QED BY <1>7, <1>8

\* So does the execution of the next command.
LEMMA CommandKeepsOrder ==
    ASSUME IInv, QueuesInOrder, NEW p \in Pod, NEW i \in 1..Len(pending[p]),
           IsNext(p, i), pending' = pending,
           task'[pending[p][i]].pc \in Executed,
           \A u \in Task \ {pending[p][i]} : task'[u].pc = task[u].pc
    PROVE  QueuesInOrder'
<1> DEFINE t == pending[p][i]
<1>1. \A q \in Pod : Queued(q)' = Queued(q) /\ Queued(q) \subseteq Task
  BY DEF Queued, IInv, QueuesApart, Task
<1>2. t \in Queued(p) /\ \A q \in Pod \ {p} : t \notin Queued(q)
  <2>1. t \in Queued(p) BY DEF Queued
  <2> HIDE DEF t
  <2> QED BY <2>1 DEF IInv, QueuesApart
<1>3. ASSUME NEW u, Before(pending[p], u, t)
      PROVE  task[u].pc \in Executed /\ u # t
  <2>1. PICK j \in 1..Len(pending[p]), k \in 1..Len(pending[p]) :
          j < k /\ pending[p][j] = u /\ pending[p][k] = t
    BY <1>3 DEF Before
  <2>2. k = i BY <2>1 DEF QueuesInOrder, Once
  <2>3. j \in 1..(i - 1) BY <2>1, <2>2
  <2>4. j # i BY <2>1, <2>2
  <2> QED BY <2>1, <2>3, <2>4 DEF IsNext, QueuesInOrder, Once
<1> HIDE DEF t
<1>4. ASSUME NEW q \in Pod, NEW u \in Queued(q), NEW v \in Queued(q),
             Before(pending[q], u, v), task'[v].pc \in Executed
      PROVE  task'[u].pc \in Executed
  <2>0. task'[t].pc \in Executed /\ \A w \in Task \ {t} : task'[w].pc = task[w].pc
    BY DEF t
  <2>1. CASE u = t BY <2>0, <2>1
  <2>2. CASE u # t /\ v = t
    <3>1. q = p BY <1>2, <2>2
    <3>2. task[u].pc \in Executed BY <1>3, <1>4, <2>2, <3>1
    <3> QED BY <1>1, <2>0, <2>2, <3>2
  <2>3. CASE u # t /\ v # t
    BY <1>1, <1>4, <2>0, <2>3 DEF QueuesInOrder
  <2> QED BY <2>1, <2>2, <2>3
<1>5. \A q \in Pod : \A u \in Queued(q) : task'[u].pc \in Sent \cup Executed
  <2>0. task'[t].pc \in Executed /\ \A w \in Task \ {t} : task'[w].pc = task[w].pc
    BY DEF t
  <2> QED BY <1>1, <2>0 DEF QueuesInOrder
<1>6. \A q \in Pod : Once(pending'[q]) BY DEF QueuesInOrder
<1> QED BY <1>1, <1>4, <1>5, <1>6 DEF QueuesInOrder

\* The execution of a command,
Executes(p, i) ==
    LET t == pending[p][i] IN
    /\ IsNext(p, i) /\ t \in Task /\ t \in Queued(p)
    /\ UNCHANGED <<pending, inventory>>
    /\ \A u \in Task : /\ task'[u].op = task[u].op
                       /\ task'[u].answer = task[u].answer
    /\ \A u \in Task \ {t} : /\ task'[u].pc = task[u].pc
                             /\ task'[u].items = task[u].items
    /\ \/ /\ task[t].pc = "get" /\ task'[t].pc = "got"
          /\ task'[t].items = redisDoc /\ redisDoc' = redisDoc
       \/ /\ \/ task[t].pc = "seed" /\ task'[t].pc = "seeded"
             \/ task[t].pc = "set" /\ task'[t].pc = "saved"
          /\ task'[t].items = task[t].items /\ redisDoc' = task[t].items

\* of a GET or of a SET,
LEMMA CommandsExecute ==
    ASSUME IInv, NEW p \in Pod, ServerGet(p) \/ ServerSet(p)
    PROVE  \E i \in 1..Len(pending[p]) : Executes(p, i)
<1>0. \A i \in 1..Len(pending[p]) :
        pending[p][i] \in Task /\ pending[p][i] \in Queued(p)
  BY ElementOfSeq DEF IInv, TypeOK, Queued
<1>1. \A t \in Task : task[t] \in TaskState BY DEF IInv, TypeOK
<1>2. CASE ServerGet(p)
  <2>1. PICK i \in 1..Len(pending[p]) :
          /\ IsNext(p, i) /\ task[pending[p][i]].pc = "get"
          /\ task' = [task EXCEPT ![pending[p][i]].pc = "got",
                                  ![pending[p][i]].items = redisDoc,
                                  ![pending[p][i]].missed = {}]
    BY <1>2 DEF ServerGet
  <2> DEFINE t == pending[p][i]
  <2>2. /\ t \in Task /\ t \in Queued(p) /\ task[t] \in TaskState
        /\ IsNext(p, i) /\ task[t].pc = "get"
        /\ task' = [task EXCEPT ![t].pc = "got", ![t].items = redisDoc,
                                ![t].missed = {}]
    BY <1>0, <1>1, <2>1
  <2> HIDE DEF t
  <2>3. /\ task'[t].pc = "got" /\ task'[t].items = redisDoc
        /\ task'[t].op = task[t].op /\ task'[t].answer = task[t].answer
        /\ \A u \in Task \ {t} : task'[u] = task[u]
    BY <2>2 DEF IInv, TypeOK, TaskState
  <2>4. UNCHANGED <<redisDoc, pending, inventory>> BY <1>2 DEF ServerGet
  <2> QED BY <2>2, <2>3, <2>4 DEF Executes, t
<1>3. CASE ServerSet(p)
  <2>1. PICK i \in 1..Len(pending[p]) :
          /\ IsNext(p, i) /\ task[pending[p][i]].pc \in {"seed", "set"}
          /\ redisDoc' = task[pending[p][i]].items
          /\ \A u \in Task :
               task'[u] = IF u = pending[p][i]
                 THEN [task[pending[p][i]] EXCEPT
                         !.pc = IF @ = "set" THEN "saved" ELSE "seeded",
                         !.missed = {}]
                 ELSE IF task[u].pc \in HasRead
                        THEN [task[u] EXCEPT !.missed =
                                  @ \cup Writes(task[pending[p][i]].items)]
                        ELSE task[u]
    BY <1>3 DEF ServerSet
  <2> DEFINE t == pending[p][i]
  <2>2. t \in Task /\ t \in Queued(p) /\ task[t] \in TaskState
    BY <1>0, <1>1
  <2>3. task'[t] = [task[t] EXCEPT
                      !.pc = IF @ = "set" THEN "saved" ELSE "seeded",
                      !.missed = {}]
    BY <2>1, <2>2
  <2>4. ASSUME NEW u \in Task \ {t}
        PROVE  /\ task'[u].pc = task[u].pc /\ task'[u].items = task[u].items
               /\ task'[u].op = task[u].op /\ task'[u].answer = task[u].answer
    BY <1>1, <2>1 DEF TaskState
  <2>5. task[t].pc \in {"seed", "set"} /\ redisDoc' = task[t].items
    BY <2>1
  <2> HIDE DEF t
  <2>6. /\ \/ task[t].pc = "seed" /\ task'[t].pc = "seeded"
           \/ task[t].pc = "set" /\ task'[t].pc = "saved"
        /\ task'[t].items = task[t].items
        /\ task'[t].op = task[t].op /\ task'[t].answer = task[t].answer
    BY <2>2, <2>3, <2>5 DEF TaskState
  <2>7. UNCHANGED <<pending, inventory>> BY <1>3 DEF ServerSet
  <2> QED BY <2>1, <2>2, <2>4, <2>5, <2>6, <2>7 DEF Executes, t
<1> QED BY <1>2, <1>3

\* and the end of a process.
LEMMA StopDrops ==
    ASSUME IInv, NEW p \in Pod, Stop(p)
    PROVE  /\ redisDoc' = redisDoc
           /\ inventory'[p] = Seed /\ pending'[p] = <<>> /\ Queued(p)' = {}
           /\ \A q \in Pod \ {p} : /\ inventory'[q] = inventory[q]
                                   /\ pending'[q] = pending[q]
                                   /\ Queued(q)' = Queued(q)
                                   /\ Queued(q) \cap Queued(p) = {}
           /\ \A t \in Task : t \notin Queued(p) => task'[t] = task[t]
           /\ \A t \in Queued(p) \cap Pod : task'[t] = Idle
           /\ \A t \in Queued(p) \cap Request :
                /\ task'[t].pc = "done" /\ task'[t].op = task[t].op
                /\ task'[t].items = NoDocument /\ task'[t].answer = "dropped"
<1>1. /\ redisDoc' = redisDoc
      /\ inventory' = [inventory EXCEPT ![p] = Seed]
      /\ pending' = [pending EXCEPT ![p] = <<>>]
  BY DEF Stop
<1>2. /\ inventory'[p] = Seed /\ pending'[p] = <<>>
      /\ \A q \in Pod \ {p} : /\ inventory'[q] = inventory[q]
                              /\ pending'[q] = pending[q]
  BY <1>1 DEF IInv, TypeOK
<1>3. /\ Queued(p)' = {}
      /\ \A q \in Pod \ {p} : Queued(q)' = Queued(q) /\ Queued(q) \cap Queued(p) = {}
  <2>1. Queued(p)' = Elements(pending'[p]) BY DEF Queued, Elements
  <2>2. \A q \in Pod \ {p} : Queued(q)' = Queued(q) BY <1>2 DEF Queued
  <2>3. \A q \in Pod \ {p} : Queued(q) \cap Queued(p) = {}
    BY DEF IInv, QueuesApart
  <2> QED BY <1>2, <2>1, <2>2, <2>3, NoElements
<1>4. ASSUME NEW t \in Task
      PROVE  /\ t \notin Queued(p) => task'[t] = task[t]
             /\ t \in Queued(p) \cap Pod => task'[t] = Idle
             /\ t \in Queued(p) \cap Request =>
                  /\ task'[t].pc = "done" /\ task'[t].op = task[t].op
                  /\ task'[t].items = NoDocument /\ task'[t].answer = "dropped"
  <2> DEFINE s == [Idle EXCEPT !.pc = "done", !.op = task[t].op,
                               !.answer = "dropped"]
  <2>1. task'[t] = IF t \notin Queued(p) THEN task[t]
                   ELSE IF t \in Pod THEN Idle ELSE s
    BY DEF Stop
  <2>2. /\ s.pc = "done" /\ s.op = task[t].op
        /\ s.items = NoDocument /\ s.answer = "dropped"
    BY DEF Idle
  <2> HIDE DEF s
  <2> QED BY <2>1, <2>2, TaskAssumption
<1>5. Queued(p) \subseteq Task BY DEF IInv, QueuesApart, Task
<1> QED BY <1>1, <1>2, <1>3, <1>4, <1>5

\* What is under way stays of that kind.
LEMMA NextKeepsOrder ==
    ASSUME IInv, QueuesInOrder, UnderWay, [Next]_vars
    PROVE  QueuesInOrder' /\ UnderWay'
<1>1. ASSUME NEW p \in Pod, NEW t, NEW queue, TakesTurn(p, t, queue)
      PROVE  QueuesInOrder' /\ UnderWay'
  <2>1. t \in Task /\ \A u \in Task \ {t} : task'[u] = task[u]
    BY <1>1, QueuesAfterTurn DEF TakesTurn, Turn
  <2>2. inventory[p] \in Document /\ inventory[p] # NoDocument
    BY DocumentAssumption DEF IInv, TypeOK
  <2>3. task'[t].pc = "set" => task'[t].items # NoDocument
    <3> SUFFICES ASSUME task'[t].pc = "set", t \in Request,
                        task'[t].op \in Operation, NEW old, AtHand(p, t, old),
                        task'[t].items = Updated(t, task'[t].op, old)
                 PROVE  task'[t].items # NoDocument
      BY <1>1 DEF TakesTurn, Ends, Waits
    <3>1. old \in Document
      BY <2>1, <2>2 DEF AtHand, IInv, TypeOK, TaskState
    <3> QED BY <3>1, UpdatedIsDocument, DocumentAssumption
  <2>4. /\ task'[t].pc # "done" => task'[t].answer = "none"
        /\ t \in Request => task'[t].op \in Operation
        /\ task'[t].pc \in Saving => t \in Request
        /\ task'[t].pc = "seed" => task'[t].items # NoDocument
    BY <1>1, <2>2 DEF TakesTurn, Ends, Waits, Saving
  <2>5. UnderWay' BY <2>1, <2>3, <2>4 DEF UnderWay
  <2> QED BY <1>1, <2>5, TurnKeepsOrder
<1>2. ASSUME NEW p \in Pod, NEW i \in 1..Len(pending[p]), Executes(p, i)
      PROVE  QueuesInOrder' /\ UnderWay'
  <2>1. QueuesInOrder'
    BY <1>2, CommandKeepsOrder DEF Executes, Executed
  <2> DEFINE t == pending[p][i]
  <2>2. /\ t \in Task
        /\ \A u \in Task : /\ task'[u].op = task[u].op
                           /\ task'[u].answer = task[u].answer
        /\ \A u \in Task \ {t} : /\ task'[u].pc = task[u].pc
                                 /\ task'[u].items = task[u].items
        /\ task[t].pc \in Sent
        /\ task'[t].pc \in {"got", "seeded", "saved"}
        /\ task'[t].pc = "saved" => task[t].pc = "set"
    BY <1>2 DEF Executes, Sent
  <2> HIDE DEF t
  <2>3. ASSUME NEW u \in Task
        PROVE  /\ task'[u].pc # "done" => task'[u].answer = "none"
               /\ u \in Request /\ task'[u].pc # "idle" => task'[u].op \in Operation
               /\ task'[u].pc \in Saving => u \in Request
               /\ task'[u].pc \in {"seed", "set"} => task'[u].items # NoDocument
    <3>1. CASE u = t BY <2>2, <3>1 DEF UnderWay, Sent, Saving
    <3>2. CASE u # t BY <2>2, <3>2 DEF UnderWay
    <3> QED BY <3>1, <3>2
  <2> QED BY <2>1, <2>3 DEF UnderWay
<1>3. ASSUME NEW p \in Pod, Stop(p) PROVE QueuesInOrder' /\ UnderWay'
  <2>1. \A q \in Pod : \A t \in Queued(q)' :
          /\ q # p /\ t \in Queued(q) /\ Queued(q)' = Queued(q)
          /\ pending'[q] = pending[q] /\ task'[t] = task[t]
    <3>1. \A q \in Pod : Queued(q) \subseteq Task
      BY DEF IInv, QueuesApart, Task
    <3> QED BY <1>3, <3>1, StopDrops
  <2>2. \A q \in Pod : Once(pending'[q])
    BY <1>3, StopDrops, NoElements DEF QueuesInOrder
  <2>3. QueuesInOrder' BY <2>1, <2>2 DEF QueuesInOrder
  <2>4. ASSUME NEW t \in Task
        PROVE  /\ task'[t].pc # "done" => task'[t].answer = "none"
               /\ t \in Request /\ task'[t].pc # "idle" => task'[t].op \in Operation
               /\ task'[t].pc \in Saving => t \in Request
               /\ task'[t].pc \in {"seed", "set"} => task'[t].items # NoDocument
    <3>1. CASE t \notin Queued(p) BY <1>3, <3>1, StopDrops DEF UnderWay
    <3>2. CASE t \in Queued(p) \cap Pod
      BY <1>3, <3>2, StopDrops, TaskAssumption DEF Idle, Saving
    <3>3. CASE t \in Queued(p) \cap Request
      <4>1. task[t].pc # "idle" BY <3>3 DEF IInv, QueuesApart
      <4> QED BY <1>3, <3>3, <4>1, StopDrops DEF UnderWay, Saving
    <3> QED BY <3>1, <3>2, <3>3 DEF Task
  <2>5. UnderWay' BY <2>4 DEF UnderWay
  <2> QED BY <2>3, <2>5
<1>4. CASE Aside
  BY <1>4 DEF Aside, QueuesInOrder, UnderWay, Queued
<1> QED BY <1>1, <1>2, <1>3, <1>4, StepsOfTasks, CommandsExecute

\* The request of a handler whose SET Redis has not executed is nowhere but in
\* its own copy, in the memory of its pod, and in what was sent behind it.
Unsent ==
    \A p \in Pod : \A t \in Queued(p) : task[t].pc = "set" =>
        /\ t \notin Writes(redisDoc)
        /\ \A q \in Pod \ {p} : t \notin inventory[q].writes
        /\ \A u \in Task \ {t} : t \in Writes(task[u].items) =>
             task[u].pc \in {"seed", "set"} /\ Before(pending[p], t, u)

\* Of the copies that have the same writes there is one.
OneOfEach ==
    \A d, e \in Known \ {NoDocument} : d.writes = e.writes => d = e

\* What a handler saves is made of the one copy that has the other writes.
BaseOf(t, doc) ==
    /\ doc \in Document
    /\ Accepts(task[t].op, doc) /\ Mutates(task[t].op)
    /\ task[t].items = Updated(t, task[t].op, doc)
    /\ \A r \in doc.writes : r # t /\ Decided(task[r])
    /\ \A d \in Known \ {NoDocument} : d.writes = doc.writes => d = doc

Based == \A t \in Task : task[t].pc = "set" => \E doc : BaseOf(t, doc)

\* The requests whose write a copy has are decided.
LEMMA WritesAreDecided ==
    ASSUME AllAccounted, NEW doc \in Known \ {NoDocument}, NEW r \in doc.writes
    PROVE  Decided(task[r])
BY DEF Known, Copies, AllAccounted, Accounted, Seed

\* A turn: the request of a handler that goes on with its pod's memory comes
\* behind those that are in this memory.
LEMMA TurnKeepsUnsent ==
    ASSUME IInv, QueuesInOrder, UnderWay, AllAccounted, Unsent,
           NEW p \in Pod, NEW t, NEW queue, TakesTurn(p, t, queue)
    PROVE  Unsent'
<1>1. /\ t \in Task /\ redisDoc' = redisDoc
      /\ \A u \in Task \ {t} : task'[u] = task[u]
      /\ \A q \in Pod \ {p} : inventory'[q] = inventory[q]
      /\ inventory'[p].writes \subseteq inventory[p].writes \cup {t}
      /\ queue \in Seq(Task) /\ \A q \in Pod : Queued(q) \subseteq Task
  BY QueuesAfterTurn DEF TakesTurn, Turn
<1>2. \A q \in Pod : /\ inventory[q] \in Document /\ inventory[q] # NoDocument
                     /\ Writes(inventory[q]) = inventory[q].writes
  BY DocumentAssumption DEF IInv, TypeOK, Writes
\* What the task holds afterwards, and where it waits then.
<1>3. ASSUME NEW w, w # t, w \in Writes(task'[t].items)
      PROVE  /\ task'[t].pc \in {"seed", "set"} /\ pending'[p] = Append(queue, t)
             /\ \/ w \in inventory[p].writes
                \/ task[t].pc = "got" /\ w \in Writes(task[t].items)
  <2>1. task'[t].items # NoDocument BY <1>3 DEF Writes
  <2>2. Waits(p, t, queue) /\ task'[t].pc # "get"
    BY <2>1 DEF TakesTurn, Ends, Waits
  <2>3. CASE task'[t].items = inventory[p] /\ task'[t].pc = "seed"
    BY <1>2, <1>3, <2>2, <2>3 DEF Waits
  <2>4. ASSUME t \in Request, task'[t].op \in Operation, task'[t].pc = "set",
               NEW old, AtHand(p, t, old),
               task'[t].items = Updated(t, task'[t].op, old)
        PROVE  w \in inventory[p].writes
                 \/ (task[t].pc = "got" /\ w \in Writes(task[t].items))
    <3>1. old \in Document
      BY <1>1, <1>2, <2>4 DEF AtHand, IInv, TypeOK, TaskState
    <3>2. task'[t].items.writes = old.writes \cup {t}
      BY <2>4, <3>1, UpdatedIsDocument
    <3>3. w \in old.writes BY <1>3, <2>1, <3>2 DEF Writes
    <3> QED BY <2>4, <3>3 DEF AtHand, Writes
  <2> QED BY <2>2, <2>3, <2>4 DEF Waits
<1>4. ASSUME NEW q \in Pod, NEW w \in Queued(q)', task'[w].pc = "set", w # t
      PROVE  /\ w \in Queued(q) /\ task'[w] = task[w]
             /\ w \in Task /\ task[w].pc = "set"
             /\ q = p => w \in Elements(queue)
  BY <1>1, <1>4, QueuesAfterTurn
<1>5. ASSUME NEW q \in Pod, NEW w \in Queued(q)', task'[w].pc = "set"
      PROVE  w \notin Writes(redisDoc)
  <2>1. CASE w # t BY <1>4, <1>5, <2>1 DEF Unsent
  <2>2. CASE w = t
    <3>1. ~Decided(task[t])
      BY <1>5, <2>2 DEF TakesTurn, Ends, Waits
    <3> QED BY <2>2, <3>1, WritesAreDecided, CopiesKnown DEF IInv, Writes
  <2> QED BY <2>1, <2>2
<1>6. ASSUME NEW q \in Pod, NEW w \in Queued(q)', task'[w].pc = "set",
             NEW o \in Pod \ {q}
      PROVE  w \notin inventory'[o].writes
  <2>1. CASE w # t
    <3>1. w \notin inventory[o].writes BY <1>4, <1>6, <2>1 DEF Unsent
    <3> QED BY <1>1, <2>1, <3>1
  <2>2. CASE w = t
    <3>1. ~Decided(task[t])
      BY <1>6, <2>2 DEF TakesTurn, Ends, Waits
    <3>2. q = p BY <1>6, <2>2, QueuesAfterTurn
    <3> QED BY <1>1, <2>2, <3>1, <3>2, WritesAreDecided, CopiesKnown DEF IInv
  <2> QED BY <2>1, <2>2
<1>0. \A w, u : /\ Before(queue, w, u) => Before(Append(queue, t), w, u)
                /\ w \in Elements(queue) => Before(Append(queue, t), w, t)
  BY <1>1, OrderOfAppend
<1>7. ASSUME NEW q \in Pod, NEW w \in Queued(q)', task'[w].pc = "set",
             NEW u \in Task \ {w}, w \in Writes(task'[u].items)
      PROVE  task'[u].pc \in {"seed", "set"} /\ Before(pending'[q], w, u)
  <2>1. CASE w = t
    <3>1. ~Decided(task[t]) BY <1>7, <2>1 DEF TakesTurn, Ends, Waits
    <3>2. w \in Writes(task[u].items) /\ task[u].items \in Known
      BY <1>1, <1>7, <2>1, CopiesKnown DEF IInv
    <3> QED BY <2>1, <3>1, <3>2, WritesAreDecided DEF Writes
  <2>2. CASE w # t /\ u # t
    <3>1. task[u].pc \in {"seed", "set"} /\ Before(pending[q], w, u)
      BY <1>1, <1>4, <1>7, <2>2 DEF Unsent
    <3>2. Before(pending'[q], w, u)
      <4>1. CASE q # p BY <3>1, <4>1, QueuesAfterTurn
      <4>2. CASE q = p
        <5>1. Before(queue, w, u) BY <1>4, <1>7, <2>2, <3>1, <4>2 DEF TakesTurn, Kept
        <5>2. pending'[p] = queue \/ pending'[p] = Append(queue, t)
          BY QueuesAfterTurn
        <5> QED BY <1>0, <4>2, <5>1, <5>2
      <4> QED BY <4>1, <4>2
    <3> QED BY <1>1, <2>2, <3>1, <3>2
  <2>3. CASE w # t /\ u = t
    <3>1. /\ task'[t].pc \in {"seed", "set"} /\ pending'[p] = Append(queue, t)
          /\ \/ w \in inventory[p].writes
             \/ task[t].pc = "got" /\ w \in Writes(task[t].items)
      BY <1>3, <1>7, <2>3
    <3>2. w \in inventory[p].writes /\ q = p
      BY <1>1, <1>4, <1>7, <2>3, <3>1 DEF Unsent
    <3>3. w \in Elements(queue) BY <1>4, <1>7, <2>3, <3>2
    <3> QED BY <1>0, <2>3, <3>1, <3>2, <3>3
  <2> QED BY <2>1, <2>2, <2>3
<1>8. \A doc : Writes(doc)' = Writes(doc') BY DEF Writes
<1>9. ASSUME NEW q \in Pod, NEW w \in Queued(q)', task'[w].pc = "set"
      PROVE  /\ w \notin Writes(redisDoc)'
             /\ \A o \in Pod \ {q} : w \notin inventory'[o].writes
             /\ \A u \in Task \ {w} : w \in Writes(task'[u].items) =>
                  task'[u].pc \in {"seed", "set"} /\ Before(pending'[q], w, u)
  BY <1>1, <1>5, <1>6, <1>7, <1>9 DEF Writes
<1> QED BY <1>9 DEF Unsent, Writes

\* A command is executed only after those ahead of it.
LEMMA AheadIsExecuted ==
    ASSUME QueuesInOrder, NEW p \in Pod, NEW i \in 1..Len(pending[p]),
           IsNext(p, i), NEW w, Before(pending[p], w, pending[p][i])
    PROVE  task[w].pc \in Executed
<1>1. PICK j \in 1..Len(pending[p]), k \in 1..Len(pending[p]) :
        j < k /\ pending[p][j] = w /\ pending[p][k] = pending[p][i]
  BY DEF Before
<1>2. k = i BY <1>1 DEF QueuesInOrder, Once
<1>3. j \in 1..(i - 1) BY <1>1, <1>2
<1> QED BY <1>1, <1>3 DEF IsNext

\* A command: what Redis gets holds no write that is still to come.
LEMMA CommandKeepsUnsent ==
    ASSUME IInv, QueuesInOrder, Unsent, NEW p \in Pod,
           NEW i \in 1..Len(pending[p]), Executes(p, i)
    PROVE  Unsent'
<1> DEFINE t == pending[p][i]
<1>1. /\ t \in Task /\ t \in Queued(p) /\ UNCHANGED <<pending, inventory>>
      /\ \A u \in Task \ {t} : /\ task'[u].pc = task[u].pc
                               /\ task'[u].items = task[u].items
      /\ task'[t].pc \in {"got", "seeded", "saved"}
      /\ redisDoc' \in {redisDoc, task[t].items}
      /\ task'[t].items \in {redisDoc, task[t].items}
      /\ task[t].pc # "get" \/ (task'[t].items = redisDoc /\ redisDoc' = redisDoc)
  BY DEF Executes
<1>2. \A w : Before(pending[p], w, t) => task[w].pc \in Executed
  BY AheadIsExecuted DEF Executes
<1> HIDE DEF t
<1>3. \A q \in Pod : Queued(q)' = Queued(q) /\ Queued(q) \subseteq Task
  BY <1>1 DEF Queued, IInv, QueuesApart, Task
<1>4. ASSUME NEW q \in Pod, NEW w \in Queued(q), task'[w].pc = "set"
      PROVE  /\ w # t /\ w \in Task /\ task[w].pc = "set"
             /\ w \notin Writes(redisDoc) /\ w \notin Writes(task[t].items)
  <2>1. w # t /\ w \in Task /\ task[w].pc = "set" BY <1>1, <1>3, <1>4
  <2>2. ASSUME w \in Writes(task[t].items) PROVE FALSE
    <3>1. Before(pending[q], w, t) BY <1>1, <2>1, <2>2 DEF Unsent
    <3>2. t \in Queued(q)
      BY <3>1, OrderIsOfElements DEF Queued, Elements
    <3>3. q = p BY <1>1, <3>2 DEF IInv, QueuesApart
    <3> QED BY <1>2, <2>1, <3>1, <3>3 DEF Executed
  <2> QED BY <2>1, <2>2 DEF Unsent
<1>5. ASSUME NEW q \in Pod, NEW w \in Queued(q), task'[w].pc = "set"
      PROVE  /\ w \notin Writes(redisDoc')
             /\ \A o \in Pod \ {q} : w \notin inventory'[o].writes
             /\ \A u \in Task \ {w} : w \in Writes(task'[u].items) =>
                  task'[u].pc \in {"seed", "set"} /\ Before(pending'[q], w, u)
  <2>1. w \notin Writes(redisDoc') BY <1>1, <1>4, <1>5
  <2>2. w \notin Writes(task'[t].items) BY <1>1, <1>4, <1>5
  <2> QED BY <1>1, <1>4, <1>5, <2>1, <2>2 DEF Unsent
<1> QED BY <1>3, <1>5 DEF Unsent, Writes

\* Every step.
LEMMA NextKeepsUnsent ==
    ASSUME IInv, QueuesInOrder, UnderWay, AllAccounted, Unsent, [Next]_vars
    PROVE  Unsent'
<1>1. ASSUME NEW p \in Pod, Stop(p) PROVE Unsent'
  <2>1. \A q \in Pod : Queued(q) \subseteq Task
    BY DEF IInv, QueuesApart, Task
  <2>2. ASSUME NEW q \in Pod, NEW t \in Queued(q)', task'[t].pc = "set"
        PROVE  /\ t \notin Writes(redisDoc')
               /\ \A o \in Pod \ {q} : t \notin inventory'[o].writes
               /\ \A u \in Task \ {t} : t \in Writes(task'[u].items) =>
                    task'[u].pc \in {"seed", "set"} /\ Before(pending'[q], t, u)
    <3>1. /\ q # p /\ t \in Queued(q) /\ t \notin Queued(p)
          /\ task'[t] = task[t] /\ pending'[q] = pending[q]
      BY <1>1, <2>1, <2>2, StopDrops
    <3>2. /\ t \notin Writes(redisDoc)
          /\ \A o \in Pod \ {q} : t \notin inventory[o].writes
          /\ \A u \in Task \ {t} : t \in Writes(task[u].items) =>
               task[u].pc \in {"seed", "set"} /\ Before(pending[q], t, u)
      BY <2>2, <3>1 DEF Unsent
    <3>3. ASSUME NEW u \in Task, u \in Queued(p) PROVE Writes(task'[u].items) = {}
      <4>1. CASE u \in Pod BY <1>1, <3>3, <4>1, StopDrops DEF Idle, Writes
      <4>2. CASE u \in Request BY <1>1, <3>3, <4>2, StopDrops DEF Writes
      <4> QED BY <4>1, <4>2 DEF Task
    <3>4. \A o \in Pod : inventory'[o].writes \subseteq inventory[o].writes
      BY <1>1, StopDrops DEF Seed
    <3> QED BY SMTT(30), <1>1, <3>1, <3>2, <3>3, <3>4, StopDrops
  <2> QED BY <2>2 DEF Unsent, Writes
<1>2. CASE Aside
  <2>1. Writes(redisDoc') \subseteq Writes(redisDoc) BY <1>2 DEF Aside, Writes
  <2>2. \A q \in Pod : Queued(q)' = Queued(q) BY <1>2 DEF Aside, Queued
  <2>3. ASSUME NEW q \in Pod, NEW t \in Queued(q), task'[t].pc = "set"
        PROVE  /\ t \notin Writes(redisDoc')
               /\ \A o \in Pod \ {q} : t \notin inventory'[o].writes
               /\ \A u \in Task \ {t} : t \in Writes(task'[u].items) =>
                    task'[u].pc \in {"seed", "set"} /\ Before(pending'[q], t, u)
    BY <1>2, <2>1, <2>3 DEF Aside, Unsent
  <2> QED BY <2>2, <2>3 DEF Unsent, Writes
<1> QED BY <1>1, <1>2, StepsOfTasks, TurnKeepsUnsent, CommandsExecute,
           CommandKeepsUnsent

\* The copies that a step makes of those there are.
LEMMA CopiesAreMade ==
    ASSUME IInv, IInv', CopiesMade, NEW doc \in (Known \ {NoDocument})'
    PROVE  Made(doc) /\ doc # NoDocument
<1>1. Made(Seed) BY DEF Made, Known
<1> QED BY <1>1 DEF CopiesMade, Known, Copies

\* There is still one of each: a copy that is new has a write that no other
\* copy had.
LEMMA NextKeepsOneOfEach ==
    ASSUME IInv, IInv', Asked, AllAccounted, OneOfEach, [Next]_vars
    PROVE  OneOfEach'
<1>0. CopiesMade BY NextMakesCopies
<1>1. \A d \in Known \ {NoDocument} :
        d \in Document /\ \A r \in d.writes : Decided(task[r])
  BY CopiesKnown, WritesAreDecided DEF IInv
<1>2. ASSUME NEW d, Made(d), d # NoDocument, d \notin Known
      PROVE  \E r \in Request, op \in Operation \cup {Boot},
                old \in Known \ {NoDocument} :
               /\ ~Decided(task[r]) /\ task'[r].op = op
               /\ d = Updated(r, op, old) /\ d.writes = old.writes \cup {r}
  <2>1. PICK r \in Request, op \in Operation \cup {Boot},
             old \in Known \ {NoDocument} :
          ~Decided(task[r]) /\ task'[r].op = op /\ d = Updated(r, op, old)
    BY <1>2 DEF Made
  <2>2. d.writes = old.writes \cup {r} BY <1>1, <2>1, UpdatedIsDocument
  <2> QED BY <2>1, <2>2
<1>3. ASSUME NEW d \in (Known \ {NoDocument})', NEW e \in (Known \ {NoDocument})',
             d.writes = e.writes
      PROVE  d = e
  <2>0. Made(d) /\ Made(e) /\ d # NoDocument /\ e # NoDocument
    BY <1>0, CopiesAreMade
  <2>1. CASE d \in Known /\ e \in Known BY <1>3, <2>0, <2>1 DEF OneOfEach
  <2>2. CASE (d \in Known) # (e \in Known) BY <1>1, <1>2, <1>3, <2>0, <2>2
  <2>3. CASE d \notin Known /\ e \notin Known
    <3>1. PICK r \in Request, op \in Operation \cup {Boot},
               old \in Known \ {NoDocument} :
            /\ ~Decided(task[r]) /\ task'[r].op = op
            /\ d = Updated(r, op, old) /\ d.writes = old.writes \cup {r}
      BY <1>2, <2>0, <2>3
    <3>2. PICK s \in Request, po \in Operation \cup {Boot},
               new \in Known \ {NoDocument} :
            /\ ~Decided(task[s]) /\ task'[s].op = po
            /\ e = Updated(s, po, new) /\ e.writes = new.writes \cup {s}
      BY <1>2, <2>0, <2>3
    <3>3. r \notin old.writes /\ s \notin old.writes /\ r \notin new.writes
          /\ s \notin new.writes
      BY <1>1, <3>1, <3>2
    <3>4. r = s /\ old.writes = new.writes BY <1>3, <3>1, <3>2, <3>3
    <3>5. old = new BY <3>4 DEF OneOfEach
    <3> QED BY <3>1, <3>2, <3>4, <3>5
  <2> QED BY <2>1, <2>2, <2>3
<1> QED BY <1>3 DEF OneOfEach

\* A document that was the only one with its writes, all of them decided,
\* stays that.
LEMMA OnlyOneStays ==
    ASSUME IInv, IInv', Asked, AllAccounted, [Next]_vars,
           NEW doc \in Document, \A r \in doc.writes : Decided(task[r]),
           \A d \in Known \ {NoDocument} : d.writes = doc.writes => d = doc
    PROVE  /\ \A r \in doc.writes : Decided(task'[r])
           /\ \A d \in (Known \ {NoDocument})' : d.writes = doc.writes => d = doc
<1>0. CopiesMade BY NextMakesCopies
<1>1. \A r \in doc.writes : Decided(task'[r])
  BY <1>0 DEF CopiesMade, Document
<1>2. ASSUME NEW d \in (Known \ {NoDocument})', d.writes = doc.writes
      PROVE  d = doc
  <2>1. Made(d) /\ d # NoDocument BY <1>0, CopiesAreMade
  <2>2. ASSUME NEW r \in Request, NEW op \in Operation \cup {Boot},
               NEW old \in Known \ {NoDocument}, ~Decided(task[r]),
               d = Updated(r, op, old)
        PROVE  FALSE
    <3>1. r \in d.writes BY <2>2, CopiesKnown, UpdatedIsDocument DEF IInv
    <3> QED BY <1>2, <2>2, <3>1
  <2> QED BY <1>2, <2>1, <2>2 DEF Made
<1> QED BY <1>1, <1>2

\* What is about to be saved goes on to have its base, and what comes to be
\* has one.
LEMMA NextKeepsBased ==
    ASSUME IInv, IInv', Asked, AllAccounted, OneOfEach, QueuesInOrder, UnderWay,
           Based, [Next]_vars
    PROVE  Based'
<1>0. ASSUME NEW t \in Task, task[t].pc = "set", task'[t].op = task[t].op,
             task'[t].items = task[t].items
      PROVE  \E doc : BaseOf(t, doc)'
  <2>1. PICK doc : BaseOf(t, doc) BY <1>0 DEF Based
  <2>2. BaseOf(t, doc)' BY <1>0, <2>1, OnlyOneStays DEF BaseOf
  <2> QED BY <2>2
<1>1. ASSUME NEW p \in Pod, NEW t, NEW queue, TakesTurn(p, t, queue),
             task'[t].pc = "set"
      PROVE  \E doc : BaseOf(t, doc)'
  <2>1. PICK old : /\ AtHand(p, t, old) /\ Accepts(task'[t].op, old)
                   /\ task'[t].items = Updated(t, task'[t].op, old)
                   /\ t \in Request /\ ~Decided(task[t]) /\ Mutates(task'[t].op)
    BY <1>1 DEF TakesTurn, Ends, Waits
  <2>2. old \in Known \ {NoDocument} /\ old \in Document
    BY <2>1, CopiesKnown DEF AtHand, IInv, Task
  <2>3. \A r \in old.writes : Decided(task[r]) /\ r # t
    BY <2>1, <2>2, WritesAreDecided
  <2>4. \A d \in Known \ {NoDocument} : d.writes = old.writes => d = old
    BY <2>2 DEF OneOfEach
  <2>5. BaseOf(t, old)' BY <2>1, <2>2, <2>3, <2>4, OnlyOneStays DEF BaseOf
  <2> QED BY <2>5
<1>2. ASSUME NEW u \in Task, task'[u].pc = "set"
      PROVE  \E doc : BaseOf(u, doc)'
  <2>1. ASSUME NEW p \in Pod, NEW t, NEW queue, TakesTurn(p, t, queue)
        PROVE  \E doc : BaseOf(u, doc)'
    <3>1. u # t => task'[u] = task[u] BY <2>1 DEF TakesTurn, Turn
    <3> QED BY <1>0, <1>1, <1>2, <2>1, <3>1
  <2>2. ASSUME NEW p \in Pod, NEW i \in 1..Len(pending[p]), Executes(p, i)
        PROVE  \E doc : BaseOf(u, doc)'
    BY <1>0, <1>2, <2>2 DEF Executes
  <2>3. ASSUME NEW p \in Pod, Stop(p) PROVE \E doc : BaseOf(u, doc)'
    <3>1. u \notin Queued(p)
      BY <1>2, <2>3, StopDrops DEF Task, Idle
    <3> QED BY <1>0, <1>2, <2>3, <3>1, StopDrops
  <2>4. CASE Aside BY <1>0, <1>2, <2>4 DEF Aside
  <2> QED BY <2>1, <2>2, <2>3, <2>4, StepsOfTasks, CommandsExecute
<1> QED BY <1>2 DEF Based

\* All of it.
Standing ==
    /\ IInv /\ Asked /\ AllAccounted
    /\ QueuesInOrder /\ UnderWay /\ Unsent /\ OneOfEach /\ Based

\* It holds throughout.
LEMMA StandingAlways == Spec => []Standing
<1>1. Init => QueuesInOrder /\ UnderWay /\ Unsent /\ OneOfEach /\ Based
  <2> SUFFICES ASSUME Init
               PROVE  QueuesInOrder /\ UnderWay /\ Unsent /\ OneOfEach /\ Based
    OBVIOUS
  <2>1. \A p \in Pod : pending[p] = <<>> /\ Queued(p) = {}
    <3>1. \A p \in Pod : pending[p] = <<>> BY DEF Init
    <3> QED BY <3>1, NoElements DEF Queued, Elements
  <2>2. \A t \in Task : /\ task[t].pc = "idle" /\ task[t].answer = "none"
                        /\ task[t].items = NoDocument
    BY DEF Init, Idle
  <2>3. Known \ {NoDocument} \subseteq {Seed}
    BY <2>2 DEF Known, Copies, Init
  <2> QED BY <2>1, <2>2, <2>3, NoElements
          DEF QueuesInOrder, UnderWay, Unsent, OneOfEach, Based, Saving
<1>2. /\ IInv /\ IInv' /\ Asked /\ AllAccounted
      /\ QueuesInOrder /\ UnderWay /\ Unsent /\ OneOfEach /\ Based /\ [Next]_vars
      => (QueuesInOrder /\ UnderWay /\ Unsent /\ OneOfEach /\ Based)'
  BY NextKeepsOrder, NextKeepsUnsent, NextKeepsOneOfEach, NextKeepsBased
<1> QED BY <1>1, <1>2, Invariance, AskedAlways, AccountedAlways, PTL
        DEF Spec, Standing

-----------------------------------------------------------------------------
(* The atomic inventory.                                                    *)

\* How far a request is, for the atomic inventory.
Stage(s) ==
    IF s.pc = "saved"         THEN [state |-> "applied", op |-> s.op]
    ELSE IF s.answer = "none" THEN [state |-> "waiting"]
    ELSE [state |-> s.answer, op |-> s.op]
Stages == [r \in Request |-> Stage(task[r])]

\* A step of it, or one it does not know of.
Serves ==
    \/ Atomic!AtomicNext \/ UNCHANGED Atomic!abstractVars
    \/ OnStaleCopy \/ FromMemory \/ KeyLost

\* The operations are the same there.
LEMMA SameOperations ==
    ASSUME NEW r, NEW op, NEW doc
    PROVE  /\ Atomic!WellFormed(op) <=> WellFormed(op)
           /\ Atomic!Accepts(op, doc) <=> Accepts(op, doc)
           /\ Atomic!Mutates(op) <=> Mutates(op)
           /\ Atomic!Updated(r, op, doc) = Updated(r, op, doc)
<1>1. /\ Atomic!WellFormed(op) <=> WellFormed(op)
      /\ Atomic!Mutates(op) <=> Mutates(op)
  BY DEF Atomic!WellFormed, WellFormed, Atomic!Quantity, Quantity,
         Atomic!Mutates, Mutates
<1>2. Atomic!Accepts(op, doc) <=> Accepts(op, doc)
  BY DEF Atomic!Accepts, Accepts, Atomic!InStock, InStock, Atomic!Covers, Covers
<1>3. Atomic!Mutation(op, doc) = Mutation(op, doc)
  BY DEF Atomic!Mutation, Mutation, Atomic!Decrement, Decrement,
         Atomic!Quantity, Quantity, Atomic!AddProduct, AddProduct,
         Atomic!SetStock, SetStock, Atomic!RemoveProduct, RemoveProduct
<1>4. Atomic!Updated(r, op, doc) = Updated(r, op, doc)
  BY <1>3 DEF Atomic!Updated, Updated
<1> QED BY <1>1, <1>2, <1>4

\* Its outcomes are the stages of the requests.
LEMMA OutcomesAreStages ==
    /\ Atomic!abstractVars = <<Current, Stages>>
    /\ Atomic!abstractVars' = <<Current', Stages'>>
BY DEF Atomic!abstractVars, Stages, Stage

\* A request that is all that changes.
OnlyChanges(r) == \A u \in Request \ {r} : task'[u] = task[u]

\* The stages after a step of one request.
LEMMA StagesChange ==
    ASSUME NEW r \in Request,
           \A u \in Request \ {r} : Stage(task'[u]) = Stage(task[u])
    PROVE  Stages' = [Stages EXCEPT ![r] = Stage(task'[r])]
<1>1. Stages' = [u \in Request |-> Stage(task'[u])] BY DEF Stages, Stage
<1> HIDE DEF Stage
<1> QED BY <1>1 DEF Stages

\* A step by which a request takes effect, with its answer or before it.
LEMMA StepServes ==
    ASSUME NEW r \in Request, NEW op \in Operation,
           Stage(task[r]) = [state |-> "waiting"],
           WellFormed(op), Accepts(op, Current),
           Current' = IF Mutates(op) THEN Updated(r, op, Current) ELSE Current,
           NEW state \in {"ok", "applied"},
           Stage(task'[r]) = [state |-> state, op |-> op],
           \A u \in Request \ {r} : Stage(task'[u]) = Stage(task[u])
    PROVE  Atomic!AtomicNext
<1>1. Stages' = [Stages EXCEPT ![r] = [state |-> state, op |-> op]] BY StagesChange
<1>2. Stages[r] = [state |-> "waiting"] BY DEF Stages
<1>3. Atomic!Serve(r, op)
  BY <1>1, <1>2, SameOperations, ZenonT(30)
  DEF Atomic!Serve, Atomic!Waiting, Atomic!Reached, Stages, Stage
<1> QED BY <1>3 DEF Atomic!AtomicNext

\* One that refuses it,
LEMMA StepRefuses ==
    ASSUME NEW r \in Request, NEW op \in Operation,
           Stage(task[r]) = [state |-> "waiting"],
           ~(WellFormed(op) /\ Accepts(op, Current)), Current' = Current,
           Stage(task'[r]) = [state |-> "refused", op |-> op],
           \A u \in Request \ {r} : Stage(task'[u]) = Stage(task[u])
    PROVE  Atomic!AtomicNext
<1>1. Stages' = [Stages EXCEPT ![r] = [state |-> "refused", op |-> op]] BY StagesChange
<1>2. Stages[r] = [state |-> "waiting"] BY DEF Stages
<1>3. Atomic!Refuse(r, op)
  BY <1>1, <1>2, SameOperations, ZenonT(30)
  DEF Atomic!Refuse, Atomic!Waiting, Atomic!Reached, Stages, Stage
<1> QED BY <1>3 DEF Atomic!AtomicNext

\* and one that answers it after it took effect.
LEMMA StepConfirms ==
    ASSUME NEW r \in Request, NEW op \in Operation,
           Stage(task[r]) = [state |-> "applied", op |-> op], Current' = Current,
           Stage(task'[r]) = [state |-> "ok", op |-> op],
           \A u \in Request \ {r} : Stage(task'[u]) = Stage(task[u])
    PROVE  Atomic!AtomicNext
<1>1. Stages' = [Stages EXCEPT ![r] = [state |-> "ok", op |-> op]] BY StagesChange
<1>2. Stages[r] = [state |-> "applied", op |-> op] BY DEF Stages
<1>3. Atomic!Confirm(r, op)
  BY <1>1, <1>2, Zenon
  DEF Atomic!Confirm, Atomic!Reached, Stages, Stage
<1> QED BY <1>3 DEF Atomic!AtomicNext

\* Nothing changes for it.
LEMMA StepStutters ==
    ASSUME Current' = Current, \A u \in Request : Stage(task'[u]) = Stage(task[u])
    PROVE  UNCHANGED Atomic!abstractVars
<1>1. Stages' = [u \in Request |-> Stage(task'[u])] BY DEF Stages, Stage
<1> HIDE DEF Stage
<1>2. Stages' = Stages BY <1>1 DEF Stages
<1> QED BY <1>2, OutcomesAreStages

\* A process ends.
LEMMA StepLoses ==
    ASSUME NEW gone \in SUBSET Request, Current' = Current,
           \A r \in gone : /\ task[r].op \in Operation
                           /\ Stage(task[r]) \in {[state |-> "waiting"],
                                    [state |-> "applied", op |-> task[r].op]}
                           /\ Stage(task'[r]) = [state |-> "dropped", op |-> task[r].op],
           \A u \in Request \ gone : Stage(task'[u]) = Stage(task[u])
    PROVE  Atomic!AtomicNext
<1> DEFINE asked == [r \in gone |-> task[r].op]
<1>1. Stages' = [u \in Request |-> Stage(task'[u])] BY DEF Stages, Stage
<1>2. Stages' = [r \in Request |->
                   IF r \in gone THEN [state |-> "dropped", op |-> asked[r]]
                                 ELSE Stages[r]]
  <2> HIDE DEF Stage
  <2> QED BY <1>1 DEF Stages
<1>3. \A r \in gone : /\ Stages[r].state \in {"waiting", "applied"}
                      /\ Stages[r] # [state |-> "waiting"] => asked[r] = Stages[r].op
  <2> SUFFICES ASSUME NEW r \in gone
               PROVE  /\ Stage(task[r]).state \in {"waiting", "applied"}
                      /\ Stage(task[r]) # [state |-> "waiting"] =>
                             task[r].op = Stage(task[r]).op
    BY DEF Stages
  <2>1. CASE Stage(task[r]) = [state |-> "waiting"]
    <3> HIDE DEF Stage
    <3>1. [state |-> "waiting"].state = "waiting" OBVIOUS
    <3>2. Stage(task[r]).state = "waiting" BY <2>1, <3>1
    <3> QED BY <2>1, <3>2
  <2>2. CASE Stage(task[r]) = [state |-> "applied", op |-> task[r].op]
    <3> HIDE DEF Stage
    <3> QED BY <2>2
  <2> QED BY <2>1, <2>2
<1>4. asked \in [gone -> Operation] OBVIOUS
<1>5. Atomic!Lose(gone)
  <2> HIDE DEF asked
  <2> QED BY <1>2, <1>3, <1>4, Zenon
          DEF Atomic!Lose, Atomic!Waiting, Atomic!Reached, Stages, Stage
<1> QED BY <1>5 DEF Atomic!AtomicNext

\* A request that waits for Redis has not been served.
LEMMA UnderWayStage ==
    ASSUME IInv, UnderWay, NEW r \in Request, task[r].pc \notin {"saved", "done"}
    PROVE  Stage(task[r]) = [state |-> "waiting"]
BY DEF UnderWay, Stage, Task

\* An answer is what becomes of it.
LEMMA FinishStage ==
    ASSUME IInv, NEW r \in Request, NEW p \in Pod, NEW queue, NEW op,
           NEW answer \in {"ok", "refused", "dropped"},
           Finish(r, p, queue, op, answer)
    PROVE  /\ Stage(task'[r]) = [state |-> answer, op |-> op]
           /\ OnlyChanges(r)
<1> DEFINE s == [Idle EXCEPT !.pc = "done", !.op = op, !.answer = answer]
<1>1. s.pc = "done" /\ s.op = op /\ s.answer = answer BY DEF Idle
<1>2. task' = [task EXCEPT ![r] = s] /\ r \in Task BY DEF Finish, Task
<1> HIDE DEF s
<1>3. task'[r] = s /\ \A u \in Task \ {r} : task'[u] = task[u]
  BY <1>2 DEF IInv, TypeOK
<1> QED BY <1>1, <1>3 DEF Stage, OnlyChanges, Task

\* A handler that has read, and goes on with the copy that is in Redis,
HasCopy(t) == task[t].pc \in {"got", "seeded"}
GoesOn(t, p, queue) == \E aliased \in BOOLEAN :
                           Loaded(t, p, queue, redisDoc, aliased)

\* is served, or refused with reason, or has yet to save.
LEMMA LoadServes ==
    ASSUME Standing, NEW p \in Pod, NEW t \in Request \cup {p}, NEW queue,
           HasCopy(t), redisReady[p], redisDoc # NoDocument,
           redisDoc' = redisDoc, GoesOn(t, p, queue)
    PROVE  Serves
<1> USE DEF Standing
<1>0. /\ Current' = Current /\ Current = redisDoc
      /\ t \in Task /\ task[t] \in TaskState
  BY DEF Current, Task, IInv, TypeOK
<1>1. CASE t = p
  <2>1. task' = [task EXCEPT ![p] = Idle] BY <1>1 DEF GoesOn, Loaded, Listen
  <2>2. \A u \in Request : task'[u] = task[u]
    BY <1>1, <2>1, TaskAssumption DEF IInv, TypeOK, Task
  <2> QED BY <1>0, <2>2, StepStutters DEF Serves
<1>2. CASE t # p
  <2> DEFINE op == task[t].op
             s == [task[t] EXCEPT !.pc = "set", !.op = op,
                                  !.items = Updated(t, op, redisDoc)]
  <2>1. /\ t \in Request
        /\ \E aliased \in BOOLEAN :
              Proceed(t, p, queue, op, redisDoc, aliased)
    BY <1>2 DEF GoesOn, Loaded
  <2>2. /\ op \in Operation /\ WellFormed(op)
        /\ Stage(task[t]) = [state |-> "waiting"]
        /\ task[t].answer = "none"
    BY <1>0, <2>1, UnderWayStage DEF HasCopy, UnderWay, Asked
  <2>3. CASE ~Accepts(op, redisDoc) /\ Finish(t, p, queue, op, "refused")
    <3>1. /\ Stage(task'[t]) = [state |-> "refused", op |-> op]
          /\ OnlyChanges(t)
      BY <2>1, <2>3, FinishStage
    <3> QED BY <1>0, <2>1, <2>2, <2>3, <3>1, StepRefuses DEF OnlyChanges, Serves
  <2>4. CASE /\ Accepts(op, redisDoc) /\ ~Mutates(op)
             /\ Finish(t, p, queue, op, "ok")
    <3>1. /\ Stage(task'[t]) = [state |-> "ok", op |-> op]
          /\ OnlyChanges(t)
      BY <2>1, <2>4, FinishStage
    <3> QED BY <1>0, <2>1, <2>2, <2>4, <3>1, StepServes DEF OnlyChanges, Serves
  <2>5. CASE Await(t, p, queue, s)
    <3>1. s.pc = "set" /\ s.answer = "none" BY <1>0, <2>2 DEF TaskState
    <3> HIDE DEF s
    <3>2. task'[t] = s /\ \A u \in Task \ {t} : task'[u] = task[u]
      BY <1>0, <2>5 DEF Await, IInv, TypeOK
    <3>3. Stage(task'[t]) = [state |-> "waiting"] BY <3>1, <3>2 DEF Stage
    <3> QED BY <1>0, <2>2, <3>2, <3>3, StepStutters DEF Serves, Task
  <2> HIDE DEF op, s
  <2> QED BY <2>1, <2>3, <2>4, <2>5 DEF Proceed, op, s
<1> QED BY <1>1, <1>2

\* A step of a pod.
LEMMA ServiceServes ==
    ASSUME Standing, NEW p \in Pod, Service(p)
    PROVE  Serves
<1> DEFINE t == Head(pending[p])
           queue == Tail(pending[p])
<1>0. Standing OBVIOUS
<1> USE DEF Standing
<1>1. ASSUME pending[p] # <<>>
      PROVE  /\ t \in Task /\ t \in Queued(p) /\ t \in Request \cup {p}
             /\ task[t] \in TaskState
  BY <1>1, HeadTakesTurn DEF IInv, QueuesApart, TypeOK
<1>2. ASSUME TakesTurn(p, t, queue), task[t].pc \in {"got", "seeded"}
      PROVE  task'[t] # task[t]
  BY <1>2 DEF TakesTurn, Ends, Waits
<1>3. CASE ReceiveDocument(p)
  <2>1. /\ pending[p] # <<>> /\ redisDoc' = redisDoc /\ redisReady[p]
        /\ task[t].pc = "got" /\ task[t].items # NoDocument
        /\ Loaded(t, p, queue, task[t].items, FALSE)
    BY <1>3 DEF ReceiveDocument, Reply
  <2>2. TakesTurn(p, t, queue) BY <1>3, HeadHasTurn
  <2> HIDE DEF t, queue
  <2>3. CASE task[t].items = redisDoc
    <3>1. GoesOn(t, p, queue) /\ redisDoc # NoDocument
      BY <2>1, <2>3 DEF GoesOn
    <3>2. t \in Request \cup {p} /\ HasCopy(t)
      BY <1>1, <2>1 DEF HasCopy
    <3> HIDE DEF Standing
    <3> QED BY <1>0, <2>1, <3>1, <3>2, LoadServes
  <2>4. CASE task[t].items # redisDoc
    BY <1>1, <1>2, <2>1, <2>2, <2>4 DEF Serves, OnStaleCopy, Stale
  <2> QED BY <2>3, <2>4
<1>4. CASE ContinueSeeded(p)
  <2>1. /\ pending[p] # <<>> /\ redisDoc' = redisDoc /\ redisReady[p]
        /\ task[t].pc = "seeded"
        /\ Loaded(t, p, queue, inventory[p], TRUE)
    BY <1>4 DEF ContinueSeeded, Reply
  <2>2. TakesTurn(p, t, queue) BY <1>4, HeadHasTurn
  <2>3. inventory[p] # NoDocument BY DocumentAssumption DEF IInv, TypeOK
  <2> HIDE DEF t, queue
  <2>4. CASE inventory[p] = redisDoc
    <3>1. GoesOn(t, p, queue) /\ redisDoc # NoDocument
      BY <2>1, <2>3, <2>4 DEF GoesOn
    <3>2. t \in Request \cup {p} /\ HasCopy(t)
      BY <1>1, <2>1 DEF HasCopy
    <3> HIDE DEF Standing
    <3> QED BY <1>0, <2>1, <3>1, <3>2, LoadServes
  <2>5. CASE inventory[p] # redisDoc
    BY <1>1, <1>2, <2>1, <2>2, <2>5 DEF Serves, OnStaleCopy, Stale
  <2> QED BY <2>4, <2>5
<1>5. CASE FallBack(p) \/ FailToSave(p)
  <2>1. ~redisReady[p] /\ pending[p] # <<>> BY <1>5 DEF FallBack, FailToSave
  <2>2. task[t].pc \in Loading \cup Saving BY <1>5 DEF FallBack, FailToSave
  <2>3. pending'[p] = queue
    <3>1. CASE FailToSave(p)
      BY <3>1 DEF FailToSave, Finish, IInv, TypeOK
    <3>2. CASE FallBack(p)
      <4>1. Loaded(t, p, queue, inventory[p], TRUE) BY <3>2 DEF FallBack
      <4>2. pending' = [pending EXCEPT ![p] = queue]
        <5> HIDE DEF t, queue
        <5> QED BY <2>1, <4>1 DEF Loaded, Listen, Proceed, Finish
      <4> QED BY <4>2 DEF IInv, TypeOK
    <3> QED BY <1>5, <3>1, <3>2
  <2>4. queue # pending[p]
    <3>1. pending[p] \in Seq(Task) BY DEF IInv, TypeOK
    <3>2. /\ Len(queue) = Len(pending[p]) - 1 /\ Len(pending[p]) \in Nat
      BY <2>1, <3>1, HeadTailProperties
    <3> HIDE DEF queue
    <3>3. Len(queue) # Len(pending[p]) BY <3>2
    <3> QED BY <3>3
  <2> QED BY <2>1, <2>3, <2>4 DEF Serves, FromMemory
<1>6. CASE SendSeed(p)
  <2> DEFINE s == [task[t] EXCEPT !.pc = "seed", !.items = inventory[p]]
  <2>1. /\ pending[p] # <<>> /\ redisDoc' = redisDoc /\ task[t].pc = "got"
        /\ Await(t, p, queue, s)
    BY <1>6 DEF SendSeed, Reply
  <2>2. s.pc = "seed" /\ s.answer = "none"
    BY <1>1, <2>1 DEF TaskState, UnderWay
  <2> HIDE DEF t, queue, s
  <2>3. task'[t] = s /\ \A u \in Task \ {t} : task'[u] = task[u]
    BY <1>1, <2>1 DEF Await, IInv, TypeOK
  <2>4. \A u \in Request : Stage(task'[u]) = Stage(task[u])
    BY <1>1, <2>1, <2>2, <2>3 DEF Stage, UnderWay, Task
  <2> QED BY <2>1, <2>4, StepStutters DEF Serves, Current
<1>7. CASE AnswerSaved(p)
  <2>1. /\ pending[p] # <<>> /\ redisDoc' = redisDoc /\ task[t].pc = "saved"
        /\ Finish(t, p, queue, task[t].op, "ok")
    BY <1>7 DEF AnswerSaved, Reply
  <2> HIDE DEF t, queue
  <2>2. t \in Request /\ task[t].op \in Operation
    BY <1>1, <2>1 DEF UnderWay, Saving
  <2>3. /\ Stage(task[t]) = [state |-> "applied", op |-> task[t].op]
        /\ Stage(task'[t]) = [state |-> "ok", op |-> task[t].op]
        /\ OnlyChanges(t)
    BY <2>1, <2>2, FinishStage DEF Stage
  <2> QED BY <2>1, <2>2, <2>3, StepConfirms DEF Serves, OnlyChanges, Current
<1>8. CASE Connect(p) \/ RedisError(p)
  <2>1. redisDoc' = redisDoc /\ \A u \in Request : task'[u] = task[u]
    BY <1>8, TaskAssumption DEF Connect, RedisError, Await, IInv, TypeOK, Task
  <2> QED BY <2>1, StepStutters DEF Serves, Current
<1>9. CASE Exit(p)
  <2>1. Stop(p) /\ Queued(p) = {}
    BY <1>9, NoElements DEF Exit, Queued, Elements
  <2>2. redisDoc' = redisDoc /\ \A u \in Request : task'[u] = task[u]
    BY <2>1, StopDrops DEF Task
  <2> QED BY <2>2, StepStutters DEF Serves, Current
<1> QED BY <1>3, <1>4, <1>5, <1>6, <1>7, <1>8, <1>9 DEF Service

\* A request that arrives.
LEMMA RequestServes ==
    ASSUME Standing, ReceiveRequest
    PROVE  Serves
<1> USE DEF Standing
<1>1. PICK r \in Request, p \in Pod, op \in Operation :
        \/ RefuseMalformed(r, p, op) \/ SendGet(r, p, op)
        \/ ServeFromMemory(r, p, op)
  BY DEF ReceiveRequest
<1>2. task[r].pc = "idle" /\ r \in Task
  BY <1>1 DEF RefuseMalformed, SendGet, ServeFromMemory, Task
<1>3. CASE task'[r].pc = "done" BY <1>2, <1>3 DEF Serves, FromMemory
<1>4. CASE SendGet(r, p, op)
  <2> DEFINE s == [Idle EXCEPT !.pc = "get", !.op = op]
  <2>1. task' = [task EXCEPT ![r] = s] /\ redisDoc' = redisDoc
    BY <1>4 DEF SendGet, Await
  <2>2. s.pc = "get" /\ s.answer = "none" BY DEF Idle
  <2> HIDE DEF s
  <2>3. task'[r] = s /\ \A u \in Task \ {r} : task'[u] = task[u]
    BY <1>2, <2>1 DEF IInv, TypeOK
  <2>4. Stage(task[r]) = [state |-> "waiting"] BY <1>2, UnderWayStage
  <2>5. Stage(task'[r]) = [state |-> "waiting"] BY <2>2, <2>3 DEF Stage
  <2>6. \A u \in Request : Stage(task'[u]) = Stage(task[u])
    BY <2>3, <2>4, <2>5 DEF Task
  <2> QED BY <2>1, <2>6, StepStutters DEF Serves, Current
<1> QED BY <1>1, <1>3, <1>4, ReceiveTakesTurn

\* A command that Redis executes: a SET of a handler is its request taking
\* effect, unless the handler has a stale copy.
LEMMA CommandServes ==
    ASSUME Standing, NEW p \in Pod, NEW i \in 1..Len(pending[p]), Executes(p, i)
    PROVE  Serves
<1> DEFINE t == pending[p][i]
<1> USE DEF Standing
<1>1. /\ t \in Task /\ t \in Queued(p) /\ task[t] \in TaskState
      /\ \A u \in Task : /\ task'[u].op = task[u].op
                         /\ task'[u].answer = task[u].answer
      /\ \A u \in Task \ {t} : task'[u].pc = task[u].pc
      /\ \/ /\ task[t].pc = "get" /\ task'[t].pc = "got" /\ redisDoc' = redisDoc
         \/ /\ \/ task[t].pc = "seed" /\ task'[t].pc = "seeded"
               \/ task[t].pc = "set" /\ task'[t].pc = "saved"
            /\ redisDoc' = task[t].items
  BY DEF Executes, IInv, TypeOK
<1> HIDE DEF t
<1>2. \A u \in Request \ {t} : Stage(task'[u]) = Stage(task[u])
  BY <1>1 DEF Stage, Task
<1>3. ASSUME task'[t].pc # "saved"
      PROVE  \A u \in Request : Stage(task'[u]) = Stage(task[u])
  BY <1>1, <1>2, <1>3 DEF Stage, Task
<1>4. CASE task[t].pc = "get"
  BY <1>1, <1>3, <1>4, StepStutters DEF Serves, Current
<1>5. CASE Stale(t) /\ task'[t] # task[t]
  BY <1>1, <1>5 DEF Serves, OnStaleCopy
<1>6. CASE task[t].pc = "seed" /\ ~Stale(t)
  <2>1. /\ task[t].items = Current /\ task[t].items # NoDocument
        /\ redisDoc' = task[t].items /\ task'[t].pc = "seeded"
    BY <1>1, <1>6 DEF Stale, UnderWay
  <2>2. Current' = Current BY <2>1 DEF Current
  <2> QED BY <1>3, <2>1, <2>2, StepStutters DEF Serves
<1>7. CASE task[t].pc = "set" /\ ~Stale(t)
  <2>1. /\ Writes(task[t].items) = Writes(redisDoc) \cup {t}
        /\ task[t].items # NoDocument /\ t \in Request
        /\ redisDoc' = task[t].items /\ task'[t].pc = "saved"
        /\ t \notin Writes(redisDoc)
        /\ task[t].op \in Operation
    BY <1>1, <1>7 DEF Stale, UnderWay, Saving, Unsent
  <2>2. PICK doc : BaseOf(t, doc) BY <1>1, <1>7 DEF Based
  <2>3. /\ doc \in Document /\ Accepts(task[t].op, doc) /\ Mutates(task[t].op)
        /\ task[t].items = Updated(t, task[t].op, doc)
        /\ t \notin doc.writes
        /\ \A d \in Known \ {NoDocument} : d.writes = doc.writes => d = doc
    BY <2>2 DEF BaseOf
  <2>4. task[t].items.writes = doc.writes \cup {t}
    BY <2>1, <2>3, UpdatedIsDocument
  <2>5. doc.writes = Writes(redisDoc)
    <3>1. Writes(task[t].items) = task[t].items.writes BY <2>1 DEF Writes
    <3>2. ASSUME NEW A, NEW B, A \cup {t} = B \cup {t}, t \notin A, t \notin B
          PROVE  A = B
      BY <3>2
    <3> QED BY <2>1, <2>3, <2>4, <3>1, <3>2
  <2>6. doc = Current
    <3>1. Current \in Known \ {NoDocument}
      <4>1. Seed \in Document BY SeedAssumption DEF Seed, Document
      <4>2. redisDoc \in Known BY CopiesKnown DEF IInv
      <4> QED BY <4>1, <4>2, DocumentAssumption DEF Current, Known
    <3>2. Current.writes = doc.writes BY <2>5 DEF Current, Writes, Seed
    <3> QED BY <2>3, <3>1, <3>2
  <2>7. Current' = task[t].items BY <2>1 DEF Current
  <2>8. WellFormed(task[t].op) BY <1>1, <1>7 DEF Asked
  <2>9. Stage(task[t]) = [state |-> "waiting"] BY <1>7, <2>1, UnderWayStage
  <2>10. Stage(task'[t]) = [state |-> "applied", op |-> task[t].op]
    BY <1>1, <2>1 DEF Stage
  <2>11. Current' = IF Mutates(task[t].op) THEN Updated(t, task[t].op, Current)
                                           ELSE Current
    BY <2>3, <2>6, <2>7
  <2> QED BY <1>2, <2>1, <2>3, <2>6, <2>8, <2>9, <2>10, <2>11, StepServes
          DEF Serves
<1>8. task[t].pc # "get" => task'[t] # task[t] BY <1>1
<1> QED BY <1>1, <1>4, <1>5, <1>6, <1>7, <1>8

\* An event of the environment.
LEMMA EnvironmentServes ==
    ASSUME Standing, Environment
    PROVE  Serves
<1> USE DEF Standing
<1>1. ASSUME NEW p \in Pod, FailToConnect(p) \/ LoseConnection(p)
      PROVE  Serves
  BY <1>1, StepStutters DEF FailToConnect, LoseConnection, Serves, Current
<1>2. CASE RestartRedis \/ DeleteKey
  <2>1. redisDoc' = NoDocument /\ task' = task
    BY <1>2 DEF RestartRedis, DeleteKey
  <2> QED BY <2>1, StepStutters DEF Serves, KeyLost, Current
<1>3. ASSUME NEW p \in Pod, Crash(p) PROVE Serves
  <2> DEFINE gone == Queued(p) \cap Request
  <2>1. Stop(p) /\ Current' = Current
    BY <1>3, StopDrops DEF Crash, Current
  <2>2. ASSUME NEW r \in gone
        PROVE  /\ task[r].op \in Operation
               /\ Stage(task[r]) \in {[state |-> "waiting"],
                                      [state |-> "applied", op |-> task[r].op]}
               /\ Stage(task'[r]) = [state |-> "dropped", op |-> task[r].op]
    <3>1. task[r].pc \in Sent \cup Executed /\ r \in Task
      BY DEF QueuesInOrder, Task
    <3>2. task[r].op \in Operation /\ task[r].answer = "none"
      BY <3>1 DEF UnderWay, Sent, Executed
    <3>3. /\ task'[r].pc = "done" /\ task'[r].op = task[r].op
          /\ task'[r].answer = "dropped"
      BY <2>1, StopDrops
    <3>4. Stage(task[r]) \in {[state |-> "waiting"],
                              [state |-> "applied", op |-> task[r].op]}
      BY <3>2 DEF Stage
    <3>5. Stage(task'[r]) = [state |-> "dropped", op |-> task[r].op]
      BY <3>3 DEF Stage
    <3> QED BY <3>2, <3>4, <3>5
  <2>3. \A u \in Request \ gone : Stage(task'[u]) = Stage(task[u])
    BY <2>1, StopDrops DEF Task
  <2>4. gone \in SUBSET Request OBVIOUS
  <2> HIDE DEF gone
  <2> QED BY <2>1, <2>2, <2>3, <2>4, StepLoses DEF Serves
<1> QED BY <1>1, <1>2, <1>3 DEF Environment

\* The catalog is one inventory, but for what AtomicInventory leaves out:
\* handlers that go on with a stale copy, pods that answer from memory, and
\* the loss of the key.
THEOREM InventoryIsAtomic == Spec => ImplementsAtomicInventory
<1>1. Init => Atomic!AtomicInit
  <2> SUFFICES ASSUME Init PROVE Atomic!AtomicInit OBVIOUS
  <2>1. Current = Atomic!Seed BY DEF Init, Current, Seed, Atomic!Seed
  <2>2. \A r \in Request : task[r].pc = "idle" /\ task[r].answer = "none"
    BY DEF Init, Idle, Task
  <2>3. [r \in Request |-> Stage(task[r])]
          = [r \in Request |-> [state |-> "waiting"]]
    BY <2>2 DEF Stage
  <2> QED BY <2>1, <2>3 DEF Atomic!AtomicInit, Atomic!Waiting, Stage
<1>2. Standing /\ [Next]_vars =>
        [ \/ OnStaleCopy \/ FromMemory \/ KeyLost
          \/ Atomic!AtomicNext ]_(Atomic!abstractVars)
  <2> SUFFICES ASSUME Standing, [Next]_vars PROVE Serves BY DEF Serves
  <2>1. CASE UNCHANGED vars
    BY <2>1, StepStutters DEF vars, Serves, Current
  <2>2. CASE Next
    <3>1. ASSUME NEW p \in Pod, Redis(p) PROVE Serves
      BY <3>1, CommandsExecute, CommandServes DEF Redis, Standing
    <3> QED BY <2>2, <3>1, RequestServes, ServiceServes, EnvironmentServes
            DEF Next
  <2> QED BY <2>1, <2>2
<1> QED BY <1>1, <1>2, StandingAlways, PTL DEF Spec, ImplementsAtomicInventory

=============================================================================
