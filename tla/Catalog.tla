------------------------------- MODULE Catalog -------------------------------
(***************************************************************************)
(* The catalog service: several pods of one Node program in front of one   *)
(* Redis key.  Every handler loads the whole inventory, changes its copy   *)
(* and saves the whole copy back; a pod that has lost Redis serves its own *)
(* in-memory inventory until it is restarted.                              *)
(*                                                                         *)
(* One action is what a pod does between two awaits on Redis, what Redis   *)
(* does with one command, or one event of the environment.  Handlers that  *)
(* run on the in-memory inventory only await resolved promises, so they    *)
(* run from the load to the answer in one step.                            *)
(***************************************************************************)
EXTENDS InventoryDocument, Sequences

CONSTANTS
    Pod,         \* replicas of the catalog deployment
    NoDocument,  \* what GET returns when the key is absent
    Fault,       \* the faults of a run, see FaultKind
    MaxFaults,   \* bound: how many of them happen
    MaxOverlap   \* bound: how many tasks are under way at once

FaultKind ==
    {"unreachable", "connection", "redis restart", "key deleted", "crash"}

ASSUME DocumentAssumption == NoDocument \notin Document
ASSUME TaskAssumption     == Pod \cap Request = {}
ASSUME BoundAssumption    == /\ Fault \subseteq FaultKind
                             /\ MaxFaults \in Nat
                             /\ MaxOverlap \in Nat

\* The handler of a request, or the start of a pod, which loads the
\* inventory as a handler does before it listens.
Task == Request \cup Pod
Boot == [kind |-> "boot"]

VARIABLES
    redisDoc,    \* the value of the key catalog:inventory:v1
    link,        \* the connection of a pod to Redis
    pod,         \* where a pod is in its life
    redisReady,  \* the flag of that name
    inventory,   \* the in-memory inventory of a pod
    pending,     \* tasks awaiting a Redis command of their pod, as sent
    task,        \* the continuation of every handler
    faults       \* faults so far

vars == <<redisDoc, link, pod, redisReady, inventory, pending, task, faults>>

Sent     == {"get", "seed", "set"}         \* a command waits for Redis
Executed == {"got", "seeded", "saved"}     \* its reply waits for the pod
HasRead  == {"got", "seed", "seeded", "set"}
Loading  == {"get", "got", "seed", "seeded"}
Saving   == {"set", "saved"}

\* "missed" is a history field: what other tasks have put into Redis since
\* this one read the key.  No action of the program reads it.
TaskState ==
    [pc: {"idle", "done"} \cup Sent \cup Executed,
     op: Operation \cup {Boot},
     items: Document \cup {NoDocument},
     missed: SUBSET Request,
     answer: {"none", "ok", "refused", "dropped"}]

TypeOK ==
    /\ redisDoc \in Document \cup {NoDocument}
    /\ link \in [Pod -> {"none", "up", "broken"}]
    /\ pod \in [Pod -> {"down", "loading", "serving", "failing"}]
    /\ redisReady \in [Pod -> BOOLEAN]
    /\ inventory \in [Pod -> Document]
    /\ pending \in [Pod -> Seq(Task)]
    /\ task \in [Task -> TaskState]
    /\ faults \in 0..MaxFaults

Idle == [pc |-> "idle", op |-> Boot, items |-> NoDocument, missed |-> {},
         answer |-> "none"]

Init ==
    /\ redisDoc = NoDocument
    /\ link = [p \in Pod |-> "none"]
    /\ pod = [p \in Pod |-> "down"]
    /\ redisReady = [p \in Pod |-> FALSE]
    /\ inventory = [p \in Pod |-> Seed]
    /\ pending = [p \in Pod |-> <<>>]
    /\ task = [t \in Task |-> Idle]
    /\ faults = 0

Happens(fault) ==
    /\ fault \in Fault /\ faults < MaxFaults
    /\ faults' = faults + 1

-----------------------------------------------------------------------------
(* What the handlers share.                                                *)

\* The writes a possibly absent document has in it.
Writes(doc) == IF doc = NoDocument THEN {} ELSE doc.writes

\* Bound on the tasks under way at once, over all pods.
Busy == {t \in Task : task[t].pc \notin {"idle", "done"}}
Room == Cardinality(Busy) < MaxOverlap

\* The tasks of a pod that await Redis.
Queued(p) == {pending[p][i] : i \in 1..Len(pending[p])}

\* A pod whose client has failed settles every command it has outstanding
\* before it reads anything else: the rejections run in one turn of its loop.
Settled(p) == redisReady[p] \/ pending[p] = <<>>

Await(t, p, queue, state) ==
    /\ task' = [task EXCEPT ![t] = state]
    /\ pending' = [pending EXCEPT ![p] = Append(queue, t)]

Finish(t, p, queue, op, answer) ==
    /\ task' = [task EXCEPT ![t] = [Idle EXCEPT !.pc = "done", !.op = op,
                                                !.answer = answer]]
    /\ pending' = [pending EXCEPT ![p] = queue]

\* A handler goes on with the inventory it loaded, "aliased" when that is
\* the in-memory array itself, whose products the handler then changes in
\* place.  Saving sends the document to Redis, or stores it in memory.
Proceed(t, p, queue, op, items, aliased) ==
    LET next == Updated(t, op, items) IN
    \/ /\ ~Accepts(op, items)
       /\ Finish(t, p, queue, op, "refused")
       /\ UNCHANGED inventory
    \/ /\ Accepts(op, items) /\ ~Mutates(op)
       /\ Finish(t, p, queue, op, "ok")
       /\ UNCHANGED inventory
    \/ /\ Accepts(op, items) /\ Mutates(op)
       /\ inventory' = IF aliased \/ ~redisReady[p]
                         THEN [inventory EXCEPT ![p] = next]
                         ELSE inventory
       /\ IF redisReady[p]
            THEN Await(t, p, queue, [task[t] EXCEPT !.pc = "set", !.op = op,
                                                    !.items = next])
            ELSE Finish(t, p, queue, op, "ok")

\* The start of a pod only waits for the load: then it listens.
Listen(p, queue) ==
    /\ pod' = [pod EXCEPT ![p] = "serving"]
    /\ task' = [task EXCEPT ![p] = Idle]
    /\ pending' = [pending EXCEPT ![p] = queue]

Loaded(t, p, queue, items, aliased) ==
    IF t = p THEN Listen(p, queue) /\ UNCHANGED inventory
             ELSE /\ Proceed(t, p, queue, task[t].op, items, aliased)
                  /\ UNCHANGED pod

-----------------------------------------------------------------------------
(* Requests reach a pod that serves.                                       *)

RefuseMalformed(r, p, op) ==
    /\ pod[p] = "serving" /\ Settled(p)
    /\ task[r].pc = "idle"
    /\ ~WellFormed(op)
    /\ Finish(r, p, pending[p], op, "refused")
    /\ UNCHANGED <<redisDoc, link, pod, redisReady, inventory, faults>>

SendGet(r, p, op) ==
    /\ pod[p] = "serving" /\ redisReady[p]
    /\ task[r].pc = "idle" /\ Room
    /\ WellFormed(op)
    /\ Await(r, p, pending[p], [Idle EXCEPT !.pc = "get", !.op = op])
    /\ UNCHANGED <<redisDoc, link, pod, redisReady, inventory, faults>>

ServeFromMemory(r, p, op) ==
    /\ pod[p] = "serving" /\ ~redisReady[p] /\ Settled(p)
    /\ task[r].pc = "idle"
    /\ WellFormed(op)
    /\ Proceed(r, p, pending[p], op, inventory[p], TRUE)
    /\ UNCHANGED <<redisDoc, link, pod, redisReady, faults>>

-----------------------------------------------------------------------------
(* Redis executes the commands of a connection in the order it gets them.  *)

\* The first task of the connection whose command was not executed yet.
IsNext(p, i) ==
    /\ i \in 1..Len(pending[p])
    /\ task[pending[p][i]].pc \in Sent
    /\ \A j \in 1..(i - 1) : task[pending[p][j]].pc \in Executed

ServerGet(p) ==
    /\ link[p] = "up"
    /\ \E i \in 1..Len(pending[p]) :
         LET t == pending[p][i] IN
         /\ IsNext(p, i) /\ task[t].pc = "get"
         /\ task' = [task EXCEPT ![t].pc = "got", ![t].items = redisDoc,
                                 ![t].missed = {}]
    /\ UNCHANGED <<redisDoc, link, pod, redisReady, inventory, pending, faults>>

\* The SET of a handler, or the one with which loadInventory fills a key it
\* found absent.
ServerSet(p) ==
    /\ link[p] = "up"
    /\ \E i \in 1..Len(pending[p]) :
         LET t == pending[p][i] IN
         /\ IsNext(p, i) /\ task[t].pc \in {"seed", "set"}
         /\ redisDoc' = task[t].items
         /\ task' = [u \in Task |->
              IF u = t
                THEN [task[t] EXCEPT
                        !.pc = IF @ = "set" THEN "saved" ELSE "seeded",
                        !.missed = {}]
                ELSE IF task[u].pc \in HasRead
                       THEN [task[u] EXCEPT !.missed =
                                                @ \cup Writes(task[t].items)]
                       ELSE task[u]]
    /\ UNCHANGED <<link, pod, redisReady, inventory, pending, faults>>

-----------------------------------------------------------------------------
(* A pod handles the replies in the order of the commands.                 *)

Reply(p, pc) ==
    /\ redisReady[p] /\ link[p] = "up"
    /\ pending[p] # <<>> /\ task[Head(pending[p])].pc = pc

\* Mutant: goes on with the in-memory array, not with what Redis returned.
ReceiveDocumentStale(p) ==
    /\ Reply(p, "got") /\ task[Head(pending[p])].items # NoDocument
    /\ Loaded(Head(pending[p]), p, Tail(pending[p]), inventory[p], FALSE)
    /\ UNCHANGED <<redisDoc, link, redisReady, faults>>

\* Nothing but this service writes the key, so what it reads is an array: a text
\* that does not parse, or is no array (62-70), is not modelled.
ReceiveDocument(p) ==
    LET t == Head(pending[p]) IN
    /\ Reply(p, "got") /\ task[t].items # NoDocument
    /\ Loaded(t, p, Tail(pending[p]), task[t].items, FALSE)
    /\ UNCHANGED <<redisDoc, link, redisReady, faults>>

\* Mutant: keeps what it has read in memory before it looks whether there
\* was anything.
SendSeedNull(p) ==
    LET t == Head(pending[p]) IN
    /\ Reply(p, "got") /\ task[t].items = NoDocument
    /\ inventory' = [inventory EXCEPT ![p] = task[t].items]
    /\ Await(t, p, Tail(pending[p]),
             [task[t] EXCEPT !.pc = "seed", !.items = inventory[p]])
    /\ UNCHANGED <<redisDoc, link, pod, redisReady, faults>>

\* The key is absent: fill it from memory.
SendSeed(p) ==
    LET t == Head(pending[p]) IN
    /\ Reply(p, "got") /\ task[t].items = NoDocument
    /\ Await(t, p, Tail(pending[p]),
             [task[t] EXCEPT !.pc = "seed", !.items = inventory[p]])
    /\ UNCHANGED <<redisDoc, link, pod, redisReady, inventory, faults>>

ContinueSeeded(p) ==
    LET t == Head(pending[p]) IN
    /\ Reply(p, "seeded")
    /\ Loaded(t, p, Tail(pending[p]), inventory[p], TRUE)
    /\ UNCHANGED <<redisDoc, link, redisReady, faults>>

AnswerSaved(p) ==
    LET t == Head(pending[p]) IN
    /\ Reply(p, "saved")
    /\ Finish(t, p, Tail(pending[p]), task[t].op, "ok")
    /\ UNCHANGED <<redisDoc, link, pod, redisReady, inventory, faults>>

-----------------------------------------------------------------------------
(* The life of a pod.  connectRedis never runs again after the start.      *)

Connect(p) ==
    /\ pod[p] = "down" /\ Room
    /\ pod' = [pod EXCEPT ![p] = "loading"]
    /\ link' = [link EXCEPT ![p] = "up"]
    /\ redisReady' = [redisReady EXCEPT ![p] = TRUE]
    /\ Await(p, p, <<>>, [Idle EXCEPT !.pc = "get"])
    /\ UNCHANGED <<redisDoc, inventory, faults>>

\* The connection is refused or times out: the pod serves from memory.
FailToConnect(p) ==
    /\ Happens("unreachable")
    /\ pod[p] = "down"
    /\ pod' = [pod EXCEPT ![p] = "serving"]
    /\ UNCHANGED <<redisDoc, link, redisReady, inventory, pending, task>>

\* The client's "error" event.  With a reconnect strategy that says never,
\* the client closes and rejects the commands it has outstanding.
RedisError(p) ==
    /\ redisReady[p] /\ link[p] = "broken"
    /\ redisReady' = [redisReady EXCEPT ![p] = FALSE]
    /\ link' = [link EXCEPT ![p] = "none"]
    /\ UNCHANGED <<redisDoc, pod, inventory, pending, task, faults>>

\* Mutant: the catch covers the GET and not the SET that fills the key.
FallBackGetOnly(p) ==
    /\ ~redisReady[p] /\ pending[p] # <<>>
    /\ task[Head(pending[p])].pc \in {"get", "got"}
    /\ Loaded(Head(pending[p]), p, Tail(pending[p]), inventory[p], TRUE)
    /\ UNCHANGED <<redisDoc, link, redisReady, faults>>

\* A rejected load falls back to the in-memory inventory.
FallBack(p) ==
    LET t == Head(pending[p]) IN
    /\ ~redisReady[p] /\ pending[p] # <<>>
    /\ task[t].pc \in Loading
    /\ Loaded(t, p, Tail(pending[p]), inventory[p], TRUE)
    /\ UNCHANGED <<redisDoc, link, redisReady, faults>>

\* Mutant: the rejection is caught, and nobody answers the client.
FailToSaveSilent(p) ==
    /\ ~redisReady[p] /\ pending[p] # <<>>
    /\ task[Head(pending[p])].pc \in Saving
    /\ pending' = [pending EXCEPT ![p] = Tail(@)]
    /\ UNCHANGED <<redisDoc, link, pod, redisReady, inventory, task, faults>>

\* A rejected save rejects the handler, which nothing catches: the process
\* ends once the rejections have run, and the client gets no answer.
FailToSave(p) ==
    LET t == Head(pending[p]) IN
    /\ ~redisReady[p] /\ pending[p] # <<>>
    /\ task[t].pc \in Saving
    /\ Finish(t, p, Tail(pending[p]), task[t].op, "dropped")
    /\ pod' = [pod EXCEPT ![p] = "failing"]
    /\ UNCHANGED <<redisDoc, link, redisReady, inventory, faults>>

\* The process ends, and Kubernetes starts it again from the image.
Stop(p) ==
    /\ pod' = [pod EXCEPT ![p] = "down"]
    /\ link' = [link EXCEPT ![p] = "none"]
    /\ redisReady' = [redisReady EXCEPT ![p] = FALSE]
    /\ inventory' = [inventory EXCEPT ![p] = Seed]
    /\ pending' = [pending EXCEPT ![p] = <<>>]
    /\ task' = [t \in Task |->
         IF t \notin Queued(p) THEN task[t]
         ELSE IF t \in Pod THEN Idle
         ELSE [Idle EXCEPT !.pc = "done", !.op = task[t].op,
                           !.answer = "dropped"]]
    /\ UNCHANGED redisDoc

Exit(p) ==
    /\ pod[p] = "failing" /\ pending[p] = <<>>
    /\ Stop(p)
    /\ UNCHANGED faults

-----------------------------------------------------------------------------
(* Faults of the environment.                                              *)

Crash(p) ==
    /\ Happens("crash")
    /\ pod[p] # "down"
    /\ Stop(p)

LoseConnection(p) ==
    /\ Happens("connection")
    /\ link[p] = "up"
    /\ link' = [link EXCEPT ![p] = "broken"]
    /\ UNCHANGED <<redisDoc, pod, redisReady, inventory, pending, task>>

\* Somebody resets the inventory at the Redis prompt.
DeleteKey ==
    /\ Happens("key deleted")
    /\ redisDoc' = NoDocument
    /\ UNCHANGED <<link, pod, redisReady, inventory, pending, task>>

\* Redis runs without a volume: a restart forgets the key.
RestartRedis ==
    /\ Happens("redis restart")
    /\ redisDoc' = NoDocument
    /\ link' = [p \in Pod |-> IF link[p] = "up" THEN "broken" ELSE link[p]]
    /\ UNCHANGED <<pod, redisReady, inventory, pending, task>>

-----------------------------------------------------------------------------

ReceiveRequest ==
    \E r \in Request, p \in Pod, op \in Operation :
        \/ RefuseMalformed(r, p, op)
        \/ SendGet(r, p, op)
        \/ ServeFromMemory(r, p, op)

Service(p) ==
    \/ ReceiveDocument(p) \/ SendSeed(p) \/ ContinueSeeded(p)
    \/ AnswerSaved(p) \/ Connect(p) \/ RedisError(p)
    \/ FallBack(p) \/ FailToSave(p) \/ Exit(p)

Redis(p) == ServerGet(p) \/ ServerSet(p)

Environment ==
    \/ \E p \in Pod : FailToConnect(p) \/ Crash(p) \/ LoseConnection(p)
    \/ RestartRedis \/ DeleteKey

Next ==
    \/ ReceiveRequest
    \/ \E p \in Pod : Service(p) \/ Redis(p)
    \/ Environment

Spec == Init /\ [][Next]_vars

=============================================================================
