---------------------------- MODULE InvoiceWorker ----------------------------
(***************************************************************************)
(* The invoice worker: the same processing of an order.confirmed event     *)
(* behind three entries, a poller of the SQS queue, the handler of a       *)
(* Lambda on that queue, and POST /events.  The queue shows a message to   *)
(* one consumer at a time, for a while, and again until it is deleted or   *)
(* has been received too often.                                            *)
(***************************************************************************)
EXTENDS Naturals, Sequences, FiniteSets, Functions

CONSTANTS
    Event,        \* events that checkouts send, one message each
    KindOf,       \* what an event is, see EventKind
    Poller,       \* processes that poll; more than one during a roll-out
    Invocation,   \* Lambda invocations at one time
    Handler,      \* POST /events requests at one time
    BatchSize,    \* messages received at once (index.js 41: 5)
    MaxReceive,   \* receipts before the dead-letter queue (async.tf 17: 5)
    Fault,        \* the faults of a run, see FaultKind
    MaxFaults     \* bound: how many of them happen

\* "invalid" parses and fails validateInvoiceEvent; "unparsable" does not
\* parse, or parses to nothing.
EventKind == {"valid", "invalid", "unparsable"}
FaultKind == {"slow", "disk", "s3", "ses", "delete", "crash"}
Consumer  == Poller \cup Invocation \cup Handler

ASSUME InvoiceAssumption ==
    /\ KindOf \in [Event -> EventKind]
    /\ Poller \cap Invocation = {} /\ Poller \cap Handler = {}
    /\ Invocation \cap Handler = {}
    /\ BatchSize \in Nat \ {0} /\ MaxReceive \in Nat \ {0}
    /\ Fault \subseteq FaultKind /\ MaxFaults \in Nat

VARIABLES
    queue,      \* where each event is
    received,   \* how often the queue has shown it
    written,    \* events whose PDF is on disk
    uploaded,   \* events whose PDF is in S3
    emails,     \* how many emails went out for each event
    job,        \* what each consumer is doing
    faults      \* faults so far

vars == <<queue, received, written, uploaded, emails, job, faults>>

Place == {"unsent", "visible", "taken", "deleted", "dead",   \* SQS
          "posted", "answered", "rejected"}                  \* HTTP
Step  == {"idle", "parse", "pdf", "upload", "email", "delete", "finish"}

\* A message as received: "receipt" tells one receipt of it from the others.
Message == [event: Event, receipt: Nat]

TypeOK ==
    /\ queue \in [Event -> Place]
    /\ received \in [Event -> 0..MaxReceive]
    /\ written \in SUBSET Event
    /\ uploaded \in SUBSET Event
    /\ emails \in [Event -> Nat]
    /\ job \in [Consumer -> [step: Step, batch: Seq(Message), at: Nat]]
    /\ \A w \in Consumer :
         job[w].step # "idle" => job[w].at \in DOMAIN job[w].batch
    /\ faults \in 0..MaxFaults

Idle == [step |-> "idle", batch |-> <<>>, at |-> 0]

Init ==
    /\ queue = [m \in Event |-> "unsent"]
    /\ received = [m \in Event |-> 0]
    /\ written = {} /\ uploaded = {}
    /\ emails = [m \in Event |-> 0]
    /\ job = [w \in Consumer |-> Idle]
    /\ faults = 0

Happens(fault) ==
    /\ fault \in Fault /\ faults < MaxFaults
    /\ faults' = faults + 1

-----------------------------------------------------------------------------
(* The queue.                                                              *)

Publish(m) ==
    /\ queue[m] = "unsent"
    /\ queue' = [queue EXCEPT ![m] = "visible"]
    /\ UNCHANGED <<received, written, uploaded, emails, job, faults>>

Receive(w) ==
    LET ready == {m \in Event : queue[m] = "visible" /\ received[m] < MaxReceive}
    IN
    /\ w \in Poller \cup Invocation /\ job[w].step = "idle"
    /\ \E n \in 1..BatchSize : \E ms \in Injection(1..n, ready) :
         /\ queue' = [m \in Event |-> IF m \in Range(ms) THEN "taken" ELSE queue[m]]
         /\ received' = [m \in Event |-> IF m \in Range(ms) THEN received[m] + 1
                                                            ELSE received[m]]
         /\ job' = [job EXCEPT ![w] =
              [step |-> "parse", at |-> 1,
               batch |-> [i \in 1..n |-> [event   |-> ms[i],
                                          receipt |-> received'[ms[i]]]]]]
    /\ UNCHANGED <<written, uploaded, emails, faults>>

\* A consumer that is still to work on this receipt of the event.
Held(m) ==
    \E w \in Poller \cup Invocation : \E i \in DOMAIN job[w].batch :
        /\ job[w].batch[i] = [event |-> m, receipt |-> received[m]]
        /\ w \in Invocation \/ i >= job[w].at

\* The visibility timeout ends, before the consumer has when that is slow.
Expire(m) ==
    /\ queue[m] = "taken"
    /\ IF Held(m) THEN Happens("slow") ELSE UNCHANGED faults
    /\ queue' = [queue EXCEPT ![m] = "visible"]
    /\ UNCHANGED <<received, written, uploaded, emails, job>>

Redrive(m) ==
    /\ queue[m] = "visible" /\ received[m] = MaxReceive
    /\ queue' = [queue EXCEPT ![m] = "dead"]
    /\ UNCHANGED <<received, written, uploaded, emails, job, faults>>

\* What deleting some messages of a batch can come to: a receipt that is not
\* the last one may or may not delete.
AfterDeleting(messages) ==
    LET held  == {e \in messages : queue[e.event] \in {"visible", "taken"}}
        sure  == {e.event : e \in {f \in held : f.receipt = received[f.event]}}
        stale == {e.event : e \in held} \ sure
    IN {[m \in Event |-> IF m \in sure \cup luck THEN "deleted" ELSE queue[m]] :
           luck \in SUBSET stale}

-----------------------------------------------------------------------------
(* processInvoiceEvent, and what each entry makes of its end.              *)

Current(w) == job[w].batch[job[w].at].event

Goto(w, step) == job' = [job EXCEPT ![w].step = step]

\* Mutant: the index of the loop runs past the batch.
AdvanceTooFar(w, last) ==
    job' = [job EXCEPT ![w] =
              IF @.at <= Len(@.batch)
                THEN [@ EXCEPT !.at = @ + 1, !.step = "parse"]
                ELSE last]

\* Mutant: the poller starts the batch again instead of receiving.
AdvanceAgain(w, last) ==
    job' = [job EXCEPT ![w] =
              IF @.at < Len(@.batch)
                THEN [@ EXCEPT !.at = @ + 1, !.step = "parse"]
                ELSE [@ EXCEPT !.at = 1, !.step = "parse"]]

\* The next message of the batch, if there is one.
Advance(w, last) ==
    LET j == job[w] IN
    job' = [job EXCEPT ![w] =
              IF j.at < Len(j.batch)
                THEN [j EXCEPT !.at = j.at + 1, !.step = "parse"]
                ELSE last]

Settle(w, place) ==
    /\ queue' = [queue EXCEPT ![Current(w)] = place]
    /\ job' = [job EXCEPT ![w] = Idle]

\* Mutant: the poller goes on to the next message and leaves the queue alone.
SucceedNoDelete(w) ==
    \/ w \in Poller     /\ Advance(w, Idle) /\ UNCHANGED queue
    \/ w \in Invocation /\ Advance(w, [job[w] EXCEPT !.step = "finish"])
                        /\ UNCHANGED queue
    \/ w \in Handler    /\ Settle(w, "answered")

Succeed(w) ==
    \/ w \in Poller     /\ Goto(w, "delete") /\ UNCHANGED queue
    \/ w \in Invocation /\ Advance(w, [job[w] EXCEPT !.step = "finish"])
                        /\ UNCHANGED queue
    \/ w \in Handler    /\ Settle(w, "answered")

\* Mutant: no "continue", so that a failed message is deleted too.
FailNoContinue(w) ==
    \/ w \in Poller     /\ Goto(w, "delete") /\ UNCHANGED queue
    \/ w \in Invocation /\ job' = [job EXCEPT ![w] = Idle] /\ UNCHANGED queue
    \/ w \in Handler    /\ Settle(w, "rejected")

\* The poller goes on, an error of the Lambda gives up the whole batch, and
\* POST answers an error.
Fail(w) ==
    \/ w \in Poller     /\ Advance(w, Idle) /\ UNCHANGED queue
    \/ w \in Invocation /\ job' = [job EXCEPT ![w] = Idle] /\ UNCHANGED queue
    \/ w \in Handler    /\ Settle(w, "rejected")

Post(w, m) ==
    /\ w \in Handler /\ job[w].step = "idle"
    /\ queue[m] = "unsent"
    /\ queue' = [queue EXCEPT ![m] = "posted"]
    /\ job' = [job EXCEPT ![w] =
                 [step |-> "parse", at |-> 1,
                  batch |-> <<[event |-> m, receipt |-> 0]>>]]
    /\ UNCHANGED <<received, written, uploaded, emails, faults>>

\* The poller deletes what it cannot parse.
Parse(w) ==
    /\ job[w].step = "parse"
    /\ CASE KindOf[Current(w)] = "valid" ->
              Goto(w, "pdf") /\ UNCHANGED queue
         [] KindOf[Current(w)] = "unparsable" /\ w \in Poller ->
              Goto(w, "delete") /\ UNCHANGED queue
         [] OTHER -> Fail(w)
    /\ UNCHANGED <<received, written, uploaded, emails, faults>>

WritePdf(w) ==
    /\ job[w].step = "pdf"
    /\ \/ /\ written' = written \cup {Current(w)}
          /\ Goto(w, "upload")
          /\ UNCHANGED <<queue, faults>>
       \/ /\ Happens("disk")
          /\ Fail(w)
          /\ UNCHANGED written
    /\ UNCHANGED <<received, uploaded, emails>>

\* A failure to upload, or to send, is logged and nothing more.
Upload(w) ==
    /\ job[w].step = "upload"
    /\ \/ uploaded' = uploaded \cup {Current(w)} /\ UNCHANGED faults
       \/ Happens("s3") /\ UNCHANGED uploaded
    /\ Goto(w, "email")
    /\ UNCHANGED <<queue, received, written, emails>>

Email(w) ==
    /\ job[w].step = "email"
    /\ \/ emails' = [emails EXCEPT ![Current(w)] = @ + 1] /\ UNCHANGED faults
       \/ Happens("ses") /\ UNCHANGED emails
    /\ Succeed(w)
    /\ UNCHANGED <<received, written, uploaded>>

\* Mutant: after a failed deletion the poller tries the message again.
DeleteRetry(w) ==
    LET mine == {job[w].batch[job[w].at]} IN
    /\ job[w].step = "delete"
    /\ \/ /\ queue' \in AfterDeleting(mine)
          /\ Advance(w, Idle)
          /\ UNCHANGED faults
       \/ /\ Happens("delete")
          /\ queue' \in AfterDeleting(mine) \cup {queue}
          /\ Goto(w, "parse")
    /\ UNCHANGED <<received, written, uploaded, emails>>

\* A deletion that fails, done or not, ends the round and leaves the rest of
\* the batch.
Delete(w) ==
    LET mine == {job[w].batch[job[w].at]} IN
    /\ job[w].step = "delete"
    /\ \/ /\ queue' \in AfterDeleting(mine)
          /\ Advance(w, Idle)
          /\ UNCHANGED faults
       \/ /\ Happens("delete")
          /\ queue' \in AfterDeleting(mine) \cup {queue}
          /\ job' = [job EXCEPT ![w] = Idle]
    /\ UNCHANGED <<received, written, uploaded, emails>>

\* Lambda deletes the whole batch of a handler that returns.
Finish(w) ==
    /\ job[w].step = "finish"
    /\ queue' \in AfterDeleting(Range(job[w].batch))
    /\ job' = [job EXCEPT ![w] = Idle]
    /\ UNCHANGED <<received, written, uploaded, emails, faults>>

Crash(w) ==
    /\ Happens("crash")
    /\ job[w].step # "idle"
    /\ IF w \in Handler
         THEN Settle(w, "rejected")
         ELSE job' = [job EXCEPT ![w] = Idle] /\ UNCHANGED queue
    /\ UNCHANGED <<received, written, uploaded, emails>>

-----------------------------------------------------------------------------

Work(w) == \/ Parse(w) \/ WritePdf(w) \/ Upload(w) \/ Email(w)
           \/ Delete(w) \/ Finish(w)

Next ==
    \/ \E m \in Event : Publish(m) \/ Expire(m) \/ Redrive(m)
    \/ \E w \in Consumer :
         \/ Receive(w) \/ Work(w) \/ Crash(w)
         \/ \E m \in Event : Post(w, m)

Spec == Init /\ [][Next]_vars

\* The loop of a live poller runs and starts again after a failure, and the
\* visibility timeout of a message that nobody works on ends.
Fairness ==
    /\ \A w \in Consumer : WF_vars(Work(w)) /\ WF_vars(Receive(w))
    /\ \A m \in Event : WF_vars(~Held(m) /\ Expire(m)) /\ WF_vars(Redrive(m))

FairSpec == Spec /\ Fairness

=============================================================================
