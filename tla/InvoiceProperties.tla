-------------------------- MODULE InvoiceProperties --------------------------
(***************************************************************************)
(* What the queue and the worker promise together of every invoice.        *)
(***************************************************************************)
EXTENDS InvoiceWorker

Valid(m) == KindOf[m] = "valid"

\* A message that can be parsed leaves the queue, or its request is answered
\* 201, only when its PDF has been written, and each one that leaves without an
\* email has a failure of its own behind it: with overlapping consumers, stale
\* receipts and crashes (index.js 49-73, processor.js 224-260).
NoInvoiceIsLost ==
    LET gone == {m \in Event : queue[m] \in {"deleted", "answered"}} IN
    /\ \A m \in gone : m \in written \/ KindOf[m] = "unparsable"
    /\ Cardinality({m \in gone : Valid(m) /\ emails[m] = 0}) <= faults

\* An email goes out at most once for each time a consumer is shown the event,
\* so MaxReceive times in all (index.js 61-66).
OneEmailForEachReceipt ==
    \A m \in Event :
        emails[m] <= IF received[m] = 0 THEN 1 ELSE received[m]

\* A message that is not valid, in a batch of the Lambda, spoils all of it.
Poisoned == Invocation # {} /\ \E m \in Event : ~Valid(m) /\ received[m] > 0

\* Where no bad message is about, nobody gets an invoice twice without a
\* failure: behind a second email there is a fault of its own, of a consumer or
\* a visibility timeout.  Nor does a valid event end in the dead-letter queue
\* unless a fault has spoilt each of its receipts (index.js 49-73, lambda.js
\* 9-27).
FaultsExplainRepeats ==
    \A m \in Event :
        /\ emails[m] <= 1 + faults \/ Poisoned
        /\ queue[m] = "dead" /\ Valid(m) => faults >= MaxReceive \/ Poisoned

\* Every message leaves the queue in the end.  One that parses and is not valid
\* goes to the dead-letter queue, and one that does not parse only if no poller
\* receives it: pollers delete those (index.js 49-72, async.tf 15-18).
MessagesAreSettled ==
    \A m \in Event :
        (queue[m] \in {"visible", "taken"}) ~>
            \/ queue[m] = "dead"
            \/ queue[m] = "deleted" /\ KindOf[m] # "invalid"

=============================================================================
