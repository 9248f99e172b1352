----------------------------- MODULE InvoiceProofs -----------------------------
(***************************************************************************)
(* The invoice worker proved: types, that no invoice is lost, that a       *)
(* receipt sends one email, and that repeated emails and dead letters have *)
(* faults behind them.                                                     *)
(***************************************************************************)
EXTENDS InvoiceProperties, FiniteSetTheorems, TLAPS

JobState == [step: Step, batch: Seq(Message), at: Nat]
InQueue  == {"visible", "taken", "deleted", "dead"}

-----------------------------------------------------------------------------
(* Jobs.                                                                   *)

\* One fault more is one of those there may be.
LEMMA FaultsStayBounded ==
    ASSUME faults \in 0..MaxFaults, NEW fault, Happens(fault)
    PROVE  faults' \in 0..MaxFaults /\ faults' = faults + 1
BY InvoiceAssumption DEF Happens

\* The event that a job is at.
At(j) == j.batch[j.at].event

\* The steps in which an email for it is still to go out, and those after it.
Before == {"parse", "pdf", "upload", "email"}
After  == {"delete", "finish"}

\* A job will, or will not any more, send an email for an event of its batch.
Ahead(j, m) ==
    \E i \in DOMAIN j.batch :
        /\ j.batch[i].event = m
        /\ \/ i > j.at
           \/ i = j.at /\ j.step \in Before
Past(j, m) ==
    \E i \in DOMAIN j.batch :
        /\ j.batch[i].event = m
        /\ \/ i < j.at
           \/ i = j.at /\ j.step \in After

\* What a job j relies on: that its batch has an event once, of the places q of
\* the events, of how often they have been received, of what has been written.
Apart(j) ==
    \A i, k \in DOMAIN j.batch : j.batch[i].event = j.batch[k].event => i = k
Shown(w, j, q, times) ==
    \A i \in DOMAIN j.batch :
        LET m == j.batch[i].event IN
        IF w \in Handler
          THEN q[m] = "posted" /\ i = j.at /\ j.step \notin After
          ELSE q[m] \in InQueue /\ j.batch[i].receipt \in 1..times[m]
Prepared(w, j, pdfs) ==
    /\ j.step \in {"pdf", "upload", "email"} => Valid(At(j))
    /\ j.step \in {"upload", "email"} => At(j) \in pdfs
    /\ j.step = "delete" =>
          w \in Poller /\ (At(j) \in pdfs \/ KindOf[At(j)] = "unparsable")
    /\ j.step = "finish" =>
          w \in Invocation /\ j.at = Len(j.batch) /\ At(j) \in pdfs
    /\ w \in Invocation =>
          \A i \in DOMAIN j.batch : i < j.at => j.batch[i].event \in pdfs

Works(w, j, q, times, pdfs) ==
    /\ j.step = "idle" => j = Idle
    /\ Apart(j) /\ Shown(w, j, q, times) /\ Prepared(w, j, pdfs)

\* What was not queued was not received, and what is gone was written.
Kept(m) ==
    /\ queue[m] \notin InQueue => received[m] = 0
    /\ queue[m] = "dead" => received[m] = MaxReceive
    /\ queue[m] \in {"deleted", "answered"} =>
          m \in written \/ KindOf[m] = "unparsable"
    /\ emails[m] > 0 => Valid(m)

\* A request that posts an event.
Posts(v, j, m) == v \in Handler /\ j.step # "idle" /\ At(j) = m

\* Jobs and events are in order, and no two requests post the same event.
Orderly ==
    /\ \A w \in Consumer : Works(w, job[w], queue, received, written)
    /\ \A m \in Event : Kept(m)
    /\ \A w, v \in Consumer : \A m \in Event :
          Posts(w, job[w], m) /\ Posts(v, job[v], m) => w = v

\* Indices of a batch.
LEMMA Batches ==
    ASSUME NEW j \in JobState
    PROVE  /\ DOMAIN j.batch = 1..Len(j.batch) /\ Len(j.batch) \in Nat
           /\ j.at \in Nat
           /\ \A i \in DOMAIN j.batch :
                 /\ j.batch[i] \in Message /\ i \in Nat
                 /\ j.batch[i].event \in Event /\ j.batch[i].receipt \in Nat
<1>1. j.batch \in Seq(Message) /\ j.at \in Nat BY DEF JobState
<1>2. \A i \in DOMAIN j.batch : j.batch[i] \in Message /\ i \in Nat BY <1>1
<1> QED BY <1>1, <1>2 DEF Message

\* A job stays at its event, or goes on to the next, or ends.
Stays(j, step) == [j EXCEPT !.step = step]
GoesOn(j)      == [j EXCEPT !.at = j.at + 1, !.step = "parse"]

\* They are typed,
LEMMA StaysIsTyped ==
    ASSUME NEW j \in JobState, NEW step \in Step
    PROVE  LET s == Stays(j, step) IN
           /\ s \in JobState /\ s.step = step /\ s.batch = j.batch
           /\ s.at = j.at
BY DEF JobState, Stays

\* whichever it is.
LEMMA GoesOnIsTyped ==
    ASSUME NEW j \in JobState
    PROVE  LET s == GoesOn(j) IN
           /\ s \in JobState /\ s.step = "parse" /\ s.batch = j.batch
           /\ s.at = j.at + 1
<1>1. j.at + 1 \in Nat /\ "parse" \in Step BY DEF JobState, Step
<1> QED BY <1>1 DEF JobState, GoesOn

\* So is a consumer with nothing to do.
LEMMA IdleIsTyped ==
    /\ Idle \in JobState /\ Idle.step = "idle" /\ DOMAIN Idle.batch = {}
    /\ Idle.batch = <<>>
BY DEF JobState, Idle, Step

\* One consumer's job becomes s, and no other's changes.
Becomes(w, s) ==
    /\ job' \in [Consumer -> JobState] /\ job'[w] = s
    /\ \A v \in Consumer \ {w} : job'[v] = job[v]

\* What TypeOK says of jobs.
LEMMA JobsAreTyped ==
    ASSUME TypeOK
    PROVE  /\ job \in [Consumer -> JobState]
           /\ \A w \in Consumer :
                 /\ job[w] \in JobState
                 /\ job[w].step # "idle" => job[w].at \in DOMAIN job[w].batch
BY DEF TypeOK, JobState

\* Writing one job makes it that and no other.
LEMMA OneBecomes ==
    ASSUME TypeOK, NEW w \in Consumer, NEW s \in JobState,
           job' = [job EXCEPT ![w] = s]
    PROVE  Becomes(w, s)
BY JobsAreTyped DEF Becomes

\* The job that goes to a step stays at its event.
LEMMA GotoBecomes ==
    ASSUME TypeOK, NEW w \in Consumer, NEW step \in Step, Goto(w, step)
    PROVE  Becomes(w, Stays(job[w], step))
<1>1. job' = [job EXCEPT ![w] = Stays(job[w], step)]
  BY JobsAreTyped DEF Goto, Stays
<1> QED BY <1>1, OneBecomes, StaysIsTyped, JobsAreTyped

\* The job that advances goes on, or has come to its end.
LEMMA AdvanceBecomes ==
    ASSUME TypeOK, NEW w \in Consumer, NEW last \in JobState, Advance(w, last)
    PROVE  \/ job[w].at < Len(job[w].batch) /\ Becomes(w, GoesOn(job[w]))
           \/ ~(job[w].at < Len(job[w].batch)) /\ Becomes(w, last)
<1>1. job' = [job EXCEPT ![w] = IF job[w].at < Len(job[w].batch)
                                  THEN GoesOn(job[w]) ELSE last]
  BY JobsAreTyped DEF Advance, GoesOn
<1> QED BY <1>1, OneBecomes, GoesOnIsTyped, JobsAreTyped

-----------------------------------------------------------------------------
(* Types and order.                                                        *)

Typed ==
    /\ queue \in [Event -> Place]
    /\ received \in [Event -> 0..MaxReceive]
    /\ written \in SUBSET Event /\ uploaded \in SUBSET Event
    /\ emails \in [Event -> Nat]
    /\ faults \in 0..MaxFaults

\* Nothing leaves the queue, is received less often or unwritten.
Grows ==
    /\ \A m \in Event : /\ queue[m] \in InQueue => queue'[m] \in InQueue
                        /\ received'[m] >= received[m]
    /\ written \subseteq written'

\* Jobs that go on as they are go on in order.
LEMMA OthersWork ==
    ASSUME TypeOK, Typed', Grows, NEW v \in Consumer, NEW j \in JobState,
           Works(v, j, queue, received, written),
           j.step # "idle" => j.at \in DOMAIN j.batch,
           \A m \in Event : Posts(v, j, m) => queue'[m] = "posted"
    PROVE  Works(v, j, queue', received', written')
<1>1. \A m \in Event : received[m] \in Int /\ received'[m] \in Int
  BY InvoiceAssumption DEF TypeOK, Typed
<1>2. \A i \in DOMAIN j.batch :
        /\ j.batch[i].event \in Event /\ j.batch[i].receipt \in Int
        /\ j.step # "idle"
  BY Batches, IdleIsTyped DEF Works
<1>3. ASSUME NEW i \in DOMAIN j.batch
      PROVE  LET m == j.batch[i].event IN
             IF v \in Handler
               THEN queue'[m] = "posted" /\ i = j.at /\ j.step \notin After
               ELSE /\ queue'[m] \in InQueue
                    /\ j.batch[i].receipt \in 1..received'[m]
  <2> DEFINE m == j.batch[i].event
  <2>1. m \in Event /\ j.batch[i].receipt \in Int BY <1>2
  <2>2. CASE v \in Handler
    <3>1. i = j.at /\ j.step \notin After BY <2>2 DEF Works, Shown
    <3>2. Posts(v, j, m) BY <1>2, <2>2, <3>1 DEF Posts, At
    <3> QED BY <2>1, <2>2, <3>1, <3>2
  <2>3. CASE v \notin Handler
    <3>1. queue[m] \in InQueue /\ j.batch[i].receipt \in 1..received[m]
      BY <2>3 DEF Works, Shown
    <3>2. queue'[m] \in InQueue /\ received'[m] >= received[m]
      BY <2>1, <3>1 DEF Grows
    <3> QED BY <1>1, <2>1, <2>3, <3>1, <3>2
  <2> QED BY <2>2, <2>3
<1>4. written \subseteq written' BY DEF Grows
<1> QED BY <1>3, <1>4 DEF Works, Apart, Shown, Prepared, At, Valid

\* A turn of one consumer keeps types and order when its own job is in order
\* after it.
LEMMA TurnKeeps ==
    ASSUME TypeOK, Orderly, Typed', Grows, NEW w \in Consumer,
           NEW s \in JobState, Becomes(w, s),
           Works(w, s, queue', received', written'),
           s.step # "idle" => s.at \in DOMAIN s.batch,
           \A m \in Event : Kept(m)',
           \A m \in Event :
              queue[m] = "posted" /\ ~Posts(w, job[w], m)
                 => queue'[m] = "posted",
           \A m \in Event :
              Posts(w, s, m) => Posts(w, job[w], m) \/ queue[m] # "posted"
    PROVE  TypeOK' /\ Orderly'
<1>1. ASSUME NEW v \in Consumer \ {w}
      PROVE  /\ Works(v, job'[v], queue', received', written')
             /\ job'[v].step # "idle" => job'[v].at \in DOMAIN job'[v].batch
             /\ \A m \in Event : Posts(v, job'[v], m) =>
                   Posts(v, job[v], m) /\ queue[m] = "posted"
  <2>1. job'[v] = job[v] /\ job[v] \in JobState
        /\ Works(v, job[v], queue, received, written)
        /\ (job[v].step # "idle" => job[v].at \in DOMAIN job[v].batch)
    BY JobsAreTyped DEF Becomes, Orderly
  <2>2. ASSUME NEW m \in Event, Posts(v, job[v], m)
        PROVE  queue[m] = "posted" /\ queue'[m] = "posted"
    <3>1. queue[m] = "posted" BY <2>1, <2>2 DEF Posts, Works, Shown, At
    <3>2. ~Posts(w, job[w], m) BY <2>2 DEF Orderly
    <3> QED BY <3>1, <3>2
  <2> QED BY <2>1, <2>2, OthersWork
<1>2. job'[w] = s BY DEF Becomes
<1>3. \A v \in Consumer : Works(v, job'[v], queue', received', written')
  BY <1>1, <1>2
<1>4. ASSUME NEW v \in Consumer, NEW u \in Consumer, NEW m \in Event,
             Posts(v, job'[v], m), Posts(u, job'[u], m)
      PROVE  v = u
  <2>1. CASE v # w /\ u # w BY <1>1, <1>4, <2>1 DEF Orderly
  <2>2. CASE v = w /\ u # w
    <3>1. Posts(w, s, m) /\ Posts(u, job[u], m) /\ queue[m] = "posted"
      BY <1>1, <1>2, <1>4, <2>2
    <3>2. Posts(w, job[w], m) BY <3>1
    <3> QED BY <2>2, <3>1, <3>2 DEF Orderly
  <2>3. CASE v # w /\ u = w
    <3>1. Posts(w, s, m) /\ Posts(v, job[v], m) /\ queue[m] = "posted"
      BY <1>1, <1>2, <1>4, <2>3
    <3>2. Posts(w, job[w], m) BY <3>1
    <3> QED BY <2>3, <3>1, <3>2 DEF Orderly
  <2> QED BY <2>1, <2>2, <2>3
<1>5. Orderly' BY <1>3, <1>4 DEF Orderly, Posts, At
<1>6. TypeOK'
  <2>1. job' \in [Consumer -> JobState] BY DEF Becomes
  <2>2. \A v \in Consumer :
          job'[v].step # "idle" => job'[v].at \in DOMAIN job'[v].batch
    BY <1>1, <1>2
  <2> QED BY <2>1, <2>2 DEF TypeOK, Typed, JobState
<1> QED BY <1>5, <1>6

\* The three ends of a step: the job stays at its event, goes on, or ends.
LEMMA StaysWorks ==
    ASSUME NEW w, NEW j \in JobState, NEW q, NEW times, NEW pdfs,
           Works(w, j, q, times, pdfs), j.step # "idle",
           NEW step \in Step \ {"idle"},
           w \in Handler => step \notin After,
           step \in {"pdf", "upload", "email"} => Valid(At(j)),
           step \in {"upload", "email"} => At(j) \in pdfs,
           step = "delete" =>
              w \in Poller /\ (At(j) \in pdfs \/ KindOf[At(j)] = "unparsable"),
           step = "finish" =>
              w \in Invocation /\ j.at = Len(j.batch) /\ At(j) \in pdfs
    PROVE  Works(w, Stays(j, step), q, times, pdfs)
<1> DEFINE s == Stays(j, step)
<1>1. s.step = step /\ s.batch = j.batch /\ s.at = j.at BY StaysIsTyped
<1>2. At(s) = At(j) BY <1>1 DEF At
<1> HIDE DEF s
<1>3. Shown(w, s, q, times)
  <2>1. ASSUME NEW i \in DOMAIN s.batch
        PROVE  LET m == s.batch[i].event IN
               IF w \in Handler
                 THEN q[m] = "posted" /\ i = s.at /\ s.step \notin After
                 ELSE q[m] \in InQueue /\ s.batch[i].receipt \in 1..times[m]
    BY <1>1, <2>1 DEF Works, Shown
  <2> QED BY <2>1 DEF Shown
<1>4. Apart(s) BY <1>1 DEF Works, Apart
<1>5. Prepared(w, s, pdfs)
  <2>1. w \in Invocation =>
          \A i \in DOMAIN s.batch : i < s.at => s.batch[i].event \in pdfs
    BY <1>1 DEF Works, Prepared
  <2> QED BY <1>1, <1>2, <2>1 DEF Prepared
<1>6. s.step # "idle" BY <1>1
<1> QED BY <1>3, <1>4, <1>5, <1>6 DEF Works, s

\* A job that goes on to its next event is in order.
LEMMA GoesOnWorks ==
    ASSUME NEW w, NEW j \in JobState, NEW q, NEW times, NEW pdfs,
           Works(w, j, q, times, pdfs), j.step # "idle",
           w \notin Handler, j.at \in DOMAIN j.batch,
           w \in Invocation => At(j) \in pdfs
    PROVE  Works(w, GoesOn(j), q, times, pdfs)
<1> DEFINE s == GoesOn(j)
<1>1. s.step = "parse" /\ s.batch = j.batch /\ s.at = j.at + 1
  BY GoesOnIsTyped
<1>2. ASSUME w \in Invocation, NEW i \in DOMAIN j.batch, i < j.at + 1
      PROVE  j.batch[i].event \in pdfs
  <2>1. i < j.at \/ i = j.at BY <1>2, Batches
  <2> QED BY <1>2, <2>1 DEF Works, Prepared, At
<1> HIDE DEF s
<1>3. Shown(w, s, q, times)
  <2>1. ASSUME NEW i \in DOMAIN s.batch
        PROVE  LET m == s.batch[i].event IN
               q[m] \in InQueue /\ s.batch[i].receipt \in 1..times[m]
    BY <1>1, <2>1 DEF Works, Shown
  <2> QED BY <2>1 DEF Shown
<1>4. Apart(s) BY <1>1 DEF Works, Apart
<1>5. Prepared(w, s, pdfs)
  <2>1. w \in Invocation =>
          \A i \in DOMAIN s.batch : i < s.at => s.batch[i].event \in pdfs
    BY <1>1, <1>2
  <2> QED BY <1>1, <2>1 DEF Prepared
<1>6. s.step # "idle" BY <1>1
<1> QED BY <1>3, <1>4, <1>5, <1>6 DEF Works, s

\* So is a consumer with nothing to do.
LEMMA IdleWorks ==
    ASSUME NEW w, NEW q, NEW times, NEW pdfs
    PROVE  Works(w, Idle, q, times, pdfs)
BY IdleIsTyped DEF Works, Apart, Shown, Prepared

\* An event that nothing has happened to but that its PDF may be written.
LEMMA KeptStays ==
    ASSUME Orderly, UNCHANGED <<queue, received, emails>>,
           written \subseteq written', NEW m \in Event
    PROVE  Kept(m)'
BY DEF Orderly, Kept

\* What the handler of a request posts.
LEMMA HandlersPost ==
    ASSUME TypeOK, Orderly, NEW w \in Consumer, job[w].step # "idle"
    PROVE  /\ At(job[w]) \in Event
           /\ w \in Handler =>
                 /\ queue[At(job[w])] = "posted" /\ Posts(w, job[w], At(job[w]))
                 /\ received[At(job[w])] = 0
           /\ w \notin Handler => queue[At(job[w])] \in InQueue
           /\ \A m \in Event : Posts(w, job[w], m) => w \in Handler
<1>1. job[w] \in JobState /\ job[w].at \in DOMAIN job[w].batch
  BY JobsAreTyped
<1>2. At(job[w]) \in Event BY <1>1, Batches DEF At
<1>3. Works(w, job[w], queue, received, written) BY DEF Orderly
<1>4. w \in Handler => queue[At(job[w])] = "posted"
  BY <1>1, <1>3 DEF Works, Shown, At
<1>5. w \notin Handler => queue[At(job[w])] \in InQueue
  BY <1>1, <1>3 DEF Works, Shown, At
<1> QED BY <1>2, <1>4, <1>5 DEF Posts, Orderly, Kept, InQueue

\* A step after which the job is at the same event.
LEMMA StayKeeps ==
    ASSUME TypeOK, Orderly, Typed', NEW w \in Consumer, job[w].step # "idle",
           NEW step \in Step \ {"idle"}, Becomes(w, Stays(job[w], step)),
           UNCHANGED <<queue, received>>, written \subseteq written',
           \A m \in Event : emails'[m] > 0 => Valid(m),
           w \in Handler => step \notin After,
           step \in {"pdf", "upload", "email"} => Valid(At(job[w])),
           step \in {"upload", "email"} => At(job[w]) \in written',
           step = "delete" =>
              /\ w \in Poller
              /\ At(job[w]) \in written' \/ KindOf[At(job[w])] = "unparsable",
           step = "finish" =>
              /\ w \in Invocation /\ job[w].at = Len(job[w].batch)
              /\ At(job[w]) \in written'
    PROVE  TypeOK' /\ Orderly'
<1> DEFINE j == job[w]  s == Stays(job[w], step)
<1>1. /\ j \in JobState /\ j.at \in DOMAIN j.batch /\ j.step # "idle"
      /\ Works(w, j, queue, received, written)
  BY JobsAreTyped DEF Orderly
<1>2. s \in JobState /\ s.step = step /\ s.batch = j.batch /\ s.at = j.at
  BY <1>1, StaysIsTyped
<1>3. Grows
  <2>1. \A m \in Event : received[m] \in Int
    BY InvoiceAssumption DEF TypeOK
  <2> QED BY <2>1 DEF Grows
<1>4. \A m \in Event : Posts(w, j, m) => queue'[m] = "posted"
  BY HandlersPost DEF Posts
<1>5. Works(w, j, queue', received', written') BY <1>1, <1>3, <1>4, OthersWork
<1>6. Works(w, s, queue', received', written')
  <2> HIDE DEF j
  <2> QED BY <1>1, <1>5, StaysWorks DEF j
<1>7. \A m \in Event : Kept(m)' BY DEF Orderly, Kept
<1>8. \A m \in Event : Posts(w, s, m) => Posts(w, j, m)
  BY <1>1, <1>2 DEF Posts, At
<1> HIDE DEF j, s
<1> QED BY <1>1, <1>2, <1>3, <1>6, <1>7, <1>8, TurnKeeps DEF j, s

\* A step of a consumer of the queue after which its job goes on or has ended.
LEMMA GoOnKeeps ==
    ASSUME TypeOK, Orderly, Typed', Grows, NEW w \in Consumer \ Handler,
           job[w].step # "idle",
           \/ Becomes(w, Idle)
           \/ /\ job[w].at < Len(job[w].batch) /\ Becomes(w, GoesOn(job[w]))
              /\ w \in Invocation => At(job[w]) \in written',
           \A m \in Event : Kept(m)',
           \A m \in Event : queue[m] = "posted" => queue'[m] = "posted"
    PROVE  TypeOK' /\ Orderly'
<1> DEFINE j == job[w]  s == GoesOn(job[w])
<1>1. /\ j \in JobState /\ j.at \in DOMAIN j.batch /\ j.step # "idle"
      /\ Works(w, j, queue, received, written)
  BY JobsAreTyped DEF Orderly
<1>2. \A t, m : ~Posts(w, t, m) BY DEF Posts
<1>3. Works(w, j, queue', received', written') BY <1>1, <1>2, OthersWork
<1>4. CASE Becomes(w, Idle)
  BY <1>2, <1>4, IdleWorks, IdleIsTyped, TurnKeeps
<1>5. CASE /\ j.at < Len(j.batch) /\ Becomes(w, s)
           /\ w \in Invocation => At(j) \in written'
  <2>1. s \in JobState /\ s.step = "parse" /\ s.batch = j.batch
        /\ s.at = j.at + 1
    BY <1>1, GoesOnIsTyped
  <2>2. s.at \in DOMAIN s.batch BY <1>1, <1>5, <2>1, Batches
  <2>3. Works(w, s, queue', received', written')
    BY <1>1, <1>3, <1>5, GoesOnWorks
  <2> HIDE DEF j, s
  <2> QED BY <1>2, <1>5, <2>1, <2>2, <2>3, TurnKeeps
<1> QED BY <1>4, <1>5

\* A request is answered.
LEMMA SettleKeeps ==
    ASSUME TypeOK, Orderly, Typed', NEW w \in Handler, w \in Consumer,
           job[w].step # "idle", NEW place \in {"answered", "rejected"},
           Settle(w, place), received' = received, written \subseteq written',
           \A m \in Event : emails'[m] > 0 => Valid(m),
           place = "answered" => At(job[w]) \in written'
    PROVE  TypeOK' /\ Orderly' /\ Becomes(w, Idle)
<1> DEFINE e == At(job[w])
<1>1. Becomes(w, Idle) BY OneBecomes, IdleIsTyped DEF Settle
<1>2. /\ e \in Event /\ queue[e] = "posted" /\ received[e] = 0
      /\ Posts(w, job[w], e)
  BY HandlersPost
<1>3. /\ queue'[e] = place
      /\ \A m \in Event \ {e} : queue'[m] = queue[m]
  BY <1>2 DEF Settle, Current, At, TypeOK
<1>4. Grows
  <2>1. \A m \in Event : received[m] \in Int
    BY InvoiceAssumption DEF TypeOK
  <2> QED BY <1>2, <1>3, <2>1 DEF Grows, InQueue
<1>5. \A m \in Event : Kept(m)'
  BY <1>2, <1>3 DEF Orderly, Kept, InQueue
<1>6. \A m \in Event : ~Posts(w, Idle, m) BY IdleIsTyped DEF Posts
<1>7. \A m \in Event :
        queue[m] = "posted" /\ ~Posts(w, job[w], m) => queue'[m] = "posted"
  BY <1>2, <1>3
<1> QED BY <1>1, <1>4, <1>5, <1>6, <1>7, IdleWorks, IdleIsTyped, TurnKeeps

\* A step of the queue alone.
LEMMA QueueKeeps ==
    ASSUME TypeOK, Orderly, Typed', Grows, UNCHANGED job,
           \A m \in Event : Kept(m)',
           \A m \in Event : queue[m] = "posted" => queue'[m] = "posted"
    PROVE  TypeOK' /\ Orderly'
<1>1. ASSUME NEW v \in Consumer
      PROVE  Works(v, job[v], queue', received', written')
  <2>1. /\ job[v] \in JobState /\ Works(v, job[v], queue, received, written)
        /\ job[v].step # "idle" => job[v].at \in DOMAIN job[v].batch
    BY JobsAreTyped DEF Orderly
  <2>2. \A m \in Event : Posts(v, job[v], m) => queue'[m] = "posted"
    BY HandlersPost DEF Posts
  <2> QED BY <2>1, <2>2, OthersWork
<1>2. \A v \in Consumer : Works(v, job'[v], queue', received', written')
  BY <1>1
<1>3. \A v, u \in Consumer : \A m \in Event :
        Posts(v, job'[v], m) /\ Posts(u, job'[u], m) => v = u
  BY DEF Orderly, Posts, At
<1>4. Orderly' BY <1>2, <1>3 DEF Orderly, Posts, At
<1>5. TypeOK' BY DEF TypeOK, Typed
<1> QED BY <1>4, <1>5

\* A failure, in each of the three entries.
LEMMA FailKeeps ==
    ASSUME TypeOK, Orderly, NEW w \in Consumer, job[w].step # "idle", Fail(w),
           UNCHANGED <<received, written, uploaded, emails>>,
           faults' \in 0..MaxFaults
    PROVE  TypeOK' /\ Orderly'
<1>1. \A m \in Event : received[m] \in Int /\ (emails'[m] > 0 => Valid(m))
  BY InvoiceAssumption DEF TypeOK, Orderly, Kept
<1>2. CASE w \in Handler
  <2>1. Settle(w, "rejected") BY <1>2, InvoiceAssumption DEF Fail
  <2>2. Typed' BY <2>1 DEF Typed, TypeOK, Settle, Place
  <2> QED BY <1>1, <1>2, <2>1, <2>2, SettleKeeps
<1>3. CASE w \notin Handler
  <2>1. UNCHANGED queue BY <1>3 DEF Fail
  <2>2. Typed' /\ Grows BY <1>1, <2>1 DEF Typed, TypeOK, Grows
  <2>3. \A m \in Event : Kept(m)' BY <2>1, KeptStays
  <2>4. \/ Becomes(w, Idle)
        \/ /\ job[w].at < Len(job[w].batch) /\ Becomes(w, GoesOn(job[w]))
           /\ w \notin Invocation
    <3>1. CASE w \in Poller /\ Advance(w, Idle)
      BY <3>1, AdvanceBecomes, IdleIsTyped, InvoiceAssumption
    <3>2. CASE job' = [job EXCEPT ![w] = Idle]
      BY <3>2, OneBecomes, IdleIsTyped
    <3> QED BY <1>3, <3>1, <3>2 DEF Fail
  <2> QED BY <1>3, <2>1, <2>2, <2>3, <2>4, GoOnKeeps
<1> QED BY <1>2, <1>3

\* A success, in each of the three entries.
LEMMA SucceedKeeps ==
    ASSUME TypeOK, Orderly, NEW w \in Consumer, job[w].step = "email",
           Succeed(w), UNCHANGED <<received, written, uploaded>>,
           emails' \in [Event -> Nat],
           \A m \in Event : emails'[m] > 0 => Valid(m),
           faults' \in 0..MaxFaults
    PROVE  TypeOK' /\ Orderly'
<1>1. /\ job[w] \in JobState /\ job[w].at \in DOMAIN job[w].batch
      /\ At(job[w]) \in written
  BY JobsAreTyped DEF Orderly, Works, Prepared
<1>2. \A m \in Event : received[m] \in Int
  BY InvoiceAssumption DEF TypeOK
<1>3. CASE w \in Handler
  <2>1. Settle(w, "answered") BY <1>3, InvoiceAssumption DEF Succeed
  <2>2. Typed' BY <2>1 DEF Typed, TypeOK, Settle, Place
  <2> QED BY <1>1, <1>3, <2>1, <2>2, SettleKeeps
<1>4. CASE w \notin Handler
  <2>1. UNCHANGED queue BY <1>4 DEF Succeed
  <2>2. Typed' /\ Grows BY <1>2, <2>1 DEF Typed, TypeOK, Grows
  <2>3. \A m \in Event : Kept(m)' BY <2>1 DEF Orderly, Kept
  <2>4. CASE w \in Poller /\ Goto(w, "delete")
    <3>1. Becomes(w, Stays(job[w], "delete"))
      BY <2>4, GotoBecomes DEF Step
    <3> QED BY <1>1, <1>4, <2>1, <2>2, <2>4, <3>1, StayKeeps DEF Step
  <2>5. CASE /\ w \in Invocation
             /\ Advance(w, [job[w] EXCEPT !.step = "finish"])
    <3> DEFINE last == [job[w] EXCEPT !.step = "finish"]
    <3>1. last = Stays(job[w], "finish") /\ last \in JobState
      BY <1>1, StaysIsTyped DEF Stays, Step
    <3>2. CASE job[w].at < Len(job[w].batch) /\ Becomes(w, GoesOn(job[w]))
      BY <1>1, <1>4, <2>1, <2>2, <2>3, <3>2, GoOnKeeps
    <3>3. CASE ~(job[w].at < Len(job[w].batch)) /\ Becomes(w, last)
      <4>1. job[w].at = Len(job[w].batch) BY <1>1, <3>3, Batches
      <4>2. Becomes(w, Stays(job[w], "finish")) BY <3>1, <3>3
      <4> QED BY <1>1, <1>4, <2>1, <2>2, <2>5, <4>1, <4>2, StayKeeps DEF Step
    <3> QED BY <2>5, <3>1, <3>2, <3>3, AdvanceBecomes
  <2> QED BY <1>4, <2>4, <2>5 DEF Succeed
<1> QED BY <1>3, <1>4

\* What a deletion comes to: events of the messages are deleted, surely those
\* whose receipt is the last one.
LEMMA Deleting ==
    ASSUME TypeOK, NEW messages \in SUBSET Message,
           queue' \in AfterDeleting(messages)
    PROVE  /\ queue' \in [Event -> Place]
           /\ \A m \in Event :
                 \/ queue'[m] = queue[m]
                 \/ /\ queue[m] \in {"visible", "taken"}
                    /\ queue'[m] = "deleted"
                    /\ \E e \in messages : e.event = m
           /\ \A e \in messages :
                 queue[e.event] \in {"visible", "taken"}
                 /\ e.receipt = received[e.event] => queue'[e.event] = "deleted"
<1> DEFINE held  == {e \in messages : queue[e.event] \in {"visible", "taken"}}
           sure  == {e.event : e \in {f \in held :
                                       f.receipt = received[f.event]}}
           stale == {e.event : e \in held} \ sure
<1>1. PICK luck \in SUBSET stale :
        queue' = [m \in Event |-> IF m \in sure \cup luck THEN "deleted"
                                                       ELSE queue[m]]
  BY DEF AfterDeleting
<1>2. \A e \in messages : e.event \in Event BY DEF Message
<1>3. \A m \in sure \cup luck : \E e \in held : e.event = m BY <1>1
<1>4. \A e \in held : e.receipt = received[e.event] => e.event \in sure OBVIOUS
<1>5. \A e \in held : queue[e.event] \in {"visible", "taken"} /\ e \in messages
  OBVIOUS
<1>6. \A e \in messages : queue[e.event] \in {"visible", "taken"} => e \in held
  OBVIOUS
<1> HIDE DEF held, sure, stale
<1>7. queue' \in [Event -> Place] BY <1>1 DEF TypeOK, Place
<1>8. ASSUME NEW m \in Event
      PROVE  \/ queue'[m] = queue[m]
             \/ /\ queue[m] \in {"visible", "taken"}
                /\ queue'[m] = "deleted"
                /\ \E e \in messages : e.event = m
  <2>1. CASE m \in sure \cup luck BY <1>1, <1>3, <1>5, <2>1
  <2>2. CASE m \notin sure \cup luck BY <1>1, <2>2
  <2> QED BY <2>1, <2>2
<1>9. ASSUME NEW e \in messages, queue[e.event] \in {"visible", "taken"},
             e.receipt = received[e.event]
      PROVE  queue'[e.event] = "deleted"
  BY <1>1, <1>2, <1>4, <1>6, <1>9
<1> QED BY <1>7, <1>8, <1>9

\* A step of the queue that moves one event within it, or into it.
LEMMA PublishKeeps ==
    ASSUME TypeOK, Orderly, NEW m \in Event,
           Publish(m) \/ Expire(m) \/ Redrive(m)
    PROVE  TypeOK' /\ Orderly'
<1>1. PICK place \in {"visible", "dead"} :
        /\ queue' = [queue EXCEPT ![m] = place]
        /\ queue[m] \in {"unsent", "visible", "taken"}
        /\ place = "dead" => received[m] = MaxReceive
  BY DEF Publish, Expire, Redrive
<1>2. UNCHANGED <<received, written, uploaded, emails, job>>
  BY DEF Publish, Expire, Redrive
<1>3. faults' \in 0..MaxFaults
  BY FaultsStayBounded DEF Publish, Expire, Redrive, TypeOK
<1>4. \A n \in Event : queue'[n] = IF n = m THEN place ELSE queue[n]
  BY <1>1 DEF TypeOK
<1>5. \A n \in Event : received[n] \in Int BY InvoiceAssumption DEF TypeOK
<1>6. queue' \in [Event -> Place] BY <1>1 DEF TypeOK, Place
<1>7. Typed' BY <1>2, <1>3, <1>6 DEF Typed, TypeOK
<1>8. Grows BY <1>2, <1>4, <1>5 DEF Grows, InQueue
<1>9. \A n \in Event : Kept(n)'
  <2> TAKE n \in Event
  <2>1. Kept(n) BY DEF Orderly
  <2>2. CASE n = m BY <1>1, <1>2, <1>4, <2>1, <2>2 DEF Kept, InQueue
  <2>3. CASE n # m BY <1>2, <1>4, <2>1, <2>3 DEF Kept
  <2> QED BY <2>2, <2>3
<1>10. \A n \in Event : queue[n] = "posted" => queue'[n] = "posted"
  BY <1>1, <1>4
<1> QED BY <1>2, <1>7, <1>8, <1>9, <1>10, QueueKeeps

\* A receipt: each message of the batch is taken, once more received, and
\* there once.
Takes(w, s) ==
    /\ s \in JobState /\ Becomes(w, s) /\ Apart(s)
    /\ s.step = "parse" /\ s.at = 1 /\ 1 \in DOMAIN s.batch
    /\ \A i \in DOMAIN s.batch :
          LET m == s.batch[i].event IN
          /\ queue[m] = "visible" /\ queue'[m] = "taken"
          /\ received[m] < MaxReceive /\ received'[m] = received[m] + 1
          /\ s.batch[i].receipt = received'[m]
    /\ \A m \in Event : (\A i \in DOMAIN s.batch : s.batch[i].event # m) =>
          queue'[m] = queue[m] /\ received'[m] = received[m]

\* A receipt is that.
LEMMA ReceiveTakes ==
    ASSUME TypeOK, NEW w \in Consumer, Receive(w)
    PROVE  /\ \E s \in JobState : Takes(w, s)
           /\ queue' \in [Event -> Place]
           /\ received' \in [Event -> 0..MaxReceive]
           /\ w \notin Handler /\ job[w].step = "idle"
           /\ UNCHANGED <<written, uploaded, emails, faults>>
<1> DEFINE ready == {m \in Event : queue[m] = "visible"
                                  /\ received[m] < MaxReceive}
<1>1. w \notin Handler /\ UNCHANGED <<written, uploaded, emails, faults>>
      /\ job[w].step = "idle"
  BY InvoiceAssumption DEF Receive
<1>2. PICK n \in 1..BatchSize : \E ms \in Injection(1..n, ready) :
        /\ queue' = [m \in Event |-> IF m \in Range(ms) THEN "taken"
                                                       ELSE queue[m]]
        /\ received' = [m \in Event |-> IF m \in Range(ms) THEN received[m] + 1
                                                          ELSE received[m]]
        /\ job' = [job EXCEPT ![w] =
             [step |-> "parse", at |-> 1,
              batch |-> [i \in 1..n |-> [event   |-> ms[i],
                                         receipt |-> received'[ms[i]]]]]]
  BY DEF Receive
<1>3. PICK ms \in Injection(1..n, ready) :
        /\ queue' = [m \in Event |-> IF m \in Range(ms) THEN "taken"
                                                       ELSE queue[m]]
        /\ received' = [m \in Event |-> IF m \in Range(ms) THEN received[m] + 1
                                                          ELSE received[m]]
        /\ job' = [job EXCEPT ![w] =
             [step |-> "parse", at |-> 1,
              batch |-> [i \in 1..n |-> [event   |-> ms[i],
                                         receipt |-> received'[ms[i]]]]]]
  BY <1>2
<1> DEFINE s == [step |-> "parse", at |-> 1,
                 batch |-> [i \in 1..n |-> [event   |-> ms[i],
                                            receipt |-> received'[ms[i]]]]]
<1>4. /\ ms \in [1..n -> ready] /\ Range(ms) \subseteq ready
      /\ \A i \in 1..n : ms[i] \in Range(ms)
      /\ \A i, k \in 1..n : ms[i] = ms[k] => i = k
  BY <1>3 DEF Injection, IsInjective, Range
<1>5. /\ ready \subseteq Event
      /\ \A m \in ready : queue[m] = "visible" /\ received[m] < MaxReceive
  OBVIOUS
<1>6. n \in Nat /\ n >= 1 BY InvoiceAssumption, <1>3
<1>7. \A m \in Event : received[m] \in 0..MaxReceive /\ received[m] \in Nat
  BY InvoiceAssumption DEF TypeOK
<1> HIDE DEF ready
<1>8. \A m \in Event :
        \/ /\ m \in Range(ms) /\ queue'[m] = "taken" /\ queue[m] = "visible"
           /\ received'[m] = received[m] + 1 /\ received[m] < MaxReceive
        \/ /\ m \notin Range(ms)
           /\ queue'[m] = queue[m] /\ received'[m] = received[m]
  BY <1>3, <1>4, <1>5
<1>9. /\ s.step = "parse" /\ s.at = 1 /\ DOMAIN s.batch = 1..n
      /\ \A i \in 1..n : s.batch[i].event = ms[i]
                        /\ s.batch[i].receipt = received'[ms[i]]
  OBVIOUS
<1>10. \A m \in Event : received'[m] \in 0..MaxReceive /\ received'[m] \in Nat
  BY <1>7, <1>8, InvoiceAssumption
<1>11. s \in JobState
  <2>1. \A i \in 1..n :
          [event |-> ms[i], receipt |-> received'[ms[i]]] \in Message
    BY <1>4, <1>5, <1>10 DEF Message
  <2>2. [i \in 1..n |-> [event |-> ms[i], receipt |-> received'[ms[i]]]]
          \in Seq(Message)
    BY <1>6, <2>1
  <2> QED BY <2>2 DEF JobState, Step
<1> HIDE DEF s
<1>13. Becomes(w, s) BY <1>3, <1>11, OneBecomes DEF s
<1>14. Apart(s) BY <1>4, <1>9 DEF Apart
<1>15. ASSUME NEW i \in DOMAIN s.batch
       PROVE  LET m == s.batch[i].event IN
              /\ queue[m] = "visible" /\ queue'[m] = "taken"
              /\ received[m] < MaxReceive /\ received'[m] = received[m] + 1
              /\ s.batch[i].receipt = received'[m]
  <2>1. i \in 1..n /\ s.batch[i].event = ms[i] /\ ms[i] \in Range(ms)
        /\ ms[i] \in Event
    BY <1>4, <1>5, <1>9, <1>15
  <2> QED BY <1>8, <1>9, <2>1
<1>16. ASSUME NEW m \in Event, \A i \in DOMAIN s.batch : s.batch[i].event # m
       PROVE  queue'[m] = queue[m] /\ received'[m] = received[m]
  <2>1. m \notin Range(ms) BY <1>4, <1>9, <1>16 DEF Range
  <2> QED BY <1>8, <2>1
<1>17. 1 \in DOMAIN s.batch BY <1>6, <1>9
<1>18. Takes(w, s) BY <1>9, <1>11, <1>13, <1>14, <1>15, <1>16, <1>17 DEF Takes
<1>19. queue' \in [Event -> Place] BY <1>3 DEF TypeOK, Place
<1>20. received' \in [Event -> 0..MaxReceive] BY <1>3, <1>10
<1> QED BY <1>1, <1>11, <1>18, <1>19, <1>20

\* It keeps types and order.
LEMMA ReceiveKeeps ==
    ASSUME TypeOK, Orderly, NEW w \in Consumer, Receive(w)
    PROVE  TypeOK' /\ Orderly'
<1>1. PICK s \in JobState : Takes(w, s) BY ReceiveTakes
<1>2. /\ w \notin Handler /\ job[w].step = "idle"
      /\ UNCHANGED <<written, uploaded, emails, faults>>
      /\ queue' \in [Event -> Place] /\ received' \in [Event -> 0..MaxReceive]
  BY ReceiveTakes
<1>3. Typed' BY <1>2 DEF Typed, TypeOK
<1>4. \A m \in Event : received[m] \in Nat BY InvoiceAssumption DEF TypeOK
<1>5. \A m \in Event :
        \/ /\ queue'[m] = "taken" /\ queue[m] = "visible"
           /\ received'[m] = received[m] + 1
        \/ queue'[m] = queue[m] /\ received'[m] = received[m]
  BY <1>1 DEF Takes
<1>6. Grows BY <1>2, <1>4, <1>5 DEF Grows, InQueue
<1>7. ASSUME NEW m \in Event PROVE Kept(m)'
  <2>1. Kept(m) BY DEF Orderly
  <2> QED BY <1>2, <1>5, <2>1 DEF Kept, InQueue
<1>8. Shown(w, s, queue', received')
  <2>1. ASSUME NEW i \in DOMAIN s.batch
        PROVE  /\ queue'[s.batch[i].event] \in InQueue
               /\ s.batch[i].receipt \in 1..received'[s.batch[i].event]
    <3>1. s.batch[i].event \in Event BY Batches
    <3>2. LET m == s.batch[i].event IN
          /\ queue'[m] = "taken" /\ received'[m] = received[m] + 1
          /\ s.batch[i].receipt = received'[m] /\ received[m] \in Nat
      BY <1>1, <1>4, <3>1 DEF Takes
    <3> QED BY <3>2 DEF InQueue
  <2> QED BY <1>2, <2>1 DEF Shown
<1>9. Prepared(w, s, written')
  <2>1. \A i \in DOMAIN s.batch : ~(i < s.at) BY <1>1, Batches DEF Takes
  <2> QED BY <1>1, <2>1 DEF Prepared, Takes
<1>10. Works(w, s, queue', received', written')
  BY <1>1, <1>8, <1>9 DEF Works, Takes
<1>11. \A m \in Event : queue[m] = "posted" => queue'[m] = "posted" BY <1>5
<1>12. \A m \in Event : ~Posts(w, s, m) BY <1>2 DEF Posts
<1> QED BY <1>1, <1>3, <1>6, <1>7, <1>10, <1>11, <1>12, TurnKeeps DEF Takes

\* An event is posted.
Serves(w, s, m) ==
    /\ s \in JobState /\ Becomes(w, s)
    /\ s.step = "parse" /\ s.at = 1 /\ DOMAIN s.batch = {1}
    /\ s.batch[1].event = m
    /\ queue[m] = "unsent"
    /\ \A n \in Event : queue'[n] = IF n = m THEN "posted" ELSE queue[n]

\* A request that posts an event does that.
LEMMA PostTakes ==
    ASSUME TypeOK, NEW w \in Consumer, NEW m \in Event, Post(w, m)
    PROVE  /\ \E s \in JobState : Serves(w, s, m)
           /\ queue' \in [Event -> Place] /\ w \in Handler
           /\ UNCHANGED <<received, written, uploaded, emails, faults>>
<1> DEFINE s == [step |-> "parse", at |-> 1,
                 batch |-> <<[event |-> m, receipt |-> 0]>>]
<1>1. /\ w \in Handler /\ queue[m] = "unsent"
      /\ UNCHANGED <<received, written, uploaded, emails, faults>>
      /\ job' = [job EXCEPT ![w] = s]
  BY DEF Post
<1>2. \A n \in Event : queue'[n] = IF n = m THEN "posted" ELSE queue[n]
  BY DEF Post, TypeOK
<1>3. /\ s.step = "parse" /\ s.at = 1 /\ DOMAIN s.batch = {1}
      /\ s.batch[1].event = m
  OBVIOUS
<1>4. s \in JobState
  <2>1. [event |-> m, receipt |-> 0] \in Message BY DEF Message
  <2>2. <<[event |-> m, receipt |-> 0]>> \in Seq(Message) BY <2>1
  <2> QED BY <2>2 DEF JobState, Step
<1>5. Becomes(w, s) BY <1>1, <1>4, OneBecomes
<1>6. queue' \in [Event -> Place] BY DEF Post, TypeOK, Place
<1> HIDE DEF s
<1> QED BY <1>1, <1>2, <1>3, <1>4, <1>5, <1>6 DEF Serves

\* It keeps types and order.
LEMMA PostKeeps ==
    ASSUME TypeOK, Orderly, NEW w \in Consumer, NEW m \in Event, Post(w, m)
    PROVE  TypeOK' /\ Orderly'
<1>1. PICK s \in JobState : Serves(w, s, m) BY PostTakes
<1>2. /\ queue' \in [Event -> Place] /\ w \in Handler
      /\ UNCHANGED <<received, written, uploaded, emails, faults>>
  BY PostTakes
<1>3. /\ s.step = "parse" /\ s.at = 1 /\ DOMAIN s.batch = {1}
      /\ s.batch[1].event = m /\ Becomes(w, s) /\ queue[m] = "unsent"
      /\ \A n \in Event : queue'[n] = IF n = m THEN "posted" ELSE queue[n]
  BY <1>1 DEF Serves
<1>4. Typed' BY <1>2 DEF Typed, TypeOK
<1>5. \A n \in Event : received[n] \in Int BY InvoiceAssumption DEF TypeOK
<1>6. Grows BY <1>2, <1>3, <1>5 DEF Grows, InQueue
<1>7. ASSUME NEW n \in Event PROVE Kept(n)'
  <2>1. Kept(n) BY DEF Orderly
  <2>2. CASE n = m BY <1>2, <1>3, <2>1, <2>2 DEF Kept, InQueue
  <2>3. CASE n # m BY <1>2, <1>3, <2>1, <2>3 DEF Kept
  <2> QED BY <2>2, <2>3
<1>8. Works(w, s, queue', received', written')
  <2>1. Apart(s) BY <1>3 DEF Apart
  <2>2. Shown(w, s, queue', received') BY <1>2, <1>3 DEF Shown, After
  <2>3. Prepared(w, s, written') BY <1>2, <1>3, InvoiceAssumption DEF Prepared
  <2> QED BY <1>3, <2>1, <2>2, <2>3 DEF Works
<1>9. \A n \in Event : queue[n] = "posted" => queue'[n] = "posted" BY <1>3
<1>10. \A n \in Event : Posts(w, s, n) => queue[n] # "posted"
  BY <1>3 DEF Posts, At
<1> QED BY <1>3, <1>4, <1>6, <1>7, <1>8, <1>9, <1>10, TurnKeeps

\* A message is parsed.
LEMMA ParseKeeps ==
    ASSUME TypeOK, Orderly, NEW w \in Consumer, Parse(w)
    PROVE  TypeOK' /\ Orderly'
<1>1. /\ job[w].step = "parse" /\ Current(w) = At(job[w])
      /\ UNCHANGED <<received, written, uploaded, emails, faults>>
  BY DEF Parse, Current, At
<1>2. \A m \in Event : emails'[m] > 0 => Valid(m)
  BY <1>1 DEF Orderly, Kept
<1>3. CASE Fail(w) BY <1>1, <1>3, FailKeeps DEF TypeOK
<1>4. CASE UNCHANGED queue /\ Goto(w, "pdf") /\ Valid(At(job[w]))
  <2>1. Typed' BY <1>1, <1>4 DEF Typed, TypeOK
  <2>2. Becomes(w, Stays(job[w], "pdf")) BY <1>4, GotoBecomes DEF Step
  <2> QED BY <1>1, <1>2, <1>4, <2>1, <2>2, StayKeeps DEF Step, After
<1>5. CASE /\ UNCHANGED queue /\ Goto(w, "delete") /\ w \in Poller
           /\ KindOf[At(job[w])] = "unparsable"
  <2>1. Typed' BY <1>1, <1>5 DEF Typed, TypeOK
  <2>2. Becomes(w, Stays(job[w], "delete")) BY <1>5, GotoBecomes DEF Step
  <2>3. w \notin Handler BY <1>5, InvoiceAssumption
  <2> QED BY <1>1, <1>2, <1>5, <2>1, <2>2, <2>3, StayKeeps DEF Step
<1> QED BY <1>1, <1>3, <1>4, <1>5 DEF Parse, Valid

\* A PDF is written, or not.
LEMMA WritePdfKeeps ==
    ASSUME TypeOK, Orderly, NEW w \in Consumer, WritePdf(w)
    PROVE  TypeOK' /\ Orderly'
<1>1. /\ job[w].step = "pdf" /\ Current(w) = At(job[w])
      /\ UNCHANGED <<received, uploaded, emails>>
  BY DEF WritePdf, Current, At
<1>2. Valid(At(job[w])) /\ At(job[w]) \in Event
  BY <1>1, HandlersPost DEF Orderly, Works, Prepared
<1>3. \A m \in Event : emails'[m] > 0 => Valid(m)
  BY <1>1 DEF Orderly, Kept
<1>4. CASE /\ written' = written \cup {Current(w)} /\ Goto(w, "upload")
           /\ UNCHANGED <<queue, faults>>
  <2>1. Typed' BY <1>1, <1>2, <1>4 DEF Typed, TypeOK
  <2>2. Becomes(w, Stays(job[w], "upload")) BY <1>4, GotoBecomes DEF Step
  <2> QED BY <1>1, <1>2, <1>3, <1>4, <2>1, <2>2, StayKeeps DEF Step, After
<1>5. CASE Happens("disk") /\ Fail(w) /\ UNCHANGED written
  BY <1>1, <1>5, FaultsStayBounded, FailKeeps DEF TypeOK
<1> QED BY <1>4, <1>5 DEF WritePdf

\* A PDF is uploaded, or not.
LEMMA UploadKeeps ==
    ASSUME TypeOK, Orderly, NEW w \in Consumer, Upload(w)
    PROVE  TypeOK' /\ Orderly'
<1>1. /\ job[w].step = "upload" /\ Goto(w, "email")
      /\ UNCHANGED <<queue, received, written, emails>>
  BY DEF Upload
<1>2. /\ Valid(At(job[w])) /\ At(job[w]) \in written
      /\ Current(w) = At(job[w]) /\ At(job[w]) \in Event
  BY <1>1, HandlersPost DEF Orderly, Works, Prepared, Current, At
<1>3. \A m \in Event : emails'[m] > 0 => Valid(m)
  BY <1>1 DEF Orderly, Kept
<1>4. faults' \in 0..MaxFaults /\ uploaded' \in SUBSET Event
  BY <1>2, FaultsStayBounded DEF Upload, TypeOK
<1>5. Typed' BY <1>1, <1>4 DEF Typed, TypeOK
<1>6. Becomes(w, Stays(job[w], "email")) BY <1>1, GotoBecomes DEF Step
<1> QED BY <1>1, <1>2, <1>3, <1>5, <1>6, StayKeeps DEF Step, After

\* An email is sent, or not.
LEMMA EmailKeeps ==
    ASSUME TypeOK, Orderly, NEW w \in Consumer, Email(w)
    PROVE  TypeOK' /\ Orderly'
<1>1. /\ job[w].step = "email" /\ Succeed(w)
      /\ UNCHANGED <<received, written, uploaded>>
  BY DEF Email
<1>2. /\ Valid(At(job[w])) /\ Current(w) = At(job[w])
      /\ At(job[w]) \in Event
  BY <1>1, HandlersPost DEF Orderly, Works, Prepared, Current, At
<1>3. CASE UNCHANGED emails /\ Happens("ses")
  BY <1>1, <1>3, FaultsStayBounded, SucceedKeeps DEF TypeOK, Orderly, Kept
<1>4. CASE /\ emails' = [emails EXCEPT ![Current(w)] = @ + 1]
           /\ UNCHANGED faults
  <2>1. emails' \in [Event -> Nat] BY <1>2, <1>4 DEF TypeOK
  <2>2. ASSUME NEW m \in Event, emails'[m] > 0 PROVE Valid(m)
    <3>1. m = At(job[w]) \/ emails'[m] = emails[m] BY <1>2, <1>4 DEF TypeOK
    <3> QED BY <1>2, <2>2, <3>1 DEF Orderly, Kept
  <2> QED BY <1>1, <1>4, <2>1, <2>2, SucceedKeeps DEF TypeOK
<1> QED BY <1>3, <1>4 DEF Email

\* Messages of a batch are deleted, all of them ready for it.
LEMMA DeletingKeeps ==
    ASSUME TypeOK, Orderly, NEW w \in Consumer \ Handler, job[w].step # "idle",
           NEW messages \in SUBSET Message, queue' \in AfterDeleting(messages),
           \A e \in messages :
              e.event \in written \/ KindOf[e.event] = "unparsable",
           UNCHANGED <<received, written, uploaded, emails>>,
           faults' \in 0..MaxFaults,
           \/ Becomes(w, Idle)
           \/ /\ job[w].at < Len(job[w].batch) /\ Becomes(w, GoesOn(job[w]))
              /\ w \notin Invocation
    PROVE  TypeOK' /\ Orderly'
<1>1. /\ queue' \in [Event -> Place]
      /\ \A m \in Event :
            \/ queue'[m] = queue[m]
            \/ /\ queue[m] \in {"visible", "taken"} /\ queue'[m] = "deleted"
               /\ \E e \in messages : e.event = m
  BY Deleting
<1>2. Typed' BY <1>1 DEF Typed, TypeOK
<1>3. \A m \in Event : received[m] \in Int BY InvoiceAssumption DEF TypeOK
<1>4. Grows BY <1>1, <1>3 DEF Grows, InQueue
<1>5. ASSUME NEW m \in Event PROVE Kept(m)'
  <2>1. Kept(m) BY DEF Orderly
  <2>2. CASE queue'[m] = queue[m] BY <2>1, <2>2 DEF Kept
  <2>3. CASE /\ queue'[m] = "deleted"
             /\ m \in written \/ KindOf[m] = "unparsable"
    BY <2>1, <2>3 DEF Kept, InQueue
  <2> QED BY <1>1, <2>2, <2>3
<1>6. \A m \in Event : queue[m] = "posted" => queue'[m] = "posted" BY <1>1
<1> QED BY <1>2, <1>4, <1>5, <1>6, GoOnKeeps

\* The poller deletes a message, or does not.
LEMMA DeleteKeeps ==
    ASSUME TypeOK, Orderly, NEW w \in Consumer, Delete(w)
    PROVE  TypeOK' /\ Orderly'
<1> DEFINE mine == {job[w].batch[job[w].at]}
<1>1. /\ job[w].step = "delete"
      /\ UNCHANGED <<received, written, uploaded, emails>>
  BY DEF Delete
<1>2. /\ job[w] \in JobState /\ job[w].at \in DOMAIN job[w].batch
      /\ w \in Poller /\ w \notin Handler /\ w \notin Invocation
      /\ At(job[w]) \in written \/ KindOf[At(job[w])] = "unparsable"
  BY <1>1, JobsAreTyped, InvoiceAssumption DEF Orderly, Works, Prepared
<1>3. mine \in SUBSET Message
      /\ \A e \in mine : e.event \in written \/ KindOf[e.event] = "unparsable"
  BY <1>2, Batches DEF At
<1>4. faults' \in 0..MaxFaults BY FaultsStayBounded DEF Delete, TypeOK
<1>5. \/ Becomes(w, Idle)
      \/ /\ job[w].at < Len(job[w].batch) /\ Becomes(w, GoesOn(job[w]))
         /\ w \notin Invocation
  <2>1. CASE Advance(w, Idle) BY <1>2, <2>1, AdvanceBecomes, IdleIsTyped
  <2>2. CASE job' = [job EXCEPT ![w] = Idle] BY <2>2, OneBecomes, IdleIsTyped
  <2> QED BY <2>1, <2>2 DEF Delete
<1> HIDE DEF mine
<1>6. CASE queue' \in AfterDeleting(mine)
  BY <1>1, <1>2, <1>3, <1>4, <1>5, <1>6, DeletingKeeps
<1>7. CASE UNCHANGED queue
  <2>1. Typed' BY <1>1, <1>4, <1>7 DEF Typed, TypeOK
  <2>2. \A m \in Event : received[m] \in Int
    BY InvoiceAssumption DEF TypeOK
  <2>3. Grows BY <1>1, <1>7, <2>2 DEF Grows
  <2>4. \A m \in Event : Kept(m)' BY <1>1, <1>7, KeptStays
  <2> QED BY <1>1, <1>2, <1>5, <1>7, <2>1, <2>3, <2>4, GoOnKeeps
<1> QED BY <1>6, <1>7 DEF Delete, mine

\* The Lambda deletes its batch.
LEMMA FinishKeeps ==
    ASSUME TypeOK, Orderly, NEW w \in Consumer, Finish(w)
    PROVE  TypeOK' /\ Orderly'
<1> DEFINE all == Range(job[w].batch)
<1>1. /\ job[w].step = "finish" /\ queue' \in AfterDeleting(all)
      /\ UNCHANGED <<received, written, uploaded, emails, faults>>
      /\ Becomes(w, Idle)
  BY OneBecomes, IdleIsTyped DEF Finish
<1>2. /\ job[w] \in JobState /\ job[w].at \in DOMAIN job[w].batch
      /\ w \in Invocation /\ w \notin Handler
      /\ job[w].at = Len(job[w].batch) /\ At(job[w]) \in written
      /\ \A i \in DOMAIN job[w].batch :
            i < job[w].at => job[w].batch[i].event \in written
  BY <1>1, JobsAreTyped, InvoiceAssumption DEF Orderly, Works, Prepared
<1>3. ASSUME NEW e \in all PROVE e \in Message /\ e.event \in written
  <2>1. PICK i \in DOMAIN job[w].batch : e = job[w].batch[i] BY DEF Range
  <2>2. i < job[w].at \/ i = job[w].at BY <1>2, Batches
  <2> QED BY <1>2, <2>1, <2>2, Batches DEF At
<1>4. faults' \in 0..MaxFaults BY <1>1 DEF TypeOK
<1> HIDE DEF all
<1> QED BY <1>1, <1>2, <1>3, <1>4, DeletingKeeps

\* A consumer dies.
LEMMA CrashKeeps ==
    ASSUME TypeOK, Orderly, NEW w \in Consumer, Crash(w)
    PROVE  TypeOK' /\ Orderly'
<1>1. /\ job[w].step # "idle" /\ faults' \in 0..MaxFaults
      /\ UNCHANGED <<received, written, uploaded, emails>>
  BY FaultsStayBounded DEF Crash, TypeOK
<1>2. \A m \in Event : emails'[m] > 0 => Valid(m)
  BY <1>1 DEF Orderly, Kept
<1>3. CASE w \in Handler /\ Settle(w, "rejected")
  <2>1. Typed' BY <1>1, <1>3 DEF Typed, TypeOK, Settle, Place
  <2> QED BY <1>1, <1>2, <1>3, <2>1, SettleKeeps
<1>4. CASE w \notin Handler /\ job' = [job EXCEPT ![w] = Idle]
           /\ UNCHANGED queue
  <2>1. Typed' BY <1>1, <1>4 DEF Typed, TypeOK
  <2>2. \A m \in Event : received[m] \in Int
    BY InvoiceAssumption DEF TypeOK
  <2>3. Grows BY <1>1, <1>4, <2>2 DEF Grows
  <2>4. Becomes(w, Idle) BY <1>4, OneBecomes, IdleIsTyped
  <2>5. \A m \in Event : Kept(m)' BY <1>1, <1>4, KeptStays
  <2> QED BY <1>1, <1>4, <2>1, <2>3, <2>4, <2>5, GoOnKeeps
<1> QED BY <1>3, <1>4 DEF Crash

-----------------------------------------------------------------------------
IInv == TypeOK /\ Orderly

\* The initial states satisfy the invariant.
LEMMA Initially ==
    ASSUME Init
    PROVE  IInv
<1>1. \A w \in Consumer : job[w] = Idle BY DEF Init
<1>2. \A w \in Consumer : Works(w, job[w], queue, received, written)
  BY <1>1, IdleWorks
<1>3. \A m \in Event : Kept(m)
  BY InvoiceAssumption DEF Init, Kept
<1>4. \A w \in Consumer : \A m \in Event : ~Posts(w, job[w], m)
  BY <1>1, IdleIsTyped DEF Posts
<1>5. TypeOK
  <2>1. job \in [Consumer -> JobState]
        /\ \A w \in Consumer : job[w].step = "idle"
    BY IdleIsTyped DEF Init
  <2>2. faults \in 0..MaxFaults BY InvoiceAssumption DEF Init
  <2>3. received \in [Event -> 0..MaxReceive] /\ emails \in [Event -> Nat]
        /\ queue \in [Event -> Place] /\ written \in SUBSET Event
        /\ uploaded \in SUBSET Event
    BY InvoiceAssumption DEF Init, Place
  <2> QED BY <2>1, <2>2, <2>3 DEF TypeOK, JobState
<1> QED BY <1>2, <1>3, <1>4, <1>5 DEF IInv, Orderly

\* Every step preserves it.
LEMMA NextKeeps ==
    ASSUME IInv, [Next]_vars
    PROVE  IInv'
<1>1. CASE Next
  <2>1. CASE \E m \in Event : Publish(m) \/ Expire(m) \/ Redrive(m)
    BY <2>1, PublishKeeps DEF IInv
  <2>2. ASSUME NEW w \in Consumer,
               \/ Receive(w) \/ Work(w) \/ Crash(w)
               \/ \E m \in Event : Post(w, m)
        PROVE  IInv'
    <3>1. CASE Receive(w) BY <3>1, ReceiveKeeps DEF IInv
    <3>2. CASE Crash(w) BY <3>2, CrashKeeps DEF IInv
    <3>3. CASE \E m \in Event : Post(w, m) BY <3>3, PostKeeps DEF IInv
    <3>4. CASE Parse(w) BY <3>4, ParseKeeps DEF IInv
    <3>5. CASE WritePdf(w) BY <3>5, WritePdfKeeps DEF IInv
    <3>6. CASE Upload(w) BY <3>6, UploadKeeps DEF IInv
    <3>7. CASE Email(w) BY <3>7, EmailKeeps DEF IInv
    <3>8. CASE Delete(w) BY <3>8, DeleteKeeps DEF IInv
    <3>9. CASE Finish(w) BY <3>9, FinishKeeps DEF IInv
    <3> QED BY <2>2, <3>1, <3>2, <3>3, <3>4, <3>5, <3>6, <3>7, <3>8, <3>9
            DEF Work
  <2> QED BY <1>1, <2>1, <2>2 DEF Next
<1>2. CASE UNCHANGED vars
  BY <1>2 DEF IInv, vars, TypeOK, Orderly, Posts, Kept, Valid
<1> QED BY <1>1, <1>2

\* The variables have their types: in particular every job under way is at a
\* message of its batch, and the queue shows none more often than it may.
THEOREM TypeCorrect == Spec => []TypeOK
<1>1. Init => IInv BY Initially
<1>2. IInv /\ [Next]_vars => IInv' BY NextKeeps
<1>3. IInv => TypeOK BY DEF IInv
<1> QED BY <1>1, <1>2, <1>3, PTL DEF Spec

-----------------------------------------------------------------------------
(* Turns of a consumer at work.                                            *)

\* It rests at its event and is still to send the email, or it is done with
\* the event, or with all of them.
Rests(w) ==
    /\ job[w].step \in Before /\ UNCHANGED <<queue, emails>>
    /\ \E step \in Before : Becomes(w, Stays(job[w], step))
Ends(w) ==
    \/ Becomes(w, Idle) \/ Becomes(w, GoesOn(job[w]))
    \/ \E step \in After : Becomes(w, Stays(job[w], step))

Mails(w) ==
    \/ UNCHANGED emails
    \/ /\ job[w].step = "email"
       /\ emails' = [emails EXCEPT ![At(job[w])] = @ + 1]

\* What it answers, or deletes, is what it is at, or done with.
Clears(w) ==
    \A m \in Event :
        \/ queue'[m] = queue[m]
        \/ /\ m = At(job[w]) /\ queue[m] = "posted"
           /\ queue'[m] \in {"answered", "rejected"}
        \/ /\ queue[m] \in {"visible", "taken"} /\ queue'[m] = "deleted"
           /\ Past(job[w], m)

\* A valid event that it had still to send an email for has got one, or there
\* is one fault more.
Accounts(w) ==
    Valid(At(job[w])) /\ faults' = faults /\ job[w].step \notin After
        => emails'[At(job[w])] > 0

Turn(w) ==
    /\ job[w].step # "idle" /\ received' = received
    /\ faults' \in {faults, faults + 1}
    /\ \/ Rests(w)
       \/ Ends(w) /\ Mails(w) /\ Clears(w) /\ Accounts(w)

\* A failure is a turn, if the event is not valid or there is a fault for it.
LEMMA FailIsTurn ==
    ASSUME TypeOK, Orderly, NEW w \in Consumer, job[w].step # "idle", Fail(w),
           UNCHANGED <<received, emails>>, faults' \in {faults, faults + 1},
           Valid(At(job[w])) => faults' # faults
    PROVE  Turn(w)
<1>1. Mails(w) /\ Accounts(w) BY DEF Mails, Accounts
<1>2. CASE w \in Handler
  <2>1. Settle(w, "rejected") BY <1>2, InvoiceAssumption DEF Fail
  <2>2. Ends(w) BY <2>1, OneBecomes, IdleIsTyped DEF Settle, Ends
  <2>3. Clears(w)
    BY <1>2, <2>1, HandlersPost DEF Clears, Settle, Current, At, TypeOK
  <2> QED BY <1>1, <2>2, <2>3 DEF Turn
<1>3. CASE w \notin Handler
  <2>1. Clears(w) BY <1>3 DEF Clears, Fail
  <2>2. CASE Advance(w, Idle)
    BY <1>1, <2>1, <2>2, AdvanceBecomes, IdleIsTyped DEF Ends, Turn
  <2>3. CASE job' = [job EXCEPT ![w] = Idle]
    BY <1>1, <2>1, <2>3, OneBecomes, IdleIsTyped DEF Ends, Turn
  <2> QED BY <1>3, <2>2, <2>3 DEF Fail
<1> QED BY <1>2, <1>3

\* Every step of a consumer at work is a turn: the parse,
LEMMA ParseIsTurn ==
    ASSUME TypeOK, Orderly, NEW w \in Consumer, Parse(w)
    PROVE  Turn(w)
<1>1. /\ job[w].step = "parse" /\ Current(w) = At(job[w])
      /\ UNCHANGED <<received, emails, faults>>
  BY DEF Parse, Current, At
<1>2. CASE Fail(w) /\ ~Valid(At(job[w])) BY <1>1, <1>2, FailIsTurn
<1>3. CASE Goto(w, "pdf") /\ UNCHANGED queue
  <2>1. Becomes(w, Stays(job[w], "pdf")) BY <1>3, GotoBecomes DEF Step
  <2> QED BY <1>1, <1>3, <2>1 DEF Turn, Rests, Before
<1>4. CASE Goto(w, "delete") /\ UNCHANGED queue /\ ~Valid(At(job[w]))
  <2>1. Becomes(w, Stays(job[w], "delete")) BY <1>4, GotoBecomes DEF Step
  <2> QED BY <1>1, <1>4, <2>1 DEF Turn, Ends, After, Mails, Clears, Accounts
<1> QED BY <1>1, <1>2, <1>3, <1>4 DEF Parse, Valid

\* the PDF, written or not,
LEMMA WritePdfIsTurn ==
    ASSUME TypeOK, Orderly, NEW w \in Consumer, WritePdf(w)
    PROVE  Turn(w)
<1>1. job[w].step = "pdf" /\ UNCHANGED <<received, emails>> BY DEF WritePdf
<1>2. CASE Goto(w, "upload") /\ UNCHANGED <<queue, faults>>
  <2>1. Becomes(w, Stays(job[w], "upload")) BY <1>2, GotoBecomes DEF Step
  <2> QED BY <1>1, <1>2, <2>1 DEF Turn, Rests, Before
<1>3. CASE Happens("disk") /\ Fail(w)
  <2>1. faults' = faults + 1 /\ faults' # faults
    BY <1>3 DEF Happens, TypeOK
  <2> QED BY <1>1, <1>3, <2>1, FailIsTurn
<1> QED BY <1>2, <1>3 DEF WritePdf

\* its upload,
LEMMA UploadIsTurn ==
    ASSUME TypeOK, Orderly, NEW w \in Consumer, Upload(w)
    PROVE  Turn(w)
<1>1. /\ job[w].step = "upload" /\ Goto(w, "email")
      /\ UNCHANGED <<queue, received, emails>>
  BY DEF Upload
<1>2. faults' \in {faults, faults + 1} BY DEF Upload, Happens
<1>3. Becomes(w, Stays(job[w], "email")) BY <1>1, GotoBecomes DEF Step
<1> QED BY <1>1, <1>2, <1>3 DEF Turn, Rests, Before

\* the email, in each of the three entries,
LEMMA EmailIsTurn ==
    ASSUME TypeOK, Orderly, NEW w \in Consumer, Email(w)
    PROVE  Turn(w)
<1>1. /\ job[w].step = "email" /\ Succeed(w) /\ received' = received
      /\ Current(w) = At(job[w]) /\ At(job[w]) \in Event
  BY HandlersPost DEF Email, Current, At
<1>2. /\ faults' \in {faults, faults + 1} /\ Mails(w) /\ Accounts(w)
  <2>1. CASE Happens("ses") /\ UNCHANGED emails
    BY <2>1 DEF Happens, Mails, Accounts, TypeOK
  <2>2. CASE /\ emails' = [emails EXCEPT ![Current(w)] = @ + 1]
             /\ UNCHANGED faults
    <3>1. emails'[At(job[w])] = emails[At(job[w])] + 1
      BY <1>1, <2>2 DEF TypeOK
    <3>2. emails[At(job[w])] \in Nat BY <1>1 DEF TypeOK
    <3> QED BY <1>1, <2>2, <3>1, <3>2 DEF Mails, Accounts
  <2> QED BY <2>1, <2>2 DEF Email
<1>3. CASE w \in Handler
  <2>1. Settle(w, "answered") BY <1>1, <1>3, InvoiceAssumption DEF Succeed
  <2>2. Ends(w) BY <2>1, OneBecomes, IdleIsTyped DEF Settle, Ends
  <2>3. Clears(w)
    BY <1>1, <1>3, <2>1, HandlersPost DEF Clears, Settle, TypeOK
  <2> QED BY <1>1, <1>2, <2>2, <2>3 DEF Turn
<1>4. CASE w \notin Handler
  <2>1. Clears(w) BY <1>1, <1>4 DEF Clears, Succeed
  <2>2. CASE Goto(w, "delete")
    <3>1. Becomes(w, Stays(job[w], "delete")) BY <2>2, GotoBecomes DEF Step
    <3>2. Ends(w) BY <3>1 DEF Ends, After
    <3> QED BY <1>1, <1>2, <2>1, <3>2 DEF Turn
  <2>3. CASE Advance(w, [job[w] EXCEPT !.step = "finish"])
    <3> DEFINE last == [job[w] EXCEPT !.step = "finish"]
    <3>1. last = Stays(job[w], "finish") /\ last \in JobState
      BY JobsAreTyped, StaysIsTyped DEF Stays, Step
    <3>2. Becomes(w, GoesOn(job[w])) \/ Becomes(w, last)
      BY <2>3, <3>1, AdvanceBecomes
    <3>3. Ends(w) BY <3>1, <3>2 DEF Ends, After
    <3> QED BY <1>1, <1>2, <2>1, <3>3 DEF Turn
  <2> QED BY <1>1, <1>4, <2>2, <2>3 DEF Succeed
<1> QED BY <1>3, <1>4

\* the deletion by the poller,
LEMMA DeleteIsTurn ==
    ASSUME TypeOK, Orderly, NEW w \in Consumer, Delete(w)
    PROVE  Turn(w)
<1> DEFINE mine == {job[w].batch[job[w].at]}
<1>1. /\ job[w].step = "delete" /\ UNCHANGED <<received, emails>>
      /\ job[w] \in JobState /\ job[w].at \in DOMAIN job[w].batch
  BY JobsAreTyped DEF Delete
<1>2. faults' \in {faults, faults + 1} BY DEF Delete, Happens
<1>3. Ends(w)
  <2>1. CASE Advance(w, Idle) BY <2>1, AdvanceBecomes, IdleIsTyped DEF Ends
  <2>2. CASE job' = [job EXCEPT ![w] = Idle]
    BY <2>2, OneBecomes, IdleIsTyped DEF Ends
  <2> QED BY <2>1, <2>2 DEF Delete
<1>4. mine \in SUBSET Message
      /\ \A e \in mine : Past(job[w], e.event)
  BY <1>1, Batches DEF Past, After
<1> HIDE DEF mine
<1>5. Clears(w)
  <2>1. CASE queue' \in AfterDeleting(mine)
    BY <1>4, <2>1, Deleting DEF Clears
  <2>2. CASE queue' = queue BY <2>2 DEF Clears
  <2> QED BY <2>1, <2>2 DEF Delete, mine
<1>6. Mails(w) /\ Accounts(w) BY <1>1 DEF Mails, Accounts, After
<1> QED BY <1>1, <1>2, <1>3, <1>5, <1>6 DEF Turn

\* the one by the Lambda,
LEMMA FinishIsTurn ==
    ASSUME TypeOK, Orderly, NEW w \in Consumer, Finish(w)
    PROVE  Turn(w)
<1> DEFINE all == Range(job[w].batch)
<1>1. /\ job[w].step = "finish" /\ queue' \in AfterDeleting(all)
      /\ UNCHANGED <<received, emails, faults>> /\ Becomes(w, Idle)
      /\ job[w] \in JobState /\ job[w].at \in DOMAIN job[w].batch
      /\ job[w].at = Len(job[w].batch)
  BY OneBecomes, IdleIsTyped, JobsAreTyped DEF Finish, Orderly, Works, Prepared
<1>2. ASSUME NEW e \in all PROVE e \in Message /\ Past(job[w], e.event)
  <2>1. PICK i \in DOMAIN job[w].batch : e = job[w].batch[i] BY DEF Range
  <2>2. i < job[w].at \/ i = job[w].at BY <1>1, Batches
  <2> QED BY <1>1, <2>1, <2>2, Batches DEF Past, After
<1> HIDE DEF all
<1>3. Clears(w) BY <1>1, <1>2, Deleting DEF Clears
<1>4. Mails(w) /\ Accounts(w) BY <1>1 DEF Mails, Accounts, After
<1> QED BY <1>1, <1>3, <1>4 DEF Turn, Ends

\* and a crash.
LEMMA CrashIsTurn ==
    ASSUME TypeOK, Orderly, NEW w \in Consumer, Crash(w)
    PROVE  Turn(w)
<1>1. /\ job[w].step # "idle" /\ UNCHANGED <<received, emails>>
      /\ faults' = faults + 1 /\ faults' # faults
  BY DEF Crash, Happens, TypeOK
<1>2. Mails(w) /\ Accounts(w) BY <1>1 DEF Mails, Accounts
<1>3. Ends(w) BY OneBecomes, IdleIsTyped DEF Crash, Settle, Ends
<1>4. Clears(w)
  BY <1>1, HandlersPost DEF Crash, Clears, Settle, Current, At, TypeOK
<1> QED BY <1>1, <1>2, <1>3, <1>4 DEF Turn

\* A step of a consumer at work is a turn.
LEMMA WorkIsTurn ==
    ASSUME TypeOK, Orderly, NEW w \in Consumer, Work(w) \/ Crash(w)
    PROVE  Turn(w)
BY ParseIsTurn, WritePdfIsTurn, UploadIsTurn, EmailIsTurn,
   DeleteIsTurn, FinishIsTurn, CrashIsTurn DEF Work

\* What a step may be.
LEMMA StepsAre ==
    ASSUME TypeOK, Orderly, Next
    PROVE  \/ \E m \in Event : Publish(m) \/ Expire(m) \/ Redrive(m)
           \/ \E w \in Consumer :
                \/ Receive(w) \/ Turn(w)
                \/ \E m \in Event : Post(w, m)
BY WorkIsTurn DEF Next

\* No step takes a receipt back.
LEMMA ReceivedGrows ==
    ASSUME TypeOK, Orderly, [Next]_vars, NEW m \in Event
    PROVE  received'[m] >= received[m]
<1>1. received[m] \in Nat BY InvoiceAssumption DEF TypeOK
<1>2. CASE UNCHANGED vars BY <1>1, <1>2 DEF vars
<1>3. ASSUME NEW n \in Event, Publish(n) \/ Expire(n) \/ Redrive(n)
      PROVE  received'[m] >= received[m]
  BY <1>1, <1>3 DEF Publish, Expire, Redrive
<1>4. ASSUME NEW w \in Consumer, Receive(w)
      PROVE  received'[m] >= received[m]
  <2>1. PICK s \in JobState : Takes(w, s) BY <1>4, ReceiveTakes
  <2>2. received'[m] = received[m] + 1 \/ received'[m] = received[m]
    BY <2>1 DEF Takes
  <2> QED BY <1>1, <2>2
<1>5. ASSUME NEW w \in Consumer, NEW n \in Event, Post(w, n)
      PROVE  received'[m] >= received[m]
  BY <1>1, <1>5 DEF Post
<1>6. ASSUME NEW w \in Consumer, Turn(w)
      PROVE  received'[m] >= received[m]
  BY <1>1, <1>6 DEF Turn
<1> QED BY <1>2, <1>3, <1>4, <1>5, <1>6, StepsAre

-----------------------------------------------------------------------------
(* One email for each receipt.                                             *)

\* The consumers that are still to send an email for an event, and how many
\* there may have been.
AheadOf(m) == {w \in Consumer : Ahead(job[w], m)}
Budget(m) == received[m] + IF queue[m] \in {"posted", "answered", "rejected"}
                             THEN 1 ELSE 0

OneEmail ==
    \A m \in Event : /\ IsFiniteSet(AheadOf(m))
                     /\ emails[m] + Cardinality(AheadOf(m)) <= Budget(m)

\* The set shrinks, or gets one more member and the bound is raised, or one
\* member leaves it to be counted.
Adds(S, T, e, f, b, c) ==
    \/ T \subseteq S /\ f = e /\ c >= b
    \/ \E x : T \subseteq S \cup {x} /\ f = e /\ c >= b + 1
    \/ \E x \in S : T \subseteq S \ {x} /\ f = e + 1 /\ c >= b

\* The sum of the number and the set's size stays in bounds.
LEMMA SumsStay ==
    ASSUME NEW S, NEW T, IsFiniteSet(S),
           NEW e \in Nat, NEW f \in Nat, NEW b \in Nat, NEW c \in Nat,
           e + Cardinality(S) <= b, Adds(S, T, e, f, b, c)
    PROVE  IsFiniteSet(T) /\ f + Cardinality(T) <= c
<1>1. Cardinality(S) \in Nat BY FS_CardinalityType
<1>2. CASE T \subseteq S /\ f = e /\ c >= b
  <2>1. /\ IsFiniteSet(T) /\ Cardinality(T) <= Cardinality(S)
        /\ Cardinality(T) \in Nat
    BY <1>2, FS_Subset, FS_CardinalityType
  <2> QED BY <1>1, <1>2, <2>1
<1>3. CASE \E x : T \subseteq S \cup {x} /\ f = e /\ c >= b + 1
  <2>1. PICK x : T \subseteq S \cup {x} /\ f = e /\ c >= b + 1 BY <1>3
  <2>2. /\ IsFiniteSet(S \cup {x})
        /\ Cardinality(S \cup {x}) \in {Cardinality(S), Cardinality(S) + 1}
    BY FS_AddElement
  <2>3. /\ IsFiniteSet(T) /\ Cardinality(T) <= Cardinality(S \cup {x})
        /\ Cardinality(T) \in Nat
    BY <2>1, <2>2, FS_Subset, FS_CardinalityType
  <2> QED BY <1>1, <2>1, <2>2, <2>3
<1>4. CASE \E x \in S : T \subseteq S \ {x} /\ f = e + 1 /\ c >= b
  <2>1. PICK x \in S : T \subseteq S \ {x} /\ f = e + 1 /\ c >= b BY <1>4
  <2>2. /\ IsFiniteSet(S \ {x})
        /\ Cardinality(S \ {x}) = Cardinality(S) - 1
        /\ Cardinality(S \ {x}) \in Nat
    BY <1>1, FS_RemoveElement, FS_CardinalityType
  <2>3. /\ IsFiniteSet(T) /\ Cardinality(T) <= Cardinality(S \ {x})
        /\ Cardinality(T) \in Nat
    BY <2>1, <2>2, FS_Subset, FS_CardinalityType
  <2> QED BY <1>1, <2>1, <2>2, <2>3
<1> QED BY <1>2, <1>3, <1>4 DEF Adds

\* A turn makes no consumer send what it was not to send, and who has sent an
\* email is not to send another one for the event.
LEMMA TurnsSendOnce ==
    ASSUME TypeOK, Orderly, NEW w \in Consumer, Turn(w), NEW m \in Event
    PROVE  /\ Ahead(job'[w], m) => Ahead(job[w], m)
           /\ emails'[m] # emails[m] =>
                 /\ emails'[m] = emails[m] + 1
                 /\ Ahead(job[w], m) /\ ~Ahead(job'[w], m)
<1> DEFINE j == job[w]
<1>1. /\ j \in JobState /\ j.at \in DOMAIN j.batch /\ Apart(j)
      /\ At(j) \in Event
  BY JobsAreTyped, HandlersPost DEF Turn, Orderly, Works
<1>2. /\ \A i \in DOMAIN j.batch : i \in Nat
      /\ j.at \in Nat
  BY <1>1, Batches
<1> HIDE DEF j
<1>3. CASE Rests(w)
  <2>1. PICK step \in Before : Becomes(w, Stays(j, step)) BY <1>3 DEF Rests, j
  <2>2. job'[w] = Stays(j, step) /\ step \in Step
    BY <2>1 DEF Becomes, Before, Step
  <2>3. job'[w].batch = j.batch /\ job'[w].at = j.at
    BY <1>1, <2>2, StaysIsTyped
  <2>4. j.step \in Before /\ UNCHANGED emails BY <1>3 DEF Rests, j
  <2> QED BY <2>3, <2>4 DEF Ahead, j
<1>4. CASE Ends(w) /\ Mails(w)
  <2>1. \A i \in DOMAIN job'[w].batch :
          \/ ~(\/ i > job'[w].at
               \/ i = job'[w].at /\ job'[w].step \in Before)
          \/ i \in DOMAIN j.batch /\ i > j.at /\ job'[w].batch = j.batch
    <3>1. CASE Becomes(w, Idle)
      BY <3>1, IdleIsTyped DEF Becomes
    <3>2. CASE Becomes(w, GoesOn(j))
      <4>1. job'[w].batch = j.batch /\ job'[w].at = j.at + 1
        BY <1>1, <3>2, GoesOnIsTyped DEF Becomes
      <4> QED BY <1>2, <4>1
    <3>3. ASSUME NEW step \in After, Becomes(w, Stays(j, step))
          PROVE  \A i \in DOMAIN job'[w].batch :
                   \/ ~(\/ i > job'[w].at
                        \/ i = job'[w].at /\ job'[w].step \in Before)
                   \/ /\ i \in DOMAIN j.batch /\ i > j.at
                      /\ job'[w].batch = j.batch
      <4>1. step \in Step /\ step \notin Before
        BY DEF After, Before, Step
      <4>2. /\ job'[w].batch = j.batch /\ job'[w].at = j.at
            /\ job'[w].step = step
        BY <1>1, <3>3, <4>1, StaysIsTyped DEF Becomes
      <4> QED BY <4>1, <4>2
    <3> QED BY <1>4, <3>1, <3>2, <3>3 DEF Ends, j
  <2>2. Ahead(job'[w], m) => \E i \in DOMAIN j.batch :
                                j.batch[i].event = m /\ i > j.at
    BY <2>1 DEF Ahead
  <2>3. Ahead(job'[w], m) => Ahead(j, m) BY <2>2 DEF Ahead
  <2>4. ASSUME emails'[m] # emails[m]
        PROVE  /\ emails'[m] = emails[m] + 1
               /\ Ahead(j, m) /\ ~Ahead(job'[w], m)
    <3>1. j.step = "email" /\ m = At(j) /\ emails'[m] = emails[m] + 1
      BY <1>1, <1>4, <2>4 DEF Mails, TypeOK, j
    <3>2. Ahead(j, m) BY <1>1, <3>1 DEF Ahead, At, Before
    <3>3. \A i \in DOMAIN j.batch : j.batch[i].event = m => i = j.at
      BY <1>1, <3>1 DEF Apart, At
    <3>4. ~Ahead(job'[w], m) BY <1>2, <2>2, <3>3
    <3> QED BY <3>1, <3>2, <3>4
  <2> QED BY <2>3, <2>4 DEF j
<1> QED BY <1>3, <1>4 DEF Turn

\* Every step keeps emails, and those to come, within the receipts.
LEMMA NextSendsOnce ==
    ASSUME IInv, IInv', OneEmail, [Next]_vars
    PROVE  OneEmail'
<1>1. TypeOK /\ Orderly /\ TypeOK' BY DEF IInv
<1>2. SUFFICES ASSUME NEW m \in Event
               PROVE  /\ IsFiniteSet(AheadOf(m)')
                      /\ emails'[m] + Cardinality(AheadOf(m)') <= Budget(m)'
  BY DEF OneEmail
<1>3. /\ emails[m] \in Nat /\ emails'[m] \in Nat
      /\ received[m] \in Nat /\ received'[m] \in Nat
  BY <1>1, InvoiceAssumption DEF TypeOK
<1>4. Budget(m) \in Nat /\ Budget(m)' \in Nat BY <1>3 DEF Budget
<1>5. /\ IsFiniteSet(AheadOf(m))
      /\ emails[m] + Cardinality(AheadOf(m)) <= Budget(m)
  BY DEF OneEmail
<1> DEFINE goal == Adds(AheadOf(m), AheadOf(m)', emails[m], emails'[m],
                        Budget(m), Budget(m)')
<1>6. SUFFICES goal BY <1>3, <1>4, <1>5, SumsStay
<1>7. CASE UNCHANGED vars BY <1>4, <1>7 DEF Adds, vars, AheadOf, Budget
<1>8. ASSUME NEW n \in Event, Publish(n) \/ Expire(n) \/ Redrive(n)
      PROVE  goal
  <2>1. UNCHANGED <<received, emails, job>>
    BY <1>8 DEF Publish, Expire, Redrive
  <2>2. queue[m] \in {"posted", "answered", "rejected"} =>
          queue'[m] = queue[m]
    BY <1>1, <1>8 DEF Publish, Expire, Redrive, TypeOK
  <2> QED BY <1>3, <2>1, <2>2 DEF Adds, AheadOf, Budget
<1>9. ASSUME NEW w \in Consumer, Receive(w)
      PROVE  goal
  <2>1. PICK s \in JobState : Takes(w, s) BY <1>1, <1>9, ReceiveTakes
  <2>2. UNCHANGED emails BY <1>1, <1>9, ReceiveTakes
  <2>3. AheadOf(m)' \subseteq AheadOf(m) \cup {w}
    BY <2>1 DEF AheadOf, Takes, Becomes
  <2>4. CASE \E i \in DOMAIN s.batch : s.batch[i].event = m
    <3>1. /\ queue[m] = "visible" /\ queue'[m] = "taken"
          /\ received'[m] = received[m] + 1
      BY <2>1, <2>4 DEF Takes
    <3>2. Budget(m)' >= Budget(m) + 1 BY <1>3, <3>1 DEF Budget
    <3> QED BY <2>2, <2>3, <3>2 DEF Adds
  <2>5. CASE \A i \in DOMAIN s.batch : s.batch[i].event # m
    <3>1. queue'[m] = queue[m] /\ received'[m] = received[m]
      BY <2>1, <2>5 DEF Takes
    <3>2. ~Ahead(job'[w], m) BY <2>1, <2>5 DEF Ahead, Takes, Becomes
    <3>3. AheadOf(m)' \subseteq AheadOf(m)
      BY <2>1, <3>2 DEF AheadOf, Takes, Becomes
    <3>4. Budget(m)' >= Budget(m) BY <1>3, <3>1 DEF Budget
    <3> QED BY <2>2, <3>3, <3>4 DEF Adds
  <2> QED BY <2>4, <2>5
<1>10. ASSUME NEW w \in Consumer, NEW n \in Event, Post(w, n)
       PROVE  goal
  <2>1. PICK s \in JobState : Serves(w, s, n) BY <1>1, <1>10, PostTakes
  <2>2. UNCHANGED <<received, emails>> BY <1>1, <1>10, PostTakes
  <2>3. CASE n = m
    <3>1. AheadOf(m)' \subseteq AheadOf(m) \cup {w}
      BY <2>1 DEF AheadOf, Serves, Becomes
    <3>2. Budget(m)' >= Budget(m) + 1
      BY <1>3, <2>1, <2>2, <2>3 DEF Budget, Serves
    <3> QED BY <2>2, <3>1, <3>2 DEF Adds
  <2>4. CASE n # m
    <3>1. ~Ahead(job'[w], m) BY <2>1, <2>4 DEF Ahead, Serves, Becomes
    <3>2. AheadOf(m)' \subseteq AheadOf(m)
      BY <2>1, <3>1 DEF AheadOf, Serves, Becomes
    <3>3. Budget(m)' >= Budget(m)
      BY <1>3, <2>1, <2>2, <2>4 DEF Budget, Serves
    <3> QED BY <2>2, <3>2, <3>3 DEF Adds
  <2> QED BY <2>3, <2>4
<1>11. ASSUME NEW w \in Consumer, Turn(w)
       PROVE  goal
  <2>1. /\ Ahead(job'[w], m) => Ahead(job[w], m)
        /\ emails'[m] # emails[m] =>
              /\ emails'[m] = emails[m] + 1
              /\ Ahead(job[w], m) /\ ~Ahead(job'[w], m)
    BY <1>1, <1>11, TurnsSendOnce
  <2>2. \A v \in Consumer \ {w} : job'[v] = job[v]
    BY <1>11 DEF Turn, Rests, Ends, Becomes
  <2>3. AheadOf(m)' \subseteq AheadOf(m) BY <2>1, <2>2 DEF AheadOf
  <2>4. Budget(m)' >= Budget(m)
    BY <1>3, <1>11 DEF Budget, Turn, Rests, Clears
  <2>5. CASE emails'[m] # emails[m]
    <3>1. w \in AheadOf(m) /\ AheadOf(m)' \subseteq AheadOf(m) \ {w}
      BY <2>1, <2>2, <2>5 DEF AheadOf
    <3> QED BY <2>1, <2>4, <2>5, <3>1 DEF Adds
  <2> QED BY <2>3, <2>4, <2>5 DEF Adds
<1> QED BY <1>1, <1>7, <1>8, <1>9, <1>10, <1>11, StepsAre

\* At first none is sent, or to be sent.
LEMMA NoneSent ==
    ASSUME Init
    PROVE  OneEmail
<1> SUFFICES ASSUME NEW m \in Event
             PROVE  /\ IsFiniteSet(AheadOf(m))
                    /\ emails[m] + Cardinality(AheadOf(m)) <= Budget(m)
  BY DEF OneEmail
<1>1. AheadOf(m) = {} BY IdleIsTyped DEF Init, AheadOf, Ahead
<1> QED BY <1>1, FS_EmptySet DEF Init, Budget

\* An email goes out at most once for each time a consumer is shown the event.
THEOREM OneEmailPerReceipt == Spec => []OneEmailForEachReceipt
<1>1. Init => OneEmail BY NoneSent
<1>2. IInv /\ OneEmail /\ [Next]_vars => IInv' /\ OneEmail'
  BY NextKeeps, NextSendsOnce
<1>3. IInv /\ OneEmail => OneEmailForEachReceipt
  <2> SUFFICES ASSUME IInv, OneEmail, NEW m \in Event
               PROVE  emails[m] <= IF received[m] = 0 THEN 1 ELSE received[m]
    BY DEF OneEmailForEachReceipt
  <2>1. emails[m] \in Nat /\ received[m] \in Nat
    BY InvoiceAssumption DEF IInv, TypeOK
  <2>2. Cardinality(AheadOf(m)) \in Nat
    BY FS_CardinalityType DEF OneEmail
  <2>3. emails[m] <= Budget(m) BY <2>1, <2>2 DEF OneEmail, Budget
  <2>4. received[m] # 0 => queue[m] \in InQueue BY DEF IInv, Orderly, Kept
  <2> QED BY <2>1, <2>3, <2>4 DEF Budget, InQueue
<1>4. Init => IInv BY Initially
<1> QED BY <1>1, <1>2, <1>3, <1>4, PTL DEF Spec

-----------------------------------------------------------------------------
(* No invoice is lost.                                                     *)

\* The valid events that are done with, by the queue, by the request that
\* posted them or by a consumer, and have no email.
Skipped ==
    {m \in Event : /\ Valid(m) /\ emails[m] = 0
                   /\ \/ queue[m] \in {"deleted", "answered"}
                      \/ \E w \in Consumer : Past(job[w], m)}

SkipsAreFaults == IsFiniteSet(Skipped) /\ Cardinality(Skipped) <= faults

\* A turn is done with the event it was at and no other.
LEMMA TurnsPassOne ==
    ASSUME TypeOK, Orderly, NEW w \in Consumer, Turn(w), NEW m \in Event
    PROVE  /\ Past(job'[w], m) =>
                 \/ Past(job[w], m)
                 \/ m = At(job[w]) /\ ~Rests(w)
           /\ job[w].step \in After => Past(job[w], At(job[w]))
<1> DEFINE j == job[w]
<1>1. j \in JobState /\ j.at \in DOMAIN j.batch
  BY JobsAreTyped DEF Turn
<1>2. (\A i \in DOMAIN j.batch : i \in Nat) /\ j.at \in Nat BY <1>1, Batches
<1> HIDE DEF j
<1>3. j.step \in After => Past(j, At(j)) BY <1>1 DEF Past, At
<1>4. CASE Becomes(w, Idle) /\ ~Rests(w)
  BY <1>3, <1>4, IdleIsTyped DEF Becomes, Past, j
<1>5. CASE Becomes(w, GoesOn(j)) /\ ~Rests(w)
  <2>1. /\ job'[w].batch = j.batch /\ job'[w].at = j.at + 1
        /\ job'[w].step = "parse"
    BY <1>1, <1>5, GoesOnIsTyped DEF Becomes
  <2>2. \A i \in DOMAIN j.batch : i < j.at + 1 => i < j.at \/ i = j.at BY <1>2
  <2>3. Past(job'[w], m) => Past(j, m) \/ m = At(j)
    BY <2>1, <2>2 DEF Past, At, After
  <2> QED BY <1>3, <1>5, <2>3 DEF j
<1>6. ASSUME NEW step \in After, Becomes(w, Stays(j, step)), ~Rests(w)
      PROVE  Past(job'[w], m) => Past(j, m) \/ m = At(j)
  <2>1. step \in Step BY DEF After, Step
  <2>2. job'[w].batch = j.batch /\ job'[w].at = j.at
    BY <1>1, <1>6, <2>1, StaysIsTyped DEF Becomes
  <2> QED BY <2>2 DEF Past, At
<1>7. CASE Rests(w)
  <2>1. PICK step \in Before : Becomes(w, Stays(j, step)) BY <1>7 DEF Rests, j
  <2>2. step \in Step /\ step \notin After BY DEF Before, After, Step
  <2>3. /\ job'[w].batch = j.batch /\ job'[w].at = j.at
        /\ job'[w].step = step
    BY <1>1, <2>1, <2>2, StaysIsTyped DEF Becomes
  <2> QED BY <1>3, <2>2, <2>3 DEF Past, j
<1> QED BY <1>3, <1>4, <1>5, <1>6, <1>7 DEF Turn, Ends, j

\* A step skips at most one event more, and then there is a fault more.
LEMMA NextSkipsFaults ==
    ASSUME IInv, IInv', SkipsAreFaults, [Next]_vars
    PROVE  SkipsAreFaults'
<1>1. TypeOK /\ Orderly /\ TypeOK' BY DEF IInv
<1>2. faults \in Nat /\ faults' \in Nat /\ 0 \in Nat
  BY <1>1, InvoiceAssumption DEF TypeOK
<1> DEFINE goal == Adds(Skipped, Skipped', 0, 0, faults, faults')
<1>3. SUFFICES goal
  <2>1. IsFiniteSet(Skipped) /\ Cardinality(Skipped) \in Nat
        /\ 0 + Cardinality(Skipped) <= faults
    BY FS_CardinalityType DEF SkipsAreFaults
  <2>2. IsFiniteSet(Skipped') /\ 0 + Cardinality(Skipped') <= faults'
    BY <1>2, <1>3, <2>1, SumsStay
  <2>3. Cardinality(Skipped') \in Nat BY <2>2, FS_CardinalityType
  <2> QED BY <1>2, <2>2, <2>3 DEF SkipsAreFaults
<1>4. CASE UNCHANGED vars
  BY <1>2, <1>4 DEF Adds, vars, Skipped, Past, Valid
<1>5. ASSUME NEW n \in Event, Publish(n) \/ Expire(n) \/ Redrive(n)
      PROVE  goal
  <2>1. UNCHANGED <<emails, job>> /\ faults' >= faults
    BY <1>2, <1>5 DEF Publish, Expire, Redrive, Happens
  <2>2. \A m \in Event : queue'[m] \in {"deleted", "answered"} =>
          queue'[m] = queue[m]
    BY <1>1, <1>5 DEF Publish, Expire, Redrive, TypeOK
  <2>3. Skipped' \subseteq Skipped BY <2>1, <2>2 DEF Skipped, Past, Valid
  <2> QED BY <2>1, <2>3 DEF Adds
<1>6. ASSUME NEW w \in Consumer, Receive(w)
      PROVE  goal
  <2>1. PICK s \in JobState : Takes(w, s) BY <1>1, <1>6, ReceiveTakes
  <2>2. UNCHANGED <<emails, faults>> BY <1>1, <1>6, ReceiveTakes
  <2>3. \A m \in Event : queue'[m] = "taken" \/ queue'[m] = queue[m]
    BY <2>1 DEF Takes
  <2>4. \A m : ~Past(job'[w], m)
    <3>1. \A i \in DOMAIN s.batch : ~(i < s.at) BY <2>1, Batches DEF Takes
    <3> QED BY <2>1, <3>1 DEF Past, Takes, Becomes, After
  <2>5. \A v \in Consumer \ {w} : job'[v] = job[v]
    BY <2>1 DEF Takes, Becomes
  <2>6. Skipped' \subseteq Skipped
    BY <2>2, <2>3, <2>4, <2>5 DEF Skipped, Valid
  <2> QED BY <1>2, <2>2, <2>6 DEF Adds
<1>7. ASSUME NEW w \in Consumer, NEW n \in Event, Post(w, n)
      PROVE  goal
  <2>1. PICK s \in JobState : Serves(w, s, n) BY <1>1, <1>7, PostTakes
  <2>2. UNCHANGED <<emails, faults>> BY <1>1, <1>7, PostTakes
  <2>3. \A m \in Event : queue'[m] = "posted" \/ queue'[m] = queue[m]
    BY <2>1 DEF Serves
  <2>4. \A m : ~Past(job'[w], m)
    BY <2>1 DEF Past, Serves, Becomes, After
  <2>5. \A v \in Consumer \ {w} : job'[v] = job[v]
    BY <2>1 DEF Serves, Becomes
  <2>6. Skipped' \subseteq Skipped
    BY <2>2, <2>3, <2>4, <2>5 DEF Skipped, Valid
  <2> QED BY <1>2, <2>2, <2>6 DEF Adds
<1>8. ASSUME NEW w \in Consumer, Turn(w)
      PROVE  goal
  <2> DEFINE e == At(job[w])
  <2>1. e \in Event /\ faults' \in {faults, faults + 1}
    BY <1>1, <1>8, HandlersPost DEF Turn
  <2>2. \A v \in Consumer \ {w} : job'[v] = job[v]
    BY <1>8 DEF Turn, Rests, Ends, Becomes
  <2>3. ASSUME NEW m \in Event, emails'[m] = 0 PROVE emails[m] = 0
    <3>1. emails[m] \in Nat BY <1>1 DEF TypeOK
    <3> QED BY <1>1, <1>8, <2>3, <3>1, TurnsSendOnce
  <2>4. ASSUME NEW m \in Skipped', m \notin Skipped
        PROVE  m = e /\ ~Rests(w)
    <3>1. /\ m \in Event /\ Valid(m) /\ emails'[m] = 0 /\ emails[m] = 0
          /\ queue[m] \notin {"deleted", "answered"}
          /\ \A v \in Consumer : ~Past(job[v], m)
      BY <2>3, <2>4 DEF Skipped, Valid
    <3>2. CASE queue'[m] \in {"deleted", "answered"}
      BY <1>8, <3>1, <3>2 DEF Turn, Rests, Clears
    <3>3. CASE \E v \in Consumer : Past(job'[v], m)
      <4>1. Past(job'[w], m) BY <2>2, <3>1, <3>3
      <4> QED BY <1>1, <1>8, <3>1, <4>1, TurnsPassOne
    <3> QED BY <2>4, <3>2, <3>3 DEF Skipped
  <2>5. ASSUME e \in Skipped', e \notin Skipped PROVE faults' # faults
    <3>1. Valid(e) /\ emails'[e] = 0 /\ emails[e] = 0
      BY <2>1, <2>3, <2>5 DEF Skipped, Valid
    <3>2. ~Past(job[w], e) BY <2>1, <2>5, <3>1 DEF Skipped
    <3>3. job[w].step \notin After BY <1>1, <1>8, <2>1, <3>2, TurnsPassOne
    <3>4. Accounts(w) BY <1>8, <2>4, <2>5 DEF Turn
    <3>5. ~(emails'[e] > 0) BY <3>1
    <3> QED BY <3>1, <3>3, <3>4, <3>5 DEF Accounts
  <2> HIDE DEF e
  <2>6. CASE faults' = faults
    <3>1. Skipped' \subseteq Skipped BY <2>4, <2>5, <2>6
    <3> QED BY <1>2, <2>6, <3>1 DEF Adds
  <2>7. CASE faults' = faults + 1
    <3>1. Skipped' \subseteq Skipped \cup {e} BY <2>4
    <3> QED BY <1>2, <2>7, <3>1 DEF Adds
  <2> QED BY <2>1, <2>6, <2>7
<1> QED BY <1>1, <1>4, <1>5, <1>6, <1>7, <1>8, StepsAre

\* A message that can be parsed leaves only when its PDF has been written, and
\* each one that leaves without an email has a failure of its own behind it.
THEOREM NoneIsLost == Spec => []NoInvoiceIsLost
<1>1. Init => IInv BY Initially
<1>2. Init => SkipsAreFaults
  <2> SUFFICES ASSUME Init PROVE SkipsAreFaults
    OBVIOUS
  <2>1. \A w \in Consumer : \A m : ~Past(job[w], m)
    BY IdleIsTyped DEF Init, Past
  <2>2. Skipped = {} BY <2>1 DEF Init, Skipped
  <2> QED BY <2>2, FS_EmptySet DEF Init, SkipsAreFaults
<1>3. IInv /\ SkipsAreFaults /\ [Next]_vars => IInv' /\ SkipsAreFaults'
  BY NextKeeps, NextSkipsFaults
<1>4. IInv /\ SkipsAreFaults => NoInvoiceIsLost
  <2> SUFFICES ASSUME IInv, SkipsAreFaults PROVE NoInvoiceIsLost
    OBVIOUS
  <2> DEFINE gone == {m \in Event : queue[m] \in {"deleted", "answered"}}
             S == {m \in gone : Valid(m) /\ emails[m] = 0}
  <2>1. \A m \in gone : m \in written \/ KindOf[m] = "unparsable"
    BY DEF IInv, Orderly, Kept
  <2>2. S \subseteq Skipped BY DEF Skipped
  <2>3. /\ Cardinality(Skipped) \in Nat /\ Cardinality(Skipped) <= faults
        /\ faults \in Nat
    BY FS_CardinalityType, InvoiceAssumption DEF SkipsAreFaults, IInv, TypeOK
  <2>4. /\ IsFiniteSet(S) /\ Cardinality(S) <= Cardinality(Skipped)
        /\ Cardinality(S) \in Nat
    BY <2>2, FS_Subset, FS_CardinalityType DEF SkipsAreFaults
  <2>5. Cardinality(S) <= faults BY <2>3, <2>4
  <2> QED BY <2>1, <2>5 DEF NoInvoiceIsLost
<1> QED BY <1>1, <1>2, <1>3, <1>4, PTL DEF Spec

-----------------------------------------------------------------------------
(* Faults behind repeats.                                                  *)

\* A consumer of the queue is still to work on the last receipt of a message,
\* and a turn without a fault lets go of no valid one that it has not deleted.
Holds(w, j, i) ==
    /\ w \notin Handler /\ i \in DOMAIN j.batch
    /\ j.batch[i].receipt = received[j.batch[i].event]
    /\ w \in Invocation \/ i >= j.at

Releases(w) ==
    \A i \in DOMAIN job[w].batch :
        LET m == job[w].batch[i].event IN
        Valid(m) /\ queue[m] = "taken" /\ Holds(w, job[w], i) =>
            \/ queue'[m] = "deleted"
            \/ job'[w].batch = job[w].batch /\ Holds(w, job'[w], i)

\* This is what Held says,
LEMMA HeldIsHolding ==
    ASSUME TypeOK, NEW m \in Event
    PROVE  Held(m) <=> \E w \in Consumer : \E i \in DOMAIN job[w].batch :
                          job[w].batch[i].event = m /\ Holds(w, job[w], i)
<1>1. ASSUME NEW w \in Consumer, NEW i \in DOMAIN job[w].batch
      PROVE  job[w].batch[i] = [event |-> m, receipt |-> received[m]] <=>
               /\ job[w].batch[i].event = m
               /\ job[w].batch[i].receipt = received[m]
  <2>1. job[w].batch[i] \in Message BY <1>1, JobsAreTyped, Batches
  <2> QED BY <2>1 DEF Message
<1>2. \A w : w \in Poller \cup Invocation <=> w \in Consumer /\ w \notin Handler
  BY InvoiceAssumption DEF Consumer
<1> QED BY <1>1, <1>2 DEF Held, Holds

\* before a step and after it.
LEMMA HeldHolds ==
    ASSUME TypeOK', NEW m \in Event, NEW w \in Consumer,
           NEW i \in DOMAIN job'[w].batch,
           job'[w].batch[i].event = m, Holds(w, job[w], i)'
    PROVE  Held(m)'
<1>1. job' \in [Consumer -> JobState] BY DEF TypeOK, JobState
<1>2. job'[w] \in JobState BY <1>1
<1>3. job'[w].batch[i] \in Message BY <1>2, Batches
<1>4. job'[w].batch[i] = [event |-> m, receipt |-> received'[m]]
  BY <1>3 DEF Message, Holds
<1>5. w \in Poller \cup Invocation BY DEF Holds, Consumer
<1> QED BY <1>4, <1>5 DEF Held, Holds

\* Consumers whose jobs do not change hold what they held.
LEMMA OthersHold ==
    ASSUME TypeOK, TypeOK', NEW w \in Consumer, DOMAIN job[w].batch = {},
           \A v \in Consumer \ {w} : job'[v] = job[v],
           NEW m \in Event, received'[m] = received[m], Held(m)
    PROVE  Held(m)'
<1>1. PICK v \in Poller \cup Invocation : \E i \in DOMAIN job[v].batch :
        /\ job[v].batch[i] = [event |-> m, receipt |-> received[m]]
        /\ v \in Invocation \/ i >= job[v].at
  BY DEF Held
<1>2. v # w /\ v \in Consumer BY <1>1 DEF Consumer
<1>3. job'[v] = job[v] BY <1>2
<1> QED BY <1>1, <1>3 DEF Held

\* A turn that stays at its event, or goes on in a Lambda, lets go of nothing.
LEMMA StayReleases ==
    ASSUME TypeOK, NEW w \in Consumer, received' = received,
           \/ \E step \in Step : Becomes(w, Stays(job[w], step))
           \/ w \in Invocation /\ Becomes(w, GoesOn(job[w]))
    PROVE  Releases(w)
<1>1. /\ job'[w].batch = job[w].batch
      /\ job'[w].at = job[w].at \/ w \in Invocation
  BY JobsAreTyped, StaysIsTyped, GoesOnIsTyped DEF Becomes
<1> QED BY <1>1 DEF Releases, Holds

\* Neither does a poller that goes on, or has come to the end, if its event
\* is not valid or is deleted.
LEMMA AdvanceReleases ==
    ASSUME TypeOK, Orderly, NEW w \in Poller, w \in Consumer,
           received' = received, job[w].step # "idle", Advance(w, Idle),
           LET j == job[w] m == At(j) IN
           \/ ~Valid(m)
           \/ queue[m] = "taken" /\ j.batch[j.at].receipt = received[m]
                => queue'[m] = "deleted"
    PROVE  Releases(w)
<1> DEFINE j == job[w]
<1>1. /\ j \in JobState /\ j.at \in DOMAIN j.batch /\ w \notin Invocation
  BY JobsAreTyped, InvoiceAssumption
<1>2. /\ \A i \in DOMAIN j.batch : i \in Nat /\ i <= Len(j.batch)
      /\ j.at \in Nat /\ Len(j.batch) \in Nat
  BY <1>1, Batches
<1>3. SUFFICES ASSUME NEW i \in DOMAIN j.batch, Holds(w, j, i),
                      Valid(j.batch[i].event),
                      queue[j.batch[i].event] = "taken"
               PROVE  \/ queue'[j.batch[i].event] = "deleted"
                      \/ job'[w].batch = j.batch /\ Holds(w, job'[w], i)
  BY DEF Releases
<1>4. i = j.at \/ i > j.at BY <1>1, <1>2, <1>3 DEF Holds
<1>5. CASE i = j.at BY <1>3, <1>5 DEF At, Holds
<1>6. CASE i > j.at
  <2>1. j.at < Len(j.batch) BY <1>2, <1>6
  <2>2. Becomes(w, GoesOn(j)) BY <2>1, AdvanceBecomes, IdleIsTyped
  <2>3. job'[w].batch = j.batch /\ job'[w].at = j.at + 1
    BY <1>1, <2>2, GoesOnIsTyped DEF Becomes
  <2>4. i >= j.at + 1 BY <1>2, <1>6
  <2> QED BY <1>3, <2>3, <2>4 DEF Holds
<1> QED BY <1>4, <1>5, <1>6

\* A turn without a fault and without a bad message about lets go of no
\* valid message that it has not deleted.
LEMMA TurnReleases ==
    ASSUME TypeOK, Orderly, NEW w \in Consumer, Work(w) \/ Crash(w), ~Poisoned,
           faults' = faults
    PROVE  Releases(w)
<1> DEFINE j == job[w]
<1>1. /\ j.step # "idle" /\ received' = received /\ faults # faults + 1
      /\ Current(w) = At(j)
  <2>1. Turn(w) BY WorkIsTurn
  <2>2. faults # faults + 1 BY InvoiceAssumption DEF TypeOK
  <2> QED BY <2>1, <2>2 DEF Turn, Current, At
<1>2. /\ j \in JobState /\ j.at \in DOMAIN j.batch /\ At(j) \in Event
      /\ Works(w, j, queue, received, written)
  BY <1>1, JobsAreTyped, HandlersPost DEF Orderly
<1>3. w \in Invocation => Valid(At(j))
  <2>1. SUFFICES ASSUME w \in Invocation PROVE Valid(At(j))
    OBVIOUS
  <2>2. w \notin Handler BY <2>1, InvoiceAssumption
  <2>3. /\ j.batch[j.at].receipt \in 1..received[At(j)]
        /\ j.batch[j.at].receipt \in Nat /\ received[At(j)] \in Nat
    BY <1>2, <2>2, Batches, InvoiceAssumption DEF Works, Shown, At, TypeOK
  <2>4. received[At(j)] > 0 BY <2>3
  <2> QED BY <1>2, <2>1, <2>4 DEF Poisoned
<1>4. CASE w \in Handler BY <1>4 DEF Releases, Holds
<1>5. \A step \in Step : Goto(w, step) => Releases(w)
  BY <1>1, GotoBecomes, StayReleases
<1>6. CASE Parse(w) /\ w \notin Handler
  <2>1. CASE Fail(w) /\ ~Valid(At(j))
    <3>1. w \in Poller /\ Advance(w, Idle)
      BY <1>3, <1>6, <2>1 DEF Fail, Consumer
    <3> QED BY <1>1, <2>1, <3>1, AdvanceReleases
  <2>2. CASE Goto(w, "pdf") \/ Goto(w, "delete") BY <1>5, <2>2 DEF Step
  <2> QED BY <1>1, <1>6, <2>1, <2>2 DEF Parse, Valid
<1>7. CASE WritePdf(w)
  <2>1. ~Happens("disk") BY <1>1 DEF Happens
  <2> QED BY <1>5, <1>7, <2>1 DEF WritePdf, Step
<1>8. CASE Upload(w) BY <1>5, <1>8 DEF Upload, Step
<1>9. CASE Email(w) /\ w \notin Handler
  <2>1. CASE Goto(w, "delete") BY <1>5, <2>1 DEF Step
  <2>2. CASE w \in Invocation /\ Advance(w, [j EXCEPT !.step = "finish"])
    <3> DEFINE last == [j EXCEPT !.step = "finish"]
    <3>1. last = Stays(j, "finish") /\ last \in JobState
      BY <1>2, StaysIsTyped DEF Stays, Step
    <3>2. Becomes(w, GoesOn(j)) \/ Becomes(w, last)
      BY <2>2, <3>1, AdvanceBecomes
    <3> HIDE DEF last
    <3> QED BY <1>1, <2>2, <3>1, <3>2, StayReleases DEF Step
  <2> QED BY <1>9, <2>1, <2>2 DEF Email, Succeed
<1>10. CASE Delete(w)
  <2> DEFINE mine == {j.batch[j.at]}
  <2>1. /\ w \in Poller /\ Advance(w, Idle) /\ queue' \in AfterDeleting(mine)
    <3>1. ~Happens("delete") BY <1>1 DEF Happens
    <3>2. w \in Poller BY <1>2, <1>10 DEF Delete, Works, Prepared
    <3> QED BY <1>10, <3>1, <3>2 DEF Delete
  <2>2. mine \in SUBSET Message BY <1>2, Batches
  <2>3. queue[At(j)] = "taken" /\ j.batch[j.at].receipt = received[At(j)]
          => queue'[At(j)] = "deleted"
    BY <2>1, <2>2, Deleting DEF At
  <2> QED BY <1>1, <2>1, <2>3, AdvanceReleases
<1>11. CASE Finish(w)
  <2> DEFINE all == Range(j.batch)
  <2>1. queue' \in AfterDeleting(all) BY <1>11 DEF Finish
  <2>2. all \in SUBSET Message BY <1>2, Batches DEF Range
  <2>3. \A i \in DOMAIN j.batch : j.batch[i] \in all BY DEF Range
  <2> HIDE DEF all
  <2>4. ASSUME NEW i \in DOMAIN j.batch, Holds(w, j, i),
               queue[j.batch[i].event] = "taken"
        PROVE  queue'[j.batch[i].event] = "deleted"
    BY <2>1, <2>2, <2>3, <2>4, Deleting DEF Holds
  <2> QED BY <2>4 DEF Releases
<1>12. CASE Crash(w) BY <1>1, <1>12 DEF Crash, Happens
<1> QED BY <1>4, <1>6, <1>7, <1>8, <1>9, <1>10, <1>11, <1>12 DEF Work

\* Without a bad message about, a valid event has been received no more often
\* than there have been faults, but for the receipt that is being worked on or
\* has deleted it.
Used(m) == IF queue[m] = "deleted" \/ (queue[m] = "taken" /\ Held(m))
             THEN 1 ELSE 0

Explained ==
    Poisoned \/ \A m \in Event : Valid(m) => received[m] <= faults + Used(m)

\* Every step keeps receipts within the faults.
LEMMA NextExplains ==
    ASSUME IInv, IInv', Explained, [Next]_vars
    PROVE  Explained'
<1>1. TypeOK /\ Orderly /\ TypeOK' BY DEF IInv
<1>2. /\ faults \in Nat /\ faults' \in Nat
      /\ \A n \in Event : received[n] \in Nat /\ received'[n] \in Nat
  BY <1>1, InvoiceAssumption DEF TypeOK
<1>3. SUFFICES ASSUME ~Poisoned', NEW m \in Event, Valid(m)
               PROVE  received'[m] <= faults' + Used(m)'
  BY DEF Explained, Valid
<1>4. Used(m) \in {0, 1} /\ Used(m)' \in {0, 1} BY DEF Used
<1>5. Kept(m) BY <1>1 DEF Orderly
<1>6. ASSUME received[m] <= faults + Used(m)
      PROVE  received'[m] <= faults' + Used(m)'
  <2>1. CASE UNCHANGED vars BY <1>6, <2>1 DEF vars, Used, Held
  <2>2. ASSUME NEW n \in Event, Publish(n) \/ Expire(n) \/ Redrive(n)
        PROVE  received'[m] <= faults' + Used(m)'
    <3>1. UNCHANGED <<received, job>> /\ faults' >= faults
      BY <1>2, <2>2 DEF Publish, Expire, Redrive, Happens
    <3>2. Held(m)' <=> Held(m) BY <3>1 DEF Held
    <3>3. CASE n # m
      <4>1. queue'[m] = queue[m]
        BY <1>1, <2>2, <3>3 DEF Publish, Expire, Redrive, TypeOK
      <4> QED BY <1>2, <1>4, <1>6, <3>1, <3>2, <4>1 DEF Used
    <3>4. CASE n = m /\ Publish(m)
      <4>1. received[m] = 0 BY <1>5, <3>4 DEF Publish, Kept, InQueue
      <4> QED BY <1>2, <1>4, <3>1, <4>1
    <3>5. CASE n = m /\ Expire(m)
      <4>1. CASE Held(m)
        <5>1. faults' = faults + 1 BY <3>5, <4>1 DEF Expire, Happens
        <5> QED BY <1>2, <1>4, <1>6, <3>1, <5>1
      <4>2. CASE ~Held(m)
        <5>1. Used(m) = 0 BY <3>5, <4>2 DEF Expire, Used
        <5> QED BY <1>2, <1>4, <1>6, <3>1, <5>1
      <4> QED BY <4>1, <4>2
    <3>6. CASE n = m /\ Redrive(m)
      <4>1. Used(m) = 0 BY <3>6 DEF Redrive, Used
      <4> QED BY <1>2, <1>4, <1>6, <3>1, <4>1
    <3> QED BY <2>2, <3>3, <3>4, <3>5, <3>6
  <2>3. ASSUME NEW w \in Consumer, Receive(w)
        PROVE  received'[m] <= faults' + Used(m)'
    <3>1. PICK s \in JobState : Takes(w, s) BY <1>1, <2>3, ReceiveTakes
    <3>2. UNCHANGED faults /\ w \notin Handler /\ job[w].step = "idle"
      BY <1>1, <2>3, ReceiveTakes
    <3>3. CASE \E i \in DOMAIN s.batch : s.batch[i].event = m
      <4>1. PICK i \in DOMAIN s.batch : s.batch[i].event = m BY <3>3
      <4>2. /\ queue[m] = "visible" /\ queue'[m] = "taken"
            /\ received'[m] = received[m] + 1
            /\ s.batch[i].receipt = received'[m]
        BY <3>1, <4>1 DEF Takes
      <4>3. i >= s.at BY <3>1, Batches DEF Takes
      <4>4. job'[w] = s BY <3>1 DEF Takes, Becomes
      <4>5. Held(m)'
        <5>1. \E v \in Consumer : \E k \in DOMAIN job'[v].batch :
                job'[v].batch[k].event = m /\ Holds(v, job[v], k)'
          BY <3>2, <4>1, <4>2, <4>3, <4>4 DEF Holds
        <5> QED BY <1>1, <5>1, HeldHolds
      <4>6. Used(m) = 0 /\ Used(m)' = 1 BY <4>2, <4>5 DEF Used
      <4> QED BY <1>2, <1>6, <3>2, <4>2, <4>6
    <3>4. CASE \A i \in DOMAIN s.batch : s.batch[i].event # m
      <4>1. queue'[m] = queue[m] /\ received'[m] = received[m]
        BY <3>1, <3>4 DEF Takes
      <4>2. DOMAIN job[w].batch = {}
        BY <1>1, <3>2, IdleIsTyped DEF Orderly, Works
      <4>3. \A v \in Consumer \ {w} : job'[v] = job[v]
        BY <3>1 DEF Takes, Becomes
      <4>4. Held(m) => Held(m)' BY <1>1, <4>1, <4>2, <4>3, OthersHold
      <4> QED BY <1>2, <1>4, <1>6, <3>2, <4>1, <4>4 DEF Used
    <3> QED BY <3>3, <3>4
  <2>4. ASSUME NEW w \in Consumer, NEW n \in Event, Post(w, n)
        PROVE  received'[m] <= faults' + Used(m)'
    <3>1. PICK s \in JobState : Serves(w, s, n) BY <1>1, <2>4, PostTakes
    <3>2. UNCHANGED <<received, faults>> BY <1>1, <2>4, PostTakes
    <3>3. CASE n = m
      <4>1. received[m] = 0 BY <1>5, <3>1, <3>3 DEF Serves, Kept, InQueue
      <4> QED BY <1>2, <1>4, <3>2, <4>1
    <3>4. CASE n # m
      <4>1. queue'[m] = queue[m] BY <3>1, <3>4 DEF Serves
      <4>2. DOMAIN job[w].batch = {}
        BY <1>1, <2>4, IdleIsTyped DEF Post, Orderly, Works
      <4>3. \A v \in Consumer \ {w} : job'[v] = job[v]
        BY <3>1 DEF Serves, Becomes
      <4>4. Held(m) => Held(m)' BY <1>1, <3>2, <4>2, <4>3, OthersHold
      <4> QED BY <1>2, <1>4, <1>6, <3>2, <4>1, <4>4 DEF Used
    <3> QED BY <3>3, <3>4
  <2>5. ASSUME NEW w \in Consumer, Work(w) \/ Crash(w)
        PROVE  received'[m] <= faults' + Used(m)'
    <3>1. Turn(w) BY <1>1, <2>5, WorkIsTurn
    <3>2. received' = received /\ faults' \in {faults, faults + 1}
      BY <3>1 DEF Turn
    <3>3. CASE faults' = faults + 1
      BY <1>2, <1>4, <1>6, <3>2, <3>3
    <3>4. CASE faults' = faults
      <4>1. ~Poisoned BY <1>3, <3>2 DEF Poisoned, Valid
      <4>2. Releases(w) BY <1>1, <2>5, <3>4, <4>1, TurnReleases
      <4>3. \A v \in Consumer \ {w} : job'[v] = job[v]
        BY <3>1 DEF Turn, Rests, Ends, Becomes
      <4>4. queue[m] \in {"taken", "deleted"} =>
              queue'[m] = queue[m] \/ queue'[m] = "deleted"
        BY <3>1 DEF Turn, Rests, Clears
      <4>5. Held(m) /\ queue[m] = "taken" => Held(m)' \/ queue'[m] = "deleted"
        <5>1. SUFFICES ASSUME Held(m), queue[m] = "taken",
                              queue'[m] # "deleted"
                       PROVE  Held(m)'
          OBVIOUS
        <5>2. PICK v \in Consumer : \E i \in DOMAIN job[v].batch :
                 job[v].batch[i].event = m /\ Holds(v, job[v], i)
          BY <1>1, <5>1, HeldIsHolding
        <5>3. PICK i \in DOMAIN job[v].batch :
                 job[v].batch[i].event = m /\ Holds(v, job[v], i)
          BY <5>2
        <5>4. job'[v].batch = job[v].batch /\ Holds(v, job'[v], i)
          <6>1. CASE v = w BY <1>3, <4>2, <5>1, <5>3, <6>1 DEF Releases
          <6>2. CASE v # w BY <4>3, <5>3, <6>2
          <6> QED BY <6>1, <6>2
        <5>5. i \in DOMAIN job'[v].batch /\ job'[v].batch[i].event = m
              /\ Holds(v, job[v], i)'
          BY <3>2, <5>3, <5>4 DEF Holds
        <5> QED BY <1>1, <5>5, HeldHolds
      <4>6. Used(m)' >= Used(m) BY <4>4, <4>5 DEF Used
      <4> QED BY <1>2, <1>4, <1>6, <3>2, <3>4, <4>6
    <3> QED BY <3>2, <3>3, <3>4
  <2> QED BY <2>1, <2>2, <2>3, <2>4, <2>5 DEF Next
<1>7. ~Poisoned
  <2>1. \A n \in Event : received'[n] >= received[n]
    BY <1>1, ReceivedGrows
  <2> QED BY <1>2, <1>3, <2>1 DEF Poisoned, Valid
<1> QED BY <1>3, <1>6, <1>7 DEF Explained

\* Behind a second email there is a fault, and behind a dead letter there are
\* as many as it was received, where no bad message is about.
THEOREM RepeatsAreFaults == Spec => []FaultsExplainRepeats
<1>1. Init => IInv BY Initially
<1>2. Init => OneEmail BY NoneSent
<1>3. Init => Explained
  <2> SUFFICES ASSUME Init, NEW m \in Event
               PROVE  received[m] <= faults + Used(m)
    BY DEF Explained
  <2>1. Used(m) \in {0, 1} BY DEF Used
  <2> QED BY <2>1 DEF Init
<1>4. IInv /\ OneEmail /\ Explained /\ [Next]_vars
        => IInv' /\ OneEmail' /\ Explained'
  BY NextKeeps, NextSendsOnce, NextExplains
<1>5. IInv /\ OneEmail /\ Explained => FaultsExplainRepeats
  <2> SUFFICES ASSUME IInv, OneEmail, Explained, NEW m \in Event, ~Poisoned
               PROVE  /\ emails[m] <= 1 + faults
                      /\ queue[m] = "dead" /\ Valid(m) => faults >= MaxReceive
    BY DEF FaultsExplainRepeats
  <2>1. /\ emails[m] \in Nat /\ received[m] \in Nat /\ faults \in Nat
        /\ Kept(m) /\ MaxReceive \in Nat
    BY InvoiceAssumption DEF IInv, TypeOK, Orderly
  <2>2. Used(m) \in {0, 1} BY DEF Used
  <2>3. Valid(m) => received[m] <= faults + 1
    BY <2>1, <2>2 DEF Explained
  <2>4. emails[m] <= 1 + faults
    <3>1. CASE ~Valid(m) BY <2>1, <3>1 DEF Kept
    <3>2. CASE Valid(m)
      <4>1. Cardinality(AheadOf(m)) \in Nat
        BY FS_CardinalityType DEF OneEmail
      <4>2. emails[m] <= Budget(m) BY <2>1, <4>1 DEF OneEmail, Budget
      <4> QED BY <2>1, <2>3, <3>2, <4>2 DEF Budget, Kept, InQueue
    <3> QED BY <3>1, <3>2
  <2>5. ASSUME queue[m] = "dead", Valid(m) PROVE faults >= MaxReceive
    <3>1. Used(m) = 0 BY <2>5 DEF Used
    <3> QED BY <2>1, <2>5, <3>1 DEF Explained, Kept
  <2> QED BY <2>4, <2>5
<1> QED BY <1>1, <1>2, <1>3, <1>4, <1>5, PTL DEF Spec

=============================================================================
