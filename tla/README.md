# ShopCloud, specified

TLA+ specifications of the ShopCloud services: what each keeps, what its
handlers do between two awaits, what its environment may do meanwhile, and what
stays true. TLC checks small instances (`tlc -config X.cfg MCY`), TLAPS proves
the theorems of the modules called `...Proofs`, one for each component, for every
instance (`tlapm CatalogProofs.tla`, and so on).
`PROJECT.json` maps every definition to the lines it models.

## 1. Inventory

ShopCloud is a web shop of Node services on Kubernetes (two replicas of most),
with one Redis without a volume, one Postgres, an SQS queue with a dead-letter
queue, Cognito, SSM, S3 and SES. Services call one another over HTTP with a
timeout of five seconds and no retry.

| Component | State | Operations | Talks to |
|---|---|---|---|
| catalog (`services/catalog`) | the whole inventory under one Redis key; per pod a copy in memory and `redisReady` | list, get, add, patch stock, delete, reserve | Redis |
| cart (`services/cart`) | one cart per user under a Redis key; per pod `cartsByUser`, `redisReady` | read, add, remove, clear | Redis, auth |
| checkout (`services/checkout`) | orders in Postgres or in the pod's array; `dbReady` | POST /checkout, GET /orders | auth, cart, catalog, Postgres, SQS |
| invoice-worker | PDFs on disk and in S3; the receipt of each message is the queue's state | poll loop, Lambda handler, POST /events | SQS, S3, SES |
| auth (`services/auth`) | ids of user pools read from SSM; in local mode users and `activeTokens` per pod | register, login, logout, me, admin login and MFA | SSM, Cognito |
| admin (`services/admin`) | a rate limiter per pod | the limited logins; calls passed on to catalog and checkout | auth, catalog, checkout |
| admin panel (`inventory-panel.html`) | the products a browser shows, and edits not sent yet | add, set stock, delete, refresh | admin |
| storefront (`frontend/public/app.js`) | session, page, cart list and checkout drawer of a browser | sign in and out, browse, change quantities, order | storefront proxy |
| storefront proxy (`frontend/src`) | none | passes a request on, and gives it up after five seconds | all services |
| smoke test (`scripts`) | none | one request after the other | the services |
| infrastructure (`infra`, `k8s`, workflows) | declarations | | |

How they interact. The storefront adds to a cart and asks for a checkout. The
checkout service asks auth who the user is, reads the cart, reserves its items
at the catalog, stores an order, clears the cart, answers, and only then sends
an `order.confirmed` event to SQS. The invoice worker turns that event into a
PDF and an email. The admin panel changes products through the admin service.

What is hard here, and what makes each component correct:

* **catalog.** A handler awaits between its GET and its SET of the *whole*
  document, so handlers on one pod or two interleave; a pod that loses Redis
  serves its memory until it restarts; a rejected SET ends the process. Right
  would be: stock never negative, a reservation whole or not at all, no write
  lost but by an overlap, requests end, pods come back.
* **cart.** The same pattern per user, without any try around the two commands,
  and with a client that reconnects while the service no longer uses it. Right:
  a save does just what it was asked, unless another one overlapped.
* **checkout.** Four effects in a row and none taken back; timeouts that end a
  call but not what it does; sessions that end in between, and an auth service
  that three of the calls depend on; ids that collide; orders in two places.
  Right: orders match reservations, 201 only for a stored order, 400 and 409 for
  nothing done, nothing *confirmed* twice to somebody who waits for answers.
* **invoice-worker.** At-least-once delivery, a visibility timeout shared by a
  batch of five, receipts that go stale, three entries with different ends.
  Right: nothing that can be parsed leaves the queue unprocessed, one email per
  receipt, and a message that parses and is not valid ends in the dead-letter
  queue. (One that does not parse is deleted by a poller on receipt.)
* **auth.** A configuration read parameter by parameter while the service
  already serves; a registration of several calls; tokens per pod. Right: what
  a client is told is true of the account, no token comes back, no pod goes
  back to an older pool but by a restart or a load that was overtaken.
* **storefront.** Handlers of several calls, no button disabled meanwhile, the
  session read again for each call. Right: each click changes one basket once,
  all calls are of one account, a user who waits sees the cart as it is.
* **admin, admin panel.** A limiter whose windows start with a key's first
  request, per pod, and whose key is the first value of a header that the client
  sends; absolute stock that was read a while ago; a flag that some
  buttons respect. Right: attempts under one key bounded in any stretch of time, a save that
  accounts for the reservations it overrides, a panel that is never left
  disabled.

Each hazard is listed at its line in `PROJECT.json`, with the properties that
are for it.

## 2. Modules

| Module | What it is |
|---|---|
| `InventoryDocument` | the inventory and what each operation does to it, as operators |
| `AtomicInventory` | abstract: one inventory, each request takes effect at one point |
| `Catalog` | the pods, Redis, and the events of the environment |
| `CatalogProperties` | invariants, action and liveness properties, the refinement of `AtomicInventory` |
| `CartContents`, `AtomicCart`, `CartService`, `CartProperties` | the same for the cart of one user |
| `AtomicPurchase`, `Checkout`, `CheckoutProperties` | POST /checkout, and the one step it should be |
| `InvoiceWorker`, `InvoiceProperties` | the queue and its three consumers |
| `Auth`, `AuthProperties` | configuration, registration, local tokens |
| `AtomicBasket`, `Storefront`, `StorefrontProperties` | a browser with the storefront, and what a click should be |
| `Admin`, `AdminProperties` | the admin panel in a browser over the admin service |
| `CatalogProofs`, `CartProofs`, `CheckoutProofs`, `InvoiceProofs`, `AuthProofs`, `StorefrontProofs`, `AdminProofs` | the theorems of section 4 |
| `DataLemmas` | lemmas about queues and their order, induction over finite sets, and sums, for catalog, cart and admin |
| `MCCatalog`, `MCCart`, `MCCheckout`, `MCInvoice`, `MCAuth`, `MCStorefront`, `MCAdmin` | instances for TLC |

Definitions called "mutant" next to an action are that action with a plausible
bug. No specification uses them; each shows that some property would notice.

**Catalog.** One action is what a pod does between two awaits on Redis
(`SendGet`, `ReceiveDocument`, `SendSeed`, `AnswerSaved`, ...), the execution of
one command (`ServerGet`, `ServerSet`), or one event outside. `pending` holds a
connection's commands in order, because a node-redis client pipelines: replies
come in the order of commands. A connection may also not come up at all
("unreachable"). `FallBack` and `FailToSave` are the two ends of a rejected
command: `loadInventory` has a catch, `saveInventory` has none, so
the process ends (Node 15 and later end on an unhandled rejection). The
in-memory array is shared by reference (`aliased` in `Proceed`): after it has
filled an absent key, a handler changes the pod's memory in place. A product is
its presence and its stock; a reservation has up to two lines for one product,
since two ids that differ by blanks are trimmed to the same one.
`ImplementsAtomicInventory` names the steps the one inventory does not know of:
`OnStaleCopy` (a handler goes on with a copy that Redis no longer has),
`FromMemory` (a pod without Redis) and `KeyLost`; every other step is one of its.

**CartService.** The cart of one user (users share nothing but the process).
`Disconnect` is the error event: `redisReady` is cleared, and the process ends
if a command was outstanding. `Reconnect` gives the client its socket back and,
as in the code, does nothing else. `AtFirst` are the carts Redis may hold
already. Handlers of two pods overlap here and the refinement is checked all the
same: `ImplementsAtomicCart` names the three kinds of step that the one atomic
cart does not know of, and every other step is one of its steps.

**Checkout** composes auth, cart, catalog and Postgres as services that serve a
call in one step. The five calls are `auth` (`requireAuth`), `cart`, `reserve`,
`save` and `clear`; `HaveSession`, `HaveCart`, `HaveReservation`, `OrderSaved` and
`CartCleared` are what the handler does after each. `hasEmail` are the users whose
session has a usable email; `Malformed` the items that the cart takes and the
catalog answers with 400 (an id of blanks). The cart service asks auth for itself
again. `FailAuth` is an auth service that cannot be asked by the checkout, or
by the cart on its behalf: the catch of both is `error.status || 401`, so that a live
session is answered 401, a failure and not a refusal. A call to auth
that is lost or slow ends likewise (`StatusOf`). `CartService` and `Catalog` say when that is so:
`ImplementsAtomicCart` and `ImplementsAtomicInventory` allow exceptions only to
handlers that overlap, to a pod's memory and to lost data, and `catalog_overlap`
shows what such a handler may do. A call is
`sent`, `served`, `refused`, `failed` or `lost` independently of whether its
handler still waits (`unverified` is the answer of `FailAuth`), so a reservation may be made after its checkout was
answered 500. An item is a unit of stock that is put in a cart once, which
makes it possible to say that the same item was bought twice; the catalog only
counts. `HangInsert` is a Postgres that takes the INSERT and never answers: the one
call without a timeout. `AddItem`, `SignIn` and `SignOut` are the cart's and the auth service's
handlers as far as a checkout can see them.

**InvoiceWorker.** `Receive` shows messages and counts the receipt, `Expire`
makes them visible again (at once when nobody will work on that receipt any
more, and as a fault of kind "slow" before), `Redrive` moves them to the
dead-letter queue. `Succeed` and `Fail` are what each entry makes of the end of
`processInvoiceEvent`. A deletion with a receipt that is not the last one may or
may not delete, as SQS has it.

**Auth.** Pools and clients are numbered by generation. Each step of
`loadAuthConfigFromSsm` reads one parameter; the assignment is one step at the
end. Loads of one pod overlap freely, the one at its start with those that logins
begin; the history variable `overtaken` holds the loads that had read and not
assigned when another one assigned (`Overtakes`). The handler of a registration
keeps the ids it started with, and Cognito's calls may fail with or without
having been carried out; a SignUp whose reply is lost is answered 409 by its
repetition, or 400 when the repetitions are used up.

**Storefront.** A handler of a button is the list of its calls (`Calls`), of
which it makes one after the other while the user goes on clicking. `GoOn` reads
the session again for the next call, as `request` and `getUserId` do, and ends
the handler when the page knows no user. That need not mean that nobody is signed in:
with Cognito the answers to login and registration bring a token and no user
(`SessionsAfter`), and until `/api/auth/me` is answered, for good if it fails, the
page has the one without the other; it draws the cart empty (`OpenCart`, `DrawnEmpty`).
Both pages, that of the local mode and that of Cognito, are in the one model. The cart service serves a call in two
steps, the load and the save of the whole cart (a clear is one); the
checkout service reads the cart and later clears it. `Fail` is a call that
fails or that the proxy gives up, and `late` is what the service still does of
it. The open drawer covers the page (`styles.css`), so only its own
buttons can be clicked. `calm` is a history variable: since the cart was last asked for
at rest, handlers ran one at a time and no call failed. A change of quantity
consists of a removal and an addition; the refinement mapping gives the item
between the two back to the basket, so the click takes effect at the second.

**Admin.** The panel's handlers, each with the one or two calls it makes; the
limiter of a pod (`Limited`, with its window and count per key); the token
check (`RequireAdmin`); and the catalog as the atomic inventory, from which
customers reserve meanwhile (`Reserve`). `busy` disables the buttons
above the table and not those in its rows, as in the page. `RateLimitKey` is the first value of
X-Forwarded-For, or the address when there is none: whoever is asked chooses the header
of each attempt, the load balancer only appends to it, so one address may use many
keys and many addresses one. A `Slot` is a pod and a key. `OtherAttempt` is an attempt
of anybody else under a key. History: `admitted` counts attempts by time,
`reserved` what customers took, `calm` as above.

## 3. Runs

Requests, pods and items are model values; symmetry is used for requests, pods
and items that the specification treats alike, and never where a liveness
property is checked. `CHECK_DEADLOCK FALSE` everywhere: every request is sent
once, so all
runs come to rest.

| Run | Shows | Instance |
|---|---|---|
| `catalog_faults` | types, no stock further below zero than a doubled line or a negative addition explains (`StockCoversEachLine`), every copy that only reservations have written is the seed less whole reservations, `HandlersAndQueues` (the invariant behind the first two theorems), `NoStaleOverwrite`, the refinement of `AtomicInventory` | 2 pods, 2 requests of every kind (one reservation with two lines for one product, an addition with stock -1), 2 products, 2 faults of 5 kinds |
| `catalog_liveness` | requests end, pods serve again | 1 pod, 2 reservations, 2 faults of 5 kinds |
| `catalog_overlap` | **violated**: two overlapping reservations sell one stock twice | 2 reservations |
| `cart_faults` | undisturbed handlers are exact, queues and pods agree, the refinement of `AtomicCart`, requests end, pods serve again | 2 pods, 2 requests of every kind, a cart that may be in Redis already, 2 faults of 3 kinds |
| `cart_reconnect` | **violated**: a reconnected pod never uses Redis again | 1 fault |
| `checkout_faults` | orders, reservations, answers and carts agree, the refinement of `AtomicPurchase` | 2 overlapping checkouts of one user, 2 pods, 2 items, one of them malformed, stock of 1, a user with or without an email, 2 faults of 7 kinds |
| `checkout_retry` | a user who waits for each answer is never *confirmed* an item twice, and carts are emptied only into stored orders; checkouts end; confirmed orders are sent to the queue unless that call fails | 2 checkouts one after the other, 1 pod, 2 items, stock of 3, sessions that end at any time, 2 faults of 8 kinds (lost answers, an auth service that is away, an unready table and a hanging INSERT among them) |
| `checkout_database` | **violated**: no fall-back once connected | 1 checkout, Postgres stops |
| `invoice_entries` | nothing lost, no email missing without a failure of its own, second emails and dead letters need faults, messages are settled, those that parse and are not valid in the dead-letter queue | poller, Lambda and POST /events; a valid, an invalid and an unparsable event; 2 receipts, 1 fault of 6 kinds |
| `auth_faults` | answers are true of the account, a token that is gone stays gone, a pod goes back to an older pool only by a restart or an overtaken load | 2 pods, 2 registrations of one email, a local token, a reload that overlaps the load at the start, a replacement of the pool, 2 faults of 6 kinds |
| `storefront` | a page that knows its user, and every call, is of one account, a user who waits sees the cart as it is, the refinement of `AtomicBasket` | 2 accounts, sign-ins with and without a user in the answer, 1 product, 2 handlers under way at once, 4 clicks, 1 call that fails or is given up |
| `admin` | the panel is never left disabled, attempts under one key at most 2 Limit - 1 in a window's length, a save accounts for reservations | 1 panel, 2 handlers at once, 1 product, 3 clicks, 1 reservation, 1 pod, 1 address and 1 header value (2 keys), Limit 2, Window 2, 3 instants, 1 fault |

Why the bounds are enough. What goes wrong between handlers goes wrong between
two of them and one that observes; two pods are what is deployed; two faults let
one happen while the system recovers from another; two products tell a whole
reservation from a part. `MaxOverlap` bounds the tasks at one time, `MaxFaults`
the faults, `MaxReceive` is the queue's receive count (5 in `async.tf`, 2
here), `BatchSize` stands for the poller's five, `MaxGeneration` bounds how often
the pool is replaced, `MaxClicks` the clicks that start a handler (two that sign
in and two that overlap in the cart, or a sign-in as somebody else between two calls;
in the panel a sign-in and two that overlap),
`MaxTime` the clock (one window and the next), `MaxReserved` the units customers
take. One product is enough for a basket because its rows are
changed independently of one another and cleared together. The stock of 1 in `checkout_faults`
covers one item and not two, that of 3 in `checkout_retry` one checkout of both items and not two. The theorems of section 4 have none of these bounds: they are about any
number of pods, users, products, requests, events and faults.

What the properties leave out on purpose. `ImplementsAtomicCart` and
`UndisturbedCopiesAreCurrent` say nothing of a request that another one has
saved over since its read, nor of one that is answered from a pod's memory: those
do lose items. `ImplementsAtomicInventory` has the exceptions named in section 2;
`ImplementsAtomicPurchase` leaves out a checkout that fails after its reservation
(`FailsLate`), a call served after its handler gave up (`ServedLate`), and a
cart that changed since it was read (`CartChanged`).
`NoItemConfirmedTwice` speaks of two answers of 201: a stored order whose clearing
fails is answered 500, or 401 after a sign-out, and the next try stores a second order of the
same items. Nothing in the code prevents that, and no property here says it is
prevented. `RefusalsHaveNoEffect` says nothing of 500 or 401, behind which a reservation or
an order may remain. `OneAtATime` makes the user of `checkout_retry` wait
with orders and with additions to the cart; the repository does not, and an item
added while a checkout waits is cleared unbought (`checkout_faults` has
that user). Sessions end and begin while checkouts wait in both runs. An order that was
in the memory of a pod that ended counts as stored in all of these. `ImplementsAtomicBasket`
leaves out a save over somebody else's (`Clash`), a row that showed an old number
(`OldNumber`), a removal or an order while a quantity is being changed (`Overlap`),
a change that ends between its calls (`CutOff`) or goes on in another user's cart
(`Another`), and late calls (`Late`). `PageIsCurrent` and `StockIsAccountedFor` speak of a
user who lets one handler end before the next click. `FaultsExplainRepeats`
exempts a batch that an invalid event of the
Lambda makes fail again and again. `NoInvoiceIsLost` exempts what cannot be parsed, and
bounds the emails that were not sent by the faults. `MessagesAreSettled` lets a message that cannot be
parsed be deleted. `NeverBackToOldPool` names the two steps that do take a pod
back: its restart, and the assignment of a load that another one has overtaken.
`CallsAreOfOneAccount` is about each call; a click whose session changes between
its calls makes them for two accounts. `AttemptsBounded` is about one key at one pod, not
about a client.

### Where the code and its documents differ

The three violated runs are the findings of `PROJECT.json`, each with the
sentence it contradicts: reservations are not atomic (comment at catalog
`index.js:197`), the cart does not use Redis whenever it is available, and
checkout has no fall-back to memory once it is connected.

Seen while modelling, without a run of their own:

* Two lines of one reservation for one product (their ids made equal by the
  trim at catalog `index.js:208`) are each compared with the full stock and may
  leave a negative one. `InStock` and `Decrement` do so, `catalog_faults` sends such a
  reservation, and `StockCoversEachLine` says how far it goes: never below either line.
* A cart pod that finds no Redis at its start never listens: `connect()` of the
  client retries for ever, the catch that would go on with memory is not reached.
* Checkout listens before it has connected to Postgres; orders of that time stay
  in the pod's memory.
* The poller deletes a message it cannot parse (`index.js:49-72`), so that
  `docs/oncall-runbook.md:43-51` ("inspect failed message payload format", "worker
  parsing/validation logs", "redrive messages after fix") will not find it in
  the dead-letter queue; `MessagesAreSettled` says which messages do get there. After an error of SES it deletes the message as if the
  email had been sent.
* The storefront's answers of `/api/auth/me` set the session whenever they come
  (`app.js:434`): after a sign-out it signs the user in again. A cart is
  drawn when its answer comes, so that of a user who has signed out may be what
  the next one sees until the list is loaded again.
* A change of quantity whose session changes between its calls takes the item
  out of one user's cart and puts it into another's (`app.js:314`). A double click on
  "+" asks twice for the same number. The button that places an order is not
  disabled either; the second order is answered "cart is empty" unless the two
  overlap.
* Logging out in the storefront asks nothing of the auth service, so the token
  goes on being accepted.
* The Express server of the storefront has no route for
  `DELETE /api/cart/:userId/items/:productId` (`frontend/src/index.js`); nginx, which is
  what Kubernetes runs, passes on everything below `/api/cart/`. The model has
  the latter. Under Express removals and changes of quantity fail.
* "max auth attempts per source IP in each rate-limit window" (admin
  `README.md:82`) does not hold. The key is the first value of X-Forwarded-For
  (`index.js:43-49`), which comes from the client, since the load balancer appends
  to the header; a source IP has an entry for every value it sends, and those
  who send one value share its entry. `AttemptsBounded` is what holds: of
  one key at one pod, and in any stretch as long as a window 2 Limit - 1.
* A signed-in user is answered 401 by checkout and cart while the auth service
  is unreachable or slow (`error.status || 401`, checkout `index.js:278-283`), as if
  the session had ended.
* With Cognito the answers to login and registration name no user (auth
  `index.js:513-533`, `599-605`), while the page takes `data.user` from them
  (`app.js:450`): until `/api/auth/me` is answered it has a token and no user.
* `k8s/nginx-frontend-configmap.yaml` holds an older page than
  `services/frontend/public/app.js`. Both deployment workflows replace that ConfigMap by one made
  from `services/frontend/public` (`deploy-dev.yml:163-171`, `deploy-prod.yml:59-67`), so
  what they deploy is the page modelled here; after `kubectl apply -f k8s/` by hand it is the older one,
  which is not modelled.
* Reloading the table after a save discards what was typed into other rows. The
  buttons in a row are not disabled by `busy`.

### Fairness

* `WF(Service(p))`: Node runs every callback of a live process; a process that
  has ended is started again by Kubernetes (its restart is such a step).
* `WF(Redis(p))`: Redis answers a command while the connection stands, and the
  breaking of a connection reaches the client, as TCP with keep-alive has it.
  `RedisStarts`: Kubernetes starts Redis again.
* Checkout: `WF(Timeout(c))` is the `setTimeout(5000)` of `fetchJson`; a service
  serves calls that somebody waits for unless they are lost. After the handler
  has given up nothing makes the service serve the call.
* Checkout, too: nothing makes Postgres answer a hanging INSERT; `CheckoutsEnd`
  exempts that checkout by name.
* Invoice: the visibility timeout ends; the poll loop goes round after a failure.

No clients and no faults are fair: liveness says what follows from requests,
never that any arrive. Storefront and admin are checked for safety only: nothing
obliges a user to click again.

## 4. Proofs

Each theorem is about `Spec`, for every value of the constants that the `ASSUME`s
below allow. Most invariants that the runs check are not inductive; the proof
modules strengthen them, prove that the initial states satisfy the strengthened
invariant and every action preserves it, and derive the property from it.

**`CatalogProofs`**

* `TypeCorrect`: `[]TypeOK`.
* `WritesAreOnlyLostToOverlap`: `NoStaleOverwrite`. A write disappears from Redis
  only with the key, or by a handler that had read before the write and saved
  after it. `ReadersKnow` says why: a handler on its way to save has every write
  of Redis in its copy or among those it missed, and for the fill of an absent
  key the pod's memory covers the copy being written, because the handler goes on
  with the memory and not with the copy. That needs `QueuesApart`: a task is
  queued once, at one pod, or a step of one pod could touch a copy of another.
  `IInv == TypeOK /\ QueuesApart /\ ReadersKnow` is inductive; TLC checks it
  as `HandlersAndQueues`, and `HandlersKeepUp` states it. Most steps are a *turn* (one task of one pod goes on and
  is put back in its queue or not), so what a turn preserves is proved once and
  each action is shown to be one.
* `StockCoversLines`: `[]StockCoversEachLine`. Every copy, in Redis, in a memory or
  in the hands of a handler, is *sound*: short of zero by no more than one
  operation explains (`ShortBy`), either of two lines for the product or the
  negative stock it was added with. An operation that is accepted on such a copy
  leaves such a copy, however stale it is. Overlap oversells, but it never makes
  the number itself negative.
* `StockNeverNegative`, a corollary: `OneLineEach /\ Spec => []NonNegative`.
  `OneLineEach` says that no reservation names a product twice and no product is
  added with a negative stock; both parts are needed.
* `CopiesAreAccountedFor`: `[]CopiesAccountForTheirWrites`. Every copy a step makes is
  one there was, the seed, or one there was with the effect of a request that is
  decided by that step and was not before (`Made`). So a copy's stock is the seed less the
  sum over its writes (`Accounted`), which grows by one request at a time.
* `InventoryIsAtomic`: `ImplementsAtomicInventory`. All depends on one step, the
  execution of a handler's SET: it must be its request applied to what is in Redis.
  The action says only that the copy has the *writes* of Redis and its own. Four
  invariants make that enough (`Standing`). A copy to be saved is its request applied to
  some document (`Based`); documents with the same writes are the same
  (`OneOfEach`, because a new copy has a write that no other has); the write is not
  in Redis before its SET is executed (`Unsent`: it is nowhere but in its own copy, in
  its pod's memory, and in what that pod sent after it); and Redis executes a
  connection's commands in order (`QueuesInOrder`).

**`CartProofs`.** `TypeCorrect`; `UndisturbedAreExact` (`UndisturbedCopiesAreCurrent`);
`NoReplyToTheDead` (`AwaitedAtLivePods`). One invariant carries all three,
`TypeOK /\ Connected /\ QueuesApart /\ UndisturbedCopiesAreCurrent`: that
a handler's copy is current needs that its commands are in one queue, and that
needs that only a connected pod that serves has commands under way.
`CartIsAtomic` (`ImplementsAtomicCart`): with that, a save that nobody came between is the
atomic cart's step, and what is known of a handler by where it is (`AllAsk`) maps
every other step.

**`CheckoutProofs`**

* `OrdersMatchReservations`, `ConfirmedHaveOrders`, `RefusedDidNothing`
  (`OrdersAreReserved`, `ConfirmedIsStored`, `RefusalsHaveNoEffect`) follow from
  `BooksAgree`, which ties a handler's place and the fate of its current call to
  what the catalog took for it and to the orders stored for it: no order before
  the call to save it was served, at most the one the handler made, and none
  for a checkout whose reservation was refused.
* `PatientBuyOnce`: `OneAtATime /\ Spec => []NoItemConfirmedTwice`. `OneAtATime` says
  that a user waits for the answer of one checkout before the next. No code
  enforces it, and without it the property is false. `Patience` has two
  parts: an item is in one cart, and in the hands of checkouts of one user
  (`ItemsAreOnce`, with no assumption); a cart does not outgrow what the one
  checkout under way has read, and what was confirmed has left it (`OneByOne`).
* `CartsGoIntoOrders`: `CartsEmptyIntoOrders`, an action property from both.
* `PurchaseIsAtomic`: `ImplementsAtomicPurchase`. The abstract purchase is refused
  only for a reason: no session, no usable email, an empty cart, a malformed item or too little
  stock. Each of the checkout's 400, 401 and 409 is shown to have its reason when the
  call behind it is served, but for the 401 of an auth service that could not be asked, which
  is a failure of the abstract purchase. A purchase takes effect when the catalog
  serves the reservation; from then on the cart counts without what was bought. With
  the answer the mapping no longer takes that off, so the one order must list what was
  reserved (`BooksAgree`), and the cart have none of it from when it is cleared
  until the handler goes on, whatever is added meanwhile (`ClearedOfOrders`).

**`InvoiceProofs`**

* `TypeCorrect` needs `Orderly`: the events of a batch are different; what a
  request posts is posted by it alone; what a consumer of the queue holds was
  received as often as its receipt says; a step is reached only after the PDF is
  written, and for the Lambda's last step the PDFs of the whole batch.
* `OneEmailPerReceipt` (`OneEmailForEachReceipt`) counts: emails sent, and consumers
  still to send one (`AheadOf`), are together no more than the receipts. A step
  that sends takes one away from the second number.
* `NoneIsLost` (`NoInvoiceIsLost`): the valid events that somebody is done with
  although no email went out (`Skipped`) are no more than the faults. A turn adds
  at most the event it was at, and then there is one fault more.
* `RepeatsAreFaults` (`FaultsExplainRepeats`): while no bad message is about, a
  valid event has been received once for each fault, and once more while its last
  receipt is held or has deleted it (`Explained`). A turn without a fault lets go
  of no message it has not deleted (`TurnReleases`), so a message shows again
  only when the timeout came too early or a fault made somebody give it up.

**`AuthProofs`**

* `TypeCorrect` and `AnswersAreTrue` (`AnswersTellTheAccount`): a registration that
  confirms, verifies or was answered 201 has its account to itself (`Told`),
  because only the one that made it goes on.
* `TokensStayOut` (`SignedOutStaysOut`): a load assigns only pools that are set
  (`LoadsAreSet`), so no step takes a pod back to the local mode in which old tokens count.
* `PoolsOnlyGrow`: `Env <= 1 /\ Spec => NeverBackToOldPool`. What a load that was not
  overtaken has read is between the pod's configuration and the parameters as they are
  now (`Forward`). The assumption is needed: an environment variable with a
  newer pool than the parameters would be replaced by the older one.

**`StorefrontProofs`.** `TypeCorrect` and `AccountsAreNotMixed`
(`CallsAreOfOneAccount`). `TypeOK` alone is not inductive: that an answer
leaves a well-typed session needs that the call and its handler are of one account
(`Accounts`). `PageStaysCurrent` (`PageIsCurrent`): while the user is calm one
handler is under way and no call is late (`Alone`); it runs where
nothing has to be current, or its last call reads the cart, and what that call has
read is the cart of this moment (`Steady`).

**`AdminProofs`.** `TypeCorrect`; `NeverLeftDisabled` (`BusyEnds`), since while `busy`
is on some handler is under way that has a token or is about to get one
(`WillEnable`); `SavesAccountForTheStock` (`StockIsAccountedFor`), since while the
admin is calm every view of the inventory, in the table or on its way, differs
from the catalog by exactly what customers reserved since (`Accounts`).
`AttemptsStayBounded` (`AttemptsBounded`), for each key at each pod: the attempts of a stretch of time are those
before the present window's start and those since (`WindowsFit`). Of the first there
are at most `Limit - 1` when the stretch reaches beyond that start, since it
then misses the first attempt of the window before; of the second the entry has
counted all.

**`DataLemmas`.** A sum over a set is a recursive function in the community modules.
Which element it takes first does not matter (`SumOneMore`): by induction over finite
sets, stated for a set of sets in the place of a predicate, which no backend can
instantiate. It follows from the library's theorem that strict inclusion is well founded on the
subsets of a finite set.

Assumptions on constants are the `ASSUME`s of the models: numbers are natural
(`MaxGeneration`, `Limit`, `Window`, `BatchSize` and `MaxReceive` at least one), faults
and operations are of the kinds listed, stocks and carts at first are natural,
sets of different roles (pods and requests, pollers, Lambdas and POST handlers, pods and
reloads) do not meet, the marker for an absent key is no document, the items of a
checkout are finite in number, the malformed ones are among them. No theorem bounds faults, clicks or overlap: those constants
are arbitrary. `OneLineEach`, `OneAtATime` and `Env <= 1` are
assumptions of the theorems that name them.

Only model-checked:

* `ImplementsAtomicBasket`: the other three refinements are proved;
* all liveness, since the provers have neither `ENABLED` nor fairness.

## 5. Not modelled

* The smoke test, a sequential client; the routes of the storefront proxy, which
  keep nothing (its timeout is `Fail`); infrastructure, which is declarations, from
  which the models take the number of replicas, the Redis without a volume and the
  receive count.
* In the storefront: the number on the cart button, the catalog's filters, the messages;
  products are loaded before a cart is shown; a registration that gives no token
  is as a refusal. In the panel: statistics, filters and the table of orders.
  Several panels at once, and several browsers of one user.
* Names, prices, totals, categories, the layout of PDF and email, logs.
* An admin who buys or edits a cart for another user: as the user's own request,
  with another session.
* GET /orders and other reads of orders: they change nothing.
* In auth: roles and claims, the legacy and the admins' pool, the list of local
  users (per pod, like the tokens), the Cognito logins and MFA answers, which
  change no state of the service beyond the reload that is modelled.
* The branch of a registration that asks for `!UserConfirmed && poolId`: a pool is
  always set where Cognito is, and its pools confirm nobody by themselves (`cognito.tf`
  has no trigger).
* In checkout: a product that is not listed any more counts as one without stock
  (both are answered 409), and the 503 of an auth service that is not configured as a
  session that is not known (401). A request without a token is one whose token is not
  known.
* In the catalog: a value under the key that is no array or does not parse
  (`index.js:62-70`); nothing but the service writes it. The inventory that the admin
  module and the checkout use is the atomic one: `StockIsAccountedFor` holds relative to
  `ImplementsAtomicInventory` and its exceptions.
* In the invoice worker: payloads that pass the validation and make
  `createInvoicePdfBuffer` throw (an item that is null, `processor.js:82-86`), which checkout does not
  send; S3 or SES that is not configured (`processor.js:100-102`, `202-204`), where
  every upload or email is left out without a fault.
* Time, but for timeouts as steps.

## 6. Plan

Done: the seven components that have state of their own, each with its model, its
runs and its theorems. What is left, in order:

1. The steps of `ImplementsAtomicBasket` as a theorem.
2. Larger instances: two panels over one catalog, two admin pods, two browsers of
   one user.
