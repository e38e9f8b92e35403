# eShopAcademy in TLA+

A set of TLA+ modules, TLC configurations and TLAPS proofs about this
repository: the saga that drives an order, the services it commands, the row it
leaves, and the pages of the shop and of the sellers' portal that read and
write what the services keep. Paths below are relative to
`src/src/` of the repository; `PROJECT.json` maps every definition to its lines.

## 1. The system

An order is placed through `Orders`, which reserves its stock and opens its
payment by gRPC, stores the order and publishes `OrderSubmittedEvent`. From
there a MassTransit saga in `Orchestration` commands the other services over
RabbitMQ and reacts to their events.

```
 customer -> Orders.PlaceOrder --gRPC--> Stock.ReserveStock, Payments.CreatePayment -> PSP
                |  OrderSubmitted                                 | webhook
                v                                                 v
        Orchestration: OrderStateMachine <---- PaymentCompleted / PaymentFailed (Payments)
          | commands (Entity Framework outbox, one row per order, xmin as its version)
          +-> Stock       commit-, release-stock-reservation   -> Committed / CommitFailed
          +-> Shipping    schedule-, confirm-, cancel-shipping  -> Scheduled / Shipped / Delivered
          +-> Operations  prepare-package                       -> ReadyForPickup / PackageIssue
          +-> Payments    refund-payment
          +-> Basket      empty-basket
          +-> Orders      update-order-status, cancel-order     -> status events, SSE, Sellers
```

In the browser, the web shop and the sellers' portal call the services over
HTTP through the gateway. Both keep what they fetched in TanStack queries: a
cached answer on screen, at most one current fetch, and mutations whose answers
invalidate queries. The order page also listens to the Orders API's stream of
status events. The frontends run no threads, but between a request and its
answer the user goes on clicking, and each handler sees the state of its moment.

### Inventory

| Component | State it keeps | Operations | What is hard | What makes it correct |
|---|---|---|---|---|
| Order saga (`Orchestration`) | one Postgres row per order: state, timeout token, shipment, payment, transaction; outbox and inbox tables | 13 events over 10 states, a scheduled timeout, retries | replays, overlapping deliveries, a timeout racing a payment, two answers in either order | effects once; compensations match the outcome; forward only; a pending order settles |
| Orders row (`Orders`) | one Postgres row per order | place, delete, `update-order-status-command`, `cancel-order-command` | two queues writing one row, commands out of order, conflicts, the error queue | the status never falls back; sales and cancellation are announced once; the row follows the saga |
| Stock (`Stock`) | Mongo documents: a quantity per product, a reservation per order | `ReserveStock`, commit, release, increase, decrease, product published | read, compute, replace without a version; crashes between two writes; expiry | decisions are final; no units from nowhere; one outcome per order |
| Payments (`Payments`, `PSP`) | nothing durable: an in-memory registry of operation keys per process; the provider's payments, in its memory | create, webhook, refund | keys lost at a restart, two refund keys, a resolution racing a webhook | a verdict stands and reaches the saga, a refund is answered |
| Shipping (`Shipping`) | Mongo: a claim per order, the customer's address, the history of reports; the provider simulator's shipments in Redis | schedule, confirm, webhook, enrich the delivery (cancel only logs) | a claim stored before the work, deliveries that overlap and fail, calls carried out after they were given up, webhooks lost or overtaking | an order hears of one shipment, which exists |
| Operations (`Operations`) | Mongo package, request keys | prepare, seller stamp, the operators' API | one document replaced whole by four writers; saved, then published | no progress of a package is lost; ready or an issue is reported |
| Sellers (`Sellers`) | Mongo seller with ledger and verification | register, announce, verify document and tax data; register a sale, mark it processed | two consumers that each replace the whole account they read, redeliveries, announcements without an outbox; an atomic push next to whole-document replaces | a verified seller is active; no ledger entry is lost |
| Basket (`Basket`) | Redis value per client | add, remove, empty, reinstate | read, change, write back; a Redis failure reads as no basket | nothing is counted twice, and a sold basket stays empty |
| Order status stream (`Orders`) | in-memory channels per order | subscribe, publish, end | bounded channels that drop the oldest, subscriptions that come late | the last status arrives |
| Web shop (`Frontend/eshop-web`) | queries and the state of mounted pages; `localStorage`; the address bar | basket, checkout, order page, sign-in, catalogue, wishlist, registration of sellers | answers that arrive on another step, visit or tab than they were asked on; two copies of one state; fetches that overtake writes | one order per visit, no step without its data, no older answer over a newer one |
| Sellers' portal (`Frontend/eshop-sellers`) | the query of the packages, dialogs, the product editor | confirm, ready, report; publish, edit, images, stock | answers that find another dialog open, indices that outlive a drag | an answer acts on what it was asked for; no image is lost |
| Sellers' service pages (`Sellers/Frontend`) | none beyond the requests | authorised requests | requests refused together | the user reaches the login page |
| Customers, Products | Mongo documents | single-document reads and writes, address events | an old event | the last address wins |
| Notifications, gateway, hosting, health, telemetry | none the workflow depends on | I/O, routing, configuration | - | - |

## 2. The modules

| Module | Models | Notes |
|---|---|---|
| `OrderLifecycle` | the abstract promise of the workflow for one order | six phases and the state of the money |
| `OrderSaga` | `OrderStateMachine.cs` under MassTransit's saga repository | extended by `MCOrderSaga`, `OrderSaga_proofs` |
| `OrderProjection` | the Orders row and its two command consumers | `MCOrderProjection`, `OrderProjection_proofs` |
| `OrderClosing` | the Orders row while the command that closes it is delivered | extended by `MCOrderProjection` |
| `OrderPromise` | what saga and Orders together promise to customer, sellers, stock and payments | milestones reached, the status shown, the messages sent |
| `OrderWorkflow` | saga and Orders together: the saga's outbox is the consumers' queues | `MCOrderWorkflow`, `OrderWorkflow_proofs` |
| `StockReservation` | the Stock service, one action per database step | `MCStockReservation`, `StockReservation_proofs` |
| `Payments` | the provider's payment, the webhook and the refund consumer | `MCPayments`, `Payments_proofs` |
| `ShopBasket` | the Basket service and the shop's cached basket | `Shop_proofs` |
| `Checkout` | the checkout page and the customer's addresses | `Shop_proofs` |
| `OrderTracking` | the order page, its query and the status stream | `Shop_proofs` |
| `SignIn` | the interceptors that send refused requests to the login | `Scenes_proofs` |
| `Catalogue` | home page, product list with its filters, product page | `Scenes_proofs` |
| `Wishlist` | the wishlist in `localStorage`, over several tabs | `Scenes_proofs` |
| `SellerOnboarding` | registration page, Sellers API, the two verifications and the requests that change an account | `Scenes_proofs` |
| `SalesDesk` | the seller's table of packages, its buttons and dialogs | `Scenes_proofs` |
| `ProductEditor` | publishing and editing a product, its images, its stock | `Scenes_proofs` |
| `Shipping` | the consumers of Shipping, its provider and the webhook, for one order | `Shipping_proofs` |
| `MCScenes` | instantiates the ten modules above, from `ShopBasket` on, for TLC | `Scenes_proofs` |

### OrderSaga

`saga` is the row (`OrderState.cs`): the state, `version` for `xmin`, `armed` for
the timeout's token, and the identifiers that later commands copy. `worker[w]`
is a delivery in progress: `Receive` reads the row, then exactly one of these
ends it: a transition (`OnPaymentCompleted`, ... one per `When` binder, with
every command the binder sends) that commits if `RowUnchanged`; `Discard`
(there is no row), `Ignore`, `Unhandled` (no binder: the event is dropped to
the error queue); `Retry` or `GiveUp` after a conflict; `Crash`. `sent` counts
the commands written to the outbox in the transaction of the transition.

The environment is as wide as the code allows: an event may be delivered at any
time, any number of times, once what causes it has happened (`Published`). The
inbox therefore has no state of its own: it only removes deliveries. The
outbox's own deliveries (duplicated, delayed) are those of its receivers.
Amounts, addresses and items do not decide anything in the state machine and
are left out.

### OrderProjection

`order` is the row: status, whether it has a payment id, a tracking number and
`SellerSalesRegisteredAt`. A delivery is one database transaction of the Entity
Framework outbox: `Take` reads the row, `UpdateStatus` or `CancelOrder` commits
row and messages, unless another transaction has written since (`stale`); then
`RetryConflict` runs the delivery again, and `GiveUpConflict` ends it in the
error queue. `Dropped` is every early return of the two consumers. The row may
be deleted by the API at any moment (`RemoveOrder`). The order the commands are
delivered in is free. Placement is modelled by the row it leaves.

### OrderClosing

`OrderProjection` with the account the broker keeps of one command, `closing`,
the one that ends the order: `fate` is what became of its first delivery to end -
acknowledged (`Acknowledge`), or given up to the error queue (`Park`), from which
nothing in the code takes it. The queue holds what a completed or a failed saga
has sent, in any order and any number of times; in the behaviours that watch no
command, all commands there are. `RowSettles` - an acknowledged closing command
has closed the row - is stated here because it needs consumers that overtake each
other, retry and give up.

### OrderWorkflow

`OrderSaga` and `OrderProjection` side by side: the commands the saga has sent
are what the consumers may be given, in any order, any number of times. A
command the saga has not sent cannot be delivered, so the row's properties can
be related to the saga's state.

What the two make together is stated in `OrderPromise`, without workers,
consumers, queues or versions: the workflow decides milestones (`Decide`: paid
after placed, dispatched after paid, then completed or cancelled for good), and
the Orders service, one transaction at a time (`Serve`), may show a later status
whose ground has been decided and send what was not sent before - the sale only
of a paid order, a release or a refund only with the one announcement that the
order is cancelled. `KeepsPromise` maps `reached` to `Decided` (read off the
saga's state and outbox), `shown` to the row's status, and `told` to the
messages emitted.

### StockReservation

`stock` and `reservation` are the two collections; `job[w]` is what an operation
in progress has read. Each database read or write is an action, so operations
of different workers interleave where the code awaits. `Found` is the
repository's filter, which does not find a product whose quantity is zero.
`Expire` lets `ValidUntil` pass. The gRPC commit and cancel calls take the
steps of the two consumers and answer an error where those publish a failure or
return, so they add no step. The stock API's idempotency keys only remove
requests. An order asks for up to `MaxUnits` units of each product (`Wanted`),
and so does a call of the stock API; `Covers` is the check of the quantity read
against the one asked for, which reservation and decrease both make.

### Payments

`payment` is the provider's `PendingPayment` and its `resolve:` key; `attempt[a]`
is one request to confirm or reject it, with the webhook call it makes. At the
provider an attempt reads the status (`CheckStatus`), takes the key or is
answered "processing" (`Resolve`), and ends by `Accept` or `GiveUpAttempt` - the
five-second timeout, a lost answer, an error or the customer's departure, after
which the call may still be running. At the webhook it takes the verdict's key
or finds it taken, publishes, or fails and gives the key back; a failed
publication may have reached the broker or not. `begun` is the webhook's
registry, `published` what the broker got. `refund` is the registry of the
refund consumer with its publications in progress: they leave after `Consume`
has returned, because its endpoint has an in-memory outbox, so one that fails
does not give its key back. Each process restarts with empty memory. Signature
checks and malformed requests only refuse calls and are left out; the
`PaymentInitiatedEvent` has no consumer.

### ShopBasket

`stored` is the Redis record; a request in `requests` reads it (`ReadRecord`),
then writes back what it computed (`StoreAdd`, `StoreRemove`) or fails, as
`BasketCache.cs` does, with no version in between; `EmptyBasket` is the saga's
command. `cart`, `cartFailed` and `fetch` are the query of `useBasket.ts`:
`CartInvalidated` cancels a fetch and starts another unless the query has never
had data, `FetchFails` retries once and then keeps the error beside the old
data. `version`, `shownVersion` and `ackedVersion` are history: which writes an
answer includes, and which were acknowledged. The product names stand for the
items; prices are left out. `reinstate-basket` has no sender.

### Checkout

`step`, `data`, `form` and `method` are the state of `CheckoutPage.tsx`,
`AddressStep.tsx` and `PaymentMethodStep.tsx`; mounting a step makes its state
anew from the page's (`MountedForm`). Requests outlive the step and the visit
they were made on: `saving`, `deleting`, `ensure` and `orders` are answered at
any later moment, several deletions at once included (`SaveAnswered`, `DeleteAnswered`, `EnsureAnswered`,
`OrderAccepted`, `OrderFailed`), and each answer does what its callback does to
the page as it is then. An address is complete or `Incomplete`, which is all its
validation tells apart.

### OrderTracking

`row` moves through `Flow` and leaves an event, which the consumer writes to the
`channel` of the page's subscription (`Publish`; the bus does not order events,
and a full channel loses its oldest message). `stream` is where `connect()` is:
fetching a token, connecting, open, or waiting after an error. Each message
invalidates the query: a fetch under way is no longer `current`, though its
answer still arrives. `ServerFails` is a fetch that failed together with its one
retry (`App.tsx`): the old order stays, beside an error, and nothing fetches again
before the next message. `shown` is the order on the page, `popups` the payment
windows the visit has opened, and `owed` history for the liveness property. A
`connect()` that is awaiting its token when its effect is cleaned up opens an
`EventSource` nobody closes; it can only cause more fetches and is left out.

### SignIn, Catalogue, Wishlist

`SignIn` has one `request` per concurrent call, the flag `isRedirecting` and the
500 ms timer of `api/client.ts`; the constant of a behaviour, `app`, tells
the shop from the portal, whose `authFetch` has no flag. `Catalogue` keeps the
address bar (`history`) next to the list's own `filter`: links and Back change
the first and an effect copies it (`Arrive`); the sidebar changes both, and the
same effect then copies the address over the list's filter, so that what
`handleFilterChange` does not write to the address is lost (`Refilter`). `Wishlist` has the stored list and what each tab last
rendered of it.

### SellerOnboarding, SalesDesk, ProductEditor

`SellerOnboarding` follows an account from the page (`registration`) through
`CreateAccount` and the two publications, which have no outbox
(`AnnounceFails`), to the two consumers: `ReadAccount`, then the stores of the
whole account that was read. `ConsumerStops` delivers the message again. The
requests that set the status, assign products or process a sale read the account
and replace the whole of it as well (`ReadToChange`, `StoreChange`); of products
and ledger only that is modelled. `storedBy` is history: whose store the account
is. Creating a seller as an administrator starts no verification and is left out.
`SalesDesk` has the packages' statuses in Operations (`parcel`), the cached rows,
the requests of the three buttons (one pending flag per button for the whole
table) and the dialogs; a report's answer closes whatever issue dialog is open.
`ProductEditor` has the images with the two refs a drag leaves behind, the
upload, and the mutations of the editor and the stock page.

### Shipping

`booking[c]` is where a delivery of `schedule-shipping` is: it takes the `claim`
(`TryBeginAsync`), stores the customer's address, calls the provider, and puts
the event into its in-memory outbox, which publishes it once `Consume` has
returned. `SchedulingFails` and `AbandonScheduling` are the `catch`;
`SchedulingStops` is what the `catch` does not see - the process stops, the claim
is not given back, the publication fails - and leaves the claim behind
(`cutShort`). A call that was given up may reach the provider later (`stray`).
The provider creates the shipment once (`TryCreateAsync`); its operator's page
(`screen`) and confirm-pickup then read the whole shipment and store it whole
(`ReadShipment`, `SaveShipment`), so requests that overlap overwrite each other.
Each change is reported by a webhook, sent once (`webhooks`), which may be lost or
overtaken; the entry is stored before its event is published. `EnrichDelivered`
adds the address on file to the delivery. Carrier, tracking number and the times
are left out.

### MCScenes

The ten modules share no variable. Checking each by itself would be ten runs
that ask one kind of question; checking them side by side would multiply
their states. `MCScenes` plays one *scene* per behaviour: `scene` is chosen in
`Init` and never changes, the module it names takes its steps, and the others
stay as they were initialised, where nothing fair is enabled. The states of the
run are the sum of the modules' states, and every property of every module is
checked in the scene it is about.

## 3. What the runs check

| Run | Bounds | Shows |
|---|---|---|
| `order_saga` | two workers, two shipments, two retries | `CommandsOnce`: no command is ever written twice. `CompensationMatchesOutcome`: refunded exactly if paid, released, cancelled, and nothing is compensated while the order lives. `FulfilmentNeedsBoth`: the join of stock and shipping. `ForwardOnly`. `ImplementsLifecycle`: refinement of `OrderLifecycle`. `PendingSettles` (liveness) |
| `order_projection` | two consumers, one conflict retry | `StatusNeverFallsBack`, `SalesRequestedOnce`, `CancelledOnce` under any order of any commands. `RowSettles` (liveness): the command that closes the row closes it, unless it goes to the error queue or the order is deleted |
| `order_workflow` | one worker, one consumer, one retry each | `KeepsPromise`: the refinement of `OrderPromise` - the row shows, and others are told, only what the saga has decided, once and in order |
| `stock_reservation` | two workers, two orders that want two units and one of a product that has one, another product out of stock, one crash, one call of the stock API by one or two units | `StockTypeOK` (quantities are never negative), `DecisionsStick`, `NoUnitsFromNowhere`, `OneOutcome` |
| `scenes` | section *Bounds of the scenes* | `NoItemFromNowhere`: overlapping requests and Redis failures never count an item twice. `CartShowsOwnWrites`: no answer read before an acknowledged write stays in the cart. `OneLiveOrderPerVisit`, `FormNeverLocked`, `StepHasItsData`: late answers of the checkout. `OnePopupPerVisit`, `TimelineNeverGoesBack`, `SentStatusIsShown` (liveness): the order page. `OneRedirect`, `RejectedMeansRedirect` (liveness): sign-in. `FilterFollowsUrl`: the two copies of the filter agree, and a control of the sidebar changes no filter but its own. `NoFavouriteLost`: tabs. `VerifiedSellerIsActive`: the verifications overwrite each other and the requests, and leave no seller pending. `IssueAnswerClosesItsOwnDialog`: the sales table. `NoImageLost`: stale drags and uploads. `ScheduledOnce`: one shipment is announced, and a claim left behind is accounted for |
| `payments` | three attempts, one restart of each of Payments.API and Payments.Messaging, restarts of the provider | `VerdictStands`, `NoStuckKey`, `VerdictReported`, `RefundAnswered`, `RefundOncePerRun` |

Why the bounds are enough. Two workers give every overlap of two deliveries
(the code compares versions pairwise; the proofs below cover any number). The
saga retries a conflict five times; a saga row is written so few times that
with two workers the last retry is already reached with two. Two shipments
tell a command naming the recorded shipment from one naming another. The
workflow run has one consumer because overlap on the row is the subject of
`order_projection`; what it adds is the order of the commands. Two consumers
with one retry each (the code has three) conflict, retry and give up; a second
retry only repeats the first. In the stock run
product `p1` has one unit, of which one order wants two and the other one, `p2`
none, so that the zero quantity, the quantity that does not suffice, the partly
filled reservation and the failed insert all happen. A
second crash or a second API call only repeats the first, and repeated crashes
of a release add units without bound. Turning a
verdict round takes two attempts; a third lets one of them be given up with its
call still running. All of the payment's properties are also proved for any
number of attempts and restarts.

`CHECK_DEADLOCK FALSE` is stated for stock - when every reservation is decided,
every product has units and the bounded API calls are used up, no operation is
left to start - and for the scenes, where a user who has used up the bounded
clicks, or has left for the login page, does nothing more, and a shipment whose
claim was left behind stays where it is.

### Bounds of the scenes

| Module | Bounds | Why they are enough |
|---|---|---|
| `ShopBasket` | one product, two clicks, one Redis failure | two requests on one item are the smallest lost update; the record keeps its products apart except where it is missing, which one product shows |
| `Checkout` | one complete address and an incomplete one, two methods of which one is enabled, two visits, two orders, two deletions at once | the selection, the draft and the saved list differ already with one; a second visit and a second order are what late answers could hit |
| `OrderTracking` | a channel of one message, two visits, one event on the bus at a time, one lost connection, two fetches | a channel of one overflows at its second message, so dropping happens; one cancelled and one current fetch are all that can disagree |
| `SignIn` | three requests | one may be refused before it is sent, one by a 401, one after either |
| `Catalogue` | three fields, one value, a history of three, two pages, three slides | the search text, a field of a price range and one other; list, another page and back |
| `Wishlist` | two articles, two tabs, two clicks on each heart | an older list over a newer one needs two tabs and two articles |
| `SellerOnboarding` | two files, one failure, one request that changes the account | a request overlaps each verification, alone or both; the file is changed while one is analysed; a failure makes each consumer, or announcement, repeat or stop |
| `SalesDesk` | two packages, one row to a page, one search term, one request at a time | two rows, pages and dialogs to confuse |
| `ProductEditor` | two stored images, two more uploads | four positions for the two indices of a drag, some past the end |
| `Shipping` | two overlapping deliveries repeated without bound, two failures that are not caught, three moves of the shipment | two deliveries are enough to take, lose and retake a claim; three moves lead to the delivery, and one overtakes or overwrites another |

`paid_basket` plays the scene `basket` alone with one click. All of
these bounds but those of the liveness properties are lifted by the proofs of
section 4.

### Fairness

`FairSpec` (saga): a delivery that was started is finished (weak fairness of
`Finish` on each worker), and the payment timeout, once scheduled, is delivered
again until one delivery of it commits (strong fairness of `Receive` and of
`OnPaymentTimeout`). The schedule and the outbox are durable, and the broker
keeps a message until it is acknowledged, so neither a crash nor a conflict
loses it. A timeout that loses six races in a row goes to the error queue, and
nothing sends it again; the fairness assumes that this does not happen.
`ClosingFairness` (Orders row) assumes no such thing: a delivery that was started
goes on (weak fairness on each consumer), the closing command is offered as long
as no delivery of it has been acknowledged or given up - the broker keeps it that
long, and no longer -, and the process does not stop in the middle of every
delivery of it. That the last retry is lost is one of the outcomes. Nothing is assumed of payments, stock, shipping or customers.

In the frontends: `BasketFairness` - a fetch that was sent is answered and
processed, TanStack's retry timer fires, the broker delivers the empty-basket
command and the status stream the payment; no click is assumed. `TrackingFairness` -
requests are answered, or fail for good, and messages are read off an open connection; the
connection may be lost for ever, and then nothing is claimed. `SignInFairness` -
the 500 ms timer fires.

### What the code does differently from its documents

Six runs exhibit a place where a document of the repository and the code
disagree; `PROJECT.json` quotes the sentences. The last of them is plainly a
bug; the others may be wrong on either side.

| Run | The code |
|---|---|
| `saga_refund_id` | `PaymentCompletedEvent` has no payment id, the saga stores the empty one, and refunds carry only the transaction |
| `saga_stock_failure` | a stock failure cancels shipping only if the shipment is already known |
| `workflow_announce` | if the cancelled status is applied first, the cancel-order consumer returns early and `OrderCancelledEvent` is never published |
| `workflow_refund` | the cancel-order consumer asks for a refund of an order that was never paid, because placement stores a payment id |
| `stock_return` | a release skips a product whose quantity is zero, so the last unit never comes back |
| `paid_basket` | the emptied basket is answered 404, so the shop keeps the sold items on screen beside an error, and the checkout can order them again |

`NoUnitsFromNowhere` and `OneOutcome` are claimed of operations that do not
overlap, and the former of no crash, because that is all the code provides:
stock documents are replaced without a version check, and a release that is cut
short returns its items again. The model has all of these steps.

`VerdictReported` sets apart the verdicts in `hasty`: the webhook acknowledges a
duplicate while the first call is still publishing, and if that one fails, the
provider holds a verdict that was never published. `RefundAnswered` likewise
sets apart the commands whose publication failed after `Consume`. And nothing is
claimed of one payment being refunded once: the saga's command carries no
payment id and that of the Orders service does, so their keys differ and both
are carried out.

`NoItemFromNowhere` is all that can be claimed of the stored basket: requests
that overlap lose updates, and a late write brings an emptied basket back.
`CartShowsOwnWrites` is claimed of a cart that has data and whose last fetch did
not fail. `OneRedirect` is claimed of the shop; in the portal each refused request
redirects by itself. `VerifiedSellerIsActive` is claimed of accounts whose
documents' verification has ended - when its announcement fails, the account stays
pending - and that were not stored last by a request that changes them. Such a
request can leave a verified seller pending: it reads the account before it is
active, and stores it after, as each of them replaces the whole document
(`SellerRepository.cs:50`); no message is due then. A status that an
administrator sets can likewise be lost to a verification. `SentStatusIsShown`
is claimed unless the connection is lost, the page left, or a fetch fails together
with its retry: the page then keeps the old status until the next one is sent. And
`RowSettles` sets the closing command apart that was given up to the error queue:
the row then stays open. Packages may fall back to `Pending` in `SalesDesk`, because the prepare
command stores them anew each time it is delivered.

`ScheduledOnce` says nothing of an order whose claim was left behind: every later
delivery of its command is taken for a duplicate, and no one tells the saga. Nor
is anything claimed of the shipment's reports: a lost one is not sent again.

## 4. What is proved

Eight modules of proofs are checked by TLAPS to the last leaf. They hold for
every value of the constants: any number of workers, consumers, attempts,
requests, deliveries and tabs, any retry budget, restarts, crashes, visits and failures, any
sets of shipments, products, orders, addresses and files. What is assumed is what
the modules state, by name: `ConstantsAssumption` (the empty id is not a
shipment, payment or transaction; the retry budget is a number),
`RetryAssumption` and `ConflictAssumption` (the Orders service's budget is one), `PaymentsAssumption`, `StockAssumption` (what an order wants
of each product is a number up to a bound, what is supplied a number; the orders
are finitely many, because the units they hold are counted), `CheckoutAssumption` and
`BasketAssumption` (a missing address, method or record is none of the real ones;
some method is enabled), `TrackingAssumption` (a channel holds a message),
`CatalogueAssumption`, `WishlistAssumption`, `OnboardingAssumption` (no account
is not an account), `SalesAssumption`, `EditorAssumption` (the stored images are
not more than a product may have) and `ShippingAssumption`. TLC evaluates each of them in the runs.

- **The saga.** `CommandsOnce` is not inductive: it does not say that a worker's
  row is current, nor which commands are still ahead. `IndInv` adds `Snapshots`
  (a worker whose version is the row's holds the row itself, so a commit starts
  from the current state), `Ledger` (in a state, the commands of the
  transitions still ahead have not been sent), `Reached` (what must have been
  sent), and `ShipmentKnown`. Each transition is one lemma; those that cancel
  share `FailKeeps`, those that advance share `ForwardKeeps`, and those that
  commit nothing share `ReadKeeps`. From `Invariance` follow `TypeCorrect`,
  `EffectsHappenOnce`, `CompensationIsExact`, `FulfilmentIsJoined`; from the
  edges of the lemmas `SagaMovesForward`; and `SagaImplementsLifecycle`, the
  refinement of `OrderLifecycle`. A second invariant needs what each transition
  writes besides its commands (`TransitionShape`): `Debts` (an order that waits
  has a scheduled timeout whose token it holds; milestones that were passed were
  told) and `Identified` (from the payment on, row and refunds name the provider's
  transaction and no payment) give `NobodyWaitsUntimed` and
  `RefundsNameTheTransaction`; the latter is the exact form of what
  `saga_refund_id` exhibits. `SagaLosesNoUpdate` is the optimistic concurrency
  itself: who writes the row had read the one it replaces.
- **The Orders row.** `ProjectionInv` adds `FreshReads` (a transaction that is
  not stale holds the row) and `Announced` (a row that is not cancelled was
  never announced as cancelled). From `ProjectionInvariance` follow
  `SalesOnce`, `CancellationOnce` and `StatusMovesForward`, and
  `RaceLosesNoUpdate`: whoever writes the row, or sends a message of it, had read
  the row it replaces.
- **The payment.** The types need `Asked` (a webhook runs only for an attempt
  that asked for a verdict). `KeyHeld` says who holds the provider's key: one
  waiting attempt, or the verdict for ever; `TheVerdictStands` and
  `KeyNeverSticks` follow. `KeysCovered` says that a key the webhook has taken
  belongs to an event that is out or a call that is publishing it;
  `TheVerdictIsReported` follows. `RefundKeysInv` ties each refund key to its own
  command and to the runs of the process; `RefundsAnswered` follows.

- **Saga and Orders together.** `SagaInWorkflow` and `OrdersInWorkflow`: composed,
  each service does only what it does alone - the saga its own steps, the Orders
  service what it does among any commands in any order - so what is proved of
  either holds end to end (`WorkflowImplementsLifecycle`, `NothingIsDoneTwice`).
  `OrdersInWorkflow` instantiates the module of the row's proofs, with the saga's
  possible commands for the outbox, and cites its lemmas. `WorkflowInvariance`
  adds what relates the two: `Carried` (what a consumer holds was sent),
  `PaidFirst` (a status that says "paid" was sent only by a paid order) and
  `RowFollowsSaga`, which is inductive because a transaction that is not stale
  holds the row and what is decided is not undone. From it `TheRowFollows`,
  `DeliveredIsNotUndone`, `RowCanSettle`, and `PromiseIsKept`, the refinement of
  `OrderPromise`: a step of the saga decides at most one milestone, and which, is
  read off its state (`DecidedIn`); a commit of the Orders service is a `Serve`
  on the ground of a milestone that the command it carries proves. `RowCanSettle`
  needs one more invariant, `ClosesWhenAcknowledged`: a closing command that one
  delivery has acknowledged has closed the row.
- **Stock.** `StockInvariance`: while operations have not overlapped, what a job
  has read is still so (`Fits`) and, without a crash, the books balance
  (`Balanced`): the units in stock, those held by reservations and those the one
  job has between the two (`Extra`) are together at most the supply. What is held
  is a cardinality, so a lemma says how it changes with one reservation. With any
  overlap and crash the types still hold (`StockTypeCorrect`: no quantity is
  negative, because what a job subtracts was checked against the quantity it
  read), and `DecisionsAreFinal`.
- **The shop.** `CheckoutInvariance` says what late answers may find:
  `OrdersArePast` (an accepted order has closed its visit), `SavesAreKnown` and
  `FormOpen`. `BasketInvariance` bounds every copy of the record, wherever it is,
  by the adds stored (`Covered`). `OwnWritesShown` adds `CartFresh`: a fetch whose
  answer holds data has seen the writes acknowledged so far, because the
  acknowledgement cancelled the fetches before it.
- **The order page.** `NoneAhead` (nothing shown or fetched is ahead of the row)
  and `CurrentIsNewer` (there is one current fetch, and it brings nothing older)
  give `TimelineGrows`; `PopupsCounted` gives `OneWindow`. `OwedIsOnItsWay` follows
  a status from the connection to the page: it is in the channel (which drops only
  older messages, and is not empty after a write), or a fetch that is current is
  unanswered or was answered with it or a later one; an invalidation replaces that
  fetch by another; an answer that is accepted ends the debt, and a current fetch
  that fails with nothing left in the channel forgives it.
- **Shipping.** The claim is the deliveries' lock: `OneAtWork` (whoever is at work
  holds it alone, and has announced nothing), `UnclaimedUntold` (an order without
  a claim was told nothing), `AnnouncedExists` and `ClaimAccounted` are inductive
  together, and give `ShipmentAnnouncedOnce`.
- **The smaller pages.** `RedirectCounted` - the flag stands for the one redirect
  made or due - gives `RedirectsOnce`, and with `RejectionAnswered` (who is
  rejected has set the flag, or in the portal has redirected) `RejectionHasRedirect`; `FavouritesKept` and `FiltersAgree` are
  inductive with their types; `FiltersAgree` also says that a choice the sidebar makes survives its trip through
  the address, field by field (`FilterAndUrl`); `VerifiedSellers` needs
  `PendingIsUnfinished` (a pending account that no request has stored is not yet
  verified, and its documents' verification has not ended); `OwnDialogCloses` needs `OneReport`.

- **The product editor.** `NoImageLost` is about insertions and removals in
  sequences of any length: `RemovedAt`, `InsertedAt`, `RemovedOnce` and
  `InsertedOnce` say what the two operators of the community modules do to the
  elements, and `ReorderedKeeps` that a drag to any index, also past the end,
  loses and repeats none. `EditorInv` adds that an upload that ends brings a new
  image (`UploadsNew`) and that a drag names an image there is (`DragHolds`).
- **The scenes.** `ScenesCompose` - a behaviour of `MCScenes` is one of every
  module - carries all of this to the specification that TLC checks:
  `ScenesTypeCorrect`, `ScenesAreSafe`.

Only model-checked: the four liveness properties, which need fairness and
`ENABLED`. Of each, what it asks of safety is proved for every value of the
constants - that what has to happen is always still possible - and TLC shows
that the fairness brings it about:

| Liveness, by TLC | Its safety half, by TLAPS |
|---|---|
| `PendingSettles` | `NobodyWaitsUntimed`: a timeout that counts is scheduled while an order waits |
| `RowSettles` | `RowCanSettle`: the command that closes the row was sent, is not dropped, closes it, and has closed it once it is acknowledged |
| `SentStatusIsShown` | `SentStatusIsOnItsWay`: the status is in the channel or with a fetch that will be accepted, unless a fetch failed |
| `RejectedMeansRedirect` | `RejectionHasRedirect`: a redirect was made or its timer runs |

Every safety property of a passing run is the statement of a theorem. The
counterexamples are TLC's.

## 5. Plan

In order of what matters most to the workflow. Done:

1. `OrderLifecycle`, `OrderSaga`, their proofs.
2. `OrderProjection`, its proofs; `OrderClosing`, model-checked.
3. `OrderPromise` and `OrderWorkflow`, with the refinement proved.
4. `StockReservation`, its proofs.
5. `Payments`, its proofs.
6. The frontends with the services they write: `ShopBasket` (the Basket
   service), `OrderTracking` (the status stream), `SellerOnboarding` (the Sellers
   service without its ledger), `SalesDesk` (the packages' statuses),
   `Checkout`, `SignIn`, `Catalogue`, `Wishlist`, `ProductEditor`.
7. `Shipping`, with its theorem.

Left:

8. `OrderPlacement`: stock, payment and basket calls of one order, and the crash
   between saving it and publishing it.
9. `Operations`: the rest of the package document, its stamps and the operators.
10. `OrderFulfilment`: the saga with stock, shipping and operations instead of the
    free environment; the payment that completes after its timeout; what reaches
    the error queue, which orders stay in `Fulfilling`, the reservation that
    expires before the timeout releases it, the commit whose event is lost.
11. The sellers' ledger, 12. customers.

Abstract specifications worth stating: a reservation (`open`, then one of two
ends).

## 6. What is not modelled, and why

- Placement, the packages' stamps and operators, the sellers' ledger, customers:
  not yet; see the plan. Of Shipping: the consumer of cancel-shipping, which only
  logs, the queries, and the gRPC service, which nothing calls. The events of Shipping, Operations, Stock and
  Payments enter the saga as a free environment, which contains whatever they do.
- Products, notifications, gateway, hosting, health checks and
  telemetry: single-document reads and writes, I/O and configuration.
- `reinstate-basket`: nothing in the repository sends it.
- Of the frontends: the notifications, the user's photograph, the layout, the
  loading of the sellers' portal into the shop with its error boundary, and the
  sellers' service page, which only display what one request answers; the
  products' table, which repeats the sales table without its requests; hooks that
  nothing calls (`useSetDefaultAddress`, `useUpdateCustomerAddress`); the build
  configuration. Nothing is claimed of a registration whose file was changed
  while another was being analysed: `file` and `extracted` may differ, as in the
  code.
- A login call that itself fails: it leaves the shop's `isRedirecting` set
  (`api/client.ts`), and no later request starts another. `OneRedirect` counts
  calls, and `RejectedMeansRedirect` says that one was made, not that it succeeded.
- The window between a call of `setImages` and its commit: `handleDragEnd` takes
  the images of the last render, the model the current ones.
- Some of what is modelled carries no property of its own, beyond its type: the
  specifications of a product (`ProductEditor`), the stock page, the search and the
  pages of the sales table (`SalesDesk`). They are there because the actions they
  overlap with are.
- The `EventSource` that a cleaned-up `connect()` may leave open.
- The clocks: the timeout and a reservation's expiry are events that may come
  at any time after they were armed, so both orders of the two five-minute
  clocks are covered.
- Amounts, addresses, names and the wording of events.
- RabbitMQ and the MassTransit pipeline themselves: redelivery, retry, inbox,
  outbox and error queue are modelled by what the code's configuration asks of
  them (marked external in the map).

## 7. Running

```
tlc -workers 2 -config OrderSaga.cfg MCOrderSaga
tlc -workers 2 -config OrderProjection.cfg MCOrderProjection
tlc -workers 2 -config OrderWorkflow.cfg MCOrderWorkflow
tlc -workers 2 -config StockReservation.cfg MCStockReservation
tlc -workers 2 -config Payments.cfg MCPayments
tlc -workers 2 -config Scenes.cfg MCScenes
```

The runs that end in a counterexample:

```
tlc -workers 2 -config OrderSagaRefundId.cfg MCOrderSaga
tlc -workers 2 -config OrderSagaStockFailure.cfg MCOrderSaga
tlc -workers 2 -config OrderWorkflowAnnounce.cfg MCOrderWorkflow
tlc -workers 2 -config OrderWorkflowRefund.cfg MCOrderWorkflow
tlc -workers 2 -config StockReservationReturn.cfg MCStockReservation
tlc -workers 2 -config PaidBasket.cfg MCScenes
```

The proofs:

```
for m in OrderSaga OrderProjection OrderWorkflow StockReservation Payments \
         Shop Scenes Shipping; do tlapm ${m}_proofs.tla; done
```

Definitions whose name ends in `Mutant`, or whose comment begins with it, are
slips the properties must catch: each stands before the definition it would
replace.
