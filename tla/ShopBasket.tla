------------------------------ MODULE ShopBasket ------------------------------
(***************************************************************************)
(* The customer's basket: the Basket service's Redis record, which every   *)
(* request reads, changes and writes back, and the browser's cached copy,  *)
(* which the header, the basket page and the checkout show.                *)
(*                                                                         *)
(* The cache is a TanStack query.  An acknowledged write invalidates it:   *)
(* a fetch in flight is cancelled and a new one is sent, unless the cache  *)
(* has never held data, in which case the fetch in flight is kept.  A      *)
(* failed fetch (404: the client has no basket) is tried once more, and    *)
(* after that the query holds an error and whatever data it had.           *)
(***************************************************************************)
EXTENDS Integers, FiniteSets

CONSTANTS
    Products,        \* products the customer may put in the basket
    NoBasket,        \* there is no record in Redis / no data in the cache
    MaxWrites,       \* bound on the clicks that change the basket
    MaxFaults        \* bound on Redis calls that fail

ASSUME BasketAssumption ==
    /\ MaxWrites \in Nat
    /\ MaxFaults \in Nat
    /\ NoBasket \notin [Products -> Nat]

VARIABLES
    stored,          \* the Redis record basket:<clientId>
    requests,        \* add and remove requests on their way or being served
    clicks,          \* writes sent so far: the ids of the requests
    faults,          \* Redis calls that have failed so far
    cart,            \* data of the query ["basket", clientId]
    cartFailed,      \* that query's last fetch ended in an error
    fetch,           \* the fetch of that query
    checkout,        \* what the saga does with the order made of this basket
    added,           \* history: adds the service has stored, by product
    version,         \* history: writes the service has stored
    shownVersion,    \* history: writes the data in the cache includes
    ackedVersion     \* history: writes acknowledged to a cache with data

cartService == <<stored, faults, added, version>>
cartBrowser == <<cart, cartFailed, fetch, shownVersion, ackedVersion>>
basketVars == <<cartService, cartBrowser, requests, clicks, checkout>>

Basket == [Products -> Nat]

\* The units of p in a record, an absent record having none.
Units(b, p) == IF b = NoBasket THEN 0 ELSE b[p]

\* Mutant: an item that is there already gets its unit twice.
WithOneMoreTwice(b, p) == [q \in Products |-> Units(b, q) + IF q = p THEN 1 + Units(b, p) ELSE 0]

\* AddProductToBasket: a missing record is replaced by one with this item.
WithOneMore(b, p) == [q \in Products |-> Units(b, q) + IF q = p THEN 1 ELSE 0]

\* RemoveProductFromBasket: the last unit takes the item out of the record.
WithOneLess(b, p) == [q \in Products |-> Units(b, q) - IF q = p THEN 1 ELSE 0]

CartRequests == [id : Nat, op : {"add", "remove"}, product : Products,
             place : {"header", "page"},
             phase : {"sent", "read", "stored", "refused"},
             seen : Basket \cup {NoBasket}, version : Nat]

Fetch == [phase : {"idle", "asked", "answered", "waiting"}, retried : BOOLEAN,
          seen : Basket \cup {NoBasket}, version : Nat]

BasketTypeOK ==
    /\ stored \in Basket \cup {NoBasket}
    /\ requests \subseteq CartRequests
    /\ clicks \in Nat
    /\ faults \in Nat
    /\ cart \in Basket \cup {NoBasket}
    /\ cartFailed \in BOOLEAN
    /\ fetch \in Fetch
    /\ checkout \in [placed : BOOLEAN, empty : {"none", "sent", "done"},
                     paid : {"none", "sent", "done"}]
    /\ added \in [Products -> Nat]
    /\ version \in Nat
    /\ shownVersion \in Nat
    /\ ackedVersion \in Nat

IdleFetch == [phase |-> "idle", retried |-> FALSE, seen |-> NoBasket, version |-> 0]
NewCartFetch == [IdleFetch EXCEPT !.phase = "asked"]

BasketInit ==
    /\ stored = NoBasket
    /\ requests = {}
    /\ clicks = 0
    /\ faults = 0
    /\ cart = NoBasket
    /\ cartFailed = FALSE
    /\ fetch = IdleFetch
    /\ checkout = [placed |-> FALSE, empty |-> "none", paid |-> "none"]
    /\ added = [p \in Products |-> 0]
    /\ version = 0
    /\ shownVersion = 0
    /\ ackedVersion = 0

---------------------------------------------------------------------------
(* What the browser shows and what it lets the customer click. *)

\* The items of the header's dropdown, of the basket page and of the order.
ShownItems == {p \in Products : Units(cart, p) > 0}

\* The basket page disables - or + while its own request is being served; the
\* header's buttons are never disabled.
MayClick(place, op, p) ==
    /\ clicks < MaxWrites
    /\ place = "page" => /\ ~cartFailed
                         /\ ~\E r \in requests : r.place = "page" /\ r.op = op
    /\ p \in ShownItems

\* "Add to cart" on a product, its list and the wishlist needs no cached item.
MayAddFromCatalogue == clicks < MaxWrites

\* Mutant: a fetch in flight is always kept (cancelRefetch: false).
CartInvalidatedJoining == IF fetch.phase # "idle" THEN fetch ELSE NewCartFetch

\* invalidateQueries on a query that is on screen.
CartInvalidated == IF fetch.phase # "idle" /\ cart = NoBasket THEN fetch ELSE NewCartFetch

SendWrite(place, op, p) ==
    /\ clicks' = clicks + 1
    /\ requests' = requests \cup
         {[id |-> clicks, op |-> op, product |-> p, place |-> place,
           phase |-> "sent", seen |-> NoBasket, version |-> 0]}
    /\ UNCHANGED <<cartService, cartBrowser, checkout>>

ClickAdd(place, p) == MayClick(place, "add", p) /\ SendWrite(place, "add", p)
ClickRemove(place, p) == MayClick(place, "remove", p) /\ SendWrite(place, "remove", p)
AddFromCatalogue(p) == MayAddFromCatalogue /\ SendWrite("header", "add", p)

---------------------------------------------------------------------------
(* The Basket service. *)

\* Replace a request in flight.
Replaced(r, s) == (requests \ {r}) \cup {s}

\* GetBasketByClientId: a Redis failure is answered like a missing record.
ReadRecord(r) ==
    /\ r \in requests /\ r.phase = "sent"
    /\ \/ requests' = Replaced(r, [r EXCEPT !.phase = "read", !.seen = stored])
          /\ UNCHANGED faults
       \/ faults < MaxFaults /\ faults' = faults + 1
          /\ requests' = Replaced(r, [r EXCEPT !.phase = "read", !.seen = NoBasket])
    /\ UNCHANGED <<stored, added, version, cartBrowser, clicks, checkout>>

StoreAdd(r) ==
    /\ r \in requests /\ r.phase = "read" /\ r.op = "add"
    /\ stored' = WithOneMore(r.seen, r.product)
    /\ added' = [added EXCEPT ![r.product] = @ + 1]
    /\ version' = version + 1
    /\ requests' = Replaced(r, [r EXCEPT !.phase = "stored", !.version = version + 1])
    /\ UNCHANGED <<faults, cartBrowser, clicks, checkout>>

\* Without the record or the item the answer is 404 and nothing is written.
StoreRemove(r) ==
    /\ r \in requests /\ r.phase = "read" /\ r.op = "remove"
    /\ IF Units(r.seen, r.product) > 0
         THEN /\ stored' = WithOneLess(r.seen, r.product)
              /\ version' = version + 1
              /\ requests' = Replaced(r, [r EXCEPT !.phase = "stored", !.version = version + 1])
         ELSE /\ requests' = Replaced(r, [r EXCEPT !.phase = "refused"])
              /\ UNCHANGED <<stored, version>>
    /\ UNCHANGED <<faults, added, cartBrowser, clicks, checkout>>

\* A record that cannot be written back is answered 404 as well.
StoreFails(r) ==
    /\ r \in requests /\ r.phase = "read" /\ faults < MaxFaults
    /\ faults' = faults + 1
    /\ requests' = Replaced(r, [r EXCEPT !.phase = "refused"])
    /\ UNCHANGED <<stored, added, version, cartBrowser, clicks, checkout>>

\* EmptyBasketCommandConsumer deletes the record whatever it holds by now.
EmptyBasket ==
    /\ checkout.empty = "sent"
    /\ stored' = NoBasket
    /\ checkout' = [checkout EXCEPT !.empty = "done"]
    /\ UNCHANGED <<faults, added, version, cartBrowser, requests, clicks>>

---------------------------------------------------------------------------
(* The query and the mutations in the browser. *)

\* The first component that shows the basket mounts, or the window regains
\* the focus when the data is older than staleTime.
Refetch ==
    /\ fetch.phase = "idle"
    /\ fetch' = NewCartFetch
    /\ UNCHANGED <<cartService, cart, cartFailed, shownVersion, ackedVersion, requests, clicks, checkout>>

\* GetBasketLoadedByClientId, which answers a Redis failure as a missing record.
AnswerFetch ==
    /\ fetch.phase = "asked"
    /\ \/ fetch' = [fetch EXCEPT !.phase = "answered", !.seen = stored, !.version = version]
          /\ UNCHANGED faults
       \/ faults < MaxFaults /\ faults' = faults + 1
          /\ fetch' = [fetch EXCEPT !.phase = "answered", !.seen = NoBasket]
    /\ UNCHANGED <<stored, added, version, cart, cartFailed, shownVersion, ackedVersion, requests, clicks, checkout>>

FetchSucceeds ==
    /\ fetch.phase = "answered" /\ fetch.seen # NoBasket
    /\ cart' = fetch.seen
    /\ shownVersion' = fetch.version
    /\ cartFailed' = FALSE
    /\ fetch' = IdleFetch
    /\ UNCHANGED <<cartService, ackedVersion, requests, clicks, checkout>>

\* No record: 404.  One retry, then the error is kept beside the old data.
FetchFails ==
    /\ fetch.phase = "answered" /\ fetch.seen = NoBasket
    /\ IF fetch.retried
         THEN fetch' = IdleFetch /\ cartFailed' = TRUE
         ELSE fetch' = [fetch EXCEPT !.phase = "waiting"] /\ UNCHANGED cartFailed
    /\ UNCHANGED <<cartService, cart, shownVersion, ackedVersion, requests, clicks, checkout>>

RetryFetch ==
    /\ fetch.phase = "waiting"
    /\ fetch' = [NewCartFetch EXCEPT !.retried = TRUE]
    /\ UNCHANGED <<cartService, cart, cartFailed, shownVersion, ackedVersion, requests, clicks, checkout>>

\* onSuccess of useAddToBasket and useRemoveFromBasket.
WriteAcknowledged(r) ==
    /\ r \in requests /\ r.phase = "stored"
    /\ requests' = requests \ {r}
    /\ fetch' = CartInvalidated
    /\ ackedVersion' = IF cart # NoBasket /\ r.version > ackedVersion
                         THEN r.version ELSE ackedVersion
    /\ UNCHANGED <<cartService, cart, cartFailed, shownVersion, clicks, checkout>>

\* A refused write has no onError: nothing is fetched.
WriteRefused(r) ==
    /\ r \in requests /\ r.phase = "refused"
    /\ requests' = requests \ {r}
    /\ UNCHANGED <<cartService, cartBrowser, clicks, checkout>>

\* handlePlaceOrder, once the order is accepted.
OrderPlaced ==
    /\ ~checkout.placed /\ ShownItems # {}
    /\ checkout' = [checkout EXCEPT !.placed = TRUE]
    /\ fetch' = CartInvalidated
    /\ UNCHANGED <<cartService, cart, cartFailed, shownVersion, ackedVersion, requests, clicks>>

\* The saga learns of the payment: it empties the basket and announces Paid.
OrderPaid ==
    /\ checkout.placed /\ checkout.empty = "none"
    /\ checkout' = [checkout EXCEPT !.empty = "sent", !.paid = "sent"]
    /\ UNCHANGED <<cartService, cartBrowser, requests, clicks>>

\* The status stream's handler of Paid.
PaidReceived ==
    /\ checkout.paid = "sent"
    /\ checkout' = [checkout EXCEPT !.paid = "done"]
    /\ fetch' = CartInvalidated
    /\ UNCHANGED <<cartService, cart, cartFailed, shownVersion, ackedVersion, requests, clicks>>

---------------------------------------------------------------------------
BasketNext ==
    \/ \E place \in {"header", "page"}, p \in Products :
          ClickAdd(place, p) \/ ClickRemove(place, p)
    \/ \E p \in Products : AddFromCatalogue(p)
    \/ \E r \in requests : ReadRecord(r) \/ StoreAdd(r) \/ StoreRemove(r)
                           \/ StoreFails(r) \/ WriteAcknowledged(r) \/ WriteRefused(r)
    \/ Refetch \/ AnswerFetch \/ FetchSucceeds \/ FetchFails \/ RetryFetch
    \/ OrderPlaced \/ OrderPaid \/ EmptyBasket \/ PaidReceived

\* The service answers, the broker delivers and the retry timer fires.
BasketFairness ==
    /\ WF_basketVars(AnswerFetch \/ FetchSucceeds \/ FetchFails \/ RetryFetch)
    /\ WF_basketVars(EmptyBasket)
    /\ WF_basketVars(PaidReceived)

BasketSpec == BasketInit /\ [][BasketNext]_basketVars /\ BasketFairness

---------------------------------------------------------------------------
(* Properties. *)

\* However requests overlap and whichever reads fail, the record never holds
\* more units of a product than adds were stored: read-modify-write may lose
\* an update and a late write may bring an emptied basket back, but no
\* interleaving counts an add twice (BasketCache.AddProductToBasket).
NoItemFromNowhere == \A p \in Products : Units(stored, p) <= added[p]

\* A cart that has data never shows, once its fetch is over, data older than
\* a write it was told had succeeded: the invalidation of onSuccess wins over
\* a fetch that read the record before that write (useBasket.ts).
CartShowsOwnWrites ==
    fetch.phase = "idle" /\ ~cartFailed /\ cart # NoBasket => shownVersion >= ackedVersion

\* When the basket of a paid order has been emptied, the shop ends up showing
\* an empty basket, unless the customer has put something in again
\* (docs/plans/production-readiness/messaging-regression.md:32).
PaidBasketLooksEmpty ==
    (checkout.empty = "done" /\ stored = NoBasket)
        ~> (ShownItems = {} \/ stored # NoBasket)
=============================================================================
