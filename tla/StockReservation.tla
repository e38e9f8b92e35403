-------------------------- MODULE StockReservation --------------------------
(***************************************************************************)
(* Stock: the product quantities and the reservations of the orders, two   *)
(* collections of one Mongo database, changed by the gRPC ReserveStock,    *)
(* the commit and release consumers, the stock API and the consumer of     *)
(* published products.  Every operation reads a document, computes, and    *)
(* replaces the whole document; nothing checks that it is still the one    *)
(* read, so operations of different workers interleave at every await.     *)
(*                                                                         *)
(* An order asks for a number of units of each product it wants.  A        *)
(* process may stop anywhere; a command may be delivered again at any time.*)
(***************************************************************************)
EXTENDS FiniteSets, Integers

CONSTANTS
  Workers,     \* requests and deliveries in progress at once
  Products,
  OrderIds,
  Wanted,      \* the units of each product an order asks for, if any
  Supplied,    \* the units of each product at the start
  MaxUnits,    \* bound: units of one item, or of one stock operation
  MaxAdjusts,  \* bound: operations of the stock API
  MaxCrashes   \* bound: operations cut short by the end of their process

ASSUME StockAssumption ==
  /\ IsFiniteSet(OrderIds)
  /\ MaxUnits \in Nat
  /\ Wanted \in [OrderIds -> [Products -> 0..MaxUnits]]
  /\ Supplied \in [Products -> Nat]
  /\ MaxAdjusts \in Nat
  /\ MaxCrashes \in Nat

VARIABLES
  stock,        \* Quantity of each product's document
  reservation,  \* each order's reservation
  expired,      \* the orders whose ValidUntil has passed
  job,          \* what each worker is doing, and the documents it has read
  announced,    \* history: the outcomes published for each order
  supply,       \* history: units supplied, less units taken by the stock API
  adjusts,      \* operations of the stock API so far
  overlapped,   \* history: two operations were in progress at once
  crashes       \* operations cut short so far

stockVars == <<stock, reservation, expired, job, announced, supply, adjusts,
               overlapped, crashes>>

(* IsCommitted and CommittedAt: open has neither, released only the time.  *)
Reservation == [status: {"none", "open", "committed", "released"},
                items: [Products -> 0..MaxUnits]]

NoItems == [p \in Products |-> 0]

NoReservation == [status |-> "none", items |-> NoItems]

Kinds == {"reserve", "commit", "release", "increase", "decrease", "publish"}

Idle == [kind |-> "none", step |-> "next", order |-> "none", todo |-> {},
         read |-> 0, units |-> 0, product |-> "none", res |-> NoReservation]

StockTypeOK ==
  /\ stock \in [Products -> Nat]
  /\ reservation \in [OrderIds -> Reservation]
  /\ expired \subseteq OrderIds
  /\ \A w \in Workers :
       /\ job[w].kind \in Kinds \cup {"none"}
       /\ job[w].todo \subseteq Products
       /\ job[w].read \in Nat /\ job[w].res \in Reservation
  /\ announced \in [OrderIds -> SUBSET {"committed", "failed", "released"}]
  /\ supply \in [Products -> Int]

StockInit ==
  /\ stock = Supplied
  /\ reservation = [o \in OrderIds |-> NoReservation]
  /\ expired = {}
  /\ job = [w \in Workers |-> Idle]
  /\ announced = [o \in OrderIds |-> {}]
  /\ supply = Supplied
  /\ adjusts = 0
  /\ overlapped = FALSE
  /\ crashes = 0

-----------------------------------------------------------------------------
(***************************************************************************)
(* Documents and jobs.                                                     *)
(***************************************************************************)

(* GetByProductIdAsync finds no document whose quantity is zero.           *)
Found(p) == stock[p] # 0

(* A slip: a product in stock is taken however few units there are.        *)
CoversAnyMutant(p, units) == Found(p)

(* There are as many units as are asked for.                               *)
Covers(p, units) == Found(p) /\ stock[p] >= units

(* The products of an order or a reservation: those with units.            *)
Items(quantities) == {p \in Products : quantities[p] > 0}

Busy(w) == job[w].kind # "none"

At(w, kind, step) == job[w].kind = kind /\ job[w].step = step

(* A worker starts an operation on what it has just read.                  *)
Start(w, j) ==
  /\ ~ Busy(w)
  /\ job' = [job EXCEPT ![w] = j]
  /\ overlapped' = (overlapped \/ \E v \in Workers : Busy(v))

End(w) == job' = [job EXCEPT ![w] = Idle]

(* The document of a product is read, and the step goes on with it or the  *)
(* product is passed over.                                                 *)
Reading(w, p, step, units, goesOn) ==
  IF goesOn
  THEN [job[w] EXCEPT !.todo = @ \ {p}, !.step = step, !.product = p,
                      !.read = stock[p], !.units = units]
  ELSE [job[w] EXCEPT !.todo = @ \ {p}]

Written(w) == [job[w] EXCEPT !.step = "next", !.product = "none", !.read = 0,
                             !.units = 0]

(* The decision is written; its message leaves after the operation.        *)
Decided(w) ==
  job' = [job EXCEPT ![w].step = "publish", ![w].res = NoReservation]

Publish(o, outcome) ==
  announced' = [announced EXCEPT ![o] = @ \cup {outcome}]

-----------------------------------------------------------------------------
(***************************************************************************)
(* ReserveStock.                                                           *)
(***************************************************************************)

(* Only an order without a reservation gets past the first read.           *)
BeginReserve(w, o) ==
  /\ reservation[o].status = "none"
  /\ Start(w, [Idle EXCEPT !.kind = "reserve", !.order = o,
                           !.todo = Items(Wanted[o]),
                           !.res = [status |-> "open", items |-> NoItems]])
  /\ UNCHANGED <<stock, reservation, expired, announced, supply, adjusts,
                 crashes>>

(* One item: its stock is read; a product with fewer units than the order  *)
(* asks for is left out, whole.                                            *)
ReadItem(w, p) ==
  /\ At(w, "reserve", "next") /\ p \in job[w].todo
  /\ LET units == Wanted[job[w].order][p]
     IN  job' = [job EXCEPT ![w] =
                   Reading(w, p, "take", units, Covers(p, units))]
  /\ UNCHANGED <<stock, reservation, expired, announced, supply, adjusts,
                 overlapped, crashes>>

TakeItem(w) ==
  /\ At(w, "reserve", "take")
  /\ stock' = [stock EXCEPT ![job[w].product] = job[w].read - job[w].units]
  /\ job' = [job EXCEPT ![w] = [Written(w) EXCEPT
                                 !.res.items[job[w].product] = job[w].units]]
  /\ UNCHANGED <<reservation, expired, announced, supply, adjusts, overlapped,
                 crashes>>

(* The reservation is inserted whatever was out of stock; a second insert  *)
(* for the same order fails on its key, after its items were taken.        *)
InsertReservation(w) ==
  /\ At(w, "reserve", "next") /\ job[w].todo = {}
  /\ IF reservation[job[w].order].status = "none"
     THEN reservation' = [reservation EXCEPT ![job[w].order] = job[w].res]
     ELSE UNCHANGED reservation
  /\ End(w)
  /\ UNCHANGED <<stock, expired, announced, supply, adjusts, overlapped,
                 crashes>>

-----------------------------------------------------------------------------
(***************************************************************************)
(* CommitStockReservationConsumer and ReleaseStockReservationConsumer.     *)
(***************************************************************************)

(* The saga knows a reservation only after ReserveStock has inserted it.   *)
Placed(o) == reservation[o].status # "none"

(* A slip: the check of CommittedAt is gone.                               *)
DecidableAgainMutant(o) ==
  reservation[o].status \in {"open", "released"} /\ o \notin expired

(* A reservation that may still be decided: neither committed nor released *)
(* before, and not expired.                                                *)
Decidable(o) == reservation[o].status = "open" /\ o \notin expired

BeginCommit(w, o) ==
  /\ Decidable(o)
  /\ Start(w, [Idle EXCEPT !.kind = "commit", !.order = o,
                           !.res = reservation[o]])
  /\ UNCHANGED <<stock, reservation, expired, announced, supply, adjusts,
                 crashes>>

(* A slip: the early return for a duplicate commit is gone.                *)
RefuseDuplicateMutant(w, o) ==
  /\ Placed(o) /\ ~ Decidable(o)
  /\ ~ Busy(w)
  /\ Publish(o, "failed")
  /\ overlapped' = (overlapped \/ \E v \in Workers : Busy(v))
  /\ UNCHANGED <<stock, reservation, expired, job, supply, adjusts, crashes>>

(* A released or expired reservation is refused; a duplicate of a commit   *)
(* that succeeded is acknowledged and changes nothing, published or not.   *)
RefuseCommit(w, o) ==
  /\ Placed(o) /\ ~ Decidable(o) /\ reservation[o].status # "committed"
  /\ ~ Busy(w)
  /\ Publish(o, "failed")
  /\ overlapped' = (overlapped \/ \E v \in Workers : Busy(v))
  /\ UNCHANGED <<stock, reservation, expired, job, supply, adjusts, crashes>>

WriteCommit(w) ==
  /\ At(w, "commit", "next")
  /\ reservation' = [reservation EXCEPT
       ![job[w].order] = [job[w].res EXCEPT !.status = "committed"]]
  /\ Decided(w)
  /\ UNCHANGED <<stock, expired, announced, supply, adjusts, overlapped,
                 crashes>>

PublishCommit(w) ==
  /\ At(w, "commit", "publish")
  /\ Publish(job[w].order, "committed")
  /\ End(w)
  /\ UNCHANGED <<stock, reservation, expired, supply, adjusts, overlapped,
                 crashes>>

(* A release of a decided or expired reservation is acknowledged, and      *)
(* changes nothing.                                                        *)
BeginRelease(w, o) ==
  /\ Decidable(o)
  /\ Start(w, [Idle EXCEPT !.kind = "release", !.order = o,
                           !.res = reservation[o],
                           !.todo = Items(reservation[o].items)])
  /\ UNCHANGED <<stock, reservation, expired, announced, supply, adjusts,
                 crashes>>

(* One item: a product whose stock is not found is skipped.                *)
ReadReturned(w, p) ==
  /\ At(w, "release", "next") /\ p \in job[w].todo
  /\ job' = [job EXCEPT ![w] =
               Reading(w, p, "return", job[w].res.items[p], Found(p))]
  /\ UNCHANGED <<stock, reservation, expired, announced, supply, adjusts,
                 overlapped, crashes>>

ReturnItem(w) ==
  /\ At(w, "release", "return")
  /\ stock' = [stock EXCEPT ![job[w].product] = job[w].read + job[w].units]
  /\ job' = [job EXCEPT ![w] = Written(w)]
  /\ UNCHANGED <<reservation, expired, announced, supply, adjusts, overlapped,
                 crashes>>

(* A slip: the released reservation is not saved.                          *)
ReleaseUnsavedMutant(w) ==
  /\ At(w, "release", "next") /\ job[w].todo = {}
  /\ Decided(w)
  /\ UNCHANGED <<stock, reservation, expired, announced, supply, adjusts,
                 overlapped, crashes>>

WriteRelease(w) ==
  /\ At(w, "release", "next") /\ job[w].todo = {}
  /\ reservation' = [reservation EXCEPT
       ![job[w].order] = [job[w].res EXCEPT !.status = "released"]]
  /\ Decided(w)
  /\ UNCHANGED <<stock, expired, announced, supply, adjusts, overlapped,
                 crashes>>

PublishRelease(w) ==
  /\ At(w, "release", "publish")
  /\ Publish(job[w].order, "released")
  /\ End(w)
  /\ UNCHANGED <<stock, reservation, expired, supply, adjusts, overlapped,
                 crashes>>

-----------------------------------------------------------------------------
(***************************************************************************)
(* The stock API, and published products.                                  *)
(***************************************************************************)

(* Increase and Decrease by a number of units.  The document is read as it *)
(* is, or not found; Decrease refuses then, and when there are fewer units *)
(* than it takes.  The operation key is taken before the write, so an      *)
(* operation that stops is not run again.                                  *)
BeginAdjust(w, kind, p, units) ==
  /\ adjusts < MaxAdjusts
  /\ kind = "decrease" => Covers(p, units)
  /\ Start(w, [Idle EXCEPT !.kind = kind, !.product = p, !.read = stock[p],
                           !.units = units])
  /\ adjusts' = adjusts + 1
  /\ UNCHANGED <<stock, reservation, expired, announced, supply, crashes>>

WriteAdjust(w) ==
  LET p == job[w].product
      change == IF job[w].kind = "increase" THEN job[w].units
                                            ELSE - job[w].units
  IN  /\ job[w].kind \in {"increase", "decrease"}
      /\ stock' = [stock EXCEPT ![p] = job[w].read + change]
      /\ supply' = [supply EXCEPT ![p] = @ + change]
      /\ End(w)
      /\ UNCHANGED <<reservation, expired, announced, adjusts, overlapped,
                     crashes>>

(* A published product, or one published again, gets a document with no    *)
(* units, unless one with units is found.                                  *)
BeginPublished(w, p) ==
  /\ ~ Found(p)
  /\ Start(w, [Idle EXCEPT !.kind = "publish", !.product = p])
  /\ UNCHANGED <<stock, reservation, expired, announced, supply, adjusts,
                 crashes>>

WritePublished(w) ==
  /\ job[w].kind = "publish"
  /\ stock' = [stock EXCEPT ![job[w].product] = 0]
  /\ End(w)
  /\ UNCHANGED <<reservation, expired, announced, supply, adjusts, overlapped,
                 crashes>>

-----------------------------------------------------------------------------
(* ValidUntil passes; an operation compares it with what it has just read. *)
Expire(o) ==
  /\ Placed(o) /\ o \notin expired
  /\ expired' = expired \cup {o}
  /\ UNCHANGED <<stock, reservation, job, announced, supply, adjusts,
                 overlapped, crashes>>

(* The process stops: what it wrote stays, its messages are lost.          *)
Crash(w) ==
  /\ Busy(w)
  /\ crashes < MaxCrashes
  /\ End(w)
  /\ crashes' = crashes + 1
  /\ UNCHANGED <<stock, reservation, expired, announced, supply, adjusts,
                 overlapped>>

Reserve(w) == \/ \E o \in OrderIds : BeginReserve(w, o)
              \/ \E p \in Products : ReadItem(w, p)
              \/ TakeItem(w) \/ InsertReservation(w)

CommitReservation(w) == \/ \E o \in OrderIds : BeginCommit(w, o)
                        \/ \E o \in OrderIds : RefuseCommit(w, o)
                        \/ WriteCommit(w) \/ PublishCommit(w)

ReleaseReservation(w) == \/ \E o \in OrderIds : BeginRelease(w, o)
                         \/ \E p \in Products : ReadReturned(w, p)
                         \/ ReturnItem(w) \/ WriteRelease(w)
                         \/ PublishRelease(w)

Adjust(w) == \/ \E p \in Products, kind \in {"increase", "decrease"},
                  units \in 1..MaxUnits : BeginAdjust(w, kind, p, units)
             \/ \E p \in Products : BeginPublished(w, p)
             \/ WriteAdjust(w) \/ WritePublished(w)

StockNext ==
  \/ \E w \in Workers : \/ Reserve(w) \/ CommitReservation(w)
                        \/ ReleaseReservation(w) \/ Adjust(w) \/ Crash(w)
  \/ \E o \in OrderIds : Expire(o)

StockSpec == StockInit /\ [][StockNext]_stockVars

-----------------------------------------------------------------------------
(***************************************************************************)
(* Properties.                                                             *)
(***************************************************************************)

(* The units of a product that reservations account for.                   *)
Held(p) == Cardinality({u \in OrderIds \X (1..MaxUnits) :
             /\ reservation[u[1]].status \in {"open", "committed"}
             /\ u[2] <= reservation[u[1]].items[p]})

Quiet == \A w \in Workers : ~ Busy(w)

(* A commit or a release is final: a decided reservation changes only by   *)
(* an operation that read it while it was open, however late it writes.    *)
DecisionsStick ==
  [][\A o \in OrderIds :
       /\ reservation[o].status \in {"committed", "released"}
       /\ reservation'[o].status # reservation[o].status
       => \E w \in Workers : /\ job[w].order = o
                             /\ job[w].res.status = "open"
                             /\ job[w].kind \in {"commit", "release"}]_reservation

(* Operations that do not overlap never invent units, however often a      *)
(* command is repeated: what is on the shelf and what is reserved or sold  *)
(* is never more than was supplied.  (They do overlap in production; the   *)
(* property says what the missing version check costs, and nothing else.)  *)
NoUnitsFromNowhere ==
  Quiet /\ ~ overlapped /\ crashes = 0
    => \A p \in Products : stock[p] + Held(p) <= supply[p]

(* Where operations do not overlap, an order told that its stock is        *)
(* committed is told nothing else before or after, through any crash,      *)
(* repetition and expiry, and its reservation is committed.                *)
OneOutcome ==
  ~ overlapped =>
    \A o \in OrderIds : "committed" \in announced[o] =>
      announced[o] = {"committed"} /\ reservation[o].status = "committed"

(* Claimed of a rejected payment: the stock of the order is released, so   *)
(* units that were reserved by released orders only are on the shelf.      *)
ReleasedUnitsReturn ==
  Quiet /\ ~ overlapped /\ crashes = 0 =>
    \A o \in OrderIds :
      "released" \in announced[o] =>
        \A p \in Items(reservation[o].items) :
          stock[p] + Held(p) >= supply[p]
=============================================================================
