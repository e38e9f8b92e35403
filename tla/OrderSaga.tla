----------------------------- MODULE OrderSaga -----------------------------
(***************************************************************************)
(* The saga of one order: OrderStateMachine.cs run by MassTransit over the *)
(* Entity Framework repository of Program.cs.  Several deliveries for the  *)
(* order may be in progress at once, each on a worker of the endpoint: it  *)
(* reads the saga row, computes a transition, and commits the new row and  *)
(* the commands of the transition in one transaction, if the row's xmin is *)
(* still the one it read.  A conflicting delivery is retried MaxRetries    *)
(* times against the new row, then goes to the error queue.                *)
(*                                                                         *)
(* Any event may be delivered again at any time, under the same envelope   *)
(* or a new one, so the inbox is not modelled: it only removes deliveries. *)
(***************************************************************************)
EXTENDS Naturals

CONSTANTS
  Workers,      \* concurrent deliveries of the endpoint
  MaxRetries,   \* retry.Immediate(5) of OrderStateMachineDefinition
  Shipments,    \* shipment ids the provider may answer with
  PaymentId,    \* the payment id OrderSubmittedEvent carries
  Transaction,  \* the provider transaction PaymentCompletedEvent carries
  NoId          \* Guid.Empty, or the empty transaction

ASSUME ConstantsAssumption ==
  /\ MaxRetries \in Nat
  /\ NoId \notin Shipments \cup {PaymentId, Transaction}

VARIABLES
  saga,     \* the saga row; state "Initial", version 0 while there is none
  worker,   \* what each worker is delivering, and the row it has read
  sent,     \* history: how often each command has been written to the outbox
  refunds,  \* history: the identifiers the refund-payment commands carry
  named     \* history: the shipments confirm- and cancel-shipping commands name

vars == <<saga, worker, sent, refunds, named>>

States == {"Initial", "Submitted", "Processing", "ShippingScheduled",
           "StockCommitted", "Fulfilling", "ReadyForPickup", "Shipped",
           "Completed", "Failed"}

Terminal == {"Completed", "Failed"}

Events == {"OrderSubmitted", "OrderCompleted", "PaymentCompleted",
           "PaymentFailed", "PaymentTimeout", "StockReservationCommitted",
           "StockReservationCommitFailed", "OrderReadyForPickup",
           "PackageIssueReported", "ShippingFailed", "ShippingScheduledEvent",
           "OrderShipped", "OrderDelivered"}

(***************************************************************************)
(* The commands of the saga by queue; update-order-status-command is split *)
(* by the status it asks for.                                              *)
(***************************************************************************)
Compensations == {"release-stock-reservation", "refund-payment",
                  "cancel-shipping", "cancelled-status",
                  "cancel-order-command"}

Commands == Compensations \cup
  {"payment-timeout", "commit-stock-reservation", "empty-basket",
   "schedule-shipping", "mark-paid", "prepare-package",
   "stock-committed-status", "shipping-scheduled-status", "confirm-shipping",
   "ready-for-pickup-status", "shipped-status", "complete-order",
   "delivered-status"}

Row == [state: States, version: Nat, armed: BOOLEAN,
        shipment: Shipments \cup {NoId}, payment: {PaymentId, NoId},
        tx: {Transaction, NoId}]

NoRow == [state |-> "Initial", version |-> 0, armed |-> FALSE,
          shipment |-> NoId, payment |-> NoId, tx |-> NoId]

Idle == [event |-> "none", row |-> NoRow, tries |-> 0]

Delivery == [event: Events \cup {"none"}, row: Row, tries: 0 .. MaxRetries]

TypeOK ==
  /\ saga \in Row
  /\ worker \in [Workers -> Delivery]
  /\ sent \in [Commands -> Nat]
  /\ refunds \subseteq [payment: {PaymentId, NoId}, tx: {Transaction, NoId}]
  /\ named \subseteq Shipments \cup {NoId}

Init ==
  /\ saga = NoRow
  /\ worker = [w \in Workers |-> Idle]
  /\ sent = [c \in Commands |-> 0]
  /\ refunds = {}
  /\ named = {}

-----------------------------------------------------------------------------
(***************************************************************************)
(* Deliveries.                                                             *)
(***************************************************************************)

(* What must have happened before a producer publishes the event.  The     *)
(* operators' API makes a package on demand, so its events need nothing;   *)
(* no service publishes ShippingFailed or OrderCompleted, which the state  *)
(* machine handles all the same.                                           *)
Published(e) ==
  /\ e = "PaymentTimeout" => sent["payment-timeout"] > 0
  /\ e \in {"StockReservationCommitted", "StockReservationCommitFailed"}
       => sent["commit-stock-reservation"] > 0
  /\ e \in {"ShippingScheduledEvent", "ShippingFailed", "OrderShipped",
            "OrderDelivered"}
       => sent["schedule-shipping"] > 0

(* A worker takes an event and reads the saga row.                         *)
Receive(w, e) ==
  /\ worker[w].event = "none"
  /\ Published(e)
  /\ worker' = [worker EXCEPT ![w] = [event |-> e, row |-> saga, tries |-> 0]]
  /\ UNCHANGED <<saga, sent, refunds, named>>

Done(w) == worker' = [worker EXCEPT ![w] = Idle]

(* The worker delivers e, and read the row in one of the states ss.        *)
Holds(w, e, ss) == worker[w].event = e /\ worker[w].row.state \in ss

Send(cmds) == sent' = [c \in Commands |-> IF c \in cmds THEN sent[c] + 1
                                                        ELSE sent[c]]

(* A slip: any row is overwritten, the token is not compared.              *)
RowUncheckedMutant(w) == saga.version >= worker[w].row.version

(* The transaction of an accepted event: the row is updated only where its *)
(* xmin is the one read, and the commands go to the outbox with it.        *)
RowUnchanged(w) == worker[w].row.version = saga.version

Commit(w, row, cmds) ==
  /\ RowUnchanged(w)
  /\ saga' = [row EXCEPT !.version = @ + 1]
  /\ Send(cmds)
  /\ Done(w)

NoPayload == UNCHANGED <<refunds, named>>

(* The identifiers of the refund and shipping commands among cmds.         *)
Payload(row, cmds) ==
  /\ refunds' = IF "refund-payment" \in cmds
                THEN refunds \cup {[payment |-> row.payment, tx |-> row.tx]}
                ELSE refunds
  /\ named' = IF cmds \cap {"confirm-shipping", "cancel-shipping"} # {}
              THEN named \cup {row.shipment} ELSE named

MoveTo(w, s) == [worker[w].row EXCEPT !.state = s]

(* Every failure path: the compensations, then Failed.                     *)
Fail(w, cmds) ==
  /\ Commit(w, MoveTo(w, "Failed"),
            cmds \cup {"cancelled-status", "cancel-order-command"})
  /\ Payload(worker[w].row, cmds)

(* cancel-shipping is sent only once the saga knows the shipment.          *)
CancelShipping(row) ==
  IF row.shipment # NoId THEN {"cancel-shipping"} ELSE {}

-----------------------------------------------------------------------------
(***************************************************************************)
(* The transitions.                                                        *)
(***************************************************************************)

(* A slip: an order placed again starts its finished saga again.           *)
PlaceAgainMutant(w) ==
  /\ Holds(w, "OrderSubmitted", {"Initial"} \cup Terminal)
  /\ Commit(w, [worker[w].row EXCEPT !.state = "Submitted", !.armed = TRUE,
                                     !.payment = PaymentId],
            {"payment-timeout"})
  /\ NoPayload

(* A slip: no payment timeout is scheduled.                                *)
PlaceUntimedMutant(w) ==
  /\ Holds(w, "OrderSubmitted", {"Initial"})
  /\ Commit(w, [worker[w].row EXCEPT !.state = "Submitted",
                                     !.payment = PaymentId], {})
  /\ NoPayload

OnOrderSubmitted(w) ==
  /\ Holds(w, "OrderSubmitted", {"Initial"})
  /\ Commit(w, [worker[w].row EXCEPT !.state = "Submitted", !.armed = TRUE,
                                     !.payment = PaymentId],
            {"payment-timeout"})
  /\ NoPayload

(* Payments publishes the event with the transaction and no PaymentId.     *)
OnPaymentCompleted(w) ==
  /\ Holds(w, "PaymentCompleted", {"Submitted"})
  /\ Commit(w, [worker[w].row EXCEPT !.state = "Processing", !.armed = FALSE,
                                     !.payment = NoId, !.tx = Transaction],
            {"commit-stock-reservation", "empty-basket", "schedule-shipping",
             "mark-paid"})
  /\ NoPayload

(* A slip: the timeout is bound in Processing too, and its token ignored.  *)
TimeoutAnywhereMutant(w) ==
  /\ Holds(w, "PaymentTimeout", {"Submitted", "Processing"})
  /\ Commit(w, [worker[w].row EXCEPT !.state = "Failed", !.armed = FALSE],
            {"release-stock-reservation", "cancelled-status",
             "cancel-order-command"})
  /\ NoPayload

(* A slip: the timeout cancels the order, and the saga stays where it is.  *)
TimeoutStaysMutant(w) ==
  /\ Holds(w, "PaymentTimeout", {"Submitted"})
  /\ worker[w].row.armed
  /\ Commit(w, [worker[w].row EXCEPT !.armed = FALSE],
            {"release-stock-reservation", "cancelled-status",
             "cancel-order-command"})
  /\ NoPayload

(* Only the message of the row's own token raises the timeout.             *)
OnPaymentTimeout(w) ==
  /\ Holds(w, "PaymentTimeout", {"Submitted"})
  /\ worker[w].row.armed
  /\ Commit(w, [worker[w].row EXCEPT !.state = "Failed", !.armed = FALSE],
            {"release-stock-reservation", "cancelled-status",
             "cancel-order-command"})
  /\ NoPayload

(* In Failed the row may still hold the token: PaymentFailed leaves the    *)
(* timeout scheduled.  Raising it is ignored, and clears the token.        *)
OnLateTimeout(w) ==
  /\ worker[w].event = "PaymentTimeout"
  /\ worker[w].row.state \notin {"Initial", "Submitted"}
  /\ worker[w].row.armed
  /\ Commit(w, [worker[w].row EXCEPT !.armed = FALSE], {})
  /\ NoPayload

OnPaymentFailed(w) ==
  /\ Holds(w, "PaymentFailed", {"Submitted"})
  /\ Fail(w, {"release-stock-reservation"})

(* A slip: the first half of the join goes straight to Fulfilling.         *)
NoJoinMutant(s) == IF s \in States THEN "Fulfilling" ELSE s

NextAfterShipping(s) ==
  IF s = "Processing" THEN "ShippingScheduled" ELSE "Fulfilling"

OnShippingScheduled(w) ==
  /\ Holds(w, "ShippingScheduledEvent", {"Processing", "StockCommitted"})
  /\ \E id \in Shipments :
       Commit(w, [worker[w].row EXCEPT
                    !.state = NextAfterShipping(worker[w].row.state),
                    !.shipment = id],
              {"shipping-scheduled-status"})
  /\ NoPayload

NextAfterStock(s) ==
  IF s = "Processing" THEN "StockCommitted" ELSE "Fulfilling"

OnStockCommitted(w) ==
  /\ Holds(w, "StockReservationCommitted", {"Processing", "ShippingScheduled"})
  /\ Commit(w, MoveTo(w, NextAfterStock(worker[w].row.state)),
            {"prepare-package", "stock-committed-status"})
  /\ NoPayload

OnReadyForPickup(w) ==
  /\ Holds(w, "OrderReadyForPickup", {"Fulfilling"})
  /\ Commit(w, MoveTo(w, "ReadyForPickup"),
            {"confirm-shipping", "ready-for-pickup-status"})
  /\ Payload(worker[w].row, {"confirm-shipping"})

BeforeStockOutcome == {"Processing", "ShippingScheduled", "StockCommitted"}

BeforeDispatch == BeforeStockOutcome \cup {"Fulfilling", "ReadyForPickup"}

OnStockCommitFailed(w) ==
  /\ Holds(w, "StockReservationCommitFailed", BeforeStockOutcome)
  /\ Fail(w, {"refund-payment"} \cup CancelShipping(worker[w].row))

(* A slip: a package issue cancels the order without a refund.             *)
IssueWithoutRefundMutant(w) ==
  /\ Holds(w, "PackageIssueReported", BeforeDispatch)
  /\ Fail(w, {"release-stock-reservation"} \cup CancelShipping(worker[w].row))

OnPackageIssue(w) ==
  /\ Holds(w, "PackageIssueReported", BeforeDispatch)
  /\ Fail(w, {"refund-payment", "release-stock-reservation"}
             \cup CancelShipping(worker[w].row))

(* Before dispatch the reservation is released too, after it only refunded.*)
OnShippingFailed(w) ==
  \/ /\ Holds(w, "ShippingFailed", BeforeDispatch)
     /\ Fail(w, {"refund-payment", "release-stock-reservation"})
  \/ /\ Holds(w, "ShippingFailed", {"Shipped"})
     /\ Fail(w, {"refund-payment"})

OnOrderShipped(w) ==
  /\ Holds(w, "OrderShipped", BeforeDispatch)
  /\ Commit(w, MoveTo(w, "Shipped"), {"shipped-status"})
  /\ NoPayload

OnOrderDelivered(w) ==
  /\ Holds(w, "OrderDelivered", {"Shipped"})
  /\ Commit(w, MoveTo(w, "Completed"), {"complete-order", "delivered-status"})
  /\ NoPayload

Transition(w) ==
  \/ OnOrderSubmitted(w)    \/ OnPaymentCompleted(w)  \/ OnPaymentTimeout(w)
  \/ OnLateTimeout(w)       \/ OnPaymentFailed(w)     \/ OnShippingScheduled(w)
  \/ OnStockCommitted(w)    \/ OnReadyForPickup(w)    \/ OnStockCommitFailed(w)
  \/ OnPackageIssue(w)      \/ OnShippingFailed(w)    \/ OnOrderShipped(w)
  \/ OnOrderDelivered(w)

-----------------------------------------------------------------------------
(***************************************************************************)
(* Deliveries that change nothing, and conflicts.                          *)
(***************************************************************************)

(* The events with a When binder in the state.                             *)
HandledIn(s) ==
  {e \in Events :
     \/ e = "OrderSubmitted" /\ s = "Initial"
     \/ e \in {"PaymentCompleted", "PaymentFailed"} /\ s = "Submitted"
     \/ e = "ShippingScheduledEvent" /\ s \in {"Processing", "StockCommitted"}
     \/ e = "StockReservationCommitted"
          /\ s \in {"Processing", "ShippingScheduled"}
     \/ e = "StockReservationCommitFailed" /\ s \in BeforeStockOutcome
     \/ e = "OrderReadyForPickup" /\ s = "Fulfilling"
     \/ e \in {"PackageIssueReported", "OrderShipped"} /\ s \in BeforeDispatch
     \/ e = "ShippingFailed" /\ s \in BeforeDispatch \cup {"Shipped"}
     \/ e = "OrderDelivered" /\ s = "Shipped"}

(* The events the state, or DuringAny, ignores.                            *)
IgnoredIn(s) ==
  {e \in Events :
     \/ s \in Terminal
     \/ e = "OrderCompleted"
     \/ e = "PaymentCompleted" /\ s # "Submitted"
     \/ e = "ShippingScheduledEvent"
          /\ s \in {"ShippingScheduled", "Fulfilling", "ReadyForPickup",
                    "Shipped"}
     \/ e = "StockReservationCommitted"
          /\ s \in {"StockCommitted", "Fulfilling", "ReadyForPickup",
                    "Shipped"}
     \/ e = "OrderReadyForPickup" /\ s \in {"ReadyForPickup", "Shipped"}
     \/ e = "OrderShipped" /\ s = "Shipped"}

(* A timeout whose token is not the row's is dropped before any state.     *)
Ignored(d) ==
  IF d.event = "PaymentTimeout" THEN ~ d.row.armed
                                ELSE d.event \in IgnoredIn(d.row.state)

(* No row yet: every event but OrderSubmitted is discarded.                *)
Discard(w) ==
  /\ worker[w].event \notin {"none", "OrderSubmitted"}
  /\ worker[w].row.state = "Initial"
  /\ Done(w)
  /\ UNCHANGED <<saga, sent, refunds, named>>

Ignore(w) ==
  /\ worker[w].event # "none" /\ worker[w].row.state # "Initial"
  /\ Ignored(worker[w])
  /\ Done(w)
  /\ UNCHANGED <<saga, sent, refunds, named>>

(* An event the state has no binder for throws: UnhandledEventException is *)
(* not retried, so the message goes to the error queue.                    *)
Unhandled(w) ==
  /\ worker[w].event # "none" /\ worker[w].row.state # "Initial"
  /\ worker[w].event # "PaymentTimeout"
  /\ worker[w].event \notin HandledIn(worker[w].row.state)
                            \cup IgnoredIn(worker[w].row.state)
  /\ Done(w)
  /\ UNCHANGED <<saga, sent, refunds, named>>

(* The delivery would write the row.                                       *)
Writes(d) ==
  IF d.event = "PaymentTimeout" THEN d.row.armed
                                ELSE d.event \in HandledIn(d.row.state)

(* A slip: retries are not counted against a limit.                        *)
RetryForEverMutant(w) ==
  /\ Writes(worker[w]) /\ ~ RowUnchanged(w)
  /\ worker' = [worker EXCEPT ![w].row = saga, ![w].tries = @ + 1]
  /\ UNCHANGED <<saga, sent, refunds, named>>

(* The update matches no row.  It runs again from the new row; an insert   *)
(* that meets an existing key is no concurrency exception and is not.      *)
Retry(w) ==
  /\ Writes(worker[w]) /\ ~ RowUnchanged(w)
  /\ worker[w].row.state # "Initial"
  /\ worker[w].tries < MaxRetries
  /\ worker' = [worker EXCEPT ![w].row = saga, ![w].tries = @ + 1]
  /\ UNCHANGED <<saga, sent, refunds, named>>

GiveUp(w) ==
  /\ Writes(worker[w]) /\ ~ RowUnchanged(w)
  /\ worker[w].row.state = "Initial" \/ worker[w].tries = MaxRetries
  /\ Done(w)
  /\ UNCHANGED <<saga, sent, refunds, named>>

(* The process stops before the commit: the broker delivers the event      *)
(* again, to any worker.                                                   *)
Crash(w) ==
  /\ worker[w].event # "none"
  /\ Done(w)
  /\ UNCHANGED <<saga, sent, refunds, named>>

Finish(w) == Transition(w) \/ Discard(w) \/ Ignore(w) \/ Unhandled(w)
             \/ Retry(w) \/ GiveUp(w)

Next == \E w \in Workers :
          \/ \E e \in Events : Receive(w, e)
          \/ Finish(w)
          \/ Crash(w)

Spec == Init /\ [][Next]_vars

(***************************************************************************)
(* The scheduler and the outbox are durable and the broker redelivers what *)
(* a stopped process had, so a committed timeout keeps being delivered     *)
(* until one delivery of it is committed.                                  *)
(***************************************************************************)
FairSpec ==
  /\ Spec
  /\ \A w \in Workers : /\ WF_vars(Finish(w))
                        /\ SF_vars(Receive(w, "PaymentTimeout"))
                        /\ SF_vars(OnPaymentTimeout(w))

-----------------------------------------------------------------------------
(***************************************************************************)
(* Properties.                                                             *)
(***************************************************************************)

(* However often events are replayed, and whatever deliveries overlap, no  *)
(* command of the workflow is written to the outbox twice: the state guard *)
(* and the xmin check of Commit together make every effect happen once.    *)
CommandsOnce == \A c \in Commands : sent[c] <= 1

(* The compensations match the outcome: none while the order is alive, and *)
(* a failed order is cancelled, refunded exactly if its payment was taken, *)
(* and its reservation released unless stock or the carrier made it fail.  *)
(* A stale timeout that wins against a payment breaks it.                  *)
CompensationMatchesOutcome ==
  /\ saga.state # "Failed" => \A c \in Compensations : sent[c] = 0
  /\ saga.state = "Failed" =>
       /\ sent["cancelled-status"] = 1 /\ sent["cancel-order-command"] = 1
       /\ sent["refund-payment"] = sent["commit-stock-reservation"]
       /\ sent["refund-payment"] = 0 => sent["release-stock-reservation"] = 1

(* A package is handed over only when stock was committed and shipping was *)
(* scheduled, in whichever order the two answers came, and every shipping  *)
(* command names the one shipment the saga recorded.                       *)
FulfilmentNeedsBoth ==
  /\ saga.state \in {"Fulfilling", "ReadyForPickup"} =>
       /\ sent["prepare-package"] = 1
       /\ sent["shipping-scheduled-status"] = 1
  /\ sent["confirm-shipping"] <= sent["prepare-package"]
  /\ named \subseteq {saga.shipment} \ {NoId}

Rank(s) ==
  CASE s = "Initial" -> 0
    [] s = "Submitted" -> 1
    [] s = "Processing" -> 2
    [] s \in {"ShippingScheduled", "StockCommitted"} -> 3
    [] s = "Fulfilling" -> 4
    [] s = "ReadyForPickup" -> 5
    [] s = "Shipped" -> 6
    [] OTHER -> 7

(* No step takes the saga back: commands are sent only by a step that      *)
(* moves it strictly forward, so a completed or failed saga is a tombstone *)
(* that no late event revives.                                             *)
ForwardOnly ==
  [][<<saga.state, sent>>' # <<saga.state, sent>>
       => Rank(saga.state) < Rank(saga'.state)]_vars

(* A placed order does not wait for its payment for ever: it is paid, or   *)
(* cancelled by its failure or its timeout, through any crash and conflict.*)
PendingSettles == saga.state = "Submitted" ~> saga.state # "Submitted"

(* The order lifecycle, seen from the saga's row and outbox.               *)
Phase ==
  CASE saga.state = "Initial" -> "absent"
    [] saga.state = "Submitted" -> "pending"
    [] saga.state = "Shipped" -> "dispatched"
    [] saga.state = "Completed" -> "completed"
    [] saga.state = "Failed" -> "cancelled"
    [] OTHER -> "fulfilling"

Money ==
  IF sent["refund-payment"] > 0 THEN "refunding"
  ELSE IF sent["commit-stock-reservation"] > 0 THEN "captured" ELSE "none"

Lifecycle == INSTANCE OrderLifecycle WITH phase <- Phase, money <- Money

(* The saga implements the order lifecycle: every step of it is one step   *)
(* of the lifecycle, or none.                                              *)
ImplementsLifecycle == Lifecycle!Spec

(* Claimed of every saga command: it carries its business identifier, so   *)
(* the refund names the payment the order was placed with.                 *)
RefundCarriesPaymentId == \A r \in refunds : r.payment = PaymentId

(* Claimed of a stock failure: a refund, cancel-shipping and cancel-order  *)
(* are sent.  (A stock failure refunds and releases nothing, undispatched.)*)
StockFailureCancelsShipping ==
  sent["refund-payment"] > 0 /\ sent["release-stock-reservation"] = 0
    /\ sent["shipped-status"] = 0
    => sent["cancel-shipping"] > 0
=============================================================================
