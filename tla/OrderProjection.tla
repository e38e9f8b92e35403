-------------------------- MODULE OrderProjection --------------------------
(***************************************************************************)
(* The Orders service's row of one order, and the two consumers that keep  *)
(* it: UpdateOrderStatusCommandConsumer and CancelOrderCommandConsumer.    *)
(* They serve different queues, so they race on the row.  Each delivery is *)
(* one database transaction of the Entity Framework outbox (snapshot       *)
(* isolation): it reads the row, and commits the new row and its messages  *)
(* unless another transaction has written the row since.  A conflict is    *)
(* retried MaxConflicts times, then the message goes to the error queue.   *)
(*                                                                         *)
(* A command may be delivered at any time after it was sent, again, and in *)
(* any order; the inbox, which only removes deliveries, is not modelled.   *)
(***************************************************************************)
EXTENDS Naturals

CONSTANTS
  Consumers,     \* concurrent deliveries, over all instances of the service
  MaxConflicts   \* retry.Intervals(100 ms, 500 ms, 1 s)

ASSUME RetryAssumption == MaxConflicts \in Nat

VARIABLES
  outbox,    \* the commands the saga has sent to the Orders service
  order,     \* the row
  consumer,  \* what each consumer is handling, and the row it has read
  emitted    \* history: how often each message was sent or published

orderVars == <<order, consumer, emitted>>

(* The saga's update-order-status commands, by the effect they stand for,  *)
(* and the status each asks for.                                           *)
Requested ==
  [c \in {"mark-paid", "shipping-scheduled-status", "stock-committed-status",
          "ready-for-pickup-status", "shipped-status", "delivered-status",
          "cancelled-status"} |->
     IF c \in {"mark-paid", "shipping-scheduled-status"} THEN "Paid"
     ELSE IF c = "stock-committed-status" THEN "Processing"
     ELSE IF c = "ready-for-pickup-status" THEN "ReadyForPickup"
     ELSE IF c = "shipped-status" THEN "Shipped"
     ELSE IF c = "delivered-status" THEN "Delivered" ELSE "Cancelled"]

StatusCommands == DOMAIN Requested

OrderCommands == StatusCommands \cup {"cancel-order-command"}

(* OrderStatus.cs; the two statuses no command asks for are left out, and  *)
(* "Removed" is the row deleted by the API.                                *)
Statuses == {"Created", "Paid", "Processing", "ReadyForPickup", "Shipped",
             "Delivered", "Cancelled", "Removed"}

Position(s) ==
  IF s = "Created" THEN 0
  ELSE IF s = "Paid" THEN 1
  ELSE IF s = "Processing" THEN 2
  ELSE IF s = "ReadyForPickup" THEN 3
  ELSE IF s = "Shipped" THEN 4
  ELSE IF s = "Delivered" THEN 5
  ELSE IF s = "Cancelled" THEN 6 ELSE 7

Final == {"Delivered", "Cancelled"}

OrderRow == [status: Statuses,
             paymentId: BOOLEAN,  \* Payment.Id is not Guid.Empty
             tracking: BOOLEAN,   \* the shipment's tracking number is known
             sales: BOOLEAN]      \* SellerSalesRegisteredAt is set

Messages == {"OrderSellerSaleRegistrationRequested", "OrderCancelled",
             "OrderStatusUpdated", "release-stock-reservation",
             "refund-payment"}

(* PlaceOrderAsync saves the row, with its payment and its reservation,    *)
(* before it publishes OrderSubmitted.                                     *)
PlacedRow == [status |-> "Created", paymentId |-> TRUE, tracking |-> FALSE,
              sales |-> FALSE]

Free == [command |-> "none", row |-> PlacedRow, stale |-> FALSE,
         conflicts |-> 0]

Handling == [command: OrderCommands \cup {"none"}, row: OrderRow,
             stale: BOOLEAN, conflicts: 0 .. MaxConflicts]

ProjectionTypeOK ==
  /\ outbox \subseteq OrderCommands
  /\ order \in OrderRow
  /\ consumer \in [Consumers -> Handling]
  /\ emitted \in [Messages -> Nat]

ProjectionInit ==
  /\ order = PlacedRow
  /\ consumer = [k \in Consumers |-> Free]
  /\ emitted = [m \in Messages |-> 0]

-----------------------------------------------------------------------------
(***************************************************************************)
(* Deliveries and transactions.                                            *)
(***************************************************************************)

(* A consumer takes a command; its transaction reads the row.              *)
Take(k, c) ==
  /\ consumer[k].command = "none"
  /\ c \in outbox
  /\ consumer' = [consumer EXCEPT
       ![k] = [command |-> c, row |-> order, stale |-> FALSE, conflicts |-> 0]]
  /\ UNCHANGED <<outbox, order, emitted>>

Release(k) == consumer' = [consumer EXCEPT ![k] = Free]

(* Every other transaction in progress now holds an old row.               *)
Overtaken(k) ==
  [j \in Consumers |->
     IF j = k THEN Free
     ELSE IF consumer[j].command = "none" THEN consumer[j]
     ELSE [consumer[j] EXCEPT !.stale = TRUE]]

(* The first transaction to write the row wins.                            *)
FirstWriter(k) == ~ consumer[k].stale

Save(k, row, messages) ==
  /\ FirstWriter(k)
  /\ order' = row
  /\ consumer' = Overtaken(k)
  /\ emitted' = [m \in Messages |-> IF m \in messages THEN emitted[m] + 1
                                                      ELSE emitted[m]]
  /\ UNCHANGED outbox

-----------------------------------------------------------------------------
(***************************************************************************)
(* UpdateOrderStatusCommandConsumer.                                       *)
(***************************************************************************)

(* The row already has the status and the details the command carries.     *)
(* Only mark-paid carries a payment id, the empty one of PaymentCompleted, *)
(* and every shipping status carries the tracking number.                  *)
IsAlreadyApplied(row, c) ==
  /\ row.status = Requested[c]
  /\ c = "mark-paid" => ~ row.paymentId
  /\ c \in {"shipping-scheduled-status", "shipped-status",
            "delivered-status"} => row.tracking
  /\ Requested[c] = "Paid" => row.sales

(* A slip: any other status is applied, not only a later one.              *)
AnyStatusMutant(current, requested) == current # requested

(* A slip: only an order that is not paid yet is cancelled.                *)
CancelUnpaidMutant(current, requested) ==
  IF requested = "Cancelled" THEN current = "Created"
  ELSE Position(requested) > Position(current)

ShouldApplyStatus(current, requested) ==
  IF requested = "Cancelled" THEN current # requested
  ELSE Position(requested) > Position(current)

(* A slip: a finished order is not looked for before the duplicate.        *)
DroppedDuplicateMutant(row, c) ==
  \/ row.status = "Removed"
  \/ c \in StatusCommands /\ IsAlreadyApplied(row, c)

(* A missing or finished order, or a duplicate: the command is dropped.    *)
Dropped(row, c) ==
  \/ row.status \in Final \cup {"Removed"}
  \/ c \in StatusCommands /\ IsAlreadyApplied(row, c)

(* A slip: the sale is recorded only by the command that sets the status.  *)
SalesWithStatusMutant(row, c) ==
  [status |-> IF ShouldApplyStatus(row.status, Requested[c])
              THEN Requested[c] ELSE row.status,
   paymentId |-> row.paymentId /\ c # "mark-paid",
   tracking |-> TRUE,
   sales |-> row.sales \/ /\ Requested[c] = "Paid"
                          /\ ShouldApplyStatus(row.status, "Paid")]

Merged(row, c) ==
  [status |-> IF ShouldApplyStatus(row.status, Requested[c])
              THEN Requested[c] ELSE row.status,
   paymentId |-> row.paymentId /\ c # "mark-paid",
   tracking |-> row.tracking \/ c \in {"shipping-scheduled-status",
                                       "shipped-status", "delivered-status"},
   sales |-> row.sales \/ Requested[c] = "Paid"]

(* The status only moves forward, the details merge in any order, and the  *)
(* first command that says "Paid" asks for the seller sales.               *)
UpdateStatus(k) ==
  LET c == consumer[k].command
      row == consumer[k].row
  IN  /\ c \in StatusCommands
      /\ ~ Dropped(row, c)
      /\ Save(k, Merged(row, c),
              {m \in {"OrderStatusUpdated",
                      "OrderSellerSaleRegistrationRequested"} :
                 \/ /\ m = "OrderStatusUpdated"
                    /\ ShouldApplyStatus(row.status, Requested[c])
                 \/ /\ m = "OrderSellerSaleRegistrationRequested"
                    /\ Requested[c] = "Paid" /\ ~ row.sales})

(***************************************************************************)
(* CancelOrderCommandConsumer.                                             *)
(***************************************************************************)
CancelOrder(k) ==
  LET row == consumer[k].row
  IN  /\ consumer[k].command = "cancel-order-command"
      /\ ~ Dropped(row, "cancel-order-command")
      /\ Save(k, [row EXCEPT !.status = "Cancelled"],
              {"OrderCancelled", "OrderStatusUpdated",
               "release-stock-reservation"}
              \cup (IF row.paymentId THEN {"refund-payment"} ELSE {}))

-----------------------------------------------------------------------------
(* A command that is dropped is acknowledged, on whatever row was read.    *)
Drop(k) ==
  /\ consumer[k].command # "none"
  /\ Dropped(consumer[k].row, consumer[k].command)
  /\ Release(k)
  /\ UNCHANGED <<outbox, order, emitted>>

Loses(k) ==
  /\ consumer[k].command # "none"
  /\ ~ Dropped(consumer[k].row, consumer[k].command)
  /\ ~ FirstWriter(k)

(* A slip: retries are not counted against a limit.                        *)
RetryUncountedMutant(k) ==
  /\ Loses(k)
  /\ consumer' = [consumer EXCEPT ![k].row = order, ![k].stale = FALSE,
                                  ![k].conflicts = @ + 1]
  /\ UNCHANGED <<outbox, order, emitted>>

(* The transaction rolls back and the whole delivery runs again.           *)
RetryConflict(k) ==
  /\ Loses(k)
  /\ consumer[k].conflicts < MaxConflicts
  /\ consumer' = [consumer EXCEPT ![k].row = order, ![k].stale = FALSE,
                                  ![k].conflicts = @ + 1]
  /\ UNCHANGED <<outbox, order, emitted>>

(* The last retry lost too: the command goes to the error queue, where an  *)
(* operator may find it and send it again.                                 *)
GiveUpConflict(k) ==
  /\ Loses(k)
  /\ consumer[k].conflicts = MaxConflicts
  /\ Release(k)
  /\ UNCHANGED <<outbox, order, emitted>>

(* The process stops before the commit, and the broker delivers again.     *)
Stop(k) ==
  /\ consumer[k].command # "none"
  /\ Release(k)
  /\ UNCHANGED <<outbox, order, emitted>>

(* DELETE on the order, at any moment: the row goes, and nothing is sent.  *)
RemoveOrder ==
  /\ order.status # "Removed"
  /\ order' = [order EXCEPT !.status = "Removed"]
  /\ consumer' = [j \in Consumers |->
                    IF consumer[j].command = "none" THEN consumer[j]
                    ELSE [consumer[j] EXCEPT !.stale = TRUE]]
  /\ UNCHANGED <<outbox, emitted>>

FinishHandling(k) ==
  UpdateStatus(k) \/ CancelOrder(k) \/ Drop(k)
    \/ RetryConflict(k) \/ GiveUpConflict(k)

ProjectionNext ==
  \/ RemoveOrder
  \/ \E k \in Consumers :
       \/ \E c \in OrderCommands : Take(k, c)
       \/ FinishHandling(k)
       \/ Stop(k)

(* Alone, the service meets any commands in any order.                     *)
AnyCommandsInit == outbox = OrderCommands /\ ProjectionInit

ProjectionSpec == AnyCommandsInit /\ [][ProjectionNext]_<<outbox, orderVars>>

-----------------------------------------------------------------------------
(***************************************************************************)
(* Properties.                                                             *)
(***************************************************************************)

(* Whatever order the commands come in, and whichever consumers overlap,   *)
(* the order never falls back to an earlier status, a delivered order is   *)
(* never cancelled, and a cancelled one stays cancelled.                   *)
StatusNeverFallsBack ==
  [][order'.status # order.status =>
       \/ order'.status = "Removed"
       \/ /\ order.status \notin Final
          /\ Position(order.status) < Position(order'.status)]_order

(* Two commands say "Paid", and both may come late or twice: the sellers   *)
(* are asked for the sale once, in the transaction that marks the order.   *)
SalesRequestedOnce ==
  emitted["OrderSellerSaleRegistrationRequested"]
    = IF order.sales THEN 1 ELSE 0

(* The cancellation is announced at most once, with one release of the     *)
(* reservation each time and never more refunds, and an order it was       *)
(* announced for is not found in any other state later.                    *)
CancelledOnce ==
  /\ emitted["OrderCancelled"] <= 1
  /\ emitted["release-stock-reservation"] = emitted["OrderCancelled"]
  /\ emitted["refund-payment"] <= emitted["OrderCancelled"]
  /\ emitted["OrderCancelled"] = 1 => order.status \in {"Cancelled", "Removed"}
=============================================================================
