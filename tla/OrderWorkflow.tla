--------------------------- MODULE OrderWorkflow ---------------------------
(***************************************************************************)
(* One order from the saga to the Orders service: the saga's outbox is the *)
(* queues of the service's two consumers, and the outbox's own order is    *)
(* lost on the way, because the two queues, their retries and the outbox's *)
(* redeliveries all interleave.                                            *)
(***************************************************************************)
EXTENDS OrderSaga

CONSTANTS Consumers, MaxConflicts

ASSUME ConflictAssumption == MaxConflicts \in Nat

VARIABLES order, consumer, emitted

Orders == INSTANCE OrderProjection
            WITH outbox <- {c \in Commands : sent[c] > 0} \cap
                           {"mark-paid", "shipping-scheduled-status",
                            "stock-committed-status", "shipped-status",
                            "ready-for-pickup-status", "delivered-status",
                            "cancelled-status", "cancel-order-command"}

workflowVars == <<vars, order, consumer, emitted>>

(* The row is saved before OrderSubmitted can reach the saga.              *)
WorkflowInit == Init /\ Orders!ProjectionInit

SagaStep == Next /\ UNCHANGED <<order, consumer, emitted>>

OrdersStep == UNCHANGED vars /\ Orders!ProjectionNext

WorkflowNext == SagaStep \/ OrdersStep

WorkflowSpec == WorkflowInit /\ [][WorkflowNext]_workflowVars

-----------------------------------------------------------------------------
(***************************************************************************)
(* Properties.                                                             *)
(***************************************************************************)

(* What the workflow has decided, as the saga's row and its outbox tell.   *)
Decided ==
  {m \in {"placed", "paid", "dispatched", "completed", "cancelled"} :
     \/ m = "placed" /\ saga.state # "Initial"
     \/ m = "paid" /\ sent["commit-stock-reservation"] > 0
     \/ m = "dispatched" /\ sent["shipped-status"] > 0
     \/ m = "completed" /\ saga.state = "Completed"
     \/ m = "cancelled" /\ saga.state = "Failed"}

Promise == INSTANCE OrderPromise
             WITH reached <- Decided, shown <- order.status,
                  told <- [m \in Orders!Messages \ {"OrderStatusUpdated"} |->
                             emitted[m]]

(* The two services implement the promise: whatever the saga's commands    *)
(* overtake, each step of either is one step of it, or none.               *)
KeepsPromise == Promise!Spec

(* Claimed of the cancel-order consumer: it publishes facts, so a          *)
(* cancelled order has been announced as cancelled.                        *)
CancellationPublished ==
  order.status = "Cancelled" => emitted["OrderCancelled"] = 1

(* Claimed of the cancel-order consumer: it sends compensation only when   *)
(* required, so it asks for a refund only where a payment was taken.       *)
RefundOnlyWhenRequired ==
  emitted["refund-payment"] > 0 => sent["commit-stock-reservation"] > 0
=============================================================================
