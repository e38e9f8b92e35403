---------------------------- MODULE OrderClosing ----------------------------
(***************************************************************************)
(* What becomes of the command that closes an order's row.  The broker     *)
(* keeps a command until one delivery of it is acknowledged, or has lost   *)
(* its last retry and is moved to the error queue; so the consumers of     *)
(* OrderProjection are watched while they compete for the row, together    *)
(* with the account the queue keeps of one command, closing.               *)
(***************************************************************************)
EXTENDS OrderProjection

VARIABLES
  closing,   \* the command that is watched, or "none"
  fate       \* history: what became of it

closingVars == <<outbox, orderVars, closing, fate>>

(* What a saga says of an order before it ends, and its last words.        *)
OnTheWay == {"mark-paid", "shipping-scheduled-status", "stock-committed-status",
             "ready-for-pickup-status"}

LastWords == [Completed |-> {"delivered-status"},
              Failed |-> {"cancelled-status", "cancel-order-command"}]

Closed(c) == IF c \in LastWords.Completed THEN "Delivered" ELSE "Cancelled"

(* Any commands at all, with none of them watched; or what a saga that     *)
(* has completed, or failed, has sent.                                     *)
ClosingInit ==
  /\ ProjectionInit /\ fate = "kept"
  /\ \/ outbox = OrderCommands /\ closing = "none"
     \/ /\ outbox = OnTheWay \cup {"shipped-status"} \cup LastWords.Completed
        /\ closing \in LastWords.Completed
     \/ /\ outbox = OnTheWay \cup LastWords.Failed
        /\ closing \in LastWords.Failed

(* The first delivery of the command to end decides what became of it.     *)
Recorded(k, outcome) ==
  fate' = IF consumer[k].command = closing /\ fate = "kept" THEN outcome ELSE fate

Acknowledge(k) ==
  /\ UpdateStatus(k) \/ CancelOrder(k) \/ Drop(k)
  /\ Recorded(k, "acknowledged")

Park(k) == GiveUpConflict(k) /\ Recorded(k, "parked")

Retry(k) == RetryConflict(k) /\ UNCHANGED fate

Offer(k, c) == Take(k, c) /\ UNCHANGED fate

ClosingNext ==
  /\ UNCHANGED closing
  /\ \/ RemoveOrder /\ UNCHANGED fate
     \/ \E k \in Consumers :
          \/ \E c \in OrderCommands : Offer(k, c)
          \/ Acknowledge(k) \/ Park(k) \/ Retry(k)
          \/ Stop(k) /\ UNCHANGED fate

(* A consumer gets on with what it handles.  The command is offered again  *)
(* as long as the broker has it, and no longer; and the process does not   *)
(* stop in the middle of every delivery of it.                             *)
ClosingFairness ==
  /\ \A k \in Consumers :
       WF_closingVars(UNCHANGED closing /\ (Acknowledge(k) \/ Park(k) \/ Retry(k)))
  /\ SF_closingVars(/\ fate = "kept" /\ UNCHANGED closing
                    /\ \E k \in Consumers : Offer(k, closing))
  /\ SF_closingVars(/\ fate = "kept" /\ UNCHANGED closing
                    /\ \E k \in Consumers : /\ consumer[k].command = closing
                                            /\ Acknowledge(k) \/ Park(k))

ClosingSpec == ClosingInit /\ [][ClosingNext]_closingVars /\ ClosingFairness

-----------------------------------------------------------------------------
(***************************************************************************)
(* Properties.                                                             *)
(***************************************************************************)

(* The row catches up with the end of the saga: the command that closes it *)
(* does so, whatever the consumers take in between and whichever of them   *)
(* overtake its transactions, unless the order is deleted or one delivery  *)
(* of the command loses its last retry.  It is then left in the error      *)
(* queue, and nothing in the code sends it again                           *)
(* (OrderConsumerDefinitions.cs, UpdateOrderStatusCommandConsumer.cs).     *)
RowSettles ==
  closing # "none"
    ~> (fate = "parked"
        \/ (fate = "acknowledged" /\ order.status \in {Closed(closing), "Removed"}))
=============================================================================
