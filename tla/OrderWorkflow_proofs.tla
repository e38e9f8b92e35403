------------------------- MODULE OrderWorkflow_proofs -------------------------
(***************************************************************************)
(* Theorems about the saga and the Orders service together, for any        *)
(* workers, consumers, retries and shipments.  The argument: together each *)
(* is what it is alone, so both invariants hold; the saga's tells from a   *)
(* command in the outbox what the saga has decided; every command that a   *)
(* consumer carries is in the outbox, and a transaction that commits has   *)
(* read the current row; so each commit shows what was decided, and what   *)
(* was decided is not undone.                                              *)
(***************************************************************************)
EXTENDS OrderWorkflow, OrderSaga_proofs

(* The Orders service alone, which meets any command at any time.          *)
Any == INSTANCE OrderProjection_proofs WITH outbox <- Orders!OrderCommands

(* The status commands that say the order was paid.                        *)
SayPaid == {"mark-paid", "shipping-scheduled-status", "stock-committed-status",
            "ready-for-pickup-status"}

PaidFirst == \A c \in SayPaid : sent[c] > 0 => sent["commit-stock-reservation"] = 1

(* What a consumer carries has been sent.                                  *)
Carried ==
  \A k \in Consumers : consumer[k].command # "none" => sent[consumer[k].command] > 0

(* The row never tells the customer what the saga has not decided: an      *)
(* order shows as paid, shipped or delivered, and its sellers are asked    *)
(* for the sale, only after the saga took the payment, the collection or   *)
(* the delivery; it shows as cancelled, and its cancellation is announced  *)
(* and compensated, only when the saga has failed.                         *)
RowFollowsSaga ==
  /\ order.status \in {"Paid", "Processing", "ReadyForPickup"} \/ order.sales
       => sent["commit-stock-reservation"] = 1
  /\ order.status = "Shipped" => sent["shipped-status"] = 1
  /\ order.status = "Delivered" => saga.state = "Completed"
  /\ order.status = "Cancelled" => saga.state = "Failed"
  /\ \A m \in {"OrderCancelled", "release-stock-reservation", "refund-payment"} :
       emitted[m] > 0 => saga.state = "Failed"

WorkflowInv ==
  /\ IndInv /\ Debts /\ Identified /\ PaidFirst
  /\ Any!ProjectionInv
  /\ Carried /\ RowFollowsSaga

---------------------------------------------------------------------------
(* Each service alone. *)

(* The queues aside, the service is the same in both.                      *)
LEMMA SameService ==
  /\ Any!OrderCommands = Orders!OrderCommands /\ Any!StatusCommands = Orders!StatusCommands
  /\ Any!Requested = Orders!Requested /\ Any!Free = Orders!Free
  /\ \A row, c : /\ Any!Dropped(row, c) <=> Orders!Dropped(row, c)
                 /\ Any!Merged(row, c) = Orders!Merged(row, c)
  /\ \A s, t : Any!ShouldApplyStatus(s, t) <=> Orders!ShouldApplyStatus(s, t)
  /\ \A k \in Consumers : /\ Any!Overtaken(k) = Orders!Overtaken(k)
                          /\ Any!FirstWriter(k) <=> Orders!FirstWriter(k)
                          /\ Any!Release(k) <=> Orders!Release(k)
                          /\ Any!Loses(k) <=> Orders!Loses(k)
  <1>1. /\ Any!Requested = Orders!Requested /\ Any!StatusCommands = Orders!StatusCommands
        /\ Any!OrderCommands = Orders!OrderCommands
    BY DEF Any!Requested, Orders!Requested, Any!StatusCommands, Orders!StatusCommands,
           Any!OrderCommands, Orders!OrderCommands
  <1>2. Any!Free = Orders!Free
    BY DEF Any!Free, Orders!Free, Any!PlacedRow, Orders!PlacedRow
  <1>3. \A s, t : Any!ShouldApplyStatus(s, t) <=> Orders!ShouldApplyStatus(s, t)
    BY DEF Any!ShouldApplyStatus, Orders!ShouldApplyStatus, Any!Position, Orders!Position
  <1>4. \A row, c : /\ Any!Dropped(row, c) <=> Orders!Dropped(row, c)
                    /\ Any!Merged(row, c) = Orders!Merged(row, c)
    BY <1>1, <1>3 DEF Any!Dropped, Orders!Dropped, Any!Final, Orders!Final,
                      Any!IsAlreadyApplied, Orders!IsAlreadyApplied, Any!Merged, Orders!Merged
  <1>5. \A k \in Consumers : /\ Any!Overtaken(k) = Orders!Overtaken(k)
                             /\ Any!FirstWriter(k) <=> Orders!FirstWriter(k)
                             /\ Any!Release(k) <=> Orders!Release(k)
    BY <1>2 DEF Any!Overtaken, Orders!Overtaken, Any!FirstWriter, Orders!FirstWriter,
                Any!Release, Orders!Release
  <1>6. \A k \in Consumers : Any!Loses(k) <=> Orders!Loses(k)
    BY <1>4, <1>5 DEF Any!Loses, Orders!Loses
  <1> QED BY <1>1, <1>2, <1>3, <1>4, <1>5, <1>6

(* What the Orders service does with the saga's commands, it does alone.   *)
LEMMA OrdersStepAlone ==
  ASSUME Orders!ProjectionNext
  PROVE  Any!ProjectionNext
  <1>0. UNCHANGED Orders!OrderCommands
    BY DEF Orders!OrderCommands, Orders!StatusCommands, Orders!Requested
  <1>1. CASE Orders!RemoveOrder
    BY <1>0, <1>1 DEF Orders!RemoveOrder, Any!RemoveOrder, Any!ProjectionNext
  <1>2. ASSUME NEW k \in Consumers, NEW c \in Orders!OrderCommands, Orders!Take(k, c)
        PROVE  Any!ProjectionNext
    <2>1. Any!Take(k, c)
      BY <1>0, <1>2 DEF Orders!Take, Any!Take
    <2> QED BY <2>1, SameService DEF Any!ProjectionNext
  <1>3. ASSUME NEW k \in Consumers, NEW row, NEW messages, Orders!Save(k, row, messages)
        PROVE  Any!Save(k, row, messages)
    BY <1>0, <1>3, SameService DEF Orders!Save, Any!Save, Orders!Messages, Any!Messages
  <1>4. ASSUME NEW k \in Consumers, Orders!UpdateStatus(k)
        PROVE  Any!UpdateStatus(k)
    BY <1>3, <1>4, SameService DEF Orders!UpdateStatus, Any!UpdateStatus
  <1>5. ASSUME NEW k \in Consumers, Orders!CancelOrder(k)
        PROVE  Any!CancelOrder(k)
    BY <1>3, <1>5, SameService DEF Orders!CancelOrder, Any!CancelOrder
  <1>6. ASSUME NEW k \in Consumers,
               Orders!Drop(k) \/ Orders!RetryConflict(k) \/ Orders!GiveUpConflict(k)
                 \/ Orders!Stop(k)
        PROVE  Any!Drop(k) \/ Any!RetryConflict(k) \/ Any!GiveUpConflict(k) \/ Any!Stop(k)
    BY <1>0, <1>6, SameService
       DEF Orders!Drop, Orders!RetryConflict, Orders!GiveUpConflict, Orders!Stop,
           Any!Drop, Any!RetryConflict, Any!GiveUpConflict, Any!Stop
  <1> QED BY <1>1, <1>2, <1>4, <1>5, <1>6
          DEF Orders!ProjectionNext, Any!ProjectionNext, Orders!FinishHandling,
              Any!FinishHandling

(* A step of the Orders service keeps its invariant, with the saga's outbox *)
(* standing for any outbox.                                                 *)
LEMMA OrdersKeepsOrders ==
  ASSUME Any!ProjectionInv, [Orders!ProjectionNext]_<<order, consumer, emitted>>
  PROVE  Any!ProjectionInv'
  <1>1. [Any!ProjectionNext]_<<Orders!OrderCommands, Any!orderVars>>
    BY OrdersStepAlone DEF Any!orderVars
  <1> QED BY <1>1, Any!ProjectionStep, ConflictAssumption

---------------------------------------------------------------------------
(* The saga. *)

(* A step of the saga forgets no command, and speaks of the payment only   *)
(* after it.                                                               *)
LEMMA SagaSends ==
  ASSUME IndInv, Debts, Identified, PaidFirst, [Next]_vars
  PROVE  /\ IndInv' /\ Debts' /\ Identified' /\ PaidFirst'
         /\ \A c \in Commands : sent[c] <= sent'[c]
  <1>1. /\ IndInv' /\ Debts' /\ Identified' /\ (Moved \/ UNCHANGED <<saga.state, sent>>)
        /\ sent \in [Commands -> Nat] /\ sent' \in [Commands -> Nat]
    BY StepKeeps, DebtsStep DEF IndInv, TypeOK
  <1>2. PICK cmds \in SUBSET Commands :
          \/ UNCHANGED sent
          \/ Send(cmds) /\ (saga'.state = "Failed" => cmds \cap SayPaid = {})
    <2>1. CASE UNCHANGED sent
      BY <2>1
    <2>2. ASSUME NEW w \in Workers, Transition(w)
          PROVE  \E cmds \in SUBSET Commands :
                   Send(cmds) /\ (saga'.state = "Failed" => cmds \cap SayPaid = {})
      <3>1. PICK cmds \in SUBSET Commands :
              Send(cmds) /\ (Placed(cmds) \/ PaidBy(cmds) \/ Disarmed(cmds)
                              \/ Advanced(cmds) \/ FailedBy(cmds))
        BY <2>2, TransitionShape
      <3>2. saga'.state = "Failed" => cmds \subseteq Compensations
        BY <3>1 DEF Placed, PaidBy, Disarmed, Advanced, FailedBy, BeforeDispatch,
                    BeforeStockOutcome
      <3>3. Compensations \cap SayPaid = {}
        BY DEF Compensations, SayPaid
      <3> QED BY <3>1, <3>2, <3>3
    <2> QED BY <2>1, <2>2, OnlyTransitionsWrite
  <1>3. \A c \in Commands : sent[c] <= sent'[c]
    BY <1>1, <1>2 DEF Send
  <1>4. ASSUME NEW c \in SayPaid, sent'[c] > 0
        PROVE  sent'["commit-stock-reservation"] = 1
    <2>1. c \in Commands /\ "commit-stock-reservation" \in Commands
      BY DEF SayPaid, Commands
    <2>2. CASE sent[c] > 0
      BY <1>1, <1>3, <2>1, <2>2 DEF PaidFirst, IndInv, Ledger
    <2>3. CASE sent[c] = 0
      <3>1. Moved /\ saga'.state # "Failed"
        BY <1>1, <1>2, <1>4, <2>1, <2>3 DEF Send
      <3>2. saga'.state \notin NotYetIn(c)
        BY <1>1, <1>4, <2>1 DEF IndInv, Ledger
      <3>3. saga'.state \notin {"Initial", "Submitted"}
        BY <3>2 DEF NotYetIn, SayPaid, Compensations
      <3>4. saga'.state \in BeforeDispatch \cup {"Shipped", "Completed"}
        BY <3>1, <3>3 DEF Moved, Edge, BeforeDispatch, BeforeStockOutcome
      <3> QED BY <1>1, <3>4 DEF IndInv, Reached
    <2> QED BY <1>1, <2>1, <2>2, <2>3
  <1> QED BY <1>1, <1>3, <1>4 DEF PaidFirst

(* What a command in the outbox tells of the saga.                         *)
LEMMA SentMeans ==
  ASSUME IndInv, PaidFirst, NEW c \in Commands, sent[c] > 0
  PROVE  /\ c \in SayPaid => sent["commit-stock-reservation"] = 1
         /\ c = "shipped-status" => sent["shipped-status"] = 1
         /\ c = "delivered-status" => saga.state = "Completed"
         /\ c \in {"cancelled-status", "cancel-order-command"} => saga.state = "Failed"
  <1>1. sent[c] \in Nat /\ sent[c] <= 1 /\ saga.state \notin NotYetIn(c) /\ saga.state \in States
    BY DEF IndInv, TypeOK, Ledger, Row
  <1>2. c = "delivered-status" => saga.state = "Completed"
    BY <1>1 DEF NotYetIn, Compensations
  <1>3. c \in {"cancelled-status", "cancel-order-command"} => saga.state = "Failed"
    BY <1>1 DEF NotYetIn, Compensations
  <1> QED BY <1>1, <1>2, <1>3 DEF PaidFirst

---------------------------------------------------------------------------
(* The Orders service. *)

(* A transaction that commits has read the current row, and whatever the   *)
(* others carry afterwards they carried before.                            *)
LEMMA CommitCurrent ==
  ASSUME WorkflowInv, UNCHANGED vars, NEW k \in Consumers, NEW row, NEW messages,
         Orders!Save(k, row, messages), consumer[k].command # "none"
  PROVE  /\ consumer[k].row = order /\ order' = row /\ Carried'
         /\ \A m \in Orders!Messages :
              emitted'[m] = IF m \in messages THEN emitted[m] + 1 ELSE emitted[m]
         /\ consumer[k].command \in Orders!OrderCommands
         /\ consumer[k].command \in Commands /\ sent[consumer[k].command] > 0
  <1>1. /\ order' = row /\ consumer' = Orders!Overtaken(k) /\ ~ consumer[k].stale
        /\ UNCHANGED sent
        /\ \A m \in Orders!Messages :
             emitted'[m] = IF m \in messages THEN emitted[m] + 1 ELSE emitted[m]
    BY DEF Orders!Save, Orders!FirstWriter, vars
  <1>2. Any!ProjectionTypeOK /\ Any!FreshReads /\ Carried
    BY DEF WorkflowInv, Any!ProjectionInv
  <1>3. consumer[k].row = order
    BY <1>1, <1>2 DEF Any!FreshReads
  <1>4. ASSUME NEW j \in Consumers
        PROVE  Orders!Overtaken(k)[j].command \in {"none", consumer[j].command}
    <2>1. consumer[j] \in Any!Handling
      BY <1>2 DEF Any!ProjectionTypeOK
    <2>2. [consumer[j] EXCEPT !.stale = TRUE].command = consumer[j].command
      BY <2>1 DEF Any!Handling
    <2> QED BY <2>2 DEF Orders!Overtaken, Orders!Free
  <1>5. Carried'
    BY <1>1, <1>2, <1>4 DEF Carried
  <1>6. consumer[k].command \in Orders!OrderCommands
    BY <1>2, SameService DEF Any!ProjectionTypeOK, Any!Handling
  <1>7. Orders!OrderCommands \subseteq Commands
    BY DEF Orders!OrderCommands, Orders!StatusCommands, Orders!Requested, Commands,
           Compensations
  <1> QED BY <1>1, <1>2, <1>3, <1>5, <1>6, <1>7 DEF Carried

(* A status command that commits shows what the saga decided.              *)
LEMMA UpdateShows ==
  ASSUME WorkflowInv, UNCHANGED vars, NEW k \in Consumers, Orders!UpdateStatus(k)
  PROVE  Carried' /\ RowFollowsSaga'
  <1>1. PICK c, row : c = consumer[k].command /\ row = Orders!Merged(order, c)
    OBVIOUS
  <1>2. c \in Orders!StatusCommands /\ c # "none" /\ UNCHANGED sent /\ UNCHANGED saga
    BY <1>1 DEF Orders!UpdateStatus, Orders!StatusCommands, Orders!Requested, vars
  <1>3. PICK read, messages :
          /\ read = consumer[k].row /\ Orders!Save(k, Orders!Merged(read, c), messages)
          /\ messages \subseteq {"OrderStatusUpdated", "OrderSellerSaleRegistrationRequested"}
    BY <1>1 DEF Orders!UpdateStatus
  <1>4. /\ read = order /\ order' = row /\ Carried'
        /\ \A m \in Orders!Messages :
             emitted'[m] = IF m \in messages THEN emitted[m] + 1 ELSE emitted[m]
        /\ c \in Commands /\ sent[c] > 0
    BY <1>1, <1>2, <1>3, CommitCurrent
  <1>5. \A m \in {"OrderCancelled", "release-stock-reservation", "refund-payment"} :
          emitted'[m] = emitted[m]
    BY <1>3, <1>4 DEF Orders!Messages
  <1>6. /\ row.status = order.status \/ row.status = Orders!Requested[c]
        /\ row.sales = (order.sales \/ Orders!Requested[c] = "Paid")
        /\ Orders!Requested[c] = "Paid" => c \in {"mark-paid", "shipping-scheduled-status"}
    <2>1. Orders!Requested[c] = "Paid" => c \in {"mark-paid", "shipping-scheduled-status"}
      BY <1>2 DEF Orders!StatusCommands, Orders!Requested
    <2> QED BY <1>1, <2>1 DEF Orders!Merged
  <1>7. /\ c \in SayPaid => sent["commit-stock-reservation"] = 1
        /\ c = "shipped-status" => sent["shipped-status"] = 1
        /\ c = "delivered-status" => saga.state = "Completed"
        /\ c = "cancelled-status" => saga.state = "Failed"
    BY <1>4, SentMeans DEF WorkflowInv
  <1>8. /\ Orders!Requested[c] \in {"Paid", "Processing", "ReadyForPickup"} => c \in SayPaid
        /\ Orders!Requested[c] = "Shipped" => c = "shipped-status"
        /\ Orders!Requested[c] = "Delivered" => c = "delivered-status"
        /\ Orders!Requested[c] = "Cancelled" => c = "cancelled-status"
    BY <1>2 DEF Orders!StatusCommands, Orders!Requested, SayPaid
  <1>9. RowFollowsSaga
    BY DEF WorkflowInv
  <1>10. ASSUME row.sales
         PROVE  sent["commit-stock-reservation"] = 1
    BY <1>6, <1>7, <1>9, <1>10 DEF RowFollowsSaga, SayPaid
  <1>11. row.status \in {"Paid", "Processing", "ReadyForPickup"}
           => sent["commit-stock-reservation"] = 1
    BY <1>6, <1>7, <1>8, <1>9 DEF RowFollowsSaga
  <1>12. /\ row.status = "Shipped" => sent["shipped-status"] = 1
         /\ row.status = "Delivered" => saga.state = "Completed"
         /\ row.status = "Cancelled" => saga.state = "Failed"
    BY <1>6, <1>7, <1>8, <1>9 DEF RowFollowsSaga
  <1>13. RowFollowsSaga'
    BY <1>2, <1>4, <1>5, <1>9, <1>10, <1>11, <1>12 DEF RowFollowsSaga
  <1> QED BY <1>4, <1>13

(* The cancel-order consumer cancels what the saga has failed.             *)
LEMMA CancelShows ==
  ASSUME WorkflowInv, UNCHANGED vars, NEW k \in Consumers, Orders!CancelOrder(k)
  PROVE  Carried' /\ RowFollowsSaga'
  <1>1. /\ consumer[k].command = "cancel-order-command"
        /\ UNCHANGED sent /\ UNCHANGED saga
    BY DEF Orders!CancelOrder, vars
  <1>2. PICK read, messages :
          /\ read = consumer[k].row
          /\ Orders!Save(k, [read EXCEPT !.status = "Cancelled"], messages)
    BY DEF Orders!CancelOrder
  <1>3. /\ order' = [order EXCEPT !.status = "Cancelled"] /\ Carried'
        /\ sent["cancel-order-command"] > 0
    BY <1>1, <1>2, CommitCurrent
  <1>4. order'.status = "Cancelled" /\ order'.sales = order.sales
    BY <1>3 DEF WorkflowInv, Any!ProjectionInv, Any!ProjectionTypeOK, Any!OrderRow
  <1>5. saga.state = "Failed"
    BY <1>3, SentMeans DEF WorkflowInv, Commands, Compensations
  <1>6. RowFollowsSaga'
    BY <1>1, <1>4, <1>5 DEF WorkflowInv, RowFollowsSaga
  <1> QED BY <1>3, <1>6

(* A step of the Orders service keeps the invariant.                       *)
LEMMA OrdersKeeps ==
  ASSUME WorkflowInv, UNCHANGED vars, Orders!ProjectionNext
  PROVE  WorkflowInv'
  <1>1. IndInv' /\ Debts' /\ Identified' /\ PaidFirst'
    <2>1. [Next]_vars
      OBVIOUS
    <2> QED BY <2>1, SagaSends DEF WorkflowInv
  <1>2. Any!ProjectionInv'
    BY OrdersKeepsOrders DEF WorkflowInv
  <1>3. /\ UNCHANGED sent /\ UNCHANGED saga /\ Carried /\ RowFollowsSaga
        /\ Any!ProjectionTypeOK
    BY DEF vars, WorkflowInv, Any!ProjectionInv
  <1>4. ASSUME NEW k \in Consumers, NEW d, UNCHANGED <<order, emitted>>,
               consumer' = [consumer EXCEPT ![k] = d],
               d.command # "none" => sent[d.command] > 0
        PROVE  Carried' /\ RowFollowsSaga'
    <2>1. \A j \in Consumers : consumer'[j] = IF j = k THEN d ELSE consumer[j]
      BY <1>3, <1>4 DEF Any!ProjectionTypeOK
    <2>2. Carried'
      BY <1>3, <1>4, <2>1 DEF Carried
    <2>3. RowFollowsSaga'
      BY <1>3, <1>4 DEF RowFollowsSaga
    <2> QED BY <2>2, <2>3
  <1>5. ASSUME NEW k \in Consumers, NEW c \in Orders!OrderCommands, Orders!Take(k, c)
        PROVE  Carried' /\ RowFollowsSaga'
    <2>1. PICK d : d = [command |-> c, row |-> order, stale |-> FALSE, conflicts |-> 0]
      OBVIOUS
    <2>2. /\ d.command = c /\ sent[c] > 0 /\ consumer' = [consumer EXCEPT ![k] = d]
          /\ UNCHANGED <<order, emitted>>
      BY <1>5, <2>1 DEF Orders!Take
    <2> QED BY <1>4, <2>2
  <1>6. ASSUME NEW k \in Consumers,
               Orders!Drop(k) \/ Orders!GiveUpConflict(k) \/ Orders!Stop(k)
        PROVE  Carried' /\ RowFollowsSaga'
    <2>1. /\ consumer' = [consumer EXCEPT ![k] = Orders!Free] /\ UNCHANGED <<order, emitted>>
          /\ Orders!Free.command = "none"
      BY <1>6 DEF Orders!Drop, Orders!GiveUpConflict, Orders!Stop, Orders!Release, Orders!Free
    <2> QED BY <1>4, <2>1
  <1>7. ASSUME NEW k \in Consumers, Orders!RetryConflict(k)
        PROVE  Carried' /\ RowFollowsSaga'
    <2>1. PICK d : d = [consumer[k] EXCEPT !.row = order, !.stale = FALSE, !.conflicts = @ + 1]
      OBVIOUS
    <2>2. d.command = consumer[k].command
      BY <1>3, <2>1 DEF Any!ProjectionTypeOK, Any!Handling
    <2>3. consumer' = [consumer EXCEPT ![k] = d] /\ UNCHANGED <<order, emitted>>
      BY <1>3, <1>7, <2>1 DEF Orders!RetryConflict, Any!ProjectionTypeOK, Any!Handling
    <2> QED BY <1>3, <1>4, <2>2, <2>3 DEF Carried
  <1>8. ASSUME Orders!RemoveOrder
        PROVE  Carried' /\ RowFollowsSaga'
    <2>1. \A j \in Consumers : consumer'[j].command = consumer[j].command
      BY <1>3, <1>8 DEF Orders!RemoveOrder, Any!ProjectionTypeOK, Any!Handling
    <2>2. order'.status = "Removed" /\ order'.sales = order.sales /\ UNCHANGED emitted
      BY <1>3, <1>8 DEF Orders!RemoveOrder, Any!ProjectionTypeOK, Any!OrderRow
    <2>3. Carried'
      BY <1>3, <2>1 DEF Carried
    <2>4. RowFollowsSaga'
      BY <1>3, <2>2 DEF RowFollowsSaga
    <2> QED BY <2>3, <2>4
  <1>9. Carried' /\ RowFollowsSaga'
    BY <1>5, <1>6, <1>7, <1>8, UpdateShows, CancelShows
       DEF Orders!ProjectionNext, Orders!FinishHandling
  <1> QED BY <1>1, <1>2, <1>9 DEF WorkflowInv

---------------------------------------------------------------------------
(* Together. *)

(* A step of the saga leaves what the row shows decided.                   *)
LEMMA SagaKeeps ==
  ASSUME WorkflowInv, [Next]_vars, UNCHANGED <<order, consumer, emitted>>
  PROVE  WorkflowInv'
  <1>1. /\ IndInv' /\ Debts' /\ Identified' /\ PaidFirst'
        /\ \A c \in Commands : sent[c] <= sent'[c]
    BY SagaSends DEF WorkflowInv
  <1>2. /\ sent \in [Commands -> Nat] /\ sent' \in [Commands -> Nat]
        /\ \A c \in Commands : sent'[c] <= 1
    BY <1>1 DEF WorkflowInv, IndInv, TypeOK, Ledger
  <1>3. Any!ProjectionInv'
    BY OrdersKeepsOrders DEF WorkflowInv
  <1>4. Orders!OrderCommands \subseteq Commands
    BY DEF Orders!OrderCommands, Orders!StatusCommands, Orders!Requested, Commands,
           Compensations
  <1>5. Carried'
    <2>1. \A k \in Consumers : consumer[k].command \in Orders!OrderCommands \cup {"none"}
      BY SameService DEF WorkflowInv, Any!ProjectionInv, Any!ProjectionTypeOK, Any!Handling
    <2> QED BY <1>1, <1>2, <1>4, <2>1 DEF WorkflowInv, Carried
  <1>6. /\ saga.state = "Completed" => saga'.state = "Completed"
        /\ saga.state = "Failed" => saga'.state = "Failed"
    BY StepKeeps DEF WorkflowInv, Moved, Edge, BeforeDispatch, BeforeStockOutcome
  <1>7. /\ "commit-stock-reservation" \in Commands /\ "shipped-status" \in Commands
    BY DEF Commands
  <1>8. /\ sent["commit-stock-reservation"] = 1 => sent'["commit-stock-reservation"] = 1
        /\ sent["shipped-status"] = 1 => sent'["shipped-status"] = 1
    BY <1>1, <1>2, <1>7
  <1>9. RowFollowsSaga'
    BY <1>6, <1>8 DEF WorkflowInv, RowFollowsSaga
  <1> QED BY <1>1, <1>3, <1>5, <1>9 DEF WorkflowInv

(* The invariant of the two services holds of an order just placed.        *)
LEMMA WorkflowStart == WorkflowInit => WorkflowInv
  <1> SUFFICES ASSUME WorkflowInit
               PROVE  WorkflowInv
    OBVIOUS
  <1>1. IndInv /\ PaidFirst
    BY InitInv DEF WorkflowInit, Init, PaidFirst, SayPaid, Commands
  <1>2. Debts /\ Identified
    BY DebtsStart DEF WorkflowInit
  <1>3. order = Orders!PlacedRow /\ consumer = [k \in Consumers |-> Orders!Free]
        /\ emitted = [m \in Orders!Messages |-> 0]
    BY DEF WorkflowInit, Orders!ProjectionInit
  <1>4. Any!AnyCommandsInit
    BY <1>3, SameService DEF Any!AnyCommandsInit, Any!ProjectionInit, Any!PlacedRow,
                             Orders!PlacedRow, Any!Messages, Orders!Messages
  <1>5. Any!ProjectionInv
    BY <1>4, Any!ProjectionStart, ConflictAssumption
  <1>6. Carried
    BY <1>3 DEF Carried, Orders!Free
  <1>7. RowFollowsSaga
    BY <1>3 DEF RowFollowsSaga, Orders!PlacedRow, Orders!Messages
  <1> QED BY <1>1, <1>2, <1>5, <1>6, <1>7 DEF WorkflowInv

(* Every step of either service keeps it.                                  *)
LEMMA WorkflowStep ==
  ASSUME WorkflowInv, [WorkflowNext]_workflowVars
  PROVE  WorkflowInv'
  <1>1. CASE UNCHANGED workflowVars
    <2>1. [Next]_vars /\ UNCHANGED <<order, consumer, emitted>>
      BY <1>1 DEF workflowVars
    <2> QED BY <2>1, SagaKeeps
  <1> QED BY <1>1, SagaKeeps, OrdersKeeps DEF WorkflowNext, SagaStep, OrdersStep

(* The two services together keep the invariant of each, and what relates  *)
(* them.                                                                   *)
THEOREM WorkflowInvariance == WorkflowSpec => []WorkflowInv
  BY WorkflowStart, WorkflowStep, PTL DEF WorkflowSpec

(* The row shows only what the saga has decided, in every reachable state  *)
(* of the two services together.                                           *)
THEOREM TheRowFollows == WorkflowSpec => []RowFollowsSaga
  <1>1. WorkflowInv => RowFollowsSaga
    BY DEF WorkflowInv
  <1> QED BY <1>1, WorkflowInvariance, PTL

(* Composed with the Orders service, the saga does only what it does alone.*)
THEOREM SagaInWorkflow == WorkflowSpec => Spec
  <1>1. WorkflowInit => Init
    BY DEF WorkflowInit
  <1>2. [WorkflowNext]_workflowVars => [Next]_vars
    BY DEF WorkflowNext, SagaStep, OrdersStep, workflowVars
  <1> QED BY <1>1, <1>2, PTL DEF WorkflowSpec, Spec

(* Composed with the saga, the Orders service does only what it does among *)
(* any commands in any order.                                              *)
THEOREM OrdersInWorkflow == WorkflowSpec => Any!ProjectionSpec
  <1>1. WorkflowInit => Any!AnyCommandsInit
    BY SameService
       DEF WorkflowInit, Orders!ProjectionInit, Any!AnyCommandsInit, Any!ProjectionInit,
           Any!PlacedRow, Orders!PlacedRow, Any!Messages, Orders!Messages
  <1>2. [WorkflowNext]_workflowVars
          => [Any!ProjectionNext]_<<Orders!OrderCommands, Any!orderVars>>
    <2>1. CASE SagaStep \/ UNCHANGED workflowVars
      BY <2>1 DEF SagaStep, workflowVars, Any!orderVars, Orders!OrderCommands,
                  Orders!StatusCommands, Orders!Requested
    <2>2. CASE OrdersStep
      BY <2>2, OrdersStepAlone DEF OrdersStep
    <2> QED BY <2>1, <2>2 DEF WorkflowNext
  <1> QED BY <1>1, <1>2, PTL DEF WorkflowSpec, Any!ProjectionSpec

(* So what is proved of each alone holds end to end.  The saga composed    *)
(* with the Orders service implements the order lifecycle.                 *)
THEOREM WorkflowImplementsLifecycle == WorkflowSpec => ImplementsLifecycle
  BY SagaInWorkflow, SagaImplementsLifecycle, PTL

(* Between the two services nothing is done twice: no command of the saga  *)
(* is sent again, the sellers are asked for the sale once, and the Orders  *)
(* service announces and compensates a cancellation once.                  *)
THEOREM NothingIsDoneTwice ==
  WorkflowSpec => [](CommandsOnce /\ Orders!SalesRequestedOnce /\ Orders!CancelledOnce)
  <1>1. WorkflowInv => CommandsOnce /\ Orders!SalesRequestedOnce /\ Orders!CancelledOnce
    BY DEF WorkflowInv, IndInv, Ledger, CommandsOnce, Any!ProjectionInv,
           Any!SalesRequestedOnce, Orders!SalesRequestedOnce, Any!CancelledOnce,
           Orders!CancelledOnce
  <1> QED BY <1>1, WorkflowInvariance, PTL

(* A delivered order keeps its money: once the customer is shown a         *)
(* delivery, or the saga has completed, neither service has sent a refund, *)
(* released the stock or announced a cancellation.                         *)
THEOREM DeliveredIsNotUndone ==
  WorkflowSpec =>
    [](order.status = "Delivered" \/ saga.state = "Completed"
         => /\ \A c \in Compensations : sent[c] = 0
            /\ \A m \in {"OrderCancelled", "release-stock-reservation", "refund-payment"} :
                 emitted[m] = 0)
  <1>1. ASSUME WorkflowInv, order.status = "Delivered" \/ saga.state = "Completed"
        PROVE  /\ \A c \in Compensations : sent[c] = 0
               /\ \A m \in {"OrderCancelled", "release-stock-reservation", "refund-payment"} :
                    emitted[m] = 0
    <2>1. saga.state = "Completed"
      BY <1>1 DEF WorkflowInv, RowFollowsSaga
    <2>2. \A c \in Compensations : sent[c] = 0
      BY <1>1, <2>1 DEF WorkflowInv, IndInv, CompensationMatchesOutcome
    <2>3. \A m \in {"OrderCancelled", "release-stock-reservation", "refund-payment"} :
            emitted[m] \in Nat /\ ~ (emitted[m] > 0)
      BY <1>1, <2>1 DEF WorkflowInv, RowFollowsSaga, Any!ProjectionInv,
                        Any!ProjectionTypeOK, Any!Messages
    <2> QED BY <2>2, <2>3
  <1>2. WorkflowInv =>
          (order.status = "Delivered" \/ saga.state = "Completed"
             => /\ \A c \in Compensations : sent[c] = 0
                /\ \A m \in {"OrderCancelled", "release-stock-reservation",
                             "refund-payment"} : emitted[m] = 0)
    BY <1>1
  <1> QED BY <1>2, WorkflowInvariance, PTL

(* The command that would take the row to the end the saga has reached.    *)
Closing == [Failed |-> "cancelled-status", Completed |-> "delivered-status"]

(* The row is where it should end, or was deleted.                         *)
Settled ==
  /\ saga.state = "Failed" => order.status \in {"Cancelled", "Removed"}
  /\ saga.state = "Completed" => order.status \in {"Delivered", "Removed"}

(* A delivery of command c ends acknowledged.                              *)
Acknowledged(k, c) ==
  /\ consumer[k].command = c
  /\ Orders!UpdateStatus(k) \/ Orders!CancelOrder(k) \/ Orders!Drop(k)

(* A command of the saga that closes the row has closed it when it is      *)
(* acknowledged, and with the status it asks for, unless the order was     *)
(* deleted.                                                                *)
ClosedBy(c) == {IF c = "delivered-status" THEN "Delivered" ELSE "Cancelled", "Removed"}

ClosesWhenAcknowledged ==
  [][\A k \in Consumers, c \in Any!ClosesRow :
       Acknowledged(k, c) => order'.status \in ClosedBy(c)]_workflowVars

LEMMA ReadsLastInWorkflow == WorkflowSpec => []Any!ReadsLast
  <1>1. WorkflowInit => Any!ReadsLast
    BY SameService, Any!ReadsLastStart, ConflictAssumption
       DEF WorkflowInit, Orders!ProjectionInit, Any!AnyCommandsInit, Any!ProjectionInit,
           Any!PlacedRow, Orders!PlacedRow, Any!Messages, Orders!Messages
  <1>2. WorkflowInv /\ Any!ReadsLast /\ [WorkflowNext]_workflowVars => Any!ReadsLast'
    <2>1. CASE SagaStep \/ UNCHANGED workflowVars
      BY <2>1 DEF SagaStep, workflowVars, Any!ReadsLast
    <2>2. ASSUME WorkflowInv, Any!ReadsLast, OrdersStep
          PROVE  Any!ReadsLast'
      <3>1. [Any!ProjectionNext]_<<Orders!OrderCommands, Any!orderVars>>
        BY <2>2, OrdersStepAlone DEF OrdersStep
      <3> QED BY <2>2, <3>1, Any!ReadsLastStep, ConflictAssumption DEF WorkflowInv
    <2> QED BY <2>1, <2>2 DEF WorkflowNext
  <1> QED BY <1>1, <1>2, WorkflowInvariance, PTL DEF WorkflowSpec

(* The step that acknowledges a closing command of the saga.               *)
LEMMA AcknowledgedStep ==
  ASSUME WorkflowInv, WorkflowInv', Any!ReadsLast, WorkflowNext,
         NEW k \in Consumers, NEW c \in Any!ClosesRow, Acknowledged(k, c)
  PROVE  order'.status \in ClosedBy(c)
  <1>1. Any!UpdateStatus(k) \/ Any!CancelOrder(k) \/ Any!Drop(k)
    <2>0. UNCHANGED Orders!OrderCommands
      BY DEF Orders!OrderCommands, Orders!StatusCommands, Orders!Requested
    <2>1. ASSUME NEW row, NEW messages, Orders!Save(k, row, messages)
          PROVE  Any!Save(k, row, messages)
      BY <2>0, <2>1, SameService DEF Orders!Save, Any!Save, Orders!Messages, Any!Messages
    <2>2. CASE Orders!UpdateStatus(k)
      BY <2>1, <2>2, SameService DEF Orders!UpdateStatus, Any!UpdateStatus
    <2>3. CASE Orders!CancelOrder(k)
      BY <2>1, <2>3, SameService DEF Orders!CancelOrder, Any!CancelOrder
    <2>4. CASE Orders!Drop(k)
      BY <2>0, <2>4, SameService DEF Orders!Drop, Any!Drop
    <2> QED BY <2>2, <2>3, <2>4 DEF Acknowledged
  <1>2. consumer[k].command = c /\ c # "none" /\ c \in Commands
    BY DEF Acknowledged, Any!ClosesRow, Commands, Compensations
  <1>3. order'.status \in {"Cancelled", "Delivered", "Removed"} /\ consumer'[k].command = "none"
    BY <1>1, <1>2, Any!AcknowledgedCloses, ConflictAssumption DEF WorkflowInv, Any!Final
  <1>4. UNCHANGED vars
    BY <1>2, <1>3 DEF WorkflowNext, SagaStep, OrdersStep
  <1>5. sent[c] > 0
    BY <1>2 DEF WorkflowInv, Carried
  <1>6. /\ c = "delivered-status" => saga.state = "Completed"
        /\ c # "delivered-status" => saga.state = "Failed"
    BY <1>2, <1>5, SentMeans DEF WorkflowInv, Any!ClosesRow
  <1>7. /\ order'.status = "Delivered" => saga.state = "Completed"
        /\ order'.status = "Cancelled" => saga.state = "Failed"
    BY <1>4 DEF WorkflowInv, RowFollowsSaga, vars
  <1> QED BY <1>3, <1>6, <1>7 DEF ClosedBy

(* The row can settle, whatever overtook what: whenever the saga is over   *)
(* and the row is not, the command that closes it is in the outbox, a      *)
(* consumer that reads the row does not drop it, and what it writes        *)
(* settles the row; and no closing command is acknowledged, on a row       *)
(* however old, without the row being closed.  So the row is left open     *)
(* only as long as no delivery of the command ends, or when it ends in the *)
(* error queue: RowSettles of OrderClosing is about that.                  *)
THEOREM RowCanSettle ==
  WorkflowSpec =>
    /\ ClosesWhenAcknowledged
    /\ [](saga.state \in DOMAIN Closing /\ ~ Settled
            => /\ sent[Closing[saga.state]] = 1
               /\ ~ Orders!Dropped(order, Closing[saga.state])
               /\ Orders!Merged(order, Closing[saga.state]).status
                    = Orders!Requested[Closing[saga.state]])
  <1>1. ASSUME WorkflowInv, saga.state \in DOMAIN Closing, ~ Settled
        PROVE  /\ sent[Closing[saga.state]] = 1
               /\ ~ Orders!Dropped(order, Closing[saga.state])
               /\ Orders!Merged(order, Closing[saga.state]).status
                    = Orders!Requested[Closing[saga.state]]
    <2>1. RowFollowsSaga /\ order.status \in Orders!Statuses
      BY <1>1 DEF WorkflowInv, Any!ProjectionInv, Any!ProjectionTypeOK, Any!OrderRow,
                  Any!Statuses, Orders!Statuses
    <2>2. /\ order.status \notin {"Cancelled", "Delivered", "Removed"}
          /\ saga.state \in {"Failed", "Completed"}
      BY <1>1, <2>1 DEF Settled, RowFollowsSaga, Closing
    <2>3. sent[Closing[saga.state]] = 1
      BY <1>1, <2>2 DEF WorkflowInv, IndInv, CompensationMatchesOutcome, Debts, Closing
    <2>4. PICK c : c = Closing[saga.state] /\ c \in {"cancelled-status", "delivered-status"}
      BY <2>2 DEF Closing
    <2>5. Orders!Requested[c] = IF c = "cancelled-status" THEN "Cancelled" ELSE "Delivered"
      BY <2>4 DEF Orders!Requested
    <2>6. ~ Orders!Dropped(order, c)
      BY <2>2, <2>4, <2>5 DEF Orders!Dropped, Orders!Final, Orders!IsAlreadyApplied
    <2>7. Orders!ShouldApplyStatus(order.status, Orders!Requested[c])
      BY <2>1, <2>2, <2>4, <2>5
         DEF Orders!ShouldApplyStatus, Orders!Position, Orders!Statuses
    <2>8. Orders!Merged(order, c).status = Orders!Requested[c]
      BY <2>7 DEF Orders!Merged
    <2> QED BY <2>3, <2>4, <2>6, <2>8
  <1>2. WorkflowInv =>
          (saga.state \in DOMAIN Closing /\ ~ Settled
            => /\ sent[Closing[saga.state]] = 1
               /\ ~ Orders!Dropped(order, Closing[saga.state])
               /\ Orders!Merged(order, Closing[saga.state]).status
                    = Orders!Requested[Closing[saga.state]])
    BY <1>1
  <1>3. WorkflowInv /\ WorkflowInv' /\ Any!ReadsLast /\ [WorkflowNext]_workflowVars
          => [\A k \in Consumers, c \in Any!ClosesRow :
                Acknowledged(k, c) => order'.status \in ClosedBy(c)]_workflowVars
    BY AcknowledgedStep
  <1> QED BY <1>2, <1>3, WorkflowInvariance, ReadsLastInWorkflow, PTL
          DEF WorkflowSpec, ClosesWhenAcknowledged

---------------------------------------------------------------------------
(* The promise. *)

(* The saga sends shipped-status when it becomes Shipped, and only then.   *)
LEMMA ShippedSends ==
  ASSUME IndInv, Debts, Identified, [Next]_vars, Moved
  PROVE  sent'["shipped-status"] =
           IF saga'.state = "Shipped" THEN 1 ELSE sent["shipped-status"]
  <1>1. IndInv' /\ Debts'
    BY StepKeeps, DebtsStep
  <1>2. saga.state # saga'.state
    BY DEF Moved, Edge, BeforeDispatch, BeforeStockOutcome
  <1>3. CASE saga'.state = "Failed"
    <2>1. PICK w \in Workers : Transition(w)
      BY <1>2, OnlyTransitionsWrite
    <2>2. PICK cmds \in SUBSET Commands : Send(cmds) /\ FailedBy(cmds)
      BY <1>2, <1>3, <2>1, TransitionShape
         DEF Placed, PaidBy, Disarmed, Advanced, BeforeDispatch, BeforeStockOutcome
    <2>3. "shipped-status" \in Commands \ cmds
      BY <2>2 DEF FailedBy, Commands, Compensations
    <2> QED BY <1>3, <2>2, <2>3 DEF Send
  <1>4. CASE saga'.state \in {"Submitted"} \cup BeforeDispatch
    <2>1. /\ saga.state \in {"Initial", "Submitted"} \cup BeforeDispatch
          /\ saga'.state # "Shipped"
      BY <1>4 DEF Moved, Edge, BeforeDispatch, BeforeStockOutcome
    <2>2. /\ "shipped-status" \in Commands
          /\ {"Initial", "Submitted"} \cup BeforeDispatch = NotYetIn("shipped-status")
      BY DEF Commands, NotYetIn, Compensations
    <2>3. sent["shipped-status"] = 0 /\ sent'["shipped-status"] = 0
      BY <1>1, <1>4, <2>1, <2>2 DEF IndInv, Ledger
    <2> QED BY <2>1, <2>3
  <1>5. CASE saga'.state \in {"Shipped", "Completed"}
    <2>1. sent'["shipped-status"] = 1
      BY <1>1, <1>5 DEF Debts
    <2>2. saga'.state = "Completed" => saga.state = "Shipped"
      BY DEF Moved, Edge, BeforeDispatch, BeforeStockOutcome
    <2> QED BY <1>5, <2>1, <2>2 DEF Debts
  <1> QED BY <1>3, <1>4, <1>5 DEF Moved, Edge, BeforeDispatch, BeforeStockOutcome

(* What is decided in each state of the saga but Failed.                   *)
DecidedByState ==
  /\ saga.state = "Initial" => Decided = {}
  /\ saga.state = "Submitted" => Decided = {"placed"}
  /\ saga.state \in BeforeDispatch => Decided = {"placed", "paid"}
  /\ saga.state = "Shipped" => Decided = {"placed", "paid", "dispatched"}
  /\ saga.state = "Completed"
       => Decided = {"placed", "paid", "dispatched", "completed"}

(* What has been decided of an order, by the state of its saga.            *)
LEMMA DecidedIn == IndInv /\ Debts => DecidedByState
  <1> SUFFICES ASSUME IndInv, Debts
               PROVE  DecidedByState
    OBVIOUS
  <1>1. /\ "commit-stock-reservation" \in Commands /\ "shipped-status" \in Commands
        /\ NotYetIn("commit-stock-reservation") = {"Initial", "Submitted"}
        /\ NotYetIn("shipped-status") = {"Initial", "Submitted"} \cup BeforeDispatch
    BY DEF Commands, NotYetIn, Compensations
  <1>2. /\ saga.state \in {"Initial", "Submitted"} => sent["commit-stock-reservation"] = 0
        /\ saga.state \in {"Initial", "Submitted"} \cup BeforeDispatch
             => sent["shipped-status"] = 0
        /\ saga.state \in BeforeDispatch \cup {"Shipped", "Completed"}
             => sent["commit-stock-reservation"] = 1
        /\ saga.state \in {"Shipped", "Completed"} => sent["shipped-status"] = 1
    BY <1>1 DEF IndInv, Ledger, Reached, Debts
  <1> QED BY <1>2 DEF DecidedByState, Decided, BeforeDispatch, BeforeStockOutcome

(* A step of the saga decides one milestone, in its turn, or none.         *)
LEMMA SagaDecides ==
  ASSUME IndInv, Debts, Identified, [Next]_vars, UNCHANGED <<order, consumer, emitted>>
  PROVE  Promise!Next \/ UNCHANGED <<Decided, order.status, emitted>>
  <1>1. IndInv' /\ Debts'
    BY StepKeeps, DebtsStep
  <1>2. CASE UNCHANGED <<saga.state, sent>>
    BY <1>2 DEF Decided
  <1>3. CASE Moved
    <2>1. PICK old, new : old = Decided /\ new = Decided'
      OBVIOUS
    <2>2. /\ saga.state = "Initial" => old = {}
          /\ saga.state = "Submitted" => old = {"placed"}
          /\ saga.state \in BeforeDispatch => old = {"placed", "paid"}
          /\ saga.state = "Shipped" => old = {"placed", "paid", "dispatched"}
      BY <2>1, DecidedIn DEF DecidedByState
    <2>3. /\ saga'.state = "Submitted" => new = {"placed"}
          /\ saga'.state \in BeforeDispatch => new = {"placed", "paid"}
          /\ saga'.state = "Shipped" => new = {"placed", "paid", "dispatched"}
          /\ saga'.state = "Completed"
               => new = {"placed", "paid", "dispatched", "completed"}
      <3>1. DecidedByState'
        BY <1>1, DecidedIn, PTL
      <3> QED BY <2>1, <3>1 DEF DecidedByState
    <2>4. saga'.state = "Failed" =>
            new = old \cup {"cancelled"} /\ saga.state \notin {"Initial", "Completed", "Failed"}
      <3>1. ASSUME saga'.state = "Failed"
            PROVE  /\ sent'["shipped-status"] = sent["shipped-status"]
                   /\ sent'["commit-stock-reservation"] = sent["commit-stock-reservation"]
                   /\ saga.state \notin {"Initial", "Completed", "Failed"}
        BY <1>3, <3>1, ShippedSends DEF Moved, Edge, BeforeDispatch, BeforeStockOutcome
      <3> QED BY <2>1, <3>1 DEF Decided
    <2>5. \/ new = old
          \/ \E m \in Promise!Milestones :
               /\ old \cap {"completed", "cancelled"} = {} /\ m \notin old
               /\ Promise!Needs[m] \subseteq old /\ new = old \cup {m}
      <3> USE DEF Promise!Milestones, Promise!Needs
      <3>1. CASE saga.state = "Initial" /\ saga'.state = "Submitted"
        BY <2>2, <2>3, <3>1
      <3>2. CASE saga.state = "Submitted" /\ saga'.state = "Processing"
        BY <2>2, <2>3, <3>2 DEF BeforeDispatch, BeforeStockOutcome
      <3>3. CASE saga.state \in BeforeDispatch /\ saga'.state \in BeforeDispatch
        BY <2>2, <2>3, <3>3
      <3>4. CASE saga.state \in BeforeDispatch /\ saga'.state = "Shipped"
        BY <2>2, <2>3, <3>4
      <3>5. CASE saga.state = "Shipped" /\ saga'.state = "Completed"
        BY <2>2, <2>3, <3>5
      <3>6. CASE saga'.state = "Failed"
        <4>1. /\ saga.state \in {"Submitted", "Shipped"} \cup BeforeDispatch
              /\ new = old \cup {"cancelled"}
          BY <1>3, <2>4, <3>6 DEF Moved, Edge
        <4> QED BY <2>2, <4>1
      <3> QED BY <1>3, <3>1, <3>2, <3>3, <3>4, <3>5, <3>6
              DEF Moved, Edge, BeforeDispatch, BeforeStockOutcome
    <2> QED BY <2>1, <2>5 DEF Promise!Next, Promise!Decide, Promise!Closed
  <1> QED BY <1>2, <1>3, StepKeeps

(* The messages the promise is about, and their number.                    *)
LEMMA PromisedMessages ==
  Promise!Told = Orders!Messages \ {"OrderStatusUpdated"}
  BY DEF Promise!Told, Promise!Sale, Promise!Undo, Orders!Messages

(* A step of the Orders service serves what is decided, deletes the order, *)
(* or changes nothing that anybody sees.                                   *)
LEMMA OrdersServes ==
  ASSUME WorkflowInv, WorkflowInv', UNCHANGED vars, Orders!ProjectionNext
  PROVE  Promise!Next \/ UNCHANGED <<Decided, order.status, emitted>>
  <1>1. UNCHANGED Decided /\ UNCHANGED sent /\ UNCHANGED saga
    BY DEF vars, Decided
  <1>2. /\ Any!ProjectionTypeOK /\ Any!FreshReads /\ Any!Announced
        /\ Any!SalesRequestedOnce /\ Any!CancelledOnce
        /\ RowFollowsSaga'
    BY DEF WorkflowInv, Any!ProjectionInv
  <1>3. order \in Any!OrderRow /\ order.status \in Any!Statuses
    BY <1>2 DEF Any!ProjectionTypeOK, Any!OrderRow
  <1>4. /\ order'.status \in {"Paid", "Processing", "ReadyForPickup"} \/ order'.sales
             => "paid" \in Decided
        /\ order'.status = "Shipped" => "dispatched" \in Decided
        /\ order'.status = "Delivered" => "completed" \in Decided
        /\ order'.status = "Cancelled" => "cancelled" \in Decided
    BY <1>1, <1>2 DEF RowFollowsSaga, Decided
  <1>5. ASSUME NEW s, NEW messages,
               order'.status = s, UNCHANGED sent,
               order.status \in {"Created", "Paid", "Processing", "ReadyForPickup", "Shipped"},
               s = order.status
                 \/ /\ s \in DOMAIN Promise!Ground
                    /\ Orders!Position(order.status) < Orders!Position(s),
               \A m \in Orders!Messages :
                 emitted'[m] = IF m \in messages THEN emitted[m] + 1 ELSE emitted[m],
               \A m \in messages \cap Promise!Told : emitted[m] = 0,
               Promise!Sale \in messages => order'.sales,
               messages \cap Promise!Undo # {} => s = "Cancelled" /\ "OrderCancelled" \in messages
        PROVE  Promise!Next
    <2>1. PICK some, told, told2 :
            /\ some = messages \cap Promise!Told
            /\ told = [m \in Orders!Messages \ {"OrderStatusUpdated"} |-> emitted[m]]
            /\ told2 = [m \in Orders!Messages \ {"OrderStatusUpdated"} |-> emitted'[m]]
      OBVIOUS
    <2>2. /\ \A m \in some : told[m] = 0
          /\ told2 = [m \in Promise!Told |-> IF m \in some THEN told[m] + 1 ELSE told[m]]
      BY <1>5, <2>1, PromisedMessages
    <2>3. /\ Promise!Sale \in some => "paid" \in Decided
          /\ some \cap Promise!Undo # {} => s = "Cancelled" /\ "OrderCancelled" \in some
      BY <1>4, <1>5, <2>1 DEF Promise!Told, Promise!Undo
    <2>4. order.status \in DOMAIN Promise!Step \ {"Delivered", "Cancelled"}
      BY <1>5 DEF Promise!Step
    <2>5. s = order.status
            \/ (Promise!Step[order.status] < Promise!Step[s] /\ Promise!Ground[s] \in Decided)
      <3>1. CASE s = order.status
        BY <3>1
      <3>2. CASE /\ s \in DOMAIN Promise!Ground
                 /\ Orders!Position(order.status) < Orders!Position(s)
        <4>1. Promise!Ground[s] \in Decided
          BY <1>4, <1>5, <3>2 DEF Promise!Ground
        <4>2. Promise!Step[order.status] < Promise!Step[s]
          BY <1>5, <3>2 DEF Promise!Ground, Promise!Step, Orders!Position
        <4> QED BY <4>1, <4>2
      <3> QED BY <1>5, <3>1, <3>2
    <2>6. /\ s \in DOMAIN Promise!Ground \cup {order.status}
          /\ some \in SUBSET Promise!Told
      BY <1>5, <2>1
    <2>7. Promise!Serve(s, some)
      BY <1>1, <1>5, <2>1, <2>2, <2>3, <2>4, <2>5 DEF Promise!Serve
    <2> QED BY <2>6, <2>7 DEF Promise!Next
  <1>6. ASSUME NEW k \in Consumers, Orders!UpdateStatus(k)
        PROVE  Promise!Next
    <2>1. PICK c, row : c = consumer[k].command /\ row = Orders!Merged(order, c)
      OBVIOUS
    <2>2. c \in Orders!StatusCommands /\ c # "none"
      BY <1>6, <2>1 DEF Orders!UpdateStatus, Orders!StatusCommands, Orders!Requested
    <2>3. PICK read : read = consumer[k].row
      OBVIOUS
    <2>4. PICK messages :
            /\ messages = {m \in {"OrderStatusUpdated", "OrderSellerSaleRegistrationRequested"} :
                 \/ /\ m = "OrderStatusUpdated"
                    /\ Orders!ShouldApplyStatus(read.status, Orders!Requested[c])
                 \/ /\ m = "OrderSellerSaleRegistrationRequested"
                    /\ Orders!Requested[c] = "Paid" /\ ~ read.sales}
            /\ Orders!Save(k, Orders!Merged(read, c), messages)
            /\ ~ Orders!Dropped(read, c)
      BY <1>6, <2>1, <2>3 DEF Orders!UpdateStatus
    <2>5. /\ read = order /\ order' = row
          /\ \A m \in Orders!Messages :
               emitted'[m] = IF m \in messages THEN emitted[m] + 1 ELSE emitted[m]
      BY <2>1, <2>2, <2>3, <2>4, CommitCurrent
    <2>6. order.status \in {"Created", "Paid", "Processing", "ReadyForPickup", "Shipped"}
      BY <1>3, <2>4, <2>5 DEF Orders!Dropped, Orders!Final, Any!Statuses
    <2>7. row.status = order.status
            \/ /\ row.status \in DOMAIN Promise!Ground
               /\ Orders!Position(order.status) < Orders!Position(row.status)
      <3>1. Orders!Requested[c] \in DOMAIN Promise!Ground
        BY <2>2 DEF Orders!StatusCommands, Orders!Requested, Promise!Ground
      <3>2. row.status = order.status
              \/ /\ row.status = Orders!Requested[c]
                 /\ Orders!ShouldApplyStatus(order.status, Orders!Requested[c])
        BY <2>1 DEF Orders!Merged
      <3> QED BY <2>6, <3>1, <3>2 DEF Orders!ShouldApplyStatus, Orders!Position
    <2>8. /\ Promise!Sale \in messages => row.sales /\ ~ order.sales
          /\ messages \cap Promise!Undo = {}
      BY <2>1, <2>4, <2>5 DEF Promise!Sale, Promise!Undo, Orders!Merged
    <2>9. \A m \in messages \cap Promise!Told : emitted[m] = 0
      BY <1>2, <2>8 DEF Promise!Told, Any!SalesRequestedOnce, Promise!Sale
    <2> QED BY <1>1, <1>5, <2>5, <2>6, <2>7, <2>8, <2>9
  <1>7. ASSUME NEW k \in Consumers, Orders!CancelOrder(k)
        PROVE  Promise!Next
    <2>1. PICK read, messages :
            /\ read = consumer[k].row /\ ~ Orders!Dropped(read, "cancel-order-command")
            /\ messages = {"OrderCancelled", "OrderStatusUpdated", "release-stock-reservation"}
                          \cup (IF read.paymentId THEN {"refund-payment"} ELSE {})
            /\ Orders!Save(k, [read EXCEPT !.status = "Cancelled"], messages)
      BY <1>7 DEF Orders!CancelOrder
    <2>2. consumer[k].command # "none"
      BY <1>7 DEF Orders!CancelOrder
    <2>3. /\ read = order /\ order' = [order EXCEPT !.status = "Cancelled"]
          /\ \A m \in Orders!Messages :
               emitted'[m] = IF m \in messages THEN emitted[m] + 1 ELSE emitted[m]
      BY <2>1, <2>2, CommitCurrent
    <2>4. order'.status = "Cancelled"
      BY <1>3, <2>3 DEF Any!OrderRow
    <2>5. order.status \in {"Created", "Paid", "Processing", "ReadyForPickup", "Shipped"}
      BY <1>3, <2>1, <2>3 DEF Orders!Dropped, Orders!Final, Any!Statuses
    <2>6. /\ "Cancelled" \in DOMAIN Promise!Ground
          /\ Orders!Position(order.status) < Orders!Position("Cancelled")
      BY <2>5 DEF Promise!Ground, Orders!Position
    <2>7. /\ messages \cap Promise!Told \subseteq Promise!Undo /\ Promise!Sale \notin messages
          /\ "OrderCancelled" \in messages
      BY <2>1 DEF Promise!Told, Promise!Undo, Promise!Sale
    <2>8. \A m \in Promise!Undo : emitted[m] = 0
      <3>1. emitted["OrderCancelled"] = 0
        BY <1>2, <2>5 DEF Any!Announced
      <3>2. emitted["refund-payment"] \in Nat
        BY <1>2 DEF Any!ProjectionTypeOK, Any!Messages
      <3> QED BY <1>2, <3>1, <3>2 DEF Any!CancelledOnce, Promise!Undo
    <2> QED BY <1>1, <1>5, <2>3, <2>4, <2>5, <2>6, <2>7, <2>8
  <1>8. ASSUME Orders!RemoveOrder
        PROVE  Promise!Next
    <2>1. order.status # "Removed" /\ order'.status = "Removed" /\ UNCHANGED emitted
      BY <1>3, <1>8 DEF Orders!RemoveOrder, Any!OrderRow
    <2> QED BY <1>1, <2>1 DEF Promise!Next, Promise!Remove
  <1>9. ASSUME NEW k \in Consumers,
               \/ \E c \in Orders!OrderCommands : Orders!Take(k, c)
               \/ Orders!Drop(k) \/ Orders!RetryConflict(k)
               \/ Orders!GiveUpConflict(k) \/ Orders!Stop(k)
        PROVE  UNCHANGED <<Decided, order.status, emitted>>
    BY <1>1, <1>9 DEF Orders!Take, Orders!Drop, Orders!RetryConflict, Orders!GiveUpConflict,
                      Orders!Stop
  <1> QED BY <1>6, <1>7, <1>8, <1>9 DEF Orders!ProjectionNext, Orders!FinishHandling

(* The two services implement the promise: the first state is a first      *)
(* state of it, and every step of either is one step of it or a stutter.   *)
THEOREM PromiseIsKept == WorkflowSpec => KeepsPromise
  <1> DEFINE Counts == [m \in Orders!Messages \ {"OrderStatusUpdated"} |-> emitted[m]]
  <1>1. WorkflowInit => Promise!Init
    <2> SUFFICES ASSUME WorkflowInit
                 PROVE  Promise!Init
      OBVIOUS
    <2>1. Decided = {}
      BY DecidedIn, WorkflowStart DEF WorkflowInv, DecidedByState, WorkflowInit, Init, NoRow
    <2>2. order.status = "Created" /\ \A m \in Orders!Messages : emitted[m] = 0
      BY DEF WorkflowInit, Orders!ProjectionInit, Orders!PlacedRow
    <2> QED BY <2>1, <2>2, PromisedMessages DEF Promise!Init
  <1>2. UNCHANGED <<Decided, order.status, emitted>> => UNCHANGED <<Decided, order.status, Counts>>
    OBVIOUS
  <1>3. WorkflowInv /\ WorkflowInv' /\ [WorkflowNext]_workflowVars
          => Promise!Next \/ UNCHANGED <<Decided, order.status, emitted>>
    <2> SUFFICES ASSUME WorkflowInv, WorkflowInv', [WorkflowNext]_workflowVars
                 PROVE  Promise!Next \/ UNCHANGED <<Decided, order.status, emitted>>
      OBVIOUS
    <2>1. CASE SagaStep \/ UNCHANGED workflowVars
      <3>1. [Next]_vars /\ UNCHANGED <<order, consumer, emitted>>
        BY <2>1 DEF SagaStep, workflowVars
      <3> QED BY <3>1, SagaDecides DEF WorkflowInv
    <2>2. CASE OrdersStep
      BY <2>2, OrdersServes DEF OrdersStep
    <2> QED BY <2>1, <2>2 DEF WorkflowNext
  <1>4. WorkflowInv /\ WorkflowInv' /\ [WorkflowNext]_workflowVars
          => [Promise!Next]_<<Decided, order.status, Counts>>
    BY <1>2, <1>3
  <1> QED BY <1>1, <1>4, WorkflowInvariance, PTL
          DEF WorkflowSpec, KeepsPromise, Promise!Spec
=============================================================================
