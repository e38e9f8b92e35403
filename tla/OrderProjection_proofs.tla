----------------------- MODULE OrderProjection_proofs -----------------------
(***************************************************************************)
(* Theorems about OrderProjection, for any number of consumers, any retry  *)
(* budget, and commands in any order.  The argument: a transaction that is *)
(* not stale holds the row itself, so what commits is computed from the    *)
(* current row; and the messages sent are a function of the row.           *)
(***************************************************************************)
EXTENDS OrderProjection, TLAPS

(* A transaction that is still the first writer has read the current row.  *)
FreshReads ==
  \A k \in Consumers :
    consumer[k].command # "none" /\ ~ consumer[k].stale
      => consumer[k].row = order

(* The row is cancelled wherever a cancellation was announced.             *)
Announced ==
  order.status \notin {"Cancelled", "Removed"} => emitted["OrderCancelled"] = 0

ProjectionInv ==
  /\ ProjectionTypeOK /\ FreshReads /\ Announced
  /\ SalesRequestedOnce /\ CancelledOnce

(* A consumer that lets go holds a well-formed, empty delivery.            *)
LEMMA FreeType == Free \in Handling /\ Free.command = "none"
  BY RetryAssumption DEF Free, Handling, PlacedRow, OrderRow, Statuses

(* A save leaves every other transaction stale.                            *)
LEMMA SaveType ==
  ASSUME ProjectionTypeOK, NEW k \in Consumers, NEW row \in OrderRow,
         NEW messages \in SUBSET Messages, Save(k, row, messages)
  PROVE  /\ ProjectionTypeOK' /\ FreshReads' /\ order' = row
         /\ \A m \in messages : emitted'[m] = emitted[m] + 1
         /\ \A m \in Messages \ messages : emitted'[m] = emitted[m]
  <1>1. /\ order' = row /\ consumer' = Overtaken(k) /\ outbox' = outbox
        /\ emitted' = [m \in Messages |-> IF m \in messages THEN emitted[m] + 1
                                                            ELSE emitted[m]]
    BY DEF Save
  <1>2. ASSUME NEW j \in Consumers
        PROVE  /\ Overtaken(k)[j] \in Handling
               /\ Overtaken(k)[j].command = "none" \/ Overtaken(k)[j].stale
    <2>1. consumer[j] \in Handling
      BY DEF ProjectionTypeOK
    <2>2. /\ [consumer[j] EXCEPT !.stale = TRUE] \in Handling
          /\ [consumer[j] EXCEPT !.stale = TRUE].stale
      BY <2>1 DEF Handling
    <2> QED BY <2>1, <2>2, FreeType DEF Overtaken
  <1>3. Overtaken(k) \in [Consumers -> Handling]
    BY <1>2 DEF Overtaken
  <1>4. emitted' \in [Messages -> Nat]
    BY <1>1 DEF ProjectionTypeOK
  <1>5. ProjectionTypeOK'
    BY <1>1, <1>3, <1>4 DEF ProjectionTypeOK
  <1>6. FreshReads'
    BY <1>1, <1>2 DEF FreshReads
  <1> QED BY <1>1, <1>5, <1>6 DEF ProjectionTypeOK

(* A status command that commits asks for the sales if it is the first to  *)
(* say "Paid", and cancels or announces nothing.                           *)
LEMMA UpdateStatusKeeps ==
  ASSUME ProjectionInv, NEW k \in Consumers, UpdateStatus(k)
  PROVE  ProjectionInv'
  <1> DEFINE c == consumer[k].command
             row == Merged(order, c)
             messages == {m \in {"OrderStatusUpdated",
                                 "OrderSellerSaleRegistrationRequested"} :
                 \/ /\ m = "OrderStatusUpdated"
                    /\ ShouldApplyStatus(order.status, Requested[c])
                 \/ /\ m = "OrderSellerSaleRegistrationRequested"
                    /\ Requested[c] = "Paid" /\ ~ order.sales}
  <1> USE DEF ProjectionInv
  <1>1. consumer[k].row = order
    BY DEF UpdateStatus, FreshReads, Save, FirstWriter, StatusCommands, Requested
  <1>2. /\ c \in StatusCommands /\ ~ Dropped(order, c)
        /\ Save(k, row, messages)
    BY <1>1 DEF UpdateStatus
  <1>3. /\ Requested[c] \in Statuses \ {"Created", "Removed"}
        /\ order \in OrderRow
    BY <1>2 DEF StatusCommands, Requested, Statuses, ProjectionTypeOK
  <1>4. /\ row \in OrderRow
        /\ row.sales <=> order.sales \/ Requested[c] = "Paid"
    BY <1>3 DEF Merged, OrderRow
  <1>5. messages \in SUBSET Messages
    BY DEF Messages
  <1>6. order.status \notin {"Cancelled", "Removed"}
    BY <1>2 DEF Dropped, Final
  <1>7. "OrderSellerSaleRegistrationRequested" \in messages
          <=> Requested[c] = "Paid" /\ ~ order.sales
    OBVIOUS
  <1>8. \A m \in {"OrderCancelled", "release-stock-reservation",
                  "refund-payment"} : m \in Messages \ messages
    BY DEF Messages
  <1> HIDE DEF row, messages, c
  <1>9. /\ ProjectionTypeOK' /\ FreshReads' /\ order' = row
        /\ \A m \in messages : emitted'[m] = emitted[m] + 1
        /\ \A m \in Messages \ messages : emitted'[m] = emitted[m]
    BY <1>2, <1>4, <1>5, SaveType
  <1>10. SalesRequestedOnce'
    BY <1>4, <1>7, <1>9 DEF SalesRequestedOnce, Messages
  <1>11. Announced' /\ CancelledOnce'
    BY <1>6, <1>8, <1>9 DEF Announced, CancelledOnce
  <1> QED BY <1>9, <1>10, <1>11

(* A cancellation commits only on a row that was not cancelled before.     *)
LEMMA CancelOrderKeeps ==
  ASSUME ProjectionInv, NEW k \in Consumers, CancelOrder(k)
  PROVE  ProjectionInv'
  <1> DEFINE row == [order EXCEPT !.status = "Cancelled"]
             messages == {"OrderCancelled", "OrderStatusUpdated",
                          "release-stock-reservation"}
               \cup (IF order.paymentId THEN {"refund-payment"} ELSE {})
  <1> USE DEF ProjectionInv
  <1>1. consumer[k].row = order
    BY DEF CancelOrder, FreshReads, Save, FirstWriter
  <1>2. /\ ~ Dropped(order, "cancel-order-command")
        /\ Save(k, row, messages)
    BY <1>1 DEF CancelOrder
  <1>3. /\ row \in OrderRow /\ row.status = "Cancelled"
        /\ row.sales = order.sales
    BY DEF OrderRow, Statuses, ProjectionTypeOK
  <1>4. /\ messages \in SUBSET Messages
        /\ "OrderCancelled" \in messages
        /\ "release-stock-reservation" \in messages
        /\ "OrderSellerSaleRegistrationRequested" \in Messages \ messages
    BY DEF Messages
  <1>5. order.status \notin {"Cancelled", "Removed"}
    BY <1>2 DEF Dropped, Final
  <1> HIDE DEF row, messages
  <1>6. /\ ProjectionTypeOK' /\ FreshReads' /\ order' = row
        /\ \A m \in messages : emitted'[m] = emitted[m] + 1
        /\ \A m \in Messages \ messages : emitted'[m] = emitted[m]
    BY <1>2, <1>3, <1>4, SaveType
  <1>7. SalesRequestedOnce'
    BY <1>3, <1>4, <1>6 DEF SalesRequestedOnce
  <1>8. /\ emitted["OrderCancelled"] = 0
        /\ emitted["release-stock-reservation"] = 0
        /\ emitted["refund-payment"] = 0
    BY <1>5 DEF Announced, CancelledOnce, ProjectionTypeOK, Messages
  <1>9. emitted'["refund-payment"] <= 1
    BY <1>6, <1>8 DEF Messages
  <1>10. CancelledOnce' /\ Announced'
    BY <1>3, <1>4, <1>6, <1>8, <1>9 DEF CancelledOnce, Announced
  <1> QED BY <1>6, <1>7, <1>10

(* Deleting the row overtakes every transaction in progress.               *)
LEMMA RemoveOrderKeeps ==
  ASSUME ProjectionInv, RemoveOrder
  PROVE  ProjectionInv'
  <1> USE DEF ProjectionInv
  <1>1. /\ order' \in OrderRow /\ order'.status = "Removed"
        /\ order'.sales = order.sales
    BY DEF RemoveOrder, ProjectionTypeOK, OrderRow, Statuses
  <1>2. ASSUME NEW j \in Consumers
        PROVE  /\ consumer'[j] \in Handling
               /\ consumer'[j].command = "none" \/ consumer'[j].stale
    BY DEF RemoveOrder, ProjectionTypeOK, Handling
  <1>3. consumer' \in [Consumers -> Handling]
    BY <1>2 DEF RemoveOrder
  <1>4. ProjectionTypeOK' /\ FreshReads'
    BY <1>1, <1>2, <1>3 DEF RemoveOrder, ProjectionTypeOK, FreshReads
  <1>5. SalesRequestedOnce' /\ Announced' /\ CancelledOnce'
    BY <1>1 DEF RemoveOrder, SalesRequestedOnce, Announced, CancelledOnce
  <1> QED BY <1>4, <1>5

(* A step that writes nothing: one consumer reads the row, or lets go.     *)
LEMMA HandlingKeeps ==
  ASSUME ProjectionInv, UNCHANGED <<outbox, order, emitted>>,
         NEW k \in Consumers, NEW h \in Handling,
         h.command = "none" \/ h.row = order,
         consumer' = [consumer EXCEPT ![k] = h]
  PROVE  ProjectionInv'
  <1> USE DEF ProjectionInv
  <1>1. ProjectionTypeOK' /\ FreshReads'
    BY DEF ProjectionTypeOK, FreshReads
  <1>2. SalesRequestedOnce' /\ Announced' /\ CancelledOnce'
    BY DEF SalesRequestedOnce, Announced, CancelledOnce
  <1> QED BY <1>1, <1>2

(* The status moves forward with every transaction that writes it.         *)
LEMMA StatusStep ==
  ASSUME ProjectionInv, ProjectionNext, order'.status # order.status
  PROVE  \/ order'.status = "Removed"
         \/ /\ order.status \notin Final
            /\ Position(order.status) < Position(order'.status)
  <1> USE DEF ProjectionInv
  <1>1. CASE RemoveOrder
    BY <1>1 DEF RemoveOrder, ProjectionTypeOK, OrderRow
  <1>2. ASSUME NEW k \in Consumers, UpdateStatus(k)
        PROVE  /\ order.status \notin Final
               /\ Position(order.status) < Position(order'.status)
    <2> DEFINE c == consumer[k].command
    <2>1. consumer[k].row = order
      BY <1>2 DEF UpdateStatus, FreshReads, Save, FirstWriter, StatusCommands,
                  Requested
    <2>2. c \in StatusCommands /\ ~ Dropped(order, c) /\ order' = Merged(order, c)
      BY <1>2, <2>1 DEF UpdateStatus, Save
    <2>3. /\ ShouldApplyStatus(order.status, Requested[c])
          /\ order'.status = Requested[c]
      BY <2>2 DEF Merged
    <2>4. order.status \notin Final \cup {"Removed"}
      BY <2>2 DEF Dropped
    <2>5. order.status \in Statuses
      BY DEF ProjectionTypeOK, OrderRow
    <2> QED BY <2>3, <2>4, <2>5 DEF ShouldApplyStatus, Position, Final, Statuses
  <1>3. ASSUME NEW k \in Consumers, CancelOrder(k)
        PROVE  /\ order.status \notin Final
               /\ Position(order.status) < Position(order'.status)
    <2>1. consumer[k].row = order
      BY <1>3 DEF CancelOrder, FreshReads, Save, FirstWriter
    <2>2. order'.status = "Cancelled" /\ order.status \notin Final \cup {"Removed"}
      BY <1>3, <2>1 DEF CancelOrder, Save, Dropped, ProjectionTypeOK, OrderRow
    <2>3. order.status \in Statuses
      BY DEF ProjectionTypeOK, OrderRow
    <2> QED BY <2>2, <2>3 DEF Position, Final, Statuses
  <1>4. ASSUME NEW k \in Consumers,
               \/ \E c \in OrderCommands : Take(k, c)
               \/ Drop(k) \/ RetryConflict(k) \/ GiveUpConflict(k) \/ Stop(k)
        PROVE  FALSE
    BY <1>4 DEF Take, Drop, RetryConflict, GiveUpConflict, Stop
  <1> QED BY <1>1, <1>2, <1>3, <1>4 DEF ProjectionNext, FinishHandling

(* Every step keeps the invariant.                                         *)
LEMMA ProjectionStep ==
  ASSUME ProjectionInv, [ProjectionNext]_<<outbox, orderVars>>
  PROVE  ProjectionInv'
  <1> USE DEF ProjectionInv
  <1>1. CASE UNCHANGED <<outbox, orderVars>>
    BY <1>1 DEF orderVars, ProjectionTypeOK, FreshReads, Announced,
                SalesRequestedOnce, CancelledOnce
  <1>2. ASSUME NEW k \in Consumers, NEW c \in OrderCommands, Take(k, c)
        PROVE  ProjectionInv'
    <2> DEFINE h == [command |-> c, row |-> order, stale |-> FALSE,
                     conflicts |-> 0]
    <2>1. h \in Handling /\ h.row = order
      BY RetryAssumption DEF Handling, ProjectionTypeOK
    <2>2. /\ consumer' = [consumer EXCEPT ![k] = h]
          /\ UNCHANGED <<outbox, order, emitted>>
      BY <1>2 DEF Take
    <2> HIDE DEF h
    <2> QED BY <2>1, <2>2, HandlingKeeps
  <1>3. ASSUME NEW k \in Consumers, Drop(k) \/ GiveUpConflict(k) \/ Stop(k)
        PROVE  ProjectionInv'
    <2>1. /\ consumer' = [consumer EXCEPT ![k] = Free]
          /\ UNCHANGED <<outbox, order, emitted>>
      BY <1>3 DEF Drop, GiveUpConflict, Stop, Release
    <2> QED BY <2>1, FreeType, HandlingKeeps
  <1>4. ASSUME NEW k \in Consumers, RetryConflict(k)
        PROVE  ProjectionInv'
    <2> DEFINE h == [command |-> consumer[k].command, row |-> order,
                     stale |-> FALSE, conflicts |-> consumer[k].conflicts + 1]
    <2>1. consumer[k] \in Handling /\ consumer[k].conflicts < MaxConflicts
      BY <1>4 DEF RetryConflict, ProjectionTypeOK
    <2>2. h \in Handling /\ h.row = order
      BY <2>1, RetryAssumption DEF Handling, ProjectionTypeOK
    <2>3. /\ consumer' = [consumer EXCEPT ![k] = h]
          /\ UNCHANGED <<outbox, order, emitted>>
      BY <1>4, <2>1 DEF RetryConflict, Handling, ProjectionTypeOK
    <2> HIDE DEF h
    <2> QED BY <2>2, <2>3, HandlingKeeps
  <1> QED BY <1>1, <1>2, <1>3, <1>4, UpdateStatusKeeps, CancelOrderKeeps,
             RemoveOrderKeeps DEF ProjectionNext, FinishHandling

(* The invariant holds of a row that was just placed.                      *)
LEMMA ProjectionStart == AnyCommandsInit => ProjectionInv
  <1> SUFFICES ASSUME outbox = OrderCommands, ProjectionInit
               PROVE  ProjectionInv
    BY DEF AnyCommandsInit
  <1>1. ProjectionTypeOK
    BY FreeType DEF ProjectionInit, ProjectionTypeOK, PlacedRow, OrderRow, Statuses
  <1>2. FreshReads
    BY FreeType DEF ProjectionInit, FreshReads
  <1>3. Announced /\ SalesRequestedOnce /\ CancelledOnce
    BY DEF ProjectionInit, Announced, SalesRequestedOnce, CancelledOnce,
           PlacedRow, Messages
  <1> QED BY <1>1, <1>2, <1>3 DEF ProjectionInv

(* Every reachable state of the Orders service satisfies the invariant.    *)
THEOREM ProjectionInvariance == ProjectionSpec => []ProjectionInv
  BY ProjectionStart, ProjectionStep, PTL DEF ProjectionSpec

(* Type correctness of the row, its consumers and what they emit.          *)
THEOREM ProjectionTypeCorrect == ProjectionSpec => []ProjectionTypeOK
  <1>1. ProjectionInv => ProjectionTypeOK
    BY DEF ProjectionInv
  <1> QED BY <1>1, ProjectionInvariance, PTL

(* However often the two commands that say "Paid" arrive, and however they *)
(* overlap, the sellers are asked for the sale once.                       *)
THEOREM SalesOnce == ProjectionSpec => []SalesRequestedOnce
  <1>1. ProjectionInv => SalesRequestedOnce
    BY DEF ProjectionInv
  <1> QED BY <1>1, ProjectionInvariance, PTL

(* An order is cancelled, and its cancellation compensated, at most once.  *)
THEOREM CancellationOnce == ProjectionSpec => []CancelledOnce
  <1>1. ProjectionInv => CancelledOnce
    BY DEF ProjectionInv
  <1> QED BY <1>1, ProjectionInvariance, PTL

(* The status of the row never falls back, whichever consumers overlap.    *)
THEOREM StatusMovesForward == ProjectionSpec => StatusNeverFallsBack
  <1>1. ProjectionInv /\ [ProjectionNext]_<<outbox, orderVars>>
          => [order'.status # order.status =>
                \/ order'.status = "Removed"
                \/ /\ order.status \notin Final
                   /\ Position(order.status) < Position(order'.status)]_order
    BY StatusStep DEF orderVars
  <1> QED BY <1>1, ProjectionInvariance, PTL
          DEF ProjectionSpec, StatusNeverFallsBack

(* Whoever writes the row, or sends a message of it, had read the row it   *)
(* replaces, and every other transaction in progress is stale from then    *)
(* on; only the removal of the order does not look at what it removes.     *)
OrdersLoseNoUpdate ==
  [][order' # order \/ emitted' # emitted =>
       /\ \/ order'.status = "Removed" /\ emitted' = emitted
          \/ \E k \in Consumers : consumer[k].row = order /\ consumer[k].command # "none"
       /\ \A j \in Consumers : consumer'[j].command = "none" \/ consumer'[j].stale]_orderVars

(* The consumers of different queues race on the row, and none of them     *)
(* overwrites what it has not seen (UpdateOrderStatusCommandConsumer.cs,   *)
(* CancelOrderCommandConsumer.cs: the snapshot isolation of their outbox). *)
THEOREM RaceLosesNoUpdate == ProjectionSpec => OrdersLoseNoUpdate
  <1> DEFINE Seen == order' # order \/ emitted' # emitted =>
               /\ \/ order'.status = "Removed" /\ emitted' = emitted
                  \/ \E k \in Consumers : consumer[k].row = order /\ consumer[k].command # "none"
               /\ \A j \in Consumers : consumer'[j].command = "none" \/ consumer'[j].stale
  <1>1. ASSUME ProjectionInv, ProjectionNext
        PROVE  Seen
    <2> USE <1>1 DEF ProjectionInv, ProjectionTypeOK
    <2>1. ASSUME NEW k \in Consumers, NEW row, NEW messages, Save(k, row, messages),
                 consumer[k].command # "none"
          PROVE  Seen
      <3>0. ~ consumer[k].stale /\ consumer' = Overtaken(k)
        BY <2>1, Zenon DEF Save, FirstWriter
      <3>1. consumer[k].row = order
        BY <2>1, <3>0, Zenon DEF FreshReads
      <3>2. ASSUME NEW j \in Consumers
            PROVE  Overtaken(k)[j].command = "none" \/ Overtaken(k)[j].stale
        <4>1. consumer[j] \in Handling
          OBVIOUS
        <4>2. [consumer[j] EXCEPT !.stale = TRUE].stale
          BY <4>1 DEF Handling
        <4> QED BY <4>2, FreeType DEF Overtaken
      <3> QED BY <2>1, <3>0, <3>1, <3>2, Zenon
    <2>2. ASSUME NEW k \in Consumers, UpdateStatus(k)
          PROVE  Seen
      <3>1. consumer[k].command # "none"
        BY <2>2 DEF UpdateStatus, StatusCommands, Requested
      <3> QED BY <2>1, <2>2, <3>1 DEF UpdateStatus
    <2>3. ASSUME NEW k \in Consumers, CancelOrder(k)
          PROVE  Seen
      <3>1. consumer[k].command # "none"
        BY <2>3 DEF CancelOrder
      <3> QED BY <2>1, <2>3, <3>1 DEF CancelOrder
    <2>4. CASE RemoveOrder
      <3>1. order'.status = "Removed" /\ emitted' = emitted
        BY <2>4 DEF RemoveOrder, OrderRow
      <3>2. ASSUME NEW j \in Consumers
            PROVE  consumer'[j].command = "none" \/ consumer'[j].stale
        <4>1. consumer[j] \in Handling
          OBVIOUS
        <4>2. [consumer[j] EXCEPT !.stale = TRUE].stale
          BY <4>1 DEF Handling
        <4> QED BY <2>4, <4>2 DEF RemoveOrder
      <3> QED BY <3>1, <3>2
    <2>5. ASSUME NEW k \in Consumers,
                 \/ \E c \in OrderCommands : Take(k, c)
                 \/ Drop(k) \/ RetryConflict(k) \/ GiveUpConflict(k) \/ Stop(k)
          PROVE  Seen
      <3>1. UNCHANGED <<order, emitted>>
        BY <2>5 DEF Take, Drop, RetryConflict, GiveUpConflict, Stop
      <3> QED BY <3>1
    <2> QED BY <1>1, <2>2, <2>3, <2>4, <2>5 DEF ProjectionNext, FinishHandling
  <1>2. ProjectionInv /\ [ProjectionNext]_<<outbox, orderVars>> => [Seen]_orderVars
    BY <1>1
  <1> QED BY <1>2, ProjectionInvariance, PTL DEF ProjectionSpec, OrdersLoseNoUpdate

(* A row that was read in its last status still has it, or was deleted.    *)
ReadsLast ==
  \A k \in Consumers :
    consumer[k].command # "none" /\ consumer[k].row.status \in Final \cup {"Removed"}
      => order.status \in {consumer[k].row.status, "Removed"}

(* A last status is left for no other but the deletion.                    *)
LEMMA LastStays ==
  ASSUME ProjectionInv, ProjectionNext, order.status \in Final \cup {"Removed"}
  PROVE  order'.status \in {order.status, "Removed"}
  <1>1. SUFFICES ASSUME order'.status # order.status PROVE order'.status = "Removed"
    OBVIOUS
  <1>2. order.status = "Removed" => Position(order.status) = 7
    BY DEF Position
  <1>3. Position(order'.status) \in 0 .. 7
    BY DEF Position
  <1>4. \/ order'.status = "Removed"
        \/ order.status \notin Final /\ Position(order.status) < Position(order'.status)
    BY <1>1, StatusStep
  <1>5. order.status # "Removed" => order.status \in Final
    OBVIOUS
  <1> QED BY <1>2, <1>3, <1>4, <1>5

(* Nobody carries a row that was not the row, now or when he read it.      *)
LEMMA ReadsLastStep ==
  ASSUME ProjectionInv, ReadsLast, [ProjectionNext]_<<outbox, orderVars>>
  PROVE  ReadsLast'
  <1> DEFINE Kept(j) == /\ consumer[j].command # "none"
                        /\ consumer'[j].row = consumer[j].row
             Letting(j) == consumer'[j].command = "none"
             Reading(j) == consumer'[j].row = order /\ order' = order
  <1> USE DEF ProjectionInv, ProjectionTypeOK
  <1>1. CASE UNCHANGED <<outbox, orderVars>>
    BY <1>1 DEF orderVars, ReadsLast
  <1>2. CASE ProjectionNext
    <2>1. ASSUME NEW k \in Consumers, NEW row, NEW messages, Save(k, row, messages),
                 NEW j \in Consumers
          PROVE  Letting(j) \/ Kept(j)
      <3>1. consumer' = Overtaken(k) /\ consumer[j] \in Handling
        BY <2>1 DEF Save
      <3>2. [consumer[j] EXCEPT !.stale = TRUE].row = consumer[j].row
        BY <3>1 DEF Handling
      <3> QED BY <3>1, <3>2, FreeType DEF Overtaken
    <2>2. ASSUME NEW k \in Consumers, UpdateStatus(k) \/ CancelOrder(k), NEW j \in Consumers
          PROVE  Letting(j) \/ Kept(j)
      BY <2>1, <2>2 DEF UpdateStatus, CancelOrder
    <2>3. ASSUME RemoveOrder, NEW j \in Consumers
          PROVE  Letting(j) \/ Kept(j)
      <3>1. consumer[j] \in Handling
        OBVIOUS
      <3>2. [consumer[j] EXCEPT !.stale = TRUE].row = consumer[j].row
        BY <3>1 DEF Handling
      <3> QED BY <2>3, <3>2 DEF RemoveOrder
    <2>4. ASSUME NEW k \in Consumers, Drop(k) \/ GiveUpConflict(k) \/ Stop(k),
                 NEW j \in Consumers
          PROVE  Letting(j) \/ Kept(j)
      <3>1. consumer' = [consumer EXCEPT ![k] = Free]
        BY <2>4 DEF Drop, GiveUpConflict, Stop, Release
      <3> QED BY <3>1, FreeType
    <2>5. ASSUME NEW k \in Consumers, NEW c \in OrderCommands, Take(k, c),
                 NEW j \in Consumers
          PROVE  Letting(j) \/ Kept(j) \/ Reading(j)
      BY <2>5 DEF Take
    <2>6. ASSUME NEW k \in Consumers, RetryConflict(k), NEW j \in Consumers
          PROVE  Letting(j) \/ Kept(j) \/ Reading(j)
      <3>1. consumer[j] \in Handling
        OBVIOUS
      <3> QED BY <2>6, <3>1 DEF RetryConflict, Handling
    <2>7. \A j \in Consumers : Letting(j) \/ Kept(j) \/ Reading(j)
      BY <1>2, <2>2, <2>3, <2>4, <2>5, <2>6, Zenon DEF ProjectionNext, FinishHandling
    <2>8. order.status \in Final \cup {"Removed"} => order'.status \in {order.status, "Removed"}
      BY <1>2, LastStays
    <2>9. ASSUME NEW j \in Consumers, consumer'[j].command # "none",
                 consumer'[j].row.status \in Final \cup {"Removed"}
          PROVE  order'.status \in {consumer'[j].row.status, "Removed"}
      <3>1. CASE Reading(j)
        BY <3>1
      <3>2. CASE Kept(j)
        <4>1. order.status \in {consumer[j].row.status, "Removed"}
          BY <2>9, <3>2 DEF ReadsLast
        <4> QED BY <2>8, <2>9, <3>2, <4>1
      <3> QED BY <2>7, <2>9, <3>1, <3>2
    <2> QED BY <2>9 DEF ReadsLast
  <1> QED BY <1>1, <1>2

LEMMA ReadsLastStart == AnyCommandsInit => ReadsLast
  BY FreeType DEF AnyCommandsInit, ProjectionInit, ReadsLast

(* The commands after which the row has its last status.                   *)
ClosesRow == {"cancelled-status", "delivered-status", "cancel-order-command"}

(* A closing command that is acknowledged, applied or dropped, leaves a    *)
(* closed row, however old the row it was dropped on.                      *)
LEMMA AcknowledgedCloses ==
  ASSUME ProjectionInv, ReadsLast, NEW k \in Consumers, consumer[k].command \in ClosesRow,
         UpdateStatus(k) \/ CancelOrder(k) \/ Drop(k)
  PROVE  order'.status \in Final \cup {"Removed"} /\ consumer'[k].command = "none"
  <1> USE DEF ProjectionInv, ProjectionTypeOK
  <1> DEFINE c == consumer[k].command
             row == consumer[k].row
  <1>1. row.status \in Statuses /\ row \in OrderRow
    BY DEF Handling, OrderRow
  <1>2. Requested["cancelled-status"] = "Cancelled" /\ Requested["delivered-status"] = "Delivered"
    BY DEF Requested
  <1>3. ASSUME NEW new, NEW messages, Save(k, new, messages)
        PROVE  order' = new /\ consumer'[k].command = "none"
    BY <1>3, FreeType DEF Save, Overtaken
  <1>4. CASE UpdateStatus(k)
    <2>1. c \in {"cancelled-status", "delivered-status"} /\ ~ Dropped(row, c)
      BY <1>4 DEF UpdateStatus, ClosesRow, StatusCommands, Requested
    <2>2. row.status \notin Final \cup {"Removed"}
      BY <2>1 DEF Dropped
    <2>3. ShouldApplyStatus(row.status, Requested[c])
      BY <1>1, <1>2, <2>1, <2>2 DEF ShouldApplyStatus, Position, Statuses, Final
    <2>4. Merged(row, c).status \in Final
      BY <1>2, <2>1, <2>3 DEF Merged, Final
    <2>5. order' = Merged(row, c) /\ consumer'[k].command = "none"
      BY <1>3, <1>4 DEF UpdateStatus
    <2> QED BY <2>4, <2>5
  <1>5. CASE CancelOrder(k)
    <2>1. order' = [row EXCEPT !.status = "Cancelled"] /\ consumer'[k].command = "none"
      BY <1>3, <1>5 DEF CancelOrder
    <2> QED BY <1>1, <2>1 DEF OrderRow, Final
  <1>6. CASE Drop(k)
    <2>1. /\ Dropped(row, c) /\ order' = order /\ c # "none"
          /\ consumer' = [consumer EXCEPT ![k] = Free]
      BY <1>6 DEF Drop, Release
    <2>2. row.status \in Final \cup {"Removed"}
      BY <1>2, <2>1 DEF Dropped, IsAlreadyApplied, ClosesRow, StatusCommands, Requested, Final
    <2>3. order.status \in Final \cup {"Removed"}
      BY <2>1, <2>2 DEF ReadsLast
    <2> QED BY <2>1, <2>3, FreeType
  <1> QED BY <1>4, <1>5, <1>6
=============================================================================
