-------------------------- MODULE OrderSaga_proofs --------------------------
(***************************************************************************)
(* Theorems about OrderSaga, for any pool of workers, any retry budget and *)
(* any set of shipments.                                                   *)
(*                                                                         *)
(* The argument: a worker whose snapshot still has the row's version holds *)
(* the row itself (Snapshots), so a committing step is a transition from   *)
(* the current state; and in every state the commands of the transitions   *)
(* still ahead have not been sent (Ledger).                                *)
(***************************************************************************)
EXTENDS OrderSaga, TLAPS

(* A snapshot is never newer than the row, and is the row if as new.       *)
Snapshots ==
  /\ saga.version = 0 => saga = NoRow
  /\ \A w \in Workers :
       /\ worker[w].row.version <= saga.version
       /\ worker[w].row.version = saga.version => worker[w].row = saga

(* The states in which a command has not been sent yet.                    *)
NotYetIn(c) ==
  CASE c \in Compensations -> States \ {"Failed"}
    [] c = "payment-timeout" -> {"Initial"}
    [] c \in {"commit-stock-reservation", "empty-basket", "schedule-shipping",
              "mark-paid"} -> {"Initial", "Submitted"}
    [] c = "shipping-scheduled-status" ->
         {"Initial", "Submitted", "Processing", "StockCommitted"}
    [] c \in {"prepare-package", "stock-committed-status"} ->
         {"Initial", "Submitted", "Processing", "ShippingScheduled"}
    [] c \in {"confirm-shipping", "ready-for-pickup-status"} ->
         {"Initial", "Submitted", "Fulfilling"} \cup BeforeStockOutcome
    [] c = "shipped-status" -> {"Initial", "Submitted"} \cup BeforeDispatch
    [] OTHER -> States \ {"Completed"}

Ledger ==
  \A c \in Commands :
    /\ sent[c] <= 1
    /\ saga.state \in NotYetIn(c) => sent[c] = 0

(* What must have been sent in the states that rely on it.                 *)
Reached ==
  /\ saga.state \in BeforeDispatch \cup {"Shipped", "Completed"}
       => sent["commit-stock-reservation"] = 1
  /\ saga.state \in {"StockCommitted", "Fulfilling", "ReadyForPickup"}
       => sent["prepare-package"] = 1
  /\ saga.state \in {"ShippingScheduled", "Fulfilling", "ReadyForPickup"}
       => sent["shipping-scheduled-status"] = 1
  /\ sent["confirm-shipping"] <= sent["prepare-package"]

ShipmentKnown ==
  /\ saga.state \in {"ShippingScheduled", "Fulfilling", "ReadyForPickup"}
       => saga.shipment # NoId
  /\ saga.state \in {"Initial", "Submitted"} \cup BeforeStockOutcome
                    \cup {"Fulfilling"} => named = {}
  /\ named \subseteq {saga.shipment} \ {NoId}

(* The steps of the workflow, and the one of them that takes the payment.  *)
Edge(s, t) ==
  \/ s = "Initial" /\ t = "Submitted"
  \/ s = "Submitted" /\ t \in {"Processing", "Failed"}
  \/ s = "Processing" /\ t \in {"ShippingScheduled", "StockCommitted"}
  \/ s \in {"ShippingScheduled", "StockCommitted"} /\ t = "Fulfilling"
  \/ s = "Fulfilling" /\ t = "ReadyForPickup"
  \/ s \in BeforeDispatch /\ t \in {"Shipped", "Failed"}
  \/ s = "Shipped" /\ t \in {"Completed", "Failed"}

Moved ==
  /\ Edge(saga.state, saga'.state)
  /\ sent'["commit-stock-reservation"] =
       IF saga'.state = "Processing" THEN 1
       ELSE sent["commit-stock-reservation"]

(* The inductive invariant.                                                *)
IndInv ==
  /\ TypeOK /\ Snapshots /\ Ledger /\ Reached /\ ShipmentKnown
  /\ CompensationMatchesOutcome

(* A commit replaces the row that its worker read.                         *)
LEMMA CommitFromRow ==
  ASSUME TypeOK, Snapshots, NEW w \in Workers, RowUnchanged(w)
  PROVE  worker[w].row = saga
  BY DEF Snapshots, RowUnchanged

(* After a commit the other workers' snapshots are older than the row.     *)
LEMMA CommitSnapshots ==
  ASSUME TypeOK, Snapshots, NEW w \in Workers,
         NEW row \in Row, row.version = saga.version,
         NEW cmds \in SUBSET Commands, Commit(w, row, cmds)
  PROVE  /\ Snapshots'
         /\ saga' \in Row /\ worker' \in [Workers -> Delivery]
         /\ sent' \in [Commands -> Nat]
  <1>1. saga' = [row EXCEPT !.version = row.version + 1]
    BY DEF Commit
  <1>2. /\ saga' \in Row
        /\ saga'.version = saga.version + 1
        /\ saga.version \in Nat
    BY <1>1 DEF Row, TypeOK
  <1>3. Idle \in Delivery
    BY ConstantsAssumption DEF Idle, Delivery, NoRow, Row, States
  <1>4. worker' \in [Workers -> Delivery]
    BY <1>3 DEF Commit, Done, TypeOK
  <1>5. sent' \in [Commands -> Nat]
    BY DEF Commit, Send, TypeOK
  <1>6. ASSUME NEW v \in Workers
        PROVE  worker'[v].row.version < saga'.version
    <2>1. worker[v].row.version <= saga.version
      BY DEF Snapshots
    <2>2. worker[v].row.version \in Nat
      BY DEF TypeOK, Delivery, Row
    <2>3. CASE v = w
      BY <2>3, <1>2 DEF Commit, Done, TypeOK, Idle, NoRow
    <2>4. CASE v # w
      BY <2>1, <2>2, <2>4, <1>2 DEF Commit, Done, TypeOK
    <2> QED BY <2>3, <2>4
  <1>7. ASSUME NEW v \in Workers
        PROVE  worker'[v].row.version \in Nat
    BY <1>4, <1>7 DEF Delivery, Row
  <1>8. Snapshots'
    <2>1. saga'.version # 0
      BY <1>2
    <2>2. \A v \in Workers : /\ worker'[v].row.version <= saga'.version
                             /\ worker'[v].row.version # saga'.version
      BY <1>2, <1>6, <1>7
    <2> QED BY <2>1, <2>2 DEF Snapshots
  <1> QED BY <1>2, <1>4, <1>5, <1>8

(* What a commit does to the record of sent commands.                      *)
LEMMA CommitSends ==
  ASSUME TypeOK, NEW w \in Workers, NEW row \in Row,
         NEW cmds \in SUBSET Commands, Commit(w, row, cmds)
  PROVE  /\ saga'.state = row.state /\ saga'.shipment = row.shipment
         /\ \A c \in cmds : sent'[c] = sent[c] + 1
         /\ \A c \in Commands \ cmds : sent'[c] = sent[c]
  BY DEF Commit, Send, TypeOK, Row

(* The ledger survives a commit that sends only commands not sent before,  *)
(* and moves to a state that no longer promises anything about them.       *)
LEMMA CommitLedger ==
  ASSUME TypeOK, Ledger, NEW w \in Workers, NEW row \in Row,
         NEW cmds \in SUBSET Commands, Commit(w, row, cmds),
         \A c \in cmds : saga.state \in NotYetIn(c),
         \A c \in Commands : row.state \in NotYetIn(c)
                               => c \notin cmds /\ saga.state \in NotYetIn(c)
  PROVE  Ledger'
  <1>1. \A c \in Commands : sent[c] \in Nat
    BY DEF TypeOK
  <1>2. /\ saga'.state = row.state
        /\ \A c \in cmds : sent'[c] = sent[c] + 1
        /\ \A c \in Commands \ cmds : sent'[c] = sent[c]
    BY CommitSends
  <1> SUFFICES ASSUME NEW c \in Commands
               PROVE  /\ sent'[c] <= 1
                      /\ saga'.state \in NotYetIn(c) => sent'[c] = 0
    BY DEF Ledger, NotYetIn
  <1>3. sent[c] <= 1 /\ (saga.state \in NotYetIn(c) => sent[c] = 0)
    BY DEF Ledger
  <1>4. CASE c \in cmds
    BY <1>1, <1>2, <1>3, <1>4
  <1>5. CASE c \notin cmds
    BY <1>1, <1>2, <1>3, <1>5
  <1> QED BY <1>4, <1>5

(* A failure path that refunds exactly a paid order, and releases the      *)
(* reservation of an unpaid one, keeps the invariant.                      *)
LEMMA FailKeeps ==
  ASSUME IndInv, NEW w \in Workers,
         NEW cmds \in SUBSET {"release-stock-reservation", "refund-payment",
                              "cancel-shipping"},
         NEW row \in Row, row.version = saga.version, row.state = "Failed",
         row.shipment = saga.shipment,
         Commit(w, row, cmds \cup {"cancelled-status", "cancel-order-command"}),
         Payload(saga, cmds),
         saga.state \in {"Submitted", "Shipped"} \cup BeforeDispatch,
         "refund-payment" \in cmds <=> saga.state # "Submitted",
         saga.state = "Submitted" => "release-stock-reservation" \in cmds,
         "cancel-shipping" \in cmds => saga.shipment # NoId
  PROVE  IndInv' /\ Moved
  <1> DEFINE all == cmds \cup {"cancelled-status", "cancel-order-command"}
  <1> USE DEF IndInv
  <1>1. all \in SUBSET Commands /\ all \in SUBSET Compensations
    BY DEF Commands, Compensations
  <1>2. /\ Snapshots' /\ saga' \in Row /\ worker' \in [Workers -> Delivery]
        /\ sent' \in [Commands -> Nat]
    BY <1>1, CommitSnapshots
  <1>3. TypeOK'
    BY <1>2 DEF TypeOK, Payload, Row
  <1>4. /\ saga'.state = "Failed" /\ saga'.shipment = saga.shipment
        /\ \A c \in all : sent'[c] = sent[c] + 1
        /\ \A c \in Commands \ all : sent'[c] = sent[c]
    BY <1>1, CommitSends
  <1>5. /\ \A c \in all : saga.state \in NotYetIn(c)
        /\ \A c \in Commands : "Failed" \in NotYetIn(c)
             => c \notin all /\ saga.state \in NotYetIn(c)
    BY <1>1 DEF NotYetIn, Commands, Compensations, States, BeforeDispatch, BeforeStockOutcome
  <1>6. Ledger'
    BY <1>1, <1>5, CommitLedger
  <1>7. Reached'
    BY <1>1, <1>4 DEF Reached, Commands, Compensations, BeforeDispatch, BeforeStockOutcome
  <1>8. ShipmentKnown'
    BY <1>4 DEF ShipmentKnown, Payload, BeforeDispatch, BeforeStockOutcome
  <1>9. CompensationMatchesOutcome'
    <2>1. \A c \in Compensations : sent[c] = 0
      BY DEF CompensationMatchesOutcome, BeforeDispatch, BeforeStockOutcome
    <2>2. sent["commit-stock-reservation"]
            = IF saga.state = "Submitted" THEN 0 ELSE 1
      BY DEF Reached, Ledger, NotYetIn, Commands, Compensations
    <2>3. /\ sent'["commit-stock-reservation"] = sent["commit-stock-reservation"]
          /\ sent'["refund-payment"]
               = IF "refund-payment" \in cmds THEN 1 ELSE 0
          /\ "release-stock-reservation" \in cmds
               => sent'["release-stock-reservation"] = 1
          /\ sent'["cancelled-status"] = 1 /\ sent'["cancel-order-command"] = 1
      BY <1>1, <1>4, <2>1 DEF Commands, Compensations
    <2> QED BY <1>4, <2>2, <2>3 DEF CompensationMatchesOutcome
  <1>10. Moved
    BY <1>4 DEF Moved, Edge, Commands, Compensations
  <1> QED BY <1>2, <1>3, <1>6, <1>7, <1>8, <1>9, <1>10

(* A commit on the way to completion, which sends no compensation, keeps   *)
(* the invariant if it keeps the ledger and its own state's promises.      *)
LEMMA ForwardKeeps ==
  ASSUME IndInv, NEW w \in Workers, NEW row \in Row,
         row.version = saga.version, row.state # "Failed",
         saga.state # "Failed",
         NEW cmds \in SUBSET (Commands \ Compensations),
         Commit(w, row, cmds),
         refunds' = refunds,
         named' \subseteq Shipments \cup {NoId},
         \A c \in cmds : saga.state \in NotYetIn(c),
         \A c \in Commands : row.state \in NotYetIn(c)
                               => c \notin cmds /\ saga.state \in NotYetIn(c)
  PROVE  /\ TypeOK' /\ Snapshots' /\ Ledger' /\ CompensationMatchesOutcome'
         /\ saga'.state = row.state /\ saga'.shipment = row.shipment
         /\ \A c \in cmds : sent'[c] = 1
         /\ \A c \in Commands \ cmds : sent'[c] = sent[c]
  <1> USE DEF IndInv
  <1>1. cmds \in SUBSET Commands /\ Compensations \in SUBSET Commands
    BY DEF Commands
  <1>2. /\ Snapshots' /\ saga' \in Row /\ worker' \in [Workers -> Delivery]
        /\ sent' \in [Commands -> Nat]
    BY <1>1, CommitSnapshots
  <1>3. TypeOK'
    BY <1>2 DEF TypeOK
  <1>4. /\ saga'.state = row.state /\ saga'.shipment = row.shipment
        /\ \A c \in cmds : sent'[c] = sent[c] + 1
        /\ \A c \in Commands \ cmds : sent'[c] = sent[c]
    BY <1>1, CommitSends
  <1>5. Ledger'
    BY <1>1, CommitLedger
  <1>6. \A c \in cmds : sent'[c] = 1
    BY <1>1, <1>4 DEF Ledger
  <1>7. CompensationMatchesOutcome'
    <2>1. \A c \in Compensations : c \in Commands \ cmds
      BY <1>1
    <2>2. \A c \in Compensations : sent'[c] = 0
      BY <1>4, <2>1 DEF CompensationMatchesOutcome
    <2> QED BY <1>4, <2>2 DEF CompensationMatchesOutcome
  <1> QED BY <1>2, <1>3, <1>4, <1>5, <1>6, <1>7

(* Placing the order schedules its timeout.                                *)
LEMMA OnOrderSubmittedKeeps ==
  ASSUME IndInv, NEW w \in Workers, OnOrderSubmitted(w)
  PROVE  IndInv' /\ Moved
  <1> DEFINE row == [saga EXCEPT !.state = "Submitted", !.armed = TRUE,
                                 !.payment = PaymentId]
             cmds == {"payment-timeout"}
  <1> USE DEF IndInv
  <1>1. worker[w].row = saga
    BY CommitFromRow DEF OnOrderSubmitted, Commit
  <1>2. Commit(w, row, cmds) /\ UNCHANGED <<refunds, named>>
    BY <1>1 DEF OnOrderSubmitted, NoPayload
  <1>3. saga.state \in {"Initial"}
    BY <1>1 DEF OnOrderSubmitted, Holds
  <1>4. /\ row \in Row /\ row.version = saga.version
        /\ row.state = "Submitted"
    BY <1>3, ConstantsAssumption DEF TypeOK, Row, States
  <1>5. cmds \in SUBSET (Commands \ Compensations)
    BY DEF Commands, Compensations
  <1>6. /\ \A c \in cmds : saga.state \in NotYetIn(c)
        /\ \A c \in Commands : row.state \in NotYetIn(c)
             => c \notin cmds /\ saga.state \in NotYetIn(c)
    BY <1>3, <1>4
       DEF Commands, Compensations, NotYetIn, States, BeforeDispatch,
           BeforeStockOutcome
  <1> HIDE DEF row, cmds
  <1>7. /\ TypeOK' /\ Snapshots' /\ Ledger' /\ CompensationMatchesOutcome'
        /\ saga'.state = row.state /\ saga'.shipment = row.shipment
        /\ \A c \in cmds : sent'[c] = 1
        /\ \A c \in Commands \ cmds : sent'[c] = sent[c]
    BY <1>2, <1>3, <1>4, <1>5, <1>6, ForwardKeeps
       DEF TypeOK, BeforeDispatch, BeforeStockOutcome
  <1>8. Reached'
    BY <1>3, <1>4, <1>7
       DEF cmds, Reached, Ledger, Commands, Compensations, NotYetIn, States, BeforeDispatch,
           BeforeStockOutcome
  <1>9. ShipmentKnown'
    BY <1>2, <1>3, <1>4, <1>7, ConstantsAssumption
       DEF row, ShipmentKnown, BeforeDispatch, BeforeStockOutcome, TypeOK, Row
  <1>10. Moved
    BY <1>3, <1>4, <1>7
       DEF cmds, Moved, Edge, Commands, Compensations, BeforeDispatch, BeforeStockOutcome
  <1> QED BY <1>7, <1>8, <1>9, <1>10

(* The payment starts stock and shipping, which were not started before.   *)
LEMMA OnPaymentCompletedKeeps ==
  ASSUME IndInv, NEW w \in Workers, OnPaymentCompleted(w)
  PROVE  IndInv' /\ Moved
  <1> DEFINE row == [saga EXCEPT !.state = "Processing", !.armed = FALSE,
                                 !.payment = NoId, !.tx = Transaction]
             cmds == {"commit-stock-reservation", "empty-basket",
                      "schedule-shipping", "mark-paid"}
  <1> USE DEF IndInv
  <1>1. worker[w].row = saga
    BY CommitFromRow DEF OnPaymentCompleted, Commit
  <1>2. Commit(w, row, cmds) /\ UNCHANGED <<refunds, named>>
    BY <1>1 DEF OnPaymentCompleted, NoPayload
  <1>3. saga.state \in {"Submitted"}
    BY <1>1 DEF OnPaymentCompleted, Holds
  <1>4. /\ row \in Row /\ row.version = saga.version
        /\ row.state = "Processing"
    BY <1>3, ConstantsAssumption DEF TypeOK, Row, States
  <1>5. cmds \in SUBSET (Commands \ Compensations)
    BY DEF Commands, Compensations
  <1>6. /\ \A c \in cmds : saga.state \in NotYetIn(c)
        /\ \A c \in Commands : row.state \in NotYetIn(c)
             => c \notin cmds /\ saga.state \in NotYetIn(c)
    BY <1>3, <1>4
       DEF Commands, Compensations, NotYetIn, States, BeforeDispatch,
           BeforeStockOutcome
  <1> HIDE DEF row, cmds
  <1>7. /\ TypeOK' /\ Snapshots' /\ Ledger' /\ CompensationMatchesOutcome'
        /\ saga'.state = row.state /\ saga'.shipment = row.shipment
        /\ \A c \in cmds : sent'[c] = 1
        /\ \A c \in Commands \ cmds : sent'[c] = sent[c]
    BY <1>2, <1>3, <1>4, <1>5, <1>6, ForwardKeeps
       DEF TypeOK, BeforeDispatch, BeforeStockOutcome
  <1>8. Reached'
    BY <1>3, <1>4, <1>7
       DEF cmds, Reached, Ledger, Commands, Compensations, NotYetIn, States, BeforeDispatch,
           BeforeStockOutcome
  <1>9. ShipmentKnown'
    BY <1>2, <1>3, <1>4, <1>7, ConstantsAssumption
       DEF row, ShipmentKnown, BeforeDispatch, BeforeStockOutcome, TypeOK, Row
  <1>10. Moved
    BY <1>3, <1>4, <1>7
       DEF cmds, Moved, Edge, Commands, Compensations, BeforeDispatch, BeforeStockOutcome
  <1> QED BY <1>7, <1>8, <1>9, <1>10

(* Stock may be committed before or after shipping is scheduled.           *)
LEMMA OnStockCommittedKeeps ==
  ASSUME IndInv, NEW w \in Workers, OnStockCommitted(w)
  PROVE  IndInv' /\ Moved
  <1> DEFINE row == [saga EXCEPT !.state = NextAfterStock(saga.state)]
             cmds == {"prepare-package", "stock-committed-status"}
  <1> USE DEF IndInv
  <1>1. worker[w].row = saga
    BY CommitFromRow DEF OnStockCommitted, Commit
  <1>2. Commit(w, row, cmds) /\ UNCHANGED <<refunds, named>>
    BY <1>1 DEF OnStockCommitted, NoPayload, MoveTo
  <1>3. saga.state \in {"Processing", "ShippingScheduled"}
    BY <1>1 DEF OnStockCommitted, Holds
  <1>4. /\ row \in Row /\ row.version = saga.version
        /\ row.state = NextAfterStock(saga.state)
    BY <1>3, ConstantsAssumption DEF TypeOK, NextAfterStock, Row, States, NextAfterStock
  <1>5. cmds \in SUBSET (Commands \ Compensations)
    BY DEF Commands, Compensations
  <1>6. /\ \A c \in cmds : saga.state \in NotYetIn(c)
        /\ \A c \in Commands : row.state \in NotYetIn(c)
             => c \notin cmds /\ saga.state \in NotYetIn(c)
    BY <1>3, <1>4
       DEF NextAfterStock, Commands, Compensations, NotYetIn, States, BeforeDispatch,
           BeforeStockOutcome
  <1> HIDE DEF row, NextAfterStock, cmds
  <1>7. /\ TypeOK' /\ Snapshots' /\ Ledger' /\ CompensationMatchesOutcome'
        /\ saga'.state = row.state /\ saga'.shipment = row.shipment
        /\ \A c \in cmds : sent'[c] = 1
        /\ \A c \in Commands \ cmds : sent'[c] = sent[c]
    BY <1>2, <1>3, <1>4, <1>5, <1>6, ForwardKeeps
       DEF TypeOK, NextAfterStock, BeforeDispatch, BeforeStockOutcome
  <1>8. Reached'
    BY <1>3, <1>4, <1>7
       DEF cmds, NextAfterStock, Reached, Ledger, Commands, Compensations, NotYetIn, States, BeforeDispatch,
           BeforeStockOutcome
  <1>9. ShipmentKnown'
    BY <1>2, <1>3, <1>4, <1>7, ConstantsAssumption
       DEF row, NextAfterStock, ShipmentKnown, BeforeDispatch, BeforeStockOutcome, TypeOK, Row
  <1>10. Moved
    BY <1>3, <1>4, <1>7
       DEF cmds, NextAfterStock, Moved, Edge, Commands, Compensations, BeforeDispatch, BeforeStockOutcome
  <1> QED BY <1>7, <1>8, <1>9, <1>10

(* The carrier may collect from any state before dispatch.                 *)
LEMMA OnOrderShippedKeeps ==
  ASSUME IndInv, NEW w \in Workers, OnOrderShipped(w)
  PROVE  IndInv' /\ Moved
  <1> DEFINE row == [saga EXCEPT !.state = "Shipped"]
             cmds == {"shipped-status"}
  <1> USE DEF IndInv
  <1>1. worker[w].row = saga
    BY CommitFromRow DEF OnOrderShipped, Commit
  <1>2. Commit(w, row, cmds) /\ UNCHANGED <<refunds, named>>
    BY <1>1 DEF OnOrderShipped, NoPayload, MoveTo
  <1>3. saga.state \in BeforeDispatch
    BY <1>1 DEF OnOrderShipped, Holds
  <1>4. /\ row \in Row /\ row.version = saga.version
        /\ row.state = "Shipped"
    BY <1>3, ConstantsAssumption DEF TypeOK, Row, States
  <1>5. cmds \in SUBSET (Commands \ Compensations)
    BY DEF Commands, Compensations
  <1>6. /\ \A c \in cmds : saga.state \in NotYetIn(c)
        /\ \A c \in Commands : row.state \in NotYetIn(c)
             => c \notin cmds /\ saga.state \in NotYetIn(c)
    BY <1>3, <1>4
       DEF Commands, Compensations, NotYetIn, States, BeforeDispatch,
           BeforeStockOutcome
  <1> HIDE DEF row, cmds
  <1>7. /\ TypeOK' /\ Snapshots' /\ Ledger' /\ CompensationMatchesOutcome'
        /\ saga'.state = row.state /\ saga'.shipment = row.shipment
        /\ \A c \in cmds : sent'[c] = 1
        /\ \A c \in Commands \ cmds : sent'[c] = sent[c]
    BY <1>2, <1>3, <1>4, <1>5, <1>6, ForwardKeeps
       DEF TypeOK, BeforeDispatch, BeforeStockOutcome
  <1>8. Reached'
    BY <1>3, <1>4, <1>7
       DEF cmds, Reached, Ledger, Commands, Compensations, NotYetIn, States, BeforeDispatch,
           BeforeStockOutcome
  <1>9. ShipmentKnown'
    BY <1>2, <1>3, <1>4, <1>7, ConstantsAssumption
       DEF row, ShipmentKnown, BeforeDispatch, BeforeStockOutcome, TypeOK, Row
  <1>10. Moved
    BY <1>3, <1>4, <1>7
       DEF cmds, Moved, Edge, Commands, Compensations, BeforeDispatch, BeforeStockOutcome
  <1> QED BY <1>7, <1>8, <1>9, <1>10

(* The delivery completes a shipped order.                                 *)
LEMMA OnOrderDeliveredKeeps ==
  ASSUME IndInv, NEW w \in Workers, OnOrderDelivered(w)
  PROVE  IndInv' /\ Moved
  <1> DEFINE row == [saga EXCEPT !.state = "Completed"]
             cmds == {"complete-order", "delivered-status"}
  <1> USE DEF IndInv
  <1>1. worker[w].row = saga
    BY CommitFromRow DEF OnOrderDelivered, Commit
  <1>2. Commit(w, row, cmds) /\ UNCHANGED <<refunds, named>>
    BY <1>1 DEF OnOrderDelivered, NoPayload, MoveTo
  <1>3. saga.state \in {"Shipped"}
    BY <1>1 DEF OnOrderDelivered, Holds
  <1>4. /\ row \in Row /\ row.version = saga.version
        /\ row.state = "Completed"
    BY <1>3, ConstantsAssumption DEF TypeOK, Row, States
  <1>5. cmds \in SUBSET (Commands \ Compensations)
    BY DEF Commands, Compensations
  <1>6. /\ \A c \in cmds : saga.state \in NotYetIn(c)
        /\ \A c \in Commands : row.state \in NotYetIn(c)
             => c \notin cmds /\ saga.state \in NotYetIn(c)
    BY <1>3, <1>4
       DEF Commands, Compensations, NotYetIn, States, BeforeDispatch,
           BeforeStockOutcome
  <1> HIDE DEF row, cmds
  <1>7. /\ TypeOK' /\ Snapshots' /\ Ledger' /\ CompensationMatchesOutcome'
        /\ saga'.state = row.state /\ saga'.shipment = row.shipment
        /\ \A c \in cmds : sent'[c] = 1
        /\ \A c \in Commands \ cmds : sent'[c] = sent[c]
    BY <1>2, <1>3, <1>4, <1>5, <1>6, ForwardKeeps
       DEF TypeOK, BeforeDispatch, BeforeStockOutcome
  <1>8. Reached'
    BY <1>3, <1>4, <1>7
       DEF cmds, Reached, Ledger, Commands, Compensations, NotYetIn, States, BeforeDispatch,
           BeforeStockOutcome
  <1>9. ShipmentKnown'
    BY <1>2, <1>3, <1>4, <1>7, ConstantsAssumption
       DEF row, ShipmentKnown, BeforeDispatch, BeforeStockOutcome, TypeOK, Row
  <1>10. Moved
    BY <1>3, <1>4, <1>7
       DEF cmds, Moved, Edge, Commands, Compensations, BeforeDispatch, BeforeStockOutcome
  <1> QED BY <1>7, <1>8, <1>9, <1>10

(* Confirming the pickup names the shipment the saga knows.                *)
LEMMA OnReadyForPickupKeeps ==
  ASSUME IndInv, NEW w \in Workers, OnReadyForPickup(w)
  PROVE  IndInv' /\ Moved
  <1> DEFINE row == [saga EXCEPT !.state = "ReadyForPickup"]
             cmds == {"confirm-shipping", "ready-for-pickup-status"}
  <1> USE DEF IndInv
  <1>1. worker[w].row = saga
    BY CommitFromRow DEF OnReadyForPickup, Commit
  <1>2. Commit(w, row, cmds) /\ refunds' = refunds
        /\ named' = named \cup {saga.shipment}
    BY <1>1 DEF OnReadyForPickup, MoveTo, Payload
  <1>3. saga.state \in {"Fulfilling"}
    BY <1>1 DEF OnReadyForPickup, Holds
  <1>4. /\ row \in Row /\ row.version = saga.version
        /\ row.state = "ReadyForPickup"
    BY <1>3, ConstantsAssumption DEF TypeOK, Row, States
  <1>5. cmds \in SUBSET (Commands \ Compensations)
    BY DEF Commands, Compensations
  <1>6. /\ \A c \in cmds : saga.state \in NotYetIn(c)
        /\ \A c \in Commands : row.state \in NotYetIn(c)
             => c \notin cmds /\ saga.state \in NotYetIn(c)
    BY <1>3, <1>4
       DEF Commands, Compensations, NotYetIn, States, BeforeDispatch,
           BeforeStockOutcome
  <1> HIDE DEF row, cmds
  <1>7. /\ TypeOK' /\ Snapshots' /\ Ledger' /\ CompensationMatchesOutcome'
        /\ saga'.state = row.state /\ saga'.shipment = row.shipment
        /\ \A c \in cmds : sent'[c] = 1
        /\ \A c \in Commands \ cmds : sent'[c] = sent[c]
    BY <1>2, <1>3, <1>4, <1>5, <1>6, ForwardKeeps
       DEF TypeOK, Row, BeforeDispatch, BeforeStockOutcome
  <1>8. Reached'
    BY <1>3, <1>4, <1>7
       DEF cmds, Reached, Ledger, Commands, Compensations, NotYetIn, States, BeforeDispatch,
           BeforeStockOutcome
  <1>9. ShipmentKnown'
    BY <1>2, <1>3, <1>4, <1>7, ConstantsAssumption
       DEF row, ShipmentKnown, BeforeDispatch, BeforeStockOutcome, TypeOK, Row
  <1>10. Moved
    BY <1>3, <1>4, <1>7
       DEF cmds, Moved, Edge, Commands, Compensations, BeforeDispatch, BeforeStockOutcome
  <1> QED BY <1>7, <1>8, <1>9, <1>10

(* Shipping may be scheduled before or after stock is committed.           *)
LEMMA OnShippingScheduledKeeps ==
  ASSUME IndInv, NEW w \in Workers, OnShippingScheduled(w)
  PROVE  IndInv' /\ Moved
  <1>0. PICK id \in Shipments :
          Commit(w, [worker[w].row EXCEPT
                       !.state = NextAfterShipping(worker[w].row.state),
                       !.shipment = id],
                 {"shipping-scheduled-status"})
    BY DEF OnShippingScheduled
  <1> DEFINE row == [saga EXCEPT !.state = NextAfterShipping(saga.state),
                                 !.shipment = id]
             cmds == {"shipping-scheduled-status"}
  <1> USE DEF IndInv
  <1>1. worker[w].row = saga
    BY <1>0, CommitFromRow DEF Commit
  <1>2. Commit(w, row, cmds) /\ UNCHANGED <<refunds, named>>
    BY <1>0, <1>1 DEF OnShippingScheduled, NoPayload
  <1>3. saga.state \in {"Processing", "StockCommitted"}
    BY <1>1 DEF OnShippingScheduled, Holds
  <1>4. /\ row \in Row /\ row.version = saga.version
        /\ row.state = NextAfterShipping(saga.state)
    BY <1>3, ConstantsAssumption DEF TypeOK, NextAfterShipping, Row, States, NextAfterShipping
  <1>5. cmds \in SUBSET (Commands \ Compensations)
    BY DEF Commands, Compensations
  <1>6. /\ \A c \in cmds : saga.state \in NotYetIn(c)
        /\ \A c \in Commands : row.state \in NotYetIn(c)
             => c \notin cmds /\ saga.state \in NotYetIn(c)
    BY <1>3, <1>4
       DEF NextAfterShipping, Commands, Compensations, NotYetIn, States, BeforeDispatch,
           BeforeStockOutcome
  <1> HIDE DEF row, NextAfterShipping, cmds
  <1>7. /\ TypeOK' /\ Snapshots' /\ Ledger' /\ CompensationMatchesOutcome'
        /\ saga'.state = row.state /\ saga'.shipment = row.shipment
        /\ \A c \in cmds : sent'[c] = 1
        /\ \A c \in Commands \ cmds : sent'[c] = sent[c]
    BY <1>2, <1>3, <1>4, <1>5, <1>6, ForwardKeeps
       DEF TypeOK, NextAfterShipping, BeforeDispatch, BeforeStockOutcome
  <1>8. Reached'
    BY <1>3, <1>4, <1>7
       DEF cmds, NextAfterShipping, Reached, Ledger, Commands, Compensations, NotYetIn, States, BeforeDispatch,
           BeforeStockOutcome
  <1>9. ShipmentKnown'
    BY <1>2, <1>3, <1>4, <1>7, ConstantsAssumption
       DEF row, NextAfterShipping, ShipmentKnown, BeforeDispatch, BeforeStockOutcome, TypeOK, Row
  <1>10. Moved
    BY <1>3, <1>4, <1>7
       DEF cmds, NextAfterShipping, Moved, Edge, Commands, Compensations, BeforeDispatch, BeforeStockOutcome
  <1> QED BY <1>7, <1>8, <1>9, <1>10

(* A late timeout only clears its token.                                   *)
LEMMA OnLateTimeoutKeeps ==
  ASSUME IndInv, NEW w \in Workers, OnLateTimeout(w)
  PROVE  IndInv' /\ UNCHANGED <<saga.state, sent>>
  <1> DEFINE row == [saga EXCEPT !.armed = FALSE]
  <1> USE DEF IndInv
  <1>1. worker[w].row = saga
    BY CommitFromRow DEF OnLateTimeout, Commit
  <1>2. Commit(w, row, {}) /\ UNCHANGED <<refunds, named>>
    BY <1>1 DEF OnLateTimeout, NoPayload
  <1>3. /\ row \in Row /\ row.version = saga.version
        /\ row.state = saga.state /\ row.shipment = saga.shipment
    BY DEF TypeOK, Row
  <1> HIDE DEF row
  <1>4. /\ Snapshots' /\ saga' \in Row /\ worker' \in [Workers -> Delivery]
        /\ sent' \in [Commands -> Nat]
    BY <1>2, <1>3, CommitSnapshots
  <1>5. /\ saga'.state = saga.state /\ saga'.shipment = saga.shipment
        /\ \A c \in Commands : sent'[c] = sent[c]
    BY <1>2, <1>3, CommitSends
  <1>6. sent' = sent
    BY <1>4, <1>5 DEF TypeOK
  <1>7. TypeOK'
    BY <1>2, <1>4 DEF TypeOK
  <1>8. Ledger' /\ Reached' /\ ShipmentKnown' /\ CompensationMatchesOutcome'
    BY <1>2, <1>5, <1>6
       DEF Ledger, NotYetIn, Reached, ShipmentKnown, CompensationMatchesOutcome
  <1> QED BY <1>4, <1>5, <1>6, <1>7, <1>8

(* The timeout cancels an unpaid order.                                    *)
LEMMA OnPaymentTimeoutKeeps ==
  ASSUME IndInv, NEW w \in Workers, OnPaymentTimeout(w)
  PROVE  IndInv' /\ Moved
  <1> DEFINE row == [saga EXCEPT !.state = "Failed", !.armed = FALSE]
             cmds == {"release-stock-reservation"}
  <1> USE DEF IndInv
  <1>1. worker[w].row = saga
    BY CommitFromRow DEF OnPaymentTimeout, Fail, Commit
  <1>2. saga.state \in {"Submitted"}
    BY <1>1 DEF OnPaymentTimeout, Holds
  <1>3. /\ cmds \in SUBSET {"release-stock-reservation", "refund-payment",
                             "cancel-shipping"}
        /\ "cancel-shipping" \in cmds => saga.shipment # NoId
    BY DEF CancelShipping
  <1>4. /\ Commit(w, row, cmds \cup {"cancelled-status",
                                      "cancel-order-command"})
        /\ Payload(saga, cmds)
    BY <1>1 DEF OnPaymentTimeout, NoPayload, Payload
  <1>5. /\ row \in Row /\ row.version = saga.version
        /\ row.state = "Failed" /\ row.shipment = saga.shipment
    BY DEF TypeOK, Row, States
  <1>6. /\ "refund-payment" \in cmds <=> saga.state # "Submitted"
        /\ saga.state = "Submitted" => "release-stock-reservation" \in cmds
        /\ saga.state \in {"Submitted", "Shipped"} \cup BeforeDispatch
    BY <1>2 DEF CancelShipping, BeforeDispatch, BeforeStockOutcome
  <1> HIDE DEF row, cmds
  <1> QED BY <1>3, <1>4, <1>5, <1>6, FailKeeps

(* A failed payment cancels an unpaid order.                               *)
LEMMA OnPaymentFailedKeeps ==
  ASSUME IndInv, NEW w \in Workers, OnPaymentFailed(w)
  PROVE  IndInv' /\ Moved
  <1> DEFINE row == [saga EXCEPT !.state = "Failed"]
             cmds == {"release-stock-reservation"}
  <1> USE DEF IndInv
  <1>1. worker[w].row = saga
    BY CommitFromRow DEF OnPaymentFailed, Fail, Commit
  <1>2. saga.state \in {"Submitted"}
    BY <1>1 DEF OnPaymentFailed, Holds
  <1>3. /\ cmds \in SUBSET {"release-stock-reservation", "refund-payment",
                             "cancel-shipping"}
        /\ "cancel-shipping" \in cmds => saga.shipment # NoId
    BY DEF CancelShipping
  <1>4. /\ Commit(w, row, cmds \cup {"cancelled-status",
                                      "cancel-order-command"})
        /\ Payload(saga, cmds)
    BY <1>1 DEF OnPaymentFailed, Fail, MoveTo, CancelShipping
  <1>5. /\ row \in Row /\ row.version = saga.version
        /\ row.state = "Failed" /\ row.shipment = saga.shipment
    BY DEF TypeOK, Row, States
  <1>6. /\ "refund-payment" \in cmds <=> saga.state # "Submitted"
        /\ saga.state = "Submitted" => "release-stock-reservation" \in cmds
        /\ saga.state \in {"Submitted", "Shipped"} \cup BeforeDispatch
    BY <1>2 DEF CancelShipping, BeforeDispatch, BeforeStockOutcome
  <1> HIDE DEF row, cmds
  <1> QED BY <1>3, <1>4, <1>5, <1>6, FailKeeps

(* A stock failure refunds, and leaves no reservation to release.          *)
LEMMA OnStockCommitFailedKeeps ==
  ASSUME IndInv, NEW w \in Workers, OnStockCommitFailed(w)
  PROVE  IndInv' /\ Moved
  <1> DEFINE row == [saga EXCEPT !.state = "Failed"]
             cmds == {"refund-payment"} \cup CancelShipping(saga)
  <1> USE DEF IndInv
  <1>1. worker[w].row = saga
    BY CommitFromRow DEF OnStockCommitFailed, Fail, Commit
  <1>2. saga.state \in BeforeStockOutcome
    BY <1>1 DEF OnStockCommitFailed, Holds
  <1>3. /\ cmds \in SUBSET {"release-stock-reservation", "refund-payment",
                             "cancel-shipping"}
        /\ "cancel-shipping" \in cmds => saga.shipment # NoId
    BY DEF CancelShipping
  <1>4. /\ Commit(w, row, cmds \cup {"cancelled-status",
                                      "cancel-order-command"})
        /\ Payload(saga, cmds)
    BY <1>1 DEF OnStockCommitFailed, Fail, MoveTo, CancelShipping
  <1>5. /\ row \in Row /\ row.version = saga.version
        /\ row.state = "Failed" /\ row.shipment = saga.shipment
    BY DEF TypeOK, Row, States
  <1>6. /\ "refund-payment" \in cmds <=> saga.state # "Submitted"
        /\ saga.state = "Submitted" => "release-stock-reservation" \in cmds
        /\ saga.state \in {"Submitted", "Shipped"} \cup BeforeDispatch
    BY <1>2 DEF CancelShipping, BeforeDispatch, BeforeStockOutcome
  <1> HIDE DEF row, cmds
  <1> QED BY <1>3, <1>4, <1>5, <1>6, FailKeeps

(* A package issue before dispatch undoes payment, stock and shipping.     *)
LEMMA OnPackageIssueKeeps ==
  ASSUME IndInv, NEW w \in Workers, OnPackageIssue(w)
  PROVE  IndInv' /\ Moved
  <1> DEFINE row == [saga EXCEPT !.state = "Failed"]
             cmds == {"refund-payment", "release-stock-reservation"}
                       \cup CancelShipping(saga)
  <1> USE DEF IndInv
  <1>1. worker[w].row = saga
    BY CommitFromRow DEF OnPackageIssue, Fail, Commit
  <1>2. saga.state \in BeforeDispatch
    BY <1>1 DEF OnPackageIssue, Holds
  <1>3. /\ cmds \in SUBSET {"release-stock-reservation", "refund-payment",
                             "cancel-shipping"}
        /\ "cancel-shipping" \in cmds => saga.shipment # NoId
    BY DEF CancelShipping
  <1>4. /\ Commit(w, row, cmds \cup {"cancelled-status",
                                      "cancel-order-command"})
        /\ Payload(saga, cmds)
    BY <1>1 DEF OnPackageIssue, Fail, MoveTo, CancelShipping
  <1>5. /\ row \in Row /\ row.version = saga.version
        /\ row.state = "Failed" /\ row.shipment = saga.shipment
    BY DEF TypeOK, Row, States
  <1>6. /\ "refund-payment" \in cmds <=> saga.state # "Submitted"
        /\ saga.state = "Submitted" => "release-stock-reservation" \in cmds
        /\ saga.state \in {"Submitted", "Shipped"} \cup BeforeDispatch
    BY <1>2 DEF CancelShipping, BeforeDispatch, BeforeStockOutcome
  <1> HIDE DEF row, cmds
  <1> QED BY <1>3, <1>4, <1>5, <1>6, FailKeeps

(* A shipping failure refunds, and releases what was not dispatched.       *)
LEMMA OnShippingFailedKeeps ==
  ASSUME IndInv, NEW w \in Workers, OnShippingFailed(w)
  PROVE  IndInv' /\ Moved
  <1> DEFINE row == [saga EXCEPT !.state = "Failed"]
             cmds == {"refund-payment"} \cup
                       (IF saga.state = "Shipped" THEN {}
                        ELSE {"release-stock-reservation"})
  <1> USE DEF IndInv
  <1>1. worker[w].row = saga
    BY CommitFromRow DEF OnShippingFailed, Fail, Commit
  <1>2. saga.state \in BeforeDispatch \cup {"Shipped"}
    BY <1>1 DEF OnShippingFailed, Holds
  <1>3. /\ cmds \in SUBSET {"release-stock-reservation", "refund-payment",
                             "cancel-shipping"}
        /\ "cancel-shipping" \in cmds => saga.shipment # NoId
    BY DEF CancelShipping
  <1>4. /\ Commit(w, row, cmds \cup {"cancelled-status",
                                      "cancel-order-command"})
        /\ Payload(saga, cmds)
    BY <1>1 DEF OnShippingFailed, Holds, Fail, MoveTo, BeforeDispatch, BeforeStockOutcome
  <1>5. /\ row \in Row /\ row.version = saga.version
        /\ row.state = "Failed" /\ row.shipment = saga.shipment
    BY DEF TypeOK, Row, States
  <1>6. /\ "refund-payment" \in cmds <=> saga.state # "Submitted"
        /\ saga.state = "Submitted" => "release-stock-reservation" \in cmds
        /\ saga.state \in {"Submitted", "Shipped"} \cup BeforeDispatch
    BY <1>2 DEF CancelShipping, BeforeDispatch, BeforeStockOutcome
  <1> HIDE DEF row, cmds
  <1> QED BY <1>3, <1>4, <1>5, <1>6, FailKeeps

(* A step that commits nothing, in which every worker keeps its snapshot,  *)
(* drops it, or reads the row.                                             *)
LEMMA ReadKeeps ==
  ASSUME IndInv, UNCHANGED <<saga, sent, refunds, named>>,
         NEW w \in Workers, NEW d \in Delivery,
         d.row = saga \/ d.row = NoRow,
         worker' = [worker EXCEPT ![w] = d]
  PROVE  IndInv'
  <1> USE DEF IndInv
  <1>1. TypeOK'
    BY DEF TypeOK
  <1>2. saga.version \in Nat
    BY DEF TypeOK, Row
  <1>3. NoRow.version = 0
    BY DEF NoRow
  <1>4. /\ d.row.version \in Nat /\ d.row.version <= saga.version
        /\ d.row.version = saga.version => d.row = saga
    BY <1>2, <1>3 DEF Snapshots
  <1>5. \A v \in Workers : worker'[v] = worker[v] \/ worker'[v] = d
    BY DEF TypeOK
  <1>6. Snapshots'
    BY <1>4, <1>5 DEF Snapshots
  <1>7. Ledger' /\ Reached' /\ ShipmentKnown' /\ CompensationMatchesOutcome'
    BY DEF Ledger, NotYetIn, Reached, ShipmentKnown, CompensationMatchesOutcome
  <1> QED BY <1>1, <1>6, <1>7

(* A free worker holds no row.                                             *)
LEMMA IdleType == Idle \in Delivery /\ Idle.row = NoRow
  BY ConstantsAssumption DEF Idle, Delivery, NoRow, Row, States

(* Every step keeps the invariant, and moves along an edge or nowhere.     *)
LEMMA StepKeeps ==
  ASSUME IndInv, [Next]_vars
  PROVE  IndInv' /\ (Moved \/ UNCHANGED <<saga.state, sent>>)
  <1>1. CASE UNCHANGED vars
    BY <1>1 DEF vars, IndInv, TypeOK, Snapshots, Ledger, NotYetIn, Reached,
                ShipmentKnown, CompensationMatchesOutcome
  <1>2. ASSUME NEW w \in Workers, NEW e \in Events, Receive(w, e)
        PROVE  IndInv' /\ UNCHANGED <<saga.state, sent>>
    <2> DEFINE d == [event |-> e, row |-> saga, tries |-> 0]
    <2>1. d \in Delivery /\ d.row = saga
      BY ConstantsAssumption DEF IndInv, TypeOK, Delivery
    <2>2. /\ worker' = [worker EXCEPT ![w] = d]
          /\ UNCHANGED <<saga, sent, refunds, named>>
      BY <1>2 DEF Receive
    <2> HIDE DEF d
    <2> QED BY <2>1, <2>2, ReadKeeps
  <1>3. ASSUME NEW w \in Workers, Transition(w)
        PROVE  IndInv' /\ (Moved \/ UNCHANGED <<saga.state, sent>>)
    BY <1>3, OnOrderSubmittedKeeps, OnPaymentCompletedKeeps,
       OnPaymentTimeoutKeeps, OnLateTimeoutKeeps, OnPaymentFailedKeeps,
       OnShippingScheduledKeeps, OnStockCommittedKeeps, OnReadyForPickupKeeps,
       OnStockCommitFailedKeeps, OnPackageIssueKeeps, OnShippingFailedKeeps,
       OnOrderShippedKeeps, OnOrderDeliveredKeeps DEF Transition
  <1>4. ASSUME NEW w \in Workers,
               Discard(w) \/ Ignore(w) \/ Unhandled(w) \/ GiveUp(w) \/ Crash(w)
        PROVE  IndInv' /\ UNCHANGED <<saga.state, sent>>
    <2>1. /\ worker' = [worker EXCEPT ![w] = Idle]
          /\ UNCHANGED <<saga, sent, refunds, named>>
      BY <1>4 DEF Discard, Ignore, Unhandled, GiveUp, Crash, Done
    <2> QED BY <2>1, IdleType, ReadKeeps
  <1>5. ASSUME NEW w \in Workers, Retry(w)
        PROVE  IndInv' /\ UNCHANGED <<saga.state, sent>>
    <2> DEFINE d == [event |-> worker[w].event, row |-> saga,
                     tries |-> worker[w].tries + 1]
    <2>1. /\ worker[w] \in Delivery /\ worker[w].tries < MaxRetries
          /\ saga \in Row
      BY <1>5 DEF Retry, IndInv, TypeOK
    <2>2. d \in Delivery /\ d.row = saga
      BY <2>1, ConstantsAssumption DEF Delivery
    <2>3. /\ worker' = [worker EXCEPT ![w] = d]
          /\ UNCHANGED <<saga, sent, refunds, named>>
      BY <1>5, <2>1 DEF Retry, Delivery, IndInv, TypeOK
    <2> HIDE DEF d
    <2> QED BY <2>2, <2>3, ReadKeeps
  <1> QED BY <1>1, <1>2, <1>3, <1>4, <1>5 DEF Next, Finish

(* The invariant holds of an order nobody has placed.                      *)
LEMMA InitInv == Init => IndInv
  <1> SUFFICES ASSUME Init PROVE IndInv
    OBVIOUS
  <1>1. NoRow \in Row
    BY ConstantsAssumption DEF NoRow, Row, States
  <1>2. TypeOK
    BY <1>1, IdleType DEF Init, TypeOK
  <1>3. Snapshots
    <2>1. \A w \in Workers : worker[w].row = NoRow
      BY IdleType DEF Init
    <2>2. saga = NoRow /\ NoRow.version = 0
      BY DEF Init, NoRow
    <2> QED BY <2>1, <2>2 DEF Snapshots
  <1>4. Ledger
    BY DEF Init, Ledger
  <1>5. saga.state = "Initial"
    BY DEF Init, NoRow
  <1>6. Reached
    BY <1>5 DEF Init, Reached, Commands, BeforeDispatch, BeforeStockOutcome
  <1>7. ShipmentKnown
    BY <1>5 DEF Init, ShipmentKnown
  <1>8. CompensationMatchesOutcome
    BY <1>5 DEF Init, CompensationMatchesOutcome, Commands
  <1> QED BY <1>2, <1>3, <1>4, <1>6, <1>7, <1>8 DEF IndInv

(* Every reachable state satisfies the inductive invariant.                *)
THEOREM Invariance == Spec => []IndInv
  <1>1. Init => IndInv
    BY InitInv
  <1>2. IndInv /\ [Next]_vars => IndInv'
    BY StepKeeps
  <1> QED BY <1>1, <1>2, PTL DEF Spec

(* Type correctness of the saga, its workers and its outbox.               *)
THEOREM TypeCorrect == Spec => []TypeOK
  <1>1. IndInv => TypeOK
    BY DEF IndInv
  <1> QED BY <1>1, Invariance, PTL

(* No command of the workflow is ever written to the outbox twice, however *)
(* many deliveries of however many events overlap.                         *)
THEOREM EffectsHappenOnce == Spec => []CommandsOnce
  <1>1. IndInv => CommandsOnce
    BY DEF IndInv, Ledger, CommandsOnce
  <1> QED BY <1>1, Invariance, PTL

(* A failed order is cancelled, and refunded exactly if it was paid.       *)
THEOREM CompensationIsExact == Spec => []CompensationMatchesOutcome
  <1>1. IndInv => CompensationMatchesOutcome
    BY DEF IndInv
  <1> QED BY <1>1, Invariance, PTL

(* The pickup waits for stock and shipping, and names the right shipment.  *)
THEOREM FulfilmentIsJoined == Spec => []FulfilmentNeedsBoth
  <1>1. IndInv => FulfilmentNeedsBoth
    BY DEF IndInv, Reached, ShipmentKnown, FulfilmentNeedsBoth
  <1> QED BY <1>1, Invariance, PTL

(* The saga never goes back, and a finished saga sends nothing more.       *)
THEOREM SagaMovesForward == Spec => ForwardOnly
  <1>1. Moved => Rank(saga.state) < Rank(saga'.state)
    BY DEF Moved, Edge, Rank, BeforeDispatch, BeforeStockOutcome
  <1>2. IndInv /\ [Next]_vars
          => [<<saga.state, sent>>' # <<saga.state, sent>>
                => Rank(saga.state) < Rank(saga'.state)]_vars
    BY <1>1, StepKeeps
  <1> QED BY <1>2, Invariance, PTL DEF Spec, ForwardOnly

(* The saga implements the order lifecycle: the first state is a first     *)
(* state of the lifecycle, and every step a step of it or a stutter.       *)
THEOREM SagaImplementsLifecycle == Spec => ImplementsLifecycle
  <1> USE DEF Lifecycle!Next, Lifecycle!Place, Lifecycle!Capture,
              Lifecycle!Dispatch, Lifecycle!Complete, Lifecycle!CancelUnpaid,
              Lifecycle!CancelPaid
  <1>1. Init => Lifecycle!Init
    BY DEF Init, NoRow, Lifecycle!Init, Phase, Money, Commands, Compensations
  <1>2. ASSUME IndInv, IndInv', Moved
        PROVE  Lifecycle!Next \/ UNCHANGED <<Phase, Money>>
    <2>1. /\ saga.state # "Failed" => sent["refund-payment"] = 0
          /\ saga.state = "Failed" =>
               sent["refund-payment"] = sent["commit-stock-reservation"]
          /\ saga.state \in {"Initial", "Submitted"} =>
               sent["commit-stock-reservation"] = 0
          /\ saga.state \in BeforeDispatch \cup {"Shipped", "Completed"} =>
               sent["commit-stock-reservation"] = 1
      BY <1>2 DEF IndInv, CompensationMatchesOutcome, Compensations, Reached,
                  Ledger, NotYetIn, Commands
    <2>2. /\ saga'.state # "Failed" => sent'["refund-payment"] = 0
          /\ saga'.state = "Failed" =>
               sent'["refund-payment"] = sent'["commit-stock-reservation"]
      BY <1>2 DEF IndInv, CompensationMatchesOutcome, Compensations
    <2> QED BY <1>2, <2>1, <2>2
            DEF Moved, Edge, Phase, Money, BeforeDispatch, BeforeStockOutcome
  <1>3. UNCHANGED <<saga.state, sent>> => UNCHANGED <<Phase, Money>>
    BY DEF Phase, Money
  <1>4. IndInv /\ [Next]_vars => [Lifecycle!Next]_<<Phase, Money>>
    BY <1>2, <1>3, StepKeeps
  <1> QED BY <1>1, <1>4, Invariance, PTL
          DEF Spec, ImplementsLifecycle, Lifecycle!Spec

(* The tables of the state machine and its transitions agree: a transition *)
(* is of an event the row's state has a binder for, and of none that is    *)
(* ignored.                                                                *)
LEMMA TransitionWrites ==
  ASSUME NEW w \in Workers, Transition(w)
  PROVE  Writes(worker[w]) /\ ~ Ignored(worker[w])
  <1>1. CASE OnPaymentTimeout(w) \/ OnLateTimeout(w)
    <2>1. worker[w].event = "PaymentTimeout" /\ worker[w].row.armed
      BY <1>1 DEF OnPaymentTimeout, OnLateTimeout, Holds
    <2> QED BY <2>1 DEF Writes, Ignored
  <1>2. CASE ~ (OnPaymentTimeout(w) \/ OnLateTimeout(w))
    <2>1. PICK e, s : e = worker[w].event /\ s = worker[w].row.state
      OBVIOUS
    <2>2. /\ e \in Events /\ e # "PaymentTimeout"
          /\ e \in HandledIn(s) /\ e \notin IgnoredIn(s)
      BY <1>2, <2>1
         DEF Transition, OnOrderSubmitted, OnPaymentCompleted, OnPaymentFailed,
             OnShippingScheduled, OnStockCommitted, OnReadyForPickup, OnStockCommitFailed,
             OnPackageIssue, OnShippingFailed, OnOrderShipped, OnOrderDelivered, Holds,
             HandledIn, IgnoredIn, Events, Terminal, BeforeDispatch, BeforeStockOutcome
    <2> QED BY <2>1, <2>2 DEF Writes, Ignored
  <1> QED BY <1>1, <1>2

---------------------------------------------------------------------------
(* What the saga owes, and what it still knows of the payment. *)

(* A waiting order holds the token of the timeout it has scheduled, and    *)
(* every milestone the saga has passed has been told to the Orders service.*)
Debts ==
  /\ saga.state = "Submitted" => saga.armed /\ sent["payment-timeout"] = 1
  /\ saga.state \in {"Shipped", "Completed"} => sent["shipped-status"] = 1
  /\ saga.state = "Completed"
       => sent["complete-order"] = 1 /\ sent["delivered-status"] = 1

(* From the payment on the row knows it by the provider's transaction only,*)
(* and so does the refund.                                                 *)
Identified ==
  /\ saga.state \in BeforeDispatch \cup {"Shipped", "Completed"}
       => saga.payment = NoId /\ saga.tx = Transaction
  /\ refunds = IF sent["refund-payment"] > 0
               THEN {[payment |-> NoId, tx |-> Transaction]} ELSE {}

(* What a transition does to the row, the outbox and the refunds.          *)
Placed(cmds) ==
  /\ saga.state = "Initial" /\ saga'.state = "Submitted" /\ saga'.armed
  /\ cmds = {"payment-timeout"} /\ UNCHANGED refunds

PaidBy(cmds) ==
  /\ saga.state = "Submitted" /\ saga'.state = "Processing"
  /\ saga'.payment = NoId /\ saga'.tx = Transaction
  /\ "refund-payment" \notin cmds /\ UNCHANGED refunds

Disarmed(cmds) ==
  /\ saga.state \notin {"Initial", "Submitted"} /\ saga'.state = saga.state
  /\ saga'.payment = saga.payment /\ saga'.tx = saga.tx
  /\ cmds = {} /\ UNCHANGED refunds

Advanced(cmds) ==
  /\ saga.state \in BeforeDispatch \cup {"Shipped"}
  /\ saga'.state \in BeforeDispatch \cup {"Shipped", "Completed"}
  /\ saga'.payment = saga.payment /\ saga'.tx = saga.tx
  /\ saga'.state = "Shipped" => "shipped-status" \in cmds
  /\ saga'.state = "Completed" => saga.state = "Shipped"
                                  /\ {"complete-order", "delivered-status"} \subseteq cmds
  /\ "refund-payment" \notin cmds /\ UNCHANGED refunds

FailedBy(cmds) ==
  /\ saga.state \in BeforeDispatch \cup {"Submitted", "Shipped"}
  /\ saga'.state = "Failed" /\ cmds \subseteq Compensations
  /\ "refund-payment" \in cmds => saga.state # "Submitted"
  /\ refunds' = IF "refund-payment" \in cmds
                THEN refunds \cup {[payment |-> saga.payment, tx |-> saga.tx]}
                ELSE refunds

(* What a transition reads and writes besides its commands, by the way the *)
(* state moves: the row is the one that was read, and each kind of step    *)
(* leaves the timeout, the transaction and the payment as its shape says.  *)
LEMMA TransitionShape ==
  ASSUME IndInv, NEW w \in Workers, Transition(w)
  PROVE  /\ worker[w].row = saga /\ saga'.version = saga.version + 1
         /\ worker' = [worker EXCEPT ![w] = Idle]
         /\ \E cmds \in SUBSET Commands :
              /\ Send(cmds)
              /\ \/ Placed(cmds) \/ PaidBy(cmds) \/ Disarmed(cmds)
                 \/ Advanced(cmds) \/ FailedBy(cmds)
  <1> DEFINE Shape(cmds) == \/ Placed(cmds) \/ PaidBy(cmds) \/ Disarmed(cmds)
                            \/ Advanced(cmds) \/ FailedBy(cmds)
             Told == /\ worker[w].row = saga /\ saga'.version = saga.version + 1
                     /\ worker' = [worker EXCEPT ![w] = Idle]
                     /\ \E cmds \in SUBSET Commands : Send(cmds) /\ Shape(cmds)
  <1>1. TypeOK /\ Snapshots /\ saga \in Row
    BY DEF IndInv, TypeOK
  <1>2. ASSUME NEW row \in Row, NEW cmds \in SUBSET Commands, Commit(w, row, cmds)
        PROVE  /\ worker[w].row = saga
               /\ row.version = saga.version => saga'.version = saga.version + 1
               /\ worker' = [worker EXCEPT ![w] = Idle] /\ Send(cmds)
               /\ saga'.state = row.state /\ saga'.armed = row.armed
               /\ saga'.payment = row.payment /\ saga'.tx = row.tx
    BY <1>1, <1>2, CommitFromRow DEF Commit, Done, Row
  <1>3. ASSUME NEW row, NEW cmds, Commit(w, row, cmds)
        PROVE  worker[w].row = saga
    BY <1>1, <1>3, CommitFromRow DEF Commit
  <1>4. CASE OnOrderSubmitted(w)
    <2>1. PICK row, cmds : /\ row = [saga EXCEPT !.state = "Submitted", !.armed = TRUE,
                                                 !.payment = PaymentId]
                           /\ cmds = {"payment-timeout"}
      OBVIOUS
    <2>2. worker[w].row = saga
      BY <1>3, <1>4 DEF OnOrderSubmitted
    <2>3. saga.state = "Initial" /\ Commit(w, row, cmds) /\ UNCHANGED refunds
      BY <1>4, <2>1, <2>2 DEF OnOrderSubmitted, Holds, NoPayload
    <2>4. row \in Row /\ row.state = "Submitted" /\ row.armed /\ row.version = saga.version
      BY <1>1, <2>1 DEF Row, States
    <2>5. cmds \in SUBSET Commands
      BY <2>1 DEF Commands
    <2>6. Placed(cmds)
      BY <1>2, <2>1, <2>3, <2>4, <2>5 DEF Placed
    <2>7. Told
      BY <1>2, <2>3, <2>4, <2>5, <2>6
    <2> QED BY <2>7
  <1>5. CASE OnPaymentCompleted(w)
    <2>1. PICK row, cmds : /\ row = [saga EXCEPT !.state = "Processing", !.armed = FALSE,
                                                 !.payment = NoId, !.tx = Transaction]
                           /\ cmds = {"commit-stock-reservation", "empty-basket",
                                      "schedule-shipping", "mark-paid"}
      OBVIOUS
    <2>2. worker[w].row = saga
      BY <1>3, <1>5 DEF OnPaymentCompleted
    <2>3. saga.state = "Submitted" /\ Commit(w, row, cmds) /\ UNCHANGED refunds
      BY <1>5, <2>1, <2>2 DEF OnPaymentCompleted, Holds, NoPayload
    <2>4. /\ row \in Row /\ row.state = "Processing" /\ row.version = saga.version
          /\ row.payment = NoId /\ row.tx = Transaction
      BY <1>1, <2>1 DEF Row, States
    <2>5. cmds \in SUBSET Commands /\ "refund-payment" \notin cmds
      BY <2>1 DEF Commands
    <2>6. PaidBy(cmds)
      BY <1>2, <2>3, <2>4, <2>5 DEF PaidBy
    <2>7. Told
      BY <1>2, <2>3, <2>4, <2>5, <2>6
    <2> QED BY <2>7
  <1>6. CASE OnLateTimeout(w)
    <2>1. PICK row : row = [saga EXCEPT !.armed = FALSE]
      OBVIOUS
    <2>2. worker[w].row = saga
      BY <1>3, <1>6 DEF OnLateTimeout
    <2>3. saga.state \notin {"Initial", "Submitted"} /\ Commit(w, row, {}) /\ UNCHANGED refunds
      BY <1>6, <2>1, <2>2 DEF OnLateTimeout, NoPayload
    <2>4. /\ row \in Row /\ row.state = saga.state /\ row.version = saga.version
          /\ row.payment = saga.payment /\ row.tx = saga.tx
      BY <1>1, <2>1 DEF Row
    <2>5. {} \in SUBSET Commands
      OBVIOUS
    <2>6. Disarmed({})
      BY <1>2, <2>3, <2>4, <2>5 DEF Disarmed
    <2>7. Told
      BY <1>2, <2>3, <2>4, <2>5, <2>6
    <2> QED BY <2>7
  <1>7. ASSUME NEW row \in Row, NEW cmds \in SUBSET Commands, Commit(w, row, cmds),
               UNCHANGED refunds, row.version = saga.version,
               row.payment = saga.payment, row.tx = saga.tx,
               saga.state \in BeforeDispatch \cup {"Shipped"},
               row.state \in BeforeDispatch \cup {"Shipped", "Completed"},
               row.state = "Shipped" => "shipped-status" \in cmds,
               row.state = "Completed" => saga.state = "Shipped"
                                  /\ {"complete-order", "delivered-status"} \subseteq cmds,
               "refund-payment" \notin cmds
        PROVE  Told
    <2>1. Advanced(cmds)
      BY <1>2, <1>7 DEF Advanced
    <2> QED BY <1>2, <1>7, <2>1
  <1>8. ASSUME NEW s \in States
        PROVE  /\ [saga EXCEPT !.state = s] \in Row
               /\ [saga EXCEPT !.state = s].version = saga.version
               /\ [saga EXCEPT !.state = s].state = s
               /\ [saga EXCEPT !.state = s].payment = saga.payment
               /\ [saga EXCEPT !.state = s].tx = saga.tx
    BY <1>1 DEF Row
  <1>9. CASE OnShippingScheduled(w)
    <2>1. PICK id \in Shipments :
            Commit(w, [worker[w].row EXCEPT !.state = NextAfterShipping(worker[w].row.state),
                                            !.shipment = id], {"shipping-scheduled-status"})
      BY <1>9 DEF OnShippingScheduled
    <2>2. worker[w].row = saga
      BY <1>3, <2>1
    <2>3. PICK row : row = [saga EXCEPT !.state = NextAfterShipping(saga.state), !.shipment = id]
      OBVIOUS
    <2>4. saga.state \in BeforeStockOutcome /\ UNCHANGED refunds
          /\ Commit(w, row, {"shipping-scheduled-status"})
      BY <1>9, <2>1, <2>2, <2>3 DEF OnShippingScheduled, Holds, NoPayload, BeforeStockOutcome
    <2>5. NextAfterShipping(saga.state) \in {"ShippingScheduled", "Fulfilling"}
      BY DEF NextAfterShipping
    <2>6. /\ row \in Row /\ row.version = saga.version /\ row.payment = saga.payment
          /\ row.tx = saga.tx /\ row.state = NextAfterShipping(saga.state)
      BY <1>1, <2>3, <2>5 DEF Row, States
    <2>7. {"shipping-scheduled-status"} \in SUBSET Commands
      BY DEF Commands
    <2>8. Told
      BY <1>7, <2>4, <2>5, <2>6, <2>7 DEF BeforeDispatch, BeforeStockOutcome
    <2> QED BY <2>8
  <1>10. CASE OnStockCommitted(w)
    <2>1. worker[w].row = saga
      BY <1>3, <1>10 DEF OnStockCommitted
    <2>2. saga.state \in {"Processing", "ShippingScheduled"} /\ UNCHANGED refunds
          /\ Commit(w, [saga EXCEPT !.state = NextAfterStock(saga.state)],
                    {"prepare-package", "stock-committed-status"})
      BY <1>10, <2>1 DEF OnStockCommitted, Holds, NoPayload, MoveTo
    <2>3. NextAfterStock(saga.state) \in {"StockCommitted", "Fulfilling"}
      BY DEF NextAfterStock
    <2>4. {"prepare-package", "stock-committed-status"} \in SUBSET Commands
      BY DEF Commands
    <2>5. NextAfterStock(saga.state) \in States
      BY <2>3 DEF States
    <2>6. Told
      BY <1>7, <1>8, <2>2, <2>3, <2>4, <2>5 DEF BeforeDispatch, BeforeStockOutcome
    <2> QED BY <2>6
  <1>11. CASE OnReadyForPickup(w)
    <2>1. worker[w].row = saga
      BY <1>3, <1>11 DEF OnReadyForPickup
    <2>2. saga.state = "Fulfilling"
          /\ Commit(w, [saga EXCEPT !.state = "ReadyForPickup"],
                    {"confirm-shipping", "ready-for-pickup-status"})
      BY <1>11, <2>1 DEF OnReadyForPickup, Holds, MoveTo
    <2>3. UNCHANGED refunds
      BY <1>11 DEF OnReadyForPickup, Payload
    <2>4. {"confirm-shipping", "ready-for-pickup-status"} \in SUBSET Commands
          /\ "ReadyForPickup" \in States
      BY DEF Commands, States
    <2>5. Told
      BY <1>7, <1>8, <2>2, <2>3, <2>4 DEF BeforeDispatch, BeforeStockOutcome
    <2> QED BY <2>5
  <1>12. CASE OnOrderShipped(w)
    <2>1. worker[w].row = saga
      BY <1>3, <1>12 DEF OnOrderShipped
    <2>2. saga.state \in BeforeDispatch /\ UNCHANGED refunds
          /\ Commit(w, [saga EXCEPT !.state = "Shipped"], {"shipped-status"})
      BY <1>12, <2>1 DEF OnOrderShipped, Holds, NoPayload, MoveTo
    <2>3. {"shipped-status"} \in SUBSET Commands /\ "Shipped" \in States
      BY DEF Commands, States
    <2>4. Told
      BY <1>7, <1>8, <2>2, <2>3
    <2> QED BY <2>4
  <1>13. CASE OnOrderDelivered(w)
    <2>1. worker[w].row = saga
      BY <1>3, <1>13 DEF OnOrderDelivered
    <2>2. saga.state = "Shipped" /\ UNCHANGED refunds
          /\ Commit(w, [saga EXCEPT !.state = "Completed"], {"complete-order", "delivered-status"})
      BY <1>13, <2>1 DEF OnOrderDelivered, Holds, NoPayload, MoveTo
    <2>3. {"complete-order", "delivered-status"} \in SUBSET Commands /\ "Completed" \in States
      BY DEF Commands, States
    <2>4. Told
      BY <1>7, <1>8, <2>2, <2>3
    <2> QED BY <2>4
  <1>14. CASE OnPaymentTimeout(w)
    <2>1. PICK row, cmds : /\ row = [saga EXCEPT !.state = "Failed", !.armed = FALSE]
                           /\ cmds = {"release-stock-reservation", "cancelled-status",
                                      "cancel-order-command"}
      OBVIOUS
    <2>2. worker[w].row = saga
      BY <1>3, <1>14 DEF OnPaymentTimeout
    <2>3. saga.state = "Submitted" /\ Commit(w, row, cmds) /\ UNCHANGED refunds
      BY <1>14, <2>1, <2>2 DEF OnPaymentTimeout, Holds, NoPayload
    <2>4. row \in Row /\ row.state = "Failed" /\ row.version = saga.version
      BY <1>1, <2>1 DEF Row, States
    <2>5. /\ cmds \in SUBSET Commands /\ cmds \subseteq Compensations
          /\ "refund-payment" \notin cmds
      BY <2>1 DEF Commands, Compensations
    <2>6. FailedBy(cmds)
      BY <1>2, <2>3, <2>4, <2>5 DEF FailedBy
    <2>7. Told
      BY <1>2, <2>3, <2>4, <2>5, <2>6
    <2> QED BY <2>7
  <1>15. ASSUME NEW cmds \in SUBSET {"release-stock-reservation", "refund-payment",
                                     "cancel-shipping"},
                Fail(w, cmds),
                worker[w].row.state \in BeforeDispatch \cup {"Submitted", "Shipped"},
                "refund-payment" \in cmds => worker[w].row.state # "Submitted"
         PROVE  Told
    <2>1. PICK all : all = cmds \cup {"cancelled-status", "cancel-order-command"}
      OBVIOUS
    <2>2. worker[w].row = saga
      BY <1>3, <1>15 DEF Fail
    <2>3. Commit(w, [saga EXCEPT !.state = "Failed"], all) /\ Payload(saga, cmds)
      BY <1>15, <2>1, <2>2 DEF Fail, MoveTo
    <2>4. /\ all \in SUBSET Commands /\ all \subseteq Compensations /\ "Failed" \in States
          /\ "refund-payment" \in all <=> "refund-payment" \in cmds
      BY <2>1 DEF Commands, Compensations, States
    <2>5. saga'.state = "Failed"
      BY <1>2, <1>8, <2>3, <2>4
    <2>6. FailedBy(all)
      BY <1>15, <2>2, <2>3, <2>4, <2>5 DEF FailedBy, Payload
    <2>7. Send(all)
      BY <2>3 DEF Commit
    <2> QED BY <1>2, <1>8, <2>3, <2>4, <2>6, <2>7
  <1>16. CASE OnPaymentFailed(w)
    <2>1. Fail(w, {"release-stock-reservation"}) /\ worker[w].row.state = "Submitted"
      BY <1>16 DEF OnPaymentFailed, Holds
    <2>2. Told
      BY <1>15, <2>1
    <2> QED BY <2>2
  <1>17. CASE OnStockCommitFailed(w) \/ OnPackageIssue(w) \/ OnShippingFailed(w)
    <2>1. PICK cmds \in SUBSET {"release-stock-reservation", "refund-payment",
                                "cancel-shipping"} : Fail(w, cmds)
      BY <1>17 DEF OnStockCommitFailed, OnPackageIssue, OnShippingFailed, CancelShipping
    <2>2. worker[w].row.state \in BeforeDispatch \cup {"Shipped"}
      BY <1>17 DEF OnStockCommitFailed, OnPackageIssue, OnShippingFailed, Holds, BeforeDispatch
    <2>3. worker[w].row.state # "Submitted"
      BY <2>2 DEF BeforeDispatch, BeforeStockOutcome
    <2>4. Told
      BY <1>15, <2>1, <2>2, <2>3
    <2> QED BY <2>4
  <1>18. Told
    BY <1>4, <1>5, <1>6, <1>9, <1>10, <1>11, <1>12, <1>13, <1>14, <1>16, <1>17 DEF Transition
  <1> QED BY <1>18

(* A step either is a transition, or writes nothing but the workers.       *)
LEMMA OnlyTransitionsWrite ==
  ASSUME [Next]_vars
  PROVE  UNCHANGED <<saga, sent, refunds, named>> \/ \E w \in Workers : Transition(w)
  BY DEF Next, vars, Finish, Receive, Discard, Ignore, Unhandled, Retry, GiveUp, Crash

(* The debts are settled by the transition that incurs them.               *)
LEMMA DebtsStep ==
  ASSUME IndInv, Debts, Identified, [Next]_vars
  PROVE  Debts' /\ Identified'
  <1>1. CASE UNCHANGED <<saga, sent, refunds, named>>
    BY <1>1 DEF Debts, Identified
  <1>2. ASSUME NEW w \in Workers, Transition(w)
        PROVE  Debts' /\ Identified'
    <2>1. PICK cmds \in SUBSET Commands :
            Send(cmds) /\ (Placed(cmds) \/ PaidBy(cmds) \/ Disarmed(cmds)
                            \/ Advanced(cmds) \/ FailedBy(cmds))
      BY <1>2, TransitionShape
    <2>2. /\ \A c \in Commands : sent[c] \in Nat /\ sent[c] <= 1
          /\ \A c \in Commands : sent'[c] \in Nat /\ sent'[c] <= 1
      BY StepKeeps DEF IndInv, TypeOK, Ledger
    <2>3. \A c \in Commands : sent'[c] = IF c \in cmds THEN 1 ELSE sent[c]
      BY <2>1, <2>2 DEF Send
    <2>4. /\ saga.state = "Initial" => sent["payment-timeout"] = 0
          /\ saga.state # "Failed" => sent["refund-payment"] = 0
      BY DEF IndInv, Ledger, NotYetIn, CompensationMatchesOutcome, Commands, Compensations
    <2>5. /\ "payment-timeout" \in Commands /\ "shipped-status" \in Commands
          /\ "complete-order" \in Commands /\ "delivered-status" \in Commands
          /\ "refund-payment" \in Commands
      BY DEF Commands, Compensations
    <2>6. CASE Placed(cmds)
      <3>1. Debts'
        BY <2>3, <2>5, <2>6 DEF Debts, Placed
      <3>2. Identified'
        BY <2>3, <2>5, <2>6 DEF Identified, Placed, BeforeDispatch, BeforeStockOutcome
      <3> QED BY <3>1, <3>2
    <2>7. CASE PaidBy(cmds)
      <3>1. Debts'
        BY <2>7 DEF Debts, PaidBy
      <3>2. Identified'
        BY <2>3, <2>5, <2>7 DEF Identified, PaidBy
      <3> QED BY <3>1, <3>2
    <2>8. CASE Disarmed(cmds)
      <3>1. Debts'
        BY <2>3, <2>5, <2>8 DEF Debts, Disarmed
      <3>2. Identified'
        BY <2>3, <2>5, <2>8 DEF Identified, Disarmed
      <3> QED BY <3>1, <3>2
    <2>9. CASE Advanced(cmds)
      <3>1. Debts'
        BY <2>3, <2>5, <2>9 DEF Debts, Advanced, BeforeDispatch, BeforeStockOutcome
      <3>2. Identified'
        BY <2>3, <2>5, <2>9 DEF Identified, Advanced
      <3> QED BY <3>1, <3>2
    <2>10. CASE FailedBy(cmds)
      <3>1. Debts'
        BY <2>10 DEF Debts, FailedBy
      <3>2. sent["refund-payment"] = 0 /\ refunds = {}
        BY <2>4, <2>10 DEF Identified, FailedBy, BeforeDispatch, BeforeStockOutcome
      <3>3. Identified'
        BY <2>3, <2>5, <2>10, <3>2
           DEF Identified, FailedBy, BeforeDispatch, BeforeStockOutcome
      <3> QED BY <3>1, <3>3
    <2> QED BY <2>1, <2>6, <2>7, <2>8, <2>9, <2>10
  <1> QED BY <1>1, <1>2, OnlyTransitionsWrite

(* A saga that has not started owes nothing.                               *)
LEMMA DebtsStart == Init => Debts /\ Identified
  BY DEF Init, NoRow, Debts, Identified, Commands, Compensations, BeforeDispatch,
         BeforeStockOutcome

(* Both invariants hold of every reachable state.                          *)
LEMMA DebtsHold == Spec => [](Debts /\ Identified)
  <1>1. IndInv /\ Debts /\ Identified /\ [Next]_vars => Debts' /\ Identified'
    BY DebtsStep
  <1> QED BY <1>1, DebtsStart, Invariance, PTL DEF Spec

(* The safety half of PendingSettles: an order that waits for its payment  *)
(* always has a timeout scheduled, and the row holds the token that makes  *)
(* its delivery count, so that the wait can end; and an order that is done *)
(* has told the Orders service of every milestone it has passed.           *)
THEOREM NobodyWaitsUntimed == Spec => []Debts
  <1>1. Debts /\ Identified => Debts
    OBVIOUS
  <1> QED BY <1>1, DebtsHold, PTL

(* What every refund carries: never the payment the order was placed with, *)
(* and always the transaction the provider captured.                       *)
THEOREM RefundsNameTheTransaction ==
  Spec => [](\A r \in refunds : r.payment = NoId /\ r.tx = Transaction)
  <1>1. Debts /\ Identified => \A r \in refunds : r.payment = NoId /\ r.tx = Transaction
    BY DEF Identified
  <1> QED BY <1>1, DebtsHold, PTL

(* Optimistic concurrency loses no update: whoever writes the row had read *)
(* the row it replaces, and whatever another worker computed from the row  *)
(* that was replaced can no longer be committed.                           *)
NoLostUpdate ==
  [][saga' # saga =>
       /\ \E w \in Workers : worker[w].row = saga /\ Writes(worker[w])
       /\ \A v \in Workers : worker'[v].row.version # saga'.version]_vars

(* No step of the saga overwrites a step it has not seen, for any number   *)
(* of deliveries handled at once (the row's version, ISagaVersion).        *)
THEOREM SagaLosesNoUpdate == Spec => NoLostUpdate
  <1>1. ASSUME IndInv, [Next]_vars, saga' # saga
        PROVE  /\ \E w \in Workers : worker[w].row = saga /\ Writes(worker[w])
               /\ \A v \in Workers : worker'[v].row.version # saga'.version
    <2>1. PICK w \in Workers : Transition(w)
      BY <1>1, OnlyTransitionsWrite
    <2>2. /\ worker[w].row = saga /\ saga'.version = saga.version + 1
          /\ worker' = [worker EXCEPT ![w] = Idle]
      BY <1>1, <2>1, TransitionShape
    <2>3. Writes(worker[w])
      BY <2>1, TransitionWrites
    <2>4. ASSUME NEW v \in Workers
          PROVE  worker'[v].row.version # saga'.version
      <3>1. /\ saga.version \in Nat /\ worker[v].row.version \in Nat
            /\ worker[v].row.version <= saga.version
        BY <1>1 DEF IndInv, TypeOK, Delivery, Row, Snapshots
      <3>2. worker'[v] = IF v = w THEN Idle ELSE worker[v]
        BY <1>1, <2>2 DEF IndInv, TypeOK
      <3>3. Idle.row.version = 0
        BY DEF Idle, NoRow
      <3> QED BY <2>2, <3>1, <3>2, <3>3
    <2> QED BY <2>2, <2>3, <2>4
  <1>2. IndInv /\ [Next]_vars =>
          [saga' # saga =>
            /\ \E w \in Workers : worker[w].row = saga /\ Writes(worker[w])
            /\ \A v \in Workers : worker'[v].row.version # saga'.version]_vars
    BY <1>1
  <1> QED BY <1>2, Invariance, PTL DEF Spec, NoLostUpdate
=============================================================================
