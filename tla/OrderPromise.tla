---------------------------- MODULE OrderPromise ----------------------------
(***************************************************************************)
(* What the saga and the Orders service together promise of one order to   *)
(* those who cannot see the saga: the customer is shown only what has been *)
(* decided, in the order of the workflow, and is never shown less later;   *)
(* sellers, stock and payments are told of it once, and for a reason.      *)
(***************************************************************************)
EXTENDS Naturals

VARIABLES
  reached,  \* the milestones the workflow has decided
  shown,    \* the status the customer is shown
  told      \* how often each message about the order has been sent

(* What must be reached before a milestone; nothing is after the last two. *)
Needs == [placed |-> {}, paid |-> {"placed"}, dispatched |-> {"paid"},
          completed |-> {"dispatched"}, cancelled |-> {"placed"}]

Milestones == DOMAIN Needs

Closed == reached \cap {"completed", "cancelled"} # {}

(* The statuses in their order, and the milestone that justifies each.     *)
Step == [Created |-> 0, Paid |-> 1, Processing |-> 2, ReadyForPickup |-> 3,
         Shipped |-> 4, Delivered |-> 5, Cancelled |-> 6]

Ground == [Paid |-> "paid", Processing |-> "paid", ReadyForPickup |-> "paid",
           Shipped |-> "dispatched", Delivered |-> "completed",
           Cancelled |-> "cancelled"]

Sale == "OrderSellerSaleRegistrationRequested"

Undo == {"OrderCancelled", "release-stock-reservation", "refund-payment"}

Told == {Sale} \cup Undo

Init == reached = {} /\ shown = "Created" /\ told = [m \in Told |-> 0]

Decide(m) ==
  /\ ~ Closed
  /\ m \notin reached /\ Needs[m] \subseteq reached
  /\ reached' = reached \cup {m}
  /\ UNCHANGED <<shown, told>>

(* One transaction of the service: it may show a later status that has     *)
(* been justified, and send what was not sent before.  A sale needs the    *)
(* payment; what undoes the order comes with showing it cancelled, and     *)
(* never a refund without the cancellation.                                *)
Serve(s, messages) ==
  /\ shown \in DOMAIN Step \ {"Delivered", "Cancelled"}
  /\ s = shown \/ (Step[shown] < Step[s] /\ Ground[s] \in reached)
  /\ \A m \in messages : told[m] = 0
  /\ Sale \in messages => "paid" \in reached
  /\ messages \cap Undo # {} => s = "Cancelled" /\ "OrderCancelled" \in messages
  /\ shown' = s
  /\ told' = [m \in Told |-> IF m \in messages THEN told[m] + 1 ELSE told[m]]
  /\ UNCHANGED reached

(* The order is deleted: nothing is shown of it, or sent, any more.        *)
Remove == shown # "Removed" /\ shown' = "Removed" /\ UNCHANGED <<reached, told>>

Next ==
  \/ \E m \in Milestones : Decide(m)
  \/ \E s \in DOMAIN Ground \cup {shown}, messages \in SUBSET Told : Serve(s, messages)
  \/ Remove

Spec == Init /\ [][Next]_<<reached, shown, told>>
=============================================================================
