--------------------------- MODULE OrderLifecycle ---------------------------
(***************************************************************************)
(* What the order workflow promises of one order, whatever messages carry  *)
(* it: an order is cancelled or completed once and for good, a cancelled   *)
(* order gives the money back if and only if it was captured, and an order *)
(* that was never paid never reaches fulfilment.                           *)
(***************************************************************************)

VARIABLES
  phase,  \* how far the order has come
  money   \* "none", "captured", or "refunding" once a refund is ordered

Phases == {"absent", "pending", "fulfilling", "dispatched", "completed",
           "cancelled"}

Init == phase = "absent" /\ money = "none"

Place == phase = "absent" /\ phase' = "pending" /\ UNCHANGED money

Capture ==
  /\ phase = "pending" /\ phase' = "fulfilling"
  /\ money' = "captured"

Dispatch == phase = "fulfilling" /\ phase' = "dispatched" /\ UNCHANGED money

Complete == phase = "dispatched" /\ phase' = "completed" /\ UNCHANGED money

CancelUnpaid == phase = "pending" /\ phase' = "cancelled" /\ UNCHANGED money

CancelPaid ==
  /\ phase \in {"fulfilling", "dispatched"} /\ phase' = "cancelled"
  /\ money' = "refunding"

Next == Place \/ Capture \/ Dispatch \/ Complete \/ CancelUnpaid \/ CancelPaid

Spec == Init /\ [][Next]_<<phase, money>>
=============================================================================
