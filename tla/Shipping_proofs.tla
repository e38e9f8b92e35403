---------------------------- MODULE Shipping_proofs ----------------------------
(***************************************************************************)
(* Theorems about Shipping, for any number of deliveries of the command,   *)
(* overlapping or repeated, and of failures.  The argument: the claim is   *)
(* the lock of the deliveries, and it outlives the one that announced the  *)
(* shipment, so that whoever works under it has announced nothing yet.     *)
(***************************************************************************)
EXTENDS Shipping, TLAPS

USE ShippingAssumption

(* One delivery at a time works, under the claim, and nothing has been     *)
(* announced by then.                                                      *)
OneAtWork ==
  \A c \in Couriers : booking[c] # "idle" =>
     /\ claim /\ scheduled = 0
     /\ \A d \in Couriers : booking[d] # "idle" => c = d

(* An order without a claim has been told nothing.                         *)
UnclaimedUntold == claim \/ scheduled = 0

(* What is announced or about to be is a shipment the provider has.        *)
AnnouncedExists ==
  /\ scheduled <= 1 /\ (scheduled = 1 => shipment # "none")
  /\ \A c \in Couriers : booking[c] \in {"booked", "leaving"} => shipment # "none"

(* A claim that nobody works under is one left behind.                     *)
ClaimAccounted ==
  claim /\ (\A c \in Couriers : booking[c] = "idle") => scheduled = 1 \/ cutShort

ShippingInv ==
  ShippingTypeOK /\ OneAtWork /\ UnclaimedUntold /\ AnnouncedExists /\ ClaimAccounted

Phases == {"idle", "begun", "recorded", "asked", "booked", "failing", "leaving"}

(* One delivery moves on and the others stay where they are.               *)
LEMMA DeliveryGoes ==
  ASSUME ShippingTypeOK, NEW c \in Couriers, NEW phase \in Phases, Goes(c, phase)
  PROVE  /\ booking' \in [Couriers -> Phases] /\ booking'[c] = phase
         /\ \A d \in Couriers : d # c => booking'[d] = booking[d]
  BY DEF Goes, ShippingTypeOK, Phases

(* A delivery at work moves on to another step of its work.                *)
LEMMA AtWorkStill ==
  ASSUME ShippingInv, NEW c \in Couriers, NEW phase \in Phases \ {"idle"}, Goes(c, phase),
         booking[c] # "idle", claim' = claim, scheduled' = scheduled, cutShort' = cutShort
  PROVE  OneAtWork' /\ UnclaimedUntold' /\ ClaimAccounted'
<1>1. /\ booking'[c] = phase /\ \A d \in Couriers : d # c => booking'[d] = booking[d]
  BY DeliveryGoes DEF ShippingInv
<1>2. claim /\ scheduled = 0 /\ \A d \in Couriers : d # c => booking[d] = "idle"
  BY DEF ShippingInv, OneAtWork
<1> QED BY <1>1, <1>2 DEF OneAtWork, UnclaimedUntold, ClaimAccounted

(* A delivery at work ends its work.                                       *)
LEMMA WorkEnds ==
  ASSUME ShippingInv, NEW c \in Couriers, Goes(c, "idle"), booking[c] # "idle"
  PROVE  claim /\ scheduled = 0 /\ \A d \in Couriers : booking'[d] = "idle"
<1>1. booking'[c] = "idle" /\ \A d \in Couriers : d # c => booking'[d] = booking[d]
  BY DeliveryGoes DEF ShippingInv, Phases
<1>2. claim /\ scheduled = 0 /\ \A d \in Couriers : d # c => booking[d] = "idle"
  BY DEF ShippingInv, OneAtWork
<1> QED BY <1>1, <1>2

(* The shipment is there once the provider has been called.                *)
LEMMA Creating ==
  ASSUME ShippingTypeOK, Created
  PROVE  /\ shipment' # "none" /\ shipment' \in ShipmentStatus
         /\ webhooks' \subseteq ShipmentStatus
  BY DEF Created, ShippingTypeOK, ShipmentStatus

(* The inductive invariant of Shipping.                                    *)
THEOREM ShippingInvariance == ShippingSpec => []ShippingInv
<1>1. ShippingInit => ShippingInv
  <2> SUFFICES ASSUME ShippingInit PROVE ShippingInv
    OBVIOUS
  <2>1. booking \in [Couriers -> Phases] /\ \A c \in Couriers : booking[c] = "idle"
    BY DEF ShippingInit, Phases
  <2>2. moves \in [Transitions -> Nat]
    BY DEF ShippingInit
  <2>3. ShippingTypeOK
    BY <2>1, <2>2 DEF ShippingInit, ShippingTypeOK, Phases
  <2> QED
    BY <2>1, <2>3 DEF ShippingInit, ShippingInv, OneAtWork, UnclaimedUntold, AnnouncedExists,
       ClaimAccounted
<1>2. ShippingInv /\ [ShippingNext]_shippingVars => ShippingInv'
  <2> SUFFICES ASSUME ShippingInv, [ShippingNext]_shippingVars
               PROVE  ShippingInv'
    OBVIOUS
  <2> USE DEF ShippingInv
  <2>1. ASSUME NEW c \in Couriers, BeginScheduling(c)
        PROVE  ShippingInv'
    <3>1. /\ booking' \in [Couriers -> Phases] /\ booking'[c] = "begun"
          /\ \A d \in Couriers : d # c => booking'[d] = booking[d]
      BY <2>1, DeliveryGoes DEF BeginScheduling, Phases
    <3>2. ~claim /\ scheduled = 0 /\ \A d \in Couriers : booking[d] = "idle"
      BY <2>1 DEF BeginScheduling, OneAtWork, UnclaimedUntold
    <3>3. ShippingTypeOK'
      BY <2>1, <3>1 DEF BeginScheduling, ShippingTypeOK, Phases, provider, reporting
    <3> QED
      BY <2>1, <3>1, <3>2, <3>3 DEF BeginScheduling, OneAtWork, UnclaimedUntold,
         AnnouncedExists, ClaimAccounted, provider, reporting
  <2>2. ASSUME NEW c \in Couriers, RecordCustomer(c) \/ CallProvider(c) \/ ProviderAnswered(c)
        PROVE  ShippingInv'
    <3>1. PICK phase \in {"recorded", "asked", "leaving"} :
             /\ Goes(c, phase)
             /\ \/ booking[c] \in {"begun", "recorded"} /\ phase # "leaving"
                \/ booking[c] = "booked"
      BY <2>2 DEF RecordCustomer, CallProvider, ProviderAnswered
    <3>2. /\ UNCHANGED <<claim, scheduled, cutShort, emailed, stray, provider, webhooks,
                         reporting, troubles>>
          /\ onFile' \in BOOLEAN
      BY <2>2 DEF RecordCustomer, CallProvider, ProviderAnswered, ShippingTypeOK
    <3>3. /\ booking' \in [Couriers -> Phases] /\ booking'[c] = phase
          /\ \A d \in Couriers : d # c => booking'[d] = booking[d]
      BY <3>1, DeliveryGoes DEF Phases
    <3>4. OneAtWork' /\ UnclaimedUntold' /\ ClaimAccounted'
      BY <3>1, <3>2, AtWorkStill DEF Phases
    <3>5. ShippingTypeOK'
      BY <3>2, <3>3 DEF ShippingTypeOK, Phases, provider, reporting
    <3>6. AnnouncedExists'
      BY <3>1, <3>2, <3>3 DEF AnnouncedExists, provider
    <3> QED BY <3>4, <3>5, <3>6
  <2>3. ASSUME NEW c \in Couriers, BookShipment(c)
        PROVE  ShippingInv'
    <3>1. /\ booking' \in [Couriers -> Phases] /\ booking'[c] = "booked"
          /\ \A d \in Couriers : d # c => booking'[d] = booking[d]
      BY <2>3, DeliveryGoes DEF BookShipment, Phases
    <3>2. OneAtWork' /\ UnclaimedUntold' /\ ClaimAccounted'
      BY <2>3, AtWorkStill DEF BookShipment, Phases
    <3>3. /\ shipment' # "none" /\ shipment' \in ShipmentStatus
          /\ webhooks' \subseteq ShipmentStatus
      BY <2>3, Creating DEF BookShipment
    <3>4. ShippingTypeOK'
      BY <2>3, <3>1, <3>3 DEF BookShipment, Created, ShippingTypeOK, Phases, reporting
    <3>5. AnnouncedExists'
      BY <2>3, <3>3 DEF BookShipment, AnnouncedExists
    <3> QED BY <3>2, <3>4, <3>5
  <2>4. ASSUME NEW c \in Couriers, AnnounceScheduled(c)
        PROVE  ShippingInv'
    <3>1. claim /\ scheduled = 0 /\ \A d \in Couriers : booking'[d] = "idle"
      BY <2>4, WorkEnds DEF AnnounceScheduled
    <3>2. booking' \in [Couriers -> Phases]
      BY <2>4, DeliveryGoes DEF AnnounceScheduled, Phases
    <3>3. ShippingTypeOK'
      BY <2>4, <3>1, <3>2 DEF AnnounceScheduled, ShippingTypeOK, Phases, provider, reporting
    <3>4. scheduled' = 1 /\ shipment' # "none" /\ claim'
      BY <2>4, <3>1 DEF AnnounceScheduled, AnnouncedExists, provider
    <3> QED
      BY <3>1, <3>3, <3>4 DEF OneAtWork, UnclaimedUntold, AnnouncedExists, ClaimAccounted
  <2>5. ASSUME NEW c \in Couriers, SchedulingFails(c)
        PROVE  ShippingInv'
    <3>1. /\ booking' \in [Couriers -> Phases] /\ booking'[c] = "failing"
          /\ \A d \in Couriers : d # c => booking'[d] = booking[d]
      BY <2>5, DeliveryGoes DEF SchedulingFails, Phases
    <3>2. OneAtWork' /\ UnclaimedUntold' /\ ClaimAccounted'
      BY <2>5, AtWorkStill DEF SchedulingFails, Phases
    <3>3. ShippingTypeOK'
      BY <2>5, <3>1 DEF SchedulingFails, ShippingTypeOK, Phases, provider, reporting
    <3>4. AnnouncedExists'
      BY <2>5, <3>1 DEF SchedulingFails, AnnouncedExists, provider
    <3> QED BY <3>2, <3>3, <3>4
  <2>6. ASSUME NEW c \in Couriers, AbandonScheduling(c)
        PROVE  ShippingInv'
    <3>1. scheduled = 0 /\ \A d \in Couriers : booking'[d] = "idle"
      BY <2>6, WorkEnds DEF AbandonScheduling
    <3>2. booking' \in [Couriers -> Phases]
      BY <2>6, DeliveryGoes DEF AbandonScheduling, Phases
    <3>3. ShippingTypeOK'
      BY <2>6, <3>2 DEF AbandonScheduling, ShippingTypeOK, Phases, provider, reporting
    <3> QED
      BY <2>6, <3>1, <3>3 DEF AbandonScheduling, OneAtWork, UnclaimedUntold, AnnouncedExists,
         ClaimAccounted
  <2>7. ASSUME NEW c \in Couriers, SchedulingStops(c)
        PROVE  ShippingInv'
    <3>1. claim /\ scheduled = 0 /\ \A d \in Couriers : booking'[d] = "idle"
      BY <2>7, WorkEnds DEF SchedulingStops
    <3>2. booking' \in [Couriers -> Phases]
      BY <2>7, DeliveryGoes DEF SchedulingStops, Phases
    <3>3. /\ scheduled' \in {0, 1} /\ (scheduled' = 1 => booking[c] = "leaving")
          /\ claim' /\ cutShort' /\ shipment' = shipment
      BY <2>7, <3>1 DEF SchedulingStops, provider
    <3>4. ShippingTypeOK'
      BY <2>7, <3>2, <3>3 DEF SchedulingStops, ShippingTypeOK, Phases, provider, reporting
    <3> QED
      BY <3>1, <3>3, <3>4 DEF OneAtWork, UnclaimedUntold, AnnouncedExists, ClaimAccounted
  <2>8. ASSUME UNCHANGED scheduling, ShippingTypeOK', shipment # "none" => shipment' # "none"
        PROVE  ShippingInv'
    BY <2>8 DEF scheduling, OneAtWork, UnclaimedUntold, AnnouncedExists, ClaimAccounted
  <2>9. CASE BookStray
    <3>1. /\ shipment' # "none" /\ shipment' \in ShipmentStatus
          /\ webhooks' \subseteq ShipmentStatus
      BY <2>9, Creating DEF BookStray
    <3>2. ShippingTypeOK'
      BY <2>9, <3>1 DEF BookStray, Created, ShippingTypeOK, scheduling, reporting
    <3> QED BY <2>8, <2>9, <3>1, <3>2 DEF BookStray
  <2>10. CASE LoadShipment
    <3>1. ShippingTypeOK'
      BY <2>10 DEF LoadShipment, ShippingTypeOK, scheduling, reporting
    <3> QED BY <2>8, <2>10, <3>1 DEF LoadShipment
  <2>11. ASSUME NEW s \in Transitions, ReadShipment(s)
         PROVE  ShippingInv'
    <3>1. moves' \in [Transitions -> Nat] /\ moved' \in Nat
      BY <2>11 DEF ReadShipment, ShippingTypeOK
    <3>2. ShippingTypeOK'
      BY <2>11, <3>1 DEF ReadShipment, ShippingTypeOK, scheduling, reporting
    <3> QED BY <2>8, <2>11, <3>2 DEF ReadShipment
  <2>12. ASSUME NEW s \in Transitions, SaveShipment(s)
         PROVE  ShippingInv'
    <3>1. moves' \in [Transitions -> Nat]
      BY <2>12 DEF SaveShipment, ShippingTypeOK
    <3>2. shipment' \in ShipmentStatus /\ shipment' # "none" /\ webhooks' \subseteq ShipmentStatus
      BY <2>12 DEF SaveShipment, ShippingTypeOK, ShipmentStatus, Transitions
    <3>3. ShippingTypeOK'
      BY <2>12, <3>1, <3>2 DEF SaveShipment, ShippingTypeOK, scheduling, reporting
    <3> QED BY <2>8, <2>12, <3>2, <3>3 DEF SaveShipment
  <2>13. ASSUME NEW s \in ShipmentStatus, WebhookArrives(s) \/ WebhookLost(s)
         PROVE  ShippingInv'
    <3>1. EventsOf(s) \subseteq {"shipped", "delivered"}
      BY DEF EventsOf
    <3>2. /\ webhooks' \subseteq ShipmentStatus /\ statuses' \subseteq ShipmentStatus
          /\ shipmentEvents' \subseteq {"shipped", "delivered", "delivered-to-customer"}
      BY <2>13, <3>1 DEF WebhookArrives, WebhookLost, ShippingTypeOK, reporting
    <3>3. ShippingTypeOK'
      BY <2>13, <3>2 DEF WebhookArrives, WebhookLost, ShippingTypeOK, scheduling, provider,
         reporting
    <3> QED BY <2>8, <2>13, <3>3 DEF WebhookArrives, WebhookLost, provider
  <2>14. CASE EnrichDelivered
    <3>1. ShippingTypeOK'
      BY <2>14 DEF EnrichDelivered, ShippingTypeOK, scheduling, provider
    <3> QED BY <2>8, <2>14, <3>1 DEF EnrichDelivered, provider
  <2>15. CASE UNCHANGED shippingVars
    <3>1. ShippingTypeOK'
      BY <2>15 DEF shippingVars, ShippingTypeOK, scheduling, provider, reporting
    <3> QED BY <2>8, <2>15, <3>1 DEF shippingVars, provider
  <2> QED
    BY <2>1, <2>2, <2>3, <2>4, <2>5, <2>6, <2>7, <2>9, <2>10, <2>11, <2>12, <2>13, <2>14, <2>15
    DEF ShippingNext, PressButton, ConfirmPickup, Transitions
<1> QED BY <1>1, <1>2, PTL DEF ShippingSpec

(* The order is told of its shipment once at most, of one there is, and a  *)
(* claim left behind is accounted for, however the command is repeated.    *)
THEOREM ShipmentAnnouncedOnce == ShippingSpec => []ScheduledOnce
<1>1. ShippingInv => ScheduledOnce
  BY DEF ShippingInv, AnnouncedExists, ClaimAccounted, ScheduledOnce
<1> QED BY <1>1, ShippingInvariance, PTL
=============================================================================
