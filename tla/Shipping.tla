-------------------------------- MODULE Shipping --------------------------------
(***************************************************************************)
(* The shipment of one order: the consumer of schedule-shipping, which     *)
(* claims the order, calls the provider and announces the shipment; the    *)
(* provider, whose operator moves the shipment on; the webhook, which      *)
(* records what the provider reports and announces it; and the consumer    *)
(* that adds the customer's address to the delivery.                       *)
(*                                                                         *)
(* A delivery of the command may be repeated, overlap with another, fail,  *)
(* or stop half way.  Its publication leaves when Consume has returned,    *)
(* because the endpoint has an in-memory outbox.                           *)
(***************************************************************************)
EXTENDS Integers

CONSTANTS
    Couriers,        \* deliveries of the command that may overlap
    MaxTroubles,     \* bound on deliveries and publications cut short
    MaxMoves         \* bound on the requests to move the shipment on

ASSUME ShippingAssumption == MaxTroubles \in Nat /\ MaxMoves \in Nat

VARIABLES
    emailed,         \* the command carries the customer's address
    claim,           \* ShippingOperations has the order
    booking,         \* where each delivery of the command is
    stray,           \* a call nobody waits for may still reach the provider
    onFile,          \* ShippingInfos has the customer's address
    scheduled,       \* history: ShippingScheduledEvents published
    cutShort,        \* history: a delivery left its claim without its event
    shipment,        \* the status of the shipment at the provider
    screen,          \* the status its operator's page shows
    moves,           \* requests that have read the shipment and will store it, by status
    moved,           \* requests made so far
    webhooks,        \* reports on their way to Shipping.Api
    statuses,        \* ShippingStatusHistory
    shipmentEvents,  \* the events published about the shipment
    troubles         \* deliveries and publications cut short so far

scheduling   == <<claim, booking, onFile, scheduled, cutShort>>
provider     == <<shipment, screen, moves, moved>>
reporting    == <<statuses, shipmentEvents>>
shippingVars == <<emailed, scheduling, stray, provider, webhooks, reporting, troubles>>

Transitions == {"picked_up", "shipped", "out_for_delivery", "delivered", "failed"}
ShipmentStatus == Transitions \cup {"accepted"}

ShippingTypeOK ==
    /\ emailed \in BOOLEAN /\ claim \in BOOLEAN /\ stray \in BOOLEAN
    /\ booking \in [Couriers -> {"idle", "begun", "recorded", "asked", "booked",
                                 "failing", "leaving"}]
    /\ onFile \in BOOLEAN /\ cutShort \in BOOLEAN
    /\ scheduled \in Nat
    /\ shipment \in ShipmentStatus \cup {"none"}
    /\ screen \in ShipmentStatus \cup {"none"}
    /\ moves \in [Transitions -> Nat] /\ moved \in Nat
    /\ webhooks \subseteq ShipmentStatus
    /\ statuses \subseteq ShipmentStatus
    /\ shipmentEvents \subseteq {"shipped", "delivered", "delivered-to-customer"}
    /\ troubles \in Nat

ShippingInit ==
    /\ emailed \in BOOLEAN
    /\ claim = FALSE /\ booking = [c \in Couriers |-> "idle"] /\ stray = FALSE
    /\ onFile = FALSE /\ scheduled = 0 /\ cutShort = FALSE
    /\ shipment = "none" /\ screen = "none"
    /\ moves = [s \in Transitions |-> 0] /\ moved = 0
    /\ webhooks = {} /\ statuses = {} /\ shipmentEvents = {}
    /\ troubles = 0

---------------------------------------------------------------------------
(* ScheduleShippingCommandConsumer. *)

Goes(c, phase) == booking' = [booking EXCEPT ![c] = phase]

\* Mutant: an order that is claimed is scheduled again.
BeginAgain(c) ==
    /\ booking[c] = "idle"
    /\ claim' = TRUE /\ Goes(c, "begun")
    /\ UNCHANGED <<emailed, onFile, scheduled, cutShort, stray, provider, webhooks, reporting, troubles>>

\* TryBeginAsync; a delivery that finds the claim is a duplicate, acknowledged
\* at once.
BeginScheduling(c) ==
    /\ booking[c] = "idle" /\ ~claim
    /\ claim' = TRUE /\ Goes(c, "begun")
    /\ UNCHANGED <<emailed, onFile, scheduled, cutShort, stray, provider, webhooks, reporting, troubles>>

\* The upsert of the customer's address, if the command has one.
RecordCustomer(c) ==
    /\ booking[c] = "begun"
    /\ onFile' = (onFile \/ emailed) /\ Goes(c, "recorded")
    /\ UNCHANGED <<emailed, claim, scheduled, cutShort, stray, provider, webhooks, reporting, troubles>>

CallProvider(c) ==
    /\ booking[c] = "recorded" /\ Goes(c, "asked")
    /\ UNCHANGED <<emailed, claim, onFile, scheduled, cutShort, stray, provider, webhooks, reporting, troubles>>

\* The answer names the shipment; the event goes into the in-memory outbox
\* and Consume returns.
ProviderAnswered(c) ==
    /\ booking[c] = "booked" /\ Goes(c, "leaving")
    /\ UNCHANGED <<emailed, claim, onFile, scheduled, cutShort, stray, provider, webhooks, reporting, troubles>>

AnnounceScheduled(c) ==
    /\ booking[c] = "leaving" /\ Goes(c, "idle")
    /\ scheduled' = scheduled + 1
    /\ UNCHANGED <<emailed, claim, onFile, cutShort, stray, provider, webhooks, reporting, troubles>>

\* Mongo, the provider or its answer fails, or takes too long: the catch.  The
\* call may be carried out all the same.  The repetitions of a delivery are
\* not counted.
SchedulingFails(c) ==
    /\ booking[c] \in {"begun", "recorded", "asked", "booked"}
    /\ Goes(c, "failing")
    /\ stray' = (stray \/ booking[c] = "asked")
    /\ UNCHANGED <<emailed, claim, onFile, scheduled, cutShort, provider, webhooks, reporting, troubles>>

\* AbandonAsync; the exception goes on, and the command may be delivered again.
AbandonScheduling(c) ==
    /\ booking[c] = "failing" /\ Goes(c, "idle")
    /\ claim' = FALSE
    /\ UNCHANGED <<emailed, onFile, scheduled, cutShort, stray, provider, webhooks, reporting, troubles>>

\* The process stops, the insert of the claim is not acknowledged, AbandonAsync
\* fails, or the publication does, which may have reached the broker or not:
\* the claim stays, and a repetition finds it.
SchedulingStops(c) ==
    /\ booking[c] # "idle" /\ troubles < MaxTroubles
    /\ troubles' = troubles + 1 /\ cutShort' = TRUE
    /\ Goes(c, "idle")
    /\ stray' = (stray \/ booking[c] = "asked")
    /\ scheduled' \in IF booking[c] = "leaving" THEN {scheduled, scheduled + 1} ELSE {scheduled}
    /\ UNCHANGED <<emailed, claim, onFile, provider, webhooks, reporting>>

---------------------------------------------------------------------------
(* The provider. *)

\* TryCreateAsync by the order's id: the shipment is created once, and later
\* calls are answered with the one there is.
Created ==
    /\ shipment' = IF shipment = "none" THEN "accepted" ELSE shipment
    /\ webhooks' = IF shipment = "none" THEN webhooks \cup {"accepted"} ELSE webhooks
    /\ UNCHANGED <<screen, moves, moved>>

BookShipment(c) ==
    /\ booking[c] = "asked" /\ Goes(c, "booked") /\ Created
    /\ UNCHANGED <<emailed, claim, onFile, scheduled, cutShort, stray, reporting, troubles>>

BookStray ==
    /\ stray /\ stray' = FALSE /\ Created
    /\ UNCHANGED <<emailed, scheduling, reporting, troubles>>

\* loadShipment, or the answer to a button, which shows what its handler stored.
LoadShipment ==
    /\ shipment # "none" /\ screen' = shipment
    /\ UNCHANGED <<emailed, scheduling, stray, shipment, moves, moved, webhooks, reporting, troubles>>

\* actionButtons, of the page as it was last loaded.
ActionButtons(s) ==
    CASE s = "accepted"                   -> {"shipped", "failed"}
      [] s \in {"picked_up", "shipped"}   -> {"out_for_delivery", "failed"}
      [] s = "out_for_delivery"           -> {"delivered", "failed"}
      [] OTHER                            -> {}

\* A handler reads the shipment, and is done if it has that status already.
ReadShipment(s) ==
    /\ shipment \notin {"none", s} /\ moved < MaxMoves
    /\ moves' = [moves EXCEPT ![s] = @ + 1] /\ moved' = moved + 1
    /\ UNCHANGED <<emailed, scheduling, stray, shipment, screen, webhooks, reporting, troubles>>

PressButton(s) == s \in ActionButtons(screen) /\ ReadShipment(s)

\* ConfirmPickupCommandConsumer, of an order whose shipment was announced.
ConfirmPickup == scheduled > 0 /\ ReadShipment("picked_up")

\* The handler stores the whole shipment, whatever it has become, and reports.
SaveShipment(s) ==
    /\ moves[s] > 0 /\ moves' = [moves EXCEPT ![s] = @ - 1]
    /\ shipment' = s
    /\ webhooks' = webhooks \cup {s}
    /\ UNCHANGED <<emailed, scheduling, stray, screen, moved, reporting, troubles>>

---------------------------------------------------------------------------
(* Shipping.Api and the delivery's consumer. *)

\* ProcessStatusUpdateAsync: the event that a status is announced by.
EventsOf(s) == CASE s \in {"shipped", "out_for_delivery"} -> {"shipped"}
                 [] s = "delivered"                       -> {"delivered"}
                 [] OTHER                                 -> {}

\* Reports overtake one another.  The entry is stored before the event is
\* published, and the event is lost when that fails.
WebhookArrives(s) ==
    /\ s \in webhooks /\ webhooks' = webhooks \ {s}
    /\ statuses' = statuses \cup {s}
    /\ \/ shipmentEvents' = shipmentEvents \cup EventsOf(s) /\ UNCHANGED troubles
       \/ /\ troubles < MaxTroubles /\ troubles' = troubles + 1
          /\ UNCHANGED shipmentEvents
    /\ UNCHANGED <<emailed, scheduling, stray, provider>>

\* SendWebhook is not repeated.
WebhookLost(s) ==
    /\ s \in webhooks /\ webhooks' = webhooks \ {s}
    /\ troubles < MaxTroubles /\ troubles' = troubles + 1
    /\ UNCHANGED <<emailed, scheduling, stray, provider, reporting>>

\* OrderDeliveredEventConsumer: an event without an address is published again
\* with the one on file; the second has one and is not.
EnrichDelivered ==
    /\ "delivered" \in shipmentEvents /\ onFile
    /\ shipmentEvents' = shipmentEvents \cup {"delivered-to-customer"}
    /\ UNCHANGED <<emailed, scheduling, stray, provider, webhooks, statuses, troubles>>

ShippingNext ==
    \/ \E c \in Couriers :
          \/ BeginScheduling(c) \/ RecordCustomer(c) \/ CallProvider(c) \/ BookShipment(c)
          \/ ProviderAnswered(c) \/ AnnounceScheduled(c)
          \/ SchedulingFails(c) \/ AbandonScheduling(c) \/ SchedulingStops(c)
    \/ BookStray \/ LoadShipment \/ ConfirmPickup
    \/ \E s \in Transitions : PressButton(s) \/ SaveShipment(s)
    \/ \E s \in ShipmentStatus : WebhookArrives(s) \/ WebhookLost(s)
    \/ EnrichDelivered

ShippingSpec == ShippingInit /\ [][ShippingNext]_shippingVars

---------------------------------------------------------------------------
(* Properties. *)

\* However often the command is delivered, fails and is repeated, the order is
\* told of its shipment once at most, and only of one the provider has; and a
\* claim that nobody works under was left by a delivery that announced the
\* shipment or was cut short (ScheduleShippingCommandConsumer.cs).
ScheduledOnce ==
    /\ scheduled <= 1
    /\ scheduled = 1 => shipment # "none"
    /\ claim /\ (\A c \in Couriers : booking[c] = "idle") => scheduled = 1 \/ cutShort
=============================================================================
