------------------------------ MODULE Payments ------------------------------
(***************************************************************************)
(* The payment of one order: the provider (PSP.Simulator) that holds it,   *)
(* the webhook of Payments.API that turns its verdict into an event, and   *)
(* the refund consumer of Payments.Messaging.  Each of the three processes *)
(* remembers what it has begun in a registry of keys in its memory, which  *)
(* a restart empties.                                                      *)
(*                                                                         *)
(* The provider calls the webhook once per attempt to resolve the payment, *)
(* waits at most five seconds, and gives the attempt up on any failure; a  *)
(* call it gave up may still be running.  The reading of the payment's     *)
(* status and the taking of its key are two steps of an attempt.           *)
(***************************************************************************)
EXTENDS Naturals

CONSTANTS
  Attempts,     \* the customer's attempts to confirm or reject the payment
  MaxRestarts   \* bound: restarts of Payments.API, and of Payments.Messaging

ASSUME PaymentsAssumption == MaxRestarts \in Nat

VARIABLES
  payment,    \* the provider's payment: its status, and whether its key is taken
  attempt,    \* each attempt, at the provider and at the webhook
  begun,      \* the webhook's keys: the verdicts it has taken
  published,  \* history: the verdicts whose event has been published
  hasty,      \* history: the verdicts acknowledged while another call was
              \* still publishing their event
  refund,     \* the refund consumer: its keys, and the deliveries in progress
  refunds,    \* history: how often each refund command was published as done
  settled,    \* history: the refund commands acknowledged, and those that failed
  restarts    \* restarts of each process so far

webhookVars == <<payment, attempt, begun, published, hasty>>

refundVars == <<refund, refunds, settled>>

paymentVars == <<webhookVars, refundVars, restarts>>

Verdicts == {"success", "cancelled"}

(* A payment the provider never took, or lost with its memory, is over.    *)
Statuses == {"none", "Pending", "refused", "forgotten"} \cup Verdicts

Calls == {"none", "sent", "publishing", "ok", "error"}

Attempt == [asked: Verdicts \cup {"none"},
            phase: {"new", "checked", "waiting", "done"},  \* at the provider
            call: Calls]                                   \* at the webhook

(* The saga refunds with the transaction alone, the Orders service with    *)
(* the payment id; the same command is keyed by the id if there is one.    *)
Senders == {"saga", "orders"}

(* A slip: the key leaves out what tells the refunds apart.                *)
SharedKeyMutant(s) == IF s \in Senders THEN "refund" ELSE s

RefundKey(s) == IF s = "orders" THEN "payment" ELSE "transaction"

PaymentsTypeOK ==
  /\ payment \in [status: Statuses, resolving: BOOLEAN]
  /\ attempt \in [Attempts -> Attempt]
  /\ begun \subseteq Verdicts /\ published \subseteq Verdicts
  /\ hasty \subseteq Verdicts
  /\ refund \in [keys: SUBSET {"payment", "transaction"},
                publishing: SUBSET Senders]
  /\ refunds \in [Senders -> Nat]
  /\ settled \in [acknowledged: SUBSET Senders, failed: SUBSET Senders]
  /\ restarts \in [api: 0 .. MaxRestarts, messaging: 0 .. MaxRestarts]

PaymentsInit ==
  /\ payment = [status |-> "none", resolving |-> FALSE]
  /\ attempt = [a \in Attempts |->
                  [asked |-> "none", phase |-> "new", call |-> "none"]]
  /\ begun = {} /\ published = {} /\ hasty = {}
  /\ refund = [keys |-> {}, publishing |-> {}]
  /\ refunds = [s \in Senders |-> 0]
  /\ settled = [acknowledged |-> {}, failed |-> {}]
  /\ restarts = [api |-> 0, messaging |-> 0]

-----------------------------------------------------------------------------
(***************************************************************************)
(* The provider.                                                           *)
(***************************************************************************)

(* PaymentService.Initiate, on behalf of the order being placed.           *)
Register ==
  /\ payment.status = "none"
  /\ payment' = [payment EXCEPT !.status = "Pending"]
  /\ UNCHANGED <<attempt, begun, published, hasty, refundVars, restarts>>

(* The provider refuses for good: the payment has failed before it began.  *)
(* The event may be lost, as nothing stores it.                            *)
RefuseInitiation ==
  /\ payment.status = "none"
  /\ payment' = [payment EXCEPT !.status = "refused"]
  /\ published' \in {published, published \cup {"cancelled"}}
  /\ UNCHANGED <<attempt, begun, hasty, refundVars, restarts>>

(* The customer confirms or rejects.  An attempt that finds the payment    *)
(* resolved is answered so and changes nothing.                            *)
CheckStatus(a, v) ==
  /\ attempt[a].phase = "new"
  /\ payment.status = "Pending"
  /\ attempt' = [attempt EXCEPT ![a].asked = v, ![a].phase = "checked"]
  /\ UNCHANGED <<payment, begun, published, hasty, refundVars, restarts>>

(* The attempt takes the payment's key and calls the webhook; one that     *)
(* does not get the key is answered "processing".                          *)
Resolve(a) ==
  /\ attempt[a].phase = "checked"
  /\ IF payment.resolving
     THEN /\ attempt' = [attempt EXCEPT ![a].phase = "done"]
          /\ UNCHANGED payment
     ELSE /\ attempt' = [attempt EXCEPT ![a].phase = "waiting", ![a].call = "sent"]
          /\ payment' = [payment EXCEPT !.resolving = TRUE]
  /\ UNCHANGED <<begun, published, hasty, refundVars, restarts>>

(* A slip: the key is given back when the payment is resolved.             *)
GiveKeyBackMutant(a) ==
  /\ attempt[a].phase = "waiting" /\ attempt[a].call = "ok"
  /\ payment' = [status |-> attempt[a].asked, resolving |-> FALSE]
  /\ attempt' = [attempt EXCEPT ![a].phase = "done"]
  /\ UNCHANGED <<begun, published, hasty, refundVars, restarts>>

(* The webhook has answered 200: the verdict stands, and the key is kept.  *)
Accept(a) ==
  /\ attempt[a].phase = "waiting" /\ attempt[a].call = "ok"
  /\ payment' = [payment EXCEPT !.status = attempt[a].asked]
  /\ attempt' = [attempt EXCEPT ![a].phase = "done"]
  /\ UNCHANGED <<begun, published, hasty, refundVars, restarts>>

(* A slip: the key stays taken when the call has failed.                   *)
HoldKeyMutant(a) ==
  /\ attempt[a].phase = "waiting"
  /\ attempt' = [attempt EXCEPT ![a].phase = "done"]
  /\ UNCHANGED <<payment, begun, published, hasty, refundVars, restarts>>

(* The call failed, its answer was lost, the provider waited too long or   *)
(* the customer left: the attempt is given up, whatever the webhook does.  *)
GiveUpAttempt(a) ==
  /\ attempt[a].phase = "waiting"
  /\ payment' = [payment EXCEPT !.resolving = FALSE]
  /\ attempt' = [attempt EXCEPT ![a].phase = "done"]
  /\ UNCHANGED <<begun, published, hasty, refundVars, restarts>>

(* The provider restarts: its payments and its attempts are gone.          *)
ForgetPayment ==
  /\ payment.status \in {"Pending"} \cup Verdicts
  /\ payment' = [status |-> "forgotten", resolving |-> FALSE]
  /\ attempt' = [a \in Attempts |-> [attempt[a] EXCEPT !.phase = "done"]]
  /\ UNCHANGED <<begun, published, hasty, refundVars, restarts>>

-----------------------------------------------------------------------------
(***************************************************************************)
(* The webhook.                                                            *)
(***************************************************************************)

(* The key of the verdict is taken.                                        *)
BeginWebhook(a) ==
  /\ attempt[a].call = "sent"
  /\ attempt[a].asked \notin begun
  /\ begun' = begun \cup {attempt[a].asked}
  /\ attempt' = [attempt EXCEPT ![a].call = "publishing"]
  /\ UNCHANGED <<payment, published, hasty, refundVars, restarts>>

(* A duplicate is acknowledged at once, even if the first is still busy.   *)
DuplicateWebhook(a) ==
  /\ attempt[a].call = "sent"
  /\ attempt[a].asked \in begun
  /\ attempt' = [attempt EXCEPT ![a].call = "ok"]
  /\ hasty' = hasty \cup {attempt[b].asked : b \in
                 {c \in Attempts : /\ attempt[c].call = "publishing"
                                   /\ attempt[c].asked = attempt[a].asked}}
  /\ UNCHANGED <<payment, begun, published, refundVars, restarts>>

PublishVerdict(a) ==
  /\ attempt[a].call = "publishing"
  /\ published' = published \cup {attempt[a].asked}
  /\ attempt' = [attempt EXCEPT ![a].call = "ok"]
  /\ UNCHANGED <<payment, begun, hasty, refundVars, restarts>>

(* A slip: the key is kept when the event could not be published.          *)
KeepKeyMutant(a) ==
  /\ attempt[a].call = "publishing"
  /\ attempt' = [attempt EXCEPT ![a].call = "error"]
  /\ UNCHANGED <<payment, begun, published, hasty, refundVars, restarts>>

(* The broker failed, or the provider hung up and cancelled the request:   *)
(* the key is abandoned.  The event may be out all the same.               *)
FailVerdict(a) ==
  /\ attempt[a].call = "publishing"
  /\ begun' = begun \ {attempt[a].asked}
  /\ attempt' = [attempt EXCEPT ![a].call = "error"]
  /\ published' \in {published, published \cup {attempt[a].asked}}
  /\ UNCHANGED <<payment, hasty, refundVars, restarts>>

(* Payments.API restarts: the keys, and the calls in progress, are gone.   *)
RestartApi ==
  /\ restarts.api < MaxRestarts
  /\ begun' = {}
  /\ attempt' = [a \in Attempts |->
                   IF attempt[a].call \in {"sent", "publishing"}
                   THEN [attempt[a] EXCEPT !.call = "error"] ELSE attempt[a]]
  /\ restarts' = [restarts EXCEPT !.api = @ + 1]
  /\ UNCHANGED <<payment, published, hasty, refundVars>>

-----------------------------------------------------------------------------
(***************************************************************************)
(* RefundPaymentCommandConsumer.  Its endpoint has an in-memory outbox, so *)
(* what it publishes leaves after Consume has returned, out of its catch.  *)
(***************************************************************************)

(* A slip: the key is not looked at.                                       *)
RefundAgainMutant(s) ==
  /\ s \notin refund.publishing
  /\ refund' = [keys |-> refund.keys \cup {RefundKey(s)},
                publishing |-> refund.publishing \cup {s}]
  /\ UNCHANGED <<webhookVars, refunds, settled, restarts>>

BeginRefund(s) ==
  /\ s \notin refund.publishing
  /\ RefundKey(s) \notin refund.keys
  /\ refund' = [keys |-> refund.keys \cup {RefundKey(s)},
                publishing |-> refund.publishing \cup {s}]
  /\ UNCHANGED <<webhookVars, refunds, settled, restarts>>

(* A delivery whose key is taken is acknowledged as a duplicate.           *)
DuplicateRefund(s) ==
  /\ RefundKey(s) \in refund.keys
  /\ settled' = [settled EXCEPT !.acknowledged = @ \cup {s}]
  /\ UNCHANGED <<webhookVars, refund, refunds, restarts>>

PublishRefund(s) ==
  /\ s \in refund.publishing
  /\ refund' = [refund EXCEPT !.publishing = @ \ {s}]
  /\ refunds' = [refunds EXCEPT ![s] = @ + 1]
  /\ settled' = [settled EXCEPT !.acknowledged = @ \cup {s}]
  /\ UNCHANGED <<webhookVars, restarts>>

(* The publication fails after Consume: the command is delivered again,    *)
(* but its key is not abandoned.                                           *)
FailRefund(s) ==
  /\ s \in refund.publishing
  /\ refund' = [refund EXCEPT !.publishing = @ \ {s}]
  /\ settled' = [settled EXCEPT !.failed = @ \cup {s}]
  /\ UNCHANGED <<webhookVars, refunds, restarts>>

(* Payments.Messaging restarts; the broker delivers again what it had.     *)
RestartMessaging ==
  /\ restarts.messaging < MaxRestarts
  /\ settled' = [settled EXCEPT !.failed = @ \cup refund.publishing]
  /\ refund' = [keys |-> {}, publishing |-> {}]
  /\ restarts' = [restarts EXCEPT !.messaging = @ + 1]
  /\ UNCHANGED <<webhookVars, refunds>>

-----------------------------------------------------------------------------
Webhook(a) == BeginWebhook(a) \/ DuplicateWebhook(a) \/ PublishVerdict(a)
              \/ FailVerdict(a)

Refund(s) == BeginRefund(s) \/ DuplicateRefund(s) \/ PublishRefund(s)
             \/ FailRefund(s)

PaymentsNext ==
  \/ Register \/ RefuseInitiation \/ ForgetPayment
  \/ RestartApi \/ RestartMessaging
  \/ \E a \in Attempts : \/ \E v \in Verdicts : CheckStatus(a, v)
                         \/ Resolve(a) \/ Accept(a) \/ GiveUpAttempt(a)
                         \/ Webhook(a)
  \/ \E s \in Senders : Refund(s)

PaymentsSpec == PaymentsInit /\ [][PaymentsNext]_paymentVars

-----------------------------------------------------------------------------
(***************************************************************************)
(* Properties.                                                             *)
(***************************************************************************)

(* Once the provider has told the customer a verdict it never tells        *)
(* another one, however many attempts had read "Pending" before: at most a *)
(* restart makes it forget (ResolvePayment reads, then takes the key).     *)
VerdictStands ==
  [][payment.status \in Verdicts
       => payment'.status \in {payment.status, "forgotten"}]_paymentVars

(* A payment whose key is taken is resolved or still being resolved: no    *)
(* attempt that failed leaves it "processing" for ever.                    *)
NoStuckKey ==
  payment.resolving => \/ payment.status \in Verdicts
                       \/ \E a \in Attempts : attempt[a].phase = "waiting"

(* A verdict the provider holds is one the webhook has published, restarts *)
(* and failed publications included.  The only way around is a duplicate   *)
(* acknowledged while the first call is still publishing (then it may      *)
(* fail): those verdicts are set apart in hasty.                           *)
VerdictReported ==
  payment.status \in Verdicts => payment.status \in published \cup hasty

(* A refund command that is acknowledged has been answered by an event of  *)
(* its own, or its own publication is on its way or was cut short: the key *)
(* of the saga's refund does not swallow that of the Orders service.       *)
RefundAnswered ==
  \A s \in settled.acknowledged :
    refunds[s] > 0 \/ s \in refund.publishing \/ s \in settled.failed

(* However often a refund command is delivered, the process publishes it   *)
(* once for each time it was started.                                      *)
RefundOncePerRun == \A s \in Senders : refunds[s] <= restarts.messaging + 1
=============================================================================
