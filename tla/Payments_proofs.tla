--------------------------- MODULE Payments_proofs ---------------------------
(***************************************************************************)
(* Proofs about Payments: its types; that the verdict of the provider      *)
(* stands and that its key never sticks; that a standing verdict has been  *)
(* published, but for the one hole the model sets apart; and that refunds  *)
(* are answered, once in each run of the process.                          *)
(***************************************************************************)
EXTENDS Payments, TLAPS

USE PaymentsAssumption

(* The key is asked for with a verdict, and the webhook called after that. *)
Asked ==
  \A a \in Attempts :
    /\ attempt[a].call # "none" \/ attempt[a].phase = "checked"
         => attempt[a].asked \in Verdicts
    /\ attempt[a].phase \in {"new", "checked"} => attempt[a].call = "none"

(* Every step keeps the types of the variables, and a webhook never runs   *)
(* for an attempt that asked for no verdict.                               *)
THEOREM PaymentsTypeCorrect == PaymentsSpec => [](PaymentsTypeOK /\ Asked)
<1>1. PaymentsInit => PaymentsTypeOK /\ Asked
  BY DEF PaymentsInit, PaymentsTypeOK, Asked, Attempt, Calls, Statuses, Verdicts,
         Senders
<1>2. PaymentsTypeOK /\ Asked /\ [PaymentsNext]_paymentVars => PaymentsTypeOK'
  <2> SUFFICES ASSUME PaymentsTypeOK, Asked, [PaymentsNext]_paymentVars
               PROVE  PaymentsTypeOK'
    OBVIOUS
  <2> USE DEF PaymentsTypeOK, Asked, webhookVars, refundVars
  <2>1. CASE Register \/ RefuseInitiation
    BY <2>1 DEF Register, RefuseInitiation, Statuses, Verdicts
  <2>1a. CASE ForgetPayment
    <3>1. \A a \in Attempts : [attempt[a] EXCEPT !.phase = "done"] \in Attempt
      BY DEF Attempt
    <3> QED
      BY <2>1a, <3>1 DEF ForgetPayment, Statuses
  <2>2. CASE RestartApi \/ RestartMessaging
    BY <2>2 DEF RestartApi, RestartMessaging, Attempt, Calls
  <2>3. ASSUME NEW a \in Attempts, NEW v \in Verdicts, CheckStatus(a, v)
        PROVE  PaymentsTypeOK'
    BY <2>3 DEF CheckStatus, Attempt
  <2>4. ASSUME NEW a \in Attempts, Resolve(a)
        PROVE  PaymentsTypeOK'
    <3>1. attempt[a] \in Attempt
      OBVIOUS
    <3>2. CASE payment.resolving
      BY <2>4, <3>1, <3>2 DEF Resolve, Attempt
    <3>3. CASE ~ payment.resolving
      <4>1. attempt' \in [Attempts -> Attempt]
        BY <2>4, <3>1, <3>3 DEF Resolve, Attempt, Calls
      <4> QED
        BY <2>4, <3>3, <4>1 DEF Resolve
    <3> QED
      BY <3>2, <3>3
  <2>5. ASSUME NEW a \in Attempts, Accept(a) \/ GiveUpAttempt(a)
        PROVE  PaymentsTypeOK'
    <3>1. attempt[a] \in Attempt
      OBVIOUS
    <3>2. attempt' \in [Attempts -> Attempt]
      BY <2>5, <3>1 DEF Accept, GiveUpAttempt, Attempt
    <3>3. payment' \in [status: Statuses, resolving: BOOLEAN]
      BY <2>5, <3>1 DEF Accept, GiveUpAttempt, Attempt, Statuses
    <3> QED
      BY <2>5, <3>2, <3>3 DEF Accept, GiveUpAttempt
  <2>6. ASSUME NEW a \in Attempts, Webhook(a)
        PROVE  PaymentsTypeOK'
    <3>2. \A b \in Attempts : attempt[b].call = "publishing"
            => attempt[b].asked \in Verdicts
      OBVIOUS
    <3>3. attempt[a] \in Attempt
      OBVIOUS
    <3>4. CASE BeginWebhook(a)
      BY <3>3, <3>4 DEF BeginWebhook, Attempt, Calls
    <3>5. CASE DuplicateWebhook(a)
      BY <3>2, <3>3, <3>5 DEF DuplicateWebhook, Attempt, Calls
    <3>6. CASE PublishVerdict(a)
      BY <3>3, <3>6 DEF PublishVerdict, Attempt, Calls
    <3>7. CASE FailVerdict(a)
      BY <3>3, <3>7 DEF FailVerdict, Attempt, Calls
    <3> QED
      BY <2>6, <3>4, <3>5, <3>6, <3>7 DEF Webhook
  <2>7. ASSUME NEW s \in Senders, Refund(s)
        PROVE  PaymentsTypeOK'
    BY <2>7 DEF Refund, BeginRefund, DuplicateRefund, PublishRefund, FailRefund,
                RefundKey
  <2>8. CASE UNCHANGED paymentVars
    BY <2>8 DEF paymentVars
  <2> QED
    BY <2>1, <2>1a, <2>2, <2>3, <2>4, <2>5, <2>6, <2>7, <2>8 DEF PaymentsNext
<1>3. PaymentsTypeOK /\ Asked /\ [PaymentsNext]_paymentVars => Asked'
  <2> SUFFICES ASSUME PaymentsTypeOK, Asked, [PaymentsNext]_paymentVars
               PROVE  Asked'
    OBVIOUS
  <2>1. \A a \in Attempts : attempt[a] \in Attempt
    BY DEF PaymentsTypeOK
  <2>2. ASSUME NEW a \in Attempts, NEW v \in Verdicts, CheckStatus(a, v)
        PROVE  Asked'
    BY <2>1, <2>2 DEF CheckStatus, Asked, PaymentsTypeOK, Attempt
  <2> DEFINE Bound(b) == attempt[b].call # "none" \/ attempt[b].phase = "checked"
             Called(b) == attempt[b].phase \in {"new", "checked"}
                            => attempt[b].call = "none"
  <2>3. ASSUME NEW a \in Attempts,
               Resolve(a) \/ Accept(a) \/ GiveUpAttempt(a) \/ Webhook(a)
        PROVE  Asked'
    <3>1. /\ attempt'[a].asked = attempt[a].asked
          /\ (Bound(a)' => Bound(a)) /\ (Called(a) => Called(a)')
          /\ \A b \in Attempts \ {a} : attempt'[b] = attempt[b]
      <4>1. CASE Resolve(a)
        BY <2>1, <4>1 DEF Resolve, PaymentsTypeOK, Attempt
      <4>2. CASE Accept(a) \/ GiveUpAttempt(a)
        BY <2>1, <4>2 DEF Accept, GiveUpAttempt, PaymentsTypeOK, Attempt
      <4>3. CASE Webhook(a)
        BY <2>1, <4>3 DEF Webhook, BeginWebhook, DuplicateWebhook, PublishVerdict,
             FailVerdict, PaymentsTypeOK, Attempt
      <4> QED
        BY <2>3, <4>1, <4>2, <4>3
    <3> QED
      BY <3>1 DEF Asked
  <2>4. CASE ForgetPayment \/ RestartApi
    <3>1. ASSUME NEW b \in Attempts
          PROVE  /\ attempt'[b].asked = attempt[b].asked
                 /\ (Bound(b)' => Bound(b)) /\ (Called(b) => Called(b)')
      BY <2>1, <2>4 DEF ForgetPayment, RestartApi, Attempt
    <3> QED
      BY <3>1 DEF Asked
  <2>5. CASE \/ Register \/ RefuseInitiation \/ RestartMessaging
             \/ \E s \in Senders : Refund(s)
             \/ UNCHANGED paymentVars
    <3>1. attempt' = attempt
      BY <2>5 DEF Register, RefuseInitiation, RestartMessaging, Refund, BeginRefund,
                  DuplicateRefund, PublishRefund, FailRefund, webhookVars, paymentVars
    <3> QED
      BY <3>1 DEF Asked
  <2> QED
    BY <2>2, <2>3, <2>4, <2>5 DEF PaymentsNext
<1> QED
  BY <1>1, <1>2, <1>3, PTL DEF PaymentsSpec

-----------------------------------------------------------------------------
(* The provider's key is held by the one attempt that waits or, for ever,  *)
(* by the verdict; an attempt that read the status holds a payment.        *)
KeyHeld ==
  /\ \A a \in Attempts : attempt[a].phase = "waiting"
       => payment.resolving /\ payment.status = "Pending"
  /\ \A a, b \in Attempts :
       attempt[a].phase = "waiting" /\ attempt[b].phase = "waiting" => a = b
  /\ \A a \in Attempts : attempt[a].phase = "checked"
       => payment.status \in {"Pending"} \cup Verdicts
  /\ payment.status \in Verdicts => payment.resolving
  /\ NoStuckKey

(* The lock of a verdict is kept until the verdict is, and a verdict stands.*)
LEMMA KeyHeldKept ==
  ASSUME PaymentsTypeOK, Asked, KeyHeld, [PaymentsNext]_paymentVars
  PROVE  /\ KeyHeld'
         /\ payment.status \in Verdicts
              => payment'.status \in {payment.status, "forgotten"}
<1> DEFINE Stands == payment.status \in Verdicts
                       => payment'.status \in {payment.status, "forgotten"}
<1>1. /\ \A a \in Attempts : attempt[a] \in Attempt
      /\ payment \in [status: Statuses, resolving: BOOLEAN]
      /\ attempt \in [Attempts -> Attempt]
  BY DEF PaymentsTypeOK
<1>2. CASE Register \/ RefuseInitiation
  BY <1>1, <1>2 DEF Register, RefuseInitiation, KeyHeld, NoStuckKey, Verdicts
<1>3. CASE ForgetPayment
  BY <1>1, <1>3 DEF ForgetPayment, KeyHeld, NoStuckKey, Attempt, Verdicts
<1>4. ASSUME NEW a \in Attempts, NEW v \in Verdicts, CheckStatus(a, v)
      PROVE  KeyHeld' /\ Stands
  <2>1. /\ attempt'[a].phase = "checked" /\ attempt[a].phase = "new"
        /\ \A b \in Attempts \ {a} : attempt'[b] = attempt[b]
        /\ payment.status = "Pending" /\ payment' = payment
    BY <1>1, <1>4 DEF CheckStatus, Attempt
  <2> QED
    BY <2>1 DEF KeyHeld, NoStuckKey, Verdicts
<1>5. ASSUME NEW a \in Attempts, Resolve(a)
      PROVE  KeyHeld' /\ Stands
  <2>1. \A b \in Attempts \ {a} : attempt'[b] = attempt[b]
    BY <1>1, <1>5 DEF Resolve
  <2>2. CASE payment.resolving
    <3>1. attempt'[a].phase = "done" /\ attempt[a].phase = "checked"
          /\ payment' = payment
      BY <1>1, <1>5, <2>2 DEF Resolve, Attempt
    <3> QED
      BY <2>1, <3>1 DEF KeyHeld, NoStuckKey, Verdicts
  <2>3. CASE ~ payment.resolving
    <3>1. /\ attempt'[a].phase = "waiting" /\ attempt[a].phase = "checked"
          /\ payment'.resolving /\ payment'.status = payment.status
      BY <1>1, <1>5, <2>3 DEF Resolve, Attempt
    <3>2. payment.status = "Pending"
      BY <2>3, <3>1 DEF KeyHeld
    <3> QED
      BY <2>1, <2>3, <3>1, <3>2 DEF KeyHeld, NoStuckKey, Verdicts
  <2> QED
    BY <2>2, <2>3
<1>6. ASSUME NEW a \in Attempts, Accept(a) \/ GiveUpAttempt(a)
      PROVE  KeyHeld' /\ Stands
  <2>1. /\ \A b \in Attempts \ {a} : attempt'[b] = attempt[b]
        /\ attempt'[a].phase = "done" /\ attempt[a].phase = "waiting"
    BY <1>1, <1>6 DEF Accept, GiveUpAttempt, Attempt
  <2>2. /\ payment.resolving /\ payment.status = "Pending"
        /\ \A b \in Attempts : attempt'[b].phase # "waiting"
    BY <2>1 DEF KeyHeld
  <2>3. \/ payment'.resolving /\ payment'.status \in Verdicts
        \/ ~ payment'.resolving /\ payment'.status = "Pending"
    BY <1>1, <1>6, <2>2 DEF Accept, GiveUpAttempt, Asked
  <2> QED
    BY <2>1, <2>2, <2>3 DEF KeyHeld, NoStuckKey, Verdicts
<1>7. CASE RestartApi \/ \E a \in Attempts : Webhook(a)
  <2>1. payment' = payment
    BY <1>7 DEF RestartApi, Webhook, BeginWebhook, DuplicateWebhook,
                PublishVerdict, FailVerdict
  <2>2. ASSUME NEW b \in Attempts
        PROVE  attempt'[b].phase = attempt[b].phase
    BY <1>1, <1>7 DEF RestartApi, Webhook, BeginWebhook, DuplicateWebhook,
                      PublishVerdict, FailVerdict, Attempt
  <2> QED
    BY <2>1, <2>2 DEF KeyHeld, NoStuckKey
<1>8. CASE RestartMessaging \/ (\E s \in Senders : Refund(s)) \/ UNCHANGED paymentVars
  <2>1. payment' = payment /\ attempt' = attempt
    BY <1>8 DEF RestartMessaging, Refund, BeginRefund, DuplicateRefund,
                PublishRefund, FailRefund, webhookVars, paymentVars
  <2> QED
    BY <2>1 DEF KeyHeld, NoStuckKey
<1> QED
  BY <1>2, <1>3, <1>4, <1>5, <1>6, <1>7, <1>8 DEF PaymentsNext

(* No attempt leaves its key behind: a payment that answers "processing"   *)
(* is being resolved, or is resolved (ResolvePayment and its catch).       *)
THEOREM KeyNeverSticks == PaymentsSpec => []NoStuckKey
<1>1. PaymentsInit => KeyHeld
  BY DEF PaymentsInit, KeyHeld, NoStuckKey, Verdicts
<1>2. PaymentsTypeOK /\ Asked /\ KeyHeld /\ [PaymentsNext]_paymentVars => KeyHeld'
  BY KeyHeldKept
<1>3. KeyHeld => NoStuckKey
  BY DEF KeyHeld
<1> QED
  BY <1>1, <1>2, <1>3, PaymentsTypeCorrect, PTL DEF PaymentsSpec

(* The verdict the customer was told never turns into the other one.       *)
THEOREM TheVerdictStands == PaymentsSpec => VerdictStands
<1>1. PaymentsInit => KeyHeld
  BY DEF PaymentsInit, KeyHeld, NoStuckKey, Verdicts
<1>2. PaymentsTypeOK /\ Asked /\ KeyHeld /\ [PaymentsNext]_paymentVars
        => /\ KeyHeld'
           /\ [payment.status \in Verdicts
                 => payment'.status \in {payment.status, "forgotten"}]_paymentVars
  BY KeyHeldKept
<1> QED
  BY <1>1, <1>2, PaymentsTypeCorrect, PTL DEF PaymentsSpec, VerdictStands

-----------------------------------------------------------------------------
(* A key the webhook has taken belongs to an event that is out, or to a    *)
(* call that is publishing it.                                             *)
KeysCovered ==
  /\ \A v \in begun : \/ v \in published
                     \/ \E a \in Attempts : /\ attempt[a].call = "publishing"
                                           /\ attempt[a].asked = v
  /\ \A a \in Attempts : attempt[a].call = "ok"
       => attempt[a].asked \in published \cup hasty
  /\ VerdictReported

(* Every step keeps what is known of the keys an attempt has claimed.      *)
LEMMA KeysCoveredKept ==
  ASSUME PaymentsTypeOK, Asked, KeysCovered, [PaymentsNext]_paymentVars
  PROVE  KeysCovered'
<1> USE DEF KeysCovered, VerdictReported
<1>1. /\ \A a \in Attempts : attempt[a] \in Attempt
      /\ payment \in [status: Statuses, resolving: BOOLEAN]
      /\ attempt \in [Attempts -> Attempt]
  BY DEF PaymentsTypeOK
<1> DEFINE SameCall(b) == /\ attempt'[b].call = attempt[b].call
                          /\ attempt[b].call # "none"
                               => attempt'[b].asked = attempt[b].asked
<1>2. CASE Register \/ RefuseInitiation
  BY <1>1, <1>2 DEF Register, RefuseInitiation, Verdicts
<1>3. CASE ForgetPayment
  <2>1. /\ payment'.status \notin Verdicts
        /\ UNCHANGED <<begun, published, hasty>>
    BY <1>3 DEF ForgetPayment, Verdicts
  <2>2. ASSUME NEW b \in Attempts
        PROVE  SameCall(b)
    BY <1>1, <1>3 DEF ForgetPayment, Attempt
  <2> QED
    BY <2>1, <2>2
<1>4. ASSUME NEW a \in Attempts,
             (\E v \in Verdicts : CheckStatus(a, v)) \/ Accept(a) \/ GiveUpAttempt(a)
      PROVE  KeysCovered'
  <2>1. /\ UNCHANGED <<begun, published, hasty>>
        /\ payment'.status \in Verdicts => payment'.status \in published \cup hasty
    BY <1>1, <1>4 DEF CheckStatus, Accept, GiveUpAttempt
  <2>2. ASSUME NEW b \in Attempts
        PROVE  SameCall(b)
    <3>1. CASE b # a
      BY <1>1, <1>4, <3>1 DEF CheckStatus, Accept, GiveUpAttempt
    <3>2. CASE b = a /\ \E v \in Verdicts : CheckStatus(a, v)
      <4>1. attempt[a].phase = "new" /\ attempt'[a].call = attempt[a].call
        BY <1>1, <3>2 DEF CheckStatus, Attempt
      <4> QED
        BY <3>2, <4>1 DEF Asked
    <3>3. CASE b = a /\ (Accept(a) \/ GiveUpAttempt(a))
      BY <1>1, <3>3 DEF Accept, GiveUpAttempt, Attempt
    <3> QED
      BY <1>4, <3>1, <3>2, <3>3
  <2> QED
    BY <2>1, <2>2
<1>5. ASSUME NEW a \in Attempts, Resolve(a)
      PROVE  KeysCovered'
  <2>1. /\ UNCHANGED <<begun, published, hasty>>
        /\ payment'.status = payment.status
        /\ attempt[a].call = "none" /\ attempt'[a].call \in {"none", "sent"}
        /\ \A b \in Attempts \ {a} : attempt'[b] = attempt[b]
    BY <1>1, <1>5 DEF Resolve, Attempt, Asked
  <2> QED
    BY <2>1
<1>6. ASSUME NEW a \in Attempts, Webhook(a)
      PROVE  KeysCovered'
  <2>1. /\ payment' = payment
        /\ attempt'[a].asked = attempt[a].asked
        /\ \A b \in Attempts \ {a} : attempt'[b] = attempt[b]
    BY <1>1, <1>6 DEF Webhook, BeginWebhook, DuplicateWebhook, PublishVerdict,
                      FailVerdict, Attempt
  <2>2. CASE BeginWebhook(a)
    <3>1. /\ attempt'[a].call = "publishing" /\ attempt[a].call = "sent"
          /\ begun' = begun \cup {attempt[a].asked}
          /\ UNCHANGED <<published, hasty>>
      BY <1>1, <2>2 DEF BeginWebhook, Attempt
    <3> QED
      BY <2>1, <3>1
  <2>3. CASE DuplicateWebhook(a)
    <3> DEFINE Busy == {c \in Attempts : /\ attempt[c].call = "publishing"
                                         /\ attempt[c].asked = attempt[a].asked}
    <3>1. /\ attempt'[a].call = "ok" /\ attempt[a].call = "sent"
          /\ attempt[a].asked \in begun
          /\ UNCHANGED <<begun, published>>
          /\ hasty' = hasty \cup {attempt[b].asked : b \in Busy}
      BY <1>1, <2>3 DEF DuplicateWebhook, Attempt
    <3>2. attempt[a].asked \in published \cup hasty'
      BY <3>1
    <3> QED
      BY <2>1, <3>1, <3>2
  <2>4. CASE PublishVerdict(a)
    <3>1. /\ attempt'[a].call = "ok" /\ attempt[a].call = "publishing"
          /\ published' = published \cup {attempt[a].asked}
          /\ UNCHANGED <<begun, hasty>>
      BY <1>1, <2>4 DEF PublishVerdict, Attempt
    <3> QED
      BY <2>1, <3>1
  <2>5. CASE FailVerdict(a)
    <3>1. /\ attempt'[a].call = "error" /\ attempt[a].call = "publishing"
          /\ begun' = begun \ {attempt[a].asked}
          /\ published \subseteq published' /\ hasty' = hasty
      BY <1>1, <2>5 DEF FailVerdict, Attempt
    <3> QED
      BY <2>1, <3>1
  <2> QED
    BY <1>6, <2>2, <2>3, <2>4, <2>5 DEF Webhook
<1>7. CASE RestartApi
  <2>1. /\ begun' = {}
        /\ UNCHANGED <<payment, published, hasty>>
    BY <1>7 DEF RestartApi
  <2>2. ASSUME NEW b \in Attempts
        PROVE  attempt'[b].call = "ok" => attempt'[b] = attempt[b]
    BY <1>1, <1>7 DEF RestartApi, Attempt
  <2> QED
    BY <2>1, <2>2
<1>8. CASE RestartMessaging \/ (\E s \in Senders : Refund(s)) \/ UNCHANGED paymentVars
  BY <1>8 DEF RestartMessaging, Refund, BeginRefund, DuplicateRefund,
              PublishRefund, FailRefund, webhookVars, paymentVars
<1> QED
  BY <1>2, <1>3, <1>4, <1>5, <1>6, <1>7, <1>8 DEF PaymentsNext

(* A verdict the provider holds has been published, unless a duplicate was *)
(* acknowledged while the first call was still publishing it.              *)
THEOREM TheVerdictIsReported == PaymentsSpec => []VerdictReported
<1>1. PaymentsInit => KeysCovered
  BY DEF PaymentsInit, KeysCovered, VerdictReported, Verdicts
<1>2. PaymentsTypeOK /\ Asked /\ KeysCovered /\ [PaymentsNext]_paymentVars
        => KeysCovered'
  BY KeysCoveredKept
<1>3. KeysCovered => VerdictReported
  BY DEF KeysCovered
<1> QED
  BY <1>1, <1>2, <1>3, PaymentsTypeCorrect, PTL DEF PaymentsSpec

-----------------------------------------------------------------------------
(* A key of the refund consumer was taken for its own command; a command   *)
(* whose key is free has been published in earlier runs only.              *)
RefundKeysInv ==
  \A s \in Senders :
    /\ RefundKey(s) \in refund.keys \/ s \in settled.acknowledged
         => refunds[s] > 0 \/ s \in refund.publishing \/ s \in settled.failed
    /\ refunds[s] <= restarts.messaging + 1
    /\ RefundKey(s) \notin refund.keys \/ s \in refund.publishing
         => refunds[s] <= restarts.messaging
    /\ s \in refund.publishing => RefundKey(s) \in refund.keys

(* Every step keeps what is known of the keys of the refunds.              *)
LEMMA RefundKeysKept ==
  ASSUME PaymentsTypeOK, RefundKeysInv, [PaymentsNext]_paymentVars
  PROVE  RefundKeysInv'
<1>1. /\ refund \in [keys: SUBSET {"payment", "transaction"},
                    publishing: SUBSET Senders]
      /\ refunds \in [Senders -> Nat]
      /\ settled \in [acknowledged: SUBSET Senders, failed: SUBSET Senders]
      /\ restarts \in [api: Nat, messaging: Nat]
  BY DEF PaymentsTypeOK
<1> USE DEF RefundKeysInv
<1>2. ASSUME NEW s \in Senders, Refund(s)
      PROVE  RefundKeysInv'
  <2>1. restarts' = restarts
    BY <1>2 DEF Refund, BeginRefund, DuplicateRefund, PublishRefund, FailRefund
  <2>2. CASE BeginRefund(s)
    BY <1>1, <2>1, <2>2 DEF BeginRefund, RefundKey, Senders
  <2>3. CASE DuplicateRefund(s)
    BY <1>1, <2>1, <2>3 DEF DuplicateRefund
  <2>4. CASE PublishRefund(s)
    BY <1>1, <2>1, <2>4 DEF PublishRefund
  <2>5. CASE FailRefund(s)
    BY <1>1, <2>1, <2>5 DEF FailRefund
  <2> QED
    BY <1>2, <2>2, <2>3, <2>4, <2>5 DEF Refund
<1>3. CASE RestartMessaging
  BY <1>1, <1>3 DEF RestartMessaging
<1>4. CASE RestartApi
  BY <1>1, <1>4 DEF RestartApi, refundVars
<1>5. CASE \/ Register \/ RefuseInitiation \/ ForgetPayment
           \/ (\E a \in Attempts : \/ \E v \in Verdicts : CheckStatus(a, v)
                                  \/ Resolve(a) \/ Accept(a) \/ GiveUpAttempt(a)
                                  \/ Webhook(a))
           \/ UNCHANGED paymentVars
  <2>1. UNCHANGED <<refundVars, restarts>>
    BY <1>5 DEF Register, RefuseInitiation, ForgetPayment, CheckStatus, Resolve,
         Accept, GiveUpAttempt, Webhook, BeginWebhook, DuplicateWebhook,
         PublishVerdict, FailVerdict, paymentVars
  <2> QED
    BY <2>1 DEF refundVars
<1> QED
  BY <1>2, <1>3, <1>4, <1>5 DEF PaymentsNext

(* Every refund command that is acknowledged has been answered by its own  *)
(* event, or its publication was cut short; and it is published at most    *)
(* once in each run of Payments.Messaging, however often it is delivered.  *)
THEOREM RefundsAnswered == PaymentsSpec => [](RefundAnswered /\ RefundOncePerRun)
<1>1. PaymentsInit => RefundKeysInv
  BY DEF PaymentsInit, RefundKeysInv
<1>2. PaymentsTypeOK /\ RefundKeysInv /\ [PaymentsNext]_paymentVars => RefundKeysInv'
  BY RefundKeysKept
<1>3. PaymentsTypeOK /\ RefundKeysInv => RefundAnswered /\ RefundOncePerRun
  BY DEF RefundKeysInv, RefundAnswered, RefundOncePerRun, PaymentsTypeOK
<1> QED
  BY <1>1, <1>2, <1>3, PaymentsTypeCorrect, PTL DEF PaymentsSpec

(* One run of Payments.Messaging publishes the event of a refund command   *)
(* at most once, however often the command is delivered.                   *)
THEOREM RefundsOncePerRun == PaymentsSpec => []RefundOncePerRun
  BY RefundsAnswered, PTL
=============================================================================
