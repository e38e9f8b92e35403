------------------------------- MODULE Checkout -------------------------------
(***************************************************************************)
(* The checkout page: three steps that are mounted one at a time, each     *)
(* with its own state, over the page's state and the mutations the page    *)
(* owns.  The customer clicks while answers are under way: an address is   *)
(* saved and deleted, the customer's record is created, an order is sent.  *)
(*                                                                         *)
(* An address is complete (a member of Addresses) or it is Incomplete.  A  *)
(* saved address is named by its content, which nothing here changes.      *)
(***************************************************************************)
EXTENDS Integers, FiniteSets

CONSTANTS
    Addresses,       \* addresses with every required field
    Incomplete,      \* any address that lacks one
    Nothing,         \* no address, no method
    Methods,         \* PAYMENT_METHODS
    EnabledMethods,  \* those with enabled: true
    MaxVisits,       \* bound on the times the page is opened
    MaxOrders,       \* bound on the orders sent
    MaxDeletions     \* bound on the deletions under way at once

ASSUME CheckoutAssumption ==
    /\ Incomplete \notin Addresses /\ Nothing \notin Addresses
    /\ EnabledMethods \subseteq Methods /\ EnabledMethods # {} /\ Nothing \notin Methods
    /\ MaxVisits \in Nat /\ MaxOrders \in Nat /\ MaxDeletions \in Nat

VARIABLES
    visit,       \* the number of the current or last visit to the page
    step,        \* currentStep, or "closed" when the page is not mounted
    data,        \* checkoutData
    form,        \* the state of the mounted AddressStep
    method,      \* the state of the mounted PaymentMethodStep
    customer,    \* the cached customer record
    ensure,      \* the mutation useEnsureCustomer of this visit
    book,        \* the saved addresses in the Customers service
    saved,       \* the saved addresses in the cached customer record
    saving,      \* visits and addresses being saved
    deleting,    \* the deletions under way: a number and an address each
    orders       \* the order requests sent, and what became of them

pageVars     == <<visit, step, data, form, method>>
customerVars == <<customer, ensure, book, saved>>
checkoutVars == <<pageVars, customerVars, saving, deleting, orders>>

Drafts == Addresses \cup {Incomplete}

Deletions == (1..MaxDeletions) \X Addresses

Form == [view : {"select", "form"}, selected : Addresses \cup {Nothing},
         editing : BOOLEAN, draft : Drafts, saveForLater : BOOLEAN,
         toDelete : Addresses \cup {Nothing}, awaits : SUBSET (1..MaxDeletions)]

\* OrderRequest, and what the page knows of its answer.
Orders == [id : Nat, visit : Nat, address : Addresses,
           phase : {"sent", "accepted", "failed"}]

CheckoutTypeOK ==
    /\ visit \in Nat
    /\ step \in {"closed", "address", "payment", "confirmation"}
    /\ data \in [address : Addresses \cup {Nothing}, method : Methods \cup {Nothing}]
    /\ form \in Form
    /\ method \in Methods
    /\ customer \in {"loading", "absent", "known"}
    /\ ensure \in {"idle", "pending", "done", "failed"}
    /\ book \subseteq Addresses
    /\ saved \subseteq Addresses
    /\ saving \subseteq Nat \X Addresses
    /\ deleting \subseteq Deletions
    /\ orders \subseteq Orders

---------------------------------------------------------------------------
(* Mounting a step sets its state from the page's. *)

MountedForm(d, list) ==
    [view |-> IF list # {} THEN "select" ELSE "form", selected |-> Nothing,
     editing |-> FALSE, draft |-> IF d.address = Nothing THEN Incomplete ELSE d.address,
     saveForLater |-> FALSE, toDelete |-> Nothing, awaits |-> {}]

DefaultMethod == CHOOSE m \in EnabledMethods : TRUE
MountedMethod(d) == IF d.method = Nothing THEN DefaultMethod ELSE d.method

NoData == [address |-> Nothing, method |-> Nothing]

\* An unmounted step has no state.
NoForm == MountedForm(NoData, {})

CheckoutInit ==
    /\ visit = 0 /\ step = "closed" /\ data = NoData
    /\ form = NoForm /\ method = DefaultMethod
    /\ customer = "loading" /\ ensure = "idle"
    /\ book \in SUBSET Addresses /\ saved = {}
    /\ saving = {} /\ deleting = {} /\ orders = {}

\* The customer's record and the basket are loaded before a step is shown.
StepShown(s) == step = s /\ customer # "loading"

\* The delete dialog covers the page while it is open.
AddressShown == StepShown("address") /\ form.toDelete = Nothing
SelectorShown == AddressShown /\ form.view = "select"
FormShown == AddressShown /\ form.view = "form"

\* isFormDisabled: the inputs of the form.
FormDisabled == form.selected # Nothing /\ ~form.editing

---------------------------------------------------------------------------
(* Opening and leaving the page, and the customer's record. *)

OpenCheckout ==
    /\ step = "closed" /\ visit < MaxVisits
    /\ visit' = visit + 1 /\ step' = "address" /\ data' = NoData
    /\ form' = MountedForm(NoData, saved)
    /\ ensure' = IF customer = "absent" THEN "pending" ELSE "idle"
    /\ UNCHANGED <<method, customer, book, saved, saving, deleting, orders>>

LeaveCheckout ==
    /\ step # "closed" /\ step' = "closed"
    /\ form' = NoForm /\ method' = DefaultMethod
    /\ UNCHANGED <<visit, data, customerVars, saving, deleting, orders>>

\* The first answer mounts the step; the effect then asks for a customer if
\* there is none.
CustomerLoaded ==
    /\ customer = "loading" /\ step # "closed"
    /\ customer' \in IF book = {} THEN {"known", "absent"} ELSE {"known"}
    /\ ensure' = IF customer' = "absent" THEN "pending" ELSE "idle"
    /\ saved' = book
    /\ form' = MountedForm(data, book)
    /\ UNCHANGED <<visit, step, data, method, book, saving, deleting, orders>>

\* The refetch after a mutation's onSuccess, which nothing waits for.
CustomerRefetched ==
    /\ \/ customer = "known" /\ saved # book
       \/ customer = "absent" /\ ensure = "done"
    /\ customer' = "known" /\ saved' = book
    /\ UNCHANGED <<pageVars, ensure, book, saving, deleting, orders>>

\* The mutation that looks the customer up once more and creates it.  After a
\* failure nothing calls it again until the page is opened anew.
EnsureAnswered ==
    /\ ensure = "pending" /\ ensure' \in {"done", "failed"}
    /\ UNCHANGED <<pageVars, customer, book, saved, saving, deleting, orders>>

---------------------------------------------------------------------------
(* The address step. *)

Local == UNCHANGED <<visit, step, data, method, customerVars, saving, deleting, orders>>

SelectSaved(a) ==
    /\ SelectorShown /\ a \in saved
    /\ form' = [form EXCEPT !.selected = a, !.draft = a]
    /\ Local

EditSaved(a) ==
    /\ SelectorShown /\ a \in saved /\ form.selected = a
    /\ form' = [form EXCEPT !.draft = a, !.editing = TRUE, !.view = "form"]
    /\ Local

\* Mutant: the selection is kept.
AddNewSelected ==
    /\ SelectorShown
    /\ form' = [form EXCEPT !.editing = FALSE, !.draft = Incomplete, !.view = "form"]
    /\ Local

AddNew ==
    /\ SelectorShown
    /\ form' = [form EXCEPT !.selected = Nothing, !.editing = FALSE,
                            !.draft = Incomplete, !.view = "form"]
    /\ Local

BackToSaved ==
    /\ FormShown /\ saved # {}
    /\ form' = [form EXCEPT !.view = "select"]
    /\ Local

Type(a) ==
    /\ FormShown /\ ~FormDisabled
    /\ form' = [form EXCEPT !.draft = a]
    /\ Local

TickSave ==
    /\ FormShown /\ ~form.editing
    /\ form' = [form EXCEPT !.saveForLater = ~@]
    /\ Local

AskDelete(a) ==
    /\ SelectorShown /\ a \in saved /\ form.selected = a
    /\ form' = [form EXCEPT !.toDelete = a]
    /\ Local

CancelDelete ==
    /\ StepShown("address") /\ form.toDelete # Nothing
    /\ form' = [form EXCEPT !.toDelete = Nothing]
    /\ Local

\* The Delete button of the dialog, which stays open and can be clicked again.
ConfirmDelete(n) ==
    /\ StepShown("address") /\ form.toDelete # Nothing /\ \A d \in deleting : d[1] # n
    /\ deleting' = deleting \cup {<<n, form.toDelete>>}
    /\ form' = [form EXCEPT !.awaits = @ \cup {n}]
    /\ UNCHANGED <<visit, step, data, method, customerVars, saving, orders>>

\* confirmDelete after its await.  It compares the deleted address with the
\* selection of the moment of the click, which was that address, and so clears
\* whatever has been selected or typed since; a failure closes the dialog only,
\* whichever address it asks about by now.  A step mounted since then awaits
\* nothing.
DeleteAnswered(d) ==
    /\ d \in deleting
    /\ deleting' = deleting \ {d}
    /\ \E done \in BOOLEAN :
          /\ book' = IF done THEN book \ {d[2]} ELSE book
          /\ form' = IF d[1] \notin form.awaits THEN form
                     ELSE [form EXCEPT !.toDelete = Nothing, !.awaits = @ \ {d[1]},
                             !.selected = IF done THEN Nothing ELSE @,
                             !.draft = IF done THEN Incomplete ELSE @]
    /\ UNCHANGED <<visit, step, data, method, customer, ensure, saved, saving, orders>>

\* handleSubmit: a selected address goes as it is saved, anything else as it
\* stands in the form, if every required field is there.
Submitted == IF form.selected # Nothing /\ ~form.editing THEN form.selected ELSE form.draft
AsksToSave == form.saveForLater /\ ~(form.selected # Nothing /\ ~form.editing)

\* onNext is handleAddressSubmit: it keeps the address and, when it is to be
\* saved, stays on the step until the service has answered.
SubmitAddress ==
    /\ AddressShown /\ (form.view = "form" \/ form.selected # Nothing)
    /\ Submitted \in Addresses
    /\ data' = [data EXCEPT !.address = Submitted]
    /\ IF AsksToSave
         THEN /\ saving' = saving \cup {<<visit, Submitted>>}
              /\ UNCHANGED <<step, form, method>>
         ELSE /\ step' = "payment" /\ form' = NoForm /\ method' = MountedMethod(data)
              /\ UNCHANGED saving
    /\ UNCHANGED <<visit, customerVars, deleting, orders>>

\* Mutant: the answer of an earlier visit moves this one.
MovesAnyPage(s) == step # "closed"

\* The answer belongs to the page that is mounted.
MovesPage(s) == step # "closed" /\ s[1] = visit

\* Whether the address was saved or not, the page moves to the payment step,
\* wherever it is by now.
SaveAnswered(s) ==
    /\ s \in saving
    /\ saving' = saving \ {s}
    /\ \/ book' = book \cup {s[2]}
       \/ UNCHANGED book
    /\ IF MovesPage(s)
         THEN /\ step' = "payment" /\ form' = NoForm
              /\ method' = IF step = "payment" THEN method ELSE MountedMethod(data)
         ELSE UNCHANGED <<step, form, method>>
    /\ UNCHANGED <<visit, data, customer, ensure, saved, deleting, orders>>

---------------------------------------------------------------------------
(* The payment and the confirmation steps. *)

ChooseMethod(m) ==
    /\ StepShown("payment") /\ m \in EnabledMethods
    /\ method' = m
    /\ UNCHANGED <<visit, step, data, form, customerVars, saving, deleting, orders>>

SubmitMethod ==
    /\ StepShown("payment") /\ method \in EnabledMethods
    /\ data' = [data EXCEPT !.method = method]
    /\ step' = "confirmation" /\ method' = DefaultMethod
    /\ UNCHANGED <<visit, form, customerVars, saving, deleting, orders>>

BackToAddress ==
    /\ StepShown("payment")
    /\ step' = "address" /\ form' = MountedForm(data, saved) /\ method' = DefaultMethod
    /\ UNCHANGED <<visit, data, customerVars, saving, deleting, orders>>

\* Both Edit links of the review and its Back button; the links are not
\* disabled while the order is on its way.
BackToPayment ==
    /\ StepShown("confirmation")
    /\ step' = "payment" /\ method' = MountedMethod(data)
    /\ UNCHANGED <<visit, data, form, customerVars, saving, deleting, orders>>

\* placeOrder.isPending: the mutation belongs to the page, not to the step.
IsProcessing == \E o \in orders : o.visit = visit /\ o.phase = "sent"

\* Mutant: the button does not wait for the answer.
MayConfirmAgain == StepShown("confirmation") /\ data.address # Nothing

\* The Place Order button.
MayConfirm == StepShown("confirmation") /\ data.address # Nothing /\ ~IsProcessing

\* handlePlaceOrder does nothing as long as there is no customer.
CustomerKnown == customer = "known" \/ ensure = "done"

PlaceOrder ==
    /\ MayConfirm /\ CustomerKnown /\ Cardinality(orders) < MaxOrders
    /\ orders' = orders \cup {[id |-> Cardinality(orders), visit |-> visit,
                               address |-> data.address, phase |-> "sent"]}
    /\ UNCHANGED <<pageVars, customerVars, saving, deleting>>

OrderAnswered(o, phase) == (orders \ {o}) \cup {[o EXCEPT !.phase = phase]}

\* navigate to the order's page, even when the customer has left this one.
OrderAccepted(o) ==
    /\ o \in orders /\ o.phase = "sent"
    /\ orders' = OrderAnswered(o, "accepted")
    /\ step' = "closed" /\ form' = NoForm /\ method' = DefaultMethod
    /\ UNCHANGED <<visit, data, customerVars, saving, deleting>>

\* The review shows the error; the order may have been recorded all the same.
OrderFailed(o) ==
    /\ o \in orders /\ o.phase = "sent"
    /\ orders' = OrderAnswered(o, "failed")
    /\ UNCHANGED <<pageVars, customerVars, saving, deleting>>

---------------------------------------------------------------------------
CheckoutNext ==
    \/ OpenCheckout \/ LeaveCheckout \/ CustomerLoaded \/ CustomerRefetched \/ EnsureAnswered
    \/ \E a \in Addresses : SelectSaved(a) \/ EditSaved(a) \/ AskDelete(a)
    \/ \E a \in Drafts : Type(a)
    \/ AddNew \/ BackToSaved \/ TickSave \/ CancelDelete
    \/ \E n \in 1..MaxDeletions : ConfirmDelete(n)
    \/ \E d \in deleting : DeleteAnswered(d)
    \/ SubmitAddress \/ \E s \in saving : SaveAnswered(s)
    \/ \E m \in Methods : ChooseMethod(m)
    \/ SubmitMethod \/ BackToAddress \/ BackToPayment
    \/ PlaceOrder \/ \E o \in orders : OrderAccepted(o) \/ OrderFailed(o)

CheckoutSpec == CheckoutInit /\ [][CheckoutNext]_checkoutVars

---------------------------------------------------------------------------
(* Properties. *)

\* One visit never has two orders of which neither has failed: the pending
\* flag outlives the review step, so that Edit, a change and Confirm cannot
\* send the order again while the first is on its way (CheckoutPage.tsx).
OneLiveOrderPerVisit ==
    \A o, p \in orders : o # p /\ o.visit = p.visit => "failed" \in {o.phase, p.phase}

\* However the customer came to the form, by a new address or by editing a
\* saved one, with deletions and refetches in between, the form on screen can
\* be filled in: isFormDisabled is never true of it (AddressStep.tsx).
FormNeverLocked == StepShown("address") /\ form.view = "form" => ~FormDisabled

\* The step on screen has what it shows: a save answered late moves the page,
\* but never to a step whose address or method is missing (CheckoutPage.tsx).
StepHasItsData ==
    /\ step \in {"payment", "confirmation"} => data.address \in Addresses
    /\ step = "confirmation" => data.method \in EnabledMethods
=============================================================================
