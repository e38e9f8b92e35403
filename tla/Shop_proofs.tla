------------------------------ MODULE Shop_proofs ------------------------------
(***************************************************************************)
(* Theorems about the shop's checkout, basket and order page, for any      *)
(* addresses, methods, visits, orders, products, requests and failures,    *)
(* and any capacity of the stream.                                         *)
(*                                                                         *)
(* Checkout: what a late answer finds is told by the number of the visit   *)
(* it belongs to.  Orders and saves are of this visit or an earlier one; a *)
(* save of this visit was preceded by the choice of its address; and an    *)
(* accepted order of this visit has closed the page.                       *)
(*                                                                         *)
(* ShopBasket: a copy of the record, wherever it is, is bounded by the     *)
(* adds stored so far, which only grow; a request that stores its copy     *)
(* with one unit more has counted that add.                                *)
(*                                                                         *)
(* OrderTracking: the order on the page is never ahead of the stored one,  *)
(* and the answer that may replace it was read at or after the moment the  *)
(* one on the page was, because of the fetches under way at most one is    *)
(* current and any other is older than it.                                 *)
(***************************************************************************)
EXTENDS Checkout, ShopBasket, OrderTracking, FiniteSetTheorems, TLAPS

---------------------------------------------------------------------------
(* Checkout. *)

USE CheckoutAssumption

(* The form is only entered with nothing selected, or to edit it.          *)
FormOpen == form.view = "form" => ~FormDisabled

(* Saves are of visits that have begun, and this visit's have an address.  *)
SavesAreKnown ==
  \A s \in saving : s[1] <= visit /\ (s[1] = visit => data.address \in Addresses)

(* Orders are of visits that have begun; an accepted one closed its page.  *)
OrdersArePast ==
  \A o \in orders : /\ o.visit <= visit
                    /\ step # "closed" /\ o.visit = visit => o.phase # "accepted"

CheckoutInv ==
  /\ CheckoutTypeOK /\ IsFiniteSet(orders) /\ FormOpen /\ SavesAreKnown /\ StepHasItsData
  /\ OrdersArePast /\ OneLiveOrderPerVisit

(* The step's state when it is mounted is well-formed and can be used.     *)
LEMMA Mounting ==
  ASSUME NEW d \in [address : Addresses \cup {Nothing}, method : Methods \cup {Nothing}],
         NEW list
  PROVE  /\ MountedForm(d, list) \in Form
         /\ MountedForm(d, list).selected = Nothing
         /\ MountedMethod(d) \in Methods /\ DefaultMethod \in EnabledMethods
  BY DEF MountedForm, Form, Drafts, MountedMethod, DefaultMethod

(* Before the first visit the state is well-formed and empty.              *)
LEMMA NothingMounted ==
  /\ NoData \in [address : Addresses \cup {Nothing}, method : Methods \cup {Nothing}]
  /\ NoForm \in Form /\ NoForm.selected = Nothing
  /\ DefaultMethod \in Methods /\ DefaultMethod \in EnabledMethods
  BY Mounting DEF NoData, NoForm

(* What the steps of the form do to its state.                             *)
LEMMA FormSteps ==
  ASSUME CheckoutTypeOK, FormOpen,
         \/ \E a \in Addresses : SelectSaved(a) \/ EditSaved(a) \/ AskDelete(a)
         \/ \E a \in Drafts : Type(a)
         \/ AddNew \/ BackToSaved \/ TickSave \/ CancelDelete
         \/ \E n \in 1..MaxDeletions : ConfirmDelete(n)
         \/ \E d \in deleting : DeleteAnswered(d)
  PROVE  form' \in Form /\ FormOpen'
  <1> USE DEF CheckoutTypeOK, FormOpen, FormDisabled, Form, Drafts, Local, SelectorShown,
              FormShown, AddressShown, StepShown
  <1>1. ASSUME NEW a \in Addresses, SelectSaved(a) \/ EditSaved(a) \/ AskDelete(a)
        PROVE  form' \in Form /\ FormOpen'
    BY <1>1 DEF SelectSaved, EditSaved, AskDelete
  <1>2. ASSUME NEW a \in Drafts, Type(a)
        PROVE  form' \in Form /\ FormOpen'
    BY <1>2 DEF Type
  <1>3. CASE AddNew \/ BackToSaved
    BY <1>3 DEF AddNew, BackToSaved
  <1>4. CASE TickSave
    <2>1. form' = [form EXCEPT !.saveForLater = ~@]
      BY <1>4 DEF TickSave
    <2>2. (~form.saveForLater) \in BOOLEAN
      OBVIOUS
    <2> QED BY <2>1, <2>2
  <1>5. ASSUME CancelDelete \/ \E n \in 1..MaxDeletions : ConfirmDelete(n)
        PROVE  form' \in Form /\ FormOpen'
    BY <1>5 DEF CancelDelete, ConfirmDelete
  <1>6. ASSUME NEW d \in deleting, DeleteAnswered(d)
        PROVE  form' \in Form /\ FormOpen'
    <2>1. PICK done \in BOOLEAN :
            form' = IF d[1] \notin form.awaits THEN form
                    ELSE [form EXCEPT !.toDelete = Nothing, !.awaits = @ \ {d[1]},
                            !.selected = IF done THEN Nothing ELSE @,
                            !.draft = IF done THEN Incomplete ELSE @]
      BY <1>6 DEF DeleteAnswered
    <2> QED BY <2>1
  <1> QED BY <1>1, <1>2, <1>3, <1>4, <1>5, <1>6

(* An order answered is the same order in another phase.                   *)
LEMMA Answering ==
  ASSUME CheckoutInv, NEW o \in orders, o.phase = "sent", NEW phase \in {"accepted", "failed"},
         orders' = OrderAnswered(o, phase)
  PROVE  /\ orders' \subseteq Orders /\ IsFiniteSet(orders') /\ OneLiveOrderPerVisit'
         /\ \A p \in orders' : \/ p \in orders
                               \/ p.visit = o.visit /\ p.phase = phase
  <1> DEFINE answered == [o EXCEPT !.phase = phase]
  <1>1. /\ answered \in Orders /\ answered.visit = o.visit /\ answered.phase = phase
        /\ orders' = (orders \ {o}) \cup {answered}
    BY DEF CheckoutInv, CheckoutTypeOK, Orders, OrderAnswered
  <1>2. IsFiniteSet(orders')
    <2>1. IsFiniteSet(orders \ {o})
      BY FS_RemoveElement DEF CheckoutInv
    <2>2. IsFiniteSet((orders \ {o}) \cup {answered})
      BY <2>1, FS_AddElement, Zenon
    <2> QED BY <1>1, <2>2
  <1>3. OneLiveOrderPerVisit'
    BY <1>1 DEF CheckoutInv, OneLiveOrderPerVisit
  <1> QED BY <1>1, <1>2, <1>3 DEF CheckoutInv, CheckoutTypeOK

(* The inductive invariant.                                                *)
THEOREM CheckoutInvariance == CheckoutSpec => []CheckoutInv
<1>1. CheckoutInit => CheckoutInv
  <2> SUFFICES ASSUME CheckoutInit PROVE CheckoutInv
    OBVIOUS
  <2>1. IsFiniteSet(orders)
    BY FS_EmptySet DEF CheckoutInit
  <2> QED
    BY <2>1, NothingMounted DEF CheckoutInit, CheckoutInv, CheckoutTypeOK, FormOpen, FormDisabled,
       SavesAreKnown, StepHasItsData, OrdersArePast, OneLiveOrderPerVisit
<1>2. CheckoutInv /\ [CheckoutNext]_checkoutVars => CheckoutInv'
  <2> SUFFICES ASSUME CheckoutInv, [CheckoutNext]_checkoutVars
               PROVE  CheckoutInv'
    OBVIOUS
  <2> USE DEF CheckoutInv
  <2>1. CASE OpenCheckout
    <3>1. MountedForm(NoData, saved) \in Form /\ MountedForm(NoData, saved).selected = Nothing
      BY Mounting, NothingMounted
    <3>2. CheckoutTypeOK' /\ FormOpen' /\ IsFiniteSet(orders')
      BY <2>1, <3>1, NothingMounted DEF OpenCheckout, CheckoutTypeOK, FormOpen, FormDisabled
    <3>3. SavesAreKnown' /\ OrdersArePast'
      BY <2>1 DEF OpenCheckout, CheckoutTypeOK, SavesAreKnown, OrdersArePast, Orders
    <3>4. StepHasItsData' /\ OneLiveOrderPerVisit'
      BY <2>1 DEF OpenCheckout, StepHasItsData, OneLiveOrderPerVisit
    <3> QED BY <3>2, <3>3, <3>4
  <2>2. CASE LeaveCheckout
    BY <2>2, NothingMounted DEF LeaveCheckout, customerVars, CheckoutTypeOK, FormOpen, FormDisabled,
       SavesAreKnown, StepHasItsData, OrdersArePast, OneLiveOrderPerVisit
  <2>3. CASE CustomerLoaded
    <3>1. MountedForm(data, book) \in Form /\ MountedForm(data, book).selected = Nothing
      BY Mounting DEF CheckoutTypeOK
    <3>2. CheckoutTypeOK' /\ FormOpen' /\ IsFiniteSet(orders')
      BY <2>3, <3>1 DEF CustomerLoaded, CheckoutTypeOK, FormOpen, FormDisabled
    <3> QED
      BY <2>3, <3>2 DEF CustomerLoaded, SavesAreKnown, StepHasItsData, OrdersArePast,
         OneLiveOrderPerVisit
  <2>4. CASE CustomerRefetched \/ EnsureAnswered
    BY <2>4 DEF CustomerRefetched, EnsureAnswered, pageVars, CheckoutTypeOK, FormOpen, FormDisabled,
       SavesAreKnown, StepHasItsData, OrdersArePast, OneLiveOrderPerVisit
  <2>5. CASE \/ \E a \in Addresses : SelectSaved(a) \/ EditSaved(a) \/ AskDelete(a)
             \/ \E a \in Drafts : Type(a)
             \/ AddNew \/ BackToSaved \/ TickSave \/ CancelDelete
             \/ \E n \in 1..MaxDeletions : ConfirmDelete(n)
             \/ \E d \in deleting : DeleteAnswered(d)
    <3>1. form' \in Form /\ FormOpen'
      BY <2>5, FormSteps
    <3>2. UNCHANGED <<visit, step, data, method, customer, ensure, saved, saving, orders>>
      BY <2>5 DEF SelectSaved, EditSaved, AskDelete, Type, AddNew, BackToSaved, TickSave,
         CancelDelete, ConfirmDelete, DeleteAnswered, Local, customerVars
    <3>3. book' \subseteq Addresses /\ deleting' \subseteq Deletions
      <4>1. /\ book \subseteq Addresses /\ deleting \subseteq Deletions
            /\ form.toDelete \in Addresses \cup {Nothing}
        BY DEF CheckoutTypeOK, Form
      <4>2. ASSUME NEW n \in 1..MaxDeletions, ConfirmDelete(n)
            PROVE  book' \subseteq Addresses /\ deleting' \subseteq Deletions
        <5>1. book' = book /\ deleting' = deleting \cup {<<n, form.toDelete>>}
              /\ form.toDelete \in Addresses
          BY <4>1, <4>2 DEF ConfirmDelete, customerVars
        <5> QED BY <4>1, <5>1 DEF Deletions
      <4>3. ASSUME NEW d \in deleting, DeleteAnswered(d)
            PROVE  book' \subseteq Addresses /\ deleting' \subseteq Deletions
        BY <4>1, <4>3 DEF DeleteAnswered
      <4> QED
        BY <2>5, <4>1, <4>2, <4>3 DEF SelectSaved, EditSaved, AskDelete, Type, AddNew,
           BackToSaved, TickSave, CancelDelete, Local, customerVars
    <3>4. CheckoutTypeOK' /\ IsFiniteSet(orders')
      BY <3>1, <3>2, <3>3 DEF CheckoutTypeOK
    <3> QED
      BY <3>1, <3>2, <3>4 DEF SavesAreKnown, StepHasItsData, OrdersArePast, OneLiveOrderPerVisit
  <2>6. CASE SubmitAddress
    <3>1. /\ visit' = visit /\ data'.address \in Addresses /\ step # "closed"
          /\ data' \in [address : Addresses \cup {Nothing}, method : Methods \cup {Nothing}]
          /\ UNCHANGED <<customer, ensure, book, saved, deleting, orders>>
      BY <2>6 DEF SubmitAddress, AddressShown, StepShown, customerVars, CheckoutTypeOK
    <3>2. \/ /\ saving' = saving \cup {<<visit, Submitted>>}
             /\ UNCHANGED <<step, form, method>>
          \/ /\ step' = "payment" /\ form' = NoForm /\ method' = MountedMethod(data)
             /\ saving' = saving
      BY <2>6 DEF SubmitAddress
    <3>3. MountedMethod(data) \in Methods /\ Submitted \in Addresses /\ step = "address"
      BY <2>6, Mounting DEF CheckoutTypeOK, SubmitAddress, AddressShown, StepShown
    <3>4. CheckoutTypeOK' /\ FormOpen' /\ IsFiniteSet(orders')
      BY <3>1, <3>2, <3>3, NothingMounted DEF CheckoutTypeOK, FormOpen, FormDisabled
    <3>5. SavesAreKnown'
      BY <3>1, <3>2 DEF SavesAreKnown, CheckoutTypeOK
    <3>6. StepHasItsData'
      BY <3>1, <3>2, <3>3 DEF StepHasItsData
    <3>7. OrdersArePast' /\ OneLiveOrderPerVisit'
      BY <3>1, <3>2 DEF OrdersArePast, OneLiveOrderPerVisit
    <3> QED BY <3>4, <3>5, <3>6, <3>7
  <2>7. ASSUME NEW s \in saving, SaveAnswered(s)
        PROVE  CheckoutInv'
    <3>1. /\ saving' = saving \ {s}
          /\ UNCHANGED <<visit, data, customer, ensure, saved, deleting, orders>>
          /\ s \in Nat \X Addresses
      BY <2>7 DEF SaveAnswered, CheckoutTypeOK
    <3>2. \/ UNCHANGED <<step, form, method>>
          \/ /\ step # "closed" /\ s[1] = visit
             /\ step' = "payment" /\ form' = NoForm
             /\ method' \in {method, MountedMethod(data)}
      BY <2>7 DEF SaveAnswered, MovesPage
    <3>3. book' \subseteq Addresses
      BY <2>7, <3>1 DEF SaveAnswered, CheckoutTypeOK
    <3>4. MountedMethod(data) \in Methods
      BY Mounting DEF CheckoutTypeOK
    <3>5. CheckoutTypeOK' /\ FormOpen' /\ IsFiniteSet(orders')
      BY <3>1, <3>2, <3>3, <3>4, NothingMounted DEF CheckoutTypeOK, FormOpen, FormDisabled
    <3>6. SavesAreKnown' /\ StepHasItsData'
      BY <3>1, <3>2 DEF SavesAreKnown, StepHasItsData
    <3>7. OrdersArePast' /\ OneLiveOrderPerVisit'
      BY <3>1, <3>2 DEF OrdersArePast, OneLiveOrderPerVisit
    <3> QED BY <3>5, <3>6, <3>7
  <2>8. CASE (\E m \in Methods : ChooseMethod(m)) \/ SubmitMethod \/ BackToAddress \/ BackToPayment
    <3>1. /\ UNCHANGED <<visit, customer, ensure, book, saved, saving, deleting, orders>>
          /\ data'.address = data.address /\ step # "closed" /\ step \in {"payment", "confirmation"}
          /\ data' \in [address : Addresses \cup {Nothing}, method : Methods \cup {Nothing}]
      BY <2>8 DEF ChooseMethod, SubmitMethod, BackToAddress, BackToPayment, StepShown,
         customerVars, CheckoutTypeOK
    <3>2. /\ MountedMethod(data) \in Methods /\ MountedForm(data, saved) \in Form
          /\ MountedForm(data, saved).selected = Nothing
      BY Mounting DEF CheckoutTypeOK
    <3>3. CheckoutTypeOK' /\ FormOpen' /\ IsFiniteSet(orders')
      BY <2>8, <3>1, <3>2, NothingMounted DEF ChooseMethod, SubmitMethod, BackToAddress,
         BackToPayment, CheckoutTypeOK, FormOpen, FormDisabled
    <3>4. StepHasItsData'
      BY <2>8, <3>1 DEF ChooseMethod, SubmitMethod, BackToAddress, BackToPayment, StepShown,
         StepHasItsData, CheckoutTypeOK
    <3>5. SavesAreKnown' /\ OrdersArePast' /\ OneLiveOrderPerVisit'
      BY <3>1 DEF SavesAreKnown, OrdersArePast, OneLiveOrderPerVisit
    <3> QED BY <3>3, <3>4, <3>5
  <2>9. CASE PlaceOrder
    <3> DEFINE new == [id |-> Cardinality(orders), visit |-> visit,
                       address |-> data.address, phase |-> "sent"]
    <3>1. /\ orders' = orders \cup {new} /\ step # "closed" /\ data.address # Nothing
          /\ UNCHANGED <<visit, step, data, form, method, customer, ensure, book, saved,
                         saving, deleting>>
          /\ \A o \in orders : o.visit = visit => o.phase # "sent"
      BY <2>9 DEF PlaceOrder, MayConfirm, IsProcessing, StepShown, pageVars, customerVars
    <3>2. Cardinality(orders) \in Nat /\ IsFiniteSet(orders')
      BY <3>1, FS_CardinalityType, FS_AddElement, Zenon
    <3>3. new \in Orders
      BY <3>1, <3>2 DEF Orders, CheckoutTypeOK
    <3>4. \A o \in orders : o.visit = visit => o.phase = "failed"
      BY <3>1 DEF OrdersArePast, CheckoutTypeOK, Orders
    <3>5. OneLiveOrderPerVisit' /\ OrdersArePast'
      BY <3>1, <3>4 DEF OneLiveOrderPerVisit, OrdersArePast, CheckoutTypeOK
    <3>6. CheckoutTypeOK'
      BY <3>1, <3>3 DEF CheckoutTypeOK
    <3>7. FormOpen' /\ SavesAreKnown' /\ StepHasItsData'
      BY <3>1 DEF FormOpen, FormDisabled, SavesAreKnown, StepHasItsData
    <3> QED BY <3>2, <3>5, <3>6, <3>7
  <2>10. ASSUME NEW o \in orders, OrderAccepted(o)
         PROVE  CheckoutInv'
    <3>1. /\ orders' \subseteq Orders /\ IsFiniteSet(orders') /\ OneLiveOrderPerVisit'
          /\ \A p \in orders' : p \in orders \/ (p.visit = o.visit /\ p.phase = "accepted")
      BY <2>10, Answering DEF OrderAccepted
    <3>2. CheckoutTypeOK' /\ FormOpen' /\ SavesAreKnown' /\ StepHasItsData'
      BY <2>10, <3>1, NothingMounted DEF OrderAccepted, customerVars, CheckoutTypeOK, FormOpen,
         FormDisabled, SavesAreKnown, StepHasItsData
    <3>3. OrdersArePast'
      BY <2>10, <3>1 DEF OrderAccepted, OrdersArePast
    <3> QED BY <3>1, <3>2, <3>3
  <2>11. ASSUME NEW o \in orders, OrderFailed(o)
         PROVE  CheckoutInv'
    <3>1. /\ orders' \subseteq Orders /\ IsFiniteSet(orders') /\ OneLiveOrderPerVisit'
          /\ \A p \in orders' : p \in orders \/ (p.visit = o.visit /\ p.phase = "failed")
      BY <2>11, Answering DEF OrderFailed
    <3>2. CheckoutTypeOK' /\ FormOpen' /\ SavesAreKnown' /\ StepHasItsData'
      BY <2>11, <3>1 DEF OrderFailed, pageVars, customerVars, CheckoutTypeOK, FormOpen,
         FormDisabled, SavesAreKnown, StepHasItsData
    <3>3. OrdersArePast'
      BY <2>11, <3>1 DEF OrderFailed, pageVars, OrdersArePast
    <3> QED BY <3>1, <3>2, <3>3
  <2>12. CASE UNCHANGED checkoutVars
    BY <2>12 DEF checkoutVars, pageVars, customerVars, CheckoutTypeOK, FormOpen, FormDisabled,
       SavesAreKnown, StepHasItsData, OrdersArePast, OneLiveOrderPerVisit
  <2> QED
    BY <2>1, <2>2, <2>3, <2>4, <2>5, <2>6, <2>7, <2>8, <2>9, <2>10, <2>11, <2>12
       DEF CheckoutNext
<1> QED BY <1>1, <1>2, PTL DEF CheckoutSpec

(* One visit never has two orders of which neither has failed, for any     *)
(* number of visits, orders and answers under way.                         *)
THEOREM OrderedOnce == CheckoutSpec => []OneLiveOrderPerVisit
<1>1. CheckoutInv => OneLiveOrderPerVisit
  BY DEF CheckoutInv
<1> QED BY <1>1, CheckoutInvariance, PTL

(* The form on screen can always be filled in.                             *)
THEOREM FormStaysOpen == CheckoutSpec => []FormNeverLocked
<1>1. CheckoutInv => FormNeverLocked
  BY DEF CheckoutInv, FormOpen, FormNeverLocked
<1> QED BY <1>1, CheckoutInvariance, PTL

(* The step on screen has the address and the method it shows.             *)
THEOREM StepsHaveTheirData == CheckoutSpec => []StepHasItsData
<1>1. CheckoutInv => StepHasItsData
  BY DEF CheckoutInv
<1> QED BY <1>1, CheckoutInvariance, PTL

---------------------------------------------------------------------------
(* ShopBasket. *)

USE BasketAssumption

(* b holds no more units of a product than adds were stored.               *)
Covered(b) == \A p \in Products : Units(b, p) <= added[p]

BasketInv ==
  /\ BasketTypeOK
  /\ Covered(stored)
  /\ \A r \in requests : Covered(r.seen)

(* The units of a record are numbers, and an absent record has none.       *)
LEMMA UnitsOfRecord ==
  ASSUME NEW b \in Basket \cup {NoBasket}, NEW p \in Products
  PROVE  Units(b, p) \in Nat
  BY DEF Units, Basket

(* What storing an add or a removal does to the copy of the record.        *)
LEMMA OneMore ==
  ASSUME NEW b \in Basket \cup {NoBasket}, NEW p \in Products
  PROVE  /\ WithOneMore(b, p) \in Basket
         /\ \A q \in Products : Units(WithOneMore(b, p), q) = Units(b, q) + (IF q = p THEN 1 ELSE 0)
  <1>1. \A q \in Products : Units(b, q) \in Nat
    BY UnitsOfRecord
  <1>2. WithOneMore(b, p) \in Basket
    BY <1>1 DEF WithOneMore, Basket
  <1>3. WithOneMore(b, p) # NoBasket
    BY <1>2 DEF Basket
  <1>4. \A q \in Products : WithOneMore(b, p)[q] = Units(b, q) + (IF q = p THEN 1 ELSE 0)
    BY DEF WithOneMore
  <1> QED
    BY <1>2, <1>3, <1>4 DEF Units

(* The last unit taken out leaves none.                                   *)
LEMMA OneLess ==
  ASSUME NEW b \in Basket \cup {NoBasket}, NEW p \in Products, Units(b, p) > 0
  PROVE  /\ WithOneLess(b, p) \in Basket
         /\ \A q \in Products : Units(WithOneLess(b, p), q) <= Units(b, q)
  <1>1. \A q \in Products : Units(b, q) \in Nat
    BY UnitsOfRecord
  <1>2. WithOneLess(b, p) \in Basket
    BY <1>1 DEF WithOneLess, Basket
  <1>3. WithOneLess(b, p) # NoBasket
    BY <1>2 DEF Basket
  <1>4. \A q \in Products : WithOneLess(b, p)[q] = Units(b, q) - (IF q = p THEN 1 ELSE 0)
    BY DEF WithOneLess
  <1> QED
    BY <1>1, <1>2, <1>3, <1>4 DEF Units

(* The fetches the browser makes are well-formed.                          *)
LEMMA FetchesMade ==
  /\ IdleFetch \in Fetch /\ NewCartFetch \in Fetch
  /\ [NewCartFetch EXCEPT !.retried = TRUE] \in Fetch
  /\ BasketTypeOK => CartInvalidated \in Fetch
  BY DEF IdleFetch, NewCartFetch, Fetch, CartInvalidated, BasketTypeOK

(* A request in another phase, with the same copy of the record or a new   *)
(* one, is one of the requests and covered if its copy is.                 *)
LEMMA RequestMoves ==
  ASSUME BasketInv, NEW r \in requests, NEW s \in CartRequests, Covered(s.seen),
         requests' = Replaced(r, s)
  PROVE  requests' \subseteq CartRequests /\ \A q \in requests' : Covered(q.seen)
  BY DEF Replaced, BasketInv, BasketTypeOK

(* What a request is when it has read, stored or been refused.             *)
LEMMA RequestPhases ==
  ASSUME NEW r \in CartRequests, NEW seen \in Basket \cup {NoBasket}, NEW n \in Nat
  PROVE  /\ [r EXCEPT !.phase = "read", !.seen = seen] \in CartRequests
         /\ [r EXCEPT !.phase = "read", !.seen = seen].seen = seen
         /\ [r EXCEPT !.phase = "stored", !.version = n] \in CartRequests
         /\ [r EXCEPT !.phase = "stored", !.version = n].seen = r.seen
         /\ [r EXCEPT !.phase = "refused"] \in CartRequests
         /\ [r EXCEPT !.phase = "refused"].seen = r.seen
  BY DEF CartRequests

(* What a request in flight holds.                                         *)
LEMMA RequestHolds ==
  ASSUME BasketInv, NEW r \in requests
  PROVE  /\ r \in CartRequests /\ r.seen \in Basket \cup {NoBasket} /\ r.product \in Products
         /\ Covered(r.seen) /\ version \in Nat /\ version + 1 \in Nat
  <1>1. r \in CartRequests /\ version \in Nat /\ Covered(r.seen)
    BY DEF BasketInv, BasketTypeOK
  <1>2. r.seen \in Basket \cup {NoBasket} /\ r.product \in Products
    BY <1>1 DEF CartRequests
  <1> QED BY <1>1, <1>2

(* What the requests hold stays covered while the adds are not fewer.      *)
LEMMA MoreAdded ==
  ASSUME BasketTypeOK, NEW b \in Basket \cup {NoBasket}, Covered(b),
         added' \in [Products -> Nat],
         \A p \in Products : added[p] <= added'[p]
  PROVE  \A p \in Products : Units(b, p) <= added'[p]
  BY UnitsOfRecord DEF Covered, BasketTypeOK

(* The inductive invariant.                                                *)
THEOREM BasketInvariance == BasketSpec => []BasketInv
<1>1. BasketInit => BasketInv
  <2> SUFFICES ASSUME BasketInit PROVE BasketInv
    OBVIOUS
  <2>1. BasketTypeOK
    <3>1. added \in [Products -> Nat] /\ fetch \in Fetch
      BY FetchesMade DEF BasketInit
    <3>2. checkout \in [placed : BOOLEAN, empty : {"none", "sent", "done"},
                        paid : {"none", "sent", "done"}]
      BY DEF BasketInit
    <3> QED BY <3>1, <3>2 DEF BasketInit, BasketTypeOK
  <2>2. Covered(stored) /\ requests = {}
    BY DEF BasketInit, Covered, Units
  <2> QED BY <2>1, <2>2 DEF BasketInv
<1>2. BasketInv /\ [BasketNext]_basketVars => BasketInv'
  <2> SUFFICES ASSUME BasketInv, [BasketNext]_basketVars
               PROVE  BasketInv'
    OBVIOUS
  <2> USE DEF BasketInv
  <2>1. ASSUME NEW place \in {"header", "page"}, NEW op \in {"add", "remove"},
               NEW p \in Products, SendWrite(place, op, p)
        PROVE  BasketInv'
    <3> DEFINE new == [id |-> clicks, op |-> op, product |-> p, place |-> place,
                       phase |-> "sent", seen |-> NoBasket, version |-> 0]
    <3>1. /\ requests' = requests \cup {new} /\ clicks' = clicks + 1
          /\ UNCHANGED <<cartService, cartBrowser, checkout>>
      BY <2>1 DEF SendWrite
    <3>2. new \in CartRequests /\ Covered(new.seen)
      BY DEF CartRequests, BasketTypeOK, Covered, Units
    <3> QED BY <3>1, <3>2 DEF cartService, cartBrowser, BasketTypeOK, Covered
  <2>2. ASSUME NEW r \in requests, ReadRecord(r)
        PROVE  BasketInv'
    <3>1. PICK seen \in {stored, NoBasket} :
            requests' = Replaced(r, [r EXCEPT !.phase = "read", !.seen = seen])
      BY <2>2 DEF ReadRecord
    <3>2. Covered(seen) /\ seen \in Basket \cup {NoBasket}
      BY DEF BasketTypeOK, Covered, Units
    <3>3. requests' \subseteq CartRequests /\ \A s \in requests' : Covered(s.seen)
      <4> DEFINE q == [r EXCEPT !.phase = "read", !.seen = seen]
      <4>1. q \in CartRequests /\ q.seen = seen
        BY <3>2, RequestHolds, RequestPhases
      <4> QED BY <3>1, <3>2, <4>1, RequestMoves
    <3> QED BY <2>2, <3>3 DEF ReadRecord, cartBrowser, BasketTypeOK, Covered
  <2>3. ASSUME NEW r \in requests, StoreAdd(r)
        PROVE  BasketInv'
    <3>1. /\ stored' = WithOneMore(r.seen, r.product)
          /\ added' = [added EXCEPT ![r.product] = @ + 1] /\ version' = version + 1
          /\ requests' = Replaced(r, [r EXCEPT !.phase = "stored", !.version = version + 1])
          /\ UNCHANGED <<faults, cart, cartFailed, fetch, shownVersion, ackedVersion, clicks,
                         checkout>>
      BY <2>3 DEF StoreAdd, cartBrowser
    <3>2. requests' \subseteq CartRequests /\ \A s \in requests' : Covered(s.seen)
      <4> DEFINE q == [r EXCEPT !.phase = "stored", !.version = version + 1]
      <4>1. q \in CartRequests /\ q.seen = r.seen /\ Covered(r.seen)
        BY RequestHolds, RequestPhases
      <4> QED BY <3>1, <4>1, RequestMoves
    <3>3. /\ r.product \in Products /\ r.seen \in Basket \cup {NoBasket} /\ Covered(r.seen)
          /\ version + 1 \in Nat
      BY RequestHolds
    <3>4. /\ added' \in [Products -> Nat] /\ \A p \in Products : added[p] <= added'[p]
          /\ \A p \in Products : added'[p] = added[p] + (IF p = r.product THEN 1 ELSE 0)
      BY <3>1, <3>3 DEF BasketTypeOK
    <3>5. \A s \in requests' : \A p \in Products : Units(s.seen, p) <= added'[p]
      BY <3>2, <3>4, MoreAdded DEF CartRequests
    <3>6. stored' \in Basket
      BY <3>1, <3>3, OneMore
    <3>7. ASSUME NEW p \in Products PROVE Units(stored', p) <= added'[p]
      <4>1. Units(stored', p) = Units(r.seen, p) + (IF p = r.product THEN 1 ELSE 0)
        BY <3>1, <3>3, OneMore
      <4>2. Units(r.seen, p) <= added[p] /\ Units(r.seen, p) \in Nat /\ added[p] \in Nat
        BY <3>3, UnitsOfRecord DEF Covered, BasketTypeOK
      <4> QED BY <3>4, <4>1, <4>2
    <3>8. BasketTypeOK'
      BY <3>1, <3>2, <3>3, <3>4, <3>6 DEF BasketTypeOK
    <3> QED BY <3>5, <3>7, <3>8 DEF Covered
  <2>4. ASSUME NEW r \in requests, StoreRemove(r)
        PROVE  BasketInv'
    <3>1. /\ r.product \in Products /\ r.seen \in Basket \cup {NoBasket} /\ Covered(r.seen)
          /\ version \in Nat /\ version + 1 \in Nat
      BY RequestHolds
    <3>2. UNCHANGED <<faults, added, cart, cartFailed, fetch, shownVersion, ackedVersion, clicks,
                      checkout>>
      BY <2>4 DEF StoreRemove, cartBrowser
    <3>3. CASE Units(r.seen, r.product) > 0
      <4>1. /\ stored' = WithOneLess(r.seen, r.product) /\ version' = version + 1
            /\ requests' = Replaced(r, [r EXCEPT !.phase = "stored", !.version = version + 1])
        BY <2>4, <3>3 DEF StoreRemove
      <4>2. requests' \subseteq CartRequests /\ \A s \in requests' : Covered(s.seen)
        <5> DEFINE q == [r EXCEPT !.phase = "stored", !.version = version + 1]
        <5>1. q \in CartRequests /\ q.seen = r.seen /\ Covered(r.seen)
          BY RequestHolds, RequestPhases
        <5> QED BY <4>1, <5>1, RequestMoves
      <4>3. stored' \in Basket /\ \A p \in Products : Units(stored', p) <= Units(r.seen, p)
        BY <3>1, <3>3, <4>1, OneLess
      <4>4. ASSUME NEW p \in Products PROVE Units(stored', p) <= added[p]
        <5>1. /\ Units(r.seen, p) <= added[p] /\ Units(stored', p) <= Units(r.seen, p)
              /\ Units(r.seen, p) \in Nat /\ added[p] \in Nat /\ Units(stored', p) \in Nat
          BY <3>1, <4>3, UnitsOfRecord DEF Covered, BasketTypeOK
        <5> QED BY <5>1
      <4> QED BY <3>1, <3>2, <4>1, <4>2, <4>3, <4>4 DEF BasketTypeOK, Covered
    <3>4. CASE ~(Units(r.seen, r.product) > 0)
      <4>1. /\ stored' = stored /\ version' = version
            /\ requests' = Replaced(r, [r EXCEPT !.phase = "refused"])
        BY <2>4, <3>4 DEF StoreRemove
      <4>2. requests' \subseteq CartRequests /\ \A s \in requests' : Covered(s.seen)
        BY <4>1, RequestHolds, RequestPhases, RequestMoves
      <4> QED BY <3>1, <3>2, <4>1, <4>2 DEF BasketTypeOK, Covered
    <3> QED BY <3>3, <3>4
  <2>5. ASSUME NEW r \in requests, StoreFails(r)
        PROVE  BasketInv'
    <3>1. requests' = Replaced(r, [r EXCEPT !.phase = "refused"])
      BY <2>5 DEF StoreFails
    <3>2. requests' \subseteq CartRequests /\ \A s \in requests' : Covered(s.seen)
      BY <3>1, RequestHolds, RequestPhases, RequestMoves
    <3> QED BY <2>5, <3>2 DEF StoreFails, cartBrowser, BasketTypeOK, Covered
  <2>6. ASSUME NEW r \in requests, WriteAcknowledged(r) \/ WriteRefused(r)
        PROVE  BasketInv'
    <3>1. r.version \in Nat /\ CartInvalidated \in Fetch
      BY FetchesMade DEF BasketTypeOK, CartRequests
    <3>2. requests' \subseteq requests /\ UNCHANGED <<stored, added>>
      BY <2>6 DEF WriteAcknowledged, WriteRefused, cartService
    <3>3. BasketTypeOK'
      BY <2>6, <3>1, <3>2 DEF WriteAcknowledged, WriteRefused, cartService, cartBrowser, BasketTypeOK
    <3> QED BY <3>2, <3>3 DEF Covered
  <2>7. CASE Refetch \/ FetchSucceeds \/ FetchFails \/ RetryFetch
    <3>1. UNCHANGED <<stored, added, requests>>
      BY <2>7 DEF Refetch, FetchSucceeds, FetchFails, RetryFetch, cartService
    <3>2. BasketTypeOK'
      BY <2>7, FetchesMade DEF Refetch, FetchSucceeds, FetchFails, RetryFetch, cartService,
         BasketTypeOK, Fetch
    <3> QED BY <3>1, <3>2 DEF Covered
  <2>8. CASE AnswerFetch
    <3>1. UNCHANGED <<stored, added, requests>>
      BY <2>8 DEF AnswerFetch
    <3>2. \/ fetch' = [fetch EXCEPT !.phase = "answered", !.seen = stored, !.version = version]
          \/ fetch' = [fetch EXCEPT !.phase = "answered", !.seen = NoBasket]
      BY <2>8 DEF AnswerFetch
    <3>3. fetch' \in Fetch
      BY <3>2 DEF BasketTypeOK, Fetch
    <3>4. BasketTypeOK'
      BY <2>8, <3>3 DEF AnswerFetch, BasketTypeOK
    <3> QED BY <3>1, <3>4 DEF Covered
  <2>9. CASE OrderPlaced \/ OrderPaid \/ PaidReceived
    <3>1. UNCHANGED <<stored, added, requests>>
      BY <2>9 DEF OrderPlaced, OrderPaid, PaidReceived, cartService
    <3>2. BasketTypeOK'
      BY <2>9, FetchesMade DEF OrderPlaced, OrderPaid, PaidReceived, cartService, cartBrowser,
         BasketTypeOK
    <3> QED BY <3>1, <3>2 DEF Covered
  <2>10. CASE EmptyBasket
    BY <2>10 DEF EmptyBasket, cartBrowser, BasketTypeOK, Covered, Units
  <2>11. CASE UNCHANGED basketVars
    BY <2>11 DEF basketVars, cartService, cartBrowser, BasketTypeOK, Covered
  <2> QED
    BY <2>1, <2>2, <2>3, <2>4, <2>5, <2>6, <2>7, <2>8, <2>9, <2>10, <2>11
       DEF BasketNext, ClickAdd, ClickRemove, AddFromCatalogue
<1> QED BY <1>1, <1>2, PTL DEF BasketSpec

(* However add, remove and empty requests overlap, the record never holds  *)
(* more units of a product than adds were stored.                          *)
THEOREM NothingFromNowhere == BasketSpec => []NoItemFromNowhere
<1>1. BasketInv => NoItemFromNowhere
  BY DEF BasketInv, Covered, NoItemFromNowhere
<1> QED BY <1>1, BasketInvariance, PTL

(* A fetch whose answer holds data has seen the writes acknowledged so     *)
(* far, and so has the cart once the fetch is over.                        *)
CartFresh ==
  /\ ackedVersion <= version /\ \A r \in requests : r.version <= version
  /\ fetch.phase = "answered" /\ fetch.seen # NoBasket => ackedVersion <= fetch.version
  /\ CartShowsOwnWrites

(* A write that is acknowledged to a cart with data starts a new fetch,    *)
(* which reads the record after it; so the cart shows the customer's own   *)
(* writes, for any products, requests and failures.                        *)
THEOREM OwnWritesShown == BasketSpec => []CartShowsOwnWrites
<1>1. BasketInit => CartFresh
  BY DEF BasketInit, CartFresh, CartShowsOwnWrites, IdleFetch
<1>2. BasketInv /\ CartFresh /\ [BasketNext]_basketVars => CartFresh'
  <2> SUFFICES ASSUME BasketInv, CartFresh, [BasketNext]_basketVars
               PROVE  CartFresh'
    OBVIOUS
  <2>1. /\ version \in Nat /\ ackedVersion \in Nat /\ shownVersion \in Nat /\ fetch \in Fetch
        /\ fetch.version \in Nat /\ \A r \in requests : r \in CartRequests /\ r.version \in Nat
        /\ ackedVersion <= version /\ \A r \in requests : r.version <= version
        /\ fetch.phase = "answered" /\ fetch.seen # NoBasket => ackedVersion <= fetch.version
        /\ fetch.phase = "idle" /\ ~cartFailed /\ cart # NoBasket => shownVersion >= ackedVersion
    BY DEF BasketInv, BasketTypeOK, Fetch, CartRequests, CartFresh, CartShowsOwnWrites
  <2>2. /\ NewCartFetch.phase = "asked" /\ IdleFetch.phase = "idle"
        /\ \/ CartInvalidated = NewCartFetch
           \/ cart = NoBasket /\ CartInvalidated = fetch /\ fetch.phase # "idle"
    BY DEF NewCartFetch, IdleFetch, CartInvalidated
  <2>3. ASSUME NEW r \in requests, NEW s, requests' = Replaced(r, s), s.version \in {r.version, version'},
               version' \in {version, version + 1}, UNCHANGED cartBrowser
        PROVE  CartFresh'
    <3>1. \A q \in requests' : q.version <= version'
      BY <2>1, <2>3 DEF Replaced
    <3> QED BY <2>1, <2>3, <3>1 DEF CartFresh, CartShowsOwnWrites, cartBrowser
  <2>4. ASSUME NEW r \in requests, ReadRecord(r) \/ StoreAdd(r) \/ StoreRemove(r) \/ StoreFails(r)
        PROVE  CartFresh'
    <3>1. r \in CartRequests
      BY <2>1
    <3>2. UNCHANGED cartBrowser /\ version' \in {version, version + 1}
      BY <2>4 DEF ReadRecord, StoreAdd, StoreRemove, StoreFails
    <3>3. ASSUME NEW s, requests' = Replaced(r, s), s.version \in {r.version, version'}
          PROVE  CartFresh'
      BY <2>3, <3>2, <3>3
    <3>4. \A ph, sn : [r EXCEPT !.phase = ph, !.seen = sn].version = r.version
      BY <3>1 DEF CartRequests
    <3>5. \A ph : [r EXCEPT !.phase = ph].version = r.version
      BY <3>1 DEF CartRequests
    <3>6. \A ph, v : [r EXCEPT !.phase = ph, !.version = v].version = v
      BY <3>1 DEF CartRequests
    <3>7. \/ requests' = Replaced(r, [r EXCEPT !.phase = "read", !.seen = stored])
          \/ requests' = Replaced(r, [r EXCEPT !.phase = "read", !.seen = NoBasket])
          \/ requests' = Replaced(r, [r EXCEPT !.phase = "refused"])
          \/ /\ requests' = Replaced(r, [r EXCEPT !.phase = "stored", !.version = version + 1])
             /\ version' = version + 1
      BY <2>4 DEF ReadRecord, StoreAdd, StoreRemove, StoreFails
    <3>8. ASSUME NEW ph, NEW sn, requests' = Replaced(r, [r EXCEPT !.phase = ph, !.seen = sn])
          PROVE  CartFresh'
      BY <3>3, <3>4, <3>8
    <3>9. ASSUME NEW ph, requests' = Replaced(r, [r EXCEPT !.phase = ph])
          PROVE  CartFresh'
      BY <3>3, <3>5, <3>9
    <3>10. ASSUME NEW ph, requests' = Replaced(r, [r EXCEPT !.phase = ph, !.version = version + 1]),
                  version' = version + 1
           PROVE  CartFresh'
      BY <3>3, <3>6, <3>10
    <3> QED BY <3>7, <3>8, <3>9, <3>10
  <2>5. ASSUME NEW place, NEW op, NEW p, SendWrite(place, op, p)
        PROVE  CartFresh'
    <3>1. UNCHANGED <<cartBrowser, version>> /\ \A r \in requests' : r \in requests \/ r.version = 0
      BY <2>5 DEF SendWrite, cartService
    <3> QED BY <2>1, <3>1 DEF CartFresh, CartShowsOwnWrites, cartBrowser
  <2>6. ASSUME NEW r \in requests, WriteAcknowledged(r)
        PROVE  CartFresh'
    <3>1. /\ requests' \subseteq requests /\ fetch' = CartInvalidated
          /\ UNCHANGED <<version, cart, cartFailed, shownVersion>>
          /\ \/ ackedVersion' = ackedVersion
             \/ cart # NoBasket /\ ackedVersion' = r.version
      BY <2>6 DEF WriteAcknowledged, cartService
    <3> QED BY <2>1, <2>2, <3>1 DEF CartFresh, CartShowsOwnWrites
  <2>7. ASSUME requests' \subseteq requests, UNCHANGED <<version, cart, cartFailed, shownVersion, ackedVersion>>,
               fetch' \in {fetch, CartInvalidated, NewCartFetch}
        PROVE  CartFresh'
    BY <2>1, <2>2, <2>7 DEF CartFresh, CartShowsOwnWrites
  <2>8. ASSUME NEW r \in requests, WriteRefused(r)
        PROVE  CartFresh'
    BY <2>7, <2>8 DEF WriteRefused, cartService, cartBrowser
  <2>9. CASE OrderPlaced \/ OrderPaid \/ PaidReceived \/ EmptyBasket \/ Refetch \/ UNCHANGED basketVars
    <3>1. /\ requests' = requests /\ fetch' \in {fetch, CartInvalidated, NewCartFetch}
          /\ UNCHANGED <<version, cart, cartFailed, shownVersion, ackedVersion>>
      BY <2>9 DEF OrderPlaced, OrderPaid, PaidReceived, EmptyBasket, Refetch, basketVars,
         cartService, cartBrowser
    <3> QED BY <2>7, <3>1
  <2>10. CASE RetryFetch
    BY <2>1, <2>10 DEF RetryFetch, NewCartFetch, IdleFetch, cartService, CartFresh, CartShowsOwnWrites
  <2>11. CASE FetchFails
    <3>0. [fetch EXCEPT !.phase = "waiting"].phase = "waiting"
      BY <2>1 DEF Fetch
    <3>1. fetch'.phase = "waiting" \/ (cartFailed' /\ fetch' = IdleFetch)
      BY <3>0, <2>11 DEF FetchFails
    <3> QED BY <2>1, <2>2, <2>11, <3>1 DEF FetchFails, cartService, CartFresh, CartShowsOwnWrites
  <2>12. CASE FetchSucceeds
    BY <2>1, <2>2, <2>12 DEF FetchSucceeds, cartService, CartFresh, CartShowsOwnWrites
  <2>13. CASE AnswerFetch
    <3>1. /\ fetch'.phase = "answered"
          /\ fetch'.seen = NoBasket \/ fetch'.version = version
      BY <2>1, <2>13 DEF AnswerFetch, Fetch
    <3> QED BY <2>1, <2>13, <3>1 DEF AnswerFetch, CartFresh, CartShowsOwnWrites
  <2> QED
    BY <2>4, <2>5, <2>6, <2>8, <2>9, <2>10, <2>11, <2>12, <2>13
       DEF BasketNext, ClickAdd, ClickRemove, AddFromCatalogue
<1>3. CartFresh => CartShowsOwnWrites
  BY DEF CartFresh
<1> QED BY <1>1, <1>2, <1>3, BasketInvariance, PTL DEF BasketSpec

---------------------------------------------------------------------------
(* OrderTracking. *)

USE TrackingAssumption

(* The order on the page and every answer on its way were stored once.     *)
NoneAhead == shown <= row /\ \A f \in fetches : f.seen <= row

(* The current fetch, if there is one, brings no older order.              *)
CurrentIsNewer ==
  /\ \A f \in fetches : f.current /\ f.seen # 0 => shown <= f.seen
  /\ \A f, g \in fetches : f.current /\ g.current => f = g

(* The payment window has been opened if at all for an order on the page.  *)
PopupsCounted == popups <= 1 /\ (shown = 0 => popups = 0)

TrackingInv == TrackingTypeOK /\ NoneAhead /\ CurrentIsNewer /\ PopupsCounted

(* The statuses by number.                                                 *)
LEMMA Statuses ==
  /\ Status = 1..7 /\ Cancelled = 7 /\ Delivered = 6
  /\ \A s \in Status : Failed(s) <=> s = 7
  BY DEF Status, Cancelled, Delivered, Failed, Flow

(* The pair each status of the flow belongs to.                            *)
LEMMA Pairs ==
  /\ PairIndex("Created") = 1 /\ PairIndex("Paid") = 1
  /\ PairIndex("Processing") = 2 /\ PairIndex("ReadyForPickup") = 2
  /\ PairIndex("Shipped") = 3 /\ PairIndex("Delivered") = 4
  <1> DEFINE Of(status) == {i \in 1..4 :
                              status \in StatusPairs[i].pending \cup {StatusPairs[i].completed}}
  <1>1. DOMAIN StatusPairs = 1..4
    BY DEF StatusPairs
  <1>2. /\ Of("Created") = {1} /\ Of("Paid") = {1} /\ Of("Processing") = {2}
        /\ Of("ReadyForPickup") = {2, 3} /\ Of("Shipped") = {3, 4} /\ Of("Delivered") = {4}
    BY DEF StatusPairs
  <1> QED
    BY <1>1, <1>2 DEF PairIndex

(* The stages each status draws as passed.                                 *)
LEMMA StagesPassed ==
  /\ Passed(0) = {} /\ Passed(1) = {} /\ Passed(2) = {1} /\ Passed(3) = {1}
  /\ Passed(4) = 1..2 /\ Passed(5) = 1..3 /\ Passed(6) = 1..4 /\ Passed(7) = {}
  <1>1. /\ DOMAIN StatusPairs = 1..4 /\ StatusPairs[1].completed = "Paid"
        /\ StatusPairs[2].completed = "ReadyForPickup" /\ StatusPairs[3].completed = "Shipped"
        /\ StatusPairs[4].completed = "Delivered"
    BY DEF StatusPairs
  <1>2. /\ Flow[1] = "Created" /\ Flow[2] = "Paid" /\ Flow[3] = "Processing"
        /\ Flow[4] = "ReadyForPickup" /\ Flow[5] = "Shipped" /\ Flow[6] = "Delivered"
        /\ Flow[7] = "Cancelled"
    BY DEF Flow
  <1>3. Passed(0) = {} /\ Passed(7) = {}
    BY <1>2 DEF Passed, Failed
  <1>4. Passed(1) = {} /\ Passed(2) = {1}
    BY <1>1, <1>2, Pairs DEF Passed, Failed
  <1>5. Passed(3) = {1} /\ Passed(4) = 1..2
    BY <1>1, <1>2, Pairs DEF Passed, Failed
  <1>6. Passed(5) = 1..3
    BY <1>1, <1>2, Pairs DEF Passed, Failed
  <1>7. Passed(6) = 1..4
    BY <1>1, <1>2, Pairs DEF Passed, Failed
  <1> QED BY <1>3, <1>4, <1>5, <1>6, <1>7

(* A status further on passes at least the same stages, unless it failed.  *)
LEMMA StagesGrow ==
  ASSUME NEW s \in Status \cup {0}, NEW t \in Status, s <= t
  PROVE  Passed(s) \subseteq Passed(t) \/ Failed(t)
  <1>1. CASE t = 7
    BY <1>1, Statuses
  <1>2. CASE t # 7
    <2>1. s \in 0..6 /\ t \in 1..6
      BY <1>2, Statuses
    <2> QED BY <2>1, StagesPassed
  <1> QED BY <1>1, <1>2

(* The fetches after an invalidation.                                      *)
LEMMA Invalidating ==
  ASSUME TrackingInv
  PROVE  /\ Invalidated \subseteq Answers
         /\ \A f \in Invalidated : f.seen <= row
         /\ \A f \in Invalidated : f.current /\ f.seen # 0 => shown <= f.seen
         /\ \A f, g \in Invalidated : f.current /\ g.current => f = g
  <1> USE DEF TrackingInv, TrackingTypeOK, NoneAhead, CurrentIsNewer
  <1>1. CASE InFlight /\ shown = 0
    BY <1>1 DEF Invalidated
  <1>2. CASE ~(InFlight /\ shown = 0)
    <2>1. Invalidated = {[f EXCEPT !.current = FALSE] : f \in fetches} \cup {NewFetch}
      BY <1>2 DEF Invalidated
    <2>2. ASSUME NEW g \in Invalidated
          PROVE  /\ g \in Answers /\ g.seen <= row
                 /\ g = NewFetch \/ ~g.current
      <3>1. CASE g = NewFetch
        BY <3>1, Statuses DEF NewFetch, Answers
      <3>2. ASSUME NEW f \in fetches, g = [f EXCEPT !.current = FALSE]
            PROVE  g \in Answers /\ g.seen <= row /\ ~g.current
        BY <3>2 DEF Answers
      <3>3. g = NewFetch \/ \E f \in fetches : g = [f EXCEPT !.current = FALSE]
        BY <2>1
      <3> QED BY <3>1, <3>2, <3>3
    <2>3. NewFetch.seen = 0
      BY DEF NewFetch
    <2>4. \A f \in Invalidated : f.current => f = NewFetch
      BY <2>2
    <2> QED BY <2>2, <2>3, <2>4
  <1> QED BY <1>1, <1>2

(* A subscription given up holds nothing.                                  *)
LEMMA EmptyChannel == <<>> \in Seq(Status) /\ Len(<<>>) <= Capacity
  OBVIOUS

(* The inductive invariant.                                                *)
THEOREM TrackingInvariance == TrackingSpec => []TrackingInv
<1>1. TrackingInit => TrackingInv
  BY Statuses DEF TrackingInit, TrackingInv, TrackingTypeOK, NoneAhead, CurrentIsNewer, PopupsCounted
<1>2. TrackingInv /\ [TrackingNext]_trackingVars => TrackingInv'
  <2> SUFFICES ASSUME TrackingInv, [TrackingNext]_trackingVars
               PROVE  TrackingInv'
    OBVIOUS
  <2> USE DEF TrackingInv
  <2>1. CASE Advance
    <3>1. /\ row' \in Status /\ row <= row' /\ events' \subseteq Status
          /\ UNCHANGED <<page, shown, fetches, stream, losses, popups, channel, owed>>
      BY <2>1, Statuses DEF Advance, client, IsTerminal, TrackingTypeOK
    <3>2. TrackingTypeOK'
      BY <3>1 DEF TrackingTypeOK
    <3>3. \A f \in fetches : f.seen \in Nat
      BY Statuses DEF TrackingTypeOK, Answers
    <3>4. NoneAhead'
      BY <3>1, <3>3, Statuses DEF NoneAhead, TrackingTypeOK
    <3> QED BY <3>1, <3>2, <3>4 DEF CurrentIsNewer, PopupsCounted
  <2>2. ASSUME NEW s \in events, Publish(s)
        PROVE  TrackingInv'
    <3>1. s \in Status /\ events' \subseteq Status
          /\ UNCHANGED <<row, page, shown, fetches, stream, losses, popups>>
      BY <2>2 DEF Publish, client, TrackingTypeOK
    <3>2. channel' = Written(channel, s) \/ channel' = channel
      BY <2>2 DEF Publish
    <3>3. Written(channel, s) \in Seq(Status) /\ Len(Written(channel, s)) <= Capacity
      <4>1. CASE Len(channel) = Capacity
        <5>1. /\ channel # <<>> /\ Tail(channel) \in Seq(Status)
              /\ Len(Tail(channel)) = Len(channel) - 1
          BY <4>1 DEF TrackingTypeOK
        <5> QED BY <3>1, <4>1, <5>1 DEF Written
      <4>2. CASE Len(channel) # Capacity
        BY <3>1, <4>2 DEF Written, TrackingTypeOK
      <4> QED BY <4>1, <4>2
    <3>4. owed' \in Status \cup {0}
      BY <2>2, <3>1 DEF Publish, TrackingTypeOK
    <3>5. TrackingTypeOK'
      BY <3>1, <3>2, <3>3, <3>4 DEF TrackingTypeOK
    <3> QED BY <3>1, <3>5 DEF NoneAhead, CurrentIsNewer, PopupsCounted
  <2>3. ASSUME NEW f \in fetches, ServerAnswers(f)
        PROVE  TrackingInv'
    <3> DEFINE g == [f EXCEPT !.seen = row]
    <3>1. /\ fetches' = (fetches \ {f}) \cup {g}
          /\ UNCHANGED <<row, events, channel, page, shown, stream, losses, popups, owed>>
      BY <2>3 DEF ServerAnswers, server
    <3>2. g \in Answers /\ g.seen = row /\ g.current = f.current
      BY DEF TrackingTypeOK, Answers
    <3>3. TrackingTypeOK'
      BY <3>1, <3>2 DEF TrackingTypeOK
    <3>4. NoneAhead'
      <4>1. row <= row
        BY Statuses DEF TrackingTypeOK
      <4> QED BY <3>1, <3>2, <4>1 DEF NoneAhead
    <3>5. CurrentIsNewer'
      BY <3>1, <3>2 DEF CurrentIsNewer, NoneAhead
    <3> QED BY <3>1, <3>3, <3>4, <3>5 DEF PopupsCounted
  <2>4. ASSUME NEW f \in fetches, AnswerArrives(f)
        PROVE  TrackingInv'
    <3>1. /\ f \in Answers /\ f.seen # 0 /\ fetches' = fetches \ {f}
          /\ shown' = (IF f.current THEN f.seen ELSE shown)
          /\ UNCHANGED <<row, events, page, losses>>
      BY <2>4 DEF AnswerArrives, Accepts, server, TrackingTypeOK
    <3>2. popups' = popups \/ (popups' = popups + 1 /\ shown' = 1 /\ shown # 1)
      BY <2>4 DEF AnswerArrives, OpensPopup
    <3>3. \/ stream' = "off" /\ channel' = <<>> /\ owed' = 0
          \/ UNCHANGED <<stream, channel, owed>>
      BY <2>4 DEF AnswerArrives, CleanUp
    <3>4. shown <= shown' /\ shown' \in Status \cup {0} /\ (shown' = 0 => shown = 0)
      BY <3>1, Statuses DEF CurrentIsNewer, TrackingTypeOK, Answers
    <3>5. PopupsCounted'
      BY <3>2, <3>4, Statuses DEF PopupsCounted, TrackingTypeOK
    <3>6. TrackingTypeOK'
      <4>1. fetches' \subseteq Answers /\ popups' \in Nat
        BY <3>1, <3>2 DEF TrackingTypeOK
      <4>2. channel' \in Seq(Status) /\ Len(channel') <= Capacity
        BY <3>3, EmptyChannel DEF TrackingTypeOK
      <4>3. /\ stream' \in {"off", "token", "connecting", "open", "waiting"}
            /\ owed' \in Status \cup {0}
        BY <3>3 DEF TrackingTypeOK
      <4> QED BY <3>1, <3>4, <4>1, <4>2, <4>3 DEF TrackingTypeOK
    <3>7. NoneAhead' /\ CurrentIsNewer'
      BY <3>1 DEF NoneAhead, CurrentIsNewer
    <3> QED BY <3>5, <3>6, <3>7
  <2>5. CASE OpenPage
    <3>1. /\ UNCHANGED <<row, events, channel, shown, losses, owed>>
          /\ popups' \in {0, 1} /\ (shown = 0 => popups' = 0)
          /\ page' \in [visits : Nat, open : BOOLEAN, paymentUrl : BOOLEAN]
          /\ stream' \in {"off", "token"}
      BY <2>5 DEF OpenPage, server, OpensPopup, TrackingTypeOK
    <3>2. fetches' = fetches \/ (~InFlight /\ fetches' = fetches \cup {NewFetch})
      BY <2>5 DEF OpenPage
    <3>3. NewFetch \in Answers /\ NewFetch.seen = 0
      BY DEF NewFetch, Answers
    <3>4. TrackingTypeOK'
      BY <3>1, <3>2, <3>3 DEF TrackingTypeOK
    <3>5. NoneAhead' /\ CurrentIsNewer'
      BY <3>1, <3>2, <3>3, Statuses DEF NoneAhead, CurrentIsNewer, InFlight, TrackingTypeOK
    <3> QED BY <3>1, <3>4, <3>5 DEF PopupsCounted
  <2>6. CASE LeavePage
    <3>1. [page EXCEPT !.open = FALSE] \in [visits : Nat, open : BOOLEAN, paymentUrl : BOOLEAN]
      BY DEF TrackingTypeOK
    <3> QED
      BY <2>6, <3>1, EmptyChannel DEF LeavePage, CleanUp, server, TrackingTypeOK, NoneAhead, CurrentIsNewer,
         PopupsCounted
  <2>7. CASE TokenAnswered \/ Subscribe \/ StreamLost \/ Reconnect
    <3>1. /\ UNCHANGED <<row, events, page, shown, fetches, popups>>
          /\ channel' = channel \/ channel' = <<>>
      BY <2>7 DEF TokenAnswered, Subscribe, StreamLost, Reconnect, server
    <3>2. /\ stream' \in {"off", "token", "connecting", "open", "waiting"}
          /\ losses' \in Nat /\ owed' \in Status \cup {0}
      BY <2>7 DEF TokenAnswered, Subscribe, StreamLost, Reconnect, TrackingTypeOK
    <3>3. channel' \in Seq(Status) /\ Len(channel') <= Capacity
      BY <3>1, EmptyChannel DEF TrackingTypeOK
    <3>4. TrackingTypeOK'
      BY <3>1, <3>2, <3>3 DEF TrackingTypeOK
    <3> QED BY <3>1, <3>4 DEF NoneAhead, CurrentIsNewer, PopupsCounted
  <2>8. CASE Receive
    <3>1. /\ channel' = Tail(channel) /\ channel # <<>> /\ fetches' = Invalidated
          /\ UNCHANGED <<row, events, page, shown, stream, losses, popups, owed>>
      BY <2>8 DEF Receive, server
    <3>2. channel' \in Seq(Status) /\ Len(channel') <= Capacity
      BY <3>1 DEF TrackingTypeOK
    <3>3. TrackingTypeOK'
      BY <3>1, <3>2, Invalidating DEF TrackingTypeOK
    <3>4. NoneAhead' /\ CurrentIsNewer'
      BY <3>1, Invalidating DEF NoneAhead, CurrentIsNewer
    <3> QED BY <3>1, <3>3, <3>4 DEF PopupsCounted
  <2>9. ASSUME NEW f \in fetches, ServerFails(f)
         PROVE  TrackingInv'
    <3>1. /\ fetches' = fetches \ {f} /\ (owed' = 0 \/ owed' = owed)
          /\ UNCHANGED <<row, events, channel, page, shown, stream, losses, popups>>
      BY <2>9 DEF ServerFails, server
    <3> QED BY <3>1 DEF TrackingTypeOK, NoneAhead, CurrentIsNewer, PopupsCounted
  <2>10. CASE UNCHANGED trackingVars
    BY <2>10 DEF trackingVars, server, client, TrackingTypeOK, NoneAhead, CurrentIsNewer,
       PopupsCounted
  <2> QED
    BY <2>1, <2>2, <2>3, <2>4, <2>5, <2>6, <2>7, <2>8, <2>9, <2>10 DEF TrackingNext
<1> QED BY <1>1, <1>2, PTL DEF TrackingSpec

(* One visit opens the payment window at most once.                        *)
THEOREM OneWindow == TrackingSpec => []OnePopupPerVisit
<1>1. TrackingInv => OnePopupPerVisit
  BY DEF TrackingInv, PopupsCounted, OnePopupPerVisit
<1> QED BY <1>1, TrackingInvariance, PTL

(* The stages drawn as passed are never taken back, unless the order fails.*)
THEOREM TimelineGrows == TrackingSpec => TimelineNeverGoesBack
<1> DEFINE Grows == Passed(shown) \subseteq Passed(shown') \/ Failed(shown')
<1>1. TrackingInv /\ [TrackingNext]_trackingVars => [Grows]_shown
  <2> SUFFICES ASSUME TrackingInv, TrackingNext, shown' # shown PROVE Grows
    BY DEF trackingVars, client
  <2>1. PICK f \in fetches : AnswerArrives(f)
    BY DEF TrackingNext, Advance, Publish, ServerAnswers, ServerFails, OpenPage, LeavePage, TokenAnswered,
       Subscribe, Receive, StreamLost, Reconnect, client
  <2>2. f.current /\ f.seen # 0 /\ shown' = f.seen
    BY <2>1 DEF AnswerArrives, Accepts
  <2>3. shown <= f.seen /\ f.seen \in Status /\ shown \in Status \cup {0}
    BY <2>2 DEF TrackingInv, TrackingTypeOK, CurrentIsNewer, Answers
  <2> QED BY <2>2, <2>3, StagesGrow
<1> QED BY <1>1, TrackingInvariance, PTL DEF TrackingSpec, TimelineNeverGoesBack

(* An effect that runs belongs to a page that is there; a status is sent to *)
(* an open connection of a page that has the order, after it was stored.    *)
StreamBelongs ==
  /\ stream # "off" => page.open
  /\ owed # 0 => stream = "open" /\ shown # 0 /\ owed <= row
  /\ \A s \in events : s <= row

(* A fetch whose answer will be put on the page and is no older than owed.  *)
WillShow(f) == f.current /\ (f.seen = 0 \/ f.seen >= owed)

(* A status sent to the page that it does not show yet is in the channel,   *)
(* or a fetch that will be accepted is going to bring it or a later one.    *)
OwedIsOnItsWay == shown < owed => channel # <<>> \/ \E f \in fetches : WillShow(f)

StreamInv == TrackingInv /\ StreamBelongs /\ OwedIsOnItsWay

(* The answer of the fetch that will be accepted brings what is owed, and   *)
(* no other answer replaces it.                                             *)
LEMMA AnswerShows ==
  ASSUME StreamInv, NEW f \in fetches, AnswerArrives(f)
  PROVE  OwedIsOnItsWay' /\ StreamBelongs'
  <1> USE DEF StreamInv, TrackingInv
  <1>1. /\ f \in Answers /\ f.seen # 0 /\ fetches' = fetches \ {f}
        /\ shown' = (IF f.current THEN f.seen ELSE shown)
        /\ UNCHANGED <<row, events, page>>
    BY DEF AnswerArrives, Accepts, server, TrackingTypeOK
  <1>2. \/ stream' = "off" /\ channel' = <<>> /\ owed' = 0
        \/ UNCHANGED <<stream, channel, owed>>
    BY DEF AnswerArrives, CleanUp
  <1>3. shown' \in 0..7 /\ (shown' = 0 => shown = 0) /\ shown <= shown'
    BY <1>1, Statuses DEF TrackingTypeOK, Answers, CurrentIsNewer
  <1>4. owed \in 0..7 /\ shown \in 0..7
    BY Statuses DEF TrackingTypeOK
  <1>5. CASE owed' = 0
    BY <1>1, <1>2, <1>3, <1>5 DEF StreamBelongs, OwedIsOnItsWay
  <1>6. CASE owed' # 0
    <2>1. UNCHANGED <<stream, channel, owed>>
      BY <1>2, <1>6
    <2>2. StreamBelongs'
      BY <1>1, <1>3, <2>1 DEF StreamBelongs
    <2>3. ASSUME shown' < owed, channel = <<>>
          PROVE  \E g \in fetches \ {f} : WillShow(g)
      <3>1. shown < owed
        BY <1>3, <1>4, <2>3
      <3>2. PICK g \in fetches : WillShow(g)
        BY <2>3, <3>1 DEF OwedIsOnItsWay
      <3>3. CASE g = f
        <4>1. f.current /\ f.seen >= owed /\ shown' = f.seen
          BY <1>1, <3>2, <3>3 DEF WillShow
        <4>2. f.seen \in 0..7
          BY <1>1, Statuses DEF Answers
        <4> QED BY <1>4, <2>3, <4>1, <4>2
      <3> QED BY <3>2, <3>3
    <2>4. \A g \in fetches \ {f} : WillShow(g) <=> WillShow(g)'
      BY <2>1 DEF WillShow
    <2>5. shown' < owed' => channel' # <<>> \/ \E g \in fetches' : WillShow(g)'
      BY <1>1, <2>1, <2>3, <2>4
    <2> QED BY <2>2, <2>5 DEF OwedIsOnItsWay
  <1> QED BY <1>5, <1>6

(* The inductive invariant of the stream.                                   *)
THEOREM StreamInvariance == TrackingSpec => []StreamInv
<1>1. TrackingInit => StreamBelongs /\ OwedIsOnItsWay
  BY DEF TrackingInit, StreamBelongs, OwedIsOnItsWay
<1>2. StreamInv /\ [TrackingNext]_trackingVars => (StreamBelongs /\ OwedIsOnItsWay)'
  <2> SUFFICES ASSUME StreamInv, [TrackingNext]_trackingVars
               PROVE  StreamBelongs' /\ OwedIsOnItsWay'
    OBVIOUS
  <2> USE DEF StreamInv, TrackingInv
  <2>0. row \in 1..7 /\ owed \in 0..7 /\ shown \in 0..7 /\ events \subseteq 1..7
    BY Statuses DEF TrackingTypeOK
  <2>1. CASE Advance
    <3>1. /\ row' \in 1..7 /\ row <= row' /\ events' = events \cup {row'}
          /\ UNCHANGED <<page, shown, fetches, stream, channel, owed>>
      BY <2>0, <2>1, Statuses DEF Advance, client, IsTerminal
    <3> QED BY <2>0, <3>1 DEF StreamBelongs, OwedIsOnItsWay, WillShow
  <2>2. ASSUME NEW s \in events, Publish(s)
        PROVE  StreamBelongs' /\ OwedIsOnItsWay'
    <3>1. /\ events' \subseteq events
          /\ UNCHANGED <<row, page, shown, fetches, stream>>
      BY <2>2 DEF Publish, client
    <3>2. CASE stream = "open"
      <4>1. /\ channel' = Written(channel, s)
            /\ owed' = (IF shown # 0 /\ s > owed THEN s ELSE owed)
        BY <2>2, <3>2 DEF Publish
      <4>2. Written(channel, s) # <<>>
        <5>1. \A q \in Seq(Status) : Append(q, s) # <<>>
          OBVIOUS
        <5>2. channel \in Seq(Status) /\ (Len(channel) = Capacity => Tail(channel) \in Seq(Status))
          BY DEF TrackingTypeOK
        <5> QED BY <5>1, <5>2 DEF Written
      <4> QED BY <2>0, <3>1, <3>2, <4>1, <4>2 DEF StreamBelongs, OwedIsOnItsWay
    <3>3. CASE stream # "open"
      BY <2>2, <3>1, <3>3 DEF Publish, StreamBelongs, OwedIsOnItsWay, WillShow
    <3> QED BY <3>2, <3>3
  <2>3. ASSUME NEW f \in fetches, ServerAnswers(f)
        PROVE  StreamBelongs' /\ OwedIsOnItsWay'
    <3> DEFINE g == [f EXCEPT !.seen = row]
    <3>1. /\ fetches' = (fetches \ {f}) \cup {g} /\ f.seen = 0
          /\ UNCHANGED <<row, events, channel, page, shown, stream, owed>>
      BY <2>3 DEF ServerAnswers, server
    <3>2. g.seen = row /\ g.current = f.current
      BY DEF TrackingTypeOK, Answers
    <3>3. ASSUME WillShow(f), shown < owed
          PROVE  WillShow(g)
      BY <2>0, <3>2, <3>3 DEF WillShow, StreamBelongs
    <3>4. StreamBelongs'
      BY <3>1 DEF StreamBelongs
    <3>5. ASSUME shown < owed, channel = <<>>
          PROVE  \E h \in fetches' : WillShow(h)
      <4>1. PICK h \in fetches : WillShow(h)
        BY <3>5 DEF OwedIsOnItsWay
      <4> QED BY <3>1, <3>3, <3>5, <4>1
    <3> QED BY <3>1, <3>4, <3>5 DEF OwedIsOnItsWay, WillShow
  <2>4. ASSUME NEW f \in fetches, AnswerArrives(f)
        PROVE  StreamBelongs' /\ OwedIsOnItsWay'
    BY <2>4, AnswerShows
  <2>5. CASE OpenPage
    <3>1. /\ UNCHANGED <<row, events, channel, shown, owed>> /\ ~page.open
          /\ fetches \subseteq fetches' /\ page'.open
      BY <2>5 DEF OpenPage, server
    <3>2. owed = 0
      BY <3>1 DEF StreamBelongs
    <3> QED BY <2>0, <3>1, <3>2 DEF StreamBelongs, OwedIsOnItsWay
  <2>6. CASE LeavePage \/ StreamLost
    <3>1. /\ owed' = 0 /\ UNCHANGED <<row, events, shown>>
          /\ stream' # "off" => page'.open
      BY <2>6 DEF LeavePage, StreamLost, CleanUp, server, StreamBelongs
    <3> QED BY <2>0, <3>1 DEF StreamBelongs, OwedIsOnItsWay
  <2>7. CASE TokenAnswered \/ Subscribe \/ Reconnect
    <3>1. /\ UNCHANGED <<row, events, page, shown, fetches, owed>>
          /\ stream # "open" /\ stream # "off"
      BY <2>7 DEF TokenAnswered, Subscribe, Reconnect, server
    <3>2. owed = 0 /\ page.open
      BY <3>1 DEF StreamBelongs
    <3> QED BY <2>0, <3>1, <3>2 DEF StreamBelongs, OwedIsOnItsWay
  <2>8. CASE Receive
    <3>1. /\ fetches' = Invalidated
          /\ UNCHANGED <<row, events, page, shown, stream, owed>>
      BY <2>8 DEF Receive, server
    <3>2. shown # 0 => NewFetch \in fetches'
      BY <3>1 DEF Invalidated
    <3>3. NewFetch.current /\ NewFetch.seen = 0
      BY DEF NewFetch
    <3>4. WillShow(NewFetch)'
      BY <3>3 DEF WillShow
    <3>5. owed # 0 => shown # 0
      BY DEF StreamBelongs
    <3>6. StreamBelongs'
      BY <3>1 DEF StreamBelongs
    <3> QED BY <2>0, <3>1, <3>2, <3>4, <3>5, <3>6 DEF OwedIsOnItsWay
  <2>9. ASSUME NEW f \in fetches, ServerFails(f)
         PROVE  StreamBelongs' /\ OwedIsOnItsWay'
    <3>1. /\ fetches' = fetches \ {f}
          /\ owed' = (IF f.current /\ channel = <<>> THEN 0 ELSE owed)
          /\ UNCHANGED <<row, events, channel, page, shown, stream>>
      BY <2>9 DEF ServerFails, server
    <3>2. StreamBelongs'
      BY <3>1 DEF StreamBelongs
    <3>3. CASE channel # <<>>
      BY <3>1, <3>2, <3>3 DEF OwedIsOnItsWay
    <3>4. CASE f.current /\ channel = <<>>
      <4>1. owed' = 0 /\ shown' \in 0..7
        BY <2>0, <3>1, <3>4
      <4> QED BY <3>2, <4>1 DEF OwedIsOnItsWay
    <3>5. CASE ~f.current
      <4>1. owed' = owed
        BY <3>1, <3>5
      <4>2. \A g \in fetches : WillShow(g) => g \in fetches' /\ WillShow(g)'
        BY <3>1, <3>5, <4>1 DEF WillShow
      <4> QED BY <3>1, <3>2, <4>1, <4>2 DEF OwedIsOnItsWay
    <3> QED BY <3>2, <3>3, <3>4, <3>5
  <2>10. CASE UNCHANGED trackingVars
    BY <2>10 DEF trackingVars, server, client, StreamBelongs, OwedIsOnItsWay, WillShow
  <2> QED
    BY <2>1, <2>2, <2>3, <2>4, <2>5, <2>6, <2>7, <2>8, <2>9, <2>10 DEF TrackingNext
<1> QED BY <1>1, <1>2, TrackingInvariance, PTL DEF TrackingSpec, StreamInv

(* Nothing a connection was sent is lost between the channel, which drops   *)
(* its oldest messages, and the query, which cancels its own fetches, as    *)
(* long as the connection and the page are kept and the last fetch does not *)
(* fail: what SentStatusIsShown asks of safety, with the same excuses       *)
(* (useOrderStatusStream.ts, OrderStatusChannel).                           *)
THEOREM SentStatusIsOnItsWay == TrackingSpec => []OwedIsOnItsWay
<1>1. StreamInv => OwedIsOnItsWay
  BY DEF StreamInv
<1> QED BY <1>1, StreamInvariance, PTL
=============================================================================
