----------------------------- MODULE Scenes_proofs -----------------------------
(***************************************************************************)
(* Theorems about the smaller models of the frontends, each for any number *)
(* of requests, tabs, pages, files, packages and images, and about the     *)
(* scenes together: a behaviour that plays one of them is a behaviour of   *)
(* every module, so that what is proved of a module holds of the           *)
(* specification that is checked.                                          *)
(***************************************************************************)
EXTENDS MCScenes, Shop_proofs, Shipping_proofs, SequenceTheorems

---------------------------------------------------------------------------
(* SignIn. *)

(* In the shop isRedirecting stands for the one redirect that has been     *)
(* made or will be made by the timer.                                      *)
RedirectCounted ==
  app = "web" => \/ ~redirecting /\ ~timer /\ calls = 0
                 \/ redirecting /\ timer /\ calls = 0
                 \/ redirecting /\ ~timer /\ calls = 1

SignInInv == SignInTypeOK /\ RedirectCounted

(* The inductive invariant of SignIn.                                      *)
THEOREM SignInInvariance == SignInSpec => []SignInInv
<1>1. SignInInit => SignInInv
  <2> SUFFICES ASSUME SignInInit PROVE SignInTypeOK /\ RedirectCounted
    BY DEF SignInInv
  <2>1. request \in [ApiRequests -> {"idle", "token", "sent", "done", "rejected"}]
    BY DEF SignInInit
  <2>2. SignInTypeOK
    BY <2>1 DEF SignInInit, SignInTypeOK
  <2>3. RedirectCounted
    BY DEF SignInInit, RedirectCounted
  <2> QED BY <2>2, <2>3
<1>2. SignInInv /\ [SignInNext]_signInVars => SignInInv'
  <2> SUFFICES ASSUME SignInInv, [SignInNext]_signInVars
               PROVE  SignInInv'
    OBVIOUS
  <2>1. ASSUME NEW r \in ApiRequests, NEW phase \in {"idle", "token", "sent", "done", "rejected"},
               Becomes(r, phase)
        PROVE  request' \in [ApiRequests -> {"idle", "token", "sent", "done", "rejected"}]
    BY <2>1 DEF Becomes, SignInInv, SignInTypeOK
  <2>2. ASSUME NEW r \in ApiRequests, RequestStep(r)
        PROVE  SignInTypeOK'
    <3> USE DEF SignInInv, SignInTypeOK
    <3>1. CASE Issue(r) \/ TokenAcquired(r) \/ RequestAnswered(r)
      BY <2>1, <3>1 DEF Issue, TokenAcquired, RequestAnswered
    <3>2. CASE TokenFails(r)
      <4>1. request' \in [ApiRequests -> {"idle", "token", "sent", "done", "rejected"}]
        BY <2>1, <3>2 DEF TokenFails
      <4>2. calls' \in Nat /\ UNCHANGED <<app, booted, account, redirecting, timer, byHand, away>>
        BY <3>2 DEF TokenFails
      <4> QED BY <4>1, <4>2
    <3>3. CASE InteractionRequired(r)
      <4>1. request' \in [ApiRequests -> {"idle", "token", "sent", "done", "rejected"}]
        BY <2>1, <3>3 DEF InteractionRequired
      <4>2. /\ calls' \in Nat /\ redirecting' \in BOOLEAN
            /\ UNCHANGED <<app, booted, account, timer, byHand, away>>
        <5>1. calls' = calls \/ calls' = calls + 1
          BY <3>3, Zenon DEF InteractionRequired
        <5>2. /\ redirecting' \in BOOLEAN
              /\ UNCHANGED <<app, booted, account, timer, byHand, away>>
          <6>1. CASE redirecting
            BY <3>3, <6>1, Zenon DEF InteractionRequired
          <6>2. CASE ~redirecting
            BY <3>3, <6>2, Zenon DEF InteractionRequired
          <6> QED BY <6>1, <6>2
        <5> QED BY <5>1, <5>2
      <4> QED BY <4>1, <4>2
    <3>4. CASE Unauthorized(r)
      <4>1. request' \in [ApiRequests -> {"idle", "token", "sent", "done", "rejected"}]
        BY <2>1, <3>4 DEF Unauthorized
      <4>2. /\ redirecting' \in BOOLEAN /\ timer' \in BOOLEAN
            /\ UNCHANGED <<app, booted, account, calls, byHand, away>>
        <5>1. CASE redirecting
          BY <3>4, <5>1, Zenon DEF Unauthorized, StartRedirect
        <5>2. CASE ~redirecting
          BY <3>4, <5>2, Zenon DEF Unauthorized, StartRedirect
        <5> QED BY <5>1, <5>2
      <4> QED BY <4>1, <4>2
    <3>5. CASE PortalUnauthorized(r)
      <4>1. request' \in [ApiRequests -> {"idle", "token", "sent", "done", "rejected"}]
        BY <2>1, <3>5 DEF PortalUnauthorized
      <4>2. calls' \in Nat /\ UNCHANGED <<app, booted, account, redirecting, timer, byHand, away>>
        BY <3>5 DEF PortalUnauthorized
      <4> QED BY <4>1, <4>2
    <3> QED BY <2>2, <3>1, <3>2, <3>3, <3>4, <3>5 DEF RequestStep
  <2>3. ASSUME NEW r \in ApiRequests, RequestStep(r)
        PROVE  RedirectCounted'
    <3>1. CASE Issue(r) \/ TokenAcquired(r) \/ RequestAnswered(r)
      BY <3>1 DEF Issue, TokenAcquired, RequestAnswered, SignInInv, RedirectCounted
    <3>2. CASE TokenFails(r)
      BY <3>2 DEF TokenFails, SignInInv, RedirectCounted
    <3>3. CASE InteractionRequired(r)
      BY <3>3 DEF InteractionRequired, SignInInv, RedirectCounted
    <3>4. CASE Unauthorized(r)
      BY <3>4 DEF Unauthorized, StartRedirect, SignInInv, RedirectCounted
    <3>5. CASE PortalUnauthorized(r)
      BY <3>5 DEF PortalUnauthorized, SignInInv, RedirectCounted
    <3> QED BY <2>3, <3>1, <3>2, <3>3, <3>4, <3>5 DEF RequestStep
  <2>4. CASE Boot \/ SignInPressed \/ Navigate
    <3>1. /\ UNCHANGED <<app, request, redirecting, timer, calls>>
          /\ booted' \in BOOLEAN /\ account' \in BOOLEAN
          /\ byHand' \in BOOLEAN /\ away' \in BOOLEAN
      BY <2>4, Zenon DEF Boot, SignInPressed, Navigate, SignInInv, SignInTypeOK
    <3> QED BY <3>1 DEF SignInInv, SignInTypeOK, RedirectCounted
  <2>5. CASE TimerFires
    <3>1. SignInTypeOK'
      <4>1. calls' \in Nat
        BY <2>5 DEF TimerFires, SignInInv, SignInTypeOK
      <4>2. /\ timer' \in BOOLEAN
            /\ UNCHANGED <<app, booted, account, request, redirecting, byHand, away>>
        BY <2>5, Zenon DEF TimerFires
      <4> QED BY <4>1, <4>2 DEF SignInInv, SignInTypeOK
    <3>2. RedirectCounted'
      BY <2>5 DEF TimerFires, SignInInv, RedirectCounted
    <3> QED BY <3>1, <3>2 DEF SignInInv
  <2>6. CASE UNCHANGED signInVars
    BY <2>6 DEF signInVars, SignInInv, SignInTypeOK, RedirectCounted
  <2> QED
    BY <2>2, <2>3, <2>4, <2>5, <2>6 DEF SignInNext, SignInInv
<1> QED BY <1>1, <1>2, PTL DEF SignInSpec

(* loginRedirect is called at most once for any number of requests.        *)
THEOREM RedirectsOnce == SignInSpec => []OneRedirect
<1>1. SignInInv => OneRedirect
  BY DEF SignInInv, SignInTypeOK, RedirectCounted, OneRedirect
<1> QED BY <1>1, SignInInvariance, PTL

(* A rejected request has a redirect made or a timer that will make one: in *)
(* the portal each rejection makes its own, in the shop the flag is set.    *)
RejectionAnswered ==
  \A r \in ApiRequests : request[r] = "rejected" =>
    IF app = "web" THEN redirecting ELSE calls > 0

AnsweredInv == SignInInv /\ RejectionAnswered

(* Nobody is left with a rejected request and no redirect under way.       *)
RedirectUnderWay == (\E r \in ApiRequests : request[r] = "rejected") => calls > 0 \/ timer

(* What a request's step does to the requests' phases.                     *)
LEMMA PhasesMove ==
  ASSUME SignInInv, NEW r \in ApiRequests, RequestStep(r)
  PROVE  /\ \A q \in ApiRequests : request'[q] = "rejected" /\ q # r => request[q] = "rejected"
         /\ redirecting => redirecting'
         /\ calls' \in Nat /\ calls <= calls' /\ app' = app
  <1> USE DEF SignInInv, SignInTypeOK
  <1>1. ASSUME NEW phase, Becomes(r, phase)
        PROVE  \A q \in ApiRequests : request'[q] = "rejected" /\ q # r => request[q] = "rejected"
    BY <1>1 DEF Becomes
  <1>2. \E phase : Becomes(r, phase)
    BY Zenon DEF RequestStep, Issue, TokenAcquired, TokenFails, InteractionRequired,
       RequestAnswered, Unauthorized, PortalUnauthorized
  <1>3. /\ calls' = calls \/ calls' = calls + 1
        /\ app' = app
    BY DEF RequestStep, Issue, TokenAcquired, TokenFails, InteractionRequired,
       RequestAnswered, Unauthorized, PortalUnauthorized
  <1>4. redirecting => redirecting'
    BY Zenon DEF RequestStep, Issue, TokenAcquired, TokenFails, InteractionRequired,
       RequestAnswered, Unauthorized, PortalUnauthorized, StartRedirect
  <1> QED BY <1>1, <1>2, <1>3, <1>4

(* The inductive invariant of the rejected requests.                       *)
THEOREM AnsweredInvariance == SignInSpec => []AnsweredInv
<1>1. SignInInit => RejectionAnswered
  BY DEF SignInInit, RejectionAnswered
<1>2. AnsweredInv /\ [SignInNext]_signInVars => RejectionAnswered'
  <2> SUFFICES ASSUME AnsweredInv, [SignInNext]_signInVars PROVE RejectionAnswered'
    OBVIOUS
  <2> USE DEF AnsweredInv
  <2>1. ASSUME NEW r \in ApiRequests, RequestStep(r)
        PROVE  RejectionAnswered'
    <3>1. request'[r] = "rejected" => IF app = "web" THEN redirecting' ELSE calls' > 0
      <4> USE DEF SignInInv, SignInTypeOK
      <4>1. ASSUME NEW phase, Becomes(r, phase) PROVE request'[r] = phase
        BY <4>1 DEF Becomes
      <4>2. CASE Issue(r) \/ TokenAcquired(r) \/ RequestAnswered(r)
        BY <4>1, <4>2 DEF Issue, TokenAcquired, RequestAnswered
      <4>3. CASE TokenFails(r)
        BY <4>1, <4>3 DEF TokenFails
      <4>4. CASE InteractionRequired(r)
        BY <4>4, Zenon DEF InteractionRequired
      <4>5. CASE Unauthorized(r)
        BY <4>5, Zenon DEF Unauthorized, StartRedirect
      <4>6. CASE PortalUnauthorized(r)
        BY <4>6 DEF PortalUnauthorized
      <4> QED BY <2>1, <4>2, <4>3, <4>4, <4>5, <4>6, Zenon DEF RequestStep
    <3>2. calls \in Nat
      BY DEF SignInInv, SignInTypeOK
    <3>3. ASSUME NEW q \in ApiRequests, q # r, request'[q] = "rejected"
          PROVE  IF app' = "web" THEN redirecting' ELSE calls' > 0
      <4>1. IF app = "web" THEN redirecting ELSE calls > 0
        BY <2>1, <3>3, PhasesMove DEF RejectionAnswered
      <4>2. calls > 0 => calls' > 0
        BY <2>1, <3>2, PhasesMove
      <4>3. app' = app /\ (redirecting => redirecting')
        BY <2>1, PhasesMove
      <4> QED BY <4>1, <4>2, <4>3, Zenon
    <3>4. app' = app
      BY <2>1, PhasesMove
    <3> QED BY <3>1, <3>3, <3>4, Zenon DEF RejectionAnswered
  <2>2. CASE Boot \/ SignInPressed \/ Navigate \/ UNCHANGED signInVars
    <3>1. UNCHANGED <<app, request, redirecting, calls>>
      BY <2>2, Zenon DEF Boot, SignInPressed, Navigate, signInVars
    <3> QED BY <3>1 DEF RejectionAnswered
  <2>3. CASE TimerFires
    <3>1. UNCHANGED <<app, request, redirecting>> /\ calls' = calls + 1
      BY <2>3, Zenon DEF TimerFires
    <3>2. calls > 0 => calls' > 0
      BY <3>1 DEF SignInInv, SignInTypeOK
    <3> QED BY <3>1, <3>2 DEF RejectionAnswered
  <2> QED BY <2>1, <2>2, <2>3 DEF SignInNext
<1> QED BY <1>1, <1>2, SignInInvariance, PTL DEF SignInSpec, AnsweredInv

(* The flag that suppresses further redirects never outlives the redirect   *)
(* it stands for, so that no rejected request is without one: what          *)
(* RejectedMeansRedirect asks of safety (api/client.ts, authFetch).         *)
THEOREM RejectionHasRedirect == SignInSpec => []RedirectUnderWay
<1>1. AnsweredInv => RedirectUnderWay
  BY DEF AnsweredInv, RejectionAnswered, RedirectUnderWay, SignInInv, SignInTypeOK, RedirectCounted
<1> QED BY <1>1, AnsweredInvariance, PTL

---------------------------------------------------------------------------
(* Wishlist. *)

WishlistInv == WishlistTypeOK /\ NoFavouriteLost

(* Whatever the tabs show, the stored list is the one all clicks make.     *)
THEOREM WishlistInvariance == WishlistSpec => []WishlistInv
<1>1. WishlistInit => WishlistInv
  BY DEF WishlistInit, WishlistInv, WishlistTypeOK, NoFavouriteLost
<1>2. WishlistInv /\ [WishlistNext]_wishlistVars => WishlistInv'
  <2> SUFFICES ASSUME WishlistInv, [WishlistNext]_wishlistVars
               PROVE  WishlistInv'
    OBVIOUS
  <2> USE DEF WishlistInv, WishlistTypeOK, NoFavouriteLost
  <2>1. ASSUME NEW t \in Tabs, NEW a \in Articles, Toggle(t, a)
        PROVE  WishlistInv'
    <3>1. /\ favourites' = Flipped(a)
          /\ toggled' = [toggled EXCEPT ![a] = @ + 1]
          /\ listed' = [listed EXCEPT ![t] = favourites']
      BY <2>1 DEF Toggle
    <3>2. favourites' \subseteq Articles /\ toggled[a] \in Nat
      BY <3>1 DEF Flipped
    <3>3. WishlistTypeOK'
      BY <3>1, <3>2
    <3>4. ASSUME NEW b \in Articles PROVE b \in favourites' <=> toggled'[b] % 2 = 1
      <4>1. CASE b = a
        <5>1. b \in favourites' <=> ~(a \in favourites)
          BY <3>1, <4>1 DEF Flipped
        <5>2. toggled'[b] = toggled[a] + 1
          BY <3>1, <4>1
        <5>3. (toggled[a] + 1) % 2 = 1 <=> ~(toggled[a] % 2 = 1)
          BY <3>2
        <5> QED BY <5>1, <5>2, <5>3
      <4>2. CASE b # a
        BY <3>1, <4>2 DEF Flipped
      <4> QED BY <4>1, <4>2
    <3> QED BY <3>2, <3>3, <3>4
  <2>2. ASSUME NEW t \in Tabs, Render(t)
        PROVE  WishlistInv'
    BY <2>2 DEF Render
  <2>3. CASE UNCHANGED wishlistVars
    BY <2>3 DEF wishlistVars
  <2> QED
    BY <2>1, <2>2, <2>3 DEF WishlistNext, ToggleOnCard, RemoveFromPage
<1> QED BY <1>1, <1>2, PTL DEF WishlistSpec

(* No tab's older list is stored over another tab's change.                *)
THEOREM FavouritesKept == WishlistSpec => []NoFavouriteLost
<1>1. WishlistInv => NoFavouriteLost
  BY DEF WishlistInv
<1> QED BY <1>1, WishlistInvariance, PTL

---------------------------------------------------------------------------
(* Catalogue. *)

CatalogueInv == CatalogueTypeOK /\ FiltersAlike

(* What the address bar says, and what a choice puts into it.              *)
LEMMA FilterAndUrl ==
  /\ \A params \in Params : FromUrl(params) \in Filters
  /\ \A chosen \in Filters : ToUrl(chosen) \in Params /\ FromUrl(ToUrl(chosen)) = chosen
  /\ NoFilter \in Filters /\ NoFilter \in Params
  <1> USE CatalogueAssumption DEF Filters, Params
  <1>1. \A params \in Params : FromUrl(params) \in Filters
    BY DEF FromUrl
  <1>2. ASSUME NEW chosen \in Filters
        PROVE  ToUrl(chosen) \in Params /\ FromUrl(ToUrl(chosen)) = chosen
    <2>1. ToUrl(chosen) \in Params /\ \A f \in Fields : ToUrl(chosen)[f] = chosen[f]
      BY DEF ToUrl
    <2>2. \A f \in Fields : FromUrl(ToUrl(chosen))[f] = chosen[f]
      BY <2>1 DEF FromUrl
    <2>3. FromUrl(ToUrl(chosen)) \in Filters
      BY <1>1, <2>1
    <2> QED BY <2>1, <2>2, <2>3
  <1> QED BY <1>1, <1>2 DEF NoFilter

(* Arriving at a page with its history keeps the two copies together.      *)
LEMMA Arriving ==
  ASSUME CatalogueInv, NEW entries \in Seq(Entries), entries # <<>>, Arrive(entries)
  PROVE  CatalogueInv'
  <1> DEFINE there == entries[Len(entries)]
  <1> USE CatalogueAssumption DEF CatalogueInv, CatalogueTypeOK, FiltersAlike
  <1>1. there \in Entries /\ there.params \in Params
    <2>1. Len(entries) \in 1..Len(entries)
      BY EmptySeq
    <2>2. there \in Entries
      BY <2>1
    <2> QED BY <2>2 DEF Entries
  <1>2. history' = entries /\ slide' = 1 /\ detail' = NoDetail /\ Here' = there
    BY DEF Arrive, Here
  <1>3. slide' \in 1..Slides /\ detail' \in [image : 1..Images, faq : 0..Faqs]
    BY <1>2 DEF NoDetail
  <1>4. CASE there.path = "search" /\ Here = there
    <2>1. UNCHANGED <<filter, listPage, results>>
      BY <1>4 DEF Arrive
    <2> QED BY <1>2, <1>3, <1>4, <2>1
  <1>5. CASE ~(there.path = "search" /\ Here = there)
    <2>1. /\ filter' = (IF there.path = "search" THEN FromUrl(there.params) ELSE NoFilter)
          /\ listPage' = 1 /\ results' = Loading
      BY <1>5 DEF Arrive
    <2>2. Loading \in Results /\ 1 \in 1..MaxPages
      BY DEF Loading, Results
    <2> QED BY <1>1, <1>2, <1>3, <2>1, <2>2, FilterAndUrl
  <1> QED BY <1>4, <1>5

(* A choice in the sidebar changes both copies.                            *)
LEMMA Refiltering ==
  ASSUME CatalogueInv, NEW chosen \in Filters, Refilter(chosen), Here.path = "search"
  PROVE  CatalogueInv'
  <1> USE CatalogueAssumption DEF CatalogueInv, CatalogueTypeOK, FiltersAlike
  <1>1. /\ filter' = chosen /\ listPage' = 1 /\ results' \in Results
        /\ history' = [history EXCEPT ![Len(history)].params = ToUrl(chosen)]
        /\ UNCHANGED <<slide, detail>>
    BY FilterAndUrl DEF Refilter, Loading, Results
  <1>2. Len(history) \in 1..Len(history) /\ Here \in Entries
    BY DEF Here
  <1>3. [Here EXCEPT !.params = ToUrl(chosen)] \in Entries
    BY <1>2, FilterAndUrl DEF Entries
  <1>4. history' = [history EXCEPT ![Len(history)] = [Here EXCEPT !.params = ToUrl(chosen)]]
    BY <1>1 DEF Here
  <1>5. /\ history' \in Seq(Entries) /\ Len(history') = Len(history)
        /\ history'[Len(history)] = [Here EXCEPT !.params = ToUrl(chosen)]
    BY <1>2, <1>3, <1>4
  <1>6. Here'.params = ToUrl(chosen)
    BY <1>2, <1>5 DEF Here, Entries
  <1>7. history' # <<>> /\ 1 \in 1..MaxPages
    BY <1>2, <1>5
  <1> QED BY <1>1, <1>5, <1>6, <1>7, FilterAndUrl

(* The inductive invariant of Catalogue.                                   *)
THEOREM CatalogueInvariance == CatalogueSpec => []CatalogueInv
<1> USE CatalogueAssumption
<1>1. CatalogueInit => CatalogueInv
  <2> SUFFICES ASSUME CatalogueInit PROVE CatalogueInv
    OBVIOUS
  <2>1. history \in Seq(Entries) /\ history # <<>> /\ Here.path = "home"
    BY FilterAndUrl DEF CatalogueInit, Entries, Here
  <2>2. listPage \in 1..MaxPages /\ results \in Results /\ filter \in Filters
    BY FilterAndUrl DEF CatalogueInit, Loading, Results
  <2>3. slide \in 1..Slides /\ detail \in [image : 1..Images, faq : 0..Faqs]
    BY DEF CatalogueInit, NoDetail
  <2> QED BY <2>1, <2>2, <2>3 DEF CatalogueInv, CatalogueTypeOK, FiltersAlike
<1>2. CatalogueInv /\ [CatalogueNext]_catalogueVars => CatalogueInv'
  <2> SUFFICES ASSUME CatalogueInv, [CatalogueNext]_catalogueVars
               PROVE  CatalogueInv'
    OBVIOUS
  <2> USE DEF CatalogueInv
  <2>1. ASSUME NEW entry \in Entries, Follow(entry)
        PROVE  CatalogueInv'
    <3>1. Append(history, entry) \in Seq(Entries) /\ Append(history, entry) # <<>>
      BY DEF CatalogueTypeOK
    <3> QED BY <2>1, <3>1, Arriving DEF Follow
  <2>2. CASE (\E params \in Params : OpenList(params)) \/ OpenHome \/ OpenProduct
    <3>1. PICK entry \in Entries : Follow(entry)
      BY <2>2, FilterAndUrl DEF OpenList, OpenHome, OpenProduct, Entries
    <3> QED BY <2>1, <3>1
  <2>3. CASE GoBack
    <3>1. /\ SubSeq(history, 1, Len(history) - 1) \in Seq(Entries)
          /\ SubSeq(history, 1, Len(history) - 1) # <<>>
      <4> DEFINE before == SubSeq(history, 1, Len(history) - 1)
      <4>1. Len(history) \in Nat /\ Len(history) > 1
        BY <2>3 DEF GoBack, CatalogueTypeOK
      <4>2. before \in Seq(Entries) /\ Len(before) = Len(history) - 1
        <5>1. Len(history) - 1 \in Int /\ 1 \in Int /\ 1 <= Len(history) - 1
          BY <4>1
        <5>2. \A i \in 1..(Len(history) - 1) : history[i] \in Entries
          BY <4>1 DEF CatalogueTypeOK
        <5> QED BY <4>1, <5>1, <5>2, SubSeqProperties
      <4>3. Len(<<>>) = 0
        OBVIOUS
      <4> HIDE DEF before
      <4>4. before # <<>>
        BY <4>1, <4>2, <4>3
      <4> QED BY <4>2, <4>4 DEF before
    <3> QED BY <2>3, <3>1, Arriving DEF GoBack
  <2>4. ASSUME NEW chosen \in Filters, ListShown, Refilter(chosen)
        PROVE  CatalogueInv'
    BY <2>4, Refiltering DEF ListShown
  <2>5. CASE \/ ClearFilters
             \/ \E f \in Fields, v \in Values : ChangeFilter(f, v)
             \/ \E f \in Fields, v \in Values \cup {Unset} : TypePrice(f, v)
             \/ \E range \in [PriceFields -> Values \cup {Unset}] : ChooseRange(range)
    <3>1. CASE ClearFilters
      <4>1. [NoFilter EXCEPT !["searchText"] = filter["searchText"]] \in Filters
        BY FilterAndUrl DEF CatalogueTypeOK, Filters
      <4> QED BY <2>4, <3>1, <4>1 DEF ClearFilters
    <3>2. ASSUME NEW f \in Fields, NEW v \in Values, ChangeFilter(f, v)
          PROVE  CatalogueInv'
      <4>1. [filter EXCEPT ![f] = IF @ = v THEN Unset ELSE v] \in Filters
        BY DEF CatalogueTypeOK, Filters
      <4> QED BY <2>4, <3>2, <4>1 DEF ChangeFilter
    <3>3. ASSUME NEW f \in Fields, NEW v \in Values \cup {Unset}, TypePrice(f, v)
          PROVE  CatalogueInv'
      <4>1. [filter EXCEPT ![f] = v] \in Filters
        BY DEF CatalogueTypeOK, Filters
      <4> QED BY <2>4, <3>3, <4>1 DEF TypePrice
    <3>4. ASSUME NEW range \in [PriceFields -> Values \cup {Unset}], ChooseRange(range)
          PROVE  CatalogueInv'
      <4> DEFINE active == \A f \in PriceFields : filter[f] = range[f]
                 next == [f \in Fields |-> IF f \notin PriceFields THEN filter[f]
                                          ELSE IF active THEN Unset ELSE range[f]]
      <4>1. next \in Filters
        BY DEF CatalogueTypeOK, Filters
      <4>2. ListShown /\ Refilter(next)
        BY <3>4 DEF ChooseRange
      <4> QED BY <2>4, <4>1, <4>2
    <3> QED BY <2>5, <3>1, <3>2, <3>3, <3>4
  <2>6. CASE SearchAnswered \/ SearchRefreshed \/ \E n \in 1..MaxPages : GoToPage(n)
    <3>1. UNCHANGED <<history, filter, slide, detail>>
      BY <2>6 DEF SearchAnswered, SearchRefreshed, GoToPage
    <3>2. listPage' \in 1..MaxPages /\ results' \in Results
      BY <2>6 DEF SearchAnswered, SearchRefreshed, GoToPage, Loading, Results, CatalogueTypeOK
    <3> QED BY <3>1, <3>2 DEF CatalogueTypeOK, FiltersAlike, Here
  <2>7. CASE ShowSlide
    <3>1. UNCHANGED <<history, filter, listPage, results, detail>>
          /\ slide' \in {NextSlide, PrevSlide} \cup 1..Slides
      BY <2>7 DEF ShowSlide
    <3>2. \A n \in Nat : n % Slides \in 0..(Slides - 1)
      OBVIOUS
    <3>3. NextSlide \in 1..Slides /\ PrevSlide \in 1..Slides
      <4>1. slide \in Nat /\ slide + Slides - 2 \in Nat
        BY DEF CatalogueTypeOK
      <4> QED BY <3>2, <4>1 DEF NextSlide, PrevSlide
    <3> QED BY <3>1, <3>3 DEF CatalogueTypeOK, FiltersAlike, Here
  <2>8. CASE (\E i \in 1..Images : SelectImage(i)) \/ (\E i \in 1..Faqs : ToggleFaq(i))
    <3>1. UNCHANGED <<history, filter, listPage, results, slide>>
      BY <2>8 DEF SelectImage, ToggleFaq
    <3>2. detail' \in [image : 1..Images, faq : 0..Faqs]
      BY <2>8 DEF SelectImage, ToggleFaq, CatalogueTypeOK
    <3> QED BY <3>1, <3>2 DEF CatalogueTypeOK, FiltersAlike, Here
  <2>9. CASE UNCHANGED catalogueVars
    BY <2>9 DEF catalogueVars, CatalogueTypeOK, FiltersAlike, Here
  <2> QED
    BY <2>2, <2>3, <2>5, <2>6, <2>7, <2>8, <2>9 DEF CatalogueNext
<1> QED BY <1>1, <1>2, PTL DEF CatalogueSpec

(* The filters the list applies are those of the address bar, and a control *)
(* of the sidebar changes its own field only, also where the effect reads   *)
(* back the address the control has written.                                *)
THEOREM FiltersAgree == CatalogueSpec => FilterFollowsUrl
<1> DEFINE Others == \A f \in Fields, v \in Values \cup {Unset} :
                       ChangeFilter(f, v) \/ TypePrice(f, v)
                         => \A g \in Fields \ {f} : filter'[g] = filter[g]
<1>1. CatalogueInv => FiltersAlike
  BY DEF CatalogueInv
<1>2. ASSUME CatalogueInv, NEW f \in Fields, NEW v \in Values \cup {Unset},
             ChangeFilter(f, v) \/ TypePrice(f, v), NEW g \in Fields \ {f}
      PROVE  filter'[g] = filter[g]
  <2>1. PICK w \in Values \cup {Unset} : Refilter([filter EXCEPT ![f] = w])
    BY <1>2 DEF ChangeFilter, TypePrice, CatalogueInv, CatalogueTypeOK, Filters
  <2>2. [filter EXCEPT ![f] = w] \in Filters /\ filter \in Filters
    BY <1>2 DEF CatalogueInv, CatalogueTypeOK, Filters
  <2>3. filter' = [filter EXCEPT ![f] = w]
    BY <2>1, <2>2, FilterAndUrl DEF Refilter
  <2> QED BY <2>2, <2>3 DEF Filters
<1>3. CatalogueInv /\ [CatalogueNext]_catalogueVars => [Others]_catalogueVars
  BY <1>2
<1> QED BY <1>1, <1>3, CatalogueInvariance, PTL DEF CatalogueSpec, FilterFollowsUrl

---------------------------------------------------------------------------
(* SellerOnboarding. *)

(* Messages and requests follow the account; who is at work holds a copy.  *)
AccountFirst ==
  /\ enrolling \in {"created", "announced"} => sellerAccount # NoAccount
  /\ \A c \in Checks :
        /\ verifying[c].phase # "none" => sellerAccount # NoAccount
        /\ verifying[c].phase \in {"read", "processing"} => verifying[c].seen # NoAccount
  /\ \A r \in Changes :
        changing[r].phase = "read" => sellerAccount # NoAccount /\ changing[r].seen # NoAccount

(* An account that is not active, and that no request has stored, is one   *)
(* the document's verification has not ended with.                         *)
PendingIsUnfinished ==
  sellerAccount # NoAccount /\ storedBy # "request" /\ sellerAccount.status # "Active"
    => sellerAccount.verification # "Verified" /\ verifying["document"].phase # "done"

OnboardingInv == OnboardingTypeOK /\ AccountFirst /\ PendingIsUnfinished

(* What each verification makes of an account.                             *)
LEMMA AccountsWritten ==
  ASSUME NEW a \in Accounts
  PROVE  /\ UnderWay(a) \in Accounts /\ UnderWay(a).verification = "Processing"
         /\ Verified(a) \in Accounts /\ Verified(a).status = "Active"
         /\ Billed(a) \in Accounts /\ Billed(a).status = "Active"
  BY DEF Accounts, SellerStatuses, UnderWay, Verified, Billed

(* A delivery that moves on, with a copy of the account or without.        *)
LEMMA DeliveryMoves ==
  ASSUME OnboardingTypeOK, NEW c \in Checks,
         NEW phase \in {"none", "sent", "read", "processing", "done"},
         NEW seen \in Accounts \cup {NoAccount}, Moves(c, phase, seen)
  PROVE  /\ verifying' \in [Checks -> Deliveries]
         /\ verifying'[c].phase = phase /\ verifying'[c].seen = seen
         /\ \A d \in Checks : d # c => verifying'[d] = verifying[d]
  BY DEF OnboardingTypeOK, Moves, Deliveries

(* The inductive invariant of SellerOnboarding.                            *)
THEOREM OnboardingInvariance == OnboardingSpec => []OnboardingInv
<1> USE OnboardingAssumption
<1>1. OnboardingInit => OnboardingInv
  <2> SUFFICES ASSUME OnboardingInit PROVE OnboardingInv
    OBVIOUS
  <2>1. verifying \in [Checks -> Deliveries] /\ changing \in [Changes -> Deliveries]
    BY DEF OnboardingInit, Deliveries, Unread
  <2>2. "document" \in Checks /\ \A c \in Checks : verifying[c].phase = "none"
                                              /\ verifying[c].seen = NoAccount
    BY DEF OnboardingInit, Checks, Unread
  <2>3. OnboardingTypeOK
    BY <2>1 DEF OnboardingInit, OnboardingTypeOK, RegistrationPage, Untouched
  <2>4. \A r \in Changes : changing[r].phase = "none"
    BY DEF OnboardingInit, Unread
  <2> QED
    BY <2>2, <2>3, <2>4 DEF OnboardingInit, OnboardingInv, AccountFirst, PendingIsUnfinished
<1>2. OnboardingInv /\ [OnboardingNext]_onboardingVars => OnboardingInv'
  <2> SUFFICES ASSUME OnboardingInv, [OnboardingNext]_onboardingVars
               PROVE  OnboardingInv'
    OBVIOUS
  <2> USE DEF OnboardingInv
  <2>1. CASE \/ \E d \in Documents : SelectFile(d)
             \/ Analyse \/ Analysed \/ BackToUpload
             \/ SubmitRegistration \/ RegistrationAnswered \/ ReopenRegistration \/ SellerFetched
    <3>1. /\ UNCHANGED <<sellerAccount, verifying, changing, storedBy, failures>>
          /\ enrolling' = enrolling \/ enrolling' \in {"idle", "sent"}
      BY <2>1 DEF SelectFile, Analyse, Analysed, BackToUpload, SubmitRegistration,
         RegistrationAnswered, ReopenRegistration, SellerFetched, Server
    <3>2. registration' \in RegistrationPage
      <4> USE DEF OnboardingTypeOK, RegistrationPage
      <4>1. CASE \E d \in Documents : SelectFile(d)
        BY <4>1 DEF SelectFile
      <4>2. CASE Analyse \/ BackToUpload
        BY <4>2 DEF Analyse, BackToUpload
      <4>3. CASE Analysed
        BY <4>3 DEF Analysed
      <4>4. CASE SubmitRegistration \/ SellerFetched
        BY <4>4 DEF SubmitRegistration, SellerFetched
      <4>5. CASE RegistrationAnswered
        <5>1. registration' \in {registration, [registration EXCEPT !.step = "success"]}
          BY <4>5 DEF RegistrationAnswered
        <5> QED BY <5>1
      <4>6. CASE ReopenRegistration
        BY <4>6 DEF ReopenRegistration, Untouched
      <4> QED BY <2>1, <4>1, <4>2, <4>3, <4>4, <4>5, <4>6
    <3>3. known' \in {"unknown", "absent"} \cup SellerStatuses
      BY <2>1 DEF SelectFile, Analyse, Analysed, BackToUpload, SubmitRegistration,
         RegistrationAnswered, ReopenRegistration, SellerFetched, Server, OnboardingTypeOK, Accounts
    <3>4. OnboardingTypeOK'
      BY <3>1, <3>2, <3>3 DEF OnboardingTypeOK
    <3> QED BY <3>1, <3>4 DEF AccountFirst, PendingIsUnfinished
  <2>2. CASE CreateAccount
    <3>1. UNCHANGED <<registration, verifying, changing, failures, known>>
      BY <2>2 DEF CreateAccount
    <3>2. CASE sellerAccount = NoAccount
      <4> DEFINE new == [status |-> "PendingApproval", verification |-> "Pending", notes |-> "none"]
      <4>1. enrolling' = "created" /\ sellerAccount' = new /\ storedBy' = "registration"
        BY <2>2, <3>2 DEF CreateAccount
      <4>2. new \in Accounts /\ new.verification = "Pending"
        BY DEF Accounts, SellerStatuses
      <4>3. \A c \in Checks : verifying[c].phase = "none"
        BY <3>2 DEF AccountFirst
      <4> QED
        BY <3>1, <4>1, <4>2, <4>3 DEF OnboardingTypeOK, AccountFirst,
           PendingIsUnfinished, Checks
    <3>3. CASE sellerAccount # NoAccount
      <4>1. enrolling' = "refused" /\ UNCHANGED <<sellerAccount, storedBy>>
        BY <2>2, <3>3 DEF CreateAccount
      <4> QED
        BY <3>1, <4>1 DEF OnboardingTypeOK, AccountFirst, PendingIsUnfinished
    <3> QED BY <3>2, <3>3
  <2>3. ASSUME NEW c \in Checks, enrolling \in {"created", "announced"},
               enrolling' \in {"announced", "accepted"}, verifying' = Deliver(c),
               UNCHANGED <<registration, sellerAccount, changing, storedBy, failures, known>>
        PROVE  OnboardingInv'
    <3>1. /\ verifying' \in [Checks -> Deliveries]
          /\ verifying'[c].phase = "sent" /\ verifying'[c].seen = verifying[c].seen
          /\ \A d \in Checks : d # c => verifying'[d] = verifying[d]
      BY <2>3 DEF Deliver, OnboardingTypeOK, Deliveries
    <3>2. OnboardingTypeOK'
      BY <2>3, <3>1 DEF OnboardingTypeOK
    <3>3. AccountFirst'
      BY <2>3, <3>1 DEF AccountFirst
    <3>4. PendingIsUnfinished'
      BY <2>3, <3>1 DEF PendingIsUnfinished, Checks
    <3> QED BY <3>2, <3>3, <3>4
  <2>4. CASE Announce
    <3>1. PICK c \in Checks : /\ enrolling \in {"created", "announced"}
                              /\ enrolling' \in {"announced", "accepted"}
                              /\ verifying' = Deliver(c)
      BY <2>4 DEF Announce, Checks
    <3>2. UNCHANGED <<registration, sellerAccount, changing, storedBy, failures, known>>
      BY <2>4 DEF Announce
    <3> QED BY <2>3, <3>1, <3>2
  <2>5. CASE AnnounceFails
    BY <2>5 DEF AnnounceFails, OnboardingTypeOK, AccountFirst, PendingIsUnfinished
  <2>6. ASSUME NEW c \in Checks, ReadAccount(c)
        PROVE  OnboardingInv'
    <3>1. /\ sellerAccount # NoAccount /\ sellerAccount \in Accounts
          /\ UNCHANGED <<registration, enrolling, sellerAccount, changing, storedBy,
                         failures, known>>
      BY <2>6 DEF ReadAccount, Consumer, AccountFirst, OnboardingTypeOK
    <3>2. CASE Completed(c, sellerAccount)
      <4>1. Moves(c, "done", NoAccount)
        BY <2>6, <3>2 DEF ReadAccount
      <4>2. c = "document" => sellerAccount.verification = "Verified"
        BY <3>2 DEF Completed
      <4>3. /\ verifying' \in [Checks -> Deliveries]
            /\ verifying'[c].phase = "done" /\ verifying'[c].seen = NoAccount
            /\ \A d \in Checks : d # c => verifying'[d] = verifying[d]
        BY <4>1, DeliveryMoves
      <4> QED
        BY <3>1, <4>2, <4>3 DEF OnboardingTypeOK, AccountFirst,
           PendingIsUnfinished, Checks
    <3>3. CASE ~Completed(c, sellerAccount)
      <4>1. Moves(c, "read", sellerAccount)
        BY <2>6, <3>3 DEF ReadAccount
      <4>2. /\ verifying' \in [Checks -> Deliveries]
            /\ verifying'[c].phase = "read" /\ verifying'[c].seen = sellerAccount
            /\ \A d \in Checks : d # c => verifying'[d] = verifying[d]
        BY <3>1, <4>1, DeliveryMoves
      <4> QED
        BY <3>1, <4>2 DEF OnboardingTypeOK, AccountFirst,
           PendingIsUnfinished, Checks
    <3> QED BY <3>2, <3>3
  <2>7. ASSUME NEW c \in Checks, NEW phase \in {"processing", "done"}, NEW record \in Accounts,
               NEW seen \in Accounts \cup {NoAccount}, Stores(record),
               phase = "processing" =>
                 seen # NoAccount /\ c = "document" /\ record.verification = "Processing",
               phase = "done" => record.status = "Active",
               Moves(c, phase, seen), Consumer
        PROVE  OnboardingInv'
    <3>1. /\ verifying' \in [Checks -> Deliveries]
          /\ verifying'[c].phase = phase /\ verifying'[c].seen = seen
          /\ \A d \in Checks : d # c => verifying'[d] = verifying[d]
      BY <2>7, DeliveryMoves
    <3>2. /\ UNCHANGED <<registration, enrolling, changing, failures, known>>
          /\ sellerAccount' = record /\ storedBy' = "verification"
      BY <2>7 DEF Consumer, Stores
    <3>3. OnboardingTypeOK'
      BY <2>7, <3>1, <3>2 DEF OnboardingTypeOK
    <3>4. AccountFirst'
      BY <2>7, <3>1, <3>2 DEF AccountFirst
    <3>5. PendingIsUnfinished'
      BY <2>7, <3>1, <3>2 DEF PendingIsUnfinished, Checks
    <3> QED BY <3>3, <3>4, <3>5
  <2>8. ASSUME NEW c \in Checks, verifying[c].phase \in {"read", "processing"}
        PROVE  /\ verifying[c].seen \in Accounts /\ verifying[c].seen # NoAccount
    BY <2>8 DEF AccountFirst, OnboardingTypeOK, Deliveries
  <2>9. CASE StoreProcessing \/ StoreVerified \/ StoreBilled
    <3>1. CASE StoreProcessing
      BY <2>7, <2>8, <2>9, <3>1, AccountsWritten DEF StoreProcessing, Checks
    <3>2. CASE StoreVerified
      BY <2>7, <2>8, <2>9, <3>2, AccountsWritten DEF StoreVerified, Checks
    <3>3. CASE StoreBilled
      BY <2>7, <2>8, <2>9, <3>3, AccountsWritten DEF StoreBilled, Checks
    <3> QED BY <2>9, <3>1, <3>2, <3>3
  <2>10. ASSUME NEW c \in Checks, ConsumerStops(c)
         PROVE  OnboardingInv'
    <3>1. /\ verifying' \in [Checks -> Deliveries]
          /\ verifying'[c].phase = "sent" /\ verifying'[c].seen = NoAccount
          /\ \A d \in Checks : d # c => verifying'[d] = verifying[d]
      BY <2>10, DeliveryMoves DEF ConsumerStops
    <3>2. /\ verifying[c].phase # "none" /\ failures' = failures + 1
          /\ UNCHANGED <<registration, enrolling, sellerAccount, changing, storedBy, known>>
      BY <2>10 DEF ConsumerStops
    <3> QED
      BY <3>1, <3>2 DEF OnboardingTypeOK, AccountFirst, PendingIsUnfinished, Checks
  <2>11. ASSUME NEW r \in Changes, ReadToChange(r)
         PROVE  OnboardingInv'
    <3>1. /\ UNCHANGED <<registration, enrolling, sellerAccount, verifying, storedBy, failures, known>>
          /\ sellerAccount # NoAccount /\ sellerAccount \in Accounts
          /\ changing' = [changing EXCEPT ![r] = [phase |-> "read", seen |-> sellerAccount]]
      BY <2>11 DEF ReadToChange, Request, OnboardingTypeOK
    <3>2. OnboardingTypeOK'
      BY <3>1 DEF OnboardingTypeOK, Deliveries
    <3>3. AccountFirst'
      BY <3>1 DEF OnboardingTypeOK, Deliveries, AccountFirst
    <3> QED BY <3>1, <3>2, <3>3 DEF PendingIsUnfinished
  <2>12. ASSUME NEW r \in Changes, StoreChange(r)
         PROVE  OnboardingInv'
    <3>1. PICK status \in SellerStatuses : sellerAccount' = [changing[r].seen EXCEPT !.status = status]
      BY <2>12 DEF StoreChange
    <3>2. /\ UNCHANGED <<registration, enrolling, verifying, failures, known>>
          /\ storedBy' = "request"
          /\ changing' = [changing EXCEPT ![r] = [phase |-> "done", seen |-> NoAccount]]
          /\ changing[r].seen \in Accounts /\ sellerAccount # NoAccount
      BY <2>12 DEF StoreChange, Request, OnboardingTypeOK, AccountFirst, Deliveries
    <3>3. sellerAccount' \in Accounts
      BY <3>1, <3>2 DEF Accounts
    <3>4. sellerAccount' # NoAccount
      BY <3>3
    <3>5. OnboardingTypeOK'
      BY <3>2, <3>3 DEF OnboardingTypeOK, Deliveries
    <3>6. AccountFirst'
      BY <3>2, <3>4 DEF OnboardingTypeOK, Deliveries, AccountFirst
    <3> QED BY <3>2, <3>5, <3>6 DEF PendingIsUnfinished
  <2>13. CASE UNCHANGED onboardingVars
    BY <2>13 DEF onboardingVars, OnboardingTypeOK, AccountFirst, PendingIsUnfinished
  <2> QED
    BY <2>1, <2>2, <2>4, <2>5, <2>6, <2>9, <2>10, <2>11, <2>12, <2>13
       DEF OnboardingNext
<1> QED BY <1>1, <1>2, PTL DEF OnboardingSpec

(* Neither verification leaves a seller pending, whichever of the two or   *)
(* of the requests overwrote the other and however often each was repeated:*)
(* an account that is not active once the document's verification has      *)
(* ended was stored by a request (SellerRepository.UpdateAsync).           *)
THEOREM VerifiedSellers == OnboardingSpec => []VerifiedSellerIsActive
<1>1. OnboardingInv => VerifiedSellerIsActive
  BY DEF OnboardingInv, AccountFirst, PendingIsUnfinished, VerifiedSellerIsActive, Checks
<1> QED BY <1>1, OnboardingInvariance, PTL

---------------------------------------------------------------------------
(* SalesDesk. *)

(* One report is under way at a time.                                      *)
OneReport ==
  \A t, u \in tasks : t.button = "report" /\ u.button = "report" => t = u

(* The issue that is reported is a package's.                              *)
DialogHasPackage == dialog.kind = "issue" => dialog.of \in Parcels

SalesInv ==
  /\ SalesTypeOK /\ OneReport /\ DialogHasPackage /\ IssueAnswerClosesItsOwnDialog

(* A request in another phase is the same button's for the same package.   *)
LEMMA TaskMoves ==
  ASSUME SalesInv, NEW t \in tasks, NEW phase \in {"sent", "served", "failed"},
         tasks' = WithPhase(t, phase), dialog' = dialog
  PROVE  tasks' \subseteq Tasks /\ OneReport' /\ IssueAnswerClosesItsOwnDialog'
  <1> DEFINE task == [t EXCEPT !.phase = phase]
  <1>1. task \in Tasks /\ task.button = t.button /\ task.of = t.of
    BY DEF SalesInv, SalesTypeOK, Tasks
  <1>2. tasks' = (tasks \ {t}) \cup {task}
    BY DEF WithPhase
  <1> HIDE DEF task
  <1>3. tasks' \subseteq Tasks
    BY <1>1, <1>2 DEF SalesInv, SalesTypeOK
  <1>4. OneReport'
    BY <1>1, <1>2 DEF SalesInv, OneReport
  <1>5. IssueAnswerClosesItsOwnDialog'
    BY <1>1, <1>2 DEF SalesInv, IssueAnswerClosesItsOwnDialog
  <1> QED BY <1>3, <1>4, <1>5

(* A request sent by a button that has none under way.                     *)
LEMMA TaskSent ==
  ASSUME SalesInv, NEW b \in Buttons, NEW o \in Parcels, ~IsPending(b), Submit(b, o),
         dialog' = dialog, b = "report" => dialog.of = o
  PROVE  tasks' \subseteq Tasks /\ OneReport' /\ IssueAnswerClosesItsOwnDialog'
  <1> DEFINE new == [button |-> b, of |-> o, phase |-> "sent"]
  <1>1. new \in Tasks /\ new.button = b /\ new.of = o
    BY DEF Tasks
  <1>2. tasks' = tasks \cup {new} /\ \A t \in tasks : t.button # b
    BY DEF Submit, IsPending
  <1> HIDE DEF new
  <1>3. tasks' \subseteq Tasks
    BY <1>1, <1>2 DEF SalesInv, SalesTypeOK
  <1>4. OneReport'
    BY <1>1, <1>2 DEF SalesInv, OneReport
  <1>5. IssueAnswerClosesItsOwnDialog'
    BY <1>1, <1>2 DEF SalesInv, IssueAnswerClosesItsOwnDialog
  <1> QED BY <1>3, <1>4, <1>5

(* The inductive invariant of SalesDesk.                                   *)
THEOREM SalesInvariance == SalesSpec => []SalesInv
<1> USE SalesAssumption
<1>1. SalesInit => SalesInv
  BY DEF SalesInit, SalesInv, SalesTypeOK, OneReport, DialogHasPackage, NoDialog,
     IssueAnswerClosesItsOwnDialog
<1>2. SalesInv /\ [SalesNext]_salesVars => SalesInv'
  <2> SUFFICES ASSUME SalesInv, [SalesNext]_salesVars
               PROVE  SalesInv'
    OBVIOUS
  <2> USE DEF SalesInv
  <2>1. ASSUME NEW b \in Buttons, NEW o \in Parcels, ~IsPending(b), Submit(b, o),
               UNCHANGED <<parcel, rows, dialog, tableVars>>, b = "report" => dialog.of = o
        PROVE  SalesInv'
    <3>1. tasks' \subseteq Tasks /\ OneReport' /\ IssueAnswerClosesItsOwnDialog'
      BY <2>1, TaskSent
    <3> QED BY <2>1, <3>1 DEF SalesTypeOK, DialogHasPackage, tableVars
  <2>2. ASSUME NEW o \in Parcels, ConfirmParcel(o) \/ MarkReady(o)
        PROVE  SalesInv'
    BY <2>1, <2>2 DEF ConfirmParcel, MarkReady, Buttons
  <2>3. CASE SubmitIssue
    BY <2>1, <2>3 DEF SubmitIssue, Buttons, DialogHasPackage
  <2>4. ASSUME UNCHANGED <<parcel, rows, tasks, tableVars>>,
               dialog' \in [kind : {"none", "details", "issue", "tracking"},
                            of : Parcels \cup {NoParcel}, text : BOOLEAN],
               dialog'.kind = "issue" =>
                 /\ dialog'.of \in Parcels
                 /\ \/ \A t \in tasks : t.button # "report"
                    \/ dialog.kind = "issue" /\ dialog'.of = dialog.of
        PROVE  SalesInv'
    BY <2>4 DEF SalesTypeOK, OneReport, DialogHasPackage, IssueAnswerClosesItsOwnDialog, tableVars
  <2>5. ASSUME NEW o \in Parcels, OpenDetails(o) \/ OpenTracking(o)
        PROVE  SalesInv'
    <3>1. PICK kind \in {"details", "tracking"} :
            dialog' = [kind |-> kind, of |-> o, text |-> FALSE]
      BY <2>5 DEF OpenDetails, OpenTracking, Open
    <3>2. UNCHANGED <<parcel, rows, tasks, tableVars>>
      BY <2>5 DEF OpenDetails, OpenTracking
    <3> QED BY <2>4, <3>1, <3>2
  <2>6. ASSUME NEW o \in Parcels, OpenIssue(o)
        PROVE  SalesInv'
    BY <2>4, <2>6 DEF OpenIssue, Open, MayReport, IsPending
  <2>7. CASE TypeIssue
    <3>1. PICK text \in BOOLEAN : dialog' = [dialog EXCEPT !.text = text]
      BY <2>7 DEF TypeIssue
    <3>2. /\ dialog' \in [kind : {"none", "details", "issue", "tracking"},
                           of : Parcels \cup {NoParcel}, text : BOOLEAN]
          /\ dialog'.of = dialog.of /\ dialog'.kind = dialog.kind
      BY <3>1 DEF SalesTypeOK
    <3> QED BY <2>4, <2>7, <3>2 DEF TypeIssue, DialogHasPackage
  <2>8. CASE CloseDialog
    BY <2>4, <2>8 DEF CloseDialog, NoDialog
  <2>9. CASE RowsFetched \/ LeaveDesk \/ ReturnToDesk
             \/ (\E s \in SearchTerms \cup {"all"} : SearchRows(s))
             \/ (\E n \in 1..Cardinality(Parcels) : GoToRows(n))
    <3>1. UNCHANGED <<parcel, tasks, dialog>>
      BY <2>9 DEF RowsFetched, LeaveDesk, ReturnToDesk, SearchRows, GoToRows
    <3>2. rows' \in [Parcels -> Stages \cup {"none"}]
      BY <2>9 DEF RowsFetched, LeaveDesk, ReturnToDesk, SearchRows, GoToRows, SalesTypeOK
    <3>3. term' \in SearchTerms \cup {"all"} /\ deskOpen' \in BOOLEAN
      BY <2>9, Zenon DEF RowsFetched, LeaveDesk, ReturnToDesk, SearchRows, GoToRows, SalesTypeOK,
         tableVars
    <3>4. salesPage' \in Nat \ {0}
      BY <2>9 DEF RowsFetched, LeaveDesk, ReturnToDesk, SearchRows, GoToRows, SalesTypeOK,
         tableVars
    <3> QED
      BY <3>1, <3>2, <3>3, <3>4 DEF SalesTypeOK, OneReport, DialogHasPackage,
         IssueAnswerClosesItsOwnDialog
  <2>10. ASSUME NEW o \in Parcels, PreparePackage(o)
         PROVE  SalesInv'
    <3>1. parcel' \in [Parcels -> Stages \cup {"none"}]
      BY <2>10 DEF PreparePackage, SalesTypeOK, Stages
    <3> QED
      BY <2>10, <3>1 DEF PreparePackage, SalesTypeOK, OneReport, DialogHasPackage,
         IssueAnswerClosesItsOwnDialog, tableVars
  <2>11. ASSUME NEW t \in tasks, ServeTask(t)
         PROVE  SalesInv'
    <3>1. UNCHANGED <<rows, dialog, tableVars>>
      BY <2>11 DEF ServeTask
    <3>2. PICK phase \in {"served", "failed"} : tasks' = WithPhase(t, phase)
      BY <2>11 DEF ServeTask
    <3>3. tasks' \subseteq Tasks /\ OneReport' /\ IssueAnswerClosesItsOwnDialog'
      BY <3>1, <3>2, TaskMoves
    <3>4. parcel' \in [Parcels -> Stages \cup {"none"}]
      <4>1. t.button \in Buttons /\ t.of \in Parcels
        BY DEF SalesTypeOK, Tasks
      <4>2. Outcome(t.button) \in Stages
        BY <4>1 DEF Outcome, Buttons, Stages
      <4>3. parcel' = parcel \/ parcel' = [parcel EXCEPT ![t.of] = Outcome(t.button)]
        BY <2>11 DEF ServeTask
      <4> QED BY <4>1, <4>2, <4>3 DEF SalesTypeOK
    <3> QED BY <3>1, <3>3, <3>4 DEF SalesTypeOK, DialogHasPackage, tableVars
  <2>12. ASSUME NEW t \in tasks, TaskAnswered(t)
         PROVE  SalesInv'
    <3>1. /\ tasks' = tasks \ {t} /\ UNCHANGED <<parcel, rows, tableVars>>
          /\ dialog' = dialog \/ dialog' = NoDialog
      BY <2>12 DEF TaskAnswered
    <3>2. tasks' \subseteq Tasks
      BY <3>1 DEF SalesTypeOK
    <3>3. dialog' \in [kind : {"none", "details", "issue", "tracking"},
                       of : Parcels \cup {NoParcel}, text : BOOLEAN]
      <4>1. NoDialog \in [kind : {"none", "details", "issue", "tracking"},
                         of : Parcels \cup {NoParcel}, text : BOOLEAN]
        BY DEF NoDialog
      <4> QED BY <3>1, <4>1 DEF SalesTypeOK
    <3>4. SalesTypeOK'
      BY <3>1, <3>2, <3>3 DEF SalesTypeOK, tableVars
    <3> QED
      BY <3>1, <3>4 DEF OneReport, DialogHasPackage, NoDialog, IssueAnswerClosesItsOwnDialog
  <2>13. CASE UNCHANGED salesVars
    BY <2>13 DEF salesVars, tableVars, SalesTypeOK, OneReport, DialogHasPackage,
       IssueAnswerClosesItsOwnDialog
  <2> QED
    BY <2>2, <2>3, <2>5, <2>6, <2>7, <2>8, <2>9, <2>10, <2>11, <2>12, <2>13 DEF SalesNext
<1> QED BY <1>1, <1>2, PTL DEF SalesSpec

(* A report under way can only close the dialog it was made in.            *)
THEOREM OwnDialogCloses == SalesSpec => []IssueAnswerClosesItsOwnDialog
<1>1. SalesInv => IssueAnswerClosesItsOwnDialog
  BY DEF SalesInv
<1> QED BY <1>1, SalesInvariance, PTL

---------------------------------------------------------------------------
(* ProductEditor. *)

(* The elements of a sequence; each stands in it once.                     *)
Listed(s)   == {s[i] : i \in DOMAIN s}
OnceEach(s) == \A i, j \in DOMAIN s : s[i] = s[j] => i = j

(* Removing an element: what is left keeps its order.                      *)
LEMMA RemovedAt ==
  ASSUME NEW S, NEW s \in Seq(S), NEW i \in 1..Len(s)
  PROVE  /\ RemoveAt(s, i) \in Seq(S) /\ Len(RemoveAt(s, i)) = Len(s) - 1
         /\ \A j \in 1..(Len(s) - 1) : RemoveAt(s, i)[j] = IF j < i THEN s[j] ELSE s[j + 1]
<1> DEFINE left  == SubSeq(s, 1, i - 1)
           right == SubSeq(s, i + 1, Len(s))
<1>1. Len(s) \in Nat /\ i \in Nat /\ i >= 1 /\ i <= Len(s)
  BY LenProperties
<1>2. /\ left \in Seq(S) /\ Len(left) = i - 1
      /\ \A j \in 1..(i - 1) : left[j] = s[j]
  <2>1. \A j \in 1..(i - 1) : s[j] \in S
    BY <1>1, ElementOfSeq
  <2>2. /\ left \in Seq(S) /\ Len(left) = (IF 1 <= i - 1 THEN (i - 1) - 1 + 1 ELSE 0)
        /\ \A j \in 1..((i - 1) - 1 + 1) : left[j] = s[1 + j - 1]
    BY <1>1, <2>1, SubSeqProperties
  <2> QED BY <1>1, <2>2
<1>3. /\ right \in Seq(S) /\ Len(right) = Len(s) - i
      /\ \A j \in 1..(Len(s) - i) : right[j] = s[i + j]
  <2>1. \A j \in (i + 1)..Len(s) : s[j] \in S
    BY <1>1, ElementOfSeq
  <2>2. /\ right \in Seq(S)
        /\ Len(right) = (IF i + 1 <= Len(s) THEN Len(s) - (i + 1) + 1 ELSE 0)
        /\ \A j \in 1..(Len(s) - (i + 1) + 1) : right[j] = s[i + 1 + j - 1]
    BY <1>1, <2>1, SubSeqProperties
  <2> QED BY <1>1, <2>2
<1>4. /\ left \o right \in Seq(S) /\ Len(left \o right) = Len(left) + Len(right)
      /\ \A j \in 1..(Len(left) + Len(right)) :
           (left \o right)[j] = IF j <= Len(left) THEN left[j] ELSE right[j - Len(left)]
  BY <1>2, <1>3, ConcatProperties
<1> HIDE DEF left, right
<1>5. Len(left) + Len(right) = Len(s) - 1
  BY <1>1, <1>2, <1>3
<1>6. ASSUME NEW j \in 1..(Len(s) - 1)
      PROVE  (left \o right)[j] = IF j < i THEN s[j] ELSE s[j + 1]
  <2>1. (left \o right)[j] = IF j <= i - 1 THEN left[j] ELSE right[j - (i - 1)]
    BY <1>2, <1>4, <1>5
  <2>2. CASE j < i
    BY <1>1, <1>2, <2>1, <2>2
  <2>3. CASE ~(j < i)
    <3>1. j - (i - 1) \in 1..(Len(s) - i)
      BY <1>1, <2>3
    <3>2. right[j - (i - 1)] = s[i + (j - (i - 1))]
      BY <1>3, <3>1
    <3>3. i + (j - (i - 1)) = j + 1
      BY <1>1
    <3> QED BY <1>1, <2>1, <2>3, <3>2, <3>3
  <2> QED BY <2>2, <2>3
<1> QED BY <1>4, <1>5, <1>6 DEF RemoveAt, left, right

(* Inserting an element: the others keep their order.                      *)
LEMMA InsertedAt ==
  ASSUME NEW S, NEW s \in Seq(S), NEW i \in 1..(Len(s) + 1), NEW e \in S
  PROVE  /\ InsertAt(s, i, e) \in Seq(S) /\ Len(InsertAt(s, i, e)) = Len(s) + 1
         /\ \A j \in 1..(Len(s) + 1) :
              InsertAt(s, i, e)[j] = IF j < i THEN s[j] ELSE IF j = i THEN e ELSE s[j - 1]
<1> DEFINE left  == SubSeq(s, 1, i - 1)
           right == SubSeq(s, i, Len(s))
<1>1. Len(s) \in Nat /\ i \in Nat /\ i >= 1 /\ i <= Len(s) + 1
  BY LenProperties
<1>2. /\ left \in Seq(S) /\ Len(left) = i - 1
      /\ \A j \in 1..(i - 1) : left[j] = s[j]
  <2>1. \A j \in 1..(i - 1) : s[j] \in S
    BY <1>1, ElementOfSeq
  <2>2. /\ left \in Seq(S) /\ Len(left) = (IF 1 <= i - 1 THEN (i - 1) - 1 + 1 ELSE 0)
        /\ \A j \in 1..((i - 1) - 1 + 1) : left[j] = s[1 + j - 1]
    BY <1>1, <2>1, SubSeqProperties
  <2> QED BY <1>1, <2>2
<1>3. /\ right \in Seq(S) /\ Len(right) = Len(s) - i + 1
      /\ \A j \in 1..(Len(s) - i + 1) : right[j] = s[i + j - 1]
  <2>1. \A j \in i..Len(s) : s[j] \in S
    BY <1>1, ElementOfSeq
  <2>2. /\ right \in Seq(S)
        /\ Len(right) = (IF i <= Len(s) THEN Len(s) - i + 1 ELSE 0)
        /\ \A j \in 1..(Len(s) - i + 1) : right[j] = s[i + j - 1]
    BY <1>1, <2>1, SubSeqProperties
  <2> QED BY <1>1, <2>2
<1> DEFINE one == <<e>>
<1>0. one \in Seq(S) /\ Len(one) = 1 /\ one[1] = e
  OBVIOUS
<1> HIDE DEF left, right, one
<1>4. /\ left \o one \in Seq(S) /\ Len(left \o one) = i
      /\ \A j \in 1..i : (left \o one)[j] = IF j < i THEN s[j] ELSE e
  <2>1. /\ left \o one \in Seq(S) /\ Len(left \o one) = Len(left) + Len(one)
        /\ \A j \in 1..(Len(left) + Len(one)) :
             (left \o one)[j] = IF j <= Len(left) THEN left[j] ELSE one[j - Len(left)]
    BY <1>0, <1>2, ConcatProperties
  <2>2. Len(left) + Len(one) = i
    BY <1>0, <1>1, <1>2
  <2>3. ASSUME NEW j \in 1..i
        PROVE  (left \o one)[j] = IF j < i THEN s[j] ELSE e
    <3>1. (left \o one)[j] = IF j <= i - 1 THEN left[j] ELSE one[j - (i - 1)]
      BY <1>2, <2>1, <2>2
    <3>2. CASE j < i
      BY <1>1, <1>2, <3>1, <3>2
    <3>3. CASE j = i
      <4>1. j - (i - 1) = 1 /\ ~(j <= i - 1)
        BY <1>1, <3>3
      <4> QED BY <1>0, <3>1, <3>3, <4>1
    <3>4. j < i \/ j = i
      BY <1>1
    <3> QED BY <3>2, <3>3, <3>4
  <2> QED BY <2>1, <2>2, <2>3
<1> DEFINE front == left \o one
<1>5. /\ front \in Seq(S) /\ Len(front) = i
      /\ \A j \in 1..i : front[j] = IF j < i THEN s[j] ELSE e
  BY <1>4
<1> HIDE DEF front
<1>6. /\ front \o right \in Seq(S) /\ Len(front \o right) = Len(front) + Len(right)
      /\ \A j \in 1..(Len(front) + Len(right)) :
           (front \o right)[j] = IF j <= Len(front) THEN front[j] ELSE right[j - Len(front)]
  BY <1>3, <1>5, ConcatProperties
<1>7. Len(front) + Len(right) = Len(s) + 1
  BY <1>1, <1>3, <1>5
<1>8. ASSUME NEW j \in 1..(Len(s) + 1)
      PROVE  (front \o right)[j] = IF j < i THEN s[j] ELSE IF j = i THEN e ELSE s[j - 1]
  <2>1. (front \o right)[j] = IF j <= i THEN front[j] ELSE right[j - i]
    BY <1>5, <1>6, <1>7
  <2>2. CASE j <= i
    BY <1>1, <1>5, <2>1, <2>2
  <2>3. CASE ~(j <= i)
    <3>1. j - i \in 1..(Len(s) - i + 1)
      BY <1>1, <2>3
    <3>2. right[j - i] = s[i + (j - i) - 1]
      BY <1>3, <3>1
    <3>3. i + (j - i) - 1 = j - 1
      BY <1>1
    <3> QED BY <1>1, <2>1, <2>3, <3>2, <3>3
  <2> QED BY <2>2, <2>3
<1> QED BY <1>6, <1>7, <1>8 DEF InsertAt, left, right, one, front

(* Without one element: the rest, each still once.                         *)
LEMMA RemovedOnce ==
  ASSUME NEW S, NEW s \in Seq(S), NEW i \in 1..Len(s), OnceEach(s)
  PROVE  /\ OnceEach(RemoveAt(s, i))
         /\ Listed(RemoveAt(s, i)) = Listed(s) \ {s[i]}
<1> DEFINE t == RemoveAt(s, i)
<1>1. Len(s) \in Nat /\ DOMAIN s = 1..Len(s)
  BY LenProperties
<1>2. /\ t \in Seq(S) /\ Len(t) = Len(s) - 1 /\ DOMAIN t = 1..(Len(s) - 1)
      /\ \A j \in 1..(Len(s) - 1) : t[j] = IF j < i THEN s[j] ELSE s[j + 1]
  BY RemovedAt, LenProperties
<1> HIDE DEF t
<1>3. OnceEach(t)
  <2> SUFFICES ASSUME NEW j \in 1..(Len(s) - 1), NEW k \in 1..(Len(s) - 1), t[j] = t[k]
               PROVE  j = k
    BY <1>2 DEF OnceEach
  <2> DEFINE Old(n) == IF n < i THEN n ELSE n + 1
  <2>1. \A n \in 1..(Len(s) - 1) : Old(n) \in 1..Len(s) /\ t[n] = s[Old(n)]
    BY <1>1, <1>2
  <2>2. Old(j) = Old(k)
    <3>1. Old(j) \in DOMAIN s /\ Old(k) \in DOMAIN s /\ s[Old(j)] = s[Old(k)]
      BY <1>1, <2>1
    <3> HIDE DEF Old
    <3> QED BY <3>1 DEF OnceEach
  <2> QED BY <1>1, <2>2
<1>4. ASSUME NEW e \in Listed(t)
      PROVE  e \in Listed(s) \ {s[i]}
  <2>1. PICK j \in 1..(Len(s) - 1) : e = t[j]
    BY <1>2, <1>4 DEF Listed
  <2>2. CASE j < i
    BY <1>1, <1>2, <2>1, <2>2 DEF Listed, OnceEach
  <2>3. CASE ~(j < i)
    <3>1. j + 1 \in 1..Len(s) /\ j + 1 # i /\ e = s[j + 1]
      BY <1>1, <1>2, <2>1, <2>3
    <3> QED BY <1>1, <3>1 DEF Listed, OnceEach
  <2> QED BY <2>2, <2>3
<1>5. ASSUME NEW e \in Listed(s) \ {s[i]}
      PROVE  e \in Listed(t)
  <2>1. PICK j \in 1..Len(s) : e = s[j] /\ j # i
    BY <1>1, <1>5 DEF Listed
  <2>2. CASE j < i
    <3>1. j \in 1..(Len(s) - 1) /\ t[j] = e
      BY <1>1, <1>2, <2>1, <2>2
    <3> QED BY <1>2, <3>1 DEF Listed
  <2>3. CASE j > i
    <3>1. j - 1 \in 1..(Len(s) - 1) /\ ~(j - 1 < i) /\ (j - 1) + 1 = j
      BY <1>1, <2>3
    <3>2. t[j - 1] = e
      BY <1>2, <2>1, <3>1
    <3> QED BY <1>2, <3>1, <3>2 DEF Listed
  <2> QED BY <1>1, <2>1, <2>2, <2>3
<1> QED BY <1>3, <1>4, <1>5 DEF t

(* With a new element: all of them, each once.                             *)
LEMMA InsertedOnce ==
  ASSUME NEW S, NEW s \in Seq(S), NEW i \in 1..(Len(s) + 1), NEW e \in S,
         OnceEach(s), e \notin Listed(s)
  PROVE  /\ OnceEach(InsertAt(s, i, e))
         /\ Listed(InsertAt(s, i, e)) = Listed(s) \cup {e}
<1> DEFINE t == InsertAt(s, i, e)
<1>1. Len(s) \in Nat /\ DOMAIN s = 1..Len(s)
  BY LenProperties
<1>2. /\ t \in Seq(S) /\ DOMAIN t = 1..(Len(s) + 1)
      /\ \A j \in 1..(Len(s) + 1) :
           t[j] = IF j < i THEN s[j] ELSE IF j = i THEN e ELSE s[j - 1]
  <2>1. /\ t \in Seq(S) /\ Len(t) = Len(s) + 1
        /\ \A j \in 1..(Len(s) + 1) :
             t[j] = IF j < i THEN s[j] ELSE IF j = i THEN e ELSE s[j - 1]
    BY InsertedAt
  <2> HIDE DEF t
  <2> QED BY <2>1, LenProperties
<1> HIDE DEF t
<1>3. \A j \in 1..Len(s) : s[j] # e
  BY <1>1 DEF Listed
<1>4. OnceEach(t)
  <2> SUFFICES ASSUME NEW j \in 1..(Len(s) + 1), NEW k \in 1..(Len(s) + 1), t[j] = t[k]
               PROVE  j = k
    BY <1>2 DEF OnceEach
  <2> DEFINE Old(n) == IF n < i THEN n ELSE n - 1
  <2>1. \A n \in 1..(Len(s) + 1) : n # i => Old(n) \in 1..Len(s) /\ t[n] = s[Old(n)]
    BY <1>1, <1>2
  <2>2. t[i] = e
    BY <1>2
  <2>3. CASE j # i /\ k # i
    <3>1. Old(j) = Old(k)
      BY <1>1, <2>1, <2>3 DEF OnceEach
    <3> QED BY <1>1, <2>3, <3>1
  <2>4. CASE j = i \/ k = i
    BY <1>3, <2>1, <2>2, <2>4
  <2> QED BY <2>3, <2>4
<1>5. ASSUME NEW f \in Listed(t)
      PROVE  f \in Listed(s) \cup {e}
  <2>1. PICK j \in 1..(Len(s) + 1) : f = t[j]
    BY <1>2, <1>5 DEF Listed
  <2>2. CASE j < i
    BY <1>1, <1>2, <2>1, <2>2 DEF Listed
  <2>3. CASE j = i
    BY <1>2, <2>1, <2>3
  <2>4. CASE j > i
    <3>1. j - 1 \in 1..Len(s) /\ f = s[j - 1]
      BY <1>1, <1>2, <2>1, <2>4
    <3> QED BY <1>1, <3>1 DEF Listed
  <2> QED BY <1>1, <2>2, <2>3, <2>4
<1>6. ASSUME NEW f \in Listed(s) \cup {e}
      PROVE  f \in Listed(t)
  <2>1. CASE f = e
    BY <1>2, <2>1 DEF Listed
  <2>2. CASE f \in Listed(s)
    <3>1. PICK j \in 1..Len(s) : f = s[j]
      BY <1>1, <2>2 DEF Listed
    <3>2. CASE j < i
      <4>1. j \in 1..(Len(s) + 1) /\ t[j] = f
        BY <1>1, <1>2, <3>1, <3>2
      <4> QED BY <1>2, <4>1 DEF Listed
    <3>3. CASE ~(j < i)
      <4>1. j + 1 \in 1..(Len(s) + 1) /\ ~(j + 1 < i) /\ j + 1 # i /\ (j + 1) - 1 = j
        BY <1>1, <3>3
      <4>2. t[j + 1] = f
        BY <1>2, <3>1, <4>1
      <4> QED BY <1>2, <4>1, <4>2 DEF Listed
    <3> QED BY <3>2, <3>3
  <2> QED BY <2>1, <2>2
<1> QED BY <1>4, <1>5, <1>6 DEF t

(* A drag from any place to any index, also one past the end, moves an     *)
(* image and loses none.                                                   *)
LEMMA ReorderedKeeps ==
  ASSUME NEW S, NEW s \in Seq(S), NEW from \in 1..Len(s), NEW to \in Nat \ {0}, OnceEach(s)
  PROVE  /\ Reordered(s, from, to) \in Seq(S) /\ Len(Reordered(s, from, to)) = Len(s)
         /\ OnceEach(Reordered(s, from, to))
         /\ Listed(Reordered(s, from, to)) = Listed(s)
<1> DEFINE rest == RemoveAt(s, from)
           at   == IF to > Len(rest) THEN Len(rest) + 1 ELSE to
<1>1. Len(s) \in Nat /\ s[from] \in S /\ s[from] \in Listed(s)
  BY LenProperties, ElementOfSeq DEF Listed
<1>2. rest \in Seq(S) /\ Len(rest) = Len(s) - 1
  BY RemovedAt
<1>3. OnceEach(rest) /\ Listed(rest) = Listed(s) \ {s[from]}
  BY RemovedOnce
<1> HIDE DEF rest
<1>4. at \in 1..(Len(rest) + 1)
  BY <1>1, <1>2
<1> HIDE DEF at
<1>5. /\ InsertAt(rest, at, s[from]) \in Seq(S)
      /\ Len(InsertAt(rest, at, s[from])) = Len(rest) + 1
  BY <1>1, <1>2, <1>4, InsertedAt
<1>6. /\ OnceEach(InsertAt(rest, at, s[from]))
      /\ Listed(InsertAt(rest, at, s[from])) = Listed(rest) \cup {s[from]}
  BY <1>1, <1>2, <1>3, <1>4, InsertedOnce
<1>7. Reordered(s, from, to) = InsertAt(rest, at, s[from])
  BY DEF Reordered, rest, at
<1>8. Listed(rest) \cup {s[from]} = Listed(s)
  BY <1>1, <1>3
<1>9. Len(rest) + 1 = Len(s)
  BY <1>1, <1>2
<1> QED BY <1>5, <1>6, <1>7, <1>8, <1>9, Zenon

(* The images are among those uploaded, so that an upload that ends brings *)
(* a new one; the image that is dragged stays where it was picked up.      *)
UploadsNew ==
  /\ kept \subseteq 1..uploads /\ StoredImages <= uploads /\ uploads <= MaxImages
  /\ uploading => uploads < MaxImages
DragHolds == drag.moving => drag.item \in DOMAIN images

ImagesTyped ==
  /\ images \in Seq(1..MaxImages) /\ kept \subseteq 1..MaxImages
  /\ uploading \in BOOLEAN /\ uploads \in Nat
  /\ drag \in [item : 0..MaxImages, over : 0..MaxImages, moving : BOOLEAN]
PageTyped ==
  /\ portalPage \in {"dashboard", "publish", "edit", "manage-stock"}
  /\ specsShared \in BOOLEAN /\ specsCached \in {"saved", "unsaved"}
  /\ save \in {"idle", "pending", "failed", "done"}
  /\ stock \in [typed : BOOLEAN, pending : BOOLEAN]

ImagesInv == ImagesTyped /\ NoImageLost /\ UploadsNew /\ DragHolds
EditorInv == ImagesInv /\ PageTyped

(* Mounting a page brings the product's own images, each once.             *)
LEMMA MountKeeps ==
  ASSUME NEW mounted \in {"dashboard", "publish", "edit", "manage-stock"},
         NEW own \in 0..StoredImages, Mount(mounted, own), specsShared' \in BOOLEAN, EditorInv
  PROVE  EditorInv'
<1> USE EditorAssumption
<1>1. /\ images' = [i \in 1..own |-> i] /\ kept' = 1..own /\ uploads' = uploads
      /\ uploading' = FALSE /\ drag' = NoDrag
  BY DEF Mount
<1>2. own \in Nat /\ own <= StoredImages /\ uploads \in Nat /\ own <= uploads /\ uploads <= MaxImages
  BY DEF EditorInv, ImagesInv, ImagesTyped, UploadsNew
<1>3. images' \in Seq(1..MaxImages) /\ DOMAIN images' = 1..own
  <2>1. \A i \in 1..own : i \in 1..MaxImages
    BY <1>2
  <2>2. images' \in [1..own -> 1..MaxImages]
    BY <1>1, <2>1
  <2> QED BY <1>1, <1>2, <2>2, SeqDef
<1>4. ImagesTyped'
  <2>1. drag' \in [item : 0..MaxImages, over : 0..MaxImages, moving : BOOLEAN]
    BY <1>1 DEF NoDrag
  <2>2. kept' \subseteq 1..MaxImages
    BY <1>1, <1>2
  <2> QED BY <1>1, <1>2, <1>3, <2>1, <2>2 DEF ImagesTyped
<1>5. NoImageLost'
  BY <1>1, <1>3 DEF NoImageLost
<1>6. UploadsNew' /\ DragHolds'
  <2>1. UploadsNew'
    BY <1>1, <1>2 DEF UploadsNew, EditorInv, ImagesInv
  <2>2. ~drag'.moving
    BY <1>1 DEF NoDrag
  <2> QED BY <2>1, <2>2 DEF DragHolds
<1>7. PageTyped'
  BY DEF Mount, NoStock, EditorInv, PageTyped
<1> QED BY <1>4, <1>5, <1>6, <1>7 DEF EditorInv, ImagesInv

(* The steps about the images.                                             *)
LEMMA ImagesStep ==
  ASSUME ImagesInv, \/ UploadImage \/ ImageUploaded \/ DragEnd
                    \/ \E i \in 1..MaxImages : RemoveImage(i) \/ DragStart(i) \/ DragEnter(i)
  PROVE  ImagesInv'
<1> USE EditorAssumption
<1>1. /\ images \in Seq(1..MaxImages) /\ DOMAIN images = 1..Len(images) /\ Len(images) \in Nat
      /\ kept = Listed(images) /\ OnceEach(images)
  BY LenProperties DEF ImagesInv, ImagesTyped, NoImageLost, Listed, OnceEach
<1>2. /\ drag = [item |-> drag.item, over |-> drag.over, moving |-> drag.moving]
      /\ drag.item \in 0..MaxImages /\ drag.over \in 0..MaxImages /\ drag.moving \in BOOLEAN
  BY DEF ImagesInv, ImagesTyped
<1>3. ASSUME UploadImage PROVE ImagesInv'
  BY <1>3 DEF UploadImage, ImagesInv, ImagesTyped, NoImageLost, UploadsNew, DragHolds
<1>4. ASSUME ImageUploaded PROVE ImagesInv'
  <2>1. /\ uploads < MaxImages /\ uploads \in Nat /\ uploads' = uploads + 1 /\ uploading' = FALSE
        /\ UNCHANGED drag
    BY <1>4 DEF ImageUploaded, ImagesInv, ImagesTyped, UploadsNew
  <2>0. uploading' \in BOOLEAN /\ ~uploading'
    BY <1>4, Zenon DEF ImageUploaded
  <2>2. kept \subseteq 1..(uploads + 1) /\ StoredImages <= uploads + 1 /\ uploads + 1 \in 1..MaxImages
    BY <2>1 DEF ImagesInv, UploadsNew
  <2>3. CASE UNCHANGED <<images, kept>>
    <3>1. ImagesTyped'
      BY <2>0, <2>1, <2>3 DEF ImagesInv, ImagesTyped
    <3>2. NoImageLost' /\ DragHolds'
      BY <2>1, <2>3 DEF ImagesInv, NoImageLost, DragHolds
    <3>3. UploadsNew'
      BY <2>0, <2>1, <2>2, <2>3 DEF UploadsNew
    <3> QED BY <3>1, <3>2, <3>3 DEF ImagesInv
  <2>4. CASE images' = Append(images, uploads + 1) /\ kept' = kept \cup {uploads + 1}
    <3>1. uploads + 1 \notin kept /\ kept' \subseteq 1..(uploads + 1) /\ kept' \subseteq 1..MaxImages
      BY <2>1, <2>2, <2>4 DEF ImagesInv, UploadsNew
    <3>2. /\ images' \in Seq(1..MaxImages) /\ Len(images') = Len(images) + 1
          /\ \A i \in 1..Len(images) : images'[i] = images[i]
          /\ images'[Len(images) + 1] = uploads + 1
      BY <1>1, <2>2, <2>4, AppendProperties
    <3>3. DOMAIN images' = 1..(Len(images) + 1)
      BY <3>2, LenProperties
    <3>4. kept' = {images'[i] : i \in DOMAIN images'}
      BY <1>1, <2>4, <3>2, <3>3 DEF Listed
    <3>5. ASSUME NEW i \in 1..(Len(images) + 1), NEW j \in 1..(Len(images) + 1), images'[i] = images'[j]
          PROVE  i = j
      <4>1. \A k \in 1..Len(images) : images'[k] = images[k] /\ images[k] # uploads + 1
        BY <1>1, <3>1, <3>2 DEF Listed
      <4>2. CASE i \in 1..Len(images) /\ j \in 1..Len(images)
        BY <1>1, <3>5, <4>1, <4>2 DEF OnceEach
      <4>3. CASE i = Len(images) + 1 \/ j = Len(images) + 1
        BY <1>1, <3>2, <3>5, <4>1, <4>3
      <4> QED BY <1>1, <4>2, <4>3
    <3>6. NoImageLost'
      BY <3>3, <3>4, <3>5 DEF NoImageLost
    <3>7. ImagesTyped'
      BY <2>0, <2>1, <3>1, <3>2 DEF ImagesInv, ImagesTyped
    <3>8. UploadsNew'
      BY <2>0, <2>1, <2>2, <3>1 DEF UploadsNew
    <3>9. DragHolds'
      BY <1>1, <2>1, <3>3 DEF ImagesInv, DragHolds
    <3> QED BY <3>6, <3>7, <3>8, <3>9 DEF ImagesInv
  <2> QED BY <1>4, <2>3, <2>4 DEF ImageUploaded
<1>5. ASSUME NEW i \in 1..MaxImages, RemoveImage(i) PROVE ImagesInv'
  <2>1. /\ i \in 1..Len(images) /\ ~drag.moving
        /\ images' = RemoveAt(images, i) /\ kept' = kept \ {images[i]}
        /\ UNCHANGED <<uploading, uploads, drag>>
    BY <1>1, <1>5 DEF RemoveImage
  <2>2. images' \in Seq(1..MaxImages)
    BY <1>1, <2>1, RemovedAt
  <2>3. OnceEach(images') /\ Listed(images') = Listed(images) \ {images[i]}
    BY <1>1, <2>1, RemovedOnce
  <2>4. NoImageLost'
    BY <1>1, <2>1, <2>3 DEF NoImageLost, Listed, OnceEach
  <2>5. ImagesTyped' /\ UploadsNew' /\ DragHolds'
    BY <2>1, <2>2 DEF ImagesInv, ImagesTyped, UploadsNew, DragHolds
  <2> QED BY <2>4, <2>5 DEF ImagesInv
<1>6. ASSUME NEW i \in 1..MaxImages, DragStart(i) \/ DragEnter(i) PROVE ImagesInv'
  <2>1. UNCHANGED <<images, uploading, uploads, kept>> /\ i \in DOMAIN images
    BY <1>6 DEF DragStart, DragEnter
  <2>2. /\ drag' \in [item : 0..MaxImages, over : 0..MaxImages, moving : BOOLEAN]
        /\ drag'.moving => drag'.item \in DOMAIN images
    <3>1. CASE DragStart(i)
      <4>1. drag' = [item |-> i, over |-> drag.over, moving |-> TRUE]
        BY <1>2, <3>1 DEF DragStart
      <4> QED BY <1>2, <2>1, <4>1
    <3>2. CASE DragEnter(i)
      <4>1. drag' = [item |-> drag.item, over |-> i, moving |-> drag.moving]
        BY <1>2, <3>2 DEF DragEnter
      <4> QED BY <1>2, <2>1, <4>1 DEF ImagesInv, DragHolds
    <3> QED BY <1>6, <3>1, <3>2
  <2> QED BY <2>1, <2>2 DEF ImagesInv, ImagesTyped, NoImageLost, UploadsNew, DragHolds
<1>7. ASSUME DragEnd PROVE ImagesInv'
  <2>1. /\ drag.moving /\ drag.item \in 1..Len(images)
        /\ UNCHANGED <<uploading, uploads, kept>>
    BY <1>1, <1>7 DEF DragEnd, ImagesInv, DragHolds
  <2>2. CASE drag.over = 0
    <3>1. UNCHANGED images
      BY <1>7, <2>2 DEF DragEnd
    <3>2. drag' = [item |-> drag.item, over |-> drag.over, moving |-> FALSE]
      BY <1>2, <1>7, <2>2 DEF DragEnd
    <3>3. drag' \in [item : 0..MaxImages, over : 0..MaxImages, moving : BOOLEAN] /\ ~drag'.moving
      BY <1>2, <3>2
    <3> QED BY <2>1, <3>1, <3>3 DEF ImagesInv, ImagesTyped, NoImageLost, UploadsNew, DragHolds
  <2>3. CASE drag.over # 0
    <3>1. images' = Reordered(images, drag.item, drag.over) /\ drag' = NoDrag
      BY <1>7, <2>3 DEF DragEnd
    <3>2. images' \in Seq(1..MaxImages) /\ OnceEach(images') /\ Listed(images') = Listed(images)
      BY <1>1, <1>2, <2>1, <2>3, <3>1, ReorderedKeeps
    <3>3. drag' \in [item : 0..MaxImages, over : 0..MaxImages, moving : BOOLEAN] /\ ~drag'.moving
      BY <3>1 DEF NoDrag
    <3>4. NoImageLost'
      BY <1>1, <2>1, <3>2 DEF NoImageLost, Listed, OnceEach
    <3>5. ImagesTyped' /\ UploadsNew' /\ DragHolds'
      BY <2>1, <3>2, <3>3 DEF ImagesInv, ImagesTyped, UploadsNew, DragHolds
    <3> QED BY <3>4, <3>5 DEF ImagesInv
  <2> QED BY <2>2, <2>3
<1> QED BY <1>3, <1>4, <1>5, <1>6, <1>7

(* The inductive invariant of the editor.                                  *)
THEOREM EditorInvariance == EditorSpec => []EditorInv
<1>1. EditorInit => EditorInv
  <2> SUFFICES ASSUME EditorInit PROVE EditorInv
    OBVIOUS
  <2>1. images \in Seq(1..MaxImages) /\ DOMAIN images = {}
    BY DEF EditorInit
  <2>2. drag \in [item : 0..MaxImages, over : 0..MaxImages, moving : BOOLEAN] /\ ~drag.moving
    BY EditorAssumption DEF EditorInit, NoDrag
  <2>3. uploading \in BOOLEAN /\ ~uploading
    BY Zenon DEF EditorInit
  <2>4. kept = {} /\ uploads = StoredImages
    BY DEF EditorInit
  <2>5. ImagesTyped /\ UploadsNew /\ DragHolds
    BY EditorAssumption, <2>1, <2>2, <2>3, <2>4 DEF ImagesTyped, UploadsNew, DragHolds
  <2>6. NoImageLost
    BY <2>1 DEF EditorInit, NoImageLost
  <2>7. PageTyped
    BY DEF EditorInit, PageTyped, NoStock
  <2> QED BY <2>5, <2>6, <2>7 DEF EditorInv, ImagesInv
<1>2. EditorInv /\ [EditorNext]_editorVars => EditorInv'
  <2> SUFFICES ASSUME EditorInv, [EditorNext]_editorVars
               PROVE  EditorInv'
    OBVIOUS
  <2>1. ASSUME OpenPublish \/ OpenEdit \/ OpenStock \/ BackToDashboard
        PROVE  EditorInv'
    <3>1. \E mounted \in {"dashboard", "publish", "edit", "manage-stock"}, own \in 0..StoredImages :
            Mount(mounted, own) /\ specsShared' \in BOOLEAN
      <4>1. 0 \in 0..StoredImages /\ StoredImages \in 0..StoredImages
        BY EditorAssumption
      <4> QED BY <2>1, <4>1, Zenon DEF OpenPublish, OpenEdit, OpenStock, BackToDashboard
    <3> QED BY <3>1, MountKeeps
  <2>2. ASSUME \/ UploadImage \/ ImageUploaded \/ DragEnd
               \/ \E i \in 1..MaxImages : RemoveImage(i) \/ DragStart(i) \/ DragEnter(i)
        PROVE  EditorInv'
    <3>1. ImagesInv'
      BY <2>2, ImagesStep DEF EditorInv
    <3>2. PageTyped'
      BY <2>2 DEF UploadImage, ImageUploaded, DragEnd, RemoveImage, DragStart, DragEnter,
                  specVars, EditorInv, PageTyped
    <3> QED BY <3>1, <3>2 DEF EditorInv
  <2>3. ASSUME UNCHANGED imageVars, PageTyped'
        PROVE  EditorInv'
    BY <2>3 DEF imageVars, EditorInv, ImagesInv, ImagesTyped, NoImageLost, UploadsNew, DragHolds
  <2>4. ASSUME TypeSpec \/ SubmitProduct \/ SaveProduct \/ ProductsFetched
        PROVE  EditorInv'
    BY <2>3, <2>4 DEF TypeSpec, SubmitProduct, SaveProduct, ProductsFetched, specVars,
                      EditorInv, PageTyped
  <2>5. ASSUME TypeQuantity \/ AddStock \/ StockAnswered
        PROVE  EditorInv'
    <3>1. stock' \in [typed : BOOLEAN, pending : BOOLEAN]
      <4>1. stock \in [typed : BOOLEAN, pending : BOOLEAN]
        BY DEF EditorInv, PageTyped
      <4>2. CASE TypeQuantity
        BY <4>1, <4>2 DEF TypeQuantity
      <4>3. CASE AddStock
        BY <4>1, <4>3 DEF AddStock
      <4>4. CASE StockAnswered
        BY <4>1, <4>4 DEF StockAnswered
      <4> QED BY <2>5, <4>2, <4>3, <4>4
    <3>2. UNCHANGED <<portalPage, imageVars, specVars, save>>
      BY <2>5 DEF TypeQuantity, AddStock, StockAnswered
    <3> QED BY <2>3, <3>1, <3>2 DEF specVars, EditorInv, PageTyped
  <2>6. CASE UNCHANGED editorVars
    BY <2>3, <2>6 DEF editorVars, specVars, EditorInv, PageTyped
  <2> QED BY <2>1, <2>2, <2>4, <2>5, <2>6 DEF EditorNext
<1> QED BY <1>1, <1>2, PTL DEF EditorSpec

(* The variables of the editor have their types.                           *)
THEOREM EditorTypeCorrect == EditorSpec => []EditorTypeOK
<1>1. EditorInv => EditorTypeOK
  BY DEF EditorInv, ImagesInv, ImagesTyped, PageTyped, EditorTypeOK
<1> QED BY <1>1, EditorInvariance, PTL

(* No drag, removal or upload loses an image or shows one twice, for any   *)
(* number of images and in any order.                                      *)
THEOREM ImagesKept == EditorSpec => []NoImageLost
<1>1. EditorInv => NoImageLost
  BY DEF EditorInv, ImagesInv
<1> QED BY <1>1, EditorInvariance, PTL

---------------------------------------------------------------------------
(* The scenes together. *)

(* A step of one scene is a step of its module and leaves the others be.   *)
LEMMA SceneStep ==
  ASSUME [Next]_vars
  PROVE  /\ [BasketNext]_basketVars /\ [CheckoutNext]_checkoutVars
         /\ [TrackingNext]_trackingVars /\ [SignInNext]_signInVars
         /\ [CatalogueNext]_catalogueVars /\ [WishlistNext]_wishlistVars
         /\ [OnboardingNext]_onboardingVars /\ [SalesNext]_salesVars
         /\ [EditorNext]_editorVars /\ [ShippingNext]_shippingVars
<1>1. CASE UNCHANGED vars
  BY <1>1 DEF vars
<1>2. CASE Next
  BY <1>2 DEF Next, Only, Off
<1> QED BY <1>1, <1>2

(* Whichever scene is played, every module's specification holds.          *)
THEOREM ScenesCompose ==
  Spec => /\ BasketSpec /\ CheckoutSpec /\ TrackingSpec /\ SignInSpec /\ CatalogueSpec
          /\ WishlistSpec /\ OnboardingSpec /\ SalesSpec /\ EditorSpec /\ ShippingSpec
<1>1. Init => /\ BasketInit /\ CheckoutInit /\ TrackingInit /\ SignInInit /\ CatalogueInit
              /\ WishlistInit /\ OnboardingInit /\ SalesInit /\ EditorInit /\ ShippingInit
  BY DEF Init
<1> QED
  BY <1>1, SceneStep, PTL
  DEF Spec, BasketSpec, CheckoutSpec, TrackingSpec, SignInSpec, CatalogueSpec,
      WishlistSpec, OnboardingSpec, SalesSpec, EditorSpec, ShippingSpec

(* The variables of all the modules have their types, whichever scene is   *)
(* played.                                                                 *)
THEOREM ScenesTypeCorrect == Spec => []SceneTypeOK
<1>1. /\ BasketInv => BasketTypeOK
      /\ CheckoutInv => CheckoutTypeOK
      /\ TrackingInv => TrackingTypeOK
      /\ SignInInv => SignInTypeOK
      /\ CatalogueInv => CatalogueTypeOK
      /\ WishlistInv => WishlistTypeOK
      /\ OnboardingInv => OnboardingTypeOK
      /\ SalesInv => SalesTypeOK
      /\ ShippingInv => ShippingTypeOK
  BY DEF BasketInv, CheckoutInv, TrackingInv, SignInInv, CatalogueInv, WishlistInv,
         OnboardingInv, SalesInv, ShippingInv
<1>2. /\ BasketTypeOK /\ CheckoutTypeOK /\ TrackingTypeOK /\ SignInTypeOK /\ CatalogueTypeOK
      /\ WishlistTypeOK /\ OnboardingTypeOK /\ SalesTypeOK /\ EditorTypeOK /\ ShippingTypeOK
      => SceneTypeOK
  BY DEF SceneTypeOK
<1> QED
  BY <1>1, <1>2, ScenesCompose, BasketInvariance, CheckoutInvariance, TrackingInvariance,
     SignInInvariance, CatalogueInvariance, WishlistInvariance, OnboardingInvariance,
     SalesInvariance, EditorTypeCorrect, ShippingInvariance, PTL

(* The invariants proved of the modules hold of the scenes together.       *)
THEOREM ScenesAreSafe ==
  Spec => /\ [](NoItemFromNowhere /\ CartShowsOwnWrites)
          /\ [](OneLiveOrderPerVisit /\ FormNeverLocked /\ StepHasItsData)
          /\ []OnePopupPerVisit /\ TimelineNeverGoesBack
          /\ FilterFollowsUrl /\ [](OneRedirect /\ NoFavouriteLost)
          /\ [](VerifiedSellerIsActive /\ IssueAnswerClosesItsOwnDialog)
          /\ [](NoImageLost /\ ScheduledOnce)
          /\ [](OwedIsOnItsWay /\ RedirectUnderWay)
  BY ScenesCompose, NothingFromNowhere, OwnWritesShown, OrderedOnce, FormStaysOpen,
     StepsHaveTheirData, OneWindow, TimelineGrows, RedirectsOnce, FiltersAgree, FavouritesKept,
     VerifiedSellers, OwnDialogCloses, ImagesKept, ShipmentAnnouncedOnce,
     SentStatusIsOnItsWay, RejectionHasRedirect, PTL
=============================================================================
