SPECIFICATION Spec
CONSTANTS
    Scenes = {"basket", "checkout", "tracking", "sign_in", "catalogue", "wishlist",
              "onboarding", "sales", "editor", "shipping"}
    Products = {p1}
    NoBasket = NoBasket
    MaxWrites = 2
    MaxFaults = 1
    Addresses = {home}
    Incomplete = Incomplete
    Nothing = Nothing
    Methods = {card, paypal}
    EnabledMethods = {card}
    MaxVisits = 2
    MaxOrders = 2
    MaxDeletions = 2
    Capacity = 1
    MaxOpenings = 2
    MaxEvents = 1
    MaxLosses = 1
    MaxFetches = 2
    ApiRequests = {r1, r2, r3}
    Fields = {"searchText", "minPrice", "minRating"}
    PriceFields = {"minPrice"}
    Values = {chosen}
    Unset = Unset
    Ignored = Ignored
    MaxHistory = 3
    MaxPages = 2
    Slides = 3
    Images = 2
    Faqs = 1
    Articles = {a1, a2}
    Tabs = {t1, t2}
    MaxToggles = 2
    Documents = {d1, d2}
    NoDocument = NoDocument
    NoAccount = NoAccount
    Changes = {c1}
    MaxFailures = 1
    Parcels = {o1, o2}
    NoParcel = NoParcel
    PageSize = 1
    SearchTerms = {"Pending"}
    MaxTasks = 1
    StoredImages = 2
    MaxImages = 4
    Couriers = {b1, b2}
    MaxTroubles = 2
    MaxMoves = 3
INVARIANTS
    SceneTypeOK
    NoItemFromNowhere
    CartShowsOwnWrites
    OneLiveOrderPerVisit
    FormNeverLocked
    StepHasItsData
    OnePopupPerVisit
    OneRedirect
    NoFavouriteLost
    VerifiedSellerIsActive
    IssueAnswerClosesItsOwnDialog
    NoImageLost
    ScheduledOnce
PROPERTIES
    TimelineNeverGoesBack
    FilterFollowsUrl
    SentStatusIsShown
    RejectedMeansRedirect
CHECK_DEADLOCK FALSE
