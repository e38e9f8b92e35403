------------------------------- MODULE MCScenes -------------------------------
(***************************************************************************)
(* The models of the frontends and of Shipping, checked together.  They    *)
(* share no state: a behaviour plays one of them, its scene, from          *)
(* beginning to end, and the others stay in their initial state, in which  *)
(* nothing fair is enabled.                                                *)
(***************************************************************************)
EXTENDS ShopBasket, Checkout, OrderTracking, SignIn, Catalogue, Wishlist,
        SellerOnboarding, SalesDesk, ProductEditor, Shipping

CONSTANT Scenes     \* the scenes to play

VARIABLE scene

vars == <<scene, basketVars, checkoutVars, trackingVars, signInVars, catalogueVars,
          wishlistVars, onboardingVars, salesVars, editorVars, shippingVars>>

\* A scene that is not played has one initial state.
Init ==
    /\ scene \in Scenes
    /\ BasketInit /\ CheckoutInit /\ TrackingInit /\ SignInInit /\ CatalogueInit
    /\ WishlistInit /\ OnboardingInit /\ SalesInit /\ EditorInit /\ ShippingInit
    /\ scene # "checkout" => book = {}
    /\ scene # "sign_in" => app = "web"
    /\ scene # "shipping" => emailed = FALSE

Off(s, others) == scene # s => UNCHANGED others

\* Scene s is played: the variables of the others stay as they are.
Only(s) ==
    /\ scene = s /\ UNCHANGED scene
    /\ Off("basket", basketVars) /\ Off("checkout", checkoutVars)
    /\ Off("tracking", trackingVars) /\ Off("sign_in", signInVars)
    /\ Off("catalogue", catalogueVars) /\ Off("wishlist", wishlistVars)
    /\ Off("onboarding", onboardingVars) /\ Off("sales", salesVars)
    /\ Off("editor", editorVars) /\ Off("shipping", shippingVars)

Next ==
    \/ Only("basket") /\ BasketNext
    \/ Only("checkout") /\ CheckoutNext
    \/ Only("tracking") /\ TrackingNext
    \/ Only("sign_in") /\ SignInNext
    \/ Only("catalogue") /\ CatalogueNext
    \/ Only("wishlist") /\ WishlistNext
    \/ Only("onboarding") /\ OnboardingNext
    \/ Only("sales") /\ SalesNext
    \/ Only("editor") /\ EditorNext
    \/ Only("shipping") /\ ShippingNext

Spec == Init /\ [][Next]_vars /\ BasketFairness /\ TrackingFairness /\ SignInFairness

\* The types of all the modules' variables.
SceneTypeOK ==
    /\ BasketTypeOK /\ CheckoutTypeOK /\ TrackingTypeOK /\ SignInTypeOK
    /\ CatalogueTypeOK /\ WishlistTypeOK /\ OnboardingTypeOK /\ SalesTypeOK
    /\ EditorTypeOK /\ ShippingTypeOK
=============================================================================
