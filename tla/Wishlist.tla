-------------------------------- MODULE Wishlist --------------------------------
(***************************************************************************)
(* The wishlist of a signed-in customer: a list of products in the         *)
(* browser's localStorage, shared by every tab of the shop.  A tab shows   *)
(* the list it read when it last rendered; it is told of its own changes   *)
(* and not of those of the other tabs.                                     *)
(***************************************************************************)
EXTENDS Integers, FiniteSets

CONSTANTS
    Articles,        \* products with a heart
    Tabs,            \* tabs the shop is open in
    MaxToggles       \* bound on the clicks on each heart

ASSUME WishlistAssumption == MaxToggles \in Nat

VARIABLES
    favourites,      \* localStorage["wishlist:<user>"]
    listed,          \* wishlistIds, as each tab last rendered them
    toggled          \* history: the clicks on the heart of each product

wishlistVars == <<favourites, listed, toggled>>

WishlistTypeOK ==
    /\ favourites \subseteq Articles
    /\ listed \in [Tabs -> SUBSET Articles]
    /\ toggled \in [Articles -> Nat]

WishlistInit ==
    /\ favourites = {}
    /\ listed = [t \in Tabs |-> {}]
    /\ toggled = [a \in Articles |-> 0]

\* toggle: the stored list is read again and the product put in or out of it.
Flipped(a) == IF a \in favourites THEN favourites \ {a} ELSE favourites \cup {a}

\* Mutant: the list that is changed is the one the tab shows.
ToggleListed(t, a) ==
    /\ toggled[a] < MaxToggles
    /\ favourites' = IF a \in listed[t] THEN listed[t] \ {a} ELSE listed[t] \cup {a}
    /\ listed' = [listed EXCEPT ![t] = favourites']
    /\ toggled' = [toggled EXCEPT ![a] = @ + 1]

\* setIds announces the change to the tab it is made in.
Toggle(t, a) ==
    /\ toggled[a] < MaxToggles
    /\ favourites' = Flipped(a)
    /\ listed' = [listed EXCEPT ![t] = favourites']
    /\ toggled' = [toggled EXCEPT ![a] = @ + 1]

\* Every card of the shop has a heart; the wishlist page has one, and a Remove
\* button, for what it lists.
ToggleOnCard(t, a) == Toggle(t, a)
RemoveFromPage(t, a) == a \in listed[t] /\ Toggle(t, a)

\* Any rendering of a component reads the stored list again.
Render(t) ==
    /\ listed' = [listed EXCEPT ![t] = favourites]
    /\ UNCHANGED <<favourites, toggled>>

WishlistNext ==
    \/ \E t \in Tabs, a \in Articles : ToggleOnCard(t, a) \/ RemoveFromPage(t, a)
    \/ \E t \in Tabs : Render(t)

WishlistSpec == WishlistInit /\ [][WishlistNext]_wishlistVars

---------------------------------------------------------------------------
(* Properties. *)

\* Whatever a tab shows, a click in it changes the one product it is about:
\* no tab's older list is ever stored over what another tab has added or
\* removed since (useWishlist.ts, toggle reads the list it changes).
NoFavouriteLost == favourites = {a \in Articles : toggled[a] % 2 = 1}
=============================================================================
