------------------------------- MODULE Catalogue -------------------------------
(***************************************************************************)
(* The pages a customer browses: the home page and its slides, the list of *)
(* products with its filters, and a product's page.  The address bar       *)
(* (history) and the list's own state hold the filters twice: links and    *)
(* the Back button change the first, from which an effect sets the second; *)
(* the sidebar changes both, and has the effect run as well.  The order of *)
(* the parameters, which can only have it run once more, is left out.      *)
(*                                                                         *)
(* A navigation is rendered, and its effect run, before the customer's     *)
(* next click.                                                             *)
(***************************************************************************)
EXTENDS Integers, Sequences

CONSTANTS
    Fields,          \* fields of the filter
    PriceFields,     \* those that one click on a price range sets together
    Values,          \* values of a field
    Unset,           \* the field is undefined, the parameter absent
    Ignored,         \* a parameter present with a value that counts for nothing
    MaxHistory,      \* bound on the pages in the browser's history
    MaxPages,        \* bound on the pages of results
    Slides,          \* heroSlides.length
    Images,          \* images of a product
    Faqs             \* questions answered on its page

ASSUME CatalogueAssumption ==
    /\ "searchText" \in Fields /\ PriceFields \subseteq Fields
    /\ Unset \notin Values /\ Ignored \notin Values /\ Unset # Ignored
    /\ {MaxHistory, MaxPages, Slides, Images, Faqs} \subseteq Nat \ {0}

VARIABLES
    history,         \* the browser's history, the current page last
    filter,          \* filter, of the mounted list
    listPage,        \* page, of the mounted list
    results,         \* the query ["productSearch", activeFilter]
    slide,           \* current, of the home page's carousel
    detail           \* the image and the question opened on a product's page

catalogueVars == <<history, filter, listPage, results, slide, detail>>

Filters == [Fields -> Values \cup {Unset}]
Params  == [Fields -> Values \cup {Unset, Ignored}]
Entries == [path : {"home", "search", "product"}, params : Params]

NoFilter == [f \in Fields |-> Unset]
NoDetail == [image |-> 1, faq |-> 0]
Loading  == [phase |-> "loading", pages |-> 1]
Results  == [phase : {"loading", "shown", "failed"}, pages : 1..MaxPages]

Here == history[Len(history)]

CatalogueTypeOK ==
    /\ history \in Seq(Entries) /\ history # <<>>
    /\ filter \in Filters
    /\ listPage \in 1..MaxPages
    /\ results \in Results
    /\ slide \in 1..Slides
    /\ detail \in [image : 1..Images, faq : 0..Faqs]

---------------------------------------------------------------------------
(* The two copies of the filter. *)

\* buildFilterFromParams; a value that is none of the field's is dropped.
FromUrl(params) == [f \in Fields |-> IF params[f] \in Values THEN params[f] ELSE Unset]

\* Mutant: the search text is left out.
ToUrlUnsearched(chosen) == [f \in Fields |-> IF f = "searchText" THEN Unset ELSE chosen[f]]

\* The parameters of handleFilterChange: one for every field that is set.
ToUrl(chosen) == [f \in Fields |-> chosen[f]]

\* The state of the page arrived at.  A list that stays mounted runs its
\* effect only when the parameters have changed, and then goes to page 1; the
\* other pages start anew.
Arrive(entries) ==
    LET there == entries[Len(entries)]
        stays == there.path = "search" /\ Here = there
    IN /\ history' = entries
       /\ IF stays THEN UNCHANGED <<filter, listPage, results>>
          ELSE /\ filter' = IF there.path = "search" THEN FromUrl(there.params) ELSE NoFilter
               /\ listPage' = 1 /\ results' = Loading
       /\ slide' = 1 /\ detail' = NoDetail

CatalogueInit ==
    /\ history = <<[path |-> "home", params |-> NoFilter]>>
    /\ filter = NoFilter /\ listPage = 1 /\ results = Loading
    /\ slide = 1 /\ detail = NoDetail

\* A link pushes its page.
Follow(entry) == Len(history) < MaxHistory /\ Arrive(Append(history, entry))

\* The search form, the categories, the links of the header and of the home
\* page; an address may also be typed in or bookmarked.
OpenList(params) == Follow([path |-> "search", params |-> params])

OpenHome == Follow([path |-> "home", params |-> NoFilter])

\* A card of the list or of a carousel of the home page.
OpenProduct ==
    /\ Here.path = "home" \/ (Here.path = "search" /\ results.phase = "shown")
    /\ Follow([path |-> "product", params |-> NoFilter])

\* The Back button.
GoBack ==
    /\ Len(history) > 1
    /\ Arrive(SubSeq(history, 1, Len(history) - 1))

---------------------------------------------------------------------------
(* The list. *)

ListShown == Here.path = "search" /\ results.phase = "shown"

SearchAnswered ==
    /\ Here.path = "search" /\ results.phase = "loading"
    /\ results' \in {r \in Results : r.phase # "loading"}
    /\ UNCHANGED <<history, filter, listPage, slide, detail>>

\* The results are older than staleTime: the catalogue may have changed.
SearchRefreshed ==
    /\ ListShown
    /\ results' \in {r \in Results : r.phase = "shown"}
    /\ UNCHANGED <<history, filter, listPage, slide, detail>>

\* setFilter, setPage and setSearchParams with replace; the effect then sets
\* the filter again from parameters that have changed.
Refilter(chosen) ==
    LET params == ToUrl(chosen) IN
    /\ history' = [history EXCEPT ![Len(history)].params = params]
    /\ filter' = IF params = Here.params THEN chosen ELSE FromUrl(params)
    /\ listPage' = 1
    /\ results' = IF filter' = filter /\ listPage = 1 THEN results ELSE Loading
    /\ UNCHANGED <<slide, detail>>

\* handleFilterChange, from a control of the sidebar: the chosen value is set,
\* or unset when it was the active one.
ChangeFilter(f, v) ==
    /\ ListShown /\ f \notin PriceFields /\ f # "searchText"
    /\ Refilter([filter EXCEPT ![f] = IF @ = v THEN Unset ELSE v])

\* A price range sets both bounds, the active one unsets them.
ChooseRange(range) ==
    /\ ListShown
    /\ LET active == \A f \in PriceFields : filter[f] = range[f] IN
       Refilter([f \in Fields |-> IF f \notin PriceFields THEN filter[f]
                                  ELSE IF active THEN Unset ELSE range[f]])

\* A price typed in, or wiped out.
TypePrice(f, v) == ListShown /\ f \in PriceFields /\ Refilter([filter EXCEPT ![f] = v])

\* handleClearFilters keeps the search text.
ClearFilters ==
    /\ ListShown /\ \E f \in Fields \ {"searchText"} : filter[f] # Unset
    /\ Refilter([NoFilter EXCEPT !["searchText"] = filter["searchText"]])

\* The buttons of the pages are there when there is more than one.
GoToPage(n) ==
    /\ ListShown /\ results.pages > 1 /\ n \in 1..results.pages /\ n # listPage
    /\ listPage' = n /\ results' = Loading
    /\ UNCHANGED <<history, filter, slide, detail>>

---------------------------------------------------------------------------
(* The home page and a product's page. *)

\* Mutant: no way back to the first slide.
NextSlideUnwrapped == slide + 1

\* The arrows, the dots and the timer of six seconds.
NextSlide == (slide % Slides) + 1

PrevSlide == ((slide + Slides - 2) % Slides) + 1

ShowSlide ==
    /\ Here.path = "home" /\ slide' \in {NextSlide, PrevSlide} \cup 1..Slides
    /\ UNCHANGED <<history, filter, listPage, results, detail>>

SelectImage(i) ==
    /\ Here.path = "product" /\ Images > 1 /\ i \in 1..Images
    /\ detail' = [detail EXCEPT !.image = i]
    /\ UNCHANGED <<history, filter, listPage, results, slide>>

ToggleFaq(i) ==
    /\ Here.path = "product" /\ i \in 1..Faqs
    /\ detail' = [detail EXCEPT !.faq = IF @ = i THEN 0 ELSE i]
    /\ UNCHANGED <<history, filter, listPage, results, slide>>

CatalogueNext ==
    \/ \E params \in Params : OpenList(params)
    \/ OpenHome \/ OpenProduct \/ GoBack
    \/ SearchAnswered \/ SearchRefreshed \/ ClearFilters \/ ShowSlide
    \/ \E f \in Fields, v \in Values : ChangeFilter(f, v)
    \/ \E f \in Fields, v \in Values \cup {Unset} : TypePrice(f, v)
    \/ \E range \in [PriceFields -> Values \cup {Unset}] : ChooseRange(range)
    \/ \E n \in 1..MaxPages : GoToPage(n)
    \/ \E i \in 1..Images : SelectImage(i)
    \/ \E i \in 1..Faqs : ToggleFaq(i)

CatalogueSpec == CatalogueInit /\ [][CatalogueNext]_catalogueVars

---------------------------------------------------------------------------
(* Properties. *)

FiltersAlike == Here.path = "search" => filter = FromUrl(Here.params)

\* The filters the list applies are those of the address bar, after links,
\* Back and the sidebar in any order; and a control of the sidebar changes no
\* field but its own, although the address it writes is read back by the
\* effect: a field forgotten on either way would be lost at the next click on
\* another one (ProductListPage.tsx, the effect and handleFilterChange).
FilterFollowsUrl ==
    /\ []FiltersAlike
    /\ [][\A f \in Fields, v \in Values \cup {Unset} :
            ChangeFilter(f, v) \/ TypePrice(f, v)
              => \A g \in Fields \ {f} : filter'[g] = filter[g]]_catalogueVars
=============================================================================
