---------------------------- MODULE OrderTracking ----------------------------
(***************************************************************************)
(* The order page follows an order: a query holds the order, and an        *)
(* EventSource on the Orders API, fed by the OrderStatusUpdated events     *)
(* through one bounded channel per subscription, invalidates it.  The page *)
(* may be left and opened again at any moment, the connection may be lost, *)
(* and a fetch that an invalidation cancels still has its answer under way.*)
(*                                                                         *)
(* A status is its index in Flow; 0 is "not loaded yet".                   *)
(***************************************************************************)
EXTENDS Integers, Sequences, FiniteSets

CONSTANTS
    Capacity,      \* BoundedChannelOptions: messages a channel holds
    MaxOpenings,   \* bound on the times the page is opened
    MaxEvents,     \* bound on the events on the bus
    MaxLosses,     \* bound on the connections lost
    MaxFetches     \* bound on the fetches on their way, cancelled ones included

ASSUME TrackingAssumption ==
    /\ Capacity \in Nat \ {0} /\ MaxOpenings \in Nat /\ MaxLosses \in Nat
    /\ MaxEvents \in Nat \ {0} /\ MaxFetches \in Nat \ {0, 1}

VARIABLES
    row,         \* the status stored with the order
    events,      \* statuses whose event has not reached the API yet
    channel,     \* the messages of the page's subscription
    page,        \* the mounted page: visits, whether it has a payment link
    shown,       \* the status in the cached order
    fetches,     \* GET /api/orders/{id} requests on their way
    stream,      \* where connect() is
    losses,      \* connections lost so far
    popups,      \* payment windows opened by this visit
    owed         \* history: highest status sent to this connection since the order was loaded

server == <<row, events>>
client == <<page, shown, fetches, stream, losses, popups>>
trackingVars == <<server, client, channel, owed>>

\* The statuses an order passes through, Cancelled apart.
Flow == <<"Created", "Paid", "Processing", "ReadyForPickup", "Shipped", "Delivered", "Cancelled">>
Status == 1..Len(Flow)
Cancelled == Len(Flow)
Delivered == Len(Flow) - 1
IsTerminal(s) == s \in {Delivered, Cancelled}

\* OrderStatusEvent carries the status; the answers carry it in the order.
Answers == [seen : Status \cup {0}, current : BOOLEAN]

TrackingTypeOK ==
    /\ row \in Status
    /\ events \subseteq Status
    /\ channel \in Seq(Status) /\ Len(channel) <= Capacity
    /\ page \in [visits : Nat, open : BOOLEAN, paymentUrl : BOOLEAN]
    /\ shown \in Status \cup {0}
    /\ fetches \subseteq Answers
    /\ stream \in {"off", "token", "connecting", "open", "waiting"}
    /\ losses \in Nat /\ popups \in Nat
    /\ owed \in Status \cup {0}

TrackingInit ==
    /\ row = 1 /\ events = {} /\ channel = <<>>
    /\ page = [visits |-> 0, open |-> FALSE, paymentUrl |-> FALSE]
    /\ shown = 0 /\ fetches = {} /\ stream = "off"
    /\ losses = 0 /\ popups = 0 /\ owed = 0

---------------------------------------------------------------------------
(* What the page shows. *)

\* STATUS_PAIRS: the statuses a stage is pending in, and the one that ends it.
StatusPairs == <<[pending |-> {"Created"}, completed |-> "Paid"],
                 [pending |-> {"Confirmed", "Processing"}, completed |-> "ReadyForPickup"],
                 [pending |-> {"ReadyForPickup"}, completed |-> "Shipped"],
                 [pending |-> {"Shipped"}, completed |-> "Delivered"]>>

\* getStatusPairIndex finds the first pair the status is part of.
PairIndex(status) ==
    LET of == {i \in DOMAIN StatusPairs :
                  status \in StatusPairs[i].pending \cup {StatusPairs[i].completed}}
    IN IF of = {} THEN 0 ELSE CHOOSE i \in of : \A j \in of : i <= j

Failed(s) == Flow[s] \in {"Cancelled", "Error"}

\* StatusTimeline: the stages drawn as passed.
Passed(s) ==
    IF s = 0 \/ Failed(s) THEN {}
    ELSE LET i == PairIndex(Flow[s]) IN
         {j \in DOMAIN StatusPairs :
             j < i \/ (j = i /\ StatusPairs[i].completed = Flow[s])}

\* Mutant: the effect runs at every answer.
OpensPopupAgain(url, before, after) == url /\ after = 1

\* The payment window's effect depends on the link and on the status.
OpensPopup(url, before, after) == url /\ after = 1 /\ before # after

---------------------------------------------------------------------------
(* The order and its announcements. *)

\* The commands of the saga move the order on; the event follows the save.
Advance ==
    /\ ~IsTerminal(row) /\ Cardinality(events) < MaxEvents
    /\ row' \in {row + 1} \cup (IF row < 4 THEN {Cancelled} ELSE {})
    /\ events' = events \cup {row'}
    /\ UNCHANGED <<client, channel, owed>>

\* TryWrite on a full channel drops its oldest message.
Written(q, s) == Append(IF Len(q) = Capacity THEN Tail(q) ELSE q, s)

\* OrderStatusUpdatedSseConsumer: the message goes to the subscriptions there
\* are.  The bus does not order the events.
Publish(s) ==
    /\ s \in events
    /\ events' = events \ {s}
    /\ IF stream = "open"
         THEN /\ channel' = Written(channel, s)
              /\ owed' = IF shown # 0 /\ s > owed THEN s ELSE owed
         ELSE UNCHANGED <<channel, owed>>
    /\ UNCHANGED <<row, client>>

---------------------------------------------------------------------------
(* The query ["orders", id]. *)

NewFetch == [seen |-> 0, current |-> TRUE]
InFlight == \E f \in fetches : f.current

\* Mutant: a fetch on its way is always joined.
InvalidatedJoining == IF InFlight THEN fetches ELSE fetches \cup {NewFetch}

\* invalidateQueries cancels the fetch on its way and sends another, unless
\* there is no order in the cache yet.
Invalidated ==
    IF InFlight /\ shown = 0 THEN fetches
    ELSE {[f EXCEPT !.current = FALSE] : f \in fetches} \cup {NewFetch}

\* The answer the fetch ends with reads the order, at the first attempt or at
\* its one retry.
ServerAnswers(f) ==
    /\ f \in fetches /\ f.seen = 0
    /\ fetches' = (fetches \ {f}) \cup {[f EXCEPT !.seen = row]}
    /\ UNCHANGED <<server, channel, page, shown, stream, losses, popups, owed>>

\* Mutant: the answer of a cancelled fetch is put on the page.
AcceptsAll(f) == f \in fetches

\* Only the answer of the current fetch becomes the order on the page.
Accepts(f) == f.current

\* A terminal order needs no stream: the effect is cleaned up, as it is when
\* the page is left.  The EventSource is closed and the timer cleared; that a
\* connect() awaiting its token goes on to open an EventSource nobody closes,
\* which can only cause further fetches, is not followed.
CleanUp == stream' = "off" /\ channel' = <<>> /\ owed' = 0

AnswerArrives(f) ==
    /\ f \in fetches /\ f.seen # 0
    /\ fetches' = fetches \ {f}
    /\ shown' = IF Accepts(f) THEN f.seen ELSE shown
    /\ popups' = IF page.open /\ OpensPopup(page.paymentUrl, shown, shown')
                   THEN popups + 1 ELSE popups
    /\ IF IsTerminal(shown') /\ page.open THEN CleanUp
       ELSE UNCHANGED <<stream, channel, owed>>
    /\ UNCHANGED <<server, page, losses>>

\* Both attempts failed: the cache keeps the order it had, the page says that
\* the order was not found, and nothing fetches again before the next message
\* or the next visit.  What was sent is excused when no message is left.
ServerFails(f) ==
    /\ f \in fetches
    /\ fetches' = fetches \ {f}
    /\ owed' = IF f.current /\ channel = <<>> THEN 0 ELSE owed
    /\ UNCHANGED <<server, channel, page, shown, stream, losses, popups>>

---------------------------------------------------------------------------
(* The page and its stream. *)

\* The checkout opens the page with a payment link, the order list without.  A
\* cached order younger than staleTime is not fetched again, and a fetch that
\* is still on its way is joined.
OpenPage ==
    /\ ~page.open /\ page.visits < MaxOpenings
    /\ \E url \in BOOLEAN :
          /\ page' = [visits |-> page.visits + 1, open |-> TRUE, paymentUrl |-> url]
          /\ popups' = IF OpensPopup(url, 0, shown) THEN 1 ELSE 0
    /\ \/ ~InFlight /\ fetches' = fetches \cup {NewFetch}
       \/ (shown # 0 \/ InFlight) /\ UNCHANGED fetches
    /\ stream' = IF IsTerminal(shown) THEN "off" ELSE "token"
    /\ UNCHANGED <<server, channel, shown, losses, owed>>

LeavePage ==
    /\ page.open
    /\ page' = [page EXCEPT !.open = FALSE]
    /\ CleanUp
    /\ UNCHANGED <<server, shown, fetches, losses, popups>>

\* Without a token connect() gives up, and nothing calls it again.
TokenAnswered ==
    /\ stream = "token"
    /\ stream' \in {"connecting", "off"}
    /\ UNCHANGED <<server, channel, page, shown, fetches, losses, popups, owed>>

\* StreamOrderStatus subscribes; the "connected" message fetches nothing.
Subscribe ==
    /\ stream = "connecting"
    /\ stream' = "open" /\ channel' = <<>>
    /\ UNCHANGED <<server, page, shown, fetches, losses, popups, owed>>

\* onmessage.
Receive ==
    /\ stream = "open" /\ channel # <<>> /\ Cardinality(fetches) < MaxFetches
    /\ channel' = Tail(channel)
    /\ fetches' = Invalidated
    /\ UNCHANGED <<server, page, shown, stream, losses, popups, owed>>

\* onerror closes the connection and waits; the subscription is given up and
\* what it held is lost.
StreamLost ==
    /\ stream \in {"connecting", "open"} /\ losses < MaxLosses
    /\ losses' = losses + 1
    /\ stream' = "waiting" /\ channel' = <<>> /\ owed' = 0
    /\ UNCHANGED <<server, page, shown, fetches, popups>>

Reconnect ==
    /\ stream = "waiting"
    /\ stream' = "token"
    /\ UNCHANGED <<server, channel, page, shown, fetches, losses, popups, owed>>

---------------------------------------------------------------------------
TrackingNext ==
    \/ Advance
    \/ \E s \in events : Publish(s)
    \/ \E f \in fetches : ServerAnswers(f) \/ AnswerArrives(f) \/ ServerFails(f)
    \/ OpenPage \/ LeavePage \/ TokenAnswered
    \/ Subscribe \/ Receive \/ StreamLost \/ Reconnect

\* A request is answered or fails, and messages are read off the open connection.
TrackingFairness ==
    /\ WF_trackingVars(Receive)
    /\ WF_trackingVars(\E f \in fetches : ServerAnswers(f) \/ AnswerArrives(f) \/ ServerFails(f))

TrackingSpec == TrackingInit /\ [][TrackingNext]_trackingVars /\ TrackingFairness

---------------------------------------------------------------------------
(* Properties. *)

\* The stages drawn as passed are never taken back, unless the order fails:
\* the answer of a cancelled fetch, which may be older than the one shown, is
\* never put on the page, and each status of the flow passes at least the
\* stages its predecessor passed (useOrderStatusStream.ts, getStatusPairIndex).
TimelineNeverGoesBack ==
    [][Passed(shown) \subseteq Passed(shown') \/ Failed(shown')]_shown

\* One visit opens the payment window at most once, however often the order
\* is fetched while it is unpaid (OrderDetailPage.tsx, the effect's dependencies).
OnePopupPerVisit == popups <= 1

\* A status sent to a connection of a page that has the order ends up on the
\* page, although a full channel drops messages and fetches cancel each
\* other, unless the connection is lost or the page is left first, or the
\* fetch that was to bring it fails with its retry while no message is left in
\* the channel to send another (useOrderStatusStream.ts, App.tsx).
SentStatusIsShown == owed # 0 ~> (shown >= owed \/ owed = 0)
=============================================================================
