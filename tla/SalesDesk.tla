------------------------------- MODULE SalesDesk -------------------------------
(***************************************************************************)
(* The seller's desk: the table of the packages to prepare, which is a     *)
(* cached answer of the Operations API, the buttons of its rows, and the   *)
(* three dialogs over it.  Each button sends a request that the API serves *)
(* by writing the package's status, whatever it was.                       *)
(*                                                                         *)
(* The order of the rows is not followed: it decides on which page of the  *)
(* table a row is, not whether the seller can reach it.                    *)
(***************************************************************************)
EXTENDS Integers, FiniteSets

CONSTANTS
    Parcels,         \* orders with a package of this seller
    NoParcel,        \* no dialog is open
    PageSize,        \* rows on a page of the table
    SearchTerms,     \* the statuses the seller searches for
    MaxTasks         \* bound on the requests under way

Stages == {"Pending", "Preparing", "ReadyForPickup", "Failed"}

ASSUME SalesAssumption ==
    /\ NoParcel \notin Parcels /\ PageSize \in Nat \ {0}
    /\ SearchTerms \subseteq Stages /\ MaxTasks \in Nat

VARIABLES
    parcel,          \* the status of each package, in the Operations service
    rows,            \* the statuses in the query ["seller-packages", sellerId]
    tasks,           \* start-processing, ready-for-pickup and report-issue requests
    dialog,          \* orderDetailsPkg, reportIssuePkg, trackingOrderId; whether
                     \* issueDetails, which opening the dialog empties, is filled in
    term,            \* the search text: a status, or none
    salesPage,       \* currentPage of the table
    deskOpen         \* page is "dashboard": the table is mounted

tableVars == <<term, salesPage, deskOpen>>
salesVars == <<parcel, rows, tasks, dialog, tableVars>>

Buttons == {"confirm", "ready", "report"}
Tasks == [button : Buttons, of : Parcels, phase : {"sent", "served", "failed"}]

SalesTypeOK ==
    /\ parcel \in [Parcels -> Stages \cup {"none"}]
    /\ rows \in [Parcels -> Stages \cup {"none"}]
    /\ tasks \subseteq Tasks
    /\ dialog \in [kind : {"none", "details", "issue", "tracking"},
                   of : Parcels \cup {NoParcel}, text : BOOLEAN]
    /\ term \in SearchTerms \cup {"all"}
    /\ salesPage \in Nat \ {0}
    /\ deskOpen \in BOOLEAN

NoDialog == [kind |-> "none", of |-> NoParcel, text |-> FALSE]

SalesInit ==
    /\ parcel = [o \in Parcels |-> "none"]
    /\ rows = parcel
    /\ tasks = {}
    /\ dialog = NoDialog
    /\ term = "all" /\ salesPage = 1 /\ deskOpen = TRUE

---------------------------------------------------------------------------
(* The table. *)

\* The rows that match the search.
Found == {o \in Parcels : rows[o] # "none" /\ term \in {"all", rows[o]}}

TotalPages == IF Found = {} THEN 1 ELSE (Cardinality(Found) + PageSize - 1) \div PageSize

\* The page shown, when the rows have become fewer.
SafePage == IF salesPage > TotalPages THEN TotalPages ELSE salesPage

\* A dialog covers the table.
TableShown == deskOpen /\ dialog = NoDialog
RowShown(o) == TableShown /\ o \in Found

\* Typing in the search box, and toggleSort, go back to the first page.
SearchRows(t) ==
    /\ TableShown /\ \E o \in Parcels : rows[o] # "none"
    /\ term' = t /\ salesPage' = 1
    /\ UNCHANGED <<parcel, rows, tasks, dialog, deskOpen>>

GoToRows(n) ==
    /\ TableShown /\ Found # {} /\ n \in 1..TotalPages
    /\ salesPage' = n
    /\ UNCHANGED <<parcel, rows, tasks, dialog, term, deskOpen>>

\* Publishing, editing and the stock page replace the dashboard; its table is
\* mounted anew when the seller comes back.
LeaveDesk ==
    /\ TableShown
    /\ deskOpen' = FALSE /\ term' = "all" /\ salesPage' = 1
    /\ UNCHANGED <<parcel, rows, tasks, dialog>>

ReturnToDesk ==
    /\ ~deskOpen /\ deskOpen' = TRUE
    /\ UNCHANGED <<parcel, rows, tasks, dialog, term, salesPage>>

\* The query's refetch: after a mutation's onSuccess, or once it is stale.
RowsFetched ==
    /\ rows' = parcel
    /\ UNCHANGED <<parcel, tasks, dialog, tableVars>>

---------------------------------------------------------------------------
(* The buttons and the dialogs. *)

\* isPending of the button's mutation, which is one for the whole table.
IsPending(b) == \E t \in tasks : t.button = b

Submit(b, o) ==
    /\ Cardinality(tasks) < MaxTasks
    /\ tasks' = tasks \cup {[button |-> b, of |-> o, phase |-> "sent"]}

ConfirmParcel(o) ==
    /\ RowShown(o) /\ rows[o] = "Pending" /\ ~IsPending("confirm")
    /\ Submit("confirm", o)
    /\ UNCHANGED <<parcel, rows, dialog, tableVars>>

MarkReady(o) ==
    /\ RowShown(o) /\ rows[o] = "Preparing" /\ ~IsPending("ready")
    /\ Submit("ready", o)
    /\ UNCHANGED <<parcel, rows, dialog, tableVars>>

Open(kind, o) == dialog' = [kind |-> kind, of |-> o, text |-> FALSE]

OpenDetails(o) ==
    /\ RowShown(o) /\ Open("details", o)
    /\ UNCHANGED <<parcel, rows, tasks, tableVars>>

OpenTracking(o) ==
    /\ RowShown(o) /\ rows[o] = "ReadyForPickup" /\ Open("tracking", o)
    /\ UNCHANGED <<parcel, rows, tasks, tableVars>>

\* Mutant: another report may be under way.
MayReportAgain(o) == RowShown(o) /\ rows[o] \in {"Pending", "Preparing"}

\* The row's Report Issue button opens the dialog with an empty text.
MayReport(o) == RowShown(o) /\ rows[o] \in {"Pending", "Preparing"} /\ ~IsPending("report")

OpenIssue(o) ==
    /\ MayReport(o) /\ Open("issue", o)
    /\ UNCHANGED <<parcel, rows, tasks, tableVars>>

TypeIssue ==
    /\ dialog.kind = "issue"
    /\ \E text \in BOOLEAN : dialog' = [dialog EXCEPT !.text = text]
    /\ UNCHANGED <<parcel, rows, tasks, tableVars>>

SubmitIssue ==
    /\ dialog.kind = "issue" /\ dialog.text /\ ~IsPending("report")
    /\ Submit("report", dialog.of)
    /\ UNCHANGED <<parcel, rows, dialog, tableVars>>

\* Cancel, Close, the cross and the backdrop; none is disabled.
CloseDialog ==
    /\ dialog # NoDialog /\ dialog' = NoDialog
    /\ UNCHANGED <<parcel, rows, tasks, tableVars>>

---------------------------------------------------------------------------
(* The Operations service. *)

\* PreparePackageCommandConsumer stores the package anew, also when the
\* command is delivered again.
PreparePackage(o) ==
    /\ parcel' = [parcel EXCEPT ![o] = "Pending"]
    /\ UNCHANGED <<rows, tasks, dialog, tableVars>>

Outcome(b) == CASE b = "confirm" -> "Preparing"
                [] b = "ready"   -> "ReadyForPickup"
                [] b = "report"  -> "Failed"

WithPhase(t, phase) == (tasks \ {t}) \cup {[t EXCEPT !.phase = phase]}

\* StartProcessingBySeller, MarkReadyForPickupBySeller, ReportProblemBySeller.
\* The event published after the store may fail, and the request with it.
ServeTask(t) ==
    /\ t \in tasks /\ t.phase = "sent"
    /\ \/ /\ parcel' = [parcel EXCEPT ![t.of] = Outcome(t.button)]
          /\ \/ tasks' = WithPhase(t, "served")
             \/ t.button # "confirm" /\ tasks' = WithPhase(t, "failed")
       \/ tasks' = WithPhase(t, "failed") /\ UNCHANGED parcel
    /\ UNCHANGED <<rows, dialog, tableVars>>

\* A reported issue closes the dialog that is open by now.
TaskAnswered(t) ==
    /\ t \in tasks /\ t.phase # "sent"
    /\ tasks' = tasks \ {t}
    /\ dialog' = IF t.button = "report" /\ t.phase = "served" /\ dialog.kind = "issue"
                   THEN NoDialog ELSE dialog
    /\ UNCHANGED <<parcel, rows, tableVars>>

SalesNext ==
    \/ \E o \in Parcels : ConfirmParcel(o) \/ MarkReady(o) \/ OpenDetails(o)
                          \/ OpenTracking(o) \/ OpenIssue(o) \/ PreparePackage(o)
    \/ TypeIssue \/ SubmitIssue \/ CloseDialog
    \/ RowsFetched \/ LeaveDesk \/ ReturnToDesk
    \/ \E t \in tasks : ServeTask(t) \/ TaskAnswered(t)
    \/ \E s \in SearchTerms \cup {"all"} : SearchRows(s)
    \/ \E n \in 1..Cardinality(Parcels) : GoToRows(n)

SalesSpec == SalesInit /\ [][SalesNext]_salesVars

---------------------------------------------------------------------------
(* Properties. *)

\* A report under way can only close the dialog it was made in: its answer
\* sets reportIssuePkg to null, and no other order's dialog can be open by
\* then, although the first can be closed while it waits (App.tsx).
IssueAnswerClosesItsOwnDialog ==
    \A t \in tasks : t.button = "report" /\ dialog.kind = "issue" => dialog.of = t.of
=============================================================================
