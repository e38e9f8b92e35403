-------------------------------- MODULE SignIn --------------------------------
(***************************************************************************)
(* How requests that are not authorised send the user to the login page.   *)
(* The shop ("web") shares one flag between the interceptors of all its    *)
(* requests; the sellers' portal ("portal") has none.  ApiRequests run     *)
(* concurrently: each awaits a token, is sent, and is answered.            *)
(***************************************************************************)
EXTENDS Integers

CONSTANT ApiRequests     \* the requests a page may have under way

VARIABLES
    app,          \* the application that is loaded
    booted,       \* initializeMsal has ended and the page is rendered
    account,      \* MSAL has an account
    request,      \* where each request is
    redirecting,  \* isRedirecting
    timer,        \* the 500 ms timer that will call loginRedirect
    calls,        \* calls of loginRedirect made for the requests
    byHand,       \* the user has pressed Sign in
    away          \* the browser has left for the login page

signInVars == <<app, booted, account, request, redirecting, timer, calls, byHand, away>>

SignInTypeOK ==
    /\ app \in {"web", "portal"}
    /\ booted \in BOOLEAN /\ account \in BOOLEAN
    /\ request \in [ApiRequests -> {"idle", "token", "sent", "done", "rejected"}]
    /\ redirecting \in BOOLEAN /\ timer \in BOOLEAN
    /\ calls \in Nat
    /\ byHand \in BOOLEAN /\ away \in BOOLEAN

SignInInit ==
    /\ app \in {"web", "portal"}
    /\ booted = FALSE /\ account = FALSE
    /\ request = [r \in ApiRequests |-> "idle"]
    /\ redirecting = FALSE /\ timer = FALSE
    /\ calls = 0 /\ byHand = FALSE /\ away = FALSE

\* initializeMsal takes the account from the redirect's answer or from the
\* cache; the page is rendered whether it succeeds or not.
Boot ==
    /\ ~booted /\ booted' = TRUE
    /\ account' \in BOOLEAN
    /\ UNCHANGED <<app, request, redirecting, timer, calls, byHand, away>>

Running == booted /\ ~away
Becomes(r, phase) == request' = [request EXCEPT ![r] = phase]

\* Without an account the request goes out without a token.  A rejected
\* request of the shop is sent again by its query.
Issue(r) ==
    /\ Running
    /\ request[r] = "idle" \/ (app = "web" /\ request[r] = "rejected")
    /\ Becomes(r, IF account THEN "token" ELSE "sent")
    /\ UNCHANGED <<app, booted, account, redirecting, timer, calls, byHand, away>>

TokenAcquired(r) ==
    /\ Running /\ request[r] = "token"
    /\ Becomes(r, "sent")
    /\ UNCHANGED <<app, booted, account, redirecting, timer, calls, byHand, away>>

\* Any other failure of acquireTokenSilent: the shop sends the request without
\* a token, the portal redirects.
TokenFails(r) ==
    /\ Running /\ request[r] = "token"
    /\ Becomes(r, IF app = "web" THEN "sent" ELSE "rejected")
    /\ calls' = IF app = "web" THEN calls ELSE calls + 1
    /\ UNCHANGED <<app, booted, account, redirecting, timer, byHand, away>>

\* The request interceptor's answer to interaction_required and its like.
InteractionRequired(r) ==
    /\ Running /\ app = "web" /\ request[r] = "token"
    /\ Becomes(r, "rejected")
    /\ IF redirecting
         THEN UNCHANGED <<redirecting, calls>>
         ELSE redirecting' = TRUE /\ calls' = calls + 1
    /\ UNCHANGED <<app, booted, account, timer, byHand, away>>

RequestAnswered(r) ==
    /\ Running /\ request[r] = "sent"
    /\ Becomes(r, "done")
    /\ UNCHANGED <<app, booted, account, redirecting, timer, calls, byHand, away>>

\* Mutants: the flag is not looked at; it is set and nothing is started.
StartRedirectAgain == redirecting' = TRUE /\ timer' = TRUE
StartRedirectSilently == redirecting' = TRUE /\ UNCHANGED timer

\* One redirect, in 500 ms, unless there is one already.
StartRedirect ==
    IF redirecting THEN UNCHANGED <<redirecting, timer>>
                   ELSE redirecting' = TRUE /\ timer' = TRUE

\* The response interceptor's answer to a 401.
Unauthorized(r) ==
    /\ Running /\ app = "web" /\ request[r] = "sent"
    /\ Becomes(r, "rejected")
    /\ StartRedirect
    /\ UNCHANGED <<app, booted, account, calls, byHand, away>>

\* authFetch's answer to a 401: every request redirects by itself.
PortalUnauthorized(r) ==
    /\ Running /\ app = "portal" /\ request[r] = "sent"
    /\ Becomes(r, "rejected")
    /\ calls' = calls + 1
    /\ UNCHANGED <<app, booted, account, redirecting, timer, byHand, away>>

TimerFires ==
    /\ Running /\ timer
    /\ timer' = FALSE /\ calls' = calls + 1
    /\ UNCHANGED <<app, booted, account, request, redirecting, byHand, away>>

\* handleLogin, from the header, a protected page or the portal's first page:
\* the button is there as long as nobody is signed in.
SignInPressed ==
    /\ Running /\ ~account /\ ~byHand
    /\ byHand' = TRUE
    /\ UNCHANGED <<app, booted, account, request, redirecting, timer, calls, away>>

Navigate ==
    /\ Running /\ (calls > 0 \/ byHand)
    /\ away' = TRUE
    /\ UNCHANGED <<app, booted, account, request, redirecting, timer, calls, byHand>>

RequestStep(r) ==
    \/ Issue(r) \/ TokenAcquired(r) \/ TokenFails(r) \/ InteractionRequired(r)
    \/ RequestAnswered(r) \/ Unauthorized(r) \/ PortalUnauthorized(r)

SignInNext ==
    \/ Boot \/ TimerFires \/ SignInPressed \/ Navigate
    \/ \E r \in ApiRequests : RequestStep(r)

\* A timer of 500 ms fires.
SignInFairness == WF_signInVars(TimerFires)

SignInSpec == SignInInit /\ [][SignInNext]_signInVars /\ SignInFairness

---------------------------------------------------------------------------
(* Properties. *)

\* However many requests of the shop fail together, and in whichever of the
\* two interceptors, loginRedirect is called at most once: a second call is
\* an interaction_in_progress error (api/client.ts, isRedirecting).
OneRedirect == app = "web" => calls <= 1

\* A request rejected for want of a login leads to the login page: the flag
\* that suppresses further redirects is only set by one that is on its way.
RejectedMeansRedirect == (\E r \in ApiRequests : request[r] = "rejected") ~> (calls > 0 \/ away)
=============================================================================
