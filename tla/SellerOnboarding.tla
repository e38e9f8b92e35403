---------------------------- MODULE SellerOnboarding ----------------------------
(***************************************************************************)
(* Becoming a seller: the registration page of the shop, the Sellers API   *)
(* that stores the account and announces it, the two consumers that verify *)
(* it, and the requests that change an account: its status, its products,  *)
(* a sale of its ledger.  All of them read the account, change what they   *)
(* are about and replace the whole of it, so that each may write back what *)
(* another has changed in between.  A consumer that stops half way is      *)
(* delivered its message again.                                            *)
(***************************************************************************)
EXTENDS Integers, FiniteSets

CONSTANTS
    Documents,       \* files the customer may choose
    NoDocument,      \* none chosen, none analysed
    NoAccount,       \* the identity has no seller's account
    Changes,         \* requests that change the account, each made once
    MaxFailures      \* bound on the publications that fail and the consumers that stop

SellerStatuses == {"PendingApproval", "Active", "Suspended", "Rejected"}

Accounts == [status : SellerStatuses,
             verification : {"Pending", "Processing", "Verified"},
             notes : {"none", "document", "tax"}]

ASSUME OnboardingAssumption ==
    /\ NoDocument \notin Documents
    /\ NoAccount \notin Accounts
    /\ MaxFailures \in Nat

VARIABLES
    registration,    \* the registration page
    enrolling,       \* the request POST /api/sellers/register
    sellerAccount,   \* the seller's document in Mongo
    verifying,       \* the delivery of each verification's message
    changing,        \* the requests that have read the account: the copy each holds
    storedBy,        \* history: who stored the account as it is
    failures,        \* publications failed and consumers stopped so far
    known            \* data of the query ["seller-me"]

onboardingVars == <<registration, enrolling, sellerAccount, verifying, changing, storedBy,
                    failures, known>>

Checks == {"document", "tax"}

RegistrationPage == [step : {"upload", "confirm", "success"},
                     file : Documents \cup {NoDocument},
                     analysing : Documents \cup {NoDocument},
                     extracted : Documents \cup {NoDocument}]

Deliveries == [phase : {"none", "sent", "read", "processing", "done"},
               seen : Accounts \cup {NoAccount}]

OnboardingTypeOK ==
    /\ registration \in RegistrationPage
    /\ enrolling \in {"idle", "sent", "created", "announced", "accepted", "refused"}
    /\ sellerAccount \in Accounts \cup {NoAccount}
    /\ verifying \in [Checks -> Deliveries]
    /\ changing \in [Changes -> Deliveries]
    /\ storedBy \in {"nobody", "registration", "verification", "request"}
    /\ failures \in Nat
    /\ known \in {"unknown", "absent"} \cup SellerStatuses

Untouched == [step |-> "upload", file |-> NoDocument,
              analysing |-> NoDocument, extracted |-> NoDocument]

Unread == [phase |-> "none", seen |-> NoAccount]

OnboardingInit ==
    /\ registration = Untouched
    /\ enrolling = "idle"
    /\ sellerAccount = NoAccount
    /\ verifying = [c \in Checks |-> Unread]
    /\ changing = [r \in Changes |-> Unread]
    /\ storedBy = "nobody"
    /\ failures = 0
    /\ known = "unknown"

---------------------------------------------------------------------------
(* The registration page. *)

Server == UNCHANGED <<sellerAccount, verifying, changing, storedBy, failures, known>>

\* handleFileSelect: the file can be changed while another is being analysed.
SelectFile(d) ==
    /\ registration.step = "upload"
    /\ registration' = [registration EXCEPT !.file = d]
    /\ UNCHANGED enrolling /\ Server

\* handleUpload.
Analyse ==
    /\ registration.step = "upload" /\ registration.file # NoDocument
    /\ registration.analysing = NoDocument
    /\ registration' = [registration EXCEPT !.analysing = registration.file]
    /\ UNCHANGED enrolling /\ Server

\* The answer fills the form and shows it; a failure lets the customer retry.
Analysed ==
    /\ registration.analysing # NoDocument
    /\ \/ registration' = [registration EXCEPT !.analysing = NoDocument,
              !.extracted = registration.analysing, !.step = "confirm"]
       \/ registration' = [registration EXCEPT !.analysing = NoDocument]
    /\ UNCHANGED enrolling /\ Server

\* The Back button is not disabled while the registration is under way.
BackToUpload ==
    /\ registration.step = "confirm"
    /\ registration' = [registration EXCEPT !.step = "upload"]
    /\ UNCHANGED enrolling /\ Server

\* handleSubmit; the mutation belongs to the page, whatever step it shows.
SubmitRegistration ==
    /\ registration.step = "confirm" /\ registration.extracted # NoDocument
    /\ enrolling = "idle"
    /\ enrolling' = "sent"
    /\ UNCHANGED registration /\ Server

RegistrationAnswered ==
    /\ enrolling \in {"accepted", "refused"}
    /\ enrolling' = "idle"
    /\ registration' = IF enrolling = "accepted"
                         THEN [registration EXCEPT !.step = "success"] ELSE registration
    /\ Server

\* Leaving the page and opening it again, once nothing is under way.
ReopenRegistration ==
    /\ enrolling = "idle" /\ registration.analysing = NoDocument
    /\ registration # Untouched
    /\ registration' = Untouched
    /\ UNCHANGED enrolling /\ Server

\* useSeller: a 404 is no seller.
SellerFetched ==
    /\ known' = IF sellerAccount = NoAccount THEN "absent" ELSE sellerAccount.status
    /\ UNCHANGED <<registration, enrolling, sellerAccount, verifying, changing, storedBy, failures>>

---------------------------------------------------------------------------
(* The Sellers API. *)

\* An identity that has an account is answered 409.
CreateAccount ==
    /\ enrolling = "sent"
    /\ IF sellerAccount = NoAccount
         THEN /\ enrolling' = "created"
              /\ sellerAccount' = [status |-> "PendingApproval",
                                   verification |-> "Pending", notes |-> "none"]
              /\ storedBy' = "registration"
         ELSE enrolling' = "refused" /\ UNCHANGED <<sellerAccount, storedBy>>
    /\ UNCHANGED <<registration, verifying, changing, failures, known>>

Deliver(c) == [verifying EXCEPT ![c].phase = "sent"]

\* The two publications follow the insertion, without an outbox.
Announce ==
    /\ \/ enrolling = "created" /\ enrolling' = "announced"
          /\ verifying' = Deliver("document")
       \/ enrolling = "announced" /\ enrolling' = "accepted"
          /\ verifying' = Deliver("tax")
    /\ UNCHANGED <<registration, sellerAccount, changing, storedBy, failures, known>>

AnnounceFails ==
    /\ enrolling \in {"created", "announced"} /\ failures < MaxFailures
    /\ enrolling' = "refused" /\ failures' = failures + 1
    /\ UNCHANGED <<registration, sellerAccount, verifying, changing, storedBy, known>>

---------------------------------------------------------------------------
(* The verifications. *)

Moves(c, phase, seen) == verifying' = [verifying EXCEPT ![c] = [phase |-> phase, seen |-> seen]]
Consumer == UNCHANGED <<registration, enrolling, changing, failures, known>>
Stores(account) == sellerAccount' = account /\ storedBy' = "verification"

\* What makes each consumer return at once.
Completed(c, a) == IF c = "document" THEN a.verification = "Verified" ELSE a.notes = "tax"

ReadAccount(c) ==
    /\ verifying[c].phase = "sent"
    /\ IF Completed(c, sellerAccount)
         THEN Moves(c, "done", NoAccount)
         ELSE Moves(c, "read", sellerAccount)
    /\ UNCHANGED <<sellerAccount, storedBy>> /\ Consumer

\* The account as the document's verification stores it: first under way, then
\* verified.  Neither verification can fail yet.
UnderWay(a) == [a EXCEPT !.verification = "Processing"]
Verified(a) == [a EXCEPT !.status = "Active", !.verification = "Verified", !.notes = "document"]

\* Mutant: the tax verification leaves the status to the other.
BilledOnly(a) == [a EXCEPT !.notes = "tax"]

\* The account as the tax verification stores it.
Billed(a) == [a EXCEPT !.status = "Active", !.notes = "tax"]

StoreProcessing ==
    /\ verifying["document"].phase = "read"
    /\ Stores(UnderWay(verifying["document"].seen))
    /\ Moves("document", "processing", verifying["document"].seen)
    /\ Consumer

StoreVerified ==
    /\ verifying["document"].phase = "processing"
    /\ Stores(Verified(verifying["document"].seen))
    /\ Moves("document", "done", NoAccount)
    /\ Consumer

StoreBilled ==
    /\ verifying["tax"].phase = "read"
    /\ Stores(Billed(verifying["tax"].seen))
    /\ Moves("tax", "done", NoAccount)
    /\ Consumer

\* The process stops, or the announcement after the last store fails.
ConsumerStops(c) ==
    /\ verifying[c].phase \in {"read", "processing", "done"} /\ failures < MaxFailures
    /\ failures' = failures + 1
    /\ Moves(c, "sent", NoAccount)
    /\ UNCHANGED <<registration, enrolling, sellerAccount, changing, storedBy, known>>

---------------------------------------------------------------------------
(* The requests that change an account. *)

Request == UNCHANGED <<registration, enrolling, verifying, failures, known>>

\* An account that is not found is answered 404.
ReadToChange(r) ==
    /\ changing[r].phase = "none" /\ sellerAccount # NoAccount
    /\ changing' = [changing EXCEPT ![r] = [phase |-> "read", seen |-> sellerAccount]]
    /\ UNCHANGED <<sellerAccount, storedBy>> /\ Request

\* The copy is stored with the status the request asks for, or as it was read
\* but for its products or its ledger.  An answer that fails is not retried.
StoreChange(r) ==
    /\ changing[r].phase = "read"
    /\ \E status \in SellerStatuses :
          sellerAccount' = [changing[r].seen EXCEPT !.status = status]
    /\ storedBy' = "request"
    /\ changing' = [changing EXCEPT ![r] = [phase |-> "done", seen |-> NoAccount]]
    /\ Request

OnboardingNext ==
    \/ \E d \in Documents : SelectFile(d)
    \/ Analyse \/ Analysed \/ BackToUpload
    \/ SubmitRegistration \/ RegistrationAnswered \/ ReopenRegistration \/ SellerFetched
    \/ CreateAccount \/ Announce \/ AnnounceFails
    \/ \E c \in Checks : ReadAccount(c) \/ ConsumerStops(c)
    \/ StoreProcessing \/ StoreVerified \/ StoreBilled
    \/ \E r \in Changes : ReadToChange(r) \/ StoreChange(r)

OnboardingSpec == OnboardingInit /\ [][OnboardingNext]_onboardingVars

---------------------------------------------------------------------------
(* Properties. *)

\* Neither verification leaves a seller pending: once the document's has ended,
\* an account that is not active was stored last by a request that changed it,
\* however the verifications overlap, overwrite each other, write back a request's
\* status or are repeated (SellerDocumentVerificationConsumer,
\* SellerTaxBillingVerificationConsumer).  A request can: one that read the account
\* before it was active and stores it after (UpdateAsync replaces the whole
\* document, SellerRepository.cs) leaves it pending, and no message is due any more.
VerifiedSellerIsActive ==
    verifying["document"].phase = "done" /\ sellerAccount.status # "Active"
        => storedBy = "request"
=============================================================================
