------------------------------ MODULE Newsletter ------------------------------
(***************************************************************************)
(* One address of the newsletter (modules/notifications): the double       *)
(* opt-in, the two mails that carry a link, and the leases under which     *)
(* several runs of the worker job prepare, send and finish the same mail.  *)
(*                                                                         *)
(* Every run of sendNewsletterForSystem mints one token and, when it       *)
(* claims the delivery, one lease; both are the number of the run here.    *)
(* Time is untimed: a lease, a link or the minute between two requests may *)
(* end at any moment.                                                      *)
(***************************************************************************)
EXTENDS Naturals, FiniteSets

CONSTANTS MaxRequests,      \* bound: consents given by the subscriber
          MaxRuns           \* bound: runs of the worker job

VARIABLES subscription,     \* the newsletter_subscription row
          deliveries,       \* (code, request) -> its notification_delivery row
          recent,           \* a confirmation mail was queued in the last minute
          runs,             \* run -> what it claimed and where it stands
          inbox,            \* runs whose mail, hence whose link, went out
          consent           \* kept for the properties: the request whose link
                            \* confirmed the subscription

letterVars == <<subscription, deliveries, recent, runs, inbox, consent>>

Unset     == 0
Templates == {"newsletter-confirm", "newsletter-welcome"}
Consents  == 1..MaxRequests
Runs      == 1..MaxRuns
Keys      == Templates \X Consents     \* the dedupeKey, which is unique

Absent == [status |-> "ABSENT", lease |-> Unset, leased |-> FALSE]
Queued == [status |-> "QUEUED", lease |-> Unset, leased |-> FALSE]

LinkOf == [hash : Runs \cup {Unset}, open : BOOLEAN]
NoLink == [hash |-> Unset, open |-> FALSE]
Link(r) == [hash |-> r, open |-> TRUE]

LettersInit ==
  /\ subscription = [status |-> "NONE", request |-> Unset, confirmation |-> NoLink,
                     unsubscribe |-> NoLink]
  /\ deliveries = [k \in Keys |-> Absent]
  /\ recent = FALSE
  /\ runs = [r \in Runs |-> [key |-> <<>>, at |-> "unborn"]]
  /\ inbox = {}
  /\ consent = Unset

(***************************************************************************)
(* The subscriber                                                          *)
(***************************************************************************)
Enqueued(code, request) == [deliveries EXCEPT ![<<code, request>>] = Queued]

\* A fresh consent: the row is reset, its earlier links are forgotten.
Resubscribed(request) ==
  [status |-> "PENDING", request |-> request, confirmation |-> NoLink, unsubscribe |-> NoLink]

RequestSubscription ==
  /\ subscription.request < MaxRequests
  /\ subscription.status # "CONFIRMED"
  /\ ~ (recent /\ subscription.status = "PENDING")
  /\ subscription' = Resubscribed(subscription.request + 1)
  /\ deliveries' = Enqueued("newsletter-confirm", subscription.request + 1)
  /\ recent' = TRUE
  /\ UNCHANGED <<runs, inbox, consent>>

MinutePasses ==
  /\ recent
  /\ recent' = FALSE
  /\ UNCHANGED <<subscription, deliveries, runs, inbox, consent>>

\* Following a link that does not match the row changes nothing.
Confirm(r) ==
  /\ r \in inbox
  /\ subscription.status = "PENDING"
  /\ subscription.confirmation = Link(r)
  /\ subscription' = [subscription EXCEPT !.status = "CONFIRMED", !.confirmation.open = FALSE]
  /\ deliveries' = Enqueued("newsletter-welcome", subscription.request)
  /\ consent' = runs[r].key[2]
  /\ UNCHANGED <<recent, runs, inbox>>

Unsubscribe(r) ==
  /\ r \in inbox
  /\ subscription.status = "CONFIRMED"
  /\ subscription.unsubscribe = Link(r)
  /\ subscription' = [subscription EXCEPT !.status = "UNSUBSCRIBED"]
  /\ UNCHANGED <<deliveries, recent, runs, inbox, consent>>

LinkExpires ==
  /\ \/ /\ subscription.confirmation.open
        /\ subscription' = [subscription EXCEPT !.confirmation.open = FALSE]
     \/ /\ subscription.unsubscribe.open
        /\ subscription' = [subscription EXCEPT !.unsubscribe.open = FALSE]
  /\ UNCHANGED <<deliveries, recent, runs, inbox, consent>>

(***************************************************************************)
(* The worker                                                              *)
(***************************************************************************)
\* The mail still belongs to the request the row is at, and to its status.
Superseded(key) ==
  \/ key[2] # subscription.request
  \/ subscription.status # IF key[1] = "newsletter-confirm" THEN "PENDING" ELSE "CONFIRMED"

Claimable(key) ==
  /\ deliveries[key].status \in {"QUEUED", "FAILED"}
  /\ ~ deliveries[key].leased

PrepareNewsletter(r, key) ==
  /\ runs[r].at = "unborn"
  /\ \A q \in Runs : q < r => runs[q].at # "unborn"
  /\ ~ Superseded(key)
  /\ Claimable(key)
  /\ deliveries' = [deliveries EXCEPT ![key] =
                      [status |-> "QUEUED", lease |-> r, leased |-> TRUE]]
  /\ subscription' = IF key[1] = "newsletter-confirm"
                     THEN [subscription EXCEPT !.confirmation = Link(r)]
                     ELSE [subscription EXCEPT !.unsubscribe = Link(r)]
  /\ runs' = [runs EXCEPT ![r] = [key |-> key, at |-> "prepared"]]
  /\ UNCHANGED <<recent, inbox, consent>>

LeaseLapses(key) ==
  /\ deliveries[key].leased
  /\ deliveries' = [deliveries EXCEPT ![key].leased = FALSE]
  /\ UNCHANGED <<subscription, recent, runs, inbox, consent>>

\* The mail server accepted the mail and said so.
Send(r) ==
  /\ runs[r].at = "prepared"
  /\ inbox' = inbox \cup {r}
  /\ runs' = [runs EXCEPT ![r].at = "sent"]
  /\ UNCHANGED <<subscription, deliveries, recent, consent>>

\* The template is missing or the mail server did not answer; the mail may
\* have gone out all the same.
SendThrows(r) ==
  /\ runs[r].at = "prepared"
  /\ \/ inbox' = inbox
     \/ inbox' = inbox \cup {r}
  /\ runs' = [runs EXCEPT ![r].at = "caught"]
  /\ UNCHANGED <<subscription, deliveries, recent, consent>>

FinishedWithoutLease(r, status) ==
  [deliveries EXCEPT ![runs[r].key] = [status |-> status, lease |-> Unset, leased |-> FALSE]]

\* finishDelivery writes only under the lease the run still holds.
Finished(r, status) ==
  LET key == runs[r].key
  IN IF deliveries[key].lease = r /\ deliveries[key].status = "QUEUED"
     THEN [deliveries EXCEPT ![key] = [status |-> status, lease |-> Unset, leased |-> FALSE]]
     ELSE deliveries

FinishSent(r) ==
  /\ runs[r].at = "sent"
  /\ deliveries' = Finished(r, "SENT")
  /\ runs' = [runs EXCEPT ![r].at = "done"]
  /\ UNCHANGED <<subscription, recent, inbox, consent>>

\* The database fails: the catch block of the same run finishes it as unsent.
FinishSentThrows(r) ==
  /\ runs[r].at = "sent"
  /\ runs' = [runs EXCEPT ![r].at = "caught"]
  /\ UNCHANGED <<subscription, deliveries, recent, inbox, consent>>

FinishUnsent(r) ==
  /\ runs[r].at = "caught"
  /\ deliveries' = Finished(r, "FAILED")
  /\ runs' = [runs EXCEPT ![r].at = "done"]
  /\ UNCHANGED <<subscription, recent, inbox, consent>>

\* The process dies, or the write of the catch block fails as well.
RunDies(r) ==
  /\ runs[r].at \in {"prepared", "sent", "caught"}
  /\ runs' = [runs EXCEPT ![r].at = "done"]
  /\ UNCHANGED <<subscription, deliveries, recent, inbox, consent>>

LettersNext ==
  \/ RequestSubscription
  \/ MinutePasses
  \/ LinkExpires
  \/ \E k \in Keys : LeaseLapses(k)
  \/ \E r \in Runs :
       \/ Confirm(r)
       \/ Unsubscribe(r)
       \/ \E k \in Keys : PrepareNewsletter(r, k)
       \/ Send(r)
       \/ SendThrows(r)
       \/ FinishSent(r)
       \/ FinishSentThrows(r)
       \/ FinishUnsent(r)
       \/ RunDies(r)

LettersSpec == LettersInit /\ [][LettersNext]_letterVars

(***************************************************************************)
(* Properties                                                              *)
(***************************************************************************)
\* The type of every variable.
LettersTypeOK ==
  /\ subscription \in [status : {"NONE", "PENDING", "CONFIRMED", "UNSUBSCRIBED"},
                       request : 0..MaxRequests, confirmation : LinkOf, unsubscribe : LinkOf]
  /\ deliveries \in [Keys -> [status : {"ABSENT", "QUEUED", "FAILED", "SENT"},
                              lease : Runs \cup {Unset}, leased : BOOLEAN]]
  /\ recent \in BOOLEAN
  /\ runs \in [Runs -> [key : Keys \cup {<<>>},
                        at : {"unborn", "prepared", "sent", "caught", "done"}]]
  /\ inbox \subseteq Runs
  /\ consent \in Consents \cup {Unset}

\* A subscription stands confirmed only through a link mailed for the consent
\* it is at: not through the link of an earlier request, however late its job
\* ran or its mail was opened (requestSubscription, prepareNewsletter, confirm).
ConfirmedByItsOwnLink == subscription.status = "CONFIRMED" => consent = subscription.request

\* Once the mail of the present request counts as sent, and so is never tried
\* again, the link the row knows is the one of a mail that went out: of two
\* runs that both sent, the one whose lease was lost never settles the mail
\* with the other's link in the row (claim, finishDelivery).
SentLinkWorks ==
  \A code \in Templates :
    (/\ subscription.request # Unset
     /\ deliveries[<<code, subscription.request>>].status = "SENT")
    => IF code = "newsletter-confirm"
       THEN subscription.confirmation.hash \in inbox
       ELSE subscription.unsubscribe.hash \in inbox

\* Both: the links of the two mails follow the consent they were asked for.
LinksFollowConsent == ConfirmedByItsOwnLink /\ SentLinkWorks
===============================================================================
