------------------------------ MODULE Delivery ------------------------------
(***************************************************************************)
(* The outbox together with the processors of its jobs: shipment mails,    *)
(* sent under a claim of their delivery row (NotificationsService.deliver  *)
(* and the repository behind it), and cache revalidations, one request to  *)
(* the web application each.                                               *)
(***************************************************************************)
EXTENDS Outbox

VARIABLES
  run,       \* the job each processor executes and where it is with it
  delivery,  \* the rows of notification_delivery, by event
  mails,     \* messages the SMTP server accepted, by event
  windows    \* faults after which a second message is accepted as possible

processorVars == <<run, delivery, mails, windows>>
vars == <<outboxVars, queueVars, faults, processorVars>>

NoWork     == 0
Idle       == [job |-> NoWork, at |-> "idle", token |-> NoToken]
NoDelivery == [status |-> "absent", token |-> NoToken, leased |-> FALSE, attempts |-> 0]

Init ==
  /\ OutboxInit
  /\ run = [p \in Processors |-> Idle]
  /\ delivery = [e \in Events |-> NoDelivery]
  /\ mails = [e \in Events |-> 0]
  /\ windows = 0

JobAt(p, at) == run[p].at = at
JobOf(p)     == run[p].job
MailAt(p, at) == JobAt(p, at) /\ event[JobOf(p)].kind = "mail"
Goes(p, at)  == run' = [run EXCEPT ![p].at = at]
Leaves(p)    == run' = [run EXCEPT ![p] = Idle]

NoFault  == UNCHANGED <<faults, windows>>
Closed   == Fault /\ UNCHANGED windows
Window   == Fault /\ windows' = windows + 1

CompleteJob(p) == job' = Completed(p, JobOf(p)) /\ Leaves(p)
FailJob(p, errors) ==
  \E error \in errors : job' = Failed(p, JobOf(p), error) /\ Leaves(p)

StartJob(p, e) ==
  /\ JobAt(p, "idle") /\ job[e].state = "waiting"
  /\ job' = Taken(p, e)
  /\ run' = [run EXCEPT ![p] = [job |-> e, at |-> "start", token |-> NoToken]]
  /\ UNCHANGED <<outboxVars, failures, delivery, mails>> /\ NoFault

-----------------------------------------------------------------------------
(* Mail.  The shipment and the template are read first; either may fail.   *)
ReadThrows(p) ==
  /\ MailAt(p, "start")
  /\ FailJob(p, {"notFound", "conflict", "dependency", "database"})
  /\ UNCHANGED <<outboxVars, failures, delivery, mails>> /\ Closed

(* claimDelivery: the row is created once; a claim needs it unsent and not *)
(* leased to somebody else.  A refused claim completes the job.            *)
ClaimableUnsent(e) == delivery[e].status # "SENT"
Claimable(e) == ClaimableUnsent(e) /\ ~delivery[e].leased

ClaimDelivery(p) ==
  /\ MailAt(p, "start") /\ Claimable(JobOf(p))
  /\ delivery' = [delivery EXCEPT ![JobOf(p)] =
                    [status |-> "QUEUED", token |-> @.attempts + 1, leased |-> TRUE,
                     attempts |-> @.attempts + 1]]
  /\ run' = [run EXCEPT ![p].at = "claimed", ![p].token = delivery[JobOf(p)].attempts + 1]
  /\ UNCHANGED <<outboxVars, queueVars, mails>> /\ NoFault

ClaimRefused(p) ==
  /\ MailAt(p, "start") /\ ~Claimable(JobOf(p))
  /\ CompleteJob(p)
  /\ UNCHANGED <<outboxVars, failures, delivery, mails>> /\ NoFault

Mailed(p) == [mails EXCEPT ![JobOf(p)] = @ + 1]

SendMail(p) ==
  /\ JobAt(p, "claimed")
  /\ mails' = Mailed(p)
  /\ Goes(p, "sent")
  /\ UNCHANGED <<outboxVars, queueVars, delivery>> /\ NoFault

\* The server refuses, or accepts and the answer is lost.
SendThrows(p) ==
  /\ JobAt(p, "claimed")
  /\ Goes(p, "unsent")
  /\ \/ UNCHANGED mails /\ Closed
     \/ mails' = Mailed(p) /\ Window
  /\ UNCHANGED <<outboxVars, queueVars, delivery>>

(* finishDelivery, fenced by the token of the claim.                       *)
Finished(p, status) ==
  IF delivery[JobOf(p)].token = run[p].token /\ delivery[JobOf(p)].status = "QUEUED"
  THEN [delivery EXCEPT ![JobOf(p)].status = status, ![JobOf(p)].token = NoToken,
                        ![JobOf(p)].leased = FALSE]
  ELSE delivery

FinishSent(p) ==
  /\ JobAt(p, "sent")
  /\ delivery' = Finished(p, "SENT")
  /\ CompleteJob(p)
  /\ UNCHANGED <<outboxVars, failures, mails>> /\ NoFault

\* The update throws, whether or not it was committed; the catch takes the
\* message for unsent.
FinishThrows(p) ==
  /\ JobAt(p, "sent")
  /\ delivery' \in {delivery, Finished(p, "SENT")}
  /\ Goes(p, "unsent")
  /\ UNCHANGED <<outboxVars, queueVars, mails>> /\ Window

FinishUnsent(p) ==
  /\ JobAt(p, "unsent")
  /\ delivery' = Finished(p, "FAILED")
  /\ FailJob(p, {"dependency"})
  /\ UNCHANGED <<outboxVars, failures, mails>> /\ NoFault

FinishUnsentThrows(p) ==
  /\ JobAt(p, "unsent")
  /\ delivery' \in {delivery, Finished(p, "FAILED")}
  /\ FailJob(p, {"database", "unclassified"})
  /\ UNCHANGED <<outboxVars, failures, mails>> /\ Closed

-----------------------------------------------------------------------------
(* Cache: one request that may be repeated.                                *)
CacheAt(p) == JobAt(p, "start") /\ event[JobOf(p)].kind = "cache"

Revalidate(p) ==
  /\ CacheAt(p)
  /\ CompleteJob(p)
  /\ UNCHANGED <<outboxVars, failures, delivery, mails>> /\ NoFault

RevalidateThrows(p) ==
  /\ CacheAt(p)
  /\ FailJob(p, {"network", "rejected"})
  /\ UNCHANGED <<outboxVars, failures, delivery, mails>> /\ Closed

-----------------------------------------------------------------------------
(* A worker process dies with the job in its hands; BullMQ gives a job     *)
(* whose lock was not renewed to somebody else, also when its processor is *)
(* only slow.  A claim of a delivery ends by itself, also under its holder.*)
ProcessorDies(p) ==
  /\ ~JobAt(p, "idle")
  /\ Leaves(p)
  /\ IF JobAt(p, "sent") THEN Window ELSE Closed
  /\ UNCHANGED <<outboxVars, queueVars, delivery, mails>>

Orphan(e) == \A p \in Processors : JobOf(p) = e => ~Locked(p, e)

StallJob(e) ==
  /\ job[e].state = "active"
  /\ job' = Stalled(e)
  /\ IF Orphan(e) THEN NoFault ELSE Closed
  /\ UNCHANGED <<outboxVars, failures, run, delivery, mails>>

HeldByProcessor(e) ==
  \E p \in Processors : JobOf(p) = e /\ run[p].token = delivery[e].token

DeliveryLeaseEnds(e) ==
  /\ delivery[e].leased
  /\ delivery' = [delivery EXCEPT ![e].leased = FALSE]
  /\ IF HeldByProcessor(e) THEN Window ELSE NoFault
  /\ UNCHANGED <<outboxVars, queueVars, run, mails>>

-----------------------------------------------------------------------------
Process(p) ==
  \/ \E e \in Events : StartJob(p, e)
  \/ ClaimDelivery(p) \/ ClaimRefused(p) \/ SendMail(p) \/ FinishSent(p) \/ FinishUnsent(p)
  \/ Revalidate(p)

ProcessingFails(p) ==
  \/ ReadThrows(p) \/ SendThrows(p) \/ FinishThrows(p) \/ FinishUnsentThrows(p)
  \/ RevalidateThrows(p) \/ ProcessorDies(p)

Next ==
  \/ OutboxNext /\ UNCHANGED processorVars
  \/ \E p \in Processors : Process(p) \/ ProcessingFails(p)
  \/ \E e \in Events : StallJob(e) \/ DeliveryLeaseEnds(e)

(* The schedules, the queues and the clock never stop: each dispatcher     *)
(* goes on with its batch and claims the next one, each processor goes on  *)
(* with its job and takes the next one; the clock, the check for lost      *)
(* locks and the dead-letter reconciliation get their turn.  Faults are    *)
(* finite and never forced.                                                *)
Recovers(e) ==
  \/ /\ \/ LeaseEnds(e) /\ ~HeldByDispatcher(e)
        \/ RecordFailure(e)
     /\ UNCHANGED processorVars
  \/ StallJob(e) /\ Orphan(e)

Fairness ==
  /\ \A d \in Dispatchers : WF_vars(Dispatch(d) /\ UNCHANGED processorVars)
  /\ \A p \in Processors : WF_vars(Process(p))
  /\ WF_vars(\E e \in Events : Recovers(e))

Spec == Init /\ [][Next]_vars /\ Fairness

-----------------------------------------------------------------------------
TypeOK ==
  /\ OutboxTypeOK
  /\ run \in [Processors -> [job : Events \cup {NoWork},
                             at : {"idle", "start", "claimed", "sent", "unsent"},
                             token : Nat]]
  /\ delivery \in [Events -> [status : {"absent", "QUEUED", "FAILED", "SENT"},
                              token : Nat, leased : BOOLEAN, attempts : Nat]]
  /\ \A e \in Events : delivery[e].leased => delivery[e].token # NoToken
  /\ mails \in [Events -> Nat]
  /\ windows \in 0..faults

(* The detailed outbox keeps the abstract promise (OutboxPromise).         *)
WorkOf(state) ==
  CASE state = "absent"    -> "none"
    [] state = "completed" -> "done"
    [] state = "failed"    -> "given up"
    [] OTHER               -> "queued"

Promise == INSTANCE OutboxPromise WITH
  mark <- [e \in Events |-> event[e].phase],
  work <- [e \in Events |-> WorkOf(job[e].state)]
RefinesPromise == Promise!Spec

(* An event the routing does not know is set aside only once somebody can  *)
(* see it in job_failure (outbox-dispatcher: recorded, then quarantined).  *)
UnsupportedIsAlerted ==
  \A e \in Events :
    event[e].phase = "quarantined" /\ event[e].kind = "unsupported" => e \in failures

(* A customer gets a second copy of a message only when the first one was  *)
(* accepted and could not be recorded, or a claim was outlived by its      *)
(* holder: redeliveries, crashes elsewhere and concurrent processors never *)
(* cause one.                                                              *)
DuplicatesOnlyInWindows ==
  SumFunctionOnSet([e \in Events |-> IF mails[e] > 1 THEN mails[e] - 1 ELSE 0], Events)
    <= windows

(* No event is forgotten: dispatchers and processors that crash, refused   *)
(* calls and poison events ahead of it only delay the moment when it is    *)
(* quarantined, or published with its job executed to an end or shown      *)
(* among the failures: again and again nothing is left to do.              *)
Settled(e) ==
  \/ event[e].phase = "quarantined"
  \/ event[e].phase = "published" /\ (job[e].state = "completed" \/ e \in failures)
EventsSettle == []<>(\A e \in Events : event[e].phase = "absent" \/ Settled(e))

(* What the doc says of interrupted work (background-jobs-development.md): *)
(* it stays recoverable through redelivery.  A completed mail job nobody   *)
(* works on any more has sent its mail.                                    *)
CompletedIsSent ==
  \A e \in Events :
    /\ event[e].kind = "mail" /\ job[e].state = "completed"
    /\ \A p \in Processors : JobOf(p) # e
    => delivery[e].status = "SENT"
=============================================================================
