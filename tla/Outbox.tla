------------------------------- MODULE Outbox -------------------------------
(***************************************************************************)
(* The transactional outbox and the queues behind it: a business           *)
(* transaction commits an event, dispatchers (one per worker process)      *)
(* claim batches of events under a lease, enqueue one job per event with   *)
(* an identifier derived from the event, and confirm; BullMQ hands the     *)
(* jobs to processors, retries them and gives up; what is given up is      *)
(* written to job_failure.  What a processor does with a job is left to    *)
(* the modules that EXTEND this one.                                       *)
(*                                                                         *)
(* Time is untimed: a lease is a flag that the clock clears at any moment, *)
(* and a back-off may be of any length, none included.  Everything that    *)
(* goes wrong (a crash, a refused call, a lease outlived by its holder) is *)
(* counted in "faults", which MaxFaults bounds.                            *)
(***************************************************************************)
EXTENDS Naturals, Sequences, FiniteSets, SequencesExt

CONSTANTS
  Events,       \* numbered in the order of occurred_at, id
  Dispatchers,  \* worker processes running outbox.dispatch jobs
  Processors,   \* slots of the other queues' workers
  KindsOf,      \* the kinds an event may be of
  BatchSize,    \* OUTBOX_BATCH_SIZE
  MaxTries,     \* RETRY_POLICY.attempts
  MaxStalls,    \* maxStalledCount
  MaxFaults     \* bound of the model

(* What routeOutboxEvent makes of an event: a mail or a cache job, a type  *)
(* nobody consumes, or one that is not supported or malformed.             *)
Enqueued == {"mail", "cache"}
Kinds    == Enqueued \cup {"deferred", "unsupported"}

ASSUME OutboxAssumption ==
  /\ Events \subseteq Nat \ {0} /\ IsFiniteSet(Events) /\ IsFiniteSet(Processors)
  /\ BatchSize \in Nat \ {0} /\ MaxTries \in Nat \ {0}
  /\ MaxStalls \in Nat /\ MaxFaults \in Nat
  /\ KindsOf \in [Events -> SUBSET Kinds]

VARIABLES
  event,     \* the rows of outbox_event
  batch,     \* what each dispatcher claimed and has not gone through
  step,      \* where it is with the first event of its batch
  job,       \* the job of each event in Redis
  failures,  \* the rows of job_failure, by event
  faults     \* faults so far

outboxVars == <<event, batch, step>>
queueVars  == <<job, failures>>

NoToken == 0
NoEvent == [phase |-> "absent", kind |-> "deferred", token |-> NoToken,
            leased |-> FALSE, attempts |-> 0]
NoJob   == [state |-> "absent", owner |-> "none", tries |-> 0, stalls |-> 0]

OutboxInit ==
  /\ event = [e \in Events |-> NoEvent]
  /\ batch = [d \in Dispatchers |-> <<>>]
  /\ step = [d \in Dispatchers |-> "route"]
  /\ job = [e \in Events |-> NoJob]
  /\ failures = {}
  /\ faults = 0

Fault == faults < MaxFaults /\ faults' = faults + 1

-----------------------------------------------------------------------------
(* The producers: the event is written in the business transaction.        *)
Commit(e, kind) ==
  /\ event[e].phase = "absent"
  /\ event' = [event EXCEPT ![e].phase = "pending", ![e].kind = kind]
  /\ UNCHANGED <<batch, step, queueVars, faults>>

-----------------------------------------------------------------------------
(* claimBatch.  The token of a claim is the number of the attempt, which   *)
(* no other claim of the row shares.                                       *)
EligibleAnyToken(e) == event[e].phase = "pending"
\* A claim whose holder is gone is never taken over.
EligibleUnclaimed(e) == EligibleAnyToken(e) /\ event[e].token = NoToken
Eligible(e) == EligibleAnyToken(e) /\ ~event[e].leased

(* The oldest of the rows S, as many as a batch may have, in their order.  *)
Oldest(S) ==
  {c \in UNION {[1..n -> S] : n \in 0..BatchSize} :
     /\ \A i, j \in DOMAIN c : i < j => c[i] < c[j]
     /\ \A e \in S \ Range(c) : BatchSize \in DOMAIN c /\ c[BatchSize] < e}

ClaimBatch(d) ==
  \E claimed \in Oldest({e \in Events : Eligible(e)}) :
    /\ batch[d] = <<>>
    /\ claimed # <<>>
    /\ event' = [e \in Events |->
                   IF e \in Range(claimed)
                   THEN [event[e] EXCEPT !.token = event[e].attempts + 1, !.leased = TRUE,
                                         !.attempts = @ + 1]
                   ELSE event[e]]
    /\ batch' = [batch EXCEPT ![d] =
                   [i \in DOMAIN claimed |->
                      [id |-> claimed[i], token |-> event[claimed[i]].attempts + 1]]]
    /\ step' = [step EXCEPT ![d] = "route"]
    /\ UNCHANGED <<queueVars, faults>>

At(d, s)    == batch[d] # <<>> /\ step[d] = s
Current(d)  == Head(batch[d]).id
KindOf(d)   == event[Current(d)].kind
Advance(d)  == /\ batch' = [batch EXCEPT ![d] = Tail(@)]
               /\ step' = [step EXCEPT ![d] = "route"]
Goto(d, s)  == step' = [step EXCEPT ![d] = s] /\ UNCHANGED batch

(* markDispatched and releaseClaim, fenced by the token of the claim; only *)
(* the first looks at the lease.                                           *)
Mine(d) == event[Current(d)].token = Head(batch[d]).token
Marked(d) ==
  IF Mine(d) /\ event[Current(d)].leased /\ event[Current(d)].phase = "pending"
  THEN [event EXCEPT ![Current(d)] =
          [@ EXCEPT !.phase = "published", !.token = NoToken, !.leased = FALSE]]
  ELSE event
Released(d, phase) ==
  IF Mine(d) /\ event[Current(d)].phase # "published"
  THEN [event EXCEPT ![Current(d)] =
          [@ EXCEPT !.phase = phase, !.token = NoToken, !.leased = FALSE]]
  ELSE event

(* The queue keeps one job per identifier: adding it again does nothing.   *)
Added(e) == IF job[e].state = "absent"
            THEN [job EXCEPT ![e].state = "waiting"] ELSE job

Enqueue(d) ==
  /\ At(d, "route") /\ KindOf(d) \in Enqueued
  /\ job' = Added(Current(d))
  /\ Goto(d, "added")
  /\ UNCHANGED <<event, failures, faults>>

\* The refused call goes on to the confirmation.
EnqueueConfirmsAnyway(d) ==
  /\ At(d, "route") /\ KindOf(d) \in Enqueued
  /\ Goto(d, "added")
  /\ Fault
  /\ UNCHANGED <<event, queueVars>>

\* Redis refuses, or takes the job and its answer is lost.
EnqueueThrows(d) ==
  /\ At(d, "route") /\ KindOf(d) \in Enqueued
  /\ job' \in {job, Added(Current(d))}
  /\ Goto(d, "release")
  /\ Fault
  /\ UNCHANGED <<event, failures>>

MarkDispatched(d) ==
  /\ At(d, "added")
  /\ event' = Marked(d)
  /\ Advance(d)
  /\ UNCHANGED <<queueVars, faults>>

\* The confirmation throws, whether or not it was committed.
MarkThrows(d) ==
  /\ At(d, "added")
  /\ event' \in {event, Marked(d)}
  /\ Goto(d, "release")
  /\ Fault
  /\ UNCHANGED queueVars

ReleaseForRetry(d) ==
  /\ At(d, "release")
  /\ event' = Released(d, "pending")
  /\ Advance(d)
  /\ UNCHANGED <<queueVars, faults>>

(* An unsupported event is written to job_failure first, quarantined next. *)
RecordUnsupported(d) ==
  /\ At(d, "route") /\ KindOf(d) = "unsupported"
  /\ failures' = failures \cup {Current(d)}
  /\ Goto(d, "recorded")
  /\ UNCHANGED <<event, job, faults>>

\* The failed write is taken for a done one.
RecordIgnoresFailure(d) ==
  /\ At(d, "route") /\ KindOf(d) = "unsupported"
  /\ Goto(d, "recorded")
  /\ Fault
  /\ UNCHANGED <<event, queueVars>>

RecordThrows(d) ==
  /\ At(d, "route") /\ KindOf(d) = "unsupported"
  /\ Goto(d, "release")
  /\ Fault
  /\ UNCHANGED <<event, queueVars>>

Quarantine(d) ==
  /\ \/ At(d, "route") /\ KindOf(d) = "deferred"
     \/ At(d, "recorded")
  /\ event' = Released(d, "quarantined")
  /\ Advance(d)
  /\ UNCHANGED <<queueVars, faults>>

(* The process dies, or releaseClaim throws out of the loop: the rest of   *)
(* the batch stays claimed until the lease ends.                           *)
DispatchStops(d) ==
  /\ batch[d] # <<>>
  /\ batch' = [batch EXCEPT ![d] = <<>>]
  /\ step' = [step EXCEPT ![d] = "route"]
  /\ Fault
  /\ UNCHANGED <<event, queueVars>>

-----------------------------------------------------------------------------
(* The clock.  A batch that outlives its lease is a fault.                 *)
HeldByDispatcher(e) ==
  \E d \in Dispatchers : \E c \in ToSet(batch[d]) : c.id = e /\ c.token = event[e].token

LeaseEnds(e) ==
  /\ event[e].leased
  /\ event' = [event EXCEPT ![e].leased = FALSE]
  /\ IF HeldByDispatcher(e) THEN Fault ELSE UNCHANGED faults
  /\ UNCHANGED <<batch, step, queueVars>>

-----------------------------------------------------------------------------
(* The queue: how a job's state changes.  The actions are completed, and   *)
(* their processors advanced, by the modules that EXTEND this one.         *)

(* classifyFailure: which errors are retried.                              *)
Transient == {"rateLimited", "dependency", "network", "database"}
Permanent == {"validation", "authorization", "notFound", "conflict", "invariant",
              "rejected", "unclassified"}

Taken(p, e) == [job EXCEPT ![e] = [@ EXCEPT !.state = "active", !.owner = p]]

(* Only the holder of a job's lock settles it.                             *)
Locked(p, e) == job[e].state = "active" /\ job[e].owner = p

Completed(p, e) ==
  IF Locked(p, e)
  THEN [job EXCEPT ![e] = [@ EXCEPT !.state = "completed", !.owner = "none"]]
  ELSE job

AnotherTry(e, error) == error \in Transient /\ job[e].tries + 1 < MaxTries

Failed(p, e, error) ==
  IF Locked(p, e)
  THEN [job EXCEPT ![e] =
          [@ EXCEPT !.state = IF AnotherTry(e, error) THEN "waiting" ELSE "failed",
                    !.owner = "none", !.tries = job[e].tries + 1]]
  ELSE job

Stalled(e) ==
  [job EXCEPT ![e] =
     [@ EXCEPT !.state = IF job[e].stalls < MaxStalls THEN "waiting" ELSE "failed",
               !.owner = "none", !.stalls = job[e].stalls + 1]]

(* A job that is given up is written down by the worker's failed event, or *)
(* by the dead-letter reconciliation that goes through the failed jobs.    *)
RecordFailure(e) ==
  /\ job[e].state = "failed" /\ e \notin failures
  /\ failures' = failures \cup {e}
  /\ UNCHANGED <<outboxVars, job, faults>>

-----------------------------------------------------------------------------
Dispatch(d) ==
  \/ ClaimBatch(d) \/ Enqueue(d) \/ MarkDispatched(d) \/ ReleaseForRetry(d)
  \/ RecordUnsupported(d) \/ Quarantine(d)

OutboxNext ==
  \/ \E e \in Events : \/ \E k \in KindsOf[e] : Commit(e, k)
                       \/ LeaseEnds(e) \/ RecordFailure(e)
  \/ \E d \in Dispatchers : \/ Dispatch(d)
                            \/ EnqueueThrows(d) \/ MarkThrows(d) \/ RecordThrows(d)
                            \/ DispatchStops(d)

\* The check constraint on the claim columns: a token and its expiry.
OutboxTypeOK ==
  /\ \A e \in Events : event[e].leased => event[e].token # NoToken
  /\ event \in [Events -> [phase : {"absent", "pending", "published", "quarantined"},
                           kind : Kinds, token : Nat, leased : BOOLEAN,
                           attempts : Nat]]
  /\ \A d \in Dispatchers :
       /\ Len(batch[d]) <= BatchSize
       /\ ToSet(batch[d]) \subseteq [id : Events, token : Nat \ {NoToken}]
  /\ step \in [Dispatchers -> {"route", "added", "recorded", "release"}]
  /\ job \in [Events -> [state : {"absent", "waiting", "active", "completed", "failed"},
                         owner : Processors \cup {"none"},
                         tries : 0..MaxTries, stalls : 0..(MaxStalls + 1)]]
  /\ failures \subseteq Events
  /\ faults \in 0..MaxFaults
=============================================================================
