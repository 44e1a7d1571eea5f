--------------------------- MODULE DeliveryProofs ---------------------------
(***************************************************************************)
(* For every set of events, dispatchers and processors, every batch size   *)
(* and every number of faults: the outbox with its claims, crashes and     *)
(* queue implements OutboxPromise, an event that is set aside can be seen  *)
(* in job_failure, and a message is sent again only after a fault that     *)
(* left open whether it was sent.                                          *)
(***************************************************************************)
EXTENDS Delivery, SumTheorems, FiniteSetTheorems, TLAPS

Rows   == [phase : {"absent", "pending", "published", "quarantined"}, kind : Kinds,
           token : Nat, leased : BOOLEAN, attempts : Nat]
Claims == [id : Events, token : Nat \ {NoToken}]
States == {"absent", "waiting", "active", "completed", "failed"}
Jobs   == [state : States, owner : Processors \cup {"none"}, tries : Nat, stalls : Nat]

(* The types the argument rests on; of a processor, that one which is not  *)
(* idle has a job.                                                         *)
OutboxTypes ==
  /\ event \in [Events -> Rows]
  /\ batch \in [Dispatchers -> Seq(Claims)]
  /\ step \in [Dispatchers -> {"route", "added", "recorded", "release"}]
  /\ failures \subseteq Events
QueueTypes ==
  /\ job \in [Events -> Jobs]
  /\ run \in [Processors -> [job : Events \cup {NoWork},
                             at : {"idle", "start", "claimed", "sent", "unsent"},
                             token : Nat]]
  /\ \A p \in Processors : run[p].at # "idle" => run[p].job \in Events

\* Only a row that waits has a claim.
ClaimsArePending ==
  \A e \in Events : event[e].token # NoToken => event[e].phase = "pending"

\* What is in a batch has been committed, so its kind is what it will be.
BatchesAreCommitted ==
  \A d \in Dispatchers : \A i \in 1..Len(batch[d]) : event[batch[d][i].id].phase # "absent"

\* Jobs are made of committed events of the kinds that have one, ...
JobsHaveEvents ==
  \A e \in Events :
    job[e].state # "absent" => event[e].phase # "absent" /\ event[e].kind \in Enqueued

\* ... before they are marked, ...
PublishedHasJob == \A e \in Events : event[e].phase = "published" => job[e].state # "absent"

\* ... and other kinds are set aside.
QuarantinedHasNone ==
  \A e \in Events : event[e].phase = "quarantined" => event[e].kind \notin Enqueued

\* A dispatcher confirms what is in the queue and sets aside what is recorded.
AddedHasJob ==
  \A d \in Dispatchers :
    At(d, "added") => KindOf(d) \in Enqueued /\ job[Current(d)].state # "absent"
RecordedIsFailure ==
  \A d \in Dispatchers :
    At(d, "recorded") => KindOf(d) = "unsupported" /\ Current(d) \in failures

Books ==
  /\ ClaimsArePending /\ BatchesAreCommitted
  /\ JobsHaveEvents /\ PublishedHasJob /\ QuarantinedHasNone
  /\ AddedHasJob /\ RecordedIsFailure

IInv == OutboxTypes /\ QueueTypes /\ Books /\ UnsupportedIsAlerted
-----------------------------------------------------------------------------
(* What processors and the queue do to the job j of an event.              *)
Moved(e, j) ==
  /\ j \in [Events -> Jobs]
  /\ \A x \in Events \ {e} : j[x] = job[x]
  /\ j[e] = job[e] \/ (job[e].state \in {"waiting", "active"} /\ j[e].state # "absent")

LEMMA UpdateMoves ==
  ASSUME QueueTypes, NEW e \in Events, NEW n \in Jobs,
         job[e].state \in {"waiting", "active"}, n.state # "absent"
  PROVE  Moved(e, [job EXCEPT ![e] = n])
BY DEF QueueTypes, Moved

LEMMA NothingMoves == ASSUME QueueTypes, NEW e \in Events PROVE Moved(e, job)
BY DEF QueueTypes, Moved

LEMMA CompletedMoves ==
  ASSUME QueueTypes, NEW p \in Processors, NEW e \in Events
  PROVE  Moved(e, Completed(p, e))
<1> DEFINE n == [job[e] EXCEPT !.state = "completed", !.owner = "none"]
<1>1. n \in Jobs /\ n.state # "absent"
  BY DEF QueueTypes, Jobs, States
<1>2. CASE Locked(p, e)
  <2>1. Moved(e, [job EXCEPT ![e] = n])
    BY <1>1, <1>2, UpdateMoves DEF Locked
  <2> QED BY <1>2, <2>1 DEF Completed
<1> QED BY <1>2, NothingMoves DEF Completed

LEMMA FailedMoves ==
  ASSUME QueueTypes, NEW p \in Processors, NEW e \in Events, NEW error
  PROVE  Moved(e, Failed(p, e, error))
<1> DEFINE n == [job[e] EXCEPT !.state = IF AnotherTry(e, error) THEN "waiting" ELSE "failed",
                               !.owner = "none", !.tries = job[e].tries + 1]
<1>1. n \in Jobs /\ n.state # "absent"
  <2>1. job[e] \in Jobs /\ job[e].tries + 1 \in Nat
    BY DEF QueueTypes, Jobs
  <2>2. CASE AnotherTry(e, error)
    BY <2>1, <2>2 DEF Jobs, States
  <2>3. CASE ~(AnotherTry(e, error))
    BY <2>1, <2>3 DEF Jobs, States
  <2> QED BY <2>2, <2>3
<1>2. CASE Locked(p, e)
  <2>1. Moved(e, [job EXCEPT ![e] = n])
    BY <1>1, <1>2, UpdateMoves DEF Locked
  <2> QED BY <1>2, <2>1 DEF Failed
<1> QED BY <1>2, NothingMoves DEF Failed

LEMMA TakenMoves ==
  ASSUME QueueTypes, NEW p \in Processors, NEW e \in Events, job[e].state = "waiting"
  PROVE  Moved(e, Taken(p, e))
<1> DEFINE n == [job[e] EXCEPT !.state = "active", !.owner = p]
<1>1. n \in Jobs /\ n.state # "absent"
  BY DEF QueueTypes, Jobs, States
<1> QED BY <1>1, UpdateMoves DEF Taken

LEMMA StalledMoves ==
  ASSUME QueueTypes, NEW e \in Events, job[e].state = "active"
  PROVE  Moved(e, Stalled(e))
<1> DEFINE n == [job[e] EXCEPT !.state = IF job[e].stalls < MaxStalls THEN "waiting" ELSE "failed",
                               !.owner = "none", !.stalls = job[e].stalls + 1]
<1>1. n \in Jobs /\ n.state # "absent"
  <2>1. job[e] \in Jobs /\ job[e].stalls + 1 \in Nat
    BY DEF QueueTypes, Jobs
  <2>2. CASE job[e].stalls < MaxStalls
    BY <2>1, <2>2 DEF Jobs, States
  <2>3. CASE ~(job[e].stalls < MaxStalls)
    BY <2>1, <2>3 DEF Jobs, States
  <2> QED BY <2>2, <2>3
<1> QED BY <1>1, UpdateMoves DEF Stalled

(* A step of a processor or of the queue: nothing of the outbox changes.   *)
ProcessorNext ==
  \/ \E p \in Processors : Process(p) \/ ProcessingFails(p)
  \/ \E e \in Events : StallJob(e) \/ DeliveryLeaseEnds(e)

QueueStep ==
  /\ UNCHANGED <<event, batch, step, failures>>
  /\ job' = job \/ \E e \in Events : Moved(e, job')

LEMMA ProcessorsMoveJobs ==
  ASSUME QueueTypes, ProcessorNext
  PROVE  QueueStep /\ QueueTypes'
<1> USE DEF outboxVars, queueVars
<1> DEFINE Runs == [job : Events \cup {NoWork},
                    at : {"idle", "start", "claimed", "sent", "unsent"}, token : Nat]
<1>1. ASSUME NEW p \in Processors, Process(p) \/ ProcessingFails(p), run[p].at = "idle"
      PROVE  QueueStep /\ QueueTypes'
  <2>1. PICK e \in Events : StartJob(p, e)
    BY <1>1 DEF Process, ProcessingFails, ReadThrows, ClaimDelivery, ClaimRefused, SendMail,
       SendThrows, FinishSent, FinishThrows, FinishUnsent, FinishUnsentThrows, Revalidate,
       RevalidateThrows, ProcessorDies, MailAt, CacheAt, JobAt
  <2>2. Moved(e, job')
    BY <2>1, TakenMoves DEF StartJob
  <2>3. QueueStep
    BY <2>1, <2>2 DEF StartJob, QueueStep
  <2>4. QueueTypes'
    BY <2>1, <2>2 DEF StartJob, QueueTypes, Moved, NoToken
  <2> QED BY <2>3, <2>4
<1>2. ASSUME NEW p \in Processors, Process(p) \/ ProcessingFails(p), run[p].at # "idle"
      PROVE  QueueStep /\ QueueTypes'
  <2>1. JobOf(p) \in Events
    BY <1>2 DEF QueueTypes, JobOf
  <2>2. /\ UNCHANGED <<event, batch, step, failures>>
        /\ \/ job' = job
           \/ job' = Completed(p, JobOf(p))
           \/ \E error : job' = Failed(p, JobOf(p), error)
    BY <1>2 DEF Process, ProcessingFails, StartJob, ReadThrows, ClaimDelivery, ClaimRefused,
       SendMail, SendThrows, FinishSent, FinishThrows, FinishUnsent, FinishUnsentThrows,
       Revalidate, RevalidateThrows, ProcessorDies, CompleteJob, FailJob, JobAt
  <2>3. \/ run' = [run EXCEPT ![p] = Idle]
        \/ \E at \in {"claimed", "sent", "unsent"} :
             \/ run' = [run EXCEPT ![p].at = at]
             \/ /\ run' = [run EXCEPT ![p].at = at,
                                      ![p].token = delivery[JobOf(p)].attempts + 1]
    BY <1>2 DEF Process, ProcessingFails, StartJob, ReadThrows, ClaimDelivery, ClaimRefused,
       SendMail, SendThrows, FinishSent, FinishThrows, FinishUnsent, FinishUnsentThrows,
       Revalidate, RevalidateThrows, ProcessorDies, CompleteJob, FailJob, Goes, Leaves, JobAt
  <2>4. Moved(JobOf(p), job') \/ job' = job
    BY <2>1, <2>2, CompletedMoves, FailedMoves
  <2>5. QueueStep
    BY <2>1, <2>2, <2>4 DEF QueueStep
  <2> QED BY <1>2, <2>1, <2>3, <2>4, <2>5 DEF QueueTypes, Moved, Idle, NoToken
<1>3. ASSUME NEW e \in Events, StallJob(e)
      PROVE  QueueStep /\ QueueTypes'
  <2>1. Moved(e, job')
    BY <1>3, StalledMoves DEF StallJob
  <2> QED BY <1>3, <2>1 DEF StallJob, QueueStep, QueueTypes, Moved
<1>4. ASSUME NEW e \in Events, DeliveryLeaseEnds(e)
      PROVE  QueueStep /\ QueueTypes'
  BY <1>4 DEF DeliveryLeaseEnds, QueueStep, QueueTypes
<1> QED BY <1>1, <1>2, <1>3, <1>4 DEF ProcessorNext
-----------------------------------------------------------------------------
LEMMA InitIInv == Init => IInv
BY DEF Init, OutboxInit, IInv, OutboxTypes, QueueTypes, Books, Rows, Jobs, States, Kinds,
   Enqueued, NoEvent, NoJob, NoToken, NoWork, Idle, ClaimsArePending, BatchesAreCommitted,
   JobsHaveEvents, PublishedHasJob, QuarantinedHasNone, AddedHasJob, RecordedIsFailure, At,
   UnsupportedIsAlerted

\* What is in a batch is a claim, its first one above all.
LEMMA InBatch ==
  ASSUME OutboxTypes, NEW d \in Dispatchers, NEW i \in 1..Len(batch[d])
  PROVE  batch[d][i] \in Claims /\ batch[d][i].id \in Events
<1>1. batch[d] \in Seq(Claims)
  BY DEF OutboxTypes
<1>2. batch[d][i] \in Claims
  BY <1>1
<1> QED BY <1>2 DEF Claims

LEMMA FirstOfBatch ==
  ASSUME OutboxTypes, NEW d \in Dispatchers, batch[d] # <<>>
  PROVE  /\ 1 \in 1..Len(batch[d]) /\ Head(batch[d]) = batch[d][1]
         /\ Current(d) = batch[d][1].id /\ Current(d) \in Events
         /\ Head(batch[d]).token \in Nat \ {NoToken}
<1>1. batch[d] \in Seq(Claims)
  BY DEF OutboxTypes
<1>2. 1 \in 1..Len(batch[d]) /\ Head(batch[d]) = batch[d][1]
  BY <1>1
<1>3. batch[d][1] \in Claims /\ batch[d][1].id \in Events
  BY <1>2, InBatch
<1> QED BY <1>2, <1>3 DEF Current, Claims

\* Processors disturb nothing: a job that was made stays made.
LEMMA QueueKeepsIInv ==
  ASSUME IInv, QueueStep, QueueTypes'
  PROVE  IInv'
<1>1. \A e \in Events : job[e].state = "absent" <=> job'[e].state = "absent"
  BY DEF QueueStep, Moved, IInv
<1>2. OutboxTypes' /\ UnsupportedIsAlerted'
  BY DEF IInv, QueueStep, OutboxTypes, UnsupportedIsAlerted
<1>3. /\ ClaimsArePending' /\ BatchesAreCommitted' /\ JobsHaveEvents' /\ PublishedHasJob'
      /\ QuarantinedHasNone'
  BY <1>1 DEF IInv, Books, QueueStep, ClaimsArePending, BatchesAreCommitted, JobsHaveEvents,
     PublishedHasJob, QuarantinedHasNone
<1>4. \A d \in Dispatchers : batch[d] # <<>> => Current(d) \in Events
  BY FirstOfBatch DEF IInv
<1>5. AddedHasJob' /\ RecordedIsFailure'
  BY <1>1, <1>4 DEF IInv, Books, QueueStep, AddedHasJob, RecordedIsFailure, At, KindOf, Current
<1> QED BY <1>2, <1>3, <1>5 DEF IInv, Books

\* A committed event: nothing was known of it before.
LEMMA CommitKeepsIInv ==
  ASSUME IInv, NEW e \in Events, NEW kind \in KindsOf[e], Commit(e, kind), UNCHANGED run
  PROVE  IInv'
<1> USE DEF queueVars
<1>1. kind \in Kinds
  BY OutboxAssumption
<1>2. event' \in [Events -> Rows]
  BY <1>1 DEF IInv, OutboxTypes, Commit, Rows
<1>3. OutboxTypes' /\ QueueTypes'
  BY <1>2 DEF IInv, OutboxTypes, QueueTypes, Commit
<1>4. /\ event'[e].phase = "pending"
      /\ \A x \in Events \ {e} : event'[x] = event[x]
      /\ event[e].phase = "absent" /\ job[e].state = "absent"
      /\ event'[e].token = event[e].token
      /\ UNCHANGED <<batch, step, job, failures>>
  BY DEF IInv, OutboxTypes, Commit, Rows, Books, JobsHaveEvents
<1>5. \A d \in Dispatchers : \A i \in 1..Len(batch[d]) : batch[d][i].id \in Events \ {e}
  BY <1>4, InBatch DEF IInv, Books, BatchesAreCommitted
<1>6. \A d \in Dispatchers : batch[d] # <<>> => Current(d) \in Events \ {e}
  BY <1>5, FirstOfBatch DEF IInv
<1>7. /\ ClaimsArePending' /\ BatchesAreCommitted' /\ JobsHaveEvents' /\ PublishedHasJob'
      /\ QuarantinedHasNone' /\ UnsupportedIsAlerted'
  BY <1>4, <1>5 DEF IInv, Books, ClaimsArePending, BatchesAreCommitted, JobsHaveEvents,
     PublishedHasJob, QuarantinedHasNone, UnsupportedIsAlerted
<1>8. AddedHasJob' /\ RecordedIsFailure'
  BY <1>4, <1>6 DEF IInv, Books, AddedHasJob, RecordedIsFailure, At, KindOf, Current
<1> QED BY <1>3, <1>7, <1>8 DEF IInv, Books
-----------------------------------------------------------------------------
(* What a dispatcher does to the row r of an event, given up with a phase. *)
Marks(e, r, phase) ==
  /\ r \in [Events -> Rows]
  /\ \A x \in Events \ {e} : r[x] = event[x]
  /\ \/ r[e] = event[e]
     \/ /\ event[e].phase = "pending" /\ r[e].phase = phase
        /\ r[e].kind = event[e].kind /\ r[e].token = NoToken

LEMMA UpdateMarks ==
  ASSUME OutboxTypes, NEW e \in Events, event[e].phase = "pending",
         NEW phase \in {"pending", "published", "quarantined"}
  PROVE  Marks(e, [event EXCEPT ![e] = [@ EXCEPT !.phase = phase, !.token = NoToken,
                                                 !.leased = FALSE]], phase)
<1> DEFINE n == [event[e] EXCEPT !.phase = phase, !.token = NoToken, !.leased = FALSE]
<1>1. event[e] \in Rows
  BY DEF OutboxTypes
<1>2. n \in Rows
  BY <1>1 DEF Rows, NoToken
<1>3. n.phase = phase /\ n.kind = event[e].kind /\ n.token = NoToken
  BY <1>1 DEF Rows
<1> HIDE DEF n
<1>4. Marks(e, [event EXCEPT ![e] = n], phase)
  BY <1>2, <1>3 DEF Marks, OutboxTypes
<1> QED BY <1>4 DEF n

LEMMA NothingMarks ==
  ASSUME OutboxTypes, NEW e \in Events, NEW phase PROVE Marks(e, event, phase)
BY DEF OutboxTypes, Marks

\* The token proves that the row still waits.
LEMMA DispatchersMark ==
  ASSUME IInv, NEW d \in Dispatchers, batch[d] # <<>>
  PROVE  /\ Marks(Current(d), Marked(d), "published")
         /\ \A phase \in {"pending", "quarantined"} :
              Marks(Current(d), Released(d, phase), phase)
<1>1. OutboxTypes
  BY DEF IInv
<1>2. Current(d) \in Events /\ (Mine(d) => event[Current(d)].phase = "pending")
  BY <1>1, FirstOfBatch DEF IInv, Books, ClaimsArePending, Mine
<1>3. Marks(Current(d), Marked(d), "published")
  BY <1>1, <1>2, UpdateMarks, NothingMarks DEF Marked
<1>4. ASSUME NEW phase \in {"pending", "quarantined"}
      PROVE  Marks(Current(d), Released(d, phase), phase)
  BY <1>1, <1>2, UpdateMarks, NothingMarks DEF Released
<1> QED BY <1>3, <1>4

(* What may happen to events and jobs without harm to what is known of     *)
(* dispatchers, and what the next state of a dispatcher may be.            *)
Grows ==
  /\ \A e \in Events :
       /\ event'[e].kind = event[e].kind
       /\ event[e].phase # "absent" => event'[e].phase # "absent"
       /\ job[e].state # "absent" => job'[e].state # "absent"
  /\ failures \subseteq failures'

Continues(d) ==
  \/ batch'[d] = batch[d] /\ step'[d] = step[d]
  \/ /\ step'[d] \in {"route", "release"}
     /\ \A i \in 1..Len(batch'[d]) : event'[batch'[d][i].id].phase # "absent"
  \/ /\ batch'[d] = batch[d] /\ step'[d] = "added"
     /\ KindOf(d) \in Enqueued /\ job'[Current(d)].state # "absent"
  \/ /\ batch'[d] = batch[d] /\ step'[d] = "recorded"
     /\ KindOf(d) = "unsupported" /\ Current(d) \in failures'

LEMMA DispatchersContinue ==
  ASSUME IInv, Grows, \A d \in Dispatchers : Continues(d)
  PROVE  BatchesAreCommitted' /\ AddedHasJob' /\ RecordedIsFailure'
<1> USE DEF IInv, Books
<1>1. BatchesAreCommitted'
  <2> SUFFICES ASSUME NEW d \in Dispatchers, NEW i \in 1..Len(batch'[d])
               PROVE  event'[batch'[d][i].id].phase # "absent"
    BY DEF BatchesAreCommitted
  <2>1. Continues(d)
    OBVIOUS
  <2>2. CASE batch'[d] = batch[d]
    BY <2>2, InBatch DEF BatchesAreCommitted, Grows
  <2> QED BY <2>1, <2>2 DEF Continues
<1>2. ASSUME NEW d \in Dispatchers, At(d, "added")'
      PROVE  (KindOf(d) \in Enqueued /\ job[Current(d)].state # "absent")'
  <2>1. Continues(d) /\ batch'[d] # <<>> /\ step'[d] = "added"
    BY <1>2 DEF At
  <2>2. batch'[d] = batch[d]
    BY <2>1 DEF Continues
  <2>3. Current(d) \in Events /\ Current(d)' = Current(d)
    BY <2>1, <2>2, FirstOfBatch DEF Current
  <2>4. KindOf(d) \in Enqueued /\ job'[Current(d)].state # "absent"
    BY <2>1, <2>2, <2>3 DEF Continues, AddedHasJob, At, Grows
  <2> QED BY <2>3, <2>4 DEF KindOf, Grows
<1>3. ASSUME NEW d \in Dispatchers, At(d, "recorded")'
      PROVE  (KindOf(d) = "unsupported" /\ Current(d) \in failures)'
  <2>1. Continues(d) /\ batch'[d] # <<>> /\ step'[d] = "recorded"
    BY <1>3 DEF At
  <2>2. batch'[d] = batch[d]
    BY <2>1 DEF Continues
  <2>3. Current(d) \in Events /\ Current(d)' = Current(d)
    BY <2>1, <2>2, FirstOfBatch DEF Current
  <2>4. KindOf(d) = "unsupported" /\ Current(d) \in failures'
    BY <2>1, <2>2, <2>3 DEF Continues, RecordedIsFailure, At, Grows
  <2> QED BY <2>3, <2>4 DEF KindOf, Grows
<1> QED BY <1>1, <1>2, <1>3 DEF AddedHasJob, RecordedIsFailure
-----------------------------------------------------------------------------
(* A marked row keeps the invariant when its job is there for "published", *)
(* and has none, but is recorded, for "quarantined".                       *)
Justified(e, phase) ==
  /\ phase \in {"pending", "published", "quarantined"}
  /\ phase = "published" => job[e].state # "absent"
  /\ phase = "quarantined" =>
       event[e].kind \notin Enqueued /\ (event[e].kind = "unsupported" => e \in failures)

LEMMA MarksKeepIInv ==
  ASSUME IInv, NEW e \in Events, NEW phase, Marks(e, event', phase), Justified(e, phase),
         OutboxTypes', UNCHANGED <<job, failures, run>>,
         \A d \in Dispatchers : Continues(d)
  PROVE  IInv'
<1> USE DEF IInv, Books
<1>1. Grows
  BY DEF Marks, Grows, Justified
<1>2. /\ ClaimsArePending' /\ JobsHaveEvents' /\ PublishedHasJob' /\ QuarantinedHasNone'
      /\ UnsupportedIsAlerted'
  BY DEF Marks, Justified, ClaimsArePending, JobsHaveEvents, PublishedHasJob,
     QuarantinedHasNone, UnsupportedIsAlerted
<1>3. QueueTypes'
  BY DEF QueueTypes
<1> QED BY <1>1, <1>2, <1>3, DispatchersContinue

\* Going on with the rest of a batch, or not at all.
LEMMA Advanced ==
  ASSUME IInv, NEW d \in Dispatchers, batch[d] # <<>>, Advance(d),
         \A e \in Events : event[e].phase # "absent" => event'[e].phase # "absent"
  PROVE  /\ batch' \in [Dispatchers -> Seq(Claims)]
         /\ step' \in [Dispatchers -> {"route", "added", "recorded", "release"}]
         /\ \A x \in Dispatchers : Continues(x)
<1> USE DEF IInv, Advance
<1>1. batch[d] \in Seq(Claims)
  BY DEF OutboxTypes
<1>2. /\ Tail(batch[d]) \in Seq(Claims) /\ Len(Tail(batch[d])) = Len(batch[d]) - 1
      /\ \A i \in 1..Len(Tail(batch[d])) : Tail(batch[d])[i] = batch[d][i + 1]
  BY <1>1
<1>3. \A i \in 1..Len(Tail(batch[d])) : i + 1 \in 1..Len(batch[d])
  BY <1>1, <1>2
<1>4. \A i \in 1..Len(Tail(batch[d])) : event'[Tail(batch[d])[i].id].phase # "absent"
  BY <1>2, <1>3, InBatch DEF Books, BatchesAreCommitted
<1>5. batch'[d] = Tail(batch[d]) /\ step'[d] = "route"
  BY DEF OutboxTypes
<1>6. Continues(d)
  BY <1>4, <1>5 DEF Continues
<1>7. \A x \in Dispatchers \ {d} : Continues(x)
  BY DEF Continues, OutboxTypes
<1> QED BY <1>2, <1>6, <1>7 DEF OutboxTypes

LEMMA GoneOn ==
  ASSUME IInv, NEW d \in Dispatchers, NEW s \in {"added", "recorded", "release"}, Goto(d, s),
         s = "added" => KindOf(d) \in Enqueued /\ job'[Current(d)].state # "absent",
         s = "recorded" => KindOf(d) = "unsupported" /\ Current(d) \in failures',
         \A e \in Events : event[e].phase # "absent" => event'[e].phase # "absent"
  PROVE  /\ batch' = batch
         /\ step' \in [Dispatchers -> {"route", "added", "recorded", "release"}]
         /\ \A x \in Dispatchers : Continues(x)
<1> USE DEF IInv, Goto
<1>1. batch' = batch /\ step' = [step EXCEPT ![d] = s]
  OBVIOUS
<1>2. step'[d] = s /\ \A x \in Dispatchers \ {d} : step'[x] = step[x]
  BY <1>1 DEF OutboxTypes
<1>3. \A i \in 1..Len(batch[d]) : event'[batch[d][i].id].phase # "absent"
  BY InBatch DEF Books, BatchesAreCommitted
<1>4. Continues(d)
  BY <1>1, <1>2, <1>3 DEF Continues
<1>5. \A x \in Dispatchers \ {d} : Continues(x)
  BY <1>1, <1>2 DEF Continues
<1> QED BY <1>1, <1>4, <1>5 DEF OutboxTypes
-----------------------------------------------------------------------------
(* The steps of a dispatcher.                                              *)
LEMMA EnqueueKeepsIInv ==
  ASSUME IInv, NEW d \in Dispatchers, At(d, "route"), KindOf(d) \in Enqueued,
         job' \in {job, Added(Current(d))}, NEW s \in {"added", "release"}, Goto(d, s),
         s = "added" => job' = Added(Current(d)), UNCHANGED <<event, failures, run>>
  PROVE  IInv'
<1> USE DEF IInv, Books
<1> DEFINE c == Current(d)
<1>1. c \in Events /\ event[c].phase # "absent"
  BY FirstOfBatch DEF At, BatchesAreCommitted
<1>2. /\ job' \in [Events -> Jobs]
      /\ \A e \in Events \ {c} : job'[e] = job[e]
      /\ job[c].state # "absent" => job'[c].state # "absent"
      /\ s = "added" => job'[c].state # "absent"
  BY <1>1 DEF Added, QueueTypes, Jobs, States
<1>3. QueueTypes'
  BY <1>2 DEF QueueTypes
<1>4. /\ batch' = batch
      /\ step' \in [Dispatchers -> {"route", "added", "recorded", "release"}]
      /\ \A x \in Dispatchers : Continues(x)
  BY <1>2, GoneOn
<1>5. OutboxTypes' /\ UnsupportedIsAlerted'
  BY <1>4 DEF OutboxTypes, UnsupportedIsAlerted
<1>6. Grows
  BY <1>2 DEF Grows
<1>7. ClaimsArePending' /\ JobsHaveEvents' /\ PublishedHasJob' /\ QuarantinedHasNone'
  BY <1>1, <1>2 DEF ClaimsArePending, JobsHaveEvents, PublishedHasJob, QuarantinedHasNone, KindOf
<1> QED BY <1>3, <1>4, <1>5, <1>6, <1>7, DispatchersContinue

LEMMA MarkKeepsIInv ==
  ASSUME IInv, NEW d \in Dispatchers, At(d, "added"), event' \in {event, Marked(d)},
         Advance(d) \/ Goto(d, "release"), UNCHANGED <<job, failures, run>>
  PROVE  IInv'
<1>1. batch[d] # <<>> /\ OutboxTypes
  BY DEF At, IInv
<1>2. Current(d) \in Events /\ Marks(Current(d), event', "published")
  BY <1>1, FirstOfBatch, DispatchersMark, NothingMarks
<1>3. Justified(Current(d), "published")
  BY DEF IInv, Books, AddedHasJob, Justified
<1>4. \A e \in Events : event[e].phase # "absent" => event'[e].phase # "absent"
  BY <1>2 DEF Marks
<1>5. OutboxTypes' /\ \A x \in Dispatchers : Continues(x)
  <2>1. CASE Advance(d)
    BY <1>1, <1>2, <1>4, <2>1, Advanced DEF OutboxTypes, Marks
  <2>2. CASE Goto(d, "release")
    BY <1>1, <1>2, <1>4, <2>2, GoneOn DEF OutboxTypes, Marks
  <2> QED BY <2>1, <2>2
<1> QED BY <1>2, <1>3, <1>5, MarksKeepIInv

LEMMA ReleaseKeepsIInv ==
  ASSUME IInv, NEW d \in Dispatchers, ReleaseForRetry(d) \/ Quarantine(d), UNCHANGED run
  PROVE  IInv'
<1> USE DEF queueVars
<1>1. batch[d] # <<>> /\ OutboxTypes /\ Advance(d) /\ UNCHANGED <<job, failures, run>>
  BY DEF At, IInv, ReleaseForRetry, Quarantine
<1>2. PICK phase \in {"pending", "quarantined"} :
        event' = Released(d, phase) /\ Justified(Current(d), phase)
  BY DEF ReleaseForRetry, Quarantine, Justified, IInv, Books, RecordedIsFailure, KindOf, Enqueued
<1>3. Current(d) \in Events /\ Marks(Current(d), event', phase)
  BY <1>1, <1>2, FirstOfBatch, DispatchersMark
<1>4. \A e \in Events : event[e].phase # "absent" => event'[e].phase # "absent"
  BY <1>2, <1>3 DEF Marks
<1>5. OutboxTypes' /\ \A x \in Dispatchers : Continues(x)
  BY <1>1, <1>3, <1>4, Advanced DEF OutboxTypes, Marks
<1> QED BY <1>1, <1>2, <1>3, <1>5, MarksKeepIInv

\* Records, refused calls and crashes.
LEMMA RecordKeepsIInv ==
  ASSUME IInv, failures \subseteq failures', failures' \subseteq Events,
         UNCHANGED <<event, job, run>>,
         batch' \in [Dispatchers -> Seq(Claims)],
         step' \in [Dispatchers -> {"route", "added", "recorded", "release"}],
         \A d \in Dispatchers : Continues(d)
  PROVE  IInv'
<1> USE DEF IInv, Books
<1>1. OutboxTypes' /\ QueueTypes' /\ UnsupportedIsAlerted'
  BY DEF OutboxTypes, QueueTypes, UnsupportedIsAlerted
<1>2. Grows
  BY DEF Grows
<1>3. ClaimsArePending' /\ JobsHaveEvents' /\ PublishedHasJob' /\ QuarantinedHasNone'
  BY DEF ClaimsArePending, JobsHaveEvents, PublishedHasJob, QuarantinedHasNone
<1> QED BY <1>1, <1>2, <1>3, DispatchersContinue
LEMMA ClaimedRow ==
  ASSUME NEW r \in Rows, NEW n,
         n = [r EXCEPT !.token = r.attempts + 1, !.leased = TRUE, !.attempts = r.attempts + 1]
  PROVE  n \in Rows /\ n.phase = r.phase /\ n.kind = r.kind
<1>1. r.attempts + 1 \in Nat
  BY DEF Rows
<1> QED BY <1>1 DEF Rows

\* A claim takes rows that wait, and only touches their claims.
LEMMA ClaimKeepsIInv ==
  ASSUME IInv, NEW d \in Dispatchers, ClaimBatch(d), UNCHANGED run
  PROVE  IInv'
<1> USE DEF IInv, Books, queueVars
<1> DEFINE S == {e \in Events : Eligible(e)}
<1>1. PICK claimed \in Oldest(S) :
        /\ event' = [e \in Events |->
                       IF e \in Range(claimed)
                       THEN [event[e] EXCEPT !.token = event[e].attempts + 1, !.leased = TRUE,
                                             !.attempts = @ + 1]
                       ELSE event[e]]
        /\ batch' = [batch EXCEPT ![d] =
                       [i \in DOMAIN claimed |->
                          [id |-> claimed[i], token |-> event[claimed[i]].attempts + 1]]]
        /\ step' = [step EXCEPT ![d] = "route"]
  BY DEF ClaimBatch
<1>2. UNCHANGED <<job, failures>>
  BY DEF ClaimBatch
<1>3. PICK n \in 0..BatchSize : claimed \in [1..n -> S]
  BY DEF Oldest
<1>4. n \in Nat /\ DOMAIN claimed = 1..n
  BY <1>3, OutboxAssumption
<1>5. \A i \in 1..n : claimed[i] \in Events /\ event[claimed[i]].phase = "pending"
  BY <1>3 DEF Eligible, EligibleAnyToken
<1>6. \A e \in Range(claimed) : e \in Events /\ event[e].phase = "pending"
  BY <1>4, <1>5 DEF Range
<1>7. \A e \in Events : event[e] \in Rows
  BY DEF OutboxTypes
<1>8. \A e \in Events :
        /\ event'[e] \in Rows /\ event'[e].phase = event[e].phase
        /\ event'[e].kind = event[e].kind
        /\ event'[e] = event[e] \/ event[e].phase = "pending"
  <2> SUFFICES ASSUME NEW e \in Events
               PROVE  /\ event'[e] \in Rows /\ event'[e].phase = event[e].phase
                      /\ event'[e].kind = event[e].kind
                      /\ event'[e] = event[e] \/ event[e].phase = "pending"
    OBVIOUS
  <2>1. CASE e \in Range(claimed)
    <3>1. event'[e] = [event[e] EXCEPT !.token = event[e].attempts + 1, !.leased = TRUE,
                                       !.attempts = event[e].attempts + 1]
      BY <1>1, <2>1
    <3>2. /\ event'[e] \in Rows /\ event'[e].phase = event[e].phase
          /\ event'[e].kind = event[e].kind
      BY <1>7, <3>1, ClaimedRow
    <3> QED BY <1>6, <2>1, <3>2
  <2>2. CASE e \notin Range(claimed)
    BY <1>1, <1>7, <2>2
  <2> QED BY <2>1, <2>2
<1>9. batch'[d] = [i \in 1..n |-> [id |-> claimed[i], token |-> event[claimed[i]].attempts + 1]]
  BY <1>1, <1>4 DEF OutboxTypes
<1>10. \A i \in 1..n : event[claimed[i]].attempts + 1 \in Nat \ {NoToken}
  BY <1>5, <1>7 DEF Rows, NoToken
<1>11. batch'[d] \in Seq(Claims) /\ Len(batch'[d]) = n
  BY <1>4, <1>5, <1>9, <1>10 DEF Claims
<1>12. \A i \in 1..n : batch'[d][i].id \in Events /\ event[batch'[d][i].id].phase # "absent"
  BY <1>5, <1>9
<1>13. Continues(d)
  <2>1. step'[d] = "route"
    BY <1>1 DEF OutboxTypes
  <2>2. \A i \in 1..Len(batch'[d]) : event'[batch'[d][i].id].phase # "absent"
    BY <1>8, <1>11, <1>12
  <2> QED BY <2>1, <2>2 DEF Continues
<1>14. \A x \in Dispatchers \ {d} : Continues(x)
  BY <1>1 DEF Continues, OutboxTypes
<1>15. OutboxTypes'
  <2>1. event' \in [Events -> Rows]
    BY <1>1, <1>8
  <2>2. batch' \in [Dispatchers -> Seq(Claims)]
    BY <1>1, <1>9, <1>11 DEF OutboxTypes
  <2> QED BY <1>1, <1>2, <2>1, <2>2 DEF OutboxTypes
<1>16. Grows /\ QueueTypes'
  BY <1>2, <1>8 DEF Grows, QueueTypes
<1>17. /\ ClaimsArePending' /\ JobsHaveEvents' /\ PublishedHasJob' /\ QuarantinedHasNone'
       /\ UnsupportedIsAlerted'
  BY <1>2, <1>8 DEF ClaimsArePending, JobsHaveEvents, PublishedHasJob, QuarantinedHasNone,
     UnsupportedIsAlerted
<1> QED BY <1>13, <1>14, <1>15, <1>16, <1>17, DispatchersContinue

\* A lease runs out; the claim stays.
LEMMA LeaseKeepsIInv ==
  ASSUME IInv, NEW e \in Events, LeaseEnds(e), UNCHANGED run
  PROVE  IInv'
<1> USE DEF IInv, Books, queueVars
<1>1. event' = [event EXCEPT ![e].leased = FALSE] /\ UNCHANGED <<batch, step, job, failures>>
  BY DEF LeaseEnds
<1>2. event' \in [Events -> Rows]
  BY <1>1 DEF OutboxTypes, Rows
<1>3. \A x \in Events : /\ event'[x].phase = event[x].phase /\ event'[x].kind = event[x].kind
                        /\ event'[x].token = event[x].token
  BY <1>1 DEF OutboxTypes, Rows
<1>4. OutboxTypes' /\ QueueTypes'
  BY <1>1, <1>2 DEF OutboxTypes, QueueTypes
<1>5. Grows /\ \A d \in Dispatchers : Continues(d)
  BY <1>1, <1>3 DEF Grows, Continues
<1>6. /\ ClaimsArePending' /\ JobsHaveEvents' /\ PublishedHasJob' /\ QuarantinedHasNone'
      /\ UnsupportedIsAlerted'
  BY <1>1, <1>3 DEF ClaimsArePending, JobsHaveEvents, PublishedHasJob, QuarantinedHasNone,
     UnsupportedIsAlerted
<1> QED BY <1>4, <1>5, <1>6, DispatchersContinue

LEMMA StopKeepsIInv ==
  ASSUME IInv, NEW d \in Dispatchers, DispatchStops(d), UNCHANGED run
  PROVE  IInv'
<1> USE DEF IInv, queueVars
<1>1. /\ batch' = [batch EXCEPT ![d] = <<>>] /\ step' = [step EXCEPT ![d] = "route"]
      /\ UNCHANGED <<event, job, failures, run>>
  BY DEF DispatchStops
<1>2. batch'[d] = <<>> /\ step'[d] = "route"
  BY <1>1 DEF OutboxTypes
<1>3. \A x \in Dispatchers : Continues(x)
  BY <1>1, <1>2 DEF Continues, OutboxTypes
<1>4. batch' \in [Dispatchers -> Seq(Claims)]
  BY <1>1 DEF OutboxTypes
<1>5. step' \in [Dispatchers -> {"route", "added", "recorded", "release"}]
  BY <1>1 DEF OutboxTypes
<1>6. failures \subseteq failures' /\ failures' \subseteq Events
  BY <1>1 DEF OutboxTypes
<1> HIDE DEF IInv
<1> QED BY <1>1, <1>3, <1>4, <1>5, <1>6, RecordKeepsIInv

(* Every step keeps the invariant.                                         *)
LEMMA OutboxKeepsIInv ==
  ASSUME IInv, OutboxNext, UNCHANGED processorVars
  PROVE  IInv'
<1> USE DEF outboxVars, queueVars
<1>1. UNCHANGED run
  BY DEF processorVars
<1>2. ASSUME NEW e \in Events, NEW kind \in KindsOf[e], Commit(e, kind) PROVE IInv'
  BY <1>1, <1>2, CommitKeepsIInv
<1>3. ASSUME NEW e \in Events, LeaseEnds(e) PROVE IInv'
  BY <1>1, <1>3, LeaseKeepsIInv
<1>4. ASSUME NEW e \in Events, RecordFailure(e) PROVE IInv'
  <2>1. /\ failures \subseteq failures' /\ failures' \subseteq Events
        /\ UNCHANGED <<event, batch, step, job>>
    BY <1>4 DEF RecordFailure, IInv, OutboxTypes
  <2>2. /\ batch' \in [Dispatchers -> Seq(Claims)]
        /\ step' \in [Dispatchers -> {"route", "added", "recorded", "release"}]
        /\ \A d \in Dispatchers : Continues(d)
    BY <2>1 DEF IInv, OutboxTypes, Continues
  <2> QED BY <1>1, <2>1, <2>2, RecordKeepsIInv
<1>5. ASSUME NEW d \in Dispatchers, ClaimBatch(d) PROVE IInv'
  BY <1>1, <1>5, ClaimKeepsIInv
<1>6. ASSUME NEW d \in Dispatchers, Enqueue(d) \/ EnqueueThrows(d) PROVE IInv'
  <2>1. CASE Enqueue(d)
    BY <1>1, <2>1, EnqueueKeepsIInv DEF Enqueue
  <2>2. CASE EnqueueThrows(d)
    BY <1>1, <2>2, EnqueueKeepsIInv DEF EnqueueThrows
  <2> QED BY <1>6, <2>1, <2>2
<1>7. ASSUME NEW d \in Dispatchers, MarkDispatched(d) \/ MarkThrows(d) PROVE IInv'
  BY <1>1, <1>7, MarkKeepsIInv DEF MarkDispatched, MarkThrows
<1>8. ASSUME NEW d \in Dispatchers, ReleaseForRetry(d) \/ Quarantine(d) PROVE IInv'
  BY <1>1, <1>8, ReleaseKeepsIInv
<1>9. ASSUME NEW d \in Dispatchers, RecordUnsupported(d) PROVE IInv'
  <2>1. Current(d) \in Events
    BY <1>9, FirstOfBatch DEF RecordUnsupported, At, IInv
  <2>2. batch' = batch /\ step' \in [Dispatchers -> {"route", "added", "recorded", "release"}]
        /\ \A x \in Dispatchers : Continues(x)
    BY <1>9, GoneOn DEF RecordUnsupported
  <2>3. /\ failures \subseteq failures' /\ failures' \subseteq Events
        /\ UNCHANGED <<event, job>>
    BY <1>9, <2>1 DEF RecordUnsupported, IInv, OutboxTypes
  <2>4. batch' \in [Dispatchers -> Seq(Claims)]
    BY <2>2 DEF IInv, OutboxTypes
  <2> QED BY <1>1, <2>2, <2>3, <2>4, RecordKeepsIInv
<1>10. ASSUME NEW d \in Dispatchers, RecordThrows(d) PROVE IInv'
  <2>1. batch' = batch /\ step' \in [Dispatchers -> {"route", "added", "recorded", "release"}]
        /\ \A x \in Dispatchers : Continues(x)
    BY <1>10, GoneOn DEF RecordThrows
  <2>2. /\ failures \subseteq failures' /\ failures' \subseteq Events
        /\ UNCHANGED <<event, job>>
    BY <1>10 DEF RecordThrows, IInv, OutboxTypes
  <2>3. batch' \in [Dispatchers -> Seq(Claims)]
    BY <2>1 DEF IInv, OutboxTypes
  <2> QED BY <1>1, <2>1, <2>2, <2>3, RecordKeepsIInv
<1>11. ASSUME NEW d \in Dispatchers, DispatchStops(d) PROVE IInv'
  BY <1>1, <1>11, StopKeepsIInv
<1> QED BY <1>2, <1>3, <1>4, <1>5, <1>6, <1>7, <1>8, <1>9, <1>10, <1>11 DEF OutboxNext, Dispatch

LEMMA NextIInv == IInv /\ [Next]_vars => IInv'
<1> SUFFICES ASSUME IInv, [Next]_vars PROVE IInv'
  OBVIOUS
<1>1. CASE OutboxNext /\ UNCHANGED processorVars
  BY <1>1, OutboxKeepsIInv
<1>2. CASE ProcessorNext
  BY <1>2, ProcessorsMoveJobs, QueueKeepsIInv DEF IInv
<1>3. CASE UNCHANGED vars
  <2>1. UNCHANGED <<event, batch, step, job, failures, run>>
    BY <1>3 DEF vars, outboxVars, queueVars, processorVars
  <2>2. QueueStep /\ QueueTypes'
    BY <2>1 DEF QueueStep, IInv, QueueTypes
  <2> QED BY <2>2, QueueKeepsIInv
<1> QED BY <1>1, <1>2, <1>3 DEF Next, ProcessorNext

THEOREM DeliveryInvariant == Spec => []IInv
BY InitIInv, NextIInv, PTL DEF Spec

\* An event the routing does not know is set aside only once somebody can see
\* it in job_failure (OutboxDispatcher.dispatch).
THEOREM UnsupportedAlerted == Spec => []UnsupportedIsAlerted
<1>1. IInv => UnsupportedIsAlerted
  BY DEF IInv
<1> QED BY <1>1, DeliveryInvariant, PTL

-----------------------------------------------------------------------------
(* The refinement.  Marks and work as the abstract outbox sees them: steps *)
(* that keep the phases of the events and settle no job are stutters.      *)
Mark == [e \in Events |-> event[e].phase]
Work == [e \in Events |-> WorkOf(job[e].state)]

LEMMA InitPromise == Init => Promise!Init
BY DEF Init, OutboxInit, Promise!Init, NoEvent, NoJob, WorkOf

LEMMA PhasesSame ==
  ASSUME \A e \in Events : event'[e].phase = event[e].phase
  PROVE  Mark' = Mark
BY DEF Mark

LEMMA WorkSame ==
  ASSUME \A e \in Events : WorkOf(job'[e].state) = WorkOf(job[e].state)
  PROVE  Work' = Work
BY DEF Work

LEMMA Stutter ==
  ASSUME Mark' = Mark, Work' = Work PROVE [Promise!Next]_Promise!vars
BY DEF Promise!vars, Mark, Work

\* A job is settled once.
LEMMA QueueRefines ==
  ASSUME IInv, QueueStep PROVE [Promise!Next]_Promise!vars
<1>1. Mark' = Mark
  BY PhasesSame DEF QueueStep
<1>2. CASE job' = job
  BY <1>1, <1>2, Stutter, WorkSame
<1>3. ASSUME NEW e \in Events, Moved(e, job')
      PROVE  [Promise!Next]_Promise!vars
  <2>1. \A x \in Events \ {e} : WorkOf(job'[x].state) = WorkOf(job[x].state)
    BY <1>3 DEF Moved
  <2>2. CASE WorkOf(job'[e].state) = WorkOf(job[e].state)
    BY <1>1, <2>1, <2>2, Stutter, WorkSame
  <2>3. CASE WorkOf(job'[e].state) # WorkOf(job[e].state)
    <3>1. WorkOf(job[e].state) = "queued" /\ WorkOf(job'[e].state) \in {"done", "given up"}
      BY <1>3, <2>3 DEF Moved, WorkOf
    <3>2. Work' = [Work EXCEPT ![e] = WorkOf(job'[e].state)]
      BY <2>1 DEF Work
    <3>3. Promise!Settle(e)
      BY <1>1, <3>1, <3>2 DEF Promise!Settle, Mark, Work
    <3> QED BY <3>3 DEF Promise!Next
  <2> QED BY <2>2, <2>3
<1> QED BY <1>2, <1>3 DEF QueueStep

\* A mark is made once, after the job or without one.
LEMMA MarksRefine ==
  ASSUME IInv, NEW e \in Events, NEW phase, Marks(e, event', phase), Justified(e, phase),
         job' = job
  PROVE  [Promise!Next]_Promise!vars
<1>1. Work' = Work
  BY WorkSame
<1>2. \A x \in Events \ {e} : event'[x].phase = event[x].phase
  BY DEF Marks
<1>3. CASE event'[e].phase = event[e].phase
  BY <1>1, <1>2, <1>3, PhasesSame, Stutter
<1>4. CASE event'[e].phase # event[e].phase
  <2>1. event[e].phase = "pending" /\ event'[e].phase = phase
    BY <1>4 DEF Marks
  <2>2. Mark' = [Mark EXCEPT ![e] = phase]
    BY <1>2, <2>1 DEF Mark
  <2>3. CASE phase = "published"
    <3>1. WorkOf(job[e].state) # "none"
      BY <2>3 DEF Justified, WorkOf
    <3>2. Promise!Publish(e)
      BY <1>1, <2>1, <2>2, <2>3, <3>1 DEF Promise!Publish, Mark, Work
    <3> QED BY <3>2 DEF Promise!Next
  <2>4. CASE phase = "quarantined"
    <3>1. WorkOf(job[e].state) = "none"
      BY <2>4 DEF Justified, WorkOf, IInv, Books, JobsHaveEvents
    <3>2. Promise!Quarantine(e)
      BY <1>1, <2>1, <2>2, <2>4, <3>1 DEF Promise!Quarantine, Mark, Work
    <3> QED BY <3>2 DEF Promise!Next
  <2> QED BY <1>4, <2>1, <2>3, <2>4 DEF Justified
<1> QED BY <1>3, <1>4

\* The first of the dispatchers that enqueue an event makes its job.
LEMMA EnqueueRefines ==
  ASSUME IInv, NEW d \in Dispatchers, At(d, "route"), KindOf(d) \in Enqueued,
         job' \in {job, Added(Current(d))}, UNCHANGED event
  PROVE  [Promise!Next]_Promise!vars
<1> DEFINE c == Current(d)
<1>1. c \in Events /\ event[c].phase \in {"pending", "published"} /\ event[c].kind \in Enqueued
  <2>1. c \in Events /\ event[c].phase # "absent" /\ event[c] \in Rows
    BY FirstOfBatch DEF At, IInv, Books, BatchesAreCommitted, OutboxTypes
  <2>2. event[c].kind \in Enqueued
    BY DEF KindOf
  <2>3. event[c].phase # "quarantined"
    BY <2>1, <2>2 DEF IInv, Books, QuarantinedHasNone
  <2> QED BY <2>1, <2>2, <2>3 DEF Rows
<1>2. Mark' = Mark
  BY PhasesSame
<1>3. CASE job' = job
  BY <1>2, <1>3, Stutter, WorkSame
<1>4. CASE job' # job
  <2>1. job[c].state = "absent" /\ job' = [job EXCEPT ![c].state = "waiting"]
    BY <1>4 DEF Added
  <2>2. event[c].phase = "pending"
    BY <1>1, <2>1 DEF IInv, Books, PublishedHasJob
  <2>3. job'[c].state = "waiting" /\ \A x \in Events \ {c} : job'[x] = job[x]
    BY <1>1, <2>1 DEF IInv, QueueTypes, Jobs
  <2>4. WorkOf(job[c].state) = "none" /\ WorkOf(job'[c].state) = "queued"
    BY <2>1, <2>3 DEF WorkOf
  <2>5. Work' = [Work EXCEPT ![c] = "queued"]
    BY <2>3, <2>4 DEF Work
  <2>6. Promise!Enqueue(c)
    BY <1>1, <1>2, <2>2, <2>4, <2>5 DEF Promise!Enqueue, Mark, Work
  <2> QED BY <1>1, <2>6 DEF Promise!Next
<1> QED BY <1>3, <1>4

LEMMA CommitRefines ==
  ASSUME IInv, NEW e \in Events, NEW kind, Commit(e, kind)
  PROVE  [Promise!Next]_Promise!vars
<1>1. Work' = Work
  BY WorkSame DEF Commit, queueVars
<1>2. event'[e].phase = "pending" /\ \A x \in Events \ {e} : event'[x] = event[x]
  BY DEF Commit, IInv, OutboxTypes, Rows
<1>3. Mark' = [Mark EXCEPT ![e] = "pending"]
  BY <1>2 DEF Mark
<1>4. Promise!Commit(e)
  BY <1>1, <1>3 DEF Promise!Commit, Mark, Work, Commit
<1> QED BY <1>4 DEF Promise!Next

\* Claims, records and crashes are not seen.
LEMMA UnseenRefines ==
  ASSUME IInv, job' = job, \A e \in Events : event'[e].phase = event[e].phase
  PROVE  [Promise!Next]_Promise!vars
BY PhasesSame, WorkSame, Stutter

LEMMA ClaimUnseen ==
  ASSUME IInv, NEW d \in Dispatchers, ClaimBatch(d)
  PROVE  job' = job /\ \A e \in Events : event'[e].phase = event[e].phase
<1>1. PICK S :
        event' = [e \in Events |->
                    IF e \in S
                    THEN [event[e] EXCEPT !.token = event[e].attempts + 1, !.leased = TRUE,
                                          !.attempts = @ + 1]
                    ELSE event[e]]
  BY DEF ClaimBatch
<1>2. \A e \in Events : event[e] \in Rows
  BY DEF IInv, OutboxTypes
<1>3. \A e \in Events : event'[e].phase = event[e].phase
  <2> SUFFICES ASSUME NEW e \in Events PROVE event'[e].phase = event[e].phase
    OBVIOUS
  <2>1. CASE e \in S
    <3>1. event'[e] = [event[e] EXCEPT !.token = event[e].attempts + 1, !.leased = TRUE,
                                       !.attempts = event[e].attempts + 1]
      BY <1>1, <2>1
    <3> QED BY <1>2, <3>1, ClaimedRow
  <2>2. CASE e \notin S
    BY <1>1, <2>2
  <2> QED BY <2>1, <2>2
<1>4. job' = job
  BY DEF ClaimBatch, queueVars
<1> QED BY <1>3, <1>4

LEMMA OutboxRefines ==
  ASSUME IInv, OutboxNext PROVE [Promise!Next]_Promise!vars
<1> USE DEF outboxVars, queueVars
<1>1. ASSUME NEW e \in Events, NEW kind \in KindsOf[e], Commit(e, kind)
      PROVE  [Promise!Next]_Promise!vars
  BY <1>1, CommitRefines
<1>2. ASSUME NEW e \in Events, LeaseEnds(e) \/ RecordFailure(e)
      PROVE  [Promise!Next]_Promise!vars
  <2>1. job' = job /\ \A x \in Events : event'[x].phase = event[x].phase
    BY <1>2 DEF LeaseEnds, RecordFailure, IInv, OutboxTypes, Rows
  <2> QED BY <2>1, UnseenRefines
<1>3. ASSUME NEW d \in Dispatchers, ClaimBatch(d)
      PROVE  [Promise!Next]_Promise!vars
  BY <1>3, ClaimUnseen, UnseenRefines
<1>4. ASSUME NEW d \in Dispatchers, Enqueue(d) \/ EnqueueThrows(d)
      PROVE  [Promise!Next]_Promise!vars
  BY <1>4, EnqueueRefines DEF Enqueue, EnqueueThrows
<1>5. ASSUME NEW d \in Dispatchers, MarkDispatched(d) \/ MarkThrows(d)
      PROVE  [Promise!Next]_Promise!vars
  <2>1. /\ batch[d] # <<>> /\ OutboxTypes /\ event' \in {event, Marked(d)} /\ job' = job
        /\ At(d, "added")
    BY <1>5 DEF MarkDispatched, MarkThrows, At, IInv
  <2>2. Current(d) \in Events /\ Marks(Current(d), event', "published")
    BY <2>1, FirstOfBatch, DispatchersMark, NothingMarks
  <2>3. Justified(Current(d), "published")
    BY <2>1 DEF IInv, Books, AddedHasJob, Justified
  <2> QED BY <2>1, <2>2, <2>3, MarksRefine
<1>6. ASSUME NEW d \in Dispatchers, ReleaseForRetry(d) \/ Quarantine(d)
      PROVE  [Promise!Next]_Promise!vars
  <2>1. batch[d] # <<>> /\ OutboxTypes /\ job' = job
    BY <1>6 DEF ReleaseForRetry, Quarantine, At, IInv
  <2>2. PICK phase \in {"pending", "quarantined"} :
          event' = Released(d, phase) /\ Justified(Current(d), phase)
    BY <1>6 DEF ReleaseForRetry, Quarantine, Justified, IInv, Books, RecordedIsFailure, KindOf,
       Enqueued
  <2>3. Current(d) \in Events /\ Marks(Current(d), event', phase)
    BY <2>1, <2>2, FirstOfBatch, DispatchersMark
  <2> QED BY <2>1, <2>2, <2>3, MarksRefine
<1>7. ASSUME NEW d \in Dispatchers, RecordUnsupported(d) \/ RecordThrows(d) \/ DispatchStops(d)
      PROVE  [Promise!Next]_Promise!vars
  BY <1>7, UnseenRefines DEF RecordUnsupported, RecordThrows, DispatchStops
<1> QED BY <1>1, <1>2, <1>3, <1>4, <1>5, <1>6, <1>7 DEF OutboxNext, Dispatch

LEMMA NextRefines == IInv /\ [Next]_vars => [Promise!Next]_Promise!vars
<1> SUFFICES ASSUME IInv, [Next]_vars PROVE [Promise!Next]_Promise!vars
  OBVIOUS
<1>1. CASE OutboxNext
  BY <1>1, OutboxRefines
<1>2. CASE ProcessorNext
  BY <1>2, ProcessorsMoveJobs, QueueRefines DEF IInv
<1>3. CASE UNCHANGED vars
  BY <1>3, UnseenRefines DEF vars, outboxVars, queueVars
<1> QED BY <1>1, <1>2, <1>3 DEF Next, ProcessorNext

\* The dispatchers, claims and queues implement the abstract outbox: one job for
\* a committed event, before it is marked, settled once, and no mark is ever
\* taken back (OutboxDispatcher, its repository and the worker's queues).
THEOREM DeliveryKeepsPromise == Spec => RefinesPromise
<1>1. Spec => [][Promise!Next]_Promise!vars
  BY DeliveryInvariant, NextRefines, PTL DEF Spec
<1>2. Spec => Promise!Init
  BY InitPromise, PTL DEF Spec
<1> QED BY <1>1, <1>2, PTL DEF RefinesPromise, Promise!Spec

-----------------------------------------------------------------------------
(***************************************************************************)
(* Second copies.  The debt of an event is the messages accepted for it    *)
(* and those its processors may still send, less the one that is due: the  *)
(* claim in force, or the record that it was sent, stands for that one.    *)
(* No step incurs a debt that the faults counted in windows do not cover.  *)
(***************************************************************************)
Deliveries == [status : {"absent", "QUEUED", "FAILED", "SENT"}, token : Nat,
               leased : BOOLEAN, attempts : Nat]
MailTypes ==
  /\ delivery \in [Events -> Deliveries]
  /\ mails \in [Events -> Nat] /\ windows \in Nat

Carries(p) == run[p].at \in {"claimed", "sent", "unsent"}

\* Tokens are the numbers of the claims: no two processors carry the same one.
LeasedIsQueued == \A e \in Events : delivery[e].leased => delivery[e].status = "QUEUED"
TokensAreNumbers ==
  \A p \in Processors :
    Carries(p) => 1 <= run[p].token /\ run[p].token <= delivery[JobOf(p)].attempts
TokensDiffer ==
  \A p, q \in Processors :
    Carries(p) /\ Carries(q) /\ JobOf(p) = JobOf(q) /\ run[p].token = run[q].token => p = q
Fenced == LeasedIsQueued /\ TokensAreNumbers /\ TokensDiffer

Sending(e) == {p \in Processors : JobOf(p) = e /\ run[p].at = "claimed"}
InCharge(p, e) ==
  JobOf(p) = e /\ run[p].token = delivery[e].token /\ run[p].at \in {"claimed", "sent"}
Credit(e) ==
  \/ delivery[e].status = "SENT"
  \/ delivery[e].leased /\ \E p \in Processors : InCharge(p, e)

Less(units, credit) == IF ~credit THEN units ELSE IF units = 0 THEN 0 ELSE units - 1
Debt(e) == Less(mails[e] + Cardinality(Sending(e)), Credit(e))
Debts == [e \in Events |-> Debt(e)]
DebtsAreWindows == SumFunctionOnSet(Debts, Events) <= windows

MailInv == QueueTypes /\ MailTypes /\ Fenced /\ DebtsAreWindows

LEMMA DebtsAreNatural ==
  ASSUME MailTypes, NEW e \in Events
  PROVE  /\ IsFiniteSet(Sending(e)) /\ Cardinality(Sending(e)) \in Nat
         /\ mails[e] \in Nat /\ Debt(e) \in Nat
<1>1. Sending(e) \subseteq Processors
  BY DEF Sending
<1>2. IsFiniteSet(Sending(e)) /\ Cardinality(Sending(e)) \in Nat
  BY <1>1, OutboxAssumption, FS_Subset, FS_CardinalityType
<1>3. mails[e] \in Nat
  BY DEF MailTypes
<1>4. mails[e] + Cardinality(Sending(e)) \in Nat
  BY <1>2, <1>3
<1>5. Debt(e) \in Nat
  BY <1>4 DEF Debt, Less
<1> QED BY <1>2, <1>3, <1>5

\* Excess copies are part of the debt.
LEMMA CopiesAreDebt ==
  ASSUME MailTypes, DebtsAreWindows
  PROVE  DuplicatesOnlyInWindows
<1> DEFINE f == [e \in Events |-> IF mails[e] > 1 THEN mails[e] - 1 ELSE 0]
<1>1. \A e \in Events : f[e] \in Nat /\ Debts[e] \in Nat /\ f[e] <= Debts[e]
  <2> SUFFICES ASSUME NEW e \in Events
               PROVE  f[e] \in Nat /\ Debts[e] \in Nat /\ f[e] <= Debts[e]
    OBVIOUS
  <2> DEFINE m == mails[e]
             n == Cardinality(Sending(e))
             c == Credit(e)
  <2>1. m \in Nat /\ n \in Nat
    BY DebtsAreNatural
  <2>2. Debts[e] = IF ~c THEN m + n ELSE IF m + n = 0 THEN 0 ELSE (m + n) - 1
    <3>1. Debts[e] = Debt(e)
      BY DEF Debts
    <3> QED BY <3>1 DEF Debt, Less
  <2>3. f[e] = IF m > 1 THEN m - 1 ELSE 0
    OBVIOUS
  <2> HIDE DEF m, n, c, f
  <2>4. CASE c
    BY <2>1, <2>2, <2>3, <2>4
  <2>5. CASE ~c
    BY <2>1, <2>2, <2>3, <2>5
  <2> QED BY <2>4, <2>5
<1>2. IsFiniteSet(Events)
  BY OutboxAssumption
<1> HIDE DEF f
<1>3. SumFunctionOnSet(f, Events) <= SumFunctionOnSet(Debts, Events)
  BY <1>1, <1>2, SumMonotone
<1>4. SumFunctionOnSet(f, Events) \in Nat /\ SumFunctionOnSet(Debts, Events) \in Nat
  BY <1>1, <1>2, SumNat
<1>5. SumFunctionOnSet(f, Events) <= windows
  BY <1>3, <1>4 DEF DebtsAreWindows, MailTypes
<1> QED BY <1>5 DEF DuplicatesOnlyInWindows, f

\* One debt that grows by no more than the windows do.
LEMMA OneDebtGrows ==
  ASSUME MailTypes, MailTypes', DebtsAreWindows, NEW e \in Events, NEW w \in Nat,
         windows' = windows + w, \A x \in Events \ {e} : Debt(x)' = Debt(x),
         Debt(e)' <= Debt(e) + w
  PROVE  DebtsAreWindows'
<1> DEFINE f == Debts
           g == Debts'
<1>1. \A x \in Events : Debt(x) \in Nat /\ Debt(x)' \in Nat
  <2>1. \A x \in Events : Debt(x) \in Nat
    BY DebtsAreNatural
  <2>2. ASSUME NEW x \in Events PROVE Debt(x)' \in Nat
    <3> DEFINE m == mails'[x]
               n == Cardinality(Sending(x)')
    <3>1. Sending(x)' \subseteq Processors
      BY DEF Sending
    <3>2. m \in Nat /\ n \in Nat
      BY <3>1, OutboxAssumption, FS_Subset, FS_CardinalityType DEF MailTypes
    <3>3. Debt(x)' = Less(m + n, Credit(x)')
      BY DEF Debt, Less
    <3> HIDE DEF m, n
    <3> QED BY <3>2, <3>3 DEF Less
  <2> QED BY <2>1, <2>2
<1>2. \A x \in Events : f[x] = Debt(x) /\ g[x] = Debt(x)'
  BY DEF Debts
<1>3. DebtsAreWindows' <=> SumFunctionOnSet(g, Events) <= windows'
  BY DEF DebtsAreWindows
<1>4. SumFunctionOnSet(f, Events) <= windows /\ windows \in Nat
  BY DEF DebtsAreWindows, MailTypes
<1> HIDE DEF f, g
<1>5. \A x \in Events : f[x] \in Nat /\ g[x] \in Nat
  BY <1>1, <1>2
<1>6. (\A x \in Events \ {e} : g[x] = f[x]) /\ g[e] <= f[e] + w
  BY <1>2
<1>7. SumFunctionOnSet(g, Events) <= SumFunctionOnSet(f, Events) + w
  BY <1>5, <1>6, OutboxAssumption, SumGrows
<1>8. SumFunctionOnSet(f, Events) \in Nat /\ SumFunctionOnSet(g, Events) \in Nat
  BY <1>5, OutboxAssumption, SumNat
<1>9. SumFunctionOnSet(g, Events) <= windows'
  BY <1>4, <1>7, <1>8
<1> QED BY <1>3, <1>9

\* Processor p goes on with the job of e, or leaves it.
Handles(p, e, at) ==
  /\ run[p].at = "idle" \/ JobOf(p) = e
  /\ run'[p].at = at /\ run'[p].job \in {e, NoWork}
  /\ \A q \in Processors \ {p} : run'[q] = run[q]
  /\ \A x \in Events \ {e} : delivery'[x] = delivery[x] /\ mails'[x] = mails[x]

LEMMA OthersOweTheSame ==
  ASSUME NEW p \in Processors, NEW e \in Events, NEW at, Handles(p, e, at),
         NEW x \in Events \ {e}
  PROVE  Debt(x)' = Debt(x)
<1>1. NoWork # x
  BY OutboxAssumption DEF NoWork
<1>2. Sending(x)' = Sending(x)
  BY <1>1 DEF Sending, Handles, JobOf
<1>3. \A q \in Processors : InCharge(q, x)' <=> InCharge(q, x)
  BY <1>1 DEF InCharge, Handles, JobOf
<1>4. Credit(x)' <=> Credit(x)
  BY <1>3 DEF Credit, Handles
<1> QED BY <1>2, <1>4 DEF Debt, Less, Handles

\* How many may still send after a step of p.
LEMMA SendersCounted ==
  ASSUME MailTypes, MailTypes', NEW p \in Processors, NEW e \in Events, NEW at,
         Handles(p, e, at), at = "claimed" => run'[p].job = e
  PROVE  /\ run[p].at # "claimed" /\ at # "claimed" =>
              Cardinality(Sending(e))' = Cardinality(Sending(e))
         /\ run[p].at = "claimed" /\ at # "claimed" =>
              Cardinality(Sending(e)) = Cardinality(Sending(e))' + 1
         /\ run[p].at # "claimed" /\ at = "claimed" =>
              Cardinality(Sending(e))' = Cardinality(Sending(e)) + 1
<1> DEFINE S == Sending(e)
           T == Sending(e)'
<1>1. IsFiniteSet(S) /\ Cardinality(S) \in Nat
  BY DebtsAreNatural
<1>2. \A q \in Processors \ {p} : q \in S <=> q \in T
  BY DEF Sending, Handles, JobOf
<1>3. (p \in S <=> run[p].at = "claimed") /\ (p \in T <=> at = "claimed")
  BY DEF Sending, Handles, JobOf
<1>4. S \subseteq Processors /\ T \subseteq Processors
  BY DEF Sending
<1>5. Cardinality(Sending(e))' = Cardinality(T)
  OBVIOUS
<1> HIDE DEF S, T
<1>6. run[p].at # "claimed" /\ at # "claimed" => T = S
  BY <1>2, <1>3, <1>4
<1>7. run[p].at = "claimed" /\ at # "claimed" => T = S \ {p} /\ p \in S
  BY <1>2, <1>3, <1>4
<1>8. run[p].at # "claimed" /\ at = "claimed" => T = S \cup {p} /\ p \notin S
  BY <1>2, <1>3, <1>4
<1>9. ASSUME T = S \ {p}, p \in S PROVE Cardinality(S) = Cardinality(T) + 1
  <2>1. Cardinality(S \ {p}) = Cardinality(S) - 1
    BY <1>1, <1>9, FS_RemoveElement, Zenon
  <2> QED BY <1>1, <1>9, <2>1
<1>10. ASSUME T = S \cup {p}, p \notin S PROVE Cardinality(T) = Cardinality(S) + 1
  BY <1>1, <1>10, FS_AddElement
<1> QED BY <1>5, <1>6, <1>7, <1>8, <1>9, <1>10 DEF S

\* The fences hold when p passes its token on, gives it up, or makes the next one.
KeepsFence(p, e, at) ==
  /\ delivery'[e].leased => delivery'[e].status = "QUEUED"
  /\ delivery'[e].attempts >= delivery[e].attempts
  /\ at \in {"claimed", "sent", "unsent"} =>
       /\ run'[p].job = e /\ run[p].job = e
       /\ \/ Carries(p) /\ run'[p].token = run[p].token
          \/ /\ run'[p].token = delivery[e].attempts + 1
             /\ delivery'[e].attempts = delivery[e].attempts + 1

LEMMA FencesKept ==
  ASSUME QueueTypes, MailTypes, MailTypes', Fenced, NEW p \in Processors, NEW e \in Events,
         NEW at, Handles(p, e, at), KeepsFence(p, e, at)
  PROVE  Fenced'
<1>1. LeasedIsQueued'
  BY DEF Fenced, LeasedIsQueued, Handles, KeepsFence
<1>2. \A x \in Events : /\ delivery[x].attempts \in Nat /\ delivery'[x].attempts \in Nat
                        /\ delivery'[x].attempts >= delivery[x].attempts
  BY DEF MailTypes, Deliveries, Handles, KeepsFence
<1>3. \A q \in Processors : /\ run[q].token \in Nat
                            /\ Carries(q) => JobOf(q) \in Events
  BY DEF QueueTypes, Carries, JobOf
<1>4. ASSUME NEW q \in Processors, q # p, Carries(q)'
      PROVE  /\ Carries(q) /\ run'[q] = run[q] /\ JobOf(q) \in Events
             /\ 1 <= run[q].token /\ run[q].token <= delivery[JobOf(q)].attempts
             /\ run[q].token <= delivery'[JobOf(q)].attempts
  <2>1. Carries(q) /\ run'[q] = run[q]
    BY <1>4 DEF Handles, Carries
  <2>2. 1 <= run[q].token /\ run[q].token <= delivery[JobOf(q)].attempts
    BY <2>1 DEF Fenced, TokensAreNumbers
  <2>3. run[q].token <= delivery'[JobOf(q)].attempts
    BY <1>2, <1>3, <2>1, <2>2
  <2> QED BY <1>3, <2>1, <2>2, <2>3
<1>5. ASSUME Carries(p)'
      PROVE  /\ JobOf(p)' = e /\ JobOf(p) = e
             /\ 1 <= run'[p].token /\ run'[p].token <= delivery'[e].attempts
             /\ \/ Carries(p) /\ run'[p].token = run[p].token
                \/ run'[p].token = delivery[e].attempts + 1
  <2>1. /\ JobOf(p)' = e /\ JobOf(p) = e
        /\ \/ Carries(p) /\ run'[p].token = run[p].token
           \/ /\ run'[p].token = delivery[e].attempts + 1
              /\ delivery'[e].attempts = delivery[e].attempts + 1
    BY <1>5 DEF Handles, KeepsFence, Carries, JobOf
  <2>2. Carries(p) => 1 <= run[p].token /\ run[p].token <= delivery[e].attempts
    BY <2>1 DEF Fenced, TokensAreNumbers
  <2> QED BY <1>2, <1>3, <2>1, <2>2
<1>6. TokensAreNumbers'
  BY <1>4, <1>5 DEF TokensAreNumbers, JobOf
<1>7. TokensDiffer'
  <2> SUFFICES ASSUME NEW q \in Processors, NEW r \in Processors, Carries(q)', Carries(r)',
                      JobOf(q)' = JobOf(r)', run'[q].token = run'[r].token
               PROVE  q = r
    BY DEF TokensDiffer
  <2>1. CASE q # p /\ r # p
    BY <1>4, <2>1 DEF Fenced, TokensDiffer, JobOf
  <2>2. ASSUME NEW o \in Processors, o # p, Carries(o)', Carries(p)', JobOf(o)' = JobOf(p)',
               run'[o].token = run'[p].token
        PROVE  FALSE
    <3>1. /\ Carries(o) /\ JobOf(o) = e /\ run'[o].token = run[o].token
          /\ run[o].token <= delivery[e].attempts
      BY <1>4, <1>5, <2>2 DEF JobOf
    <3>2. run'[p].token # delivery[e].attempts + 1
      BY <1>2, <1>3, <2>2, <3>1
    <3>3. Carries(p) /\ JobOf(p) = e /\ run[p].token = run[o].token
      BY <1>5, <2>2, <3>1, <3>2
    <3> QED BY <2>2, <3>1, <3>3 DEF Fenced, TokensDiffer
  <2> QED BY <2>1, <2>2
<1> QED BY <1>1, <1>6, <1>7 DEF Fenced

\* What is left to show of a step of p with the job of e: the debt of e.
LEMMA HandledKeepsMail ==
  ASSUME MailInv, QueueTypes', NEW p \in Processors, NEW e \in Events, NEW at,
         Handles(p, e, at), KeepsFence(p, e, at),
         delivery' \in [Events -> Deliveries], mails' \in [Events -> Nat],
         NEW w \in Nat, windows' = windows + w, Debt(e)' <= Debt(e) + w
  PROVE  MailInv'
<1>1. MailTypes'
  BY DEF MailTypes, MailInv
<1>2. Fenced'
  BY <1>1, FencesKept DEF MailInv
<1>3. DebtsAreWindows'
  BY <1>1, OneDebtGrows, OthersOweTheSame DEF MailInv
<1> QED BY <1>1, <1>2, <1>3 DEF MailInv

\* Steps before a claim and after its end: nothing is sent and no claim is in question.
LEMMA QuietKeepsMail ==
  ASSUME MailInv, QueueTypes', NEW p \in Processors, NEW e \in Events, NEW at,
         Handles(p, e, at), run[p].at \notin {"claimed", "sent"},
         at \in {"idle", "start"}, UNCHANGED <<delivery, mails, windows>>
  PROVE  MailInv'
<1>1. MailTypes /\ MailTypes'
  BY DEF MailInv, MailTypes
<1>2. Cardinality(Sending(e))' = Cardinality(Sending(e))
  BY <1>1, SendersCounted
<1>3. \A q \in Processors : InCharge(q, e)' <=> InCharge(q, e)
  BY DEF Handles, InCharge, JobOf
<1>4. Credit(e)' <=> Credit(e)
  BY <1>3 DEF Credit
<1>5. Debt(e)' = Debt(e)
  BY <1>2, <1>4 DEF Debt, Less
<1>6. Debt(e) \in Nat
  BY <1>1, DebtsAreNatural
<1>7. KeepsFence(p, e, at)
  BY <1>1 DEF KeepsFence, MailInv, Fenced, LeasedIsQueued, MailTypes, Deliveries
<1>8. Debt(e)' <= Debt(e) + 0 /\ windows' = windows + 0
  BY <1>1, <1>5, <1>6 DEF MailTypes
<1> QED BY <1>1, <1>7, <1>8, HandledKeepsMail DEF MailTypes

\* A claim: nobody was in charge, and the message it stands for is due.
LEMMA ClaimKeepsMail ==
  ASSUME MailInv, QueueTypes', NEW p \in Processors, NEW e \in Events, JobOf(p) = e,
         ClaimDelivery(p)
  PROVE  MailInv'
<1> DEFINE row == [status |-> "QUEUED", token |-> delivery[e].attempts + 1, leased |-> TRUE,
                   attempts |-> delivery[e].attempts + 1]
<1>1. /\ MailTypes /\ QueueTypes /\ e \in Events /\ run[p].at = "start"
      /\ ~delivery[e].leased /\ delivery[e].status # "SENT"
      /\ delivery' = [delivery EXCEPT ![e] = row]
      /\ run' = [run EXCEPT ![p].at = "claimed", ![p].token = delivery[e].attempts + 1]
      /\ UNCHANGED <<mails, windows>>
  BY DEF MailInv, ClaimDelivery, MailAt, JobAt, Claimable, ClaimableUnsent, NoFault
<1>2. delivery[e] \in Deliveries /\ delivery[e].attempts \in Nat /\ row \in Deliveries
  BY <1>1 DEF MailTypes, Deliveries
<1> HIDE DEF row
<1>3. delivery' \in [Events -> Deliveries] /\ mails' \in [Events -> Nat] /\ MailTypes'
  BY <1>1, <1>2 DEF MailTypes
<1>4. delivery'[e] = row /\ run'[p].token = delivery[e].attempts + 1
      /\ run'[p].at = "claimed" /\ run'[p].job = e
  BY <1>1 DEF MailTypes, QueueTypes, JobOf
<1>5. Handles(p, e, "claimed")
  BY <1>1, <1>4 DEF Handles, MailTypes, QueueTypes
<1>6. KeepsFence(p, e, "claimed")
  BY <1>2, <1>4 DEF KeepsFence, row, JobOf
<1>7. Cardinality(Sending(e))' = Cardinality(Sending(e)) + 1
  BY <1>1, <1>3, <1>4, <1>5, SendersCounted
<1>8. ~Credit(e)
  BY <1>1 DEF Credit
<1>9. Credit(e)'
  BY <1>4 DEF Credit, InCharge, row, JobOf
<1>10. Debt(e)' <= Debt(e) + 0
  <2> DEFINE m == mails[e]
             n == Cardinality(Sending(e))
  <2>1. m \in Nat /\ n \in Nat
    BY <1>1, DebtsAreNatural
  <2>2. Debt(e) = m + n
    BY <1>8 DEF Debt, Less
  <2>3. Debt(e)' = IF m + (n + 1) = 0 THEN 0 ELSE (m + (n + 1)) - 1
    BY <1>1, <1>7, <1>9 DEF Debt, Less
  <2> HIDE DEF m, n
  <2> QED BY <2>1, <2>2, <2>3
<1>11. windows' = windows + 0
  BY <1>1 DEF MailTypes
<1> QED BY <1>1, <1>3, <1>5, <1>6, <1>10, <1>11, HandledKeepsMail


\* A message that is handed over: the sender no longer owes it, the server has it.
LEMMA SendKeepsMail ==
  ASSUME MailInv, QueueTypes', NEW p \in Processors, NEW e \in Events, JobOf(p) = e,
         NEW at \in {"sent", "unsent"}, NEW m \in {0, 1}, NEW w \in {0, 1},
         run[p].at = "claimed", run' = [run EXCEPT ![p].at = at], UNCHANGED delivery,
         mails' = [mails EXCEPT ![e] = @ + m], windows' = windows + w,
         at = "sent" => m = 1, m = 1 /\ at = "unsent" => w = 1
  PROVE  MailInv'
<1>1. MailTypes /\ QueueTypes
  BY DEF MailInv
<1>2. delivery' \in [Events -> Deliveries] /\ mails' \in [Events -> Nat] /\ MailTypes'
      /\ mails'[e] = mails[e] + m
  BY <1>1 DEF MailTypes
<1>3. run'[p].at = at /\ run'[p].job = e /\ run'[p].token = run[p].token
  BY <1>1 DEF QueueTypes, JobOf
<1>4. Handles(p, e, at)
  BY <1>1, <1>3 DEF Handles, MailTypes, QueueTypes
<1>5. KeepsFence(p, e, at)
  BY <1>1, <1>3 DEF KeepsFence, JobOf, Carries, MailInv, Fenced, LeasedIsQueued, MailTypes,
     Deliveries
<1>6. Cardinality(Sending(e)) = Cardinality(Sending(e))' + 1
  BY <1>1, <1>2, <1>4, SendersCounted
<1>7. at = "sent" => (Credit(e)' <=> Credit(e))
  <2>1. \A q \in Processors : at = "sent" => (InCharge(q, e)' <=> InCharge(q, e))
    BY <1>3, <1>4 DEF InCharge, Handles, JobOf
  <2> QED BY <2>1 DEF Credit
<1>8. Debt(e)' <= Debt(e) + w
  <2> DEFINE a == mails[e]
             n == Cardinality(Sending(e))
             k == Cardinality(Sending(e))'
             c == Credit(e)
             d == Credit(e)'
  <2>1. a \in Nat /\ n \in Nat /\ n = k + 1
    BY <1>1, <1>6, DebtsAreNatural
  <2>2. k \in Nat
    <3>1. Sending(e)' \subseteq Processors
      BY DEF Sending
    <3> QED BY <3>1, OutboxAssumption, FS_Subset, FS_CardinalityType
  <2>3. Debt(e) = Less(a + n, c) /\ Debt(e)' = Less((a + m) + k, d)
    BY <1>2 DEF Debt, Less
  <2>4. at = "sent" => (c <=> d)
    BY <1>7
  <2> HIDE DEF a, n, k, c, d
  <2>5. CASE at = "sent"
    <3>1. (a + m) + k = a + n
      BY <2>1, <2>2, <2>5
    <3>2. Less((a + m) + k, d) = Less(a + n, c)
      BY <2>4, <2>5, <3>1 DEF Less
    <3>3. Less(a + n, c) \in Nat
      BY <2>1 DEF Less
    <3> QED BY <2>3, <3>2, <3>3
  <2>6. CASE at = "unsent"
    <3>1. Less((a + m) + k, d) <= (a + m) + k
      BY <2>1, <2>2 DEF Less
    <3>2. (a + n) - 1 <= Less(a + n, c)
      BY <2>1 DEF Less
    <3>3. Less((a + m) + k, d) \in Nat /\ Less(a + n, c) \in Nat
      BY <2>1, <2>2 DEF Less
    <3>4. m <= w
      BY <2>6
    <3> QED BY <2>1, <2>2, <2>3, <3>1, <3>2, <3>3, <3>4
  <2> QED BY <2>5, <2>6
<1> QED BY <1>2, <1>4, <1>5, <1>8, HandledKeepsMail

\* What the bookkeeping after the attempt does to the row of e: nothing, or it is
\* closed by the processor that carries its token.
Closes(p, e, status) ==
  \/ UNCHANGED delivery
  \/ /\ delivery[e].token = run[p].token /\ delivery[e].status = "QUEUED"
     /\ delivery' = [delivery EXCEPT ![e].status = status, ![e].token = NoToken,
                                     ![e].leased = FALSE]

LEMMA FinishedCloses ==
  ASSUME NEW p, NEW e, JobOf(p) = e, NEW status, delivery' \in {delivery, Finished(p, status)}
  PROVE  Closes(p, e, status)
  BY DEF Closes, Finished

\* The end of an attempt whose message was handed over: recorded, or counted.
LEMMA SentKeepsMail ==
  ASSUME MailInv, QueueTypes', NEW p \in Processors, NEW e \in Events, JobOf(p) = e,
         NEW at \in {"idle", "unsent"}, NEW w \in {0, 1}, run[p].at = "sent",
         at = "idle" => run' = [run EXCEPT ![p] = Idle],
         at = "unsent" => run' = [run EXCEPT ![p].at = "unsent"],
         UNCHANGED mails, windows' = windows + w, Closes(p, e, "SENT"),
         w = 0 => (delivery[e].token = run[p].token /\ delivery[e].status = "QUEUED"
                     => delivery'[e].status = "SENT")
  PROVE  MailInv'
<1>1. MailTypes /\ QueueTypes /\ Fenced
  BY DEF MailInv
<1>2. delivery[e] \in Deliveries
  BY <1>1 DEF MailTypes
<1>3. /\ delivery' \in [Events -> Deliveries]
      /\ \A x \in Events \ {e} : delivery'[x] = delivery[x]
      /\ delivery'[e].attempts = delivery[e].attempts
      /\ delivery'[e].leased => delivery[e].leased /\ delivery'[e].status = delivery[e].status
      /\ delivery'[e] = delivery[e] \/ delivery'[e].status = "SENT"
  BY <1>1, <1>2 DEF Closes, MailTypes, Deliveries, NoToken
<1>4. MailTypes' /\ mails' \in [Events -> Nat] /\ mails'[e] = mails[e]
  BY <1>1, <1>3 DEF MailTypes
<1>5. /\ run'[p].at = at /\ run'[p].job \in {e, NoWork}
      /\ at = "unsent" => run'[p].job = e /\ run'[p].token = run[p].token
  BY <1>1 DEF QueueTypes, JobOf, Idle
<1>6. Handles(p, e, at)
  BY <1>1, <1>3, <1>4, <1>5 DEF Handles, MailTypes, QueueTypes
<1>7. KeepsFence(p, e, at)
  BY <1>1, <1>2, <1>3, <1>5 DEF KeepsFence, JobOf, Carries, Fenced, LeasedIsQueued, Deliveries
<1>8. Cardinality(Sending(e))' = Cardinality(Sending(e))
  BY <1>1, <1>4, <1>6, SendersCounted
<1>9. w = 0 /\ Credit(e) => Credit(e)'
  <2> SUFFICES ASSUME w = 0, Credit(e), delivery'[e].status # "SENT" PROVE Credit(e)'
    BY DEF Credit
  <2>1. delivery'[e] = delivery[e]
    BY <1>3
  <2>2. PICK q \in Processors : InCharge(q, e) /\ delivery[e].leased
    BY <2>1 DEF Credit
  <2>3. delivery[e].status = "QUEUED"
    BY <1>1, <2>2 DEF Fenced, LeasedIsQueued
  <2>4. q # p
    BY <2>1, <2>2, <2>3 DEF InCharge
  <2>5. InCharge(q, e)'
    BY <1>6, <2>1, <2>2, <2>4 DEF InCharge, Handles, JobOf
  <2> QED BY <2>1, <2>2, <2>5 DEF Credit
<1>10. Debt(e)' <= Debt(e) + w
  <2> DEFINE u == mails[e] + Cardinality(Sending(e))
             c == Credit(e)
             d == Credit(e)'
  <2>1. u \in Nat
    BY <1>1, DebtsAreNatural
  <2>2. Debt(e) = Less(u, c) /\ Debt(e)' = Less(u, d)
    BY <1>4, <1>8 DEF Debt, Less
  <2>3. w = 0 /\ c => d
    BY <1>9
  <2> HIDE DEF u, c, d
  <2>4. Less(u, d) <= u /\ u <= Less(u, c) + 1 /\ Less(u, c) \in Nat /\ Less(u, d) \in Nat
        /\ Less(u, c) <= u
    BY <2>1 DEF Less
  <2>5. CASE w = 1
    BY <2>1, <2>2, <2>4, <2>5
  <2>6. CASE w = 0
    <3>1. CASE ~c
      BY <2>1, <2>2, <2>4, <2>6, <3>1 DEF Less
    <3>2. CASE c
      BY <2>1, <2>2, <2>3, <2>4, <2>6, <3>2 DEF Less
    <3> QED BY <3>1, <3>2
  <2> QED BY <2>5, <2>6
<1> QED BY <1>3, <1>4, <1>6, <1>7, <1>10, HandledKeepsMail

\* The same when the end is counted: nothing needs to be recorded.
LEMMA CountedKeepsMail ==
  ASSUME MailInv, QueueTypes', NEW p \in Processors, NEW e \in Events, JobOf(p) = e,
         run[p].at = "sent",
         run' \in {[run EXCEPT ![p] = Idle], [run EXCEPT ![p].at = "unsent"]},
         UNCHANGED mails, windows' = windows + 1, Closes(p, e, "SENT")
  PROVE  MailInv'
<1>1. CASE run' = [run EXCEPT ![p] = Idle]
  <2> DEFINE at == "idle"
             w == 1
  <2>1. /\ at \in {"idle", "unsent"} /\ w \in {0, 1} /\ w # 0 /\ windows' = windows + w
        /\ at = "idle" /\ at # "unsent"
    OBVIOUS
  <2> HIDE DEF at, w
  <2> QED BY <1>1, <2>1, SentKeepsMail
<1>2. CASE run' = [run EXCEPT ![p].at = "unsent"]
  <2> DEFINE at == "unsent"
             w == 1
  <2>1. /\ at \in {"idle", "unsent"} /\ w \in {0, 1} /\ w # 0 /\ windows' = windows + w
        /\ at # "idle" /\ at = "unsent"
    OBVIOUS
  <2> HIDE DEF at, w
  <2> QED BY <1>2, <2>1, SentKeepsMail
<1> QED BY <1>1, <1>2

\* The end of an attempt without a message, or of one that dies before it is sent.
LEMMA UnsentKeepsMail ==
  ASSUME MailInv, QueueTypes', NEW p \in Processors, NEW e \in Events, JobOf(p) = e,
         run[p].at \in {"claimed", "unsent"}, run' = [run EXCEPT ![p] = Idle],
         UNCHANGED <<mails, windows>>, Closes(p, e, "FAILED"),
         run[p].at = "claimed" => UNCHANGED delivery
  PROVE  MailInv'
<1>1. MailTypes /\ QueueTypes /\ Fenced
  BY DEF MailInv
<1>2. delivery[e] \in Deliveries
  BY <1>1 DEF MailTypes
<1>3. /\ delivery' \in [Events -> Deliveries]
      /\ \A x \in Events \ {e} : delivery'[x] = delivery[x]
      /\ delivery'[e].attempts = delivery[e].attempts
      /\ delivery'[e].leased => delivery[e].leased /\ delivery'[e].status = delivery[e].status
      /\ \/ delivery'[e] = delivery[e]
         \/ delivery[e].token = run[p].token /\ delivery[e].status = "QUEUED"
  BY <1>1, <1>2 DEF Closes, MailTypes, Deliveries, NoToken
<1>4. MailTypes' /\ mails' \in [Events -> Nat] /\ mails'[e] = mails[e]
  BY <1>1, <1>3 DEF MailTypes
<1>5. run'[p].at = "idle" /\ run'[p].job = NoWork
  BY <1>1 DEF QueueTypes, Idle
<1>6. Handles(p, e, "idle")
  BY <1>1, <1>3, <1>4, <1>5 DEF Handles, MailTypes, QueueTypes
<1>7. KeepsFence(p, e, "idle")
  BY <1>1, <1>2, <1>3 DEF KeepsFence, Fenced, LeasedIsQueued, Deliveries
<1>8. /\ run[p].at = "unsent" => Cardinality(Sending(e))' = Cardinality(Sending(e))
      /\ run[p].at = "claimed" => Cardinality(Sending(e)) = Cardinality(Sending(e))' + 1
  BY <1>1, <1>4, <1>6, SendersCounted
<1>9. run[p].at = "unsent" /\ Credit(e) => Credit(e)'
  <2> SUFFICES ASSUME run[p].at = "unsent", Credit(e) PROVE Credit(e)'
    OBVIOUS
  <2>1. CASE delivery[e].status = "SENT"
    BY <1>3, <2>1 DEF Credit
  <2>2. CASE delivery[e].status # "SENT"
    <3>1. PICK q \in Processors : InCharge(q, e) /\ delivery[e].leased
      BY <2>2 DEF Credit
    <3>2. q # p
      BY <3>1 DEF InCharge
    <3>3. delivery[e].token # run[p].token
      BY <1>1, <3>1, <3>2 DEF InCharge, Fenced, TokensDiffer, Carries
    <3>4. delivery'[e] = delivery[e]
      BY <1>3, <3>3
    <3>5. InCharge(q, e)'
      BY <1>6, <3>1, <3>2, <3>4 DEF InCharge, Handles, JobOf
    <3> QED BY <3>1, <3>4, <3>5 DEF Credit
  <2> QED BY <2>1, <2>2
<1>10. Debt(e)' <= Debt(e) + 0
  <2> DEFINE a == mails[e]
             n == Cardinality(Sending(e))
             k == Cardinality(Sending(e))'
             c == Credit(e)
             d == Credit(e)'
  <2>1. a \in Nat /\ n \in Nat
    BY <1>1, DebtsAreNatural
  <2>2. k \in Nat
    <3>1. Sending(e)' \subseteq Processors
      BY DEF Sending
    <3> QED BY <3>1, OutboxAssumption, FS_Subset, FS_CardinalityType
  <2>3. Debt(e) = Less(a + n, c) /\ Debt(e)' = Less(a + k, d)
    BY <1>4 DEF Debt, Less
  <2>4. /\ run[p].at = "unsent" => k = n /\ (c => d)
        /\ run[p].at = "claimed" => n = k + 1
    BY <1>8, <1>9
  <2> HIDE DEF a, n, k, c, d
  <2>5. Less(a + k, d) <= a + k /\ (a + n) - 1 <= Less(a + n, c)
        /\ Less(a + k, d) \in Nat /\ Less(a + n, c) \in Nat
    BY <2>1, <2>2 DEF Less
  <2>6. CASE run[p].at = "claimed"
    BY <2>1, <2>2, <2>3, <2>4, <2>5, <2>6
  <2>7. CASE run[p].at = "unsent"
    <3>1. CASE ~c
      BY <2>1, <2>3, <2>4, <2>5, <2>7, <3>1 DEF Less
    <3>2. CASE c
      BY <2>1, <2>3, <2>4, <2>5, <2>7, <3>2 DEF Less
    <3> QED BY <3>1, <3>2
  <2> QED BY <2>6, <2>7
<1>11. windows' = windows + 0
  BY <1>1 DEF MailTypes
<1> QED BY <1>3, <1>4, <1>6, <1>7, <1>10, <1>11, HandledKeepsMail


\* A lease that ends under its holder is counted; one that nobody holds is not missed.
LEMMA LeaseKeepsMail ==
  ASSUME MailInv, QueueTypes', NEW e \in Events, DeliveryLeaseEnds(e)
  PROVE  MailInv'
<1>1. MailTypes /\ Fenced /\ DebtsAreWindows
  BY DEF MailInv
<1>2. /\ delivery[e].leased /\ UNCHANGED <<run, mails>>
      /\ delivery' = [delivery EXCEPT ![e].leased = FALSE]
      /\ \/ windows' = windows + 1
         \/ ~HeldByProcessor(e) /\ windows' = windows
  BY DEF DeliveryLeaseEnds, Window, NoFault
<1>3. /\ delivery' \in [Events -> Deliveries] /\ ~delivery'[e].leased
      /\ \A x \in Events \ {e} : delivery'[x] = delivery[x]
      /\ \A x \in Events : /\ delivery'[x].attempts = delivery[x].attempts
                           /\ delivery'[x].status = delivery[x].status
                           /\ delivery'[x].leased => delivery[x].leased
  BY <1>1, <1>2 DEF MailTypes, Deliveries
<1>4. MailTypes'
  BY <1>1, <1>2, <1>3 DEF MailTypes
<1>5. Fenced'
  <2>1. LeasedIsQueued' /\ TokensDiffer'
    BY <1>1, <1>2, <1>3 DEF Fenced, LeasedIsQueued, TokensDiffer, Carries, JobOf
  <2>2. \A q \in Processors : Carries(q) => JobOf(q) \in Events
    BY DEF MailInv, QueueTypes, Carries, JobOf
  <2>3. TokensAreNumbers'
    BY <1>1, <1>2, <1>3, <2>2 DEF Fenced, TokensAreNumbers, Carries, JobOf
  <2> QED BY <2>1, <2>3 DEF Fenced
<1>6. \A x \in Events : Sending(x)' = Sending(x)
  BY <1>2 DEF Sending, JobOf
<1>7. ASSUME NEW x \in Events \ {e} PROVE Debt(x)' = Debt(x)
  <2>1. Credit(x)' <=> Credit(x)
    BY <1>2, <1>3 DEF Credit, InCharge, JobOf
  <2> QED BY <1>2, <1>6, <2>1 DEF Debt, Less
<1>8. PICK w \in {0, 1} : windows' = windows + w /\ (w = 0 => ~HeldByProcessor(e))
  BY <1>1, <1>2 DEF MailTypes
<1>9. Debt(e)' <= Debt(e) + w
  <2> DEFINE u == mails[e] + Cardinality(Sending(e))
             c == Credit(e)
             d == Credit(e)'
  <2>1. u \in Nat
    BY <1>1, DebtsAreNatural
  <2>2. Debt(e) = Less(u, c) /\ Debt(e)' = Less(u, d)
    BY <1>2, <1>6 DEF Debt, Less
  <2>3. w = 0 /\ c => d
    <3> SUFFICES ASSUME w = 0, c PROVE d
      OBVIOUS
    <3>1. \A q \in Processors : ~InCharge(q, e)
      BY <1>8 DEF InCharge, HeldByProcessor
    <3> QED BY <1>3, <3>1 DEF Credit
  <2> HIDE DEF u, c, d
  <2>4. Less(u, d) <= u /\ u <= Less(u, c) + 1 /\ Less(u, c) \in Nat /\ Less(u, d) \in Nat
        /\ Less(u, c) <= u
    BY <2>1 DEF Less
  <2>5. CASE w = 1
    BY <2>1, <2>2, <2>4, <2>5
  <2>6. CASE w = 0
    <3>1. CASE ~c
      BY <2>1, <2>2, <2>4, <2>6, <3>1 DEF Less
    <3>2. CASE c
      BY <2>1, <2>2, <2>3, <2>4, <2>6, <3>2 DEF Less
    <3> QED BY <3>1, <3>2
  <2> QED BY <2>5, <2>6
<1>10. DebtsAreWindows'
  BY <1>1, <1>4, <1>7, <1>8, <1>9, OneDebtGrows
<1> QED BY <1>4, <1>5, <1>10 DEF MailInv

LEMMA ProcessKeepsMail ==
  ASSUME MailInv, QueueTypes', NEW p \in Processors, Process(p)
  PROVE  MailInv'
<1>1. MailTypes /\ QueueTypes
  BY DEF MailInv
<1>2. ASSUME NEW e \in Events, StartJob(p, e) PROVE MailInv'
  <2>1. /\ run[p].at = "idle" /\ UNCHANGED <<delivery, mails, windows>>
        /\ run' = [run EXCEPT ![p] = [job |-> e, at |-> "start", token |-> NoToken]]
    BY <1>2 DEF StartJob, JobAt, NoFault
  <2>2. Handles(p, e, "start")
    BY <1>1, <2>1 DEF Handles, QueueTypes
  <2> QED BY <2>1, <2>2, QuietKeepsMail
<1>3. ASSUME NEW e \in Events, JobOf(p) = e, ClaimRefused(p) \/ Revalidate(p)
      PROVE  MailInv'
  <2>1. /\ run[p].at = "start" /\ UNCHANGED <<delivery, mails, windows>>
        /\ run' = [run EXCEPT ![p] = Idle]
    BY <1>3 DEF ClaimRefused, Revalidate, MailAt, CacheAt, JobAt, NoFault, CompleteJob, Leaves
  <2>2. Handles(p, e, "idle")
    BY <1>1, <1>3, <2>1 DEF Handles, QueueTypes, Idle
  <2> QED BY <2>1, <2>2, QuietKeepsMail
<1>4. ASSUME NEW e \in Events, JobOf(p) = e, SendMail(p)
      PROVE  MailInv'
  <2>1. /\ run[p].at = "claimed" /\ run' = [run EXCEPT ![p].at = "sent"]
        /\ mails' = [mails EXCEPT ![e] = @ + 1] /\ UNCHANGED delivery /\ windows' = windows + 0
    BY <1>1, <1>4 DEF SendMail, JobAt, Goes, Mailed, NoFault, MailTypes
  <2> QED BY <1>4, <2>1, SendKeepsMail
<1>5. ASSUME NEW e \in Events, JobOf(p) = e, FinishSent(p)
      PROVE  MailInv'
  <2>1. /\ run[p].at = "sent" /\ run' = [run EXCEPT ![p] = Idle]
        /\ UNCHANGED mails /\ windows' = windows + 0 /\ delivery' = Finished(p, "SENT")
    BY <1>1, <1>5 DEF FinishSent, JobAt, CompleteJob, Leaves, NoFault, MailTypes
  <2>2. Closes(p, e, "SENT")
    BY <1>5, <2>1, FinishedCloses
  <2>3. delivery[e].token = run[p].token /\ delivery[e].status = "QUEUED"
          => delivery'[e].status = "SENT"
    BY <1>1, <1>5, <2>1 DEF Finished, MailTypes, Deliveries
  <2> QED BY <1>5, <2>1, <2>2, <2>3, SentKeepsMail
<1>6. ASSUME NEW e \in Events, JobOf(p) = e, FinishUnsent(p)
      PROVE  MailInv'
  <2>1. /\ run[p].at = "unsent" /\ run' = [run EXCEPT ![p] = Idle]
        /\ UNCHANGED <<mails, windows>> /\ delivery' = Finished(p, "FAILED")
    BY <1>6 DEF FinishUnsent, JobAt, FailJob, Leaves, NoFault
  <2>2. Closes(p, e, "FAILED")
    BY <1>6, <2>1, FinishedCloses
  <2> QED BY <1>6, <2>1, <2>2, UnsentKeepsMail
<1>7. ASSUME run[p].at # "idle" PROVE JobOf(p) \in Events
  BY <1>1, <1>7 DEF QueueTypes, JobOf
<1>8. ClaimRefused(p) \/ Revalidate(p) \/ SendMail(p) \/ FinishSent(p) \/ FinishUnsent(p)
        \/ ClaimDelivery(p) => run[p].at # "idle"
  BY DEF ClaimRefused, Revalidate, SendMail, FinishSent, FinishUnsent, ClaimDelivery, MailAt,
     CacheAt, JobAt
<1> QED BY <1>2, <1>3, <1>4, <1>5, <1>6, <1>7, <1>8, ClaimKeepsMail DEF Process

LEMMA FailureKeepsMail ==
  ASSUME MailInv, QueueTypes', NEW p \in Processors, ProcessingFails(p)
  PROVE  MailInv'
<1>1. MailTypes /\ QueueTypes
  BY DEF MailInv
<1>2. run[p].at # "idle"
  BY DEF ProcessingFails, ReadThrows, SendThrows, FinishThrows, FinishUnsentThrows,
     RevalidateThrows, ProcessorDies, MailAt, CacheAt, JobAt
<1>3. PICK e \in Events : JobOf(p) = e
  BY <1>1, <1>2 DEF QueueTypes, JobOf
<1>4. ASSUME run[p].at = "start", run' = [run EXCEPT ![p] = Idle],
             UNCHANGED <<delivery, mails, windows>>
      PROVE  MailInv'
  <2>1. Handles(p, e, "idle")
    BY <1>1, <1>3, <1>4 DEF Handles, QueueTypes, Idle
  <2> QED BY <1>4, <2>1, QuietKeepsMail
<1>5. ReadThrows(p) \/ RevalidateThrows(p) => MailInv'
  BY <1>4 DEF ReadThrows, RevalidateThrows, MailAt, CacheAt, JobAt, FailJob, Leaves, Closed
<1>6. ASSUME SendThrows(p) PROVE MailInv'
  <2>1. /\ run[p].at = "claimed" /\ run' = [run EXCEPT ![p].at = "unsent"] /\ UNCHANGED delivery
        /\ \/ UNCHANGED <<mails, windows>>
           \/ mails' = [mails EXCEPT ![e] = @ + 1] /\ windows' = windows + 1
    BY <1>3, <1>6 DEF SendThrows, JobAt, Goes, Mailed, Closed, Window
  <2>2. CASE UNCHANGED <<mails, windows>>
    <3>1. mails' = [mails EXCEPT ![e] = @ + 0] /\ windows' = windows + 0
      BY <1>1, <2>2 DEF MailTypes
    <3> QED BY <1>3, <2>1, <3>1, SendKeepsMail
  <2>3. CASE mails' = [mails EXCEPT ![e] = @ + 1] /\ windows' = windows + 1
    BY <1>3, <2>1, <2>3, SendKeepsMail
  <2> QED BY <2>1, <2>2, <2>3
<1>7. ASSUME FinishThrows(p) PROVE MailInv'
  <2>1. /\ run[p].at = "sent" /\ run' = [run EXCEPT ![p].at = "unsent"] /\ UNCHANGED mails
        /\ delivery' \in {delivery, Finished(p, "SENT")} /\ windows' = windows + 1
    BY <1>7 DEF FinishThrows, JobAt, Goes, Window
  <2>2. Closes(p, e, "SENT")
    BY <1>3, <2>1, FinishedCloses
  <2> QED BY <1>3, <2>1, <2>2, CountedKeepsMail
<1>8. ASSUME FinishUnsentThrows(p) PROVE MailInv'
  <2>1. /\ run[p].at = "unsent" /\ run' = [run EXCEPT ![p] = Idle]
        /\ UNCHANGED <<mails, windows>> /\ delivery' \in {delivery, Finished(p, "FAILED")}
    BY <1>8 DEF FinishUnsentThrows, JobAt, FailJob, Leaves, Closed
  <2>2. Closes(p, e, "FAILED")
    BY <1>3, <2>1, FinishedCloses
  <2> QED BY <1>3, <2>1, <2>2, UnsentKeepsMail
<1>9. ASSUME ProcessorDies(p) PROVE MailInv'
  <2>1. /\ run' = [run EXCEPT ![p] = Idle] /\ UNCHANGED <<delivery, mails>>
        /\ IF run[p].at = "sent" THEN windows' = windows + 1 ELSE UNCHANGED windows
    BY <1>9 DEF ProcessorDies, Leaves, JobAt, Window, Closed
  <2>2. run[p].at \in {"start", "claimed", "sent", "unsent"}
    BY <1>1, <1>2 DEF QueueTypes
  <2>3. Closes(p, e, "SENT") /\ Closes(p, e, "FAILED")
    BY <2>1 DEF Closes
  <2>4. CASE run[p].at = "start"
    BY <1>4, <2>1, <2>4
  <2>5. CASE run[p].at = "sent"
    BY <1>3, <2>1, <2>3, <2>5, CountedKeepsMail
  <2>6. CASE run[p].at \in {"claimed", "unsent"}
    BY <1>3, <2>1, <2>3, <2>6, UnsentKeepsMail
  <2> QED BY <2>2, <2>4, <2>5, <2>6
<1> QED BY <1>5, <1>6, <1>7, <1>8, <1>9 DEF ProcessingFails

\* Steps that leave the processors' work, the rows and the mails alone.
LEMMA OthersKeepMail ==
  ASSUME MailInv, QueueTypes', UNCHANGED processorVars
  PROVE  MailInv'
<1>1. UNCHANGED <<run, delivery, mails, windows>>
  BY DEF processorVars
<1>2. MailTypes' /\ Fenced'
  BY <1>1 DEF MailInv, MailTypes, Fenced, LeasedIsQueued, TokensAreNumbers, TokensDiffer,
     Carries, JobOf
<1>3. \A e \in Events : Sending(e)' = Sending(e)
  BY <1>1 DEF Sending, JobOf
<1>4. \A e \in Events : Credit(e)' <=> Credit(e)
  BY <1>1 DEF Credit, InCharge, JobOf
<1>5. \A e \in Events : Debt(e)' = Debt(e)
  BY <1>1, <1>3, <1>4 DEF Debt, Less
<1>6. DebtsAreWindows'
  BY <1>1, <1>5 DEF MailInv, DebtsAreWindows, Debts
<1> QED BY <1>2, <1>6 DEF MailInv

LEMMA NextMailInv == IInv /\ MailInv /\ [Next]_vars => IInv' /\ MailInv'
<1> SUFFICES ASSUME IInv, MailInv, [Next]_vars PROVE IInv' /\ MailInv'
  OBVIOUS
<1>1. IInv'
  BY NextIInv
<1>2. QueueTypes'
  BY <1>1 DEF IInv
<1>3. CASE UNCHANGED processorVars
  BY <1>1, <1>2, <1>3, OthersKeepMail
<1>4. ASSUME NEW e \in Events, StallJob(e) PROVE MailInv'
  <2>1. UNCHANGED processorVars
    BY <1>4 DEF StallJob, processorVars, NoFault, Closed
  <2> QED BY <1>2, <2>1, OthersKeepMail
<1>5. UNCHANGED vars => UNCHANGED processorVars
  BY DEF vars
<1> QED BY <1>1, <1>2, <1>3, <1>4, <1>5, ProcessKeepsMail, FailureKeepsMail, LeaseKeepsMail
        DEF Next

LEMMA InitMailInv == Init => MailInv
<1> SUFFICES ASSUME Init PROVE MailInv
  OBVIOUS
<1>1. QueueTypes
  BY InitIInv DEF IInv
<1>2. MailTypes /\ Fenced /\ windows = 0
  BY DEF Init, MailTypes, Deliveries, NoDelivery, NoToken, Fenced, LeasedIsQueued,
     TokensAreNumbers, TokensDiffer, Carries, Idle
<1>3. ASSUME NEW e \in Events PROVE Debt(e) = 0
  <2>1. Sending(e) = {}
    BY DEF Init, Sending, Idle
  <2>2. Cardinality(Sending(e)) = 0 /\ mails[e] = 0
    BY <2>1, FS_EmptySet DEF Init
  <2> QED BY <2>2 DEF Debt, Less
<1>4. SumFunctionOnSet(Debts, Events) = 0
  <2>1. Debts = [e \in Events |-> 0]
    BY <1>3 DEF Debts
  <2> QED BY <2>1, OutboxAssumption, SumZero
<1> QED BY <1>1, <1>2, <1>4 DEF MailInv, DebtsAreWindows

\* A second copy of a message needs a fault of its own: redeliveries, crashes
\* elsewhere and concurrent processors never cause one, however many there are.
THEOREM CopiesNeedWindows == Spec => []DuplicatesOnlyInWindows
<1>1. Spec => [](IInv /\ MailInv)
  BY InitIInv, InitMailInv, NextMailInv, PTL DEF Spec
<1>2. IInv /\ MailInv => DuplicatesOnlyInWindows
  BY CopiesAreDebt DEF MailInv
<1> QED BY <1>1, <1>2, PTL
=============================================================================
