---------------------------- MODULE OutboxPromise ----------------------------
(***************************************************************************)
(* What the outbox promises the business transactions that write to it,    *)
(* whatever crashes, refused calls and expired leases happen behind it:    *)
(* one job for a committed event, before the event is marked published; an *)
(* event set aside has no job; a job is settled once, and no mark is ever  *)
(* taken back.  The dispatchers, their claims and the queue do not appear. *)
(***************************************************************************)
CONSTANT Events

VARIABLES
  mark,    \* "absent", "pending", "published" or "quarantined"
  work     \* "none", "queued", "done" or "given up": the job of the event

vars == <<mark, work>>

Init ==
  /\ mark = [e \in Events |-> "absent"]
  /\ work = [e \in Events |-> "none"]

Commit(e) ==
  /\ mark[e] = "absent"
  /\ mark' = [mark EXCEPT ![e] = "pending"]
  /\ UNCHANGED work

\* The events of one batch may be claimed and settled by several dispatchers,
\* but each of them is enqueued once.
Enqueue(e) ==
  /\ mark[e] = "pending" /\ work[e] = "none"
  /\ work' = [work EXCEPT ![e] = "queued"]
  /\ UNCHANGED mark

Publish(e) ==
  /\ mark[e] = "pending" /\ work[e] # "none"
  /\ mark' = [mark EXCEPT ![e] = "published"]
  /\ UNCHANGED work

Quarantine(e) ==
  /\ mark[e] = "pending" /\ work[e] = "none"
  /\ mark' = [mark EXCEPT ![e] = "quarantined"]
  /\ UNCHANGED work

\* A job may be settled before its event is marked.
Settle(e) ==
  /\ work[e] = "queued"
  /\ \E result \in {"done", "given up"} : work' = [work EXCEPT ![e] = result]
  /\ UNCHANGED mark

Next == \E e \in Events : Commit(e) \/ Enqueue(e) \/ Publish(e) \/ Quarantine(e) \/ Settle(e)

Spec == Init /\ [][Next]_vars
=============================================================================
