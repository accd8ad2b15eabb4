---------------------------- MODULE Notifications ----------------------------
(***************************************************************************)
(* NotificationsService, the BullMQ queue it fills, and NotificationWorker *)
(* which empties it.  The queue lives in Redis and survives the process.   *)
(***************************************************************************)
EXTENDS Telemetry

Kinds == {"push_socket", "save_db"}
JobsFor(users, c) == [kind : Kinds, user : users, call : {c}]

\* queue.add is not awaited: each job is added, or its error is logged.
Enqueue(wanted) ==
  \E added \in IF Faults THEN SUBSET wanted ELSE {wanted} :
    jobs' = [j \in Job |-> IF j \in added THEN [NoJob EXCEPT !.at = "waiting"] ELSE jobs[j]]

\* Mutant: every tenant of the house is told.
RecipientsAll(r) == {OwnerOf[r]} \cup Tenants

\* getUserIdsForRoom: the owner and the tenant of the moment.
Recipients(r) == {OwnerOf[r]} \cup ({tenant[r]} \ {None})

\* notifyAlert goes on when its query returns, after the handler has answered.
NotifyAlert(a) ==
  /\ a \in notifying
  /\ Enqueue(JobsFor(Recipients(alerts[a].room), a))
  /\ notifying' = notifying \ {a}
  /\ UNCHANGED <<platform, tenant, witnesses, pushed, inbox, reading, req>>

\* Called by createBill and by the reminder run for one bill; nothing is
\* awaited before the two jobs are added.
NotifyBill(c) ==
  /\ \A j \in Job : j.call = c => jobs[j].at = "none"
  /\ Enqueue(JobsFor({BillTenant[c]}, c))
  /\ UNCHANGED <<platform, tenant, notifying, witnesses, pushed, inbox, reading, req>>

----------------------------------------------------------------------------
(***************************************************************************)
(* The worker runs up to Concurrency jobs at a time.  Between the effect   *)
(* of a job ("worked") and Redis hearing that it is complete, the process  *)
(* may die or the effect's answer may be lost.                             *)
(***************************************************************************)
Move(j, at) == jobs' = [jobs EXCEPT ![j].at = at]
Busy == {j \in Job : jobs[j].at \in {"active", "worked"}}

Take(j) ==
  /\ jobs[j].at = "waiting"
  /\ Cardinality(Busy) < Concurrency
  /\ Move(j, "active")
  /\ UNCHANGED <<platform, tenant, notifying, witnesses, pushed, inbox, reading, req>>

\* handlePushSocket: the events are emitted synchronously.
PushSocket(j) ==
  /\ jobs[j].at = "active" /\ j.kind = "push_socket"
  /\ pushed' = pushed \cup {<<j.user, j.call>>}
  /\ Move(j, "worked")
  /\ UNCHANGED <<platform, tenant, notifying, witnesses, inbox, reading, req>>

Copies(j) == {n \in inbox : n.user = j.user /\ n.call = j.call}

\* Mutants: one notification per user and subject, saved again on a retry; an
\* insert nobody awaits, and which is refused.
SavedUnawaited(j) == inbox
SavedOver(j) ==
  (inbox \ Copies(j)) \cup {[user |-> j.user, call |-> j.call, copy |-> 1, read |-> FALSE]}

\* handleSaveDb creates a document per run: nothing identifies the job in it.
Saved(j) ==
  inbox \cup {[user |-> j.user, call |-> j.call, copy |-> Cardinality(Copies(j)) + 1,
               read |-> FALSE]}

SaveDb(j) ==
  /\ jobs[j].at = "active" /\ j.kind = "save_db"
  /\ inbox' = Saved(j)
  /\ Move(j, "worked")
  /\ UNCHANGED <<platform, tenant, notifying, witnesses, pushed, reading, req>>

Complete(j) ==
  /\ jobs[j].at = "worked"
  /\ Move(j, "completed")
  /\ UNCHANGED <<platform, tenant, notifying, witnesses, pushed, inbox, reading, req>>

\* Mutants: a failed job is retried for ever, or counts as done in the end; a
\* stalled one is forgotten.
RetriedAlways(job) == [job EXCEPT !.at = "waiting"]
RetriedDone(job) ==
  IF job.failures + 1 < Attempts
  THEN [job EXCEPT !.at = "waiting", !.failures = @ + 1]
  ELSE [job EXCEPT !.at = "completed", !.failures = @ + 1]
RecoverLost(j) == FALSE /\ UNCHANGED vars

\* attempts: 3 - the third failure is final.
Retried(job) ==
  IF job.failures + 1 < Attempts
  THEN [job EXCEPT !.at = "waiting", !.failures = @ + 1]
  ELSE [job EXCEPT !.at = "failed", !.failures = @ + 1]

\* The insert is refused, or made and its answer lost: the handler throws.
\* Emitting never throws.
JobFails(j) ==
  /\ Faults
  /\ jobs[j].at \in {"active", "worked"} /\ j.kind = "save_db"
  /\ jobs' = [jobs EXCEPT ![j] = Retried(jobs[j])]
  /\ UNCHANGED <<platform, tenant, notifying, witnesses, pushed, inbox, reading, req>>

\* BullMQ lets a job stall once.
Recovered(job) ==
  IF job.stalls < MaxStalled
  THEN [job EXCEPT !.at = "waiting", !.stalls = @ + 1]
  ELSE [job EXCEPT !.at = "failed"]

\* The lock of a job whose worker died runs out.
Recover(j) ==
  /\ jobs[j].at = "stalled"
  /\ jobs' = [jobs EXCEPT ![j] = Recovered(jobs[j])]
  /\ UNCHANGED <<platform, tenant, notifying, witnesses, pushed, inbox, reading, req>>

Run(j) == Take(j) \/ PushSocket(j) \/ SaveDb(j) \/ Complete(j) \/ Recover(j)

----------------------------------------------------------------------------
\* markAsRead: a notification of the caller's own; the query names the user.
MarkAsRead(n, u) ==
  /\ n.user = u /\ ~n.read
  /\ inbox' = (inbox \ {n}) \cup {[n EXCEPT !.read = TRUE]}
  /\ UNCHANGED <<platform, tenant, notifying, witnesses, jobs, pushed, reading, req>>

MarkAllAsRead(u) ==
  /\ \E n \in inbox : n.user = u /\ ~n.read
  /\ inbox' = {IF n.user = u THEN [n EXCEPT !.read = TRUE] ELSE n : n \in inbox}
  /\ UNCHANGED <<platform, tenant, notifying, witnesses, jobs, pushed, reading, req>>
=============================================================================
