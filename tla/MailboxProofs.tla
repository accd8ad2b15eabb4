---------------------------- MODULE MailboxProofs ----------------------------
(***************************************************************************)
(* Theorems about the queue, the worker and the notifications collection:  *)
(* how often a notification is saved, that a completed job had its effect, *)
(* that reading lasts, and that the whole is a Mailbox.                    *)
(***************************************************************************)
EXTENDS MonitoringProofs

\* The notifications of a user about a subject, in a collection.
OfIn(box, u, c) == {n \in box : n.user = u /\ n.call = c}

\* The copies of one subject are numbered as they were saved.
Numbered(box) ==
  /\ \A n, m \in box : n.user = m.user /\ n.call = m.call /\ n.copy = m.copy => n = m
  /\ \A n \in box : n.copy <= Cardinality(OfIn(box, n.user, n.call))

\* How many copies there may be at each place of a save job: one for each failure
\* and each stall so far, one more after an effect BullMQ has not heard of.
Within(job, copies) ==
  /\ job.at = "none" => copies = 0
  /\ job.at \in {"waiting", "active"} => copies <= job.failures + job.stalls
  /\ job.at \in {"worked", "stalled", "completed"} => copies <= job.failures + job.stalls + 1
  /\ job.at = "failed" => copies <= Attempts + MaxStalled
  /\ job.at \in {"worked", "completed"} => copies # 0

Delivered ==
  \A j \in Job :
    /\ j.kind = "save_db" => Within(jobs[j], Cardinality(OfIn(inbox, j.user, j.call)))
    /\ j.kind = "push_socket" /\ jobs[j].at \in {"worked", "completed"} => <<j.user, j.call>> \in pushed

IMailbox == IMonitoring /\ Numbered(inbox) /\ Delivered

----------------------------------------------------------------------------
(***************************************************************************)
(* What happens to the collection: a copy is added with the next number,   *)
(* or some notifications become read.                                      *)
(***************************************************************************)
LEMMA CountOf ==
  ASSUME NEW box, IsFiniteSet(box), NEW u, NEW c
  PROVE  IsFiniteSet(OfIn(box, u, c)) /\ Cardinality(OfIn(box, u, c)) \in Nat
<1>1. OfIn(box, u, c) \in SUBSET box
  BY DEF OfIn
<1> QED BY <1>1, FS_Subset, FS_CardinalityType

LEMMA Added ==
  ASSUME NEW box, box \subseteq Note, IsFiniteSet(box), Numbered(box), NEW u \in UserId, NEW c \in Call,
         NEW k \in Nat, k = Cardinality(OfIn(box, u, c)), NEW n \in Note,
         n.user = u, n.call = c, n.copy = k + 1
  PROVE  /\ Numbered(box \cup {n})
         /\ Cardinality(OfIn(box \cup {n}, u, c)) = k + 1
         /\ \A v, d : v # u \/ d # c => OfIn(box \cup {n}, v, d) = OfIn(box, v, d)
<1> DEFINE box2 == box \cup {n}
<1>1. \A m \in OfIn(box, u, c) : m.copy <= k /\ m.copy \in Nat
  BY DEF Numbered, OfIn, Note
<1>2. n \notin OfIn(box, u, c)
  BY <1>1
<1>3. OfIn(box2, u, c) = OfIn(box, u, c) \cup {n}
  BY DEF OfIn
<1>4. Cardinality(OfIn(box2, u, c)) = k + 1
  BY <1>2, <1>3, CountOf, FS_AddElement
<1>5. \A v, d : v # u \/ d # c => OfIn(box2, v, d) = OfIn(box, v, d)
  BY DEF OfIn
<1>6. ASSUME NEW m \in box2, NEW l \in box2, m.user = l.user, m.call = l.call, m.copy = l.copy
      PROVE  m = l
  <2>1. m \in box /\ m.user = u /\ m.call = c => m.copy # k + 1
    BY <1>1 DEF OfIn
  <2>2. l \in box /\ l.user = u /\ l.call = c => l.copy # k + 1
    BY <1>1 DEF OfIn
  <2> QED BY <1>6, <2>1, <2>2 DEF Numbered
<1>7. ASSUME NEW m \in box2 PROVE m.copy <= Cardinality(OfIn(box2, m.user, m.call))
  <2>1. CASE m.user = u /\ m.call = c
    <3>1. m = n \/ m \in OfIn(box, u, c)
      BY <2>1 DEF OfIn
    <3> QED BY <1>1, <1>4, <2>1, <3>1
  <2>2. CASE m.user # u \/ m.call # c
    <3>1. m \in box
      BY <2>2
    <3> QED BY <1>5, <2>2, <3>1 DEF Numbered
  <2> QED BY <2>1, <2>2
<1> QED BY <1>4, <1>5, <1>6, <1>7 DEF Numbered

\* Some notifications become read; f says what each becomes.
Rereads(box, box2, f) ==
  /\ box2 = {f[n] : n \in box}
  /\ \A n \in box : /\ f[n] \in Note /\ f[n].user = n.user /\ f[n].call = n.call /\ f[n].copy = n.copy
                    /\ f[n] \in {n, [n EXCEPT !.read = TRUE]}

LEMMA Reread ==
  ASSUME NEW box, box \subseteq Note, IsFiniteSet(box), Numbered(box), NEW box2, NEW f, Rereads(box, box2, f)
  PROVE  /\ Numbered(box2)
         /\ \A v, d : Cardinality(OfIn(box2, v, d)) = Cardinality(OfIn(box, v, d))
<1>1. ASSUME NEW v, NEW d PROVE Cardinality(OfIn(box2, v, d)) = Cardinality(OfIn(box, v, d))
  <2> DEFINE S == OfIn(box, v, d)
             T == OfIn(box2, v, d)
             g == [n \in S |-> f[n]]
  <2>1. \A n \in S : f[n] \in T
    BY DEF Rereads, OfIn
  <2>2. \A m \in T : \E n \in S : f[n] = m
    BY DEF Rereads, OfIn
  <2>3. \A n, m \in S : f[n] = f[m] => n = m
    BY DEF Rereads, OfIn, Numbered
  <2>4. IsFiniteSet(S)
    BY CountOf
  <2> HIDE DEF S, T
  <2>5. g \in Bijection(S, T)
    BY <2>1, <2>2, <2>3 DEF Bijection, Injection, Surjection, IsInjective
  <2>6. ExistsBijection(S, T)
    BY <2>5 DEF ExistsBijection
  <2>7. Cardinality(T) = Cardinality(S)
    BY <2>4, <2>6, FS_Bijection
  <2> QED BY <2>7 DEF S, T
<1>2. \A n, m \in box2 : n.user = m.user /\ n.call = m.call /\ n.copy = m.copy => n = m
  BY DEF Rereads, Numbered
<1>3. \A n \in box2 : n.copy <= Cardinality(OfIn(box2, n.user, n.call))
  BY <1>1 DEF Rereads, Numbered
<1> QED BY <1>1, <1>2, <1>3 DEF Numbered

LEMMA ReadingRereads ==
  ASSUME InboxTypes, NEW u \in UserId, MarkAllAsRead(u) \/ \E n \in inbox : MarkAsRead(n, u)
  PROVE  \E f : Rereads(inbox, inbox', f)
<1>1. CASE MarkAllAsRead(u)
  <2> DEFINE f == [n \in inbox |-> IF n.user = u THEN [n EXCEPT !.read = TRUE] ELSE n]
  <2>1. inbox' = {f[n] : n \in inbox}
    BY <1>1 DEF MarkAllAsRead
  <2>2. \A n \in inbox : f[n] \in {n, [n EXCEPT !.read = TRUE]}
    OBVIOUS
  <2> HIDE DEF f
  <2>3. ASSUME NEW n \in inbox
        PROVE  f[n] \in Note /\ f[n].user = n.user /\ f[n].call = n.call /\ f[n].copy = n.copy
    <3> DEFINE r == [n EXCEPT !.read = TRUE]
    <3>1. n \in Note /\ r \in Note /\ r.user = n.user /\ r.call = n.call /\ r.copy = n.copy
      BY ReadNote DEF InboxTypes
    <3>2. f[n] \in {n, r}
      BY <2>2
    <3> HIDE DEF r
    <3> QED BY <3>1, <3>2
  <2> QED BY <2>1, <2>2, <2>3 DEF Rereads
<1>2. ASSUME NEW n \in inbox, MarkAsRead(n, u) PROVE \E f : Rereads(inbox, inbox', f)
  <2> DEFINE r == [n EXCEPT !.read = TRUE]
             f == [m \in inbox |-> IF m = n THEN r ELSE m]
  <2>1. inbox' = (inbox \ {n}) \cup {r}
    BY <1>2 DEF MarkAsRead
  <2>2. r \in Note /\ r.user = n.user /\ r.call = n.call /\ r.copy = n.copy
    BY ReadNote DEF InboxTypes
  <2> HIDE DEF r
  <2>3. f[n] = r /\ \A m \in inbox : m # n => f[m] = m
    OBVIOUS
  <2> HIDE DEF f
  <2>4. inbox' = {f[m] : m \in inbox}
    BY <2>1, <2>3
  <2>5. \A m \in inbox : f[m] \in {m, [m EXCEPT !.read = TRUE]}
    BY <2>3 DEF r
  <2> QED BY <2>2, <2>3, <2>4, <2>5 DEF Rereads, InboxTypes
<1> QED BY <1>1, <1>2

----------------------------------------------------------------------------
(***************************************************************************)
(* The steps, as the jobs and the collection see them.                     *)
(***************************************************************************)
Reads == \E u \in UserId : MarkAllAsRead(u) \/ \E n \in inbox : MarkAsRead(n, u)

\* New jobs are queued, none that was queued before.
Announces ==
  /\ UNCHANGED <<pushed, inbox>>
  /\ \A j \in Job : jobs'[j] = jobs[j] \/ (jobs[j].at = "none" /\ jobs'[j] = NewJob)

Stalls ==
  /\ UNCHANGED <<pushed, inbox>>
  /\ \A j \in Job : \/ jobs'[j] = jobs[j]
                    \/ /\ jobs[j].at \in {"active", "worked"} /\ jobs'[j].at = "stalled"
                       /\ jobs'[j].failures = jobs[j].failures /\ jobs'[j].stalls = jobs[j].stalls

LEMMA NotifyAnnounces ==
  ASSUME IMonitoring, (\E a \in Slot : NotifyAlert(a)) \/ (\E c \in BillCall : NotifyBill(c))
  PROVE  Announces
<1>0. jobs \in [Job -> JobState]
  BY DEF IMonitoring, JobsOK
<1>1. ASSUME NEW a \in Slot, NotifyAlert(a) PROVE Announces
  <2> DEFINE W == JobsFor(Recipients(alerts[a].room), a)
  <2>1. a \in notifying /\ Enqueue(W) /\ UNCHANGED <<pushed, inbox>>
    BY <1>1 DEF NotifyAlert
  <2>2. \A j \in W : j.call = a
    BY DEF JobsFor
  <2>3. \A j \in Job : j \in W => jobs[j].at = "none"
    BY <2>1, <2>2 DEF IMonitoring, JobsOK
  <2> HIDE DEF W
  <2> QED BY <1>0, <2>1, <2>3, Enqueued DEF Announces
<1>2. ASSUME NEW c \in BillCall, NotifyBill(c) PROVE Announces
  <2> DEFINE W == JobsFor({BillTenant[c]}, c)
  <2>1. Enqueue(W) /\ UNCHANGED <<pushed, inbox>> /\ \A j \in Job : j.call = c => jobs[j].at = "none"
    BY <1>2 DEF NotifyBill
  <2>2. \A j \in W : j.call = c
    BY DEF JobsFor
  <2> HIDE DEF W
  <2> QED BY <1>0, <2>1, <2>2, Enqueued DEF Announces
<1> QED BY <1>1, <1>2

LEMMA CrashStalls == ASSUME IMonitoring, Crash PROVE Stalls
<1>1. \A j \in Job : /\ [jobs[j] EXCEPT !.at = "stalled"].at = "stalled"
                     /\ [jobs[j] EXCEPT !.at = "stalled"].failures = jobs[j].failures
                     /\ [jobs[j] EXCEPT !.at = "stalled"].stalls = jobs[j].stalls
  BY DEF IMonitoring, JobsOK, JobState
<1>2. \A j \in Job : jobs'[j] = jobs[j]
        \/ (jobs[j].at \in {"active", "worked"} /\ jobs'[j] = [jobs[j] EXCEPT !.at = "stalled"])
  BY DEF Crash, Busy
<1> QED BY <1>1, <1>2 DEF Stalls, Crash

LEMMA MailboxCases ==
  ASSUME IMonitoring, [Next]_vars
  PROVE  \/ UNCHANGED <<jobs, pushed>> /\ (inbox' = inbox \/ Reads)
         \/ Announces \/ Stalls
         \/ \E j \in Job : Run(j) \/ JobFails(j)
<1>1. ASSUME NEW s \in Slot, Arrive(s) \/ Step(s) \/ CallFails(s) PROVE UNCHANGED <<jobs, pushed, inbox>>
  BY <1>1 DEF Arrive, Step, DevicesBegin, StatusBegin, ControlBegin, ResolveBegin, Begin, CallFails,
    DevicesStep, AlertsStep, StatusDevice, StatusLog, StatusUpdate, StatusAlert, StatusEmit,
    ControlDevice, ControlLog, ControlUpdate, ControlEmit, ResolveFind, ResolveRoom, ResolveUpdate,
    delivery
<1>2. ASSUME NEW u \in UserId, MarkAllAsRead(u) \/ \E n \in inbox : MarkAsRead(n, u)
      PROVE  UNCHANGED <<jobs, pushed>> /\ Reads
  BY <1>2 DEF MarkAllAsRead, MarkAsRead, Reads
<1>3. ASSUME NEW u \in Reader, OpenList(u) \/ ListQuery(u) \/ CountQuery(u) \/ Shown(u) \/ ListFails(u)
      PROVE  UNCHANGED <<jobs, pushed, inbox>>
  BY <1>3 DEF OpenList, ListQuery, CountQuery, Shown, ListFails, others
<1>4. (\E r \in RoomId : TenantChanges(r)) \/ UNCHANGED vars => UNCHANGED <<jobs, pushed, inbox>>
  BY DEF TenantChanges, delivery, vars
<1> QED BY <1>1, <1>2, <1>3, <1>4, NotifyAnnounces, CrashStalls, StepCases DEF JobStep, ListStep

----------------------------------------------------------------------------
LEMMA MailboxInit == Init => IMailbox
<1> SUFFICES ASSUME Init PROVE IMailbox
  OBVIOUS
<1>1. \A u, c : OfIn(inbox, u, c) = {}
  BY DEF Init, OfIn
<1>2. Numbered(inbox)
  BY DEF Init, Numbered
<1>3. Delivered
  BY <1>1, FS_EmptySet DEF Init, Delivered, Within, NoJob
<1> QED BY <1>2, <1>3, MonitoringInit DEF IMailbox

\* A job that goes on, seen from the copies.
LEMMA WorkedWithin ==
  ASSUME IMailbox, NEW j \in Job, Run(j) \/ JobFails(j), j.kind = "save_db" => ~SaveDb(j),
         NEW k \in Nat, Within(jobs[j], k)
  PROVE  j.kind = "save_db" => Within(jobs'[j], k)
<1> SUFFICES ASSUME j.kind = "save_db" PROVE Within(jobs'[j], k)
  OBVIOUS
<1> DEFINE job == jobs[j]
<1>1. /\ job.failures \in Nat /\ job.stalls \in Nat /\ job.stalls <= MaxStalled
      /\ Attempts \in Nat /\ MaxStalled \in Nat /\ jobs \in [Job -> JobState]
      /\ job.at # "failed" => job.failures < Attempts
  BY WorkerAssumption DEF IMailbox, IMonitoring, JobsOK, JobState
<1>2. \A at, f, s : Becomes(j, at, f, s) =>
        jobs'[j].at = at /\ jobs'[j].failures = f /\ jobs'[j].stalls = s
  BY <1>1 DEF Becomes
<1>3. ~PushSocket(j)
  BY DEF PushSocket
<1>4. CASE Take(j)
  BY <1>1, <1>2, <1>4, Worked DEF Within
<1>5. CASE Complete(j)
  BY <1>1, <1>2, <1>5, Worked DEF Within
<1>6. CASE JobFails(j)
  <2>1. CASE job.failures + 1 < Attempts
    BY <1>1, <1>2, <1>6, <2>1, Worked DEF Within
  <2>2. CASE ~(job.failures + 1 < Attempts)
    BY <1>1, <1>2, <1>6, <2>2, Worked DEF Within
  <2> QED BY <2>1, <2>2
<1>7. CASE Recover(j)
  <2>1. CASE job.stalls < MaxStalled
    BY <1>1, <1>2, <1>7, <2>1, Worked DEF Within
  <2>2. CASE ~(job.stalls < MaxStalled)
    BY <1>1, <1>2, <1>7, <2>2, Worked DEF Within
  <2> QED BY <2>1, <2>2
<1> QED BY <1>3, <1>4, <1>5, <1>6, <1>7 DEF Run

\* What a saved copy changes: only the count of its own job.
LEMMA SaveAdds ==
  ASSUME IMailbox, NEW j \in Job, SaveDb(j)
  PROVE  LET k == Cardinality(OfIn(inbox, j.user, j.call)) IN
         /\ k \in Nat /\ Numbered(inbox')
         /\ Cardinality(OfIn(inbox', j.user, j.call)) = k + 1
         /\ \A i \in Job : i.kind = "save_db" /\ i # j =>
              OfIn(inbox', i.user, i.call) = OfIn(inbox, i.user, i.call)
<1> DEFINE k == Cardinality(OfIn(inbox, j.user, j.call))
           n == [user |-> j.user, call |-> j.call, copy |-> k + 1, read |-> FALSE]
<1>1. InboxTypes /\ inbox \subseteq Note /\ IsFiniteSet(inbox) /\ Numbered(inbox)
  BY DEF IMailbox, IMonitoring, InboxTypes
<1>2. Copies(j) = OfIn(inbox, j.user, j.call)
  BY DEF Copies, OfIn
<1>3. k \in Nat /\ n \in Note /\ n.user = j.user /\ n.call = j.call /\ n.copy = k + 1
  BY <1>1, <1>2, Copied
<1>4. inbox' = inbox \cup {n}
  BY <1>2 DEF SaveDb, Saved
<1>5. j.user \in UserId /\ j.call \in Call /\ j.kind = "save_db"
  BY DEF Job, SaveDb
<1> HIDE DEF n
<1>6. /\ Numbered(inbox')
      /\ Cardinality(OfIn(inbox', j.user, j.call)) = k + 1
      /\ \A v, d : v # j.user \/ d # j.call => OfIn(inbox', v, d) = OfIn(inbox, v, d)
  BY <1>1, <1>3, <1>4, <1>5, Added
<1>7. \A i \in Job : i.kind = "save_db" /\ i # j => i.user # j.user \/ i.call # j.call
  BY <1>5 DEF Job
<1> QED BY <1>3, <1>6, <1>7

LEMMA MailboxNext == IMailbox /\ [Next]_vars => IMailbox'
<1> SUFFICES ASSUME IMailbox, [Next]_vars PROVE IMailbox'
  OBVIOUS
<1> DEFINE Count(box, i) == Cardinality(OfIn(box, i.user, i.call))
           Good2 == Numbered(inbox') /\ Delivered'
<1>0. IMonitoring /\ Numbered(inbox) /\ inbox \subseteq Note /\ IsFiniteSet(inbox)
  BY DEF IMailbox, IMonitoring, InboxTypes
<1>1. \A i \in Job :
        /\ Count(inbox, i) \in Nat
        /\ i.kind = "save_db" => Within(jobs[i], Count(inbox, i))
        /\ i.kind = "push_socket" /\ jobs[i].at \in {"worked", "completed"} => <<i.user, i.call>> \in pushed
  BY <1>0, CountOf DEF IMailbox, Delivered
<1>2. ASSUME UNCHANGED <<jobs, pushed>>, inbox' = inbox \/ Reads PROVE Good2
  <2>0. inbox' = inbox \/ \E f : Rereads(inbox, inbox', f)
    BY <1>0, <1>2, ReadingRereads DEF Reads, IMonitoring
  <2>1. Numbered(inbox') /\ \A i \in Job : Count(inbox', i) = Count(inbox, i)
    BY <1>0, <2>0, Reread
  <2> QED BY <1>1, <1>2, <2>1 DEF Delivered
<1>3. ASSUME Announces PROVE Good2
  <2>1. \A i \in Job : i.kind = "save_db" => Within(jobs'[i], Count(inbox, i))
    <3> SUFFICES ASSUME NEW i \in Job, i.kind = "save_db" PROVE Within(jobs'[i], Count(inbox, i))
      OBVIOUS
    <3>1. jobs[i].at = "none" => Count(inbox, i) = 0
      BY <1>1 DEF Within
    <3>2. Within(NewJob, 0)
      BY DEF Within, NewJob
    <3> QED BY <1>1, <1>3, <3>1, <3>2 DEF Announces
  <2>2. \A i \in Job : i.kind = "push_socket" /\ jobs'[i].at \in {"worked", "completed"}
                          => <<i.user, i.call>> \in pushed
    BY <1>1, <1>3 DEF Announces, NewJob
  <2> QED BY <1>0, <1>3, <2>1, <2>2 DEF Announces, Delivered
<1>4. ASSUME Stalls PROVE Good2
  <2>1. ASSUME NEW i \in Job, i.kind = "save_db" PROVE Within(jobs'[i], Count(inbox, i))
    <3>1. jobs[i].failures \in Nat /\ jobs[i].stalls \in Nat
      BY <1>0, WorkerAssumption DEF IMonitoring, JobsOK, JobState
    <3>2. \A k \in Nat : Within(jobs[i], k) => Within(jobs'[i], k)
      BY <1>4, <3>1 DEF Stalls, Within
    <3> QED BY <1>1, <2>1, <3>2
  <2>2. \A i \in Job : i.kind = "push_socket" /\ jobs'[i].at \in {"worked", "completed"}
                          => <<i.user, i.call>> \in pushed
    BY <1>1, <1>4 DEF Stalls
  <2> QED BY <1>0, <1>4, <2>1, <2>2 DEF Stalls, Delivered
<1>5. ASSUME NEW j \in Job, Run(j) \/ JobFails(j) PROVE Good2
  <2>1. jobs \in [Job -> JobState] /\ Good(jobs[j])
    BY <1>0 DEF IMonitoring, JobsOK, Good
  <2>2. \A i \in Job : i # j => jobs'[i] = jobs[i]
    BY <1>5, <2>1, JobAdvances DEF Advances
  <2>3. CASE SaveDb(j)
    <3>1. pushed' = pushed /\ j.kind = "save_db" /\ jobs[j].at = "active"
          /\ Becomes(j, "worked", jobs[j].failures, jobs[j].stalls)
      BY <2>1, <2>3, Worked DEF SaveDb
    <3>2. /\ jobs'[j].at = "worked"
          /\ jobs'[j].failures = jobs[j].failures /\ jobs'[j].stalls = jobs[j].stalls
          /\ jobs[j].failures \in Nat /\ jobs[j].stalls \in Nat
      BY <2>1, <3>1, WorkerAssumption DEF Becomes, JobState
    <3>3. /\ Numbered(inbox') /\ Count(inbox', j) = Count(inbox, j) + 1
          /\ \A i \in Job : i.kind = "save_db" /\ i # j => Count(inbox', i) = Count(inbox, i)
      BY <2>3, SaveAdds
    <3>4. Within(jobs'[j], Count(inbox', j))
      <4>1. \A k \in Nat : Within(jobs[j], k) => Within(jobs'[j], k + 1)
        BY <3>1, <3>2 DEF Within
      <4> QED BY <1>1, <3>1, <3>3, <4>1
    <3> QED BY <1>1, <2>2, <3>1, <3>3, <3>4 DEF Delivered
  <2>4. CASE ~SaveDb(j)
    <3>1. inbox' = inbox
      BY <1>5, <2>4 DEF Run, Take, PushSocket, Complete, Recover, JobFails
    <3>2. \A i \in Job : i.kind = "save_db" => Within(jobs'[i], Count(inbox, i))
      BY <1>1, <1>5, <2>2, <2>4, WorkedWithin
    <3>3. pushed \subseteq pushed'
      BY <1>5 DEF Run, Take, PushSocket, SaveDb, Complete, Recover, JobFails
    <3>4. j.kind = "push_socket" /\ jobs'[j].at \in {"worked", "completed"} => <<j.user, j.call>> \in pushed'
      <4>1. \A at, f, s : Becomes(j, at, f, s) => jobs'[j].at = at
        BY <2>1 DEF Becomes
      <4>2. CASE PushSocket(j)
        BY <4>2 DEF PushSocket
      <4>3. CASE Complete(j)
        BY <1>1, <2>1, <3>3, <4>3, Worked
      <4>4. CASE Take(j) \/ JobFails(j) \/ Recover(j)
        <5>1. jobs'[j].at \in {"active", "waiting", "failed"}
          BY <2>1, <4>1, <4>4, Worked
        <5> QED BY <5>1
      <4> QED BY <1>5, <2>4, <4>2, <4>3, <4>4 DEF Run
    <3>5. \A i \in Job : i.kind = "push_socket" /\ jobs'[i].at \in {"worked", "completed"}
                            => <<i.user, i.call>> \in pushed'
      BY <1>1, <2>2, <3>3, <3>4
    <3> QED BY <1>0, <3>1, <3>2, <3>5 DEF Delivered
  <2> QED BY <2>3, <2>4
<1>6. Good2
  BY <1>0, <1>2, <1>3, <1>4, <1>5, MailboxCases
<1> QED BY <1>0, <1>6, MonitoringNext DEF IMailbox

LEMMA MailboxInduction == Spec => []IMailbox
BY MailboxInit, MailboxNext, PTL DEF Spec

----------------------------------------------------------------------------
LEMMA CopiesOf ==
  ASSUME IMailbox, NEW j \in Job, j.kind = "save_db"
  PROVE  /\ Within(jobs[j], Cardinality(Copies(j))) /\ Cardinality(Copies(j)) \in Nat
         /\ Copies(j) = {} => Cardinality(Copies(j)) = 0
<1>1. Copies(j) = OfIn(inbox, j.user, j.call)
  BY DEF Copies, OfIn
<1>2. IsFiniteSet(inbox)
  BY DEF IMailbox, IMonitoring, InboxTypes
<1> QED BY <1>1, <1>2, CountOf, FS_EmptySet DEF IMailbox, Delivered

\* A job BullMQ counts as completed was emitted, or saved a notification that is
\* still in the list.
THEOREM CompletionCorrect == Spec => []CompletedDelivered
<1>1. IMailbox => CompletedDelivered
  <2> SUFFICES ASSUME IMailbox, NEW j \in Job, jobs[j].at = "completed"
               PROVE  IF j.kind = "save_db" THEN Copies(j) # {} ELSE <<j.user, j.call>> \in pushed
    BY DEF CompletedDelivered
  <2>1. j.kind = "save_db" => Copies(j) # {}
    BY CopiesOf DEF Within
  <2>2. j.kind = "push_socket" => <<j.user, j.call>> \in pushed
    BY DEF IMailbox, Delivered
  <2> QED BY <2>1, <2>2 DEF Job
<1> QED BY <1>1, MailboxInduction, PTL

\* However the worker fails, stalls and dies, a notification is saved at most
\* once per attempt and per tolerated stall.
THEOREM CopiesCorrect == Spec => []CopiesBounded
<1>1. IMailbox => CopiesBounded
  <2> SUFFICES ASSUME IMailbox, NEW j \in Job, j.kind = "save_db"
               PROVE  Cardinality(Copies(j)) <= Attempts + MaxStalled
    BY DEF CopiesBounded
  <2>1. /\ jobs[j] \in JobState /\ jobs[j].failures \in Nat /\ jobs[j].stalls \in Nat
        /\ jobs[j].stalls <= MaxStalled /\ Attempts \in Nat /\ MaxStalled \in Nat
        /\ jobs[j].at # "failed" => jobs[j].failures < Attempts
    BY WorkerAssumption DEF IMailbox, IMonitoring, JobsOK, JobState
  <2>2. \A k \in Nat : Within(jobs[j], k) => k <= Attempts + MaxStalled
    BY <2>1 DEF Within, JobState
  <2> QED BY <2>2, CopiesOf
<1> QED BY <1>1, MailboxInduction, PTL

LEMMA ReadIs == ASSUME NEW n \in Note, n.read PROVE [n EXCEPT !.read = TRUE] = n
BY DEF Note

\* What the user has read stays in the list and stays read, whatever the worker
\* redelivers; what is unread stays too, or becomes read.
THEOREM ReadingCorrect == Spec => ReadStays
<1> DEFINE Stays(n) == [n EXCEPT !.read = TRUE] \in inbox' \/ (~n.read /\ n \in inbox')
<1>1. ASSUME IMailbox, [Next]_vars, NEW n \in inbox PROVE Stays(n)
  <2>1. n \in Note /\ InboxTypes /\ n.read \in BOOLEAN
    BY <1>1 DEF IMailbox, IMonitoring, InboxTypes, Note
  <2>2. n \in inbox' => Stays(n)
    BY <2>1, ReadIs
  <2>3. CASE Reads
    <3>1. PICK f : Rereads(inbox, inbox', f)
      BY <2>1, <2>3, ReadingRereads DEF Reads
    <3>2. f[n] \in inbox' /\ f[n] \in {n, [n EXCEPT !.read = TRUE]}
      BY <3>1 DEF Rereads
    <3> QED BY <2>2, <3>2
  <2>4. ASSUME NEW j \in Job, Run(j) \/ JobFails(j) PROVE n \in inbox'
    BY <2>4 DEF Run, Take, PushSocket, SaveDb, Saved, Complete, Recover, JobFails
  <2>5. Announces \/ Stalls => n \in inbox'
    BY DEF Announces, Stalls
  <2> QED BY <1>1, <2>2, <2>3, <2>4, <2>5, MailboxCases DEF IMailbox
<1>2. IMailbox /\ [Next]_vars => [\A n \in inbox : Stays(n)]_vars
  BY <1>1
<1> QED BY <1>2, MailboxInduction, PTL DEF Spec, ReadStays

----------------------------------------------------------------------------
(***************************************************************************)
(* The refinement.  A pair is where its save job is.                       *)
(***************************************************************************)
Pairs == UserId \X Call
SaveJob(p) == [kind |-> "save_db", user |-> p[1], call |-> p[2]]
Placed(js, places) == {p \in Pairs : js[SaveJob(p)].at \in places}

LEMMA SaveJobs ==
  /\ \A p \in Pairs : /\ SaveJob(p) \in Job /\ SaveJob(p).kind = "save_db"
                      /\ SaveJob(p).user = p[1] /\ SaveJob(p).call = p[2]
  /\ \A j \in Job : j.kind = "save_db" =>
       <<j.user, j.call>> \in Pairs /\ SaveJob(<<j.user, j.call>>) = j
  /\ \A p, r \in Pairs : SaveJob(p) = SaveJob(r) => p = r
BY DEF Pairs, SaveJob, Job

PlacedBy(js, places) ==
  {<<j.user, j.call>> : j \in {i \in Job : i.kind = "save_db" /\ js[i].at \in places}}

LEMMA PlacedPairs == ASSUME NEW js, NEW places PROVE PlacedBy(js, places) = Placed(js, places)
<1>1. ASSUME NEW p \in PlacedBy(js, places) PROVE p \in Placed(js, places)
  <2>1. PICK j \in Job : j.kind = "save_db" /\ js[j].at \in places /\ p = <<j.user, j.call>>
    BY <1>1 DEF PlacedBy
  <2> QED BY <2>1, SaveJobs DEF Placed
<1>2. ASSUME NEW p \in Placed(js, places) PROVE p \in PlacedBy(js, places)
  <2>1. p \in Pairs /\ js[SaveJob(p)].at \in places
    BY <1>2 DEF Placed
  <2>2. p = <<p[1], p[2]>>
    BY <2>1 DEF Pairs
  <2> QED BY <2>1, <2>2, SaveJobs DEF PlacedBy
<1> QED BY <1>1, <1>2

LEMMA SaveAtPlaced ==
  ASSUME NEW places
  PROVE  SaveAt(places) = Placed(jobs, places) /\ SaveAt(places)' = Placed(jobs', places)
<1>1. SaveAt(places) = PlacedBy(jobs, places)
  BY DEF SaveAt, PlacedBy
<1>2. SaveAt(places)' = PlacedBy(jobs', places)
  BY DEF SaveAt, PlacedBy
<1> QED BY <1>1, <1>2, PlacedPairs

\* One job moves.
LEMMA OneMoves ==
  ASSUME NEW js, NEW js2, NEW j \in Job, \A i \in Job : i # j => js2[i] = js[i], NEW places,
         j.kind = "save_db"
  PROVE  LET p == <<j.user, j.call>> IN
         /\ p \in Pairs /\ (p \in Placed(js, places) <=> js[j].at \in places)
         /\ Placed(js2, places) = IF js2[j].at \in places THEN Placed(js, places) \cup {p}
                                  ELSE Placed(js, places) \ {p}
<1> DEFINE p == <<j.user, j.call>>
<1>1. p \in Pairs /\ SaveJob(p) = j
  BY SaveJobs
<1> HIDE DEF p
<1>2. \A r \in Pairs : r # p => js2[SaveJob(r)] = js[SaveJob(r)]
  BY <1>1, SaveJobs
<1>3. p \in Placed(js, places) <=> js[j].at \in places
  BY <1>1 DEF Placed
<1>4. Placed(js2, places) = IF js2[j].at \in places THEN Placed(js, places) \cup {p}
                            ELSE Placed(js, places) \ {p}
  BY <1>1, <1>2 DEF Placed
<1> QED BY <1>1, <1>3, <1>4 DEF p

LEMMA PushMoves ==
  ASSUME NEW j \in Job, \A i \in Job : i # j => jobs'[i] = jobs[i], j.kind # "save_db", NEW places
  PROVE  Placed(jobs', places) = Placed(jobs, places)
<1>1. \A r \in Pairs : jobs'[SaveJob(r)] = jobs[SaveJob(r)]
  BY SaveJobs
<1> QED BY <1>1 DEF Placed

Open == {"waiting", "active", "worked", "stalled"}
LEMMA BoxState ==
  /\ SaveAt(Open) = Placed(jobs, Open) /\ SaveAt(Open)' = Placed(jobs', Open)
  /\ SaveAt({"completed"}) = Placed(jobs, {"completed"})
  /\ SaveAt({"completed"})' = Placed(jobs', {"completed"})
  /\ SaveAt({"failed"}) = Placed(jobs, {"failed"}) /\ SaveAt({"failed"})' = Placed(jobs', {"failed"})
BY SaveAtPlaced

LEMMA OpenPlaces ==
  /\ "waiting" \in Open /\ "active" \in Open /\ "worked" \in Open /\ "stalled" \in Open
  /\ "completed" \notin Open /\ "failed" \notin Open
BY DEF Open

LEMMA BoxCounts == \A S : Box!Cardinality(S) = Cardinality(S)
BY DEF Cardinality, Box!Cardinality

\* What is open, settled and lost, in the terms of the jobs.
BoxMove(open, settled, lost) ==
  /\ Placed(jobs', Open) = open /\ Placed(jobs', {"completed"}) = settled
  /\ Placed(jobs', {"failed"}) = lost
Resting == BoxMove(Placed(jobs, Open), Placed(jobs, {"completed"}), Placed(jobs, {"failed"}))

LEMMA BoxRests == ASSUME Resting, inbox' = inbox PROVE UNCHANGED Box!vars
BY BoxState, Zenon DEF Resting, BoxMove, Box!vars, Open

LEMMA BoxAnnounces == ASSUME Announces PROVE Box!Announce
<1> DEFINE P == {p \in Pairs : jobs[SaveJob(p)].at = "none" /\ jobs'[SaveJob(p)] = NewJob}
<1>1. /\ P \subseteq Pairs
      /\ P \cap (Placed(jobs, Open) \cup Placed(jobs, {"completed"}) \cup Placed(jobs, {"failed"})) = {}
  BY DEF Placed, Open
<1>2. \A p \in Pairs : jobs'[SaveJob(p)] = jobs[SaveJob(p)] \/ p \in P
  BY SaveJobs DEF Announces
<1>3. BoxMove(Placed(jobs, Open) \cup P, Placed(jobs, {"completed"}), Placed(jobs, {"failed"}))
  BY <1>2 DEF BoxMove, Placed, Open, NewJob
<1> HIDE DEF P
<1>4. inbox' = inbox
  BY DEF Announces
<1>5. P \in SUBSET (Box!Pair \ (SaveAt(Open) \cup SaveAt({"completed"}) \cup SaveAt({"failed"})))
  BY <1>1, BoxState DEF Box!Pair, Pairs
<1>6. /\ SaveAt(Open)' = SaveAt(Open) \cup P
      /\ SaveAt({"completed"})' = SaveAt({"completed"}) /\ SaveAt({"failed"})' = SaveAt({"failed"})
  BY <1>3, BoxState DEF BoxMove
<1> QED BY <1>4, <1>5, <1>6 DEF Box!Announce, Open

LEMMA BoxStalls == ASSUME Stalls PROVE UNCHANGED Box!vars
<1>1. Resting
  BY SaveJobs DEF Stalls, Resting, BoxMove, Placed, Open
<1> QED BY <1>1, BoxRests DEF Stalls

LEMMA BoxReads ==
  ASSUME InboxTypes, UNCHANGED jobs, NEW u \in UserId, MarkAllAsRead(u) \/ \E n \in inbox : MarkAsRead(n, u)
  PROVE  Box!Read(u)
<1>1. UNCHANGED <<SaveAt(Open), SaveAt({"completed"}), SaveAt({"failed"})>>
  BY BoxState
<1>2. \E N \in SUBSET {n \in inbox : n.user = u /\ ~n.read} :
        inbox' = (inbox \ N) \cup {[n EXCEPT !.read = TRUE] : n \in N}
  <2>1. CASE MarkAllAsRead(u)
    <3> DEFINE N == {n \in inbox : n.user = u /\ ~n.read}
               R == {[n EXCEPT !.read = TRUE] : n \in N}
    <3>1. inbox' = {IF n.user = u THEN [n EXCEPT !.read = TRUE] ELSE n : n \in inbox}
      BY <2>1 DEF MarkAllAsRead
    <3>2. \A n \in inbox : n.user = u /\ n.read => [n EXCEPT !.read = TRUE] = n
      BY ReadIs DEF InboxTypes
    <3>3. ASSUME NEW m \in inbox' PROVE m \in (inbox \ N) \cup R
      BY <3>1, <3>2
    <3>4. ASSUME NEW m \in (inbox \ N) \cup R PROVE m \in inbox'
      BY <3>1, <3>2
    <3> QED BY <3>3, <3>4
  <2>2. ASSUME NEW n \in inbox, MarkAsRead(n, u)
        PROVE  \E N \in SUBSET {m \in inbox : m.user = u /\ ~m.read} :
                 inbox' = (inbox \ N) \cup {[m EXCEPT !.read = TRUE] : m \in N}
    <3>1. n.user = u /\ ~n.read /\ inbox' = (inbox \ {n}) \cup {[n EXCEPT !.read = TRUE]}
      BY <2>2 DEF MarkAsRead
    <3>2. {[m EXCEPT !.read = TRUE] : m \in {n}} = {[n EXCEPT !.read = TRUE]}
      OBVIOUS
    <3>3. {n} \in SUBSET {m \in inbox : m.user = u /\ ~m.read}
      BY <3>1
    <3> QED BY <3>1, <3>2, <3>3
  <2> QED BY <2>1, <2>2
<1> QED BY <1>1, <1>2 DEF Box!Read, Open

LEMMA BoxWorks ==
  ASSUME IMailbox, NEW j \in Job, Run(j) \/ JobFails(j) PROVE [Box!Next]_(Box!vars)
<1> DEFINE p == <<j.user, j.call>>
           k == Cardinality(OfIn(inbox, j.user, j.call))
<1>1. /\ jobs \in [Job -> JobState] /\ Good(jobs[j]) /\ IsFiniteSet(inbox)
      /\ j.kind = "save_db" => Within(jobs[j], k)
  BY DEF IMailbox, IMonitoring, JobsOK, Good, InboxTypes, Delivered
<1>2. \A i \in Job : i # j => jobs'[i] = jobs[i]
  BY <1>1, JobAdvances DEF Advances
<1>3. \A at, f, s : Becomes(j, at, f, s) => jobs'[j].at = at
  BY <1>1 DEF Becomes
<1>4. CASE j.kind # "save_db"
  <2>0. \A places : Placed(jobs', places) = Placed(jobs, places)
    BY <1>2, <1>4, PushMoves
  <2>1. Resting
    BY <2>0 DEF Resting, BoxMove
  <2>2. inbox' = inbox
    BY <1>4 DEF Run, Take, PushSocket, SaveDb, Complete, Recover, JobFails
  <2> QED BY <2>1, <2>2, BoxRests
<1>5. CASE j.kind = "save_db"
  <2>0. /\ \A places : /\ p \in Placed(jobs, places) <=> jobs[j].at \in places
                       /\ Placed(jobs', places) = IF jobs'[j].at \in places
                            THEN Placed(jobs, places) \cup {p} ELSE Placed(jobs, places) \ {p}
        /\ p \in Box!Pair /\ p[1] = j.user /\ p[2] = j.call /\ ~PushSocket(j)
    BY <1>2, <1>5, OneMoves DEF Box!Pair, Pairs, PushSocket
  <2>1. Box!Of(p) = OfIn(inbox, j.user, j.call) /\ k \in Nat /\ (Box!Of(p) = {} => k = 0)
    <3>1. Box!Of(p) = OfIn(inbox, j.user, j.call)
      BY <2>0 DEF Box!Of, OfIn
    <3>2. k \in Nat
      BY <1>1, CountOf
    <3> QED BY <3>1, <3>2, FS_EmptySet
  <2> HIDE DEF p, k
  <2>2. CASE jobs[j].at \in Open /\ jobs'[j].at \in Open /\ inbox' = inbox
    <3>1. Resting
      <4>1. p \in Placed(jobs, Open) /\ p \notin Placed(jobs, {"completed"})
            /\ p \notin Placed(jobs, {"failed"})
        BY <2>0, <2>2, OpenPlaces
      <4>2. /\ Placed(jobs', Open) = Placed(jobs, Open) \cup {p}
            /\ Placed(jobs', {"completed"}) = Placed(jobs, {"completed"}) \ {p}
            /\ Placed(jobs', {"failed"}) = Placed(jobs, {"failed"}) \ {p}
        BY <2>0, <2>2, OpenPlaces
      <4> QED BY <4>1, <4>2 DEF Resting, BoxMove
    <3> QED BY <2>2, <3>1, BoxRests
  <2>3. CASE SaveDb(j)
    <3>1. jobs[j].at = "active" /\ jobs'[j].at = "worked"
      BY <1>1, <1>3, <2>3, Worked
    <3>2. Resting /\ p \in Placed(jobs, Open)
      <4>1. p \in Placed(jobs, Open) /\ p \notin Placed(jobs, {"completed"})
            /\ p \notin Placed(jobs, {"failed"})
        BY <2>0, <3>1, OpenPlaces
      <4>2. /\ Placed(jobs', Open) = Placed(jobs, Open) \cup {p}
            /\ Placed(jobs', {"completed"}) = Placed(jobs, {"completed"}) \ {p}
            /\ Placed(jobs', {"failed"}) = Placed(jobs, {"failed"}) \ {p}
        BY <2>0, <3>1, OpenPlaces
      <4> QED BY <4>1, <4>2 DEF Resting, BoxMove
    <3>3. UNCHANGED <<SaveAt(Open), SaveAt({"completed"}), SaveAt({"failed"})>> /\ p \in SaveAt(Open)
      BY <3>2, BoxState DEF Resting, BoxMove
    <3>4. Cardinality(Box!Of(p)) = k
      BY <2>1 DEF k
    <3>5. k < Attempts + MaxStalled
      <4>1. /\ jobs[j].failures \in Nat /\ jobs[j].stalls \in Nat /\ Attempts \in Nat /\ MaxStalled \in Nat
            /\ jobs[j].failures < Attempts /\ jobs[j].stalls <= MaxStalled
            /\ k <= jobs[j].failures + jobs[j].stalls
        BY <1>1, <1>5, <3>1, WorkerAssumption DEF Good, JobState, Within
      <4> QED BY <2>1, <4>1
    <3>6. inbox' = inbox \cup {[user |-> p[1], call |-> p[2], copy |-> k + 1, read |-> FALSE]}
      BY <2>0, <2>3 DEF SaveDb, Saved, Copies, OfIn, k
    <3>7. Box!Deliver(p)
      <4>1. /\ Cardinality(Box!Of(p)) < Attempts + MaxStalled
            /\ inbox' = inbox \cup {[user |-> p[1], call |-> p[2], copy |-> Cardinality(Box!Of(p)) + 1,
                                    read |-> FALSE]}
        BY <3>4, <3>5, <3>6
      <4> QED BY <3>3, <4>1, BoxCounts DEF Box!Deliver, Open
    <3> QED BY <2>0, <3>7 DEF Box!Next
  <2>4. CASE Complete(j)
    <3>1. jobs[j].at = "worked" /\ jobs'[j].at = "completed" /\ inbox' = inbox
      BY <1>1, <1>3, <2>4, Worked DEF Complete
    <3>2. /\ BoxMove(Placed(jobs, Open) \ {p}, Placed(jobs, {"completed"}) \cup {p}, Placed(jobs, {"failed"}))
          /\ p \in Placed(jobs, Open)
      <4>1. p \in Placed(jobs, Open) /\ p \notin Placed(jobs, {"failed"})
        BY <2>0, <3>1, OpenPlaces
      <4>2. /\ Placed(jobs', Open) = Placed(jobs, Open) \ {p}
            /\ Placed(jobs', {"completed"}) = Placed(jobs, {"completed"}) \cup {p}
            /\ Placed(jobs', {"failed"}) = Placed(jobs, {"failed"}) \ {p}
        BY <2>0, <3>1, OpenPlaces
      <4> QED BY <4>1, <4>2 DEF BoxMove
    <3>3. Box!Of(p) # {}
      BY <1>1, <1>5, <2>1, <3>1 DEF Within
    <3>4. /\ SaveAt(Open)' = SaveAt(Open) \ {p} /\ SaveAt({"completed"})' = SaveAt({"completed"}) \cup {p}
          /\ SaveAt({"failed"})' = SaveAt({"failed"}) /\ p \in SaveAt(Open)
      BY <3>2, BoxState DEF BoxMove
    <3>5. Box!Settle(p)
      BY <3>1, <3>3, <3>4 DEF Box!Settle, Open
    <3> QED BY <2>0, <3>5 DEF Box!Next
  <2>5. CASE jobs[j].at \in Open /\ jobs'[j].at = "failed" /\ inbox' = inbox
    <3>2. /\ BoxMove(Placed(jobs, Open) \ {p}, Placed(jobs, {"completed"}), Placed(jobs, {"failed"}) \cup {p})
          /\ p \in Placed(jobs, Open)
      <4>1. p \in Placed(jobs, Open) /\ p \notin Placed(jobs, {"completed"})
        BY <2>0, <2>5, OpenPlaces
      <4>2. /\ Placed(jobs', Open) = Placed(jobs, Open) \ {p}
            /\ Placed(jobs', {"completed"}) = Placed(jobs, {"completed"}) \ {p}
            /\ Placed(jobs', {"failed"}) = Placed(jobs, {"failed"}) \cup {p}
        BY <2>0, <2>5, OpenPlaces
      <4> QED BY <4>1, <4>2 DEF BoxMove
    <3>4. /\ SaveAt(Open)' = SaveAt(Open) \ {p} /\ SaveAt({"failed"})' = SaveAt({"failed"}) \cup {p}
          /\ SaveAt({"completed"})' = SaveAt({"completed"}) /\ p \in SaveAt(Open)
      BY <3>2, BoxState DEF BoxMove
    <3>5. Box!GiveUp(p)
      BY <2>5, <3>4 DEF Box!GiveUp, Open
    <3> QED BY <2>0, <3>5 DEF Box!Next
  <2>6. CASE Take(j) \/ JobFails(j) \/ Recover(j)
    <3>1. inbox' = inbox
      BY <2>6 DEF Take, JobFails, Recover
    <3>2. jobs[j].at \in Open /\ jobs'[j].at \in {"active", "waiting", "failed"}
      BY <1>1, <1>3, <2>6, Worked DEF Open
    <3> QED BY <2>2, <2>5, <3>1, <3>2 DEF Open
  <2> QED BY <2>0, <2>3, <2>4, <2>6 DEF Run
<1> QED BY <1>4, <1>5

\* The save jobs and the collection are a mailbox: announced at most once, copied
\* until settled or given up, with at most one copy per attempt and tolerated
\* stall, never thinned out, never unread again.
THEOREM QueueImplementsMailbox == Spec => ImplementsMailbox
<1>1. Init => Box!Init
  BY DEF Init, Box!Init, SaveAt, NoJob
<1>2. IMailbox /\ [Next]_vars => [Box!Next]_(Box!vars)
  <2> SUFFICES ASSUME IMailbox, [Next]_vars PROVE [Box!Next]_(Box!vars)
    OBVIOUS
  <2>1. CASE UNCHANGED <<jobs, inbox>>
    BY <2>1 DEF Box!vars, SaveAt
  <2>2. CASE UNCHANGED jobs /\ Reads
    BY <2>2, BoxReads DEF Reads, Box!Next, IMailbox, IMonitoring
  <2>3. CASE Announces
    BY <2>3, BoxAnnounces DEF Box!Next
  <2>4. CASE Stalls
    BY <2>4, BoxStalls
  <2> QED BY <2>1, <2>2, <2>3, <2>4, BoxWorks, MailboxCases DEF IMailbox
<1> QED BY <1>1, <1>2, MailboxInduction, PTL DEF Spec, ImplementsMailbox, Box!Spec

----------------------------------------------------------------------------
(***************************************************************************)
(* The answers.  S is what the user had when the request began.            *)
(***************************************************************************)
AsRead(n) == [n EXCEPT !.read = TRUE]
MineIn(box, u) == {n \in box : n.user = u}
Kept(S, box) == \A n \in S : n \in box \/ (~n.read /\ AsRead(n) \in box)
Throughout(S, box) == {n \in S : ~n.read /\ n \in box}
ReadThen(S) == {n \in S : n.read}

\* What the list tells, once it is there; and the count.
ListRight(q, S, box) ==
  /\ \A n \in S : n.read => [n EXCEPT !.read = FALSE] \notin q.list
  /\ \A n \in IF q.only THEN Throughout(S, box) ELSE S :
       \/ {n, AsRead(n)} \cap q.list # {}
       \/ Cardinality(q.list) = Page /\ \A m \in q.list : m.call = n.call => m.copy > n.copy
CountRight(u, q, S, box) ==
  /\ Cardinality(Throughout(S, box)) <= q.unread
  /\ q.unread <= Cardinality(MineIn(box, u) \ ReadThen(S))

AnswerOK(u, q, S, box) ==
  /\ Kept(S, box)
  /\ q.told => q.todo = {}
  /\ (q.todo # {} \/ q.told) /\ "list" \notin q.todo => ListRight(q, S, box)
  /\ (q.todo # {} \/ q.told) /\ "count" \notin q.todo => CountRight(u, q, S, box)

AnswersOK == \A u \in Reader : AnswerOK(u, look[u], start[u], inbox)

\* The collection keeps what it had, and nobody has fewer notifications.
BoxGrows(box, box2) ==
  /\ Kept(box, box2)
  /\ \A u : Cardinality(MineIn(box, u)) <= Cardinality(MineIn(box2, u))

LEMMA CountMine ==
  ASSUME NEW box, IsFiniteSet(box), NEW u
  PROVE  IsFiniteSet(MineIn(box, u)) /\ Cardinality(MineIn(box, u)) \in Nat
<1>1. MineIn(box, u) \in SUBSET box
  BY DEF MineIn
<1> QED BY <1>1, FS_Subset, FS_CardinalityType

LEMMA GrowsNext == IMailbox /\ [Next]_vars => BoxGrows(inbox, inbox')
<1> SUFFICES ASSUME IMailbox, [Next]_vars PROVE BoxGrows(inbox, inbox')
  OBVIOUS
<1>0. InboxTypes /\ Numbered(inbox) /\ IsFiniteSet(inbox)
  BY DEF IMailbox, IMonitoring, InboxTypes
<1>1. CASE inbox' = inbox
  BY <1>0, <1>1, CountMine DEF BoxGrows, Kept
<1>2. ASSUME NEW n, inbox' = inbox \cup {n} PROVE BoxGrows(inbox, inbox')
  <2>1. Kept(inbox, inbox')
    BY <1>2 DEF Kept
  <2>2. ASSUME NEW u PROVE Cardinality(MineIn(inbox, u)) <= Cardinality(MineIn(inbox', u))
    <3>1. MineIn(inbox, u) \subseteq MineIn(inbox', u)
      BY <1>2 DEF MineIn
    <3>2. IsFiniteSet(inbox')
      BY <1>0, <1>2, FS_AddElement
    <3> QED BY <3>1, <3>2, CountMine, FS_Subset
  <2> QED BY <2>1, <2>2 DEF BoxGrows
<1>3. CASE Reads
  <2>1. PICK f : Rereads(inbox, inbox', f)
    BY <1>0, <1>3, ReadingRereads DEF Reads
  <2>2. Kept(inbox, inbox')
    <3> SUFFICES ASSUME NEW n \in inbox PROVE n \in inbox' \/ (~n.read /\ AsRead(n) \in inbox')
      BY DEF Kept
    <3>1. f[n] \in inbox' /\ f[n] \in {n, AsRead(n)} /\ n \in Note
      BY <1>0, <2>1 DEF Rereads, AsRead, InboxTypes
    <3>2. n.read => AsRead(n) = n
      BY <3>1, ReadIs DEF AsRead
    <3> QED BY <3>1, <3>2
  <2>3. ASSUME NEW u PROVE Cardinality(MineIn(inbox, u)) <= Cardinality(MineIn(inbox', u))
    <3> DEFINE S == MineIn(inbox, u)
               T == MineIn(inbox', u)
               g == [n \in S |-> f[n]]
    <3>1. \A n \in S : f[n] \in T
      BY <2>1 DEF Rereads, MineIn
    <3>2. \A m \in T : \E n \in S : f[n] = m
      BY <2>1 DEF Rereads, MineIn
    <3>3. \A n, m \in S : f[n] = f[m] => n = m
      BY <1>0, <2>1 DEF Rereads, MineIn, Numbered
    <3>4. IsFiniteSet(S) /\ Cardinality(S) \in Nat
      BY <1>0, CountMine
    <3> HIDE DEF S, T
    <3>5. g \in Bijection(S, T)
      BY <3>1, <3>2, <3>3 DEF Bijection, Injection, Surjection, IsInjective
    <3>6. ExistsBijection(S, T)
      BY <3>5 DEF ExistsBijection
    <3>7. Cardinality(T) = Cardinality(S)
      BY <3>4, <3>6, FS_Bijection
    <3> QED BY <3>4, <3>7 DEF S, T
  <2> QED BY <2>2, <2>3 DEF BoxGrows
<1>4. ASSUME NEW j \in Job, Run(j) \/ JobFails(j) PROVE BoxGrows(inbox, inbox')
  BY <1>1, <1>2, <1>4 DEF Run, Take, PushSocket, SaveDb, Saved, Complete, Recover, JobFails
<1> QED BY <1>0, <1>1, <1>3, <1>4, MailboxCases DEF IMailbox, Announces, Stalls

\* An answer stays right while the collection grows beside it.
LEMMA AnswerStays ==
  ASSUME NEW u, NEW q \in Look, NEW S \in SUBSET Note, NEW box \in SUBSET Note, NEW box2 \in SUBSET Note,
         IsFiniteSet(box), IsFiniteSet(box2), Numbered(box2), \A n \in S : n.user = u,
         BoxGrows(box, box2), AnswerOK(u, q, S, box)
  PROVE  AnswerOK(u, q, S, box2)
<1>0. \A n \in Note : /\ n.read \in BOOLEAN /\ AsRead(n) \in Note /\ AsRead(n).read
                      /\ AsRead(n).user = n.user /\ AsRead(n).call = n.call /\ AsRead(n).copy = n.copy
  BY ReadNote DEF Note, AsRead
<1>1. Kept(S, box2)
  <2> SUFFICES ASSUME NEW n \in S PROVE n \in box2 \/ (~n.read /\ AsRead(n) \in box2)
    BY DEF Kept
  <2>1. n \in box \/ (~n.read /\ AsRead(n) \in box)
    BY DEF AnswerOK, Kept
  <2>2. CASE n \in box
    BY <2>2 DEF BoxGrows, Kept
  <2>3. CASE ~n.read /\ AsRead(n) \in box
    <3>1. AsRead(n).read
      BY <1>0
    <3> QED BY <2>3, <3>1 DEF BoxGrows, Kept
  <2> QED BY <2>1, <2>2, <2>3
<1>2. Throughout(S, box2) \subseteq Throughout(S, box)
  <2> SUFFICES ASSUME NEW n \in S, ~n.read, n \in box2, n \notin box PROVE FALSE
    BY DEF Throughout
  <2>1. AsRead(n) \in box /\ AsRead(n).read
    BY <1>0 DEF AnswerOK, Kept
  <2>2. AsRead(n) \in box2
    BY <2>1 DEF BoxGrows, Kept
  <2>3. AsRead(n) = n
    BY <1>0, <2>2 DEF Numbered
  <2> QED BY <2>1, <2>3
<1>3. ListRight(q, S, box) => ListRight(q, S, box2)
  BY <1>2 DEF ListRight
<1>4. CountRight(u, q, S, box) => CountRight(u, q, S, box2)
  <2> SUFFICES ASSUME CountRight(u, q, S, box) PROVE CountRight(u, q, S, box2)
    OBVIOUS
  <2> DEFINE R == ReadThen(S)
             T == Throughout(S, box)
             T2 == Throughout(S, box2)
             M == MineIn(box, u)
             M2 == MineIn(box2, u)
  <2>1. R \subseteq M /\ R \subseteq M2
    BY <1>1 DEF AnswerOK, Kept, ReadThen, MineIn
  <2>2. IsFiniteSet(M) /\ IsFiniteSet(M2) /\ Cardinality(M) \in Nat /\ Cardinality(M2) \in Nat
        /\ Cardinality(M) <= Cardinality(M2)
    BY CountMine DEF BoxGrows
  <2>3. T \subseteq box /\ T2 \subseteq T
    BY <1>2 DEF Throughout
  <2> HIDE DEF R, T, T2, M, M2
  <2>4. IsFiniteSet(R) /\ Cardinality(R) \in Nat /\ M \cap R = R /\ M2 \cap R = R
    BY <2>1, <2>2, FS_Subset, FS_CardinalityType
  <2>5. Cardinality(M \ R) = Cardinality(M) - Cardinality(R)
        /\ Cardinality(M2 \ R) = Cardinality(M2) - Cardinality(R)
    <3>1. Cardinality(M \ R) = Cardinality(M) - Cardinality(M \cap R)
      BY <2>2, FS_Difference
    <3>2. Cardinality(M2 \ R) = Cardinality(M2) - Cardinality(M2 \cap R)
      BY <2>2, FS_Difference
    <3> QED BY <2>4, <3>1, <3>2
  <2>6. IsFiniteSet(T) /\ IsFiniteSet(T2) /\ Cardinality(T2) <= Cardinality(T)
        /\ Cardinality(T) \in Nat /\ Cardinality(T2) \in Nat
    BY <2>3, FS_Subset, FS_CardinalityType
  <2>7. Cardinality(T) <= q.unread /\ q.unread <= Cardinality(M \ R) /\ q.unread \in Nat
    BY DEF CountRight, T, M, R, Look
  <2>8. Cardinality(T2) <= q.unread /\ q.unread <= Cardinality(M2 \ R)
    BY <2>2, <2>4, <2>5, <2>6, <2>7
  <2> QED BY <2>8 DEF CountRight, T2, M2, R
<1> QED BY <1>1, <1>3, <1>4 DEF AnswerOK

\* The list is right when its query returns; and the count.
LEMMA ListBrought ==
  ASSUME IMailbox, NEW u \in Reader, NEW S \in SUBSET Note, Kept(S, inbox), \A n \in S : n.user = u,
         NEW only \in BOOLEAN, NEW P \in SUBSET Mine(u),
         LET N == IF only THEN Unread(u) ELSE Mine(u) IN
         P \subseteq N /\ NewestFirst(N, P) /\ FillsPage(N, P),
         NEW q, q.only = only, q.list = P
  PROVE  ListRight(q, S, inbox)
<1>0. inbox \subseteq Note /\ Numbered(inbox) /\ P \subseteq inbox
  BY DEF IMailbox, IMonitoring, InboxTypes, Mine
<1>1. ASSUME NEW n \in S, n.read PROVE [n EXCEPT !.read = FALSE] \notin P
  <2> DEFINE m == [n EXCEPT !.read = FALSE]
  <2>1. m.user = n.user /\ m.call = n.call /\ m.copy = n.copy /\ m.read = FALSE
    BY DEF Note
  <2>2. n \in inbox
    BY <1>1 DEF Kept
  <2> HIDE DEF m
  <2>3. m \notin inbox
    BY <1>0, <1>1, <2>1, <2>2 DEF Numbered
  <2>4. m \notin P
    BY <1>0, <2>3
  <2> QED BY <2>4 DEF m
<1>2. ASSUME NEW n \in IF only THEN Throughout(S, inbox) ELSE S, {n, AsRead(n)} \cap P = {}
      PROVE  Cardinality(P) = Page /\ \A m \in P : m.call = n.call => m.copy > n.copy
  <2> DEFINE N == IF only THEN Unread(u) ELSE Mine(u)
  <2>1. n \in S /\ n \in Note /\ n.user = u /\ n.copy \in Nat
    BY <1>2 DEF Throughout, Note
  <2>2. PICK k \in {n, AsRead(n)} : k \in N
    <3>1. CASE only
      BY <1>2, <2>1, <3>1 DEF Throughout, Unread, Mine
    <3>2. CASE ~only
      <4>1. n \in inbox \/ AsRead(n) \in inbox
        BY <2>1 DEF Kept
      <4>2. AsRead(n).user = u
        BY <2>1, ReadNote DEF AsRead
      <4> QED BY <2>1, <3>2, <4>1, <4>2 DEF Mine
    <3> QED BY <3>1, <3>2
  <2>3. k.call = n.call /\ k.copy = n.copy
    BY <2>1, <2>2, ReadNote DEF AsRead
  <2>4. k \notin P
    BY <1>2, <2>2
  <2> HIDE DEF N
  <2>5. NewestFirst(N, P) /\ FillsPage(N, P)
    BY DEF N
  <2>6. Cardinality(P) = Page
    BY <2>2, <2>4, <2>5 DEF FillsPage
  <2>7. \A m \in P : m.call = n.call => n.copy < m.copy
    BY <2>2, <2>3, <2>4, <2>5 DEF NewestFirst
  <2>8. \A m \in P : m.copy \in Nat
    BY <1>0 DEF Note
  <2> QED BY <2>1, <2>6, <2>7, <2>8
<1> QED BY <1>1, <1>2 DEF ListRight

LEMMA CountBrought ==
  ASSUME IMailbox, NEW u \in Reader, NEW S \in SUBSET Note, Kept(S, inbox), \A n \in S : n.user = u,
         NEW q, q.unread = Cardinality(Unread(u))
  PROVE  CountRight(u, q, S, inbox)
<1>0. inbox \subseteq Note /\ Numbered(inbox) /\ IsFiniteSet(inbox)
  BY DEF IMailbox, IMonitoring, InboxTypes
<1>1. Throughout(S, inbox) \subseteq Unread(u)
  BY DEF Throughout, Unread, Mine
<1>2. Unread(u) \subseteq MineIn(inbox, u) \ ReadThen(S)
  BY DEF Unread, Mine, MineIn, ReadThen
<1>3. IsFiniteSet(MineIn(inbox, u) \ ReadThen(S))
  BY <1>0, CountMine, FS_Difference
<1>4. IsFiniteSet(Unread(u)) /\ Cardinality(Unread(u)) <= Cardinality(MineIn(inbox, u) \ ReadThen(S))
  BY <1>2, <1>3, FS_Subset
<1>5. Cardinality(Throughout(S, inbox)) <= Cardinality(Unread(u))
  BY <1>1, <1>4, FS_Subset
<1> QED BY <1>4, <1>5 DEF CountRight

\* A closed request has nothing to be right about.
LEMMA ClosedAnswers == ASSUME NEW u, NEW box PROVE AnswerOK(u, Closed, {}, box)
BY DEF AnswerOK, Closed, Kept

\* u's request changes, and nothing else.
LEMMA OneAnswers ==
  ASSUME LooksOK, AnswersOK, inbox' = inbox, NEW u \in Reader, NEW q, NEW s0, Becoming(u, q, s0),
         AnswerOK(u, q, s0, inbox)
  PROVE  AnswersOK'
<1> SUFFICES ASSUME NEW v \in Reader PROVE AnswerOK(v, look'[v], start'[v], inbox')
  BY DEF AnswersOK
<1>1. CASE v = u
  <2>1. look'[u] = q /\ start'[u] = s0
    BY DEF LooksOK, Becoming
  <2> QED BY <1>1, <2>1
<1>2. CASE v # u
  <2>1. look'[v] = look[v] /\ start'[v] = start[v]
    BY <1>2 DEF LooksOK, Becoming
  <2> QED BY <2>1 DEF AnswersOK
<1> QED BY <1>1, <1>2

LEMMA OpenAnswers ==
  ASSUME IMailbox, AnswersOK, NEW u \in Reader, OpenList(u) PROVE AnswersOK'
<1> DEFINE q == [todo |-> {"list", "count"}, told |-> FALSE, only |-> FALSE, list |-> {}, unread |-> 0]
<1>1. LooksOK /\ Becoming(u, q, Mine(u)) /\ inbox' = inbox
  BY Looked DEF IMailbox, IMonitoring, OpenList, others
<1>2. AnswerOK(u, q, Mine(u), inbox)
  BY DEF AnswerOK, Kept, Mine
<1> HIDE DEF q
<1> QED BY <1>1, <1>2, OneAnswers

LEMMA ListAnswers ==
  ASSUME IMailbox, AnswersOK, NEW u \in Reader, ListQuery(u) PROVE AnswersOK'
<1> DEFINE l == look[u]
           S == start[u]
<1>1. LooksOK /\ inbox' = inbox /\ inbox \subseteq Note
  BY DEF IMailbox, IMonitoring, InboxTypes, ListQuery, others
<1>2. PICK only \in BOOLEAN : \E P \in SUBSET Mine(u) :
        LET N == IF only THEN Unread(u) ELSE Mine(u) IN
        /\ P \subseteq N /\ NewestFirst(N, P) /\ FillsPage(N, P) /\ "list" \in l.todo
        /\ P \in SUBSET Note => Becoming(u, Listed(l, only, P), S)
  BY <1>1, Looked
<1>3. PICK P \in SUBSET Mine(u) :
        LET N == IF only THEN Unread(u) ELSE Mine(u) IN
        /\ P \subseteq N /\ NewestFirst(N, P) /\ FillsPage(N, P) /\ "list" \in l.todo
        /\ P \in SUBSET Note => Becoming(u, Listed(l, only, P), S)
  BY <1>2
<1>4. P \in SUBSET Note
  BY <1>1, <1>3 DEF Mine
<1> DEFINE q == Listed(l, only, P)
<1>5. Becoming(u, q, S) /\ "list" \in l.todo
  BY <1>3, <1>4
<1>6. S \in SUBSET Note /\ (\A n \in S : n.user = u) /\ AnswerOK(u, l, S, inbox)
  BY <1>1 DEF LooksOK, AnswersOK
<1>7. /\ q.only = only /\ q.list = P /\ q.unread = l.unread
      /\ q.todo = l.todo \ {"list"} /\ (q.told <=> q.todo = {})
  BY DEF Listed
<1> HIDE DEF q, l, S
<1>8. Kept(S, inbox)
  BY <1>6 DEF AnswerOK
<1>9. ListRight(q, S, inbox)
  BY <1>3, <1>6, <1>7, <1>8, ListBrought
<1>10. "count" \notin q.todo => CountRight(u, q, S, inbox)
  BY <1>5, <1>6, <1>7 DEF AnswerOK, CountRight
<1>11. AnswerOK(u, q, S, inbox)
  BY <1>7, <1>8, <1>9, <1>10 DEF AnswerOK
<1> QED BY <1>1, <1>5, <1>11, OneAnswers

LEMMA CountAnswers ==
  ASSUME IMailbox, AnswersOK, NEW u \in Reader, CountQuery(u) PROVE AnswersOK'
<1> DEFINE l == look[u]
           S == start[u]
           t == l.todo \ {"count"}
           q == [todo |-> t, told |-> t = {}, only |-> l.only, list |-> l.list,
                 unread |-> Cardinality(Unread(u))]
<1>1. LooksOK /\ inbox' = inbox /\ IsFiniteSet(inbox)
  BY DEF IMailbox, IMonitoring, InboxTypes, CountQuery, others
<1>2. Cardinality(Unread(u)) \in Nat
  <2>1. Unread(u) \in SUBSET inbox
    BY DEF Unread, Mine
  <2> QED BY <1>1, <2>1, FS_Subset, FS_CardinalityType
<1>3. "count" \in l.todo /\ Becoming(u, q, S)
  BY <1>1, <1>2, Looked
<1>4. S \in SUBSET Note /\ (\A n \in S : n.user = u) /\ AnswerOK(u, l, S, inbox)
  BY <1>1 DEF LooksOK, AnswersOK
<1>5. /\ q.only = l.only /\ q.list = l.list /\ q.unread = Cardinality(Unread(u))
      /\ q.todo = l.todo \ {"count"} /\ (q.told <=> q.todo = {})
  OBVIOUS
<1> HIDE DEF q, l, S
<1>6. Kept(S, inbox)
  BY <1>4 DEF AnswerOK
<1>7. CountRight(u, q, S, inbox)
  BY <1>4, <1>5, <1>6, CountBrought
<1>8. "list" \notin q.todo => ListRight(q, S, inbox)
  BY <1>3, <1>4, <1>5 DEF AnswerOK, ListRight
<1>9. AnswerOK(u, q, S, inbox)
  BY <1>5, <1>6, <1>7, <1>8 DEF AnswerOK
<1> QED BY <1>1, <1>3, <1>9, OneAnswers

LEMMA AnswersNext == IMailbox /\ IMailbox' /\ AnswersOK /\ [Next]_vars => AnswersOK'
<1> SUFFICES ASSUME IMailbox, IMailbox', AnswersOK, [Next]_vars PROVE AnswersOK'
  OBVIOUS
<1>0. /\ LooksOK /\ inbox \in SUBSET Note /\ inbox' \in SUBSET Note
      /\ IsFiniteSet(inbox) /\ IsFiniteSet(inbox') /\ Numbered(inbox')
  BY DEF IMailbox, IMonitoring, InboxTypes, Numbered
<1>1. CASE UNCHANGED reading
  <2> SUFFICES ASSUME NEW u \in Reader PROVE AnswerOK(u, look'[u], start'[u], inbox')
    BY DEF AnswersOK
  <2>1. look' = look /\ start' = start
    BY <1>1 DEF reading
  <2>2. look[u] \in Look /\ start[u] \in SUBSET Note /\ \A n \in start[u] : n.user = u
    BY <1>0 DEF LooksOK
  <2>3. AnswerOK(u, look[u], start[u], inbox)
    BY DEF AnswersOK
  <2>4. AnswerOK(u, look[u], start[u], inbox')
    BY <1>0, <2>2, <2>3, GrowsNext, AnswerStays
  <2> QED BY <2>1, <2>4
<1>2. CASE Crash
  BY <1>2, ClosedAnswers DEF Crash, AnswersOK
<1>3. ASSUME NEW u \in Reader, Shown(u) \/ ListFails(u) PROVE AnswersOK'
  <2>1. Becoming(u, Closed, {}) /\ inbox' = inbox
    BY <1>0, <1>3, Looked DEF Shown, ListFails, others
  <2> QED BY <1>0, <2>1, ClosedAnswers, OneAnswers
<1> QED BY <1>1, <1>2, <1>3, LookCases, OpenAnswers, ListAnswers, CountAnswers

\* The list and the count a user is shown are each right with regard to what had
\* happened when the request began, though they are queries of two moments and the
\* worker and the routes that mark as read go on in between.
THEOREM AnswersCorrect == Spec => []AnswerUpToDate
<1>1. Init => AnswersOK
  BY ClosedAnswers DEF Init, AnswersOK
<1>2. AnswersOK => AnswerUpToDate
  <2> SUFFICES ASSUME AnswersOK, NEW u \in Reader, look[u].told
               PROVE  ListRight(look[u], start[u], inbox) /\ CountRight(u, look[u], start[u], inbox)
    BY DEF AnswerUpToDate, ListRight, CountRight, Throughout, AsRead, ReadThen, MineIn, Mine
  <2> QED BY DEF AnswersOK, AnswerOK
<1> QED BY <1>1, <1>2, AnswersNext, MailboxInduction, PTL DEF Spec
=============================================================================
