----------------------------- MODULE Monitoring -----------------------------
(***************************************************************************)
(* Devices, Alerts and Notifications together: reports and commands in     *)
(* flight at once, tenants coming and going, failed calls, crashes of the  *)
(* process, the worker retrying jobs, and users opening their lists.       *)
(***************************************************************************)
EXTENDS Devices, Alerts, Inbox

Arrive(s) == DevicesBegin(s) \/ ResolveBegin(s)
Step(s) == DevicesStep(s) \/ AlertsStep(s)

\* RoomsService and AuthService change who lives in a room at any time.
TenantChanges(r) ==
  \E t \in (Tenants \cup {None}) \ {tenant[r]} :
    /\ tenant' = [tenant EXCEPT ![r] = t]
    /\ witnesses' = [s \in Slot |->
         IF alerts[s] # None /\ alerts[s].room = r /\ (At(s, "status", "emit") \/ s \in notifying)
         THEN witnesses[s] \cup ({t} \ {None}) ELSE witnesses[s]]
    /\ UNCHANGED <<platform, notifying, delivery, req>>

\* An awaited call fails, or is made and its answer lost, and the handler throws;
\* or notifyAlert's query does.
CallFails(s) ==
  /\ Faults
  /\ UNCHANGED <<platform, tenant, witnesses, delivery>>
  /\ \/ /\ req[s].pc \notin {"new", "done"}
        /\ Goto(s, "done")
        /\ UNCHANGED notifying
     \/ /\ s \in notifying
        /\ notifying' = notifying \ {s}
        /\ UNCHANGED req

\* The process dies and is started again, its worker with it.
Crash ==
  /\ Faults
  /\ req' = [s \in Slot |-> IF req[s].pc = "new" THEN req[s] ELSE [req[s] EXCEPT !.pc = "done"]]
  /\ notifying' = {}
  /\ jobs' = [j \in Job |-> IF j \in Busy THEN [jobs[j] EXCEPT !.at = "stalled"] ELSE jobs[j]]
  /\ look' = [u \in Reader |-> Closed] /\ start' = [u \in Reader |-> {}]
  /\ UNCHANGED <<platform, tenant, witnesses, pushed, inbox>>

Next ==
  \/ \E s \in Slot : Arrive(s) \/ Step(s) \/ NotifyAlert(s) \/ CallFails(s)
  \/ \E c \in BillCall : NotifyBill(c)
  \/ \E j \in Job : Run(j) \/ JobFails(j)
  \/ \E u \in UserId : MarkAllAsRead(u) \/ \E n \in inbox : MarkAsRead(n, u)
  \/ \E u \in Reader : OpenList(u) \/ ListQuery(u) \/ CountQuery(u) \/ Shown(u) \/ ListFails(u)
  \/ \E r \in RoomId : TenantChanges(r)
  \/ Crash

Spec == Init /\ [][Next]_vars

\* The worker keeps polling and looks for stalled jobs; nobody has to read.
WorkerSpec == Spec /\ WF_vars(\E j \in Job : Run(j))

----------------------------------------------------------------------------
\* "Audit trail - never skipped": a state the dashboard shows was reported or
\* ordered by a logged request, and so was every alert, whatever failed since.
AuditTrail ==
  /\ \A d \in Registered : devices[d].state # "seeded" =>
       \E s \in Slot : /\ logs[s] # None /\ logs[s].device = d
                       /\ devices[d].state \in {logs[s].value, NewState(logs[s].value)}
  /\ \A a \in Slot : alerts[a] # None =>
       logs[a] # None /\ logs[a].device = alerts[a].device /\ logs[a].value \in DOMAIN Alarm

\* Nobody is shown, or told of, an alert that is not stored.
NothingBeforeTheAlert ==
  /\ shown \cup notifying \subseteq {a \in Slot : alerts[a] # None}
  /\ \A j \in Job : j.call \in Slot /\ jobs[j].at # "none" => alerts[j.call] # None

\* A command goes to a device that is online and of its type, though both were
\* checked two awaited calls before: no code takes a device offline.
CommandsFit == \A x \in commands : devices[x[1]].online /\ Accepts(x[1], x[2])

\* An alert is announced to the owner of its room and to who lived there
\* between the alert and the query; a bill to the tenant it bills.
NotifiedWitnesses ==
  \A j \in Job : jobs[j].at # "none" =>
    IF j.call \in Slot
    THEN j.user \in {OwnerOf[alerts[j.call].room]} \cup witnesses[j.call]
    ELSE j.user = BillTenant[j.call]

\* A job BullMQ counts as completed had its effect.
CompletedDelivered ==
  \A j \in Job : jobs[j].at = "completed" =>
    IF j.kind = "save_db" THEN Copies(j) # {} ELSE <<j.user, j.call>> \in pushed

\* A retry or a redelivery saves the notification again, at most once per
\* attempt the options allow and per tolerated stall.
CopiesBounded ==
  \A j \in Job : j.kind = "save_db" => Cardinality(Copies(j)) <= Attempts + MaxStalled

\* A notification the user has read stays in the list and stays read, whatever
\* the worker redelivers.
ReadStays ==
  [][\A n \in inbox : [n EXCEPT !.read = TRUE] \in inbox' \/ (~n.read /\ n \in inbox')]_vars

\* A stored alert changes only by being resolved, in a request of an admin or
\* of the owner of its room.
AlertsResolvedByManagers ==
  [][\A a \in Slot : alerts[a] # None /\ alerts'[a] # alerts[a] =>
       /\ alerts'[a] = [alerts[a] EXCEPT !.resolved = TRUE]
       /\ \E s \in Slot : /\ req'[s] # req[s] /\ req[s].alert = a
                          /\ req[s].caller \in Admins \cup {OwnerOf[alerts[a].room]}]_vars

\* List and count are of two moments and need not agree.  Each still knows what
\* happened before the request: what had been read is not listed as unread; what
\* had been saved is listed unless newer ones fill the page, or unless it was read
\* meanwhile and only unread ones are asked for; the count takes in all that was
\* unread throughout and nothing that had been read.
AnswerUpToDate ==
  \A u \in Reader : look[u].told =>
    LET q == look[u]
        throughout == {n \in start[u] : ~n.read /\ n \in inbox} IN
    /\ \A n \in start[u] : n.read => [n EXCEPT !.read = FALSE] \notin q.list
    /\ \A n \in IF q.only THEN throughout ELSE start[u] :
         \/ {n, [n EXCEPT !.read = TRUE]} \cap q.list # {}
         \/ /\ Cardinality(q.list) = Page
            /\ \A m \in q.list : m.call = n.call => m.copy > n.copy
    /\ Cardinality(throughout) <= q.unread
    /\ q.unread <= Cardinality(Mine(u) \ {n \in start[u] : n.read})

\* The save jobs and the collection are a mailbox: one announcement each, then
\* copies until it is settled or given up, then nothing more.
SaveAt(places) ==
  {<<j.user, j.call>> : j \in {i \in Job : i.kind = "save_db" /\ jobs[i].at \in places}}
Box == INSTANCE Mailbox WITH
  User <- UserId, Subject <- Call, MaxCopies <- Attempts + MaxStalled,
  pending <- SaveAt({"waiting", "active", "worked", "stalled"}),
  settled <- SaveAt({"completed"}), lost <- SaveAt({"failed"}), list <- inbox
ImplementsMailbox == Box!Spec

\* With failures and crashes every queued job is completed or given up.
JobsSettle ==
  \A j \in Job : jobs[j].at = "waiting" ~> jobs[j].at \in {"completed", "failed"}
=============================================================================
