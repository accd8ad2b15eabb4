-------------------------------- MODULE Inbox --------------------------------
(***************************************************************************)
(* getNotifications beside the worker and the routes that mark as read:    *)
(* the list and the number of unread ones are two queries of a Promise.all.*)
(***************************************************************************)
EXTENDS Notifications

others == <<platform, tenant, notifying, witnesses, jobs, pushed, inbox, req>>

Mine(u) == {n \in inbox : n.user = u}
Unread(u) == {n \in Mine(u) : ~n.read}

OpenList(u) ==
  /\ look[u] = Closed
  /\ look' = [look EXCEPT ![u].todo = {"list", "count"}]
  /\ start' = [start EXCEPT ![u] = Mine(u)]
  /\ UNCHANGED others

\* What one of the two queries brought; the second one completes the answer.
Brought(u, q) ==
  look' = [look EXCEPT ![u] = [q EXCEPT !.told = q.todo = {}]]

\* Mutant: the oldest notifications are listed.
OldestFirst(N, P) == \A n \in N \ P, m \in P : n.call = m.call => n.copy > m.copy

\* Sorted by time, newest first; of one subject the last copy is the newest,
\* between subjects any order is possible.
NewestFirst(N, P) == \A n \in N \ P, m \in P : n.call = m.call => n.copy < m.copy
FillsPage(N, P) == Cardinality(P) = Page \/ (P = N /\ Cardinality(N) < Page)

\* only: unread_only, which nothing before this query depends on.
ListQuery(u) ==
  /\ "list" \in look[u].todo
  /\ \E only \in BOOLEAN : \E P \in SUBSET Mine(u) :
       LET N == IF only THEN Unread(u) ELSE Mine(u) IN
       /\ P \subseteq N /\ NewestFirst(N, P) /\ FillsPage(N, P)
       /\ Brought(u, [look[u] EXCEPT !.todo = @ \ {"list"}, !.only = only, !.list = P])
  /\ UNCHANGED <<others, start>>

CountQuery(u) ==
  /\ "count" \in look[u].todo
  /\ Brought(u, [look[u] EXCEPT !.todo = @ \ {"count"}, !.unread = Cardinality(Unread(u))])
  /\ UNCHANGED <<others, start>>

Shown(u) ==
  /\ look[u].told
  /\ look' = [look EXCEPT ![u] = Closed] /\ start' = [start EXCEPT ![u] = {}]
  /\ UNCHANGED others

\* One query fails: the handler throws, and the answer of the other is dropped.
ListFails(u) ==
  /\ Faults /\ look[u].todo # {}
  /\ look' = [look EXCEPT ![u] = Closed] /\ start' = [start EXCEPT ![u] = {}]
  /\ UNCHANGED others
=============================================================================
