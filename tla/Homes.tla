------------------------------- MODULE Homes -------------------------------
(***************************************************************************)
(* What the room register promises: a tenant has at most one home, a room  *)
(* houses at most one tenant, both change in one step, and a room is taken *)
(* out of the register only while nobody lives there.                      *)
(***************************************************************************)
CONSTANTS RoomId, UserId, Nowhere

VARIABLES open, home  \* the rooms that exist; where each user lives

Vacant(r) == \A u \in UserId : home[u] # r

Init == open \subseteq RoomId /\ home \in [UserId -> open \cup {Nowhere}]

Open(r) == r \notin open /\ open' = open \cup {r} /\ UNCHANGED home

Close(r) == r \in open /\ Vacant(r) /\ open' = open \ {r} /\ UNCHANGED home

MoveIn(u, r) ==
  /\ home[u] = Nowhere /\ r \in open /\ Vacant(r)
  /\ home' = [home EXCEPT ![u] = r]
  /\ UNCHANGED open

MoveOut(u) ==
  /\ home[u] # Nowhere
  /\ home' = [home EXCEPT ![u] = Nowhere]
  /\ UNCHANGED open

Next ==
  \/ \E r \in RoomId : Open(r) \/ Close(r)
  \/ \E u \in UserId : MoveOut(u) \/ \E r \in RoomId : MoveIn(u, r)

Spec == Init /\ [][Next]_<<open, home>>
=============================================================================
