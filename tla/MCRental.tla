------------------------------ MODULE MCRental ------------------------------
(***************************************************************************)
(* Instances of Rental for TLC: who is there at the start, and symmetry.   *)
(* The documents the seeds name have strings for ids; slots and free ids   *)
(* are interchangeable model values.                                       *)
(***************************************************************************)
EXTENDS Rental, TLC

Account(e, role) == [email |-> e, role |-> role, room |-> None, phone |-> TRUE]
EmptyRoom(u) == [owner |-> u, tenant |-> None, status |-> "empty"]
RoomOf(u, t) == [owner |-> u, tenant |-> t, status |-> "occupied"]
LivingIn(r, e) == [Account(e, "tenant") EXCEPT !.room = r]

\* The seeds cover the ids of the instance; the rest are free ids.
Seed(f, ids) == [x \in ids |-> IF x \in DOMAIN f THEN f[x] ELSE None]

People ==
  Seed([admin |-> Account("m1", "admin"), owner1 |-> Account("m2", "owner"),
        owner2 |-> Account("m3", "owner"), tenant1 |-> Account("m4", "tenant"),
        tenant2 |-> Account("m5", "tenant")], UserId)

\* Two empty rooms, of owner1 or of two owners.
TwoRooms == Seed([room1 |-> EmptyRoom("owner1"), room2 |-> EmptyRoom("owner1")], RoomId)
RoomEach == Seed([room1 |-> EmptyRoom("owner1"), room2 |-> EmptyRoom("owner2")], RoomId)

\* tenant1 lives in room1.
LetRoom == Seed([room1 |-> RoomOf("owner1", "tenant1"), room2 |-> EmptyRoom("owner2")], RoomId)
LetPeople == [u \in UserId |-> IF u = "tenant1" THEN LivingIn("room1", "m4") ELSE People[u]]

NoBills == [b \in BillId |-> None]
\* bill1 of room1 is unpaid since another month.
LastMonth ==
  Seed([bill1 |-> [room |-> "room1", tenant |-> "tenant1", period |-> 2, status |-> "unpaid"]], BillId)

\* bill1 of room2 is pending, as one of the seed script's bills is.
PendingBill ==
  Seed([bill1 |-> [room |-> "room2", tenant |-> "tenant1", period |-> 1, status |-> "pending"]], BillId)

\* Slots, and the ids no document has at the start, are interchangeable.
Symmetry ==
  Permutations(Slot) \cup Permutations({b \in BillId : SeedBills[b] = None})
    \cup Permutations({u \in UserId : SeedUsers[u] = None})
=============================================================================
