---------------------------- MODULE MCMonitoring ----------------------------
(***************************************************************************)
(* Instances of Monitoring for TLC: one rented room with a lock, a fire    *)
(* sensor and an unknown device id, as in the seed script.                 *)
(***************************************************************************)
EXTENDS Monitoring, TLC

MCRoomOf == [d \in Registered |-> "room1"]
MCTypeOf == [d \in Registered |-> IF d = "lock1" THEN "lock" ELSE "fire_sensor"]
MCOwnerOf == [r \in RoomId |-> "owner1"]
MCBillTenant == [c \in BillCall |-> "tenant1"]
Rented == [r \in RoomId |-> "tenant1"]

Symmetry == Permutations(Slot)
=============================================================================
