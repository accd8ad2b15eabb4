------------------------------- MODULE MCInbox -------------------------------
(***************************************************************************)
(* An instance of Monitoring for TLC: the jobs of one bill, and its tenant.*)
(***************************************************************************)
EXTENDS Monitoring

MCRoomOf == [d \in Registered |-> "room1"]
MCTypeOf == [d \in Registered |-> "fire_sensor"]
MCOwnerOf == [r \in RoomId |-> "owner1"]
MCBillTenant == [c \in BillCall |-> "tenant1"]
Vacant == [r \in RoomId |-> None]
=============================================================================
