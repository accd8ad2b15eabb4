------------------------------ MODULE MCBridge ------------------------------
(***************************************************************************)
(* Instances of Bridge for TLC: a lock that reports failed passwords and   *)
(* is unlocked from a dashboard, on the serial line of one script.         *)
(***************************************************************************)
EXTENDS Bridge

MCRoomOf == [d \in Registered |-> "room1"]
MCTypeOf == [d \in Registered |-> "lock"]
MCOwnerOf == [r \in RoomId |-> "owner1"]
NoBills == <<>>
Vacant == [r \in RoomId |-> None]
MCBehind == [d \in Registered |-> "script1"]
MCLines == {<<"lock1", "PASSWORD_FAIL">>}
MCOrders == {<<"lock1", "UNLOCK">>}
=============================================================================
