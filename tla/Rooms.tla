------------------------------- MODULE Rooms -------------------------------
(***************************************************************************)
(* RoomsService: createRoom, assignTenant, updateStatus and deleteRoom,    *)
(* one action per awaited database call.  A disjunct of a step that        *)
(* answers is an early return or an exception of the handler.              *)
(***************************************************************************)
EXTENDS Database

Managers == Callers({"admin", "owner"})

\* Mutant: findRoomAndCheckOwnership finds the room and forgets the owner.
MayManageAnyRoom(q) == rooms[q.room] # None

\* findRoomAndCheckOwnership lets an admin pass, and the owner of the room.
MayManage(q) ==
  /\ rooms[q.room] # None
  /\ \/ users[q.caller].role = "admin"
     \/ rooms[q.room].owner = q.caller

----------------------------------------------------------------------------
CreateRoomBegin(s) ==
  \E u \in Managers, r \in FreshRooms :
    Begin(s, [Blank EXCEPT !.op = "createRoom", !.pc = "insert",
                           !.caller = u, !.room = r])

CreateRoomInsert(s) ==
  /\ At(s, "createRoom", "insert")
  /\ rooms' = [rooms EXCEPT ![req[s].room] =
                 [owner |-> req[s].caller, tenant |-> None, status |-> "empty"]]
  /\ Answer(s)
  /\ UNCHANGED <<users, bills, gone, notices, receipts>>

----------------------------------------------------------------------------
AssignTenantBegin(s) ==
  \E u \in Managers, r \in RoomId, t \in UserId :
    Begin(s, [Blank EXCEPT !.op = "assignTenant", !.pc = "room", !.caller = u,
                           !.room = r, !.user = t])

\* The room must be there, be the caller's, and be empty.
AssignTenantRoom(s) ==
  /\ At(s, "assignTenant", "room")
  /\ IF MayManage(req[s]) /\ rooms[req[s].room].status = "empty"
     THEN Goto(s, "tenant") ELSE Answer(s)
  /\ UNCHANGED db

\* Mutants: assignTenant without its role check, without its room_id check.
MayMoveInAnyRole(u) == users[u] # None /\ users[u].room = None
MayMoveInAgain(u) == users[u] # None /\ users[u].role = "tenant"

MayMoveIn(u) == users[u] # None /\ users[u].role = "tenant" /\ users[u].room = None

\* The user must be a tenant who lives nowhere; then both writes are issued.
AssignTenantTenant(s) ==
  /\ At(s, "assignTenant", "tenant")
  /\ IF MayMoveIn(req[s].user)
     THEN req' = [req EXCEPT ![s].pc = "write", ![s].todo = {"room", "user"}]
     ELSE Answer(s)
  /\ UNCHANGED db

\* One write of a Promise.all settles; the last one lets the handler answer.
Settle(s, w) ==
  IF req[s].todo = {w} THEN Answer(s)
  ELSE req' = [req EXCEPT ![s].todo = @ \ {w}]

AssignTenantSetRoom(s) ==
  /\ At(s, "assignTenant", "write") /\ "room" \in req[s].todo
  /\ SetRoom(req[s].room, req[s].user, "occupied")
  /\ Settle(s, "room")
  /\ UNCHANGED <<users, bills, gone, notices, receipts>>

AssignTenantSetUser(s) ==
  /\ At(s, "assignTenant", "write") /\ "user" \in req[s].todo
  /\ SetHome(req[s].user, req[s].room)
  /\ Settle(s, "user")
  /\ UNCHANGED <<rooms, bills, gone, notices, receipts>>

----------------------------------------------------------------------------
UpdateStatusBegin(s) ==
  \E u \in Managers, r \in RoomId, st \in RoomStatus :
    Begin(s, [Blank EXCEPT !.op = "updateStatus", !.pc = "room", !.caller = u,
                           !.room = r, !.status = st])

\* Mutants: "occupied" is accepted; the evicted tenant keeps their room_id.
MaySetAnyStatus(q) == MayManage(q)
RoomWriteOnly(r) == {"room"}

\* "occupied" is refused; the tenant read here, if any, is the one evicted.
MaySetStatus(q) == MayManage(q) /\ q.status # "occupied"
StatusWrites(r) == IF rooms[r].tenant = None THEN {"room"} ELSE {"room", "user"}

UpdateStatusRoom(s) ==
  LET r == req[s].room IN
  /\ At(s, "updateStatus", "room")
  /\ IF MaySetStatus(req[s])
     THEN req' = [req EXCEPT ![s].pc = "write", ![s].user = rooms[r].tenant,
                             ![s].todo = StatusWrites(r)]
     ELSE Answer(s)
  /\ UNCHANGED db

\* Without a tenant to evict only the status field is written.
TenantLeft(q) == IF q.user = None THEN rooms[q.room].tenant ELSE None

UpdateStatusSetRoom(s) ==
  LET q == req[s] IN
  /\ At(s, "updateStatus", "write") /\ "room" \in q.todo
  /\ SetRoom(q.room, TenantLeft(q), q.status)
  /\ Settle(s, "room")
  /\ UNCHANGED <<users, bills, gone, notices, receipts>>

UpdateStatusSetUser(s) ==
  /\ At(s, "updateStatus", "write") /\ "user" \in req[s].todo
  /\ SetHome(req[s].user, None)
  /\ Settle(s, "user")
  /\ UNCHANGED <<rooms, bills, gone, notices, receipts>>

----------------------------------------------------------------------------
DeleteRoomBegin(s) ==
  \E u \in Managers, r \in RoomId :
    Begin(s, [Blank EXCEPT !.op = "deleteRoom", !.pc = "room",
                           !.caller = u, !.room = r])

\* Mutants: an integrity check left out; a pending bill counts as paid.
MayDeleteOccupied(q) == MayManage(q)
HasDevicesNever(r) == FALSE
OwingUnpaid(r) == {b \in BillId : bills[b] # None /\ bills[b].room = r /\ bills[b].status = "unpaid"}

\* The integrity checks: no tenant, no device, no bill that is not paid.
MayDelete(q) == MayManage(q) /\ rooms[q.room].tenant = None
HasDevices(r) == r \in DeviceRooms
Owing(r) == {b \in BillId : bills[b] # None /\ bills[b].room = r /\ bills[b].status # "paid"}

DeleteRoomRoom(s) ==
  /\ At(s, "deleteRoom", "room")
  /\ IF MayDelete(req[s]) THEN Goto(s, "devices") ELSE Answer(s)
  /\ UNCHANGED db

DeleteRoomDevices(s) ==
  /\ At(s, "deleteRoom", "devices")
  /\ IF HasDevices(req[s].room) THEN Answer(s) ELSE Goto(s, "bills")
  /\ UNCHANGED db

DeleteRoomBills(s) ==
  /\ At(s, "deleteRoom", "bills")
  /\ IF Owing(req[s].room) = {} THEN Goto(s, "remove") ELSE Answer(s)
  /\ UNCHANGED db

\* findByIdAndDelete: the conditions of the three checks are not part of it.
DeleteRoomRemove(s) ==
  /\ At(s, "deleteRoom", "remove")
  /\ rooms' = [rooms EXCEPT ![req[s].room] = None]
  /\ gone' = gone \cup {req[s].room}
  /\ Answer(s)
  /\ UNCHANGED <<users, bills, notices, receipts>>

----------------------------------------------------------------------------
RoomsBegin(s) ==
  \/ CreateRoomBegin(s) \/ AssignTenantBegin(s)
  \/ UpdateStatusBegin(s) \/ DeleteRoomBegin(s)

RoomsStep(s) ==
  \/ CreateRoomInsert(s)
  \/ AssignTenantRoom(s) \/ AssignTenantTenant(s)
  \/ AssignTenantSetRoom(s) \/ AssignTenantSetUser(s)
  \/ UpdateStatusRoom(s) \/ UpdateStatusSetRoom(s) \/ UpdateStatusSetUser(s)
  \/ DeleteRoomRoom(s) \/ DeleteRoomDevices(s)
  \/ DeleteRoomBills(s) \/ DeleteRoomRemove(s)
=============================================================================
