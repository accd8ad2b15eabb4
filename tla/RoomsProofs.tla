----------------------------- MODULE RoomsProofs -----------------------------
(***************************************************************************)
(* Rooms, accounts and announcements: what each handler checked on a copy  *)
(* it read several calls ago still holds when it writes - for every        *)
(* instance, interleaving, lost write and crash.                           *)
(***************************************************************************)
EXTENDS BillingProofs

IsTenant(u) == users[u] # None /\ users[u].role = "tenant"
IsAdmin(u) == users[u] # None /\ users[u].role = "admin"

\* A room that exists or existed: its id is not drawn again.
Born(r) == rooms[r] # None \/ r \in gone

OwnedBy(r, u) == Born(r) /\ (rooms[r] # None => rooms[r].owner = u)
ManagedBy(r, u) == OwnedBy(r, u) \/ (Born(r) /\ IsAdmin(u))

\* What a handler has established by the time of its next call.
Vetted(q) ==
  /\ q.op \notin {"idle", "sendBillReminders"} => q.caller \in UserId /\ users[q.caller] # None
  /\ \/ q.op = "assignTenant" /\ q.pc \in {"tenant", "write"}
     \/ q.op = "updateStatus" /\ q.pc = "write"
     \/ q.op = "deleteRoom" /\ q.pc \in {"devices", "bills", "remove"}
     => ManagedBy(q.room, q.caller)
  /\ q.op = "registerTenant" /\ q.pc \in {"user", "link"} => OwnedBy(q.room, q.caller)
  /\ \/ q.op = "assignTenant" /\ q.pc = "write"
     \/ q.op = "registerTenant" /\ q.pc = "link"
     \/ q.op = "createBill" /\ q.pc # "room"
     => IsTenant(q.user)
  /\ q.op = "createBill" /\ q.pc = "notify" =>
       bills[q.bill] # None /\ bills[q.bill].tenant = q.user
  /\ q.op = "deleteRoom" /\ q.pc \in {"bills", "remove"} => q.room \notin DeviceRooms

AllVetted == \A s \in Slot : Vetted(req[s])

\* The ids drawn for a new room and for a new account are free until they are
\* used, and no other request drew them.
Registering == {"inviteOwner", "registerTenant"}
RoomsReserved ==
  \A s \in Slot : req[s].op = "createRoom" =>
    /\ ~Born(req[s].room)
    /\ \A t \in Slot : t # s /\ req[t].op = "createRoom" => req[t].room # req[s].room
UsersReserved ==
  \A s \in Slot : req[s].op \in Registering /\ req[s].pc # "link" =>
    /\ users[req[s].user] = None
    /\ \A t \in Slot : t # s /\ req[t].op \in Registering => req[t].user # req[s].user

GoneStayGone == \A r \in gone : rooms[r] = None

IRooms ==
  /\ IBills /\ AllVetted /\ RoomsReserved /\ UsersReserved /\ GoneStayGone
  /\ OnlyTenantsLiveInRooms

----------------------------------------------------------------------------
(***************************************************************************)
(* What a step does to the collections.  Accounts keep their role and      *)
(* bills their tenant; a room keeps its owner, and once it is gone it      *)
(* stays away.                                                             *)
(***************************************************************************)
UserWrite(s) ==
  \/ AssignTenantSetUser(s) \/ UpdateStatusSetUser(s)
  \/ InviteOwnerUser(s) \/ RegisterTenantUser(s)

LEMMA UserWriters == [Next]_vars => users' = users \/ \E s \in Slot : UserWrite(s)
<1> SUFFICES ASSUME [Next]_vars, users' # users PROVE \E s \in Slot : UserWrite(s)
  OBVIOUS
<1>1. PICK s \in Slot : Arrive(s) \/ Step(s)
  BY DEF Next, CallFails, Crash, vars, db
<1>2. ~Arrive(s)
  BY DEF Arrive, RoomsBegin, AuthBegin, BillsBegin, CreateRoomBegin, AssignTenantBegin,
     UpdateStatusBegin, DeleteRoomBegin, InviteOwnerBegin, RegisterTenantBegin, CreateBillBegin,
     ConfirmPaymentBegin, SendBillRemindersBegin, Begin, db
<1>3. RoomsStep(s) => UserWrite(s)
  BY DEF RoomsStep, UserWrite, CreateRoomInsert, AssignTenantRoom, AssignTenantTenant,
     AssignTenantSetRoom, UpdateStatusRoom, UpdateStatusSetRoom, DeleteRoomRoom,
     DeleteRoomDevices, DeleteRoomBills, DeleteRoomRemove, db
<1>4. AuthStep(s) => UserWrite(s)
  BY DEF AuthStep, UserWrite, InviteOwnerEmail, RegisterTenantEmail, RegisterTenantRoom,
     RegisterTenantLink, db
<1>5. ~BillsStep(s)
  BY DEF BillsStep, CreateBillRoom, CreateBillTenant, CreateBillInsert, CreateBillNotify,
     ConfirmPaymentBill, ConfirmPaymentRoom, ConfirmPaymentUpdate, SendBillRemindersFind,
     SendBillRemindersEach, db
<1> QED BY <1>1, <1>2, <1>3, <1>4, <1>5 DEF Step

UsersKeepRole ==
  \A u \in UserId : users[u] # None => users'[u] # None /\ users'[u].role = users[u].role
BillsKeepTenant ==
  \A b \in BillId : bills[b] # None => bills'[b] # None /\ bills'[b].tenant = bills[b].tenant
RoomsKeepOwner ==
  \A r \in RoomId : Born(r) =>
    /\ rooms'[r] # None \/ r \in gone'
    /\ rooms'[r] # None => rooms[r] # None /\ rooms'[r].owner = rooms[r].owner

\* A write to the users sets one room_id, or adds an account under a free id.
LEMMA UsersStepwise ==
  ASSUME IType, UsersReserved, [Next]_vars
  PROVE  \/ users' = users
         \/ \E s \in Slot : /\ AssignTenantSetUser(s) /\ req[s].user \in UserId
                            /\ req[s].room \in RoomId /\ SetHome(req[s].user, req[s].room)
         \/ \E u \in UserId : SetHome(u, None)
         \/ \E s \in Slot, ph \in BOOLEAN :
              /\ req[s].user \in UserId /\ users[req[s].user] = None
              /\ \/ InsertUser(req[s].user, OwnerAccount(req[s], ph))
                    /\ OwnerAccount(req[s], ph) \in UserDoc
                 \/ InsertUser(req[s].user, TenantAccount(req[s], ph))
                    /\ TenantAccount(req[s], ph) \in UserDoc
<1> SUFFICES ASSUME NEW s \in Slot, UserWrite(s), users' # users
             PROVE  \/ /\ AssignTenantSetUser(s) /\ req[s].user \in UserId
                       /\ req[s].room \in RoomId /\ SetHome(req[s].user, req[s].room)
                    \/ \E u \in UserId : SetHome(u, None)
                    \/ \E ph \in BOOLEAN :
                         /\ req[s].user \in UserId /\ users[req[s].user] = None
                         /\ \/ InsertUser(req[s].user, OwnerAccount(req[s], ph))
                               /\ OwnerAccount(req[s], ph) \in UserDoc
                            \/ InsertUser(req[s].user, TenantAccount(req[s], ph))
                               /\ TenantAccount(req[s], ph) \in UserDoc
  BY UserWriters
<1>0. req[s] \in Request /\ Shape(req[s])
  BY DEF IType, TypeOK, ShapesOK
<1>1. CASE AssignTenantSetUser(s)
  BY <1>0, <1>1 DEF AssignTenantSetUser, At, Shape
<1>2. CASE UpdateStatusSetUser(s)
  BY <1>0, <1>2 DEF UpdateStatusSetUser, At, Shape
<1>3. CASE InviteOwnerUser(s)
  <2>1. req[s].op = "inviteOwner" /\ req[s].pc = "user" /\ req[s].user \in UserId
    BY <1>0, <1>3 DEF InviteOwnerUser, At, Shape
  <2>2. PICK ph \in BOOLEAN : InsertUser(req[s].user, OwnerAccount(req[s], ph))
    BY <1>3 DEF InviteOwnerUser, DuplicateEmail, db
  <2>3. OwnerAccount(req[s], ph) \in UserDoc
    BY <1>0, <2>1 DEF Shape, OwnerAccount, UserDoc, Role
  <2>4. users[req[s].user] = None
    BY <2>1 DEF UsersReserved, Registering
  <2> QED BY <2>1, <2>2, <2>3, <2>4
<1>4. CASE RegisterTenantUser(s)
  <2>1. req[s].op = "registerTenant" /\ req[s].pc = "user" /\ req[s].user \in UserId
    BY <1>0, <1>4 DEF RegisterTenantUser, At, Shape
  <2>2. PICK ph \in BOOLEAN : InsertUser(req[s].user, TenantAccount(req[s], ph))
    BY <1>4 DEF RegisterTenantUser, DuplicateEmail, db
  <2>3. TenantAccount(req[s], ph) \in UserDoc
    BY <1>0, <2>1 DEF Shape, TenantAccount, UserDoc, Role
  <2>4. users[req[s].user] = None
    BY <2>1 DEF UsersReserved, Registering
  <2> QED BY <2>1, <2>2, <2>3, <2>4
<1> QED BY <1>1, <1>2, <1>3, <1>4 DEF UserWrite

LEMMA RolesKept == ASSUME IType, UsersReserved, [Next]_vars PROVE UsersKeepRole
<1>1. ASSUME NEW u \in UserId, NEW r \in RoomId \cup {None}, SetHome(u, r)
      PROVE  UsersKeepRole
  <2>1. CASE users[u] = None
    BY <1>1, <2>1 DEF SetHome, UsersKeepRole
  <2>2. CASE users[u] # None
    <3>1. [users[u] EXCEPT !.room = r] \in UserDoc
          /\ [users[u] EXCEPT !.room = r].role = users[u].role
      BY <2>2 DEF IType, TypeOK, UserDoc
    <3>2. users' = [users EXCEPT ![u] = [users[u] EXCEPT !.room = r]]
      BY <1>1, <2>2 DEF SetHome, IType, TypeOK
    <3> QED BY <3>1, <3>2, IdsAssumption DEF UsersKeepRole, IType, TypeOK
  <2> QED BY <2>1, <2>2
<1>2. ASSUME NEW u \in UserId, NEW doc, users[u] = None, InsertUser(u, doc)
      PROVE  UsersKeepRole
  BY <1>2 DEF InsertUser, UsersKeepRole, IType, TypeOK
<1>3. CASE users' = users
  BY <1>3 DEF UsersKeepRole
<1> QED BY <1>1, <1>2, <1>3, UsersStepwise

LEMMA TenantsOfBillsKept == ASSUME IBills, [Next]_vars PROVE BillsKeepTenant
<1>1. CASE bills' = bills
  BY <1>1 DEF BillsKeepTenant
<1>2. ASSUME NEW b \in BillId, NEW bill \in BillDoc, BillAdded(b, bill) PROVE BillsKeepTenant
  BY <1>2 DEF BillAdded, BillsKeepTenant, IBills, IType, TypeOK
<1>3. ASSUME NEW b \in BillId, BillPaid(b) PROVE BillsKeepTenant
  <2>1. Paid(bills[b]) \in BillDoc /\ Paid(bills[b]).tenant = bills[b].tenant
    BY <1>3 DEF BillPaid, Payable, Paid, IBills, IType, TypeOK, BillDoc, BillStatus
  <2> QED BY <1>3, <2>1, IdsAssumption DEF BillPaid, BillsKeepTenant, IBills, IType, TypeOK
<1> QED BY <1>1, <1>2, <1>3, BillsStepwise

LEMMA GoneWriters == [Next]_vars => gone' = gone \/ \E s \in Slot : DeleteRoomRemove(s)
<1> SUFFICES ASSUME [Next]_vars, gone' # gone PROVE \E s \in Slot : DeleteRoomRemove(s)
  OBVIOUS
<1>1. PICK s \in Slot : Arrive(s) \/ Step(s)
  BY DEF Next, CallFails, Crash, vars, db
<1>2. ~Arrive(s)
  BY DEF Arrive, RoomsBegin, AuthBegin, BillsBegin, CreateRoomBegin, AssignTenantBegin,
     UpdateStatusBegin, DeleteRoomBegin, InviteOwnerBegin, RegisterTenantBegin, CreateBillBegin,
     ConfirmPaymentBegin, SendBillRemindersBegin, Begin, db
<1>3. RoomsStep(s) => DeleteRoomRemove(s)
  BY DEF RoomsStep, CreateRoomInsert, AssignTenantRoom, AssignTenantTenant, AssignTenantSetRoom,
     AssignTenantSetUser, UpdateStatusRoom, UpdateStatusSetRoom, UpdateStatusSetUser,
     DeleteRoomRoom, DeleteRoomDevices, DeleteRoomBills, db
<1>4. ~AuthStep(s)
  BY DEF AuthStep, InviteOwnerEmail, InviteOwnerUser, RegisterTenantEmail, RegisterTenantRoom,
     RegisterTenantUser, RegisterTenantLink, DuplicateEmail, db
<1>5. ~BillsStep(s)
  BY DEF BillsStep, CreateBillRoom, CreateBillTenant, CreateBillInsert, CreateBillNotify,
     ConfirmPaymentBill, ConfirmPaymentRoom, ConfirmPaymentUpdate, SendBillRemindersFind,
     SendBillRemindersEach, db
<1> QED BY <1>1, <1>2, <1>3, <1>4, <1>5 DEF Step

\* A write to the rooms inserts one under a free id, sets tenant and status of
\* one that is there, or removes one.
RoomAdded(s) ==
  /\ CreateRoomInsert(s) /\ ~Born(req[s].room) /\ gone' = gone
  /\ rooms' = [rooms EXCEPT ![req[s].room] =
                 [owner |-> req[s].caller, tenant |-> None, status |-> "empty"]]
RoomSet(r, t, st) ==
  /\ rooms[r] # None /\ t \in UserId \cup {None} /\ st \in RoomStatus
  /\ gone' = gone
  /\ rooms' = [rooms EXCEPT ![r] = [rooms[r] EXCEPT !.tenant = t, !.status = st]]
RoomRemoved(r) == rooms' = [rooms EXCEPT ![r] = None] /\ gone' = gone \cup {r}

LEMMA RoomsStepwise ==
  ASSUME IType, RoomsReserved, [Next]_vars
  PROVE  \/ rooms' = rooms /\ gone' = gone
         \/ \E s \in Slot : req[s].room \in RoomId /\ RoomAdded(s)
         \/ \E s \in Slot : /\ req[s].room \in RoomId
                            /\ \/ /\ AssignTenantSetRoom(s) \/ RegisterTenantLink(s)
                                  /\ RoomSet(req[s].room, req[s].user, "occupied")
                               \/ /\ UpdateStatusSetRoom(s)
                                  /\ RoomSet(req[s].room, TenantLeft(req[s]), req[s].status)
         \/ \E s \in Slot : /\ DeleteRoomRemove(s) /\ req[s].room \in RoomId
                            /\ RoomRemoved(req[s].room)
<1>1. ASSUME NEW s \in Slot, DeleteRoomRemove(s)
      PROVE  req[s].room \in RoomId /\ RoomRemoved(req[s].room)
  BY <1>1 DEF DeleteRoomRemove, RoomRemoved, At, IType, ShapesOK, Shape
<1>2. ASSUME NEW s \in Slot, CreateRoomInsert(s)
      PROVE  req[s].room \in RoomId /\ RoomAdded(s)
  BY <1>2 DEF CreateRoomInsert, RoomAdded, At, IType, ShapesOK, Shape, RoomsReserved
<1>3. ASSUME NEW s \in Slot, NEW t \in UserId \cup {None}, NEW st \in RoomStatus,
             req[s].room \in RoomId,
             SetRoom(req[s].room, t, st), rooms' # rooms, gone' = gone
      PROVE  RoomSet(req[s].room, t, st)
  BY <1>3 DEF SetRoom, RoomSet, IType, TypeOK
<1>4. ASSUME NEW s \in Slot, AssignTenantSetRoom(s) \/ RegisterTenantLink(s), rooms' # rooms
      PROVE  req[s].room \in RoomId /\ RoomSet(req[s].room, req[s].user, "occupied")
  <2>1. req[s].room \in RoomId /\ req[s].user \in UserId /\ "occupied" \in RoomStatus
    BY <1>4 DEF AssignTenantSetRoom, RegisterTenantLink, At, IType, ShapesOK, Shape, RoomStatus
  <2> QED BY <1>3, <1>4, <2>1 DEF AssignTenantSetRoom, RegisterTenantLink
<1>5. ASSUME NEW s \in Slot, UpdateStatusSetRoom(s), rooms' # rooms
      PROVE  req[s].room \in RoomId /\ RoomSet(req[s].room, TenantLeft(req[s]), req[s].status)
  <2>1. req[s].room \in RoomId /\ req[s].status \in RoomStatus
    BY <1>5 DEF UpdateStatusSetRoom, At, IType, ShapesOK, Shape
  <2>2. rooms[req[s].room] \in RoomDoc
    BY <1>5, <2>1 DEF UpdateStatusSetRoom, SetRoom, IType, TypeOK
  <2>3. TenantLeft(req[s]) \in UserId \cup {None}
    BY <2>2 DEF TenantLeft, RoomDoc
  <2> QED BY <1>3, <1>5, <2>1, <2>3 DEF UpdateStatusSetRoom
<1>6. CASE rooms' = rooms
  BY <1>1, <1>6, GoneWriters
<1>7. CASE rooms' # rooms
  <2>1. PICK s \in Slot : RoomWrite(s)
    BY <1>7, RoomWriters
  <2> QED BY <1>1, <1>2, <1>4, <1>5, <1>7, <2>1 DEF RoomWrite
<1> QED BY <1>6, <1>7

LEMMA RoomSetFields ==
  ASSUME IType, NEW r \in RoomId, NEW t, NEW st, RoomSet(r, t, st)
  PROVE  /\ rooms'[r] # None /\ rooms'[r].owner = rooms[r].owner /\ rooms'[r].tenant = t
         /\ \A x \in RoomId \ {r} : rooms'[x] = rooms[x]
<1> DEFINE doc == [rooms[r] EXCEPT !.tenant = t, !.status = st]
<1>1. doc \in RoomDoc /\ doc.owner = rooms[r].owner /\ doc.tenant = t
  BY DEF RoomSet, IType, TypeOK, RoomDoc
<1>2. rooms' = [rooms EXCEPT ![r] = doc]
  BY DEF RoomSet
<1> HIDE DEF doc
<1> QED BY <1>1, <1>2, IdsAssumption DEF IType, TypeOK

LEMMA OwnersKept == ASSUME IType, RoomsReserved, [Next]_vars PROVE RoomsKeepOwner
<1>1. CASE rooms' = rooms /\ gone' = gone
  BY <1>1 DEF RoomsKeepOwner, Born
<1>2. ASSUME NEW s \in Slot, req[s].room \in RoomId, RoomAdded(s) PROVE RoomsKeepOwner
  BY <1>2 DEF RoomAdded, RoomsKeepOwner, Born, IType, TypeOK
<1>3. ASSUME NEW r \in RoomId, NEW u, NEW st, RoomSet(r, u, st) PROVE RoomsKeepOwner
  <2>1. gone' = gone /\ rooms[r] # None
    BY <1>3 DEF RoomSet
  <2> QED BY <1>3, <2>1, RoomSetFields DEF RoomsKeepOwner, Born
<1>4. ASSUME NEW r \in RoomId, RoomRemoved(r) PROVE RoomsKeepOwner
  BY <1>4 DEF RoomRemoved, RoomsKeepOwner, Born, IType, TypeOK
<1> QED BY <1>1, <1>2, <1>3, <1>4, RoomsStepwise

LEMMA GoneNext == ASSUME IType, RoomsReserved, GoneStayGone, [Next]_vars PROVE GoneStayGone'
<1>0. gone \subseteq RoomId
  BY DEF IType, TypeOK
<1>1. CASE rooms' = rooms /\ gone' = gone
  BY <1>1 DEF GoneStayGone
<1>2. ASSUME NEW s \in Slot, req[s].room \in RoomId, RoomAdded(s) PROVE GoneStayGone'
  BY <1>0, <1>2 DEF RoomAdded, GoneStayGone, Born, IType, TypeOK
<1>3. ASSUME NEW r \in RoomId, NEW u, NEW st, RoomSet(r, u, st) PROVE GoneStayGone'
  BY <1>0, <1>3 DEF RoomSet, GoneStayGone, IType, TypeOK
<1>4. ASSUME NEW r \in RoomId, RoomRemoved(r) PROVE GoneStayGone'
  BY <1>0, <1>4 DEF RoomRemoved, GoneStayGone, IType, TypeOK
<1> QED BY <1>1, <1>2, <1>3, <1>4, RoomsStepwise

----------------------------------------------------------------------------
(***************************************************************************)
(* What a handler has established stays true while other requests write.   *)
(***************************************************************************)
DbMoves == UsersKeepRole /\ BillsKeepTenant /\ RoomsKeepOwner

Same(q, q2) ==
  /\ q2.op = q.op /\ q2.pc = q.pc /\ q2.caller = q.caller
  /\ q2.room = q.room /\ q2.user = q.user /\ q2.bill = q.bill

LEMMA StaysManaged ==
  ASSUME NEW r \in RoomId, NEW u \in UserId, UsersKeepRole, RoomsKeepOwner
  PROVE  /\ OwnedBy(r, u) => OwnedBy(r, u)'
         /\ ManagedBy(r, u) => ManagedBy(r, u)'
BY DEF OwnedBy, ManagedBy, UsersKeepRole, RoomsKeepOwner, Born, IsAdmin

LEMMA StaysTenant ==
  ASSUME NEW u \in UserId, UsersKeepRole, IsTenant(u) PROVE IsTenant(u)'
BY DEF IsTenant, UsersKeepRole

LEMMA StaysVetted ==
  ASSUME DbMoves, NEW t \in Slot, Shape(req[t]), Vetted(req[t]), Same(req[t], req'[t])
  PROVE  Vetted(req[t])'
<1> DEFINE q == req[t]
<1>1. q.op \notin {"idle", "sendBillReminders"} => q.caller \in UserId /\ users'[q.caller] # None
  BY DEF Vetted, DbMoves, UsersKeepRole
<1>2. \/ q.op = "assignTenant" /\ q.pc \in {"tenant", "write"}
      \/ q.op = "updateStatus" /\ q.pc = "write"
      \/ q.op = "deleteRoom" /\ q.pc \in {"devices", "bills", "remove"}
      => q.room \in RoomId /\ q.caller \in UserId /\ ManagedBy(q.room, q.caller)
  BY DEF Vetted, Shape
<1>3. q.op = "registerTenant" /\ q.pc \in {"user", "link"}
      => q.room \in RoomId /\ q.caller \in UserId /\ OwnedBy(q.room, q.caller)
  BY DEF Vetted, Shape
<1>4. \/ q.op = "assignTenant" /\ q.pc = "write"
      \/ q.op = "registerTenant" /\ q.pc = "link"
      \/ q.op = "createBill" /\ q.pc # "room"
      => q.user \in UserId /\ IsTenant(q.user)
  BY DEF Vetted, Shape
<1>5. q.op = "createBill" /\ q.pc = "notify" => bills'[q.bill] # None /\ bills'[q.bill].tenant = q.user
  BY DEF Vetted, Shape, DbMoves, BillsKeepTenant
<1>6. q.op = "deleteRoom" /\ q.pc \in {"bills", "remove"} => q.room \notin DeviceRooms
  BY DEF Vetted
<1> HIDE DEF q
<1>7. PICK room, caller, user : room = q.room /\ caller = q.caller /\ user = q.user
  OBVIOUS
<1>8. \/ q.op = "assignTenant" /\ q.pc \in {"tenant", "write"}
      \/ q.op = "updateStatus" /\ q.pc = "write"
      \/ q.op = "deleteRoom" /\ q.pc \in {"devices", "bills", "remove"}
      => ManagedBy(room, caller)'
  BY <1>2, <1>7, StaysManaged DEF DbMoves
<1>9. q.op = "registerTenant" /\ q.pc \in {"user", "link"} => OwnedBy(room, caller)'
  BY <1>3, <1>7, StaysManaged DEF DbMoves
<1>10. \/ q.op = "assignTenant" /\ q.pc = "write"
       \/ q.op = "registerTenant" /\ q.pc = "link"
       \/ q.op = "createBill" /\ q.pc # "room"
       => IsTenant(user)'
  BY <1>4, <1>7, StaysTenant DEF DbMoves
<1>11. Same(q, req'[t])
  BY DEF q
<1> QED BY <1>1, <1>5, <1>6, <1>7, <1>8, <1>9, <1>10, <1>11
        DEF Vetted, Same, ManagedBy, OwnedBy, Born, IsAdmin, IsTenant

\* A step that reads leaves the database alone: what it makes of its request
\* has to be vetted in the state it read.
LEMMA ReadVetted ==
  ASSUME IType, UNCHANGED db, NEW s \in Slot, NEW q, Vetted(q), req' = [req EXCEPT ![s] = q]
  PROVE  Vetted(req[s])'
<1>1. req'[s] = q
  BY DEF IType, TypeOK
<1> QED BY <1>1 DEF Vetted, ManagedBy, OwnedBy, Born, IsAdmin, IsTenant, db

LEMMA AnswerVetted == ASSUME IType, NEW s \in Slot, Answer(s) PROVE Vetted(req[s])'
<1>1. req'[s] = Blank
  BY DEF Answer, IType, TypeOK
<1> QED BY <1>1 DEF Vetted, Blank

LEMMA GotoVetted ==
  ASSUME IType, UNCHANGED db, NEW s \in Slot, NEW pc, Goto(s, pc),
         Vetted([req[s] EXCEPT !.pc = pc])
  PROVE  Vetted(req[s])'
BY ReadVetted DEF Goto, IType, TypeOK

LEMMA SettleVetted ==
  ASSUME IType, DbMoves, NEW s \in Slot, Vetted(req[s]), NEW w, Settle(s, w)
  PROVE  Vetted(req[s])'
<1>1. CASE Answer(s)
  BY <1>1, AnswerVetted
<1>2. CASE req' = [req EXCEPT ![s].todo = @ \ {w}]
  <2>1. Same(req[s], req'[s]) /\ Shape(req[s])
    BY <1>2 DEF Same, IType, TypeOK, ShapesOK, Request
  <2> QED BY <2>1, StaysVetted
<1> QED BY <1>1, <1>2 DEF Settle

LEMMA MayManageManaged ==
  ASSUME NEW s \in Slot, Vetted(req[s]), req[s].op \notin {"idle", "sendBillReminders"},
         MayManage(req[s])
  PROVE  ManagedBy(req[s].room, req[s].caller)
BY DEF MayManage, ManagedBy, OwnedBy, Born, IsAdmin, Vetted

LEMMA RoomsVetted ==
  ASSUME IType, DbMoves, NEW s \in Slot, Vetted(req[s]), RoomsStep(s)
  PROVE  Vetted(req[s])'
<1>0. req[s] \in Request
  BY DEF IType, TypeOK
<1>1. CASE CreateRoomInsert(s) \/ DeleteRoomRemove(s)
  BY <1>1, AnswerVetted DEF CreateRoomInsert, DeleteRoomRemove
<1>2. CASE AssignTenantSetRoom(s) \/ AssignTenantSetUser(s) \/ UpdateStatusSetRoom(s) \/ UpdateStatusSetUser(s)
  BY <1>2, SettleVetted
  DEF AssignTenantSetRoom, AssignTenantSetUser, UpdateStatusSetRoom, UpdateStatusSetUser
<1>3. CASE AssignTenantRoom(s)
  <2>1. CASE Goto(s, "tenant") /\ MayManage(req[s])
    <3>1. req[s].op = "assignTenant" /\ ManagedBy(req[s].room, req[s].caller)
      BY <1>3, <2>1, MayManageManaged DEF AssignTenantRoom, At
    <3>2. Vetted([req[s] EXCEPT !.pc = "tenant"])
      BY <1>0, <3>1 DEF Vetted, Request
    <3> QED BY <1>3, <2>1, <3>2, GotoVetted DEF AssignTenantRoom
  <2> QED BY <1>3, <2>1, AnswerVetted DEF AssignTenantRoom
<1>4. CASE AssignTenantTenant(s)
  <2>1. CASE req' = [req EXCEPT ![s].pc = "write", ![s].todo = {"room", "user"}] /\ MayMoveIn(req[s].user)
    <3> DEFINE q == [req[s] EXCEPT !.pc = "write", !.todo = {"room", "user"}]
    <3>1. req' = [req EXCEPT ![s] = q]
      BY <2>1 DEF IType, TypeOK
    <3>2. Vetted(q)
      BY <1>0, <1>4, <2>1 DEF AssignTenantTenant, At, MayMoveIn, IsTenant, Vetted, Request
    <3> HIDE DEF q
    <3> QED BY <1>4, <3>1, <3>2, ReadVetted DEF AssignTenantTenant
  <2> QED BY <1>4, <2>1, AnswerVetted DEF AssignTenantTenant
<1>5. CASE UpdateStatusRoom(s)
  <2>1. CASE Answer(s)
    BY <2>1, AnswerVetted
  <2>2. CASE ~Answer(s)
    <3> DEFINE w == StatusWrites(req[s].room)
               t == rooms[req[s].room].tenant
               q == [req[s] EXCEPT !.pc = "write", !.user = t, !.todo = w]
    <3>1. req' = [req EXCEPT ![s] = q] /\ MayManage(req[s]) /\ req[s].op = "updateStatus"
      BY <1>5, <2>2 DEF UpdateStatusRoom, MaySetStatus, At, IType, TypeOK
    <3>2. ManagedBy(req[s].room, req[s].caller)
      BY <3>1, MayManageManaged
    <3> HIDE DEF w, t
    <3>3. Vetted(q)
      BY <1>0, <3>1, <3>2 DEF Vetted, Request
    <3> HIDE DEF q
    <3> QED BY <1>5, <3>1, <3>3, ReadVetted DEF UpdateStatusRoom
  <2> QED BY <2>1, <2>2
<1>6. CASE DeleteRoomRoom(s)
  <2>1. CASE Goto(s, "devices") /\ MayManage(req[s])
    <3>1. req[s].op = "deleteRoom" /\ ManagedBy(req[s].room, req[s].caller)
      BY <1>6, <2>1, MayManageManaged DEF DeleteRoomRoom, At
    <3>2. Vetted([req[s] EXCEPT !.pc = "devices"])
      BY <1>0, <3>1 DEF Vetted, Request
    <3> QED BY <1>6, <2>1, <3>2, GotoVetted DEF DeleteRoomRoom
  <2> QED BY <1>6, <2>1, AnswerVetted DEF DeleteRoomRoom, MayDelete
<1>7. CASE DeleteRoomDevices(s)
  <2>1. CASE Goto(s, "bills") /\ ~HasDevices(req[s].room)
    <3>1. Vetted([req[s] EXCEPT !.pc = "bills"])
      BY <1>0, <1>7, <2>1 DEF DeleteRoomDevices, At, HasDevices, Vetted, Request
    <3> QED BY <1>7, <2>1, <3>1, GotoVetted DEF DeleteRoomDevices
  <2> QED BY <1>7, <2>1, AnswerVetted DEF DeleteRoomDevices
<1>8. CASE DeleteRoomBills(s)
  <2>1. CASE Goto(s, "remove")
    <3>1. Vetted([req[s] EXCEPT !.pc = "remove"])
      BY <1>0, <1>8 DEF DeleteRoomBills, At, Vetted, Request
    <3> QED BY <1>8, <2>1, <3>1, GotoVetted DEF DeleteRoomBills
  <2> QED BY <1>8, <2>1, AnswerVetted DEF DeleteRoomBills
<1> QED BY <1>1, <1>2, <1>3, <1>4, <1>5, <1>6, <1>7, <1>8 DEF RoomsStep

LEMMA AuthVetted ==
  ASSUME IType, DbMoves, NEW s \in Slot, Vetted(req[s]), AuthStep(s)
  PROVE  Vetted(req[s])'
<1>0. req[s] \in Request /\ Shape(req[s])
  BY DEF IType, TypeOK, ShapesOK
<1>1. CASE Answer(s)
  BY <1>1, AnswerVetted
<1>2. CASE InviteOwnerEmail(s) /\ Goto(s, "user")
  <2>1. Vetted([req[s] EXCEPT !.pc = "user"])
    BY <1>0, <1>2 DEF InviteOwnerEmail, At, Vetted, Request
  <2> QED BY <1>2, <2>1, GotoVetted DEF InviteOwnerEmail
<1>3. CASE RegisterTenantEmail(s) /\ Goto(s, "room")
  <2>1. Vetted([req[s] EXCEPT !.pc = "room"])
    BY <1>0, <1>3 DEF RegisterTenantEmail, At, Vetted, Request
  <2> QED BY <1>3, <2>1, GotoVetted DEF RegisterTenantEmail
<1>4. CASE RegisterTenantRoom(s) /\ ~Answer(s)
  <2>1. /\ Goto(s, "user") /\ req[s].op = "registerTenant"
        /\ rooms[req[s].room] # None /\ rooms[req[s].room].owner = req[s].caller
    BY <1>4 DEF RegisterTenantRoom, At
  <2>2. Vetted([req[s] EXCEPT !.pc = "user"])
    BY <1>0, <2>1 DEF OwnedBy, Born, Vetted, Request
  <2> QED BY <1>4, <2>1, <2>2, GotoVetted DEF RegisterTenantRoom
<1>5. CASE RegisterTenantUser(s) /\ ~Answer(s)
  <2>1. /\ Goto(s, "link") /\ req[s].op = "registerTenant" /\ req[s].pc = "user"
        /\ UNCHANGED <<rooms, bills, gone, notices, receipts>>
    BY <1>5 DEF RegisterTenantUser, DuplicateEmail, At
  <2>2. PICK ph \in BOOLEAN : InsertUser(req[s].user, TenantAccount(req[s], ph))
    BY <1>5 DEF RegisterTenantUser, DuplicateEmail
  <2>3. TenantAccount(req[s], ph) \in UserDoc /\ req[s].user \in UserId
    BY <1>0, <2>1 DEF Shape, TenantAccount, UserDoc, Role
  <2>4. users'[req[s].user] # None /\ users'[req[s].user].role = "tenant"
    BY <2>2, <2>3, IdsAssumption DEF InsertUser, TenantAccount, IType, TypeOK
  <2>5. req'[s] = [req[s] EXCEPT !.pc = "link"]
    BY <2>1 DEF Goto, IType, TypeOK
  <2>6. /\ req'[s].op = "registerTenant" /\ req'[s].pc = "link" /\ req'[s].user = req[s].user
        /\ req'[s].caller = req[s].caller /\ req'[s].room = req[s].room
    BY <1>0, <2>1, <2>5 DEF Request
  <2>7. req[s].caller \in UserId /\ users'[req[s].caller] # None
    BY <2>1 DEF Vetted, DbMoves, UsersKeepRole
  <2>8. OwnedBy(req[s].room, req[s].caller)
    BY <2>1 DEF Vetted
  <2> QED BY <2>1, <2>4, <2>6, <2>7, <2>8 DEF Vetted, OwnedBy, Born, IsTenant
<1> QED BY <1>1, <1>2, <1>3, <1>4, <1>5
        DEF AuthStep, InviteOwnerEmail, RegisterTenantEmail, InviteOwnerUser, RegisterTenantLink,
            DuplicateEmail

LEMMA BillsVetted ==
  ASSUME IType, DbMoves, OnlyTenantsLiveInRooms, NEW s \in Slot, Vetted(req[s]), BillsStep(s)
  PROVE  Vetted(req[s])'
<1>0. req[s] \in Request /\ Shape(req[s])
  BY DEF IType, TypeOK, ShapesOK
<1>1. CASE Answer(s)
  BY <1>1, AnswerVetted
<1>2. CASE CreateBillRoom(s) /\ ~Answer(s)
  <2> DEFINE u == rooms[req[s].room].tenant
             q == [req[s] EXCEPT !.pc = "tenant", !.user = u]
  <2>1. /\ req' = [req EXCEPT ![s] = q] /\ req[s].op = "createBill"
        /\ rooms[req[s].room] # None /\ u # None
    BY <1>2 DEF CreateBillRoom, At, IType, TypeOK
  <2>2. IsTenant(u)
    BY <1>0, <2>1 DEF Shape, OnlyTenantsLiveInRooms, IsTenant
  <2> HIDE DEF u
  <2>3. Vetted(q)
    BY <1>0, <2>1, <2>2 DEF Vetted, Request
  <2> HIDE DEF q
  <2> QED BY <1>2, <2>1, <2>3, ReadVetted DEF CreateBillRoom
<1>3. CASE CreateBillTenant(s) /\ ~Answer(s)
  <2>1. Vetted([req[s] EXCEPT !.pc = "insert"])
    BY <1>0, <1>3 DEF CreateBillTenant, At, Vetted, Request
  <2> QED BY <1>3, <2>1, GotoVetted DEF CreateBillTenant
<1>4. CASE CreateBillInsert(s) /\ ~Answer(s)
  <2>1. /\ req[s].op = "createBill" /\ req[s].pc = "insert"
        /\ req' = [req EXCEPT ![s].pc = "notify"]
        /\ bills' = [bills EXCEPT ![req[s].bill] = NewBill(req[s])]
        /\ UNCHANGED <<rooms, users, gone>>
    BY <1>4 DEF CreateBillInsert, At, Goto
  <2>2. NewBill(req[s]) \in BillDoc /\ NewBill(req[s]).tenant = req[s].user /\ req[s].bill \in BillId
    BY <1>0, <2>1 DEF NewBill, Shape, BillDoc, BillStatus
  <2>3. bills'[req[s].bill] # None /\ bills'[req[s].bill].tenant = req[s].user
    BY <2>1, <2>2, IdsAssumption DEF IType, TypeOK
  <2>4. /\ req'[s].op = "createBill" /\ req'[s].pc = "notify" /\ req'[s].user = req[s].user
        /\ req'[s].bill = req[s].bill /\ req'[s].caller = req[s].caller
    BY <1>0, <2>1 DEF IType, TypeOK, Request
  <2> QED BY <2>1, <2>3, <2>4 DEF Vetted, IsTenant
<1>5. CASE ConfirmPaymentBill(s) /\ ~Answer(s)
  <2> DEFINE r == bills[req[s].bill].room
             st == bills[req[s].bill].status
             q == [req[s] EXCEPT !.pc = "room", !.room = r, !.status = st]
  <2>1. req' = [req EXCEPT ![s] = q] /\ req[s].op = "confirmPayment"
    BY <1>5 DEF ConfirmPaymentBill, At, IType, TypeOK
  <2> HIDE DEF r, st
  <2>2. Vetted(q)
    BY <1>0, <2>1 DEF Vetted, Request
  <2> HIDE DEF q
  <2> QED BY <1>5, <2>1, <2>2, ReadVetted DEF ConfirmPaymentBill
<1>6. CASE ConfirmPaymentRoom(s) /\ ~Answer(s)
  <2>1. Vetted([req[s] EXCEPT !.pc = "update"])
    BY <1>0, <1>6 DEF ConfirmPaymentRoom, At, Vetted, Request
  <2> QED BY <1>6, <2>1, GotoVetted DEF ConfirmPaymentRoom
<1>7. CASE SendBillRemindersFind(s) \/ SendBillRemindersEach(s)
  <2>1. req[s].op = "sendBillReminders"
    BY <1>7 DEF SendBillRemindersFind, SendBillRemindersEach, At
  <2>2. req'[s].op \in {"idle", "sendBillReminders"}
    BY <1>0, <1>7, <2>1
    DEF SendBillRemindersFind, SendBillRemindersEach, NextBill, Answer, Blank, IType, TypeOK, Request
  <2> QED BY <2>2 DEF Vetted
<1> QED BY <1>1, <1>2, <1>3, <1>4, <1>5, <1>6, <1>7
        DEF BillsStep, CreateBillNotify, ConfirmPaymentUpdate

\* A request that arrives has checked nothing but its caller.
Starting(q) ==
  /\ q.op \notin {"idle", "sendBillReminders"} => q.caller \in UserId /\ users[q.caller] # None
  /\ q.pc \in {"insert", "room", "email", "bill", "find"} /\ (q.op = "createBill" => q.pc = "room")

LEMMA Started ==
  ASSUME IType, NEW s \in Slot, NEW q, Begin(s, q), Starting(q) PROVE Vetted(req[s])'
<1>1. Vetted(q)
  BY DEF Starting, Vetted
<1> QED BY <1>1, ReadVetted DEF Begin

LEMMA ArrivalVetted ==
  ASSUME IType, NEW s \in Slot, Arrive(s) PROVE Vetted(req[s])'
<1>1. CASE CreateRoomBegin(s)
  BY <1>1, Started DEF CreateRoomBegin, Managers, Callers, Blank, Starting
<1>2. CASE AssignTenantBegin(s)
  BY <1>2, Started DEF AssignTenantBegin, Managers, Callers, Blank, Starting
<1>3. CASE UpdateStatusBegin(s)
  BY <1>3, Started DEF UpdateStatusBegin, Managers, Callers, Blank, Starting
<1>4. CASE DeleteRoomBegin(s)
  BY <1>4, Started DEF DeleteRoomBegin, Managers, Callers, Blank, Starting
<1>5. CASE InviteOwnerBegin(s)
  BY <1>5, Started DEF InviteOwnerBegin, Callers, Blank, Starting
<1>6. CASE RegisterTenantBegin(s)
  BY <1>6, Started DEF RegisterTenantBegin, Callers, Blank, Starting
<1>7. CASE CreateBillBegin(s)
  BY <1>7, Started DEF CreateBillBegin, Callers, Blank, Starting
<1>8. CASE ConfirmPaymentBegin(s)
  BY <1>8, Started DEF ConfirmPaymentBegin, Callers, Blank, Starting
<1>9. CASE SendBillRemindersBegin(s)
  BY <1>9, Started DEF SendBillRemindersBegin, Blank, Starting
<1> QED BY <1>1, <1>2, <1>3, <1>4, <1>5, <1>6, <1>7, <1>8, <1>9
        DEF Arrive, RoomsBegin, AuthBegin, BillsBegin

\* A step of one request leaves the others as they were.
LEMMA OthersWait ==
  ASSUME IType, NEW s \in Slot, Arrive(s) \/ Step(s) \/ CallFails(s), NEW t \in Slot, t # s
  PROVE  req'[t] = req[t]
<1>0. req \in [Slot -> Request]
  BY DEF IType, TypeOK
<1>1. CASE Arrive(s)
  <2>1. PICK q : Begin(s, q)
    BY <1>1 DEF Arrive, RoomsBegin, AuthBegin, BillsBegin, CreateRoomBegin, AssignTenantBegin,
       UpdateStatusBegin, DeleteRoomBegin, InviteOwnerBegin, RegisterTenantBegin, CreateBillBegin,
       ConfirmPaymentBegin, SendBillRemindersBegin
  <2> QED BY <1>0, <2>1 DEF Begin
<1>2. CASE RoomsStep(s)
  BY <1>0, <1>2 DEF RoomsStep, CreateRoomInsert, AssignTenantRoom, AssignTenantTenant, AssignTenantSetRoom,
     AssignTenantSetUser, UpdateStatusRoom, UpdateStatusSetRoom, UpdateStatusSetUser,
     DeleteRoomRoom, DeleteRoomDevices, DeleteRoomBills, DeleteRoomRemove, Answer, Goto, Settle
<1>3. CASE AuthStep(s)
  BY <1>0, <1>3 DEF AuthStep, InviteOwnerEmail, InviteOwnerUser, RegisterTenantEmail, RegisterTenantRoom,
     RegisterTenantUser, RegisterTenantLink, DuplicateEmail, Answer, Goto
<1>4. CASE BillsStep(s)
  BY <1>0, <1>4 DEF BillsStep, CreateBillRoom, CreateBillTenant, CreateBillInsert, CreateBillNotify,
     ConfirmPaymentBill, ConfirmPaymentRoom, ConfirmPaymentUpdate, SendBillRemindersFind,
     SendBillRemindersEach, NextBill, Answer, Goto
<1>5. CASE CallFails(s)
  BY <1>0, <1>5 DEF CallFails, Answer, Settle
<1> QED BY <1>1, <1>2, <1>3, <1>4, <1>5 DEF Step

LEMMA VettedNext == IRooms /\ [Next]_vars => AllVetted'
<1> SUFFICES ASSUME IRooms, [Next]_vars, NEW t \in Slot PROVE Vetted(req[t])'
  BY DEF AllVetted
<1>0. IType /\ IBills /\ Vetted(req[t]) /\ Shape(req[t]) /\ OnlyTenantsLiveInRooms
  BY DEF IRooms, IBills, AllVetted, IType, ShapesOK
<1>1. DbMoves
  BY RolesKept, TenantsOfBillsKept, OwnersKept, <1>0 DEF IRooms, DbMoves
<1>2. ASSUME req'[t] = req[t] PROVE Vetted(req[t])'
  BY <1>0, <1>1, <1>2, StaysVetted DEF Same
<1>3. CASE Crash
  BY <1>3 DEF Crash, Vetted, Blank
<1>4. CASE UNCHANGED vars
  BY <1>2, <1>4 DEF vars
<1>5. ASSUME NEW s \in Slot, Arrive(s) \/ Step(s) \/ CallFails(s) PROVE Vetted(req[t])'
  <2>1. CASE s # t
    BY <1>0, <1>2, <1>5, <2>1, OthersWait
  <2>2. CASE s = t /\ Arrive(t)
    BY <1>0, <2>2, ArrivalVetted
  <2>3. CASE s = t /\ Step(t)
    BY <1>0, <1>1, <2>3, RoomsVetted, AuthVetted, BillsVetted DEF Step
  <2>4. CASE s = t /\ CallFails(t)
    BY <1>0, <1>1, <2>4, AnswerVetted, SettleVetted DEF CallFails
  <2> QED BY <1>5, <2>1, <2>2, <2>3, <2>4
<1> QED BY <1>3, <1>4, <1>5 DEF Next

----------------------------------------------------------------------------
LEMMA ReservedRoomsNext == IRooms /\ [Next]_vars => RoomsReserved'
<1> SUFFICES ASSUME IRooms, [Next]_vars PROVE RoomsReserved'
  OBVIOUS
<1>0. IType /\ RoomsReserved /\ gone \subseteq RoomId /\ req \in [Slot -> Request]
  BY DEF IRooms, IBills, IType, TypeOK
<1>1. ASSUME NEW s \in Slot, CreateRoomBegin(s) PROVE RoomsReserved'
  <2>1. PICK u \in UserId, r \in FreshRooms :
          Begin(s, [Blank EXCEPT !.op = "createRoom", !.pc = "insert", !.caller = u, !.room = r])
    BY <1>1 DEF CreateRoomBegin, Managers, Callers
  <2> DEFINE q == [Blank EXCEPT !.op = "createRoom", !.pc = "insert", !.caller = u, !.room = r]
  <2>2. req' = [req EXCEPT ![s] = q] /\ q.room = r
    BY <2>1 DEF Begin, Blank
  <2>3. rooms' = rooms /\ gone' = gone /\ ~Born(r) /\ \A t \in Slot : req[t].room # r
    BY <2>1 DEF Begin, db, FreshRooms, Born
  <2> HIDE DEF q
  <2> QED BY <1>0, <2>2, <2>3 DEF RoomsReserved, Born
<1>2. ASSUME NEW s \in Slot, Draws(s), ~CreateRoomBegin(s) PROVE RoomsReserved'
  <2>1. PICK q : q.op # "createRoom" /\ Begin(s, q)
    BY <1>2 DEF Draws, CreateBillBegin, InviteOwnerBegin, RegisterTenantBegin, Blank
  <2> QED BY <1>0, <2>1 DEF Begin, db, RoomsReserved, Born
<1>3. CASE \A t \in Slot : Keeps(req[t], req'[t])
  <2> SUFFICES ASSUME NEW s \in Slot, req'[s].op = "createRoom"
               PROVE  /\ ~Born(req[s].room)'
                      /\ \A t \in Slot : t # s /\ req'[t].op = "createRoom"
                                         => req'[t].room # req'[s].room
    BY DEF RoomsReserved
  <2>1. req[s].op = "createRoom" /\ req'[s].room = req[s].room
    BY <1>3 DEF Keeps, Continues, Drawing
  <2>2. \A t \in Slot : t # s /\ req'[t].op = "createRoom" =>
          req[t].op = "createRoom" /\ req'[t].room = req[t].room
    BY <1>3 DEF Keeps, Continues, Drawing
  <2>3. PICK r \in RoomId : r = req[s].room /\ rooms[r] = None /\ r \notin gone
    BY <1>0, <2>1 DEF RoomsReserved, Born, IType, ShapesOK, Shape
  <2>4. rooms'[r] = None /\ r \notin gone'
    <3>1. ASSUME NEW t \in Slot, RoomAdded(t), req[t].room \in RoomId
          PROVE  rooms'[r] = None /\ r \notin gone'
      <4>1. req'[t] = Blank /\ req[t].op = "createRoom"
        BY <1>0, <3>1 DEF RoomAdded, CreateRoomInsert, Answer, At
      <4>2. t # s
        BY <4>1 DEF Blank
      <4>3. req[t].room # r
        BY <1>0, <2>1, <2>3, <4>1, <4>2 DEF RoomsReserved
      <4> QED BY <1>0, <2>3, <3>1, <4>3 DEF RoomAdded, IType, TypeOK
    <3>2. ASSUME NEW x \in RoomId, NEW u, NEW st, RoomSet(x, u, st)
          PROVE  rooms'[r] = None /\ r \notin gone'
      <4>1. x # r /\ gone' = gone
        BY <2>3, <3>2 DEF RoomSet
      <4> QED BY <1>0, <2>3, <3>2, <4>1, RoomSetFields
    <3>3. ASSUME NEW t \in Slot, DeleteRoomRemove(t), req[t].room \in RoomId, RoomRemoved(req[t].room)
          PROVE  rooms'[r] = None /\ r \notin gone'
      <4>1. Born(req[t].room)
        BY <3>3 DEF IRooms, AllVetted, Vetted, DeleteRoomRemove, At, ManagedBy, OwnedBy
      <4>2. req[t].room # r
        BY <2>3, <4>1 DEF Born
      <4> QED BY <1>0, <2>3, <3>3, <4>2 DEF RoomRemoved, IType, TypeOK
    <3> QED BY <1>0, <2>3, <3>1, <3>2, <3>3, RoomsStepwise
  <2>5. \A t \in Slot : t # s /\ req[t].op = "createRoom" => req[t].room # req[s].room
    BY <1>0, <2>1 DEF RoomsReserved
  <2> QED BY <2>1, <2>2, <2>3, <2>4, <2>5 DEF Born
<1> QED BY <1>0, <1>1, <1>2, <1>3, RequestsKept DEF Draws

LEMMA ReservedUsersNext == IRooms /\ [Next]_vars => UsersReserved'
<1> SUFFICES ASSUME IRooms, [Next]_vars PROVE UsersReserved'
  OBVIOUS
<1>0. IType /\ UsersReserved /\ req \in [Slot -> Request]
  BY DEF IRooms, IBills, IType, TypeOK
<1>1. ASSUME NEW s \in Slot, NEW q, Begin(s, q), q.user \in FreshUsers PROVE UsersReserved'
  <2>1. users' = users /\ users[q.user] = None /\ \A t \in Slot : req[t].user # q.user
    BY <1>1 DEF Begin, db, FreshUsers
  <2>2. req' = [req EXCEPT ![s] = q]
    BY <1>1 DEF Begin
  <2> QED BY <1>0, <2>1, <2>2 DEF UsersReserved
<1>2. ASSUME NEW s \in Slot, NEW q, Begin(s, q), q.op \notin Registering PROVE UsersReserved'
  BY <1>0, <1>2 DEF Begin, db, UsersReserved
<1>3. ASSUME NEW s \in Slot, Draws(s) PROVE UsersReserved'
  <2>1. CASE InviteOwnerBegin(s)
    BY <1>1, <2>1 DEF InviteOwnerBegin, Blank
  <2>2. CASE RegisterTenantBegin(s)
    BY <1>1, <2>2 DEF RegisterTenantBegin, Blank
  <2>3. CASE CreateRoomBegin(s) \/ CreateBillBegin(s)
    BY <1>2, <2>3 DEF CreateRoomBegin, CreateBillBegin, Blank, Registering
  <2> QED BY <1>3, <2>1, <2>2, <2>3 DEF Draws
<1>4. CASE \A t \in Slot : Keeps(req[t], req'[t])
  <2> SUFFICES ASSUME NEW s \in Slot, req'[s].op \in Registering, req'[s].pc # "link"
               PROVE  /\ users'[req'[s].user] = None
                      /\ \A t \in Slot : t # s /\ req'[t].op \in Registering
                                         => req'[t].user # req'[s].user
    BY DEF UsersReserved
  <2>1. req[s].op \in Registering /\ req[s].pc # "link" /\ req'[s].user = req[s].user
    BY <1>4 DEF Keeps, Continues, Drawing, Registering
  <2>2. \A t \in Slot : t # s /\ req'[t].op \in Registering =>
          req[t].op \in Registering /\ req'[t].user = req[t].user
    BY <1>4 DEF Keeps, Continues, Drawing, Registering
  <2>3. PICK u \in UserId : u = req[s].user /\ users[u] = None
    BY <1>0, <2>1 DEF UsersReserved, Registering, IType, ShapesOK, Shape
  <2>4. \A t \in Slot : t # s /\ req[t].op \in Registering => req[t].user # u
    BY <1>0, <2>1, <2>3 DEF UsersReserved
  <2>5. users'[u] = None
    <3>1. ASSUME NEW t \in Slot, AssignTenantSetUser(t) \/ UpdateStatusSetUser(t) PROVE users'[u] = None
      BY <1>0, <2>3, <3>1 DEF AssignTenantSetUser, UpdateStatusSetUser, SetHome, IType, TypeOK
    <3>2. ASSUME NEW t \in Slot, InviteOwnerUser(t) \/ RegisterTenantUser(t), users' # users
          PROVE  users'[u] = None
      <4>1. /\ req[t].op \in Registering
            /\ req'[t] = Blank \/ req'[t] = [req[t] EXCEPT !.pc = "link"]
            /\ \E doc : InsertUser(req[t].user, doc)
        BY <1>0, <3>2
        DEF InviteOwnerUser, RegisterTenantUser, DuplicateEmail, At, Answer, Goto, Registering, db
      <4>2. t # s
        <5>1. req'[s] # Blank
          BY DEF Blank, Registering
        <5>2. req'[s] # [req[s] EXCEPT !.pc = "link"]
          BY <1>0 DEF Request
        <5> QED BY <4>1, <5>1, <5>2
      <4>3. req[t].user # u
        BY <2>4, <4>1, <4>2
      <4> QED BY <1>0, <2>3, <4>1, <4>3 DEF InsertUser, IType, TypeOK
    <3> QED BY <2>3, <3>1, <3>2, UserWriters DEF UserWrite
  <2> QED BY <2>1, <2>2, <2>3, <2>4, <2>5
<1> QED BY <1>0, <1>3, <1>4, RequestsKept

----------------------------------------------------------------------------
LEMMA OccupantsNext ==
  IRooms /\ [Next]_vars =>
    \A r \in RoomId : rooms'[r] # None /\ rooms'[r].tenant # None => IsTenant(rooms[r].tenant)'
<1> SUFFICES ASSUME IRooms, [Next]_vars, NEW r \in RoomId, rooms'[r] # None, rooms'[r].tenant # None
             PROVE  IsTenant(rooms[r].tenant)'
  OBVIOUS
<1>0. IType /\ RoomsReserved /\ UsersKeepRole
  BY RolesKept DEF IRooms, IBills
<1>1. ASSUME rooms[r] # None, rooms[r].tenant # None PROVE IsTenant(rooms[r].tenant) /\ rooms[r].tenant \in UserId
  BY <1>0, <1>1 DEF IRooms, OnlyTenantsLiveInRooms, IsTenant, IType, TypeOK, RoomDoc
<1>2. PICK u : u = rooms'[r].tenant
  OBVIOUS
<1>3. u \in UserId /\ IsTenant(u)
  <2>1. CASE rooms'[r] = rooms[r]
    BY <1>1, <1>2, <2>1
  <2>2. ASSUME NEW s \in Slot, RoomAdded(s), req[s].room \in RoomId, rooms'[r] # rooms[r]
        PROVE  FALSE
    BY <1>0, <2>2 DEF RoomAdded, IType, TypeOK
  <2>3. ASSUME NEW s \in Slot, AssignTenantSetRoom(s) \/ RegisterTenantLink(s),
               req[s].room \in RoomId, RoomSet(req[s].room, req[s].user, "occupied"),
               rooms'[r] # rooms[r]
        PROVE  u \in UserId /\ IsTenant(u)
    <3>1. req[s].user \in UserId /\ IsTenant(req[s].user)
      BY <1>0, <2>3 DEF AssignTenantSetRoom, RegisterTenantLink, At, IRooms, AllVetted, Vetted,
         IType, ShapesOK, Shape
    <3>2. r = req[s].room /\ u = req[s].user
      BY <1>0, <1>2, <2>3, RoomSetFields
    <3> QED BY <3>1, <3>2
  <2>4. ASSUME NEW s \in Slot, req[s].room \in RoomId,
               RoomSet(req[s].room, TenantLeft(req[s]), req[s].status), rooms'[r] # rooms[r]
        PROVE  u \in UserId /\ IsTenant(u)
    <3>1. r = req[s].room /\ u = TenantLeft(req[s]) /\ rooms[r] # None
      BY <1>0, <1>2, <2>4, RoomSetFields DEF RoomSet
    <3> QED BY <1>1, <1>2, <3>1 DEF TenantLeft
  <2>5. ASSUME NEW x \in RoomId, RoomRemoved(x), rooms'[r] # rooms[r] PROVE FALSE
    BY <1>0, <2>5 DEF RoomRemoved, IType, TypeOK
  <2> QED BY <1>0, <2>1, <2>2, <2>3, <2>4, <2>5, RoomsStepwise
<1>4. IsTenant(u)'
  BY <1>0, <1>3, StaysTenant
<1> QED BY <1>2, <1>4 DEF IsTenant

LEMMA ResidentsNext ==
  IRooms /\ [Next]_vars => \A u \in UserId : users'[u] # None /\ users'[u].room # None => IsTenant(u)'
<1> SUFFICES ASSUME IRooms, [Next]_vars, NEW u \in UserId, users'[u] # None, users'[u].room # None
             PROVE  IsTenant(u)'
  OBVIOUS
<1>0. IType /\ UsersReserved /\ UsersKeepRole
  BY RolesKept DEF IRooms, IBills
<1>1. CASE IsTenant(u)
  BY <1>0, <1>1, StaysTenant
<1>2. CASE users'[u] = users[u]
  BY <1>0, <1>1, <1>2 DEF IRooms, OnlyTenantsLiveInRooms, IsTenant
<1>3. ASSUME NEW s \in Slot, AssignTenantSetUser(s), req[s].user \in UserId,
             SetHome(req[s].user, req[s].room), users'[u] # users[u]
      PROVE  IsTenant(u)
  <2>1. IsTenant(req[s].user)
    BY <1>3 DEF AssignTenantSetUser, At, IRooms, AllVetted, Vetted
  <2>2. u = req[s].user
    BY <1>0, <1>3 DEF SetHome, IType, TypeOK
  <2> QED BY <2>1, <2>2
<1>4. ASSUME NEW v \in UserId, SetHome(v, None), users'[u] # users[u] PROVE FALSE
  <2>1. users[u] # None /\ users' = [users EXCEPT ![u] = [users[u] EXCEPT !.room = None]]
    BY <1>0, <1>4 DEF SetHome, IType, TypeOK
  <2>2. users[u] \in UserDoc
    BY <1>0, <2>1 DEF IType, TypeOK
  <2>3. [users[u] EXCEPT !.room = None].room = None
    BY <2>2 DEF UserDoc
  <2> QED BY <1>0, <2>1, <2>3 DEF IType, TypeOK
<1>5. ASSUME NEW s \in Slot, NEW ph \in BOOLEAN, req[s].user \in UserId,
             \/ InsertUser(req[s].user, OwnerAccount(req[s], ph))
             \/ InsertUser(req[s].user, TenantAccount(req[s], ph)),
             users'[u] # users[u]
      PROVE  IsTenant(u)'
  <2>1. users'[u] \in {OwnerAccount(req[s], ph), TenantAccount(req[s], ph)}
    BY <1>0, <1>5 DEF InsertUser, IType, TypeOK
  <2> QED BY <2>1 DEF OwnerAccount, TenantAccount, IsTenant
<1> QED BY <1>0, <1>1, <1>2, <1>3, <1>4, <1>5, UsersStepwise

LEMMA BilledNext ==
  IRooms /\ [Next]_vars => \A b \in BillId : bills'[b] # None => IsTenant(bills[b].tenant)'
<1> SUFFICES ASSUME IRooms, [Next]_vars, NEW b \in BillId, bills'[b] # None
             PROVE  IsTenant(bills[b].tenant)'
  OBVIOUS
<1>0. IType /\ UsersKeepRole /\ BillsKeepTenant
  BY RolesKept, TenantsOfBillsKept DEF IRooms, IBills
<1>1. PICK u : u = bills'[b].tenant
  OBVIOUS
<1>2. u \in UserId /\ IsTenant(u)
  <2>1. CASE bills[b] # None
    BY <1>0, <1>1, <2>1
    DEF IRooms, OnlyTenantsLiveInRooms, IsTenant, BillsKeepTenant, IType, TypeOK, BillDoc
  <2>2. CASE bills[b] = None
    <3>1. PICK s \in Slot : BillWrite(s)
      BY <2>2, BillWriters
    <3>2. ~ConfirmPaymentUpdate(s)
      BY <1>0, <2>2 DEF ConfirmPaymentUpdate, Payable, IType, TypeOK
    <3>3. CreateBillInsert(s)
      BY <3>1, <3>2 DEF BillWrite
    <3>4. req[s].user \in UserId /\ IsTenant(req[s].user)
      BY <1>0, <3>3 DEF CreateBillInsert, At, IRooms, AllVetted, Vetted, IType, ShapesOK, Shape
    <3>5. bills'[b] = NewBill(req[s])
      BY <1>0, <2>2, <3>3 DEF CreateBillInsert, IType, TypeOK
    <3> QED BY <1>1, <3>4, <3>5 DEF NewBill
  <2> QED BY <2>1, <2>2
<1>3. IsTenant(u)'
  BY <1>0, <1>2, StaysTenant
<1> QED BY <1>1, <1>3 DEF IsTenant

LEMMA RoomsInduction == Spec => []IRooms
<1>1. Init => IRooms
  <2> SUFFICES ASSUME Init PROVE IRooms
    OBVIOUS
  <2>1. AllVetted /\ RoomsReserved /\ UsersReserved /\ GoneStayGone
    BY DEF Init, AllVetted, Vetted, RoomsReserved, UsersReserved, Registering, GoneStayGone, Blank
  <2>2. OnlyTenantsLiveInRooms
    BY SeedConsistency DEF Init, OnlyTenantsLiveInRooms
  <2> QED BY <2>1, <2>2, BillsInit DEF IRooms
<1>2. IRooms /\ [Next]_vars => IRooms'
  <2> SUFFICES ASSUME IRooms, [Next]_vars PROVE IRooms'
    OBVIOUS
  <2>1. OnlyTenantsLiveInRooms'
    BY OccupantsNext, ResidentsNext, BilledNext DEF OnlyTenantsLiveInRooms, IsTenant
  <2>2. GoneStayGone'
    BY GoneNext DEF IRooms, IBills
  <2> QED BY <2>1, <2>2, BillsNext, VettedNext, ReservedRoomsNext, ReservedUsersNext DEF IRooms
<1> QED BY <1>1, <1>2, PTL DEF Spec

----------------------------------------------------------------------------
\* assignTenant's check of the role, made on a copy, still holds when its
\* writes arrive: rooms, accounts with a room, and bills name tenants only.
THEOREM TenantsCorrect == Spec => []OnlyTenantsLiveInRooms
<1>1. IRooms => OnlyTenantsLiveInRooms
  BY DEF IRooms
<1> QED BY <1>1, RoomsInduction, PTL

LEMMA EmailsNext ==
  ASSUME IType, UsersReserved, EmailsUnique, [Next]_vars PROVE EmailsUnique'
<1>1. ASSUME NEW x \in UserId, NEW r \in RoomId \cup {None}, SetHome(x, r) PROVE EmailsUnique'
  <2>1. CASE users[x] = None
    BY <1>1, <2>1 DEF SetHome, EmailsUnique
  <2>2. CASE users[x] # None
    <3> DEFINE doc == [users[x] EXCEPT !.room = r]
    <3>1. doc.email = users[x].email
      BY <2>2 DEF IType, TypeOK, UserDoc
    <3>2. users' = [users EXCEPT ![x] = doc]
      BY <1>1, <2>2 DEF SetHome, IType, TypeOK
    <3> HIDE DEF doc
    <3> QED BY <2>2, <3>1, <3>2 DEF EmailsUnique, IType, TypeOK
  <2> QED BY <2>1, <2>2
<1>2. ASSUME NEW x \in UserId, NEW doc \in UserDoc, InsertUser(x, doc) PROVE EmailsUnique'
  BY <1>2 DEF InsertUser, EmailTaken, EmailsUnique, IType, TypeOK
<1>3. CASE users' = users
  BY <1>3 DEF EmailsUnique
<1> QED BY <1>1, <1>2, <1>3, UsersStepwise

\* Registrations and invitations that passed findOne with the same address,
\* in any number and order, leave one account with it.
THEOREM EmailsCorrect == Spec => []EmailsUnique
<1>1. Init => EmailsUnique
  BY SeedConsistency DEF Init, EmailsUnique
<1>2. IRooms /\ EmailsUnique /\ [Next]_vars => EmailsUnique'
  BY EmailsNext DEF IRooms, IBills
<1> QED BY <1>1, <1>2, RoomsInduction, PTL DEF Spec

\* A room with devices stays, however late the delete comes after the check
\* of deleteRoom and whatever happened to the room in between.
THEOREM DevicesCorrect == Spec => []DevicesKeepTheirRoom
<1>1. Init => DevicesKeepTheirRoom
  BY DEF Init, DevicesKeepTheirRoom
<1>2. IRooms /\ DevicesKeepTheirRoom /\ [Next]_vars => DevicesKeepTheirRoom'
  <2> SUFFICES ASSUME IRooms, DevicesKeepTheirRoom, NEW s \in Slot, DeleteRoomRemove(s)
               PROVE  DevicesKeepTheirRoom'
    BY GoneWriters DEF DevicesKeepTheirRoom
  <2>1. req[s].room \notin DeviceRooms
    BY DEF DeleteRoomRemove, At, IRooms, AllVetted, Vetted
  <2> QED BY <2>1 DEF DeleteRoomRemove, DevicesKeepTheirRoom
<1> QED BY <1>1, <1>2, RoomsInduction, PTL DEF Spec

----------------------------------------------------------------------------
LEMMA NoticeWriters ==
  [Next]_vars => notices' = notices \/ \E s \in Slot : CreateBillNotify(s) \/ SendBillRemindersEach(s)
<1> SUFFICES ASSUME [Next]_vars, notices' # notices
             PROVE  \E s \in Slot : CreateBillNotify(s) \/ SendBillRemindersEach(s)
  OBVIOUS
<1>1. PICK s \in Slot : Arrive(s) \/ Step(s)
  BY DEF Next, CallFails, Crash, vars, db
<1>2. ~Arrive(s)
  BY DEF Arrive, RoomsBegin, AuthBegin, BillsBegin, CreateRoomBegin, AssignTenantBegin,
     UpdateStatusBegin, DeleteRoomBegin, InviteOwnerBegin, RegisterTenantBegin, CreateBillBegin,
     ConfirmPaymentBegin, SendBillRemindersBegin, Begin, db
<1>3. ~RoomsStep(s)
  BY DEF RoomsStep, CreateRoomInsert, AssignTenantRoom, AssignTenantTenant, AssignTenantSetRoom,
     AssignTenantSetUser, UpdateStatusRoom, UpdateStatusSetRoom, UpdateStatusSetUser,
     DeleteRoomRoom, DeleteRoomDevices, DeleteRoomBills, DeleteRoomRemove, db
<1>4. ~AuthStep(s)
  BY DEF AuthStep, InviteOwnerEmail, InviteOwnerUser, RegisterTenantEmail, RegisterTenantRoom,
     RegisterTenantUser, RegisterTenantLink, DuplicateEmail, db
<1>5. BillsStep(s) => CreateBillNotify(s) \/ SendBillRemindersEach(s)
  BY DEF BillsStep, CreateBillRoom, CreateBillTenant, CreateBillInsert, ConfirmPaymentBill,
     ConfirmPaymentRoom, ConfirmPaymentUpdate, SendBillRemindersFind, db
<1> QED BY <1>1, <1>2, <1>3, <1>4, <1>5 DEF Step

LEMMA NoticesNext ==
  ASSUME IRooms, NoticesToBilledTenant, [Next]_vars PROVE NoticesToBilledTenant'
<1>0. IType /\ BillsKeepTenant /\ notices \subseteq BillId \X UserId
  BY TenantsOfBillsKept DEF IRooms, IBills, IType, TypeOK
<1>1. \A n \in notices : bills'[n[1]] # None /\ bills'[n[1]].tenant = n[2]
  BY <1>0 DEF NoticesToBilledTenant, BillsKeepTenant
<1>2. CASE notices' = notices
  BY <1>1, <1>2 DEF NoticesToBilledTenant
<1>3. ASSUME NEW b \in BillId, bills[b] # None, NotifyBill(b, bills[b].tenant)
      PROVE  NoticesToBilledTenant'
  <2>1. bills'[b] # None /\ bills'[b].tenant = bills[b].tenant
    BY <1>0, <1>3 DEF BillsKeepTenant
  <2> QED BY <1>1, <1>3, <2>1 DEF NoticesToBilledTenant, NotifyBill
<1>4. ASSUME NEW s \in Slot, CreateBillNotify(s) PROVE NoticesToBilledTenant'
  <2>1. req[s].bill \in BillId /\ bills[req[s].bill] # None /\ bills[req[s].bill].tenant = req[s].user
    BY <1>0, <1>4 DEF CreateBillNotify, At, IRooms, AllVetted, Vetted, IType, ShapesOK, Shape
  <2> QED BY <1>3, <1>4, <2>1 DEF CreateBillNotify
<1>5. ASSUME NEW s \in Slot, SendBillRemindersEach(s) PROVE NoticesToBilledTenant'
  <2>1. PICK b \in req[s].batch : NotifyBill(b, Addressee(b)) /\ req[s].op = "sendBillReminders"
    BY <1>5 DEF SendBillRemindersEach, At
  <2>2. b \in BillId /\ bills[b] # None
    BY <1>0, <2>1 DEF IType, TypeOK, Request, BatchesOK
  <2> QED BY <1>3, <2>1, <2>2 DEF Addressee
<1> QED BY <1>2, <1>4, <1>5, NoticeWriters

\* Every notice, of createBill and of a reminder run that found its bills long
\* ago, names the tenant its bill names, not the one in the room by now.
THEOREM NoticesCorrect == Spec => []NoticesToBilledTenant
<1>1. Init => NoticesToBilledTenant
  BY DEF Init, NoticesToBilledTenant
<1>2. IRooms /\ NoticesToBilledTenant /\ [Next]_vars => NoticesToBilledTenant'
  BY NoticesNext
<1> QED BY <1>1, <1>2, RoomsInduction, PTL DEF Spec

----------------------------------------------------------------------------
\* The owner or an admin asked for every change of a room, though its handler
\* checked that on a copy; no write brings a deleted room back.
THEOREM RoomsChangeByManagersCorrect == Spec => RoomsChangeByManagers
<1>1. IRooms /\ [Next]_vars =>
        [\A r \in RoomId : rooms'[r] # rooms[r] =>
           /\ r \notin gone
           /\ \E s \in Slot :
                /\ req'[s] # req[s] /\ req[s].room = r
                /\ rooms[r] # None =>
                     \/ rooms[r].owner = req[s].caller
                     \/ users[req[s].caller].role = "admin"]_vars
  <2> SUFFICES ASSUME IRooms, [Next]_vars, NEW r \in RoomId, rooms'[r] # rooms[r]
               PROVE  /\ r \notin gone
                      /\ \E s \in Slot :
                           /\ req'[s] # req[s] /\ req[s].room = r
                           /\ rooms[r] # None =>
                                \/ rooms[r].owner = req[s].caller
                                \/ users[req[s].caller].role = "admin"
    OBVIOUS
  <2>0. IType /\ RoomsReserved /\ gone \subseteq RoomId /\ GoneStayGone
    BY DEF IRooms, IBills, IType, TypeOK
  <2>1. ASSUME NEW s \in Slot, RoomWrite(s) PROVE req'[s] # req[s]
    BY <2>0, <2>1 DEF RoomWrite, CreateRoomInsert, AssignTenantSetRoom, UpdateStatusSetRoom,
       DeleteRoomRemove, RegisterTenantLink, Settle, Answer, At, Blank, IType, TypeOK, Request
  <2>2. ASSUME NEW s \in Slot, req[s].room = r, RoomWrite(s),
               ManagedBy(r, req[s].caller), rooms[r] # None
        PROVE  /\ r \notin gone
               /\ req'[s] # req[s]
               /\ rooms[r].owner = req[s].caller \/ users[req[s].caller].role = "admin"
    BY <2>0, <2>1, <2>2 DEF ManagedBy, OwnedBy, IsAdmin, GoneStayGone
  <2>3. ASSUME NEW s \in Slot, req[s].room \in RoomId, RoomAdded(s)
        PROVE  req[s].room = r /\ r \notin gone /\ rooms[r] = None /\ req'[s] # req[s]
    BY <2>0, <2>1, <2>3 DEF RoomAdded, RoomWrite, Born, IType, TypeOK
  <2>4. ASSUME NEW s \in Slot, RoomWrite(s), req[s].room \in RoomId, NEW t, NEW st,
               RoomSet(req[s].room, t, st)
        PROVE  req[s].room = r /\ rooms[r] # None
    BY <2>0, <2>4, RoomSetFields DEF RoomSet
  <2>5. ASSUME NEW s \in Slot, req[s].room \in RoomId, RoomRemoved(req[s].room)
        PROVE  req[s].room = r /\ rooms[r] # None
    BY <2>0, <2>5 DEF RoomRemoved, IType, TypeOK
  <2>6. ASSUME NEW s \in Slot,
               \/ AssignTenantSetRoom(s) \/ RegisterTenantLink(s)
               \/ UpdateStatusSetRoom(s) \/ DeleteRoomRemove(s)
        PROVE  RoomWrite(s) /\ ManagedBy(req[s].room, req[s].caller)
    BY <2>6 DEF RoomWrite, AssignTenantSetRoom, RegisterTenantLink, UpdateStatusSetRoom,
       DeleteRoomRemove, At, IRooms, AllVetted, Vetted, ManagedBy
  <2> QED BY <2>0, <2>2, <2>3, <2>4, <2>5, <2>6, RoomsStepwise
<1> QED BY <1>1, RoomsInduction, PTL DEF Spec, RoomsChangeByManagers
=============================================================================
