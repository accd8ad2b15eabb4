----------------------------- MODULE HomesProofs -----------------------------
(***************************************************************************)
(* One request at a time and no failure: who lives where, what is owed and *)
(* what is announced - for every instance whose collections agree when it  *)
(* starts.                                                                 *)
(***************************************************************************)
EXTENDS RoomsProofs

\* What the services promise of the collections holds of the seeds.
SeedsAgree ==
  /\ \A r \in RoomId, u \in UserId :
       (SeedRooms[r] # None /\ SeedRooms[r].tenant = u)
         <=> (SeedUsers[u] # None /\ SeedUsers[u].room = r)
  /\ \A r \in RoomId : SeedRooms[r] # None =>
       (SeedRooms[r].status = "occupied") <=> (SeedRooms[r].tenant # None)
  /\ \A b \in BillId : SeedBills[b] # None /\ SeedBills[b].status # "paid" =>
       SeedRooms[SeedBills[b].room] # None

OneAtATime == Serial /\ ~Faults /\ SeedsAgree

Lives(r, u) == rooms[r] # None /\ rooms[r].tenant = u
Homed(r, u) == users[u] # None /\ users[u].room = r
Free(r) == rooms[r] # None /\ rooms[r].tenant = None /\ rooms[r].status # "occupied"
Homeless(u) == users[u] # None /\ users[u].room = None

\* A request that is between its first and its last write to a tenancy.
Writing(q) ==
  \/ q.op \in {"assignTenant", "updateStatus"} /\ q.pc = "write"
  \/ q.op = "registerTenant" /\ q.pc = "link"

\* What a request has checked by its next call, and what it has written.
Checked(q) ==
  /\ \/ q.op = "assignTenant" /\ q.pc = "tenant"
     \/ q.op = "deleteRoom" /\ q.pc \in {"devices", "bills", "remove"}
     \/ q.op = "registerTenant" /\ q.pc \in {"user", "link"}
     => Free(q.room)
  /\ q.op = "assignTenant" /\ q.pc = "write" =>
       /\ IF "room" \in q.todo THEN Free(q.room) ELSE Lives(q.room, q.user)
       /\ IF "user" \in q.todo THEN Homeless(q.user) ELSE Homed(q.room, q.user)
  /\ q.op = "updateStatus" /\ q.pc = "write" =>
       IF q.user = None THEN Free(q.room)
       ELSE /\ q.user \in UserId
            /\ IF "room" \in q.todo THEN Lives(q.room, q.user) ELSE Free(q.room)
            /\ IF "user" \in q.todo THEN Homed(q.room, q.user) ELSE Homeless(q.user)
  /\ q.op = "registerTenant" /\ q.pc = "link" => Homed(q.room, q.user)
  /\ q.op = "deleteRoom" /\ q.pc = "remove" => Owing(q.room) = {}
  /\ q.op = "createBill" /\ q.pc \in {"tenant", "insert"} => rooms[q.room] # None

\* Rooms and users agree, but for the room and the user being written.
Agree(q) ==
  \A r \in RoomId, u \in UserId :
    (Lives(r, u) <=> Homed(r, u)) \/ (Writing(q) /\ q.room = r /\ q.user = u)
StatusTells ==
  \A r \in RoomId : rooms[r] # None => ((rooms[r].status = "occupied") <=> (rooms[r].tenant # None))

\* New bills are announced, but for the one whose announcement comes next.
Told(q) ==
  \A b \in BillId : bills[b] # None /\ SeedBills[b] = None =>
    \/ <<b, bills[b].tenant>> \in notices
    \/ q.op = "createBill" /\ q.pc = "notify" /\ q.bill = b /\ q.user = bills[b].tenant

Good(q) == Checked(q) /\ Agree(q) /\ StatusTells /\ DebtsKeepTheirRoom /\ Told(q)

\* The request being served, Blank if there is none.
Serves(q) ==
  \/ q = Blank /\ \A s \in Slot : req[s] = Blank
  \/ \E s \in Slot : req[s] = q /\ \A t \in Slot \ {s} : req[t] = Blank

IHomes == \E q \in Request : Serves(q) /\ Good(q)

----------------------------------------------------------------------------
(***************************************************************************)
(* Steps that only read.                                                   *)
(***************************************************************************)
Announcing(q) == q.op = "createBill" /\ q.pc = "notify"

\* What a step makes of its request has to be checked in the state it read.
LEMMA ReadGood ==
  ASSUME IType, UNCHANGED db, NEW s \in Slot, Good(req[s]), ~Writing(req[s]), ~Announcing(req[s]),
         NEW q, Checked(q), req' = [req EXCEPT ![s] = q]
  PROVE  Good(req[s])'
<1>1. req'[s] = q
  BY DEF IType, TypeOK
<1>2. /\ rooms' = rooms /\ users' = users /\ bills' = bills /\ notices' = notices
  BY DEF db
<1>3. Checked(req[s])'
  BY <1>1, <1>2 DEF Checked, Free, Homeless, Lives, Homed, Owing
<1>4. Agree(req[s])'
  BY <1>1, <1>2 DEF Good, Agree, Lives, Homed
<1>5. Told(req[s])'
  BY <1>1, <1>2 DEF Good, Told, Announcing
<1>6. StatusTells' /\ DebtsKeepTheirRoom'
  BY <1>2 DEF Good, StatusTells, DebtsKeepTheirRoom
<1> QED BY <1>3, <1>4, <1>5, <1>6 DEF Good

LEMMA BlankChecked == Checked(Blank) /\ ~Writing(Blank) /\ ~Announcing(Blank)
BY DEF Blank, Checked, Writing, Announcing

LEMMA ReadAnswered ==
  ASSUME IType, UNCHANGED db, NEW s \in Slot, Good(req[s]), ~Writing(req[s]), ~Announcing(req[s]),
         Answer(s)
  PROVE  Good(req[s])'
BY ReadGood, BlankChecked DEF Answer

LEMMA ReadWent ==
  ASSUME IType, UNCHANGED db, NEW s \in Slot, Good(req[s]), ~Writing(req[s]), ~Announcing(req[s]),
         NEW pc, Goto(s, pc), Checked([req[s] EXCEPT !.pc = pc])
  PROVE  Good(req[s])'
BY ReadGood DEF Goto, IType, TypeOK

\* A request that arrives has checked nothing of a tenancy.
LEMMA StartGood ==
  ASSUME IType, NEW s \in Slot, Good(Blank), NEW q, Begin(s, q),
         q.pc \in {"insert", "room", "email", "bill", "find"}, q.op = "createBill" => q.pc = "room"
  PROVE  Good(req[s])'
<1>1. Checked(q)
  BY DEF Checked
<1> QED BY <1>1, ReadGood, BlankChecked DEF Begin, Idle

LEMMA ArrivalGood ==
  ASSUME IType, NEW s \in Slot, Good(Blank), Arrive(s) PROVE Good(req[s])'
<1>1. CASE CreateRoomBegin(s)
  BY <1>1, StartGood DEF CreateRoomBegin, Blank
<1>2. CASE AssignTenantBegin(s)
  BY <1>2, StartGood DEF AssignTenantBegin, Blank
<1>3. CASE UpdateStatusBegin(s)
  BY <1>3, StartGood DEF UpdateStatusBegin, Blank
<1>4. CASE DeleteRoomBegin(s)
  BY <1>4, StartGood DEF DeleteRoomBegin, Blank
<1>5. CASE InviteOwnerBegin(s)
  BY <1>5, StartGood DEF InviteOwnerBegin, Blank
<1>6. CASE RegisterTenantBegin(s)
  BY <1>6, StartGood DEF RegisterTenantBegin, Blank
<1>7. CASE CreateBillBegin(s)
  BY <1>7, StartGood DEF CreateBillBegin, Blank
<1>8. CASE ConfirmPaymentBegin(s)
  BY <1>8, StartGood DEF ConfirmPaymentBegin, Blank
<1>9. CASE SendBillRemindersBegin(s)
  BY <1>9, StartGood DEF SendBillRemindersBegin, Blank
<1> QED BY <1>1, <1>2, <1>3, <1>4, <1>5, <1>6, <1>7, <1>8, <1>9
        DEF Arrive, RoomsBegin, AuthBegin, BillsBegin

RoomsReads(s) ==
  \/ AssignTenantRoom(s) \/ AssignTenantTenant(s) \/ UpdateStatusRoom(s)
  \/ DeleteRoomRoom(s) \/ DeleteRoomDevices(s) \/ DeleteRoomBills(s)

LEMMA RoomsReadGood ==
  ASSUME IType, NEW s \in Slot, Good(req[s]), RoomsReads(s) PROVE Good(req[s])'
<1>0. /\ req[s] \in Request /\ Shape(req[s]) /\ Checked(req[s]) /\ StatusTells
      /\ (req[s].op \in {"assignTenant", "updateStatus", "deleteRoom"} =>
            req[s].room \in RoomId /\ (rooms[req[s].room] # None => rooms[req[s].room] \in RoomDoc))
  BY DEF IType, TypeOK, ShapesOK, Shape, Good
<1>1. CASE AssignTenantRoom(s)
  <2>1. req[s].op = "assignTenant" /\ req[s].pc = "room" /\ UNCHANGED db
    BY <1>1 DEF AssignTenantRoom, At
  <2>2. CASE Goto(s, "tenant") /\ rooms[req[s].room] # None /\ rooms[req[s].room].status = "empty"
    <3>1. Free(req[s].room)
      BY <1>0, <2>1, <2>2 DEF StatusTells, Free
    <3>2. Checked([req[s] EXCEPT !.pc = "tenant"])
      BY <1>0, <2>1, <3>1 DEF Checked, Request
    <3> QED BY <2>1, <2>2, <3>2, ReadWent DEF Writing, Announcing
  <2> QED BY <1>1, <2>1, <2>2, ReadAnswered DEF AssignTenantRoom, MayManage, Writing, Announcing
<1>2. CASE AssignTenantTenant(s)
  <2>1. req[s].op = "assignTenant" /\ req[s].pc = "tenant" /\ UNCHANGED db /\ Free(req[s].room)
    BY <1>0, <1>2 DEF AssignTenantTenant, At, Checked
  <2> DEFINE q == [req[s] EXCEPT !.pc = "write", !.todo = {"room", "user"}]
  <2>2. CASE MayMoveIn(req[s].user) /\ req' = [req EXCEPT ![s] = q]
    <3>1. Homeless(req[s].user)
      BY <2>2 DEF MayMoveIn, Homeless
    <3>2. q.op = "assignTenant" /\ q.pc = "write" /\ q.todo = {"room", "user"}
          /\ q.room = req[s].room /\ q.user = req[s].user
      BY <1>0, <2>1 DEF Request
    <3> HIDE DEF q
    <3>3. Checked(q)
      BY <2>1, <3>1, <3>2 DEF Checked
    <3> QED BY <2>1, <2>2, <3>3, ReadGood DEF Writing, Announcing
  <2>3. Answer(s) \/ (MayMoveIn(req[s].user) /\ req' = [req EXCEPT ![s] = q])
    BY <1>2 DEF AssignTenantTenant, IType, TypeOK
  <2> QED BY <2>1, <2>2, <2>3, ReadAnswered DEF Writing, Announcing
<1>3. CASE UpdateStatusRoom(s)
  <2> DEFINE r == req[s].room
             t == rooms[r].tenant
             w == StatusWrites(r)
             q == [req[s] EXCEPT !.pc = "write", !.user = t, !.todo = w]
  <2>1. req[s].op = "updateStatus" /\ req[s].pc = "room" /\ UNCHANGED db
    BY <1>3 DEF UpdateStatusRoom, At
  <2>2. CASE MaySetStatus(req[s]) /\ req' = [req EXCEPT ![s] = q]
    <3>1. r \in RoomId /\ rooms[r] # None /\ rooms[r] \in RoomDoc
      BY <1>0, <2>1, <2>2 DEF MaySetStatus, MayManage
    <3>2. t \in UserId \cup {None} /\ w = IF t = None THEN {"room"} ELSE {"room", "user"}
      BY <3>1 DEF StatusWrites, RoomDoc
    <3>3. t = None => Free(r)
      BY <1>0, <3>1 DEF StatusTells, Free
    <3>4. t # None => Lives(r, t) /\ Homed(r, t)
      BY <2>1, <3>1, <3>2 DEF Good, Agree, Writing, Lives
    <3> HIDE DEF t, w
    <3>5. q.op = "updateStatus" /\ q.pc = "write" /\ q.todo = w /\ q.room = r /\ q.user = t
      BY <1>0, <2>1 DEF Request
    <3> HIDE DEF q, r
    <3>6. Checked(q)
      BY <3>2, <3>3, <3>4, <3>5 DEF Checked
    <3> QED BY <2>1, <2>2, <3>6, ReadGood DEF Writing, Announcing
  <2>3. Answer(s) \/ (MaySetStatus(req[s]) /\ req' = [req EXCEPT ![s] = q])
    BY <1>3 DEF UpdateStatusRoom, IType, TypeOK
  <2> QED BY <2>1, <2>2, <2>3, ReadAnswered DEF Writing, Announcing
<1>4. CASE DeleteRoomRoom(s)
  <2>1. req[s].op = "deleteRoom" /\ req[s].pc = "room" /\ UNCHANGED db
    BY <1>4 DEF DeleteRoomRoom, At
  <2>2. CASE Goto(s, "devices") /\ MayDelete(req[s])
    <3>1. Free(req[s].room)
      BY <1>0, <2>1, <2>2 DEF MayDelete, MayManage, StatusTells, Free
    <3>2. Checked([req[s] EXCEPT !.pc = "devices"])
      BY <1>0, <2>1, <3>1 DEF Checked, Request
    <3> QED BY <2>1, <2>2, <3>2, ReadWent DEF Writing, Announcing
  <2> QED BY <1>4, <2>1, <2>2, ReadAnswered DEF DeleteRoomRoom, Writing, Announcing
<1>5. CASE DeleteRoomDevices(s)
  <2>1. req[s].op = "deleteRoom" /\ req[s].pc = "devices" /\ UNCHANGED db /\ Free(req[s].room)
    BY <1>0, <1>5 DEF DeleteRoomDevices, At, Checked
  <2>2. Checked([req[s] EXCEPT !.pc = "bills"])
    BY <1>0, <2>1 DEF Checked, Request
  <2> QED BY <1>5, <2>1, <2>2, ReadWent, ReadAnswered DEF DeleteRoomDevices, Writing, Announcing
<1>6. CASE DeleteRoomBills(s)
  <2>1. req[s].op = "deleteRoom" /\ req[s].pc = "bills" /\ UNCHANGED db /\ Free(req[s].room)
    BY <1>0, <1>6 DEF DeleteRoomBills, At, Checked
  <2>2. CASE Goto(s, "remove") /\ Owing(req[s].room) = {}
    <3>1. Checked([req[s] EXCEPT !.pc = "remove"])
      BY <1>0, <2>1, <2>2 DEF Checked, Request
    <3> QED BY <2>1, <2>2, <3>1, ReadWent DEF Writing, Announcing
  <2> QED BY <1>6, <2>1, <2>2, ReadAnswered DEF DeleteRoomBills, Writing, Announcing
<1> QED BY <1>1, <1>2, <1>3, <1>4, <1>5, <1>6 DEF RoomsReads

AuthReads(s) == InviteOwnerEmail(s) \/ RegisterTenantEmail(s) \/ RegisterTenantRoom(s) \/ DuplicateEmail(s)

LEMMA AuthReadGood ==
  ASSUME IType, NEW s \in Slot, Good(req[s]), AuthReads(s),
         req[s].op \in Registering /\ req[s].pc # "link"
  PROVE  Good(req[s])'
<1>0. req[s] \in Request /\ Shape(req[s]) /\ Checked(req[s]) /\ StatusTells /\ UNCHANGED db
  BY DEF IType, TypeOK, ShapesOK, Good, AuthReads, InviteOwnerEmail, RegisterTenantEmail,
     RegisterTenantRoom, DuplicateEmail
<1>1. CASE InviteOwnerEmail(s)
  <2>1. Checked([req[s] EXCEPT !.pc = "user"])
    BY <1>0, <1>1 DEF InviteOwnerEmail, At, Checked, Request
  <2> QED BY <1>0, <1>1, <2>1, ReadWent, ReadAnswered DEF InviteOwnerEmail, At, Writing, Announcing
<1>2. CASE RegisterTenantEmail(s)
  <2>1. Checked([req[s] EXCEPT !.pc = "room"])
    BY <1>0, <1>2 DEF RegisterTenantEmail, At, Checked, Request
  <2> QED BY <1>0, <1>2, <2>1, ReadWent, ReadAnswered DEF RegisterTenantEmail, At, Writing, Announcing
<1>3. CASE RegisterTenantRoom(s)
  <2>1. req[s].op = "registerTenant" /\ req[s].pc = "room" /\ req[s].room \in RoomId
    BY <1>0, <1>3 DEF RegisterTenantRoom, At, Shape
  <2>2. CASE Goto(s, "user") /\ rooms[req[s].room] # None /\ rooms[req[s].room].status # "occupied"
    <3>1. Free(req[s].room)
      BY <1>0, <2>1, <2>2 DEF StatusTells, Free
    <3>2. Checked([req[s] EXCEPT !.pc = "user"])
      BY <1>0, <2>1, <3>1 DEF Checked, Request
    <3> QED BY <1>0, <2>1, <2>2, <3>2, ReadWent DEF Writing, Announcing
  <2> QED BY <1>0, <1>3, <2>1, <2>2, ReadAnswered DEF RegisterTenantRoom, Writing, Announcing
<1>4. CASE DuplicateEmail(s)
  BY <1>0, <1>4, ReadAnswered DEF DuplicateEmail, Writing, Announcing, Registering
<1> QED BY <1>1, <1>2, <1>3, <1>4 DEF AuthReads

BillsReads(s) ==
  \/ CreateBillRoom(s) \/ CreateBillTenant(s)
  \/ ConfirmPaymentBill(s) \/ ConfirmPaymentRoom(s) \/ SendBillRemindersFind(s)

LEMMA BillsReadGood ==
  ASSUME IType, NEW s \in Slot, Good(req[s]), BillsReads(s) PROVE Good(req[s])'
<1>0. req[s] \in Request /\ Checked(req[s]) /\ UNCHANGED db
  BY DEF IType, TypeOK, Good, BillsReads, CreateBillRoom, CreateBillTenant, ConfirmPaymentBill,
     ConfirmPaymentRoom, SendBillRemindersFind
<1>1. CASE CreateBillRoom(s)
  <2> DEFINE t == rooms[req[s].room].tenant
             q == [req[s] EXCEPT !.pc = "tenant", !.user = t]
  <2>1. req[s].op = "createBill" /\ req[s].pc = "room"
    BY <1>1 DEF CreateBillRoom, At
  <2>2. Answer(s) \/ (rooms[req[s].room] # None /\ req' = [req EXCEPT ![s] = q])
    BY <1>1 DEF CreateBillRoom, IType, TypeOK
  <2> HIDE DEF t
  <2>3. q.op = "createBill" /\ q.pc = "tenant" /\ q.room = req[s].room
    BY <1>0, <2>1 DEF Request
  <2> HIDE DEF q
  <2>4. rooms[req[s].room] # None => Checked(q)
    BY <2>3 DEF Checked
  <2> QED BY <1>0, <2>1, <2>2, <2>4, ReadGood, ReadAnswered DEF Writing, Announcing
<1>2. CASE CreateBillTenant(s)
  <2>1. Checked([req[s] EXCEPT !.pc = "insert"])
    BY <1>0, <1>2 DEF CreateBillTenant, At, Checked, Request
  <2> QED BY <1>0, <1>2, <2>1, ReadWent, ReadAnswered DEF CreateBillTenant, At, Writing, Announcing
<1>3. CASE ConfirmPaymentBill(s)
  <2> DEFINE r == bills[req[s].bill].room
             st == bills[req[s].bill].status
             q == [req[s] EXCEPT !.pc = "room", !.room = r, !.status = st]
  <2>1. req[s].op = "confirmPayment" /\ req[s].pc = "bill"
    BY <1>3 DEF ConfirmPaymentBill, At
  <2>2. Answer(s) \/ req' = [req EXCEPT ![s] = q]
    BY <1>3 DEF ConfirmPaymentBill, IType, TypeOK
  <2> HIDE DEF r, st
  <2>3. q.op = "confirmPayment"
    BY <1>0, <2>1 DEF Request
  <2> HIDE DEF q
  <2>4. Checked(q)
    BY <2>3 DEF Checked
  <2> QED BY <1>0, <2>1, <2>2, <2>4, ReadGood, ReadAnswered DEF Writing, Announcing
<1>4. CASE ConfirmPaymentRoom(s)
  <2>1. Checked([req[s] EXCEPT !.pc = "update"])
    BY <1>0, <1>4 DEF ConfirmPaymentRoom, At, Checked, Request
  <2> QED BY <1>0, <1>4, <2>1, ReadWent, ReadAnswered DEF ConfirmPaymentRoom, At, Writing, Announcing
<1>5. CASE SendBillRemindersFind(s)
  <2> DEFINE found == {b \in BillId : bills[b] # None /\ bills[b].status = "unpaid"}
             q == [req[s] EXCEPT !.pc = "each", !.batch = found]
  <2>1. req[s].op = "sendBillReminders" /\ req[s].pc = "find"
    BY <1>5 DEF SendBillRemindersFind, At
  <2>2. Answer(s) \/ req' = [req EXCEPT ![s] = q]
    BY <1>5 DEF SendBillRemindersFind, IType, TypeOK
  <2> HIDE DEF found
  <2>3. q.op = "sendBillReminders"
    BY <1>0, <2>1 DEF Request
  <2> HIDE DEF q
  <2>4. Checked(q)
    BY <2>3 DEF Checked
  <2> QED BY <1>0, <2>1, <2>2, <2>4, ReadGood, ReadAnswered DEF Writing, Announcing
<1> QED BY <1>1, <1>2, <1>3, <1>4, <1>5 DEF BillsReads

----------------------------------------------------------------------------
(***************************************************************************)
(* Steps that write to the rooms or to the users.                          *)
(***************************************************************************)
LEMMA RoomFields ==
  ASSUME IType, NEW r \in RoomId, rooms[r] # None, NEW t \in UserId \cup {None}, NEW st \in RoomStatus,
         SetRoom(r, t, st)
  PROVE  /\ rooms'[r] # None /\ rooms'[r].tenant = t /\ rooms'[r].status = st
         /\ \A x \in RoomId \ {r} : rooms'[x] = rooms[x]
<1> DEFINE d1 == [rooms[r] EXCEPT !.tenant = t]
           d2 == [d1 EXCEPT !.status = st]
<1>1. d1 \in RoomDoc /\ d1.tenant = t
  BY DEF IType, TypeOK, RoomDoc
<1>2. rooms' = [rooms EXCEPT ![r] = d2]
  BY DEF SetRoom, IType, TypeOK
<1> HIDE DEF d1
<1>3. d2 \in RoomDoc /\ d2.tenant = t /\ d2.status = st
  BY <1>1 DEF RoomDoc
<1> HIDE DEF d2
<1> QED BY <1>2, <1>3, IdsAssumption DEF IType, TypeOK

LEMMA HomeFields ==
  ASSUME IType, NEW u \in UserId, users[u] # None, NEW r \in RoomId \cup {None}, SetHome(u, r)
  PROVE  /\ users'[u] # None /\ users'[u].room = r
         /\ \A x \in UserId \ {u} : users'[x] = users[x]
<1> DEFINE doc == [users[u] EXCEPT !.room = r]
<1>1. doc \in UserDoc /\ doc.room = r
  BY DEF IType, TypeOK, UserDoc
<1>2. users' = [users EXCEPT ![u] = doc]
  BY DEF SetHome, IType, TypeOK
<1> HIDE DEF doc
<1> QED BY <1>1, <1>2, IdsAssumption DEF IType, TypeOK

\* Rooms and users agree but for r and u: what a step that writes to a tenancy
\* finds, and what it leaves.
AgreeBut(r, u) ==
  \A x \in RoomId, v \in UserId : (Lives(x, v) <=> Homed(x, v)) \/ (x = r /\ v = u)

AgreeFull == \A x \in RoomId, v \in UserId : Lives(x, v) <=> Homed(x, v)

\* r was let to u at most, and is now let to u at most; u lived in r at most.
LEMMA RoomLet ==
  ASSUME NEW r \in RoomId, NEW u \in UserId, AgreeBut(r, u), Free(r) \/ Lives(r, u), users' = users,
         \A x \in RoomId \ {r} : rooms'[x] = rooms[x], rooms'[r].tenant \in {u, None}
  PROVE  AgreeBut(r, u)'
<1> SUFFICES ASSUME NEW x \in RoomId, NEW v \in UserId, ~(x = r /\ v = u)
             PROVE  Lives(x, v)' <=> Homed(x, v)'
  BY DEF AgreeBut
<1>0. v # None /\ (Lives(x, v) <=> Homed(x, v))
  BY IdsAssumption DEF AgreeBut
<1>1. CASE x = r
  <2>1. ~Lives(x, v)
    BY <1>0, <1>1 DEF Free, Lives
  <2>2. ~Lives(x, v)'
    BY <1>0, <1>1 DEF Lives
  <2> QED BY <1>0, <2>1, <2>2 DEF Homed
<1>2. CASE x # r
  BY <1>0, <1>2 DEF Lives, Homed
<1> QED BY <1>1, <1>2

LEMMA UserMoved ==
  ASSUME NEW r \in RoomId, NEW u \in UserId, AgreeBut(r, u), Homeless(u) \/ Homed(r, u), rooms' = rooms,
         \A v \in UserId \ {u} : users'[v] = users[v], users'[u].room \in {r, None}
  PROVE  AgreeBut(r, u)'
<1> SUFFICES ASSUME NEW x \in RoomId, NEW v \in UserId, ~(x = r /\ v = u)
             PROVE  Lives(x, v)' <=> Homed(x, v)'
  BY DEF AgreeBut
<1>0. x # None /\ (Lives(x, v) <=> Homed(x, v))
  BY IdsAssumption DEF AgreeBut
<1>1. CASE v = u
  <2>1. ~Homed(x, v)
    BY <1>0, <1>1 DEF Homeless, Homed
  <2>2. ~Homed(x, v)'
    BY <1>0, <1>1 DEF Homed
  <2> QED BY <1>0, <2>1, <2>2 DEF Lives
<1>2. CASE v # u
  BY <1>0, <1>2 DEF Lives, Homed
<1> QED BY <1>1, <1>2

\* What is left to be good when only the rooms and users were written.
LEMMA TenancyGood ==
  ASSUME IType, NEW s \in Slot, Good(req[s]), UNCHANGED <<bills, notices>>,
         ~Announcing(req[s]), \A r \in RoomId : rooms[r] # None => rooms'[r] # None,
         Checked(req[s])', Agree(req[s])', StatusTells'
  PROVE  Good(req[s])'
<1>1. DebtsKeepTheirRoom'
  <2>1. \A b \in BillId : bills[b] # None => bills[b].room \in RoomId
    BY DEF IType, TypeOK, BillDoc
  <2> QED BY <2>1 DEF Good, DebtsKeepTheirRoom
<1>2. Told(req[s])'
  BY DEF Good, Told, Announcing
<1> QED BY <1>1, <1>2 DEF Good

\* The request after one of its writes: gone if that was the last one.
LEMMA Settles ==
  ASSUME IType, NEW s \in Slot, NEW w \in req[s].todo, Settle(s, w)
  PROVE  \/ req'[s] = Blank /\ req[s].todo = {w}
         \/ /\ req'[s].op = req[s].op /\ req'[s].pc = req[s].pc /\ req'[s].room = req[s].room
            /\ req'[s].user = req[s].user /\ req'[s].todo = req[s].todo \ {w}
BY DEF Settle, Answer, IType, TypeOK, Request

\* One of the two writes of a Promise.all, given what it made of the pair.
LEMMA PairWritten ==
  ASSUME IType, NEW s \in Slot, Good(req[s]),
         req[s].op \in {"assignTenant", "updateStatus"}, req[s].pc = "write",
         req[s].todo \subseteq {"room", "user"}, NEW w \in req[s].todo, Settle(s, w),
         NEW r \in RoomId, NEW u \in UserId, req[s].room = r, req[s].user = u,
         AgreeBut(r, u)', StatusTells', UNCHANGED <<bills, notices>>,
         \A x \in RoomId : rooms[x] # None => rooms'[x] # None,
         IF req[s].op = "assignTenant"
         THEN /\ IF "room" \in req[s].todo \ {w} THEN Free(r)' ELSE Lives(r, u)'
              /\ IF "user" \in req[s].todo \ {w} THEN Homeless(u)' ELSE Homed(r, u)'
         ELSE /\ IF "room" \in req[s].todo \ {w} THEN Lives(r, u)' ELSE Free(r)'
              /\ IF "user" \in req[s].todo \ {w} THEN Homed(r, u)' ELSE Homeless(u)'
  PROVE  Good(req[s])'
<1>0. r # None /\ u # None
  BY IdsAssumption
<1>1. CASE req'[s] = Blank /\ req[s].todo = {w}
  <2>1. Lives(r, u)' <=> Homed(r, u)'
    BY <1>0, <1>1 DEF Free, Homeless, Lives, Homed
  <2>2. Agree(req[s])'
    BY <2>1 DEF AgreeBut, Agree
  <2>3. Checked(req[s])'
    BY <1>1 DEF Checked, Blank
  <2> QED BY <2>2, <2>3, TenancyGood DEF Announcing
<1>2. CASE /\ req'[s].op = req[s].op /\ req'[s].pc = req[s].pc /\ req'[s].room = req[s].room
           /\ req'[s].user = req[s].user /\ req'[s].todo = req[s].todo \ {w}
  <2>1. Agree(req[s])'
    BY <1>2 DEF AgreeBut, Agree, Writing
  <2>2. Checked(req[s])'
    BY <1>0, <1>2 DEF Checked, Free, Homeless, Lives, Homed
  <2> QED BY <2>1, <2>2, TenancyGood DEF Announcing
<1> QED BY <1>1, <1>2, Settles

LEMMA AssignWriteGood ==
  ASSUME IType, NEW s \in Slot, Good(req[s]), AssignTenantSetRoom(s) \/ AssignTenantSetUser(s)
  PROVE  Good(req[s])'
<1>0. /\ req[s].op = "assignTenant" /\ req[s].pc = "write" /\ req[s].todo \subseteq {"room", "user"}
      /\ req[s].room \in RoomId /\ req[s].user \in UserId /\ Checked(req[s]) /\ Agree(req[s]) /\ StatusTells
  BY DEF AssignTenantSetRoom, AssignTenantSetUser, At, IType, TypeOK, ShapesOK, Shape, Request, Good
<1>1. PICK r \in RoomId, u \in UserId : r = req[s].room /\ u = req[s].user
  BY <1>0
<1>2. /\ IF "room" \in req[s].todo THEN Free(r) ELSE Lives(r, u)
      /\ IF "user" \in req[s].todo THEN Homeless(u) ELSE Homed(r, u)
      /\ AgreeBut(r, u) /\ r # None /\ u # None
  BY <1>0, <1>1, IdsAssumption DEF Checked, Agree, AgreeBut
<1>3. CASE AssignTenantSetRoom(s)
  <2>1. SetRoom(r, u, "occupied") /\ Settle(s, "room") /\ "room" \in req[s].todo
        /\ UNCHANGED <<users, bills, notices>>
    BY <1>1, <1>3 DEF AssignTenantSetRoom
  <2>2. /\ rooms[r] # None /\ rooms'[r] # None /\ rooms'[r].tenant = u /\ rooms'[r].status = "occupied"
        /\ \A x \in RoomId \ {r} : rooms'[x] = rooms[x]
    BY <1>2, <2>1, RoomFields DEF Free, RoomStatus
  <2>3. AgreeBut(r, u)'
    BY <1>2, <2>1, <2>2, RoomLet
  <2>4. StatusTells' /\ Lives(r, u)'
    BY <1>0, <1>2, <2>2 DEF StatusTells, Lives
  <2>5. IF "user" \in req[s].todo \ {"room"} THEN Homeless(u)' ELSE Homed(r, u)'
    BY <1>2, <2>1 DEF Homeless, Homed
  <2> QED BY <1>0, <1>1, <2>1, <2>2, <2>3, <2>4, <2>5, PairWritten
<1>4. CASE AssignTenantSetUser(s)
  <2>1. SetHome(u, r) /\ Settle(s, "user") /\ "user" \in req[s].todo /\ UNCHANGED <<rooms, bills, notices>>
    BY <1>1, <1>4 DEF AssignTenantSetUser
  <2>2. /\ users'[u] # None /\ users'[u].room = r
        /\ \A x \in UserId \ {u} : users'[x] = users[x]
    BY <1>2, <2>1, HomeFields DEF Homeless
  <2>3. AgreeBut(r, u)'
    BY <1>2, <2>1, <2>2, UserMoved
  <2>4. StatusTells' /\ Homed(r, u)'
    BY <1>0, <2>1, <2>2 DEF StatusTells, Homed
  <2>5. IF "room" \in req[s].todo \ {"user"} THEN Free(r)' ELSE Lives(r, u)'
    BY <1>2, <2>1 DEF Free, Lives
  <2> QED BY <1>0, <1>1, <2>1, <2>3, <2>4, <2>5, PairWritten
<1> QED BY <1>3, <1>4

LEMMA UpdateWriteGood ==
  ASSUME IType, NEW s \in Slot, Good(req[s]), UpdateStatusSetRoom(s) \/ UpdateStatusSetUser(s)
  PROVE  Good(req[s])'
<1>0. /\ req[s].op = "updateStatus" /\ req[s].pc = "write" /\ req[s].todo \subseteq {"room", "user"}
      /\ req[s].room \in RoomId /\ req[s].user \in UserId \cup {None} /\ req[s].status \in RoomStatus
      /\ req[s].status # "occupied" /\ ("user" \in req[s].todo => req[s].user \in UserId)
      /\ Checked(req[s]) /\ Agree(req[s]) /\ StatusTells
  BY DEF UpdateStatusSetRoom, UpdateStatusSetUser, At, IType, TypeOK, ShapesOK, Shape, Request, Good
<1>1. PICK r \in RoomId, u \in UserId \cup {None} : r = req[s].room /\ u = req[s].user
  BY <1>0
<1>2. CASE u = None
  <2>1. Free(r) /\ AgreeFull
    BY <1>0, <1>1, <1>2, IdsAssumption DEF Checked, Agree, AgreeFull
  <2>2. SetRoom(r, None, req[s].status) /\ Settle(s, "room") /\ "room" \in req[s].todo
        /\ UNCHANGED <<users, bills, notices>>
    BY <1>0, <1>1, <1>2, <2>1, IdsAssumption DEF UpdateStatusSetRoom, UpdateStatusSetUser, TenantLeft, Free
  <2>3. /\ rooms[r] # None /\ rooms'[r] # None /\ rooms'[r].tenant = None /\ rooms'[r].status = req[s].status
        /\ \A x \in RoomId \ {r} : rooms'[x] = rooms[x]
    BY <1>0, <2>1, <2>2, RoomFields DEF Free
  <2>4. \A x \in RoomId, v \in UserId : Lives(x, v)' <=> Lives(x, v)
    BY <2>1, <2>3, IdsAssumption DEF Free, Lives
  <2>5. AgreeFull'
    BY <2>1, <2>2, <2>4 DEF AgreeFull, Homed
  <2>6. Agree(req[s])' /\ StatusTells'
    BY <1>0, <2>3, <2>5 DEF AgreeFull, Agree, StatusTells
  <2>7. Checked(req[s])'
    <3>1. CASE req'[s] = Blank
      BY <3>1 DEF Checked, Blank
    <3>2. CASE req'[s].op = req[s].op /\ req'[s].pc = req[s].pc /\ req'[s].room = req[s].room
               /\ req'[s].user = req[s].user
      BY <1>0, <1>1, <1>2, <2>3, <3>2 DEF Checked, Free
    <3> QED BY <2>2, <3>1, <3>2, Settles
  <2> QED BY <1>0, <2>2, <2>3, <2>6, <2>7, TenancyGood DEF Announcing
<1>3. CASE u # None
  <2>0. u \in UserId
    BY <1>3
  <2>1. /\ IF "room" \in req[s].todo THEN Lives(r, u) ELSE Free(r)
        /\ IF "user" \in req[s].todo THEN Homed(r, u) ELSE Homeless(u)
        /\ AgreeBut(r, u) /\ r # None
    BY <1>0, <1>1, <1>3, IdsAssumption DEF Checked, Agree, AgreeBut
  <2>2. CASE UpdateStatusSetRoom(s)
    <3>1. SetRoom(r, None, req[s].status) /\ Settle(s, "room") /\ "room" \in req[s].todo
          /\ UNCHANGED <<users, bills, notices>>
      BY <1>1, <1>3, <2>2 DEF UpdateStatusSetRoom, TenantLeft
    <3>2. /\ rooms[r] # None /\ rooms'[r] # None /\ rooms'[r].tenant = None
          /\ rooms'[r].status = req[s].status /\ \A x \in RoomId \ {r} : rooms'[x] = rooms[x]
      BY <1>0, <2>1, <3>1, RoomFields DEF Lives
    <3>3. AgreeBut(r, u)'
      BY <2>0, <2>1, <3>1, <3>2, RoomLet
    <3>4. StatusTells' /\ Free(r)'
      BY <1>0, <3>2 DEF StatusTells, Free
    <3>5. IF "user" \in req[s].todo \ {"room"} THEN Homed(r, u)' ELSE Homeless(u)'
      BY <2>1, <3>1 DEF Homeless, Homed
    <3> QED BY <1>0, <1>1, <2>0, <3>1, <3>2, <3>3, <3>4, <3>5, PairWritten
  <2>3. CASE UpdateStatusSetUser(s)
    <3>1. SetHome(u, None) /\ Settle(s, "user") /\ "user" \in req[s].todo /\ UNCHANGED <<rooms, bills, notices>>
      BY <1>1, <2>3 DEF UpdateStatusSetUser
    <3>2. /\ users'[u] # None /\ users'[u].room = None
          /\ \A x \in UserId \ {u} : users'[x] = users[x]
      BY <2>0, <2>1, <3>1, HomeFields DEF Homed
    <3>3. AgreeBut(r, u)'
      BY <2>0, <2>1, <3>1, <3>2, UserMoved
    <3>4. StatusTells' /\ Homeless(u)'
      BY <1>0, <3>1, <3>2 DEF StatusTells, Homeless
    <3>5. IF "room" \in req[s].todo \ {"user"} THEN Lives(r, u)' ELSE Free(r)'
      BY <2>1, <3>1 DEF Free, Lives
    <3> QED BY <1>0, <1>1, <2>0, <3>1, <3>3, <3>4, <3>5, PairWritten
  <2> QED BY <2>2, <2>3
<1> QED BY <1>2, <1>3

LEMMA LinkGood ==
  ASSUME IType, NEW s \in Slot, Good(req[s]), RegisterTenantLink(s) PROVE Good(req[s])'
<1>0. /\ req[s].op = "registerTenant" /\ req[s].pc = "link"
      /\ req[s].room \in RoomId /\ req[s].user \in UserId /\ Checked(req[s]) /\ Agree(req[s]) /\ StatusTells
      /\ req'[s] = Blank
  BY DEF RegisterTenantLink, Answer, At, IType, TypeOK, ShapesOK, Shape, Request, Good
<1>1. PICK r \in RoomId, u \in UserId : r = req[s].room /\ u = req[s].user
  BY <1>0
<1>2. Free(r) /\ Homed(r, u) /\ AgreeBut(r, u) /\ u # None
  BY <1>0, <1>1, IdsAssumption DEF Checked, Agree, AgreeBut
<1>3. SetRoom(r, u, "occupied") /\ UNCHANGED <<users, bills, notices>>
  BY <1>1 DEF RegisterTenantLink
<1>4. /\ rooms[r] # None /\ rooms'[r] # None /\ rooms'[r].tenant = u /\ rooms'[r].status = "occupied"
      /\ \A x \in RoomId \ {r} : rooms'[x] = rooms[x]
  BY <1>2, <1>3, RoomFields DEF Free, RoomStatus
<1>5. AgreeBut(r, u)'
  BY <1>2, <1>3, <1>4, RoomLet
<1>6. StatusTells' /\ Lives(r, u)' /\ Homed(r, u)'
  BY <1>0, <1>2, <1>3, <1>4 DEF StatusTells, Lives, Homed
<1>7. Agree(req[s])' /\ Checked(req[s])'
  BY <1>0, <1>5, <1>6 DEF AgreeBut, Agree, Checked, Blank
<1> QED BY <1>0, <1>3, <1>4, <1>6, <1>7, TenancyGood DEF Announcing

LEMMA InsertGood ==
  ASSUME IType, RoomsReserved, NEW s \in Slot, Good(req[s]), CreateRoomInsert(s) PROVE Good(req[s])'
<1>0. /\ req[s].op = "createRoom" /\ req[s].pc = "insert" /\ req[s].room \in RoomId
      /\ rooms[req[s].room] = None /\ Agree(req[s]) /\ StatusTells /\ req'[s] = Blank
  BY DEF CreateRoomInsert, Answer, At, IType, TypeOK, ShapesOK, Shape, Good, RoomsReserved, Born
<1>1. PICK r \in RoomId : r = req[s].room
  BY <1>0
<1>2. /\ rooms'[r] = [owner |-> req[s].caller, tenant |-> None, status |-> "empty"]
      /\ \A x \in RoomId \ {r} : rooms'[x] = rooms[x]
      /\ UNCHANGED <<users, bills, notices>>
  BY <1>1 DEF CreateRoomInsert, IType, TypeOK
<1>3. \A x \in RoomId, v \in UserId : Lives(x, v)' <=> Lives(x, v)
  BY <1>0, <1>1, <1>2, IdsAssumption DEF Lives
<1>4. AgreeFull'
  BY <1>0, <1>2, <1>3 DEF AgreeFull, Agree, Writing, Homed
<1>5. Agree(req[s])' /\ StatusTells' /\ Checked(req[s])'
  BY <1>0, <1>2, <1>4 DEF AgreeFull, Agree, StatusTells, Checked, Blank
<1>6. \A x \in RoomId : rooms[x] # None => rooms'[x] # None
  BY <1>0, <1>1, <1>2
<1> QED BY <1>0, <1>2, <1>5, <1>6, TenancyGood DEF Announcing

LEMMA RemoveGood ==
  ASSUME IType, NEW s \in Slot, Good(req[s]), DeleteRoomRemove(s) PROVE Good(req[s])'
<1>0. /\ req[s].op = "deleteRoom" /\ req[s].pc = "remove" /\ req[s].room \in RoomId
      /\ Free(req[s].room) /\ Owing(req[s].room) = {} /\ Agree(req[s]) /\ StatusTells /\ req'[s] = Blank
  BY DEF DeleteRoomRemove, Answer, At, IType, TypeOK, ShapesOK, Shape, Good, Checked
<1>1. PICK r \in RoomId : r = req[s].room
  BY <1>0
<1>2. /\ rooms'[r] = None /\ (\A x \in RoomId \ {r} : rooms'[x] = rooms[x])
      /\ UNCHANGED <<users, bills, notices>>
  BY <1>1 DEF DeleteRoomRemove, IType, TypeOK
<1>3. \A x \in RoomId, v \in UserId : Lives(x, v)' <=> Lives(x, v)
  BY <1>0, <1>1, <1>2, IdsAssumption DEF Lives, Free
<1>4. AgreeFull'
  BY <1>0, <1>2, <1>3 DEF AgreeFull, Agree, Writing, Homed
<1>5. Agree(req[s])' /\ StatusTells' /\ Checked(req[s])'
  BY <1>0, <1>2, <1>4 DEF AgreeFull, Agree, StatusTells, Checked, Blank
<1>6. Told(req[s])'
  BY <1>0, <1>2 DEF Good, Told
<1>7. DebtsKeepTheirRoom'
  <2> SUFFICES ASSUME NEW b \in BillId, bills[b] # None, bills[b].status # "paid"
               PROVE  rooms'[bills[b].room] # None
    BY <1>2 DEF DebtsKeepTheirRoom
  <2>1. bills[b].room \in RoomId /\ rooms[bills[b].room] # None
    BY DEF Good, DebtsKeepTheirRoom, IType, TypeOK, BillDoc
  <2>2. bills[b].room # r
    BY <1>0, <1>1 DEF Owing
  <2> QED BY <1>2, <2>1, <2>2
<1> QED BY <1>5, <1>6, <1>7 DEF Good

\* A new account: of an owner, or of a tenant whose room is linked next.
LEMMA AccountGood ==
  ASSUME IType, UsersReserved, NEW s \in Slot, Good(req[s]), InviteOwnerUser(s) \/ RegisterTenantUser(s),
         ~DuplicateEmail(s)
  PROVE  Good(req[s])'
<1>0. /\ req[s].op \in {"inviteOwner", "registerTenant"} /\ req[s].pc = "user" /\ req[s].user \in UserId
      /\ users[req[s].user] = None /\ Agree(req[s]) /\ StatusTells /\ Checked(req[s]) /\ req[s] \in Request
      /\ UNCHANGED <<rooms, bills, notices>>
  BY DEF InviteOwnerUser, RegisterTenantUser, At, IType, TypeOK, ShapesOK, Shape, Good, UsersReserved,
     Registering
<1>1. PICK u \in UserId : u = req[s].user
  BY <1>0
<1>2. Agree(req[s])' /\ Checked(req[s])'
  <2>1. CASE InviteOwnerUser(s)
    <3>1. req'[s] = Blank
      BY <2>1 DEF InviteOwnerUser, Answer, IType, TypeOK
    <3>2. users'[u].room = None /\ \A v \in UserId \ {u} : users'[v] = users[v]
      <4>1. PICK ph \in BOOLEAN : users' = [users EXCEPT ![u] = OwnerAccount(req[s], ph)]
        BY <1>1, <2>1 DEF InviteOwnerUser, InsertUser
      <4>2. OwnerAccount(req[s], ph).room = None
        BY DEF OwnerAccount
      <4> QED BY <4>1, <4>2 DEF IType, TypeOK
    <3>3. \A x \in RoomId, v \in UserId : Homed(x, v)' <=> Homed(x, v)
      BY <1>0, <1>1, <3>2, IdsAssumption DEF Homed
    <3>4. AgreeFull'
      BY <1>0, <3>3 DEF AgreeFull, Agree, Writing, Lives
    <3> QED BY <3>1, <3>4 DEF AgreeFull, Agree, Checked, Blank
  <2>2. CASE RegisterTenantUser(s)
    <3>1. PICK r \in RoomId : r = req[s].room
      BY <2>2 DEF RegisterTenantUser, At, IType, ShapesOK, Shape
    <3>2. /\ req'[s].op = "registerTenant" /\ req'[s].pc = "link" /\ req'[s].room = r /\ req'[s].user = u
          /\ req[s].op = "registerTenant"
      BY <1>0, <1>1, <2>2, <3>1 DEF RegisterTenantUser, At, Goto, IType, TypeOK, Request
    <3>3. PICK ph \in BOOLEAN : users' = [users EXCEPT ![u] = TenantAccount(req[s], ph)]
      BY <1>1, <2>2 DEF RegisterTenantUser, InsertUser
    <3>4. users'[u] # None /\ users'[u].room = r /\ \A v \in UserId \ {u} : users'[v] = users[v]
      <4>1. TenantAccount(req[s], ph) \in UserDoc /\ TenantAccount(req[s], ph).room = r
        BY <3>1, <2>2 DEF RegisterTenantUser, At, TenantAccount, UserDoc, Role, IType, ShapesOK, Shape
      <4> QED BY <3>3, <4>1, IdsAssumption DEF IType, TypeOK
    <3>5. Free(r)' /\ Homed(r, u)'
      BY <1>0, <3>1, <3>2, <3>4 DEF Checked, Free, Homed
    <3>6. Checked(req[s])'
      BY <3>2, <3>5 DEF Checked
    <3>7. \A x \in RoomId, v \in UserId : ~(x = r /\ v = u) => (Homed(x, v)' <=> Homed(x, v))
      BY <1>0, <1>1, <3>4 DEF Homed
    <3>8. Agree(req[s])'
      BY <1>0, <3>2, <3>7 DEF Agree, Writing, Lives
    <3> QED BY <3>6, <3>8
  <2> QED BY <2>1, <2>2
<1> QED BY <1>0, <1>2, TenancyGood DEF Announcing, StatusTells

----------------------------------------------------------------------------
(***************************************************************************)
(* Steps that write to the bills or announce one.                          *)
(***************************************************************************)
LEMMA BillsGood ==
  ASSUME NEW s \in Slot, Good(req[s]), UNCHANGED <<rooms, users>>,
         ~Writing(req[s]), Checked(req[s])', DebtsKeepTheirRoom', Told(req[s])'
  PROVE  Good(req[s])'
<1>1. Agree(req[s])' /\ StatusTells'
  BY DEF Good, Agree, StatusTells, Lives, Homed
<1> QED BY <1>1 DEF Good

LEMMA BillInsertGood ==
  ASSUME IType, NEW s \in Slot, Good(req[s]), CreateBillInsert(s) PROVE Good(req[s])'
<1>0. /\ req[s].op = "createBill" /\ req[s].pc = "insert" /\ req[s].room \in RoomId
      /\ req[s].bill \in BillId /\ rooms[req[s].room] # None /\ req[s] \in Request
      /\ UNCHANGED <<rooms, users, gone, notices, receipts>>
  BY DEF CreateBillInsert, At, IType, TypeOK, ShapesOK, Shape, Good, Checked
<1>1. CASE Answer(s) /\ bills' = bills
  BY <1>0, <1>1, ReadAnswered DEF Writing, Announcing, db
<1>2. CASE Goto(s, "notify") /\ bills' = [bills EXCEPT ![req[s].bill] = NewBill(req[s])]
  <2>1. PICK b \in BillId : b = req[s].bill
    BY <1>0
  <2>2. bills'[b] = NewBill(req[s]) /\ \A c \in BillId \ {b} : bills'[c] = bills[c]
    BY <1>2, <2>1 DEF IType, TypeOK
  <2>3. /\ req'[s].op = "createBill" /\ req'[s].pc = "notify" /\ req'[s].bill = b
        /\ req'[s].user = req[s].user
    BY <1>0, <1>2, <2>1 DEF Goto, IType, TypeOK, Request
  <2>4. DebtsKeepTheirRoom'
    BY <1>0, <2>2 DEF Good, DebtsKeepTheirRoom, NewBill
  <2>5. Told(req[s])'
    <3> SUFFICES ASSUME NEW c \in BillId, bills'[c] # None, SeedBills[c] = None, c # b
                 PROVE  <<c, bills'[c].tenant>> \in notices
      BY <1>0, <2>2, <2>3 DEF Told, NewBill
    <3> QED BY <1>0, <2>2 DEF Good, Told
  <2>6. Checked(req[s])'
    BY <2>3 DEF Checked
  <2> QED BY <1>0, <2>4, <2>5, <2>6, BillsGood DEF Writing
<1> QED BY <1>1, <1>2 DEF CreateBillInsert

LEMMA AnnounceGood ==
  ASSUME IType, ~Faults, NEW s \in Slot, Good(req[s]), CreateBillNotify(s) \/ SendBillRemindersEach(s)
  PROVE  Good(req[s])'
<1>0. /\ req[s] \in Request /\ UNCHANGED <<rooms, users, bills>> /\ notices \subseteq notices'
      /\ ~Writing(req[s])
  BY DEF CreateBillNotify, SendBillRemindersEach, NotifyBill, At, Writing, IType, TypeOK
<1>1. DebtsKeepTheirRoom'
  BY <1>0 DEF Good, DebtsKeepTheirRoom
<1>2. CASE CreateBillNotify(s)
  <2>1. req'[s] = Blank /\ <<req[s].bill, req[s].user>> \in notices'
    BY <1>2 DEF CreateBillNotify, NotifyBill, Answer, IType, TypeOK
  <2>2. Told(req[s])'
    BY <1>0, <2>1 DEF Good, Told
  <2>3. Checked(req[s])'
    BY <2>1 DEF Checked, Blank
  <2> QED BY <1>0, <1>1, <2>2, <2>3, BillsGood
<1>3. CASE SendBillRemindersEach(s)
  <2>1. req[s].op = "sendBillReminders"
    BY <1>3 DEF SendBillRemindersEach, At
  <2>2. req'[s].op \in {"idle", "sendBillReminders"}
    BY <1>0, <1>3, <2>1 DEF SendBillRemindersEach, NextBill, Answer, Blank, IType, TypeOK, Request
  <2>3. Told(req[s])'
    BY <1>0, <2>1 DEF Good, Told
  <2>4. Checked(req[s])'
    BY <2>2 DEF Checked
  <2> QED BY <1>0, <1>1, <2>3, <2>4, BillsGood
<1> QED BY <1>2, <1>3

LEMMA PayGood ==
  ASSUME IType, NEW s \in Slot, Good(req[s]), ConfirmPaymentUpdate(s) PROVE Good(req[s])'
<1>0. /\ req[s].op = "confirmPayment" /\ req[s].pc = "update" /\ req[s].bill \in BillId
      /\ UNCHANGED <<rooms, users, notices>> /\ req'[s] = Blank
  BY DEF ConfirmPaymentUpdate, Answer, At, IType, TypeOK, ShapesOK, Shape
<1>1. \A b \in BillId : bills'[b] = bills[b] \/
        (bills[b] # None /\ bills'[b].status = "paid" /\ bills'[b].tenant = bills[b].tenant)
  <2>1. \A b \in BillId : bills[b] # None =>
          Paid(bills[b]).status = "paid" /\ Paid(bills[b]).tenant = bills[b].tenant
    BY DEF Paid, IType, TypeOK, BillDoc
  <2> QED BY <1>0, <2>1 DEF ConfirmPaymentUpdate, Payable, IType, TypeOK
<1>2. DebtsKeepTheirRoom'
  BY <1>0, <1>1 DEF Good, DebtsKeepTheirRoom
<1>3. Told(req[s])'
  BY <1>0, <1>1 DEF Good, Told
<1>4. Checked(req[s])'
  BY <1>0 DEF Checked, Blank
<1> QED BY <1>0, <1>2, <1>3, <1>4, BillsGood DEF Writing

----------------------------------------------------------------------------
\* One request at a time: whatever it does, it leaves things good.
LEMMA StepGood ==
  ASSUME IRooms, ~Faults, NEW s \in Slot, Good(req[s]), Step(s) PROVE Good(req[s])'
<1>0. IType /\ RoomsReserved /\ UsersReserved
  BY DEF IRooms, IBills
<1>1. CASE RoomsStep(s)
  BY <1>0, <1>1, RoomsReadGood, AssignWriteGood, UpdateWriteGood, InsertGood, RemoveGood
  DEF RoomsStep, RoomsReads
<1>2. CASE AuthStep(s)
  <2>1. RegisterTenantLink(s) \/ (req[s].op \in Registering /\ req[s].pc # "link")
    BY <1>2 DEF AuthStep, InviteOwnerEmail, InviteOwnerUser, RegisterTenantEmail, RegisterTenantRoom,
       RegisterTenantUser, At, Registering
  <2> QED BY <1>0, <1>2, <2>1, AuthReadGood, LinkGood, AccountGood DEF AuthStep, AuthReads
<1>3. CASE BillsStep(s)
  BY <1>0, <1>3, BillsReadGood, BillInsertGood, AnnounceGood, PayGood DEF BillsStep, BillsReads
<1> QED BY <1>1, <1>2, <1>3 DEF Step

\* Only the request being served has a step; another begins only when there is none.
LEMMA Served ==
  ASSUME IType, Serial, NEW q, Serves(q), NEW s \in Slot, Arrive(s) \/ Step(s)
  PROVE  req[s] = q /\ (Arrive(s) => q = Blank) /\ \A t \in Slot \ {s} : req[t] = Blank
<1>1. CASE Arrive(s)
  <2>1. \A t \in Slot : Idle(t)
    BY <1>1 DEF Arrive, RoomsBegin, AuthBegin, BillsBegin, CreateRoomBegin, AssignTenantBegin,
       UpdateStatusBegin, DeleteRoomBegin, InviteOwnerBegin, RegisterTenantBegin, CreateBillBegin,
       ConfirmPaymentBegin, SendBillRemindersBegin, Begin
  <2> QED BY <2>1 DEF Serves, Idle
<1>2. CASE Step(s)
  <2>1. req[s].pc # "idle"
    BY <1>2 DEF Step, RoomsStep, CreateRoomInsert, AssignTenantRoom, AssignTenantTenant,
       AssignTenantSetRoom, AssignTenantSetUser, UpdateStatusRoom, UpdateStatusSetRoom,
       UpdateStatusSetUser, DeleteRoomRoom, DeleteRoomDevices, DeleteRoomBills, DeleteRoomRemove,
       AuthStep, InviteOwnerEmail, InviteOwnerUser, RegisterTenantEmail, RegisterTenantRoom,
       RegisterTenantUser, RegisterTenantLink, BillsStep, CreateBillRoom, CreateBillTenant,
       CreateBillInsert, CreateBillNotify, ConfirmPaymentBill, ConfirmPaymentRoom,
       ConfirmPaymentUpdate, SendBillRemindersFind, SendBillRemindersEach, At
  <2>2. req[s] # Blank
    BY <2>1 DEF Blank
  <2>3. ~Arrive(s)
    BY <2>2 DEF Arrive, RoomsBegin, AuthBegin, BillsBegin, CreateRoomBegin, AssignTenantBegin,
       UpdateStatusBegin, DeleteRoomBegin, InviteOwnerBegin, RegisterTenantBegin, CreateBillBegin,
       ConfirmPaymentBegin, SendBillRemindersBegin, Begin, Idle
  <2> QED BY <2>2, <2>3 DEF Serves
<1> QED BY <1>1, <1>2

LEMMA HomesNext == OneAtATime /\ IRooms /\ IRooms' /\ IHomes /\ [Next]_vars => IHomes'
<1> SUFFICES ASSUME OneAtATime, IRooms, IRooms', IHomes, [Next]_vars PROVE IHomes'
  OBVIOUS
<1>0. IType /\ Serial /\ ~Faults /\ req' \in [Slot -> Request]
  BY DEF IRooms, IBills, IType, TypeOK, OneAtATime
<1>1. PICK q \in Request : Serves(q) /\ Good(q)
  BY DEF IHomes
<1>2. CASE UNCHANGED vars
  <2>1. Serves(q)'
    BY <1>1, <1>2 DEF Serves, vars
  <2>2. Good(q)'
    BY <1>1, <1>2 DEF Good, Checked, Free, Homeless, Lives, Homed, Owing, Agree, StatusTells,
       DebtsKeepTheirRoom, Told, vars
  <2> QED BY <2>1, <2>2 DEF IHomes
<1>3. ASSUME NEW s \in Slot, Arrive(s) \/ Step(s) PROVE IHomes'
  <2>1. req[s] = q /\ (Arrive(s) => q = Blank) /\ \A t \in Slot \ {s} : req[t] = Blank
    BY <1>0, <1>1, <1>3, Served
  <2>2. Good(req[s])'
    BY <1>0, <1>1, <1>3, <2>1, ArrivalGood, StepGood
  <2>3. \A t \in Slot \ {s} : req'[t] = Blank
    BY <1>0, <1>3, <2>1, OthersWait
  <2>4. PICK p \in Request : p = req'[s]
    BY <1>0
  <2>5. Serves(p)' /\ Good(p)'
    BY <2>2, <2>3, <2>4 DEF Serves, Good, Checked, Agree, Told
  <2> QED BY <2>5 DEF IHomes
<1> QED BY <1>0, <1>2, <1>3 DEF Next, CallFails, Crash

LEMMA HomesInit == OneAtATime /\ Init => IHomes
<1> SUFFICES ASSUME SeedsAgree, Init PROVE IHomes
  BY DEF OneAtATime
<1>1. Agree(Blank) /\ StatusTells /\ DebtsKeepTheirRoom /\ Told(Blank)
  BY DEF Init, SeedsAgree, Agree, Lives, Homed, StatusTells, DebtsKeepTheirRoom, Told
<1>2. Serves(Blank)
  BY DEF Init, Serves
<1> QED BY <1>1, <1>2, BlankChecked, BlankShape DEF IHomes, Good

LEMMA HomesInduction == OneAtATime /\ Spec => []IHomes
<1> SUFFICES ASSUME OneAtATime PROVE Spec => []IHomes
  OBVIOUS
<1>1. Init => IHomes
  BY HomesInit
<1>2. IRooms /\ IRooms' /\ IHomes /\ [Next]_vars => IHomes'
  BY HomesNext
<1> QED BY <1>1, <1>2, RoomsInduction, PTL DEF Spec

----------------------------------------------------------------------------
\* Served one at a time, requests leave rooms and users in agreement on who
\* lives where, and every room's status tells whether somebody does.
THEOREM TenancyCorrect == OneAtATime /\ Spec => []TenancyConsistent
<1>1. IHomes => TenancyConsistent
  <2> SUFFICES ASSUME IHomes, Quiet PROVE TenancyConsistent
    BY DEF TenancyConsistent
  <2>1. PICK q \in Request : Serves(q) /\ Good(q)
    BY DEF IHomes
  <2>2. q = Blank
    BY <2>1 DEF Serves, Quiet, Idle
  <2> QED BY <2>1, <2>2, BlankChecked DEF Good, Agree, StatusTells, Lives, Homed, TenancyConsistent
<1> QED BY <1>1, HomesInduction, PTL

\* Nobody is the current tenant of two rooms, also between the two writes of a
\* request that moves them.
THEOREM OneRoomCorrect == OneAtATime /\ Spec => []OneRoomPerTenant
<1>1. IRooms /\ IHomes => OneRoomPerTenant
  <2> SUFFICES ASSUME IRooms, IHomes PROVE OneRoomPerTenant
    OBVIOUS
  <2> SUFFICES ASSUME NEW r1 \in RoomId, NEW r2 \in RoomId, NEW u \in UserId,
                      Lives(r1, u), Lives(r2, u), r1 # r2
               PROVE  FALSE
    <3>1. \A r \in RoomId : rooms[r] # None /\ rooms[r].tenant # None => rooms[r].tenant \in UserId
      BY DEF IRooms, IBills, IType, TypeOK, RoomDoc
    <3> QED BY <3>1 DEF OneRoomPerTenant, Lives
  <2>1. PICK q \in Request : Serves(q) /\ Good(q)
    BY DEF IHomes
  <2>2. ~Homed(r1, u) \/ ~Homed(r2, u)
    BY DEF Homed
  <2>3. ASSUME NEW r \in RoomId, NEW x \in RoomId, r # x, Lives(r, u), ~Homed(r, u), Homed(x, u)
        PROVE  FALSE
    <3>1. Writing(q) /\ q.room = r /\ q.user = u
      BY <2>1, <2>3 DEF Good, Agree
    <3>2. Homeless(u) \/ Homed(r, u)
      BY <2>1, <3>1, IdsAssumption DEF Good, Checked, Writing
    <3> QED BY <2>3, <3>2, IdsAssumption DEF Homeless, Homed
  <2>4. Homed(r1, u) \/ Homed(r2, u)
    BY <2>1 DEF Good, Agree
  <2> QED BY <2>2, <2>3, <2>4
<1> QED BY <1>1, HomesInduction, RoomsInduction, PTL

\* No room is deleted while a bill of it is left to pay.
THEOREM DebtsCorrect == OneAtATime /\ Spec => []DebtsKeepTheirRoom
<1>1. IHomes => DebtsKeepTheirRoom
  BY DEF IHomes, Good
<1> QED BY <1>1, HomesInduction, PTL

\* A new bill has been announced by the time its request is over.
THEOREM AnnouncementsCorrect == OneAtATime /\ Spec => []AnnouncedAtOnce
<1>1. IHomes => AnnouncedAtOnce
  <2> SUFFICES ASSUME IHomes, Quiet PROVE AnnouncedAtOnce
    BY DEF AnnouncedAtOnce
  <2>1. PICK q \in Request : Serves(q) /\ Good(q)
    BY DEF IHomes
  <2>2. q = Blank
    BY <2>1 DEF Serves, Quiet, Idle
  <2>3. Told(Blank)
    BY <2>1, <2>2 DEF Good
  <2> QED BY <2>3, BlankChecked DEF Told, Announcing, AnnouncedAtOnce
<1> QED BY <1>1, HomesInduction, PTL

----------------------------------------------------------------------------
(***************************************************************************)
(* The register.                                                           *)
(***************************************************************************)
OpenRooms == {r \in RoomId : rooms[r] # None}
Home == [u \in UserId |-> IF users[u] = None THEN None ELSE users[u].room]

LEMMA HomeOf ==
  ASSUME NEW u \in UserId, NEW r \in RoomId PROVE Home[u] = r <=> Homed(r, u)
BY IdsAssumption DEF Home, Homed

\* One user moves: in the register too.
LEMMA HomeMoved ==
  ASSUME NEW u \in UserId, NEW r, users'[u] # None, users'[u].room = r,
         \A v \in UserId \ {u} : users'[v] = users[v]
  PROVE  Home' = [Home EXCEPT ![u] = r]
BY DEF Home

LEMMA RegisterMoveIn ==
  ASSUME NEW q, Agree(q), NEW r \in RoomId, NEW u \in UserId, Writing(q) => q.room = r /\ q.user = u,
         Home[u] = None, Free(r) \/ Lives(r, u), rooms' = rooms, Home' = [Home EXCEPT ![u] = r]
  PROVE  HomesOfUsers!Next
<1>1. \A v \in UserId : Home[v] # r
  <2> SUFFICES ASSUME NEW v \in UserId, Homed(r, v) PROVE FALSE
    BY HomeOf
  <2>1. v # u
    BY HomeOf, IdsAssumption
  <2>2. Lives(r, v)
    BY <2>1 DEF Agree
  <2> QED BY <2>1, <2>2, IdsAssumption DEF Lives, Free
<1>2. r \in OpenRooms /\ OpenRooms' = OpenRooms
  BY DEF OpenRooms, Free, Lives
<1>3. HomesOfUsers!MoveIn(u, r)
  BY <1>1, <1>2 DEF HomesOfUsers!MoveIn, HomesOfUsers!Vacant, OpenRooms, Home
<1> QED BY <1>3 DEF HomesOfUsers!Next

LEMMA RegisterUsers ==
  ASSUME IRooms, NEW s \in Slot, Good(req[s]), UserWrite(s)
  PROVE  HomesOfUsers!Next \/ UNCHANGED <<OpenRooms, Home>>
<1>0. /\ IType /\ req[s] \in Request /\ Checked(req[s]) /\ Agree(req[s]) /\ rooms' = rooms
      /\ req[s].user \in UserId
  BY DEF IRooms, IBills, IType, TypeOK, ShapesOK, Shape, Good, UserWrite, AssignTenantSetUser,
     UpdateStatusSetUser, InviteOwnerUser, RegisterTenantUser, DuplicateEmail, db, At
<1>1. PICK u \in UserId : u = req[s].user
  BY <1>0
<1>2. OpenRooms' = OpenRooms
  BY <1>0 DEF OpenRooms
<1>3. CASE AssignTenantSetUser(s)
  <2>1. PICK r \in RoomId : r = req[s].room
    BY <1>0, <1>3 DEF AssignTenantSetUser, At, IType, ShapesOK, Shape
  <2>2. /\ req[s].op = "assignTenant" /\ req[s].pc = "write" /\ SetHome(u, r) /\ Homeless(u)
        /\ Free(r) \/ Lives(r, u)
    BY <1>0, <1>1, <1>3, <2>1 DEF AssignTenantSetUser, At, Checked
  <2>3. Home[u] = None /\ Home' = [Home EXCEPT ![u] = r]
    BY <1>0, <2>2, HomeFields, HomeMoved DEF Homeless, Home
  <2> QED BY <1>0, <1>1, <2>1, <2>2, <2>3, RegisterMoveIn
<1>4. CASE UpdateStatusSetUser(s)
  <2>1. PICK r \in RoomId : r = req[s].room
    BY <1>0, <1>4 DEF UpdateStatusSetUser, At, IType, ShapesOK, Shape
  <2>2. Homed(r, u) /\ SetHome(u, None)
    BY <1>0, <1>1, <1>4, <2>1, IdsAssumption DEF UpdateStatusSetUser, At, Checked
  <2>3. Home[u] = r /\ Home' = [Home EXCEPT ![u] = None]
    BY <1>0, <2>2, HomeOf, HomeFields, HomeMoved DEF Homed
  <2>4. HomesOfUsers!MoveOut(u)
    BY <1>2, <2>3, IdsAssumption DEF HomesOfUsers!MoveOut, OpenRooms, Home
  <2> QED BY <2>4 DEF HomesOfUsers!Next
<1>5. CASE DuplicateEmail(s)
  BY <1>2, <1>5 DEF DuplicateEmail, Home, db
<1>6. CASE InviteOwnerUser(s) /\ ~DuplicateEmail(s)
  <2>1. PICK ph \in BOOLEAN : users' = [users EXCEPT ![u] = OwnerAccount(req[s], ph)]
    BY <1>1, <1>6 DEF InviteOwnerUser, InsertUser
  <2>2. OwnerAccount(req[s], ph).room = None /\ users[u] = None
    BY <1>1, <1>6 DEF OwnerAccount, InviteOwnerUser, At, IRooms, UsersReserved, Registering
  <2>3. Home' = Home
    BY <1>0, <2>1, <2>2 DEF Home, IType, TypeOK
  <2> QED BY <1>2, <2>3
<1>7. CASE RegisterTenantUser(s) /\ ~DuplicateEmail(s)
  <2>1. PICK r \in RoomId : r = req[s].room
    BY <1>0, <1>7 DEF RegisterTenantUser, At, IType, ShapesOK, Shape
  <2>2. PICK ph \in BOOLEAN : users' = [users EXCEPT ![u] = TenantAccount(req[s], ph)]
    BY <1>1, <1>7 DEF RegisterTenantUser, InsertUser
  <2>3. TenantAccount(req[s], ph) \in UserDoc /\ TenantAccount(req[s], ph).room = r
    BY <2>1, <1>0, <1>7 DEF RegisterTenantUser, At, TenantAccount, UserDoc, Role, IType, ShapesOK, Shape
  <2>4. users'[u] # None /\ users'[u].room = r /\ \A v \in UserId \ {u} : users'[v] = users[v]
    BY <1>0, <2>2, <2>3, IdsAssumption DEF IType, TypeOK
  <2>5. Home[u] = None /\ Home' = [Home EXCEPT ![u] = r]
    BY <1>1, <1>7, <2>4, HomeMoved
    DEF RegisterTenantUser, At, IRooms, UsersReserved, Registering, Home
  <2>6. Free(r) /\ ~Writing(req[s])
    BY <1>0, <1>7, <2>1 DEF RegisterTenantUser, At, Checked, Writing
  <2> QED BY <1>0, <2>5, <2>6, RegisterMoveIn
<1> QED BY <1>3, <1>4, <1>5, <1>6, <1>7 DEF UserWrite

LEMMA RegisterRooms ==
  ASSUME IRooms, [Next]_vars, users' = users,
         \A s \in Slot : DeleteRoomRemove(s) => Good(req[s])
  PROVE  HomesOfUsers!Next \/ UNCHANGED <<OpenRooms, Home>>
<1>0. IType /\ RoomsReserved /\ Home' = Home
  BY DEF IRooms, IBills, Home
<1>1. CASE rooms' = rooms
  BY <1>0, <1>1 DEF OpenRooms
<1>2. ASSUME NEW s \in Slot, req[s].room \in RoomId, RoomAdded(s) PROVE HomesOfUsers!Next
  <2>1. PICK r \in RoomId : r = req[s].room
    BY <1>2
  <2> DEFINE doc == [owner |-> req[s].caller, tenant |-> None, status |-> "empty"]
  <2>2. rooms[r] = None /\ rooms' = [rooms EXCEPT ![r] = doc]
    BY <1>2, <2>1 DEF RoomAdded, Born
  <2>3. doc # None
    BY <1>0, <1>2, IdsAssumption DEF RoomAdded, CreateRoomInsert, At, IType, ShapesOK, Shape, RoomDoc, RoomStatus
  <2> HIDE DEF doc
  <2>4. OpenRooms' = OpenRooms \cup {r} /\ r \notin OpenRooms
    BY <1>0, <2>2, <2>3 DEF OpenRooms, IType, TypeOK
  <2>5. HomesOfUsers!Open(r)
    BY <1>0, <2>4 DEF HomesOfUsers!Open, OpenRooms, Home
  <2> QED BY <2>5 DEF HomesOfUsers!Next
<1>3. ASSUME NEW r \in RoomId, NEW t, NEW st, RoomSet(r, t, st) PROVE OpenRooms' = OpenRooms
  <2>1. rooms[r] # None /\ rooms'[r] # None /\ \A x \in RoomId \ {r} : rooms'[x] = rooms[x]
    BY <1>0, <1>3, RoomSetFields DEF RoomSet
  <2> QED BY <2>1 DEF OpenRooms
<1>4. ASSUME NEW s \in Slot, DeleteRoomRemove(s), req[s].room \in RoomId, RoomRemoved(req[s].room)
      PROVE  HomesOfUsers!Next
  <2>1. PICK r \in RoomId : r = req[s].room
    BY <1>4
  <2>2. Free(r) /\ rooms' = [rooms EXCEPT ![r] = None] /\ Agree(req[s]) /\ ~Writing(req[s])
    BY <1>4, <2>1 DEF RoomRemoved, DeleteRoomRemove, At, Good, Checked, Writing
  <2>3. OpenRooms' = OpenRooms \ {r} /\ r \in OpenRooms
    BY <1>0, <2>2 DEF OpenRooms, Free, IType, TypeOK
  <2>4. \A u \in UserId : Home[u] # r
    BY <2>2, HomeOf, IdsAssumption DEF Agree, Lives, Free
  <2>5. HomesOfUsers!Close(r)
    BY <1>0, <2>3, <2>4 DEF HomesOfUsers!Close, HomesOfUsers!Vacant, OpenRooms, Home
  <2> QED BY <2>5 DEF HomesOfUsers!Next
<1> QED BY <1>0, <1>1, <1>2, <1>3, <1>4, RoomsStepwise

\* Served one at a time, requests open and close rooms and move tenants in and out
\* as the register allows: into a vacant room, from nowhere, and no room is closed
\* over somebody's head.
THEOREM HomesImplemented == OneAtATime /\ Spec => ImplementsHomes
<1> SUFFICES ASSUME OneAtATime PROVE Spec => ImplementsHomes
  OBVIOUS
<1>1. Init => HomesOfUsers!Init
  <2> SUFFICES ASSUME Init PROVE HomesOfUsers!Init
    OBVIOUS
  <2>1. ASSUME NEW u \in UserId, users[u] # None PROVE users[u].room \in OpenRooms \cup {None}
    <3>1. users[u].room \in RoomId \cup {None}
      BY <2>1, SeedAssumption DEF Init, UserDoc
    <3>2. users[u].room \in RoomId => rooms[users[u].room] # None
      BY <2>1 DEF OneAtATime, SeedsAgree, Init
    <3> QED BY <3>1, <3>2 DEF OpenRooms
  <2> QED BY <2>1 DEF HomesOfUsers!Init, OpenRooms
<1>2. IRooms /\ IHomes /\ [Next]_vars => HomesOfUsers!Next \/ UNCHANGED <<OpenRooms, Home>>
  <2> SUFFICES ASSUME IRooms, IHomes, [Next]_vars
               PROVE  HomesOfUsers!Next \/ UNCHANGED <<OpenRooms, Home>>
    OBVIOUS
  <2>1. ASSUME NEW s \in Slot, Step(s) PROVE Good(req[s])
    BY <2>1, Served DEF IHomes, IRooms, IBills, OneAtATime
  <2>2. CASE users' = users
    BY <2>1, <2>2, RegisterRooms DEF Step, RoomsStep
  <2>3. ASSUME NEW s \in Slot, UserWrite(s) PROVE Step(s)
    BY <2>3 DEF UserWrite, Step, RoomsStep, AuthStep
  <2> QED BY <2>1, <2>2, <2>3, RegisterUsers, UserWriters
<1>3. IRooms /\ IHomes /\ [Next]_vars => [HomesOfUsers!Next]_<<OpenRooms, Home>>
  BY <1>2
<1> QED BY <1>1, <1>3, HomesInduction, RoomsInduction, PTL
        DEF Spec, ImplementsHomes, HomesOfUsers!Spec, OpenRooms, Home
=============================================================================
