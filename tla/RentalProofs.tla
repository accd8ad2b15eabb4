---------------------------- MODULE RentalProofs ----------------------------
(***************************************************************************)
(* Theorems about Rental, for any number of rooms, users, bills and        *)
(* requests in flight, with and without failures and interleaving.         *)
(***************************************************************************)
EXTENDS Rental, TLAPS

\* What a handler's local variables hold at each of its calls.
Shape(q) ==
  /\ q.op \in {"createRoom", "assignTenant", "updateStatus", "deleteRoom",
               "registerTenant", "createBill"} => q.room \in RoomId
  /\ q.op = "createRoom" => q.caller \in UserId
  /\ q.op \in {"assignTenant", "inviteOwner", "registerTenant"} => q.user \in UserId
  /\ q.op \in {"inviteOwner", "registerTenant"} => q.email \in Email
  /\ q.op = "updateStatus" => q.status \in RoomStatus
  /\ q.op = "updateStatus" /\ q.pc = "write" =>
       /\ q.status # "occupied"
       /\ "user" \in q.todo => q.user \in UserId
  /\ q.op \in {"createBill", "confirmPayment"} => q.bill \in BillId
  /\ q.op = "createBill" => q.period \in Period
  /\ q.op = "createBill" /\ q.pc # "room" => q.user \in UserId

ShapesOK == \A s \in Slot : Shape(req[s])

\* The reminder loop goes over bills that exist: no code removes a bill.
BatchesOK ==
  \A s \in Slot : req[s].op = "sendBillReminders" => \A b \in req[s].batch : bills[b] # None

IType == TypeOK /\ ShapesOK /\ BatchesOK

LEMMA BlankShape == Blank \in Request /\ Shape(Blank)
BY IdsAssumption DEF Blank, Request, Shape, Op, Pc

\* A slot that takes a well-shaped request keeps all requests well-shaped.
LEMMA Replaced ==
  ASSUME TypeOK, ShapesOK, NEW s \in Slot, NEW q \in Request, Shape(q),
         req' = [req EXCEPT ![s] = q]
  PROVE  req' \in [Slot -> Request] /\ ShapesOK'
BY DEF TypeOK, ShapesOK, Shape

LEMMA Arrival ==
  ASSUME IType, NEW s \in Slot, NEW q \in Request, Shape(q), q.batch = {}, Begin(s, q)
  PROVE  IType'
<1>1. req' = [req EXCEPT ![s] = q] /\ UNCHANGED db
  BY DEF Begin
<1>2. req' \in [Slot -> Request] /\ ShapesOK'
  BY <1>1, Replaced DEF IType
<1>3. TypeOK'
  BY <1>1, <1>2 DEF IType, TypeOK, db
<1>4. BatchesOK'
  BY <1>1, <1>2 DEF IType, TypeOK, BatchesOK, db
<1> QED BY <1>2, <1>3, <1>4 DEF IType

LEMMA Arrivals == ASSUME IType, NEW s \in Slot, Arrive(s) PROVE IType'
<1>1. CASE CreateRoomBegin(s)
  BY <1>1, Arrival, IdsAssumption DEF CreateRoomBegin, Managers, Callers, FreshRooms, Blank, Request, Shape, Op, Pc
<1>2. CASE AssignTenantBegin(s)
  BY <1>2, Arrival, IdsAssumption DEF AssignTenantBegin, Managers, Callers, Blank, Request, Shape, Op, Pc
<1>3. CASE UpdateStatusBegin(s)
  BY <1>3, Arrival, IdsAssumption DEF UpdateStatusBegin, Managers, Callers, Blank, Request, Shape, Op, Pc
<1>4. CASE DeleteRoomBegin(s)
  BY <1>4, Arrival, IdsAssumption DEF DeleteRoomBegin, Managers, Callers, Blank, Request, Shape, Op, Pc
<1>5. CASE InviteOwnerBegin(s)
  BY <1>5, Arrival, IdsAssumption DEF InviteOwnerBegin, FreshUsers, Callers, Blank, Request, Shape, Op, Pc
<1>6. CASE RegisterTenantBegin(s)
  BY <1>6, Arrival, IdsAssumption DEF RegisterTenantBegin, FreshUsers, Callers, Blank, Request, Shape, Op, Pc
<1>7. CASE CreateBillBegin(s)
  BY <1>7, Arrival, IdsAssumption DEF CreateBillBegin, FreshBills, Callers, Blank, Request, Shape, Op, Pc
<1>8. CASE ConfirmPaymentBegin(s)
  BY <1>8, Arrival, IdsAssumption DEF ConfirmPaymentBegin, Callers, Blank, Request, Shape, Op, Pc
<1>9. CASE SendBillRemindersBegin(s)
  BY <1>9, Arrival, IdsAssumption DEF SendBillRemindersBegin, Blank, Request, Shape, Op, Pc
<1> QED
  BY <1>1, <1>2, <1>3, <1>4, <1>5, <1>6, <1>7, <1>8, <1>9
  DEF Arrive, RoomsBegin, AuthBegin, BillsBegin

----------------------------------------------------------------------------
\* The collections stay well-typed, and no bill disappears.
DbTypes ==
  /\ rooms \in [RoomId -> RoomDoc \cup {None}]
  /\ users \in [UserId -> UserDoc \cup {None}]
  /\ bills \in [BillId -> BillDoc \cup {None}]
  /\ gone \subseteq RoomId
  /\ notices \subseteq BillId \X UserId
  /\ receipts \in [BillId -> Nat]
DbKept == DbTypes' /\ \A b \in BillId : bills[b] # None => bills'[b] # None

LEMMA Unchanged == ASSUME IType, UNCHANGED db PROVE DbKept
BY DEF IType, TypeOK, DbKept, DbTypes, db

LEMMA Continued ==
  ASSUME IType, DbKept, NEW s \in Slot, NEW q \in Request, Shape(q),
         q.op = "sendBillReminders" => \A b \in q.batch : bills[b] # None,
         req' = [req EXCEPT ![s] = q]
  PROVE  IType'
<1>1. req' \in [Slot -> Request] /\ ShapesOK'
  BY Replaced DEF IType
<1>2. TypeOK'
  BY <1>1 DEF TypeOK, DbKept, DbTypes
<1>3. BatchesOK'
  BY <1>1 DEF IType, TypeOK, BatchesOK, DbKept, Request
<1> QED BY <1>1, <1>2, <1>3 DEF IType

LEMMA Answered == ASSUME IType, DbKept, NEW s \in Slot, Answer(s) PROVE IType'
BY BlankShape, Continued DEF Answer, Blank

LEMMA Advanced ==
  ASSUME IType, DbKept, NEW s \in Slot, NEW pc \in Pc, Goto(s, pc),
         Shape([req[s] EXCEPT !.pc = pc])
  PROVE  IType'
<1> DEFINE q == [req[s] EXCEPT !.pc = pc]
<1>1. req[s] \in Request
  BY DEF IType, TypeOK
<1>2. q \in Request /\ q.op = req[s].op /\ q.batch = req[s].batch
  BY <1>1 DEF Request
<1>3. req' = [req EXCEPT ![s] = q]
  BY DEF Goto, IType, TypeOK
<1>4. q.op = "sendBillReminders" => \A b \in q.batch : bills[b] # None
  BY <1>2 DEF IType, BatchesOK
<1> HIDE DEF q
<1> QED BY <1>2, <1>3, <1>4, Continued DEF q

\* A step that only reads: it answers, or goes on to the next call.
LEMMA ReadStep ==
  ASSUME IType, NEW s \in Slot, NEW pc \in Pc, UNCHANGED db,
         Answer(s) \/ Goto(s, pc),
         req[s].op \in {"assignTenant", "deleteRoom", "inviteOwner", "registerTenant",
                        "confirmPayment"}
  PROVE  IType'
<1>1. CASE Answer(s)
  BY <1>1, Unchanged, Answered
<1>2. CASE Goto(s, pc)
  <2>1. req[s] \in Request /\ Shape(req[s])
    BY DEF IType, TypeOK, ShapesOK
  <2>2. Shape([req[s] EXCEPT !.pc = pc])
    BY <2>1 DEF Shape, Request
  <2> QED BY <1>2, <2>2, Unchanged, Advanced
<1> QED BY <1>1, <1>2

\* One write of a Promise.all settles.
LEMMA Settled ==
  ASSUME IType, DbKept, NEW s \in Slot, NEW w, Settle(s, w) PROVE IType'
<1>1. CASE Answer(s)
  BY <1>1, Answered
<1>2. CASE req' = [req EXCEPT ![s].todo = @ \ {w}]
  <2> DEFINE q == [req[s] EXCEPT !.todo = @ \ {w}]
  <2>1. req[s] \in Request /\ Shape(req[s])
    BY DEF IType, TypeOK, ShapesOK
  <2>2. q \in Request /\ Shape(q) /\ q.op = req[s].op /\ q.batch = req[s].batch
    BY <2>1 DEF Shape, Request
  <2>3. req' = [req EXCEPT ![s] = q]
    BY <1>2 DEF IType, TypeOK
  <2>4. q.op = "sendBillReminders" => \A b \in q.batch : bills[b] # None
    BY <2>2 DEF IType, BatchesOK
  <2> HIDE DEF q
  <2> QED BY <2>2, <2>3, <2>4, Continued
<1> QED BY <1>1, <1>2 DEF Settle

----------------------------------------------------------------------------
LEMMA RoomWritten ==
  ASSUME IType, NEW r, NEW t \in UserId \cup {None}, NEW st \in RoomStatus,
         SetRoom(r, t, st), UNCHANGED <<users, bills, gone, notices, receipts>>
  PROVE  DbKept
BY DEF IType, TypeOK, DbKept, DbTypes, SetRoom, RoomDoc

LEMMA UserWritten ==
  ASSUME IType, NEW u, NEW r \in RoomId \cup {None}, SetHome(u, r),
         UNCHANGED <<rooms, bills, gone, notices, receipts>>
  PROVE  DbKept
BY DEF IType, TypeOK, DbKept, DbTypes, SetHome, UserDoc

LEMMA UserInserted ==
  ASSUME IType, NEW u \in UserId, NEW doc \in UserDoc, InsertUser(u, doc),
         UNCHANGED <<rooms, bills, gone, notices, receipts>>
  PROVE  DbKept
BY DEF IType, TypeOK, DbKept, DbTypes, InsertUser

LEMMA RoomsSteps == ASSUME IType, NEW s \in Slot, RoomsStep(s) PROVE IType'
<1>0. req[s] \in Request /\ Shape(req[s])
  BY DEF IType, TypeOK, ShapesOK
<1>1. CASE CreateRoomInsert(s)
  <2>1. DbKept
    BY <1>0, <1>1 DEF CreateRoomInsert, At, Shape, IType, TypeOK, DbKept, DbTypes, RoomDoc, RoomStatus
  <2> QED BY <1>1, <2>1, Answered DEF CreateRoomInsert
<1>2. CASE AssignTenantRoom(s)
  BY <1>2, ReadStep DEF AssignTenantRoom, At, Pc
<1>3. CASE AssignTenantTenant(s)
  <2>1. CASE Answer(s)
    BY <1>3, <2>1, Unchanged, Answered DEF AssignTenantTenant
  <2>2. CASE req' = [req EXCEPT ![s].pc = "write", ![s].todo = {"room", "user"}]
    <3> DEFINE q == [req[s] EXCEPT !.pc = "write", !.todo = {"room", "user"}]
    <3>1. q \in Request /\ Shape(q) /\ q.op = "assignTenant"
      BY <1>0, <1>3 DEF AssignTenantTenant, At, Shape, Request, Pc
    <3>2. req' = [req EXCEPT ![s] = q]
      BY <2>2 DEF IType, TypeOK
    <3>3. DbKept
      BY <1>3, Unchanged DEF AssignTenantTenant
    <3> HIDE DEF q
    <3> QED BY <3>1, <3>2, <3>3, Continued
  <2> QED BY <1>3, <2>1, <2>2 DEF AssignTenantTenant
<1>4. CASE AssignTenantSetRoom(s)
  <2>1. DbKept
    BY <1>0, <1>4, RoomWritten DEF AssignTenantSetRoom, At, Shape, RoomStatus
  <2> QED BY <1>4, <2>1, Settled DEF AssignTenantSetRoom
<1>5. CASE AssignTenantSetUser(s)
  <2>1. DbKept
    BY <1>0, <1>5, UserWritten DEF AssignTenantSetUser, At, Shape
  <2> QED BY <1>5, <2>1, Settled DEF AssignTenantSetUser
<1>6. CASE UpdateStatusRoom(s)
  <2>1. CASE Answer(s)
    BY <1>6, <2>1, Unchanged, Answered DEF UpdateStatusRoom
  <2>2. CASE ~Answer(s)
    <3> DEFINE w == StatusWrites(req[s].room)
               t == rooms[req[s].room].tenant
               q == [req[s] EXCEPT !.pc = "write", !.user = t, !.todo = w]
    <3>1. req' = [req EXCEPT ![s] = q] /\ MaySetStatus(req[s]) /\ req[s].op = "updateStatus"
      BY <1>6, <2>2 DEF UpdateStatusRoom, At, IType, TypeOK
    <3>2. rooms[req[s].room] \in RoomDoc /\ req[s].status # "occupied"
      BY <1>0, <3>1 DEF MaySetStatus, MayManage, Shape, IType, TypeOK
    <3>3. w \subseteq {"room", "user"} /\ t \in UserId \cup {None} /\ ("user" \in w => t \in UserId)
      BY <3>2 DEF StatusWrites, RoomDoc
    <3> HIDE DEF w, t
    <3>4. /\ q.op = "updateStatus" /\ q.pc = "write" /\ q.user = t /\ q.todo = w
          /\ q.room = req[s].room /\ q.status = req[s].status
      BY <1>0, <3>1 DEF Request
    <3>5. q \in Request
      BY <1>0, <3>3 DEF Request, Pc
    <3> HIDE DEF q
    <3>6. Shape(q)
      BY <1>0, <3>1, <3>2, <3>3, <3>4, <3>5 DEF Shape
    <3>7. DbKept
      BY <1>6, Unchanged DEF UpdateStatusRoom
    <3> QED BY <3>1, <3>4, <3>5, <3>6, <3>7, Continued
  <2> QED BY <2>1, <2>2
<1>7. CASE UpdateStatusSetRoom(s)
  <2>0. SetRoom(req[s].room, TenantLeft(req[s]), req[s].status)
        /\ UNCHANGED <<users, bills, gone, notices, receipts>>
    BY <1>7 DEF UpdateStatusSetRoom
  <2>1. DbKept
    <3>1. CASE rooms[req[s].room] = None
      BY <2>0, <3>1 DEF SetRoom, IType, TypeOK, DbKept, DbTypes
    <3>2. CASE rooms[req[s].room] # None
      <4>1. TenantLeft(req[s]) \in UserId \cup {None} /\ req[s].status \in RoomStatus
        BY <1>0, <1>7, <3>2 DEF TenantLeft, UpdateStatusSetRoom, At, Shape, IType, TypeOK, RoomDoc
      <4> QED BY <2>0, <4>1, RoomWritten
    <3> QED BY <3>1, <3>2
  <2> QED BY <1>7, <2>1, Settled DEF UpdateStatusSetRoom
<1>8. CASE UpdateStatusSetUser(s)
  <2>1. DbKept
    BY <1>8, UserWritten DEF UpdateStatusSetUser
  <2> QED BY <1>8, <2>1, Settled DEF UpdateStatusSetUser
<1>9. CASE DeleteRoomRoom(s)
  BY <1>9, ReadStep DEF DeleteRoomRoom, At, Pc
<1>10. CASE DeleteRoomDevices(s)
  BY <1>10, ReadStep DEF DeleteRoomDevices, At, Pc
<1>11. CASE DeleteRoomBills(s)
  BY <1>11, ReadStep DEF DeleteRoomBills, At, Pc
<1>12. CASE DeleteRoomRemove(s)
  <2>1. DbKept
    BY <1>0, <1>12 DEF DeleteRoomRemove, At, Shape, IType, TypeOK, DbKept, DbTypes
  <2> QED BY <1>12, <2>1, Answered DEF DeleteRoomRemove
<1> QED
  BY <1>1, <1>2, <1>3, <1>4, <1>5, <1>6, <1>7, <1>8, <1>9, <1>10, <1>11, <1>12 DEF RoomsStep

LEMMA AuthSteps == ASSUME IType, NEW s \in Slot, AuthStep(s) PROVE IType'
<1>0. req[s] \in Request /\ Shape(req[s])
  BY DEF IType, TypeOK, ShapesOK
<1>1. CASE InviteOwnerEmail(s)
  BY <1>1, ReadStep DEF InviteOwnerEmail, At, Pc
<1>2. CASE InviteOwnerUser(s)
  <2>1. CASE DuplicateEmail(s)
    BY <2>1, Unchanged, Answered DEF DuplicateEmail
  <2>2. CASE ~DuplicateEmail(s)
    <3>1. DbKept
      <4>1. PICK ph \in BOOLEAN : InsertUser(req[s].user, OwnerAccount(req[s], ph))
        BY <1>2, <2>2 DEF InviteOwnerUser
      <4>2. UNCHANGED <<rooms, bills, gone, notices, receipts>>
        BY <1>2, <2>2 DEF InviteOwnerUser
      <4>3. req[s].user \in UserId /\ OwnerAccount(req[s], ph) \in UserDoc
        BY <1>0, <1>2 DEF InviteOwnerUser, At, Shape, OwnerAccount, UserDoc, Role
      <4> QED BY <4>1, <4>2, <4>3, UserInserted
    <3> QED BY <1>2, <2>2, <3>1, Answered DEF InviteOwnerUser
  <2> QED BY <2>1, <2>2
<1>3. CASE RegisterTenantEmail(s)
  BY <1>3, ReadStep DEF RegisterTenantEmail, At, Pc
<1>4. CASE RegisterTenantRoom(s)
  BY <1>4, ReadStep DEF RegisterTenantRoom, At, Pc
<1>5. CASE RegisterTenantUser(s)
  <2>1. CASE DuplicateEmail(s)
    BY <2>1, Unchanged, Answered DEF DuplicateEmail
  <2>2. CASE ~DuplicateEmail(s)
    <3>1. DbKept
      <4>1. PICK ph \in BOOLEAN : InsertUser(req[s].user, TenantAccount(req[s], ph))
        BY <1>5, <2>2 DEF RegisterTenantUser
      <4>2. UNCHANGED <<rooms, bills, gone, notices, receipts>>
        BY <1>5, <2>2 DEF RegisterTenantUser
      <4>3. req[s].user \in UserId /\ TenantAccount(req[s], ph) \in UserDoc
        BY <1>0, <1>5 DEF RegisterTenantUser, At, Shape, TenantAccount, UserDoc, Role
      <4> QED BY <4>1, <4>2, <4>3, UserInserted
    <3>2. Shape([req[s] EXCEPT !.pc = "link"])
      BY <1>0, <1>5 DEF RegisterTenantUser, At, Shape, Request
    <3>3. Goto(s, "link")
      BY <1>5, <2>2 DEF RegisterTenantUser
    <3> QED BY <3>1, <3>2, <3>3, Advanced DEF Pc
  <2> QED BY <2>1, <2>2
<1>6. CASE RegisterTenantLink(s)
  <2>1. DbKept
    BY <1>0, <1>6, RoomWritten DEF RegisterTenantLink, At, Shape, RoomStatus
  <2> QED BY <1>6, <2>1, Answered DEF RegisterTenantLink
<1> QED BY <1>1, <1>2, <1>3, <1>4, <1>5, <1>6 DEF AuthStep

LEMMA NoticeAdded ==
  ASSUME IType, NEW b \in BillId, NEW u \in UserId, NotifyBill(b, u),
         UNCHANGED <<rooms, users, bills, gone, receipts>>
  PROVE  DbKept
BY DEF IType, TypeOK, DbKept, DbTypes, NotifyBill

LEMMA BillsSteps == ASSUME IType, NEW s \in Slot, BillsStep(s) PROVE IType'
<1>0. req[s] \in Request /\ Shape(req[s])
  BY DEF IType, TypeOK, ShapesOK
<1>1. CASE CreateBillRoom(s)
  <2>1. CASE Answer(s)
    BY <1>1, <2>1, Unchanged, Answered DEF CreateBillRoom
  <2>2. CASE ~Answer(s)
    <3> DEFINE t == rooms[req[s].room].tenant
               q == [req[s] EXCEPT !.pc = "tenant", !.user = t]
    <3>1. /\ req' = [req EXCEPT ![s] = q] /\ req[s].op = "createBill"
          /\ rooms[req[s].room] # None /\ t # None
      BY <1>1, <2>2 DEF CreateBillRoom, At, IType, TypeOK
    <3>2. rooms[req[s].room] \in RoomDoc
      BY <1>0, <3>1 DEF Shape, IType, TypeOK
    <3>3. t \in UserId
      BY <3>1, <3>2 DEF RoomDoc
    <3> HIDE DEF t
    <3>4. q \in Request /\ Shape(q) /\ q.op = "createBill"
      BY <1>0, <3>1, <3>3 DEF Shape, Request, Pc
    <3>5. DbKept
      BY <1>1, Unchanged DEF CreateBillRoom
    <3> HIDE DEF q
    <3> QED BY <3>1, <3>4, <3>5, Continued
  <2> QED BY <2>1, <2>2
<1>2. CASE CreateBillTenant(s)
  <2>1. Shape([req[s] EXCEPT !.pc = "insert"])
    BY <1>0, <1>2 DEF CreateBillTenant, At, Shape, Request
  <2> QED BY <1>2, <2>1, Unchanged, Answered, Advanced DEF CreateBillTenant, Pc
<1>3. CASE CreateBillInsert(s)
  <2>1. req[s].op = "createBill" /\ req[s].pc = "insert"
    BY <1>3 DEF CreateBillInsert, At
  <2>2. NewBill(req[s]) \in BillDoc
    BY <1>0, <2>1 DEF NewBill, Shape, BillDoc, BillStatus
  <2>3. NewBill(req[s]) # None
    BY <2>2, IdsAssumption
  <2>4. DbKept
    BY <1>3, <2>2, <2>3 DEF CreateBillInsert, IType, TypeOK, DbKept, DbTypes
  <2>5. Shape([req[s] EXCEPT !.pc = "notify"])
    BY <1>0, <2>1 DEF Shape, Request
  <2> QED BY <1>3, <2>4, <2>5, Answered, Advanced DEF CreateBillInsert, Pc
<1>4. CASE CreateBillNotify(s)
  <2>1. DbKept
    BY <1>0, <1>4, NoticeAdded DEF CreateBillNotify, At, Shape
  <2> QED BY <1>4, <2>1, Answered DEF CreateBillNotify
<1>5. CASE ConfirmPaymentBill(s)
  <2>1. CASE Answer(s)
    BY <1>5, <2>1, Unchanged, Answered DEF ConfirmPaymentBill
  <2>2. CASE ~Answer(s)
    <3> DEFINE r == bills[req[s].bill].room
               st == bills[req[s].bill].status
               q == [req[s] EXCEPT !.pc = "room", !.room = r, !.status = st]
    <3>1. req' = [req EXCEPT ![s] = q] /\ req[s].op = "confirmPayment" /\ bills[req[s].bill] # None
      BY <1>5, <2>2 DEF ConfirmPaymentBill, At, IType, TypeOK
    <3>2. bills[req[s].bill] \in BillDoc
      BY <1>0, <3>1 DEF Shape, IType, TypeOK
    <3>3. r \in RoomId /\ st \in BillStatus
      BY <3>2 DEF BillDoc
    <3> HIDE DEF r, st
    <3>4. q \in Request
      BY <1>0, <3>3 DEF Request, Pc
    <3>5. q.op = "confirmPayment" /\ q.bill = req[s].bill
      BY <1>0, <3>1 DEF Request
    <3>6. DbKept
      BY <1>5, Unchanged DEF ConfirmPaymentBill
    <3> HIDE DEF q
    <3>7. Shape(q)
      BY <1>0, <3>1, <3>5 DEF Shape
    <3> QED BY <3>1, <3>4, <3>5, <3>6, <3>7, Continued
  <2> QED BY <2>1, <2>2
<1>6. CASE ConfirmPaymentRoom(s)
  BY <1>6, ReadStep DEF ConfirmPaymentRoom, At, Pc
<1>7. CASE ConfirmPaymentUpdate(s)
  <2>1. req[s].bill \in BillId
    BY <1>0, <1>7 DEF ConfirmPaymentUpdate, At, Shape
  <2>2. CASE Payable(bills[req[s].bill])
    <3>1. Paid(bills[req[s].bill]) \in BillDoc
      BY <2>1, <2>2 DEF Payable, Paid, IType, TypeOK, BillDoc, BillStatus
    <3>2. Paid(bills[req[s].bill]) # None
      BY <3>1, IdsAssumption
    <3>3. DbKept
      BY <1>7, <2>1, <2>2, <3>1, <3>2
      DEF ConfirmPaymentUpdate, IType, TypeOK, DbKept, DbTypes
    <3> QED BY <1>7, <3>3, Answered DEF ConfirmPaymentUpdate
  <2>3. CASE ~Payable(bills[req[s].bill])
    <3>1. UNCHANGED db
      BY <1>7, <2>3 DEF ConfirmPaymentUpdate, db
    <3> QED BY <1>7, <3>1, Unchanged, Answered DEF ConfirmPaymentUpdate
  <2> QED BY <2>2, <2>3
<1>8. CASE SendBillRemindersFind(s)
  <2> DEFINE unpaid == {b \in BillId : bills[b] # None /\ bills[b].status = "unpaid"}
             q == [req[s] EXCEPT !.pc = "each", !.batch = unpaid]
  <2>1. CASE Answer(s)
    BY <1>8, <2>1, Unchanged, Answered DEF SendBillRemindersFind
  <2>2. CASE ~Answer(s)
    <3>1. req' = [req EXCEPT ![s] = q] /\ req[s].op = "sendBillReminders"
      BY <1>8, <2>2 DEF SendBillRemindersFind, At, IType, TypeOK
    <3>2. unpaid \subseteq BillId /\ \A b \in unpaid : bills[b] # None
      OBVIOUS
    <3> HIDE DEF unpaid
    <3>3. q \in Request
      BY <1>0, <3>2 DEF Request, Pc
    <3>4. q.op = "sendBillReminders" /\ q.batch = unpaid
      BY <1>0, <3>1 DEF Request
    <3>5. DbKept
      BY <1>8, Unchanged DEF SendBillRemindersFind
    <3> HIDE DEF q
    <3>6. Shape(q)
      BY <3>4 DEF Shape
    <3> QED BY <3>1, <3>2, <3>3, <3>4, <3>5, <3>6, Continued
  <2> QED BY <2>1, <2>2
<1>9. CASE SendBillRemindersEach(s)
  <2>1. PICK b \in req[s].batch :
          /\ NotifyBill(b, Addressee(b)) /\ NextBill(s, b)
          /\ UNCHANGED <<rooms, users, bills, gone, receipts>>
    BY <1>9 DEF SendBillRemindersEach
  <2>2. req[s].op = "sendBillReminders"
    BY <1>9 DEF SendBillRemindersEach, At
  <2>3. b \in BillId /\ bills[b] # None
    BY <1>0, <2>1, <2>2 DEF Request, IType, BatchesOK
  <2>4. Addressee(b) \in UserId
    BY <2>3 DEF Addressee, IType, TypeOK, BillDoc
  <2>5. DbKept
    BY <2>1, <2>3, <2>4, NoticeAdded
  <2>6. CASE Answer(s)
    BY <2>5, <2>6, Answered
  <2>7. CASE ~Answer(s)
    <3> DEFINE q == [req[s] EXCEPT !.batch = @ \ {b}]
    <3>1. req' = [req EXCEPT ![s] = q]
      BY <2>1, <2>7 DEF NextBill, IType, TypeOK
    <3>2. q \in Request /\ Shape(q) /\ \A x \in q.batch : x \in req[s].batch
      BY <1>0, <2>2 DEF Shape, Request
    <3>3. \A x \in q.batch : bills[x] # None
      BY <2>2, <3>2 DEF IType, BatchesOK
    <3> HIDE DEF q
    <3> QED BY <2>5, <3>1, <3>2, <3>3, Continued
  <2> QED BY <2>6, <2>7
<1> QED BY <1>1, <1>2, <1>3, <1>4, <1>5, <1>6, <1>7, <1>8, <1>9 DEF BillsStep

----------------------------------------------------------------------------
LEMMA TypeInit == Init => IType
<1> SUFFICES ASSUME Init PROVE IType
  OBVIOUS
<1>1. TypeOK
  BY SeedAssumption, BlankShape DEF Init, TypeOK
<1>2. ShapesOK
  BY BlankShape DEF Init, ShapesOK
<1>3. BatchesOK
  BY DEF Init, BatchesOK, Blank
<1> QED BY <1>1, <1>2, <1>3 DEF IType

LEMMA TypeNext == IType /\ [Next]_vars => IType'
<1> SUFFICES ASSUME IType, [Next]_vars PROVE IType'
  OBVIOUS
<1>1. ASSUME NEW s \in Slot, Arrive(s) PROVE IType'
  BY <1>1, Arrivals
<1>2. ASSUME NEW s \in Slot, Step(s) PROVE IType'
  BY <1>2, RoomsSteps, AuthSteps, BillsSteps DEF Step
<1>3. ASSUME NEW s \in Slot, CallFails(s) PROVE IType'
  BY <1>3, Unchanged, Answered, Settled DEF CallFails
<1>4. CASE Crash
  <2>1. TypeOK' /\ ShapesOK'
    BY <1>4, BlankShape DEF Crash, IType, TypeOK, ShapesOK, db
  <2>2. BatchesOK'
    BY <1>4 DEF Crash, BatchesOK, Blank
  <2> QED BY <2>1, <2>2 DEF IType
<1>5. CASE UNCHANGED vars
  BY <1>5 DEF IType, TypeOK, ShapesOK, BatchesOK, Shape, vars
<1> QED BY <1>1, <1>2, <1>3, <1>4, <1>5 DEF Next

LEMMA TypeInduction == Spec => []IType
BY TypeInit, TypeNext, PTL DEF Spec

\* Every reachable state of every instance is well-typed: no interleaving,
\* failed call or crash stores a document its schema does not describe.
THEOREM TypeCorrect == Spec => []TypeOK
<1>1. IType => TypeOK
  BY DEF IType
<1> QED BY <1>1, TypeInduction, PTL

----------------------------------------------------------------------------
(***************************************************************************)
(* Which steps write which collection: everything else leaves it alone.    *)
(***************************************************************************)
RoomWrite(s) ==
  \/ CreateRoomInsert(s) \/ AssignTenantSetRoom(s) \/ UpdateStatusSetRoom(s)
  \/ DeleteRoomRemove(s) \/ RegisterTenantLink(s)
BillWrite(s) == CreateBillInsert(s) \/ ConfirmPaymentUpdate(s)

LEMMA RoomWriters == [Next]_vars => rooms' = rooms \/ \E s \in Slot : RoomWrite(s)
<1> SUFFICES ASSUME [Next]_vars, rooms' # rooms PROVE \E s \in Slot : RoomWrite(s)
  OBVIOUS
<1>1. PICK s \in Slot : Arrive(s) \/ Step(s)
  BY DEF Next, CallFails, Crash, vars, db
<1>2. ~Arrive(s)
  BY DEF Arrive, RoomsBegin, AuthBegin, BillsBegin, CreateRoomBegin, AssignTenantBegin,
     UpdateStatusBegin, DeleteRoomBegin, InviteOwnerBegin, RegisterTenantBegin, CreateBillBegin,
     ConfirmPaymentBegin, SendBillRemindersBegin, Begin, db
<1>3. RoomsStep(s) => RoomWrite(s)
  BY DEF RoomsStep, RoomWrite, AssignTenantRoom, AssignTenantTenant, AssignTenantSetUser,
     UpdateStatusRoom, UpdateStatusSetUser, DeleteRoomRoom, DeleteRoomDevices, DeleteRoomBills, db
<1>4. AuthStep(s) => RoomWrite(s)
  BY DEF AuthStep, RoomWrite, InviteOwnerEmail, InviteOwnerUser, RegisterTenantEmail,
     RegisterTenantRoom, RegisterTenantUser, DuplicateEmail, db
<1>5. ~BillsStep(s)
  BY DEF BillsStep, CreateBillRoom, CreateBillTenant, CreateBillInsert, CreateBillNotify,
     ConfirmPaymentBill, ConfirmPaymentRoom, ConfirmPaymentUpdate, SendBillRemindersFind,
     SendBillRemindersEach, db
<1> QED BY <1>1, <1>2, <1>3, <1>4, <1>5 DEF Step

LEMMA BillWriters ==
  [Next]_vars => (bills' = bills /\ receipts' = receipts) \/ \E s \in Slot : BillWrite(s)
<1> SUFFICES ASSUME [Next]_vars, ~(bills' = bills /\ receipts' = receipts)
             PROVE  \E s \in Slot : BillWrite(s)
  OBVIOUS
<1>1. PICK s \in Slot : Arrive(s) \/ Step(s)
  BY DEF Next, CallFails, Crash, vars, db
<1>2. ~Arrive(s)
  BY DEF Arrive, RoomsBegin, AuthBegin, BillsBegin, CreateRoomBegin, AssignTenantBegin,
     UpdateStatusBegin, DeleteRoomBegin, InviteOwnerBegin, RegisterTenantBegin, CreateBillBegin,
     ConfirmPaymentBegin, SendBillRemindersBegin, Begin, db
<1>3. ~RoomsStep(s)
  BY DEF RoomsStep, CreateRoomInsert, AssignTenantRoom, AssignTenantTenant, AssignTenantSetRoom,
     AssignTenantSetUser, UpdateStatusRoom, UpdateStatusSetRoom, UpdateStatusSetUser,
     DeleteRoomRoom, DeleteRoomDevices, DeleteRoomBills, DeleteRoomRemove, db
<1>4. ~AuthStep(s)
  BY DEF AuthStep, InviteOwnerEmail, InviteOwnerUser, RegisterTenantEmail, RegisterTenantRoom,
     RegisterTenantUser, RegisterTenantLink, DuplicateEmail, db
<1>5. BillsStep(s) => BillWrite(s)
  BY DEF BillsStep, BillWrite, CreateBillRoom, CreateBillTenant, CreateBillNotify,
     ConfirmPaymentBill, ConfirmPaymentRoom, SendBillRemindersFind, SendBillRemindersEach, db
<1> QED BY <1>1, <1>2, <1>3, <1>4, <1>5 DEF Step

----------------------------------------------------------------------------
(***************************************************************************)
(* What a step leaves of each request: it ends, or goes on as the same     *)
(* handler with the ids it was given or drew, or begins and draws none.    *)
(***************************************************************************)
Drawing == {"createRoom", "inviteOwner", "registerTenant", "createBill"}

Continues(q, q2) ==
  /\ q2.op = q.op /\ q2.caller = q.caller /\ q2.bill = q.bill
  /\ q.op # "confirmPayment" => q2.room = q.room
  /\ q.op \notin {"updateStatus", "createBill"} => q2.user = q.user
  /\ q.pc \in {"notify", "link"} => q2.pc = q.pc

Keeps(q, q2) == q2.op \notin Drawing \/ Continues(q, q2)

Draws(s) ==
  CreateRoomBegin(s) \/ InviteOwnerBegin(s) \/ RegisterTenantBegin(s) \/ CreateBillBegin(s)

LEMMA Kept ==
  ASSUME IType, NEW s \in Slot, NEW q, Keeps(req[s], q), req' = [req EXCEPT ![s] = q]
  PROVE  \A t \in Slot : Keeps(req[t], req'[t])
BY DEF IType, TypeOK, Keeps, Continues

LEMMA AnswerKeeps ==
  ASSUME IType, NEW s \in Slot, Answer(s) PROVE \A t \in Slot : Keeps(req[t], req'[t])
BY Kept DEF Answer, Keeps, Blank, Drawing

LEMMA GotoKeeps ==
  ASSUME IType, NEW s \in Slot, NEW pc, Goto(s, pc), req[s].pc \notin {"notify", "link"}
  PROVE  \A t \in Slot : Keeps(req[t], req'[t])
<1>1. req[s] \in Request
  BY DEF IType, TypeOK
<1>2. Keeps(req[s], [req[s] EXCEPT !.pc = pc])
  BY <1>1 DEF Keeps, Continues, Drawing, Request
<1> QED BY <1>2, Kept DEF Goto, IType, TypeOK

LEMMA SettleKeeps ==
  ASSUME IType, NEW s \in Slot, NEW w, Settle(s, w)
  PROVE  \A t \in Slot : Keeps(req[t], req'[t])
<1>1. req[s] \in Request
  BY DEF IType, TypeOK
<1>2. Keeps(req[s], [req[s] EXCEPT !.todo = @ \ {w}])
  BY <1>1 DEF Keeps, Continues, Drawing, Request
<1>3. CASE req' = [req EXCEPT ![s].todo = @ \ {w}]
  BY <1>2, <1>3, Kept DEF IType, TypeOK
<1> QED BY <1>3, AnswerKeeps DEF Settle

LEMMA RoomsKeep ==
  ASSUME IType, NEW s \in Slot, RoomsStep(s)
  PROVE  \A t \in Slot : Keeps(req[t], req'[t])
<1>0. req[s] \in Request
  BY DEF IType, TypeOK
<1>1. CASE AssignTenantTenant(s)
  <2> DEFINE q == [req[s] EXCEPT !.pc = "write", !.todo = {"room", "user"}]
  <2>1. Keeps(req[s], q)
    BY <1>0, <1>1 DEF AssignTenantTenant, At, Keeps, Continues, Drawing, Request
  <2>2. Answer(s) \/ req' = [req EXCEPT ![s] = q]
    BY <1>1 DEF AssignTenantTenant, IType, TypeOK
  <2> HIDE DEF q
  <2> QED BY <2>1, <2>2, Kept, AnswerKeeps
<1>2. CASE UpdateStatusRoom(s)
  <2> DEFINE t == rooms[req[s].room].tenant
             w == StatusWrites(req[s].room)
             q == [req[s] EXCEPT !.pc = "write", !.user = t, !.todo = w]
  <2>1. Answer(s) \/ req' = [req EXCEPT ![s] = q]
    BY <1>2 DEF UpdateStatusRoom, IType, TypeOK
  <2> HIDE DEF t, w
  <2>2. Keeps(req[s], q)
    BY <1>0, <1>2 DEF UpdateStatusRoom, At, Keeps, Continues, Drawing, Request
  <2> HIDE DEF q
  <2> QED BY <2>1, <2>2, Kept, AnswerKeeps
<1>3. CASE CreateRoomInsert(s) \/ DeleteRoomRemove(s)
  BY <1>3, AnswerKeeps DEF CreateRoomInsert, DeleteRoomRemove
<1>4. CASE AssignTenantSetRoom(s) \/ AssignTenantSetUser(s) \/ UpdateStatusSetRoom(s) \/ UpdateStatusSetUser(s)
  BY <1>4, SettleKeeps
  DEF AssignTenantSetRoom, AssignTenantSetUser, UpdateStatusSetRoom, UpdateStatusSetUser
<1>5. CASE AssignTenantRoom(s) \/ DeleteRoomRoom(s) \/ DeleteRoomDevices(s) \/ DeleteRoomBills(s)
  BY <1>5, AnswerKeeps, GotoKeeps
  DEF AssignTenantRoom, DeleteRoomRoom, DeleteRoomDevices, DeleteRoomBills, At
<1> QED BY <1>1, <1>2, <1>3, <1>4, <1>5 DEF RoomsStep

LEMMA AuthKeeps ==
  ASSUME IType, NEW s \in Slot, AuthStep(s)
  PROVE  \A t \in Slot : Keeps(req[t], req'[t])
BY AnswerKeeps, GotoKeeps
DEF AuthStep, InviteOwnerEmail, InviteOwnerUser, RegisterTenantEmail, RegisterTenantRoom,
    RegisterTenantUser, RegisterTenantLink, DuplicateEmail, At

LEMMA BillsKeep ==
  ASSUME IType, NEW s \in Slot, BillsStep(s)
  PROVE  \A t \in Slot : Keeps(req[t], req'[t])
<1>0. req[s] \in Request
  BY DEF IType, TypeOK
<1>1. CASE CreateBillRoom(s)
  <2> DEFINE u == rooms[req[s].room].tenant
             q == [req[s] EXCEPT !.pc = "tenant", !.user = u]
  <2>1. Answer(s) \/ req' = [req EXCEPT ![s] = q]
    BY <1>1 DEF CreateBillRoom, IType, TypeOK
  <2> HIDE DEF u
  <2>2. Keeps(req[s], q)
    BY <1>0, <1>1 DEF CreateBillRoom, At, Keeps, Continues, Drawing, Request
  <2> HIDE DEF q
  <2> QED BY <2>1, <2>2, Kept, AnswerKeeps
<1>2. CASE ConfirmPaymentBill(s)
  <2> DEFINE r == bills[req[s].bill].room
             st == bills[req[s].bill].status
             q == [req[s] EXCEPT !.pc = "room", !.room = r, !.status = st]
  <2>1. Answer(s) \/ req' = [req EXCEPT ![s] = q]
    BY <1>2 DEF ConfirmPaymentBill, IType, TypeOK
  <2> HIDE DEF r, st
  <2>2. Keeps(req[s], q)
    BY <1>0, <1>2 DEF ConfirmPaymentBill, At, Keeps, Continues, Drawing, Request
  <2> HIDE DEF q
  <2> QED BY <2>1, <2>2, Kept, AnswerKeeps
<1>3. CASE SendBillRemindersFind(s)
  <2> DEFINE found == {b \in BillId : bills[b] # None /\ bills[b].status = "unpaid"}
             q == [req[s] EXCEPT !.pc = "each", !.batch = found]
  <2>1. Answer(s) \/ req' = [req EXCEPT ![s] = q]
    BY <1>3 DEF SendBillRemindersFind, IType, TypeOK
  <2> HIDE DEF found
  <2>2. Keeps(req[s], q)
    BY <1>0, <1>3 DEF SendBillRemindersFind, At, Keeps, Continues, Drawing, Request
  <2> HIDE DEF q
  <2> QED BY <2>1, <2>2, Kept, AnswerKeeps
<1>4. CASE SendBillRemindersEach(s)
  <2>1. PICK b \in req[s].batch : NextBill(s, b)
    BY <1>4 DEF SendBillRemindersEach
  <2> DEFINE q == [req[s] EXCEPT !.batch = @ \ {b}]
  <2>2. Answer(s) \/ req' = [req EXCEPT ![s] = q]
    BY <2>1 DEF NextBill, IType, TypeOK
  <2>3. Keeps(req[s], q)
    BY <1>0, <1>4 DEF SendBillRemindersEach, At, Keeps, Continues, Drawing, Request
  <2> HIDE DEF q
  <2> QED BY <2>2, <2>3, Kept, AnswerKeeps
<1>5. CASE CreateBillTenant(s) \/ CreateBillInsert(s) \/ ConfirmPaymentRoom(s)
  BY <1>5, AnswerKeeps, GotoKeeps DEF CreateBillTenant, CreateBillInsert, ConfirmPaymentRoom, At
<1>6. CASE CreateBillNotify(s) \/ ConfirmPaymentUpdate(s)
  BY <1>6, AnswerKeeps DEF CreateBillNotify, ConfirmPaymentUpdate
<1> QED BY <1>1, <1>2, <1>3, <1>4, <1>5, <1>6 DEF BillsStep

LEMMA BeginKeeps ==
  ASSUME IType, NEW s \in Slot, NEW q, q.op \notin Drawing, Begin(s, q)
  PROVE  \A t \in Slot : Keeps(req[t], req'[t])
BY Kept DEF Begin, Keeps

LEMMA RequestsKept ==
  ASSUME IType, [Next]_vars
  PROVE  (\A t \in Slot : Keeps(req[t], req'[t])) \/ \E s \in Slot : Draws(s)
<1>1. ASSUME NEW s \in Slot, Arrive(s), ~Draws(s)
      PROVE  \A t \in Slot : Keeps(req[t], req'[t])
  BY <1>1, BeginKeeps
  DEF Arrive, RoomsBegin, AuthBegin, BillsBegin, Draws, AssignTenantBegin, UpdateStatusBegin,
      DeleteRoomBegin, ConfirmPaymentBegin, SendBillRemindersBegin, Blank, Drawing
<1>2. ASSUME NEW s \in Slot, Step(s) PROVE \A t \in Slot : Keeps(req[t], req'[t])
  BY <1>2, RoomsKeep, AuthKeeps, BillsKeep DEF Step
<1>3. ASSUME NEW s \in Slot, CallFails(s) PROVE \A t \in Slot : Keeps(req[t], req'[t])
  BY <1>3, AnswerKeeps, SettleKeeps DEF CallFails
<1>4. CASE Crash
  BY <1>4 DEF Crash, Blank, Keeps, Drawing
<1>5. CASE UNCHANGED vars
  BY <1>5 DEF Keeps, Continues, vars
<1> QED BY <1>1, <1>2, <1>3, <1>4, <1>5 DEF Next

----------------------------------------------------------------------------
LEMMA RoomSetOccupied ==
  ASSUME IType, OccupiedHasTenant, NEW r, NEW t, NEW st, SetRoom(r, t, st),
         st = "occupied" => t # None
  PROVE  OccupiedHasTenant'
BY DEF OccupiedHasTenant, SetRoom, IType, TypeOK, RoomDoc

LEMMA OccupiedNext == IType /\ OccupiedHasTenant /\ [Next]_vars => OccupiedHasTenant'
<1> SUFFICES ASSUME IType, OccupiedHasTenant, NEW s \in Slot, RoomWrite(s)
             PROVE  OccupiedHasTenant'
  BY RoomWriters DEF OccupiedHasTenant
<1>0. Shape(req[s])
  BY DEF IType, ShapesOK
<1>1. CASE CreateRoomInsert(s)
  BY <1>1 DEF CreateRoomInsert, OccupiedHasTenant, IType, TypeOK
<1>2. CASE AssignTenantSetRoom(s)
  BY <1>0, <1>2, RoomSetOccupied, IdsAssumption DEF AssignTenantSetRoom, At, Shape
<1>3. CASE UpdateStatusSetRoom(s)
  BY <1>0, <1>3, RoomSetOccupied DEF UpdateStatusSetRoom, At, Shape
<1>4. CASE DeleteRoomRemove(s)
  BY <1>4 DEF DeleteRoomRemove, OccupiedHasTenant, IType, TypeOK
<1>5. CASE RegisterTenantLink(s)
  BY <1>0, <1>5, RoomSetOccupied, IdsAssumption DEF RegisterTenantLink, At, Shape
<1> QED BY <1>1, <1>2, <1>3, <1>4, <1>5 DEF RoomWrite

\* No interleaving of assignments, evictions and registrations, and no lost
\* write of theirs, leaves a room occupied by nobody.
THEOREM OccupiedCorrect == Spec => []OccupiedHasTenant
<1>1. Init => OccupiedHasTenant
  BY SeedConsistency DEF Init, OccupiedHasTenant
<1> QED BY <1>1, OccupiedNext, TypeInduction, PTL DEF Spec
=============================================================================
