------------------------------ MODULE Database ------------------------------
(***************************************************************************)
(* The MongoDB collections that the Rooms, Auth and Bills services share,  *)
(* and the HTTP requests (and the cron run) in flight over them.           *)
(*                                                                         *)
(* Node runs one callback at a time, so what interleaves are the awaited   *)
(* database calls of different requests: every handler is one action per   *)
(* awaited call, and a request carries from one call to the next what the  *)
(* handler keeps in its local variables.  MongoDB makes each call on one   *)
(* document atomic; nothing in the code spans two documents (no session,   *)
(* no transaction).                                                        *)
(***************************************************************************)
EXTENDS Naturals, FiniteSets

CONSTANTS
  RoomId, UserId, BillId,   \* the ObjectIds an instance may hand out
  Email, Period,            \* e-mail addresses; (month, year) pairs
  Slot,                     \* bound: how many requests may be in flight
  None,                     \* null, and the absent document
  SeedRooms, SeedUsers, SeedBills, \* the documents present at the start
  DeviceRooms,              \* rooms some Device document links to
  Routes,                   \* the handlers clients use in an instance
  Serial,                   \* TRUE: a request arrives only in a quiet system
  Faults                    \* TRUE: calls may fail, the process may crash

Role == {"admin", "owner", "tenant"}
RoomStatus == {"empty", "occupied", "maintenance"}
BillStatus == {"unpaid", "paid", "pending"}

RoomDoc == [owner : UserId, tenant : UserId \cup {None}, status : RoomStatus]
UserDoc == [email : Email, role : Role, room : RoomId \cup {None}, phone : BOOLEAN]
BillDoc == [room : RoomId, tenant : UserId, period : Period, status : BillStatus]

ASSUME IdsAssumption ==
  /\ None \notin RoomId \cup UserId \cup BillId
  /\ None \notin RoomDoc \cup UserDoc \cup BillDoc
ASSUME ModeAssumption == Serial \in BOOLEAN /\ Faults \in BOOLEAN
ASSUME SeedAssumption ==
  /\ SeedRooms \in [RoomId -> RoomDoc \cup {None}]
  /\ SeedUsers \in [UserId -> UserDoc \cup {None}]
  /\ SeedBills \in [BillId -> BillDoc \cup {None}]
  /\ DeviceRooms \subseteq RoomId
\* What the unique indexes and earlier requests left in the collections.
ASSUME SeedConsistency ==
  /\ \A r \in RoomId :
       SeedRooms[r] # None /\ SeedRooms[r].status = "occupied" => SeedRooms[r].tenant # None
  /\ \A u, v \in UserId :
       SeedUsers[u] # None /\ SeedUsers[v] # None /\ SeedUsers[u].email = SeedUsers[v].email
       => u = v
  /\ \A a, b \in BillId :
       /\ SeedBills[a] # None /\ SeedBills[b] # None
       /\ SeedBills[a].room = SeedBills[b].room /\ SeedBills[a].period = SeedBills[b].period
       => a = b
  /\ LET IsTenant(u) == u \in UserId /\ SeedUsers[u] # None /\ SeedUsers[u].role = "tenant" IN
     /\ \A r \in RoomId :
          SeedRooms[r] # None /\ SeedRooms[r].tenant # None => IsTenant(SeedRooms[r].tenant)
     /\ \A u \in UserId : SeedUsers[u] # None /\ SeedUsers[u].room # None => IsTenant(u)
     /\ \A b \in BillId : SeedBills[b] # None => IsTenant(SeedBills[b].tenant)

VARIABLES
  rooms, users, bills,  \* the collections: id -> document or None
  gone,                 \* ids of deleted rooms: an ObjectId is never reused
  notices,              \* <<bill, user>> pairs handed to the notification queue
  receipts,             \* how often a confirmPayment marked the bill paid
  req                   \* the request each slot is serving

db == <<rooms, users, bills, gone, notices, receipts>>
vars == <<rooms, users, bills, gone, notices, receipts, req>>

Op == {"idle", "createRoom", "assignTenant", "updateStatus", "deleteRoom",
       "inviteOwner", "registerTenant", "createBill", "confirmPayment",
       "sendBillReminders"}
Pc == {"idle", "insert", "room", "tenant", "write", "devices", "bills", "remove",
       "email", "user", "link", "notify", "bill", "update", "find", "each"}

(***************************************************************************)
(* A request: the handler (op), its next awaited call (pc), the caller the *)
(* JWT names, the parameters and local variables of the handler, and todo, *)
(* the writes of a Promise.all that have not been applied yet.             *)
(***************************************************************************)
Request ==
  [op : Op, pc : Pc, caller : UserId \cup {None}, room : RoomId \cup {None},
   user : UserId \cup {None}, bill : BillId \cup {None},
   email : Email \cup {None}, status : RoomStatus \cup BillStatus \cup {None},
   period : Period \cup {None}, todo : SUBSET {"room", "user"},
   batch : SUBSET BillId]

Blank ==
  [op |-> "idle", pc |-> "idle", caller |-> None, room |-> None, user |-> None,
   bill |-> None, email |-> None, status |-> None, period |-> None,
   todo |-> {}, batch |-> {}]

Idle(s) == req[s] = Blank
At(s, op, pc) == req[s].op = op /\ req[s].pc = pc

----------------------------------------------------------------------------
\* JwtStrategy.validate reads the user again on every request; RolesGuard
\* compares its role with the route's @Roles.
Callers(roles) == {u \in UserId : users[u] # None /\ users[u].role \in roles}

\* A request (or the cron run) starts with its parameters.
Begin(s, q) ==
  /\ q.op \in Routes
  /\ Idle(s)
  /\ Serial => \A t \in Slot : Idle(t)
  /\ req' = [req EXCEPT ![s] = q]
  /\ UNCHANGED db

\* The handler goes on to its next awaited call, or answers (an exception
\* answers too: the filter turns it into a status code).
Goto(s, pc) == req' = [req EXCEPT ![s].pc = pc]
Answer(s) == req' = [req EXCEPT ![s] = Blank]

\* mongoose draws the _id in the process, before the insert is sent.
FreshRooms == {r \in RoomId : rooms[r] = None /\ r \notin gone /\ \A t \in Slot : req[t].room # r}
FreshUsers == {u \in UserId : users[u] = None /\ \A t \in Slot : req[t].user # u}
FreshBills == {b \in BillId : bills[b] = None /\ \A t \in Slot : req[t].bill # b}

\* The unique index on users.email, and the one on bills (room, month, year).
EmailTaken(e) == \E u \in UserId : users[u] # None /\ users[u].email = e
Billed(r, p) == \E b \in BillId : bills[b] # None /\ bills[b].room = r /\ bills[b].period = p

\* findByIdAndUpdate without upsert: a missing document is left missing.
SetRoom(r, tenant, status) ==
  rooms' = IF rooms[r] = None THEN rooms
           ELSE [rooms EXCEPT ![r].tenant = tenant, ![r].status = status]
SetHome(u, r) ==
  users' = IF users[u] = None THEN users ELSE [users EXCEPT ![u].room = r]

Init ==
  /\ rooms = SeedRooms
  /\ users = SeedUsers
  /\ bills = SeedBills
  /\ gone = {}
  /\ notices = {}
  /\ receipts = [b \in BillId |-> 0]
  /\ req = [s \in Slot |-> Blank]

\* Every stored document has the shape of its schema, every request in flight
\* the shape its handler gives it.
TypeOK ==
  /\ rooms \in [RoomId -> RoomDoc \cup {None}]
  /\ users \in [UserId -> UserDoc \cup {None}]
  /\ bills \in [BillId -> BillDoc \cup {None}]
  /\ gone \subseteq RoomId
  /\ notices \subseteq BillId \X UserId
  /\ receipts \in [BillId -> Nat]
  /\ req \in [Slot -> Request]
=============================================================================
