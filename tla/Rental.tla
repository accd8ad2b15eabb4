------------------------------- MODULE Rental -------------------------------
(***************************************************************************)
(* The Rooms, Auth and Bills services over one database: requests of all   *)
(* three in flight at once, lost writes, and crashes of the process.       *)
(***************************************************************************)
EXTENDS Rooms, Auth, Bills

Arrive(s) == RoomsBegin(s) \/ AuthBegin(s) \/ BillsBegin(s)
Step(s) == RoomsStep(s) \/ AuthStep(s) \/ BillsStep(s)

\* An awaited call fails: the handler throws, and what it already wrote stays.
\* A Promise.all loses one write, its other write is still applied.
CallFails(s) ==
  /\ Faults
  /\ req[s].pc \notin {"idle", "notify", "each"}
  /\ IF req[s].pc = "write"
     THEN \E w \in req[s].todo : Settle(s, w)
     ELSE Answer(s)
  /\ UNCHANGED db

\* The process dies and is started again: requests are lost, documents stay.
Crash ==
  /\ Faults
  /\ req' = [s \in Slot |-> Blank]
  /\ UNCHANGED db

Next ==
  \/ \E s \in Slot : Arrive(s) \/ Step(s) \/ CallFails(s)
  \/ Crash

Spec == Init /\ [][Next]_vars

\* Every driver call returns or times out (serverSelectionTimeoutMS and
\* socketTimeoutMS), so a handler that was started goes on.  Clients and the
\* calendar owe nothing: Arrive has no fairness.
FairSpec == Spec /\ \A s \in Slot : WF_vars(Step(s))

\* The cron run comes again every month, and neither the process, the database
\* nor the queue is down in every one of them.
Reminded(b) ==
  \E s \in Slot : /\ At(s, "sendBillReminders", "each") /\ b \in req[s].batch
                 /\ SendBillRemindersEach(s) /\ <<b, Addressee(b)>> \in notices'
RemindingSpec ==
  /\ FairSpec
  /\ SF_vars(\E s \in Slot : SendBillRemindersBegin(s))
  /\ SF_vars(\E s \in Slot : SendBillRemindersFind(s))
  /\ \A b \in BillId : SF_vars(Reminded(b))

Quiet == \A s \in Slot : Idle(s)

----------------------------------------------------------------------------
(***************************************************************************)
(* What holds however requests interleave, calls fail and the process      *)
(* restarts.                                                               *)
(***************************************************************************)

\* An occupied room names its occupant: updateStatus refuses "occupied", and
\* assignTenant and registerTenant write the tenant in the same update.
OccupiedHasTenant ==
  \A r \in RoomId : rooms[r] # None /\ rooms[r].status = "occupied" => rooms[r].tenant # None

\* Only accounts of role tenant are ever moved in, evicted or billed, however
\* long ago a handler checked the role: assignTenant's check, registerTenant's
\* insert and the copies createBill and updateStatus keep.
OnlyTenantsLiveInRooms ==
  LET IsTenant(u) == users[u] # None /\ users[u].role = "tenant" IN
  /\ \A r \in RoomId : rooms[r] # None /\ rooms[r].tenant # None => IsTenant(rooms[r].tenant)
  /\ \A u \in UserId : users[u] # None /\ users[u].room # None => IsTenant(u)
  /\ \A b \in BillId : bills[b] # None => IsTenant(bills[b].tenant)

\* Two registrations, invitations or both with the same address race past
\* findOne; no two accounts share it (users.email is unique).
EmailsUnique ==
  \A u, v \in UserId :
    users[u] # None /\ users[v] # None /\ users[u].email = users[v].email => u = v

\* bills.service.ts: one bill per room and month, whoever creates it first.
OneBillPerPeriod ==
  \A a, b \in BillId :
    /\ bills[a] # None /\ bills[b] # None
    /\ bills[a].room = bills[b].room /\ bills[a].period = bills[b].period
    => a = b

\* The $ne guard: of the confirmations of a bill racing past the check of
\* their copies, at most one marks it paid (and sets paid_at).
PaidOnce == \A b \in BillId : receipts[b] <= 1

\* A notice is about a bill that exists and goes to the tenant it bills, also
\* when that tenant has left the room or the reminder run started long ago.
NoticesToBilledTenant ==
  \A n \in notices : bills[n[1]] # None /\ bills[n[1]].tenant = n[2]

\* A room with devices is never deleted: no step links a device to a room, so
\* the check made before the delete still holds when it is applied.
DevicesKeepTheirRoom == gone \cap DeviceRooms = {}

\* A bill is frozen when it is created: nobody changes whom and what it bills,
\* a paid bill stays paid, and no bill disappears.
BillsFrozen ==
  [][\A b \in BillId : bills[b] # None =>
       /\ bills'[b] # None
       /\ bills'[b] \in {bills[b], [bills[b] EXCEPT !.status = "paid"]}]_vars

\* A room changes only in a step of a request of its owner or of an admin,
\* though the check was made on a copy several awaited calls earlier; and a
\* write that arrives after the delete does not bring the room back.
RoomsChangeByManagers ==
  [][\A r \in RoomId : rooms'[r] # rooms[r] =>
       /\ r \notin gone
       /\ \E s \in Slot :
            /\ req'[s] # req[s] /\ req[s].room = r
            /\ rooms[r] # None =>
                 \/ rooms[r].owner = req[s].caller
                 \/ users[req[s].caller].role = "admin"]_vars

----------------------------------------------------------------------------
(***************************************************************************)
(* What the services promise of their three collections together; it holds *)
(* of one request at a time (Serial, no Faults), as the unit tests run     *)
(* them, and fails of interleaved ones.                                    *)
(***************************************************************************)

\* Room and User agree on who lives where, once no request is in flight.
TenancyConsistent ==
  Quiet =>
    /\ \A r \in RoomId, u \in UserId :
         (rooms[r] # None /\ rooms[r].tenant = u) <=> (users[u] # None /\ users[u].room = r)
    /\ \A r \in RoomId : rooms[r] # None =>
         (rooms[r].status = "occupied") <=> (rooms[r].tenant # None)

\* A new bill is announced by the time its request is over: the reminder run
\* is not needed for it.
AnnouncedAtOnce ==
  Quiet => \A b \in BillId :
    bills[b] # None /\ SeedBills[b] = None => <<b, bills[b].tenant>> \in notices

\* assignTenant refuses a tenant who lives in another room, so nobody is the
\* current tenant of two rooms.
OneRoomPerTenant ==
  \A r1, r2 \in RoomId :
    /\ rooms[r1] # None /\ rooms[r2] # None /\ rooms[r1].tenant # None
    /\ rooms[r1].tenant = rooms[r2].tenant
    => r1 = r2

\* deleteRoom: no room with a bill left to pay is deleted.  confirmPayment
\* looks the room up, so a bill of a deleted room can never be paid.
DebtsKeepTheirRoom ==
  \A b \in BillId : bills[b] # None /\ bills[b].status # "paid" => rooms[bills[b].room] # None

\* assignTenant refuses a room in maintenance; registerTenant does not.
MaintenanceNotLet ==
  [][\A r \in RoomId : rooms[r] # None /\ rooms[r].status = "maintenance" =>
       rooms'[r] = None \/ rooms'[r].status # "occupied"]_vars

----------------------------------------------------------------------------
\* Every request that was started is answered, and a reminder run ends.
EveryRequestAnswered == \A s \in Slot : ~Idle(s) ~> Idle(s)

\* A bill is announced to the tenant it bills in the end, or it is paid before:
\* if a crash or the queue loses the announcement of createBill, a reminder run
\* makes up for it, whoever lives in the room by then.
EveryBillAnnounced ==
  \A b \in BillId :
    bills[b] # None ~>
      bills[b] # None /\ (bills[b].status = "paid" \/ <<b, bills[b].tenant>> \in notices)
----------------------------------------------------------------------------
(***************************************************************************)
(* Refinement.  The bills collection implements the ledger of debts, under *)
(* every interleaving and failure: the entry of a room and period is its   *)
(* bill.                                                                   *)
(***************************************************************************)
Entry(r, p) ==
  IF Billed(r, p)
  THEN LET b == CHOOSE x \in BillId : bills[x] # None /\ bills[x].room = r /\ bills[x].period = p
       IN  [tenant |-> bills[b].tenant, paid |-> bills[b].status = "paid"]
  ELSE None

LedgerOfBills == INSTANCE Ledger WITH
  NoDebt <- None, debts <- [a \in RoomId \X Period |-> Entry(a[1], a[2])]

\* null is no entry of the ledger.
ASSUME EntryAssumption == None \notin LedgerOfBills!Debt

\* No interleaving or failure of createBill, confirmPayment, deleteRoom and the
\* rest issues a second debt, settles one twice, or loses or renames one.
ImplementsLedger == LedgerOfBills!Spec

\* One request at a time, the two collections implement the register: a user
\* lives where users.room_id says, and rooms.current_tenant_id follows.
HomesOfUsers == INSTANCE Homes WITH
  Nowhere <- None,
  open <- {r \in RoomId : rooms[r] # None},
  home <- [u \in UserId |-> IF users[u] = None THEN None ELSE users[u].room]

\* A served request moves a tenant in or out, opens or closes a room, at most
\* once, and only where the register allows it.
ImplementsHomes == HomesOfUsers!Spec
=============================================================================
