------------------------------ MODULE Telemetry ------------------------------
(***************************************************************************)
(* What the Devices, Alerts and Notifications services share: the device,  *)
(* log, alert and notification collections, the BullMQ queue in Redis, the *)
(* events emitted on Socket.io, and the requests in flight.                *)
(*                                                                         *)
(* As in Database, a handler is one action per awaited call.  A slot here  *)
(* serves one request, so the slot also names the log entry and the alert  *)
(* the request creates: how many there are is the number of slots.         *)
(***************************************************************************)
EXTENDS Naturals, FiniteSets

CONSTANTS
  RoomId, DeviceId, UserId,
  Slot,              \* bound: the requests of a behaviour
  BillCall,          \* bound: the notifyBill calls of a behaviour
  None,              \* null, and the absent document
  Registered,        \* the devices the collection holds
  RoomOf, TypeOf,    \* their room and type: no code changes either
  OwnerOf,           \* owner_id of each room: no code changes it
  Admins, Tenants,   \* users by role; the rest are owners
  BillTenant,        \* whom a notifyBill call is for
  SeedTenant, SeedOnline,  \* who lives where, which devices are online, at the start
  Attempts, MaxStalled,    \* the job options of the queue, the worker's default
  Concurrency,             \* jobs the worker runs at once (0: it is not started)
  Page,              \* how many notifications an answer lists (50)
  Reader,            \* bound: the users who open their list
  Faults             \* TRUE: calls may fail, the process may crash

Report == {"FIRE", "PASSWORD_FAIL", "MOTION_ON", "NORMAL"} \* "NORMAL": any value without an alert
Command == {"UNLOCK", "LOCK", "LIGHT_ON", "LIGHT_OFF"}
DeviceType == {"lock", "light", "fire_sensor", "meter"}
DeviceState == Report \cup {"UNLOCKED", "LOCKED", "ON", "OFF", "seeded"}

Call == Slot \cup BillCall  \* what a notification is about: an alert, a bill
Job == [kind : {"push_socket", "save_db"}, user : UserId, call : Call]

ASSUME PlacesAssumption ==
  /\ Registered \subseteq DeviceId /\ SeedOnline \subseteq Registered
  /\ RoomOf \in [Registered -> RoomId] /\ TypeOf \in [Registered -> DeviceType]
  /\ OwnerOf \in [RoomId -> UserId \ (Admins \cup Tenants)]
  /\ SeedTenant \in [RoomId -> Tenants \cup {None}]
ASSUME PeopleAssumption ==
  /\ Admins \subseteq UserId /\ Tenants \subseteq UserId /\ Admins \cap Tenants = {}
  /\ BillTenant \in [BillCall -> Tenants]
  /\ None \notin UserId \cup DeviceId \cup Slot /\ Slot \cap BillCall = {}
ASSUME WorkerAssumption ==
  /\ Attempts \in Nat \ {0} /\ MaxStalled \in Nat /\ Concurrency \in Nat
  /\ Page \in Nat \ {0} /\ Reader \subseteq UserId /\ Faults \in BOOLEAN

VARIABLES
  devices,   \* device -> its last_state and status
  logs,      \* request -> the device_logs entry it wrote, or None
  alerts,    \* request -> the alert it created, or None
  tenant,    \* room -> its current_tenant_id
  shown,     \* alerts emitted to their room's channel
  commands,  \* <<device, command>> pairs broadcast to the gateway script
  notifying, \* alerts whose notifyAlert is awaiting its query, detached from the handler
  witnesses, \* history: who lived in the room from an alert until its jobs were queued
  jobs,      \* job -> where BullMQ has it
  pushed,    \* <<user, call>> pairs a push_socket job broadcast
  inbox,     \* the notifications collection
  look,      \* reader -> the request for their list of notifications
  start,     \* history: reader -> their notifications when that request began
  req        \* the request each slot serves

platform == <<devices, logs, alerts, shown, commands>>
reading == <<look, start>>
delivery == <<jobs, pushed, inbox, reading>>
vars == <<devices, logs, alerts, tenant, shown, commands, notifying, witnesses,
          jobs, pushed, inbox, look, start, req>>

Pc == {"new", "device", "log", "update", "alert", "emit", "find", "room", "done"}
Request == [op : {"none", "status", "control", "resolve"}, pc : Pc,
            caller : UserId \cup {None}, device : DeviceId \cup {None},
            value : Report \cup Command \cup {None}, alert : Slot \cup {None}]
Fresh == [op |-> "none", pc |-> "new", caller |-> None, device |-> None,
          value |-> None, alert |-> None]

At(s, op, pc) == req[s].op = op /\ req[s].pc = pc
Goto(s, pc) == req' = [req EXCEPT ![s].pc = pc]

\* The first copy of the request is written by its Begin action.
Begin(s, q) ==
  /\ req[s].pc = "new"
  /\ req' = [req EXCEPT ![s] = q]
  /\ UNCHANGED <<platform, tenant, notifying, witnesses, delivery>>

\* What BullMQ keeps of a job: its place, how often it failed and stalled.
JobState == [at : {"none", "waiting", "active", "worked", "stalled", "completed", "failed"},
             failures : 0..Attempts, stalls : 0..MaxStalled]
NoJob == [at |-> "none", failures |-> 0, stalls |-> 0]

\* A request for a list: the queries not answered yet, what the others brought.
Closed == [todo |-> {}, told |-> FALSE, only |-> FALSE, list |-> {}, unread |-> 0]

Note == [user : UserId, call : Call, copy : Nat \ {0}, read : BOOLEAN]
AlertDoc == [device : DeviceId, room : RoomId, type : {"fire", "security"},
             severity : {"info", "warning", "critical"}, resolved : BOOLEAN]
LogDoc == [device : DeviceId, value : Report \cup Command, user : UserId \cup {None}]

\* null is no document.
ASSUME NullAssumption == None \notin LogDoc \cup AlertDoc

Init ==
  /\ devices = [d \in Registered |-> [state |-> "seeded", online |-> d \in SeedOnline]]
  /\ logs = [s \in Slot |-> None]
  /\ alerts = [s \in Slot |-> None]
  /\ tenant = SeedTenant
  /\ shown = {} /\ commands = {} /\ notifying = {}
  /\ witnesses = [s \in Slot |-> {}]
  /\ jobs = [j \in Job |-> NoJob]
  /\ pushed = {} /\ inbox = {}
  /\ look = [u \in Reader |-> Closed] /\ start = [u \in Reader |-> {}]
  /\ req = [s \in Slot |-> Fresh]

\* Documents, jobs and requests have the shape of their schemas; an answer lists
\* at most a page.
TypeOK ==
  /\ devices \in [Registered -> [state : DeviceState, online : BOOLEAN]]
  /\ logs \in [Slot -> LogDoc \cup {None}]
  /\ alerts \in [Slot -> AlertDoc \cup {None}]
  /\ tenant \in [RoomId -> Tenants \cup {None}]
  /\ shown \subseteq Slot /\ notifying \subseteq Slot
  /\ commands \subseteq Registered \X Command
  /\ witnesses \in [Slot -> SUBSET Tenants]
  /\ jobs \in [Job -> JobState]
  /\ pushed \subseteq UserId \X Call
  /\ \A n \in inbox : n \in Note
  /\ \A u \in Reader :
       /\ look[u].todo \subseteq {"list", "count"} /\ look[u].told \in BOOLEAN
       /\ look[u].only \in BOOLEAN /\ look[u].unread \in Nat
       /\ Cardinality(look[u].list) <= Page
       /\ \A n \in look[u].list \cup start[u] : n \in Note /\ n.user = u
  /\ req \in [Slot -> Request]
=============================================================================
