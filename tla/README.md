# Verification of the rental monitoring backend

TLA+ models, TLC runs and TLAPS proofs for the NestJS backend in this repository:
rooms, accounts, bills, IoT devices, alerts and notifications over MongoDB, Redis
(BullMQ) and Socket.io. Paths below are relative to the repository.

## 1. The system

| Component | State it keeps | Operations that change it | Interacts with |
|---|---|---|---|
| Rooms (`src/rooms`) | `rooms` collection | createRoom, assignTenant, updateStatus, deleteRoom | reads and writes `users`; reads `devices`, `bills` |
| Auth (`src/auth`) | `users` collection | inviteOwner, registerTenant (login only reads) | registerTenant writes `rooms` |
| Bills (`src/bills`) | `bills` collection | createBill, confirmPayment, cron sendBillReminders | reads `rooms`, `users`, the meter device; calls notifyBill |
| Devices (`src/devices`) | `devices`, `device_logs` | handleStatusUpdate (gateway script), controlDevice (users) | creates alerts, emits on Socket.io, calls notifyAlert |
| Alerts (`src/alerts`) | `alerts` | resolveAlert | reads `rooms` |
| Notifications (`src/notifications`) | `notifications`, the BullMQ queue in Redis | notifyAlert, notifyBill, the worker, markAsRead, markAllAsRead | reads `rooms`; the worker emits on Socket.io |
| Gateway (`src/gateway`) | sockets and the channels they joined | connect, disconnect, join-room, leave-room, emits | called by Devices and the worker |
| Gateway script (`iot-gateway-script`) | the serial port, the socket | opening the port; serial line -> POST /devices/status; `command` event -> serial line | the API and Socket.io |
| Rate limiter (`common/middleware`) | requests per address and minute | counts and refuses | in front of every route |
| Stats (`src/stats`) | 300-second cache in Redis | getOverview and three more aggregations, each behind the CacheInterceptor | reads rooms, bills, alerts, devices |
| Health, config, logging, filters, DTOs, scripts | none that matters | | |

**What is hard.** Node runs one callback at a time, but every handler awaits
several database calls, and the calls of different requests interleave. No
operation uses a session or a transaction. The handlers therefore

* judge copies read some calls earlier (`assignTenant`, `updateStatus`,
  `deleteRoom`, `createBill`, `confirmPayment`, the reminder loop, `controlDevice`),
* write two documents independently (`Promise.all`, or two steps of
  `registerTenant`), either of which may fail, or be cut off by a crash,
* rely on unique indexes (`users.email`, `bills(room, month, year)`) and on one
  guarded update (`status: { $ne: 'paid' }`),
* start notifications without awaiting them, and leave the rest to a queue that
  delivers at least once, retries three times and survives the process.

Around them, reports overtake one another on their way from one sensor, the limiter
and the network drop what the script does not repeat, and sockets forget their
channels and everything emitted while they were down. A handler that fails or dies
between its calls is not resumed, and nobody repeats a report: what it had written stays, what
it had not yet done is lost.

Each of these is listed with its line under "hazards" in `PROJECT.json`,
together with the properties that would catch it going wrong.

**What makes each component correct.**
Rooms and Auth: rooms and users agree on who lives where, nobody lives twice, a
room with obligations is not deleted, only tenants are moved in, addresses are
unique, and only managers change a room.
Bills: one bill per room and month, paid once, frozen, and its notices go to the
tenant it bills.
Devices and Alerts: nothing is shown that was not logged and nothing announced
that was not stored; commands reach devices that can take them.
Notifications: the right people are told, completed jobs had their effect, copies
are bounded, what was read stays read, every job settles; in short, jobs and
collection are a mailbox. A list misses nothing that was there when it was asked for.
Gateway and script: who listens to a room hears of its alerts and shows what the
collection holds, an accepted command reaches the line, the door follows the last
one, and an alarm reaches the owner: each unless it is lost in one of the ways section 4
lists, which the code does nothing about.
Stats: each user is shown figures that were theirs, and stale ones go away.

## 2. The modules

    Database  <- Rooms, Auth, Bills <- Rental       <- MCRental
                                       Rental       <- RentalProofs <- BillingProofs
                                                    <- RoomsProofs  <- HomesProofs
                 Rental = INSTANCE of Ledger (bills) and Homes (rooms and users)
    Telemetry <- Devices, Alerts  <- Monitoring <- MCMonitoring, MCInbox
    Telemetry <- Notifications <- Inbox <- Monitoring <- Bridge <- MCBridge
                 Monitoring = INSTANCE of Mailbox (jobs and notifications)
                 Monitoring <- MonitoringProofs <- MailboxProofs
                 Bridge, MonitoringProofs <- BridgeProofs
    Stats <- MCStats, StatsProofs

**The database model.** `Database` holds the three collections as functions from
ids to documents (or `None`), plus `gone` (ids of deleted rooms: ObjectIds are not
reused), `notices` (what was handed to the queue) and `receipts` (how often a
confirmation marked a bill paid, a history variable). `req` maps each slot to the
request it serves: the operation, its next awaited call (`pc`), the caller, the
parameters and the local variables the handler carries from call to call. A handler is
one action per awaited call: `XBegin` is the route with its guards (the JWT
strategy reads the user, the roles guard compares the role), then `XRoom`,
`XTenant`, `XInsert` and so on, in the order of the code. A failed check or a thrown
exception answers, i.e. frees the slot. A `Promise.all` is a set `todo` of writes
that are applied in any order.

| Module | Models |
|---|---|
| `Rooms` | `rooms.service.ts`: createRoom, assignTenant, updateStatus, deleteRoom, findRoomAndCheckOwnership |
| `Auth` | `auth.service.ts`: inviteOwner, registerTenant |
| `Bills` | `bills.service.ts`: createBill, confirmPayment, sendBillReminders; the enqueueing of notifyBill |
| `Rental` | the three together with failing calls (`CallFails`) and crashes (`Crash`), and their properties |
| `Ledger` | abstract: each room and month has at most one debt, in one name, settled at most once |
| `Homes` | abstract: who lives where, changed one move at a time |

**The monitoring model.** `Telemetry` holds devices, log entries, alerts, the
tenant of each room, what was emitted, the alerts whose `notifyAlert` is running
detached from its handler, the jobs of the queue and the inbox. A slot serves one request
here, and names the log entry and the alert it creates. A job is the pair of its
subject and recipient and kind; the queue is a function from jobs to their place and
counters.

| Module | Models |
|---|---|
| `Devices` | `devices.service.ts`: handleStatusUpdate (log, update, alert, emit) and controlDevice |
| `Alerts` | `alerts.service.ts`: resolveAlert |
| `Notifications` | `notifications.service.ts`, `notification.queue.ts`, `notification.worker.ts`; BullMQ's take, complete, retry and stalled check as external actions |
| `Inbox` | `getNotifications` beside all that: the list and `unread_count`, two queries in any order (`look`); `start` remembers what the reader had when they asked |
| `Monitoring` | all of them with tenants coming and going, failing calls and crashes, and their properties |
| `Mailbox` | abstract: a subject is announced to a user at most once, copies of it appear until it is settled, which takes a copy, or given up; nothing leaves the list or becomes unread |

**The bridge model.** `Bridge` puts the world around the handlers of `Devices`: the
gateway script, the rate limiter, the sockets and a dashboard. A slot carries a line
of a serial port from `ReadLine` on: it is posted at once (`post`), overtakes others,
and arrives, is refused by the limiter (`Admits`) or is lost; only then the handler begins.
A user's order (`Order`) takes a slot too. `Emit` is the synchronous end of a handler: alert and
update go to who joined the room, the command to everybody, in this order, each through
the socket's own queue (`wire`). `Hear` takes one event off it: the script writes a
command to its line if the port is open, a dashboard remembers the state of the device
(`told`) and the alert (`heard`). `Disconnect` empties the queue and the channels; on
`Join` the dashboard starts afresh. With `Faults`, a call of a handler or of notifyAlert fails
(`Fails`), a job cannot be added (`Notify`) or fails (`Work`), and the process dies and comes
back (`Restart`): its handlers and detached notifications are gone, and so are the sockets, the
channels and the counts of the limiter; scripts and dashboards connect again. History says what became
of whom: `before`, which requests were answered when one began; `steady`, who has been up ever since;
`cut`, which requests a failure or a restart cut off; `dropped`, which jobs never reached the queue.

**The dashboard model.** `Stats` stands alone: it only reads the collections, so the
writers of the other two models appear as `Change`, which opens or closes a room or
makes a document meet a condition or stop meeting it. A request goes through the interceptor
(`CacheGet`), reads the ids of its rooms (`RoomIds`), runs its queries in any order
(`CountOne`), answers, and stores what it answered (`CacheSet`, which is not awaited).
`Tick` is Redis' clock. `Queries` lists what each of the four routes counts; the rooms are
looked up by role, everything else by the ids read before. Queries that group or add up the
same documents are one figure. `moments` is history: the states the collections went through.

Operators that differ from the code on purpose ("Mutants" in the comments) stand
before the definition they would replace. They are in no specification; replacing
the definition by one of them breaks the property `PROJECT.json` pairs it with.

## 3. The runs

All runs are instances of `Rental`, `Monitoring`, `Bridge` or `Stats`, through an MC module. `Slot` bounds the requests in flight, `Routes` the handlers a run
uses, `Serial` lets a request arrive only when none is in flight, `Faults` allows
failing calls, failing jobs and crashes.

| Run | Bounds | Shows |
|---|---|---|
| `Requests` | 2 requests of 7 operations, a room, 2 owners, 2 free user ids, 1 free address, 1 bill, fair, faults | occupants and managers of rooms, roles and addresses of accounts survive any order of writes; every request ends; every bill is announced to its tenant or paid, crashes notwithstanding |
| `Billing` | 2 requests, 1 seeded and 2 new bills, 2 months, 2 tenants, room deleted, faults | one bill per month, paid once, bills and notices stay with the billed tenant; refinement of `Ledger` |
| `Serial` | all nine operations, 1 at a time, 3 room ids (one has a device), an admin and 2 owners, no faults | type invariant; rooms, users and bills agree; no room with devices is deleted; every new bill is announced at once; refinement of `Homes` |
| `Reports` | 2 requests, 2 devices and an unknown one, faults, no worker | audit trail, order of alert and announcement, who is announced to, commands, resolving |
| `Bridge` | 2 lines or orders of one lock, 1 script, 1 dashboard, a limiter of 1 a minute, 2 outages, no worker, fair, faults | screens agree with the collection, doors with the last order, rooms hear of alerts, commands reach the line, but for what was cut off and not followed up |
| `Alarms` | 2 alarms of one lock, 1 script, the worker with 3 attempts and 1 stall, a limiter of 1 a minute, 1 outage, fair, faults | a posted alarm reaches the owner's list unless one of the losses of section 4 befell it |
| `Worker` | the 2 jobs of a bill, 2 attempts, 1 stall, concurrency 1, a reader with pages of 2, fair, faults | completed means done, copies bounded, read stays read, every job settles, lists are up to date; refinement of `Mailbox` |
| `Dashboard` | 2 requests of an admin and an owner for two routes, 3 rooms (one opens and closes), an alert and 2 bills, 2 changes, 2 ticks of cache, fair, faults | every figure told was once right for that user; once the data rest the cache comes right |

The races in this code need two requests: each is a check of one made stale by a
write of the other. A third slot adds no kind of step, and the proofs of section 5
hold for any number. Two rooms are needed for a tenant with two homes (`Serial`, `RacingAssign`); two user
ids and one address for a duplicate account, and a second owner for a stranger to the room (`Requests`); two new bills for a duplicate bill, and
a third of another month, which makes a reminder run serve more than one. `createRoom` and
`inviteOwner` are run serially only, with faults and other requests they would exceed what TLC
explores under fairness; the theorems of section 5 cover them beside any others. In `Worker` the
jobs are those of a bill, because the handlers of a job do not look at what it is about;
the code's concurrency of 5 would never make one of two jobs wait, a concurrency of 1
does. Two attempts instead of the code's three give a retry, a final failure and a
redelivery, hence up to three copies, one more than a page of 2 holds.

In `Bridge` two requests are what it takes for one to overtake the other; the limit of
1 makes the second alarm of a minute one too many. An outage is an unplugged line, a dropped
socket, a channel left, a lost post, a failed call, a job that could not be added or a restart, at any
moment; two of them cut off one request and disturb the one that follows it. Nothing `Bridge` says
depends on the worker, which is not started there (`Concurrency` 0). `Alarms` leaves out the dashboards
and orders instead: an alarm is alone on its way, so one outage is enough for every way to lose it, while
failures of jobs are bounded by their attempts and cost none. The seeded room has no tenant
in either: who is told besides the owner is the question of `Reports`. Which free slot a new request takes
makes no difference, so `Bridge` and `Stats` take the first.

In `Dashboard` the other owner's room has no user: it is there to be kept out of the
owner's figures. Two ticks let an entry be hit, age, and be hit again before it goes; two
changes let a figure go away and come back while a slow request holds the old one. One figure
looked up by role and one by ids on one route, and one by ids on another, are the kinds
of query there are; the remaining figures of `Queries` differ in the condition alone.

Deadlock is checked in the `Rental` and `Stats` runs. The runs of `Monitoring` and `Bridge` switch it off: a slot
serves one request and the system may stop when all have been served.

### Disagreements between the code and what it says of itself

| Run | The code | What is said |
|---|---|---|
| `RacingAssign` | two assignTenant requests give one tenant two rooms | `rooms.service.ts:107`: a tenant who lives elsewhere is refused |
| `DeleteRace` | a createBill finds the room let; updateStatus empties it, deleteRoom passes its three checks and deletes it, and the bill, inserted after the check for bills, can never be paid | `rooms.controller.ts:104`: deleted only without tenant, devices and unpaid bills |
| `LetInMaintenance` | registerTenant lets a room in maintenance | `rooms.service.ts:94`: no tenant is assigned to such a room |
| `Roomless` | an owner without a room is counted the alerts of all rooms, as "no ids" means "no condition" | `stats.service.ts:302`: an owner sees the data of their own rooms only |

Two more need no run. MOTION_ON creates an alert (`devices.service.ts:162`), while
`devices.controller.ts:66`, `devices.service.ts:378` and `README.md:296` name only FIRE and
PASSWORD_FAIL. And controlDevice takes an order of any tenant or owner about any device: it
checks existence, status and type (`devices.service.ts:213-250`), never who lives in or owns the room,
while `devices.controller.ts:79` says 'Tenant chỉ điều khiển thiết bị phòng mình.' (a tenant
controls only the devices of their own room). `Devices!ControlBegin` lets any user order any device.

`AnswersWereTrue` thus holds of admins and of owners with a room (run `Dashboard`).
`TenancyConsistent`, `OneRoomPerTenant` and `DebtsKeepTheirRoom` hold of one
request at a time without failures (run `Serial`) and of nothing more: a lost write
of a pair, or a crash between the two steps of registerTenant, leaves Room and User
in disagreement for good.

## 4. Fairness

`Rental!FairSpec` has weak fairness of `Step(s)`: once a handler is waiting for a call,
the call returns or times out (`serverSelectionTimeoutMS`, `socketTimeoutMS` in
`app.module.ts`), and the event loop runs what follows. Arrivals have none: no client
has to come back. `RemindingSpec` adds the calendar: the reminder run begins every month,
and its calls, and the enqueueing for each bill, are strongly fair, i.e. the process, MongoDB and
Redis are not down in every one of the runs. Without that the announcement a crash cut off
is lost (`AnnouncedAtOnce` is a claim about runs without faults, since the code has no outbox).

`WorkerSpec` has weak fairness of the worker: BullMQ's worker keeps polling, renews locks,
and checks for stalled jobs periodically; `Crash` means the process is started again.
Failures are bounded by the counters of the jobs, so this suffices for `JobsSettle` even with
faults. Marking as read and opening lists have no fairness.

`BridgeSpec` has weak fairness of each slot's next step (a post that is not lost
arrives, the handler goes on, the detached query returns), of the worker, and of each socket
that has something to deliver (while it is down its queue is empty). Sensors, users and
dashboards owe nothing, nor does the network, and calls may fail and the process may die at any
time. The code neither repeats nor makes good what is lost that way, so the two promises
name the losses:

* `AlarmReported` excepts a post the limiter refused or the network lost (the script drops it); an
  alarm whose handler was cut off by a failing log, update, alert or lookup or by a restart; one whose
  detached notifyAlert failed or died; a job that could not be added (`devices.service.ts:119` and
  `notifications.service.ts` only log these errors); and a job that failed for the last time. What is left
  for the code to make good, and what the run checks it does, are failures short of the last,
  lost answers and stalls of the job, and restarts once the job is in Redis.
* `CommandArrives` excepts scripts that were not connected with an open port all the while, and orders
  cut off before the broadcast.

`RoomHears` and `DoorsFollow` likewise speak of requests that were not cut off, and `ScreensAgree` of
devices each of whose requests that was cut off has been followed by one that was not (`Mended`): a
state stored before a failure is shown to nobody until then.

`Stats!FairSpec` has weak fairness of `Tick`, since time passes in
Redis, and of each request's next step; nobody has to ask again, and entries that are never
asked for expire as well.

## 5. The proofs

Every theorem holds for every value of the constants that meets the assumptions of the
module it is about. Each invariant was checked by TLC on the runs' instances before it was
proved. Most properties are not inductive because handlers judge copies read earlier: the
invariants say what each handler has in its local variables, and which of it is still true,
at each of its calls.

**Rooms, accounts and bills** (`Rental!Spec`, with and without `Serial` and `Faults`, any
number of requests). Assumed (`Database`, `Rental`): ids and null are distinct, the seeds have
the shape of their schemas and respect the unique indexes, an occupied seeded room has a
tenant, whoever a seed puts in a room or bills is a tenant, null is no entry of the ledger.

* `RentalProofs!TypeCorrect`. The invariant `IType` adds to `TypeOK` what each handler
  puts into documents (`Shape`) and that a reminder run only holds bills that exist.
* `OccupiedCorrect`. From `IType`: the only writes that set "occupied" set a tenant,
  and `updateStatus` at its write never holds "occupied".
* `BillingProofs!OneBillCorrect`, `PaidOnceCorrect`. The invariant is
  `IBills == IType /\ BillsReserved /\ OneBillPerPeriod /\ ReceiptsCounted`.
  `BillsReserved` says that the id a createBill drew is free and its own until the
  insert (without it an insert could overwrite a bill); `ReceiptsCounted` says that a
  receipt is counted only for a bill that is paid, which the `$ne` guard turns into
  at most one. `BillsStepwise` shows that a step adds one bill, pays one, or leaves
  them alone.
* `BillsFrozenCorrect` follows from `BillsStepwise`.
* `BillsImplementLedger`: by the same lemma each step issues or settles one debt or
  stutters. The refinement mapping picks the bill of a room and month, and
  `OneBillPerPeriod` makes the choice unique.
* `RoomsProofs` adds `IRooms`: what a request has vetted stays true until it writes (`Vetted`:
  the caller manages the room or the room is gone, the user is a tenant, the room to be deleted
  has no devices), ids drawn for rooms and accounts are free and drawn once, and no deleted room
  is there again. It stays true because no write takes a role away, moves a room to another
  owner, or reuses an id; the lemmas `RoomsStepwise` and `UsersStepwise` list the writes. From
  it: `TenantsCorrect`, `EmailsCorrect`, `DevicesCorrect`, `NoticesCorrect`,
  `RoomsChangeByManagersCorrect`.
* `HomesProofs` has the hypothesis `OneAtATime`: `Serial`, no `Faults`, and seeds that agree
  with one another (`SeedsAgree`) as the instance of the run `Serial` does. Without it the
  properties are false. `IHomes` says that at most one request is served, that what it checked
  on its copies is true of the documents, and that rooms and users agree on who
  lives where but for the pair it is writing, of which it knows what is written and what is not.
  From it: `TenancyCorrect`, `OneRoomCorrect` (also in the middle of a request), `DebtsCorrect`,
  `AnnouncementsCorrect`, and `HomesImplemented`: the first write of a pair is the move of the
  abstract register, the second a stutter.

**Devices, alerts and notifications** (`Monitoring!Spec`). Assumed (`Telemetry`): null is no
document and no user, the configuration of rooms, devices and bills is well-formed, the
counts are numbers.

* `MonitoringProofs`. `IMonitoring` has a part for the platform (`IPlatform`), the
  queue (`JobsOK`), the collection and the readers. `Ready` says what a handler has logged,
  accepted or found by its next call; `NotifyingOK` that the tenant is among the
  witnesses as long as notifyAlert's query is under way. From it: `TypeCorrect`,
  `AuditCorrect`, `OrderCorrect`, `CommandsCorrect`, `RecipientsCorrect`, and
  `ResolversCorrect`, an action property.
* `MailboxProofs`. `IMailbox` numbers the copies of a notification and bounds them at each
  place of their job by its failures and stalls so far, and one more once the effect may
  have happened unheard of (`Within`). From it: `CompletionCorrect`, `CopiesCorrect`,
  `ReadingCorrect`, and `QueueImplementsMailbox`: a save adds a copy, completion settles,
  giving up gives up, retries and stalls stutter.
* `AnswersCorrect`. `AnswersOK` says that what the reader had when they asked is still there
  or has been read since, that the list is right from the moment its query is back, and
  the count from the moment its own is: later saves and reads only add to either.

**From the line to the screen** (`BridgeSpec`). Assumed beyond that (`Bridge`): scripts and
dashboards are distinct, each device hangs on a script, lines and orders are of registered
devices, null is no post. `BridgeImplementsMonitoring` shows that the bridge takes steps of
`Monitoring` or leaves its variables alone, so all theorems above hold of it. `IBridge` adds to
the types (`BridgeTypeCorrect`):

* `Carried`: a slot is free, carries a post, or serves the post it carried or an order;
  `HistoryOK`: what is noted as answered or up is.
* `AlertComes`: who has been up since an answered report has heard its alert or has it on the
  way, unless the handler was cut off. On an empty wire it is `RoomHears` (`RoomHearsCorrect`).
* `LatestShown`: a device shows what the last request about it wrote, if all others were
  answered before that one began; each request writes before it emits, and one that was cut off
  may have written or not.
* `ScreensCatchUp`: what was last sent to a dashboard about a device is true, or nothing is on
  the way and what it shows is true, unless a request is between its write and its `Emit`,
  or was cut off there and nothing has come through since (`Mended`, `Through`).
  Joining counts as being told: the event that makes the dashboard forget is on the way
  before any later update. `ScreensCorrect` follows.
* `CommandsDone` and `DoorsCatchUp`: commands under way or written are of answered requests, and
  the last command about a door under way, or the last written when none is, is that of the
  last order, unless that was cut off. `DoorsCorrect` follows.
* The lemmas `FailuresCut` and `CutGrows`: a failure or a restart stores, emits and tells nothing, and
  each request it ends is noted as cut off, which no later step takes back.

The invariant speaks of the last event of a kind in a queue (`LastIn`) or of there being none
(`NoneIn`); the lemmas about sequences say what appending and taking the head does to either.

**The dashboard.** `StatsProofs` proves two theorems of `Stats!Spec` from `StatsAssumption` (finitely many
rooms and documents, documents of rooms that are seeded, only rooms that may be deleted
are closed, a null that is no user).

* `TypesHold`. The invariant `IType` adds to `TypeOK` what a request holds at each step:
  an answer with the figures of its own route, and left to count only figures of that route.
* `TheAnswersWereTrue`. Its hypothesis `EveryOwnerHasAHome`, that every owner in the system
  has a room that is never closed, is needed: the run `Roomless` violates the property
  without it. `AnswersWereTrue` speaks of answers only, so `IRight` says
  the same of the cache entries and of what an unfinished request has counted, and that the ids it
  counts by are its user's rooms at a moment, and not empty. A later moment takes no
  earlier one back (`OnceRight`), so writes, ageing and stale stores keep the invariant.

**Only model-checked**: everything about what eventually happens (`EveryRequestAnswered`,
`EveryBillAnnounced`, `JobsSettle`, `CacheComesRight`, `AlarmReported`, `CommandArrives`): the
prover does not handle the ENABLED of fairness.

## 6. What is left out

* Reads (`getRooms`, `getBills`, `getMyBills`, `getDevices`, `getDeviceLogs`, `getAlerts`,
  profile, login) change nothing and answer from one or two queries nobody relies on
  afterwards. Password hashing, tokens and their expiry, validation, the API key and
  the exception filter decide which requests arrive and how answers look.
* Amounts, meter readings and texts: no branch depends on them. The meter lookup
  of createBill is a read between two modelled calls.
* Timestamps: no branch compares them.
* Rooms of a device (`RoomOf`) are fixed: no route moves a device.
* On the wire: greetings, `left-room`, and what the worker pushes. The last is the
  set `pushed`; its `device-update` has an empty device id and no dashboard can
  apply it. Dashboards also receive the broadcast commands and make nothing of them.
* What a device does with a line: `gateway.js:95` writes `CMD:` and the command,
  without the device id, to the line of every connected script, so several locks behind
  one script, or on several scripts, all hear the command for one. `Bridge` records which
  orders are written to which line; the instance has one lock on one line.
* The limiter counts the gateway scripts' addresses; browsers and the stricter limit of the
  login routes are not counted.
* Of the statistics: the figures themselves beyond how many documents they are of; the alerts
  of a room opened during the run; the time of day.
* Health, configuration, logging, bootstrap and scripts: pure I/O. `notification.queue.ts:62`
  keeps the last 100 completed and 50 failed jobs, which no code reads.

## 7. Plan

Items 1 to 6 are done.

1. Core: `Database`, `Rooms`, `Auth`, `Bills`, `Rental`, with `Ledger` and `Homes`;
   proofs of types, occupancy and billing.
2. Monitoring: `Telemetry`, `Devices`, `Alerts`, `Notifications`, `Monitoring`.
3. `Mailbox`, the abstract specification of notifications, and `Inbox`, the list.
4. `Stats`: the dashboard and its cache, all routes.
5. `Bridge`: from the serial line to the dashboard and back.
6. Proofs: those of section 5. Every invariant and action property that a run checks is
   the statement of a theorem.
7. The arithmetic of bills and the parsing of the meter state as operators checked
   against a reference over bounded inputs.
