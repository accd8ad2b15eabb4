-------------------------- MODULE MonitoringProofs --------------------------
(***************************************************************************)
(* Theorems about Monitoring: for any number of devices, requests, users   *)
(* and jobs, with tenants moving, calls failing and the process crashing   *)
(* at any time.                                                            *)
(***************************************************************************)
EXTENDS Monitoring, FiniteSetTheorems, TLAPS

\* What a handler's parameters are at each of its calls.
Shape(q) ==
  /\ q.op = "none" <=> q.pc = "new"
  /\ q.op = "status" => q.value \in Report /\ q.pc \in {"device", "log", "update", "alert", "emit", "done"}
  /\ q.op = "control" => q.value \in Command /\ q.pc \in {"device", "log", "update", "emit", "done"}
  /\ q.op \in {"status", "control"} => q.device \in DeviceId
  /\ q.op \in {"status", "control"} /\ q.pc \notin {"device", "done"} => q.device \in Registered
  /\ q.op = "status" /\ q.pc = "alert" => q.value \in DOMAIN Alarm
  /\ q.op = "resolve" => q.alert \in Slot /\ q.caller \in UserId \ Tenants
                         /\ q.pc \in {"find", "room", "update", "done"}

\* What the documents say when the handler q of slot s is at its next call: it
\* logs once, before it updates the device, what it was asked; only a report
\* raises an alert, once; a command was accepted, and an alert found and its
\* resolver vetted, before anything is written.
Ready(s, q) ==
  /\ Shape(q)
  /\ q.pc \in {"new", "device", "log"} => logs[s] = None
  /\ q.op \in {"status", "control"} /\ q.pc \in {"update", "alert", "emit"} => logs[s] = LogOf(q)
  /\ q.op # "status" \/ q.pc \notin {"emit", "done"} => alerts[s] = None
  /\ q.op = "control" /\ q.pc \in {"log", "update", "emit"} => Accepts(q.device, q.value)
  /\ q.op = "resolve" /\ q.pc \in {"room", "update"} => alerts[q.alert] # None
  /\ q.op = "resolve" /\ q.pc = "update" =>
       q.caller \in Admins \cup {OwnerOf[alerts[q.alert].room]}
AllReady == \A s \in Slot : Ready(s, req[s])

\* An alert names a registered device and the room of it.
AlertsPlaced ==
  \A a \in Slot : alerts[a] # None =>
    alerts[a].device \in Registered /\ alerts[a].room = RoomOf[alerts[a].device]

\* notifyAlert starts when the handler has answered.  Until its query is back
\* the tenant of the moment is among the witnesses.
NotifyingOK ==
  /\ \A s \in notifying : At(s, "status", "done")
  /\ \A s \in Slot : alerts[s] # None /\ (At(s, "status", "emit") \/ s \in notifying)
                       => tenant[alerts[s].room] \in witnesses[s] \cup {None}
  /\ shown \cup notifying \subseteq {a \in Slot : alerts[a] # None}

PlatformTypes ==
  /\ devices \in [Registered -> [state : DeviceState, online : BOOLEAN]]
  /\ logs \in [Slot -> LogDoc \cup {None}]
  /\ alerts \in [Slot -> AlertDoc \cup {None}]
  /\ tenant \in [RoomId -> Tenants \cup {None}]
  /\ shown \subseteq Slot /\ notifying \subseteq Slot
  /\ commands \subseteq Registered \X Command
  /\ witnesses \in [Slot -> SUBSET Tenants]
  /\ req \in [Slot -> Request]

IPlatform ==
  /\ PlatformTypes /\ AllReady /\ AlertsPlaced /\ NotifyingOK
  /\ AuditTrail /\ CommandsFit

\* An alert's jobs are queued once, after notifyAlert's query; a job that is
\* not given up has an attempt left.
JobsOK ==
  /\ jobs \in [Job -> JobState]
  /\ \A j \in Job : jobs[j].at # "failed" => jobs[j].failures < Attempts
  /\ \A j \in Job : j.call \in Slot /\ jobs[j].at # "none" =>
       /\ At(j.call, "status", "done") /\ j.call \notin notifying /\ alerts[j.call] # None
  /\ NotifiedWitnesses

\* The collection is finite, and so is what the queries of an answer bring.
InboxTypes == pushed \subseteq UserId \X Call /\ inbox \subseteq Note /\ IsFiniteSet(inbox)
Look == [todo : SUBSET {"list", "count"}, told : BOOLEAN, only : BOOLEAN,
         list : SUBSET Note, unread : Nat]
LooksOK ==
  /\ look \in [Reader -> Look] /\ start \in [Reader -> SUBSET Note]
  /\ \A u \in Reader : /\ Cardinality(look[u].list) <= Page
                       /\ \A n \in look[u].list \cup start[u] : n.user = u

IMonitoring == IPlatform /\ JobsOK /\ InboxTypes /\ LooksOK

----------------------------------------------------------------------------
(***************************************************************************)
(* The documents only grow: no device goes offline, no log is rewritten,   *)
(* no alert disappears or moves.  What a waiting handler has established   *)
(* stays true.                                                             *)
(***************************************************************************)
Grows ==
  /\ \A d \in Registered : devices[d].online => devices'[d].online
  /\ \A s \in Slot : logs[s] # None => logs'[s] = logs[s]
  /\ \A a \in Slot : alerts[a] # None =>
       alerts'[a] # None /\ alerts'[a].device = alerts[a].device /\ alerts'[a].room = alerts[a].room

Waits(t) == req'[t] = req[t] /\ logs'[t] = logs[t] /\ (alerts[t] = None => alerts'[t] = None)

LEMMA StaysReady ==
  ASSUME Grows, NEW t \in Slot, Waits(t), Ready(t, req[t]) PROVE Ready(t, req[t])'
BY DEF Grows, Waits, Ready, Shape, LogOf, Accepts

LEMMA NextReady ==
  ASSUME AllReady, Grows, NEW s \in Slot, Ready(s, req[s])', \A t \in Slot : t # s => Waits(t)
  PROVE  AllReady'
BY StaysReady DEF AllReady

\* A request that goes on keeps its parameters, and the others wait.
Moves(s, pc) ==
  /\ req' \in [Slot -> Request]
  /\ req'[s].pc = pc /\ req'[s].op = req[s].op /\ req'[s].device = req[s].device
  /\ req'[s].value = req[s].value /\ req'[s].caller = req[s].caller /\ req'[s].alert = req[s].alert
  /\ \A t \in Slot : t # s => req'[t] = req[t]

LEMMA GotoMoves ==
  ASSUME req \in [Slot -> Request], NEW s \in Slot, NEW pc \in Pc, Goto(s, pc) PROVE Moves(s, pc)
<1> DEFINE q == [req[s] EXCEPT !.pc = pc]
<1>1. /\ q \in Request /\ q.pc = pc /\ q.op = req[s].op /\ q.device = req[s].device
      /\ q.value = req[s].value /\ q.caller = req[s].caller /\ q.alert = req[s].alert
  BY DEF Request
<1>2. req' = [req EXCEPT ![s] = q]
  BY DEF Goto
<1> HIDE DEF q
<1> QED BY <1>1, <1>2 DEF Moves

----------------------------------------------------------------------------
(***************************************************************************)
(* Steps that only read: the documents are as they were.                   *)
(***************************************************************************)
docs == <<devices, logs, alerts, shown, commands, tenant, notifying, witnesses>>

LEMMA ReadKeeps ==
  ASSUME IPlatform, UNCHANGED docs, NEW s \in Slot, req[s].pc # "done",
         req' \in [Slot -> Request], \A t \in Slot : t # s => req'[t] = req[t],
         Ready(s, req'[s]), req'[s].pc # "emit"
  PROVE  IPlatform'
<1>1. Grows /\ \A t \in Slot : t # s => Waits(t)
  BY DEF Grows, Waits, docs
<1>2. Ready(s, req[s])'
  BY DEF Ready, Shape, LogOf, Accepts, docs
<1>3. AllReady'
  BY <1>1, <1>2, NextReady DEF IPlatform
<1>4. PlatformTypes' /\ AlertsPlaced' /\ AuditTrail' /\ CommandsFit'
  BY DEF IPlatform, PlatformTypes, AlertsPlaced, AuditTrail, CommandsFit, Accepts, docs
<1>5. NotifyingOK'
  BY DEF IPlatform, NotifyingOK, At, docs
<1> QED BY <1>3, <1>4, <1>5 DEF IPlatform

LEMMA BeginKeeps ==
  ASSUME IPlatform, NEW s \in Slot, NEW q \in Request, Begin(s, q),
         Shape(q), q.pc \in {"device", "find"}
  PROVE  IPlatform'
<1>1. req' = [req EXCEPT ![s] = q] /\ UNCHANGED docs /\ req[s].pc = "new"
  BY DEF Begin, docs, platform
<1>2. logs[s] = None /\ alerts[s] = None
  BY <1>1 DEF IPlatform, AllReady, Ready, Shape
<1>3. Ready(s, q)
  BY <1>2 DEF Ready
<1> QED BY <1>1, <1>3, ReadKeeps DEF IPlatform, PlatformTypes

LEMMA ArriveKeeps == ASSUME IPlatform, NEW s \in Slot, Arrive(s) PROVE IPlatform'
<1>1. CASE StatusBegin(s)
  BY <1>1, BeginKeeps DEF StatusBegin, Fresh, Request, Pc, Shape
<1>2. CASE ControlBegin(s)
  BY <1>2, BeginKeeps DEF ControlBegin, Fresh, Request, Pc, Shape
<1>3. CASE ResolveBegin(s)
  BY <1>3, BeginKeeps DEF ResolveBegin, Fresh, Request, Pc, Shape
<1> QED BY <1>1, <1>2, <1>3 DEF Arrive, DevicesBegin

LEMMA GotoKeeps ==
  ASSUME IPlatform, UNCHANGED docs, NEW s \in Slot, req[s].pc # "done",
         NEW pc \in Pc \ {"emit"}, Goto(s, pc), Ready(s, [req[s] EXCEPT !.pc = pc])
  PROVE  IPlatform'
<1>1. req \in [Slot -> Request]
  BY DEF IPlatform, PlatformTypes
<1>2. Moves(s, pc) /\ req'[s] = [req[s] EXCEPT !.pc = pc]
  BY <1>1, GotoMoves DEF Goto
<1> QED BY <1>2, ReadKeeps DEF Moves

LEMMA DoneKeeps ==
  ASSUME IPlatform, UNCHANGED docs, NEW s \in Slot, req[s].pc \notin {"new", "done"}, Goto(s, "done")
  PROVE  IPlatform'
<1>1. req[s] \in Request /\ Ready(s, req[s])
  BY DEF IPlatform, PlatformTypes, AllReady
<1>2. Ready(s, [req[s] EXCEPT !.pc = "done"])
  BY <1>1 DEF Ready, Shape, Request
<1> QED BY <1>2, GotoKeeps DEF Pc

LEMMA ReadingKeeps ==
  ASSUME IPlatform, NEW s \in Slot,
         StatusDevice(s) \/ ControlDevice(s) \/ ResolveFind(s) \/ ResolveRoom(s)
  PROVE  IPlatform'
<1>0. req[s] \in Request /\ Ready(s, req[s]) /\ UNCHANGED docs /\ req[s].pc \notin {"new", "done"}
  BY DEF IPlatform, PlatformTypes, AllReady, StatusDevice, ControlDevice, ResolveFind, ResolveRoom,
     At, docs, platform
<1>1. CASE Goto(s, "done")
  BY <1>0, <1>1, DoneKeeps
<1>2. ASSUME NEW pc \in {"log", "room", "update"}, Goto(s, pc), Ready(s, [req[s] EXCEPT !.pc = pc])
      PROVE  IPlatform'
  BY <1>0, <1>2, GotoKeeps DEF Pc
<1>3. CASE StatusDevice(s) /\ Goto(s, "log") /\ req[s].device \in Registered
  <2>1. Ready(s, [req[s] EXCEPT !.pc = "log"])
    BY <1>0, <1>3 DEF StatusDevice, At, Ready, Shape, Request
  <2> QED BY <1>2, <1>3, <2>1
<1>4. CASE ControlDevice(s) /\ Goto(s, "log") /\ req[s].device \in Registered /\ Accepts(req[s].device, req[s].value)
  <2>1. Ready(s, [req[s] EXCEPT !.pc = "log"])
    BY <1>0, <1>4 DEF ControlDevice, At, Ready, Shape, Request
  <2> QED BY <1>2, <1>4, <2>1
<1>5. CASE ResolveFind(s) /\ alerts[req[s].alert] # None /\ Goto(s, "room")
  <2>1. Ready(s, [req[s] EXCEPT !.pc = "room"])
    BY <1>0, <1>5 DEF ResolveFind, At, Ready, Shape, Request
  <2> QED BY <1>2, <1>5, <2>1
<1>6. CASE ResolveFind(s) /\ alerts[req[s].alert] # None /\ req[s].caller \in Admins /\ Goto(s, "update")
  <2>1. Ready(s, [req[s] EXCEPT !.pc = "update"])
    BY <1>0, <1>6 DEF ResolveFind, At, Ready, Shape, Request
  <2> QED BY <1>2, <1>6, <2>1
<1>7. CASE ResolveRoom(s) /\ MayResolve(req[s]) /\ Goto(s, "update")
  <2>1. Ready(s, [req[s] EXCEPT !.pc = "update"])
    BY <1>0, <1>7 DEF ResolveRoom, MayResolve, At, Ready, Shape, Request
  <2> QED BY <1>2, <1>7, <2>1
<1> QED BY <1>1, <1>3, <1>4, <1>5, <1>6, <1>7 DEF StatusDevice, ControlDevice, ResolveFind, ResolveRoom

----------------------------------------------------------------------------
(***************************************************************************)
(* Steps that write: the log entry, the device, the alert, the events.     *)
(***************************************************************************)
LEMMA LogKeeps ==
  ASSUME IPlatform, NEW s \in Slot, StatusLog(s) \/ ControlLog(s) PROVE IPlatform'
<1>0. /\ req[s].op \in {"status", "control"} /\ req[s].pc = "log"
      /\ logs' = [logs EXCEPT ![s] = LogOf(req[s])] /\ Goto(s, "update")
      /\ UNCHANGED <<devices, alerts, shown, commands, tenant, notifying, witnesses>>
  BY DEF StatusLog, ControlLog, At
<1>1. Ready(s, req[s]) /\ req[s] \in Request /\ PlatformTypes
  BY DEF IPlatform, AllReady, PlatformTypes
<1>2. Moves(s, "update")
  BY <1>0, <1>1, GotoMoves DEF PlatformTypes, Pc
<1>3. LogOf(req[s]) \in LogDoc
  BY <1>0, <1>1 DEF LogOf, LogDoc, Ready, Shape, Request
<1>4. logs'[s] = LogOf(req[s]) /\ logs[s] = None /\ \A t \in Slot : t # s => logs'[t] = logs[t]
  BY <1>0, <1>1 DEF Ready, PlatformTypes
<1>5. Grows /\ \A t \in Slot : t # s => Waits(t)
  BY <1>0, <1>2, <1>4 DEF Grows, Waits, Moves
<1>6. Ready(s, req[s])'
  BY <1>0, <1>1, <1>2, <1>4 DEF Ready, Shape, Moves, LogOf, Accepts
<1>7. AllReady'
  BY <1>5, <1>6, NextReady DEF IPlatform
<1>8. PlatformTypes'
  BY <1>0, <1>1, <1>2, <1>3 DEF PlatformTypes, Moves
<1>9. AlertsPlaced' /\ CommandsFit'
  BY <1>0 DEF IPlatform, AlertsPlaced, CommandsFit, Accepts
<1>10. NotifyingOK'
  BY <1>0, <1>2 DEF IPlatform, NotifyingOK, At, Moves
<1>11. AuditTrail'
  BY <1>0, <1>4 DEF IPlatform, AuditTrail
<1> QED BY <1>7, <1>8, <1>9, <1>10, <1>11 DEF IPlatform

\* Online devices stay online, and every state was reported or ordered.
LEMMA DeviceWritten ==
  ASSUME IPlatform, NEW s \in Slot, req[s].op \in {"status", "control"}, req[s].pc = "update",
         NEW dev \in [state : DeviceState, online : BOOLEAN],
         devices' = [devices EXCEPT ![req[s].device] = dev],
         devices[req[s].device].online => dev.online,
         dev.state \in {req[s].value, NewState(req[s].value)},
         UNCHANGED <<logs, alerts, shown, commands, tenant, notifying, witnesses>>,
         NEW pc \in {"alert", "emit"}, Goto(s, pc),
         pc = "alert" => req[s].op = "status" /\ req[s].value \in DOMAIN Alarm
  PROVE  IPlatform'
<1>1. Ready(s, req[s]) /\ req[s] \in Request /\ PlatformTypes /\ req[s].device \in Registered
  BY DEF IPlatform, AllReady, PlatformTypes, Ready, Shape
<1>2. Moves(s, pc)
  BY <1>1, GotoMoves DEF PlatformTypes, Pc
<1>3. \A d \in Registered : devices'[d] = IF d = req[s].device THEN dev ELSE devices[d]
  BY <1>1 DEF PlatformTypes
<1>4. Grows /\ \A t \in Slot : t # s => Waits(t)
  BY <1>2, <1>3 DEF Grows, Waits, Moves
<1>5. alerts[s] = None
  BY <1>1 DEF Ready
<1>6. Ready(s, req[s])'
  BY <1>1, <1>2, <1>3, <1>5 DEF Ready, Shape, Moves, LogOf, Accepts
<1>7. AllReady'
  BY <1>4, <1>6, NextReady DEF IPlatform
<1>8. PlatformTypes'
  BY <1>1, <1>2 DEF PlatformTypes, Moves
<1>9. AlertsPlaced'
  BY DEF IPlatform, AlertsPlaced
<1>10. CommandsFit'
  BY <1>1, <1>4 DEF IPlatform, CommandsFit, Accepts, Grows, PlatformTypes
<1>11. NotifyingOK'
  BY <1>2, <1>5 DEF IPlatform, NotifyingOK, At, Moves
<1>12. AuditTrail'
  <2>1. logs[s] # None /\ logs[s].device = req[s].device /\ logs[s].value = req[s].value
    BY <1>1, NullAssumption DEF Ready, LogOf, PlatformTypes, LogDoc, Shape, Request
  <2> QED BY <1>3, <2>1 DEF IPlatform, AuditTrail
<1> QED BY <1>7, <1>8, <1>9, <1>10, <1>11, <1>12 DEF IPlatform

LEMMA UpdateKeeps ==
  ASSUME IPlatform, NEW s \in Slot, StatusUpdate(s) \/ ControlUpdate(s) PROVE IPlatform'
<1>1. Ready(s, req[s]) /\ PlatformTypes
  BY DEF IPlatform, AllReady
<1>2. CASE StatusUpdate(s)
  <2> DEFINE dev == [state |-> req[s].value, online |-> TRUE]
  <2>1. dev \in [state : DeviceState, online : BOOLEAN]
    BY <1>1, <1>2 DEF StatusUpdate, At, Ready, Shape, DeviceState
  <2>2. PICK pc \in {"alert", "emit"} : Goto(s, pc) /\ (pc = "alert" => req[s].value \in DOMAIN Alarm)
    BY <1>2 DEF StatusUpdate
  <2> QED BY <1>2, <2>1, <2>2, DeviceWritten DEF StatusUpdate, At
<1>3. CASE ControlUpdate(s)
  <2> DEFINE dev == [devices[req[s].device] EXCEPT !.state = NewState(req[s].value)]
  <2>1. req[s].device \in Registered /\ devices[req[s].device] \in [state : DeviceState, online : BOOLEAN]
    BY <1>1, <1>3 DEF ControlUpdate, At, Ready, Shape, PlatformTypes
  <2>2. NewState(req[s].value) \in DeviceState
    BY DEF NewState, DeviceState
  <2>3. /\ dev \in [state : DeviceState, online : BOOLEAN]
        /\ dev.state = NewState(req[s].value) /\ dev.online = devices[req[s].device].online
    BY <2>1, <2>2
  <2>4. devices' = [devices EXCEPT ![req[s].device] = dev]
    BY <1>1, <1>3, <2>1 DEF ControlUpdate, PlatformTypes
  <2> HIDE DEF dev
  <2> QED BY <1>3, <2>3, <2>4, DeviceWritten DEF ControlUpdate, At
<1> QED BY <1>2, <1>3

LEMMA AlertKeeps == ASSUME IPlatform, NEW s \in Slot, StatusAlert(s) PROVE IPlatform'
<1> DEFINE d == req[s].device
           doc == [device |-> d, room |-> RoomOf[d], type |-> Alarm[req[s].value].type,
                   severity |-> Alarm[req[s].value].severity, resolved |-> FALSE]
           who == {tenant[RoomOf[d]]} \ {None}
<1>0. /\ req[s].op = "status" /\ req[s].pc = "alert" /\ Goto(s, "emit")
      /\ alerts' = [alerts EXCEPT ![s] = doc] /\ witnesses' = [witnesses EXCEPT ![s] = who]
      /\ UNCHANGED <<devices, logs, shown, commands, tenant, notifying>>
  BY DEF StatusAlert, At
<1>1. Ready(s, req[s]) /\ req[s] \in Request /\ PlatformTypes /\ d \in Registered
      /\ req[s].value \in DOMAIN Alarm
  BY <1>0 DEF IPlatform, AllReady, PlatformTypes, Ready, Shape
<1>2. Moves(s, "emit")
  BY <1>0, <1>1, GotoMoves DEF PlatformTypes, Pc
<1>3. doc \in AlertDoc /\ doc # None /\ doc.device = d /\ doc.room = RoomOf[d]
  <2>1. RoomOf[d] \in RoomId /\ d \in DeviceId
    BY <1>1, PlacesAssumption
  <2>2. /\ Alarm[req[s].value].type \in {"fire", "security"}
        /\ Alarm[req[s].value].severity \in {"info", "warning", "critical"}
    BY <1>1 DEF Alarm
  <2>3. doc \in AlertDoc
    BY <2>1, <2>2 DEF AlertDoc
  <2> QED BY <2>3, NullAssumption
<1>4. who \in SUBSET Tenants /\ tenant[RoomOf[d]] \in who \cup {None}
  BY <1>1, PlacesAssumption DEF PlatformTypes
<1> HIDE DEF doc, who
<1>5. /\ alerts'[s] = doc /\ alerts[s] = None /\ witnesses'[s] = who /\ s \notin notifying
      /\ \A t \in Slot : t # s => alerts'[t] = alerts[t] /\ witnesses'[t] = witnesses[t]
  BY <1>0, <1>1 DEF Ready, PlatformTypes, IPlatform, NotifyingOK, At
<1>6. Grows /\ \A t \in Slot : t # s => Waits(t)
  BY <1>0, <1>2, <1>5 DEF Grows, Waits, Moves
<1>7. Ready(s, req[s])'
  BY <1>0, <1>1, <1>2 DEF Ready, Shape, Moves, LogOf
<1>8. AllReady'
  BY <1>6, <1>7, NextReady DEF IPlatform
<1>9. PlatformTypes'
  BY <1>0, <1>1, <1>2, <1>3, <1>4 DEF PlatformTypes, Moves
<1>10. AlertsPlaced' /\ CommandsFit'
  BY <1>0, <1>1, <1>3, <1>5 DEF IPlatform, AlertsPlaced, CommandsFit, Accepts
<1>11. NotifyingOK'
  BY <1>0, <1>2, <1>3, <1>4, <1>5 DEF IPlatform, NotifyingOK, At, Moves
<1>12. AuditTrail'
  <2>1. logs[s] # None /\ logs[s].device = d /\ logs[s].value = req[s].value
    BY <1>0, <1>1, NullAssumption DEF Ready, LogOf, PlatformTypes, LogDoc, Shape, Request
  <2> QED BY <1>0, <1>1, <1>3, <1>5, <2>1 DEF IPlatform, AuditTrail
<1> QED BY <1>8, <1>9, <1>10, <1>11, <1>12 DEF IPlatform

LEMMA EmitKeeps ==
  ASSUME IPlatform, NEW s \in Slot, StatusEmit(s) \/ ControlEmit(s) PROVE IPlatform'
<1>1. Ready(s, req[s]) /\ req[s] \in Request /\ PlatformTypes /\ req[s].pc = "emit"
      /\ req[s].op \in {"status", "control"}
  BY DEF IPlatform, AllReady, PlatformTypes, StatusEmit, ControlEmit, At
<1>2. /\ Moves(s, "done")
      /\ UNCHANGED <<devices, logs, alerts, tenant, witnesses>>
  BY <1>1, GotoMoves DEF PlatformTypes, Pc, StatusEmit, ControlEmit
<1>3. Grows /\ \A t \in Slot : t # s => Waits(t)
  BY <1>2 DEF Grows, Waits, Moves
<1>4. Ready(s, req[s])'
  BY <1>1, <1>2 DEF Ready, Shape, Moves
<1>5. AllReady'
  BY <1>3, <1>4, NextReady DEF IPlatform
<1>6. AlertsPlaced' /\ AuditTrail'
  BY <1>2 DEF IPlatform, AlertsPlaced, AuditTrail
<1>7. CASE StatusEmit(s)
  <2>1. PlatformTypes' /\ CommandsFit'
    BY <1>1, <1>2, <1>7 DEF PlatformTypes, Moves, StatusEmit, IPlatform, CommandsFit, Accepts
  <2>2. NotifyingOK'
    BY <1>1, <1>2, <1>7 DEF IPlatform, NotifyingOK, At, Moves, StatusEmit
  <2> QED BY <1>5, <1>6, <2>1, <2>2 DEF IPlatform
<1>8. CASE ControlEmit(s)
  <2>1. req[s].device \in Registered /\ req[s].value \in Command /\ Accepts(req[s].device, req[s].value)
        /\ devices[req[s].device].online
    BY <1>1, <1>8 DEF ControlEmit, At, Ready, Shape, Accepts
  <2>2. PlatformTypes' /\ CommandsFit'
    BY <1>1, <1>2, <1>8, <2>1 DEF PlatformTypes, Moves, ControlEmit, IPlatform, CommandsFit, Accepts
  <2>3. NotifyingOK'
    BY <1>1, <1>2, <1>8 DEF IPlatform, NotifyingOK, At, Moves, ControlEmit
  <2> QED BY <1>5, <1>6, <2>2, <2>3 DEF IPlatform
<1> QED BY <1>7, <1>8

LEMMA ResolveKeeps == ASSUME IPlatform, NEW s \in Slot, ResolveUpdate(s) PROVE IPlatform'
<1> DEFINE a == req[s].alert
           doc == [alerts[a] EXCEPT !.resolved = TRUE]
<1>1. /\ Ready(s, req[s]) /\ PlatformTypes /\ req[s].pc = "update" /\ req[s].op = "resolve"
      /\ a \in Slot /\ alerts[a] # None /\ alerts[a] \in AlertDoc
  BY DEF IPlatform, AllReady, PlatformTypes, ResolveUpdate, At, Ready, Shape
<1>2. /\ doc \in AlertDoc /\ doc # None /\ doc.device = alerts[a].device /\ doc.room = alerts[a].room
  <2>1. doc \in AlertDoc /\ doc.device = alerts[a].device /\ doc.room = alerts[a].room
    BY <1>1 DEF AlertDoc
  <2> QED BY <2>1, NullAssumption
<1>3. alerts' = [alerts EXCEPT ![a] = doc]
  BY <1>1 DEF ResolveUpdate, PlatformTypes
<1> HIDE DEF doc
<1>4. /\ Moves(s, "done")
      /\ UNCHANGED <<devices, logs, shown, commands, tenant, notifying, witnesses>>
  BY <1>1, GotoMoves DEF PlatformTypes, Pc, ResolveUpdate
<1>5. /\ \A x \in Slot : alerts[x] = None <=> alerts'[x] = None
      /\ \A x \in Slot : alerts[x] # None =>
           alerts'[x].device = alerts[x].device /\ alerts'[x].room = alerts[x].room
  BY <1>1, <1>2, <1>3 DEF PlatformTypes
<1>6. Grows /\ \A t \in Slot : t # s => Waits(t)
  BY <1>4, <1>5 DEF Grows, Waits, Moves
<1>7. Ready(s, req[s])'
  BY <1>1, <1>4, <1>5 DEF Ready, Shape, Moves
<1>8. AllReady'
  BY <1>6, <1>7, NextReady DEF IPlatform
<1>9. PlatformTypes'
  BY <1>1, <1>2, <1>3, <1>4 DEF PlatformTypes, Moves
<1>10. AlertsPlaced' /\ CommandsFit' /\ AuditTrail'
  BY <1>4, <1>5 DEF IPlatform, AlertsPlaced, CommandsFit, Accepts, AuditTrail
<1>11. NotifyingOK'
  BY <1>1, <1>4, <1>5 DEF IPlatform, PlatformTypes, NotifyingOK, At, Moves
<1> QED BY <1>8, <1>9, <1>10, <1>11 DEF IPlatform

----------------------------------------------------------------------------
(***************************************************************************)
(* notifyAlert ends, a tenant moves, a call fails, the process dies; and   *)
(* the steps of the queue and of the lists, which write no document here.  *)
(***************************************************************************)
others0 == <<devices, logs, alerts, shown, commands, tenant, witnesses>>

LEMMA NotifiedKeeps ==
  ASSUME IPlatform, UNCHANGED <<others0, req>>, notifying' \subseteq notifying PROVE IPlatform'
<1>1. PlatformTypes' /\ AlertsPlaced' /\ AuditTrail' /\ CommandsFit'
  BY DEF IPlatform, PlatformTypes, AlertsPlaced, AuditTrail, CommandsFit, Accepts, others0
<1>2. AllReady'
  BY DEF IPlatform, AllReady, Ready, Shape, LogOf, Accepts, others0
<1>3. NotifyingOK'
  BY DEF IPlatform, NotifyingOK, At, others0
<1> QED BY <1>1, <1>2, <1>3 DEF IPlatform

LEMMA TenantKeeps == ASSUME IPlatform, NEW r \in RoomId, TenantChanges(r) PROVE IPlatform'
<1>1. UNCHANGED <<devices, logs, alerts, shown, commands, notifying, req>>
  BY DEF TenantChanges, platform
<1>2. PICK t \in Tenants \cup {None} :
        /\ tenant' = [tenant EXCEPT ![r] = t]
        /\ \A s \in Slot : witnesses'[s] =
             IF alerts[s] # None /\ alerts[s].room = r /\ (At(s, "status", "emit") \/ s \in notifying)
             THEN witnesses[s] \cup ({t} \ {None}) ELSE witnesses[s]
  BY DEF TenantChanges
<1>3. PlatformTypes'
  <2>1. witnesses' \in [Slot -> SUBSET Tenants]
    BY DEF TenantChanges, IPlatform, PlatformTypes
  <2> QED BY <1>1, <1>2, <2>1 DEF IPlatform, PlatformTypes
<1>4. AllReady' /\ AlertsPlaced' /\ AuditTrail' /\ CommandsFit'
  BY <1>1 DEF IPlatform, AllReady, Ready, Shape, LogOf, Accepts, AlertsPlaced, AuditTrail, CommandsFit
<1>5. NotifyingOK'
  <2>1. ASSUME NEW s \in Slot, alerts[s] # None, At(s, "status", "emit") \/ s \in notifying
        PROVE  tenant'[alerts[s].room] \in witnesses'[s] \cup {None}
    <3>1. alerts[s].room \in RoomId /\ tenant[alerts[s].room] \in witnesses[s] \cup {None}
      BY <2>1 DEF IPlatform, PlatformTypes, AlertDoc, NotifyingOK
    <3>2. CASE alerts[s].room = r
      <4>1. witnesses'[s] = witnesses[s] \cup ({t} \ {None})
        BY <1>2, <2>1, <3>2
      <4>2. tenant'[alerts[s].room] = t
        BY <1>2, <3>2 DEF IPlatform, PlatformTypes
      <4> QED BY <4>1, <4>2
    <3>3. CASE alerts[s].room # r
      <4>1. witnesses'[s] = witnesses[s]
        BY <1>2, <3>3
      <4>2. tenant'[alerts[s].room] = tenant[alerts[s].room]
        BY <1>2, <3>1, <3>3 DEF IPlatform, PlatformTypes
      <4> QED BY <3>1, <4>1, <4>2
    <3> QED BY <3>2, <3>3
  <2> QED BY <1>1, <2>1 DEF IPlatform, NotifyingOK, At
<1> QED BY <1>3, <1>4, <1>5 DEF IPlatform

LEMMA FailKeeps == ASSUME IPlatform, NEW s \in Slot, CallFails(s) PROVE IPlatform'
BY DoneKeeps, NotifiedKeeps DEF CallFails, docs, others0, platform

LEMMA CrashKeeps == ASSUME IPlatform, Crash PROVE IPlatform'
<1>1. UNCHANGED <<devices, logs, alerts, shown, commands, tenant, witnesses>> /\ notifying' = {}
  BY DEF Crash, platform
<1>2. \A s \in Slot : /\ req[s] \in Request /\ Ready(s, req[s])
                      /\ req'[s] = req[s] \/ (req[s].pc # "new" /\ req'[s] = [req[s] EXCEPT !.pc = "done"])
  BY DEF Crash, IPlatform, PlatformTypes, AllReady
<1>3. ASSUME NEW q \in Request
      PROVE  LET q2 == [q EXCEPT !.pc = "done"] IN
             /\ q2 \in Request /\ q2.op = q.op /\ q2.pc = "done"
             /\ q2.value = q.value /\ q2.device = q.device
             /\ q2.alert = q.alert /\ q2.caller = q.caller
  BY DEF Request, Pc
<1>4. req' \in [Slot -> Request]
  BY <1>2, <1>3 DEF Crash
<1>5. AllReady'
  <2> SUFFICES ASSUME NEW s \in Slot PROVE Ready(s, req[s])'
    BY DEF AllReady
  <2>1. CASE req'[s] = req[s]
    BY <1>1, <1>2, <2>1, StaysReady DEF Grows, Waits
  <2>2. CASE req[s].pc # "new" /\ req'[s] = [req[s] EXCEPT !.pc = "done"]
    <3>1. /\ req'[s].op = req[s].op /\ req'[s].pc = "done" /\ req'[s].value = req[s].value
          /\ req'[s].device = req[s].device /\ req'[s].alert = req[s].alert
          /\ req'[s].caller = req[s].caller
      BY <1>2, <1>3, <2>2
    <3>2. Shape(req[s])'
      BY <1>2, <2>2, <3>1 DEF Ready, Shape
    <3> QED BY <1>1, <1>2, <2>2, <3>1, <3>2 DEF Ready
  <2> QED BY <1>2, <2>1, <2>2
<1>6. PlatformTypes'
  BY <1>1, <1>4 DEF IPlatform, PlatformTypes
<1>7. AlertsPlaced' /\ AuditTrail' /\ CommandsFit'
  BY <1>1 DEF IPlatform, AlertsPlaced, AuditTrail, CommandsFit, Accepts
<1>8. NotifyingOK'
  BY <1>1, <1>2, <1>3 DEF IPlatform, NotifyingOK, At
<1> QED BY <1>5, <1>6, <1>7, <1>8 DEF IPlatform

\* The steps that leave requests and documents alone.
JobStep ==
  \/ \E c \in BillCall : NotifyBill(c)
  \/ \E j \in Job : Run(j) \/ JobFails(j)
ListStep ==
  \/ \E u \in UserId : MarkAllAsRead(u) \/ \E n \in inbox : MarkAsRead(n, u)
  \/ \E u \in Reader : OpenList(u) \/ ListQuery(u) \/ CountQuery(u) \/ Shown(u) \/ ListFails(u)

LEMMA JobFrame ==
  JobStep => UNCHANGED <<platform, tenant, notifying, witnesses, req>> /\ UNCHANGED reading
BY DEF JobStep, NotifyBill, Run, Take, PushSocket, SaveDb, Complete, Recover, JobFails

LEMMA ListFrame ==
  ListStep => UNCHANGED <<platform, tenant, notifying, witnesses, req>> /\ UNCHANGED <<jobs, pushed>>
BY DEF ListStep, MarkAllAsRead, MarkAsRead, OpenList, ListQuery, CountQuery, Shown, ListFails, others

LEMMA StepCases ==
  [Next]_vars =>
    \/ \E s \in Slot : Arrive(s) \/ Step(s) \/ NotifyAlert(s) \/ CallFails(s)
    \/ JobStep \/ ListStep \/ (\E r \in RoomId : TenantChanges(r)) \/ Crash \/ UNCHANGED vars
BY DEF Next, JobStep, ListStep

LEMMA PlatformInit == Init => IPlatform
<1> SUFFICES ASSUME Init PROVE IPlatform
  OBVIOUS
<1>1. PlatformTypes
  BY PlacesAssumption, PeopleAssumption DEF Init, PlatformTypes, DeviceState, Fresh, Request, Pc
<1>2. AllReady
  BY DEF Init, AllReady, Ready, Shape, Fresh
<1>3. AlertsPlaced /\ NotifyingOK /\ AuditTrail /\ CommandsFit
  BY DEF Init, AlertsPlaced, NotifyingOK, AuditTrail, CommandsFit
<1> QED BY <1>1, <1>2, <1>3 DEF IPlatform

LEMMA StepKeeps == ASSUME IPlatform, NEW s \in Slot, Step(s) PROVE IPlatform'
BY ReadingKeeps, LogKeeps, UpdateKeeps, AlertKeeps, EmitKeeps, ResolveKeeps
DEF Step, DevicesStep, AlertsStep

LEMMA PlatformNext == IPlatform /\ [Next]_vars => IPlatform'
<1> SUFFICES ASSUME IPlatform, [Next]_vars PROVE IPlatform'
  OBVIOUS
<1>1. ASSUME NEW s \in Slot, NotifyAlert(s) PROVE IPlatform'
  BY <1>1, NotifiedKeeps DEF NotifyAlert, others0, platform
<1>2. CASE UNCHANGED <<platform, tenant, notifying, witnesses, req>>
  BY <1>2, NotifiedKeeps DEF others0, platform
<1>3. CASE UNCHANGED vars
  BY <1>2, <1>3 DEF vars, platform
<1> QED
  BY <1>1, <1>2, <1>3, StepCases, ArriveKeeps, StepKeeps, FailKeeps, TenantKeeps, CrashKeeps,
     JobFrame, ListFrame

LEMMA PlatformInduction == Spec => []IPlatform
BY PlatformInit, PlatformNext, PTL DEF Spec

----------------------------------------------------------------------------
(***************************************************************************)
(* The jobs.  An alert that notifyAlert is done with stays as it is, and   *)
(* its witnesses are only added to.                                        *)
(***************************************************************************)
Told(a) == At(a, "status", "done") /\ a \notin notifying /\ alerts[a] # None
StaysTold(a) == Told(a)' /\ alerts'[a].room = alerts[a].room /\ witnesses[a] \subseteq witnesses'[a]

LEMMA ToldStays ==
  ASSUME IPlatform, [Next]_vars, NEW a \in Slot, Told(a) PROVE StaysTold(a)
<1> USE DEF Told, StaysTold
<1>0. PlatformTypes
  BY DEF IPlatform
<1>1. ASSUME NEW s \in Slot, Arrive(s) PROVE StaysTold(a)
  <2>1. PICK q : Begin(s, q)
    BY <1>1 DEF Arrive, DevicesBegin, StatusBegin, ControlBegin, ResolveBegin
  <2> QED BY <1>0, <2>1 DEF Begin, At, platform, PlatformTypes
<1>2. ASSUME NEW s \in Slot, Step(s) PROVE StaysTold(a)
  <2>1. s # a /\ \E pc : Goto(s, pc)
    BY <1>2 DEF Step, DevicesStep, AlertsStep, StatusDevice, StatusLog, StatusUpdate, StatusAlert,
       StatusEmit, ControlDevice, ControlLog, ControlUpdate, ControlEmit, ResolveFind, ResolveRoom,
       ResolveUpdate, At
  <2>2. At(a, "status", "done")'
    BY <1>0, <2>1 DEF Goto, At, PlatformTypes
  <2>3. notifying' \subseteq notifying \cup {s}
    BY <1>2 DEF Step, DevicesStep, AlertsStep, StatusDevice, StatusLog, StatusUpdate, StatusAlert,
       StatusEmit, ControlDevice, ControlLog, ControlUpdate, ControlEmit, ResolveFind, ResolveRoom,
       ResolveUpdate
  <2>4. witnesses'[a] = witnesses[a]
    BY <1>0, <1>2, <2>1 DEF Step, DevicesStep, AlertsStep, StatusDevice, StatusLog, StatusUpdate,
       StatusAlert, StatusEmit, ControlDevice, ControlLog, ControlUpdate, ControlEmit, ResolveFind,
       ResolveRoom, ResolveUpdate, PlatformTypes
  <2>5. alerts'[a] # None /\ alerts'[a].room = alerts[a].room
    <3>1. CASE alerts' = alerts
      BY <3>1
    <3>2. CASE StatusAlert(s)
      BY <1>0, <2>1, <3>2 DEF StatusAlert, PlatformTypes
    <3>3. CASE ResolveUpdate(s)
      <4>1. [alerts[a] EXCEPT !.resolved = TRUE] \in AlertDoc
            /\ [alerts[a] EXCEPT !.resolved = TRUE].room = alerts[a].room
        BY <1>0 DEF PlatformTypes, AlertDoc
      <4>2. alerts'[a] \in {alerts[a], [alerts[a] EXCEPT !.resolved = TRUE]}
        BY <1>0, <3>3 DEF ResolveUpdate, PlatformTypes
      <4> QED BY <4>1, <4>2, NullAssumption
    <3> QED BY <1>2, <3>1, <3>2, <3>3 DEF Step, DevicesStep, AlertsStep, StatusDevice, StatusLog,
       StatusUpdate, StatusEmit, ControlDevice, ControlLog, ControlUpdate, ControlEmit, ResolveFind,
       ResolveRoom, platform
  <2> QED BY <2>1, <2>2, <2>3, <2>4, <2>5
<1>3. ASSUME NEW s \in Slot, NotifyAlert(s) \/ CallFails(s) PROVE StaysTold(a)
  <2>1. UNCHANGED <<alerts, witnesses>> /\ notifying' \subseteq notifying
    BY <1>3 DEF NotifyAlert, CallFails, platform
  <2>2. req' = req \/ (s # a /\ Goto(s, "done"))
    BY <1>3 DEF NotifyAlert, CallFails, At
  <2> QED BY <1>0, <2>1, <2>2 DEF Goto, At, PlatformTypes
<1>4. CASE JobStep \/ ListStep \/ UNCHANGED vars
  BY <1>4, JobFrame, ListFrame DEF At, platform, vars
<1>5. ASSUME NEW r \in RoomId, TenantChanges(r) PROVE StaysTold(a)
  BY <1>0, <1>5 DEF TenantChanges, At, platform, PlatformTypes
<1>6. CASE Crash
  <2>1. req[a] \in Request /\ req'[a] = [req[a] EXCEPT !.pc = "done"]
    BY <1>0, <1>6 DEF Crash, At, PlatformTypes
  <2>2. At(a, "status", "done")'
    BY <2>1 DEF At, Request
  <2> QED BY <1>6, <2>2 DEF Crash, platform
<1> QED BY <1>1, <1>2, <1>3, <1>4, <1>5, <1>6, StepCases

\* A queued job concerns an alert that notifyAlert is done with, or a bill,
\* and somebody who has to know.
Meant(j) ==
  IF j.call \in Slot
  THEN Told(j.call) /\ j.user \in {OwnerOf[alerts[j.call].room]} \cup witnesses[j.call]
  ELSE j.user = BillTenant[j.call]
Good(job) == job \in JobState /\ (job.at # "failed" => job.failures < Attempts)

MeantNext(j) == Meant(j)'

LEMMA MeantStays == ASSUME IPlatform, [Next]_vars, NEW j \in Job, Meant(j) PROVE Meant(j)'
BY ToldStays DEF Meant, StaysTold

LEMMA JobsMeant ==
  JobsOK <=> /\ jobs \in [Job -> JobState]
             /\ \A j \in Job : Good(jobs[j]) /\ (jobs[j].at # "none" => Meant(j))
BY DEF JobsOK, Good, Meant, Told, NotifiedWitnesses

\* Job j is now at this place, with these many failures and stalls.
Becomes(j, at, failures, stalls) ==
  jobs' = [jobs EXCEPT ![j] = [at |-> at, failures |-> failures, stalls |-> stalls]]

LEMMA Replaced ==
  ASSUME NEW job \in JobState
  PROVE  /\ \A at : [job EXCEPT !.at = at]
                      = [at |-> at, failures |-> job.failures, stalls |-> job.stalls]
         /\ Retried(job) = [at |-> IF job.failures + 1 < Attempts THEN "waiting" ELSE "failed",
                            failures |-> job.failures + 1, stalls |-> job.stalls]
         /\ Recovered(job) = IF job.stalls < MaxStalled
              THEN [at |-> "waiting", failures |-> job.failures, stalls |-> job.stalls + 1]
              ELSE [at |-> "failed", failures |-> job.failures, stalls |-> job.stalls]
<1>1. \A at : [job EXCEPT !.at = at] = [at |-> at, failures |-> job.failures, stalls |-> job.stalls]
  BY DEF JobState
<1>2. \A a, f, k, n : /\ [[at |-> a, failures |-> f, stalls |-> k] EXCEPT !.failures = n]
                           = [at |-> a, failures |-> n, stalls |-> k]
                      /\ [[at |-> a, failures |-> f, stalls |-> k] EXCEPT !.stalls = n]
                           = [at |-> a, failures |-> f, stalls |-> n]
  OBVIOUS
<1>3. \A at \in {"waiting", "failed"} :
        [job EXCEPT !.at = at, !.failures = @ + 1]
          = [[job EXCEPT !.at = at] EXCEPT !.failures = job.failures + 1]
  OBVIOUS
<1>4. [job EXCEPT !.at = "waiting", !.stalls = @ + 1]
        = [[job EXCEPT !.at = "waiting"] EXCEPT !.stalls = job.stalls + 1]
  OBVIOUS
<1>5. Retried(job) = [at |-> IF job.failures + 1 < Attempts THEN "waiting" ELSE "failed",
                      failures |-> job.failures + 1, stalls |-> job.stalls]
  <2>1. CASE job.failures + 1 < Attempts
    BY <1>1, <1>2, <1>3, <2>1 DEF Retried
  <2>2. CASE ~(job.failures + 1 < Attempts)
    BY <1>1, <1>2, <1>3, <2>2 DEF Retried
  <2> QED BY <2>1, <2>2
<1>6. Recovered(job) = IF job.stalls < MaxStalled
        THEN [at |-> "waiting", failures |-> job.failures, stalls |-> job.stalls + 1]
        ELSE [at |-> "failed", failures |-> job.failures, stalls |-> job.stalls]
  <2>1. CASE job.stalls < MaxStalled
    <3>1. [job EXCEPT !.at = "waiting", !.stalls = @ + 1]
            = [at |-> "waiting", failures |-> job.failures, stalls |-> job.stalls + 1]
      <4> DEFINE moved == [job EXCEPT !.at = "waiting"]
      <4>1. moved = [at |-> "waiting", failures |-> job.failures, stalls |-> job.stalls]
        BY <1>1
      <4> HIDE DEF moved
      <4>2. [moved EXCEPT !.stalls = job.stalls + 1]
              = [at |-> "waiting", failures |-> job.failures, stalls |-> job.stalls + 1]
        BY <4>1, <1>2
      <4> QED BY <4>2, <1>4 DEF moved
    <3> QED BY <2>1, <3>1, Zenon DEF Recovered
  <2>2. CASE ~(job.stalls < MaxStalled)
    BY <1>1, <2>2 DEF Recovered
  <2> QED BY <2>1, <2>2
<1> QED BY <1>1, <1>5, <1>6

\* What each step of the worker does to its job.
LEMMA Worked ==
  ASSUME jobs \in [Job -> JobState], NEW j \in Job
  PROVE  LET job == jobs[j] IN
    /\ Take(j) => job.at = "waiting" /\ Becomes(j, "active", job.failures, job.stalls)
    /\ PushSocket(j) \/ SaveDb(j) => job.at = "active" /\ Becomes(j, "worked", job.failures, job.stalls)
    /\ Complete(j) => job.at = "worked" /\ Becomes(j, "completed", job.failures, job.stalls)
    /\ JobFails(j) => /\ job.at \in {"active", "worked"}
                      /\ Becomes(j, IF job.failures + 1 < Attempts THEN "waiting" ELSE "failed",
                                 job.failures + 1, job.stalls)
    /\ Recover(j) => /\ job.at = "stalled"
                     /\ IF job.stalls < MaxStalled
                        THEN Becomes(j, "waiting", job.failures, job.stalls + 1)
                        ELSE Becomes(j, "failed", job.failures, job.stalls)
<1> DEFINE job == jobs[j]
<1>1. job \in JobState
  OBVIOUS
<1>2. \A at : Move(j, at) => Becomes(j, at, job.failures, job.stalls)
  BY <1>1, Replaced DEF Move, Becomes
<1>3. JobFails(j) => Becomes(j, IF job.failures + 1 < Attempts THEN "waiting" ELSE "failed",
                             job.failures + 1, job.stalls)
  BY <1>1, Replaced DEF JobFails, Becomes
<1>4. Recover(j) => IF job.stalls < MaxStalled
                    THEN Becomes(j, "waiting", job.failures, job.stalls + 1)
                    ELSE Becomes(j, "failed", job.failures, job.stalls)
  BY <1>1, Replaced DEF Recover, Becomes
<1> QED BY <1>2, <1>3, <1>4 DEF Take, PushSocket, SaveDb, Complete, JobFails, Recover

\* A job goes on: it was queued, and still is.
Advances(j) ==
  /\ jobs[j].at # "none" /\ jobs'[j].at # "none" /\ Good(jobs'[j])
  /\ jobs' \in [Job -> JobState]
  /\ \A i \in Job : i # j => jobs'[i] = jobs[i]

LEMMA Advanced ==
  ASSUME jobs \in [Job -> JobState], NEW j \in Job, jobs[j].at # "none",
         NEW at, NEW failures, NEW stalls, Becomes(j, at, failures, stalls), at # "none",
         Good([at |-> at, failures |-> failures, stalls |-> stalls])
  PROVE  Advances(j)
<1> DEFINE job == [at |-> at, failures |-> failures, stalls |-> stalls]
<1>1. job.at = at
  OBVIOUS
<1> HIDE DEF job
<1>2. jobs' = [jobs EXCEPT ![j] = job] /\ Good(job)
  BY DEF Becomes, job
<1> QED BY <1>1, <1>2 DEF Advances, Good

LEMMA JobAdvances ==
  ASSUME jobs \in [Job -> JobState], NEW j \in Job, Good(jobs[j]), Run(j) \/ JobFails(j)
  PROVE  Advances(j)
<1> DEFINE job == jobs[j]
<1>1. /\ job \in JobState /\ job.failures \in 0..Attempts /\ job.stalls \in 0..MaxStalled
      /\ Attempts \in Nat /\ MaxStalled \in Nat
      /\ job.at # "failed" => job.failures < Attempts
  BY WorkerAssumption DEF JobState, Good
<1>2. ASSUME NEW at \in {"active", "worked", "completed"}, job.at \in {"waiting", "active", "worked"},
             Becomes(j, at, job.failures, job.stalls)
      PROVE  Advances(j)
  BY <1>1, <1>2, Advanced DEF Good, JobState
<1>3. CASE Take(j) \/ PushSocket(j) \/ SaveDb(j) \/ Complete(j)
  BY <1>2, <1>3, Worked
<1>4. CASE JobFails(j)
  <2>1. CASE job.failures + 1 < Attempts
    BY <1>1, <1>4, <2>1, Worked, Advanced DEF Good, JobState
  <2>2. CASE ~(job.failures + 1 < Attempts)
    BY <1>1, <1>4, <2>2, Worked, Advanced DEF Good, JobState
  <2> QED BY <2>1, <2>2
<1>5. CASE Recover(j)
  <2>1. CASE job.stalls < MaxStalled
    BY <1>1, <1>5, <2>1, Worked, Advanced DEF Good, JobState
  <2>2. CASE ~(job.stalls < MaxStalled)
    BY <1>1, <1>5, <2>2, Worked, Advanced DEF Good, JobState
  <2> QED BY <2>1, <2>2
<1> QED BY <1>3, <1>4, <1>5 DEF Run

\* A new job waits.
NewJob == [at |-> "waiting", failures |-> 0, stalls |-> 0]

LEMMA FreshJob == [NoJob EXCEPT !.at = "waiting"] = NewJob /\ Good(NewJob) /\ Good(NoJob)
<1>1. [NoJob EXCEPT !.at = "waiting"] = NewJob
  BY DEF NoJob, NewJob
<1> QED BY <1>1, WorkerAssumption DEF NoJob, NewJob, Good, JobState

\* Some of the wanted jobs are queued as new ones, over whatever they were.
LEMMA Enqueued ==
  ASSUME jobs \in [Job -> JobState], NEW wanted, Enqueue(wanted)
  PROVE  /\ jobs' \in [Job -> JobState]
         /\ \A j \in Job : jobs'[j] = jobs[j] \/ (j \in wanted /\ jobs'[j] = NewJob)
<1>1. PICK added \in SUBSET wanted :
        jobs' = [j \in Job |-> IF j \in added THEN NewJob ELSE jobs[j]]
  BY FreshJob DEF Enqueue
<1> QED BY <1>1, FreshJob DEF Good

LEMMA JobsMeantNext ==
  ASSUME jobs' \in [Job -> JobState],
         \A j \in Job : Good(jobs'[j]) /\ (jobs'[j].at # "none" => MeantNext(j))
  PROVE  JobsOK'
BY DEF MeantNext, JobsOK, Good, Meant, Told, NotifiedWitnesses

JobsFine ==
  /\ jobs' \in [Job -> JobState]
  /\ \A j \in Job : Good(jobs'[j]) /\ (jobs'[j].at # "none" => MeantNext(j))

LEMMA JobsNext == IPlatform /\ IPlatform' /\ JobsOK /\ [Next]_vars => JobsOK'
<1> SUFFICES ASSUME IPlatform, IPlatform', JobsOK, [Next]_vars PROVE JobsOK'
  OBVIOUS
<1>0. /\ jobs \in [Job -> JobState]
      /\ \A j \in Job : Good(jobs[j])
      /\ \A j \in Job : jobs[j].at # "none" => MeantNext(j)
  BY JobsMeant, MeantStays DEF MeantNext
<1>1. ASSUME jobs' = jobs PROVE JobsFine
  BY <1>0, <1>1 DEF JobsFine
<1>2. ASSUME NEW j \in Job, Run(j) \/ JobFails(j) PROVE JobsFine
  BY <1>0, <1>2, JobAdvances DEF Advances, JobsFine
<1>3. ASSUME NEW a \in Slot, NotifyAlert(a) PROVE JobsFine
  <2>1. Enqueue(JobsFor(Recipients(alerts[a].room), a))
    BY <1>3 DEF NotifyAlert
  <2>2. At(a, "status", "done") /\ alerts[a] # None
        /\ tenant[alerts[a].room] \in witnesses[a] \cup {None}
    BY <1>3 DEF NotifyAlert, IPlatform, NotifyingOK
  <2>3. UNCHANGED <<alerts, req, witnesses>> /\ notifying' = notifying \ {a}
    BY <1>3 DEF NotifyAlert, platform
  <2>4. \A j \in JobsFor(Recipients(alerts[a].room), a) :
          j.call = a /\ j.user \in {OwnerOf[alerts[a].room]} \cup witnesses[a]
    BY <2>2 DEF JobsFor, Recipients
  <2>5. \A j \in JobsFor(Recipients(alerts[a].room), a) : MeantNext(j)
    BY <2>2, <2>3, <2>4 DEF MeantNext, Meant, Told, At
  <2> QED BY <1>0, <2>1, <2>5, Enqueued, FreshJob DEF JobsFine, NewJob
<1>4. ASSUME NEW c \in BillCall, NotifyBill(c) PROVE JobsFine
  <2>1. Enqueue(JobsFor({BillTenant[c]}, c))
    BY <1>4 DEF NotifyBill
  <2>2. \A j \in JobsFor({BillTenant[c]}, c) : MeantNext(j)
    BY PeopleAssumption DEF JobsFor, MeantNext, Meant
  <2> QED BY <1>0, <2>1, <2>2, Enqueued, FreshJob DEF JobsFine, NewJob
<1>5. ASSUME Crash PROVE JobsFine
  <2>1. \A j \in Job : [jobs[j] EXCEPT !.at = "stalled"] \in JobState
          /\ [jobs[j] EXCEPT !.at = "stalled"].failures = jobs[j].failures
    BY <1>0 DEF JobState
  <2>2. \A j \in Job : jobs'[j] = jobs[j]
          \/ (jobs[j].at \in {"active", "worked"} /\ jobs'[j] = [jobs[j] EXCEPT !.at = "stalled"])
    BY <1>5 DEF Crash, Busy
  <2>3. jobs' \in [Job -> JobState]
    BY <1>0, <1>5, <2>1 DEF Crash
  <2> QED BY <1>0, <2>1, <2>2, <2>3 DEF Good, JobsFine
<1>6. JobsFine
  <2>1. ASSUME NEW s \in Slot, Arrive(s) \/ Step(s) \/ CallFails(s) PROVE jobs' = jobs
    BY <2>1 DEF Arrive, Step, CallFails, DevicesBegin, StatusBegin, ControlBegin, ResolveBegin, Begin,
      DevicesStep, AlertsStep, StatusDevice, StatusLog, StatusUpdate, StatusAlert, StatusEmit,
      ControlDevice, ControlLog, ControlUpdate, ControlEmit, ResolveFind, ResolveRoom, ResolveUpdate,
      delivery
  <2>2. ListStep \/ (\E r \in RoomId : TenantChanges(r)) \/ UNCHANGED vars => jobs' = jobs
    BY ListFrame DEF TenantChanges, delivery, vars
  <2> QED BY <1>1, <1>2, <1>3, <1>4, <1>5, <2>1, <2>2, StepCases DEF JobStep
<1> QED BY <1>6, JobsMeantNext DEF JobsFine

LEMMA JobsInit == Init => JobsOK
BY FreshJob, WorkerAssumption DEF Init, JobsOK, NoJob, Good, NotifiedWitnesses

----------------------------------------------------------------------------
(***************************************************************************)
(* The notifications and the answers that list them.                       *)
(***************************************************************************)
LEMMA FiniteImage ==
  ASSUME NEW S, IsFiniteSet(S), NEW f PROVE IsFiniteSet({f[x] : x \in S})
<1> DEFINE T == {f[x] : x \in S}
<1>1. [x \in S |-> f[x]] \in Surjection(S, T)
  BY DEF Surjection
<1> HIDE DEF T
<1>2. IsFiniteSet(T)
  BY <1>1, FS_Surjection
<1> QED BY <1>2 DEF T

LEMMA ReadNote ==
  ASSUME NEW n \in Note
  PROVE  LET m == [n EXCEPT !.read = TRUE] IN
         m \in Note /\ m.user = n.user /\ m.call = n.call /\ m.copy = n.copy /\ m.read = TRUE
BY DEF Note

LEMMA Copied ==
  ASSUME InboxTypes, NEW j \in Job
  PROVE  /\ IsFiniteSet(Copies(j)) /\ Cardinality(Copies(j)) \in Nat
         /\ [user |-> j.user, call |-> j.call, copy |-> Cardinality(Copies(j)) + 1, read |-> FALSE] \in Note
<1>1. IsFiniteSet(Copies(j)) /\ Cardinality(Copies(j)) \in Nat
  BY FS_Subset, FS_CardinalityType DEF InboxTypes, Copies
<1>2. j.user \in UserId /\ j.call \in Call
  BY DEF Job
<1> QED BY <1>1, <1>2 DEF Note

\* Who touches the notifications.
LEMMA InboxCases ==
  [Next]_vars => \/ UNCHANGED <<pushed, inbox>>
                 \/ \E j \in Job : PushSocket(j) \/ SaveDb(j)
                 \/ \E u \in UserId : MarkAllAsRead(u) \/ \E n \in inbox : MarkAsRead(n, u)
<1> SUFFICES ASSUME [Next]_vars
             PROVE  \/ UNCHANGED <<pushed, inbox>>
                    \/ \E j \in Job : PushSocket(j) \/ SaveDb(j)
                    \/ \E u \in UserId : MarkAllAsRead(u) \/ \E n \in inbox : MarkAsRead(n, u)
  OBVIOUS
<1>1. ASSUME NEW s \in Slot, Arrive(s) \/ Step(s) PROVE UNCHANGED <<pushed, inbox>>
  BY <1>1 DEF Arrive, Step, DevicesBegin, StatusBegin, ControlBegin, ResolveBegin, Begin,
    DevicesStep, AlertsStep, StatusDevice, StatusLog, StatusUpdate, StatusAlert, StatusEmit,
    ControlDevice, ControlLog, ControlUpdate, ControlEmit, ResolveFind, ResolveRoom, ResolveUpdate,
    delivery
<1>2. ASSUME NEW s \in Slot, NotifyAlert(s) \/ CallFails(s) PROVE UNCHANGED <<pushed, inbox>>
  BY <1>2 DEF NotifyAlert, CallFails, delivery
<1>3. ASSUME JobStep, ~(\E j \in Job : PushSocket(j) \/ SaveDb(j)) PROVE UNCHANGED <<pushed, inbox>>
  BY <1>3 DEF JobStep, NotifyBill, Run, Take, Complete, Recover, JobFails
<1>4. ASSUME NEW u \in Reader, OpenList(u) \/ ListQuery(u) \/ CountQuery(u) \/ Shown(u) \/ ListFails(u)
      PROVE  UNCHANGED <<pushed, inbox>>
  BY <1>4 DEF OpenList, ListQuery, CountQuery, Shown, ListFails, others
<1>5. (\E r \in RoomId : TenantChanges(r)) \/ Crash \/ UNCHANGED vars => UNCHANGED <<pushed, inbox>>
  BY DEF TenantChanges, Crash, delivery, vars
<1> QED BY <1>1, <1>2, <1>3, <1>4, <1>5, StepCases DEF ListStep

LEMMA InboxNext == InboxTypes /\ [Next]_vars => InboxTypes'
<1> SUFFICES ASSUME InboxTypes, [Next]_vars PROVE InboxTypes'
  OBVIOUS
<1>1. CASE UNCHANGED <<pushed, inbox>>
  BY <1>1 DEF InboxTypes
<1>2. ASSUME NEW j \in Job, PushSocket(j) PROVE InboxTypes'
  BY <1>2 DEF PushSocket, InboxTypes, Job
<1>3. ASSUME NEW j \in Job, SaveDb(j) PROVE InboxTypes'
  BY <1>3, Copied, FS_AddElement DEF SaveDb, Saved, InboxTypes
<1>4. ASSUME NEW u \in UserId, NEW n \in inbox, MarkAsRead(n, u) PROVE InboxTypes'
  <2>1. IsFiniteSet(inbox \ {n})
    BY FS_RemoveElement DEF InboxTypes
  <2>2. [n EXCEPT !.read = TRUE] \in Note
    BY ReadNote DEF InboxTypes
  <2> QED BY <1>4, <2>1, <2>2, FS_AddElement DEF MarkAsRead, InboxTypes
<1>5. ASSUME NEW u \in UserId, MarkAllAsRead(u) PROVE InboxTypes'
  <2> DEFINE f == [n \in inbox |-> IF n.user = u THEN [n EXCEPT !.read = TRUE] ELSE n]
  <2>1. inbox' = {f[n] : n \in inbox} /\ pushed' = pushed
    BY <1>5 DEF MarkAllAsRead
  <2>2. \A n \in inbox : f[n] \in Note
    BY ReadNote DEF InboxTypes
  <2> HIDE DEF f
  <2> QED BY <2>1, <2>2, FiniteImage DEF InboxTypes
<1> QED BY <1>1, <1>2, <1>3, <1>4, <1>5, InboxCases

\* What a request for a list looks like after each of its steps.
LEMMA LookAs ==
  ASSUME NEW q \in Look
  PROVE  /\ \A t : [q EXCEPT !.todo = t]
                     = [todo |-> t, told |-> q.told, only |-> q.only, list |-> q.list, unread |-> q.unread]
         /\ \A t : [q EXCEPT !.told = t]
                     = [todo |-> q.todo, told |-> t, only |-> q.only, list |-> q.list, unread |-> q.unread]
         /\ \A t : [q EXCEPT !.only = t]
                     = [todo |-> q.todo, told |-> q.told, only |-> t, list |-> q.list, unread |-> q.unread]
         /\ \A t : [q EXCEPT !.list = t]
                     = [todo |-> q.todo, told |-> q.told, only |-> q.only, list |-> t, unread |-> q.unread]
         /\ \A t : [q EXCEPT !.unread = t]
                     = [todo |-> q.todo, told |-> q.told, only |-> q.only, list |-> q.list, unread |-> t]
BY DEF Look

LEMMA OpenFields ==
  ASSUME NEW q \in Look, q = Closed
  PROVE  [q EXCEPT !.todo = {"list", "count"}]
           = [todo |-> {"list", "count"}, told |-> FALSE, only |-> FALSE, list |-> {}, unread |-> 0]
BY LookAs DEF Closed

LEMMA CountFields ==
  ASSUME NEW q \in Look, NEW n \in Nat
  PROVE  LET p == [q EXCEPT !.todo = @ \ {"count"}, !.unread = n]
             t == q.todo \ {"count"} IN
         [p EXCEPT !.told = p.todo = {}]
           = [todo |-> t, told |-> t = {}, only |-> q.only, list |-> q.list, unread |-> n]
<1> DEFINE p1 == [q EXCEPT !.todo = q.todo \ {"count"}]
           p2 == [p1 EXCEPT !.unread = n]
<1>1. p1 = [todo |-> q.todo \ {"count"}, told |-> q.told, only |-> q.only, list |-> q.list,
            unread |-> q.unread]
  BY LookAs
<1>2. p1 \in Look
  BY <1>1 DEF Look
<1> HIDE DEF p1
<1>3. p2 = [todo |-> q.todo \ {"count"}, told |-> q.told, only |-> q.only, list |-> q.list, unread |-> n]
  BY <1>1, <1>2, LookAs
<1>4. p2 \in Look
  BY <1>3 DEF Look
<1> HIDE DEF p2
<1>5. [p2 EXCEPT !.told = p2.todo = {}]
        = [todo |-> q.todo \ {"count"}, told |-> q.todo \ {"count"} = {}, only |-> q.only,
           list |-> q.list, unread |-> n]
  BY <1>3, <1>4, LookAs
<1>6. [q EXCEPT !.todo = @ \ {"count"}, !.unread = n] = p2
  BY DEF p1, p2
<1> QED BY <1>5, <1>6

Reply(q) == [q EXCEPT !.told = q.todo = {}]
Listed(q, only, P) ==
  [todo |-> q.todo \ {"list"}, told |-> q.todo \ {"list"} = {}, only |-> only, list |-> P,
   unread |-> q.unread]

LEMMA ListFields ==
  ASSUME NEW q \in Look, NEW only \in BOOLEAN, NEW P \in SUBSET Note,
         NEW p, p = [q EXCEPT !.todo = @ \ {"list"}, !.only = only, !.list = P]
  PROVE  Reply(p) = Listed(q, only, P)
<1> DEFINE p1 == [q EXCEPT !.todo = q.todo \ {"list"}]
           p2 == [p1 EXCEPT !.only = only]
           p3 == [p2 EXCEPT !.list = P]
<1>1. p1 = [todo |-> q.todo \ {"list"}, told |-> q.told, only |-> q.only, list |-> q.list,
            unread |-> q.unread]
  BY LookAs
<1>2. p1 \in Look
  BY <1>1 DEF Look
<1> HIDE DEF p1
<1>3. p2 = [todo |-> q.todo \ {"list"}, told |-> q.told, only |-> only, list |-> q.list, unread |-> q.unread]
  BY <1>1, <1>2, LookAs
<1>4. p2 \in Look
  BY <1>3 DEF Look
<1> HIDE DEF p2
<1>5. p3 = [todo |-> q.todo \ {"list"}, told |-> q.told, only |-> only, list |-> P, unread |-> q.unread]
  BY <1>3, <1>4, LookAs
<1>6. p3 \in Look
  BY <1>5 DEF Look
<1> HIDE DEF p3
<1>7. [p3 EXCEPT !.told = p3.todo = {}]
        = [todo |-> q.todo \ {"list"}, told |-> q.todo \ {"list"} = {}, only |-> only,
           list |-> P, unread |-> q.unread]
  BY <1>5, <1>6, LookAs
<1>8. [q EXCEPT !.todo = @ \ {"list"}, !.only = only, !.list = P] = p3
  BY DEF p1, p2, p3
<1> QED BY <1>7, <1>8 DEF Reply, Listed

\* The request of u is now q, with these notifications at its start.
Becoming(u, q, s0) == look' = [look EXCEPT ![u] = q] /\ start' = [start EXCEPT ![u] = s0]

LEMMA Looked ==
  ASSUME LooksOK, NEW u \in Reader
  PROVE  /\ OpenList(u) =>
              Becoming(u, [todo |-> {"list", "count"}, told |-> FALSE, only |-> FALSE, list |-> {},
                           unread |-> 0], Mine(u))
         /\ ListQuery(u) =>
              \E only \in BOOLEAN : \E P \in SUBSET Mine(u) :
                LET N == IF only THEN Unread(u) ELSE Mine(u) IN
                /\ P \subseteq N /\ NewestFirst(N, P) /\ FillsPage(N, P) /\ "list" \in look[u].todo
                /\ P \in SUBSET Note => Becoming(u, Listed(look[u], only, P), start[u])
         /\ CountQuery(u) =>
              LET t == look[u].todo \ {"count"} IN
              /\ "count" \in look[u].todo
              /\ Cardinality(Unread(u)) \in Nat =>
                   Becoming(u, [todo |-> t, told |-> t = {}, only |-> look[u].only,
                                list |-> look[u].list, unread |-> Cardinality(Unread(u))], start[u])
         /\ Shown(u) \/ ListFails(u) => Becoming(u, Closed, {})
<1> DEFINE q == look[u]
<1>1. q \in Look /\ start = [start EXCEPT ![u] = start[u]]
  BY DEF LooksOK
<1>2. OpenList(u) =>
        Becoming(u, [todo |-> {"list", "count"}, told |-> FALSE, only |-> FALSE, list |-> {},
                     unread |-> 0], Mine(u))
  BY <1>1, OpenFields DEF OpenList, Becoming
<1>3. ASSUME ListQuery(u)
      PROVE  \E only \in BOOLEAN : \E P \in SUBSET Mine(u) :
               LET N == IF only THEN Unread(u) ELSE Mine(u) IN
               /\ P \subseteq N /\ NewestFirst(N, P) /\ FillsPage(N, P) /\ "list" \in look[u].todo
               /\ P \in SUBSET Note => Becoming(u, Listed(look[u], only, P), start[u])
  <2>0. PICK only \in BOOLEAN : \E P \in SUBSET Mine(u) :
          LET N == IF only THEN Unread(u) ELSE Mine(u) IN
          /\ P \subseteq N /\ NewestFirst(N, P) /\ FillsPage(N, P)
          /\ Brought(u, [look[u] EXCEPT !.todo = @ \ {"list"}, !.only = only, !.list = P])
    BY <1>3, Zenon DEF ListQuery
  <2>1. PICK P \in SUBSET Mine(u) :
          LET N == IF only THEN Unread(u) ELSE Mine(u) IN
          /\ P \subseteq N /\ NewestFirst(N, P) /\ FillsPage(N, P)
          /\ Brought(u, [look[u] EXCEPT !.todo = @ \ {"list"}, !.only = only, !.list = P])
    BY <2>0
  <2>2. "list" \in look[u].todo /\ start' = start
    BY <1>3 DEF ListQuery
  <2>3. ASSUME P \in SUBSET Note
        PROVE  Becoming(u, Listed(look[u], only, P), start[u])
    <3> DEFINE p == [look[u] EXCEPT !.todo = @ \ {"list"}, !.only = only, !.list = P]
    <3>1. look[u] \in Look /\ only \in BOOLEAN /\ P \in SUBSET Note
      BY <1>1, <2>3
    <3>2. p = [look[u] EXCEPT !.todo = @ \ {"list"}, !.only = only, !.list = P]
      OBVIOUS
    <3>3. look' = [look EXCEPT ![u] = Reply(p)]
      BY <2>1 DEF Brought, Reply
    <3> HIDE DEF p
    <3>4. Reply(p) = Listed(look[u], only, P)
      BY ONLY <3>1, <3>2, ListFields
    <3> QED BY <1>1, <2>2, <3>3, <3>4 DEF Becoming
  <2> QED BY <2>1, <2>2, <2>3
<1>4. ASSUME CountQuery(u)
      PROVE  LET t == look[u].todo \ {"count"} IN
             /\ "count" \in look[u].todo
             /\ Cardinality(Unread(u)) \in Nat =>
                  Becoming(u, [todo |-> t, told |-> t = {}, only |-> look[u].only,
                               list |-> look[u].list, unread |-> Cardinality(Unread(u))], start[u])
  <2>1. /\ Brought(u, [look[u] EXCEPT !.todo = @ \ {"count"}, !.unread = Cardinality(Unread(u))])
        /\ "count" \in look[u].todo /\ start' = start
    BY <1>4 DEF CountQuery
  <2> QED BY <1>1, <2>1, CountFields DEF Brought, Becoming
<1>5. Shown(u) \/ ListFails(u) => Becoming(u, Closed, {})
  BY DEF Shown, ListFails, Becoming
<1> QED BY <1>2, <1>3, <1>4, <1>5

\* Who touches the answers.
LEMMA LookCases ==
  [Next]_vars => \/ UNCHANGED reading
                 \/ Crash
                 \/ \E u \in Reader : OpenList(u) \/ ListQuery(u) \/ CountQuery(u) \/ Shown(u) \/ ListFails(u)
<1> SUFFICES ASSUME [Next]_vars
             PROVE  \/ UNCHANGED reading
                    \/ Crash
                    \/ \E u \in Reader : OpenList(u) \/ ListQuery(u) \/ CountQuery(u) \/ Shown(u) \/ ListFails(u)
  OBVIOUS
<1>1. ASSUME NEW s \in Slot, Arrive(s) \/ Step(s) PROVE UNCHANGED reading
  BY <1>1 DEF Arrive, Step, DevicesBegin, StatusBegin, ControlBegin, ResolveBegin, Begin,
    DevicesStep, AlertsStep, StatusDevice, StatusLog, StatusUpdate, StatusAlert, StatusEmit,
    ControlDevice, ControlLog, ControlUpdate, ControlEmit, ResolveFind, ResolveRoom, ResolveUpdate,
    delivery
<1>2. ASSUME NEW s \in Slot, NotifyAlert(s) \/ CallFails(s) PROVE UNCHANGED reading
  BY <1>2 DEF NotifyAlert, CallFails, delivery
<1>3. JobStep => UNCHANGED reading
  BY JobFrame
<1>4. ASSUME NEW u \in UserId, MarkAllAsRead(u) \/ \E n \in inbox : MarkAsRead(n, u)
      PROVE  UNCHANGED reading
  BY <1>4 DEF MarkAllAsRead, MarkAsRead
<1>5. (\E r \in RoomId : TenantChanges(r)) \/ UNCHANGED vars => UNCHANGED reading
  BY DEF TenantChanges, delivery, vars, reading
<1> QED BY <1>1, <1>2, <1>3, <1>4, <1>5, StepCases DEF ListStep

\* u's request changes to one of the right shape.
LEMMA LookSet ==
  ASSUME LooksOK, NEW u \in Reader, NEW q \in Look, NEW s0 \in SUBSET Note, Becoming(u, q, s0),
         Cardinality(q.list) <= Page, \A n \in q.list \cup s0 : n.user = u
  PROVE  LooksOK'
<1>1. look' \in [Reader -> Look] /\ start' \in [Reader -> SUBSET Note]
  BY DEF LooksOK, Becoming
<1>2. look'[u] = q /\ start'[u] = s0
  BY DEF LooksOK, Becoming
<1>3. \A v \in Reader : v # u => look'[v] = look[v] /\ start'[v] = start[v]
  BY DEF LooksOK, Becoming
<1> QED BY <1>1, <1>2, <1>3 DEF LooksOK

LEMMA ClosedFits == Closed \in Look /\ Closed.list = {} /\ Cardinality(Closed.list) <= Page
BY FS_EmptySet, WorkerAssumption DEF Closed, Look

LEMMA LooksNext == InboxTypes /\ LooksOK /\ [Next]_vars => LooksOK'
<1> SUFFICES ASSUME InboxTypes, LooksOK, [Next]_vars PROVE LooksOK'
  OBVIOUS
<1>1. CASE UNCHANGED reading
  BY <1>1 DEF LooksOK, reading
<1>2. CASE Crash
  BY <1>2, ClosedFits DEF Crash, LooksOK
<1>3. ASSUME NEW u \in Reader, OpenList(u) \/ ListQuery(u) \/ CountQuery(u) \/ Shown(u) \/ ListFails(u)
      PROVE  LooksOK'
  <2>1. /\ look[u] \in Look /\ start[u] \in SUBSET Note /\ Mine(u) \in SUBSET Note
        /\ Cardinality(look[u].list) <= Page
        /\ \A n \in look[u].list \cup start[u] \cup Mine(u) : n.user = u
    BY DEF LooksOK, InboxTypes, Mine
  <2>2. IsFiniteSet(Mine(u)) /\ IsFiniteSet(Unread(u)) /\ Cardinality(Unread(u)) \in Nat
    BY FS_Subset, FS_CardinalityType DEF InboxTypes, Mine, Unread
  <2>3. CASE OpenList(u)
    <3> DEFINE q == [todo |-> {"list", "count"}, told |-> FALSE, only |-> FALSE, list |-> {}, unread |-> 0]
    <3>1. q \in Look /\ q.list = {} /\ Cardinality(q.list) <= Page
      BY FS_EmptySet, WorkerAssumption DEF Look
    <3>2. Becoming(u, q, Mine(u))
      BY <2>3, Looked
    <3> HIDE DEF q
    <3> QED BY <2>1, <3>1, <3>2, LookSet
  <2>4. CASE ListQuery(u)
    <3>1. PICK only \in BOOLEAN : \E P \in SUBSET Mine(u) :
            LET N == IF only THEN Unread(u) ELSE Mine(u) IN
            /\ FillsPage(N, P)
            /\ P \in SUBSET Note => Becoming(u, Listed(look[u], only, P), start[u])
      BY <2>4, Looked
    <3>2. PICK P \in SUBSET Mine(u) :
            LET N == IF only THEN Unread(u) ELSE Mine(u) IN
            /\ FillsPage(N, P)
            /\ P \in SUBSET Note => Becoming(u, Listed(look[u], only, P), start[u])
      BY <3>1
    <3> DEFINE q == Listed(look[u], only, P)
    <3>3. q \in Look /\ q.list = P
      BY <2>1 DEF Look, Listed
    <3>4. Cardinality(P) <= Page
      BY <2>2, <3>2, FS_CardinalityType, WorkerAssumption DEF FillsPage
    <3> HIDE DEF q
    <3> QED BY <2>1, <3>2, <3>3, <3>4, LookSet DEF q
  <2>5. CASE CountQuery(u)
    <3> DEFINE t == look[u].todo \ {"count"}
               q == [todo |-> t, told |-> t = {}, only |-> look[u].only,
                     list |-> look[u].list, unread |-> Cardinality(Unread(u))]
    <3>1. q \in Look /\ q.list = look[u].list
      BY <2>1, <2>2 DEF Look
    <3>2. Becoming(u, q, start[u])
      BY <2>2, <2>5, Looked
    <3> HIDE DEF q
    <3> QED BY <2>1, <3>1, <3>2, LookSet
  <2>6. CASE Shown(u) \/ ListFails(u)
    <3>1. Becoming(u, Closed, {})
      BY <2>6, Looked
    <3> QED BY <3>1, ClosedFits, LookSet
  <2> QED BY <1>3, <2>3, <2>4, <2>5, <2>6
<1> QED BY <1>1, <1>2, <1>3, LookCases

LEMMA MonitoringInit == Init => IMonitoring
<1> SUFFICES ASSUME Init PROVE IMonitoring
  OBVIOUS
<1>1. InboxTypes
  BY FS_EmptySet DEF Init, InboxTypes
<1>2. LooksOK
  BY ClosedFits DEF Init, LooksOK
<1> QED BY <1>1, <1>2, PlatformInit, JobsInit DEF IMonitoring

LEMMA MonitoringNext == IMonitoring /\ [Next]_vars => IMonitoring'
BY PlatformNext, JobsNext, InboxNext, LooksNext DEF IMonitoring

LEMMA MonitoringInduction == Spec => []IMonitoring
BY MonitoringInit, MonitoringNext, PTL DEF Spec

----------------------------------------------------------------------------
\* Every device, log, alert, job, notification, answer and request in flight
\* has its shape, and no answer lists more than a page.
THEOREM TypeCorrect == Spec => []TypeOK
<1>1. IMonitoring => TypeOK
  BY DEF IMonitoring, IPlatform, PlatformTypes, JobsOK, InboxTypes, LooksOK, Look, TypeOK
<1> QED BY <1>1, MonitoringInduction, PTL

\* A state the dashboard shows, and an alert, stem from a logged request of that
\* device, whatever failed or crashed since.
THEOREM AuditCorrect == Spec => []AuditTrail
<1>1. IPlatform => AuditTrail
  BY DEF IPlatform
<1> QED BY <1>1, PlatformInduction, PTL

\* No alert is emitted, and no notification of it queued, before it is stored.
THEOREM OrderCorrect == Spec => []NothingBeforeTheAlert
<1>1. IMonitoring => NothingBeforeTheAlert
  BY DEF IMonitoring, IPlatform, NotifyingOK, JobsOK, NothingBeforeTheAlert
<1> QED BY <1>1, MonitoringInduction, PTL

\* A broadcast command fits its device, though that was checked two calls before.
THEOREM CommandsCorrect == Spec => []CommandsFit
<1>1. IPlatform => CommandsFit
  BY DEF IPlatform
<1> QED BY <1>1, PlatformInduction, PTL

\* An alert's jobs are for the owner of the room and for who lived there between
\* the alert and notifyAlert's query; a bill's for the tenant it bills.
THEOREM RecipientsCorrect == Spec => []NotifiedWitnesses
<1>1. IMonitoring => NotifiedWitnesses
  BY DEF IMonitoring, JobsOK
<1> QED BY <1>1, MonitoringInduction, PTL

\* A stored alert only ever changes by the update of a resolve request whose
\* caller was vetted two calls before: an admin, or the owner of its room.
THEOREM ResolversCorrect == Spec => AlertsResolvedByManagers
<1> DEFINE Resolves(a) ==
      /\ alerts'[a] = [alerts[a] EXCEPT !.resolved = TRUE]
      /\ \E s \in Slot : /\ req'[s] # req[s] /\ req[s].alert = a
                         /\ req[s].caller \in Admins \cup {OwnerOf[alerts[a].room]}
<1>1. ASSUME IPlatform, [Next]_vars, NEW a \in Slot, alerts[a] # None, alerts'[a] # alerts[a]
      PROVE  Resolves(a)
  <2>1. PICK s \in Slot : StatusAlert(s) \/ ResolveUpdate(s)
    <3>1. ASSUME NEW s \in Slot, Arrive(s) PROVE alerts' = alerts
      BY <3>1 DEF Arrive, DevicesBegin, StatusBegin, ControlBegin, ResolveBegin, Begin, platform
    <3>2. ASSUME NEW s \in Slot, Step(s), ~(StatusAlert(s) \/ ResolveUpdate(s)) PROVE alerts' = alerts
      BY <3>2 DEF Step, DevicesStep, AlertsStep, StatusDevice, StatusLog, StatusUpdate, StatusEmit,
        ControlDevice, ControlLog, ControlUpdate, ControlEmit, ResolveFind, ResolveRoom, platform
    <3>3. ASSUME NEW s \in Slot, NotifyAlert(s) \/ CallFails(s) PROVE alerts' = alerts
      BY <3>3 DEF NotifyAlert, CallFails, platform
    <3>4. JobStep \/ ListStep \/ (\E r \in RoomId : TenantChanges(r)) \/ Crash \/ UNCHANGED vars
            => alerts' = alerts
      BY JobFrame, ListFrame DEF TenantChanges, Crash, platform, vars
    <3> QED BY <1>1, <3>1, <3>2, <3>3, <3>4, StepCases
  <2>2. CASE StatusAlert(s)
    <3>1. alerts[s] = None
      BY <1>1, <2>2 DEF IPlatform, AllReady, Ready, StatusAlert, At
    <3> QED BY <1>1, <2>2, <3>1 DEF StatusAlert, IPlatform, PlatformTypes
  <2>3. CASE ResolveUpdate(s)
    <3>1. req[s].caller \in Admins \cup {OwnerOf[alerts[req[s].alert].room]}
      BY <1>1, <2>3 DEF IPlatform, AllReady, Ready, ResolveUpdate, At
    <3>2. req[s].alert = a /\ alerts'[a] = [alerts[a] EXCEPT !.resolved = TRUE]
      BY <1>1, <2>3 DEF ResolveUpdate, IPlatform, PlatformTypes
    <3>3. req'[s] # req[s]
      <4>1. Moves(s, "done") /\ req[s].pc = "update"
        BY <1>1, <2>3, GotoMoves DEF ResolveUpdate, At, IPlatform, PlatformTypes, Pc
      <4> QED BY <4>1 DEF Moves
    <3> QED BY <3>1, <3>2, <3>3
  <2> QED BY <2>1, <2>2, <2>3
<1>2. IPlatform /\ [Next]_vars =>
        [\A a \in Slot : alerts[a] # None /\ alerts'[a] # alerts[a] => Resolves(a)]_vars
  BY <1>1
<1> QED BY <1>2, PlatformInduction, PTL DEF Spec, AlertsResolvedByManagers
=============================================================================
