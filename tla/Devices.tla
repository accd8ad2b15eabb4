------------------------------ MODULE Devices ------------------------------
(***************************************************************************)
(* DevicesService: handleStatusUpdate and controlDevice.  Timestamps are   *)
(* left out: they decide no branch.                                        *)
(***************************************************************************)
EXTENDS Telemetry

\* A report of the gateway script: an API key, no user.
StatusBegin(s) ==
  \E d \in DeviceId, v \in Report :
    Begin(s, [Fresh EXCEPT !.op = "status", !.pc = "device", !.device = d, !.value = v])

StatusDevice(s) ==
  /\ At(s, "status", "device")
  /\ Goto(s, IF req[s].device \in Registered THEN "log" ELSE "done")
  /\ UNCHANGED <<platform, tenant, notifying, witnesses, delivery>>

\* Mutant: only alarming values are logged.
LogOfAlarm(q) ==
  IF q.value = "NORMAL" THEN None ELSE [device |-> q.device, value |-> q.value, user |-> q.caller]

\* The audit trail comes first; a report has no user.
LogOf(q) == [device |-> q.device, value |-> q.value, user |-> q.caller]

StatusLog(s) ==
  /\ At(s, "status", "log")
  /\ logs' = [logs EXCEPT ![s] = LogOf(req[s])]
  /\ Goto(s, "update")
  /\ UNCHANGED <<devices, alerts, shown, commands, tenant, notifying, witnesses, delivery>>

\* The values that raise an alert, and the alert they raise.
Alarm ==
  [FIRE          |-> [type |-> "fire", severity |-> "critical"],
   PASSWORD_FAIL |-> [type |-> "security", severity |-> "warning"],
   MOTION_ON     |-> [type |-> "security", severity |-> "info"]]

\* Mutants: the update is not awaited and lands at any later time; a report
\* that repeats the state raises no second alert.
StatusUpdateUnawaited(s) ==
  LET q == req[s] IN
  /\ q.op = "status"
  /\ \/ /\ q.pc = "update"
        /\ Goto(s, IF q.value \in DOMAIN Alarm THEN "alert" ELSE "emit")
        /\ UNCHANGED devices
     \/ /\ q.pc \in {"alert", "emit", "done"} /\ q.device \in Registered
        /\ devices' = [devices EXCEPT ![q.device] = [state |-> q.value, online |-> TRUE]]
        /\ UNCHANGED req
  /\ UNCHANGED <<logs, alerts, shown, commands, tenant, notifying, witnesses, delivery>>
StatusUpdateDebounced(s) ==
  LET q == req[s] IN
  /\ At(s, "status", "update")
  /\ devices' = [devices EXCEPT ![q.device] = [state |-> q.value, online |-> TRUE]]
  /\ Goto(s, IF q.value \in DOMAIN Alarm /\ devices[q.device].state # q.value
             THEN "alert" ELSE "emit")
  /\ UNCHANGED <<logs, alerts, shown, commands, tenant, notifying, witnesses, delivery>>

StatusUpdate(s) ==
  LET q == req[s] IN
  /\ At(s, "status", "update")
  /\ devices' = [devices EXCEPT ![q.device] = [state |-> q.value, online |-> TRUE]]
  /\ Goto(s, IF q.value \in DOMAIN Alarm THEN "alert" ELSE "emit")
  /\ UNCHANGED <<logs, alerts, shown, commands, tenant, notifying, witnesses, delivery>>

StatusAlert(s) ==
  LET d == req[s].device IN
  /\ At(s, "status", "alert")
  /\ alerts' = [alerts EXCEPT ![s] =
       [device |-> d, room |-> RoomOf[d], type |-> Alarm[req[s].value].type,
        severity |-> Alarm[req[s].value].severity, resolved |-> FALSE]]
  /\ witnesses' = [witnesses EXCEPT ![s] = {tenant[RoomOf[d]]} \ {None}]
  /\ Goto(s, "emit")
  /\ UNCHANGED <<devices, logs, shown, commands, tenant, notifying, delivery>>

\* Mutant: the dashboard is told while the alert is still being stored.
StatusEmitEarly(s) ==
  /\ req[s].op = "status" /\ req[s].pc \in {"alert", "emit"}
  /\ shown' = shown \cup {s}
  /\ IF req[s].pc = "emit"
     THEN Goto(s, "done") /\ notifying' = notifying \cup ({s} \cap {a \in Slot : alerts[a] # None})
     ELSE UNCHANGED <<req, notifying>>
  /\ UNCHANGED <<devices, logs, alerts, commands, tenant, witnesses, delivery>>

\* In one go after the last await: emitAlert, the call of notifyAlert up to
\* its first query, emitDeviceUpdate and the answer.
StatusEmit(s) ==
  LET raised == {s} \cap {a \in Slot : alerts[a] # None} IN
  /\ At(s, "status", "emit")
  /\ shown' = shown \cup raised
  /\ notifying' = notifying \cup raised
  /\ Goto(s, "done")
  /\ UNCHANGED <<devices, logs, alerts, commands, tenant, witnesses, delivery>>

----------------------------------------------------------------------------
ControlBegin(s) ==
  \E u \in UserId, d \in DeviceId, c \in Command :
    Begin(s, [Fresh EXCEPT !.op = "control", !.pc = "device", !.caller = u,
                           !.device = d, !.value = c])

\* Mutant: the status of the device is not looked at.
AcceptsOffline(d, c) ==
  /\ c \in {"UNLOCK", "LOCK"} => TypeOf[d] = "lock"
  /\ c \in {"LIGHT_ON", "LIGHT_OFF"} => TypeOf[d] = "light"

\* An online device of the type the command is for.
Accepts(d, c) ==
  /\ devices[d].online
  /\ c \in {"UNLOCK", "LOCK"} => TypeOf[d] = "lock"
  /\ c \in {"LIGHT_ON", "LIGHT_OFF"} => TypeOf[d] = "light"

ControlDevice(s) ==
  LET q == req[s] IN
  /\ At(s, "control", "device")
  /\ Goto(s, IF q.device \in Registered /\ Accepts(q.device, q.value) THEN "log" ELSE "done")
  /\ UNCHANGED <<platform, tenant, notifying, witnesses, delivery>>

ControlLog(s) ==
  /\ At(s, "control", "log")
  /\ logs' = [logs EXCEPT ![s] = LogOf(req[s])]
  /\ Goto(s, "update")
  /\ UNCHANGED <<devices, alerts, shown, commands, tenant, notifying, witnesses, delivery>>

\* Mutant: the command itself is stored, not the state it leads to.
NewStateRaw(c) == c

NewState(c) ==
  CASE c = "UNLOCK" -> "UNLOCKED" [] c = "LOCK" -> "LOCKED"
    [] c = "LIGHT_ON" -> "ON" [] OTHER -> "OFF"

\* Mutant: the update is not awaited and lands at any later time.
ControlUpdateUnawaited(s) ==
  LET q == req[s] IN
  /\ q.op = "control"
  /\ \/ q.pc = "update" /\ Goto(s, "emit") /\ UNCHANGED devices
     \/ /\ q.pc \in {"emit", "done"} /\ logs[s] # None
        /\ devices' = [devices EXCEPT ![q.device].state = NewState(q.value)]
        /\ UNCHANGED req
  /\ UNCHANGED <<logs, alerts, shown, commands, tenant, notifying, witnesses, delivery>>

\* The state is assumed before the device has confirmed it.
ControlUpdate(s) ==
  /\ At(s, "control", "update")
  /\ devices' = [devices EXCEPT ![req[s].device].state = NewState(req[s].value)]
  /\ Goto(s, "emit")
  /\ UNCHANGED <<logs, alerts, shown, commands, tenant, notifying, witnesses, delivery>>

ControlEmit(s) ==
  /\ At(s, "control", "emit")
  /\ commands' = commands \cup {<<req[s].device, req[s].value>>}
  /\ Goto(s, "done")
  /\ UNCHANGED <<devices, logs, alerts, shown, tenant, notifying, witnesses, delivery>>

----------------------------------------------------------------------------
DevicesBegin(s) == StatusBegin(s) \/ ControlBegin(s)
DevicesStep(s) ==
  \/ StatusDevice(s) \/ StatusLog(s) \/ StatusUpdate(s) \/ StatusAlert(s) \/ StatusEmit(s)
  \/ ControlDevice(s) \/ ControlLog(s) \/ ControlUpdate(s) \/ ControlEmit(s)
=============================================================================
