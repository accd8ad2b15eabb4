---------------------------- MODULE BridgeProofs ----------------------------
(***************************************************************************)
(* Theorems about Bridge: what reaches dashboards and serial lines, for    *)
(* any number of scripts, dashboards, devices and requests, whatever       *)
(* overtakes what, whichever sockets and lines go down, whichever calls    *)
(* fail and whenever the process dies.                                     *)
(***************************************************************************)
EXTENDS MonitoringProofs, Bridge, SequenceTheorems

\* A slot is free, or carries a post, or serves an order or the post it carried.
Carried(s) ==
  LET q == req[s] IN
  /\ q.pc = "new" => q = Fresh
  /\ post[s] = None => q.op \in {"none", "control"}
  /\ post[s] # None => post[s].at = "taken" \/ q.pc = "new"
  /\ post[s] # None /\ post[s].at = "taken" =>
       q.op = "status" /\ q.device = post[s].device /\ q.value = post[s].value

\* Sockets up since a request about a device began are up for that device, the
\* requests that were answered then are answered, and one cut off is over.
HistoryOK ==
  \A s \in Slot :
    /\ s \in cut => req[s].pc = "done"
    /\ before[s] \subseteq {x \in Slot : req[x].pc = "done"}
    /\ \A k \in steady[s] : \E d \in Registered : s \in About(d)
    /\ \A d \in Registered : s \in About(d) => \A k \in steady[s] : Up(k, d)

----------------------------------------------------------------------------
\* The last of a sequence's elements that are in R is in V; none is in R.
LastIn(w, R, V) ==
  \E i \in DOMAIN w : w[i] \in R \cap V /\ \A j \in DOMAIN w : j > i => w[j] \notin R
NoneIn(w, R) == \A i \in DOMAIN w : w[i] \notin R

\* Commands on the way to a script, and those it wrote, are of answered requests.
Unanswered == {x \in Slot : req[x].pc # "done"}
Premature == {e \in Event : e.kind = "command" /\ e.slot \in Unanswered}
CommandsDone ==
  /\ \A k \in Socket : NoneIn(wire[k], Premature)
  /\ \A g \in Script : NoneIn(written[g], Unanswered)

\* Who has been up since a report is told of its alert, or will be.
AlertEvent(s) == [kind |-> "alert", slot |-> s]
AlertComes ==
  \A s \in Slot, c \in Client :
    At(s, "status", "done") /\ alerts[s] # None /\ s \notin cut /\ c \in steady[s] =>
      s \in heard[c] \/ ~NoneIn(wire[c], {AlertEvent(s)})

\* What changes the state a dashboard shows for device d, and what leaves it right.
Telling(d) ==
  {e \in Event : \/ e.kind = "update" /\ e.device = d
                 \/ e.kind = "joined" /\ e.room = RoomOf[d]}
Truth(d, state) == {e \in Event : e.kind = "update" => e.state = state}

\* The requests about d came one after another: each was answered before the
\* next.  One came through when it emitted; one that has written, or may have
\* before it was cut off, leaves dashboards behind until a later one comes
\* through.  Else dashboard c shows the state, or will when its socket has delivered.
Sequential(d) == \A s, x \in About(d) : s = x \/ s \in before[x] \/ x \in before[s]
Through(x) == req[x].pc = "done" /\ logs[x] # None /\ x \notin cut
Silent(s) == req[s].pc \in {"alert", "emit"} \/ (s \in cut /\ logs[s] # None)
Updating(d) ==
  \E s \in About(d) : Silent(s) /\ \A x \in About(d) : s \in before[x] => ~Through(x)
Shows(c, d) ==
  \/ LastIn(wire[c], Telling(d), Truth(d, devices[d].state))
  \/ NoneIn(wire[c], Telling(d)) /\ told[c][d] \in {None, devices[d].state}
ScreensCatchUp ==
  \A c \in Client, d \in Registered :
    <<c, RoomOf[d]>> \in joined /\ Sequential(d) /\ ~Updating(d) => Shows(c, d)

\* All other requests about d were answered when s began.
Latest(d, s) == s \in About(d) /\ About(d) \ {s} \subseteq before[s]
Updated(s) == req[s].pc \in {"alert", "emit"} \/ Through(s)
StateOf(q) == IF q.op = "control" THEN NewState(q.value) ELSE q.value
LatestShown ==
  \A d \in Registered, s \in Slot : Latest(d, s) /\ Updated(s) => devices[d].state = StateOf(req[s])

\* The last command about d under way to script g, or the last one written when
\* none is, is that of s.
CommandEvent(s) == [kind |-> "command", slot |-> s]
Commanding(d) == {e \in Event : e.kind = "command" /\ req[e.slot].device = d}
Served(d) == {x \in Slot : req[x].device = d}
Ordered(g, d, s) ==
  \/ LastIn(wire[g], Commanding(d), {CommandEvent(s)})
  \/ NoneIn(wire[g], Commanding(d)) /\ LastIn(written[g], Served(d), {s})
DoorsCatchUp ==
  \A d \in Registered, s \in Slot :
    Latest(d, s) /\ At(s, "control", "done") /\ Through(s) /\ Behind[d] \in steady[s]
      => Ordered(Behind[d], d, s)

IBridge ==
  /\ IPlatform /\ BridgeTypeOK
  /\ \A s \in Slot : Carried(s)
  /\ HistoryOK /\ CommandsDone
  /\ AlertComes /\ LatestShown /\ ScreensCatchUp /\ DoorsCatchUp

----------------------------------------------------------------------------
(***************************************************************************)
(* Every step of the bridge is a step of Monitoring or leaves it alone.    *)
(***************************************************************************)
LEMMA StepsOfMonitoring == [BridgeNext]_allVars => [Next]_vars
BY DEF BridgeNext, ReadLine, Arrives, PostLost, Order, Handle, Emit, Notify, Work, Open, Unplug,
   NextMinute, Connect, Disconnect, Hear, Join, Leave, Fails, Restart, Next, Arrive, Step,
   DevicesBegin, DevicesStep, allVars

\* All theorems about Monitoring hold of the bridge.
THEOREM BridgeImplementsMonitoring == BridgeSpec => Spec
<1>1. BridgeInit => Init
  BY DEF BridgeInit
<1> QED BY <1>1, StepsOfMonitoring, PTL DEF BridgeSpec, Spec
----------------------------------------------------------------------------
(***************************************************************************)
(* What a step does to the requests.                                       *)
(***************************************************************************)
IBase == IPlatform /\ BridgeTypeOK /\ \A s \in Slot : Carried(s)

\* A free slot is about nothing, and its request has not begun.
LEMMA FreeIsFree ==
  ASSUME IBase, NEW s \in Slot, req[s].pc = "new"
  PROVE  /\ req[s] = Fresh /\ req[s].device = None /\ req[s].op = "none"
         /\ \A d \in Registered : d # None
BY PlacesAssumption, PeopleAssumption DEF IBase, Carried, Fresh

LEMMA BusyHasOp ==
  ASSUME IBase, NEW s \in Slot
  PROVE  /\ req[s].op \in {"none", "status", "control"} /\ (req[s].op = "none" <=> req[s].pc = "new")
         /\ req[s].op = "control" => post[s] = None
         /\ req[s].op = "status" => post[s] # None /\ post[s].at = "taken" /\ post[s].device = req[s].device
<1>1. Shape(req[s])
  BY DEF IBase, IPlatform, AllReady, Ready
<1> QED BY <1>1 DEF IBase, Carried, Shape, Fresh

LEMMA HandlersGo ==
  ASSUME IBase, NEW s \in Slot, Step(s)
  PROVE  /\ req[s].pc \notin {"new", "done"} /\ DevicesStep(s)
         /\ \E pc \in Pc \ {"new", "device"} : Moves(s, pc)
<1>1. DevicesStep(s)
  BY BusyHasOp DEF Step, AlertsStep, ResolveFind, ResolveRoom, ResolveUpdate, At
<1>2. req \in [Slot -> Request]
  BY DEF IBase, IPlatform, PlatformTypes
<1>3. \E pc \in Pc \ {"new", "device"} : Goto(s, pc)
  BY <1>1 DEF DevicesStep, StatusDevice, StatusLog, StatusUpdate, StatusAlert, StatusEmit, ControlDevice,
     ControlLog, ControlUpdate, ControlEmit, Pc
<1>4. req[s].pc \notin {"new", "done"}
  BY <1>1 DEF DevicesStep, StatusDevice, StatusLog, StatusUpdate, StatusAlert, StatusEmit, ControlDevice,
     ControlLog, ControlUpdate, ControlEmit, At
<1> QED BY <1>1, <1>2, <1>3, <1>4, GotoMoves

\* A post that arrives: the handler begins with what the line says.
LEMMA Begun ==
  ASSUME IBase, NEW s \in Slot
  PROVE  /\ StatusBegin(s) => /\ req[s].pc = "new" /\ req'[s].op = "status" /\ req'[s].pc = "device"
                              /\ \A t \in Slot : t # s => req'[t] = req[t]
         /\ ControlBegin(s) => /\ req[s].pc = "new" /\ req'[s].op = "control" /\ req'[s].pc = "device"
                               /\ \A t \in Slot : t # s => req'[t] = req[t]
<1>1. req \in [Slot -> Request]
  BY DEF IBase, IPlatform, PlatformTypes
<1>2. ASSUME StatusBegin(s)
      PROVE  /\ req[s].pc = "new" /\ req'[s].op = "status" /\ req'[s].pc = "device"
             /\ \A t \in Slot : t # s => req'[t] = req[t]
  <2>1. PICK d \in DeviceId : \E v \in Report :
          Begin(s, [Fresh EXCEPT !.op = "status", !.pc = "device", !.device = d, !.value = v])
    BY <1>2 DEF StatusBegin
  <2>2. PICK v \in Report :
          Begin(s, [Fresh EXCEPT !.op = "status", !.pc = "device", !.device = d, !.value = v])
    BY <2>1
  <2> DEFINE q == [Fresh EXCEPT !.op = "status", !.pc = "device", !.device = d, !.value = v]
  <2>3. q.op = "status" /\ q.pc = "device"
    BY DEF Fresh
  <2>4. Begin(s, q)
    BY <2>2
  <2> HIDE DEF q
  <2> QED BY <1>1, <2>3, <2>4 DEF Begin
<1>3. ASSUME ControlBegin(s)
      PROVE  /\ req[s].pc = "new" /\ req'[s].op = "control" /\ req'[s].pc = "device"
             /\ \A t \in Slot : t # s => req'[t] = req[t]
  <2>1. PICK u \in UserId, d \in DeviceId : \E c \in Command :
          Begin(s, [Fresh EXCEPT !.op = "control", !.pc = "device", !.caller = u, !.device = d, !.value = c])
    BY <1>3 DEF ControlBegin
  <2>2. PICK c \in Command :
          Begin(s, [Fresh EXCEPT !.op = "control", !.pc = "device", !.caller = u, !.device = d, !.value = c])
    BY <2>1
  <2> DEFINE q == [Fresh EXCEPT !.op = "control", !.pc = "device", !.caller = u, !.device = d, !.value = c]
  <2>3. q.op = "control" /\ q.pc = "device"
    BY DEF Fresh
  <2>4. Begin(s, q)
    BY <2>2
  <2> HIDE DEF q
  <2> QED BY <1>1, <2>3, <2>4 DEF Begin
<1> QED BY <1>2, <1>3

\* The steps that leave the requests and the lines they came from alone.
Quietly == UNCHANGED <<req, devices, logs, alerts, before, cut>>
SocketStep ==
  \/ \E s \in Slot : PostLost(s) \/ Notify(s)
  \/ \E j \in Job : Work(j)
  \/ \E g \in Script : Open(g) \/ Unplug(g) \/ NextMinute(g)
  \/ \E k \in Socket : Connect(k) \/ Disconnect(k) \/ Hear(k)
  \/ \E c \in Client, r \in RoomId : Join(c, r) \/ Leave(c, r)
LEMMA SocketsAreQuiet == SocketStep => Quietly
BY DEF SocketStep, Quietly, PostLost, Notify, Work, Open, Unplug, NextMinute, Connect, Disconnect,
   Hear, Join, Leave, Down, vars, history, NotifyAlert, Run, Take, PushSocket, SaveDb, Complete,
   Recover, JobFails, platform, delivery, reading

\* The steps that cut requests off, and what they do to one.
FailStep == Restart \/ \E s \in Slot : Fails(s)
CutOff(t) ==
  /\ req[t].pc \notin {"new", "done"} /\ t \in cut' /\ req'[t].pc = "done"
  /\ req'[t].op = req[t].op /\ req'[t].device = req[t].device /\ req'[t].value = req[t].value

LEMMA FailuresCut ==
  ASSUME IBase, FailStep
  PROVE  /\ UNCHANGED <<devices, logs, alerts, before, port, post, told, heard, written>>
         /\ \A t \in Slot : req'[t] = req[t] \/ CutOff(t)
         /\ \A t \in Slot : steady'[t] \subseteq steady[t]
         /\ cut \subseteq cut' /\ \A t \in cut' \ cut : t \in Slot /\ CutOff(t)
<1>0. req \in [Slot -> Request] /\ cut \subseteq Slot /\ steady \in [Slot -> SUBSET Socket]
  BY DEF IBase, IPlatform, PlatformTypes, BridgeTypeOK
<1>1. CASE Restart
  <2>1. ASSUME NEW t \in Slot, req[t].pc = "new" PROVE req'[t] = req[t]
    BY <1>0, <1>1, <2>1 DEF Restart, Crash
  <2>2. ASSUME NEW t \in Slot, req[t].pc = "done" PROVE req'[t] = req[t]
    <3> DEFINE q == [req[t] EXCEPT !.pc = "done"]
    <3>1. req[t] \in Request
      BY <1>0
    <3>2. q = req[t]
      BY <2>2, <3>1 DEF Request
    <3>3. req'[t] = q
      BY <1>0, <1>1, <2>2 DEF Restart, Crash
    <3> QED BY <3>2, <3>3
  <2>3. ASSUME NEW t \in Slot, req[t].pc \notin {"new", "done"} PROVE CutOff(t)
    <3> DEFINE q == [req[t] EXCEPT !.pc = "done"]
    <3>1. req[t] \in Request
      BY <1>0
    <3>2. q.pc = "done" /\ q.op = req[t].op /\ q.device = req[t].device /\ q.value = req[t].value
      BY <3>1 DEF Request
    <3>3. req'[t] = q /\ t \in cut'
      BY <1>0, <1>1, <2>3 DEF Restart, Crash
    <3> HIDE DEF q
    <3> QED BY <2>3, <3>2, <3>3 DEF CutOff
  <2>4. cut' = cut \cup {t \in Slot : req[t].pc \notin {"new", "done"}}
    BY <1>1 DEF Restart
  <2>5. UNCHANGED <<devices, logs, alerts, before, port, post, told, heard, written>>
    BY <1>1 DEF Restart, Crash, platform
  <2>6. \A t \in Slot : steady'[t] = {}
    BY <1>1 DEF Restart
  <2> QED BY <2>1, <2>2, <2>3, <2>4, <2>5, <2>6
<1>2. ASSUME NEW s \in Slot, Fails(s)
      PROVE  /\ UNCHANGED <<devices, logs, alerts, before, port, post, told, heard, written, steady>>
             /\ \A t \in Slot : req'[t] = req[t] \/ CutOff(t)
             /\ cut \subseteq cut' /\ \A t \in cut' \ cut : t \in Slot /\ CutOff(t)
  <2>1. UNCHANGED <<devices, logs, alerts, before, port, post, told, heard, written, steady>>
    BY <1>2 DEF Fails, CallFails, platform, script, sockets
  <2>2. CASE s \notin notifying
    <3>1. req[s].pc \notin {"new", "done"} /\ Goto(s, "done") /\ cut' = cut \cup {s}
      BY <1>2, <2>2 DEF Fails, CallFails
    <3>2. Moves(s, "done")
      BY <1>0, <3>1, GotoMoves DEF Pc
    <3> QED BY <2>1, <3>1, <3>2 DEF Moves, CutOff
  <2>3. CASE s \in notifying
    <3>1. req' = req \/ (req[s].pc # "done" /\ req[s].pc # "new")
      BY <1>2 DEF Fails, CallFails
    <3>2. req[s].pc = "done"
      BY <2>3 DEF IBase, IPlatform, NotifyingOK, At
    <3> QED BY <1>2, <2>1, <2>3, <3>1, <3>2 DEF Fails
  <2> QED BY <2>1, <2>2, <2>3
<1> QED BY <1>1, <1>2 DEF FailStep

LEMMA BridgeCases ==
  [BridgeNext]_allVars =>
    \/ \E s \in Slot : ReadLine(s) \/ Arrives(s) \/ Order(s) \/ Handle(s) \/ Emit(s)
    \/ SocketStep \/ FailStep \/ UNCHANGED allVars
BY DEF BridgeNext, SocketStep, FailStep

----------------------------------------------------------------------------
(***************************************************************************)
(* Slots: a post becomes a request once, requests begin in free slots, and *)
(* what is answered is over.                                               *)
(***************************************************************************)
\* A post moves: it is still of the same line.
LEMMA PostMoves ==
  ASSUME post \in [Slot -> Post \cup {None}], NEW s \in Slot, post[s] # None, NEW at \in {"taken", "limited", "lost"},
         post' = [post EXCEPT ![s].at = at]
  PROVE  /\ post' \in [Slot -> Post \cup {None}]
         /\ post'[s] # None /\ post'[s].at = at
         /\ post'[s].device = post[s].device /\ post'[s].value = post[s].value
         /\ \A t \in Slot : t # s => post'[t] = post[t]
<1> DEFINE p == [post[s] EXCEPT !.at = at]
<1>1. p \in Post /\ p.at = at /\ p.device = post[s].device /\ p.value = post[s].value
  BY DEF Post
<1>2. post' = [post EXCEPT ![s] = p]
  OBVIOUS
<1> HIDE DEF p
<1> QED BY <1>1, <1>2, NoPostAssumption

AllCarried == \A s \in Slot : Carried(s)
LEMMA Typed ==
  ASSUME IBase
  PROVE  /\ req \in [Slot -> Request] /\ post \in [Slot -> Post \cup {None}]
         /\ devices \in [Registered -> [state : DeviceState, online : BOOLEAN]]
BY DEF IBase, IPlatform, PlatformTypes, BridgeTypeOK

LEMMA CarriedNext == IBase /\ [BridgeNext]_allVars => AllCarried'
<1> SUFFICES ASSUME IBase, [BridgeNext]_allVars PROVE AllCarried'
  OBVIOUS
<1> USE Typed
<1>0. AllCarried
  BY DEF IBase, AllCarried
<1>1. ASSUME NEW s \in Slot, ReadLine(s) PROVE AllCarried'
  <2>1. req' = req /\ req[s].pc = "new"
    BY <1>1 DEF ReadLine, Free, vars
  <2>2. PICK x \in Lines : post' = [post EXCEPT ![s] = [device |-> x[1], value |-> x[2], at |-> "sent"]]
    BY <1>1 DEF ReadLine
  <2>3. post'[s].at = "sent" /\ post'[s] # None
    <3>1. [device |-> x[1], value |-> x[2], at |-> "sent"] \in Post
      BY BridgeAssumption DEF Post
    <3> QED BY <2>2, <3>1, NoPostAssumption
  <2>4. \A t \in Slot : t # s => post'[t] = post[t]
    BY <2>2
  <2> QED BY <1>0, <2>1, <2>3, <2>4 DEF AllCarried, Carried
<1>2. ASSUME NEW s \in Slot, Order(s) PROVE AllCarried'
  <2>1. post' = post /\ post[s] = None /\ ControlBegin(s)
    BY <1>2 DEF Order, Free, script
  <2> QED BY <1>0, <2>1, Begun DEF AllCarried, Carried
<1>3. ASSUME NEW s \in Slot, Arrives(s) PROVE AllCarried'
  <2>1. post[s] # None /\ post[s].at = "sent"
    BY <1>3 DEF Arrives
  <2>2. CASE /\ StatusBegin(s) /\ post' = [post EXCEPT ![s].at = "taken"]
             /\ req'[s].device = post[s].device /\ req'[s].value = post[s].value
    <3>1. /\ post'[s] # None /\ post'[s].at = "taken"
          /\ post'[s].device = post[s].device /\ post'[s].value = post[s].value
          /\ \A t \in Slot : t # s => post'[t] = post[t]
      BY <2>1, <2>2, PostMoves
    <3> QED BY <1>0, <2>2, <3>1, Begun DEF AllCarried, Carried
  <2>3. CASE req' = req /\ post' = [post EXCEPT ![s].at = "limited"]
    <3>1. /\ post'[s] # None /\ post'[s].at = "limited"
          /\ \A t \in Slot : t # s => post'[t] = post[t]
      BY <2>1, <2>3, PostMoves
    <3> QED BY <1>0, <2>1, <2>3, <3>1 DEF AllCarried, Carried
  <2> QED BY <1>3, <2>2, <2>3 DEF Arrives, vars
<1>4. ASSUME NEW s \in Slot, Step(s), post' = post PROVE AllCarried'
  <2>1. req[s].pc # "new"
    BY <1>4, HandlersGo
  <2>2. PICK pc \in Pc \ {"new", "device"} : Moves(s, pc)
    BY <1>4, HandlersGo
  <2> QED BY <1>0, <1>4, <2>1, <2>2 DEF AllCarried, Carried, Moves
<1>5. ASSUME NEW s \in Slot, PostLost(s) PROVE AllCarried'
  <2>1. post[s] # None /\ post[s].at = "sent" /\ req' = req
    BY <1>5 DEF PostLost, vars
  <2>2. /\ post'[s] # None /\ post'[s].at = "lost"
        /\ \A t \in Slot : t # s => post'[t] = post[t]
    BY <1>5, <2>1, PostMoves DEF PostLost
  <2> QED BY <1>0, <2>1, <2>2 DEF AllCarried, Carried
<1>6. CASE req' = req /\ post' = post
  BY <1>0, <1>6 DEF AllCarried, Carried
<1>7. SocketStep => req' = req /\ (post' = post \/ \E s \in Slot : PostLost(s))
  BY SocketsAreQuiet DEF Quietly, SocketStep, Notify, Work, Open, Unplug, NextMinute, Connect,
     Disconnect, Hear, Join, Leave, script
<1>8. ASSUME NEW s \in Slot, Handle(s) \/ Emit(s) PROVE Step(s) /\ post' = post
  BY <1>8 DEF Handle, Emit, Step, DevicesStep, script
<1>9. CASE FailStep
  BY <1>0, <1>9, FailuresCut DEF AllCarried, Carried, CutOff
<1> QED BY <1>1, <1>2, <1>3, <1>4, <1>5, <1>6, <1>7, <1>8, <1>9, BridgeCases DEF allVars, vars, script

\* Nothing is about a free slot; what a slot in use is about stays, and so does
\* what happened before it began.
LEMMA FreeIsAboutNothing ==
  ASSUME IBase, NEW s \in Free, NEW d \in Registered PROVE s \in Slot /\ s \notin About(d)
BY FreeIsFree DEF Free, About

LEMMA AboutStays ==
  ASSUME IBase, [BridgeNext]_allVars, NEW t \in Slot, t \notin Free
  PROVE  /\ before'[t] = before[t] /\ steady'[t] \subseteq steady[t]
         /\ req[t].pc # "new" => /\ req'[t].op = req[t].op /\ req'[t].device = req[t].device
                                 /\ req'[t].value = req[t].value
         /\ \A d \in Registered : t \in About(d)' <=> t \in About(d)
<1> USE Typed
<1>0. before \in [Slot -> SUBSET Slot] /\ steady \in [Slot -> SUBSET Socket]
  BY DEF IBase, BridgeTypeOK
<1>a. req'[t] = req[t] /\ post'[t] = post[t] => \A d \in Registered : t \in About(d)' <=> t \in About(d)
  BY DEF About
<1>1. ASSUME NEW s \in Slot, ReadLine(s) PROVE t # s /\ req' = req /\ post'[t] = post[t]
  BY <1>1 DEF ReadLine, vars
<1>2. ASSUME NEW s \in Slot, Order(s) PROVE t # s /\ req'[t] = req[t] /\ post' = post
  BY <1>2, Begun DEF Order, script
<1>3. ASSUME NEW s \in Slot, NEW d, Starts(s, d), t # s PROVE before'[t] = before[t] /\ steady'[t] = steady[t]
  BY <1>0, <1>3 DEF Starts
<1>4. ASSUME NEW s \in Slot, ReadLine(s) \/ Order(s)
      PROVE  before'[t] = before[t] /\ steady'[t] = steady[t]
  BY <1>1, <1>2, <1>3, <1>4 DEF ReadLine, Order
<1>5. ASSUME NEW s \in Slot, Arrives(s)
      PROVE  /\ before' = before /\ steady' = steady
             /\ req[t].pc # "new" => req'[t] = req[t]
             /\ \A d \in Registered : t \in About(d)' <=> t \in About(d)
  <2>0. before' = before /\ steady' = steady
    BY <1>5 DEF Arrives, history
  <2>1. post[s] # None
    BY <1>5 DEF Arrives
  <2>2. CASE /\ StatusBegin(s) /\ post' = [post EXCEPT ![s].at = "taken"]
             /\ req'[s].device = post[s].device
    <3>1. post'[s] # None /\ post'[s].device = post[s].device /\ \A x \in Slot : x # s => post'[x] = post[x]
      BY <2>1, <2>2, PostMoves
    <3>2. req[s].pc = "new" /\ \A x \in Slot : x # s => req'[x] = req[x]
      BY <2>2, Begun
    <3>3. \A d \in Registered : req[s].device # d
      BY <3>2, FreeIsFree
    <3> QED BY <2>0, <2>1, <2>2, <3>1, <3>2, <3>3 DEF About
  <2>3. CASE req' = req /\ post' = [post EXCEPT ![s].at = "limited"]
    <3>1. post'[s] # None /\ post'[s].device = post[s].device /\ \A x \in Slot : x # s => post'[x] = post[x]
      BY <2>1, <2>3, PostMoves
    <3> QED BY <2>0, <2>1, <2>3, <3>1 DEF About
  <2> QED BY <1>5, <2>2, <2>3 DEF Arrives, vars
<1>6. ASSUME NEW s \in Slot, Handle(s) \/ Emit(s)
      PROVE  /\ before' = before /\ steady' = steady /\ post' = post
             /\ req'[t].op = req[t].op /\ req'[t].device = req[t].device /\ req'[t].value = req[t].value
  <2>1. Step(s) /\ before' = before /\ steady' = steady /\ post' = post
    BY <1>6 DEF Handle, Emit, Step, DevicesStep, script, history
  <2>2. PICK pc \in Pc \ {"new", "device"} : Moves(s, pc)
    BY <2>1, HandlersGo
  <2> QED BY <2>1, <2>2 DEF Moves
<1>7. ASSUME SocketStep PROVE req' = req /\ before' = before /\ steady'[t] \subseteq steady[t]
  <2>1. steady' = steady \/ \E k : Down(k)
    BY <1>7 DEF SocketStep, PostLost, Notify, Work, Open, Unplug, NextMinute, Connect, Disconnect,
       Hear, Join, Leave, history
  <2> QED BY <1>0, <1>7, <2>1, SocketsAreQuiet DEF Quietly, Down
<1>8. ASSUME NEW s \in Slot, PostLost(s) PROVE \A d \in Registered : t \in About(d)' <=> t \in About(d)
  <2>1. post[s] # None /\ req' = req
    BY <1>8 DEF PostLost, vars
  <2>2. post'[s] # None /\ post'[s].device = post[s].device /\ \A x \in Slot : x # s => post'[x] = post[x]
    BY <1>8, <2>1, PostMoves DEF PostLost
  <2> QED BY <2>1, <2>2 DEF About
<1>9. SocketStep => post' = post \/ \E s \in Slot : PostLost(s)
  BY DEF SocketStep, Notify, Work, Open, Unplug, NextMinute, Connect,
     Disconnect, Hear, Join, Leave, script
<1>10. CASE SocketStep
  BY <1>7, <1>8, <1>9, <1>10, <1>a
<1>11. CASE \E s \in Slot : Handle(s) \/ Emit(s)
  BY <1>6, <1>11 DEF About
<1>12. CASE UNCHANGED allVars
  BY <1>12, <1>a DEF allVars, vars, script, history
<1>13. CASE \E s \in Slot : ReadLine(s) \/ Order(s)
  <2>1. req'[t] = req[t] /\ post'[t] = post[t] /\ before'[t] = before[t] /\ steady'[t] = steady[t]
    BY <1>1, <1>2, <1>4, <1>13
  <2> QED BY <2>1, <1>a
<1>14. CASE \E s \in Slot : Arrives(s)
  BY <1>5, <1>14
<1>15. CASE FailStep
  BY <1>15, FailuresCut DEF CutOff, About
<1> QED BY <1>10, <1>11, <1>12, <1>13, <1>14, <1>15, BridgeCases

\* What is answered stays as it is.
LEMMA DoneStays ==
  ASSUME IBase, [BridgeNext]_allVars, NEW t \in Slot, req[t].pc = "done"
  PROVE  req'[t] = req[t] /\ logs'[t] = logs[t] /\ alerts'[t] = alerts[t]
<1> USE Typed
<1>0. alerts \in [Slot -> AlertDoc \cup {None}] /\ logs \in [Slot -> LogDoc \cup {None}]
  BY DEF IBase, IPlatform, PlatformTypes
<1>1. ASSUME NEW s \in Slot, Step(s) PROVE req'[t] = req[t] /\ logs'[t] = logs[t] /\ alerts'[t] = alerts[t]
  <2>1. s # t /\ DevicesStep(s)
    BY <1>1, HandlersGo
  <2>2. req'[t] = req[t]
    BY <1>1, <2>1, HandlersGo DEF Moves
  <2>3. logs'[t] = logs[t] /\ alerts'[t] = alerts[t]
    BY <1>0, <2>1 DEF DevicesStep, StatusDevice, StatusLog, StatusUpdate, StatusAlert, StatusEmit, ControlDevice,
       ControlLog, ControlUpdate, ControlEmit, platform
  <2> QED BY <2>2, <2>3
<1>2. ASSUME NEW s \in Slot, ReadLine(s) \/ Order(s) \/ Arrives(s)
      PROVE  req'[t] = req[t] /\ logs'[t] = logs[t] /\ alerts'[t] = alerts[t]
  <2>1. UNCHANGED vars \/ StatusBegin(s) \/ ControlBegin(s)
    BY <1>2 DEF ReadLine, Order, Arrives, vars
  <2>2. StatusBegin(s) \/ ControlBegin(s) => logs' = logs /\ alerts' = alerts
    BY DEF StatusBegin, ControlBegin, Begin, platform
  <2> QED BY <2>1, <2>2, Begun DEF vars
<1>3. ASSUME NEW s \in Slot, Handle(s) \/ Emit(s) PROVE Step(s)
  BY <1>3 DEF Handle, Emit, Step, DevicesStep
<1>4. CASE FailStep
  BY <1>4, FailuresCut DEF CutOff
<1> QED BY <1>1, <1>2, <1>3, <1>4, SocketsAreQuiet, BridgeCases DEF Quietly, allVars, vars

\* Only a failure cuts requests off, and only those that were under way.
LEMMA CutGrows ==
  ASSUME IBase, [BridgeNext]_allVars
  PROVE  /\ cut \subseteq cut'
         /\ \A t \in cut' \ cut : t \in Slot /\ CutOff(t)
<1>1. ASSUME NEW s \in Slot, ReadLine(s) \/ Order(s) PROVE cut' = cut
  BY <1>1 DEF ReadLine, Order, Starts
<1>2. ASSUME NEW s \in Slot, Arrives(s) \/ Handle(s) \/ Emit(s) PROVE cut' = cut
  BY <1>2 DEF Arrives, Handle, Emit, history
<1>3. SocketStep \/ UNCHANGED allVars => cut' = cut
  BY SocketsAreQuiet DEF Quietly, allVars, history
<1> QED BY <1>1, <1>2, <1>3, FailuresCut, BridgeCases

----------------------------------------------------------------------------
(***************************************************************************)
(* Types.                                                                  *)
(***************************************************************************)
LEMMA EmittedTyped ==
  ASSUME IBase, NEW s \in Slot, StatusEmit(s) \/ ControlEmit(s), NEW k \in Socket
  PROVE  /\ AlertOf(s) \in Seq(Event) /\ UpdateOf(s) \in Seq(Event) /\ CommandOf(k, s) \in Seq(Event)
         /\ Emitted(k, s) \in Seq(Event) /\ req[s].device \in Registered
<1>1. Shape(req[s]) /\ req[s].op \in {"status", "control"} /\ req[s].pc = "emit"
  BY DEF IBase, IPlatform, AllReady, Ready, StatusEmit, ControlEmit, At
<1>2. req[s].device \in Registered
  BY <1>1 DEF Shape
<1> DEFINE state == IF req[s].op = "control" THEN NewState(req[s].value) ELSE req[s].value
           update == [kind |-> "update", device |-> req[s].device, state |-> state]
<1>3. state \in DeviceState
  BY <1>1 DEF Shape, NewState, DeviceState
<1>4. update \in Event
  BY <1>2, <1>3 DEF Event
<1>5. AlertEvent(s) \in Event /\ CommandEvent(s) \in Event
  BY DEF AlertEvent, CommandEvent, Event
<1>6. AlertOf(s) = <<AlertEvent(s)>> \/ AlertOf(s) = <<>>
  BY DEF AlertOf, AlertEvent
<1>7. UpdateOf(s) = <<update>>
  BY DEF UpdateOf
<1>8. CommandOf(k, s) = <<CommandEvent(s)>> \/ CommandOf(k, s) = <<>>
  BY DEF CommandOf, CommandEvent
<1> HIDE DEF update
<1>9. \A e \in Event : <<e>> \in Seq(Event)
  OBVIOUS
<1>10. <<>> \in Seq(Event)
  BY EmptySeq
<1>11. AlertOf(s) \in Seq(Event) /\ UpdateOf(s) \in Seq(Event) /\ CommandOf(k, s) \in Seq(Event)
  BY <1>4, <1>5, <1>6, <1>7, <1>8, <1>9, <1>10
<1>12. AlertOf(s) \o UpdateOf(s) \in Seq(Event)
  BY <1>11, ConcatProperties
<1>13. Emitted(k, s) \in Seq(Event)
  <2> DEFINE first == IF <<k, RoomOf[req[s].device]>> \in joined THEN AlertOf(s) \o UpdateOf(s) ELSE <<>>
  <2>1. first \in Seq(Event)
    BY <1>10, <1>12
  <2>2. Emitted(k, s) = first \o CommandOf(k, s)
    BY DEF Emitted
  <2> HIDE DEF first
  <2> QED BY <1>11, <2>1, <2>2, ConcatProperties
<1> QED BY <1>2, <1>11, <1>13

LEMMA ScriptNext == IBase /\ [BridgeNext]_allVars =>
  /\ port' \in [Script -> {"closed", "open", "dead"}]
  /\ post' \in [Slot -> Post \cup {None}]
  /\ hits' \in [Script -> 0..Limit]
<1> SUFFICES ASSUME IBase, [BridgeNext]_allVars
             PROVE  /\ port' \in [Script -> {"closed", "open", "dead"}]
                    /\ post' \in [Slot -> Post \cup {None}]
                    /\ hits' \in [Script -> 0..Limit]
  OBVIOUS
<1> USE Typed
<1>0. /\ port \in [Script -> {"closed", "open", "dead"}] /\ hits \in [Script -> 0..Limit]
      /\ Limit \in Nat
  BY BridgeAssumption DEF IBase, BridgeTypeOK
<1>1. ASSUME NEW s \in Slot, ReadLine(s) PROVE port' = port /\ hits' = hits /\ post' \in [Slot -> Post \cup {None}]
  <2>1. PICK x \in Lines : post' = [post EXCEPT ![s] = [device |-> x[1], value |-> x[2], at |-> "sent"]]
    BY <1>1 DEF ReadLine
  <2>2. [device |-> x[1], value |-> x[2], at |-> "sent"] \in Post
    BY BridgeAssumption DEF Post
  <2> QED BY <1>1, <2>1, <2>2 DEF ReadLine
<1>2. ASSUME NEW s \in Slot, Arrives(s)
      PROVE  port' = port /\ hits' \in [Script -> 0..Limit] /\ post' \in [Slot -> Post \cup {None}]
  <2>1. post[s] # None /\ port' = port
    BY <1>2 DEF Arrives
  <2>2. post' \in [Slot -> Post \cup {None}]
    BY <1>2, <2>1, PostMoves DEF Arrives
  <2>3. Behind[post[s].device] \in Script
    BY <2>1, BridgeAssumption DEF Post
  <2>4. hits' \in [Script -> 0..Limit]
    BY <1>0, <1>2, <2>3 DEF Arrives, Admits
  <2> QED BY <2>1, <2>2, <2>4
<1>3. ASSUME NEW s \in Slot, PostLost(s)
      PROVE  port' = port /\ hits' = hits /\ post' \in [Slot -> Post \cup {None}]
  BY <1>3, PostMoves DEF PostLost
<1>4. ASSUME NEW g \in Script, Open(g) \/ Unplug(g) \/ NextMinute(g)
      PROVE  /\ port' \in [Script -> {"closed", "open", "dead"}] /\ post' = post
             /\ hits' \in [Script -> 0..Limit]
  BY <1>0, <1>4 DEF Open, Unplug, NextMinute
<1>5. ASSUME NEW s \in Slot, Order(s) \/ Handle(s) \/ Emit(s) PROVE UNCHANGED script
  BY <1>5 DEF Order, Handle, Emit
<1>6. SocketStep => \/ UNCHANGED script \/ \E s \in Slot : PostLost(s)
                    \/ \E g \in Script : Open(g) \/ Unplug(g) \/ NextMinute(g)
  BY DEF SocketStep, Notify, Work, Connect, Disconnect, Hear, Join, Leave
<1>7. CASE UNCHANGED script
  BY <1>0, <1>7 DEF script
<1>8. CASE Restart
  BY <1>0, <1>8 DEF Restart
<1>9. CASE \E s \in Slot : Fails(s)
  BY <1>7, <1>9 DEF Fails
<1> QED BY <1>0, <1>1, <1>2, <1>3, <1>4, <1>5, <1>6, <1>7, <1>8, <1>9, BridgeCases DEF FailStep, allVars

LEMMA HistoryTyped == IBase /\ [BridgeNext]_allVars =>
  /\ before' \in [Slot -> SUBSET Slot] /\ steady' \in [Slot -> SUBSET Socket]
  /\ cut' \subseteq Slot /\ dropped' \subseteq Job /\ outages' \in 0..Outages
<1> DEFINE HTypes == /\ before' \in [Slot -> SUBSET Slot] /\ steady' \in [Slot -> SUBSET Socket]
                     /\ cut' \subseteq Slot /\ dropped' \subseteq Job
<1> SUFFICES ASSUME IBase, [BridgeNext]_allVars PROVE HTypes /\ outages' \in 0..Outages
  OBVIOUS
<1>0. /\ before \in [Slot -> SUBSET Slot] /\ steady \in [Slot -> SUBSET Socket]
      /\ cut \subseteq Slot /\ dropped \subseteq Job
      /\ outages \in 0..Outages /\ Outages \in Nat
  BY BridgeAssumption DEF IBase, BridgeTypeOK
<1>1. ASSUME NEW s \in Slot, NEW d, Starts(s, d) PROVE HTypes /\ outages' = outages
  BY <1>0, <1>1 DEF Starts
<1>2. ASSUME NEW s \in Slot, ReadLine(s) \/ Order(s) PROVE HTypes /\ outages' = outages
  BY <1>1, <1>2 DEF ReadLine, Order
<1>3. ASSUME NEW s \in Slot, Arrives(s) \/ Handle(s) \/ Emit(s) PROVE UNCHANGED history
  BY <1>3 DEF Arrives, Handle, Emit
<1>4. ASSUME NEW s \in Slot, Notify(s) PROVE HTypes /\ (outages' = outages \/ Outage)
  <2>1. dropped' \subseteq Job /\ (outages' = outages \/ Outage)
    BY <1>0, <1>4 DEF Notify
  <2> QED BY <1>0, <1>4, <2>1 DEF Notify
<1>5. ASSUME NEW s \in Slot, PostLost(s) PROVE HTypes /\ Outage
  BY <1>0, <1>5 DEF PostLost
<1>6. ASSUME NEW k, Down(k) PROVE HTypes
  BY <1>0, <1>6 DEF Down
<1>7. SocketStep => \/ UNCHANGED history
                    \/ \E s \in Slot : PostLost(s) \/ Notify(s)
                    \/ \E k : Down(k) /\ Outage
  BY DEF SocketStep, Work, Open, Unplug, NextMinute, Connect, Disconnect, Hear, Join, Leave
<1>8. ASSUME NEW s \in Slot, Fails(s) PROVE HTypes /\ Outage
  <2>1. \/ cut' = cut \cup {s} /\ dropped' = dropped
        \/ cut' = cut /\ dropped' = dropped \cup {j \in Job : j.call = s}
    BY <1>8 DEF Fails
  <2> QED BY <1>0, <1>8, <2>1 DEF Fails
<1>9. CASE Restart
  <2>1. HTypes
    BY <1>0, <1>9 DEF Restart
  <2>2. Outage
    BY <1>9 DEF Restart
  <2> QED BY <1>0, <2>1, <2>2 DEF Outage
<1>10. CASE UNCHANGED history
  BY <1>0, <1>10 DEF history
<1>11. Outage => outages' \in 0..Outages
  BY <1>0 DEF Outage
<1> HIDE DEF HTypes
<1>12. CASE \E s \in Slot : ReadLine(s) \/ Arrives(s) \/ Order(s) \/ Handle(s) \/ Emit(s)
  BY <1>0, <1>2, <1>3, <1>10, <1>12
<1>13. CASE SocketStep
  BY <1>0, <1>4, <1>5, <1>6, <1>7, <1>10, <1>11, <1>13
<1>14. CASE FailStep
  BY <1>8, <1>9, <1>11, <1>14 DEF FailStep
<1> QED BY <1>10, <1>12, <1>13, <1>14, BridgeCases DEF allVars

LEMMA WireMoves ==
  [BridgeNext]_allVars =>
    \/ wire' = wire
    \/ \E s \in Slot : Emit(s)
    \/ \E x \in Socket : Disconnect(x) \/ Hear(x)
    \/ \E c \in Client, r \in RoomId : Join(c, r)
    \/ Restart
BY DEF BridgeNext, PostLost, Notify, Work, Open, Unplug, NextMinute, Connect, Leave,
   ReadLine, Order, Arrives, Handle, Fails, sockets, allVars

LEMMA LinkMoves ==
  [BridgeNext]_allVars =>
    \/ UNCHANGED <<link, joined>> \/ \E k \in Socket : Connect(k) \/ Disconnect(k)
    \/ \E c \in Client, r \in RoomId : link' = link /\ (Join(c, r) \/ Leave(c, r))
    \/ Restart /\ link' = {} /\ joined' = {}
BY DEF BridgeNext, PostLost, Notify, Work, Open, Unplug, NextMinute, Hear, Join, Leave,
   ReadLine, Order, Arrives, Handle, Emit, Fails, Restart, sockets, allVars

\* What happens to the queue of one socket.
LEMMA WireCases ==
  ASSUME IBase, [BridgeNext]_allVars, NEW k \in Socket
  PROVE  \/ wire'[k] = wire[k]
         \/ k \in link /\ \E s \in Slot : Emit(s) /\ wire'[k] = wire[k] \o Emitted(k, s)
         \/ (Disconnect(k) \/ Restart) /\ wire'[k] = <<>>
         \/ \E r \in RoomId : k \in Client /\ Join(k, r)
                              /\ wire'[k] = Append(wire[k], [kind |-> "joined", room |-> r])
         \/ Hear(k) /\ wire'[k] = Tail(wire[k])
<1>0. wire \in [Socket -> Seq(Event)]
  BY DEF IBase, BridgeTypeOK
<1>1. CASE wire' = wire
  BY <1>1
<1>2. ASSUME NEW s \in Slot, Emit(s)
      PROVE  wire'[k] = IF k \in link THEN wire[k] \o Emitted(k, s) ELSE wire[k]
  BY <1>2 DEF Emit
<1>3. ASSUME NEW x \in Socket, Disconnect(x) PROVE wire'[k] = IF k = x THEN <<>> ELSE wire[k]
  BY <1>0, <1>3 DEF Disconnect
<1>4. ASSUME NEW c \in Client, NEW r \in RoomId, Join(c, r)
      PROVE  wire'[k] = IF k = c THEN Append(wire[k], [kind |-> "joined", room |-> r]) ELSE wire[k]
  BY <1>0, <1>4 DEF Join
<1>5. ASSUME NEW x \in Socket, Hear(x) PROVE wire'[k] = IF k = x THEN Tail(wire[k]) ELSE wire[k]
  BY <1>0, <1>5 DEF Hear
<1>7. CASE \E s \in Slot : Emit(s)
  BY <1>2, <1>7
<1>8. CASE \E x \in Socket : Disconnect(x)
  BY <1>3, <1>8
<1>9. CASE \E x \in Socket : Hear(x)
  BY <1>5, <1>9
<1>10. CASE \E c \in Client, r \in RoomId : Join(c, r)
  BY <1>4, <1>10
<1>11. CASE Restart
  BY <1>11 DEF Restart
<1> QED BY <1>1, <1>7, <1>8, <1>9, <1>10, <1>11, WireMoves

LEMMA LinkNext == IBase /\ [BridgeNext]_allVars =>
  link' \subseteq Socket /\ joined' \subseteq (Client \cap link') \X RoomId
<1> SUFFICES ASSUME IBase, [BridgeNext]_allVars
             PROVE  link' \subseteq Socket /\ joined' \subseteq (Client \cap link') \X RoomId
  OBVIOUS
<1>0. link \subseteq Socket /\ joined \subseteq (Client \cap link) \X RoomId
  BY DEF IBase, BridgeTypeOK
<1>1. ASSUME NEW k \in Socket, Connect(k) \/ Disconnect(k)
      PROVE  link' \subseteq Socket /\ joined' \subseteq (Client \cap link') \X RoomId
  BY <1>0, <1>1 DEF Connect, Disconnect
<1>2. ASSUME NEW c \in Client, NEW r \in RoomId, Join(c, r) \/ Leave(c, r)
      PROVE  link' \subseteq Socket /\ joined' \subseteq (Client \cap link') \X RoomId
  BY <1>0, <1>2 DEF Join, Leave
<1> QED BY <1>0, <1>1, <1>2, LinkMoves

LEMMA WireNext == IBase /\ [BridgeNext]_allVars =>
  wire' \in [Socket -> Seq(Event)] /\ \A k \in Socket \ link' : wire'[k] = <<>>
<1> SUFFICES ASSUME IBase, [BridgeNext]_allVars
             PROVE  wire' \in [Socket -> Seq(Event)] /\ \A k \in Socket \ link' : wire'[k] = <<>>
  OBVIOUS
<1>0. wire \in [Socket -> Seq(Event)] /\ \A k \in Socket \ link : wire[k] = <<>>
  BY DEF IBase, BridgeTypeOK
<1>1. ASSUME NEW s \in Slot, Emit(s) PROVE wire' \in [Socket -> Seq(Event)]
  <2>1. StatusEmit(s) \/ ControlEmit(s)
    BY <1>1 DEF Emit
  <2>2. \A k \in Socket : wire[k] \o Emitted(k, s) \in Seq(Event)
    BY <1>0, <2>1, EmittedTyped, ConcatProperties
  <2> QED BY <1>0, <1>1, <2>2 DEF Emit
<1>2. ASSUME NEW x \in Socket, Disconnect(x) \/ Hear(x) PROVE wire' \in [Socket -> Seq(Event)]
  <2>1. <<>> \in Seq(Event) /\ (wire[x] # <<>> => Tail(wire[x]) \in Seq(Event))
    BY <1>0, EmptySeq, HeadTailProperties
  <2> QED BY <1>0, <1>2, <2>1 DEF Disconnect, Hear
<1>3. ASSUME NEW c \in Client, NEW r \in RoomId, Join(c, r) PROVE wire' \in [Socket -> Seq(Event)]
  <2>1. [kind |-> "joined", room |-> r] \in Event
    BY DEF Event
  <2>2. c \in Socket /\ Append(wire[c], [kind |-> "joined", room |-> r]) \in Seq(Event)
    BY <1>0, <2>1, AppendProperties DEF Socket
  <2> QED BY <1>0, <1>3, <2>2 DEF Join
<1>r. ASSUME Restart PROVE wire' \in [Socket -> Seq(Event)] /\ \A k \in Socket : wire'[k] = <<>>
  <2>1. <<>> \in Seq(Event)
    BY EmptySeq
  <2> QED BY <1>r, <2>1 DEF Restart
<1>4. wire' \in [Socket -> Seq(Event)]
  BY <1>0, <1>1, <1>2, <1>3, <1>r, WireMoves
<1>5. ASSUME NEW k \in Socket, k \notin link' PROVE wire'[k] = <<>>
  <2>1. k \in link => Disconnect(k) \/ Restart
    <3>1. \/ link' = link \/ Restart \/ \E x \in Socket : Connect(x) \/ Disconnect(x)
      BY LinkMoves
    <3> QED BY <1>5, <3>1 DEF Connect, Disconnect
  <2>2. CASE k \in link
    BY <1>0, <1>r, <2>1, <2>2 DEF Disconnect
  <2>3. CASE k \notin link
    <3>1. wire[k] = <<>> /\ (k \notin Client \/ \A r : ~Join(k, r))
      BY <1>0, <2>3 DEF Join
    <3> QED BY <1>0, <2>3, <3>1, WireCases DEF Hear, Join
  <2> QED BY <2>2, <2>3
<1> QED BY <1>4, <1>5

LEMMA HearMoves ==
  [BridgeNext]_allVars => UNCHANGED <<told, heard, written>> \/ \E k \in Socket : Hear(k)
BY DEF BridgeNext, PostLost, Notify, Work, Open, Unplug, NextMinute, Connect, Disconnect, Join, Leave,
   ReadLine, Order, Arrives, Handle, Emit, Fails, Restart, sockets, allVars

\* What an event says.
LEMMA EventFields ==
  ASSUME NEW e \in Event
  PROVE  /\ e.kind \in {"alert", "command", "update", "joined"}
         /\ e.kind \in {"alert", "command"} => e.slot \in Slot /\ e = [kind |-> e.kind, slot |-> e.slot]
         /\ e.kind = "update" => e.device \in Registered /\ e.state \in DeviceState
         /\ e.kind = "joined" => e.room \in RoomId
BY DEF Event

\* The script appends a command it can write, and hears nothing else.
LEMMA ScriptHearing ==
  ASSUME IBase, NEW g \in Script, Hear(g)
  PROVE  /\ Head(wire[g]) \in Event /\ wire[g] # <<>> /\ wire'[g] = Tail(wire[g])
         /\ told' = told /\ heard' = heard
         /\ written' = IF Head(wire[g]).kind = "command" /\ port[g] = "open"
                       THEN [written EXCEPT ![g] = Append(written[g], Head(wire[g]).slot)] ELSE written
<1>0. wire \in [Socket -> Seq(Event)] /\ g \in Socket
  BY DEF IBase, BridgeTypeOK, Socket
<1>1. Head(wire[g]) \in Event
  BY <1>0, HeadTailProperties DEF Hear
<1> QED BY <1>0, <1>1 DEF Hear, ScriptHears

LEMMA ClientHearing ==
  ASSUME IBase, NEW c \in Client, Hear(c)
  PROVE  /\ Head(wire[c]) \in Event /\ wire[c] # <<>> /\ wire'[c] = Tail(wire[c])
         /\ written' = written
         /\ ClientHears(c, Head(wire[c]))
<1>0. wire \in [Socket -> Seq(Event)] /\ c \in Socket /\ c \notin Script
  BY BridgeAssumption DEF IBase, BridgeTypeOK, Socket
<1>1. Head(wire[c]) \in Event
  BY <1>0, HeadTailProperties DEF Hear
<1> QED BY <1>0, <1>1 DEF Hear, ClientHears

\* What a dashboard remembers of a device after an event.
Remembers(e, d, old) ==
  IF e.kind = "update" /\ e.device = d THEN e.state
  ELSE IF e.kind = "joined" /\ e.room = RoomOf[d] THEN None ELSE old
LEMMA ClientRemembers ==
  ASSUME IBase, NEW c \in Client, Hear(c)
  PROVE  /\ told' \in [Client -> [Registered -> DeviceState \cup {None}]]
         /\ \A x \in Client, d \in Registered :
              told'[x][d] = IF x = c THEN Remembers(Head(wire[c]), d, told[c][d]) ELSE told[x][d]
         /\ heard' = [heard EXCEPT ![c] = @ \cup {s \in Slot : Head(wire[c]) = AlertEvent(s)}]
<1> DEFINE e == Head(wire[c])
<1>0. e \in Event /\ ClientHears(c, e)
  BY ClientHearing
<1>t. told \in [Client -> [Registered -> DeviceState \cup {None}]] /\ heard \in [Client -> SUBSET Slot]
  BY DEF IBase, BridgeTypeOK
<1> HIDE DEF e
<1>1. heard' = [heard EXCEPT ![c] = @ \cup {s \in Slot : e = AlertEvent(s)}]
  <2>1. CASE e.kind = "alert"
    <3>1. {s \in Slot : e = AlertEvent(s)} = {e.slot}
      BY <1>0, <2>1, EventFields DEF AlertEvent
    <3> QED BY <1>0, <2>1, <3>1 DEF ClientHears
  <2>2. CASE e.kind # "alert"
    <3>1. {s \in Slot : e = AlertEvent(s)} = {}
      BY <2>2 DEF AlertEvent
    <3>2. heard' = heard
      BY <1>0, <2>2 DEF ClientHears
    <3> QED BY <1>t, <3>1, <3>2
  <2> QED BY <2>1, <2>2
<1>2. CASE e.kind = "update"
  <2>1. told' = [told EXCEPT ![c] = [told[c] EXCEPT ![e.device] = e.state]]
    BY <1>0, <1>2 DEF ClientHears
  <2>2. e.device \in Registered /\ e.state \in DeviceState
    BY <1>0, <1>2, EventFields
  <2> QED BY <1>1, <1>t, <1>2, <2>1, <2>2 DEF Remembers, e
<1>3. CASE e.kind = "joined"
  <2>1. told' = [told EXCEPT ![c] = [d \in Registered |-> IF RoomOf[d] = e.room THEN None ELSE told[c][d]]]
    BY <1>0, <1>3 DEF ClientHears
  <2> QED BY <1>1, <1>t, <1>3, <2>1 DEF Remembers, e
<1>4. CASE e.kind \notin {"update", "joined"}
  <2>1. told' = told
    BY <1>0, <1>4 DEF ClientHears
  <2> QED BY <1>1, <1>t, <1>4, <2>1 DEF Remembers, e
<1> QED BY <1>2, <1>3, <1>4

LEMMA MemoryNext == IBase /\ [BridgeNext]_allVars =>
  /\ told' \in [Client -> [Registered -> DeviceState \cup {None}]]
  /\ heard' \in [Client -> SUBSET Slot] /\ written' \in [Script -> Seq(Slot)]
<1> SUFFICES ASSUME IBase, [BridgeNext]_allVars
             PROVE  /\ told' \in [Client -> [Registered -> DeviceState \cup {None}]]
                    /\ heard' \in [Client -> SUBSET Slot] /\ written' \in [Script -> Seq(Slot)]
  OBVIOUS
<1>0. /\ told \in [Client -> [Registered -> DeviceState \cup {None}]]
      /\ heard \in [Client -> SUBSET Slot] /\ written \in [Script -> Seq(Slot)]
  BY DEF IBase, BridgeTypeOK
<1>1. ASSUME NEW g \in Script, Hear(g) PROVE told' = told /\ heard' = heard /\ written' \in [Script -> Seq(Slot)]
  <2>1. Head(wire[g]).kind = "command" => Append(written[g], Head(wire[g]).slot) \in Seq(Slot)
    BY <1>0, <1>1, ScriptHearing, EventFields, AppendProperties
  <2> QED BY <1>0, <1>1, <2>1, ScriptHearing
<1>2. ASSUME NEW c \in Client, Hear(c)
      PROVE  /\ told' \in [Client -> [Registered -> DeviceState \cup {None}]]
             /\ heard' \in [Client -> SUBSET Slot] /\ written' = written
  BY <1>0, <1>2, ClientHearing, ClientRemembers
<1> QED BY <1>0, <1>1, <1>2, HearMoves DEF Socket

LEMMA BaseNext == IBase /\ [BridgeNext]_allVars => IBase'
<1> SUFFICES ASSUME IBase, [BridgeNext]_allVars PROVE IBase'
  OBVIOUS
<1>1. IPlatform'
  BY StepsOfMonitoring, PlatformNext DEF IBase
<1>2. BridgeTypeOK'
  BY ScriptNext, HistoryTyped, LinkNext, WireNext, MemoryNext DEF BridgeTypeOK
<1> QED BY <1>1, <1>2, CarriedNext DEF IBase, AllCarried

LEMMA BaseInit == BridgeInit => IBase
<1> SUFFICES ASSUME BridgeInit PROVE IBase
  OBVIOUS
<1>1. IPlatform
  BY PlatformInit DEF BridgeInit
<1>2. <<>> \in Seq(Event) /\ <<>> \in Seq(Slot)
  BY EmptySeq
<1>3. BridgeTypeOK
  BY <1>2, BridgeAssumption DEF BridgeInit, BridgeTypeOK
<1>4. \A s \in Slot : Carried(s)
  BY DEF BridgeInit, Init, Carried, Fresh
<1> QED BY <1>1, <1>3, <1>4 DEF IBase

LEMMA BaseInduction == BridgeSpec => []IBase
BY BaseInit, BaseNext, PTL DEF BridgeSpec

\* Ports, posts, queues and memories keep their shape, and the limiter its limit,
\* for any number of scripts, dashboards and devices.
THEOREM BridgeTypeCorrect == BridgeSpec => []BridgeTypeOK
<1>1. IBase => BridgeTypeOK
  BY DEF IBase
<1> QED BY <1>1, BaseInduction, PTL

----------------------------------------------------------------------------
(***************************************************************************)
(* The last element of a kind in a queue, when the queue grows or shrinks. *)
(***************************************************************************)
LEMMA ConcatQuiet ==
  ASSUME NEW E, NEW w \in Seq(E), NEW u \in Seq(E), NEW R, NEW V, NoneIn(u, R)
  PROVE  /\ LastIn(w, R, V) => LastIn(w \o u, R, V)
         /\ NoneIn(w, R) => NoneIn(w \o u, R)
<1> DEFINE m == Len(w)
           n == Len(u)
<1>1. /\ m \in Nat /\ n \in Nat /\ DOMAIN w = 1..m /\ DOMAIN u = 1..n /\ DOMAIN (w \o u) = 1..(m + n)
      /\ \A i \in 1..(m + n) : (w \o u)[i] = IF i <= m THEN w[i] ELSE u[i - m]
  BY LenProperties, ConcatProperties
<1>2. \A i \in 1..m : i \in 1..(m + n) /\ (w \o u)[i] = w[i]
  BY <1>1
<1>3. \A i \in 1..(m + n) : i > m => i - m \in 1..n /\ (w \o u)[i] = u[i - m]
  BY <1>1
<1> HIDE DEF m, n
<1>4. \A i \in 1..(m + n) : i > m => (w \o u)[i] \notin R
  BY <1>1, <1>3 DEF NoneIn
<1>5. ASSUME LastIn(w, R, V) PROVE LastIn(w \o u, R, V)
  <2>1. PICK i \in 1..m : w[i] \in R \cap V /\ \A j \in 1..m : j > i => w[j] \notin R
    BY <1>1, <1>5 DEF LastIn
  <2>2. \A j \in 1..(m + n) : j > i => (w \o u)[j] \notin R
    BY <1>1, <1>2, <1>4, <2>1
  <2> QED BY <1>1, <1>2, <2>1, <2>2 DEF LastIn
<1>6. ASSUME NoneIn(w, R) PROVE NoneIn(w \o u, R)
  BY <1>1, <1>2, <1>4, <1>6 DEF NoneIn
<1> QED BY <1>5, <1>6

LEMMA ConcatLast ==
  ASSUME NEW E, NEW w \in Seq(E), NEW u \in Seq(E), NEW R, NEW V, LastIn(u, R, V)
  PROVE  LastIn(w \o u, R, V)
<1> DEFINE m == Len(w)
           n == Len(u)
<1>1. /\ m \in Nat /\ n \in Nat /\ DOMAIN u = 1..n /\ DOMAIN (w \o u) = 1..(m + n)
      /\ \A i \in 1..(m + n) : (w \o u)[i] = IF i <= m THEN w[i] ELSE u[i - m]
  BY LenProperties, ConcatProperties
<1>2. \A i \in 1..n : i + m \in 1..(m + n) /\ (w \o u)[i + m] = u[i]
  BY <1>1
<1>3. \A i \in 1..(m + n) : i > m => i - m \in 1..n /\ (w \o u)[i] = u[i - m]
  BY <1>1
<1> HIDE DEF m, n
<1>4. PICK i \in 1..n : u[i] \in R \cap V /\ \A j \in 1..n : j > i => u[j] \notin R
  BY <1>1 DEF LastIn
<1>5. \A j \in 1..(m + n) : j > i + m => (w \o u)[j] \notin R
  BY <1>1, <1>3, <1>4
<1> QED BY <1>1, <1>2, <1>4, <1>5 DEF LastIn

LEMMA Taken ==
  ASSUME NEW E, NEW w \in Seq(E), w # <<>>, NEW R, NEW V
  PROVE  /\ NoneIn(w, R) => Head(w) \notin R /\ NoneIn(Tail(w), R)
         /\ LastIn(w, R, V) => \/ LastIn(Tail(w), R, V)
                               \/ Head(w) \in R \cap V /\ NoneIn(Tail(w), R)
<1> DEFINE m == Len(w)
           t == Tail(w)
<1>1. m \in Nat \ {0} /\ DOMAIN w = 1..m /\ Head(w) = w[1]
  BY LenProperties, EmptySeq
<1>2. DOMAIN t = 1..(m - 1) /\ \A i \in 1..(m - 1) : t[i] = w[i + 1]
  BY HeadTailProperties, LenProperties
<1> HIDE DEF m, t
<1>3. \A i \in 1..(m - 1) : i + 1 \in 1..m
  BY <1>1
<1>4. ASSUME NoneIn(w, R) PROVE Head(w) \notin R /\ NoneIn(t, R)
  BY <1>1, <1>2, <1>3, <1>4 DEF NoneIn
<1>5. ASSUME LastIn(w, R, V) PROVE LastIn(t, R, V) \/ (Head(w) \in R \cap V /\ NoneIn(t, R))
  <2>1. PICK i \in 1..m : w[i] \in R \cap V /\ \A j \in 1..m : j > i => w[j] \notin R
    BY <1>1, <1>5 DEF LastIn
  <2>2. CASE i = 1
    <3>1. \A j \in 1..(m - 1) : t[j] \notin R
      BY <1>1, <1>2, <2>1, <2>2
    <3> QED BY <1>1, <1>2, <2>1, <2>2, <3>1 DEF NoneIn
  <2>3. CASE i # 1
    <3>1. i - 1 \in 1..(m - 1) /\ t[i - 1] = w[i]
      BY <1>1, <1>2, <2>1, <2>3
    <3>2. \A j \in 1..(m - 1) : j > i - 1 => t[j] \notin R
      BY <1>1, <1>2, <2>1
    <3> QED BY <1>2, <2>1, <3>1, <3>2 DEF LastIn
  <2> QED BY <2>2, <2>3
<1> QED BY <1>4, <1>5 DEF t

LEMMA Single ==
  ASSUME NEW e, NEW R, NEW V
  PROVE  /\ e \in R \cap V => LastIn(<<e>>, R, V)
         /\ e \notin R => NoneIn(<<e>>, R)
<1>1. DOMAIN <<e>> = {1} /\ <<e>>[1] = e
  OBVIOUS
<1> QED BY <1>1 DEF LastIn, NoneIn

LEMMA Nothing == ASSUME NEW R PROVE NoneIn(<<>>, R)
<1>1. DOMAIN <<>> = {}
  OBVIOUS
<1> QED BY <1>1 DEF NoneIn

LEMMA SomeInConcat ==
  ASSUME NEW E, NEW w \in Seq(E), NEW u \in Seq(E), NEW R
  PROVE  ~NoneIn(w, R) \/ ~NoneIn(u, R) => ~NoneIn(w \o u, R)
<1> DEFINE m == Len(w)
           n == Len(u)
<1>1. /\ m \in Nat /\ n \in Nat /\ DOMAIN w = 1..m /\ DOMAIN u = 1..n /\ DOMAIN (w \o u) = 1..(m + n)
      /\ \A i \in 1..(m + n) : (w \o u)[i] = IF i <= m THEN w[i] ELSE u[i - m]
  BY LenProperties, ConcatProperties
<1>2. \A i \in 1..m : i \in 1..(m + n) /\ (w \o u)[i] = w[i]
  BY <1>1
<1>3. \A i \in 1..n : i + m \in 1..(m + n) /\ (w \o u)[i + m] = u[i]
  BY <1>1
<1> HIDE DEF m, n
<1> QED BY <1>1, <1>2, <1>3 DEF NoneIn

LEMMA SomeTaken ==
  ASSUME NEW E, NEW w \in Seq(E), w # <<>>, NEW R
  PROVE  ~NoneIn(w, R) => Head(w) \in R \/ ~NoneIn(Tail(w), R)
<1> DEFINE m == Len(w)
           t == Tail(w)
<1>1. m \in Nat \ {0} /\ DOMAIN w = 1..m /\ Head(w) = w[1]
  BY LenProperties, EmptySeq
<1>2. DOMAIN t = 1..(m - 1) /\ \A i \in 1..(m - 1) : t[i] = w[i + 1]
  BY HeadTailProperties, LenProperties
<1> HIDE DEF m, t
<1>3. \A i \in 1..m : i # 1 => i - 1 \in 1..(m - 1) /\ t[i - 1] = w[i]
  BY <1>1, <1>2
<1>4. ~NoneIn(w, R) => Head(w) \in R \/ ~NoneIn(t, R)
  BY <1>1, <1>2, <1>3 DEF NoneIn
<1> QED BY <1>4 DEF t

LEMMA NoneFewer == ASSUME NEW w, NEW R, NEW Q, NoneIn(w, R), Q \subseteq R PROVE NoneIn(w, Q)
BY DEF NoneIn

LEMMA AppendConcat ==
  ASSUME NEW E, NEW w \in Seq(E), NEW e \in E
  PROVE  Append(w, e) = w \o <<e>> /\ <<e>> \in Seq(E)
<1>1. <<e>> \in Seq(E)
  OBVIOUS
<1>2. Append(w, e) = w \o <<e>>
  BY AppendIsConcat
<1> QED BY <1>1, <1>2

LEMMA EmptyHasNone == ASSUME NEW R, NEW V PROVE NoneIn(<<>>, R) /\ ~LastIn(<<>>, R, V)
<1>1. DOMAIN <<>> = {}
  OBVIOUS
<1> QED BY <1>1 DEF LastIn, NoneIn

\* Only what is said of the elements matters.
LEMMA SameLast ==
  ASSUME NEW w, NEW R, NEW V, NEW Q, NEW U,
         \A i \in DOMAIN w : (w[i] \in R <=> w[i] \in Q) /\ (w[i] \in R \cap V => w[i] \in U)
  PROVE  /\ LastIn(w, R, V) => LastIn(w, Q, U)
         /\ NoneIn(w, R) => NoneIn(w, Q)
BY DEF LastIn, NoneIn

----------------------------------------------------------------------------
(***************************************************************************)
(* History: what was answered when a request began is answered, and who    *)
(* has been up ever since is up.                                           *)
(***************************************************************************)
\* A step that takes a free slot for a request about d.
Takes(s, d) ==
  /\ s \in Free /\ d \in Registered
  /\ before'[s] = {x \in Slot : req[x].pc = "done"}
  /\ steady'[s] = {k \in Socket : Up(k, d)}
  /\ \A e \in Registered : s \in About(e)' <=> e = d
  /\ port' = port /\ UNCHANGED sockets

LEMMA ReadLineTakes ==
  ASSUME IBase, NEW s \in Slot, ReadLine(s) PROVE \E d \in Registered : Takes(s, d)
<1> USE Typed
<1>0. before \in [Slot -> SUBSET Slot] /\ steady \in [Slot -> SUBSET Socket]
  BY DEF IBase, BridgeTypeOK
<1>1. PICK x \in Lines : /\ post' = [post EXCEPT ![s] = [device |-> x[1], value |-> x[2], at |-> "sent"]]
                         /\ Starts(s, x[1])
  BY DEF ReadLine
<1>2. x[1] \in Registered /\ [device |-> x[1], value |-> x[2], at |-> "sent"] \in Post
  BY BridgeAssumption DEF Post
<1>3. post'[s] # None /\ post'[s].device = x[1] /\ req'[s] = req[s] /\ s \in Free
  BY <1>1, <1>2, NoPostAssumption DEF ReadLine, vars
<1>4. req[s].device = None /\ \A e \in Registered : e # None
  BY <1>3, FreeIsFree DEF Free
<1>5. \A e \in Registered : s \in About(e)' <=> e = x[1]
  BY <1>3, <1>4 DEF About
<1> QED BY <1>0, <1>1, <1>2, <1>3, <1>5 DEF Takes, Starts, ReadLine

LEMMA OrderTakes ==
  ASSUME IBase, NEW s \in Slot, Order(s) PROVE \E d \in Registered : Takes(s, d)
<1>0. before \in [Slot -> SUBSET Slot] /\ steady \in [Slot -> SUBSET Socket]
  BY DEF IBase, BridgeTypeOK
<1>1. /\ s \in Free /\ Starts(s, req'[s].device) /\ <<req'[s].device, req'[s].value>> \in Orders
      /\ UNCHANGED <<script, sockets>>
  BY DEF Order
<1>2. req'[s].device \in Registered
  BY <1>1, BridgeAssumption
<1>3. post'[s] = None
  BY <1>1 DEF Free, script
<1>4. \A e \in Registered : s \in About(e)' <=> e = req'[s].device
  BY <1>2, <1>3 DEF About
<1> QED BY <1>0, <1>1, <1>2, <1>4 DEF Takes, Starts, script

\* A slot is taken, or its history stays.
LEMMA TakenOrKept ==
  ASSUME IBase, [BridgeNext]_allVars, NEW s \in Free
  PROVE  \/ \E d \in Registered : Takes(s, d)
         \/ before'[s] = before[s] /\ steady'[s] \subseteq steady[s]
            /\ \A d \in Registered : s \notin About(d)'
<1> USE Typed
<1>0. /\ before \in [Slot -> SUBSET Slot] /\ steady \in [Slot -> SUBSET Socket]
      /\ s \in Slot /\ req[s].pc = "new" /\ post[s] = None
  BY DEF IBase, BridgeTypeOK, Free
<1>a. ASSUME req'[s] = req[s], post'[s] = post[s] PROVE \A d \in Registered : s \notin About(d)'
  BY <1>0, <1>a, FreeIsFree DEF About
<1>1. ASSUME NEW t \in Slot, t # s, ReadLine(t) \/ Order(t)
      PROVE  before'[s] = before[s] /\ steady'[s] = steady[s] /\ req'[s] = req[s] /\ post'[s] = post[s]
  <2>1. \A d : Starts(t, d) => before'[s] = before[s] /\ steady'[s] = steady[s]
    BY <1>0, <1>1 DEF Starts
  <2>2. ReadLine(t) => req'[s] = req[s] /\ post'[s] = post[s]
    BY <1>1 DEF ReadLine, vars
  <2>3. Order(t) => req'[s] = req[s] /\ post'[s] = post[s]
    BY <1>0, <1>1, Begun DEF Order, script
  <2> QED BY <1>1, <2>1, <2>2, <2>3 DEF ReadLine, Order
<1>2. ASSUME NEW t \in Slot, Arrives(t)
      PROVE  before' = before /\ steady' = steady /\ req'[s] = req[s] /\ post'[s] = post[s]
  <2>1. t # s
    BY <1>0, <1>2 DEF Arrives
  <2>2. req'[s] = req[s]
    BY <1>0, <1>2, <2>1, Begun DEF Arrives, vars
  <2>3. post'[s] = post[s]
    BY <1>0, <1>2, <2>1 DEF Arrives
  <2> QED BY <1>2, <2>2, <2>3 DEF Arrives, history
<1>3. ASSUME NEW t \in Slot, Handle(t) \/ Emit(t)
      PROVE  before' = before /\ steady' = steady /\ req'[s] = req[s] /\ post' = post
  <2>1. Step(t) /\ before' = before /\ steady' = steady /\ post' = post
    BY <1>3 DEF Handle, Emit, Step, DevicesStep, script, history
  <2> QED BY <1>0, <2>1, HandlersGo DEF Moves
<1>4. ASSUME SocketStep
      PROVE  req' = req /\ before' = before /\ steady'[s] \subseteq steady[s] /\ post'[s] = post[s]
  <2>1. steady' = steady \/ \E k : Down(k)
    BY <1>4 DEF SocketStep, PostLost, Notify, Work, Open, Unplug, NextMinute, Connect, Disconnect,
       Hear, Join, Leave, history
  <2>2. post' = post \/ \E t \in Slot : PostLost(t)
    BY <1>4 DEF SocketStep, Notify, Work, Open, Unplug, NextMinute, Connect,
       Disconnect, Hear, Join, Leave, script
  <2>3. \A t \in Slot : PostLost(t) => post'[s] = post[s]
    BY <1>0 DEF PostLost
  <2> QED BY <1>0, <1>4, <2>1, <2>2, <2>3, SocketsAreQuiet DEF Quietly, Down
<1>5. CASE UNCHANGED allVars
  BY <1>5, <1>a DEF allVars, vars, script, history
<1>6. CASE SocketStep
  BY <1>4, <1>6, <1>a
<1>7. CASE \E t \in Slot : ReadLine(t) \/ Order(t)
  BY <1>1, <1>7, <1>a, ReadLineTakes, OrderTakes
<1>8. CASE \E t \in Slot : Arrives(t) \/ Handle(t) \/ Emit(t)
  BY <1>2, <1>3, <1>8, <1>a
<1>9. CASE FailStep
  BY <1>0, <1>9, <1>a, FailuresCut DEF CutOff
<1> QED BY <1>5, <1>6, <1>7, <1>8, <1>9, BridgeCases

\* Who gets what concerns a device goes on getting it, or is noticed to be down.
LEMMA UpStays ==
  ASSUME IBase, [BridgeNext]_allVars, NEW k \in Socket, NEW d \in Registered, Up(k, d)
  PROVE  Up(k, d)' \/ Down(k) \/ Restart
<1>0. /\ port \in [Script -> {"closed", "open", "dead"}] /\ (k \in Script \/ k \in Client)
      /\ joined \subseteq (Client \cap link) \X RoomId
  BY DEF IBase, BridgeTypeOK, Socket
<1>1. ASSUME NEW g \in Script, Open(g) \/ NextMinute(g) PROVE Up(k, d)'
  BY <1>0, <1>1 DEF Open, NextMinute, Up, sockets
<1>2. ASSUME NEW g \in Script, Unplug(g) PROVE Up(k, d)' \/ Down(k)
  BY <1>0, <1>2 DEF Unplug, Up, sockets
<1>3. ASSUME NEW x \in Socket, Connect(x) PROVE Up(k, d)'
  BY <1>3 DEF Connect, Up, script
<1>4. ASSUME NEW x \in Socket, Disconnect(x) PROVE Up(k, d)' \/ Down(k)
  BY <1>4 DEF Disconnect, Up, script
<1>5. ASSUME NEW c \in Client, NEW r \in RoomId, Join(c, r) PROVE Up(k, d)'
  BY <1>5 DEF Join, Up, script
<1>6. ASSUME NEW c \in Client, NEW r \in RoomId, Leave(c, r) PROVE Up(k, d)' \/ Down(k)
  BY <1>6 DEF Leave, Up, script
<1>7. \/ port' = port /\ link' = link /\ joined' = joined
      \/ \E g \in Script : Open(g) \/ NextMinute(g) \/ Unplug(g)
      \/ \E x \in Socket : Connect(x) \/ Disconnect(x)
      \/ \E c \in Client, r \in RoomId : Join(c, r) \/ Leave(c, r)
      \/ Restart
  BY DEF BridgeNext, PostLost, Notify, Work, Hear, ReadLine, Order, Arrives, Handle, Emit, Fails,
     script, sockets, allVars
<1>8. CASE port' = port /\ link' = link /\ joined' = joined
  BY <1>8 DEF Up
<1> QED BY <1>1, <1>2, <1>3, <1>4, <1>5, <1>6, <1>7, <1>8

LEMMA HistoryNext == IBase /\ HistoryOK /\ [BridgeNext]_allVars => HistoryOK'
<1> SUFFICES ASSUME IBase, HistoryOK, [BridgeNext]_allVars, NEW s \in Slot
             PROVE  /\ s \in cut' => req'[s].pc = "done"
                    /\ before'[s] \subseteq {x \in Slot : req'[x].pc = "done"}
                    /\ \A k \in steady'[s] : \E d \in Registered : s \in About(d)'
                    /\ \A d \in Registered : s \in About(d)' => \A k \in steady'[s] : Up(k, d)'
  BY DEF HistoryOK
<1>0. steady \in [Slot -> SUBSET Socket]
  BY DEF IBase, BridgeTypeOK
<1>1. /\ \A x \in Slot : req[x].pc = "done" => req'[x].pc = "done"
      /\ s \in cut' => req'[s].pc = "done"
  BY DoneStays, CutGrows DEF CutOff, HistoryOK
<1>2. CASE s \in Free /\ \E d \in Registered : Takes(s, d)
  <2>1. PICK d \in Registered : Takes(s, d)
    BY <1>2
  <2>2. \A k : Up(k, d) => Up(k, d)'
    BY <2>1 DEF Takes, Up, sockets
  <2> QED BY <1>1, <2>1, <2>2 DEF Takes
<1>3. CASE /\ s \in Free /\ before'[s] = before[s] /\ steady'[s] \subseteq steady[s]
           /\ \A d \in Registered : s \notin About(d)'
  <2>1. steady[s] = {}
    BY <1>3, FreeIsAboutNothing DEF HistoryOK
  <2> QED BY <1>1, <1>3, <2>1 DEF HistoryOK
<1>4. CASE s \notin Free
  <2>1. before'[s] = before[s] /\ steady'[s] \subseteq steady[s]
        /\ \A d \in Registered : s \in About(d)' <=> s \in About(d)
    BY <1>4, AboutStays
  <2>2. ASSUME NEW d \in Registered, s \in About(d)', NEW k \in steady'[s] PROVE Up(k, d)'
    <3>1. Up(k, d) /\ k \in Socket
      BY <1>0, <2>1, <2>2 DEF HistoryOK
    <3>2. ~Down(k) /\ ~Restart
      BY <1>0, <2>2 DEF Down, Restart
    <3> QED BY <3>1, <3>2, UpStays
  <2> QED BY <1>1, <2>1, <2>2 DEF HistoryOK
<1> QED BY <1>2, <1>3, <1>4, TakenOrKept

----------------------------------------------------------------------------
(***************************************************************************)
(* What is emitted.                                                        *)
(***************************************************************************)
UpdateEvent(s) == [kind |-> "update", device |-> req[s].device, state |-> StateOf(req[s])]

LEMMA Emission ==
  ASSUME IBase, NEW s \in Slot, Emit(s), NEW k \in Socket
  PROVE  /\ s \in Slot /\ req[s].pc = "emit" /\ req[s].device \in Registered
         /\ req'[s].pc = "done" /\ \A t \in Slot : t # s => req'[t] = req[t]
         /\ req'[s].op = req[s].op /\ req'[s].device = req[s].device /\ req'[s].value = req[s].value
         /\ devices' = devices /\ alerts' = alerts /\ logs' = logs
         /\ Emitted(k, s) \in Seq(Event) /\ AlertOf(s) \in Seq(Event)
         /\ <<UpdateEvent(s)>> \in Seq(Event) /\ <<CommandEvent(s)>> \in Seq(Event)
         /\ UpdateEvent(s) \in Event /\ CommandEvent(s) \in Event /\ AlertEvent(s) \in Event
         /\ UpdateOf(s) = <<UpdateEvent(s)>>
         /\ AlertOf(s) = IF alerts[s] # None THEN <<AlertEvent(s)>> ELSE <<>>
         /\ CommandOf(k, s) = IF req[s].op = "control" /\ k \in Script THEN <<CommandEvent(s)>> ELSE <<>>
<1>1. (StatusEmit(s) \/ ControlEmit(s)) /\ req[s].pc = "emit"
  BY DEF Emit, StatusEmit, ControlEmit, At
<1>2. req \in [Slot -> Request]
  BY Typed
<1>3. Moves(s, "done")
  BY <1>1, <1>2, GotoMoves DEF StatusEmit, ControlEmit, Pc
<1>4. devices' = devices /\ alerts' = alerts /\ logs' = logs
  BY <1>1 DEF StatusEmit, ControlEmit
<1>5. UpdateOf(s) = <<UpdateEvent(s)>>
  BY DEF UpdateOf, UpdateEvent, StateOf
<1>6. Shape(req[s])
  BY DEF IBase, IPlatform, AllReady, Ready
<1>7. StateOf(req[s]) \in DeviceState /\ req[s].device \in Registered
  BY <1>1, <1>6, EmittedTyped DEF StateOf, Shape, NewState, DeviceState, StatusEmit, ControlEmit, At
<1>8. UpdateEvent(s) \in Event
  BY <1>7 DEF UpdateEvent, Event
<1>9. CommandEvent(s) \in Event /\ AlertEvent(s) \in Event
  BY DEF CommandEvent, AlertEvent, Event
<1>10. <<UpdateEvent(s)>> \in Seq(Event) /\ <<CommandEvent(s)>> \in Seq(Event)
  BY <1>8, <1>9
<1>11. AlertOf(s) = IF alerts[s] # None THEN <<AlertEvent(s)>> ELSE <<>>
  BY DEF AlertOf, AlertEvent
<1>12. CommandOf(k, s) = IF req[s].op = "control" /\ k \in Script THEN <<CommandEvent(s)>> ELSE <<>>
  BY DEF CommandOf, CommandEvent
<1> QED BY <1>1, <1>3, <1>4, <1>5, <1>7, <1>8, <1>9, <1>10, <1>11, <1>12, EmittedTyped DEF Moves

\* Nothing emitted is of a kind, if the three events are not.
LEMMA EmittedNone ==
  ASSUME IBase, NEW s \in Slot, Emit(s), NEW k \in Socket, NEW R,
         AlertEvent(s) \notin R,
         UpdateEvent(s) \notin R,
         CommandEvent(s) \notin R \/ k \notin Script
  PROVE  NoneIn(Emitted(k, s), R)
<1>0. <<>> \in Seq(Event)
  BY EmptySeq
<1>1. NoneIn(AlertOf(s), R) /\ NoneIn(UpdateOf(s), R)
  BY Emission, Single, Nothing
<1>2. NoneIn(CommandOf(k, s), R) /\ CommandOf(k, s) \in Seq(Event)
  BY <1>0, Emission, Single, Nothing
<1>3. AlertOf(s) \o UpdateOf(s) \in Seq(Event) /\ NoneIn(AlertOf(s) \o UpdateOf(s), R)
  <2>1. AlertOf(s) \in Seq(Event) /\ UpdateOf(s) \in Seq(Event)
    BY Emission
  <2> QED BY <1>1, <2>1, ConcatQuiet, ConcatProperties
<1> DEFINE first == IF <<k, RoomOf[req[s].device]>> \in joined THEN AlertOf(s) \o UpdateOf(s) ELSE <<>>
<1>4. first \in Seq(Event) /\ NoneIn(first, R)
  BY <1>0, <1>3, Nothing
<1>5. Emitted(k, s) = first \o CommandOf(k, s)
  BY DEF Emitted
<1> HIDE DEF first
<1> QED BY <1>2, <1>4, <1>5, ConcatQuiet

----------------------------------------------------------------------------
(***************************************************************************)
(* Commands under way are of answered requests; alerts come.               *)
(***************************************************************************)
\* A kind of event that no step emits.
LEMMA NoneNext ==
  ASSUME IBase, [BridgeNext]_allVars, NEW k \in Socket, NEW R, NoneIn(wire[k], R),
         \A s \in Slot : Emit(s) => NoneIn(Emitted(k, s), R),
         \A r \in RoomId : k \in Client => [kind |-> "joined", room |-> r] \notin R
  PROVE  NoneIn(wire'[k], R)
<1>0. wire[k] \in Seq(Event)
  BY DEF IBase, BridgeTypeOK
<1>1. ASSUME NEW s \in Slot, Emit(s) PROVE NoneIn(wire[k] \o Emitted(k, s), R)
  <2>1. Emitted(k, s) \in Seq(Event)
    BY <1>1, Emission
  <2> QED BY <1>0, <1>1, <2>1, ConcatQuiet
<1>2. ASSUME NEW r \in RoomId, k \in Client PROVE NoneIn(Append(wire[k], [kind |-> "joined", room |-> r]), R)
  <2> DEFINE e == [kind |-> "joined", room |-> r]
  <2>1. e \in Event /\ e \notin R
    BY <1>2 DEF Event
  <2> HIDE DEF e
  <2>2. <<e>> \in Seq(Event) /\ NoneIn(<<e>>, R) /\ Append(wire[k], e) = wire[k] \o <<e>>
    BY <1>0, <2>1, Single, AppendIsConcat
  <2>3. NoneIn(Append(wire[k], e), R)
    BY <1>0, <2>2, ConcatQuiet
  <2> QED BY <2>3 DEF e
<1>3. wire[k] # <<>> => NoneIn(Tail(wire[k]), R)
  BY <1>0, Taken
<1> QED BY <1>1, <1>2, <1>3, WireCases, Nothing DEF Hear

LEMMA CommandsNext == IBase /\ CommandsDone /\ [BridgeNext]_allVars => CommandsDone'
<1> SUFFICES ASSUME IBase, CommandsDone, [BridgeNext]_allVars PROVE CommandsDone'
  OBVIOUS
<1>0. wire \in [Socket -> Seq(Event)] /\ written \in [Script -> Seq(Slot)]
  BY DEF IBase, BridgeTypeOK
<1>1. Unanswered' \subseteq Unanswered /\ Premature' \subseteq Premature
  BY DoneStays DEF Unanswered, Premature
<1>2. ASSUME NEW k \in Socket PROVE NoneIn(wire[k], Premature')
  BY <1>1, NoneFewer DEF CommandsDone
<1>3. ASSUME NEW k \in Socket, NEW s \in Slot, Emit(s) PROVE NoneIn(Emitted(k, s), Premature')
  <2>1. s \notin Unanswered'
    BY <1>3, Emission DEF Unanswered
  <2>2. AlertEvent(s) \notin Premature' /\ UpdateEvent(s) \notin Premature' /\ CommandEvent(s) \notin Premature'
    BY <2>1 DEF Premature, AlertEvent, UpdateEvent, CommandEvent
  <2> HIDE DEF AlertEvent
  <2> QED BY <1>3, <2>2, EmittedNone
<1>4. ASSUME NEW r \in RoomId PROVE [kind |-> "joined", room |-> r] \notin Premature'
  BY DEF Premature
<1>5. \A k \in Socket : NoneIn(wire'[k], Premature')
  BY <1>2, <1>3, <1>4, NoneNext
<1>6. ASSUME NEW g \in Script PROVE NoneIn(written'[g], Unanswered')
  <2>1. NoneIn(written[g], Unanswered')
    BY <1>1, NoneFewer DEF CommandsDone
  <2>2. ASSUME NEW k \in Socket, Hear(k), written'[g] # written[g]
        PROVE  /\ k = g /\ Head(wire[g]).kind = "command" /\ Head(wire[g]).slot \in Slot
               /\ Head(wire[g]) \in Event /\ wire[g] # <<>>
               /\ written'[g] = Append(written[g], Head(wire[g]).slot)
    <3>1. k \in Script
      BY <2>2, ClientHearing DEF Socket
    <3>2. /\ Head(wire[k]).kind = "command" /\ Head(wire[k]) \in Event /\ wire[k] # <<>>
          /\ written' = [written EXCEPT ![k] = Append(written[k], Head(wire[k]).slot)]
      BY <2>2, <3>1, ScriptHearing
    <3> QED BY <1>0, <2>2, <3>1, <3>2, EventFields
  <2>3. CASE written'[g] = written[g]
    BY <2>1, <2>3
  <2>4. CASE \E k \in Socket : Hear(k) /\ written'[g] # written[g]
    <3> DEFINE e == Head(wire[g])
    <3>1. /\ e.kind = "command" /\ e.slot \in Slot /\ e \in Event /\ wire[g] # <<>> /\ g \in Socket
          /\ written'[g] = Append(written[g], e.slot)
      BY <2>2, <2>4 DEF Socket
    <3>2. e \notin Premature
      BY <1>0, <3>1, Taken DEF CommandsDone
    <3> HIDE DEF e
    <3>3. e.slot \notin Unanswered'
      BY <1>1, <3>1, <3>2 DEF Premature
    <3>a. NoneIn(<<e.slot>>, Unanswered')
      BY <3>3, Single
    <3>b. <<e.slot>> \in Seq(Slot)
      BY <3>1
    <3>c. Append(written[g], e.slot) = written[g] \o <<e.slot>>
      BY <1>0, <3>1, AppendIsConcat
    <3>4. /\ NoneIn(<<e.slot>>, Unanswered') /\ <<e.slot>> \in Seq(Slot)
          /\ Append(written[g], e.slot) = written[g] \o <<e.slot>>
      BY <3>a, <3>b, <3>c
    <3>5. NoneIn(written[g] \o <<e.slot>>, Unanswered')
      BY <1>0, <2>1, <3>4, ConcatQuiet
    <3> QED BY <3>1, <3>4, <3>5
  <2> QED BY <2>3, <2>4, HearMoves
<1> QED BY <1>5, <1>6 DEF CommandsDone

\* A handler that answers has emitted, or has done nothing.
LEMMA HandlerAnswers ==
  ASSUME IBase, [BridgeNext]_allVars, ~FailStep, NEW s \in Slot, req[s].pc # "done", req'[s].pc = "done"
  PROVE  /\ s \notin Free /\ req'[s].op = req[s].op
         /\ Emit(s) \/ (req[s].pc = "device" /\ logs'[s] = None /\ alerts'[s] = None)
<1>1. \A t \in Slot : ReadLine(t) \/ SocketStep \/ UNCHANGED allVars => req' = req
  BY SocketsAreQuiet DEF ReadLine, Quietly, allVars, vars
<1>2. ASSUME NEW t \in Slot, Order(t) \/ Arrives(t) PROVE FALSE
  BY <1>2, Begun DEF Order, Arrives, vars
<1>3. PICK t \in Slot : Handle(t) \/ Emit(t)
  BY <1>1, <1>2, BridgeCases
<1>4. Step(t)
  BY <1>3 DEF Handle, Emit, Step, DevicesStep
<1>5. t = s /\ req[s].pc # "new" /\ req'[s].op = req[s].op
  BY <1>4, HandlersGo DEF Moves
<1>6. ASSUME Handle(s) PROVE req[s].pc = "device" /\ logs' = logs /\ alerts' = alerts
  <2>1. DevicesStep(s) /\ ~StatusEmit(s) /\ ~ControlEmit(s)
    BY <1>4, <1>5, <1>6, HandlersGo DEF Handle, StatusEmit, ControlEmit
  <2>2. \A pc \in Pc : Goto(s, pc) => req'[s].pc = pc
    BY Typed, GotoMoves DEF Moves
  <2> QED BY <2>1, <2>2 DEF DevicesStep, StatusDevice, StatusLog, StatusUpdate, StatusAlert,
          ControlDevice, ControlLog, ControlUpdate, At, platform, Pc
<1>7. Ready(s, req[s])
  BY DEF IBase, IPlatform, AllReady
<1>8. req[s].pc = "device" => logs[s] = None /\ alerts[s] = None
  BY <1>7, BusyHasOp DEF Ready
<1> QED BY <1>3, <1>5, <1>6, <1>8 DEF Free

\* A request that is just over has come through, or has done nothing, or was cut off.
LEMMA JustAnswered ==
  ASSUME IBase, [BridgeNext]_allVars, NEW s \in Slot, req[s].pc # "done", req'[s].pc = "done"
  PROVE  /\ s \notin Free /\ req'[s].op = req[s].op
         /\ \/ Emit(s) \/ s \in cut'
            \/ req[s].pc = "device" /\ logs'[s] = None /\ alerts'[s] = None
<1>1. CASE FailStep
  BY <1>1, FailuresCut DEF CutOff, Free
<1> QED BY <1>1, HandlerAnswers

\* A socket that was up when s began is up when s emits.
LEMMA EmitsToSteady ==
  ASSUME IBase, HistoryOK, NEW s \in Slot, Emit(s), NEW k \in steady'[s]
  PROVE  /\ k \in Socket /\ k \in steady[s] /\ s \in About(req[s].device)
         /\ Up(k, req[s].device) /\ k \in link
         /\ wire'[k] = wire[k] \o Emitted(k, s)
<1>0. steady' = steady /\ steady \in [Slot -> SUBSET Socket]
  BY DEF IBase, BridgeTypeOK, Emit, history
<1>1. k \in Socket /\ k \in steady[s]
  BY <1>0
<1>2. req[s].device \in Registered /\ s \in About(req[s].device)
  BY <1>1, Emission DEF About
<1>3. Up(k, req[s].device)
  BY <1>1, <1>2 DEF HistoryOK
<1>4. wire'[k] = wire[k] \o Emitted(k, s)
  BY <1>1, <1>3 DEF Emit, Up
<1> QED BY <1>1, <1>2, <1>3, <1>4 DEF Up

LEMMA HeardGrows ==
  ASSUME IBase, [BridgeNext]_allVars, NEW c \in Client PROVE heard[c] \subseteq heard'[c]
<1>0. heard \in [Client -> SUBSET Slot]
  BY DEF IBase, BridgeTypeOK
<1>1. ASSUME NEW k \in Socket, Hear(k) PROVE heard[c] \subseteq heard'[c]
  BY <1>0, <1>1, ScriptHearing, ClientRemembers DEF Socket
<1> QED BY <1>1, HearMoves

LEMMA AlertsNext ==
  IBase /\ HistoryOK /\ AlertComes /\ [BridgeNext]_allVars => AlertComes'
<1> SUFFICES ASSUME IBase, HistoryOK, AlertComes, [BridgeNext]_allVars, NEW s \in Slot, NEW c \in Client,
                    req'[s].op = "status", req'[s].pc = "done", alerts'[s] # None, s \notin cut',
                    c \in steady'[s], s \notin heard'[c]
             PROVE  ~NoneIn(wire'[c], {AlertEvent(s)})
  BY DEF AlertComes, At
<1> DEFINE A == {AlertEvent(s)}
<1> HIDE DEF A
<1>0. wire \in [Socket -> Seq(Event)] /\ c \in Socket /\ heard \in [Client -> SUBSET Slot]
      /\ steady \in [Slot -> SUBSET Socket]
  BY DEF IBase, BridgeTypeOK, Socket
<1>1. CASE req[s].pc = "done"
  <2>1. req'[s] = req[s] /\ alerts'[s] = alerts[s]
    BY <1>1, DoneStays
  <2>2. c \in steady[s]
    BY <1>1, AboutStays DEF Free
  <2>3. ~NoneIn(wire[c], A)
    BY <2>1, <2>2, HeardGrows, CutGrows DEF AlertComes, At, A
  <2>4. ASSUME NEW u \in Seq(Event) PROVE ~NoneIn(wire[c] \o u, A)
    BY <1>0, <2>3, SomeInConcat
  <2>5. ASSUME NEW t \in Slot, Emit(t) PROVE ~NoneIn(wire[c] \o Emitted(c, t), A)
    BY <1>0, <2>4, <2>5, Emission
  <2>6. ASSUME NEW r \in RoomId PROVE ~NoneIn(Append(wire[c], [kind |-> "joined", room |-> r]), A)
    <3> DEFINE e == [kind |-> "joined", room |-> r]
    <3>1. e \in Event
      BY DEF Event
    <3> HIDE DEF e
    <3>2. Append(wire[c], e) = wire[c] \o <<e>> /\ <<e>> \in Seq(Event)
      BY <1>0, <3>1, AppendConcat
    <3>3. ~NoneIn(Append(wire[c], e), A)
      BY <2>4, <3>2
    <3> QED BY <3>3 DEF e
  <2>7. ~Disconnect(c) /\ ~Restart
    BY <1>0 DEF Disconnect, Down, Restart
  <2>8. Hear(c) => ~NoneIn(Tail(wire[c]), A)
    <3> SUFFICES ASSUME Hear(c) PROVE ~NoneIn(Tail(wire[c]), A)
      OBVIOUS
    <3>1. heard' = [heard EXCEPT ![c] = @ \cup {x \in Slot : Head(wire[c]) = AlertEvent(x)}]
      BY ClientRemembers
    <3>2. Head(wire[c]) # AlertEvent(s)
      BY <1>0, <3>1
    <3> QED BY <1>0, <2>3, <3>2, SomeTaken DEF A, Hear
  <2> QED BY <1>0, <2>3, <2>5, <2>6, <2>7, <2>8, WireCases DEF A
<1>2. CASE req[s].pc # "done"
  <2>1. Emit(s) /\ alerts[s] # None
    BY <1>0, <1>2, JustAnswered, Emission
  <2>2. Up(c, req[s].device) /\ wire'[c] = wire[c] \o Emitted(c, s) /\ c \notin Script
    BY <2>1, EmitsToSteady, BridgeAssumption
  <2>3. AlertOf(s) = <<AlertEvent(s)>> /\ AlertOf(s) \in Seq(Event) /\ Emitted(c, s) \in Seq(Event)
        /\ UpdateOf(s) \in Seq(Event) /\ CommandOf(c, s) = <<>> /\ <<>> \in Seq(Event)
    BY <1>0, <2>1, <2>2, Emission, EmptySeq
  <2>4. ~NoneIn(AlertOf(s), A)
    <3>1. DOMAIN <<AlertEvent(s)>> = {1} /\ <<AlertEvent(s)>>[1] = AlertEvent(s)
      OBVIOUS
    <3> QED BY <2>3, <3>1 DEF NoneIn, A
  <2>5. AlertOf(s) \o UpdateOf(s) \in Seq(Event) /\ ~NoneIn(AlertOf(s) \o UpdateOf(s), A)
    BY <2>3, <2>4, SomeInConcat, ConcatProperties
  <2>6. Emitted(c, s) = (AlertOf(s) \o UpdateOf(s)) \o CommandOf(c, s)
    BY <2>2 DEF Emitted, Up
  <2>7. ~NoneIn(Emitted(c, s), A)
    BY <2>3, <2>5, <2>6, SomeInConcat
  <2>8. ~NoneIn(wire[c] \o Emitted(c, s), A)
    BY <1>0, <2>3, <2>7, SomeInConcat
  <2> QED BY <2>2, <2>8 DEF A
<1> QED BY <1>1, <1>2

----------------------------------------------------------------------------
(***************************************************************************)
(* One after another: the last request about a device decides its state.   *)
(***************************************************************************)
LEMMA AboutDevice ==
  ASSUME IBase, NEW s \in Slot, req[s].pc # "new", NEW d \in Registered
  PROVE  s \in About(d) <=> req[s].device = d
BY BusyHasOp DEF About

\* Requests that will have come one after another did so far.
LEMMA LatestBefore ==
  ASSUME IBase, HistoryOK, [BridgeNext]_allVars, NEW d \in Registered, NEW s \in Slot, s \notin Free,
         Latest(d, s)'
  PROVE  Latest(d, s)
<1>1. s \in About(d) /\ before'[s] = before[s]
  BY AboutStays DEF Latest
<1>2. ASSUME NEW x \in About(d) PROVE x \in Slot /\ x \in About(d)'
  <2>1. x \in Slot
    BY DEF About
  <2>2. x \notin Free
    BY <1>2, FreeIsAboutNothing
  <2> QED BY <1>2, <2>1, <2>2, AboutStays
<1> QED BY <1>1, <1>2 DEF Latest

LEMMA SequentialBefore ==
  ASSUME IBase, [BridgeNext]_allVars, NEW d \in Registered, Sequential(d)'
  PROVE  Sequential(d)
<1>1. ASSUME NEW x \in About(d) PROVE x \in Slot /\ x \in About(d)' /\ before'[x] = before[x]
  <2>1. x \in Slot
    BY DEF About
  <2>2. x \notin Free
    BY <1>1, FreeIsAboutNothing
  <2> QED BY <1>1, <2>1, <2>2, AboutStays
<1> QED BY <1>1 DEF Sequential

LEMMA ActiveIsLatest ==
  ASSUME HistoryOK, NEW d \in Registered, Sequential(d), NEW s \in About(d), req[s].pc # "done"
  PROVE  Latest(d, s)
<1>1. ASSUME NEW x \in About(d), x # s PROVE x \in before[s]
  <2>1. x \in Slot /\ s \in Slot
    BY DEF About
  <2> QED BY <1>1, <2>1 DEF Sequential, HistoryOK
<1> QED BY <1>1 DEF Latest

LEMMA Emitting == ASSUME NEW s \in Slot, Emit(s) PROVE req[s].pc = "emit"
BY DEF Emit, StatusEmit, ControlEmit, At

\* A write to a device, by the handler of a request about it.
Writes(x, d) ==
  /\ x \in Slot /\ req[x].device = d /\ req[x].pc = "update" /\ req'[x].pc \in {"alert", "emit"}
  /\ devices'[d].state = StateOf(req[x])
  /\ \A e \in Registered : e # d => devices'[e] = devices[e]

LEMMA UpdateWrites ==
  ASSUME IBase, NEW x \in Slot, StatusUpdate(x) \/ ControlUpdate(x)
  PROVE  Writes(x, req[x].device)
<1> USE Typed
<1>1. \A pc \in Pc : Goto(x, pc) => req'[x].pc = pc
  BY GotoMoves DEF Moves
<1>2. req[x].pc = "update" /\ req'[x].pc \in {"alert", "emit"}
  BY <1>1 DEF StatusUpdate, ControlUpdate, At, Pc
<1>3. req[x].device \in Registered
  <2>1. Shape(req[x])
    BY DEF IBase, IPlatform, AllReady, Ready
  <2> QED BY <2>1 DEF StatusUpdate, ControlUpdate, At, Shape
<1>4. devices'[req[x].device].state = StateOf(req[x])
  <2>1. CASE StatusUpdate(x)
    BY <1>3, <2>1 DEF StatusUpdate, At, StateOf
  <2>2. CASE ControlUpdate(x)
    <3> DEFINE doc == [devices[req[x].device] EXCEPT !.state = NewState(req[x].value)]
    <3>1. devices' = [devices EXCEPT ![req[x].device] = doc]
      BY <2>2 DEF ControlUpdate
    <3>2. doc.state = NewState(req[x].value)
      BY <1>3
    <3> HIDE DEF doc
    <3> QED BY <1>3, <2>2, <3>1, <3>2 DEF ControlUpdate, At, StateOf
  <2> QED BY <2>1, <2>2
<1>5. \A e \in Registered : e # req[x].device => devices'[e] = devices[e]
  BY DEF StatusUpdate, ControlUpdate
<1> QED BY <1>2, <1>4, <1>5 DEF Writes

\* Only handlers touch the devices, and a request begins before its first call.
LEMMA HandlersWrite ==
  ASSUME IBase, [BridgeNext]_allVars
  PROVE  /\ devices' = devices \/ \E x \in Slot : Writes(x, req[x].device)
         /\ \A s \in Slot : req[s].pc = "new" => req'[s].pc \in {"new", "device"}
         /\ \A s \in Slot : req[s].pc \notin {"new", "alert", "emit"} /\ req'[s].pc \in {"alert", "emit"}
              => Writes(s, req[s].device)
         /\ \A s \in Slot : req[s].pc \in {"alert", "emit"} =>
              req'[s].pc \in {"alert", "emit"} \/ Emit(s) \/ s \in cut'
<1> USE Typed
<1>1. ASSUME NEW t \in Slot, ReadLine(t) \/ SocketStep \/ UNCHANGED allVars
      PROVE  devices' = devices /\ req' = req
  BY <1>1, SocketsAreQuiet DEF ReadLine, Quietly, allVars, vars
<1>2. ASSUME NEW t \in Slot, Order(t) \/ Arrives(t)
      PROVE  devices' = devices /\ \A s \in Slot : s # t => req'[s] = req[s]
  BY <1>2, Begun DEF Order, Arrives, vars, StatusBegin, ControlBegin, Begin, platform
<1>3. ASSUME NEW t \in Slot, Order(t) \/ Arrives(t)
      PROVE  req'[t] = req[t] \/ (req[t].pc = "new" /\ req'[t].pc = "device")
  BY <1>3, Begun DEF Order, Arrives, vars
<1>4. ASSUME NEW t \in Slot, Handle(t) \/ Emit(t)
      PROVE  /\ DevicesStep(t) /\ req[t].pc # "new" /\ \A s \in Slot : s # t => req'[s] = req[s]
             /\ devices' = devices \/ Writes(t, req[t].device)
             /\ req[t].pc \notin {"alert", "emit"} /\ req'[t].pc \in {"alert", "emit"}
                  => Writes(t, req[t].device)
             /\ req[t].pc \in {"alert", "emit"} => req'[t].pc \in {"alert", "emit"} \/ Emit(t)
  <2>1. Step(t)
    BY <1>4 DEF Handle, Emit, Step, DevicesStep
  <2>2. DevicesStep(t) /\ req[t].pc # "new" /\ \A s \in Slot : s # t => req'[s] = req[s]
    BY <2>1, HandlersGo DEF Moves
  <2>3. \A pc \in Pc : Goto(t, pc) => req'[t].pc = pc
    BY GotoMoves DEF Moves
  <2>4. \/ StatusUpdate(t) \/ ControlUpdate(t)
        \/ devices' = devices /\ req[t].pc \notin {"alert", "emit"} /\ req'[t].pc \in {"done", "log", "update"}
        \/ devices' = devices /\ req[t].pc = "alert" /\ req'[t].pc = "emit"
        \/ devices' = devices /\ req[t].pc = "emit"
    <3>1. {"done", "log", "update", "emit"} \subseteq Pc
      BY DEF Pc
    <3>2. CASE StatusDevice(t) \/ ControlDevice(t)
      <4>1. Goto(t, "log") \/ Goto(t, "done")
        BY <3>2 DEF StatusDevice, ControlDevice
      <4>2. devices' = devices /\ req[t].pc = "device"
        BY <3>2 DEF StatusDevice, ControlDevice, platform, At
      <4> QED BY <2>3, <3>1, <4>1, <4>2
    <3>3. CASE StatusLog(t) \/ ControlLog(t)
      BY <2>3, <3>1, <3>3 DEF StatusLog, ControlLog, At
    <3>4. CASE StatusAlert(t)
      BY <2>3, <3>1, <3>4 DEF StatusAlert, At
    <3>5. CASE StatusEmit(t) \/ ControlEmit(t)
      BY <3>5 DEF StatusEmit, ControlEmit, At
    <3> QED BY <2>2, <3>2, <3>3, <3>4, <3>5 DEF DevicesStep
  <2>5. req[t].pc = "emit" => Emit(t)
    <3>1. req[t].op \in {"status", "control"} \/ req[t].pc # "emit"
      BY <2>2, BusyHasOp
    <3> QED BY <1>4, <3>1 DEF Handle, At
  <2>6. StatusUpdate(t) \/ ControlUpdate(t) => Writes(t, req[t].device)
    BY UpdateWrites
  <2>7. devices' = devices \/ Writes(t, req[t].device)
    BY <2>4, <2>6
  <2>8. req[t].pc \notin {"alert", "emit"} /\ req'[t].pc \in {"alert", "emit"}
          => Writes(t, req[t].device)
    BY <2>4, <2>6
  <2>9. req[t].pc \in {"alert", "emit"} => req'[t].pc \in {"alert", "emit"} \/ Emit(t)
    BY <2>4, <2>5, <2>6 DEF Writes
  <2> QED BY <2>2, <2>7, <2>8, <2>9
<1>5. CASE \E t \in Slot : ReadLine(t) \/ SocketStep \/ UNCHANGED allVars
  BY <1>1, <1>5
<1>6. CASE \E t \in Slot : Order(t) \/ Arrives(t)
  BY <1>2, <1>3, <1>6
<1>7. CASE \E t \in Slot : Handle(t) \/ Emit(t)
  BY <1>4, <1>7
<1>8. CASE SocketStep \/ UNCHANGED allVars
  BY <1>8, SocketsAreQuiet DEF Quietly, allVars, vars
<1>9. CASE FailStep
  BY <1>9, FailuresCut DEF CutOff
<1> QED BY <1>5, <1>6, <1>7, <1>8, <1>9, BridgeCases

\* A log entry is something, and stays.
LEMMA LogsSomething ==
  ASSUME IBase, NEW s \in Slot, req[s].op \in {"status", "control"}, req[s].pc \in {"alert", "emit"}
  PROVE  LogOf(req[s]) # None
<1>1. Shape(req[s]) /\ req[s] \in Request
  BY DEF IBase, IPlatform, AllReady, Ready, PlatformTypes
<1>2. LogOf(req[s]) \in LogDoc
  BY <1>1 DEF Shape, LogOf, LogDoc, Request
<1> QED BY <1>2, NullAssumption

LEMMA LogsStay ==
  ASSUME IBase, [BridgeNext]_allVars, NEW s \in Slot, logs[s] # None PROVE logs'[s] # None
<1>0. Ready(s, req[s]) /\ logs \in [Slot -> LogDoc \cup {None}]
  BY DEF IBase, IPlatform, AllReady, PlatformTypes
<1>1. req[s].pc # "log"
  BY <1>0 DEF Ready
<1>2. ASSUME NEW t \in Slot, Handle(t) \/ Emit(t) PROVE logs'[s] = logs[s]
  <2>1. Step(t)
    BY <1>2 DEF Handle, Emit, Step, DevicesStep
  <2>2. DevicesStep(t)
    BY <2>1, HandlersGo
  <2>3. logs' = logs \/ (t # s /\ logs' = [logs EXCEPT ![t] = LogOf(req[t])])
    BY <1>1, <2>2 DEF DevicesStep, StatusDevice, StatusLog, StatusUpdate, StatusAlert, StatusEmit,
       ControlDevice, ControlLog, ControlUpdate, ControlEmit, At, platform
  <2> QED BY <1>0, <2>3
<1>3. ASSUME NEW t \in Slot, ReadLine(t) \/ Order(t) \/ Arrives(t) PROVE logs' = logs
  BY <1>3 DEF ReadLine, Order, Arrives, vars, StatusBegin, ControlBegin, Begin, platform
<1>4. SocketStep \/ FailStep \/ UNCHANGED allVars => logs' = logs
  BY SocketsAreQuiet, FailuresCut DEF Quietly, allVars, vars
<1> QED BY <1>2, <1>3, <1>4, BridgeCases

LEMMA LatestNext ==
  IBase /\ HistoryOK /\ LatestShown /\ [BridgeNext]_allVars => LatestShown'
<1> SUFFICES ASSUME IBase, HistoryOK, LatestShown, [BridgeNext]_allVars,
                    NEW d \in Registered, NEW s \in Slot, Latest(d, s)', Updated(s)'
             PROVE  devices'[d].state = StateOf(req'[s])
  BY DEF LatestShown, StateOf
<1>1. req[s].pc # "new" /\ s \notin Free
  BY HandlersWrite DEF Updated, Through, Free
<1>2. Latest(d, s) /\ req[s].device = d
  <2>1. Latest(d, s)
    BY <1>1, LatestBefore
  <2> QED BY <1>1, <2>1, AboutDevice DEF Latest
<1>3. StateOf(req'[s]) = StateOf(req[s])
  BY <1>1, AboutStays DEF StateOf
<1>4. CASE Updated(s)
  <2>1. devices[d].state = StateOf(req[s])
    BY <1>2, <1>4 DEF LatestShown
  <2>2. ASSUME NEW x \in Slot, Writes(x, d) PROVE FALSE
    <3>1. x # s /\ x \in About(d)
      BY <1>4, <2>2, AboutDevice DEF Updated, Through, Writes
    <3>2. x \in before[s]
      BY <1>2, <3>1 DEF Latest
    <3> QED BY <2>2, <3>2 DEF HistoryOK, Writes
  <2>3. devices'[d] = devices[d]
    BY <2>2, HandlersWrite DEF Writes
  <2> QED BY <1>3, <2>1, <2>3
<1>5. CASE ~Updated(s)
  <2>1. req[s].pc # "done"
    BY <1>5, DoneStays, CutGrows DEF Updated, Through
  <2>2. req'[s].pc # "done"
    BY <1>5, <2>1, JustAnswered, Emitting DEF Updated, Through
  <2>3. Writes(s, d)
    BY <1>1, <1>2, <1>5, <2>2, HandlersWrite DEF Updated, Through
  <2> QED BY <1>3, <2>3 DEF Writes
<1> QED BY <1>4, <1>5

----------------------------------------------------------------------------
(***************************************************************************)
(* Dashboards catch up.                                                    *)
(***************************************************************************)
\* Whoever wrote to a device leaves dashboards behind until an update is emitted.
LEMMA UpdatingStays ==
  ASSUME IBase, HistoryOK, [BridgeNext]_allVars, NEW d \in Registered, Updating(d),
         \A s \in Slot : Emit(s) => req[s].device # d
  PROVE  Updating(d)'
<1>1. PICK s \in About(d) : Silent(s) /\ \A x \in About(d) : s \in before[x] => ~Through(x)
  BY DEF Updating
<1>2. s \in Slot /\ req[s].pc # "new" /\ s \notin Free
  BY <1>1 DEF About, Silent, HistoryOK, Free
<1>3. s \in About(d)' /\ req[s].device = d
  BY <1>1, <1>2, AboutStays, AboutDevice
<1>4. Silent(s)'
  <2>1. CASE req[s].pc \in {"alert", "emit"}
    <3>1. Ready(s, req[s])
      BY <1>2 DEF IBase, IPlatform, AllReady
    <3>2. req[s].op \in {"status", "control"} => LogOf(req[s]) # None
      BY <1>2, <2>1, LogsSomething
    <3>3. logs[s] # None
      BY <1>2, <2>1, <3>1, <3>2, BusyHasOp DEF Ready
    <3>4. req'[s].pc \in {"alert", "emit"} \/ s \in cut'
      BY <1>2, <1>3, <2>1, HandlersWrite
    <3>5. logs'[s] # None
      BY <1>2, <3>3, LogsStay
    <3> QED BY <3>4, <3>5 DEF Silent
  <2>2. CASE s \in cut /\ logs[s] # None
    <3>1. s \in cut' /\ logs'[s] # None
      BY <1>2, <2>2, LogsStay, CutGrows
    <3> QED BY <3>1 DEF Silent
  <2> QED BY <1>1, <2>1, <2>2 DEF Silent
<1>5. ASSUME NEW x \in About(d)', s \in before'[x], Through(x)' PROVE FALSE
  <2>1. x \in Slot /\ req'[x].pc = "done" /\ logs'[x] # None /\ x \notin cut'
    BY <1>5 DEF About, Through
  <2>2. req[x].pc # "new" /\ x \notin Free
    BY <2>1, HandlersWrite DEF Free
  <2>3. x \in About(d) /\ before'[x] = before[x] /\ req[x].device = d
    BY <1>5, <2>1, <2>2, AboutStays, AboutDevice
  <2>4. ~Through(x)
    BY <1>1, <1>5, <2>3
  <2>5. CASE req[x].pc = "done"
    BY <2>1, <2>4, <2>5, DoneStays, CutGrows DEF Through
  <2>6. CASE req[x].pc # "done"
    BY <2>1, <2>3, <2>6, JustAnswered
  <2> QED BY <2>5, <2>6
<1> QED BY <1>3, <1>4, <1>5 DEF Updating

\* A write makes its device one that is being updated.
LEMMA WritesUpdating ==
  ASSUME IBase, HistoryOK, [BridgeNext]_allVars, NEW d \in Registered, ~Updating(d)'
  PROVE  devices'[d] = devices[d]
<1>1. ASSUME NEW x \in Slot, Writes(x, d) PROVE FALSE
  <2>1. x \notin Free /\ req[x].pc # "new" /\ req[x].device = d
    BY <1>1 DEF Writes, Free
  <2>2. x \in About(d)
    BY <2>1 DEF About
  <2>3. x \in About(d)' /\ Silent(x)'
    BY <1>1, <2>1, <2>2, AboutStays DEF Writes, Silent
  <2>4. ASSUME NEW y \in About(d)' PROVE x \notin before'[y]
    <3>1. y \in Slot /\ HistoryOK'
      BY HistoryNext DEF About
    <3> QED BY <1>1, <3>1 DEF HistoryOK, Writes
  <2> QED BY <2>3, <2>4 DEF Updating
<1>2. ASSUME NEW x \in Slot, Writes(x, req[x].device), req[x].device # d PROVE devices'[d] = devices[d]
  BY <1>2 DEF Writes
<1> QED BY <1>1, <1>2, HandlersWrite

\* In the channel of a room, the update is the last that is emitted.
LEMMA TellsRoom ==
  ASSUME IBase, NEW s \in Slot, Emit(s), NEW c \in Client, <<c, RoomOf[req[s].device]>> \in joined,
         NEW V, UpdateEvent(s) \in V
  PROVE  LastIn(wire'[c], Telling(req[s].device), V)
<1> DEFINE T == Telling(req[s].device)
<1>0. wire \in [Socket -> Seq(Event)] /\ c \in Socket /\ c \notin Script /\ c \in link
  BY BridgeAssumption DEF IBase, BridgeTypeOK, Socket
<1>1. /\ AlertOf(s) \in Seq(Event) /\ UpdateOf(s) \in Seq(Event) /\ CommandOf(c, s) = <<>>
      /\ Emitted(c, s) \in Seq(Event) /\ UpdateOf(s) = <<UpdateEvent(s)>> /\ UpdateEvent(s) \in Event
  BY <1>0, Emission
<1>2. UpdateEvent(s) \in T
  BY <1>1 DEF Telling, UpdateEvent
<1> HIDE DEF T
<1>3. LastIn(UpdateOf(s), T, V)
  BY <1>1, <1>2, Single
<1>4. LastIn(AlertOf(s) \o UpdateOf(s), T, V) /\ AlertOf(s) \o UpdateOf(s) \in Seq(Event)
  BY <1>1, <1>3, ConcatLast, ConcatProperties
<1>5. Emitted(c, s) = (AlertOf(s) \o UpdateOf(s)) \o <<>>
  BY <1>1 DEF Emitted
<1>6. LastIn(Emitted(c, s), T, V)
  BY <1>4, <1>5, ConcatQuiet, Nothing, EmptySeq
<1>7. LastIn(wire[c] \o Emitted(c, s), T, V)
  BY <1>0, <1>1, <1>6, ConcatLast
<1>8. wire'[c] = wire[c] \o Emitted(c, s)
  BY <1>0 DEF Emit
<1> QED BY <1>7, <1>8 DEF T

LEMMA ToldKept ==
  ASSUME IBase, [BridgeNext]_allVars, NEW c \in Client, ~Hear(c) PROVE told'[c] = told[c]
<1>1. ASSUME NEW g \in Script, Hear(g) PROVE told' = told
  BY <1>1, ScriptHearing
<1>2. ASSUME NEW x \in Client, Hear(x) PROVE told'[c] = told[c]
  <2>0. told \in [Client -> [Registered -> DeviceState \cup {None}]]
    BY DEF IBase, BridgeTypeOK
  <2>1. \A y \in Client, d \in Registered : y # x => told'[y][d] = told[y][d]
    BY <1>2, ClientRemembers
  <2>2. told' \in [Client -> [Registered -> DeviceState \cup {None}]] /\ c # x
    BY <1>2, ClientRemembers
  <2> QED BY <2>0, <2>1, <2>2
<1> QED BY <1>1, <1>2, HearMoves DEF Socket

LEMMA JoinShows ==
  ASSUME IBase, NEW c \in Client, NEW d \in Registered, Join(c, RoomOf[d])
  PROVE  \A state : LastIn(wire'[c], Telling(d), Truth(d, state))
<1> DEFINE e == [kind |-> "joined", room |-> RoomOf[d]]
<1>0. wire \in [Socket -> Seq(Event)] /\ c \in Socket /\ RoomOf[d] \in RoomId
  BY PlacesAssumption DEF IBase, BridgeTypeOK, Socket, Join
<1>1. e \in Event /\ \A state : e \in Telling(d) \cap Truth(d, state)
  BY <1>0 DEF Event, Telling, Truth
<1>2. wire'[c] = Append(wire[c], e)
  BY <1>0 DEF Join
<1> HIDE DEF e
<1>3. Append(wire[c], e) = wire[c] \o <<e>> /\ <<e>> \in Seq(Event)
  BY <1>0, <1>1, AppendConcat
<1>4. ASSUME NEW state PROVE LastIn(<<e>>, Telling(d), Truth(d, state))
  BY <1>1, Single
<1> QED BY <1>0, <1>2, <1>3, <1>4, ConcatLast

LEMMA ShowsStays ==
  ASSUME IBase, [BridgeNext]_allVars, NEW c \in Client, NEW d \in Registered,
         <<c, RoomOf[d]>> \in joined, <<c, RoomOf[d]>> \in joined',
         devices'[d] = devices[d], \A s \in Slot : Emit(s) => req[s].device # d, Shows(c, d)
  PROVE  Shows(c, d)'
<1> DEFINE T == Telling(d)
           V == Truth(d, devices[d].state)
<1>0. wire \in [Socket -> Seq(Event)] /\ c \in Socket /\ c \notin Script
  BY BridgeAssumption DEF IBase, BridgeTypeOK, Socket
<1>1. LastIn(wire[c], T, V) \/ (NoneIn(wire[c], T) /\ told[c][d] \in {None, devices[d].state})
  BY DEF Shows
<1>2. ASSUME \/ LastIn(wire'[c], T, V)
             \/ NoneIn(wire'[c], T) /\ told'[c][d] \in {None, devices[d].state}
      PROVE  Shows(c, d)'
  BY <1>2 DEF Shows, Telling, Truth
<1>3. ASSUME NEW s \in Slot, Emit(s) PROVE NoneIn(Emitted(c, s), T) /\ Emitted(c, s) \in Seq(Event)
  <2>1. AlertEvent(s) \notin T /\ UpdateEvent(s) \notin T
    BY <1>3 DEF Telling, AlertEvent, UpdateEvent
  <2> HIDE DEF T
  <2> QED BY <1>0, <1>3, <2>1, EmittedNone, Emission
<1>4. ASSUME NEW r \in RoomId, Join(c, r), wire'[c] = Append(wire[c], [kind |-> "joined", room |-> r])
      PROVE  \E u \in Seq(Event) : NoneIn(u, T) /\ wire'[c] = wire[c] \o u
  <2> DEFINE e == [kind |-> "joined", room |-> r]
  <2>1. e \in Event /\ e \notin T
    BY <1>4 DEF Join, Event, Telling
  <2>2. wire'[c] = Append(wire[c], e)
    BY <1>4
  <2> HIDE DEF e, T
  <2>3. wire'[c] = wire[c] \o <<e>> /\ <<e>> \in Seq(Event) /\ NoneIn(<<e>>, T)
    BY <1>0, <2>1, <2>2, AppendConcat, Single
  <2> QED BY <2>3
<1>5. CASE Hear(c)
  <2> DEFINE e == Head(wire[c])
  <2>1. told'[c][d] = Remembers(e, d, told[c][d]) /\ wire[c] # <<>> /\ wire'[c] = Tail(wire[c]) /\ e \in Event
    BY <1>5, ClientRemembers, ClientHearing
  <2>2. CASE LastIn(Tail(wire[c]), T, V)
    BY <1>2, <2>1, <2>2
  <2>3. CASE e \in T \cap V /\ NoneIn(Tail(wire[c]), T)
    <3>1. Remembers(e, d, told[c][d]) \in {None, devices[d].state}
      BY <2>3 DEF Remembers, Telling, Truth
    <3> QED BY <1>2, <2>1, <2>3, <3>1
  <2>4. CASE /\ e \notin T /\ NoneIn(Tail(wire[c]), T)
             /\ told[c][d] \in {None, devices[d].state}
    <3>1. Remembers(e, d, told[c][d]) = told[c][d]
      BY <2>1, <2>4 DEF Remembers, Telling
    <3> QED BY <1>2, <2>1, <2>4, <3>1
  <2> HIDE DEF T, V
  <2> QED BY <1>0, <1>1, <2>1, <2>2, <2>3, <2>4, Taken
<1>6. CASE ~Hear(c)
  <2>1. told'[c] = told[c] /\ ~Disconnect(c) /\ ~Restart
    BY <1>6, ToldKept DEF Disconnect, Restart
  <2>2. wire'[c] = wire[c] \/ \E u \in Seq(Event) : NoneIn(u, T) /\ wire'[c] = wire[c] \o u
    <3> HIDE DEF T
    <3> QED BY <1>0, <1>3, <1>4, <1>6, <2>1, WireCases
  <2>3. /\ LastIn(wire[c], T, V) => LastIn(wire'[c], T, V)
        /\ NoneIn(wire[c], T) => NoneIn(wire'[c], T)
    <3> HIDE DEF T, V
    <3>1. ASSUME NEW u \in Seq(Event), NoneIn(u, T)
          PROVE  /\ LastIn(wire[c], T, V) => LastIn(wire[c] \o u, T, V)
                 /\ NoneIn(wire[c], T) => NoneIn(wire[c] \o u, T)
      BY <1>0, <3>1, ConcatQuiet
    <3> QED BY <2>2, <3>1
  <2> QED BY <1>1, <1>2, <2>1, <2>3
<1> QED BY <1>5, <1>6

LEMMA ScreensNext ==
  IBase /\ HistoryOK /\ LatestShown /\ ScreensCatchUp /\ [BridgeNext]_allVars => ScreensCatchUp'
<1> SUFFICES ASSUME IBase, HistoryOK, LatestShown, ScreensCatchUp, [BridgeNext]_allVars,
                    NEW c \in Client, NEW d \in Registered,
                    <<c, RoomOf[d]>> \in joined', Sequential(d)', ~Updating(d)'
             PROVE  Shows(c, d)'
  BY DEF ScreensCatchUp
<1>1. Sequential(d) /\ devices'[d] = devices[d]
  BY SequentialBefore, WritesUpdating
<1>2. ASSUME NEW s \in Slot, Emit(s), req[s].device = d PROVE Shows(c, d)'
  <2>1. req[s].pc = "emit" /\ s \in About(d) /\ <<c, RoomOf[d]>> \in joined
    BY <1>2, Emitting DEF About, Emit
  <2>2. Latest(d, s)
    BY <1>1, <2>1, ActiveIsLatest
  <2>3. devices[d].state = StateOf(req[s])
    BY <2>1, <2>2 DEF LatestShown, Updated
  <2>4. UpdateEvent(s) \in Truth(d, devices[d].state)
    <3>1. c \in Socket
      BY DEF Socket
    <3>2. UpdateEvent(s) \in Event
      BY <1>2, <3>1, Emission
    <3> QED BY <2>3, <3>2 DEF UpdateEvent, Truth
  <2>5. LastIn(wire'[c], Telling(d), Truth(d, devices[d].state))
    BY <1>2, <2>1, <2>4, TellsRoom
  <2> QED BY <1>1, <2>5 DEF Shows, Telling, Truth
<1>3. CASE \A s \in Slot : Emit(s) => req[s].device # d
  <2>1. CASE <<c, RoomOf[d]>> \in joined
    <3>1. Shows(c, d)
      BY <1>1, <1>3, <2>1, UpdatingStays DEF ScreensCatchUp
    <3> QED BY <1>1, <1>3, <2>1, <3>1, ShowsStays
  <2>2. CASE <<c, RoomOf[d]>> \notin joined
    <3>1. Join(c, RoomOf[d])
      <4>2. \A k \in Socket : Connect(k) \/ Disconnect(k) => joined' \subseteq joined
        BY DEF Connect, Disconnect
      <4>3. \A x \in Client, r \in RoomId : Leave(x, r) => joined' \subseteq joined
        BY DEF Leave
      <4>4. PICK x \in Client, r \in RoomId : Join(x, r)
        BY <2>2, <4>2, <4>3, LinkMoves DEF Restart
      <4>5. joined' = joined \cup {<<x, r>>}
        BY <4>4 DEF Join
      <4> QED BY <2>2, <4>4, <4>5
    <3>2. LastIn(wire'[c], Telling(d), Truth(d, devices'[d].state))
      BY <3>1, JoinShows
    <3> QED BY <3>2 DEF Shows, Telling, Truth
  <2> QED BY <2>1, <2>2
<1> QED BY <1>2, <1>3

----------------------------------------------------------------------------
(***************************************************************************)
(* Orders reach the serial line in order.                                  *)
(***************************************************************************)
LEMMA AnsweredKeeps ==
  ASSUME IBase, [BridgeNext]_allVars, NEW x \in Slot, req'[x].pc = "done"
  PROVE  /\ req[x].pc # "new" /\ x \notin Free
         /\ req'[x].op = req[x].op /\ req'[x].device = req[x].device /\ req'[x].value = req[x].value
<1>1. req[x].pc # "new" /\ x \notin Free
  BY HandlersWrite DEF Free
<1> QED BY <1>1, AboutStays

LEMMA WrittenKept ==
  ASSUME IBase, [BridgeNext]_allVars, NEW g \in Script, ~Hear(g) PROVE written'[g] = written[g]
<1>0. written \in [Script -> Seq(Slot)]
  BY DEF IBase, BridgeTypeOK
<1>1. ASSUME NEW x \in Script, Hear(x) PROVE written'[g] = written[g]
  BY <1>0, <1>1, ScriptHearing
<1>2. ASSUME NEW c \in Client, Hear(c) PROVE written' = written
  BY <1>2, ClientHearing
<1> QED BY <1>1, <1>2, HearMoves DEF Socket

\* Which commands are about a device is settled by the time they are emitted.
LEMMA CommandingKept ==
  ASSUME IBase, CommandsDone, [BridgeNext]_allVars, NEW d \in Registered, NEW g \in Script, NEW V
  PROVE  /\ LastIn(wire'[g], Commanding(d), V) => LastIn(wire'[g], Commanding(d)', V)
         /\ NoneIn(wire'[g], Commanding(d)) => NoneIn(wire'[g], Commanding(d)')
         /\ LastIn(written'[g], Served(d), V) => LastIn(written'[g], Served(d)', V)
<1>0. CommandsDone' /\ g \in Socket
  BY CommandsNext DEF Socket
<1>1. ASSUME NEW e \in Event, e \notin Premature' PROVE e \in Commanding(d) <=> e \in Commanding(d)'
  <2>1. e.kind = "command" => e.slot \in Slot
    BY EventFields
  <2>2. e.kind = "command" => req'[e.slot].device = req[e.slot].device
    BY <1>1, <2>1, AnsweredKeeps DEF Premature, Unanswered
  <2> QED BY <2>2 DEF Commanding
<1>2. ASSUME NEW x \in Slot, x \notin Unanswered' PROVE x \in Served(d) <=> x \in Served(d)'
  BY <1>2, AnsweredKeeps DEF Served, Unanswered
<1>3. wire'[g] \in Seq(Event) /\ written'[g] \in Seq(Slot)
  BY <1>0, BaseNext DEF IBase, BridgeTypeOK
<1>4. \A i \in DOMAIN wire'[g] : wire'[g][i] \in Event /\ wire'[g][i] \notin Premature'
  <2>1. \A i \in DOMAIN wire'[g] : wire'[g][i] \in Event
    BY <1>3, LenProperties, ElementOfSeq
  <2> QED BY <1>0, <2>1 DEF CommandsDone, NoneIn
<1>5. \A i \in DOMAIN written'[g] : written'[g][i] \in Slot /\ written'[g][i] \notin Unanswered'
  <2>1. \A i \in DOMAIN written'[g] : written'[g][i] \in Slot
    BY <1>3, LenProperties, ElementOfSeq
  <2> QED BY <1>0, <2>1 DEF CommandsDone, NoneIn
<1>6. \A i \in DOMAIN wire'[g] : /\ wire'[g][i] \in Commanding(d) <=> wire'[g][i] \in Commanding(d)'
                                 /\ wire'[g][i] \in Commanding(d) \cap V => wire'[g][i] \in V
  BY <1>1, <1>4
<1>7. \A i \in DOMAIN written'[g] : /\ written'[g][i] \in Served(d) <=> written'[g][i] \in Served(d)'
                                    /\ written'[g][i] \in Served(d) \cap V => written'[g][i] \in V
  BY <1>2, <1>5
<1> QED BY <1>6, <1>7, SameLast

\* The order that a script reads next, when it can write.
ScriptReads(g, e) ==
  /\ e \in Event /\ wire[g] # <<>> /\ e = Head(wire[g]) /\ wire'[g] = Tail(wire[g])
  /\ e.kind = "command" => written'[g] = written[g] \o <<e.slot>> /\ <<e.slot>> \in Seq(Slot) /\ e.slot \in Slot
  /\ e.kind # "command" => written'[g] = written[g]
LEMMA OpenReads ==
  ASSUME IBase, NEW g \in Script, Hear(g), port[g] = "open" PROVE ScriptReads(g, Head(wire[g]))
<1> DEFINE e == Head(wire[g])
<1>0. written \in [Script -> Seq(Slot)]
  BY DEF IBase, BridgeTypeOK
<1>1. /\ e \in Event /\ wire[g] # <<>> /\ wire'[g] = Tail(wire[g])
      /\ written' = IF e.kind = "command" THEN [written EXCEPT ![g] = Append(written[g], e.slot)] ELSE written
  BY ScriptHearing
<1> HIDE DEF e
<1>2. CASE e.kind = "command"
  <2>1. e.slot \in Slot /\ written'[g] = Append(written[g], e.slot)
    BY <1>0, <1>1, <1>2, EventFields
  <2>2. Append(written[g], e.slot) = written[g] \o <<e.slot>> /\ <<e.slot>> \in Seq(Slot)
    BY <1>0, <2>1, AppendConcat
  <2> QED BY <1>1, <1>2, <2>1, <2>2 DEF ScriptReads, e
<1>3. CASE e.kind # "command"
  BY <1>1, <1>3 DEF ScriptReads, e
<1> QED BY <1>2, <1>3

LEMMA ReadsInOrder ==
  ASSUME IBase, NEW g \in Script, NEW d \in Registered, NEW s \in Slot, req[s].device = d,
         Hear(g), port[g] = "open", Ordered(g, d, s)
  PROVE  \/ LastIn(wire'[g], Commanding(d), {CommandEvent(s)})
         \/ NoneIn(wire'[g], Commanding(d)) /\ LastIn(written'[g], Served(d), {s})
<1> DEFINE C == Commanding(d)
           e == Head(wire[g])
<1>0. wire[g] \in Seq(Event) /\ written[g] \in Seq(Slot)
  BY DEF IBase, BridgeTypeOK, Socket
<1>1. ScriptReads(g, e)
  BY OpenReads
<1> HIDE DEF e
<1>2. CASE LastIn(Tail(wire[g]), C, {CommandEvent(s)})
  BY <1>1, <1>2 DEF ScriptReads
<1>3. CASE e \in C \cap {CommandEvent(s)} /\ NoneIn(Tail(wire[g]), C)
  <2>1. e.kind = "command" /\ e.slot = s
    BY <1>3 DEF CommandEvent
  <2>2. LastIn(<<s>>, Served(d), {s})
    <3>1. s \in Served(d) \cap {s}
      BY DEF Served
    <3> QED BY <3>1, Single
  <2>3. written'[g] = written[g] \o <<s>> /\ <<s>> \in Seq(Slot)
    BY <1>1, <2>1 DEF ScriptReads
  <2>4. LastIn(written'[g], Served(d), {s})
    BY <1>0, <2>2, <2>3, ConcatLast
  <2> QED BY <1>1, <1>3, <2>4 DEF ScriptReads
<1>4. CASE e \notin C /\ NoneIn(Tail(wire[g]), C) /\ LastIn(written[g], Served(d), {s})
  <2>1. CASE e.kind = "command"
    <3>1. e.slot \in Slot /\ e.slot \notin Served(d) /\ <<e.slot>> \in Seq(Slot)
          /\ written'[g] = written[g] \o <<e.slot>>
      BY <1>1, <1>4, <2>1 DEF ScriptReads, Commanding, Served
    <3>2. NoneIn(<<e.slot>>, Served(d))
      BY <3>1, Single
    <3>3. LastIn(written'[g], Served(d), {s})
      BY <1>0, <1>4, <3>1, <3>2, ConcatQuiet
    <3> QED BY <1>1, <1>4, <3>3 DEF ScriptReads
  <2>2. CASE e.kind # "command"
    BY <1>1, <1>4, <2>2 DEF ScriptReads
  <2> QED BY <2>1, <2>2
<1>5. \/ LastIn(wire[g], C, {CommandEvent(s)})
      \/ NoneIn(wire[g], C) /\ LastIn(written[g], Served(d), {s})
  BY DEF Ordered
<1> HIDE DEF C
<1>6. wire[g] # <<>>
  BY <1>1 DEF ScriptReads
<1>7. /\ NoneIn(wire[g], C) => e \notin C /\ NoneIn(Tail(wire[g]), C)
      /\ LastIn(wire[g], C, {CommandEvent(s)}) =>
           LastIn(Tail(wire[g]), C, {CommandEvent(s)})
           \/ (e \in C \cap {CommandEvent(s)} /\ NoneIn(Tail(wire[g]), C))
  BY <1>0, <1>6, Taken DEF e
<1> QED BY <1>2, <1>3, <1>4, <1>5, <1>7 DEF C

LEMMA EmitsCommand ==
  ASSUME IBase, NEW s \in Slot, Emit(s), req[s].op = "control", NEW g \in Script, g \in link
  PROVE  LastIn(wire'[g], Commanding(req[s].device), {CommandEvent(s)})
<1> DEFINE C == Commanding(req[s].device)
<1>0. /\ wire[g] \in Seq(Event) /\ g \in Socket /\ \A r : <<g, r>> \notin joined
  BY BridgeAssumption DEF IBase, BridgeTypeOK, Socket
<1>1. CommandOf(g, s) = <<CommandEvent(s)>> /\ <<CommandEvent(s)>> \in Seq(Event) /\ CommandEvent(s) \in Event
  BY <1>0, Emission
<1>2. CommandEvent(s) \in C
  BY <1>1 DEF Commanding, CommandEvent
<1>3. Emitted(g, s) = <<>> \o <<CommandEvent(s)>>
  BY <1>0, <1>1 DEF Emitted
<1>4. wire'[g] = wire[g] \o Emitted(g, s)
  BY <1>0 DEF Emit
<1> HIDE DEF C
<1>5. LastIn(<<CommandEvent(s)>>, C, {CommandEvent(s)})
  BY <1>2, Single
<1>6. LastIn(<<>> \o <<CommandEvent(s)>>, C, {CommandEvent(s)})
  BY <1>1, <1>5, ConcatLast, EmptySeq
<1>7. <<>> \o <<CommandEvent(s)>> \in Seq(Event)
  BY <1>1, EmptySeq, ConcatProperties
<1>8. LastIn(wire[g] \o Emitted(g, s), C, {CommandEvent(s)})
  BY <1>0, <1>3, <1>6, <1>7, ConcatLast
<1> QED BY <1>4, <1>8 DEF C

LEMMA OrderedStays ==
  ASSUME IBase, HistoryOK, [BridgeNext]_allVars, NEW d \in Registered, NEW s \in Slot,
         Latest(d, s), req[s].pc = "done", req[s].device = d, Behind[d] \in steady'[s],
         Ordered(Behind[d], d, s)
  PROVE  \/ LastIn(wire'[Behind[d]], Commanding(d), {CommandEvent(s)})
         \/ NoneIn(wire'[Behind[d]], Commanding(d)) /\ LastIn(written'[Behind[d]], Served(d), {s})
<1> DEFINE g == Behind[d]
           C == Commanding(d)
<1>0. /\ g \in Script /\ g \in Socket /\ g \notin Client /\ wire \in [Socket -> Seq(Event)]
      /\ steady \in [Slot -> SUBSET Socket]
  BY BridgeAssumption DEF IBase, BridgeTypeOK, Socket
<1>1. s \notin Free /\ g \in steady[s]
  BY AboutStays DEF Free
<1>2. ~Disconnect(g) /\ ~Restart
  BY <1>0 DEF Disconnect, Down, Restart
<1>3. port[g] = "open"
  <2>1. Up(g, d)
    BY <1>1 DEF HistoryOK, Latest
  <2> QED BY <1>0, <2>1 DEF Up
<1>4. ASSUME NEW x \in Slot, Emit(x) PROVE NoneIn(Emitted(g, x), C) /\ Emitted(g, x) \in Seq(Event)
  <2>1. req[x].pc = "emit"
    BY <1>4, Emitting
  <2>2. req[x].device # d
    <3>1. x \in About(d) => x \in before[s]
      BY <2>1 DEF Latest
    <3> QED BY <2>1, <3>1 DEF About, HistoryOK
  <2>3. AlertEvent(x) \notin C /\ UpdateEvent(x) \notin C /\ CommandEvent(x) \notin C
    BY <2>2 DEF Commanding, AlertEvent, UpdateEvent, CommandEvent
  <2> HIDE DEF C, g
  <2> QED BY <1>0, <1>4, <2>3, EmittedNone, Emission
<1>5. CASE Hear(g)
  BY <1>0, <1>3, <1>5, ReadsInOrder
<1>6. CASE ~Hear(g)
  <2>1. written'[g] = written[g]
    BY <1>0, <1>6, WrittenKept
  <2>2. wire'[g] = wire[g] \/ \E u \in Seq(Event) : NoneIn(u, C) /\ wire'[g] = wire[g] \o u
    <3> HIDE DEF C, g
    <3> QED BY <1>0, <1>2, <1>4, <1>6, WireCases
  <2>3. ASSUME NEW u \in Seq(Event), NoneIn(u, C)
        PROVE  /\ LastIn(wire[g], C, {CommandEvent(s)}) => LastIn(wire[g] \o u, C, {CommandEvent(s)})
               /\ NoneIn(wire[g], C) => NoneIn(wire[g] \o u, C)
    <3> HIDE DEF C, g
    <3> QED BY <1>0, <2>3, ConcatQuiet
  <2>4. /\ LastIn(wire[g], C, {CommandEvent(s)}) => LastIn(wire'[g], C, {CommandEvent(s)})
        /\ NoneIn(wire[g], C) => NoneIn(wire'[g], C)
    BY <2>2, <2>3
  <2> QED BY <2>1, <2>4 DEF Ordered
<1> QED BY <1>5, <1>6

LEMMA DoorsNext ==
  IBase /\ HistoryOK /\ CommandsDone /\ DoorsCatchUp /\ [BridgeNext]_allVars => DoorsCatchUp'
<1> SUFFICES ASSUME IBase, HistoryOK, CommandsDone, DoorsCatchUp, [BridgeNext]_allVars,
                    NEW d \in Registered, NEW s \in Slot, Latest(d, s)', At(s, "control", "done")',
                    Through(s)', Behind[d] \in steady'[s]
             PROVE  Ordered(Behind[d], d, s)'
  BY DEF DoorsCatchUp
<1>0. req'[s].pc = "done" /\ req'[s].op = "control" /\ Behind[d] \in Script
  BY BridgeAssumption DEF At
<1>1. req[s].pc # "new" /\ s \notin Free /\ req[s].op = "control"
  BY <1>0, AnsweredKeeps
<1>2. Latest(d, s) /\ req[s].device = d
  <2>1. Latest(d, s)
    BY <1>1, LatestBefore
  <2> QED BY <1>1, <2>1, AboutDevice DEF Latest
<1>3. \/ LastIn(wire'[Behind[d]], Commanding(d), {CommandEvent(s)})
      \/ NoneIn(wire'[Behind[d]], Commanding(d)) /\ LastIn(written'[Behind[d]], Served(d), {s})
  <2>1. CASE req[s].pc = "done"
    <3>1. Through(s) /\ steady'[s] \subseteq steady[s]
      BY <1>1, <2>1, DoneStays, AboutStays, CutGrows DEF Through
    <3>2. Ordered(Behind[d], d, s)
      BY <1>1, <1>2, <2>1, <3>1 DEF DoorsCatchUp, At
    <3> QED BY <1>2, <2>1, <3>2, OrderedStays
  <2>2. CASE req[s].pc # "done"
    <3>1. Emit(s)
      BY <1>0, <2>2, JustAnswered DEF Through
    <3>2. Behind[d] \in link
      BY <3>1, EmitsToSteady
    <3> QED BY <1>0, <1>1, <1>2, <3>1, <3>2, EmitsCommand
  <2> QED BY <2>1, <2>2
<1>4. CommandEvent(s)' = CommandEvent(s)
  BY DEF CommandEvent
<1> QED BY <1>0, <1>3, <1>4, CommandingKept DEF Ordered

----------------------------------------------------------------------------
(***************************************************************************)
(* The invariant, and what follows from it.                                *)
(***************************************************************************)
LEMMA BridgeStart == BridgeInit => IBridge
<1> SUFFICES ASSUME BridgeInit PROVE IBridge
  OBVIOUS
<1>1. IBase
  BY BaseInit
<1>2. /\ \A s \in Slot : req[s] = Fresh /\ post[s] = None /\ steady[s] = {} /\ before[s] = {}
      /\ joined = {} /\ cut = {} /\ \A k \in Socket : wire[k] = <<>>
      /\ \A g \in Script : written[g] = <<>>
  BY DEF BridgeInit, Init
<1>3. \A s \in Slot : req[s].pc = "new"
  BY <1>2 DEF Fresh
<1>4. HistoryOK /\ AlertComes
  BY <1>2, <1>3 DEF HistoryOK, AlertComes, At
<1>5. CommandsDone
  BY <1>2, Nothing DEF CommandsDone
<1>6. LatestShown /\ ScreensCatchUp /\ DoorsCatchUp
  BY <1>2, <1>3 DEF LatestShown, Updated, Through, ScreensCatchUp, DoorsCatchUp
<1> QED BY <1>1, <1>4, <1>5, <1>6 DEF IBridge, IBase

LEMMA BridgeInduction == BridgeSpec => []IBridge
<1>1. IBridge /\ [BridgeNext]_allVars => IBridge'
  <2> SUFFICES ASSUME IBridge, [BridgeNext]_allVars PROVE IBridge'
    OBVIOUS
  <2>1. IBase
    BY DEF IBridge, IBase
  <2>2. IBase'
    BY <2>1, BaseNext
  <2>3. HistoryOK' /\ CommandsDone' /\ AlertComes'
    BY <2>1, HistoryNext, CommandsNext, AlertsNext DEF IBridge
  <2>4. LatestShown' /\ ScreensCatchUp' /\ DoorsCatchUp'
    BY <2>1, LatestNext, ScreensNext, DoorsNext DEF IBridge
  <2> QED BY <2>2, <2>3, <2>4 DEF IBridge, IBase
<1> QED BY <1>1, BridgeStart, PTL DEF BridgeSpec

\* Who is in a room's channel from a report on is told of its alert, unless a
\* failure cut the handler off.
THEOREM RoomHearsCorrect == BridgeSpec => []RoomHears
<1>1. IBridge => RoomHears
  BY EmptyHasNone DEF IBridge, RoomHears, AlertComes
<1> QED BY <1>1, BridgeInduction, PTL

\* A dashboard that listens to a room shows what the collection holds once the
\* reports and orders of a device, one after another, are answered and delivered,
\* and each that was cut off was followed by one that came through.
THEOREM ScreensCorrect == BridgeSpec => []ScreensAgree
<1>1. ASSUME IBridge, NEW c \in Client, NEW d \in Registered,
             <<c, RoomOf[d]>> \in joined, wire[c] = <<>>, OneByOne(d), Mended(d)
      PROVE  told[c][d] \in {None, devices[d].state}
  <2>1. Sequential(d) /\ Answered(d)
    BY <1>1 DEF OneByOne, Sequential
  <2>2. ASSUME NEW s \in About(d), req[s].pc # "done" PROVE req[s] = Fresh /\ logs[s] = None
    <3>1. s \in Slot /\ post[s] # None /\ post[s].at \in {"limited", "lost"}
      BY <2>1, <2>2 DEF Answered, About
    <3>2. Carried(s) /\ Ready(s, req[s])
      BY <1>1, <3>1 DEF IBridge, IPlatform, AllReady
    <3>3. req[s].pc = "new"
      BY <3>1, <3>2 DEF Carried
    <3> QED BY <3>2, <3>3 DEF Carried, Ready
  <2>4. ASSUME NEW s \in About(d), Silent(s), \A x \in About(d) : s \in before[x] => ~Through(x)
        PROVE  FALSE
    <3>1. req[s].pc \notin {"alert", "emit"}
      BY <2>2 DEF Fresh
    <3>2. s \in cut /\ logs[s] # None
      BY <2>4, <3>1 DEF Silent
    <3>3. PICK x \in About(d) \ cut : s \in before[x] /\ logs[x] # None
      BY <1>1, <2>4, <3>2 DEF Mended
    <3>4. req[x].pc = "done"
      BY <2>2, <3>3
    <3> QED BY <2>4, <3>3, <3>4 DEF Through
  <2>5. ~Updating(d)
    BY <2>4 DEF Updating
  <2>3. Shows(c, d)
    BY <1>1, <2>1, <2>5 DEF IBridge, ScreensCatchUp
  <2> QED BY <1>1, <2>3, EmptyHasNone DEF Shows
<1>2. IBridge => ScreensAgree
  BY <1>1 DEF ScreensAgree
<1> QED BY <1>2, BridgeInduction, PTL

\* When an order about a door began after all other requests about it were
\* answered, no failure cut it off, and its script was up during it, it was the
\* last written to its line.
THEOREM DoorsCorrect == BridgeSpec => []DoorsFollow
<1>1. ASSUME IBridge, NEW d \in Registered, NEW s \in Slot, At(s, "control", "done"), logs[s] # None,
             s \notin cut, s \in About(d), About(d) \ {s} \subseteq before[s],
             Behind[d] \in steady[s], wire[Behind[d]] = <<>>
      PROVE  LastAbout(d, written[Behind[d]], s) /\ devices[d].state = NewState(req[s].value)
  <2> DEFINE w == written[Behind[d]]
  <2>1. Latest(d, s) /\ Updated(s) /\ Through(s) /\ req[s].op = "control"
    BY <1>1 DEF Latest, Updated, Through, At
  <2>2. devices[d].state = NewState(req[s].value)
    BY <1>1, <2>1 DEF IBridge, LatestShown, StateOf
  <2>3. LastIn(w, Served(d), {s})
    <3>1. Ordered(Behind[d], d, s)
      BY <1>1, <2>1 DEF IBridge, DoorsCatchUp
    <3>2. ~LastIn(wire[Behind[d]], Commanding(d), {CommandEvent(s)})
      BY <1>1, EmptyHasNone
    <3> QED BY <3>1, <3>2 DEF Ordered
  <2>4. \A j \in DOMAIN w : w[j] \in Slot
    <3>1. w \in Seq(Slot)
      BY <1>1, BridgeAssumption DEF IBridge, BridgeTypeOK
    <3> QED BY <3>1, LenProperties, ElementOfSeq
  <2> HIDE DEF w
  <2>5. LastAbout(d, w, s)
    BY <2>3, <2>4 DEF LastIn, Served, LastAbout
  <2> QED BY <2>2, <2>5 DEF w
<1>2. IBridge => DoorsFollow
  BY <1>1 DEF DoorsFollow
<1> QED BY <1>2, BridgeInduction, PTL
=============================================================================
