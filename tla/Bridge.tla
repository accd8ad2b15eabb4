-------------------------------- MODULE Bridge --------------------------------
(***************************************************************************)
(* The gateway script between the serial line of the sensors and the API,  *)
(* the rate limiter in front of the API, and the Socket.io gateway behind  *)
(* it, composed with the handlers of Devices and the notifications.        *)
(*                                                                         *)
(* A slot carries one line of a serial port or one order of a user.  The   *)
(* script posts every line at once, so posts overtake one another; events  *)
(* travel through one ordered socket per script or dashboard, and what is  *)
(* emitted while a socket is down is lost.  With Faults, calls of a        *)
(* handler and jobs fail and the process dies under its sockets, as in     *)
(* Monitoring.                                                             *)
(***************************************************************************)
EXTENDS Monitoring, SequencesExt

CONSTANTS
  Script, Client,  \* gateway scripts and dashboards, each with a socket
  Behind,          \* the script whose serial line a device hangs on
  Lines, Orders,   \* bound: <<device, value>> lines, <<device, command>> orders
  Limit,           \* requests of one address the limiter admits per minute
  Outages          \* bound: unplugged lines, dropped sockets, lost posts, channels
                   \* left, failed calls of a handler, crashes

ASSUME BridgeAssumption ==
  /\ Script \cap Client = {} /\ Behind \in [Registered -> Script]
  /\ Lines \subseteq Registered \X Report /\ Orders \subseteq Registered \X Command
  /\ Limit \in Nat \ {0} /\ Outages \in Nat

VARIABLES
  port,      \* script -> its serial port
  post,      \* slot -> the line it carries and where that is, or None
  hits,      \* script -> what the limiter counted of its address this minute
  link,      \* the sockets that are connected
  joined,    \* <<client, room>> pairs: who is in which channel
  wire,      \* socket -> the events on their way to it
  told,      \* client -> device -> the state it was last told since it joined
  heard,     \* client -> the alerts it was told
  written,   \* script -> the orders it wrote to its serial line
  before,    \* history: slot -> the requests answered when it began
  steady,    \* history: slot -> the sockets up ever since it began
  cut,       \* history: the requests a failed call or a crash cut off
  dropped,   \* history: the jobs a failure kept from the queue
  outages    \* outages left

Socket == Script \cup Client
script == <<port, post, hits>>
sockets == <<link, joined, wire, told, heard, written>>
history == <<before, steady, cut, dropped, outages>>
allVars == <<vars, script, sockets, history>>

\* "taken" by the API, or dropped: the script logs the error and goes on.
Post == [device : Registered, value : Report, at : {"sent", "taken", "limited", "lost"}]

\* null is no post.
ASSUME NoPostAssumption == None \notin Post

Event ==
  [kind : {"alert", "command"}, slot : Slot] \cup
  [kind : {"update"}, device : Registered, state : DeviceState] \cup
  [kind : {"joined"}, room : RoomId]

BridgeInit ==
  /\ Init
  /\ port = [g \in Script |-> "closed"] /\ post = [s \in Slot |-> None]
  /\ hits = [g \in Script |-> 0]
  /\ link = Socket /\ joined = {} /\ wire = [k \in Socket |-> <<>>]
  /\ told = [c \in Client |-> [d \in Registered |-> None]]
  /\ heard = [c \in Client |-> {}]
  /\ written = [g \in Script |-> <<>>]
  /\ before = [s \in Slot |-> {}] /\ steady = [s \in Slot |-> {}]
  /\ cut = {} /\ dropped = {} /\ outages = Outages

----------------------------------------------------------------------------
\* A socket that gets what concerns device d: a script that can write to its
\* line, a client in the channel of the room.
Up(k, d) ==
  /\ k \in link
  /\ IF k \in Script THEN port[k] = "open" ELSE <<k, RoomOf[d]>> \in joined

\* Which free slot serves a request makes no difference: one is chosen.
Free == {s \in Slot : req[s].pc = "new" /\ post[s] = None}
Starts(s, d) ==
  /\ s = CHOOSE x \in Free : TRUE
  /\ before' = [before EXCEPT ![s] = {x \in Slot : req[x].pc = "done"}]
  /\ steady' = [steady EXCEPT ![s] = {k \in Socket : Up(k, d)}]
  /\ UNCHANGED <<cut, dropped, outages>>

Down(k) == steady' = [s \in Slot |-> steady[s] \ {k}] /\ UNCHANGED <<before, cut, dropped>>
Outage == outages > 0 /\ outages' = outages - 1

\* setupSerial tries again until the port opens.  Nothing listens for its
\* closing: a line that is unplugged later stays dead.
Open(g) ==
  /\ port[g] = "closed"
  /\ port' = [port EXCEPT ![g] = "open"]
  /\ UNCHANGED <<vars, post, hits, sockets, history>>

Unplug(g) ==
  /\ port[g] = "open" /\ Outage
  /\ port' = [port EXCEPT ![g] = "dead"]
  /\ Down(g)
  /\ UNCHANGED <<vars, post, hits, sockets>>

\* handleSerialData waits for no earlier line.  A line without a colon ends here.
ReadLine(s) ==
  /\ s \in Free
  /\ \E x \in Lines :
       /\ port[Behind[x[1]]] = "open"
       /\ post' = [post EXCEPT ![s] = [device |-> x[1], value |-> x[2], at |-> "sent"]]
       /\ Starts(s, x[1])
  /\ UNCHANGED <<vars, port, hits, sockets>>

\* Mutant: one more than the limit is admitted.
AdmitsOneMore(g) == hits[g] <= Limit

\* The limiter comes before the API key and the route.
Admits(g) == hits[g] < Limit

Arrives(s) ==
  LET g == Behind[post[s].device] IN
  /\ post[s] # None /\ post[s].at = "sent"
  /\ \/ /\ Admits(g)
        /\ StatusBegin(s)
        /\ req'[s].device = post[s].device /\ req'[s].value = post[s].value
        /\ post' = [post EXCEPT ![s].at = "taken"]
        /\ hits' = [hits EXCEPT ![g] = @ + 1]
     \/ /\ ~Admits(g)
        /\ post' = [post EXCEPT ![s].at = "limited"]
        /\ UNCHANGED <<vars, hits>>
  /\ UNCHANGED <<port, sockets, history>>

PostLost(s) ==
  /\ post[s] # None /\ post[s].at = "sent" /\ Outage
  /\ post' = [post EXCEPT ![s].at = "lost"]
  /\ UNCHANGED <<vars, port, hits, sockets, before, steady, cut, dropped>>

NextMinute(g) ==
  /\ hits[g] > 0
  /\ hits' = [hits EXCEPT ![g] = 0]
  /\ UNCHANGED <<vars, port, post, sockets, history>>

\* An order of a user comes from another address.
Order(s) ==
  /\ s \in Free
  /\ ControlBegin(s)
  /\ <<req'[s].device, req'[s].value>> \in Orders
  /\ Starts(s, req'[s].device)
  /\ UNCHANGED <<script, sockets>>

----------------------------------------------------------------------------
\* The awaited calls of the handlers before they emit, and the notifications.
Handle(s) ==
  /\ Step(s) /\ ~At(s, "status", "emit") /\ ~At(s, "control", "emit")
  /\ UNCHANGED <<script, sockets, history>>

\* A job that cannot be added is logged and forgotten.
Notify(s) ==
  /\ NotifyAlert(s)
  /\ LET missing == JobsFor(Recipients(alerts[s].room), s) \cap {j \in Job : jobs'[j].at = "none"} IN
       /\ dropped' = dropped \cup missing
       /\ IF missing = {} THEN UNCHANGED outages ELSE Outage
  /\ UNCHANGED <<script, sockets, before, steady, cut>>

Work(j) == (Run(j) \/ JobFails(j)) /\ UNCHANGED <<script, sockets, history>>

\* A handler that throws emits nothing; the error of a notification is logged.
Fails(s) ==
  /\ CallFails(s) /\ Outage
  /\ IF s \in notifying
     THEN dropped' = dropped \cup {j \in Job : j.call = s} /\ UNCHANGED cut
     ELSE cut' = cut \cup {s} /\ UNCHANGED dropped
  /\ UNCHANGED <<script, sockets, before, steady>>

\* Sockets, channels and the counts of the limiter are gone with the process; a
\* post on its way may still arrive.
Restart ==
  /\ Crash /\ Outage
  /\ hits' = [g \in Script |-> 0]
  /\ link' = {} /\ joined' = {} /\ wire' = [k \in Socket |-> <<>>]
  /\ steady' = [s \in Slot |-> {}]
  /\ cut' = cut \cup {s \in Slot : req[s].pc \notin {"new", "done"}}
  /\ dropped' = dropped \cup {j \in Job : j.call \in notifying}
  /\ UNCHANGED <<port, post, told, heard, written, before>>

\* Mutants: commands go to the channel of the room, like the updates; only
\* critical alerts are emitted.
CommandInRoom(k, s) ==
  IF req[s].op = "control" /\ <<k, RoomOf[req[s].device]>> \in joined
  THEN <<[kind |-> "command", slot |-> s]>> ELSE <<>>
AlertIfCritical(s) ==
  IF alerts[s] # None /\ alerts[s].severity = "critical"
  THEN <<[kind |-> "alert", slot |-> s]>> ELSE <<>>

\* Alert and update go to the channel of the room, a command to every socket
\* (a dashboard makes nothing of it).
AlertOf(s) == IF alerts[s] # None THEN <<[kind |-> "alert", slot |-> s]>> ELSE <<>>
UpdateOf(s) ==
  LET q == req[s] IN
  <<[kind |-> "update", device |-> q.device,
     state |-> IF q.op = "control" THEN NewState(q.value) ELSE q.value]>>
CommandOf(k, s) ==
  IF req[s].op = "control" /\ k \in Script THEN <<[kind |-> "command", slot |-> s]>> ELSE <<>>

Emitted(k, s) ==
  (IF <<k, RoomOf[req[s].device]>> \in joined THEN AlertOf(s) \o UpdateOf(s) ELSE <<>>)
    \o CommandOf(k, s)

Emit(s) ==
  /\ StatusEmit(s) \/ ControlEmit(s)
  /\ wire' = [k \in Socket |-> IF k \in link THEN wire[k] \o Emitted(k, s) ELSE wire[k]]
  /\ UNCHANGED <<script, link, joined, told, heard, written, history>>

----------------------------------------------------------------------------
\* socket.io-client connects again by itself; a client that was in a channel
\* has to join it again.
Connect(k) ==
  /\ k \notin link
  /\ link' = link \cup {k}
  /\ UNCHANGED <<vars, script, joined, wire, told, heard, written, history>>

Disconnect(k) ==
  /\ k \in link /\ Outage
  /\ link' = link \ {k}
  /\ joined' = {x \in joined : x[1] # k}
  /\ wire' = [wire EXCEPT ![k] = <<>>]
  /\ Down(k)
  /\ UNCHANGED <<vars, script, told, heard, written>>

\* Nothing emitted earlier is repeated for whoever joins.
Join(c, r) ==
  /\ c \in link /\ <<c, r>> \notin joined
  /\ [kind |-> "joined", room |-> r] \notin ToSet(wire[c])
  /\ joined' = joined \cup {<<c, r>>}
  /\ wire' = [wire EXCEPT ![c] = Append(@, [kind |-> "joined", room |-> r])]
  /\ UNCHANGED <<vars, script, link, told, heard, written, history>>

Leave(c, r) ==
  /\ <<c, r>> \in joined /\ Outage
  /\ joined' = joined \ {<<c, r>>}
  /\ Down(c)
  /\ UNCHANGED <<vars, script, link, wire, told, heard, written>>

\* A command that finds the port closed is dropped with a warning.  What is
\* written names the command and not the device.
ScriptHears(g, e) ==
  /\ written' = IF e.kind = "command" /\ port[g] = "open"
                THEN [written EXCEPT ![g] = Append(@, e.slot)] ELSE written
  /\ UNCHANGED <<told, heard>>

\* What a dashboard knows of a room since it joined.
ClientHears(c, e) ==
  /\ told' = CASE e.kind = "update" -> [told EXCEPT ![c][e.device] = e.state]
               [] e.kind = "joined" -> [told EXCEPT ![c] =
                    [d \in Registered |-> IF RoomOf[d] = e.room THEN None ELSE @[d]]]
               [] OTHER -> told
  /\ heard' = IF e.kind = "alert" THEN [heard EXCEPT ![c] = @ \cup {e.slot}] ELSE heard
  /\ UNCHANGED written

Hear(k) ==
  /\ wire[k] # <<>>
  /\ IF k \in Script THEN ScriptHears(k, Head(wire[k])) ELSE ClientHears(k, Head(wire[k]))
  /\ wire' = [wire EXCEPT ![k] = Tail(@)]
  /\ UNCHANGED <<vars, script, link, joined, history>>

BridgeNext ==
  \/ \E s \in Slot : ReadLine(s) \/ Arrives(s) \/ PostLost(s) \/ Order(s)
                     \/ Handle(s) \/ Emit(s) \/ Notify(s) \/ Fails(s)
  \/ \E j \in Job : Work(j)
  \/ \E g \in Script : Open(g) \/ Unplug(g) \/ NextMinute(g)
  \/ \E k \in Socket : Connect(k) \/ Disconnect(k) \/ Hear(k)
  \/ \E c \in Client, r \in RoomId : Join(c, r) \/ Leave(c, r)
  \/ Restart

\* Posts arrive unless they are lost, handlers, queries and the worker go on,
\* sockets deliver while they are up; sensors, users and dashboards owe nothing.
\* A slot is in one of its four phases at a time, so one condition serves them.
BridgeSpec ==
  /\ BridgeInit /\ [][BridgeNext]_allVars
  /\ \A s \in Slot : WF_allVars(Arrives(s) \/ Handle(s) \/ Emit(s) \/ Notify(s))
  /\ WF_allVars(\E j \in Job : Work(j))
  /\ \A k \in Socket : WF_allVars(Hear(k))

----------------------------------------------------------------------------
\* Ports, posts, sockets and events have the shape the script and Socket.io
\* give them; the limiter admits no more than its limit.
BridgeTypeOK ==
  /\ port \in [Script -> {"closed", "open", "dead"}]
  /\ post \in [Slot -> Post \cup {None}]
  /\ hits \in [Script -> 0..Limit]
  /\ link \subseteq Socket /\ joined \subseteq (Client \cap link) \X RoomId
  /\ wire \in [Socket -> Seq(Event)] /\ \A k \in Socket \ link : wire[k] = <<>>
  /\ told \in [Client -> [Registered -> DeviceState \cup {None}]]
  /\ heard \in [Client -> SUBSET Slot]
  /\ written \in [Script -> Seq(Slot)]
  /\ before \in [Slot -> SUBSET Slot] /\ steady \in [Slot -> SUBSET Socket]
  /\ cut \subseteq Slot /\ dropped \subseteq Job /\ outages \in 0..Outages

\* The requests about a device, and whether each was answered before the next
\* one began.
About(d) == {s \in Slot : req[s].device = d \/ (post[s] # None /\ post[s].device = d)}
Answered(d) == \A s \in About(d) :
  req[s].pc = "done" \/ (post[s] # None /\ post[s].at \in {"limited", "lost"})
OneByOne(d) == Answered(d) /\ \A s, x \in About(d) : s = x \/ s \in before[x] \/ x \in before[s]

\* A request that was cut off after its log may have stored a state and emitted
\* nothing: nobody is told until a later request about the device comes through.
Mended(d) ==
  \A s \in About(d) \cap cut : logs[s] # None =>
    \E x \in About(d) \ cut : s \in before[x] /\ logs[x] # None

\* A dashboard that listens to a room shows what the collection holds: when
\* the reports and orders of a device came one after another, each that was cut
\* off was followed by one that was not, and the socket has delivered, the state
\* it was last told is last_state.  For overlapping ones the code promises
\* nothing: the later update may be emitted first.
ScreensAgree ==
  \A c \in Client, d \in Registered :
    <<c, RoomOf[d]>> \in joined /\ wire[c] = <<>> /\ OneByOne(d) /\ Mended(d)
      => told[c][d] \in {None, devices[d].state}

\* Of the written orders about device d, the last is that of s.
LastAbout(d, orders, s) ==
  \E i \in DOMAIN orders :
    orders[i] = s /\ \A j \in DOMAIN orders : j > i => req[orders[j]].device # d

\* last_state is assumed, never confirmed.  It is right about the door all the
\* same: when an accepted order began after all other requests about the door
\* were answered or failed, was not cut off itself, and the script was up during
\* it, that order was the last to be written to the line.  One cut off between
\* update and broadcast leaves a state the door was never ordered into.
DoorsFollow ==
  \A d \in Registered, s \in Slot :
    /\ At(s, "control", "done") /\ logs[s] # None /\ s \notin cut
    /\ s \in About(d) /\ About(d) \ {s} \subseteq before[s]
    /\ Behind[d] \in steady[s] /\ wire[Behind[d]] = <<>>
    => /\ LastAbout(d, written[Behind[d]], s)
       /\ devices[d].state = NewState(req[s].value)

\* Who is in a room's channel from the report on is told of its alert once the
\* handler has answered and the socket has delivered.  A handler that is cut off
\* when the alert is stored tells nobody.
RoomHears ==
  \A s \in Slot, c \in Client :
    /\ At(s, "status", "done") /\ alerts[s] # None /\ s \notin cut
    /\ c \in steady[s] /\ wire[c] = <<>>
    => s \in heard[c]

\* An alarm the script read and posted is in the list of the room's owner in
\* the end, unless one of these losses, which nothing in the code makes good,
\* befell it: the limiter refused the post; the network lost it; a call of the
\* handler failed or the process died during it (the script does not try again);
\* the query of notifyAlert failed, the process died during it, or the job could
\* not be added (the error is only logged); the job failed for the last time.
AlarmReported ==
  \A s \in Slot : post[s] # None /\ post[s].value \in DOMAIN Alarm ~> post[s] # None /\
    LET owner == OwnerOf[RoomOf[post[s].device]]
        save == [kind |-> "save_db", user |-> owner, call |-> s] IN
    \/ post[s].at \in {"limited", "lost"}
    \/ s \in cut \/ save \in dropped \/ jobs[save].at = "failed"
    \/ \E n \in inbox : n.call = s /\ n.user = owner

\* An accepted order is written to the serial line of its device, if the script
\* was connected and its port open from the request on, and neither a failed log
\* or update nor a crash cut the handler off before the broadcast.
CommandArrives ==
  \A s \in Slot, g \in Script :
    At(s, "control", "log") /\ Behind[req[s].device] = g ~>
      s \in ToSet(written[g]) \/ g \notin steady[s] \/ s \in cut

=============================================================================
