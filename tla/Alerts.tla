------------------------------- MODULE Alerts -------------------------------
(***************************************************************************)
(* AlertsService.resolveAlert.  The routes that list alerts only read.     *)
(***************************************************************************)
EXTENDS Telemetry

ResolveBegin(s) ==
  \E u \in UserId \ Tenants, a \in Slot :
    Begin(s, [Fresh EXCEPT !.op = "resolve", !.pc = "find", !.caller = u, !.alert = a])

\* An admin is not asked for the room.
ResolveFind(s) ==
  LET found == alerts[req[s].alert] # None IN
  /\ At(s, "resolve", "find")
  /\ \/ ~found /\ Goto(s, "done")
     \/ found /\ Goto(s, IF req[s].caller \in Admins THEN "update" ELSE "room")
  /\ UNCHANGED <<platform, tenant, notifying, witnesses, delivery>>

\* Mutant: any owner may resolve.
MayResolveAny(q) == TRUE

MayResolve(q) == OwnerOf[alerts[q.alert].room] = q.caller

\* A room with devices is never deleted (DevicesKeepTheirRoom of Rental), so
\* the query finds it.
ResolveRoom(s) ==
  /\ At(s, "resolve", "room")
  /\ Goto(s, IF MayResolve(req[s]) THEN "update" ELSE "done")
  /\ UNCHANGED <<platform, tenant, notifying, witnesses, delivery>>

ResolveUpdate(s) ==
  /\ At(s, "resolve", "update")
  /\ alerts' = [alerts EXCEPT ![req[s].alert].resolved = TRUE]
  /\ Goto(s, "done")
  /\ UNCHANGED <<devices, logs, shown, commands, tenant, notifying, witnesses, delivery>>

AlertsStep(s) == ResolveFind(s) \/ ResolveRoom(s) \/ ResolveUpdate(s)
=============================================================================
