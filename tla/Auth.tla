-------------------------------- MODULE Auth --------------------------------
(***************************************************************************)
(* AuthService: inviteOwner and registerTenant.  The bcrypt hash between   *)
(* the checks and the insert reads and writes nothing shared, so it is     *)
(* part of the insert's step; login and the profile change no state.       *)
(***************************************************************************)
EXTENDS Database

\* Mutants: only findOne guards the address; the duplicate key error is
\* swallowed and nobody answers.
InsertUserUnindexed(u, doc) == users' = [users EXCEPT ![u] = doc]
DuplicateEmailSwallowed(s) == EmailTaken(req[s].email) /\ UNCHANGED vars

\* users.create: a duplicate e-mail throws, and the handler answers an error.
InsertUser(u, doc) ==
  /\ ~EmailTaken(doc.email)
  /\ users' = [users EXCEPT ![u] = doc]

DuplicateEmail(s) ==
  /\ EmailTaken(req[s].email)
  /\ Answer(s)
  /\ UNCHANGED db

----------------------------------------------------------------------------
InviteOwnerBegin(s) ==
  \E u \in Callers({"admin"}), new \in FreshUsers, e \in Email :
    Begin(s, [Blank EXCEPT !.op = "inviteOwner", !.pc = "email", !.caller = u,
                           !.user = new, !.email = e])

InviteOwnerEmail(s) ==
  /\ At(s, "inviteOwner", "email")
  /\ IF EmailTaken(req[s].email) THEN Answer(s) ELSE Goto(s, "user")
  /\ UNCHANGED db

OwnerAccount(q, ph) ==
  [email |-> q.email, role |-> "owner", room |-> None, phone |-> ph]

InviteOwnerUser(s) ==
  /\ At(s, "inviteOwner", "user")
  /\ \/ /\ \E ph \in BOOLEAN : InsertUser(req[s].user, OwnerAccount(req[s], ph))
        /\ Answer(s)
        /\ UNCHANGED <<rooms, bills, gone, notices, receipts>>
     \/ DuplicateEmail(s)

----------------------------------------------------------------------------
RegisterTenantBegin(s) ==
  \E u \in Callers({"owner"}), new \in FreshUsers, e \in Email, r \in RoomId :
    Begin(s, [Blank EXCEPT !.op = "registerTenant", !.pc = "email", !.caller = u,
                           !.user = new, !.email = e, !.room = r])

RegisterTenantEmail(s) ==
  /\ At(s, "registerTenant", "email")
  /\ IF EmailTaken(req[s].email) THEN Answer(s) ELSE Goto(s, "room")
  /\ UNCHANGED db

\* The caller's own room, and not occupied: a room in maintenance passes.
RegisterTenantRoom(s) ==
  LET r == req[s].room IN
  /\ At(s, "registerTenant", "room")
  /\ IF /\ rooms[r] # None
        /\ rooms[r].owner = req[s].caller
        /\ rooms[r].status # "occupied"
     THEN Goto(s, "user") ELSE Answer(s)
  /\ UNCHANGED db

\* The account is born with its room_id; the room follows in the next step.
TenantAccount(q, ph) ==
  [email |-> q.email, role |-> "tenant", room |-> q.room, phone |-> ph]

RegisterTenantUser(s) ==
  /\ At(s, "registerTenant", "user")
  /\ \/ /\ \E ph \in BOOLEAN : InsertUser(req[s].user, TenantAccount(req[s], ph))
        /\ Goto(s, "link")
        /\ UNCHANGED <<rooms, bills, gone, notices, receipts>>
     \/ DuplicateEmail(s)

RegisterTenantLink(s) ==
  /\ At(s, "registerTenant", "link")
  /\ SetRoom(req[s].room, req[s].user, "occupied")
  /\ Answer(s)
  /\ UNCHANGED <<users, bills, gone, notices, receipts>>

----------------------------------------------------------------------------
AuthBegin(s) == InviteOwnerBegin(s) \/ RegisterTenantBegin(s)

AuthStep(s) ==
  \/ InviteOwnerEmail(s) \/ InviteOwnerUser(s)
  \/ RegisterTenantEmail(s) \/ RegisterTenantRoom(s)
  \/ RegisterTenantUser(s) \/ RegisterTenantLink(s)
=============================================================================
