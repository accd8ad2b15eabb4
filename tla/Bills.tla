------------------------------- MODULE Bills -------------------------------
(***************************************************************************)
(* BillsService: createBill, confirmPayment and the sendBillReminders cron *)
(* run.  Amounts and meter readings are left out: they decide no branch,   *)
(* and the meter is read between two steps that are modelled.              *)
(***************************************************************************)
EXTENDS Database

\* notifyBill hands the queue its jobs without awaiting them: an enqueue
\* that fails is only logged.
NotifyBill(b, u) ==
  \/ notices' = notices \cup {<<b, u>>}
  \/ Faults /\ notices' = notices

----------------------------------------------------------------------------
CreateBillBegin(s) ==
  \E u \in Callers({"owner"}), r \in RoomId, b \in FreshBills, p \in Period :
    Begin(s, [Blank EXCEPT !.op = "createBill", !.pc = "room", !.caller = u,
                           !.room = r, !.bill = b, !.period = p])

\* The caller's own room, and somebody lives in it: that tenant is billed.
CreateBillRoom(s) ==
  LET r == req[s].room IN
  /\ At(s, "createBill", "room")
  /\ IF /\ rooms[r] # None
        /\ rooms[r].owner = req[s].caller
        /\ rooms[r].tenant # None
     THEN req' = [req EXCEPT ![s].pc = "tenant", ![s].user = rooms[r].tenant]
     ELSE Answer(s)
  /\ UNCHANGED db

CreateBillTenant(s) ==
  /\ At(s, "createBill", "tenant")
  /\ IF users[req[s].user] # None THEN Goto(s, "insert") ELSE Answer(s)
  /\ UNCHANGED db

\* Mutants: no unique index on (room, month, year); a bill is born paid; the
\* handler returns without notifying.
RefusedUnindexed(q) == ~users[q.user].phone
PaidBill(q) == [room |-> q.room, tenant |-> q.user, period |-> q.period, status |-> "paid"]
CreateBillSilent(s) == At(s, "createBill", "notify") /\ Answer(s) /\ UNCHANGED db

\* bills.create refuses a second bill of the room and period, and a tenant
\* without a phone: the snapshot `phone ?? ''` fails its required field.
Refused(q) == Billed(q.room, q.period) \/ ~users[q.user].phone
NewBill(q) == [room |-> q.room, tenant |-> q.user, period |-> q.period, status |-> "unpaid"]

CreateBillInsert(s) ==
  LET q == req[s] IN
  /\ At(s, "createBill", "insert")
  /\ IF Refused(q)
     THEN Answer(s) /\ bills' = bills
     ELSE Goto(s, "notify") /\ bills' = [bills EXCEPT ![q.bill] = NewBill(q)]
  /\ UNCHANGED <<rooms, users, gone, notices, receipts>>

CreateBillNotify(s) ==
  /\ At(s, "createBill", "notify")
  /\ NotifyBill(req[s].bill, req[s].user)
  /\ Answer(s)
  /\ UNCHANGED <<rooms, users, bills, gone, receipts>>

----------------------------------------------------------------------------
ConfirmPaymentBegin(s) ==
  \E u \in Callers({"owner"}), b \in BillId :
    Begin(s, [Blank EXCEPT !.op = "confirmPayment", !.pc = "bill",
                           !.caller = u, !.bill = b])

\* The copy of the bill's status read here is judged after the owner check.
ConfirmPaymentBill(s) ==
  LET b == bills[req[s].bill] IN
  /\ At(s, "confirmPayment", "bill")
  /\ IF b # None
     THEN req' = [req EXCEPT ![s].pc = "room", ![s].room = b.room,
                             ![s].status = b.status]
     ELSE Answer(s)
  /\ UNCHANGED db

ConfirmPaymentRoom(s) ==
  LET r == req[s].room IN
  /\ At(s, "confirmPayment", "room")
  /\ IF /\ rooms[r] # None
        /\ rooms[r].owner = req[s].caller
        /\ req[s].status # "paid"
     THEN Goto(s, "update") ELSE Answer(s)
  /\ UNCHANGED db

\* Mutants: findByIdAndUpdate without the guard; a status the schema lacks
\* (updates skip validation); the paid bill is put in the occupant's name.
PayableAlways(bill) == bill # None
Confirmed(bill) == [bill EXCEPT !.status = "confirmed"]
PaidByOccupant(bill) ==
  [bill EXCEPT !.status = "paid",
               !.tenant = IF rooms[bill.room] = None THEN @ ELSE rooms[bill.room].tenant]

\* findOneAndUpdate: the filter with status: { $ne: 'paid' }, and the $set.
Payable(bill) == bill # None /\ bill.status # "paid"
Paid(bill) == [bill EXCEPT !.status = "paid"]

ConfirmPaymentUpdate(s) ==
  LET b == req[s].bill IN
  /\ At(s, "confirmPayment", "update")
  /\ IF Payable(bills[b])
     THEN /\ bills' = [bills EXCEPT ![b] = Paid(bills[b])]
          /\ receipts' = [receipts EXCEPT ![b] = @ + 1]
     ELSE UNCHANGED <<bills, receipts>>
  /\ Answer(s)
  /\ UNCHANGED <<rooms, users, gone, notices>>

----------------------------------------------------------------------------
\* The cron fires once a month: two runs never overlap.
SendBillRemindersBegin(s) ==
  /\ \A t \in Slot : req[t].op # "sendBillReminders"
  /\ Begin(s, [Blank EXCEPT !.op = "sendBillReminders", !.pc = "find"])

\* Only 'unpaid' is looked for: a pending bill is never reminded.
SendBillRemindersFind(s) ==
  LET unpaid == {b \in BillId : bills[b] # None /\ bills[b].status = "unpaid"} IN
  /\ At(s, "sendBillReminders", "find")
  /\ IF unpaid = {} THEN Answer(s)
     ELSE req' = [req EXCEPT ![s].pc = "each", ![s].batch = unpaid]
  /\ UNCHANGED db

\* Mutant: the reminder goes to whoever lives in the room by now.
Occupant(b) ==
  IF rooms[bills[b].room] = None THEN bills[b].tenant ELSE rooms[bills[b].room].tenant

\* One round of the loop over the bills found: the next one, in the order the
\* query returned them, which the code leaves open.
Addressee(b) == bills[b].tenant
NextBill(s, b) ==
  IF req[s].batch = {b} THEN Answer(s)
  ELSE req' = [req EXCEPT ![s].batch = @ \ {b}]

SendBillRemindersEach(s) ==
  \E b \in req[s].batch :
    /\ At(s, "sendBillReminders", "each")
    /\ NotifyBill(b, Addressee(b))
    /\ NextBill(s, b)
    /\ UNCHANGED <<rooms, users, bills, gone, receipts>>

----------------------------------------------------------------------------
BillsBegin(s) ==
  CreateBillBegin(s) \/ ConfirmPaymentBegin(s) \/ SendBillRemindersBegin(s)

BillsStep(s) ==
  \/ CreateBillRoom(s) \/ CreateBillTenant(s) \/ CreateBillInsert(s) \/ CreateBillNotify(s)
  \/ ConfirmPaymentBill(s) \/ ConfirmPaymentRoom(s) \/ ConfirmPaymentUpdate(s)
  \/ SendBillRemindersFind(s) \/ SendBillRemindersEach(s)
=============================================================================
