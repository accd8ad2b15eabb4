--------------------------- MODULE BillingProofs ---------------------------
(***************************************************************************)
(* The bills collection: one bill per room and month, paid once, frozen    *)
(* otherwise, and so an implementation of the ledger of debts - for every  *)
(* instance, interleaving, lost write and crash.                           *)
(***************************************************************************)
EXTENDS RentalProofs

\* The id a createBill holds is still free until its insert, and only its own.
BillsReserved ==
  \A s \in Slot : req[s].op = "createBill" /\ req[s].pc # "notify" =>
    /\ bills[req[s].bill] = None
    /\ \A t \in Slot : t # s /\ req[t].op = "createBill" => req[t].bill # req[s].bill

\* Only the update that marks a bill paid is counted.
ReceiptsCounted ==
  \A b \in BillId :
    receipts[b] <= IF bills[b] # None /\ bills[b].status = "paid" THEN 1 ELSE 0

IBills == IType /\ BillsReserved /\ OneBillPerPeriod /\ ReceiptsCounted

\* What a step does to the bills: nothing, one new bill under a free id in a
\* free period, or one bill marked paid.
BillAdded(b, bill) ==
  /\ bills[b] = None /\ bill \in BillDoc /\ bill.status = "unpaid"
  /\ ~Billed(bill.room, bill.period)
  /\ bills' = [bills EXCEPT ![b] = bill] /\ receipts' = receipts
BillPaid(b) ==
  /\ Payable(bills[b])
  /\ bills' = [bills EXCEPT ![b] = Paid(bills[b])]
  /\ receipts' = [receipts EXCEPT ![b] = @ + 1]

LEMMA BillsStepwise ==
  ASSUME IBills, [Next]_vars
  PROVE  \/ bills' = bills /\ receipts' = receipts
         \/ \E b \in BillId, bill \in BillDoc : BillAdded(b, bill)
         \/ \E b \in BillId : BillPaid(b)
<1> SUFFICES ASSUME NEW s \in Slot, BillWrite(s), ~(bills' = bills /\ receipts' = receipts)
             PROVE  \/ \E b \in BillId, bill \in BillDoc : BillAdded(b, bill)
                    \/ \E b \in BillId : BillPaid(b)
  BY BillWriters
<1>0. req[s] \in Request /\ Shape(req[s])
  BY DEF IBills, IType, TypeOK, ShapesOK
<1>1. CASE CreateBillInsert(s)
  <2>1. req[s].op = "createBill" /\ req[s].pc = "insert"
    BY <1>1 DEF CreateBillInsert, At
  <2>2. /\ NewBill(req[s]) \in BillDoc /\ NewBill(req[s]).status = "unpaid"
        /\ NewBill(req[s]).room = req[s].room /\ NewBill(req[s]).period = req[s].period
    BY <1>0, <2>1 DEF NewBill, Shape, BillDoc, BillStatus
  <2>3. ~Refused(req[s]) /\ bills' = [bills EXCEPT ![req[s].bill] = NewBill(req[s])]
        /\ receipts' = receipts
    BY <1>1 DEF CreateBillInsert
  <2>4. req[s].bill \in BillId /\ bills[req[s].bill] = None
    BY <1>0, <2>1 DEF Shape, IBills, BillsReserved
  <2>5. BillAdded(req[s].bill, NewBill(req[s]))
    BY <2>2, <2>3, <2>4 DEF BillAdded, Refused
  <2> QED BY <2>2, <2>4, <2>5
<1>2. CASE ConfirmPaymentUpdate(s)
  <2>1. req[s].bill \in BillId
    BY <1>0, <1>2 DEF ConfirmPaymentUpdate, At, Shape
  <2> QED BY <1>2, <2>1 DEF ConfirmPaymentUpdate, BillPaid
<1> QED BY <1>1, <1>2 DEF BillWrite

----------------------------------------------------------------------------
LEMMA PeriodsNext == IBills /\ [Next]_vars => OneBillPerPeriod'
<1> SUFFICES ASSUME IBills, [Next]_vars PROVE OneBillPerPeriod'
  OBVIOUS
<1>1. CASE bills' = bills
  BY <1>1 DEF IBills, OneBillPerPeriod
<1>2. ASSUME NEW b \in BillId, NEW bill \in BillDoc, BillAdded(b, bill) PROVE OneBillPerPeriod'
  BY <1>2 DEF IBills, IType, TypeOK, OneBillPerPeriod, BillAdded, Billed
<1>3. ASSUME NEW b \in BillId, BillPaid(b) PROVE OneBillPerPeriod'
  <2>1. Paid(bills[b]).room = bills[b].room /\ Paid(bills[b]).period = bills[b].period
    BY <1>3 DEF BillPaid, Payable, Paid, IBills, IType, TypeOK, BillDoc
  <2> QED BY <1>3, <2>1 DEF BillPaid, Payable, IBills, IType, TypeOK, OneBillPerPeriod
<1> QED BY <1>1, <1>2, <1>3, BillsStepwise

LEMMA ReceiptsNext == IBills /\ [Next]_vars => ReceiptsCounted'
<1> SUFFICES ASSUME IBills, [Next]_vars PROVE ReceiptsCounted'
  OBVIOUS
<1>1. CASE bills' = bills /\ receipts' = receipts
  BY <1>1 DEF IBills, ReceiptsCounted
<1>2. ASSUME NEW b \in BillId, NEW bill \in BillDoc, BillAdded(b, bill) PROVE ReceiptsCounted'
  BY <1>2 DEF IBills, IType, TypeOK, ReceiptsCounted, BillAdded
<1>3. ASSUME NEW b \in BillId, BillPaid(b) PROVE ReceiptsCounted'
  <2>1. Paid(bills[b]).status = "paid" /\ Paid(bills[b]) # None
    BY <1>3, IdsAssumption DEF BillPaid, Payable, Paid, IBills, IType, TypeOK, BillDoc, BillStatus
  <2> QED BY <1>3, <2>1 DEF BillPaid, Payable, IBills, IType, TypeOK, ReceiptsCounted
<1> QED BY <1>1, <1>2, <1>3, BillsStepwise

LEMMA ReservedNext == IBills /\ [Next]_vars => BillsReserved'
<1> SUFFICES ASSUME IBills, [Next]_vars PROVE BillsReserved'
  OBVIOUS
<1>0. IType
  BY DEF IBills
<1>1. ASSUME NEW s \in Slot, CreateBillBegin(s) PROVE BillsReserved'
  <2>1. PICK u \in UserId, r \in RoomId, b \in FreshBills, p \in Period :
          Begin(s, [Blank EXCEPT !.op = "createBill", !.pc = "room", !.caller = u,
                                 !.room = r, !.bill = b, !.period = p])
    BY <1>1 DEF CreateBillBegin, Callers
  <2> DEFINE q == [Blank EXCEPT !.op = "createBill", !.pc = "room", !.caller = u,
                                 !.room = r, !.bill = b, !.period = p]
  <2>2. req' = [req EXCEPT ![s] = q] /\ q.bill = b
    BY <2>1 DEF Begin, Blank
  <2>3. bills' = bills /\ bills[b] = None /\ \A t \in Slot : req[t].bill # b
    BY <2>1 DEF Begin, db, FreshBills
  <2> HIDE DEF q
  <2> QED BY <2>2, <2>3 DEF IBills, IType, TypeOK, BillsReserved
<1>2. ASSUME NEW s \in Slot, Draws(s), ~CreateBillBegin(s) PROVE BillsReserved'
  <2>1. PICK q : q.op # "createBill" /\ Begin(s, q)
    BY <1>2 DEF Draws, CreateRoomBegin, InviteOwnerBegin, RegisterTenantBegin, Blank
  <2> QED BY <2>1 DEF Begin, db, IBills, IType, TypeOK, BillsReserved
<1>3. CASE \A t \in Slot : Keeps(req[t], req'[t])
  <2> SUFFICES ASSUME NEW s \in Slot, req'[s].op = "createBill", req'[s].pc # "notify"
               PROVE  /\ bills'[req'[s].bill] = None
                      /\ \A t \in Slot : t # s /\ req'[t].op = "createBill"
                                         => req'[t].bill # req'[s].bill
    BY DEF BillsReserved
  <2>1. req[s].op = "createBill" /\ req[s].pc # "notify" /\ req'[s].bill = req[s].bill
    BY <1>3 DEF Keeps, Continues, Drawing
  <2>2. req[s].bill \in BillId /\ bills[req[s].bill] = None
    BY <2>1 DEF IBills, BillsReserved, IType, ShapesOK, Shape
  <2>3. \A t \in Slot : t # s /\ req'[t].op = "createBill" => req'[t].bill # req'[s].bill
    BY <1>3, <2>1 DEF Keeps, Continues, Drawing, IBills, BillsReserved
  <2>4. ASSUME NEW t \in Slot, CreateBillInsert(t) PROVE bills'[req[s].bill] = None
    <3>1. CASE Refused(req[t])
      BY <2>2, <2>4, <3>1 DEF CreateBillInsert
    <3>2. CASE ~Refused(req[t])
      <4>1. req'[t].pc = "notify"
        BY <1>0, <2>4, <3>2 DEF CreateBillInsert, Goto, IType, TypeOK, Request
      <4>2. t # s /\ req[t].op = "createBill"
        BY <2>4, <4>1 DEF CreateBillInsert, At
      <4>3. req[t].bill # req[s].bill
        BY <2>1, <4>2 DEF IBills, BillsReserved
      <4> QED BY <1>0, <2>2, <2>4, <3>2, <4>3 DEF CreateBillInsert, IType, TypeOK
    <3> QED BY <3>1, <3>2
  <2>5. ASSUME NEW t \in Slot, ConfirmPaymentUpdate(t) PROVE bills'[req[s].bill] = None
    BY <1>0, <2>2, <2>5 DEF ConfirmPaymentUpdate, Payable, IType, TypeOK
  <2> QED BY <2>1, <2>2, <2>3, <2>4, <2>5, BillWriters DEF BillWrite
<1> QED BY <1>0, <1>1, <1>2, <1>3, RequestsKept DEF Draws

LEMMA BillsInit == Init => IBills
<1> SUFFICES ASSUME Init PROVE IBills
  OBVIOUS
<1>1. OneBillPerPeriod
  BY SeedConsistency DEF Init, OneBillPerPeriod
<1>2. BillsReserved /\ ReceiptsCounted
  BY DEF Init, BillsReserved, ReceiptsCounted, Blank
<1> QED BY <1>1, <1>2, TypeInit DEF IBills

LEMMA BillsNext == IBills /\ [Next]_vars => IBills'
BY TypeNext, PeriodsNext, ReceiptsNext, ReservedNext DEF IBills

LEMMA BillsInduction == Spec => []IBills
BY BillsInit, BillsNext, PTL DEF Spec

----------------------------------------------------------------------------
\* However many createBill requests race for a room and month, and whichever
\* of them fail, one bill of it is stored.
THEOREM OneBillCorrect == Spec => []OneBillPerPeriod
<1>1. IBills => OneBillPerPeriod
  BY DEF IBills
<1> QED BY <1>1, BillsInduction, PTL

\* However many confirmPayment requests hold an unpaid copy of a bill, one of
\* them marks it paid.
THEOREM PaidOnceCorrect == Spec => []PaidOnce
<1>1. IBills => PaidOnce
  BY DEF IBills, ReceiptsCounted, PaidOnce, IType, TypeOK
<1> QED BY <1>1, BillsInduction, PTL

\* No step of any handler changes what a stored bill says, but to mark it
\* paid, and none removes it.
THEOREM BillsFrozenCorrect == Spec => BillsFrozen
<1>1. IBills /\ [Next]_vars =>
        [\A b \in BillId : bills[b] # None =>
           /\ bills'[b] # None
           /\ bills'[b] \in {bills[b], [bills[b] EXCEPT !.status = "paid"]}]_vars
  <2> SUFFICES ASSUME IBills, [Next]_vars, NEW b \in BillId, bills[b] # None
               PROVE  /\ bills'[b] # None
                      /\ bills'[b] \in {bills[b], [bills[b] EXCEPT !.status = "paid"]}
    OBVIOUS
  <2>1. CASE bills' = bills
    BY <2>1
  <2>2. ASSUME NEW x \in BillId, NEW bill \in BillDoc, BillAdded(x, bill)
        PROVE  bills'[b] = bills[b]
    BY <2>2 DEF BillAdded, IBills, IType, TypeOK
  <2>3. ASSUME NEW x \in BillId, BillPaid(x)
        PROVE  bills'[b] \in {bills[b], Paid(bills[b])}
    BY <2>3 DEF BillPaid, IBills, IType, TypeOK
  <2>4. Paid(bills[b]) # None
    <3>1. Paid(bills[b]) \in BillDoc
      BY DEF Paid, IBills, IType, TypeOK, BillDoc, BillStatus
    <3> QED BY <3>1, IdsAssumption
  <2> QED BY <2>1, <2>2, <2>3, <2>4, BillsStepwise DEF Paid
<1> QED BY <1>1, BillsInduction, PTL DEF Spec, BillsFrozen
----------------------------------------------------------------------------
(***************************************************************************)
(* The ledger.  A step that adds a bill issues the debt of its room and    *)
(* period, one that pays a bill pays it, and every other step leaves the   *)
(* ledger alone.                                                           *)
(***************************************************************************)
OfPeriod(B, r, p) == {x \in BillId : B[x] # None /\ B[x].room = r /\ B[x].period = p}
EntryIn(B, r, p) ==
  IF OfPeriod(B, r, p) = {} THEN None
  ELSE LET b == CHOOSE x \in BillId : B[x] # None /\ B[x].room = r /\ B[x].period = p
       IN  [tenant |-> B[b].tenant, paid |-> B[b].status = "paid"]

LEMMA EntryOfBill ==
  ASSUME NEW B, NEW b \in BillId, B[b] # None,
         \A x \in BillId : B[x] # None /\ B[x].room = B[b].room /\ B[x].period = B[b].period => x = b
  PROVE  EntryIn(B, B[b].room, B[b].period) = [tenant |-> B[b].tenant, paid |-> B[b].status = "paid"]
<1>1. (CHOOSE x \in BillId : B[x] # None /\ B[x].room = B[b].room /\ B[x].period = B[b].period) = b
  OBVIOUS
<1>2. OfPeriod(B, B[b].room, B[b].period) # {}
  BY DEF OfPeriod
<1> QED BY <1>1, <1>2 DEF EntryIn

LEMMA EntryKept ==
  ASSUME NEW B, NEW C, NEW r, NEW p,
         \A x \in BillId : B[x] = C[x] \/ (x \notin OfPeriod(B, r, p) /\ x \notin OfPeriod(C, r, p))
  PROVE  EntryIn(B, r, p) = EntryIn(C, r, p)
<1>1. OfPeriod(B, r, p) = OfPeriod(C, r, p)
  BY DEF OfPeriod
<1> DEFINE S == OfPeriod(B, r, p)
<1>2. CASE S = {}
  BY <1>1, <1>2 DEF EntryIn
<1>3. CASE S # {}
  <2>1. (CHOOSE x \in BillId : B[x] # None /\ B[x].room = r /\ B[x].period = p) = CHOOSE x : x \in S
    BY DEF OfPeriod
  <2>2. (CHOOSE x \in BillId : C[x] # None /\ C[x].room = r /\ C[x].period = p) = CHOOSE x : x \in S
    BY <1>1 DEF OfPeriod
  <2>3. PICK b : b = (CHOOSE x : x \in S)
    OBVIOUS
  <2>4. b \in S
    BY <1>3, <2>3
  <2>5. B[b] = C[b]
    BY <1>1, <2>4 DEF OfPeriod
  <2> QED BY <1>1, <1>3, <2>1, <2>2, <2>3, <2>5 DEF EntryIn
<1> QED BY <1>2, <1>3
Accounts == RoomId \X Period
DebtsOf(B) == [a \in Accounts |-> EntryIn(B, a[1], a[2])]

LEMMA Debts ==
  /\ [a \in RoomId \X Period |-> Entry(a[1], a[2])] = DebtsOf(bills)
  /\ [a \in RoomId \X Period |-> Entry(a[1], a[2])]' = DebtsOf(bills')
<1>1. \A r, p : Entry(r, p) = EntryIn(bills, r, p) /\ Entry(r, p)' = EntryIn(bills', r, p)
  BY DEF Entry, EntryIn, Billed, OfPeriod
<1> QED BY <1>1 DEF DebtsOf, Accounts

\* A step that leaves every bill of the other accounts as it is changes at
\* most the entry of this one.
LEMMA OneEntry ==
  ASSUME NEW B, NEW C, NEW a \in Accounts, NEW e,
         EntryIn(C, a[1], a[2]) = e,
         \A x \in BillId : \/ B[x] = C[x]
                           \/ /\ B[x] # None => <<B[x].room, B[x].period>> = a
                              /\ C[x] # None => <<C[x].room, C[x].period>> = a
  PROVE  DebtsOf(C) = [DebtsOf(B) EXCEPT ![a] = e]
<1>1. ASSUME NEW d \in Accounts, d # a PROVE EntryIn(B, d[1], d[2]) = EntryIn(C, d[1], d[2])
  <2>1. d = <<d[1], d[2]>>
    BY DEF Accounts
  <2>2. \A x \in BillId : B[x] = C[x] \/ (x \notin OfPeriod(B, d[1], d[2]) /\ x \notin OfPeriod(C, d[1], d[2]))
    BY <1>1, <2>1 DEF OfPeriod
  <2> QED BY <2>2, EntryKept
<1> QED BY <1>1 DEF DebtsOf

LEMMA IssueStep ==
  ASSUME IBills, OneBillPerPeriod', NEW b \in BillId, NEW bill \in BillDoc, BillAdded(b, bill)
  PROVE  \E a \in Accounts :
           /\ DebtsOf(bills)[a] = None
           /\ \E u \in UserId :
                DebtsOf(bills') = [DebtsOf(bills) EXCEPT ![a] = [tenant |-> u, paid |-> FALSE]]
<1> DEFINE a == <<bill.room, bill.period>>
           e == [tenant |-> bill.tenant, paid |-> FALSE]
<1>1. a \in Accounts /\ a[1] = bill.room /\ a[2] = bill.period /\ bill.tenant \in UserId
  BY DEF Accounts, BillDoc
<1>2. bills' \in [BillId -> BillDoc \cup {None}] /\ bills'[b] = bill /\ bill # None
  BY IdsAssumption DEF BillAdded, IBills, IType, TypeOK
<1>3. DebtsOf(bills)[a] = None
  <2>1. OfPeriod(bills, bill.room, bill.period) = {}
    BY DEF BillAdded, Billed, OfPeriod
  <2> QED BY <1>1, <2>1 DEF DebtsOf, EntryIn
<1>4. EntryIn(bills', a[1], a[2]) = e
  <2>1. \A x \in BillId : bills'[x] # None /\ bills'[x].room = bills'[b].room
                         /\ bills'[x].period = bills'[b].period => x = b
    BY <1>2 DEF OneBillPerPeriod
  <2>2. EntryIn(bills', bills'[b].room, bills'[b].period)
          = [tenant |-> bills'[b].tenant, paid |-> bills'[b].status = "paid"]
    BY <1>2, <2>1, EntryOfBill
  <2>3. (bill.status = "paid") = FALSE
    BY DEF BillAdded
  <2> QED BY <1>1, <1>2, <2>2, <2>3
<1>5. \A x \in BillId : bills[x] = bills'[x] \/ x = b
  BY DEF BillAdded, IBills, IType, TypeOK
<1>6. bills[b] = None
  BY DEF BillAdded
<1> HIDE DEF a, e
<1>7. DebtsOf(bills') = [DebtsOf(bills) EXCEPT ![a] = e]
  <2>1. \A x \in BillId : \/ bills[x] = bills'[x]
                          \/ /\ bills[x] # None => <<bills[x].room, bills[x].period>> = a
                             /\ bills'[x] # None => <<bills'[x].room, bills'[x].period>> = a
    BY <1>2, <1>5, <1>6 DEF a
  <2> QED BY <1>1, <1>4, <2>1, OneEntry
<1> QED BY <1>1, <1>3, <1>7 DEF e

LEMMA PaidSet ==
  ASSUME NEW t, NEW x, NEW y
  PROVE  [[tenant |-> t, paid |-> x] EXCEPT !.paid = y] = [tenant |-> t, paid |-> y]
OBVIOUS

LEMMA PayStep ==
  ASSUME IBills, OneBillPerPeriod', NEW b \in BillId, BillPaid(b)
  PROVE  \E a \in Accounts :
           /\ DebtsOf(bills)[a] # None
           /\ ~DebtsOf(bills)[a].paid
           /\ DebtsOf(bills') = [DebtsOf(bills) EXCEPT ![a].paid = TRUE]
<1> DEFINE a == <<bills[b].room, bills[b].period>>
           e == [tenant |-> bills[b].tenant, paid |-> FALSE]
           f == [tenant |-> bills[b].tenant, paid |-> TRUE]
<1>1. /\ bills[b] # None /\ bills[b] \in BillDoc /\ bills[b].status # "paid"
      /\ bills' = [bills EXCEPT ![b] = Paid(bills[b])]
  BY DEF BillPaid, Payable, IBills, IType, TypeOK
<1>2. a \in Accounts /\ a[1] = bills[b].room /\ a[2] = bills[b].period
  BY <1>1 DEF Accounts, BillDoc
<1>3. /\ bills'[b] = Paid(bills[b]) /\ bills'[b] # None
      /\ bills'[b].room = bills[b].room /\ bills'[b].period = bills[b].period
      /\ bills'[b].tenant = bills[b].tenant /\ bills'[b].status = "paid"
  <2>1. Paid(bills[b]) \in BillDoc
    BY <1>1 DEF Paid, BillDoc, BillStatus
  <2>2. Paid(bills[b]) # None
    BY <2>1, IdsAssumption
  <2>3. bills'[b] = Paid(bills[b])
    BY <1>1 DEF IBills, IType, TypeOK
  <2> QED BY <1>1, <2>2, <2>3 DEF Paid, BillDoc
<1>4. EntryIn(bills, a[1], a[2]) = e
  <2>1. EntryIn(bills, bills[b].room, bills[b].period)
          = [tenant |-> bills[b].tenant, paid |-> bills[b].status = "paid"]
    BY <1>1, EntryOfBill DEF IBills, OneBillPerPeriod
  <2>2. (bills[b].status = "paid") = FALSE
    BY <1>1
  <2> QED BY <1>2, <2>1, <2>2
<1>5. EntryIn(bills', a[1], a[2]) = f
  <2>1. EntryIn(bills', bills'[b].room, bills'[b].period)
          = [tenant |-> bills'[b].tenant, paid |-> bills'[b].status = "paid"]
    BY <1>3, EntryOfBill DEF OneBillPerPeriod
  <2>2. (bills'[b].status = "paid") = TRUE
    BY <1>3
  <2> QED BY <1>2, <1>3, <2>1, <2>2
<1>6. \A x \in BillId : bills[x] = bills'[x] \/ x = b
  BY <1>1 DEF IBills, IType, TypeOK
<1>7. DebtsOf(bills)[a] = e
  BY <1>2, <1>4 DEF DebtsOf
<1>8. \A x \in BillId : \/ bills[x] = bills'[x]
                        \/ /\ bills[x] # None => <<bills[x].room, bills[x].period>> = a
                           /\ bills'[x] # None => <<bills'[x].room, bills'[x].period>> = a
  BY <1>3, <1>6
<1>9. e # None /\ ~e.paid /\ f = [e EXCEPT !.paid = TRUE]
  <2>1. e \in LedgerOfBills!Debt
    BY <1>1 DEF BillDoc, LedgerOfBills!Debt
  <2>2. ~e.paid
    OBVIOUS
  <2>3. f = [e EXCEPT !.paid = TRUE]
    BY PaidSet, Zenon
  <2> HIDE DEF e
  <2> QED BY <2>1, <2>2, <2>3, EntryAssumption
<1> HIDE DEF a, e, f
<1>10. DebtsOf(bills') = [DebtsOf(bills) EXCEPT ![a] = f]
  BY <1>2, <1>5, <1>8, OneEntry
<1>11. DebtsOf(bills') = [DebtsOf(bills) EXCEPT ![a].paid = TRUE]
  BY <1>7, <1>9, <1>10
<1> QED BY <1>2, <1>7, <1>9, <1>11

\* Under every interleaving, lost write and crash, what the services do to the
\* bills is what the ledger allows.
THEOREM BillsImplementLedger == Spec => ImplementsLedger
<1> DEFINE D == [a \in RoomId \X Period |-> Entry(a[1], a[2])]
<1>1. IBills => D \in [Accounts -> LedgerOfBills!Debt \cup {None}]
  <2> SUFFICES ASSUME IBills, NEW a \in Accounts
               PROVE  EntryIn(bills, a[1], a[2]) \in LedgerOfBills!Debt \cup {None}
    BY Debts DEF DebtsOf
  <2>1. CASE OfPeriod(bills, a[1], a[2]) = {}
    BY <2>1 DEF EntryIn
  <2>2. CASE OfPeriod(bills, a[1], a[2]) # {}
    <3>1. PICK b \in BillId : bills[b] # None /\ bills[b].room = a[1] /\ bills[b].period = a[2]
      BY <2>2 DEF OfPeriod
    <3>2. EntryIn(bills, a[1], a[2]) = [tenant |-> bills[b].tenant, paid |-> bills[b].status = "paid"]
      BY <3>1, EntryOfBill DEF IBills, OneBillPerPeriod
    <3>3. bills[b].tenant \in UserId
      BY <3>1 DEF IBills, IType, TypeOK, BillDoc
    <3>4. (bills[b].status = "paid") \in BOOLEAN
      OBVIOUS
    <3> QED BY <3>2, <3>3, <3>4 DEF LedgerOfBills!Debt
  <2> QED BY <2>1, <2>2
<1>2. IBills => LedgerOfBills!Init
  BY <1>1 DEF LedgerOfBills!Init, Accounts
<1>3. IBills /\ IBills' /\ [Next]_vars => [LedgerOfBills!Next]_D
  <2> SUFFICES ASSUME IBills, IBills', [Next]_vars PROVE [LedgerOfBills!Next]_D
    OBVIOUS
  <2>0. OneBillPerPeriod'
    BY DEF IBills
  <2>1. CASE bills' = bills
    <3>1. D' = D
      BY <2>1, Debts
    <3> QED BY <3>1
  <2>2. ASSUME NEW b \in BillId, NEW bill \in BillDoc, BillAdded(b, bill)
        PROVE  LedgerOfBills!Next
    BY <2>0, <2>2, IssueStep, Debts DEF LedgerOfBills!Next, LedgerOfBills!Issue, Accounts
  <2>3. ASSUME NEW b \in BillId, BillPaid(b) PROVE LedgerOfBills!Next
    BY <2>0, <2>3, PayStep, Debts DEF LedgerOfBills!Next, LedgerOfBills!Pay, Accounts
  <2> QED BY <2>1, <2>2, <2>3, BillsStepwise
<1> QED BY <1>2, <1>3, BillsInduction, PTL DEF Spec, ImplementsLedger, LedgerOfBills!Spec
=============================================================================
