------------------------------- MODULE Ledger -------------------------------
(***************************************************************************)
(* What billing promises, without rooms, requests or failures: each room   *)
(* and month has at most one debt; it is in one tenant's name from the     *)
(* moment it exists, it is settled at most once, and it is never dropped.  *)
(***************************************************************************)
CONSTANTS RoomId, Period, UserId, NoDebt

Debt == [tenant : UserId, paid : BOOLEAN]

VARIABLE debts

Init == debts \in [RoomId \X Period -> Debt \cup {NoDebt}]

Issue(a) ==
  /\ debts[a] = NoDebt
  /\ \E u \in UserId : debts' = [debts EXCEPT ![a] = [tenant |-> u, paid |-> FALSE]]

Pay(a) ==
  /\ debts[a] # NoDebt
  /\ ~debts[a].paid
  /\ debts' = [debts EXCEPT ![a].paid = TRUE]

Next == \E a \in RoomId \X Period : Issue(a) \/ Pay(a)

Spec == Init /\ [][Next]_debts
=============================================================================
