------------------------------- MODULE Mailbox -------------------------------
(***************************************************************************)
(* What the notifications promise, whatever the queue, the retries and the *)
(* crashes do: a subject is announced to a user at most once; from then on *)
(* copies of it may appear in the user's list, until it is settled, which  *)
(* takes a copy, or given up.  Later nothing is added, and nothing ever    *)
(* leaves the list or becomes unread again.                                *)
(***************************************************************************)
EXTENDS Naturals, FiniteSets

CONSTANTS User, Subject, MaxCopies

VARIABLES
  pending,  \* <<user, subject>> pairs announced and not yet closed
  settled,  \* closed with a copy in the list
  lost,     \* closed for want of attempts
  list      \* the notifications of all users

vars == <<pending, settled, lost, list>>
Pair == User \X Subject
Of(p) == {n \in list : n.user = p[1] /\ n.call = p[2]}

Init == pending = {} /\ settled = {} /\ lost = {} /\ list = {}

Announce ==
  /\ \E P \in SUBSET (Pair \ (pending \cup settled \cup lost)) : pending' = pending \cup P
  /\ UNCHANGED <<settled, lost, list>>

Deliver(p) ==
  /\ p \in pending /\ Cardinality(Of(p)) < MaxCopies
  /\ list' = list \cup {[user |-> p[1], call |-> p[2], copy |-> Cardinality(Of(p)) + 1,
                         read |-> FALSE]}
  /\ UNCHANGED <<pending, settled, lost>>

Settle(p) ==
  /\ p \in pending /\ Of(p) # {}
  /\ pending' = pending \ {p} /\ settled' = settled \cup {p}
  /\ UNCHANGED <<lost, list>>

GiveUp(p) ==
  /\ p \in pending
  /\ pending' = pending \ {p} /\ lost' = lost \cup {p}
  /\ UNCHANGED <<settled, list>>

\* Some or all of one user's notifications become read.
Read(u) ==
  /\ \E N \in SUBSET {n \in list : n.user = u /\ ~n.read} :
       list' = (list \ N) \cup {[n EXCEPT !.read = TRUE] : n \in N}
  /\ UNCHANGED <<pending, settled, lost>>

Next ==
  \/ Announce
  \/ \E p \in Pair : Deliver(p) \/ Settle(p) \/ GiveUp(p)
  \/ \E u \in User : Read(u)

Spec == Init /\ [][Next]_vars
=============================================================================
