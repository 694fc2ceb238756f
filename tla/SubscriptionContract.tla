------------------------ MODULE SubscriptionContract ------------------------
(***************************************************************************)
(* What the subscriptions table promises the rest of the backend, with no  *)
(* requests in flight and no PayPal: each transaction is one step on the   *)
(* row as it is, never on a copy read earlier. An account reserves only    *)
(* when it has no open row, a row is linked once and to a PayPal           *)
(* subscription no other row has, a payment is counted once and may only   *)
(* lengthen the period, and a canceled row keeps its period and stays      *)
(* canceled.                                                               *)
(***************************************************************************)
EXTENDS Integers

CONSTANTS User, SubId, ExtSub, PayId, None, Instant

VARIABLES now, row, recorded

RowOf(user, status, ext, end) ==
    [user |-> user, status |-> status, ext |-> ext, end |-> end]
Absent == RowOf(None, "NONE", None, None)
Open == {"PENDING", "ACTIVE", "PAST_DUE"}
Closed == {"CANCELED", "EXPIRED"}

Init == /\ now = 0
        /\ row = [s \in SubId |-> Absent]
        /\ recorded = {}

Reserve(u, s) ==
    /\ row[s] = Absent
    /\ \A r \in SubId : row[r].user = u => row[r].status \notin Open
    /\ row' = [row EXCEPT ![s] = RowOf(u, "PENDING", None, None)]
    /\ UNCHANGED <<now, recorded>>

Link(s, e) ==
    /\ row[s].status = "PENDING"
    /\ row[s].ext = None
    /\ \A r \in SubId : row[r].ext # e
    /\ row' = [row EXCEPT ![s] = RowOf(row[s].user, "PENDING", e, row[s].end)]
    /\ UNCHANGED <<now, recorded>>

\* The period ends at end after the payment p, and the row is in force if
\* that is still to come.
Pay(s, p, end) ==
    /\ row[s].ext # None
    /\ <<s, p>> \notin recorded
    /\ recorded' = recorded \cup {<<s, p>>}
    /\ row[s].end # None => end > row[s].end
    /\ LET status == IF row[s].status \notin Closed /\ end > now
                       THEN "ACTIVE" ELSE row[s].status
       IN  row' = [row EXCEPT ![s] = RowOf(row[s].user, status, row[s].ext, end)]
    /\ UNCHANGED now

\* A payment of a period the row has had already.
RecordLate(s, p) ==
    /\ row[s].end # None
    /\ recorded' = recorded \cup {<<s, p>>}
    /\ UNCHANGED <<now, row>>

Cancel(s) ==
    /\ row[s].ext # None
    /\ row[s].status \notin Closed
    /\ row' = [row EXCEPT ![s] = RowOf(row[s].user, "CANCELED", row[s].ext, row[s].end)]
    /\ UNCHANGED <<now, recorded>>

Tick == now' = now + 1 /\ UNCHANGED <<row, recorded>>

Next ==
    \/ Tick
    \/ \E s \in SubId :
         \/ \E u \in User : Reserve(u, s)
         \/ \E e \in ExtSub : Link(s, e)
         \/ \E p \in PayId : RecordLate(s, p) \/ \E end \in Instant : Pay(s, p, end)
         \/ Cancel(s)

Spec == Init /\ [][Next]_<<now, row, recorded>>
=============================================================================
