----------------------- MODULE SubscriptionsLiveness -----------------------
(***************************************************************************)
(* What Subscriptions promises under fairness. PayPal sends a notice again *)
(* until it is answered with success, its billing information catches up   *)
(* with its charges, and a request in flight goes on: Node runs every      *)
(* continuation and InnoDB grants row locks in turn. A request that can go *)
(* on fails only MaxFaults times in all (calls to PayPal that time out,    *)
(* connections lost, restarts); one whose precondition is refused fails    *)
(* as often as it is tried.                                                *)
(***************************************************************************)
EXTENDS Subscriptions

CONSTANT MaxFaults
VARIABLE faults

liveVars == <<vars, faults>>

Fault(t) == /\ faults < MaxFaults
            /\ ENABLED Progress(t)
            /\ Fail(t)
            /\ faults' = faults + 1

\* Queued behind the transaction that holds the row.
Waiting(t) == /\ task[t].at \in {"link", "confirm", "cancel"}
              /\ \E s \in SubId : /\ RowLocked(s)
                                  /\ s = task[t].sub \/ subs[s].ext = task[t].ext

Refused(t) == /\ ~ENABLED Progress(t)
              /\ ~Waiting(t)
              /\ Fail(t)
              /\ UNCHANGED faults

Works(t) == Progress(t) /\ UNCHANGED faults

Ask(t) == /\ \/ \E u \in User : CheckReservation(t, u)
             \/ \E s \in SubId, e \in ExtSub : LinkApprovedSubscription(t, s, e)
          /\ UNCHANGED faults

Delivered(t, n) == ProcessSubscriptionEvent(t, n) /\ UNCHANGED faults

Billed(p) == PayPalBill(p) /\ UNCHANGED faults

LiveInit == Init /\ faults = 0

LiveNext ==
    \/ (Tick \/ PayPal) /\ UNCHANGED faults
    \/ \E t \in Task : Fault(t) \/ Refused(t) \/ Works(t) \/ Ask(t)
    \/ \E t \in Task, n \in notices : Delivered(t, n)

Fairness ==
    /\ \A t \in Task : SF_liveVars(Works(t)) /\ WF_liveVars(Refused(t))
    /\ \A n \in Notice :
         SF_liveVars(/\ n \in notices \ answered
                     /\ \E t \in Task : Delivered(t, n))
    /\ \A p \in PayId : WF_liveVars(Billed(p))

LiveSpec == LiveInit /\ [][LiveNext]_liveVars /\ Fairness

\* The webhook of the charge p can no longer be applied: PayPal's billing
\* information belongs to a later charge or was never updated before the
\* cancellation, or the reference of its subscription names no row it can be
\* linked to.
OutOfReach(p) ==
    \E e \in ExtSub :
        /\ charge[p].ext = e
        /\ \/ paypal[e].last # None /\ paypal[e].last > charge[p].paidAt
           \/ /\ paypal[e].state = "CANCELLED"
              /\ paypal[e].next = None \/ paypal[e].last # charge[p].paidAt
           \/ paypal[e].ref.sub = None
           \/ \E s \in SubId : /\ paypal[e].ref.sub = s
                               /\ \/ ~Verifies(paypal[e].ref, s)
                                  \/ subs[s].ext \notin {None, e}

\* A completed charge of the plan is recorded in the end, however often its
\* webhook was lost, refused or interrupted, unless the code has no way left
\* to apply it (processSubscriptionEvent, with PayPal's retries).
PaymentIsRecorded ==
    \A p \in PayId :
        (charge[p].status = "COMPLETED" /\ charge[p].plan)
            ~> ((\E s \in SubId : <<s, p>> \in recorded) \/ OutOfReach(p))

\* A cancellation notice of a linked subscription cancels its row in the end,
\* even one that comes before the payment's.
CancellationIsRegistered ==
    \A e \in ExtSub, s \in SubId :
        (paypal[e].state = "CANCELLED" /\ subs[s].ext = e)
            ~> (subs[s].status = "CANCELED")
=============================================================================
