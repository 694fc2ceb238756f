----------------------- MODULE SubscriptionsInvariant -----------------------
(***************************************************************************)
(* Why Subscriptions is correct: what holds of every request between two   *)
(* of its steps. The conjunction is inductive; the runs check it and       *)
(* SubscriptionsProofs proves it.                                          *)
(***************************************************************************)
EXTENDS Subscriptions

Open == {"PENDING", "ACTIVE", "PAST_DUE"}
Closed == {"CANCELED", "EXPIRED"}

\* A transaction writes the row it holds, not an older copy of it, and alone.
RowsHeld ==
    /\ \A t \in Task : task[t].at \in RowSteps => task[t].row = subs[task[t].sub]
    /\ \A t, o \in Task : /\ task[t].at \in RowSteps /\ task[o].at \in RowSteps
                          /\ task[t].sub = task[o].sub
                          => t = o

\* A reservation about to be inserted is the only one of its account, and
\* the account has no open row.
UsersHeld ==
    /\ \A t, o \in Task : /\ task[t].at = "reserving" /\ task[o].at = "reserving"
                          /\ task[t].user = task[o].user
                          => t = o
    /\ \A t \in Task, s \in SubId :
         task[t].at = "reserving" /\ subs[s].user = task[t].user
         => subs[s].status \notin Open

\* Only a linked row has a period or has been canceled, one in force has a
\* period, and no code ever writes PAST_DUE or EXPIRED.
RowsWellFormed ==
    \A s \in SubId :
        /\ subs[s].status \in Closed \/ subs[s].end # None => subs[s].ext # None
        /\ subs[s].status = "ACTIVE" => subs[s].end # None
        /\ subs[s].status \notin {"PAST_DUE", "EXPIRED"}

\* The reference a request goes by is that of its PayPal subscription, and a
\* link about to be written is of an unlinked row the reference was signed for.
LinksBacked ==
    /\ \A s \in SubId : subs[s].ext # None => paypal[subs[s].ext].state # "NONE"
    /\ \A t \in Task :
         /\ task[t].at \in {"link", "linking"} =>
              /\ paypal[task[t].ext].state # "NONE"
              /\ task[t].ref = paypal[task[t].ext].ref
         /\ task[t].at = "linking" =>
              /\ Verifies(task[t].ref, task[t].sub)
              /\ task[t].row.status = "PENDING"
              /\ task[t].row.ext = None

\* PayPal's next billing time is a period after the last payment.
BillingPeriod ==
    \A e \in ExtSub : paypal[e].next # None =>
        paypal[e].last # None /\ paypal[e].next = paypal[e].last + Period

\* A payment on its way to the row is of a completed charge, with the charge's
\* own period.
PaymentsBacked ==
    \A t \in Task :
        LET r == task[t]
        IN  /\ r.at \in {"bill", "confirm", "confirming"} =>
                 charge[r.pay].status = "COMPLETED" /\ charge[r.pay].ext = r.ext
            /\ r.at \in {"confirm", "confirming"} =>
                 r.start = charge[r.pay].paidAt /\ r.end = r.start + Period
            /\ r.at = "confirming" => charge[r.pay].plan
            /\ r.at \in {"confirming", "canceling"} => r.row.ext = r.ext

\* The period of a row is that of a payment recorded for it.
PeriodIsRecorded ==
    \A s \in SubId : subs[s].end # None =>
        \E p \in PayId : <<s, p>> \in recorded /\ charge[p].paidAt + Period = subs[s].end

ToBeTold(r) ==
    /\ subs[r.sub].ext = r.ext
    /\ r.kind = "CANCEL" => subs[r.sub].status = "CANCELED" /\ sse[r.sub].canceled = 0
    /\ r.kind = "PAYMENT" => /\ subs[r.sub].status \in {"ACTIVE", "CANCELED"}
                             /\ <<r.sub, r.pay>> \in recorded
                             /\ sse[r.sub].activated = 0

\* What a request is about to tell the browser has been committed, and nobody
\* else has told it or will.
ToldOnce ==
    /\ \A t \in Task : task[t].at = "canceling" => task[t].row.status \notin Closed
    /\ \A t, o \in Task : /\ task[t].at = "publish" /\ task[o].at = "publish"
                          /\ task[t].sub = task[o].sub /\ task[t].kind = task[o].kind
                          => t = o
    /\ \A t \in Task : task[t].at = "publish" => ToBeTold(task[t])

IInv ==
    /\ TypeOK
    /\ RowsHeld /\ UsersHeld /\ OneOpenReservation /\ RowsWellFormed
    /\ LinksBacked /\ LinkedToItsSigner
    /\ BillingPeriod /\ PaymentsBacked /\ RecordedIsGenuine /\ PeriodIsRecorded
    /\ ToldOnce /\ NotifiedOnce /\ AnsweredIsApplied

---------------------------------------------------------------------------
\* The table as the rest of the backend sees it.
Table == [s \in SubId |-> [user |-> subs[s].user, status |-> subs[s].status,
                           ext |-> subs[s].ext, end |-> subs[s].end]]
Contract == INSTANCE SubscriptionContract WITH row <- Table

\* Whatever the interleaving of requests, deliveries and failures, the table
\* changes as if each transaction were one step on the row as it stands.
ImplementsContract == Contract!Spec
=============================================================================
