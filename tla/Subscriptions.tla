--------------------------- MODULE Subscriptions ---------------------------
(***************************************************************************)
(* The Premium subscription of a reader: src/subscriptions and             *)
(* src/payment_transactions, with PayPal as the environment.               *)
(*                                                                         *)
(* A reader reserves a subscription (a PENDING row), pays at PayPal with   *)
(* the signed checkout reference of that row, and the row is linked to the *)
(* PayPal subscription either by the browser (POST /subscriptions/confirm) *)
(* or by the first webhook, whichever comes first. Every webhook is        *)
(* checked against PayPal again before it is applied.                      *)
(*                                                                         *)
(* A request in flight is a task: one step per await of the handler. A     *)
(* database transaction is two steps, the SELECT ... FOR UPDATE that locks *)
(* and reads the row and the write that commits it, so that what the row   *)
(* locks protect is a matter of the model and not of its atomicity. A task *)
(* may end with an error at any step (Fail): a refused precondition, a     *)
(* failed or timed out call to PayPal, a rolled back transaction, the      *)
(* process stopping. PayPal delivers a notice any number of times, in any  *)
(* order, until and after it was answered with success.                    *)
(***************************************************************************)
EXTENDS Integers, FiniteSets

CONSTANTS
    User,     \* accounts of readers
    SubId,    \* ids the subscriptions table may hand out
    ExtSub,   \* PayPal subscriptions of the plan
    PayId,    \* PayPal charges
    Task,     \* slots for requests in flight
    None,     \* SQL NULL, and an absent field
    Period,   \* instants from a charge to the next billing time
    MaxTime   \* bound of the clock

ASSUME SubscriptionsAssumption ==
    /\ Period \in Nat \ {0}
    /\ MaxTime \in Nat
    /\ None \notin User \cup SubId \cup ExtSub \cup PayId \cup Int

VARIABLES
    now,       \* the clock, in units longer than PAYMENT_TIME_TOLERANCE_MS
    subs,      \* table subscriptions: SubId -> row
    recorded,  \* table payment_transactions: pairs <<subscription, charge>>
    task,      \* requests in flight
    sse,       \* events published to the browser, counted by subscription
    paypal,    \* PayPal's subscriptions
    charge,    \* PayPal's charges
    notices,   \* webhooks PayPal has sent, each deliverable again and again
    answered   \* the webhooks this service answered with 204

vars == <<now, subs, recorded, task, sse, paypal, charge, notices, answered>>
external == <<paypal, charge, notices>>

Instant == 0 .. (MaxTime + Period)
Status == {"PENDING", "ACTIVE", "PAST_DUE", "CANCELED", "EXPIRED"}
NoRow == [user |-> None, status |-> "NONE", ext |-> None,
          startedAt |-> None, start |-> None, end |-> None]
Row == {NoRow} \cup
       [user : User, status : Status, ext : ExtSub \cup {None},
        startedAt : Instant \cup {None}, start : Instant \cup {None},
        end : Instant \cup {None}]

\* The checkout reference v1.<sub>.<hmac of sub and user>: a reference whose
\* text is malformed has no sub, one signed with another secret no user.
Reference == [sub : SubId \cup {None}, user : User \cup {None}]
NoReference == [sub |-> None, user |-> None]

Notice == [type : {"PAYMENT"}, ext : ExtSub, pay : PayId] \cup
          [type : {"CANCEL"}, ext : ExtSub, pay : {None}]

Steps == {"idle", "reserving", "identify", "link", "linking", "verify", "bill",
          "confirm", "confirming", "cancel", "canceling", "publish"}
RowSteps == {"linking", "confirming", "canceling"}
TaskRecord == [at : Steps, kind : {"NONE", "RESERVE", "LINK", "PAYMENT", "CANCEL"},
               user : User \cup {None}, sub : SubId \cup {None},
               ext : ExtSub \cup {None}, pay : PayId \cup {None},
               ref : Reference, row : Row,
               start : Instant \cup {None}, end : Instant \cup {None}]
\* What a request has learned by the step it is at.
Informed(r) ==
    /\ r.at = "reserving" => r.user \in User
    /\ r.at \notin {"idle", "reserving"} => /\ r.ext \in ExtSub
                                            /\ r.kind \in {"LINK", "PAYMENT", "CANCEL"}
    /\ r.kind = "PAYMENT" => r.pay \in PayId
    /\ r.kind # "PAYMENT" => r.pay = None
    /\ r.at \in {"verify", "bill", "confirm", "confirming"} => r.kind = "PAYMENT"
    /\ r.at \in {"cancel", "canceling"} => r.kind = "CANCEL"
    /\ r.at = "publish" => r.kind \in {"PAYMENT", "CANCEL"}
    /\ r.at \in RowSteps \cup {"link", "publish"} => r.sub \in SubId
    /\ r.at \in RowSteps => r.row # NoRow
    /\ r.at \in {"confirm", "confirming"} => r.start \in Instant /\ r.end \in Instant
RequestRecord == {r \in TaskRecord : Informed(r)}
Idle == [at |-> "idle", kind |-> "NONE", user |-> None, sub |-> None,
         ext |-> None, pay |-> None, ref |-> NoReference, row |-> NoRow,
         start |-> None, end |-> None]

---------------------------------------------------------------------------
(* What the queries ask.                                                   *)

Exists(s) == subs[s].status # "NONE"

\* A date column compared with MoreThan(new Date()): false on NULL.
Later(t) == t # None /\ t > now

\* The row keeps its owner from reserving another one.
Blocking(row) == \/ row.status \in {"PENDING", "ACTIVE", "PAST_DUE"}
                 \/ row.status = "CANCELED" /\ Later(row.end)

HasPremiumAccess(u) == \E s \in SubId : /\ subs[s].user = u
                                        /\ subs[s].status \in {"ACTIVE", "CANCELED"}
                                        /\ Later(subs[s].end)

NeverLocked(s) == FALSE

\* A transaction other than this task's holds the row.
UserLocked(u) == \E t \in Task : task[t].at = "reserving" /\ task[t].user = u
RowLocked(s) == \E t \in Task : task[t].at \in RowSteps /\ task[t].sub = s

\* The reference was signed for this row and its owner.
Verifies(ref, s) == ref.sub = s /\ ref.user = subs[s].user

NoticeOf(r) == [type |-> r.kind, ext |-> r.ext, pay |-> r.pay]

\* A subscription at PayPal, and a charge made on one.
PaypalRecord == [state : {"NONE", "APPROVED", "ACTIVE", "CANCELLED"}, ref : Reference,
                 last : Instant \cup {None}, next : Instant \cup {None}]
NoPaypal == [state |-> "NONE", ref |-> NoReference, last |-> None, next |-> None]
NoCharge == [ext |-> None, paidAt |-> None, status |-> "NONE", plan |-> FALSE]
ChargeRecord == {NoCharge} \cup
                [ext : ExtSub, paidAt : 0 .. MaxTime,
                 status : {"PENDING", "COMPLETED", "DECLINED"}, plan : BOOLEAN]

Init ==
    /\ now = 0
    /\ subs = [s \in SubId |-> NoRow]
    /\ recorded = {}
    /\ task = [t \in Task |-> Idle]
    /\ sse = [s \in SubId |-> [activated |-> 0, canceled |-> 0]]
    /\ paypal = [e \in ExtSub |-> NoPaypal]
    /\ charge = [p \in PayId |-> NoCharge]
    /\ notices = {}
    /\ answered = {}

---------------------------------------------------------------------------
(* How a request moves on. Done answers the caller with success, and a     *)
(* webhook answered with success is not sent again by PayPal.              *)

Goto(t, request) == task' = [task EXCEPT ![t] = request]
Done(t) == /\ Goto(t, Idle)
           /\ answered' = IF task[t].kind \in {"PAYMENT", "CANCEL"}
                            THEN answered \cup {NoticeOf(task[t])} ELSE answered

Fail(t) ==
    /\ task[t].at # "idle"
    /\ Goto(t, Idle)
    /\ UNCHANGED <<now, subs, recorded, sse, external, answered>>

\* What a webhook does once its subscription is linked.
AfterLink(kind) == IF kind = "CANCEL" THEN "cancel" ELSE "verify"

---------------------------------------------------------------------------
(* POST /subscriptions: one reservation at a time for each account. The    *)
(* account's own status may refuse the request; it is not modelled.        *)

CheckReservationUnlocked(t, u) ==
    /\ task[t].at = "idle"
    /\ \A s \in SubId : subs[s].user = u => ~Blocking(subs[s])
    /\ Goto(t, [Idle EXCEPT !.at = "reserving", !.kind = "RESERVE", !.user = u])
    /\ UNCHANGED <<now, subs, recorded, sse, external, answered>>

CheckReservation(t, u) ==
    /\ task[t].at = "idle"
    /\ ~UserLocked(u)
    /\ \A s \in SubId : subs[s].user = u => ~Blocking(subs[s])
    /\ Goto(t, [Idle EXCEPT !.at = "reserving", !.kind = "RESERVE", !.user = u])
    /\ UNCHANGED <<now, subs, recorded, sse, external, answered>>

ReservePendingSubscription(t) ==
    /\ task[t].at = "reserving"
    /\ \E s \in SubId :
         /\ ~Exists(s)
         /\ subs' = [subs EXCEPT ![s] =
                        [NoRow EXCEPT !.user = task[t].user, !.status = "PENDING"]]
    /\ Goto(t, Idle)
    /\ UNCHANGED <<now, recorded, sse, external, answered>>

---------------------------------------------------------------------------
(* Linking a reservation to a PayPal subscription.                         *)

\* POST /subscriptions/confirm by the owner of the row s.
LinkApprovedSubscription(t, s, e) ==
    /\ task[t].at = "idle"
    /\ Exists(s)
    /\ Goto(t, [Idle EXCEPT !.at = "identify", !.kind = "LINK",
                            !.user = subs[s].user, !.sub = s, !.ext = e])
    /\ UNCHANGED <<now, subs, recorded, sse, external, answered>>

\* A verified webhook arrives; its subscription may be linked already.
ProcessSubscriptionEvent(t, n) ==
    /\ task[t].at = "idle"
    /\ Goto(t, [Idle EXCEPT
         !.at = IF \E s \in SubId : subs[s].ext = n.ext THEN AfterLink(n.type)
                                                         ELSE "identify",
         !.kind = n.type, !.ext = n.ext, !.pay = n.pay])
    /\ UNCHANGED <<now, subs, recorded, sse, external, answered>>

IdentityOfApprovedOnly(t) ==
    LET r == task[t]
        p == paypal[r.ext]
    IN  /\ r.at = "identify"
        /\ p.state \in {"APPROVED", "ACTIVE"}
        /\ p.ref.sub # None
        /\ r.kind = "LINK" => p.ref.sub = r.sub
        /\ Goto(t, [r EXCEPT !.at = "link", !.sub = p.ref.sub, !.ref = p.ref])
        /\ UNCHANGED <<now, subs, recorded, sse, external, answered>>

GetSubscriptionIdentity(t) ==
    LET r == task[t]
        p == paypal[r.ext]
    IN  /\ r.at = "identify"
        /\ p.state # "NONE"
        /\ p.ref.sub # None
        /\ r.kind = "LINK" => p.ref.sub = r.sub /\ p.state \in {"APPROVED", "ACTIVE"}
        /\ Goto(t, [r EXCEPT !.at = "link", !.sub = p.ref.sub, !.ref = p.ref])
        /\ UNCHANGED <<now, subs, recorded, sse, external, answered>>

LinkableUnverified(r) ==
    /\ Exists(r.sub)
    /\ r.kind = "LINK" => subs[r.sub].user = r.user
    /\ subs[r.sub].ext \in {None, r.ext}

\* The checks of persistVerifiedSubscriptionLink under the row lock.
Linkable(r) ==
    /\ Exists(r.sub)
    /\ r.kind = "LINK" => subs[r.sub].user = r.user
    /\ Verifies(r.ref, r.sub)
    /\ subs[r.sub].ext \in {None, r.ext}

AlreadyLinked(t) ==
    LET r == task[t]
    IN  /\ r.at = "link"
        /\ ~RowLocked(r.sub)
        /\ Linkable(r)
        /\ subs[r.sub].ext = r.ext
        /\ IF r.kind = "LINK" THEN Done(t)
           ELSE /\ Goto(t, [r EXCEPT !.at = AfterLink(r.kind)])
                /\ UNCHANGED answered
        /\ UNCHANGED <<now, subs, recorded, sse, external>>

LockForLink(t) ==
    LET r == task[t]
    IN  /\ r.at = "link"
        /\ ~RowLocked(r.sub)
        /\ Linkable(r)
        /\ subs[r.sub].ext = None
        /\ subs[r.sub].status = "PENDING"
        /\ Goto(t, [r EXCEPT !.at = "linking", !.row = subs[r.sub]])
        /\ UNCHANGED <<now, subs, recorded, sse, external, answered>>

\* external_subscription_reference is UNIQUE.
PersistVerifiedSubscriptionLink(t) ==
    LET r == task[t]
    IN  /\ r.at = "linking"
        /\ \A s \in SubId \ {r.sub} : subs[s].ext # r.ext
        /\ subs' = [subs EXCEPT ![r.sub] = [r.row EXCEPT !.ext = r.ext]]
        /\ IF r.kind = "LINK" THEN Done(t)
           ELSE /\ Goto(t, [r EXCEPT !.at = AfterLink(r.kind), !.row = NoRow])
                /\ UNCHANGED answered
        /\ UNCHANGED <<now, recorded, sse, external>>

---------------------------------------------------------------------------
(* A payment webhook: the charge and the billing period are read from      *)
(* PayPal in two calls, then applied to the locked row.                    *)

GetConfirmedPayment(t) ==
    LET r == task[t]
    IN  /\ r.at = "verify"
        /\ charge[r.pay].ext = r.ext
        /\ charge[r.pay].status = "COMPLETED"
        /\ Goto(t, [r EXCEPT !.at = "bill"])
        /\ UNCHANGED <<now, subs, recorded, sse, external, answered>>

GetLatestBillingInfo(t) ==
    LET r == task[t]
        p == paypal[r.ext]
    IN  /\ r.at = "bill"
        /\ None \notin {p.last, p.next}
        /\ Goto(t, [r EXCEPT !.at = "confirm", !.start = p.last, !.end = p.next])
        /\ UNCHANGED <<now, subs, recorded, sse, external, answered>>

\* PayPal's last payment is the confirmed one, within the tolerance.
GetSubscriptionBillingInfo(t) ==
    LET r == task[t]
        p == paypal[r.ext]
    IN  /\ r.at = "bill"
        /\ None \notin {p.last, p.next}
        /\ p.last = charge[r.pay].paidAt
        /\ Goto(t, [r EXCEPT !.at = "confirm", !.start = p.last, !.end = p.next])
        /\ UNCHANGED <<now, subs, recorded, sse, external, answered>>

LockForPaymentOfAnyAmount(t) ==
    LET r == task[t]
    IN  /\ r.at = "confirm"
        /\ r.end > r.start
        /\ \E s \in SubId :
             /\ subs[s].ext = r.ext
             /\ ~RowLocked(s)
             /\ Goto(t, [r EXCEPT !.at = "confirming", !.sub = s, !.row = subs[s]])
        /\ UNCHANGED <<now, subs, recorded, sse, external, answered>>

\* The amount and currency are those of the plan, and the row exists.
LockForPayment(t) ==
    LET r == task[t]
    IN  /\ r.at = "confirm"
        /\ r.end > r.start
        /\ charge[r.pay].plan
        /\ \E s \in SubId :
             /\ subs[s].ext = r.ext
             /\ ~RowLocked(s)
             /\ Goto(t, [r EXCEPT !.at = "confirming", !.sub = s, !.row = subs[s]])
        /\ UNCHANGED <<now, subs, recorded, sse, external, answered>>

ExtendedAlwaysActive(r) ==
    [r.row EXCEPT !.start = r.start, !.end = r.end,
                  !.startedAt = IF @ = None THEN r.start ELSE @,
                  !.status = IF r.end > now THEN "ACTIVE" ELSE @]

\* The row after a payment that extends its period.
Extended(r) ==
    [r.row EXCEPT !.start = r.start, !.end = r.end,
                  !.startedAt = IF @ = None THEN r.start ELSE @,
                  !.status = IF @ \notin {"CANCELED", "EXPIRED"} /\ r.end > now
                               THEN "ACTIVE" ELSE @]

AlwaysExtends(r) == TRUE

Extends(r) == r.row.end # None => r.end > r.row.end

ConfirmWithoutRecording(t) ==
    LET r == task[t]
    IN  /\ r.at = "confirming"
        /\ <<r.sub, r.pay>> \in recorded \/ ~Extends(r)
        /\ Done(t)
        /\ UNCHANGED <<now, subs, recorded, sse, external>>

\* The charge is recorded already, or its period ends before the row's.
ConfirmWithoutExtending(t) ==
    LET r == task[t]
    IN  /\ r.at = "confirming"
        /\ <<r.sub, r.pay>> \in recorded \/ ~Extends(r)
        /\ recorded' = recorded \cup {<<r.sub, r.pay>>}
        /\ Done(t)
        /\ UNCHANGED <<now, subs, sse, external>>

ConfirmAndAlwaysPublish(t) ==
    LET r == task[t]
    IN  /\ r.at = "confirming"
        /\ <<r.sub, r.pay>> \notin recorded
        /\ Extends(r)
        /\ recorded' = recorded \cup {<<r.sub, r.pay>>}
        /\ subs' = [subs EXCEPT ![r.sub] = Extended(r)]
        /\ IF Extended(r).status = "ACTIVE"
             THEN /\ Goto(t, [r EXCEPT !.at = "publish", !.row = NoRow])
                  /\ UNCHANGED answered
             ELSE Done(t)
        /\ UNCHANGED <<now, sse, external>>

ConfirmSuccessfulPayment(t) ==
    LET r == task[t]
    IN  /\ r.at = "confirming"
        /\ <<r.sub, r.pay>> \notin recorded
        /\ Extends(r)
        /\ recorded' = recorded \cup {<<r.sub, r.pay>>}
        /\ subs' = [subs EXCEPT ![r.sub] = Extended(r)]
        /\ IF r.row.status = "PENDING" /\ Extended(r).status = "ACTIVE"
             THEN /\ Goto(t, [r EXCEPT !.at = "publish", !.row = NoRow])
                  /\ UNCHANGED answered
             ELSE Done(t)
        /\ UNCHANGED <<now, sse, external>>

---------------------------------------------------------------------------
(* A cancellation webhook.                                                 *)

AlreadyCanceled(t) ==
    LET r == task[t]
    IN  /\ r.at = "cancel"
        /\ \E s \in SubId : /\ subs[s].ext = r.ext
                            /\ ~RowLocked(s)
                            /\ subs[s].status \in {"CANCELED", "EXPIRED"}
        /\ Done(t)
        /\ UNCHANGED <<now, subs, recorded, sse, external>>

LockActiveForCancellation(t) ==
    LET r == task[t]
    IN  /\ r.at = "cancel"
        /\ \E s \in SubId :
             /\ subs[s].ext = r.ext
             /\ ~RowLocked(s)
             /\ subs[s].status = "ACTIVE"
             /\ Goto(t, [r EXCEPT !.at = "canceling", !.sub = s, !.row = subs[s]])
        /\ UNCHANGED <<now, subs, recorded, sse, external, answered>>

LockForCancellation(t) ==
    LET r == task[t]
    IN  /\ r.at = "cancel"
        /\ \E s \in SubId :
             /\ subs[s].ext = r.ext
             /\ ~RowLocked(s)
             /\ subs[s].status \notin {"CANCELED", "EXPIRED"}
             /\ Goto(t, [r EXCEPT !.at = "canceling", !.sub = s, !.row = subs[s]])
        /\ UNCHANGED <<now, subs, recorded, sse, external, answered>>

RegisterPaypalStatus(t) ==
    LET r == task[t]
    IN  /\ r.at = "canceling"
        /\ subs' = [subs EXCEPT ![r.sub] = [r.row EXCEPT !.status = "CANCELLED"]]
        /\ Goto(t, [r EXCEPT !.at = "publish", !.row = NoRow])
        /\ UNCHANGED <<now, recorded, sse, external, answered>>

RegisterSubscriptionCancellation(t) ==
    LET r == task[t]
    IN  /\ r.at = "canceling"
        /\ subs' = [subs EXCEPT ![r.sub] = [r.row EXCEPT !.status = "CANCELED"]]
        /\ Goto(t, [r EXCEPT !.at = "publish", !.row = NoRow])
        /\ UNCHANGED <<now, recorded, sse, external, answered>>

\* The event stream is told after the commit, and the webhook is answered.
Publish(t) ==
    LET r == task[t]
    IN  /\ r.at = "publish"
        /\ sse' = [sse EXCEPT ![r.sub] =
                     IF r.kind = "CANCEL"
                       THEN [sse[r.sub] EXCEPT !.canceled = sse[r.sub].canceled + 1]
                       ELSE [sse[r.sub] EXCEPT !.activated = sse[r.sub].activated + 1]]
        /\ Done(t)
        /\ UNCHANGED <<now, subs, recorded, external>>

---------------------------------------------------------------------------
(* PayPal, as the code relies on it. References the payer's browser sends: *)
(* the one it got for its reservation, one signed by another secret, or    *)
(* one this service never wrote.                                           *)

References == {NoReference} \cup
    {r \in Reference : /\ r.sub \in SubId /\ Exists(r.sub)
                       /\ r.user \in {subs[r.sub].user, None}}

PayPalApprove(e) ==
    /\ paypal[e].state = "NONE"
    /\ \E r \in References :
         paypal' = [paypal EXCEPT ![e] = [@ EXCEPT !.state = "APPROVED", !.ref = r]]
    /\ UNCHANGED <<now, subs, recorded, task, sse, charge, notices, answered>>

\* A charge a period after the last attempt, of the plan's price or not.
PayPalCharge(e, p) ==
    /\ paypal[e].state \in {"APPROVED", "ACTIVE"}
    /\ charge[p].status = "NONE"
    /\ \A q \in PayId : charge[q].ext = e => charge[q].paidAt + Period <= now
    /\ \E plan \in BOOLEAN :
         charge' = [charge EXCEPT ![p] =
                      [ext |-> e, paidAt |-> now, status |-> "PENDING", plan |-> plan]]
    /\ notices' = notices \cup {[type |-> "PAYMENT", ext |-> e, pay |-> p]}
    /\ UNCHANGED <<now, subs, recorded, task, sse, paypal, answered>>

\* The transaction list shows the charge as final, before or after its notice.
PayPalSettle(p, status) ==
    /\ charge[p].status = "PENDING"
    /\ charge' = [charge EXCEPT ![p] = [@ EXCEPT !.status = status]]
    /\ UNCHANGED <<now, subs, recorded, task, sse, paypal, notices, answered>>

\* The billing information catches up with a completed charge.
PayPalBill(p) ==
    LET e == charge[p].ext
    IN  /\ charge[p].status = "COMPLETED"
        /\ paypal[e].state # "CANCELLED"
        /\ paypal[e].last # None => paypal[e].last < charge[p].paidAt
        /\ paypal' = [paypal EXCEPT ![e] =
                        [@ EXCEPT !.state = "ACTIVE", !.last = charge[p].paidAt,
                                  !.next = charge[p].paidAt + Period]]
        /\ UNCHANGED <<now, subs, recorded, task, sse, charge, notices, answered>>

\* A canceled subscription may lose its next billing time.
PayPalCancel(e) ==
    /\ paypal[e].state \in {"APPROVED", "ACTIVE"}
    /\ \E next \in {None, paypal[e].next} :
         paypal' = [paypal EXCEPT ![e] = [@ EXCEPT !.state = "CANCELLED", !.next = next]]
    /\ notices' = notices \cup {[type |-> "CANCEL", ext |-> e, pay |-> None]}
    /\ UNCHANGED <<now, subs, recorded, task, sse, charge, answered>>

Tick ==
    /\ now < MaxTime
    /\ now' = now + 1
    /\ UNCHANGED <<subs, recorded, task, sse, external, answered>>

---------------------------------------------------------------------------
Request(t) ==
    \/ \E u \in User : CheckReservation(t, u)
    \/ \E s \in SubId, e \in ExtSub : LinkApprovedSubscription(t, s, e)
    \/ \E n \in notices : ProcessSubscriptionEvent(t, n)
    \/ Fail(t)

Progress(t) ==
    \/ ReservePendingSubscription(t)
    \/ GetSubscriptionIdentity(t)
    \/ AlreadyLinked(t)
    \/ LockForLink(t)
    \/ PersistVerifiedSubscriptionLink(t)
    \/ GetConfirmedPayment(t)
    \/ GetSubscriptionBillingInfo(t)
    \/ LockForPayment(t)
    \/ ConfirmWithoutExtending(t)
    \/ ConfirmSuccessfulPayment(t)
    \/ AlreadyCanceled(t)
    \/ LockForCancellation(t)
    \/ RegisterSubscriptionCancellation(t)
    \/ Publish(t)

PayPal ==
    \/ \E e \in ExtSub : PayPalApprove(e) \/ PayPalCancel(e)
    \/ \E e \in ExtSub, p \in PayId : PayPalCharge(e, p)
    \/ \E p \in PayId : PayPalBill(p)
    \/ \E p \in PayId, status \in {"COMPLETED", "DECLINED"} : PayPalSettle(p, status)

Next == Tick \/ PayPal \/ \E t \in Task : Request(t) \/ Progress(t)

Spec == Init /\ [][Next]_vars

---------------------------------------------------------------------------
(* Correctness.                                                            *)

\* Every variable keeps its type, and every request in flight has what its
\* next step needs.
TypeOK ==
    /\ now \in 0 .. MaxTime
    /\ subs \in [SubId -> Row]
    /\ recorded \subseteq SubId \X PayId
    /\ task \in [Task -> RequestRecord]
    /\ sse \in [SubId -> [activated : Nat, canceled : Nat]]
    /\ paypal \in [ExtSub -> PaypalRecord]
    /\ charge \in [PayId -> ChargeRecord]
    /\ notices \subseteq Notice
    /\ answered \subseteq Notice

\* However many reservations an account asks for at the same time, and
\* whatever the webhooks do meanwhile, it has at most one row that waits for
\* a payment or is in force (reservePendingSubscription's lock and query).
OneOpenReservation ==
    LET Open == {"PENDING", "ACTIVE", "PAST_DUE"}
    IN  \A s, r \in SubId :
          /\ s # r /\ subs[s].user = subs[r].user
          /\ subs[s].status \in Open
          => subs[r].status \notin Open

\* A row is linked only to the PayPal subscription that carries the reference
\* signed for that row and its owner, so no PayPal subscription is linked
\* twice, whether the browser or a webhook made the link.
LinkedToItsSigner ==
    \A s \in SubId : subs[s].ext # None => Verifies(paypal[subs[s].ext].ref, s)

\* A recorded payment is a charge PayPal lists as completed, of the plan's
\* price, on the PayPal subscription its row is linked to.
RecordedIsGenuine ==
    \A s \in SubId, p \in PayId : <<s, p>> \in recorded =>
        /\ charge[p].status = "COMPLETED"
        /\ charge[p].plan
        /\ charge[p].ext = subs[s].ext

\* Whoever has Premium access has a recorded payment whose own period has not
\* ended: no webhook gives a row the period of another charge.
PremiumIsPaid ==
    \A u \in User : HasPremiumAccess(u) =>
        \E s \in SubId, p \in PayId :
            /\ subs[s].user = u
            /\ <<s, p>> \in recorded
            /\ charge[p].paidAt + Period > now

\* PayPal stops sending a webhook that was answered with success, so what it
\* reported has been applied by then, and stays applied.
AnsweredIsApplied ==
    \A n \in answered : \E s \in SubId :
        /\ subs[s].ext = n.ext
        /\ IF n.type = "CANCEL" THEN subs[s].status = "CANCELED"
                                ELSE <<s, n.pay>> \in recorded

\* The browser hears of an activation and of a cancellation at most once each,
\* and never of one that was not committed.
NotifiedOnce ==
    \A s \in SubId :
        /\ sse[s].activated <= 1 /\ sse[s].canceled <= 1
        /\ sse[s].activated = 1 => subs[s].status \in {"ACTIVE", "CANCELED"}
        /\ sse[s].canceled = 1 => subs[s].status = "CANCELED"

\* A late payment does not bring a canceled row back, whatever was in flight
\* when it was canceled.
CanceledIsFinal ==
    [][\A s \in SubId : subs[s].status = "CANCELED" => subs'[s].status = "CANCELED"]_subs

\* A link, once made, is never replaced or removed.
LinkIsFinal ==
    [][\A s \in SubId : subs[s].ext # None => subs'[s].ext = subs[s].ext]_subs

\* A webhook applied late, with the billing information of an earlier month,
\* never shortens the period a later payment gave.
PeriodNeverShrinks ==
    [][\A s \in SubId : subs[s].end # None =>
            subs'[s].end # None /\ subs'[s].end >= subs[s].end]_subs

===========================================================================
