------------------------ MODULE SubscriptionsProofs ------------------------
(***************************************************************************)
(* Subscriptions: types, the inductive invariant and the safety properties *)
(* it gives, and the implementation of the contract.                       *)
(***************************************************************************)
EXTENDS SubscriptionsInvariant, TLAPS

(***************************************************************************)
(* Types.                                                                  *)

LEMMA IdleType == Idle \in RequestRecord
<1> USE SubscriptionsAssumption
<1>1. NoRow \in Row
  BY DEF Row
<1>2. Idle \in TaskRecord
  BY <1>1 DEF Idle, TaskRecord, Steps, Reference, NoReference, Instant
<1> QED
  BY <1>2 DEF RequestRecord, Informed, Idle, RowSteps

LEMMA TypeInit == Init => TypeOK
<1> SUFFICES ASSUME Init PROVE TypeOK
  OBVIOUS
<1> USE SubscriptionsAssumption DEF Init
<1>1. NoRow \in Row
  BY DEF Row
<1>2. NoPaypal \in PaypalRecord
  BY DEF NoPaypal, PaypalRecord, Reference, NoReference
<1>3. NoCharge \in ChargeRecord
  BY DEF ChargeRecord
<1> QED
  BY <1>1, <1>2, <1>3, IdleType DEF TypeOK

\* A request that moves on keeps the table of requests typed.
LEMMA GotoType ==
  ASSUME TypeOK, NEW t \in Task, NEW r \in RequestRecord, Goto(t, r)
  PROVE  task' \in [Task -> RequestRecord]
BY DEF TypeOK, Goto

LEMMA DoneType ==
  ASSUME TypeOK, NEW t \in Task, task[t].at \notin {"idle", "reserving"}, Done(t)
  PROVE  task' \in [Task -> RequestRecord] /\ answered' \subseteq Notice
<1>1. task' \in [Task -> RequestRecord]
  BY IdleType, GotoType DEF Done
<1>2. task[t] \in TaskRecord /\ Informed(task[t])
  BY DEF TypeOK, RequestRecord
<1>3. task[t].kind \in {"PAYMENT", "CANCEL"} => NoticeOf(task[t]) \in Notice
  BY <1>2 DEF NoticeOf, Notice, Informed, TaskRecord
<1> QED
  BY <1>1, <1>3 DEF Done, TypeOK

\* A webhook whose subscription is linked goes on with what it reports.
LEMMA AfterLinkType ==
  ASSUME NEW r \in RequestRecord, NEW row \in Row,
         r.at \in {"link", "linking"}, r.kind # "LINK"
  PROVE  [r EXCEPT !.at = AfterLink(r.kind), !.row = row] \in RequestRecord
<1> DEFINE new == [r EXCEPT !.at = AfterLink(r.kind), !.row = row]
<1>0. r \in TaskRecord /\ Informed(r)
  BY DEF RequestRecord
<1>1. r.kind \in {"PAYMENT", "CANCEL"} /\ r.ext \in ExtSub /\ r.sub \in SubId
  BY <1>0 DEF Informed, TaskRecord, RowSteps
<1>2. CASE r.kind = "PAYMENT"
  <2>1. AfterLink(r.kind) = "verify"
    BY <1>2 DEF AfterLink
  <2>2. new \in TaskRecord /\ new.at = "verify" /\ new.kind = "PAYMENT"
    BY <1>0, <1>2, <2>1 DEF TaskRecord, Steps
  <2> QED BY <1>0, <1>1, <1>2, <2>1, <2>2 DEF RequestRecord, Informed, RowSteps, TaskRecord
<1>3. CASE r.kind = "CANCEL"
  <2>1. AfterLink(r.kind) = "cancel"
    BY <1>3 DEF AfterLink
  <2>2. new \in TaskRecord /\ new.at = "cancel" /\ new.kind = "CANCEL"
    BY <1>0, <1>3, <2>1 DEF TaskRecord, Steps
  <2> QED BY <1>0, <1>1, <1>3, <2>1, <2>2 DEF RequestRecord, Informed, RowSteps, TaskRecord
<1> QED BY <1>1, <1>2, <1>3

LEMMA TypeProgress == ASSUME TypeOK, NEW t \in Task, Progress(t) PROVE TypeOK'
<1> USE SubscriptionsAssumption DEF TypeOK, external
<1> DEFINE r == task[t]
<1>0. r \in TaskRecord /\ Informed(r) /\ r \in RequestRecord
  BY DEF RequestRecord
<1>a. \A s \in SubId : subs[s] \in Row
  OBVIOUS
<1>1. CASE ReservePendingSubscription(t)
  <2>1. PICK s \in SubId :
          subs' = [subs EXCEPT ![s] =
                      [NoRow EXCEPT !.user = r.user, !.status = "PENDING"]]
    BY <1>1 DEF ReservePendingSubscription
  <2>2. r.user \in User
    BY <1>0, <1>1 DEF Informed, ReservePendingSubscription
  <2>3. [NoRow EXCEPT !.user = r.user, !.status = "PENDING"] \in Row
    BY <2>2 DEF NoRow, Row, Status
  <2> QED BY <1>1, <2>1, <2>3, IdleType, GotoType DEF ReservePendingSubscription
<1>2. CASE GetSubscriptionIdentity(t)
  <2> DEFINE new == [r EXCEPT !.at = "link", !.sub = paypal[r.ext].ref.sub,
                              !.ref = paypal[r.ext].ref]
  <2>1. r.ext \in ExtSub
    BY <1>0, <1>2 DEF Informed, GetSubscriptionIdentity
  <2>2. paypal[r.ext].ref \in Reference /\ paypal[r.ext].ref.sub \in SubId
    BY <1>2, <2>1 DEF GetSubscriptionIdentity, PaypalRecord, Reference
  <2>3. new \in RequestRecord
    BY <1>0, <1>2, <2>2
       DEF GetSubscriptionIdentity, RequestRecord, TaskRecord, Informed, Steps, RowSteps
  <2> QED BY <1>2, <2>3, GotoType DEF GetSubscriptionIdentity
<1>3. CASE AlreadyLinked(t)
  <2> DEFINE new == [r EXCEPT !.at = AfterLink(r.kind)]
  <2>0. r.row \in Row /\ new = [r EXCEPT !.at = AfterLink(r.kind), !.row = r.row]
    BY <1>0 DEF TaskRecord
  <2>1. r.kind # "LINK" => new \in RequestRecord
    BY <1>0, <1>3, <2>0, AfterLinkType DEF AlreadyLinked
  <2>2. CASE r.kind = "LINK"
    BY <1>3, <2>2, DoneType DEF AlreadyLinked
  <2>3. CASE r.kind # "LINK"
    BY <1>3, <2>1, <2>3, GotoType DEF AlreadyLinked
  <2> QED BY <2>2, <2>3
<1>4. CASE LockForLink(t)
  <2> DEFINE new == [r EXCEPT !.at = "linking", !.row = subs[r.sub]]
  <2>1. r.sub \in SubId
    BY <1>0, <1>4 DEF LockForLink, Informed, RowSteps
  <2>2. subs[r.sub] # NoRow
    BY <1>4 DEF LockForLink, NoRow
  <2>a. new \in TaskRecord
    BY <1>0, <1>a, <2>1 DEF TaskRecord, Steps
  <2>b. r.ext \in ExtSub /\ r.kind \in {"LINK", "PAYMENT", "CANCEL"}
    BY <1>0, <1>4 DEF LockForLink, Informed
  <2>3. new \in RequestRecord
    BY <1>0, <2>a, <2>b, <2>1, <2>2 DEF RequestRecord, Informed, RowSteps, TaskRecord
  <2> QED BY <1>4, <2>3, GotoType DEF LockForLink
<1>5. CASE PersistVerifiedSubscriptionLink(t)
  <2> DEFINE new == [r EXCEPT !.at = AfterLink(r.kind), !.row = NoRow]
  <2>1. r.row \in Row \ {NoRow} /\ r.ext \in ExtSub
    BY <1>0, <1>5 DEF PersistVerifiedSubscriptionLink, Informed, RowSteps, TaskRecord
  <2>2. [r.row EXCEPT !.ext = r.ext] \in Row
    BY <2>1 DEF Row
  <2>3. subs' \in [SubId -> Row]
    BY <1>5, <2>2 DEF PersistVerifiedSubscriptionLink
  <2>4. NoRow \in Row
    BY DEF Row
  <2>5. r.kind # "LINK" => new \in RequestRecord
    BY <1>0, <1>5, <2>4, AfterLinkType DEF PersistVerifiedSubscriptionLink
  <2>6. CASE r.kind = "LINK"
    BY <1>5, <2>3, <2>6, DoneType DEF PersistVerifiedSubscriptionLink
  <2>7. CASE r.kind # "LINK"
    BY <1>5, <2>3, <2>5, <2>7, GotoType DEF PersistVerifiedSubscriptionLink
  <2> QED BY <2>6, <2>7
<1>6. CASE GetConfirmedPayment(t)
  <2> DEFINE new == [r EXCEPT !.at = "bill"]
  <2>1. new \in RequestRecord
    BY <1>0, <1>6
       DEF GetConfirmedPayment, RequestRecord, TaskRecord, Informed, Steps, RowSteps
  <2> QED BY <1>6, <2>1, GotoType DEF GetConfirmedPayment
<1>7. CASE GetSubscriptionBillingInfo(t)
  <2> DEFINE new == [r EXCEPT !.at = "confirm", !.start = paypal[r.ext].last,
                              !.end = paypal[r.ext].next]
  <2>1. r.ext \in ExtSub
    BY <1>0, <1>7 DEF Informed, GetSubscriptionBillingInfo
  <2>2. paypal[r.ext].last \in Instant /\ paypal[r.ext].next \in Instant
    BY <1>7, <2>1 DEF GetSubscriptionBillingInfo, PaypalRecord
  <2>a. r.at = "bill" /\ r.kind = "PAYMENT" /\ r.pay \in PayId
    BY <1>0, <1>7 DEF GetSubscriptionBillingInfo, Informed
  <2>b. new \in TaskRecord
    BY <1>0, <2>2 DEF TaskRecord, Steps
  <2>c. /\ new.at = "confirm" /\ new.kind = "PAYMENT" /\ new.pay \in PayId
        /\ new.ext \in ExtSub /\ new.start \in Instant /\ new.end \in Instant
    BY <1>0, <2>a, <2>1, <2>2 DEF TaskRecord
  <2>3. new \in RequestRecord
    BY <2>b, <2>c DEF RequestRecord, Informed, RowSteps
  <2> QED BY <1>7, <2>3, GotoType DEF GetSubscriptionBillingInfo
<1>8. CASE LockForPayment(t)
  <2>1. PICK s \in SubId :
          /\ subs[s].ext = r.ext
          /\ Goto(t, [r EXCEPT !.at = "confirming", !.sub = s, !.row = subs[s]])
    BY <1>8 DEF LockForPayment
  <2> DEFINE new == [r EXCEPT !.at = "confirming", !.sub = s, !.row = subs[s]]
  <2>2. subs[s] # NoRow
    BY <1>0, <1>8, <2>1 DEF LockForPayment, Informed, NoRow
  <2>a. new \in TaskRecord
    BY <1>0, <1>a DEF TaskRecord, Steps
  <2>b. /\ r.ext \in ExtSub /\ r.kind = "PAYMENT"
        /\ r.start \in Instant /\ r.end \in Instant
    BY <1>0, <1>8 DEF LockForPayment, Informed
  <2>3. new \in RequestRecord
    BY <1>0, <2>a, <2>b, <2>2 DEF RequestRecord, Informed, RowSteps, TaskRecord
  <2> QED BY <1>8, <2>1, <2>3, GotoType DEF LockForPayment
<1>9. CASE ConfirmWithoutExtending(t)
  <2>1. <<r.sub, r.pay>> \in SubId \X PayId
    BY <1>0, <1>9 DEF ConfirmWithoutExtending, Informed, RowSteps
  <2> QED BY <1>9, <2>1, DoneType DEF ConfirmWithoutExtending
<1>10. CASE ConfirmSuccessfulPayment(t)
  <2> DEFINE new == [r EXCEPT !.at = "publish", !.row = NoRow]
  <2>1. <<r.sub, r.pay>> \in SubId \X PayId
    BY <1>0, <1>10 DEF ConfirmSuccessfulPayment, Informed, RowSteps
  <2>2. /\ r.row \in Row \ {NoRow}
        /\ r.start \in Instant /\ r.end \in Instant
    BY <1>0, <1>10 DEF ConfirmSuccessfulPayment, Informed, RowSteps, TaskRecord
  <2>3. Extended(r) \in Row
    BY <2>2 DEF Extended, Row, Status
  <2>4. subs' \in [SubId -> Row] /\ recorded' \subseteq SubId \X PayId
    BY <1>10, <2>1, <2>3 DEF ConfirmSuccessfulPayment
  <2>5. NoRow \in Row
    BY DEF Row
  <2>6. new \in RequestRecord
    BY <1>0, <1>10, <2>5
       DEF ConfirmSuccessfulPayment, RequestRecord, TaskRecord, Informed, Steps, RowSteps
  <2>7. CASE Goto(t, new) /\ UNCHANGED answered
    BY <1>10, <2>4, <2>6, <2>7, GotoType DEF ConfirmSuccessfulPayment
  <2>8. CASE Done(t)
    BY <1>10, <2>4, <2>8, DoneType DEF ConfirmSuccessfulPayment
  <2> QED BY <1>10, <2>7, <2>8 DEF ConfirmSuccessfulPayment
<1>11. CASE AlreadyCanceled(t)
  BY <1>11, DoneType DEF AlreadyCanceled
<1>12. CASE LockForCancellation(t)
  <2>1. PICK s \in SubId :
          /\ subs[s].ext = r.ext
          /\ Goto(t, [r EXCEPT !.at = "canceling", !.sub = s, !.row = subs[s]])
    BY <1>12 DEF LockForCancellation
  <2> DEFINE new == [r EXCEPT !.at = "canceling", !.sub = s, !.row = subs[s]]
  <2>2. subs[s] # NoRow
    BY <1>0, <1>12, <2>1 DEF LockForCancellation, Informed, NoRow
  <2>a. new \in TaskRecord
    BY <1>0, <1>a DEF TaskRecord, Steps
  <2>b. r.ext \in ExtSub /\ r.kind = "CANCEL"
    BY <1>0, <1>12 DEF LockForCancellation, Informed
  <2>3. new \in RequestRecord
    BY <1>0, <2>a, <2>b, <2>2 DEF RequestRecord, Informed, RowSteps, TaskRecord
  <2> QED BY <1>12, <2>1, <2>3, GotoType DEF LockForCancellation
<1>13. CASE RegisterSubscriptionCancellation(t)
  <2> DEFINE new == [r EXCEPT !.at = "publish", !.row = NoRow]
  <2>1. r.row \in Row \ {NoRow}
    BY <1>0, <1>13 DEF RegisterSubscriptionCancellation, Informed, RowSteps, TaskRecord
  <2>2. [r.row EXCEPT !.status = "CANCELED"] \in Row
    BY <2>1 DEF Row, Status
  <2>3. NoRow \in Row
    BY DEF Row
  <2>4. new \in RequestRecord
    BY <1>0, <1>13, <2>3
       DEF RegisterSubscriptionCancellation, RequestRecord, TaskRecord, Informed, Steps, RowSteps
  <2> QED BY <1>13, <2>2, <2>4, GotoType DEF RegisterSubscriptionCancellation
<1>14. CASE Publish(t)
  <2> DEFINE new == IF r.kind = "CANCEL"
                      THEN [sse[r.sub] EXCEPT !.canceled = sse[r.sub].canceled + 1]
                      ELSE [sse[r.sub] EXCEPT !.activated = sse[r.sub].activated + 1]
  <2>a. r.sub \in SubId
    BY <1>0, <1>14 DEF Publish, Informed
  <2>b. new \in [activated : Nat, canceled : Nat]
    BY <2>a
  <2>c. sse' = [sse EXCEPT ![r.sub] = new]
    BY <1>14, <2>a DEF Publish
  <2>1. sse' \in [SubId -> [activated : Nat, canceled : Nat]]
    BY <2>a, <2>b, <2>c
  <2> QED BY <1>14, <2>1, DoneType DEF Publish
<1> QED
  BY <1>1, <1>2, <1>3, <1>4, <1>5, <1>6, <1>7, <1>8, <1>9, <1>10, <1>11, <1>12, <1>13, <1>14
     DEF Progress

LEMMA TypeStep == TypeOK /\ [Next]_vars => TypeOK'
<1> SUFFICES ASSUME TypeOK, [Next]_vars PROVE TypeOK'
  OBVIOUS
<1> USE SubscriptionsAssumption DEF TypeOK, external
<1>1. ASSUME Tick PROVE TypeOK'
  BY <1>1 DEF Tick
<1>2. ASSUME NEW e \in ExtSub, PayPalApprove(e) PROVE TypeOK'
  <2>1. PICK r \in References :
          paypal' = [paypal EXCEPT ![e] = [@ EXCEPT !.state = "APPROVED", !.ref = r]]
    BY <1>2 DEF PayPalApprove
  <2>2. r \in Reference
    BY DEF References, NoReference, Reference
  <2>3. [paypal[e] EXCEPT !.state = "APPROVED", !.ref = r] \in PaypalRecord
    BY <2>2 DEF PaypalRecord
  <2> QED BY <1>2, <2>1, <2>3 DEF PayPalApprove
<1>3. ASSUME NEW e \in ExtSub, PayPalCancel(e) PROVE TypeOK'
  <2>1. PICK next \in {None, paypal[e].next} :
          paypal' = [paypal EXCEPT ![e] = [@ EXCEPT !.state = "CANCELLED", !.next = next]]
    BY <1>3 DEF PayPalCancel
  <2>2. [paypal[e] EXCEPT !.state = "CANCELLED", !.next = next] \in PaypalRecord
    BY DEF PaypalRecord
  <2>3. [type |-> "CANCEL", ext |-> e, pay |-> None] \in Notice
    BY DEF Notice
  <2> QED BY <1>3, <2>1, <2>2, <2>3 DEF PayPalCancel
<1>4. ASSUME NEW e \in ExtSub, NEW p \in PayId, PayPalCharge(e, p) PROVE TypeOK'
  <2>1. PICK plan \in BOOLEAN :
          charge' = [charge EXCEPT ![p] =
             [ext |-> e, paidAt |-> now, status |-> "PENDING", plan |-> plan]]
    BY <1>4 DEF PayPalCharge
  <2>2. [ext |-> e, paidAt |-> now, status |-> "PENDING", plan |-> plan] \in ChargeRecord
    BY DEF ChargeRecord
  <2>3. [type |-> "PAYMENT", ext |-> e, pay |-> p] \in Notice
    BY DEF Notice
  <2> QED BY <1>4, <2>1, <2>2, <2>3 DEF PayPalCharge
<1>5. ASSUME NEW p \in PayId, PayPalBill(p) PROVE TypeOK'
  <2> DEFINE e == charge[p].ext
             new == [paypal[e] EXCEPT !.state = "ACTIVE", !.last = charge[p].paidAt,
                                      !.next = charge[p].paidAt + Period]
  <2>1. charge[p] # NoCharge
    BY <1>5 DEF PayPalBill, NoCharge
  <2>2. e \in ExtSub /\ charge[p].paidAt \in 0 .. MaxTime
    BY <2>1 DEF ChargeRecord
  <2>3. charge[p].paidAt \in Instant /\ charge[p].paidAt + Period \in Instant
    BY <2>2 DEF Instant
  <2>4. new \in PaypalRecord
    BY <2>2, <2>3 DEF PaypalRecord
  <2>5. paypal' = [paypal EXCEPT ![e] = new]
    BY <1>5 DEF PayPalBill
  <2> QED BY <1>5, <2>2, <2>4, <2>5 DEF PayPalBill
<1>6. ASSUME NEW p \in PayId, NEW status \in {"COMPLETED", "DECLINED"}, PayPalSettle(p, status)
      PROVE TypeOK'
  <2>1. charge[p] # NoCharge
    BY <1>6 DEF PayPalSettle, NoCharge
  <2>2. [charge[p] EXCEPT !.status = status] \in ChargeRecord
    BY <2>1 DEF ChargeRecord
  <2> QED BY <1>6, <2>2 DEF PayPalSettle
<1>7. ASSUME NEW t \in Task, Request(t) PROVE TypeOK'
  <2>1. ASSUME NEW u \in User, CheckReservation(t, u) PROVE TypeOK'
    <3> DEFINE new == [Idle EXCEPT !.at = "reserving", !.kind = "RESERVE", !.user = u]
    <3>1. new \in RequestRecord
      BY IdleType DEF RequestRecord, TaskRecord, Informed, Idle, Steps, RowSteps
    <3> QED BY <2>1, <3>1, GotoType DEF CheckReservation
  <2>2. ASSUME NEW s \in SubId, NEW e \in ExtSub, LinkApprovedSubscription(t, s, e)
        PROVE TypeOK'
    <3> DEFINE new == [Idle EXCEPT !.at = "identify", !.kind = "LINK",
                                   !.user = subs[s].user, !.sub = s, !.ext = e]
    <3>1. subs[s].user \in User \cup {None}
      BY DEF Row, NoRow
    <3>2. new \in RequestRecord
      BY <3>1, IdleType DEF RequestRecord, TaskRecord, Informed, Idle, Steps, RowSteps
    <3> QED BY <2>2, <3>2, GotoType DEF LinkApprovedSubscription
  <2>3. ASSUME NEW n \in notices, ProcessSubscriptionEvent(t, n) PROVE TypeOK'
    <3> DEFINE at == IF \E s \in SubId : subs[s].ext = n.ext THEN AfterLink(n.type)
                                                             ELSE "identify"
               new == [Idle EXCEPT !.at = at, !.kind = n.type, !.ext = n.ext, !.pay = n.pay]
    <3>1. n \in Notice
      OBVIOUS
    <3>2. at \in {"identify", AfterLink(n.type)}
      OBVIOUS
    <3>3. new \in RequestRecord
      BY <3>1, <3>2, IdleType
         DEF RequestRecord, TaskRecord, Informed, Idle, Steps, RowSteps, Notice, AfterLink
    <3> QED BY <2>3, <3>3, GotoType DEF ProcessSubscriptionEvent
  <2>4. ASSUME Fail(t) PROVE TypeOK'
    BY <2>4, IdleType, GotoType DEF Fail
  <2> QED BY <1>7, <2>1, <2>2, <2>3, <2>4 DEF Request
<1>8. ASSUME UNCHANGED vars PROVE TypeOK'
  BY <1>8 DEF vars
<1> QED
  BY <1>1, <1>2, <1>3, <1>4, <1>5, <1>6, <1>7, <1>8, TypeProgress DEF Next, PayPal

\* Every reachable state is typed, and every request in flight has learned
\* what its next step needs (a webhook that reaches the payment transaction
\* has a charge, a row and a period).
THEOREM TypeCorrect == Spec => []TypeOK
<1>1. TypeOK /\ [Next]_vars => TypeOK'
  BY TypeStep
<1> QED
  BY TypeInit, <1>1, PTL DEF Spec

---------------------------------------------------------------------------
(***************************************************************************)
(* The inductive invariant of Subscriptions, one part at a time: each lemma*)
(* assumes the parts already proved and shows that one more is preserved.  *)
(***************************************************************************)

---------------------------------------------------------------------------
(* The row locks.                                                          *)

\* What the type invariant says of a request at one of the row steps.
LEMMA HolderType ==
  ASSUME TypeOK, NEW t \in Task, task[t].at \in RowSteps
  PROVE  /\ task[t].sub \in SubId
         /\ task[t].row \in Row /\ task[t].row # NoRow
         /\ task[t].row.status # "NONE"
<1>1. task[t] \in TaskRecord /\ Informed(task[t])
  BY DEF TypeOK, RequestRecord
<1>2. task[t].sub \in SubId /\ task[t].row \in Row \ {NoRow}
  BY <1>1 DEF Informed, TaskRecord
<1> QED
  BY <1>2 DEF Row, Status

\* A request that holds no row after its step, and wrote none.
LEMMA RowsUntouched ==
  ASSUME TypeOK, RowsHeld, NEW t \in Task, NEW new \in RequestRecord,
         Goto(t, new), UNCHANGED subs, new.at \notin RowSteps
  PROVE  RowsHeld'
<1>1. \A o \in Task : task'[o] = IF o = t THEN new ELSE task[o]
  BY DEF Goto, TypeOK
<1> QED
  BY <1>1 DEF RowsHeld

\* A request that takes a row no other transaction holds.
LEMMA RowsTaken ==
  ASSUME TypeOK, RowsHeld, NEW t \in Task, NEW new \in RequestRecord,
         Goto(t, new), UNCHANGED subs, new.row = subs[new.sub], ~RowLocked(new.sub)
  PROVE  RowsHeld'
<1>1. \A o \in Task : task'[o] = IF o = t THEN new ELSE task[o]
  BY DEF Goto, TypeOK
<1>2. \A o \in Task : task[o].at \in RowSteps => task[o].sub # new.sub
  BY DEF RowLocked
<1> QED
  BY <1>1, <1>2 DEF RowsHeld

\* A request that writes the row it holds and lets it go.
LEMMA RowsWritten ==
  ASSUME TypeOK, RowsHeld, NEW t \in Task, NEW new \in RequestRecord, NEW row \in Row,
         task[t].at \in RowSteps, new.at \notin RowSteps,
         Goto(t, new), subs' = [subs EXCEPT ![task[t].sub] = row]
  PROVE  RowsHeld'
<1>1. \A o \in Task : task'[o] = IF o = t THEN new ELSE task[o]
  BY DEF Goto, TypeOK
<1>2. \A s \in SubId : s # task[t].sub => subs'[s] = subs[s]
  BY DEF TypeOK
<1>3. \A o \in Task : o # t /\ task[o].at \in RowSteps =>
         task[o].sub # task[t].sub /\ task[o].sub \in SubId
  BY HolderType DEF RowsHeld
<1> QED
  BY <1>1, <1>2, <1>3 DEF RowsHeld

\* A step of the environment moves no request and writes no row.
LEMMA PayPalFrame ==
  ASSUME Tick \/ PayPal
  PROVE  UNCHANGED <<subs, recorded, task, sse, answered>>
BY DEF Tick, PayPal, PayPalApprove, PayPalCancel, PayPalCharge, PayPalBill, PayPalSettle,
       external

\* A request that starts or fails changes nothing but itself, and holds no
\* row; one that goes on to insert a row has found its account free.
RequestMove(t, new) ==
    /\ Goto(t, new)
    /\ new.at \in {"idle", "reserving", "identify", "verify", "cancel"}
    /\ new.at = "reserving" => /\ ~UserLocked(new.user)
                               /\ \A s \in SubId : subs[s].user = new.user
                                                   => subs[s].status \notin Open

LEMMA RequestMoves ==
  ASSUME TypeOK, NEW t \in Task, Request(t)
  PROVE  /\ UNCHANGED <<now, subs, recorded, sse, paypal, charge, notices, answered>>
         /\ \E new \in RequestRecord : RequestMove(t, new)
<1>0. TypeOK'
  BY TypeStep DEF Next
<1>1. UNCHANGED <<now, subs, recorded, sse, paypal, charge, notices, answered>>
  BY DEF Request, CheckReservation, LinkApprovedSubscription,
         ProcessSubscriptionEvent, Fail, external
<1>2. ASSUME NEW u \in User, CheckReservation(t, u)
      PROVE  \E new : RequestMove(t, new)
  <2> DEFINE new == [Idle EXCEPT !.at = "reserving", !.kind = "RESERVE", !.user = u]
  <2>1. new.at = "reserving" /\ new.user = u
    BY DEF Idle
  <2>2. \A s \in SubId : subs[s].user = u => subs[s].status \notin Open
    BY <1>2 DEF CheckReservation, Blocking, Open
  <2>3. Goto(t, new) /\ ~UserLocked(u)
    BY <1>2 DEF CheckReservation
  <2> HIDE DEF new
  <2>4. RequestMove(t, new)
    BY <2>1, <2>2, <2>3 DEF RequestMove
  <2> QED BY <2>4
<1>3. ASSUME NEW s \in SubId, NEW e \in ExtSub, LinkApprovedSubscription(t, s, e)
      PROVE  \E new : RequestMove(t, new)
  <2> DEFINE new == [Idle EXCEPT !.at = "identify", !.kind = "LINK",
                                 !.user = subs[s].user, !.sub = s, !.ext = e]
  <2>1. new.at = "identify"
    BY DEF Idle
  <2> QED BY <1>3, <2>1 DEF LinkApprovedSubscription, RequestMove
<1>4. ASSUME NEW n \in notices, ProcessSubscriptionEvent(t, n)
      PROVE  \E new : RequestMove(t, new)
  <2> DEFINE at == IF \E s \in SubId : subs[s].ext = n.ext THEN AfterLink(n.type)
                                                           ELSE "identify"
             new == [Idle EXCEPT !.at = at, !.kind = n.type, !.ext = n.ext, !.pay = n.pay]
  <2>1. new.at = at /\ at \in {"identify", "verify", "cancel"}
    BY DEF Idle, AfterLink
  <2>2. Goto(t, new)
    BY <1>4 DEF ProcessSubscriptionEvent
  <2> HIDE DEF new
  <2>3. RequestMove(t, new)
    BY <2>1, <2>2 DEF RequestMove
  <2> QED BY <2>3
<1>5. ASSUME Fail(t) PROVE \E new : RequestMove(t, new)
  <2>1. Idle.at = "idle"
    BY DEF Idle
  <2> QED BY <1>5, <2>1 DEF Fail, RequestMove
<1>6. PICK new : RequestMove(t, new)
  BY <1>2, <1>3, <1>4, <1>5 DEF Request
<1>7. new \in RequestRecord
  BY <1>0, <1>6 DEF RequestMove, Goto, TypeOK
<1> QED
  BY <1>1, <1>6, <1>7

\* Where a step of a request takes it.
LEMMA Lands ==
  ASSUME TypeOK, NEW t \in Task, Progress(t)
  PROVE  LET at == task'[t].at
         IN  /\ Goto(t, task'[t]) /\ task'[t] \in RequestRecord
             /\ ReservePendingSubscription(t) => at = "idle"
             /\ GetSubscriptionIdentity(t) => at = "link"
             /\ AlreadyLinked(t) => at \in {"idle", "verify", "cancel"}
             /\ LockForLink(t) => at = "linking"
             /\ PersistVerifiedSubscriptionLink(t) => at \in {"idle", "verify", "cancel"}
             /\ GetConfirmedPayment(t) => at = "bill"
             /\ GetSubscriptionBillingInfo(t) => at = "confirm"
             /\ LockForPayment(t) => at = "confirming"
             /\ ConfirmWithoutExtending(t) => at = "idle"
             /\ ConfirmSuccessfulPayment(t) => at \in {"idle", "publish"}
             /\ AlreadyCanceled(t) => at = "idle"
             /\ LockForCancellation(t) => at = "canceling"
             /\ RegisterSubscriptionCancellation(t) => at = "publish"
             /\ Publish(t) => at = "idle"
<1> DEFINE r == task[t]
<1>0. task[t] \in TaskRecord /\ TypeOK'
  BY TypeStep DEF TypeOK, RequestRecord, Next
<1>1. \A new : Goto(t, new) => task'[t] = new /\ Goto(t, task'[t])
  BY DEF Goto, TypeOK
<1>2. Idle.at = "idle" /\ AfterLink(r.kind) \in {"verify", "cancel"}
  BY DEF Idle, AfterLink
<1>8. ReservePendingSubscription(t) => Goto(t, Idle)
  BY DEF ReservePendingSubscription
<1>9. GetSubscriptionIdentity(t) =>
        \E sub, ref : Goto(t, [r EXCEPT !.at = "link", !.sub = sub, !.ref = ref])
  BY DEF GetSubscriptionIdentity
<1>10. AlreadyLinked(t) =>
         Goto(t, Idle) \/ Goto(t, [r EXCEPT !.at = AfterLink(r.kind)])
  BY DEF AlreadyLinked, Done
<1>11. LockForLink(t) => \E row : Goto(t, [r EXCEPT !.at = "linking", !.row = row])
  BY DEF LockForLink
<1>12. PersistVerifiedSubscriptionLink(t) =>
         Goto(t, Idle) \/ Goto(t, [r EXCEPT !.at = AfterLink(r.kind), !.row = NoRow])
  BY DEF PersistVerifiedSubscriptionLink, Done
<1>13. GetConfirmedPayment(t) => Goto(t, [r EXCEPT !.at = "bill"])
  BY DEF GetConfirmedPayment
<1>14. GetSubscriptionBillingInfo(t) =>
         \E start, end : Goto(t, [r EXCEPT !.at = "confirm", !.start = start, !.end = end])
  BY DEF GetSubscriptionBillingInfo
<1>15. LockForPayment(t) =>
         \E sub, row : Goto(t, [r EXCEPT !.at = "confirming", !.sub = sub, !.row = row])
  BY DEF LockForPayment
<1>16. ConfirmWithoutExtending(t) \/ AlreadyCanceled(t) \/ Publish(t) => Goto(t, Idle)
  BY DEF ConfirmWithoutExtending, AlreadyCanceled, Publish, Done
<1>17. ConfirmSuccessfulPayment(t) =>
         Goto(t, Idle) \/ Goto(t, [r EXCEPT !.at = "publish", !.row = NoRow])
  BY DEF ConfirmSuccessfulPayment, Done
<1>18. LockForCancellation(t) =>
         \E sub, row : Goto(t, [r EXCEPT !.at = "canceling", !.sub = sub, !.row = row])
  BY DEF LockForCancellation
<1>19. RegisterSubscriptionCancellation(t) =>
         Goto(t, [r EXCEPT !.at = "publish", !.row = NoRow])
  BY DEF RegisterSubscriptionCancellation
<1>20. Goto(t, task'[t])
  BY <1>1, <1>8, <1>9, <1>10, <1>11, <1>12, <1>13, <1>14, <1>15, <1>16, <1>17, <1>18,
     <1>19 DEF Progress
<1>21. task'[t] \in RequestRecord
  BY <1>0 DEF TypeOK
<1>22. /\ ReservePendingSubscription(t) => task'[t].at = "idle"
       /\ ConfirmWithoutExtending(t) \/ AlreadyCanceled(t) \/ Publish(t)
            => task'[t].at = "idle"
  BY <1>1, <1>2, <1>8, <1>16
<1>23. ASSUME GetSubscriptionIdentity(t) PROVE task'[t].at = "link"
  <2>1. PICK sub, ref : Goto(t, [r EXCEPT !.at = "link", !.sub = sub, !.ref = ref])
    BY <1>23, <1>9
  <2>2. task'[t] = [r EXCEPT !.at = "link", !.sub = sub, !.ref = ref]
    BY <1>1, <2>1
  <2>3. [r EXCEPT !.at = "link", !.sub = sub, !.ref = ref].at = "link"
    BY <1>0 DEF TaskRecord
  <2> QED BY <2>2, <2>3
<1>24. AlreadyLinked(t) => task'[t].at \in {"idle", "verify", "cancel"}
  <2>1. [r EXCEPT !.at = AfterLink(r.kind)].at = AfterLink(r.kind)
    BY <1>0 DEF TaskRecord
  <2> QED BY <1>1, <1>2, <1>10, <2>1
<1>25. PersistVerifiedSubscriptionLink(t) => task'[t].at \in {"idle", "verify", "cancel"}
  <2>1. [r EXCEPT !.at = AfterLink(r.kind), !.row = NoRow].at = AfterLink(r.kind)
    BY <1>0 DEF TaskRecord
  <2> QED BY <1>1, <1>2, <1>12, <2>1
<1>26. ASSUME LockForLink(t) PROVE task'[t].at = "linking"
  <2>1. PICK row : Goto(t, [r EXCEPT !.at = "linking", !.row = row])
    BY <1>26, <1>11
  <2>2. task'[t] = [r EXCEPT !.at = "linking", !.row = row]
    BY <1>1, <2>1
  <2>3. [r EXCEPT !.at = "linking", !.row = row].at = "linking"
    BY <1>0 DEF TaskRecord
  <2> QED BY <2>2, <2>3
<1>27. GetConfirmedPayment(t) => task'[t].at = "bill"
  BY <1>0, <1>1, <1>13 DEF TaskRecord
<1>28. ASSUME GetSubscriptionBillingInfo(t) PROVE task'[t].at = "confirm"
  <2>1. PICK start, end : Goto(t, [r EXCEPT !.at = "confirm", !.start = start, !.end = end])
    BY <1>28, <1>14
  <2>2. task'[t] = [r EXCEPT !.at = "confirm", !.start = start, !.end = end]
    BY <1>1, <2>1
  <2>3. [r EXCEPT !.at = "confirm", !.start = start, !.end = end].at = "confirm"
    BY <1>0 DEF TaskRecord
  <2> QED BY <2>2, <2>3
<1>29. ASSUME LockForPayment(t) PROVE task'[t].at = "confirming"
  <2>1. PICK sub, row : Goto(t, [r EXCEPT !.at = "confirming", !.sub = sub, !.row = row])
    BY <1>29, <1>15
  <2>2. task'[t] = [r EXCEPT !.at = "confirming", !.sub = sub, !.row = row]
    BY <1>1, <2>1
  <2>3. [r EXCEPT !.at = "confirming", !.sub = sub, !.row = row].at = "confirming"
    BY <1>0 DEF TaskRecord
  <2> QED BY <2>2, <2>3
<1>30. ConfirmSuccessfulPayment(t) => task'[t].at \in {"idle", "publish"}
  <2>1. [r EXCEPT !.at = "publish", !.row = NoRow].at = "publish"
    BY <1>0 DEF TaskRecord
  <2> QED BY <1>1, <1>2, <1>17, <2>1
<1>31. ASSUME LockForCancellation(t) PROVE task'[t].at = "canceling"
  <2>1. PICK sub, row : Goto(t, [r EXCEPT !.at = "canceling", !.sub = sub, !.row = row])
    BY <1>31, <1>18
  <2>2. task'[t] = [r EXCEPT !.at = "canceling", !.sub = sub, !.row = row]
    BY <1>1, <2>1
  <2>3. [r EXCEPT !.at = "canceling", !.sub = sub, !.row = row].at = "canceling"
    BY <1>0 DEF TaskRecord
  <2> QED BY <2>2, <2>3
<1>32. RegisterSubscriptionCancellation(t) => task'[t].at = "publish"
  <2>1. [r EXCEPT !.at = "publish", !.row = NoRow].at = "publish"
    BY <1>0 DEF TaskRecord
  <2> QED BY <1>1, <1>19, <2>1
<1> QED
  BY <1>20, <1>21, <1>22, <1>23, <1>24, <1>25, <1>26, <1>27, <1>28, <1>29, <1>30, <1>31, <1>32

\* Only four steps write the table, each the row its transaction holds or,
\* for a reservation, one that did not exist.
LEMMA Writers ==
  ASSUME TypeOK, NEW t \in Task, Progress(t),
         ~ReservePendingSubscription(t), ~PersistVerifiedSubscriptionLink(t),
         ~ConfirmSuccessfulPayment(t), ~RegisterSubscriptionCancellation(t)
  PROVE  UNCHANGED subs
BY DEF Progress, GetSubscriptionIdentity, AlreadyLinked, LockForLink, GetConfirmedPayment,
       GetSubscriptionBillingInfo, LockForPayment, ConfirmWithoutExtending, AlreadyCanceled,
       LockForCancellation, Publish

LEMMA RowsHeldStep == TypeOK /\ RowsHeld /\ [Next]_vars => RowsHeld'
<1> SUFFICES ASSUME TypeOK, RowsHeld, [Next]_vars PROVE RowsHeld'
  OBVIOUS
<1>0. TypeOK'
  BY TypeStep
<1>1. CASE UNCHANGED vars
  BY <1>1 DEF vars, RowsHeld
<1>2. CASE Tick \/ PayPal
  BY <1>2, PayPalFrame DEF RowsHeld
<1>3. ASSUME NEW t \in Task, Request(t) PROVE RowsHeld'
  BY <1>3, RequestMoves, RowsUntouched DEF RequestMove, RowSteps
<1>4. ASSUME NEW t \in Task, Progress(t) PROVE RowsHeld'
  <2> DEFINE r == task[t]
             new == task'[t]
  <2>0. /\ r \in RequestRecord /\ r \in TaskRecord
        /\ new \in RequestRecord /\ Goto(t, new)
    BY <1>0, <1>4, Lands DEF TypeOK, RequestRecord
  <2>1. CASE ReservePendingSubscription(t)
    <3>1. PICK s \in SubId :
            /\ ~Exists(s)
            /\ \A o \in SubId : o # s => subs'[o] = subs[o]
      BY <2>1 DEF ReservePendingSubscription, TypeOK
    <3>2. \A o \in Task : task[o].at \in RowSteps => task[o].sub # s /\ task[o].sub \in SubId
      BY <3>1, HolderType DEF RowsHeld, Exists
    <3>3. \A o \in Task : task'[o] = IF o = t THEN Idle ELSE task[o]
      BY <2>1 DEF ReservePendingSubscription, Goto, TypeOK
    <3> QED BY <3>1, <3>2, <3>3 DEF RowsHeld, Idle, RowSteps
  <2>2. CASE LockForLink(t)
    <3>1. /\ UNCHANGED subs
          /\ new.sub = r.sub /\ new.row = subs[new.sub] /\ ~RowLocked(new.sub)
      BY <2>0, <2>2 DEF LockForLink, Goto, TypeOK, TaskRecord
    <3> QED BY <2>0, <3>1, RowsTaken
  <2>3. CASE LockForPayment(t)
    <3>1. UNCHANGED subs /\ new.row = subs[new.sub] /\ ~RowLocked(new.sub)
      BY <2>0, <2>3 DEF LockForPayment, Goto, TypeOK, TaskRecord
    <3> QED BY <2>0, <3>1, RowsTaken
  <2>4. CASE LockForCancellation(t)
    <3>1. UNCHANGED subs /\ new.row = subs[new.sub] /\ ~RowLocked(new.sub)
      BY <2>0, <2>4 DEF LockForCancellation, Goto, TypeOK, TaskRecord
    <3> QED BY <2>0, <3>1, RowsTaken
  <2>5. CASE \/ PersistVerifiedSubscriptionLink(t)
             \/ ConfirmSuccessfulPayment(t)
             \/ RegisterSubscriptionCancellation(t)
    <3>1. r.at \in RowSteps /\ \E row : subs' = [subs EXCEPT ![r.sub] = row]
      BY <2>5 DEF PersistVerifiedSubscriptionLink, ConfirmSuccessfulPayment,
                  RegisterSubscriptionCancellation, RowSteps
    <3>2. PICK row : subs' = [subs EXCEPT ![r.sub] = row]
      BY <3>1
    <3>3. row \in Row
      BY <1>0, <3>1, <3>2, HolderType DEF TypeOK
    <3>4. new.at \notin RowSteps
      BY <1>4, <2>5, Lands DEF RowSteps
    <3> QED BY <2>0, <3>1, <3>2, <3>3, <3>4, RowsWritten
  <2>6. CASE /\ new.at \notin RowSteps
             /\ UNCHANGED subs
    BY <2>0, <2>6, RowsUntouched
  <2> QED
    BY <1>4, <2>1, <2>2, <2>3, <2>4, <2>5, <2>6, Lands, Writers DEF Progress, RowSteps
<1> QED
  BY <1>1, <1>2, <1>3, <1>4 DEF Next

---------------------------------------------------------------------------
(* What steps leave as it is.                                              *)

\* Which step a request has just taken, told by where it is.
LEMMA Origins ==
  ASSUME TypeOK, NEW t \in Task, Progress(t)
  PROVE  LET at == task'[t].at
         IN  /\ at # "reserving" /\ at # "identify"
             /\ at = "link" => GetSubscriptionIdentity(t)
             /\ at = "linking" => LockForLink(t)
             /\ at = "bill" => GetConfirmedPayment(t)
             /\ at = "confirm" => GetSubscriptionBillingInfo(t)
             /\ at = "confirming" => LockForPayment(t)
             /\ at = "canceling" => LockForCancellation(t)
             /\ at = "publish" => \/ ConfirmSuccessfulPayment(t)
                                  \/ RegisterSubscriptionCancellation(t)
BY Lands DEF Progress

\* One request moves at a time.
LEMMA Others ==
  ASSUME TypeOK, NEW t \in Task, NEW new, Goto(t, new)
  PROVE  task'[t] = new /\ \A o \in Task : o # t => task'[o] = task[o]
BY DEF Goto, TypeOK

LEMMA ProgressFrame ==
  ASSUME NEW t \in Task, Progress(t)
  PROVE  UNCHANGED <<now, paypal, charge, notices>>
BY DEF Progress, ReservePendingSubscription, GetSubscriptionIdentity, AlreadyLinked,
       LockForLink, PersistVerifiedSubscriptionLink, GetConfirmedPayment,
       GetSubscriptionBillingInfo, LockForPayment, ConfirmWithoutExtending,
       ConfirmSuccessfulPayment, AlreadyCanceled, LockForCancellation,
       RegisterSubscriptionCancellation, Publish, external

\* PayPal never changes the reference of a subscription, nor forgets one.
LEMMA PaypalKept ==
  ASSUME TypeOK, [Next]_vars, NEW e \in ExtSub, paypal[e].state # "NONE"
  PROVE  paypal'[e].state # "NONE" /\ paypal'[e].ref = paypal[e].ref
<1>0. \A x \in ExtSub : paypal[x] \in PaypalRecord
  BY DEF TypeOK
<1>1. CASE UNCHANGED paypal
  BY <1>1
<1>2. ASSUME NEW x \in ExtSub, PayPalApprove(x) \/ PayPalCancel(x)
      PROVE  paypal'[e].state # "NONE" /\ paypal'[e].ref = paypal[e].ref
  <2>1. CASE PayPalApprove(x)
    BY <2>1 DEF PayPalApprove, TypeOK
  <2>2. CASE PayPalCancel(x)
    <3>1. PICK next : paypal' =
            [paypal EXCEPT ![x] = [paypal[x] EXCEPT !.state = "CANCELLED", !.next = next]]
      BY <2>2 DEF PayPalCancel
    <3> QED BY <1>0, <3>1 DEF TypeOK, PaypalRecord
  <2> QED BY <1>2, <2>1, <2>2
<1>3. ASSUME NEW p \in PayId, PayPalBill(p)
      PROVE  paypal'[e].state # "NONE" /\ paypal'[e].ref = paypal[e].ref
  BY <1>0, <1>3 DEF PayPalBill, PaypalRecord, TypeOK
<1>4. \/ UNCHANGED paypal
      \/ \E x \in ExtSub : PayPalApprove(x) \/ PayPalCancel(x)
      \/ \E p \in PayId : PayPalBill(p)
  BY ProgressFrame, RequestMoves DEF Next, PayPal, PayPalCharge, PayPalSettle, Tick, vars, external
<1> QED
  BY <1>1, <1>2, <1>3, <1>4

\* A completed charge is not charged again and does not change.
LEMMA ChargeKept ==
  ASSUME TypeOK, [Next]_vars, NEW p \in PayId, charge[p].status = "COMPLETED"
  PROVE  charge'[p] = charge[p]
<1>1. \/ UNCHANGED charge
      \/ \E e \in ExtSub, q \in PayId : PayPalCharge(e, q)
      \/ \E q \in PayId, status \in {"COMPLETED", "DECLINED"} : PayPalSettle(q, status)
  BY ProgressFrame, RequestMoves
     DEF Next, PayPal, PayPalApprove, PayPalCancel, PayPalBill, Tick, vars, external
<1> QED
  BY <1>1 DEF PayPalCharge, PayPalSettle, TypeOK

---------------------------------------------------------------------------
(* The links.                                                              *)

LEMMA LinksBackedStep ==
  TypeOK /\ RowsHeld /\ LinksBacked /\ [Next]_vars => LinksBacked'
<1> SUFFICES ASSUME TypeOK, RowsHeld, LinksBacked, [Next]_vars PROVE LinksBacked'
  OBVIOUS
<1>0. TypeOK' /\ RowsHeld'
  BY TypeStep, RowsHeldStep
<1> DEFINE Backed(t) ==
      /\ task[t].at \in {"link", "linking"} =>
           /\ paypal[task[t].ext].state # "NONE"
           /\ task[t].ref = paypal[task[t].ext].ref
      /\ task[t].at = "linking" =>
           /\ Verifies(task[t].ref, task[t].sub)
           /\ task[t].row.status = "PENDING"
           /\ task[t].row.ext = None
<1>1. ASSUME NEW t \in Task, task'[t] = task[t] PROVE Backed(t)'
  <2>1. task[t].at \in {"link", "linking"} => task[t].ext \in ExtSub
    BY DEF TypeOK, RequestRecord, Informed
  <2>2. task[t].at = "linking" => subs'[task[t].sub] = subs[task[t].sub]
    BY <1>0, <1>1 DEF RowsHeld, RowSteps
  <2> QED BY <1>1, <2>1, <2>2, PaypalKept DEF LinksBacked, Verifies
<1>2. ASSUME NEW t \in Task, Progress(t) PROVE Backed(t)'
  <2> DEFINE r == task[t]
  <2>0. r \in TaskRecord
    BY DEF TypeOK, RequestRecord
  <2>1. CASE GetSubscriptionIdentity(t)
    <3>1. task'[t] = [r EXCEPT !.at = "link", !.sub = paypal[r.ext].ref.sub,
                               !.ref = paypal[r.ext].ref]
      BY <2>1, Others DEF GetSubscriptionIdentity
    <3>2. UNCHANGED paypal /\ paypal[r.ext].state # "NONE"
      BY <2>1 DEF GetSubscriptionIdentity, external
    <3> QED BY <2>0, <3>1, <3>2 DEF TaskRecord
  <2>2. CASE LockForLink(t)
    <3>1. task'[t] = [r EXCEPT !.at = "linking", !.row = subs[r.sub]]
      BY <2>2, Others DEF LockForLink
    <3>2. /\ UNCHANGED <<paypal, subs>> /\ r.at = "link"
          /\ Verifies(r.ref, r.sub)
          /\ subs[r.sub].ext = None /\ subs[r.sub].status = "PENDING"
      BY <2>2 DEF LockForLink, Linkable, external
    <3> QED BY <2>0, <3>1, <3>2 DEF TaskRecord, LinksBacked, Verifies
  <2>3. CASE task'[t].at \notin {"link", "linking"}
    BY <2>3
  <2> QED BY <1>2, <2>1, <2>2, <2>3, Origins
<1>3. ASSUME NEW t \in Task, Request(t) PROVE Backed(t)'
  BY <1>3, RequestMoves, Others DEF RequestMove
<1>4. \A t \in Task : Backed(t)'
  <2>1. ASSUME NEW t \in Task, Progress(t) \/ Request(t)
        PROVE  \A o \in Task : o # t => task'[o] = task[o]
    BY <2>1, Lands, Others, RequestMoves DEF RequestMove
  <2>2. CASE Tick \/ PayPal
    BY <1>1, <2>2, PayPalFrame
  <2>3. CASE UNCHANGED vars
    BY <1>1, <2>3 DEF vars
  <2> QED BY <1>1, <1>2, <1>3, <2>1, <2>2, <2>3 DEF Next
<1>5. ASSUME NEW s \in SubId, subs'[s].ext # None
      PROVE  paypal'[subs'[s].ext].state # "NONE"
  <2>1. subs'[s].ext \in ExtSub
    BY <1>0, <1>5 DEF TypeOK, Row, NoRow
  <2>2. CASE subs'[s].ext = subs[s].ext
    BY <1>5, <2>1, <2>2, PaypalKept DEF LinksBacked
  <2>3. CASE subs'[s].ext # subs[s].ext
    <3>1. PICK t \in Task : Progress(t) /\ subs' # subs
      BY <2>3, PayPalFrame, RequestMoves DEF Next, vars
    <3>2. CASE ReservePendingSubscription(t)
      BY <1>5, <2>3, <3>2 DEF ReservePendingSubscription, TypeOK, NoRow
    <3>3. CASE PersistVerifiedSubscriptionLink(t)
      <4>1. task[t].at = "linking" /\ task[t].ext \in ExtSub /\ task[t].row \in Row
        BY <3>3 DEF PersistVerifiedSubscriptionLink, TypeOK, RequestRecord, Informed, TaskRecord
      <4>2. subs' = [subs EXCEPT ![task[t].sub] = [task[t].row EXCEPT !.ext = task[t].ext]]
        BY <3>3 DEF PersistVerifiedSubscriptionLink
      <4>3. subs'[s].ext = task[t].ext
        BY <2>3, <4>1, <4>2 DEF TypeOK, Row, NoRow
      <4> QED BY <4>1, <4>3, PaypalKept DEF LinksBacked
    <3>4. CASE ConfirmSuccessfulPayment(t)
      <4>1. task[t].row = subs[task[t].sub] /\ task[t].row \in Row
        BY <3>4 DEF ConfirmSuccessfulPayment, RowsHeld, RowSteps, TypeOK, RequestRecord, TaskRecord
      <4>2. Extended(task[t]).ext = subs[task[t].sub].ext
        BY <4>1 DEF Extended, Row, NoRow
      <4>3. subs' = [subs EXCEPT ![task[t].sub] = Extended(task[t])]
        BY <3>4 DEF ConfirmSuccessfulPayment
      <4> QED BY <2>3, <4>2, <4>3 DEF TypeOK
    <3>5. CASE RegisterSubscriptionCancellation(t)
      <4>1. task[t].row = subs[task[t].sub] /\ task[t].row \in Row
        BY <3>5 DEF RegisterSubscriptionCancellation, RowsHeld, RowSteps, TypeOK, RequestRecord,
                    TaskRecord
      <4>2. subs' = [subs EXCEPT ![task[t].sub] = [task[t].row EXCEPT !.status = "CANCELED"]]
        BY <3>5 DEF RegisterSubscriptionCancellation
      <4> QED BY <2>3, <4>1, <4>2 DEF TypeOK, Row, NoRow
    <3> QED BY <3>1, <3>2, <3>3, <3>4, <3>5, Writers
  <2> QED BY <2>2, <2>3
<1> QED
  BY <1>4, <1>5 DEF LinksBacked
---------------------------------------------------------------------------
(* The rows.                                                               *)

\* The four ways a row is written, each from the row as it stands.
Inserted(s) == \E t \in Task :
    /\ ReservePendingSubscription(t)
    /\ subs[s] = NoRow
    /\ subs'[s] = [NoRow EXCEPT !.user = task[t].user, !.status = "PENDING"]
Linked(s) == \E t \in Task :
    /\ PersistVerifiedSubscriptionLink(t) /\ task[t].sub = s
    /\ subs[s].status = "PENDING" /\ subs[s].ext = None
    /\ subs'[s] = [subs[s] EXCEPT !.ext = task[t].ext]
Paid(s) == \E t \in Task :
    /\ ConfirmSuccessfulPayment(t) /\ task[t].sub = s /\ task[t].row = subs[s]
    /\ subs'[s] = Extended(task[t])
Canceled(s) == \E t \in Task :
    /\ RegisterSubscriptionCancellation(t) /\ task[t].sub = s /\ task[t].row = subs[s]
    /\ subs'[s] = [subs[s] EXCEPT !.status = "CANCELED"]

LEMMA RowSteps4 ==
  ASSUME TypeOK, RowsHeld, LinksBacked, [Next]_vars, NEW s \in SubId, subs'[s] # subs[s]
  PROVE  Inserted(s) \/ Linked(s) \/ Paid(s) \/ Canceled(s)
<1>1. PICK t \in Task : Progress(t) /\ subs' # subs
  BY PayPalFrame, RequestMoves DEF Next, vars
<1>2. CASE ReservePendingSubscription(t)
  <2>1. PICK o \in SubId : /\ ~Exists(o)
                           /\ subs' = [subs EXCEPT ![o] = [NoRow EXCEPT !.user = task[t].user,
                                                                       !.status = "PENDING"]]
    BY <1>2 DEF ReservePendingSubscription
  <2>2. o = s /\ subs[s] = NoRow
    BY <2>1 DEF TypeOK, Exists, Row, Status
  <2> QED BY <1>2, <2>1, <2>2 DEF Inserted, TypeOK
<1>3. CASE PersistVerifiedSubscriptionLink(t)
  <2>1. /\ task[t].at = "linking" /\ task[t].row = subs[task[t].sub]
        /\ subs' = [subs EXCEPT ![task[t].sub] = [task[t].row EXCEPT !.ext = task[t].ext]]
    BY <1>3 DEF PersistVerifiedSubscriptionLink, RowsHeld, RowSteps
  <2>2. task[t].sub = s
    BY <2>1 DEF TypeOK
  <2>3. task[t].row.status = "PENDING" /\ task[t].row.ext = None
    BY <2>1 DEF LinksBacked
  <2> QED BY <1>3, <2>1, <2>2, <2>3 DEF Linked, TypeOK
<1>4. CASE ConfirmSuccessfulPayment(t)
  <2>1. /\ task[t].at = "confirming" /\ task[t].row = subs[task[t].sub]
        /\ subs' = [subs EXCEPT ![task[t].sub] = Extended(task[t])]
    BY <1>4 DEF ConfirmSuccessfulPayment, RowsHeld, RowSteps
  <2>2. task[t].sub = s
    BY <2>1 DEF TypeOK
  <2> QED BY <1>4, <2>1, <2>2 DEF Paid, TypeOK
<1>5. CASE RegisterSubscriptionCancellation(t)
  <2>1. /\ task[t].at = "canceling" /\ task[t].row = subs[task[t].sub]
        /\ subs' = [subs EXCEPT ![task[t].sub] = [task[t].row EXCEPT !.status = "CANCELED"]]
    BY <1>5 DEF RegisterSubscriptionCancellation, RowsHeld, RowSteps
  <2>2. task[t].sub = s
    BY <2>1 DEF TypeOK
  <2> QED BY <1>5, <2>1, <2>2 DEF Canceled, TypeOK
<1> QED
  BY <1>1, <1>2, <1>3, <1>4, <1>5, Writers

\* What no step takes from a row.
RowKept(s) ==
    /\ subs[s].status # "NONE" => subs'[s].user = subs[s].user /\ subs'[s].status # "NONE"
    /\ subs[s].ext # None => subs'[s].ext = subs[s].ext
    /\ subs[s].status = "CANCELED" => subs'[s].status = "CANCELED"
    /\ subs[s].status \in {"ACTIVE", "CANCELED"} => subs'[s].status \in {"ACTIVE", "CANCELED"}
    /\ subs[s].status \in Closed => subs'[s].status \in Closed
    /\ subs[s].end # None => subs'[s].end # None /\ subs'[s].end >= subs[s].end

LEMMA RowKeptStep ==
  ASSUME TypeOK, RowsHeld, LinksBacked, [Next]_vars, NEW s \in SubId
  PROVE  RowKept(s)
<1> USE SubscriptionsAssumption
<1>0. subs[s] \in Row
  BY DEF TypeOK
<1>a. subs[s].end # None => subs[s].end \in Int
  BY <1>0 DEF Row, NoRow, Instant
<1>1. CASE subs'[s] = subs[s]
  BY <1>1, <1>a DEF RowKept
<1>2. CASE Inserted(s)
  BY <1>2 DEF Inserted, RowKept, NoRow, Closed
<1>3. CASE Linked(s)
  BY <1>0, <1>a, <1>3 DEF Linked, RowKept, Row, NoRow, Closed
<1>4. CASE Paid(s)
  <2>1. PICK t \in Task : /\ ConfirmSuccessfulPayment(t) /\ task[t].row = subs[s]
                          /\ subs'[s] = Extended(task[t])
    BY <1>4 DEF Paid
  <2>2. task[t].end \in Int /\ subs[s] # NoRow
    BY <2>1 DEF ConfirmSuccessfulPayment, TypeOK, RequestRecord, Informed, Instant, RowSteps
  <2>3. subs[s].end # None => task[t].end > subs[s].end
    BY <2>1 DEF ConfirmSuccessfulPayment, Extends
  <2>4. /\ subs'[s].user = subs[s].user /\ subs'[s].ext = subs[s].ext
        /\ subs'[s].end = task[t].end
        /\ subs'[s].status \in {subs[s].status, "ACTIVE"}
        /\ subs[s].status \in Closed => subs'[s].status = subs[s].status
    BY <1>0, <2>1, <2>2 DEF Extended, Row, Closed
  <2> QED BY <1>a, <2>2, <2>3, <2>4 DEF RowKept, Closed
<1>5. CASE Canceled(s)
  BY <1>0, <1>a, <1>5 DEF Canceled, RowKept, Row, NoRow, Closed
<1> QED
  BY <1>1, <1>2, <1>3, <1>4, <1>5, RowSteps4
---------------------------------------------------------------------------
(* One open row for each account.                                          *)

\* A row is opened by being inserted, and then no other row changes.
LEMMA OpenedByInsertion ==
  ASSUME TypeOK, RowsHeld, LinksBacked, [Next]_vars, NEW s \in SubId,
         subs'[s].status \in Open, subs[s].status \notin Open
  PROVE  \E t \in Task : /\ ReservePendingSubscription(t)
                         /\ subs'[s].user = task[t].user
                         /\ \A r \in SubId : r # s => subs'[r] = subs[r]
<1>0. subs[s] \in Row
  BY DEF TypeOK
<1>1. subs[s].status = "NONE"
  BY <1>0, RowKeptStep DEF RowKept, Row, NoRow, Status, Open, Closed
<1>2. ~Linked(s) /\ ~Canceled(s)
  BY <1>0, <1>1 DEF Linked, Canceled, Row, NoRow, Open
<1>3. ~Paid(s)
  BY <1>0, <1>1, HolderType DEF Paid, ConfirmSuccessfulPayment, RowSteps
<1>4. PICK t \in Task : /\ ReservePendingSubscription(t) /\ subs'[s] # subs[s]
                        /\ subs'[s].user = task[t].user
  BY <1>2, <1>3, RowSteps4 DEF Inserted, NoRow
<1> QED
  BY <1>4 DEF ReservePendingSubscription, TypeOK

LEMMA OneOpenStep ==
  TypeOK /\ RowsHeld /\ LinksBacked /\ UsersHeld /\ OneOpenReservation /\ [Next]_vars
  => UsersHeld' /\ OneOpenReservation'
<1> SUFFICES ASSUME TypeOK, RowsHeld, LinksBacked, UsersHeld, OneOpenReservation, [Next]_vars
             PROVE  UsersHeld' /\ OneOpenReservation'
  OBVIOUS
<1>1. ASSUME NEW s \in SubId, subs[s].status \in Open PROVE subs'[s].user = subs[s].user
  BY <1>1, RowKeptStep DEF RowKept, Open
<1>2. ASSUME NEW s \in SubId, NEW r \in SubId, s # r, subs'[s].user = subs'[r].user,
             subs'[s].status \in Open, subs'[r].status \in Open,
             subs[s].status \notin Open
      PROVE  FALSE
  <2>1. PICK t \in Task : /\ ReservePendingSubscription(t)
                          /\ subs'[s].user = task[t].user /\ subs'[r] = subs[r]
    BY <1>2, OpenedByInsertion
  <2> QED BY <1>2, <2>1 DEF UsersHeld, ReservePendingSubscription
<1>3. OneOpenReservation'
  <2> SUFFICES ASSUME NEW s \in SubId, NEW r \in SubId, s # r,
                      subs'[s].user = subs'[r].user,
                      subs'[s].status \in Open, subs'[r].status \in Open
               PROVE  FALSE
    BY DEF OneOpenReservation, Open
  <2>1. subs[s].status \in Open /\ subs[r].status \in Open
    BY <1>2
  <2> QED BY <1>1, <2>1 DEF OneOpenReservation, Open
<1>4. ASSUME NEW t \in Task, task'[t] = task[t], task[t].at = "reserving",
             NEW s \in SubId, subs'[s].user = task[t].user, subs'[s].status \in Open
      PROVE  FALSE
  <2>1. CASE subs[s].status \in Open
    BY <1>1, <1>4, <2>1 DEF UsersHeld
  <2>2. CASE subs[s].status \notin Open
    <3>1. PICK o \in Task : ReservePendingSubscription(o) /\ subs'[s].user = task[o].user
      BY <1>4, <2>2, OpenedByInsertion
    <3>2. o = t
      BY <1>4, <3>1 DEF UsersHeld, ReservePendingSubscription
    <3>3. task'[o] = Idle
      BY <3>1, Others DEF ReservePendingSubscription
    <3> QED BY <1>4, <3>2, <3>3 DEF Idle
  <2> QED BY <2>1, <2>2
<1>5. CASE \E t \in Task : Request(t)
  <2>1. PICK t \in Task, new \in RequestRecord : RequestMove(t, new) /\ UNCHANGED subs
    BY <1>5, RequestMoves
  <2>2. task'[t] = new /\ \A o \in Task : o # t => task'[o] = task[o]
    BY <2>1, Others DEF RequestMove
  <2>3. new.at = "reserving" =>
          /\ \A o \in Task : ~(task[o].at = "reserving" /\ task[o].user = new.user)
          /\ \A s \in SubId : subs'[s].user = new.user => subs'[s].status \notin Open
    BY <2>1 DEF RequestMove, UserLocked
  <2> QED BY <1>3, <1>4, <2>2, <2>3 DEF UsersHeld
<1>6. CASE ~\E t \in Task : Request(t)
  <2>1. \A t \in Task : task'[t].at = "reserving" => task'[t] = task[t]
    <3>1. CASE Tick \/ PayPal
      BY <3>1, PayPalFrame
    <3>2. CASE UNCHANGED vars
      BY <3>2 DEF vars
    <3>3. ASSUME NEW t \in Task, Progress(t)
          PROVE  \A o \in Task : task'[o].at = "reserving" => task'[o] = task[o]
      BY <3>3, Lands, Origins, Others
    <3> QED BY <1>6, <3>1, <3>2, <3>3 DEF Next
  <2> QED BY <1>3, <1>4, <2>1 DEF UsersHeld
<1> QED
  BY <1>5, <1>6
---------------------------------------------------------------------------
(* What a link and a payment rest on.                                      *)

LEMMA LinkedStep ==
  TypeOK /\ RowsHeld /\ LinksBacked /\ LinkedToItsSigner /\ [Next]_vars
  => LinkedToItsSigner'
<1> SUFFICES ASSUME TypeOK, RowsHeld, LinksBacked, LinkedToItsSigner, [Next]_vars,
                    NEW s \in SubId, subs'[s].ext # None
             PROVE  Verifies(paypal[subs[s].ext].ref, s)'
  BY DEF LinkedToItsSigner
<1>0. subs[s] \in Row
  BY DEF TypeOK
<1>1. CASE subs[s].ext # None
  <2>1. subs'[s].ext = subs[s].ext /\ subs'[s].user = subs[s].user /\ subs[s].ext \in ExtSub
    BY <1>0, <1>1, RowKeptStep DEF RowKept, Row, NoRow, Status
  <2>2. paypal'[subs[s].ext].ref = paypal[subs[s].ext].ref
    BY <1>1, <2>1, PaypalKept DEF LinksBacked
  <2> QED BY <1>1, <2>1, <2>2 DEF LinkedToItsSigner, Verifies
<1>2. CASE subs[s].ext = None
  <2>1. Linked(s)
    <3>1. ~Inserted(s) /\ ~Canceled(s)
      BY <1>0, <1>2 DEF Inserted, Canceled, Row, NoRow
    <3>2. ~Paid(s)
      <4> SUFFICES ASSUME NEW t \in Task, task[t].row = subs[s], subs'[s] = Extended(task[t])
                   PROVE  FALSE
        BY DEF Paid
      <4> QED BY <1>0, <1>2 DEF Extended, Row, NoRow
    <3> QED BY <1>2, <3>1, <3>2, RowSteps4
  <2>2. PICK t \in Task : /\ PersistVerifiedSubscriptionLink(t) /\ task[t].sub = s
                          /\ subs'[s] = [subs[s] EXCEPT !.ext = task[t].ext]
    BY <2>1 DEF Linked
  <2>3. /\ Verifies(task[t].ref, s) /\ task[t].ref = paypal[task[t].ext].ref
        /\ paypal[task[t].ext].state # "NONE"
    BY <2>2 DEF LinksBacked, PersistVerifiedSubscriptionLink
  <2>4. task[t].ext \in ExtSub
    BY <2>2 DEF PersistVerifiedSubscriptionLink, TypeOK, RequestRecord, Informed
  <2>5. subs'[s].ext = task[t].ext /\ subs'[s].user = subs[s].user
    BY <1>0, <2>2 DEF Row, NoRow
  <2> QED BY <2>3, <2>4, <2>5, PaypalKept DEF Verifies
<1> QED
  BY <1>1, <1>2

LEMMA BillingStep == TypeOK /\ BillingPeriod /\ [Next]_vars => BillingPeriod'
<1> SUFFICES ASSUME TypeOK, BillingPeriod, [Next]_vars, NEW e \in ExtSub,
                    paypal'[e].next # None
             PROVE  paypal'[e].last # None /\ paypal'[e].next = paypal'[e].last + Period
  BY DEF BillingPeriod
<1> USE SubscriptionsAssumption
<1>0. \A x \in ExtSub : paypal[x] \in PaypalRecord
  BY DEF TypeOK
<1>1. CASE paypal'[e] = paypal[e]
  BY <1>1 DEF BillingPeriod
<1>2. CASE PayPalApprove(e)
  <2>1. paypal'[e].last = paypal[e].last /\ paypal'[e].next = paypal[e].next
    BY <1>0, <1>2 DEF PayPalApprove, PaypalRecord, TypeOK
  <2> QED BY <2>1 DEF BillingPeriod
<1>3. CASE PayPalCancel(e)
  <2>1. PICK next \in {None, paypal[e].next} :
          paypal' = [paypal EXCEPT ![e] = [@ EXCEPT !.state = "CANCELLED", !.next = next]]
    BY <1>3 DEF PayPalCancel
  <2>2. paypal'[e].last = paypal[e].last /\ paypal'[e].next = next
    BY <1>0, <2>1 DEF PaypalRecord, TypeOK
  <2> QED BY <2>2 DEF BillingPeriod
<1>4. ASSUME NEW p \in PayId, PayPalBill(p), charge[p].ext = e
      PROVE  paypal'[e].last # None /\ paypal'[e].next = paypal'[e].last + Period
  <2>1. charge[p].paidAt \in Int
    BY <1>4 DEF PayPalBill, TypeOK, ChargeRecord, NoCharge
  <2>2. paypal'[e].last = charge[p].paidAt /\ paypal'[e].next = charge[p].paidAt + Period
    BY <1>0, <1>4 DEF PayPalBill, PaypalRecord, TypeOK
  <2> QED BY <2>1, <2>2
<1>5. \/ paypal'[e] = paypal[e] \/ PayPalApprove(e) \/ PayPalCancel(e)
      \/ \E p \in PayId : PayPalBill(p) /\ charge[p].ext = e
  <2>1. CASE UNCHANGED paypal
    BY <2>1
  <2>2. CASE PayPal
    BY <2>2 DEF PayPal, PayPalApprove, PayPalCancel, PayPalCharge, PayPalBill, PayPalSettle,
                TypeOK
  <2> QED
    BY <2>1, <2>2, ProgressFrame, RequestMoves DEF Next, Tick, vars, external
<1> QED
  BY <1>1, <1>2, <1>3, <1>4, <1>5

LEMMA PaymentsBackedStep ==
  TypeOK /\ BillingPeriod /\ PaymentsBacked /\ [Next]_vars => PaymentsBacked'
<1> SUFFICES ASSUME TypeOK, BillingPeriod, PaymentsBacked, [Next]_vars PROVE PaymentsBacked'
  OBVIOUS
<1> DEFINE Backed(t) ==
      /\ task[t].at \in {"bill", "confirm", "confirming"} =>
           charge[task[t].pay].status = "COMPLETED" /\ charge[task[t].pay].ext = task[t].ext
      /\ task[t].at \in {"confirm", "confirming"} =>
           /\ task[t].start = charge[task[t].pay].paidAt
           /\ task[t].end = task[t].start + Period
      /\ task[t].at = "confirming" => charge[task[t].pay].plan
      /\ task[t].at \in {"confirming", "canceling"} => task[t].row.ext = task[t].ext
<1>0. \A t \in Task : Backed(t)
  BY DEF PaymentsBacked
<1>1. ASSUME NEW t \in Task, task'[t] = task[t] PROVE Backed(t)'
  <2>1. task[t].at \in {"bill", "confirm", "confirming"} => task[t].pay \in PayId
    BY DEF TypeOK, RequestRecord, Informed
  <2> QED BY <1>0, <1>1, <2>1, ChargeKept
<1>2. ASSUME NEW t \in Task, Request(t) PROVE Backed(t)'
  BY <1>2, RequestMoves, Others DEF RequestMove
<1>3. ASSUME NEW t \in Task, Progress(t) PROVE Backed(t)'
  <2> DEFINE r == task[t]
  <2>0. r \in TaskRecord /\ UNCHANGED charge
    BY <1>3, ProgressFrame DEF TypeOK, RequestRecord
  <2>1. CASE GetConfirmedPayment(t)
    <3>1. task'[t] = [r EXCEPT !.at = "bill"]
      BY <2>1, Others DEF GetConfirmedPayment
    <3>2. task'[t].at = "bill" /\ task'[t].pay = r.pay /\ task'[t].ext = r.ext
      BY <2>0, <3>1 DEF TaskRecord
    <3> QED BY <2>0, <2>1, <3>2 DEF GetConfirmedPayment
  <2>2. CASE GetSubscriptionBillingInfo(t)
    <3>1. task'[t] = [r EXCEPT !.at = "confirm", !.start = paypal[r.ext].last,
                               !.end = paypal[r.ext].next]
      BY <2>2, Others DEF GetSubscriptionBillingInfo
    <3>2. /\ task'[t].at = "confirm" /\ task'[t].pay = r.pay /\ task'[t].ext = r.ext
          /\ task'[t].start = paypal[r.ext].last /\ task'[t].end = paypal[r.ext].next
      BY <2>0, <3>1 DEF TaskRecord
    <3>3. r.ext \in ExtSub
      BY <2>2 DEF GetSubscriptionBillingInfo, TypeOK, RequestRecord, Informed
    <3>4. /\ r.at = "bill" /\ paypal[r.ext].last = charge[r.pay].paidAt
          /\ paypal[r.ext].next = paypal[r.ext].last + Period
      BY <2>2, <3>3 DEF GetSubscriptionBillingInfo, BillingPeriod
    <3> QED BY <1>0, <2>0, <3>2, <3>4
  <2>3. CASE LockForPayment(t)
    <3>1. PICK s \in SubId :
            /\ subs[s].ext = r.ext
            /\ task'[t] = [r EXCEPT !.at = "confirming", !.sub = s, !.row = subs[s]]
      BY <2>3, Others DEF LockForPayment
    <3>2. /\ task'[t].at = "confirming" /\ task'[t].pay = r.pay /\ task'[t].ext = r.ext
          /\ task'[t].start = r.start /\ task'[t].end = r.end /\ task'[t].row = subs[s]
      BY <2>0, <3>1 DEF TaskRecord
    <3> QED BY <1>0, <2>0, <2>3, <3>1, <3>2 DEF LockForPayment
  <2>4. CASE LockForCancellation(t)
    <3>1. PICK s \in SubId :
            /\ subs[s].ext = r.ext
            /\ task'[t] = [r EXCEPT !.at = "canceling", !.sub = s, !.row = subs[s]]
      BY <2>4, Others DEF LockForCancellation
    <3>2. task'[t].at = "canceling" /\ task'[t].ext = r.ext /\ task'[t].row = subs[s]
      BY <2>0, <3>1 DEF TaskRecord
    <3> QED BY <3>1, <3>2
  <2> QED BY <1>3, <2>1, <2>2, <2>3, <2>4, Origins
<1>4. \A t \in Task : Backed(t)'
  <2>1. ASSUME NEW t \in Task, Progress(t) \/ Request(t)
        PROVE  \A o \in Task : o # t => task'[o] = task[o]
    BY <2>1, Lands, Others, RequestMoves DEF RequestMove
  <2>2. CASE Tick \/ PayPal
    BY <1>1, <2>2, PayPalFrame
  <2>3. CASE UNCHANGED vars
    BY <1>1, <2>3 DEF vars
  <2> QED BY <1>1, <1>2, <1>3, <2>1, <2>2, <2>3 DEF Next
<1> QED
  BY <1>4 DEF PaymentsBacked
---------------------------------------------------------------------------
(* The rows and the payments recorded for them.                            *)

LEMMA WellFormedStep ==
  TypeOK /\ RowsHeld /\ LinksBacked /\ PaymentsBacked /\ RowsWellFormed /\ [Next]_vars
  => RowsWellFormed'
<1> SUFFICES ASSUME TypeOK, RowsHeld, LinksBacked, PaymentsBacked, RowsWellFormed,
                    [Next]_vars, NEW s \in SubId
             PROVE  /\ subs'[s].status \in Closed \/ subs'[s].end # None => subs'[s].ext # None
                    /\ subs'[s].status = "ACTIVE" => subs'[s].end # None
                    /\ subs'[s].status \notin {"PAST_DUE", "EXPIRED"}
  BY DEF RowsWellFormed, Closed
<1> USE SubscriptionsAssumption
<1>0. subs[s] \in Row
  BY DEF TypeOK
<1>1. CASE subs'[s] = subs[s]
  BY <1>1 DEF RowsWellFormed
<1>2. CASE Inserted(s)
  BY <1>2 DEF Inserted, NoRow, Closed
<1>3. CASE Linked(s)
  <2>1. PICK t \in Task : /\ PersistVerifiedSubscriptionLink(t)
                          /\ subs[s].status = "PENDING"
                          /\ subs'[s] = [subs[s] EXCEPT !.ext = task[t].ext]
    BY <1>3 DEF Linked
  <2>2. task[t].ext \in ExtSub
    BY <2>1 DEF PersistVerifiedSubscriptionLink, TypeOK, RequestRecord, Informed
  <2>3. subs'[s].ext = task[t].ext /\ subs'[s].status = "PENDING"
    BY <1>0, <2>1 DEF Row, NoRow
  <2> QED BY <2>2, <2>3 DEF Closed
<1>4. CASE Paid(s)
  <2>1. PICK t \in Task : /\ ConfirmSuccessfulPayment(t) /\ task[t].row = subs[s]
                          /\ subs'[s] = Extended(task[t])
    BY <1>4 DEF Paid
  <2>2. /\ task[t].end \in Instant /\ task[t].ext \in ExtSub /\ subs[s] # NoRow
        /\ subs[s].ext = task[t].ext
    BY <2>1 DEF ConfirmSuccessfulPayment, TypeOK, RequestRecord, Informed, RowSteps,
                PaymentsBacked
  <2>3. /\ subs'[s].ext = subs[s].ext /\ subs'[s].end = task[t].end
        /\ subs'[s].status \in {subs[s].status, "ACTIVE"}
    BY <1>0, <2>1, <2>2 DEF Extended, Row
  <2> QED BY <2>2, <2>3 DEF RowsWellFormed, Instant
<1>5. CASE Canceled(s)
  <2>1. PICK t \in Task : /\ RegisterSubscriptionCancellation(t) /\ task[t].row = subs[s]
                          /\ subs'[s] = [subs[s] EXCEPT !.status = "CANCELED"]
    BY <1>5 DEF Canceled
  <2>2. task[t].ext \in ExtSub /\ subs[s].ext = task[t].ext
    BY <2>1 DEF RegisterSubscriptionCancellation, TypeOK, RequestRecord, Informed,
                PaymentsBacked
  <2>3. subs'[s].ext = subs[s].ext /\ subs'[s].status = "CANCELED"
    BY <1>0, <2>1 DEF Row, NoRow
  <2> QED BY <2>2, <2>3
<1> QED
  BY <1>1, <1>2, <1>3, <1>4, <1>5, RowSteps4

\* Payments are recorded by the request that confirms them, on the row it holds.
LEMMA Recorders ==
  ASSUME TypeOK, [Next]_vars
  PROVE  /\ recorded \subseteq recorded'
         /\ recorded' # recorded => \E t \in Task :
              /\ ConfirmWithoutExtending(t) \/ ConfirmSuccessfulPayment(t)
              /\ task[t].at = "confirming"
              /\ task[t].sub \in SubId /\ task[t].pay \in PayId /\ task[t].ext \in ExtSub
              /\ recorded' = recorded \cup {<<task[t].sub, task[t].pay>>}
<1>1. CASE UNCHANGED recorded
  BY <1>1
<1>2. ASSUME NEW t \in Task, ConfirmWithoutExtending(t) \/ ConfirmSuccessfulPayment(t)
      PROVE  /\ task[t].at = "confirming"
             /\ task[t].sub \in SubId /\ task[t].pay \in PayId /\ task[t].ext \in ExtSub
             /\ recorded' = recorded \cup {<<task[t].sub, task[t].pay>>}
  BY <1>2 DEF ConfirmWithoutExtending, ConfirmSuccessfulPayment, TypeOK, RequestRecord,
              Informed, RowSteps
<1>3. ASSUME NEW t \in Task, Progress(t)
      PROVE  \/ UNCHANGED recorded
             \/ ConfirmWithoutExtending(t) \/ ConfirmSuccessfulPayment(t)
  BY <1>3 DEF Progress, ReservePendingSubscription, GetSubscriptionIdentity, AlreadyLinked,
              LockForLink, PersistVerifiedSubscriptionLink, GetConfirmedPayment,
              GetSubscriptionBillingInfo, LockForPayment, AlreadyCanceled,
              LockForCancellation, RegisterSubscriptionCancellation, Publish
<1>4. \/ UNCHANGED recorded
      \/ \E t \in Task : ConfirmWithoutExtending(t) \/ ConfirmSuccessfulPayment(t)
  BY <1>3, RequestMoves, PayPalFrame DEF Next, vars
<1> QED
  BY <1>1, <1>2, <1>4

LEMMA GenuineStep ==
  TypeOK /\ RowsHeld /\ LinksBacked /\ PaymentsBacked /\ RecordedIsGenuine /\ [Next]_vars
  => RecordedIsGenuine'
<1> SUFFICES ASSUME TypeOK, RowsHeld, LinksBacked, PaymentsBacked, RecordedIsGenuine,
                    [Next]_vars, NEW s \in SubId, NEW p \in PayId, <<s, p>> \in recorded'
             PROVE  /\ charge'[p].status = "COMPLETED" /\ charge'[p].plan
                    /\ charge'[p].ext = subs'[s].ext
  BY DEF RecordedIsGenuine
<1> USE SubscriptionsAssumption
<1>1. /\ charge[p].status = "COMPLETED" /\ charge[p].plan
      /\ charge[p].ext = subs[s].ext
  <2>1. CASE <<s, p>> \in recorded
    BY <2>1 DEF RecordedIsGenuine
  <2>2. CASE <<s, p>> \notin recorded
    <3>1. PICK t \in Task : task[t].at = "confirming" /\ task[t].sub = s /\ task[t].pay = p
      BY <2>2, Recorders
    <3> QED BY <3>1 DEF PaymentsBacked, RowsHeld, RowSteps
  <2> QED BY <2>1, <2>2
<1>2. subs[s].ext # None
  BY <1>1 DEF TypeOK, ChargeRecord, NoCharge
<1> QED
  BY <1>1, <1>2, ChargeKept, RowKeptStep DEF RowKept

LEMMA PeriodStep ==
  /\ TypeOK /\ RowsHeld /\ LinksBacked /\ PaymentsBacked /\ RecordedIsGenuine
  /\ PeriodIsRecorded /\ [Next]_vars
  => PeriodIsRecorded'
<1> SUFFICES ASSUME TypeOK, RowsHeld, LinksBacked, PaymentsBacked, RecordedIsGenuine,
                    PeriodIsRecorded, [Next]_vars, NEW s \in SubId, subs'[s].end # None
             PROVE  \E p \in PayId : /\ <<s, p>> \in recorded'
                                     /\ charge'[p].paidAt + Period = subs'[s].end
  BY DEF PeriodIsRecorded
<1>0. subs[s] \in Row
  BY DEF TypeOK
<1>1. CASE subs'[s].end = subs[s].end
  <2>1. PICK p \in PayId : <<s, p>> \in recorded /\ charge[p].paidAt + Period = subs[s].end
    BY <1>1 DEF PeriodIsRecorded
  <2>2. charge'[p] = charge[p]
    BY <2>1, ChargeKept DEF RecordedIsGenuine
  <2> QED BY <1>1, <2>1, <2>2, Recorders
<1>2. CASE Paid(s)
  <2>1. PICK t \in Task : /\ ConfirmSuccessfulPayment(t) /\ task[t].sub = s
                          /\ task[t].row = subs[s] /\ subs'[s] = Extended(task[t])
    BY <1>2 DEF Paid
  <2>2. /\ task[t].pay \in PayId /\ subs[s] # NoRow
        /\ charge[task[t].pay].status = "COMPLETED"
        /\ task[t].end = charge[task[t].pay].paidAt + Period
    BY <2>1 DEF ConfirmSuccessfulPayment, TypeOK, RequestRecord, Informed, RowSteps,
                PaymentsBacked
  <2>3. subs'[s].end = task[t].end
    BY <1>0, <2>1, <2>2 DEF Extended, Row
  <2>4. <<s, task[t].pay>> \in recorded'
    BY <2>1 DEF ConfirmSuccessfulPayment
  <2> QED BY <2>2, <2>3, <2>4, ChargeKept
<1>3. CASE Inserted(s) \/ Linked(s) \/ Canceled(s)
  <2>1. subs'[s].end = None \/ subs'[s].end = subs[s].end
    BY <1>0, <1>3 DEF Inserted, Linked, Canceled, Row, NoRow
  <2> QED BY <1>1, <2>1
<1> QED
  BY <1>1, <1>2, <1>3, RowSteps4
---------------------------------------------------------------------------
(* What the browser and PayPal are told.                                   *)

\* Only a request about to publish tells the browser.
LEMMA Tellers ==
  ASSUME TypeOK, [Next]_vars
  PROVE  UNCHANGED sse \/ \E t \in Task : Publish(t)
BY PayPalFrame, RequestMoves
   DEF Next, vars, Progress, ReservePendingSubscription, GetSubscriptionIdentity,
       AlreadyLinked, LockForLink, PersistVerifiedSubscriptionLink, GetConfirmedPayment,
       GetSubscriptionBillingInfo, LockForPayment, ConfirmWithoutExtending,
       ConfirmSuccessfulPayment, AlreadyCanceled, LockForCancellation,
       RegisterSubscriptionCancellation

\* Telling the browser counts one event of one row, and frees the request.
LEMMA PublishCounts ==
  ASSUME TypeOK, NEW t \in Task, Publish(t)
  PROVE  LET r == task[t]
         IN  /\ r.at = "publish" /\ r.sub \in SubId /\ r.kind \in {"PAYMENT", "CANCEL"}
             /\ UNCHANGED subs /\ task'[t].at = "idle"
             /\ \A s \in SubId : s # r.sub => sse'[s] = sse[s]
             /\ r.kind = "CANCEL" =>
                  /\ sse'[r.sub].canceled = sse[r.sub].canceled + 1
                  /\ sse'[r.sub].activated = sse[r.sub].activated
             /\ r.kind = "PAYMENT" =>
                  /\ sse'[r.sub].activated = sse[r.sub].activated + 1
                  /\ sse'[r.sub].canceled = sse[r.sub].canceled
<1> DEFINE r == task[t]
<1>1. r.at = "publish" /\ r.sub \in SubId /\ r.kind \in {"PAYMENT", "CANCEL"}
  BY DEF Publish, TypeOK, RequestRecord, Informed
<1>2. UNCHANGED subs /\ task'[t].at = "idle"
  BY Others DEF Publish, Done, Idle
<1>3. sse' = [sse EXCEPT ![r.sub] =
               IF r.kind = "CANCEL"
                 THEN [sse[r.sub] EXCEPT !.canceled = sse[r.sub].canceled + 1]
                 ELSE [sse[r.sub] EXCEPT !.activated = sse[r.sub].activated + 1]]
  BY DEF Publish
<1>4. sse[r.sub] \in [activated : Nat, canceled : Nat]
  BY <1>1 DEF TypeOK
<1>5. CASE r.kind = "CANCEL"
  <2>1. sse'[r.sub] = [sse[r.sub] EXCEPT !.canceled = sse[r.sub].canceled + 1]
    BY <1>1, <1>3, <1>5 DEF TypeOK
  <2> QED BY <1>1, <1>2, <1>3, <1>4, <1>5, <2>1 DEF TypeOK
<1>6. CASE r.kind = "PAYMENT"
  <2>1. sse'[r.sub] = [sse[r.sub] EXCEPT !.activated = sse[r.sub].activated + 1]
    BY <1>1, <1>3, <1>6 DEF TypeOK
  <2> QED BY <1>1, <1>2, <1>3, <1>4, <1>6, <2>1 DEF TypeOK
<1> QED
  BY <1>1, <1>5, <1>6

LEMMA NotifiedStep ==
  /\ TypeOK /\ RowsHeld /\ LinksBacked /\ ToldOnce /\ NotifiedOnce /\ [Next]_vars
  => NotifiedOnce'
<1> SUFFICES ASSUME TypeOK, RowsHeld, LinksBacked, ToldOnce, NotifiedOnce, [Next]_vars,
                    NEW s \in SubId
             PROVE  /\ sse'[s].activated <= 1 /\ sse'[s].canceled <= 1
                    /\ sse'[s].activated = 1 => subs'[s].status \in {"ACTIVE", "CANCELED"}
                    /\ sse'[s].canceled = 1 => subs'[s].status = "CANCELED"
  BY DEF NotifiedOnce
<1>1. CASE sse'[s] = sse[s]
  BY <1>1, RowKeptStep DEF RowKept, NotifiedOnce
<1>2. CASE sse'[s] # sse[s]
  <2>1. PICK t \in Task : Publish(t) /\ task[t].sub = s
    BY <1>2, Tellers, PublishCounts
  <2>2. ToBeTold(task[t])
    BY <2>1 DEF ToldOnce, Publish
  <2> QED BY <2>1, <2>2, PublishCounts DEF ToBeTold, NotifiedOnce
<1> QED
  BY <1>1, <1>2

\* A transaction that will tell the browser has written what it will tell,
\* which nobody had told or was about to tell.
LEMMA ToldNew ==
  ASSUME TypeOK, RowsHeld, LinksBacked, PaymentsBacked, ToldOnce, NotifiedOnce, [Next]_vars,
         NEW t \in Task, Progress(t), task'[t].at = "publish"
  PROVE  /\ ToBeTold(task[t])' /\ task[t].at # "publish"
         /\ \A o \in Task : /\ o # t /\ task[o].at = "publish"
                            /\ task[o].sub = task'[t].sub
                            => task[o].kind # task'[t].kind
<1> DEFINE r == task[t]
           s == r.sub
<1> USE SubscriptionsAssumption
<1>0. r \in TaskRecord /\ UNCHANGED sse
  <2>1. ~Publish(t)
    BY Lands
  <2> QED BY <2>1, Origins DEF TypeOK, RequestRecord, ConfirmSuccessfulPayment,
                               RegisterSubscriptionCancellation
<1>1. CASE ConfirmSuccessfulPayment(t)
  <2>1. /\ r.at = "confirming" /\ r.kind = "PAYMENT" /\ s \in SubId /\ r.ext \in ExtSub
        /\ r.row = subs[s] /\ r.row.ext = r.ext /\ r.row # NoRow
    BY <1>1 DEF ConfirmSuccessfulPayment, TypeOK, RequestRecord, Informed, RowSteps,
                RowsHeld, PaymentsBacked
  <2>2. ~Done(t)
    BY Others DEF Done, Idle
  <2>3. /\ subs[s].status = "PENDING" /\ Extended(r).status = "ACTIVE"
        /\ task'[t] = [r EXCEPT !.at = "publish", !.row = NoRow]
        /\ subs' = [subs EXCEPT ![s] = Extended(r)]
        /\ <<s, r.pay>> \in recorded'
    BY <1>1, <2>1, <2>2, Others DEF ConfirmSuccessfulPayment
  <2>4. /\ task'[t].kind = "PAYMENT" /\ task'[t].sub = s
        /\ task'[t].ext = r.ext /\ task'[t].pay = r.pay
    BY <1>0, <2>1, <2>3 DEF TaskRecord
  <2>5. subs'[s].status = "ACTIVE" /\ subs'[s].ext = r.ext
    <3>1. subs'[s] = Extended(r) /\ r.row \in Row
      BY <2>1, <2>3 DEF TypeOK
    <3>2. Extended(r).ext = r.row.ext
      BY <2>1, <3>1 DEF Extended, Row
    <3> QED BY <2>1, <2>3, <3>1, <3>2
  <2>6. sse[s].activated = 0
    <3>1. sse[s].activated \in Nat
      BY <2>1 DEF TypeOK
    <3> QED BY <2>1, <2>3, <3>1 DEF NotifiedOnce
  <2>7. \A o \in Task : /\ task[o].at = "publish" /\ task[o].sub = s
                       => task[o].kind # "PAYMENT"
    BY <2>3 DEF ToldOnce, ToBeTold
  <2> QED BY <1>0, <2>1, <2>3, <2>4, <2>5, <2>6, <2>7 DEF ToBeTold
<1>2. CASE RegisterSubscriptionCancellation(t)
  <2>1. /\ r.at = "canceling" /\ r.kind = "CANCEL" /\ s \in SubId /\ r.ext \in ExtSub
        /\ r.row = subs[s] /\ r.row.ext = r.ext /\ r.row # NoRow
        /\ subs[s].status \notin Closed
    BY <1>2 DEF RegisterSubscriptionCancellation, TypeOK, RequestRecord, Informed, RowSteps,
                RowsHeld, PaymentsBacked, ToldOnce
  <2>2. /\ task'[t] = [r EXCEPT !.at = "publish", !.row = NoRow]
        /\ subs' = [subs EXCEPT ![s] = [r.row EXCEPT !.status = "CANCELED"]]
    BY <1>2, Others DEF RegisterSubscriptionCancellation
  <2>3. /\ task'[t].kind = "CANCEL" /\ task'[t].sub = s /\ task'[t].ext = r.ext
    BY <1>0, <2>1, <2>2 DEF TaskRecord
  <2>4. subs'[s].status = "CANCELED" /\ subs'[s].ext = r.ext
    <3>1. subs'[s] = [r.row EXCEPT !.status = "CANCELED"] /\ subs[s] \in Row
      BY <2>1, <2>2 DEF TypeOK
    <3> QED BY <2>1, <3>1 DEF Row, NoRow
  <2>5. sse[s].canceled = 0
    <3>1. sse[s].canceled \in Nat
      BY <2>1 DEF TypeOK
    <3> QED BY <2>1, <3>1 DEF NotifiedOnce, Closed
  <2>6. \A o \in Task : /\ task[o].at = "publish" /\ task[o].sub = s
                       => task[o].kind # "CANCEL"
    BY <2>1 DEF ToldOnce, ToBeTold, Closed
  <2> QED BY <1>0, <2>1, <2>3, <2>4, <2>5, <2>6 DEF ToBeTold
<1> QED
  BY <1>1, <1>2, Origins

\* What a waiting request will tell stays true, and untold by others.
LEMMA ToldKept ==
  ASSUME TypeOK, RowsHeld, LinksBacked, ToldOnce, [Next]_vars,
         NEW t \in Task, task[t].at = "publish", task'[t] = task[t]
  PROVE  ToBeTold(task[t])'
<1> DEFINE r == task[t]
<1>1. /\ ToBeTold(r) /\ r.sub \in SubId /\ r.ext \in ExtSub
      /\ r.kind \in {"PAYMENT", "CANCEL"}
  BY DEF ToldOnce, TypeOK, RequestRecord, Informed
<1>2. RowKept(r.sub) /\ recorded \subseteq recorded'
  BY <1>1, RowKeptStep, Recorders
<1>3. \/ UNCHANGED sse
      \/ \E o \in Task : /\ Publish(o) /\ o # t
                         /\ ~(task[o].sub = r.sub /\ task[o].kind = r.kind)
  BY Tellers, PublishCounts DEF ToldOnce
<1>4. r.kind = "CANCEL" => sse'[r.sub].canceled = sse[r.sub].canceled
  BY <1>1, <1>3, PublishCounts
<1>5. r.kind = "PAYMENT" => sse'[r.sub].activated = sse[r.sub].activated
  BY <1>1, <1>3, PublishCounts
<1> QED
  BY <1>1, <1>2, <1>4, <1>5, SubscriptionsAssumption DEF ToBeTold, RowKept

LEMMA ToldStep ==
  /\ TypeOK /\ RowsHeld /\ LinksBacked /\ PaymentsBacked /\ ToldOnce /\ NotifiedOnce
  /\ [Next]_vars
  => ToldOnce'
<1> SUFFICES ASSUME TypeOK, RowsHeld, LinksBacked, PaymentsBacked, ToldOnce, NotifiedOnce,
                    [Next]_vars
             PROVE  ToldOnce'
  OBVIOUS
<1>1. ASSUME NEW t \in Task, Progress(t) PROVE ToldOnce'
  <2>0. \A o \in Task : o # t => task'[o] = task[o]
    BY <1>1, Lands, Others
  <2>1. \A o \in Task : task'[o].at = "publish" => ToBeTold(task[o])'
    BY <1>1, <2>0, ToldNew, ToldKept
  <2>2. \A o, x \in Task : /\ task'[o].at = "publish" /\ task'[x].at = "publish"
                          /\ task'[o].sub = task'[x].sub /\ task'[o].kind = task'[x].kind
                          => o = x
    BY <1>1, <2>0, ToldNew DEF ToldOnce
  <2>3. \A o \in Task : task'[o].at = "canceling" => task'[o].row.status \notin Closed
    <3>1. CASE task'[t].at = "canceling"
      <4>1. LockForCancellation(t)
        BY <1>1, <3>1, Origins
      <4>2. PICK s \in SubId :
              /\ subs[s].status \notin Closed
              /\ task'[t] = [task[t] EXCEPT !.at = "canceling", !.sub = s, !.row = subs[s]]
        BY <4>1, Others DEF LockForCancellation, Closed
      <4>3. task'[t].row = subs[s]
        BY <4>2 DEF TypeOK, RequestRecord, TaskRecord
      <4> QED BY <2>0, <4>2, <4>3 DEF ToldOnce
    <3> QED BY <2>0, <3>1 DEF ToldOnce
  <2> QED BY <2>1, <2>2, <2>3 DEF ToldOnce
<1>2. CASE Tick \/ PayPal \/ UNCHANGED vars
  <2>1. UNCHANGED <<subs, recorded, task, sse>>
    BY <1>2, PayPalFrame DEF vars
  <2> QED BY <2>1 DEF ToldOnce, ToBeTold
<1>3. ASSUME NEW t \in Task, Request(t) PROVE ToldOnce'
  <2>1. PICK new \in RequestRecord : RequestMove(t, new)
    BY <1>3, RequestMoves
  <2>2. /\ task'[t] = new /\ new.at \notin {"publish", "canceling"}
        /\ \A o \in Task : o # t => task'[o] = task[o]
    BY <2>1, Others DEF RequestMove
  <2>3. UNCHANGED <<subs, recorded, sse>>
    BY <1>3, RequestMoves
  <2> QED BY <2>2, <2>3 DEF ToldOnce, ToBeTold
<1> QED
  BY <1>1, <1>2, <1>3 DEF Next
\* The webhook a request answers with success has been applied.
LEMMA Answers ==
  ASSUME TypeOK, RowsHeld, RowsWellFormed, PaymentsBacked, ToldOnce,
         NEW t \in Task, Progress(t), NEW n \in answered', n \notin answered
  PROVE  \E s \in SubId :
           /\ subs[s].ext = n.ext
           /\ IF n.type = "CANCEL" THEN subs[s].status = "CANCELED"
                                   ELSE <<s, n.pay>> \in recorded'
<1> DEFINE r == task[t]
<1>1. Done(t) /\ n = NoticeOf(r) /\ r.kind \in {"PAYMENT", "CANCEL"}
  BY DEF Progress, ReservePendingSubscription, GetSubscriptionIdentity, AlreadyLinked,
         LockForLink, PersistVerifiedSubscriptionLink, GetConfirmedPayment,
         GetSubscriptionBillingInfo, LockForPayment, ConfirmWithoutExtending,
         ConfirmSuccessfulPayment, AlreadyCanceled, LockForCancellation,
         RegisterSubscriptionCancellation, Publish, Done
<1>2. n.type = r.kind /\ n.ext = r.ext /\ n.pay = r.pay
  BY <1>1 DEF NoticeOf
<1>3. Informed(r)
  BY DEF TypeOK, RequestRecord
<1>4. task'[t].at = "idle"
  BY <1>1, Others DEF Done, Idle
<1>5. CASE ConfirmWithoutExtending(t) \/ ConfirmSuccessfulPayment(t)
  <2>1. /\ r.at = "confirming" /\ <<r.sub, r.pay>> \in recorded'
    BY <1>5 DEF ConfirmWithoutExtending, ConfirmSuccessfulPayment
  <2>2. r.kind = "PAYMENT" /\ r.sub \in SubId
    BY <1>3, <2>1 DEF Informed, RowSteps
  <2>3. subs[r.sub].ext = r.ext
    BY <2>1 DEF PaymentsBacked, RowsHeld, RowSteps
  <2> QED BY <1>2, <2>1, <2>2, <2>3
<1>6. CASE AlreadyCanceled(t)
  <2>1. PICK s \in SubId : subs[s].ext = r.ext /\ subs[s].status \in {"CANCELED", "EXPIRED"}
    BY <1>6 DEF AlreadyCanceled
  <2>2. r.kind = "CANCEL" /\ subs[s].status = "CANCELED"
    BY <1>3, <1>6, <2>1 DEF AlreadyCanceled, Informed, RowsWellFormed
  <2> QED BY <1>2, <2>1, <2>2
<1>7. CASE Publish(t)
  <2>1. r.at = "publish" /\ UNCHANGED recorded /\ r.sub \in SubId
    BY <1>3, <1>7 DEF Publish, Informed
  <2> QED BY <1>1, <1>2, <2>1 DEF ToldOnce, ToBeTold
<1>8. ~ReservePendingSubscription(t)
  BY DEF ReservePendingSubscription
<1>9. ~AlreadyLinked(t)
  BY <1>1 DEF AlreadyLinked
<1>10. ~PersistVerifiedSubscriptionLink(t)
  BY <1>1 DEF PersistVerifiedSubscriptionLink
<1> QED
  BY <1>4, <1>5, <1>6, <1>7, <1>8, <1>9, <1>10, Lands DEF Progress

LEMMA AnsweredStep ==
  /\ TypeOK /\ RowsHeld /\ RowsWellFormed /\ LinksBacked /\ PaymentsBacked /\ ToldOnce
  /\ AnsweredIsApplied /\ [Next]_vars
  => AnsweredIsApplied'
<1> SUFFICES ASSUME TypeOK, RowsHeld, RowsWellFormed, LinksBacked, PaymentsBacked, ToldOnce,
                    AnsweredIsApplied, [Next]_vars, NEW n \in answered'
             PROVE  \E s \in SubId :
                      /\ subs'[s].ext = n.ext
                      /\ IF n.type = "CANCEL" THEN subs'[s].status = "CANCELED"
                                              ELSE <<s, n.pay>> \in recorded'
  BY DEF AnsweredIsApplied
<1>1. \E s \in SubId : /\ subs[s].ext = n.ext
                       /\ IF n.type = "CANCEL" THEN subs[s].status = "CANCELED"
                                               ELSE <<s, n.pay>> \in recorded'
  <2>1. CASE n \in answered
    BY <2>1, Recorders DEF AnsweredIsApplied
  <2>2. CASE n \notin answered
    <3>1. PICK t \in Task : Progress(t)
      BY <2>2, PayPalFrame, RequestMoves DEF Next, vars
    <3> QED BY <2>2, <3>1, Answers
  <2> QED BY <2>1, <2>2
<1>2. n.ext \in ExtSub
  BY TypeStep DEF TypeOK, Notice
<1> QED
  BY <1>1, <1>2, RowKeptStep, SubscriptionsAssumption DEF RowKept

---------------------------------------------------------------------------
(* The theorems.                                                           *)

LEMMA InvariantInit == Init => IInv
<1> SUFFICES ASSUME Init PROVE IInv
  OBVIOUS
<1> USE SubscriptionsAssumption DEF Init, Idle, NoRow
<1>1. TypeOK
  BY TypeInit
<1>2. RowsHeld /\ UsersHeld /\ OneOpenReservation /\ RowsWellFormed
  BY DEF RowsHeld, UsersHeld, OneOpenReservation, RowsWellFormed, RowSteps, Open, Closed
<1>3. LinksBacked /\ LinkedToItsSigner
  BY DEF LinksBacked, LinkedToItsSigner
<1>4. BillingPeriod /\ PaymentsBacked /\ RecordedIsGenuine /\ PeriodIsRecorded
  BY DEF BillingPeriod, NoPaypal, PaymentsBacked, RecordedIsGenuine, PeriodIsRecorded
<1>5. ToldOnce /\ NotifiedOnce /\ AnsweredIsApplied
  BY DEF ToldOnce, NotifiedOnce, AnsweredIsApplied
<1> QED
  BY <1>1, <1>2, <1>3, <1>4, <1>5 DEF IInv

LEMMA InvariantStep == IInv /\ [Next]_vars => IInv'
BY TypeStep, RowsHeldStep, OneOpenStep, WellFormedStep, LinksBackedStep, LinkedStep,
   BillingStep, PaymentsBackedStep, GenuineStep, PeriodStep, ToldStep, NotifiedStep,
   AnsweredStep DEF IInv

\* Every reachable state satisfies the inductive invariant.
THEOREM InvariantHolds == Spec => []IInv
BY InvariantInit, InvariantStep, PTL DEF Spec

\* An account never has two rows that wait for a payment or are in force,
\* however its reservations, links and webhooks interleave.
THEOREM OneOpenReservationHolds == Spec => []OneOpenReservation
<1>1. IInv => OneOpenReservation
  BY DEF IInv
<1> QED BY <1>1, InvariantHolds, PTL

\* A row is linked only to the PayPal subscription that carries the reference
\* signed for it.
THEOREM LinkedToItsSignerHolds == Spec => []LinkedToItsSigner
<1>1. IInv => LinkedToItsSigner
  BY DEF IInv
<1> QED BY <1>1, InvariantHolds, PTL

\* Only completed charges of the plan are recorded, each on the row linked to
\* the PayPal subscription that was charged.
THEOREM RecordedIsGenuineHolds == Spec => []RecordedIsGenuine
<1>1. IInv => RecordedIsGenuine
  BY DEF IInv
<1> QED BY <1>1, InvariantHolds, PTL

\* Premium access rests on a recorded payment whose own period has not ended.
THEOREM PremiumIsPaidHolds == Spec => []PremiumIsPaid
<1>1. IInv => PremiumIsPaid
  <2> SUFFICES ASSUME IInv, NEW u \in User, HasPremiumAccess(u)
               PROVE  \E s \in SubId, p \in PayId :
                        /\ subs[s].user = u
                        /\ <<s, p>> \in recorded
                        /\ charge[p].paidAt + Period > now
    BY DEF PremiumIsPaid
  <2>1. PICK s \in SubId : subs[s].user = u /\ Later(subs[s].end)
    BY DEF HasPremiumAccess
  <2>2. PICK p \in PayId : <<s, p>> \in recorded /\ charge[p].paidAt + Period = subs[s].end
    BY <2>1 DEF IInv, PeriodIsRecorded, Later
  <2> QED BY <2>1, <2>2 DEF Later
<1> QED BY <1>1, InvariantHolds, PTL

\* A webhook answered with success has been applied, and stays applied.
THEOREM AnsweredIsAppliedHolds == Spec => []AnsweredIsApplied
<1>1. IInv => AnsweredIsApplied
  BY DEF IInv
<1> QED BY <1>1, InvariantHolds, PTL

\* The browser is told of an activation and of a cancellation at most once,
\* after the commit.
THEOREM NotifiedOnceHolds == Spec => []NotifiedOnce
<1>1. IInv => NotifiedOnce
  BY DEF IInv
<1> QED BY <1>1, InvariantHolds, PTL

\* A canceled row stays canceled, whatever was in flight.
THEOREM CanceledIsFinalHolds == Spec => CanceledIsFinal
<1>1. IInv /\ [Next]_vars =>
        [\A s \in SubId : subs[s].status = "CANCELED" => subs'[s].status = "CANCELED"]_subs
  BY RowKeptStep DEF IInv, RowKept
<1> QED BY <1>1, InvariantHolds, PTL DEF Spec, CanceledIsFinal

\* A link is never replaced or removed.
THEOREM LinkIsFinalHolds == Spec => LinkIsFinal
<1>1. IInv /\ [Next]_vars =>
        [\A s \in SubId : subs[s].ext # None => subs'[s].ext = subs[s].ext]_subs
  BY RowKeptStep DEF IInv, RowKept
<1> QED BY <1>1, InvariantHolds, PTL DEF Spec, LinkIsFinal

\* No payment shortens a period.
THEOREM PeriodNeverShrinksHolds == Spec => PeriodNeverShrinks
<1>1. IInv /\ [Next]_vars =>
        [\A s \in SubId : subs[s].end # None =>
            subs'[s].end # None /\ subs'[s].end >= subs[s].end]_subs
  BY RowKeptStep DEF IInv, RowKept
<1> QED BY <1>1, InvariantHolds, PTL DEF Spec, PeriodNeverShrinks

---------------------------------------------------------------------------
(***************************************************************************)
(* Subscriptions implements SubscriptionContract: each write of a          *)
(* transaction is one step of the contract on the row as it stands, and    *)
(* every other step leaves the table alone.                                *)
(***************************************************************************)

\* One row of the table changes, the others do not.
LEMMA TableWrite ==
  ASSUME TypeOK, NEW s \in SubId, NEW row, subs' = [subs EXCEPT ![s] = row]
  PROVE  Table' = [Table EXCEPT ![s] =
                     Contract!RowOf(row.user, row.status, row.ext, row.end)]
<1>1. \A r \in SubId : subs'[r] = IF r = s THEN row ELSE subs[r]
  BY DEF TypeOK
<1> QED
  BY <1>1 DEF Table, Contract!RowOf

LEMMA RefinesInit == Init => Contract!Init
BY DEF Init, Contract!Init, Table, NoRow, Contract!Absent, Contract!RowOf

LEMMA RefinesReserve ==
  ASSUME IInv, NEW t \in Task, ReservePendingSubscription(t)
  PROVE  \E s \in SubId, u \in User : Contract!Reserve(u, s)
<1> DEFINE u == task[t].user
<1>1. u \in User /\ task[t].at = "reserving"
  BY DEF IInv, TypeOK, RequestRecord, Informed, ReservePendingSubscription
<1>2. PICK s \in SubId :
        /\ ~Exists(s)
        /\ subs' = [subs EXCEPT ![s] = [NoRow EXCEPT !.user = u, !.status = "PENDING"]]
  BY DEF ReservePendingSubscription
<1>3. Table[s] = Contract!Absent
  BY <1>2 DEF IInv, TypeOK, Exists, Row, Status, NoRow, Table, Contract!Absent, Contract!RowOf
<1>4. \A r \in SubId : Table[r].user = u => Table[r].status \notin Contract!Open
  BY <1>1 DEF IInv, UsersHeld, Open, Contract!Open, Table
<1>5. Table' = [Table EXCEPT ![s] = Contract!RowOf(u, "PENDING", None, None)]
  <2> DEFINE new == [NoRow EXCEPT !.user = u, !.status = "PENDING"]
  <2>1. new.user = u /\ new.status = "PENDING" /\ new.ext = None /\ new.end = None
    BY DEF NoRow
  <2>2. subs' = [subs EXCEPT ![s] = new]
    BY <1>2
  <2> HIDE DEF new
  <2>3. Table' = [Table EXCEPT ![s] = Contract!RowOf(new.user, new.status, new.ext, new.end)]
    BY <1>2, <2>2, TableWrite DEF IInv
  <2> QED BY <2>1, <2>3
<1>6. UNCHANGED <<now, recorded>>
  BY DEF ReservePendingSubscription
<1> QED
  BY <1>1, <1>3, <1>4, <1>5, <1>6 DEF Contract!Reserve

LEMMA RefinesLink ==
  ASSUME IInv, NEW t \in Task, PersistVerifiedSubscriptionLink(t)
  PROVE  \E s \in SubId, e \in ExtSub : Contract!Link(s, e)
<1> DEFINE s == task[t].sub
           e == task[t].ext
<1>1. /\ s \in SubId /\ e \in ExtSub /\ task[t].at = "linking"
      /\ task[t].row = subs[s] /\ subs[s] \in Row
      /\ subs[s].status = "PENDING" /\ subs[s].ext = None
  BY DEF IInv, TypeOK, RequestRecord, Informed, PersistVerifiedSubscriptionLink, RowSteps,
         RowsHeld, LinksBacked
<1>2. subs' = [subs EXCEPT ![s] = [subs[s] EXCEPT !.ext = e]]
  BY <1>1 DEF PersistVerifiedSubscriptionLink
<1>3. Table' = [Table EXCEPT ![s] = Contract!RowOf(Table[s].user, "PENDING", e, Table[s].end)]
  <2> DEFINE new == [subs[s] EXCEPT !.ext = e]
  <2>1. /\ new.user = Table[s].user /\ new.status = "PENDING"
        /\ new.ext = e /\ new.end = Table[s].end
    BY <1>1 DEF Row, NoRow, Table
  <2>2. subs' = [subs EXCEPT ![s] = new]
    BY <1>2
  <2> HIDE DEF new
  <2>3. Table' = [Table EXCEPT ![s] = Contract!RowOf(new.user, new.status, new.ext, new.end)]
    BY <1>1, <2>2, TableWrite DEF IInv
  <2> QED BY <2>1, <2>3
<1>4. \A r \in SubId : Table[r].ext # e
  BY <1>1, SubscriptionsAssumption DEF PersistVerifiedSubscriptionLink, Table
<1>5. Table[s].status = "PENDING" /\ Table[s].ext = None /\ UNCHANGED <<now, recorded>>
  BY <1>1 DEF Table, PersistVerifiedSubscriptionLink, external
<1> QED
  BY <1>1, <1>3, <1>4, <1>5 DEF Contract!Link

LEMMA RefinesPay ==
  ASSUME IInv, NEW t \in Task, ConfirmSuccessfulPayment(t)
  PROVE  \E s \in SubId, p \in PayId, end \in Instant : Contract!Pay(s, p, end)
<1> DEFINE r == task[t]
           s == r.sub
<1>1. /\ s \in SubId /\ r.pay \in PayId /\ r.ext \in ExtSub /\ r.end \in Instant
      /\ r.row = subs[s] /\ subs[s] \in Row /\ subs[s] # NoRow /\ subs[s].ext = r.ext
  BY DEF IInv, TypeOK, RequestRecord, Informed, ConfirmSuccessfulPayment, RowSteps,
         RowsHeld, PaymentsBacked
<1>2. /\ subs' = [subs EXCEPT ![s] = Extended(r)] /\ UNCHANGED now
      /\ <<s, r.pay>> \notin recorded /\ recorded' = recorded \cup {<<s, r.pay>>}
      /\ subs[s].end # None => r.end > subs[s].end
  BY <1>1 DEF ConfirmSuccessfulPayment, Extends
<1> DEFINE status == IF subs[s].status \notin Closed /\ r.end > now THEN "ACTIVE"
                                                                  ELSE subs[s].status
<1>3. /\ Extended(r).user = subs[s].user /\ Extended(r).ext = subs[s].ext
      /\ Extended(r).end = r.end /\ Extended(r).status = status
  BY <1>1 DEF Extended, Row, Closed
<1>4. Table[s] = [user |-> subs[s].user, status |-> subs[s].status,
                  ext |-> subs[s].ext, end |-> subs[s].end]
  BY <1>1 DEF Table
<1>5. Table' = [Table EXCEPT ![s] = Contract!RowOf(Table[s].user, status, Table[s].ext, r.end)]
  <2>1. Table[s].user = subs[s].user /\ Table[s].ext = subs[s].ext
    BY <1>4
  <2> HIDE DEF status
  <2> DEFINE new == Extended(r)
  <2>2. subs' = [subs EXCEPT ![s] = new]
    BY <1>2
  <2>3. /\ new.user = Table[s].user /\ new.status = status
        /\ new.ext = Table[s].ext /\ new.end = r.end
    BY <1>3, <2>1
  <2> HIDE DEF new
  <2>4. Table' = [Table EXCEPT ![s] = Contract!RowOf(new.user, new.status, new.ext, new.end)]
    BY <1>1, <2>2, TableWrite DEF IInv
  <2> QED BY <2>3, <2>4
<1>6. /\ Table[s].ext # None
      /\ Table[s].end # None => r.end > Table[s].end
      /\ status = IF Table[s].status \notin Contract!Closed /\ r.end > now
                    THEN "ACTIVE" ELSE Table[s].status
  BY <1>1, <1>2, <1>4, SubscriptionsAssumption DEF Closed, Contract!Closed
<1> HIDE DEF status
<1>7. Contract!Pay(s, r.pay, r.end)
  BY <1>2, <1>5, <1>6 DEF Contract!Pay
<1> QED
  BY <1>1, <1>7

LEMMA RefinesCancel ==
  ASSUME IInv, NEW t \in Task, RegisterSubscriptionCancellation(t)
  PROVE  \E s \in SubId : Contract!Cancel(s)
<1> DEFINE s == task[t].sub
<1>1. /\ s \in SubId /\ task[t].ext \in ExtSub /\ task[t].row = subs[s] /\ subs[s] \in Row
      /\ subs[s].ext = task[t].ext /\ subs[s].status \notin Closed
  BY DEF IInv, TypeOK, RequestRecord, Informed, RegisterSubscriptionCancellation, RowSteps,
         RowsHeld, PaymentsBacked, ToldOnce
<1>2. subs' = [subs EXCEPT ![s] = [subs[s] EXCEPT !.status = "CANCELED"]]
  BY <1>1 DEF RegisterSubscriptionCancellation
<1>3. Table[s] = [user |-> subs[s].user, status |-> subs[s].status,
                  ext |-> subs[s].ext, end |-> subs[s].end]
  BY <1>1 DEF Table
<1>4. Table' = [Table EXCEPT ![s] =
                 Contract!RowOf(Table[s].user, "CANCELED", Table[s].ext, Table[s].end)]
  <2> DEFINE new == [subs[s] EXCEPT !.status = "CANCELED"]
  <2>1. /\ new.user = Table[s].user /\ new.status = "CANCELED"
        /\ new.ext = Table[s].ext /\ new.end = Table[s].end
    BY <1>1, <1>3 DEF Row, NoRow
  <2>2. subs' = [subs EXCEPT ![s] = new]
    BY <1>2
  <2> HIDE DEF new
  <2>3. Table' = [Table EXCEPT ![s] = Contract!RowOf(new.user, new.status, new.ext, new.end)]
    BY <1>1, <2>2, TableWrite DEF IInv
  <2> QED BY <2>1, <2>3
<1>5. /\ Table[s].ext # None /\ Table[s].status \notin Contract!Closed
      /\ UNCHANGED <<now, recorded>>
  BY <1>1, <1>3, SubscriptionsAssumption
     DEF Closed, Contract!Closed, RegisterSubscriptionCancellation
<1> QED
  BY <1>1, <1>4, <1>5 DEF Contract!Cancel

LEMMA RefinesLate ==
  ASSUME IInv, NEW t \in Task, ConfirmWithoutExtending(t)
  PROVE  \/ UNCHANGED <<now, subs, recorded>>
         \/ \E s \in SubId, p \in PayId : Contract!RecordLate(s, p)
<1> DEFINE r == task[t]
<1>1. /\ r.sub \in SubId /\ r.pay \in PayId /\ r.row = subs[r.sub]
  BY DEF IInv, TypeOK, RequestRecord, Informed, ConfirmWithoutExtending, RowSteps, RowsHeld
<1>2. UNCHANGED <<now, subs>> /\ recorded' = recorded \cup {<<r.sub, r.pay>>}
  BY DEF ConfirmWithoutExtending
<1>3. CASE <<r.sub, r.pay>> \in recorded
  BY <1>2, <1>3
<1>4. CASE <<r.sub, r.pay>> \notin recorded
  <2>1. Table[r.sub].end # None /\ Table' = Table
    BY <1>1, <1>2, <1>4 DEF ConfirmWithoutExtending, Extends, Table
  <2>2. Contract!RecordLate(r.sub, r.pay)
    BY <1>2, <2>1 DEF Contract!RecordLate
  <2> QED BY <1>1, <2>2
<1> QED
  BY <1>3, <1>4

LEMMA RefinesNext ==
  IInv /\ [Next]_vars => [Contract!Next]_<<now, Table, recorded>>
<1> SUFFICES ASSUME IInv, [Next]_vars
             PROVE  Contract!Next \/ UNCHANGED <<now, Table, recorded>>
  OBVIOUS
<1>1. CASE UNCHANGED <<now, subs, recorded>>
  BY <1>1 DEF Table
<1>2. CASE Tick
  <2>1. Table' = Table
    BY <1>2 DEF Tick, Table
  <2> QED BY <1>2, <2>1 DEF Tick, Contract!Next, Contract!Tick
<1>3. ASSUME NEW t \in Task, Progress(t)
      PROVE  Contract!Next \/ UNCHANGED <<now, Table, recorded>>
  <2>1. CASE ReservePendingSubscription(t)
    BY <2>1, RefinesReserve DEF Contract!Next
  <2>2. CASE PersistVerifiedSubscriptionLink(t)
    BY <2>2, RefinesLink DEF Contract!Next
  <2>3. CASE ConfirmSuccessfulPayment(t)
    BY <2>3, RefinesPay DEF Contract!Next
  <2>4. CASE RegisterSubscriptionCancellation(t)
    BY <2>4, RefinesCancel DEF Contract!Next
  <2>5. CASE ConfirmWithoutExtending(t)
    BY <1>1, <2>5, RefinesLate DEF Contract!Next
  <2>6. CASE UNCHANGED <<now, subs, recorded>>
    BY <1>1, <2>6
  <2> QED
    BY <1>3, <2>1, <2>2, <2>3, <2>4, <2>5, <2>6
       DEF Progress, GetSubscriptionIdentity, AlreadyLinked, LockForLink, GetConfirmedPayment,
           GetSubscriptionBillingInfo, LockForPayment, AlreadyCanceled, LockForCancellation,
           Publish
<1>4. ASSUME NEW t \in Task, Request(t) PROVE UNCHANGED <<now, subs, recorded>>
  BY <1>4, RequestMoves DEF IInv
<1>5. PayPal => UNCHANGED <<now, subs, recorded>>
  BY DEF PayPal, PayPalApprove, PayPalCancel, PayPalCharge, PayPalBill, PayPalSettle
<1> QED
  BY <1>1, <1>2, <1>3, <1>4, <1>5 DEF Next, vars

\* Every behaviour of the requests, of PayPal and of their failures is, for the
\* table, a behaviour of the contract.
THEOREM ContractImplemented == Spec => ImplementsContract
<1>1. IInv /\ [Next]_vars => [Contract!Next]_<<now, Table, recorded>>
  BY RefinesNext
<1> QED
  BY RefinesInit, <1>1, InvariantHolds, PTL DEF Spec, ImplementsContract, Contract!Spec
=============================================================================
