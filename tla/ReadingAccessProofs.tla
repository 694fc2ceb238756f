------------------------ MODULE ReadingAccessProofs ------------------------
(***************************************************************************)
(* ReadingAccess keeps its types, its invariant and its promise, for every *)
(* number of accounts, tokens and requests and every length of the free    *)
(* period and of a challenge's life.                                       *)
(***************************************************************************)
EXTENDS ReadingAccessInvariant, TLAPS

---------------------------------------------------------------------------
(* Types.                                                                  *)

LEMMA ActiveRequest ==
    ASSUME NEW r \in Request, r.at # "idle"
    PROVE  /\ r.user \in User /\ r.token \in Token \cup {None}
           /\ r.now \in Instant /\ r.ends \in Expiry
           /\ r.kind \in Kinds
           /\ \A at \in Steps : [r EXCEPT !.at = at] \in Request
           /\ \A at \in Steps, i \in Instant : [r EXCEPT !.at = at, !.now = i] \in Request
           /\ \A at \in Steps, e \in Expiry : [r EXCEPT !.at = at, !.ends = e] \in Request
<1> DEFINE R == [at : Steps, kind : Kinds, user : User, token : Token \cup {None},
                 now : Instant, ends : Expiry]
<1>1. r \in R
  BY DEF Request, Idle
<1>2. R \subseteq Request
  BY DEF Request
<1>3. \A at \in Steps : [r EXCEPT !.at = at] \in R
  BY <1>1
<1>4. \A at \in Steps, i \in Instant : [r EXCEPT !.at = at, !.now = i] \in R
  BY <1>1
<1>5. \A at \in Steps, e \in Expiry : [r EXCEPT !.at = at, !.ends = e] \in R
  BY <1>1
<1> HIDE DEF R
<1>6. /\ r.user \in User /\ r.token \in Token \cup {None}
      /\ r.now \in Instant /\ r.ends \in Expiry /\ r.kind \in Kinds
  BY <1>1 DEF R
<1> QED
  BY <1>2, <1>3, <1>4, <1>5, <1>6

LEMMA GotoKeepsType ==
    ASSUME task \in [Task -> Request], NEW t \in Task, NEW r \in Request, Goto(t, r)
    PROVE  task' \in [Task -> Request]
  BY DEF Goto

LEMMA TypeStep ==
    ASSUME TypeOK, [Next]_vars
    PROVE  TypeOK'
<1> USE ReadingAssumption
<1> Idle \in Request
  BY DEF Request
<1>1. ASSUME NEW t \in Task, NEW u \in User, NEW kind \in Kinds,
             NEW token \in Token \cup {None}, Ask(t, u, kind, token)
      PROVE  TypeOK'
  <2>1. [at |-> "membership", kind |-> kind, user |-> u, token |-> token,
         now |-> 0, ends |-> 0] \in Request
    BY DEF Request, Steps, Instant, Expiry
  <2>2. task' \in [Task -> Request]
    BY <1>1, <2>1, GotoKeepsType DEF Ask, TypeOK
  <2> QED
    BY <1>1, <2>2 DEF Ask, TypeOK, history
<1>2. ASSUME NEW t \in Task, CheckMembership(t)
      PROVE  TypeOK'
  <2> DEFINE r == task[t]
  <2>1. r \in Request /\ r.at # "idle" /\ r.kind \in Kinds
    BY <1>2, ActiveRequest DEF TypeOK, CheckMembership
  <2>2. FreePath[r.kind] \in Steps
    BY <2>1 DEF FreePath, Kinds, Steps
  <2>3. (IF r.kind = "START" THEN now ELSE 0) \in Instant
    BY DEF TypeOK, Instant
  <2>4. [r EXCEPT !.at = FreePath[r.kind], !.now = IF r.kind = "START" THEN now ELSE 0] \in Request
    BY <2>1, <2>2, <2>3, ActiveRequest
  <2>5. task' \in [Task -> Request]
    BY <1>2, <2>4, GotoKeepsType DEF CheckMembership, TypeOK
  <2> QED
    BY <1>2, <2>5 DEF CheckMembership, TypeOK, history
<1>3. ASSUME NEW t \in Task,
             FindNoAccess(t) \/ ConcurrentAccess(t) \/ ConsumeRewardChallenge(t)
      PROVE  TypeOK'
  <2>1. task[t] \in Request /\ task[t].at # "idle"
    BY <1>3 DEF TypeOK, FindNoAccess, ConcurrentAccess, ConsumeRewardChallenge
  <2>2. \A at \in Steps : [task[t] EXCEPT !.at = at] \in Request
    BY <2>1, ActiveRequest
  <2>3. task' \in [Task -> Request]
    BY <1>3, <2>2, GotoKeepsType
       DEF FindNoAccess, ConcurrentAccess, ConsumeRewardChallenge, TypeOK, Steps
  <2> QED
    BY <1>3, <2>3 DEF FindNoAccess, ConcurrentAccess, ConsumeRewardChallenge, TypeOK, history
<1>4. ASSUME NEW t \in Task, CheckPeriodOver(t)
      PROVE  TypeOK'
  <2>1. task[t] \in Request /\ task[t].at # "idle"
    BY <1>4 DEF TypeOK, CheckPeriodOver
  <2>2. now + ChallengeTTL \in Expiry /\ "issue" \in Steps
    BY DEF TypeOK, Instant, Expiry, Steps
  <2>3. task' \in [Task -> Request]
    BY <1>4, <2>1, <2>2, ActiveRequest, GotoKeepsType DEF CheckPeriodOver, TypeOK
  <2> QED
    BY <1>4, <2>3 DEF CheckPeriodOver, TypeOK, history
<1>5. ASSUME NEW t \in Task, LockAccess(t)
      PROVE  TypeOK'
  <2>1. task[t] \in Request /\ task[t].at # "idle" /\ "consume" \in Steps
    BY <1>5 DEF TypeOK, LockAccess, Steps
  <2>2. task' \in [Task -> Request]
    BY <1>5, <2>1, ActiveRequest, GotoKeepsType DEF LockAccess, TypeOK
  <2> QED
    BY <1>5, <2>2 DEF LockAccess, TypeOK, history
<1>6. ASSUME NEW t \in Task, CreateAccess(t) \/ RedeemRewardedAd(t)
      PROVE  TypeOK'
  <2> DEFINE r == task[t]
             end == r.now + FreePeriod
  <2>1. /\ r \in Request /\ r.at # "idle"
        /\ r.user \in User /\ r.token \in Token \cup {None} /\ r.now \in Instant
    BY <1>6, ActiveRequest DEF TypeOK, CreateAccess, RedeemRewardedAd
  <2>2. end \in Expiry
    BY <2>1 DEF Instant, Expiry
  <2>3. task' \in [Task -> Request]
    BY <1>6, GotoKeepsType DEF CreateAccess, RedeemRewardedAd, TypeOK
  <2>4. access' \in [User -> Expiry \cup {None}]
    BY <1>6, <2>2 DEF CreateAccess, RedeemRewardedAd, TypeOK
  <2>5. granted' \subseteq FreeTime /\ told' \subseteq User \X Expiry
    BY <1>6, <2>1, <2>2 DEF CreateAccess, RedeemRewardedAd, TypeOK, FreeTime, Tell
  <2>6. challenge' \in [User -> Challenge]
    <3>1. CASE CreateAccess(t)
      BY <3>1 DEF CreateAccess, TypeOK
    <3>2. CASE RedeemRewardedAd(t)
      BY <3>2, <2>1 DEF RedeemRewardedAd, TypeOK, Challenge
    <3> QED BY <1>6, <3>1, <3>2
  <2> QED
    BY <1>6, <2>3, <2>4, <2>5, <2>6 DEF CreateAccess, RedeemRewardedAd, TypeOK
<1>7. ASSUME NEW t \in Task, IssueRewardChallenge(t)
      PROVE  TypeOK'
  <2>1. task[t].user \in User /\ task[t].ends \in Expiry
    BY <1>7, ActiveRequest DEF TypeOK, IssueRewardChallenge
  <2>2. task' \in [Task -> Request]
    BY <1>7, GotoKeepsType DEF IssueRewardChallenge, TypeOK
  <2>3. PICK k \in Token :
          /\ owner' = [owner EXCEPT ![k] = task[t].user]
          /\ challenge' = [challenge EXCEPT ![task[t].user] =
                             [token |-> k, ends |-> task[t].ends, consumed |-> FALSE]]
    BY <1>7 DEF IssueRewardChallenge
  <2>4. [token |-> k, ends |-> task[t].ends, consumed |-> FALSE] \in Challenge
    BY <2>1 DEF Challenge
  <2> QED
    BY <1>7, <2>1, <2>2, <2>3, <2>4 DEF IssueRewardChallenge, TypeOK, history
<1>8. ASSUME NEW t \in Task, FindAccess(t)
      PROVE  TypeOK'
  <2>1. task' \in [Task -> Request] /\ task[t].user \in User
    BY <1>8, GotoKeepsType, ActiveRequest DEF FindAccess, TypeOK
  <2>2. told' \subseteq User \X Expiry
    BY <1>8, <2>1 DEF FindAccess, TypeOK, Tell
  <2> QED
    BY <1>8, <2>1, <2>2 DEF FindAccess, TypeOK
<1>9. ASSUME NEW t \in Task, GetReadingPage(t) \/ Fail(t)
      PROVE  TypeOK'
  <2>1. task' \in [Task -> Request] /\ task[t].user \in User
    BY <1>9, GotoKeepsType, ActiveRequest DEF GetReadingPage, Fail, TypeOK
  <2> QED
    BY <1>9, <2>1 DEF GetReadingPage, Fail, TypeOK, history
<1>10. CASE Tick \/ UNCHANGED vars \/ \E u \in User : ChangeMembership(u)
  BY <1>10 DEF Tick, ChangeMembership, TypeOK, vars, history, Instant
<1> QED
  BY <1>1, <1>2, <1>3, <1>4, <1>5, <1>6, <1>7, <1>8, <1>9, <1>10 DEF Next, Step

LEMMA TypeInit == Init => TypeOK
  BY ReadingAssumption
     DEF Init, TypeOK, Instant, Challenge, NoChallenge, Request

\* The types hold in every reachable state.
THEOREM TypeCorrect == Spec => []TypeOK
<1>1. Init => TypeOK
  BY TypeInit
<1>2. TypeOK /\ [Next]_vars => TypeOK'
  BY TypeStep
<1> QED BY <1>1, <1>2, PTL DEF Spec

---------------------------------------------------------------------------
(* Which steps write what.                                                 *)

LEMMA Writers ==
    ASSUME [Next]_vars
    PROVE  \/ UNCHANGED <<access, challenge, owner, granted>>
           \/ \E t \in Task : \/ CreateAccess(t)
                              \/ IssueRewardChallenge(t)
                              \/ RedeemRewardedAd(t)
  BY DEF Next, Step, vars, history, Tick, ChangeMembership, Ask, CheckMembership, FindAccess,
         FindNoAccess, ConcurrentAccess, CheckPeriodOver, LockAccess,
         ConsumeRewardChallenge, GetReadingPage, Fail

LEMMA Answers ==
    ASSUME [Next]_vars
    PROVE  \/ UNCHANGED told
           \/ \E t \in Task : FindAccess(t) \/ CreateAccess(t) \/ RedeemRewardedAd(t)
  BY DEF Next, Step, vars, history, Tick, ChangeMembership, Ask, CheckMembership,
         FindNoAccess, ConcurrentAccess, CheckPeriodOver, LockAccess, IssueRewardChallenge,
         ConsumeRewardChallenge, GetReadingPage, Fail

LEMMA Pages ==
    ASSUME [Next]_vars
    PROVE  UNCHANGED opened \/ \E t \in Task : GetReadingPage(t)
  BY DEF Next, Step, vars, history, Tick, ChangeMembership, Ask, CheckMembership, FindAccess,
         CreateAccess, FindNoAccess, ConcurrentAccess, CheckPeriodOver, LockAccess,
         IssueRewardChallenge, ConsumeRewardChallenge, RedeemRewardedAd, Fail

LEMMA Clock ==
    ASSUME TypeOK, [Next]_vars
    PROVE  UNCHANGED now \/ (now' = now + 1 /\ UNCHANGED granted)
  BY DEF Next, Step, vars, history, Tick, ChangeMembership, Ask, CheckMembership, FindAccess,
         CreateAccess, FindNoAccess, ConcurrentAccess, CheckPeriodOver, LockAccess,
         IssueRewardChallenge, ConsumeRewardChallenge, RedeemRewardedAd, GetReadingPage, Fail

\* A task that redeems is of an account with a period, and holds its token.
LEMMA Requester ==
    ASSUME TypeOK, NEW t \in Task, task[t].at # "idle"
    PROVE  /\ task[t].user \in User /\ task[t].now \in Instant
           /\ task[t].token \in Token \cup {None}
  BY ActiveRequest DEF TypeOK

\* What a new free period is, whichever step gives it.
NewPeriod(t, token) ==
    [user |-> task[t].user, token |-> token, start |-> task[t].now,
     end |-> task[t].now + FreePeriod]

LEMMA FirstPeriod ==
    ASSUME IInv, NEW t \in Task, CreateAccess(t)
    PROVE  /\ granted' = granted \cup {NewPeriod(t, None)}
           /\ \A g \in granted : g.user # task[t].user
           /\ task[t].now \in Instant /\ task[t].now <= now
           /\ UNCHANGED <<now, challenge, owner>>
<1>1. \A g \in granted : access[g.user] # None
  BY DEF IInv, AccessIsLast
<1>2. task[t].now \in Instant /\ task[t].now <= now
  BY Requester DEF IInv, Clocked, CreateAccess
<1> QED
  BY <1>1, <1>2 DEF CreateAccess, NewPeriod

LEMMA NextPeriod ==
    ASSUME IInv, NEW t \in Task, RedeemRewardedAd(t)
    PROVE  LET r == task[t]
           IN  /\ granted' = granted \cup {NewPeriod(t, r.token)}
               /\ \A g \in granted : g.user = r.user => g.end <= r.now
               /\ \E g \in granted : g.user = r.user
               /\ r.token \in Token /\ r.token # None
               /\ challenge[r.user].token = r.token
               /\ owner[r.token] = r.user
               /\ \A g \in granted : g.token # r.token
               /\ r.user \in User /\ r.now \in Instant /\ r.now <= now
               /\ UNCHANGED <<now, owner>>
<1> DEFINE r == task[t]
<1>1. r.user \in User /\ r.now \in Instant /\ r.token \in Token \cup {None}
  BY Requester DEF IInv, RedeemRewardedAd
<1>2. /\ r.token # None
      /\ challenge[r.user].token = r.token
      /\ ~challenge[r.user].consumed
      /\ access[r.user] # None /\ access[r.user] <= r.now
  BY DEF IInv, Redeeming, RedeemsToken, RedeemRewardedAd
<1>3. owner[r.token] = r.user
  BY <1>1, <1>2 DEF IInv, ChallengesOwned
<1>4. \A g \in granted : g.token # r.token
  BY <1>1, <1>2 DEF IInv, ConsumedGivesPeriod
<1>5. \A g \in granted : g.user = r.user => g.end <= r.now
  <2> SUFFICES ASSUME NEW g \in granted, g.user = r.user PROVE g.end <= r.now
    OBVIOUS
  <2>1. g.end <= access[r.user] /\ g.end \in Expiry
    BY DEF IInv, AccessIsLast, TypeOK, FreeTime
  <2>2. access[r.user] \in Expiry
    BY <1>1, <1>2 DEF IInv, TypeOK
  <2> QED BY <1>1, <1>2, <2>1, <2>2, ReadingAssumption DEF Expiry, Instant
<1>6. \E g \in granted : g.user = r.user
  BY <1>1, <1>2 DEF IInv, AccessIsLast
<1>7. r.now <= now
  BY DEF IInv, Clocked
<1> QED
  BY <1>1, <1>2, <1>3, <1>4, <1>5, <1>6, <1>7 DEF RedeemRewardedAd, NewPeriod

---------------------------------------------------------------------------
(* The parts of the invariant.                                             *)

LEMMA DisjointStep ==
    ASSUME IInv, [Next]_vars
    PROVE  PeriodsDisjoint'
<1>1. CASE UNCHANGED granted
  BY <1>1 DEF IInv, PeriodsDisjoint
<1>2. ASSUME NEW t \in Task, CreateAccess(t) PROVE PeriodsDisjoint'
  BY <1>2, FirstPeriod DEF IInv, PeriodsDisjoint, NewPeriod
<1>3. ASSUME NEW t \in Task, RedeemRewardedAd(t) PROVE PeriodsDisjoint'
  BY <1>3, NextPeriod DEF IInv, PeriodsDisjoint, NewPeriod
<1>4. ASSUME NEW t \in Task, IssueRewardChallenge(t) PROVE PeriodsDisjoint'
  BY <1>1, <1>4 DEF IssueRewardChallenge, history
<1> QED
  BY <1>1, <1>2, <1>3, <1>4, Writers

\* A token is issued once.
LEMMA Issued ==
    ASSUME IInv, NEW t \in Task, IssueRewardChallenge(t)
    PROVE  \E k \in Token :
             /\ owner[k] = None
             /\ \A j \in Token : j # k => owner'[j] = owner[j]
             /\ owner'[k] = task[t].user
             /\ task[t].user \in User
             /\ challenge'[task[t].user].token = k
             /\ ~challenge'[task[t].user].consumed
             /\ \A u \in User : u # task[t].user => challenge'[u] = challenge[u]
             /\ UNCHANGED <<now, access, granted>>
<1>1. task[t].user \in User
  BY Requester DEF IInv, IssueRewardChallenge
<1> QED
  BY <1>1 DEF IInv, TypeOK, IssueRewardChallenge, history

LEMMA OnePeriodStep ==
    ASSUME IInv, [Next]_vars
    PROVE  OnePeriodPerChallenge'
<1>1. CASE UNCHANGED <<owner, granted>>
  BY <1>1 DEF IInv, OnePeriodPerChallenge
<1>2. ASSUME NEW t \in Task, CreateAccess(t) PROVE OnePeriodPerChallenge'
  BY <1>2, FirstPeriod DEF IInv, OnePeriodPerChallenge, NewPeriod
<1>3. ASSUME NEW t \in Task, RedeemRewardedAd(t) PROVE OnePeriodPerChallenge'
  BY <1>3, NextPeriod DEF IInv, OnePeriodPerChallenge, NewPeriod
<1>4. ASSUME NEW t \in Task, IssueRewardChallenge(t) PROVE OnePeriodPerChallenge'
  <2>1. PICK k \in Token : /\ owner[k] = None
                           /\ \A j \in Token : j # k => owner'[j] = owner[j]
                           /\ UNCHANGED granted
    BY <1>4, Issued
  <2>2. \A g \in granted : g.user \in User /\ g.token \in Token \cup {None}
    BY DEF IInv, TypeOK, FreeTime
  <2>3. \A g \in granted : g.token # None => g.token # k
    BY <2>1, <2>2, ReadingAssumption DEF IInv, OnePeriodPerChallenge
  <2> QED
    BY <2>1, <2>2, <2>3 DEF IInv, OnePeriodPerChallenge
<1> QED
  BY <1>1, <1>2, <1>3, <1>4, Writers

LEMMA OwnedStep ==
    ASSUME IInv, [Next]_vars
    PROVE  ChallengesOwned'
<1>1. CASE UNCHANGED <<challenge, owner>>
  BY <1>1 DEF IInv, ChallengesOwned
<1>2. ASSUME NEW t \in Task, CreateAccess(t) PROVE ChallengesOwned'
  BY <1>1, <1>2, FirstPeriod
<1>3. ASSUME NEW t \in Task, RedeemRewardedAd(t) PROVE ChallengesOwned'
  <2>1. \A u \in User : challenge'[u].token = challenge[u].token
    BY <1>3 DEF RedeemRewardedAd, IInv, TypeOK, Challenge
  <2> QED
    BY <1>3, <2>1 DEF RedeemRewardedAd, IInv, ChallengesOwned
<1>4. ASSUME NEW t \in Task, IssueRewardChallenge(t) PROVE ChallengesOwned'
  <2>1. PICK k \in Token : /\ owner[k] = None
                           /\ \A j \in Token : j # k => owner'[j] = owner[j]
                           /\ owner'[k] = task[t].user
                           /\ challenge'[task[t].user].token = k
                           /\ \A u \in User : u # task[t].user => challenge'[u] = challenge[u]
    BY <1>4, Issued
  <2> SUFFICES ASSUME NEW u \in User, challenge'[u].token # None
               PROVE  owner'[challenge'[u].token] = u
    BY DEF ChallengesOwned
  <2>2. CASE u = task[t].user
    BY <2>1, <2>2
  <2>3. CASE u # task[t].user
    <3>1. challenge[u].token \in Token /\ owner[challenge[u].token] = u
      BY <2>1, <2>3 DEF IInv, ChallengesOwned, TypeOK, Challenge
    <3> QED
      BY <2>1, <2>3, <3>1, ReadingAssumption
  <2> QED BY <2>2, <2>3
<1> QED
  BY <1>1, <1>2, <1>3, <1>4, Writers

LEMMA ConsumedStep ==
    ASSUME IInv, [Next]_vars
    PROVE  ConsumedGivesPeriod'
<1>1. CASE UNCHANGED <<challenge, granted>>
  BY <1>1 DEF IInv, ConsumedGivesPeriod
<1>2. ASSUME NEW t \in Task, CreateAccess(t) PROVE ConsumedGivesPeriod'
  BY <1>2, FirstPeriod DEF IInv, ConsumedGivesPeriod, NewPeriod
<1>3. ASSUME NEW t \in Task, RedeemRewardedAd(t) PROVE ConsumedGivesPeriod'
  <2> DEFINE r == task[t]
  <2> SUFFICES ASSUME NEW u \in User, challenge'[u].token # None
               PROVE  challenge'[u].consumed <=>
                        \E g \in granted' : g.token = challenge'[u].token
    BY DEF ConsumedGivesPeriod
  <2>1. CASE u = r.user
    <3>1. challenge'[u].consumed /\ challenge'[u].token = r.token
      <4>1. u \in User /\ challenge[u] \in Challenge /\ challenge[u].token = r.token
        BY <1>3, <2>1, NextPeriod DEF IInv, TypeOK
      <4>2. challenge'[u] = [challenge[u] EXCEPT !.consumed = TRUE]
        BY <1>3, <2>1, <4>1 DEF RedeemRewardedAd, IInv, TypeOK
      <4> QED BY <4>1, <4>2 DEF Challenge
    <3>2. NewPeriod(t, r.token) \in granted' /\ NewPeriod(t, r.token).token = r.token
      BY <1>3, NextPeriod DEF NewPeriod
    <3> QED BY <3>1, <3>2
  <2>2. CASE u # r.user
    <3>1. challenge'[u] = challenge[u]
      BY <1>3, <2>2 DEF RedeemRewardedAd, IInv, TypeOK
    <3>2. challenge[u].token # r.token
      BY <1>3, <2>2, <3>1, NextPeriod DEF IInv, ChallengesOwned
    <3>3. (\E g \in granted' : g.token = challenge[u].token)
            <=> \E g \in granted : g.token = challenge[u].token
      BY <1>3, <3>2, NextPeriod DEF NewPeriod
    <3> QED
      BY <3>1, <3>3 DEF IInv, ConsumedGivesPeriod
  <2> QED BY <2>1, <2>2
<1>4. ASSUME NEW t \in Task, IssueRewardChallenge(t) PROVE ConsumedGivesPeriod'
  <2>1. PICK k \in Token : /\ owner[k] = None
                           /\ challenge'[task[t].user].token = k
                           /\ ~challenge'[task[t].user].consumed
                           /\ \A u \in User : u # task[t].user => challenge'[u] = challenge[u]
                           /\ UNCHANGED granted
    BY <1>4, Issued
  <2>2. \A g \in granted : g.token # k
    BY <2>1, ReadingAssumption DEF IInv, OnePeriodPerChallenge, TypeOK, FreeTime
  <2> QED
    BY <2>1, <2>2 DEF IInv, ConsumedGivesPeriod
<1> QED
  BY <1>1, <1>2, <1>3, <1>4, Writers

LEMMA LastStep ==
    ASSUME IInv, [Next]_vars
    PROVE  AccessIsLast'
<1>1. CASE UNCHANGED <<access, granted>>
  <2>1. now' = now \/ now' = now + 1
    BY Clock DEF IInv
  <2>2. now \in Int /\ \A g \in granted : g.start \in Int
    BY ReadingAssumption DEF IInv, TypeOK, FreeTime, Instant
  <2>3. \A g \in granted : g.start <= now'
    BY <2>1, <2>2 DEF IInv, AccessIsLast
  <2> QED
    BY <1>1, <2>3 DEF IInv, AccessIsLast
<1>2. ASSUME NEW t \in Task, CreateAccess(t) PROVE AccessIsLast'
  <2>1. task[t].user \in User /\ task[t].now \in Instant
    BY <1>2, Requester DEF IInv, CreateAccess
  <2>2. access' = [access EXCEPT ![task[t].user] = task[t].now + FreePeriod]
    BY <1>2 DEF CreateAccess
  <2>3. task[t].now + FreePeriod # None
    BY <2>1, ReadingAssumption DEF Instant
  <2>4. /\ NewPeriod(t, None).user = task[t].user
        /\ NewPeriod(t, None).start = task[t].now
        /\ NewPeriod(t, None).end = task[t].now + FreePeriod
    BY DEF NewPeriod
  <2>5. task[t].now + FreePeriod <= task[t].now + FreePeriod
    BY <2>1, ReadingAssumption DEF Instant
  <2> QED
    BY <1>2, <2>1, <2>2, <2>3, <2>4, <2>5, FirstPeriod DEF IInv, TypeOK, FreeTime, AccessIsLast
<1>3. ASSUME NEW t \in Task, RedeemRewardedAd(t) PROVE AccessIsLast'
  <2> DEFINE r == task[t]
             end == r.now + FreePeriod
             new == NewPeriod(t, r.token)
  <2>1. access' = [access EXCEPT ![r.user] = end]
    BY <1>3 DEF RedeemRewardedAd
  <2>2. r.user \in User /\ r.now \in Int /\ end \in Int /\ end # None
    BY <1>3, NextPeriod, ReadingAssumption DEF Instant
  <2>3. new.user = r.user /\ new.start = r.now /\ new.end = end
    BY DEF NewPeriod
  <2>4. \A g \in granted : g.user = r.user => g.end <= end
    BY <1>3, <2>2, NextPeriod, ReadingAssumption DEF IInv, TypeOK, FreeTime, Instant, Expiry
  <2>5. granted' = granted \cup {new} /\ r.now <= now /\ now' = now
    BY <1>3, NextPeriod
  <2> HIDE DEF new, end
  <2>6. end <= end
    BY <2>2
  <2>7. \A g \in granted' : access'[g.user] # None /\ g.end <= access'[g.user]
    BY <2>1, <2>2, <2>3, <2>4, <2>5, <2>6 DEF IInv, TypeOK, FreeTime, AccessIsLast
  <2>8. \A g \in granted' : g.end = g.start + FreePeriod /\ g.start <= now'
    BY <2>3, <2>5 DEF IInv, AccessIsLast, end
  <2>9. \A u \in User : access'[u] # None => \E g \in granted' : g.user = u /\ g.end = access'[u]
    BY <2>1, <2>2, <2>3, <2>5 DEF IInv, TypeOK, AccessIsLast
  <2> QED
    BY <2>7, <2>8, <2>9 DEF AccessIsLast
<1>4. ASSUME NEW t \in Task, IssueRewardChallenge(t) PROVE AccessIsLast'
  BY <1>1, <1>4 DEF IssueRewardChallenge, history
<1> QED
  BY <1>1, <1>2, <1>3, <1>4, Writers

\* A request that goes on without a lock leaves those that redeem alone.
LEMMA RedeemingKept ==
    ASSUME IInv, NEW t \in Task, NEW r, Goto(t, r),
           r.at \notin {"consume", "redeem"},
           UNCHANGED <<access, challenge>>
    PROVE  Redeeming'
<1>1. \A o \in Task : o # t => task'[o] = task[o]
  BY DEF Goto, IInv, TypeOK
<1>2. task'[t] = r
  BY DEF Goto, IInv, TypeOK
<1>3. \A o \in Task : task'[o].at \in {"consume", "redeem"} => task'[o] = task[o]
  BY <1>1, <1>2
<1> QED
  BY <1>3 DEF IInv, Redeeming

LEMMA RedeemingStep ==
    ASSUME IInv, [Next]_vars
    PROVE  Redeeming'
<1> task \in [Task -> Request]
  BY DEF IInv, TypeOK
<1>1. CASE Tick \/ UNCHANGED vars \/ \E u \in User : ChangeMembership(u)
  BY <1>1 DEF Tick, ChangeMembership, vars, IInv, Redeeming
<1>2. ASSUME NEW t \in Task, NEW u \in User, NEW kind \in Kinds,
             NEW token \in Token \cup {None}, Ask(t, u, kind, token)
      PROVE  Redeeming'
  BY <1>2, RedeemingKept DEF Ask
<1>3. ASSUME NEW t \in Task, CheckMembership(t)
      PROVE  Redeeming'
  <2> DEFINE r == task[t]
             new == [r EXCEPT !.at = FreePath[r.kind],
                              !.now = IF r.kind = "START" THEN now ELSE 0]
  <2>1. r \in Request /\ r.at # "idle" /\ r.kind \in Kinds
    BY <1>3, ActiveRequest DEF CheckMembership
  <2>2. FreePath[r.kind] \in {"find", "check", "lock", "authorize"}
    BY <2>1 DEF FreePath, Kinds
  <2>3. new.at = FreePath[r.kind]
    BY <2>1 DEF Request, Idle
  <2> HIDE DEF new
  <2>4. Goto(t, Idle) \/ Goto(t, new)
    BY <1>3 DEF CheckMembership, new
  <2>5. new.at \notin {"consume", "redeem"} /\ Idle.at \notin {"consume", "redeem"}
    BY <2>2, <2>3 DEF Idle
  <2> QED
    BY <1>3, <2>4, <2>5, RedeemingKept DEF CheckMembership
<1>4. ASSUME NEW t \in Task,
             FindAccess(t) \/ GetReadingPage(t) \/ Fail(t)
      PROVE  Redeeming'
  <2>1. Goto(t, Idle) /\ UNCHANGED <<access, challenge>>
    BY <1>4 DEF FindAccess, GetReadingPage, Fail
  <2> QED
    BY <2>1, RedeemingKept DEF Idle
<1>5. ASSUME NEW t \in Task,
             FindNoAccess(t) \/ ConcurrentAccess(t) \/ CheckPeriodOver(t)
      PROVE  Redeeming'
  <2>1. task[t] \in Request
    OBVIOUS
  <2>2. [task[t] EXCEPT !.at = "insert"].at = "insert"
    BY <2>1 DEF Request, Idle
  <2>3. [task[t] EXCEPT !.at = "reread"].at = "reread"
    BY <2>1 DEF Request, Idle
  <2>4. [task[t] EXCEPT !.at = "issue", !.ends = now + ChallengeTTL].at = "issue"
    BY <2>1 DEF Request, Idle
  <2> QED
    BY <1>5, <2>2, <2>3, <2>4, RedeemingKept DEF FindNoAccess, ConcurrentAccess, CheckPeriodOver
<1>6. ASSUME NEW t \in Task, CreateAccess(t)
      PROVE  Redeeming'
  <2>1. /\ task'[t] = Idle
        /\ \A o \in Task : o # t => task'[o] = task[o]
        /\ access[task[t].user] = None
        /\ \A u : u # task[t].user => access'[u] = access[u] \/ u \notin User
        /\ UNCHANGED challenge
    BY <1>6 DEF CreateAccess, Goto, IInv, TypeOK
  <2>2. \A o \in Task : task'[o].at \in {"consume", "redeem"} =>
            /\ task'[o] = task[o]
            /\ access'[task[o].user] = access[task[o].user]
    <3> SUFFICES ASSUME NEW o \in Task, task'[o].at \in {"consume", "redeem"}
                 PROVE  /\ task'[o] = task[o]
                        /\ access'[task[o].user] = access[task[o].user]
      OBVIOUS
    <3>1. task'[o] = task[o]
      BY <2>1 DEF Idle
    <3>2. access[task[o].user] # None /\ task[o].user \in User
      BY <3>1, Requester DEF IInv, Redeeming
    <3> QED
      BY <2>1, <3>1, <3>2
  <2> QED
    BY <2>1, <2>2 DEF IInv, Redeeming
<1>7. ASSUME NEW t \in Task, IssueRewardChallenge(t)
      PROVE  Redeeming'
  <2>1. /\ task'[t] = Idle
        /\ \A o \in Task : o # t => task'[o] = task[o]
        /\ UNCHANGED access
    BY <1>7 DEF IssueRewardChallenge, Goto
  <2>2. \A o \in Task : task'[o].at \in {"consume", "redeem"} => task'[o] = task[o]
    BY <2>1 DEF Idle
  <2>3. \A u \in User : u # task[t].user => challenge'[u] = challenge[u]
    BY <1>7, Issued
  <2>4. \A o \in Task : task'[o].at = "redeem" => challenge'[task[o].user] = challenge[task[o].user]
    BY <1>7, <2>2, <2>3, Requester DEF IInv, IssueRewardChallenge, ChallengeLocked
  <2> QED
    BY <2>1, <2>2, <2>4 DEF IInv, Redeeming
<1>8. ASSUME NEW t \in Task, LockAccess(t)
      PROVE  Redeeming'
  <2> DEFINE r == task[t]
             new == [r EXCEPT !.at = "consume", !.now = now]
  <2>1. new.at = "consume" /\ new.now = now /\ new.user = r.user
    BY DEF Request, Idle
  <2> HIDE DEF new
  <2>2. /\ task'[t] = new
        /\ \A o \in Task : o # t => task'[o] = task[o]
    BY <1>8 DEF LockAccess, Goto, new
  <2>3. /\ UNCHANGED <<access, challenge>>
        /\ access[r.user] # None /\ access[r.user] <= now
        /\ \A o \in Task : task[o].user = r.user => task[o].at \notin {"consume", "redeem"}
    BY <1>8 DEF LockAccess, AccessLocked
  <2> QED
    BY <2>1, <2>2, <2>3 DEF IInv, Redeeming
<1>9. ASSUME NEW t \in Task, ConsumeRewardChallenge(t)
      PROVE  Redeeming'
  <2> DEFINE r == task[t]
             new == [r EXCEPT !.at = "redeem"]
  <2>1. new.at = "redeem" /\ new.now = r.now /\ new.user = r.user /\ new.token = r.token
    BY DEF Request, Idle
  <2> HIDE DEF new
  <2>2. /\ task'[t] = new
        /\ \A o \in Task : o # t => task'[o] = task[o]
        /\ UNCHANGED <<access, challenge>>
        /\ r.at = "consume"
        /\ Redeemable(challenge[r.user], r)
    BY <1>9 DEF ConsumeRewardChallenge, Goto, new
  <2>3. challenge[r.user].token = r.token /\ ~challenge[r.user].consumed
    BY <2>2 DEF Redeemable
  <2> QED
    BY <2>1, <2>2, <2>3 DEF IInv, Redeeming
<1>10. ASSUME NEW t \in Task, RedeemRewardedAd(t)
      PROVE  Redeeming'
  <2> DEFINE r == task[t]
  <2>1. /\ task'[t] = Idle
        /\ \A o \in Task : o # t => task'[o] = task[o]
        /\ \A u \in User : u # r.user => access'[u] = access[u] /\ challenge'[u] = challenge[u]
    BY <1>10 DEF RedeemRewardedAd, Goto, IInv, TypeOK
  <2>2. \A o \in Task : task'[o].at \in {"consume", "redeem"} =>
            /\ task'[o] = task[o]
            /\ task[o].user # r.user /\ task[o].user \in User
    BY <1>10, <2>1, Requester DEF IInv, Redeeming, RedeemRewardedAd, Idle
  <2> QED
    BY <2>1, <2>2 DEF IInv, Redeeming
<1> QED
  BY <1>1, <1>2, <1>3, <1>4, <1>5, <1>6, <1>7, <1>8, <1>9, <1>10 DEF Next, Step

LEMMA TokenStep ==
    ASSUME IInv, [Next]_vars
    PROVE  RedeemsToken'
<1> task \in [Task -> Request]
  BY DEF IInv, TypeOK
<1>1. CASE UNCHANGED task
  BY <1>1 DEF IInv, RedeemsToken
<1>2. ASSUME NEW t \in Task, NEW u \in User, NEW kind \in Kinds,
             NEW token \in Token \cup {None}, Ask(t, u, kind, token)
      PROVE  RedeemsToken'
  <2> DEFINE new == [at |-> "membership", kind |-> kind, user |-> u, token |-> token,
                     now |-> 0, ends |-> 0]
  <2>1. task' = [task EXCEPT ![t] = new] /\ (kind = "REDEEM" => token # None)
    BY <1>2 DEF Ask, Goto
  <2>2. new.at = "membership" /\ new.kind = kind /\ new.token = token
    OBVIOUS
  <2> QED BY <2>1, <2>2 DEF IInv, RedeemsToken
<1>3. ASSUME NEW t \in Task, Goto(t, Idle) PROVE RedeemsToken'
  BY <1>3 DEF Goto, Idle, IInv, RedeemsToken
<1>4. ASSUME NEW t \in Task, NEW r, Goto(t, r),
             task[t].at # "idle",
             r.kind = task[t].kind, r.token = task[t].token,
             r.at \in {"lock", "consume", "redeem"} => r.kind = "REDEEM"
      PROVE  RedeemsToken'
  BY <1>4 DEF Goto, IInv, RedeemsToken
<1>5. ASSUME NEW t \in Task, CheckMembership(t)
      PROVE  RedeemsToken'
  <2> DEFINE r == task[t]
             new == [r EXCEPT !.at = FreePath[r.kind],
                              !.now = IF r.kind = "START" THEN now ELSE 0]
  <2>1. r.at # "idle" /\ r.kind \in Kinds
    BY <1>5, ActiveRequest DEF CheckMembership
  <2>2. new.at = FreePath[r.kind] /\ new.kind = r.kind /\ new.token = r.token
    BY DEF Request, Idle
  <2>3. FreePath[r.kind] \in {"lock", "consume", "redeem"} => r.kind = "REDEEM"
    BY <2>1 DEF FreePath, Kinds
  <2> HIDE DEF new
  <2>4. Goto(t, Idle) \/ Goto(t, new)
    BY <1>5 DEF CheckMembership, new
  <2> QED
    BY <1>3, <1>4, <2>1, <2>2, <2>3, <2>4
<1>6. ASSUME NEW t \in Task,
             \/ FindNoAccess(t) \/ ConcurrentAccess(t) \/ CheckPeriodOver(t)
             \/ LockAccess(t) \/ ConsumeRewardChallenge(t)
      PROVE  RedeemsToken'
  <2> DEFINE r == task[t]
  <2>1. PICK new :
          /\ Goto(t, new)
          /\ new \in {[r EXCEPT !.at = "insert"], [r EXCEPT !.at = "reread"],
                      [r EXCEPT !.at = "issue", !.ends = now + ChallengeTTL]}
             \/ /\ new \in {[r EXCEPT !.at = "consume", !.now = now], [r EXCEPT !.at = "redeem"]}
                /\ r.at \in {"lock", "consume"}
    BY <1>6 DEF FindNoAccess, ConcurrentAccess, CheckPeriodOver, LockAccess,
                ConsumeRewardChallenge
  <2>2. r \in Request /\ r.at # "idle"
    BY <1>6 DEF FindNoAccess, ConcurrentAccess, CheckPeriodOver, LockAccess,
                ConsumeRewardChallenge
  <2>3. new.kind = r.kind /\ new.token = r.token
    BY <2>1, <2>2 DEF Request, Idle
  <2>4. new.at \in {"lock", "consume", "redeem"} => new.kind = "REDEEM"
    BY <2>1, <2>2, <2>3 DEF Request, Idle, IInv, RedeemsToken
  <2> QED BY <1>4, <2>1, <2>2, <2>3, <2>4
<1>7. ASSUME NEW t \in Task,
             \/ FindAccess(t) \/ CreateAccess(t) \/ IssueRewardChallenge(t)
             \/ RedeemRewardedAd(t) \/ GetReadingPage(t) \/ Fail(t)
      PROVE  RedeemsToken'
  BY <1>3, <1>7 DEF FindAccess, CreateAccess, IssueRewardChallenge, RedeemRewardedAd,
                    GetReadingPage, Fail
<1>8. CASE Tick \/ UNCHANGED vars \/ \E u \in User : ChangeMembership(u)
  BY <1>1, <1>8 DEF Tick, ChangeMembership, vars
<1> QED
  BY <1>2, <1>5, <1>6, <1>7, <1>8 DEF Next, Step

\* An access row, once there, stays.
LEMMA AccessStays ==
    ASSUME IInv, [Next]_vars, NEW u \in User, access[u] # None
    PROVE  access'[u] # None
<1>1. ASSUME NEW t \in Task, CreateAccess(t) \/ RedeemRewardedAd(t) PROVE access'[u] # None
  <2>1. task[t].user \in User /\ task[t].now + FreePeriod # None
    BY <1>1, Requester, ReadingAssumption
       DEF IInv, TypeOK, CreateAccess, RedeemRewardedAd, Instant
  <2> QED
    BY <1>1, <2>1 DEF CreateAccess, RedeemRewardedAd, IInv, TypeOK
<1> QED
  BY <1>1, Writers DEF IssueRewardChallenge, history

LEMMA ClockedStep ==
    ASSUME IInv, [Next]_vars
    PROVE  Clocked'
<1> task \in [Task -> Request]
  BY DEF IInv, TypeOK
<1>a. now \in Int /\ now' \in Int /\ now <= now' /\ 0 <= now
  BY Clock, ReadingAssumption DEF IInv, TypeOK, Instant
<1>b. \A o \in Task : task[o].now <= now' /\ (task[o].at = "reread" => access'[task[o].user] # None)
  <2> SUFFICES ASSUME NEW o \in Task
               PROVE  /\ task[o].now <= now'
                      /\ task[o].at = "reread" => access'[task[o].user] # None
    OBVIOUS
  <2>1. task[o].now \in Int /\ task[o].now <= now
    BY ReadingAssumption DEF Request, Idle, Instant, IInv, Clocked
  <2>2. task[o].at = "reread" => access[task[o].user] # None /\ task[o].user \in User
    BY Requester DEF IInv, Clocked
  <2> QED
    BY <1>a, <2>1, <2>2, AccessStays
<1>1. CASE UNCHANGED task
  BY <1>1, <1>b DEF Clocked
<1>2. ASSUME NEW t \in Task, NEW r, Goto(t, r), r.now <= now',
             r.at = "reread" => access'[r.user] # None
      PROVE  Clocked'
  BY <1>2, <1>b DEF Goto, Clocked
<1>3. ASSUME NEW t \in Task, Goto(t, Idle) PROVE Clocked'
  BY <1>2, <1>3, <1>a DEF Idle
<1>4. ASSUME NEW t \in Task, NEW u \in User, NEW kind \in Kinds,
             NEW token \in Token \cup {None}, Ask(t, u, kind, token)
      PROVE  Clocked'
  BY <1>2, <1>4, <1>a DEF Ask
<1>5. ASSUME NEW t \in Task, CheckMembership(t)
      PROVE  Clocked'
  <2> DEFINE r == task[t]
             i == IF r.kind = "START" THEN now ELSE 0
             new == [r EXCEPT !.at = FreePath[r.kind], !.now = i]
  <2>1. r \in Request /\ r.kind \in Kinds /\ i <= now'
    BY <1>5, <1>a, ActiveRequest DEF CheckMembership
  <2>2. new.at = FreePath[r.kind] /\ new.now = i
    BY DEF Request, Idle
  <2>3. FreePath[r.kind] # "reread"
    BY <2>1 DEF FreePath, Kinds
  <2> HIDE DEF new
  <2>4. Goto(t, Idle) \/ Goto(t, new)
    BY <1>5 DEF CheckMembership, new
  <2> QED
    BY <1>2, <1>3, <2>1, <2>2, <2>3, <2>4
<1>6. ASSUME NEW t \in Task,
             \/ FindNoAccess(t) \/ CheckPeriodOver(t) \/ ConsumeRewardChallenge(t)
      PROVE  Clocked'
  <2> DEFINE r == task[t]
  <2>1. PICK new :
          /\ Goto(t, new)
          /\ new \in {[r EXCEPT !.at = "insert"], [r EXCEPT !.at = "redeem"],
                      [r EXCEPT !.at = "issue", !.ends = now + ChallengeTTL]}
    BY <1>6 DEF FindNoAccess, CheckPeriodOver, ConsumeRewardChallenge
  <2>2. /\ [r EXCEPT !.at = "insert"].now = r.now
        /\ [r EXCEPT !.at = "redeem"].now = r.now
        /\ [r EXCEPT !.at = "issue", !.ends = now + ChallengeTTL].now = r.now
    BY DEF Request, Idle
  <2>3. /\ [r EXCEPT !.at = "insert"].at = "insert"
        /\ [r EXCEPT !.at = "redeem"].at = "redeem"
        /\ [r EXCEPT !.at = "issue", !.ends = now + ChallengeTTL].at = "issue"
    BY DEF Request, Idle
  <2>4. new.now = r.now /\ new.at # "reread"
    BY <2>1, <2>2, <2>3
  <2> QED BY <1>2, <1>b, <2>1, <2>4
<1>7. ASSUME NEW t \in Task, LockAccess(t)
      PROVE  Clocked'
  <2> DEFINE new == [task[t] EXCEPT !.at = "consume", !.now = now]
  <2>1. new.now = now /\ new.at = "consume"
    BY DEF Request, Idle
  <2> HIDE DEF new
  <2>2. Goto(t, new)
    BY <1>7 DEF LockAccess, new
  <2> QED BY <1>2, <1>a, <2>1, <2>2
<1>8. ASSUME NEW t \in Task, ConcurrentAccess(t)
      PROVE  Clocked'
  <2> DEFINE new == [task[t] EXCEPT !.at = "reread"]
  <2>1. new.now = task[t].now /\ new.user = task[t].user
    BY DEF Request, Idle
  <2> HIDE DEF new
  <2>2. Goto(t, new) /\ access'[task[t].user] # None
    BY <1>8 DEF ConcurrentAccess, new
  <2> QED BY <1>2, <1>b, <2>1, <2>2
<1>9. ASSUME NEW t \in Task,
             \/ FindAccess(t) \/ CreateAccess(t) \/ IssueRewardChallenge(t)
             \/ RedeemRewardedAd(t) \/ GetReadingPage(t) \/ Fail(t)
      PROVE  Clocked'
  BY <1>3, <1>9 DEF FindAccess, CreateAccess, IssueRewardChallenge, RedeemRewardedAd,
                    GetReadingPage, Fail
<1>10. CASE Tick \/ UNCHANGED vars \/ \E u \in User : ChangeMembership(u)
  BY <1>1, <1>10 DEF Tick, ChangeMembership, vars
<1> QED
  BY <1>4, <1>5, <1>6, <1>7, <1>8, <1>9, <1>10 DEF Next, Step

LEMMA ToldStep ==
    ASSUME IInv, [Next]_vars
    PROVE  ToldIsGranted'
<1>1. granted \subseteq granted'
  BY Writers, FirstPeriod, NextPeriod DEF IssueRewardChallenge, history
<1>2. CASE UNCHANGED told
  BY <1>1, <1>2 DEF IInv, ToldIsGranted
<1>3. ASSUME NEW t \in Task, FindAccess(t) PROVE ToldIsGranted'
  <2>1. task[t].user \in User /\ access[task[t].user] # None
    BY <1>3, Requester DEF IInv, FindAccess
  <2>2. \E g \in granted : g.user = task[t].user /\ g.end = access[task[t].user]
    BY <2>1 DEF IInv, AccessIsLast
  <2>3. told' = told \cup {<<task[t].user, access[task[t].user]>>}
    BY <1>3 DEF FindAccess, Tell
  <2> QED
    BY <1>1, <2>2, <2>3 DEF IInv, ToldIsGranted
<1>4. ASSUME NEW t \in Task, CreateAccess(t) \/ RedeemRewardedAd(t) PROVE ToldIsGranted'
  <2>1. told' = told \cup {<<task[t].user, task[t].now + FreePeriod>>}
    BY <1>4 DEF CreateAccess, RedeemRewardedAd, Tell
  <2>2. \E g \in granted' : g.user = task[t].user /\ g.end = task[t].now + FreePeriod
    <3>1. \E k : NewPeriod(t, k) \in granted'
      BY <1>4, FirstPeriod, NextPeriod
    <3> QED BY <3>1 DEF NewPeriod
  <2> QED
    BY <1>1, <2>1, <2>2 DEF IInv, ToldIsGranted
<1> QED
  BY <1>2, <1>3, <1>4, Answers

LEMMA OpenedStep ==
    ASSUME IInv, [Next]_vars
    PROVE  OpenedInPeriod'
<1>1. granted \subseteq granted'
  BY Writers, FirstPeriod, NextPeriod DEF IssueRewardChallenge, history
<1>2. CASE UNCHANGED opened
  BY <1>1, <1>2 DEF IInv, OpenedInPeriod
<1>3. ASSUME NEW t \in Task, GetReadingPage(t) PROVE OpenedInPeriod'
  <2>1. task[t].user \in User /\ access[task[t].user] # None /\ now < access[task[t].user]
    <3>1. task[t].user \in User /\ access[task[t].user] # None
      BY <1>3, Requester DEF IInv, GetReadingPage
    <3>2. access[task[t].user] \in Int /\ now \in Int
      BY <3>1, ReadingAssumption DEF IInv, TypeOK, Expiry, Instant
    <3> QED BY <1>3, <3>1, <3>2 DEF GetReadingPage
  <2>2. \E g \in granted : /\ g.user = task[t].user /\ g.start <= now
                           /\ now < g.end
    BY <2>1 DEF IInv, AccessIsLast
  <2>3. opened' = opened \cup {<<task[t].user, now>>}
    BY <1>3 DEF GetReadingPage
  <2> QED
    BY <1>1, <2>2, <2>3 DEF IInv, OpenedInPeriod
<1> QED
  BY <1>2, <1>3, Pages

---------------------------------------------------------------------------
LEMMA InvariantInit == Init => IInv
<1> SUFFICES ASSUME Init PROVE IInv
  OBVIOUS
<1>1. TypeOK
  BY TypeInit
<1> QED
  BY <1>1 DEF Init, IInv, Redeeming, RedeemsToken, Clocked, AccessIsLast, ChallengesOwned,
              PeriodsDisjoint, OnePeriodPerChallenge, ConsumedGivesPeriod, ToldIsGranted,
              OpenedInPeriod, Idle, NoChallenge

LEMMA InvariantStep == IInv /\ [Next]_vars => IInv'
<1> SUFFICES ASSUME IInv, [Next]_vars PROVE IInv'
  OBVIOUS
<1>1. TypeOK'
  BY TypeStep DEF IInv
<1> QED
  BY <1>1, RedeemingStep, TokenStep, ClockedStep, LastStep, OwnedStep, DisjointStep,
     OnePeriodStep, ConsumedStep, ToldStep, OpenedStep
     DEF IInv

\* The invariant holds in every reachable state.
THEOREM InvariantHolds == Spec => []IInv
  BY InvariantInit, InvariantStep, PTL DEF Spec

\* The free periods of an account never overlap.
THEOREM PeriodsDisjointHolds == Spec => []PeriodsDisjoint
<1>1. IInv => PeriodsDisjoint
  BY DEF IInv
<1> QED BY <1>1, InvariantHolds, PTL

\* A challenge gives one period, to the account it was issued to.
THEOREM OnePeriodPerChallengeHolds == Spec => []OnePeriodPerChallenge
<1>1. IInv => OnePeriodPerChallenge
  BY DEF IInv
<1> QED BY <1>1, InvariantHolds, PTL

\* A challenge is used up exactly if its period was given.
THEOREM ConsumedGivesPeriodHolds == Spec => []ConsumedGivesPeriod
<1>1. IInv => ConsumedGivesPeriod
  BY DEF IInv
<1> QED BY <1>1, InvariantHolds, PTL

\* Each end of a period a reader was told is that of one given to that reader.
THEOREM ToldIsGrantedHolds == Spec => []ToldIsGranted
<1>1. IInv => ToldIsGranted
  BY DEF IInv
<1> QED BY <1>1, InvariantHolds, PTL

\* A Free account opens a page only in a period it was given.
THEOREM OpenedInPeriodHolds == Spec => []OpenedInPeriod
<1>1. IInv => OpenedInPeriod
  BY DEF IInv
<1> QED BY <1>1, InvariantHolds, PTL

\* A period is given for the last challenge issued to the account only.
THEOREM OnlyLatestChallengeHolds == Spec => OnlyLatestChallenge
<1>1. IInv /\ [Next]_vars =>
        [\A g \in granted' \ granted :
            g.token # None => challenge[g.user].token = g.token]_vars
  <2> SUFFICES ASSUME IInv, [Next]_vars
               PROVE  \A g \in granted' \ granted :
                        g.token # None => challenge[g.user].token = g.token
    OBVIOUS
  <2> QED
    BY Writers, FirstPeriod, NextPeriod DEF NewPeriod, IssueRewardChallenge, history
<1> QED BY <1>1, InvariantHolds, PTL DEF Spec, OnlyLatestChallenge

LEMMA PromiseStep ==
    ASSUME IInv, [Next]_vars
    PROVE  [Promise!Next]_<<now, granted>>
<1> now \in Nat
  BY ReadingAssumption DEF IInv, TypeOK, Instant
<1>1. CASE UNCHANGED granted
  BY <1>1, Clock DEF IInv, Promise!Next, Promise!Tick
<1>2. ASSUME NEW t \in Task, CreateAccess(t) PROVE Promise!Next
  <2>1. task[t].user \in User
    BY <1>2, Requester DEF IInv, CreateAccess
  <2>2. task[t].now \in 0 .. now
    BY <1>2, FirstPeriod, ReadingAssumption DEF Instant
  <2>3. Promise!Grant(task[t].user, None, task[t].now)
    BY <1>2, FirstPeriod DEF Promise!Grant, Promise!Of, NewPeriod
  <2> QED BY <2>1, <2>2, <2>3 DEF Promise!Next
<1>3. ASSUME NEW t \in Task, RedeemRewardedAd(t) PROVE Promise!Next
  <2>1. /\ task[t].user \in User /\ task[t].now \in 0 .. now
        /\ task[t].token \in Token
    BY <1>3, NextPeriod, ReadingAssumption DEF Instant
  <2>2. Promise!Grant(task[t].user, task[t].token, task[t].now)
    BY <1>3, NextPeriod DEF Promise!Grant, Promise!Of, NewPeriod
  <2> QED BY <2>1, <2>2 DEF Promise!Next
<1>4. ASSUME NEW t \in Task, IssueRewardChallenge(t) PROVE UNCHANGED granted
  BY <1>4 DEF IssueRewardChallenge, history
<1> QED
  BY <1>1, <1>2, <1>3, <1>4, Writers

\* The free periods are those FreePeriods promises.
THEOREM PromiseKept == Spec => KeepsPromise
<1>1. Init => Promise!Init
  BY DEF Init, Promise!Init
<1>2. IInv /\ [Next]_vars => [Promise!Next]_<<now, granted>>
  BY PromiseStep
<1> QED
  BY <1>1, <1>2, InvariantHolds, PTL DEF Spec, KeepsPromise, Promise!Spec
=============================================================================
