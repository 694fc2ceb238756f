----------------------- MODULE ReadingAccessInvariant -----------------------
(***************************************************************************)
(* Why ReadingAccess is correct: what holds between the steps of requests, *)
(* and the free periods it gives as those FreePeriods promises.            *)
(***************************************************************************)
EXTENDS ReadingAccess

\* A redeeming transaction is alone on its account's access row, whose period
\* was over when it read the clock; once it has updated the challenge, it is
\* the challenge of its token, not used yet.
Redeeming ==
    /\ \A t, o \in Task : /\ task[t].at \in {"consume", "redeem"}
                          /\ task[o].at \in {"consume", "redeem"}
                          /\ task[t].user = task[o].user
                          => t = o
    /\ \A t \in Task :
         LET r == task[t]
         IN  /\ r.at \in {"consume", "redeem"} =>
                  access[r.user] # None /\ access[r.user] <= r.now
             /\ r.at = "redeem" =>
                  /\ challenge[r.user].token = r.token
                  /\ ~challenge[r.user].consumed

\* Only a redemption comes to the access lock, and it brings a token.
RedeemsToken ==
    \A t \in Task : /\ task[t].at \in {"lock", "consume", "redeem"} => task[t].kind = "REDEEM"
                    /\ task[t].kind = "REDEEM" => task[t].token # None

\* No request has read the clock in the future, and one that rereads the
\* access row finds it.
Clocked == \A t \in Task : /\ task[t].now <= now
                           /\ task[t].at = "reread" => access[task[t].user] # None

\* The access row holds the end of the last period.
AccessIsLast ==
    /\ \A g \in granted : access[g.user] # None /\ g.end <= access[g.user]
    /\ \A g \in granted : g.end = g.start + FreePeriod /\ g.start <= now
    /\ \A u \in User : access[u] # None => \E g \in granted : g.user = u /\ g.end = access[u]

ChallengesOwned ==
    \A u \in User : challenge[u].token # None => owner[challenge[u].token] = u

IInv == /\ TypeOK
        /\ Redeeming /\ RedeemsToken /\ Clocked /\ AccessIsLast /\ ChallengesOwned
        /\ PeriodsDisjoint /\ OnePeriodPerChallenge /\ ConsumedGivesPeriod
        /\ ToldIsGranted /\ OpenedInPeriod

---------------------------------------------------------------------------
Promise == INSTANCE FreePeriods

\* The free periods are given as promised, each in one step.
KeepsPromise == Promise!Spec
=============================================================================
