--------------------------- MODULE ReadingAccess ---------------------------
(***************************************************************************)
(* Who may read: src/reading and src/ads. A Premium account reads; a Free  *)
(* one has a period of FreePeriod from its first reading, and another one  *)
(* for each rewarded ad it watches when the last has ended. The ad is a    *)
(* challenge, one row an account, whose token the browser sends back.      *)
(*                                                                         *)
(* A request is a task, one step for each await. Redeeming a challenge is  *)
(* a transaction that locks the access row, then the challenge row, and    *)
(* commits both writes at once; the other requests hold no locks. Whether  *)
(* an account is Premium is asked once, first of all, and may change at    *)
(* any time. A request may fail at any step; a transaction then rolls back.*)
(***************************************************************************)
EXTENDS Integers, FiniteSets

CONSTANTS
    User,          \* accounts of readers
    Token,         \* what randomBytes may return
    Task,          \* slots for requests in flight
    None,          \* SQL NULL, and an absent row or field
    FreePeriod,    \* READING_FREE_PERIOD_MINUTES
    ChallengeTTL,  \* REWARD_CHALLENGE_TTL_MS
    MaxTime        \* bound of the clock

ASSUME ReadingAssumption ==
    /\ FreePeriod \in Nat \ {0} /\ ChallengeTTL \in Nat \ {0}
    /\ MaxTime \in Nat
    /\ None \notin User \cup Token \cup Int

VARIABLES
    now,        \* the clock
    premium,    \* accounts for which hasPremiumAccess answers true
    access,     \* table reading_accesses: expires_at of each account
    challenge,  \* table ad_reward_challenges: the row of each account
    owner,      \* the account each token was issued to
    task,       \* requests in flight
    granted,    \* history: the free periods given, with the token each cost
    told,       \* history: the ends of free periods answered to readers
    opened      \* history: the instants at which a Free account opened a page

vars == <<now, premium, access, challenge, owner, task, granted, told, opened>>
history == <<granted, told, opened>>

Instant == 0 .. MaxTime
Expiry == 0 .. (MaxTime + FreePeriod + ChallengeTTL)
NoChallenge == [token |-> None, ends |-> None, consumed |-> FALSE]
Challenge == [token : Token \cup {None}, ends : Expiry \cup {None}, consumed : BOOLEAN]
FreeTime == [user : User, token : Token \cup {None}, start : Instant, end : Expiry]

Kinds == {"START", "ASK", "REDEEM", "PAGE"}
Steps == {"membership", "find", "insert", "reread", "check", "issue",
          "lock", "consume", "redeem", "authorize"}
Idle == [at |-> "idle", kind |-> "NONE", user |-> None, token |-> None,
         now |-> 0, ends |-> 0]
Request == {Idle} \cup
    [at : Steps, kind : Kinds, user : User, token : Token \cup {None},
     now : Instant, ends : Expiry]

Init ==
    /\ now = 0
    /\ premium \in SUBSET User
    /\ access = [u \in User |-> None]
    /\ challenge = [u \in User |-> NoChallenge]
    /\ owner = [k \in Token |-> None]
    /\ task = [t \in Task |-> Idle]
    /\ granted = {} /\ told = {} /\ opened = {}

\* A redeeming transaction has locked the account's row of the table.
AccessLocked(u) == \E t \in Task : task[t].user = u /\ task[t].at \in {"consume", "redeem"}
ChallengeLocked(u) == \E t \in Task : task[t].user = u /\ task[t].at = "redeem"

Goto(t, request) == task' = [task EXCEPT ![t] = request]
Tell(u, end) == told' = told \cup {<<u, end>>}

\* A refused precondition, an error, the process stopping.
Fail(t) ==
    /\ task[t].at # "idle"
    /\ Goto(t, Idle)
    /\ UNCHANGED <<now, premium, access, challenge, owner, history>>

---------------------------------------------------------------------------
\* A request of the reader u arrives, for a book that can be read here.
Ask(t, u, kind, token) ==
    /\ task[t].at = "idle"
    /\ (token = None) <=> (kind # "REDEEM")
    /\ Goto(t, [at |-> "membership", kind |-> kind, user |-> u, token |-> token,
                now |-> 0, ends |-> 0])
    /\ UNCHANGED <<now, premium, access, challenge, owner, history>>

\* What is next for a Free account. startReading reads the clock here.
FreePath == [START |-> "find", ASK |-> "check", REDEEM |-> "lock", PAGE |-> "authorize"]

CheckMembership(t) ==
    LET r == task[t]
    IN  /\ r.at = "membership"
        /\ IF r.user \in premium
             THEN r.kind \in {"START", "PAGE"} /\ Goto(t, Idle)
             ELSE Goto(t, [r EXCEPT !.at = FreePath[r.kind],
                                    !.now = IF r.kind = "START" THEN now ELSE 0])
        /\ UNCHANGED <<now, premium, access, challenge, owner, history>>

---------------------------------------------------------------------------
(* startReading of a Free account: its access row, created if it has none. *)

FindAccess(t) ==
    LET r == task[t]
    IN  /\ r.at \in {"find", "reread"}
        /\ access[r.user] # None
        /\ Goto(t, Idle)
        /\ Tell(r.user, access[r.user])
        /\ UNCHANGED <<now, premium, access, challenge, owner, granted, opened>>

FindNoAccess(t) ==
    LET r == task[t]
    IN  /\ r.at = "find"
        /\ access[r.user] = None
        /\ Goto(t, [r EXCEPT !.at = "insert"])
        /\ UNCHANGED <<now, premium, access, challenge, owner, history>>

CreateAccess(t) ==
    LET r == task[t]
        end == r.now + FreePeriod
    IN  /\ r.at = "insert"
        /\ access[r.user] = None
        /\ access' = [access EXCEPT ![r.user] = end]
        /\ granted' = granted \cup
             {[user |-> r.user, token |-> None, start |-> r.now, end |-> end]}
        /\ Goto(t, Idle)
        /\ Tell(r.user, end)
        /\ UNCHANGED <<now, premium, challenge, owner, opened>>

AnswerOwnPeriod(t) ==
    LET r == task[t]
    IN  /\ r.at = "insert"
        /\ access[r.user] # None
        /\ Goto(t, Idle)
        /\ Tell(r.user, r.now + FreePeriod)
        /\ UNCHANGED <<now, premium, access, challenge, owner, granted, opened>>

\* user_id is UNIQUE: another request has created the row.
ConcurrentAccess(t) ==
    LET r == task[t]
    IN  /\ r.at = "insert"
        /\ access[r.user] # None
        /\ Goto(t, [r EXCEPT !.at = "reread"])
        /\ UNCHANGED <<now, premium, access, challenge, owner, history>>

---------------------------------------------------------------------------
(* requestRewardedAd: a challenge replaces the account's previous one.     *)

CheckPeriodOver(t) ==
    LET r == task[t]
    IN  /\ r.at = "check"
        /\ access[r.user] # None
        /\ access[r.user] <= now
        /\ Goto(t, [r EXCEPT !.at = "issue", !.ends = now + ChallengeTTL])
        /\ UNCHANGED <<now, premium, access, challenge, owner, history>>

IssueUnlocked(t) ==
    LET r == task[t]
    IN  /\ r.at = "issue"
        /\ \E k \in Token :
             /\ owner[k] = None
             /\ owner' = [owner EXCEPT ![k] = r.user]
             /\ challenge' = [challenge EXCEPT ![r.user] =
                                [token |-> k, ends |-> r.ends, consumed |-> FALSE]]
        /\ Goto(t, Idle)
        /\ UNCHANGED <<now, premium, access, history>>

IssueRewardChallenge(t) ==
    LET r == task[t]
    IN  /\ r.at = "issue"
        /\ ~ChallengeLocked(r.user)
        /\ \E k \in Token :
             /\ owner[k] = None
             /\ owner' = [owner EXCEPT ![k] = r.user]
             /\ challenge' = [challenge EXCEPT ![r.user] =
                                [token |-> k, ends |-> r.ends, consumed |-> FALSE]]
        /\ Goto(t, Idle)
        /\ UNCHANGED <<now, premium, access, history>>

---------------------------------------------------------------------------
(* redeemRewardedAd: one transaction.                                      *)

LockWhileReading(t) ==
    LET r == task[t]
    IN  /\ r.at = "lock"
        /\ ~AccessLocked(r.user)
        /\ access[r.user] # None
        /\ Goto(t, [r EXCEPT !.at = "consume", !.now = now])
        /\ UNCHANGED <<now, premium, access, challenge, owner, history>>

LockAccess(t) ==
    LET r == task[t]
    IN  /\ r.at = "lock"
        /\ ~AccessLocked(r.user)
        /\ access[r.user] # None
        /\ access[r.user] <= now
        /\ Goto(t, [r EXCEPT !.at = "consume", !.now = now])
        /\ UNCHANGED <<now, premium, access, challenge, owner, history>>

RedeemableAgain(c, r) == c.token = r.token /\ c.ends > r.now

\* What the conditional UPDATE of consumeRewardChallenge matches.  It compares
\* with the time read before it was sent, and may wait for the row after that.
Redeemable(c, r) == c.token = r.token /\ ~c.consumed /\ c.ends > r.now

ConsumeOutsideTransaction(t) ==
    LET r == task[t]
    IN  /\ r.at = "consume"
        /\ ~ChallengeLocked(r.user)
        /\ Redeemable(challenge[r.user], r)
        /\ challenge' = [challenge EXCEPT ![r.user].consumed = TRUE]
        /\ Goto(t, [r EXCEPT !.at = "redeem"])
        /\ UNCHANGED <<now, premium, access, owner, history>>

\* The update locks the row; it shows to others with the commit.
ConsumeRewardChallenge(t) ==
    LET r == task[t]
    IN  /\ r.at = "consume"
        /\ ~ChallengeLocked(r.user)
        /\ Redeemable(challenge[r.user], r)
        /\ Goto(t, [r EXCEPT !.at = "redeem"])
        /\ UNCHANGED <<now, premium, access, challenge, owner, history>>

RedeemRewardedAd(t) ==
    LET r == task[t]
        end == r.now + FreePeriod
    IN  /\ r.at = "redeem"
        /\ challenge' = [challenge EXCEPT ![r.user].consumed = TRUE]
        /\ access' = [access EXCEPT ![r.user] = end]
        /\ granted' = granted \cup
             {[user |-> r.user, token |-> r.token, start |-> r.now, end |-> end]}
        /\ Goto(t, Idle)
        /\ Tell(r.user, end)
        /\ UNCHANGED <<now, premium, owner, opened>>

---------------------------------------------------------------------------
(* getReadingPage: the page is fetched once it has been authorized.        *)

OpenAnyPage(t) ==
    LET r == task[t]
    IN  /\ r.at = "authorize"
        /\ access[r.user] # None
        /\ opened' = opened \cup {<<r.user, now>>}
        /\ Goto(t, Idle)
        /\ UNCHANGED <<now, premium, access, challenge, owner, granted, told>>

GetReadingPage(t) ==
    LET r == task[t]
    IN  /\ r.at = "authorize"
        /\ access[r.user] # None
        /\ access[r.user] > now
        /\ opened' = opened \cup {<<r.user, now>>}
        /\ Goto(t, Idle)
        /\ UNCHANGED <<now, premium, access, challenge, owner, granted, told>>

---------------------------------------------------------------------------
\* A subscription begins or ends.
ChangeMembership(u) ==
    /\ premium' \in {premium \cup {u}, premium \ {u}}
    /\ UNCHANGED <<now, access, challenge, owner, task, history>>

Tick ==
    /\ now < MaxTime
    /\ now' = now + 1
    /\ UNCHANGED <<premium, access, challenge, owner, task, history>>

Step(t) ==
    \/ \E u \in User, kind \in Kinds, token \in Token \cup {None} : Ask(t, u, kind, token)
    \/ CheckMembership(t)
    \/ FindAccess(t) \/ FindNoAccess(t) \/ CreateAccess(t) \/ ConcurrentAccess(t)
    \/ CheckPeriodOver(t) \/ IssueRewardChallenge(t)
    \/ LockAccess(t) \/ ConsumeRewardChallenge(t) \/ RedeemRewardedAd(t)
    \/ GetReadingPage(t)
    \/ Fail(t)

Next == Tick \/ (\E u \in User : ChangeMembership(u)) \/ \E t \in Task : Step(t)

Spec == Init /\ [][Next]_vars

---------------------------------------------------------------------------
(* Correctness.                                                            *)

\* Every variable keeps its type.
TypeOK ==
    /\ now \in Instant
    /\ premium \in SUBSET User
    /\ access \in [User -> Expiry \cup {None}]
    /\ challenge \in [User -> Challenge]
    /\ owner \in [Token -> User \cup {None}]
    /\ task \in [Task -> Request]
    /\ granted \subseteq FreeTime
    /\ told \subseteq User \X Expiry
    /\ opened \subseteq User \X Instant

\* The free periods of an account never overlap: none is given while another
\* runs, however first readings and redemptions interleave.
PeriodsDisjoint ==
    \A g, h \in granted : g.user = h.user /\ g # h => g.end <= h.start \/ h.end <= g.start

\* A challenge gives one period, to the account it was issued to, and an
\* account gets a single period without one.
OnePeriodPerChallenge ==
    /\ \A g, h \in granted : g.user = h.user /\ g.token = h.token => g = h
    /\ \A g \in granted : g.token # None => owner[g.token] = g.user

\* A challenge is used up exactly if its period was given: a redemption that
\* fails half way costs the reader nothing.
ConsumedGivesPeriod ==
    \A u \in User : challenge[u].token # None =>
        (challenge[u].consumed <=> \E g \in granted : g.token = challenge[u].token)

\* Each end of a free period a reader was told is that of a period given to
\* that reader, also when two first readings race.
ToldIsGranted ==
    \A u \in User, end \in Expiry : <<u, end>> \in told =>
        \E g \in granted : g.user = u /\ g.end = end

\* A Free account opens a page only in a period it was given.
OpenedInPeriod ==
    \A u \in User, i \in Instant : <<u, i>> \in opened =>
        \E g \in granted : g.user = u /\ g.start <= i /\ i < g.end

\* A period is given for the last challenge issued to the account only, also
\* when another one is issued in the middle of the redemption.
OnlyLatestChallenge ==
    [][\A g \in granted' \ granted : g.token # None => challenge[g.user].token = g.token]_vars
=============================================================================
