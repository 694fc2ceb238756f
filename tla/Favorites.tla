----------------------------- MODULE Favorites -----------------------------
(***************************************************************************)
(* src/favorites: the books a reader keeps, at most as many as the plan of *)
(* the account allows. The plan is asked of the subscriptions before the   *)
(* transaction of an addition, which locks the user row, counts and        *)
(* inserts. A favorite from before books had a content format, whose book  *)
(* is hidden since, stays but is not counted; an import may show the book. *)
(*                                                                         *)
(* An addition is a task with a step for each await that matters; it may   *)
(* be refused or fail at any step. A removal is one DELETE, without locks  *)
(* before it. Reading progress is one UPDATE of the row and left out.      *)
(***************************************************************************)
EXTENDS Integers, FiniteSets

CONSTANTS
    User, Book, Task,
    None,          \* no user, no book
    FreeLimit,     \* FREE_FAVORITES_LIMIT
    PremiumLimit   \* PREMIUM_FAVORITES_LIMIT

ASSUME FavoritesAssumption ==
    /\ FreeLimit \in Nat /\ PremiumLimit \in Nat /\ FreeLimit <= PremiumLimit
    /\ None \notin User \cup Book
    /\ IsFiniteSet(Book)

VARIABLES
    premium,     \* accounts for which hasPremiumAccess answers true
    readable,    \* books that pass andWhereBookIsReadable
    favorites,   \* table favorites: the books of each account
    task,        \* additions in flight
    wasPremium,  \* history: accounts that were Premium at some time
    early        \* history: the favorites that were hidden at first, while kept

vars == <<premium, readable, favorites, task, wasPremium, early>>

Idle == [at |-> "idle", user |-> None, book |-> None, limit |-> 0]
Addition == {Idle} \cup
    [at : {"quota", "lock", "insert"}, user : User, book : Book,
     limit : {0, FreeLimit, PremiumLimit}]

Init ==
    /\ premium \in SUBSET User
    /\ readable \in SUBSET Book
    /\ favorites \in [User -> SUBSET (Book \ readable)]
    /\ task = [t \in Task |-> Idle]
    /\ wasPremium = premium
    /\ early = favorites

\* A transaction holds the account's row of the table users.
UserLocked(u) == \E t \in Task : task[t].user = u /\ task[t].at = "insert"

Goto(t, addition) == task' = [task EXCEPT ![t] = addition]

Fail(t) ==
    /\ task[t].at # "idle"
    /\ Goto(t, Idle)
    /\ UNCHANGED <<premium, readable, favorites, wasPremium, early>>

---------------------------------------------------------------------------
\* POST /favorites, and POST /favorites/external once the book is imported.
Ask(t, u, b) ==
    /\ task[t].at = "idle"
    /\ Goto(t, [at |-> "quota", user |-> u, book |-> b, limit |-> 0])
    /\ UNCHANGED <<premium, readable, favorites, wasPremium, early>>

Quota(u) == IF u \in premium THEN PremiumLimit ELSE FreeLimit

ResolveQuota(t) ==
    LET a == task[t]
    IN  /\ a.at = "quota"
        /\ Goto(t, [at |-> "lock", user |-> a.user, book |-> a.book, limit |-> Quota(a.user)])
        /\ UNCHANGED <<premium, readable, favorites, wasPremium, early>>

Visible(u) == favorites[u] \cap readable

CheckUnlocked(t) ==
    LET a == task[t]
    IN  /\ a.at = "lock"
        /\ a.book \in readable \ favorites[a.user]
        /\ Cardinality(Visible(a.user)) < a.limit
        /\ Goto(t, [at |-> "insert", user |-> a.user, book |-> a.book, limit |-> a.limit])
        /\ UNCHANGED <<premium, readable, favorites, wasPremium, early>>

CheckAtMost(t) ==
    LET a == task[t]
    IN  /\ a.at = "lock"
        /\ ~UserLocked(a.user)
        /\ a.book \in readable \ favorites[a.user]
        /\ Cardinality(Visible(a.user)) <= a.limit
        /\ Goto(t, [at |-> "insert", user |-> a.user, book |-> a.book, limit |-> a.limit])
        /\ UNCHANGED <<premium, readable, favorites, wasPremium, early>>

\* The user row is locked first, so the snapshot of the queries that follow
\* has every addition of the account that has committed.
CheckLimit(t) ==
    LET a == task[t]
    IN  /\ a.at = "lock"
        /\ ~UserLocked(a.user)
        /\ a.book \in readable \ favorites[a.user]
        /\ Cardinality(Visible(a.user)) < a.limit
        /\ Goto(t, [at |-> "insert", user |-> a.user, book |-> a.book, limit |-> a.limit])
        /\ UNCHANGED <<premium, readable, favorites, wasPremium, early>>

\* The insert, under UQ_favorites_user_book, and the commit.
AddFavorite(t) ==
    LET a == task[t]
    IN  /\ a.at = "insert"
        /\ a.book \notin favorites[a.user]
        /\ favorites' = [favorites EXCEPT ![a.user] = @ \cup {a.book}]
        /\ Goto(t, Idle)
        /\ UNCHANGED <<premium, readable, wasPremium, early>>

RemoveFavorite(u, b) ==
    /\ b \in favorites[u]
    /\ favorites' = [favorites EXCEPT ![u] = @ \ {b}]
    /\ early' = [early EXCEPT ![u] = @ \ {b}]
    /\ UNCHANGED <<premium, readable, task, wasPremium>>

---------------------------------------------------------------------------
\* An import of the book stores content that can be read here; it stores no
\* other.
ShowBook(b) ==
    /\ readable' = readable \cup {b}
    /\ UNCHANGED <<premium, favorites, task, wasPremium, early>>

\* A subscription begins or ends.
ChangeMembership(u) ==
    /\ premium' \in {premium \cup {u}, premium \ {u}}
    /\ wasPremium' = wasPremium \cup premium'
    /\ UNCHANGED <<readable, favorites, task, early>>

Next ==
    \/ \E t \in Task :
         \/ \E u \in User, b \in Book : Ask(t, u, b)
         \/ ResolveQuota(t) \/ CheckLimit(t) \/ AddFavorite(t) \/ Fail(t)
    \/ \E u \in User, b \in Book : RemoveFavorite(u, b)
    \/ \E b \in Book : ShowBook(b)
    \/ \E u \in User : ChangeMembership(u)

Spec == Init /\ [][Next]_vars

---------------------------------------------------------------------------
(* Correctness.                                                            *)

\* Every variable keeps its type.
TypeOK ==
    /\ premium \in SUBSET User
    /\ readable \in SUBSET Book
    /\ favorites \in [User -> SUBSET Book]
    /\ task \in [Task -> Addition]
    /\ wasPremium \in SUBSET User
    /\ early \in [User -> SUBSET Book]

\* The favorites of the account that were added to be read here.
Added(u) == favorites[u] \ early[u]

\* However many additions run at once, an account has no more favorites than
\* the best plan it ever had allows, not counting those that were hidden at
\* first and so took no place.
WithinBestLimit ==
    \A u \in User : Cardinality(Added(u)) <=
                      IF u \in wasPremium THEN PremiumLimit ELSE FreeLimit

\* An account with as many favorites as the free plan allows gets no further
\* one unless one of its additions asked for the plan while it was Premium.
FullShelfStays ==
    [][\A u \in User :
         /\ Cardinality(Added(u)) >= FreeLimit
         /\ \A t \in Task : task[t].user = u => task[t].limit <= FreeLimit
         => favorites'[u] \subseteq favorites[u]]_vars

\* README.md: an account whose subscription has ended keeps its favorites but
\* cannot add any until it is below the free limit. The code compares with the
\* plan as it was before the user row was locked, so an addition that waited
\* for the lock while the subscription ended passes.
NoAdditionAfterDowngrade ==
    [][\A t \in Task :
         task[t].at = "lock" /\ task'[t].at = "insert" /\ task[t].user \notin premium
         => Cardinality(Visible(task[t].user)) < FreeLimit]_vars
=============================================================================
