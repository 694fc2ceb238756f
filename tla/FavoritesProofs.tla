-------------------------- MODULE FavoritesProofs --------------------------
(***************************************************************************)
(* Favorites keeps its types, its invariant and the limits of the plans,   *)
(* for every number of accounts, books, requests and every pair of limits. *)
(***************************************************************************)
EXTENDS FavoritesInvariant, FiniteSetTheorems, TLAPS

---------------------------------------------------------------------------
(* Types.                                                                  *)

LEMMA ActiveAddition ==
    ASSUME NEW a \in Addition, a.at # "idle"
    PROVE  a.user \in User /\ a.book \in Book /\ a.limit \in {0, FreeLimit, PremiumLimit}
  BY DEF Addition, Idle

LEMMA GotoKeepsType ==
    ASSUME task \in [Task -> Addition], NEW t \in Task, NEW a \in Addition, Goto(t, a)
    PROVE  task' \in [Task -> Addition]
  BY DEF Goto

LEMMA TypeStep ==
    ASSUME TypeOK, [Next]_vars
    PROVE  TypeOK'
<1> Idle \in Addition
  BY DEF Addition
<1>1. ASSUME NEW t \in Task, NEW u \in User, NEW b \in Book, Ask(t, u, b)
      PROVE  TypeOK'
  <2>1. [at |-> "quota", user |-> u, book |-> b, limit |-> 0] \in Addition
    BY DEF Addition
  <2> QED
    BY <1>1, <2>1, GotoKeepsType DEF Ask, TypeOK
<1>2. ASSUME NEW t \in Task, ResolveQuota(t)
      PROVE  TypeOK'
  <2>1. task[t].user \in User /\ task[t].book \in Book
    BY <1>2, ActiveAddition DEF TypeOK, ResolveQuota
  <2>2. [at |-> "lock", user |-> task[t].user, book |-> task[t].book,
         limit |-> Quota(task[t].user)] \in Addition
    BY <2>1 DEF Addition, Quota
  <2> QED
    BY <1>2, <2>2, GotoKeepsType DEF ResolveQuota, TypeOK
<1>3. ASSUME NEW t \in Task, CheckLimit(t)
      PROVE  TypeOK'
  <2>1. /\ task[t].user \in User /\ task[t].book \in Book
        /\ task[t].limit \in {0, FreeLimit, PremiumLimit}
    BY <1>3, ActiveAddition DEF TypeOK, CheckLimit
  <2>2. [at |-> "insert", user |-> task[t].user, book |-> task[t].book,
         limit |-> task[t].limit] \in Addition
    BY <2>1 DEF Addition
  <2> QED
    BY <1>3, <2>2, GotoKeepsType DEF CheckLimit, TypeOK
<1>4. ASSUME NEW t \in Task, AddFavorite(t)
      PROVE  TypeOK'
  <2>1. task[t].user \in User /\ task[t].book \in Book
    BY <1>4, ActiveAddition DEF TypeOK, AddFavorite
  <2>2. favorites' \in [User -> SUBSET Book]
    BY <1>4, <2>1 DEF AddFavorite, TypeOK
  <2> QED
    BY <1>4, <2>2, GotoKeepsType DEF AddFavorite, TypeOK
<1>5. ASSUME NEW t \in Task, Fail(t)
      PROVE  TypeOK'
  BY <1>5, GotoKeepsType DEF Fail, TypeOK
<1>6. ASSUME NEW u \in User, NEW b \in Book, RemoveFavorite(u, b)
      PROVE  TypeOK'
  BY <1>6 DEF RemoveFavorite, TypeOK
<1>7. ASSUME NEW b \in Book, ShowBook(b)
      PROVE  TypeOK'
  BY <1>7 DEF ShowBook, TypeOK
<1>8. ASSUME NEW u \in User, ChangeMembership(u)
      PROVE  TypeOK'
  BY <1>8 DEF ChangeMembership, TypeOK
<1>9. ASSUME UNCHANGED vars
      PROVE  TypeOK'
  BY <1>9 DEF vars, TypeOK
<1> QED
  BY <1>1, <1>2, <1>3, <1>4, <1>5, <1>6, <1>7, <1>8, <1>9 DEF Next

LEMMA TypeInit == ASSUME Init PROVE TypeOK
<1>1. Idle \in Addition
  BY DEF Addition
<1> QED
  BY <1>1 DEF Init, TypeOK

\* Every variable of Favorites keeps its type.
THEOREM TypeCorrect == Spec => []TypeOK
  BY TypeInit, TypeStep, PTL DEF Spec

---------------------------------------------------------------------------
(* Counting.                                                               *)

LEMMA ShelfIsFinite ==
    ASSUME TypeOK, NEW u \in User
    PROVE  /\ IsFiniteSet(favorites[u]) /\ IsFiniteSet(Added(u)) /\ IsFiniteSet(Visible(u))
           /\ Cardinality(Added(u)) \in Nat /\ Cardinality(Visible(u)) \in Nat
<1>1. favorites[u] \in SUBSET Book /\ Added(u) \in SUBSET Book /\ Visible(u) \in SUBSET Book
  BY DEF TypeOK, Added, Visible
<1> QED
  BY <1>1, FavoritesAssumption, FS_Subset, FS_CardinalityType

LEMMA ShelfIsFiniteNext ==
    ASSUME TypeOK', NEW u \in User
    PROVE  IsFiniteSet(Added(u)') /\ Cardinality(Added(u)') \in Nat
<1>1. Added(u)' \in SUBSET Book
  BY DEF TypeOK, Added
<1> QED
  BY <1>1, FavoritesAssumption, FS_Subset, FS_CardinalityType

\* Nothing is counted again: a shelf that loses favorites is no longer.
LEMMA ShelfShrinks ==
    ASSUME TypeOK, TypeOK', NEW u \in User, Added(u)' \subseteq Added(u)
    PROVE  Cardinality(Added(u)') <= Cardinality(Added(u))
<1>1. IsFiniteSet(Added(u))
  BY ShelfIsFinite
<1> QED
  BY <1>1, FS_Subset

\* What counts for the invariant counts for the code.
LEMMA AddedIsVisible ==
    ASSUME TypeOK, AddedIsReadable, NEW u \in User
    PROVE  Cardinality(Added(u)) <= Cardinality(Visible(u))
<1>1. Added(u) \in SUBSET Visible(u)
  BY DEF AddedIsReadable, Added, Visible
<1> QED
  BY <1>1, ShelfIsFinite, FS_Subset

\* An insert makes a shelf longer by one at most.
LEMMA ShelfGrowsByOne ==
    ASSUME TypeOK, TypeOK', NEW t \in Task, AddFavorite(t), NEW u \in User
    PROVE  /\ u # task[t].user => Added(u)' = Added(u)
           /\ Cardinality(Added(u)') <= Cardinality(Added(u)) + 1
<1> DEFINE longer == Added(u) \cup {task[t].book}
<1>1. task[t].user \in User
  BY ActiveAddition DEF TypeOK, AddFavorite
<1>2. /\ u # task[t].user => Added(u)' = Added(u)
      /\ Added(u)' \in SUBSET longer
  BY <1>1 DEF AddFavorite, Added, TypeOK
<1>3. IsFiniteSet(Added(u)) /\ Cardinality(Added(u)) \in Nat
  BY ShelfIsFinite
<1>4. /\ IsFiniteSet(longer)
      /\ Cardinality(longer) = IF task[t].book \in Added(u) THEN Cardinality(Added(u))
                                                             ELSE Cardinality(Added(u)) + 1
  BY <1>3, FS_AddElement
<1>5. Cardinality(Added(u)') <= Cardinality(longer)
  BY <1>2, <1>4, FS_Subset
<1>6. Cardinality(Added(u)') \in Nat
  BY ShelfIsFiniteNext
<1> HIDE DEF longer
<1> QED
  BY <1>2, <1>3, <1>4, <1>5, <1>6

---------------------------------------------------------------------------
(* The invariant.                                                          *)

LEMMA InvInit == ASSUME Init PROVE IInv
<1>1. TypeOK
  BY TypeInit
<1>2. \A u \in User : Added(u) = {}
  BY DEF Init, Added
<1>3. WithinBestLimit
  BY <1>2, FS_EmptySet, FavoritesAssumption DEF WithinBestLimit
<1>4. LimitOfPlan /\ RoomForOne /\ AddedIsReadable
  BY <1>2, FavoritesAssumption DEF Init, Idle, LimitOfPlan, RoomForOne, AddedIsReadable
<1> QED
  BY <1>1, <1>3, <1>4 DEF IInv

LEMMA RoomAfter ==
    ASSUME TypeOK',
           ASSUME NEW o \in Task, NEW v \in User, task'[o].at = "insert", task'[o].user = v
           PROVE  /\ \A p \in Task : task'[p].at = "insert" /\ task'[p].user = v => p = o
                  /\ Cardinality(Added(v)') < task'[o].limit
    PROVE  RoomForOne'
<1> SUFFICES ASSUME NEW o \in Task, task'[o].at = "insert"
             PROVE  /\ \A p \in Task : task'[p].at = "insert" /\ task'[p].user = task'[o].user
                                           => p = o
                    /\ Cardinality(Added(task[o].user))' < task'[o].limit
  BY DEF RoomForOne
<1>1. PICK v \in User : v = task'[o].user
  BY ActiveAddition DEF TypeOK
<1>2. /\ \A p \in Task : task'[p].at = "insert" /\ task'[p].user = v => p = o
      /\ Cardinality(Added(v)') < task'[o].limit
  BY <1>1
<1> QED
  BY <1>1, <1>2 DEF Added

\* A step of a task that leaves the tables alone and does not begin to insert.
LEMMA QuietStep ==
    ASSUME IInv, TypeOK', NEW t \in Task, NEW a \in Addition, Goto(t, a),
           a.at # "insert", a.limit > FreeLimit => a.user \in wasPremium,
           UNCHANGED <<premium, readable, favorites, wasPremium, early>>
    PROVE  IInv'
<1>1. /\ task'[t] = a
      /\ \A o \in Task : o # t => task'[o] = task[o]
  BY DEF Goto, IInv, TypeOK
<1>2. \A u \in User : Added(u)' = Added(u)
  BY DEF Added
<1>3. LimitOfPlan'
  BY <1>1 DEF IInv, LimitOfPlan
<1>4. RoomForOne'
  <2> SUFFICES ASSUME NEW o \in Task, NEW v \in User, task'[o].at = "insert", task'[o].user = v
               PROVE  /\ \A p \in Task : task'[p].at = "insert" /\ task'[p].user = v => p = o
                      /\ Cardinality(Added(v)') < task'[o].limit
    BY RoomAfter
  <2>1. o # t /\ task'[o] = task[o]
    BY <1>1
  <2>2. \A p \in Task : task'[p].at = "insert" => p # t /\ task'[p] = task[p]
    BY <1>1
  <2> QED
    BY <1>2, <2>1, <2>2 DEF IInv, RoomForOne
<1>5. AddedIsReadable'
  BY <1>1, <1>2 DEF IInv, AddedIsReadable
<1>6. WithinBestLimit'
  BY <1>2 DEF IInv, WithinBestLimit
<1> QED
  BY <1>3, <1>4, <1>5, <1>6 DEF IInv

\* A step of nobody's task after which no shelf is longer and no plan worse.
LEMMA OutsideStep ==
    ASSUME IInv, TypeOK', task' = task, premium' \subseteq wasPremium',
           wasPremium \subseteq wasPremium',
           AddedIsReadable', \A u \in User : Added(u)' \subseteq Added(u)
    PROVE  IInv'
<1> USE FavoritesAssumption
<1>1. \A u \in User : /\ Cardinality(Added(u)') <= Cardinality(Added(u))
                      /\ Cardinality(Added(u)) \in Nat /\ Cardinality(Added(u)') \in Nat
  BY ShelfShrinks, ShelfIsFinite, ShelfIsFiniteNext DEF IInv
<1>2. LimitOfPlan'
  BY DEF IInv, LimitOfPlan
<1>3. RoomForOne'
  <2> SUFFICES ASSUME NEW t \in Task, NEW v \in User, task[t].at = "insert", task[t].user = v
               PROVE  /\ \A p \in Task : task[p].at = "insert" /\ task[p].user = v => p = t
                      /\ Cardinality(Added(v)') < task[t].limit
    BY RoomAfter
  <2>1. task[t].limit \in Nat
    BY ActiveAddition DEF IInv, TypeOK
  <2> QED
    BY <1>1, <2>1 DEF IInv, RoomForOne
<1>4. WithinBestLimit'
  <2> SUFFICES ASSUME NEW u \in User
               PROVE  Cardinality(Added(u)') <=
                        IF u \in wasPremium' THEN PremiumLimit ELSE FreeLimit
    BY DEF WithinBestLimit
  <2>1. Cardinality(Added(u)) <= IF u \in wasPremium THEN PremiumLimit ELSE FreeLimit
    BY DEF IInv, WithinBestLimit
  <2> QED
    BY <1>1, <2>1
<1> QED
  BY <1>2, <1>3, <1>4 DEF IInv

LEMMA CheckStep ==
    ASSUME IInv, TypeOK', NEW t \in Task, CheckLimit(t)
    PROVE  IInv'
<1>0. PICK u \in User : u = task[t].user
  BY ActiveAddition DEF IInv, TypeOK, CheckLimit
<1>1. task[t].book \in Book /\ task[t].limit \in Nat
  BY ActiveAddition, FavoritesAssumption DEF IInv, TypeOK, CheckLimit
<1>2. /\ task'[t] = [at |-> "insert", user |-> u, book |-> task[t].book,
                     limit |-> task[t].limit]
      /\ \A o \in Task : o # t => task'[o] = task[o]
  BY <1>0 DEF CheckLimit, Goto, IInv, TypeOK
<1>3. \A v \in User : Added(v)' = Added(v)
  BY DEF CheckLimit, Added
<1>4. Cardinality(Added(u)) < task[t].limit
  BY <1>0, <1>1, AddedIsVisible, ShelfIsFinite DEF IInv, CheckLimit
<1>5. \A o \in Task : task[o].at = "insert" => task[o].user # u
  BY <1>0 DEF CheckLimit, UserLocked
<1>6. LimitOfPlan'
  BY <1>0, <1>2 DEF IInv, LimitOfPlan, CheckLimit
<1>7. RoomForOne'
  <2> SUFFICES ASSUME NEW o \in Task, NEW v \in User, task'[o].at = "insert", task'[o].user = v
               PROVE  /\ \A p \in Task : task'[p].at = "insert" /\ task'[p].user = v => p = o
                      /\ Cardinality(Added(v)') < task'[o].limit
    BY RoomAfter
  <2>1. CASE o = t
    <3>1. task'[o].user = u /\ task'[o].limit = task[t].limit
      BY <1>2, <2>1
    <3>2. \A p \in Task : task'[p].at = "insert" /\ task'[p].user = u => p = t
      BY <1>2, <1>5
    <3> QED
      BY <1>1, <1>3, <1>4, <2>1, <3>1, <3>2
  <2>2. CASE o # t
    <3>1. task'[o] = task[o] /\ task[o].at = "insert" /\ task[o].user # u
      BY <1>2, <1>5, <2>2
    <3>2. \A p \in Task : task'[p].at = "insert" /\ task'[p].user = v => p = o
      BY <1>2, <3>1 DEF IInv, RoomForOne
    <3> QED
      BY <1>3, <3>1, <3>2 DEF IInv, RoomForOne
  <2> QED
    BY <2>1, <2>2
<1>8. AddedIsReadable'
  <2>1. task[t].book \in readable
    BY DEF CheckLimit
  <2> QED
    BY <1>2, <1>3, <2>1 DEF IInv, AddedIsReadable, CheckLimit
<1>9. WithinBestLimit'
  BY <1>3 DEF IInv, WithinBestLimit, CheckLimit
<1> QED
  BY <1>6, <1>7, <1>8, <1>9 DEF IInv

LEMMA AddStep ==
    ASSUME IInv, TypeOK', NEW t \in Task, AddFavorite(t)
    PROVE  IInv'
<1> USE FavoritesAssumption
<1>0. PICK u \in User : u = task[t].user
  BY ActiveAddition DEF IInv, TypeOK, AddFavorite
<1>1. task[t].book \in Book /\ task[t].limit \in Nat
  BY ActiveAddition DEF IInv, TypeOK, AddFavorite
<1>2. task'[t] = Idle /\ \A o \in Task : o # t => task'[o] = task[o]
  BY DEF AddFavorite, Goto, IInv, TypeOK
<1>3. LimitOfPlan'
  BY <1>2 DEF IInv, LimitOfPlan, AddFavorite, Idle
<1>4. RoomForOne'
  <2> SUFFICES ASSUME NEW o \in Task, NEW v \in User, task'[o].at = "insert", task'[o].user = v
               PROVE  /\ \A p \in Task : task'[p].at = "insert" /\ task'[p].user = v => p = o
                      /\ Cardinality(Added(v)') < task'[o].limit
    BY RoomAfter
  <2>1. o # t /\ task'[o] = task[o]
    BY <1>2 DEF Idle
  <2>2. \A p \in Task : task'[p].at = "insert" => task'[p] = task[p]
    BY <1>2 DEF Idle
  <2>3. v # u
    BY <1>0, <2>1 DEF IInv, RoomForOne, AddFavorite
  <2>4. Added(v)' = Added(v)
    BY <1>0, <2>3, ShelfGrowsByOne DEF IInv
  <2> QED
    BY <2>1, <2>2, <2>4 DEF IInv, RoomForOne
<1>5. AddedIsReadable'
  <2>1. task[t].book \in readable
    BY DEF IInv, AddedIsReadable, AddFavorite
  <2>2. \A v \in User : Added(v)' \subseteq readable
    BY <1>0, <1>1, <2>1 DEF IInv, TypeOK, AddedIsReadable, Added, AddFavorite
  <2> QED
    BY <1>2, <2>2 DEF IInv, AddedIsReadable, AddFavorite, Idle
<1>6. WithinBestLimit'
  <2> SUFFICES ASSUME NEW v \in User
               PROVE  Cardinality(Added(v)') <=
                        IF v \in wasPremium THEN PremiumLimit ELSE FreeLimit
    BY DEF WithinBestLimit, AddFavorite
  <2>1. CASE v # u
    BY <1>0, <2>1, ShelfGrowsByOne DEF IInv, WithinBestLimit
  <2>2. CASE v = u
    <3>1. Cardinality(Added(u)) < task[t].limit
      BY <1>0 DEF IInv, RoomForOne, AddFavorite
    <3>2. /\ Cardinality(Added(u)') <= Cardinality(Added(u)) + 1
          /\ Cardinality(Added(u)) \in Nat /\ Cardinality(Added(u)') \in Nat
      BY ShelfGrowsByOne, ShelfIsFinite, ShelfIsFiniteNext DEF IInv
    <3>3. /\ task[t].limit > FreeLimit => u \in wasPremium
          /\ task[t].limit <= PremiumLimit
      BY <1>0, ActiveAddition DEF IInv, TypeOK, LimitOfPlan, AddFavorite
    <3> QED
      BY <1>1, <2>2, <3>1, <3>2, <3>3
  <2> QED
    BY <2>1, <2>2
<1> QED
  BY <1>3, <1>4, <1>5, <1>6 DEF IInv

LEMMA InvStep ==
    ASSUME IInv, [Next]_vars
    PROVE  IInv'
<1> USE FavoritesAssumption
<1>0. TypeOK /\ TypeOK' /\ AddedIsReadable
  BY TypeStep DEF IInv
<1>1. ASSUME NEW t \in Task, NEW u \in User, NEW b \in Book, Ask(t, u, b)
      PROVE  IInv'
  <2> DEFINE a == [at |-> "quota", user |-> u, book |-> b, limit |-> 0]
  <2>1. a \in Addition /\ a.at # "insert" /\ ~(a.limit > FreeLimit) /\ Goto(t, a)
    BY <1>1 DEF Addition, Ask
  <2>2. UNCHANGED <<premium, readable, favorites, wasPremium, early>>
    BY <1>1 DEF Ask
  <2> HIDE DEF a
  <2> QED
    BY <1>0, <2>1, <2>2, QuietStep
<1>2. ASSUME NEW t \in Task, ResolveQuota(t)
      PROVE  IInv'
  <2>1. task[t].user \in User /\ task[t].book \in Book
    BY <1>0, <1>2, ActiveAddition DEF TypeOK, ResolveQuota
  <2> DEFINE a == [at |-> "lock", user |-> task[t].user, book |-> task[t].book,
                   limit |-> Quota(task[t].user)]
  <2>2. a \in Addition /\ a.at # "insert" /\ Goto(t, a)
    BY <1>2, <2>1 DEF Addition, Quota, ResolveQuota
  <2>3. a.limit > FreeLimit => a.user \in wasPremium
    BY DEF Quota, IInv, LimitOfPlan
  <2>4. UNCHANGED <<premium, readable, favorites, wasPremium, early>>
    BY <1>2 DEF ResolveQuota
  <2> HIDE DEF a
  <2> QED
    BY <1>0, <2>2, <2>3, <2>4, QuietStep
<1>3. ASSUME NEW t \in Task, CheckLimit(t)
      PROVE  IInv'
  BY <1>0, <1>3, CheckStep
<1>4. ASSUME NEW t \in Task, AddFavorite(t)
      PROVE  IInv'
  BY <1>0, <1>4, AddStep
<1>5. ASSUME NEW t \in Task, Fail(t)
      PROVE  IInv'
  <2>1. Idle \in Addition /\ Idle.at # "insert" /\ ~(Idle.limit > FreeLimit)
    BY DEF Addition, Idle
  <2> QED
    BY <1>0, <1>5, <2>1, QuietStep DEF Fail
<1>6. ASSUME NEW u \in User, NEW b \in Book, RemoveFavorite(u, b)
      PROVE  IInv'
  <2>1. \A v \in User : Added(v)' \subseteq Added(v)
    BY <1>0, <1>6 DEF RemoveFavorite, TypeOK, Added
  <2>2. AddedIsReadable'
    BY <1>0, <1>6, <2>1 DEF RemoveFavorite, AddedIsReadable
  <2> QED
    BY <1>0, <1>6, <2>1, <2>2, OutsideStep DEF RemoveFavorite, IInv, LimitOfPlan
<1>7. ASSUME NEW b \in Book, ShowBook(b)
      PROVE  IInv'
  <2>1. /\ favorites' = favorites /\ early' = early /\ task' = task
        /\ readable \subseteq readable'
        /\ wasPremium' = wasPremium /\ premium' = premium
    BY <1>7 DEF ShowBook
  <2>2. \A v \in User : Added(v)' \subseteq Added(v)
    BY <2>1 DEF Added
  <2>3. \A v \in User : Added(v)' \subseteq readable'
    BY <1>0, <2>1, <2>2 DEF AddedIsReadable, Added
  <2>4. AddedIsReadable'
    BY <1>0, <2>1, <2>3 DEF AddedIsReadable
  <2> QED
    BY <1>0, <2>1, <2>2, <2>4, OutsideStep DEF IInv, LimitOfPlan
<1>8. ASSUME NEW u \in User, ChangeMembership(u)
      PROVE  IInv'
  <2>1. \A v \in User : Added(v)' = Added(v)
    BY <1>8 DEF ChangeMembership, Added
  <2>2. AddedIsReadable'
    BY <1>0, <1>8, <2>1 DEF ChangeMembership, AddedIsReadable
  <2> QED
    BY <1>0, <1>8, <2>1, <2>2, OutsideStep DEF ChangeMembership, IInv, LimitOfPlan
<1>9. ASSUME UNCHANGED vars
      PROVE  IInv'
  <2>1. \A v \in User : Added(v)' = Added(v)
    BY <1>9 DEF vars, Added
  <2>2. AddedIsReadable'
    BY <1>0, <1>9, <2>1 DEF vars, AddedIsReadable
  <2> QED
    BY <1>0, <1>9, <2>1, <2>2, OutsideStep DEF vars, IInv, LimitOfPlan
<1> QED
  BY <1>1, <1>2, <1>3, <1>4, <1>5, <1>6, <1>7, <1>8, <1>9 DEF Next

\* The inductive invariant of Favorites holds in every reachable state.
THEOREM InvariantHolds == Spec => []IInv
  BY InvInit, InvStep, PTL DEF Spec

---------------------------------------------------------------------------
(* The limits.                                                             *)

\* Additions that race never bring an account over the best plan it had.
THEOREM WithinBestLimitHolds == Spec => []WithinBestLimit
<1>1. IInv => WithinBestLimit
  BY DEF IInv
<1> QED
  BY <1>1, InvariantHolds, PTL

LEMMA FullShelfStep ==
    ASSUME IInv, [Next]_vars, NEW u \in User, Cardinality(Added(u)) >= FreeLimit,
           \A t \in Task : task[t].user = u => task[t].limit <= FreeLimit
    PROVE  favorites'[u] \subseteq favorites[u]
<1>1. ASSUME NEW t \in Task, AddFavorite(t)
      PROVE  favorites'[u] \subseteq favorites[u]
  <2>1. task[t].user \in User /\ task[t].limit \in Nat
    BY <1>1, ActiveAddition, FavoritesAssumption DEF IInv, TypeOK, AddFavorite
  <2>2. Cardinality(Added(task[t].user)) < task[t].limit
    BY <1>1 DEF IInv, RoomForOne, AddFavorite
  <2>3. task[t].user # u
    BY <2>1, <2>2, ShelfIsFinite, FavoritesAssumption DEF IInv
  <2> QED
    BY <1>1, <2>3 DEF AddFavorite, IInv, TypeOK
<1>2. ASSUME NEW v \in User, NEW b \in Book, RemoveFavorite(v, b)
      PROVE  favorites'[u] \subseteq favorites[u]
  BY <1>2 DEF RemoveFavorite, IInv, TypeOK
<1>3. ASSUME favorites' = favorites
      PROVE  favorites'[u] \subseteq favorites[u]
  BY <1>3
<1> QED
  BY <1>1, <1>2, <1>3 DEF Next, vars, Ask, ResolveQuota, CheckLimit, Fail,
     ShowBook, ChangeMembership

\* No step adds to a full shelf for an addition that went by the free plan.
THEOREM FullShelfStaysHolds == Spec => FullShelfStays
<1>1. IInv /\ [Next]_vars =>
        [\A u \in User :
           /\ Cardinality(Added(u)) >= FreeLimit
           /\ \A t \in Task : task[t].user = u => task[t].limit <= FreeLimit
           => favorites'[u] \subseteq favorites[u]]_vars
  BY FullShelfStep
<1> QED
  BY <1>1, InvariantHolds, PTL DEF Spec, FullShelfStays
=============================================================================
