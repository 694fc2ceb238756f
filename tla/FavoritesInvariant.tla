------------------------ MODULE FavoritesInvariant ------------------------
(***************************************************************************)
(* Why Favorites keeps the limits: what holds between the steps of an      *)
(* addition, while it has the lock of its account.                         *)
(***************************************************************************)
EXTENDS Favorites

\* The limit of an addition is that of a plan the account has had.
LimitOfPlan ==
    /\ premium \subseteq wasPremium
    /\ \A t \in Task : task[t].limit > FreeLimit => task[t].user \in wasPremium

\* One transaction at a time holds an account, and until it inserts, the
\* account has room for one more.
RoomForOne ==
    \A t \in Task : task[t].at = "insert" =>
        /\ \A o \in Task : task[o].at = "insert" /\ task[o].user = task[t].user => o = t
        /\ Cardinality(Added(task[t].user)) < task[t].limit

\* Only a favorite that was hidden at first can be hidden.
AddedIsReadable ==
    /\ \A u \in User : Added(u) \subseteq readable
    /\ \A t \in Task : task[t].at = "insert" => task[t].book \in readable

IInv == TypeOK /\ LimitOfPlan /\ RoomForOne /\ AddedIsReadable /\ WithinBestLimit
=============================================================================
