---------------------------- MODULE AccountContract ----------------------------
(***************************************************************************)
(* What the password of an account promises, with no requests in flight:   *)
(* each recovery, reset, change and save is one step on the account and    *)
(* its links as they are. An account has one link, a link sets one         *)
(* password, a recovery ends the link before it, nobody sets the password  *)
(* of a disabled account - and whatever administrators save, the password  *)
(* that works is one that the account was given.                           *)
(***************************************************************************)
CONSTANTS User, Password, Token

VARIABLES
    users,  \* status and password of each account
    links,  \* those that exist
    drawn,  \* tokens of all links there ever were
    held    \* the passwords each account was given

Link(u, k, used) == [user |-> u, token |-> k, used |-> used]

Init ==
    /\ users \in [User -> [status : {"ACTIVE"}, password : Password]]
    /\ links = {}
    /\ drawn = {}
    /\ held = [u \in User |-> {users[u].password}]

SetPassword(u, p) ==
    /\ users[u].status = "ACTIVE"
    /\ users' = [users EXCEPT ![u].password = p]
    /\ held' = [held EXCEPT ![u] = @ \cup {p}]

\* Expired links are not told apart here.
Recover(u, k) ==
    /\ k \notin drawn
    /\ drawn' = drawn \cup {k}
    /\ links' = {l \in links : l.user # u} \cup {Link(u, k, FALSE)}
    /\ UNCHANGED <<users, held>>

Reset(u, k, p) ==
    /\ Link(u, k, FALSE) \in links
    /\ links' = (links \ {Link(u, k, FALSE)}) \cup {Link(u, k, TRUE)}
    /\ SetPassword(u, p)
    /\ UNCHANGED drawn

Change(u, p) ==
    /\ SetPassword(u, p)
    /\ UNCHANGED <<links, drawn>>

Administer(u) ==
    /\ \E status \in {"ACTIVE", "INACTIVE"}, p \in held[u] :
         users' = [users EXCEPT ![u] = [status |-> status, password |-> p]]
    /\ UNCHANGED <<links, drawn, held>>

Next ==
    \E u \in User :
       \/ \E k \in Token : Recover(u, k) \/ \E p \in Password : Reset(u, k, p)
       \/ \E p \in Password : Change(u, p)
       \/ Administer(u)

Spec == Init /\ [][Next]_<<users, links, drawn, held>>
=============================================================================
