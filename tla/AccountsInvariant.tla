------------------------ MODULE AccountsInvariant -------------------------
(***************************************************************************)
(* Why Accounts keeps one token an account and uses it once: what holds    *)
(* between the steps of the transactions, while they have their locks. And *)
(* what accounts and links are for AccountContract.                        *)
(***************************************************************************)
EXTENDS Accounts

\* The row of a token is that of the account it was issued to last.
OnlyLastExists ==
    \A k \in Token :
        /\ tokens[k] # None => /\ issued[k] = tokens[k].user
                               /\ last[tokens[k].user] = k
        /\ issued[k] = None => resets[k] = 0

\* A reset in its transaction.
Holding(t) == task[t].at \in {"update", "use"}

\* It has read an unused token, as it still is, and which no other reset holds.
ResetHolds ==
    \A t \in Task : Holding(t) =>
        /\ tokens[task[t].token] = [user |-> task[t].user, ends |-> task[t].ends, used |-> FALSE]
        /\ \A o \in Task : Holding(o) /\ task[o].token = task[t].token => o = t

\* A recovery about to insert holds all the tokens of its account; none of
\* them is held by a reset.
RecoveryHolds ==
    \A t \in Task : task[t].at = "insert" =>
        /\ task[t].found = TokensOf(task[t].user)
        /\ \A o \in Task : Holding(o) => task[o].token \notin task[t].found

\* The account whose row a reset has updated cannot be disabled before the
\* commit.
ActiveUntilCommit ==
    \A t \in Task : task[t].at = "use" => users[task[t].user].status = "ACTIVE"

\* The password of an account, and the one a save may write back, was once
\* given to it.
HeldPasswords ==
    /\ \A u \in User : users[u].password \in held[u]
    /\ \A t \in Task : task[t].at \in {"save", "write"} =>
                        task[t].entity.password \in held[task[t].user]

IInv ==
    /\ TypeOK
    /\ OnlyLastExists /\ UsedSetsPassword
    /\ ResetHolds /\ RecoveryHolds /\ ActiveUntilCommit
    /\ HeldPasswords

---------------------------------------------------------------------------
\* The links there are.
Links == {[user |-> tokens[k].user, token |-> k, used |-> tokens[k].used] :
            k \in {k \in Token : tokens[k] # None}}
Drawn == {k \in Token : issued[k] # None}
Contract == INSTANCE AccountContract WITH links <- Links, drawn <- Drawn

\* However recoveries, resets, changes and saves interleave and wherever they
\* fail, accounts and links change as if each were one step.
KeepsContract == Contract!Spec
=============================================================================
