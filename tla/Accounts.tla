------------------------------ MODULE Accounts ------------------------------
(***************************************************************************)
(* The writers of an account's password and status: the recovery and the   *)
(* change of a password (src/auth) and the administration of accounts      *)
(* (src/users).                                                            *)
(*                                                                         *)
(* A request is a task, one step for each await that reads or writes. The  *)
(* transactions of a recovery and of a reset hold InnoDB's locks to their  *)
(* commit, at which their writes show. The other writers are statements of *)
(* their own: an UPDATE of the password, or the save of an entity read     *)
(* before, which reads the row again and writes the columns that differ.   *)
(* A request may be refused or fail at any step; a transaction rolls back. *)
(***************************************************************************)
EXTENDS Integers, FiniteSets

CONSTANTS
    User, Password, Task,
    Token,      \* what randomBytes may return
    None,       \* an absent row or field
    TokenTTL,   \* PASSWORD_RESET_TOKEN_TTL_MINUTES
    MaxTime     \* bound of the clock

Expiry == 0 .. MaxTime + TokenTTL
ResetToken == [user : User, ends : Expiry, used : BOOLEAN]

ASSUME AccountsAssumption ==
    /\ TokenTTL \in Nat \ {0} /\ MaxTime \in Nat
    /\ None \notin User \cup Token \cup ResetToken

VARIABLES
    now,     \* the clock
    users,   \* table users: status and password_hash of each account
    tokens,  \* table password_reset_tokens: the row of each token
    task,    \* requests in flight
    issued,  \* history: the account each token was issued to
    last,    \* history: the token issued last to each account
    resets,  \* history: the number of passwords set with each token
    held     \* history: the passwords each account was given

vars == <<now, users, tokens, task, issued, last, resets, held>>
history == <<issued, last, resets, held>>

Row == [status : {"ACTIVE", "INACTIVE"}, password : Password]
Columns == {"status", "password"}

Idle == [at |-> "idle"]
Forgetting == [at : {"delete"}, user : User, ends : Expiry]
Replacing == [at : {"insert"}, user : User, ends : Expiry, found : SUBSET Token]
Asking == [at : {"lock"}, token : Token, password : Password]
Resetting == [at : {"update", "use"}, user : User, ends : Expiry,
              token : Token, password : Password]
Changing == [at : {"change"}, user : User, password : Password]
Editing == [at : {"save"}, user : User, entity : Row]
Saving == [at : {"write"}, user : User, entity : Row, columns : SUBSET Columns]
Request == {Idle} \cup Forgetting \cup Replacing \cup Asking \cup Resetting
             \cup Changing \cup Editing \cup Saving

Init ==
    /\ now = 0
    /\ users \in [User -> [status : {"ACTIVE"}, password : Password]]
    /\ tokens = [k \in Token |-> None]
    /\ task = [t \in Task |-> Idle]
    /\ issued = [k \in Token |-> None]
    /\ last = [u \in User |-> None]
    /\ resets = [k \in Token |-> 0]
    /\ held = [u \in User |-> {users[u].password}]

Goto(t, request) == task' = [task EXCEPT ![t] = request]

TokensOf(u) == {k \in Token : tokens[k] # None /\ tokens[k].user = u}

\* A transaction has locked the row of the token, to use it or to delete it.
TokenLocked(k) ==
    \E t \in Task : \/ task[t].at \in {"update", "use"} /\ task[t].token = k
                    \/ task[t].at = "insert" /\ k \in task[t].found

\* A reset has updated the account and not committed.
UserLocked(u) == \E t \in Task : task[t].at = "use" /\ task[t].user = u

Fail(t) ==
    /\ task[t].at # "idle"
    /\ Goto(t, Idle)
    /\ UNCHANGED <<now, users, tokens, history>>

---------------------------------------------------------------------------
(* forgotPassword: one transaction deletes the account's tokens and        *)
(* inserts another. The mail that follows changes no state.                *)

ForgotPassword(t, u) ==
    /\ task[t].at = "idle"
    /\ users[u].status = "ACTIVE"
    /\ Goto(t, [at |-> "delete", user |-> u, ends |-> now + TokenTTL])
    /\ UNCHANGED <<now, users, tokens, history>>

DeleteWithoutWaiting(t) ==
    LET r == task[t]
    IN  /\ r.at = "delete"
        /\ Goto(t, [at |-> "insert", user |-> r.user, ends |-> r.ends, found |-> TokensOf(r.user)])
        /\ UNCHANGED <<now, users, tokens, history>>

DeleteUnused(t) ==
    LET r == task[t]
    IN  /\ r.at = "delete"
        /\ \A k \in TokensOf(r.user) : ~TokenLocked(k)
        /\ Goto(t, [at |-> "insert", user |-> r.user, ends |-> r.ends,
                    found |-> {k \in TokensOf(r.user) : ~tokens[k].used}])
        /\ UNCHANGED <<now, users, tokens, history>>

\* DELETE locks the rows it finds, and the gap where the account's are.
DeleteTokens(t) ==
    LET r == task[t]
    IN  /\ r.at = "delete"
        /\ \A k \in TokensOf(r.user) : ~TokenLocked(k)
        /\ Goto(t, [at |-> "insert", user |-> r.user, ends |-> r.ends, found |-> TokensOf(r.user)])
        /\ UNCHANGED <<now, users, tokens, history>>

NeverGapLocked(t) == FALSE

\* Two that found no row to delete both hold the gap: the insert of each waits
\* for the other until InnoDB rolls one of them back (Fail).
GapLocked(t) ==
    \E o \in Task \ {t} : task[o].at = "insert" /\ task[o].user = task[t].user

InsertToken(t) ==
    LET r == task[t]
    IN  /\ r.at = "insert"
        /\ ~GapLocked(t)
        /\ \E k \in Token :
             /\ issued[k] = None
             /\ issued' = [issued EXCEPT ![k] = r.user]
             /\ last' = [last EXCEPT ![r.user] = k]
             /\ tokens' = [o \in Token |->
                             IF o = k THEN [user |-> r.user, ends |-> r.ends, used |-> FALSE]
                             ELSE IF o \in r.found THEN None ELSE tokens[o]]
        /\ Goto(t, Idle)
        /\ UNCHANGED <<now, users, resets, held>>

---------------------------------------------------------------------------
(* resetPassword: one transaction locks the token, sets the password of    *)
(* its account, if active, and marks the token used.                       *)

ResetPassword(t, k, p) ==
    /\ task[t].at = "idle"
    /\ issued[k] # None
    /\ Goto(t, [at |-> "lock", token |-> k, password |-> p])
    /\ UNCHANGED <<now, users, tokens, history>>

Usable(k) == tokens[k] # None /\ ~tokens[k].used /\ tokens[k].ends > now

FindToken(t) ==
    LET r == task[t]
    IN  /\ r.at = "lock"
        /\ Usable(r.token)
        /\ Goto(t, [at |-> "update", user |-> tokens[r.token].user, ends |-> tokens[r.token].ends,
                    token |-> r.token, password |-> r.password])
        /\ UNCHANGED <<now, users, tokens, history>>

LockToken(t) ==
    LET r == task[t]
    IN  /\ r.at = "lock"
        /\ ~TokenLocked(r.token)
        /\ Usable(r.token)
        /\ Goto(t, [at |-> "update", user |-> tokens[r.token].user, ends |-> tokens[r.token].ends,
                    token |-> r.token, password |-> r.password])
        /\ UNCHANGED <<now, users, tokens, history>>

UpdatableAnyway(u) == TRUE

\* The rows that updatePassword matches.
Updatable(u) == users[u].status = "ACTIVE"

UpdatePassword(t) ==
    LET r == task[t]
    IN  /\ r.at = "update"
        /\ ~UserLocked(r.user)
        /\ Updatable(r.user)
        /\ Goto(t, [at |-> "use", user |-> r.user, ends |-> r.ends,
                    token |-> r.token, password |-> r.password])
        /\ UNCHANGED <<now, users, tokens, history>>

UseToken(t) ==
    LET r == task[t]
    IN  /\ r.at = "use"
        /\ users' = [users EXCEPT ![r.user].password = r.password]
        /\ tokens' = [tokens EXCEPT ![r.token] = [user |-> r.user, ends |-> r.ends, used |-> TRUE]]
        /\ resets' = [resets EXCEPT ![r.token] = @ + 1]
        /\ held' = [held EXCEPT ![r.user] = @ \cup {r.password}]
        /\ Goto(t, Idle)
        /\ UNCHANGED <<now, issued, last>>

---------------------------------------------------------------------------
(* changePassword: the current one is verified, then the new one written.  *)

ChangePassword(t, u, p) ==
    /\ task[t].at = "idle"
    /\ users[u].status = "ACTIVE"
    /\ users[u].password # p
    /\ Goto(t, [at |-> "change", user |-> u, password |-> p])
    /\ UNCHANGED <<now, users, tokens, history>>

WritePassword(t) ==
    LET r == task[t]
    IN  /\ r.at = "change"
        /\ ~UserLocked(r.user)
        /\ Updatable(r.user)
        /\ users' = [users EXCEPT ![r.user].password = r.password]
        /\ held' = [held EXCEPT ![r.user] = @ \cup {r.password}]
        /\ Goto(t, Idle)
        /\ UNCHANGED <<now, tokens, issued, last, resets>>

---------------------------------------------------------------------------
(* update, disableUser, enableUser: the entity is read, changed and saved. *)

\* What the request changes in the entity; the columns of the profile are not
\* modelled.
Edited(kind, row) ==
    CASE kind = "UPDATE"  -> row
      [] kind = "DISABLE" -> [row EXCEPT !.status = "INACTIVE"]
      [] kind = "ENABLE"  -> [row EXCEPT !.status = "ACTIVE"]

EditUser(t, u, kind) ==
    /\ task[t].at = "idle"
    /\ kind = "DISABLE" => users[u].status = "ACTIVE"
    /\ kind = "ENABLE" => users[u].status = "INACTIVE"
    /\ Goto(t, [at |-> "save", user |-> u, entity |-> Edited(kind, users[u])])
    /\ UNCHANGED <<now, users, tokens, history>>

\* save() reads the row and compares it with the entity.
CompareUser(t) ==
    LET r == task[t]
    IN  /\ r.at = "save"
        /\ Goto(t, [at |-> "write", user |-> r.user, entity |-> r.entity,
                    columns |-> {c \in Columns : r.entity[c] # users[r.user][c]}])
        /\ UNCHANGED <<now, users, tokens, history>>

SaveUser(t) ==
    LET r == task[t]
    IN  /\ r.at = "write"
        /\ ~UserLocked(r.user)
        /\ users' = [users EXCEPT ![r.user] =
                       [status |-> IF "status" \in r.columns THEN r.entity.status ELSE @.status,
                        password |-> IF "password" \in r.columns THEN r.entity.password ELSE @.password]]
        /\ Goto(t, Idle)
        /\ UNCHANGED <<now, tokens, history>>

---------------------------------------------------------------------------
Tick ==
    /\ now < MaxTime
    /\ now' = now + 1
    /\ UNCHANGED <<users, tokens, task, history>>

Step(t) ==
    \/ \E u \in User : ForgotPassword(t, u)
    \/ DeleteTokens(t) \/ InsertToken(t)
    \/ \E k \in Token, p \in Password : ResetPassword(t, k, p)
    \/ LockToken(t) \/ UpdatePassword(t) \/ UseToken(t)
    \/ \E u \in User, p \in Password : ChangePassword(t, u, p)
    \/ WritePassword(t)
    \/ \E u \in User, kind \in {"UPDATE", "DISABLE", "ENABLE"} : EditUser(t, u, kind)
    \/ CompareUser(t) \/ SaveUser(t)
    \/ Fail(t)

Next == Tick \/ \E t \in Task : Step(t)

Spec == Init /\ [][Next]_vars

---------------------------------------------------------------------------
(* Correctness.                                                            *)

\* Every variable keeps its type.
TypeOK ==
    /\ now \in 0 .. MaxTime
    /\ users \in [User -> Row]
    /\ tokens \in [Token -> ResetToken \cup {None}]
    /\ task \in [Task -> Request]
    /\ issued \in [Token -> User \cup {None}]
    /\ last \in [User -> Token \cup {None}]
    /\ resets \in [Token -> Nat]
    /\ held \in [User -> SUBSET Password]

\* An account never has two recovery links that work, however many recoveries
\* are asked for at once.
OneTokenPerAccount ==
    \A u \in User : \A j, k \in TokensOf(u) : j = k

\* A token that still exists is used exactly if it has set a password, and
\* none sets two, also when the same link is sent twice at once.
UsedSetsPassword ==
    \A k \in Token : /\ resets[k] <= 1
                     /\ tokens[k] # None => (tokens[k].used <=> resets[k] = 1)

\* A recovery asked for later ends the earlier one at its commit: a password
\* is only set with the link issued last.
OnlyLatestToken ==
    [][\A k \in Token : resets'[k] # resets[k] => last[issued[k]] = k]_vars

\* Neither a recovery nor a change sets the password of an account that has
\* been disabled, even if it was active when the request began.
DisabledKeepsPassword ==
    [][\A t \in Task, u \in User :
         /\ task[t].at \in {"use", "change"} /\ task[t].user = u
         /\ task'[t] = Idle /\ users'[u].password # users[u].password
         => users[u].status = "ACTIVE"]_vars

\* The answer "Password reset successfully" (src/i18n/locales/en/auth.json): a
\* password stays until it is set again by a recovery or a change. The save of
\* an entity read before writes the old one back.
SetPasswordStands ==
    [][\A t \in Task, u \in User :
         task[t].at = "write" /\ task'[t] = Idle /\ task[t].user = u
         => users'[u].password = users[u].password]_vars
=============================================================================
