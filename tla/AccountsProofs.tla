--------------------------- MODULE AccountsProofs ---------------------------
(***************************************************************************)
(* Accounts keeps its types and its invariant, only the latest token sets  *)
(* a password, and never that of a disabled account, for every number of   *)
(* accounts, tokens, passwords and requests.                               *)
(***************************************************************************)
EXTENDS AccountsInvariant, TLAPS

---------------------------------------------------------------------------
(* Types.                                                                  *)

\* What a request knows at each step.
LEMMA Informed ==
    ASSUME NEW r \in Request
    PROVE  /\ r.at = "delete" => r \in Forgetting
           /\ r.at = "insert" => r \in Replacing
           /\ r.at = "lock" => r \in Asking
           /\ r.at \in {"update", "use"} => r \in Resetting
           /\ r.at = "change" => r \in Changing
           /\ r.at = "save" => r \in Editing
           /\ r.at = "write" => r \in Saving
  BY DEF Request, Idle, Forgetting, Replacing, Asking, Resetting, Changing, Editing, Saving

LEMMA GotoKeepsType ==
    ASSUME task \in [Task -> Request], NEW t \in Task, NEW r \in Request, Goto(t, r)
    PROVE  task' \in [Task -> Request]
  BY DEF Goto

LEMMA IdleIsRequest == Idle \in Request
  BY DEF Request

LEMMA ForgetTypes ==
    ASSUME TypeOK, NEW t \in Task,
           (\E u \in User : ForgotPassword(t, u)) \/ DeleteTokens(t) \/ InsertToken(t)
    PROVE  TypeOK'
<1>0. TokenTTL \in Nat /\ MaxTime \in Nat
  BY AccountsAssumption
<1>1. ASSUME NEW u \in User, ForgotPassword(t, u)
      PROVE  TypeOK'
  <2>1. now + TokenTTL \in Expiry
    BY <1>0 DEF TypeOK, Expiry
  <2>2. [at |-> "delete", user |-> u, ends |-> now + TokenTTL] \in Request
    BY <2>1 DEF Request, Forgetting
  <2> QED
    BY <1>1, <2>2, GotoKeepsType DEF ForgotPassword, TypeOK, history
<1>2. CASE DeleteTokens(t)
  <2>1. task[t] \in Forgetting
    BY <1>2, Informed DEF DeleteTokens, TypeOK
  <2>2. [at |-> "insert", user |-> task[t].user, ends |-> task[t].ends,
         found |-> TokensOf(task[t].user)] \in Request
    BY <2>1 DEF Request, Forgetting, Replacing, TokensOf
  <2> QED
    BY <1>2, <2>2, GotoKeepsType DEF DeleteTokens, TypeOK, history
<1>3. CASE InsertToken(t)
  <2>1. task[t] \in Replacing
    BY <1>3, Informed DEF InsertToken, TypeOK
  <2>2. task[t].user \in User /\ task[t].ends \in Expiry
    BY <2>1 DEF Replacing
  <2>3. PICK k \in Token :
          /\ issued' = [issued EXCEPT ![k] = task[t].user]
          /\ last' = [last EXCEPT ![task[t].user] = k]
          /\ tokens' = [o \in Token |->
                          IF o = k THEN [user |-> task[t].user, ends |-> task[t].ends, used |-> FALSE]
                          ELSE IF o \in task[t].found THEN None ELSE tokens[o]]
    BY <1>3 DEF InsertToken
  <2>4. tokens' \in [Token -> ResetToken \cup {None}]
    BY <2>2, <2>3 DEF TypeOK, ResetToken
  <2> QED
    BY <1>3, <2>2, <2>3, <2>4, IdleIsRequest, GotoKeepsType DEF InsertToken, TypeOK
<1> QED
  BY <1>1, <1>2, <1>3

LEMMA ResetTypes ==
    ASSUME TypeOK, NEW t \in Task,
           \/ \E k \in Token, p \in Password : ResetPassword(t, k, p)
           \/ LockToken(t) \/ UpdatePassword(t) \/ UseToken(t)
    PROVE  TypeOK'
<1>1. ASSUME NEW k \in Token, NEW p \in Password, ResetPassword(t, k, p)
      PROVE  TypeOK'
  <2>1. [at |-> "lock", token |-> k, password |-> p] \in Request
    BY DEF Request, Asking
  <2> QED
    BY <1>1, <2>1, GotoKeepsType DEF ResetPassword, TypeOK, history
<1>2. CASE LockToken(t)
  <2>1. task[t].token \in Token /\ task[t].password \in Password
    BY <1>2, Informed DEF LockToken, TypeOK, Asking
  <2>2. tokens[task[t].token] \in ResetToken
    BY <1>2, <2>1 DEF LockToken, Usable, TypeOK
  <2>3. [at |-> "update", user |-> tokens[task[t].token].user, ends |-> tokens[task[t].token].ends,
         token |-> task[t].token, password |-> task[t].password] \in Request
    BY <2>1, <2>2 DEF Request, Resetting, ResetToken
  <2> QED
    BY <1>2, <2>3, GotoKeepsType DEF LockToken, TypeOK, history
<1>3. CASE UpdatePassword(t)
  <2>1. task[t] \in Resetting
    BY <1>3, Informed DEF UpdatePassword, TypeOK
  <2>2. [at |-> "use", user |-> task[t].user, ends |-> task[t].ends,
         token |-> task[t].token, password |-> task[t].password] \in Request
    BY <2>1 DEF Request, Resetting
  <2> QED
    BY <1>3, <2>2, GotoKeepsType DEF UpdatePassword, TypeOK, history
<1>4. CASE UseToken(t)
  <2>1. task[t] \in Resetting
    BY <1>4, Informed DEF UseToken, TypeOK
  <2>2. /\ task[t].user \in User /\ task[t].ends \in Expiry
        /\ task[t].token \in Token /\ task[t].password \in Password
    BY <2>1 DEF Resetting
  <2>3. users' \in [User -> Row]
    BY <1>4, <2>2 DEF UseToken, TypeOK, Row
  <2>4. tokens' \in [Token -> ResetToken \cup {None}]
    BY <1>4, <2>2 DEF UseToken, TypeOK, ResetToken
  <2>5. resets' \in [Token -> Nat]
    BY <1>4, <2>2 DEF UseToken, TypeOK
  <2>6. held' \in [User -> SUBSET Password]
    BY <1>4, <2>2 DEF UseToken, TypeOK
  <2> QED
    BY <1>4, <2>3, <2>4, <2>5, <2>6, IdleIsRequest, GotoKeepsType DEF UseToken, TypeOK
<1> QED
  BY <1>1, <1>2, <1>3, <1>4

LEMMA ChangeTypes ==
    ASSUME TypeOK, NEW t \in Task,
           (\E u \in User, p \in Password : ChangePassword(t, u, p)) \/ WritePassword(t)
    PROVE  TypeOK'
<1>1. ASSUME NEW u \in User, NEW p \in Password, ChangePassword(t, u, p)
      PROVE  TypeOK'
  <2>1. [at |-> "change", user |-> u, password |-> p] \in Request
    BY DEF Request, Changing
  <2> QED
    BY <1>1, <2>1, GotoKeepsType DEF ChangePassword, TypeOK, history
<1>2. CASE WritePassword(t)
  <2>1. task[t].user \in User /\ task[t].password \in Password
    BY <1>2, Informed DEF WritePassword, TypeOK, Changing
  <2>2. users' \in [User -> Row]
    BY <1>2, <2>1 DEF WritePassword, TypeOK, Row
  <2>3. held' \in [User -> SUBSET Password]
    BY <1>2, <2>1 DEF WritePassword, TypeOK
  <2> QED
    BY <1>2, <2>2, <2>3, IdleIsRequest, GotoKeepsType DEF WritePassword, TypeOK
<1> QED
  BY <1>1, <1>2

LEMMA EditTypes ==
    ASSUME TypeOK, NEW t \in Task,
           \/ \E u \in User, kind \in {"UPDATE", "DISABLE", "ENABLE"} : EditUser(t, u, kind)
           \/ CompareUser(t) \/ SaveUser(t)
    PROVE  TypeOK'
<1>1. ASSUME NEW u \in User, NEW kind \in {"UPDATE", "DISABLE", "ENABLE"}, EditUser(t, u, kind)
      PROVE  TypeOK'
  <2>0. users[u] \in Row
    BY DEF TypeOK
  <2>1. Edited(kind, users[u]) \in Row
    BY <2>0 DEF Edited, Row
  <2>2. [at |-> "save", user |-> u, entity |-> Edited(kind, users[u])] \in Request
    BY <2>1 DEF Request, Editing
  <2> QED
    BY <1>1, <2>2, GotoKeepsType DEF EditUser, TypeOK, history
<1>2. CASE CompareUser(t)
  <2>1. task[t] \in Editing
    BY <1>2, Informed DEF CompareUser, TypeOK
  <2> DEFINE columns == {c \in Columns : task[t].entity[c] # users[task[t].user][c]}
  <2>2. columns \in SUBSET Columns
    OBVIOUS
  <2> HIDE DEF columns
  <2>3. [at |-> "write", user |-> task[t].user, entity |-> task[t].entity, columns |-> columns] \in Request
    BY <2>1, <2>2 DEF Request, Editing, Saving
  <2>4. Goto(t, [at |-> "write", user |-> task[t].user, entity |-> task[t].entity, columns |-> columns])
    BY <1>2 DEF CompareUser, columns
  <2> QED
    BY <1>2, <2>3, <2>4, GotoKeepsType DEF CompareUser, TypeOK, history
<1>3. CASE SaveUser(t)
  <2>1. task[t] \in Saving
    BY <1>3, Informed DEF SaveUser, TypeOK
  <2>2. task[t].user \in User /\ task[t].entity \in Row
    BY <2>1 DEF Saving
  <2>3. users' \in [User -> Row]
    BY <1>3, <2>2 DEF SaveUser, TypeOK, Row
  <2> QED
    BY <1>3, <2>3, IdleIsRequest, GotoKeepsType DEF SaveUser, TypeOK, history
<1> QED
  BY <1>1, <1>2, <1>3

LEMMA TypeStep ==
    ASSUME TypeOK, [Next]_vars
    PROVE  TypeOK'
<1>1. ASSUME NEW t \in Task, Step(t)
      PROVE  TypeOK'
  <2>1. CASE Fail(t)
    BY <2>1, IdleIsRequest, GotoKeepsType DEF Fail, TypeOK, history
  <2> QED
    BY <1>1, <2>1, ForgetTypes, ResetTypes, ChangeTypes, EditTypes DEF Step
<1>2. CASE Tick
  BY <1>2, AccountsAssumption DEF Tick, TypeOK, history
<1>3. CASE UNCHANGED vars
  BY <1>3 DEF vars, TypeOK
<1> QED
  BY <1>1, <1>2, <1>3 DEF Next

LEMMA TypeInit == ASSUME Init PROVE TypeOK
<1>1. 0 \in 0 .. MaxTime
  BY AccountsAssumption
<1>2. Init => users \in [User -> Row]
  <2>1. [status : {"ACTIVE"}, password : Password] \subseteq Row
    BY DEF Row
  <2> QED
    BY <2>1 DEF Init
<1>3. Init => task \in [Task -> Request] /\ now \in 0 .. MaxTime
  BY <1>1, IdleIsRequest DEF Init
<1>4. Init => /\ tokens \in [Token -> ResetToken \cup {None}]
              /\ issued \in [Token -> User \cup {None}]
              /\ last \in [User -> Token \cup {None}]
  BY DEF Init
<1>5. Init => resets \in [Token -> Nat]
  BY DEF Init
<1>6. Init => held \in [User -> SUBSET Password]
  <2>1. Init => \A u \in User : users[u].password \in Password
    BY <1>2 DEF Row
  <2> QED
    BY <2>1 DEF Init
<1> QED
  BY <1>2, <1>3, <1>4, <1>5, <1>6 DEF TypeOK

\* Every variable of Accounts keeps its type.
THEOREM TypeCorrect == Spec => []TypeOK
  BY TypeInit, TypeStep, PTL DEF Spec

---------------------------------------------------------------------------
(* The invariant.                                                          *)

\* A step that neither takes a lock nor touches the tokens keeps what holds
\* between the steps of the others.
LEMMA LockFreeStep ==
    ASSUME IInv, TypeOK', HeldPasswords', NEW t \in Task, NEW r, Goto(t, r),
           r.at \notin {"update", "use", "insert"},
           UNCHANGED <<tokens, issued, last, resets>>,
           \A u \in User : UserLocked(u) => users'[u].status = users[u].status
    PROVE  IInv'
<1>1. \A o \in Task : task'[o].at \in {"update", "use", "insert"} => task'[o] = task[o]
  BY DEF Goto, IInv, TypeOK
<1>2. OnlyLastExists' /\ UsedSetsPassword'
  BY DEF IInv, OnlyLastExists, UsedSetsPassword
<1>3. ResetHolds'
  BY <1>1 DEF IInv, ResetHolds, Holding
<1>4. RecoveryHolds'
  BY <1>1 DEF IInv, RecoveryHolds, Holding, TokensOf
<1>5. ActiveUntilCommit'
  <2> SUFFICES ASSUME NEW o \in Task, task'[o].at = "use"
               PROVE  users'[task'[o].user].status = "ACTIVE"
    BY DEF ActiveUntilCommit
  <2>1. task'[o] = task[o] /\ task[o].at = "use"
    BY <1>1
  <2>2. task[o].user \in User
    BY <2>1, Informed DEF IInv, TypeOK, Resetting
  <2> QED
    BY <2>1, <2>2 DEF IInv, ActiveUntilCommit, UserLocked
<1> QED
  BY <1>2, <1>3, <1>4, <1>5 DEF IInv

\* Requests begin, compare and fail without locks.
LEMMA QuietSteps ==
    ASSUME IInv, TypeOK', HeldPasswords', NEW t \in Task,
           \/ \E u \in User : ForgotPassword(t, u)
           \/ \E k \in Token, p \in Password : ResetPassword(t, k, p)
           \/ \E u \in User, p \in Password : ChangePassword(t, u, p)
           \/ \E u \in User, kind \in {"UPDATE", "DISABLE", "ENABLE"} : EditUser(t, u, kind)
           \/ CompareUser(t) \/ Fail(t)
    PROVE  IInv'
<1>1. UNCHANGED <<users, tokens, history>>
  BY DEF ForgotPassword, ResetPassword, ChangePassword, EditUser, CompareUser, Fail
<1>2. PICK r : Goto(t, r) /\ r.at \notin {"update", "use", "insert"}
  <2>1. ASSUME NEW u \in User, ForgotPassword(t, u)
        PROVE  \E r : Goto(t, r) /\ r.at = "delete"
    BY <2>1 DEF ForgotPassword
  <2>2. ASSUME NEW k \in Token, NEW p \in Password, ResetPassword(t, k, p)
        PROVE  \E r : Goto(t, r) /\ r.at = "lock"
    BY <2>2 DEF ResetPassword
  <2>3. ASSUME NEW u \in User, NEW p \in Password, ChangePassword(t, u, p)
        PROVE  \E r : Goto(t, r) /\ r.at = "change"
    BY <2>3 DEF ChangePassword
  <2>4. ASSUME NEW u \in User, NEW kind \in {"UPDATE", "DISABLE", "ENABLE"}, EditUser(t, u, kind)
        PROVE  \E r : Goto(t, r) /\ r.at = "save"
    BY <2>4 DEF EditUser
  <2>5. ASSUME CompareUser(t)
        PROVE  \E r : Goto(t, r) /\ r.at = "write"
    BY <2>5 DEF CompareUser
  <2>6. ASSUME Fail(t)
        PROVE  \E r : Goto(t, r) /\ r.at = "idle"
    BY <2>6 DEF Fail, Idle
  <2> QED
    BY <2>1, <2>2, <2>3, <2>4, <2>5, <2>6
<1> QED
  BY <1>1, <1>2, LockFreeStep DEF history

\* The writers of the account wait for a reset that has updated it.
LEMMA WriterSteps ==
    ASSUME IInv, TypeOK', HeldPasswords', NEW t \in Task, WritePassword(t) \/ SaveUser(t)
    PROVE  IInv'
<1>1. UNCHANGED <<tokens, issued, last, resets>> /\ Goto(t, Idle) /\ ~UserLocked(task[t].user)
  BY DEF WritePassword, SaveUser, history
<1>2. \A u \in User : u # task[t].user => users'[u] = users[u]
  BY DEF WritePassword, SaveUser, IInv, TypeOK
<1>3. Idle.at \notin {"update", "use", "insert"}
  BY DEF Idle
<1> QED
  BY <1>1, <1>2, <1>3, LockFreeStep

LEMMA RecoveryLocks ==
    ASSUME IInv, TypeOK', HeldPasswords', NEW t \in Task, DeleteTokens(t)
    PROVE  IInv'
<1> DEFINE r == [at |-> "insert", user |-> task[t].user, ends |-> task[t].ends,
                 found |-> TokensOf(task[t].user)]
<1>1. r.at = "insert" /\ r.found = TokensOf(task[t].user) /\ r.user = task[t].user
  OBVIOUS
<1> HIDE DEF r
<1>2. Goto(t, r) /\ UNCHANGED <<users, tokens, history>>
  BY DEF DeleteTokens, r
<1>3. \A o \in Task : Holding(o) => task[o].token \notin TokensOf(task[t].user)
  BY DEF DeleteTokens, TokenLocked, Holding
<1>4. task'[t] = r /\ \A o \in Task \ {t} : task'[o] = task[o]
  BY <1>2 DEF Goto, IInv, TypeOK
<1>5. \A o \in Task : Holding(o)' => o # t /\ Holding(o) /\ task'[o] = task[o]
  BY <1>1, <1>4 DEF Holding
<1>6. OnlyLastExists' /\ UsedSetsPassword'
  BY <1>2 DEF IInv, OnlyLastExists, UsedSetsPassword, history
<1>7. ResetHolds'
  BY <1>2, <1>5 DEF IInv, ResetHolds
<1>8. RecoveryHolds'
  <2> SUFFICES ASSUME NEW o \in Task, task'[o].at = "insert"
               PROVE  /\ task'[o].found = {k \in Token : tokens'[k] # None /\ tokens'[k].user = task'[o].user}
                      /\ \A q \in Task : Holding(q)' => task'[q].token \notin task'[o].found
    BY DEF RecoveryHolds, TokensOf
  <2>1. CASE o = t
    BY <1>1, <1>2, <1>3, <1>4, <1>5, <2>1 DEF TokensOf
  <2>2. CASE o # t
    BY <1>2, <1>4, <1>5, <2>2 DEF IInv, RecoveryHolds, TokensOf
  <2> QED
    BY <2>1, <2>2
<1>9. ActiveUntilCommit'
  BY <1>1, <1>2, <1>4 DEF IInv, ActiveUntilCommit
<1> QED
  BY <1>6, <1>7, <1>8, <1>9 DEF IInv

LEMMA RecoveryInserts ==
    ASSUME IInv, TypeOK', HeldPasswords', NEW t \in Task, InsertToken(t)
    PROVE  IInv'
<1>0. PICK u \in User : u = task[t].user
  BY Informed DEF IInv, TypeOK, InsertToken, Replacing
<1>1. PICK k \in Token :
        /\ issued[k] = None
        /\ issued' = [issued EXCEPT ![k] = u]
        /\ last' = [last EXCEPT ![u] = k]
        /\ tokens' = [o \in Token |->
                        IF o = k THEN [user |-> u, ends |-> task[t].ends, used |-> FALSE]
                        ELSE IF o \in task[t].found THEN None ELSE tokens[o]]
  BY <1>0 DEF InsertToken
<1>2. task[t].found = TokensOf(u) /\ \A o \in Task : Holding(o) => task[o].token \notin TokensOf(u)
  BY <1>0 DEF IInv, RecoveryHolds, InsertToken
<1>3. UNCHANGED <<users, resets>> /\ Goto(t, Idle)
  BY DEF InsertToken
<1>4. \A o \in Task : task'[o].at \in {"update", "use", "insert"} => o # t /\ task'[o] = task[o]
  BY <1>3 DEF Goto, IInv, TypeOK, Idle
<1>5. tokens[k] = None /\ resets[k] = 0
  BY <1>1, AccountsAssumption DEF IInv, OnlyLastExists, TypeOK, ResetToken
<1>6. tokens'[k] = [user |-> u, ends |-> task[t].ends, used |-> FALSE] /\ tokens'[k] # None
  <2>1. task[t].ends \in Expiry
    BY Informed DEF InsertToken, IInv, TypeOK, Replacing
  <2>2. [user |-> u, ends |-> task[t].ends, used |-> FALSE] \in ResetToken
    BY <2>1 DEF ResetToken
  <2>3. tokens'[k] = [user |-> u, ends |-> task[t].ends, used |-> FALSE]
    BY <1>1
  <2> QED
    BY <2>2, <2>3, AccountsAssumption
<1>7. \A o \in Token : o # k => /\ o \in TokensOf(u) => tokens'[o] = None
                                /\ o \notin TokensOf(u) => tokens'[o] = tokens[o]
  BY <1>1, <1>2
<1>14. /\ issued'[k] = u /\ last'[u] = k
       /\ \A o \in Token : /\ resets'[o] = resets[o]
                           /\ o # k => issued'[o] = issued[o]
       /\ \A v \in User : v # u => last'[v] = last[v]
  BY <1>1, <1>3 DEF IInv, TypeOK
<1>15. u # None
  BY AccountsAssumption
<1>8. OnlyLastExists'
  <2> SUFFICES ASSUME NEW o \in Token
               PROVE  /\ tokens'[o] # None => /\ issued'[o] = tokens'[o].user
                                             /\ last'[tokens'[o].user] = o
                      /\ issued'[o] = None => resets'[o] = 0
    BY DEF OnlyLastExists
  <2>1. CASE o = k
    BY <1>6, <1>14, <1>15, <2>1
  <2>2. CASE o # k /\ o \in TokensOf(u)
    <3>1. tokens'[o] = None
      BY <1>7, <2>2
    <3> QED
      BY <1>14, <2>2, <3>1 DEF IInv, OnlyLastExists
  <2>3. CASE o # k /\ o \notin TokensOf(u)
    <3>1. tokens'[o] = tokens[o] /\ issued'[o] = issued[o] /\ resets'[o] = resets[o]
      BY <1>7, <1>14, <2>3
    <3>2. tokens[o] # None => tokens[o].user # u /\ tokens[o].user \in User
      <4>1. tokens[o] \in ResetToken \cup {None}
        BY DEF IInv, TypeOK
      <4> QED
        BY <2>3, <4>1 DEF TokensOf, ResetToken
    <3>3. tokens[o] # None => last'[tokens[o].user] = last[tokens[o].user]
      BY <1>14, <3>2
    <3> QED
      BY <3>1, <3>2, <3>3 DEF IInv, OnlyLastExists
  <2> QED
    BY <2>1, <2>2, <2>3
<1>9. UsedSetsPassword'
  <2> SUFFICES ASSUME NEW o \in Token
               PROVE  /\ resets'[o] <= 1
                      /\ tokens'[o] # None => (tokens'[o].used <=> resets'[o] = 1)
    BY DEF UsedSetsPassword
  <2>1. resets'[o] = resets[o] /\ resets[o] <= 1
    BY <1>3 DEF IInv, UsedSetsPassword
  <2>2. CASE o = k
    BY <1>5, <1>6, <2>1, <2>2
  <2>3. CASE o # k
    <3>1. tokens'[o] \in {None, tokens[o]}
      BY <1>7, <2>3
    <3>2. tokens[o] # None => (tokens[o].used <=> resets[o] = 1)
      BY DEF IInv, UsedSetsPassword
    <3> QED
      BY <2>1, <3>1, <3>2
  <2> QED
    BY <2>1, <2>2, <2>3
<1>10. \A o \in Task : Holding(o)' => /\ Holding(o) /\ task'[o] = task[o]
                                      /\ task[o].token \notin TokensOf(u) \cup {k}
                                      /\ tokens'[task[o].token] = tokens[task[o].token]
  <2> SUFFICES ASSUME NEW o \in Task, Holding(o)'
               PROVE  /\ Holding(o) /\ task'[o] = task[o]
                      /\ task[o].token \notin TokensOf(u) \cup {k}
                      /\ tokens'[task[o].token] = tokens[task[o].token]
    OBVIOUS
  <2>1. Holding(o) /\ task'[o] = task[o]
    BY <1>4 DEF Holding
  <2>2. task[o].token \in Token /\ task[o].token \notin TokensOf(u)
    BY <1>2, <2>1, Informed DEF IInv, TypeOK, Holding, Resetting
  <2>3. tokens[task[o].token] # None
    <3>1. /\ tokens[task[o].token] = [user |-> task[o].user, ends |-> task[o].ends, used |-> FALSE]
          /\ task[o].user \in User /\ task[o].ends \in Expiry
      BY <2>1, Informed DEF IInv, TypeOK, Holding, ResetHolds, Resetting
    <3>2. tokens[task[o].token] \in ResetToken
      BY <3>1 DEF ResetToken
    <3> QED
      BY <3>2, AccountsAssumption
  <2>4. task[o].token # k
    BY <1>5, <2>3
  <2>5. tokens'[task[o].token] = tokens[task[o].token]
    BY <1>7, <2>2, <2>4
  <2> QED
    BY <2>1, <2>2, <2>4, <2>5
<1>12. ResetHolds'
  BY <1>10 DEF IInv, ResetHolds
<1>13. RecoveryHolds'
  <2> SUFFICES ASSUME NEW o \in Task, task'[o].at = "insert"
               PROVE  /\ task'[o].found = {j \in Token : tokens'[j] # None /\ tokens'[j].user = task'[o].user}
                      /\ \A q \in Task : Holding(q)' => task'[q].token \notin task'[o].found
    BY DEF RecoveryHolds, TokensOf
  <2>1. task'[o] = task[o] /\ o # t /\ task[o].at = "insert"
    BY <1>4
  <2>2. task[o].user # u
    BY <1>0, <2>1 DEF InsertToken, GapLocked
  <2>3. \A j \in Token : (tokens'[j] # None /\ tokens'[j].user = task[o].user)
                         <=> (tokens[j] # None /\ tokens[j].user = task[o].user)
    <3> SUFFICES ASSUME NEW j \in Token
                 PROVE  (tokens'[j] # None /\ tokens'[j].user = task[o].user)
                         <=> (tokens[j] # None /\ tokens[j].user = task[o].user)
      OBVIOUS
    <3>1. CASE j = k
      BY <1>5, <1>6, <2>2, <3>1
    <3>2. CASE j # k
      <4>1. CASE j \in TokensOf(u)
        <5>1. tokens'[j] = None
          BY <1>7, <3>2, <4>1
        <5>2. tokens[j].user = u
          BY <4>1 DEF TokensOf
        <5> QED
          BY <2>2, <5>1, <5>2
      <4>2. CASE j \notin TokensOf(u)
        BY <1>7, <3>2, <4>2
      <4> QED
        BY <4>1, <4>2
    <3> QED
      BY <3>1, <3>2
  <2>4. task[o].found = {j \in Token : tokens[j] # None /\ tokens[j].user = task[o].user}
    BY <2>1 DEF IInv, RecoveryHolds, TokensOf
  <2>5. \A q \in Task : Holding(q)' => task'[q].token \notin task[o].found
    BY <1>10, <2>1 DEF IInv, RecoveryHolds
  <2> QED
    BY <2>1, <2>3, <2>4, <2>5
<1>11. ActiveUntilCommit'
  BY <1>3, <1>4 DEF IInv, ActiveUntilCommit
<1> QED
  BY <1>8, <1>9, <1>11, <1>12, <1>13 DEF IInv

LEMMA ResetLocks ==
    ASSUME IInv, TypeOK', HeldPasswords', NEW t \in Task, LockToken(t)
    PROVE  IInv'
<1>1. PICK k \in Token : k = task[t].token
  BY Informed DEF IInv, TypeOK, LockToken, Asking
<1>2. /\ tokens[k] # None /\ ~tokens[k].used
      /\ \A o \in Task : Holding(o) => task[o].token # k
      /\ \A o \in Task : task[o].at = "insert" => k \notin task[o].found
  BY <1>1 DEF LockToken, Usable, TokenLocked, Holding
<1> DEFINE r == [at |-> "update", user |-> tokens[k].user, ends |-> tokens[k].ends,
                 token |-> k, password |-> task[t].password]
<1>3. r.at = "update" /\ r.token = k /\ r.user = tokens[k].user /\ r.ends = tokens[k].ends
  OBVIOUS
<1>4. Goto(t, r) /\ UNCHANGED <<users, tokens, history>>
  BY <1>1 DEF LockToken
<1> HIDE DEF r
<1>5. task'[t] = r /\ \A o \in Task : o # t => task'[o] = task[o]
  BY <1>4 DEF Goto, IInv, TypeOK
<1>6. OnlyLastExists' /\ UsedSetsPassword'
  BY <1>4 DEF IInv, OnlyLastExists, UsedSetsPassword, history
<1>7. tokens[k] = [user |-> r.user, ends |-> r.ends, used |-> FALSE]
  <2>1. tokens[k] \in ResetToken
    BY <1>2 DEF IInv, TypeOK
  <2> QED
    BY <1>2, <1>3, <2>1 DEF ResetToken
<1>8. ResetHolds'
  <2> SUFFICES ASSUME NEW o \in Task, Holding(o)'
               PROVE  /\ tokens[task'[o].token] = [user |-> task'[o].user, ends |-> task'[o].ends, used |-> FALSE]
                      /\ \A q \in Task : Holding(q)' /\ task'[q].token = task'[o].token => q = o
    BY <1>4 DEF ResetHolds
  <2>1. CASE o = t
    BY <1>2, <1>3, <1>5, <1>7, <2>1 DEF Holding
  <2>2. CASE o # t
    <3>1. Holding(o) /\ task'[o] = task[o]
      BY <1>5, <2>2 DEF Holding
    <3>2. \A q \in Task : Holding(q)' => q = t \/ (Holding(q) /\ task'[q] = task[q])
      BY <1>5 DEF Holding
    <3> QED
      BY <1>2, <1>3, <1>5, <3>1, <3>2 DEF IInv, ResetHolds
  <2> QED
    BY <2>1, <2>2
<1>9. RecoveryHolds'
  <2> SUFFICES ASSUME NEW o \in Task, task'[o].at = "insert"
               PROVE  /\ task'[o].found = {j \in Token : tokens'[j] # None /\ tokens'[j].user = task'[o].user}
                      /\ \A q \in Task : Holding(q)' => task'[q].token \notin task'[o].found
    BY DEF RecoveryHolds, TokensOf
  <2>1. o # t /\ task'[o] = task[o] /\ task[o].at = "insert"
    BY <1>3, <1>5
  <2>2. task[o].found = {j \in Token : tokens[j] # None /\ tokens[j].user = task[o].user}
    BY <2>1 DEF IInv, RecoveryHolds, TokensOf
  <2>3. \A q \in Task : Holding(q)' => task'[q].token \notin task[o].found
    <3> SUFFICES ASSUME NEW q \in Task, Holding(q)'
                 PROVE  task'[q].token \notin task[o].found
      OBVIOUS
    <3>1. CASE q = t
      BY <1>2, <1>3, <1>5, <2>1, <3>1
    <3>2. CASE q # t
      BY <1>5, <2>1, <3>2 DEF Holding, IInv, RecoveryHolds
    <3> QED
      BY <3>1, <3>2
  <2> QED
    BY <1>4, <2>1, <2>2, <2>3
<1>10. ActiveUntilCommit'
  BY <1>3, <1>4, <1>5 DEF IInv, ActiveUntilCommit
<1> QED
  BY <1>6, <1>8, <1>9, <1>10 DEF IInv

LEMMA ResetUpdates ==
    ASSUME IInv, TypeOK', HeldPasswords', NEW t \in Task, UpdatePassword(t)
    PROVE  IInv'
<1> DEFINE r == [at |-> "use", user |-> task[t].user, ends |-> task[t].ends,
                 token |-> task[t].token, password |-> task[t].password]
<1>1. /\ r.at = "use" /\ r.user = task[t].user /\ r.ends = task[t].ends
      /\ r.token = task[t].token
  OBVIOUS
<1>2. /\ Goto(t, r) /\ UNCHANGED <<users, tokens, history>>
      /\ task[t].at = "update" /\ users[task[t].user].status = "ACTIVE"
  BY DEF UpdatePassword, Updatable
<1> HIDE DEF r
<1>3. task'[t] = r /\ \A o \in Task : o # t => task'[o] = task[o]
  BY <1>2 DEF Goto, IInv, TypeOK
<1>4. \A o \in Task : Holding(o)' => /\ Holding(o)
                                     /\ task'[o].token = task[o].token
                                     /\ task'[o].user = task[o].user
                                     /\ task'[o].ends = task[o].ends
  <2> SUFFICES ASSUME NEW o \in Task, Holding(o)'
               PROVE  /\ Holding(o) /\ task'[o].token = task[o].token
                      /\ task'[o].user = task[o].user /\ task'[o].ends = task[o].ends
    OBVIOUS
  <2>1. CASE o = t
    BY <1>1, <1>2, <1>3, <2>1 DEF Holding
  <2>2. CASE o # t
    BY <1>3, <2>2 DEF Holding
  <2> QED
    BY <2>1, <2>2
<1>5. OnlyLastExists' /\ UsedSetsPassword'
  BY <1>2 DEF IInv, OnlyLastExists, UsedSetsPassword, history
<1>6. ResetHolds'
  <2> SUFFICES ASSUME NEW o \in Task, Holding(o)'
               PROVE  /\ tokens[task'[o].token] = [user |-> task'[o].user, ends |-> task'[o].ends, used |-> FALSE]
                      /\ \A q \in Task : Holding(q)' /\ task'[q].token = task'[o].token => q = o
    BY <1>2 DEF ResetHolds
  <2> QED
    BY <1>4 DEF IInv, ResetHolds
<1>7. RecoveryHolds'
  <2> SUFFICES ASSUME NEW o \in Task, task'[o].at = "insert"
               PROVE  /\ task'[o].found = {j \in Token : tokens'[j] # None /\ tokens'[j].user = task'[o].user}
                      /\ \A q \in Task : Holding(q)' => task'[q].token \notin task'[o].found
    BY DEF RecoveryHolds, TokensOf
  <2>1. task'[o] = task[o] /\ task[o].at = "insert"
    BY <1>1, <1>3
  <2>2. task[o].found = {j \in Token : tokens[j] # None /\ tokens[j].user = task[o].user}
    BY <2>1 DEF IInv, RecoveryHolds, TokensOf
  <2>3. \A q \in Task : Holding(q)' => task'[q].token \notin task[o].found
    BY <1>4, <2>1 DEF IInv, RecoveryHolds
  <2> QED
    BY <1>2, <2>1, <2>2, <2>3
<1>8. ActiveUntilCommit'
  <2> SUFFICES ASSUME NEW o \in Task, task'[o].at = "use"
               PROVE  users[task'[o].user].status = "ACTIVE"
    BY <1>2 DEF ActiveUntilCommit
  <2>1. CASE o = t
    BY <1>1, <1>2, <1>3, <2>1
  <2>2. CASE o # t
    BY <1>3, <2>2 DEF IInv, ActiveUntilCommit
  <2> QED
    BY <2>1, <2>2
<1> QED
  BY <1>5, <1>6, <1>7, <1>8 DEF IInv

LEMMA ResetCommits ==
    ASSUME IInv, TypeOK', HeldPasswords', NEW t \in Task, UseToken(t)
    PROVE  IInv'
<1>1. task[t] \in Resetting /\ task[t].at = "use"
  BY Informed DEF IInv, TypeOK, UseToken
<1>2. PICK k \in Token, u \in User : /\ k = task[t].token /\ u = task[t].user
  BY <1>1 DEF Resetting
<1>3. tokens[k] = [user |-> u, ends |-> task[t].ends, used |-> FALSE]
  BY <1>1, <1>2 DEF IInv, ResetHolds, Holding
<1>4. tokens'[k] = [user |-> u, ends |-> task[t].ends, used |-> TRUE] /\ resets'[k] = resets[k] + 1
  BY <1>2 DEF UseToken, IInv, TypeOK
<1>5. \A j \in Token : j # k => tokens'[j] = tokens[j] /\ resets'[j] = resets[j]
  BY <1>2 DEF UseToken, IInv, TypeOK
<1>6. UNCHANGED <<issued, last>> /\ Goto(t, Idle)
  BY DEF UseToken
<1>7. \A v \in User : users'[v].status = users[v].status
  <2>1. users' = [users EXCEPT ![u].password = task[t].password]
    BY <1>2 DEF UseToken
  <2> QED
    BY <2>1 DEF IInv, TypeOK, Row
<1>8. \A o \in Task : task'[o].at \in {"update", "use", "insert"} => o # t /\ task'[o] = task[o]
  BY <1>6 DEF Goto, IInv, TypeOK, Idle
<1>9. tokens[k] # None /\ tokens'[k] # None
  <2>1. tokens[k] \in ResetToken /\ tokens'[k] \in ResetToken
    BY <1>1, <1>3, <1>4 DEF Resetting, ResetToken
  <2> QED
    BY <2>1, AccountsAssumption
<1>10. OnlyLastExists'
  <2> SUFFICES ASSUME NEW j \in Token
               PROVE  /\ tokens'[j] # None => issued[j] = tokens'[j].user /\ last[tokens'[j].user] = j
                      /\ issued[j] = None => resets'[j] = 0
    BY <1>6 DEF OnlyLastExists
  <2>1. CASE j = k
    <3>1. issued[k] = u /\ last[u] = k
      BY <1>3, <1>9 DEF IInv, OnlyLastExists
    <3> QED
      BY <1>4, <2>1, <3>1, AccountsAssumption
  <2>2. CASE j # k
    BY <1>5, <2>2 DEF IInv, OnlyLastExists
  <2> QED
    BY <2>1, <2>2
<1>11. UsedSetsPassword'
  <2> SUFFICES ASSUME NEW j \in Token
               PROVE  /\ resets'[j] <= 1
                      /\ tokens'[j] # None => (tokens'[j].used <=> resets'[j] = 1)
    BY DEF UsedSetsPassword
  <2>1. CASE j = k
    <3>1. resets[k] = 0
      <4>1. resets[k] # 1 /\ resets[k] <= 1 /\ resets[k] \in Nat
        BY <1>3, <1>9 DEF IInv, UsedSetsPassword, TypeOK
      <4> QED
        BY <4>1
    <3>2. resets'[k] = 1 /\ tokens'[k].used
      BY <1>4, <3>1
    <3> QED
      BY <2>1, <3>2
  <2>2. CASE j # k
    BY <1>5, <2>2 DEF IInv, UsedSetsPassword
  <2> QED
    BY <2>1, <2>2
<1>12. \A o \in Task : Holding(o)' => Holding(o) /\ task'[o] = task[o] /\ task[o].token # k
  <2> SUFFICES ASSUME NEW o \in Task, Holding(o)'
               PROVE  Holding(o) /\ task'[o] = task[o] /\ task[o].token # k
    OBVIOUS
  <2>1. o # t /\ task'[o] = task[o] /\ Holding(o)
    BY <1>8 DEF Holding
  <2> QED
    BY <1>1, <1>2, <2>1 DEF IInv, ResetHolds, Holding
<1>13. ResetHolds'
  <2> SUFFICES ASSUME NEW o \in Task, Holding(o)'
               PROVE  /\ tokens'[task'[o].token] = [user |-> task'[o].user, ends |-> task'[o].ends, used |-> FALSE]
                      /\ \A q \in Task : Holding(q)' /\ task'[q].token = task'[o].token => q = o
    BY DEF ResetHolds
  <2>1. Holding(o) /\ task'[o] = task[o] /\ task[o].token # k
    BY <1>12
  <2>2. task[o].token \in Token
    BY <2>1, Informed DEF Holding, IInv, TypeOK, Resetting
  <2>3. tokens'[task[o].token] = tokens[task[o].token]
    BY <1>5, <2>1, <2>2
  <2> QED
    BY <1>12, <2>1, <2>3 DEF IInv, ResetHolds
<1>14. RecoveryHolds'
  <2> SUFFICES ASSUME NEW o \in Task, task'[o].at = "insert"
               PROVE  /\ task'[o].found = {j \in Token : tokens'[j] # None /\ tokens'[j].user = task'[o].user}
                      /\ \A q \in Task : Holding(q)' => task'[q].token \notin task'[o].found
    BY DEF RecoveryHolds, TokensOf
  <2>1. task'[o] = task[o] /\ task[o].at = "insert"
    BY <1>8
  <2>2. task[o].found = {j \in Token : tokens[j] # None /\ tokens[j].user = task[o].user}
    BY <2>1 DEF IInv, RecoveryHolds, TokensOf
  <2>3. \A j \in Token : (tokens'[j] # None <=> tokens[j] # None) /\ tokens'[j].user = tokens[j].user
    BY <1>3, <1>4, <1>5, <1>9
  <2>4. \A q \in Task : Holding(q)' => task'[q].token \notin task[o].found
    BY <1>12, <2>1 DEF IInv, RecoveryHolds
  <2> QED
    BY <2>1, <2>2, <2>3, <2>4
<1>15. ActiveUntilCommit'
  <2> SUFFICES ASSUME NEW o \in Task, task'[o].at = "use"
               PROVE  users'[task'[o].user].status = "ACTIVE"
    BY DEF ActiveUntilCommit
  <2>1. task'[o] = task[o] /\ task[o].at = "use"
    BY <1>8
  <2>2. task[o].user \in User
    BY <2>1, Informed DEF IInv, TypeOK, Resetting
  <2> QED
    BY <1>7, <2>1, <2>2 DEF IInv, ActiveUntilCommit
<1> QED
  BY <1>10, <1>11, <1>13, <1>14, <1>15 DEF IInv

\* What a save carries.
LEMMA Carries ==
    ASSUME TypeOK, NEW t \in Task
    PROVE  /\ task[t].at = "save" => task[t].user \in User /\ task[t].entity \in Row
           /\ task[t].at = "write" => task[t].user \in User /\ task[t].entity \in Row
<1>1. task[t].at = "save" => task[t] \in Editing
  BY Informed DEF TypeOK
<1>2. task[t].at = "write" => task[t] \in Saving
  BY Informed DEF TypeOK
<1> QED
  BY <1>1, <1>2 DEF Editing, Saving

\* A step after which accounts were given no less, and in which one request
\* goes somewhere, carrying a password that its account was given.
LEMMA CarriedOn ==
    ASSUME TypeOK, HeldPasswords, NEW t \in Task, NEW r, Goto(t, r),
           \A u \in User : held[u] \subseteq held'[u] /\ users'[u].password \in held'[u],
           r.at \in {"save", "write"} => r.entity.password \in held'[r.user]
    PROVE  HeldPasswords'
<1>1. task'[t] = r /\ \A o \in Task : o # t => task'[o] = task[o]
  BY DEF Goto, TypeOK
<1>2. ASSUME NEW o \in Task, task'[o].at \in {"save", "write"}
      PROVE  task'[o].entity.password \in held'[task'[o].user]
  <2>1. CASE o = t
    BY <1>1, <1>2, <2>1
  <2>2. CASE o # t
    <3>1. task'[o] = task[o]
      BY <1>1, <2>2
    <3>2. task[o].user \in User
      BY <1>2, <3>1, Carries
    <3>3. task[o].entity.password \in held[task[o].user]
      BY <1>2, <3>1 DEF HeldPasswords
    <3> QED
      BY <3>1, <3>2, <3>3
  <2> QED
    BY <2>1, <2>2
<1> QED
  BY <1>2 DEF HeldPasswords

LEMMA HeldStep ==
    ASSUME IInv, [Next]_vars
    PROVE  HeldPasswords'
<1>0. TypeOK /\ HeldPasswords
  BY DEF IInv
<1>1. ASSUME NEW t \in Task, Step(t)
      PROVE  HeldPasswords'
  <2>1. ASSUME NEW r, Goto(t, r), UNCHANGED <<users, held>>,
               r.at \in {"save", "write"} => r.entity.password \in held[r.user]
        PROVE  HeldPasswords'
    BY <1>0, <2>1, CarriedOn DEF HeldPasswords
  <2>2. ASSUME NEW u \in User, ForgotPassword(t, u)
        PROVE  HeldPasswords'
    BY <2>1, <2>2 DEF ForgotPassword, history
  <2>3. CASE DeleteTokens(t)
    BY <2>1, <2>3 DEF DeleteTokens, history
  <2>4. CASE InsertToken(t)
    BY <2>1, <2>4 DEF InsertToken, Idle
  <2>5. ASSUME NEW k \in Token, NEW p \in Password, ResetPassword(t, k, p)
        PROVE  HeldPasswords'
    BY <2>1, <2>5 DEF ResetPassword, history
  <2>6. CASE LockToken(t)
    BY <2>1, <2>6 DEF LockToken, history
  <2>7. CASE UpdatePassword(t)
    BY <2>1, <2>7 DEF UpdatePassword, history
  <2>8. ASSUME NEW u \in User, NEW p \in Password, Goto(t, Idle),
               users' = [users EXCEPT ![u].password = p],
               held' = [held EXCEPT ![u] = @ \cup {p}]
        PROVE  HeldPasswords'
    <3>1. ASSUME NEW v \in User
          PROVE  held[v] \subseteq held'[v] /\ users'[v].password \in held'[v]
      <4>1. users[v] \in Row /\ users[v].password \in held[v]
        BY <1>0 DEF TypeOK, HeldPasswords
      <4>2. held'[v] = IF v = u THEN held[v] \cup {p} ELSE held[v]
        BY <1>0, <2>8 DEF TypeOK
      <4>3. users'[v].password = IF v = u THEN p ELSE users[v].password
        BY <1>0, <2>8, <4>1 DEF TypeOK, Row
      <4> QED
        BY <4>1, <4>2, <4>3
    <3> QED
      BY <1>0, <2>8, <3>1, CarriedOn DEF Idle
  <2>9. CASE UseToken(t)
    <3>1. task[t].user \in User /\ task[t].password \in Password
      BY <1>0, <2>9, Informed DEF UseToken, TypeOK, Resetting
    <3> QED
      BY <2>8, <2>9, <3>1 DEF UseToken
  <2>10. ASSUME NEW u \in User, NEW p \in Password, ChangePassword(t, u, p)
         PROVE  HeldPasswords'
    BY <2>1, <2>10 DEF ChangePassword, history
  <2>11. CASE WritePassword(t)
    <3>1. task[t].user \in User /\ task[t].password \in Password
      BY <1>0, <2>11, Informed DEF WritePassword, TypeOK, Changing
    <3> QED
      BY <2>8, <2>11, <3>1 DEF WritePassword
  <2>12. ASSUME NEW u \in User, NEW kind \in {"UPDATE", "DISABLE", "ENABLE"}, EditUser(t, u, kind)
         PROVE  HeldPasswords'
    <3>1. Edited(kind, users[u]).password = users[u].password
      BY <1>0 DEF Edited, TypeOK, Row
    <3>2. users[u].password \in held[u]
      BY <1>0 DEF HeldPasswords
    <3> DEFINE r == [at |-> "save", user |-> u, entity |-> Edited(kind, users[u])]
    <3>3. r.user = u /\ r.entity = Edited(kind, users[u])
      OBVIOUS
    <3>4. Goto(t, r) /\ UNCHANGED <<users, held>>
      BY <2>12 DEF EditUser, history
    <3> HIDE DEF r
    <3> QED
      BY <2>1, <3>1, <3>2, <3>3, <3>4
  <2>13. CASE CompareUser(t)
    <3> DEFINE columns == {c \in Columns : task[t].entity[c] # users[task[t].user][c]}
               r == [at |-> "write", user |-> task[t].user, entity |-> task[t].entity,
                     columns |-> columns]
    <3>1. r.user = task[t].user /\ r.entity = task[t].entity
      OBVIOUS
    <3>2. Goto(t, r) /\ UNCHANGED <<users, held>>
      BY <2>13 DEF CompareUser, history
    <3> HIDE DEF r
    <3>3. task[t].entity.password \in held[task[t].user]
      BY <1>0, <2>13 DEF HeldPasswords, CompareUser
    <3> QED
      BY <2>1, <3>1, <3>2, <3>3
  <2>14. CASE SaveUser(t)
    <3>1. task[t].user \in User /\ task[t].entity.password \in held[task[t].user]
      BY <1>0, <2>14, Carries DEF HeldPasswords, SaveUser
    <3>2. ASSUME NEW v \in User
          PROVE  users'[v].password \in held[v]
      <4>1. users[v].password \in held[v]
        BY <1>0 DEF HeldPasswords
      <4>2. CASE v = task[t].user
        <5>1. users'[v].password \in {task[t].entity.password, users[v].password}
          BY <1>0, <2>14, <3>1, <4>2 DEF SaveUser, TypeOK
        <5> QED
          BY <3>1, <4>1, <4>2, <5>1
      <4>3. CASE v # task[t].user
        BY <1>0, <2>14, <4>1, <4>3 DEF SaveUser, TypeOK
      <4> QED
        BY <4>2, <4>3
    <3>3. Goto(t, Idle) /\ held' = held
      BY <2>14 DEF SaveUser, history
    <3> QED
      BY <1>0, <3>2, <3>3, CarriedOn DEF Idle
  <2>15. CASE Fail(t)
    BY <2>1, <2>15 DEF Fail, history, Idle
  <2> QED
    BY <1>1, <2>2, <2>3, <2>4, <2>5, <2>6, <2>7, <2>9, <2>10, <2>11, <2>12, <2>13, <2>14, <2>15
       DEF Step
<1>2. ASSUME UNCHANGED <<users, task, held>>
      PROVE  HeldPasswords'
  BY <1>0, <1>2 DEF HeldPasswords
<1> QED
  BY <1>1, <1>2 DEF Next, Tick, vars, history

LEMMA InvariantStep ==
    ASSUME IInv, [Next]_vars
    PROVE  IInv'
<1>0. TypeOK' /\ HeldPasswords'
  BY TypeStep, HeldStep DEF IInv
<1>1. ASSUME NEW t \in Task, Step(t)
      PROVE  IInv'
  BY <1>0, <1>1, QuietSteps, WriterSteps, RecoveryLocks, RecoveryInserts,
     ResetLocks, ResetUpdates, ResetCommits DEF Step
<1>2. ASSUME UNCHANGED <<users, tokens, task, history>>
      PROVE  IInv'
  BY <1>0, <1>2 DEF IInv, OnlyLastExists, UsedSetsPassword, ResetHolds, RecoveryHolds,
                    ActiveUntilCommit, Holding, TokensOf, history
<1> QED
  BY <1>1, <1>2 DEF Next, Tick, vars, history

LEMMA InvariantInit == ASSUME Init PROVE IInv
<1>0. HeldPasswords
  BY DEF Init, HeldPasswords, Idle
<1>1. TypeOK
  BY TypeInit
<1>2. OnlyLastExists /\ UsedSetsPassword
  BY DEF Init, OnlyLastExists, UsedSetsPassword
<1>3. ResetHolds /\ RecoveryHolds /\ ActiveUntilCommit
  BY DEF Init, ResetHolds, RecoveryHolds, ActiveUntilCommit, Holding, Idle
<1> QED
  BY <1>0, <1>1, <1>2, <1>3 DEF IInv

\* The invariant of the recovery's locks holds in every reachable state.
THEOREM InvariantHolds == Spec => []IInv
  BY InvariantInit, InvariantStep, PTL DEF Spec

---------------------------------------------------------------------------
(* The properties.                                                         *)

\* However many recoveries are asked for at once, an account never has two
\* tokens.
THEOREM OneTokenPerAccountHolds == Spec => []OneTokenPerAccount
<1>1. IInv => OneTokenPerAccount
  BY DEF IInv, OnlyLastExists, OneTokenPerAccount, TokensOf
<1> QED
  BY <1>1, InvariantHolds, PTL

\* A token that exists is used exactly if it has set a password; none sets two.
THEOREM UsedSetsPasswordHolds == Spec => []UsedSetsPassword
<1>1. IInv => UsedSetsPassword
  BY DEF IInv
<1> QED
  BY <1>1, InvariantHolds, PTL

\* A password is only set with the token issued last.
THEOREM OnlyLatestTokenHolds == Spec => OnlyLatestToken
<1>1. ASSUME IInv, [Next]_vars, NEW k \in Token, resets'[k] # resets[k]
      PROVE  last[issued[k]] = k
  <2>1. PICK t \in Task : UseToken(t)
    BY <1>1 DEF Next, Step, Tick, vars, history, ForgotPassword, DeleteTokens, InsertToken,
                ResetPassword, LockToken, UpdatePassword, ChangePassword, WritePassword,
                EditUser, CompareUser, SaveUser, Fail
  <2>2. task[t].token = k /\ task[t] \in Resetting /\ Holding(t)
    BY <1>1, <2>1, Informed DEF UseToken, IInv, TypeOK, Holding
  <2>3. tokens[k] = [user |-> task[t].user, ends |-> task[t].ends, used |-> FALSE]
    BY <1>1, <2>2 DEF IInv, ResetHolds
  <2>4. tokens[k] # None
    <3>1. tokens[k] \in ResetToken
      BY <2>2, <2>3 DEF Resetting, ResetToken
    <3> QED
      BY <3>1, AccountsAssumption
  <2> QED
    BY <1>1, <2>4 DEF IInv, OnlyLastExists
<1>2. IInv /\ [Next]_vars => [\A k \in Token : resets'[k] # resets[k] => last[issued[k]] = k]_vars
  BY <1>1
<1> QED
  BY <1>2, InvariantHolds, PTL DEF Spec, OnlyLatestToken

\* No recovery and no change sets the password of an account that is disabled.
THEOREM DisabledKeepsPasswordHolds == Spec => DisabledKeepsPassword
<1>1. ASSUME IInv, [Next]_vars, NEW t \in Task, NEW u \in User,
             task[t].at \in {"use", "change"}, task[t].user = u,
             task'[t] = Idle, users'[u].password # users[u].password
      PROVE  users[u].status = "ACTIVE"
  <2>1. task[t].at = "use" => users[u].status = "ACTIVE"
    BY <1>1 DEF IInv, ActiveUntilCommit
  <2>2. CASE task[t].at = "change"
    <3>1. PICK o \in Task : Step(o)
      BY <1>1 DEF Next, Tick, vars
    <3>2. o = t
      <4>1. task'[t] # task[t]
        BY <1>1, <2>2 DEF Idle
      <4>2. \E r : Goto(o, r)
        BY <3>1 DEF Step, ForgotPassword, DeleteTokens, InsertToken, ResetPassword, LockToken,
                    UpdatePassword, UseToken, ChangePassword, WritePassword, EditUser,
                    CompareUser, SaveUser, Fail
      <4> QED
        BY <1>1, <4>1, <4>2 DEF Goto, IInv, TypeOK
    <3>3. WritePassword(t)
      BY <1>1, <2>2, <3>1, <3>2 DEF Step, ForgotPassword, DeleteTokens, InsertToken,
         ResetPassword, LockToken, UpdatePassword, UseToken, ChangePassword, EditUser,
         CompareUser, SaveUser, Fail
    <3> QED
      BY <1>1, <3>3 DEF WritePassword, Updatable
  <2> QED
    BY <1>1, <2>1, <2>2
<1>2. IInv /\ [Next]_vars =>
        [\A t \in Task, u \in User :
           /\ task[t].at \in {"use", "change"} /\ task[t].user = u
           /\ task'[t] = Idle /\ users'[u].password # users[u].password
           => users[u].status = "ACTIVE"]_vars
  BY <1>1
<1> QED
  BY <1>2, InvariantHolds, PTL DEF Spec, DisabledKeepsPassword
---------------------------------------------------------------------------
(* The contract of accounts.                                               *)

\* The link of each row of the table, now and after a step.
LEMMA LinkOfRow ==
    /\ \A l : l \in Links <=> \E j \in Token :
         tokens[j] # None /\ l = [user |-> tokens[j].user, token |-> j, used |-> tokens[j].used]
    /\ \A l : l \in Links' <=> \E j \in Token :
         tokens'[j] # None /\ l = [user |-> tokens'[j].user, token |-> j, used |-> tokens'[j].used]
  BY DEF Links

\* A recovery that commits ends the account's link and adds one with a token
\* that no link ever had.
LEMMA RefinesRecover ==
    ASSUME IInv, NEW t \in Task, InsertToken(t)
    PROVE  Contract!Next
<1>1. task[t] \in Replacing /\ task[t].found = TokensOf(task[t].user)
  BY Informed DEF IInv, TypeOK, RecoveryHolds, InsertToken
<1>2. PICK u \in User : u = task[t].user
  BY <1>1 DEF Replacing
<1> DEFINE row == [user |-> u, ends |-> task[t].ends, used |-> FALSE]
<1>3. row.user = u /\ row.used = FALSE /\ row \in ResetToken
  BY <1>1, <1>2 DEF Replacing, ResetToken
<1> HIDE DEF row
<1>4. PICK k \in Token :
        /\ issued[k] = None
        /\ issued' = [issued EXCEPT ![k] = u]
        /\ tokens' = [o \in Token |->
                        IF o = k THEN row
                        ELSE IF o \in task[t].found THEN None ELSE tokens[o]]
  BY <1>2 DEF InsertToken, row
<1>5. u # None /\ row # None
  BY <1>3, AccountsAssumption
<1>6. tokens[k] = None
  <2>1. ASSUME tokens[k] # None
        PROVE  FALSE
    <3>1. issued[k] = tokens[k].user /\ tokens[k] \in ResetToken
      BY <2>1 DEF IInv, TypeOK, OnlyLastExists
    <3> QED
      BY <1>4, <3>1, AccountsAssumption DEF ResetToken
  <2> QED
    BY <2>1
<1>7. k \notin Drawn /\ Drawn' = Drawn \cup {k}
  BY <1>4, <1>5 DEF Drawn, IInv, TypeOK
<1>8. Links' = {l \in Links : l.user # u} \cup {Contract!Link(u, k, FALSE)}
  <2>1. ASSUME NEW l \in Links'
        PROVE  l \in {m \in Links : m.user # u} \cup {Contract!Link(u, k, FALSE)}
    <3>1. PICK j \in Token :
            tokens'[j] # None /\ l = [user |-> tokens'[j].user, token |-> j, used |-> tokens'[j].used]
      BY LinkOfRow
    <3>2. CASE j = k
      <4>1. tokens'[j] = row
        BY <1>4, <3>2
      <4> QED
        BY <1>3, <3>1, <3>2, <4>1 DEF Contract!Link
    <3>3. CASE j # k
      <4>1. tokens'[j] = tokens[j] /\ tokens[j].user # u
        BY <1>1, <1>2, <1>4, <3>1, <3>3 DEF TokensOf
      <4> QED
        BY <3>1, <4>1, LinkOfRow
    <3> QED
      BY <3>2, <3>3
  <2>2. ASSUME NEW l \in Links, l.user # u
        PROVE  l \in Links'
    <3>1. PICK j \in Token :
            tokens[j] # None /\ l = [user |-> tokens[j].user, token |-> j, used |-> tokens[j].used]
      BY LinkOfRow
    <3>2. j # k /\ j \notin TokensOf(u)
      BY <1>6, <2>2, <3>1 DEF TokensOf
    <3>3. tokens'[j] = tokens[j]
      BY <1>1, <1>2, <1>4, <3>2
    <3> QED
      BY <3>1, <3>3, LinkOfRow
  <2>3. Contract!Link(u, k, FALSE) \in Links'
    <3>1. tokens'[k] = row
      BY <1>4
    <3>2. Contract!Link(u, k, FALSE) = [user |-> tokens'[k].user, token |-> k, used |-> tokens'[k].used]
      BY <1>3, <3>1 DEF Contract!Link
    <3> QED
      BY <1>5, <3>1, <3>2, LinkOfRow DEF Contract!Link
  <2> QED
    BY <2>1, <2>2, <2>3
<1>9. Contract!Recover(u, k)
  BY <1>7, <1>8 DEF Contract!Recover, InsertToken
<1> QED
  BY <1>9 DEF Contract!Next

\* A reset that commits sets the password of an active account with its
\* unused link, and uses it.
LEMMA RefinesReset ==
    ASSUME IInv, NEW t \in Task, UseToken(t)
    PROVE  Contract!Next
<1>1. task[t] \in Resetting /\ Holding(t)
  BY Informed DEF IInv, TypeOK, UseToken, Holding
<1>2. PICK u \in User, k \in Token, p \in Password, e \in Expiry :
        u = task[t].user /\ k = task[t].token /\ p = task[t].password /\ e = task[t].ends
  BY <1>1 DEF Resetting
<1>3. tokens[k] = [user |-> u, ends |-> e, used |-> FALSE] /\ users[u].status = "ACTIVE"
  BY <1>1, <1>2 DEF IInv, ResetHolds, ActiveUntilCommit, UseToken
<1>4. /\ users' = [users EXCEPT ![u].password = p]
      /\ held' = [held EXCEPT ![u] = @ \cup {p}]
      /\ tokens' = [tokens EXCEPT ![k] = [user |-> u, ends |-> e, used |-> TRUE]]
      /\ Drawn' = Drawn
  BY <1>2 DEF UseToken, Drawn
<1>5. /\ tokens[k].user = u /\ tokens[k].used = FALSE /\ tokens[k] \in ResetToken
      /\ tokens'[k].user = u /\ tokens'[k].used = TRUE /\ tokens'[k] \in ResetToken
      /\ \A j \in Token : j # k => tokens'[j] = tokens[j]
  BY <1>2, <1>3, <1>4 DEF IInv, TypeOK, ResetToken
<1>6. tokens[k] # None /\ tokens'[k] # None
  BY <1>5, AccountsAssumption
<1>7. /\ Contract!Link(u, k, FALSE) = [user |-> tokens[k].user, token |-> k, used |-> tokens[k].used]
       /\ Contract!Link(u, k, TRUE) = [user |-> tokens'[k].user, token |-> k, used |-> tokens'[k].used]
  BY <1>5 DEF Contract!Link
<1>8. Links' = (Links \ {Contract!Link(u, k, FALSE)}) \cup {Contract!Link(u, k, TRUE)}
  <2>1. ASSUME NEW l \in Links'
        PROVE  l \in (Links \ {Contract!Link(u, k, FALSE)}) \cup {Contract!Link(u, k, TRUE)}
    <3>1. PICK j \in Token :
            tokens'[j] # None /\ l = [user |-> tokens'[j].user, token |-> j, used |-> tokens'[j].used]
      BY LinkOfRow
    <3>2. CASE j = k
      BY <1>7, <3>1, <3>2
    <3>3. CASE j # k
      <4>1. l \in Links /\ l.token = j
        BY <1>5, <3>1, <3>3, LinkOfRow
      <4> QED
        BY <3>3, <4>1 DEF Contract!Link
    <3> QED
      BY <3>2, <3>3
  <2>2. ASSUME NEW l \in Links, l # Contract!Link(u, k, FALSE)
        PROVE  l \in Links'
    <3>1. PICK j \in Token :
            tokens[j] # None /\ l = [user |-> tokens[j].user, token |-> j, used |-> tokens[j].used]
      BY LinkOfRow
    <3>2. j # k
      BY <1>7, <2>2, <3>1
    <3> QED
      BY <1>5, <3>1, <3>2, LinkOfRow
  <2>3. Contract!Link(u, k, TRUE) \in Links'
    BY <1>6, <1>7, LinkOfRow
  <2> QED
    BY <2>1, <2>2, <2>3
<1>9. Contract!Link(u, k, FALSE) \in Links
  BY <1>6, <1>7, LinkOfRow
<1>10. Contract!Reset(u, k, p)
  BY <1>3, <1>4, <1>8, <1>9 DEF Contract!Reset, Contract!SetPassword
<1> QED
  BY <1>10 DEF Contract!Next

LEMMA RefinesChange ==
    ASSUME IInv, NEW t \in Task, WritePassword(t)
    PROVE  Contract!Next
<1>1. task[t].user \in User /\ task[t].password \in Password
  BY Informed DEF IInv, TypeOK, WritePassword, Changing
<1>2. Links' = Links /\ Drawn' = Drawn
  BY DEF WritePassword, Links, Drawn
<1>3. Contract!Change(task[t].user, task[t].password)
  BY <1>2 DEF WritePassword, Updatable, Contract!Change, Contract!SetPassword
<1> QED
  BY <1>1, <1>3 DEF Contract!Next

\* A save leaves a password that the account was given: the one it has, or the
\* one it had when the entity was read.
LEMMA RefinesSave ==
    ASSUME IInv, NEW t \in Task, SaveUser(t)
    PROVE  Contract!Next
<1>1. task[t].user \in User /\ task[t].entity \in Row
  BY Carries DEF IInv, SaveUser
<1>2. PICK u \in User : u = task[t].user
  BY <1>1
<1>3. task[t].entity.password \in held[u] /\ users[u].password \in held[u] /\ users[u] \in Row
  BY <1>2 DEF IInv, TypeOK, HeldPasswords, SaveUser
<1> DEFINE status == IF "status" \in task[t].columns THEN task[t].entity.status ELSE users[u].status
           password == IF "password" \in task[t].columns THEN task[t].entity.password
                       ELSE users[u].password
<1>4. users' = [users EXCEPT ![u] = [status |-> status, password |-> password]]
  BY <1>2 DEF SaveUser, IInv, TypeOK
<1>5. status \in {"ACTIVE", "INACTIVE"} /\ password \in held[u]
  BY <1>1, <1>3 DEF Row
<1> HIDE DEF status, password
<1>6. Links' = Links /\ Drawn' = Drawn
  BY DEF SaveUser, Links, Drawn, history
<1>7. Contract!Administer(u)
  BY <1>4, <1>5, <1>6 DEF Contract!Administer, SaveUser, history
<1> QED
  BY <1>7 DEF Contract!Next

LEMMA RefinesNext ==
    ASSUME IInv, [Next]_vars
    PROVE  [Contract!Next]_<<users, Links, Drawn, held>>
<1>1. ASSUME UNCHANGED <<users, tokens, history>>
      PROVE  UNCHANGED <<users, Links, Drawn, held>>
  BY <1>1 DEF Links, Drawn, history
<1>2. ASSUME NEW t \in Task, Step(t)
      PROVE  Contract!Next \/ UNCHANGED <<users, tokens, history>>
  <2>1. CASE InsertToken(t) \/ UseToken(t) \/ WritePassword(t) \/ SaveUser(t)
    BY <2>1, RefinesRecover, RefinesReset, RefinesChange, RefinesSave
  <2> QED
    BY <1>2, <2>1 DEF Step, ForgotPassword, DeleteTokens, ResetPassword, LockToken,
       UpdatePassword, ChangePassword, EditUser, CompareUser, Fail
<1>3. ASSUME Tick \/ UNCHANGED vars
      PROVE  UNCHANGED <<users, tokens, history>>
  BY <1>3 DEF Tick, vars, history
<1> QED
  BY <1>1, <1>2, <1>3 DEF Next

LEMMA RefinesInit == ASSUME Init PROVE Contract!Init
<1>1. Links = {} /\ Drawn = {}
  BY DEF Init, Links, Drawn
<1> QED
  BY <1>1 DEF Init, Contract!Init

\* Every behaviour of the requests, with their locks and failures, is for
\* accounts and links a behaviour of the contract: the password that works is
\* always one the account was given.
THEOREM ContractKept == Spec => KeepsContract
<1>1. Init => Contract!Init
  BY RefinesInit
<1>2. IInv /\ [Next]_vars => [Contract!Next]_<<users, Links, Drawn, held>>
  BY RefinesNext
<1> QED
  BY <1>1, <1>2, InvariantHolds, PTL DEF Spec, KeepsContract, Contract!Spec
=============================================================================
