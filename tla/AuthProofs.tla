----------------------------- MODULE AuthProofs -----------------------------
(***************************************************************************)
(* Proofs about Auth for every set of names, passwords and codes and every *)
(* set of auto-lock choices.                                               *)
(***************************************************************************)
EXTENDS Auth, TLAPS

-----------------------------------------------------------------------------
(* Type correctness.                                                       *)

\* Saving a well-typed table keeps the file variables well typed.
LEMMA SaveTyped ==
  ASSUME TypeOK, NEW table \in AccountsTable, SaveAccounts(table)
  PROVE  /\ accounts' \in AccountsTable
         /\ autoLock' \in AutoLockChoices
         /\ stored' \in [accounts : AccountsTable, autoLock : AutoLockChoices]
         /\ writable' \in BOOLEAN /\ unsaved' \in BOOLEAN
BY DEF TypeOK, SaveAccounts, Sync

\* A restarted timer is off or runs a whole choice of minutes.
LEMMA TimerTyped ==
  ASSUME NEW u, NEW m \in AutoLockChoices
  PROVE  TimerFor(u, m) \in (0 .. IdleBound) \cup {Off}
BY MinutesAssumption DEF TimerFor, Off

\* Every step of Next keeps the variables in their types.
LEMMA TypeStep == TypeOK /\ [Next]_vars => TypeOK'
<1> SUFFICES ASSUME TypeOK, [Next]_vars PROVE TypeOK'
  OBVIOUS
<1> USE DEF TypeOK, sessionVars, clockVars, fileVars
<1>0. 0 \in 0 .. IdleBound
  BY MinutesAssumption
<1>1. ASSUME NEW u \in Name, NEW p \in Password, NEW c \in Code,
             SetUpFirstAccount(u, p, c)
      PROVE  TypeOK'
  <2>1. [accounts EXCEPT ![u] = [isAdmin |-> TRUE, pw |-> p, code |-> c]]
          \in AccountsTable
    BY DEF AccountsTable, Account
  <2> QED
    BY <1>0, <1>1, <2>1, SaveTyped, TimerTyped
    DEF SetUpFirstAccount, OpenSession, Issue
<1>2. ASSUME NEW u \in Name, NEW p \in Password, NEW c \in Code,
             NEW isAdmin \in BOOLEAN, AddAccount(u, p, isAdmin, c)
      PROVE  TypeOK'
  <2>1. [accounts EXCEPT ![u] = [isAdmin |-> isAdmin, pw |-> p, code |-> c]]
          \in AccountsTable
    BY DEF AccountsTable, Account
  <2> QED
    BY <1>2, <2>1, SaveTyped DEF AddAccount, Issue
<1>3. ASSUME NEW u \in Name, NEW p \in Password, NEW c \in Code,
             RegenerateRecoveryCode(u, p, c)
      PROVE  TypeOK'
  <2>1. [accounts EXCEPT ![u] = [@ EXCEPT !.code = c]] \in AccountsTable
    BY <1>3 DEF RegenerateRecoveryCode, AccountsTable, Account, Users
  <2> QED
    BY <1>3, <2>1, SaveTyped DEF RegenerateRecoveryCode, Issue
<1>4. ASSUME NEW u \in Name, NEW p \in Password, NEW c \in Code,
             NEW old \in Code, RecoverPassword(u, old, p, c)
      PROVE  TypeOK'
  <2>1. [accounts EXCEPT ![u] = [@ EXCEPT !.pw = p, !.code = c]]
          \in AccountsTable
    BY <1>4 DEF RecoverPassword, AccountsTable, Account, Users
  <2> QED
    BY <1>4, <2>1, SaveTyped DEF RecoverPassword, Issue
<1>5. ASSUME NEW u \in Name, NEW p \in Password, NEW new \in Password,
             ChangePassword(u, p, new)
      PROVE  TypeOK'
  <2>1. [accounts EXCEPT ![u] = [@ EXCEPT !.pw = new]] \in AccountsTable
    BY <1>5 DEF ChangePassword, AccountsTable, Account, Users
  <2> QED
    BY <1>5, <2>1, SaveTyped DEF ChangePassword
<1>6. ASSUME NEW u \in Name, NEW p \in Password, DeleteAccount(u, p)
      PROVE  TypeOK'
  <2>1. [accounts EXCEPT ![u] = NoAccount] \in AccountsTable
    BY DEF AccountsTable
  <2> QED
    BY <1>0, <1>6, <2>1, SaveTyped DEF DeleteAccount, EndSession, Off
<1>7. ASSUME NEW u \in Name, NEW p \in Password, Login(u, p)
      PROVE  TypeOK'
  <2>1. accounts[u].isAdmin \in BOOLEAN
    BY <1>7 DEF Login, AccountsTable, Account, Users
  <2> QED
    BY <1>0, <1>7, <2>1, TimerTyped DEF Login, OpenSession
<1>8. ASSUME NEW p \in Password, Unlock(p) PROVE TypeOK'
  BY <1>0, <1>8, TimerTyped DEF Unlock
<1>9. CASE LockNow
  BY <1>0, <1>9 DEF LockNow, Off
<1>10. CASE Logout
  BY <1>0, <1>10 DEF Logout, EndSession, Off
<1>11. ASSUME NEW m \in AutoLockChoices, SetAutoLockMinutes(m)
       PROVE  TypeOK'
  BY <1>0, <1>11, TimerTyped DEF SetAutoLockMinutes, Sync
<1>12. CASE NoteActivity
  BY <1>0, <1>12, TimerTyped DEF NoteActivity
<1>13. CASE MinutePasses
  BY <1>13, MinutesAssumption DEF MinutePasses, Off
<1>14. CASE InactivityTimeout
  BY <1>0, <1>14 DEF InactivityTimeout, Off
<1>15. CASE Restart
  BY <1>0, <1>15, TimerTyped DEF Restart
<1>16. CASE StorageChanges
  BY <1>16 DEF StorageChanges
<1>17. CASE UNCHANGED vars
  BY <1>17 DEF vars
<1> QED
  BY <1>1, <1>2, <1>3, <1>4, <1>5, <1>6, <1>7, <1>8, <1>9, <1>10, <1>11,
     <1>12, <1>13, <1>14, <1>15, <1>16, <1>17
  DEF Next, AccountStep, SessionStep, EnvironmentStep

\* The shell starts from a well-typed state.
LEMMA TypeInit == Init => TypeOK
<1> SUFFICES ASSUME Init PROVE TypeOK
  OBVIOUS
<1>1. PICK table \in FirstFiles, m \in AutoLockChoices :
        /\ Boot(table, m)
        /\ stored = [accounts |-> table, autoLock |-> m]
        /\ writable = TRUE
        /\ unsaved = FALSE
        /\ issued = ValidCodes(table)
  BY DEF Init
<1>2. table \in AccountsTable
  <2>1. NoAccounts \in AccountsTable
    BY DEF NoAccounts, AccountsTable
  <2>2. ASSUME NEW u \in Name, NEW p \in Password,
               NEW c \in Code \cup {NoCode}
        PROVE  OneAdmin(u, p, c) \in AccountsTable
    <3>1. [isAdmin |-> TRUE, pw |-> p, code |-> c] \in Account
      BY DEF Account
    <3> QED
      BY <2>1, <3>1 DEF OneAdmin, AccountsTable
  <2> QED
    BY <2>1, <2>2 DEF FirstFiles
<1>3. ValidCodes(table) \subseteq Code
  BY <1>2 DEF ValidCodes, Users, AccountsTable, Account
<1>4. 0 \in 0 .. IdleBound
  BY MinutesAssumption
<1> QED
  BY <1>1, <1>2, <1>3, <1>4, TimerTyped DEF TypeOK, Boot

\* Every reachable state is well typed.
THEOREM TypeCorrect == Spec => []TypeOK
BY TypeInit, TypeStep, PTL DEF Spec

-----------------------------------------------------------------------------
(* Accounts, session and lock screen.  AdminRemains and SessionIsCurrent   *)
(* are needed together: the admin who deletes somebody else is itself an   *)
(* admin that remains only because the cached session is current.          *)

SessionInv == AdminRemains /\ SessionIsCurrent /\ LockScreenIffProtected

\* Writing one record adds its user and settles whether that user is an
\* admin; the other users and admins are untouched.
LEMMA RecordWritten ==
  ASSUME NEW table \in AccountsTable, NEW u \in Name, NEW a \in Account
  PROVE  /\ Users([table EXCEPT ![u] = a]) = Users(table) \cup {u}
         /\ a.isAdmin =>
              Admins([table EXCEPT ![u] = a]) = Admins(table) \cup {u}
         /\ ~a.isAdmin =>
              Admins([table EXCEPT ![u] = a]) = Admins(table) \ {u}
<1> DEFINE new == [table EXCEPT ![u] = a]
<1>1. /\ new[u] = a
      /\ \A v \in Name : v # u => new[v] = table[v]
  BY DEF AccountsTable
<1>2. a # NoAccount
  BY AccountAssumption
<1>3. Users(new) = Users(table) \cup {u}
  BY <1>1, <1>2 DEF Users
<1>4. a.isAdmin => Admins(new) = Admins(table) \cup {u}
  BY <1>1, <1>3 DEF Admins, Users
<1>5. ~a.isAdmin => Admins(new) = Admins(table) \ {u}
  BY <1>1, <1>3 DEF Admins, Users
<1> QED
  BY <1>3, <1>4, <1>5

\* Erasing one record removes its user and nobody else.
LEMMA RecordErased ==
  ASSUME NEW table \in AccountsTable, NEW u \in Name
  PROVE  /\ Users([table EXCEPT ![u] = NoAccount]) = Users(table) \ {u}
         /\ Admins([table EXCEPT ![u] = NoAccount]) = Admins(table) \ {u}
BY DEF AccountsTable, Admins, Users

\* Rewriting the secrets of an account leaves users and rights alone.
LEMMA SecretsRewritten ==
  ASSUME NEW table \in AccountsTable, NEW u \in Users(table), NEW a \in Account,
         a.isAdmin = table[u].isAdmin
  PROVE  /\ Users([table EXCEPT ![u] = a]) = Users(table)
         /\ Admins([table EXCEPT ![u] = a]) = Admins(table)
         /\ \A v \in Name : [table EXCEPT ![u] = a][v].isAdmin = table[v].isAdmin
<1> DEFINE new == [table EXCEPT ![u] = a]
<1>1. u \in Name
  BY DEF Users
<1>2. /\ Users(new) = Users(table) \cup {u}
      /\ a.isAdmin => Admins(new) = Admins(table) \cup {u}
      /\ ~a.isAdmin => Admins(new) = Admins(table) \ {u}
  BY <1>1, RecordWritten
<1>3. \A v \in Name : new[v].isAdmin = table[v].isAdmin
  BY <1>1 DEF AccountsTable
<1>4. u \in Admins(table) <=> a.isAdmin
  BY DEF Admins
<1> QED
  BY <1>2, <1>3, <1>4

\* Saving a table that has an admin if it has users keeps AdminRemains.
LEMMA SaveKeepsAdmins ==
  ASSUME AdminRemains, NEW table, SaveAccounts(table),
         Users(table) # {} => Admins(table) # {}
  PROVE  AdminRemains'
<1>1. accounts' = table
  BY DEF SaveAccounts
<1>2. stored'.accounts = table \/ stored'.accounts = stored.accounts
  BY DEF SaveAccounts, Sync
<1> QED
  BY <1>1, <1>2 DEF AdminRemains

\* Rewriting secrets keeps the whole session invariant.
LEMMA SecretsKeepSession ==
  ASSUME TypeOK, SessionInv, NEW u \in Users(accounts), NEW a \in Account,
         a.isAdmin = accounts[u].isAdmin,
         SaveAccounts([accounts EXCEPT ![u] = a]),
         UNCHANGED sessionVars
  PROVE  SessionInv'
<1> DEFINE new == [accounts EXCEPT ![u] = a]
<1>1. /\ Users(new) = Users(accounts)
      /\ Admins(new) = Admins(accounts)
      /\ \A v \in Name : new[v].isAdmin = accounts[v].isAdmin
  BY SecretsRewritten DEF TypeOK
<1>2. accounts' = new
  BY DEF SaveAccounts
<1>3. Users(new) # {} => Admins(new) # {}
  BY <1>1 DEF SessionInv, AdminRemains
<1>4. AdminRemains'
  BY <1>3, SaveKeepsAdmins DEF SessionInv
<1>5. SessionIsCurrent'
  BY <1>1, <1>2 DEF SessionInv, SessionIsCurrent, sessionVars, TypeOK, Users
<1>6. LockScreenIffProtected'
  BY <1>1, <1>2 DEF SessionInv, LockScreenIffProtected, sessionVars
<1> QED
  BY <1>4, <1>5, <1>6 DEF SessionInv

\* Every step keeps the session invariant.
LEMMA SessionStepKeeps == TypeOK /\ SessionInv /\ [Next]_vars => SessionInv'
<1> SUFFICES ASSUME TypeOK, SessionInv, [Next]_vars PROVE SessionInv'
  OBVIOUS
<1> USE SecretsAssumption
<1>1. ASSUME NEW u \in Name, NEW p \in Password, NEW c \in Code,
             SetUpFirstAccount(u, p, c)
      PROVE  SessionInv'
  <2>1. PICK a \in Account : a = [isAdmin |-> TRUE, pw |-> p, code |-> c]
    BY DEF Account
  <2> DEFINE new == [accounts EXCEPT ![u] = a]
  <2>2. Users(new) = {u} /\ Admins(new) # {}
    <3>1. /\ Users(new) = Users(accounts) \cup {u}
          /\ Admins(new) = Admins(accounts) \cup {u}
      <4>1. accounts \in AccountsTable /\ a.isAdmin
        BY <2>1 DEF TypeOK
      <4> QED
        BY <4>1, RecordWritten
    <3> QED
      BY <1>1, <3>1 DEF SetUpFirstAccount
  <2>3. AdminRemains'
    BY <1>1, <2>1, <2>2, SaveKeepsAdmins DEF SetUpFirstAccount, SessionInv
  <2>4. accounts' = new /\ new[u] = a
    BY <1>1, <2>1 DEF SetUpFirstAccount, SaveAccounts, TypeOK, AccountsTable
  <2>5. user' = u /\ userIsAdmin' = TRUE /\ locked' = FALSE
    BY <1>1 DEF SetUpFirstAccount, OpenSession
  <2>6. user' \in Users(accounts') /\ userIsAdmin' = accounts'[user'].isAdmin
    <3>1. Users(accounts') = {u} /\ accounts'[u] = a
      BY <2>2, <2>4
    <3>2. a.isAdmin = TRUE
      BY <2>1
    <3> QED
      BY <2>5, <3>1, <3>2
  <2>7. user' # NoUser
    BY <2>5
  <2> QED
    BY <2>3, <2>5, <2>6, <2>7
    DEF SessionInv, SessionIsCurrent, LockScreenIffProtected
<1>2. ASSUME NEW u \in Name, NEW p \in Password, NEW c \in Code,
             NEW isAdmin \in BOOLEAN, AddAccount(u, p, isAdmin, c)
      PROVE  SessionInv'
  <2>0. PICK a \in Account : a = [isAdmin |-> isAdmin, pw |-> p, code |-> c]
    BY DEF Account
  <2> DEFINE new == [accounts EXCEPT ![u] = a]
  <2>1. u \notin Users(accounts)
    BY <1>2 DEF AddAccount
  <2>2. /\ Users(new) = Users(accounts) \cup {u}
        /\ Admins(accounts) \subseteq Admins(new)
    <3>1. /\ Users(new) = Users(accounts) \cup {u}
          /\ Admins(accounts) \ {u} \subseteq Admins(new)
      <4>1. accounts \in AccountsTable
        BY DEF TypeOK
      <4>2. Users(new) = Users(accounts) \cup {u}
        BY <4>1, RecordWritten
      <4>3. CASE a.isAdmin
        <5>1. Admins(new) = Admins(accounts) \cup {u}
          BY <4>1, <4>3, RecordWritten
        <5> QED
          BY <4>2, <5>1
      <4>4. CASE ~a.isAdmin
        <5>1. Admins(new) = Admins(accounts) \ {u}
          BY <4>1, <4>4, RecordWritten
        <5> QED
          BY <4>2, <5>1
      <4> QED
        BY <4>3, <4>4
    <3> QED
      BY <2>1, <3>1 DEF Admins
  <2>3. AdminRemains'
    BY <1>2, <2>0, <2>2, SaveKeepsAdmins DEF AddAccount, SessionInv, AdminRemains
  <2>4. accounts' = new /\ (\A v \in Users(accounts) : new[v] = accounts[v])
    BY <1>2, <2>0, <2>1 DEF AddAccount, SaveAccounts, TypeOK, AccountsTable, Users
  <2>5. UNCHANGED <<user, userIsAdmin, locked>>
    BY <1>2 DEF AddAccount, sessionVars
  <2>6. Users(accounts) # {}
    BY <1>2 DEF AddAccount
  <2> QED
    BY <2>2, <2>3, <2>4, <2>5, <2>6
    DEF SessionInv, SessionIsCurrent, LockScreenIffProtected
<1>3. ASSUME NEW u \in Name, NEW p \in Password, NEW c \in Code,
             RegenerateRecoveryCode(u, p, c)
      PROVE  SessionInv'
  <2>1. [accounts[u] EXCEPT !.code = c] \in Account
        /\ [accounts[u] EXCEPT !.code = c].isAdmin = accounts[u].isAdmin
    BY <1>3 DEF RegenerateRecoveryCode, Users, TypeOK, AccountsTable, Account
  <2> QED
    BY <1>3, <2>1, SecretsKeepSession DEF RegenerateRecoveryCode
<1>4. ASSUME NEW u \in Name, NEW p \in Password, NEW c \in Code,
             NEW old \in Code, RecoverPassword(u, old, p, c)
      PROVE  SessionInv'
  <2>1. [accounts[u] EXCEPT !.pw = p, !.code = c] \in Account
        /\ [accounts[u] EXCEPT !.pw = p, !.code = c].isAdmin = accounts[u].isAdmin
    BY <1>4 DEF RecoverPassword, Users, TypeOK, AccountsTable, Account
  <2> QED
    BY <1>4, <2>1, SecretsKeepSession DEF RecoverPassword
<1>5. ASSUME NEW u \in Name, NEW p \in Password, NEW new \in Password,
             ChangePassword(u, p, new)
      PROVE  SessionInv'
  <2>1. [accounts[u] EXCEPT !.pw = new] \in Account
        /\ [accounts[u] EXCEPT !.pw = new].isAdmin = accounts[u].isAdmin
    BY <1>5 DEF ChangePassword, Users, TypeOK, AccountsTable, Account
  <2> QED
    BY <1>5, <2>1, SecretsKeepSession DEF ChangePassword
<1>6. ASSUME NEW u \in Name, NEW p \in Password, DeleteAccount(u, p)
      PROVE  SessionInv'
  <2> DEFINE new == [accounts EXCEPT ![u] = NoAccount]
  <2>1. /\ Users(new) = Users(accounts) \ {u}
        /\ Admins(new) = Admins(accounts) \ {u}
    BY RecordErased DEF TypeOK
  <2>2. user \in Admins(accounts) /\ Admins(accounts) # {u}
    BY <1>6 DEF DeleteAccount, SessionInv, SessionIsCurrent, Admins, TypeOK, Users
  <2>3. Admins(new) # {} /\ Users(new) # {}
    BY <2>1, <2>2 DEF Admins
  <2>4. AdminRemains'
    BY <1>6, <2>3, SaveKeepsAdmins DEF DeleteAccount, SessionInv
  <2>5. accounts' = new /\ (\A v \in Name \ {u} : new[v] = accounts[v])
    BY <1>6 DEF DeleteAccount, SaveAccounts, TypeOK, AccountsTable
  <2>6. CASE u = user
    BY <1>6, <2>3, <2>4, <2>5, <2>6
    DEF DeleteAccount, EndSession, SessionInv, SessionIsCurrent,
        LockScreenIffProtected
  <2>7. CASE u # user
    <3>1. UNCHANGED <<user, userIsAdmin, locked>> /\ user \in Users(new)
      BY <1>6, <2>1, <2>2, <2>7 DEF DeleteAccount, sessionVars, Admins
    <3>2. user \in Name /\ user # NoUser /\ new[user] = accounts[user]
      BY <2>2, <2>5, <2>7 DEF Admins, Users
    <3> QED
      BY <2>4, <2>5, <3>1, <3>2
      DEF SessionInv, SessionIsCurrent, LockScreenIffProtected
  <2> QED
    BY <2>6, <2>7
<1>7. ASSUME NEW u \in Name, NEW p \in Password, Login(u, p)
      PROVE  SessionInv'
  BY <1>7 DEF Login, OpenSession, fileVars, SessionInv, AdminRemains,
              SessionIsCurrent, LockScreenIffProtected
<1>8. ASSUME NEW p \in Password, Unlock(p) PROVE SessionInv'
  BY <1>8 DEF Unlock, fileVars, SessionInv, AdminRemains, SessionIsCurrent,
              LockScreenIffProtected, Users
<1>9. CASE LockNow
  BY <1>9 DEF LockNow, fileVars, SessionInv, AdminRemains, SessionIsCurrent,
              LockScreenIffProtected
<1>10. CASE Logout
  BY <1>10 DEF Logout, EndSession, fileVars, SessionInv, AdminRemains,
               SessionIsCurrent, LockScreenIffProtected
<1>11. ASSUME NEW m \in AutoLockChoices, SetAutoLockMinutes(m)
       PROVE  SessionInv'
  <2>1. stored'.accounts \in {accounts, stored.accounts}
    BY <1>11 DEF SetAutoLockMinutes, Sync
  <2> QED
    BY <1>11, <2>1 DEF SetAutoLockMinutes, sessionVars, SessionInv, AdminRemains,
                       SessionIsCurrent, LockScreenIffProtected
<1>12. CASE NoteActivity \/ MinutePasses \/ StorageChanges \/ UNCHANGED vars
  BY <1>12 DEF NoteActivity, MinutePasses, StorageChanges, vars, fileVars,
               sessionVars, SessionInv, AdminRemains, SessionIsCurrent,
               LockScreenIffProtected
<1>13. CASE InactivityTimeout
  BY <1>13 DEF InactivityTimeout, fileVars, SessionInv, AdminRemains,
               SessionIsCurrent, LockScreenIffProtected
<1>14. CASE Restart
  BY <1>14 DEF Restart, SessionInv, AdminRemains, SessionIsCurrent,
               LockScreenIffProtected
<1> QED
  BY <1>1, <1>2, <1>3, <1>4, <1>5, <1>6, <1>7, <1>8, <1>9, <1>10, <1>11,
     <1>12, <1>13, <1>14
  DEF Next, AccountStep, SessionStep, EnvironmentStep

\* The shell starts with an admin among its accounts, if it has any.
LEMMA SessionInit == Init => SessionInv
<1> SUFFICES ASSUME Init PROVE SessionInv
  OBVIOUS
<1>1. PICK table \in FirstFiles, m \in AutoLockChoices :
        /\ Boot(table, m)
        /\ stored = [accounts |-> table, autoLock |-> m]
  BY DEF Init
<1>2. Users(table) # {} => Admins(table) # {}
  <2>1. NoAccounts \in AccountsTable /\ Users(NoAccounts) = {}
    BY DEF NoAccounts, AccountsTable, Users
  <2>2. ASSUME NEW u \in Name, NEW p \in Password,
               NEW c \in Code \cup {NoCode}
        PROVE  u \in Admins(OneAdmin(u, p, c))
    <3>1. PICK a \in Account : a = [isAdmin |-> TRUE, pw |-> p, code |-> c]
      BY DEF Account
    <3>2. a.isAdmin
      BY <3>1
    <3>3. Admins([NoAccounts EXCEPT ![u] = a]) = Admins(NoAccounts) \cup {u}
      BY <2>1, <3>2, RecordWritten
    <3> QED
      BY <3>1, <3>3 DEF OneAdmin
  <2> QED
    BY <2>1, <2>2 DEF FirstFiles
<1> QED
  BY <1>1, <1>2 DEF Boot, SessionInv, AdminRemains, SessionIsCurrent,
                    LockScreenIffProtected

\* In every reachable state an admin remains, in memory and on disk.
THEOREM AdminAlwaysRemains == Spec => []AdminRemains
<1>1. SessionInv => AdminRemains
  BY DEF SessionInv
<1> QED
  BY <1>1, SessionInit, SessionStepKeeps, TypeCorrect, PTL DEF Spec

\* In every reachable state the cached session agrees with the accounts.
THEOREM SessionAlwaysCurrent == Spec => []SessionIsCurrent
<1>1. SessionInv => SessionIsCurrent
  BY DEF SessionInv
<1> QED
  BY <1>1, SessionInit, SessionStepKeeps, TypeCorrect, PTL DEF Spec

\* In every reachable state the overlay shows exactly when it has to.
THEOREM LockScreenAlwaysRight == Spec => []LockScreenIffProtected
<1>1. SessionInv => LockScreenIffProtected
  BY DEF SessionInv
<1> QED
  BY <1>1, SessionInit, SessionStepKeeps, TypeCorrect, PTL DEF Spec

-----------------------------------------------------------------------------
(* The auto-lock deadline: the timer and the idle minutes of an unlocked   *)
(* session always add up to the chosen minutes.  Every step that opens a   *)
(* session, or changes the minutes of one, restarts both together.         *)

\* Every step keeps the deadline.
LEMMA DeadlineStep == TypeOK /\ AutoLockDeadline /\ [Next]_vars => AutoLockDeadline'
<1> SUFFICES ASSUME TypeOK, AutoLockDeadline, [Next]_vars
             PROVE  AutoLockDeadline'
  OBVIOUS
<1>0. /\ autoLock \in Nat /\ autoLock < IdleBound
      /\ \A m \in AutoLockChoices : m \in Nat
      /\ IdleBound \in Nat
      /\ idle \in 0 .. IdleBound
      /\ timer \in (0 .. IdleBound) \cup {Off}
  BY MinutesAssumption DEF TypeOK
<1>1. ASSUME NEW u \in Name, NEW isAdmin, OpenSession(u, isAdmin),
             autoLock' = autoLock
      PROVE  AutoLockDeadline'
  BY <1>0, <1>1 DEF AutoLockDeadline, OpenSession, TimerFor, Off
<1>2. ASSUME NEW table, EndSession(table) PROVE AutoLockDeadline'
  BY <1>2 DEF AutoLockDeadline, EndSession
<1>3. ASSUME UNCHANGED <<sessionVars, clockVars, autoLock>>
      PROVE  AutoLockDeadline'
  BY <1>3 DEF AutoLockDeadline, sessionVars, clockVars
<1>4. ASSUME AccountStep PROVE AutoLockDeadline'
  <2>1. ASSUME NEW u \in Name, NEW p \in Password, NEW c \in Code,
               SetUpFirstAccount(u, p, c)
        PROVE  AutoLockDeadline'
    BY <1>1, <2>1 DEF SetUpFirstAccount, SaveAccounts
  <2>2. ASSUME NEW u \in Name, NEW p \in Password, DeleteAccount(u, p)
        PROVE  AutoLockDeadline'
    <3>1. autoLock' = autoLock
      BY <2>2 DEF DeleteAccount, SaveAccounts
    <3>2. CASE u = user
      BY <1>2, <2>2, <3>2 DEF DeleteAccount
    <3>3. CASE u # user
      BY <1>3, <2>2, <3>1, <3>3 DEF DeleteAccount
    <3> QED
      BY <3>2, <3>3
  <2>3. ASSUME NEW table, SaveAccounts(table), UNCHANGED <<sessionVars, clockVars>>
        PROVE  AutoLockDeadline'
    BY <1>3, <2>3 DEF SaveAccounts
  <2>4. ASSUME NEW u \in Name, NEW p \in Password, NEW c \in Code,
               \/ \E isAdmin \in BOOLEAN : AddAccount(u, p, isAdmin, c)
               \/ RegenerateRecoveryCode(u, p, c)
               \/ \E old \in Code : RecoverPassword(u, old, p, c)
        PROVE  AutoLockDeadline'
    BY <2>3, <2>4 DEF AddAccount, RegenerateRecoveryCode, RecoverPassword
  <2>5. ASSUME NEW u \in Name, NEW p \in Password, NEW new \in Password,
               ChangePassword(u, p, new)
        PROVE  AutoLockDeadline'
    BY <2>3, <2>5 DEF ChangePassword
  <2> QED
    BY <1>4, <2>1, <2>2, <2>4, <2>5 DEF AccountStep
<1>5. ASSUME NEW u \in Name, NEW p \in Password, Login(u, p)
      PROVE  AutoLockDeadline'
  BY <1>1, <1>5 DEF Login, fileVars
<1>6. ASSUME NEW p \in Password, Unlock(p) PROVE AutoLockDeadline'
  BY <1>0, <1>6 DEF Unlock, AutoLockDeadline, TimerFor, Off, fileVars
<1>7. CASE LockNow
  BY <1>7 DEF LockNow, AutoLockDeadline
<1>8. CASE Logout
  BY <1>2, <1>8 DEF Logout
<1>9. ASSUME NEW m \in AutoLockChoices, SetAutoLockMinutes(m)
      PROVE  AutoLockDeadline'
  BY <1>0, <1>9 DEF SetAutoLockMinutes, AutoLockDeadline, TimerFor, Off,
                    sessionVars
<1>10. CASE NoteActivity
  BY <1>0, <1>10 DEF NoteActivity, AutoLockDeadline, TimerFor, Off, fileVars,
                     sessionVars
<1>11. CASE MinutePasses
  <2>1. SUFFICES ASSUME user # NoUser, ~locked, autoLock > 0
                 PROVE  timer' # Off /\ timer' + idle' = autoLock
    BY <1>11 DEF MinutePasses, AutoLockDeadline, sessionVars, fileVars
  <2>2. timer # Off /\ timer + idle = autoLock
    BY <2>1 DEF AutoLockDeadline
  <2>3. timer > 0 /\ idle < IdleBound
    BY <1>0, <1>11, <2>2 DEF MinutePasses, Off
  <2>4. timer' = timer - 1 /\ idle' = idle + 1
    BY <1>11, <2>2, <2>3 DEF MinutePasses
  <2> QED
    BY <1>0, <2>2, <2>3, <2>4 DEF Off
<1>12. CASE InactivityTimeout
  BY <1>12 DEF InactivityTimeout, AutoLockDeadline, fileVars
<1>13. CASE Restart
  BY <1>13 DEF Restart, AutoLockDeadline
<1>14. CASE StorageChanges
  BY <1>3, <1>14 DEF StorageChanges
<1>15. CASE UNCHANGED vars
  BY <1>3, <1>15 DEF vars, fileVars
<1> QED
  BY <1>4, <1>5, <1>6, <1>7, <1>8, <1>9, <1>10, <1>11, <1>12, <1>13, <1>14,
     <1>15
  DEF Next, SessionStep, EnvironmentStep

\* An unlocked session is never without input for longer than was chosen.
THEOREM DeadlineAlwaysKept == Spec => []AutoLockDeadline
<1>1. Init => AutoLockDeadline
  BY DEF Init, Boot, AutoLockDeadline
<1> QED
  BY <1>1, DeadlineStep, TypeCorrect, PTL DEF Spec

-----------------------------------------------------------------------------
(* Unless a write has failed since, memory and file agree, so that a       *)
(* restart forgets nothing.                                                *)

FileInStep == ~unsaved => stored = [accounts |-> accounts, autoLock |-> autoLock]

\* Every step leaves memory and file equal, or notes that it could not.
LEMMA FileStep == TypeOK /\ FileInStep /\ [Next]_vars => FileInStep'
<1> SUFFICES ASSUME TypeOK, FileInStep, [Next]_vars PROVE FileInStep'
  OBVIOUS
<1>1. ASSUME NEW table, SaveAccounts(table) PROVE FileInStep'
  BY <1>1 DEF FileInStep, SaveAccounts, Sync
<1>2. ASSUME UNCHANGED <<accounts, autoLock, stored, unsaved>> PROVE FileInStep'
  BY <1>2 DEF FileInStep
<1>3. ASSUME AccountStep PROVE FileInStep'
  BY <1>1, <1>3
  DEF AccountStep, SetUpFirstAccount, AddAccount, RegenerateRecoveryCode,
      RecoverPassword, ChangePassword, DeleteAccount
<1>4. ASSUME NEW m \in AutoLockChoices, SetAutoLockMinutes(m) PROVE FileInStep'
  BY <1>4 DEF SetAutoLockMinutes, Sync, FileInStep
<1>5. ASSUME SessionStep PROVE FileInStep'
  BY <1>2, <1>4, <1>5
  DEF SessionStep, Login, Unlock, LockNow, Logout, NoteActivity, fileVars
<1>6. CASE Restart
  BY <1>6 DEF Restart, FileInStep, TypeOK
<1>7. ASSUME EnvironmentStep PROVE FileInStep'
  BY <1>2, <1>6, <1>7
  DEF EnvironmentStep, MinutePasses, InactivityTimeout, StorageChanges, fileVars
<1> QED
  BY <1>2, <1>3, <1>5, <1>7 DEF Next, vars, fileVars

\* Memory and file agree in every reachable state, unless a write failed.
LEMMA FileAlwaysInStep == Spec => []FileInStep
<1>1. Init => FileInStep
  BY DEF Init, Boot, FileInStep
<1> QED
  BY <1>1, FileStep, TypeCorrect, PTL DEF Spec

\* A revoked recovery code is dead for good, unless it could not be written
\* that it was revoked.
THEOREM RevokedCodesNeverReturn == Spec => RevokedCodesStayDead
<1> DEFINE Returning == ValidCodes(accounts)' \cap (issued \ ValidCodes(accounts))
<1>1. ASSUME NEW u \in Name, NEW a, NEW c, FreshCode(c), a.code = c,
             SaveAccounts([accounts EXCEPT ![u] = a]), TypeOK
      PROVE  Returning = {}
  <2>1. accounts' = [accounts EXCEPT ![u] = a] /\ accounts \in AccountsTable
    BY <1>1 DEF SaveAccounts, TypeOK
  <2>2. ValidCodes(accounts') \subseteq ValidCodes(accounts) \cup {c}
    BY <1>1, <2>1 DEF ValidCodes, Users, AccountsTable
  <2> QED
    BY <1>1, <2>2 DEF FreshCode
<1>2. ASSUME NEW u \in Name, NEW a, SaveAccounts([accounts EXCEPT ![u] = a]),
             a = NoAccount \/ (u \in Users(accounts) /\ a.code = accounts[u].code),
             TypeOK
      PROVE  Returning = {}
  <2>1. accounts' = [accounts EXCEPT ![u] = a] /\ accounts \in AccountsTable
    BY <1>2 DEF SaveAccounts, TypeOK
  <2>2. ValidCodes(accounts') \subseteq ValidCodes(accounts)
    BY <1>2, <2>1 DEF ValidCodes, Users, AccountsTable
  <2> QED
    BY <2>2
<1>3. ASSUME accounts' = accounts PROVE Returning = {}
  BY <1>3 DEF ValidCodes, Users
<1>4. ASSUME TypeOK, AccountStep PROVE Returning = {}
  <2>1. ASSUME NEW u \in Name, NEW p \in Password, NEW c \in Code,
               SetUpFirstAccount(u, p, c)
        PROVE  Returning = {}
    BY <1>1, <1>4, <2>1 DEF SetUpFirstAccount
  <2>2. ASSUME NEW u \in Name, NEW p \in Password, NEW c \in Code,
               NEW isAdmin \in BOOLEAN, AddAccount(u, p, isAdmin, c)
        PROVE  Returning = {}
    BY <1>1, <1>4, <2>2 DEF AddAccount
  <2>3. ASSUME NEW u \in Name, NEW p \in Password, NEW c \in Code,
               RegenerateRecoveryCode(u, p, c)
        PROVE  Returning = {}
    <3>1. [accounts[u] EXCEPT !.code = c].code = c
      BY <1>4, <2>3 DEF RegenerateRecoveryCode, Users, TypeOK, AccountsTable,
                        Account
    <3> QED
      BY <1>1, <1>4, <2>3, <3>1 DEF RegenerateRecoveryCode
  <2>4. ASSUME NEW u \in Name, NEW p \in Password, NEW c \in Code,
               NEW old \in Code, RecoverPassword(u, old, p, c)
        PROVE  Returning = {}
    <3>1. [accounts[u] EXCEPT !.pw = p, !.code = c].code = c
      BY <1>4, <2>4 DEF RecoverPassword, Users, TypeOK, AccountsTable, Account
    <3> QED
      BY <1>1, <1>4, <2>4, <3>1 DEF RecoverPassword
  <2>5. ASSUME NEW u \in Name, NEW p \in Password, NEW new \in Password,
               ChangePassword(u, p, new)
        PROVE  Returning = {}
    <3>1. [accounts[u] EXCEPT !.pw = new].code = accounts[u].code
      BY <1>4, <2>5 DEF ChangePassword, Users, TypeOK, AccountsTable, Account
    <3> QED
      BY <1>2, <1>4, <2>5, <3>1 DEF ChangePassword
  <2>6. ASSUME NEW u \in Name, NEW p \in Password, DeleteAccount(u, p)
        PROVE  Returning = {}
    BY <1>2, <1>4, <2>6 DEF DeleteAccount
  <2> QED
    BY <1>4, <2>1, <2>2, <2>3, <2>4, <2>5, <2>6 DEF AccountStep
<1>5. ASSUME SessionStep PROVE Returning = {}
  BY <1>3, <1>5 DEF SessionStep, Login, Unlock, LockNow, Logout,
                    SetAutoLockMinutes, NoteActivity, fileVars
<1>6. ASSUME FileInStep, ~unsaved, EnvironmentStep PROVE Returning = {}
  BY <1>3, <1>6 DEF EnvironmentStep, MinutePasses, InactivityTimeout, Restart,
                    StorageChanges, FileInStep, fileVars
<1>7. TypeOK /\ FileInStep /\ [Next]_vars => [~unsaved => Returning = {}]_vars
  BY <1>4, <1>5, <1>6 DEF Next
<1> QED
  BY <1>7, TypeCorrect, FileAlwaysInStep, PTL DEF Spec, RevokedCodesStayDead

-----------------------------------------------------------------------------
(* Refinement: the backend is a kiosk lock.                                *)

\* The shell starts as a kiosk lock does.
LEMMA LockInit == Init => Lock!Init
BY DEF Init, Boot, Lock!Init, Lock!ScreenAtRest

\* Every step of the shell is a step of the kiosk lock, or changes nothing
\* the kiosk lock shows.
LEMMA LockStep ==
  TypeOK /\ SessionInv /\ SessionInv' /\ FileInStep /\ [Next]_vars
    => [Lock!Next]_(Lock!vars)
<1> SUFFICES ASSUME TypeOK, SessionInv, SessionInv', FileInStep, [Next]_vars
             PROVE  [Lock!Next]_(Lock!vars)
  OBVIOUS
<1>1. /\ AdminRemains' /\ LockScreenIffProtected' /\ SessionIsCurrent
      /\ LockScreenIffProtected
  BY DEF SessionInv
<1>2. ASSUME (Users(accounts))' # {} <=> Users(accounts) # {},
             UNCHANGED <<user, locked>>, Lock!MaySave
      PROVE  [Lock!Next]_(Lock!vars)
  BY <1>2 DEF Lock!Save, Lock!Next
<1>3. ASSUME accounts' = accounts, UNCHANGED <<user, locked, writable, unsaved>>
      PROVE  UNCHANGED Lock!vars
  BY <1>3 DEF Lock!vars, Users
<1>23. ASSUME NEW table, SaveAccounts(table) PROVE Lock!MaySave
  BY <1>23 DEF SaveAccounts, Sync, Lock!MaySave
<1>4. ASSUME NEW u \in Name, NEW p \in Password, NEW c \in Code,
             SetUpFirstAccount(u, p, c)
      PROVE  Lock!Protect(u)
  <2>1. [isAdmin |-> TRUE, pw |-> p, code |-> c] \in Account
    BY DEF Account
  <2>2. (Users(accounts))' # {}
    BY <1>4, <2>1, AccountAssumption
    DEF SetUpFirstAccount, SaveAccounts, Users, TypeOK, AccountsTable
  <2> QED
    BY <1>23, <1>4, <2>2 DEF SetUpFirstAccount, OpenSession, Lock!Protect
<1>5. ASSUME NEW u \in Name, NEW a \in Account, Users(accounts) # {},
             SaveAccounts([accounts EXCEPT ![u] = a]), UNCHANGED sessionVars
      PROVE  [Lock!Next]_(Lock!vars)
  <2>1. (Users(accounts))' # {}
    BY <1>5, AccountAssumption DEF SaveAccounts, Users, TypeOK, AccountsTable
  <2> QED
    BY <1>2, <1>5, <1>23, <2>1 DEF sessionVars
<1>6. ASSUME NEW u \in Name, NEW p \in Password, NEW c \in Code,
             NEW isAdmin \in BOOLEAN, AddAccount(u, p, isAdmin, c)
      PROVE  [Lock!Next]_(Lock!vars)
  <2>1. [isAdmin |-> isAdmin, pw |-> p, code |-> c] \in Account
    BY DEF Account
  <2> QED
    BY <1>5, <1>6, <2>1 DEF AddAccount
<1>7. ASSUME NEW u \in Name, NEW p \in Password, NEW c \in Code,
             RegenerateRecoveryCode(u, p, c)
      PROVE  [Lock!Next]_(Lock!vars)
  <2>1. [accounts[u] EXCEPT !.code = c] \in Account
    BY <1>7 DEF RegenerateRecoveryCode, Users, TypeOK, AccountsTable, Account
  <2> QED
    BY <1>5, <1>7, <2>1 DEF RegenerateRecoveryCode
<1>8. ASSUME NEW u \in Name, NEW p \in Password, NEW c \in Code,
             NEW old \in Code, RecoverPassword(u, old, p, c)
      PROVE  [Lock!Next]_(Lock!vars)
  <2>1. [accounts[u] EXCEPT !.pw = p, !.code = c] \in Account
    BY <1>8 DEF RecoverPassword, Users, TypeOK, AccountsTable, Account
  <2> QED
    BY <1>5, <1>8, <2>1 DEF RecoverPassword
<1>9. ASSUME NEW u \in Name, NEW p \in Password, NEW new \in Password,
             ChangePassword(u, p, new)
      PROVE  [Lock!Next]_(Lock!vars)
  <2>1. [accounts[u] EXCEPT !.pw = new] \in Account
    BY <1>9 DEF ChangePassword, Users, TypeOK, AccountsTable, Account
  <2> QED
    BY <1>5, <1>9, <2>1 DEF ChangePassword
<1>10. ASSUME NEW u \in Name, NEW p \in Password, DeleteAccount(u, p)
       PROVE  [Lock!Next]_(Lock!vars)
  <2> DEFINE new == [accounts EXCEPT ![u] = NoAccount]
  <2>1. user \in Admins(accounts) /\ Admins(accounts) # {u}
    BY <1>1, <1>10 DEF DeleteAccount, SessionIsCurrent, Admins, TypeOK, Users
  <2>2. accounts' = new /\ accounts \in AccountsTable
    BY <1>10 DEF DeleteAccount, SaveAccounts, TypeOK
  <2>3. Users(new) # {}
    <3>1. Users(new) = Users(accounts) \ {u}
      BY <2>2, RecordErased
    <3> QED
      BY <2>1, <3>1 DEF Admins
  <2>4. (Users(accounts))' # {} /\ Users(accounts) # {}
    BY <1>10, <2>2, <2>3 DEF DeleteAccount, Users
  <2>5. CASE u = user
    <3>1. user' = NoUser /\ locked' = TRUE
      BY <1>10, <2>3, <2>5 DEF DeleteAccount, EndSession
    <3> QED
      BY <1>23, <1>10, <2>4, <3>1 DEF DeleteAccount, Lock!Next, Lock!SignOut
  <2>6. CASE u # user
    BY <1>2, <1>23, <1>10, <2>4, <2>6 DEF DeleteAccount, sessionVars
  <2> QED
    BY <2>5, <2>6
<1>11. CASE AccountStep
  BY <1>4, <1>6, <1>7, <1>8, <1>9, <1>10, <1>11 DEF AccountStep, Lock!Next
<1>12. ASSUME NEW u \in Name, NEW p \in Password, Login(u, p)
       PROVE  Lock!SignIn(u)
  BY <1>12 DEF Login, OpenSession, fileVars, Users, Lock!SignIn
<1>13. ASSUME NEW p \in Password, Unlock(p) PROVE Lock!Unlock
  BY <1>13, SecretsAssumption DEF Unlock, fileVars, Users, Lock!Unlock
<1>14. CASE LockNow
  BY <1>14 DEF LockNow, fileVars, Users, Lock!Lock, Lock!Next
<1>15. ASSUME user' = NoUser, accounts' = accounts, locked' = (Users(accounts) # {}),
              UNCHANGED <<writable, unsaved>>
       PROVE  [Lock!Next]_(Lock!vars)
  <2>1. CASE Users(accounts) # {}
    <3>1. (Users(accounts))' = Users(accounts)
      BY <1>15 DEF Users
    <3>2. Lock!SignOut
      BY <1>15, <2>1, <3>1 DEF Lock!SignOut, Lock!MaySave
    <3> QED
      BY <3>2 DEF Lock!Next
  <2>2. CASE Users(accounts) = {}
    <3>1. user = NoUser /\ locked = FALSE
      BY <1>1, <2>2 DEF SessionIsCurrent, LockScreenIffProtected, TypeOK
    <3>2. locked' = FALSE
      BY <1>15, <2>2
    <3> QED
      BY <1>3, <1>15, <3>1, <3>2
  <2> QED
    BY <2>1, <2>2
<1>16. CASE Logout
  BY <1>15, <1>16 DEF Logout, EndSession, fileVars
<1>17. ASSUME NEW m \in AutoLockChoices, SetAutoLockMinutes(m)
       PROVE  [Lock!Next]_(Lock!vars)
  BY <1>2, <1>17 DEF SetAutoLockMinutes, Sync, Lock!MaySave, Users, sessionVars
<1>18. CASE NoteActivity \/ MinutePasses \/ UNCHANGED vars
  BY <1>3, <1>18 DEF NoteActivity, MinutePasses, vars, fileVars, sessionVars
<1>19. CASE SessionStep
  BY <1>12, <1>13, <1>14, <1>16, <1>17, <1>18, <1>19 DEF SessionStep, Lock!Next
<1>20. CASE InactivityTimeout
  <2>1. CASE user # NoUser /\ autoLock > 0
    BY <1>20, <2>1 DEF InactivityTimeout, fileVars, Users, Lock!Lock, Lock!Next
  <2>2. CASE ~(user # NoUser /\ autoLock > 0)
    BY <1>3, <1>20, <2>2 DEF InactivityTimeout, fileVars
  <2> QED
    BY <2>1, <2>2
<1>21. CASE Restart
  <2>1. CASE unsaved
    BY <1>21, <2>1 DEF Restart, Users, Lock!Forget, Lock!ScreenAtRest, Lock!Next
  <2>2. CASE ~unsaved
    <3>1. unsaved = FALSE
      BY <2>2 DEF TypeOK
    <3>2. stored = [accounts |-> accounts, autoLock |-> autoLock]
      BY <2>2 DEF FileInStep
    <3>3. stored.accounts = accounts
      BY <3>2
    <3>4. UNCHANGED <<writable, unsaved>>
      BY <1>21, <3>1 DEF Restart
    <3> QED
      BY <1>15, <1>21, <3>3, <3>4 DEF Restart
  <2> QED
    BY <2>1, <2>2
<1>22. CASE StorageChanges
  BY <1>22 DEF StorageChanges, sessionVars, Users, Lock!StorageChanges, Lock!Next
<1> QED
  BY <1>11, <1>18, <1>19, <1>20, <1>21, <1>22 DEF Next, EnvironmentStep

\* The backend implements the abstract kiosk lock.
THEOREM AuthImplementsKioskLock == Spec => ImplementsKioskLock
BY LockInit, LockStep, SessionInit, SessionStepKeeps, TypeCorrect,
   FileAlwaysInStep, PTL
DEF Spec, ImplementsKioskLock, Lock!Spec
=============================================================================
