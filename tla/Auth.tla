-------------------------------- MODULE Auth --------------------------------
(***************************************************************************)
(* AuthBackend (shell-src/authbackend.cpp) together with the two QML       *)
(* screens that call it, LockScreen.qml and the account section of         *)
(* SettingsView.qml: the accounts file, the one session of the kiosk, the  *)
(* lock overlay and the inactivity timer.                                  *)
(*                                                                         *)
(* Everything runs on the Qt main thread, so one QML handler (all the      *)
(* backend calls it makes) is one step.  A call that the backend refuses   *)
(* ({ok: false}) changes nothing and is a stuttering step.                 *)
(*                                                                         *)
(* A salted PBKDF2 hash is abstracted to the secret it was derived from:   *)
(* two hashes agree exactly when the secrets do.  User names are taken     *)
(* after trimming and case folding.                                        *)
(***************************************************************************)
EXTENDS Integers

CONSTANTS
  Name,             \* user names
  Password,         \* passwords of at least 4 characters
  Code,             \* recovery codes; a fresh one is never repeated
  NoUser,           \* the empty m_loggedInUser
  NoAccount,        \* a name with no record in accounts.dat
  NoCode,           \* an empty recoveryHash (a file older than recovery codes)
  AutoLockChoices,  \* minutes offered by the settings page; 0 means never
  IdleBound,        \* bound: idle minutes are counted up to this number
  StorageMayFail    \* whether accounts.dat can become unwritable

ASSUME SecretsAssumption == NoCode \notin Code /\ NoUser \notin Name

Account == [isAdmin : BOOLEAN, pw : Password, code : Code \cup {NoCode}]

ASSUME AccountAssumption == NoAccount \notin Account

ASSUME MinutesAssumption ==
  /\ AutoLockChoices \subseteq Nat
  /\ IdleBound \in Nat
  /\ \A m \in AutoLockChoices : m < IdleBound

ASSUME StorageAssumption == StorageMayFail \in BOOLEAN

VARIABLES
  accounts,     \* what loadAccounts() returns: the in-memory QSettings view
  autoLock,     \* m_autoLockMinutes
  stored,       \* the accounts.dat file: [accounts, autoLock]
  writable,     \* whether QSettings::sync() can write that file
  unsaved,      \* QSettings: pending changes that could not be written
  user,         \* m_loggedInUser
  userIsAdmin,  \* m_loggedInIsAdmin
  locked,       \* m_locked; the LockScreen overlay is shown iff it is TRUE
  timer,        \* minutes left on m_inactivityTimer, or Off
  idle,         \* history: minutes since the last input or sign-in
  issued        \* history: every recovery code generated so far

fileVars    == <<accounts, autoLock, stored, writable, unsaved>>
sessionVars == <<user, userIsAdmin, locked>>
clockVars   == <<timer, idle>>
vars == <<fileVars, sessionVars, clockVars, issued>>

-----------------------------------------------------------------------------
AccountsTable == [Name -> Account \cup {NoAccount}]

Off == -1

Users(table)  == {u \in Name : table[u] # NoAccount}
Admins(table) == {u \in Users(table) : table[u].isAdmin}
ValidCodes(table) == {table[u].code : u \in Users(table)} \ {NoCode}

\* resetInactivityTimer(): stop, and start again only for a session.
TimerFor(u, minutes) == IF minutes > 0 /\ u # NoUser THEN minutes ELSE Off

\* m_settings.sync() writes every pending key of the file, or none.
Sync(table, minutes) ==
  /\ stored' = IF writable
                 THEN [accounts |-> table, autoLock |-> minutes]
                 ELSE stored
  /\ unsaved' = ~writable

\* Mutant: saveAccounts() forgets m_settings.sync().
SaveAccountsUnsynced(table) ==
  /\ accounts' = table
  /\ UNCHANGED <<autoLock, stored, writable, unsaved>>

\* saveAccounts(): the in-memory view always changes, the file if it can.
SaveAccounts(table) ==
  /\ accounts' = table
  /\ Sync(table, autoLock)
  /\ UNCHANGED <<autoLock, writable>>

\* generateRecoveryCode(): ~62 random bits, so a code is never seen twice.
FreshCode(c) == c \in Code \ issued

Issue(c) == issued' = issued \cup {c}

OpenSession(u, isAdmin) ==
  /\ user' = u
  /\ userIsAdmin' = isAdmin
  /\ locked' = FALSE
  /\ timer' = TimerFor(u, autoLock)
  /\ idle' = 0

-----------------------------------------------------------------------------
(* The constructor: no session; locked exactly when accounts exist.        *)

Boot(table, minutes) ==
  /\ accounts = table
  /\ autoLock = minutes
  /\ user = NoUser
  /\ userIsAdmin = FALSE
  /\ locked = (Users(table) # {})
  /\ timer = TimerFor(NoUser, minutes)
  /\ idle = 0

\* The file the shell may find at its first start: no accounts, or the one
\* admin the installer wizard staged (its code was displayed when the
\* install ended), or one written before recovery codes existed.
NoAccounts == [u \in Name |-> NoAccount]

OneAdmin(u, p, c) ==
  [NoAccounts EXCEPT ![u] = [isAdmin |-> TRUE, pw |-> p, code |-> c]]

FirstFiles ==
  {NoAccounts} \cup
  {OneAdmin(u, p, c) : u \in Name, p \in Password, c \in Code \cup {NoCode}}

Init ==
  \E table \in FirstFiles, minutes \in AutoLockChoices :
    /\ Boot(table, minutes)
    /\ stored = [accounts |-> table, autoLock |-> minutes]
    /\ writable = TRUE
    /\ unsaved = FALSE
    /\ issued = ValidCodes(table)

-----------------------------------------------------------------------------
(* Operations.  The settings dialogs are popups above the overlay, so none *)
(* of the session's own operations requires ~locked.                       *)

\* Settings > Set Up Account: createAccount() and then login() in the same
\* handler.  The returned recovery code is dropped.
SetUpFirstAccount(u, p, c) ==
  /\ Users(accounts) = {}
  /\ FreshCode(c)
  /\ SaveAccounts([accounts EXCEPT ![u] =
                     [isAdmin |-> TRUE, pw |-> p, code |-> c]])
  /\ OpenSession(u, TRUE)
  /\ Issue(c)

\* Settings > Add User: createAccount() from an admin's session.
AddAccount(u, p, isAdmin, c) ==
  /\ Users(accounts) # {}
  /\ userIsAdmin
  /\ u \notin Users(accounts)
  /\ FreshCode(c)
  /\ SaveAccounts([accounts EXCEPT ![u] =
                     [isAdmin |-> isAdmin, pw |-> p, code |-> c]])
  /\ Issue(c)
  /\ UNCHANGED <<sessionVars, clockVars>>

\* One's own password with the old one, or anybody else's as an admin.
ChangePassword(u, old, new) ==
  /\ u \in Users(accounts)
  /\ \/ u = user /\ accounts[u].pw = old
     \/ u # user /\ userIsAdmin
  /\ SaveAccounts([accounts EXCEPT ![u] = [@ EXCEPT !.pw = new]])
  /\ UNCHANGED <<sessionVars, clockVars, issued>>

RegenerateRecoveryCode(u, p, c) ==
  /\ u \in Users(accounts)
  /\ accounts[u].pw = p
  /\ FreshCode(c)
  /\ SaveAccounts([accounts EXCEPT ![u] = [@ EXCEPT !.code = c]])
  /\ Issue(c)
  /\ UNCHANGED <<sessionVars, clockVars>>

\* LockScreen > Forgot password: the session, if any, stays locked.
RecoverPassword(u, code, new, c) ==
  /\ locked
  /\ user # NoUser => u = user
  /\ u \in Users(accounts)
  /\ accounts[u].code = code
  /\ FreshCode(c)
  /\ SaveAccounts([accounts EXCEPT ![u] = [@ EXCEPT !.pw = new, !.code = c]])
  /\ Issue(c)
  /\ UNCHANGED <<sessionVars, clockVars>>

\* LockScreen in login mode (nobody signed in).
Login(u, p) ==
  /\ locked
  /\ user = NoUser
  /\ u \in Users(accounts)
  /\ accounts[u].pw = p
  /\ OpenSession(u, accounts[u].isAdmin)
  /\ UNCHANGED <<fileVars, issued>>

\* Mutant: unlock() forgets resetInactivityTimer().
UnlockWithoutTimer(p) ==
  /\ locked
  /\ user \in Users(accounts)
  /\ accounts[user].pw = p
  /\ locked' = FALSE
  /\ idle' = 0
  /\ UNCHANGED <<timer, user, userIsAdmin, fileVars, issued>>

\* LockScreen in unlock mode: the session's own password.
Unlock(p) ==
  /\ locked
  /\ user \in Users(accounts)
  /\ accounts[user].pw = p
  /\ locked' = FALSE
  /\ timer' = TimerFor(user, autoLock)
  /\ idle' = 0
  /\ UNCHANGED <<user, userIsAdmin, fileVars, issued>>

\* Mutant: logout() locks even when no account is left to sign in with.
EndSessionAlwaysLocks(table) ==
  /\ user' = NoUser
  /\ userIsAdmin' = FALSE
  /\ locked' = TRUE
  /\ timer' = Off
  /\ idle' = 0

\* Mutant: logout() leaves m_loggedInIsAdmin behind.
EndSessionStaysAdmin(table) ==
  /\ user' = NoUser
  /\ UNCHANGED userIsAdmin
  /\ locked' = (Users(table) # {})
  /\ timer' = Off
  /\ idle' = 0

\* logout(), with the accounts the call finds.
EndSession(table) ==
  /\ user' = NoUser
  /\ userIsAdmin' = FALSE
  /\ locked' = (Users(table) # {})
  /\ timer' = Off
  /\ idle' = 0

Logout ==
  /\ EndSession(accounts)
  /\ UNCHANGED <<fileVars, issued>>

LockNow ==
  /\ user # NoUser
  /\ locked' = TRUE
  /\ timer' = Off
  /\ idle' = 0
  /\ UNCHANGED <<user, userIsAdmin, fileVars, issued>>

\* Mutant: the last admin may go.
DeleteAccountLastAdmin(u, adminPassword) ==
  /\ userIsAdmin
  /\ user \in Users(accounts)
  /\ accounts[user].pw = adminPassword
  /\ u \in Users(accounts)
  /\ LET remaining == [accounts EXCEPT ![u] = NoAccount]
     IN  /\ SaveAccounts(remaining)
         /\ IF u = user THEN EndSession(remaining)
                        ELSE UNCHANGED <<sessionVars, clockVars>>
  /\ UNCHANGED issued

\* Mutant: removing oneself does not sign out.
DeleteAccountKeepsSession(u, adminPassword) ==
  /\ userIsAdmin
  /\ user \in Users(accounts)
  /\ accounts[user].pw = adminPassword
  /\ u \in Users(accounts)
  /\ Admins(accounts) # {u}
  /\ SaveAccounts([accounts EXCEPT ![u] = NoAccount])
  /\ UNCHANGED <<sessionVars, clockVars, issued>>

\* Settings > Remove: an admin's session, and its password once more; the
\* last admin stays; removing oneself ends the session.
DeleteAccount(u, adminPassword) ==
  /\ userIsAdmin
  /\ user \in Users(accounts)
  /\ accounts[user].pw = adminPassword
  /\ u \in Users(accounts)
  /\ Admins(accounts) # {u}
  /\ LET remaining == [accounts EXCEPT ![u] = NoAccount]
     IN  /\ SaveAccounts(remaining)
         /\ IF u = user THEN EndSession(remaining)
                        ELSE UNCHANGED <<sessionVars, clockVars>>
  /\ UNCHANGED issued

\* Mutant: the new delay waits for the next input.
SetAutoLockMinutesLater(minutes) ==
  /\ autoLock' = minutes
  /\ Sync(accounts, minutes)
  /\ UNCHANGED <<accounts, writable, sessionVars, clockVars, issued>>

SetAutoLockMinutes(minutes) ==
  /\ autoLock' = minutes
  /\ Sync(accounts, minutes)
  /\ timer' = TimerFor(user, minutes)
  /\ idle' = 0
  /\ UNCHANGED <<accounts, writable, sessionVars, issued>>

\* eventFilter() sees a press, a move or a key: noteActivity().
NoteActivity ==
  /\ timer' = TimerFor(user, autoLock)
  /\ idle' = 0
  /\ UNCHANGED <<fileVars, sessionVars, issued>>

-----------------------------------------------------------------------------
(* Time, the timer, and the environment.                                   *)

\* Mutant: a stopped timer counts down as well.
MinutePassesStopped ==
  /\ timer # 0
  /\ timer' = timer - 1
  /\ idle' = IF idle < IdleBound THEN idle + 1 ELSE idle
  /\ UNCHANGED <<fileVars, sessionVars, issued>>

\* A minute without input.  The event loop delivers an expired timer before
\* the next minute passes.
MinutePasses ==
  /\ timer # 0
  /\ timer' = IF timer = Off THEN Off ELSE timer - 1
  /\ idle' = IF idle < IdleBound THEN idle + 1 ELSE idle
  /\ UNCHANGED <<fileVars, sessionVars, issued>>

\* The timer is single-shot; its slot locks only for a session.
InactivityTimeout ==
  /\ timer = 0
  /\ timer' = Off
  /\ IF user # NoUser /\ autoLock > 0
       THEN locked' = TRUE /\ idle' = 0
       ELSE UNCHANGED <<locked, idle>>
  /\ UNCHANGED <<user, userIsAdmin, fileVars, issued>>

\* Mutant: the shell comes back unlocked.
RestartUnlocked ==
  /\ accounts' = stored.accounts
  /\ autoLock' = stored.autoLock
  /\ user' = NoUser
  /\ userIsAdmin' = FALSE
  /\ locked' = FALSE
  /\ timer' = TimerFor(NoUser, stored.autoLock)
  /\ idle' = 0
  /\ unsaved' = FALSE
  /\ UNCHANGED <<stored, writable, issued>>

\* The shell crashes or the device loses power, and systemd starts it again
\* (roohaniye-shell.service, Restart=always).
Restart ==
  /\ accounts' = stored.accounts
  /\ autoLock' = stored.autoLock
  /\ user' = NoUser
  /\ userIsAdmin' = FALSE
  /\ locked' = (Users(stored.accounts) # {})
  /\ timer' = TimerFor(NoUser, stored.autoLock)
  /\ idle' = 0
  /\ unsaved' = FALSE
  /\ UNCHANGED <<stored, writable, issued>>

StorageChanges ==
  /\ StorageMayFail
  /\ writable' = ~writable
  /\ UNCHANGED <<accounts, autoLock, stored, unsaved, sessionVars, clockVars, issued>>

-----------------------------------------------------------------------------
AccountStep ==
  \/ \E u \in Name, p \in Password, c \in Code :
       \/ SetUpFirstAccount(u, p, c)
       \/ \E isAdmin \in BOOLEAN : AddAccount(u, p, isAdmin, c)
       \/ RegenerateRecoveryCode(u, p, c)
       \/ \E old \in Code : RecoverPassword(u, old, p, c)
  \/ \E u \in Name, p \in Password :
       \/ \E new \in Password : ChangePassword(u, p, new)
       \/ DeleteAccount(u, p)

SessionStep ==
  \/ \E u \in Name, p \in Password : Login(u, p)
  \/ \E p \in Password : Unlock(p)
  \/ LockNow
  \/ Logout
  \/ \E minutes \in AutoLockChoices : SetAutoLockMinutes(minutes)
  \/ NoteActivity

EnvironmentStep == MinutePasses \/ InactivityTimeout \/ Restart \/ StorageChanges

Next == AccountStep \/ SessionStep \/ EnvironmentStep

\* The clock does not stop and Qt delivers an expired timer; people are free.
Fairness == WF_vars(MinutePasses) /\ WF_vars(InactivityTimeout)

Spec == Init /\ [][Next]_vars
FairSpec == Spec /\ Fairness

-----------------------------------------------------------------------------
(* Properties.                                                             *)

TypeOK ==
  /\ accounts \in AccountsTable
  /\ autoLock \in AutoLockChoices
  /\ stored \in [accounts : AccountsTable, autoLock : AutoLockChoices]
  /\ writable \in BOOLEAN
  /\ unsaved \in BOOLEAN
  /\ user \in Name \cup {NoUser}
  /\ userIsAdmin \in BOOLEAN
  /\ locked \in BOOLEAN
  /\ timer \in (0 .. IdleBound) \cup {Off}
  /\ idle \in 0 .. IdleBound
  /\ issued \subseteq Code

\* "guarantees the install never ends up with zero admin accounts"
\* (authbackend.cpp:199): neither the accounts in memory nor the file a
\* restart would read ever has accounts without an admin among them,
\* whatever is created and deleted and whichever writes fail.
AdminRemains ==
  \A table \in {accounts, stored.accounts} :
    Users(table) # {} => Admins(table) # {}

\* The cached session stays true to the accounts file: the signed-in user
\* still exists and has exactly the rights the file gives, so a deleted
\* account keeps no session and nobody else is treated as an admin.
SessionIsCurrent ==
  IF user = NoUser
    THEN ~userIsAdmin
    ELSE user \in Users(accounts) /\ userIsAdmin = accounts[user].isAdmin

\* The overlay covers a device that has accounts unless somebody signed in,
\* and never covers one that has none (nobody could ever unlock it).
LockScreenIffProtected ==
  /\ locked => Users(accounts) # {}
  /\ ~locked /\ Users(accounts) # {} => user # NoUser

\* Auto-lock keeps its deadline: an unlocked session is never left without
\* input for more than the chosen minutes, whatever was unlocked, set or
\* touched in between; its timer runs and has just the rest of them left.
AutoLockDeadline ==
  user # NoUser /\ ~locked /\ autoLock > 0 =>
    /\ timer # Off
    /\ timer + idle = autoLock

\* recoverPassword() and regenerateRecoveryCode() kill the code they replace
\* ("single-use", authbackend.cpp:268): no later step, a restart included,
\* makes a code valid again that once stopped being valid, unless the file
\* could not be written when it did.
RevokedCodesStayDead ==
  [][~unsaved => ValidCodes(accounts)' \cap (issued \ ValidCodes(accounts)) = {}]_vars

\* The backend refines the abstract kiosk lock: a protected device never
\* changes hands without a sign-in and never loses its protection, but to a
\* restart when the accounts could not be written.
Lock == INSTANCE KioskLock WITH
          protected <- Users(accounts) # {},
          holder <- user,
          screen <- IF locked THEN "locked" ELSE "open"

ImplementsKioskLock == Lock!Spec

\* An unlocked session that has gone a minute without input is locked in the
\* end, unless somebody comes back to it, signs out or turns auto-lock off.
UnattendedSessionLocks ==
  (user # NoUser /\ ~locked /\ autoLock > 0 /\ idle > 0)
    ~> (locked \/ user = NoUser \/ autoLock = 0 \/ idle = 0)
=============================================================================
