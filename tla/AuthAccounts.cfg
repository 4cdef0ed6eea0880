\* Codes, sessions, the timer and restarts, with a file that may become
\* unwritable and writable again.
SPECIFICATION FairSpec
CONSTANTS
  Name = {n1, n2}
  Password = {p1, p2}
  Code = {c1, c2}
  NoUser = NoUser
  NoAccount = NoAccount
  NoCode = NoCode
  AutoLockChoices <- Delays
  IdleBound = 4
  StorageMayFail = TRUE
INVARIANTS AutoLockDeadline TypeOK AdminRemains SessionIsCurrent LockScreenIffProtected
PROPERTIES RevokedCodesStayDead ImplementsKioskLock UnattendedSessionLocks
