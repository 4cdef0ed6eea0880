----------------------------- MODULE KioskLock ------------------------------
(***************************************************************************)
(* What the login of the kiosk promises, without accounts files, recovery  *)
(* codes or timers: a device nobody protected is open to everybody; once   *)
(* it is protected it stays so, and its screen is open only to the one     *)
(* person who signed in.  Only what storage refused to keep is forgotten,  *)
(* when the device starts again.  Auth.tla implements this specification.  *)
(***************************************************************************)
CONSTANTS Name, NoUser

VARIABLES
  protected,   \* whether accounts exist
  holder,      \* who is signed in, or NoUser
  screen,      \* "open" or "locked"
  writable,    \* whether storage accepts what is saved
  unsaved      \* whether it refused the last thing saved

vars == <<protected, holder, screen, writable, unsaved>>

ScreenAtRest(isProtected) == IF isProtected THEN "locked" ELSE "open"

Init ==
  /\ protected \in BOOLEAN
  /\ holder = NoUser
  /\ screen = ScreenAtRest(protected)
  /\ writable = TRUE
  /\ unsaved = FALSE

\* A step may save something.
MaySave == unsaved' \in {unsaved, ~writable} /\ UNCHANGED writable

Protect(n) ==
  /\ ~protected
  /\ protected' = TRUE
  /\ holder' = n
  /\ screen' = "open"
  /\ MaySave

SignIn(n) ==
  /\ protected
  /\ holder = NoUser
  /\ holder' = n
  /\ screen' = "open"
  /\ UNCHANGED <<protected, writable, unsaved>>

Lock ==
  /\ holder # NoUser
  /\ screen' = "locked"
  /\ UNCHANGED <<protected, holder, writable, unsaved>>

Unlock ==
  /\ holder # NoUser
  /\ screen' = "open"
  /\ UNCHANGED <<protected, holder, writable, unsaved>>

\* Signing out, being removed, or a restart of the device.
SignOut ==
  /\ protected
  /\ holder' = NoUser
  /\ screen' = "locked"
  /\ MaySave
  /\ UNCHANGED protected

\* A change of the accounts or of a setting.
Save == MaySave /\ UNCHANGED <<protected, holder, screen>>

StorageChanges ==
  /\ writable' = ~writable
  /\ UNCHANGED <<protected, holder, screen, unsaved>>

\* A restart that finds the device as it was before what was not saved.
Forget ==
  /\ unsaved
  /\ protected' \in BOOLEAN
  /\ holder' = NoUser
  /\ screen' = ScreenAtRest(protected')
  /\ unsaved' = FALSE
  /\ UNCHANGED writable

Next ==
  \/ \E n \in Name : Protect(n) \/ SignIn(n)
  \/ Lock \/ Unlock \/ SignOut
  \/ Save \/ StorageChanges \/ Forget

Spec == Init /\ [][Next]_vars
=============================================================================
