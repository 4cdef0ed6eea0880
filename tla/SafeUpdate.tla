----------------------------- MODULE SafeUpdate -----------------------------
(***************************************************************************)
(* What automatic updates promise, whatever the network, the server and    *)
(* crashes do: the installed version only ever moves forward, and only to  *)
(* a version that the server did publish.  Updater.tla implements it.      *)
(***************************************************************************)
EXTENDS Integers

CONSTANTS Version

VARIABLES
  installed,   \* the version the device runs
  published    \* the versions the server has offered so far

vars == <<installed, published>>

Init ==
  /\ installed \in Version \cup {0}
  /\ published \subseteq Version

Publish(v) ==
  /\ published' = published \cup {v}
  /\ UNCHANGED installed

Install(v) ==
  /\ v \in published
  /\ v > installed
  /\ installed' = v
  /\ UNCHANGED published

Next == \E v \in Version : Publish(v) \/ Install(v)

Spec == Init /\ [][Next]_vars
=============================================================================
