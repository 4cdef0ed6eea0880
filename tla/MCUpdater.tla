------------------------------ MODULE MCUpdater -----------------------------
(* Small instances of Updater.                                             *)
EXTENDS Updater, TLC

\* Requests are interchangeable (safety runs only).
Symmetry == Permutations(Slot)
=============================================================================
