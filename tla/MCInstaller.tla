---------------------------- MODULE MCInstaller -----------------------------
(* Small instances of Installer for TLC.                                   *)
EXTENDS Installer

CONSTANTS sda, sdb

\* Paths are interchangeable: the running disk may as well be the first one.
\* (Symmetry sets would not do for the liveness property.)
PinnedInit == Init /\ at[sda] = RunningDisk

PinnedSpec == PinnedInit /\ [][Next]_vars /\ WF_vars(ScriptStep)

Foreign(nums) == [n \in Num |-> IF n \in nums THEN Bare("foreign") ELSE Bare("none")]

\* Only disks that already hold something.
Occupied == {[parts |-> Foreign({1}), free |-> DiskSize - 1]}

\* Partition 2 was deleted some time ago.
Gapped == {[parts |-> Foreign({1, 3}), free |-> DiskSize - 2]}
=============================================================================
