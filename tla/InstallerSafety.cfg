\* An installed system: installs that fail and are tried again, another wizard
\* while one runs, disks exchanged under the wizard.
SPECIFICATION PinnedSpec
CONSTANTS
  Disk = {live, target}
  Path = {sda, sdb}
  sda = sda
  sdb = sdb
  NoDisk = NoDisk
  NoPath = NoPath
  NoScript = NoScript
  RunningDisk = live
  RootSource = "partition"
  ListingMayFail = FALSE
  Layouts <- Occupied
  Mapped = 0
  DiskSize = 4
  MinFree = 2
  Code = {c1}
  NoCode = NoCode
  LiveAccount = NoCode
  LsblkMayFail = FALSE
  StartMayFail = TRUE
  Hotplug = TRUE
  Extras = {"home"}
  MaxInstalls = 2
  MaxFaults = 1
INVARIANTS TypeOK StagedOnlyWhileRunning ShownCodeOpensTarget
PROPERTIES ForeignUntouched SuccessMeansInstalled InstallEnds
