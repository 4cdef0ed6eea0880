\* A live session, whose root is an overlay.
SPECIFICATION Spec
CONSTANTS
  Disk = {live, target}
  Path = {sda, sdb}
  sda = sda
  sdb = sdb
  NoDisk = NoDisk
  NoPath = NoPath
  NoScript = NoScript
  RunningDisk = live
  RootSource = "overlay"
  ListingMayFail = FALSE
  Layouts <- Occupied
  Mapped = 0
  DiskSize = 4
  MinFree = 2
  Code = {c1}
  NoCode = NoCode
  LiveAccount = NoCode
  LsblkMayFail = FALSE
  StartMayFail = FALSE
  Hotplug = FALSE
  Extras = {}
  MaxInstalls = 1
  MaxFaults = 0
PROPERTIES RunningDiskUntouched
