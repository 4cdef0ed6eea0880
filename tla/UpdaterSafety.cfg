\* Overlapping checks and downloads, releases withdrawn or incomplete, one
\* fault; the update arrives once releases and faults stop.
SPECIFICATION FairSpec
CONSTANTS
  Version = {1, 2, 3}
  Complete = {1, 3}
  Slot = {s1, s2}
  NoRequest = NoRequest
  MaxPublished = 2
  MaxFaults = 1
INVARIANTS TypeOK BusyIsTransient StagedIsNewer
PROPERTIES ImplementsSafeUpdate EventuallyInstalled
