\* A reply that comes late rewrites the archive root is about to extract.
SPECIFICATION Spec
CONSTANTS
  Version = {1, 2}
  Complete = {1, 2}
  Slot = {s1, s2}
  NoRequest = NoRequest
  MaxPublished = 1
  MaxFaults = 0
SYMMETRY Symmetry
INVARIANT ExtractsVerifiedArchive
