\* Recitations, selections and every way into and out of the reader.
SPECIFICATION FairSpec
CONSTANTS
  LastVerse = 3
  Reciter = {r1, r2}
  NoReciter = NoReciter
  FirstReciter = r1
  NoMedia = NoMedia
  Available <- OneMissing
  Section = {"section"}
  Branch = {"branch"}
  MaxStack = 3
INVARIANTS TypeOK AudioUnderControl SelectionIsHeard
PROPERTIES OffEnds WholeSelectionRecited
