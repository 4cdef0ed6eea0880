\* The Menu button, pressed twice in the mushaf reader.
SPECIFICATION MushafSpec
CONSTANTS
  Edition = {e1}
  NoEdition = NoEdition
  MinPage <- FirstPages
  MaxPage <- LastPages
  Section = {}
  Branch = {"mushafgallery", "mushafreader"}
  MaxStack = 4
PROPERTIES ProgressSurvives
