\* The App Center, the session log, the readers of the shelf, the reminders
\* and the databases of the full image, each on an instance of its own.
SPECIFICATION ServicesSpec
CONSTANTS
  Component = {"apps", "log", "hadith", "mushaf", "reminders", "databases"}
  App = {a1, a2}
  a1 = a1
  a2 = a2
  Version = {v1, v2}
  v1 = v1
  v2 = v2
  Slot = {s1, s2}
  Nothing = Nothing
  Broken = Broken
  Idle = Idle
  NoJob = NoJob
  Published <- Manifests
  Stick = {d1, d2}
  Unfailing = {"tmp", "home"}
  NoStick = NoStick
  NoDir = NoDir
  Lost = Lost
  Catalogue <- Hadiths
  PageSize = 2
  NoName = NoName
  Edition = {e1, e2}
  NoEdition = NoEdition
  MinPage <- FirstPages
  MaxPage <- LastPages
  Section = {"section"}
  Branch = {"mushafgallery", "mushafreader"}
  MaxStack = 3
  MinutesPerDay = 2
  DaysPerWeek = 2
  DayChoices = {{}, {0}}
  LastDay = 1
  MaxId = 2
  NoReminder = NoReminder
  MayBlock = TRUE
  Name = {n1}
  image = image
  complete = complete
  misspelt = misspelt
  garbage = garbage
  Content <- AllContent
  Sound <- SoundContent
  Matches <- MatchesOf
  HasTable <- TablesOf
  Bundled <- FullImage
  Sticks <- OneItemSticks
  Missing = Missing
  NoPath = NoPath
INVARIANTS TypeOK RegistryAgrees ChoiceHonoured ListMatchesMode FreshIds AtMostOncePerDay RestartHonoursChoice
PROPERTIES PassedMinuteFired
