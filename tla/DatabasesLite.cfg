\* The lite image, which ships without an audio database.
SPECIFICATION DatabasesSpec
CONSTANTS
  Name = {n1}
  image = image
  complete = complete
  misspelt = misspelt
  garbage = garbage
  Content <- AllContent
  Sound <- SoundContent
  Matches <- MatchesOf
  HasTable <- TablesOf
  Bundled <- LiteImage
  Sticks <- OneItemSticks
  Missing = Missing
  NoPath = NoPath
INVARIANT ConnectedIsActive
