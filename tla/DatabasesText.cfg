\* The full image: a text database that was connected.
SPECIFICATION DatabasesSpec
CONSTANTS
  Name = {n1}
  image = image
  complete = complete
  misspelt = misspelt
  garbage = garbage
  Content <- AllContent
  Sound <- SoundContent
  Matches <- MatchesOf
  HasTable <- TablesOf
  Bundled <- FullImage
  Sticks <- OneItemSticks
  Missing = Missing
  NoPath = NoPath
INVARIANT RestartUsesText
