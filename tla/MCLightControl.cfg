\* Two threads; everything may fail.
CONSTANTS
  r1 = r1
  r2 = r2
  h1 = h1
  h2 = h2
  u1 = u1
  m1 = m1
  Nil = Nil
  Request = {r1, r2}
  Ask <- OffAndDim
  Hub = {h1, h2}
  Mac <- OneMac
  Owner <- OneOwner
  Users = {u1}
  Colors <- Hex
  Prefixed <- Hashes
  Hue <- Hues
  Number <- Numbers
  Threads = 2
  Unreliable = {"db", "redis", "puma", "bridge"}
SPECIFICATION LightSpec
CHECK_DEADLOCK FALSE
SYMMETRY RowsSymmetric
INVARIANTS
  AnsweredWasPublished
  BulbsShowStatus
PROPERTIES
  EachCommandShows
  ImplementsHubCommands
