\* Two threads; everything may fail.
CONSTANTS
  r1 = r1
  r2 = r2
  h1 = h1
  h2 = h2
  u1 = u1
  m1 = m1
  Nil = Nil
  Request = {r1, r2}
  Ask <- ColorAndPower
  Hub = {h1, h2}
  Mac <- OneMac
  Owner <- OneOwner
  Users = {u1}
  Colors <- Hex
  Threads = 2
  Unreliable = {"db", "redis", "puma"}
SPECIFICATION FairSpec
CHECK_DEADLOCK FALSE
INVARIANTS
  TypeOK
  PublishedUnderItsHub
  StatusOfNewestLog
PROPERTIES
  RequestsEnd
