\* Nine submissions of two users in two threads.
CONSTANTS
  u1 = u1
  u2 = u2
  Blank = Blank
  Create = {1, 2, 3, 4, 5, 6, 7, 8, 9}
  Form <- Submitted
  User = {u1, u2}
  MaxHubs = 2
  Threads = 2
SPECIFICATION Spec
CHECK_DEADLOCK FALSE
INVARIANTS
  TypeOK
  LimitExceededByRaceOnly
  DuplicatesByRaceOnly
  AdjustedDistinct
  AdjustedIsNextMac
