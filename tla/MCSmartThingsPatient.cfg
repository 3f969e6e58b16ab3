\* A user who waits until the handlers are done.
CONSTANTS
  Nil = Nil
  Zone = {1, 2}
  Levels = {"40", "70"}
  Colors = {"#FF0000"}
  Used = {0, 1, 2}
  Ordered = FALSE
  MaxHurried = 0
SPECIFICATION FairSpec
CHECK_DEADLOCK FALSE
INVARIANTS
  TypeOK
  MasterMeansAll
  ShownIsTold
PROPERTIES
  Settles
  MasterControlsZones
  MasterChangeReachesZones
