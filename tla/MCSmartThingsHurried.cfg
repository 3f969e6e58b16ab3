\* One command is given before the handlers of another are done.
CONSTANTS
  Nil = Nil
  Zone = {1}
  Levels = {}
  Colors = {}
  Used = {0}
  Ordered = TRUE
  MaxHurried = 1
SPECIFICATION FairSpec
CHECK_DEADLOCK FALSE
PROPERTIES
  MasterControlsZones
