\* One bridge that dials twice, under weak fairness of the goroutines.
CONSTANTS
  m1 = m1
  m2 = m2
  c1 = c1
  c2 = c2
  c3 = c3
  Nil = Nil
  Mac = {m1}
  Conn = {c1, c2}
  Bridge <- AllFirst
  Script <- ShortAndEmpty
  Unreliable = {}
SPECIFICATION FairSpec
CHECK_DEADLOCK FALSE
PROPERTIES
  DispatcherDrains
  CommandsFinish
  HandlersFinish
