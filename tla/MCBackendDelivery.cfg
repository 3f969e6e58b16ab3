\* One bridge that dials twice; the database and Redis may fail.
CONSTANTS
  m1 = m1
  m2 = m2
  c1 = c1
  c2 = c2
  c3 = c3
  Nil = Nil
  Mac = {m1}
  Conn = {c1, c2}
  Bridge <- AllFirst
  Script <- LongAndShort
  Unreliable = {"db", "redis"}
SPECIFICATION Spec
CHECK_DEADLOCK FALSE
SYMMETRY AllSymmetric
INVARIANTS
  BridgeOrder
PROPERTIES
  ProcessedMeansReceived
  ImplementsDelivery
