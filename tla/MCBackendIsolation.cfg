\* A bridge that reconnects beside one that keeps its connection.
CONSTANTS
  m1 = m1
  m2 = m2
  c1 = c1
  c2 = c2
  c3 = c3
  Nil = Nil
  Mac = {m1, m2}
  Conn = {c1, c2, c3}
  Bridge <- LastSecond
  Script <- TwoBridges
  Unreliable = {}
SPECIFICATION Spec
CHECK_DEADLOCK FALSE
SYMMETRY FirstTwoSymmetric
INVARIANTS
  TypeOK
  MutualExclusion
  OneHolder
  OwnCommandsOnly
  StableBridgeServed
  StableBridgeListed
PROPERTIES
  NoChannelFaultWithoutChurn
