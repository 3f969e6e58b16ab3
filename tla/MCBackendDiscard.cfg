\* The comment of main.go:210-211 on discarded commands.
CONSTANTS
  m1 = m1
  m2 = m2
  c1 = c1
  c2 = c2
  c3 = c3
  Nil = Nil
  Mac = {m1}
  Conn = {c1, c2}
  Bridge <- AllFirst
  Script <- OneCommand
  Unreliable = {}
SPECIFICATION Spec
CHECK_DEADLOCK FALSE
PROPERTIES
  DiscardedOnlyWhenDisconnected
