\* The comment of rgbw_controller.rb:137.
CONSTANTS
  r1 = r1
  r2 = r2
  h1 = h1
  h2 = h2
  u1 = u1
  m1 = m1
  Nil = Nil
  Request = {r1, r2}
  Ask <- OffAndDim
  Hub = {h1}
  Mac <- OneMac
  Owner <- OneOwner
  Users = {u1}
  Colors <- Hex
  Threads = 2
  Unreliable = {}
SPECIFICATION Spec
CHECK_DEADLOCK FALSE
INVARIANTS
  GroupZeroSetsAll
