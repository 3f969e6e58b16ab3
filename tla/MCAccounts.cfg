\* Four sign-ins of two accounts, two at once; a user without a token, who may
\* have too many hubs.
CONSTANTS
  s1 = s1
  s2 = s2
  s3 = s3
  s4 = s4
  a1 = a1
  a2 = a2
  e1 = e1
  E1 = E1
  e2 = e2
  t1 = t1
  t2 = t2
  Nil = Nil
  SignIn = {s1, s2, s3, s4}
  Account <- OneRespelt
  Info <- Addresses
  TempEmail <- Temporary
  Stored <- LowerCase
  Legacy = {e2}
  Overfull = {e2}
  Threads = 2
SPECIFICATION Spec
CHECK_DEADLOCK FALSE
SYMMETRY FirstTwoSymmetric
INVARIANTS
  TypeOK
  DuplicatesByRaceOnly
  TokensByRaceOnly
  DoneIsLinked
  OwnUserOnly
PROPERTIES
  FailsForACause
  MovesForACause
