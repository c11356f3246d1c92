SPECIFICATION Spec
CONSTANTS
  w1 = w1  w2 = w2  w3 = w3  t1 = t1  t2 = t2  t3 = t3
  s1 = s1  s2 = s2  s3 = s3
  Workers <- TwoWorkers
  Tokens <- ThreeTokens
  Sids <- TwoSids
  Keep = 1
  MaxPassword = 1
  Requests <- AllWhenSerial
  None = None
CHECK_DEADLOCK FALSE
SYMMETRY Symmetry
INVARIANTS SessionListsItsOwn UnrevokedBounded EndedStaysEnded
