SPECIFICATION Spec
CONSTANTS
  t1 = t1
  t2 = t2
  Tokens <- OneToken
  Requests <- TwiceEach
  TokenOf <- TokenPresented
  MaxTime = 3
INVARIANTS
  AtMostOneValid
CHECK_DEADLOCK FALSE
