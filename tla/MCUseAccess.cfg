SPECIFICATION Spec
CONSTANTS
  t1 = t1
  t2 = t2
  Tokens <- OneToken
  Requests <- ThriceEach
  TokenOf <- TokenPresented
  MaxTime = 3
INVARIANTS
  TypeOK
  ValidMeansUsed
  NoLateUse
  LateIsRefused
  FreshCopyInv
PROPERTIES
  UsedForEver
CHECK_DEADLOCK FALSE
