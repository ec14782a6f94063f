SPECIFICATION FairSpec
CONSTANTS
  Caller = {t1, t2, t3}
  NoCaller = NoCaller
  Growth = 1
  MaxCalls = 3
INVARIANTS
  OwnResult
  IInv
PROPERTIES
  CallsReturn
  ImplementsRemoteCalls
CHECK_DEADLOCK FALSE
