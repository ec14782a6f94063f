SPECIFICATION Spec
CONSTANTS
  Procs <- AllProcs
  Data <- Pushed
  Lists <- ArgLists
  Protocol <- Protocols
  ExceptionArgs <- Reasons
  Handler = "handler"
  InterruptHandler = "alarm"
  StackCells = 56
  DefaultSpace = 12
  BigSpace = 13
  BigProcs = {"spread"}
  WarningLimit = 0
  TailCalls <- Leavings
  MaxSteps = 7
  MaxArgs = 2
  MaxDepth = 2
  MaxChain = 2
INVARIANTS HeapNeverPointsIntoStack StackSuffices CollectorSeesStack
PROPERTY ImplementsContinuations
CHECK_DEADLOCK FALSE
