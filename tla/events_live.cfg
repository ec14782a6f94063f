SPECIFICATION LiveSpec
CONSTANTS
  Fds = {f1, f2}
  PollInterval = 1
  TicksPerPoll = 2
  MaxKeys = 0
  MaxTime = 1
  MaxOverdue = 2
  NoChan = NoChan
  Modes = {"input"}
  Deltas = {2}
  LatePolls = FALSE
  InOrder = FALSE
PROPERTIES
  IoNoticed
