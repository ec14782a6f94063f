SPECIFICATION Spec
CONSTANTS
  Fds = {f1, f2}
  PollInterval = 1
  TicksPerPoll = 2
  MaxKeys = 1
  MaxTime = 2
  MaxOverdue = 1
  NoChan = NoChan
  Modes = {"input", "output"}
  Deltas = {0, 2}
  LatePolls = TRUE
  InOrder = TRUE
SYMMETRY Symmetry
INVARIANTS
  NoHiddenEvents
  ChannelQueueSound
  CompletionsAwaited
  SleepsIdle
PROPERTIES
  InterruptsJustified
  QueuesAgree
