SPECIFICATION FairSpec
CONSTANTS
  o = o
  a = a
  b = b
  Aspace = {o, a, b}
  Owner = o
  Proxy = {p}
  BaseCount = 40
  MaxDebit = 8
  MaxCount = 16
  Thread = {t1}
  NCells = 6
  FromOwner = 1
  FromA = 2
  FromB = 1
  Sends <- MCSends
  Occurs = 1
  Collectors = {o, a, b}
  Retries = {FALSE}
INVARIANTS
  NoPrematureFree
PROPERTIES
  ProxiesReclaimed
CHECK_DEADLOCK FALSE
