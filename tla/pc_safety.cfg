SPECIFICATION Spec
CONSTANTS
  o = o
  a = a
  b = b
  Aspace = {o, a}
  Owner = o
  Proxy = {p}
  BaseCount = 45
  MaxDebit = 8
  MaxCount = 16
  Thread = {t1, t2}
  NCells = 6
  FromOwner = 3
  FromA = 2
  FromB = 0
  Sends <- MCSends
  Occurs = 1
  Collectors = {o, a}
  Retries = {FALSE, TRUE}
INVARIANTS
  NoPrematureFree
  NoInventedCounts
CHECK_DEADLOCK FALSE
