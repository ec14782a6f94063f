SPECIFICATION FairSpec
CONSTANTS
  o = o
  a = a
  b = b
  Aspace = {o, a}
  Owner = o
  Proxy = {p}
  BaseCount = 120
  MaxDebit = 8
  MaxCount = 20
  Thread = {t1}
  NCells = 3
  FromOwner = 1
  FromA = 2
  FromB = 1
  Sends <- MCSends
  Occurs = 3
  Collectors = {o}
  Retries = {FALSE}
INVARIANTS
  WaiterIsFound
  DispatchersLive
PROPERTIES
  BlockedSendersProceed
  RequestsAnswered
CHECK_DEADLOCK FALSE
