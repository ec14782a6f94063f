SPECIFICATION FairSpec
CONSTANTS
  a = a
  b = b
  s1 = s1
  s2 = s2
  s3 = s3
  d1 = d1
  d2 = d2
  va = va
  vb = vb
  Aspace = {a, b}
  Rank <- MCRank
  Sender = {s1, s2, s3}
  Admin = {}
  Home <- MCHome
  Target <- MCTarget
  Server <- MCServer
  Connected = FALSE
  NoThread = NoThread
  MaxConn = 10
INVARIANTS
  LocksReturned
  ChannelsAgree
PROPERTIES
  MessagesSent
CHECK_DEADLOCK FALSE
