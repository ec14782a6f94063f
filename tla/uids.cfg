SPECIFICATION Spec
CONSTANTS
  Object = {o1, o2}
  Proxy = {p1, p2, p3}
  Self = Self
  Junk = Junk
  MaxThings = 2
  MaxUid = 4
SYMMETRY Alike
INVARIANTS
  UidsDistinct
  SentObjectsResolve
  FreeListSound
PROPERTIES
  SentUidsStable
CHECK_DEADLOCK FALSE
