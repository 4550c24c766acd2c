\* The situations of MCHTTPFSCurlUtil; the processor is fair to t1 only.
SPECIFICATION FairSpec
CONSTANTS
  None = None  Freed = Freed
  t1 = t1  t2 = t2  b1 = b1  b2 = b2  k1 = k1  k2 = k2
  Threads = {t1, t2}
  Clients = {c1, c2, c3, c4}
  BaseUrls = {b1, b2}
  Tokens = {k1, k2}
  PoolCount = 2
  Slots = {s1}
  Situations <- Regular
  Fair = {t1}
INVARIANTS
  OneOwner
  WireIsRequested
  PointersAreLive
  CancelReaches
PROPERTIES
  RequestNeedsNobody
CHECK_DEADLOCK FALSE
