\* An S3 handle sends its requests with cloned parameters.
SPECIFICATION Spec
CONSTANTS
  None = None  Freed = Freed
  t1 = t1  t2 = t2  b1 = b1  b2 = b2  k1 = k1  k2 = k2
  Threads = {t1, t2}
  Clients = {c1, c2, c3, c4}
  BaseUrls = {b1, b2}
  Tokens = {k1, k2}
  PoolCount = 2
  Slots = {s1}
  Situations <- CloneOf
  Fair = {t1}
INVARIANTS
  CancelReaches
CHECK_DEADLOCK FALSE
