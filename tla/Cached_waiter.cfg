\* Three handles wait for one download.
SPECIFICATION Spec
CONSTANTS
  t1 = t1
  t2 = t2
  t3 = t3
  h1 = h1
  h2 = h2
  h3 = h3
  Threads = {t1, t2, t3}
  Handles = {h1, h2, h3}
  Situations <- Waiters
INVARIANTS
  NobodyWaitsForReaders
CHECK_DEADLOCK FALSE
