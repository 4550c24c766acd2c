\* A redirect while a handle downloads.
SPECIFICATION FairSpec
CONSTANTS
  t1 = t1
  t2 = t2
  t3 = t3
  h1 = h1
  h2 = h2
  h3 = h3
  Threads = {t1, t2, t3}
  Handles = {h1, h2, h3}
  Situations <- Region
PROPERTIES
  CallsReturn
CHECK_DEADLOCK FALSE
