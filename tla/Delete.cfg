\* Five paths in chunks of two; see MCS3Delete.
CONSTANTS
  AllPaths = {"a1", "a2", "a3", "b1", "c1", "h1"}
  Secrets = {"s1", "s2"}
  SecretOf <- PathSecret
  HostOf <- PathHost
  DirOf <- PathDir
  MaxKeysPerRequest = 2
  RefreshEnabled = TRUE
  Situations <- Regular
SPECIFICATION FairSpec
INVARIANTS
  AllGone
  ExpirySurvived
PROPERTIES
  RemoveReturns
CHECK_DEADLOCK FALSE
