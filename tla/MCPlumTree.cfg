CONSTANTS
  n1 = n1
  n2 = n2
  n3 = n3
  m1 = m1
  m2 = m2
  Node = {n1, n2, n3}
  Message = {m1, m2}
  Links <- Pruned
  Churn <- MCChurn
  Resetting = {n1}
  MaxPeers = 2
  CacheSize = 2
  PendingSize = 1
  MaxFaults = 1
  Origins <- MCOrigins
SPECIFICATION FairSpec
INVARIANTS TypeOK NotStranded
PROPERTIES HostsSpec Quiesces
CHECK_DEADLOCK FALSE
