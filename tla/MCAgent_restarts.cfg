\* A record and one split off it, one worker, a stop or a crash, and a failed
\* MongoDB write.
SPECIFICATION FairSpec
CONSTANTS
  t1 = t1 t2 = t2 w1 = w1 w2 = w2 s1 = s1 n1 = n1 n2 = n2
  e1 = e1 e2 = e2 v1 = v1 v2 = v2
  NoWorker = NoWorker NoTask = NoTask NoTag = NoTag UnknownTag = UnknownTag
  Tasks = {t1, t2}
  CreatedAt <- InOrder
  LockKeyOf <- OwnLock LockKeys <- Workloads
  Workers = {w1}
  Services = {s1} Namespaces = {n1, n2} Envs = {e1, e2} Versions = {v1}
  Request <- SplitTask NamespaceOf <- TwoNamespaces
  MaxQueueSize = 1 MaxExits = 1 MaxFaults = 1
INVARIANT OrphanExplained
PROPERTY ConfirmedIsPickedUp
