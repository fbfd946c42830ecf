\* Pushes, deploys and queries that overlap, and one
\* failed MongoDB call or crash.
SPECIFICATION FairSpec
CONSTANTS
  s1 = s1 s2 = s2 e1 = e1 e2 = e2 v1 = v1 v2 = v2 u1 = u1
  p1 = p1 p2 = p2 d1 = d1 d2 = d2 q1 = q1 q2 = q2 st1 = st1
  NoRequest = NoRequest AnyUser = AnyUser
  Requests = {p1, p2, d1, d2, q1, q2, st1}
  Request <- Mixed
  Services = {s1, s2} Envs = {e1, e2} Versions = {v1, v2} Users = {u1}
  PoolWorkers = {1} PoolCapacity = 1
  MaxMishaps = 1
CHECK_DEADLOCK FALSE
INVARIANTS TypeOK DocumentsAreKnown DeployIsAccountedFor AssignedIsHandedOut
PROPERTY PushIsApplied
