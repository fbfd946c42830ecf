\* Two workers, three tasks for two versions of one deployment, one fault.
SPECIFICATION Spec
CONSTANTS
  d1 = d1 i1 = i1 i2 = i2
  NoRequest = NoRequest NoImage = NoImage NoObject = NoObject
  Workers = {w1, w2} Objects = {o1, o2, o3, o4}
  Deployments = {d1} Images = {i0, i1, i2} FirstImage = i0
  Requests <- TwoVersions
  MaxRuns = 3 MaxFaults = 1
CHECK_DEADLOCK FALSE
SYMMETRY Alike
VIEW Seen
INVARIANTS TypeOK AcceptedIsTrue ReportIsTrue
