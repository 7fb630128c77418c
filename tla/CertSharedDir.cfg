SPECIFICATION Spec
CONSTANTS
  apex = apex
  star = star
  d = d
  Records = {apex, star}
  Dirs = {d}
  DirOf <- SharedDirOf
  Jobs = {1, 2}
  Procs = {p1, p2}
  None = None
  MaxFaults = 0
  MaxRefusals = 0
  SpareJobs = 0
INVARIANT
  ServedMaterialConsistent
