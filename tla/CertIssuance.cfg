SPECIFICATION Spec
CONSTANTS
  r1 = r1
  r2 = r2
  Records = {r1, r2}
  Dirs = {r1, r2}
  DirOf <- OwnDirOf
  Jobs = {1, 2}
  Procs = {p1, p2}
  None = None
  MaxFaults = 2
  MaxRefusals = 2
  SpareJobs = 0
SYMMETRY Symmetry
INVARIANTS
  TypeOK
  OneIssuancePerRecord
  SlotsExact
  RunningJobHasRunner
  ServedMaterialConsistent
  DeliversOwnMaterial
PROPERTIES
  SuccessMeansInstalled
  PromiseKept
