SPECIFICATION FairSpec
CONSTANTS
  r1 = r1
  Records = {r1}
  Dirs = {r1}
  DirOf <- OwnDirOf
  Jobs = {1, 2, 3, 4, 5, 6}
  Procs = {p1, p2}
  None = None
  MaxFaults = 1
  MaxRefusals = 1
  SpareJobs = 4
PROPERTIES
  SlotEventuallyFree
  DueIsRenewed
