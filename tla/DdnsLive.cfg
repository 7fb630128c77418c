SPECIFICATION FairSpec
CONSTANTS
  r1 = r1
  r2 = r2
  a = a
  b = b
  IPv4s = {a, b}
  IPv6s = {}
  Records = {r1, r2}
  Ddns = {r1, r2}
  None = None
  Absent = Absent
  Foreign = Foreign
  Cron = {cron}
  Callers = {api}
  MaxMoves = 1
  MaxFaults = 1
  MaxRequests = 1
PROPERTY
  KeepsInSync
