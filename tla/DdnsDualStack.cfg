SPECIFICATION FairSpec
CONSTANTS
  r1 = r1
  a = a
  b = b
  IPv4s = {a, b}
  IPv6s = {v6}
  Records = {r1}
  Ddns = {r1}
  None = None
  Absent = Absent
  Foreign = Foreign
  Cron = {cron}
  Callers = {api}
  MaxMoves = 2
  MaxFaults = 0
  MaxRequests = 0
PROPERTY
  KeepsInSync
