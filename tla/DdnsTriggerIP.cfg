SPECIFICATION Spec
CONSTANTS
  r1 = r1
  a = a
  b = b
  IPv4s = {a, b}
  IPv6s = {}
  Records = {r1}
  Ddns = {r1}
  None = None
  Absent = Absent
  Foreign = Foreign
  Cron = {cron}
  Callers = {api}
  MaxMoves = 1
  MaxFaults = 0
  MaxRequests = 1
INVARIANT
  TriggerIPFires
