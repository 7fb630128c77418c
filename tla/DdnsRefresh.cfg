SPECIFICATION Spec
CONSTANTS
  r1 = r1
  a = a
  b = b
  IPv4s = {a, b}
  IPv6s = {v6}
  Records = {r1}
  Ddns = {r1}
  None = None
  Absent = Absent
  Foreign = Foreign
  Cron = {cron}
  Callers = {api}
  MaxMoves = 1
  MaxFaults = 1
  MaxRequests = 2
SYMMETRY Symmetry
INVARIANTS
  TypeOK
  OneCurrentAddress
PROPERTY
  AddressPromiseKept
