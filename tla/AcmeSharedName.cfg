SPECIFICATION Spec
CONSTANTS
  www = www
  apex = apex
  base = base
  wild = wild
  sub = sub
  acc = acc
  Issuers = {www, apex}
  OldKey = OldKey
  Accounts = {acc}
  AccountOf <- OneAccount
  Challenges = {base, sub}
  OwnerOf <- OwnerOfShared
  Names = {"_acme-challenge"}
  NameOf <- NameOfShared
  None = None
  Torn = Torn
  Bare = Bare
  MaxOrders = 2
  MaxFaults = 0
CHECK_DEADLOCK FALSE
INVARIANT
  ChallengesPublished
