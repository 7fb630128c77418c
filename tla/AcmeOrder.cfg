SPECIFICATION Spec
CONSTANTS
  www = www
  apex = apex
  base = base
  wild = wild
  sub = sub
  acc = acc
  Issuers = {www, apex}
  OldKey = OldKey
  Accounts = {acc}
  AccountOf <- OneAccount
  Challenges = {base, wild, sub}
  OwnerOf <- OwnerOfWildcard
  Names = {"_acme-challenge", "_acme-challenge.www"}
  NameOf <- NameOfWildcard
  None = None
  Torn = Torn
  Bare = Bare
  MaxOrders = 3
  MaxFaults = 2
CHECK_DEADLOCK FALSE
INVARIANTS
  TypeOK
  ChallengesPublished
  NothingLeftBehind
  AccountFilesMatch
  OrdersUseOwnAccount
PROPERTY
  AccountKeyKept
