SPECIFICATION Spec
CONSTANTS
  ip = ip
  user = user
  c1 = c1
  c2 = c2
  quick = quick
  onIp = onIp
  onUser = onUser
  Nobody = Nobody
  Addresses = {ip}
  Accounts = {user}
  Peers = {c1, c2}
  AddressOf <- OneAddress
  Thresholds = {quick}
  FailCount <- Counts
  Window <- Windows
  Bans = {onIp, onUser}
  BanScope <- Scopes
  BanAction <- Actions
  BanEnds <- OneEnds
  Forever = 9
  MaxTime = 2
  Budgets <- MCBudgets
SYMMETRY Symmetric
INVARIANTS
  TypeOK
  NoLateBan
  KnownGoodNotDripped
PROPERTIES
  NoEarlyBan
  FailureDecides
