SPECIFICATION Spec
CONSTANTS
  None = None
  client = client
  server = server
  port = port
  Entities <- MCEntities
  Ports <- MCPorts
  Owner <- MCOwner
  SeedConfigs <- ServerConfig
  SeedEnabled <- FirstEnabled
  SeedSubs <- ClientSubscribed
  SeedGrants <- ClientGranted
  Forwards <- ServerForwards
  Dials <- ClientDials
  MaxConfigs = 1
  MaxEdits = 0
  Conns = {k1, k2}
  Chans = {h1}
SYMMETRY Symmetry
INVARIANT
  ConnectedServersReachable
CHECK_DEADLOCK FALSE
