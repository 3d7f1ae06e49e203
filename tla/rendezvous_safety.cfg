SPECIFICATION Spec
CONSTANTS
  None = None
  client = client
  server = server
  port = port
  Entities <- MCEntities
  Ports <- MCPorts
  Owner <- MCOwner
  SeedConfigs <- ServerConfig
  SeedEnabled <- FirstEnabled
  SeedSubs <- ClientSubscribed
  SeedGrants <- ClientGranted
  Forwards <- ServerForwards
  Dials <- ClientDials
  MaxConfigs = 2
  MaxEdits = 0
  Conns = {k1, k2, k3}
  Chans = {h1}
SYMMETRY Symmetry
INVARIANTS
  TypeOK
  SlotsNameLiveServers
  RoutedToTarget
  FastPathNeverDrops
  MapsAgree
  FastTunnelsEnd
CHECK_DEADLOCK FALSE
