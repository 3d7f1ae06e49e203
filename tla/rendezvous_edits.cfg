SPECIFICATION Spec
CONSTANTS
  None = None
  client = client
  server = server
  port = port
  Entities <- MCEntities
  Ports <- MCPorts
  Owner <- MCOwner
  SeedConfigs <- ServerConfig
  SeedEnabled = {}
  SeedSubs <- ClientSubscribed
  SeedGrants <- ClientGrantedOne
  Forwards <- ServerForwards
  Dials <- ClientDials
  MaxConfigs = 2
  MaxEdits = 2
  Conns = {k1, k2}
  Chans = {h1}
SYMMETRY Symmetry
INVARIANTS
  
  DbConsistent
CHECK_DEADLOCK FALSE
