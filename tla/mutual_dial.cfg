SPECIFICATION FairSpec
CONSTANTS
  None = None
  client = client
  server = server
  port = port
  Entities <- MCEntities
  Ports <- MCPorts
  Owner <- MCOwner
  SeedConfigs <- BothConfigs
  SeedEnabled <- BothEnabled
  SeedSubs <- BothSubscribed
  SeedGrants <- BothGranted
  Forwards <- BothForward
  Dials <- BothDial
  MaxConfigs = 2
  MaxEdits = 0
  Conns = {k1, k2}
  Chans = {h1}
PROPERTY
  HandlersReturn
CHECK_DEADLOCK FALSE
