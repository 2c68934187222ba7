SPECIFICATION FairStreamSpec
CONSTANTS
  alice = alice
  bob = bob
  c1 = c1
  c2 = c2
  c3 = c3
  m1 = m1
  m2 = m2
  None = None
  Mediators = {m1}
  Dids = {alice}
  Sockets = {c1, c2}
  Senders = {p}
  Did <- SameDid
  Home <- OneHome
  ChannelCap = 2
  ClientCap = 1
  OverflowChecks = TRUE
  Invalid = TRUE
  DbOutcomes = {TRUE, FALSE}
  StartOutcomes = {TRUE}
  MaxPublished = 2
  MaxToggles = 1
  MaxRestToggles = 1
  MaxCrashes = 0
  MaxDrops = 0

  
PROPERTIES
  TaskProgress
  SupersededEnds
CHECK_DEADLOCK FALSE
