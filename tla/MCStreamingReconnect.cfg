SPECIFICATION StreamSpec
CONSTANTS
  alice = alice
  bob = bob
  c1 = c1
  c2 = c2
  c3 = c3
  m1 = m1
  m2 = m2
  None = None
  Mediators = {m1}
  Dids = {alice}
  Sockets = {c1, c2}
  Senders = {p}
  Did <- SameDid
  Home <- OneHome
  ChannelCap = 2
  ClientCap = 1
  OverflowChecks = FALSE
  Invalid = FALSE
  DbOutcomes = {TRUE}
  StartOutcomes = {TRUE}
  MaxPublished = 1
  MaxToggles = 2
  MaxRestToggles = 0
  MaxCrashes = 0
  MaxDrops = 0
PROPERTIES
  RemovesOnlyItsOwn
CHECK_DEADLOCK FALSE
