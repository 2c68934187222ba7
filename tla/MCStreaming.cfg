SPECIFICATION StreamSpec
CONSTANTS
  alice = alice
  bob = bob
  c1 = c1
  c2 = c2
  c3 = c3
  m1 = m1
  m2 = m2
  None = None
  Mediators = {m1, m2}
  Dids = {alice, bob}
  Sockets = {c1, c2, c3}
  Senders = {p}
  Did <- BobHasOne
  Home <- TwoHomes
  ChannelCap = 2
  ClientCap = 1
  OverflowChecks = TRUE
  Invalid = FALSE
  DbOutcomes = {TRUE}
  StartOutcomes = {TRUE, FALSE}
  MaxPublished = 1
  MaxToggles = 1
  MaxRestToggles = 0
  MaxCrashes = 1
  MaxDrops = 1
INVARIANTS
  StreamTypeOK
  DeliveredToOwner
  NoEntryWhenGone
PROPERTIES
  CleanStartCleans
CHECK_DEADLOCK FALSE
