SPECIFICATION FairInboundSpec
CONSTANTS
  alice = alice
  bob = bob
  s1 = s1
  h1 = h1
  Dids = {alice, bob}
  Mediator = mediator
  Hashes = {h1, h2}
  NoMeta = NoMeta
  Clocks <- BackwardClocks
  MaxCopies = 2
  Sessions = {s1}
  DidOf <- OfAlice
  IdLists <- NamedId
  Limit = 1
  MaxListed = 1
  SecDigits = 1
  DeleteUnread = FALSE
  Posts = {p1, p2}
  MaxPosts = 2
INVARIANTS
  TypeOK
  InboundTypeOK
  ToldIsStored
  IndexSound
  CountersCoverQueues
  QueuedStatIsSumOfStatus
PROPERTIES
  NoUnreadLoss
  DeletesOneCopy
  ToldIsRead
CHECK_DEADLOCK FALSE
