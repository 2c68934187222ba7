SPECIFICATION PickupSpec
CONSTANTS
  alice = alice
  h1 = h1
  Dids = {alice}
  Mediator = mediator
  Hashes = {h1, h2}
  NoMeta = NoMeta
  Clocks <- ThreeDigitClocks
  MaxCopies = 1
  Sessions = {s1, s2}
  DidOf <- SameDid
  IdLists <- NamedId
  Limit = 1
  MaxListed = 1
  SecDigits = 1
  DeleteUnread = TRUE
SYMMETRY AnySession
INVARIANTS
  ClaimedOnce
  PagingSkipsNothing
  ReceiverCanDelete
PROPERTIES
  MailboxSpec
CHECK_DEADLOCK FALSE
