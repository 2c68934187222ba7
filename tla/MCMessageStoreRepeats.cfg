SPECIFICATION Spec
CONSTANTS
  Dids = {alice, bob}
  Mediator = mediator
  Hashes = {h1, h2}
  NoMeta = NoMeta
  Clocks <- ThreeDigitClocks
  MaxCopies = 2
INVARIANTS
  ReceiverCanDelete
CHECK_DEADLOCK FALSE
