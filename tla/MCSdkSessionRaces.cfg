SPECIFICATION SessionSpec
CONSTANTS
  alice = alice
  bob = bob
  main = main
  task = task
  other = other
  Dids = {alice, bob}
  Ids = {i1, i2, i3, i4}
  Requests = {r1, r2}
  NoDid = NoDid
  NoKey = NoKey
  NoToken = NoToken
  Atms = {main, other}
  MyDid <- TwoDids
  TaskOf <- NoTask
  OtherIds = {}
  Configs <- Working
  MaxCrashes = 0
  MaxOutages = 0
SYMMETRY Alike
INVARIANTS
  SessionTypeOK
  KeptTokensAreOwn
  ChallengeUsedOnce
  TokensMatchChallenge
  TokensAreCounted
CHECK_DEADLOCK FALSE
