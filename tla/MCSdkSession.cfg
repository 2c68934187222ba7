SPECIFICATION FairSessionSpec
CONSTANTS
  alice = alice
  bob = bob
  main = main
  task = task
  other = other
  Dids = {alice}
  Ids = {i1, i2}
  Requests = {r1}
  NoDid = NoDid
  NoKey = NoKey
  NoToken = NoToken
  Atms = {main, task}
  MyDid <- AliceDid
  TaskOf <- OneTask
  OtherIds = {i1}
  Configs <- WithBroken
  MaxCrashes = 1
  MaxOutages = 1
PROPERTIES
  ServedAgain
CHECK_DEADLOCK FALSE
