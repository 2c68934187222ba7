CONSTANTS
  alice = alice
  former = former
  bob = bob
  med = med
  relay = relay
  aX = aX
  aP = aP
  aS = aS
  fS = fS
  bX = bX
  bP = bP
  bZ = bZ
  mX = mX
  mS = mS
  rE = rE
  rX = rX
  kaX = kaX
  kaX2 = kaX2
  kaP = kaP
  kaS = kaS
  kfS = kfS
  kbX = kbX
  kbX2 = kbX2
  kbP = kbP
  kbZ = kbZ
  kmX = kmX
  kmS = kmS
  krE = krE
  krX = krX
  medUrl = medUrl
  s0 = s0
  s1 = s1
  s2 = s2
  s3 = s3
  s4 = s4
  s5 = s5
  None = None
  NoDoc = NoDoc
  Dids <- MCDids
  Kids <- MCKids
  Keys <- MCKeys
  DidOf <- MCDidOf
  AlgOf <- MCAlgOf
  Versions <- MCVersions
  Wallet <- MCWallet
  Mediators = {med, relay}
  Uris = {medUrl}
  OwnerOf <- MCOwnerOf
  UrlsResolved = {bX}
  Requests <- MCRequests
  Watch <- MCWatch
  ToKidsLimit = 3
  OpsLimit = 4

SPECIFICATION EnvelopeSpec
CHECK_DEADLOCK FALSE

INVARIANTS
  EnvelopeTypeOK
  MetadataAgrees
  SenderIsProven
  StaysSealed
  RefusedForAReason
  RouteTaken
