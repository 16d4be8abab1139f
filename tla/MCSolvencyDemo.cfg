SPECIFICATION DemoSpec
CONSTANTS
  o1 = o1
  o2 = o2
  Outpoints = {o1, o2}
  Sats <- MCSats
  GuardedWBTC = gwBTC
  NaiveWBTC = nwBTC
  Tokens = {gwBTC, nwBTC}
  NoToken = NoToken
  Windows = {1, 2}
  Window = 2
  ShareDivisor = 2
  AttackFactor = 4
  MaxUint = 20
  MaxHeight = 2
  MaxTime = 3
  MaxStops = 1
INVARIANTS
  DemoTypeOK
  DemoStaysBacked
PROPERTIES
  AttackIsRefused
  FirstBackedMintSucceeds
  ZeroReserveMeansStale
  StaleMintNeedsFreshProof
