\* A relay recorded later than the window is wide.
SPECIFICATION SolvencySpec
CONSTANTS
  o1 = o1
  o2 = o2
  Outpoints = {o1, o2}
  Sats <- MCSats
  GuardedWBTC = gwBTC
  NaiveWBTC = nwBTC
  Tokens = {gwBTC, nwBTC}
  NoToken = NoToken
  Windows = {0, 1}
  MaxUint = 3
  MaxHeight = 2
  MaxTime = 2
PROPERTY
  LagNeverLoosens
