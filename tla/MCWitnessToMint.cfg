\* A window plays no part here (the solvency layer by itself is run with one).
SPECIFICATION WholeSpec
CONSTANTS
  o1 = o1
  o2 = o2
  Outpoints = {o1, o2}
  Sats <- MCSats
  Values = {1, 2}
  Receiver = receiver
  Relayer = relayer
  Others = {other}
  Attested = BitcoinUtxoAttested
  NoFact = NoFact
  MinGas = 2
  MaxGas = 3
  Gas = {1, 2, 3, 4}
  MaxHeight = 2
  MaxTime = 1
  GuardedWBTC = gwBTC
  NaiveWBTC = nwBTC
  Tokens = {gwBTC, nwBTC}
  NoToken = NoToken
  Windows = {0}
  MaxUint = 1
INVARIANTS
  PipelineTypeOK
  FactsAreAuthored
  GuardedSupplyIsWitnessed
PROPERTIES
  ValueIsStable
  ImplementsFactFeed
CONSTRAINT FewConsumers
