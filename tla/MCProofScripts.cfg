\* The run's own relay and one more block: a relay of the same transaction, of
\* another, a failed one or a look-alike.
SPECIFICATION FairScriptsSpec
CONSTANTS
  o1 = o1
  o2 = o2
  o3 = o3
  Outpoints = {o1, o2, o3}
  Sats <- MCSats
  Txid <- MCTxid
  Values = {1}
  Receiver = receiver
  Relayer = relayer
  Others = {other}
  Attested = BitcoinUtxoAttested
  NoFact = NoFact
  MinGas = 1
  MaxGas = 1
  Gas = {1}
  GasLimit = 1
  MaxWaits = 2
  MaxRetries = 1
  MaxHeight = 2
  MaxTime = 0
INVARIANTS
  ScriptsTypeOK
  FinishedRunsHaveProven
  UndisturbedRunReportsTarget
PROPERTY
  RunsMoveOn
