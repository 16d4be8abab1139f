\* Another output of the transaction is relayed at the same time.
SPECIFICATION ScriptsSpec
CONSTANTS
  o1 = o1
  o2 = o2
  o3 = o3
  Outpoints = {o1, o2}
  Sats <- MCSats
  Txid <- MCTxid
  Values = {1}
  Receiver = receiver
  Relayer = relayer
  Others = {other}
  Attested = BitcoinUtxoAttested
  NoFact = NoFact
  MinGas = 1
  MaxGas = 1
  Gas = {1}
  GasLimit = 1
  MaxWaits = 2
  MaxRetries = 1
  MaxHeight = 2
  MaxTime = 0
INVARIANT
  EventIsTheRelays
