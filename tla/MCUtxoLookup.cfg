\* Two lookups overlap; the index parses further before, during and after either.
SPECIFICATION PageSpec
CONSTANTS
  spent = spent
  late = late
  none = none
  coinbase = coinbase
  Outpoints = {spent, late, none, coinbase}
  MinedIn <- MCMinedIn
  SpentIn <- MCSpentIn
  Missing = {none}
  Known = coinbase
  Nodes = {n1, n2}
  Lookups = {l1, l2}
  MaxHeight = 3
INVARIANTS
  PageTypeOK
  SpentIsSound
  FoundWasNotSpent
  LookupsAreAnswered
