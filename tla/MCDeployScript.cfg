\* RAM in units of about 40 kB: 118 kB are billed, the slack and the spare are
\* a fraction of that.  The account starts without RAM, with some, with enough.
SPECIFICATION FairDeploySpec
CONSTANTS
  Billed = 3
  Slack = 1
  Spare = 1
  InitialFree = {0, 2, 5}
  MaxRotations = 2
INVARIANTS
  DeployTypeOK
  CodeFindsItsRam
  RamIsBoughtOnce
  RamIsRefilledOnce
PROPERTY
  RunsConverge
