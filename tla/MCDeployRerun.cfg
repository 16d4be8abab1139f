\* An account without RAM to spare, which nobody else touches: a run buys the
\* RAM and sets the code, and the script is run once more.
SPECIFICATION DeploySpec
CONSTANTS
  Billed = 3
  Slack = 1
  Spare = 1
  InitialFree = {0}
  MaxRotations = 0
PROPERTY
  RerunsBuyNothing
