\* Two messages in a row on c1 and one on c2, a cache of one entry: the fetches
\* of both connections overlap, also for the same block.
SPECIFICATION FairShimSpec
CONSTANTS
  c1 = c1
  c2 = c2
  Conns = {c1, c2}
  TxBlocks = {b1, b2}
  EmptyBlocks = {e}
  ZeroRoot = ZeroRoot
  Other = Other
  CacheMax = 1
  MaxRequests <- MCMaxRequests
  MaxServed <- MCMaxServed
INVARIANTS
  ShimTypeOK
  RootsAreGenuine
  CacheKeepsToItsLimit
PROPERTIES
  RequestsKeepOrder
  AnswersKeepOrder
  RequestsAreNotStuck
  AnswersAreNotStuck
CHECK_DEADLOCK FALSE
