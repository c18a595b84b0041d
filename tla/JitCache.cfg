SPECIFICATION Spec
CONSTANTS
  nopc = nopc
  NoPc = nopc
  Junk = Junk
  Pcs <- MCPcs
  Contexts = {"k", "u"}
  Vectors = {3}
  Target <- MCTarget
  Chainable = {1, 2}
  ShortBody = {2}
  Len <- MCLen
  PageLo <- MCPageLo
  PageHi <- MCPageHi
  Bucket <- MCBucket
  Buckets = {0, 1}
  PageBuckets = 2
  PageWalkMax = 2
  LastPage = 2
  MaxBlocks = 3
  CodeSize = 8
  BlockReserve = 1
  CodeAlign = 2
INVARIANTS RunsTheRightCode TablesIntact LinksSafe NothingStaleFindable
