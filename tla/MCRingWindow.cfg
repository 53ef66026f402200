\* A blob of nine bytes through a ring of four: every refill wraps somewhere.
\* The guest may be served or, as RING_TEST_NO_REFILL asks, starved.
SPECIFICATION FairSpec
CONSTANTS
  BlobLen = 9
  RingSize = 4
  HeadBytes = 1
  PieceMax = 3
  CellBase = 4
  StallRounds = 1
  HardCap = 3
  TinySet = 1
  PCs = {1, 2}
  HltPC = 1
  WedgePC = 2
INVARIANTS
  GuestReadsInOrder
  DetachOnlyWhenConsumed
  VerdictNamesTheCulprit
  NoBusyGuestGivenUp
  IInv
PROPERTIES
  HaltedDuringAccess
  FeedEnds
  ImplementsFeed
