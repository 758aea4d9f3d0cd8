\* Nine entries, requests for three, two fetchers, no buffer: the third request is cut by
\* the window, the fourth by the end of the range.  A consumer that pauses twice, or never.
CONSTANTS
  Start = 0
  End = 8
  BatchSize = 3
  MaxFetchers = 2
  Buffer = 0
  MaxRetries = 1
  Cached <- SomeCached
  MaxErrors = 2
  MaxPauses = 2
SPECIFICATION FairSpec
INVARIANTS
  NeverBlocks
  CountersExact
  WindowBounded
PROPERTIES
  ProducesStream
  DoneFires
  NothingAfterDone
CHECK_DEADLOCK FALSE
