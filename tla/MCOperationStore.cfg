\* Four operations in a store of two, all of which may be running at once, and a
\* page that polls the first of them.
SPECIFICATION FairSpec
CONSTANTS
  Capacity = 2
  MaxOps = 4
  Watched = {1}
INVARIANTS
  Truthful
  PagesKnow
PROPERTIES
  EvictedForNewer
  PollingEnds
