\* Three callers compete for two slots; processes crash and hang, starts fail,
\* callers are dropped.
SPECIFICATION FairSpec
CONSTANTS
  Caller = {c1, c2, c3}
  Slot = {s1, s2}
  None = None
INVARIANTS TypeOK ProcessesAreDistinct LossIsBounded
PROPERTIES ImplementsLease AcquiresSettle
