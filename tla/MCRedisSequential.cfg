CONSTANTS
  Title = {"tA", "tS", "jA", "jS", "vA", "vB"}
  CpeURI = {"a", "b", "s"}
  VendorProduct = {"p", "q"}
  Fetcher = {"f1"}
  Upstream <- LongHistory
  OverlapSameType = FALSE
  Interruptible = FALSE
SPECIFICATION Spec
INVARIANT TitleListComplete
INVARIANT ListedTitleHasCpe
INVARIANT NoOrphanMember
INVARIANT OrphanInv
CHECK_DEADLOCK FALSE
