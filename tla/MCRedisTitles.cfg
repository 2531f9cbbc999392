CONSTANTS
  Title = {"tA", "tS", "jA", "jS", "vA", "vB"}
  CpeURI = {"a", "b", "s"}
  VendorProduct = {"p", "q"}
  Fetcher = {"f1", "f2"}
  Upstream <- SmallHistory
  OverlapSameType = FALSE
  Interruptible = FALSE
SPECIFICATION Spec
INVARIANT TitleListComplete
CHECK_DEADLOCK FALSE
