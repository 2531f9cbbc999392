CONSTANTS
  Title = {"tA", "tS", "jA", "jS", "vA", "vB"}
  CpeURI = {"a", "b", "s"}
  VendorProduct = {"p", "q"}
  Fetcher = {"f1"}
  Upstream <- SharedHistory
  OverlapSameType = FALSE
  Interruptible = FALSE
SPECIFICATION Spec
INVARIANT NeededMembersKept
CHECK_DEADLOCK FALSE
