CONSTANTS
  Title = {"tA", "tB", "tD"}
  CpeURI = {"a", "b", "d"}
  VendorProduct = {"p", "q"}
  Fetcher = {"f1"}
  Request = {"r1"}
  Limit = 1
  OverlapSameType = FALSE
  Upstream <- DeprecationHistory
  Interruptible = TRUE
SPECIFICATION QuerySpec
INVARIANT QueryTypeOK
INVARIANT StableCpeAnswered
INVARIANT StableProductAnswered
INVARIANT StableTitleAnswered
INVARIANT DeprecatedNeverInUse
