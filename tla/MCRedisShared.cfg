CONSTANTS
  Title = {"tA", "tS", "jA", "jS", "vA", "vB"}
  CpeURI = {"a", "b", "s"}
  VendorProduct = {"p", "q"}
  Fetcher = {f1, f2}
  Upstream <- SharedHistory
  OverlapSameType = FALSE
  Interruptible = TRUE
SPECIFICATION Spec
SYMMETRY Fetchers
INVARIANT TypeOK
INVARIANT InsertInv
INVARIANT StableMembersKept
PROPERTY CommitInstallsFeed
CHECK_DEADLOCK FALSE
