CONSTANTS
  Title = {"tA", "tB"}
  CpeURI = {"a", "b"}
  VendorProduct <- OneProduct
  Char <- Characters
  Escapes = TRUE
  Fetcher = {f1, f2}
  Upstream <- TwoFeeds
  Scenarios <- ProperScenarios
  Ids = {1, 2, 3, 4, 5, 6, 7, 8}
  Request = {r1}
  Limit = 1
SYMMETRY Processes
SPECIFICATION QuerySpec
INVARIANT TxInv
INVARIANT QueryTypeOK
INVARIANT AnswersFromWholeFeeds
INVARIANT StableTitleFound
PROPERTY ImplementsDictionary
PROPERTY CommitStoresFeed
CHECK_DEADLOCK FALSE
