CONSTANTS
  Thread = {w1, w2}
  Urls <- ThreeUrls
  NoUrl = ""
  Feed <- OverlappingFeeds
  Unparsable = {"x"}
  RetryMax = 2
SPECIFICATION FairSpec
INVARIANT JvnTypeOK
INVARIANT FeedHasEveryRdf
INVARIANT ErrorHasCause
INVARIANT PanicOnlyAfterTimeout
PROPERTY Returns
CHECK_DEADLOCK FALSE
