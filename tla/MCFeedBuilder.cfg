CONSTANTS
  Title <- TitlesUsed
  CpeURI = {"a", "h", "b", "d", "x"}
  VendorProduct <- Products
  Char <- Characters
  Escapes = FALSE
  Item <- Files
  Annotations <- VulsList
  JvnStored <- JvnFeeds
  Unparsable = {"x"}
  Attributes <- AttributesOf
  ANY <- NotGiven
SPECIFICATION Spec
INVARIANT FeedTypeOK
INVARIANT FeedComplete
INVARIANT DictionaryTitleWins
INVARIANT DriversAgree
INVARIANT ListedProductFound
CHECK_DEADLOCK FALSE
