CONSTANTS
  Title <- TitlesUsed
  CpeURI = {"a", "h", "b", "d", "x"}
  VendorProduct <- Products
  Char <- Characters
  Escapes = TRUE
  Item <- Files
  Annotations <- VulsList
  JvnStored <- JvnFeeds
  Unparsable = {"x"}
  Attributes <- AttributesOf
  ANY <- NotGiven
SPECIFICATION Spec
CHECK_DEADLOCK FALSE
INVARIANT ListedProductFound
