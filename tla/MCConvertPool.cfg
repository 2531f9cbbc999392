CONSTANTS
  Thread = {w1, w2, w3}
  CpeName = {"a", "b", "c", "x"}
  Chunks <- BothChunks
  Unparsable = {"x"}
  Blank = "blank"
  Nil = "nil"
SPECIFICATION FairSpec
INVARIANT ConvertTypeOK
INVARIANT NoPanic
INVARIANT NothingConvertedTwice
PROPERTY ConvertsAll
CHECK_DEADLOCK FALSE
