CONSTANTS
  Thread = {w1, w2, w3}
  CpeName = {"a", "b", "c", "x"}
  Chunks <- SharedChunk
  Unparsable = {"x"}
  Blank = "blank"
  Nil = "nil"
SPECIFICATION Spec
INVARIANT EveryCpeConverted
CHECK_DEADLOCK FALSE
