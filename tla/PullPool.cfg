SPECIFICATION FairPoolSpec
CONSTANTS
  Image = {"a", "b", "c", "d"}
  Workers = 2
INVARIANT AllReported
PROPERTIES PoolImplements PoolReturns
CHECK_DEADLOCK FALSE
