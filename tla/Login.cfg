SPECIFICATION Spec
CONSTANTS
  Addr = {a1, a2}
  Window = 5
  Threshold = 3
  Delay = 2
  MaxFail = 2
  BlockFor = 3
  Id = {s1, s2}
  Ttl = 1
  Request = {r1}
  None = None
INVARIANTS Throttled FailuresBounded AnswersWereTrue
PROPERTY WaitIsEnough
CHECK_DEADLOCK FALSE
