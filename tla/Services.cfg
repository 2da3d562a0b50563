SPECIFICATION ServicesSpec
CONSTANTS
  Round = {r, s}
  Streamed = {s}
  MaxRounds = 2
  NoPlan = NoPlan
  Call = {"k1", "k2", "k3"}
  Requests <- SomeRequests
  NoOp = NoOp
  Pinned = {"x"}
  Process = {api, cli}
  Cli = {cli}
  Api = api
  Sample = {s1}
  MaxEdit = 1
  MaxKill = 2
  NoLatch = NoLatch
  NoOne = NoOne
  Down = Down
  Rejected = Rejected
  Attempt = {"a1", "a2", "a3"}
  Password = {"p", "q"}
  Given <- SomeGiven
  MaxFailures = 2
  MaxVerify = 2
  MaxChange = 2
  MaxOutage = 1
INVARIANTS ServicesTypeOK RoundsFitTheirSegment OperationIsOneBatch
  L1IsProven UnprovenIsLatched PromotedOnce PromotedStaysAttested
  SessionsAreCurrent
PROPERTIES ConcludedIsReadOnly RetryIsAnswered SignedByTheLiving
CHECK_DEADLOCK FALSE
