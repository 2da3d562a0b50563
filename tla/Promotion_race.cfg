SPECIFICATION PromotionSpec
CONSTANTS
  Process = {api, cli}
  Cli = {cli}
  Api = api
  Sample = {s1}
  MaxEdit = 0
  MaxKill = 1
  NoLatch = NoLatch
  NoOne = NoOne
  Down = Down
  Rejected = Rejected
PROPERTIES L1IsNotWritten
CHECK_DEADLOCK FALSE
