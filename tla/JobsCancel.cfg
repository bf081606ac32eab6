SPECIFICATION FairSpec
CONSTANTS
  Job = {j1}
  Kinds <- AllKinds
  Callback = {j1}
  TokenMissing = {}
  Canceller = {c1, c2}
  Follower = {f1}
  None = None
  MaxLines = 1
  MaxPolls = 2
  MaxRestarts = 1
  Attempts = 4
  TemplateDeletes = 0
INVARIANTS TypeOK SuccessIsReal RegistryIsLive FollowerSawWholeLog
CHECK_DEADLOCK FALSE
PROPERTIES EveryJobFinishes
