SPECIFICATION Spec
CONSTANTS
  Job = {j1}
  Kinds <- AllKinds
  Callback = {}
  TokenMissing = {}
  Canceller = {c1}
  Follower = {}
  None = None
  MaxLines = 1
  MaxPolls = 2
  MaxRestarts = 0
  Attempts = 4
  TemplateDeletes = 0
PROPERTIES CancelSticks
CHECK_DEADLOCK FALSE
