SPECIFICATION Spec
CONSTANTS
  Job = {j1, j2}
  Kinds <- AllKinds
  Callback = {j1}
  TokenMissing = {j2}
  Canceller = {}
  Follower = {}
  None = None
  MaxLines = 1
  MaxPolls = 1
  MaxRestarts = 1
  Attempts = 2
  TemplateDeletes = 1
PROPERTIES ImplementsLifecycle
CHECK_DEADLOCK FALSE
