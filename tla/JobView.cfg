SPECIFICATION FairSpec
CONSTANTS
  Job = {j1, j2}
  None = None
  MaxLines = 1
  MaxSockets = 2
  MaxDrops = 1
INVARIANTS ConnectedIsBacked
PROPERTIES NoForeignLines FinishedIsShown
CHECK_DEADLOCK FALSE
