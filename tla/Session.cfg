SPECIFICATION FairSpec
CONSTANTS
  User = {u1, u2}
  TwoFactor = {u2}
  Tab = {t1}
  MaxTokens = 2
  MaxCalls = 2
  MaxLost = 1
INVARIANTS TypeOK OneStore ShownIsStored
PROPERTIES DeadTokenLeavesScreen
