CONSTANTS
  k1 = k1
  k2 = k2
  Ops = {1, 2}
  Rank <- MCRank2
  Size <- MCSize2
  Needs <- MCNeeds2
  Calls = {k1, k2}
  maxOperations = 2
  Budgets = {3, 5}
  maxAttempts = 2
  None = None
SPECIFICATION FairSpec
INVARIANTS SettledOnce
PROPERTIES Delivers NothingStuck
CHECK_DEADLOCK FALSE
