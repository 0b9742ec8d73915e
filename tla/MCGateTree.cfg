SPECIFICATION GateSpec
CONSTANTS
  sep = sep
  letter = letter
  Char = {sep, letter}
  Slash = sep
  Holder = {1, 2, 3}
  Requested <- TreeRequested
  MaxSlots = 3
  WordMax = 200
  RootBudgets <- TreeRoots
  ShareBudgets <- TreeShares
  SpendAmounts = {}
  Charges = {}
  Reports = {"Continue"}
  Elapsed = {0}
  MAX_CAPABILITIES = 2
  MAX_PENDING_APPROVALS = 1
  MaxAgents = 3
  MaxApprovals = 0
  MaxUsed = 2
INVARIANTS AuthorityFlowsDown NoOrphans SubtreeWithinRoot TimeIsCarved
  AncestorsDominate DerivedStaysInside AuthorizedOnlyLive
PROPERTY RevokesExactlySubtree
