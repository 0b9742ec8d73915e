SPECIFICATION SchedFairSpec
CONSTANTS
  sep = sep
  Char = {sep}
  Slash = sep
  Holder = {1, 2}
  Requested <- SchedRequested
  MaxSlots = 1
  WordMax = 100
  RootBudgets <- SchedBudgets
  ShareBudgets <- SchedBudgets
  SpendAmounts = {100}
  Charges = {100}
  Reports = {"Continue", "AwaitConsent"}
  Elapsed = {0}
  MAX_CAPABILITIES = 1
  MAX_PENDING_APPROVALS = 1
  MaxAgents = 2
  MaxApprovals = 2
  MaxUsed = 0
  Deadlines = {0, 2}
  MIN_DEADLINE = 2
  MaxSteps = 2
PROPERTIES ParkedIsReleased NoStarvation StepLeavesNoDebtor
