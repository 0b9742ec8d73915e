SPECIFICATION GateSpec
CONSTANTS
  sep = sep
  letter = letter
  Char = {sep, letter}
  Slash = sep
  Holder = {1}
  Requested <- ConsentRequested
  MaxSlots = 2
  WordMax = 150
  RootBudgets <- ConsentBudgets
  ShareBudgets <- ConsentBudgets
  SpendAmounts = {100, 200}
  Charges = {}
  Reports = {"Continue", "AwaitConsent", "Done", "Failed"}
  Elapsed = {0}
  MAX_CAPABILITIES = 2
  MAX_PENDING_APPROVALS = 2
  MaxAgents = 1
  MaxApprovals = 3
  MaxUsed = 0
PROPERTY YesWakesOnlyTheParked
