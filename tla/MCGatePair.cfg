SPECIFICATION GateSpec
CONSTANTS
  sep = sep
  letter = letter
  Char = {sep, letter}
  Slash = sep
  Holder = {1, 2}
  Requested <- PairRequested
  MaxSlots = 2
  WordMax = 400
  RootBudgets <- PairBudgets
  ShareBudgets <- PairBudgets
  SpendAmounts = {100}
  Charges = {200}
  Reports = {"Continue", "AwaitConsent", "Done", "Failed"}
  Elapsed = {0}
  MAX_CAPABILITIES = 2
  MAX_PENDING_APPROVALS = 1
  MaxAgents = 2
  MaxApprovals = 2
  MaxUsed = 0
INVARIANT OneYesOneAct
PROPERTIES ImplementsConsent StoppedStaysStopped NeverSilent
