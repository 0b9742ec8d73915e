SPECIFICATION YardSpec
CONSTANTS
  ENTRIES = 3
  HUGE_PAGE_SIZE = 2
  LowGib = 1
  DEVICE_WINDOW = 4
  YardSlot = 2
  MAX_DEVICE_WINDOWS = 2
  RegionEnds <- MCRegionEnds
  Devices <- MCDevices
  FrameCounts = {4, 8, 16}
  NonVolatile = {"rbx", "rdi", "rsi", "r12"}
  Verbs = {4, 5}
  VERB_JOURNAL = 5
  MaxEnters = 2
  MaxCrossings = 2
INVARIANTS OnlyYardIsUser IdentityIntact CallerIntact TicksOffTheUserStack KilledNotPanicked
CHECK_DEADLOCK FALSE
