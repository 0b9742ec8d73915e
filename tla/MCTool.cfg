SPECIFICATION ToolSpec
CONSTANTS
  Group = 7
  Word = 11
  Long = 15
  MAX_MODULE_BYTES = 110
  MAX_TYPES = 3
  MAX_IMPORTS = 3
  MAX_FUNCTIONS = 3
  MAX_EXPORTS = 1
  MAX_LOCALS = 1
  MAX_MEMORY_PAGES = 1
  MAX_DATA_SEGMENTS = 1
  MAX_STACK = 3
  MAX_FRAMES = 3
  PAGE_SIZE = 4
  Sample = {0, 1}
  Inputs <- MCInputs
  ModuleName <- i3ml
  Invoke <- invoke
  Journal <- journal
  Approve <- approve
  EntryName <- run
  Fuel = 24
  VerbSlots = 2
  MAX_NOTES = 1
INVARIANTS LebAgrees LabelsMatchNesting HeapBounded UnauthorizedUnreachable
PROPERTIES ScanIsMetered Terminates
