SPECIFICATION MemorySpec
CONSTANTS
  FRAMES = 7
  BITMAP_FRAMES = 1
  Counts = {1, 2}
  MIN_BLOCK = 2
  HEAP_BASE = 24
  HEAP_BYTES = 12
  Layouts <- MCLayouts
  TABLE_FRAMES = 1
  HEAP_PAGES = 1
  PAGE_SIZE = 12
  MaxLive = 3
INVARIANTS FramesOwnedOnce RefusedMeansFull HeapTiled BlocksRepresentable
