SPECIFICATION PersistSpec
CONSTANTS
  CAPACITY = 2
  What <- MCWhat
  RECORDS_PER_SECTOR = 2
  Images = {"damaged"}
  MaxAstray = 0
  SECTORS = 10
  FirstLba = 4
  LastLba = 7
  MaxBoots = 3
  MaxEntries = 3
CHECK_DEADLOCK FALSE
INVARIANT PartitionedDiskKept
