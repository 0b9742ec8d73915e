SPECIFICATION PersistSpec
CONSTANTS
  CAPACITY = 2
  What <- MCWhat
  RECORDS_PER_SECTOR = 2
  Images = {"bare", "partitioned"}
  MaxAstray = 1
  SECTORS = 10
  FirstLba = 4
  LastLba = 7
  MaxBoots = 3
  MaxEntries = 3
INVARIANTS RetainsTheNewest TipMatchesDisk CommittedSurvives AcceptedInOrder
  CleanBootCommitsAll WritesStayInside
CHECK_DEADLOCK FALSE
