CONSTANTS
  Absent = Absent  NoRow = NoRow  Unread = Unread
  Names = {n1}
  MaxRefreshes = 1
  MaxSubmits = 2
  MaxLoads = 0
  MaxRemovals = 0
  MaxFaults = 0
SPECIFICATION FairSpec
PROPERTY
  LinkArrives
