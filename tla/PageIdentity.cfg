CONSTANTS
  Absent = Absent  NoRow = NoRow  Unread = Unread
  Names = {n1}
  MaxRefreshes = 2
  MaxSubmits = 1
  MaxLoads = 1
  MaxRemovals = 0
  MaxFaults = 0
SPECIFICATION Spec
INVARIANT
  ListOfIdentity
