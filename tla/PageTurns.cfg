CONSTANTS
  Absent = Absent  NoRow = NoRow  Unread = Unread
  Names = {n1}
  MaxRefreshes = 2
  MaxSubmits = 2
  MaxLoads = 1
  MaxRemovals = 1
  MaxFaults = 1
  MaxUses = 2
SPECIFICATION MCSpec
INVARIANT
  TypeOK ListOfIdentityInTurns
PROPERTY
  RowsStayInTurns RowsSettle
