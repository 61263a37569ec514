CONSTANTS
  t1 = t1
  t2 = t2
  Nothing = Nothing
  Rows <- MCRows
  MaxRows = 3
  MaxSections = 2
  Tids <- MCTids
  T0 = 1
  T1 = 5
  Share = 100
  RowCap = 2
  Slow = 3
  Whole = 12
SPECIFICATION MemSpec
INVARIANTS OneSliceIsTheReport EmptySlicesAreEmpty
CHECK_DEADLOCK FALSE
