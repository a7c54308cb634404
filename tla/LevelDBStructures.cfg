CONSTANTS
  Threads = {t1, t2}
  Tables = {f1, f2}
  Handles = {h1, h2, h3, h4}
  Capacity = 1
  MaxKey = 4
  MaxHeight = 2
  BlockSize = 8
  HeaderSize = 3
  Sizes = {0, 2, 3, 7, 12}
  MaxRecords = 3
  UserKeys = {1, 2}
  Snapshot = 3
  MaxInserts = 1
SPECIFICATION StructuresSpec
INVARIANTS HeldTablesOpen NothingLeaks ListsAgree
INVARIANTS ListOrdered NothingMissed ReadsBack IteratorAgrees
CHECK_DEADLOCK FALSE
