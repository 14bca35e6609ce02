SPECIFICATION LogsSpec
CONSTANTS
  MaxEntries = 7
  MaxSessions = 2
  BufferCap = 3
  StoreCap = 4
INVARIANT LogsTypeOK
INVARIANT StoredInOrder
INVARIANT ClearIsComplete
CHECK_DEADLOCK FALSE
