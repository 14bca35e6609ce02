SPECIFICATION LogsSpec
CONSTANTS
  MaxEntries = 5
  MaxSessions = 2
  BufferCap = 2
  StoreCap = 2
PROPERTY DiagnosticsAreReliable
CHECK_DEADLOCK FALSE
