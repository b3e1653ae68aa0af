CONSTANTS
  Base = 4
  Width = 2
  kMaxRecordLength = 8
  Malformed = Malformed
  None = None
  Torn = Torn
  Keys <- OneKey
  Values <- BoundaryValues
  MaxEntries = 2
  Faults = {"torn"}
SPECIFICATION Spec
INVARIANT AckedWriteIsReplayed
