CONSTANTS
  Key <- Keys
  Value <- MCValues
  NoValue = NoValue
  Torn = Torn
  None = None
  Oversized <- LongRecords
  kSnapshotInterval = 2
  MaxLog = 2
  Commands = {"SET", "DELETE", "CLEAR_PERSISTENCE"}
  Faults = {"crash", "walError", "snapshotError"}
  Separators <- Blank
  Upper <- MCUpper
  Lines <- MCLines
SPECIFICATION SessionSpec
INVARIANTS MemoryCoversDurable SessionInv
PROPERTIES GetIsExplained DeleteIsExplained ImplementsDurableMap
