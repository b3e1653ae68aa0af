CONSTANTS
  Base = 4
  Width = 2
  kMaxRecordLength = 8
  Malformed = Malformed
  OffsetWidth = 3
  kSnapshotMagic = 13
  kSnapshotVersion = 1
  kMaxSnapshotFieldLength = 8
  NotLoaded = NotLoaded
  Refused = Refused
  None = None
  Torn = Torn
  Keys <- TwoKeys
  Values <- FittingAndLong
  MaxEntries = 3
  Faults = {}
SPECIFICATION BytesSpec
INVARIANTS SavedSnapshotLoads StartupRebuilds BytesInv
