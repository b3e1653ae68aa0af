CONSTANTS
  Base = 6
  Width = 1
  kMaxRecordLength = 4
  Malformed = Malformed
  OffsetWidth = 1
  kSnapshotMagic = 5
  kSnapshotVersion = 1
  kMaxSnapshotFieldLength = 2
  NotLoaded = NotLoaded
  Refused = Refused
  MaxFile = 7
SPECIFICATION Spec
INVARIANTS ParserInvertsWriter FramedGarbageIsSkipped LimitsAligned OnlyWrittenFilesLoad
PROPERTIES CutLosesOnlyTheTail CutNeverMisleads
CHECK_DEADLOCK FALSE
