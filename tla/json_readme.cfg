CONSTANTS
  Name <- MCName
  Texts <- MCTexts
  Object = Object
  Other = Other
  Unparsable = Unparsable
  Unprintable = Unprintable
  OutOfRange = OutOfRange
  Seeds <- ReadmeRequests
  MaxEdits = 1
SPECIFICATION Spec
INVARIANT CanonicalOperationsAccepted
CHECK_DEADLOCK FALSE
