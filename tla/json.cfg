CONSTANTS
  Name <- MCName
  Texts <- MCTexts
  Object = Object
  Other = Other
  Unparsable = Unparsable
  Unprintable = Unprintable
  OutOfRange = OutOfRange
  Seeds <- ValidRequests
  MaxEdits = 2
SPECIFICATION Spec
INVARIANTS AcceptsTheContract ErrorNamesADefect
PROPERTY RepairsSucceed
CHECK_DEADLOCK FALSE
