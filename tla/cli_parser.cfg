CONSTANTS
  Separators <- Blank
  Upper <- MCUpper
  First <- AnySymbol
  Later <- LaterSymbols
  MaxLine = 7
SPECIFICATION Spec
INVARIANTS TokensAreTheWords NoWordIsLost SpacingDoesNotMatter
CHECK_DEADLOCK FALSE
