CONSTANTS
  Texts <- MCTexts
  YY_READ_BUF_SIZE = 3
  YY_BUF_SIZE = 4
  StringSize = 7
  MaxPieces = 3
SPECIFICATION Spec
CHECK_DEADLOCK FALSE
INVARIANTS TypeOK Scanned RoundTrip
PROPERTIES Ends
