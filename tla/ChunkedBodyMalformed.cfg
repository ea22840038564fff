\* A chunked body that has arrived in part.
CONSTANTS
  Bytes <- AllBytes
  ArbitraryInputs = {}
  CR = "CR"
  LF = "LF"
  Plus = "+"
  HexDigits <- Digits
  HexValue <- Value
  UsizeLimit = 64
  ChunkLists <- Lists
  DigitOf <- Digit
SPECIFICATION Spec
\* The decoder stops at the end of its input.
CHECK_DEADLOCK FALSE
INVARIANT MalformedIsNone
