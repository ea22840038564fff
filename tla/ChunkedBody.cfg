\* Every input of up to five bytes, every part of an encoded body.
CONSTANTS
  Bytes <- AllBytes
  ArbitraryInputs <- Short
  CR = "CR"
  LF = "LF"
  Plus = "+"
  HexDigits <- Digits
  HexValue <- Value
  UsizeLimit = 16
  ChunkLists <- Lists
  DigitOf <- Digit
SPECIFICATION Spec
\* The decoder stops at the end of its input.
CHECK_DEADLOCK FALSE
INVARIANTS
  TypeOK
  DecodesEncoding
  PrefixNotAccepted
  PanicsAtChunkEnd
  IndInv
