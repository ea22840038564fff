\* Bodies and outputs that fit the pipes and that do not.
CONSTANTS
  BodySizes = {0, 1, 2}
  Scripts <- AllScripts
  StdinCap = 1
  StdoutCap = 4
SPECIFICATION Spec
\* run() returns once, and it may wait for ever.
CHECK_DEADLOCK FALSE
INVARIANTS
  TypeOK
  WholeOutput
  WholeInput
  ResponseIsWhatItWrote
  NoZombie
  IndInv
PROPERTIES
  WaitEnds
