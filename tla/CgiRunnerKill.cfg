\* A body and an output that are both larger than the pipes.
CONSTANTS
  BodySizes = {4}
  Scripts <- OneFilter
  StdinCap = 1
  StdoutCap = 1
SPECIFICATION Spec
CHECK_DEADLOCK FALSE
PROPERTIES
  ScriptsEnd
