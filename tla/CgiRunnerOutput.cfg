\* Header lines of one kind before a body of any.  Not among the runs of PROJECT.json.
CONSTANTS
  BodySizes = {0}
  Scripts <- AnyOutput
  StdinCap = 1
  StdoutCap = 4
SPECIFICATION Spec
CHECK_DEADLOCK FALSE
INVARIANT BodyDoesNotConfuse
