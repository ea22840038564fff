\* Output and input around the capacity of the pipes.  Not among the runs of PROJECT.json.
CONSTANTS
  BodySizes = {0, 1}
  Scripts <- UsualScripts
  StdinCap = 1
  StdoutCap = 4
SPECIFICATION Spec
CHECK_DEADLOCK FALSE
PROPERTY OnlySlowScriptsAreKilled
