\* Two connections on the one port and one on the other share one number, for what is
\* said of one epoll instance per port.
CONSTANTS
  OwnA = {a1, a2}
  OwnB = {b1}
  Fds = {f1}
  Requests <- OneRequest
  DefaultLimit = 1
  MaxReply = 1
  SndBuf = 1
  MaxEvents = 2
  Faults = {}
  ListenerA = ListenerA
  ListenerB = ListenerB
  None = None
SPECIFICATION Spec
SYMMETRY AnyOrder
\* The clients run out of things to do.
CHECK_DEADLOCK FALSE
PROPERTY OneInstancePerPort
