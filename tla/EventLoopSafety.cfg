\* Two connections that may share one descriptor number.
CONSTANTS
  Conns = {c1, c2}
  Own = {c1, c2}
  Fds = {f1, f2}
  Requests <- AllRequests
  DefaultLimit = 1
  MaxReply = 2
  SndBuf = 1
  MaxEvents = 2
  Faults = {"epoll_wait", "epoll_ctl"}
  Listener = Listener
  Listeners = {Listener}
  None = None
SPECIFICATION Spec
SYMMETRY AnyOrder
\* The thread may end, and then the clients run out of things to do.
CHECK_DEADLOCK FALSE
INVARIANTS
  TypeOK
  BuffersFollowWatch
  NoOrphanDescriptor
  FreshTimer
  NoLostWakeup
  NoCrossTalk
  IndInv
PROPERTIES
  ClosesForAReason
  ImplementsExchange
