\* A client that stops reading its reply.
CONSTANTS
  Conns = {c1}
  Own = {c1}
  Fds = {f1}
  Requests <- OneRequest
  DefaultLimit = 2
  MaxReply = 2
  SndBuf = 1
  MaxEvents = 3
  Faults = {}
  Listener = Listener
  Listeners = {Listener}
  None = None
SPECIFICATION FairLoop
CHECK_DEADLOCK FALSE
PROPERTY DescriptorsComeBack
