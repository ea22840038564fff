CONSTANTS
  Conns = {c1, c2}
  Own = {c1, c2}
  Fds = {f1, f2}
  Requests <- OneRequest
  DefaultLimit = 2
  MaxReply = 2
  SndBuf = 1
  MaxEvents = 3
  Faults = {}
  Listener = Listener
  Listeners = {Listener}
  None = None
SPECIFICATION FairReaders
PROPERTIES
  DescriptorsComeBack
  BacklogIsServed
