-------------------------- MODULE PortGroupsProofs --------------------------
(****************************************************************************)
(* Proofs about PortGroups: what EventLoopProofs shows of one loop, used of *)
(* each of the two.  The lemmas are instantiated with their module, so the  *)
(* definitions of EventLoop come in twice for each loop, as A!Next and as   *)
(* PA!Next; the first section shows that they are the same.                 *)
(****************************************************************************)
EXTENDS PortGroups, TLAPS

PA == INSTANCE EventLoopProofs WITH
  Own <- OwnA, Listener <- ListenerA, pc <- pcA, batch <- batchA,
  read_buffers <- read_buffersA, write_buffers <- write_buffersA,
  connect_times <- connect_timesA

PB == INSTANCE EventLoopProofs WITH
  Own <- OwnB, Listener <- ListenerB, pc <- pcB, batch <- batchB,
  read_buffers <- read_buffersB, write_buffers <- write_buffersB,
  connect_times <- connect_timesB

-----------------------------------------------------------------------------
(* The loops of PortGroups are those of the lemmas.                         *)

\* What main() gives the first loop is what EventLoop asks for.
LEMMA LoopAssumptionsA ==
  /\ PA!RequestsAssumption /\ PA!BoundsAssumption
  /\ PA!OwnAssumption /\ PA!SentinelAssumption
  BY LoopsAssumption
  DEF A!RequestsAssumption, PA!RequestsAssumption, A!BoundsAssumption,
      PA!BoundsAssumption, A!SentinelAssumption, PA!SentinelAssumption, A!Stamp,
      PA!Stamp, A!Unit, PA!Unit, A!Reply, PA!Reply, PA!OwnAssumption, Conns

\* The books of run() are the same, before and after a step.
LEMMA SameBooksA ==
  /\ (A!Bookkeeping <=> PA!Bookkeeping) /\ (A!Bookkeeping' <=> PA!Bookkeeping')
  /\ (A!TypeOK <=> PA!TypeOK) /\ (A!TypeOK' <=> PA!TypeOK')
  BY DEF A!Bookkeeping, PA!Bookkeeping, A!TypeOK, PA!TypeOK, A!Event, PA!Event,
         A!Reply, PA!Reply, A!Unit, PA!Unit, A!Stamp, PA!Stamp, A!TableConsistent,
         PA!TableConsistent, A!Apart, PA!Apart, A!BatchConsistent,
         PA!BatchConsistent, A!BuffersFollowWatch, PA!BuffersFollowWatch,
         A!OwnBytesOnly, PA!OwnBytesOnly, A!NoCrossTalk, PA!NoCrossTalk, A!Senders,
         PA!Senders, A!TimerUntilReply, PA!TimerUntilReply, A!FreshTimer,
         PA!FreshTimer, A!NoOrphanDescriptor, PA!NoOrphanDescriptor

\* So are the empty maps run() begins with.
LEMMA SameInitA == A!Init => PA!Init
  BY DEF A!Init, PA!Init

\* And so are its steps.
LEMMA SameStepsA == A!Next => PA!Next
<1>1. A!EpollWait => PA!EpollWait
  BY DEF A!EpollWait, PA!EpollWait, A!Ready, PA!Ready, A!Queued, PA!Queued,
         A!Cardinality, PA!Cardinality, A!mapVars, PA!mapVars
<1>2. A!Sweep => PA!Sweep
  BY DEF A!Sweep, PA!Sweep, A!timed_out, PA!timed_out, A!Close, PA!Close
<1>3. A!Accept => PA!Accept
  BY DEF A!Accept, PA!Accept, A!AcceptStops, PA!AcceptStops, A!AcceptOne,
         PA!AcceptOne, A!Queued, PA!Queued, A!NewBuffer, PA!NewBuffer, A!NewStamp,
         PA!NewStamp, A!kernelVars, PA!kernelVars, A!mapVars, PA!mapVars
<1>4. \A e \in batchA : A!StartAccept(e) => PA!StartAccept(e)
  BY DEF A!StartAccept, PA!StartAccept, A!Dispatch, PA!Dispatch, A!kernelVars,
         PA!kernelVars, A!mapVars, PA!mapVars
<1>5. \A e \in batchA : A!HandleReadError(e) => PA!HandleReadError(e)
  BY DEF A!HandleReadError, PA!HandleReadError, A!ReadEvent, PA!ReadEvent,
         A!Dispatch, PA!Dispatch, A!Close, PA!Close
<1>6. \A e \in batchA : A!HandleReadEof(e) => PA!HandleReadEof(e)
  BY DEF A!HandleReadEof, PA!HandleReadEof, A!ReadEvent, PA!ReadEvent, A!Dispatch,
         PA!Dispatch, A!EpollDel, PA!EpollDel
<1>7. \A e \in batchA : A!HandleReadReply(e) => PA!HandleReadReply(e)
  BY DEF A!HandleReadReply, PA!HandleReadReply, A!ReadEvent, PA!ReadEvent,
         A!Dispatch, PA!Dispatch, A!Drained, PA!Drained, A!Parse, PA!Parse,
         A!match_config, PA!match_config, A!Senders, PA!Senders,
         A!serialize_response, PA!serialize_response, A!EpollMod, PA!EpollMod
<1>8. \A e \in batchA : A!HandleReadNoBuffer(e) => PA!HandleReadNoBuffer(e)
  BY DEF A!HandleReadNoBuffer, PA!HandleReadNoBuffer, A!ReadEvent, PA!ReadEvent,
         A!Dispatch, PA!Dispatch, A!mapVars, PA!mapVars
<1>9. \A e \in batchA : A!HandleReadPanic(e) => PA!HandleReadPanic(e)
  BY DEF A!HandleReadPanic, PA!HandleReadPanic, A!Drained, PA!Drained, A!Parse,
         PA!Parse, A!Die, PA!Die, A!Queued, PA!Queued
<1>10. \A e \in batchA : A!HandleWrite(e) => PA!HandleWrite(e)
  BY DEF A!HandleWrite, PA!HandleWrite, A!WriteEvent, PA!WriteEvent, A!Dispatch,
         PA!Dispatch, A!Close, PA!Close, A!HandleWriteError, PA!HandleWriteError,
         A!HandleWriteBlocks, PA!HandleWriteBlocks, A!drain, PA!drain,
         A!HandleWriteCompletes, PA!HandleWriteCompletes, A!HandleWriteNothing,
         PA!HandleWriteNothing
<1>11. A!Fault => PA!Fault
  BY DEF A!Fault, PA!Fault, A!EpollWaitFails, PA!EpollWaitFails, A!AcceptFails,
         PA!AcceptFails, A!Die, PA!Die, A!Queued, PA!Queued
<1>12. \A c \in OwnA : A!Client(c) => PA!Client(c)
  BY DEF A!Client, PA!Client, A!Connect, PA!Connect, A!SendSegment, PA!SendSegment,
         A!Receive, PA!Receive, A!Hangup, PA!Hangup, A!mapVars, PA!mapVars
<1>13. \A fd \in Fds : A!Expire(fd) => PA!Expire(fd)
  BY DEF A!Expire, PA!Expire, A!kernelVars, PA!kernelVars
<1> QED BY <1>1, <1>2, <1>3, <1>4, <1>5, <1>6, <1>7,
           <1>8, <1>9, <1>10, <1>11, <1>12, <1>13
        DEF A!Next, PA!Next, A!Loop, PA!Loop, A!HandleRead, PA!HandleRead

\* What main() gives the second loop is what EventLoop asks for.
LEMMA LoopAssumptionsB ==
  /\ PB!RequestsAssumption /\ PB!BoundsAssumption
  /\ PB!OwnAssumption /\ PB!SentinelAssumption
  BY LoopsAssumption
  DEF A!RequestsAssumption, A!BoundsAssumption, B!RequestsAssumption,
      PB!RequestsAssumption, B!BoundsAssumption, PB!BoundsAssumption,
      B!SentinelAssumption, PB!SentinelAssumption, B!Stamp, PB!Stamp, B!Unit,
      PB!Unit, B!Reply, PB!Reply, PB!OwnAssumption, Conns

\* The books of run() are the same, before and after a step.
LEMMA SameBooksB ==
  /\ (B!Bookkeeping <=> PB!Bookkeeping) /\ (B!Bookkeeping' <=> PB!Bookkeeping')
  /\ (B!TypeOK <=> PB!TypeOK) /\ (B!TypeOK' <=> PB!TypeOK')
  BY DEF B!Bookkeeping, PB!Bookkeeping, B!TypeOK, PB!TypeOK, B!Event, PB!Event,
         B!Reply, PB!Reply, B!Unit, PB!Unit, B!Stamp, PB!Stamp, B!TableConsistent,
         PB!TableConsistent, B!Apart, PB!Apart, B!BatchConsistent,
         PB!BatchConsistent, B!BuffersFollowWatch, PB!BuffersFollowWatch,
         B!OwnBytesOnly, PB!OwnBytesOnly, B!NoCrossTalk, PB!NoCrossTalk, B!Senders,
         PB!Senders, B!TimerUntilReply, PB!TimerUntilReply, B!FreshTimer,
         PB!FreshTimer, B!NoOrphanDescriptor, PB!NoOrphanDescriptor

\* So are the empty maps run() begins with.
LEMMA SameInitB == B!Init => PB!Init
  BY DEF B!Init, PB!Init

\* And so are its steps.
LEMMA SameStepsB == B!Next => PB!Next
<1>1. B!EpollWait => PB!EpollWait
  BY DEF B!EpollWait, PB!EpollWait, B!Ready, PB!Ready, B!Queued, PB!Queued,
         B!Cardinality, PB!Cardinality, B!mapVars, PB!mapVars
<1>2. B!Sweep => PB!Sweep
  BY DEF B!Sweep, PB!Sweep, B!timed_out, PB!timed_out, B!Close, PB!Close
<1>3. B!Accept => PB!Accept
  BY DEF B!Accept, PB!Accept, B!AcceptStops, PB!AcceptStops, B!AcceptOne,
         PB!AcceptOne, B!Queued, PB!Queued, B!NewBuffer, PB!NewBuffer, B!NewStamp,
         PB!NewStamp, B!kernelVars, PB!kernelVars, B!mapVars, PB!mapVars
<1>4. \A e \in batchB : B!StartAccept(e) => PB!StartAccept(e)
  BY DEF B!StartAccept, PB!StartAccept, B!Dispatch, PB!Dispatch, B!kernelVars,
         PB!kernelVars, B!mapVars, PB!mapVars
<1>5. \A e \in batchB : B!HandleReadError(e) => PB!HandleReadError(e)
  BY DEF B!HandleReadError, PB!HandleReadError, B!ReadEvent, PB!ReadEvent,
         B!Dispatch, PB!Dispatch, B!Close, PB!Close
<1>6. \A e \in batchB : B!HandleReadEof(e) => PB!HandleReadEof(e)
  BY DEF B!HandleReadEof, PB!HandleReadEof, B!ReadEvent, PB!ReadEvent, B!Dispatch,
         PB!Dispatch, B!EpollDel, PB!EpollDel
<1>7. \A e \in batchB : B!HandleReadReply(e) => PB!HandleReadReply(e)
  BY DEF B!HandleReadReply, PB!HandleReadReply, B!ReadEvent, PB!ReadEvent,
         B!Dispatch, PB!Dispatch, B!Drained, PB!Drained, B!Parse, PB!Parse,
         B!match_config, PB!match_config, B!Senders, PB!Senders,
         B!serialize_response, PB!serialize_response, B!EpollMod, PB!EpollMod
<1>8. \A e \in batchB : B!HandleReadNoBuffer(e) => PB!HandleReadNoBuffer(e)
  BY DEF B!HandleReadNoBuffer, PB!HandleReadNoBuffer, B!ReadEvent, PB!ReadEvent,
         B!Dispatch, PB!Dispatch, B!mapVars, PB!mapVars
<1>9. \A e \in batchB : B!HandleReadPanic(e) => PB!HandleReadPanic(e)
  BY DEF B!HandleReadPanic, PB!HandleReadPanic, B!Drained, PB!Drained, B!Parse,
         PB!Parse, B!Die, PB!Die, B!Queued, PB!Queued
<1>10. \A e \in batchB : B!HandleWrite(e) => PB!HandleWrite(e)
  BY DEF B!HandleWrite, PB!HandleWrite, B!WriteEvent, PB!WriteEvent, B!Dispatch,
         PB!Dispatch, B!Close, PB!Close, B!HandleWriteError, PB!HandleWriteError,
         B!HandleWriteBlocks, PB!HandleWriteBlocks, B!drain, PB!drain,
         B!HandleWriteCompletes, PB!HandleWriteCompletes, B!HandleWriteNothing,
         PB!HandleWriteNothing
<1>11. B!Fault => PB!Fault
  BY DEF B!Fault, PB!Fault, B!EpollWaitFails, PB!EpollWaitFails, B!AcceptFails,
         PB!AcceptFails, B!Die, PB!Die, B!Queued, PB!Queued
<1>12. \A c \in OwnB : B!Client(c) => PB!Client(c)
  BY DEF B!Client, PB!Client, B!Connect, PB!Connect, B!SendSegment, PB!SendSegment,
         B!Receive, PB!Receive, B!Hangup, PB!Hangup, B!mapVars, PB!mapVars
<1>13. \A fd \in Fds : B!Expire(fd) => PB!Expire(fd)
  BY DEF B!Expire, PB!Expire, B!kernelVars, PB!kernelVars
<1> QED BY <1>1, <1>2, <1>3, <1>4, <1>5, <1>6, <1>7,
           <1>8, <1>9, <1>10, <1>11, <1>12, <1>13
        DEF B!Next, PB!Next, B!Loop, PB!Loop, B!HandleRead, PB!HandleRead

\* An absent descriptor is not a connection of either port.
LEMMA NoneIsNoConnection == None \notin OwnA \cup OwnB
  BY LoopAssumptionsA DEF PA!SentinelAssumption, Conns

-----------------------------------------------------------------------------
(* A step of the one loop, seen from both.                                  *)

\* A step of the first loop keeps the shape of what both threads hold.
LEMMA TypeStepA ==
  ASSUME A!TypeOK, B!TypeOK, A!Next, UNCHANGED loopB
  PROVE  A!TypeOK' /\ B!TypeOK'
<1>1. PA!TypeOK /\ PB!TypeOK /\ PA!Next
  BY SameBooksA, SameBooksB, SameStepsA
<1>2. PA!TypeOK'
  BY <1>1, PA!NextType, LoopAssumptionsA
<1>3. PB!TypeOK'
  BY <1>1, <1>2 DEF PA!TypeOK, PB!TypeOK, PA!Unit, PB!Unit, PA!Reply, PB!Reply, PA!Stamp,
     PB!Stamp, PB!Event, PA!Event, loopB
<1> QED BY <1>2, <1>3, SameBooksA, SameBooksB

\* If it hands over no number of which the other still has something, both keep
\* their books, and it opens and closes connections of its own only.
LEMMA StepA ==
  ASSUME A!Bookkeeping, B!Bookkeeping, A!Next, UNCHANGED loopB
  PROVE  /\ ~HandsOver => A!Bookkeeping' /\ B!Bookkeeping'
         /\ \A f \in Fds : file'[f] # file[f] => file[f] \in OwnA \cup {None}
<1>1. PA!Bookkeeping /\ PB!Bookkeeping /\ PA!Next
  BY SameBooksA, SameBooksB, SameStepsA
<1>2. PA!Bookkeeping'
  BY <1>1, PA!NextInv, LoopAssumptionsA
<1>3. PA!OwnOnly
  BY <1>1, PA!TouchesOwnOnly, LoopAssumptionsA
<1>4. /\ \A f \in Fds : file'[f] # file[f] =>
           \/ file[f] = None /\ file'[f] \in OwnA
           \/ file[f] \in OwnA /\ file'[f] = None
      /\ \A c \in OwnB : watch'[c] = watch[c] /\ wire'[c] = wire[c]
  BY <1>3, PortsAssumption DEF PA!OwnOnly, Conns
<1>5. ASSUME ~HandsOver PROVE PB!Bookkeeping'
  <2>1. PB!TypeOK'
    <3>1. A!TypeOK /\ B!TypeOK
      BY <1>1, SameBooksA, SameBooksB DEF PA!Bookkeeping, PB!Bookkeeping
    <3> QED BY <3>1, TypeStepA, SameBooksB
  <2>2. PB!TableConsistent'
    BY <1>2 DEF PA!Bookkeeping, PA!TableConsistent, PB!TableConsistent
  <2>3. PB!Apart'
    <3>1. \A f \in Fds : file[f] = None /\ file'[f] \in OwnA =>
            connect_timesB[f] = None /\ \A e \in batchB : e.fd # f
      BY <1>5 DEF HandsOver, StillHasB
    <3>2. PB!Apart
      BY <1>1 DEF PB!Bookkeeping
    <3> QED BY <1>4, <3>1, <3>2 DEF PB!Apart, loopB
  <2>4. UNCHANGED <<pcB, batchB, PB!mapVars>>
    BY DEF loopB, PB!mapVars
  <2>5. \A f \in Fds : file'[f] # file[f] => file[f] \notin OwnB /\ file'[f] \notin OwnB
    BY <1>4, PortsAssumption, NoneIsNoConnection
  <2> QED BY <1>1, <1>4, <2>1, <2>2, <2>3, <2>4, <2>5, PB!ElsewhereInv, LoopAssumptionsB
<1> QED BY <1>2, <1>4, <1>5, SameBooksA, SameBooksB

\* A step of the second loop keeps the shape of what both threads hold.
LEMMA TypeStepB ==
  ASSUME A!TypeOK, B!TypeOK, B!Next, UNCHANGED loopA
  PROVE  A!TypeOK' /\ B!TypeOK'
<1>1. PA!TypeOK /\ PB!TypeOK /\ PB!Next
  BY SameBooksA, SameBooksB, SameStepsB
<1>2. PB!TypeOK'
  BY <1>1, PB!NextType, LoopAssumptionsB
<1>3. PA!TypeOK'
  BY <1>1, <1>2 DEF PA!TypeOK, PB!TypeOK, PA!Unit, PB!Unit, PA!Reply, PB!Reply, PA!Stamp,
     PB!Stamp, PB!Event, PA!Event, loopA
<1> QED BY <1>2, <1>3, SameBooksA, SameBooksB

\* If it hands over no number of which the other still has something, both keep
\* their books, and it opens and closes connections of its own only.
LEMMA StepB ==
  ASSUME A!Bookkeeping, B!Bookkeeping, B!Next, UNCHANGED loopA
  PROVE  /\ ~HandsOver => A!Bookkeeping' /\ B!Bookkeeping'
         /\ \A f \in Fds : file'[f] # file[f] => file[f] \in OwnB \cup {None}
<1>1. PA!Bookkeeping /\ PB!Bookkeeping /\ PB!Next
  BY SameBooksA, SameBooksB, SameStepsB
<1>2. PB!Bookkeeping'
  BY <1>1, PB!NextInv, LoopAssumptionsB
<1>3. PB!OwnOnly
  BY <1>1, PB!TouchesOwnOnly, LoopAssumptionsB
<1>4. /\ \A f \in Fds : file'[f] # file[f] =>
           \/ file[f] = None /\ file'[f] \in OwnB
           \/ file[f] \in OwnB /\ file'[f] = None
      /\ \A c \in OwnA : watch'[c] = watch[c] /\ wire'[c] = wire[c]
  BY <1>3, PortsAssumption DEF PB!OwnOnly, Conns
<1>5. ASSUME ~HandsOver PROVE PA!Bookkeeping'
  <2>1. PA!TypeOK'
    <3>1. A!TypeOK /\ B!TypeOK
      BY <1>1, SameBooksA, SameBooksB DEF PA!Bookkeeping, PB!Bookkeeping
    <3> QED BY <3>1, TypeStepB, SameBooksA
  <2>2. PA!TableConsistent'
    BY <1>2 DEF PB!Bookkeeping, PB!TableConsistent, PA!TableConsistent
  <2>3. PA!Apart'
    <3>1. \A f \in Fds : file[f] = None /\ file'[f] \in OwnB =>
            connect_timesA[f] = None /\ \A e \in batchA : e.fd # f
      BY <1>5 DEF HandsOver, StillHasA
    <3>2. PA!Apart
      BY <1>1 DEF PA!Bookkeeping
    <3> QED BY <1>4, <3>1, <3>2 DEF PA!Apart, loopA
  <2>4. UNCHANGED <<pcA, batchA, PA!mapVars>>
    BY DEF loopA, PA!mapVars
  <2>5. \A f \in Fds : file'[f] # file[f] => file[f] \notin OwnA /\ file'[f] \notin OwnA
    BY <1>4, PortsAssumption, NoneIsNoConnection
  <2> QED BY <1>1, <1>4, <2>1, <2>2, <2>3, <2>4, <2>5, PA!ElsewhereInv, LoopAssumptionsA
<1> QED BY <1>2, <1>4, <1>5, SameBooksA, SameBooksB

-----------------------------------------------------------------------------
(* Both of them.                                                            *)

\* main() starts both threads with empty maps.
LEMMA BothInit == Init => A!Bookkeeping /\ B!Bookkeeping
<1> SUFFICES ASSUME Init PROVE A!Bookkeeping /\ B!Bookkeeping
  OBVIOUS
<1>1. PA!Init /\ PB!Init
  BY SameInitA, SameInitB DEF Init
<1>2. PA!Bookkeeping
  BY <1>1, PA!InitInv, LoopAssumptionsA
<1>3. PB!Bookkeeping
  BY <1>1, PB!InitInv, LoopAssumptionsB
<1> QED BY <1>2, <1>3, SameBooksA, SameBooksB

\* A step of either thread, while nothing has been handed over.
LEMMA BothSteps ==
  ASSUME A!Bookkeeping, B!Bookkeeping, [Next]_vars
  PROVE  /\ remembered' \/ (A!Bookkeeping' /\ B!Bookkeeping')
         /\ ClosedByItsLoop \/ UNCHANGED vars
<1>1. CASE A!Next /\ UNCHANGED loopB /\ remembered' = (remembered \/ HandsOver)
  BY <1>1, StepA, NoneIsNoConnection DEF ClosedByItsLoop
<1>2. CASE B!Next /\ UNCHANGED loopA /\ remembered' = (remembered \/ HandsOver)
  BY <1>2, StepB, PortsAssumption, NoneIsNoConnection DEF ClosedByItsLoop
<1>3. CASE UNCHANGED vars
  <2>1. PA!Bookkeeping' /\ PB!Bookkeeping'
    <3>1. UNCHANGED PA!vars /\ UNCHANGED PB!vars
      BY <1>3 DEF vars, loopA, loopB, PA!vars, PB!vars, PA!kernelVars, PB!kernelVars,
         PA!mapVars, PB!mapVars
    <3>2. PA!Bookkeeping /\ PB!Bookkeeping
      BY SameBooksA, SameBooksB
    <3>3. PA!Bookkeeping'
      BY <3>1, <3>2, PA!NextInv, LoopAssumptionsA
    <3>4. PB!Bookkeeping'
      BY <3>1, <3>2, PB!NextInv, LoopAssumptionsB
    <3> QED BY <3>3, <3>4
  <2> QED BY <1>3, <2>1, SameBooksA, SameBooksB
<1> QED BY <1>1, <1>2, <1>3 DEF Next

\* A step of neither main() thread keeps the shape of what they hold.
LEMMA TypeStutter ==
  ASSUME A!TypeOK, B!TypeOK, UNCHANGED vars PROVE PA!TypeOK' /\ PB!TypeOK'
<1>1. UNCHANGED PA!vars /\ UNCHANGED PB!vars
  BY DEF vars, loopA, loopB, PA!vars, PB!vars, PA!kernelVars, PB!kernelVars,
     PA!mapVars, PB!mapVars
<1>2. PA!TypeOK /\ PB!TypeOK
  BY SameBooksA, SameBooksB
<1>3. PA!TypeOK'
  BY <1>1, <1>2, PA!NextType, LoopAssumptionsA
<1>4. PB!TypeOK'
  BY <1>1, <1>2, PB!NextType, LoopAssumptionsB
<1> QED BY <1>3, <1>4

-----------------------------------------------------------------------------
(* The theorems.                                                            *)

\* Whatever the threads have left of each other's numbers, what they hold keeps its
\* shape.
THEOREM PortsTypeCorrect == Spec => []TypeOK
<1>1. Init => TypeOK
  BY BothInit DEF Init, TypeOK, A!Bookkeeping, B!Bookkeeping
<1>2. TypeOK /\ [Next]_vars => TypeOK'
  <2> SUFFICES ASSUME TypeOK, [Next]_vars PROVE TypeOK'
    OBVIOUS
  <2> USE DEF TypeOK
  <2>1. remembered' \in BOOLEAN
    BY DEF Next, vars
  <2>2. CASE A!Next /\ UNCHANGED loopB
    BY <2>1, <2>2, TypeStepA
  <2>3. CASE B!Next /\ UNCHANGED loopA
    BY <2>1, <2>3, TypeStepB
  <2>4. CASE UNCHANGED vars
    <3>1. PA!TypeOK' /\ PB!TypeOK'
      BY <2>4, TypeStutter
    <3> QED BY <2>1, <3>1, SameBooksA, SameBooksB
  <2> QED BY <2>2, <2>3, <2>4 DEF Next
<1> QED BY <1>1, <1>2, PTL DEF Spec

\* Two loops that share the descriptor numbers of the process keep their maps and
\* epoll sets consistent, each as if it were alone, until a number changes loops
\* while the first still has a connect time or an event of it.
THEOREM PortsStayApart == Spec => []ApartUnlessRemembered
<1>1. Init => ApartUnlessRemembered
  BY BothInit DEF Init, ApartUnlessRemembered
<1>2. ApartUnlessRemembered /\ [Next]_vars => ApartUnlessRemembered'
  <2>1. remembered /\ [Next]_vars => remembered'
    BY DEF Next, vars
  <2> QED BY <2>1, BothSteps DEF ApartUnlessRemembered
<1> QED BY <1>1, <1>2, PTL DEF Spec

\* Until then, a connection is closed by the thread that accepted it.
THEOREM ClosedByTheOwner == Spec => ClosedByItsLoopUnlessRemembered
<1>1. ApartUnlessRemembered /\ [Next]_vars => [remembered \/ ClosedByItsLoop]_vars
  BY BothSteps DEF ApartUnlessRemembered
<1> QED BY <1>1, PortsStayApart, PTL DEF Spec, ClosedByItsLoopUnlessRemembered
=============================================================================
