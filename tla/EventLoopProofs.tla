--------------------------- MODULE EventLoopProofs ---------------------------
(* Proofs about EventLoop, for every value of its constants.                *)
EXTENDS EventLoop, SequenceTheorems, FunctionTheorems, FiniteSetTheorems, TLAPS

\* The loop's own connections are connections, and no free descriptor is one.
LEMMA OwnConns == Own \subseteq Conns /\ None \notin Own
  BY OwnAssumption, SentinelAssumption
USE OwnConns

-----------------------------------------------------------------------------
(* Sequences of units and of segments.                                      *)

\* Serialising a reply gives a sequence of units of that reply.
LEMMA SerializeType ==
  ASSUME NEW r \in Reply, NEW n \in 1..MaxReply
  PROVE  /\ serialize_response(r, n) \in Seq(Unit)
         /\ \A u \in Senders(serialize_response(r, n)) : u.reply = r
<1> DEFINE units == serialize_response(r, n)
<1>1. n \in Nat
  BY BoundsAssumption
<1>2. units \in [1..n -> Unit]
  BY BoundsAssumption DEF serialize_response, Unit
<1>3. units \in Seq(Unit)
  BY <1>1, <1>2, SeqDef
<1>4. \A u \in Senders(units) : u.reply = r
  BY DEF serialize_response, Senders
<1> QED BY <1>3, <1>4

\* Members of a concatenation and of a subsequence are members of the parts.
LEMMA SendersConcat ==
  ASSUME NEW S, NEW s \in Seq(S), NEW t \in Seq(S)
  PROVE  s \o t \in Seq(S) /\ Senders(s \o t) \subseteq Senders(s) \cup Senders(t)
  BY DEF Senders

\* What is left of a write buffer after data.drain(..n), and what stream.write took, are
\* units of that buffer.
LEMMA SendersSubSeq ==
  ASSUME NEW S, NEW s \in Seq(S), NEW m \in Nat, NEW n \in Nat, 1 <= m, n <= Len(s)
  PROVE  SubSeq(s, m, n) \in Seq(S) /\ Senders(SubSeq(s, m, n)) \subseteq Senders(s)
  BY DEF Senders

\* Draining the socket appends segments of the descriptor's file.
LEMMA DrainedType ==
  ASSUME NEW f \in Fds, file[f] \in Conns, inq[file[f]] \in Nat,
         read_buffers[f] \in Seq(Conns)
  PROVE  /\ Drained(f) \in Seq(Conns)
         /\ Senders(Drained(f)) \subseteq Senders(read_buffers[f]) \cup {file[f]}
<1> DEFINE c == file[f]
           more == [i \in 1..inq[c] |-> c]
<1>1. more \in Seq(Conns) /\ Senders(more) \subseteq {c}
  <2>1. more \in [1..inq[c] -> Conns]
    OBVIOUS
  <2>2. more \in Seq(Conns)
    BY <2>1, SeqDef
  <2> QED BY <2>2 DEF Senders
<1>2. Drained(f) = read_buffers[f] \o more
  BY DEF Drained
<1> HIDE DEF more
<1> QED BY <1>1, <1>2, SendersConcat

-----------------------------------------------------------------------------
(* The shape of the state, which every step keeps, alone in the process or  *)
(* not and whatever the books look like.                                    *)

\* close() leaves the kernel's tables well formed.
LEMMA CloseType ==
  ASSUME TypeOK, NEW S \in SUBSET Fds, Close(S)
  PROVE  /\ file' \in [Fds -> Conns \cup {None}]
         /\ stage' \in [Conns -> {"new", "queued", "open", "closed"}]
         /\ watch' \in [Conns -> {"none", "in", "out"}]
         /\ inq' \in [Conns -> Nat]
         /\ edge' \subseteq Conns \cup Listeners
  BY DEF TypeOK, Close

\* The buffers and connect times that are removed leave an absent key.
LEMMA RemoveType ==
  ASSUME TypeOK, NEW fd \in Fds
  PROVE  /\ [read_buffers EXCEPT ![fd] = None] \in [Fds -> Seq(Conns) \cup {None}]
         /\ [write_buffers EXCEPT ![fd] = None] \in [Fds -> Seq(Unit) \cup {None}]
         /\ [connect_times EXCEPT ![fd] = None] \in [Fds -> Stamp \cup {None}]
  BY DEF TypeOK

\* The steps of clients, of time, and of the loop where it touches no buffer.
LEMMA QuietType ==
  ASSUME TypeOK,
         \/ \E c \in Own : Client(c)
         \/ \E fd \in Fds : Expire(fd)
         \/ AcceptStops \/ \E e \in batch : StartAccept(e) \/ HandleReadNoBuffer(e)
         \/ UNCHANGED vars
  PROVE  TypeOK'
<1>1. ASSUME NEW c \in Own, Client(c) PROVE TypeOK'
  <2>1. ASSUME NEW r \in Requests, Connect(c, r) PROVE TypeOK'
    BY <2>1, SentinelAssumption DEF Connect, TypeOK, mapVars
  <2>2. CASE SendSegment(c)
    BY <2>2 DEF SendSegment, TypeOK, mapVars
  <2>3. CASE Receive(c)
    <3>1. outq' = [outq EXCEPT ![c] = 0] /\ 0 \in 0..SndBuf
      BY <2>3, BoundsAssumption DEF Receive
    <3>2. outq' \in [Conns -> 0..SndBuf]
      BY <3>1 DEF TypeOK
    <3> QED BY <2>3, <3>2 DEF Receive, TypeOK, mapVars
  <2>4. ASSUME NEW how \in {"fin", "reset"}, Hangup(c, how) PROVE TypeOK'
    BY <2>4 DEF Hangup, TypeOK, mapVars
  <2> QED BY <1>1, <2>1, <2>2, <2>3, <2>4 DEF Client
<1>2. ASSUME NEW fd \in Fds, Expire(fd) PROVE TypeOK'
  <2>1. connect_times[fd] \in Stamp
    BY <1>2 DEF TypeOK, Expire
  <2>2. [connect_times[fd] EXCEPT !.old = TRUE] \in Stamp
    BY <2>1 DEF Stamp
  <2>3. connect_times' = [connect_times EXCEPT ![fd] = [connect_times[fd] EXCEPT !.old = TRUE]]
    BY <1>2 DEF Expire
  <2> QED BY <1>2, <2>2, <2>3 DEF Expire, TypeOK, kernelVars
<1>3. CASE AcceptStops
  BY <1>3 DEF AcceptStops, TypeOK, kernelVars, mapVars
<1>4. ASSUME NEW e \in batch, StartAccept(e) PROVE TypeOK'
  BY <1>4 DEF StartAccept, Dispatch, TypeOK, kernelVars, mapVars
<1>5. ASSUME NEW e \in batch, HandleReadNoBuffer(e) PROVE TypeOK'
  BY <1>5 DEF HandleReadNoBuffer, ReadEvent, Dispatch, TypeOK, mapVars
<1>6. CASE UNCHANGED vars
  BY <1>6 DEF TypeOK, vars, kernelVars, mapVars
<1> QED BY <1>1, <1>2, <1>3, <1>4, <1>5, <1>6

\* The end of the thread leaves empty maps.
LEMMA DieType == ASSUME TypeOK, NEW S \in SUBSET Fds, Die(S) PROVE TypeOK'
<1>1. edge' \subseteq Conns \cup Listeners /\ batch' \subseteq Event
  BY DEF TypeOK, Die
<1>2. /\ read_buffers' \in [Fds -> Seq(Conns) \cup {None}]
      /\ write_buffers' \in [Fds -> Seq(Unit) \cup {None}]
      /\ connect_times' \in [Fds -> Stamp \cup {None}]
  BY DEF Die
<1>3. /\ file' \in [Fds -> Conns \cup {None}]
      /\ stage' \in [Conns -> {"new", "queued", "open", "closed"}]
      /\ watch' \in [Conns -> {"none", "in", "out"}]
  BY DEF TypeOK, Die
<1> QED BY <1>1, <1>2, <1>3 DEF TypeOK, Die

\* Epoll::wait raises events for descriptors and for the listener.
LEMMA EpollWaitType == ASSUME TypeOK, EpollWait PROVE TypeOK'
<1> DEFINE ready == {f \in Fds : file[f] \in Own \cap edge /\ Ready(file[f])}
                    \cup {l \in {Listener} : l \in edge /\ Queued # {}}
           File(f) == IF f = Listener THEN Listener ELSE file[f]
           Ev(f) == [fd |-> f, who |-> File(f),
                     out |-> f # Listener /\ watch[File(f)] = "out"]
<1>1. PICK B \in SUBSET ready :
        /\ batch' = {Ev(f) : f \in B}
        /\ edge' = (edge \ (Own \cup {Listener})) \cup {File(f) : f \in ready \ B}
  BY DEF EpollWait
<1>2. \A f \in ready : File(f) \in Conns \cup {Listener} /\ f \in Fds \cup {Listener}
  BY DEF TypeOK
<1>3. \A f \in ready : Ev(f) \in Event
  BY <1>2 DEF Event
<1>4. batch' \subseteq Event
  BY <1>1, <1>3
<1>5. edge' \subseteq Conns \cup Listeners
  BY <1>1, <1>2, SentinelAssumption DEF TypeOK
<1> QED BY <1>4, <1>5 DEF EpollWait, TypeOK, mapVars

\* The sweep removes and closes.
LEMMA SweepType == ASSUME TypeOK, Sweep PROVE TypeOK'
<1>1. timed_out \in SUBSET Fds /\ Close(timed_out)
  BY DEF timed_out, Sweep
<1>2. /\ read_buffers' \in [Fds -> Seq(Conns) \cup {None}]
      /\ write_buffers' \in [Fds -> Seq(Unit) \cup {None}]
      /\ connect_times' \in [Fds -> Stamp \cup {None}]
  BY DEF Sweep, TypeOK
<1> QED BY <1>1, <1>2, CloseType DEF Sweep, TypeOK

\* An accept stores an empty buffer and a connect time.
LEMMA AcceptOneType ==
  ASSUME TypeOK, NEW c \in Own, NEW fd \in Fds, AcceptOne(c, fd)
  PROVE  TypeOK'
<1>1. << >> \in Seq(Conns) /\ [conn |-> c, old |-> FALSE] \in Stamp
  BY DEF Stamp
<1> QED BY <1>1 DEF AcceptOne, NewBuffer, NewStamp, TypeOK

\* handle_read drops its buffers, or stores a reply.
LEMMA ReadType == ASSUME TypeOK, NEW e \in batch, HandleRead(e) PROVE TypeOK'
<1>1. CASE HandleReadError(e)
  <2>1. e.fd \in Fds /\ {e.fd} \in SUBSET Fds /\ Close({e.fd}) /\ batch' \subseteq batch
    BY <1>1 DEF HandleReadError, ReadEvent, Dispatch
  <2>2. /\ read_buffers' \in [Fds -> Seq(Conns) \cup {None}]
        /\ write_buffers' \in [Fds -> Seq(Unit) \cup {None}]
    BY <1>1, <2>1, RemoveType DEF HandleReadError
  <2> QED BY <1>1, <2>1, <2>2, CloseType DEF HandleReadError, TypeOK
<1>2. CASE HandleReadEof(e)
  <2>1. e.fd \in Fds /\ batch' \subseteq batch
    BY <1>2 DEF HandleReadEof, ReadEvent, Dispatch
  <2>2. /\ read_buffers' \in [Fds -> Seq(Conns) \cup {None}]
        /\ write_buffers' \in [Fds -> Seq(Unit) \cup {None}]
    BY <1>2, <2>1, RemoveType DEF HandleReadEof
  <2> QED BY <1>2, <2>1, <2>2 DEF HandleReadEof, EpollDel, TypeOK
<1>3. CASE HandleReadReply(e)
  <2> DEFINE c == file[e.fd]  data == Drained(e.fd)
  <2>1. e.fd \in Fds /\ batch' \subseteq batch /\ c # None /\ read_buffers[e.fd] # None
    BY <1>3 DEF HandleReadReply, ReadEvent, Dispatch
  <2>2. c \in Conns /\ inq[c] \in Nat /\ read_buffers[e.fd] \in Seq(Conns)
    BY <2>1 DEF TypeOK
  <2>3. data \in Seq(Conns)
    BY <2>1, <2>2, DrainedType
  <2>4. PICK kind \in {"too_large", "handled", "bad_request"}, n \in 1..MaxReply,
             kept \in {data, None} :
          LET reply == [kind |-> kind, from |-> Senders(data), segs |-> Len(data)] IN
          /\ write_buffers' = [write_buffers EXCEPT ![e.fd] = serialize_response(reply, n)]
          /\ read_buffers' = [read_buffers EXCEPT ![e.fd] = kept]
    BY <1>3 DEF HandleReadReply
  <2> DEFINE reply == [kind |-> kind, from |-> Senders(data), segs |-> Len(data)]
             units == serialize_response(reply, n)
  <2>5. reply \in Reply
    BY <2>3 DEF Reply, Senders
  <2>6. units \in Seq(Unit)
    BY <2>5, SerializeType
  <2>7. kept \in Seq(Conns) \cup {None}
    BY <2>3
  <2>8. write_buffers' = [write_buffers EXCEPT ![e.fd] = units]
    BY <2>4
  <2>9. read_buffers' = [read_buffers EXCEPT ![e.fd] = kept]
    BY <2>4
  <2> HIDE DEF data, units, reply
  <2>10. /\ read_buffers' \in [Fds -> Seq(Conns) \cup {None}]
         /\ write_buffers' \in [Fds -> Seq(Unit) \cup {None}]
    BY <2>6, <2>7, <2>8, <2>9 DEF TypeOK
  <2>11. /\ inq' = [inq EXCEPT ![c] = 0] /\ EpollMod(c)
         /\ UNCHANGED <<file, stage, peer, req, sent, outq, wire, pc, connect_times>>
    BY <1>3 DEF HandleReadReply
  <2> QED BY <2>1, <2>2, <2>10, <2>11 DEF EpollMod, TypeOK
<1>4. CASE HandleReadNoBuffer(e)
  BY <1>4, QuietType
<1>5. CASE HandleReadPanic(e)
  <2>1. {e.fd} \in SUBSET Fds /\ Die({e.fd})
    BY <1>5 DEF HandleReadPanic
  <2> QED BY <2>1, DieType
<1> QED BY <1>1, <1>2, <1>3, <1>4, <1>5 DEF HandleRead

\* handle_write moves units from its buffer to the connection, as far as they fit.
LEMMA WriteType == ASSUME TypeOK, NEW e \in batch, HandleWrite(e) PROVE TypeOK'
<1>0. /\ e.fd \in Fds /\ {e.fd} \in SUBSET Fds /\ batch' \subseteq batch
      /\ connect_times' \in [Fds -> Stamp \cup {None}]
  <2>1. WriteEvent(e)
    BY DEF HandleWrite, HandleWriteError, HandleWriteNothing, HandleWriteBlocks,
           HandleWriteCompletes
  <2>2. e.fd \in Fds /\ batch' \subseteq batch
    BY <2>1 DEF WriteEvent, Dispatch
  <2> QED BY <2>1, <2>2, RemoveType DEF WriteEvent
<1> DEFINE c == file[e.fd]  data == write_buffers[e.fd]  room == SndBuf - outq[c]
<1>1. CASE HandleWriteError(e)
  <2>1. write_buffers' \in [Fds -> Seq(Unit) \cup {None}] /\ Close({e.fd})
    BY <1>0, <1>1, RemoveType DEF HandleWriteError
  <2> QED BY <1>0, <1>1, <2>1, CloseType DEF HandleWriteError, TypeOK
<1>2. CASE HandleWriteNothing(e)
  <2>1. Close({e.fd})
    BY <1>2 DEF HandleWriteNothing
  <2> QED BY <1>0, <1>2, <2>1, CloseType DEF HandleWriteNothing, TypeOK
<1>3. CASE HandleWriteBlocks(e)
  <2>1. c \in Conns /\ data \in Seq(Unit) /\ wire[c] \in Seq(Unit) /\ outq[c] \in 0..SndBuf
    BY <1>0, <1>3 DEF HandleWriteBlocks, TypeOK
  <2>2. room \in Nat /\ room < Len(data) /\ SndBuf \in Nat /\ Len(data) \in Nat
    BY <1>3, <2>1, BoundsAssumption DEF HandleWriteBlocks
  <2>3. /\ wire' = [wire EXCEPT ![c] = wire[c] \o SubSeq(data, 1, room)]
        /\ outq' = [outq EXCEPT ![c] = SndBuf]
        /\ write_buffers' = [write_buffers EXCEPT ![e.fd] = SubSeq(data, room + 1, Len(data))]
    BY <1>3 DEF HandleWriteBlocks, drain
  <2> HIDE DEF c, data, room
  <2>4. SubSeq(data, 1, room) \in Seq(Unit)
    BY <2>1, <2>2, SendersSubSeq
  <2>5. SubSeq(data, room + 1, Len(data)) \in Seq(Unit)
    <3>1. 1 <= room + 1 /\ room + 1 \in Nat
      BY <2>2
    <3> QED BY <2>1, <2>2, <3>1, SendersSubSeq
  <2>6. wire[c] \o SubSeq(data, 1, room) \in Seq(Unit)
    BY <2>1, <2>4, SendersConcat
  <2>7. wire' \in [Conns -> Seq(Unit)] /\ write_buffers' \in [Fds -> Seq(Unit) \cup {None}]
    BY <2>3, <2>5, <2>6 DEF TypeOK
  <2>8. outq' \in [Conns -> 0..SndBuf]
    <3>1. SndBuf \in 0..SndBuf
      BY <2>2
    <3> QED BY <2>3, <3>1 DEF TypeOK
  <2> QED BY <1>0, <1>3, <2>7, <2>8 DEF HandleWriteBlocks, TypeOK
<1>4. CASE HandleWriteCompletes(e)
  <2>1. c \in Conns /\ data \in Seq(Unit) /\ wire[c] \in Seq(Unit) /\ outq[c] \in 0..SndBuf
    BY <1>0, <1>4 DEF HandleWriteCompletes, TypeOK
  <2>2. /\ Len(data) <= SndBuf - outq[c] /\ wire' = [wire EXCEPT ![c] = wire[c] \o data]
        /\ outq' = [outq EXCEPT ![c] = outq[c] + Len(data)]
        /\ write_buffers' = [write_buffers EXCEPT ![e.fd] = None] /\ Close({e.fd})
    BY <1>4 DEF HandleWriteCompletes
  <2> HIDE DEF c, data
  <2>3. outq[c] + Len(data) \in 0..SndBuf
    BY <2>1, <2>2, BoundsAssumption
  <2>4. outq' \in [Conns -> 0..SndBuf]
    BY <2>2, <2>3 DEF TypeOK
  <2>5. wire' \in [Conns -> Seq(Unit)] /\ write_buffers' \in [Fds -> Seq(Unit) \cup {None}]
    <3>1. wire[c] \o data \in Seq(Unit)
      BY <2>1, SendersConcat
    <3> QED BY <1>0, <2>2, <3>1, RemoveType DEF TypeOK
  <2> QED BY <1>0, <1>4, <2>2, <2>4, <2>5, CloseType DEF HandleWriteCompletes, TypeOK
<1> QED BY <1>1, <1>2, <1>3, <1>4 DEF HandleWrite

\* Every step keeps the shape of the state.
LEMMA NextType == ASSUME TypeOK, [Next]_vars PROVE TypeOK'
<1>1. CASE Fault
  <2>1. {} \in SUBSET Fds /\ Die({})
    BY <1>1 DEF Fault, EpollWaitFails, AcceptFails
  <2> QED BY <2>1, DieType
<1>2. CASE Accept
  BY <1>2, QuietType, AcceptOneType DEF Accept
<1> QED BY <1>1, <1>2, QuietType, EpollWaitType, SweepType, ReadType, WriteType DEF Next, Loop

-----------------------------------------------------------------------------
(* The inductive invariant holds initially, and one lemma per action.       *)

\* Server::run enters its loop with empty maps and an empty epoll set but the listener.
LEMMA InitInv == Init => Bookkeeping
<1> SUFFICES ASSUME Init PROVE Bookkeeping
  OBVIOUS
<1> USE DEF Init
<1>1. TypeOK
  BY BoundsAssumption DEF TypeOK, Unit, Event
<1>2. TableConsistent /\ Apart /\ BatchConsistent
  BY DEF TableConsistent, Apart, BatchConsistent
<1>3. BuffersFollowWatch /\ OwnBytesOnly
  BY DEF BuffersFollowWatch, OwnBytesOnly
<1>4. NoCrossTalk
  BY DEF NoCrossTalk, Senders
<1>5. TimerUntilReply /\ FreshTimer /\ NoOrphanDescriptor
  BY DEF TimerUntilReply, FreshTimer, NoOrphanDescriptor
<1> QED BY <1>1, <1>2, <1>3, <1>4, <1>5 DEF Bookkeeping

\* A client that joins the backlog touches nothing of the loop's bookkeeping.
LEMMA ConnectInv ==
  ASSUME Bookkeeping, TypeOK', NEW c \in Conns, NEW r \in Requests, Connect(c, r)
  PROVE  Bookkeeping'
<1> USE DEF Bookkeeping, Connect, kernelVars, mapVars
<1>1. TableConsistent' /\ Apart'
  BY DEF TypeOK, TableConsistent, Apart
<1>2. BatchConsistent' /\ BuffersFollowWatch' /\ OwnBytesOnly' /\ NoCrossTalk'
  BY DEF BatchConsistent, BuffersFollowWatch, OwnBytesOnly, NoCrossTalk
<1>3. TimerUntilReply' /\ FreshTimer' /\ NoOrphanDescriptor'
  BY DEF TimerUntilReply, FreshTimer, NoOrphanDescriptor
<1> QED BY <1>1, <1>2, <1>3

\* SendSegment, Hangup and Receive move bytes and readiness only.
LEMMA TrafficInv ==
  ASSUME Bookkeeping, TypeOK', NEW c \in Conns,
         \/ SendSegment(c)
         \/ Receive(c)
         \/ \E how \in {"fin", "reset"} : Hangup(c, how)
  PROVE  Bookkeeping'
<1> USE DEF Bookkeeping, SendSegment, Receive, Hangup, mapVars
<1>1. /\ TableConsistent' /\ Apart' /\ BatchConsistent'
      /\ BuffersFollowWatch' /\ OwnBytesOnly'
  BY DEF TableConsistent, Apart, BatchConsistent, BuffersFollowWatch, OwnBytesOnly
<1>2. NoCrossTalk'
  BY DEF NoCrossTalk
<1>3. TimerUntilReply' /\ FreshTimer' /\ NoOrphanDescriptor'
  BY DEF TimerUntilReply, FreshTimer, NoOrphanDescriptor
<1> QED BY <1>1, <1>2, <1>3

\* A connect time that grows old stays where it is, and stays its connection's.
LEMMA ExpireInv ==
  ASSUME Bookkeeping, TypeOK', NEW fd \in Fds, Expire(fd)
  PROVE  Bookkeeping'
<1> USE DEF Bookkeeping, Expire, kernelVars
<1>1. /\ connect_times[fd] \in Stamp /\ connect_times'[fd] # None
      /\ connect_times'[fd].conn = connect_times[fd].conn
      /\ \A f \in Fds \ {fd} : connect_times'[f] = connect_times[f]
  <2>1. connect_times[fd] \in Stamp
    BY DEF TypeOK
  <2>2. [connect_times[fd] EXCEPT !.old = TRUE] \in Stamp
    BY <2>1 DEF Stamp
  <2>3. [connect_times[fd] EXCEPT !.old = TRUE].conn = connect_times[fd].conn
    BY <2>1 DEF Stamp
  <2>4. connect_times' = [connect_times EXCEPT ![fd] = [connect_times[fd] EXCEPT !.old = TRUE]]
    OBVIOUS
  <2>5. connect_times'[fd] = [connect_times[fd] EXCEPT !.old = TRUE]
    BY <2>4 DEF TypeOK
  <2>6. \A f \in Fds \ {fd} : connect_times'[f] = connect_times[f]
    BY <2>4 DEF TypeOK
  <2> QED BY <2>1, <2>2, <2>3, <2>5, <2>6, SentinelAssumption
<1>2. file[fd] \in Own \cup {None}
  BY DEF Apart
<1>3. /\ TableConsistent' /\ BatchConsistent' /\ BuffersFollowWatch' /\ OwnBytesOnly'
      /\ NoCrossTalk'
  BY DEF TableConsistent, BatchConsistent, BuffersFollowWatch, OwnBytesOnly, NoCrossTalk
<1>4. Apart' /\ TimerUntilReply' /\ FreshTimer' /\ NoOrphanDescriptor'
  BY <1>1, <1>2 DEF Apart, TimerUntilReply, FreshTimer, NoOrphanDescriptor
<1> QED BY <1>3, <1>4

\* The end of the thread, by whichever path: nothing is watched and no map is left.
LEMMA DieInv ==
  ASSUME Bookkeeping, TypeOK', NEW S \in SUBSET Fds, Die(S), \A f \in S : file[f] # None
  PROVE  Bookkeeping'
<1> USE DEF Bookkeeping, Die
<1>1. TableConsistent'
  BY DEF TypeOK, TableConsistent, Queued
<1>2. Apart' /\ BatchConsistent'
  BY DEF Apart, BatchConsistent
<1>3. BuffersFollowWatch' /\ OwnBytesOnly'
  BY DEF TypeOK, BuffersFollowWatch, OwnBytesOnly
<1>4. NoCrossTalk'
  BY DEF NoCrossTalk
<1>5. TimerUntilReply' /\ FreshTimer' /\ NoOrphanDescriptor'
  BY DEF TypeOK, TimerUntilReply, FreshTimer, NoOrphanDescriptor
<1> QED BY <1>1, <1>2, <1>3, <1>4, <1>5

\* Epoll::wait raises one event per descriptor, each for a file that is watched.
LEMMA EpollWaitInv ==
  ASSUME Bookkeeping, TypeOK', EpollWait
  PROVE  Bookkeeping'
<1> DEFINE ready == {f \in Fds : file[f] \in Own \cap edge /\ Ready(file[f])}
                    \cup {l \in {Listener} : l \in edge /\ Queued # {}}
           File(f) == IF f = Listener THEN Listener ELSE file[f]
           Ev(f) == [fd |-> f, who |-> File(f),
                     out |-> f # Listener /\ watch[File(f)] = "out"]
<1>1. PICK B \in SUBSET ready : batch' = {Ev(f) : f \in B}
  BY DEF EpollWait
<1>2. \A f \in ready : f = Listener \/ (f \in Fds /\ f # Listener /\ file[f] \in Own
                                        /\ watch[file[f]] \in {"in", "out"})
  BY SentinelAssumption DEF Bookkeeping, TypeOK, Ready
<1> USE DEF Bookkeeping, EpollWait, mapVars
<1>3. BatchConsistent'
  <2>1. \A d, e \in batch' : d.fd = e.fd => d = e
    BY <1>1
  <2>2. \A e \in batch' : e.fd \in Fds /\ ~e.out => watch[file[e.fd]] = "in"
    <3> SUFFICES ASSUME NEW f \in B, f \in Fds, ~Ev(f).out
                 PROVE  watch[file[f]] = "in"
      BY <1>1
    <3>1. f # Listener /\ f \in ready
      BY SentinelAssumption
    <3> QED BY <1>2, <3>1
  <2> QED BY <2>1, <2>2 DEF BatchConsistent
<1>4. Apart'
  <2>1. \A e \in batch' : e.fd \in Fds => file[e.fd] \in Own
    BY <1>1, <1>2, SentinelAssumption
  <2> QED BY <2>1 DEF Apart
<1>5. TableConsistent' /\ BuffersFollowWatch' /\ OwnBytesOnly' /\ NoCrossTalk'
  BY DEF TableConsistent, BuffersFollowWatch, OwnBytesOnly, NoCrossTalk
<1>6. TimerUntilReply' /\ FreshTimer' /\ NoOrphanDescriptor'
  BY DEF TimerUntilReply, FreshTimer, NoOrphanDescriptor
<1> QED BY <1>3, <1>4, <1>5, <1>6

\* close(): the other descriptors keep their files, and those their watches.
LEMMA CloseEffect ==
  ASSUME TypeOK, TableConsistent, NEW S \in SUBSET Fds, Close(S)
  PROVE  /\ \A f \in S : file'[f] = None
         /\ \A f \in Fds \ S : file'[f] = file[f]
         /\ \A f \in Fds \ S : file[f] # None => watch'[file[f]] = watch[file[f]]
         /\ TableConsistent'
<1> DEFINE gone == {file[f] : f \in S}
<1>1. \A f \in Fds : file'[f] = IF f \in S THEN None ELSE file[f]
  BY DEF Close
<1>2. \A f \in Fds \ S : file[f] # None => file[f] \in Conns \ gone
  BY DEF TypeOK, TableConsistent
<1>3. \A c \in Conns \ gone : stage'[c] = stage[c] /\ watch'[c] = watch[c]
  BY DEF Close
<1>4. \A f \in Fds \ S : file[f] # None =>
        stage'[file[f]] = stage[file[f]] /\ watch'[file[f]] = watch[file[f]]
  BY <1>2, <1>3
<1>5. TableConsistent'
  BY <1>1, <1>4 DEF TableConsistent
<1> QED BY <1>1, <1>4, <1>5

\* When descriptors are closed, what the maps of run() say of the others stays true.
LEMMA OthersKept ==
  ASSUME NEW S \in SUBSET Fds,
         BuffersFollowWatch, OwnBytesOnly, TimerUntilReply, FreshTimer,
         NoOrphanDescriptor, pc = "dead" => pc' = "dead",
         \A f \in S : file'[f] = None /\ write_buffers'[f] = None,
         \A f \in Fds \ S :
           /\ file'[f] = file[f] /\ (file[f] # None => watch'[file[f]] = watch[file[f]])
           /\ read_buffers'[f] = read_buffers[f] /\ write_buffers'[f] = write_buffers[f]
           /\ connect_times'[f] = connect_times[f]
  PROVE  /\ BuffersFollowWatch' /\ OwnBytesOnly' /\ TimerUntilReply' /\ FreshTimer'
         /\ NoOrphanDescriptor'
<1>1. BuffersFollowWatch'
  BY DEF BuffersFollowWatch
<1>2. OwnBytesOnly'
  BY DEF OwnBytesOnly
<1>3. TimerUntilReply' /\ FreshTimer'
  BY DEF TimerUntilReply, FreshTimer
<1>4. NoOrphanDescriptor'
  BY DEF NoOrphanDescriptor
<1> QED BY <1>1, <1>2, <1>3, <1>4

\* The timeout check of run() removes a descriptor from all three maps and closes it.
LEMMA SweepInv ==
  ASSUME Bookkeeping, TypeOK', Sweep
  PROVE  Bookkeeping'
<1> DEFINE Swept(map) == [f \in Fds |-> IF f \in timed_out THEN None ELSE map[f]]
<1> TypeOK /\ TableConsistent
  BY DEF Bookkeeping
<1>1. timed_out \in SUBSET Fds /\ Close(timed_out)
  BY DEF timed_out, Sweep
<1>2. /\ read_buffers' = Swept(read_buffers) /\ write_buffers' = Swept(write_buffers)
      /\ connect_times' = Swept(connect_times) /\ pc' = "events"
      /\ UNCHANGED <<peer, req, sent, outq, wire, batch>>
  BY DEF Sweep
<1>3. \A f \in Fds : file'[f] # None =>
        /\ f \notin timed_out /\ file'[f] = file[f]
        /\ watch'[file'[f]] = watch[file[f]]
        /\ read_buffers'[f] = read_buffers[f] /\ write_buffers'[f] = write_buffers[f]
        /\ connect_times'[f] = connect_times[f]
  BY <1>1, <1>2, CloseEffect
<1>4. \A f \in Fds : file'[f] = None =>
        write_buffers'[f] = None \/ (file[f] = None /\ write_buffers'[f] = write_buffers[f])
  BY <1>1, <1>2, CloseEffect
<1>5. TableConsistent'
  BY <1>1, CloseEffect
<1>inv. /\ Apart /\ BatchConsistent /\ BuffersFollowWatch /\ OwnBytesOnly
        /\ NoCrossTalk /\ TimerUntilReply /\ FreshTimer /\ NoOrphanDescriptor
  BY DEF Bookkeeping
<1>6. Apart'
  BY <1>2, <1>3, <1>inv DEF Apart
<1>7. BatchConsistent'
  <2>1. \A e \in batch' : e.fd \in Fds /\ ~e.out =>
          file'[e.fd] = None \/ watch'[file'[e.fd]] = "in"
    BY <1>2, <1>3, <1>inv DEF BatchConsistent
  <2> QED BY <1>2, <2>1, <1>inv DEF BatchConsistent
<1>8. BuffersFollowWatch' /\ OwnBytesOnly'
  BY <1>3, <1>4, <1>inv DEF BuffersFollowWatch, OwnBytesOnly
<1>9. NoCrossTalk'
  BY <1>2, <1>3, <1>inv DEF NoCrossTalk
<1>10. TimerUntilReply' /\ FreshTimer'
  BY <1>3, <1>inv DEF TimerUntilReply, FreshTimer
<1>11. NoOrphanDescriptor'
  <2>1. pc # "dead"
    BY DEF Sweep
  <2> QED BY <2>1, <1>2, <1>3, <1>inv DEF NoOrphanDescriptor
<1> QED BY <1>5, <1>6, <1>7, <1>8, <1>9, <1>10, <1>11 DEF Bookkeeping

\* Entering and leaving accept_connections.
LEMMA AcceptBordersInv ==
  ASSUME Bookkeeping, TypeOK', AcceptStops \/ \E e \in batch : StartAccept(e)
  PROVE  Bookkeeping'
<1> USE DEF Bookkeeping, AcceptStops, StartAccept, Dispatch, kernelVars, mapVars
<1>1. BatchConsistent' /\ Apart'
  BY DEF BatchConsistent, Apart
<1>2. TableConsistent' /\ BuffersFollowWatch' /\ OwnBytesOnly' /\ NoCrossTalk'
  BY DEF TableConsistent, BuffersFollowWatch, OwnBytesOnly, NoCrossTalk
<1>3. TimerUntilReply' /\ FreshTimer' /\ NoOrphanDescriptor'
  BY DEF TimerUntilReply, FreshTimer, NoOrphanDescriptor
<1> QED BY <1>1, <1>2, <1>3

\* accept_connections overwrites what a former owner of the descriptor number left in
\* read_buffers and connect_times.
LEMMA AcceptOneInv ==
  ASSUME Bookkeeping, TypeOK', NEW c \in Own, NEW fd \in Fds, AcceptOne(c, fd)
  PROVE  Bookkeeping'
<1> USE DEF Bookkeeping, AcceptOne, NewBuffer, NewStamp
<1>1. c # None /\ << >> # None /\ [conn |-> c, old |-> FALSE] # None
  <2>1. << >> \in Seq(Conns)
    OBVIOUS
  <2>2. [conn |-> c, old |-> FALSE] \in Stamp
    BY DEF Stamp
  <2> QED BY <2>1, <2>2, SentinelAssumption
<1>3. \A f \in Fds \ {fd} : file'[f] = file[f] /\ file[f] # c
  BY <1>1 DEF TypeOK, TableConsistent
<1>4. file'[fd] = c /\ watch'[c] = "in" /\ file[fd] = None
  BY DEF TypeOK
<1>5. \A f \in Fds \ {fd} : file[f] # None => watch'[file[f]] = watch[file[f]]
  BY <1>3 DEF TypeOK
<1>6. TableConsistent' /\ Apart'
  BY <1>3, <1>4 DEF TypeOK, TableConsistent, Apart
<1>7. BatchConsistent'
  BY <1>3, <1>4, <1>5 DEF TypeOK, BatchConsistent
<1>8. BuffersFollowWatch'
  BY <1>1, <1>3, <1>4, <1>5 DEF TypeOK, BuffersFollowWatch
<1>9. OwnBytesOnly'
  <2>1. read_buffers'[fd] = << >> /\ Senders(<< >>) = {}
    BY DEF TypeOK, Senders
  <2>2. \A f \in Fds \ {fd} : read_buffers'[f] = read_buffers[f]
    BY DEF TypeOK
  <2> QED BY <2>1, <2>2, <1>3 DEF OwnBytesOnly
<1>10. NoCrossTalk'
  <2>1. write_buffers[fd] = None
    BY <1>4 DEF BuffersFollowWatch
  <2>2. wire' = wire /\ write_buffers' = write_buffers
    OBVIOUS
  <2> QED BY <2>1, <2>2, <1>3 DEF NoCrossTalk
<1>11. TimerUntilReply' /\ FreshTimer' /\ NoOrphanDescriptor'
  BY <1>1, <1>3, <1>4, <1>5 DEF TypeOK, TimerUntilReply, FreshTimer, NoOrphanDescriptor
<1> QED BY <1>6, <1>7, <1>8, <1>9, <1>10, <1>11

\* What handle_read and handle_write share when they close: the other descriptors
\* keep their state, and what went out was the owner's.
LEMMA CloseOneInv ==
  ASSUME Bookkeeping, TypeOK', NEW e \in batch, e.fd \in Fds, Dispatch(e),
         Close({e.fd}), pc' = pc,
         \A c \in Own : \A u \in Senders(wire'[c]) : u.reply.from \subseteq {c},
         \/ read_buffers' = read_buffers
         \/ read_buffers' = [read_buffers EXCEPT ![e.fd] = None],
         write_buffers' = [write_buffers EXCEPT ![e.fd] = None],
         \/ connect_times' = connect_times
         \/ connect_times' = [connect_times EXCEPT ![e.fd] = None]
  PROVE  Bookkeeping'
<1> TypeOK /\ TableConsistent
  BY DEF Bookkeeping
<1>1. {e.fd} \in SUBSET Fds /\ batch' = batch \ {e}
  BY DEF Dispatch
<1>3. file'[e.fd] = None /\ write_buffers'[e.fd] = None
  <2>1. file'[e.fd] = None
    BY <1>1, CloseEffect
  <2>2. write_buffers'[e.fd] = None
    BY DEF TypeOK
  <2> QED BY <2>1, <2>2
<1>4. \A f \in Fds \ {e.fd} :
        /\ file'[f] = file[f] /\ (file[f] # None => watch'[file[f]] = watch[file[f]])
        /\ read_buffers'[f] = read_buffers[f] /\ write_buffers'[f] = write_buffers[f]
        /\ connect_times'[f] = connect_times[f]
  <2>1. \A f \in Fds \ {e.fd} :
          /\ file'[f] = file[f] /\ (file[f] # None => watch'[file[f]] = watch[file[f]])
    BY <1>1, CloseEffect
  <2>2. \A f \in Fds \ {e.fd} : /\ read_buffers'[f] = read_buffers[f]
                                /\ write_buffers'[f] = write_buffers[f]
                                /\ connect_times'[f] = connect_times[f]
    BY DEF TypeOK
  <2> QED BY <2>1, <2>2
<1>5. TableConsistent' /\ Apart'
  <2>1. Apart
    BY DEF Bookkeeping
  <2>2. \A f \in Fds : file'[f] # None =>
          file'[f] = file[f] /\ connect_times'[f] = connect_times[f]
    BY <1>3, <1>4
  <2> QED BY <1>1, <2>1, <2>2, CloseEffect DEF Apart
<1>inv. /\ BatchConsistent /\ BuffersFollowWatch /\ OwnBytesOnly
        /\ NoCrossTalk /\ TimerUntilReply /\ FreshTimer /\ NoOrphanDescriptor
  BY DEF Bookkeeping
<1>6. BatchConsistent'
  <2>1. \A d \in batch' : d.fd \in Fds /\ ~d.out =>
          file'[d.fd] = None \/ watch'[file'[d.fd]] = "in"
    BY <1>1, <1>3, <1>4, <1>inv DEF BatchConsistent
  <2> QED BY <1>1, <2>1, <1>inv DEF BatchConsistent
<1>7. /\ BuffersFollowWatch' /\ OwnBytesOnly' /\ TimerUntilReply' /\ FreshTimer'
      /\ NoOrphanDescriptor'
  <2> DEFINE S == {e.fd}
  <2>1. S \in SUBSET Fds /\ pc' = pc
    BY <1>1
  <2>2. \A f \in S : file'[f] = None /\ write_buffers'[f] = None
    BY <1>3
  <2>3. \A f \in Fds \ S :
          /\ file'[f] = file[f] /\ (file[f] # None => watch'[file[f]] = watch[file[f]])
          /\ read_buffers'[f] = read_buffers[f] /\ write_buffers'[f] = write_buffers[f]
          /\ connect_times'[f] = connect_times[f]
    BY <1>4
  <2> HIDE DEF S
  <2> QED BY <2>1, <2>2, <2>3, <1>inv, OthersKept
<1>8. NoCrossTalk'
  BY <1>3, <1>4, <1>inv DEF NoCrossTalk
<1> QED BY <1>5, <1>6, <1>7, <1>8 DEF Bookkeeping

\* The read error path of handle_read closes, and clears both buffers.
LEMMA ReadErrorInv ==
  ASSUME Bookkeeping, TypeOK', NEW e \in batch, HandleReadError(e)
  PROVE  Bookkeeping'
<1>1. \A c \in Own : \A u \in Senders(wire'[c]) : u.reply.from \subseteq {c}
  BY DEF Bookkeeping, NoCrossTalk, HandleReadError
<1> QED BY <1>1, CloseOneInv DEF HandleReadError, ReadEvent

\* The write error path of handle_write closes, and clears the write buffer.
LEMMA WriteErrorInv ==
  ASSUME Bookkeeping, TypeOK', NEW e \in batch, HandleWriteError(e) \/ HandleWriteNothing(e)
  PROVE  Bookkeeping'
<1> USE DEF HandleWriteError, HandleWriteNothing
<1>1. \A c \in Own : \A u \in Senders(wire'[c]) : u.reply.from \subseteq {c}
  BY DEF Bookkeeping, NoCrossTalk
<1>2. write_buffers' = [write_buffers EXCEPT ![e.fd] = None]
  BY DEF Bookkeeping, TypeOK, WriteEvent
<1> QED BY <1>1, <1>2, CloseOneInv DEF WriteEvent

\* What is about to be written belongs to the descriptor's owner.
LEMMA OwnUnits ==
  ASSUME Bookkeeping, NEW f \in Fds, write_buffers[f] # None
  PROVE  /\ write_buffers[f] \in Seq(Unit) /\ file[f] \in Own
         /\ watch[file[f]] = "out"
         /\ \A u \in Senders(write_buffers[f]) : u.reply.from \subseteq {file[f]}
  BY DEF Bookkeeping, TypeOK, BuffersFollowWatch, NoCrossTalk

\* handle_write sends the rest of the reply to the descriptor's owner, and closes.
LEMMA WriteCompletesInv ==
  ASSUME Bookkeeping, TypeOK', NEW e \in batch, HandleWriteCompletes(e)
  PROVE  Bookkeeping'
<1> DEFINE c == file[e.fd]
           data == write_buffers[e.fd]
<1>1. e.fd \in Fds /\ data # None
  BY DEF HandleWriteCompletes, WriteEvent
<1>2. /\ data \in Seq(Unit) /\ c \in Own
      /\ \A u \in Senders(data) : u.reply.from \subseteq {c}
  BY <1>1, OwnUnits
<1>3. wire' = [wire EXCEPT ![c] = wire[c] \o data]
  BY DEF HandleWriteCompletes
<1>4. wire[c] \in Seq(Unit) /\ wire \in [Conns -> Seq(Unit)]
  BY <1>2 DEF Bookkeeping, TypeOK
<1>5. /\ wire[c] \o data \in Seq(Unit)
      /\ Senders(wire[c] \o data) \subseteq Senders(wire[c]) \cup Senders(data)
  BY <1>2, <1>4, SendersConcat
<1>8. \A d \in Own : \A u \in Senders(wire'[d]) : u.reply.from \subseteq {d}
  <2>1. \A d \in Own : \A u \in Senders(wire[d]) : u.reply.from \subseteq {d}
    BY DEF Bookkeeping, NoCrossTalk
  <2>2. \A d \in Own \ {c} : wire'[d] = wire[d]
    BY <1>3, <1>4
  <2>3. wire'[c] = wire[c] \o data
    BY <1>2, <1>3, <1>4
  <2> QED BY <1>2, <1>5, <2>1, <2>2, <2>3
<1>9. /\ Dispatch(e) /\ Close({e.fd}) /\ pc' = pc
      /\ read_buffers' = read_buffers
      /\ write_buffers' = [write_buffers EXCEPT ![e.fd] = None]
      /\ connect_times' = [connect_times EXCEPT ![e.fd] = None]
  BY DEF HandleWriteCompletes, WriteEvent
<1> QED BY <1>1, <1>8, <1>9, CloseOneInv

\* An event for input whose descriptor is open finds a connection that waits for
\* its request, with its buffer and its connect time, and shares it with no other
\* descriptor and no other event.
LEMMA ReadEventOwner ==
  ASSUME Bookkeeping, NEW e \in batch, ReadEvent(e), file[e.fd] # None
  PROVE  /\ e.fd \in Fds /\ file[e.fd] \in Own /\ watch[file[e.fd]] = "in"
         /\ read_buffers[e.fd] \in Seq(Conns) /\ connect_times[e.fd] # None
         /\ batch' = batch \ {e} /\ batch' \subseteq Event
         /\ \A f \in Fds \ {e.fd} : file[f] # file[e.fd]
         /\ \A d \in batch' : d.fd # e.fd
<1> USE DEF Bookkeeping
<1>1. e.fd \in Fds /\ batch' = batch \ {e} /\ ~e.out
  BY DEF ReadEvent, Dispatch
<1>2. file[e.fd] \in Own /\ batch' \subseteq Event
  BY <1>1 DEF TypeOK, Apart
<1>3. watch[file[e.fd]] = "in"
  BY <1>1 DEF BatchConsistent
<1>4. read_buffers[e.fd] \in Seq(Conns) /\ connect_times[e.fd] # None
  BY <1>1, <1>2, <1>3 DEF TypeOK, BuffersFollowWatch, TimerUntilReply
<1>5. \A f \in Fds \ {e.fd} : file[f] # file[e.fd]
  BY <1>1 DEF TableConsistent
<1>6. \A d \in batch' : d.fd # e.fd
  BY <1>1 DEF BatchConsistent
<1> QED BY <1>1, <1>2, <1>3, <1>4, <1>5, <1>6

\* The EOF path of handle_read drops both buffers and leaves the connect time that will
\* close the descriptor.
LEMMA ReadEofInv ==
  ASSUME Bookkeeping, TypeOK', NEW e \in batch, HandleReadEof(e)
  PROVE  Bookkeeping'
<1> DEFINE c == file[e.fd]
<1>1. /\ ReadEvent(e) /\ c # None /\ c \in Own /\ e.fd \in Fds
      /\ watch[c] = "in" /\ connect_times[e.fd] # None
      /\ batch' = batch \ {e} /\ batch' \subseteq Event
      /\ \A f \in Fds \ {e.fd} : file[f] # c
      /\ \A d \in batch' : d.fd # e.fd
  BY ReadEventOwner DEF HandleReadEof
<1> USE DEF Bookkeeping, HandleReadEof, EpollDel
<1>3. \A f \in Fds \ {e.fd} :
        /\ file[f] # None => watch'[file[f]] = watch[file[f]]
        /\ read_buffers'[f] = read_buffers[f] /\ write_buffers'[f] = write_buffers[f]
  BY <1>1 DEF TypeOK
<1>4. watch'[c] = "none" /\ write_buffers'[e.fd] = None /\ read_buffers'[e.fd] = None
  BY <1>1 DEF TypeOK
<1>5. TableConsistent' /\ Apart'
  BY <1>1 DEF TableConsistent, Apart
<1>6. BatchConsistent'
  BY <1>1, <1>3 DEF BatchConsistent
<1>7. BuffersFollowWatch'
  BY <1>1, <1>3, <1>4 DEF BuffersFollowWatch
<1>8. OwnBytesOnly' /\ NoCrossTalk'
  BY <1>3, <1>4 DEF OwnBytesOnly, NoCrossTalk
<1>9. TimerUntilReply' /\ FreshTimer'
  BY <1>3, <1>4 DEF TimerUntilReply, FreshTimer
<1>10. NoOrphanDescriptor'
  BY <1>1, <1>3 DEF NoOrphanDescriptor
<1> QED BY <1>5, <1>6, <1>7, <1>8, <1>9, <1>10

\* handle_read turns the owner's bytes into one reply and swaps EPOLLIN for EPOLLOUT.
LEMMA ReadReplyInv ==
  ASSUME Bookkeeping, TypeOK', NEW e \in batch, HandleReadReply(e)
  PROVE  Bookkeeping'
<1> DEFINE c == file[e.fd]
           data == Drained(e.fd)
<1>1. /\ ReadEvent(e) /\ c # None /\ c \in Own /\ e.fd \in Fds
      /\ watch[c] = "in" /\ read_buffers[e.fd] \in Seq(Conns)
      /\ batch' = batch \ {e} /\ batch' \subseteq Event
      /\ \A f \in Fds \ {e.fd} : file[f] # c
      /\ \A d \in batch' : d.fd # e.fd
  BY ReadEventOwner DEF HandleReadReply
<1>2. data \in Seq(Conns) /\ Senders(data) \subseteq {c}
  <2>1. Senders(read_buffers[e.fd]) \subseteq {c}
    BY <1>1, SentinelAssumption DEF Bookkeeping, OwnBytesOnly
  <2>2. inq[c] \in Nat
    BY <1>1 DEF Bookkeeping, TypeOK
  <2> QED BY <1>1, <2>1, <2>2, DrainedType
<1>3. PICK kind \in {"too_large", "handled", "bad_request"}, n \in 1..MaxReply,
           kept \in {data, None} :
        LET reply == [kind |-> kind, from |-> Senders(data), segs |-> Len(data)] IN
        /\ write_buffers' = [write_buffers EXCEPT ![e.fd] = serialize_response(reply, n)]
        /\ read_buffers' = [read_buffers EXCEPT ![e.fd] = kept]
  BY DEF HandleReadReply
<1> DEFINE reply == [kind |-> kind, from |-> Senders(data), segs |-> Len(data)]
           units == serialize_response(reply, n)
<1>4. reply \in Reply
  BY <1>1, <1>2 DEF Reply
<1>5. units \in Seq(Unit) /\ units # None /\ \A u \in Senders(units) : u.reply = reply
  BY <1>4, SerializeType, SentinelAssumption
<1>6. \A u \in Senders(units) : u.reply.from \subseteq {c}
  BY <1>2, <1>5
<1>7. write_buffers' = [write_buffers EXCEPT ![e.fd] = units]
  BY <1>3
<1>8. kept \in Seq(Conns) \cup {None} /\ (kept # None => Senders(kept) \subseteq {c})
  BY <1>2
<1> HIDE DEF data, units, reply
<1>9. /\ inq' = [inq EXCEPT ![c] = 0] /\ watch' = [watch EXCEPT ![c] = "out"]
      /\ edge' = edge \cup {c}
      /\ UNCHANGED <<file, stage, peer, req, sent, outq, wire, pc, connect_times>>
  BY <1>1 DEF HandleReadReply, EpollMod
<1> USE DEF Bookkeeping
<1>11. \A f \in Fds \ {e.fd} :
        /\ file[f] # None => watch'[file[f]] = watch[file[f]]
        /\ read_buffers'[f] = read_buffers[f] /\ write_buffers'[f] = write_buffers[f]
  BY <1>1, <1>3, <1>7, <1>9 DEF TypeOK
<1>12. watch'[c] = "out" /\ write_buffers'[e.fd] = units /\ read_buffers'[e.fd] = kept
  BY <1>1, <1>3, <1>7, <1>9 DEF TypeOK
<1>13. TableConsistent' /\ Apart'
  BY <1>1, <1>9 DEF TableConsistent, Apart
<1>14. BatchConsistent'
  BY <1>1, <1>9, <1>11 DEF BatchConsistent
<1>15. BuffersFollowWatch'
  BY <1>1, <1>5, <1>9, <1>11, <1>12 DEF BuffersFollowWatch
<1>16. OwnBytesOnly' /\ NoCrossTalk'
  BY <1>6, <1>8, <1>9, <1>11, <1>12 DEF OwnBytesOnly, NoCrossTalk
<1>17. TimerUntilReply' /\ FreshTimer'
  BY <1>9, <1>11, <1>12 DEF TimerUntilReply, FreshTimer
<1>18. NoOrphanDescriptor'
  BY <1>9, <1>11, <1>12 DEF NoOrphanDescriptor
<1> QED BY <1>13, <1>14, <1>15, <1>16, <1>17, <1>18

\* A partial write in handle_write keeps the rest of the owner's reply.
LEMMA WriteBlocksInv ==
  ASSUME Bookkeeping, TypeOK', NEW e \in batch, HandleWriteBlocks(e)
  PROVE  Bookkeeping'
<1> DEFINE c == file[e.fd]
           data == write_buffers[e.fd]
           room == SndBuf - outq[c]
           out  == SubSeq(data, 1, room)
           rest == drain(data, room)
<1>1. e.fd \in Fds /\ data # None /\ batch' = batch \ {e}
  BY DEF HandleWriteBlocks, WriteEvent, Dispatch
<1>2. /\ data \in Seq(Unit) /\ c \in Own /\ watch[c] = "out"
      /\ \A u \in Senders(data) : u.reply.from \subseteq {c}
  BY <1>1, OwnUnits
<1>3. room \in Nat /\ room < Len(data) /\ SndBuf \in Nat
  BY <1>2, BoundsAssumption DEF Bookkeeping, TypeOK, HandleWriteBlocks
<1>4. /\ out \in Seq(Unit) /\ Senders(out) \subseteq Senders(data)
      /\ rest \in Seq(Unit) /\ Senders(rest) \subseteq Senders(data)
  <2>1. Len(data) \in Nat /\ rest = SubSeq(data, room + 1, Len(data))
    BY <1>2 DEF drain
  <2>2. out \in Seq(Unit) /\ Senders(out) \subseteq Senders(data)
    <3> HIDE DEF data, room
    <3> QED BY <1>2, <1>3, <2>1, SendersSubSeq
  <2>3. rest \in Seq(Unit) /\ Senders(rest) \subseteq Senders(data)
    <3>1. 1 <= room + 1 /\ room + 1 \in Nat
      BY <1>3
    <3> HIDE DEF data, room, rest
    <3> QED BY <1>2, <2>1, <3>1, SendersSubSeq
  <2> QED BY <2>2, <2>3
<1>5. wire \in [Conns -> Seq(Unit)] /\ wire[c] \in Seq(Unit)
  BY <1>2 DEF Bookkeeping, TypeOK
<1>6. wire[c] \o out \in Seq(Unit) /\ Senders(wire[c] \o out) \subseteq Senders(wire[c]) \cup Senders(out)
  BY <1>4, <1>5, SendersConcat
<1>7. /\ wire' = [wire EXCEPT ![c] = wire[c] \o out]
      /\ outq' = [outq EXCEPT ![c] = SndBuf]
      /\ write_buffers' = [write_buffers EXCEPT ![e.fd] = rest]
      /\ connect_times' = [connect_times EXCEPT ![e.fd] = None]
      /\ UNCHANGED <<file, stage, peer, req, sent, inq, watch, edge, pc, read_buffers>>
  BY DEF HandleWriteBlocks, WriteEvent
<1> HIDE DEF data, room, out, rest
<1>8. rest # None
  BY <1>4, SentinelAssumption
<1> USE DEF Bookkeeping
<1>10. \A f \in Fds \ {e.fd} : /\ write_buffers'[f] = write_buffers[f]
                               /\ connect_times'[f] = connect_times[f]
  BY <1>7 DEF TypeOK
<1>11. write_buffers'[e.fd] = rest /\ connect_times'[e.fd] = None
  BY <1>1, <1>7 DEF TypeOK
<1>12. TableConsistent' /\ Apart'
  BY <1>1, <1>7, <1>10, <1>11 DEF TableConsistent, Apart
<1>13. BatchConsistent'
  BY <1>1, <1>7 DEF BatchConsistent
<1>15. BuffersFollowWatch'
  BY <1>1, <1>2, <1>7, <1>8, <1>10, <1>11, SentinelAssumption DEF BuffersFollowWatch
<1>16. OwnBytesOnly'
  BY <1>7 DEF OwnBytesOnly
<1>17. NoCrossTalk'
  <2>1. \A d \in Own : \A u \in Senders(wire'[d]) : u.reply.from \subseteq {d}
    BY <1>2, <1>4, <1>5, <1>6, <1>7 DEF NoCrossTalk
  <2>2. \A f \in Fds : file'[f] \in Own /\ write_buffers'[f] # None =>
          \A u \in Senders(write_buffers'[f]) : u.reply.from \subseteq {file'[f]}
    BY <1>2, <1>4, <1>7, <1>10, <1>11 DEF NoCrossTalk
  <2> QED BY <2>1, <2>2 DEF NoCrossTalk
<1>18. TimerUntilReply'
  BY <1>2, <1>7, <1>10 DEF TimerUntilReply
<1>19. FreshTimer'
  BY <1>7, <1>10, <1>11 DEF FreshTimer
<1>20. NoOrphanDescriptor'
  BY <1>2, <1>7, <1>10 DEF NoOrphanDescriptor
<1> QED BY <1>12, <1>13, <1>15, <1>16, <1>17, <1>18, <1>19, <1>20

-----------------------------------------------------------------------------
(* The theorems.                                                            *)

\* A step that changes none of the variables keeps the invariant of Server::run.
LEMMA StutterInv == ASSUME Bookkeeping, UNCHANGED vars PROVE Bookkeeping'
  BY DEF vars, kernelVars, mapVars, Bookkeeping, TypeOK, TableConsistent, Apart, BatchConsistent,
         BuffersFollowWatch, OwnBytesOnly, NoCrossTalk, TimerUntilReply, FreshTimer,
         NoOrphanDescriptor

\* Every step of run(), of the clients and of time keeps the bookkeeping consistent.
LEMMA NextInv == Bookkeeping /\ [Next]_vars => Bookkeeping'
<1> SUFFICES ASSUME Bookkeeping, [Next]_vars PROVE Bookkeeping'
  OBVIOUS
<1> TypeOK'
  BY NextType DEF Bookkeeping
<1>1. CASE EpollWait
  BY <1>1, EpollWaitInv
<1>2. CASE Sweep
  BY <1>2, SweepInv
<1>3. CASE Accept
  BY <1>3, AcceptOneInv, AcceptBordersInv DEF Accept
<1>4. ASSUME NEW e \in batch, StartAccept(e) PROVE Bookkeeping'
  BY <1>4, AcceptBordersInv
<1>5. ASSUME NEW e \in batch, HandleRead(e) PROVE Bookkeeping'
  <2>1. CASE HandleReadPanic(e)
    <3>1. {e.fd} \in SUBSET Fds /\ Die({e.fd}) /\ \A f \in {e.fd} : file[f] # None
      BY <2>1 DEF HandleReadPanic
    <3> QED BY <3>1, DieInv
  <2>2. ~HandleReadNoBuffer(e)
    BY SentinelAssumption, ReadEventOwner DEF HandleReadNoBuffer
  <2> QED BY <1>5, <2>1, <2>2, ReadErrorInv, ReadEofInv, ReadReplyInv DEF HandleRead
<1>6. ASSUME NEW e \in batch, HandleWrite(e) PROVE Bookkeeping'
  BY <1>6, WriteErrorInv, WriteBlocksInv, WriteCompletesInv DEF HandleWrite
<1>7. CASE Fault
  <2>1. Die({})
    BY <1>7 DEF Fault, EpollWaitFails, AcceptFails
  <2> QED BY <2>1, DieInv
<1>8. ASSUME NEW c \in Conns, Client(c) PROVE Bookkeeping'
  BY <1>8, ConnectInv, TrafficInv DEF Client
<1>9. ASSUME NEW fd \in Fds, Expire(fd) PROVE Bookkeeping'
  BY <1>9, ExpireInv
<1>10. CASE UNCHANGED vars
  BY <1>10, StutterInv
<1> QED BY <1>1, <1>2, <1>3, <1>4, <1>5, <1>6, <1>7, <1>8, <1>9, <1>10 DEF Next, Loop

\* The bookkeeping of run() is consistent in every reachable state, whatever the
\* numbers of connections and descriptors, the limits and the faults.
THEOREM Invariance == Spec => []Bookkeeping
  BY InitInv, NextInv, PTL DEF Spec

\* The maps of Server::run, the descriptor table and the sockets keep their shape.
THEOREM TypeCorrect == Spec => []TypeOK
<1>1. Bookkeeping => TypeOK
  BY DEF Bookkeeping
<1> QED BY <1>1, Invariance, PTL

\* Who waits for input has a read buffer, and a number has a write buffer only while
\* its owner waits for output.
THEOREM BuffersAreInPlace == Spec => []BuffersFollowWatch
<1>1. Bookkeeping => BuffersFollowWatch
  BY DEF Bookkeeping
<1> QED BY <1>1, Invariance, PTL

\* However descriptor numbers are reused, no client gets a reply to another.
THEOREM RepliesStayApart == Spec => []NoCrossTalk
<1>1. Bookkeeping => NoCrossTalk
  BY DEF Bookkeeping
<1> QED BY <1>1, Invariance, PTL

\* The EOF path of handle_read leaks no descriptor beyond the next sweep.
THEOREM NothingIsForgotten == Spec => []NoOrphanDescriptor
<1>1. Bookkeeping => NoOrphanDescriptor
  BY DEF Bookkeeping
<1> QED BY <1>1, Invariance, PTL

\* The sweep measures the age of the connection it closes, never a predecessor's.
THEOREM TimersAreFresh == Spec => []FreshTimer
<1>1. Bookkeeping => FreshTimer
  BY DEF Bookkeeping
<1> QED BY <1>1, Invariance, PTL

-----------------------------------------------------------------------------
(* Two loops in one process.                                                *)

\* What a step leaves alone: the numbers and the connections of other loops.
OwnOnly ==
  /\ \A f \in Fds : file'[f] # file[f] =>
       \/ file[f] = None /\ file'[f] \in Own
       \/ file[f] \in Own /\ file'[f] = None
  /\ \A c \in Conns \ Own : watch'[c] = watch[c] /\ wire'[c] = wire[c]

\* close() of descriptors of this loop, or of none, and the end of its thread.
LEMMA ClosesOwnOnly ==
  ASSUME TypeOK, NEW S \in SUBSET Fds, \A f \in S : file[f] \in Own \cup {None},
         \/ Close(S) /\ \A c \in Conns \ Own : wire'[c] = wire[c]
         \/ Die(S)
  PROVE  OwnOnly
<1> DEFINE gone == {file[f] : f \in S} \cup Queued
<1>1. \A c \in Conns \ Own : c \notin gone
  BY SentinelAssumption DEF Queued
<1>2. \A f \in Fds : file'[f] = IF f \in S THEN None ELSE file[f]
  BY DEF Close, Die
<1>3. \A c \in Conns \ Own : watch'[c] = watch[c] /\ wire'[c] = wire[c]
  BY <1>1 DEF Close, Die
<1> QED BY <1>2, <1>3 DEF OwnOnly

\* However a step of run() finds its descriptors, in connect_times or in an event,
\* it opens, closes, watches and writes to connections of its own listener only.
LEMMA TouchesOwnOnly == ASSUME Bookkeeping, [Next]_vars PROVE OwnOnly
<1> TypeOK /\ Apart
  BY DEF Bookkeeping
<1>1. ASSUME file' = file, watch' = watch, wire' = wire PROVE OwnOnly
  BY <1>1 DEF OwnOnly
<1>2. ASSUME NEW e \in batch, e.fd \in Fds PROVE file[e.fd] \in Own \cup {None}
  BY <1>2 DEF Apart
<1>3. CASE Sweep
  <2>1. timed_out \in SUBSET Fds /\ Close(timed_out) /\ wire' = wire
    BY <1>3 DEF timed_out, Sweep
  <2>2. \A f \in timed_out : file[f] \in Own \cup {None}
    BY DEF timed_out, Apart
  <2> QED BY <2>1, <2>2, ClosesOwnOnly
<1>4. ASSUME NEW c \in Own, NEW fd \in Fds, AcceptOne(c, fd) PROVE OwnOnly
  BY <1>4 DEF AcceptOne, OwnOnly, TypeOK
<1>5. ASSUME NEW e \in batch, HandleRead(e) PROVE OwnOnly
  <2>1. e.fd \in Fds /\ {e.fd} \in SUBSET Fds /\ \A f \in {e.fd} : file[f] \in Own \cup {None}
    BY <1>2, <1>5 DEF HandleRead, HandleReadError, HandleReadEof, HandleReadReply,
       HandleReadNoBuffer, HandleReadPanic, ReadEvent
  <2>2. CASE HandleReadError(e) \/ HandleReadPanic(e)
    <3>1. \/ Close({e.fd}) /\ \A c \in Conns \ Own : wire'[c] = wire[c]
          \/ Die({e.fd})
      BY <2>2 DEF HandleReadError, HandleReadPanic
    <3> QED BY <2>1, <3>1, ClosesOwnOnly
  <2>3. CASE HandleReadEof(e) \/ HandleReadReply(e)
    <3>1. /\ file[e.fd] # None /\ file' = file /\ wire' = wire
          /\ EpollDel(file[e.fd]) \/ EpollMod(file[e.fd])
      BY <2>3 DEF HandleReadEof, HandleReadReply
    <3>2. \A c \in Conns \ Own : watch'[c] = watch[c]
      BY <2>1, <3>1 DEF EpollDel, EpollMod, TypeOK
    <3> QED BY <3>1, <3>2 DEF OwnOnly
  <2>4. CASE HandleReadNoBuffer(e)
    BY <1>1, <2>4 DEF HandleReadNoBuffer
  <2> QED BY <1>5, <2>2, <2>3, <2>4 DEF HandleRead
<1>6. ASSUME NEW e \in batch, HandleWrite(e) PROVE OwnOnly
  <2>1. e.fd \in Fds /\ {e.fd} \in SUBSET Fds /\ \A f \in {e.fd} : file[f] \in Own \cup {None}
    BY <1>2, <1>6 DEF HandleWrite, HandleWriteError, HandleWriteBlocks, HandleWriteCompletes,
       HandleWriteNothing, WriteEvent
  <2>2. \A c \in Conns \ Own : wire'[c] = wire[c]
    BY <2>1, <1>6 DEF HandleWrite, HandleWriteError, HandleWriteBlocks, HandleWriteCompletes,
       HandleWriteNothing, TypeOK
  <2>3. Close({e.fd}) \/ (file' = file /\ watch' = watch)
    BY <1>6 DEF HandleWrite, HandleWriteError, HandleWriteBlocks, HandleWriteCompletes,
       HandleWriteNothing
  <2> QED BY <2>1, <2>2, <2>3, ClosesOwnOnly DEF OwnOnly
<1>7. CASE Fault
  <2>1. {} \in SUBSET Fds /\ Die({})
    BY <1>7 DEF Fault, EpollWaitFails, AcceptFails
  <2> QED BY <2>1, ClosesOwnOnly
<1>8. CASE \/ EpollWait \/ AcceptStops \/ UNCHANGED vars
           \/ \E e \in batch : StartAccept(e)
           \/ \E fd \in Fds : Expire(fd)
  BY <1>1, <1>8 DEF EpollWait, AcceptStops, StartAccept, Expire, vars, kernelVars
<1>9. ASSUME NEW c \in Own, Client(c) PROVE OwnOnly
  BY <1>1, <1>9 DEF Client, Connect, SendSegment, Receive, Hangup
<1> QED BY <1>3, <1>4, <1>5, <1>6, <1>7, <1>8, <1>9 DEF Next, Loop, Accept

\* While another loop works on connections of its own, this one's bookkeeping
\* stays consistent, as long as what it still has of a number stays apart.
LEMMA ElsewhereInv ==
  ASSUME Bookkeeping, TypeOK', TableConsistent', Apart',
         UNCHANGED <<pc, batch, mapVars>>,
         \A f \in Fds : file'[f] # file[f] => file[f] \notin Own /\ file'[f] \notin Own,
         \A c \in Own : watch'[c] = watch[c] /\ wire'[c] = wire[c]
  PROVE  Bookkeeping'
<1> USE DEF Bookkeeping, mapVars
<1>1. \A f \in Fds : file'[f] \in Own =>
        file'[f] = file[f] /\ watch'[file'[f]] = watch[file[f]]
  OBVIOUS
<1>2. \A f \in Fds : file[f] \in Own => file'[f] = file[f]
  OBVIOUS
<1>3. BatchConsistent'
  <2>1. \A e \in batch' : e.fd \in Fds => file'[e.fd] \in Own \cup {None}
    BY DEF Apart
  <2>2. \A e \in batch' : e.fd \in Fds /\ ~e.out =>
          file'[e.fd] = None \/ watch'[file'[e.fd]] = "in"
    BY <1>1, <2>1 DEF BatchConsistent
  <2> QED BY <2>2 DEF BatchConsistent
<1>4. BuffersFollowWatch'
  BY <1>1, <1>2 DEF BuffersFollowWatch
<1>5. OwnBytesOnly' /\ NoCrossTalk'
  BY <1>1 DEF OwnBytesOnly, NoCrossTalk
<1>6. TimerUntilReply' /\ FreshTimer' /\ NoOrphanDescriptor'
  BY <1>1 DEF TimerUntilReply, FreshTimer, NoOrphanDescriptor
<1> QED BY <1>3, <1>4, <1>5, <1>6

-----------------------------------------------------------------------------
(* Refinement.  The loop loses no edge-triggered wakeup, closes for a reason   *)
(* only, and implements Exchange.                                             *)

\* The listener is told apart from connections and from a closed descriptor.
LEMMA ListenerApart == Listener \notin Own /\ Listener \notin Fds /\ Listener # None
  BY SentinelAssumption, OwnAssumption
USE OwnConns, ListenerApart

\* The two halves of NoLostWakeup, named for the lemmas below.
ReadyIsSeen == \A c \in Own : Ready(c) => c \in edge \/ \E e \in batch : e.who = c
BacklogIsSeen == IsFiniteSet(Conns) /\ Cardinality(Conns) <= Cardinality(Fds) => BacklogIsWatched

-----------------------------------------------------------------------------
(* One lemma per kind of step.                                              *)

\* Closing descriptors, and handling the events for them, loses no wakeup: what is
\* closed is not watched, and everything else keeps its place on the ready list.
LEMMA CloseWakeups ==
  ASSUME Bookkeeping, Wakeups, NEW S \in SUBSET Fds, Close(S),
         NEW D \in SUBSET batch, batch' = batch \ D, \A e \in D : e.fd \in S,
         peer' = peer, pc = "accept" => pc' = "accept",
         \A c \in Own : (\A f \in S : file[f] # c) => outq'[c] = outq[c]
  PROVE  Wakeups'
<1> DEFINE gone == {file[f] : f \in S}
<1>0. TypeOK /\ TableConsistent /\ WatchedIsOpen /\ EventsCurrent /\ ReadyIsSeen /\ BacklogIsSeen
  BY DEF Bookkeeping, Wakeups, NoLostWakeup, ReadyIsSeen, BacklogIsSeen
<1>1. \A f \in Fds : file'[f] = IF f \in S THEN None ELSE file[f]
  BY DEF Close
<1>2. \A c \in Conns : /\ stage'[c] = IF c \in gone THEN "closed" ELSE stage[c]
                       /\ watch'[c] = IF c \in gone THEN "none" ELSE watch[c]
                       /\ inq'[c] = IF c \in gone THEN 0 ELSE inq[c]
  BY DEF Close
<1>3. edge' = edge \ gone
  BY DEF Close
<1>4. Listener \notin gone
  BY <1>0, SentinelAssumption DEF TypeOK
<1>5. \A e \in batch : e.who \in Conns \cup {Listener} /\ e.fd \in Fds \cup {Listener}
  BY <1>0 DEF TypeOK, Event
<1>6. WatchedIsOpen'
  <2> SUFFICES ASSUME NEW c \in Own, watch'[c] # "none"
               PROVE  \E f \in Fds : file'[f] = c
    BY DEF WatchedIsOpen
  <2>1. c \notin gone /\ watch[c] # "none"
    BY <1>2
  <2>2. PICK f \in Fds : file[f] = c
    BY <1>0, <2>1 DEF WatchedIsOpen
  <2> QED BY <1>1, <2>1, <2>2
<1>7. EventsCurrent'
  <2> SUFFICES ASSUME NEW e \in batch'
               PROVE  /\ e.who = Listener <=> e.fd = Listener
                      /\ e.fd \in Fds => /\ stage'[e.who] \in {"open", "closed"}
                                         /\ \/ file'[e.fd] = e.who /\ (e.out => watch'[e.who] = "out")
                                            \/ file'[e.fd] # e.who /\ watch'[e.who] = "none"
    BY DEF EventsCurrent
  <2>1. e \in batch /\ (e.who = Listener <=> e.fd = Listener)
    BY <1>0 DEF EventsCurrent
  <2>2. ASSUME e.fd \in Fds
        PROVE  /\ stage'[e.who] \in {"open", "closed"}
               /\ \/ file'[e.fd] = e.who /\ (e.out => watch'[e.who] = "out")
                  \/ file'[e.fd] # e.who /\ watch'[e.who] = "none"
    <3>1. e.who \in Conns
      BY <1>5, <2>1, <2>2
    <3>2. /\ stage[e.who] \in {"open", "closed"}
          /\ \/ file[e.fd] = e.who /\ (e.out => watch[e.who] = "out")
             \/ file[e.fd] # e.who /\ watch[e.who] = "none"
      BY <1>0, <2>1, <2>2 DEF EventsCurrent
    <3>3. CASE e.who \in gone
      <4>1. file'[e.fd] # e.who
        <5>1. PICK g \in S : file[g] = e.who
          BY <3>3
        <5>2. e.fd = g \/ file[e.fd] # e.who
          BY <1>0, <2>2, <3>1, <5>1, SentinelAssumption DEF TableConsistent
        <5> QED BY <1>1, <2>2, <3>1, <5>1, <5>2, SentinelAssumption
      <4> QED BY <1>2, <3>1, <3>2, <3>3, <4>1
    <3>4. CASE e.who \notin gone
      <4>1. watch'[e.who] = watch[e.who] /\ stage'[e.who] = stage[e.who]
        BY <1>2, <3>1, <3>4
      <4>2. (file'[e.fd] = e.who) <=> (file[e.fd] = e.who)
        BY <1>1, <2>2, <3>1, <3>4, SentinelAssumption
      <4> QED BY <3>2, <4>1, <4>2
    <3> QED BY <3>3, <3>4
  <2> QED BY <2>1, <2>2
<1>8. ReadyIsSeen'
  <2> SUFFICES ASSUME NEW c \in Own, Ready(c)'
               PROVE  c \in edge' \/ \E e \in batch' : e.who = c
    BY DEF ReadyIsSeen
  <2>1. watch'[c] # "none"
    BY DEF Ready
  <2>2. c \notin gone /\ watch[c] # "none"
    BY <1>2, <2>1
  <2>3. outq'[c] = outq[c]
    BY <2>2
  <2>4. Ready(c)
    BY <1>2, <2>2, <2>3 DEF Ready
  <2>5. CASE c \in edge
    BY <1>3, <2>2, <2>5
  <2>6. ASSUME NEW e \in batch, e.who = c PROVE e \in batch'
    <3>1. e.fd \in Fds => file[e.fd] = c
      BY <1>0, <2>2, <2>6 DEF EventsCurrent
    <3> QED BY <2>2, <3>1
  <2> QED BY <1>0, <2>4, <2>5, <2>6 DEF ReadyIsSeen
<1>9. BacklogIsSeen'
  <2>1. Queued' \subseteq Queued
    BY <1>2 DEF Queued
  <2>2. \A e \in batch : e.who = Listener => e \in batch'
    BY <1>0 DEF EventsCurrent
  <2> QED BY <1>0, <1>3, <1>4, <2>1, <2>2 DEF BacklogIsSeen, BacklogIsWatched
<1> QED BY <1>6, <1>7, <1>8, <1>9 DEF Wakeups, NoLostWakeup, ReadyIsSeen, BacklogIsSeen

\* Clients wake whoever watches: connecting wakes the listener, a segment, a hangup or
\* room in a full send buffer the connection.
LEMMA ClientWakeups ==
  ASSUME Bookkeeping, Wakeups, NEW c \in Own, Client(c)
  PROVE  Wakeups'
<1>0. /\ TypeOK
      /\ WatchedIsOpen /\ EventsCurrent /\ ReadyIsSeen /\ BacklogIsSeen
  BY DEF Bookkeeping, Wakeups, NoLostWakeup, ReadyIsSeen, BacklogIsSeen
<1>1. UNCHANGED <<file, watch, pc, batch>> /\ edge \subseteq edge'
  BY DEF Client, Connect, SendSegment, Receive, Hangup
<1>2. \A d \in Conns : stage[d] \in {"open", "closed"} => stage'[d] = stage[d]
  BY <1>0 DEF Client, Connect, SendSegment, Receive, Hangup, TypeOK
<1>3. WatchedIsOpen'
  BY <1>0, <1>1 DEF WatchedIsOpen
<1>4. EventsCurrent'
  <2>1. \A e \in batch : e.fd \in Fds => e.who \in Conns
    BY <1>0 DEF TypeOK, Event, EventsCurrent
  <2> QED BY <1>0, <1>1, <1>2, <2>1 DEF EventsCurrent
<1>5. ReadyIsSeen'
  <2> SUFFICES ASSUME NEW d \in Own, Ready(d)', ~Ready(d)
               PROVE  d \in edge'
    BY <1>0, <1>1 DEF ReadyIsSeen
  <2>1. CASE \E r \in Requests : Connect(c, r)
    BY <2>1 DEF Connect, Ready
  <2>2. CASE SendSegment(c)
    BY <2>2, <1>0 DEF SendSegment, Ready, TypeOK
  <2>3. CASE Receive(c)
    <3>1. watch[d] = "out" /\ ~(outq[d] < SndBuf) /\ outq'[d] # outq[d]
      BY <2>3 DEF Receive, Ready
    <3>2. d = c
      BY <2>3, <3>1, <1>0 DEF Receive, TypeOK
    <3>3. outq[c] = SndBuf
      BY <3>1, <3>2, <1>0, BoundsAssumption DEF TypeOK
    <3> QED BY <2>3, <3>1, <3>2, <3>3 DEF Receive
  <2>4. CASE \E how \in {"fin", "reset"} : Hangup(c, how)
    <3>1. watch[d] # "none" /\ peer'[d] # peer[d]
      BY <2>4 DEF Hangup, Ready
    <3>2. d = c
      BY <2>4, <3>1, <1>0 DEF Hangup, TypeOK
    <3> QED BY <2>4, <3>1, <3>2 DEF Hangup
  <2> QED BY <2>1, <2>2, <2>3, <2>4 DEF Client
<1>6. BacklogIsSeen'
  <2>1. CASE \E r \in Requests : Connect(c, r)
    BY <2>1 DEF Connect, BacklogIsSeen, BacklogIsWatched
  <2>2. CASE ~\E r \in Requests : Connect(c, r)
    <3>1. stage' = stage
      BY <2>2 DEF Client, SendSegment, Receive, Hangup
    <3> QED BY <1>0, <1>1, <3>1 DEF BacklogIsSeen, BacklogIsWatched, Queued
  <2> QED BY <2>1, <2>2
<1> QED BY <1>3, <1>4, <1>5, <1>6 DEF Wakeups, NoLostWakeup, ReadyIsSeen, BacklogIsSeen

\* Epoll::wait takes files off the ready list only to hand them out, and leaves those
\* beyond MAX_EVENTS on it.
LEMMA EpollWaitWakeups ==
  ASSUME Bookkeeping, Wakeups, EpollWait
  PROVE  Wakeups'
<1> DEFINE ready == {f \in Fds : file[f] \in Own \cap edge /\ Ready(file[f])}
                    \cup {l \in {Listener} : l \in edge /\ Queued # {}}
           File(f) == IF f = Listener THEN Listener ELSE file[f]
           Ev(f) == [fd |-> f, who |-> File(f),
                     out |-> f # Listener /\ watch[File(f)] = "out"]
<1>1. PICK B \in SUBSET ready :
        /\ batch' = {Ev(f) : f \in B}
        /\ edge' = (edge \ (Own \cup {Listener})) \cup {File(f) : f \in ready \ B}
  BY DEF EpollWait
<1>2. /\ pc = "events" /\ batch = {}
      /\ UNCHANGED <<file, stage, peer, req, sent, inq, outq, wire, watch, mapVars>>
  BY DEF EpollWait
<1>0. /\ TypeOK /\ TableConsistent
      /\ WatchedIsOpen /\ EventsCurrent /\ ReadyIsSeen /\ BacklogIsSeen
  BY DEF Bookkeeping, Wakeups, NoLostWakeup, ReadyIsSeen, BacklogIsSeen
<1>3. WatchedIsOpen'
  BY <1>0, <1>2 DEF WatchedIsOpen
<1>4. \A f \in ready : f # Listener =>
        f \in Fds /\ file[f] \in Own /\ stage[file[f]] = "open" /\ Ready(file[f])
  BY <1>0 DEF TableConsistent
<1>5. EventsCurrent'
  <2> SUFFICES ASSUME NEW f \in B
               PROVE  /\ Ev(f).who = Listener <=> f = Listener
                      /\ f \in Fds => /\ stage[Ev(f).who] \in {"open", "closed"}
                                      /\ file[f] = Ev(f).who
                                      /\ Ev(f).out => watch[Ev(f).who] = "out"
    BY <1>1, <1>2 DEF EventsCurrent
  <2>1. f \in ready
    BY <1>1
  <2> QED BY <1>4, <2>1
<1>6. \A f \in ready : File(f) \in edge' \/ \E e \in batch' : e.who = File(f)
  <2> SUFFICES ASSUME NEW f \in ready
               PROVE  File(f) \in edge' \/ \E e \in batch' : e.who = File(f)
    OBVIOUS
  <2>1. CASE f \in B
    <3>1. Ev(f) \in batch' /\ Ev(f).who = File(f)
      BY <1>1, <2>1
    <3> QED BY <3>1
  <2>2. CASE f \notin B
    BY <1>1, <2>2
  <2> QED BY <2>1, <2>2
<1>7. ReadyIsSeen'
  <2> SUFFICES ASSUME NEW c \in Own, Ready(c)
               PROVE  c \in edge' \/ \E e \in batch' : e.who = c
    BY <1>2 DEF ReadyIsSeen, Ready
  <2>1. c \in edge
    BY <1>0, <1>2 DEF ReadyIsSeen
  <2>2. PICK f \in Fds : file[f] = c
    BY <1>0 DEF WatchedIsOpen, Ready
  <2>3. f \in ready /\ File(f) = c
    BY <2>1, <2>2
  <2> HIDE DEF ready, File
  <2> QED BY <1>6, <2>3
<1>8. BacklogIsSeen'
  <2> SUFFICES ASSUME IsFiniteSet(Conns), Cardinality(Conns) <= Cardinality(Fds), Queued # {}
               PROVE  Listener \in edge' \/ \E e \in batch' : e.who = Listener
    BY <1>2 DEF BacklogIsSeen, BacklogIsWatched, Queued
  <2>1. Listener \in edge
    BY <1>0, <1>2 DEF BacklogIsSeen, BacklogIsWatched
  <2>2. Listener \in ready /\ File(Listener) = Listener
    BY <2>1
  <2> HIDE DEF ready, File
  <2> QED BY <1>6, <2>2
<1> QED BY <1>3, <1>5, <1>7, <1>8 DEF Wakeups, NoLostWakeup, ReadyIsSeen, BacklogIsSeen

\* With the thread nothing is watched, and nobody is left in the backlog.
LEMMA DieWakeups ==
  ASSUME Bookkeeping, NEW S \in SUBSET Fds, Die(S)
  PROVE  Wakeups'
<1>1. /\ batch' = {} /\ \A c \in Own : watch'[c] = "none"
      /\ Queued' = {}
  BY DEF Die, Queued
<1>2. \A c \in Own : ~Ready(c)'
  BY <1>1 DEF Ready
<1> QED BY <1>1, <1>2 DEF Wakeups, WatchedIsOpen, EventsCurrent, NoLostWakeup, BacklogIsWatched

\* While descriptors are left, EAGAIN alone ends accept_connections: if all were taken,
\* as many connections would be open, and none would be left to queue.
LEMMA DescriptorsSuffice ==
  ASSUME TypeOK, TableConsistent, IsFiniteSet(Conns),
         Cardinality(Conns) <= Cardinality(Fds), \A f \in Fds : file[f] # None
  PROVE  Queued = {}
<1> SUFFICES ASSUME NEW q \in Conns, stage[q] = "queued" PROVE FALSE
  BY DEF Queued
<1> DEFINE Rest == Conns \ {q}
<1>1. file \in [Fds -> Rest]
  BY DEF TypeOK, TableConsistent
<1>2. file \in Injection(Fds, Rest)
  BY <1>1, SMT DEF Injection, IsInjective, TableConsistent
<1>3. IsFiniteSet(Rest) /\ Cardinality(Rest) = Cardinality(Conns) - 1
  BY FS_RemoveElement
<1>4. Cardinality(Conns) \in Nat
  BY FS_CardinalityType
<1>5. IsFiniteSet(Fds) /\ Cardinality(Fds) <= Cardinality(Rest)
  BY <1>2, <1>3, FS_Injection
<1>6. Cardinality(Fds) \in Nat
  BY <1>5, FS_CardinalityType
<1> QED BY <1>3, <1>4, <1>5, <1>6

\* accept_connections is entered on the listener's event and left on EAGAIN, when
\* nobody is in the backlog.
LEMMA AcceptBordersWakeups ==
  ASSUME Bookkeeping, Wakeups, AcceptStops \/ \E e \in batch : StartAccept(e)
  PROVE  Wakeups'
<1>0. /\ TypeOK /\ TableConsistent
      /\ WatchedIsOpen /\ EventsCurrent /\ ReadyIsSeen /\ BacklogIsSeen
  BY DEF Bookkeeping, Wakeups, NoLostWakeup, ReadyIsSeen, BacklogIsSeen
<1>1. UNCHANGED kernelVars
  BY DEF AcceptStops, StartAccept
<1>2. batch' \subseteq batch /\ \A e \in batch : e.who \in Own => e \in batch'
  BY <1>0 DEF AcceptStops, StartAccept, Dispatch, EventsCurrent
<1>3. WatchedIsOpen' /\ EventsCurrent'
  BY <1>0, <1>1, <1>2 DEF kernelVars, WatchedIsOpen, EventsCurrent
<1>4. ReadyIsSeen'
  BY <1>0, <1>1, <1>2 DEF kernelVars, ReadyIsSeen, Ready
<1>5. BacklogIsSeen'
  <2>1. CASE pc' = "accept"
    BY <2>1 DEF BacklogIsSeen, BacklogIsWatched
  <2>2. CASE AcceptStops
    <3>1. stage' = stage
      BY <1>1 DEF kernelVars
    <3> QED BY <1>0, <2>2, <3>1, DescriptorsSuffice
            DEF AcceptStops, BacklogIsSeen, BacklogIsWatched, Queued
  <2> QED BY <2>1, <2>2 DEF StartAccept
<1> QED BY <1>3, <1>4, <1>5 DEF Wakeups, NoLostWakeup, ReadyIsSeen, BacklogIsSeen

\* EPOLL_CTL_ADD reports a file that is ready already, so what a client has sent before
\* it was accepted is seen.
LEMMA AcceptOneWakeups ==
  ASSUME Bookkeeping, Wakeups, NEW c \in Own, NEW fd \in Fds, AcceptOne(c, fd)
  PROVE  Wakeups'
<1>0. /\ TypeOK /\ TableConsistent
      /\ WatchedIsOpen /\ EventsCurrent /\ ReadyIsSeen
  BY DEF Bookkeeping, Wakeups, NoLostWakeup, ReadyIsSeen
<1>1. /\ file[fd] = None /\ stage[c] = "queued" /\ c # None
      /\ file' = [file EXCEPT ![fd] = c] /\ watch' = [watch EXCEPT ![c] = "in"]
      /\ stage' = [stage EXCEPT ![c] = "open"] /\ edge' = edge \cup {c}
      /\ pc' = "accept" /\ UNCHANGED <<peer, inq, outq, batch>>
  BY DEF AcceptOne
<1>2. /\ \A f \in Fds \ {fd} : file'[f] = file[f]
      /\ file'[fd] = c
      /\ \A d \in Conns \ {c} : stage'[d] = stage[d] /\ watch'[d] = watch[d]
  BY <1>0, <1>1 DEF TypeOK
<1>3. WatchedIsOpen'
  BY <1>0, <1>1, <1>2 DEF WatchedIsOpen
<1>4. EventsCurrent'
  <2>1. \A e \in batch : e.fd \in Fds => e.who \in Conns \ {c}
    BY <1>0, <1>1 DEF TypeOK, Event, EventsCurrent
  <2>2. \A e \in batch : e.fd = fd => watch[e.who] = "none"
    BY <1>0, <1>1, <2>1, SentinelAssumption DEF EventsCurrent
  <2> QED BY <1>0, <1>1, <1>2, <2>1, <2>2 DEF EventsCurrent
<1>5. ReadyIsSeen'
  <2> SUFFICES ASSUME NEW d \in Own \ {c}, Ready(d)'
               PROVE  d \in edge' \/ \E e \in batch' : e.who = d
    BY <1>1 DEF ReadyIsSeen
  <2>1. Ready(d)
    BY <1>1, <1>2 DEF Ready
  <2> QED BY <1>0, <1>1, <2>1 DEF ReadyIsSeen
<1>6. BacklogIsSeen'
  BY <1>1 DEF BacklogIsSeen, BacklogIsWatched
<1> QED BY <1>3, <1>4, <1>5, <1>6 DEF Wakeups, NoLostWakeup, ReadyIsSeen, BacklogIsSeen

\* handle_read and handle_write consume the event of a descriptor that stays open: its
\* file is then not watched, put back on the ready list, or not ready.
LEMMA StaysOpenWakeups ==
  ASSUME Bookkeeping, Wakeups, NEW e \in batch, e.fd \in Fds, file[e.fd] \in Own,
         batch' = batch \ {e}, UNCHANGED <<file, stage, peer, pc>>,
         watch[file[e.fd]] # "none",
         \A d \in Conns \ {file[e.fd]} :
           watch'[d] = watch[d] /\ inq'[d] = inq[d] /\ outq'[d] = outq[d],
         edge \ {file[e.fd]} \subseteq edge',
         \/ watch'[file[e.fd]] = "none"
         \/ watch'[file[e.fd]] = "out" /\ file[e.fd] \in edge'
         \/ watch'[file[e.fd]] = watch[file[e.fd]] /\ ~Ready(file[e.fd])',
         \A d \in batch' : d.fd # e.fd
  PROVE  Wakeups'
<1> DEFINE c == file[e.fd]
<1>0. /\ TypeOK /\ TableConsistent
      /\ WatchedIsOpen /\ EventsCurrent /\ ReadyIsSeen /\ BacklogIsSeen
  BY DEF Bookkeeping, Wakeups, NoLostWakeup, ReadyIsSeen, BacklogIsSeen
<1>1. WatchedIsOpen'
  BY <1>0 DEF WatchedIsOpen
<1>2. EventsCurrent'
  <2> SUFFICES ASSUME NEW d \in batch', d.fd \in Fds
               PROVE  \/ file[d.fd] = d.who /\ (d.out => watch'[d.who] = "out")
                      \/ file[d.fd] # d.who /\ watch'[d.who] = "none"
    BY <1>0 DEF EventsCurrent
  <2>1. d \in batch /\ d.who \in Conns /\ d.fd # e.fd
    BY <1>0 DEF TypeOK, Event, EventsCurrent
  <2>2. \/ file[d.fd] = d.who /\ (d.out => watch[d.who] = "out")
        \/ file[d.fd] # d.who /\ watch[d.who] = "none"
    BY <1>0, <2>1 DEF EventsCurrent
  <2>3. CASE d.who = c
    <3>1. file[d.fd] # d.who
      BY <1>0, <2>1, <2>3 DEF TableConsistent
    <3> QED BY <2>2, <2>3, <3>1
  <2>4. CASE d.who # c
    BY <2>1, <2>2, <2>4
  <2> QED BY <2>3, <2>4
<1>3. ReadyIsSeen'
  <2> SUFFICES ASSUME NEW d \in Own, Ready(d)'
               PROVE  d \in edge' \/ \E x \in batch' : x.who = d
    BY DEF ReadyIsSeen
  <2>1. CASE d = c
    BY <2>1 DEF Ready
  <2>2. CASE d # c
    <3>1. Ready(d)
      BY <2>2 DEF Ready
    <3>2. e.who # d
      BY <1>0, <2>2, <3>1 DEF EventsCurrent, Ready
    <3> QED BY <1>0, <2>2, <3>1, <3>2 DEF ReadyIsSeen
  <2> QED BY <2>1, <2>2
<1>4. BacklogIsSeen'
  <2>1. e.who # Listener
    BY <1>0 DEF EventsCurrent
  <2> QED BY <1>0, <2>1 DEF BacklogIsSeen, BacklogIsWatched, Queued
<1> QED BY <1>1, <1>2, <1>3, <1>4 DEF Wakeups, NoLostWakeup, ReadyIsSeen, BacklogIsSeen

\* The EOF path of handle_read takes the file out of epoll.
LEMMA ReadEofWakeups ==
  ASSUME Bookkeeping, Wakeups, NEW e \in batch, HandleReadEof(e)
  PROVE  Wakeups'
<1> DEFINE c == file[e.fd]
<1>1. /\ e.fd \in Fds /\ c \in Own /\ watch[c] = "in"
      /\ batch' = batch \ {e} /\ \A d \in batch' : d.fd # e.fd
  BY ReadEventOwner DEF HandleReadEof
<1>2. /\ watch' = [watch EXCEPT ![c] = "none"] /\ inq' = [inq EXCEPT ![c] = 0]
      /\ edge' = edge \ {c} /\ UNCHANGED <<file, stage, peer, outq, pc>>
  BY <1>1 DEF HandleReadEof, EpollDel
<1>3. /\ watch'[c] = "none"
      /\ \A d \in Conns \ {c} : watch'[d] = watch[d] /\ inq'[d] = inq[d] /\ outq'[d] = outq[d]
  BY <1>1, <1>2 DEF Bookkeeping, TypeOK
<1> QED BY <1>1, <1>2, <1>3, StaysOpenWakeups

\* EPOLL_CTL_MOD reports a file that can be written already, as EPOLL_CTL_ADD does.
LEMMA ReadReplyWakeups ==
  ASSUME Bookkeeping, Wakeups, NEW e \in batch, HandleReadReply(e)
  PROVE  Wakeups'
<1> DEFINE c == file[e.fd]
<1>1. /\ e.fd \in Fds /\ c \in Own /\ watch[c] = "in"
      /\ batch' = batch \ {e} /\ \A d \in batch' : d.fd # e.fd
  BY ReadEventOwner DEF HandleReadReply
<1>2. /\ watch' = [watch EXCEPT ![c] = "out"] /\ inq' = [inq EXCEPT ![c] = 0]
      /\ edge' = edge \cup {c} /\ UNCHANGED <<file, stage, peer, outq, pc>>
  BY <1>1 DEF HandleReadReply, EpollMod
<1>3. /\ watch'[c] = "out" /\ c \in edge'
      /\ \A d \in Conns \ {c} : watch'[d] = watch[d] /\ inq'[d] = inq[d] /\ outq'[d] = outq[d]
  BY <1>1, <1>2 DEF Bookkeeping, TypeOK
<1> QED BY <1>1, <1>2, <1>3, StaysOpenWakeups

\* A write that fills the send buffer leaves a file that is not ready: room in it will
\* raise the next event.
LEMMA WriteBlocksWakeups ==
  ASSUME Bookkeeping, Wakeups, NEW e \in batch, HandleWriteBlocks(e)
  PROVE  Wakeups'
<1> DEFINE c == file[e.fd]
<1>1. /\ e.fd \in Fds /\ write_buffers[e.fd] # None /\ batch' = batch \ {e}
      /\ outq' = [outq EXCEPT ![c] = SndBuf] /\ peer[c] # "reset"
      /\ UNCHANGED <<file, stage, peer, inq, watch, edge, pc>>
  BY DEF HandleWriteBlocks, WriteEvent, Dispatch
<1>2. c \in Own /\ watch[c] = "out"
  BY <1>1, OwnUnits
<1>3. \A d \in batch' : d.fd # e.fd
  BY <1>1 DEF Bookkeeping, BatchConsistent
<1>4. outq'[c] = SndBuf /\ \A d \in Conns \ {c} : outq'[d] = outq[d]
  BY <1>1, <1>2 DEF Bookkeeping, TypeOK
<1>5. ~Ready(c)'
  BY <1>1, <1>2, <1>4, BoundsAssumption DEF Ready
<1> QED BY <1>1, <1>2, <1>3, <1>4, <1>5, StaysOpenWakeups

\* The paths of handle_read and handle_write that close.
LEMMA CloseOneWakeups ==
  ASSUME Bookkeeping, Wakeups, NEW e \in batch,
         \/ HandleReadError(e) \/ HandleWriteError(e)
         \/ HandleWriteCompletes(e) \/ HandleWriteNothing(e)
  PROVE  Wakeups'
<1> DEFINE S == {e.fd}  D == {e}
<1> USE DEF HandleReadError, HandleWriteError, HandleWriteCompletes, HandleWriteNothing,
            ReadEvent, WriteEvent, Dispatch
<1>1. S \in SUBSET Fds /\ Close(S) /\ D \in SUBSET batch /\ batch' = batch \ D
  OBVIOUS
<1>2. peer' = peer /\ pc' = pc /\ \A x \in D : x.fd \in S
  OBVIOUS
<1>3. \A c \in Own : (\A f \in S : file[f] # c) => outq'[c] = outq[c]
  BY DEF Bookkeeping, TypeOK
<1> HIDE DEF S, D, HandleReadError, HandleWriteError, HandleWriteCompletes,
             HandleWriteNothing, ReadEvent, WriteEvent, Dispatch
<1> QED BY <1>1, <1>2, <1>3, CloseWakeups

-----------------------------------------------------------------------------
(* The theorem.                                                             *)

\* Nothing is watched before the first accept.
LEMMA InitWakeups == Init => Wakeups
  BY DEF Init, Wakeups, WatchedIsOpen, EventsCurrent, NoLostWakeup, BacklogIsWatched, Ready,
         Queued

\* Every step of run(), of the clients and of time keeps what is ready in sight.
LEMMA NextWakeups == Bookkeeping /\ Wakeups /\ [Next]_vars => Wakeups'
<1> SUFFICES ASSUME Bookkeeping, Wakeups, [Next]_vars PROVE Wakeups'
  OBVIOUS
<1>1. CASE EpollWait
  BY <1>1, EpollWaitWakeups
<1>2. CASE Sweep
  <2> DEFINE D == {}
  <2>1. /\ timed_out \in SUBSET Fds /\ Close(timed_out) /\ D \in SUBSET batch
        /\ batch' = batch \ D /\ peer' = peer /\ outq' = outq /\ pc # "accept"
    BY <1>2 DEF Sweep, timed_out
  <2> QED BY <2>1, CloseWakeups
<1>3. CASE Accept
  BY <1>3, AcceptOneWakeups, AcceptBordersWakeups DEF Accept
<1>4. ASSUME NEW e \in batch, StartAccept(e) PROVE Wakeups'
  BY <1>4, AcceptBordersWakeups
<1>5. ASSUME NEW e \in batch, HandleRead(e) PROVE Wakeups'
  <2>1. CASE HandleReadPanic(e)
    <3>1. {e.fd} \in SUBSET Fds /\ Die({e.fd})
      BY <2>1 DEF HandleReadPanic
    <3> QED BY <3>1, DieWakeups
  <2>2. ~HandleReadNoBuffer(e)
    BY SentinelAssumption, ReadEventOwner DEF HandleReadNoBuffer
  <2> QED BY <1>5, <2>1, <2>2, CloseOneWakeups, ReadEofWakeups, ReadReplyWakeups DEF HandleRead
<1>6. ASSUME NEW e \in batch, HandleWrite(e) PROVE Wakeups'
  BY <1>6, CloseOneWakeups, WriteBlocksWakeups DEF HandleWrite
<1>7. CASE Fault
  <2>1. Die({})
    BY <1>7 DEF Fault, EpollWaitFails, AcceptFails
  <2> QED BY <2>1, DieWakeups
<1>8. ASSUME NEW c \in Own, Client(c) PROVE Wakeups'
  BY <1>8, ClientWakeups
<1>9. CASE \/ \E fd \in Fds : Expire(fd)
           \/ UNCHANGED vars
  <2>1. UNCHANGED <<kernelVars, pc, batch>>
    BY <1>9 DEF Expire, vars
  <2> QED BY <2>1 DEF kernelVars, Wakeups, WatchedIsOpen, EventsCurrent, NoLostWakeup,
                      BacklogIsWatched, Ready, Queued
<1> QED BY <1>1, <1>2, <1>3, <1>4, <1>5, <1>6, <1>7, <1>8, <1>9 DEF Next, Loop

\* The wakeup part of the inductive invariant, with the bookkeeping it rests on.
LEMMA WakeupsInvariance == Spec => [](Bookkeeping /\ Wakeups)
<1>1. Init => Bookkeeping /\ Wakeups
  BY InitInv, InitWakeups
<1>2. Bookkeeping /\ Wakeups /\ [Next]_vars => (Bookkeeping /\ Wakeups)'
  BY NextInv, NextWakeups
<1> QED BY <1>1, <1>2, PTL DEF Spec

\* In every reachable state a connection with something to do, and while descriptors
\* last a backlog, is on epoll's ready list or in the batch at hand: edge-triggered
\* readiness and the drain loops of handle_read, handle_write and accept_connections
\* fit together.
THEOREM WakeupsAreKept == Spec => []NoLostWakeup
<1>1. Bookkeeping /\ Wakeups => NoLostWakeup
  BY DEF Wakeups
<1> QED BY <1>1, WakeupsInvariance, PTL

-----------------------------------------------------------------------------
(* Whole replies.                                                           *)

\* A serialised response carries its length in its first unit.
LEMMA OwnReplyIsWhole == ASSUME NEW c, NEW units, OwnReply(c, units), Len(units) \in Nat
                         PROVE  Whole(units)
<1>1. units = serialize_response(units[1].reply, Len(units)) /\ units # << >>
  BY DEF OwnReply
<1>2. Len(units) >= 1
  BY <1>1 DEF serialize_response
<1>3. serialize_response(units[1].reply, Len(units))[1].of = Len(units)
  BY <1>2 DEF serialize_response
<1> QED BY <1>1, <1>3 DEF Whole

\* Request::parse and the handlers yield one reply, serialised as a whole.
LEMMA SerializeIsOwn ==
  ASSUME NEW c, NEW r \in Reply, r.from \subseteq {c}, NEW n \in 1..MaxReply
  PROVE  serialize_response(r, n) # << >> /\ OwnReply(c, serialize_response(r, n))
<1> DEFINE units == serialize_response(r, n)
<1>1. n \in Nat /\ 1 \in 1..n
  BY BoundsAssumption
<1>2. units \in Seq(Unit)
  BY SerializeType
<1>3. DOMAIN units = 1..n /\ Len(units) = n /\ units[1] = [reply |-> r, at |-> 1, of |-> n]
  BY <1>1, <1>2 DEF serialize_response
<1>4. units # << >> /\ units[1].reply = r
  BY <1>1, <1>2, <1>3
<1> QED BY <1>3, <1>4 DEF OwnReply

\* After w, n units of data go out and the others are kept.
SplitsAt(w, data, n) ==
  /\ drain(data, n) \in Seq(Unit) \ {<< >>}
  /\ (w \o SubSeq(data, 1, n)) \o drain(data, n) = w \o data
  /\ Len(w \o SubSeq(data, 1, n)) = Len(w) + n
  /\ Len(w \o data) = Len(w) + Len(data)
  /\ SubSeq(w \o data, 1, Len(w) + n) = w \o SubSeq(data, 1, n)

\* data.drain(..n) and what was written before make up what there was.
LEMMA WrittenAndRest ==
  ASSUME NEW w \in Seq(Unit), NEW data \in Seq(Unit), NEW n \in Nat, n < Len(data)
  PROVE  SplitsAt(w, data, n)
<1> DEFINE out == SubSeq(data, 1, n)  rest == SubSeq(data, n + 1, Len(data))
<1>1. Len(data) \in Nat /\ Len(w) \in Nat
  OBVIOUS
<1>2. out \in Seq(Unit) /\ Len(out) = n
  BY <1>1
<1>3. rest \in Seq(Unit) /\ Len(rest) = Len(data) - n
  BY <1>1
<1>4. out \o rest = data
  <2>1. SubSeq(data, 1, n) \o SubSeq(data, n + 1, Len(data)) = SubSeq(data, 1, Len(data))
    <3>1. 1 \in 1 .. Len(data) + 1 /\ n \in 1 - 1 .. Len(data) /\ Len(data) \in n .. Len(data)
      BY <1>1
    <3> QED BY <3>1, ConcatAdjacentSubSeq, Zenon
  <2> QED BY <2>1, SubSeqFull
<1>5. rest # << >>
  <2> HIDE DEF rest
  <2> QED BY <1>1, <1>3
<1>6. drain(data, n) = rest
  BY DEF drain
<1> HIDE DEF out, rest
<1>7. (w \o out) \o rest = w \o data
  <2>1. w \in Seq(Unit) /\ out \in Seq(Unit) /\ rest \in Seq(Unit)
    BY <1>2, <1>3
  <2>2. (w \o out) \o rest = w \o (out \o rest)
    BY <2>1, ConcatAssociative, SMTT(30)
  <2> QED BY <2>2, <1>4
<1>8. Len(w \o out) = Len(w) + n /\ w \o out \in Seq(Unit)
  BY <1>1, <1>2, ConcatProperties
<1>9. Len(w \o data) = Len(w) + Len(data) /\ w \o data \in Seq(Unit)
  BY <1>1, ConcatProperties
<1>10. SubSeq((w \o out) \o rest, 1, Len(w) + n) = w \o out
  <2> DEFINE s == w \o out
  <2>1. s \in Seq(Unit) /\ Len(s) = Len(w) + n
    BY <1>8
  <2> HIDE DEF s
  <2>2. SubSeq(s \o rest, 1, Len(s)) = s
    BY <2>1, <1>3
  <2> QED BY <2>1, <2>2 DEF s
<1> QED BY <1>2, <1>3, <1>5, <1>6, <1>7, <1>8, <1>9, <1>10 DEF out, SplitsAt

-----------------------------------------------------------------------------
(* RepliesWhole is inductive, given the bookkeeping.                        *)

\* A step that writes nothing out and touches no write buffer but to drop it.
LEMMA RepliesKept ==
  ASSUME RepliesWhole, wire' = wire,
         \A c \in Own : stage'[c] \in {"new", "queued"} \/ watch'[c] = "in" =>
                       stage[c] \in {"new", "queued"} \/ watch[c] = "in",
         \A f \in Fds : write_buffers'[f] # None =>
                       write_buffers'[f] = write_buffers[f] /\ file'[f] = file[f]
  PROVE  RepliesWhole'
  BY DEF RepliesWhole

\* Descriptors are closed, nothing goes out, and their write buffers are dropped.
LEMMA CloseReplies ==
  ASSUME TypeOK, RepliesWhole, NEW S \in SUBSET Fds, Close(S), wire' = wire,
         \A f \in S : write_buffers'[f] = None,
         \A f \in Fds \ S : write_buffers'[f] = write_buffers[f]
  PROVE  RepliesWhole'
<1>1. \A f \in Fds : write_buffers'[f] # None =>
        write_buffers'[f] = write_buffers[f] /\ file'[f] = file[f]
  BY DEF Close
<1>2. \A c \in Own : stage'[c] \in {"new", "queued"} \/ watch'[c] = "in" =>
                    stage[c] \in {"new", "queued"} \/ watch[c] = "in"
  BY DEF Close
<1> QED BY <1>1, <1>2, RepliesKept

\* What the closing paths of handle_read and handle_write that write nothing have in
\* common.
LEMMA DropEffect ==
  ASSUME Bookkeeping, NEW e \in batch,
         HandleReadError(e) \/ HandleWriteError(e) \/ HandleWriteNothing(e)
  PROVE  /\ {e.fd} \in SUBSET Fds /\ Close({e.fd}) /\ wire' = wire
         /\ \A f \in {e.fd} : write_buffers'[f] = None
         /\ \A f \in Fds \ {e.fd} : write_buffers'[f] = write_buffers[f]
  BY DEF HandleReadError, HandleWriteError, HandleWriteNothing, ReadEvent, WriteEvent,
         Bookkeeping, TypeOK

\* The sweep does the same to the descriptors that are too old.
LEMMA SweepEffect ==
  ASSUME Sweep
  PROVE  /\ timed_out \in SUBSET Fds /\ Close(timed_out) /\ wire' = wire
         /\ \A f \in timed_out : write_buffers'[f] = None
         /\ \A f \in Fds \ timed_out : write_buffers'[f] = write_buffers[f]
  BY DEF Sweep, timed_out

\* Steps after which every descriptor, write buffer and connection is where it was.
LEMMA QuietEffect ==
  ASSUME Bookkeeping,
         \/ EpollWait \/ AcceptStops
         \/ \E e \in batch : StartAccept(e) \/ HandleReadEof(e)
         \/ \E c \in Own : SendSegment(c) \/ Receive(c) \/ \E how \in {"fin", "reset"} : Hangup(c, how)
         \/ \E fd \in Fds : Expire(fd)
         \/ UNCHANGED vars
  PROVE  /\ UNCHANGED <<file, stage, wire, write_buffers>>
         /\ \A c \in Own : watch'[c] = "in" => watch[c] = "in"
<1>1. CASE \E e \in batch : HandleReadEof(e)
  <2>1. PICK e \in batch : HandleReadEof(e)
    BY <1>1
  <2>2. e.fd \in Fds /\ file[e.fd] \in Own /\ watch[file[e.fd]] = "in"
    BY <2>1, ReadEventOwner DEF HandleReadEof
  <2>3. write_buffers[e.fd] = None
    BY <2>2 DEF Bookkeeping, BuffersFollowWatch
  <2>4. write_buffers' = write_buffers
    BY <2>1, <2>2, <2>3 DEF HandleReadEof, Bookkeeping, TypeOK
  <2>5. \A c \in Own : watch'[c] = "in" => watch[c] = "in"
    BY <2>1, <2>2 DEF HandleReadEof, EpollDel, Bookkeeping, TypeOK
  <2> QED BY <2>1, <2>4, <2>5 DEF HandleReadEof
<1>2. CASE ~\E e \in batch : HandleReadEof(e)
  BY <1>2 DEF EpollWait, AcceptStops, StartAccept, SendSegment, Receive, Hangup, Expire, vars,
              kernelVars, mapVars
<1> QED BY <1>1, <1>2

\* accept_connections takes a number with no write buffer, for a file with nothing out.
LEMMA AcceptOneEffect ==
  ASSUME Bookkeeping, NEW c \in Own, NEW fd \in Fds, AcceptOne(c, fd)
  PROVE  /\ UNCHANGED <<wire, write_buffers>> /\ write_buffers[fd] = None
         /\ stage[c] = "queued" /\ stage' = [stage EXCEPT ![c] = "open"]
         /\ \A f \in Fds \ {fd} : file'[f] = file[f]
         /\ \A d \in Own \ {c} : watch'[d] = watch[d]
         /\ file[fd] = None
  BY SentinelAssumption DEF AcceptOne, Bookkeeping, TypeOK, BuffersFollowWatch

\* handle_read decides on the reply of a connection that has none.
LEMMA ReadReplyEffect ==
  ASSUME Bookkeeping, RepliesWhole, NEW e \in batch, HandleReadReply(e)
  PROVE  /\ e.fd \in Fds /\ file[e.fd] \in Own /\ write_buffers[e.fd] = None
         /\ wire[file[e.fd]] = << >> /\ write_buffers'[e.fd] \in Seq(Unit) \ {<< >>}
         /\ OwnReply(file[e.fd], write_buffers'[e.fd])
         /\ \A f \in Fds \ {e.fd} : write_buffers'[f] = write_buffers[f]
         /\ \A d \in Own : watch'[d] = "in" => watch[d] = "in"
         /\ UNCHANGED <<file, stage, wire>>
<1> DEFINE c == file[e.fd]
           data == Drained(e.fd)
<1>1. /\ e.fd \in Fds /\ c \in Own /\ watch[c] = "in" /\ read_buffers[e.fd] \in Seq(Conns)
  BY ReadEventOwner DEF HandleReadReply
<1>2. data \in Seq(Conns) /\ Senders(data) \subseteq {c}
  <2>1. Senders(read_buffers[e.fd]) \subseteq {c}
    BY <1>1, SentinelAssumption DEF Bookkeeping, OwnBytesOnly
  <2>2. inq[c] \in Nat
    BY <1>1 DEF Bookkeeping, TypeOK
  <2> QED BY <1>1, <2>1, <2>2, DrainedType
<1>3. PICK kind \in {"too_large", "handled", "bad_request"}, n \in 1..MaxReply :
        LET reply == [kind |-> kind, from |-> Senders(data), segs |-> Len(data)] IN
        write_buffers' = [write_buffers EXCEPT ![e.fd] = serialize_response(reply, n)]
  BY DEF HandleReadReply
<1> DEFINE reply == [kind |-> kind, from |-> Senders(data), segs |-> Len(data)]
           units == serialize_response(reply, n)
<1>4. reply \in Reply /\ reply.from \subseteq {c}
  BY <1>1, <1>2 DEF Reply
<1>5. units \in Seq(Unit) /\ units # << >> /\ OwnReply(c, units)
  BY <1>4, SerializeIsOwn, SerializeType
<1>6. write_buffers' = [write_buffers EXCEPT ![e.fd] = units]
  BY <1>3
<1> HIDE DEF units, reply, data
<1>7. write_buffers'[e.fd] = units /\ \A f \in Fds \ {e.fd} : write_buffers'[f] = write_buffers[f]
  BY <1>1, <1>6 DEF Bookkeeping, TypeOK
<1>8. write_buffers[e.fd] = None
  BY <1>1 DEF Bookkeeping, BuffersFollowWatch
<1>9. wire[c] = << >>
  BY <1>1 DEF RepliesWhole
<1>10. watch' = [watch EXCEPT ![c] = "out"] /\ UNCHANGED <<file, stage, wire>>
  BY <1>1 DEF HandleReadReply, EpollMod
<1>11. \A d \in Own : watch'[d] = "in" => watch[d] = "in"
  BY <1>1, <1>10 DEF Bookkeeping, TypeOK
<1> QED BY <1>1, <1>5, <1>7, <1>8, <1>9, <1>10, <1>11

\* A partial write moves units of the owner's reply from the write buffer to the wire,
\* and leaves some.
LEMMA WriteBlocksEffect ==
  ASSUME Bookkeeping, NEW e \in batch, HandleWriteBlocks(e)
  PROVE  LET c == file[e.fd]  data == write_buffers[e.fd]  room == SndBuf - outq[c] IN
         /\ e.fd \in Fds /\ c \in Own /\ data \in Seq(Unit) /\ wire[c] \in Seq(Unit)
         /\ watch[c] = "out" /\ stage[c] = "open"
         /\ room \in Nat /\ room < Len(data)
         /\ wire'[c] = wire[c] \o SubSeq(data, 1, room)
         /\ wire' = [wire EXCEPT ![c] = wire'[c]]
         /\ write_buffers'[e.fd] = drain(data, room)
         /\ \A f \in Fds \ {e.fd} : write_buffers'[f] = write_buffers[f] /\ file[f] # c
         /\ UNCHANGED <<file, stage, watch>>
<1> DEFINE c == file[e.fd]  data == write_buffers[e.fd]  room == SndBuf - outq[c]
<1>1. /\ e.fd \in Fds /\ data # None /\ c # None /\ Len(data) > room
      /\ wire' = [wire EXCEPT ![c] = wire[c] \o SubSeq(data, 1, room)]
      /\ write_buffers' = [write_buffers EXCEPT ![e.fd] = drain(data, room)]
      /\ UNCHANGED <<file, stage, watch>>
  BY DEF HandleWriteBlocks, WriteEvent
<1>2. data \in Seq(Unit) /\ c \in Own /\ watch[c] = "out"
  BY <1>1, OwnUnits
<1>3. room \in Nat
  BY <1>2, BoundsAssumption DEF Bookkeeping, TypeOK
<1>4. wire \in [Conns -> Seq(Unit)] /\ wire[c] \in Seq(Unit) /\ stage[c] = "open"
  BY <1>1, <1>2 DEF Bookkeeping, TypeOK, TableConsistent
<1>5. \A f \in Fds \ {e.fd} : file[f] # c
  BY <1>1 DEF Bookkeeping, TableConsistent
<1> HIDE DEF c, data, room
<1>6. wire'[c] = wire[c] \o SubSeq(data, 1, room)
  BY <1>1, <1>2, <1>4
<1>7. /\ write_buffers'[e.fd] = drain(data, room)
      /\ \A f \in Fds \ {e.fd} : write_buffers'[f] = write_buffers[f]
  BY <1>1 DEF Bookkeeping, TypeOK
<1>8. room < Len(data)
  BY <1>1, <1>2, <1>3
<1> QED BY <1>1, <1>2, <1>3, <1>4, <1>5, <1>6, <1>7, <1>8 DEF c, data, room

\* The last write puts the rest of the owner's reply on the wire, and closes.
LEMMA WriteCompletesEffect ==
  ASSUME Bookkeeping, RepliesWhole, NEW e \in batch, HandleWriteCompletes(e)
  PROVE  LET c == file[e.fd]  data == write_buffers[e.fd] IN
         /\ e.fd \in Fds /\ c \in Own /\ wire[c] \in Seq(Unit)
         /\ data \in Seq(Unit) \ {<< >>} /\ data # None
         /\ wire'[c] = wire[c] \o data
         /\ wire' = [wire EXCEPT ![c] = wire'[c]]
         /\ OwnReply(c, wire'[c])
         /\ stage[c] = "open" /\ stage' = [stage EXCEPT ![c] = "closed"]
         /\ Close({e.fd}) /\ write_buffers'[e.fd] = None
         /\ \A f \in Fds \ {e.fd} : write_buffers'[f] = write_buffers[f] /\ file[f] # c
<1> DEFINE c == file[e.fd]  data == write_buffers[e.fd]
<1>1. /\ e.fd \in Fds /\ data # None /\ c # None
      /\ wire' = [wire EXCEPT ![c] = wire[c] \o data]
      /\ write_buffers' = [write_buffers EXCEPT ![e.fd] = None] /\ Close({e.fd})
  BY DEF HandleWriteCompletes, WriteEvent
<1>2. data \in Seq(Unit) /\ c \in Own
  BY <1>1, OwnUnits
<1>3. data # << >> /\ OwnReply(c, wire[c] \o data)
  BY <1>1 DEF RepliesWhole
<1>4. wire \in [Conns -> Seq(Unit)] /\ wire[c] \in Seq(Unit) /\ stage[c] = "open"
  BY <1>1, <1>2 DEF Bookkeeping, TypeOK, TableConsistent
<1>5. \A f \in Fds \ {e.fd} : file[f] # c
  BY <1>1 DEF Bookkeeping, TableConsistent
<1>6. stage' = [stage EXCEPT ![c] = "closed"]
  <2>1. \A d \in Conns : d \in {file[f] : f \in {e.fd}} <=> d = c
    OBVIOUS
  <2> QED BY <1>1, <2>1 DEF Close, Bookkeeping, TypeOK
<1> HIDE DEF c, data
<1>7. wire'[c] = wire[c] \o data
  BY <1>1, <1>2, <1>4
<1>8. /\ write_buffers'[e.fd] = None
      /\ \A f \in Fds \ {e.fd} : write_buffers'[f] = write_buffers[f]
  BY <1>1 DEF Bookkeeping, TypeOK
<1> QED BY <1>1, <1>2, <1>3, <1>4, <1>5, <1>6, <1>7, <1>8 DEF c, data

\* Both keep what is out and what waits together.
LEMMA WriteReplies ==
  ASSUME Bookkeeping, RepliesWhole, NEW e \in batch,
         HandleWriteBlocks(e) \/ HandleWriteCompletes(e)
  PROVE  RepliesWhole'
<1> DEFINE c == file[e.fd]  data == write_buffers[e.fd]  room == SndBuf - outq[c]
<1>0. wire \in [Conns -> Seq(Unit)] /\ TableConsistent
  BY DEF Bookkeeping, TypeOK
<1>1. CASE HandleWriteBlocks(e)
  <2>1. /\ e.fd \in Fds /\ c \in Own /\ data \in Seq(Unit) /\ wire[c] \in Seq(Unit)
        /\ watch[c] = "out" /\ stage[c] = "open"
        /\ room \in Nat /\ room < Len(data)
        /\ wire'[c] = wire[c] \o SubSeq(data, 1, room)
        /\ wire' = [wire EXCEPT ![c] = wire'[c]]
        /\ write_buffers'[e.fd] = drain(data, room)
        /\ \A f \in Fds \ {e.fd} : write_buffers'[f] = write_buffers[f] /\ file[f] # c
        /\ UNCHANGED <<file, stage, watch>>
    BY <1>1, WriteBlocksEffect
  <2>2. data # None
    BY <1>1 DEF HandleWriteBlocks
  <2>3. data # << >> /\ OwnReply(c, wire[c] \o data)
    BY <2>1, <2>2 DEF RepliesWhole
  <2> HIDE DEF c, data, room
  <2>4. /\ drain(data, room) \in Seq(Unit) \ {<< >>}
        /\ wire'[c] \o drain(data, room) = wire[c] \o data
    <3>1. wire[c] \in Seq(Unit) /\ data \in Seq(Unit) /\ room \in Nat /\ room < Len(data)
      BY <2>1
    <3>2. SplitsAt(wire[c], data, room)
      BY <3>1, WrittenAndRest
    <3> QED BY <2>1, <3>2 DEF SplitsAt
  <2>5. \A d \in Conns \ {c} : wire'[d] = wire[d]
    BY <2>1, <1>0
  <2>6. \A d \in Own : stage'[d] \in {"new", "queued"} \/ watch'[d] = "in" => wire'[d] = << >>
    BY <2>1, <2>5 DEF RepliesWhole
  <2>7. write_buffers'[e.fd] # << >> /\ OwnReply(c, wire'[c] \o write_buffers'[e.fd])
    BY <2>1, <2>3, <2>4
  <2>8. ASSUME NEW f \in Fds \ {e.fd}, write_buffers'[f] # None
        PROVE  write_buffers'[f] # << >> /\ OwnReply(file[f], wire'[file[f]] \o write_buffers'[f])
    <3>1. write_buffers'[f] = write_buffers[f] /\ file[f] \in Own /\ file[f] # c
      BY <2>1, <2>8, OwnUnits
    <3>2. wire'[file[f]] = wire[file[f]]
      BY <2>5, <3>1
    <3> QED BY <2>8, <3>1, <3>2 DEF RepliesWhole
  <2> QED BY <2>1, <2>6, <2>7, <2>8 DEF RepliesWhole, c
<1>2. CASE HandleWriteCompletes(e)
  <2>1. /\ e.fd \in Fds /\ c \in Own /\ Close({e.fd})
        /\ wire' = [wire EXCEPT ![c] = wire'[c]]
        /\ stage' = [stage EXCEPT ![c] = "closed"]
        /\ write_buffers'[e.fd] = None
        /\ \A f \in Fds \ {e.fd} : write_buffers'[f] = write_buffers[f] /\ file[f] # c
    BY <1>2, WriteCompletesEffect
  <2>2. /\ stage'[c] = "closed" /\ watch'[c] = "none"
        /\ \A d \in Conns \ {c} : /\ stage'[d] = stage[d] /\ watch'[d] = watch[d]
                                 /\ wire'[d] = wire[d]
    BY <2>1, <1>0 DEF Close, Bookkeeping, TypeOK
  <2>3. \A f \in Fds \ {e.fd} : file'[f] = file[f]
    BY <2>1 DEF Close
  <2> HIDE DEF c
  <2>4. \A d \in Own : stage'[d] \in {"new", "queued"} \/ watch'[d] = "in" => wire'[d] = << >>
    BY <2>2 DEF RepliesWhole
  <2>5. ASSUME NEW f \in Fds, write_buffers'[f] # None
        PROVE  write_buffers'[f] # << >> /\ OwnReply(file'[f], wire'[file'[f]] \o write_buffers'[f])
    <3>1. f # e.fd /\ write_buffers'[f] = write_buffers[f] /\ file'[f] = file[f]
      BY <2>1, <2>3, <2>5
    <3>2. file[f] \in Own /\ file[f] # c
      BY <2>1, <2>5, <3>1, OwnUnits
    <3>3. wire'[file[f]] = wire[file[f]]
      BY <2>2, <3>2
    <3> QED BY <2>5, <3>1, <3>3 DEF RepliesWhole
  <2> QED BY <2>4, <2>5 DEF RepliesWhole
<1> QED BY <1>1, <1>2

\* The maps are empty at first, and no byte is out.
LEMMA InitReplies == Init => RepliesWhole
  BY DEF Init, RepliesWhole

\* Every step of run(), of the clients and of time keeps replies whole.
LEMMA NextReplies == Bookkeeping /\ RepliesWhole /\ [Next]_vars => RepliesWhole'
<1> SUFFICES ASSUME Bookkeeping, RepliesWhole, [Next]_vars PROVE RepliesWhole'
  OBVIOUS
<1>0. TypeOK
  BY DEF Bookkeeping
<1>1. CASE \/ EpollWait \/ AcceptStops
           \/ \E e \in batch : StartAccept(e) \/ HandleReadEof(e)
           \/ \E c \in Own : \/ SendSegment(c) \/ Receive(c)
                            \/ \E how \in {"fin", "reset"} : Hangup(c, how)
           \/ \E fd \in Fds : Expire(fd)
           \/ UNCHANGED vars
  <2>1. /\ UNCHANGED <<file, stage, wire, write_buffers>>
        /\ \A c \in Own : watch'[c] = "in" => watch[c] = "in"
    BY <1>1, QuietEffect
  <2> QED BY <2>1, RepliesKept
<1>2. CASE Sweep
  BY <1>0, <1>2, SweepEffect, CloseReplies
<1>3. ASSUME NEW e \in batch,
             HandleReadError(e) \/ HandleWriteError(e) \/ HandleWriteNothing(e)
      PROVE  RepliesWhole'
  BY <1>0, <1>3, DropEffect, CloseReplies
<1>4. ASSUME NEW c \in Own, NEW fd \in Fds, AcceptOne(c, fd) PROVE RepliesWhole'
  <2>1. \A d \in Own : d # c => stage'[d] = stage[d] /\ watch'[d] = watch[d]
    BY <1>0, <1>4, AcceptOneEffect DEF TypeOK
  <2>2. \A f \in Fds : write_buffers'[f] # None =>
          write_buffers'[f] = write_buffers[f] /\ file'[f] = file[f]
    BY <1>4, AcceptOneEffect
  <2> QED BY <1>4, <2>1, <2>2, AcceptOneEffect, RepliesKept
<1>5. ASSUME NEW e \in batch, HandleReadReply(e) PROVE RepliesWhole'
  <2> DEFINE c == file[e.fd]  units == write_buffers'[e.fd]
  <2>1. /\ e.fd \in Fds /\ c \in Own /\ wire[c] = << >> /\ units \in Seq(Unit) \ {<< >>}
        /\ OwnReply(c, units)
        /\ \A f \in Fds \ {e.fd} : write_buffers'[f] = write_buffers[f]
        /\ \A d \in Own : watch'[d] = "in" => watch[d] = "in"
        /\ UNCHANGED <<file, stage, wire>>
    BY <1>5, ReadReplyEffect
  <2> HIDE DEF c, units
  <2>2. << >> \o units = units
    BY <2>1
  <2> QED BY <2>1, <2>2 DEF RepliesWhole, c, units
<1>6. ASSUME NEW e \in batch, HandleWriteBlocks(e) \/ HandleWriteCompletes(e)
      PROVE  RepliesWhole'
  BY <1>6, WriteReplies
<1>7. ASSUME NEW S \in SUBSET Fds, Die(S) PROVE RepliesWhole'
  <2>1. /\ wire' = wire /\ \A f \in Fds : write_buffers'[f] = None
        /\ \A c \in Own : watch'[c] = "none"
        /\ \A c \in Own : stage'[c] = stage[c] \/ stage'[c] = "closed"
    BY <1>7 DEF Die
  <2> QED BY <2>1 DEF RepliesWhole
<1>8. ASSUME NEW e \in batch, HandleReadPanic(e) PROVE RepliesWhole'
  BY <1>7, <1>8 DEF HandleReadPanic
<1>9. CASE Fault
  <2>1. Die({})
    BY <1>9 DEF Fault, EpollWaitFails, AcceptFails
  <2> QED BY <1>7, <2>1
<1>10. ASSUME NEW c \in Own, NEW r \in Requests, Connect(c, r) PROVE RepliesWhole'
  <2>1. /\ UNCHANGED <<file, wire, watch, write_buffers>>
        /\ \A d \in Own : stage'[d] = stage[d] \/ stage[d] = "new"
    BY <1>0, <1>10 DEF Connect, mapVars, TypeOK
  <2> QED BY <2>1, RepliesKept
<1>11. ASSUME NEW e \in batch PROVE ~HandleReadNoBuffer(e)
  BY SentinelAssumption, ReadEventOwner DEF HandleReadNoBuffer
<1> QED BY <1>1, <1>2, <1>3, <1>4, <1>5, <1>6, <1>8, <1>9, <1>10, <1>11
       DEF Next, Loop, Accept, HandleRead, HandleWrite, Client

\* The loop's whole inductive invariant but for the wakeups.
LEMMA RepliesInvariance == Spec => [](Bookkeeping /\ RepliesWhole)
<1>1. Init => Bookkeeping /\ RepliesWhole
  BY InitInv, InitReplies
<1>2. Bookkeeping /\ RepliesWhole /\ [Next]_vars => (Bookkeeping /\ RepliesWhole)'
  BY NextInv, NextReplies
<1> QED BY <1>1, <1>2, PTL DEF Spec

-----------------------------------------------------------------------------
(* Closing for a reason.                                                    *)

CloseReason(f) ==
  \/ Whole(wire'[file[f]])
  \/ peer[file[f]] = "reset"
  \/ connect_times[f] # None /\ connect_times[f].old
  \/ pc' = "dead"
  \/ \E e \in batch \ batch' : e.fd = f /\ e.who # file[f]

\* A step of handle_read or handle_write closes the descriptor of its event only.
LEMMA ClosedByEvent ==
  ASSUME NEW e \in batch, Close({e.fd}), NEW f \in Fds, file[f] # None, file'[f] = None
  PROVE  f = e.fd
  BY DEF Close

\* Each way in which run() closes a descriptor has one of the reasons.  That a writable
\* event of the owner finds its reply, so that handle_write does not close for want of
\* one, takes the invariants.
LEMMA StepCloses ==
  ASSUME Bookkeeping, Wakeups, RepliesWhole, [Next]_vars,
         NEW f \in Fds, file[f] \in Own, file'[f] = None
  PROVE  CloseReason(f)
<1>0. file[f] # None
  OBVIOUS
<1>1. CASE Sweep
  <2>1. f \in timed_out
    BY <1>0, <1>1 DEF Sweep, Close
  <2> QED BY <2>1 DEF timed_out, CloseReason
<1>2. ASSUME NEW e \in batch, HandleReadError(e) \/ HandleWriteError(e) PROVE CloseReason(f)
  <2>1. f = e.fd
    BY <1>0, <1>2, DropEffect, ClosedByEvent
  <2> QED BY <1>0, <1>2, <2>1 DEF HandleReadError, HandleWriteError, CloseReason
<1>3. ASSUME NEW e \in batch, HandleWriteNothing(e) PROVE CloseReason(f)
  <2>1. f = e.fd /\ write_buffers[f] = None /\ e.out /\ e \in batch \ batch'
    BY <1>0, <1>3, ClosedByEvent DEF HandleWriteNothing, WriteEvent, Dispatch
  <2>2. watch[file[f]] # "out"
    BY <2>1 DEF Bookkeeping, BuffersFollowWatch
  <2>3. e.who # file[f]
    BY <2>1, <2>2 DEF Wakeups, EventsCurrent
  <2> QED BY <2>1, <2>3 DEF CloseReason
<1>4. ASSUME NEW e \in batch, HandleWriteCompletes(e) PROVE CloseReason(f)
  <2>1. f = e.fd
    BY <1>0, <1>4, WriteCompletesEffect, ClosedByEvent
  <2>2. OwnReply(file[f], wire'[file[f]]) /\ wire'[file[f]] \in Seq(Unit)
    <3>1. OwnReply(file[f], wire'[file[f]])
      BY <1>4, <2>1, WriteCompletesEffect
    <3>2. wire' \in [Conns -> Seq(Unit)]
      BY NextInv DEF Bookkeeping, TypeOK
    <3> QED BY <3>1, <3>2
  <2>3. Whole(wire'[file[f]])
    BY <2>2, OwnReplyIsWhole
  <2> QED BY <2>3 DEF CloseReason
<1>5. ASSUME NEW S \in SUBSET Fds, Die(S) PROVE CloseReason(f)
  BY <1>5 DEF Die, CloseReason
<1>6. ASSUME NEW e \in batch, HandleReadPanic(e) PROVE CloseReason(f)
  BY <1>5, <1>6 DEF HandleReadPanic
<1>7. CASE Fault
  <2>1. Die({})
    BY <1>7 DEF Fault, EpollWaitFails, AcceptFails
  <2> QED BY <1>5, <2>1
<1>8. ~(UNCHANGED file)
  BY <1>0
<1>9. ASSUME NEW c \in Own, NEW fd \in Fds, AcceptOne(c, fd) PROVE FALSE
  BY <1>0, <1>9, AcceptOneEffect DEF Bookkeeping, TypeOK, AcceptOne
<1>10. ASSUME NEW e \in batch PROVE ~HandleReadReply(e) /\ ~HandleReadNoBuffer(e)
  BY <1>8 DEF HandleReadReply, HandleReadNoBuffer
<1>11. ASSUME NEW e \in batch PROVE ~StartAccept(e) /\ ~HandleReadEof(e) /\ ~HandleWriteBlocks(e)
  BY <1>8 DEF StartAccept, HandleReadEof, HandleWriteBlocks, kernelVars
<1>12. ~EpollWait /\ ~AcceptStops /\ ~UNCHANGED vars
  BY <1>8 DEF EpollWait, AcceptStops, vars, kernelVars
<1>13. ASSUME NEW c \in Own PROVE ~Client(c)
  BY <1>8 DEF Client, Connect, SendSegment, Receive, Hangup
<1>14. ASSUME NEW fd \in Fds PROVE ~Expire(fd)
  BY <1>8 DEF Expire, kernelVars
<1> QED BY <1>1, <1>2, <1>3, <1>4, <1>6, <1>7, <1>9, <1>10, <1>11, <1>12, <1>13, <1>14
       DEF Next, Loop, Accept, HandleRead, HandleWrite

\* run() closes a connection only when its reply is out, its client has aborted, its
\* time is over, the thread ends, or the event was for a former owner of the number.
THEOREM ClosingIsJustified == Spec => ClosesForAReason
<1>1. Bookkeeping /\ Wakeups /\ RepliesWhole /\ [Next]_vars =>
        [\A f \in Fds : file[f] \in Own /\ file'[f] = None => CloseReason(f)]_vars
  BY StepCloses
<1> QED BY <1>1, RepliesInvariance, WakeupsInvariance, PTL DEF Spec, ClosesForAReason, CloseReason

-----------------------------------------------------------------------------
(* The refinement of Exchange.                                              *)

\* The reply decided on is what is out and what waits in the owner's write buffer.
DecidedFacts ==
  /\ \A f \in Fds : write_buffers[f] # None =>
       Decided[file[f]] = wire[file[f]] \o write_buffers[f]
  /\ \A c \in Conns : (\A f \in Fds : file[f] = c => write_buffers[f] = None) =>
       Decided[c] = wire[c]

\* The descriptor is the only one of its file, so Waiting finds its write buffer.
LEMMA DecidedIs == Bookkeeping => DecidedFacts
<1> SUFFICES ASSUME Bookkeeping PROVE DecidedFacts
  OBVIOUS
<1>1. ASSUME NEW f \in Fds, write_buffers[f] # None
      PROVE  Decided[file[f]] = wire[file[f]] \o write_buffers[f]
  <2> DEFINE c == file[f]
             mine == {g \in Fds : file[g] = c /\ write_buffers[g] # None}
  <2>1. c \in Conns /\ c # None
    BY <1>1, OwnUnits
  <2>2. \A g \in Fds : file[g] = c => g = f
    BY <2>1 DEF Bookkeeping, TableConsistent
  <2>3. mine = {f}
    BY <1>1, <2>2
  <2>4. Waiting(c) = write_buffers[f]
    BY <2>3 DEF Waiting
  <2> QED BY <2>1, <2>4 DEF Decided
<1>2. ASSUME NEW c \in Conns, \A f \in Fds : file[f] = c => write_buffers[f] = None
      PROVE  Decided[c] = wire[c]
  <2>1. Waiting(c) = << >>
    <3>1. {f \in Fds : file[f] = c /\ write_buffers[f] # None} = {}
      BY <1>2
    <3> QED BY <3>1 DEF Waiting
  <2>2. wire[c] \in Seq(Unit)
    BY DEF Bookkeeping, TypeOK
  <2>3. wire[c] \o << >> = wire[c]
    BY <2>2
  <2> QED BY <2>1, <2>3 DEF Decided
<1> QED BY <1>1, <1>2 DEF DecidedFacts

\* The same of the state after a step of run().
LEMMA DecidedIsNext == (Bookkeeping => DecidedFacts)'
  BY DecidedIs, PTL

\* A connection whose units, descriptors and write buffers a step leaves alone has the
\* same reply decided on.
LEMMA DecidedKept ==
  ASSUME Bookkeeping, Bookkeeping', NEW c \in Conns, wire'[c] = wire[c],
         \A f \in Fds : file[f] = c /\ write_buffers[f] # None =>
           file'[f] = c /\ write_buffers'[f] = write_buffers[f],
         \A f \in Fds : file'[f] = c /\ write_buffers'[f] # None =>
           file[f] = c /\ write_buffers[f] # None
  PROVE  Decided'[c] = Decided[c]
<1>1. DecidedFacts /\ DecidedFacts'
  BY DecidedIs, DecidedIsNext
<1>2. CASE \E f \in Fds : file[f] = c /\ write_buffers[f] # None
  <2>1. PICK f \in Fds : file[f] = c /\ write_buffers[f] # None
    BY <1>2
  <2>2. file'[f] = c /\ write_buffers'[f] = write_buffers[f]
    BY <2>1
  <2>3. Decided[c] = wire[c] \o write_buffers[f]
    BY <1>1, <2>1 DEF DecidedFacts
  <2>4. Decided'[c] = wire'[c] \o write_buffers'[f]
    BY <1>1, <2>1, <2>2 DEF DecidedFacts
  <2> QED BY <2>2, <2>3, <2>4
<1>3. CASE ~\E f \in Fds : file[f] = c /\ write_buffers[f] # None
  BY <1>1, <1>3 DEF DecidedFacts
<1> QED BY <1>2, <1>3

\* Closing descriptors without writing gives up on their connections.
LEMMA CloseAbandons ==
  ASSUME Bookkeeping, Bookkeeping', NEW S \in SUBSET Fds, Close(S), wire' = wire,
         \A f \in S : write_buffers'[f] = None,
         \A f \in Fds \ S : write_buffers'[f] = write_buffers[f]
  PROVE  ClientView!Abandon
<1> DEFINE gone == {file[f] : f \in S}  G == gone \cap Conns
<1>1. \A c \in G : stage[c] \in {"queued", "open"}
  BY SentinelAssumption DEF Bookkeeping, TableConsistent, TypeOK
<1>2. stage' = [c \in Conns |-> IF c \in G THEN "closed" ELSE stage[c]]
  BY DEF Close
<1>3. \A f \in Fds : file'[f] = IF f \in S THEN None ELSE file[f]
  BY DEF Close
<1>4. \A c \in G : Decided'[c] = wire[c]
  <2> SUFFICES ASSUME NEW c \in G PROVE Decided'[c] = wire'[c]
    OBVIOUS
  <2>1. \A f \in Fds : file'[f] # c
    BY <1>3, SentinelAssumption DEF Bookkeeping, TableConsistent
  <2> QED BY <2>1, DecidedIsNext DEF DecidedFacts
<1>5. \A c \in Conns \ G : Decided'[c] = Decided[c]
  <2> SUFFICES ASSUME NEW c \in Conns \ G PROVE Decided'[c] = Decided[c]
    OBVIOUS
  <2>1. \A f \in Fds : file[f] = c => f \notin S
    OBVIOUS
  <2>2. \A f \in Fds : file'[f] = c => f \notin S /\ file[f] = c
    BY <1>3, SentinelAssumption
  <2> QED BY <1>3, <2>1, <2>2, DecidedKept
<1> HIDE DEF G
<1>6. Decided' = [c \in Conns |-> IF c \in G \cup {} THEN wire[c] ELSE Decided[c]]
  BY <1>4, <1>5 DEF Decided
<1>7. G \in SUBSET Conns
  BY DEF G
<1> QED BY <1>1, <1>2, <1>6, <1>7 DEF ClientView!Abandon

\* The end of the thread gives up on everything that waits, to be accepted or to go out.
LEMMA DieAbandons ==
  ASSUME Bookkeeping, Bookkeeping', NEW S \in SUBSET Fds, Die(S)
  PROVE  ClientView!Abandon
<1> DEFINE gone == {file[f] : f \in S} \cup Queued  G == gone \cap Conns
<1>1. \A c \in G : stage[c] \in {"queued", "open"}
  BY SentinelAssumption DEF Bookkeeping, TableConsistent, TypeOK, Queued
<1>2. stage' = [c \in Conns |-> IF c \in G THEN "closed" ELSE stage[c]]
  BY DEF Die
<1>3. wire' = wire /\ \A f \in Fds : write_buffers'[f] = None
  BY DEF Die
<1>4. \A c \in Conns : Decided'[c] = wire[c]
  BY <1>3, DecidedIsNext DEF DecidedFacts
<1> HIDE DEF G
<1>5. Decided' = [c \in Conns |-> IF c \in G \cup Conns THEN wire[c] ELSE Decided[c]]
  BY <1>4 DEF Decided
<1>6. G \in SUBSET Conns /\ Conns \in SUBSET Conns
  BY DEF G
<1> QED BY <1>1, <1>2, <1>3, <1>5, <1>6 DEF ClientView!Abandon

\* Decided changes at c only.
LEMMA DecidedExcept ==
  ASSUME NEW c \in Conns, \A d \in Conns \ {c} : Decided'[d] = Decided[d]
  PROVE  Decided' = [Decided EXCEPT ![c] = Decided'[c]]
  BY DEF Decided

\* The one reply of handle_read is the one decision about its connection.
LEMMA ReadReplyAnswers ==
  ASSUME Bookkeeping, Bookkeeping', RepliesWhole, NEW e \in batch, HandleReadReply(e)
  PROVE  \E c \in Conns : ClientView!Answer(c)
<1> DEFINE c == file[e.fd]  units == write_buffers'[e.fd]
<1>1. /\ e.fd \in Fds /\ c \in Own /\ write_buffers[e.fd] = None
      /\ wire[c] = << >> /\ units \in Seq(Unit) \ {<< >>} /\ OwnReply(c, units)
      /\ \A f \in Fds \ {e.fd} : write_buffers'[f] = write_buffers[f]
      /\ UNCHANGED <<file, stage, wire>>
  BY ReadReplyEffect
<1>2. /\ stage[c] = "open" /\ c # None /\ units # None
      /\ \A f \in Fds \ {e.fd} : file[f] # c
  BY <1>1, SentinelAssumption DEF Bookkeeping, TableConsistent
<1>3. Decided[c] = << >>
  BY <1>1, <1>2, DecidedIs DEF DecidedFacts
<1>4. Decided'[c] = units
  <2>1. DecidedFacts'
    BY DecidedIsNext
  <2>2. Decided'[c] = << >> \o units
    BY <1>1, <1>2, <2>1 DEF DecidedFacts
  <2> HIDE DEF units
  <2> QED BY <1>1, <2>2
<1>5. \A d \in Conns \ {c} : Decided'[d] = Decided[d]
  <2> SUFFICES ASSUME NEW d \in Conns \ {c} PROVE Decided'[d] = Decided[d]
    OBVIOUS
  <2>1. \A f \in Fds : file[f] = d => f # e.fd
    OBVIOUS
  <2> QED BY <1>1, <2>1, DecidedKept
<1> HIDE DEF c, units
<1>6. Decided' = [Decided EXCEPT ![c] = Decided'[c]]
  BY <1>1, <1>5, DecidedExcept
<1> QED BY <1>1, <1>2, <1>3, <1>4, <1>6 DEF ClientView!Answer

\* A partial write sends some more units, or none when the send buffer is full already.
LEMMA WriteBlocksWrites ==
  ASSUME Bookkeeping, Bookkeeping', NEW e \in batch, HandleWriteBlocks(e)
  PROVE  (\E c \in Conns : ClientView!Write(c)) \/ UNCHANGED <<stage, Decided, wire>>
<1> DEFINE c == file[e.fd]  data == write_buffers[e.fd]  room == SndBuf - outq[c]
           out == SubSeq(data, 1, room)
<1>1. /\ e.fd \in Fds /\ c \in Own /\ data \in Seq(Unit) /\ wire[c] \in Seq(Unit)
      /\ stage[c] = "open" /\ room \in Nat /\ room < Len(data)
      /\ wire'[c] = wire[c] \o out
      /\ wire' = [wire EXCEPT ![c] = wire'[c]]
      /\ write_buffers'[e.fd] = drain(data, room)
      /\ \A f \in Fds \ {e.fd} : write_buffers'[f] = write_buffers[f] /\ file[f] # c
      /\ UNCHANGED <<file, stage, watch>>
  BY WriteBlocksEffect
<1>2. data # None
  BY DEF HandleWriteBlocks
<1>3. SplitsAt(wire[c], data, room)
  <2> HIDE DEF c, data, room
  <2> QED BY <1>1, WrittenAndRest
<1>4. Decided[c] = wire[c] \o data
  BY <1>1, <1>2, DecidedIs DEF DecidedFacts
<1>5. Decided'[c] = Decided[c]
  <2>1. DecidedFacts'
    BY DecidedIsNext
  <2>2. write_buffers'[e.fd] # None
    <3>1. drain(data, room) \in Seq(Unit)
      BY <1>3 DEF SplitsAt
    <3>2. write_buffers'[e.fd] = drain(data, room)
      BY <1>1
    <3> HIDE DEF data, room
    <3> QED BY <3>1, <3>2, SentinelAssumption
  <2>3. Decided'[c] = wire'[c] \o write_buffers'[e.fd]
    BY <1>1, <2>1, <2>2 DEF DecidedFacts
  <2> HIDE DEF c, data, room
  <2> QED BY <1>1, <1>3, <1>4, <2>3 DEF SplitsAt
<1>6. wire \in [Conns -> Seq(Unit)]
  BY DEF Bookkeeping, TypeOK
<1>7. \A d \in Conns \ {c} : Decided'[d] = Decided[d]
  <2> SUFFICES ASSUME NEW d \in Conns \ {c} PROVE Decided'[d] = Decided[d]
    OBVIOUS
  <2>1. wire'[d] = wire[d]
    BY <1>1, <1>6
  <2>2. \A f \in Fds : file[f] = d => f # e.fd
    OBVIOUS
  <2> QED BY <1>1, <2>1, <2>2, DecidedKept
<1> HIDE DEF c, data, room, out
<1>8. Decided' = Decided
  BY <1>5, <1>7 DEF Decided
<1>9. CASE room = 0
  <2>1. out = << >>
    BY <1>1, <1>9 DEF out
  <2>2. wire'[c] = wire[c]
    BY <1>1, <2>1
  <2>3. wire' = wire
    BY <1>1, <1>6, <2>2
  <2> QED BY <1>1, <1>8, <2>3
<1>10. CASE room # 0
  <2> DEFINE n == Len(wire[c]) + room
  <2>1. n \in (Len(wire[c]) + 1)..(Len(Decided[c]) - 1)
    <3>1. Len(Decided[c]) = Len(wire[c]) + Len(data)
      BY <1>3, <1>4 DEF SplitsAt
    <3>2. Len(wire[c]) \in Nat /\ Len(data) \in Nat /\ room \in Nat \ {0} /\ room < Len(data)
      BY <1>1, <1>10
    <3> QED BY <3>1, <3>2
  <2>2. wire'[c] = SubSeq(Decided[c], 1, n)
    BY <1>1, <1>3, <1>4 DEF SplitsAt, out
  <2> HIDE DEF n
  <2>3. wire' = [wire EXCEPT ![c] = SubSeq(Decided[c], 1, n)]
    BY <1>1, <2>2
  <2> QED BY <1>1, <1>8, <2>1, <2>3 DEF ClientView!Write
<1> QED BY <1>9, <1>10

\* The last write sends the last units and closes.
LEMMA WriteCompletesFinishes ==
  ASSUME Bookkeeping, Bookkeeping', RepliesWhole, NEW e \in batch, HandleWriteCompletes(e)
  PROVE  \E c \in Conns : ClientView!Finish(c)
<1> DEFINE c == file[e.fd]  data == write_buffers[e.fd]
<1>1. /\ e.fd \in Fds /\ c \in Own /\ wire[c] \in Seq(Unit)
      /\ data \in Seq(Unit) \ {<< >>} /\ data # None
      /\ wire'[c] = wire[c] \o data
      /\ wire' = [wire EXCEPT ![c] = wire'[c]]
      /\ stage[c] = "open" /\ stage' = [stage EXCEPT ![c] = "closed"]
      /\ Close({e.fd}) /\ write_buffers'[e.fd] = None
      /\ \A f \in Fds \ {e.fd} : write_buffers'[f] = write_buffers[f] /\ file[f] # c
  BY WriteCompletesEffect
<1>2. Decided[c] = wire[c] \o data
  BY <1>1, DecidedIs DEF DecidedFacts
<1>3. \A f \in Fds : file'[f] = IF f = e.fd THEN None ELSE file[f]
  BY <1>1 DEF Close
<1>4. Decided'[c] = Decided[c]
  <2>1. \A f \in Fds : file'[f] # c
    BY <1>1, <1>3
  <2>2. Decided'[c] = wire'[c]
    BY <1>1, <2>1, DecidedIsNext DEF DecidedFacts
  <2> QED BY <1>1, <1>2, <2>2
<1>5. wire \in [Conns -> Seq(Unit)]
  BY DEF Bookkeeping, TypeOK
<1>6. \A d \in Conns \ {c} : Decided'[d] = Decided[d]
  <2> SUFFICES ASSUME NEW d \in Conns \ {c} PROVE Decided'[d] = Decided[d]
    OBVIOUS
  <2>1. wire'[d] = wire[d]
    BY <1>1, <1>5
  <2>2. \A f \in Fds : file[f] = d => f # e.fd
    OBVIOUS
  <2>3. \A f \in Fds : file'[f] = d => f # e.fd /\ file[f] = d
    BY <1>3, SentinelAssumption
  <2> QED BY <1>1, <1>3, <2>1, <2>2, <2>3, DecidedKept
<1> HIDE DEF c, data
<1>7. Decided' = Decided
  BY <1>4, <1>6 DEF Decided
<1>8. Len(wire[c]) < Len(Decided[c])
  <2>1. Len(data) \in Nat /\ Len(data) # 0 /\ Len(wire[c]) \in Nat
    BY <1>1
  <2>2. Len(wire[c] \o data) = Len(wire[c]) + Len(data)
    BY <1>1, ConcatProperties
  <2> QED BY <1>2, <2>1, <2>2
<1>9. wire' = [wire EXCEPT ![c] = Decided[c]]
  BY <1>1, <1>2
<1> QED BY <1>1, <1>7, <1>8, <1>9 DEF ClientView!Finish

\* Seen by the clients, every step of run() is one of Exchange, or none.
LEMMA StepRefines ==
  Bookkeeping /\ Bookkeeping' /\ RepliesWhole /\ [Next]_vars
    => [ClientView!Next]_<<stage, Decided, wire>>
<1> SUFFICES ASSUME Bookkeeping, Bookkeeping', RepliesWhole, [Next]_vars
             PROVE  ClientView!Next \/ UNCHANGED <<stage, Decided, wire>>
  OBVIOUS
<1>0. TypeOK
  BY DEF Bookkeeping
<1>1. CASE \/ EpollWait \/ AcceptStops
           \/ \E e \in batch : StartAccept(e) \/ HandleReadEof(e)
           \/ \E c \in Own : \/ SendSegment(c) \/ Receive(c)
                            \/ \E how \in {"fin", "reset"} : Hangup(c, how)
           \/ \E fd \in Fds : Expire(fd)
           \/ UNCHANGED vars
  <2>1. UNCHANGED <<file, stage, wire, write_buffers>>
    BY <1>1, QuietEffect
  <2> QED BY <2>1 DEF Decided, Waiting
<1>2. CASE Sweep
  BY <1>2, SweepEffect, CloseAbandons DEF ClientView!Next
<1>3. ASSUME NEW e \in batch,
             HandleReadError(e) \/ HandleWriteError(e) \/ HandleWriteNothing(e)
      PROVE  ClientView!Next
  <2> DEFINE S == {e.fd}
  <2>1. /\ S \in SUBSET Fds /\ Close(S) /\ wire' = wire
        /\ \A f \in S : write_buffers'[f] = None
        /\ \A f \in Fds \ S : write_buffers'[f] = write_buffers[f]
    BY <1>3, DropEffect
  <2> HIDE DEF S
  <2> QED BY <2>1, CloseAbandons DEF ClientView!Next
<1>4. ASSUME NEW c \in Own, NEW fd \in Fds, AcceptOne(c, fd) PROVE ClientView!Next
  <2>1. /\ UNCHANGED <<wire, write_buffers>> /\ write_buffers[fd] = None
        /\ stage[c] = "queued" /\ stage' = [stage EXCEPT ![c] = "open"]
        /\ \A f \in Fds \ {fd} : file'[f] = file[f]
    BY <1>4, AcceptOneEffect
  <2>2. \A d \in Conns : Decided'[d] = Decided[d]
    BY <2>1, DecidedKept
  <2>3. Decided' = Decided
    BY <2>2 DEF Decided
  <2> QED BY <2>1, <2>3 DEF ClientView!Admit, ClientView!Next
<1>5. ASSUME NEW e \in batch, HandleReadReply(e) PROVE ClientView!Next
  BY <1>5, ReadReplyAnswers DEF ClientView!Next
<1>6. ASSUME NEW e \in batch, HandleWriteBlocks(e)
      PROVE  ClientView!Next \/ UNCHANGED <<stage, Decided, wire>>
  BY <1>6, WriteBlocksWrites DEF ClientView!Next
<1>7. ASSUME NEW e \in batch, HandleWriteCompletes(e) PROVE ClientView!Next
  BY <1>7, WriteCompletesFinishes DEF ClientView!Next
<1>8. ASSUME NEW S \in SUBSET Fds, Die(S) PROVE ClientView!Next
  BY <1>8, DieAbandons DEF ClientView!Next
<1>9. ASSUME NEW e \in batch, HandleReadPanic(e) PROVE ClientView!Next
  BY <1>8, <1>9 DEF HandleReadPanic
<1>10. CASE Fault
  <2>1. Die({})
    BY <1>10 DEF Fault, EpollWaitFails, AcceptFails
  <2> QED BY <1>8, <2>1
<1>11. ASSUME NEW c \in Own, NEW r \in Requests, Connect(c, r) PROVE ClientView!Next
  <2>1. /\ UNCHANGED <<file, wire, write_buffers>>
        /\ stage[c] = "new" /\ stage' = [stage EXCEPT ![c] = "queued"]
    BY <1>11 DEF Connect, mapVars
  <2>2. Decided' = Decided
    BY <2>1 DEF Decided, Waiting
  <2> QED BY <2>1, <2>2 DEF ClientView!Arrive, ClientView!Next
<1>12. ASSUME NEW e \in batch PROVE ~HandleReadNoBuffer(e)
  BY SentinelAssumption, ReadEventOwner DEF HandleReadNoBuffer
<1> QED BY <1>1, <1>2, <1>3, <1>4, <1>5, <1>6, <1>7, <1>9, <1>10, <1>11, <1>12
       DEF Next, Loop, Accept, HandleRead, HandleWrite, Client

\* To its clients run() is Exchange: a connection gets at most one reply, computed from
\* its own bytes alone, whose units go out in order and once each, whatever the
\* interleaving, the partial writes, the reuse of descriptors and the faults.
THEOREM LoopImplementsExchange == Spec => ImplementsExchange
<1>1. Init => ClientView!Init
  <2> SUFFICES ASSUME Init PROVE ClientView!Init
    OBVIOUS
  <2>1. \A c \in Conns : Decided[c] = << >>
    BY InitInv, DecidedIs DEF DecidedFacts, Init
  <2> QED BY <2>1 DEF Init, Decided, ClientView!Init
<1>2. Bookkeeping /\ Bookkeeping' /\ RepliesWhole /\ [Next]_vars
        => [ClientView!Next]_(ClientView!vars)
  BY StepRefines DEF ClientView!vars
<1> QED BY <1>1, <1>2, RepliesInvariance, PTL DEF Spec, ImplementsExchange, ClientView!Spec

\* All that run() relies on, in every reachable state.
THEOREM FullInvariance == Spec => []IndInv
<1>1. Bookkeeping /\ Wakeups /\ RepliesWhole => IndInv
  BY DEF IndInv
<1> QED BY <1>1, RepliesInvariance, WakeupsInvariance, PTL
=============================================================================
