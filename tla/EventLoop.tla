------------------------------ MODULE EventLoop ------------------------------
(****************************************************************************)
(* One thread of the server: the epoll loop of src/src/server.rs together   *)
(* with the edge-triggered readiness of src/src/epoll.rs, for one           *)
(* host:port group, and the clients that connect to it.                     *)
(*                                                                          *)
(* The loop identifies everything by descriptor number, and the kernel      *)
(* reuses the numbers; the model therefore keeps open files (Conns) and     *)
(* descriptor numbers (Fds) apart.  Sizes are counted in segments for       *)
(* requests and in units for replies.                                       *)
(****************************************************************************)
EXTENDS Integers, Sequences, FiniteSets

CONSTANTS
  Conns,         \* the connections clients may open
  Own,           \* those of them that go to this loop's listener
  Fds,           \* descriptor numbers left to the process (RLIMIT_NOFILE)
  Requests,      \* what a client may send: [head, total, limit, form]
  DefaultLimit,  \* client_max_body_size of configs[0]
  MaxReply,      \* bound: units of a serialised response
  SndBuf,        \* units a socket's send buffer holds
  MaxEvents,     \* MAX_EVENTS
  Faults,        \* system calls that may fail: "epoll_wait", "epoll_ctl"
  Listeners,     \* the listening sockets of the process
  Listener,      \* this loop's
  None

\* head: segments until the blank line; total: segments of the whole request,
\* as Content-Length or the last chunk says; limit: client_max_body_size of the
\* configuration match_config finds for its Host header.
ASSUME RequestsAssumption ==
  Requests \subseteq [head  : Nat \ {0}, total : Nat \ {0}, limit : Nat,
                      form : {"plain", "chunked", "garbage"}]
ASSUME OwnAssumption == Own \subseteq Conns
ASSUME BoundsAssumption ==
  /\ DefaultLimit \in Nat
  /\ MaxReply \in Nat \ {0}
  /\ SndBuf \in Nat \ {0}
  /\ MaxEvents \in Nat \ {0}
VARIABLES
  file,          \* process descriptor table: what each number refers to
  stage,         \* a connection's life: "new", "queued", "open", "closed"
  peer,          \* what the client has done: "open", "fin", "reset"
  req,           \* the request it sends
  sent,          \* segments of it sent
  inq,           \* segments of it not yet read by the server
  outq,          \* units of the reply in the socket's send buffer
  wire,          \* history: units the server has put on the connection
  watch,         \* epoll interest: "none", "in", "out"
  edge,          \* epoll's list of files that became ready
  pc,            \* where the loop is: "events", "sweep", "accept", "dead"
  batch,         \* the events the current pass has still to handle
  read_buffers, write_buffers, connect_times

kernelVars == <<file, stage, peer, req, sent, inq, outq, wire, watch, edge>>
mapVars    == <<read_buffers, write_buffers, connect_times>>
vars       == <<kernelVars, pc, batch, mapVars>>

-----------------------------------------------------------------------------
(* Replies and their serialisation.  A reply remembers whose segments it    *)
(* was computed from and how many there were.                               *)

Reply == [kind : {"bad_request", "too_large", "handled"},
          from : SUBSET Conns, segs : Nat]
Unit  == [reply : Reply, at : 1..MaxReply, of : 1..MaxReply]

Stamp == [conn : Conns, old : BOOLEAN]  \* an Instant, by whose accept it is

ASSUME SentinelAssumption ==
  /\ Listener \in Listeners /\ Listeners \cap (Fds \cup Conns \cup {None}) = {}
  /\ None \notin Conns \cup Requests \cup Stamp
  /\ None \notin Seq(Conns) /\ None \notin Seq(Unit)

serialize_response_OffByOne(r, n) ==
  [i \in 1..n |-> [reply |-> r, at |-> i + 1, of |-> n]]
serialize_response(r, n) == [i \in 1..n |-> [reply |-> r, at |-> i, of |-> n]]

Senders(data) == {data[i] : i \in DOMAIN data}

\* The outcomes of Request::parse on the bytes received so far.  A chunked body
\* that is cut short is rejected, makes data[pos..] panic when the cut falls in
\* the line end that follows a chunk, or is taken when no more is missing than the
\* last line end, which is not looked for.  Content-Length is not consulted.
Parse(data) ==
  LET r == req[data[1]] IN
  IF data = << >> \/ Len(data) < r.head \/ r.form = "garbage" THEN {"none"}
  ELSE IF r.form = "chunked" /\ Len(data) < r.total THEN {"none", "panic", "some"}
  ELSE {"some"}

\* The limit that applies: of the configuration the parsed request selects.
match_config(data, outcome) ==
  IF outcome = "some" THEN req[data[1]].limit ELSE DefaultLimit

-----------------------------------------------------------------------------
(* The kernel's side: readiness, closing, and the end of the thread.        *)

Queued == {c \in Own : stage[c] = "queued"}

Ready(c) ==
  \/ watch[c] = "in"  /\ (inq[c] > 0 \/ peer[c] # "open")
  \/ watch[c] = "out" /\ (outq[c] < SndBuf \/ peer[c] = "reset")

\* close(fd): the file leaves the descriptor table and every epoll set.
Close(S) ==
  LET gone == {file[f] : f \in S} IN
  /\ file'  = [f \in Fds |-> IF f \in S THEN None ELSE file[f]]
  /\ stage' = [c \in Conns |-> IF c \in gone THEN "closed" ELSE stage[c]]
  /\ watch' = [c \in Conns |-> IF c \in gone THEN "none" ELSE watch[c]]
  /\ inq'   = [c \in Conns |-> IF c \in gone THEN 0 ELSE inq[c]]
  /\ edge'  = edge \ gone

\* run() returns or unwinds: the listener, the epoll instance and the three
\* maps are dropped, the descriptors in S are closed, every other one stays
\* open because its TcpStream was forgotten.  Other loops have epolls of their own.
Die(S) ==
  LET gone == {file[f] : f \in S} \cup Queued IN
  /\ pc' = "dead"
  /\ batch' = {}
  /\ file'  = [f \in Fds |-> IF f \in S THEN None ELSE file[f]]
  /\ stage' = [c \in Conns |-> IF c \in gone THEN "closed" ELSE stage[c]]
  /\ watch' = [c \in Conns |-> IF c \in Own \cup gone THEN "none" ELSE watch[c]]
  /\ edge'  = edge \ (Own \cup gone \cup {Listener})
  /\ read_buffers'  = [f \in Fds |-> None]
  /\ write_buffers' = [f \in Fds |-> None]
  /\ connect_times' = [f \in Fds |-> None]
  /\ UNCHANGED <<peer, req, sent, inq, outq, wire>>

-----------------------------------------------------------------------------
(* Clients and time.                                                        *)

Connect(c, r) ==
  /\ pc # "dead" /\ stage[c] = "new"
  /\ stage' = [stage EXCEPT ![c] = "queued"]
  /\ req'   = [req EXCEPT ![c] = r]
  /\ edge'  = edge \cup {Listener}
  /\ UNCHANGED <<file, peer, sent, inq, outq, wire, watch, pc, batch, mapVars>>

SendSegment(c) ==
  /\ stage[c] \in {"queued", "open"} /\ peer[c] = "open"
  /\ sent[c] < req[c].total
  /\ sent' = [sent EXCEPT ![c] = @ + 1]
  /\ inq'  = [inq EXCEPT ![c] = @ + 1]
  /\ edge' = IF watch[c] = "in" THEN edge \cup {c} ELSE edge
  /\ UNCHANGED <<file, stage, peer, req, outq, wire, watch, pc, batch, mapVars>>

\* shutdown(SHUT_WR) or close by the client, and an abort: both wake any watcher.
Hangup(c, how) ==
  /\ stage[c] \in {"queued", "open"}
  /\ peer[c] = "open" \/ (peer[c] = "fin" /\ how = "reset")
  /\ peer' = [peer EXCEPT ![c] = how]
  /\ edge' = IF watch[c] # "none" THEN edge \cup {c} ELSE edge
  /\ UNCHANGED <<file, stage, req, sent, inq, outq, wire, watch, pc, batch, mapVars>>

\* The client reads what has arrived; a full send buffer has room again.
Receive(c) ==
  /\ stage[c] = "open" /\ peer[c] # "reset" /\ outq[c] > 0
  /\ outq' = [outq EXCEPT ![c] = 0]
  /\ edge' = IF watch[c] = "out" /\ outq[c] = SndBuf THEN edge \cup {c} ELSE edge
  /\ UNCHANGED <<file, stage, peer, req, sent, inq, wire, watch, pc, batch, mapVars>>

\* More than TIMEOUT_SECS have passed since the time stored for fd.
Expire(fd) ==
  /\ connect_times[fd] # None /\ ~connect_times[fd].old
  /\ connect_times' = [connect_times EXCEPT ![fd].old = TRUE]
  /\ UNCHANGED <<kernelVars, pc, batch, read_buffers, write_buffers>>

-----------------------------------------------------------------------------
(* The loop: wait, sweep, then one event after the other.                   *)

\* epoll_wait hands out at most MaxEvents files that are on the ready list and
\* still ready; it runs out after a second, so the batch may be empty.  An event
\* carries the descriptor number; `who' is the file it was raised for.
EpollWait ==
  LET ready == {f \in Fds : file[f] \in Own \cap edge /\ Ready(file[f])}
               \cup {l \in {Listener} : l \in edge /\ Queued # {}}
      File(f) == IF f = Listener THEN Listener ELSE file[f]
  IN
  /\ pc = "events" /\ batch = {}
  /\ \E B \in SUBSET ready :
       /\ B = ready \/ Cardinality(B) = MaxEvents
       /\ Cardinality(B) <= MaxEvents
       /\ batch' = {[fd |-> f, who |-> File(f),
                     out |-> f # Listener /\ watch[File(f)] = "out"] : f \in B}
       /\ edge' = (edge \ (Own \cup {Listener})) \cup {File(f) : f \in ready \ B}
  /\ pc' = "sweep"
  /\ UNCHANGED <<file, stage, peer, req, sent, inq, outq, wire, watch, mapVars>>

\* epoll_wait fails, with EINTR for one, and the ? of run() ends the thread.
EpollWaitFails ==
  /\ "epoll_wait" \in Faults
  /\ pc = "events" /\ batch = {}
  /\ Die({})

timed_out_MissingIsOld == {f \in Fds : connect_times[f] = None \/ connect_times[f].old}
timed_out_AnyAge == {f \in Fds : connect_times[f] # None}
timed_out == {f \in Fds : connect_times[f] # None /\ connect_times[f].old}

\* The descriptors that are too old leave the three maps and are closed.
Sweep ==
  LET Swept(map) == [f \in Fds |-> IF f \in timed_out THEN None ELSE map[f]] IN
  /\ pc = "sweep"
  /\ Close(timed_out)
  /\ read_buffers'  = Swept(read_buffers)
  /\ write_buffers' = Swept(write_buffers)
  /\ connect_times' = Swept(connect_times)
  /\ pc' = "events"
  /\ UNCHANGED <<peer, req, sent, outq, wire, batch>>

Dispatch(e) == pc = "events" /\ e \in batch /\ batch' = batch \ {e}

-----------------------------------------------------------------------------
(* accept_connections: one step per accept.                                 *)

StartAccept(e) ==
  /\ Dispatch(e) /\ e.fd = Listener
  /\ pc' = "accept"
  /\ UNCHANGED <<kernelVars, mapVars>>

\* What the accept stores under fd: HashMap::insert, over what may be there.
NewBuffer_Missing(fd) == read_buffers[fd]
NewBuffer_OrDefault(fd) == IF read_buffers[fd] = None THEN << >> ELSE read_buffers[fd]
NewBuffer(fd) == << >>

NewStamp_Missing(fd, c) == connect_times[fd]
NewStamp_OrInsert(fd, c) ==
  IF connect_times[fd] = None THEN [conn |-> c, old |-> FALSE] ELSE connect_times[fd]
NewStamp(fd, c) == [conn |-> c, old |-> FALSE]

AcceptOne(c, fd) ==
  /\ pc = "accept" /\ c \in Own /\ stage[c] = "queued" /\ file[fd] = None
  /\ file'  = [file EXCEPT ![fd] = c]
  /\ stage' = [stage EXCEPT ![c] = "open"]
  /\ watch' = [watch EXCEPT ![c] = "in"]
  /\ edge'  = edge \cup {c}
  /\ read_buffers'  = [read_buffers EXCEPT ![fd] = NewBuffer(fd)]
  /\ connect_times' = [connect_times EXCEPT ![fd] = NewStamp(fd, c)]
  /\ UNCHANGED <<peer, req, sent, inq, outq, wire, pc, batch, write_buffers>>

AcceptStops_AfterOne ==
  /\ pc = "accept" /\ pc' = "events" /\ UNCHANGED <<kernelVars, batch, mapVars>>

\* accept returns EAGAIN, or an error such as EMFILE: both end the accept loop.
AcceptStops ==
  /\ pc = "accept"
  /\ Queued = {} \/ \A fd \in Fds : file[fd] # None
  /\ pc' = "events"
  /\ UNCHANGED <<kernelVars, batch, mapVars>>

\* set_nonblocking or epoll.add fails: the new stream is dropped, and the two ?
\* on the way end the thread.
AcceptFails ==
  /\ "epoll_ctl" \in Faults
  /\ pc = "accept" /\ Queued # {} /\ \E fd \in Fds : file[fd] = None
  /\ Die({})

-----------------------------------------------------------------------------
(* handle_read, by the way its drain loop ends.                             *)

ReadEvent(e) == Dispatch(e) /\ e.fd \in Fds /\ ~e.out

\* ECONNRESET, or EBADF when the sweep has closed the descriptor.  The entry of
\* connect_times stays.
HandleReadError(e) ==
  /\ ReadEvent(e)
  /\ IF file[e.fd] = None THEN TRUE ELSE peer[file[e.fd]] = "reset"
  /\ Close({e.fd})
  /\ read_buffers'  = [read_buffers EXCEPT ![e.fd] = None]
  /\ write_buffers' = [write_buffers EXCEPT ![e.fd] = None]
  /\ UNCHANGED <<peer, req, sent, outq, wire, pc, connect_times>>

\* EPOLL_CTL_MOD and EPOLL_CTL_DEL, whose failures are ignored: they reach only
\* files that are in this loop's epoll.
EpollMod(c) ==
  /\ watch' = [watch EXCEPT ![c] = IF c \in Own THEN "out" ELSE @]
  /\ edge'  = IF c \in Own THEN edge \cup {c} ELSE edge
EpollDel(c) ==
  /\ watch' = [watch EXCEPT ![c] = IF c \in Own THEN "none" ELSE @]
  /\ edge'  = IF c \in Own THEN edge \ {c} ELSE edge

\* Ok(0), after a FIN and even if an abort came later: what was received is
\* dropped and the file leaves epoll.  The descriptor is not closed.
HandleReadEof(e) ==
  LET c == file[e.fd] IN
  /\ ReadEvent(e) /\ c # None /\ peer[c] # "open"
  /\ EpollDel(c)
  /\ inq'   = [inq EXCEPT ![c] = 0]
  /\ read_buffers'  = [read_buffers EXCEPT ![e.fd] = None]
  /\ write_buffers' = [write_buffers EXCEPT ![e.fd] = None]
  /\ UNCHANGED <<file, stage, peer, req, sent, outq, wire, pc, connect_times>>

\* What the drain loop leaves in the read buffer of fd.
Drained(fd) == read_buffers[fd] \o [i \in 1..inq[file[fd]] |-> file[fd]]

\* EAGAIN: the buffer holds all that has arrived, and whatever it is gets its
\* one reply.  The 413 path leaves the read buffer behind.
HandleReadReply(e) ==
  LET c == file[e.fd]  data == Drained(e.fd) IN
  /\ ReadEvent(e) /\ c # None /\ peer[c] = "open" /\ read_buffers[e.fd] # None
  /\ inq' = [inq EXCEPT ![c] = 0]
  /\ \E outcome \in Parse(data) \ {"panic"}, n \in 1..MaxReply :
       LET tooLarge == Len(data) > match_config(data, outcome)
           kind == IF tooLarge THEN "too_large"
                   ELSE IF outcome = "some" THEN "handled" ELSE "bad_request"
           reply == [kind |-> kind, from |-> Senders(data), segs |-> Len(data)]
       IN
       /\ write_buffers' =
            [write_buffers EXCEPT ![e.fd] = serialize_response(reply, n)]
       /\ read_buffers' =
            [read_buffers EXCEPT ![e.fd] = IF tooLarge THEN data ELSE None]
  /\ EpollMod(c)
  /\ UNCHANGED <<file, stage, peer, req, sent, outq, wire, pc, connect_times>>

\* There is no buffer to drain into: what was read is lost, and no reply is made.
\* A loop that has its descriptor numbers to itself never gets here.
HandleReadNoBuffer(e) ==
  LET c == file[e.fd] IN
  /\ ReadEvent(e) /\ c # None /\ peer[c] = "open" /\ read_buffers[e.fd] = None
  /\ inq' = [inq EXCEPT ![c] = 0]
  /\ UNCHANGED <<file, stage, peer, req, sent, outq, wire, watch, edge, pc, mapVars>>

\* Request::parse panics; unwinding drops the TcpStream, which closes fd.
HandleReadPanic(e) ==
  LET c == file[e.fd] IN
  /\ pc = "events" /\ e \in batch /\ e.fd \in Fds /\ ~e.out
  /\ c # None /\ peer[c] = "open" /\ read_buffers[e.fd] # None
  /\ "panic" \in Parse(Drained(e.fd))
  /\ Die({e.fd})

-----------------------------------------------------------------------------
(* handle_write, and the connect_times.remove that follows it in run().     *)

WriteEvent(e) ==
  /\ Dispatch(e) /\ e.fd \in Fds /\ e.out
  /\ connect_times' = [connect_times EXCEPT ![e.fd] = None]

HandleWriteError(e) ==
  /\ WriteEvent(e) /\ write_buffers[e.fd] # None
  /\ IF file[e.fd] = None THEN TRUE ELSE peer[file[e.fd]] = "reset"
  /\ Close({e.fd})
  /\ write_buffers' = [write_buffers EXCEPT ![e.fd] = None]
  /\ UNCHANGED <<peer, req, sent, outq, wire, pc, read_buffers>>

\* data.drain(..n)
drain_Not(data, n) == data
drain(data, n) == SubSeq(data, n + 1, Len(data))

\* The send buffer fills: what is left waits for the next EPOLLOUT.
HandleWriteBlocks(e) ==
  LET c == file[e.fd]  data == write_buffers[e.fd]  room == SndBuf - outq[c] IN
  /\ WriteEvent(e) /\ data # None /\ c # None
  /\ peer[c] # "reset" /\ Len(data) > room
  /\ wire' = [wire EXCEPT ![c] = @ \o SubSeq(data, 1, room)]
  /\ outq' = [outq EXCEPT ![c] = SndBuf]
  /\ write_buffers' = [write_buffers EXCEPT ![e.fd] = drain(data, room)]
  /\ UNCHANGED <<file, stage, peer, req, sent, inq, watch, edge, pc, read_buffers>>

\* All written: shut down and close.
HandleWriteCompletes(e) ==
  LET c == file[e.fd]  data == write_buffers[e.fd] IN
  /\ WriteEvent(e) /\ data # None /\ c # None
  /\ peer[c] # "reset" /\ Len(data) <= SndBuf - outq[c]
  /\ wire' = [wire EXCEPT ![c] = @ \o data]
  /\ outq' = [outq EXCEPT ![c] = @ + Len(data)]
  /\ write_buffers' = [write_buffers EXCEPT ![e.fd] = None]
  /\ Close({e.fd})
  /\ UNCHANGED <<peer, req, sent, pc, read_buffers>>

\* There is no write buffer: the descriptor is closed all the same.
HandleWriteNothing(e) ==
  /\ WriteEvent(e) /\ write_buffers[e.fd] = None
  /\ Close({e.fd})
  /\ UNCHANGED <<peer, req, sent, outq, wire, pc, read_buffers, write_buffers>>

-----------------------------------------------------------------------------
Init ==
  /\ file  = [f \in Fds |-> None]
  /\ stage = [c \in Conns |-> "new"]
  /\ peer  = [c \in Conns |-> "open"]
  /\ req   = [c \in Conns |-> None]
  /\ sent  = [c \in Conns |-> 0]
  /\ inq   = [c \in Conns |-> 0]
  /\ outq  = [c \in Conns |-> 0]
  /\ wire  = [c \in Conns |-> << >>]
  /\ watch = [c \in Conns |-> "none"]
  /\ edge  = {}
  /\ pc    = "events"
  /\ batch = {}
  /\ read_buffers  = [f \in Fds |-> None]
  /\ write_buffers = [f \in Fds |-> None]
  /\ connect_times = [f \in Fds |-> None]

HandleRead(e)  == \/ HandleReadError(e) \/ HandleReadEof(e)
                  \/ HandleReadReply(e) \/ HandleReadNoBuffer(e) \/ HandleReadPanic(e)
HandleWrite(e) == \/ HandleWriteError(e) \/ HandleWriteBlocks(e)
                  \/ HandleWriteCompletes(e) \/ HandleWriteNothing(e)
Accept == AcceptStops \/ \E c \in Own, fd \in Fds : AcceptOne(c, fd)

\* What the thread does of its own accord, faults of the kernel apart.
Loop ==
  \/ EpollWait \/ Sweep \/ Accept
  \/ \E e \in batch : StartAccept(e) \/ HandleRead(e) \/ HandleWrite(e)

Fault == EpollWaitFails \/ AcceptFails

Client(c) ==
  \/ \E r \in Requests : Connect(c, r)
  \/ SendSegment(c) \/ Receive(c)
  \/ \E how \in {"fin", "reset"} : Hangup(c, how)

Next ==
  \/ Loop \/ Fault
  \/ \E c \in Own : Client(c)
  \/ \E fd \in Fds : Expire(fd)

Spec == Init /\ [][Next]_vars

-----------------------------------------------------------------------------
(* Safety.                                                                  *)

Event == [fd : Fds \cup {Listener}, who : Conns \cup {Listener}, out : BOOLEAN]

\* The shape of the state.
TypeOK ==
  /\ file  \in [Fds -> Conns \cup {None}]
  /\ stage \in [Conns -> {"new", "queued", "open", "closed"}]
  /\ peer  \in [Conns -> {"open", "fin", "reset"}]
  /\ req   \in [Conns -> Requests \cup {None}]
  /\ sent  \in [Conns -> Nat] /\ inq \in [Conns -> Nat] /\ outq \in [Conns -> 0..SndBuf]
  /\ wire  \in [Conns -> Seq(Unit)]
  /\ watch \in [Conns -> {"none", "in", "out"}]
  /\ edge  \subseteq Conns \cup Listeners
  /\ pc    \in {"events", "sweep", "accept", "dead"}
  /\ batch \subseteq Event
  /\ read_buffers  \in [Fds -> Seq(Conns) \cup {None}]
  /\ write_buffers \in [Fds -> Seq(Unit) \cup {None}]
  /\ connect_times \in [Fds -> Stamp \cup {None}]

\* A connection that is watched for input has a read buffer, and a descriptor has a
\* write buffer exactly while its file is watched for output, so only a stale event
\* makes handle_write run without one (HandleWriteNothing).  The maps are keyed by
\* number, so a missed removal shows up at the next owner of the number.
BuffersFollowWatch ==
  \A f \in Fds :
    /\ file[f] \in Own /\ watch[file[f]] = "in" => read_buffers[f] # None
    /\ write_buffers[f] # None <=> file[f] \in Own /\ watch[file[f]] = "out"

\* No descriptor is forgotten while the loop runs: an open one is watched by
\* epoll, or it still has the connect time by which the sweep will close it.
\* The EOF path of handle_read, which does not close, relies on the latter.
NoOrphanDescriptor ==
  pc # "dead" =>
    \A f \in Fds : file[f] \in Own =>
      watch[file[f]] # "none" \/ connect_times[f] # None

\* A connect time is that of the connection which has the descriptor now, so the
\* sweep never closes a connection for the age of a predecessor.
FreshTimer ==
  \A f \in Fds : file[f] \in Own /\ connect_times[f] # None =>
    connect_times[f].conn = file[f]

\* README.md:63, "accept all pending connections (loop until EAGAIN)": nobody is
\* in the backlog without the listener being about to fire.
BacklogIsWatched ==
  Queued # {} =>
    Listener \in edge \/ pc = "accept" \/ \E e \in batch : e.who = Listener

\* Edge-triggered readiness is never lost: a connection with something to do is
\* on epoll's ready list or in the batch being handled.  Provided descriptors do
\* not run out, the same goes for the listener and its backlog.
NoLostWakeup ==
  /\ \A c \in Own : Ready(c) => c \in edge \/ \E e \in batch : e.who = c
  /\ IsFiniteSet(Conns) /\ Cardinality(Conns) <= Cardinality(Fds) => BacklogIsWatched

\* No connection is sent, or has waiting for it, a reply computed from bytes of
\* another, however often descriptor numbers are reused.
NoCrossTalk ==
  /\ \A c \in Own : \A u \in Senders(wire[c]) : u.reply.from \subseteq {c}
  /\ \A f \in Fds : file[f] \in Own /\ write_buffers[f] # None =>
       \A u \in Senders(write_buffers[f]) : u.reply.from \subseteq {file[f]}

-----------------------------------------------------------------------------
(* The strengthening that makes the invariants above inductive.             *)

\* Descriptors refer to distinct files, and only to accepted connections.
TableConsistent ==
  /\ \A f, g \in Fds : file[f] # None /\ file[f] = file[g] => f = g
  /\ \A f \in Fds : file[f] # None => stage[file[f]] = "open"

\* Of a number that belongs to another loop this one has neither a connect time
\* nor an event.  Without other loops there is no such number.
Apart ==
  \A f \in Fds : file[f] \notin Own \cup {None} =>
    connect_times[f] = None /\ \A e \in batch : e.fd # f

\* A batch holds one event per descriptor; one raised for input finds its
\* descriptor closed, or with an owner that is watched for input.
BatchConsistent ==
  /\ \A d, e \in batch : d.fd = e.fd => d = e
  /\ \A e \in batch : e.fd \in Fds /\ ~e.out =>
       file[e.fd] = None \/ watch[file[e.fd]] = "in"

\* Until its reply is decided on, a connection has a connect time.
TimerUntilReply ==
  \A f \in Fds : file[f] \in Own /\ watch[file[f]] = "in" => connect_times[f] # None

\* Read buffers hold bytes of their descriptor's owner only.
OwnBytesOnly ==
  \A f \in Fds : file[f] \in Own /\ read_buffers[f] # None =>
    Senders(read_buffers[f]) \subseteq {file[f]}

\* Everything the loop relies on about its bookkeeping.
Bookkeeping ==
  /\ TypeOK
  /\ TableConsistent /\ Apart /\ BatchConsistent
  /\ BuffersFollowWatch /\ OwnBytesOnly /\ NoCrossTalk
  /\ TimerUntilReply /\ FreshTimer /\ NoOrphanDescriptor

\* What epoll watches has a descriptor, so it can be handed out as an event.
WatchedIsOpen == \A c \in Own : watch[c] # "none" => \E f \in Fds : file[f] = c

\* An event is for the file that has its descriptor, watched as it was when the event
\* was raised, or for one that is not watched any more and never will be again.
EventsCurrent ==
  \A e \in batch :
    /\ e.who = Listener <=> e.fd = Listener
    /\ e.fd \in Fds => stage[e.who] \in {"open", "closed"}
    /\ e.fd \in Fds =>
         \/ file[e.fd] = e.who /\ (e.out => watch[e.who] = "out")
         \/ file[e.fd] # e.who /\ watch[e.who] = "none"

Wakeups == WatchedIsOpen /\ EventsCurrent /\ NoLostWakeup

\* units serialise one reply, computed from what c has sent.
OwnReply(c, units) ==
  /\ units # << >> /\ units[1].reply.from \subseteq {c}
  /\ units = serialize_response(units[1].reply, Len(units))

\* Nothing goes out before the reply is decided on, and what is out and what waits
\* make up the reply.
RepliesWhole ==
  /\ \A c \in Own : stage[c] \in {"new", "queued"} \/ watch[c] = "in" => wire[c] = << >>
  /\ \A f \in Fds : write_buffers[f] # None =>
       write_buffers[f] # << >> /\ OwnReply(file[f], wire[file[f]] \o write_buffers[f])

\* All of it, as one inductive invariant.
IndInv == Bookkeeping /\ Wakeups /\ RepliesWhole

-----------------------------------------------------------------------------
(* What a step may do, and what the loop implements.                        *)

Whole(units) == units # << >> /\ Len(units) = units[1].of

\* The loop closes a connection only when its whole reply is out, the client has
\* aborted, its own connect time is old, the thread ends, or the event at hand
\* was raised for a file that had the descriptor before.
ClosesForAReason ==
  [][\A f \in Fds : file[f] \in Own /\ file'[f] = None =>
       \/ Whole(wire'[file[f]])
       \/ peer[file[f]] = "reset"
       \/ connect_times[f] # None /\ connect_times[f].old
       \/ pc' = "dead"
       \/ \E e \in batch \ batch' : e.fd = f /\ e.who # file[f]]_vars

\* What waits in the write buffer of c's descriptor.
Waiting(c) ==
  LET mine == {f \in Fds : file[f] = c /\ write_buffers[f] # None} IN
  IF mine = {} THEN << >> ELSE write_buffers[CHOOSE f \in mine : TRUE]

\* What the loop implements: to a client it is an Exchange, where the reply that
\* was decided on is what is out and what waits.
Decided == [c \in Conns |-> wire[c] \o Waiting(c)]
ClientView == INSTANCE Exchange WITH reply <- Decided, IsReply <- OwnReply

ImplementsExchange == ClientView!Spec

-----------------------------------------------------------------------------
(* Liveness.  The thread keeps running, its epoll_wait times out every       *)
(* second, and time passes; FairReaders adds that clients read.              *)

FairLoop ==
  /\ Spec /\ WF_vars(Loop)
  /\ \A fd \in Fds : WF_vars(Expire(fd))

FairReaders == FairLoop /\ \A c \in Conns : WF_vars(Receive(c))

\* Every accepted connection gives its descriptor back, whether the client
\* completes its request, hangs up, falls silent or aborts.
DescriptorsComeBack ==
  \A c \in Own : stage[c] = "open" ~> stage[c] = "closed" \/ pc = "dead"

\* Whoever is in the backlog is accepted, as long as descriptors last.
BacklogIsServed ==
  \A c \in Own : stage[c] = "queued" ~> stage[c] # "queued"

-----------------------------------------------------------------------------
(* What the repository says of the loop.                                    *)

\* README.md:72, "then reads exactly `Content-Length` bytes for the body": what
\* the handler is given is the whole request.
WholeBodyRead ==
  \A c \in Conns : \A u \in Senders(wire[c]) :
    u.reply.kind = "handled" => u.reply.segs = req[c].total

=============================================================================
