----------------------------- MODULE PortGroups -----------------------------
(****************************************************************************)
(* Two threads of the server, as main() spawns one for each host:port       *)
(* group: two loops of EventLoop with an epoll instance, a batch of events  *)
(* and three maps of their own, in one process, whose descriptor table they *)
(* share.  A loop knows its connections by descriptor number only, and the  *)
(* kernel gives a number that one of them closed to the other.              *)
(*                                                                          *)
(* A step is one step of one loop: what a handler does with its descriptor  *)
(* is not interleaved with the system calls of the other thread.            *)
(****************************************************************************)
EXTENDS Integers, Sequences, FiniteSets

CONSTANTS
  OwnA, OwnB,             \* the connections that go to either port
  Fds, Requests, DefaultLimit, MaxReply, SndBuf, MaxEvents, Faults,
  ListenerA, ListenerB,   \* the listening sockets
  None

Conns     == OwnA \cup OwnB
Listeners == {ListenerA, ListenerB}

ASSUME PortsAssumption == OwnA \cap OwnB = {} /\ ListenerA # ListenerB
VARIABLES
  file, stage, peer, req, sent, inq, outq, wire, watch, edge,   \* the kernel's
  pcA, batchA, read_buffersA, write_buffersA, connect_timesA,   \* the first loop's
  pcB, batchB, read_buffersB, write_buffersB, connect_timesB,   \* the second one's
  remembered  \* history: a number has changed loops while the first still had it

loopA == <<pcA, batchA, read_buffersA, write_buffersA, connect_timesA>>
loopB == <<pcB, batchB, read_buffersB, write_buffersB, connect_timesB>>
vars  == <<file, stage, peer, req, sent, inq, outq, wire, watch, edge,
           loopA, loopB, remembered>>

A == INSTANCE EventLoop WITH
  Own <- OwnA, Listener <- ListenerA, pc <- pcA, batch <- batchA,
  read_buffers <- read_buffersA, write_buffers <- write_buffersA,
  connect_times <- connect_timesA

B == INSTANCE EventLoop WITH
  Own <- OwnB, Listener <- ListenerB, pc <- pcB, batch <- batchB,
  read_buffers <- read_buffersB, write_buffers <- write_buffersB,
  connect_times <- connect_timesB

\* What EventLoop asks of its constants, for either loop.
ASSUME LoopsAssumption ==
  /\ A!RequestsAssumption /\ A!BoundsAssumption
  /\ A!SentinelAssumption /\ B!SentinelAssumption

\* What a loop may still have of a number it has not got any more: a connect
\* time, and an event in the batch at hand.
StillHasA(f) == connect_timesA[f] # None \/ \E e \in batchA : e.fd = f
StillHasB(f) == connect_timesB[f] # None \/ \E e \in batchB : e.fd = f

HandsOver ==
  \E f \in Fds : /\ file[f] = None
                 /\ \/ file'[f] \in OwnB /\ StillHasA(f)
                    \/ file'[f] \in OwnA /\ StillHasB(f)

Init == A!Init /\ B!Init /\ remembered = FALSE

\* main() joins the threads and does nothing else; the end of one, by an error
\* or a panic, leaves the other running.
Next ==
  /\ \/ A!Next /\ UNCHANGED loopB
     \/ B!Next /\ UNCHANGED loopA
  /\ remembered' = (remembered \/ HandsOver)

Spec == Init /\ [][Next]_vars

-----------------------------------------------------------------------------
(* Properties.                                                              *)

\* The shape of the state.
TypeOK == A!TypeOK /\ B!TypeOK /\ remembered \in BOOLEAN

\* A connect time without a connection and an event left in a batch are all that
\* comes between two ports.  As long as no number changes loops with one of them
\* behind, each loop keeps its books as if it were alone in the process.
ApartUnlessRemembered == remembered \/ (A!Bookkeeping /\ B!Bookkeeping)

\* main.rs:40-51: a connection is closed by the loop that accepted it.
ClosedByItsLoop ==
  \A f \in Fds : file[f] # None /\ file'[f] # file[f] =>
    IF file[f] \in OwnA THEN UNCHANGED loopB ELSE UNCHANGED loopA

\* It is, as long as no number changes loops with something left behind.
ClosedByItsLoopUnlessRemembered == [][remembered \/ ClosedByItsLoop]_vars

\* README.md:283, "Multiple epoll instances would require coordinating which
\* instance owns which fd [...]. One instance per port gives a complete,
\* consistent view of all connections on that port."
OneInstancePerPort == [][ClosedByItsLoop]_vars

=============================================================================
