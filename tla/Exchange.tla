------------------------------ MODULE Exchange -------------------------------
(****************************************************************************)
(* What the server promises a client: a connection is admitted at most once,*)
(* gets at most one reply, computed from its own bytes alone, whose units   *)
(* go out in order, once each, and nothing follows them.  The server may    *)
(* give up on connections, at any point and on several at once.             *)
(****************************************************************************)
EXTENDS Integers, Sequences

CONSTANTS Conns,
          IsReply(_, _)  \* IsReply(c, units): units serialise a reply to c

VARIABLES stage,      \* "new", "queued", "open", "closed"
          reply,      \* the reply decided on, or << >>
          wire        \* the part of it that is out

vars == <<stage, reply, wire>>

Init ==
  /\ stage = [c \in Conns |-> "new"]
  /\ reply = [c \in Conns |-> << >>]
  /\ wire  = [c \in Conns |-> << >>]

Arrive(c) ==
  /\ stage[c] = "new"
  /\ stage' = [stage EXCEPT ![c] = "queued"]
  /\ UNCHANGED <<reply, wire>>

Admit(c) ==
  /\ stage[c] = "queued"
  /\ stage' = [stage EXCEPT ![c] = "open"]
  /\ UNCHANGED <<reply, wire>>

\* The one decision about c.
Answer(c) ==
  /\ stage[c] = "open" /\ reply[c] = << >>
  /\ IsReply(c, reply'[c])
  /\ reply' = [reply EXCEPT ![c] = reply'[c]]
  /\ UNCHANGED <<stage, wire>>

\* Some more units go out.
Write(c) ==
  /\ stage[c] = "open"
  /\ \E n \in (Len(wire[c]) + 1)..(Len(reply[c]) - 1) :
       wire' = [wire EXCEPT ![c] = SubSeq(reply[c], 1, n)]
  /\ UNCHANGED <<stage, reply>>

\* The last units go out and the connection is closed in the same step.
Finish(c) ==
  /\ stage[c] = "open" /\ Len(wire[c]) < Len(reply[c])
  /\ wire'  = [wire EXCEPT ![c] = reply[c]]
  /\ stage' = [stage EXCEPT ![c] = "closed"]
  /\ UNCHANGED reply

\* The server gives up: it closes the connections in S, and what is not out yet
\* on S and T never will be.
Abandon ==
  \E S, T \in SUBSET Conns :
    /\ \A c \in S : stage[c] \in {"queued", "open"}
    /\ stage' = [c \in Conns |-> IF c \in S THEN "closed" ELSE stage[c]]
    /\ reply' = [c \in Conns |-> IF c \in S \cup T THEN wire[c] ELSE reply[c]]
    /\ UNCHANGED wire

Next == Abandon \/ \E c \in Conns :
  Arrive(c) \/ Admit(c) \/ Answer(c) \/ Write(c) \/ Finish(c)

Spec == Init /\ [][Next]_vars
=============================================================================
