---------------------------- MODULE MCEventLoop -----------------------------
(* Instances of EventLoop for TLC.                                          *)
EXTENDS EventLoop, TLC

\* A request in two segments whose blank line is in the first, the same one
\* chunked, one that exceeds its limit, and one that never parses.
PlainRequest   == [head |-> 1, total |-> 2, limit |-> 2, form |-> "plain"]
ChunkedRequest == [head |-> 1, total |-> 2, limit |-> 2, form |-> "chunked"]
LargeRequest   == [head |-> 1, total |-> 2, limit |-> 1, form |-> "plain"]
GarbageRequest == [head |-> 1, total |-> 1, limit |-> 2, form |-> "garbage"]

AllRequests == {PlainRequest, ChunkedRequest, LargeRequest, GarbageRequest}
OneRequest  == {PlainRequest}

AnyOrder == Permutations(Conns) \cup Permutations(Fds)
=============================================================================
