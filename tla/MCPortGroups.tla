---------------------------- MODULE MCPortGroups ----------------------------
(* Instances of PortGroups for TLC.                                         *)
EXTENDS PortGroups, TLC

\* It is refused as too large: the path that leaves its read buffer behind.
OneRequest == {[head |-> 1, total |-> 1, limit |-> 0, form |-> "plain"]}

AnyOrder == Permutations(OwnA) \cup Permutations(OwnB) \cup Permutations(Fds)
=============================================================================
