--------------------------- MODULE MCSessionStore ---------------------------
(* SessionStore for TLC.                                                    *)
EXTENDS SessionStore, TLC

AnyOrder == Permutations(Clients)
=============================================================================
