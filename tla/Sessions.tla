------------------------------ MODULE Sessions ------------------------------
(* What the session store promises: an id is valid from its issue until it  *)
(* is revoked or its time is up, and a question about an id is answered by  *)
(* whether it is valid at that moment.                                      *)
EXTENDS Naturals

CONSTANTS Clients, Ids, Cookies, None

VARIABLES valid,    \* the ids that are valid
          answers   \* answers on their way: [to, what, cookie]

Tell(c, what, k) ==
  answers' = answers \cup {[to |-> c, what |-> what, cookie |-> k]}

Issue(c, k) == valid' = valid \cup {k.id} /\ Tell(c, "logged_in", k)

Refuse(c) == UNCHANGED valid /\ Tell(c, "refused", None)

Revoke(c, k) ==
  /\ valid' = IF k = None THEN valid ELSE valid \ {k.id}
  /\ Tell(c, "logged_out", k)

Query(c, k) ==
  /\ UNCHANGED valid
  /\ Tell(c, IF k # None /\ k.id \in valid THEN "name" ELSE "forbidden", k)

Lapse(id) == valid' = valid \ {id} /\ UNCHANGED answers

Forget(a) == answers' = answers \ {a} /\ UNCHANGED valid

Init == valid = {} /\ answers = {}

Next ==
  \/ \E c \in Clients :
       \/ Refuse(c)
       \/ \E k \in Cookies : Issue(c, k)
       \/ \E k \in Cookies \cup {None} : Revoke(c, k) \/ Query(c, k)
  \/ \E id \in Ids : Lapse(id)
  \/ \E a \in answers : Forget(a)

Spec == Init /\ [][Next]_<<valid, answers>>
=============================================================================
