---------------------------- MODULE SessionStore ----------------------------
(****************************************************************************)
(* The process-wide session store of src/src/utils/session.rs and the three *)
(* handlers of src/src/handler.rs that use it.  The loops of all port       *)
(* groups share it; each handler holds its mutex from the first access to   *)
(* the last, so a handler is one step here, and steps of different loops    *)
(* come in any order.  Requests and replies travel on connections of their  *)
(* own and overtake each other or are lost.                                 *)
(****************************************************************************)
EXTENDS Integers, FiniteSets

CONSTANTS
  Clients,         \* browsers: each keeps one session_id cookie
  Nanos,           \* the readings of subsec_nanos(), the same every second
  Pid, MulA, MulB, \* the process id and the two multipliers of generate_id
  Modulus,         \* 2^64 in the program
  MaxInFlight,     \* bound: requests and replies under way
  None

ASSUME GeneratorAssumption ==
  /\ Nanos \subseteq Nat /\ {Pid, MulA, MulB} \subseteq Nat
  /\ Modulus \in Nat \ {0}

Ids    == 0..(Modulus - 1)

\* Together the multipliers have few factors in common with the modulus: in the
\* program MulA is odd and MulB twice an odd number, so g = 2, and readings are
\* below 10^9.
ASSUME MultipliersAssumption ==
  \E inv \in Ids, g \in Ids \ {0} :
    /\ (MulA * MulB * inv) % Modulus = g
    /\ \A t \in Nanos : g * t < Modulus

Cookie == [id : Ids, at : Nanos]   \* at: the reading the id was made from

Routes == {"login", "logout", "whoami"}

VARIABLES
  sessions,  \* the HashMap: id -> Session
  cookie,    \* the session_id cookie each client holds
  requests,  \* sent and not yet handled
  answers    \* built and not yet received

vars == <<sessions, cookie, requests, answers>>

-----------------------------------------------------------------------------
(* The store.  username: whether the session has that key; old: created     *)
(* more than an hour ago.  An operation gives what it leaves of the map.    *)

Session == [username : BOOLEAN, old : BOOLEAN]
ASSUME NoneAssumption == None \notin Cookie /\ None \notin Session

generate_id_PidOnly(t) == (Pid * MulB) % Modulus
generate_id(t) == ((t * MulA + Pid) * MulB) % Modulus

create_OrInsert(map, id) ==
  IF map[id] = None THEN [map EXCEPT ![id] = [username |-> FALSE, old |-> FALSE]] ELSE map
create(map, id) == [map EXCEPT ![id] = [username |-> FALSE, old |-> FALSE]]

\* The eviction get_mut begins with.
get_mut(map, id) ==
  IF map[id] # None /\ map[id].old THEN [map EXCEPT ![id] = None] ELSE map

set_NoInsert(map, id) == get_mut(map, id)
set(map, id) ==
  LET kept == get_mut(map, id) IN
  IF kept[id] = None THEN kept
  ELSE [kept EXCEPT ![id] = [username |-> TRUE, old |-> kept[id].old]]

get_value(map, id) ==
  LET kept == get_mut(map, id) IN kept[id] # None /\ kept[id].username

destroy(map, id) == [map EXCEPT ![id] = None]

-----------------------------------------------------------------------------
(* Clients.                                                                 *)

Send(c, route) ==
  LET q == [from |-> c, route |-> route, cookie |-> cookie[c]] IN
  /\ Cardinality(requests) + Cardinality(answers) < MaxInFlight
  /\ q \notin requests
  /\ requests' = requests \cup {q}
  /\ UNCHANGED <<sessions, cookie, answers>>

\* Set-Cookie: the new id, or one with Max-Age=0, which removes the cookie.
Receive(a) ==
  /\ answers' = answers \ {a}
  /\ cookie' = CASE a.what = "logged_in"  -> [cookie EXCEPT ![a.to] = a.cookie]
                 [] a.what = "logged_out" -> [cookie EXCEPT ![a.to] = None]
                 [] OTHER -> cookie
  /\ UNCHANGED <<sessions, requests>>

LoseRequest(q) == requests' = requests \ {q} /\ UNCHANGED <<sessions, cookie, answers>>
LoseAnswer(a)  == answers' = answers \ {a} /\ UNCHANGED <<sessions, cookie, requests>>

\* The hour is over.
Expire(id) ==
  /\ sessions[id] # None /\ ~sessions[id].old
  /\ sessions' = [sessions EXCEPT ![id].old = TRUE]
  /\ UNCHANGED <<cookie, requests, answers>>

-----------------------------------------------------------------------------
(* The handlers.                                                            *)

Handle(q, route, what, k) ==
  /\ q.route = route
  /\ requests' = requests \ {q}
  /\ answers' = answers \cup {[to |-> q.from, what |-> what, cookie |-> k]}
  /\ UNCHANGED cookie

set_cookie_Missing(id, t) == None
set_cookie(id, t) == [id |-> id, at |-> t]

handle_login(q) ==
  \/ \E t \in Nanos :
       LET id == generate_id(t) IN
       /\ Handle(q, "login", "logged_in", set_cookie(id, t))
       /\ sessions' = set(create(sessions, id), id)
  \/ Handle(q, "login", "refused", None) /\ UNCHANGED sessions

handle_logout(q) ==
  /\ Handle(q, "logout", "logged_out", q.cookie)
  /\ sessions' = IF q.cookie = None THEN sessions ELSE destroy(sessions, q.cookie.id)

handle_whoami(q) ==
  LET found == q.cookie # None /\ get_value(sessions, q.cookie.id) IN
  /\ Handle(q, "whoami", IF found THEN "name" ELSE "forbidden", q.cookie)
  /\ sessions' = IF q.cookie = None THEN sessions ELSE get_mut(sessions, q.cookie.id)

-----------------------------------------------------------------------------
Init ==
  /\ sessions = [id \in Ids |-> None]
  /\ cookie   = [c \in Clients |-> None]
  /\ requests = {} /\ answers = {}

Next ==
  \/ \E c \in Clients, route \in Routes : Send(c, route)
  \/ \E q \in requests :
       handle_login(q) \/ handle_logout(q) \/ handle_whoami(q) \/ LoseRequest(q)
  \/ \E a \in answers : Receive(a) \/ LoseAnswer(a)
  \/ \E id \in Ids : Expire(id)

Spec == Init /\ [][Next]_vars

-----------------------------------------------------------------------------
Whats == {"logged_in", "refused", "logged_out", "name", "forbidden"}

\* The shape of the state; an answer to a login carries the cookie.
TypeOK ==
  /\ sessions \in [Ids -> Session \cup {None}]
  /\ cookie \in [Clients -> Cookie \cup {None}]
  /\ requests \subseteq [from : Clients, route : Routes, cookie : Cookie \cup {None}]
  /\ answers \subseteq [to : Clients, what : Whats, cookie : Cookie \cup {None}]
  /\ \A a \in answers : a.what = "logged_in" => a.cookie # None

\* handle_login's create and set are one critical section: no session without a
\* username is ever there for another loop to find, even if the id is not new.
SessionsHaveNames ==
  \A id \in Ids : sessions[id] # None => sessions[id].username

\* Clients share a session only if generate_id read the same nanoseconds for both.
SharedOnlyOnSameTick ==
  \A c, d \in Clients :
    cookie[c] # None /\ cookie[d] # None /\ cookie[c].id = cookie[d].id =>
      cookie[c].at = cookie[d].at

\* Every cookie, wherever it is, holds the id made from its reading.
Generated(k) == k # None => k.id = generate_id(k.at)
CookiesAreGenerated ==
  /\ \A c \in Clients : Generated(cookie[c])
  /\ \A q \in requests : Generated(q.cookie)
  /\ \A a \in answers : Generated(a.cookie)

\* All of it, as one inductive invariant.
IndInv == TypeOK /\ SessionsHaveNames /\ CookiesAreGenerated

\* Evicting an expired session only when it is asked for cannot be noticed: the
\* store answers as one that drops every session the moment its hour is over.
Live == {id \in Ids : sessions[id] # None /\ ~sessions[id].old}
Prompt == INSTANCE Sessions WITH valid <- Live, Cookies <- Cookie
ImplementsSessions == Prompt!Spec
=============================================================================
