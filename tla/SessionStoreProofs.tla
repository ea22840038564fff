------------------------- MODULE SessionStoreProofs -------------------------
(* Proofs about SessionStore, for any number of clients and any id width.   *)
EXTENDS SessionStore, TLAPS

-----------------------------------------------------------------------------
(* What the operations of the store do.                                     *)

\* generate_id stays within the 64 bits of its result.
LEMMA GenerateIdType == \A t \in Nanos : generate_id(t) \in Ids
<1> TAKE t \in Nanos
<1> DEFINE x == (t * MulA + Pid) * MulB
<1>1. x \in Nat
  BY GeneratorAssumption
<1>2. Modulus \in Nat /\ Modulus > 0
  BY GeneratorAssumption
<1> HIDE DEF x
<1>3. x % Modulus \in 0..(Modulus - 1)
  BY <1>1, <1>2
<1> QED BY <1>3 DEF generate_id, x, Ids

\* SessionStore::create followed by set: a fresh session with its username, over
\* whatever the id named before.
LEMMA CreateThenSet ==
  ASSUME NEW map \in [Ids -> Session \cup {None}], NEW id \in Ids
  PROVE  set(create(map, id), id) = [map EXCEPT ![id] = [username |-> TRUE, old |-> FALSE]]
<1> DEFINE fresh == [username |-> FALSE, old |-> FALSE]
           s == [map EXCEPT ![id] = fresh]
<1>1. fresh \in Session /\ fresh.old = FALSE
  BY DEF Session
<1> HIDE DEF fresh
<1>2. s \in [Ids -> Session \cup {None}] /\ s[id] = fresh
  BY <1>1
<1>3. get_mut(s, id) = s
  BY <1>1, <1>2 DEF get_mut
<1>4. fresh # None
  BY <1>1, NoneAssumption
<1>5. set(s, id) = [s EXCEPT ![id] = [username |-> TRUE, old |-> FALSE]]
  BY <1>1, <1>2, <1>3, <1>4 DEF set
<1> QED BY <1>5 DEF create, fresh

-----------------------------------------------------------------------------
(* The invariant.                                                           *)

\* The store starts empty.
LEMMA InitInv == Init => IndInv
  BY DEF Init, IndInv, TypeOK, SessionsHaveNames, CookiesAreGenerated, Generated

\* What the handlers leave in the map has the shape and the names.
LEMMA StoreNext ==
  TypeOK /\ SessionsHaveNames /\ [Next]_vars => TypeOK' /\ SessionsHaveNames'
<1> SUFFICES ASSUME TypeOK, SessionsHaveNames, [Next]_vars
             PROVE  TypeOK' /\ SessionsHaveNames'
  OBVIOUS
<1>1. ASSUME NEW c \in Clients, NEW route \in Routes, Send(c, route) PROVE TypeOK' /\ SessionsHaveNames'
  BY <1>1 DEF Send, TypeOK, SessionsHaveNames
<1>2. ASSUME NEW q \in requests, NEW t \in Nanos,
             Handle(q, "login", "logged_in", set_cookie(generate_id(t), t)),
             sessions' = set(create(sessions, generate_id(t)), generate_id(t))
      PROVE  TypeOK' /\ SessionsHaveNames'
  <2> DEFINE id == generate_id(t)
  <2>1. id \in Ids
    BY GenerateIdType
  <2>2. sessions' = [sessions EXCEPT ![id] = [username |-> TRUE, old |-> FALSE]]
    BY <1>2, <2>1, CreateThenSet DEF TypeOK
  <2>3. set_cookie(id, t) \in Cookie /\ set_cookie(id, t) # None
    BY <2>1, NoneAssumption DEF set_cookie, Cookie
  <2> HIDE DEF id
  <2>4. SessionsHaveNames' /\ sessions' \in [Ids -> Session \cup {None}]
    BY <2>1, <2>2 DEF SessionsHaveNames, TypeOK, Session
  <2>5. TypeOK'
    BY <1>2, <2>3, <2>4 DEF Handle, TypeOK, Whats, id
  <2> QED BY <2>4, <2>5
<1>3. ASSUME NEW q \in requests, Handle(q, "login", "refused", None), UNCHANGED sessions
      PROVE  TypeOK' /\ SessionsHaveNames'
  BY <1>3 DEF Handle, TypeOK, SessionsHaveNames, Whats
<1>4. ASSUME NEW q \in requests, handle_logout(q) PROVE TypeOK' /\ SessionsHaveNames'
  BY <1>4 DEF handle_logout, Handle, destroy, TypeOK, SessionsHaveNames, Whats, Cookie
<1>5. ASSUME NEW q \in requests, handle_whoami(q) PROVE TypeOK' /\ SessionsHaveNames'
  BY <1>5 DEF handle_whoami, Handle, get_mut, TypeOK, SessionsHaveNames, Whats, Cookie
<1>6. ASSUME NEW q \in requests, LoseRequest(q) PROVE TypeOK' /\ SessionsHaveNames'
  BY <1>6 DEF LoseRequest, TypeOK, SessionsHaveNames
<1>7. ASSUME NEW a \in answers, Receive(a) PROVE TypeOK' /\ SessionsHaveNames'
  BY <1>7 DEF Receive, TypeOK, SessionsHaveNames
<1>8. ASSUME NEW a \in answers, LoseAnswer(a) PROVE TypeOK' /\ SessionsHaveNames'
  BY <1>8 DEF LoseAnswer, TypeOK, SessionsHaveNames
<1>9. ASSUME NEW id \in Ids, Expire(id) PROVE TypeOK' /\ SessionsHaveNames'
  BY <1>9 DEF Expire, TypeOK, SessionsHaveNames, Session
<1>10. CASE UNCHANGED vars
  BY <1>10 DEF vars, TypeOK, SessionsHaveNames
<1> QED BY <1>1, <1>2, <1>3, <1>4, <1>5, <1>6, <1>7, <1>8, <1>9, <1>10
       DEF Next, handle_login

\* A cookie passes from reply to browser to request as it is, and a login makes its
\* own from the reading.
LEMMA CookieNext ==
  TypeOK /\ CookiesAreGenerated /\ [Next]_vars => CookiesAreGenerated'
<1> SUFFICES ASSUME TypeOK, CookiesAreGenerated, [Next]_vars PROVE CookiesAreGenerated'
  OBVIOUS
<1>0. Generated(None)
  BY DEF Generated
<1>1. ASSUME NEW c \in Clients, NEW route \in Routes, Send(c, route)
      PROVE  CookiesAreGenerated'
  BY <1>1 DEF Send, CookiesAreGenerated, Generated
<1>2. ASSUME NEW q \in requests, NEW route, NEW what, NEW k, Handle(q, route, what, k),
             Generated(k)
      PROVE  CookiesAreGenerated'
  BY <1>2 DEF Handle, CookiesAreGenerated, Generated
<1>3. ASSUME NEW q \in requests, handle_login(q) PROVE CookiesAreGenerated'
  <2>1. \A t \in Nanos : Generated(set_cookie(generate_id(t), t))
    BY DEF Generated, set_cookie
  <2> QED BY <1>0, <1>2, <1>3, <2>1 DEF handle_login
<1>4. ASSUME NEW q \in requests, handle_logout(q) \/ handle_whoami(q)
      PROVE  CookiesAreGenerated'
  BY <1>2, <1>4 DEF handle_logout, handle_whoami, CookiesAreGenerated
<1>5. ASSUME NEW a \in answers, Receive(a) PROVE CookiesAreGenerated'
  <2>1. \A c \in Clients : Generated(cookie'[c])
    BY <1>0, <1>5 DEF Receive, TypeOK, CookiesAreGenerated, Generated
  <2> QED BY <1>5, <2>1 DEF Receive, CookiesAreGenerated, Generated
<1>6. ASSUME NEW q \in requests, LoseRequest(q) PROVE CookiesAreGenerated'
  BY <1>6 DEF LoseRequest, CookiesAreGenerated, Generated
<1>7. ASSUME NEW a \in answers, LoseAnswer(a) PROVE CookiesAreGenerated'
  BY <1>7 DEF LoseAnswer, CookiesAreGenerated, Generated
<1>8. ASSUME NEW id \in Ids, Expire(id) PROVE CookiesAreGenerated'
  BY <1>8 DEF Expire, CookiesAreGenerated, Generated
<1>9. CASE UNCHANGED vars
  BY <1>9 DEF vars, CookiesAreGenerated, Generated
<1> QED BY <1>1, <1>3, <1>4, <1>5, <1>6, <1>7, <1>8, <1>9 DEF Next

\* Every step keeps the invariant.
LEMMA NextInv == IndInv /\ [Next]_vars => IndInv'
  BY StoreNext, CookieNext DEF IndInv

\* The store, the cookies and the messages are in the states IndInv describes.
THEOREM Invariance == Spec => []IndInv
  BY InitInv, NextInv, PTL DEF Spec

\* The state keeps its shape; the answer to a login carries a cookie.
THEOREM TypeCorrect == Spec => []TypeOK
<1>1. IndInv => TypeOK
  BY DEF IndInv
<1> QED BY <1>1, Invariance, PTL

\* No loop ever finds a session that handle_login has created and not yet named.
THEOREM NamesAreThere == Spec => []SessionsHaveNames
<1>1. IndInv => SessionsHaveNames
  BY DEF IndInv
<1> QED BY <1>1, Invariance, PTL

-----------------------------------------------------------------------------
(* The ids.                                                                 *)

\* A natural number is a multiple of the modulus and its remainder.
LEMMA Division ==
  ASSUME NEW a \in Nat, NEW m \in Nat \ {0}
  PROVE  \E q \in Nat : a = m * q + (a % m)
<1>1. a \div m \in Nat /\ a = m * (a \div m) + (a % m)
  OBVIOUS
<1> QED BY <1>1

\* If m divides d * k, and k * i is g up to a multiple of m, then m divides d * g.
LEMMA Cancel ==
  ASSUME NEW d \in Nat, NEW k \in Nat, NEW i \in Nat, NEW m \in Nat, NEW g \in Nat,
         NEW q \in Int, NEW r \in Int, d * k = m * q, k * i = m * r + g
  PROVE  d * g = m * (q * i - d * r)
<1>1. (d * k) * i = m * (q * i)
  <2>1. (d * k) * i = (m * q) * i
    OBVIOUS
  <2>2. (m * q) * i = m * (q * i)
    OBVIOUS
  <2> QED BY <2>1, <2>2
<1>2. (d * k) * i = m * (d * r) + d * g
  <2>1. (d * k) * i = d * (k * i)
    OBVIOUS
  <2>2. d * (k * i) = d * (m * r + g)
    OBVIOUS
  <2>3. d * (m * r + g) = m * (d * r) + d * g
    OBVIOUS
  <2> QED BY <2>1, <2>2, <2>3
<1>3. m * (q * i - d * r) = m * (q * i) - m * (d * r)
  OBVIOUS
<1>4. m * (q * i) \in Int /\ m * (d * r) \in Int /\ d * g \in Int
  OBVIOUS
<1> QED BY <1>1, <1>2, <1>3, <1>4

\* A multiple of m that is not negative and below m is 0.
LEMMA OnlyZero ==
  ASSUME NEW m \in Nat \ {0}, NEW w \in Int, 0 <= m * w, m * w < m
  PROVE  w = 0
OBVIOUS

\* Of two readings the later one has the id of the other only if it is the same: the
\* ids' difference is that of the readings times both multipliers.
LEMMA LaterIdDiffers ==
  ASSUME NEW t \in Nanos, NEW u \in Nanos, u <= t, generate_id(t) = generate_id(u)
  PROVE  t = u
<1> DEFINE raw(x) == (x * MulA + Pid) * MulB
           k == MulA * MulB
           d == t - u
<1>1. /\ t \in Nat /\ u \in Nat /\ MulA \in Nat /\ MulB \in Nat /\ Pid \in Nat
      /\ Modulus \in Nat \ {0} /\ k \in Nat /\ d \in Nat
  BY GeneratorAssumption
<1>2. PICK i \in Ids, g \in Ids \ {0} :
        (k * i) % Modulus = g /\ \A x \in Nanos : g * x < Modulus
  BY MultipliersAssumption
<1>3. i \in Nat /\ g \in Nat \ {0}
  BY <1>1, <1>2 DEF Ids
<1>4. \E q \in Int : d * k = Modulus * q
  <2>1. raw(t) \in Nat /\ raw(u) \in Nat /\ raw(t) % Modulus = raw(u) % Modulus
    BY <1>1 DEF generate_id
  <2>2. raw(t) - raw(u) = d * k
    <3>1. raw(t) = t * k + Pid * MulB /\ raw(u) = u * k + Pid * MulB
      BY <1>1
    <3>2. d * k = t * k - u * k
      BY <1>1
    <3>3. t * k \in Nat /\ u * k \in Nat /\ Pid * MulB \in Nat
      BY <1>1
    <3> HIDE DEF raw, k, d
    <3> QED BY <3>1, <3>2, <3>3
  <2> HIDE DEF raw, k, d
  <2>3. PICK a \in Nat : raw(t) = Modulus * a + (raw(t) % Modulus)
    BY <1>1, <2>1, Division
  <2>4. PICK b \in Nat : raw(u) = Modulus * b + (raw(u) % Modulus)
    BY <1>1, <2>1, Division
  <2>5. raw(t) - raw(u) = Modulus * a - Modulus * b
    <3>1. /\ Modulus * a \in Nat /\ Modulus * b \in Nat
          /\ raw(u) % Modulus \in Nat
      BY <1>1, <2>1
    <3> QED BY <2>1, <2>3, <2>4, <3>1
  <2>6. Modulus * a - Modulus * b = Modulus * (a - b)
    BY <1>1
  <2>7. a - b \in Int
    OBVIOUS
  <2> QED BY <2>2, <2>5, <2>6, <2>7
<1>5. PICK q \in Int : d * k = Modulus * q
  BY <1>4
<1>6. k * i \in Nat
  BY <1>1, <1>3
<1> HIDE DEF k
<1>7. PICK r \in Nat : k * i = Modulus * r + g
  BY <1>1, <1>2, <1>6, Division
<1> DEFINE w == q * i - d * r
<1>8. d * g = Modulus * w
  <2> HIDE DEF d
  <2> QED BY <1>1, <1>3, <1>5, <1>7, Cancel
<1>9. 0 <= d * g /\ d * g < Modulus
  <2>1. g * t < Modulus /\ d <= t
    BY <1>1, <1>2
  <2> HIDE DEF d
  <2>2. 0 <= d * g /\ d * g <= g * t
    BY <1>1, <1>3, <2>1
  <2>3. d * g \in Int /\ g * t \in Int
    BY <1>1, <1>3
  <2> QED BY <1>1, <2>1, <2>2, <2>3
<1>10. w = 0
  <2>1. w \in Int
    BY <1>1, <1>3
  <2> HIDE DEF w
  <2> QED BY <1>1, <1>8, <1>9, <2>1, OnlyZero
<1>11. d = 0
  <2>1. d * g = 0
    BY <1>1, <1>8, <1>10
  <2> HIDE DEF d
  <2> QED BY <1>1, <1>3, <2>1
<1> QED BY <1>1, <1>11

\* generate_id is injective on the readings of one second, even though its second
\* multiplier is even.
LEMMA IdTellsReading ==
  ASSUME NEW t \in Nanos, NEW u \in Nanos, generate_id(t) = generate_id(u)
  PROVE  t = u
<1>1. t \in Nat /\ u \in Nat
  BY GeneratorAssumption
<1>2. CASE u <= t
  BY <1>2, LaterIdDiffers
<1>3. CASE t <= u
  BY <1>3, LaterIdDiffers
<1> QED BY <1>1, <1>2, <1>3

\* Two browsers hold the same id only if the clock showed the same nanoseconds, of
\* whichever second, when generate_id made each.
THEOREM IdsAreApart == Spec => []SharedOnlyOnSameTick
<1>1. IndInv => SharedOnlyOnSameTick
  <2> SUFFICES ASSUME IndInv, NEW c \in Clients, NEW d \in Clients, cookie[c] # None,
                      cookie[d] # None, cookie[c].id = cookie[d].id
               PROVE  cookie[c].at = cookie[d].at
    BY DEF SharedOnlyOnSameTick
  <2>1. cookie[c] \in Cookie /\ cookie[d] \in Cookie
    BY DEF IndInv, TypeOK
  <2>2. cookie[c].at \in Nanos /\ cookie[d].at \in Nanos
    BY <2>1 DEF Cookie
  <2>3. generate_id(cookie[c].at) = generate_id(cookie[d].at)
    BY DEF IndInv, CookiesAreGenerated, Generated
  <2> QED BY <2>2, <2>3, IdTellsReading
<1> QED BY <1>1, Invariance, PTL

-----------------------------------------------------------------------------
(* The refinement of Sessions.                                              *)

\* Every step of the store, of the handlers and of time is one of Sessions: get_mut
\* evicts only what is_expired has made invisible already.
LEMMA StepRefines == IndInv /\ IndInv' /\ [Next]_vars => [Prompt!Next]_<<Live, answers>>
<1> SUFFICES ASSUME IndInv, IndInv', [Next]_vars PROVE Prompt!Next \/ UNCHANGED <<Live, answers>>
  OBVIOUS
<1> USE DEF IndInv
<1>1. ASSUME NEW c \in Clients, NEW route \in Routes, Send(c, route)
      PROVE  UNCHANGED <<Live, answers>>
  BY <1>1 DEF Send, Live
<1>2. ASSUME NEW q \in requests, NEW t \in Nanos,
             Handle(q, "login", "logged_in", set_cookie(generate_id(t), t)),
             sessions' = set(create(sessions, generate_id(t)), generate_id(t))
      PROVE  Prompt!Next
  <2> DEFINE id == generate_id(t)  k == set_cookie(generate_id(t), t)
  <2>1. id \in Ids
    BY GenerateIdType
  <2>2. k \in Cookie /\ k.id = id
    BY <2>1 DEF set_cookie, Cookie
  <2>3. sessions' = [sessions EXCEPT ![id] = [username |-> TRUE, old |-> FALSE]]
    BY <1>2, <2>1, CreateThenSet DEF TypeOK
  <2>4. answers' = answers \cup {[to |-> q.from, what |-> "logged_in", cookie |-> k]}
    BY <1>2 DEF Handle
  <2>5. q.from \in Clients
    BY DEF TypeOK
  <2>6. [username |-> TRUE, old |-> FALSE] \in Session
    BY DEF Session
  <2> HIDE DEF id, k
  <2>7. Live' = Live \cup {k.id}
    BY <2>1, <2>2, <2>3, <2>6, NoneAssumption DEF Live, TypeOK
  <2>8. Prompt!Issue(q.from, k)
    BY <2>4, <2>7 DEF Prompt!Issue, Prompt!Tell
  <2> QED BY <2>2, <2>5, <2>8 DEF Prompt!Next
<1>3. ASSUME NEW q \in requests, Handle(q, "login", "refused", None), UNCHANGED sessions
      PROVE  Prompt!Next
  <2>1. q.from \in Clients
    BY DEF TypeOK
  <2>2. Prompt!Refuse(q.from)
    BY <1>3 DEF Handle, Live, Prompt!Refuse, Prompt!Tell
  <2> QED BY <2>1, <2>2 DEF Prompt!Next
<1>4. ASSUME NEW q \in requests, handle_logout(q) PROVE Prompt!Next
  <2>1. q.from \in Clients /\ q.cookie \in Cookie \cup {None}
    BY DEF TypeOK
  <2>2. q.cookie # None => q.cookie.id \in Ids
    BY <2>1 DEF Cookie
  <2>3. Live' = IF q.cookie = None THEN Live ELSE Live \ {q.cookie.id}
    BY <1>4, <2>2 DEF handle_logout, destroy, Live, TypeOK
  <2>4. Prompt!Revoke(q.from, q.cookie)
    BY <1>4, <2>3 DEF handle_logout, Handle, Prompt!Revoke, Prompt!Tell
  <2> QED BY <2>1, <2>4 DEF Prompt!Next
<1>5. ASSUME NEW q \in requests, handle_whoami(q) PROVE Prompt!Next
  <2>1. q.from \in Clients /\ q.cookie \in Cookie \cup {None}
    BY DEF TypeOK
  <2>2. q.cookie # None => q.cookie.id \in Ids
    BY <2>1 DEF Cookie
  <2>3. Live' = Live
    BY <1>5, <2>2 DEF handle_whoami, get_mut, Live, TypeOK
  <2>4. q.cookie # None =>
          (get_value(sessions, q.cookie.id) <=> q.cookie.id \in Live)
    BY <2>2 DEF get_value, get_mut, Live, TypeOK, SessionsHaveNames, Session
  <2>5. Prompt!Query(q.from, q.cookie)
    BY <1>5, <2>3, <2>4 DEF handle_whoami, Handle, Prompt!Query, Prompt!Tell
  <2> QED BY <2>1, <2>5 DEF Prompt!Next
<1>6. ASSUME NEW q \in requests, LoseRequest(q) PROVE UNCHANGED <<Live, answers>>
  BY <1>6 DEF LoseRequest, Live
<1>7. ASSUME NEW a \in answers, Receive(a) \/ LoseAnswer(a) PROVE Prompt!Next
  <2>1. Prompt!Forget(a)
    BY <1>7 DEF Receive, LoseAnswer, Live, Prompt!Forget
  <2> QED BY <2>1 DEF Prompt!Next
<1>8. ASSUME NEW id \in Ids, Expire(id) PROVE Prompt!Next
  <2>1. Live' = Live \ {id}
    BY <1>8 DEF Expire, Live, TypeOK, Session
  <2>2. Prompt!Lapse(id)
    BY <1>8, <2>1 DEF Expire, Prompt!Lapse
  <2> QED BY <2>2 DEF Prompt!Next
<1>9. CASE UNCHANGED vars
  BY <1>9 DEF vars, Live
<1> QED BY <1>1, <1>2, <1>3, <1>4, <1>5, <1>6, <1>7, <1>8, <1>9 DEF Next, handle_login

\* Seen from the browsers, the store with its lazy eviction is Sessions: an expired
\* or logged out id is never answered with a name, a live one always is.
THEOREM Refinement == Spec => ImplementsSessions
<1>1. Init => Prompt!Init
  BY DEF Init, Live, Prompt!Init
<1> QED BY <1>1, InitInv, NextInv, StepRefines, PTL DEF Spec, ImplementsSessions, Prompt!Spec
=============================================================================
