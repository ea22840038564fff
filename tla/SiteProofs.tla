------------------------------ MODULE SiteProofs ------------------------------
(****************************************************************************)
(* Proofs about Site: a file is read as it is written, main starts threads  *)
(* for one that was accepted, what the threads do to the files follows it,  *)
(* and the histories kept of the files tell what was stored, read and       *)
(* missed.                                                                  *)
(****************************************************************************)
EXTENDS ConfigProofs

-----------------------------------------------------------------------------
(* Names and routes.                                                        *)

\* Without the slashes at its end a name is what stands before them.
LEMMA TrimKeepsTheFront ==
  ASSUME NEW L, NEW name \in Seq(L)
  PROVE  \E k \in 0 .. Len(name) :
           /\ Trim(name) = SubSeq(name, 1, k)
           /\ k = 0 \/ name[k] # Slash
           /\ \A i \in k + 1 .. Len(name) : name[i] = Slash
<1> DEFINE kept == {i \in DOMAIN name : name[i] # Slash}
           S == {0} \cup kept
           k == CHOOSE i \in S : \A j \in kept : j <= i
<1>1. S \subseteq Nat /\ S # {} /\ Len(name) \in Nat /\ \A i \in S : i <= Len(name)
  BY DOMAIN name = 1 .. Len(name)
<1>2. \E i \in S : \A j \in kept : j <= i
  <2> HIDE DEF S
  <2>1. PICK i \in S : \A j \in S : j <= i
    BY <1>1, GreatestElement
  <2> QED BY <2>1 DEF S
<1>3. k \in S /\ \A j \in kept : j <= k
  <2> HIDE DEF S, kept
  <2> QED BY <1>2
<1>4. Trim(name) = SubSeq(name, 1, k)
  BY DEF Trim
<1> HIDE DEF k
<1>5. k \in 0 .. Len(name) /\ (k = 0 \/ name[k] # Slash)
  BY <1>1, <1>3
<1>6. ASSUME NEW i \in k + 1 .. Len(name) PROVE name[i] = Slash
  <2>1. i \in 1 .. Len(name) /\ ~(i <= k)
    BY <1>1, <1>5
  <2> QED BY <1>3, <2>1
<1> QED BY <1>4, <1>5, <1>6

\* What is left of a name is made of the same characters.
LEMMA PartsOfNames ==
  ASSUME NEW L, NEW name \in Seq(L), NEW i \in Nat \ {0}, NEW j \in 0 .. Len(name)
  PROVE  SubSeq(name, i, j) \in Seq(L)
<1>1. \A x \in i .. j : name[x] \in L
  OBVIOUS
<1> QED BY <1>1, SubSeqProperties

LEMMA TrimType == ASSUME NEW L, NEW name \in Seq(L) PROVE Trim(name) \in Seq(L)
<1>1. PICK k \in 0 .. Len(name) : Trim(name) = SubSeq(name, 1, k)
  BY TrimKeepsTheFront
<1> QED BY <1>1, PartsOfNames, 1 \in Nat \ {0}

\* The words of the file and the paths of the requests have characters.
LEMMA CharsOf ==
  /\ \A w \in Words \cup {Empty} : w \in DOMAIN Chars
  /\ \A w \in DOMAIN Chars : Chars[w] \in Seq(Letters)
  /\ Slash \in Letters /\ IndexHtml \in Letters
  BY CharsAssumption

\* The path of a script behind its location.
LEMMA StripType ==
  ASSUME NEW path \in DOMAIN Chars, NEW prefix \in DOMAIN Chars
  PROVE  strip_location_prefix(path, prefix) \in Seq(Letters)
<1> DEFINE rest == SubSeq(Chars[path], Len(Chars[prefix]) + 1, Len(Chars[path]))
           kept == {i \in DOMAIN rest : rest[i] # Slash}
<1>1. rest \in Seq(Letters)
  <2>1. /\ Chars[path] \in Seq(Letters) /\ Len(Chars[prefix]) + 1 \in Nat \ {0}
        /\ Len(Chars[path]) \in 0 .. Len(Chars[path])
    BY CharsOf
  <2> QED BY <2>1, PartsOfNames
<1>2. strip_location_prefix(path, prefix) =
        IF kept = {} THEN << >> ELSE SubSeq(rest, Min(kept), Len(rest))
  BY DEF strip_location_prefix
<1> HIDE DEF rest
<1>3. CASE kept # {}
  <2> DEFINE first == Min(kept)
  <2>1. Len(rest) \in Nat /\ DOMAIN rest = 1 .. Len(rest)
    BY <1>1
  <2>2. first \in 1 .. Len(rest)
    <3>1. kept \subseteq 1 .. Len(rest) /\ kept \subseteq Nat
      BY <2>1
    <3> HIDE DEF kept
    <3>2. first \in kept
      BY <1>3, <3>1, MinIsLeast
    <3> HIDE DEF first
    <3> QED BY <3>1, <3>2
  <2>3. strip_location_prefix(path, prefix) = SubSeq(rest, first, Len(rest))
    <3> HIDE DEF kept
    <3> QED BY <1>2, <1>3
  <2> HIDE DEF first, kept
  <2>4. first \in Nat \ {0} /\ Len(rest) \in 0 .. Len(rest)
    BY <2>1, <2>2
  <2> QED BY <1>1, <2>3, <2>4, PartsOfNames
<1>4. CASE kept = {}
  <2> HIDE DEF kept
  <2> QED BY <1>2, <1>4
<1> QED BY <1>3, <1>4

\* match_location finds a location whose path begins the request's, of those the
\* ones with the longest path, of those the last.  fits and longest are its own.
Fits(path, locs) == {i \in DOMAIN locs : IsPrefix(Chars[locs[i].path], Chars[path])}
Longest(path, locs, i) ==
  \A k \in Fits(path, locs) :
    \/ Len(Chars[locs[k].path]) < Len(Chars[locs[i].path])
    \/ Len(Chars[locs[k].path]) = Len(Chars[locs[i].path]) /\ k <= i

LEMMA LocationsHavePaths ==
  ASSUME NEW locs \in Seq(Location), NEW i \in DOMAIN locs
  PROVE  /\ locs[i] \in Location
         /\ locs[i].path \in DOMAIN Chars /\ locs[i].root \in DOMAIN Chars
<1>1. locs[i] \in Location
  OBVIOUS
<1>2. locs[i].path \in Words \cup {Empty} /\ locs[i].root \in Words \cup {Empty}
  BY <1>1 DEF Location
<1> QED BY <1>1, <1>2, CharsOf

LEMMA TheLocationFound ==
  ASSUME NEW path \in DOMAIN Chars, NEW config \in Server
  PROVE  LET locs == config.locations IN
         \/ Fits(path, locs) = {} /\ match_location(path, config) = None
         \/ \E i \in Fits(path, locs) :
              Longest(path, locs, i) /\ match_location(path, config) = locs[i]
<1> DEFINE locs == config.locations
           fits == Fits(path, locs)
           length(i) == Len(Chars[locs[i].path])
           lengths == {length(i) : i \in fits}
           longest == Max(lengths)
           those == {i \in fits : length(i) = longest}
<1>1. locs \in Seq(Location) /\ Len(locs) \in Nat
  BY DEF Server
<1>2. /\ fits \subseteq Nat /\ \A i \in fits : i <= Len(locs)
      /\ \A i \in fits : length(i) \in Nat /\ length(i) <= Len(Chars[path])
  <2>1. ASSUME NEW i \in fits PROVE i \in 1 .. Len(locs)
    BY <1>1 DEF Fits
  <2>2. ASSUME NEW i \in fits PROVE length(i) \in Nat /\ length(i) <= Len(Chars[path])
    <3>1. locs[i].path \in DOMAIN Chars /\ IsPrefix(Chars[locs[i].path], Chars[path])
      BY <1>1, LocationsHavePaths DEF Fits
    <3>2. Chars[locs[i].path] \in Seq(Letters)
      BY <3>1, CharsOf
    <3> QED BY <3>1, <3>2 DEF IsPrefix
  <2> HIDE DEF locs, fits
  <2> QED BY <1>1, <2>1, <2>2
<1>3. match_location(path, config) = IF fits = {} THEN None ELSE locs[Max(those)]
  BY DEF match_location, Fits
<1> HIDE DEF locs, length
<1>4. CASE fits # {}
  <2>1. longest \in lengths /\ \A n \in lengths : n <= longest
    <3>1. Chars[path] \in Seq(Letters) /\ Len(Chars[path]) \in Nat
      BY CharsOf
    <3>2. lengths \subseteq Nat /\ lengths # {} /\ \A n \in lengths : n <= Len(Chars[path])
      <4> HIDE DEF fits
      <4> QED BY <1>2, <1>4
    <3> HIDE DEF lengths
    <3> QED BY <3>1, <3>2, MaxIsGreatest
  <2>2. \A i \in fits : length(i) <= longest
    <3> HIDE DEF longest
    <3> QED BY <2>1
  <2> DEFINE last == Max(those)
  <2>3. last \in those /\ \A i \in those : i <= last
    <3>1. those \subseteq Nat /\ those # {} /\ \A i \in those : i <= Len(locs)
      <4> HIDE DEF fits, longest
      <4> QED BY <1>2, <2>1
    <3> HIDE DEF those
    <3> QED BY <1>1, <3>1, MaxIsGreatest
  <2>4. last \in fits /\ \A k \in fits : length(k) < length(last)
                                         \/ (length(k) = length(last) /\ k <= last)
    <3> HIDE DEF last, fits, longest
    <3>1. last \in fits /\ length(last) = longest
      BY <2>3
    <3>2. ASSUME NEW k \in fits
          PROVE  length(k) < length(last) \/ (length(k) = length(last) /\ k <= last)
      <4>1. length(k) <= longest /\ length(k) \in Nat /\ longest \in Nat
        BY <1>2, <2>2, <3>1
      <4>2. CASE length(k) = longest
        <5>1. k \in those
          BY <4>2
        <5> HIDE DEF those
        <5> QED BY <2>3, <3>1, <4>2, <5>1
      <4> QED BY <3>1, <4>1, <4>2
    <3> QED BY <3>1, <3>2
  <2>5. match_location(path, config) = locs[last]
    <3> HIDE DEF fits, those
    <3> QED BY <1>3, <1>4
  <2>6. Longest(path, locs, last)
    <3> HIDE DEF last
    <3> QED BY <2>4 DEF Longest, length
  <2> HIDE DEF last
  <2> QED BY <2>4, <2>5, <2>6 DEF locs
<1>5. CASE fits = {}
  <2> HIDE DEF those
  <2> QED BY <1>3, <1>5 DEF locs
<1> QED BY <1>4, <1>5

\* The block of a group that match_config finds: the first that has the name, or the
\* first.
First(S) == CHOOSE i \in S : \A j \in S : i <= j

LEMMA TheBlockFound ==
  ASSUME NEW configs, DOMAIN configs \subseteq Nat, DOMAIN configs # {}, NEW host
  PROVE  LET named == {i \in DOMAIN configs : configs[i].server_name = host}
             those == IF named # {} THEN named ELSE DOMAIN configs IN
         /\ match_config(configs, host) = configs[First(those)]
         /\ First(those) \in those /\ \A i \in those : First(those) <= i
<1> DEFINE named == {i \in DOMAIN configs : configs[i].server_name = host}
           those == IF named # {} THEN named ELSE DOMAIN configs
<1>1. match_config(configs, host) = configs[Min(those)]
  BY DEF match_config
<1>2. those \subseteq Nat /\ those # {}
  OBVIOUS
<1> HIDE DEF those
<1>3. First(those) = Min(those)
  BY DEF First, Min
<1>4. Min(those) \in those /\ \A i \in those : Min(those) <= i
  BY <1>2, MinIsLeast
<1> QED BY <1>1, <1>3, <1>4 DEF those

\* Of the blocks of its address a thread serves a request by the first that has the
\* name asked for, or by the first.
Here(ss, a) == {i \in DOMAIN ss : addr(ss[i]) = a}
Named(ss, a, host) == {i \in Here(ss, a) : ss[i].server_name = host}
Block(ss, a, host) == First(IF Named(ss, a, host) # {} THEN Named(ss, a, host) ELSE Here(ss, a))

LEMMA BlockOfARequest ==
  ASSUME servers \in Seq(Server), NEW a \in Addrs, NEW host
  PROVE  /\ match_config(Group(a), host) = servers[Block(servers, a, host)]
         /\ Block(servers, a, host) \in DOMAIN servers
         /\ servers[Block(servers, a, host)] \in Server
<1> DEFINE here == {i \in DOMAIN servers : addr(servers[i]) = a}
           configs == Restrict(servers, here)
           named == {i \in DOMAIN configs : configs[i].server_name = host}
           those == IF named # {} THEN named ELSE DOMAIN configs
<1>1. here \subseteq DOMAIN servers /\ here # {} /\ here \subseteq Nat
  <2>1. DOMAIN servers \subseteq Nat
    OBVIOUS
  <2> QED BY <2>1 DEF Addrs
<1>2. DOMAIN configs = here /\ \A i \in here : configs[i] = servers[i]
  BY DEF Restrict
<1>3. match_config(Group(a), host) = configs[First(those)] /\ First(those) \in those
  <2>1. configs = Group(a)
    BY DEF Group
  <2>2. DOMAIN configs \subseteq Nat /\ DOMAIN configs # {}
    BY <1>1, <1>2
  <2> HIDE DEF configs
  <2>3. match_config(configs, host) = configs[First(those)] /\ First(those) \in those
    BY <2>2, TheBlockFound
  <2> HIDE DEF those
  <2> QED BY <2>1, <2>3
<1>4. named = Named(servers, a, host)
  <2> HIDE DEF configs
  <2> QED BY <1>2 DEF Named, Here
<1>5. Block(servers, a, host) = First(those)
  <2> HIDE DEF named, configs
  <2> QED BY <1>2, <1>4 DEF Block, Here
<1>6. First(those) \in here
  <2> HIDE DEF configs
  <2> QED BY <1>2, <1>3
<1> HIDE DEF those, configs, here
<1> QED BY <1>1, <1>2, <1>3, <1>5, <1>6

\* What respond decides.  Work is given to a handler only within the limit, and for
\* the location found, if it permits the method and does not redirect.
Within(req, config) == req.head + Len(req.body) <= config.client_max_body_size
ScriptName(req, loc) == Chars[loc.root] \o <<Slash>> \o strip_location_prefix(req.path, loc.path)
Permits(req, loc) == loc # None /\ is_method_allowed(req.method, loc) /\ loc.redirect = None

LEMMA WhatIsDecided ==
  ASSUME NEW req, NEW config, req.head \in Nat, Len(req.body) \in Nat,
         config.client_max_body_size \in Nat
  PROVE  LET plan == respond(req, config)
             loc == match_location(req.path, config) IN
         \/ plan = Answer(413) /\ ~Within(req, config)
         \/ /\ Within(req, config)
            /\ \/ \E code \in {301, 400, 404, 405} : plan = Answer(code)
               \/ plan = Work("session", << >>)
               \/ Permits(req, loc) /\ plan = Work("cgi", ScriptName(req, loc)) /\ loc.cgi # None
               \/ /\ Permits(req, loc) /\ req.method = "GET"
                  /\ plan = Work("serve_file", FileName(req.path, loc))
               \/ /\ Permits(req, loc) /\ req.method = "POST"
                  /\ plan = Work("handle_post", FileName(req.path, loc))
               \/ /\ Permits(req, loc) /\ req.method = "DELETE"
                  /\ plan = Work("handle_delete", FileName(req.path, loc))
<1> DEFINE loc == match_location(req.path, config)
           plan == handle_with_route(req, config)
<1>1. CASE ~Within(req, config)
  BY <1>1 DEF respond, Within
<1>2. CASE Within(req, config)
  <2>1. respond(req, config) = build_response(req, config)
    BY <1>2 DEF respond, Within
  <2>2. \/ build_response(req, config) \in {Answer(301), Work("session", << >>)}
        \/ loc = None /\ build_response(req, config) = plan
        \/ loc # None /\ loc.redirect = None /\ build_response(req, config) = plan
    BY DEF build_response
  <2>3. loc = None => plan = Answer(404)
    BY DEF handle_with_route
  <2>4. \/ plan \in {Answer(404), Answer(405), Answer(400)}
        \/ is_method_allowed(req.method, loc) /\ plan = Work("cgi", ScriptName(req, loc))
           /\ find_cgi(req.path, loc) # None
        \/ is_method_allowed(req.method, loc) /\ req.method = "GET"
           /\ plan = Work("serve_file", FileName(req.path, loc))
        \/ is_method_allowed(req.method, loc) /\ req.method = "POST"
           /\ plan = Work("handle_post", FileName(req.path, loc))
        \/ is_method_allowed(req.method, loc) /\ req.method = "DELETE"
           /\ plan = Work("handle_delete", FileName(req.path, loc))
    BY DEF handle_with_route, ScriptName
  <2>5. find_cgi(req.path, loc) # None => loc.cgi # None
    BY DEF find_cgi
  <2> HIDE DEF loc, plan
  <2> QED BY <1>2, <2>1, <2>2, <2>3, <2>4, <2>5 DEF Permits, loc
<1> QED BY <1>1, <1>2

-----------------------------------------------------------------------------
(* The shape of the state.                                                  *)

TreeShape ==
  /\ data \in Seq(Seq(Units))
  /\ \A n \in DOMAIN link : link[n] \in DOMAIN data /\ n \notin dirs

Entry == [by : Addrs, req : Request, did : Deeds, name : Seq(Letters),
          code : Nat, content : Seq(Units), begin : Nat, end : Nat]

ThreadShape ==
  /\ DOMAIN thread \in {{}, Addrs}
  /\ thread \in [DOMAIN thread -> {"starting", "running", "dead"}]
  /\ op \in [DOMAIN thread -> Op \cup {None}]
  /\ log \subseteq Entry
  /\ clock \in Nat

\* The file that a request under way has open is one.
FilesOpen ==
  \A a \in DOMAIN op : op[a] # None /\ op[a].phase \in {"read", "write"} => op[a].file \in DOMAIN data

\* Threads are there, and answer requests, only for a file that was accepted.
Started == DOMAIN thread # {} \/ log # {} => status = "ok" /\ tokens \in Served

Shape == ParserTypeOK /\ TreeShape /\ ThreadShape /\ FilesOpen /\ Started

LEMMA ShapeIsType == Shape => TypeOK
  BY DEF Shape, TypeOK, TreeShape, ThreadShape, Entry

\* A request under way, and what is known of its thread.
LEMMA UnderWay ==
  ASSUME Shape, NEW a \in DOMAIN thread, op[a] # None
  PROVE  /\ op[a] \in Op /\ op[a].req \in Request /\ op[a].name \in Seq(Letters)
         /\ op[a].req.path \in DOMAIN Chars
         /\ op[a].req.head \in Nat /\ op[a].req.body \in Seq(Units) /\ Len(op[a].req.body) \in Nat
         /\ op[a].file \in Nat /\ op[a].got \in Seq(Units) /\ op[a].begin \in Nat
         /\ a \in Addrs /\ DOMAIN op = DOMAIN thread /\ DOMAIN thread = Addrs
<1>1. op[a] \in Op /\ a \in Addrs /\ DOMAIN op = DOMAIN thread /\ DOMAIN thread = Addrs
  BY DEF Shape, ThreadShape
<1>2. /\ op[a].req \in Request /\ op[a].name \in Seq(Letters) /\ op[a].file \in Nat
      /\ op[a].got \in Seq(Units) /\ op[a].begin \in Nat
  BY <1>1 DEF Op
<1>3. /\ op[a].req.path \in DOMAIN Chars /\ op[a].req.head \in Nat
      /\ op[a].req.body \in Seq(Units) /\ Len(op[a].req.body) \in Nat
  <2>1. /\ op[a].req.path \in DOMAIN Chars /\ op[a].req.head \in Nat
        /\ op[a].req.body \in Seq(Units)
    BY <1>2 DEF Request
  <2> QED BY <2>1
<1> QED BY <1>1, <1>2, <1>3

LEMMA ReplyKeepsTheShape ==
  ASSUME Shape, NEW a \in DOMAIN thread, op[a] # None, NEW did \in Deeds, NEW code \in Nat,
         NEW content \in Seq(Units), Reply(a, did, code, content),
         TreeShape', DOMAIN data \subseteq DOMAIN data'
  PROVE  Shape'
<1>1. /\ op[a].req \in Request /\ op[a].name \in Seq(Letters) /\ op[a].begin \in Nat
      /\ a \in Addrs /\ DOMAIN op = DOMAIN thread
  BY UnderWay
<1>2. ParserTypeOK' /\ Started'
  BY DEF Reply, parserVars, Shape, ParserTypeOK, Started
<1>3. Addrs' = Addrs /\ Entry' = Entry /\ thread' = thread
  BY DEF Reply, parserVars, Addrs, addr, Entry
<1>4. clock' \in Nat /\ clock + 1 \in Nat
  BY DEF Reply, Shape, ThreadShape
<1>5. op' \in [DOMAIN thread -> Op \cup {None}]
  BY DEF Reply, Shape, ThreadShape
<1>6. log' \subseteq Entry
  <2>1. [by |-> a, req |-> op[a].req, did |-> did, name |-> op[a].name, code |-> code,
         content |-> content, begin |-> op[a].begin, end |-> clock + 1] \in Entry
    BY <1>1, <1>4 DEF Entry
  <2> QED BY <2>1 DEF Reply, Shape, ThreadShape
<1>7. ThreadShape'
  BY <1>3, <1>4, <1>5, <1>6 DEF ThreadShape, Shape
<1>8. FilesOpen'
  BY DEF FilesOpen, Shape, Reply
<1> QED BY <1>2, <1>7, <1>8 DEF Shape

\* The page for an error is a file or empty.
LEMMA ErrorsAreReplies ==
  ASSUME Shape, NEW a, NEW did, NEW code, error_response(a, did, code)
  PROVE  \E content \in Seq(Units) : Reply(a, did, code, content)
<1>1. << >> \in Seq(Units) /\ \A n \in DOMAIN link : data[link[n]] \in Seq(Units)
  BY DEF Shape, TreeShape
<1> QED BY <1>1 DEF error_response

LEMMA MoveKeepsTheShape ==
  ASSUME Shape, NEW a \in DOMAIN thread, NEW o \in Op, op' = [op EXCEPT ![a] = o],
         UNCHANGED <<parserVars, said, thread, log>>, clock' \in Nat,
         TreeShape', DOMAIN data \subseteq DOMAIN data',
         o.phase \in {"read", "write"} => o.file \in DOMAIN data'
  PROVE  Shape'
<1>1. ParserTypeOK' /\ Started'
  BY DEF parserVars, Shape, ParserTypeOK, Started
<1>2. Addrs' = Addrs /\ Entry' = Entry
  BY DEF parserVars, Addrs, addr, Entry
<1>3. ThreadShape'
  BY <1>2 DEF ThreadShape, Shape
<1>4. FilesOpen'
  BY DEF FilesOpen, Shape, ThreadShape
<1> QED BY <1>1, <1>3, <1>4 DEF Shape

LEMMA GotoKeepsTheShape ==
  ASSUME Shape, NEW a \in DOMAIN thread, op[a] # None, NEW phase \in Phases \ {"read", "write"},
         NEW name \in Seq(Letters), Goto(a, phase, name), UNCHANGED data, TreeShape'
  PROVE  Shape'
<1> DEFINE o == [op[a] EXCEPT !.phase = phase, !.name = name]
<1>1. op[a] \in Op
  BY UnderWay
<1>2. o \in Op /\ o.phase = phase
  BY <1>1 DEF Op
<1>3. op' = [op EXCEPT ![a] = o] /\ UNCHANGED <<parserVars, said, thread, log, clock>>
  BY DEF Goto
<1>4. clock' \in Nat
  BY <1>3 DEF Shape, ThreadShape
<1> HIDE DEF o
<1> QED BY <1>2, <1>3, <1>4, MoveKeepsTheShape

\* A thread that only looks leaves the files as they are.
LEMMA TreeStays == Shape /\ UNCHANGED treeVars => TreeShape' /\ data' = data
  BY DEF Shape, TreeShape, treeVars

\* The three calls that change files.
LEMMA MakingDirs ==
  ASSUME Shape, NEW name, CanMakeDirs(name), MakeDirs(name)
  PROVE  TreeShape' /\ data' = data
  BY DEF CanMakeDirs, MakeDirs, Shape, TreeShape

LEMMA Creating ==
  ASSUME Shape, NEW name, CanCreate(name), Create(name)
  PROVE  /\ TreeShape' /\ DOMAIN data \subseteq DOMAIN data'
         /\ name \in DOMAIN link' /\ link'[name] \in DOMAIN data' /\ link'[name] \in Nat
<1>1. data \in Seq(Seq(Units)) /\ << >> \in Seq(Units) /\ Len(data) \in Nat
  BY DEF Shape, TreeShape
<1>2. name \notin dirs /\ dirs' = dirs
  BY DEF CanCreate, Create
<1>3. CASE name \in DOMAIN link
  <2>1. link' = link /\ data' = [data EXCEPT ![link[name]] = << >>]
    BY <1>3 DEF Create
  <2>2. data' \in Seq(Seq(Units)) /\ DOMAIN data' = DOMAIN data /\ DOMAIN data \subseteq Nat
    <3>1. link[name] \in DOMAIN data
      BY <1>3 DEF Shape, TreeShape
    <3> QED BY <1>1, <2>1, <3>1
  <2> QED BY <1>2, <1>3, <2>1, <2>2 DEF Shape, TreeShape
<1>4. CASE name \notin DOMAIN link
  <2>1. /\ data' = Append(data, << >>)
        /\ link' = [n \in DOMAIN link \cup {name} |->
                      IF n = name THEN Len(data) + 1 ELSE link[n]]
    BY <1>4 DEF Create
  <2>2. /\ data' \in Seq(Seq(Units)) /\ DOMAIN data \subseteq DOMAIN data'
        /\ Len(data) + 1 \in DOMAIN data'
    BY <1>1, <2>1, AppendProperties
  <2>3. \A n \in DOMAIN link : link[n] \in DOMAIN data' /\ n \notin dirs
    BY <2>2 DEF Shape, TreeShape
  <2> QED BY <1>1, <1>2, <2>1, <2>2, <2>3 DEF TreeShape
<1> QED BY <1>3, <1>4

LEMMA Writing ==
  ASSUME Shape, NEW f \in DOMAIN data, NEW units \in Seq(Units), Write(f, units)
  PROVE  TreeShape' /\ DOMAIN data' = DOMAIN data
<1>1. data \in Seq(Seq(Units)) /\ data[f] \in Seq(Units)
  BY DEF Shape, TreeShape
<1> DEFINE tail == SubSeq(data[f], Len(units) + 1, Len(data[f]))
<1>2. tail \in Seq(Units)
  <2>1. Len(units) + 1 \in Nat \ {0} /\ Len(data[f]) \in 0 .. Len(data[f])
    BY <1>1
  <2> QED BY <1>1, <2>1, PartsOfNames
<1>3. data' = [data EXCEPT ![f] = units \o tail] /\ UNCHANGED <<dirs, link>>
  BY DEF Write
<1> HIDE DEF tail
<1>4. units \o tail \in Seq(Units)
  BY <1>2, ConcatProperties
<1>5. data' \in Seq(Seq(Units)) /\ DOMAIN data' = DOMAIN data
  BY <1>1, <1>3, <1>4
<1> QED BY <1>3, <1>5 DEF Shape, TreeShape

LEMMA Unlinking ==
  ASSUME Shape, NEW name, Unlink(name)
  PROVE  TreeShape' /\ data' = data
  BY DEF Unlink, Shape, TreeShape

\* What a thread is told to do.
LEMMA PlansAreTyped ==
  ASSUME Shape, NEW a \in DOMAIN thread, op[a] # None
  PROVE  \/ \E code \in {301, 400, 404, 405, 413} : Plan(a) = Answer(code)
         \/ \E what \in {"session", "cgi", "serve_file", "handle_post", "handle_delete"},
               name \in Seq(Letters) : Plan(a) = Work(what, name)
<1> DEFINE req == op[a].req
           config == Config(a)
           loc == match_location(req.path, config)
<1>1. /\ req.path \in DOMAIN Chars /\ req.head \in Nat /\ Len(req.body) \in Nat /\ a \in Addrs
  BY UnderWay
<1>2. config \in Server /\ config.client_max_body_size \in Nat
  <2>1. servers \in Seq(Server)
    BY DEF Shape, ParserTypeOK
  <2>2. config \in Server
    BY <1>1, <2>1, BlockOfARequest DEF Config
  <2> HIDE DEF config
  <2> QED BY <2>2 DEF Server
<1>3. loc # None => loc.path \in DOMAIN Chars /\ loc.root \in DOMAIN Chars
  <2> HIDE DEF config, req
  <2> DEFINE locs == config.locations
  <2>1. locs \in Seq(Location) /\ Fits(req.path, locs) \subseteq DOMAIN locs
    BY <1>2 DEF Server, Fits
  <2>2. loc # None => \E i \in DOMAIN locs : loc = locs[i]
    BY <1>1, <1>2, <2>1, TheLocationFound
  <2> HIDE DEF locs, loc
  <2> QED BY <2>1, <2>2, LocationsHavePaths
<1>4. loc # None => ScriptName(req, loc) \in Seq(Letters) /\ FileName(req.path, loc) \in Seq(Letters)
  <2> HIDE DEF loc, config, req
  <2> SUFFICES ASSUME loc # None
               PROVE  ScriptName(req, loc) \in Seq(Letters) /\ FileName(req.path, loc) \in Seq(Letters)
    OBVIOUS
  <2>1. /\ Chars[loc.root] \in Seq(Letters) /\ Chars[req.path] \in Seq(Letters)
        /\ <<Slash>> \in Seq(Letters)
        /\ strip_location_prefix(req.path, loc.path) \in Seq(Letters)
    BY <1>1, <1>3, CharsOf, StripType
  <2> QED BY <2>1, ConcatProperties DEF ScriptName, FileName
<1>5. Plan(a) = respond(req, config)
  BY DEF Plan
<1>6. << >> \in Seq(Letters)
  OBVIOUS
<1> HIDE DEF loc, config, req
<1>7. \/ Plan(a) = Answer(413)
      \/ \E code \in {301, 400, 404, 405} : Plan(a) = Answer(code)
      \/ Plan(a) = Work("session", << >>)
      \/ Permits(req, loc) /\ Plan(a) = Work("cgi", ScriptName(req, loc))
      \/ Permits(req, loc) /\ Plan(a) = Work("serve_file", FileName(req.path, loc))
      \/ Permits(req, loc) /\ Plan(a) = Work("handle_post", FileName(req.path, loc))
      \/ Permits(req, loc) /\ Plan(a) = Work("handle_delete", FileName(req.path, loc))
  <2> USE DEF loc
  <2> QED BY <1>1, <1>2, <1>5, WhatIsDecided
<1>8. Permits(req, loc) => ScriptName(req, loc) \in Seq(Letters)
                           /\ FileName(req.path, loc) \in Seq(Letters)
  BY <1>4 DEF Permits
<1>9. CASE \/ Plan(a) = Answer(413)
           \/ \E code \in {301, 400, 404, 405} : Plan(a) = Answer(code)
  BY <1>9
<1>10. CASE Plan(a) = Work("session", << >>)
  BY <1>6, <1>10
<1>11. CASE Permits(req, loc) /\ Plan(a) = Work("cgi", ScriptName(req, loc))
  BY <1>8, <1>11
<1>12. ASSUME NEW what \in {"serve_file", "handle_post", "handle_delete"}, Permits(req, loc),
              Plan(a) = Work(what, FileName(req.path, loc))
       PROVE  \E name \in Seq(Letters) : Plan(a) = Work(what, name)
  BY <1>8, <1>12
<1> QED BY <1>7, <1>9, <1>10, <1>11, <1>12

LEMMA ShapeAtFirst == Init => Shape
<1> SUFFICES ASSUME Init PROVE Shape
  OBVIOUS
<1>1. ParserTypeOK
  <2>1. tokens \in Seq(Marks \cup Words)
    BY TextsAssumption DEF Init, ParserInit
  <2>2. pos \in 1 .. Len(tokens) + 1
    BY <2>1 DEF Init, ParserInit
  <2>3. NewLocation(Empty) \in Location /\ NewServer \in Server /\ << >> \in Seq(Server)
    BY NewBlocks
  <2> QED BY <2>1, <2>2, <2>3 DEF Init, ParserInit, ParserTypeOK
<1>2. TreeShape
  <2> DEFINE Files == [name : Seq(Letters) \ SiteDirs, contents : Seq(Units)]
  <2>0. SiteFiles \in Seq(Files)
    BY FilesAssumption
  <2>1. \A i \in DOMAIN SiteFiles : /\ SiteFiles[i].name \notin SiteDirs
                                    /\ SiteFiles[i].contents \in Seq(Units)
    <3>1. \A i \in DOMAIN SiteFiles : SiteFiles[i] \in Files
      <4> HIDE DEF Files
      <4> QED BY <2>0
    <3> QED BY <3>1
  <2>2. data \in Seq(Seq(Units)) /\ DOMAIN data = DOMAIN SiteFiles
    <3>1. DOMAIN SiteFiles = 1 .. Len(SiteFiles) /\ Len(SiteFiles) \in Nat
      <4> HIDE DEF Files
      <4> QED BY <2>0
    <3>2. data = [i \in 1 .. Len(SiteFiles) |-> SiteFiles[i].contents]
      BY <3>1 DEF Init
    <3>3. \A i \in 1 .. Len(SiteFiles) : SiteFiles[i].contents \in Seq(Units)
      BY <2>1, <3>1
    <3> QED BY <3>1, <3>2, <3>3
  <2>3. ASSUME NEW n \in DOMAIN link PROVE link[n] \in DOMAIN data /\ n \notin dirs
    <3>1. PICK i \in DOMAIN SiteFiles : SiteFiles[i].name = n
      BY DEF Init
    <3>2. link[n] = CHOOSE j \in DOMAIN SiteFiles : SiteFiles[j].name = n
      BY DEF Init
    <3> QED BY <2>1, <2>2, <3>1, <3>2 DEF Init
  <2> QED BY <2>2, <2>3 DEF TreeShape
<1>3. DOMAIN thread = {} /\ DOMAIN op = {} /\ log = {}
  BY DEF Init
<1>4. ThreadShape
  BY <1>3 DEF Init, ThreadShape
<1> QED BY <1>1, <1>2, <1>3, <1>4 DEF Shape, FilesOpen, Started

LEMMA ShapeKeptByMain ==
  ASSUME Shape
  PROVE  /\ Parse => Shape'
         /\ main => Shape'
         /\ \A a \in DOMAIN thread : Bind(a) => Shape'
         /\ \A a \in DOMAIN thread : \A r \in Requests[tokens] : Begin(a, r) => Shape'
<1>1. ASSUME Parse PROVE Shape'
  <2>1. DOMAIN thread = {} /\ log = {} /\ UNCHANGED siteVars /\ UNCHANGED treeVars
    BY <1>1 DEF Parse, ParserNext, parse_config, parse_server, parse_location, Parsing,
                Shape, Started
  <2>2. ParserTypeOK'
    BY <1>1, ParserKeepsItsShape DEF Parse, Shape
  <2>3. TreeShape'
    BY <2>1, TreeStays
  <2>4. ThreadShape' /\ FilesOpen' /\ Started'
    BY <2>1 DEF siteVars, Shape, ThreadShape, FilesOpen, Started
  <2> QED BY <2>2, <2>3, <2>4 DEF Shape
<1>2. ASSUME main PROVE Shape'
  <2>1. /\ UNCHANGED <<parserVars, treeVars, log, clock>> /\ status = "ok" /\ tokens \in Served
        /\ thread' = [a \in Addrs |-> "starting"] /\ op' = [a \in Addrs |-> None]
    BY <1>2 DEF main
  <2>2. ParserTypeOK' /\ Started' /\ Addrs' = Addrs /\ Entry' = Entry
    BY <2>1 DEF parserVars, Shape, ParserTypeOK, Started, Addrs, addr, Entry
  <2>3. ThreadShape'
    BY <2>1, <2>2 DEF Shape, ThreadShape
  <2>4. FilesOpen'
    BY <2>1 DEF FilesOpen
  <2> QED BY <2>1, <2>2, <2>3, <2>4, TreeStays DEF Shape
<1>3. ASSUME NEW a \in DOMAIN thread, Bind(a) PROVE Shape'
  <2>1. /\ UNCHANGED <<parserVars, treeVars, op, log, clock>>
        /\ \E t \in {"running", "dead"} : thread' = [thread EXCEPT ![a] = t]
    BY <1>3 DEF Bind
  <2>2. DOMAIN thread' = DOMAIN thread
    BY <2>1 DEF Shape, ThreadShape
  <2>3. ParserTypeOK' /\ Started' /\ Addrs' = Addrs /\ Entry' = Entry
    BY <2>1, <2>2 DEF parserVars, Shape, ParserTypeOK, Started, Addrs, addr, Entry
  <2>4. ThreadShape'
    BY <2>1, <2>2, <2>3 DEF Shape, ThreadShape
  <2>5. FilesOpen'
    BY <2>1, TreeStays DEF FilesOpen, Shape
  <2> QED BY <2>1, <2>3, <2>4, <2>5, TreeStays DEF Shape
<1>4. ASSUME NEW a \in DOMAIN thread, NEW r \in Requests[tokens], Begin(a, r) PROVE Shape'
  <2> DEFINE o == [req |-> r, phase |-> "decide", name |-> << >>, file |-> 0, got |-> << >>,
                   begin |-> clock + 1]
  <2>1. /\ UNCHANGED <<parserVars, treeVars, said, thread, log>> /\ clock' = clock + 1
        /\ op' = [op EXCEPT ![a] = o]
    BY <1>4 DEF Begin
  <2>2. tokens \in Served
    BY DEF Shape, Started
  <2>3. r \in Request /\ clock + 1 \in Nat
    BY <2>2, ServedAssumption DEF Shape, ThreadShape
  <2>4. o \in Op /\ o.phase \notin {"read", "write"}
    BY <2>3 DEF Op, Phases
  <2> HIDE DEF o
  <2>5. TreeShape' /\ data' = data
    BY <2>1, TreeStays
  <2> QED BY <2>1, <2>3, <2>4, <2>5, MoveKeepsTheShape
<1> QED BY <1>1, <1>2, <1>3, <1>4

LEMMA ShapeKeptByHandlers ==
  ASSUME Shape, NEW a \in DOMAIN thread, Handle(a)
  PROVE  Shape'
<1>1. op[a] # None
  BY DEF Handle, Decide, RunScript, serve_file_Metadata, serve_file_Trimmed, serve_file_Open,
         serve_file_Read, serve_directory, handle_post_MakeDirs, handle_post_Create,
         handle_post_Write, handle_post_WriteFails, handle_delete, In
<1>2. /\ op[a] \in Op /\ op[a].name \in Seq(Letters) /\ op[a].req.body \in Seq(Units)
      /\ Len(op[a].req.body) \in Nat
      /\ op[a].got \in Seq(Units) /\ << >> \in Seq(Units)
      /\ DOMAIN op = DOMAIN thread /\ clock \in Nat
  BY <1>1, UnderWay DEF Shape, ThreadShape
<1>r. ASSUME NEW did \in Deeds, NEW code \in Nat, NEW content \in Seq(Units),
             Reply(a, did, code, content), TreeShape', DOMAIN data \subseteq DOMAIN data'
      PROVE  Shape'
  BY <1>1, <1>r, ReplyKeepsTheShape
<1>3. ASSUME NEW did \in Deeds, NEW code \in Nat, error_response(a, did, code),
             TreeShape', DOMAIN data \subseteq DOMAIN data'
      PROVE  Shape'
  <2>1. PICK content \in Seq(Units) : Reply(a, did, code, content)
    BY <1>3, ErrorsAreReplies
  <2> QED BY <1>3, <1>r, <2>1
<1>e. ASSUME NEW did \in Deeds, NEW code \in {200, 301, 413}, Reply(a, did, code, << >>),
             TreeShape', DOMAIN data \subseteq DOMAIN data'
      PROVE  Shape'
  <2>1. << >> \in Seq(Units) /\ code \in Nat
    OBVIOUS
  <2> QED BY <1>e, <1>r, <2>1
<1>d. /\ "answer" \in Deeds /\ "session" \in Deeds /\ "cgi" \in Deeds
      /\ "serve_file" \in Deeds /\ "serve_directory" \in Deeds
      /\ "handle_post" \in Deeds /\ "handle_delete" \in Deeds /\ "io_error" \in Deeds
  BY DEF Deeds
<1>4. ASSUME NEW o \in Op, op' = [op EXCEPT ![a] = o],
             UNCHANGED <<parserVars, said, thread, log, clock>>,
             TreeShape', DOMAIN data \subseteq DOMAIN data',
             o.phase \in {"read", "write"} => o.file \in DOMAIN data'
      PROVE  Shape'
  <2>1. clock' \in Nat
    BY <1>2, <1>4
  <2> QED BY <1>4, <2>1, MoveKeepsTheShape
<1>5. UNCHANGED treeVars => TreeShape' /\ data' = data /\ DOMAIN data \subseteq DOMAIN data'
  BY TreeStays
<1>6. CASE Decide(a)
  <2>1. UNCHANGED treeVars
    BY <1>6 DEF Decide
  <2>2. ASSUME NEW code \in {301, 413}, Reply(a, "answer", code, << >>) PROVE Shape'
    BY <1>d, <1>e, <1>5, <2>1, <2>2
  <2>3. ASSUME NEW code \in {400, 404, 405}, error_response(a, "answer", code) PROVE Shape'
    BY <1>d, <1>3, <1>5, <2>1, <2>3
  <2>4. CASE Reply(a, "session", 200, << >>)
    BY <1>d, <1>e, <1>5, <2>1, <2>4
  <2>5. CASE error_response(a, "session", 403)
    BY <1>d, <1>3, <1>5, <2>1, <2>5
  <2>6. ASSUME NEW phase \in {"cgi", "serve_file", "handle_post", "handle_delete"},
               NEW name \in Seq(Letters), Goto(a, phase, name)
        PROVE  Shape'
    <3>1. phase \in Phases \ {"read", "write"}
      BY DEF Phases
    <3> QED BY <1>1, <1>5, <2>1, <2>6, <3>1, GotoKeepsTheShape
  <2>7. \/ Plan(a).do = "answer" /\ Plan(a).status \in {301, 413}
             /\ Reply(a, "answer", Plan(a).status, << >>)
        \/ Plan(a).do = "answer" /\ Plan(a).status \notin {301, 413}
             /\ error_response(a, "answer", Plan(a).status)
        \/ Reply(a, "session", 200, << >>)
        \/ error_response(a, "session", 403)
        \/ /\ Plan(a).do \in {"cgi", "serve_file", "handle_post", "handle_delete"}
           /\ Goto(a, Plan(a).do, Plan(a).name)
    BY <1>6 DEF Decide
  <2>8. /\ Plan(a).do = "answer" => Plan(a).status \in {301, 400, 404, 405, 413}
        /\ Plan(a).do # "answer" => Plan(a).name \in Seq(Letters)
    BY <1>1, PlansAreTyped DEF Answer, Work
  <2> QED BY <2>2, <2>3, <2>4, <2>5, <2>6, <2>7, <2>8
<1>7. CASE RunScript(a)
  <2>1. UNCHANGED treeVars /\ \E code \in Nat : Reply(a, "cgi", code, << >>)
    BY <1>7 DEF RunScript
  <2> QED BY <1>d, <1>r, <1>2, <1>5, <2>1
<1>8. ASSUME NEW kind, FoundAs(a, kind), UNCHANGED treeVars PROVE Shape'
  <2>1. Trim(op[a].name) \o <<Slash, IndexHtml>> \in Seq(Letters)
    <3>1. Trim(op[a].name) \in Seq(Letters) /\ <<Slash, IndexHtml>> \in Seq(Letters)
      BY <1>2, TrimType, CharsOf
    <3> QED BY <3>1, ConcatProperties
  <2>2. "index" \in Phases \ {"read", "write"} /\ "open" \in Phases \ {"read", "write"}
    BY DEF Phases
  <2> QED BY <1>1, <1>2, <1>5, <1>8, <2>1, <2>2, GotoKeepsTheShape DEF FoundAs
<1>9. CASE serve_file_Metadata(a)
  <2>1. "trimmed" \in Phases \ {"read", "write"} /\ "retry" \in Phases \ {"read", "write"}
    BY DEF Phases
  <2> QED BY <1>1, <1>2, <1>5, <1>8, <1>9, <2>1, GotoKeepsTheShape DEF serve_file_Metadata
<1>10. CASE serve_file_Trimmed(a)
  <2>1. UNCHANGED treeVars
    BY <1>10 DEF serve_file_Trimmed
  <2>2. \/ \E kind : FoundAs(a, kind)
        \/ \E did \in {"serve_file", "io_error"} : error_response(a, did, 404)
    BY <1>10 DEF serve_file_Trimmed
  <2> QED BY <1>d, <1>3, <1>5, <1>8, <2>1, <2>2
<1>11. CASE serve_file_Open(a)
  <2> DEFINE name == op[a].name
             o == [op[a] EXCEPT !.phase = "read", !.file = link[name]]
  <2>1. UNCHANGED treeVars
    BY <1>11 DEF serve_file_Open
  <2>2. CASE /\ name \in DOMAIN link /\ op' = [op EXCEPT ![a].phase = "read", ![a].file = link[name]]
             /\ UNCHANGED <<parserVars, said, thread, log, clock>>
    <3>1. link[name] \in DOMAIN data /\ link[name] \in Nat
      BY <2>2 DEF Shape, TreeShape
    <3>2. o \in Op /\ o.file = link[name]
      BY <1>2, <3>1 DEF Op, Phases
    <3>3. op' = [op EXCEPT ![a] = o]
      BY <2>2
    <3> HIDE DEF o
    <3> QED BY <1>4, <1>5, <2>1, <2>2, <3>1, <3>2, <3>3
  <2>3. CASE error_response(a, "serve_file", 404) \/ error_response(a, "io_error", 404)
    BY <1>d, <1>3, <1>5, <2>1, <2>3
  <2>4. CASE Goto(a, "list", name)
    <3>1. "list" \in Phases \ {"read", "write"}
      BY DEF Phases
    <3> QED BY <1>1, <1>2, <1>5, <2>1, <2>4, <3>1, GotoKeepsTheShape
  <2> QED BY <1>11, <2>2, <2>3, <2>4 DEF serve_file_Open
<1>12. CASE serve_file_Read(a)
  <2> DEFINE at == Len(op[a].got) + 1
             contents == data[op[a].file]
             o == [op[a] EXCEPT !.got = Append(@, contents[at])]
  <2>1. UNCHANGED treeVars /\ op[a].phase = "read"
    BY <1>12 DEF serve_file_Read, In
  <2>2. op[a].file \in DOMAIN data /\ contents \in Seq(Units)
    BY <1>1, <1>2, <2>1 DEF Shape, FilesOpen, TreeShape
  <2>3. CASE /\ at \in DOMAIN contents /\ op' = [op EXCEPT ![a].got = Append(@, contents[at])]
             /\ UNCHANGED <<parserVars, said, thread, log, clock>>
    <3>1. Append(op[a].got, contents[at]) \in Seq(Units)
      BY <1>2, <2>2, <2>3, AppendProperties
    <3>2. o \in Op /\ o.file = op[a].file
      BY <1>2, <3>1 DEF Op
    <3>3. op' = [op EXCEPT ![a] = o]
      BY <2>3
    <3> HIDE DEF o
    <3> QED BY <1>4, <1>5, <2>1, <2>2, <2>3, <3>2, <3>3
  <2>4. CASE Reply(a, "serve_file", 200, op[a].got)
    BY <1>d, <1>r, <1>2, <1>5, <2>1, <2>4
  <2> QED BY <1>12, <2>3, <2>4 DEF serve_file_Read
<1>13. CASE serve_directory(a)
  <2>1. UNCHANGED treeVars /\ (\/ Reply(a, "serve_directory", 200, << >>)
                               \/ error_response(a, "serve_directory", 403)
                               \/ error_response(a, "serve_directory", 500))
    BY <1>13 DEF serve_directory
  <2>2. CASE Reply(a, "serve_directory", 200, << >>)
    BY <1>d, <1>e, <1>5, <2>1, <2>2
  <2> QED BY <1>d, <1>3, <1>5, <2>1, <2>2
<1>14. CASE handle_post_MakeDirs(a)
  <2>1. CASE /\ CanMakeDirs(op[a].name) /\ MakeDirs(op[a].name) /\ Goto(a, "create", op[a].name)
    <3>1. "create" \in Phases \ {"read", "write"}
      BY DEF Phases
    <3>2. TreeShape' /\ data' = data
      BY <2>1, MakingDirs
    <3> QED BY <1>1, <1>2, <2>1, <3>1, <3>2, GotoKeepsTheShape
  <2>2. ASSUME NEW n, CanMakeDirs(n), MakeDirs(n), error_response(a, "handle_post", 500)
        PROVE  Shape'
    <3>1. TreeShape' /\ data' = data
      BY <2>2, MakingDirs
    <3> QED BY <1>d, <1>3, <2>2, <3>1
  <2> QED BY <1>d, <1>3, <1>5, <1>14, <2>1, <2>2 DEF handle_post_MakeDirs
<1>15. CASE handle_post_Create(a)
  <2> DEFINE name == op[a].name
             o == [op[a] EXCEPT !.phase = "write", !.file = link'[name]]
  <2>1. CASE /\ CanCreate(name) /\ Create(name)
             /\ op' = [op EXCEPT ![a].phase = "write", ![a].file = link'[name]]
             /\ UNCHANGED <<parserVars, said, thread, log, clock>>
    <3>1. /\ TreeShape' /\ DOMAIN data \subseteq DOMAIN data'
          /\ link'[name] \in DOMAIN data' /\ link'[name] \in Nat
      BY <2>1, Creating
    <3>2. o \in Op /\ o.file = link'[name]
      BY <1>2, <3>1 DEF Op, Phases
    <3>3. op' = [op EXCEPT ![a] = o]
      BY <2>1
    <3> HIDE DEF o
    <3> QED BY <1>4, <2>1, <3>1, <3>2, <3>3
  <2> QED BY <1>d, <1>3, <1>5, <1>15, <2>1 DEF handle_post_Create
<1>16. CASE handle_post_Write(a)
  <2>1. /\ op[a].phase = "write" /\ Write(op[a].file, op[a].req.body)
        /\ Reply(a, "handle_post", 200, << >>)
    BY <1>16 DEF handle_post_Write, In
  <2>2. op[a].file \in DOMAIN data
    BY <1>1, <1>2, <2>1 DEF Shape, FilesOpen
  <2>3. TreeShape' /\ DOMAIN data' = DOMAIN data
    BY <1>2, <2>1, <2>2, Writing
  <2> QED BY <1>d, <1>e, <2>1, <2>3
<1>17. CASE handle_post_WriteFails(a)
  <2>1. op[a].phase = "write" /\ error_response(a, "handle_post", 500)
    BY <1>17 DEF handle_post_WriteFails, In
  <2>2. PICK n \in 0 .. Len(op[a].req.body) - 1 : Write(op[a].file, SubSeq(op[a].req.body, 1, n))
    BY <1>17 DEF handle_post_WriteFails
  <2>3. op[a].file \in DOMAIN data
    BY <1>1, <1>2, <2>1 DEF Shape, FilesOpen
  <2>4. SubSeq(op[a].req.body, 1, n) \in Seq(Units)
    <3>1. n \in 0 .. Len(op[a].req.body) /\ 1 \in Nat \ {0}
      BY <1>2
    <3> QED BY <1>2, <3>1, PartsOfNames
  <2>5. TreeShape' /\ DOMAIN data' = DOMAIN data
    BY <2>2, <2>3, <2>4, Writing
  <2> QED BY <1>d, <1>3, <2>1, <2>5
<1>18. CASE handle_delete(a)
  <2>1. CASE Unlink(op[a].name) /\ Reply(a, "handle_delete", 200, << >>)
    BY <1>d, <1>e, <2>1, Unlinking
  <2> QED BY <1>d, <1>3, <1>5, <1>18, <2>1 DEF handle_delete
<1> QED BY <1>6, <1>7, <1>9, <1>10, <1>11, <1>12, <1>13, <1>14, <1>15, <1>16, <1>17, <1>18
        DEF Handle

LEMMA ShapeKept == Shape /\ [Next]_vars => Shape'
<1> SUFFICES ASSUME Shape, [Next]_vars PROVE Shape'
  OBVIOUS
<1>1. CASE UNCHANGED vars
  <2>1. ParserTypeOK' /\ TreeShape'
    BY <1>1, TreeStays DEF vars, parserVars, Shape, ParserTypeOK
  <2>2. ThreadShape' /\ FilesOpen' /\ Started'
    BY <1>1 DEF vars, parserVars, siteVars, treeVars, Shape, ThreadShape, Entry, Addrs, addr,
                FilesOpen, Started
  <2> QED BY <2>1, <2>2 DEF Shape
<1> QED BY <1>1, ShapeKeptByMain, ShapeKeptByHandlers DEF Next

\* Every step keeps the shape of the state: the parser never leaves the file, main
\* starts one thread for each address, and a handler works on a file that is there.
THEOREM SiteTypeCorrect == Spec => []TypeOK
<1>1. Spec => []Shape
  BY ShapeAtFirst, ShapeKept, PTL DEF Spec
<1> QED BY <1>1, ShapeIsType, PTL

-----------------------------------------------------------------------------
(* What is done follows the blocks that were read.                          *)

\* The block and the location of a request, by the blocks ss.
ConfigOf(ss, by, req) == ss[Block(ss, by, req.host)]
LocOf(ss, by, req) == match_location(req.path, ConfigOf(ss, by, req))
IndexName(req, loc) == Trim(FileName(req.path, loc)) \o <<Slash, IndexHtml>>

\* What a request is at, or what was done for it, is within the limit, permitted by
\* its location, and under the name that the location gives.
AsLocated(ss, by, req, what, name) ==
  LET loc == LocOf(ss, by, req) IN
  /\ Within(req, ConfigOf(ss, by, req)) /\ Permits(req, loc)
  /\ what = "cgi" => loc.cgi # None /\ name = ScriptName(req, loc)
  /\ what \in {"serve_file", "trimmed", "retry", "open"} =>
       req.method = "GET" /\ name = FileName(req.path, loc)
  /\ what \in {"index", "list", "serve_directory"} =>
       req.method = "GET" /\ name = IndexName(req, loc)
  /\ what = "read" => req.method = "GET" /\ name \in {FileName(req.path, loc), IndexName(req, loc)}
  /\ what \in {"handle_post", "create", "write"} =>
       req.method = "POST" /\ name = FileName(req.path, loc)
  /\ what = "handle_delete" => req.method = "DELETE" /\ name = FileName(req.path, loc)
  /\ what = "io_error" => req.method \in {"GET", "DELETE"} /\ name = FileName(req.path, loc)

OpsFollow ==
  \A a \in DOMAIN op : op[a] # None /\ op[a].phase # "decide" =>
    AsLocated(servers, a, op[a].req, op[a].phase, op[a].name)

Done(did, code) == IF did = "serve_file" /\ code = 200 THEN "read" ELSE did

Faithful(ss, by, req, did, name, code) ==
  /\ did \notin {"answer", "session"} => AsLocated(ss, by, req, Done(did, code), name)
  /\ did = "serve_directory" /\ code = 200 => LocOf(ss, by, req).autoindex
  /\ code # 413 => Within(req, ConfigOf(ss, by, req))

LogFollows == \A l \in log : Faithful(servers, l.by, l.req, l.did, l.name, l.code)

\* The threads serve what the file says, if the parser reads what it says.
SaidIsServed == DOMAIN thread # {} \/ log # {} => said = servers

LEMMA FollowingReplies ==
  ASSUME OpsFollow, LogFollows, NEW a, NEW did, NEW code, NEW content, Reply(a, did, code, content),
         Faithful(servers, a, op[a].req, did, op[a].name, code)
  PROVE  OpsFollow' /\ LogFollows'
<1>1. servers' = servers
  BY DEF Reply, parserVars
<1>2. OpsFollow'
  BY <1>1 DEF OpsFollow, Reply
<1>3. LogFollows'
  BY <1>1 DEF LogFollows, Reply
<1> QED BY <1>2, <1>3

LEMMA FollowingMoves ==
  ASSUME OpsFollow, LogFollows, NEW a, NEW o, op' = [op EXCEPT ![a] = o], UNCHANGED <<parserVars, log>>,
         o.phase # "decide" => AsLocated(servers, a, o.req, o.phase, o.name)
  PROVE  OpsFollow' /\ LogFollows'
<1>1. servers' = servers
  BY DEF parserVars
<1>2. OpsFollow'
  BY <1>1 DEF OpsFollow
<1>3. LogFollows'
  BY <1>1 DEF LogFollows
<1> QED BY <1>2, <1>3

\* What a thread has decided is located.
LEMMA DecidedAsLocated ==
  ASSUME Shape, NEW a \in DOMAIN thread, op[a] # None
  PROVE  LET req == op[a].req  plan == Plan(a) IN
         \/ /\ plan.do = "answer"
            /\ plan.status # 413 => Within(req, ConfigOf(servers, a, req))
         \/ plan.do = "session" /\ Within(req, ConfigOf(servers, a, req))
         \/ /\ plan.do \in {"cgi", "serve_file", "handle_post", "handle_delete"}
            /\ AsLocated(servers, a, req, plan.do, plan.name)
<1> DEFINE req == op[a].req
           config == ConfigOf(servers, a, req)
           loc == LocOf(servers, a, req)
<1>1. req.path \in DOMAIN Chars /\ req.head \in Nat /\ Len(req.body) \in Nat /\ a \in Addrs
  BY UnderWay
<1>2. Config(a) = config /\ config \in Server
  <2>1. servers \in Seq(Server)
    BY DEF Shape, ParserTypeOK
  <2> QED BY <1>1, <2>1, BlockOfARequest DEF Config, ConfigOf
<1>3. config.client_max_body_size \in Nat
  <2> HIDE DEF config
  <2> QED BY <1>2 DEF Server
<1>4. Plan(a) = respond(req, config) /\ loc = match_location(req.path, config)
  BY <1>2 DEF Plan, LocOf
<1> HIDE DEF req, config, loc
<1>5. \/ Plan(a) = Answer(413)
      \/ Within(req, config) /\ \E code \in {301, 400, 404, 405} : Plan(a) = Answer(code)
      \/ Within(req, config) /\ Plan(a) = Work("session", << >>)
      \/ /\ Within(req, config) /\ Permits(req, loc)
         /\ \/ Plan(a) = Work("cgi", ScriptName(req, loc)) /\ loc.cgi # None
            \/ Plan(a) = Work("serve_file", FileName(req.path, loc)) /\ req.method = "GET"
            \/ Plan(a) = Work("handle_post", FileName(req.path, loc)) /\ req.method = "POST"
            \/ Plan(a) = Work("handle_delete", FileName(req.path, loc)) /\ req.method = "DELETE"
  BY <1>1, <1>3, <1>4, WhatIsDecided
<1>6. CASE Plan(a) = Answer(413)
  BY <1>6 DEF Answer
<1>7. CASE Within(req, config) /\ \E code \in {301, 400, 404, 405} : Plan(a) = Answer(code)
  BY <1>7 DEF Answer, req, config
<1>8. CASE Within(req, config) /\ Plan(a) = Work("session", << >>)
  BY <1>8 DEF Work, req, config
<1>9. CASE Within(req, config) /\ Permits(req, loc)
           /\ Plan(a) = Work("cgi", ScriptName(req, loc)) /\ loc.cgi # None
  <2>1. Plan(a).do = "cgi" /\ Plan(a).name = ScriptName(req, loc)
    BY <1>9 DEF Work
  <2>2. AsLocated(servers, a, req, "cgi", ScriptName(req, loc))
    BY <1>9 DEF AsLocated, loc, config
  <2> QED BY <2>1, <2>2 DEF req
<1>10. ASSUME NEW what, Within(req, config), Permits(req, loc),
              Plan(a) = Work(what, FileName(req.path, loc)),
              \/ what = "serve_file" /\ req.method = "GET"
              \/ what = "handle_post" /\ req.method = "POST"
              \/ what = "handle_delete" /\ req.method = "DELETE"
       PROVE  /\ Plan(a).do \in {"cgi", "serve_file", "handle_post", "handle_delete"}
              /\ AsLocated(servers, a, req, Plan(a).do, Plan(a).name)
  <2>1. Plan(a).do = what /\ Plan(a).name = FileName(req.path, loc)
    BY <1>10 DEF Work
  <2>2. AsLocated(servers, a, req, what, FileName(req.path, loc))
    BY <1>10 DEF AsLocated, loc, config
  <2> QED BY <1>10, <2>1, <2>2
<1> QED BY <1>5, <1>6, <1>7, <1>8, <1>9, <1>10 DEF req

LEMMA HandlersFollow ==
  ASSUME Shape, OpsFollow, LogFollows, NEW a \in DOMAIN thread, Handle(a)
  PROVE  OpsFollow' /\ LogFollows'
<1> DEFINE req == op[a].req
           name == op[a].name
           phase == op[a].phase
           Goal == OpsFollow' /\ LogFollows'
<1> SUFFICES Goal
  OBVIOUS
<1> HIDE DEF Goal
<1>1. op[a] # None
  BY DEF Handle, Decide, RunScript, serve_file_Metadata, serve_file_Trimmed, serve_file_Open,
         serve_file_Read, serve_directory, handle_post_MakeDirs, handle_post_Create,
         handle_post_Write, handle_post_WriteFails, handle_delete, In
<1>2. op[a] \in Op /\ a \in DOMAIN op
  BY <1>1, UnderWay
<1>3. phase # "decide" => AsLocated(servers, a, req, phase, name)
  BY <1>1, <1>2 DEF OpsFollow
<1>4. ASSUME NEW did, NEW code, NEW content, Reply(a, did, code, content),
             Faithful(servers, a, req, did, name, code)
      PROVE  Goal
  BY <1>4, FollowingReplies DEF Goal
<1>5. ASSUME NEW did, NEW code, error_response(a, did, code),
             Faithful(servers, a, req, did, name, code)
      PROVE  Goal
  BY <1>4, <1>5, ErrorsAreReplies
<1>6. ASSUME NEW next, NEW n, Goto(a, next, n), AsLocated(servers, a, req, next, n)
      PROVE  Goal
  <2> DEFINE o == [op[a] EXCEPT !.phase = next, !.name = n]
  <2>1. o.req = req /\ o.phase = next /\ o.name = n
    BY <1>2 DEF Op
  <2>2. op' = [op EXCEPT ![a] = o] /\ UNCHANGED <<parserVars, log>>
    BY <1>6 DEF Goto
  <2> HIDE DEF o
  <2> QED BY <1>6, <2>1, <2>2, FollowingMoves DEF Goal
<1>7. CASE Decide(a)
  <2>1. ASSUME NEW code, code = 413 \/ Within(req, ConfigOf(servers, a, req)),
               NEW did \in {"answer", "session"}
        PROVE  Faithful(servers, a, req, did, name, code)
    BY <2>1 DEF Faithful
  <2>2. \/ Plan(a).do = "answer" /\ \E content : Reply(a, "answer", Plan(a).status, content)
        \/ Plan(a).do = "answer" /\ error_response(a, "answer", Plan(a).status)
        \/ Plan(a).do = "session" /\ Reply(a, "session", 200, << >>)
        \/ Plan(a).do = "session" /\ error_response(a, "session", 403)
        \/ /\ Plan(a).do \in {"cgi", "serve_file", "handle_post", "handle_delete"}
           /\ Goto(a, Plan(a).do, Plan(a).name)
    BY <1>7 DEF Decide
  <2>3. /\ Plan(a).do = "answer" /\ Plan(a).status # 413 => Within(req, ConfigOf(servers, a, req))
        /\ Plan(a).do = "session" => Within(req, ConfigOf(servers, a, req))
        /\ Plan(a).do \in {"cgi", "serve_file", "handle_post", "handle_delete"} =>
             AsLocated(servers, a, req, Plan(a).do, Plan(a).name)
    BY <1>1, DecidedAsLocated
  <2>4. CASE Plan(a).do = "answer" /\ (\/ \E content : Reply(a, "answer", Plan(a).status, content)
                                       \/ error_response(a, "answer", Plan(a).status))
    BY <1>4, <1>5, <2>1, <2>3, <2>4
  <2>5. CASE /\ Plan(a).do = "session"
             /\ Reply(a, "session", 200, << >>) \/ error_response(a, "session", 403)
    BY <1>4, <1>5, <2>1, <2>3, <2>5
  <2>6. CASE /\ Plan(a).do \in {"cgi", "serve_file", "handle_post", "handle_delete"}
             /\ Goto(a, Plan(a).do, Plan(a).name)
    BY <1>6, <2>3, <2>6
  <2> QED BY <2>2, <2>4, <2>5, <2>6
<1>8. CASE RunScript(a)
  <2>1. PICK code \in {200, 400, 403, 404, 500} : Reply(a, "cgi", code, << >>)
    BY <1>8 DEF RunScript
  <2>2. phase = "cgi"
    BY <1>8 DEF RunScript, In
  <2>3. Faithful(servers, a, req, "cgi", name, code)
    BY <1>3, <2>2 DEF Faithful, Done, AsLocated
  <2> QED BY <1>4, <2>1, <2>3
<1>9. ASSUME NEW kind, phase \in {"serve_file", "trimmed", "retry"}, FoundAs(a, kind) PROVE Goal
  <2>1. AsLocated(servers, a, req, "open", name)
    BY <1>3, <1>9 DEF AsLocated
  <2>2. AsLocated(servers, a, req, "index", Trim(name) \o <<Slash, IndexHtml>>)
    BY <1>3, <1>9 DEF AsLocated, IndexName
  <2> QED BY <1>6, <1>9, <2>1, <2>2 DEF FoundAs
<1>10. CASE serve_file_Metadata(a)
  <2>1. phase = "serve_file"
    BY <1>10 DEF serve_file_Metadata, In
  <2>2. AsLocated(servers, a, req, "trimmed", name) /\ AsLocated(servers, a, req, "retry", name)
    BY <1>3, <2>1 DEF AsLocated
  <2> QED BY <1>6, <1>9, <1>10, <2>1, <2>2 DEF serve_file_Metadata
<1>11. phase \in {"trimmed", "retry", "open"} =>
         /\ Faithful(servers, a, req, "serve_file", name, 404)
         /\ Faithful(servers, a, req, "io_error", name, 404)
  BY <1>3 DEF Faithful, Done, AsLocated
<1>12. CASE serve_file_Trimmed(a)
  <2>1. phase \in {"trimmed", "retry"}
    BY <1>12 DEF serve_file_Trimmed, In
  <2>2. \/ \E kind : FoundAs(a, kind)
        \/ \E did \in {"serve_file", "io_error"} : error_response(a, did, 404)
    BY <1>12 DEF serve_file_Trimmed
  <2> QED BY <1>5, <1>9, <1>11, <2>1, <2>2
<1>13. CASE serve_file_Open(a)
  <2>1. CASE /\ op' = [op EXCEPT ![a].phase = "read", ![a].file = link[name]]
             /\ UNCHANGED <<parserVars, said, thread, log, clock>>
    <3> DEFINE o == [op[a] EXCEPT !.phase = "read", !.file = link[name]]
    <3>1. o.req = req /\ o.phase = "read" /\ o.name = name
      BY <1>2 DEF Op
    <3>2. op' = [op EXCEPT ![a] = o] /\ UNCHANGED <<parserVars, log>>
      BY <2>1
    <3>3. AsLocated(servers, a, req, "read", name)
      BY <1>3, <1>13 DEF AsLocated, serve_file_Open, In
    <3> HIDE DEF o
    <3> QED BY <3>1, <3>2, <3>3, FollowingMoves DEF Goal
  <2>2. CASE /\ phase = "open"
             /\ error_response(a, "serve_file", 404) \/ error_response(a, "io_error", 404)
    BY <1>5, <1>11, <2>2
  <2>3. CASE phase = "index" /\ Goto(a, "list", name)
    <3>1. AsLocated(servers, a, req, "list", name)
      BY <1>3, <2>3 DEF AsLocated
    <3> QED BY <1>6, <2>3, <3>1
  <2> QED BY <1>13, <2>1, <2>2, <2>3 DEF serve_file_Open, In
<1>14. CASE serve_file_Read(a)
  <2> DEFINE o == [op[a] EXCEPT !.got = Append(@, data[op[a].file][Len(op[a].got) + 1])]
  <2>1. phase = "read"
    BY <1>14 DEF serve_file_Read, In
  <2>2. CASE op' = [op EXCEPT ![a] = o] /\ UNCHANGED <<parserVars, log>>
    <3>1. o.req = req /\ o.phase = "read" /\ o.name = name
      BY <1>2, <2>1 DEF Op
    <3> HIDE DEF o
    <3> QED BY <1>3, <2>1, <2>2, <3>1, FollowingMoves DEF Goal
  <2>3. CASE Reply(a, "serve_file", 200, op[a].got)
    <3>1. Faithful(servers, a, req, "serve_file", name, 200)
      BY <1>3, <2>1 DEF Faithful, Done, AsLocated
    <3> QED BY <1>4, <2>3, <3>1
  <2> QED BY <1>14, <2>2, <2>3 DEF serve_file_Read
<1>15. CASE serve_directory(a)
  <2>1. phase = "list" /\ Config(a) = ConfigOf(servers, a, req)
    <3>1. a \in Addrs
      BY <1>1, UnderWay
    <3> QED BY <1>15, <3>1, BlockOfARequest DEF serve_directory, In, Config, ConfigOf, Shape, ParserTypeOK
  <2>2. AsLocated(servers, a, req, "serve_directory", name)
    BY <1>3, <2>1 DEF AsLocated
  <2>3. \/ LocOf(servers, a, req).autoindex /\ Reply(a, "serve_directory", 200, << >>)
        \/ error_response(a, "serve_directory", 403)
        \/ error_response(a, "serve_directory", 500)
    BY <1>15, <2>1 DEF serve_directory, LocOf
  <2>4. /\ LocOf(servers, a, req).autoindex => Faithful(servers, a, req, "serve_directory", name, 200)
        /\ Faithful(servers, a, req, "serve_directory", name, 403)
        /\ Faithful(servers, a, req, "serve_directory", name, 500)
    BY <2>2 DEF Faithful, Done, AsLocated
  <2> QED BY <1>4, <1>5, <2>3, <2>4
<1>16. phase \in {"handle_post", "create", "write"} =>
         /\ Faithful(servers, a, req, "handle_post", name, 200)
         /\ Faithful(servers, a, req, "handle_post", name, 500)
         /\ AsLocated(servers, a, req, "create", name)
         /\ AsLocated(servers, a, req, "write", name)
  BY <1>3 DEF Faithful, Done, AsLocated
<1>17. CASE handle_post_MakeDirs(a)
  BY <1>5, <1>6, <1>16, <1>17 DEF handle_post_MakeDirs, In
<1>18. CASE handle_post_Create(a)
  <2> DEFINE o == [op[a] EXCEPT !.phase = "write", !.file = link'[name]]
  <2>1. CASE op' = [op EXCEPT ![a] = o] /\ UNCHANGED <<parserVars, log>>
    <3>1. o.req = req /\ o.phase = "write" /\ o.name = name
      BY <1>2 DEF Op
    <3>2. AsLocated(servers, a, req, "write", name)
      BY <1>16, <1>18 DEF handle_post_Create, In
    <3> HIDE DEF o
    <3> QED BY <2>1, <3>1, <3>2, FollowingMoves DEF Goal
  <2>2. CASE phase = "create" /\ error_response(a, "handle_post", 500)
    BY <1>5, <1>16, <2>2
  <2> QED BY <1>18, <2>1, <2>2 DEF handle_post_Create, In
<1>19. CASE handle_post_Write(a) \/ handle_post_WriteFails(a)
  BY <1>4, <1>5, <1>16, <1>19 DEF handle_post_Write, handle_post_WriteFails, In
<1>20. CASE handle_delete(a)
  <2>1. /\ Faithful(servers, a, req, "handle_delete", name, 200)
        /\ Faithful(servers, a, req, "handle_delete", name, 404)
        /\ Faithful(servers, a, req, "io_error", name, 404)
    BY <1>3, <1>20 DEF Faithful, Done, AsLocated, handle_delete, In
  <2> QED BY <1>4, <1>5, <1>20, <2>1 DEF handle_delete
<1> QED BY <1>7, <1>8, <1>10, <1>12, <1>13, <1>14, <1>15, <1>17, <1>18, <1>19, <1>20
        DEF Handle

LEMMA MainFollows ==
  ASSUME Shape, OpsFollow, LogFollows
  PROVE  /\ Parse => OpsFollow' /\ LogFollows'
         /\ main => OpsFollow' /\ LogFollows'
         /\ \A a \in DOMAIN thread : Bind(a) => OpsFollow' /\ LogFollows'
         /\ \A a \in DOMAIN thread : \A r \in Requests[tokens] :
              Begin(a, r) => OpsFollow' /\ LogFollows'
<1>1. ASSUME Parse PROVE OpsFollow' /\ LogFollows'
  <2>1. DOMAIN op = {} /\ log = {} /\ op' = op /\ log' = log
    BY <1>1 DEF Parse, ParserNext, parse_config, parse_server, parse_location, Parsing,
                Shape, Started, ThreadShape, siteVars
  <2> QED BY <2>1 DEF OpsFollow, LogFollows
<1>2. ASSUME main PROVE OpsFollow' /\ LogFollows'
  <2>1. servers' = servers /\ log' = log /\ op' = [a \in Addrs |-> None]
    BY <1>2 DEF main, parserVars
  <2> QED BY <2>1 DEF OpsFollow, LogFollows
<1>3. ASSUME NEW a \in DOMAIN thread, Bind(a) PROVE OpsFollow' /\ LogFollows'
  <2>1. servers' = servers /\ log' = log /\ op' = op
    BY <1>3 DEF Bind, parserVars
  <2> QED BY <2>1 DEF OpsFollow, LogFollows
<1>4. ASSUME NEW a \in DOMAIN thread, NEW r \in Requests[tokens], Begin(a, r)
      PROVE  OpsFollow' /\ LogFollows'
  <2> DEFINE o == [req |-> r, phase |-> "decide", name |-> << >>, file |-> 0, got |-> << >>,
                   begin |-> clock + 1]
  <2>1. op' = [op EXCEPT ![a] = o] /\ UNCHANGED <<parserVars, log>> /\ o.phase = "decide"
    BY <1>4 DEF Begin
  <2> HIDE DEF o
  <2> QED BY <2>1, FollowingMoves
<1> QED BY <1>1, <1>2, <1>3, <1>4

LEMMA FollowingKept ==
  Shape /\ OpsFollow /\ LogFollows /\ [Next]_vars => OpsFollow' /\ LogFollows'
<1> SUFFICES ASSUME Shape, OpsFollow, LogFollows, [Next]_vars PROVE OpsFollow' /\ LogFollows'
  OBVIOUS
<1>1. CASE UNCHANGED vars
  <2>1. servers' = servers /\ op' = op /\ log' = log
    BY <1>1 DEF vars, parserVars, siteVars
  <2> QED BY <2>1 DEF OpsFollow, LogFollows
<1>2. CASE Parse \/ main
  BY <1>2, MainFollows
<1>3. ASSUME NEW a \in DOMAIN thread, Bind(a) \/ \E r \in Requests[tokens] : Begin(a, r)
      PROVE  OpsFollow' /\ LogFollows'
  BY <1>3, MainFollows
<1>4. ASSUME NEW a \in DOMAIN thread, Handle(a) PROVE OpsFollow' /\ LogFollows'
  BY <1>4, HandlersFollow
<1> QED BY <1>1, <1>2, <1>3, <1>4 DEF Next

\* Handlers leave the blocks and the threads alone.
LEMMA HandlersKeepTheBlocks ==
  ASSUME NEW a, Handle(a) PROVE UNCHANGED <<parserVars, said, thread>>
<1>1. ASSUME NEW did, NEW code, error_response(a, did, code)
      PROVE  UNCHANGED <<parserVars, said, thread>>
  BY <1>1 DEF error_response, Reply
<1>2. ASSUME NEW did, NEW code, NEW content, Reply(a, did, code, content)
      PROVE  UNCHANGED <<parserVars, said, thread>>
  BY <1>2 DEF Reply
<1>3. ASSUME NEW phase, NEW name, Goto(a, phase, name) PROVE UNCHANGED <<parserVars, said, thread>>
  BY <1>3 DEF Goto
<1>4. CASE Decide(a) \/ RunScript(a)
  BY <1>1, <1>2, <1>3, <1>4 DEF Decide, RunScript
<1>5. CASE serve_file_Metadata(a) \/ serve_file_Trimmed(a)
  BY <1>1, <1>3, <1>5 DEF serve_file_Metadata, serve_file_Trimmed, FoundAs
<1>6. CASE serve_file_Open(a) \/ serve_file_Read(a) \/ serve_directory(a)
  BY <1>1, <1>2, <1>3, <1>6 DEF serve_file_Open, serve_file_Read, serve_directory
<1>7. CASE handle_post_MakeDirs(a) \/ handle_post_Create(a)
  BY <1>1, <1>3, <1>7 DEF handle_post_MakeDirs, handle_post_Create
<1>8. CASE handle_post_Write(a) \/ handle_post_WriteFails(a) \/ handle_delete(a)
  BY <1>1, <1>2, <1>8 DEF handle_post_Write, handle_post_WriteFails, handle_delete
<1> QED BY <1>4, <1>5, <1>6, <1>7, <1>8 DEF Handle

\* While a file is read the parser keeps up with it, and then it stays as it is.
LEMMA ReadingKept == Shape /\ KeepsUp /\ ReadsTheFile /\ [Next]_vars => KeepsUp' /\ ReadsTheFile'
<1> SUFFICES ASSUME Shape, KeepsUp, ReadsTheFile, [Next]_vars PROVE KeepsUp' /\ ReadsTheFile'
  OBVIOUS
<1>1. CASE UNCHANGED parserVars
  <2>1. /\ tokens' = tokens /\ pos' = pos /\ block' = block /\ servers' = servers
        /\ server' = server /\ location' = location /\ status' = status
    BY <1>1 DEF parserVars
  <2>2. (Read)' = Read
    BY <2>1 DEF Read
  <2>3. KeepsUp'
    BY <2>1, <2>2 DEF KeepsUp
  <2>4. ReadsTheFile'
    BY <2>1 DEF ReadsTheFile
  <2> QED BY <2>3, <2>4
<1>2. CASE Parse
  BY <1>2, ParserKeepsUp, OutcomesAreRight DEF Parse, Shape
<1>3. CASE UNCHANGED vars \/ main
  BY <1>1, <1>3 DEF vars, main
<1>4. ASSUME NEW a \in DOMAIN thread, Bind(a) \/ \E r \in Requests[tokens] : Begin(a, r)
      PROVE  UNCHANGED parserVars
  BY <1>4 DEF Bind, Begin
<1>5. ASSUME NEW a \in DOMAIN thread, Handle(a) PROVE UNCHANGED parserVars
  BY <1>5, HandlersKeepTheBlocks
<1> QED BY <1>1, <1>2, <1>3, <1>4, <1>5 DEF Next

\* from_file accepts a file if and only if all its statements are in place and none is
\* missing, and what it makes of it is what the file says; it panics only on a size
\* that does not fit.
THEOREM FilesAreRead == Spec => []ReadsTheFile
<1>1. Init => Shape /\ KeepsUp /\ ReadsTheFile
  <2> SUFFICES ASSUME Init PROVE Shape /\ KeepsUp /\ ReadsTheFile
    OBVIOUS
  <2>1. KeepsUp
    BY ParserStartsUp DEF Init
  <2>2. status = "parsing"
    BY DEF Init, ParserInit
  <2>3. ReadsTheFile
    BY <2>2 DEF ReadsTheFile
  <2> QED BY <2>1, <2>3, ShapeAtFirst
<1> QED BY <1>1, ShapeKept, ReadingKept, PTL DEF Spec

LEMMA SaidKept == Shape /\ SaidIsServed /\ ReadsTheFile /\ [Next]_vars => SaidIsServed'
<1> SUFFICES ASSUME Shape, SaidIsServed, ReadsTheFile, [Next]_vars PROVE SaidIsServed'
  OBVIOUS
<1>1. CASE UNCHANGED vars
  BY <1>1 DEF vars, parserVars, siteVars, SaidIsServed
<1>2. CASE Parse
  <2>1. DOMAIN thread = {} /\ log = {} /\ thread' = thread /\ log' = log
    BY <1>2 DEF Parse, ParserNext, parse_config, parse_server, parse_location, Parsing,
                Shape, Started, siteVars
  <2> QED BY <2>1 DEF SaidIsServed
<1>3. CASE main
  <2>1. status = "ok" /\ said' = Reading[tokens] /\ servers' = servers
    BY <1>3 DEF main, parserVars
  <2> QED BY <2>1 DEF SaidIsServed, ReadsTheFile
<1>4. ASSUME NEW a \in DOMAIN thread, UNCHANGED <<parserVars, said>> PROVE SaidIsServed'
  BY <1>4 DEF parserVars, SaidIsServed
<1>5. ASSUME NEW a \in DOMAIN thread, Bind(a) \/ \E r \in Requests[tokens] : Begin(a, r)
      PROVE  SaidIsServed'
  BY <1>4, <1>5 DEF Bind, Begin
<1>6. ASSUME NEW a \in DOMAIN thread, Handle(a) PROVE SaidIsServed'
  BY <1>4, <1>6, HandlersKeepTheBlocks
<1> QED BY <1>1, <1>2, <1>3, <1>5, <1>6 DEF Next

\* The names that begin with front.
Begins(name, front) ==
  Len(front) <= Len(name) /\ \A i \in 1 .. Len(front) : name[i] = front[i]

LEMMA Joined ==
  ASSUME NEW L, NEW s \in Seq(L), NEW t \in Seq(L)
  PROVE  /\ Len(s) \in Nat /\ Len(t) \in Nat /\ Len(s \o t) = Len(s) + Len(t)
         /\ \A i \in 1 .. Len(s) : (s \o t)[i] = s[i]
  OBVIOUS

LEMMA BeginningOf ==
  ASSUME NEW L, NEW name \in Seq(L), NEW front \in Seq(L)
  PROVE  /\ Begins(name, front) => SubSeq(name, 1, Len(front)) = front
         /\ IsPrefix(front, name) <=> Begins(name, front)
<1>1. Len(front) \in Nat /\ Len(name) \in Nat
  OBVIOUS
<1>2. SubSeq(front, 1, Len(front)) = front
  OBVIOUS
<1>3. ASSUME Begins(name, front) PROVE SubSeq(name, 1, Len(front)) = front
  BY <1>1, <1>3 DEF Begins
<1>4. ASSUME Len(front) <= Len(name), SubSeq(name, 1, Len(front)) = front
      PROVE  Begins(name, front)
  <2>1. ASSUME NEW i \in 1 .. Len(front) PROVE name[i] = front[i]
    <3>1. SubSeq(name, 1, Len(front))[i] = name[i]
      BY <1>1, <1>4, <2>1
    <3> QED BY <1>4, <3>1
  <2> QED BY <1>4, <2>1 DEF Begins
<1> QED BY <1>2, <1>3, <1>4 DEF IsPrefix, Begins

\* Under a root: what is put behind it, and taken off as slashes, leaves the root's
\* own characters in place.
LEMMA UnderTheRoot ==
  ASSUME NEW L, NEW root \in Seq(L), NEW rest \in Seq(L), NEW tail \in Seq(L)
  PROVE  /\ Begins(root \o rest, Trim(root))
         /\ Begins(Trim(root \o rest) \o tail, Trim(root))
<1>1. PICK k \in 0 .. Len(root) : /\ Trim(root) = SubSeq(root, 1, k)
                                  /\ k = 0 \/ root[k] # Slash
  BY TrimKeepsTheFront
<1> DEFINE name == root \o rest
<1>2. name \in Seq(L) /\ Len(name) = Len(root) + Len(rest) /\ Len(root) \in Nat /\ Len(rest) \in Nat
      /\ \A i \in 1 .. Len(root) : name[i] = root[i]
  OBVIOUS
<1> HIDE DEF name
<1>3. PICK m \in 0 .. Len(name) : /\ Trim(name) = SubSeq(name, 1, m)
                                  /\ \A i \in m + 1 .. Len(name) : name[i] = Slash
  BY <1>2, TrimKeepsTheFront
<1>4. k <= m
  <2>1. CASE k = 0
    BY <1>3, <2>1
  <2>2. CASE k # 0
    <3>1. name[k] # Slash /\ k \in 1 .. Len(name)
      BY <1>1, <1>2, <2>2
    <3> QED BY <1>2, <1>3, <3>1
  <2> QED BY <2>1, <2>2
<1>5. Len(Trim(root)) = k /\ \A i \in 1 .. k : Trim(root)[i] = root[i]
  BY <1>1
<1>6. Len(Trim(name)) = m /\ (\A i \in 1 .. m : Trim(name)[i] = name[i]) /\ Trim(name) \in Seq(L)
  <2>1. Trim(name) \in Seq(L)
    BY <1>2, TrimType
  <2> QED BY <1>2, <1>3, <2>1
<1>7. Begins(name, Trim(root))
  BY <1>2, <1>5 DEF Begins
<1>8. Begins(Trim(name) \o tail, Trim(root))
  <2>1. /\ Len(Trim(name) \o tail) = m + Len(tail) /\ Len(tail) \in Nat
        /\ \A i \in 1 .. m : (Trim(name) \o tail)[i] = Trim(name)[i]
    <3> DEFINE front == Trim(name)
    <3>1. front \in Seq(L) /\ Len(front) = m
      BY <1>6
    <3> HIDE DEF front
    <3>2. /\ Len(front \o tail) = Len(front) + Len(tail) /\ Len(tail) \in Nat
          /\ \A i \in 1 .. Len(front) : (front \o tail)[i] = front[i]
      BY <3>1, Joined
    <3> QED BY <3>1, <3>2 DEF front
  <2>2. ASSUME NEW i \in 1 .. k PROVE (Trim(name) \o tail)[i] = Trim(root)[i]
    <3>1. i \in 1 .. m /\ i \in 1 .. Len(root)
      BY <1>2, <1>4
    <3>2. (Trim(name) \o tail)[i] = Trim(name)[i] /\ Trim(name)[i] = name[i] /\ name[i] = root[i]
      BY <1>2, <1>6, <2>1, <3>1
    <3> QED BY <1>5, <3>2
  <2> QED BY <1>4, <1>5, <2>1, <2>2 DEF Begins
<1> QED BY <1>7, <1>8 DEF name

\* The names that a location gives are under its root.
LEMMA NamesOfALocation ==
  ASSUME NEW req, req.path \in DOMAIN Chars, NEW loc, loc.root \in DOMAIN Chars,
         loc.path \in DOMAIN Chars,
         NEW name \in {ScriptName(req, loc), FileName(req.path, loc), IndexName(req, loc)}
  PROVE  SubSeq(name, 1, Len(Trim(Chars[loc.root]))) = Trim(Chars[loc.root])
<1> DEFINE root == Chars[loc.root]
           path == Chars[req.path]
           rest == strip_location_prefix(req.path, loc.path)
<1>1. root \in Seq(Letters) /\ path \in Seq(Letters) /\ Slash \in Letters /\ IndexHtml \in Letters
  BY CharsOf
<1>2. rest \in Seq(Letters)
  BY StripType
<1>3. /\ <<Slash, IndexHtml>> \in Seq(Letters) /\ <<Slash>> \o rest \in Seq(Letters)
      /\ root \o <<Slash>> \o rest = root \o (<<Slash>> \o rest)
  <2> HIDE DEF root, rest
  <2> QED BY <1>1, <1>2
<1>4. Trim(root) \in Seq(Letters)
  BY <1>1, TrimType
<1>5. ScriptName(req, loc) = root \o (<<Slash>> \o rest) /\ FileName(req.path, loc) = root \o path
      /\ IndexName(req, loc) = Trim(root \o path) \o <<Slash, IndexHtml>>
  BY <1>3 DEF ScriptName, FileName, IndexName
<1> HIDE DEF root, path, rest
<1>6. /\ Begins(root \o (<<Slash>> \o rest), Trim(root)) /\ Begins(root \o path, Trim(root))
      /\ Begins(Trim(root \o path) \o <<Slash, IndexHtml>>, Trim(root))
  BY <1>1, <1>3, UnderTheRoot
<1>7. name \in Seq(Letters)
  <2>1. root \o path \in Seq(Letters) /\ root \o (<<Slash>> \o rest) \in Seq(Letters)
    BY <1>1, <1>3
  <2>2. Trim(root \o path) \in Seq(Letters)
    BY <2>1, TrimType
  <2>3. Trim(root \o path) \o <<Slash, IndexHtml>> \in Seq(Letters)
    BY <1>3, <2>2
  <2> QED BY <1>5, <2>1, <2>3
<1>8. Begins(name, Trim(root))
  BY <1>5, <1>6
<1>9. SubSeq(name, 1, Len(Trim(root))) = Trim(root)
  BY <1>4, <1>7, <1>8, BeginningOf
<1> QED BY <1>9 DEF root

\* The block and the locations that the file says, once it is what is served.
LEMMA WhatTheFileSays ==
  ASSUME Shape, said = servers, NEW by \in Addrs, NEW req \in Request
  PROVE  /\ Said(by, req) = ConfigOf(servers, by, req)
         /\ ConfigOf(servers, by, req) \in Server
         /\ LET loc == LocOf(servers, by, req) IN
            loc # None => /\ Covering(by, req) = {loc}
                          /\ loc.path \in DOMAIN Chars /\ loc.root \in DOMAIN Chars
<1> DEFINE config == ConfigOf(servers, by, req)
           locs == config.locations
<1>1. Said(by, req) = config
  <2>1. {i \in DOMAIN servers : servers[i].host = by[1] /\ servers[i].port = by[2]} = Here(servers, by)
    <3>1. PICK j \in DOMAIN servers : by = <<servers[j].host, servers[j].port>>
      BY DEF Addrs, addr
    <3> QED BY <3>1 DEF Here, addr
  <2> QED BY <2>1 DEF Said, ConfigOf, Block, Named, First
<1>2. config \in Server
  BY BlockOfARequest DEF Shape, ParserTypeOK, ConfigOf
<1>3. req.path \in DOMAIN Chars /\ Chars[req.path] \in Seq(Letters)
  BY CharsOf DEF Request
<1>4. locs \in Seq(Location)
  <2> HIDE DEF config
  <2> QED BY <1>2 DEF Server
<1>5. Fits(req.path, locs) =
        {i \in DOMAIN locs :
           /\ Len(Chars[locs[i].path]) <= Len(Chars[req.path])
           /\ \A k \in DOMAIN Chars[locs[i].path] : Chars[locs[i].path][k] = Chars[req.path][k]}
  <2> HIDE DEF locs
  <2>1. ASSUME NEW i \in DOMAIN locs
        PROVE  IsPrefix(Chars[locs[i].path], Chars[req.path]) <=>
                 /\ Len(Chars[locs[i].path]) <= Len(Chars[req.path])
                 /\ \A k \in DOMAIN Chars[locs[i].path] : Chars[locs[i].path][k] = Chars[req.path][k]
    <3> DEFINE path == Chars[locs[i].path]
    <3>1. path \in Seq(Letters)
      BY <1>4, LocationsHavePaths, CharsOf
    <3> HIDE DEF path
    <3>2. DOMAIN path = 1 .. Len(path)
      BY <3>1
    <3>3. IsPrefix(path, Chars[req.path]) <=> Begins(Chars[req.path], path)
      BY <1>3, <3>1, BeginningOf
    <3> QED BY <3>2, <3>3 DEF Begins, path
  <2> QED BY <2>1 DEF Fits
<1>6. ASSUME LocOf(servers, by, req) # None
      PROVE  /\ Covering(by, req) = {LocOf(servers, by, req)}
             /\ LocOf(servers, by, req).path \in DOMAIN Chars
             /\ LocOf(servers, by, req).root \in DOMAIN Chars
  <2>1. PICK i \in Fits(req.path, locs) :
          Longest(req.path, locs, i) /\ match_location(req.path, config) = locs[i]
    <3> HIDE DEF config
    <3> QED BY <1>2, <1>3, <1>6, TheLocationFound DEF LocOf, config
  <2>2. LocOf(servers, by, req) = locs[i]
    BY <2>1 DEF LocOf
  <2>3. Covering(by, req) = {locs[j] : j \in {j \in Fits(req.path, locs) : Longest(req.path, locs, j)}}
    <3> HIDE DEF config
    <3> QED BY <1>1, <1>5 DEF Covering, Longest
  <2> HIDE DEF locs
  <2>4. i \in DOMAIN locs
    BY DEF Fits
  <2>5. ASSUME NEW j \in Fits(req.path, locs), Longest(req.path, locs, j) PROVE j = i
    <3>1. /\ Len(Chars[locs[i].path]) \in Nat /\ Len(Chars[locs[j].path]) \in Nat
          /\ i \in Nat /\ j \in Nat
      <4>1. j \in DOMAIN locs
        BY DEF Fits
      <4>2. Chars[locs[i].path] \in Seq(Letters) /\ Chars[locs[j].path] \in Seq(Letters)
        BY <1>4, <2>4, <4>1, LocationsHavePaths, CharsOf
      <4> QED BY <1>4, <2>4, <4>1, <4>2
    <3> QED BY <2>1, <2>5, <3>1 DEF Longest
  <2>6. Covering(by, req) = {locs[i]}
    BY <2>1, <2>3, <2>5
  <2> QED BY <1>4, <2>1, <2>2, <2>4, <2>6, LocationsHavePaths
<1> QED BY <1>1, <1>2, <1>6

Following == Shape /\ OpsFollow /\ LogFollows /\ SaidIsServed

LEMMA FollowingAlways == Spec => []Following
<1>1. Init => Following
  <2> SUFFICES ASSUME Init PROVE Following
    OBVIOUS
  <2>1. DOMAIN op = {} /\ DOMAIN thread = {} /\ log = {}
    BY DEF Init
  <2> QED BY <2>1, ShapeAtFirst DEF Following, OpsFollow, LogFollows, SaidIsServed
<1>2. Following /\ ReadsTheFile /\ [Next]_vars => Following'
  BY ShapeKept, FollowingKept, SaidKept DEF Following
<1> QED BY <1>1, <1>2, FilesAreRead, PTL DEF Spec

\* Whatever is done to a file, and every script, is as written: by the location that
\* covers the path in the block for the host, with a method it permits, under its
\* root, and never where it redirects.
THEOREM DoneAsWritten == Spec => []AsWritten
<1>1. Following => AsWritten
  <2> SUFFICES ASSUME Following, NEW l \in log, l.did \notin {"answer", "session"}
               PROVE  \E loc \in Covering(l.by, l.req) :
                        /\ loc.methods = {} \/ l.req.method \in loc.methods
                        /\ loc.redirect = None
                        /\ SubSeq(l.name, 1, Len(Trim(Chars[loc.root]))) = Trim(Chars[loc.root])
                        /\ l.did = "cgi" => loc.cgi # None
                        /\ l.did = "serve_directory" /\ l.code = 200 => loc.autoindex
    BY DEF AsWritten
  <2> DEFINE loc == LocOf(servers, l.by, l.req)
             what == Done(l.did, l.code)
  <2>1. l.by \in Addrs /\ l.req \in Request /\ l.req.path \in DOMAIN Chars /\ l.did \in Deeds
    BY DEF Following, Shape, ThreadShape, Entry, Request
  <2>2. Faithful(servers, l.by, l.req, l.did, l.name, l.code) /\ said = servers /\ Shape
    BY DEF Following, LogFollows, SaidIsServed
  <2>3. AsLocated(servers, l.by, l.req, what, l.name)
    BY <2>2 DEF Faithful
  <2>4. /\ Permits(l.req, loc)
        /\ what = "cgi" => loc.cgi # None
        /\ l.did = "serve_directory" /\ l.code = 200 => loc.autoindex
    BY <2>2, <2>3 DEF AsLocated, Faithful
  <2>5. loc \in Covering(l.by, l.req) /\ loc.path \in DOMAIN Chars /\ loc.root \in DOMAIN Chars
    BY <2>1, <2>2, <2>4, WhatTheFileSays DEF Permits
  <2>6. what \in {"cgi", "serve_file", "read", "serve_directory", "handle_post", "handle_delete",
                 "io_error"}
        /\ (l.did = "cgi" => what = "cgi")
    BY <2>1 DEF Done, Deeds
  <2>7. l.name \in {ScriptName(l.req, loc), FileName(l.req.path, loc), IndexName(l.req, loc)}
    BY <2>3, <2>6 DEF AsLocated
  <2> HIDE DEF loc, what
  <2>8. SubSeq(l.name, 1, Len(Trim(Chars[loc.root]))) = Trim(Chars[loc.root])
    BY <2>1, <2>5, <2>7, NamesOfALocation
  <2> QED BY <2>4, <2>5, <2>6, <2>8 DEF Permits, is_method_allowed
<1> QED BY <1>1, FollowingAlways, PTL

\* The limit is the one of the block for the host: a body above it is turned away with
\* 413, whichever thread takes the request and whatever it asks for.
THEOREM LimitIsTheFilesOwn == Spec => []LimitHolds
<1>1. Following => LimitHolds
  <2> SUFFICES ASSUME Following, NEW l \in log,
                      Len(l.req.body) > Said(l.by, l.req).client_max_body_size
               PROVE  l.code = 413
    BY DEF LimitHolds
  <2> DEFINE config == ConfigOf(servers, l.by, l.req)
  <2>1. l.by \in Addrs /\ l.req \in Request /\ l.req.head \in Nat /\ Len(l.req.body) \in Nat
    BY DEF Following, Shape, ThreadShape, Entry, Request
  <2>2. Faithful(servers, l.by, l.req, l.did, l.name, l.code) /\ said = servers /\ Shape
    BY DEF Following, LogFollows, SaidIsServed
  <2>3. Said(l.by, l.req) = config /\ config \in Server
    BY <2>1, <2>2, WhatTheFileSays
  <2>4. l.code # 413 => Within(l.req, config)
    BY <2>2 DEF Faithful
  <2> HIDE DEF config
  <2>5. config.client_max_body_size \in Nat
    BY <2>3 DEF Server
  <2> QED BY <2>1, <2>3, <2>4, <2>5 DEF Within
<1> QED BY <1>1, FollowingAlways, PTL

-----------------------------------------------------------------------------
(* What the handlers do to the files, by the kind of step.                  *)

\* The phases in which a request is an upload, and a request that moves on.
Up == {"handle_post", "create", "write"}
Moved(a, o) ==
  /\ op' = [op EXCEPT ![a] = o] /\ UNCHANGED <<log, clock>>
  /\ o # None /\ o.req = op[a].req /\ o.begin = op[a].begin

FilesStay == UNCHANGED <<link, data>>

\* It is no upload and reads nothing yet; it has missed its name; it is an upload
\* now, or goes on with it.
Turns(a, o) ==
  /\ Moved(a, o) /\ FilesStay /\ op[a].phase \notin Up \cup {"read"}
  /\ o.phase \notin Up \cup {"read", "trimmed"} /\ o.got = op[a].got
Misses(a, o) ==
  /\ Moved(a, o) /\ FilesStay /\ op[a].phase \notin Up \cup {"read"}
  /\ o.phase = "trimmed" /\ o.got = op[a].got
  /\ o.name = op[a].name /\ op[a].name \notin DOMAIN link
TakesUpload(a, o) ==
  /\ Moved(a, o) /\ FilesStay /\ op[a].phase \notin Up \cup {"read"}
  /\ o.phase = "handle_post" /\ o.got = op[a].got
GoesOn(a, o) ==
  /\ Moved(a, o) /\ FilesStay /\ op[a].phase = "handle_post"
  /\ o.phase = "create" /\ o.got = op[a].got /\ o.name = op[a].name
\* It opens its file, reads on, or creates its file.
Opens(a, o) ==
  /\ Moved(a, o) /\ FilesStay /\ op[a].phase \notin Up \cup {"read"}
  /\ o.phase = "read" /\ o.got = op[a].got /\ o.name = op[a].name
  /\ op[a].name \in DOMAIN link /\ o.file = link[op[a].name]
Reads(a, o) ==
  /\ Moved(a, o) /\ FilesStay /\ op[a].phase = "read"
  /\ o.phase = "read" /\ o.name = op[a].name /\ o.file = op[a].file
  /\ Len(op[a].got) + 1 \in DOMAIN data[op[a].file]
  /\ o.got = Append(op[a].got, data[op[a].file][Len(op[a].got) + 1])
Creates(a, o) ==
  /\ Moved(a, o) /\ Create(op[a].name) /\ op[a].phase = "create"
  /\ o.phase = "write" /\ o.got = op[a].got /\ o.name = op[a].name
  /\ o.file = link'[op[a].name]

\* It is answered: without an effect on the files, and what that may be; as an upload
\* that failed before or while it wrote, or was written; as a deletion.
Answers(a, did, code, content) ==
  /\ Reply(a, did, code, content) /\ FilesStay
  /\ op[a].phase \notin Up /\ did # "handle_post"
  /\ did = "handle_delete" => code # 200
  /\ did = "serve_file" /\ code = 200 =>
       /\ op[a].phase = "read" /\ content = op[a].got
       /\ Len(op[a].got) + 1 \notin DOMAIN data[op[a].file]
  /\ did \in {"serve_file", "handle_delete"} /\ code = 404 =>
       op[a].phase = "trimmed" \/ op[a].name \notin DOMAIN link
Fails(a, content) ==
  /\ Reply(a, "handle_post", 500, content) /\ FilesStay
  /\ op[a].phase \in {"handle_post", "create"}
Writes(a, units, code, content) ==
  /\ Reply(a, "handle_post", code, content) /\ Write(op[a].file, units)
  /\ op[a].phase = "write"
  /\ code = 500 \/ (code = 200 /\ units = op[a].req.body)
Deletes(a) ==
  /\ Reply(a, "handle_delete", 200, << >>) /\ Unlink(op[a].name)
  /\ op[a].phase = "handle_delete" /\ op[a].name \in DOMAIN link

LEMMA KindsOfSteps ==
  ASSUME Shape, NEW a \in DOMAIN thread, Handle(a)
  PROVE  /\ op[a] # None
         /\ \/ \E o : \/ Turns(a, o) \/ Misses(a, o) \/ TakesUpload(a, o) \/ GoesOn(a, o)
                      \/ Opens(a, o) \/ Reads(a, o) \/ Creates(a, o)
            \/ \E did, code, content : Answers(a, did, code, content)
            \/ \E content : Fails(a, content)
            \/ \E units \in Seq(Units) : \E code, content : Writes(a, units, code, content)
            \/ Deletes(a)
<1> DEFINE Goal == \/ \E o : \/ Turns(a, o) \/ Misses(a, o) \/ TakesUpload(a, o) \/ GoesOn(a, o)
                             \/ Opens(a, o) \/ Reads(a, o) \/ Creates(a, o)
                   \/ \E did, code, content : Answers(a, did, code, content)
                   \/ \E content : Fails(a, content)
                   \/ \E units \in Seq(Units) : \E code, content : Writes(a, units, code, content)
                   \/ Deletes(a)
           phase == op[a].phase
           name == op[a].name
<1>1. op[a] # None
  BY DEF Handle, Decide, RunScript, serve_file_Metadata, serve_file_Trimmed, serve_file_Open,
         serve_file_Read, serve_directory, handle_post_MakeDirs, handle_post_Create,
         handle_post_Write, handle_post_WriteFails, handle_delete, In
<1> SUFFICES Goal
  BY <1>1
<1>2. op[a] \in Op /\ op[a].req \in Request /\ op[a].req.body \in Seq(Units)
      /\ op[a].got \in Seq(Units) /\ a \in DOMAIN op
  BY <1>1, UnderWay
<1>t. UNCHANGED treeVars => FilesStay
  BY DEF treeVars, FilesStay
<1>p. \A p \in {"cgi", "serve_file", "trimmed", "retry", "index", "open", "read", "list", "handle_post",
                "create", "write", "handle_delete"} : p \in Phases
  BY DEF Phases
\* A step that changes the request's phase and name only, and one that answers.
<1>3. ASSUME NEW next \in Phases, NEW n \in Seq(Letters), Goto(a, next, n)
      PROVE  \E o : /\ Moved(a, o) /\ o.phase = next /\ o.name = n /\ o.got = op[a].got
  <2> DEFINE o == [op[a] EXCEPT !.phase = next, !.name = n]
  <2>1. /\ o.req = op[a].req /\ o.begin = op[a].begin /\ o.got = op[a].got /\ o.phase = next
        /\ o.name = n /\ o \in Op
    BY <1>2 DEF Op
  <2>2. op' = [op EXCEPT ![a] = o] /\ UNCHANGED <<log, clock>>
    BY <1>3 DEF Goto
  <2> HIDE DEF o
  <2>3. Moved(a, o)
    BY <2>1, <2>2, NoneAssumption DEF Moved
  <2> QED BY <2>1, <2>3
<1>4. ASSUME NEW did, NEW code, error_response(a, did, code), did # "handle_post", FilesStay,
             phase \notin Up, did # "handle_delete" \/ code # 200, did # "serve_file" \/ code # 200,
             did \in {"serve_file", "handle_delete"} /\ code = 404 =>
               phase = "trimmed" \/ name \notin DOMAIN link
      PROVE  Goal
  <2>1. PICK content : Reply(a, did, code, content)
    BY <1>4, ErrorsAreReplies
  <2>2. Answers(a, did, code, content)
    BY <1>4, <2>1 DEF Answers
  <2> QED BY <2>2
<1>5. ASSUME NEW did, NEW code, NEW content, Reply(a, did, code, content), FilesStay,
             did \in {"answer", "session", "cgi", "serve_directory"}, phase \notin Up
      PROVE  Goal
  <2>1. Answers(a, did, code, content)
    BY <1>5 DEF Answers
  <2> QED BY <2>1
<1> HIDE DEF Goal
<1>6. CASE Decide(a)
  <2>1. FilesStay /\ phase = "decide" /\ phase \notin Up \cup {"read"}
    BY <1>t, <1>6 DEF Decide, In, Up
  <2>2. ASSUME NEW do \in {"cgi", "serve_file", "handle_post", "handle_delete"},
               NEW n \in Seq(Letters), Goto(a, do, n)
        PROVE  Goal
    <3>1. PICK o : Moved(a, o) /\ o.phase = do /\ o.name = n /\ o.got = op[a].got
      BY <1>3, <1>p, <2>2
    <3>2. CASE do = "handle_post"
      <4>1. TakesUpload(a, o)
        BY <2>1, <3>1, <3>2 DEF TakesUpload
      <4> QED BY <4>1 DEF Goal
    <3>3. CASE do # "handle_post"
      <4>1. Turns(a, o)
        BY <2>1, <2>2, <3>1, <3>3 DEF Turns, Up
      <4> QED BY <4>1 DEF Goal
    <3> QED BY <3>2, <3>3
  <2>3. \/ Reply(a, "answer", Plan(a).status, << >>)
        \/ error_response(a, "answer", Plan(a).status)
        \/ Reply(a, "session", 200, << >>)
        \/ error_response(a, "session", 403)
        \/ /\ Plan(a).do \in {"cgi", "serve_file", "handle_post", "handle_delete"}
           /\ Goto(a, Plan(a).do, Plan(a).name)
    BY <1>6 DEF Decide
  <2>4. Plan(a).do # "answer" => Plan(a).name \in Seq(Letters)
    BY <1>1, PlansAreTyped DEF Answer, Work
  <2> QED BY <1>4, <1>5, <2>1, <2>2, <2>3, <2>4
<1>7. CASE RunScript(a)
  <2>1. FilesStay /\ phase \notin Up /\ \E code : Reply(a, "cgi", code, << >>)
    BY <1>t, <1>7 DEF RunScript, In, Up
  <2> QED BY <1>5, <2>1
<1>8. ASSUME NEW kind, FoundAs(a, kind), FilesStay, phase \notin Up \cup {"read"} PROVE Goal
  <2>1. name \in Seq(Letters) /\ Trim(name) \o <<Slash, IndexHtml>> \in Seq(Letters)
    <3>1. name \in Seq(Letters)
      BY <1>1, UnderWay
    <3>2. Trim(name) \in Seq(Letters) /\ <<Slash, IndexHtml>> \in Seq(Letters)
      BY <3>1, TrimType, CharsOf
    <3> QED BY <3>1, <3>2, ConcatProperties
  <2>2. ASSUME NEW next \in {"index", "open"}, NEW n \in Seq(Letters), Goto(a, next, n) PROVE Goal
    <3>1. PICK o : Moved(a, o) /\ o.phase = next /\ o.got = op[a].got
      BY <1>3, <1>p, <2>2
    <3>2. Turns(a, o)
      BY <1>8, <2>2, <3>1 DEF Turns, Up
    <3> QED BY <3>2 DEF Goal
  <2> QED BY <1>8, <2>1, <2>2 DEF FoundAs
<1>9. CASE serve_file_Metadata(a)
  <2>1. FilesStay /\ phase \notin Up \cup {"read"}
    BY <1>t, <1>9 DEF serve_file_Metadata, In, Up
  <2>2. CASE metadata(name) = "none" /\ Goto(a, "trimmed", name)
    <3>1. name \notin DOMAIN link /\ name \in Seq(Letters)
      BY <1>1, <2>2, UnderWay DEF metadata
    <3>2. PICK o : Moved(a, o) /\ o.phase = "trimmed" /\ o.name = name /\ o.got = op[a].got
      BY <1>3, <1>p, <2>2, <3>1
    <3>3. Misses(a, o)
      BY <2>1, <3>1, <3>2 DEF Misses
    <3> QED BY <3>3 DEF Goal
  <2>3. CASE Goto(a, "retry", name)
    <3>1. name \in Seq(Letters)
      BY <1>1, UnderWay
    <3>2. PICK o : Moved(a, o) /\ o.phase = "retry" /\ o.got = op[a].got
      BY <1>3, <1>p, <2>3, <3>1
    <3>3. Turns(a, o)
      BY <2>1, <3>2 DEF Turns, Up
    <3> QED BY <3>3 DEF Goal
  <2> QED BY <1>8, <1>9, <2>1, <2>2, <2>3 DEF serve_file_Metadata
<1>10. CASE serve_file_Trimmed(a)
  <2>1. FilesStay /\ phase \in {"trimmed", "retry"} /\ phase \notin Up \cup {"read"}
    BY <1>t, <1>10 DEF serve_file_Trimmed, In, Up
  <2>2. \/ \E kind : FoundAs(a, kind)
        \/ \E did \in {"serve_file", "io_error"} :
             error_response(a, did, 404) /\ (did = "serve_file" => phase = "trimmed")
    BY <1>10 DEF serve_file_Trimmed, In
  <2> QED BY <1>4, <1>8, <2>1, <2>2
<1>11. CASE serve_file_Open(a)
  <2>1. FilesStay /\ phase \in {"open", "index"} /\ phase \notin Up \cup {"read"}
    BY <1>t, <1>11 DEF serve_file_Open, In, Up
  <2>2. CASE /\ name \in DOMAIN link
             /\ op' = [op EXCEPT ![a].phase = "read", ![a].file = link[name]]
             /\ UNCHANGED <<parserVars, said, thread, log, clock>>
    <3> DEFINE o == [op[a] EXCEPT !.phase = "read", !.file = link[name]]
    <3>1. link[name] \in Nat
      BY <2>2 DEF Shape, TreeShape
    <3>2. /\ o.req = op[a].req /\ o.begin = op[a].begin /\ o.got = op[a].got
          /\ o.phase = "read" /\ o.name = name /\ o.file = link[name] /\ o \in Op
      BY <1>2, <1>p, <3>1 DEF Op
    <3>3. op' = [op EXCEPT ![a] = o] /\ UNCHANGED <<log, clock>>
      BY <2>2
    <3> HIDE DEF o
    <3>4. Opens(a, o)
      BY <2>1, <2>2, <3>2, <3>3, NoneAssumption DEF Opens, Moved
    <3> QED BY <3>4 DEF Goal
  <2>3. CASE name \notin DOMAIN link /\ error_response(a, "serve_file", 404)
    BY <1>4, <2>1, <2>3
  <2>5. CASE error_response(a, "io_error", 404)
    BY <1>4, <2>1, <2>5
  <2>4. CASE Goto(a, "list", name)
    <3>1. name \in Seq(Letters)
      BY <1>1, UnderWay
    <3>2. PICK o : Moved(a, o) /\ o.phase = "list" /\ o.got = op[a].got
      BY <1>3, <1>p, <2>4, <3>1
    <3>3. Turns(a, o)
      BY <2>1, <3>2 DEF Turns, Up
    <3> QED BY <3>3 DEF Goal
  <2> QED BY <1>11, <2>2, <2>3, <2>4, <2>5 DEF serve_file_Open
<1>12. CASE serve_file_Read(a)
  <2> DEFINE at == Len(op[a].got) + 1
             contents == data[op[a].file]
             o == [op[a] EXCEPT !.got = Append(@, contents[at])]
  <2>1. FilesStay /\ phase = "read" /\ phase \notin Up
    BY <1>t, <1>12 DEF serve_file_Read, In, Up
  <2>2. CASE /\ at \in DOMAIN contents /\ op' = [op EXCEPT ![a].got = Append(@, contents[at])]
             /\ UNCHANGED <<parserVars, said, thread, log, clock>>
    <3>1. Append(op[a].got, contents[at]) \in Seq(Units)
      <4>1. op[a].file \in DOMAIN data
        BY <1>1, <1>2, <2>1 DEF Shape, FilesOpen
      <4>2. contents \in Seq(Units)
        BY <4>1 DEF Shape, TreeShape
      <4> QED BY <1>2, <2>2, <4>2, AppendProperties
    <3>2. /\ o.req = op[a].req /\ o.begin = op[a].begin /\ o.got = Append(op[a].got, contents[at])
          /\ o.phase = "read" /\ o.name = name /\ o.file = op[a].file /\ o \in Op
      BY <1>2, <2>1, <3>1 DEF Op
    <3>3. op' = [op EXCEPT ![a] = o] /\ UNCHANGED <<log, clock>>
      BY <2>2
    <3> HIDE DEF o
    <3>4. Reads(a, o)
      BY <2>1, <2>2, <3>2, <3>3, NoneAssumption DEF Reads, Moved
    <3> QED BY <3>4 DEF Goal
  <2>3. CASE at \notin DOMAIN contents /\ Reply(a, "serve_file", 200, op[a].got)
    <3>1. Answers(a, "serve_file", 200, op[a].got)
      BY <2>1, <2>3 DEF Answers
    <3> QED BY <3>1 DEF Goal
  <2> QED BY <1>12, <2>2, <2>3 DEF serve_file_Read
<1>13. CASE serve_directory(a)
  <2>1. FilesStay /\ phase \notin Up /\ (\/ Reply(a, "serve_directory", 200, << >>)
                                         \/ error_response(a, "serve_directory", 403)
                                         \/ error_response(a, "serve_directory", 500))
    BY <1>t, <1>13 DEF serve_directory, In, Up
  <2> QED BY <1>4, <1>5, <2>1
<1>14. ASSUME error_response(a, "handle_post", 500), FilesStay, phase \in {"handle_post", "create"}
       PROVE  Goal
  <2>1. PICK content : Reply(a, "handle_post", 500, content)
    BY <1>14, ErrorsAreReplies
  <2>2. Fails(a, content)
    BY <1>14, <2>1 DEF Fails
  <2> QED BY <2>2 DEF Goal
<1>15. CASE handle_post_MakeDirs(a)
  <2>1. phase = "handle_post"
    BY <1>15 DEF handle_post_MakeDirs, In
  <2>2. CASE MakeDirs(name) /\ Goto(a, "create", name)
    <3>1. name \in Seq(Letters) /\ FilesStay
      BY <1>1, <2>2, UnderWay DEF MakeDirs, FilesStay
    <3>2. PICK o : Moved(a, o) /\ o.phase = "create" /\ o.name = name /\ o.got = op[a].got
      BY <1>3, <1>p, <2>2, <3>1
    <3>3. GoesOn(a, o)
      BY <2>1, <3>1, <3>2 DEF GoesOn
    <3> QED BY <3>3 DEF Goal
  <2>3. ASSUME NEW n, MakeDirs(n), error_response(a, "handle_post", 500) PROVE Goal
    BY <1>14, <2>1, <2>3 DEF MakeDirs, FilesStay
  <2> QED BY <1>14, <1>15, <1>t, <2>1, <2>2, <2>3 DEF handle_post_MakeDirs
<1>16. CASE handle_post_Create(a)
  <2>1. phase = "create"
    BY <1>16 DEF handle_post_Create, In
  <2>2. CASE /\ CanCreate(name) /\ Create(name)
             /\ op' = [op EXCEPT ![a].phase = "write", ![a].file = link'[name]]
             /\ UNCHANGED <<parserVars, said, thread, log, clock>>
    <3> DEFINE o == [op[a] EXCEPT !.phase = "write", !.file = link'[name]]
    <3>1. link'[name] \in Nat
      BY <2>2, Creating
    <3>2. /\ o.req = op[a].req /\ o.begin = op[a].begin /\ o.got = op[a].got
          /\ o.phase = "write" /\ o.name = name /\ o.file = link'[name] /\ o \in Op
      BY <1>2, <1>p, <3>1 DEF Op
    <3>3. op' = [op EXCEPT ![a] = o] /\ UNCHANGED <<log, clock>>
      BY <2>2
    <3> HIDE DEF o
    <3>4. Creates(a, o)
      BY <2>1, <2>2, <3>2, <3>3, NoneAssumption DEF Creates, Moved
    <3> QED BY <3>4 DEF Goal
  <2> QED BY <1>14, <1>16, <1>t, <2>1, <2>2 DEF handle_post_Create
<1>17. CASE handle_post_Write(a)
  <2>1. Writes(a, op[a].req.body, 200, << >>)
    BY <1>17 DEF handle_post_Write, In, Writes
  <2> QED BY <1>2, <2>1 DEF Goal
<1>18. CASE handle_post_WriteFails(a)
  <2>1. phase = "write" /\ error_response(a, "handle_post", 500)
    BY <1>18 DEF handle_post_WriteFails, In
  <2>2. PICK n \in 0 .. Len(op[a].req.body) - 1 : Write(op[a].file, SubSeq(op[a].req.body, 1, n))
    BY <1>18 DEF handle_post_WriteFails
  <2>3. SubSeq(op[a].req.body, 1, n) \in Seq(Units)
    <3>1. n \in 0 .. Len(op[a].req.body) /\ 1 \in Nat \ {0}
      BY <1>2
    <3> QED BY <1>2, <3>1, PartsOfNames
  <2>4. PICK content : Reply(a, "handle_post", 500, content)
    BY <2>1, ErrorsAreReplies
  <2>5. Writes(a, SubSeq(op[a].req.body, 1, n), 500, content)
    BY <2>1, <2>2, <2>4 DEF Writes
  <2> QED BY <2>3, <2>5 DEF Goal
<1>19. CASE handle_delete(a)
  <2>1. phase = "handle_delete" /\ phase \notin Up
    BY <1>19 DEF handle_delete, In, Up
  <2>2. CASE name \in DOMAIN link /\ Unlink(name) /\ Reply(a, "handle_delete", 200, << >>)
    <3>1. Deletes(a)
      BY <2>1, <2>2 DEF Deletes
    <3> QED BY <3>1 DEF Goal
  <2>3. CASE name \notin DOMAIN link /\ UNCHANGED treeVars /\ error_response(a, "handle_delete", 404)
    BY <1>4, <1>t, <2>1, <2>3
  <2>4. CASE UNCHANGED treeVars /\ error_response(a, "io_error", 404)
    BY <1>4, <1>t, <2>1, <2>4
  <2> QED BY <1>19, <2>2, <2>3, <2>4 DEF handle_delete
<1> QED BY <1>6, <1>7, <1>9, <1>10, <1>11, <1>12, <1>13, <1>15, <1>16, <1>17, <1>18, <1>19 DEF Handle

\* The record of a request that is answered now.
Entered(a, did, code, content) ==
  [by |-> a, req |-> op[a].req, did |-> did, name |-> op[a].name, code |-> code,
   content |-> content, begin |-> op[a].begin, end |-> clock + 1]

\* A request that is taken up.
Takes(a, o) ==
  /\ op[a] = None /\ op' = [op EXCEPT ![a] = o] /\ UNCHANGED log /\ FilesStay
  /\ o # None /\ o.phase = "decide" /\ o.got = << >> /\ o.begin = clock + 1 /\ clock' = clock + 1

\* Nothing happens to requests and files, or a thread comes up.
Rests ==
  /\ UNCHANGED <<log, clock>> /\ FilesStay
  /\ \A a \in DOMAIN op' : op'[a] # None => a \in DOMAIN op /\ op'[a] = op[a]
  /\ \A a \in DOMAIN op : op[a] # None => a \in DOMAIN op' /\ op'[a] = op[a]

LEMMA KindsOfAllSteps ==
  ASSUME Shape, [Next]_vars
  PROVE  \/ Rests
         \/ \E a \in DOMAIN op : \E o : Takes(a, o)
         \/ \E a \in DOMAIN op :
              /\ op[a] # None
              /\ \/ \E o : \/ Turns(a, o) \/ Misses(a, o) \/ TakesUpload(a, o) \/ GoesOn(a, o)
                           \/ Opens(a, o) \/ Reads(a, o) \/ Creates(a, o)
                 \/ \E did, code, content : Answers(a, did, code, content)
                 \/ \E content : Fails(a, content)
                 \/ \E units \in Seq(Units) : \E code, content : Writes(a, units, code, content)
                 \/ Deletes(a)
<1>1. DOMAIN op = DOMAIN thread
  BY DEF Shape, ThreadShape
<1>2. CASE UNCHANGED vars
  BY <1>2 DEF vars, siteVars, treeVars, Rests, FilesStay
<1>3. CASE Parse
  BY <1>3 DEF Parse, siteVars, treeVars, Rests, FilesStay
<1>4. CASE main
  <2>1. DOMAIN op = {} /\ op' = [a \in Addrs |-> None]
    BY <1>1, <1>4 DEF main
  <2> QED BY <1>4, <2>1 DEF main, treeVars, Rests, FilesStay
<1>5. ASSUME NEW a \in DOMAIN thread, Bind(a) PROVE Rests
  BY <1>5 DEF Bind, treeVars, Rests, FilesStay
<1>6. ASSUME NEW a \in DOMAIN thread, NEW r \in Requests[tokens], Begin(a, r)
      PROVE  \E o : Takes(a, o)
  <2> DEFINE o == [req |-> r, phase |-> "decide", name |-> << >>, file |-> 0, got |-> << >>,
                   begin |-> clock + 1]
  <2>1. o.phase = "decide" /\ o.got = << >> /\ o.begin = clock + 1
    OBVIOUS
  <2>2. o # None
    <3>1. tokens \in Served /\ clock + 1 \in Nat
      BY DEF Shape, Started, ThreadShape
    <3>2. r \in Request
      BY <3>1, ServedAssumption
    <3>3. o \in Op
      BY <3>1, <3>2 DEF Op, Phases
    <3> HIDE DEF o
    <3> QED BY <3>3, NoneAssumption
  <2>3. /\ op[a] = None /\ op' = [op EXCEPT ![a] = o] /\ UNCHANGED log /\ FilesStay
        /\ clock' = clock + 1
    BY <1>6 DEF Begin, treeVars, FilesStay
  <2> HIDE DEF o
  <2>4. Takes(a, o)
    BY <2>1, <2>2, <2>3 DEF Takes
  <2> QED BY <2>4
<1>7. ASSUME NEW a \in DOMAIN thread, Handle(a)
      PROVE  /\ op[a] # None
             /\ \/ \E o : \/ Turns(a, o) \/ Misses(a, o) \/ TakesUpload(a, o) \/ GoesOn(a, o)
                          \/ Opens(a, o) \/ Reads(a, o) \/ Creates(a, o)
                \/ \E did, code, content : Answers(a, did, code, content)
                \/ \E content : Fails(a, content)
                \/ \E units \in Seq(Units) : \E code, content : Writes(a, units, code, content)
                \/ Deletes(a)
  BY <1>7, KindsOfSteps
<1> QED BY <1>1, <1>2, <1>3, <1>4, <1>5, <1>6, <1>7 DEF Next

-----------------------------------------------------------------------------
(* When requests began and ended, and which of them are uploads.            *)

\* Every beginning and every end has a time of its own.
Clocked ==
  /\ \A l \in log : l.begin \in Nat /\ l.end \in Nat /\ l.begin < l.end /\ l.end <= clock
  /\ \A a \in DOMAIN op : op[a] # None =>
       /\ op[a].begin \in Nat /\ op[a].begin <= clock
       /\ \A l \in log : l.end # op[a].begin
  /\ \A k, l \in log : k.end # l.begin
  /\ clock \in Nat

\* The uploads of name n that have been taken up, and those that were answered.
Uploading(n) == {a \in DOMAIN op : op[a] # None /\ op[a].phase \in Up /\ op[a].name = n}
Uploaded(n) == {l \in log : l.did = "handle_post" /\ l.name = n}

\* What a request that moves on, or is answered, leaves of the others.
LEMMA AfterAMove ==
  ASSUME NEW a \in DOMAIN op, NEW o, Moved(a, o)
  PROVE  /\ DOMAIN op' = DOMAIN op /\ op'[a] = o /\ log' = log /\ clock' = clock
         /\ \A b \in DOMAIN op : b # a => op'[b] = op[b]
         /\ o # None /\ o.req = op[a].req /\ o.begin = op[a].begin
  BY DEF Moved

LEMMA AfterAReply ==
  ASSUME NEW a \in DOMAIN op, NEW did, NEW code, NEW content, Reply(a, did, code, content)
  PROVE  /\ DOMAIN op' = DOMAIN op /\ op'[a] = None /\ clock' = clock + 1
         /\ log' = log \cup {Entered(a, did, code, content)}
         /\ \A b \in DOMAIN op : b # a => op'[b] = op[b]
  BY DEF Reply, Entered

LEMMA AfterTaking ==
  ASSUME NEW a \in DOMAIN op, NEW o, Takes(a, o)
  PROVE  /\ DOMAIN op' = DOMAIN op /\ op'[a] = o /\ log' = log /\ clock' = clock + 1
         /\ \A b \in DOMAIN op : b # a => op'[b] = op[b]
  BY DEF Takes

\* The three kinds of kinds, as far as times are concerned.
LEMMA ThreeKinds ==
  ASSUME Shape, [Next]_vars
  PROVE  \/ Rests
         \/ \E a \in DOMAIN op : \E o : Takes(a, o)
         \/ \E a \in DOMAIN op : op[a] # None /\ \E o : Moved(a, o)
         \/ \E a \in DOMAIN op : op[a] # None /\ \E did, code, content : Reply(a, did, code, content)
  BY KindsOfAllSteps
  DEF Turns, Misses, TakesUpload, GoesOn, Opens, Reads, Creates, Answers, Fails, Writes, Deletes

LEMMA ClockedKept == Shape /\ Clocked /\ [Next]_vars => Clocked'
<1> SUFFICES ASSUME Shape, Clocked, [Next]_vars PROVE Clocked'
  OBVIOUS
<1>1. CASE Rests
  BY <1>1 DEF Rests, Clocked
<1>2. ASSUME NEW a \in DOMAIN op, NEW o, Takes(a, o) PROVE Clocked'
  <2>1. o.begin = clock + 1 /\ clock + 1 \in Nat
    BY <1>2 DEF Takes, Clocked
  <2> QED BY <1>2, <2>1, AfterTaking DEF Clocked
<1>3. ASSUME NEW a \in DOMAIN op, op[a] # None, NEW o, Moved(a, o) PROVE Clocked'
  BY <1>3, AfterAMove DEF Clocked
<1>4. ASSUME NEW a \in DOMAIN op, op[a] # None, NEW did, NEW code, NEW content,
             Reply(a, did, code, content)
      PROVE  Clocked'
  <2> DEFINE e == Entered(a, did, code, content)
  <2>1. e.begin = op[a].begin /\ e.end = clock + 1 /\ e.begin < e.end /\ e.begin \in Nat /\ e.end \in Nat
    BY <1>4 DEF Entered, Clocked
  <2>2. log' = log \cup {e} /\ clock' = clock + 1 /\ clock' \in Nat
    BY <1>4, AfterAReply DEF Clocked
  <2> HIDE DEF e
  <2>3. \A l \in log' : l.begin \in Nat /\ l.end \in Nat /\ l.begin < l.end /\ l.end <= clock'
    BY <2>1, <2>2 DEF Clocked
  <2>4. \A b \in DOMAIN op' : op'[b] # None => b \in DOMAIN op /\ b # a /\ op'[b] = op[b]
    BY <1>4, AfterAReply
  <2>5. \A b \in DOMAIN op' : op'[b] # None =>
          /\ op'[b].begin \in Nat /\ op'[b].begin <= clock'
          /\ \A l \in log' : l.end # op'[b].begin
    BY <2>1, <2>2, <2>4 DEF Clocked
  <2>6. \A k, l \in log' : k.end # l.begin
    BY <1>4, <2>1, <2>2 DEF Clocked
  <2> QED BY <2>2, <2>3, <2>5, <2>6 DEF Clocked
<1> QED BY <1>1, <1>2, <1>3, <1>4, ThreeKinds

\* What a step makes of the uploads of n: nothing, one more under way, or one less.
SameUploads(n) ==
  /\ Uploading(n)' = Uploading(n) /\ Uploaded(n)' = Uploaded(n)
  /\ \A b \in Uploading(n) : op'[b].begin = op[b].begin
OneMore(n, a) ==
  /\ Uploading(n)' = Uploading(n) \cup {a} /\ Uploaded(n)' = Uploaded(n)
  /\ \A b \in Uploading(n) : op'[b].begin = op[b].begin
OneDone(n, a, e) ==
  /\ a \in Uploading(n) /\ e.begin = op[a].begin /\ e.end = clock + 1
  /\ Uploading(n)' = Uploading(n) \ {a} /\ Uploaded(n)' = Uploaded(n) \cup {e}
  /\ \A b \in Uploading(n) \ {a} : op'[b].begin = op[b].begin

LEMMA UploadsOfMoves ==
  ASSUME NEW a \in DOMAIN op, op[a] # None, NEW o, Moved(a, o), op[a].phase \in Up <=> o.phase \in Up,
         o.phase \in Up => o.name = op[a].name, NEW n
  PROVE  SameUploads(n)
<1>1. Uploaded(n)' = Uploaded(n)
  BY AfterAMove DEF Uploaded
<1>2. Uploading(n)' = Uploading(n)
  BY AfterAMove DEF Uploading
<1>3. \A b \in Uploading(n) : op'[b].begin = op[b].begin
  BY AfterAMove DEF Uploading
<1> QED BY <1>1, <1>2, <1>3 DEF SameUploads

LEMMA UploadsOfTaking ==
  ASSUME NEW a \in DOMAIN op, op[a] # None, NEW o, TakesUpload(a, o), NEW n
  PROVE  IF n = o.name THEN OneMore(n, a) ELSE SameUploads(n)
<1>1. Moved(a, o) /\ op[a].phase \notin Up /\ o.phase \in Up
  BY DEF TakesUpload, Up
<1>2. Uploaded(n)' = Uploaded(n)
  BY <1>1, AfterAMove DEF Uploaded
<1>3. Uploading(n)' = IF n = o.name THEN Uploading(n) \cup {a} ELSE Uploading(n)
  BY <1>1, AfterAMove DEF Uploading
<1>4. \A b \in Uploading(n) : op'[b].begin = op[b].begin
  BY <1>1, AfterAMove DEF Uploading
<1> QED BY <1>2, <1>3, <1>4 DEF SameUploads, OneMore

LEMMA UploadsOfAnswers ==
  ASSUME NEW a \in DOMAIN op, op[a] # None, NEW did, NEW code, NEW content,
         Reply(a, did, code, content), did # "handle_post", op[a].phase \notin Up, NEW n
  PROVE  SameUploads(n)
<1>1. Uploaded(n)' = Uploaded(n)
  BY AfterAReply DEF Uploaded, Entered
<1>2. Uploading(n)' = Uploading(n)
  BY AfterAReply DEF Uploading
<1>3. \A b \in Uploading(n) : op'[b].begin = op[b].begin
  BY AfterAReply DEF Uploading
<1> QED BY <1>1, <1>2, <1>3 DEF SameUploads

LEMMA UploadsOfEnds ==
  ASSUME NEW a \in DOMAIN op, op[a] # None, NEW code, NEW content,
         Reply(a, "handle_post", code, content), op[a].phase \in Up, NEW n
  PROVE  IF n = op[a].name THEN OneDone(n, a, Entered(a, "handle_post", code, content))
         ELSE SameUploads(n)
<1> DEFINE e == Entered(a, "handle_post", code, content)
<1>1. e.did = "handle_post" /\ e.name = op[a].name /\ e.begin = op[a].begin /\ e.end = clock + 1
  BY DEF Entered
<1>2. log' = log \cup {e}
  BY AfterAReply
<1> HIDE DEF e
<1>3. Uploaded(n)' = IF n = op[a].name THEN Uploaded(n) \cup {e} ELSE Uploaded(n)
  BY <1>1, <1>2 DEF Uploaded
<1>4. Uploading(n)' = IF n = op[a].name THEN Uploading(n) \ {a} ELSE Uploading(n)
  BY AfterAReply DEF Uploading
<1>5. \A b \in Uploading(n) : b # a => op'[b].begin = op[b].begin
  BY AfterAReply DEF Uploading
<1>6. a \in Uploading(n) <=> n = op[a].name
  BY DEF Uploading
<1> QED BY <1>1, <1>3, <1>4, <1>5, <1>6 DEF SameUploads, OneDone, e

LEMMA UploadsOfOthers ==
  ASSUME Rests \/ \E a \in DOMAIN op : \E o : Takes(a, o), NEW n
  PROVE  SameUploads(n)
<1>1. CASE Rests
  <2>1. Uploaded(n)' = Uploaded(n)
    BY <1>1 DEF Uploaded, Rests
  <2>2. Uploading(n)' = Uploading(n) /\ \A b \in Uploading(n) : op'[b].begin = op[b].begin
    BY <1>1 DEF Uploading, Rests
  <2> QED BY <2>1, <2>2 DEF SameUploads
<1>2. ASSUME NEW a \in DOMAIN op, NEW o, Takes(a, o) PROVE SameUploads(n)
  <2>1. op[a] = None /\ o.phase \notin Up
    BY <1>2 DEF Takes, Up
  <2>2. Uploaded(n)' = Uploaded(n)
    BY <1>2, AfterTaking DEF Uploaded
  <2>3. Uploading(n)' = Uploading(n)
    BY <1>2, <2>1, AfterTaking DEF Uploading
  <2>4. \A b \in Uploading(n) : op'[b].begin = op[b].begin
    BY <1>2, <2>1, AfterTaking DEF Uploading
  <2> QED BY <2>2, <2>3, <2>4 DEF SameUploads
<1> QED BY <1>1, <1>2

LEMMA UploadsOfAStep ==
  ASSUME Shape, [Next]_vars, NEW n
  PROVE  \/ SameUploads(n)
         \/ \E a \in DOMAIN op : OneMore(n, a)
         \/ \E a \in DOMAIN op : \E e : OneDone(n, a, e)
<1>1. CASE Rests \/ \E a \in DOMAIN op : \E o : Takes(a, o)
  BY <1>1, UploadsOfOthers
<1>2. ASSUME NEW a \in DOMAIN op, op[a] # None, NEW o,
             Turns(a, o) \/ Misses(a, o) \/ Opens(a, o) \/ Reads(a, o) \/ GoesOn(a, o) \/ Creates(a, o)
      PROVE  SameUploads(n)
  <2>1. /\ Moved(a, o) /\ (op[a].phase \in Up <=> o.phase \in Up)
        /\ o.phase \in Up => o.name = op[a].name
    BY <1>2 DEF Turns, Misses, Opens, Reads, GoesOn, Creates, Up
  <2> QED BY <1>2, <2>1, UploadsOfMoves
<1>3. ASSUME NEW a \in DOMAIN op, op[a] # None, NEW o, TakesUpload(a, o)
      PROVE  SameUploads(n) \/ OneMore(n, a)
  BY <1>3, UploadsOfTaking
<1>4. ASSUME NEW a \in DOMAIN op, op[a] # None, NEW did, NEW code, NEW content,
             Answers(a, did, code, content) \/ (Deletes(a) /\ did = "handle_delete" /\ code = 200
                                                /\ content = << >>)
      PROVE  SameUploads(n)
  <2>1. Reply(a, did, code, content) /\ did # "handle_post" /\ op[a].phase \notin Up
    BY <1>4 DEF Answers, Deletes, Up
  <2> QED BY <1>4, <2>1, UploadsOfAnswers
<1>5. ASSUME NEW a \in DOMAIN op, op[a] # None, NEW units, NEW code, NEW content,
             (Fails(a, content) /\ code = 500) \/ Writes(a, units, code, content)
      PROVE  SameUploads(n) \/ \E e : OneDone(n, a, e)
  <2>1. Reply(a, "handle_post", code, content) /\ op[a].phase \in Up
    BY <1>5 DEF Fails, Writes, Up
  <2> QED BY <1>5, <2>1, UploadsOfEnds
<1>6. CASE \E a \in DOMAIN op : op[a] # None /\ Deletes(a)
  BY <1>4, <1>6
<1>7. CASE \E a \in DOMAIN op : op[a] # None /\ \E content : Fails(a, content)
  BY <1>5, <1>7
<1> QED BY <1>1, <1>2, <1>3, <1>4, <1>5, <1>6, <1>7, KindsOfAllSteps

-----------------------------------------------------------------------------
(* Uploads that keep out of each other's way.                               *)

\* No two uploads of n overlapped, and none failed.
Undisturbed(n) ==
  /\ \A a, b \in Uploading(n) : a = b
  /\ \A a \in Uploading(n) : \A l \in Uploaded(n) : l.end < op[a].begin
  /\ \A k, l \in Uploaded(n) : k = l \/ k.end < l.begin \/ l.end < k.begin
  /\ \A l \in Uploaded(n) : l.code # 500

\* No upload of n since t.
Quiet(n, t) == Uploading(n) = {} /\ \A l \in Uploaded(n) : l.end < t

\* What has been disturbed stays so.
LEMMA OnceDisturbed ==
  ASSUME Shape, Clocked, [Next]_vars, NEW n, Undisturbed(n)' PROVE Undisturbed(n)
<1>1. /\ \A l \in Uploaded(n) : l.end <= clock /\ l.end \in Nat
      /\ \A a \in Uploading(n) : op[a].begin <= clock /\ op[a].begin \in Nat
      /\ clock \in Nat
  BY DEF Clocked, Uploaded, Uploading
<1>2. CASE SameUploads(n)
  BY <1>2 DEF SameUploads, Undisturbed
<1>3. ASSUME NEW a, OneMore(n, a) PROVE Undisturbed(n)
  BY <1>3 DEF OneMore, Undisturbed
<1>4. ASSUME NEW a, NEW e, OneDone(n, a, e) PROVE Undisturbed(n)
  <2>1. Uploading(n) = {a}
    <3>1. ASSUME NEW b \in Uploading(n), b # a PROVE FALSE
      <4>1. b \in Uploading(n)' /\ e \in Uploaded(n)' /\ op'[b].begin = op[b].begin
        BY <1>4, <3>1 DEF OneDone
      <4>2. e.end < op[b].begin
        BY <4>1 DEF Undisturbed
      <4> QED BY <1>1, <1>4, <4>2 DEF OneDone
    <3> QED BY <1>4, <3>1 DEF OneDone
  <2>2. ASSUME NEW l \in Uploaded(n) PROVE l.end < op[a].begin
    <3>1. l \in Uploaded(n)' /\ e \in Uploaded(n)' /\ e.begin = op[a].begin /\ e.end = clock + 1
      BY <1>4 DEF OneDone
    <3>2. l = e \/ l.end < e.begin \/ e.end < l.begin
      BY <3>1 DEF Undisturbed
    <3>3. l.end <= clock /\ l.begin < l.end /\ l.begin \in Nat /\ l.end \in Nat /\ clock \in Nat
      BY DEF Clocked, Uploaded
    <3> QED BY <3>1, <3>2, <3>3
  <2>3. \A k, l \in Uploaded(n) : k = l \/ k.end < l.begin \/ l.end < k.begin
    BY <1>4 DEF OneDone, Undisturbed
  <2>4. \A l \in Uploaded(n) : l.code # 500
    BY <1>4 DEF OneDone, Undisturbed
  <2> QED BY <2>1, <2>2, <2>3, <2>4 DEF Undisturbed
<1> QED BY <1>2, <1>3, <1>4, UploadsOfAStep

\* While n is quiet nothing happens to its uploads.
LEMMA OnceLoud ==
  ASSUME Shape, Clocked, [Next]_vars, NEW n, NEW t \in Nat, t <= clock, Quiet(n, t)'
  PROVE  Quiet(n, t) /\ SameUploads(n)
<1>1. CASE SameUploads(n)
  BY <1>1 DEF SameUploads, Quiet
<1>2. ASSUME NEW a, OneMore(n, a) PROVE FALSE
  BY <1>2 DEF OneMore, Quiet
<1>3. ASSUME NEW a, NEW e, OneDone(n, a, e) PROVE FALSE
  <2>1. e.end < t /\ e.end = clock + 1
    BY <1>3 DEF OneDone, Quiet
  <2> QED BY <2>1 DEF Clocked
<1> QED BY <1>1, <1>2, <1>3, UploadsOfAStep

-----------------------------------------------------------------------------
(* A file has one name.                                                     *)

Opened == {a \in DOMAIN op : op[a] # None /\ op[a].phase \in {"read", "write"}}

FilesNamed ==
  /\ \A m, n \in DOMAIN link : link[m] = link[n] => m = n
  /\ \A a \in Opened : \A n \in DOMAIN link : link[n] = op[a].file => n = op[a].name
  /\ \A a, b \in Opened : op[a].file = op[b].file => op[a].name = op[b].name

LEMMA NamedAtFirst == Init => FilesNamed
<1> SUFFICES ASSUME Init PROVE FilesNamed
  OBVIOUS
<1>1. Opened = {}
  BY DEF Init, Opened
<1>2. ASSUME NEW n \in DOMAIN link PROVE SiteFiles[link[n]].name = n
  <2>1. PICK i \in DOMAIN SiteFiles : SiteFiles[i].name = n
    BY DEF Init
  <2>2. link[n] = CHOOSE j \in DOMAIN SiteFiles : SiteFiles[j].name = n
    BY DEF Init
  <2> QED BY <2>1, <2>2
<1> QED BY <1>1, <1>2 DEF FilesNamed

\* No name is added and none opened.
LEMMA NamedFewer ==
  ASSUME FilesNamed, DOMAIN link' \subseteq DOMAIN link, \A n \in DOMAIN link' : link'[n] = link[n],
         \A a \in Opened' : a \in Opened /\ op'[a].file = op[a].file /\ op'[a].name = op[a].name
  PROVE  FilesNamed'
<1>1. \A m, n \in DOMAIN link' : link'[m] = link'[n] => m = n
  BY DEF FilesNamed
<1>2. \A a \in Opened' : \A n \in DOMAIN link' : link'[n] = op'[a].file => n = op'[a].name
  BY DEF FilesNamed
<1>3. \A a, b \in Opened' : op'[a].file = op'[b].file => op'[a].name = op'[b].name
  BY DEF FilesNamed
<1> QED BY <1>1, <1>2, <1>3 DEF FilesNamed

\* What the calls that change files change.
LEMMA WhatCreateDoes ==
  ASSUME Shape, NEW n, Create(n)
  PROVE  /\ n \in DOMAIN link' /\ DOMAIN link' = DOMAIN link \cup {n}
         /\ \A m \in DOMAIN link : m # n => link'[m] = link[m]
         /\ n \in DOMAIN link => link' = link
         /\ n \notin DOMAIN link => link'[n] \notin DOMAIN data
         /\ data'[link'[n]] = << >>
         /\ \A f \in DOMAIN data : f # link'[n] => data'[f] = data[f]
<1>1. data \in Seq(Seq(Units)) /\ << >> \in Seq(Units) /\ Len(data) \in Nat
      /\ DOMAIN data = 1 .. Len(data)
  BY DEF Shape, TreeShape
<1>2. CASE n \in DOMAIN link
  <2>1. link' = link /\ data' = [data EXCEPT ![link[n]] = << >>]
    BY <1>2 DEF Create
  <2>2. link[n] \in DOMAIN data
    BY <1>2 DEF Shape, TreeShape
  <2> QED BY <1>2, <2>1, <2>2
<1>3. CASE n \notin DOMAIN link
  <2>1. /\ link' = [m \in DOMAIN link \cup {n} |-> IF m = n THEN Len(data) + 1 ELSE link[m]]
        /\ data' = Append(data, << >>)
    BY <1>3 DEF Create
  <2>2. data'[Len(data) + 1] = << >> /\ \A f \in 1 .. Len(data) : data'[f] = data[f]
    BY <1>1, <2>1, AppendProperties
  <2>3. Len(data) + 1 \notin DOMAIN data
    BY <1>1
  <2>4. link'[n] = Len(data) + 1 /\ DOMAIN link' = DOMAIN link \cup {n}
        /\ \A m \in DOMAIN link : m # n => link'[m] = link[m]
    BY <2>1
  <2> QED BY <1>1, <1>3, <2>2, <2>3, <2>4
<1> QED BY <1>2, <1>3

LEMMA WhatWriteDoes ==
  ASSUME Shape, NEW f \in DOMAIN data, NEW units \in Seq(Units), Write(f, units)
  PROVE  /\ link' = link /\ \A g \in DOMAIN data : g # f => data'[g] = data[g]
         /\ data[f] = << >> => data'[f] = units
<1>1. data \in Seq(Seq(Units)) /\ data[f] \in Seq(Units)
  BY DEF Shape, TreeShape
<1> DEFINE rest == SubSeq(data[f], Len(units) + 1, Len(data[f]))
<1>2. data' = [data EXCEPT ![f] = units \o rest] /\ link' = link
  BY DEF Write
<1>3. data[f] = << >> => units \o rest = units
  <2>1. ASSUME data[f] = << >> PROVE rest = << >>
    <3>1. Len(data[f]) = 0 /\ Len(units) \in Nat
      BY <2>1
    <3>2. SubSeq(data[f], Len(units) + 1, 0) = << >>
      BY <3>1
    <3> QED BY <3>1, <3>2
  <2> HIDE DEF rest
  <2> QED BY <2>1
<1> HIDE DEF rest
<1> QED BY <1>1, <1>2, <1>3

LEMMA NamedKept == Shape /\ FilesNamed /\ [Next]_vars => FilesNamed'
<1> SUFFICES ASSUME Shape, FilesNamed, [Next]_vars PROVE FilesNamed'
  OBVIOUS
<1>1. CASE Rests
  <2>1. link' = link /\ \A a \in Opened' : a \in Opened /\ op'[a] = op[a]
    BY <1>1 DEF Rests, FilesStay, Opened
  <2> QED BY <2>1, NamedFewer
<1>2. ASSUME NEW a \in DOMAIN op, NEW o, Takes(a, o) PROVE FilesNamed'
  <2>1. link' = link /\ \A b \in Opened' : b \in Opened /\ op'[b] = op[b]
    BY <1>2, AfterTaking DEF Takes, FilesStay, Opened
  <2> QED BY <2>1, NamedFewer
<1>3. ASSUME NEW a \in DOMAIN op, op[a] # None, NEW o,
             Turns(a, o) \/ Misses(a, o) \/ TakesUpload(a, o) \/ GoesOn(a, o)
      PROVE  FilesNamed'
  <2>1. link' = link /\ Moved(a, o) /\ o.phase \notin {"read", "write"}
    BY <1>3 DEF Turns, Misses, TakesUpload, GoesOn, FilesStay, Up
  <2>2. \A b \in Opened' : b \in Opened /\ op'[b] = op[b]
    BY <2>1, AfterAMove DEF Opened
  <2> QED BY <2>1, <2>2, NamedFewer
<1>4. ASSUME NEW a \in DOMAIN op, op[a] # None, NEW o, Reads(a, o) PROVE FilesNamed'
  <2>1. /\ link' = link /\ Moved(a, o) /\ a \in Opened
        /\ o.file = op[a].file /\ o.name = op[a].name
    BY <1>4 DEF Reads, FilesStay, Opened
  <2>2. \A b \in Opened' : b \in Opened /\ op'[b].file = op[b].file /\ op'[b].name = op[b].name
    BY <2>1, AfterAMove DEF Opened
  <2> QED BY <2>1, <2>2, NamedFewer
<1>5. ASSUME NEW a \in DOMAIN op, op[a] # None, NEW did, NEW code, NEW content,
             Reply(a, did, code, content),
             DOMAIN link' \subseteq DOMAIN link, \A n \in DOMAIN link' : link'[n] = link[n]
      PROVE  FilesNamed'
  <2>1. \A b \in Opened' : b \in Opened /\ op'[b] = op[b]
    BY <1>5, AfterAReply DEF Opened
  <2> QED BY <1>5, <2>1, NamedFewer
<1>6. ASSUME NEW a \in DOMAIN op, op[a] # None, NEW did, NEW code, NEW content,
             Answers(a, did, code, content)
      PROVE  FilesNamed'
  BY <1>5, <1>6 DEF Answers, FilesStay
<1>7. ASSUME NEW a \in DOMAIN op, op[a] # None, NEW content, Fails(a, content) PROVE FilesNamed'
  BY <1>5, <1>7 DEF Fails, FilesStay
<1>8. ASSUME NEW a \in DOMAIN op, op[a] # None, NEW units, NEW code, NEW content,
             Writes(a, units, code, content)
      PROVE  FilesNamed'
  BY <1>5, <1>8 DEF Writes, Write
<1>9. ASSUME NEW a \in DOMAIN op, op[a] # None, Deletes(a) PROVE FilesNamed'
  <2>1. DOMAIN link' \subseteq DOMAIN link /\ \A n \in DOMAIN link' : link'[n] = link[n]
    BY <1>9 DEF Deletes, Unlink
  <2> QED BY <1>5, <1>9, <2>1 DEF Deletes
\* A file is opened by its name, or made for it.
<1>10. ASSUME NEW a \in DOMAIN op, op[a] # None, NEW o, Moved(a, o), o.name = op[a].name,
              op[a].name \in DOMAIN link', o.file = link'[op[a].name],
              \A n \in DOMAIN link' \ {op[a].name} : n \in DOMAIN link /\ link'[n] = link[n],
              op[a].name \in DOMAIN link => link'[op[a].name] = link[op[a].name],
              op[a].name \notin DOMAIN link => link'[op[a].name] \notin DOMAIN data
       PROVE  FilesNamed'
  <2> DEFINE n == op[a].name
  <2>1. \A b \in Opened' : b # a => b \in Opened /\ op'[b] = op[b] /\ op[b].file \in DOMAIN data
    BY <1>10, AfterAMove DEF Opened, Shape, FilesOpen
  <2>2. \A m \in DOMAIN link : link[m] \in DOMAIN data
    BY DEF Shape, TreeShape
  <2>3. ASSUME NEW m \in DOMAIN link', link'[m] = link'[n] PROVE m = n
    BY <1>10, <2>2, <2>3 DEF FilesNamed
  <2>4. ASSUME NEW b \in Opened', b # a, op'[b].file = link'[n] PROVE op'[b].name = n
    BY <1>10, <2>1, <2>4 DEF FilesNamed
  <2>5. op'[a] = o
    BY <1>10, AfterAMove
  <2>6. \A k, m \in DOMAIN link' : link'[k] = link'[m] => k = m
    BY <1>10, <2>3 DEF FilesNamed
  <2>7. \A b \in Opened' : \A m \in DOMAIN link' : link'[m] = op'[b].file => m = op'[b].name
    BY <1>10, <2>1, <2>3, <2>4, <2>5 DEF FilesNamed
  <2>8. \A b, c \in Opened' : op'[b].file = op'[c].file => op'[b].name = op'[c].name
    BY <1>10, <2>1, <2>4, <2>5 DEF FilesNamed
  <2> QED BY <2>6, <2>7, <2>8 DEF FilesNamed
<1>11. ASSUME NEW a \in DOMAIN op, op[a] # None, NEW o, Opens(a, o) PROVE FilesNamed'
  BY <1>10, <1>11 DEF Opens, FilesStay
<1>12. ASSUME NEW a \in DOMAIN op, op[a] # None, NEW o, Creates(a, o) PROVE FilesNamed'
  <2>1. Create(op[a].name) /\ Moved(a, o) /\ o.name = op[a].name /\ o.file = link'[op[a].name]
    BY <1>12 DEF Creates
  <2>2. /\ op[a].name \in DOMAIN link' /\ DOMAIN link' = DOMAIN link \cup {op[a].name}
        /\ \A m \in DOMAIN link : m # op[a].name => link'[m] = link[m]
        /\ op[a].name \in DOMAIN link => link' = link
        /\ op[a].name \notin DOMAIN link => link'[op[a].name] \notin DOMAIN data
    BY <2>1, WhatCreateDoes
  <2> QED BY <1>10, <1>12, <2>1, <2>2
<1> QED BY <1>1, <1>2, <1>3, <1>4, <1>6, <1>7, <1>8, <1>9, <1>11, <1>12, KindsOfAllSteps

-----------------------------------------------------------------------------
(* What a file holds.                                                       *)

\* c is the latest of the uploads S of n, or what n held at the start.
HeldOf(S, n, c) ==
  IF S = {} THEN c \in Original(n)
  ELSE \E l \in S : (\A k \in S : k.end <= l.end) /\ c = l.req.body

\* A file is empty while an upload that has created it is to write it, and holds the
\* latest upload otherwise.
FileWhole(n) ==
  \/ \E a \in Uploading(n) : op[a].phase = "write" /\ op[a].file = link[n] /\ data[link[n]] = << >>
  \/ (\A a \in Uploading(n) : op[a].phase # "write") /\ HeldOf(Uploaded(n), n, data[link[n]])

FilesWhole == \A n \in DOMAIN link : Undisturbed(n) => FileWhole(n)

LEMMA WholeAtFirst == Init => FilesWhole
<1> SUFFICES ASSUME Init, NEW n \in DOMAIN link PROVE FileWhole(n)
  BY DEF FilesWhole
<1>1. Uploading(n) = {} /\ Uploaded(n) = {}
  BY DEF Init, Uploading, Uploaded
<1>2. data[link[n]] \in Original(n)
  <2>1. PICK i \in DOMAIN SiteFiles : SiteFiles[i].name = n
    BY DEF Init
  <2>2. link[n] = CHOOSE j \in DOMAIN SiteFiles : SiteFiles[j].name = n
    BY DEF Init
  <2>3. link[n] \in DOMAIN SiteFiles /\ SiteFiles[link[n]].name = n
    BY <2>1, <2>2
  <2>4. data[link[n]] = SiteFiles[link[n]].contents
    BY <2>3 DEF Init
  <2> QED BY <2>3, <2>4 DEF Original
<1> QED BY <1>1, <1>2 DEF FileWhole, HeldOf

\* A step that does not concern n.
Untouched(n) ==
  /\ n \in DOMAIN link /\ link'[n] = link[n] /\ data'[link[n]] = data[link[n]]
  /\ SameUploads(n)
  /\ \A b \in Uploading(n) : /\ op'[b].phase = "write" <=> op[b].phase = "write"
                             /\ op[b].phase = "write" => op'[b].file = op[b].file

LEMMA UntouchedStaysWhole ==
  ASSUME NEW n, Untouched(n), FileWhole(n) PROVE FileWhole(n)'
<1>1. CASE \E a \in Uploading(n) : op[a].phase = "write" /\ op[a].file = link[n] /\ data[link[n]] = << >>
  BY <1>1 DEF Untouched, SameUploads, FileWhole
<1>2. CASE (\A a \in Uploading(n) : op[a].phase # "write") /\ HeldOf(Uploaded(n), n, data[link[n]])
  <2>1. \A a \in Uploading(n)' : op'[a].phase # "write"
    BY <1>2 DEF Untouched, SameUploads
  <2>2. HeldOf(Uploaded(n)', n, data'[link'[n]])
    BY <1>2 DEF Untouched, SameUploads
  <2> QED BY <2>1, <2>2 DEF FileWhole, HeldOf
<1> QED BY <1>1, <1>2 DEF FileWhole

\* The contents of files with other names, in the kinds of step that change some.
LEMMA WholeKept ==
  Shape /\ Clocked /\ FilesNamed /\ FilesWhole /\ [Next]_vars => FilesWhole'
<1> SUFFICES ASSUME Shape, Clocked, FilesNamed, FilesWhole, [Next]_vars,
                    NEW n \in DOMAIN link', Undisturbed(n)'
             PROVE  FileWhole(n)'
  BY DEF FilesWhole
<1>1. Undisturbed(n) /\ (n \in DOMAIN link => FileWhole(n))
  BY OnceDisturbed DEF FilesWhole
<1>u. Untouched(n) => FileWhole(n)'
  BY <1>1, UntouchedStaysWhole DEF Untouched
<1>2. CASE Rests
  <2>1. \A b \in Uploading(n) : op'[b] = op[b]
    BY <1>2 DEF Rests, Uploading
  <2> QED BY <1>2, <1>u, <2>1, UploadsOfOthers DEF Rests, FilesStay, Untouched
<1>3. ASSUME NEW a \in DOMAIN op, NEW o, Takes(a, o) PROVE FileWhole(n)'
  <2>1. \A b \in Uploading(n) : op'[b] = op[b]
    BY <1>3, AfterTaking DEF Takes, Uploading
  <2> QED BY <1>3, <1>u, <2>1, UploadsOfOthers DEF Takes, FilesStay, Untouched
<1>4. ASSUME NEW a \in DOMAIN op, op[a] # None, NEW o,
             Turns(a, o) \/ Misses(a, o) \/ Opens(a, o) \/ Reads(a, o)
      PROVE  FileWhole(n)'
  <2>1. Moved(a, o) /\ FilesStay /\ op[a].phase \notin Up /\ o.phase \notin Up
    BY <1>4 DEF Turns, Misses, Opens, Reads, Up
  <2>2. \A b \in Uploading(n) : op'[b] = op[b]
    BY <2>1, AfterAMove DEF Uploading
  <2>3. SameUploads(n)
    BY <1>4, <2>1, UploadsOfMoves
  <2> QED BY <1>u, <2>1, <2>2, <2>3 DEF FilesStay, Untouched
<1>5. ASSUME NEW a \in DOMAIN op, op[a] # None, NEW o, TakesUpload(a, o) PROVE FileWhole(n)'
  <2>1. Moved(a, o) /\ FilesStay /\ op[a].phase \notin Up /\ o.phase = "handle_post"
    BY <1>5 DEF TakesUpload
  <2>2. \A b \in Uploading(n) : op'[b] = op[b]
    BY <2>1, AfterAMove DEF Uploading
  <2>3. CASE n # o.name
    BY <1>5, <1>u, <2>1, <2>2, <2>3, UploadsOfTaking DEF FilesStay, Untouched
  <2>4. CASE n = o.name
    <3>1. OneMore(n, a) /\ a \notin Uploading(n)
      BY <1>5, <2>1, <2>4, UploadsOfTaking DEF Uploading
    <3>2. Uploading(n) = {} /\ Uploading(n)' = {a}
      BY <3>1 DEF OneMore, Undisturbed
    <3>3. HeldOf(Uploaded(n), n, data[link[n]])
      BY <1>1, <2>1, <3>2 DEF FileWhole, FilesStay
    <3>4. HeldOf(Uploaded(n)', n, data'[link'[n]])
      BY <2>1, <3>1, <3>3 DEF OneMore, FilesStay
    <3>5. op'[a].phase # "write"
      BY <2>1, AfterAMove
    <3> QED BY <3>2, <3>4, <3>5 DEF FileWhole, HeldOf
  <2> QED BY <2>3, <2>4
<1>6. ASSUME NEW a \in DOMAIN op, op[a] # None, NEW o, GoesOn(a, o) PROVE FileWhole(n)'
  <2>1. /\ Moved(a, o) /\ FilesStay /\ op[a].phase = "handle_post" /\ o.phase = "create"
        /\ o.name = op[a].name
    BY <1>6 DEF GoesOn
  <2>2. \A b \in Uploading(n) : /\ op'[b].phase = "write" <=> op[b].phase = "write"
                                /\ op[b].phase = "write" => op'[b].file = op[b].file
    BY <2>1, AfterAMove DEF Uploading
  <2>3. SameUploads(n)
    BY <1>6, <2>1, UploadsOfMoves DEF Up
  <2> QED BY <1>u, <2>1, <2>2, <2>3 DEF FilesStay, Untouched
<1>7. ASSUME NEW a \in DOMAIN op, op[a] # None, NEW o, Creates(a, o) PROVE FileWhole(n)'
  <2>1. /\ Moved(a, o) /\ Create(op[a].name) /\ op[a].phase = "create" /\ o.phase = "write"
        /\ o.name = op[a].name /\ o.file = link'[op[a].name]
    BY <1>7 DEF Creates
  <2>2. SameUploads(n)
    BY <1>7, <2>1, UploadsOfMoves DEF Up
  <2>3. CASE n = op[a].name
    <3>1. data'[link'[n]] = << >>
      BY <2>1, <2>3, WhatCreateDoes
    <3>2. a \in Uploading(n)' /\ op'[a] = o
      BY <2>1, <2>2, <2>3, AfterAMove DEF SameUploads, Uploading, Up
    <3> QED BY <2>1, <2>3, <3>1, <3>2 DEF FileWhole
  <2>4. CASE n # op[a].name
    <3>1. /\ op[a].name \in DOMAIN link => link' = link
          /\ op[a].name \notin DOMAIN link => link'[op[a].name] \notin DOMAIN data
          /\ \A f \in DOMAIN data : f # link'[op[a].name] => data'[f] = data[f]
          /\ DOMAIN link' = DOMAIN link \cup {op[a].name}
          /\ \A m \in DOMAIN link : m # op[a].name => link'[m] = link[m]
      BY <2>1, WhatCreateDoes
    <3>4. n \in DOMAIN link /\ link'[n] = link[n]
      BY <2>4, <3>1
    <3>5. link[n] \in DOMAIN data
      BY <3>4 DEF Shape, TreeShape
    <3>2. link[n] # link'[op[a].name]
      BY <2>4, <3>1, <3>4, <3>5 DEF FilesNamed
    <3>3. \A b \in Uploading(n) : op'[b] = op[b]
      BY <2>1, <2>4, AfterAMove DEF Uploading
    <3> QED BY <1>u, <2>2, <3>1, <3>2, <3>3, <3>4, <3>5 DEF Untouched
  <2> QED BY <2>3, <2>4
<1>8. ASSUME NEW a \in DOMAIN op, op[a] # None, NEW did, NEW code, NEW content,
             Reply(a, did, code, content), SameUploads(n), a \notin Uploading(n),
             n \in DOMAIN link, link'[n] = link[n], data'[link[n]] = data[link[n]]
      PROVE  FileWhole(n)'
  <2>1. \A b \in Uploading(n) : op'[b] = op[b]
    BY <1>8, AfterAReply DEF Uploading
  <2> QED BY <1>u, <1>8, <2>1 DEF Untouched
<1>9. ASSUME NEW a \in DOMAIN op, op[a] # None, NEW did, NEW code, NEW content,
             Answers(a, did, code, content)
      PROVE  FileWhole(n)'
  <2>1. Reply(a, did, code, content) /\ FilesStay /\ op[a].phase \notin Up /\ did # "handle_post"
    BY <1>9 DEF Answers
  <2>2. SameUploads(n) /\ a \notin Uploading(n)
    BY <1>9, <2>1, UploadsOfAnswers DEF Uploading
  <2> QED BY <1>8, <1>9, <2>1, <2>2 DEF FilesStay
<1>10. ASSUME NEW a \in DOMAIN op, op[a] # None, Deletes(a) PROVE FileWhole(n)'
  <2>1. /\ Reply(a, "handle_delete", 200, << >>) /\ Unlink(op[a].name) /\ op[a].phase \notin Up
    BY <1>10 DEF Deletes, Up
  <2>2. SameUploads(n) /\ a \notin Uploading(n)
    BY <1>10, <2>1, UploadsOfAnswers DEF Uploading
  <2> QED BY <1>8, <1>10, <2>1, <2>2 DEF Unlink
\* An upload ends: another's, with its own file, or n's, whole.
<1>11. ASSUME NEW a \in DOMAIN op, op[a] # None, NEW code, NEW content,
              Reply(a, "handle_post", code, content), op[a].phase \in Up, n # op[a].name,
              n \in DOMAIN link, link'[n] = link[n], data'[link[n]] = data[link[n]]
       PROVE  FileWhole(n)'
  <2>1. SameUploads(n) /\ a \notin Uploading(n)
    BY <1>11, UploadsOfEnds DEF Uploading
  <2> QED BY <1>8, <1>11, <2>1
<1>12. ASSUME NEW a \in DOMAIN op, op[a] # None, NEW content, op[a].phase \in Up,
              Reply(a, "handle_post", 500, content), n = op[a].name
       PROVE  FALSE
  <2> DEFINE e == Entered(a, "handle_post", 500, content)
  <2>1. OneDone(n, a, e) /\ e.code = 500
    BY <1>12, UploadsOfEnds DEF Entered
  <2> HIDE DEF e
  <2> QED BY <2>1 DEF OneDone, Undisturbed
<1>13. ASSUME NEW a \in DOMAIN op, op[a] # None, NEW content, Fails(a, content)
       PROVE  FileWhole(n)'
  <2>1. Reply(a, "handle_post", 500, content) /\ FilesStay /\ op[a].phase \in Up
    BY <1>13 DEF Fails, Up
  <2> QED BY <1>11, <1>12, <1>13, <2>1 DEF FilesStay
<1>14. ASSUME NEW a \in DOMAIN op, op[a] # None, NEW units \in Seq(Units), NEW code, NEW content,
              Writes(a, units, code, content)
       PROVE  FileWhole(n)'
  <2>1. /\ Reply(a, "handle_post", code, content) /\ Write(op[a].file, units)
        /\ op[a].phase = "write" /\ op[a].phase \in Up
        /\ code = 500 \/ (code = 200 /\ units = op[a].req.body)
    BY <1>14 DEF Writes, Up
  <2>2. a \in Opened /\ op[a].file \in DOMAIN data
    BY <1>14, <2>1 DEF Opened, Shape, FilesOpen
  <2>3. /\ link' = link /\ \A g \in DOMAIN data : g # op[a].file => data'[g] = data[g]
        /\ data[op[a].file] = << >> => data'[op[a].file] = units
    BY <2>1, <2>2, WhatWriteDoes
  <2>4. n \in DOMAIN link /\ link[n] \in DOMAIN data
    BY <2>3 DEF Shape, TreeShape
  <2>5. CASE n # op[a].name
    <3>1. link[n] # op[a].file
      BY <2>2, <2>4, <2>5 DEF FilesNamed
    <3> QED BY <1>11, <1>14, <2>1, <2>3, <2>4, <2>5, <3>1
  <2>6. CASE n = op[a].name /\ code = 500
    BY <1>12, <1>14, <2>1, <2>6
  <2>7. CASE n = op[a].name /\ code = 200 /\ units = op[a].req.body
    <3> DEFINE e == Entered(a, "handle_post", code, content)
    <3>1. OneDone(n, a, e) /\ e.req = op[a].req
      BY <1>14, <2>1, <2>7, UploadsOfEnds DEF Entered
    <3> HIDE DEF e
    <3>2. Uploading(n) = {a}
      BY <1>1, <3>1 DEF Undisturbed, OneDone
    <3>3. op[a].file = link[n] /\ data[link[n]] = << >>
      BY <1>1, <2>1, <2>4, <3>2 DEF FileWhole
    <3>4. data'[link'[n]] = e.req.body
      BY <2>3, <2>7, <3>1, <3>3
    <3>5. Uploading(n)' = {} /\ Uploaded(n)' = Uploaded(n) \cup {e}
      BY <3>1, <3>2 DEF OneDone
    <3>6. \A l \in Uploaded(n)' : l.end <= e.end
      <4>1. \A l \in Uploaded(n) : l.end \in Nat /\ l.end <= clock
        BY DEF Clocked, Uploaded
      <4>2. e.end = clock + 1 /\ clock \in Nat
        BY <3>1 DEF OneDone, Clocked
      <4> QED BY <3>5, <4>1, <4>2
    <3>7. HeldOf(Uploaded(n)', n, data'[link'[n]])
      BY <3>4, <3>5, <3>6 DEF HeldOf
    <3> QED BY <3>5, <3>7 DEF FileWhole, HeldOf
  <2> QED BY <2>1, <2>5, <2>6, <2>7
<1> QED BY <1>2, <1>3, <1>4, <1>5, <1>6, <1>7, <1>9, <1>10, <1>13, <1>14, KindsOfAllSteps

\* An upload ends as written, or as failed.
UploadCodes == \A l \in log : l.did = "handle_post" => l.code \in {200, 500}

LEMMA UploadCodesKept == Shape /\ UploadCodes /\ [Next]_vars => UploadCodes'
<1> SUFFICES ASSUME Shape, UploadCodes, [Next]_vars PROVE UploadCodes'
  OBVIOUS
<1>1. CASE log' = log
  BY <1>1 DEF UploadCodes
<1>2. ASSUME NEW a \in DOMAIN op, NEW did, NEW code, NEW content, Reply(a, did, code, content),
             did = "handle_post" => code \in {200, 500}
      PROVE  UploadCodes'
  BY <1>2, AfterAReply DEF UploadCodes, Entered
<1> QED BY <1>1, <1>2, KindsOfAllSteps
     DEF Rests, Takes, Turns, Misses, TakesUpload, GoesOn, Opens, Reads, Creates, Moved,
         Answers, Fails, Writes, Deletes

\* What the histories of the files rest on.
Histories == Clocked /\ FilesNamed /\ FilesWhole /\ UploadCodes

LEMMA HistoriesAlways == Spec => [](Shape /\ Histories)
<1>1. Init => Histories
  <2> SUFFICES ASSUME Init PROVE Histories
    OBVIOUS
  <2>1. DOMAIN op = {} /\ log = {} /\ clock = 0
    BY DEF Init
  <2>2. Clocked /\ UploadCodes
    BY <2>1 DEF Clocked, UploadCodes
  <2> QED BY <2>2, NamedAtFirst, WholeAtFirst DEF Histories
<1>2. Shape /\ Histories /\ [Next]_vars => Histories'
  BY ClockedKept, NamedKept, WholeKept, UploadCodesKept DEF Histories
<1> QED BY <1>1, <1>2, ShapeAtFirst, ShapeKept, PTL DEF Spec

\* What the text calls the uploads of a file, told from what is done.
Pending(a) ==
  [by |-> a, req |-> op[a].req, did |-> "pending", name |-> op[a].name,
   code |-> 0, content |-> << >>, begin |-> op[a].begin, end |-> clock + 1]

LEMMA OpsAre ==
  /\ log \subseteq Ops
  /\ \A a \in DOMAIN op : op[a] # None => Pending(a) \in Ops
  /\ \A l \in Ops : l \in log \/ \E a \in DOMAIN op : op[a] # None /\ l = Pending(a)
<1>1. Ops = log \cup {Pending(a) : a \in {b \in DOMAIN op : op[b] # None}}
  BY DEF Ops, Pending
<1> QED BY <1>1

\* The file that a location gives for the path is a target of the request.
LEMMA FileIsATarget ==
  ASSUME Following, NEW l, l.by \in Addrs, l.req \in Request, said = servers,
         NEW what \in {"handle_post", "create", "write", "serve_file", "trimmed", "handle_delete"},
         AsLocated(servers, l.by, l.req, what, l.name)
  PROVE  l.name \in Targets(l)
<1> DEFINE loc == LocOf(servers, l.by, l.req)
<1>1. loc # None /\ l.name = FileName(l.req.path, loc)
  BY DEF AsLocated, Permits
<1>2. loc \in Covering(l.by, l.req)
  BY <1>1, WhatTheFileSays DEF Following
<1>3. l.name = Chars[loc.root] \o Chars[l.req.path]
  BY <1>1 DEF FileName
<1> HIDE DEF loc
<1> QED BY <1>2, <1>3 DEF Targets

LEMMA UploadsAreTold ==
  ASSUME Following, NEW n
  PROVE  /\ \A a \in Uploading(n) : Pending(a) \in Uploads(n)
         /\ \A l \in Uploaded(n) : l \in Uploads(n)
<1>1. ASSUME NEW a \in Uploading(n) PROVE Pending(a) \in Uploads(n)
  <2>1. a \in DOMAIN op /\ op[a] # None /\ op[a].phase \in Up /\ op[a].name = n
    BY DEF Uploading
  <2>2. a \in DOMAIN thread /\ said = servers
    BY <2>1 DEF Following, Shape, ThreadShape, SaidIsServed
  <2>3. a \in Addrs /\ op[a].req \in Request
    BY <2>1, <2>2, UnderWay DEF Following
  <2>4. AsLocated(servers, a, op[a].req, op[a].phase, op[a].name)
    BY <2>1 DEF Following, OpsFollow, Up
  <2>5. op[a].req.method = "POST"
    BY <2>1, <2>4 DEF AsLocated, Up
  <2> DEFINE l == Pending(a)
  <2>6. l.by = a /\ l.req = op[a].req /\ l.name = n /\ l.did = "pending"
    BY <2>1 DEF Pending
  <2>7. l \in Ops
    BY <2>1, OpsAre
  <2> HIDE DEF l
  <2>8. n \in Targets(l)
    BY <2>1, <2>2, <2>3, <2>4, <2>6, FileIsATarget DEF Up
  <2> QED BY <2>5, <2>6, <2>7, <2>8 DEF Uploads, l
<1>2. ASSUME NEW l \in Uploaded(n) PROVE l \in Uploads(n)
  <2>1. l \in log /\ l.did = "handle_post" /\ l.name = n
    BY DEF Uploaded
  <2>2. l.by \in Addrs /\ l.req \in Request /\ said = servers
    BY <2>1 DEF Following, Shape, ThreadShape, Entry, SaidIsServed
  <2>3. AsLocated(servers, l.by, l.req, "handle_post", l.name)
    BY <2>1 DEF Following, LogFollows, Faithful, Done
  <2>4. n \in Targets(l) /\ l.req.method = "POST"
    BY <2>1, <2>2, <2>3, FileIsATarget DEF AsLocated
  <2> QED BY <2>1, <2>4, OpsAre DEF Uploads
<1> QED BY <1>1, <1>2

LEMMA OrderlyIsUndisturbed ==
  ASSUME Following, Clocked, NEW n, Orderly(n) PROVE Undisturbed(n)
<1>1. ASSUME NEW a \in Uploading(n), NEW b \in Uploading(n), a # b PROVE FALSE
  <2> DEFINE k == Pending(a)
             l == Pending(b)
  <2>1. k \in Uploads(n) /\ l \in Uploads(n)
    BY UploadsAreTold
  <2>2. k # l /\ k.begin = op[a].begin /\ l.begin = op[b].begin /\ k.end = clock + 1
        /\ l.end = clock + 1
    <3>1. k.by = a /\ l.by = b
      BY DEF Pending
    <3>2. k # l
      BY <1>1, <3>1
    <3> QED BY <3>2 DEF Pending
  <2>3. op[a].begin \in Nat /\ op[a].begin <= clock /\ op[b].begin \in Nat /\ op[b].begin <= clock
        /\ clock \in Nat
    BY DEF Clocked, Uploading
  <2> HIDE DEF k, l
  <2> QED BY <2>1, <2>2, <2>3 DEF Orderly, Overlap
<1>2. ASSUME NEW a \in Uploading(n), NEW l \in Uploaded(n) PROVE l.end < op[a].begin
  <2> DEFINE k == Pending(a)
  <2>1. k \in Uploads(n) /\ l \in Uploads(n)
    BY UploadsAreTold
  <2>2. k # l /\ k.begin = op[a].begin /\ k.end = clock + 1
    <3>1. k.did # l.did
      BY DEF Pending, Uploaded
    <3>2. k # l
      BY <3>1
    <3> QED BY <3>2 DEF Pending
  <2>3. op[a].begin \in Nat /\ clock \in Nat /\ l.begin \in Nat /\ l.end \in Nat
        /\ l.begin < l.end /\ l.end <= clock /\ l.end # op[a].begin
    BY DEF Clocked, Uploading, Uploaded
  <2> HIDE DEF k
  <2>4. ~(k.begin < l.end /\ l.begin < k.end)
    BY <2>1, <2>2 DEF Orderly, Overlap
  <2> QED BY <2>2, <2>3, <2>4
<1>3. ASSUME NEW k \in Uploaded(n), NEW l \in Uploaded(n), k # l
      PROVE  k.end < l.begin \/ l.end < k.begin
  <2>1. ~(k.begin < l.end /\ l.begin < k.end)
    BY <1>3, UploadsAreTold DEF Orderly, Overlap
  <2>2. k.begin \in Nat /\ k.end \in Nat /\ l.begin \in Nat /\ l.end \in Nat
        /\ k.end # l.begin /\ l.end # k.begin
    BY DEF Clocked, Uploaded
  <2> QED BY <2>1, <2>2
<1>4. \A l \in Uploaded(n) : l.code # 500
  BY UploadsAreTold DEF Orderly
<1> QED BY <1>1, <1>2, <1>3, <1>4 DEF Undisturbed

\* A file that nobody is writing holds the whole of one upload, or what it held at the
\* start, unless two uploads of it overlapped or one failed: fs::write leaves no tail of
\* what was there before.
THEOREM FilesAreStoredWhole == Spec => []StoredWhole
<1>1. Following /\ Histories => StoredWhole
  <2> SUFFICES ASSUME Following, Histories, NEW n \in DOMAIN link, Orderly(n),
                      \A l \in Uploads(n) : l.did # "pending"
               PROVE  data[link[n]] \in Original(n) \cup {l.req.body : l \in Stored(n)}
    BY DEF StoredWhole
  <2>1. Undisturbed(n)
    BY OrderlyIsUndisturbed DEF Histories
  <2>2. ASSUME NEW a \in Uploading(n) PROVE FALSE
    <3>1. Pending(a) \in Uploads(n) /\ Pending(a).did = "pending"
      BY UploadsAreTold DEF Pending
    <3> QED BY <3>1
  <2>3. HeldOf(Uploaded(n), n, data[link[n]])
    BY <2>1, <2>2 DEF Histories, FilesWhole, FileWhole
  <2>4. \A l \in Uploaded(n) : l \in Stored(n)
    BY UploadsAreTold DEF Stored, Uploaded, Histories, UploadCodes, Orderly
  <2> QED BY <2>3, <2>4 DEF HeldOf
<1> QED BY <1>1, FollowingAlways, HistoriesAlways, PTL


-----------------------------------------------------------------------------
(* What a download returns.                                                 *)

\* Reader o, as long as no upload of its file came in between, has the latest one in
\* front of it; nothing has been read before reading begins.
Has(o) ==
  Undisturbed(o.name) /\ Quiet(o.name, o.begin) =>
    HeldOf(Uploaded(o.name), o.name, data[o.file]) /\ Begins(data[o.file], o.got)

ReadersHave ==
  \A a \in DOMAIN op, o \in Op : op[a] = o =>
    IF o.phase = "read" THEN Has(o) ELSE o.got = << >>

\* The uploads of n that were over at t.
Before(n, t) == {l \in Uploaded(n) : l.end < t}

\* No upload of n between t and u.
Between(n, t, u) ==
  /\ \A a \in Uploading(n) : op[a].begin > u
  /\ \A l \in Uploaded(n) : l.end < t \/ u < l.begin

\* A download that none came in between is the latest upload before it.
DownloadsAre ==
  \A g \in log : g.did = "serve_file" /\ g.code = 200 =>
    (Undisturbed(g.name) /\ Between(g.name, g.begin, g.end) =>
       HeldOf(Before(g.name, g.begin), g.name, g.content))

\* Only an upload of the same name changes an open file.
LEMMA QuietFilesStay ==
  ASSUME Shape, FilesNamed, [Next]_vars, NEW a \in Opened, Uploading(op[a].name) = {}
  PROVE  op[a].file \in DOMAIN data /\ data'[op[a].file] = data[op[a].file]
<1> DEFINE f == op[a].file
           n == op[a].name
<1>1. f \in DOMAIN data
  BY DEF Opened, Shape, FilesOpen
<1>2. ASSUME NEW b \in DOMAIN op, op[b] # None, NEW o, Creates(b, o) PROVE data'[f] = data[f]
  <2>1. Create(op[b].name) /\ b \in Uploading(op[b].name)
    BY <1>2 DEF Creates, Uploading, Up
  <2>2. op[b].name # n
    BY <2>1
  <2>3. /\ op[b].name \in DOMAIN link => link' = link
        /\ op[b].name \notin DOMAIN link => link'[op[b].name] \notin DOMAIN data
        /\ \A g \in DOMAIN data : g # link'[op[b].name] => data'[g] = data[g]
    BY <2>1, WhatCreateDoes
  <2>4. op[b].name \in DOMAIN link => link[op[b].name] # f
    BY <2>2 DEF FilesNamed
  <2> QED BY <1>1, <2>3, <2>4
<1>3. ASSUME NEW b \in DOMAIN op, op[b] # None, NEW units \in Seq(Units), NEW code, NEW content,
             Writes(b, units, code, content)
      PROVE  data'[f] = data[f]
  <2>1. Write(op[b].file, units) /\ b \in Uploading(op[b].name) /\ b \in Opened
    BY <1>3 DEF Writes, Uploading, Up, Opened
  <2>2. op[b].file # f
    BY <2>1 DEF FilesNamed
  <2>3. op[b].file \in DOMAIN data
    BY <2>1 DEF Opened, Shape, FilesOpen
  <2>4. \A g \in DOMAIN data : g # op[b].file => data'[g] = data[g]
    BY <2>1, <2>3, WhatWriteDoes
  <2> QED BY <1>1, <2>2, <2>4
<1>4. FilesStay => data'[f] = data[f]
  BY DEF FilesStay
<1>5. \A b \in DOMAIN op : Deletes(b) => data'[f] = data[f]
  BY DEF Deletes, Unlink
<1> QED BY <1>1, <1>2, <1>3, <1>4, <1>5, KindsOfAllSteps
     DEF Rests, Takes, Turns, Misses, TakesUpload, GoesOn, Opens, Reads, Answers, Fails

\* A reader goes on to have what it had, unless it reads on.
LEMMA ReaderStays ==
  ASSUME Shape, Histories, ReadersHave, [Next]_vars, NEW a \in DOMAIN op, op[a] # None,
         op[a].phase = "read", NEW o, o.name = op[a].name, o.file = op[a].file,
         o.begin = op[a].begin, Undisturbed(o.name)', Quiet(o.name, o.begin)'
  PROVE  /\ HeldOf(Uploaded(o.name), o.name, data[o.file])'
         /\ Begins(data[o.file], op[a].got) /\ data'[o.file] = data[o.file]
<1>1. Undisturbed(o.name)
  BY OnceDisturbed DEF Histories
<1>2. Quiet(o.name, o.begin) /\ SameUploads(o.name)
  <2>1. o.begin \in Nat /\ o.begin <= clock
    BY DEF Histories, Clocked
  <2> QED BY <2>1, OnceLoud DEF Histories
<1>3. data'[o.file] = data[o.file]
  BY <1>2, QuietFilesStay DEF Quiet, Opened, Histories
<1>4. HeldOf(Uploaded(o.name), o.name, data[o.file]) /\ Begins(data[o.file], op[a].got)
  <2>1. op[a] \in Op
    BY DEF Shape, ThreadShape
  <2>2. Has(op[a])
    BY <2>1 DEF ReadersHave
  <2> QED BY <1>1, <1>2, <2>2 DEF Has
<1>5. HeldOf(Uploaded(o.name)', o.name, data'[o.file])
  BY <1>2, <1>3, <1>4 DEF SameUploads
<1> QED BY <1>3, <1>4, <1>5 DEF HeldOf

LEMMA ReadersHaveKept ==
  Shape /\ Histories /\ ReadersHave /\ [Next]_vars => ReadersHave'
<1> SUFFICES ASSUME Shape, Histories, ReadersHave, [Next]_vars,
                    NEW b \in DOMAIN op', NEW p \in Op, op'[b] = p
             PROVE  IF p.phase = "read" THEN Has(p)' ELSE p.got = << >>
  BY DEF ReadersHave
<1> DEFINE Goal == IF p.phase = "read" THEN Has(p)' ELSE p.got = << >>
<1>o. p # None
  BY NoneAssumption
<1>1. ASSUME b \in DOMAIN op, op[b] = p PROVE Goal
  <2>1. CASE p.phase # "read"
    BY <1>1, <2>1 DEF ReadersHave
  <2>2. ASSUME p.phase = "read", Undisturbed(p.name)', Quiet(p.name, p.begin)'
        PROVE  HeldOf(Uploaded(p.name), p.name, data[p.file])' /\ Begins(data'[p.file], p.got)
    BY <1>1, <1>o, <2>2, ReaderStays
  <2> QED BY <2>1, <2>2 DEF Has
<1> SUFFICES Goal
  OBVIOUS
<1> HIDE DEF Goal
<1>2. CASE Rests
  BY <1>1, <1>2, <1>o DEF Rests
<1>3. ASSUME NEW a \in DOMAIN op, NEW o, Takes(a, o) PROVE Goal
  <2>1. CASE a = b
    BY <1>3, <2>1, AfterTaking DEF Takes, Goal
  <2>2. CASE a # b
    BY <1>1, <1>3, <2>2, AfterTaking
  <2> QED BY <2>1, <2>2
<1>4. ASSUME NEW a \in DOMAIN op, op[a] # None, NEW did, NEW code, NEW content,
             Reply(a, did, code, content)
      PROVE  Goal
  BY <1>1, <1>4, <1>o, AfterAReply
<1>5. ASSUME NEW a \in DOMAIN op, op[a] # None, NEW o, Moved(a, o), op[a].phase # "read",
             o.phase # "read", o.got = op[a].got
      PROVE  Goal
  <2>1. CASE a = b
    <3>1. op[a] \in Op
      BY <1>5 DEF Shape, ThreadShape
    <3>2. op[a].got = << >> /\ p = o
      BY <1>5, <2>1, <3>1, AfterAMove DEF ReadersHave
    <3> QED BY <1>5, <3>2 DEF Goal
  <2>2. CASE a # b
    BY <1>1, <1>5, <2>2, AfterAMove
  <2> QED BY <2>1, <2>2
<1>6. ASSUME NEW a \in DOMAIN op, op[a] # None, NEW o, Opens(a, o) PROVE Goal
  <2>1. /\ Moved(a, o) /\ FilesStay /\ op[a].phase # "read" /\ o.phase = "read"
        /\ o.got = op[a].got /\ o.name = op[a].name /\ o.begin = op[a].begin
        /\ op[a].name \in DOMAIN link /\ o.file = link[op[a].name] /\ op'[a] = o
    BY <1>6, AfterAMove DEF Opens, Moved
  <2>2. CASE a # b
    BY <1>1, <2>1, <2>2, AfterAMove
  <2>3. ASSUME a = b, Undisturbed(p.name)', Quiet(p.name, p.begin)'
        PROVE  HeldOf(Uploaded(p.name), p.name, data[p.file])' /\ Begins(data'[p.file], p.got)
    <3>0. p = o
      BY <2>1, <2>3
    <3>1. Undisturbed(p.name)
      BY <2>3, OnceDisturbed DEF Histories
    <3>2. Quiet(p.name, p.begin) /\ SameUploads(p.name)
      <4>1. p.begin \in Nat /\ p.begin <= clock
        BY <1>6, <2>1, <3>0 DEF Histories, Clocked
      <4> QED BY <2>3, <4>1, OnceLoud DEF Histories
    <3>3. HeldOf(Uploaded(p.name), p.name, data[p.file])
      BY <2>1, <3>0, <3>1, <3>2 DEF Histories, FilesWhole, FileWhole, Quiet
    <3>4. HeldOf(Uploaded(p.name)', p.name, data'[p.file])
      BY <2>1, <3>2, <3>3 DEF SameUploads, FilesStay
    <3>5. p.got = << >>
      <4>1. op[a] \in Op
        BY <1>6 DEF Shape, ThreadShape
      <4> QED BY <2>1, <3>0, <4>1 DEF ReadersHave
    <3>6. Begins(data'[p.file], p.got)
      <4>1. data[p.file] \in Seq(Units) /\ data' = data
        BY <2>1, <3>0 DEF Shape, TreeShape, FilesStay
      <4>2. Len(data'[p.file]) >= 0 /\ Len(p.got) = 0
        BY <3>5, <4>1
      <4> QED BY <4>2 DEF Begins
    <3> QED BY <3>4, <3>6 DEF HeldOf
  <2> QED BY <2>1, <2>2, <2>3 DEF Goal, Has
<1>7. ASSUME NEW a \in DOMAIN op, op[a] # None, NEW o, Reads(a, o) PROVE Goal
  <2> DEFINE contents == data[op[a].file]
             got == op[a].got
  <2>1. /\ Moved(a, o) /\ op[a].phase = "read" /\ o.phase = "read" /\ o.name = op[a].name
        /\ o.file = op[a].file /\ o.begin = op[a].begin /\ op'[a] = o
        /\ Len(got) + 1 \in DOMAIN contents /\ o.got = Append(got, contents[Len(got) + 1])
    BY <1>7, AfterAMove DEF Reads, Moved
  <2>2. CASE a # b
    BY <1>1, <2>1, <2>2, AfterAMove
  <2>3. ASSUME a = b, Undisturbed(p.name)', Quiet(p.name, p.begin)'
        PROVE  HeldOf(Uploaded(p.name), p.name, data[p.file])' /\ Begins(data'[p.file], p.got)
    <3>0. p = o
      BY <2>1, <2>3
    <3>1. /\ HeldOf(Uploaded(p.name), p.name, data[p.file])' /\ Begins(contents, got)
          /\ data'[p.file] = contents
      BY <1>7, <2>1, <2>3, <3>0, ReaderStays
    <3>2. Begins(contents, o.got)
      <4>1. contents \in Seq(Units) /\ got \in Seq(Units)
        <5>1. op[a].file \in DOMAIN data
          BY <1>7, <2>1 DEF Shape, FilesOpen
        <5>2. a \in DOMAIN thread
          BY DEF Shape, ThreadShape
        <5> QED BY <1>7, <5>1, <5>2, UnderWay DEF Shape, TreeShape
      <4> HIDE DEF contents, got
      <4> QED BY <2>1, <3>1, <4>1 DEF Begins
    <3> QED BY <3>0, <3>1, <3>2
  <2> QED BY <2>1, <2>2, <2>3 DEF Goal, Has
<1>8. ASSUME NEW a \in DOMAIN op, op[a] # None, NEW o,
             Turns(a, o) \/ Misses(a, o) \/ TakesUpload(a, o) \/ GoesOn(a, o) \/ Creates(a, o)
      PROVE  Goal
  <2>1. /\ Moved(a, o) /\ op[a].phase # "read" /\ o.phase # "read" /\ o.got = op[a].got
    BY <1>8 DEF Turns, Misses, TakesUpload, GoesOn, Creates, Up
  <2> QED BY <1>5, <1>8, <2>1
<1>9. ASSUME NEW a \in DOMAIN op, op[a] # None,
             \/ \E did, code, content : Answers(a, did, code, content)
             \/ \E content : Fails(a, content)
             \/ \E units \in Seq(Units) : \E code, content : Writes(a, units, code, content)
             \/ Deletes(a)
      PROVE  Goal
  BY <1>4, <1>9 DEF Answers, Fails, Writes, Deletes
<1> QED BY <1>2, <1>3, <1>6, <1>7, <1>8, <1>9, KindsOfAllSteps


\* What is between two moments of the past stays so.
LEMMA DownloadStays ==
  ASSUME Shape, Clocked, [Next]_vars, NEW g \in log, NEW n, Undisturbed(n)',
         Between(n, g.begin, g.end)'
  PROVE  Between(n, g.begin, g.end) /\ Before(n, g.begin)' = Before(n, g.begin)
<1>1. g.begin \in Nat /\ g.end \in Nat /\ g.begin < g.end /\ g.end <= clock /\ clock \in Nat
  BY DEF Clocked
<1>2. CASE SameUploads(n)
  BY <1>2 DEF SameUploads, Between, Before
<1>3. ASSUME NEW a, OneMore(n, a)
      PROVE  Between(n, g.begin, g.end) /\ Before(n, g.begin)' = Before(n, g.begin)
  BY <1>3 DEF OneMore, Between, Before
<1>4. ASSUME NEW a, NEW e, OneDone(n, a, e)
      PROVE  Between(n, g.begin, g.end) /\ Before(n, g.begin)' = Before(n, g.begin)
  <2>1. /\ Uploading(n)' = Uploading(n) \ {a} /\ Uploaded(n)' = Uploaded(n) \cup {e}
        /\ e.begin = op[a].begin /\ e.end = clock + 1
        /\ \A b \in Uploading(n) \ {a} : op'[b].begin = op[b].begin
    BY <1>4 DEF OneDone
  <2>2. e.end < g.begin \/ g.end < e.begin
    BY <2>1 DEF Between
  <2>3. ~(e.end < g.begin)
    BY <1>1, <2>1
  <2>4. \A b \in Uploading(n) : op[b].begin > g.end
    BY <1>1, <2>1, <2>2, <2>3 DEF Between, Uploading, Clocked
  <2>5. \A l \in Uploaded(n) : l.end < g.begin \/ g.end < l.begin
    BY <2>1 DEF Between
  <2>6. Before(n, g.begin)' = Before(n, g.begin)
    BY <2>1, <2>3 DEF Before
  <2> QED BY <2>4, <2>5, <2>6 DEF Between
<1> QED BY <1>2, <1>3, <1>4, UploadsOfAStep

LEMMA DownloadsAreKept ==
  Shape /\ Histories /\ ReadersHave /\ DownloadsAre /\ [Next]_vars => DownloadsAre'
<1> SUFFICES ASSUME Shape, Histories, ReadersHave, DownloadsAre, [Next]_vars,
                    NEW g \in log', g.did = "serve_file", g.code = 200,
                    Undisturbed(g.name)', Between(g.name, g.begin, g.end)'
             PROVE  HeldOf(Before(g.name, g.begin), g.name, g.content)'
  BY DEF DownloadsAre
<1>0. Undisturbed(g.name) /\ Clocked
  BY OnceDisturbed DEF Histories
<1>1. CASE g \in log
  <2>1. /\ Between(g.name, g.begin, g.end)
        /\ Before(g.name, g.begin)' = Before(g.name, g.begin)
    BY <1>0, <1>1, DownloadStays
  <2>2. HeldOf(Before(g.name, g.begin), g.name, g.content)
    BY <1>0, <1>1, <2>1 DEF DownloadsAre
  <2> QED BY <2>1, <2>2 DEF HeldOf
<1>2. ASSUME NEW a \in DOMAIN op, op[a] # None, NEW content,
             g = Entered(a, "serve_file", 200, content), Answers(a, "serve_file", 200, content)
      PROVE  HeldOf(Before(g.name, g.begin), g.name, g.content)'
  <2> DEFINE contents == data[op[a].file]
             got == op[a].got
  <2>1. /\ g.name = op[a].name /\ g.begin = op[a].begin /\ g.content = got /\ g.end = clock + 1
        /\ op[a].phase = "read" /\ Len(got) + 1 \notin DOMAIN contents
    BY <1>2 DEF Answers, Entered
  <2>2. SameUploads(g.name)
    BY <1>2, UploadsOfAnswers DEF Answers
  <2>3. Quiet(g.name, op[a].begin)
    <3>1. ASSUME NEW b \in Uploading(g.name) PROVE FALSE
      <4>1. op[b].begin > clock + 1
        BY <2>1, <2>2, <3>1 DEF Between, SameUploads
      <4>2. op[b].begin \in Nat /\ op[b].begin <= clock /\ clock \in Nat
        BY <1>0, <3>1 DEF Clocked, Uploading
      <4> QED BY <4>1, <4>2
    <3>2. ASSUME NEW l \in Uploaded(g.name) PROVE l.end < op[a].begin
      <4>1. l.end < op[a].begin \/ clock + 1 < l.begin
        BY <2>1, <2>2, <3>2 DEF Between, SameUploads
      <4>2. l.begin \in Nat /\ l.end \in Nat /\ l.begin < l.end /\ l.end <= clock /\ clock \in Nat
        BY <1>0, <3>2 DEF Clocked, Uploaded
      <4> QED BY <4>1, <4>2
    <3> QED BY <3>1, <3>2 DEF Quiet
  <2>4. HeldOf(Uploaded(g.name), g.name, contents) /\ Begins(contents, got)
    <3>1. op[a] \in Op
      BY <1>2 DEF Shape, ThreadShape
    <3>2. Has(op[a])
      BY <2>1, <3>1 DEF ReadersHave
    <3> QED BY <1>0, <2>1, <2>3, <3>2 DEF Has
  <2>5. got = contents
    <3>1. contents \in Seq(Units) /\ got \in Seq(Units)
      <4>1. op[a].file \in DOMAIN data
        BY <1>2, <2>1 DEF Shape, FilesOpen
      <4>2. a \in DOMAIN thread
        BY DEF Shape, ThreadShape
      <4> QED BY <1>2, <4>1, <4>2, UnderWay DEF Shape, TreeShape
    <3> HIDE DEF got, contents
    <3>2. Len(got) = Len(contents) /\ \A i \in 1 .. Len(got) : got[i] = contents[i]
      <4>1. Len(got) \in Nat /\ Len(contents) \in Nat /\ DOMAIN contents = 1 .. Len(contents)
        BY <3>1
      <4> QED BY <2>1, <2>4, <4>1 DEF Begins
    <3> QED BY <3>1, <3>2, SeqEqual
  <2>6. Before(g.name, g.begin)' = Uploaded(g.name)
    BY <2>1, <2>2, <2>3 DEF Before, SameUploads, Quiet
  <2>7. HeldOf(Before(g.name, g.begin)', g.name, g.content)
    BY <2>1, <2>4, <2>5, <2>6
  <2> QED BY <2>7 DEF HeldOf
<1>3. ASSUME g \notin log
      PROVE  \E a \in DOMAIN op : \E content :
               /\ op[a] # None /\ g = Entered(a, "serve_file", 200, content)
               /\ Answers(a, "serve_file", 200, content)
  <2>1. ASSUME NEW a \in DOMAIN op, NEW did, NEW code, NEW content, Reply(a, did, code, content)
        PROVE  /\ g = Entered(a, did, code, content) /\ did = "serve_file" /\ code = 200
    <3>1. g = Entered(a, did, code, content)
      BY <1>3, <2>1, AfterAReply
    <3> QED BY <3>1 DEF Entered
  <2>2. log' # log
    BY <1>3
  <2> QED BY <2>1, <2>2, KindsOfAllSteps
       DEF Rests, Takes, Turns, Misses, TakesUpload, GoesOn, Opens, Reads, Creates, Moved,
           Answers, Fails, Writes, Deletes
<1> QED BY <1>1, <1>2, <1>3

LEMMA DownloadsAlways == Spec => []DownloadsAre
<1>1. Init => ReadersHave /\ DownloadsAre
  <2> SUFFICES ASSUME Init PROVE ReadersHave /\ DownloadsAre
    OBVIOUS
  <2>1. DOMAIN op = {} /\ log = {}
    BY DEF Init
  <2> QED BY <2>1 DEF ReadersHave, DownloadsAre
<1>2. Shape /\ Histories /\ ReadersHave /\ DownloadsAre /\ [Next]_vars => (ReadersHave /\ DownloadsAre)'
  BY ReadersHaveKept, DownloadsAreKept
<1> QED BY <1>1, <1>2, HistoriesAlways, PTL DEF Spec


\* A request that was answered for a file has no other target than its name.
LEMMA NoOtherTarget ==
  ASSUME Following, NEW l \in log, NEW n \in Targets(l),
         l.did \in {"handle_post", "handle_delete"} \/ (l.did = "serve_file" /\ l.code # 200)
  PROVE  n = l.name
<1> DEFINE loc == LocOf(servers, l.by, l.req)
<1>1. l.by \in Addrs /\ l.req \in Request /\ said = servers
  BY DEF Following, Shape, ThreadShape, Entry, SaidIsServed
<1>2. AsLocated(servers, l.by, l.req, l.did, l.name)
  BY DEF Following, LogFollows, Faithful, Done
<1>3. loc # None /\ l.name = FileName(l.req.path, loc)
  BY <1>2 DEF AsLocated, Permits
<1>4. Covering(l.by, l.req) = {loc}
  BY <1>1, <1>3, WhatTheFileSays DEF Following
<1>5. l.name = Chars[loc.root] \o Chars[l.req.path]
  BY <1>3 DEF FileName
<1> HIDE DEF loc
<1> QED BY <1>4, <1>5 DEF Targets

\* The uploads before a request, in the text's words and by what was done.
LEMMA UploadsBefore ==
  ASSUME Following, Clocked, NEW n, NEW t \in Nat, t <= clock
  PROVE  {l \in Uploads(n) : l.end < t} = Before(n, t)
<1>1. ASSUME NEW l \in Uploads(n), l.end < t PROVE l \in Uploaded(n)
  <2>1. l \in Ops /\ n \in Targets(l) /\ l.did \in {"pending", "handle_post"}
    BY DEF Uploads
  <2>2. l \in log
    <3>1. ASSUME NEW a \in DOMAIN op, l = Pending(a) PROVE FALSE
      <4>1. l.end = clock + 1
        BY <3>1 DEF Pending
      <4> QED BY <1>1, <4>1 DEF Clocked
    <3> QED BY <2>1, <3>1, OpsAre
  <2>3. l.did = "handle_post"
    BY <2>1, <2>2 DEF Following, Shape, ThreadShape, Entry, Deeds
  <2>4. l.name = n
    BY <2>1, <2>2, <2>3, NoOtherTarget
  <2> QED BY <2>2, <2>3, <2>4 DEF Uploaded
<1> QED BY <1>1, UploadsAreTold DEF Before

LEMMA ApartIsBetween ==
  ASSUME Following, Clocked, NEW g \in log, NEW n, \A l \in Uploads(n) : ~Overlap(l, g),
         g.did = "serve_file"
  PROVE  Between(n, g.begin, g.end)
<1>1. g.begin \in Nat /\ g.end \in Nat /\ g.begin < g.end /\ g.end <= clock /\ clock \in Nat
  BY DEF Clocked
<1>2. ASSUME NEW a \in Uploading(n) PROVE op[a].begin > g.end
  <2> DEFINE l == Pending(a)
  <2>1. l \in Uploads(n) /\ l # g /\ l.begin = op[a].begin /\ l.end = clock + 1
    <3>1. l.did = "pending"
      BY DEF Pending
    <3>2. l # g
      BY <3>1
    <3> QED BY <3>2, UploadsAreTold DEF Pending
  <2>2. op[a].begin \in Nat /\ g.end # op[a].begin
    BY DEF Clocked, Uploading
  <2> HIDE DEF l
  <2> QED BY <1>1, <2>1, <2>2 DEF Overlap
<1>3. ASSUME NEW l \in Uploaded(n) PROVE l.end < g.begin \/ g.end < l.begin
  <2>1. l \in Uploads(n) /\ l # g
    BY UploadsAreTold DEF Uploaded
  <2>2. l.begin \in Nat /\ l.end \in Nat /\ l.end # g.begin /\ g.end # l.begin
    BY DEF Clocked, Uploaded
  <2> QED BY <1>1, <2>1, <2>2 DEF Overlap
<1> QED BY <1>2, <1>3 DEF Between

\* A download that no upload of the same file overlapped is
\* the last upload before it, whichever threads took the two, as long as uploads of
\* it did not overlap or fail: nothing is read half old and half new, and nothing is
\* served from before.
THEOREM DownloadsAreTheLastUpload == Spec => []ReadsLastUpload
<1>1. Following /\ Histories /\ DownloadsAre => ReadsLastUpload
  <2> SUFFICES ASSUME Following, Histories, DownloadsAre,
                      NEW g \in log, g.did = "serve_file", g.code = 200, Orderly(g.name),
                      \A l \in Uploads(g.name) : ~Overlap(l, g)
               PROVE  LET n == g.name
                          before == {l \in Uploads(n) : l.end < g.begin}
                          last == {l \in before : \A k \in before : k.end <= l.end} IN
                      g.content \in IF last = {} THEN Original(n) ELSE {l.req.body : l \in last}
    BY DEF ReadsLastUpload
  <2> DEFINE S == Before(g.name, g.begin)
  <2>1. Undisturbed(g.name) /\ Between(g.name, g.begin, g.end)
    BY OrderlyIsUndisturbed, ApartIsBetween DEF Histories
  <2>2. {l \in Uploads(g.name) : l.end < g.begin} = S
    <3>1. g.begin \in Nat /\ g.begin <= clock
      BY DEF Histories, Clocked
    <3> QED BY <3>1, UploadsBefore DEF Histories
  <2>3. HeldOf(S, g.name, g.content)
    BY <2>1 DEF DownloadsAre
  <2> HIDE DEF S
  <2>4. CASE S = {}
    BY <2>2, <2>3, <2>4 DEF HeldOf
  <2>5. CASE S # {}
    <3>1. PICK l \in S : (\A k \in S : k.end <= l.end) /\ g.content = l.req.body
      BY <2>3, <2>5 DEF HeldOf
    <3> QED BY <2>2, <3>1
  <2> QED BY <2>4, <2>5
<1> QED BY <1>1, FollowingAlways, HistoriesAlways, DownloadsAlways, PTL


-----------------------------------------------------------------------------
(* What a 404 says.                                                         *)

\* The deletions of n that were done, and what is there unless it was deleted since t.
Deletions(n) == {l \in log : l.did = "handle_delete" /\ l.code = 200 /\ l.name = n}
Gone(n, t, u) == \E l \in Deletions(n) : l.end > t /\ l.begin < u
Kept(n, t) == n \in DOMAIN link \/ \E l \in Deletions(n) : l.end > t

\* The uploads of n that were stored.
Saved(n) == {l \in Uploaded(n) : l.code = 200}

\* What was stored, or was there at the start, is there unless it was deleted since.
AllKept ==
  /\ \A l \in log : l.did = "handle_post" /\ l.code = 200 => Kept(l.name, l.begin)
  /\ \A a \in DOMAIN op, o \in Op : op[a] = o /\ o.phase = "write" => Kept(o.name, o.begin)
  /\ \A i \in DOMAIN SiteFiles : Kept(SiteFiles[i].name, 0)

\* Had n been there when a request began at b, it was deleted before u.
Missed(n, b, u) ==
  /\ \A p \in Saved(n) : p.end < b => Gone(n, p.begin, u)
  /\ Original(n) # {} => Gone(n, 0, u)

NotThere ==
  /\ \A a \in DOMAIN op, o \in Op : op[a] = o /\ o.phase = "trimmed" =>
       Missed(o.name, o.begin, clock + 1)
  /\ \A g \in log : g.did \in {"serve_file", "handle_delete"} /\ g.code = 404 =>
       Missed(g.name, g.begin, g.end)

LEMMA TimePasses ==
  ASSUME Shape, Clocked, [Next]_vars
  PROVE  /\ log \subseteq log' /\ clock \in Nat /\ clock' \in Nat /\ clock <= clock'
         /\ \A l \in log' : l \in log \/ l.end = clock + 1
<1>1. clock \in Nat
  BY DEF Clocked
<1>2. ASSUME NEW a \in DOMAIN op, NEW did, NEW code, NEW content, Reply(a, did, code, content)
      PROVE  log \subseteq log' /\ clock' = clock + 1 /\ \A l \in log' : l \in log \/ l.end = clock + 1
  BY <1>2, AfterAReply DEF Entered
<1> QED BY <1>1, <1>2, ThreeKinds DEF Rests, Takes, Moved

LEMMA KeptStays ==
  ASSUME Shape, Clocked, [Next]_vars, NEW n, NEW t \in Nat, t <= clock, Kept(n, t)
  PROVE  Kept(n, t)'
<1>1. CASE \E l \in Deletions(n) : l.end > t
  BY <1>1, TimePasses DEF Deletions, Kept
<1>2. ASSUME n \in DOMAIN link, NEW a \in DOMAIN op, op[a] # None, Deletes(a) PROVE Kept(n, t)'
  <2>1. CASE n # op[a].name
    BY <1>2, <2>1 DEF Deletes, Unlink, Kept
  <2>2. CASE n = op[a].name
    <3> DEFINE e == Entered(a, "handle_delete", 200, << >>)
    <3>1. e \in log'
      BY <1>2, AfterAReply DEF Deletes
    <3>2. e.did = "handle_delete" /\ e.code = 200 /\ e.name = n /\ e.end = clock + 1
      BY <2>2 DEF Entered
    <3> HIDE DEF e
    <3>3. e \in Deletions(n)' /\ e.end > t
      BY <3>1, <3>2, TimePasses DEF Deletions
    <3> QED BY <3>3 DEF Kept
  <2> QED BY <2>1, <2>2
<1>3. ASSUME n \in DOMAIN link, NEW a \in DOMAIN op, op[a] # None, NEW o, Creates(a, o)
      PROVE  Kept(n, t)'
  BY <1>3, WhatCreateDoes DEF Creates, Kept
<1>4. ASSUME n \in DOMAIN link, link' = link PROVE Kept(n, t)'
  BY <1>4 DEF Kept
<1> QED BY <1>1, <1>2, <1>3, <1>4, KindsOfAllSteps
     DEF Kept, Rests, Takes, Turns, Misses, TakesUpload, GoesOn, Opens, Reads, FilesStay,
         Answers, Fails, Writes, Write

\* A request after a step, and one that is answered in it.
LEMMA RequestsAfter ==
  ASSUME Shape, [Next]_vars, NEW b \in DOMAIN op', NEW p \in Op, op'[b] = p
  PROVE  \/ b \in DOMAIN op /\ op[b] = p
         \/ p.phase = "decide"
         \/ /\ b \in DOMAIN op /\ op[b] # None
            /\ \/ Turns(b, p) \/ Misses(b, p) \/ TakesUpload(b, p) \/ GoesOn(b, p)
               \/ Opens(b, p) \/ Reads(b, p) \/ Creates(b, p)
<1>0. p # None
  BY NoneAssumption
<1>1. CASE Rests
  BY <1>0, <1>1 DEF Rests
<1>2. ASSUME NEW a \in DOMAIN op, NEW o, Takes(a, o)
      PROVE  (b \in DOMAIN op /\ op[b] = p) \/ p.phase = "decide"
  BY <1>2, AfterTaking DEF Takes
<1>3. ASSUME NEW a \in DOMAIN op, op[a] # None, NEW o, Moved(a, o)
      PROVE  b \in DOMAIN op /\ (op[b] = p \/ (b = a /\ p = o))
  BY <1>3, AfterAMove
<1>4. ASSUME NEW a \in DOMAIN op, op[a] # None, NEW did, NEW code, NEW content,
             Reply(a, did, code, content)
      PROVE  b \in DOMAIN op /\ op[b] = p
  BY <1>0, <1>4, AfterAReply
<1>5. ASSUME NEW a \in DOMAIN op, op[a] # None, NEW o,
             Turns(a, o) \/ Misses(a, o) \/ TakesUpload(a, o) \/ GoesOn(a, o)
             \/ Opens(a, o) \/ Reads(a, o) \/ Creates(a, o)
      PROVE  \/ b \in DOMAIN op /\ op[b] = p
             \/ /\ b \in DOMAIN op /\ op[b] # None
                /\ \/ Turns(b, p) \/ Misses(b, p) \/ TakesUpload(b, p) \/ GoesOn(b, p)
                   \/ Opens(b, p) \/ Reads(b, p) \/ Creates(b, p)
  <2>1. Moved(a, o)
    BY <1>5 DEF Turns, Misses, TakesUpload, GoesOn, Opens, Reads, Creates
  <2> QED BY <1>3, <1>5, <2>1
<1>6. ASSUME NEW a \in DOMAIN op, op[a] # None,
             \/ \E did, code, content : Answers(a, did, code, content)
             \/ \E content : Fails(a, content)
             \/ \E units \in Seq(Units) : \E code, content : Writes(a, units, code, content)
             \/ Deletes(a)
      PROVE  b \in DOMAIN op /\ op[b] = p
  BY <1>4, <1>6 DEF Answers, Fails, Writes, Deletes
<1> QED BY <1>1, <1>2, <1>5, <1>6, KindsOfAllSteps

LEMMA RequestsAnswered ==
  ASSUME Shape, [Next]_vars, NEW g \in log' \ log
  PROVE  \E a, did, code, content :
           /\ a \in DOMAIN op /\ op[a] # None /\ g = Entered(a, did, code, content)
           /\ \/ Answers(a, did, code, content)
              \/ did = "handle_post" /\ code = 500
              \/ did = "handle_post" /\ \E units \in Seq(Units) : Writes(a, units, code, content)
              \/ did = "handle_delete" /\ code = 200
<1>1. ASSUME NEW a \in DOMAIN op, NEW did, NEW code, NEW content, Reply(a, did, code, content)
      PROVE  g = Entered(a, did, code, content)
  BY <1>1, AfterAReply
<1> QED BY <1>1, KindsOfAllSteps
     DEF Rests, Takes, Turns, Misses, TakesUpload, GoesOn, Opens, Reads, Creates, Moved,
         Answers, Fails, Writes, Deletes

LEMMA AllKeptKept == Shape /\ Clocked /\ AllKept /\ [Next]_vars => AllKept'
<1> SUFFICES ASSUME Shape, Clocked, AllKept, [Next]_vars PROVE AllKept'
  OBVIOUS
<1>1. ASSUME NEW l \in log', l.did = "handle_post", l.code = 200 PROVE Kept(l.name, l.begin)'
  <2>1. CASE l \in log
    <3>1. Kept(l.name, l.begin) /\ l.begin \in Nat /\ l.begin <= clock
      BY <1>1, <2>1 DEF AllKept, Clocked
    <3> QED BY <3>1, KeptStays
  <2>2. ASSUME NEW a \in DOMAIN op, op[a] # None, NEW units, NEW content,
               l = Entered(a, "handle_post", 200, content), Writes(a, units, 200, content)
        PROVE  Kept(l.name, l.begin)'
    <3>1. l.name = op[a].name /\ l.begin = op[a].begin /\ op[a] \in Op /\ op[a].phase = "write"
      BY <2>2 DEF Entered, Shape, ThreadShape, Writes
    <3>2. Kept(l.name, l.begin) /\ l.begin \in Nat /\ l.begin <= clock
      BY <2>2, <3>1 DEF AllKept, Clocked
    <3> QED BY <3>2, KeptStays
  <2>3. CASE l \notin log
    <3>1. PICK a, did, code, content :
           /\ a \in DOMAIN op /\ op[a] # None /\ l = Entered(a, did, code, content)
           /\ \/ Answers(a, did, code, content)
              \/ did = "handle_post" /\ code = 500
              \/ did = "handle_post" /\ \E units \in Seq(Units) : Writes(a, units, code, content)
              \/ did = "handle_delete" /\ code = 200
      BY <1>1, <2>3, RequestsAnswered
    <3>2. did = "handle_post" /\ code = 200
      BY <1>1, <3>1 DEF Entered
    <3> QED BY <2>2, <3>1, <3>2 DEF Answers
  <2> QED BY <2>1, <2>3
<1>2. ASSUME NEW b \in DOMAIN op', NEW p \in Op, op'[b] = p, p.phase = "write"
      PROVE  Kept(p.name, p.begin)'
  <2>1. CASE b \in DOMAIN op /\ op[b] = p
    <3>1. Kept(p.name, p.begin) /\ p.begin \in Nat /\ p.begin <= clock
      BY <1>2, <2>1, NoneAssumption DEF AllKept, Clocked
    <3> QED BY <3>1, KeptStays
  <2>2. CASE b \in DOMAIN op /\ op[b] # None /\ Creates(b, p)
    BY <2>2, WhatCreateDoes DEF Creates, Kept
  <2> QED BY <1>2, <2>1, <2>2, RequestsAfter
       DEF Turns, Misses, TakesUpload, GoesOn, Opens, Reads, Up
<1>3. ASSUME NEW i \in DOMAIN SiteFiles PROVE Kept(SiteFiles[i].name, 0)'
  <2>1. Kept(SiteFiles[i].name, 0) /\ 0 \in Nat /\ 0 <= clock
    BY TimePasses DEF AllKept
  <2> QED BY <2>1, KeptStays
<1> QED BY <1>1, <1>2, <1>3 DEF AllKept

LEMMA MissedStays ==
  ASSUME Shape, Clocked, [Next]_vars, NEW n, NEW b \in Nat, b <= clock,
         NEW u \in Nat, NEW v \in Nat, u <= v, Missed(n, b, u)
  PROVE  Missed(n, b, v)'
<1>1. \A t : Gone(n, t, u) => Gone(n, t, v)'
  BY TimePasses DEF Gone, Deletions, Clocked
<1>2. \A p \in Saved(n)' : p.end < b => p \in Saved(n)
  BY TimePasses DEF Saved, Uploaded
<1> QED BY <1>1, <1>2 DEF Missed

LEMMA MissedNow ==
  ASSUME Shape, Clocked, AllKept, NEW n, n \notin DOMAIN link, NEW b
  PROVE  Missed(n, b, clock + 1)
<1>1. \A t : Kept(n, t) => Gone(n, t, clock + 1)
  BY DEF Kept, Gone, Deletions, Clocked
<1>2. \A p \in Saved(n) : Kept(n, p.begin)
  BY DEF AllKept, Saved, Uploaded
<1>3. Original(n) # {} => Kept(n, 0)
  BY DEF Original, AllKept
<1> QED BY <1>1, <1>2, <1>3 DEF Missed

LEMMA NotThereKept == Shape /\ Clocked /\ AllKept /\ NotThere /\ [Next]_vars => NotThere'
<1> SUFFICES ASSUME Shape, Clocked, AllKept, NotThere, [Next]_vars PROVE NotThere'
  OBVIOUS
<1>0. clock \in Nat /\ clock' \in Nat /\ clock <= clock'
  BY TimePasses
<1>n. clock' + 1 \in Nat
  <2>1. \A c \in Nat : c + 1 \in Nat
    OBVIOUS
  <2> QED BY <1>0, <2>1
<1>1. ASSUME NEW b \in DOMAIN op', NEW p \in Op, op'[b] = p, p.phase = "trimmed"
      PROVE  Missed(p.name, p.begin, clock + 1)'
  <2>1. ASSUME Missed(p.name, p.begin, clock + 1), p.begin \in Nat, p.begin <= clock
        PROVE  Missed(p.name, p.begin, clock + 1)'
    <3>1. PICK v \in Nat : v = clock' + 1
      BY <1>n
    <3>2. Missed(p.name, p.begin, v)'
      BY <1>0, <2>1, <3>1, MissedStays
    <3> QED BY <3>1, <3>2 DEF Missed, Gone
  <2>2. CASE b \in DOMAIN op /\ op[b] = p
    <3>1. Missed(p.name, p.begin, clock + 1) /\ p.begin \in Nat /\ p.begin <= clock
      BY <1>1, <2>2, NoneAssumption DEF NotThere, Clocked
    <3> QED BY <2>1, <3>1
  <2>3. CASE b \in DOMAIN op /\ op[b] # None /\ Misses(b, p)
    <3>1. p.name \notin DOMAIN link /\ p.begin = op[b].begin
      BY <2>3 DEF Misses, Moved
    <3>2. Missed(p.name, p.begin, clock + 1) /\ p.begin \in Nat /\ p.begin <= clock
      BY <2>3, <3>1, MissedNow DEF Clocked
    <3> QED BY <2>1, <3>2
  <2> QED BY <1>1, <2>2, <2>3, RequestsAfter
       DEF Turns, TakesUpload, GoesOn, Opens, Reads, Creates
<1>2. ASSUME NEW g \in log', g.did \in {"serve_file", "handle_delete"}, g.code = 404
      PROVE  Missed(g.name, g.begin, g.end)'
  <2>1. CASE g \in log
    <3>1. Missed(g.name, g.begin, g.end) /\ g.begin \in Nat /\ g.begin <= clock /\ g.end \in Nat
      BY <1>2, <2>1 DEF NotThere, Clocked
    <3> QED BY <3>1, MissedStays
  <2>2. ASSUME NEW a \in DOMAIN op, op[a] # None, NEW did, NEW code, NEW content,
               g = Entered(a, did, code, content), Answers(a, did, code, content)
        PROVE  Missed(g.name, g.begin, g.end)'
    <3>1. /\ g.did = did /\ g.code = code /\ g.name = op[a].name /\ g.begin = op[a].begin
          /\ g.end = clock + 1
      BY <2>2 DEF Entered
    <3>2. op[a].phase = "trimmed" \/ op[a].name \notin DOMAIN link
      BY <1>2, <2>2, <3>1 DEF Answers
    <3>3. op[a] \in Op /\ op[a].begin \in Nat /\ op[a].begin <= clock
      BY <2>2 DEF Shape, ThreadShape, Clocked
    <3>4. Missed(g.name, g.begin, clock + 1)
      BY <3>1, <3>2, <3>3, MissedNow DEF NotThere
    <3> QED BY <1>0, <3>1, <3>3, <3>4, MissedStays
  <2>3. CASE g \notin log
    <3>1. PICK a, did, code, content :
           /\ a \in DOMAIN op /\ op[a] # None /\ g = Entered(a, did, code, content)
           /\ \/ Answers(a, did, code, content)
              \/ did = "handle_post" /\ code = 500
              \/ did = "handle_post" /\ \E units \in Seq(Units) : Writes(a, units, code, content)
              \/ did = "handle_delete" /\ code = 200
      BY <1>2, <2>3, RequestsAnswered
    <3>2. did # "handle_post" /\ code # 200
      BY <1>2, <3>1 DEF Entered
    <3> QED BY <2>2, <3>1, <3>2
  <2> QED BY <2>1, <2>3
<1>3. NotThere' <=>
        /\ \A b \in DOMAIN op', p \in Op : op'[b] = p /\ p.phase = "trimmed" =>
             Missed(p.name, p.begin, clock + 1)'
        /\ \A g \in log' : g.did \in {"serve_file", "handle_delete"} /\ g.code = 404 =>
             Missed(g.name, g.begin, g.end)'
  BY DEF NotThere
<1> QED BY <1>1, <1>2, <1>3


LEMMA NotThereAlways == Spec => []NotThere
<1>1. Init => AllKept /\ NotThere
  <2> SUFFICES ASSUME Init PROVE AllKept /\ NotThere
    OBVIOUS
  <2>1. /\ DOMAIN op = {} /\ log = {}
        /\ \A i \in DOMAIN SiteFiles : SiteFiles[i].name \in DOMAIN link
    BY DEF Init
  <2> QED BY <2>1 DEF AllKept, NotThere, Kept
<1>2. Shape /\ Histories /\ AllKept /\ NotThere /\ [Next]_vars => (AllKept /\ NotThere)'
  BY AllKeptKept, NotThereKept DEF Histories
<1> QED BY <1>1, <1>2, HistoriesAlways, PTL DEF Spec

\* The deletions that were done are the text's.
LEMMA DeletionsAreTold ==
  ASSUME Following, NEW n, NEW l \in Deletions(n) PROVE l \in Removed(n)
<1>1. l \in log /\ l.did = "handle_delete" /\ l.code = 200 /\ l.name = n
  BY DEF Deletions
<1>2. l.by \in Addrs /\ l.req \in Request /\ said = servers
  BY <1>1 DEF Following, Shape, ThreadShape, Entry, SaidIsServed
<1>3. AsLocated(servers, l.by, l.req, "handle_delete", l.name)
  BY <1>1 DEF Following, LogFollows, Faithful, Done
<1>4. n \in Targets(l) /\ l.req.method = "DELETE"
  BY <1>1, <1>2, <1>3, FileIsATarget DEF AsLocated
<1> QED BY <1>1, <1>4, OpsAre DEF Removed

\* A 404 that does not come of a failing call is true: a file that had been stored
\* before the request, or was there at the start, was deleted before it was answered.
THEOREM MissingFilesWereDeleted == Spec => []NotFoundIsTrue
<1>1. Following /\ Histories /\ NotThere => NotFoundIsTrue
  <2> SUFFICES ASSUME Following, Histories, NotThere, NEW g \in log,
                      g.did \in {"serve_file", "handle_delete"}, g.code = 404, NEW n \in Targets(g)
               PROVE  /\ \A p \in Stored(n) : p.end < g.begin =>
                           \E l \in Removed(n) \ {g} : l.end > p.begin /\ l.begin < g.end
                      /\ Original(n) # {} =>
                           \E l \in Removed(n) \ {g} : l.end > 0 /\ l.begin < g.end
    BY DEF NotFoundIsTrue
  <2>1. n = g.name
    BY NoOtherTarget
  <2>2. Missed(n, g.begin, g.end)
    BY <2>1 DEF NotThere
  <2>3. \A t : Gone(n, t, g.end) => \E l \in Removed(n) \ {g} : l.end > t /\ l.begin < g.end
    BY DeletionsAreTold DEF Gone, Deletions
  <2>4. ASSUME NEW p \in Stored(n) PROVE p \in Saved(n)
    <3>1. p \in Ops /\ n \in Targets(p) /\ p.did = "handle_post" /\ p.code = 200
      BY DEF Stored, Uploads
    <3>2. p \in log
      BY <3>1, OpsAre DEF Pending
    <3>3. p.name = n
      BY <3>1, <3>2, NoOtherTarget
    <3> QED BY <3>1, <3>2, <3>3 DEF Saved, Uploaded
  <2> QED BY <2>2, <2>3, <2>4 DEF Missed
<1> QED BY <1>1, FollowingAlways, HistoriesAlways, NotThereAlways, PTL


=============================================================================
