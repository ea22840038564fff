--------------------------------- MODULE Site ---------------------------------
(****************************************************************************)
(* The server as a site: the configuration is read (ConfigParser), main     *)
(* starts a thread per host:port (src/src/main.rs), and the threads answer  *)
(* requests (Routing) on files they share (FileTree).  A thread handles one *)
(* request at a time; between its calls to the file system the others run.  *)
(* What a thread does besides handling requests is EventLoop's business.    *)
(****************************************************************************)
EXTENDS ConfigParser, FileTree

CONSTANTS
  Chars,        \* word -> its characters
  Endpoint,     \* host -> the address it stands for
  Letters,      \* those characters
  Units,        \* what bodies and files consist of
  Served,       \* bound: the files whose site is started; the others are only read
  Requests,     \* file -> what clients ask: [host, method, path, head, body]
  MaxRequests,  \* bound: file -> requests in all
  Faults,       \* "write" when the disk may fill up, "io" when any call may fail
  SiteDirs,     \* the directories at the start
  SiteFiles     \* the files at the start: a sequence of [name, contents]

INSTANCE Routing

IndexHtml == "index.html"
Text == INSTANCE ConfigText

VARIABLES
  said,    \* history: what the file says that the threads serve
  thread,  \* [host, port] -> "starting", "running", "dead"
  op,      \* the request a thread is handling, or None
  log,     \* history: the requests that were answered
  clock    \* history: counts beginnings and endings of requests

Request == [host : STRING, method : STRING, path : DOMAIN Chars, head : Nat, body : Seq(Units)]
Phases == {"decide", "cgi", "serve_file", "trimmed", "retry", "index", "open", "read", "list",
           "handle_post", "create", "write", "handle_delete"}
Deeds == {"answer", "session", "cgi", "serve_file", "serve_directory", "handle_post",
          "handle_delete", "io_error"}

\* A request under way: its name of a file, the file once it is open, what has been
\* read of it.
Op == [req : Request, phase : Phases, name : Seq(Letters), file : Nat, got : Seq(Units),
       begin : Nat]

ASSUME CharsAssumption ==
  /\ Words \cup {Empty} \subseteq DOMAIN Chars /\ Chars \in [DOMAIN Chars -> Seq(Letters)]
  /\ {Slash, IndexHtml} \subseteq Letters
ASSUME ServedAssumption == Served \subseteq Texts /\ \A ts \in Served : Requests[ts] \subseteq Request
ASSUME FilesAssumption ==
  SiteFiles \in Seq([name : Seq(Letters) \ SiteDirs, contents : Seq(Units)])
ASSUME NoneAssumption == None \notin Op

siteVars == <<said, thread, op, log, clock>>
vars == <<parserVars, treeVars, siteVars>>

-----------------------------------------------------------------------------
(* main: one thread per address; each binds its listener first.             *)

addr(s) == <<s.host, s.port>>
Addrs == {addr(servers[i]) : i \in DOMAIN servers}
Group(a) == Restrict(servers, {i \in DOMAIN servers : addr(servers[i]) = a})

\* What the files that are well formed say.
Reading == [ts \in {t \in Texts : Text!WellFormed(t)} |-> Text!Meaning(ts)]

Parse == ParserNext /\ UNCHANGED <<treeVars, siteVars>>

main ==
  /\ status = "ok" /\ DOMAIN thread = {} /\ tokens \in Served
  /\ thread' = [a \in Addrs |-> "starting"]
  /\ op' = [a \in Addrs |-> None]
  /\ said' = Reading[tokens]
  /\ UNCHANGED <<parserVars, treeVars, log, clock>>

\* TcpListener::bind fails where another thread listens already; the thread ends.
Bind(a) ==
  LET taken == \E b \in DOMAIN thread : /\ thread[b] = "running" /\ b[2] = a[2]
                                        /\ Endpoint[b[1]] = Endpoint[a[1]] IN
  /\ thread[a] = "starting"
  /\ thread' = [thread EXCEPT ![a] = IF taken THEN "dead" ELSE "running"]
  /\ UNCHANGED <<parserVars, treeVars, said, op, log, clock>>

-----------------------------------------------------------------------------
(* The handlers, one step per call of std::fs.                              *)

\* A call may fail although what it is about is there: no permission (EACCES), no
\* descriptor left (EMFILE), a bad disk (EIO).  The handlers take every error alike;
\* the history tells a 404 that comes of such a failure apart, as an "io_error".
MayFail == "io" \in Faults

Config(a) == match_config(Group(a), op[a].req.host)
Plan(a) == respond(op[a].req, Config(a))

Begin(a, r) ==
  /\ thread[a] = "running" /\ op[a] = None
  /\ Cardinality(log) + Cardinality({b \in DOMAIN op : op[b] # None}) < MaxRequests[tokens]
  /\ clock' = clock + 1
  /\ op' = [op EXCEPT ![a] = [req |-> r, phase |-> "decide", name |-> << >>, file |-> 0,
                              got |-> << >>, begin |-> clock + 1]]
  /\ UNCHANGED <<parserVars, treeVars, said, thread, log>>

Goto(a, phase, name) ==
  /\ op' = [op EXCEPT ![a].phase = phase, ![a].name = name]
  /\ UNCHANGED <<parserVars, said, thread, log, clock>>

Reply(a, did, code, content) ==
  /\ clock' = clock + 1
  /\ op' = [op EXCEPT ![a] = None]
  /\ log' = log \cup {[by |-> a, req |-> op[a].req, did |-> did, name |-> op[a].name,
                       code |-> code, content |-> content,
                       begin |-> op[a].begin, end |-> clock + 1]}
  /\ UNCHANGED <<parserVars, said, thread>>

\* The page the configuration names for a status, or, where it cannot be read, a
\* built-in one.
error_response(a, did, code) ==
  LET pages == Config(a).error_pages
      page == IF code \in DOMAIN pages /\ pages[code] # None THEN Chars[pages[code]] ELSE << >> IN
  \/ page \in DOMAIN link /\ Reply(a, did, code, data[link[page]])
  \/ (page \notin DOMAIN link \/ MayFail) /\ Reply(a, did, code, << >>)

In(a, phase) == op[a] # None /\ op[a].phase = phase

\* Everything up to the first call that touches a file or a script.
Decide(a) ==
  /\ In(a, "decide")
  /\ LET plan == Plan(a) IN
     \/ /\ plan.do = "answer"
        /\ IF plan.status \in {301, 413} THEN Reply(a, "answer", plan.status, << >>)
           ELSE error_response(a, "answer", plan.status)
     \/ plan.do = "session" /\ Reply(a, "session", 200, << >>)
     \/ plan.do = "session" /\ op[a].req.path = WhoamiPath /\ error_response(a, "session", 403)
     \/ plan.do \in {"cgi", "serve_file", "handle_post", "handle_delete"}
          /\ Goto(a, plan.do, plan.name)
  /\ UNCHANGED treeVars

\* CgiRunner::run, whose ways to end are CgiRunner's business; CgiOutput has the statuses.
RunScript(a) ==
  /\ In(a, "cgi") /\ \E code \in {200, 400, 403, 404, 500} : Reply(a, "cgi", code, << >>)
  /\ UNCHANGED treeVars

\* serve_file: metadata, once more with the slashes at the end removed, then a
\* directory or a file.
FoundAs(a, kind) ==
  \/ kind = "dir" /\ Goto(a, "index", Trim(op[a].name) \o <<Slash, IndexHtml>>)
  \/ kind = "file" /\ Goto(a, "open", op[a].name)

serve_file_Metadata(a) ==
  LET kind == metadata(op[a].name) IN
  /\ In(a, "serve_file")
  /\ \/ kind = "none" /\ Goto(a, "trimmed", op[a].name)
     \/ kind # "none" /\ FoundAs(a, kind)
     \/ kind # "none" /\ MayFail /\ Goto(a, "retry", op[a].name)
  /\ UNCHANGED treeVars

serve_file_Trimmed(a) ==
  LET kind == metadata(Trim(op[a].name))
      did == IF In(a, "retry") THEN "io_error" ELSE "serve_file" IN
  /\ In(a, "trimmed") \/ In(a, "retry")
  /\ \/ kind # "none" /\ FoundAs(a, kind)
     \/ (kind = "none" \/ MayFail) /\ error_response(a, did, 404)
  /\ UNCHANGED treeVars

\* fs::read opens the file, then reads until nothing comes.  One that fails, at the
\* open or later, leaves nothing behind and is this step.
serve_file_Open(a) ==
  LET name == op[a].name IN
  /\ In(a, "open") \/ In(a, "index")
  /\ \/ /\ name \in DOMAIN link
        /\ op' = [op EXCEPT ![a].phase = "read", ![a].file = link[name]]
        /\ UNCHANGED <<parserVars, said, thread, log, clock>>
     \/ name \notin DOMAIN link /\ In(a, "open") /\ error_response(a, "serve_file", 404)
     \/ name \in DOMAIN link /\ MayFail /\ In(a, "open") /\ error_response(a, "io_error", 404)
     \/ (name \notin DOMAIN link \/ MayFail) /\ In(a, "index") /\ Goto(a, "list", name)
  /\ UNCHANGED treeVars

serve_file_Read_Once(a) ==
  /\ In(a, "read")
  /\ Reply(a, "serve_file", 200, SubSeq(data[op[a].file], 1, 1))
  /\ UNCHANGED treeVars
serve_file_Read(a) ==
  LET at == Len(op[a].got) + 1  contents == data[op[a].file] IN
  /\ In(a, "read")
  /\ IF at \in DOMAIN contents
     THEN /\ op' = [op EXCEPT ![a].got = Append(@, contents[at])]
          /\ UNCHANGED <<parserVars, said, thread, log, clock>>
     ELSE Reply(a, "serve_file", 200, op[a].got)
  /\ UNCHANGED treeVars

\* Whether there is a listing is asked of the location, by the path.
serve_directory(a) ==
  LET loc == match_location(op[a].req.path, Config(a)) IN
  /\ In(a, "list")
  /\ \/ loc.autoindex /\ Reply(a, "serve_directory", 200, << >>)
     \/ loc.autoindex /\ MayFail /\ error_response(a, "serve_directory", 500)
     \/ ~loc.autoindex /\ error_response(a, "serve_directory", 403)
  /\ UNCHANGED treeVars

\* create_dir_all makes the outer directories first; it may get part of the way.
handle_post_MakeDirs(a) ==
  LET name == op[a].name IN
  /\ In(a, "handle_post")
  /\ \/ CanMakeDirs(name) /\ MakeDirs(name) /\ Goto(a, "create", name)
     \/ ~CanMakeDirs(name) /\ error_response(a, "handle_post", 500) /\ UNCHANGED treeVars
     \/ /\ MayFail /\ \E n \in Ancestors(name) : CanMakeDirs(n) /\ MakeDirs(n)
        /\ error_response(a, "handle_post", 500)

\* fs::write creates or truncates, then writes.
handle_post_Create(a) ==
  /\ In(a, "create")
  /\ \/ /\ CanCreate(op[a].name) /\ Create(op[a].name)
        /\ op' = [op EXCEPT ![a].phase = "write", ![a].file = link'[op[a].name]]
        /\ UNCHANGED <<parserVars, said, thread, log, clock>>
     \/ /\ ~CanCreate(op[a].name) \/ MayFail
        /\ error_response(a, "handle_post", 500) /\ UNCHANGED treeVars

handle_post_Write(a) ==
  /\ In(a, "write")
  /\ Write(op[a].file, op[a].req.body)
  /\ Reply(a, "handle_post", 200, << >>)

\* The disk is full: a part of the body may have been written.
handle_post_WriteFails(a) ==
  /\ "write" \in Faults /\ In(a, "write")
  /\ \E n \in 0 .. Len(op[a].req.body) - 1 : Write(op[a].file, SubSeq(op[a].req.body, 1, n))
  /\ error_response(a, "handle_post", 500)

handle_delete(a) ==
  LET there == op[a].name \in DOMAIN link IN
  /\ In(a, "handle_delete")
  /\ \/ there /\ Unlink(op[a].name) /\ Reply(a, "handle_delete", 200, << >>)
     \/ ~there /\ UNCHANGED treeVars /\ error_response(a, "handle_delete", 404)
     \/ there /\ MayFail /\ UNCHANGED treeVars /\ error_response(a, "io_error", 404)

-----------------------------------------------------------------------------
Init ==
  /\ ParserInit
  /\ dirs = SiteDirs
  /\ link = [n \in {SiteFiles[i].name : i \in DOMAIN SiteFiles} |->
               CHOOSE i \in DOMAIN SiteFiles : SiteFiles[i].name = n]
  /\ data = [i \in DOMAIN SiteFiles |-> SiteFiles[i].contents]
  /\ said = << >> /\ thread = << >> /\ op = << >> /\ log = {} /\ clock = 0

Handle(a) ==
  \/ Decide(a) \/ RunScript(a)
  \/ serve_file_Metadata(a) \/ serve_file_Trimmed(a) \/ serve_file_Open(a)
  \/ serve_file_Read(a) \/ serve_directory(a)
  \/ handle_post_MakeDirs(a) \/ handle_post_Create(a)
  \/ handle_post_Write(a) \/ handle_post_WriteFails(a)
  \/ handle_delete(a)

Next ==
  \/ Parse \/ main
  \/ \E a \in DOMAIN thread : Bind(a) \/ Handle(a) \/ \E r \in Requests[tokens] : Begin(a, r)

Spec == Init /\ [][Next]_vars

-----------------------------------------------------------------------------
(* Safety.                                                                  *)

\* The shape of the state.
TypeOK ==
  /\ ParserTypeOK
  /\ data \in Seq(Seq(Units))
  /\ \A n \in DOMAIN link : link[n] \in DOMAIN data /\ n \notin dirs
  /\ DOMAIN thread \in {{}, Addrs}
  /\ thread \in [DOMAIN thread -> {"starting", "running", "dead"}]
  /\ op \in [DOMAIN thread -> Op \cup {None}]
  /\ log \subseteq [by : Addrs, req : Request, did : Deeds, name : Seq(Letters),
                   code : Nat, content : Seq(Units), begin : Nat, end : Nat]
  /\ clock \in Nat

\* from_file accepts exactly the files whose statements are all in place and all
\* complete, and what it makes of them is what they say: no directive is skipped,
\* none moves to another block, the last one counts.  It panics only on a size
\* that does not fit.
ReadsTheFile ==
  /\ status = "ok" => tokens \in DOMAIN Reading /\ servers = Reading[tokens]
  /\ status = "error" => tokens \notin DOMAIN Reading
  /\ status = "panic" => \E i \in DOMAIN tokens :
                           /\ tokens[i] \in DOMAIN Spells /\ Spells[tokens[i]].n # None
                           /\ Text!Size(tokens[i]) >= Usize

-----------------------------------------------------------------------------
(* What the file says about a request: the server block it reaches, the     *)
(* location that covers its path, the file it is about.                     *)

\* Of the blocks for address a the first that names the host, or else the first.
Said(a, req) ==
  LET here == {i \in DOMAIN said : said[i].host = a[1] /\ said[i].port = a[2]}
      named == {i \in here : said[i].server_name = req.host}
      those == IF named # {} THEN named ELSE here IN
  said[CHOOSE i \in those : \A j \in those : i <= j]

\* The locations whose path begins the request's path, and that no longer and no
\* later equally long location takes it from: one at most.
Covering(a, req) ==
  LET locs == Said(a, req).locations
      path(i) == Chars[locs[i].path]
      covers == {i \in DOMAIN locs :
                   /\ Len(path(i)) <= Len(Chars[req.path])
                   /\ \A k \in DOMAIN path(i) : path(i)[k] = Chars[req.path][k]} IN
  {locs[i] : i \in {j \in covers : \A k \in covers :
     Len(path(k)) < Len(path(j)) \/ (Len(path(k)) = Len(path(j)) /\ k <= j)}}

\* Nothing is done to a file and no script is run but as the file has it: by the
\* location that covers the path in the block for the host, under that location's
\* root, with a method it permits, and never where it redirects.
AsWritten ==
  \A l \in log : l.did \notin {"answer", "session"} =>
    \E loc \in Covering(l.by, l.req) :
      /\ loc.methods = {} \/ l.req.method \in loc.methods
      /\ loc.redirect = None
      /\ SubSeq(l.name, 1, Len(Trim(Chars[loc.root]))) = Trim(Chars[loc.root])
      /\ l.did = "cgi" => loc.cgi # None
      /\ l.did = "serve_directory" /\ l.code = 200 => loc.autoindex

\* A body above the limit of the block for its Host is turned away with 413, and
\* nothing else is done about the request, whichever limits the other blocks set.
LimitHolds ==
  \A l \in log : Len(l.req.body) > Said(l.by, l.req).client_max_body_size => l.code = 413

\* What the code's comment (server.rs:170), the field's name and the README call the
\* limit: of the size of the body.  The code counts the header as well.
OnlyTheBodyCounts ==
  \A l \in log : l.code = 413 => Len(l.req.body) > Said(l.by, l.req).client_max_body_size

-----------------------------------------------------------------------------
(* What the clients of the files may rely on, told from the history alone.  *)

\* Answered requests and those under way, which end after now.
Ops == log \cup {[by |-> a, req |-> op[a].req, did |-> "pending", name |-> op[a].name,
                  code |-> 0, content |-> << >>, begin |-> op[a].begin, end |-> clock + 1] :
                   a \in {b \in DOMAIN op : op[b] # None}}

Overlap(k, l) == k # l /\ k.begin < l.end /\ l.begin < k.end

\* The files a request may be about, by the text.
Targets(l) == {Chars[loc.root] \o Chars[l.req.path] : loc \in Covering(l.by, l.req)}

Uploads(n) == {l \in Ops : /\ l.req.method = "POST" /\ n \in Targets(l)
                           /\ l.did \in {"pending", "handle_post"}}
Stored(n)  == {l \in Uploads(n) : l.did = "handle_post" /\ l.code = 200}
Removed(n) == {l \in Ops : l.req.method = "DELETE" /\ n \in Targets(l) /\ l.code \in {0, 200}}

Original(n) == {SiteFiles[i].contents : i \in {j \in DOMAIN SiteFiles : SiteFiles[j].name = n}}

\* No two uploads of n were under way at once, and none failed half-way.
Orderly(n) ==
  \A k, l \in Uploads(n) : ~Overlap(k, l) /\ k.code # 500

\* A file nobody is writing holds the whole of one upload, or what it held at the
\* start, unless two uploads of it overlapped or one failed: fs::write does not
\* leave a tail of what was there before.
StoredWhole ==
  \A n \in DOMAIN link :
    Orderly(n) /\ (\A l \in Uploads(n) : l.did # "pending") =>
      data[link[n]] \in Original(n) \cup {l.req.body : l \in Stored(n)}

\* A download that no upload of the same file overlapped is the last upload before
\* it, whichever thread took either, as long as uploads did not overlap before.
ReadsLastUpload ==
  \A g \in log : g.did = "serve_file" /\ g.code = 200 =>
    LET n == g.name
        before == {l \in Uploads(n) : l.end < g.begin}
        last == {l \in before : \A k \in before : k.end <= l.end} IN
    Orderly(n) /\ (\A l \in Uploads(n) : ~Overlap(l, g)) =>
      g.content \in IF last = {} THEN Original(n) ELSE {l.req.body : l \in last}

\* A 404 that does not come of a failing call is true: the file was missing at some
\* moment of the request.  It was not, if it had been stored before, or was there at
\* the start, and nobody removed it since.
NotFoundIsTrue ==
  \A g \in log : g.did \in {"serve_file", "handle_delete"} /\ g.code = 404 =>
    \A n \in Targets(g) :
      LET since(t) == \E l \in Removed(n) \ {g} : l.end > t /\ l.begin < g.end IN
      /\ \A p \in Stored(n) : p.end < g.begin => since(p.begin)
      /\ Original(n) # {} => since(0)

=============================================================================
