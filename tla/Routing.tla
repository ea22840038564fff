-------------------------------- MODULE Routing --------------------------------
(****************************************************************************)
(* From a request to what is to be done about it: the choice of the server  *)
(* block by the Host header (server.rs), of the location by its prefix, and *)
(* the checks of src/src/handler.rs up to the point where a file or a       *)
(* script is touched.                                                       *)
(*                                                                          *)
(* Paths, roots and extensions are words; Chars[w] is what a word consists  *)
(* of, as far as prefixes and suffixes can tell.  A request is a record     *)
(* [host, method, path, head, body]: the Host header without its port, the  *)
(* path without its query, the size of the header and the body's units.     *)
(****************************************************************************)
EXTENDS Integers, SequencesExt, FiniteSetsExt

CONSTANTS Chars, Slash, None

\* The first block of the group whose server_name is the host asked for; without
\* one, the first block.  The blocks of a group are numbered as in the file.
match_config_First(configs, host) == configs[Min(DOMAIN configs)]
match_config(configs, host) ==
  LET named == {i \in DOMAIN configs : configs[i].server_name = host} IN
  configs[Min(IF named = {} THEN DOMAIN configs ELSE named)]

\* filter and max_by_key: of locations with equally long paths the last one.
match_location_First(path, config) ==
  LET locs == config.locations
      fits == {i \in DOMAIN locs : IsPrefix(Chars[locs[i].path], Chars[path])} IN
  IF fits = {} THEN None ELSE locs[Min(fits)]
match_location(path, config) ==
  LET locs == config.locations
      fits == {i \in DOMAIN locs : IsPrefix(Chars[locs[i].path], Chars[path])}
      longest == Max({Len(Chars[locs[i].path]) : i \in fits}) IN
  IF fits = {} THEN None
  ELSE locs[Max({i \in fits : Len(Chars[locs[i].path]) = longest})]

is_method_allowed(method, loc) == loc.methods = {} \/ method \in loc.methods

\* strip_prefix, then trim_start_matches('/')
strip_location_prefix(path, prefix) ==
  LET rest == SubSeq(Chars[path], Len(Chars[prefix]) + 1, Len(Chars[path]))
      kept == {i \in DOMAIN rest : rest[i] # Slash} IN
  IF kept = {} THEN << >> ELSE SubSeq(rest, Min(kept), Len(rest))

find_cgi(path, loc) ==
  IF loc.cgi # None /\ IsSuffix(Chars[loc.cgi.extension], Chars[path]) THEN loc.cgi ELSE None

\* format!("{}{}", root, path): the location's own path stays in the name.
FileName_Stripped(path, loc) == Chars[loc.root] \o strip_location_prefix(path, loc.path)
FileName(path, loc) == Chars[loc.root] \o Chars[path]

\* What build_response decides: to answer at once, to run a script, or to work on
\* a file.
Answer(status) == [do |-> "answer", status |-> status]
Work(what, name) == [do |-> what, name |-> name]

handle_with_route(req, config) ==
  LET loc == match_location(req.path, config)
      script == Chars[loc.root] \o <<Slash>> \o strip_location_prefix(req.path, loc.path)
      name == FileName(req.path, loc) IN
  IF loc = None THEN Answer(404)
  ELSE IF ~is_method_allowed(req.method, loc) THEN Answer(405)
  ELSE CASE req.method \in {"GET", "POST"} /\ find_cgi(req.path, loc) # None ->
              Work("cgi", script)
         [] req.method = "GET" /\ find_cgi(req.path, loc) = None -> Work("serve_file", name)
         [] req.method = "POST" /\ find_cgi(req.path, loc) = None ->
              IF req.body = << >> THEN Answer(400) ELSE Work("handle_post", name)
         [] req.method = "DELETE" -> Work("handle_delete", name)
         [] OTHER -> Answer(405)

SessionPaths == {"/login", "/logout"}
WhoamiPath == "/whoami"

build_response(req, config) ==
  LET loc == match_location(req.path, config) IN
  IF loc # None /\ loc.redirect # None THEN Answer(301)
  ELSE IF req.path \in SessionPaths /\ req.method = "POST" THEN Work("session", << >>)
  ELSE IF req.path = WhoamiPath THEN Work("session", << >>)
  ELSE handle_with_route(req, config)

\* handle_read in front of it: header and body together against the limit.
respond(req, config) ==
  IF req.head + Len(req.body) > config.client_max_body_size THEN Answer(413)
  ELSE build_response(req, config)

=============================================================================
