----------------------------- MODULE ConfigParser -----------------------------
(****************************************************************************)
(* The reader of the configuration file: the recursive descent parser of    *)
(* src/src/config/parser.rs over the tokens of the file, and the check of   *)
(* Config::from_file that follows it.  A step is one iteration of one of    *)
(* the three while loops.                                                   *)
(*                                                                          *)
(* A token is one of the marks below or a word.  What a word spells when it *)
(* is read as a number is data of the instance: Spells.                     *)
(****************************************************************************)
EXTENDS Integers, Sequences, FiniteSets, Functions

CONSTANTS
  Texts,   \* the files, as sequences of tokens
  Spells,  \* word -> [n, unit]: its decimal number, or None, and its suffix
  Usize,   \* the number of values of a usize: 2^w
  None

LBrace == "{"
RBrace == "}"
Semicolon == ";"
Marks == {LBrace, RBrace, Semicolon}
Words == DOMAIN Spells

ASSUME TextsAssumption == Texts \subseteq Seq(Marks \cup Words)
ASSUME SpellsAssumption ==
  /\ Spells \in [Words -> [n : Nat \cup {None}, unit : {"b", "kb", "mb"}]]
  /\ Usize \in Nat \ {0} /\ 1024 * 1024 < Usize

VARIABLES
  tokens, pos,       \* Parser
  block,             \* the loop that is running: "top", "server", "location"
  servers,           \* finished server blocks
  server, location,  \* the blocks being read
  status             \* "parsing", or how from_file ended: "ok", "error", "panic"

parserVars == <<tokens, pos, block, servers, server, location, status>>

-----------------------------------------------------------------------------
(* Words and values.                                                        *)

End == "end of file"
Empty == ""
At(i) == IF i \in DOMAIN tokens THEN tokens[i] ELSE End  \* peek
IsWord(t) == t \notin Marks \cup {End}

\* A word is no mark, and None is neither a word nor a number.
ASSUME WordsAssumption == Words \cap (Marks \cup {End, None}) = {} /\ None \notin Nat

U16Max == 65535
U16 == 0 .. U16Max
u16(w) == IF Spells[w].unit = "b" /\ Spells[w].n \in U16 THEN Spells[w].n ELSE None

\* The outcomes of a product of usizes: it wraps, or panics where the build
\* checks for overflow.
Size(n) == [how |-> "ok", n |-> n]
NoSize(how) == [how |-> how, n |-> 0]
UsizeProduct(n, k) ==
  IF n * k < Usize THEN {Size(n * k)} ELSE {Size((n * k) % Usize), NoSize("panic")}

parse_body_size_NoKb(w) ==
  LET s == Spells[w] IN
  IF s.n \notin 0 .. Usize - 1 THEN {NoSize("error")}
  ELSE IF s.unit = "mb" THEN UsizeProduct(s.n, 1024 * 1024) ELSE {Size(s.n)}
parse_body_size(w) ==
  LET s == Spells[w] IN
  IF s.n \notin 0 .. Usize - 1 THEN {NoSize("error")}
  ELSE CASE s.unit = "mb" -> UsizeProduct(s.n, 1024 * 1024)
         [] s.unit = "kb" -> UsizeProduct(s.n, 1024)
         [] s.unit = "b"  -> {Size(s.n)}

\* The numbers a port or the status of an error page may be.
Codes == {Spells[w].n : w \in {v \in Words : u16(v) # None}}

NewServer ==
  [host |-> None, port |-> None, server_name |-> None,
   client_max_body_size |-> 1024 * 1024, error_pages |-> [c \in Codes |-> None],
   locations |-> << >>]
NewLocation(path) ==
  [path |-> path, root |-> Empty, index |-> None, methods |-> {}, autoindex |-> FALSE,
   redirect |-> None, cgi |-> None]

\* ServerConfig and LocationConfig.
Location ==
  [path : Words \cup {Empty}, root : Words \cup {Empty}, index : Words \cup {None},
   methods : SUBSET {"GET", "POST", "DELETE"}, autoindex : BOOLEAN,
   redirect : Words \cup {None},
   cgi : [extension : Words, interpreter : Words \cup {"python3", "php", "sh"}] \cup {None}]
Server ==
  [host : Words \cup {None}, port : Codes \cup {None}, server_name : Words \cup {None},
   client_max_body_size : Nat, error_pages : [Codes -> Words \cup {None}],
   locations : Seq(Location)]

-----------------------------------------------------------------------------
(* Directives.  An outcome is the block with the value set and the position *)
(* behind the semicolon, or the way the parser fails.                       *)

To(blk, next) == [how |-> "ok", block |-> blk, next |-> next]
Failed(how) == [how |-> how, block |-> None, next |-> 0]

\* expect_word()?, then expect(Semicolon)?
expect_value_Lenient(i) == IsWord(At(i))
expect_value(i) == IsWord(At(i)) /\ At(i + 1) = Semicolon

server_directive(i) ==
  LET v == At(i + 1)  one == expect_value(i + 1) IN
  CASE At(i) = "host" /\ one -> {To([server EXCEPT !.host = v], i + 3)}
    [] At(i) = "port" /\ one /\ u16(v) # None ->
         {To([server EXCEPT !.port = u16(v)], i + 3)}
    [] At(i) = "server_name" /\ one -> {To([server EXCEPT !.server_name = v], i + 3)}
    [] At(i) = "client_max_body_size" /\ IsWord(v) ->  \* the size comes before the ";"
         {IF b.how # "ok" THEN Failed(b.how)
          ELSE IF ~one THEN Failed("error")
          ELSE To([server EXCEPT !.client_max_body_size = b.n], i + 3) : b \in parse_body_size(v)}
    [] At(i) = "error_page" /\ IsWord(v) /\ expect_value(i + 2) /\ u16(v) # None ->
         {To([server EXCEPT !.error_pages[u16(v)] = At(i + 2)], i + 4)}
    [] OTHER -> {Failed("error")}

\* The first position from i on that is not a word.
EndOfWords(i) ==
  CHOOSE j \in i .. Len(tokens) + 1 : ~IsWord(At(j)) /\ \A k \in i .. j - 1 : IsWord(At(k))

DefaultInterpreter(ext) ==
  CASE ext = ".py" -> "python3" [] ext = ".php" -> "php" [] OTHER -> "sh"

location_directive(i) ==
  LET v == At(i + 1)  one == expect_value(i + 1)
      end == EndOfWords(i + 1)
      listed == {At(j) : j \in i + 1 .. end - 1} IN
  CASE At(i) = "root" /\ one -> {To([location EXCEPT !.root = v], i + 3)}
    [] At(i) = "index" /\ one -> {To([location EXCEPT !.index = v], i + 3)}
    [] At(i) = "redirect" /\ one -> {To([location EXCEPT !.redirect = v], i + 3)}
    [] At(i) = "autoindex" /\ one /\ v \in {"on", "off"} ->
         {To([location EXCEPT !.autoindex = (v = "on")], i + 3)}
    [] At(i) = "methods" /\ listed \subseteq {"GET", "POST", "DELETE"} /\ At(end) = Semicolon ->
         {To([location EXCEPT !.methods = @ \cup listed], end + 1)}
    [] At(i) = "cgi" /\ one ->
         {To([location EXCEPT !.cgi = [extension |-> v, interpreter |-> DefaultInterpreter(v)]],
             i + 3)}
    [] At(i) = "cgi" /\ IsWord(v) /\ expect_value(i + 2) ->
         {To([location EXCEPT !.cgi = [extension |-> v, interpreter |-> At(i + 2)]], i + 4)}
    [] OTHER -> {Failed("error")}

-----------------------------------------------------------------------------
(* The three loops.                                                         *)

Parsing(blk) == status = "parsing" /\ block = blk /\ UNCHANGED tokens

Fail(how) == status' = how /\ UNCHANGED <<pos, block, servers, server, location>>

\* Config::from_file: no two servers with the same host, port and server_name.
Duplicates ==
  LET key(s) == <<s.host, s.port, s.server_name>> IN
  \E i, j \in DOMAIN servers : i # j /\ key(servers[i]) = key(servers[j])

parse_config ==
  /\ Parsing("top")
  /\ \/ /\ At(pos) = "server" /\ At(pos + 1) = LBrace
        /\ pos' = pos + 2 /\ block' = "server" /\ server' = NewServer
        /\ UNCHANGED <<servers, location, status>>
     \/ At(pos) # End /\ ~(At(pos) = "server" /\ At(pos + 1) = LBrace) /\ Fail("error")
     \/ At(pos) = End /\ Fail(IF servers = << >> \/ Duplicates THEN "error" ELSE "ok")

parse_server ==
  /\ Parsing("server")
  /\ \/ /\ At(pos) = RBrace /\ server.host # None /\ server.port # None
        /\ pos' = pos + 1 /\ block' = "top" /\ servers' = Append(servers, server)
        /\ UNCHANGED <<server, location, status>>
     \/ /\ At(pos) = "location" /\ IsWord(At(pos + 1)) /\ At(pos + 2) = LBrace
        /\ pos' = pos + 3 /\ block' = "location" /\ location' = NewLocation(At(pos + 1))
        /\ UNCHANGED <<servers, server, status>>
     \/ /\ IsWord(At(pos)) /\ At(pos) # "location"
        /\ \E o \in server_directive(pos) :
             IF o.how # "ok" THEN Fail(o.how)
             ELSE /\ server' = o.block /\ pos' = o.next
                  /\ UNCHANGED <<block, servers, location, status>>
     \/ /\ \/ At(pos) \in {LBrace, Semicolon, End}
           \/ At(pos) = RBrace /\ None \in {server.host, server.port}
           \/ At(pos) = "location" /\ ~(IsWord(At(pos + 1)) /\ At(pos + 2) = LBrace)
        /\ Fail("error")

parse_location ==
  /\ Parsing("location")
  /\ \/ /\ At(pos) = RBrace
        /\ pos' = pos + 1 /\ block' = "server"
        /\ server' = [server EXCEPT !.locations = Append(@, location)]
        /\ UNCHANGED <<servers, location, status>>
     \/ /\ IsWord(At(pos))
        /\ \E o \in location_directive(pos) :
             IF o.how # "ok" THEN Fail(o.how)
             ELSE /\ location' = o.block /\ pos' = o.next
                  /\ UNCHANGED <<block, servers, server, status>>
     \/ At(pos) \in {LBrace, Semicolon, End} /\ Fail("error")

ParserInit ==
  /\ tokens \in Texts /\ pos = 1 /\ block = "top" /\ servers = << >>
  /\ server = NewServer /\ location = NewLocation(Empty) /\ status = "parsing"

ParserNext == parse_config \/ parse_server \/ parse_location

\* The shape of the parser's state.
ParserTypeOK ==
  /\ tokens \in Seq(Marks \cup Words) /\ pos \in 1 .. Len(tokens) + 1
  /\ block \in {"top", "server", "location"}
  /\ servers \in Seq(Server) /\ server \in Server /\ location \in Location
  /\ status \in {"parsing", "ok", "error", "panic"}

=============================================================================
