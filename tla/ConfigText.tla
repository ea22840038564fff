------------------------------ MODULE ConfigText ------------------------------
(****************************************************************************)
(* What a configuration file says, without reading it from left to right:   *)
(* a file is a set of statements, each a few words up to the next mark, and *)
(* a statement belongs to the block whose brace was opened last.  This is   *)
(* the reference for ConfigParser and for everything the server does on the *)
(* strength of its configuration.                                           *)
(****************************************************************************)
EXTENDS Integers, SequencesExt, FiniteSetsExt

CONSTANTS Spells, Usize, None

LBrace == "{"
RBrace == "}"
Semicolon == ";"
Empty == ""
IsMark(t) == t \in {LBrace, RBrace, Semicolon}

\* A statement is known by the position of the mark that ends it.
Statements(ts) == {i \in DOMAIN ts : IsMark(ts[i])}

Opened(ts, i) == {j \in 1 .. i - 1 : ts[j] = LBrace}
Depth(ts, i) == Cardinality(Opened(ts, i)) - Cardinality({j \in 1 .. i - 1 : ts[j] = RBrace})

Words(ts, e) == SubSeq(ts, Max({0} \cup {i \in Statements(ts) : i < e}) + 1, e - 1)

\* The brace of the innermost block around statement e, which is in one.
Block(ts, e) == Max({j \in Opened(ts, e) : Depth(ts, j) = Depth(ts, e) - 1})

U16Max == 65535
IsNumber(w, max) == Spells[w].n \in 0 .. max
IsU16(w) == IsNumber(w, U16Max) /\ Spells[w].unit = "b"

ServerDirective(ws) ==
  \/ Len(ws) = 2 /\ ws[1] \in {"host", "server_name"}
  \/ Len(ws) = 2 /\ ws[1] = "port" /\ IsU16(ws[2])
  \/ Len(ws) = 2 /\ ws[1] = "client_max_body_size" /\ IsNumber(ws[2], Usize - 1)
  \/ Len(ws) = 3 /\ ws[1] = "error_page" /\ IsU16(ws[2])

LocationDirective(ws) ==
  \/ Len(ws) = 2 /\ ws[1] \in {"root", "index", "redirect"}
  \/ Len(ws) = 2 /\ ws[1] = "autoindex" /\ ws[2] \in {"on", "off"}
  \/ Len(ws) \in {2, 3} /\ ws[1] = "cgi"
  \/ Len(ws) >= 1 /\ ws[1] = "methods" /\ ToSet(Tail(ws)) \subseteq {"GET", "POST", "DELETE"}

Fits(ts, e) ==
  LET ws == Words(ts, e) IN
  CASE ts[e] = LBrace -> \/ Depth(ts, e) = 0 /\ ws = <<"server">>
                         \/ Depth(ts, e) = 1 /\ Len(ws) = 2 /\ ws[1] = "location"
    [] ts[e] = RBrace -> Depth(ts, e) \in {1, 2} /\ ws = << >>
    [] ts[e] = Semicolon -> \/ Depth(ts, e) = 1 /\ ServerDirective(ws)
                            \/ Depth(ts, e) = 2 /\ LocationDirective(ws)

\* The statements of the block opened at b that begin with the word name.
Saying(ts, b, name) ==
  {e \in Statements(ts) : /\ ts[e] = Semicolon /\ Depth(ts, e) >= 1 /\ Block(ts, e) = b
                          /\ Words(ts, e)[1] = name}

\* The value of a directive: the last one counts.
Said(ts, b, name, default) ==
  LET es == Saying(ts, b, name) IN IF es = {} THEN default ELSE Words(ts, Max(es))[2]

Servers(ts) == {e \in Statements(ts) : ts[e] = LBrace /\ Depth(ts, e) = 0}
Locations(ts, b) ==
  {e \in Statements(ts) : ts[e] = LBrace /\ Depth(ts, e) = 1 /\ Block(ts, e) = b}

\* What one server may not share with another.
Key(ts, b) == <<Said(ts, b, "host", None), Spells[Said(ts, b, "port", None)].n,
                Said(ts, b, "server_name", None)>>

WellFormed(ts) ==
  /\ ts # << >> /\ IsMark(Last(ts)) /\ Depth(ts, Len(ts) + 1) = 0
  /\ \A e \in Statements(ts) : Fits(ts, e)
  /\ \A b \in Servers(ts) : Saying(ts, b, "host") # {} /\ Saying(ts, b, "port") # {}
  /\ \A b, c \in Servers(ts) : Key(ts, b) = Key(ts, c) => b = c

Size(w) == Spells[w].n * (CASE Spells[w].unit = "mb" -> 1024 * 1024
                            [] Spells[w].unit = "kb" -> 1024
                            [] Spells[w].unit = "b" -> 1)
Limit(ts, b) ==
  IF Saying(ts, b, "client_max_body_size") = {} THEN 1024 * 1024
  ELSE Size(Said(ts, b, "client_max_body_size", None))

Methods(ts, b) == UNION {ToSet(Tail(Words(ts, e))) : e \in Saying(ts, b, "methods")}
Cgi(ts, b) ==
  LET es == Saying(ts, b, "cgi")  ws == Words(ts, Max(es)) IN
  IF es = {} THEN None
  ELSE [extension |-> ws[2],
        interpreter |-> IF Len(ws) = 3 THEN ws[3]
                        ELSE CASE ws[2] = ".py" -> "python3" [] ws[2] = ".php" -> "php"
                               [] OTHER -> "sh"]

\* The k-th of them is the last that has fewer than k before it.
InOrder(S) ==
  [k \in 1 .. Cardinality(S) |-> Max({i \in S : Cardinality({j \in S : j < i}) < k})]

LocationSaid(ts, b) ==
  [path |-> Words(ts, b)[2], root |-> Said(ts, b, "root", Empty),
   index |-> Said(ts, b, "index", None), methods |-> Methods(ts, b),
   autoindex |-> Said(ts, b, "autoindex", "off") = "on",
   redirect |-> Said(ts, b, "redirect", None), cgi |-> Cgi(ts, b)]

\* The page for each status a file can name.
ErrorPages(ts, b) ==
  LET for(c) == {e \in Saying(ts, b, "error_page") : Spells[Words(ts, e)[2]].n = c} IN
  [c \in {Spells[w].n : w \in {v \in DOMAIN Spells : IsU16(v)}} |->
     IF for(c) = {} THEN None ELSE Words(ts, Max(for(c)))[3]]

ServerSaid(ts, b) ==
  LET locs == InOrder(Locations(ts, b)) IN
  [host |-> Said(ts, b, "host", None), port |-> Key(ts, b)[2],
   server_name |-> Said(ts, b, "server_name", None),
   client_max_body_size |-> Limit(ts, b) % Usize,
   error_pages |-> ErrorPages(ts, b),
   locations |-> [i \in DOMAIN locs |-> LocationSaid(ts, locs[i])]]

Meaning(ts) ==
  LET bs == InOrder(Servers(ts)) IN [i \in DOMAIN bs |-> ServerSaid(ts, bs[i])]

=============================================================================
