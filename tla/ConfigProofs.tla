------------------------------ MODULE ConfigProofs ------------------------------
(****************************************************************************)
(* Proofs about the parser: it keeps the shape of what it builds; after     *)
(* every statement its state is what ConfigText says of the part of the     *)
(* file that has been read; and so a file is accepted, with its meaning, or *)
(* rejected as ConfigText has it.                                           *)
(****************************************************************************)
EXTENDS Site, Induction, SequenceTheorems, FiniteSetTheorems

-----------------------------------------------------------------------------
(* The parser.                                                              *)

\* The remainder that wraps a size is a number again.
LEMMA Wrapped == ASSUME NEW n \in Nat PROVE n % Usize \in Nat
<1>1. Usize \in Nat \ {0}
  BY SpellsAssumption
<1> QED BY <1>1

\* A word of the file stands before its end, and so does every mark.
LEMMA TokensAreThere ==
  ASSUME tokens \in Seq(Marks \cup Words), NEW i
  PROVE  /\ IsWord(At(i)) => At(i) \in Words /\ i \in 1 .. Len(tokens)
         /\ At(i) \in Marks => i \in 1 .. Len(tokens)
<1>1. End \notin Marks
  BY Zenon DEF End, Marks, LBrace, RBrace, Semicolon
<1>2. DOMAIN tokens = 1 .. Len(tokens) /\ \A j \in 1 .. Len(tokens) : tokens[j] \in Marks \cup Words
  OBVIOUS
<1> QED BY <1>1, <1>2 DEF At, IsWord

\* A value and the semicolon behind it stand in the file.
LEMMA ValuesArePlaced ==
  ASSUME tokens \in Seq(Marks \cup Words), NEW i \in 1 .. Len(tokens)
  PROVE  /\ expect_value(i + 1) => At(i + 1) \in Words /\ i + 3 \in 1 .. Len(tokens) + 1
         /\ expect_value(i + 2) => At(i + 2) \in Words /\ i + 4 \in 1 .. Len(tokens) + 1
<1>1. Len(tokens) \in Nat /\ Semicolon \in Marks
  BY DEF Marks
<1>2. expect_value(i + 1) => IsWord(At(i + 1)) /\ i + 2 \in 1 .. Len(tokens)
  <2>1. expect_value(i + 1) => IsWord(At(i + 1)) /\ At(i + 2) = Semicolon
    BY (i + 1) + 1 = i + 2 DEF expect_value
  <2> QED BY <1>1, <2>1, TokensAreThere
<1>3. expect_value(i + 2) => IsWord(At(i + 2)) /\ i + 3 \in 1 .. Len(tokens)
  <2>1. expect_value(i + 2) => IsWord(At(i + 2)) /\ At(i + 3) = Semicolon
    BY (i + 2) + 1 = i + 3 DEF expect_value
  <2> QED BY <1>1, <2>1, TokensAreThere
<1> QED BY <1>1, <1>2, <1>3, TokensAreThere

\* What a word spells.
LEMMA WordsSpell ==
  ASSUME NEW w \in Words
  PROVE  Spells[w].n \in Nat \cup {None} /\ Spells[w].unit \in {"b", "kb", "mb"}
<1>1. Spells[w] \in [n : Nat \cup {None}, unit : {"b", "kb", "mb"}]
  BY SpellsAssumption
<1> QED BY <1>1

\* A number of sixteen bits is one that may be a port.
LEMMA CodesAreSpelled == ASSUME NEW w \in Words, u16(w) # None PROVE u16(w) \in Codes
<1>1. u16(w) = Spells[w].n
  BY DEF u16
<1> QED BY <1>1 DEF Codes

\* A product of sizes is a size, or there is none.
LEMMA ProductsAreNumbers ==
  ASSUME NEW n \in Nat, NEW k \in Nat, NEW p \in UsizeProduct(n, k)
  PROVE  p.how \in {"ok", "panic"} /\ p.n \in Nat
<1> DEFINE product == n * k
<1>1. product \in Nat /\ product % Usize \in Nat
  <2>1. product \in Nat
    OBVIOUS
  <2> HIDE DEF product
  <2> QED BY <2>1, Wrapped
<1>2. p \in {Size(product), Size(product % Usize), NoSize("panic")}
  BY DEF UsizeProduct
<1> HIDE DEF product
<1> QED BY <1>1, <1>2 DEF Size, NoSize

\* A size is a number, or none was read.
LEMMA SizesAreNumbers ==
  ASSUME NEW w \in Words, NEW s \in parse_body_size(w)
  PROVE  s.how \in {"ok", "error", "panic"} /\ s.n \in Nat
<1>1. CASE Spells[w].n \notin 0 .. Usize - 1
  BY <1>1 DEF parse_body_size, NoSize
<1>2. CASE Spells[w].n \in 0 .. Usize - 1
  <2>1. Spells[w].n \in Nat /\ Spells[w].unit \in {"b", "kb", "mb"}
    <3>1. \A n \in 0 .. Usize - 1 : n \in Nat
      OBVIOUS
    <3> QED BY <1>2, <3>1, WordsSpell
  <2>2. CASE Spells[w].unit = "mb"
    <3>1. s \in UsizeProduct(Spells[w].n, 1024 * 1024)
      BY <1>2, <2>2 DEF parse_body_size
    <3> QED BY <2>1, <3>1, ProductsAreNumbers, 1024 * 1024 \in Nat
  <2>3. CASE Spells[w].unit = "kb"
    <3>1. s \in UsizeProduct(Spells[w].n, 1024)
      BY <1>2, <2>3 DEF parse_body_size
    <3> QED BY <2>1, <3>1, ProductsAreNumbers
  <2>4. CASE Spells[w].unit = "b"
    <3>1. s \in {Size(Spells[w].n)}
      BY <1>2, <2>4 DEF parse_body_size
    <3> QED BY <2>1, <3>1 DEF Size
  <2> QED BY <2>1, <2>2, <2>3, <2>4
<1> QED BY <1>1, <1>2

\* What is said of a directive: the block has its shape, and the place behind the
\* directive is in the file or at its end.
Placed(o, Blocks) == o.how = "ok" => o.block \in Blocks /\ o.next \in 1 .. Len(tokens) + 1

LEMMA ServerDirectives ==
  ASSUME ParserTypeOK, NEW i \in 1 .. Len(tokens), NEW o \in server_directive(i)
  PROVE  o.how \in {"ok", "error", "panic"} /\ Placed(o, Server)
<1> DEFINE v == At(i + 1)
<1>1. tokens \in Seq(Marks \cup Words) /\ server \in Server
  BY DEF ParserTypeOK
<1>2. /\ IsWord(v) => v \in Words
      /\ expect_value(i + 1) => v \in Words /\ i + 3 \in 1 .. Len(tokens) + 1
      /\ expect_value(i + 2) => At(i + 2) \in Words /\ i + 4 \in 1 .. Len(tokens) + 1
  BY <1>1, ValuesArePlaced, TokensAreThere
<1> HIDE DEF v
<1>3. \/ expect_value(i + 1) /\ o = To([server EXCEPT !.host = v], i + 3)
      \/ /\ expect_value(i + 1) /\ u16(v) # None
         /\ o = To([server EXCEPT !.port = u16(v)], i + 3)
      \/ expect_value(i + 1) /\ o = To([server EXCEPT !.server_name = v], i + 3)
      \/ /\ IsWord(v)
         /\ \E b \in parse_body_size(v) :
              \/ b.how # "ok" /\ o = Failed(b.how)
              \/ o = Failed("error")
              \/ /\ expect_value(i + 1)
                 /\ o = To([server EXCEPT !.client_max_body_size = b.n], i + 3)
      \/ /\ IsWord(v) /\ expect_value(i + 2) /\ u16(v) # None
         /\ o = To([server EXCEPT !.error_pages[u16(v)] = At(i + 2)], i + 4)
      \/ o = Failed("error")
  BY DEF server_directive, v
<1>4. ASSUME NEW x \in Server, NEW n \in 1 .. Len(tokens) + 1, o = To(x, n)
      PROVE  o.how \in {"ok", "error", "panic"} /\ Placed(o, Server)
  BY <1>4 DEF To, Placed
<1>5. ASSUME NEW h \in {"error", "panic"}, o = Failed(h)
      PROVE  o.how \in {"ok", "error", "panic"} /\ Placed(o, Server)
  BY <1>5 DEF Failed, Placed
<1>6. CASE expect_value(i + 1) /\ o = To([server EXCEPT !.host = v], i + 3)
  <2>1. [server EXCEPT !.host = v] \in Server
    BY <1>1, <1>2, <1>6 DEF Server
  <2> QED BY <1>2, <1>4, <1>6, <2>1
<1>7. CASE /\ expect_value(i + 1) /\ u16(v) # None
           /\ o = To([server EXCEPT !.port = u16(v)], i + 3)
  <2>1. [server EXCEPT !.port = u16(v)] \in Server
    <3>1. u16(v) \in Codes
      BY <1>2, <1>7, CodesAreSpelled
    <3> QED BY <1>1, <3>1 DEF Server
  <2> QED BY <1>2, <1>4, <1>7, <2>1
<1>8. CASE expect_value(i + 1) /\ o = To([server EXCEPT !.server_name = v], i + 3)
  <2>1. [server EXCEPT !.server_name = v] \in Server
    BY <1>1, <1>2, <1>8 DEF Server
  <2> QED BY <1>2, <1>4, <1>8, <2>1
<1>9. ASSUME IsWord(v), NEW b \in parse_body_size(v),
             \/ b.how # "ok" /\ o = Failed(b.how)
             \/ o = Failed("error")
             \/ /\ expect_value(i + 1)
                /\ o = To([server EXCEPT !.client_max_body_size = b.n], i + 3)
      PROVE  o.how \in {"ok", "error", "panic"} /\ Placed(o, Server)
  <2>1. b.n \in Nat /\ b.how \in {"ok", "error", "panic"}
    BY <1>2, <1>9, SizesAreNumbers
  <2>2. [server EXCEPT !.client_max_body_size = b.n] \in Server
    BY <1>1, <2>1 DEF Server
  <2> QED BY <1>2, <1>4, <1>5, <1>9, <2>1, <2>2
<1>10. CASE /\ IsWord(v) /\ expect_value(i + 2) /\ u16(v) # None
            /\ o = To([server EXCEPT !.error_pages[u16(v)] = At(i + 2)], i + 4)
  <2>1. [server EXCEPT !.error_pages[u16(v)] = At(i + 2)] \in Server
    <3>1. server.error_pages \in [Codes -> Words \cup {None}]
      BY <1>1 DEF Server
    <3>2. u16(v) \in Codes /\ At(i + 2) \in Words
      BY <1>2, <1>10, CodesAreSpelled
    <3>3. [server.error_pages EXCEPT ![u16(v)] = At(i + 2)] \in [Codes -> Words \cup {None}]
      BY <3>1, <3>2
    <3> QED BY <1>1, <3>3 DEF Server
  <2> QED BY <1>2, <1>4, <1>10, <2>1
<1> QED BY <1>3, <1>5, <1>6, <1>7, <1>8, <1>9, <1>10

LEMMA LocationDirectives ==
  ASSUME ParserTypeOK, NEW i \in 1 .. Len(tokens), NEW o \in location_directive(i)
  PROVE  o.how \in {"ok", "error", "panic"} /\ Placed(o, Location)
<1> DEFINE v == At(i + 1)
           end == EndOfWords(i + 1)
           listed == {At(j) : j \in i + 1 .. end - 1}
           Interpreters == Words \cup {"python3", "php", "sh"}
<1>1. /\ tokens \in Seq(Marks \cup Words) /\ location \in Location
      /\ Len(tokens) \in Nat /\ Semicolon \in Marks
  BY DEF ParserTypeOK, Marks
<1>2. /\ IsWord(v) => v \in Words
      /\ expect_value(i + 1) => v \in Words /\ i + 3 \in 1 .. Len(tokens) + 1
      /\ expect_value(i + 2) => At(i + 2) \in Words /\ i + 4 \in 1 .. Len(tokens) + 1
      /\ At(end) = Semicolon => end + 1 \in 1 .. Len(tokens) + 1
  BY <1>1, ValuesArePlaced, TokensAreThere
<1>3. DefaultInterpreter(v) \in Interpreters
  BY Zenon DEF DefaultInterpreter
<1> HIDE DEF v, end, listed, Interpreters
<1>4. \/ expect_value(i + 1) /\ o = To([location EXCEPT !.root = v], i + 3)
      \/ expect_value(i + 1) /\ o = To([location EXCEPT !.index = v], i + 3)
      \/ expect_value(i + 1) /\ o = To([location EXCEPT !.redirect = v], i + 3)
      \/ expect_value(i + 1) /\ o = To([location EXCEPT !.autoindex = (v = "on")], i + 3)
      \/ /\ listed \subseteq {"GET", "POST", "DELETE"} /\ At(end) = Semicolon
         /\ o = To([location EXCEPT !.methods = @ \cup listed], end + 1)
      \/ /\ expect_value(i + 1)
         /\ o = To([location EXCEPT !.cgi = [extension |-> v,
                                             interpreter |-> DefaultInterpreter(v)]], i + 3)
      \/ /\ IsWord(v) /\ expect_value(i + 2)
         /\ o = To([location EXCEPT !.cgi = [extension |-> v,
                                             interpreter |-> At(i + 2)]], i + 4)
      \/ o = Failed("error")
  BY DEF location_directive, v, end, listed
<1>5. ASSUME NEW x \in Location, NEW n \in 1 .. Len(tokens) + 1, o = To(x, n)
      PROVE  o.how \in {"ok", "error", "panic"} /\ Placed(o, Location)
  BY <1>5 DEF To, Placed
<1>6. CASE o = Failed("error")
  BY <1>6 DEF Failed, Placed
<1>7. CASE expect_value(i + 1) /\ o = To([location EXCEPT !.root = v], i + 3)
  <2>1. [location EXCEPT !.root = v] \in Location
    BY <1>1, <1>2, <1>7 DEF Location
  <2> QED BY <1>2, <1>5, <1>7, <2>1
<1>8. CASE expect_value(i + 1) /\ o = To([location EXCEPT !.index = v], i + 3)
  <2>1. [location EXCEPT !.index = v] \in Location
    BY <1>1, <1>2, <1>8 DEF Location
  <2> QED BY <1>2, <1>5, <1>8, <2>1
<1>9. CASE expect_value(i + 1) /\ o = To([location EXCEPT !.redirect = v], i + 3)
  <2>1. [location EXCEPT !.redirect = v] \in Location
    BY <1>1, <1>2, <1>9 DEF Location
  <2> QED BY <1>2, <1>5, <1>9, <2>1
<1>10. CASE expect_value(i + 1) /\ o = To([location EXCEPT !.autoindex = (v = "on")], i + 3)
  <2>1. [location EXCEPT !.autoindex = (v = "on")] \in Location
    BY <1>1 DEF Location
  <2> QED BY <1>2, <1>5, <1>10, <2>1
<1>11. CASE /\ listed \subseteq {"GET", "POST", "DELETE"} /\ At(end) = Semicolon
            /\ o = To([location EXCEPT !.methods = @ \cup listed], end + 1)
  <2>1. [location EXCEPT !.methods = @ \cup listed] \in Location
    BY <1>1, <1>11 DEF Location
  <2> QED BY <1>2, <1>5, <1>11, <2>1
<1>12. ASSUME NEW e \in Words, NEW p \in Interpreters
       PROVE  [location EXCEPT !.cgi = [extension |-> e, interpreter |-> p]] \in Location
  BY <1>1 DEF Location, Interpreters
<1>13. CASE \/ /\ expect_value(i + 1)
               /\ o = To([location EXCEPT !.cgi = [extension |-> v,
                                                   interpreter |-> DefaultInterpreter(v)]], i + 3)
            \/ /\ IsWord(v) /\ expect_value(i + 2)
               /\ o = To([location EXCEPT !.cgi = [extension |-> v,
                                                   interpreter |-> At(i + 2)]], i + 4)
  <2>1. expect_value(i + 2) => At(i + 2) \in Interpreters
    BY <1>2 DEF Interpreters
  <2> QED BY <1>2, <1>3, <1>5, <1>12, <1>13, <2>1
<1> QED BY <1>4, <1>6, <1>7, <1>8, <1>9, <1>10, <1>11, <1>13

\* The blocks begin with the defaults.
LEMMA NewBlocks ==
  /\ NewServer \in Server
  /\ \A w \in Words \cup {Empty} : NewLocation(w) \in Location
<1>1. NewServer \in Server
  <2>1. 1024 * 1024 \in Nat
    OBVIOUS
  <2>2. [c \in Codes |-> None] \in [Codes -> Words \cup {None}] /\ << >> \in Seq(Location)
    OBVIOUS
  <2> QED BY <2>1, <2>2 DEF NewServer, Server
<1>2. ASSUME NEW w \in Words \cup {Empty} PROVE NewLocation(w) \in Location
  BY DEF NewLocation, Location
<1> QED BY <1>1, <1>2

\* An iteration of one of the loops keeps the shape of the parser's state.
LEMMA ParserKeepsItsShape == ParserTypeOK /\ ParserNext => ParserTypeOK'
<1> SUFFICES ASSUME ParserTypeOK, ParserNext PROVE ParserTypeOK'
  OBVIOUS
<1>1. /\ tokens \in Seq(Marks \cup Words) /\ tokens' = tokens
      /\ Len(tokens) \in Nat /\ {LBrace, RBrace, Semicolon} \subseteq Marks
      /\ pos \in 1 .. Len(tokens) + 1
  BY DEF ParserTypeOK, ParserNext, parse_config, parse_server, parse_location, Parsing, Marks
<1>2. /\ At(pos) = RBrace => pos + 1 \in 1 .. Len(tokens) + 1
      /\ At(pos + 1) = LBrace => pos + 2 \in 1 .. Len(tokens) + 1
      /\ At(pos + 2) = LBrace => pos + 3 \in 1 .. Len(tokens) + 1
      /\ IsWord(At(pos)) => pos \in 1 .. Len(tokens)
      /\ IsWord(At(pos + 1)) => At(pos + 1) \in Words \cup {Empty}
  BY <1>1, TokensAreThere
<1>3. ASSUME NEW how \in {"ok", "error", "panic"}, Fail(how) PROVE ParserTypeOK'
  BY <1>1, <1>3 DEF Fail, ParserTypeOK
<1>4. CASE parse_config
  <2>1. CASE /\ At(pos) = "server" /\ At(pos + 1) = LBrace
             /\ pos' = pos + 2 /\ block' = "server" /\ server' = NewServer
             /\ UNCHANGED <<servers, location, status>>
    BY <1>1, <1>2, <2>1, NewBlocks DEF ParserTypeOK
  <2>2. CASE Fail("error")
    BY <1>3, <2>2
  <2>3. CASE Fail(IF servers = << >> \/ Duplicates THEN "error" ELSE "ok")
    <3>1. (IF servers = << >> \/ Duplicates THEN "error" ELSE "ok") \in {"ok", "error", "panic"}
      OBVIOUS
    <3> QED BY <1>3, <2>3, <3>1
  <2> QED BY <1>4, <2>1, <2>2, <2>3 DEF parse_config
<1>5. CASE parse_server
  <2>1. CASE /\ At(pos) = RBrace /\ pos' = pos + 1 /\ block' = "top"
             /\ servers' = Append(servers, server) /\ UNCHANGED <<server, location, status>>
    <3>1. servers' \in Seq(Server)
      BY <2>1, AppendProperties DEF ParserTypeOK
    <3> QED BY <1>1, <1>2, <2>1, <3>1 DEF ParserTypeOK
  <2>2. CASE /\ IsWord(At(pos + 1)) /\ At(pos + 2) = LBrace
             /\ pos' = pos + 3 /\ block' = "location" /\ location' = NewLocation(At(pos + 1))
             /\ UNCHANGED <<servers, server, status>>
    <3>1. location' \in Location
      BY <1>2, <2>2, NewBlocks
    <3> QED BY <1>1, <1>2, <2>2, <3>1 DEF ParserTypeOK
  <2>3. ASSUME IsWord(At(pos)), NEW o \in server_directive(pos),
               IF o.how # "ok" THEN Fail(o.how)
               ELSE /\ server' = o.block /\ pos' = o.next
                    /\ UNCHANGED <<block, servers, location, status>>
        PROVE  ParserTypeOK'
    <3>1. o.how \in {"ok", "error", "panic"} /\ Placed(o, Server)
      BY <1>2, <2>3, ServerDirectives
    <3> QED BY <1>1, <1>3, <2>3, <3>1 DEF ParserTypeOK, Placed
  <2>4. CASE Fail("error")
    BY <1>3, <2>4
  <2> QED BY <1>5, <2>1, <2>2, <2>3, <2>4 DEF parse_server
<1>6. CASE parse_location
  <2>1. CASE /\ At(pos) = RBrace /\ pos' = pos + 1 /\ block' = "server"
             /\ server' = [server EXCEPT !.locations = Append(@, location)]
             /\ UNCHANGED <<servers, location, status>>
    <3>1. server.locations \in Seq(Location) /\ location \in Location
      BY DEF ParserTypeOK, Server
    <3>2. Append(server.locations, location) \in Seq(Location)
      BY <3>1, AppendProperties
    <3>3. server' \in Server
      BY <2>1, <3>2 DEF ParserTypeOK, Server
    <3> QED BY <1>1, <1>2, <2>1, <3>3 DEF ParserTypeOK
  <2>2. ASSUME IsWord(At(pos)), NEW o \in location_directive(pos),
               IF o.how # "ok" THEN Fail(o.how)
               ELSE /\ location' = o.block /\ pos' = o.next
                    /\ UNCHANGED <<block, servers, server, status>>
        PROVE  ParserTypeOK'
    <3>1. o.how \in {"ok", "error", "panic"} /\ Placed(o, Location)
      BY <1>2, <2>2, LocationDirectives
    <3> QED BY <1>1, <1>3, <2>2, <3>1 DEF ParserTypeOK, Placed
  <2>3. CASE Fail("error")
    BY <1>3, <2>3
  <2> QED BY <1>6, <2>1, <2>2, <2>3 DEF parse_location
<1> QED BY <1>4, <1>5, <1>6 DEF ParserNext

-----------------------------------------------------------------------------
(* Positions and statements.                                                *)

\* The greatest number of a set is one of it.
LEMMA MaxIsGreatest ==
  ASSUME NEW S, S \subseteq Nat, S # {}, NEW n \in Nat, \A x \in S : x <= n
  PROVE  Max(S) \in S /\ \A x \in S : x <= Max(S)
<1>1. \E x \in S : \A y \in S : x >= y
  <2>1. PICK x \in S : \A y \in S : y <= x
    BY GreatestElement
  <2> QED BY <2>1
<1> QED BY <1>1 DEF Max

\* So is the least one.
LEMMA MinIsLeast ==
  ASSUME NEW S, S \subseteq Nat, S # {}
  PROVE  Min(S) \in S /\ \A x \in S : Min(S) <= x
<1>1. \E x \in S : \A y \in S : x <= y
  BY LeastElement
<1> QED BY <1>1 DEF Min

\* ConfigText brings its own copies of the operators of the libraries.
LEMMA TextOperators ==
  /\ \A S : Text!Max(S) = Max(S)
  /\ \A S : Text!Cardinality(S) = Cardinality(S)
  /\ \A s : Text!Statements(s) = {i \in DOMAIN s : s[i] \in Marks}
  /\ Text!LBrace \in Marks /\ Text!RBrace \in Marks /\ Text!Semicolon \in Marks
<1>1. \A S : Text!Max(S) = Max(S)
  BY DEF Text!Max, Max
<1>2. \A S : Text!Cardinality(S) = Cardinality(S)
  BY Zenon DEF Text!Cardinality, Cardinality
<1>3. \A t : t \in Marks <=> Text!IsMark(t)
  BY Zenon DEF Text!IsMark, Text!LBrace, Text!RBrace, Text!Semicolon,
               Marks, LBrace, RBrace, Semicolon
<1>4. \A s : Text!Statements(s) = {i \in DOMAIN s : s[i] \in Marks}
  BY Zenon, <1>3 DEF Text!Statements
<1>5. Text!LBrace \in Marks /\ Text!RBrace \in Marks /\ Text!Semicolon \in Marks
  BY Zenon DEF Text!LBrace, Text!RBrace, Text!Semicolon,
               Marks, LBrace, RBrace, Semicolon
<1> QED BY <1>1, <1>2, <1>4, <1>5

\* They are three, the same for both.
LEMMA MarksAre ==
  /\ Text!LBrace = LBrace /\ Text!RBrace = RBrace /\ Text!Semicolon = Semicolon
  /\ LBrace # RBrace /\ LBrace # Semicolon /\ RBrace # Semicolon
  /\ Marks = {LBrace, RBrace, Semicolon}
<1>1. Text!LBrace = LBrace /\ Text!RBrace = RBrace /\ Text!Semicolon = Semicolon
  BY Zenon DEF Text!LBrace, Text!RBrace, Text!Semicolon, LBrace, RBrace, Semicolon
<1>2. LBrace # RBrace /\ LBrace # Semicolon /\ RBrace # Semicolon
  BY Zenon DEF LBrace, RBrace, Semicolon
<1> QED BY <1>1, <1>2 DEF Marks

\* An element with none above it is the greatest.
LEMMA MaxIs ==
  ASSUME NEW S, S \subseteq Nat, NEW x \in S, \A y \in S : y <= x
  PROVE  Text!Max(S) = x
<1>1. \E z \in S : \A y \in S : z >= y
  OBVIOUS
<1>2. Text!Max(S) \in S /\ \A y \in S : Text!Max(S) >= y
  BY <1>1 DEF Text!Max
<1>3. Text!Max(S) >= x /\ Text!Max(S) <= x /\ Text!Max(S) \in Nat /\ x \in Nat
  BY <1>2
<1> QED BY <1>3

LEMMA MaxOf ==
  ASSUME NEW S, S \subseteq Nat, S # {}, NEW n \in Nat, \A x \in S : x <= n
  PROVE  Text!Max(S) \in S /\ \A x \in S : x <= Text!Max(S)
  BY MaxIsGreatest, TextOperators

\* A file as the parser gets it.
File(t) == t \in Seq(Marks \cup Words)

LEMMA FilesAre ==
  ASSUME NEW t, File(t)
  PROVE  /\ Len(t) \in Nat /\ DOMAIN t = 1 .. Len(t)
         /\ \A i \in 1 .. Len(t) : t[i] \in Marks \cup Words
         /\ \A i : i \in Text!Statements(t) <=> i \in 1 .. Len(t) /\ t[i] \in Marks
<1>1. /\ Len(t) \in Nat /\ DOMAIN t = 1 .. Len(t)
      /\ \A i \in 1 .. Len(t) : t[i] \in Marks \cup Words
  BY DEF File
<1>2. Text!Statements(t) = {i \in DOMAIN t : t[i] \in Marks}
  BY TextOperators
<1> QED BY <1>1, <1>2

\* Finitely many braces stand before a position.
Earlier(t, m, i) == {j \in 1 .. i - 1 : t[j] = m}

LEMMA BracesCount ==
  ASSUME NEW t, NEW i \in Int, NEW m
  PROVE  IsFiniteSet(Earlier(t, m, i)) /\ Cardinality(Earlier(t, m, i)) \in Nat
<1>1. IsFiniteSet(1 .. i - 1)
  BY FS_Interval
<1>2. Earlier(t, m, i) \in SUBSET (1 .. i - 1)
  BY DEF Earlier
<1>3. IsFiniteSet(Earlier(t, m, i))
  BY <1>1, <1>2, FS_Subset
<1> QED BY <1>3, FS_CardinalityType

LEMMA DepthIs ==
  ASSUME NEW t, NEW i
  PROVE  /\ Text!Opened(t, i) = Earlier(t, Text!LBrace, i)
         /\ Text!Depth(t, i) = Cardinality(Earlier(t, Text!LBrace, i)) - Cardinality(Earlier(t, Text!RBrace, i))
  BY TextOperators DEF Text!Depth, Text!Opened, Earlier

LEMMA OpenedAre ==
  ASSUME NEW t, NEW i
  PROVE  \A j : j \in Text!Opened(t, i) <=> j \in 1 .. i - 1 /\ t[j] = Text!LBrace
  BY DEF Text!Opened

LEMMA DepthType == ASSUME NEW t, NEW i \in Int PROVE Text!Depth(t, i) \in Int
<1>1. Text!Depth(t, i) = Cardinality(Earlier(t, Text!LBrace, i)) - Cardinality(Earlier(t, Text!RBrace, i))
  BY DepthIs
<1>2. Cardinality(Earlier(t, Text!LBrace, i)) \in Nat /\ Cardinality(Earlier(t, Text!RBrace, i)) \in Nat
  BY BracesCount
<1>3. \A n, m \in Nat : n - m \in Int
  OBVIOUS
<1> QED BY <1>1, <1>2, <1>3

\* One token further, the depth is one more behind an opening brace, one less behind
\* a closing one.
LEMMA DepthBehind ==
  ASSUME NEW t, NEW i \in Nat \ {0}
  PROVE  /\ t[i] = Text!LBrace => Text!Depth(t, i + 1) = Text!Depth(t, i) + 1
         /\ t[i] = Text!RBrace => Text!Depth(t, i + 1) = Text!Depth(t, i) - 1
         /\ t[i] \notin {Text!LBrace, Text!RBrace} => Text!Depth(t, i + 1) = Text!Depth(t, i)
<1>1. ASSUME NEW m
      PROVE  /\ t[i] = m => Cardinality(Earlier(t, m, i + 1)) = Cardinality(Earlier(t, m, i)) + 1
             /\ t[i] # m => Cardinality(Earlier(t, m, i + 1)) = Cardinality(Earlier(t, m, i))
  <2>0. i \in Int /\ i \notin Earlier(t, m, i)
    BY DEF Earlier
  <2>1. IsFiniteSet(Earlier(t, m, i))
    BY <2>0, BracesCount
  <2>2. t[i] = m => Earlier(t, m, i + 1) = Earlier(t, m, i) \cup {i}
    BY DEF Earlier
  <2>3. t[i] # m => Earlier(t, m, i + 1) = Earlier(t, m, i)
    BY DEF Earlier
  <2> QED BY <2>0, <2>1, <2>2, <2>3, FS_AddElement
<1>0. Text!LBrace # Text!RBrace
  BY MarksAre
<1>2. /\ Text!Depth(t, i) = Cardinality(Earlier(t, Text!LBrace, i)) - Cardinality(Earlier(t, Text!RBrace, i))
      /\ Text!Depth(t, i + 1)
           = Cardinality(Earlier(t, Text!LBrace, i + 1)) - Cardinality(Earlier(t, Text!RBrace, i + 1))
  BY DepthIs
<1>7. Cardinality(Earlier(t, Text!LBrace, i)) \in Nat /\ Cardinality(Earlier(t, Text!RBrace, i)) \in Nat
  BY BracesCount, i \in Int
<1>3. \A n, m \in Nat : (n + 1) - m = (n - m) + 1 /\ n - (m + 1) = (n - m) - 1
  OBVIOUS
<1>8. /\ (Cardinality(Earlier(t, Text!LBrace, i)) + 1) - Cardinality(Earlier(t, Text!RBrace, i))
           = (Cardinality(Earlier(t, Text!LBrace, i)) - Cardinality(Earlier(t, Text!RBrace, i))) + 1
      /\ Cardinality(Earlier(t, Text!LBrace, i)) - (Cardinality(Earlier(t, Text!RBrace, i)) + 1)
           = (Cardinality(Earlier(t, Text!LBrace, i)) - Cardinality(Earlier(t, Text!RBrace, i))) - 1
  BY <1>3, <1>7
<1>4. CASE t[i] = Text!LBrace
  <2>1. Text!Depth(t, i + 1)
          = (Cardinality(Earlier(t, Text!LBrace, i)) + 1) - Cardinality(Earlier(t, Text!RBrace, i))
    BY <1>0, <1>1, <1>2, <1>4
  <2>2. Text!Depth(t, i + 1) = Text!Depth(t, i) + 1
    BY <1>2, <2>1, <1>8
  <2> QED BY <1>0, <1>4, <2>2
<1>5. CASE t[i] = Text!RBrace
  <2>1. Text!Depth(t, i + 1)
          = Cardinality(Earlier(t, Text!LBrace, i)) - (Cardinality(Earlier(t, Text!RBrace, i)) + 1)
    BY <1>0, <1>1, <1>2, <1>5
  <2>2. Text!Depth(t, i + 1) = Text!Depth(t, i) - 1
    BY <1>2, <2>1, <1>8
  <2> QED BY <1>0, <1>5, <2>2
<1>6. CASE t[i] \notin {Text!LBrace, Text!RBrace}
  BY <1>1, <1>2, <1>6
<1> QED BY <1>4, <1>5, <1>6

LEMMA DepthAtStart == ASSUME NEW t PROVE Text!Depth(t, 1) = 0
<1>1. \A m : Earlier(t, m, 1) = {}
  BY DEF Earlier
<1> QED BY <1>1, FS_EmptySet, DepthIs

\* Before one goes from some depth to a greater one, a brace is opened at that depth.
LEMMA DepthIsCrossed ==
  ASSUME NEW t, NEW a \in Nat \ {0}, NEW e \in Nat, a <= e, NEW d \in Int,
         Text!Depth(t, a) <= d, Text!Depth(t, e) > d
  PROVE  \E j \in Nat : a <= j /\ j < e /\ t[j] = Text!LBrace /\ Text!Depth(t, j) = d
<1> DEFINE S == {i \in a .. e - 1 : Text!Depth(t, i) <= d}
<1>1. S \subseteq Nat /\ S # {} /\ \A x \in S : x <= e
  <2>1. a # e
    BY DepthType
  <2> QED BY <2>1
<1>2. PICK j \in S : \A y \in S : y <= j
  <2> HIDE DEF S
  <2> QED BY <1>1, GreatestElement
<1>3. j \in Nat \ {0} /\ j \in a .. e - 1 /\ a <= j /\ j < e /\ Text!Depth(t, j) <= d
  BY <1>2
<1>4. Text!Depth(t, j + 1) > d
  <2>1. j + 1 \notin S
    BY <1>2, <1>3
  <2>2. CASE j + 1 = e
    BY <2>2
  <2>3. CASE j + 1 # e
    <3>1. j + 1 \in a .. e - 1
      BY <1>3, <2>3
    <3>2. ~(Text!Depth(t, j + 1) <= d)
      BY <2>1, <3>1
    <3> QED BY <1>3, <3>2, DepthType
  <2> QED BY <2>2, <2>3
<1>5. Text!Depth(t, j) \in Int /\ Text!Depth(t, j + 1) \in Int
  BY <1>3, DepthType
<1>6. t[j] = Text!LBrace /\ Text!Depth(t, j) = d
  <2>1. /\ t[j] = Text!LBrace => Text!Depth(t, j + 1) = Text!Depth(t, j) + 1
        /\ t[j] = Text!RBrace => Text!Depth(t, j + 1) = Text!Depth(t, j) - 1
        /\ t[j] \notin {Text!LBrace, Text!RBrace} => Text!Depth(t, j + 1) = Text!Depth(t, j)
    BY <1>3, DepthBehind
  <2>2. \A x, y \in Int : x <= d /\ y > d => y # x /\ y # x - 1 /\ (y = x + 1 => x = d)
    OBVIOUS
  <2> QED BY <1>3, <1>4, <1>5, <2>1, <2>2
<1> QED BY <1>3, <1>6

-----------------------------------------------------------------------------
(* What a part of a file says stays said.                                   *)

\* Parts of two sequences that agree between two positions.
LEMMA SameParts ==
  ASSUME NEW X, NEW q \in Seq(X), NEW t \in Seq(X), NEW a \in Nat \ {0}, NEW e,
         e \in 0 .. Len(q), e \in 0 .. Len(t), \A k \in a .. e : t[k] = q[k]
  PROVE  SubSeq(t, a, e) = SubSeq(q, a, e)
<1>1. /\ Len(SubSeq(t, a, e)) = Len(SubSeq(q, a, e))
      /\ \A k \in 1 .. Len(SubSeq(q, a, e)) : SubSeq(t, a, e)[k] = SubSeq(q, a, e)[k]
  OBVIOUS
<1>2. SubSeq(t, a, e) \in Seq(X) /\ SubSeq(q, a, e) \in Seq(X)
  OBVIOUS
<1> QED BY <1>1, <1>2, SeqEqual

StartOf(q, t) == Len(q) <= Len(t) /\ \A i \in 1 .. Len(q) : t[i] = q[i]

\* A statement of the part is the same in the whole.
LEMMA BeginningsStay ==
  ASSUME NEW q, NEW t, File(q), File(t), StartOf(q, t)
  PROVE  /\ Text!Statements(q) = {i \in Text!Statements(t) : i <= Len(q)}
         /\ \A i \in 1 .. Len(q) + 1 : /\ Text!Opened(t, i) = Text!Opened(q, i)
                                       /\ Text!Depth(t, i) = Text!Depth(q, i)
         /\ \A i \in 1 .. Len(q) : /\ Text!Words(t, i) = Text!Words(q, i)
                                   /\ Text!Block(t, i) = Text!Block(q, i)
<1>1. /\ Len(q) \in Nat /\ Len(t) \in Nat /\ Len(q) <= Len(t)
      /\ \A i \in 1 .. Len(q) : t[i] = q[i]
      /\ \A i : i \in Text!Statements(q) <=> i \in 1 .. Len(q) /\ q[i] \in Marks
      /\ \A i : i \in Text!Statements(t) <=> i \in 1 .. Len(t) /\ t[i] \in Marks
  BY FilesAre DEF StartOf
<1>2. Text!Statements(q) = {i \in Text!Statements(t) : i <= Len(q)}
  BY <1>1
<1>3. ASSUME NEW i \in 1 .. Len(q) + 1
      PROVE  Text!Opened(t, i) = Text!Opened(q, i) /\ Text!Depth(t, i) = Text!Depth(q, i)
  <2>1. \A m : Earlier(t, m, i) = Earlier(q, m, i)
    BY <1>1 DEF Earlier
  <2> QED BY <2>1, DepthIs
<1>4. ASSUME NEW i \in 1 .. Len(q)
      PROVE  Text!Words(t, i) = Text!Words(q, i) /\ Text!Block(t, i) = Text!Block(q, i)
  <2>1. {j \in Text!Statements(t) : j < i} = {j \in Text!Statements(q) : j < i}
    BY <1>1, <1>2
  <2> DEFINE S == {0} \cup {j \in Text!Statements(q) : j < i}
  <2>2. Text!Max(S) \in 0 .. i - 1
    <3>1. S \subseteq Nat /\ S # {} /\ \A x \in S : x <= i - 1
      BY <1>1
    <3>2. i - 1 \in Nat
      BY <1>1
    <3> HIDE DEF S
    <3>3. Text!Max(S) \in S
      BY <3>1, <3>2, MaxOf
    <3> HIDE DEF S
    <3>4. Text!Max(S) \in Nat /\ Text!Max(S) <= i - 1
      BY <3>1, <3>3
    <3> QED BY <3>2, <3>4
  <2>3. Text!Words(t, i) = SubSeq(t, Text!Max(S) + 1, i - 1)
        /\ Text!Words(q, i) = SubSeq(q, Text!Max(S) + 1, i - 1)
    BY <2>1 DEF Text!Words
  <2>4. SubSeq(t, Text!Max(S) + 1, i - 1) = SubSeq(q, Text!Max(S) + 1, i - 1)
    <3> DEFINE a == Text!Max(S) + 1
    <3>1. a \in Nat \ {0} /\ a <= i /\ i - 1 \in 0 .. Len(q) /\ i - 1 \in 0 .. Len(t)
      <4> HIDE DEF S
      <4> QED BY <1>1, <2>2
    <3> HIDE DEF a
    <3>2. \A k \in a .. i - 1 : t[k] = q[k]
      BY <1>1, <3>1
    <3>3. SubSeq(t, a, i - 1) = SubSeq(q, a, i - 1)
      BY <3>1, <3>2, SameParts DEF File
    <3> QED BY <3>3 DEF a
  <2>5. {j \in Text!Opened(t, i) : Text!Depth(t, j) = Text!Depth(t, i) - 1}
          = {j \in Text!Opened(q, i) : Text!Depth(q, j) = Text!Depth(q, i) - 1}
    <3>0. i \in 1 .. Len(q) + 1 /\ 1 .. i - 1 \subseteq 1 .. Len(q) + 1
      BY <1>1
    <3>1. i \in 1 .. Len(q) + 1 /\ \A j \in Text!Opened(q, i) : j \in 1 .. Len(q) + 1
      BY <3>0, OpenedAre
    <3> QED BY <1>3, <3>1
  <2> QED BY <2>3, <2>4, <2>5 DEF Text!Block
<1> QED BY <1>2, <1>3, <1>4

-----------------------------------------------------------------------------
(* One statement more.                                                      *)

\* What ends the last statement.
Mark(t) == t[Len(t)]

\* q ends where a statement does, and t is q and the next statement.
Extends(q, t) ==
  /\ File(q) /\ File(t) /\ StartOf(q, t) /\ Len(q) < Len(t)
  /\ Len(q) = 0 \/ q[Len(q)] \in Marks
  /\ \A i \in Len(q) + 1 .. Len(t) - 1 : t[i] \notin Marks
  /\ t[Len(t)] \in Marks

\* The opening braces at a depth.
Braces(q, d) == {j \in Text!Statements(q) : q[j] = Text!LBrace /\ Text!Depth(q, j) = d}

LEMMA ExtensionsAre ==
  ASSUME NEW q, NEW t, Extends(q, t)
  PROVE  /\ Len(q) \in Nat /\ Len(t) \in Nat \ {0} /\ Len(q) < Len(t)
         /\ \A i : i \in Text!Statements(q) <=> i \in 1 .. Len(q) /\ q[i] \in Marks
         /\ \A i : i \in Text!Statements(t) <=> i \in 1 .. Len(t) /\ t[i] \in Marks
         /\ \A i \in 1 .. Len(q) : t[i] = q[i]
         /\ \A i \in 1 .. Len(t) - 1 : t[i] \in Marks => i \in 1 .. Len(q)
<1>1. /\ Len(q) \in Nat /\ Len(t) \in Nat /\ Len(q) < Len(t)
      /\ \A i \in Len(q) + 1 .. Len(t) - 1 : t[i] \notin Marks
      /\ \A i \in 1 .. Len(q) : t[i] = q[i]
  BY FilesAre DEF Extends, StartOf
<1>2. /\ \A i : i \in Text!Statements(q) <=> i \in 1 .. Len(q) /\ q[i] \in Marks
      /\ \A i : i \in Text!Statements(t) <=> i \in 1 .. Len(t) /\ t[i] \in Marks
  BY FilesAre DEF Extends
<1>3. ASSUME NEW i \in 1 .. Len(t) - 1, t[i] \in Marks PROVE i \in 1 .. Len(q)
  BY <1>1, <1>3
<1> QED BY <1>1, <1>2, <1>3

LEMMA OneStatementMore ==
  ASSUME NEW q, NEW t, Extends(q, t)
  PROVE  LET e == Len(t) IN
         /\ Text!Statements(t) = Text!Statements(q) \cup {e}
         /\ \A i \in Text!Statements(q) : i \in 1 .. Len(q) /\ i < e
         /\ Text!Words(t, e) = SubSeq(t, Len(q) + 1, e - 1)
         /\ Text!Depth(t, e) = Text!Depth(q, Len(q) + 1)
         /\ Text!Block(t, e) = Text!Max(Braces(q, Text!Depth(t, e) - 1))
<1> DEFINE e == Len(t)
<1>1. /\ Len(q) \in Nat /\ e \in Nat \ {0} /\ Len(q) < e
      /\ \A i : i \in Text!Statements(q) <=> i \in 1 .. Len(q) /\ q[i] \in Marks
      /\ \A i : i \in Text!Statements(t) <=> i \in 1 .. e /\ t[i] \in Marks
      /\ \A i \in 1 .. Len(q) : t[i] = q[i]
      /\ \A i \in 1 .. e - 1 : t[i] \in Marks => i \in 1 .. Len(q)
  BY ExtensionsAre
<1>2. t[e] \in Marks /\ (Len(q) = 0 \/ q[Len(q)] \in Marks)
  BY DEF Extends
<1> HIDE DEF e
<1>3. Text!Statements(t) = Text!Statements(q) \cup {e}
  <2>1. ASSUME NEW i \in Text!Statements(t), i # e PROVE i \in Text!Statements(q)
    <3>1. i \in 1 .. e - 1 /\ t[i] \in Marks
      BY <1>1, <2>1
    <3> QED BY <1>1, <3>1
  <2>2. ASSUME NEW i \in Text!Statements(q) \cup {e} PROVE i \in Text!Statements(t)
    BY <1>1, <1>2
  <2> QED BY <2>1, <2>2
<1>4. \A i \in Text!Statements(q) : i \in 1 .. Len(q) /\ i < e
  BY <1>1
<1>5. Text!Words(t, e) = SubSeq(t, Len(q) + 1, e - 1)
  <2> DEFINE S == {0} \cup {i \in Text!Statements(t) : i < e}
  <2>1. S = {0} \cup Text!Statements(q)
    BY <1>1, <1>3, <1>4
  <2>2. S \subseteq Nat /\ Len(q) \in S /\ \A y \in S : y <= Len(q)
    <3> HIDE DEF S
    <3> QED BY <1>1, <1>2, <2>1
  <2>3. Text!Max(S) = Len(q)
    <3> HIDE DEF S
    <3> QED BY <2>2, MaxIs
  <2> QED BY <2>3 DEF Text!Words
<1>6. Text!Depth(t, e) = Text!Depth(q, Len(q) + 1)
  <2>1. ASSUME NEW m \in Marks PROVE Earlier(t, m, e) = Earlier(q, m, Len(q) + 1)
    <3>1. \A i \in 1 .. e - 1 : t[i] = m => i \in 1 .. Len(q) /\ q[i] = m
      BY <1>1
    <3>2. \A i \in 1 .. Len(q) : q[i] = m => i \in 1 .. e - 1 /\ t[i] = m
      BY <1>1
    <3>3. (Len(q) + 1) - 1 = Len(q)
      BY <1>1
    <3> QED BY <3>1, <3>2, <3>3 DEF Earlier
  <2> QED BY <2>1, DepthIs, TextOperators
<1>7. Text!Block(t, e) = Text!Max(Braces(q, Text!Depth(t, e) - 1))
  <2>1. \A j : j \in Text!Opened(t, e) <=> j \in Text!Statements(q) /\ q[j] = Text!LBrace
    <3>1. \A j : j \in Text!Opened(t, e) <=> j \in 1 .. e - 1 /\ t[j] = Text!LBrace
      BY OpenedAre
    <3>2. \A j \in 1 .. Len(q) : j \in 1 .. e - 1
      BY <1>1
    <3> QED BY <1>1, <3>1, <3>2, TextOperators
  <2>2. \A j \in Text!Statements(q) : Text!Depth(t, j) = Text!Depth(q, j)
    <3>1. \A j \in Text!Statements(q) : j \in 1 .. Len(q) + 1
      BY <1>1
    <3> QED BY <3>1, BeginningsStay DEF Extends
  <2>3. {j \in Text!Opened(t, e) : Text!Depth(t, j) = Text!Depth(t, e) - 1}
          = Braces(q, Text!Depth(t, e) - 1)
    BY <2>1, <2>2 DEF Braces
  <2> QED BY <2>3 DEF Text!Block
<1> QED BY <1>3, <1>4, <1>5, <1>6, <1>7 DEF e

\* What was there stays as it was.
LEMMA OthersStay ==
  ASSUME NEW q, NEW t, Extends(q, t), NEW i \in Text!Statements(q)
  PROVE  /\ t[i] = q[i] /\ Text!Depth(t, i) = Text!Depth(q, i)
         /\ Text!Words(t, i) = Text!Words(q, i) /\ Text!Block(t, i) = Text!Block(q, i)
<1>1. i \in 1 .. Len(q) /\ i \in 1 .. Len(q) + 1 /\ t[i] = q[i]
  BY ExtensionsAre
<1> QED BY <1>1, BeginningsStay DEF Extends

\* The new statement sets name in block b.
Sets(t, b, name) ==
  LET e == Len(t) IN
  t[e] = Text!Semicolon /\ Text!Depth(t, e) >= 1 /\ Text!Block(t, e) = b /\ Text!Words(t, e)[1] = name

LEMMA SayingGrows ==
  ASSUME NEW q, NEW t, Extends(q, t), NEW b, NEW name
  PROVE  /\ Text!Saying(q, b, name) \subseteq Text!Statements(q)
         /\ ~Sets(t, b, name) => Text!Saying(t, b, name) = Text!Saying(q, b, name)
         /\ Sets(t, b, name) => /\ Text!Saying(t, b, name) = Text!Saying(q, b, name) \cup {Len(t)}
                                /\ Text!Max(Text!Saying(t, b, name)) = Len(t)
<1>1. Text!Saying(q, b, name) \subseteq Text!Statements(q)
  BY DEF Text!Saying
<1>2. \A i \in Text!Statements(q) : i \in Text!Saying(t, b, name) <=> i \in Text!Saying(q, b, name)
  <2> SUFFICES ASSUME NEW i \in Text!Statements(q)
               PROVE  i \in Text!Saying(t, b, name) <=> i \in Text!Saying(q, b, name)
    OBVIOUS
  <2>1. i \in Text!Statements(t)
    BY OneStatementMore
  <2>2. /\ t[i] = q[i] /\ Text!Depth(t, i) = Text!Depth(q, i)
        /\ Text!Words(t, i) = Text!Words(q, i) /\ Text!Block(t, i) = Text!Block(q, i)
    BY OthersStay
  <2> QED BY <2>1, <2>2 DEF Text!Saying
<1>3. Len(t) \in Text!Saying(t, b, name) <=> Sets(t, b, name)
  BY OneStatementMore DEF Text!Saying, Sets
<1>4. Text!Saying(t, b, name) \subseteq Text!Statements(q) \cup {Len(t)}
  BY OneStatementMore DEF Text!Saying
<1>5. Len(t) \notin Text!Statements(q) /\ Len(t) \in Nat
  BY ExtensionsAre
<1>6. ~Sets(t, b, name) => Text!Saying(t, b, name) = Text!Saying(q, b, name)
  BY <1>1, <1>2, <1>3, <1>4
<1>7. ASSUME Sets(t, b, name)
      PROVE  /\ Text!Saying(t, b, name) = Text!Saying(q, b, name) \cup {Len(t)}
             /\ Text!Max(Text!Saying(t, b, name)) = Len(t)
  <2>1. Text!Saying(t, b, name) = Text!Saying(q, b, name) \cup {Len(t)}
    BY <1>1, <1>2, <1>3, <1>4, <1>7
  <2>2. \A i \in Text!Saying(t, b, name) : i \in Nat /\ i <= Len(t)
    BY <1>1, <1>5, <2>1, ExtensionsAre
  <2> QED BY <1>5, <2>1, <2>2, MaxIs
<1> QED BY <1>1, <1>6, <1>7

\* The greatest statement that says something is one that does.
LEMMA LastSaying ==
  ASSUME NEW q, File(q), NEW b, NEW name, Text!Saying(q, b, name) # {}
  PROVE  Text!Max(Text!Saying(q, b, name)) \in Text!Saying(q, b, name)
<1>1. Text!Saying(q, b, name) \subseteq Text!Statements(q)
  BY DEF Text!Saying
<1>2. Len(q) \in Nat /\ \A x \in Text!Statements(q) : x \in Nat /\ x <= Len(q)
  BY FilesAre
<1> QED BY <1>1, <1>2, MaxOf

LEMMA SaidAfter ==
  ASSUME NEW q, NEW t, Extends(q, t), NEW b, NEW name, NEW default
  PROVE  Text!Said(t, b, name, default) = IF Sets(t, b, name) THEN Text!Words(t, Len(t))[2]
                                          ELSE Text!Said(q, b, name, default)
<1>1. CASE Sets(t, b, name)
  <2>1. Text!Saying(t, b, name) # {} /\ Text!Max(Text!Saying(t, b, name)) = Len(t)
    BY <1>1, SayingGrows
  <2> QED BY <1>1, <2>1 DEF Text!Said
<1>2. CASE ~Sets(t, b, name)
  <2>1. Text!Saying(t, b, name) = Text!Saying(q, b, name)
    BY <1>2, SayingGrows
  <2>2. CASE Text!Saying(q, b, name) = {}
    BY <1>2, <2>1, <2>2 DEF Text!Said
  <2>3. CASE Text!Saying(q, b, name) # {}
    <3>1. Text!Max(Text!Saying(q, b, name)) \in Text!Statements(q)
      BY <2>3, LastSaying, SayingGrows DEF Extends
    <3>2. Text!Words(t, Text!Max(Text!Saying(q, b, name)))
            = Text!Words(q, Text!Max(Text!Saying(q, b, name)))
      BY <3>1, OthersStay
    <3> QED BY <1>2, <2>1, <2>3, <3>2 DEF Text!Said
  <2> QED BY <2>2, <2>3
<1> QED BY <1>1, <1>2

-----------------------------------------------------------------------------
(* Numbers in their order.                                                  *)

Below(S, i) == {j \in S : j < i}
Low(S, k) == {i \in S : Cardinality(Below(S, i)) < k}

LEMMA InOrderIs ==
  ASSUME NEW S
  PROVE  Text!InOrder(S) = [k \in 1 .. Cardinality(S) |-> Text!Max(Low(S, k))]
<1>1. \A k : {i \in S : Text!Cardinality({j \in S : j < i}) < k} = Low(S, k)
  BY TextOperators DEF Low, Below
<1> QED BY <1>1, TextOperators DEF Text!InOrder

LEMMA InOrderType ==
  ASSUME NEW S, S \subseteq Nat, IsFiniteSet(S), NEW n \in Nat, \A i \in S : i <= n
  PROVE  /\ Text!InOrder(S) \in Seq(S) /\ Len(Text!InOrder(S)) = Cardinality(S)
         /\ Cardinality(S) \in Nat
<1>1. Cardinality(S) \in Nat
  BY FS_CardinalityType
<1>2. ASSUME NEW k \in 1 .. Cardinality(S) PROVE Text!Max(Low(S, k)) \in S
  <2>1. S # {}
    BY <1>1, <1>2, FS_EmptySet
  <2>2. PICK x \in S : \A y \in S : x <= y
    BY <2>1, LeastElement
  <2>3. Below(S, x) = {}
    <3>1. \A y \in S : ~(y < x)
      BY <2>2
    <3> QED BY <3>1 DEF Below
  <2>4. Cardinality(Below(S, x)) < k
    BY <1>1, <1>2, <2>3, FS_EmptySet
  <2>5. x \in Low(S, k) /\ Low(S, k) \subseteq S
    BY <2>2, <2>4 DEF Low
  <2>6. Low(S, k) \subseteq Nat /\ Low(S, k) # {} /\ \A y \in Low(S, k) : y <= n
    BY <2>5
  <2> QED BY <2>5, <2>6, MaxOf
<1> DEFINE f == [k \in 1 .. Cardinality(S) |-> Text!Max(Low(S, k))]
<1>3. f \in [1 .. Cardinality(S) -> S]
  BY <1>2
<1>4. f \in Seq(S) /\ Len(f) = Cardinality(S)
  <2> HIDE DEF f
  <2> QED BY <1>1, <1>3
<1> QED BY <1>1, <1>4, InOrderIs

\* A greater one comes last.
LEMMA InOrderGrows ==
  ASSUME NEW S, S \subseteq Nat, IsFiniteSet(S), NEW e \in Nat, \A i \in S : i < e
  PROVE  Text!InOrder(S \cup {e}) = Append(Text!InOrder(S), e)
<1> DEFINE T == S \cup {e}
           n == Cardinality(S)
<1>1. /\ T \subseteq Nat /\ S \subseteq T /\ e \in T /\ e \notin S
      /\ \A i \in T : i <= e /\ (i = e \/ i \in S)
  OBVIOUS
<1>2. IsFiniteSet(T) /\ Cardinality(T) = n + 1 /\ n \in Nat
  BY <1>1, FS_AddElement, FS_CardinalityType
<1>3. /\ Text!InOrder(S) \in Seq(S) /\ Len(Text!InOrder(S)) = n
      /\ Text!InOrder(T) \in Seq(T) /\ Len(Text!InOrder(T)) = n + 1
  <2>1. \A i \in S : i <= e
    BY <1>1
  <2>2. Text!InOrder(S) \in Seq(S) /\ Len(Text!InOrder(S)) = n
    BY <2>1, InOrderType
  <2> HIDE DEF T
  <2> QED BY <1>1, <1>2, <2>2, InOrderType
<1> HIDE DEF T, n
<1>4. Below(T, e) = S /\ \A i \in S : Below(T, i) = Below(S, i)
  <2>1. \A j \in T : j < e <=> j \in S
    BY <1>1
  <2>2. \A i \in S : ~(e < i)
    BY <1>1
  <2>3. Below(T, e) = S
    BY <1>1, <2>1 DEF Below
  <2>4. \A i \in S : Below(T, i) = Below(S, i)
    BY <1>1, <2>2 DEF Below
  <2> QED BY <2>3, <2>4
<1>5. ASSUME NEW k \in 1 .. n PROVE Low(T, k) = Low(S, k)
  <2>1. ~(Cardinality(S) < k)
    BY <1>2 DEF n
  <2> QED BY <1>1, <1>4, <2>1 DEF Low
<1>6. Text!Max(Low(T, n + 1)) = e
  <2>1. e \in Low(T, n + 1)
    BY <1>1, <1>2, <1>4 DEF Low, n
  <2>2. Low(T, n + 1) \subseteq T
    BY DEF Low
  <2>3. Low(T, n + 1) \subseteq Nat /\ \A y \in Low(T, n + 1) : y <= e
    BY <1>1, <2>2
  <2> QED BY <2>1, <2>3, MaxIs
<1>7. /\ \A k \in 1 .. n + 1 : Text!InOrder(T)[k] = Text!Max(Low(T, k))
      /\ \A k \in 1 .. n : Text!InOrder(S)[k] = Text!Max(Low(S, k))
  BY <1>2, InOrderIs DEF n
<1> DEFINE a == Text!InOrder(S)
           b == Text!InOrder(T)
<1>8. a \in Seq(T) /\ b \in Seq(T) /\ Len(a) = n /\ Len(b) = n + 1
  <2>1. a \in Seq(S) /\ Len(a) = n /\ b \in Seq(T) /\ Len(b) = n + 1
    BY <1>3
  <2> HIDE DEF a, b
  <2>2. \A i \in 1 .. Len(a) : a[i] \in T
    <3>1. \A i \in 1 .. Len(a) : a[i] \in S
      BY <2>1
    <3> QED BY <1>1, <3>1
  <2>3. a \in Seq(T)
    BY <2>1, <2>2
  <2> QED BY <2>1, <2>3
<1>9. b[n + 1] = e /\ \A k \in 1 .. n : b[k] = a[k]
  BY <1>2, <1>5, <1>6, <1>7
<1> HIDE DEF a, b
<1>10. Append(a, e) \in Seq(T) /\ Len(Append(a, e)) = n + 1
  BY <1>1, <1>8
<1>11. \A k \in 1 .. n + 1 : Append(a, e)[k] = b[k]
  BY <1>2, <1>8, <1>9
<1>12. b = Append(a, e)
  BY <1>8, <1>10, <1>11, SeqEqual
<1> QED BY <1>12 DEF a, b, T

\* A sequence has each element of a set once.
Lists(s, S) ==
  /\ s \in Seq(S)
  /\ \A i, j \in DOMAIN s : i # j => s[i] # s[j]
  /\ \A x \in S : \E i \in DOMAIN s : s[i] = x

LEMMA NothingInOrder == Text!InOrder({}) = << >>
<1>1. Text!InOrder({}) \in Seq({}) /\ Len(Text!InOrder({})) = 0
  BY InOrderType, FS_EmptySet
<1> QED BY <1>1

LEMMA InOrderLists ==
  ASSUME NEW n \in Nat
  PROVE  \A S \in SUBSET (1 .. n) : Lists(Text!InOrder(S), S)
<1> DEFINE P == {k \in Nat : \A S \in SUBSET (1 .. k) : Lists(Text!InOrder(S), S)}
<1>1. 0 \in P
  <2>1. \A S \in SUBSET (1 .. 0) : S = {}
    OBVIOUS
  <2>2. << >> \in Seq({}) /\ DOMAIN << >> = {}
    OBVIOUS
  <2>3. Lists(<< >>, {})
    BY <2>2 DEF Lists
  <2>4. Lists(Text!InOrder({}), {})
    BY <2>3, NothingInOrder
  <2> QED BY <2>1, <2>4
<1>2. ASSUME NEW k \in Nat, k \in P PROVE k + 1 \in P
  <2> SUFFICES ASSUME NEW S \in SUBSET (1 .. k + 1) PROVE Lists(Text!InOrder(S), S)
    OBVIOUS
  <2>1. CASE k + 1 \notin S
    <3>1. S \in SUBSET (1 .. k)
      BY <2>1
    <3> QED BY <1>2, <3>1
  <2>2. CASE k + 1 \in S
    <3> DEFINE R == S \ {k + 1}
               r == Text!InOrder(R)
    <3>1. /\ R \in SUBSET (1 .. k) /\ S = R \cup {k + 1} /\ k + 1 \notin R
          /\ R \subseteq Nat /\ k + 1 \in Nat /\ \A i \in R : i < k + 1
      BY <2>2
    <3>2. IsFiniteSet(R)
      <4>1. IsFiniteSet(1 .. k)
        BY FS_Interval
      <4> HIDE DEF R
      <4> QED BY <3>1, <4>1, FS_Subset
    <3>3. Lists(r, R)
      BY <1>2, <3>1
    <3>4. Text!InOrder(S) = Append(r, k + 1)
      <4> HIDE DEF R
      <4> QED BY <3>1, <3>2, InOrderGrows
    <3> HIDE DEF r, R
    <3>5. /\ r \in Seq(R) /\ Len(r) \in Nat /\ DOMAIN r = 1 .. Len(r)
          /\ \A i \in 1 .. Len(r) : r[i] \in R
      BY <3>3 DEF Lists
    <3> DEFINE s == Append(r, k + 1)
    <3>6. r \in Seq(S)
      BY <3>1, <3>5
    <3>7. /\ s \in Seq(S) /\ DOMAIN s = 1 .. Len(r) + 1 /\ s[Len(r) + 1] = k + 1
          /\ \A i \in 1 .. Len(r) : s[i] = r[i]
      BY <2>2, <3>5, <3>6
    <3> HIDE DEF s
    <3>8. \A i, j \in DOMAIN s : i # j => s[i] # s[j]
      <4> SUFFICES ASSUME NEW i \in DOMAIN s, NEW j \in DOMAIN s, i # j PROVE s[i] # s[j]
        OBVIOUS
      <4>1. (i = Len(r) + 1 \/ i \in 1 .. Len(r)) /\ (j = Len(r) + 1 \/ j \in 1 .. Len(r))
        BY <3>5, <3>7
      <4> QED BY <3>1, <3>3, <3>5, <3>7, <4>1 DEF Lists
    <3>9. ASSUME NEW x \in S PROVE \E i \in DOMAIN s : s[i] = x
      <4>1. CASE x = k + 1
        BY <3>5, <3>7, <4>1
      <4>2. CASE x # k + 1
        <5>1. PICK i \in 1 .. Len(r) : r[i] = x
          BY <3>1, <3>3, <3>5, <4>2 DEF Lists
        <5>2. i \in DOMAIN s
          BY <3>5, <3>7
        <5> QED BY <3>7, <5>1, <5>2
      <4> QED BY <4>1, <4>2
    <3>10. Lists(s, S)
      BY <3>7, <3>8, <3>9 DEF Lists
    <3> QED BY <3>4, <3>10 DEF s
  <2> QED BY <2>1, <2>2
<1>3. n \in P
  <2> HIDE DEF P
  <2> QED BY <1>1, <1>2, SetInduction
<1> QED BY <1>3

-----------------------------------------------------------------------------
(* The parts of a block, after one statement more.                          *)

LEMMA WordsAreApart ==
  /\ None \notin Nat /\ None \notin Words /\ End \notin Words
  /\ \A w \in Words : w \notin Marks
  BY Zenon, WordsAssumption

\* The numbers a port may be are the same for both.
LEMMA SameNumbers ==
  ASSUME NEW w \in Words
  PROVE  /\ u16(w) # None <=> Text!IsU16(w)
         /\ Text!IsU16(w) => u16(w) = Spells[w].n
<1>1. None \notin U16
  BY WordsAreApart DEF U16
<1>2. Text!U16Max = U16Max
  BY SMT DEF Text!U16Max, U16Max
<1>3. Text!IsU16(w) <=> Spells[w].unit = "b" /\ Spells[w].n \in U16
  BY <1>2 DEF Text!IsU16, Text!IsNumber, U16
<1> QED BY <1>1, <1>3 DEF u16

LEMMA SameCodes == {Spells[w].n : w \in {v \in DOMAIN Spells : Text!IsU16(v)}} = Codes
<1>1. {v \in DOMAIN Spells : Text!IsU16(v)} = {v \in Words : u16(v) # None}
  BY SameNumbers DEF Words
<1> QED BY <1>1 DEF Codes

LEMMA LimitAfter ==
  ASSUME NEW q, NEW t, Extends(q, t), NEW b
  PROVE  Text!Limit(t, b) =
           IF Sets(t, b, "client_max_body_size") THEN Text!Size(Text!Words(t, Len(t))[2])
           ELSE Text!Limit(q, b)
<1>1. CASE Sets(t, b, "client_max_body_size")
  <2>1. Text!Saying(t, b, "client_max_body_size") # {}
    BY <1>1, SayingGrows
  <2> QED BY <1>1, <2>1, SaidAfter DEF Text!Limit
<1>2. CASE ~Sets(t, b, "client_max_body_size")
  <2>1. Text!Saying(t, b, "client_max_body_size") = Text!Saying(q, b, "client_max_body_size")
    BY <1>2, SayingGrows
  <2>2. Text!Said(t, b, "client_max_body_size", None)
          = Text!Said(q, b, "client_max_body_size", None)
    BY <1>2, SaidAfter
  <2> QED BY <1>2, <2>1, <2>2 DEF Text!Limit
<1> QED BY <1>1, <1>2

\* The statements that set the page of a status.
PagesFor(t, b, c) == {e \in Text!Saying(t, b, "error_page") : Spells[Text!Words(t, e)[2]].n = c}

LEMMA ErrorPagesAre ==
  ASSUME NEW t, NEW b
  PROVE  Text!ErrorPages(t, b)
           = [c \in Codes |-> IF PagesFor(t, b, c) = {} THEN None
                              ELSE Text!Words(t, Text!Max(PagesFor(t, b, c)))[3]]
  BY SameCodes DEF Text!ErrorPages, PagesFor

LEMMA ErrorPagesAfter ==
  ASSUME NEW q, NEW t, Extends(q, t), NEW b
  PROVE  LET ws == Text!Words(t, Len(t)) IN
         /\ ~Sets(t, b, "error_page") => Text!ErrorPages(t, b) = Text!ErrorPages(q, b)
         /\ Sets(t, b, "error_page") =>
              Text!ErrorPages(t, b) = [Text!ErrorPages(q, b) EXCEPT ![Spells[ws[2]].n] = ws[3]]
<1> DEFINE ws == Text!Words(t, Len(t))
           k == Spells[ws[2]].n
           Page(r, c) == IF PagesFor(r, b, c) = {} THEN None
                         ELSE Text!Words(r, Text!Max(PagesFor(r, b, c)))[3]
<1>1. /\ \A e \in Text!Saying(q, b, "error_page") : e \in Text!Statements(q)
      /\ \A e \in Text!Statements(q) : e \in Nat /\ e <= Len(q) /\ e < Len(t)
      /\ Len(q) \in Nat /\ Len(t) \in Nat
  BY SayingGrows, ExtensionsAre
<1>2. \A c : PagesFor(q, b, c) \subseteq Text!Saying(q, b, "error_page")
  BY DEF PagesFor
<1>3. \A e \in Text!Statements(q) : Text!Words(t, e) = Text!Words(q, e)
  BY OthersStay
<1>4. ASSUME NEW c, PagesFor(t, b, c) = PagesFor(q, b, c) PROVE Page(t, c) = Page(q, c)
  <2>1. CASE PagesFor(q, b, c) = {}
    BY <1>4, <2>1
  <2>2. CASE PagesFor(q, b, c) # {}
    <3>1. /\ PagesFor(q, b, c) \subseteq Nat
          /\ \A e \in PagesFor(q, b, c) : e <= Len(q) /\ e \in Text!Statements(q)
      BY <1>1, <1>2
    <3>2. Text!Max(PagesFor(q, b, c)) \in Text!Statements(q)
      BY <1>1, <2>2, <3>1, MaxOf
    <3> QED BY <1>3, <1>4, <2>2, <3>2
  <2> QED BY <2>1, <2>2
<1>5. ASSUME ~Sets(t, b, "error_page")
      PROVE  Text!ErrorPages(t, b) = Text!ErrorPages(q, b)
  <2>1. Text!Saying(t, b, "error_page") = Text!Saying(q, b, "error_page")
    BY <1>5, SayingGrows
  <2>2. \A c : PagesFor(t, b, c) = PagesFor(q, b, c)
    BY <1>1, <1>3, <2>1 DEF PagesFor
  <2>3. \A c \in Codes : Page(t, c) = Page(q, c)
    BY <1>4, <2>2
  <2> HIDE DEF Page
  <2>4. [c \in Codes |-> Page(t, c)] = [c \in Codes |-> Page(q, c)]
    BY <2>3
  <2> QED BY <2>4, ErrorPagesAre DEF Page
<1>6. ASSUME Sets(t, b, "error_page")
      PROVE  Text!ErrorPages(t, b) = [Text!ErrorPages(q, b) EXCEPT ![k] = ws[3]]
  <2>1. Text!Saying(t, b, "error_page") = Text!Saying(q, b, "error_page") \cup {Len(t)}
    BY <1>6, SayingGrows
  <2>2. \A c : PagesFor(t, b, c) = PagesFor(q, b, c) \cup (IF c = k THEN {Len(t)} ELSE {})
    BY <1>1, <1>3, <2>1 DEF PagesFor
  <2>3. ASSUME NEW c \in Codes, c # k PROVE Page(t, c) = Page(q, c)
    <3>1. PagesFor(t, b, c) = PagesFor(q, b, c)
      BY <2>2, <2>3
    <3> QED BY <1>4, <3>1
  <2>4. Page(t, k) = ws[3]
    <3>1. PagesFor(t, b, k) = PagesFor(q, b, k) \cup {Len(t)}
      BY <2>2
    <3>2. /\ PagesFor(t, b, k) \subseteq Nat /\ Len(t) \in PagesFor(t, b, k)
          /\ \A e \in PagesFor(t, b, k) : e <= Len(t)
      BY <1>1, <1>2, <3>1
    <3>3. Text!Max(PagesFor(t, b, k)) = Len(t)
      BY <3>2, MaxIs
    <3> QED BY <3>2, <3>3
  <2> HIDE DEF Page, k
  <2>5. [c \in Codes |-> Page(t, c)] = [[c \in Codes |-> Page(q, c)] EXCEPT ![k] = ws[3]]
    BY <2>3, <2>4
  <2> QED BY <2>5, ErrorPagesAre DEF Page
<1> QED BY <1>5, <1>6

\* The values of a directive that may come several times.
LEMMA MethodsAfter ==
  ASSUME NEW q, NEW t, Extends(q, t), NEW b
  PROVE  /\ ~Sets(t, b, "methods") => Text!Methods(t, b) = Text!Methods(q, b)
         /\ Sets(t, b, "methods") =>
              Text!Methods(t, b) = Text!Methods(q, b) \cup ToSet(Tail(Text!Words(t, Len(t))))
<1> DEFINE Listed(r, e) == Text!ToSet(Tail(Text!Words(r, e)))
<1>1. \A e \in Text!Saying(q, b, "methods") : Listed(t, e) = Listed(q, e)
  BY SayingGrows, OthersStay
<1>2. \A s : Text!ToSet(s) = ToSet(s)
  BY DEF Text!ToSet, ToSet
<1>3. /\ Text!Methods(t, b) = UNION {Listed(t, e) : e \in Text!Saying(t, b, "methods")}
      /\ Text!Methods(q, b) = UNION {Listed(q, e) : e \in Text!Saying(q, b, "methods")}
  BY DEF Text!Methods
<1>4. Listed(t, Len(t)) = ToSet(Tail(Text!Words(t, Len(t))))
  BY <1>2
<1> HIDE DEF Listed
<1>5. ASSUME ~Sets(t, b, "methods") PROVE Text!Methods(t, b) = Text!Methods(q, b)
  <2>1. Text!Saying(t, b, "methods") = Text!Saying(q, b, "methods")
    BY <1>5, SayingGrows
  <2> QED BY <1>1, <1>3, <2>1
<1>6. ASSUME Sets(t, b, "methods")
      PROVE  Text!Methods(t, b) = Text!Methods(q, b) \cup Listed(t, Len(t))
  <2>1. Text!Saying(t, b, "methods") = Text!Saying(q, b, "methods") \cup {Len(t)}
    BY <1>6, SayingGrows
  <2> QED BY <1>1, <1>3, <2>1
<1> QED BY <1>4, <1>5, <1>6

CgiOf(ws) ==
  [extension |-> ws[2],
   interpreter |-> IF Len(ws) = 3 THEN ws[3] ELSE DefaultInterpreter(ws[2])]

LEMMA CgiAfter ==
  ASSUME NEW q, NEW t, Extends(q, t), NEW b
  PROVE  Text!Cgi(t, b) = IF Sets(t, b, "cgi") THEN CgiOf(Text!Words(t, Len(t)))
                          ELSE Text!Cgi(q, b)
<1>1. \A r : Text!Cgi(r, b) = IF Text!Saying(r, b, "cgi") = {} THEN None
                              ELSE CgiOf(Text!Words(r, Text!Max(Text!Saying(r, b, "cgi"))))
  BY DEF Text!Cgi, CgiOf, DefaultInterpreter
<1>2. CASE Sets(t, b, "cgi")
  <2>1. Text!Saying(t, b, "cgi") # {} /\ Text!Max(Text!Saying(t, b, "cgi")) = Len(t)
    BY <1>2, SayingGrows
  <2> QED BY <1>1, <1>2, <2>1
<1>3. CASE ~Sets(t, b, "cgi")
  <2>1. Text!Saying(t, b, "cgi") = Text!Saying(q, b, "cgi")
    BY <1>3, SayingGrows
  <2>2. CASE Text!Saying(q, b, "cgi") = {}
    BY <1>1, <1>3, <2>1, <2>2
  <2>3. CASE Text!Saying(q, b, "cgi") # {}
    <3>1. Text!Max(Text!Saying(q, b, "cgi")) \in Text!Statements(q)
      BY <2>3, LastSaying, SayingGrows DEF Extends
    <3>2. Text!Words(t, Text!Max(Text!Saying(q, b, "cgi")))
            = Text!Words(q, Text!Max(Text!Saying(q, b, "cgi")))
      BY <3>1, OthersStay
    <3> QED BY <1>1, <1>3, <2>1, <2>3, <3>2
  <2> QED BY <2>2, <2>3
<1> QED BY <1>2, <1>3

-----------------------------------------------------------------------------
(* The blocks a statement leaves alone.                                     *)

\* The brace of the block around a statement is before it, one level up.
LEMMA BlocksAreBefore ==
  ASSUME NEW t, NEW i \in Nat \ {0}, Text!Depth(t, i) >= 1
  PROVE  /\ Text!Block(t, i) \in 1 .. i - 1 /\ t[Text!Block(t, i)] = Text!LBrace
         /\ Text!Depth(t, Text!Block(t, i)) = Text!Depth(t, i) - 1
<1> DEFINE d == Text!Depth(t, i) - 1
           S == {j \in Text!Opened(t, i) : Text!Depth(t, j) = d}
<1>1. d \in Int /\ Text!Depth(t, 1) <= d /\ Text!Depth(t, i) > d
  BY DepthType, DepthAtStart
<1>0. 1 \in Nat \ {0} /\ i \in Nat /\ 1 <= i
  OBVIOUS
<1>2. \E j \in 1 .. i - 1 : t[j] = Text!LBrace /\ Text!Depth(t, j) = d
  <2> HIDE DEF d, S
  <2>1. PICK j \in Nat : 1 <= j /\ j < i /\ t[j] = Text!LBrace /\ Text!Depth(t, j) = d
    BY <1>0, <1>1, DepthIsCrossed
  <2>2. 1 <= j /\ j < i
    BY <2>1
  <2>3. j \in 1 .. i - 1
    BY <1>0, <2>2
  <2> QED BY <2>1, <2>3
<1>3. \A j : j \in S <=> j \in 1 .. i - 1 /\ t[j] = Text!LBrace /\ Text!Depth(t, j) = d
  BY OpenedAre
<1>4. Text!Block(t, i) = Text!Max(S)
  BY DEF Text!Block
<1> HIDE DEF S, d
<1>5. S \subseteq Nat /\ S # {} /\ \A x \in S : x <= i
  <2>1. \A j \in 1 .. i - 1 : j \in Nat /\ j <= i
    OBVIOUS
  <2> QED BY <1>2, <1>3, <2>1
<1>6. Text!Max(S) \in S
  BY <1>5, MaxOf
<1> QED BY <1>3, <1>4, <1>6 DEF d

\* The statement that ends t is no directive of block b.
Silent(t, b) ==
  LET e == Len(t) IN t[e] = Text!Semicolon /\ Text!Depth(t, e) >= 1 => Text!Block(t, e) # b

LEMMA SilentSetsNothing ==
  ASSUME NEW t, NEW b, Silent(t, b)
  PROVE  \A name : ~Sets(t, b, name)
  BY DEF Silent, Sets

LEMMA LocationStays ==
  ASSUME NEW q, NEW t, Extends(q, t), NEW l \in Text!Statements(q), Silent(t, l)
  PROVE  Text!LocationSaid(t, l) = Text!LocationSaid(q, l)
<1>1. \A name : ~Sets(t, l, name)
  BY SilentSetsNothing
<1>2. \A name, default : Text!Said(t, l, name, default) = Text!Said(q, l, name, default)
  BY <1>1, SaidAfter
<1>3. /\ Text!Methods(t, l) = Text!Methods(q, l) /\ Text!Cgi(t, l) = Text!Cgi(q, l)
      /\ Text!Words(t, l) = Text!Words(q, l)
  BY <1>1, MethodsAfter, CgiAfter, OthersStay
<1> QED BY <1>2, <1>3 DEF Text!LocationSaid

\* A server block as the parser has it when its locations L have been closed.
LocationsRead(q, L) ==
  LET locs == Text!InOrder(L) IN [i \in DOMAIN locs |-> Text!LocationSaid(q, locs[i])]

PortRead(q, b) == IF Text!Saying(q, b, "port") = {} THEN None ELSE Text!Key(q, b)[2]

ServerRead(q, b, L) ==
  [host |-> Text!Said(q, b, "host", None), port |-> PortRead(q, b),
   server_name |-> Text!Said(q, b, "server_name", None),
   client_max_body_size |-> Text!Limit(q, b) % Usize,
   error_pages |-> Text!ErrorPages(q, b), locations |-> LocationsRead(q, L)]

\* What the parser has of a block is what the text says once the port is there.
LEMMA ServerIsRead ==
  ASSUME NEW q, NEW b, Text!Saying(q, b, "port") # {}
  PROVE  Text!ServerSaid(q, b) = ServerRead(q, b, Text!Locations(q, b))
  BY DEF Text!ServerSaid, ServerRead, PortRead, LocationsRead

\* The elements of a finite set in their order are its elements.
LEMMA InOrderHas ==
  ASSUME NEW S, NEW n \in Nat, S \subseteq 1 .. n
  PROVE  /\ Lists(Text!InOrder(S), S)
         /\ \A i \in DOMAIN Text!InOrder(S) : Text!InOrder(S)[i] \in S
         /\ Len(Text!InOrder(S)) \in Nat /\ DOMAIN Text!InOrder(S) = 1 .. Len(Text!InOrder(S))
<1>1. Lists(Text!InOrder(S), S)
  BY InOrderLists
<1> DEFINE s == Text!InOrder(S)
<1>2. s \in Seq(S)
  BY <1>1 DEF Lists
<1> HIDE DEF s
<1>3. /\ \A i \in DOMAIN s : s[i] \in S
      /\ Len(s) \in Nat /\ DOMAIN s = 1 .. Len(s)
  BY <1>2
<1> QED BY <1>1, <1>3 DEF s

LEMMA LocationsStay ==
  ASSUME NEW q, NEW t, Extends(q, t), NEW L, L \subseteq Text!Statements(q),
         \A l \in L : Silent(t, l)
  PROVE  LocationsRead(t, L) = LocationsRead(q, L)
<1>1. L \subseteq 1 .. Len(q) /\ Len(q) \in Nat
  BY ExtensionsAre
<1>2. \A i \in DOMAIN Text!InOrder(L) : Text!InOrder(L)[i] \in L
  BY <1>1, InOrderHas
<1>3. \A l \in L : Text!LocationSaid(t, l) = Text!LocationSaid(q, l)
  BY LocationStays
<1> QED BY <1>2, <1>3 DEF LocationsRead

LEMMA ServerStays ==
  ASSUME NEW q, NEW t, Extends(q, t), NEW L, L \subseteq Text!Statements(q),
         NEW b, Silent(t, b), \A l \in L : Silent(t, l)
  PROVE  /\ ServerRead(t, b, L) = ServerRead(q, b, L)
         /\ \A name : Text!Saying(t, b, name) = Text!Saying(q, b, name)
         /\ Text!Key(t, b) = Text!Key(q, b)
<1>1. \A name : ~Sets(t, b, name)
  BY SilentSetsNothing
<1>2. /\ \A name, default : Text!Said(t, b, name, default) = Text!Said(q, b, name, default)
      /\ \A name : Text!Saying(t, b, name) = Text!Saying(q, b, name)
  BY <1>1, SaidAfter, SayingGrows
<1>3. /\ Text!Limit(t, b) = Text!Limit(q, b) /\ Text!ErrorPages(t, b) = Text!ErrorPages(q, b)
      /\ LocationsRead(t, L) = LocationsRead(q, L)
  BY <1>1, LimitAfter, ErrorPagesAfter, LocationsStay
<1>4. Text!Key(t, b) = Text!Key(q, b)
  BY <1>2 DEF Text!Key
<1>5. PortRead(t, b) = PortRead(q, b)
  BY <1>2, <1>4 DEF PortRead
<1> QED BY <1>2, <1>3, <1>4, <1>5 DEF ServerRead

\* A brace more at its depth.
LEMMA BracesGrow ==
  ASSUME NEW q, NEW t, Extends(q, t), NEW d
  PROVE  IF Mark(t) = Text!LBrace /\ Text!Depth(t, Len(t)) = d
         THEN Braces(t, d) = Braces(q, d) \cup {Len(t)}
         ELSE Braces(t, d) = Braces(q, d)
<1>1. /\ Text!Statements(t) = Text!Statements(q) \cup {Len(t)}
      /\ \A i \in Text!Statements(q) : t[i] = q[i] /\ Text!Depth(t, i) = Text!Depth(q, i)
  BY OneStatementMore, OthersStay
<1> QED BY <1>1 DEF Braces, Mark

LEMMA LocationsGrow ==
  ASSUME NEW q, NEW t, Extends(q, t), NEW b
  PROVE  IF Mark(t) = Text!LBrace /\ Text!Depth(t, Len(t)) = 1 /\ Text!Block(t, Len(t)) = b
         THEN Text!Locations(t, b) = Text!Locations(q, b) \cup {Len(t)}
         ELSE Text!Locations(t, b) = Text!Locations(q, b)
<1>1. /\ Text!Statements(t) = Text!Statements(q) \cup {Len(t)}
      /\ \A i \in Text!Statements(q) : /\ t[i] = q[i] /\ Text!Depth(t, i) = Text!Depth(q, i)
                                       /\ Text!Block(t, i) = Text!Block(q, i)
  BY OneStatementMore, OthersStay
<1> QED BY <1>1 DEF Text!Locations, Mark

-----------------------------------------------------------------------------
(* What the parser knows of the part it has read.                           *)

ServerBrace(q) == Text!Max(Braces(q, 0))
LocationBrace(q) == Text!Max(Braces(q, 1))

\* A part of a file that ends where a statement does, and in which all fit.
Part(q) ==
  /\ File(q) /\ (Len(q) = 0 \/ q[Len(q)] \in Marks)
  /\ \A e \in Text!Statements(q) : Text!Fits(q, e)

Complete(q, b) == Text!Saying(q, b, "host") # {} /\ Text!Saying(q, b, "port") # {}

\* The blocks S are closed, and ss is what they say.
ServersRead(q, S, ss) ==
  /\ LET bs == Text!InOrder(S) IN ss = [i \in DOMAIN bs |-> Text!ServerSaid(q, bs[i])]
  /\ \A b \in S : Complete(q, b)

BetweenServers(q, ss) ==
  /\ Text!Depth(q, Len(q) + 1) = 0
  /\ Len(q) # 0 => Braces(q, 0) # {}
  /\ ServersRead(q, Braces(q, 0), ss)

InServer(q, ss) ==
  Braces(q, 0) # {} /\ ServersRead(q, Braces(q, 0) \ {ServerBrace(q)}, ss)

BetweenLocations(q, ss, s) ==
  /\ Text!Depth(q, Len(q) + 1) = 1
  /\ InServer(q, ss)
  /\ s = ServerRead(q, ServerBrace(q), Text!Locations(q, ServerBrace(q)))

InLocation(q, ss, s, l) ==
  LET sb == ServerBrace(q)  lb == LocationBrace(q) IN
  /\ Text!Depth(q, Len(q) + 1) = 2
  /\ InServer(q, ss)
  /\ Braces(q, 1) # {} /\ Text!Block(q, lb) = sb
  /\ s = ServerRead(q, sb, Text!Locations(q, sb) \ {lb})
  /\ l = Text!LocationSaid(q, lb)

\* The parser has read q, runs the loop blk and has built ss, s and l.
HasRead(q, blk, ss, s, l) ==
  /\ Part(q)
  /\ blk = "top" => BetweenServers(q, ss)
  /\ blk = "server" => BetweenLocations(q, ss, s)
  /\ blk = "location" => InLocation(q, ss, s, l)

\* The part of the file in front of pos.
Read == SubSeq(tokens, 1, pos - 1)

\* After every iteration the parser has built what the part it has read says.
KeepsUp == tokens \in Texts /\ HasRead(Read, block, servers, server, location)

LEMMA PartGrows ==
  ASSUME NEW q, NEW t, Extends(q, t), Part(q), Text!Fits(t, Len(t))
  PROVE  Part(t)
<1>1. \A e \in Text!Statements(q) :
        /\ t[e] = q[e] /\ Text!Depth(t, e) = Text!Depth(q, e)
        /\ Text!Words(t, e) = Text!Words(q, e)
  BY OthersStay
<1>2. \A e \in Text!Statements(q) : Text!Fits(t, e) <=> Text!Fits(q, e)
  <2> TAKE e \in Text!Statements(q)
  <2> QED BY <1>1 DEF Text!Fits
<1>3. \A e \in Text!Statements(t) : Text!Fits(t, e)
  BY <1>2, OneStatementMore DEF Part
<1>4. File(t) /\ t[Len(t)] \in Marks
  BY DEF Extends
<1> QED BY <1>3, <1>4 DEF Part

LEMMA DepthAfter ==
  ASSUME NEW q, NEW t, Extends(q, t)
  PROVE  LET e == Len(t) IN
         /\ Mark(t) = Text!LBrace => Text!Depth(t, e + 1) = Text!Depth(t, e) + 1
         /\ Mark(t) = Text!RBrace => Text!Depth(t, e + 1) = Text!Depth(t, e) - 1
         /\ Mark(t) = Text!Semicolon => Text!Depth(t, e + 1) = Text!Depth(t, e)
<1>1. Len(t) \in Nat \ {0}
  BY ExtensionsAre
<1> QED BY <1>1, DepthBehind, MarksAre DEF Mark

\* The braces of a part, and the newest of them.
LEMMA BracesAre ==
  ASSUME NEW q, File(q), NEW d
  PROVE  /\ Len(q) \in Nat /\ Text!Statements(q) \subseteq 1 .. Len(q)
         /\ Braces(q, d) \subseteq Text!Statements(q)
         /\ \A j \in Braces(q, d) : q[j] = Text!LBrace /\ Text!Depth(q, j) = d
         /\ Braces(q, d) # {} =>
              /\ Text!Max(Braces(q, d)) \in Braces(q, d)
              /\ \A j \in Braces(q, d) : j <= Text!Max(Braces(q, d))
<1>1. Len(q) \in Nat /\ \A j \in Text!Statements(q) : j \in 1 .. Len(q)
  BY FilesAre
<1>2. /\ Braces(q, d) \subseteq Text!Statements(q)
      /\ \A j \in Braces(q, d) : q[j] = Text!LBrace /\ Text!Depth(q, j) = d
  BY DEF Braces
<1>3. Braces(q, d) \subseteq Nat /\ \A j \in Braces(q, d) : j <= Len(q)
  <2>1. \A j \in 1 .. Len(q) : j \in Nat /\ j <= Len(q)
    BY <1>1
  <2> QED BY <1>1, <1>2, <2>1
<1>4. Braces(q, d) # {} => /\ Text!Max(Braces(q, d)) \in Braces(q, d)
                           /\ \A j \in Braces(q, d) : j <= Text!Max(Braces(q, d))
  BY <1>1, <1>3, MaxOf
<1> QED BY <1>1, <1>2, <1>4

\* The locations of a block are braces one level down.
LEMMA LocationsAre ==
  ASSUME NEW q, NEW b
  PROVE  \A l : l \in Text!Locations(q, b) <=> l \in Braces(q, 1) /\ Text!Block(q, l) = b
  BY DEF Text!Locations, Braces

\* The statement that ends t says nothing of the server block b.
LeftAlone(q, t, b) ==
  /\ Silent(t, b) /\ Text!Locations(t, b) = Text!Locations(q, b)
  /\ \A l \in Text!Locations(q, b) : Silent(t, l)

LEMMA ClosedIsUntouched ==
  ASSUME NEW q, NEW t, Extends(q, t), NEW b \in Braces(q, 0),
         \/ Text!Depth(t, Len(t)) = 0
         \/ Text!Depth(t, Len(t)) = 1 /\ b # ServerBrace(q)
         \/ /\ Text!Depth(t, Len(t)) = 2 /\ b # ServerBrace(q)
            /\ Braces(q, 1) # {} /\ Text!Block(q, LocationBrace(q)) = ServerBrace(q)
  PROVE  LeftAlone(q, t, b)
<1> DEFINE d == Text!Depth(t, Len(t))
           o == Text!Block(t, Len(t))
<1>1. o = Text!Max(Braces(q, d - 1))
  BY OneStatementMore
<1>2. /\ Text!Depth(q, b) = 0
      /\ \A l \in Text!Locations(q, b) : Text!Depth(q, l) = 1 /\ Text!Block(q, l) = b
  BY LocationsAre DEF Braces
<1>3. File(q)
  BY DEF Extends
<1>4. \A c : Silent(t, c) <=> (Mark(t) = Text!Semicolon /\ d >= 1 => o # c)
  BY DEF Silent, Mark
<1>5. ~(d = 1 /\ o = b) => Text!Locations(t, b) = Text!Locations(q, b)
  BY LocationsGrow
<1> HIDE DEF d, o
<1>6. CASE d = 0
  BY <1>4, <1>5, <1>6 DEF LeftAlone
<1>7. CASE d = 1 /\ b # ServerBrace(q)
  <2>1. o = ServerBrace(q)
    BY <1>1, <1>7 DEF ServerBrace
  <2>2. Text!Depth(q, o) = 0
    BY <1>3, <2>1, BracesAre DEF ServerBrace
  <2>3. o # b /\ \A l \in Text!Locations(q, b) : o # l
    BY <1>2, <1>7, <2>1, <2>2
  <2> QED BY <1>4, <1>5, <2>3 DEF LeftAlone
<1>8. CASE /\ d = 2 /\ b # ServerBrace(q)
           /\ Braces(q, 1) # {} /\ Text!Block(q, LocationBrace(q)) = ServerBrace(q)
  <2>1. o = LocationBrace(q)
    <3>1. d - 1 = 1
      BY <1>8
    <3> QED BY <1>1, <3>1 DEF LocationBrace
  <2>2. Text!Depth(q, o) = 1 /\ Text!Block(q, o) # b
    <3>0. Text!Max(Braces(q, 1)) \in Braces(q, 1)
      BY <1>3, <1>8, BracesAre
    <3>1. Text!Depth(q, LocationBrace(q)) = 1
      BY <3>0 DEF LocationBrace, Braces
    <3> QED BY <1>8, <2>1, <3>1
  <2>3. o # b /\ \A l \in Text!Locations(q, b) : o # l
    BY <1>2, <2>2
  <2> QED BY <1>4, <1>5, <1>8, <2>3 DEF LeftAlone
<1> QED BY <1>6, <1>7, <1>8 DEF d

LEMMA ServersStay ==
  ASSUME NEW q, NEW t, Extends(q, t), NEW S, S \subseteq Text!Statements(q),
         \A b \in S : LeftAlone(q, t, b), NEW ss, ServersRead(q, S, ss)
  PROVE  ServersRead(t, S, ss)
<1>1. ASSUME NEW b \in S
      PROVE  /\ Text!ServerSaid(t, b) = Text!ServerSaid(q, b)
             /\ Complete(t, b)
  <2>1. LeftAlone(q, t, b)
    OBVIOUS
  <2>2. Text!Locations(q, b) \subseteq Text!Statements(q)
    BY DEF Text!Locations
  <2>3. /\ ServerRead(t, b, Text!Locations(q, b)) = ServerRead(q, b, Text!Locations(q, b))
        /\ \A name : Text!Saying(t, b, name) = Text!Saying(q, b, name)
    BY <2>1, <2>2, ServerStays DEF LeftAlone
  <2>4. Complete(q, b) /\ Complete(t, b)
    BY <2>3 DEF ServersRead, Complete
  <2>5. /\ Text!ServerSaid(t, b) = ServerRead(t, b, Text!Locations(t, b))
        /\ Text!ServerSaid(q, b) = ServerRead(q, b, Text!Locations(q, b))
    BY <2>4, ServerIsRead DEF Complete
  <2> QED BY <2>1, <2>3, <2>4, <2>5 DEF LeftAlone
<1>2. \A i \in DOMAIN Text!InOrder(S) : Text!InOrder(S)[i] \in S
  <2>1. S \subseteq 1 .. Len(q) /\ Len(q) \in Nat
    BY ExtensionsAre
  <2> QED BY <2>1, InOrderHas
<1> QED BY <1>1, <1>2 DEF ServersRead

LEMMA WiderSequences ==
  ASSUME NEW S, NEW X, S \subseteq X, NEW a \in Seq(S) PROVE a \in Seq(X)
<1>1. \A i \in 1 .. Len(a) : a[i] \in X
  OBVIOUS
<1> QED BY <1>1

\* A list of values, and one more at its end.
LEMMA MapAppend ==
  ASSUME NEW X, NEW a \in Seq(X), NEW x \in X, NEW f
  PROVE  [i \in DOMAIN Append(a, x) |-> f[Append(a, x)[i]]]
           = Append([i \in DOMAIN a |-> f[a[i]]], f[x])
<1> DEFINE n == Len(a)
           b == Append(a, x)
           g == [i \in DOMAIN a |-> f[a[i]]]
           h == [i \in DOMAIN b |-> f[b[i]]]
           Y == {f[y] : y \in X}
<1>1. /\ n \in Nat /\ DOMAIN a = 1 .. n /\ DOMAIN b = 1 .. n + 1 /\ b[n + 1] = x
      /\ \A i \in 1 .. n : b[i] = a[i] /\ a[i] \in X
  OBVIOUS
<1>2. f[x] \in Y /\ \A i \in 1 .. n : f[a[i]] \in Y
  BY <1>1
<1>3. \A i \in 1 .. n + 1 : f[b[i]] \in Y
  BY <1>1, <1>2
<1>4. g \in [1 .. n -> Y] /\ h \in [1 .. n + 1 -> Y]
  BY <1>1, <1>2, <1>3
<1>5. (\A i \in 1 .. n : g[i] = f[a[i]]) /\ \A i \in 1 .. n + 1 : h[i] = f[b[i]]
  BY <1>1
<1> HIDE DEF n, b, g, h, Y
<1>6. g \in Seq(Y) /\ Len(g) = n /\ h \in Seq(Y) /\ Len(h) = n + 1
  BY <1>1, <1>4
<1>7. Append(g, f[x]) \in Seq(Y) /\ Len(Append(g, f[x])) = n + 1
  BY <1>2, <1>6
<1>8. \A i \in 1 .. n + 1 : Append(g, f[x])[i] = h[i]
  BY <1>1, <1>2, <1>5, <1>6
<1>9. h = Append(g, f[x])
  BY <1>6, <1>7, <1>8, SeqEqual
<1> QED BY <1>9 DEF b, g, h

LEMMA ServersGrow ==
  ASSUME NEW t, NEW n \in Nat, NEW S, S \subseteq 1 .. n, NEW b \in 1 .. n, \A i \in S : i < b,
         NEW ss, ServersRead(t, S, ss), Complete(t, b)
  PROVE  ServersRead(t, S \cup {b}, Append(ss, Text!ServerSaid(t, b)))
<1> DEFINE X == 1 .. n
           f == [c \in X |-> Text!ServerSaid(t, c)]
           a == Text!InOrder(S)
<1>1. IsFiniteSet(S) /\ S \subseteq Nat /\ b \in Nat
  <2>1. IsFiniteSet(1 .. n)
    BY FS_Interval
  <2>2. IsFiniteSet(S)
    BY <2>1, FS_Subset
  <2> QED BY <2>2
<1>2. Text!InOrder(S \cup {b}) = Append(a, b)
  BY <1>1, InOrderGrows
<1>3. a \in Seq(X) /\ \A i \in DOMAIN a : a[i] \in X
  <2>1. a \in Seq(S)
    BY InOrderHas DEF Lists
  <2>2. S \subseteq X
    OBVIOUS
  <2> HIDE DEF a, X
  <2>3. a \in Seq(X)
    BY <2>1, <2>2, WiderSequences
  <2> QED BY <2>3
<1>4. Append(a, b) \in Seq(X) /\ \A i \in DOMAIN Append(a, b) : Append(a, b)[i] \in X
  <2> HIDE DEF a
  <2> QED BY <1>3
<1>5. ss = [i \in DOMAIN a |-> f[a[i]]] /\ f[b] = Text!ServerSaid(t, b)
  BY <1>3 DEF ServersRead
<1>6. [i \in DOMAIN Append(a, b) |-> Text!ServerSaid(t, Append(a, b)[i])]
        = [i \in DOMAIN Append(a, b) |-> f[Append(a, b)[i]]]
  BY <1>4
<1> HIDE DEF a, f, X
<1>7. [i \in DOMAIN Append(a, b) |-> f[Append(a, b)[i]]] = Append(ss, f[b])
  <2>1. b \in X
    BY DEF X
  <2>2. [i \in DOMAIN Append(a, b) |-> f[Append(a, b)[i]]]
          = Append([i \in DOMAIN a |-> f[a[i]]], f[b])
    BY <1>3, <2>1, MapAppend
  <2> QED BY <1>5, <2>2
<1>8. \A c \in S \cup {b} : Complete(t, c)
  BY DEF ServersRead
<1> QED BY <1>2, <1>5, <1>6, <1>7, <1>8 DEF ServersRead

LEMMA LocationsReadGrow ==
  ASSUME NEW t, NEW n \in Nat, NEW S, S \subseteq 1 .. n, NEW b \in 1 .. n, \A i \in S : i < b
  PROVE  LocationsRead(t, S \cup {b}) = Append(LocationsRead(t, S), Text!LocationSaid(t, b))
<1> DEFINE X == 1 .. n
           f == [c \in X |-> Text!LocationSaid(t, c)]
           a == Text!InOrder(S)
<1>1. IsFiniteSet(S) /\ S \subseteq Nat /\ b \in Nat
  <2>1. IsFiniteSet(1 .. n)
    BY FS_Interval
  <2>2. IsFiniteSet(S)
    BY <2>1, FS_Subset
  <2> QED BY <2>2
<1>2. Text!InOrder(S \cup {b}) = Append(a, b)
  BY <1>1, InOrderGrows
<1>3. a \in Seq(X) /\ \A i \in DOMAIN a : a[i] \in X
  <2>1. a \in Seq(S)
    BY InOrderHas DEF Lists
  <2>2. S \subseteq X
    OBVIOUS
  <2> HIDE DEF a, X
  <2>3. a \in Seq(X)
    BY <2>1, <2>2, WiderSequences
  <2> QED BY <2>3
<1>4. Append(a, b) \in Seq(X) /\ \A i \in DOMAIN Append(a, b) : Append(a, b)[i] \in X
  <2> HIDE DEF a
  <2> QED BY <1>3
<1>5. LocationsRead(t, S) = [i \in DOMAIN a |-> f[a[i]]] /\ f[b] = Text!LocationSaid(t, b)
  BY <1>3 DEF LocationsRead
<1>6. LocationsRead(t, S \cup {b}) = [i \in DOMAIN Append(a, b) |-> f[Append(a, b)[i]]]
  BY <1>2, <1>4 DEF LocationsRead
<1> HIDE DEF a, f, X
<1>7. [i \in DOMAIN Append(a, b) |-> f[Append(a, b)[i]]] = Append(LocationsRead(t, S), f[b])
  <2>1. b \in X
    BY DEF X
  <2> QED BY <1>3, <1>5, <2>1, MapAppend
<1> QED BY <1>5, <1>6, <1>7

-----------------------------------------------------------------------------
(* A block begins and ends.                                                 *)

LEMMA NothingSaidYet ==
  ASSUME NEW q, NEW t, Extends(q, t)
  PROVE  (\A name : Text!Saying(t, Len(t), name) = {}) /\ Text!Locations(t, Len(t)) = {}
<1>1. ASSUME NEW i \in Text!Statements(t), Text!Depth(t, i) >= 1 PROVE Text!Block(t, i) # Len(t)
  <2>1. i \in 1 .. Len(t) /\ Len(t) \in Nat
    BY ExtensionsAre
  <2>2. i \in Nat \ {0} /\ i <= Len(t) /\ Len(t) \notin 1 .. i - 1
    BY <2>1
  <2>3. Text!Block(t, i) \in 1 .. i - 1
    BY <1>1, <2>2, BlocksAreBefore
  <2> QED BY <2>2, <2>3
<1>2. \A name : Text!Saying(t, Len(t), name) = {}
  BY <1>1 DEF Text!Saying
<1>3. Text!Locations(t, Len(t)) = {}
  <2>1. \A i \in Text!Statements(t) : Text!Depth(t, i) = 1 => Text!Block(t, i) # Len(t)
    BY <1>1
  <2> QED BY <2>1 DEF Text!Locations
<1> QED BY <1>2, <1>3

LEMMA EmptyServer ==
  ASSUME NEW t, NEW b, \A name : Text!Saying(t, b, name) = {}
  PROVE  ServerRead(t, b, {}) = NewServer
<1>1. \A name, default : Text!Said(t, b, name, default) = default
  BY DEF Text!Said
<1>2. PortRead(t, b) = None
  BY DEF PortRead
<1>3. Text!Limit(t, b) % Usize = 1024 * 1024
  <2>1. Text!Limit(t, b) = 1024 * 1024
    BY DEF Text!Limit
  <2>2. \A u \in Nat : 1024 * 1024 < u => (1024 * 1024) % u = 1024 * 1024
    OBVIOUS
  <2> QED BY <2>1, <2>2, SpellsAssumption
<1>4. Text!ErrorPages(t, b) = [c \in Codes |-> None]
  <2>1. \A c : PagesFor(t, b, c) = {}
    BY DEF PagesFor
  <2> QED BY <2>1, ErrorPagesAre
<1>5. LocationsRead(t, {}) = << >>
  BY NothingInOrder DEF LocationsRead
<1> QED BY <1>1, <1>2, <1>3, <1>4, <1>5 DEF ServerRead, NewServer

LEMMA EmptyLocation ==
  ASSUME NEW t, NEW b, \A name : Text!Saying(t, b, name) = {}
  PROVE  Text!LocationSaid(t, b) = NewLocation(Text!Words(t, b)[2])
<1>1. \A name, default : Text!Said(t, b, name, default) = default
  BY DEF Text!Said
<1>2. Text!Methods(t, b) = {} /\ Text!Cgi(t, b) = None
  BY DEF Text!Methods, Text!Cgi
<1>3. ("off" = "on") = FALSE /\ Text!Empty = Empty
  BY Zenon DEF Text!Empty, Empty
<1> QED BY <1>1, <1>2, <1>3 DEF Text!LocationSaid, NewLocation

\* A statement that is no directive is silent.
LEMMA BracesAreSilent ==
  ASSUME NEW t, Mark(t) \in {Text!LBrace, Text!RBrace} PROVE \A b : Silent(t, b)
  BY MarksAre DEF Silent, Mark

LEMMA OpenServer ==
  ASSUME NEW q, NEW t, Extends(q, t), Mark(t) = Text!LBrace, Text!Depth(t, Len(t)) = 0,
         NEW ss, BetweenServers(q, ss)
  PROVE  BetweenLocations(t, ss, NewServer)
<1> DEFINE e == Len(t)
           S == Braces(q, 0)
<1>1. /\ File(q) /\ File(t) /\ S \subseteq Text!Statements(q)
      /\ e \in Nat /\ \A i \in Text!Statements(q) : i \in Nat /\ i < e
  <2>1. File(q) /\ File(t)
    BY DEF Extends
  <2>2. e \in Nat /\ \A i \in Text!Statements(q) : i \in Nat /\ i < e
    BY ExtensionsAre
  <2> QED BY <2>1, <2>2, BracesAre
<1>2. Braces(t, 0) = S \cup {e}
  BY BracesGrow
<1>3. ServerBrace(t) = e /\ Braces(t, 0) # {} /\ Braces(t, 0) \ {e} = S
  <2>1. S \cup {e} \subseteq Nat /\ \A y \in S \cup {e} : y <= e
    BY <1>1
  <2>2. Text!Max(S \cup {e}) = e
    BY <2>1, MaxIs
  <2>3. e \notin S
    BY <1>1
  <2> QED BY <1>2, <2>2, <2>3 DEF ServerBrace
<1>4. ServersRead(t, S, ss)
  <2>1. \A b \in S : LeftAlone(q, t, b)
    BY ClosedIsUntouched
  <2> QED BY <1>1, <2>1, ServersStay DEF BetweenServers
<1>5. NewServer = ServerRead(t, e, Text!Locations(t, e))
  BY NothingSaidYet, EmptyServer
<1>6. Text!Depth(t, e + 1) = 1
  BY DepthAfter
<1> QED BY <1>3, <1>4, <1>5, <1>6 DEF BetweenLocations, InServer

\* Inside a server block the closed ones stay as they are.
LEMMA InServerStays ==
  ASSUME NEW q, NEW t, Extends(q, t), NEW ss, InServer(q, ss),
         \/ Text!Depth(t, Len(t)) = 1
         \/ /\ Text!Depth(t, Len(t)) = 2
            /\ Braces(q, 1) # {} /\ Text!Block(q, LocationBrace(q)) = ServerBrace(q)
  PROVE  /\ Braces(t, 0) = Braces(q, 0) /\ ServerBrace(t) = ServerBrace(q)
         /\ InServer(t, ss)
<1>1. Braces(t, 0) = Braces(q, 0)
  BY BracesGrow
<1>2. \A b \in Braces(q, 0) \ {ServerBrace(q)} : LeftAlone(q, t, b)
  BY ClosedIsUntouched
<1>3. Braces(q, 0) \subseteq Text!Statements(q)
  BY DEF Braces
<1>4. ServersRead(t, Braces(q, 0) \ {ServerBrace(q)}, ss)
  BY <1>2, <1>3, ServersStay DEF InServer
<1>5. ServerBrace(t) = ServerBrace(q)
  BY <1>1 DEF ServerBrace
<1> QED BY <1>1, <1>4, <1>5 DEF InServer

LEMMA CloseServer ==
  ASSUME NEW q, NEW t, Extends(q, t), Mark(t) = Text!RBrace, Text!Depth(t, Len(t)) = 1,
         NEW ss, NEW s, BetweenLocations(q, ss, s), Complete(q, ServerBrace(q))
  PROVE  BetweenServers(t, Append(ss, s))
<1> DEFINE sb == ServerBrace(q)
           L == Text!Locations(q, sb)
           S == Braces(q, 0) \ {sb}
<1>1. InServer(q, ss) /\ s = ServerRead(q, sb, L)
  BY DEF BetweenLocations
<1>2. /\ File(q) /\ Len(q) \in Nat /\ Braces(q, 0) \subseteq 1 .. Len(q)
      /\ sb \in Braces(q, 0) /\ \A j \in Braces(q, 0) : j <= sb
  <2>1. File(q) /\ Braces(q, 0) # {}
    BY <1>1 DEF Extends, InServer
  <2>2. /\ Len(q) \in Nat /\ Braces(q, 0) \subseteq 1 .. Len(q)
        /\ Text!Max(Braces(q, 0)) \in Braces(q, 0)
        /\ \A j \in Braces(q, 0) : j <= Text!Max(Braces(q, 0))
    BY <2>1, BracesAre
  <2> QED BY <2>1, <2>2 DEF ServerBrace
<1>3. Braces(t, 0) = Braces(q, 0) /\ ServerBrace(t) = sb /\ InServer(t, ss)
  BY <1>1, InServerStays
<1>4. Text!Locations(t, sb) = L
  BY LocationsGrow, MarksAre
<1>5. ServerRead(t, sb, L) = s /\ Complete(t, sb)
  <2>1. \A b : Silent(t, b)
    BY BracesAreSilent
  <2>2. L \subseteq Text!Statements(q)
    BY DEF Text!Locations
  <2> HIDE DEF L
  <2>3. /\ ServerRead(t, sb, L) = s
        /\ \A name : Text!Saying(t, sb, name) = Text!Saying(q, sb, name)
    BY <1>1, <2>1, <2>2, ServerStays
  <2> QED BY <2>3 DEF Complete
<1>7. Text!ServerSaid(t, sb) = s
  BY <1>4, <1>5, ServerIsRead DEF Complete
<1>8. ServersRead(t, S, ss)
  BY <1>3 DEF InServer
<1> HIDE DEF sb
<1>9. /\ S \subseteq 1 .. Len(q) /\ sb \in 1 .. Len(q) /\ Braces(q, 0) = S \cup {sb}
      /\ \A i \in S : i < sb
  <2>1. \A i \in S : i \in Braces(q, 0) /\ i # sb /\ i \in Nat /\ i <= sb
    BY <1>2
  <2>2. sb \in Nat
    BY <1>2
  <2>3. \A i \in S : i < sb
    <3>1. \A i, j \in Nat : i <= j /\ i # j => i < j
      OBVIOUS
    <3> QED BY <2>1, <2>2, <3>1
  <2> QED BY <1>2, <2>3
<1> HIDE DEF S
<1>10. ServersRead(t, S \cup {sb}, Append(ss, s))
  BY <1>2, <1>5, <1>7, <1>8, <1>9, ServersGrow
<1>11. Text!Depth(t, Len(t) + 1) = 0
  BY DepthAfter
<1> QED BY <1>2, <1>3, <1>9, <1>10, <1>11 DEF BetweenServers

LEMMA OpenLocation ==
  ASSUME NEW q, NEW t, Extends(q, t), Mark(t) = Text!LBrace, Text!Depth(t, Len(t)) = 1,
         NEW ss, NEW s, BetweenLocations(q, ss, s)
  PROVE  InLocation(t, ss, s, NewLocation(Text!Words(t, Len(t))[2]))
<1> DEFINE e == Len(t)
           sb == ServerBrace(q)
           L == Text!Locations(q, sb)
<1>1. InServer(q, ss) /\ s = ServerRead(q, sb, L)
  BY DEF BetweenLocations
<1>2. InServer(t, ss) /\ ServerBrace(t) = sb
  BY <1>1, InServerStays
<1>3. Text!Block(t, e) = sb
  <2>1. Text!Block(t, e) = Text!Max(Braces(q, Text!Depth(t, e) - 1))
    BY OneStatementMore
  <2> QED BY <2>1 DEF ServerBrace
<1>4. Braces(t, 1) = Braces(q, 1) \cup {e} /\ Text!Locations(t, sb) = L \cup {e}
  BY <1>3, BracesGrow, LocationsGrow
<1>5. e \in Nat /\ \A i \in Text!Statements(q) : i \in Nat /\ i < e
  BY ExtensionsAre
<1>6. L \subseteq Text!Statements(q) /\ Braces(q, 1) \subseteq Text!Statements(q)
  BY DEF Text!Locations, Braces
<1> HIDE DEF e, L
<1>7. Text!Max(Braces(t, 1)) = e
  <2>1. Braces(t, 1) \subseteq Nat /\ e \in Braces(t, 1) /\ \A y \in Braces(t, 1) : y <= e
    BY <1>4, <1>5, <1>6
  <2> QED BY <2>1, MaxIs
<1>8. LocationBrace(t) = e /\ Braces(t, 1) # {} /\ Text!Locations(t, sb) \ {e} = L
  <2>1. e \notin L
    BY <1>5, <1>6
  <2> QED BY <1>4, <1>7, <2>1 DEF LocationBrace
<1>9. ServerRead(t, sb, L) = s
  BY <1>1, <1>6, BracesAreSilent, ServerStays
<1>10. Text!LocationSaid(t, e) = NewLocation(Text!Words(t, e)[2])
  BY NothingSaidYet, EmptyLocation DEF e
<1>11. Text!Depth(t, e + 1) = 2
  BY DepthAfter DEF e
<1> QED BY <1>2, <1>3, <1>8, <1>9, <1>10, <1>11 DEF InLocation, e

\* Where the loop of the locations stands.
LEMMA InLocationIs ==
  ASSUME NEW q, NEW t, Extends(q, t), Text!Depth(t, Len(t)) = 2,
         NEW ss, NEW s, NEW l, InLocation(q, ss, s, l)
  PROVE  LET sb == ServerBrace(q)  lb == LocationBrace(q) IN
         /\ Text!Block(t, Len(t)) = lb /\ sb # lb
         /\ InServer(t, ss) /\ ServerBrace(t) = sb /\ Braces(t, 0) = Braces(q, 0)
         /\ Braces(t, 1) = Braces(q, 1) /\ LocationBrace(t) = lb
         /\ Text!Locations(t, sb) = Text!Locations(q, sb)
         /\ lb \in Text!Locations(q, sb) /\ Text!Block(t, lb) = sb
         /\ \A j \in Text!Locations(q, sb) : j <= lb
         /\ Text!Locations(q, sb) \subseteq 1 .. Len(q) /\ Len(q) \in Nat
         /\ Text!Locations(q, sb) \subseteq Text!Statements(q)
<1> DEFINE sb == ServerBrace(q)
           lb == LocationBrace(q)
           L == Text!Locations(q, sb)
<1>1. InServer(q, ss) /\ Braces(q, 1) # {} /\ Text!Block(q, lb) = sb /\ File(q)
  BY DEF InLocation, Extends
<1>2. InServer(t, ss) /\ ServerBrace(t) = sb /\ Braces(t, 0) = Braces(q, 0)
  BY <1>1, InServerStays
<1>3. Text!Block(t, Len(t)) = lb
  <2>1. Text!Block(t, Len(t)) = Text!Max(Braces(q, Text!Depth(t, Len(t)) - 1))
    BY OneStatementMore
  <2> QED BY <2>1 DEF LocationBrace
<1>4. Braces(t, 1) = Braces(q, 1) /\ Text!Locations(t, sb) = L
  BY BracesGrow, LocationsGrow
<1>5. LocationBrace(t) = lb
  BY <1>4 DEF LocationBrace
<1>6. /\ lb \in Braces(q, 1) /\ \A j \in Braces(q, 1) : j <= lb
      /\ Len(q) \in Nat /\ Text!Statements(q) \subseteq 1 .. Len(q)
      /\ Braces(q, 1) \subseteq Text!Statements(q)
      /\ Text!Depth(q, lb) = 1
  <2>1. /\ Text!Max(Braces(q, 1)) \in Braces(q, 1)
        /\ \A j \in Braces(q, 1) : j <= Text!Max(Braces(q, 1))
        /\ Len(q) \in Nat /\ Text!Statements(q) \subseteq 1 .. Len(q)
        /\ Braces(q, 1) \subseteq Text!Statements(q)
    BY <1>1, BracesAre
  <2>2. \A j \in Braces(q, 1) : Text!Depth(q, j) = 1
    BY DEF Braces
  <2> QED BY <2>1, <2>2 DEF LocationBrace
<1>7. \A j : j \in L <=> j \in Braces(q, 1) /\ Text!Block(q, j) = sb
  BY LocationsAre
<1>8. sb # lb
  <2>1. Text!Max(Braces(q, 0)) \in Braces(q, 0)
    BY <1>1, BracesAre DEF InServer
  <2>2. Text!Depth(q, sb) = 0
    BY <2>1 DEF ServerBrace, Braces
  <2> QED BY <1>6, <2>2
<1>9. Text!Block(t, lb) = sb
  BY <1>1, <1>6, OthersStay
<1>10. /\ lb \in L /\ \A j \in L : j <= lb
       /\ L \subseteq 1 .. Len(q) /\ L \subseteq Text!Statements(q)
  BY <1>1, <1>6, <1>7
<1> QED BY <1>2, <1>3, <1>4, <1>5, <1>6, <1>8, <1>9, <1>10

LEMMA CloseLocation ==
  ASSUME NEW q, NEW t, Extends(q, t), Mark(t) = Text!RBrace, Text!Depth(t, Len(t)) = 2,
         NEW ss, NEW s, NEW l, InLocation(q, ss, s, l)
  PROVE  BetweenLocations(t, ss, [s EXCEPT !.locations = Append(@, l)])
<1> DEFINE sb == ServerBrace(q)
           lb == LocationBrace(q)
           L == Text!Locations(q, sb)
           R == L \ {lb}
<1>1. s = ServerRead(q, sb, R) /\ l = Text!LocationSaid(q, lb)
  BY DEF InLocation
<1>2. /\ InServer(t, ss) /\ ServerBrace(t) = sb /\ Text!Locations(t, sb) = L
      /\ lb \in L /\ \A j \in L : j <= lb
      /\ L \subseteq 1 .. Len(q) /\ Len(q) \in Nat /\ L \subseteq Text!Statements(q)
  BY InLocationIs
<1>3. \A b : Silent(t, b)
  BY BracesAreSilent
<1> HIDE DEF sb, lb, L
<1>4. ServerRead(t, sb, R) = s /\ Text!LocationSaid(t, lb) = l
  <2>1. R \subseteq Text!Statements(q) /\ lb \in Text!Statements(q)
    BY <1>2
  <2> HIDE DEF R
  <2>2. ServerRead(t, sb, R) = s
    BY <1>1, <1>3, <2>1, ServerStays
  <2>3. Text!LocationSaid(t, lb) = l
    BY <1>1, <1>3, <2>1, LocationStays
  <2> QED BY <2>2, <2>3
<1>5. /\ R \subseteq 1 .. Len(q) /\ lb \in 1 .. Len(q) /\ L = R \cup {lb}
      /\ \A i \in R : i < lb
  <2>1. \A i \in R : i \in L /\ i # lb
    OBVIOUS
  <2>2. \A i \in L : i \in Nat
    BY <1>2
  <2>3. \A i, j \in Nat : i <= j /\ i # j => i < j
    OBVIOUS
  <2>4. \A i \in R : i < lb
    BY <1>2, <2>1, <2>2, <2>3
  <2> QED BY <1>2, <2>4
<1> HIDE DEF R
<1>6. LocationsRead(t, L) = Append(LocationsRead(t, R), l)
  BY <1>2, <1>4, <1>5, LocationsReadGrow
<1>7. [s EXCEPT !.locations = Append(@, l)] = ServerRead(t, sb, L)
  <2>1. s.locations = LocationsRead(t, R)
    BY <1>4 DEF ServerRead
  <2>2. [s EXCEPT !.locations = LocationsRead(t, L)] = ServerRead(t, sb, L)
    BY <1>4 DEF ServerRead
  <2> QED BY <1>6, <2>1, <2>2
<1>8. Text!Depth(t, Len(t) + 1) = 1
  BY DepthAfter
<1> QED BY <1>2, <1>7, <1>8 DEF BetweenLocations

-----------------------------------------------------------------------------
(* A directive takes effect.                                                *)

LEMMA ServerSets ==
  ASSUME NEW q, NEW t, Extends(q, t), Mark(t) = Text!Semicolon, Text!Depth(t, Len(t)) = 1,
         NEW ss, NEW s, BetweenLocations(q, ss, s)
  PROVE  LET sb == ServerBrace(q)  L == Text!Locations(q, sb) IN
         /\ BetweenLocations(t, ss, ServerRead(t, sb, L))
         /\ s = ServerRead(q, sb, L)
         /\ LocationsRead(t, L) = LocationsRead(q, L)
         /\ \A name : Sets(t, sb, name) <=> Text!Words(t, Len(t))[1] = name
<1> DEFINE sb == ServerBrace(q)
           L == Text!Locations(q, sb)
<1>1. InServer(q, ss) /\ s = ServerRead(q, sb, L) /\ File(q)
  BY DEF BetweenLocations, Extends
<1>2. InServer(t, ss) /\ ServerBrace(t) = sb
  BY <1>1, InServerStays
<1>3. Text!Block(t, Len(t)) = sb
  <2>1. Text!Block(t, Len(t)) = Text!Max(Braces(q, Text!Depth(t, Len(t)) - 1))
    BY OneStatementMore
  <2> QED BY <2>1 DEF ServerBrace
<1>4. Text!Locations(t, sb) = L
  BY LocationsGrow, MarksAre
<1>5. Text!Depth(t, Len(t) + 1) = 1
  BY DepthAfter
<1>6. \A l \in L : l # sb
  <2>1. Text!Max(Braces(q, 0)) \in Braces(q, 0)
    BY <1>1, BracesAre DEF InServer
  <2>2. Text!Depth(q, sb) = 0
    BY <2>1 DEF ServerBrace, Braces
  <2>3. \A l \in L : Text!Depth(q, l) = 1
    BY DEF Text!Locations
  <2> QED BY <2>2, <2>3
<1>7. LocationsRead(t, L) = LocationsRead(q, L)
  <2>1. L \subseteq Text!Statements(q)
    BY DEF Text!Locations
  <2>2. \A l \in L : Silent(t, l)
    BY <1>3, <1>6 DEF Silent
  <2> HIDE DEF L
  <2> QED BY <2>1, <2>2, LocationsStay
<1>8. \A name : Sets(t, sb, name) <=> Text!Words(t, Len(t))[1] = name
  BY <1>3 DEF Sets, Mark
<1>9. BetweenLocations(t, ss, ServerRead(t, sb, L))
  BY <1>2, <1>4, <1>5 DEF BetweenLocations
<1> QED BY <1>1, <1>7, <1>8, <1>9

LEMMA LocationSets ==
  ASSUME NEW q, NEW t, Extends(q, t), Mark(t) = Text!Semicolon, Text!Depth(t, Len(t)) = 2,
         NEW ss, NEW s, NEW l, InLocation(q, ss, s, l)
  PROVE  LET lb == LocationBrace(q) IN
         /\ InLocation(t, ss, s, Text!LocationSaid(t, lb))
         /\ l = Text!LocationSaid(q, lb)
         /\ Text!Words(t, lb) = Text!Words(q, lb)
         /\ \A name : Sets(t, lb, name) <=> Text!Words(t, Len(t))[1] = name
<1> DEFINE sb == ServerBrace(q)
           lb == LocationBrace(q)
           R == Text!Locations(q, sb) \ {lb}
<1>1. s = ServerRead(q, sb, R) /\ l = Text!LocationSaid(q, lb) /\ Braces(q, 1) # {}
  BY DEF InLocation
<1>2. /\ InServer(t, ss) /\ ServerBrace(t) = sb /\ LocationBrace(t) = lb
      /\ Braces(t, 1) = Braces(q, 1) /\ Text!Block(t, lb) = sb
      /\ Text!Locations(t, sb) = Text!Locations(q, sb)
      /\ Text!Block(t, Len(t)) = lb /\ sb # lb /\ lb \in Text!Locations(q, sb)
      /\ Text!Locations(q, sb) \subseteq Text!Statements(q)
  BY InLocationIs
<1> HIDE DEF sb, lb
<1>3. \A b : b # lb => Silent(t, b)
  BY <1>2 DEF Silent
<1>4. ServerRead(t, sb, R) = s
  <2>1. R \subseteq Text!Statements(q) /\ \A r \in R : Silent(t, r)
    BY <1>2, <1>3
  <2> HIDE DEF R
  <2> QED BY <1>1, <1>2, <1>3, <2>1, ServerStays
<1>5. Text!Words(t, lb) = Text!Words(q, lb)
  BY <1>2, OthersStay
<1>6. \A name : Sets(t, lb, name) <=> Text!Words(t, Len(t))[1] = name
  BY <1>2 DEF Sets, Mark
<1>7. Text!Depth(t, Len(t) + 1) = 2
  BY DepthAfter
<1>8. InLocation(t, ss, s, Text!LocationSaid(t, lb))
  BY <1>1, <1>2, <1>4, <1>7 DEF InLocation
<1> QED BY <1>1, <1>5, <1>6, <1>8 DEF lb

LEMMA ServerTakes ==
  ASSUME NEW q, NEW t, Extends(q, t), NEW b, NEW L, LocationsRead(t, L) = LocationsRead(q, L),
         \A name : Sets(t, b, name) <=> Text!Words(t, Len(t))[1] = name
  PROVE  LET ws == Text!Words(t, Len(t))  v == ws[2]  s == ServerRead(q, b, L) IN
         /\ ws[1] = "host" => ServerRead(t, b, L) = [s EXCEPT !.host = v]
         /\ ws[1] = "port" => ServerRead(t, b, L) = [s EXCEPT !.port = Spells[v].n]
         /\ ws[1] = "server_name" => ServerRead(t, b, L) = [s EXCEPT !.server_name = v]
         /\ ws[1] = "client_max_body_size" =>
              ServerRead(t, b, L) = [s EXCEPT !.client_max_body_size = Text!Size(v) % Usize]
         /\ ws[1] = "error_page" =>
              ServerRead(t, b, L) = [s EXCEPT !.error_pages[Spells[v].n] = ws[3]]
<1> DEFINE ws == Text!Words(t, Len(t))
           v == ws[2]
           s == ServerRead(q, b, L)
           r == ServerRead(t, b, L)
<1>1. /\ s = [host |-> s.host, port |-> s.port, server_name |-> s.server_name,
              client_max_body_size |-> s.client_max_body_size,
              error_pages |-> s.error_pages, locations |-> s.locations]
      /\ r = [host |-> r.host, port |-> r.port, server_name |-> r.server_name,
              client_max_body_size |-> r.client_max_body_size,
              error_pages |-> r.error_pages, locations |-> r.locations]
  BY DEF ServerRead
<1>2. r.host = (IF ws[1] = "host" THEN v ELSE s.host)
  <2>1. Text!Said(t, b, "host", None)
          = IF Sets(t, b, "host") THEN v ELSE Text!Said(q, b, "host", None)
    BY SaidAfter
  <2> QED BY <2>1 DEF ServerRead
<1>3. r.server_name = (IF ws[1] = "server_name" THEN v ELSE s.server_name)
  <2>1. Text!Said(t, b, "server_name", None)
          = IF Sets(t, b, "server_name") THEN v ELSE Text!Said(q, b, "server_name", None)
    BY SaidAfter
  <2> QED BY <2>1 DEF ServerRead
<1>4. r.port = (IF ws[1] = "port" THEN Spells[v].n ELSE s.port)
  <2>1. /\ Text!Said(t, b, "port", None)
             = IF Sets(t, b, "port") THEN v ELSE Text!Said(q, b, "port", None)
        /\ Sets(t, b, "port") => Text!Saying(t, b, "port") # {}
        /\ ~Sets(t, b, "port") => Text!Saying(t, b, "port") = Text!Saying(q, b, "port")
    BY SaidAfter, SayingGrows
  <2>2. PortRead(t, b) = IF Sets(t, b, "port") THEN Spells[v].n ELSE PortRead(q, b)
    BY <2>1 DEF PortRead, Text!Key
  <2> QED BY <2>2 DEF ServerRead
<1>5. r.client_max_body_size = (IF ws[1] = "client_max_body_size" THEN Text!Size(v) % Usize
                                ELSE s.client_max_body_size)
  <2>1. Text!Limit(t, b) = IF Sets(t, b, "client_max_body_size") THEN Text!Size(v)
                           ELSE Text!Limit(q, b)
    BY LimitAfter
  <2> QED BY <2>1 DEF ServerRead
<1>6. r.error_pages = (IF ws[1] = "error_page" THEN [s.error_pages EXCEPT ![Spells[v].n] = ws[3]]
                       ELSE s.error_pages)
  <2>1. Text!ErrorPages(t, b)
          = IF Sets(t, b, "error_page")
            THEN [Text!ErrorPages(q, b) EXCEPT ![Spells[v].n] = ws[3]]
            ELSE Text!ErrorPages(q, b)
    BY ErrorPagesAfter
  <2> QED BY <2>1 DEF ServerRead
<1>7. r.locations = s.locations
  BY DEF ServerRead
<1> HIDE DEF s, r, v, ws
<1>8. ws[1] = "host" => r = [s EXCEPT !.host = v]
  BY <1>1, <1>2, <1>3, <1>4, <1>5, <1>6, <1>7
<1>9. ws[1] = "port" => r = [s EXCEPT !.port = Spells[v].n]
  BY <1>1, <1>2, <1>3, <1>4, <1>5, <1>6, <1>7
<1>10. ws[1] = "server_name" => r = [s EXCEPT !.server_name = v]
  BY <1>1, <1>2, <1>3, <1>4, <1>5, <1>6, <1>7
<1>11. ws[1] = "client_max_body_size" =>
         r = [s EXCEPT !.client_max_body_size = Text!Size(v) % Usize]
  BY <1>1, <1>2, <1>3, <1>4, <1>5, <1>6, <1>7
<1>12. ws[1] = "error_page" => r = [s EXCEPT !.error_pages[Spells[v].n] = ws[3]]
  BY <1>1, <1>2, <1>3, <1>4, <1>5, <1>6, <1>7
<1> QED BY <1>8, <1>9, <1>10, <1>11, <1>12 DEF r, s, v, ws

LEMMA LocationTakes ==
  ASSUME NEW q, NEW t, Extends(q, t), NEW b, Text!Words(t, b) = Text!Words(q, b),
         \A name : Sets(t, b, name) <=> Text!Words(t, Len(t))[1] = name
  PROVE  LET ws == Text!Words(t, Len(t))  v == ws[2]  l == Text!LocationSaid(q, b) IN
         /\ ws[1] = "root" => Text!LocationSaid(t, b) = [l EXCEPT !.root = v]
         /\ ws[1] = "index" => Text!LocationSaid(t, b) = [l EXCEPT !.index = v]
         /\ ws[1] = "redirect" => Text!LocationSaid(t, b) = [l EXCEPT !.redirect = v]
         /\ ws[1] = "autoindex" => Text!LocationSaid(t, b) = [l EXCEPT !.autoindex = (v = "on")]
         /\ ws[1] = "methods" =>
              Text!LocationSaid(t, b) = [l EXCEPT !.methods = @ \cup ToSet(Tail(ws))]
         /\ ws[1] = "cgi" => Text!LocationSaid(t, b) = [l EXCEPT !.cgi = CgiOf(ws)]
<1> DEFINE ws == Text!Words(t, Len(t))
           v == ws[2]
           l == Text!LocationSaid(q, b)
           r == Text!LocationSaid(t, b)
<1>1. /\ l = [path |-> l.path, root |-> l.root, index |-> l.index, methods |-> l.methods,
              autoindex |-> l.autoindex, redirect |-> l.redirect, cgi |-> l.cgi]
      /\ r = [path |-> r.path, root |-> r.root, index |-> r.index, methods |-> r.methods,
              autoindex |-> r.autoindex, redirect |-> r.redirect, cgi |-> r.cgi]
  BY DEF Text!LocationSaid
<1>0. \A name, default : Text!Said(t, b, name, default)
                           = IF ws[1] = name THEN v ELSE Text!Said(q, b, name, default)
  BY SaidAfter
<1>2. /\ r.root = (IF ws[1] = "root" THEN v ELSE l.root)
      /\ r.index = (IF ws[1] = "index" THEN v ELSE l.index)
      /\ r.redirect = (IF ws[1] = "redirect" THEN v ELSE l.redirect)
      /\ r.path = l.path
  BY <1>0 DEF Text!LocationSaid
<1>3. r.autoindex = (IF ws[1] = "autoindex" THEN (v = "on") ELSE l.autoindex)
  BY <1>0 DEF Text!LocationSaid
<1>4. r.methods = (IF ws[1] = "methods" THEN l.methods \cup ToSet(Tail(ws)) ELSE l.methods)
  <2>1. Text!Methods(t, b) = IF ws[1] = "methods" THEN Text!Methods(q, b) \cup ToSet(Tail(ws))
                             ELSE Text!Methods(q, b)
    BY MethodsAfter
  <2> QED BY <2>1 DEF Text!LocationSaid
<1>5. r.cgi = (IF ws[1] = "cgi" THEN CgiOf(ws) ELSE l.cgi)
  <2>1. Text!Cgi(t, b) = IF ws[1] = "cgi" THEN CgiOf(ws) ELSE Text!Cgi(q, b)
    BY CgiAfter
  <2> QED BY <2>1 DEF Text!LocationSaid
<1> HIDE DEF l, r, v, ws
<1>6. /\ ws[1] = "root" => r = [l EXCEPT !.root = v]
      /\ ws[1] = "index" => r = [l EXCEPT !.index = v]
      /\ ws[1] = "redirect" => r = [l EXCEPT !.redirect = v]
  BY <1>1, <1>2, <1>3, <1>4, <1>5
<1>7. ws[1] = "autoindex" => r = [l EXCEPT !.autoindex = (v = "on")]
  BY <1>1, <1>2, <1>3, <1>4, <1>5
<1>8. ws[1] = "methods" => r = [l EXCEPT !.methods = l.methods \cup ToSet(Tail(ws))]
  BY <1>1, <1>2, <1>3, <1>4, <1>5
<1>9. ws[1] = "cgi" => r = [l EXCEPT !.cgi = CgiOf(ws)]
  BY <1>1, <1>2, <1>3, <1>4, <1>5
<1>10. [l EXCEPT !.methods = l.methods \cup ToSet(Tail(ws))]
         = [l EXCEPT !.methods = @ \cup ToSet(Tail(ws))]
  OBVIOUS
<1> QED BY <1>6, <1>7, <1>8, <1>9, <1>10 DEF r, l, v, ws

\* A size that was read is what the word spells, and one that was not is too great or
\* no number at all.
LEMMA SizesAre ==
  ASSUME NEW w \in Words, NEW s \in parse_body_size(w)
  PROVE  /\ s.how = "ok" => Text!IsNumber(w, Usize - 1) /\ s.n = Text!Size(w) % Usize
         /\ s.how = "error" => ~Text!IsNumber(w, Usize - 1)
         /\ s.how = "panic" => Spells[w].n # None /\ Text!Size(w) >= Usize
<1>1. CASE Spells[w].n \notin 0 .. Usize - 1
  <2>1. s = NoSize("error")
    BY <1>1 DEF parse_body_size
  <2> QED BY <1>1, <2>1 DEF NoSize, Text!IsNumber
<1>2. CASE Spells[w].n \in 0 .. Usize - 1
  <2> DEFINE n == Spells[w].n
  <2>1. /\ n \in Nat /\ n < Usize /\ n # None /\ Usize \in Nat \ {0}
        /\ Spells[w].unit \in {"b", "kb", "mb"}
    <3>1. \A m \in 0 .. Usize - 1 : m \in Nat /\ m < Usize
      BY SpellsAssumption
    <3> QED BY <1>2, <3>1, WordsSpell, WordsAreApart, SpellsAssumption
  <2>2. Text!IsNumber(w, Usize - 1)
    BY <1>2 DEF Text!IsNumber
  <2>3. ASSUME NEW k \in Nat, Text!Size(w) = n * k, s \in UsizeProduct(n, k)
        PROVE  /\ s.how = "ok" => s.n = Text!Size(w) % Usize
               /\ s.how = "error" => FALSE
               /\ s.how = "panic" => Text!Size(w) >= Usize
    <3> DEFINE p == n * k
    <3>1. p \in Nat
      BY <2>1
    <3>2. s \in (IF p < Usize THEN {Size(p)} ELSE {Size(p % Usize), NoSize("panic")})
      BY <2>3 DEF UsizeProduct
    <3>3. Text!Size(w) = p
      BY <2>3
    <3> HIDE DEF p
    <3>4. p < Usize => p % Usize = p
      BY <2>1, <3>1
    <3>5. ~(p < Usize) => p >= Usize
      BY <2>1, <3>1
    <3> QED BY <3>2, <3>3, <3>4, <3>5 DEF Size, NoSize
  <2>4. CASE Spells[w].unit = "mb"
    <3>1. s \in UsizeProduct(n, 1024 * 1024)
      BY <1>2, <2>4 DEF parse_body_size
    <3>2. Text!Size(w) = n * (1024 * 1024)
      BY <2>4 DEF Text!Size
    <3> QED BY <2>1, <2>2, <2>3, <3>1, <3>2, 1024 * 1024 \in Nat
  <2>5. CASE Spells[w].unit = "kb"
    <3>1. s \in UsizeProduct(n, 1024)
      BY <1>2, <2>5 DEF parse_body_size
    <3>2. Text!Size(w) = n * 1024
      BY <2>5 DEF Text!Size
    <3> QED BY <2>1, <2>2, <2>3, <3>1, <3>2
  <2>6. CASE Spells[w].unit = "b"
    <3>1. s \in {Size(n)}
      BY <1>2, <2>6 DEF parse_body_size
    <3>2. Text!Size(w) = n
      <4>1. Text!Size(w) = n * 1
        BY <2>6 DEF Text!Size
      <4> QED BY <2>1, <4>1
    <3>3. n % Usize = n
      <4> HIDE DEF n
      <4> QED BY <2>1
    <3> QED BY <2>2, <3>1, <3>2, <3>3 DEF Size
  <2> QED BY <2>1, <2>4, <2>5, <2>6
<1> QED BY <1>1, <1>2

-----------------------------------------------------------------------------
(* The next statement of the file.                                          *)

\* It ends at e.
Ends(e) ==
  /\ e \in pos .. Len(tokens) /\ At(e) \in Marks
  /\ \A i \in pos .. e - 1 : IsWord(At(i))

InFile == tokens \in Seq(Marks \cup Words) /\ pos \in 1 .. Len(tokens) + 1

NextWords(e) == SubSeq(tokens, pos, e - 1)

LEMMA WordsAreWords == \A w \in Words : IsWord(w)
  BY Zenon, WordsAssumption DEF IsWord

\* As many words as it takes, then a mark.
LEMMA EndsBehind ==
  ASSUME InFile, NEW n \in Nat, \A k \in 0 .. n - 1 : IsWord(At(pos + k)), At(pos + n) \in Marks
  PROVE  Ends(pos + n)
<1>1. pos \in Nat \ {0} /\ Len(tokens) \in Nat
  BY DEF InFile
<1>2. pos + n \in 1 .. Len(tokens)
  BY TokensAreThere DEF InFile
<1>3. \A i \in pos .. (pos + n) - 1 : IsWord(At(i))
  <2> TAKE i \in pos .. (pos + n) - 1
  <2>1. i - pos \in 0 .. n - 1 /\ pos + (i - pos) = i
    BY <1>1
  <2> QED BY <2>1
<1> QED BY <1>1, <1>2, <1>3 DEF Ends

\* One, two or three words.
LEMMA EndsSoon ==
  ASSUME InFile
  PROVE  /\ At(pos) \in Marks => Ends(pos)
         /\ IsWord(At(pos)) /\ At(pos + 1) \in Marks => Ends(pos + 1)
         /\ IsWord(At(pos)) /\ IsWord(At(pos + 1)) /\ At(pos + 2) \in Marks => Ends(pos + 2)
         /\ /\ IsWord(At(pos)) /\ IsWord(At(pos + 1)) /\ IsWord(At(pos + 2))
            /\ At(pos + 3) \in Marks
            => Ends(pos + 3)
<1>0. pos \in Nat /\ pos + 0 = pos
  BY DEF InFile
<1>1. At(pos) \in Marks => Ends(pos)
  <2>1. \A k \in 0 .. 0 - 1 : IsWord(At(pos + k))
    OBVIOUS
  <2> QED BY <1>0, <2>1, EndsBehind
<1>2. IsWord(At(pos)) /\ At(pos + 1) \in Marks => Ends(pos + 1)
  <2>1. \A k \in 0 .. 1 - 1 : k = 0
    OBVIOUS
  <2> QED BY <1>0, <2>1, EndsBehind
<1>3. IsWord(At(pos)) /\ IsWord(At(pos + 1)) /\ At(pos + 2) \in Marks => Ends(pos + 2)
  <2>1. \A k \in 0 .. 2 - 1 : k = 0 \/ k = 1
    OBVIOUS
  <2> QED BY <1>0, <2>1, EndsBehind
<1>4. /\ IsWord(At(pos)) /\ IsWord(At(pos + 1)) /\ IsWord(At(pos + 2))
      /\ At(pos + 3) \in Marks
      => Ends(pos + 3)
  <2>1. \A k \in 0 .. 3 - 1 : k = 0 \/ k = 1 \/ k = 2
    OBVIOUS
  <2> QED BY <1>0, <2>1, EndsBehind
<1> QED BY <1>1, <1>2, <1>3, <1>4

\* The words of the statement.
LEMMA StatementIs ==
  ASSUME InFile, NEW e, Ends(e)
  PROVE  LET ws == NextWords(e) IN
         /\ ws \in Seq(Words) /\ Len(ws) = e - pos /\ Len(ws) \in Nat /\ e = pos + Len(ws)
         /\ \A k \in 1 .. Len(ws) : ws[k] = At(pos + k - 1)
         /\ Len(ws) >= 1 => ws[1] = At(pos) /\ IsWord(At(pos))
         /\ Len(ws) >= 2 => ws[2] = At(pos + 1) /\ IsWord(At(pos + 1))
         /\ Len(ws) >= 3 => ws[3] = At(pos + 2) /\ IsWord(At(pos + 2))
<1> DEFINE ws == NextWords(e)
           n == e - pos
<1>1. /\ tokens \in Seq(Marks \cup Words) /\ pos \in Nat \ {0} /\ Len(tokens) \in Nat
      /\ e \in Nat /\ pos <= e /\ e <= Len(tokens) /\ e \in pos .. Len(tokens)
  BY DEF InFile, Ends
<1>2. \A i \in pos .. e - 1 : /\ IsWord(At(i)) /\ tokens[i] = At(i) /\ At(i) \in Words
                              /\ i \in 1 .. Len(tokens)
  <2> TAKE i \in pos .. e - 1
  <2>1. i \in 1 .. Len(tokens) /\ DOMAIN tokens = 1 .. Len(tokens)
    BY <1>1
  <2>2. IsWord(At(i))
    BY DEF Ends
  <2>3. At(i) \in Words
    BY <2>2, TokensAreThere DEF InFile
  <2> QED BY <2>1, <2>2, <2>3 DEF At
<1>3. ws \in Seq(Marks \cup Words) /\ Len(ws) = n /\ n \in Nat
  BY <1>1 DEF NextWords
<1>4. \A k \in 1 .. n : ws[k] = tokens[pos + k - 1] /\ pos + k - 1 \in pos .. e - 1
  BY <1>1 DEF NextWords
<1>5. \A k \in 1 .. n : ws[k] = At(pos + k - 1) /\ ws[k] \in Words /\ IsWord(ws[k])
  BY <1>2, <1>4
<1> HIDE DEF ws
<1>6. e = pos + n
  BY <1>1
<1> HIDE DEF n
<1>7. ws \in Seq(Words)
  BY <1>3, <1>5
<1>8. /\ n >= 1 => 1 \in 1 .. n
      /\ n >= 2 => 2 \in 1 .. n
      /\ n >= 3 => 3 \in 1 .. n
  BY <1>3
<1>9. pos + 1 - 1 = pos /\ pos + 2 - 1 = pos + 1 /\ pos + 3 - 1 = pos + 2
  BY <1>1
<1>10. /\ n >= 1 => ws[1] = At(pos) /\ IsWord(At(pos))
       /\ n >= 2 => ws[2] = At(pos + 1) /\ IsWord(At(pos + 1))
       /\ n >= 3 => ws[3] = At(pos + 2) /\ IsWord(At(pos + 2))
  BY <1>5, <1>8, <1>9
<1> QED BY <1>3, <1>5, <1>6, <1>7, <1>10 DEF ws, n

LEMMA StatementHas ==
  ASSUME InFile, NEW n \in Nat, Ends(pos + n) PROVE Len(NextWords(pos + n)) = n
<1>1. (pos + n) - pos = n
  BY DEF InFile
<1>2. Len(NextWords(pos + n)) = (pos + n) - pos
  BY StatementIs
<1> QED BY <1>1, <1>2

\* With it the parser has read so much of the file.
Upto(e) == SubSeq(tokens, 1, e)

LEMMA StatementRead ==
  ASSUME InFile, Len(Read) = 0 \/ Read[Len(Read)] \in Marks, NEW e, Ends(e)
  PROVE  LET t == Upto(e) IN
         /\ Extends(Read, t) /\ Len(t) = e /\ Len(Read) = pos - 1 /\ Mark(t) = At(e)
         /\ Text!Words(t, e) = NextWords(e)
         /\ Text!Depth(t, e) = Text!Depth(Read, Len(Read) + 1)
         /\ StartOf(t, tokens)
<1> DEFINE t == Upto(e)
           q == Read
<1>1. /\ tokens \in Seq(Marks \cup Words) /\ pos \in Nat \ {0} /\ Len(tokens) \in Nat
      /\ e \in Nat /\ pos <= e /\ e <= Len(tokens) /\ DOMAIN tokens = 1 .. Len(tokens)
  BY DEF InFile, Ends
<1>2. /\ t \in Seq(Marks \cup Words) /\ Len(t) = e /\ \A i \in 1 .. e : t[i] = tokens[i]
      /\ q \in Seq(Marks \cup Words) /\ Len(q) = pos - 1 /\ \A i \in 1 .. pos - 1 : q[i] = tokens[i]
  BY <1>1 DEF Upto, Read
<1>3. \A i \in 1 .. e : At(i) = t[i]
  BY <1>1, <1>2 DEF At
<1> HIDE DEF t, q
<1>4. StartOf(q, t) /\ StartOf(t, tokens) /\ File(q) /\ File(t) /\ Len(q) < Len(t)
  <2>1. Len(q) <= Len(t) /\ Len(q) < Len(t) /\ Len(t) <= Len(tokens)
    BY <1>1, <1>2
  <2>2. \A i \in 1 .. Len(q) : i \in 1 .. e
    BY <1>1, <1>2
  <2> QED BY <1>2, <2>1, <2>2 DEF StartOf, File
<1>5. t[e] \in Marks /\ t[e] = At(e)
  <2>1. e \in 1 .. e
    BY <1>1
  <2> QED BY <1>3, <2>1 DEF Ends
<1>6. \A i \in Len(q) + 1 .. e - 1 : t[i] \notin Marks
  <2> TAKE i \in Len(q) + 1 .. e - 1
  <2>1. i \in pos .. e - 1 /\ i \in 1 .. e
    BY <1>1, <1>2
  <2>2. IsWord(At(i))
    BY <2>1 DEF Ends
  <2> QED BY <1>3, <2>1, <2>2 DEF IsWord
<1>7. Extends(q, t)
  BY <1>2, <1>4, <1>5, <1>6 DEF Extends, q
<1>8. /\ Text!Words(t, e) = SubSeq(t, Len(q) + 1, e - 1)
      /\ Text!Depth(t, e) = Text!Depth(q, Len(q) + 1)
  BY <1>2, <1>7, OneStatementMore
<1>9. SubSeq(t, pos, e - 1) = SubSeq(tokens, pos, e - 1)
  <2>1. e - 1 \in 0 .. Len(t) /\ e - 1 \in 0 .. Len(tokens)
    BY <1>1, <1>2
  <2>2. \A k \in pos .. e - 1 : k \in 1 .. e
    BY <1>1
  <2>3. \A k \in pos .. e - 1 : t[k] = tokens[k]
    BY <1>2, <2>2
  <2> QED BY <1>1, <1>2, <2>1, <2>3, SameParts
<1>10. Text!Words(t, e) = NextWords(e)
  <2>1. Len(q) + 1 = pos
    BY <1>1, <1>2
  <2> QED BY <1>8, <1>9, <2>1 DEF NextWords
<1> QED BY <1>2, <1>4, <1>5, <1>7, <1>8, <1>10 DEF t, q, Mark

\* What fits at a depth.
FitsAt(d, m, ws) ==
  \/ m = LBrace /\ \/ d = 0 /\ ws = <<"server">>
                   \/ d = 1 /\ Len(ws) = 2 /\ ws[1] = "location"
  \/ m = RBrace /\ d \in {1, 2} /\ ws = << >>
  \/ m = Semicolon /\ \/ d = 1 /\ Text!ServerDirective(ws)
                      \/ d = 2 /\ Text!LocationDirective(ws)

LEMMA FitsIs ==
  ASSUME NEW t, NEW e, t[e] \in Marks
  PROVE  Text!Fits(t, e) <=> FitsAt(Text!Depth(t, e), t[e], Text!Words(t, e))
<1> DEFINE d == Text!Depth(t, e)
           ws == Text!Words(t, e)
<1>1. /\ Text!LBrace # Text!RBrace /\ Text!LBrace # Text!Semicolon
      /\ Text!RBrace # Text!Semicolon
  BY MarksAre
<1>2. CASE t[e] = LBrace
  <2>1. t[e] = Text!LBrace
    BY <1>2, MarksAre
  <2>2. Text!Fits(t, e) <=> \/ d = 0 /\ ws = <<"server">>
                            \/ d = 1 /\ Len(ws) = 2 /\ ws[1] = "location"
    BY <1>1, <2>1 DEF Text!Fits
  <2> HIDE DEF d, ws
  <2> QED BY <1>2, <2>2, MarksAre DEF FitsAt, d, ws
<1>3. CASE t[e] = RBrace
  <2>1. t[e] = Text!RBrace
    BY <1>3, MarksAre
  <2>2. Text!Fits(t, e) <=> d \in {1, 2} /\ ws = << >>
    BY <1>1, <2>1 DEF Text!Fits
  <2> HIDE DEF d, ws
  <2> QED BY <1>3, <2>2, MarksAre DEF FitsAt, d, ws
<1>4. CASE t[e] = Semicolon
  <2>1. t[e] = Text!Semicolon
    BY <1>4, MarksAre
  <2>2. Text!Fits(t, e) <=> \/ d = 1 /\ Text!ServerDirective(ws)
                            \/ d = 2 /\ Text!LocationDirective(ws)
    BY <1>1, <2>1 DEF Text!Fits
  <2> HIDE DEF d, ws
  <2> QED BY <1>4, <2>2, MarksAre DEF FitsAt, d, ws
<1> QED BY <1>2, <1>3, <1>4, MarksAre

LEMMA FitsHere ==
  ASSUME InFile, Part(Read), NEW e, Ends(e)
  PROVE  LET d == Text!Depth(Read, Len(Read) + 1) IN
         /\ Text!Fits(tokens, e) <=> FitsAt(d, At(e), NextWords(e))
         /\ FitsAt(d, At(e), NextWords(e)) => Part(Upto(e))
         /\ e \in Text!Statements(tokens)
<1> DEFINE t == Upto(e)
           d == Text!Depth(Read, Len(Read) + 1)
<1>1. /\ Extends(Read, t) /\ Len(t) = e /\ t[e] = At(e) /\ At(e) \in Marks
      /\ Text!Words(t, e) = NextWords(e) /\ Text!Depth(t, e) = d /\ StartOf(t, tokens)
      /\ File(t) /\ File(tokens)
  <2>1. Len(Read) = 0 \/ Read[Len(Read)] \in Marks
    BY DEF Part
  <2>2. /\ Extends(Read, t) /\ Len(t) = e /\ Mark(t) = At(e)
        /\ Text!Words(t, e) = NextWords(e) /\ Text!Depth(t, e) = d /\ StartOf(t, tokens)
    BY <2>1, StatementRead
  <2> HIDE DEF t, d
  <2> QED BY <2>2 DEF Ends, Extends, File, Mark, InFile
<1>2. /\ e \in 1 .. e /\ e \in 1 .. e + 1 /\ e \in 1 .. Len(tokens)
      /\ tokens[e] = At(e)
  <2>1. pos \in Nat \ {0} /\ e \in pos .. Len(tokens) /\ DOMAIN tokens = 1 .. Len(tokens)
    BY DEF InFile, Ends
  <2> QED BY <2>1 DEF At
<1> HIDE DEF t, d
<1>3. Text!Fits(t, e) <=> FitsAt(d, At(e), NextWords(e))
  BY <1>1, FitsIs
<1>4. Text!Words(tokens, e) = NextWords(e) /\ Text!Depth(tokens, e) = d
  BY <1>1, <1>2, BeginningsStay
<1>5. Text!Fits(tokens, e) <=> FitsAt(d, At(e), NextWords(e))
  BY <1>1, <1>2, <1>4, FitsIs
<1>6. FitsAt(d, At(e), NextWords(e)) => Part(t)
  BY <1>1, <1>3, PartGrows
<1>7. e \in Text!Statements(tokens)
  BY <1>1, <1>2, FilesAre
<1> QED BY <1>5, <1>6, <1>7 DEF d, t

LEMMA KeywordsAreWords ==
  \A k \in {"server", "location", "host", "port", "server_name", "client_max_body_size",
            "error_page", "root", "index", "redirect", "autoindex", "methods", "cgi"} : IsWord(k)
  BY Zenon DEF IsWord, End, Marks, LBrace, RBrace, Semicolon

-----------------------------------------------------------------------------
(* The steps of the parser.                                                 *)

LEMMA ServerOpens ==
  ASSUME ParserTypeOK, KeepsUp, block = "top", At(pos) = "server", At(pos + 1) = LBrace
  PROVE  HasRead(Upto(pos + 1), "server", servers, NewServer, location)
<1> DEFINE e == pos + 1
           t == Upto(e)
<1>1. InFile /\ Part(Read) /\ BetweenServers(Read, servers)
  BY DEF ParserTypeOK, KeepsUp, HasRead, InFile
<1>2. Text!Depth(Read, Len(Read) + 1) = 0 /\ (Len(Read) = 0 \/ Read[Len(Read)] \in Marks)
  BY <1>1 DEF BetweenServers, Part
<1>3. Ends(e)
  BY <1>1, EndsSoon, MarksAre, KeywordsAreWords
<1>4. NextWords(e) = <<"server">>
  <2>1. Len(NextWords(e)) = 1
    BY <1>1, <1>3, StatementHas
  <2>2. NextWords(e) \in Seq(Words) /\ Len(NextWords(e)) = 1 /\ NextWords(e)[1] = "server"
    BY <1>1, <1>3, <2>1, StatementIs
  <2> QED BY <2>2
<1>5. FitsAt(0, At(e), NextWords(e))
  BY <1>4 DEF FitsAt
<1>6. Part(t)
  BY <1>1, <1>2, <1>3, <1>5, FitsHere
<1>7. Extends(Read, t) /\ Len(t) = e /\ Mark(t) = LBrace /\ Text!Depth(t, e) = 0
  BY <1>1, <1>2, <1>3, StatementRead
<1> HIDE DEF t
<1>8. BetweenLocations(t, servers, NewServer)
  BY <1>1, <1>7, OpenServer, MarksAre
<1> QED BY <1>6, <1>8 DEF HasRead, t

\* A field that is there has been said.
LEMMA FieldsAreSaid ==
  ASSUME NEW q, NEW b, NEW L, ServerRead(q, b, L).host # None, ServerRead(q, b, L).port # None
  PROVE  Complete(q, b)
<1>1. Text!Said(q, b, "host", None) # None /\ PortRead(q, b) # None
  BY DEF ServerRead
<1> QED BY <1>1 DEF Complete, Text!Said, PortRead

LEMMA ServerCloses ==
  ASSUME ParserTypeOK, KeepsUp, block = "server", At(pos) = RBrace,
         server.host # None, server.port # None
  PROVE  HasRead(Upto(pos), "top", Append(servers, server), server, location)
<1> DEFINE t == Upto(pos)
<1>1. InFile /\ Part(Read) /\ BetweenLocations(Read, servers, server)
  BY DEF ParserTypeOK, KeepsUp, HasRead, InFile
<1>2. Text!Depth(Read, Len(Read) + 1) = 1 /\ (Len(Read) = 0 \/ Read[Len(Read)] \in Marks)
  BY <1>1 DEF BetweenLocations, Part
<1>3. Ends(pos)
  BY <1>1, EndsSoon, MarksAre
<1>4. NextWords(pos) = << >>
  <2>1. pos \in Nat /\ pos - pos = 0
    BY <1>1 DEF InFile
  <2>2. NextWords(pos) \in Seq(Words) /\ Len(NextWords(pos)) = 0
    BY <1>1, <1>3, <2>1, StatementIs
  <2> QED BY <2>2
<1>5. FitsAt(1, At(pos), NextWords(pos))
  BY <1>4 DEF FitsAt
<1>6. Part(t)
  BY <1>1, <1>2, <1>3, <1>5, FitsHere
<1>7. Extends(Read, t) /\ Len(t) = pos /\ Mark(t) = RBrace /\ Text!Depth(t, pos) = 1
  BY <1>1, <1>2, <1>3, StatementRead
<1> HIDE DEF t
<1>8. Complete(Read, ServerBrace(Read))
  BY <1>1, FieldsAreSaid DEF BetweenLocations
<1>9. BetweenServers(t, Append(servers, server))
  BY <1>1, <1>7, <1>8, CloseServer, MarksAre
<1> QED BY <1>6, <1>9 DEF HasRead, t

LEMMA LocationOpens ==
  ASSUME ParserTypeOK, KeepsUp, block = "server", At(pos) = "location",
         IsWord(At(pos + 1)), At(pos + 2) = LBrace
  PROVE  HasRead(Upto(pos + 2), "location", servers, server, NewLocation(At(pos + 1)))
<1> DEFINE e == pos + 2
           t == Upto(e)
<1>1. InFile /\ Part(Read) /\ BetweenLocations(Read, servers, server)
  BY DEF ParserTypeOK, KeepsUp, HasRead, InFile
<1>2. Text!Depth(Read, Len(Read) + 1) = 1 /\ (Len(Read) = 0 \/ Read[Len(Read)] \in Marks)
  BY <1>1 DEF BetweenLocations, Part
<1>3. Ends(e)
  BY <1>1, EndsSoon, MarksAre, KeywordsAreWords
<1>4. Len(NextWords(e)) = 2 /\ NextWords(e)[1] = "location" /\ NextWords(e)[2] = At(pos + 1)
  <2>1. Len(NextWords(e)) = 2
    BY <1>1, <1>3, StatementHas
  <2> QED BY <1>1, <1>3, <2>1, StatementIs
<1>5. FitsAt(1, At(e), NextWords(e))
  BY <1>4 DEF FitsAt
<1>6. Part(t)
  BY <1>1, <1>2, <1>3, <1>5, FitsHere
<1>7. /\ Extends(Read, t) /\ Len(t) = e /\ Mark(t) = LBrace /\ Text!Depth(t, e) = 1
      /\ Text!Words(t, e) = NextWords(e)
  BY <1>1, <1>2, <1>3, StatementRead
<1> HIDE DEF t, e
<1>8. InLocation(t, servers, server, NewLocation(At(pos + 1)))
  BY <1>1, <1>4, <1>7, OpenLocation, MarksAre
<1> QED BY <1>6, <1>8 DEF HasRead, t, e

LEMMA LocationCloses ==
  ASSUME ParserTypeOK, KeepsUp, block = "location", At(pos) = RBrace
  PROVE  HasRead(Upto(pos), "server", servers,
               [server EXCEPT !.locations = Append(@, location)], location)
<1> DEFINE t == Upto(pos)
<1>1. InFile /\ Part(Read) /\ InLocation(Read, servers, server, location)
  BY DEF ParserTypeOK, KeepsUp, HasRead, InFile
<1>2. Text!Depth(Read, Len(Read) + 1) = 2 /\ (Len(Read) = 0 \/ Read[Len(Read)] \in Marks)
  BY <1>1 DEF InLocation, Part
<1>3. Ends(pos)
  BY <1>1, EndsSoon, MarksAre
<1>4. NextWords(pos) = << >>
  <2>1. pos \in Nat /\ pos - pos = 0
    BY <1>1 DEF InFile
  <2>2. NextWords(pos) \in Seq(Words) /\ Len(NextWords(pos)) = 0
    BY <1>1, <1>3, <2>1, StatementIs
  <2> QED BY <2>2
<1>5. FitsAt(2, At(pos), NextWords(pos))
  BY <1>4 DEF FitsAt
<1>6. Part(t)
  BY <1>1, <1>2, <1>3, <1>5, FitsHere
<1>7. Extends(Read, t) /\ Len(t) = pos /\ Mark(t) = RBrace /\ Text!Depth(t, pos) = 2
  BY <1>1, <1>2, <1>3, StatementRead
<1> HIDE DEF t
<1>8. BetweenLocations(t, servers, [server EXCEPT !.locations = Append(@, location)])
  BY <1>1, <1>7, CloseLocation, MarksAre
<1> QED BY <1>6, <1>8 DEF HasRead, t

\* A value, or two, and the semicolon.
LEMMA TwoWords ==
  ASSUME InFile, IsWord(At(pos)), expect_value(pos + 1)
  PROVE  /\ Ends(pos + 2) /\ At(pos + 2) = Semicolon /\ Len(NextWords(pos + 2)) = 2
         /\ NextWords(pos + 2)[1] = At(pos) /\ NextWords(pos + 2)[2] = At(pos + 1)
         /\ At(pos + 1) \in Words
<1>1. IsWord(At(pos + 1)) /\ At(pos + 2) = Semicolon
  <2>1. (pos + 1) + 1 = pos + 2
    BY DEF InFile
  <2> QED BY <2>1 DEF expect_value
<1>2. Ends(pos + 2)
  BY <1>1, EndsSoon, MarksAre
<1>3. Len(NextWords(pos + 2)) = 2
  BY <1>2, StatementHas
<1>4. NextWords(pos + 2)[1] = At(pos) /\ NextWords(pos + 2)[2] = At(pos + 1)
  BY <1>2, <1>3, StatementIs
<1>5. At(pos + 1) \in Words
  BY <1>1, TokensAreThere DEF InFile
<1> QED BY <1>1, <1>2, <1>3, <1>4, <1>5

LEMMA ThreeWords ==
  ASSUME InFile, IsWord(At(pos)), IsWord(At(pos + 1)), expect_value(pos + 2)
  PROVE  /\ Ends(pos + 3) /\ At(pos + 3) = Semicolon /\ Len(NextWords(pos + 3)) = 3
         /\ NextWords(pos + 3)[1] = At(pos) /\ NextWords(pos + 3)[2] = At(pos + 1)
         /\ NextWords(pos + 3)[3] = At(pos + 2)
         /\ At(pos + 1) \in Words /\ At(pos + 2) \in Words
<1>1. IsWord(At(pos + 2)) /\ At(pos + 3) = Semicolon
  <2>1. (pos + 2) + 1 = pos + 3
    BY DEF InFile
  <2> QED BY <2>1 DEF expect_value
<1>2. Ends(pos + 3)
  BY <1>1, EndsSoon, MarksAre
<1>3. Len(NextWords(pos + 3)) = 3
  BY <1>2, StatementHas
<1>4. /\ NextWords(pos + 3)[1] = At(pos) /\ NextWords(pos + 3)[2] = At(pos + 1)
      /\ NextWords(pos + 3)[3] = At(pos + 2)
  BY <1>2, <1>3, StatementIs
<1>5. At(pos + 1) \in Words /\ At(pos + 2) \in Words
  BY <1>1, TokensAreThere DEF InFile
<1> QED BY <1>1, <1>2, <1>3, <1>4, <1>5

LEMMA ServerTakesEffect ==
  ASSUME ParserTypeOK, KeepsUp, block = "server",
         NEW e, Ends(e), At(e) = Semicolon, Text!ServerDirective(NextWords(e))
  PROVE  LET ws == NextWords(e)  v == ws[2] IN
         \E s : /\ HasRead(Upto(e), "server", servers, s, location)
                /\ ws[1] = "host" => s = [server EXCEPT !.host = v]
                /\ ws[1] = "port" => s = [server EXCEPT !.port = Spells[v].n]
                /\ ws[1] = "server_name" => s = [server EXCEPT !.server_name = v]
                /\ ws[1] = "client_max_body_size" =>
                     s = [server EXCEPT !.client_max_body_size = Text!Size(v) % Usize]
                /\ ws[1] = "error_page" =>
                     s = [server EXCEPT !.error_pages[Spells[v].n] = ws[3]]
<1> DEFINE t == Upto(e)
           sb == ServerBrace(Read)
           L == Text!Locations(Read, sb)
           s == ServerRead(t, sb, L)
<1>1. InFile /\ Part(Read) /\ BetweenLocations(Read, servers, server)
  BY DEF ParserTypeOK, KeepsUp, HasRead, InFile
<1>2. Text!Depth(Read, Len(Read) + 1) = 1 /\ (Len(Read) = 0 \/ Read[Len(Read)] \in Marks)
  BY <1>1 DEF BetweenLocations, Part
<1>3. FitsAt(1, At(e), NextWords(e))
  BY DEF FitsAt
<1>4. Part(t)
  BY <1>1, <1>2, <1>3, FitsHere
<1>5. /\ Extends(Read, t) /\ Len(t) = e /\ Mark(t) = Semicolon /\ Text!Depth(t, e) = 1
      /\ Text!Words(t, e) = NextWords(e)
  BY <1>1, <1>2, StatementRead
<1> HIDE DEF t
<1>6. /\ BetweenLocations(t, servers, s) /\ server = ServerRead(Read, sb, L)
      /\ LocationsRead(t, L) = LocationsRead(Read, L)
      /\ \A name : Sets(t, sb, name) <=> Text!Words(t, Len(t))[1] = name
  BY <1>1, <1>5, ServerSets, MarksAre
<1> DEFINE ws == NextWords(e)
           v == ws[2]
<1> HIDE DEF L, sb
<1>7. /\ ws[1] = "host" => s = [server EXCEPT !.host = v]
      /\ ws[1] = "port" => s = [server EXCEPT !.port = Spells[v].n]
      /\ ws[1] = "server_name" => s = [server EXCEPT !.server_name = v]
      /\ ws[1] = "client_max_body_size" =>
           s = [server EXCEPT !.client_max_body_size = Text!Size(v) % Usize]
      /\ ws[1] = "error_page" => s = [server EXCEPT !.error_pages[Spells[v].n] = ws[3]]
  BY <1>5, <1>6, ServerTakes
<1> HIDE DEF s
<1>8. HasRead(t, "server", servers, s, location)
  BY <1>4, <1>6 DEF HasRead
<1> QED BY <1>7, <1>8 DEF t

LEMMA ServerDirectiveReads ==
  ASSUME ParserTypeOK, KeepsUp, block = "server", IsWord(At(pos)),
         NEW o \in server_directive(pos), o.how = "ok"
  PROVE  \E e \in Nat : o.next = e + 1 /\ HasRead(Upto(e), "server", servers, o.block, location)
<1> DEFINE v == At(pos + 1)
<1>1. InFile /\ pos \in Nat
  BY DEF ParserTypeOK, InFile
<1>2. pos + 2 \in Nat /\ (pos + 2) + 1 = pos + 3 /\ pos + 3 \in Nat /\ (pos + 3) + 1 = pos + 4
  BY <1>1
<1>3. \/ At(pos) = "host" /\ expect_value(pos + 1) /\ o = To([server EXCEPT !.host = v], pos + 3)
      \/ /\ At(pos) = "port" /\ expect_value(pos + 1) /\ u16(v) # None
         /\ o = To([server EXCEPT !.port = u16(v)], pos + 3)
      \/ /\ At(pos) = "server_name" /\ expect_value(pos + 1)
         /\ o = To([server EXCEPT !.server_name = v], pos + 3)
      \/ /\ At(pos) = "client_max_body_size"
         /\ \E b \in parse_body_size(v) :
              /\ b.how = "ok" /\ expect_value(pos + 1)
              /\ o = To([server EXCEPT !.client_max_body_size = b.n], pos + 3)
      \/ /\ At(pos) = "error_page" /\ IsWord(v) /\ expect_value(pos + 2) /\ u16(v) # None
         /\ o = To([server EXCEPT !.error_pages[u16(v)] = At(pos + 2)], pos + 4)
  <2>1. \A how : o = Failed(how) => how = "ok"
    BY DEF Failed
  <2>2. "error" # "ok"
    OBVIOUS
  <2> QED BY <2>1, <2>2 DEF server_directive, v
<1> HIDE DEF v
<1>4. ASSUME NEW s, NEW n \in Nat, o = To(s, n + 1), HasRead(Upto(n), "server", servers, s, location)
      PROVE  \E e \in Nat : o.next = e + 1 /\ HasRead(Upto(e), "server", servers, o.block, location)
  BY <1>4 DEF To
<1> DEFINE ws == NextWords(pos + 2)
<1>5. ASSUME expect_value(pos + 1)
      PROVE  /\ Ends(pos + 2) /\ At(pos + 2) = Semicolon /\ Len(ws) = 2
             /\ ws[1] = At(pos) /\ ws[2] = v /\ v \in Words
  BY <1>1, <1>5, TwoWords DEF v
<1>6. CASE At(pos) = "host" /\ expect_value(pos + 1) /\ o = To([server EXCEPT !.host = v], pos + 3)
  <2>1. Text!ServerDirective(ws)
    BY <1>5, <1>6 DEF Text!ServerDirective
  <2>2. HasRead(Upto(pos + 2), "server", servers, [server EXCEPT !.host = v], location)
    BY <1>5, <1>6, <2>1, ServerTakesEffect
  <2> QED BY <1>2, <1>4, <1>6, <2>2
<1>7. CASE /\ At(pos) = "port" /\ expect_value(pos + 1) /\ u16(v) # None
           /\ o = To([server EXCEPT !.port = u16(v)], pos + 3)
  <2>1. v \in Words /\ Text!IsU16(v) /\ u16(v) = Spells[v].n
    BY <1>5, <1>7, SameNumbers
  <2>2. Text!ServerDirective(ws)
    BY <1>5, <1>7, <2>1 DEF Text!ServerDirective
  <2>3. HasRead(Upto(pos + 2), "server", servers, [server EXCEPT !.port = u16(v)], location)
    BY <1>5, <1>7, <2>1, <2>2, ServerTakesEffect
  <2> QED BY <1>2, <1>4, <1>7, <2>3
<1>8. CASE /\ At(pos) = "server_name" /\ expect_value(pos + 1)
           /\ o = To([server EXCEPT !.server_name = v], pos + 3)
  <2>1. Text!ServerDirective(ws)
    BY <1>5, <1>8 DEF Text!ServerDirective
  <2>2. HasRead(Upto(pos + 2), "server", servers, [server EXCEPT !.server_name = v], location)
    BY <1>5, <1>8, <2>1, ServerTakesEffect
  <2> QED BY <1>2, <1>4, <1>8, <2>2
<1>9. CASE /\ At(pos) = "client_max_body_size"
           /\ \E b \in parse_body_size(v) :
                /\ b.how = "ok" /\ expect_value(pos + 1)
                /\ o = To([server EXCEPT !.client_max_body_size = b.n], pos + 3)
  <2>1. PICK b \in parse_body_size(v) :
          /\ b.how = "ok" /\ expect_value(pos + 1)
          /\ o = To([server EXCEPT !.client_max_body_size = b.n], pos + 3)
    BY <1>9
  <2>2. Text!IsNumber(v, Usize - 1) /\ b.n = Text!Size(v) % Usize
    BY <1>5, <2>1, SizesAre
  <2>3. Text!ServerDirective(ws)
    BY <1>5, <1>9, <2>1, <2>2 DEF Text!ServerDirective
  <2>4. HasRead(Upto(pos + 2), "server", servers,
              [server EXCEPT !.client_max_body_size = b.n], location)
    BY <1>5, <1>9, <2>1, <2>2, <2>3, ServerTakesEffect
  <2> QED BY <1>2, <1>4, <2>1, <2>4
<1>10. CASE /\ At(pos) = "error_page" /\ IsWord(v) /\ expect_value(pos + 2) /\ u16(v) # None
            /\ o = To([server EXCEPT !.error_pages[u16(v)] = At(pos + 2)], pos + 4)
  <2> DEFINE us == NextWords(pos + 3)
  <2>1. /\ Ends(pos + 3) /\ At(pos + 3) = Semicolon /\ Len(us) = 3
        /\ us[1] = At(pos) /\ us[2] = v /\ us[3] = At(pos + 2) /\ v \in Words
    BY <1>1, <1>10, ThreeWords DEF v
  <2>2. Text!IsU16(v) /\ u16(v) = Spells[v].n
    BY <1>10, <2>1, SameNumbers
  <2>3. Text!ServerDirective(us)
    BY <1>10, <2>1, <2>2 DEF Text!ServerDirective
  <2>4. HasRead(Upto(pos + 3), "server", servers,
              [server EXCEPT !.error_pages[u16(v)] = At(pos + 2)], location)
    BY <1>10, <2>1, <2>2, <2>3, ServerTakesEffect
  <2> QED BY <1>2, <1>4, <1>10, <2>4
<1> QED BY <1>3, <1>6, <1>7, <1>8, <1>9, <1>10

LEMMA LocationTakesEffect ==
  ASSUME ParserTypeOK, KeepsUp, block = "location",
         NEW e, Ends(e), At(e) = Semicolon, Text!LocationDirective(NextWords(e))
  PROVE  LET ws == NextWords(e)  v == ws[2] IN
         \E l : /\ HasRead(Upto(e), "location", servers, server, l)
                /\ ws[1] = "root" => l = [location EXCEPT !.root = v]
                /\ ws[1] = "index" => l = [location EXCEPT !.index = v]
                /\ ws[1] = "redirect" => l = [location EXCEPT !.redirect = v]
                /\ ws[1] = "autoindex" => l = [location EXCEPT !.autoindex = (v = "on")]
                /\ ws[1] = "methods" => l = [location EXCEPT !.methods = @ \cup ToSet(Tail(ws))]
                /\ ws[1] = "cgi" => l = [location EXCEPT !.cgi = CgiOf(ws)]
<1> DEFINE t == Upto(e)
           lb == LocationBrace(Read)
           l == Text!LocationSaid(t, lb)
<1>1. InFile /\ Part(Read) /\ InLocation(Read, servers, server, location)
  BY DEF ParserTypeOK, KeepsUp, HasRead, InFile
<1>2. Text!Depth(Read, Len(Read) + 1) = 2 /\ (Len(Read) = 0 \/ Read[Len(Read)] \in Marks)
  BY <1>1 DEF InLocation, Part
<1>3. FitsAt(2, At(e), NextWords(e))
  BY DEF FitsAt
<1>4. Part(t)
  BY <1>1, <1>2, <1>3, FitsHere
<1>5. /\ Extends(Read, t) /\ Len(t) = e /\ Mark(t) = Semicolon /\ Text!Depth(t, e) = 2
      /\ Text!Words(t, e) = NextWords(e)
  BY <1>1, <1>2, StatementRead
<1> HIDE DEF t
<1>6. /\ InLocation(t, servers, server, l) /\ location = Text!LocationSaid(Read, lb)
      /\ Text!Words(t, lb) = Text!Words(Read, lb)
      /\ \A name : Sets(t, lb, name) <=> Text!Words(t, Len(t))[1] = name
  BY <1>1, <1>5, LocationSets, MarksAre
<1> DEFINE ws == NextWords(e)
           v == ws[2]
<1> HIDE DEF lb
<1>7. /\ ws[1] = "root" => l = [location EXCEPT !.root = v]
      /\ ws[1] = "index" => l = [location EXCEPT !.index = v]
      /\ ws[1] = "redirect" => l = [location EXCEPT !.redirect = v]
      /\ ws[1] = "autoindex" => l = [location EXCEPT !.autoindex = (v = "on")]
      /\ ws[1] = "methods" => l = [location EXCEPT !.methods = @ \cup ToSet(Tail(ws))]
      /\ ws[1] = "cgi" => l = [location EXCEPT !.cgi = CgiOf(ws)]
  BY <1>5, <1>6, LocationTakes
<1> HIDE DEF l
<1>8. HasRead(t, "location", servers, server, l)
  BY <1>4, <1>6 DEF HasRead
<1> QED BY <1>7, <1>8 DEF t

\* The words end somewhere.
LEMMA EndOfWordsIs ==
  ASSUME InFile, NEW i \in 1 .. Len(tokens) + 1
  PROVE  LET j == EndOfWords(i) IN
         /\ j \in i .. Len(tokens) + 1 /\ ~IsWord(At(j)) /\ \A k \in i .. j - 1 : IsWord(At(k))
<1> DEFINE D == {j \in i .. Len(tokens) + 1 : ~IsWord(At(j))}
           m == Min(D)
<1>1. Len(tokens) \in Nat /\ i \in Nat /\ i <= Len(tokens) + 1 /\ DOMAIN tokens = 1 .. Len(tokens)
  BY DEF InFile
<1>2. At(Len(tokens) + 1) = End
  <2>1. Len(tokens) + 1 \notin 1 .. Len(tokens)
    BY <1>1
  <2> QED BY <1>1, <2>1 DEF At
<1>3. Len(tokens) + 1 \in D
  BY <1>1, <1>2 DEF IsWord
<1>4. m \in D /\ \A j \in D : m <= j
  <2>1. D \in SUBSET Nat /\ D # {}
    BY <1>1, <1>3
  <2> HIDE DEF D
  <2> QED BY <2>1, MinIsLeast
<1> HIDE DEF m
<1>5. \A k \in i .. m - 1 : IsWord(At(k))
  <2> TAKE k \in i .. m - 1
  <2>1. k \in i .. Len(tokens) + 1 /\ ~(m <= k)
    BY <1>1, <1>4
  <2> QED BY <1>4, <2>1
<1>6. \E j \in i .. Len(tokens) + 1 : ~IsWord(At(j)) /\ \A k \in i .. j - 1 : IsWord(At(k))
  BY <1>4, <1>5
<1> QED BY <1>6 DEF EndOfWords

\* The words behind the first.
LEMMA RestIs ==
  ASSUME InFile, NEW e, Ends(e), e # pos
  PROVE  LET rest == {At(j) : j \in pos + 1 .. e - 1} IN
         /\ EndOfWords(pos + 1) = e
         /\ rest = ToSet(Tail(NextWords(e))) /\ rest = Text!ToSet(Tail(NextWords(e)))
<1> DEFINE j == EndOfWords(pos + 1)
           ws == NextWords(e)
           n == e - pos
<1>1. /\ pos \in Nat \ {0} /\ Len(tokens) \in Nat /\ e \in Nat /\ pos + 1 <= e /\ e <= Len(tokens)
      /\ n \in Nat \ {0} /\ pos + 1 \in 1 .. Len(tokens) + 1
  BY DEF InFile, Ends
<1>2. j \in pos + 1 .. Len(tokens) + 1 /\ ~IsWord(At(j)) /\ \A k \in pos + 1 .. j - 1 : IsWord(At(k))
  BY <1>1, EndOfWordsIs
<1> HIDE DEF j
<1>3. ~IsWord(At(e)) /\ \A k \in pos .. e - 1 : IsWord(At(k))
  BY DEF IsWord, Ends
<1>4. j = e
  <2>1. CASE j < e
    <3>1. j \in pos .. e - 1
      BY <1>1, <1>2, <2>1
    <3> QED BY <1>2, <1>3, <3>1
  <2>2. CASE e < j
    <3>1. e \in pos + 1 .. j - 1
      BY <1>1, <1>2, <2>2
    <3> QED BY <1>2, <1>3, <3>1
  <2> QED BY <1>1, <1>2, <2>1, <2>2
<1>5. ws \in Seq(Words) /\ Len(ws) = n /\ \A k \in 1 .. n : ws[k] = At(pos + k - 1)
  BY StatementIs
<1> HIDE DEF ws
<1> DEFINE us == Tail(ws)
<1>6. us \in Seq(Words) /\ DOMAIN us = 1 .. n - 1 /\ \A k \in 1 .. n - 1 : us[k] = ws[k + 1]
  <2>1. ws # << >>
    BY <1>1, <1>5
  <2> HIDE DEF n
  <2> QED BY <1>1, <1>5, <2>1
<1> HIDE DEF us
<1>7. \A k \in 1 .. n - 1 : us[k] = At(pos + k) /\ pos + k \in pos + 1 .. e - 1
  <2> TAKE k \in 1 .. n - 1
  <2>1. k \in Nat /\ k + 1 \in 1 .. n /\ pos + (k + 1) - 1 = pos + k /\ pos + k \in pos + 1 .. e - 1
    BY <1>1
  <2> QED BY <1>5, <1>6, <2>1
<1>8. \A i \in pos + 1 .. e - 1 : i - pos \in 1 .. n - 1 /\ pos + (i - pos) = i
  BY <1>1
<1>9. {At(i) : i \in pos + 1 .. e - 1} = {us[k] : k \in DOMAIN us}
  <2> HIDE DEF n
  <2> QED BY <1>6, <1>7, <1>8
<1> QED BY <1>4, <1>9 DEF us, ws, j, ToSet, Text!ToSet

LEMMA LocationDirectiveReads ==
  ASSUME ParserTypeOK, KeepsUp, block = "location", IsWord(At(pos)),
         NEW o \in location_directive(pos), o.how = "ok"
  PROVE  \E e \in Nat : o.next = e + 1 /\ HasRead(Upto(e), "location", servers, server, o.block)
<1> DEFINE v == At(pos + 1)
           end == EndOfWords(pos + 1)
           listed == {At(j) : j \in pos + 1 .. end - 1}
<1>1. /\ InFile /\ pos \in Nat /\ pos + 1 \in 1 .. Len(tokens) + 1
      /\ tokens \in Seq(Marks \cup Words)
  <2>1. InFile
    BY DEF ParserTypeOK, InFile
  <2>2. pos \in 1 .. Len(tokens)
    BY <2>1, TokensAreThere DEF InFile
  <2> QED BY <2>1, <2>2 DEF InFile
<1>2. pos + 2 \in Nat /\ (pos + 2) + 1 = pos + 3 /\ pos + 3 \in Nat /\ (pos + 3) + 1 = pos + 4
  BY <1>1
<1>3. \/ At(pos) = "root" /\ expect_value(pos + 1) /\ o = To([location EXCEPT !.root = v], pos + 3)
      \/ At(pos) = "index" /\ expect_value(pos + 1) /\ o = To([location EXCEPT !.index = v], pos + 3)
      \/ /\ At(pos) = "redirect" /\ expect_value(pos + 1)
         /\ o = To([location EXCEPT !.redirect = v], pos + 3)
      \/ /\ At(pos) = "autoindex" /\ expect_value(pos + 1) /\ v \in {"on", "off"}
         /\ o = To([location EXCEPT !.autoindex = (v = "on")], pos + 3)
      \/ /\ At(pos) = "methods" /\ listed \subseteq {"GET", "POST", "DELETE"}
         /\ At(end) = Semicolon /\ o = To([location EXCEPT !.methods = @ \cup listed], end + 1)
      \/ /\ At(pos) = "cgi" /\ expect_value(pos + 1)
         /\ o = To([location EXCEPT !.cgi = [extension |-> v,
                                             interpreter |-> DefaultInterpreter(v)]], pos + 3)
      \/ /\ At(pos) = "cgi" /\ IsWord(v) /\ expect_value(pos + 2)
         /\ o = To([location EXCEPT !.cgi = [extension |-> v, interpreter |-> At(pos + 2)]], pos + 4)
  <2>1. \A how : o = Failed(how) => how = "ok"
    BY DEF Failed
  <2>2. "error" # "ok"
    OBVIOUS
  <2> QED BY <2>1, <2>2 DEF location_directive, v, end, listed
<1>4. ASSUME NEW l, NEW n \in Nat, o = To(l, n + 1), HasRead(Upto(n), "location", servers, server, l)
      PROVE  \E e \in Nat : o.next = e + 1 /\ HasRead(Upto(e), "location", servers, server, o.block)
  BY <1>4 DEF To
<1> DEFINE ws == NextWords(pos + 2)
<1> HIDE DEF v, end, listed
<1>5. ASSUME expect_value(pos + 1)
      PROVE  /\ Ends(pos + 2) /\ At(pos + 2) = Semicolon /\ Len(ws) = 2
             /\ ws[1] = At(pos) /\ ws[2] = v /\ v \in Words
  BY <1>1, <1>5, TwoWords DEF v
<1>6. CASE At(pos) = "root" /\ expect_value(pos + 1) /\ o = To([location EXCEPT !.root = v], pos + 3)
  <2>1. Text!LocationDirective(ws)
    BY <1>5, <1>6 DEF Text!LocationDirective
  <2>2. HasRead(Upto(pos + 2), "location", servers, server, [location EXCEPT !.root = v])
    BY <1>5, <1>6, <2>1, LocationTakesEffect
  <2> QED BY <1>2, <1>4, <1>6, <2>2
<1>7. CASE At(pos) = "index" /\ expect_value(pos + 1) /\ o = To([location EXCEPT !.index = v], pos + 3)
  <2>1. Text!LocationDirective(ws)
    BY <1>5, <1>7 DEF Text!LocationDirective
  <2>2. HasRead(Upto(pos + 2), "location", servers, server, [location EXCEPT !.index = v])
    BY <1>5, <1>7, <2>1, LocationTakesEffect
  <2> QED BY <1>2, <1>4, <1>7, <2>2
<1>8. CASE /\ At(pos) = "redirect" /\ expect_value(pos + 1)
           /\ o = To([location EXCEPT !.redirect = v], pos + 3)
  <2>1. Text!LocationDirective(ws)
    BY <1>5, <1>8 DEF Text!LocationDirective
  <2>2. HasRead(Upto(pos + 2), "location", servers, server, [location EXCEPT !.redirect = v])
    BY <1>5, <1>8, <2>1, LocationTakesEffect
  <2> QED BY <1>2, <1>4, <1>8, <2>2
<1>9. CASE /\ At(pos) = "autoindex" /\ expect_value(pos + 1) /\ v \in {"on", "off"}
           /\ o = To([location EXCEPT !.autoindex = (v = "on")], pos + 3)
  <2>1. Text!LocationDirective(ws)
    BY <1>5, <1>9 DEF Text!LocationDirective
  <2>2. HasRead(Upto(pos + 2), "location", servers, server, [location EXCEPT !.autoindex = (v = "on")])
    BY <1>5, <1>9, <2>1, LocationTakesEffect
  <2> QED BY <1>2, <1>4, <1>9, <2>2
<1>10. CASE /\ At(pos) = "methods" /\ listed \subseteq {"GET", "POST", "DELETE"}
            /\ At(end) = Semicolon /\ o = To([location EXCEPT !.methods = @ \cup listed], end + 1)
  <2> DEFINE us == NextWords(end)
  <2>1. end \in pos + 1 .. Len(tokens) + 1 /\ \A k \in pos + 1 .. end - 1 : IsWord(At(k))
    BY <1>1, EndOfWordsIs DEF end
  <2>2. At(end) \in Marks
    BY <1>10, MarksAre
  <2>3. end \in 1 .. Len(tokens)
    BY <1>1, <2>2, TokensAreThere
  <2>4. end \in Nat /\ end # pos /\ end - pos >= 1 /\ end \in pos .. Len(tokens)
    BY <1>1, <2>1, <2>3
  <2>5. \A k \in pos .. end - 1 : IsWord(At(k))
    <3> TAKE k \in pos .. end - 1
    <3>1. k = pos \/ k \in pos + 1 .. end - 1
      BY <1>1
    <3> QED BY <2>1, <3>1
  <2>6. Ends(end)
    BY <2>2, <2>4, <2>5 DEF Ends
  <2>7. listed = ToSet(Tail(us)) /\ listed = Text!ToSet(Tail(us))
    BY <1>1, <2>4, <2>6, RestIs DEF listed
  <2>8. Len(us) >= 1 /\ us[1] = "methods"
    BY <1>1, <1>10, <2>4, <2>6, StatementIs
  <2> HIDE DEF us
  <2>9. Text!LocationDirective(us)
    BY <1>10, <2>7, <2>8 DEF Text!LocationDirective
  <2>10. HasRead(Upto(end), "location", servers, server,
               [location EXCEPT !.methods = @ \cup ToSet(Tail(us))])
    <3>1. At(end) = Semicolon
      BY <1>10
    <3>2. PICK l : /\ HasRead(Upto(end), "location", servers, server, l)
                   /\ us[1] = "methods" => l = [location EXCEPT !.methods = @ \cup ToSet(Tail(us))]
      BY <2>6, <2>9, <3>1, LocationTakesEffect DEF us
    <3> QED BY <2>8, <3>2
  <2>11. [location EXCEPT !.methods = @ \cup ToSet(Tail(us))] = [location EXCEPT !.methods = @ \cup listed]
    BY <2>7
  <2> QED BY <1>4, <1>10, <2>4, <2>10, <2>11
<1>11. CASE /\ At(pos) = "cgi" /\ expect_value(pos + 1)
            /\ o = To([location EXCEPT !.cgi = [extension |-> v,
                                                interpreter |-> DefaultInterpreter(v)]], pos + 3)
  <2>1. Text!LocationDirective(ws)
    BY <1>5, <1>11 DEF Text!LocationDirective
  <2>2. CgiOf(ws) = [extension |-> v, interpreter |-> DefaultInterpreter(v)]
    BY <1>5, <1>11 DEF CgiOf
  <2>3. HasRead(Upto(pos + 2), "location", servers, server, [location EXCEPT !.cgi = CgiOf(ws)])
    BY <1>5, <1>11, <2>1, LocationTakesEffect
  <2> QED BY <1>2, <1>4, <1>11, <2>2, <2>3
<1>12. CASE /\ At(pos) = "cgi" /\ IsWord(v) /\ expect_value(pos + 2)
            /\ o = To([location EXCEPT !.cgi = [extension |-> v, interpreter |-> At(pos + 2)]], pos + 4)
  <2> DEFINE us == NextWords(pos + 3)
  <2>1. /\ Ends(pos + 3) /\ At(pos + 3) = Semicolon /\ Len(us) = 3
        /\ us[1] = At(pos) /\ us[2] = v /\ us[3] = At(pos + 2) /\ v \in Words
    BY <1>1, <1>12, ThreeWords DEF v
  <2>2. Text!LocationDirective(us)
    BY <1>12, <2>1 DEF Text!LocationDirective
  <2>3. CgiOf(us) = [extension |-> v, interpreter |-> At(pos + 2)]
    BY <2>1 DEF CgiOf
  <2>4. HasRead(Upto(pos + 3), "location", servers, server, [location EXCEPT !.cgi = CgiOf(us)])
    BY <1>12, <2>1, <2>2, LocationTakesEffect
  <2> QED BY <1>2, <1>4, <1>12, <2>3, <2>4
<1> QED BY <1>3, <1>6, <1>7, <1>8, <1>9, <1>10, <1>11, <1>12

LEMMA ParserStartsUp == ParserInit => KeepsUp
<1> SUFFICES ASSUME ParserInit PROVE KeepsUp
  OBVIOUS
<1> DEFINE q == Read
<1>1. tokens \in Texts /\ tokens \in Seq(Marks \cup Words) /\ pos = 1 /\ block = "top" /\ servers = << >>
  BY TextsAssumption DEF ParserInit
<1>2. q = << >> /\ q \in Seq(Marks \cup Words) /\ Len(q) = 0 /\ DOMAIN q = {}
  BY <1>1 DEF Read
<1> HIDE DEF q
<1>3. Text!Statements(q) = {}
  BY <1>2, TextOperators
<1>4. Part(q)
  BY <1>2, <1>3 DEF Part, File
<1>5. Braces(q, 0) = {}
  BY <1>3 DEF Braces
<1>6. Text!Depth(q, Len(q) + 1) = 0
  <2>1. Len(q) + 1 = 1
    BY <1>2
  <2> QED BY <2>1, DepthAtStart
<1>7. ServersRead(q, {}, << >>)
  <2> DEFINE bs == Text!InOrder({})
  <2>1. DOMAIN bs = {}
    BY NothingInOrder
  <2> HIDE DEF bs
  <2>2. << >> = [i \in DOMAIN bs |-> Text!ServerSaid(q, bs[i])]
    BY <2>1
  <2> QED BY <2>2 DEF ServersRead, bs
<1>8. BetweenServers(q, << >>)
  BY <1>2, <1>5, <1>6, <1>7 DEF BetweenServers
<1> QED BY <1>1, <1>4, <1>8 DEF KeepsUp, HasRead, q

LEMMA ParserKeepsUp == ParserTypeOK /\ KeepsUp /\ ParserNext => KeepsUp'
<1> SUFFICES ASSUME ParserTypeOK, KeepsUp, ParserNext PROVE KeepsUp'
  OBVIOUS
<1>1. tokens \in Texts /\ tokens' = tokens /\ pos \in Nat
  BY DEF KeepsUp, ParserTypeOK, ParserNext, parse_config, parse_server, parse_location, Parsing
<1>2. ASSUME NEW e \in Nat, pos' = e + 1, HasRead(Upto(e), block', servers', server', location')
      PROVE  KeepsUp'
  <2>1. pos' - 1 = e
    BY <1>2
  <2>2. (Read)' = Upto(e)
    BY <1>1, <2>1 DEF Read, Upto
  <2> QED BY <1>1, <1>2, <2>2 DEF KeepsUp
<1>3. ASSUME NEW how, Fail(how) PROVE KeepsUp'
  <2>1. /\ pos' = pos /\ block' = block /\ servers' = servers /\ server' = server
        /\ location' = location
    BY <1>3 DEF Fail
  <2>2. (Read)' = Read
    BY <1>1, <2>1 DEF Read
  <2> QED BY <1>1, <2>1, <2>2 DEF KeepsUp
<1>4. CASE parse_config
  <2>1. CASE /\ At(pos) = "server" /\ At(pos + 1) = LBrace
             /\ pos' = pos + 2 /\ block' = "server" /\ server' = NewServer
             /\ UNCHANGED <<servers, location, status>>
    <3>1. HasRead(Upto(pos + 1), "server", servers, NewServer, location)
      BY <1>4, <2>1, ServerOpens DEF parse_config, Parsing
    <3>2. pos + 1 \in Nat /\ pos' = (pos + 1) + 1
      BY <1>1, <2>1
    <3> QED BY <1>2, <2>1, <3>1, <3>2
  <2> QED BY <1>3, <1>4, <2>1 DEF parse_config
<1>5. CASE parse_server
  <2>0. block = "server"
    BY <1>5 DEF parse_server, Parsing
  <2>1. CASE /\ At(pos) = RBrace /\ server.host # None /\ server.port # None
             /\ pos' = pos + 1 /\ block' = "top" /\ servers' = Append(servers, server)
             /\ UNCHANGED <<server, location, status>>
    <3>1. HasRead(Upto(pos), "top", Append(servers, server), server, location)
      BY <2>0, <2>1, ServerCloses
    <3> QED BY <1>1, <1>2, <2>1, <3>1
  <2>2. CASE /\ At(pos) = "location" /\ IsWord(At(pos + 1)) /\ At(pos + 2) = LBrace
             /\ pos' = pos + 3 /\ block' = "location" /\ location' = NewLocation(At(pos + 1))
             /\ UNCHANGED <<servers, server, status>>
    <3>1. HasRead(Upto(pos + 2), "location", servers, server, NewLocation(At(pos + 1)))
      BY <2>0, <2>2, LocationOpens
    <3>2. pos + 2 \in Nat /\ pos' = (pos + 2) + 1
      BY <1>1, <2>2
    <3> QED BY <1>2, <2>2, <3>1, <3>2
  <2>3. ASSUME IsWord(At(pos)), NEW o \in server_directive(pos), o.how = "ok",
               server' = o.block, pos' = o.next, UNCHANGED <<block, servers, location, status>>
        PROVE  KeepsUp'
    <3>1. PICK e \in Nat :
            o.next = e + 1 /\ HasRead(Upto(e), "server", servers, o.block, location)
      BY <2>0, <2>3, ServerDirectiveReads
    <3> QED BY <1>2, <2>0, <2>3, <3>1
  <2> QED BY <1>3, <1>5, <2>1, <2>2, <2>3 DEF parse_server
<1>6. CASE parse_location
  <2>0. block = "location"
    BY <1>6 DEF parse_location, Parsing
  <2>1. CASE /\ At(pos) = RBrace
             /\ pos' = pos + 1 /\ block' = "server"
             /\ server' = [server EXCEPT !.locations = Append(@, location)]
             /\ UNCHANGED <<servers, location, status>>
    <3>1. HasRead(Upto(pos), "server", servers,
                [server EXCEPT !.locations = Append(@, location)], location)
      BY <2>0, <2>1, LocationCloses
    <3> QED BY <1>1, <1>2, <2>1, <3>1
  <2>2. ASSUME IsWord(At(pos)), NEW o \in location_directive(pos), o.how = "ok",
               location' = o.block, pos' = o.next, UNCHANGED <<block, servers, server, status>>
        PROVE  KeepsUp'
    <3>1. PICK e \in Nat :
            o.next = e + 1 /\ HasRead(Upto(e), "location", servers, server, o.block)
      BY <2>0, <2>2, LocationDirectiveReads
    <3> QED BY <1>2, <2>0, <2>2, <3>1
  <2> QED BY <1>3, <1>6, <2>1, <2>2 DEF parse_location
<1> QED BY <1>4, <1>5, <1>6 DEF ParserNext

-----------------------------------------------------------------------------
(* A file that is accepted.                                                 *)

\* At the end the whole file has been read.
LEMMA FileIsRead == ASSUME InFile, At(pos) = End PROVE Read = tokens /\ pos = Len(tokens) + 1
<1>1. /\ tokens \in Seq(Marks \cup Words) /\ Len(tokens) \in Nat /\ DOMAIN tokens = 1 .. Len(tokens)
      /\ pos \in Nat /\ 1 <= pos /\ pos <= Len(tokens) + 1
      /\ \A i \in 1 .. Len(tokens) : tokens[i] \in Marks \cup Words
  BY DEF InFile
<1>2. End \notin Marks
  BY Zenon DEF End, Marks, LBrace, RBrace, Semicolon
<1>3. pos \notin 1 .. Len(tokens)
  <2> SUFFICES ASSUME pos \in 1 .. Len(tokens) PROVE FALSE
    OBVIOUS
  <2>1. At(pos) \in Marks \cup Words
    BY <1>1 DEF At
  <2> QED BY <1>2, <2>1, WordsAreApart
<1>4. pos - 1 = Len(tokens) /\ pos = Len(tokens) + 1
  BY <1>1, <1>3
<1>5. SubSeq(tokens, 1, Len(tokens)) = tokens
  BY <1>1
<1> QED BY <1>4, <1>5 DEF Read

\* Servers with the same key are the same, in the file as in what was built.
LEMMA KeysAreThere ==
  ASSUME NEW q, NEW n \in Nat, NEW S, S \subseteq 1 .. n, NEW ss, ServersRead(q, S, ss)
  PROVE  LET bs == Text!InOrder(S) IN
         /\ Lists(bs, S) /\ DOMAIN ss = DOMAIN bs
         /\ \A i \in DOMAIN bs :
              <<ss[i].host, ss[i].port, ss[i].server_name>> = Text!Key(q, bs[i])
<1> DEFINE bs == Text!InOrder(S)
<1>1. ss = [i \in DOMAIN bs |-> Text!ServerSaid(q, bs[i])]
  BY DEF ServersRead
<1>2. Lists(bs, S)
  BY InOrderHas
<1> HIDE DEF bs
<1>3. \A b : <<Text!ServerSaid(q, b).host, Text!ServerSaid(q, b).port,
               Text!ServerSaid(q, b).server_name>> = Text!Key(q, b)
  BY DEF Text!ServerSaid, Text!Key
<1>4. \A i \in DOMAIN bs : ss[i] = Text!ServerSaid(q, bs[i])
  BY <1>1
<1> QED BY <1>1, <1>2, <1>3, <1>4 DEF bs

LEMMA AcceptedIsWellFormed ==
  ASSUME ParserTypeOK, KeepsUp, block = "top", At(pos) = End, servers # << >>, ~Duplicates
  PROVE  Text!WellFormed(tokens) /\ servers = Text!Meaning(tokens)
<1> DEFINE S == Text!Servers(tokens)
           bs == Text!InOrder(S)
<1>1. InFile
  BY DEF ParserTypeOK, InFile
<1>2. Read = tokens
  BY <1>1, FileIsRead
<1>3. Part(tokens) /\ BetweenServers(tokens, servers)
  BY <1>2 DEF KeepsUp, HasRead
<1>4. Braces(tokens, 0) = S
  BY DEF Braces, Text!Servers
<1>5. ServersRead(tokens, S, servers) /\ Text!Depth(tokens, Len(tokens) + 1) = 0
  BY <1>3, <1>4 DEF BetweenServers
<1>6. Len(tokens) \in Nat /\ S \subseteq 1 .. Len(tokens)
  BY <1>3, <1>4, BracesAre DEF Part
<1> HIDE DEF S
<1>7. /\ Lists(bs, S) /\ DOMAIN servers = DOMAIN bs
      /\ \A i \in DOMAIN bs : <<servers[i].host, servers[i].port, servers[i].server_name>>
                                = Text!Key(tokens, bs[i])
  BY <1>5, <1>6, KeysAreThere
<1>8. tokens # << >>
  <2> SUFFICES ASSUME tokens = << >> PROVE FALSE
    OBVIOUS
  <2>1. Len(tokens) = 0
    OBVIOUS
  <2>2. S = {}
    BY <1>6, <2>1
  <2>3. bs = << >>
    BY <2>2, NothingInOrder
  <2> HIDE DEF bs
  <2>4. DOMAIN servers = {}
    BY <1>7, <2>3
  <2> QED BY <2>4 DEF ParserTypeOK
<1>9. Text!IsMark(Text!Last(tokens))
  <2>1. tokens[Len(tokens)] \in Marks
    <3>1. Len(tokens) # 0
      BY <1>3, <1>8 DEF Part, File
    <3> QED BY <1>3, <3>1 DEF Part
  <2>2. Text!Last(tokens) = tokens[Len(tokens)]
    BY DEF Text!Last
  <2>3. \A m : m \in Marks => Text!IsMark(m)
    BY MarksAre DEF Text!IsMark
  <2> QED BY <2>1, <2>2, <2>3
<1>10. \A b \in S : Text!Saying(tokens, b, "host") # {} /\ Text!Saying(tokens, b, "port") # {}
  BY <1>5 DEF ServersRead, Complete
<1>11. ASSUME NEW b \in S, NEW c \in S, Text!Key(tokens, b) = Text!Key(tokens, c) PROVE b = c
  <2> HIDE DEF bs
  <2>1. PICK i \in DOMAIN bs : bs[i] = b
    BY <1>7 DEF Lists
  <2>2. PICK j \in DOMAIN bs : bs[j] = c
    BY <1>7 DEF Lists
  <2>3. i = j
    BY <1>7, <1>11, <2>1, <2>2 DEF Duplicates
  <2> QED BY <2>1, <2>2, <2>3
<1>12. \A e \in Text!Statements(tokens) : Text!Fits(tokens, e)
  BY <1>3 DEF Part
<1>13. Text!WellFormed(tokens)
  BY <1>5, <1>8, <1>9, <1>10, <1>11, <1>12 DEF Text!WellFormed, S
<1>14. servers = Text!Meaning(tokens)
  BY <1>5 DEF ServersRead, Text!Meaning, S
<1> QED BY <1>13, <1>14

-----------------------------------------------------------------------------
(* A file that is rejected.                                                 *)

\* The block around a statement is the last one opened one level up.
LEMMA LastOpened ==
  ASSUME NEW t, NEW i \in Nat \ {0}, NEW j \in 1 .. i - 1, t[j] = Text!LBrace,
         Text!Depth(t, j) = Text!Depth(t, i) - 1
  PROVE  j <= Text!Block(t, i)
<1> DEFINE S == {k \in Text!Opened(t, i) : Text!Depth(t, k) = Text!Depth(t, i) - 1}
<1>1. \A k \in S : k \in 1 .. i - 1
  BY OpenedAre
<1>2. \A k \in 1 .. i - 1 : k \in Nat /\ k <= i
  OBVIOUS
<1>3. j \in S
  BY OpenedAre
<1>4. Text!Block(t, i) = Text!Max(S)
  BY DEF Text!Block
<1> HIDE DEF S
<1>5. S \subseteq Nat /\ S # {} /\ \A x \in S : x <= i
  BY <1>1, <1>2, <1>3
<1>6. \A x \in S : x <= Text!Max(S)
  BY <1>5, MaxOf
<1> QED BY <1>3, <1>4, <1>6

\* Behind the closing brace of a block no statement belongs to it.
LEMMA ClosedForGood ==
  ASSUME NEW t, NEW b \in Nat, NEW c \in Nat, b < c, Text!Depth(t, c + 1) <= Text!Depth(t, b),
         NEW e \in Nat, c < e, Text!Depth(t, e) >= 1
  PROVE  Text!Block(t, e) # b
<1> SUFFICES ASSUME Text!Block(t, e) = b PROVE FALSE
  OBVIOUS
<1>1. e \in Nat \ {0} /\ c + 1 \in Nat \ {0} /\ c + 1 <= e
  OBVIOUS
<1>2. Text!Depth(t, b) = Text!Depth(t, e) - 1
  BY <1>1, BlocksAreBefore
<1>3. Text!Depth(t, b) \in Int /\ Text!Depth(t, e) > Text!Depth(t, b)
  <2>1. Text!Depth(t, b) \in Int /\ Text!Depth(t, e) \in Int
    BY DepthType
  <2> QED BY <1>2, <2>1
<1>4. PICK j \in Nat : /\ c + 1 <= j /\ j < e /\ t[j] = Text!LBrace
                       /\ Text!Depth(t, j) = Text!Depth(t, b)
  BY <1>1, <1>3, DepthIsCrossed
<1>5. j \in 1 .. e - 1
  <2>1. c + 1 <= j /\ j < e
    BY <1>4
  <2> QED BY <2>1
<1>6. j <= b
  BY <1>1, <1>2, <1>4, <1>5, LastOpened
<1>7. c + 1 <= j
  BY <1>4
<1> QED BY <1>6, <1>7

\* The words of a statement are words.
LEMMA StatementWords ==
  ASSUME NEW t, File(t), NEW e \in Text!Statements(t)
  PROVE  Text!Words(t, e) \in Seq(Words)
<1> DEFINE S == {0} \cup {i \in Text!Statements(t) : i < e}
           m == Text!Max(S)
<1>1. /\ Len(t) \in Nat /\ DOMAIN t = 1 .. Len(t) /\ e \in 1 .. Len(t) /\ t \in Seq(Marks \cup Words)
      /\ \A i \in 1 .. Len(t) : t[i] \in Marks \cup Words
      /\ \A i : i \in Text!Statements(t) <=> i \in 1 .. Len(t) /\ t[i] \in Marks
  BY FilesAre DEF File
<1>2. m \in S /\ \A x \in S : x <= m
  <2>1. S \subseteq Nat /\ S # {} /\ \A x \in S : x <= e
    BY <1>1
  <2>2. e \in Nat
    BY <1>1
  <2> HIDE DEF S
  <2> QED BY <2>1, <2>2, MaxOf
<1>3. m \in Nat /\ m < e
  BY <1>1, <1>2
<1> HIDE DEF m
<1>4. \A k \in m + 1 .. e - 1 : t[k] \in Words
  <2> TAKE k \in m + 1 .. e - 1
  <2>1. k \in 1 .. Len(t) /\ k < e /\ ~(k <= m)
    BY <1>1, <1>3
  <2>2. k \notin Text!Statements(t)
    BY <1>2, <2>1
  <2> QED BY <1>1, <2>1, <2>2
<1> HIDE DEF S
<1> DEFINE ws == SubSeq(t, m + 1, e - 1)
<1>5. ws \in Seq(Words)
  <2>1. m + 1 \in 1 .. Len(t) /\ e - 1 \in m .. Len(t) /\ e \in Nat
    BY <1>1, <1>3
  <2>2. /\ ws \in Seq(Marks \cup Words) /\ Len(ws) = e - 1 - m
        /\ \A k \in 1 .. e - 1 - m : ws[k] = t[m + k] /\ m + k \in m + 1 .. e - 1
    BY <1>1, <1>3, <2>1
  <2>3. \A k \in 1 .. Len(ws) : ws[k] \in Words
    BY <1>4, <2>2
  <2> HIDE DEF ws
  <2> QED BY <2>2, <2>3
<1>6. Text!Words(t, e) = ws
  BY DEF Text!Words, S, m
<1> QED BY <1>5, <1>6

\* What is said in a file that fits is said with as many words as it takes.
LEMMA SaidWithWords ==
  ASSUME NEW t, Part(t), NEW b, NEW name \in {"host", "port"}, NEW e \in Text!Saying(t, b, name)
  PROVE  LET v == Text!Words(t, e)[2] IN
         v \in Words /\ v # None /\ (name = "port" => Spells[v].n # None)
<1> DEFINE ws == Text!Words(t, e)
           d == Text!Depth(t, e)
<1>1. /\ e \in Text!Statements(t) /\ t[e] = Semicolon /\ ws[1] = name /\ t[e] \in Marks
  BY MarksAre DEF Text!Saying
<1>2. ws \in Seq(Words)
  BY <1>1, StatementWords DEF Part
<1>3. FitsAt(d, t[e], ws)
  BY <1>1, FitsIs DEF Part
<1> HIDE DEF ws, d
<1>4. Text!ServerDirective(ws) \/ Text!LocationDirective(ws)
  BY <1>1, <1>3, MarksAre DEF FitsAt
<1>5. ~Text!LocationDirective(ws)
  BY <1>1 DEF Text!LocationDirective
<1>6. Len(ws) = 2 /\ (name = "port" => Text!IsU16(ws[2]))
  BY <1>1, <1>4, <1>5 DEF Text!ServerDirective
<1>7. ws[2] \in Words
  <2>1. Len(ws) = 2 /\ 2 \in 1 .. 2
    BY <1>6
  <2>2. \A k \in 1 .. Len(ws) : ws[k] \in Words
    BY <1>2
  <2> QED BY <2>1, <2>2
<1>8. name = "port" => Spells[ws[2]].n # None
  BY <1>6, <1>7, SameNumbers
<1> QED BY <1>7, <1>8, WordsAreApart DEF ws

\* A field that is missing has not been said.
LEMMA MissingIsNotSaid ==
  ASSUME NEW q, Part(q), NEW b, NEW L
  PROVE  /\ ServerRead(q, b, L).host = None => Text!Saying(q, b, "host") = {}
         /\ ServerRead(q, b, L).port = None => Text!Saying(q, b, "port") = {}
<1>1. ASSUME NEW name, Text!Saying(q, b, name) # {}
      PROVE  /\ Text!Max(Text!Saying(q, b, name)) \in Text!Saying(q, b, name)
             /\ Text!Said(q, b, name, None) = Text!Words(q, Text!Max(Text!Saying(q, b, name)))[2]
  <2> DEFINE S == Text!Saying(q, b, name)
  <2>1. S \subseteq Text!Statements(q)
    BY DEF Text!Saying
  <2>2. Len(q) \in Nat /\ \A i \in Text!Statements(q) : i \in 1 .. Len(q)
    BY FilesAre DEF Part
  <2>3. S \subseteq Nat /\ \A x \in S : x <= Len(q)
    BY <2>1, <2>2
  <2>4. Text!Said(q, b, name, None) = Text!Words(q, Text!Max(S))[2]
    BY <1>1 DEF Text!Said
  <2>5. S # {}
    BY <1>1
  <2> HIDE DEF S
  <2>6. Text!Max(S) \in S
    BY <2>2, <2>3, <2>5, MaxOf
  <2> QED BY <2>4, <2>6 DEF S
<1>2. ASSUME Text!Saying(q, b, "host") # {} PROVE Text!Said(q, b, "host", None) # None
  BY <1>1, <1>2, SaidWithWords
<1>3. ASSUME Text!Saying(q, b, "port") # {} PROVE PortRead(q, b) # None
  <2>1. Spells[Text!Said(q, b, "port", None)].n # None
    BY <1>1, <1>3, SaidWithWords
  <2> QED BY <1>3, <2>1 DEF PortRead, Text!Key
<1> QED BY <1>2, <1>3 DEF ServerRead

\* At the brace that closes a server block, all its directives have been read.
LEMMA SaidBefore ==
  ASSUME InFile, Part(Read), Text!Depth(Read, Len(Read) + 1) = 1, At(pos) = RBrace,
         NEW b \in Braces(Read, 0), NEW name, Text!Saying(tokens, b, name) # {}
  PROVE  Text!Saying(Read, b, name) # {}
<1> DEFINE q == Read
<1>1. /\ tokens \in Seq(Marks \cup Words) /\ pos \in 1 .. Len(tokens) /\ pos \in Nat \ {0}
      /\ Len(tokens) \in Nat /\ DOMAIN tokens = 1 .. Len(tokens)
  <2>1. At(pos) \in Marks
    BY MarksAre
  <2>2. pos \in 1 .. Len(tokens)
    BY <2>1, TokensAreThere DEF InFile
  <2> QED BY <2>2 DEF InFile
<1>2. /\ Len(q) = pos - 1 /\ \A i \in 1 .. pos - 1 : q[i] = tokens[i]
  BY <1>1 DEF Read
<1>3. File(q) /\ File(tokens) /\ tokens[pos] = RBrace
  BY <1>1 DEF Part, File, At
<1>4. b \in Text!Statements(q) /\ Text!Depth(q, b) = 0
  BY DEF Braces
<1> HIDE DEF q
<1>5. StartOf(q, tokens) /\ Len(q) + 1 = pos /\ 1 .. Len(q) + 1 = 1 .. pos
  BY <1>1, <1>2 DEF StartOf
<1>6. Text!Depth(tokens, pos) = 1
  <2>1. pos \in 1 .. Len(q) + 1
    BY <1>1, <1>5
  <2>2. Text!Depth(tokens, pos) = Text!Depth(q, pos)
    BY <1>3, <1>5, <2>1, BeginningsStay
  <2> QED BY <1>5, <2>2 DEF q
<1>7. Text!Depth(tokens, pos + 1) = 0
  <2>1. Text!Depth(tokens, pos + 1) = Text!Depth(tokens, pos) - 1
    BY <1>1, <1>3, DepthBehind, MarksAre
  <2> QED BY <1>6, <2>1
<1>8. b \in 1 .. Len(q) /\ b \in Nat /\ b < pos /\ Text!Depth(tokens, b) = 0
  <2>1. b \in 1 .. Len(q)
    BY <1>3, <1>4, FilesAre
  <2>2. b \in 1 .. Len(q) + 1 /\ b \in Nat /\ b < pos
    BY <1>1, <1>2, <2>1
  <2> QED BY <1>3, <1>4, <1>5, <2>1, <2>2, BeginningsStay
<1>9. PICK e \in Text!Saying(tokens, b, name) : TRUE
  OBVIOUS
<1>10. /\ e \in Text!Statements(tokens) /\ tokens[e] = Text!Semicolon
       /\ Text!Depth(tokens, e) >= 1 /\ Text!Block(tokens, e) = b
       /\ Text!Words(tokens, e)[1] = name
  BY DEF Text!Saying
<1>11. e \in 1 .. Len(tokens) /\ e \in Nat /\ e # pos
  <2>1. e \in 1 .. Len(tokens)
    BY <1>3, <1>10, FilesAre
  <2>2. RBrace # Text!Semicolon
    BY MarksAre
  <2> QED BY <1>3, <1>10, <2>1, <2>2
<1>12. ~(pos < e)
  <2>1. Text!Depth(tokens, pos + 1) <= Text!Depth(tokens, b) /\ pos \in Nat
    BY <1>1, <1>7, <1>8
  <2> QED BY <1>8, <1>10, <1>11, <2>1, ClosedForGood
<1>13. e \in 1 .. Len(q) /\ e \in 1 .. Len(q) + 1 /\ e <= Len(q)
  BY <1>1, <1>2, <1>11, <1>12
<1>14. /\ e \in Text!Statements(q) /\ Text!Depth(q, e) = Text!Depth(tokens, e)
       /\ Text!Words(q, e) = Text!Words(tokens, e) /\ Text!Block(q, e) = Text!Block(tokens, e)
  BY <1>3, <1>5, <1>10, <1>13, BeginningsStay
<1>15. q[e] = tokens[e]
  BY <1>2, <1>13
<1>16. e \in Text!Saying(q, b, name)
  BY <1>10, <1>14, <1>15 DEF Text!Saying
<1> QED BY <1>16 DEF q

\* A well-formed file ends with a mark: there is a next statement, and it fits.
LEMMA NextFits ==
  ASSUME InFile, Part(Read), Text!WellFormed(tokens), At(pos) # End
  PROVE  \E e : Ends(e) /\ FitsAt(Text!Depth(Read, Len(Read) + 1), At(e), NextWords(e))
<1> DEFINE D == {j \in pos .. Len(tokens) : At(j) \in Marks}
           e == Min(D)
<1>1. /\ tokens \in Seq(Marks \cup Words) /\ Len(tokens) \in Nat /\ DOMAIN tokens = 1 .. Len(tokens)
      /\ pos \in Nat /\ 1 <= pos /\ pos <= Len(tokens)
  <2>1. /\ tokens \in Seq(Marks \cup Words) /\ Len(tokens) \in Nat
        /\ DOMAIN tokens = 1 .. Len(tokens) /\ pos \in Nat /\ 1 <= pos
    BY DEF InFile
  <2>2. pos \in DOMAIN tokens
    BY DEF At
  <2> QED BY <2>1, <2>2
<1>2. At(Len(tokens)) \in Marks
  <2>1. Text!IsMark(Text!Last(tokens))
    BY DEF Text!WellFormed
  <2>2. tokens[Len(tokens)] \in Marks
    BY <2>1, MarksAre DEF Text!IsMark, Text!Last
  <2>3. Len(tokens) \in DOMAIN tokens
    BY <1>1
  <2> QED BY <2>2, <2>3 DEF At
<1>3. Len(tokens) \in D
  BY <1>1, <1>2
<1>4. e \in D /\ \A j \in D : e <= j
  <2>1. D \in SUBSET Nat /\ D # {}
    BY <1>1, <1>3
  <2> HIDE DEF D
  <2> QED BY <2>1, MinIsLeast
<1> HIDE DEF e
<1>5. \A i \in pos .. e - 1 : IsWord(At(i))
  <2> TAKE i \in pos .. e - 1
  <2>1. i \in pos .. Len(tokens) /\ ~(e <= i)
    BY <1>1, <1>4
  <2>2. At(i) \notin Marks
    BY <1>4, <2>1
  <2>3. At(i) \in Marks \cup Words
    <3>1. i \in 1 .. Len(tokens)
      BY <1>1, <2>1
    <3> QED BY <1>1, <3>1 DEF At
  <2> QED BY <2>2, <2>3, WordsAreWords
<1>6. Ends(e)
  BY <1>4, <1>5 DEF Ends
<1>7. Text!Fits(tokens, e)
  <2>1. e \in Text!Statements(tokens)
    BY <1>6, FitsHere
  <2> QED BY <2>1 DEF Text!WellFormed
<1>8. FitsAt(Text!Depth(Read, Len(Read) + 1), At(e), NextWords(e))
  BY <1>6, <1>7, FitsHere
<1> QED BY <1>6, <1>8

\* In a block there is a next statement.
LEMMA BlocksAreClosed ==
  ASSUME InFile, Text!WellFormed(tokens), Text!Depth(Read, Len(Read) + 1) # 0
  PROVE  At(pos) # End
<1> SUFFICES ASSUME At(pos) = End PROVE FALSE
  OBVIOUS
<1>1. Read = tokens
  BY FileIsRead
<1> QED BY <1>1 DEF Text!WellFormed

\* The parser takes every directive that fits.
LEMMA ServerDirectiveTaken ==
  ASSUME InFile, NEW e, Ends(e), At(e) = Semicolon, Text!ServerDirective(NextWords(e)),
         NEW o \in server_directive(pos)
  PROVE  o.how # "error"
<1> DEFINE ws == NextWords(e)
           v == At(pos + 1)
<1>0. /\ ws \in Seq(Words) /\ Len(ws) \in Nat /\ e = pos + Len(ws) /\ pos \in Nat
      /\ Len(ws) >= 1 => ws[1] = At(pos) /\ IsWord(At(pos))
      /\ Len(ws) >= 2 => ws[2] = v /\ IsWord(v)
      /\ Len(ws) >= 3 => ws[3] = At(pos + 2) /\ IsWord(At(pos + 2))
  BY StatementIs DEF InFile
<1>1. v \in Words \/ ~IsWord(v)
  BY TokensAreThere DEF InFile
<1>2. \A b, n : To(b, n).how = "ok"
  BY DEF To
<1>3. \A how : Failed(how).how = how
  BY DEF Failed
<1>4. Text!ServerDirective(ws)
  OBVIOUS
<1> HIDE DEF ws, v
<1>5. CASE Len(ws) = 2
  <2>1. /\ ws[1] = At(pos) /\ ws[2] = v /\ IsWord(v) /\ v \in Words /\ At(pos + 2) = Semicolon
    BY <1>0, <1>1, <1>5
  <2>2. expect_value(pos + 1)
    <3>1. (pos + 1) + 1 = pos + 2
      BY <1>0
    <3> QED BY <2>1, <3>1 DEF expect_value, v
  <2>3. CASE At(pos) = "host"
    BY <1>2, <2>2, <2>3 DEF server_directive
  <2>4. CASE At(pos) = "server_name"
    BY <1>2, <2>2, <2>4 DEF server_directive
  <2>5. CASE At(pos) = "port"
    <3>1. u16(v) # None
      <4>1. Text!IsU16(v)
        BY <1>4, <1>5, <2>1, <2>5 DEF Text!ServerDirective
      <4> QED BY <2>1, <4>1, SameNumbers
    <3> QED BY <1>2, <2>2, <2>5, <3>1 DEF server_directive, v
  <2>6. CASE At(pos) = "client_max_body_size"
    <3>1. Text!IsNumber(v, Usize - 1)
      BY <1>4, <1>5, <2>1, <2>6 DEF Text!ServerDirective
    <3>2. PICK s \in parse_body_size(v) :
            o = IF s.how # "ok" THEN Failed(s.how)
                ELSE To([server EXCEPT !.client_max_body_size = s.n], pos + 3)
      BY <2>1, <2>2, <2>6 DEF server_directive, v
    <3>3. s.how # "error"
      BY <2>1, <3>1, SizesAre
    <3> QED BY <1>2, <1>3, <3>2, <3>3
  <2>7. At(pos) \in {"host", "server_name", "port", "client_max_body_size"}
    BY <1>4, <1>5, <2>1 DEF Text!ServerDirective
  <2> QED BY <2>3, <2>4, <2>5, <2>6, <2>7
<1>6. CASE Len(ws) = 3
  <2>1. /\ ws[1] = At(pos) /\ ws[2] = v /\ IsWord(v) /\ v \in Words /\ IsWord(At(pos + 2))
        /\ At(pos + 3) = Semicolon
    BY <1>0, <1>1, <1>6
  <2>2. At(pos) = "error_page" /\ Text!IsU16(v)
    BY <1>4, <1>6, <2>1 DEF Text!ServerDirective
  <2>3. u16(v) # None
    BY <2>1, <2>2, SameNumbers
  <2>4. expect_value(pos + 2)
    <3>1. (pos + 2) + 1 = pos + 3
      BY <1>0
    <3> QED BY <2>1, <3>1 DEF expect_value
  <2> QED BY <1>2, <2>1, <2>2, <2>3, <2>4 DEF server_directive, v
<1> QED BY <1>4, <1>5, <1>6 DEF Text!ServerDirective

LEMMA LocationDirectiveTaken ==
  ASSUME InFile, NEW e, Ends(e), At(e) = Semicolon, Text!LocationDirective(NextWords(e)),
         NEW o \in location_directive(pos)
  PROVE  o.how # "error"
<1> DEFINE ws == NextWords(e)
           v == At(pos + 1)
<1>0. /\ ws \in Seq(Words) /\ Len(ws) \in Nat /\ e = pos + Len(ws) /\ pos \in Nat
      /\ Len(ws) >= 1 => ws[1] = At(pos) /\ IsWord(At(pos))
      /\ Len(ws) >= 2 => ws[2] = v /\ IsWord(v)
      /\ Len(ws) >= 3 => ws[3] = At(pos + 2) /\ IsWord(At(pos + 2))
  BY StatementIs DEF InFile
<1>1. \A b, n : To(b, n).how = "ok"
  BY DEF To
<1>2. Text!LocationDirective(ws)
  OBVIOUS
<1> HIDE DEF ws, v
<1>3. CASE Len(ws) = 2 /\ ws[1] # "methods"
  <2>1. ws[1] = At(pos) /\ ws[2] = v /\ IsWord(v) /\ At(pos + 2) = Semicolon
    BY <1>0, <1>3
  <2>2. expect_value(pos + 1)
    <3>1. (pos + 1) + 1 = pos + 2
      BY <1>0
    <3> QED BY <2>1, <3>1 DEF expect_value, v
  <2>3. /\ At(pos) \in {"root", "index", "redirect", "autoindex", "cgi"}
        /\ At(pos) = "autoindex" => v \in {"on", "off"}
    BY <1>2, <1>3, <2>1 DEF Text!LocationDirective
  <2>4. CASE At(pos) \in {"root", "index", "redirect"}
    BY <1>1, <2>2, <2>4 DEF location_directive
  <2>5. CASE At(pos) = "autoindex"
    BY <1>1, <2>2, <2>3, <2>5 DEF location_directive, v
  <2>6. CASE At(pos) = "cgi"
    BY <1>1, <2>2, <2>6 DEF location_directive
  <2> QED BY <2>3, <2>4, <2>5, <2>6
<1>4. CASE Len(ws) = 3 /\ ws[1] # "methods"
  <2>1. /\ ws[1] = At(pos) /\ IsWord(v) /\ IsWord(At(pos + 2)) /\ At(pos + 3) = Semicolon
    BY <1>0, <1>4
  <2>2. At(pos) = "cgi"
    BY <1>2, <1>4, <2>1 DEF Text!LocationDirective
  <2>3. expect_value(pos + 2)
    <3>1. (pos + 2) + 1 = pos + 3
      BY <1>0
    <3> QED BY <2>1, <3>1 DEF expect_value
  <2> QED BY <1>1, <2>1, <2>2, <2>3 DEF location_directive, v
<1>5. CASE Len(ws) >= 1 /\ ws[1] = "methods"
  <2>1. At(pos) = "methods" /\ e # pos
    BY <1>0, <1>5
  <2>2. Text!ToSet(Tail(ws)) \subseteq {"GET", "POST", "DELETE"}
    BY <1>2, <1>5 DEF Text!LocationDirective
  <2>3. /\ EndOfWords(pos + 1) = e
        /\ {At(j) : j \in pos + 1 .. e - 1} = Text!ToSet(Tail(ws))
    BY <2>1, RestIs DEF ws
  <2>4. {At(j) : j \in pos + 1 .. e - 1} \subseteq {"GET", "POST", "DELETE"}
    BY <2>2, <2>3
  <2> QED BY <1>1, <2>1, <2>3, <2>4 DEF location_directive
<1> QED BY <1>2, <1>3, <1>4, <1>5 DEF Text!LocationDirective

\* How a statement that fits begins, by the depth.
LEMMA FittingIs ==
  ASSUME InFile, NEW e, Ends(e), NEW d, FitsAt(d, At(e), NextWords(e))
  PROVE  /\ d = 0 => At(pos) = "server" /\ At(pos + 1) = LBrace
         /\ d = 1 => \/ At(pos) = "location" /\ IsWord(At(pos + 1)) /\ At(pos + 2) = LBrace
                     \/ At(pos) = RBrace
                     \/ /\ IsWord(At(pos)) /\ At(pos) # "location"
                        /\ At(e) = Semicolon /\ Text!ServerDirective(NextWords(e))
         /\ d = 2 => \/ At(pos) = RBrace
                     \/ /\ IsWord(At(pos))
                        /\ At(e) = Semicolon /\ Text!LocationDirective(NextWords(e))
<1> DEFINE ws == NextWords(e)
<1>0. /\ ws \in Seq(Words) /\ Len(ws) \in Nat /\ e = pos + Len(ws) /\ pos \in Nat
      /\ Len(ws) >= 1 => ws[1] = At(pos) /\ IsWord(At(pos))
      /\ Len(ws) >= 2 => ws[2] = At(pos + 1) /\ IsWord(At(pos + 1))
  BY StatementIs DEF InFile
<1>1. FitsAt(d, At(e), ws)
  OBVIOUS
<1> HIDE DEF ws
<1>2. Text!ServerDirective(ws) => Len(ws) >= 1 /\ ws[1] # "location"
  BY <1>0 DEF Text!ServerDirective
<1>3. Text!LocationDirective(ws) => Len(ws) >= 1
  BY <1>0 DEF Text!LocationDirective
<1>4. ASSUME d = 0 PROVE At(pos) = "server" /\ At(pos + 1) = LBrace
  <2>1. At(e) = LBrace /\ ws = <<"server">>
    BY <1>1, <1>4 DEF FitsAt
  <2>2. Len(ws) = 1 /\ ws[1] = "server"
    BY <2>1
  <2>3. e = pos + 1
    BY <1>0, <2>2
  <2> QED BY <1>0, <2>1, <2>2, <2>3
<1>5. CASE At(e) = RBrace /\ ws = << >>
  <2>1. e = pos
    BY <1>0, <1>5
  <2>2. ~(d = 0)
    BY <1>1, <1>5, MarksAre DEF FitsAt
  <2> QED BY <1>5, <2>1, <2>2
<1>6. ASSUME d = 1, ~(At(e) = RBrace /\ ws = << >>)
      PROVE  \/ At(pos) = "location" /\ IsWord(At(pos + 1)) /\ At(pos + 2) = LBrace
             \/ /\ IsWord(At(pos)) /\ At(pos) # "location"
                /\ At(e) = Semicolon /\ Text!ServerDirective(ws)
  <2>1. \/ At(e) = LBrace /\ Len(ws) = 2 /\ ws[1] = "location"
        \/ At(e) = Semicolon /\ Text!ServerDirective(ws)
    BY <1>1, <1>6 DEF FitsAt
  <2>2. CASE At(e) = LBrace /\ Len(ws) = 2 /\ ws[1] = "location"
    <3>1. e = pos + 2 /\ ws[1] = At(pos) /\ IsWord(At(pos + 1))
      BY <1>0, <2>2
    <3> QED BY <2>2, <3>1
  <2>3. CASE At(e) = Semicolon /\ Text!ServerDirective(ws)
    <3>1. Len(ws) >= 1 /\ ws[1] # "location"
      BY <1>2, <2>3
    <3>2. ws[1] = At(pos) /\ IsWord(At(pos))
      BY <1>0, <3>1
    <3> QED BY <2>3, <3>1, <3>2
  <2> QED BY <2>1, <2>2, <2>3
<1>7. ASSUME d = 2, ~(At(e) = RBrace /\ ws = << >>)
      PROVE  IsWord(At(pos)) /\ At(e) = Semicolon /\ Text!LocationDirective(ws)
  <2>1. At(e) = Semicolon /\ Text!LocationDirective(ws)
    BY <1>1, <1>7 DEF FitsAt
  <2> QED BY <1>0, <1>3, <2>1
<1> QED BY <1>4, <1>5, <1>6, <1>7 DEF ws

LEMMA MarksAreNoWords ==
  /\ ~IsWord(LBrace) /\ ~IsWord(RBrace) /\ ~IsWord(Semicolon) /\ ~IsWord(End)
  /\ End # RBrace
  /\ \A k \in {LBrace, Semicolon, End} : ~IsWord(k) /\ k # RBrace
<1>1. End # RBrace
  BY Zenon DEF End, RBrace
<1> QED BY <1>1, MarksAre DEF IsWord

LEMMA TopRejects ==
  ASSUME ParserTypeOK, KeepsUp, parse_config, status' = "error"
  PROVE  ~Text!WellFormed(tokens)
<1> SUFFICES ASSUME Text!WellFormed(tokens) PROVE FALSE
  OBVIOUS
<1>1. InFile /\ Part(Read) /\ BetweenServers(Read, servers) /\ status = "parsing"
  BY DEF ParserTypeOK, KeepsUp, HasRead, InFile, parse_config, Parsing
<1>2. Text!Depth(Read, Len(Read) + 1) = 0
  BY <1>1 DEF BetweenServers
<1>3. At(pos) = End
  <2> SUFFICES ASSUME At(pos) # End PROVE FALSE
    OBVIOUS
  <2>1. At(pos) = "server" /\ At(pos + 1) = LBrace
    BY <1>1, <1>2, NextFits, FittingIs
  <2> QED BY <1>1, <2>1 DEF parse_config
<1>4. servers = << >> \/ Duplicates
  <2>1. Fail(IF servers = << >> \/ Duplicates THEN "error" ELSE "ok")
    BY <1>1, <1>3, KeywordsAreWords, MarksAreNoWords DEF parse_config
  <2> QED BY <2>1 DEF Fail
<1> DEFINE S == Braces(tokens, 0)
           bs == Text!InOrder(S)
<1>5. Part(tokens) /\ BetweenServers(tokens, servers)
  BY <1>1, <1>3, FileIsRead
<1>6. Len(tokens) \in Nat /\ S \subseteq 1 .. Len(tokens)
  BY <1>5, BracesAre DEF Part
<1>7. ServersRead(tokens, S, servers) /\ S # {}
  <2>1. tokens # << >>
    BY DEF Text!WellFormed
  <2>2. Len(tokens) # 0
    BY <1>1, <2>1 DEF InFile
  <2> QED BY <1>5, <2>2 DEF BetweenServers
<1>8. S = Text!Servers(tokens)
  BY DEF Braces, Text!Servers
<1> HIDE DEF S
<1>9. /\ Lists(bs, S) /\ DOMAIN servers = DOMAIN bs
      /\ \A i \in DOMAIN bs : <<servers[i].host, servers[i].port, servers[i].server_name>>
                                = Text!Key(tokens, bs[i])
      /\ \A i \in DOMAIN bs : bs[i] \in S
  <2>1. /\ Lists(bs, S) /\ DOMAIN servers = DOMAIN bs
        /\ \A i \in DOMAIN bs : <<servers[i].host, servers[i].port, servers[i].server_name>>
                                  = Text!Key(tokens, bs[i])
    BY <1>6, <1>7, KeysAreThere
  <2>2. \A i \in DOMAIN bs : bs[i] \in S
    BY <1>6, InOrderHas
  <2> QED BY <2>1, <2>2
<1> HIDE DEF bs
<1>10. servers # << >>
  <2>1. PICK i \in DOMAIN bs : TRUE
    BY <1>7, <1>9 DEF Lists
  <2>2. DOMAIN servers # {}
    BY <1>9, <2>1
  <2> QED BY <2>2
<1>11. ~Duplicates
  <2> SUFFICES ASSUME Duplicates PROVE FALSE
    OBVIOUS
  <2>1. PICK i \in DOMAIN servers, j \in DOMAIN servers :
          /\ i # j
          /\ <<servers[i].host, servers[i].port, servers[i].server_name>>
               = <<servers[j].host, servers[j].port, servers[j].server_name>>
    BY DEF Duplicates
  <2>2. bs[i] \in S /\ bs[j] \in S /\ bs[i] # bs[j] /\ Text!Key(tokens, bs[i]) = Text!Key(tokens, bs[j])
    BY <1>9, <2>1 DEF Lists
  <2> QED BY <1>8, <2>2 DEF Text!WellFormed
<1> QED BY <1>4, <1>10, <1>11

LEMMA ServerRejects ==
  ASSUME ParserTypeOK, KeepsUp, parse_server, status' = "error"
  PROVE  ~Text!WellFormed(tokens)
<1> SUFFICES ASSUME Text!WellFormed(tokens) PROVE FALSE
  OBVIOUS
<1>1. /\ InFile /\ Part(Read) /\ BetweenLocations(Read, servers, server)
      /\ status = "parsing" /\ block = "server"
  BY DEF ParserTypeOK, KeepsUp, HasRead, InFile, parse_server, Parsing
<1>2. Text!Depth(Read, Len(Read) + 1) = 1
  BY <1>1 DEF BetweenLocations
<1>3. At(pos) # End
  BY <1>1, <1>2, BlocksAreClosed
<1>4. PICK e : Ends(e) /\ FitsAt(1, At(e), NextWords(e))
  BY <1>1, <1>2, <1>3, NextFits
<1>5. \/ At(pos) = "location" /\ IsWord(At(pos + 1)) /\ At(pos + 2) = LBrace
      \/ At(pos) = RBrace
      \/ /\ IsWord(At(pos)) /\ At(pos) # "location"
         /\ At(e) = Semicolon /\ Text!ServerDirective(NextWords(e))
  BY <1>1, <1>4, FittingIs
<1>6. At(pos) = RBrace => server.host # None /\ server.port # None
  <2> SUFFICES ASSUME At(pos) = RBrace PROVE server.host # None /\ server.port # None
    OBVIOUS
  <2> DEFINE sb == ServerBrace(Read)
             L == Text!Locations(Read, sb)
  <2>1. InServer(Read, servers) /\ server = ServerRead(Read, sb, L)
    BY <1>1 DEF BetweenLocations
  <2>2. sb \in Braces(Read, 0)
    BY <1>1, <2>1, BracesAre DEF InServer, ServerBrace, Part
  <2> HIDE DEF sb, L
  <2>3. sb \in Text!Servers(tokens)
    <3> DEFINE q == Read
    <3>1. sb \in Text!Statements(q) /\ q[sb] = Text!LBrace /\ Text!Depth(q, sb) = 0
      BY <2>2 DEF Braces
    <3>2. /\ Len(q) \in Nat /\ Len(q) <= Len(tokens) /\ \A i \in 1 .. Len(q) : tokens[i] = q[i]
          /\ File(q) /\ File(tokens)
      <4>1. /\ tokens \in Seq(Marks \cup Words) /\ pos \in Nat \ {0} /\ pos <= Len(tokens) + 1
            /\ Len(tokens) \in Nat
        BY <1>1 DEF InFile
      <4>2. Len(q) = pos - 1 /\ \A i \in 1 .. pos - 1 : q[i] = tokens[i]
        BY <4>1 DEF Read
      <4>3. File(q) /\ File(tokens)
        BY <1>1, <4>1 DEF Part, File
      <4> HIDE DEF q
      <4> QED BY <4>1, <4>2, <4>3
    <3> HIDE DEF q
    <3>3. sb \in 1 .. Len(q) /\ sb \in 1 .. Len(q) + 1
      <4>1. sb \in 1 .. Len(q)
        BY <3>1, <3>2, FilesAre
      <4> QED BY <3>2, <4>1
    <3>4. StartOf(q, tokens)
      BY <3>2 DEF StartOf
    <3>5. sb \in Text!Statements(tokens) /\ Text!Depth(tokens, sb) = 0
      BY <3>1, <3>2, <3>3, <3>4, BeginningsStay
    <3>6. tokens[sb] = Text!LBrace
      BY <3>1, <3>2, <3>3
    <3> QED BY <3>5, <3>6 DEF Text!Servers
  <2>4. Text!Saying(tokens, sb, "host") # {} /\ Text!Saying(tokens, sb, "port") # {}
    BY <2>3 DEF Text!WellFormed
  <2>5. Text!Saying(Read, sb, "host") # {} /\ Text!Saying(Read, sb, "port") # {}
    BY <1>1, <1>2, <2>2, <2>4, SaidBefore
  <2> QED BY <1>1, <2>1, <2>5, MissingIsNotSaid
<1>7. CASE \E o \in server_directive(pos) : o.how = "error" /\ IsWord(At(pos)) /\ At(pos) # "location"
  <2>1. At(e) = Semicolon /\ Text!ServerDirective(NextWords(e))
    BY <1>5, <1>7, MarksAreNoWords
  <2> QED BY <1>1, <1>4, <1>7, <2>1, ServerDirectiveTaken
<1>8. CASE \/ At(pos) \in {LBrace, Semicolon, End}
           \/ At(pos) = RBrace /\ None \in {server.host, server.port}
           \/ At(pos) = "location" /\ ~(IsWord(At(pos + 1)) /\ At(pos + 2) = LBrace)
  BY <1>5, <1>6, <1>8, MarksAreNoWords, KeywordsAreWords
<1>9. \A how : Fail(how) /\ status' = "error" => how = "error"
  BY DEF Fail
<1> QED BY <1>1, <1>7, <1>8, <1>9 DEF parse_server

LEMMA LocationRejects ==
  ASSUME ParserTypeOK, KeepsUp, parse_location, status' = "error"
  PROVE  ~Text!WellFormed(tokens)
<1> SUFFICES ASSUME Text!WellFormed(tokens) PROVE FALSE
  OBVIOUS
<1>1. /\ InFile /\ Part(Read) /\ InLocation(Read, servers, server, location)
      /\ status = "parsing" /\ block = "location"
  BY DEF ParserTypeOK, KeepsUp, HasRead, InFile, parse_location, Parsing
<1>2. Text!Depth(Read, Len(Read) + 1) = 2
  BY <1>1 DEF InLocation
<1>3. At(pos) # End
  BY <1>1, <1>2, BlocksAreClosed
<1>4. PICK e : Ends(e) /\ FitsAt(2, At(e), NextWords(e))
  BY <1>1, <1>2, <1>3, NextFits
<1>5. \/ At(pos) = RBrace
      \/ IsWord(At(pos)) /\ At(e) = Semicolon /\ Text!LocationDirective(NextWords(e))
  BY <1>1, <1>4, FittingIs
<1>6. CASE \E o \in location_directive(pos) : o.how = "error" /\ IsWord(At(pos))
  <2>1. At(e) = Semicolon /\ Text!LocationDirective(NextWords(e))
    BY <1>5, <1>6, MarksAreNoWords
  <2> QED BY <1>1, <1>4, <1>6, <2>1, LocationDirectiveTaken
<1>7. CASE At(pos) \in {LBrace, Semicolon, End}
  BY <1>5, <1>7, MarksAreNoWords
<1>8. \A how : Fail(how) /\ status' = "error" => how = "error"
  BY DEF Fail
<1> QED BY <1>1, <1>6, <1>7, <1>8 DEF parse_location

-----------------------------------------------------------------------------
(* How reading ends.                                                        *)

\* Only a size makes the parser panic.
LEMMA PanicsOnASize ==
  ASSUME ParserTypeOK, ParserNext, status' = "panic"
  PROVE  \E i \in DOMAIN tokens : /\ tokens[i] \in DOMAIN Spells /\ Spells[tokens[i]].n # None
                                  /\ Text!Size(tokens[i]) >= Usize
<1> DEFINE v == At(pos + 1)
<1>1. InFile /\ status' # status
  BY DEF ParserTypeOK, InFile, ParserNext, parse_config, parse_server, parse_location, Parsing
<1>2. ASSUME NEW how, Fail(how) PROVE how = "panic"
  BY <1>2 DEF Fail
<1>3. ~parse_config
  BY <1>1, <1>2 DEF parse_config
<1>4. \A b, n : To(b, n).how = "ok"
  BY DEF To
<1>5. \A how : Failed(how).how = how
  BY DEF Failed
<1>6. \A o \in location_directive(pos) : o.how # "panic"
  BY <1>4, <1>5 DEF location_directive
<1>7. ~parse_location
  BY <1>1, <1>2, <1>6 DEF parse_location
<1>8. PICK o \in server_directive(pos) : o.how = "panic"
  BY <1>1, <1>2, <1>3, <1>7 DEF ParserNext, parse_server
<1>9. IsWord(v) /\ \E s \in parse_body_size(v) : s.how = "panic"
  <2>1. \/ o.how = "ok" \/ o = Failed("error")
        \/ /\ IsWord(v)
           /\ \E s \in parse_body_size(v) :
                o = IF s.how # "ok" THEN Failed(s.how)
                    ELSE IF ~expect_value(pos + 1) THEN Failed("error")
                    ELSE To([server EXCEPT !.client_max_body_size = s.n], pos + 3)
    BY <1>4 DEF server_directive
  <2> QED BY <1>4, <1>5, <1>8, <2>1
<1>10. v \in Words /\ pos + 1 \in 1 .. Len(tokens) /\ DOMAIN tokens = 1 .. Len(tokens)
  BY <1>1, <1>9, TokensAreThere DEF InFile
<1>11. v = tokens[pos + 1] /\ v \in DOMAIN Spells
  BY <1>10 DEF At, Words
<1>12. Spells[v].n # None /\ Text!Size(v) >= Usize
  BY <1>9, <1>10, SizesAre
<1> HIDE DEF v
<1> QED BY <1>10, <1>11, <1>12

\* A step that ends the reading ends it as the file deserves.
LEMMA OutcomesAreRight ==
  ASSUME ParserTypeOK, KeepsUp, ParserNext PROVE ReadsTheFile'
<1>1. /\ tokens' = tokens /\ tokens \in Texts /\ status = "parsing" /\ ParserTypeOK
  BY DEF KeepsUp, ParserNext, parse_config, parse_server, parse_location, Parsing
<1>2. tokens \in DOMAIN Reading <=> Text!WellFormed(tokens)
  BY <1>1 DEF Reading
<1>3. Text!WellFormed(tokens) => Reading[tokens] = Text!Meaning(tokens)
  BY <1>1 DEF Reading
<1>4. ASSUME status' = "ok" PROVE tokens \in DOMAIN Reading /\ servers' = Reading[tokens]
  <2>1. ASSUME NEW how, Fail(how) PROVE how = "ok" /\ servers' = servers
    BY <1>4, <2>1 DEF Fail
  <2>2. status' # status
    BY <1>1, <1>4
  <2>3. ~parse_server
    BY <2>1, <2>2 DEF parse_server
  <2>4. ~parse_location
    BY <2>1, <2>2 DEF parse_location
  <2>5. /\ block = "top" /\ At(pos) = End
        /\ Fail(IF servers = << >> \/ Duplicates THEN "error" ELSE "ok")
    BY <2>1, <2>2, <2>3, <2>4 DEF ParserNext, parse_config, Parsing
  <2>6. servers # << >> /\ ~Duplicates /\ servers' = servers
    BY <2>1, <2>5
  <2>7. Text!WellFormed(tokens) /\ servers = Text!Meaning(tokens)
    BY <2>5, <2>6, AcceptedIsWellFormed
  <2> QED BY <1>2, <1>3, <2>6, <2>7
<1>5. ASSUME status' = "error" PROVE tokens \notin DOMAIN Reading
  BY <1>2, <1>5, TopRejects, ServerRejects, LocationRejects DEF ParserNext
<1>6. ASSUME status' = "panic"
      PROVE  \E i \in DOMAIN tokens : /\ tokens[i] \in DOMAIN Spells /\ Spells[tokens[i]].n # None
                                      /\ Text!Size(tokens[i]) >= Usize
  BY <1>6, PanicsOnASize
<1>7. Reading' = Reading
  OBVIOUS
<1> QED BY <1>1, <1>4, <1>5, <1>6, <1>7 DEF ReadsTheFile

=============================================================================
