-------------------------------- MODULE MCSite --------------------------------
(* Instances of Site for TLC: two configuration files, each also damaged in *)
(* one place, and the requests that tell their blocks apart.                *)
EXTENDS Site, TLC
LOCAL INSTANCE SequencesExt

Number(n, unit) == [n |-> n, unit |-> unit]
NumberWords ==
  ("80" :> Number(80, "b")) @@ ("81" :> Number(81, "b")) @@ ("404" :> Number(404, "b"))
  @@ ("3" :> Number(3, "b")) @@ ("2kb" :> Number(2, "kb")) @@ ("20MB" :> Number(20, "mb"))
  @@ ("99999" :> Number(99999, "b"))
OtherWords ==
  {"server", "host", "port", "server_name", "client_max_body_size", "error_page", "location",
   "root", "index", "methods", "autoindex", "on", "redirect", "cgi", "GET", "POST", "DELETE",
   "here", "there", "x", "w", "v", "/", "/u", "/old", ".py"}
WordsSpell == [w \in OtherWords |-> Number(None, "b")] @@ NumberWords

WordChars ==
  ("" :> << >>) @@ ("/" :> <<"/">>) @@ ("/a" :> <<"/", "a">>) @@ ("/a/" :> <<"/", "a", "/">>)
  @@ ("/a/b" :> <<"/", "a", "/", "b">>) @@ ("/u" :> <<"/", "u">>) @@ ("/u/b" :> <<"/", "u", "/", "b">>)
  @@ ("/u/c.py" :> <<"/", "u", "/", "c", ".py">>)
  @@ ("/old" :> <<"/", "old">>) @@ ("/login" :> <<"/", "login">>) @@ ("/whoami" :> <<"/", "whoami">>)
  @@ [w \in DOMAIN WordsSpell |-> <<w>>]

MCLetters == UNION {Range(WordChars[w]) : w \in DOMAIN WordChars} \cup {"index.html"}

OneAddress == [h \in DOMAIN WordsSpell |-> IF h = "there" THEN "here" ELSE h]

\* Two virtual hosts on one port with different limits and locations.
Hosts ==
  <<"server", "{", "host", "here", ";", "port", "80", ";",
      "client_max_body_size", "2kb", ";", "error_page", "404", "v", ";",
      "location", "/", "{", "root", "w", ";", "autoindex", "on", ";", "}",
      "location", "/u", "{", "root", "v", ";", "methods", "POST", "DELETE", ";",
         "cgi", ".py", ";", "}",
      "location", "/old", "{", "redirect", "/", ";", "}", "}",
    "server", "{", "host", "here", ";", "port", "80", ";", "server_name", "x", ";",
      "client_max_body_size", "3", ";",
      "location", "/", "{", "root", "w", ";", "}", "}">>
\* Two ports, and so two threads, on one tree; a third server cannot bind.
Ports ==
  <<"server", "{", "host", "here", ";", "port", "80", ";",
      "client_max_body_size", "20MB", ";",
      "location", "/", "{", "root", "w", ";", "}", "}",
    "server", "{", "host", "here", ";", "port", "81", ";",
      "location", "/", "{", "root", "w", ";", "index", "x", ";", "}", "}",
    "server", "{", "host", "there", ";", "port", "80", ";", "}">>

Without(ts, i) == SubSeq(ts, 1, i - 1) \o SubSeq(ts, i + 1, Len(ts))
Damaged(ts) ==
  {Without(ts, i) : i \in DOMAIN ts} \cup {SubSeq(ts, 1, i) : i \in 0 .. Len(ts)}
  \cup {[ts EXCEPT ![i] = w] : i \in DOMAIN ts, w \in {"}", ";", "/u", "80", "99999"}}
  \cup {[ts EXCEPT ![i] = ts[i + 1], ![i + 1] = ts[i]] : i \in 1 .. Len(ts) - 1}

MCServed == {Hosts, Ports}
MCTexts == MCServed \cup Damaged(Hosts) \cup Damaged(Ports)

MCUnits == {"a", "p", "q", "r", "s", "t"} \X (1 .. 4)
Unit(id, n) == [i \in 1 .. n |-> <<id, i>>]
Req(host, method, path, body) ==
  [host |-> host, method |-> method, path |-> path, head |-> 1, body |-> body]

SomeRequests ==
  {Req("", "GET", "/a", << >>), Req("", "GET", "/a/", << >>), Req("", "GET", "/", << >>),
   Req("", "POST", "/a", Unit("p", 2)), Req("", "POST", "/a", Unit("q", 1)),
   Req("", "DELETE", "/a", << >>),
   Req("x", "POST", "/a", Unit("r", 3)), Req("x", "POST", "/a", Unit("r", 4)), Req("", "POST", "/u/b", Unit("s", 1)),
   Req("", "GET", "/u/b", << >>), Req("", "POST", "/u/c.py", << >>),
   Req("", "GET", "/old", << >>), Req("", "POST", "/login", Unit("t", 1)),
   Req("", "GET", "/whoami", << >>),
   Req("", "POST", "/a/b", Unit("t", 1)), Req("", "POST", "/", Unit("t", 1)),
   Req("", "POST", "/a", << >>)}

\* Of the two ports: one file, downloaded, replaced and removed.
OneFile == {r \in SomeRequests : r.host = "" /\ r.path = "/a" /\ r.method # "POST"}
           \cup {Req("", "GET", "/a/", << >>),
                Req("", "POST", "/a", Unit("p", 2)), Req("", "POST", "/a", Unit("q", 1))}

MCRequests == (Hosts :> SomeRequests) @@ (Ports :> OneFile)
ThreeAtMost == (Hosts :> 2) @@ (Ports :> 3)

MCDirs == {<<"w">>, <<"v">>}
MCFiles == <<[name |-> <<"w", "/", "a">>, contents |-> Unit("a", 2)]>>
=============================================================================
