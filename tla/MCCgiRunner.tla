---------------------------- MODULE MCCgiRunner -----------------------------
(* CgiRunner with every kind of script, around the capacity of the pipes,   *)
(* and with every kind of output.                                           *)
EXTENDS CgiRunner

Line(key, value, eol) == [key |-> key, value |-> value, eol |-> eol]
Ends == {"lf", "crlf"}
LinesOf(eols) == {Line(key, 0, eol) : key \in {"", "text"}, eol \in eols}
                 \cup {Line("status", 404, eol) : eol \in eols}
MoreLines(eols) == LinesOf(eols) \cup {Line("status", 302, eol) : eol \in eols}
                   \cup {Line("content-type", 1, eol) : eol \in eols}

UpTo(n, lines) == UNION {[1 .. m -> lines] : m \in 0 .. n}

\* Up to four lines of one kind of line end, or of both kinds.
Outputs == UpTo(4, MoreLines({"lf"})) \cup UpTo(4, MoreLines({"crlf"})) \cup UpTo(4, LinesOf(Ends))

\* An output by its length.
Usual(n) == [i \in 1 .. n |-> IF i = 1 THEN Line("content-type", 1, "lf")
                              ELSE IF i = 2 THEN Line("", 0, "lf") ELSE Line("text", 0, "lf")]

Orders == {"read_first", "write_first", "filter"}

UsualScripts == [reads : {"nothing", "length", "eof", "forever"}, order : Orders,
                 out : {Usual(n) : n \in {0, 1, 4, 5}}, leaves : BOOLEAN, fails : {FALSE}]
AnyOutput == [reads : {"nothing"}, order : {"write_first"}, out : Outputs,
              leaves : {FALSE}, fails : {FALSE}]

AllScripts == UsualScripts \cup AnyOutput
              \cup [reads : {"nothing"}, order : {"write_first"}, out : {Usual(1)},
                    leaves : {FALSE}, fails : {TRUE}]

\* A filter with as much output as it is given input.
OneFilter == [reads : {"eof"}, order : {"filter"}, out : {Usual(4)}, leaves : {FALSE},
              fails : {FALSE}]
=============================================================================
