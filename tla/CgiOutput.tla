------------------------------ MODULE CgiOutput ------------------------------
(****************************************************************************)
(* parse_cgi_output of src/src/cgi.rs: what becomes of a script's output.   *)
(* The output is a sequence of lines [key, value, eol]: a blank line has    *)
(* the key "", a line without a colon the key "text"; eol is "lf" or        *)
(* "crlf".  Content types are numbers, 0 the one used when the script names *)
(* none.  Letter case and spaces, which the code trims, are left out.       *)
(****************************************************************************)
EXTENDS Integers, Sequences, FiniteSetsExt

IsBlank(line) == line.key = ""
FirstOf(S) == IF S = {} THEN 0 ELSE Min(S)

\* Where "\r\n\r\n" and "\n\n" occur: after line k.  The latter does not mind a
\* "\r" at the end of line k, which stays with the header.
Doubled(out, eol) ==
  {k \in 1 .. Len(out) - 1 : /\ IsBlank(out[k + 1]) /\ out[k + 1].eol = eol
                             /\ eol = "crlf" => out[k].eol = "crlf"}

Separator_Last(out) ==
  LET all == Doubled(out, "crlf") \cup Doubled(out, "lf") IN IF all = {} THEN 0 ELSE Max(all)

\* The number of lines before the separator, or 0 if there is none.
Separator(out) ==
  LET crlf == Doubled(out, "crlf") IN
  IF crlf # {} THEN FirstOf(crlf) ELSE FirstOf(Doubled(out, "lf"))

Statuses == {200, 400, 403, 404, 500}
StatusOf(n) == IF n \in Statuses THEN n ELSE 200

TextHtml == 0
Response(status, type, body) == [status |-> status, content_type |-> type, body |-> body]
ServerError == Response(500, TextHtml, << >>)

\* The later of two headers with one name counts; other headers are dropped.
WithHeader(res, line) ==
  CASE line.key = "content-type" -> [res EXCEPT !.content_type = line.value]
    [] line.key = "status" -> [res EXCEPT !.status = StatusOf(line.value)]
    [] OTHER -> res

\* The loop over the header lines.
WithHeaders(res, lines) ==
  LET upTo[i \in 0..Len(lines)] == IF i = 0 THEN res ELSE WithHeader(upTo[i - 1], lines[i])
  IN  upTo[Len(lines)]

parse_cgi_output(out) ==
  LET k == Separator(out) IN
  IF k = 0 THEN ServerError
  ELSE WithHeaders(Response(200, TextHtml, SubSeq(out, k + 2, Len(out))), SubSeq(out, 1, k))

-----------------------------------------------------------------------------
(* What the output means by the format stated at cgi.rs:100: header lines,  *)
(* a blank line, the body.                                                  *)

HeaderEnd(out) == FirstOf({b \in DOMAIN out : IsBlank(out[b])})
HasHeader(out) == HeaderEnd(out) > 1
\* The script ends the lines of its header, and the blank one, alike.
HeaderIn(out, eol) == HasHeader(out) /\ \A i \in 1 .. HeaderEnd(out) : out[i].eol = eol
\* So it does throughout its output.
AllIn(out, eol) == HasHeader(out) /\ \A i \in DOMAIN out : out[i].eol = eol

LastValue(out, key, default) ==
  LET those == {i \in 1 .. HeaderEnd(out) : out[i].key = key} IN
  IF those = {} THEN default ELSE out[Max(those)].value

\* A status the server has no word for is served as 200.
Meant(out) ==
  Response(StatusOf(LastValue(out, "status", 200)), LastValue(out, "content-type", TextHtml),
           SubSeq(out, HeaderEnd(out) + 1, Len(out)))

=============================================================================
