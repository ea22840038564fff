-------------------------- MODULE CgiRunnerProofs ---------------------------
(* Proofs about CgiRunner, for any scripts, bodies and sizes of the pipes,  *)
(* and about CgiOutput, for any output.                                     *)
EXTENDS CgiRunner, Induction

-----------------------------------------------------------------------------
(* parse_cgi_output.                                                        *)

\* A number that is not less than any other in the set is its maximum, and the
\* other way about for the minimum.
LEMMA MaxIs ==
  ASSUME NEW S, S \subseteq Nat, NEW m \in S, \A x \in S : x <= m
  PROVE  Max(S) = m
<1>1. Max(S) \in S /\ \A x \in S : Max(S) >= x
  BY DEF Max
<1>2. Max(S) >= m /\ Max(S) <= m /\ Max(S) \in Nat /\ m \in Nat
  BY <1>1
<1> QED BY <1>2

LEMMA MinIs ==
  ASSUME NEW S, S \subseteq Nat, NEW m \in S, \A x \in S : m <= x
  PROVE  Min(S) = m
<1>1. Min(S) \in S /\ \A x \in S : Min(S) <= x
  BY DEF Min
<1>2. Min(S) >= m /\ Min(S) <= m /\ Min(S) \in Nat /\ m \in Nat
  BY <1>1
<1> QED BY <1>2

\* The first of a set of positions is 0, if there is none, or one of them.
LEMMA FirstIs ==
  ASSUME NEW S, S \subseteq Nat
  PROVE  /\ S = {} => FirstOf(S) = 0
         /\ S # {} => FirstOf(S) \in S /\ \A x \in S : FirstOf(S) <= x
         /\ \A m \in S : (\A x \in S : m <= x) => FirstOf(S) = m
<1>1. ASSUME S # {} PROVE FirstOf(S) \in S /\ \A x \in S : FirstOf(S) <= x
  <2>1. PICK m \in S : \A x \in S : m <= x
    BY <1>1, LeastElement
  <2>2. Min(S) = m
    BY <2>1, MinIs
  <2> QED BY <1>1, <2>1, <2>2 DEF FirstOf
<1>2. ASSUME NEW m \in S, \A x \in S : m <= x PROVE FirstOf(S) = m
  BY <1>2, MinIs DEF FirstOf
<1> QED BY <1>1, <1>2 DEF FirstOf

\* The value the first n lines have for a key: LastValue of a longer or shorter header.
LastOf(lines, n, key, default) ==
  LET those == {i \in 1 .. n : lines[i].key = key} IN
  IF those = {} THEN default ELSE lines[Max(those)].value

\* The last line decides, if it has the key.
LEMMA LastOfSteps ==
  ASSUME NEW lines, NEW n \in Nat \ {0}, NEW key, NEW default
  PROVE  LastOf(lines, n, key, default) =
           IF lines[n].key = key THEN lines[n].value ELSE LastOf(lines, n - 1, key, default)
<1> DEFINE Those(m) == {i \in 1 .. m : lines[i].key = key}
<1>1. CASE lines[n].key = key
  <2>1. n \in Those(n) /\ Those(n) \subseteq Nat /\ \A x \in Those(n) : x <= n
    BY <1>1
  <2>2. Max(Those(n)) = n
    <3> HIDE DEF Those
    <3> QED BY <2>1, MaxIs
  <2>3. Those(n) # {}
    BY <2>1
  <2> QED BY <1>1, <2>2, <2>3 DEF LastOf
<1>2. CASE lines[n].key # key
  <2>1. Those(n) = Those(n - 1)
    BY <1>2
  <2>2. LastOf(lines, n, key, default) = LastOf(lines, n - 1, key, default)
    <3>1. \A m : LastOf(lines, m, key, default) =
                   IF Those(m) = {} THEN default ELSE lines[Max(Those(m))].value
      BY DEF LastOf
    <3> HIDE DEF Those
    <3> QED BY <2>1, <3>1
  <2> QED BY <1>2, <2>2
<1> QED BY <1>1, <1>2

\* Lines that agree up to the nth have the same value.
LEMMA LastOfAgrees ==
  ASSUME NEW lines, NEW others, NEW n \in Nat, \A i \in 1..n : lines[i] = others[i],
         NEW key, NEW default
  PROVE  LastOf(lines, n, key, default) = LastOf(others, n, key, default)
<1> DEFINE those == {i \in 1 .. n : lines[i].key = key}
           same  == {i \in 1 .. n : others[i].key = key}
<1>1. those = same
  OBVIOUS
<1>2. ASSUME those # {} PROVE Max(those) \in 1..n
  <2>1. those \subseteq Nat /\ \A x \in those : x <= n
    OBVIOUS
  <2>2. PICK m \in those : \A x \in those : x <= m
    <3> HIDE DEF those
    <3> QED BY <1>2, <2>1, GreatestElement
  <2>3. Max(those) = m
    <3> HIDE DEF those
    <3> QED BY <2>1, <2>2, MaxIs
  <2> QED BY <2>3
<1> HIDE DEF those, same
<1>3. CASE those = {}
  BY <1>1, <1>3 DEF LastOf, those, same
<1>4. CASE those # {}
  <2>1. lines[Max(those)] = others[Max(those)]
    BY <1>2, <1>4
  <2>2. LastOf(lines, n, key, default) = lines[Max(those)].value
    BY <1>4 DEF LastOf, those
  <2>3. LastOf(others, n, key, default) = others[Max(same)].value
    BY <1>1, <1>4 DEF LastOf, same
  <2> QED BY <1>1, <2>1, <2>2, <2>3
<1> QED BY <1>3, <1>4

\* What the first n header lines amount to, over a body.
Amounts(lines, n, body) ==
  Response(StatusOf(LastOf(lines, n, "status", 200)),
           LastOf(lines, n, "content-type", TextHtml), body)

\* One more header line, in the code and in what is meant.
LEMMA AmountsSteps ==
  ASSUME NEW lines, NEW n \in Nat \ {0}, NEW body
  PROVE  Amounts(lines, n, body) = WithHeader(Amounts(lines, n - 1, body), lines[n])
<1> DEFINE key == lines[n].key
           status == LastOf(lines, n - 1, "status", 200)
           type == LastOf(lines, n - 1, "content-type", TextHtml)
<1>1. LastOf(lines, n, "status", 200) = IF key = "status" THEN lines[n].value ELSE status
  BY LastOfSteps
<1>2. LastOf(lines, n, "content-type", TextHtml) =
        IF key = "content-type" THEN lines[n].value ELSE type
  BY LastOfSteps
<1> HIDE DEF status, type
<1>3. Amounts(lines, n - 1, body) = Response(StatusOf(status), type, body)
  BY DEF Amounts, status, type
<1>4. Amounts(lines, n, body) =
        Response(StatusOf(IF key = "status" THEN lines[n].value ELSE status),
                 IF key = "content-type" THEN lines[n].value ELSE type, body)
  BY <1>1, <1>2 DEF Amounts
<1>5. CASE key = "status"
  BY <1>3, <1>4, <1>5 DEF WithHeader, Response
<1>6. CASE key = "content-type"
  BY <1>3, <1>4, <1>6 DEF WithHeader, Response
<1>7. CASE key \notin {"status", "content-type"}
  BY <1>3, <1>4, <1>7 DEF WithHeader, Response
<1> QED BY <1>5, <1>6, <1>7

\* The recursion in WithHeaders.
Adds(f, res, lines) ==
  f = [i \in 0..Len(lines) |-> IF i = 0 THEN res ELSE WithHeader(f[i - 1], lines[i])]

\* The loop over the header lines leaves the values of the last ones.
LEMMA WithHeadersIs ==
  ASSUME NEW V, NEW lines \in Seq(V), NEW body
  PROVE  WithHeaders(Response(200, TextHtml, body), lines) = Amounts(lines, Len(lines), body)
<1> DEFINE n == Len(lines)
           res == Response(200, TextHtml, body)
           f == [i \in 0..n |-> Amounts(lines, i, body)]
           h == CHOOSE g : Adds(g, res, lines)
<1>1. WithHeaders(res, lines) = h[n]
  BY DEF WithHeaders, Adds
<1>2. n \in Nat
  OBVIOUS
<1>3. Amounts(lines, 0, body) = res
  <2>1. \A key, default : LastOf(lines, 0, key, default) = default
    BY DEF LastOf
  <2> QED BY <2>1 DEF Amounts, StatusOf, Statuses
<1> HIDE DEF n, res
<1>4. Adds(f, res, lines)
  <2> DEFINE r == [i \in 0..n |-> IF i = 0 THEN res ELSE WithHeader(f[i - 1], lines[i])]
  <2>1. ASSUME NEW i \in 0..n PROVE f[i] = r[i]
    <3>1. CASE i = 0
      BY <1>3, <3>1
    <3>2. CASE i # 0
      <4>1. i \in Nat \ {0} /\ i - 1 \in 0..n
        BY <1>2, <3>2
      <4>2. f[i] = Amounts(lines, i, body) /\ f[i - 1] = Amounts(lines, i - 1, body)
        BY <4>1
      <4>3. r[i] = WithHeader(f[i - 1], lines[i])
        BY <3>2
      <4> HIDE DEF f, r
      <4> QED BY <4>1, <4>2, <4>3, AmountsSteps
    <3> QED BY <3>1, <3>2
  <2>2. f = r
    BY <2>1
  <2> QED BY <2>2 DEF Adds, n
<1>5. Adds(h, res, lines)
  <2> HIDE DEF f
  <2> QED BY <1>4
<1>6. \A i \in 0..n : h[i] = IF i = 0 THEN res ELSE WithHeader(h[i - 1], lines[i])
  <2> HIDE DEF h
  <2> DEFINE r == [i \in 0..n |-> IF i = 0 THEN res ELSE WithHeader(h[i - 1], lines[i])]
  <2>1. h = r
    BY <1>5 DEF Adds, n
  <2>2. \A i \in 0..n : r[i] = IF i = 0 THEN res ELSE WithHeader(h[i - 1], lines[i])
    OBVIOUS
  <2> QED BY <2>1, <2>2
<1> HIDE DEF h
<1> DEFINE S == {m \in Nat : m <= n => h[m] = Amounts(lines, m, body)}
<1>7. 0 \in S
  BY <1>2, <1>3, <1>6
<1>8. ASSUME NEW m \in Nat, m \in S PROVE m + 1 \in S
  <2> SUFFICES ASSUME m + 1 <= n PROVE h[m + 1] = Amounts(lines, m + 1, body)
    OBVIOUS
  <2>1. m + 1 \in 0..n /\ m + 1 \in Nat \ {0} /\ (m + 1) - 1 = m
    BY <1>2
  <2>2. h[m] = Amounts(lines, m, body)
    BY <1>2, <1>8
  <2>3. h[m + 1] = WithHeader(h[m], lines[m + 1])
    BY <1>6, <2>1
  <2>4. Amounts(lines, m + 1, body) = WithHeader(Amounts(lines, m, body), lines[m + 1])
    BY <2>1, AmountsSteps
  <2> QED BY <2>2, <2>3, <2>4
<1>9. n \in S
  <2> HIDE DEF S
  <2> QED BY <1>2, <1>7, <1>8, SetInduction
<1> QED BY <1>1, <1>2, <1>9 DEF n, res

\* Once the separator is found the response is made of the lines before it, and the
\* rest is the body.
LEMMA ParseIs ==
  ASSUME NEW V, NEW out \in Seq(V), NEW k \in 1..Len(out), Separator(out) = k
  PROVE  parse_cgi_output(out) = Amounts(out, k, SubSeq(out, k + 2, Len(out)))
<1> DEFINE lines == SubSeq(out, 1, k)
           body == SubSeq(out, k + 2, Len(out))
<1>1. parse_cgi_output(out) = WithHeaders(Response(200, TextHtml, body), lines)
  <2>1. k # 0
    OBVIOUS
  <2> QED BY <2>1 DEF parse_cgi_output
<1>2. lines \in Seq(V) /\ Len(lines) = k /\ \A i \in 1..k : lines[i] = out[i]
  OBVIOUS
<1> HIDE DEF lines, body
<1>3. WithHeaders(Response(200, TextHtml, body), lines) = Amounts(lines, k, body)
  BY <1>2, WithHeadersIs
<1>4. \A key, default : LastOf(lines, k, key, default) = LastOf(out, k, key, default)
  <2>1. k \in Nat
    OBVIOUS
  <2> QED BY <1>2, <2>1, LastOfAgrees
<1> QED BY <1>1, <1>3, <1>4 DEF Amounts, body

\* The first blank line of an output that has one after its first line.
LEMMA HeaderEndIs ==
  ASSUME NEW V, NEW out \in Seq(V), HasHeader(out)
  PROVE  /\ HeaderEnd(out) \in 2..Len(out) /\ IsBlank(out[HeaderEnd(out)])
         /\ \A i \in DOMAIN out : IsBlank(out[i]) => HeaderEnd(out) <= i
<1> DEFINE S == {b \in DOMAIN out : IsBlank(out[b])}
<1>1. S \subseteq 1..Len(out) /\ Len(out) \in Nat
  OBVIOUS
<1>2. HeaderEnd(out) = FirstOf(S) /\ HeaderEnd(out) > 1
  BY DEF HeaderEnd, HasHeader
<1>3. \A b \in S : IsBlank(out[b])
  OBVIOUS
<1>4. \A i \in DOMAIN out : IsBlank(out[i]) => i \in S
  OBVIOUS
<1> HIDE DEF S
<1>5. S \subseteq Nat
  BY <1>1
<1>6. S # {}
  <2> SUFFICES ASSUME S = {} PROVE FALSE
    OBVIOUS
  <2>1. FirstOf(S) = 0
    BY <1>5, FirstIs
  <2> QED BY <1>2, <2>1
<1>7. FirstOf(S) \in S /\ \A x \in S : FirstOf(S) <= x
  BY <1>5, <1>6, FirstIs
<1>8. FirstOf(S) \in 2..Len(out)
  <2>1. FirstOf(S) \in 1..Len(out) /\ FirstOf(S) > 1
    BY <1>1, <1>2, <1>7
  <2> QED BY <1>1, <2>1
<1> QED BY <1>2, <1>3, <1>4, <1>7, <1>8

\* What is meant, read off the lines before the blank one, which says nothing itself.
LEMMA MeantIs ==
  ASSUME NEW V, NEW out \in Seq(V), HasHeader(out)
  PROVE  Meant(out) =
           Amounts(out, HeaderEnd(out) - 1, SubSeq(out, HeaderEnd(out) + 1, Len(out)))
<1> DEFINE h == HeaderEnd(out)
<1>1. h \in Nat \ {0} /\ IsBlank(out[h])
  BY HeaderEndIs
<1>2. out[h].key # "status" /\ out[h].key # "content-type"
  BY <1>1, Zenon DEF IsBlank
<1>3. \A key, default : LastValue(out, key, default) = LastOf(out, h, key, default)
  BY DEF LastValue, LastOf
<1> HIDE DEF h
<1>4. \A default : LastOf(out, h, "status", default) = LastOf(out, h - 1, "status", default)
  BY <1>1, <1>2, LastOfSteps
<1>5. \A default :
        LastOf(out, h, "content-type", default) = LastOf(out, h - 1, "content-type", default)
  BY <1>1, <1>2, LastOfSteps
<1> QED BY <1>3, <1>4, <1>5 DEF Meant, Amounts, h

\* A pair of line ends of one kind is the end of a line and a blank line.
LEMMA DoubledIs ==
  ASSUME NEW V, NEW out \in Seq(V), NEW eol
  PROVE  /\ Doubled(out, eol) \subseteq 1..Len(out) - 1 /\ Doubled(out, eol) \subseteq Nat
         /\ \A k \in 1..Len(out) - 1 :
              k \in Doubled(out, eol) <=>
                /\ IsBlank(out[k + 1]) /\ out[k + 1].eol = eol
                /\ eol = "crlf" => out[k].eol = "crlf"
  BY DEF Doubled

\* Without a blank line there is no separator.
LEMMA NoSeparator ==
  ASSUME NEW V, NEW out \in Seq(V), \A i \in DOMAIN out : ~IsBlank(out[i])
  PROVE  Separator(out) = 0
<1>1. ASSUME NEW eol PROVE Doubled(out, eol) = {}
  <2> SUFFICES ASSUME NEW k \in Doubled(out, eol) PROVE FALSE
    OBVIOUS
  <2>1. k \in 1..Len(out) - 1 /\ IsBlank(out[k + 1])
    BY DoubledIs
  <2>2. k + 1 \in DOMAIN out
    BY <2>1
  <2> QED BY <2>1, <2>2
<1> QED BY <1>1, FirstIs DEF Separator

\* If the header and its blank line have one line end, the pair of these that comes
\* first is where the header ends.
LEMMA FirstDoubled ==
  ASSUME NEW V, NEW out \in Seq(V), NEW eol, HeaderIn(out, eol)
  PROVE  Doubled(out, eol) # {} /\ FirstOf(Doubled(out, eol)) = HeaderEnd(out) - 1
<1> DEFINE h == HeaderEnd(out)
           D == Doubled(out, eol)
<1>1. h \in 2..Len(out) /\ IsBlank(out[h]) /\ Len(out) \in Nat
      /\ \A i \in DOMAIN out : IsBlank(out[i]) => h <= i
  BY HeaderEndIs DEF HeaderIn
<1>2. \A i \in 1..h : out[i].eol = eol
  BY DEF HeaderIn
<1> HIDE DEF h
<1>3. h - 1 \in D
  <2>1. h - 1 \in 1..Len(out) - 1 /\ h - 1 \in 1..h /\ h \in 1..h /\ (h - 1) + 1 = h
    BY <1>1
  <2>2. IsBlank(out[(h - 1) + 1]) /\ out[(h - 1) + 1].eol = eol /\ out[h - 1].eol = eol
    BY <1>1, <1>2, <2>1
  <2> QED BY <2>1, <2>2, DoubledIs
<1>4. ASSUME NEW k \in D PROVE h - 1 <= k
  <2>1. k \in 1..Len(out) - 1 /\ IsBlank(out[k + 1])
    BY DoubledIs
  <2>2. k + 1 \in DOMAIN out
    BY <2>1
  <2>3. h <= k + 1
    BY <1>1, <2>1, <2>2
  <2> QED BY <1>1, <2>1, <2>3
<1>5. D \subseteq Nat
  BY DoubledIs
<1> HIDE DEF D
<1>6. FirstOf(D) = h - 1
  BY <1>3, <1>4, <1>5, FirstIs
<1> QED BY <1>3, <1>6 DEF D, h

\* The separator is found where the header ends: a pair of "\r\n" is looked for first,
\* and an output in "\n" has none.
LEMMA SeparatorIs ==
  ASSUME NEW V, NEW out \in Seq(V), HeaderIn(out, "crlf") \/ AllIn(out, "lf")
  PROVE  Separator(out) = HeaderEnd(out) - 1
<1> DEFINE C == Doubled(out, "crlf")
           L == Doubled(out, "lf")
<1>1. Separator(out) = IF C # {} THEN FirstOf(C) ELSE FirstOf(L)
  BY DEF Separator
<1>2. CASE HeaderIn(out, "crlf")
  BY <1>1, <1>2, FirstDoubled
<1>3. CASE AllIn(out, "lf")
  <2>1. \A i \in 1..Len(out) : out[i].eol = "lf"
    BY <1>3 DEF AllIn
  <2>2. HeaderEnd(out) \in 2..Len(out) /\ Len(out) \in Nat
    BY <1>3, HeaderEndIs DEF AllIn
  <2>3. HeaderIn(out, "lf")
    BY <1>3, <2>1, <2>2 DEF HeaderIn, AllIn
  <2>4. C = {}
    <3> SUFFICES ASSUME NEW k \in C PROVE FALSE
      OBVIOUS
    <3>1. k \in 1..Len(out) - 1 /\ out[k + 1].eol = "crlf"
      BY DoubledIs
    <3>2. k + 1 \in 1..Len(out)
      BY <2>2, <3>1
    <3> QED BY <2>1, <3>1, <3>2
  <2> QED BY <1>1, <2>3, <2>4, FirstDoubled
<1> QED BY <1>2, <1>3

\* The status is always one of those the server has a word for.
LEMMA StatusIsKnown ==
  ASSUME NEW V, NEW out \in Seq(V)
  PROVE  parse_cgi_output(out).status \in Statuses
<1>1. ServerError.status \in Statuses
  BY DEF ServerError, Response, Statuses
<1>2. \A k, body : Amounts(out, k, body).status \in Statuses
  <2>1. \A n : StatusOf(n) \in Statuses
    BY DEF StatusOf, Statuses
  <2> QED BY <2>1 DEF Amounts, Response
<1>3. CASE Separator(out) = 0
  BY <1>1, <1>3 DEF parse_cgi_output
<1>4. CASE Separator(out) # 0
  <2>1. Separator(out) \in 1..Len(out)
    <3>1. ASSUME NEW eol, FirstOf(Doubled(out, eol)) # 0
          PROVE  FirstOf(Doubled(out, eol)) \in 1..Len(out)
      <4> DEFINE D == Doubled(out, eol)
      <4>1. D \subseteq 1..Len(out) - 1 /\ D \subseteq Nat /\ Len(out) \in Nat
        BY DoubledIs
      <4> HIDE DEF D
      <4>2. FirstOf(D) \in D
        BY <3>1, <4>1, FirstIs DEF D
      <4> QED BY <4>1, <4>2 DEF D
    <3> QED BY <1>4, <3>1 DEF Separator
  <2> QED BY <1>2, <2>1, ParseIs
<1> QED BY <1>3, <1>4

\* Every output is answered as the format says, if its line ends do not vary.
LEMMA OutputIsAnswered ==
  ASSUME NEW V, NEW out \in Seq(V)
  PROVE  /\ (\A i \in DOMAIN out : ~IsBlank(out[i])) => parse_cgi_output(out) = ServerError
         /\ HeaderIn(out, "crlf") \/ AllIn(out, "lf") => parse_cgi_output(out) = Meant(out)
<1> DEFINE h == HeaderEnd(out)
           k == Separator(out)
<1>1. ASSUME \A i \in DOMAIN out : ~IsBlank(out[i]) PROVE parse_cgi_output(out) = ServerError
  BY <1>1, NoSeparator DEF parse_cgi_output
<1>2. ASSUME HasHeader(out), k = h - 1 PROVE parse_cgi_output(out) = Meant(out)
  <2>1. h \in 2..Len(out) /\ Len(out) \in Nat
    BY <1>2, HeaderEndIs
  <2>2. Meant(out) = Amounts(out, h - 1, SubSeq(out, h + 1, Len(out)))
    BY <1>2, MeantIs
  <2> HIDE DEF h
  <2>3. k \in 1..Len(out) /\ k + 2 = h + 1
    BY <1>2, <2>1
  <2>4. parse_cgi_output(out) = Amounts(out, k, SubSeq(out, k + 2, Len(out)))
    BY <2>3, ParseIs
  <2> QED BY <1>2, <2>2, <2>3, <2>4
<1>3. HeaderIn(out, "crlf") \/ AllIn(out, "lf") => HasHeader(out)
  BY DEF HeaderIn, AllIn
<1> QED BY <1>1, <1>2, <1>3, SeparatorIs

-----------------------------------------------------------------------------
(* The script and its process.                                              *)

\* A script has a number of lines to write.
LEMMA OutType == script \in Scripts => script.out \in Seq(Lines) /\ Out \in Nat
<1> SUFFICES ASSUME script \in Scripts PROVE script.out \in Seq(Lines) /\ Out \in Nat
  OBVIOUS
<1>1. script.out \in Seq(Lines)
  BY ScriptsAssumption
<1> QED BY <1>1 DEF Out

\* The whole of a sequence, taken as a part of it.
LEMMA WholeIs ==
  ASSUME NEW V, NEW s \in Seq(V)
  PROVE  SubSeq(s, 1, Len(s)) = s
  OBVIOUS

\* CgiRunner::new: no process yet, and nothing written.
LEMMA InitInv == Init => IndInv
<1> SUFFICES ASSUME Init PROVE IndInv
  OBVIOUS
<1>1. Out \in Nat /\ size \in Nat /\ StdinCap \in Nat /\ StdoutCap \in Nat
  BY OutType, SizesAssumption DEF Init
<1>2. TypeOK
  <2>1. unsent \in Nat /\ stdin \in 0..StdinCap /\ stdout \in 0..StdoutCap /\ made \in 0..Out
    BY <1>1 DEF Init
  <2>2. unsent + stdin + got = size /\ stdout + collected = made
    BY <1>1 DEF Init
  <2> QED BY <2>1, <2>2 DEF Init, TypeOK
<1> QED
  BY <1>1, <1>2
  DEF Init, IndInv, EndIsEarned, Ended, StageFollowsChild, WholeOutput, NoZombie,
      Answers

-----------------------------------------------------------------------------
(* One lemma per process and kind of step.  Each shows the parts of IndInv  *)
(* in turn; what a step leaves alone is in its UNCHANGED.                   *)

\* Spawning the script, or failing to.
LEMMA SpawnInv == IndInv /\ (Spawn \/ SpawnFails) => IndInv'
<1> SUFFICES ASSUME IndInv, Spawn \/ SpawnFails PROVE IndInv'
  OBVIOUS
<1> USE DEF IndInv, Spawn, SpawnFails, Error, Finish, AfterSpawn, childVars
<1>0. Out' = Out
  BY DEF Out
<1>1. size \in Nat
  BY <1>0, SizesAssumption DEF TypeOK
<1>2. TypeOK'
  BY <1>0, <1>1 DEF TypeOK
<1>3. EndIsEarned' /\ StageFollowsChild'
  BY <1>0, <1>1 DEF TypeOK, EndIsEarned, Ended, StageFollowsChild
<1>4. WholeOutput' /\ NoZombie'
  BY <1>0 DEF WholeOutput, NoZombie, StageFollowsChild
<1>5. Answers'
  BY DEF Answers, StageFollowsChild
<1> QED BY <1>2, <1>3, <1>4, <1>5

\* Writing the body: only a running script is given input, and stdin is dropped with
\* input left only if the script is gone or wants none.
LEMMA WriteInv == IndInv /\ (WriteSome \/ WriteEnds) => IndInv'
<1> SUFFICES ASSUME IndInv, WriteSome \/ WriteEnds PROVE IndInv'
  OBVIOUS
<1> USE DEF IndInv, WriteSome, WriteEnds, Written, MayBreak, childVars
<1>0. Out' = Out
  BY DEF Out
<1>1. size \in Nat /\ StdinCap \in Nat
  BY <1>0, SizesAssumption DEF TypeOK
<1>2. unsent' \in Nat /\ stdin' \in 0..StdinCap /\ unsent' + stdin' + got = size
  BY <1>1 DEF TypeOK
<1>3. TypeOK'
  BY <1>0, <1>2 DEF TypeOK
<1>4. EndIsEarned' /\ StageFollowsChild'
  BY <1>0, <1>1 DEF TypeOK, EndIsEarned, Ended, StageFollowsChild
<1>5. WholeOutput' /\ NoZombie'
  BY <1>0 DEF WholeOutput, NoZombie
<1>6. Answers'
  BY DEF Answers
<1> QED BY <1>3, <1>4, <1>5, <1>6

\* Waiting: the script is reaped, or killed and reaped, or try_wait fails.
LEMMA PollInv == IndInv /\ (PollExited \/ PollKills \/ PollFails) => IndInv'
<1> SUFFICES ASSUME IndInv, PollExited \/ PollKills \/ PollFails PROVE IndInv'
  OBVIOUS
<1> USE DEF IndInv, PollExited, PollKills, PollFails, AfterKill, Error, Finish, childVars
<1>0. Out' = Out
  BY DEF Out
<1>1. TypeOK'
  BY <1>0 DEF TypeOK
<1>2. EndIsEarned' /\ StageFollowsChild'
  BY <1>0 DEF TypeOK, EndIsEarned, Ended, StageFollowsChild
<1>3. WholeOutput' /\ NoZombie'
  BY <1>0 DEF WholeOutput, NoZombie
<1>4. Answers'
  BY DEF Answers, StageFollowsChild
<1> QED BY <1>1, <1>2, <1>3, <1>4

\* Collecting: what leaves the pipe is collected, and end of file comes when all of
\* it has.
LEMMA CollectInv == IndInv /\ (CollectSome \/ CollectEnds \/ CollectFails) => IndInv'
<1> SUFFICES ASSUME IndInv, CollectSome \/ CollectEnds \/ CollectFails PROVE IndInv'
  OBVIOUS
<1> USE DEF IndInv, CollectSome, CollectEnds, CollectFails, ReadLen, AtEof, Error,
        Finish, childVars
<1>0. Out' = Out
  BY DEF Out
<1>1. TypeOK'
  BY <1>0, SizesAssumption DEF TypeOK
<1>2. EndIsEarned' /\ StageFollowsChild'
  BY <1>0 DEF TypeOK, EndIsEarned, Ended, StageFollowsChild
<1>3. WholeOutput' /\ NoZombie'
  BY <1>0 DEF TypeOK, EndIsEarned, Ended, StageFollowsChild, WholeOutput, NoZombie
<1>4. Answers'
  <2>1. ASSUME CollectEnds, ~script.fails PROVE Answers'
    <3>1. collected = Out
      BY <2>1 DEF TypeOK, EndIsEarned, Ended
    <3>2. SubSeq(script.out, 1, collected) = script.out
      BY <3>1, OutType, WholeIs DEF Out, TypeOK
    <3> QED BY <2>1, <3>2 DEF Answers
  <2>2. ASSUME CollectSome \/ (CollectEnds /\ script.fails) \/ CollectFails PROVE Answers'
    BY <2>2 DEF Answers
  <2> QED BY <2>1, <2>2
<1> QED BY <1>1, <1>2, <1>3, <1>4

\* The script reads, writes, exits: it ends when all its output is written, and after an
\* end of file only with all its input read.
LEMMA ScriptInv == IndInv /\ Script => IndInv'
<1> SUFFICES ASSUME IndInv, Script PROVE IndInv'
  OBVIOUS
<1> USE DEF IndInv, Script, ScriptReads, ScriptWrites, ScriptExits, parentVars, childVars
<1>0. Out' = Out
  BY DEF Out
<1>1. StdinCap \in Nat /\ StdoutCap \in Nat /\ Out \in Nat
  BY <1>0, SizesAssumption, OutType DEF TypeOK
<1>2. TypeOK'
  <2>1. script.leaves \in BOOLEAN
    BY ScriptsAssumption DEF TypeOK
  <2>2. stdin' \in 0..StdinCap /\ got' \in Nat /\ unsent + stdin' + got' = size
    BY <1>1 DEF TypeOK
  <2>3. stdout' \in 0..StdoutCap /\ made' \in 0..Out /\ stdout' + collected = made'
    BY <1>1 DEF TypeOK
  <2> QED BY <1>0, <2>1, <2>2, <2>3 DEF TypeOK
<1>3. EndIsEarned'
  BY <1>0 DEF TypeOK, EndIsEarned, Ended, StageFollowsChild, InputDone
<1>4. StageFollowsChild'
  BY <1>0, <1>1 DEF TypeOK, StageFollowsChild
<1>5. WholeOutput' /\ NoZombie'
  BY <1>0 DEF WholeOutput, NoZombie
<1>6. Answers'
  BY DEF Answers
<1> QED BY <1>2, <1>3, <1>4, <1>5, <1>6

\* Every step keeps the invariant.
LEMMA NextInv == IndInv /\ [Next]_vars => IndInv'
<1> SUFFICES ASSUME IndInv, [Next]_vars PROVE IndInv'
  OBVIOUS
<1>1. ASSUME DescendantExits \/ Elapse PROVE IndInv'
  <2> USE <1>1 DEF DescendantExits, Elapse, parentVars, childVars, IndInv
  <2>1. Out' = Out
    BY DEF Out
  <2>2. TypeOK'
    BY <2>1 DEF TypeOK
  <2>3. EndIsEarned' /\ StageFollowsChild'
    BY <2>1 DEF EndIsEarned, Ended, StageFollowsChild
  <2>4. WholeOutput' /\ NoZombie'
    BY <2>1 DEF WholeOutput, NoZombie
  <2>5. Answers'
    BY DEF Answers
  <2> QED BY <2>2, <2>3, <2>4, <2>5
<1>2. ASSUME UNCHANGED vars PROVE IndInv'
  <2>1. Out' = Out
    BY <1>2 DEF vars, Out
  <2> QED BY <1>2, <2>1 DEF vars, parentVars, childVars, IndInv, TypeOK, EndIsEarned,
              Ended, StageFollowsChild, WholeOutput, NoZombie, Answers
<1> QED
  BY <1>1, <1>2, SpawnInv, WriteInv, PollInv, CollectInv, ScriptInv DEF Next, Parent

\* run() and its script are in the states IndInv describes and no others.
THEOREM Invariance == Spec => []IndInv
  BY InitInv, NextInv, PTL DEF Spec

-----------------------------------------------------------------------------
(* What follows from it.                                                    *)

\* The state keeps its shape, and what is written to a pipe is in it or has been read.
THEOREM TypeCorrect == Spec => []TypeOK
<1>1. IndInv => TypeOK
  BY DEF IndInv
<1> QED BY <1>1, Invariance, PTL

\* wait_with_output returns all that the script has written, whatever the sizes.
THEOREM OutputIsWhole == Spec => []WholeOutput
<1>1. IndInv => WholeOutput
  BY DEF IndInv
<1> QED BY <1>1, Invariance, PTL

\* A script that waits for end of file and succeeds has read the whole body.
THEOREM InputIsWhole == Spec => []WholeInput
<1>1. IndInv => WholeInput
  <2> SUFFICES ASSUME IndInv, result = "ok", script.reads = "eof" PROVE got = size
    BY DEF WholeInput
  <2>1. unsent = 0 /\ stdin = 0
    BY DEF IndInv, EndIsEarned, Ended
  <2> QED BY <2>1 DEF IndInv, TypeOK
<1> QED BY <1>1, Invariance, PTL

\* run() leaves no zombie and no script behind, unless waitpid itself has failed.
THEOREM NoZombieIsLeft == Spec => []NoZombie
<1>1. IndInv => NoZombie
  BY DEF IndInv
<1> QED BY <1>1, Invariance, PTL

\* The client gets what the script meant, whatever its output: a header in "\r\n" and any
\* body, or all of it in "\n".
THEOREM ResponsesAreWhatTheyWrote == Spec => []ResponseIsWhatItWrote
<1>1. IndInv => ResponseIsWhatItWrote
  <2> SUFFICES ASSUME IndInv PROVE ResponseIsWhatItWrote
    OBVIOUS
  <2>1. script.out \in Seq(Lines)
    BY OutType DEF IndInv, TypeOK
  <2>2. response = IF result = "ok" THEN parse_cgi_output(script.out) ELSE ServerError
    BY DEF IndInv, Answers
  <2>3. response.status \in Statuses
    <3>1. ServerError.status \in Statuses
      BY DEF ServerError, Response, Statuses
    <3> QED BY <2>1, <2>2, <3>1, StatusIsKnown
  <2>4. CASE result # "ok"
    BY <2>3, <2>4 DEF ResponseIsWhatItWrote
  <2>5. CASE result = "ok"
    <3>1. response = parse_cgi_output(script.out)
      BY <2>2, <2>5
    <3> QED BY <2>1, <2>3, <3>1, OutputIsAnswered DEF ResponseIsWhatItWrote
  <2> QED BY <2>4, <2>5
<1> QED BY <1>1, Invariance, PTL
=============================================================================
