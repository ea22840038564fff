-------------------------- MODULE ChunkedBodyProofs --------------------------
(* Proofs about ChunkedBody, for any bytes, any bodies and any other input. *)
EXTENDS ChunkedBody, Induction, SequenceTheorems

-----------------------------------------------------------------------------
(* Sequences.                                                               *)

\* r is s followed by t, element by element.
Glued(r, s, t) == /\ Len(r) = Len(s) + Len(t)
                  /\ \A i \in 1..Len(s) : r[i] = s[i]
                  /\ \A i \in 1..Len(t) : r[Len(s) + i] = t[i]

\* What a concatenation of two sequences is made of.
LEMMA ConcatIs ==
  ASSUME NEW V, NEW s \in Seq(V), NEW t \in Seq(V)
  PROVE  s \o t \in Seq(V) /\ Glued(s \o t, s, t)
<1>1. s \o t \in Seq(V) /\ Len(s \o t) = Len(s) + Len(t)
  OBVIOUS
<1>2. \A i \in 1..Len(s) : (s \o t)[i] = s[i]
  OBVIOUS
<1>3. \A i \in 1..Len(t) : (s \o t)[Len(s) + i] = t[i]
  OBVIOUS
<1> QED BY <1>1, <1>2, <1>3 DEF Glued

\* p is the first k elements of s.
Starts(p, s, k) == Len(p) = k /\ DOMAIN p = 1..k /\ \A i \in 1..k : p[i] = s[i]

\* What a prefix of a sequence is made of.
LEMMA PrefixIs ==
  ASSUME NEW V, NEW s \in Seq(V), NEW k \in 0..Len(s)
  PROVE  /\ SubSeq(s, 1, k) \in Seq(V) /\ Starts(SubSeq(s, 1, k), s, k)
         /\ SubSeq(s, 1, k) = [i \in 1..k |-> s[i]]
<1>1. SubSeq(s, 1, k) \in Seq(V) /\ Len(SubSeq(s, 1, k)) = k
  OBVIOUS
<1>2. \A i \in 1..k : SubSeq(s, 1, k)[i] = s[i]
  OBVIOUS
<1>3. SubSeq(s, 1, k) = [i \in 1..k |-> s[i]]
  OBVIOUS
<1> QED BY <1>1, <1>2, <1>3 DEF Starts

\* A part of one element.
LEMMA OneElement ==
  ASSUME NEW V, NEW s \in Seq(V), NEW i \in 1..Len(s)
  PROVE  SubSeq(s, i, i) = <<s[i]>>
<1> DEFINE p == SubSeq(s, i, i)  q == <<s[i]>>
<1>1. p \in Seq(V) /\ Len(p) = 1 /\ p[1] = s[i]
  OBVIOUS
<1>2. q \in Seq(V) /\ Len(q) = 1 /\ q[1] = s[i]
  OBVIOUS
<1> HIDE DEF p, q
<1>3. \A j \in 1..Len(p) : p[j] = q[j]
  BY <1>1, <1>2
<1>4. p = q
  BY <1>1, <1>2, <1>3, SeqEqual
<1> QED BY <1>4 DEF p, q

-----------------------------------------------------------------------------
(* Flat, which is defined by recursion.                                     *)

\* The recursion in Flat.
Joins(f, seqs) ==
  f = [i \in 0..Len(seqs) |-> IF i = 0 THEN << >> ELSE f[i - 1] \o seqs[i]]

\* Flat is what joining one sequence after the other comes to.
LEMMA FlatOfOne ==
  ASSUME NEW V, NEW seqs \in Seq(Seq(V)), NEW f \in [0..Len(seqs) -> Seq(V)],
         f[0] = << >>, \A i \in 1..Len(seqs) : f[i] = f[i - 1] \o seqs[i]
  PROVE  Flat(seqs) = f[Len(seqs)]
<1> DEFINE n == Len(seqs)
           h == CHOOSE g : Joins(g, seqs)
<1>1. Flat(seqs) = h[n]
  BY DEF Flat, Joins
<1>2. Joins(f, seqs)
  <2> DEFINE r == [i \in 0..n |-> IF i = 0 THEN << >> ELSE f[i - 1] \o seqs[i]]
  <2>1. ASSUME NEW i \in 0..n PROVE f[i] = r[i]
    <3>1. CASE i = 0
      BY <3>1
    <3>2. CASE i # 0
      <4>1. i \in 1..n
        BY <3>2
      <4>2. r[i] = f[i - 1] \o seqs[i]
        BY <3>2
      <4> QED BY <4>1, <4>2
    <3> QED BY <3>1, <3>2
  <2>2. f = r
    BY <2>1
  <2> QED BY <2>2 DEF Joins
<1>3. Joins(h, seqs)
  BY <1>2
<1>4. \A i \in 0..n : h[i] = IF i = 0 THEN << >> ELSE h[i - 1] \o seqs[i]
  <2> HIDE DEF h
  <2> DEFINE r == [i \in 0..n |-> IF i = 0 THEN << >> ELSE h[i - 1] \o seqs[i]]
  <2>1. h = r
    BY <1>3 DEF Joins
  <2>2. \A i \in 0..n : r[i] = IF i = 0 THEN << >> ELSE h[i - 1] \o seqs[i]
    OBVIOUS
  <2> QED BY <2>1, <2>2
<1> HIDE DEF h
<1> DEFINE S == {m \in Nat : m <= n => h[m] = f[m]}
<1>5. 0 \in S
  BY <1>4
<1>6. ASSUME NEW m \in Nat, m \in S PROVE m + 1 \in S
  <2> SUFFICES ASSUME m + 1 <= n PROVE h[m + 1] = f[m + 1]
    OBVIOUS
  <2>1. m + 1 \in 1..n /\ m + 1 \in 0..n /\ m + 1 # 0 /\ (m + 1) - 1 = m /\ h[m] = f[m]
    BY <1>6
  <2>2. h[m + 1] = h[m] \o seqs[m + 1]
    BY <1>4, <2>1
  <2>3. f[m + 1] = f[m] \o seqs[m + 1]
    BY <2>1
  <2> QED BY <2>1, <2>2, <2>3
<1>7. n \in S
  <2>1. n \in Nat
    OBVIOUS
  <2> HIDE DEF S, n
  <2> QED BY <1>5, <1>6, <2>1, SetInduction
<1> QED BY <1>1, <1>7

\* On the way Flat makes what it would of each prefix.
LEMMA FlatSteps ==
  ASSUME NEW V, NEW seqs \in Seq(Seq(V))
  PROVE  \E f \in [0..Len(seqs) -> Seq(V)] :
           /\ f[0] = << >>
           /\ \A i \in 1..Len(seqs) : f[i] = f[i - 1] \o seqs[i]
           /\ \A k \in 0..Len(seqs) : Flat(SubSeq(seqs, 1, k)) = f[k]
<1> DEFINE n == Len(seqs)
           step == [p \in Seq(V) \X (1..n) |-> p[1] \o seqs[p[2]]]
<1>1. n \in Nat /\ << >> \in Seq(V)
  OBVIOUS
<1>2. step \in [Seq(V) \X (1..n) -> Seq(V)]
  OBVIOUS
<1>3. PICK f \in [0..n -> Seq(V)] : Follows(f, << >>, step, n)
  <2> HIDE DEF n, step
  <2> QED BY <1>1, <1>2, RecursionExists
<1>4. f[0] = << >> /\ \A i \in 1..n : f[i] = f[i - 1] \o seqs[i]
  <2>1. ASSUME NEW i \in 1..n PROVE f[i] = f[i - 1] \o seqs[i]
    <3>1. f[i] = step[<<f[i - 1], i>>]
      BY <1>3 DEF Follows
    <3>2. f[i - 1] \in Seq(V)
      <4>1. i - 1 \in 0..n
        BY <1>1
      <4> HIDE DEF n
      <4> QED BY <4>1
    <3>3. <<f[i - 1], i>> \in Seq(V) \X (1..n)
      BY <3>2
    <3>4. step[<<f[i - 1], i>>] = f[i - 1] \o seqs[i]
      BY <3>3
    <3> QED BY <3>1, <3>4
  <2> QED BY <1>3, <2>1 DEF Follows
<1>5. ASSUME NEW k \in 0..n PROVE Flat(SubSeq(seqs, 1, k)) = f[k]
  <2> DEFINE part == SubSeq(seqs, 1, k)
             r == [i \in 0..k |-> f[i]]
  <2>1. part \in Seq(Seq(V)) /\ Len(part) = k /\ \A i \in 1..k : part[i] = seqs[i]
    OBVIOUS
  <2>2. r \in [0..k -> Seq(V)] /\ r[0] = << >> /\ r[k] = f[k]
    <3>1. k \in Nat /\ 0..k \subseteq 0..n
      BY <1>1
    <3>2. \A i \in 0..k : f[i] \in Seq(V)
      <4> HIDE DEF n
      <4> QED BY <3>1
    <3> HIDE DEF n
    <3> QED BY <1>4, <3>1, <3>2
  <2>3. \A i \in 1..k : r[i] = r[i - 1] \o part[i]
    <3> SUFFICES ASSUME NEW i \in 1..k PROVE r[i] = r[i - 1] \o part[i]
      OBVIOUS
    <3>1. r[i] = f[i] /\ r[i - 1] = f[i - 1] /\ i \in 1..n
      OBVIOUS
    <3> QED BY <1>4, <2>1, <3>1
  <2> HIDE DEF part, r
  <2>4. Flat(part) = r[Len(part)]
    BY <2>1, <2>2, <2>3, FlatOfOne
  <2> QED BY <2>1, <2>2, <2>4 DEF part
<1> QED BY <1>4, <1>5

-----------------------------------------------------------------------------
(* The encoding of a list of chunks.                                        *)

\* A chunk on the wire: its size line and its data with a line end.
Piece(cs, i) == Line(<<DigitOf(Len(cs[i]))>>) \o Line(cs[i])

\* l is s with a line end.
Closed(l, s) == /\ Len(l) = Len(s) + 2 /\ \A i \in 1..Len(s) : l[i] = s[i]
                /\ l[Len(s) + 1] = CR /\ l[Len(s) + 2] = LF

\* A line is what is on it and the two bytes of a line end.
LEMMA LineIs ==
  ASSUME NEW s \in Seq(Bytes)
  PROVE  Line(s) \in Seq(Bytes) /\ Closed(Line(s), s)
<1>1. <<CR, LF>> \in Seq(Bytes) /\ Len(<<CR, LF>>) = 2
      /\ <<CR, LF>>[1] = CR /\ <<CR, LF>>[2] = LF
  BY BytesAssumption
<1> DEFINE e == <<CR, LF>>
<1> HIDE DEF e
<1>2. e \in Seq(Bytes) /\ Len(e) = 2 /\ e[1] = CR /\ e[2] = LF /\ Line(s) = s \o e
  BY <1>1 DEF e, Line
<1>3. Line(s) \in Seq(Bytes) /\ Glued(Line(s), s, e)
  BY <1>2, ConcatIs
<1>4. 1 \in 1..Len(e) /\ 2 \in 1..Len(e)
  BY <1>2
<1> QED BY <1>2, <1>3, <1>4 DEF Glued, Closed

\* The chunks of a body have data, and their lengths fit a digit.
LEMMA ChunkIs ==
  ASSUME NEW cs \in ChunkLists, NEW i \in 1..Len(cs)
  PROVE  /\ cs[i] \in Seq(Bytes) /\ Len(cs[i]) \in Nat \ {0}
         /\ DigitOf(Len(cs[i])) \in HexDigits /\ HexValue(DigitOf(Len(cs[i]))) = Len(cs[i])
<1>1. cs \in Seq(Seq(Bytes) \ {<< >>})
  BY BytesAssumption
<1>2. cs[i] \in Seq(Bytes) \ {<< >>} /\ i \in DOMAIN cs
  BY <1>1
<1>3. Len(cs[i]) \in Nat \ {0}
  BY <1>2
<1> QED BY <1>2, <1>3, ChunksAssumption

\* A framed chunk: its size line, then its bytes and a line end.
LEMMA PieceIs ==
  ASSUME NEW cs \in ChunkLists, NEW i \in 1..Len(cs)
  PROVE  /\ Piece(cs, i) \in Seq(Bytes) /\ Len(Piece(cs, i)) = Len(cs[i]) + 5
         /\ Piece(cs, i)[1] = DigitOf(Len(cs[i]))
         /\ Piece(cs, i)[2] = CR /\ Piece(cs, i)[3] = LF
         /\ \A j \in 1..Len(cs[i]) : Piece(cs, i)[3 + j] = cs[i][j]
<1> DEFINE d == <<DigitOf(Len(cs[i]))>>
           c == cs[i]
           a == Line(d)
           b == Line(c)
<1>1. d \in Seq(Bytes) /\ Len(d) = 1 /\ d[1] = DigitOf(Len(cs[i])) /\ c \in Seq(Bytes)
  BY ChunkIs, BytesAssumption
<1>2. Piece(cs, i) = a \o b
  BY DEF Piece
<1> HIDE DEF d, c
<1>3. a \in Seq(Bytes) /\ b \in Seq(Bytes) /\ Closed(a, d) /\ Closed(b, c)
  BY <1>1, LineIs
<1> HIDE DEF a, b
<1>4. a \o b \in Seq(Bytes) /\ Glued(a \o b, a, b)
  BY <1>3, ConcatIs
<1>5. Len(a) = 3 /\ a[1] = d[1] /\ a[2] = CR /\ a[3] = LF
  BY <1>1, <1>3 DEF Closed
<1>6. Len(c) \in Nat /\ Len(b) = Len(c) + 2 /\ \A j \in 1..Len(c) : b[j] = c[j]
  BY <1>1, <1>3 DEF Closed
<1>7. Len(a \o b) = Len(c) + 5 /\ (a \o b)[1] = a[1] /\ (a \o b)[2] = a[2]
      /\ (a \o b)[3] = a[3]
  BY <1>4, <1>5, <1>6 DEF Glued
<1>8. \A j \in 1..Len(c) : (a \o b)[3 + j] = c[j]
  BY <1>4, <1>5, <1>6 DEF Glued
<1> HIDE DEF Piece
<1>9. Piece(cs, i) \in Seq(Bytes) /\ Len(Piece(cs, i)) = Len(c) + 5
      /\ Piece(cs, i)[1] = d[1] /\ Piece(cs, i)[2] = CR /\ Piece(cs, i)[3] = LF
      /\ \A j \in 1..Len(c) : Piece(cs, i)[3 + j] = c[j]
  BY <1>2, <1>4, <1>5, <1>7, <1>8
<1> QED BY <1>1, <1>9 DEF c

\* Framed sets one piece after the other, and Flat joins one chunk to the other.
LEMMA FramedSteps ==
  ASSUME NEW cs \in ChunkLists
  PROVE  /\ Framed(First(cs, 0)) = << >>
         /\ \A k \in 1..Len(cs) :
              Framed(First(cs, k)) = Framed(First(cs, k - 1)) \o Piece(cs, k)
         /\ \A k \in 0..Len(cs) : Framed(First(cs, k)) \in Seq(Bytes)
<1> DEFINE n == Len(cs)
           seqs == [i \in 1..n |-> Piece(cs, i)]
<1>1. cs \in Seq(Seq(Bytes)) /\ n \in Nat
  BY BytesAssumption
<1>2. seqs \in Seq(Seq(Bytes)) /\ Len(seqs) = n
  BY <1>1, PieceIs
<1>3. PICK f \in [0..Len(seqs) -> Seq(Bytes)] :
        /\ f[0] = << >>
        /\ \A i \in 1..Len(seqs) : f[i] = f[i - 1] \o seqs[i]
        /\ \A k \in 0..Len(seqs) : Flat(SubSeq(seqs, 1, k)) = f[k]
  <2> HIDE DEF seqs
  <2> QED BY <1>2, FlatSteps
<1>4. ASSUME NEW k \in 0..n PROVE Framed(First(cs, k)) = f[k]
  <2> DEFINE p == First(cs, k)
             q == [i \in DOMAIN p |-> Line(<<DigitOf(Len(p[i]))>>) \o Line(p[i])]
  <2>1. DOMAIN p = 1..k /\ \A i \in 1..k : p[i] = cs[i]
    BY <1>1, PrefixIs DEF First, Starts
  <2>2. SubSeq(seqs, 1, k) = [i \in 1..k |-> seqs[i]]
    <3> HIDE DEF seqs, n
    <3> QED BY <1>1, <1>2, PrefixIs
  <2>3. \A i \in 1..k : seqs[i] = Piece(cs, i)
    BY <1>1
  <2>4. q = [i \in 1..k |-> Piece(cs, i)]
    <3> HIDE DEF p
    <3> QED BY <2>1 DEF Piece
  <2>5. q = SubSeq(seqs, 1, k)
    BY <2>2, <2>3, <2>4
  <2>6. Framed(p) = Flat(q)
    BY DEF Framed
  <2> HIDE DEF seqs, n
  <2> QED BY <1>2, <1>3, <2>5, <2>6
<1>5. \A k \in 1..n : k \in 0..n /\ k - 1 \in 0..n /\ seqs[k] = Piece(cs, k)
  BY <1>1
<1>6. 0 \in 0..n
  BY <1>1
<1> HIDE DEF seqs, n
<1>7. \A k \in 1..n : Framed(First(cs, k)) = Framed(First(cs, k - 1)) \o Piece(cs, k)
  BY <1>2, <1>3, <1>4, <1>5
<1>8. \A k \in 0..n : Framed(First(cs, k)) \in Seq(Bytes)
  BY <1>2, <1>3, <1>4
<1> QED BY <1>2, <1>3, <1>4, <1>6, <1>7, <1>8 DEF n

\* The chunks, joined one after the other.
LEMMA ChunksSteps ==
  ASSUME NEW cs \in ChunkLists
  PROVE  /\ Flat(First(cs, 0)) = << >>
         /\ \A k \in 1..Len(cs) : Flat(First(cs, k)) = Flat(First(cs, k - 1)) \o cs[k]
         /\ First(cs, Len(cs)) = cs
<1>1. cs \in Seq(Seq(Bytes)) /\ Len(cs) \in Nat
  BY BytesAssumption
<1>2. PICK f \in [0..Len(cs) -> Seq(Bytes)] :
        /\ f[0] = << >>
        /\ \A i \in 1..Len(cs) : f[i] = f[i - 1] \o cs[i]
        /\ \A k \in 0..Len(cs) : Flat(SubSeq(cs, 1, k)) = f[k]
  BY <1>1, FlatSteps
<1>3. \A k \in 1..Len(cs) : k \in 0..Len(cs) /\ k - 1 \in 0..Len(cs)
  BY <1>1
<1>4. 0 \in 0..Len(cs) /\ SubSeq(cs, 1, Len(cs)) = cs
  BY <1>1
<1> QED BY <1>2, <1>3, <1>4 DEF First

\* The encoding begins with the pieces before any chunk, whichever it is.
LEMMA FramedGrows ==
  ASSUME NEW cs \in ChunkLists, NEW k \in 1..Len(cs)
  PROVE  Glued(Framed(First(cs, k)), Framed(First(cs, k - 1)), Piece(cs, k))
<1>1. k \in 0..Len(cs) /\ k - 1 \in 0..Len(cs)
  BY BytesAssumption
<1>2. Framed(First(cs, k - 1)) \in Seq(Bytes) /\ Piece(cs, k) \in Seq(Bytes)
  BY <1>1, FramedSteps, PieceIs
<1>3. Framed(First(cs, k)) = Framed(First(cs, k - 1)) \o Piece(cs, k)
  BY FramedSteps
<1> QED BY <1>2, <1>3, ConcatIs

\* The lengths: nothing before the first chunk, and a chunk has five bytes of frame.
LEMMA BeforeIs ==
  ASSUME NEW cs \in ChunkLists
  PROVE  /\ Before(cs, 0) = 0
         /\ \A k \in 0..Len(cs) : Before(cs, k) \in Nat
         /\ \A k \in 1..Len(cs) : Before(cs, k) = Before(cs, k - 1) + Len(cs[k]) + 5
         /\ Before(cs, Len(cs)) < UsizeLimit
<1>1. Before(cs, 0) = 0
  BY FramedSteps DEF Before
<1>2. \A k \in 0..Len(cs) : Before(cs, k) \in Nat
  BY FramedSteps DEF Before
<1>3. ASSUME NEW k \in 1..Len(cs) PROVE Before(cs, k) = Before(cs, k - 1) + Len(cs[k]) + 5
  <2>1. Before(cs, k) = Before(cs, k - 1) + Len(Piece(cs, k))
    BY FramedGrows DEF Glued, Before
  <2>2. k - 1 \in 0..Len(cs) /\ Len(Piece(cs, k)) = Len(cs[k]) + 5 /\ Len(cs[k]) \in Nat
    BY BytesAssumption, PieceIs, ChunkIs
  <2> QED BY <1>2, <2>1, <2>2
<1>4. Before(cs, Len(cs)) < UsizeLimit
  BY ChunksSteps, ChunksAssumption DEF Before
<1> QED BY <1>1, <1>2, <1>3, <1>4

\* What is before a chunk stays in place when more chunks follow.
LEMMA FramedStays ==
  ASSUME NEW cs \in ChunkLists, NEW k \in 0..Len(cs), NEW j \in k..Len(cs)
  PROVE  /\ Before(cs, k) + j - k <= Before(cs, j)
         /\ \A i \in 1..Before(cs, k) : Framed(First(cs, j))[i] = Framed(First(cs, k))[i]
<1> DEFINE n == Len(cs)
           Stays(m) == /\ Before(cs, k) + m <= Before(cs, k + m)
                       /\ \A i \in 1..Before(cs, k) :
                            Framed(First(cs, k + m))[i] = Framed(First(cs, k))[i]
           S == {m \in Nat : k + m <= n => Stays(m)}
<1>1. n \in Nat /\ k \in Nat /\ Before(cs, k) \in Nat
  BY BytesAssumption, BeforeIs
<1>2. 0 \in S
  BY <1>1
<1>3. ASSUME NEW m \in Nat, m \in S PROVE m + 1 \in S
  <2> SUFFICES ASSUME k + m + 1 <= n PROVE Stays(m + 1)
    BY <1>1
  <2>1. Stays(m) /\ k + m + 1 \in 1..n /\ (k + m + 1) - 1 = k + m /\ k + m \in 0..n
        /\ k + (m + 1) = k + m + 1
    BY <1>1, <1>3
  <2> DEFINE b == Before(cs, k)  c == Before(cs, k + m)  d == Before(cs, k + m + 1)
             f == Framed(First(cs, k + m))  g == Framed(First(cs, k + m + 1))
  <2>2. b \in Nat /\ c \in Nat /\ d = c + Len(cs[k + m + 1]) + 5 /\ Len(cs[k + m + 1]) \in Nat
    BY <1>1, <2>1, BeforeIs, ChunkIs
  <2>3. Len(f) = c /\ \A i \in 1..Len(f) : g[i] = f[i]
    <3>1. Glued(g, f, Piece(cs, k + m + 1))
      BY <2>1, FramedGrows
    <3> QED BY <3>1 DEF Glued, Before
  <2>4. b + m <= c /\ \A i \in 1..b : f[i] = Framed(First(cs, k))[i]
    BY <2>1
  <2> HIDE DEF b, c, d, f, g
  <2>5. b + (m + 1) <= d
    BY <2>2, <2>4
  <2>6. \A i \in 1..b : g[i] = Framed(First(cs, k))[i]
    BY <2>2, <2>3, <2>4
  <2> QED BY <2>1, <2>5, <2>6 DEF b, d, g
<1>4. \A m \in Nat : m \in S
  <2> HIDE DEF S
  <2> QED BY <1>2, <1>3, SetInduction
<1>5. j - k \in Nat /\ k + (j - k) = j /\ j <= n /\ Before(cs, k) + (j - k) = Before(cs, k) + j - k
  BY <1>1
<1>6. Stays(j - k)
  BY <1>4, <1>5
<1> QED BY <1>5, <1>6

\* What the encoding ends with.
Ending == Line(<<DigitOf(0)>>) \o Line(<< >>)

\* The ending begins with the size line of a chunk without data.
LEMMA EndingIs ==
  ASSUME NEW cs \in ChunkLists
  PROVE  /\ Ending \in Seq(Bytes) /\ Len(Ending) = 5 /\ Ending[1] = DigitOf(0)
         /\ Ending[2] = CR /\ Ending[3] = LF
         /\ DigitOf(0) \in HexDigits /\ HexValue(DigitOf(0)) = 0
<1> DEFINE d == <<DigitOf(0)>>  a == Line(d)  e == << >>  b == Line(e)
<1>1. DigitOf(0) \in HexDigits /\ HexValue(DigitOf(0)) = 0
  BY ChunksAssumption
<1>2. d \in Seq(Bytes) /\ Len(d) = 1 /\ d[1] = DigitOf(0) /\ e \in Seq(Bytes) /\ Len(e) = 0
  BY <1>1, BytesAssumption
<1>3. Ending = a \o b
  BY DEF Ending
<1> HIDE DEF d, e
<1>4. a \in Seq(Bytes) /\ b \in Seq(Bytes) /\ Closed(a, d) /\ Closed(b, e)
  BY <1>2, LineIs
<1> HIDE DEF a, b
<1>5. Ending \in Seq(Bytes) /\ Glued(Ending, a, b)
  BY <1>3, <1>4, ConcatIs
<1>6. Len(a) = 3 /\ a[1] = d[1] /\ a[2] = CR /\ a[3] = LF /\ Len(b) = 2
  BY <1>2, <1>4 DEF Closed
<1>7. Len(Ending) = 5 /\ Ending[1] = a[1] /\ Ending[2] = a[2] /\ Ending[3] = a[3]
  BY <1>5, <1>6 DEF Glued
<1> QED BY <1>1, <1>2, <1>5, <1>6, <1>7

\* The encoding is the framed chunks, then the ending.
LEMMA EncodeIs ==
  ASSUME NEW cs \in ChunkLists
  PROVE  Encode(cs) \in Seq(Bytes) /\ Glued(Encode(cs), Framed(cs), Ending)
<1> DEFINE f == Framed(cs)  a == Line(<<DigitOf(0)>>)  b == Line(<< >>)
<1>1. f \in Seq(Bytes)
  <2>1. Len(cs) \in 0..Len(cs)
    BY BytesAssumption
  <2> QED BY <2>1, FramedSteps, ChunksSteps
<1>2. a \in Seq(Bytes) /\ b \in Seq(Bytes)
  <2>1. <<DigitOf(0)>> \in Seq(Bytes)
    BY ChunksAssumption, BytesAssumption
  <2>2. << >> \in Seq(Bytes)
    OBVIOUS
  <2> QED BY <2>1, <2>2, LineIs
<1>3. Encode(cs) = (f \o a) \o b /\ Ending = a \o b
  BY DEF Encode, Ending
<1> HIDE DEF f, a, b
<1>4. (f \o a) \o b = f \o (a \o b)
  BY <1>1, <1>2, ConcatAssociative
<1>5. Ending \in Seq(Bytes) /\ Encode(cs) = f \o Ending
  BY <1>2, <1>3, <1>4, ConcatIs
<1>6. Encode(cs) \in Seq(Bytes) /\ Glued(Encode(cs), f, Ending)
  BY <1>1, <1>5, ConcatIs
<1> QED BY <1>6 DEF f

-----------------------------------------------------------------------------
(* The size line.                                                           *)

\* str::trim gives a part of the line.
LEMMA TrimmedIs ==
  ASSUME NEW s \in Seq(Bytes)
  PROVE  Trimmed(s) \in Seq(Bytes)
<1> DEFINE kept == {i \in DOMAIN s : s[i] \notin {CR, LF}}
<1>1. CASE kept = {}
  BY <1>1 DEF Trimmed
<1>2. CASE kept # {}
  <2>1. kept \subseteq 1..Len(s) /\ kept \subseteq Nat /\ Len(s) \in Nat
    OBVIOUS
  <2>2. Trimmed(s) = SubSeq(s, Min(kept), Max(kept))
    BY <1>2 DEF Trimmed
  <2> HIDE DEF kept
  <2>3. Min(kept) \in kept
    BY <1>2, <2>1, LeastElement DEF Min
  <2>4. Max(kept) \in kept
    <3>1. \A x \in kept : x <= Len(s)
      BY <2>1
    <3>2. PICK x \in kept : \A y \in kept : y <= x
      BY <1>2, <2>1, <3>1, GreatestElement
    <3>3. \A y \in kept : x >= y
      BY <2>1, <3>2
    <3> QED BY <3>2, <3>3 DEF Max
  <2>5. Min(kept) \in 1..Len(s) /\ Max(kept) \in 1..Len(s)
    BY <2>1, <2>3, <2>4
  <2> QED BY <2>2, <2>5
<1> QED BY <1>1, <1>2

\* Skipping the sign leaves a sequence of bytes.
LEMMA UnsignedIs ==
  ASSUME NEW s \in Seq(Bytes)
  PROVE  Unsigned(s) \in Seq(Bytes)
BY DEF Unsigned

\* The recursion in SizeOf.
Reads(f, s) ==
  f = [i \in 0..Len(s) |-> IF i = 0 THEN 0 ELSE 16 * f[i - 1] + HexValue(s[i])]

\* from_str_radix reads digit after digit.
LEMMA ReadsIs ==
  ASSUME NEW s \in Seq(HexDigits), NEW h, h = CHOOSE f : Reads(f, s)
  PROVE  /\ h[0] = 0 /\ \A i \in 1..Len(s) : h[i] = 16 * h[i - 1] + HexValue(s[i])
         /\ \A i \in 0..Len(s) : h[i] \in Nat
<1> DEFINE n == Len(s)
           step == [p \in Nat \X (1..n) |-> 16 * p[1] + HexValue(s[p[2]])]
<1>1. n \in Nat /\ \A i \in 1..n : HexValue(s[i]) \in Nat
  BY BytesAssumption
<1>2. step \in [Nat \X (1..n) -> Nat]
  <2>1. ASSUME NEW p \in Nat \X (1..n) PROVE 16 * p[1] + HexValue(s[p[2]]) \in Nat
    <3>1. p[1] \in Nat /\ p[2] \in 1..n /\ HexValue(s[p[2]]) \in Nat
      BY <1>1
    <3> QED BY <3>1
  <2> QED BY <2>1
<1>3. PICK f \in [0..n -> Nat] : Follows(f, 0, step, n)
  <2> HIDE DEF n, step
  <2> QED BY <1>1, <1>2, RecursionExists
<1>4. Reads(f, s)
  <2> DEFINE r == [i \in 0..n |-> IF i = 0 THEN 0 ELSE 16 * f[i - 1] + HexValue(s[i])]
  <2>1. ASSUME NEW i \in 0..n PROVE f[i] = r[i]
    <3>1. CASE i = 0
      BY <1>3, <3>1 DEF Follows
    <3>2. CASE i # 0
      <4>1. i \in 1..n /\ i - 1 \in 0..n
        BY <1>1, <3>2
      <4>2. f[i] = step[<<f[i - 1], i>>]
        BY <1>3, <4>1 DEF Follows
      <4>3. <<f[i - 1], i>> \in Nat \X (1..n)
        BY <4>1
      <4>4. step[<<f[i - 1], i>>] = 16 * f[i - 1] + HexValue(s[i])
        BY <4>3
      <4>5. r[i] = 16 * f[i - 1] + HexValue(s[i])
        BY <3>2
      <4> QED BY <4>2, <4>4, <4>5
    <3> QED BY <3>1, <3>2
  <2>2. f = r
    BY <2>1
  <2> QED BY <2>2 DEF Reads
<1>5. Reads(h, s)
  BY <1>4
<1>6. \A i \in 0..n : h[i] = IF i = 0 THEN 0 ELSE 16 * h[i - 1] + HexValue(s[i])
  <2> DEFINE r == [i \in 0..n |-> IF i = 0 THEN 0 ELSE 16 * h[i - 1] + HexValue(s[i])]
  <2>1. h = r
    BY <1>5 DEF Reads
  <2>2. \A i \in 0..n : r[i] = IF i = 0 THEN 0 ELSE 16 * h[i - 1] + HexValue(s[i])
    OBVIOUS
  <2> QED BY <2>1, <2>2
<1>7. h[0] = 0 /\ \A i \in 1..n : h[i] = 16 * h[i - 1] + HexValue(s[i])
  BY <1>1, <1>6
<1> DEFINE S == {m \in Nat : m <= n => h[m] \in Nat}
<1>8. 0 \in S
  BY <1>7
<1>9. ASSUME NEW m \in Nat, m \in S PROVE m + 1 \in S
  <2> SUFFICES ASSUME m + 1 <= n PROVE h[m + 1] \in Nat
    OBVIOUS
  <2>1. m + 1 \in 1..n /\ (m + 1) - 1 = m /\ h[m] \in Nat
    BY <1>1, <1>9
  <2>2. h[m + 1] = 16 * h[m] + HexValue(s[m + 1]) /\ HexValue(s[m + 1]) \in Nat
    BY <1>1, <1>7, <2>1
  <2> QED BY <2>1, <2>2
<1>10. \A m \in Nat : m \in S
  <2> HIDE DEF S
  <2> QED BY <1>8, <1>9, SetInduction
<1> QED BY <1>1, <1>7, <1>10

\* A size line stands for a number.
LEMMA SizeIsNat ==
  ASSUME NEW line \in Seq(Bytes), IsSize(line)
  PROVE  SizeOf(line) \in Nat /\ SizeOf(line) < UsizeLimit
<1> DEFINE s == Unsigned(Trimmed(line))
           h == CHOOSE f : Reads(f, s)
<1>1. s \in Seq(Bytes) /\ \A i \in DOMAIN s : s[i] \in HexDigits
  BY TrimmedIs, UnsignedIs DEF IsSize
<1>2. SizeOf(line) = h[Len(s)]
  BY DEF SizeOf, Reads
<1> HIDE DEF s
<1>3. s \in Seq(HexDigits) /\ Len(s) \in Nat
  BY <1>1
<1>4. h[Len(s)] \in Nat
  <2> HIDE DEF h
  <2>1. \A i \in 0..Len(s) : h[i] \in Nat
    BY <1>3, ReadsIs DEF h
  <2> QED BY <1>3, <2>1
<1> QED BY <1>2, <1>4 DEF IsSize

\* The size line of a chunk, a single digit, is read as that digit.
LEMMA OneDigit ==
  ASSUME NEW d \in HexDigits, HexValue(d) < UsizeLimit
  PROVE  IsSize(<<d>>) /\ SizeOf(<<d>>) = HexValue(d)
<1> DEFINE line == <<d>>
           kept == {i \in DOMAIN line : line[i] \notin {CR, LF}}
<1>1. line \in Seq(Bytes) /\ line \in Seq(HexDigits) /\ Len(line) = 1 /\ line[1] = d
      /\ DOMAIN line = {1} /\ line # << >>
  BY BytesAssumption
<1>2. d \notin {CR, LF, Plus}
  BY BytesAssumption
<1>3. kept = {1}
  <2> HIDE DEF line
  <2> QED BY <1>1, <1>2
<1>4. Min(kept) = 1 /\ Max(kept) = 1
  <2> HIDE DEF kept
  <2> QED BY <1>3 DEF Min, Max
<1>5. Trimmed(line) = SubSeq(line, 1, 1)
  <2>1. Trimmed(line) = IF kept = {} THEN << >> ELSE SubSeq(line, Min(kept), Max(kept))
    BY DEF Trimmed
  <2> HIDE DEF kept, line
  <2> QED BY <1>3, <1>4, <2>1
<1> HIDE DEF line
<1>6. SubSeq(line, 1, 1) = line
  BY <1>1
<1>7. Unsigned(Trimmed(line)) = line
  BY <1>1, <1>2, <1>5, <1>6 DEF Unsigned
<1> DEFINE h == CHOOSE f : Reads(f, line)
<1>8. SizeOf(line) = h[Len(line)]
  BY <1>7 DEF SizeOf, Reads
<1>9. h[1] = HexValue(d)
  <2> HIDE DEF h
  <2>1. h[0] = 0 /\ \A i \in 1..Len(line) : h[i] = 16 * h[i - 1] + HexValue(line[i])
    BY <1>1, ReadsIs DEF h
  <2>2. HexValue(d) \in Nat
    BY BytesAssumption
  <2>3. h[1] = 16 * h[1 - 1] + HexValue(line[1])
    BY <1>1, <2>1
  <2> QED BY <1>1, <2>1, <2>2, <2>3
<1>10. SizeOf(line) = HexValue(d)
  BY <1>1, <1>8, <1>9
<1>11. IsSize(line)
  BY <1>1, <1>7, <1>10 DEF IsSize
<1> QED BY <1>10, <1>11 DEF line

-----------------------------------------------------------------------------
(* The decoder on any input.                                                *)

\* The decoder is given bytes.
LEMMA InputsAreBytes == \A d \in Inputs : d \in Seq(Bytes)
<1> SUFFICES ASSUME NEW d \in Inputs PROVE d \in Seq(Bytes)
  OBVIOUS
<1>1. CASE d \in ArbitraryInputs
  BY <1>1, BytesAssumption
<1>2. ASSUME NEW cs \in ChunkLists, NEW n \in 0..Len(Encode(cs)), d = SubSeq(Encode(cs), 1, n)
      PROVE  d \in Seq(Bytes)
  BY <1>2, EncodeIs, PrefixIs
<1> QED BY <1>1, <1>2 DEF Inputs

\* The line end that is found lies in the data, behind pos.
LEMMA LineEndIs ==
  ASSUME data \in Seq(Bytes), pos \in Nat, LineEnds # {}
  PROVE  /\ LineEnd \in Nat /\ pos <= LineEnd /\ LineEnd + 2 <= Len(data)
         /\ LineEnd \in LineEnds /\ \A p \in LineEnds : LineEnd <= p
<1>1. LineEnds \subseteq Nat
  BY DEF LineEnds
<1>2. LineEnd \in LineEnds /\ \A p \in LineEnds : LineEnd <= p
  BY <1>1, LeastElement DEF LineEnd, Min
<1> QED BY <1>1, <1>2 DEF LineEnds, LineEndsAt

\* The size of a chunk is a usize.
LEMMA SizeIs ==
  ASSUME data \in Seq(Bytes), pos \in Nat, HasSize
  PROVE  Size \in Nat /\ Size < UsizeLimit
<1>1. LineEnd \in Nat /\ pos <= LineEnd /\ LineEnd <= Len(data)
  BY LineEndIs DEF HasSize
<1>2. Slice(pos, LineEnd) \in Seq(Bytes)
  BY <1>1 DEF Slice
<1> QED BY <1>2, SizeIsNat DEF HasSize, Size

\* The shape of the state.
LEMMA InitType == Init => TypeOK
<1> SUFFICES ASSUME Init PROVE TypeOK
  OBVIOUS
<1>1. data \in Seq(Bytes)
  BY InputsAreBytes DEF Init
<1>2. Len(data) \in Nat /\ << >> \in Seq(Bytes) /\ Len(<< >>) = 0
  BY <1>1
<1> QED BY <1>2 DEF Init, TypeOK

\* Every pass of the loop keeps the shape of the state, whatever the input is.
LEMMA NextType == TypeOK /\ [Next]_vars => TypeOK'
<1> SUFFICES ASSUME TypeOK, [Next]_vars PROVE TypeOK'
  OBVIOUS
<1>1. data \in Seq(Bytes) /\ pos \in Nat /\ Len(data) \in Nat /\ Len(body) \in Nat
  BY InputsAreBytes DEF TypeOK
<1>2. CASE SliceOutOfRange
  BY <1>2 DEF SliceOutOfRange, Stop, TypeOK
<1>3. CASE NoSizeLine
  BY <1>3 DEF NoSizeLine, Stop, Incomplete, TypeOK
<1>4. CASE LastChunk
  <2>1. LineEnd \in Nat /\ pos <= LineEnd /\ LineEnd + 2 <= Len(data)
    BY <1>1, <1>4, LineEndIs DEF LastChunk, HasSize
  <2> QED BY <1>1, <1>4, <2>1 DEF LastChunk, TypeOK
<1>5. CASE ShortOfData
  BY <1>5 DEF ShortOfData, Stop, TypeOK
<1>6. CASE TakeChunk
  <2> DEFINE from == LineEnd + 2  to == LineEnd + 2 + Size  part == Slice(from, to)
  <2>1. /\ LineEnd \in Nat /\ pos <= LineEnd /\ LineEnd + 2 <= Len(data) /\ Size \in Nat
        /\ to <= Len(data)
    BY <1>1, <1>6, LineEndIs, SizeIs DEF TakeChunk, HasSize, TooShort
  <2>2. from \in Nat /\ to \in Nat /\ from <= to /\ to = from + Size
    BY <2>1
  <2>3. part \in Seq(Bytes) /\ Len(part) = Size
    <3> HIDE DEF from, to
    <3> QED BY <1>1, <2>1, <2>2 DEF Slice
  <2>4. body' = body \o part /\ pos' = to + 2 /\ UNCHANGED <<data, result>>
    BY <1>6 DEF TakeChunk, AfterChunk
  <2> HIDE DEF part
  <2>5. body' \in Seq(Bytes) /\ Len(body') = Len(body) + Size
    BY <2>3, <2>4, ConcatIs DEF TypeOK, Glued
  <2> QED BY <1>1, <2>1, <2>2, <2>4, <2>5 DEF TypeOK
<1>7. CASE UNCHANGED vars
  BY <1>7 DEF vars, TypeOK
<1> QED BY <1>2, <1>3, <1>4, <1>5, <1>6, <1>7 DEF Next

\* decode_chunked keeps its position at most two bytes behind the data it is given,
\* and never takes more bytes than it has passed, whatever the input.
THEOREM TypeCorrect == Spec => []TypeOK
  BY InitType, NextType, PTL DEF Spec

-----------------------------------------------------------------------------
(* The decoder on a part of a well-formed body.                             *)

\* The size that is announced after k chunks.
NextSize(cs, k) == IF k < Len(cs) THEN Len(cs[k + 1]) ELSE 0

\* Only the last chunk announces no data.
LEMMA NextSizeIs ==
  ASSUME NEW cs \in ChunkLists, NEW k \in 0..Len(cs)
  PROVE  /\ NextSize(cs, k) \in Nat /\ (NextSize(cs, k) = 0 <=> k = Len(cs))
         /\ DigitOf(NextSize(cs, k)) \in HexDigits
         /\ HexValue(DigitOf(NextSize(cs, k))) = NextSize(cs, k)
         /\ k < Len(cs) => k + 1 \in 1..Len(cs) /\ NextSize(cs, k) = Len(cs[k + 1])
<1>1. k \in Nat /\ Len(cs) \in Nat
  BY BytesAssumption
<1>2. CASE k < Len(cs)
  <2>1. k + 1 \in 1..Len(cs)
    BY <1>1, <1>2
  <2> QED BY <1>1, <1>2, <2>1, ChunkIs DEF NextSize
<1>3. CASE k = Len(cs)
  BY <1>1, <1>3, EndingIs DEF NextSize
<1> QED BY <1>1, <1>2, <1>3

\* What the encoding has after k chunks: a size line, and the chunk it announces.
SizeLineAt(cs, k) ==
  LET b == Before(cs, k)  e == Encode(cs) IN
  e[b + 1] = DigitOf(NextSize(cs, k)) /\ e[b + 2] = CR /\ e[b + 3] = LF
ChunkAt(cs, k) ==
  \A j \in 1..Len(cs[k + 1]) : Encode(cs)[Before(cs, k) + 3 + j] = cs[k + 1][j]

\* Where the k-th chunk ends, the size line of the next one begins, and its data follows.
LEMMA EncodingAt ==
  ASSUME NEW cs \in ChunkLists, NEW k \in 0..Len(cs)
  PROVE  SizeLineAt(cs, k) /\ (k < Len(cs) => ChunkAt(cs, k))
<1> DEFINE n == Len(cs)  e == Encode(cs)  f == Framed(cs)
<1>1. n \in Nat /\ k \in Nat /\ First(cs, n) = cs /\ n \in 0..n
  <2>1. n \in Nat
    BY BytesAssumption
  <2>2. First(cs, n) = cs
    BY ChunksSteps
  <2> QED BY <2>1, <2>2
<1>2. Glued(e, f, Ending) /\ Len(f) = Before(cs, n)
  BY <1>1, EncodeIs DEF Before
<1>3. Before(cs, k) \in Nat /\ Before(cs, n) \in Nat
  BY <1>1, BeforeIs
<1>4. CASE k = n
  <2>1. \A i \in 1..5 : e[Before(cs, n) + i] = Ending[i]
    BY <1>2, EndingIs DEF Glued
  <2>2. NextSize(cs, k) = 0
    BY <1>1, <1>4 DEF NextSize
  <2> HIDE DEF e, n
  <2>3. e[Before(cs, k) + 1] = DigitOf(0) /\ e[Before(cs, k) + 2] = CR
        /\ e[Before(cs, k) + 3] = LF
    BY <1>4, <2>1, EndingIs
  <2> QED BY <1>1, <1>4, <2>2, <2>3 DEF SizeLineAt, e, n
<1>5. CASE k < n
  <2> DEFINE m == k + 1  g == Framed(First(cs, m))  b == Before(cs, k)  c == Before(cs, m)
             piece == Piece(cs, m)  size == Len(cs[m])
  <2>1. m \in 1..n /\ m \in 0..n /\ n \in m..n /\ m - 1 = k
    BY <1>1, <1>5
  <2>2. c = b + size + 5 /\ size \in Nat /\ b \in Nat
    BY <1>3, <2>1, BeforeIs, ChunkIs
  <2>3. c <= Before(cs, n) /\ \A i \in 1..c : f[i] = g[i]
    <3>1. /\ c + n - m <= Before(cs, n)
          /\ \A i \in 1..c : Framed(First(cs, n))[i] = g[i]
      BY <2>1, FramedStays
    <3> QED BY <1>1, <1>3, <2>1, <2>2, <3>1
  <2>4. \A i \in 1..Before(cs, n) : e[i] = f[i]
    BY <1>2 DEF Glued
  <2>5. \A i \in 1..Len(piece) : g[b + i] = piece[i]
    <3>1. Glued(g, Framed(First(cs, k)), piece)
      BY <2>1, FramedGrows
    <3> QED BY <3>1 DEF Glued, Before
  <2>6. /\ Len(piece) = size + 5 /\ piece[1] = DigitOf(size) /\ piece[2] = CR /\ piece[3] = LF
        /\ \A j \in 1..size : piece[3 + j] = cs[m][j]
    BY <2>1, PieceIs
  <2>7. NextSize(cs, k) = size
    BY <1>5 DEF NextSize
  <2> HIDE DEF e, f, g, b, c, piece, size
  <2>8. ASSUME NEW i \in 1..(size + 5) PROVE e[b + i] = piece[i]
    <3>1. b + i \in 1..c /\ b + i \in 1..Before(cs, n)
      BY <1>3, <2>2, <2>3
    <3> QED BY <2>3, <2>4, <2>5, <2>6, <3>1
  <2>9. e[b + 1] = DigitOf(size) /\ e[b + 2] = CR /\ e[b + 3] = LF
    <3>1. 1 \in 1..(size + 5) /\ 2 \in 1..(size + 5) /\ 3 \in 1..(size + 5)
      BY <2>2
    <3> QED BY <2>6, <2>8, <3>1
  <2>10. ASSUME NEW j \in 1..size PROVE e[b + 3 + j] = cs[m][j]
    <3>1. 3 + j \in 1..(size + 5) /\ b + (3 + j) = b + 3 + j
      BY <2>2
    <3>2. e[b + (3 + j)] = piece[3 + j]
      BY <2>8, <3>1
    <3> QED BY <2>6, <3>1, <3>2
  <2> QED BY <2>7, <2>9, <2>10 DEF SizeLineAt, ChunkAt, e, b, size
<1> QED BY <1>1, <1>4, <1>5

\* The last chunk takes five bytes.
LEMMA EncodeLength ==
  ASSUME NEW cs \in ChunkLists
  PROVE  Len(Encode(cs)) = Before(cs, Len(cs)) + 5
<1>1. Len(Framed(cs)) = Before(cs, Len(cs))
  BY ChunksSteps DEF Before
<1> QED BY <1>1, EncodeIs, EndingIs DEF Glued

\* The offsets of the chunks grow with their number.
LEMMA BeforeGrows ==
  ASSUME NEW cs \in ChunkLists, NEW k \in 0..Len(cs), NEW j \in k..Len(cs)
  PROVE  Before(cs, k) + j - k <= Before(cs, j)
  BY FramedStays

\* data is the encoding as far as it goes.
LEMMA DataIs ==
  ASSUME TypeOK, NEW cs \in ChunkLists, Arrived(cs)
  PROVE  /\ data \in Seq(Bytes) /\ Len(data) \in Nat /\ Len(data) <= Len(Encode(cs))
         /\ \A i \in 1..Len(data) : data[i] = Encode(cs)[i]
<1>1. data \in Seq(Bytes)
  BY InputsAreBytes DEF TypeOK
<1>2. Encode(cs) \in Seq(Bytes)
  BY EncodeIs
<1>3. Len(data) \in 0..Len(Encode(cs)) /\ data = SubSeq(Encode(cs), 1, Len(data))
  BY <1>1, <1>2 DEF Arrived
<1>4. Starts(data, Encode(cs), Len(data))
  BY <1>2, <1>3, PrefixIs
<1> QED BY <1>1, <1>3, <1>4 DEF Starts

\* Before a size line the decoder finds it if it has arrived whole, and nothing if not.
LEMMA FindsSizeLine ==
  ASSUME TypeOK, NEW cs \in ChunkLists, Arrived(cs), NEW k \in 0..Len(cs),
         pos = Before(cs, k), pos <= Len(data)
  PROVE  /\ Len(data) < pos + 3 => LineEnds = {}
         /\ Len(data) >= pos + 3 =>
              LineEnds # {} /\ LineEnd = pos + 1
              /\ Slice(pos, LineEnd) = <<DigitOf(NextSize(cs, k))>>
<1> DEFINE d == DigitOf(NextSize(cs, k))
<1>1. /\ data \in Seq(Bytes) /\ Len(data) \in Nat
      /\ \A i \in 1..Len(data) : data[i] = Encode(cs)[i]
  BY DataIs
<1>2. pos \in Nat
  BY BeforeIs
<1>3. Encode(cs)[pos + 1] = d /\ Encode(cs)[pos + 2] = CR /\ Encode(cs)[pos + 3] = LF
  BY EncodingAt DEF SizeLineAt
<1>4. d # CR
  BY NextSizeIs, BytesAssumption
<1> HIDE DEF d
<1>5. Len(data) >= pos + 1 => data[pos + 1] = d
  BY <1>1, <1>2, <1>3
<1>6. ~ LineEndsAt(pos)
  BY <1>1, <1>2, <1>4, <1>5 DEF LineEndsAt
<1>7. ASSUME Len(data) < pos + 3 PROVE LineEnds = {}
  <2> SUFFICES ASSUME NEW p \in LineEnds PROVE FALSE
    OBVIOUS
  <2>1. p \in pos..Len(data) /\ LineEndsAt(p) /\ p + 2 <= Len(data)
    BY DEF LineEnds, LineEndsAt
  <2>2. p = pos
    BY <1>1, <1>2, <1>7, <2>1
  <2> QED BY <1>6, <2>1, <2>2
<1>8. ASSUME Len(data) >= pos + 3
      PROVE  LineEnds # {} /\ LineEnd = pos + 1 /\ Slice(pos, LineEnd) = <<d>>
  <2>0. pos + 1 \in 1..Len(data) /\ pos + 2 \in 1..Len(data) /\ pos + 3 \in 1..Len(data)
    BY <1>1, <1>2, <1>8
  <2>1. data[pos + 2] = CR /\ data[pos + 3] = LF /\ data[pos + 1] = d
    BY <1>1, <1>3, <2>0
  <2>2. pos + 1 \in LineEnds
    BY <1>1, <1>2, <1>8, <2>1 DEF LineEnds, LineEndsAt
  <2>3. LineEnd \in LineEnds /\ LineEnd <= pos + 1 /\ pos <= LineEnd /\ LineEnd \in Nat
    BY <1>1, <1>2, <2>2, LineEndIs
  <2>4. LineEnd # pos
    BY <1>6, <2>3 DEF LineEnds
  <2>5. LineEnd = pos + 1
    BY <1>2, <2>3, <2>4
  <2>6. Slice(pos, LineEnd) = SubSeq(data, pos + 1, pos + 1)
    BY <2>5 DEF Slice
  <2>7. SubSeq(data, pos + 1, pos + 1) = <<data[pos + 1]>>
    BY <1>1, <2>0, OneElement
  <2> QED BY <2>1, <2>2, <2>5, <2>6, <2>7
<1> QED BY <1>7, <1>8 DEF d

-----------------------------------------------------------------------------
(* The invariant.                                                           *)

\* The decoder starts before the first size line, with nothing decoded.
LEMMA InitProgress == Init => Progress
<1> SUFFICES ASSUME Init, NEW cs \in ChunkLists
             PROVE  \E k \in 0..Len(cs) : InChunk(cs, k)
  BY DEF Progress
<1>1. 0 \in 0..Len(cs)
  BY BytesAssumption
<1>2. Before(cs, 0) = 0 /\ Flat(First(cs, 0)) = << >>
  BY BeforeIs, ChunksSteps
<1>3. InChunk(cs, 0)
  BY <1>2 DEF Init, InChunk
<1> QED BY <1>1, <1>3

\* A step of the loop on a part of the encoding of cs, with k chunks decoded.
LEMMA StepProgress ==
  ASSUME TypeOK, Next, NEW cs \in ChunkLists, Arrived(cs), NEW k \in 0..Len(cs), InChunk(cs, k)
  PROVE  \E j \in 0..Len(cs) : InChunk(cs, j)'
<1> DEFINE n == Len(cs)  b == Before(cs, k)  size == NextSize(cs, k)
<1>1. result = "running" /\ pos = b /\ body = Flat(First(cs, k))
  BY DEF Next, SliceOutOfRange, NoSizeLine, LastChunk, ShortOfData, TakeChunk, HasSize, InChunk
<1>2. /\ data \in Seq(Bytes) /\ Len(data) \in Nat /\ pos <= Len(data) + 2 /\ pos \in Nat
      /\ n \in Nat /\ b \in Nat /\ size \in Nat /\ (size = 0 <=> k = n)
  BY BytesAssumption, DataIs, BeforeIs, NextSizeIs DEF TypeOK
<1>3. k < n => k + 1 \in 1..n /\ Before(cs, k + 1) = b + size + 5
               /\ Before(cs, k + 1) < UsizeLimit
  <2> SUFFICES ASSUME k < n PROVE k + 1 \in 1..n /\ Before(cs, k + 1) = b + size + 5
                                  /\ Before(cs, k + 1) < UsizeLimit
    OBVIOUS
  <2>1. k + 1 \in 1..n /\ (k + 1) - 1 = k /\ size = Len(cs[k + 1])
    BY NextSizeIs
  <2>2. Before(cs, k + 1) = b + size + 5
    BY <2>1, BeforeIs
  <2>3. Before(cs, k + 1) + n - (k + 1) <= Before(cs, n) /\ Before(cs, n) < UsizeLimit
    <3>1. k + 1 \in 0..n /\ n \in (k + 1)..n
      BY <2>1
    <3> QED BY <3>1, BeforeGrows, BeforeIs
  <2>4. Before(cs, n) \in Nat /\ UsizeLimit \in Nat
    BY <1>2, BeforeIs, BytesAssumption
  <2> HIDE DEF n, b, size
  <2>5. k \in Nat /\ Before(cs, k + 1) \in Nat
    BY <1>2, <2>2
  <2>6. Before(cs, k + 1) < UsizeLimit
    BY <1>2, <2>1, <2>3, <2>4, <2>5
  <2> QED BY <2>1, <2>2, <2>6
<1>4. ASSUME pos <= Len(data), Len(data) >= b + 3
      PROVE  HasSize /\ LineEnd = b + 1 /\ Size = size
  <2>1. LineEnds # {} /\ LineEnd = b + 1 /\ Slice(pos, LineEnd) = <<DigitOf(size)>>
    BY <1>1, <1>4, FindsSizeLine
  <2>2. DigitOf(size) \in HexDigits /\ HexValue(DigitOf(size)) = size
    BY NextSizeIs
  <2>3. size < UsizeLimit
    BY <1>2, <1>3, BytesAssumption
  <2>4. IsSize(<<DigitOf(size)>>) /\ SizeOf(<<DigitOf(size)>>) = size
    BY <2>2, <2>3, OneDigit
  <2> QED BY <1>1, <1>4, <2>1, <2>4 DEF HasSize, Size
<1>5. ASSUME pos <= Len(data), Len(data) < b + 3 PROVE LineEnds = {}
  BY <1>1, <1>5, FindsSizeLine
<1> HIDE DEF b, size, n
<1>6. CASE SliceOutOfRange
  <2>1. k # 0
    BY <1>1, <1>2, <1>6, BeforeIs DEF SliceOutOfRange, b
  <2>2. k > 0 /\ b - Len(data) \in {1, 2}
    BY <1>1, <1>2, <1>6, <2>1 DEF SliceOutOfRange
  <2>3. data' = data /\ result' = "panic"
    BY <1>6 DEF SliceOutOfRange, Stop
  <2>4. InChunk(cs, k)'
    BY <2>2, <2>3 DEF InChunk, b
  <2> QED BY <2>4
<1>7. CASE NoSizeLine
  <2>1. b <= Len(data) /\ Len(data) < b + 3
    <3>1. pos <= Len(data) /\ ~HasSize
      BY <1>7 DEF NoSizeLine, HasSize
    <3> QED BY <1>1, <1>2, <1>4, <3>1
  <2>2. data' = data /\ result' = "none"
    BY <1>7 DEF NoSizeLine, Stop, Incomplete
  <2>3. InChunk(cs, k)'
    BY <2>1, <2>2 DEF InChunk, b
  <2> QED BY <2>3
<1>8. ASSUME HasSize PROVE pos <= Len(data) /\ Len(data) >= b + 3 /\ LineEnd = b + 1 /\ Size = size
  BY <1>2, <1>4, <1>5, <1>8 DEF HasSize
<1>9. CASE LastChunk
  <2>1. size = 0 /\ Len(data) >= b + 3
    BY <1>8, <1>9 DEF LastChunk
  <2>2. k = n /\ body = Flat(cs)
    BY <1>1, <1>2, <2>1, ChunksSteps DEF n
  <2>3. data' = data /\ body' = body /\ result' = "some"
    BY <1>9 DEF LastChunk
  <2>4. InChunk(cs, k)'
    BY <2>1, <2>2, <2>3 DEF InChunk, b, n
  <2> QED BY <2>4
<1>10. CASE ShortOfData
  <2>1. size # 0 /\ b + 3 + size > Len(data) /\ Len(data) >= b + 3 /\ LineEnd + 2 + Size = b + 3 + size
    BY <1>2, <1>8, <1>10 DEF ShortOfData, TooShort
  <2>2. k < n
    BY <1>2, <2>1 DEF n
  <2>3. Before(cs, k + 1) = b + size + 5 /\ b + 3 + size < UsizeLimit
    BY <1>2, <1>3, <2>2, BytesAssumption
  <2>4. data' = data /\ result' = "none"
    BY <1>10, <2>1, <2>3 DEF ShortOfData, Stop
  <2>5. b <= Len(data) /\ Len(data) < Before(cs, k + 1) - 2
    BY <1>2, <2>1, <2>3
  <2>6. InChunk(cs, k)'
    BY <2>2, <2>4, <2>5 DEF InChunk, b, n
  <2> QED BY <2>6
<1>11. CASE TakeChunk
  <2>1. /\ size # 0 /\ b + 3 + size <= Len(data) /\ LineEnd + 2 = b + 3
        /\ LineEnd + 2 + Size = b + 3 + size
    BY <1>2, <1>8, <1>11 DEF TakeChunk, TooShort
  <2>2. k < n /\ k + 1 \in 1..n /\ k + 1 \in 0..n /\ (k + 1) - 1 = k
    BY <1>2, <1>3, <2>1 DEF n
  <2>3. pos' = Before(cs, k + 1) /\ body' = body \o Slice(b + 3, b + 3 + size)
        /\ data' = data /\ result' = result
    <3>1. /\ pos' = (LineEnd + 2 + Size) + 2 /\ data' = data /\ result' = result
          /\ body' = body \o Slice(LineEnd + 2, LineEnd + 2 + Size)
      BY <1>11 DEF TakeChunk, AfterChunk
    <3>2. Before(cs, k + 1) = b + size + 5
      BY <1>3, <2>2
    <3>3. (b + 3 + size) + 2 = b + size + 5
      BY <1>2
    <3> QED BY <2>1, <3>1, <3>2, <3>3
  <2>4. Slice(b + 3, b + 3 + size) = cs[k + 1]
    <3> DEFINE p == Slice(b + 3, b + 3 + size)  q == cs[k + 1]
    <3>1. p \in Seq(Bytes) /\ Len(p) = size /\ \A j \in 1..size : p[j] = data[b + 3 + j]
      BY <1>2, <2>1 DEF Slice
    <3>2. q \in Seq(Bytes) /\ Len(q) = size
      BY <2>2, ChunkIs, NextSizeIs DEF n, size
    <3>3. ASSUME NEW j \in 1..size PROVE data[b + 3 + j] = q[j]
      <4>1. b + 3 + j \in 1..Len(data)
        BY <1>2, <2>1
      <4>2. data[b + 3 + j] = Encode(cs)[b + 3 + j]
        BY <4>1, DataIs
      <4>3. Encode(cs)[b + 3 + j] = q[j]
        BY <2>2, <3>2, EncodingAt DEF ChunkAt, b, n
      <4> QED BY <4>2, <4>3
    <3> HIDE DEF p, q
    <3>4. p = q
      BY <3>1, <3>2, <3>3, SeqEqual
    <3> QED BY <3>4 DEF p, q
  <2>5. body' = Flat(First(cs, k + 1))
    <3>1. Flat(First(cs, k + 1)) = Flat(First(cs, k)) \o cs[k + 1]
      BY <2>2, ChunksSteps DEF n
    <3> QED BY <1>1, <2>3, <2>4, <3>1
  <2>6. InChunk(cs, k + 1)'
    BY <1>1, <2>3, <2>5 DEF InChunk
  <2> QED BY <2>2, <2>6 DEF n
<1> QED BY <1>6, <1>7, <1>9, <1>10, <1>11 DEF Next

\* Every pass of the loop takes one chunk or stops for one of the reasons of InChunk.
LEMMA NextProgress == TypeOK /\ Progress /\ [Next]_vars => Progress'
<1> SUFFICES ASSUME TypeOK, Progress, [Next]_vars, NEW cs \in ChunkLists, Arrived(cs)'
             PROVE  \E k \in 0..Len(cs) : InChunk(cs, k)'
  BY DEF Progress
<1>1. data' = data
  BY DEF Next, SliceOutOfRange, NoSizeLine, LastChunk, ShortOfData, TakeChunk, Stop, vars
<1>2. Arrived(cs)
  BY <1>1 DEF Arrived
<1>3. PICK k \in 0..Len(cs) : InChunk(cs, k)
  BY <1>2 DEF Progress
<1>4. CASE Next
  BY <1>2, <1>3, <1>4, StepProgress
<1>5. CASE UNCHANGED vars
  BY <1>3, <1>5 DEF vars, InChunk
<1> QED BY <1>4, <1>5

\* Between two passes of its loop the decoder is between two chunks.
THEOREM Invariance == Spec => []IndInv
<1>1. Init => IndInv
  BY InitType, InitProgress DEF IndInv
<1>2. IndInv /\ [Next]_vars => IndInv'
  BY NextType, NextProgress DEF IndInv
<1> QED BY <1>1, <1>2, PTL DEF Spec

-----------------------------------------------------------------------------
(* What the decoder computes.                                               *)

\* The whole encoding of any list of chunks is decoded to the chunks, joined.
THEOREM BodiesAreDecoded == Spec => []DecodesEncoding
<1>1. IndInv => DecodesEncoding
  <2> SUFFICES ASSUME IndInv, NEW cs \in ChunkLists, data = Encode(cs), result # "running"
               PROVE  result = "some" /\ body = Flat(cs)
    BY DEF DecodesEncoding
  <2>1. Encode(cs) \in Seq(Bytes)
    BY EncodeIs
  <2>2. Arrived(cs)
    BY <2>1 DEF Arrived
  <2>3. PICK k \in 0..Len(cs) : InChunk(cs, k)
    BY <2>2 DEF IndInv, Progress
  <2>4. /\ Len(data) = Before(cs, Len(cs)) + 5 /\ Before(cs, Len(cs)) \in Nat
        /\ Len(cs) \in Nat /\ Before(cs, k) \in Nat
    <3>1. Len(cs) \in Nat
      BY BytesAssumption
    <3> QED BY <3>1, EncodeLength, BeforeIs
  <2>5. Before(cs, k) <= Before(cs, Len(cs))
    BY <2>4, BeforeGrows
  <2>6. ASSUME k < Len(cs)
        PROVE  Before(cs, k + 1) <= Before(cs, Len(cs)) /\ Before(cs, k + 1) \in Nat
    <3>1. k + 1 \in 0..Len(cs) /\ Len(cs) \in (k + 1)..Len(cs) /\ k \in Nat
      BY <2>4, <2>6
    <3>2. Before(cs, k + 1) \in Nat /\ Before(cs, k + 1) + Len(cs) - (k + 1) <= Before(cs, Len(cs))
      BY <3>1, BeforeGrows, BeforeIs
    <3> QED BY <2>4, <3>1, <3>2
  <2>7. result # "none" /\ result # "panic"
    <3> DEFINE m == Len(data)  b == Before(cs, k)  e == Before(cs, Len(cs))
    <3>1. ASSUME result = "none" PROVE FALSE
      <4>1. m < b + 3 \/ (k < Len(cs) /\ m < Before(cs, k + 1) - 2)
        BY <2>3, <3>1 DEF InChunk
      <4>2. m = e + 5 /\ e \in Nat /\ b \in Nat /\ b <= e
        BY <2>4, <2>5
      <4> HIDE DEF m, b, e
      <4>3. k < Len(cs) /\ m < Before(cs, k + 1) - 2
        BY <4>1, <4>2
      <4>4. Before(cs, k + 1) <= e /\ Before(cs, k + 1) \in Nat
        BY <2>6, <4>3 DEF e
      <4> QED BY <4>2, <4>3, <4>4
    <3>2. ASSUME result = "panic" PROVE FALSE
      <4>1. b - m \in {1, 2}
        BY <2>3, <3>2 DEF InChunk
      <4>2. m = e + 5 /\ e \in Nat /\ b \in Nat /\ b <= e
        BY <2>4, <2>5
      <4> HIDE DEF m, b, e
      <4> QED BY <4>1, <4>2
    <3> QED BY <3>1, <3>2
  <2> QED BY <2>3, <2>7 DEF InChunk, IndInv, TypeOK
<1> QED BY <1>1, Invariance, PTL

\* A body whose last chunk has not arrived is never taken for a whole one.
THEOREM PrefixesAreNotAccepted == Spec => []PrefixNotAccepted
<1>1. IndInv => PrefixNotAccepted
  <2> SUFFICES ASSUME IndInv, NEW cs \in ChunkLists, Arrived(cs),
                      Len(data) < Len(Encode(cs)) - 2, result = "some"
               PROVE  FALSE
    BY DEF PrefixNotAccepted
  <2>1. Len(data) >= Before(cs, Len(cs)) + 3
    BY DEF IndInv, Progress, InChunk
  <2>2. /\ Len(Encode(cs)) = Before(cs, Len(cs)) + 5 /\ Before(cs, Len(cs)) \in Nat
        /\ Len(data) \in Nat
    <3>1. Len(cs) \in Nat
      BY BytesAssumption
    <3> QED BY <3>1, EncodeLength, BeforeIs, DataIs DEF IndInv
  <2> QED BY <2>1, <2>2
<1> QED BY <1>1, Invariance, PTL

\* On a part of a body the decoder panics if and only if the part ends with a chunk's
\* data or one byte later: the precondition EventLoop's Parse is built on.
THEOREM PanicsOnlyAtChunkEnd == Spec => []PanicsAtChunkEnd
<1>1. IndInv => PanicsAtChunkEnd
  <2> SUFFICES ASSUME IndInv, NEW cs \in ChunkLists, Arrived(cs), result # "running"
               PROVE  result = "panic" <=> \E j \in DOMAIN cs : Before(cs, j) - Len(data) \in {1, 2}
    BY DEF PanicsAtChunkEnd
  <2> DEFINE n == Len(cs)
  <2>1. PICK k \in 0..n : InChunk(cs, k)
    BY DEF IndInv, Progress
  <2>2. n \in Nat /\ DOMAIN cs = 1..n /\ Len(data) \in Nat
    BY BytesAssumption, DataIs DEF IndInv
  <2>3. \A j \in 0..n : Before(cs, j) \in Nat
    BY BeforeIs
  <2>4. \A j \in 0..n : \A i \in j..n : Before(cs, j) + i - j <= Before(cs, i)
    BY BeforeGrows
  <2>5. ASSUME result = "panic" PROVE \E j \in DOMAIN cs : Before(cs, j) - Len(data) \in {1, 2}
    BY <2>1, <2>2, <2>5 DEF InChunk
  <2>6. ASSUME NEW j \in DOMAIN cs, Before(cs, j) - Len(data) \in {1, 2}, result # "panic"
        PROVE  FALSE
    <3>1. j \in 1..n /\ j \in 0..n /\ Before(cs, j) > Len(data) /\ Before(cs, j) <= Len(data) + 2
      BY <2>2, <2>3, <2>6
    <3>2. Before(cs, j) <= Before(cs, n)
      <4>1. n \in 0..n /\ n \in j..n
        BY <2>2, <3>1
      <4>2. Before(cs, j) + n - j <= Before(cs, n)
        BY <2>4, <3>1, <4>1
      <4> HIDE DEF n
      <4> QED BY <2>2, <2>3, <3>1, <4>1, <4>2
    <3>3. CASE result = "some"
      BY <2>1, <2>2, <2>3, <3>1, <3>2, <3>3 DEF InChunk
    <3>4. CASE result = "none"
      <4>1. Before(cs, k) <= Len(data)
        BY <2>1, <3>4 DEF InChunk
      <4>2. j > k
        <5> SUFFICES ASSUME j <= k PROVE FALSE
          BY <2>2, <3>1
        <5>1. k \in j..n
          BY <2>2, <3>1
        <5>2. Before(cs, j) + k - j <= Before(cs, k)
          BY <2>4, <3>1, <5>1
        <5> QED BY <2>2, <2>3, <3>1, <4>1, <5>2
      <4>3. k + 1 \in 1..n /\ k + 1 \in 0..n /\ j \in (k + 1)..n /\ k < n /\ (k + 1) - 1 = k
        BY <2>2, <3>1, <4>2
      <4>4. Before(cs, k + 1) <= Before(cs, j)
        <5>1. Before(cs, k + 1) + j - (k + 1) <= Before(cs, j)
          BY <2>4, <4>3
        <5> QED BY <2>2, <2>3, <3>1, <4>3, <5>1
      <4>5. Before(cs, k + 1) = Before(cs, k) + Len(cs[k + 1]) + 5 /\ Len(cs[k + 1]) \in Nat
        BY <4>3, BeforeIs, ChunkIs
      <4>6. Len(data) < Before(cs, k + 1) - 2
        BY <2>1, <2>2, <2>3, <3>4, <4>1, <4>3, <4>5 DEF InChunk
      <4> QED BY <2>2, <2>3, <3>1, <4>3, <4>4, <4>6
    <3> QED BY <2>6, <3>3, <3>4 DEF IndInv, TypeOK
  <2> QED BY <2>5, <2>6
<1> QED BY <1>1, Invariance, PTL
=============================================================================
