----------------------------- MODULE ChunkedBody -----------------------------
(****************************************************************************)
(* decode_chunked of src/src/request.rs: the decoder of a chunked request   *)
(* body, run once per readable event on whatever part of the body has       *)
(* arrived.  One step is one pass of its loop.  Positions are usize values  *)
(* below UsizeLimit, as in the code: an addition that leaves the range      *)
(* panics in a debug build, and in a release build it wraps and the slice   *)
(* that follows panics.                                                     *)
(****************************************************************************)
EXTENDS Integers, Sequences, FiniteSetsExt

CONSTANTS
  Bytes,
  ArbitraryInputs, \* byte sequences the decoder may be given: these, and
  ChunkLists,      \* every part of the encodings of these lists of chunks
  CR, LF,          \* the two bytes of a line end, both white space
  Plus,            \* the sign that from_str_radix takes
  HexDigits,       \* the bytes that are hex digits,
  HexValue(_),     \* what they stand for,
  DigitOf(_),      \* and the digit of a small number
  UsizeLimit       \* 2^64 in the program

ASSUME BytesAssumption ==
  /\ ArbitraryInputs \subseteq Seq(Bytes) /\ ChunkLists \subseteq Seq(Seq(Bytes) \ {<< >>})
  /\ {CR, LF, Plus} \subseteq Bytes /\ CR # LF /\ Plus \notin {CR, LF}
  /\ HexDigits \subseteq Bytes \ {CR, LF, Plus}
  /\ \A d \in HexDigits : HexValue(d) \in Nat
  /\ UsizeLimit \in Nat \ {0}

-----------------------------------------------------------------------------
(* A chunked body, as a client encodes it.                                  *)

Line(s) == s \o <<CR, LF>>
Flat(seqs) ==
  LET upTo[i \in 0..Len(seqs)] == IF i = 0 THEN << >> ELSE upTo[i - 1] \o seqs[i]
  IN  upTo[Len(seqs)]

\* The chunks framed, without and with the last chunk.
Framed(cs) == Flat([i \in DOMAIN cs |-> Line(<<DigitOf(Len(cs[i]))>>) \o Line(cs[i])])
Encode(cs) == Framed(cs) \o Line(<<DigitOf(0)>>) \o Line(<< >>)

\* The first k chunks, and the number of bytes before the next one.
First(cs, k)  == SubSeq(cs, 1, k)
Before(cs, k) == Len(Framed(First(cs, k)))

\* One digit is enough for the lengths of the chunks, and the body fits the memory.
ASSUME ChunksAssumption ==
  \A cs \in ChunkLists :
    /\ \A n \in {0} \cup {Len(cs[i]) : i \in DOMAIN cs} :
         DigitOf(n) \in HexDigits /\ HexValue(DigitOf(n)) = n
    /\ Len(Framed(cs)) < UsizeLimit

Inputs == ArbitraryInputs \cup
  UNION {{SubSeq(Encode(cs), 1, n) : n \in 0..Len(Encode(cs))} : cs \in ChunkLists}

-----------------------------------------------------------------------------
VARIABLES
  data,        \* the bytes after the header
  pos,         \* 0-based, as in the code
  body,        \* what has been decoded
  result       \* "running", "some", "none", "panic"

vars == <<data, pos, body, result>>

\* data[from..to] of the code.
Slice(from, to) == SubSeq(data, from + 1, to)

LineEndsAt(p) == p + 2 <= Len(data) /\ data[p + 1] = CR /\ data[p + 2] = LF
LineEnds == {p \in pos..Len(data) : LineEndsAt(p)}
LineEnd  == Min(LineEnds)

\* What is parsed of the size line: str::trim, then a sign is skipped.
Trimmed(s) ==
  LET kept == {i \in DOMAIN s : s[i] \notin {CR, LF}} IN
  IF kept = {} THEN << >> ELSE SubSeq(s, Min(kept), Max(kept))
Unsigned(s) == IF s # << >> /\ s[1] = Plus THEN Tail(s) ELSE s

\* usize::from_str_radix(.., 16): every byte a digit, at least one of them, and
\* the value in range.
SizeOf(line) ==
  LET s == Unsigned(Trimmed(line))
      value[i \in 0..Len(s)] ==
        IF i = 0 THEN 0 ELSE 16 * value[i - 1] + HexValue(s[i])
  IN  value[Len(s)]
IsSize(line) ==
  LET s == Unsigned(Trimmed(line)) IN
  /\ s # << >> /\ \A i \in DOMAIN s : s[i] \in HexDigits
  /\ SizeOf(line) < UsizeLimit

Stop(outcome) == result' = outcome /\ UNCHANGED <<data, pos, body>>

\* data[pos..] with pos beyond the end panics, before any line end is looked for.
SliceOutOfRange ==
  /\ result = "running" /\ pos > Len(data)
  /\ Stop("panic")

Incomplete_IsEnd == "some"
Incomplete == "none"

\* No line end, or a line that is not a size: the ? returns None.
NoSizeLine ==
  /\ result = "running" /\ pos <= Len(data)
  /\ \/ LineEnds = {} /\ Stop(Incomplete)
     \/ LineEnds # {} /\ ~IsSize(Slice(pos, LineEnd)) /\ Stop("none")

HasSize == result = "running" /\ pos <= Len(data) /\ LineEnds # {}
           /\ IsSize(Slice(pos, LineEnd))
Size == SizeOf(Slice(pos, LineEnd))

LastChunk ==
  /\ HasSize /\ Size = 0
  /\ result' = "some" /\ pos' = LineEnd + 2
  /\ UNCHANGED <<data, body>>

\* pos + chunk_size > data.len(), where the sum itself may overflow.
TooShort_OffByOne == LineEnd + 2 + Size >= Len(data)
TooShort == LineEnd + 2 + Size > Len(data)

ShortOfData ==
  /\ HasSize /\ Size # 0 /\ TooShort
  /\ Stop(IF LineEnd + 2 + Size < UsizeLimit THEN "none" ELSE "panic")

\* What follows the chunk is skipped, whatever it is and if it is there or not.
AfterChunk_NoSkip(p) == p
AfterChunk_OneMore(p) == p + 3
AfterChunk(p) == p + 2

TakeChunk ==
  /\ HasSize /\ Size # 0 /\ ~TooShort
  /\ body' = body \o Slice(LineEnd + 2, LineEnd + 2 + Size)
  /\ pos'  = AfterChunk(LineEnd + 2 + Size)
  /\ UNCHANGED <<data, result>>

Init ==
  /\ data \in Inputs
  /\ pos = 0 /\ body = << >> /\ result = "running"

Next == SliceOutOfRange \/ NoSizeLine \/ LastChunk \/ ShortOfData \/ TakeChunk

Spec == Init /\ [][Next]_vars

-----------------------------------------------------------------------------
(* What the decoder computes, against the encoding of a list of chunks.     *)

\* data is what has arrived of the encoding of cs.
Arrived(cs) == Len(data) <= Len(Encode(cs)) /\ data = SubSeq(Encode(cs), 1, Len(data))

\* The shape of the state; pos runs at most two bytes past the end.
TypeOK ==
  /\ data \in Inputs /\ body \in Seq(Bytes)
  /\ pos \in 0..(Len(data) + 2) /\ Len(body) <= pos
  /\ result \in {"running", "some", "none", "panic"}

\* A body that has arrived as a whole is decoded to its chunks, joined.
DecodesEncoding ==
  \A cs \in ChunkLists : data = Encode(cs) /\ result # "running" =>
    result = "some" /\ body = Flat(cs)

\* A body whose last chunk has not arrived is never taken for a whole one, so
\* handle_read cannot hand a prefix of a chunked upload to the handler.
PrefixNotAccepted ==
  \A cs \in ChunkLists :
    Arrived(cs) /\ Len(data) < Len(Encode(cs)) - 2 => result # "some"

\* What EventLoop's Parse assumes: on a part of a well-formed body the decoder
\* panics exactly when the part ends with a chunk's data or one byte later.
PanicsAtChunkEnd ==
  \A cs \in ChunkLists : Arrived(cs) /\ result # "running" =>
    (result = "panic" <=>
       \E k \in DOMAIN cs : Before(cs, k) - Len(data) \in {1, 2})

\* Where the decoder is in a part of a well-formed body, or where it has stopped:
\* before the size line of some chunk k + 1, with the first k in the body.
InChunk(cs, k) ==
  CASE result = "running" -> pos = Before(cs, k) /\ body = Flat(First(cs, k))
    [] result = "none"    ->
         /\ Before(cs, k) <= Len(data)
         /\ \/ Len(data) < Before(cs, k) + 3
            \/ k < Len(cs) /\ Len(data) < Before(cs, k + 1) - 2
    [] result = "some"    -> Len(data) >= Before(cs, Len(cs)) + 3 /\ body = Flat(cs)
    [] result = "panic"   -> k > 0 /\ Before(cs, k) - Len(data) \in {1, 2}
Progress ==
  \A cs \in ChunkLists : Arrived(cs) => \E k \in 0..Len(cs) : InChunk(cs, k)

\* All of it, as one inductive invariant.
IndInv == TypeOK /\ Progress

\* request.rs:64, "Decode chunked body - return None if malformed".
MalformedIsNone == result # "panic"
=============================================================================
