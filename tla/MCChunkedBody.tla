--------------------------- MODULE MCChunkedBody ----------------------------
(* ChunkedBody on every short byte sequence and on every part of the        *)
(* encodings of a few chunk lists.                                          *)
EXTENDS ChunkedBody, SequencesExt

Digits == {"0", "1", "2", "f"}
Value(b) == CASE b = "0" -> 0 [] b = "1" -> 1 [] b = "2" -> 2 [] OTHER -> 15
Digit(n) == CASE n = 0 -> "0" [] n = 1 -> "1" [] n = 2 -> "2"

\* Chunks that look like size lines and line ends included.
Chunks == {<<"x">>, <<"0">>, <<"CR", "LF">>, <<"1", "CR">>}
Lists  == UNION {[1..n -> Chunks] : n \in 0..2}

AllBytes == Digits \cup {"x", "+", "CR", "LF"}
Short == BoundedSeq(AllBytes, 5)
=============================================================================
