------------------------------- MODULE Ranges -------------------------------
(***************************************************************************)
(* What becomes of a Range header: cdn/writer.go setContentRange reads it, *)
(* store.go pipeData clamps it to the body, and handler.go announces the   *)
(* result.  Sizes and offsets are in blocks.                               *)
(***************************************************************************)
EXTENDS Integers, Sequences

\* A Range header: "bytes=first-last", where either number may be missing (an
\* empty sequence) and `clean' says that what is there are numbers.
Header(first, last) == [clean |-> TRUE, first |-> first, last |-> last]
Garbled == [clean |-> FALSE, first |-> <<>>, last |-> <<>>]

\* writer.ContentRange of a header whose numbers parse: End is -1 if missing.
Requested(h) == [Start |-> IF h.first = <<>> THEN 0 ELSE h.first[1],
                 End   |-> IF h.last = <<>> THEN -1 ELSE h.last[1]]

Lower(a, b)  == IF a <= b THEN a ELSE b
Higher(a, b) == IF a >= b THEN a ELSE b

\* pipeData: the part [Start, End) of a body of this size.
Clamp(range, size) ==
  LET start == Lower(Higher(range.Start, 0), size) IN
  [Start |-> start,
   End   |-> IF range.End < 0 THEN size ELSE Higher(Lower(range.End, size), start)]

\* Content-Length of a partial answer.
LengthOf(slice) == slice.End - slice.Start
=============================================================================
