------------------------------- MODULE Pieces -------------------------------
(***************************************************************************)
(* The arithmetic of playback: which bytes a Range header asks for         *)
(* (parseRange, src/playback/serve.ts) and which pieces of the torrent     *)
(* they may lie in (requiredPieces, src/playback/pieces.ts).               *)
(***************************************************************************)
EXTENDS Integers

CONSTANTS Blank,        \* a number that is left out of a Range header
          NoRange,      \* no header
          Refused       \* null: to be answered with 416

Larger(a, b)  == IF a < b THEN b ELSE a
Smaller(a, b) == IF a < b THEN a ELSE b
Ceiling(a, b) == (a + b - 1) \div b

\* A header that cannot be parsed counts as one with both numbers left out.
parseRange(h, size) ==
  IF h = NoRange THEN [start |-> 0, end |-> size - 1]
  ELSE LET start == IF h.first = Blank THEN Larger(0, size - h.last) ELSE h.first
           end   == IF h.first = Blank \/ h.last = Blank THEN size - 1 ELSE Smaller(h.last, size - 1)
       IN  IF \/ h.first = Blank /\ h.last \in {Blank, 0}
              \/ start > end \/ start >= size
           THEN Refused ELSE [start |-> start, end |-> end]

\* What a header asks for, said of each byte: the reference for parseRange.
Asked(h, size) ==
  {b \in 0..(size - 1) :
     \/ h = NoRange
     \/ h # NoRange /\ \/ h.first # Blank /\ b >= h.first /\ (h.last # Blank => b <= h.last)
                       \/ h.first = Blank /\ h.last # Blank /\ size - b <= h.last}

\* A file of `bytes' bytes begins at byte `offset' of the first of its pieces.
LiesIn(range, size, offset, bytes) ==
  /\ offset \in 0..(size - 1)
  /\ range[2] = range[1] + (offset + bytes - 1) \div size

pieceOf(range, size, offset, b) == range[1] + (offset + b) \div size

\* Mutant: the end of the file is forgotten, the offset is taken to be the least one.
requiredPiecesLeast(range, size, start, end, bytes) ==
  LET spanBytes == (range[2] - range[1]) * size
      offsetMin == Larger(0, spanBytes - bytes + 1)
  IN  <<range[1] + (offsetMin + start) \div size, range[1] + (offsetMin + end) \div size>>

\* The client tells the pieces of a file, but not where in the first it begins:
\* every piece the bytes may intersect is required.
requiredPieces(range, size, start, end, bytes) ==
  LET spanBytes == (range[2] - range[1]) * size
      offsetMin == Larger(0, spanBytes - bytes + 1)
      offsetMax == Smaller(size - 1, spanBytes + size - bytes)
  IN  <<range[1] + (offsetMin + start) \div size, range[1] + (offsetMax + end) \div size>>

\* pieceGate refuses a layout in which the file cannot be.
plausible(range, size, bytes) ==
  LET span == range[2] - range[1] + 1
  IN  Ceiling(bytes, size) <= span /\ span <= Ceiling(bytes - 1, size) + 1
=============================================================================
