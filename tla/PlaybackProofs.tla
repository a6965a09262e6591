--------------------------- MODULE PlaybackProofs ---------------------------
(***************************************************************************)
(* Playback never sends a byte of a piece that has not been verified, for  *)
(* every file, piece size, read size, header and number of requests; what  *)
(* it waits for is never outside of the file; and a request ends as it is  *)
(* said to end, with its reservation given back once.                      *)
(***************************************************************************)
EXTENDS Playback, FiniteSetTheorems, TLAPS

\* Division by a piece size.
LEMMA Division ==
  ASSUME NEW a \in Nat, NEW s \in Nat \ {0}
  PROVE  /\ a \div s \in Nat
         /\ s * (a \div s) <= a
         /\ a < s * (a \div s) + s
  OBVIOUS

LEMMA Monotone ==
  ASSUME NEW q \in Nat, NEW p \in Nat, NEW s \in Nat \ {0}, s * q < s * p + s
  PROVE  q <= p
<1>1. CASE q > p
  <2>1. q - p - 1 \in Nat
    BY <1>1
  <2>2. s * q = s * p + s + s * (q - p - 1)
    BY <2>1
  <2>3. s * (q - p - 1) >= 0
    BY <2>1
  <2> QED BY <2>2, <2>3
<1> QED BY <1>1

LEMMA DivisionMonotone ==
  ASSUME NEW a \in Nat, NEW b \in Nat, NEW s \in Nat \ {0}, a <= b
  PROVE  a \div s <= b \div s
<1> DEFINE q == a \div s
           p == b \div s
<1>1. /\ q \in Nat /\ p \in Nat
      /\ s * q <= a /\ b < s * p + s
  BY Division
<1>2. s * q \in Nat /\ s * p \in Nat
  BY <1>1
<1> HIDE DEF q, p
<1>3. s * q < s * p + s
  BY <1>1, <1>2
<1>4. q <= p
  BY <1>1, <1>3, Monotone
<1> QED BY <1>4 DEF q, p

\* requiredPieces is right for every layout of the torrent, whichever the byte is that
\* the file begins at: no piece that one of the bytes lies in is left out, and none is
\* waited for that the file has no part in, which might never come (pieces.ts).
THEOREM EveryPieceWaitedFor ==
  ASSUME NEW size \in Nat \ {0}, NEW bytes \in Nat \ {0}, NEW range \in Nat \X Nat, NEW o,
         LiesIn(range, size, o, bytes),
         NEW start \in Nat, NEW end \in start..(bytes - 1)
  PROVE  LET q == requiredPieces(range, size, start, end, bytes)
         IN  /\ \A b \in start..end : pieceOf(range, size, o, b) \in q[1]..q[2]
             /\ q[1]..q[2] \subseteq range[1]..range[2]
<1> DEFINE k  == (o + bytes - 1) \div size
           t  == size * k
           lo == Larger(0, t - bytes + 1)
           hi == Smaller(size - 1, t + size - bytes)
           q  == requiredPieces(range, size, start, end, bytes)
<1>1. /\ o \in 0..(size - 1)
      /\ range[1] \in Nat /\ range[2] \in Nat
      /\ range[2] = range[1] + k
  BY DEF LiesIn
<1>2. k \in Nat /\ t \in Nat /\ t <= o + bytes - 1 /\ o + bytes - 1 < t + size
  <2>1. o + bytes - 1 \in Nat
    BY <1>1
  <2>2. k \in Nat /\ t <= o + bytes - 1 /\ o + bytes - 1 < t + size
    BY <2>1, Division
  <2> QED BY <2>2
<1>3. (range[2] - range[1]) * size = t
  <2>1. range[2] - range[1] = k
    BY <1>1, <1>2
  <2> QED BY <2>1, <1>2
<1>4. q = <<range[1] + (lo + start) \div size, range[1] + (hi + end) \div size>>
  BY <1>3 DEF requiredPieces
<1> HIDE DEF k, t, q
<1>5. /\ lo \in Nat /\ lo <= o
      /\ hi \in Nat /\ o <= hi
      /\ hi + end < t + size
  BY <1>1, <1>2 DEF Larger, Smaller
<1> HIDE DEF lo, hi
<1>6. /\ (lo + start) \div size \in Nat
      /\ (hi + end) \div size \in Nat
      /\ size * ((hi + end) \div size) <= hi + end
  <2>1. lo + start \in Nat /\ hi + end \in Nat
    BY <1>5
  <2> QED BY <2>1, Division
<1>7. (hi + end) \div size <= k
  <2> DEFINE h == (hi + end) \div size
  <2>1. h \in Nat /\ size * h <= hi + end
    BY <1>6
  <2> HIDE DEF h
  <2>2. size * h \in Nat
    BY <2>1
  <2>3. size * h < size * k + size
    BY <2>1, <2>2, <1>2, <1>5 DEF t
  <2>4. h <= k
    BY <2>1, <2>3, <1>2, Monotone
  <2> QED BY <2>4 DEF h
<1>8. ASSUME NEW b \in start..end
      PROVE  pieceOf(range, size, o, b) \in q[1]..q[2]
  <2>1. /\ lo + start \in Nat /\ o + b \in Nat /\ hi + end \in Nat
        /\ lo + start <= o + b /\ o + b <= hi + end
    BY <1>1, <1>5
  <2>2. /\ (lo + start) \div size <= (o + b) \div size
        /\ (o + b) \div size <= (hi + end) \div size
    BY <2>1, DivisionMonotone
  <2>3. (o + b) \div size \in Nat
    BY <2>1, Division
  <2> QED BY <2>2, <2>3, <1>1, <1>4, <1>6 DEF pieceOf
<1>9. q[1]..q[2] \subseteq range[1]..range[2]
  BY <1>1, <1>2, <1>4, <1>6, <1>7
<1> QED BY <1>8, <1>9 DEF q

\* pieceGate refuses no layout that a torrent can have (pieces.ts, "Invalid torrent piece
\* layout."): a request never waits in vain for a better one.
THEOREM LayoutsArePlausible ==
  ASSUME NEW size \in Nat \ {0}, NEW bytes \in Nat \ {0}, NEW range \in Nat \X Nat, NEW o,
         LiesIn(range, size, o, bytes)
  PROVE  plausible(range, size, bytes)
<1> DEFINE k == (o + bytes - 1) \div size
           c == (bytes + size - 1) \div size
           d == (bytes - 1 + size - 1) \div size
<1>1. /\ o \in 0..(size - 1)
      /\ range[1] \in Nat /\ range[2] = range[1] + k
  BY DEF LiesIn
<1>2. /\ o + bytes - 1 \in Nat /\ bytes + size - 1 \in Nat /\ bytes - 1 + size - 1 \in Nat
  BY <1>1
<1>3. /\ k \in Nat /\ size * k <= o + bytes - 1 /\ o + bytes - 1 < size * k + size
      /\ c \in Nat /\ size * c <= bytes + size - 1
      /\ d \in Nat /\ bytes - 1 + size - 1 < size * d + size
  BY <1>2, Division
<1>4. plausible(range, size, bytes) <=> c <= k + 1 /\ k + 1 <= d + 1
  BY <1>1, <1>3 DEF plausible, Ceiling
<1> HIDE DEF k, c, d
<1>5. c <= k + 1
  <2>1. size * (k + 1) = size * k + size
    BY <1>3
  <2>2. size * k \in Nat /\ size * c \in Nat
    BY <1>3
  <2>3. size * c < size * (k + 1) + size
    BY <1>1, <1>3, <2>1, <2>2
  <2> QED BY <1>3, <2>3, Monotone
<1>6. k <= d
  <2>1. size * k \in Nat /\ size * d \in Nat
    BY <1>3
  <2>2. size * k < size * d + size
    BY <1>1, <1>3, <2>1
  <2> QED BY <1>3, <2>2, Monotone
<1> QED BY <1>3, <1>4, <1>5, <1>6

\* parseRange answers the bytes that are asked for, and 416 only for a header that asks
\* for none (serve.ts).
THEOREM RangesAreHonoured ==
  ASSUME NEW h \in [first : Nat \cup {Blank}, last : Nat \cup {Blank}] \cup {NoRange},
         NEW size \in Nat \ {0},
         Blank \notin Nat, Refused \notin [start : Nat, end : Nat],
         NoRange \notin [first : Nat \cup {Blank}, last : Nat \cup {Blank}]
  PROVE  IF parseRange(h, size) = Refused THEN Asked(h, size) = {}
         ELSE /\ parseRange(h, size) \in [start : Nat, end : Nat]
              /\ parseRange(h, size).start <= parseRange(h, size).end
              /\ parseRange(h, size).end < size
              /\ Asked(h, size) = parseRange(h, size).start..parseRange(h, size).end
<1>1. CASE h = NoRange
  <2>1. parseRange(h, size) = [start |-> 0, end |-> size - 1]
    BY <1>1 DEF parseRange
  <2>2. Asked(h, size) = 0..(size - 1)
    BY <1>1 DEF Asked
  <2>3. parseRange(h, size) \in [start : Nat, end : Nat]
    BY <2>1
  <2> QED BY <2>1, <2>2, <2>3
<1>2. CASE h # NoRange
  <2>1. h.first \in Nat \cup {Blank} /\ h.last \in Nat \cup {Blank}
    BY <1>2
  <2> DEFINE start == IF h.first = Blank THEN Larger(0, size - h.last) ELSE h.first
             end   == IF h.first = Blank \/ h.last = Blank THEN size - 1 ELSE Smaller(h.last, size - 1)
             none  == \/ h.first = Blank /\ h.last \in {Blank, 0}
                      \/ start > end \/ start >= size
  <2>2. parseRange(h, size) = IF none THEN Refused ELSE [start |-> start, end |-> end]
    BY <1>2 DEF parseRange
  <2>3. ASSUME none PROVE Asked(h, size) = {}
    BY <1>2, <2>1, <2>3 DEF Asked, Larger, Smaller
  <2>4. ASSUME ~none
        PROVE  /\ start \in Nat /\ end \in Nat /\ start <= end /\ end < size
               /\ Asked(h, size) = start..end
    BY <1>2, <2>1, <2>4 DEF Asked, Larger, Smaller
  <2> HIDE DEF none, start, end
  <2> QED BY <2>2, <2>3, <2>4
<1> QED BY <1>1, <1>2
-----------------------------------------------------------------------------
LEMMA LayoutFits ==
  ASSUME NEW o \in 0..(PieceSize - 1)
  PROVE  /\ Layout(o) \in Nat \X Nat
         /\ LiesIn(Layout(o), PieceSize, o, FileSize)
         /\ Layout(o)[1]..Layout(o)[2] = Piece(o)
<1>1. o + FileSize - 1 \in Nat
  BY SizeAssumption
<1>2. (o + FileSize - 1) \div PieceSize \in Nat
  BY <1>1, SizeAssumption, Division
<1> QED BY <1>2, SizeAssumption DEF Layout, LiesIn, Piece

LEMMA WantedRange ==
  ASSUME NEW h \in Header \cup {NoRange}, parseRange(h, FileSize) # Refused
  PROVE  /\ parseRange(h, FileSize) \in [start : Nat, end : Nat]
         /\ parseRange(h, FileSize).start <= parseRange(h, FileSize).end
         /\ parseRange(h, FileSize).end < FileSize
BY RangesAreHonoured, HeaderAssumption, SizeAssumption

\* What holds of each request: it is where it is because of what has been verified.
Served  == {"copies", "gates", "reprobes", "checks", "reads"}
Waiting == {"idle", "prepares", "clips", "opens", "probes", "serves"}

Seen(r) == \A b \in Sent(r) : pieceOf(Layout(offset), PieceSize, offset, b) \in ever

Safe(r) == /\ file[r].progress = "whole" => Piece(offset) \subseteq ever
           /\ gate[r] \subseteq ever
           /\ pc[r] = "copies" => file[r].progress = "whole"
           /\ pc[r] \in Waiting => pos[r] = 0
           /\ pc[r] \in Served => /\ wanted(r) # Refused
                                  /\ pos[r] \in wanted(r).start..wanted(r).end
           /\ pc[r] = "reads" => required(r) \subseteq ever
           /\ opened[r] = "own" => Seen(r)

Typed == /\ offset \in 0..(PieceSize - 1)
         /\ verified \subseteq ever /\ known \in BOOLEAN
         /\ pc = [r \in Reader |-> pc[r]] /\ gate = [r \in Reader |-> gate[r]]
         /\ opened = [r \in Reader |-> opened[r]]
         /\ ask \in [Reader -> Header \cup {NoRange}]
         /\ file \in [Reader -> [progress : {"none", "part", "whole"}, layout : BOOLEAN]]
         /\ pos \in [Reader -> Nat]

Inv == Typed /\ \A r \in Reader : Safe(r)

LEMMA InitInv == Init => Inv
<1> SUFFICES ASSUME Init PROVE Inv
  OBVIOUS
<1>1. Typed
  BY DEF Init, Typed
<1>2. ASSUME NEW r \in Reader PROVE Safe(r)
  <2>1. /\ pc[r] = "idle" /\ pos[r] = 0 /\ opened[r] = "none"
        /\ gate[r] = {} /\ file[r].progress = "none"
    BY DEF Init
  <2> QED BY <2>1 DEF Safe, Served
<1> QED BY <1>1, <1>2 DEF Inv

\* A request that does not move stays safe, whatever the client verifies.
LEMMA Frame ==
  ASSUME NEW r \in Reader, Safe(r),
         offset' = offset, ever \subseteq ever',
         pc'[r] = pc[r], ask'[r] = ask[r], file'[r].progress = file[r].progress,
         gate'[r] = gate[r], pos'[r] = pos[r], opened'[r] = opened[r]
  PROVE  Safe(r)'
<1>1. /\ wanted(r)' = wanted(r) /\ Sent(r)' = Sent(r) /\ last(r)' = last(r)
      /\ required(r)' = required(r)
  BY DEF wanted, Sent, last, required, wanted
<1>2. Seen(r) => Seen(r)'
  BY <1>1 DEF Seen
<1> QED BY <1>1, <1>2 DEF Safe

\* A step of one request leaves the others where they are.
Alone(r) == /\ Typed'
            /\ \A q \in Reader \ {r} :
                 /\ pc'[q] = pc[q] /\ ask'[q] = ask[q] /\ file'[q].progress = file[q].progress
                 /\ gate'[q] = gate[q] /\ pos'[q] = pos[q] /\ opened'[q] = opened[q]

LEMMA EndIsSafe ==
  ASSUME NEW r \in Reader, NEW how, Inv, Ends(r, how), UNCHANGED world
  PROVE  Alone(r) /\ Safe(r)'
<1>1. /\ pc'[r] = "ended" /\ gate'[r] = {}
      /\ UNCHANGED <<offset, ever, ask, file, pos, opened>>
  BY DEF Inv, Typed, Ends, Goes, world
<1>2. Seen(r) => Seen(r)'
  BY <1>1 DEF Seen, Sent, wanted
<1>3. Safe(r)'
  BY <1>1, <1>2 DEF Inv, Safe, Served, Waiting
<1>4. Alone(r)
  BY DEF Alone, Inv, Typed, Ends, Goes, world
<1> QED BY <1>3, <1>4

\* Before anything is sent.
LEMMA OpeningIsSafe ==
  ASSUME NEW r \in Reader, Inv, UNCHANGED world,
         \/ \E h \in Header : Requests(r, h)
         \/ PrepareFails(r) \/ Prepared(r) \/ Clips(r) \/ Opening(r)
  PROVE  Alone(r) /\ Safe(r)'
<1> USE DEF world, Waiting, Served
<1>a. Safe(r) /\ Typed
  BY DEF Inv
<1>b. ASSUME pc[r] \in Waiting, pos'[r] = 0, opened' = opened \/ opened'[r] \in {"own", "old"},
             ask'[r] \in Header \cup {NoRange}
      PROVE  Seen(r)'
  <2>1. wanted(r)' # Refused => Sent(r)' = {}
    BY <1>b, WantedRange, SizeAssumption DEF Sent, wanted
  <2>2. Sent(r)' = {}
    BY <2>1 DEF Sent
  <2> QED BY <2>2 DEF Seen
<1>1. CASE \E h \in Header : Requests(r, h)
  <2> PICK h \in Header : Requests(r, h)
    BY <1>1
  <2>1. Alone(r)
    BY <1>a DEF Alone, Typed, Requests, Goes
  <2>2. pos'[r] = 0 /\ pc'[r] = "prepares" /\ ask'[r] \in Header \cup {NoRange}
    BY <1>a DEF Typed, Requests, Goes, Safe
  <2>3. Safe(r)'
    BY <1>a, <1>b, <2>2 DEF Safe, Requests
  <2> QED BY <2>1, <2>3
<1>2. CASE PrepareFails(r)
  <2>1. Alone(r)
    BY <1>2, <1>a DEF Alone, Typed, PrepareFails, Goes
  <2>2. pos'[r] = 0 /\ pc'[r] = "ended" /\ ask'[r] \in Header \cup {NoRange}
    BY <1>2, <1>a DEF Typed, PrepareFails, Goes, Safe
  <2>3. Safe(r)'
    BY <1>2, <1>a, <1>b, <2>2 DEF Safe, PrepareFails
  <2> QED BY <2>1, <2>3
<1>3. CASE Prepared(r)
  <2>1. Alone(r)
    BY <1>3, <1>a DEF Alone, Typed, Prepared, Goes, progress
  <2>2. /\ pos'[r] = 0 /\ pc'[r] \in {"clips", "opens"} /\ ask'[r] \in Header \cup {NoRange}
        /\ file'[r].progress = progress
    BY <1>3, <1>a DEF Typed, Prepared, Goes, Safe
  <2>3. progress = "whole" => Piece(offset) \subseteq ever
    BY <1>a DEF progress, whole, Typed
  <2>4. Safe(r)'
    BY <1>3, <1>a, <1>b, <2>2, <2>3 DEF Safe, Prepared
  <2> QED BY <2>1, <2>4
<1>4. CASE Clips(r)
  BY <1>4, EndIsSafe DEF Clips
<1>5. CASE Opens(r) \/ OpensOld(r)
  <2>1. CASE Ends(r, "refused")
    BY <2>1, EndIsSafe
  <2>2. CASE ~Ends(r, "refused")
    <3>1. Alone(r)
      BY <1>5, <2>2, <1>a DEF Alone, Typed, Opens, OpensOld, Goes
    <3>2. /\ pos'[r] = 0 /\ pc'[r] = "serves" /\ ask'[r] \in Header \cup {NoRange}
          /\ opened'[r] \in {"own", "old"}
          /\ UNCHANGED <<file, gate>>
      BY <1>5, <2>2, <1>a DEF Typed, Opens, OpensOld, Goes, Safe
    <3>3. Safe(r)'
      BY <1>5, <1>a, <1>b, <3>2 DEF Safe, Opens, OpensOld
    <3> QED BY <3>1, <3>3
  <2> QED BY <2>1, <2>2
<1>6. CASE NotFound(r) \/ Probes(r)
  <2>1. CASE \E how : Ends(r, how)
    BY <2>1, EndIsSafe
  <2>2. CASE ~\E how : Ends(r, how)
    <3>1. Alone(r)
      BY <1>6, <2>2, <1>a DEF Alone, Typed, NotFound, Probes, GivesUp, Polls, Goes
    <3>2. /\ pos'[r] = 0 /\ pc'[r] \in {"opens", "probes"}
          /\ UNCHANGED <<ask, file, gate, opened>>
      BY <1>6, <2>2, <1>a DEF Typed, NotFound, Probes, GivesUp, Polls, Goes, Safe
    <3>3. ask'[r] \in Header \cup {NoRange}
      BY <3>2, <1>a DEF Typed
    <3>4. Safe(r)'
      BY <1>6, <1>a, <1>b, <3>2, <3>3 DEF Safe, NotFound, Probes
    <3> QED BY <3>1, <3>4
  <2> QED BY <2>1, <2>2
<1> QED BY <1>1, <1>2, <1>3, <1>4, <1>5, <1>6 DEF Opening

\* While it is sent: the gate has seen every piece of what is read.
LEMMA SendingIsSafe ==
  ASSUME NEW r \in Reader, Inv, UNCHANGED world,
         Sending(r) \/ Buffering(r) \/ Taken(r)
  PROVE  Alone(r) /\ Safe(r)'
<1> USE DEF world, Waiting, Served
<1>a. Safe(r) /\ Typed
  BY DEF Inv
<1>b. CASE \E how : Ends(r, how)
  BY <1>b, EndIsSafe
<1>c. ASSUME UNCHANGED <<ask, pos, opened>>
      PROVE  /\ wanted(r)' = wanted(r) /\ required(r)' = required(r)
             /\ Seen(r) => Seen(r)'
  BY <1>c DEF Seen, Sent, wanted, required, last
<1>d. wanted(r) # Refused => /\ wanted(r).start \in Nat /\ wanted(r).end \in Nat
                             /\ wanted(r).start <= wanted(r).end
                             /\ wanted(r).end < FileSize
  BY <1>a, WantedRange DEF wanted, Typed
<1>e. pc = [q \in Reader |-> pc[q]] /\ gate = [q \in Reader |-> gate[q]]
  BY <1>a DEF Typed
<1>1. CASE Serves(r) /\ ~\E how : Ends(r, how)
  <2>1. /\ wanted(r) # Refused
        /\ pos' = [pos EXCEPT ![r] = wanted(r).start]
        /\ pc' = [pc EXCEPT ![r] = IF file[r].progress = "whole" THEN "copies" ELSE "gates"]
        /\ UNCHANGED <<ask, file, gate, opened>>
    BY <1>1 DEF Serves, Goes
  <2>2. Alone(r)
    BY <2>1, <1>a, <1>d DEF Alone, Typed
  <2>3. pos'[r] = wanted(r).start /\ pc'[r] = IF file[r].progress = "whole" THEN "copies" ELSE "gates"
    BY <2>1, <1>a DEF Typed
  <2>4. wanted(r)' = wanted(r) /\ Sent(r)' = {}
    BY <2>1, <2>3, <1>d DEF wanted, Sent
  <2>5. Seen(r)'
    BY <2>4 DEF Seen
  <2>6. Safe(r)'
    BY <2>1, <2>3, <2>4, <2>5, <1>a, <1>d DEF Safe
  <2> QED BY <2>2, <2>6
<1>2. CASE Copies(r)
  <2>1. /\ pc[r] = "copies" /\ wanted(r) # Refused /\ Piece(offset) \subseteq ever
        /\ pos' = [pos EXCEPT ![r] = wanted(r).end + 1]
        /\ pc' = [pc EXCEPT ![r] = "finishes"]
        /\ UNCHANGED <<ask, file, gate, opened>>
    BY <1>2, <1>a DEF Copies, Goes, Safe
  <2>2. Alone(r)
    <3>1. wanted(r).end + 1 \in Nat
      BY <2>1, <1>d
    <3> QED BY <2>1, <3>1, <1>a DEF Alone, Typed
  <2>3. pos'[r] = wanted(r).end + 1 /\ pc'[r] = "finishes"
    BY <2>1, <1>a DEF Typed
  <2>4. Sent(r)' = wanted(r).start..wanted(r).end
    BY <2>1, <2>3, <1>d DEF wanted, Sent
  <2>5. ASSUME NEW b \in Sent(r)'
        PROVE  pieceOf(Layout(offset), PieceSize, offset, b) \in Piece(offset)
    <3>1. offset \in 0..(PieceSize - 1) /\ b \in Nat /\ b < FileSize
      <4>1. offset \in 0..(PieceSize - 1)
        BY <1>a DEF Typed
      <4>2. b \in wanted(r).start..wanted(r).end
        BY <2>4, <2>5
      <4> QED BY <2>1, <4>1, <4>2, <1>d, SizeAssumption
    <3>2. /\ offset + b \in Nat /\ offset + FileSize - 1 \in Nat
          /\ offset + b <= offset + FileSize - 1
      BY <3>1, SizeAssumption
    <3>3. /\ (offset + b) \div PieceSize \in Nat
          /\ (offset + b) \div PieceSize <= (offset + FileSize - 1) \div PieceSize
      BY <3>2, SizeAssumption, Division, DivisionMonotone
    <3>4. (offset + FileSize - 1) \div PieceSize \in Nat
      BY <3>2, SizeAssumption, Division
    <3> QED BY <3>3, <3>4 DEF pieceOf, Layout, Piece
  <2>6. Seen(r)'
    BY <2>1, <2>5 DEF Seen
  <2>7. Safe(r)'
    BY <2>1, <2>3, <2>6, <1>a DEF Safe
  <2> QED BY <2>2, <2>7
<1>3. CASE /\ Gates(r) \/ GateWaits(r) \/ Reprobes(r)
           /\ ~\E how : Ends(r, how)
  <2>1. /\ pc[r] \in {"gates", "reprobes"}
        /\ \E to \in {"gates", "reprobes", "checks"} : pc' = [pc EXCEPT ![r] = to]
        /\ gate' = gate \/ gate' = [gate EXCEPT ![r] = {}]
        /\ file' = file \/ file' = [file EXCEPT ![r].layout = known]
        /\ UNCHANGED <<ask, pos, opened>>
    BY <1>3 DEF Gates, GateWaits, GivesUp, Reprobes, Goes
  <2>2. Alone(r)
    <3>1. /\ file' \in [Reader -> [progress : {"none", "part", "whole"}, layout : BOOLEAN]]
          /\ \A q \in Reader : file'[q].progress = file[q].progress
      <4>1. CASE file' = file
        BY <4>1, <1>a DEF Typed
      <4>2. CASE file' = [file EXCEPT ![r].layout = known]
        <5>1. /\ file[r] \in [progress : {"none", "part", "whole"}, layout : BOOLEAN]
              /\ known \in BOOLEAN
          BY <1>a DEF Typed
        <5>2. /\ [file[r] EXCEPT !.layout = known] \in [progress : {"none", "part", "whole"}, layout : BOOLEAN]
              /\ [file[r] EXCEPT !.layout = known].progress = file[r].progress
          BY <5>1
        <5>3. file' = [file EXCEPT ![r] = [file[r] EXCEPT !.layout = known]]
          BY <4>2
        <5> QED BY <5>2, <5>3, <1>a DEF Typed
      <4> QED BY <2>1, <4>1, <4>2
    <3>2. /\ pc' = [q \in Reader |-> pc'[q]] /\ gate' = [q \in Reader |-> gate'[q]]
          /\ \A q \in Reader \ {r} : pc'[q] = pc[q] /\ gate'[q] = gate[q]
      BY <2>1, <1>e
    <3> QED BY <2>1, <3>1, <3>2, <1>a DEF Alone, Typed
  <2>3. /\ pc'[r] \in {"gates", "reprobes", "checks"}
        /\ gate'[r] \subseteq gate[r] /\ file'[r].progress = file[r].progress
    BY <2>1, <1>a DEF Typed
  <2>4. Safe(r)'
    BY <2>1, <2>3, <1>a, <1>c DEF Safe
  <2> QED BY <2>2, <2>4
<1>4. CASE /\ ChecksCached(r) \/ Checks(r)
           /\ ~\E how : Ends(r, how)
  <2>1. PICK s \in {gate[r], verified, {}} :
             /\ GateReady(r, s) \/ GateBlocks(r, s)
             /\ \/ gate' = gate /\ s = gate[r]
                \/ gate' = [gate EXCEPT ![r] = s]
    BY <1>4 DEF ChecksCached, Checks, GivesUp
  <2>2. /\ pc[r] = "checks"
        /\ \/ required(r) \subseteq s /\ pc' = [pc EXCEPT ![r] = "reads"]
           \/ pc' = pc
        /\ UNCHANGED <<ask, file, pos, opened>>
    BY <1>4, <2>1 DEF ChecksCached, Checks, GateReady, GateBlocks, Goes
  <2>3. Alone(r)
    BY <2>1, <2>2, <1>a DEF Alone, Typed
  <2>4. gate'[r] = s /\ s \subseteq ever
    BY <2>1, <1>a DEF Typed, Safe
  <2>5. \/ pc'[r] = "checks"
        \/ pc'[r] = "reads" /\ required(r) \subseteq s
    <3>1. pc' = [pc EXCEPT ![r] = "reads"] => pc'[r] = "reads"
      BY <1>e
    <3> QED BY <2>2, <3>1
  <2>6. Safe(r)'
    BY <2>2, <2>4, <2>5, <1>a, <1>c DEF Safe
  <2> QED BY <2>3, <2>6
<1>5. CASE Reads(r)
  <2>1. /\ pc[r] = "reads" /\ wanted(r) # Refused /\ required(r) \subseteq ever
        /\ pos' = [pos EXCEPT ![r] = last(r) + 1]
        /\ pc' = [pc EXCEPT ![r] = IF last(r) = wanted(r).end THEN "finishes" ELSE "checks"]
        /\ UNCHANGED <<ask, file, gate, opened>>
    BY <1>5, <1>a DEF Reads, Goes, Safe
  <2>2. /\ pos[r] \in wanted(r).start..wanted(r).end
        /\ last(r) \in pos[r]..wanted(r).end
    BY <2>1, <1>a, <1>d, SizeAssumption DEF Safe, last, Smaller
  <2>3. Alone(r)
    <3>1. last(r) + 1 \in Nat
      BY <2>1, <2>2, <1>d
    <3> QED BY <2>1, <3>1, <1>a DEF Alone, Typed
  <2>4. /\ pos'[r] = last(r) + 1
        /\ pc'[r] = IF last(r) = wanted(r).end THEN "finishes" ELSE "checks"
    BY <2>1, <1>a DEF Typed
  <2>5. wanted(r)' = wanted(r) /\ Sent(r)' = Sent(r) \cup (pos[r]..last(r))
    BY <2>1, <2>2, <2>4, <1>d DEF wanted, Sent
  <2>6. ASSUME NEW b \in pos[r]..last(r)
        PROVE  pieceOf(Layout(offset), PieceSize, offset, b) \in ever
    <3>1. /\ pos[r] \in Nat /\ last(r) \in pos[r]..(FileSize - 1)
          /\ offset \in 0..(PieceSize - 1)
      <4>1. offset \in 0..(PieceSize - 1)
        BY <1>a DEF Typed
      <4> QED BY <2>1, <2>2, <4>1, <1>d, SizeAssumption
    <3>2. LiesIn(Layout(offset), PieceSize, offset, FileSize) /\ Layout(offset) \in Nat \X Nat
      BY <3>1, LayoutFits
    <3>3. pieceOf(Layout(offset), PieceSize, offset, b) \in required(r)
      BY <3>1, <3>2, <2>6, SizeAssumption, EveryPieceWaitedFor DEF required
    <3> QED BY <3>3, <2>1
  <2>7. Seen(r) => Seen(r)'
    BY <2>1, <2>5, <2>6 DEF Seen
  <2>8. Safe(r)'
    BY <2>1, <2>2, <2>4, <2>5, <2>7, <1>a, <1>d DEF Safe
  <2> QED BY <2>3, <2>8
<1>6. CASE ReadsShort(r) /\ ~\E how : Ends(r, how)
  <2>1. UNCHANGED <<pc, ask, file, gate, pos, opened>>
    BY <1>6 DEF ReadsShort, GivesUp
  <2> QED BY <2>1, <1>a, Frame DEF Alone, Typed
<1>7. Heads(r) \/ CheckFails(r) \/ Finishes(r) \/ Disconnects(r) => \E how : Ends(r, how)
  BY DEF Heads, CheckFails, Finishes, Disconnects
<1> QED BY <1>b, <1>1, <1>2, <1>3, <1>4, <1>5, <1>6, <1>7 DEF Sending, Buffering, Taken

\* The client adds to what has been verified, and takes nothing away from it.
LEMMA ClientIsSafe ==
  ASSUME Inv, Client
  PROVE  Inv'
<1> USE DEF reader
<1>1. /\ offset' = offset /\ ever \subseteq ever' /\ verified' \subseteq ever' /\ known' \in BOOLEAN
      /\ UNCHANGED <<pc, ask, file, gate, pos, opened>>
  BY DEF Inv, Typed, Client, Verifies, Grows, Tells, Rechecks, Checked, Breaks, RestCompletes, Moves
<1>2. Typed'
  BY <1>1 DEF Inv, Typed
<1>3. ASSUME NEW r \in Reader PROVE Safe(r)'
  BY <1>1, Frame DEF Inv
<1> QED BY <1>2, <1>3 DEF Inv

\* Every step keeps the requests safe.
LEMMA StepInv == Inv /\ [Next]_vars => Inv'
<1> SUFFICES ASSUME Inv, [Next]_vars PROVE Inv'
  OBVIOUS
<1>1. CASE Client
  BY <1>1, ClientIsSafe
<1>2. ASSUME NEW r \in Reader, UNCHANGED world,
             (\E h \in Header : Requests(r, h)) \/ Goeson(r) \/ Taken(r)
      PROVE  Inv'
  <2>1. Alone(r) /\ Safe(r)'
    BY <1>2, OpeningIsSafe, SendingIsSafe DEF Goeson
  <2>2. ASSUME NEW q \in Reader \ {r} PROVE Safe(q)'
    BY <1>2, <2>1, Frame DEF Inv, Alone, world
  <2> QED BY <2>1, <2>2 DEF Inv, Alone
<1>3. CASE UNCHANGED vars
  <2>1. Typed'
    BY <1>3 DEF Inv, Typed, vars, world, reader
  <2>2. ASSUME NEW q \in Reader PROVE Safe(q)'
    BY <1>3, Frame DEF Inv, vars, world, reader
  <2> QED BY <2>1, <2>2 DEF Inv
<1> QED BY <1>1, <1>2, <1>3 DEF Next

\* No byte is sent before the piece it lies in has been verified, wherever in its first
\* piece the file begins and however the torrent is checked, moved or lost meanwhile:
\* NothingUnverified, for every file, every header and any number of requests.
THEOREM OnlyVerifiedBytes == Spec => []NothingUnverified
<1>1. Init => Inv
  BY InitInv
<1>2. Inv /\ [Next]_vars => Inv'
  BY StepInv
<1>3. Inv => NothingUnverified
  BY DEF Inv, Safe, Seen, NothingUnverified
<1> QED BY <1>1, <1>2, <1>3, PTL DEF Spec
-----------------------------------------------------------------------------
\* What is told of a request agrees with what was sent, and its polls are those of the
\* present stall: the wait that gives up has seen no byte.
Told(r) == /\ pc[r] # "ended" => out[r] = "none"
           /\ pc[r] = "finishes" \/ out[r] = "complete" =>
                wanted(r) # Refused /\ pos[r] = wanted(r).end + 1
           /\ out[r] = "unsatisfiable" => wanted(r) = Refused
           /\ waited[r] \in Nat /\ stalled[r] \in Nat /\ waited[r] <= stalled[r]
           /\ out[r] = "stalled" => Wait <= stalled[r]

\* The requests that hold a reservation.
Reserved == {r \in Reader : pc[r] \notin {"idle", "prepares", "ended"}}

Counted == IsFiniteSet(Reserved) /\ active = Cardinality(Reserved)

Shaped == /\ waited = [r \in Reader |-> waited[r]] /\ stalled = [r \in Reader |-> stalled[r]]
          /\ out = [r \in Reader |-> out[r]]

TInv == Inv /\ Shaped /\ Counted /\ \A r \in Reader : Told(r)

Outside == {"idle", "prepares", "ended"}

\* What a step of one request does to the accounts.
Reckons(r) == /\ Shaped' /\ Counted' /\ Told(r)'
              /\ \A q \in Reader \ {r} : out'[q] = out[q] /\ waited'[q] = waited[q] /\ stalled'[q] = stalled[q]

\* The reservations, when a request neither gains nor loses one.
LEMMA CountStays ==
  ASSUME NEW r \in Reader, Counted, Alone(r), active' = active,
         pc[r] \in Outside <=> pc'[r] \in Outside
  PROVE  Counted'
<1>1. Reserved' = Reserved
  BY DEF Reserved, Alone, Outside
<1> QED BY <1>1 DEF Counted

\* A request goes on, at the same header.
LEMMA GoingOnIsTold ==
  ASSUME NEW r \in Reader, TInv, Alone(r),
         pc[r] \notin Outside, pc'[r] \notin Outside,
         UNCHANGED <<ask, out, active>>,
         waited' = [waited EXCEPT ![r] = waited'[r]], stalled' = [stalled EXCEPT ![r] = stalled'[r]],
         \/ waited'[r] = waited[r] /\ stalled'[r] = stalled[r]
         \/ waited'[r] = waited[r] + 1 /\ stalled'[r] = stalled[r] + 1
         \/ waited'[r] = 0 /\ stalled'[r] \in {0, stalled[r]},
         pc'[r] = "finishes" => wanted(r) # Refused /\ pos'[r] = wanted(r).end + 1
  PROVE  Reckons(r)
<1>1. Counted'
  BY CountStays DEF TInv
<1>2. Shaped'
  BY DEF TInv, Shaped
<1>3. \A q \in Reader \ {r} : out'[q] = out[q] /\ waited'[q] = waited[q] /\ stalled'[q] = stalled[q]
  BY DEF TInv, Shaped
<1>4. out'[r] = "none" /\ waited[r] \in Nat /\ stalled[r] \in Nat /\ waited[r] <= stalled[r]
  BY DEF TInv, Told, Outside
<1>5. wanted(r)' = wanted(r)
  BY DEF wanted
<1>6. waited'[r] \in Nat /\ stalled'[r] \in Nat /\ waited'[r] <= stalled'[r]
  BY <1>4
<1>7. Told(r)'
  BY <1>4, <1>5, <1>6 DEF Told
<1> QED BY <1>1, <1>2, <1>3, <1>7 DEF Reckons

\* A request ends: complete when everything is sent, refused by its range when nothing
\* can be, given up when a whole wait has passed.
LEMMA EndIsTold ==
  ASSUME NEW r \in Reader, NEW how, TInv, UNCHANGED world, Ends(r, how),
         pc[r] \notin Outside,
         how = "complete" => pc[r] = "finishes",
         how = "unsatisfiable" => wanted(r) = Refused,
         how = "stalled" => waited[r] = Wait
  PROVE  Reckons(r)
<1>1. /\ out' = [out EXCEPT ![r] = how] /\ active' = active - 1
      /\ UNCHANGED <<ask, pos, waited, stalled>>
      /\ out'[r] = how
  BY DEF Ends, TInv, Shaped
<1>2. /\ pc'[r] = "ended" /\ \A q \in Reader \ {r} : pc'[q] = pc[q]
  BY DEF Ends, Goes, TInv, Inv, Typed
<1>3. Counted'
  <2>1. Reserved' = Reserved \ {r} /\ r \in Reserved
    BY <1>2 DEF Reserved, Outside
  <2>2. IsFiniteSet(Reserved) /\ active = Cardinality(Reserved)
    BY DEF TInv, Counted
  <2>3. IsFiniteSet(Reserved \ {r}) /\ Cardinality(Reserved \ {r}) = Cardinality(Reserved) - 1
    BY <2>1, <2>2, FS_RemoveElement
  <2> QED BY <1>1, <2>1, <2>2, <2>3 DEF Counted
<1>4. Shaped'
  BY <1>1 DEF TInv, Shaped
<1>5. \A q \in Reader \ {r} : out'[q] = out[q] /\ waited'[q] = waited[q] /\ stalled'[q] = stalled[q]
  BY <1>1
<1>6. Told(r)'
  <2>1. Told(r)
    BY DEF TInv
  <2>2. wanted(r)' = wanted(r)
    BY <1>1 DEF wanted
  <2> QED BY <1>1, <1>2, <2>1, <2>2 DEF Told
<1> QED BY <1>3, <1>4, <1>5, <1>6 DEF Reckons

\* Before anything is sent.
LEMMA OpeningIsTold ==
  ASSUME NEW r \in Reader, TInv, UNCHANGED world, Alone(r),
         \/ \E h \in Header : Requests(r, h)
         \/ PrepareFails(r) \/ Prepared(r) \/ Clips(r) \/ Opening(r)
  PROVE  Reckons(r)
<1> USE DEF Outside
<1>a. /\ Told(r) /\ Shaped /\ Counted /\ Typed
  BY DEF TInv, Inv
<1>1. CASE \E h \in Header : Requests(r, h)
  <2>1. /\ pc[r] = "idle" /\ pc'[r] = "prepares"
        /\ UNCHANGED <<pos, waited, stalled, out, active>>
    BY <1>1, <1>a DEF Requests, Goes, Typed
  <2>2. Counted'
    BY <2>1, <1>a, CountStays
  <2>3. Told(r)'
    BY <2>1, <1>a DEF Told
  <2> QED BY <2>1, <2>2, <2>3, <1>a DEF Reckons, Shaped
<1>2. CASE PrepareFails(r)
  <2>1. /\ pc[r] = "prepares" /\ pc'[r] = "ended"
        /\ UNCHANGED <<ask, pos, waited, stalled, active>>
    BY <1>2, <1>a DEF PrepareFails, Goes, Typed
  <2>2. PICK how \in {"clip", "refused", "gone"} : out' = [out EXCEPT ![r] = how]
    BY <1>2 DEF PrepareFails
  <2>3. Counted'
    BY <2>1, <1>a, CountStays
  <2>4. out'[r] = how
    BY <2>2, <1>a DEF Shaped
  <2>5. Told(r)'
    BY <2>1, <2>4, <1>a DEF Told
  <2> QED BY <2>1, <2>2, <2>3, <2>5, <1>a DEF Reckons, Shaped
<1>3. CASE Prepared(r)
  <2>1. /\ pc[r] = "prepares" /\ pc'[r] \in {"clips", "opens"} /\ active' = active + 1
        /\ waited' = [waited EXCEPT ![r] = 0]
        /\ UNCHANGED <<ask, pos, stalled, out>>
    BY <1>3, <1>a DEF Prepared, Goes, Starts, Typed, Safe, TInv, Inv, Waiting
  <2>2. Counted'
    <3>1. Reserved' = Reserved \cup {r} /\ r \notin Reserved
      BY <2>1 DEF Reserved, Alone
    <3>2. IsFiniteSet(Reserved \cup {r}) /\ Cardinality(Reserved \cup {r}) = Cardinality(Reserved) + 1
      BY <3>1, <1>a, FS_AddElement DEF Counted
    <3> QED BY <2>1, <3>1, <3>2, <1>a DEF Counted
  <2>3. waited'[r] = 0
    BY <2>1, <1>a DEF Shaped
  <2>4. Told(r)'
    BY <2>1, <2>3, <1>a DEF Told
  <2> QED BY <2>1, <2>2, <2>4, <1>a DEF Reckons, Shaped
<1>4. CASE Clips(r)
  <2>1. pc[r] = "clips" /\ Ends(r, "clip")
    BY <1>4 DEF Clips
  <2> QED BY <2>1, EndIsTold
<1>5. CASE Opens(r) \/ OpensOld(r)
  <2>1. CASE pc[r] = "opens" /\ Ends(r, "refused")
    BY <2>1, EndIsTold
  <2>2. CASE ~(pc[r] = "opens" /\ Ends(r, "refused"))
    <3>1. /\ pc[r] = "opens" /\ pc'[r] = "serves"
          /\ UNCHANGED <<ask, pos, waited, stalled, out, active>>
      BY <1>5, <2>2, <1>a DEF Opens, OpensOld, Goes, Typed
    <3> QED BY <3>1, <1>a, GoingOnIsTold DEF Shaped
  <2> QED BY <2>1, <2>2
<1>6. CASE NotFound(r)
  <2>1. pc[r] = "opens"
    BY <1>6 DEF NotFound
  <2>2. CASE Ends(r, "not_mounted") \/ (waited[r] = Wait /\ Ends(r, "stalled"))
    BY <2>1, <2>2, EndIsTold
  <2>3. CASE Polls(r) /\ Goes(r, "probes") /\ UNCHANGED <<ask, file, look, opened, gate, pos, out, active>>
    <3>1. /\ pc'[r] = "probes"
          /\ waited' = [waited EXCEPT ![r] = waited[r] + 1] /\ stalled' = [stalled EXCEPT ![r] = stalled[r] + 1]
          /\ UNCHANGED <<ask, pos, out, active>>
      BY <2>3, <1>a DEF Polls, Goes, Typed
    <3>2. waited'[r] = waited[r] + 1 /\ stalled'[r] = stalled[r] + 1
      BY <3>1, <1>a DEF Shaped
    <3> QED BY <2>1, <3>1, <3>2, GoingOnIsTold
  <2> QED BY <1>6, <2>2, <2>3 DEF NotFound, GivesUp
<1>7. CASE Probes(r)
  <2>1. pc[r] = "probes"
    BY <1>7 DEF Probes
  <2>2. CASE Ends(r, "refused")
    BY <2>1, <2>2, EndIsTold
  <2>3. CASE ~Ends(r, "refused")
    <3>1. /\ pc'[r] = "opens" /\ UNCHANGED <<ask, pos, waited, stalled, out, active>>
      BY <1>7, <2>3, <1>a DEF Probes, Goes, Typed
    <3> QED BY <2>1, <3>1, <1>a, GoingOnIsTold DEF Shaped
  <2> QED BY <2>2, <2>3
<1> QED BY <1>1, <1>2, <1>3, <1>4, <1>5, <1>6, <1>7 DEF Opening

\* While it is sent: every response that ends as complete ends where its range does.
LEMMA SendingIsTold ==
  ASSUME NEW r \in Reader, TInv, UNCHANGED world, Alone(r),
         Sending(r) \/ Buffering(r) \/ Taken(r)
  PROVE  Reckons(r)
<1> USE DEF Outside
<1>a. /\ Told(r) /\ Shaped /\ Counted /\ Typed /\ Safe(r)
  BY DEF TInv, Inv
<1>b. ASSUME pc[r] \notin Outside, NEW how \in {"clip", "head", "gone", "cut"}, Ends(r, how)
      PROVE  Reckons(r)
  BY <1>b, EndIsTold
<1>c. ASSUME pc[r] \notin Outside, GivesUp(r)
      PROVE  Reckons(r)
  BY <1>c, EndIsTold DEF GivesUp
<1>d. ASSUME pc[r] \notin Outside, Polls(r), UNCHANGED <<ask, out, active>>,
             pc'[r] \notin Outside \cup {"finishes"}
      PROVE  Reckons(r)
  <2>1. waited' = [waited EXCEPT ![r] = waited[r] + 1] /\ stalled' = [stalled EXCEPT ![r] = stalled[r] + 1]
    BY <1>d DEF Polls
  <2>2. waited'[r] = waited[r] + 1 /\ stalled'[r] = stalled[r] + 1
    BY <2>1, <1>a DEF Shaped
  <2> QED BY <1>d, <2>1, <2>2, GoingOnIsTold
<1>e. ASSUME pc[r] \notin Outside, Starts(r), UNCHANGED <<stalled, ask, out, active>>,
             pc'[r] \notin Outside \cup {"finishes"}
      PROVE  Reckons(r)
  <2>1. waited' = [waited EXCEPT ![r] = 0]
    BY <1>e DEF Starts
  <2>2. waited'[r] = 0
    BY <2>1, <1>a DEF Shaped
  <2> QED BY <1>e, <2>1, <2>2, <1>a, GoingOnIsTold DEF Shaped
<1>f. ASSUME pc[r] \notin Outside, UNCHANGED <<waited, stalled, ask, out, active>>,
             pc'[r] \notin Outside \cup {"finishes"}
      PROVE  Reckons(r)
  BY <1>f, <1>a, GoingOnIsTold DEF Shaped
<1>1. CASE Serves(r)
  <2>1. pc[r] = "serves"
    BY <1>1 DEF Serves
  <2>2. CASE wanted(r) = Refused
    BY <1>1, <2>1, <2>2, EndIsTold DEF Serves
  <2>3. CASE wanted(r) # Refused
    <3>1. /\ pc'[r] \in {"copies", "gates"}
          /\ waited' = [waited EXCEPT ![r] = 0] /\ stalled' = [stalled EXCEPT ![r] = 0]
          /\ UNCHANGED <<ask, out, active>>
      BY <1>1, <2>3, <1>a DEF Serves, Starts, Goes, Typed
    <3>2. waited'[r] = 0 /\ stalled'[r] = 0
      BY <3>1, <1>a DEF Shaped
    <3> QED BY <2>1, <3>1, <3>2, GoingOnIsTold
  <2> QED BY <2>2, <2>3
<1>2. CASE Heads(r) \/ CheckFails(r) \/ Disconnects(r)
  BY <1>2, <1>b DEF Heads, CheckFails, Disconnects
<1>3. CASE Finishes(r)
  BY <1>3, EndIsTold DEF Finishes
<1>4. CASE Copies(r)
  <2>1. /\ pc[r] = "copies" /\ pc'[r] = "finishes"
        /\ pos' = [pos EXCEPT ![r] = wanted(r).end + 1]
        /\ UNCHANGED <<ask, waited, stalled, out, active>>
    BY <1>4, <1>a DEF Copies, Goes, Typed
  <2>2. pos'[r] = wanted(r).end + 1
    BY <2>1, <1>a DEF Typed
  <2>3. wanted(r) # Refused
    BY <2>1, <1>a DEF Safe, Served
  <2> QED BY <2>1, <2>2, <2>3, <1>a, GoingOnIsTold DEF Shaped
<1>5. CASE Reads(r)
  <2>1. /\ pc[r] = "reads" /\ pc'[r] = (IF last(r) = wanted(r).end THEN "finishes" ELSE "checks")
        /\ pos' = [pos EXCEPT ![r] = last(r) + 1]
        /\ waited' = [waited EXCEPT ![r] = 0] /\ stalled' = [stalled EXCEPT ![r] = 0]
        /\ UNCHANGED <<ask, out, active>>
    BY <1>5, <1>a DEF Reads, Goes, Starts, Typed
  <2>2. pos'[r] = last(r) + 1
    BY <2>1, <1>a DEF Typed
  <2>3. wanted(r) # Refused
    BY <2>1, <1>a DEF Safe, Served
  <2>4. waited'[r] = 0 /\ stalled'[r] = 0
    BY <2>1, <1>a DEF Shaped
  <2>5. pc'[r] = "finishes" => wanted(r) # Refused /\ pos'[r] = wanted(r).end + 1
    BY <2>1, <2>2, <2>3
  <2>6. pc'[r] \notin Outside
    BY <2>1
  <2> QED BY <2>1, <2>4, <2>5, <2>6, GoingOnIsTold
<1>6. CASE ReadsShort(r)
  BY <1>6, <1>c, <1>d DEF ReadsShort
<1>7. CASE Gates(r)
  <2>1. pc[r] = "gates" /\ pc'[r] = "checks" /\ Starts(r) /\ UNCHANGED <<stalled, ask, out, active>>
    BY <1>7, <1>a DEF Gates, Goes, Typed
  <2> QED BY <2>1, <1>e
<1>8. CASE GateWaits(r)
  <2>1. CASE GivesUp(r)
    BY <1>8, <2>1, <1>c DEF GateWaits
  <2>2. CASE ~GivesUp(r)
    <3>1. pc[r] = "gates" /\ pc'[r] = "reprobes" /\ Polls(r) /\ UNCHANGED <<ask, out, active>>
      BY <1>8, <2>2, <1>a DEF GateWaits, Goes, Typed
    <3> QED BY <3>1, <1>d
  <2> QED BY <2>1, <2>2
<1>9. CASE Reprobes(r)
  <2>1. pc[r] = "reprobes" /\ pc'[r] = "gates" /\ UNCHANGED <<waited, stalled, ask, out, active>>
    BY <1>9, <1>a DEF Reprobes, Goes, Typed
  <2> QED BY <2>1, <1>f
<1>10. CASE ChecksCached(r) \/ Checks(r)
  <2>1. pc[r] = "checks"
    BY <1>10 DEF ChecksCached, Checks
  <2>2. GivesUp(r) \/ \E s : GateReady(r, s) \/ GateBlocks(r, s)
    BY <1>10 DEF ChecksCached, Checks
  <2>3. CASE GivesUp(r)
    BY <2>1, <2>3, <1>c
  <2>4. ASSUME NEW s, GateReady(r, s) PROVE Reckons(r)
    <3>1. pc'[r] = "reads" /\ Starts(r) /\ UNCHANGED <<stalled, ask, out, active>>
      BY <2>4, <1>a DEF GateReady, Goes, Typed
    <3> QED BY <2>1, <3>1, <1>e
  <2>5. ASSUME NEW s, GateBlocks(r, s) PROVE Reckons(r)
    <3>1. pc'[r] = "checks" /\ Polls(r) /\ UNCHANGED <<ask, out, active>>
      BY <2>1, <2>5 DEF GateBlocks
    <3> QED BY <2>1, <3>1, <1>d
  <2> QED BY <2>2, <2>3, <2>4, <2>5
<1> QED BY <1>1, <1>2, <1>3, <1>4, <1>5, <1>6, <1>7, <1>8, <1>9, <1>10 DEF Sending, Buffering, Taken

\* A request that does not move has nothing else told of it.
LEMMA StillTold ==
  ASSUME NEW q \in Reader, Told(q), pc'[q] = pc[q], ask'[q] = ask[q], pos'[q] = pos[q],
         out'[q] = out[q], waited'[q] = waited[q], stalled'[q] = stalled[q]
  PROVE  Told(q)'
<1>1. wanted(q)' = wanted(q)
  BY DEF wanted
<1> QED BY <1>1 DEF Told

\* What is told, counted and waited is kept by every step.
LEMMA ToldAlways == Spec => []TInv
<1>1. Init => TInv
  <2> SUFFICES ASSUME Init PROVE TInv
    OBVIOUS
  <2>1. Shaped
    BY DEF Init, Shaped
  <2>2. Counted
    <3>1. Reserved = {} /\ active = 0
      BY DEF Init, Reserved
    <3> QED BY <3>1, FS_EmptySet DEF Counted
  <2>3. ASSUME NEW r \in Reader PROVE Told(r)
    <3>1. pc[r] = "idle" /\ out[r] = "none" /\ waited[r] = 0 /\ stalled[r] = 0
      BY DEF Init
    <3> QED BY <3>1 DEF Told
  <2> QED BY <2>1, <2>2, <2>3, InitInv DEF TInv
<1>2. TInv /\ [Next]_vars => TInv'
  <2> SUFFICES ASSUME TInv, [Next]_vars PROVE TInv'
    OBVIOUS
  <2>a. Inv'
    BY StepInv DEF TInv
  <2>1. CASE UNCHANGED reader
    <3>1. UNCHANGED <<pc, ask, pos, out, waited, stalled, active>>
      BY <2>1 DEF reader
    <3>2. Shaped' /\ Counted'
      BY <3>1 DEF TInv, Shaped, Counted, Reserved
    <3>3. \A q \in Reader : Told(q)'
      BY <3>1, StillTold DEF TInv
    <3> QED BY <2>a, <3>2, <3>3 DEF TInv
  <2>2. ASSUME NEW r \in Reader, UNCHANGED world,
               (\E h \in Header : Requests(r, h)) \/ Goeson(r) \/ Taken(r)
        PROVE  TInv'
    <3>1. Alone(r)
      BY <2>2, OpeningIsSafe, SendingIsSafe DEF Goeson, TInv
    <3>2. Reckons(r)
      BY <2>2, <3>1, OpeningIsTold, SendingIsTold DEF Goeson
    <3>3. ASSUME NEW q \in Reader \ {r} PROVE Told(q)'
      BY <3>1, <3>2, StillTold DEF TInv, Alone, Reckons
    <3> QED BY <2>a, <3>2, <3>3 DEF TInv, Reckons
  <2> QED BY <2>1, <2>2 DEF Next, Client, vars
<1> QED BY <1>1, <1>2, PTL DEF Spec

\* A response that ends regularly has sent every byte it was asked for, and 416 is the
\* answer to headers that ask for none: HonestEnd, for every file and header.
THEOREM EndsAreHonest == Spec => []HonestEnd
<1>1. TInv => HonestEnd
  <2> SUFFICES ASSUME TInv, NEW r \in Reader
               PROVE  /\ out[r] = "complete" => Sent(r) = Asked(ask[r], FileSize)
                      /\ out[r] = "unsatisfiable" => Asked(ask[r], FileSize) = {}
    BY DEF HonestEnd
  <2>1. Told(r) /\ ask[r] \in Header \cup {NoRange}
    BY DEF TInv, Inv, Typed
  <2>2. IF wanted(r) = Refused THEN Asked(ask[r], FileSize) = {}
        ELSE /\ wanted(r).end \in Nat
             /\ Asked(ask[r], FileSize) = wanted(r).start..wanted(r).end
    BY <2>1, RangesAreHonoured, HeaderAssumption, SizeAssumption DEF wanted
  <2>3. CASE out[r] = "complete"
    <3>1. wanted(r) # Refused /\ pos[r] = wanted(r).end + 1 /\ wanted(r).end \in Nat
      BY <2>1, <2>2, <2>3 DEF Told
    <3>2. pos[r] - 1 = wanted(r).end
      BY <3>1
    <3> QED BY <2>2, <2>3, <3>1, <3>2 DEF Sent
  <2>4. CASE out[r] = "unsatisfiable"
    BY <2>1, <2>2, <2>4 DEF Told
  <2> QED BY <2>3, <2>4
<1> QED BY <1>1, ToldAlways, PTL

\* The count that keeps the sweep away is that of the requests being served, however
\* each of them ends: ReservationsExact, for any number of requests.
THEOREM ReservationsAreExact == Spec => []ReservationsExact
<1>1. TInv => ReservationsExact
  BY DEF TInv, Counted, Reserved, ReservationsExact
<1> QED BY <1>1, ToldAlways, PTL

\* A stream is given up only after a whole wait without a byte: PatientWithStalls, for
\* every wait.
THEOREM StallsAreWaitedOut == Spec => []PatientWithStalls
<1>1. TInv => PatientWithStalls
  BY SizeAssumption DEF TInv, Told, PatientWithStalls
<1> QED BY <1>1, ToldAlways, PTL
=============================================================================
