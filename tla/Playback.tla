------------------------------ MODULE Playback ------------------------------
(***************************************************************************)
(* Requests that play one file (src/playback/index.ts, serve.ts,           *)
(* pieces.ts, paths.ts) while the client downloads, checks, moves or loses *)
(* it.  A step is what happens between two awaits.  Preparation is one     *)
(* step here: Lifecycle has its details.                                   *)
(***************************************************************************)
EXTENDS Pieces, FiniteSets

CONSTANTS Reader,       \* requests
          Header,       \* Range headers, as [first, last], and NoRange
          FileSize, PieceSize,
          Chunk,        \* bytes that are read at once: 64 KiB
          Wait,         \* polls after which a wait gives up: waitMs / 500 ms
          streamWhileDownloading,
          TempDir       \* the client keeps incomplete torrents in a directory of their own

ASSUME SizeAssumption == /\ {FileSize, PieceSize, Chunk} \subseteq Nat \ {0}
                         /\ Wait \in Nat
                         /\ {streamWhileDownloading, TempDir} \subseteq BOOLEAN

ASSUME HeaderAssumption ==
  /\ Header \subseteq [first : Nat \cup {Blank}, last : Nat \cup {Blank}] \cup {NoRange}
  /\ NoRange \notin [first : Nat \cup {Blank}, last : Nat \cup {Blank}]
  /\ Blank \notin Nat
  /\ Refused \notin [start : Nat, end : Nat]

Layout(o) == <<0, (o + FileSize - 1) \div PieceSize>>
Piece(o)  == 0..Layout(o)[2]

VARIABLES
  offset,       \* where in its first piece the file begins; only the client knows
  verified,     \* pieces the client has verified
  ever,         \* history: pieces that have been verified at some time
  eof,          \* bytes of the file that are visible on disk
  known,        \* the client tells the pieces of the file
  torrent,      \* "downloading", "checking" (or moving), "error", "lost" (removed or not ours)
  place, rest,  \* the directory the file is in; whether the other wanted files are complete
  pc, ask,      \* each request: where it is, its header
  file,         \* state.file: progress and whether its pieces are known
  look,         \* the directory openTorrentFile looks in
  opened,       \* whose file is open
  gate,         \* the verified pieces by the states the gate holds
  pos, waited,  \* position; polls of the present wait
  stalled,      \* history: polls since the last byte
  out, active   \* the outcome; the count of playback/active.ts

world  == <<offset, verified, ever, eof, known, torrent, place, rest>>
reader == <<pc, ask, file, look, opened, gate, pos, waited, stalled, out, active>>
vars   == <<world, reader>>

whole == verified = Piece(offset)
progress == IF whole THEN "whole" ELSE IF verified = {} THEN "none" ELSE "part"
-----------------------------------------------------------------------------
Init == /\ offset \in 0..(PieceSize - 1)
        /\ verified = {} /\ ever = {}
        /\ eof = 0
        /\ known \in BOOLEAN
        /\ torrent = "downloading"
        /\ place = IF TempDir THEN "temp" ELSE "final"
        /\ rest \in BOOLEAN
        /\ pc = [r \in Reader |-> "idle"]
        /\ ask = [r \in Reader |-> NoRange]
        /\ file = [r \in Reader |-> [progress |-> "none", layout |-> FALSE]]
        /\ look = [r \in Reader |-> "final"]
        /\ opened = [r \in Reader |-> "none"]
        /\ gate = [r \in Reader |-> {}]
        /\ pos = [r \in Reader |-> 0]
        /\ waited = [r \in Reader |-> 0]
        /\ stalled = [r \in Reader |-> 0]
        /\ out = [r \in Reader |-> "none"]
        /\ active = 0
-----------------------------------------------------------------------------
(* The client.                                                             *)

Verifies(p) == /\ torrent = "downloading" /\ p \notin verified
               /\ verified' = verified \cup {p}
               /\ ever' = ever \cup {p}
               /\ UNCHANGED <<offset, eof, known, torrent, place, rest>>

\* The file grows on disk, before or after what is in it is verified; it may be
\* allocated whole.
Grows(n) == /\ torrent = "downloading" /\ eof < n
            /\ eof' = n
            /\ UNCHANGED <<offset, verified, ever, known, torrent, place, rest>>

Tells == /\ ~known /\ known' = TRUE
         /\ UNCHANGED <<offset, verified, ever, eof, torrent, place, rest>>

Rechecks == /\ torrent = "downloading" /\ torrent' = "checking"
            /\ UNCHANGED <<offset, verified, ever, eof, known, place, rest>>

\* A check may find pieces bad.
Checked(S) == /\ torrent = "checking" /\ torrent' = "downloading"
              /\ verified' = verified \ S
              /\ UNCHANGED <<offset, ever, eof, known, place, rest>>

Breaks(to) == /\ torrent \in {"downloading", "checking"} /\ torrent' = to
              /\ UNCHANGED <<offset, verified, ever, eof, known, place, rest>>

RestCompletes == /\ ~rest /\ rest' = TRUE
                 /\ UNCHANGED <<offset, verified, ever, eof, known, torrent, place>>

\* Torrents are moved when they are complete, all of their wanted files are.
Moves == /\ place = "temp" /\ whole /\ rest /\ eof = FileSize
         /\ place' = "final"
         /\ UNCHANGED <<offset, verified, ever, eof, known, torrent, rest>>

Client == /\ \/ \E p \in Piece(offset) : Verifies(p)
             \/ \E n \in 1..FileSize : Grows(n)
             \/ Tells \/ Rechecks
             \/ \E S \in SUBSET verified : Checked(S)
             \/ \E to \in {"error", "lost"} : Breaks(to)
             \/ RestCompletes \/ Moves
          /\ UNCHANGED reader
-----------------------------------------------------------------------------
(* A request.                                                              *)

wanted(r) == parseRange(ask[r], FileSize)

last(r)   == Smaller(pos[r] + Chunk - 1, wanted(r).end)
required(r) == LET q == requiredPieces(Layout(offset), PieceSize, pos[r], last(r), FileSize)
               IN  q[1]..q[2]

Goes(r, to) == pc' = [pc EXCEPT ![r] = to]
Starts(r)   == waited' = [waited EXCEPT ![r] = 0]

Polls(r)    == /\ waited[r] < Wait
               /\ waited' = [waited EXCEPT ![r] = @ + 1]
               /\ stalled' = [stalled EXCEPT ![r] = @ + 1]

\* The finally of handlePlay.
Ends(r, how) == /\ Goes(r, "ended")
                /\ out' = [out EXCEPT ![r] = how]
                /\ gate' = [gate EXCEPT ![r] = {}]
                /\ active' = active - 1
                /\ UNCHANGED <<ask, file, look, opened, pos, waited, stalled>>

GivesUp(r) == waited[r] = Wait /\ Ends(r, "stalled")

Requests(r, h) == /\ pc[r] = "idle"
                  /\ Goes(r, "prepares")
                  /\ ask' = [ask EXCEPT ![r] = h]
                  /\ UNCHANGED <<file, look, opened, gate, pos, waited, stalled, out, active>>

\* ensureTransfer fails, or answers no_metadata and the clip is shown; nothing was
\* reserved.
PrepareFails(r) == /\ pc[r] = "prepares"
                   /\ Goes(r, "ended")
                   /\ \E how \in {"clip", "refused", "gone"} : out' = [out EXCEPT ![r] = how]
                   /\ UNCHANGED <<ask, file, look, opened, gate, pos, waited, stalled, active>>

\* openTorrentFile takes the directory from the progress of the file.
directory(p) == IF p # "whole" /\ TempDir THEN "temp" ELSE "final"

\* onReady reserves the title.  What is incomplete is streamed only on request, and
\* not before it has begun.
Prepared(r) == /\ pc[r] = "prepares"
               /\ torrent # "lost"
               /\ active' = active + 1
               /\ file' = [file EXCEPT ![r] = [progress |-> progress, layout |-> known]]
               /\ look' = [look EXCEPT ![r] = directory(progress)]
               /\ Goes(r, IF \/ progress = "none"
                             \/ progress = "part" /\ ~streamWhileDownloading THEN "clips" ELSE "opens")
               /\ Starts(r)
               /\ UNCHANGED <<ask, opened, gate, pos, stalled, out>>

\* Mutant: the clip returns without giving the reservation back.
ClipsForGood(r) == /\ pc[r] = "clips"
                   /\ Goes(r, "ended")
                   /\ out' = [out EXCEPT ![r] = "clip"]
                   /\ UNCHANGED <<ask, file, look, opened, gate, pos, waited, stalled, active>>

Clips(r) == pc[r] = "clips" /\ Ends(r, "clip")

\* The file has to be there; a complete one has to have its size.
Opens(r) == /\ pc[r] = "opens"
            /\ place = look[r] /\ eof > 0
            /\ IF file[r].progress = "whole" /\ eof # FileSize
               THEN Ends(r, "refused")
               ELSE /\ opened' = [opened EXCEPT ![r] = "own"]
                    /\ Goes(r, "serves")
                    /\ UNCHANGED <<ask, file, look, gate, pos, waited, stalled, out, active>>

\* An earlier download may have left a file of this name and size.
OpensOld(r) == /\ pc[r] = "opens"
               /\ look[r] = "final" /\ place = "temp"
               /\ opened' = [opened EXCEPT ![r] = "old"]
               /\ Goes(r, "serves")
               /\ UNCHANGED <<ask, file, look, gate, pos, waited, stalled, out, active>>

\* ENOENT, the client has moved or deleted it: it is an error for a complete file; for
\* another the client is asked again.
NotFound(r) == /\ pc[r] = "opens"
               /\ place # look[r] \/ eof = 0 \/ torrent = "lost"
               /\ IF file[r].progress = "whole" THEN Ends(r, "not_mounted")
                  ELSE \/ GivesUp(r)
                       \/ /\ Polls(r)
                          /\ Goes(r, "probes")
                          /\ UNCHANGED <<ask, file, look, opened, gate, pos, out, active>>

Probes(r) == /\ pc[r] = "probes"
             /\ \/ Ends(r, "refused")       \* a call fails, or the torrent is lost
                \/ /\ torrent # "lost"
                   /\ look' = [look EXCEPT ![r] = directory(progress)]
                   /\ Goes(r, "opens")
                   /\ UNCHANGED <<ask, file, opened, gate, pos, waited, stalled, out, active>>

\* Headers: 416, or the range that is going to be sent.
Serves(r) == /\ pc[r] = "serves"
             /\ IF wanted(r) = Refused THEN Ends(r, "unsatisfiable")
                ELSE /\ pos' = [pos EXCEPT ![r] = wanted(r).start]
                     /\ stalled' = [stalled EXCEPT ![r] = 0]
                     /\ Starts(r)
                     /\ Goes(r, IF file[r].progress = "whole" THEN "copies" ELSE "gates")
                     /\ UNCHANGED <<ask, file, look, opened, gate, out, active>>

\* A HEAD request ends here.
Heads(r) == pc[r] = "serves" /\ wanted(r) # Refused /\ Ends(r, "head")

\* A complete file is piped.
Copies(r) == /\ pc[r] = "copies"
             /\ pos' = [pos EXCEPT ![r] = wanted(r).end + 1]
             /\ Goes(r, "finishes")
             /\ UNCHANGED <<ask, file, look, opened, gate, waited, stalled, out, active>>

\* pieceGate: the layout has to be known and plausible, the piece size to be told.
Gates(r) == /\ pc[r] = "gates"
            /\ file[r].layout /\ plausible(Layout(offset), PieceSize, FileSize)
            /\ gate' = [gate EXCEPT ![r] = {}]
            /\ Starts(r)
            /\ Goes(r, "checks")
            /\ UNCHANGED <<ask, file, look, opened, pos, stalled, out, active>>

\* waitForPieceGate: it is asked again, with the client's latest answers.
GateWaits(r) == /\ pc[r] = "gates"
                /\ \/ GivesUp(r)
                   \/ /\ Polls(r)
                      /\ Goes(r, "reprobes")
                      /\ UNCHANGED <<ask, file, look, opened, gate, pos, out, active>>

Reprobes(r) == /\ pc[r] = "reprobes"
               /\ \/ /\ torrent # "lost"
                     /\ file' = [file EXCEPT ![r].layout = known]
                     /\ Goes(r, "gates")
                     /\ UNCHANGED <<ask, look, opened, gate, pos, waited, stalled, out, active>>
                  \/ /\ Goes(r, "gates")        \* a call fails
                     /\ UNCHANGED <<ask, file, look, opened, gate, pos, waited, stalled, out, active>>

GateReady(r, s) == /\ required(r) \subseteq s
                   /\ Goes(r, "reads")
                   /\ Starts(r)
                   /\ UNCHANGED <<ask, file, look, opened, pos, stalled, out, active>>

GateBlocks(r, s) == /\ ~(required(r) \subseteq s)
                    /\ Polls(r)
                    /\ UNCHANGED <<pc, ask, file, look, opened, pos, out, active>>

\* States that were fetched less than half a second ago are used again.
ChecksCached(r) == /\ pc[r] = "checks"
                   /\ waited[r] = 0 /\ gate[r] # {}
                   /\ GateReady(r, gate[r]) \/ GateBlocks(r, gate[r])
                   /\ UNCHANGED gate

\* They are fetched: none are believed while the torrent is checked or moved, or
\* when the call fails.
Checks(r) == /\ pc[r] = "checks"
             /\ torrent \notin {"lost", "error"}
             /\ \E s \in {verified, {}} :
                  /\ torrent = "checking" => s = {}
                  /\ \/ /\ gate' = [gate EXCEPT ![r] = s]
                        /\ GateReady(r, s) \/ GateBlocks(r, s)
                     \/ ~(required(r) \subseteq s) /\ GivesUp(r)

\* The torrent is lost, or the client refuses to answer.
CheckFails(r) == pc[r] \in {"gates", "reprobes", "checks"} /\ Ends(r, "cut")

\* Mutant: one deadline for the whole stream.
ReadsOnBudget(r) == /\ pc[r] = "reads"
                    /\ eof > last(r)
                    /\ pos' = [pos EXCEPT ![r] = last(r) + 1]
                    /\ stalled' = [stalled EXCEPT ![r] = 0]
                    /\ Goes(r, IF last(r) = wanted(r).end THEN "finishes" ELSE "checks")
                    /\ UNCHANGED <<ask, file, look, opened, gate, waited, out, active>>

Reads(r) == /\ pc[r] = "reads"
            /\ eof > last(r)
            /\ pos' = [pos EXCEPT ![r] = last(r) + 1]
            /\ stalled' = [stalled EXCEPT ![r] = 0]
            /\ Starts(r)
            /\ Goes(r, IF last(r) = wanted(r).end THEN "finishes" ELSE "checks")
            /\ UNCHANGED <<ask, file, look, opened, gate, out, active>>

\* Mutant: the end of what is on disk is taken for the end of the file.
ReadsToEnd(r) == /\ pc[r] = "reads"
                 /\ eof <= last(r)
                 /\ Goes(r, "finishes")
                 /\ UNCHANGED <<ask, file, look, opened, gate, pos, waited, stalled, out, active>>

\* Mutant: bytes that are verified are waited for without end.
ReadsForever(r) == /\ pc[r] = "reads"
                   /\ eof <= last(r)
                   /\ Polls(r)
                   /\ UNCHANGED <<pc, ask, file, look, opened, gate, pos, out, active>>

\* What is verified may not be on disk yet: the missing bytes are waited for.
ReadsShort(r) == /\ pc[r] = "reads"
                 /\ eof <= last(r)
                 /\ \/ GivesUp(r)
                    \/ Polls(r) /\ UNCHANGED <<pc, ask, file, look, opened, gate, pos, out, active>>

Finishes(r) == pc[r] = "finishes" /\ Ends(r, "complete")

\* The player closes the connection, or does not take what is sent.
Disconnects(r) == pc[r] \notin {"idle", "prepares", "ended"} /\ Ends(r, "gone")

Opening(r)   == Opens(r) \/ OpensOld(r) \/ NotFound(r) \/ Probes(r)
Sending(r)   == Serves(r) \/ Heads(r) \/ Reads(r) \/ ReadsShort(r)
Buffering(r) == Gates(r) \/ GateWaits(r) \/ Reprobes(r) \/ ChecksCached(r) \/ Checks(r) \/ CheckFails(r)

\* Only the player, who may pause, sets the pace of these.
Taken(r) == Copies(r) \/ Finishes(r) \/ Disconnects(r)

\* What goes on by itself, since each call has a deadline.
Goeson(r) == PrepareFails(r) \/ Prepared(r) \/ Clips(r) \/ Opening(r) \/ Sending(r) \/ Buffering(r)

Next == \/ Client
        \/ \E r \in Reader : /\ \/ \E h \in Header : Requests(r, h)
                                \/ Goeson(r) \/ Taken(r)
                             /\ UNCHANGED world

Spec == Init /\ [][Next]_vars

FairSpec == Spec /\ \A r \in Reader : WF_vars(Goeson(r) /\ UNCHANGED world)
-----------------------------------------------------------------------------
\* Every variable keeps its type.
TypeOK == /\ offset \in 0..(PieceSize - 1)
          /\ verified \subseteq Piece(offset) /\ ever \subseteq Piece(offset)
          /\ eof \in 0..FileSize
          /\ {known, rest} \subseteq BOOLEAN
          /\ torrent \in {"downloading", "checking", "error", "lost"}
          /\ place \in {"temp", "final"}
          /\ pc \in [Reader -> {"idle", "prepares", "clips", "opens", "probes", "serves", "copies", "gates",
                                "reprobes", "checks", "reads", "finishes", "ended"}]
          /\ ask \in [Reader -> Header \cup {NoRange}]
          /\ file \in [Reader -> [progress : {"none", "part", "whole"}, layout : BOOLEAN]]
          /\ look \in [Reader -> {"temp", "final"}]
          /\ opened \in [Reader -> {"none", "own", "old"}]
          /\ gate \in [Reader -> SUBSET Piece(offset)]
          /\ pos \in [Reader -> 0..FileSize]
          /\ waited \in [Reader -> 0..Wait]
          /\ stalled \in [Reader -> 0..(3 * Wait)]
          /\ out \in [Reader -> {"none", "clip", "refused", "not_mounted", "unsatisfiable", "head",
                                 "stalled", "cut", "complete", "gone"}]
          /\ active \in 0..Cardinality(Reader)

Sent(r) == IF wanted(r) = Refused THEN {} ELSE wanted(r).start..(pos[r] - 1)

\* No byte is sent before the client has verified the piece it lies in, wherever in
\* its first piece the file begins, and however the torrent is checked or moved
\* meanwhile ("Debridarr reads only verified pieces", docs/playback.md:10).
NothingUnverified ==
  \A r \in Reader : opened[r] = "own" =>
    \A b \in Sent(r) : pieceOf(Layout(offset), PieceSize, offset, b) \in ever

\* A response that ends regularly has sent every byte that was asked for, never a
\* hole or a short read; 416 is for those that ask for none.
HonestEnd == \A r \in Reader : /\ out[r] = "complete" => Sent(r) = Asked(ask[r], FileSize)
                               /\ out[r] = "unsatisfiable" => Asked(ask[r], FileSize) = {}

\* The count that keeps the sweep away is the number of requests that are served,
\* however they end (playback/active.ts).
ReservationsExact ==
  active = Cardinality({r \in Reader : pc[r] \notin {"idle", "prepares", "ended"}})

\* A stream is given up only when it has not moved for a whole wait: neither the
\* wait for the layout nor that for earlier bytes counts ("the metadata acquisition
\* deadline must not expire a long playback", pieces.ts:66).
PatientWithStalls == \A r \in Reader : out[r] = "stalled" => stalled[r] >= Wait

\* Every request ends, with bytes that never come too, unless its player holds the last
\* of what was sent: its title may be swept again.
RequestsEnd == \A r \in Reader : pc[r] = "prepares" ~> pc[r] \in {"copies", "finishes", "ended"}

\* A complete file is not refused as not mounted while it is there ("Completed files
\* play normally regardless of this setting", docs/playback.md:12).
CompletedFilesPlay == \A r \in Reader : out[r] = "not_mounted" => ~(whole /\ eof = FileSize /\ place # look[r])
=============================================================================
