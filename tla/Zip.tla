-------------------------------- MODULE Zip --------------------------------
(***************************************************************************)
(* The archive of a transfer: streamTransferZip (src/playback/zip.ts) over *)
(* ZipWriter (src/archive/zip.ts).  It is written in one pass while the    *)
(* files are read, so everything is said before or after it is known, and  *)
(* the directory at the end has to find what was written by its position.  *)
(* Lengths stand for the fixed ones of the headers and of the names.       *)
(***************************************************************************)
EXTENDS Naturals, Sequences, FiniteSetsExt, Functions

CONSTANTS ZipFile,     \* files of the torrent
          MaxSize,     \* bound: sizes of files
          LocalLength, DescriptorLength, CentralLength

ASSUME ZipAssumption == /\ IsFiniteSet(ZipFile) /\ MaxSize \in Nat
                        /\ {LocalLength, DescriptorLength, CentralLength} \subseteq Nat

VARIABLES disk,     \* [ZipFile -> size of what is on disk, 0 when it is gone]
          zip       \* the request

zipVars == <<disk, zip>>

NoZip == [at |-> "none", entries |-> <<>>, number |-> 1, read |-> 0, local |-> 0,
          out |-> <<>>, offset |-> 0, listed |-> <<>>, start |-> 0, central |-> 0]

ZipInit == disk = [f \in ZipFile |-> MaxSize] /\ zip = NoZip

\* push: a piece of the archive, `len` long, that tells the reader `says`.
Pushed(z, kind, len, says) ==
  [z EXCEPT !.out = Append(@, [kind |-> kind, from |-> z.offset, len |-> len, says |-> says]),
            !.offset = @ + len]

Current(z) == z.entries[z.number]

\* The files that are complete, and selected if any such is; each with the size the
\* client has told.  The answer begins when all of them are known to the client.
StartsZip(files, sizes) ==
  /\ zip.at = "none" /\ files # <<>> /\ IsInjective(files)
  /\ \A i \in DOMAIN files : sizes[files[i]] \in 1..MaxSize
  /\ zip' = [NoZip EXCEPT !.at = "header",
                          !.entries = [i \in DOMAIN files |-> [file |-> files[i], size |-> sizes[files[i]]]]]
  /\ UNCHANGED disk

\* Mutant: the position of an entry is taken when its header is written.
WritesHeaderFirst ==
  /\ zip.at = "header"
  /\ zip' = LET z == Pushed(zip, "local", LocalLength, Current(zip))
            IN  [z EXCEPT !.local = z.offset, !.read = 0, !.at = "data"]
  /\ UNCHANGED disk

\* The header says the size, which is known; the checksum comes later.
WritesHeader ==
  /\ zip.at = "header"
  /\ zip' = [Pushed(zip, "local", LocalLength, Current(zip)) EXCEPT !.local = zip.offset, !.read = 0, !.at = "data"]
  /\ UNCHANGED disk

\* How far the file goes now, and no further than its size.
Readable(z) == IF disk[Current(z).file] < Current(z).size THEN disk[Current(z).file] ELSE Current(z).size

\* A chunk of the file.
WritesData ==
  /\ zip.at = "data" /\ zip.read < Readable(zip)
  /\ zip' = [Pushed(zip, "data", 1, Current(zip).file) EXCEPT !.read = @ + 1]
  /\ UNCHANGED disk

\* All of it has been read: the descriptor, and what the directory will say.
Described(z) ==
  [Pushed(z, "descriptor", DescriptorLength, z.read)
     EXCEPT !.listed = Append(@, [entry |-> Current(z), offset |-> z.local])]

\* The next entry follows, or finish begins.
WritesDescriptor ==
  /\ zip.at = "data" /\ zip.read >= Readable(zip) /\ zip.read = Current(zip).size
  /\ \/ /\ zip.number < Len(zip.entries)
        /\ zip' = [Described(zip) EXCEPT !.at = "header", !.number = zip.number + 1]
     \/ /\ zip.number = Len(zip.entries)
        /\ zip' = [Described(zip) EXCEPT !.at = "directory", !.start = Described(zip).offset]
  /\ UNCHANGED disk

\* It is not the size that was said, it cannot be opened, or the client has gone:
\* the connection is cut.
Cuts ==
  /\ zip.at \notin {"none", "sent", "cut"}
  /\ zip' = [zip EXCEPT !.at = "cut"]
  /\ UNCHANGED disk

\* finish: the directory, entry by entry.
WritesDirectory ==
  /\ zip.at = "directory" /\ zip.central < Len(zip.listed)
  /\ zip' = [Pushed(zip, "central", CentralLength, zip.listed[zip.central + 1]) EXCEPT !.central = @ + 1]
  /\ UNCHANGED disk

\* The end: the directory's position and size, and how many entries it has.
WritesEnd ==
  /\ zip.at = "directory" /\ zip.central = Len(zip.listed)
  /\ zip' = [Pushed(zip, "end", 1, [start |-> zip.start, size |-> zip.offset - zip.start,
                                     count |-> Len(zip.listed)]) EXCEPT !.at = "sent"]
  /\ UNCHANGED disk

\* The client rechecks, replaces or moves a file meanwhile.
FileChanges(f, size) == /\ zip.at \notin {"sent", "cut"}
                        /\ disk' = [disk EXCEPT ![f] = size]
                        /\ UNCHANGED zip

ZipNext == \/ \E n \in 1..Cardinality(ZipFile) : \E files \in [1..n -> ZipFile] : StartsZip(files, disk)
           \/ WritesHeader \/ WritesData \/ WritesDescriptor \/ WritesDirectory \/ WritesEnd \/ Cuts
           \/ \E f \in ZipFile, size \in 0..MaxSize : FileChanges(f, size)

ZipSpec == ZipInit /\ [][ZipNext]_zipVars
-----------------------------------------------------------------------------
PiecesOf(kind) == {i \in DOMAIN zip.out : zip.out[i].kind = kind}

\* Every piece begins where the one before it ends.
Contiguous == \A i \in DOMAIN zip.out :
                zip.out[i].from = IF i = 1 THEN 0 ELSE zip.out[i - 1].from + zip.out[i - 1].len

\* What an entry of the directory leads to: a header that says the same, behind it as
\* many bytes of that file as it says, and their descriptor.
LeadsTo(listed) ==
  \E h \in PiecesOf("local") :
    /\ zip.out[h].from = listed.offset /\ zip.out[h].says = listed.entry
    /\ \A k \in 1..listed.entry.size : zip.out[h + k].kind = "data" /\ zip.out[h + k].says = listed.entry.file
    /\ zip.out[h + listed.entry.size + 1].kind = "descriptor"

\* An archive that is sent to its end is one that can be read: the end leads to the
\* directory, the directory to a header for every file in turn, and behind each header
\* are as many bytes of the file as it says, whatever happened to the files under way;
\* any other one lacks its end (archive/zip.ts:94-97, 111-113).
ZipIntact ==
  /\ zip.at = "sent" <=> PiecesOf("end") # {}
  /\ zip.at = "sent" =>
       /\ Contiguous
       /\ \E d \in PiecesOf("central"), e \in PiecesOf("end") :
            LET end == zip.out[e].says IN
              /\ end.start = zip.out[d].from /\ end.start + end.size = zip.out[e].from
              /\ end.count = Len(zip.entries) /\ e = d + end.count
              /\ \A i \in 1..end.count :
                   LET c == zip.out[d + i - 1] IN
                     c.kind = "central" /\ c.says.entry = zip.entries[i] /\ LeadsTo(c.says)
=============================================================================
