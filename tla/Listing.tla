------------------------------ MODULE Listing ------------------------------
(***************************************************************************)
(* What clients are shown of the transfers: the list that every driver     *)
(* keeps (src/state/sqlite/downloads.ts, src/state/json/downloads.ts), the *)
(* pages of the native API, which go on from a cursor, and those of the    *)
(* stores, which go on from a number (src/api/v1/routes.ts, src/store/     *)
(* realdebrid.ts, src/store/routes.ts), and the tree of folders WebDAV     *)
(* makes of it (src/dav/tree.ts, src/dav/routes.ts).  A client asks for    *)
(* one page or folder after another, while titles come and go.             *)
(* A name is a sequence: a word, and the suffixes that were put to it.     *)
(***************************************************************************)
EXTENDS Orders, FiniteSetsExt, SequencesExt

CONSTANTS Id,        \* infohashes, numbers
          Word,      \* what names are made of, infohashes among them
          ShortId,   \* [Id -> its first eight digits]
          Name,      \* names of torrents
          Path,      \* paths of files, sequences of words
          PageSize,  \* limits a client asks for
          MaxClock   \* bound: milliseconds

\* No torrent's own name ends in the whole infohash of another.
ASSUME ListingAssumption ==
  /\ Id \subseteq Nat \ {0} /\ PageSize \subseteq Nat \ {0} /\ MaxClock \in Nat \ {0}
  /\ Id \subseteq Word /\ ShortId \in [Id -> Word \ Id]
  /\ Name \subseteq Seq(Word) /\ Path \subseteq Seq(STRING) \ {<<>>}
  /\ \A name, other \in Name, id \in Id : name # Append(other, id)

VARIABLES shelf,     \* the records in the order of the Map
          clock,
          walk       \* a client that reads page after page

listingVars == <<shelf, clock, walk>>

NoCursor == [added |-> 0, id |-> 0]
NoWalk == [at |-> "idle", kind |-> "cursor", limit |-> 0, cursor |-> NoCursor, offset |-> 0,
           seen |-> <<>>, stayed |-> {}, quiet |-> TRUE]

ListingInit == shelf = <<>> /\ clock = 1 /\ walk = NoWalk

Life == {"queued", "managed", "failed"}

IdsOf(items) == [i \in DOMAIN items |-> items[i].id]
Placed(id) == SelectInSeq(shelf, LAMBDA item : item.id = id)
Shown(item) == item.life \in {"queued", "managed"}

\* Some of the records, the newest first, in the order of the Map among equals.
Newest(places) ==
  LET order == InOrder([i \in places |-> {j \in places : \/ shelf[j].added > shelf[i].added
                                                         \/ shelf[j].added = shelf[i].added /\ j < i}])
  IN  [k \in DOMAIN order |-> shelf[order[k]]]

\* TransferService.list
TransferList == Newest({i \in DOMAIN shelf : Shown(shelf[i])})

\* What the walk of a client is told, when the shelf changes under it.
Under(newShelf) ==
  walk' = [walk EXCEPT !.stayed = {id \in @ : \E i \in DOMAIN newShelf : newShelf[i].id = id /\ Shown(newShelf[i])},
                       !.quiet = FALSE]
-----------------------------------------------------------------------------
\* Mutant: a title that is asked for again is as new as its request.
UpsertsFresh(id, name, life) ==
  LET item == [id |-> id, name |-> name, life |-> life, added |-> clock, files |-> {}]
  IN  /\ shelf' = IF Placed(id) = 0 THEN Append(shelf, item)
                  ELSE [shelf EXCEPT ![Placed(id)] = [item EXCEPT !.files = shelf[Placed(id)].files]]
      /\ Under(shelf')
      /\ UNCHANGED clock

\* A title is added, or another lifecycle is written: its place in the Map stays, and
\* so does addedAt.
Upserts(id, name, life) ==
  LET item == [id |-> id, name |-> name, life |-> life, added |-> clock, files |-> {}]
  IN  /\ shelf' = IF Placed(id) = 0 THEN Append(shelf, item)
                  ELSE [shelf EXCEPT ![Placed(id)].life = life]
      /\ Under(shelf')
      /\ UNCHANGED clock

Unshelves(id) == /\ Placed(id) # 0
                 /\ shelf' = RemoveAt(shelf, Placed(id))
                 /\ Under(shelf')
                 /\ UNCHANGED clock

\* A selected video is complete: it appears in the mount.
Completes(id, path) ==
  /\ Placed(id) # 0 /\ shelf[Placed(id)].life = "managed"
  /\ \A p \in shelf[Placed(id)].files : ~IsPrefix(p, path) /\ ~IsPrefix(path, p)
  /\ shelf' = [shelf EXCEPT ![Placed(id)].files = @ \cup {path}]
  /\ UNCHANGED <<clock, walk>>

ClockTicks == clock < MaxClock /\ clock' = clock + 1 /\ UNCHANGED <<shelf, walk>>
-----------------------------------------------------------------------------
Newer(a, b) == a.added > b.added \/ (a.added = b.added /\ a.id < b.id)

\* Mutant: the cursor is the time alone.
AfterTime(item, cursor) == cursor = NoCursor \/ item.added < cursor.added

After(item, cursor) == cursor = NoCursor \/ Newer(cursor, item)

NewestFirst(items) == InOrder([x \in items |-> {y \in items : Newer(y, x)}])

\* The native list: sorted anew, behind the cursor, and a next one if there is more.
CursorPage(cursor, limit) ==
  LET items == NewestFirst({item \in Range(TransferList) : After(item, cursor)})
      page == SubSeq(items, 1, Min({limit, Len(items)}))
  IN  [items |-> page,
       next |-> IF Len(page) = limit /\ Len(items) > limit
                THEN [added |-> Last(page).added, id |-> Last(page).id] ELSE NoCursor]

\* The lists of the stores: a slice, and how many there are in all.
OffsetPage(offset, limit) ==
  LET all == TransferList
  IN  [items |-> SubSeq(all, offset + 1, Min({offset + limit, Len(all)})), total |-> Len(all)]

BeginsWalk(kind, limit) ==
  /\ walk.at = "idle"
  /\ walk' = [NoWalk EXCEPT !.at = "walking", !.kind = kind, !.limit = limit,
                            !.stayed = Range(IdsOf(TransferList))]
  /\ UNCHANGED <<shelf, clock>>

ReadsCursorPage ==
  /\ walk.at = "walking" /\ walk.kind = "cursor"
  /\ LET page == CursorPage(walk.cursor, walk.limit)
     IN  walk' = [walk EXCEPT !.seen = @ \o IdsOf(page.items), !.cursor = page.next,
                              !.at = IF page.next = NoCursor THEN "ended" ELSE "walking"]
  /\ UNCHANGED <<shelf, clock>>

ReadsOffsetPage ==
  /\ walk.at = "walking" /\ walk.kind = "offset"
  /\ LET page == OffsetPage(walk.offset, walk.limit)
     IN  walk' = [walk EXCEPT !.seen = @ \o IdsOf(page.items), !.offset = @ + walk.limit,
                              !.at = IF walk.offset + walk.limit >= page.total THEN "ended" ELSE "walking"]
  /\ UNCHANGED <<shelf, clock>>

EndsWalk == walk.at = "ended" /\ walk' = NoWalk /\ UNCHANGED <<shelf, clock>>

ListingNext == \/ \E id \in Id, name \in Name, life \in Life : Upserts(id, name, life)
               \/ \E id \in Id : Unshelves(id) \/ \E path \in Path : Completes(id, path)
               \/ \E kind \in {"cursor", "offset"}, limit \in PageSize : BeginsWalk(kind, limit)
               \/ ReadsCursorPage \/ ReadsOffsetPage \/ EndsWalk \/ ClockTicks

ListingSpec == ListingInit /\ [][ListingNext]_listingVars
-----------------------------------------------------------------------------
Folders == Newest({i \in DOMAIN shelf : shelf[i].life = "managed"})

Namesakes(item) == Cardinality({i \in DOMAIN Folders : Folders[i].name = item.name})

\* Mutant: a name is only given a suffix when two torrents have it.
SlugOfCount(item, taken) ==
  IF Namesakes(item) > 1 THEN Append(item.name, ShortId[item.id]) ELSE item.name

\* transferSlugs: the short id when the name is another's too, or is taken, and
\* the whole one when that is.
SlugOf(item, taken) ==
  LET slug == IF Namesakes(item) > 1 \/ item.name \in taken
              THEN Append(item.name, ShortId[item.id]) ELSE item.name
  IN  IF slug \in taken THEN Append(item.name, item.id) ELSE slug

\* Those of the folders before it are taken.
Slugs[i \in DOMAIN Folders] == SlugOf(Folders[i], {Slugs[j] : j \in 1..i - 1})

\* The folder a request names, the first of that name; 0 when there is none.
FolderAt(slug) == SelectInSeq(Slugs, LAMBDA s : s = slug)

\* What is directly inside a folder, and what a path leads to.
Below(files, prefix) == {p \in files : Len(p) > Len(prefix) /\ IsPrefix(prefix, p)}
ChildrenAt(files, prefix) ==
  {[name |-> p[Len(prefix) + 1], collection |-> Len(p) > Len(prefix) + 1] : p \in Below(files, prefix)}
ResolveWithin(files, path) ==
  IF path # <<>> /\ path \in files THEN "file"
  ELSE IF path = <<>> \/ Below(files, path) # {} THEN "collection" ELSE "nothing"
-----------------------------------------------------------------------------
\* A walk ends with every title that was there all along, and none twice: by the
\* cursor whatever comes and goes meanwhile ("deterministic order independent of the
\* store's intra-timestamp order", api/v1/routes.ts:215-216), by numbers as long as
\* nothing does.
WalkExact ==
  walk.at = "ended" /\ (walk.kind = "cursor" \/ walk.quiet) =>
    /\ IsInjective(walk.seen)
    /\ walk.stayed \subseteq Range(walk.seen)

\* A client that opens folder after folder reaches every file that can be played: the
\* folders have distinct names, whatever torrents are called, a name leads back to
\* its own torrent, and on the way to a file each folder names the next ("unique,
\* human-readable root folder names", dav/tree.ts:10-13).
MountComplete ==
  \A i \in DOMAIN Folders :
    /\ FolderAt(Slugs[i]) = i
    /\ \A p \in Folders[i].files :
         /\ ResolveWithin(Folders[i].files, p) = "file"
         /\ \A n \in 0..Len(p) - 1 : LET folder == SubSeq(p, 1, n) IN
              /\ ResolveWithin(Folders[i].files, folder) = "collection"
              /\ [name |-> p[n + 1], collection |-> n + 1 < Len(p)] \in ChildrenAt(Folders[i].files, folder)
=============================================================================
