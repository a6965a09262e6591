----------------------------- MODULE Lifecycle -----------------------------
(***************************************************************************)
(* One title's life among everything that may touch it at the same time:   *)
(* preparations, deletions, sweeps and retention settings (Prepare and     *)
(* Deletion, serialised per hash), playback, the backend and its other     *)
(* users, and restarts of the process.                                     *)
(***************************************************************************)
EXTENDS Prepare, Deletion

Next == \/ \E t \in Task : Prepare(t) \/ Delete(t) \/ Sweep(t)
        \/ Environment

Spec == Init /\ [][Next]_vars
-----------------------------------------------------------------------------
PreparePc == {"p_lock"} \cup BeforeTryPc \cup TryPc
DeletePc == {"d_lock", "d_get", "d_rm", "d_confirm"}
SweepPc == {"s_lock", "s_get", "s_tune"}

\* Every variable keeps its type.
TypeOK == /\ store \in [Hash -> Record \cup {NoRec}]
          /\ torrent \in [Hash -> Torrent \cup {NoTor}]
          /\ lock \in [Hash -> Task \cup {NoTask}]
          /\ reg \in Task \cup {NoTask}
          /\ active \in [Hash -> 0..MaxPlays]
          /\ pc \in [Task -> {"idle"} \cup PreparePc \cup DeletePc \cup SweepPc]
          /\ job \in [Task -> Job \cup {NoJob}]
          /\ rec \in [Task -> Record \cup {NoRec}]
          /\ issued \in 0..MaxMarker

\* While a title is streamed it stays tracked, is not being deleted, and no
\* removal of it is on its way to the backend: deletions, evictions and the
\* clean-up of stale records all respect playback (deletion.ts:13 and :25,
\* sweeper.ts:78, manager.ts:275).
StreamingProtected ==
  \A h \in Hash : active[h] > 0 =>
    /\ store[h] # NoRec
    /\ store[h].life # "deleting"
    /\ \A t \in Task : pc[t] \in {"d_rm", "d_confirm"} => job[t].hash # h

\* A torrent that carries a marker of ours is never orphaned: through lost
\* replies, restarts and half-finished deletions a record with that marker
\* stays, and not one that claims the torrent is yet to be submitted.
OwnedTorrentTracked ==
  \A h \in Hash : (torrent[h] # NoTor /\ torrent[h].marker # 0) =>
    /\ store[h] # NoRec
    /\ store[h].marker = torrent[h].marker
    /\ store[h].life # "queued"

\* A remove command is only ever on its way to a torrent that carries the
\* record's marker, never to one the user added (deletion.ts:22).
OnlyOwnRemoved ==
  \A t \in Task : (pc[t] = "d_rm" /\ torrent[job[t].hash] # NoTor) =>
    torrent[job[t].hash].marker = store[job[t].hash].marker

\* Once a deletion is decided the record can only stay, go, or become a
\* conflict: no preparation that was already waiting revives it.
DeletingIsFinal ==
  [][\A h \in Hash : (store[h] # NoRec /\ store[h].life = "deleting") =>
       \/ store'[h] = NoRec
       \/ store'[h].life \in {"deleting", "conflict"}]_vars

\* The stored selection of a torrent only grows ("so a crash cannot lose
\* selection", manager.ts:264): no two requests lose each other's files.
SelectionGrows ==
  [][\A h \in Hash :
       (store[h] # NoRec /\ store'[h] # NoRec /\ store'[h].marker = store[h].marker)
         => store[h].files \subseteq store'[h].files]_vars

\* No request switches off, in the backend, a file some request has selected.
SelectedStaysWanted ==
  [][\A h \in Hash :
       (/\ torrent[h] # NoTor /\ torrent'[h] # NoTor
        /\ torrent'[h].marker = torrent[h].marker
        /\ store[h] # NoRec /\ store[h].marker = torrent[h].marker)
         => torrent[h].wanted \cap store[h].files \subseteq torrent'[h].wanted]_vars

\* A title goes to the sweep or the eviction only on what its record says at
\* that moment: not kept, and not renewed since it was chosen, although a Keep
\* or a renewal may arrive while the backend is being asked (deletion.ts:24).
SweepSeesPresentRecord ==
  [][\A t \in Task : LET h == job[t].hash IN
       (pc[t] = "d_get" /\ pc'[t] = "d_rm" /\ job[t].op # "delete") =>
          \/ store[h].life = "deleting"
          \/ ~store[h].kept /\ (job[t].op = "evict" => store[h].lease = job[t].lease)]_vars

\* When the last reply to a request arrives its file is there or on its way:
\* the whole stored selection is wanted by the backend, and the torrent runs
\* unless the file is there already (manager.ts:197 and :272).
ReadyMeansReady ==
  \A t \in Task : LET x == torrent[job[t].hash] IN
    (pc[t] = "p_done" /\ x # NoTor /\ x.marker = rec[t].marker) =>
      /\ rec[t].files \subseteq x.wanted
      /\ job[t].file \in x.have \/ x.running

\* At no moment have more of one origin's records been admitted and not yet
\* been prepared than the limit allows, although an admission counts, waits for
\* the backend's free space and registers in three steps (manager.ts:141-187 and
\* :212-221).
AdmissionsWithinCap ==
  \A origin \in Origin :
    Cardinality({h \in Hash : /\ store[h] # NoRec
                              /\ store[h].origin = origin
                              /\ store[h].life = "registering"}) <= Cap

\* At no moment are more of one origin's torrents, ours in the backend and not
\* yet whole, than the limit ("its own 10-incomplete-download limit",
\* docs/store-api.md:226).
IncompleteWithinCap ==
  \A origin \in Origin :
    Cardinality({h \in Hash : /\ torrent[h] # NoTor /\ torrent[h].marker # 0
                              /\ ~Complete(torrent[h])
                              /\ store[h] # NoRec /\ store[h].origin = origin}) <= Cap

\* A Keep lasts until it is taken back or the record goes
\* (docs/operations.md:145).
KeepSticks ==
  [][\A h \in Hash : (store[h] # NoRec /\ store[h].kept /\ store'[h] # NoRec) =>
       store'[h].kept \/ setKept(h, FALSE)]_vars

\* A request that was queued for a free slot is not dropped: its record goes
\* only on the user's deletion (docs/api-v1.md:57).
QueuedNotDropped ==
  [][\A h \in Hash : (store[h] # NoRec /\ store[h].life = "queued" /\ store'[h] = NoRec) =>
       \E t \in Task : job[t] # NoJob /\ job[t].op = "delete"]_vars
=============================================================================
