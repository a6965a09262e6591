----------------------------- MODULE Downloads -----------------------------
(***************************************************************************)
(* The state the download operations of src/downloads and src/retention    *)
(* share, and the steps of everything around them:                         *)
(*   - the durable records (state/sqlite/downloads.ts, the default driver: *)
(*     a write is one synchronous statement in a microtask, so a step of   *)
(*     an operation writes at most one record and writes it atomically);   *)
(*   - the download backend, an external service reached by asynchronous   *)
(*     calls, which other programs and the user change as well;            *)
(*   - the locks of Coordinator, here only as held or free (CoordinatorProofs *)
(*     shows that the promise chains are such locks);                      *)
(*   - the streams that are playing (playback/active.ts).                  *)
(* A task is one running operation: an HTTP request, a stream, a sweep, a  *)
(* retry.  Its local record is `rec`, which may be older than the store's. *)
(***************************************************************************)
EXTENDS Naturals, FiniteSets

CONSTANTS Hash,        \* infohashes
          File,        \* the files of every torrent
          Task,        \* operations that may run at once
          Ops,         \* the operations a run allows
          Cap,         \* maxActiveDownloads, and the search limit of 10
          MaxMarker,   \* bound: ownership markers issued
          MaxLease,    \* bound: renewals of one record
          MaxPlays,    \* bound: streams of one title
          NoRec, NoTor, NoTask, NoFile, NoJob

PrepareOps == {"add", "queueAdd", "admit", "retry", "select", "play", "replay", "stream"}
DeleteOps == {"delete", "expire", "evict"}
AllOps == PrepareOps \cup DeleteOps \cup {"sweep", "keep", "foreign"}

Origin == {"store", "search"}
Lifecycle == {"registering", "managed", "queued", "deleting", "failed", "conflict"}

\* downloads/store.ts DownloadRecord.  The marker stands for `owner`; file for
\* fileIndex, fileName and bytes; files for selectedFiles; lease for expiresAt.
Record == [origin: Origin, life: Lifecycle, kept: BOOLEAN, lease: 0..MaxLease,
           marker: 1..MaxMarker, file: File \cup {NoFile}, files: SUBSET File]

\* backends/torrent.ts snapshot and files.  Marker 0 is none of ours.
Torrent == [marker: 0..MaxMarker, wanted: SUBSET File, have: SUBSET File, running: BOOLEAN]

\* What an operation was called with; `resume` is prepareDownload's
\* "complete but stopped, and the file is not there yet".
Job == [op: AllOps, hash: Hash, origin: Origin, file: File \cup {NoFile},
        marker: 0..MaxMarker, lease: 0..MaxLease, resume: BOOLEAN]

ASSUME BoundAssumption == /\ Cap \in Nat /\ MaxMarker \in Nat
                          /\ MaxLease \in Nat /\ MaxPlays \in Nat
                          /\ Ops \subseteq AllOps
ASSUME NoneAssumption == /\ NoRec \notin Record /\ NoTor \notin Torrent
                         /\ NoTask \notin Task /\ NoFile \notin File
                         /\ NoJob \notin Job
\* A v1 infohash is 20 bytes.
ASSUME HashAssumption == IsFiniteSet(Hash)

VARIABLES store,    \* store[h]: the durable record, NoRec when there is none
          torrent,  \* torrent[h]: the backend's job
          lock,     \* lock[h]: the task in the section of h
          reg,      \* the task in the section '$registration'
          active,   \* active[h]: streams of h
          pc, job,  \* pc[t], job[t]: where task t is, and its arguments
          rec,      \* rec[t]: the local variable `record` of task t
          issued    \* markers issued so far

vars == <<store, torrent, lock, reg, active, pc, job, rec, issued>>

Init == /\ store = [h \in Hash |-> NoRec]
        /\ torrent = [h \in Hash |-> NoTor]
        /\ lock = [h \in Hash |-> NoTask]
        /\ reg = NoTask
        /\ active = [h \in Hash |-> 0]
        /\ pc = [t \in Task |-> "idle"]
        /\ job = [t \in Task |-> NoJob]
        /\ rec = [t \in Task |-> NoRec]
        /\ issued = 0
-----------------------------------------------------------------------------
Complete(x) == x.wanted \subseteq x.have      \* progress = 1
Owned(r, x) == x.marker = r.marker            \* isOwned

\* A record counts against the limit of its origin until its torrent is whole.
Incomplete(g, origin) ==
  /\ store[g] # NoRec
  /\ store[g].origin = origin
  /\ store[g].life # "queued"
  /\ \/ store[g].life = "registering"
     \/ torrent[g] = NoTor
     \/ torrent[g] # NoTor /\ ~Complete(torrent[g])

Busy(h, origin) ==
  Cardinality({g \in Hash \ {h} : Incomplete(g, origin)}) >= Cap

\* The task returns, well or badly: its locks go, its local state too.
Finish(t) == /\ pc' = [pc EXCEPT ![t] = "idle"]
             /\ job' = [job EXCEPT ![t] = NoJob]
             /\ rec' = [rec EXCEPT ![t] = NoRec]
             /\ lock' = [h \in Hash |-> IF lock[h] = t THEN NoTask ELSE lock[h]]
             /\ reg' = IF reg = t THEN NoTask ELSE reg

Goto(t, where) == pc' = [pc EXCEPT ![t] = where]

\* verifyOwnership's refusal: the caller's copy of the record, not the store's
\* present one, is written back as a conflict.
MarkConflict(t, h) == store' = [store EXCEPT ![h] = [rec[t] EXCEPT !.life = "conflict"]]

\* A task starts; `coordinated` is called with the hash of the job.
Begin(t, j, where) == /\ pc[t] = "idle"
                      /\ j.op \in Ops
                      /\ Goto(t, where)
                      /\ job' = [job EXCEPT ![t] = j]
                      /\ UNCHANGED <<store, torrent, lock, reg, active, rec, issued>>
-----------------------------------------------------------------------------
\* PATCH kept: setKept takes the lock of the raw store, not the one of the
\* wrapped store that every other operation uses, so it never waits for them.
setKept(h, kept) == /\ "keep" \in Ops
                    /\ store[h] # NoRec
                    /\ store[h].life # "deleting"
                    /\ store' = [store EXCEPT ![h].kept = kept]
                    /\ UNCHANGED <<torrent, lock, reg, active, pc, job, rec, issued>>

\* Playback extends the lease, without any lock.
renew(h) == /\ active[h] > 0
            /\ store[h] # NoRec
            /\ store[h].lease < MaxLease
            /\ store' = [store EXCEPT ![h].lease = @ + 1]
            /\ UNCHANGED <<torrent, lock, reg, active, pc, job, rec, issued>>

\* A stream ends.
markInactive(h) == /\ active[h] > 0
                   /\ active' = [active EXCEPT ![h] = @ - 1]
                   /\ UNCHANGED <<store, torrent, lock, reg, pc, job, rec, issued>>

\* The backend downloads one more wanted file.
Progress(h) == /\ torrent[h] # NoTor
               /\ torrent[h].running
               /\ \E f \in torrent[h].wanted \ torrent[h].have :
                    torrent' = [torrent EXCEPT ![h].have = @ \cup {f}]
               /\ UNCHANGED <<store, lock, reg, active, pc, job, rec, issued>>

\* The user, or the backend itself, drops a job.
UserRemoves(h) == /\ torrent[h] # NoTor
                  /\ torrent' = [torrent EXCEPT ![h] = NoTor]
                  /\ UNCHANGED <<store, lock, reg, active, pc, job, rec, issued>>

\* The user adds the same torrent in the backend's own interface.  Assumed not
\* to happen in the instant between a deletion's last look at the job and the
\* arrival of its remove command: the backends offer no conditional removal.
UserAdds(h) == /\ "foreign" \in Ops
               /\ torrent[h] = NoTor
               /\ \A t \in Task : pc[t] = "d_rm" => job[t].hash # h
               /\ torrent' = [torrent EXCEPT ![h] =
                    [marker |-> 0, wanted |-> File, have |-> {}, running |-> TRUE]]
               /\ UNCHANGED <<store, lock, reg, active, pc, job, rec, issued>>

\* The process dies and starts again: records and jobs stay, all else is lost.
Crash == /\ (\E t \in Task : pc[t] # "idle") \/ (\E h \in Hash : active[h] > 0)
         /\ lock' = [h \in Hash |-> NoTask]
         /\ reg' = NoTask
         /\ active' = [h \in Hash |-> 0]
         /\ pc' = [t \in Task |-> "idle"]
         /\ job' = [t \in Task |-> NoJob]
         /\ rec' = [t \in Task |-> NoRec]
         /\ UNCHANGED <<store, torrent, issued>>

Environment == \/ \E h \in Hash : \/ \E kept \in BOOLEAN : setKept(h, kept)
                                  \/ renew(h)
                                  \/ markInactive(h)
                                  \/ Progress(h)
                                  \/ UserRemoves(h)
                                  \/ UserAdds(h)
               \/ Crash
=============================================================================
