------------------------------ MODULE Prepare ------------------------------
(***************************************************************************)
(* prepareDownload (src/downloads/manager.ts): one operation that adds a   *)
(* torrent, admits a queued one, retries, selects a file or prepares a     *)
(* stream, according to what it is called with.  A step ends where the     *)
(* code awaits the backend or a lock; a write to the store belongs to the  *)
(* step that computes it.                                                  *)
(*                                                                         *)
(*   p_lock -> p_get -> p_reg -> p_space -> p_submit -> p_wait             *)
(*                  \                                  \                  *)
(*                   +-----------------------------------+                 *)
(*     -> [p_start] -> p_files -> [p_sel] -> p_union                       *)
(*     -> p_off -> p_on -> [p_run] -> p_done                               *)
(*                                                                         *)
(* The steps from p_start on are the code's `try` block.                   *)
(***************************************************************************)
EXTENDS Downloads

\* The calls, by what the options make prepareDownload check.
AllowSelect(t) == job[t].op \in {"select", "play"}          \* allow-select
RequireExisting(t) == job[t].op = "replay"                  \* require-existing
ExistingOnly(t) == job[t].op = "retry"                      \* existingOnly
Pinned(t) == AllowSelect(t) \/ RequireExisting(t)           \* selection.file
Streams(t) == job[t].op \in {"play", "replay", "stream"}    \* onReady: markActive

BeforeTryPc == {"p_get", "p_reg", "p_space", "p_submit", "p_wait"}
TryPc == {"p_start", "p_files", "p_sel", "p_union", "p_off", "p_on", "p_run", "p_done"}
-----------------------------------------------------------------------------
Request(op, h, origin, f, m) ==
  [op |-> op, hash |-> h, origin |-> origin, file |-> f, marker |-> m, lease |-> 0, resume |-> FALSE]

Deleting(h) == store[h] # NoRec /\ store[h].life = "deleting"

\* What the callers of ensureTransfer read before they call it: a queued record
\* to admit, a record to retry, a listed transfer to select in.  A link that is
\* played carries a marker issued at any time before.
prepareDownload(t) ==
  \E h \in Hash :
    /\ ~Deleting(h)
    /\ \/ \E op \in {"add", "queueAdd"} : Begin(t, Request(op, h, "store", NoFile, 0), "p_lock")
       \/ Begin(t, Request("stream", h, "search", NoFile, 0), "p_lock")
       \/ /\ store[h] # NoRec
          /\ \/ /\ store[h].origin = "store" /\ store[h].life = "queued"
                /\ Begin(t, Request("admit", h, "store", NoFile, 0), "p_lock")
             \/ /\ store[h].life \in {"registering", "managed"}
                /\ Begin(t, Request("retry", h, store[h].origin, NoFile, 0), "p_lock")
             \/ /\ store[h].origin = "store" /\ store[h].life \in {"registering", "managed"}
                /\ \E f \in File : Begin(t, Request("select", h, "store", f, store[h].marker), "p_lock")
       \/ \E f \in File, m \in 1..issued :
            \/ Begin(t, Request("play", h, "store", f, m), "p_lock")
            \/ Begin(t, Request("replay", h, "search", f, m), "p_lock")

\* The record this task may not touch, once it is in the section.
Refused(t, r) == /\ r # NoRec
                 /\ \/ job[t].origin = "store" /\ r.origin = "search"
                    \/ r.life = "deleting"

PrepareRefused(t) == /\ pc[t] = "p_lock"
                     /\ lock[job[t].hash] = NoTask
                     /\ Refused(t, store[job[t].hash])
                     /\ Finish(t)
                     /\ UNCHANGED <<store, torrent, active, issued>>

\* Mutant: the check of `deleting` before the lock is the only one.
PrepareEntersUnchecked(t) == LET h == job[t].hash IN
  /\ pc[t] = "p_lock"
  /\ lock[h] = NoTask
  /\ lock' = [lock EXCEPT ![h] = t]
  /\ rec' = [rec EXCEPT ![t] = store[h]]
  /\ Goto(t, "p_get")
  /\ UNCHANGED <<store, torrent, reg, active, job, issued>>

\* The section of the hash begins, and with it the local copy of the record.
PrepareEnters(t) == LET h == job[t].hash IN
  /\ pc[t] = "p_lock"
  /\ lock[h] = NoTask
  /\ ~Refused(t, store[h])
  /\ lock' = [lock EXCEPT ![h] = t]
  /\ rec' = [rec EXCEPT ![t] = store[h]]
  /\ Goto(t, "p_get")
  /\ UNCHANGED <<store, torrent, reg, active, job, issued>>

\* A failed call, a timeout, an aborted signal or a refusal before the `try`:
\* the operation throws and what it has stored stays as it is.
PrepareThrows(t) == /\ pc[t] \in BeforeTryPc
                    /\ Finish(t)
                    /\ UNCHANGED <<store, torrent, active, issued>>

\* backend.get answered: whether the request may go on with what is there.
MayUse(t) == LET r == rec[t]  x == torrent[job[t].hash] IN
  /\ RequireExisting(t) => /\ x # NoTor /\ r # NoRec
                           /\ r.life = "managed"
                           /\ r.marker = job[t].marker
                           /\ job[t].file \in r.files
  /\ AllowSelect(t) \/ ExistingOnly(t) => x # NoTor /\ r # NoRec
  /\ AllowSelect(t) => /\ r.origin = "store"
                       /\ r.marker = job[t].marker
                       /\ r.life = "managed"

\* The torrent is ours: on to the `try`.  A stopped torrent that is not whole
\* is started first; one that is whole may have to be started at the end.
Proceed(t, r, x) ==
  /\ rec' = [rec EXCEPT ![t] = r]
  /\ job' = [job EXCEPT ![t].resume = ~x.running /\ Complete(x)]
  /\ Goto(t, IF ~x.running /\ ~Complete(x) THEN "p_start" ELSE "p_files")

\* backend.get found a torrent, and there is a record: verifyOwnership.
PrepareFinds(t) == LET h == job[t].hash IN
  /\ pc[t] = "p_get"
  /\ torrent[h] # NoTor /\ rec[t] # NoRec
  /\ MayUse(t)
  /\ \/ /\ Owned(rec[t], torrent[h])
        /\ Proceed(t, rec[t], torrent[h])
        /\ UNCHANGED <<store, lock, reg>>
     \/ /\ ~Owned(rec[t], torrent[h])
        /\ MarkConflict(t, h)
        /\ Finish(t)
  /\ UNCHANGED <<torrent, active, issued>>

\* backend.get found nothing, and the request may add.
PrepareMisses(t) == /\ pc[t] = "p_get"
                    /\ torrent[job[t].hash] = NoTor
                    /\ MayUse(t)
                    /\ Goto(t, "p_reg")
                    /\ UNCHANGED <<store, torrent, lock, reg, active, job, rec, issued>>
-----------------------------------------------------------------------------
\* The record a registration writes: a new owner, or the one it had before.
Registered(t, life) ==
  IF rec[t] = NoRec
  THEN [origin |-> job[t].origin, life |-> life, kept |-> FALSE, lease |-> 0,
        marker |-> issued + 1, file |-> NoFile, files |-> {}]
  ELSE [rec[t] EXCEPT !.life = life]

\* The record is written with a marker no other record has had.
Register(t, life) == LET h == job[t].hash  r == Registered(t, life) IN
  /\ rec[t] = NoRec => issued < MaxMarker
  /\ issued' = IF rec[t] = NoRec THEN issued + 1 ELSE issued
  /\ store' = [store EXCEPT ![h] = r]

AdmitOrigin(t) == IF rec[t] = NoRec THEN job[t].origin ELSE rec[t].origin

\* '$registration', no slot, queueIfBusy: the request is stored for later.
PrepareQueues(t) == /\ pc[t] = "p_reg"
                    /\ reg = NoTask
                    /\ Busy(job[t].hash, AdmitOrigin(t))
                    /\ job[t].op = "queueAdd"
                    /\ AdmitOrigin(t) = "store"
                    /\ Register(t, "queued")
                    /\ Finish(t)
                    /\ UNCHANGED <<torrent, active>>

\* Mutant: admissions of different hashes are not serialised.
PrepareAdmitsUnserialised(t) ==
  /\ pc[t] = "p_reg"
  /\ ~Busy(job[t].hash, AdmitOrigin(t))
  /\ reg' = t
  /\ Goto(t, "p_space")
  /\ UNCHANGED <<store, torrent, lock, active, job, rec, issued>>

\* '$registration' with a free slot; now the free space is asked for.
PrepareAdmits(t) ==
  /\ pc[t] = "p_reg"
  /\ reg = NoTask
  /\ ~Busy(job[t].hash, AdmitOrigin(t))
  /\ reg' = t
  /\ Goto(t, "p_space")
  /\ UNCHANGED <<store, torrent, lock, active, job, rec, issued>>

\* There is space: the intent and the marker are stored before the backend
\* hears of them.  '$registration' lasts until the torrent is confirmed.
PrepareRegisters(t) == /\ pc[t] = "p_space"
                       /\ Register(t, "registering")
                       /\ rec' = [rec EXCEPT ![t] = Registered(t, "registering")]
                       /\ Goto(t, "p_submit")
                       /\ UNCHANGED <<torrent, lock, reg, active, job>>

\* backend.submit takes effect, stopped; its reply may still be lost.  A job
\* somebody else added meanwhile is left as it is.
PrepareSubmits(t) == LET h == job[t].hash IN
  /\ pc[t] = "p_submit"
  /\ torrent' = IF torrent[h] # NoTor THEN torrent
                ELSE [torrent EXCEPT ![h] = [marker |-> rec[t].marker, wanted |-> File,
                                             have |-> {}, running |-> FALSE]]
  /\ Goto(t, "p_wait")
  /\ UNCHANGED <<store, lock, reg, active, job, rec, issued>>

\* waitFor sees the torrent; '$registration' ends; verifyOwnership.
PrepareConfirms(t) == LET h == job[t].hash IN
  /\ pc[t] = "p_wait"
  /\ torrent[h] # NoTor
  /\ \/ /\ Owned(rec[t], torrent[h])
        /\ Proceed(t, rec[t], torrent[h])
        /\ reg' = NoTask
        /\ UNCHANGED <<store, lock>>
     \/ /\ ~Owned(rec[t], torrent[h])
        /\ MarkConflict(t, h)
        /\ Finish(t)
  /\ UNCHANGED <<torrent, active, issued>>
-----------------------------------------------------------------------------
\* A stopped torrent has to run before it knows its files.
PrepareStarts(t) == LET h == job[t].hash IN
  /\ pc[t] = "p_start"
  /\ torrent[h] # NoTor
  /\ torrent' = [torrent EXCEPT ![h].running = TRUE]
  /\ Goto(t, "p_files")
  /\ UNCHANGED <<store, lock, reg, active, job, rec, issued>>

\* The file a request is for: the pinned one, on a retry the one prepared
\* before, and otherwise the one pickFile finds for the media.
Wanted(t) == IF Pinned(t) THEN {job[t].file}
             ELSE IF ExistingOnly(t) /\ rec[t].files # {} THEN {rec[t].file}
             ELSE File

\* The files are known and the wanted one is among them.  A file that was not
\* selected and is not there yet needs a slot of its own.
PrepareChooses(t) == LET h == job[t].hash IN
  /\ pc[t] = "p_files"
  /\ torrent[h] # NoTor
  /\ \E f \in Wanted(t) \ {NoFile} : LET missing == f \notin torrent[h].have IN
       /\ job' = [job EXCEPT ![t].file = f, ![t].resume = @ /\ missing]
       /\ Goto(t, IF AllowSelect(t) /\ f \notin rec[t].files /\ missing
                  THEN "p_sel" ELSE "p_union")
  /\ UNCHANGED <<store, torrent, lock, reg, active, rec, issued>>

\* The second '$registration': count, and store the file as selected.
PrepareSelects(t) == LET h == job[t].hash
                         r == [store[h] EXCEPT !.life = "registering", !.file = job[t].file,
                                               !.files = rec[t].files \cup {job[t].file}] IN
  /\ pc[t] = "p_sel"
  /\ reg = NoTask
  /\ ~Busy(h, "store")
  /\ store' = [store EXCEPT ![h] = r]
  /\ rec' = [rec EXCEPT ![t] = r]
  /\ Goto(t, "p_union")
  /\ UNCHANGED <<torrent, lock, reg, active, job, issued>>

\* Mutant: the request's files replace the selection.
PrepareReplaces(t) == LET h == job[t].hash IN
  /\ pc[t] = "p_union"
  /\ \E chosen \in SUBSET File :
       /\ job[t].file \in chosen
       /\ Pinned(t) => chosen = {job[t].file}
       /\ LET r == [store[h] EXCEPT !.file = job[t].file, !.files = chosen] IN
            /\ store' = [store EXCEPT ![h] = r]
            /\ rec' = [rec EXCEPT ![t] = r]
  /\ Goto(t, "p_off")
  /\ UNCHANGED <<torrent, lock, reg, active, job, issued>>

\* The union of the old selection and the file, or the season it belongs to,
\* is stored before any priority changes.
PrepareUnites(t) == LET h == job[t].hash IN
  /\ pc[t] = "p_union"
  /\ \E chosen \in SUBSET File :
       /\ job[t].file \in chosen
       /\ Pinned(t) => chosen = {job[t].file}
       /\ LET r == [store[h] EXCEPT !.file = job[t].file, !.files = rec[t].files \cup chosen] IN
            /\ store' = [store EXCEPT ![h] = r]
            /\ rec' = [rec EXCEPT ![t] = r]
  /\ Goto(t, "p_off")
  /\ UNCHANGED <<torrent, lock, reg, active, job, issued>>

\* Mutant: everything but the requested file is switched off.
PrepareDeselectsRest(t) == LET h == job[t].hash IN
  /\ pc[t] = "p_off"
  /\ torrent[h] # NoTor
  /\ torrent' = [torrent EXCEPT ![h].wanted = @ \cap {job[t].file}]
  /\ Goto(t, "p_on")
  /\ UNCHANGED <<store, lock, reg, active, job, rec, issued>>

\* setFilesSelected(false): what nobody selected.
PrepareDeselects(t) == LET h == job[t].hash IN
  /\ pc[t] = "p_off"
  /\ torrent[h] # NoTor
  /\ torrent' = [torrent EXCEPT ![h].wanted = @ \cap rec[t].files]
  /\ Goto(t, "p_on")
  /\ UNCHANGED <<store, lock, reg, active, job, rec, issued>>

\* Mutant: a stopped torrent is only ever started before its files are known.
PrepareEnablesNoResume(t) == LET h == job[t].hash IN
  /\ pc[t] = "p_on"
  /\ torrent[h] # NoTor
  /\ torrent' = [torrent EXCEPT ![h].wanted = @ \cup rec[t].files]
  /\ Goto(t, "p_done")
  /\ UNCHANGED <<store, lock, reg, active, job, rec, issued>>

\* setFilesSelected(true): what somebody selected.
PrepareEnables(t) == LET h == job[t].hash IN
  /\ pc[t] = "p_on"
  /\ torrent[h] # NoTor
  /\ torrent' = [torrent EXCEPT ![h].wanted = @ \cup rec[t].files]
  /\ Goto(t, IF job[t].resume THEN "p_run" ELSE "p_done")
  /\ UNCHANGED <<store, lock, reg, active, job, rec, issued>>

\* A whole but stopped torrent starts again for the file it now misses.
PrepareResumes(t) == LET h == job[t].hash IN
  /\ pc[t] = "p_run"
  /\ torrent[h] # NoTor
  /\ torrent' = [torrent EXCEPT ![h].running = TRUE]
  /\ Goto(t, "p_done")
  /\ UNCHANGED <<store, lock, reg, active, job, rec, issued>>

\* Mutant: playback is reserved in a step after the section has ended, here
\* lost altogether when a deletion comes first.
PrepareReadyLate(t) == LET h == job[t].hash IN
  /\ pc[t] = "p_done"
  /\ Streams(t) => active[h] < MaxPlays
  /\ IF lock[h] = t
     THEN /\ store' = IF rec[t].life = "managed" THEN store
                      ELSE [store EXCEPT ![h] = [rec[t] EXCEPT !.life = "managed"]]
          /\ lock' = [lock EXCEPT ![h] = NoTask]
          /\ UNCHANGED <<active, pc, job, rec, reg>>
     ELSE /\ active' = IF Streams(t) THEN [active EXCEPT ![h] = @ + 1] ELSE active
          /\ Finish(t)
          /\ UNCHANGED store
  /\ UNCHANGED <<torrent, issued>>

\* The last reply: the record becomes managed, if it was not, with everything
\* else as it was when the union was stored; a stream is reserved while the
\* section still lasts.
PrepareReady(t) == LET h == job[t].hash IN
  /\ pc[t] = "p_done"
  /\ Streams(t) => active[h] < MaxPlays
  /\ store' = IF rec[t].life = "managed" THEN store
              ELSE [store EXCEPT ![h] = [rec[t] EXCEPT !.life = "managed"]]
  /\ active' = IF Streams(t) THEN [active EXCEPT ![h] = @ + 1] ELSE active
  /\ Finish(t)
  /\ UNCHANGED <<torrent, issued>>

\* The `catch`: a step of the `try` failed.  The present record is stored again,
\* failed if no file was found and none had been selected.
PrepareFails(t) == LET h == job[t].hash IN
  /\ pc[t] \in TryPc
  /\ \/ /\ pc[t] = "p_files"
        /\ store[h].files = {}
        /\ store' = [store EXCEPT ![h].life = "failed"]
     \/ UNCHANGED store
  /\ Finish(t)
  /\ UNCHANGED <<torrent, active, issued>>

Prepare(t) == \/ prepareDownload(t)
              \/ PrepareRefused(t)
              \/ PrepareEnters(t)
              \/ PrepareThrows(t)
              \/ PrepareFinds(t)
              \/ PrepareMisses(t)
              \/ PrepareQueues(t)
              \/ PrepareAdmits(t)
              \/ PrepareRegisters(t)
              \/ PrepareSubmits(t)
              \/ PrepareConfirms(t)
              \/ PrepareStarts(t)
              \/ PrepareChooses(t)
              \/ PrepareSelects(t)
              \/ PrepareUnites(t)
              \/ PrepareDeselects(t)
              \/ PrepareEnables(t)
              \/ PrepareResumes(t)
              \/ PrepareReady(t)
              \/ PrepareFails(t)
=============================================================================
