------------------------------ MODULE Deletion ------------------------------
(***************************************************************************)
(* deleteManaged (src/downloads/deletion.ts) and the retention sweep       *)
(* (src/retention/sweeper.ts) that calls it, on one title at a time.  A    *)
(* deletion is asked for by the user, or by the sweep because the title    *)
(* expired or the cache is over its size.                                  *)
(*                                                                         *)
(*   d_lock -> d_get -> d_rm -> d_confirm                                  *)
(*   s_lock -> s_get -> s_tune -> d_lock                                   *)
(***************************************************************************)
EXTENDS Downloads

DeleteRequest(op, h, lease) ==
  [op |-> op, hash |-> h, origin |-> "store", file |-> NoFile, marker |-> 0,
   lease |-> lease, resume |-> FALSE]

\* An administrator, the store API, a deletion retry, or the eviction pass,
\* which remembers the expiry it chose the title by.
deleteManaged(t) ==
  \E h \in Hash :
    /\ store[h] # NoRec
    /\ \/ Begin(t, DeleteRequest("delete", h, 0), "d_lock")
       \/ Begin(t, DeleteRequest("expire", h, 0), "d_lock")
       \/ Begin(t, DeleteRequest("evict", h, store[h].lease), "d_lock")

\* `eligible`, on the record and with `due` standing for the clock and the
\* ratio; isExpired for the sweep.
Eligible(t, r, due) ==
  CASE job[t].op = "delete" -> TRUE
    [] job[t].op = "evict"  -> ~r.kept /\ r.lease = job[t].lease
    [] OTHER                -> r.life = "deleting" \/ (~r.kept /\ (r.life = "failed" \/ due))

\* Nothing to delete any more, or the title is playing.
DeleteRefused(t) == LET h == job[t].hash IN
  /\ pc[t] = "d_lock"
  /\ lock[h] = NoTask
  /\ store[h] = NoRec \/ active[h] > 0
  /\ Finish(t)
  /\ UNCHANGED <<store, torrent, active, issued>>

DeleteEnters(t) == LET h == job[t].hash IN
  /\ pc[t] = "d_lock"
  /\ lock[h] = NoTask
  /\ store[h] # NoRec
  /\ active[h] = 0
  /\ lock' = [lock EXCEPT ![h] = t]
  /\ rec' = [rec EXCEPT ![t] = store[h]]
  /\ Goto(t, "d_get")
  /\ UNCHANGED <<store, torrent, reg, active, job, issued>>

\* A backend call fails: whatever is stored stays.
DeleteThrows(t) == /\ pc[t] \in {"d_get", "d_rm", "d_confirm", "s_get", "s_tune"}
                   /\ Finish(t)
                   /\ UNCHANGED <<store, torrent, active, issued>>

\* No torrent: a deletion of which only the reply was lost, or none needed.
DeleteFindsNothing(t) == LET h == job[t].hash IN
  /\ pc[t] = "d_get"
  /\ torrent[h] = NoTor
  /\ store' = [store EXCEPT ![h] = NoRec]
  /\ Finish(t)
  /\ UNCHANGED <<torrent, active, issued>>

\* Mutant: eligibility is judged on the record read before the backend call.
DeleteDecidesStale(t) == LET h == job[t].hash IN
  /\ pc[t] = "d_get"
  /\ torrent[h] # NoTor
  /\ Owned(rec[t], torrent[h])
  /\ \E due \in BOOLEAN : Eligible(t, rec[t], due)
  /\ store' = [store EXCEPT ![h].life = "deleting"]
  /\ Goto(t, "d_rm")
  /\ UNCHANGED <<torrent, lock, reg, active, job, rec, issued>>

\* Mutant: the torrent's marker is not looked at.
DeleteDecidesUnverified(t) == LET h == job[t].hash IN
  /\ pc[t] = "d_get"
  /\ torrent[h] # NoTor
  /\ active[h] = 0
  /\ \E due \in BOOLEAN : Eligible(t, store[h], due)
  /\ store' = [store EXCEPT ![h].life = "deleting"]
  /\ Goto(t, "d_rm")
  /\ UNCHANGED <<torrent, lock, reg, active, job, rec, issued>>

\* The torrent is ours, and the record, read again, may still go: the intent
\* is stored and the backend is told.
DeleteDecides(t) == LET h == job[t].hash IN
  /\ pc[t] = "d_get"
  /\ torrent[h] # NoTor
  /\ Owned(rec[t], torrent[h])
  /\ active[h] = 0
  /\ \E due \in BOOLEAN : Eligible(t, store[h], due)
  /\ store' = [store EXCEPT ![h].life = "deleting"]
  /\ Goto(t, "d_rm")
  /\ UNCHANGED <<torrent, lock, reg, active, job, rec, issued>>

\* It is ours and may not go, or it is not ours.
DeleteDeclines(t) == LET h == job[t].hash IN
  /\ pc[t] = "d_get"
  /\ torrent[h] # NoTor
  /\ \/ /\ Owned(rec[t], torrent[h])
        /\ \/ active[h] > 0
           \/ \E due \in BOOLEAN : ~Eligible(t, store[h], due)
        /\ UNCHANGED store
     \/ /\ ~Owned(rec[t], torrent[h])
        /\ MarkConflict(t, h)
  /\ Finish(t)
  /\ UNCHANGED <<torrent, active, issued>>

\* backend.remove: the job is gone, at once or some time later (UserRemoves).
DeleteRemoves(t) == LET h == job[t].hash IN
  /\ pc[t] = "d_rm"
  /\ torrent' \in {torrent, [torrent EXCEPT ![h] = NoTor]}
  /\ Goto(t, "d_confirm")
  /\ UNCHANGED <<store, lock, reg, active, job, rec, issued>>

\* Mutant: the record goes with the remove command, confirmed or not.
DeleteConfirmsBlindly(t) == LET h == job[t].hash IN
  /\ pc[t] = "d_confirm"
  /\ store' = [store EXCEPT ![h] = NoRec]
  /\ Finish(t)
  /\ UNCHANGED <<torrent, active, issued>>

\* The record goes only when the backend no longer has the job.
DeleteConfirms(t) == LET h == job[t].hash IN
  /\ pc[t] = "d_confirm"
  /\ torrent[h] = NoTor
  /\ store' = [store EXCEPT ![h] = NoRec]
  /\ Finish(t)
  /\ UNCHANGED <<torrent, active, issued>>
-----------------------------------------------------------------------------
\* The sweep comes to a record of the list it took when it began.
sweepOnce(t) == \E h \in Hash : /\ store[h] # NoRec
                                /\ Begin(t, DeleteRequest("sweep", h, 0), "s_lock")

SweepEnters(t) == LET h == job[t].hash IN
  /\ pc[t] = "s_lock"
  /\ lock[h] = NoTask
  /\ IF store[h] = NoRec
     THEN Finish(t)
     ELSE /\ lock' = [lock EXCEPT ![h] = t]
          /\ rec' = [rec EXCEPT ![t] = store[h]]
          /\ Goto(t, "s_get")
          /\ UNCHANGED <<reg, job>>
  /\ UNCHANGED <<store, torrent, active, issued>>

\* A record without a torrent is stale, unless it is still being registered or
\* is playing.
SweepCleans(t) == LET h == job[t].hash IN
  /\ pc[t] = "s_get"
  /\ torrent[h] = NoTor
  /\ store' = IF rec[t].life # "registering" /\ active[h] = 0
              THEN [store EXCEPT ![h] = NoRec] ELSE store
  /\ Finish(t)
  /\ UNCHANGED <<torrent, active, issued>>

SweepVerifies(t) == LET h == job[t].hash IN
  /\ pc[t] = "s_get"
  /\ torrent[h] # NoTor
  /\ \/ /\ Owned(rec[t], torrent[h])
        /\ Goto(t, "s_tune")
        /\ UNCHANGED <<store, lock, reg, job, rec>>
     \/ /\ ~Owned(rec[t], torrent[h])
        /\ MarkConflict(t, h)
        /\ Finish(t)
  /\ UNCHANGED <<torrent, active, issued>>

\* Share limits, and a whole torrent pauses once it has seeded enough or seeds
\* on.  Then the section ends and the title is a candidate for expiry.
SweepTunes(t) == LET h == job[t].hash IN
  /\ pc[t] = "s_tune"
  /\ torrent[h] # NoTor \/ rec[t].life = "deleting"
  /\ \E seeded \in BOOLEAN :
       torrent' = IF rec[t].life # "deleting" /\ Complete(torrent[h])
                  THEN [torrent EXCEPT ![h].running = ~seeded] ELSE torrent
  /\ lock' = [lock EXCEPT ![h] = NoTask]
  /\ job' = [job EXCEPT ![t].op = "expire"]
  /\ rec' = [rec EXCEPT ![t] = NoRec]
  /\ Goto(t, "d_lock")
  /\ UNCHANGED <<store, reg, active, issued>>

Delete(t) == \/ deleteManaged(t)
             \/ DeleteRefused(t)
             \/ DeleteEnters(t)
             \/ DeleteThrows(t)
             \/ DeleteFindsNothing(t)
             \/ DeleteDecides(t)
             \/ DeleteDeclines(t)
             \/ DeleteRemoves(t)
             \/ DeleteConfirms(t)

Sweep(t) == \/ sweepOnce(t)
            \/ SweepEnters(t)
            \/ SweepCleans(t)
            \/ SweepVerifies(t)
            \/ SweepTunes(t)
=============================================================================
