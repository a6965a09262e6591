------------------------------ MODULE Service ------------------------------
(***************************************************************************)
(* The transfer service (src/application/transfers.ts) and what works      *)
(* beside it on the same titles: the queue of requests that found no slot  *)
(* (downloads/queue.ts) and the recovery of unfinished registrations       *)
(* (downloads/recovery.ts).  ensureTransfer and deleteManaged, which the    *)
(* modules Prepare and Deletion have in full, are taken in their large     *)
(* steps: what is decided under the hash lock, what the backend is sent,   *)
(* how it ends.  A preview is modelled step by step.  A call that fails,   *)
(* loses its answer or dies with the process is a fault, and so is what    *)
(* the user does in the backend.                                           *)
(***************************************************************************)
EXTENDS Naturals, FiniteSets, FiniteSetsExt

CONSTANTS Hash,
          Client,     \* requests of clients under way at once
          Tick,       \* the recovery job, one call at a time (`running`)
          Url,        \* hashes known from a download URL: they have to be fetched
          Cap,        \* maxActiveDownloads
          Ops,        \* what each client asks for
          MaxMarker,  \* bound: ownership markers issued, to records and probes
          MaxFaults,  \* bound: faults, and changes the user makes in the backend
          None

ASSUME ServiceAssumption ==
  /\ {Cap, MaxMarker, MaxFaults} \subseteq Nat
  /\ Url \subseteq Hash
  /\ Ops \in [Client -> SUBSET {"add", "queueAdd", "select", "remove", "preview", "pause", "resume"}]
  /\ Tick \notin Client /\ None \notin Hash \cup Client \cup {Tick}

VARIABLES store,     \* the records: the transfers of clients
          torrent,   \* the backend's torrents
          lock,      \* lock[h]: the call in the section of h
          call,      \* the calls
          issued,    \* markers so far; a record's marker is also its addedAt
          probes,    \* history: the markers given to probes
          left,      \* history: the markers of probes a fault may have left
          faults

vars == <<store, torrent, lock, call, issued, probes, left, faults>>

Proc == Client \cup {Tick}

\* file: a second file is selected; failed: failure = 'preparation_failed'.
Record == [life: {"queued", "registering", "managed", "deleting", "failed", "conflict"},
           marker: 1..MaxMarker, more: BOOLEAN, failed: BOOLEAN]
\* Marker 0 is none of ours; known: the list of files is.
Torrent == [marker: 0..MaxMarker, known: BOOLEAN, whole: BOOLEAN, running: BOOLEAN]

ASSUME NoneAssumption == None \notin Record \cup Torrent

\* `stage`: what a preparation is for (the request, the queue, a retry).
Call == [op: {"none", "add", "queueAdd", "select", "remove", "preview", "pause", "resume", "tick"},
         h: Hash \cup {None}, marker: 0..MaxMarker, tried: SUBSET Hash, stage: {"own", "admit", "retry"},
         pc: {"idle", "ensure", "submit", "prepare", "admit", "retry", "delete", "delete2", "run",
              "probe", "probeSubmit", "probeWait", "probeFetch", "clean", "cleanAgain"}]
Idle == [op |-> "none", h |-> None, pc |-> "idle", stage |-> "own", marker |-> 0, tried |-> {}]

Life(h) == IF store[h] = None THEN "none" ELSE store[h].life
Visible(h) == Life(h) \in {"managed", "registering", "queued"}
Owned(h) == store[h] # None /\ torrent[h] # None /\ torrent[h].marker = store[h].marker
-----------------------------------------------------------------------------
Init == /\ store = [h \in Hash |-> None]
        /\ torrent = [h \in Hash |-> None]
        /\ lock = [h \in Hash |-> None]
        /\ call = [p \in Proc |-> Idle]
        /\ issued = 0 /\ faults = 0
        /\ probes = {} /\ left = {}

Upsert(h, r) == store' = [store EXCEPT ![h] = r]
Discard(h) == store' = [store EXCEPT ![h] = None]

Fault == faults < MaxFaults /\ faults' = faults + 1
Becomes(p, c) == call' = [call EXCEPT ![p] = c]
Goes(p, pc) == Becomes(p, [call[p] EXCEPT !.pc = pc])
Takes(p, h) == lock[h] = None /\ lock' = [lock EXCEPT ![h] = p]
Frees(h) == lock' = [lock EXCEPT ![h] = None]

\* How a preparation ends: an addition that was granted admits the next one of the
\* queue, a tick goes on with its retries; anything else is answered.
After(p, ok) ==
  Becomes(p, IF call[p].stage = "own"
             THEN IF ok /\ call[p].op # "select" THEN [call[p] EXCEPT !.pc = "admit"] ELSE Idle
             ELSE IF p = Tick THEN [call[p] EXCEPT !.pc = "retry"] ELSE Idle)
-----------------------------------------------------------------------------
\* add, select, remove, setRunning and preview, as far as they look before the lock.
Starts(p, op, h) ==
  /\ call[p].pc = "idle"
  \* The bound: removed titles may be admitted once more.
  /\ op = "select" \/ issued + Cardinality(Client) < MaxMarker
  /\ \/ op \in {"add", "queueAdd"} /\ Life(h) # "deleting"
     \/ op = "select" /\ Visible(h) /\ Owned(h) /\ torrent[h].known
     \/ op = "remove" /\ store[h] # None
     \/ op \in {"pause", "resume"} /\ Owned(h) /\ Life(h) = "managed"
     \/ op = "preview" /\ ~Visible(h)
  /\ Becomes(p, [Idle EXCEPT !.op = op, !.h = h,
       !.pc = CASE op = "remove" -> "delete" [] op = "preview" -> "probe"
                [] op \in {"pause", "resume"} -> "run" [] OTHER -> "ensure",
       !.marker = IF op = "select" THEN store[h].marker ELSE 0])
  /\ UNCHANGED <<store, torrent, lock, issued, probes, left, faults>>

\* DownloadRecovery.run: first the queue, then two of the unfinished.
TickStarts == /\ call[Tick].pc = "idle"
              /\ Becomes(Tick, [Idle EXCEPT !.op = "tick", !.pc = "admit"])
              /\ UNCHANGED <<store, torrent, lock, issued, probes, left, faults>>

Unfinished(h) == Life(h) = "registering" \/ (Life(h) = "managed" /\ store[h].failed)
Due == {h \in Hash \ call[Tick].tried : Unfinished(h)}

TickRetries ==
  /\ call[Tick].pc = "retry"
  /\ IF Due = {} \/ Cardinality(call[Tick].tried) = 2 THEN Becomes(Tick, Idle)
     ELSE \E h \in Due : Becomes(Tick, [call[Tick] EXCEPT !.h = h, !.pc = "ensure",
                                           !.stage = "retry", !.tried = @ \cup {h}])
  /\ UNCHANGED <<store, torrent, lock, issued, probes, left, faults>>

\* The head of the queue: only the oldest request is ever tried.
Oldest(h) == /\ Life(h) = "queued"
             /\ \A g \in Hash : Life(g) = "queued" => store[h].marker <= store[g].marker

\* admitQueuedTransfers.  The recovery job cannot fetch a URL.
Admits(p) ==
  /\ call[p].pc = "admit"
  /\ LET queue == {h \in Hash : Oldest(h)}
     IN  \/ /\ queue \subseteq Url  \* there is none, or it cannot be fetched
            /\ Becomes(p, IF p = Tick THEN [call[p] EXCEPT !.pc = "retry"] ELSE Idle)
         \/ \E h \in queue : /\ p = Tick => h \notin Url
                             /\ Becomes(p, [call[p] EXCEPT !.h = h, !.pc = "ensure", !.stage = "admit"])
  /\ UNCHANGED <<store, torrent, lock, issued, probes, left, faults>>
-----------------------------------------------------------------------------
\* Mutant: a whole torrent holds its slot until its record goes.
ActiveForGood(g) == Life(g) \notin {"none", "queued"}

\* A record holds a slot until its torrent is whole; a queued one holds none.
Active(g) == /\ Life(g) \notin {"none", "queued"}
             /\ Life(g) = "registering" \/ torrent[g] = None \/ ~torrent[g].whole
Full(h) == Cardinality({g \in Hash \ {h} : Active(g)}) >= Cap

\* ensureTransfer under the lock: refused, queued, registered, or there already.
Refused(p, h) ==
  \/ Life(h) = "deleting"
  \/ (call[p].stage = "retry" \/ call[p].op = "select") /\ (torrent[h] = None \/ store[h] = None)
  \/ torrent[h] # None /\ store[h] = None
  \/ call[p].op = "select" /\ ~(Life(h) = "managed" /\ store[h].marker = call[p].marker)
  \/ torrent[h] = None /\ Full(h) /\ ~(call[p].stage = "own" /\ call[p].op = "queueAdd")

EnsureRefused(p) == LET h == call[p].h IN
  /\ call[p].pc = "ensure" /\ lock[h] = None
  /\ Refused(p, h)
  /\ After(p, FALSE)
  /\ UNCHANGED <<store, torrent, lock, issued, probes, left, faults>>

\* verifyOwnership fails.
EnsureConflict(p) == LET h == call[p].h IN
  /\ call[p].pc = "ensure" /\ lock[h] = None
  /\ ~Refused(p, h) /\ torrent[h] # None /\ ~Owned(h)
  /\ Upsert(h, [store[h] EXCEPT !.life = "conflict"])
  /\ After(p, FALSE)
  /\ UNCHANGED <<torrent, lock, issued, probes, left, faults>>

\* The transfer's record as it is, or a new one.
Kept(h) == IF store[h] = None THEN [life |-> "queued", marker |-> issued + 1, more |-> FALSE, failed |-> FALSE]
           ELSE store[h]
Issues(h) == IF store[h] = None THEN issued < MaxMarker /\ issued' = issued + 1 ELSE UNCHANGED issued

EnsureQueues(p) == LET h == call[p].h IN
  /\ call[p].pc = "ensure" /\ lock[h] = None
  /\ ~Refused(p, h) /\ torrent[h] = None /\ Full(h)
  /\ Issues(h)
  /\ Upsert(h, [Kept(h) EXCEPT !.life = "queued"])
  /\ After(p, FALSE)
  /\ UNCHANGED <<torrent, lock, probes, left, faults>>

EnsureRegisters(p) == LET h == call[p].h IN
  /\ call[p].pc = "ensure" /\ Takes(p, h)
  /\ ~Refused(p, h) /\ torrent[h] = None /\ ~Full(h)
  /\ Issues(h)
  /\ Upsert(h, [Kept(h) EXCEPT !.life = "registering"])
  /\ Goes(p, "submit")
  /\ UNCHANGED <<torrent, probes, left, faults>>

EnsureFinds(p) == LET h == call[p].h IN
  /\ call[p].pc = "ensure" /\ Takes(p, h)
  /\ ~Refused(p, h) /\ Owned(h)
  /\ Goes(p, "prepare")
  /\ UNCHANGED <<store, torrent, issued, probes, left, faults>>

\* What a backend does with a job it is sent.  One that has the torrent already
\* refuses (qBittorrent) or gives it the new labels (Transmission).
Submitted(h, marker) ==
  \/ torrent[h] = None /\ \E known \in BOOLEAN :
       torrent' = [torrent EXCEPT ![h] = [marker |-> marker, known |-> known, whole |-> FALSE, running |-> FALSE]]
  \/ torrent[h] # None /\ torrent' = [torrent EXCEPT ![h].marker = marker]

Submits(p) == LET h == call[p].h IN
  /\ call[p].pc = "submit"
  /\ \/ Submitted(h, store[h].marker) /\ Goes(p, "prepare") /\ UNCHANGED <<lock, faults>>
     \/ Submitted(h, store[h].marker) /\ Fault /\ Frees(h) /\ After(p, FALSE)  \* the answer is lost
     \/ UNCHANGED torrent /\ Fault /\ Frees(h) /\ After(p, FALSE)              \* the request is lost
     \/ UNCHANGED <<torrent, faults>> /\ torrent[h] # None /\ Frees(h) /\ After(p, FALSE)
  /\ UNCHANGED <<store, issued, probes, left>>

\* A further file is a new registration, at the limit too.
MoreRefused(p) == LET h == call[p].h IN
  /\ call[p].pc = "prepare" /\ call[p].stage = "own" /\ call[p].op = "select" /\ ~store[h].more
  /\ Full(h)
  /\ Frees(h) /\ After(p, FALSE)
  /\ UNCHANGED <<store, torrent, issued, probes, left, faults>>

MoreRegisters(p) == LET h == call[p].h IN
  /\ call[p].pc = "prepare" /\ call[p].stage = "own" /\ call[p].op = "select" /\ ~store[h].more
  /\ ~Full(h) /\ torrent[h] # None
  /\ Upsert(h, [store[h] EXCEPT !.life = "registering", !.more = TRUE])
  /\ torrent' = [torrent EXCEPT ![h].whole = FALSE]
  /\ UNCHANGED <<lock, call, issued, probes, left, faults>>

Chosen(p) == call[p].stage = "own" /\ call[p].op = "select" => store[call[p].h].more

\* The torrent is started and its files are chosen: the record is managed.  Without
\* metadata it stays as it is, tracked; a fault leaves its mark on it.
Prepares(p) == LET h == call[p].h IN
  /\ call[p].pc = "prepare" /\ Chosen(p)
  /\ Frees(h)
  /\ IF torrent[h] = None
     THEN /\ Upsert(h, [store[h] EXCEPT !.failed = TRUE])
          /\ After(p, FALSE) /\ UNCHANGED <<torrent, faults>>
     ELSE /\ torrent' = [torrent EXCEPT ![h].running = @ \/ ~torrent[h].whole]
          /\ \/ /\ torrent[h].known
                /\ Upsert(h, [store[h] EXCEPT !.life = "managed", !.failed = FALSE])
                /\ After(p, TRUE) /\ UNCHANGED faults
             \/ /\ ~torrent[h].known
                /\ Upsert(h, [store[h] EXCEPT !.failed = FALSE])
                /\ After(p, FALSE) /\ UNCHANGED faults
             \/ /\ Fault
                /\ Upsert(h, [store[h] EXCEPT !.failed = TRUE])
                /\ After(p, FALSE)
  /\ UNCHANGED <<issued, probes, left>>
-----------------------------------------------------------------------------
\* remove, by deleteManaged: what has a torrent is marked, removed and forgotten.
Deletes(p) == LET h == call[p].h IN
  /\ call[p].pc = "delete" /\ lock[h] = None
  /\ \/ /\ store[h] = None
        /\ Goes(p, "admit") /\ UNCHANGED <<store, lock>>
     \/ /\ store[h] # None /\ torrent[h] = None
        /\ Discard(h) /\ Goes(p, "admit") /\ UNCHANGED lock
     \/ /\ store[h] # None /\ torrent[h] # None /\ ~Owned(h)
        /\ Upsert(h, [store[h] EXCEPT !.life = "conflict"])
        /\ Becomes(p, Idle) /\ UNCHANGED lock
     \/ /\ Owned(h) /\ Takes(p, h)
        /\ Upsert(h, [store[h] EXCEPT !.life = "deleting"])
        /\ Goes(p, "delete2")
  /\ UNCHANGED <<torrent, issued, probes, left, faults>>

DeletesTorrent(p) == LET h == call[p].h IN
  /\ call[p].pc = "delete2"
  /\ Frees(h)
  /\ \/ /\ torrent' = [torrent EXCEPT ![h] = None]
        /\ Discard(h)
        /\ Becomes(p, [call[p] EXCEPT !.pc = "admit", !.stage = "admit"]) /\ UNCHANGED faults
     \/ Fault /\ Becomes(p, Idle) /\ UNCHANGED store
        /\ torrent' \in {torrent, [torrent EXCEPT ![h] = None]}
  /\ UNCHANGED <<issued, probes, left>>

\* setRunning, without the lock: what was owned a moment ago is paused or resumed.
Runs(p) == LET h == call[p].h IN
  /\ call[p].pc = "run"
  /\ torrent' = IF torrent[h] = None THEN torrent
                ELSE [torrent EXCEPT ![h].running = (call[p].op = "resume")]
  /\ Becomes(p, Idle)
  /\ UNCHANGED <<store, lock, issued, probes, left, faults>>
-----------------------------------------------------------------------------
\* Mutant: the record is not looked for again under the lock.
ProbesBlindly(p) == LET h == call[p].h IN
  /\ call[p].pc = "probe" /\ lock[h] = None
  /\ IF torrent[h] # None THEN Becomes(p, Idle) /\ UNCHANGED <<lock, issued, probes>>
     ELSE /\ Takes(p, h)
          /\ issued < MaxMarker /\ issued' = issued + 1
          /\ probes' = probes \cup {issued'}
          /\ Becomes(p, [call[p] EXCEPT !.pc = "probeSubmit", !.marker = issued'])
  /\ UNCHANGED <<store, torrent, left, faults>>

\* probePreview: a title that came meanwhile is read in place; a torrent that is
\* there is not ours to probe.
Probes(p) == LET h == call[p].h IN
  /\ call[p].pc = "probe" /\ lock[h] = None
  /\ IF Visible(h) \/ torrent[h] # None THEN Becomes(p, Idle) /\ UNCHANGED <<lock, issued, probes>>
     ELSE /\ Takes(p, h)
          /\ issued < MaxMarker /\ issued' = issued + 1
          /\ probes' = probes \cup {issued'}
          /\ Becomes(p, [call[p] EXCEPT !.pc = "probeSubmit", !.marker = issued'])
  /\ UNCHANGED <<store, torrent, left, faults>>

ProbeEnds(p) == Becomes(p, Idle) /\ Frees(call[p].h)
Leaves(p) == left' = left \cup {call[p].marker}

\* `submitted` is set when the call returns: a submit whose answer is lost is not
\* taken back.
ProbeSubmits(p) == LET h == call[p].h IN
  /\ call[p].pc = "probeSubmit"
  /\ \/ Submitted(h, call[p].marker) /\ Goes(p, "probeWait") /\ UNCHANGED <<lock, faults, left>>
     \/ Submitted(h, call[p].marker) /\ Fault /\ ProbeEnds(p) /\ Leaves(p)
     \/ UNCHANGED <<torrent, left>> /\ Fault /\ ProbeEnds(p)
     \/ UNCHANGED <<torrent, left, faults>> /\ torrent[h] # None /\ ProbeEnds(p)
  /\ UNCHANGED <<store, issued, probes>>

Mine(p) == torrent[call[p].h] # None /\ torrent[call[p].h].marker = call[p].marker

\* The probe is looked at; when its files are not known it runs until they are.
ProbeWaits(p) == LET h == call[p].h IN
  /\ call[p].pc = "probeWait"
  /\ \/ torrent[h] # None /\ ~Mine(p) /\ ProbeEnds(p) /\ UNCHANGED <<torrent, faults>>
     \/ torrent[h] = None /\ Goes(p, "clean") /\ UNCHANGED <<torrent, lock, faults>>
     \/ Mine(p) /\ torrent[h].known /\ Goes(p, "clean") /\ UNCHANGED <<torrent, lock, faults>>
     \/ /\ Mine(p) /\ ~torrent[h].known
        /\ torrent' = [torrent EXCEPT ![h].running = TRUE]
        /\ Goes(p, "probeFetch") /\ UNCHANGED <<lock, faults>>
     \/ Fault /\ Goes(p, "clean") /\ UNCHANGED <<torrent, lock>>
  /\ UNCHANGED <<store, issued, probes, left>>

ProbeFetches(p) == LET h == call[p].h IN
  /\ call[p].pc = "probeFetch"
  /\ torrent' = IF torrent[h] = None THEN torrent ELSE [torrent EXCEPT ![h].running = FALSE]
  /\ Goes(p, "clean")
  /\ UNCHANGED <<store, lock, issued, probes, left, faults>>

\* Mutant: a probe is not looked after when the removal fails.
CleansOnce(p) == LET h == call[p].h IN
  /\ call[p].pc = "clean"
  /\ \/ ~Mine(p) /\ UNCHANGED <<torrent, faults, left>>
     \/ Mine(p) /\ torrent' = [torrent EXCEPT ![h] = None] /\ UNCHANGED <<faults, left>>
     \/ Fault /\ UNCHANGED <<torrent, left>>
  /\ ProbeEnds(p)
  /\ UNCHANGED <<store, issued, probes>>

\* removePreviewProbe: the probe, when it is still ours; a failed look or removal
\* is followed by a removal that does not look.
Cleans(p) == LET h == call[p].h IN
  /\ call[p].pc = "clean"
  /\ \/ ~Mine(p) /\ ProbeEnds(p) /\ UNCHANGED <<torrent, faults>>
     \/ Mine(p) /\ torrent' = [torrent EXCEPT ![h] = None] /\ ProbeEnds(p) /\ UNCHANGED faults
     \/ Fault /\ Goes(p, "cleanAgain") /\ UNCHANGED <<torrent, lock>>
  /\ UNCHANGED <<store, issued, probes, left>>

CleansAgain(p) == LET h == call[p].h IN
  /\ call[p].pc = "cleanAgain"
  /\ ProbeEnds(p)
  /\ \/ torrent' = [torrent EXCEPT ![h] = None] /\ UNCHANGED <<faults, left>>
     \/ Fault /\ Leaves(p) /\ UNCHANGED torrent
  /\ UNCHANGED <<store, issued, probes>>
-----------------------------------------------------------------------------
\* The backend and its user.
Fetches(h) == /\ torrent[h] # None /\ torrent[h].running /\ ~(torrent[h].known /\ torrent[h].whole)
              /\ torrent' = [torrent EXCEPT ![h].known = TRUE, ![h].whole = torrent[h].known]
              /\ UNCHANGED <<store, lock, call, issued, probes, left, faults>>

Changes(h) == /\ Fault
              /\ torrent' = [torrent EXCEPT ![h] = IF @ = None
                   THEN [marker |-> 0, known |-> TRUE, whole |-> FALSE, running |-> FALSE] ELSE None]
              /\ UNCHANGED <<store, lock, call, issued, probes, left>>

\* The process stops and starts again.
Crash == /\ Fault
         /\ \E p \in Proc : call[p].pc # "idle"
         /\ left' = left \cup {call[p].marker : p \in {q \in Proc : call[q].op = "preview"}}
         /\ call' = [p \in Proc |-> Idle]
         /\ lock' = [h \in Hash |-> None]
         /\ UNCHANGED <<store, torrent, issued, probes>>

Ensures(p) == \/ EnsureRefused(p) \/ EnsureConflict(p) \/ EnsureQueues(p)
              \/ EnsureRegisters(p) \/ EnsureFinds(p)
Steps(p) == \/ Admits(p) \/ Submits(p) \/ MoreRefused(p) \/ MoreRegisters(p) \/ Prepares(p)
            \/ DeletesTorrent(p) \/ Runs(p) \/ ProbeSubmits(p) \/ ProbeWaits(p)
            \/ ProbeFetches(p) \/ Cleans(p) \/ CleansAgain(p)
Enters(p) == Ensures(p) \/ Deletes(p) \/ Probes(p)

Next == \/ \E p \in Proc : Steps(p) \/ Enters(p)
        \/ \E p \in Client : \E op \in Ops[p], h \in Hash : Starts(p, op, h)
        \/ TickStarts \/ TickRetries
        \/ \E h \in Hash : Fetches(h) \/ Changes(h)
        \/ Crash

Spec == Init /\ [][Next]_vars

\* Calls end by their timeouts, the locks are first come first served, the job
\* runner ticks, and a torrent that runs gets its metadata and its data.
FairSpec == /\ Spec
            /\ \A p \in Proc : WF_vars(Steps(p)) /\ SF_vars(Enters(p))
            /\ WF_vars(TickStarts) /\ WF_vars(TickRetries)
            /\ \A h \in Hash : WF_vars(Fetches(h))
-----------------------------------------------------------------------------
\* Every variable keeps its type.
TypeOK == /\ store \in [Hash -> Record \cup {None}]
          /\ torrent \in [Hash -> Torrent \cup {None}]
          /\ lock \in [Hash -> Proc \cup {None}]
          /\ call \in [Proc -> Call]
          /\ issued \in 0..MaxMarker /\ faults \in 0..MaxFaults
          /\ probes \subseteq 1..MaxMarker /\ left \subseteq 0..MaxMarker

Previewed(h, m) == \E p \in Proc : call[p].op = "preview" /\ call[p].h = h /\ call[p].marker = m
Probe(h) == torrent[h] # None /\ torrent[h].marker \in probes

\* A preview's torrent is in the backend only while the preview runs, or after a
\* fault the code cannot repair: the process died, the answer to the submit was
\* lost, or the look and the removal that follows it both failed
\* (transfers.ts:309-337, 349-358).
ProbesGoAway == \A h \in Hash : Probe(h) => Previewed(h, torrent[h].marker) \/ torrent[h].marker \in left

\* A title that clients see never stands on a preview's torrent: neither does a
\* preview probe a title that was added while it waited, nor does an addition
\* take a probe for its own (transfers.ts:277-280).
TitlesOwnTheirTorrents ==
  \A h \in Hash : Visible(h) /\ Probe(h) => torrent[h].marker \in left

\* What stops the queue: an older request only a client's turn can fetch, or slots
\* held by titles whose torrent is gone, is not theirs, or is stopped.
Stuck(g) == Active(g) /\ (~Owned(g) \/ ~torrent[g].running)
Behind(h) == \E u \in Url : Life(u) = "queued" /\ store[u].marker < store[h].marker

\* A request that waits in the queue is admitted, refused for good or removed, unless
\* one of a URL is before it or stuck titles hold the slots (queue.ts:26-28).
QueueMoves ==
  \A h \in Hash \ Url :
    Life(h) = "queued" ~>
      (Life(h) # "queued" \/ Behind(h) \/ \E g \in Hash : Stuck(g))
=============================================================================
