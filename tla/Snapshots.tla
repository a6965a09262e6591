----------------------------- MODULE Snapshots -----------------------------
(***************************************************************************)
(* The list of our jobs that all readers share for five seconds            *)
(* (src/backends/snapshot.ts), beside the operations of clients that       *)
(* change it and invalidate it when they end (src/application/             *)
(* transfers.ts), and the work of the process that changes it and does     *)
(* not: admissions from the queue, recovery, playback, the sweep (src/     *)
(* downloads/queue.ts, recovery.ts, manager.ts, src/retention/sweeper.ts). *)
(* The backend's list is a number, that of the last change.                *)
(***************************************************************************)
EXTENDS Naturals, Sequences, FiniteSets, FiniteSetsExt

CONSTANTS Viewer,    \* readers
          TTL,       \* the time a list serves
          MaxNow,    \* bound: time
          MaxLists   \* bound: lists asked for

VARIABLES now,
          jobs,      \* the number of the last change
          settled,   \* history: that of the last operation that has succeeded
          mutated,   \* history: that of the last change the process has completed
          operation, \* a client's operation: its change, 0 when there is none
          list,      \* the lists asked for: taken at `jobs`, answered at `at`
          snapshot,  \* the one in the map, 0 when there is none
          viewer     \* the readers

snapshotVars == <<now, jobs, settled, mutated, operation, list, snapshot, viewer>>

NoView == [at |-> "idle", list |-> 0, own |-> FALSE, floor |-> 0, done |-> 0, saw |-> 0]

SnapshotInit == /\ now = 1 /\ jobs = 1 /\ settled = 1 /\ mutated = 1 /\ operation = 0
                /\ list = <<>> /\ snapshot = 0
                /\ viewer = [v \in Viewer |-> NoView]

\* backend.list is asked, and the promise is in the map at once.
AsksList(v, view) ==
  /\ Len(list) < MaxLists
  /\ list' = Append(list, [value |-> 0, at |-> 0, state |-> "asked"])
  /\ snapshot' = Len(list')
  /\ viewer' = [viewer EXCEPT ![v] = [view EXCEPT !.at = "waits", !.list = Len(list'), !.own = TRUE]]

JoinsList(v, view) ==
  /\ viewer' = [viewer EXCEPT ![v] = [view EXCEPT !.at = "waits", !.list = snapshot, !.own = FALSE]]
  /\ UNCHANGED <<list, snapshot>>

BeginsView(v) ==
  /\ viewer[v].at = "idle"
  /\ LET view == [NoView EXCEPT !.floor = settled, !.done = mutated]
     IN  IF snapshot # 0 THEN JoinsList(v, view) ELSE AsksList(v, view)
  /\ UNCHANGED <<now, jobs, settled, mutated, operation>>

\* The backend looks at its jobs some time before its answer arrives.
ListTaken(l) == /\ list[l].state = "asked"
                /\ list' = [list EXCEPT ![l].value = jobs, ![l].state = "taken"]
                /\ UNCHANGED <<now, jobs, settled, mutated, operation, snapshot, viewer>>

ListAnswered(l) == /\ list[l].state = "taken"
                   /\ list' = [list EXCEPT ![l].at = now, ![l].state = "answered"]
                   /\ UNCHANGED <<now, jobs, settled, mutated, operation, snapshot, viewer>>

ListFails(l) == /\ list[l].state \in {"asked", "taken"}
                /\ list' = [list EXCEPT ![l] = [value |-> 0, at |-> 0, state |-> "failed"]]
                /\ UNCHANGED <<now, jobs, settled, mutated, operation, snapshot, viewer>>

Waiting(v) == viewer[v].at = "waits"
Its(v) == list[viewer[v].list]

\* The one who asked has the list, whatever its age; another one while it is fresh.
SeesList(v) ==
  /\ Waiting(v) /\ Its(v).state = "answered"
  /\ viewer[v].own \/ now - Its(v).at <= TTL
  /\ viewer' = [viewer EXCEPT ![v].at = "saw", ![v].saw = Its(v).value]
  /\ UNCHANGED <<now, jobs, settled, mutated, operation, list, snapshot>>

\* It is too old: the reader begins again when there is another, or asks for one.
SeesOldList(v) ==
  /\ Waiting(v) /\ Its(v).state = "answered"
  /\ ~viewer[v].own /\ now - Its(v).at > TTL
  /\ IF snapshot # viewer[v].list /\ snapshot # 0 THEN JoinsList(v, viewer[v]) ELSE AsksList(v, viewer[v])
  /\ UNCHANGED <<now, jobs, settled, mutated, operation>>

\* Who asked takes a list that failed out of the map; the readers fail.
SeesFailure(v) ==
  /\ Waiting(v) /\ Its(v).state = "failed"
  /\ snapshot' = IF viewer[v].own /\ snapshot = viewer[v].list THEN 0 ELSE snapshot
  /\ viewer' = [viewer EXCEPT ![v].at = "saw", ![v].saw = jobs]
  /\ UNCHANGED <<now, jobs, settled, mutated, operation, list>>

LeavesView(v) == /\ viewer[v].at = "saw"
                 /\ viewer' = [viewer EXCEPT ![v] = NoView]
                 /\ UNCHANGED <<now, jobs, settled, mutated, operation, list, snapshot>>

\* An addition, a selection, a pause or a removal takes effect in the backend.
OperationActs == /\ operation = 0
                 /\ jobs' = jobs + 1
                 /\ operation' = jobs'
                 /\ UNCHANGED <<now, settled, mutated, list, snapshot, viewer>>

\* Mutant: an operation that ends without invalidating.
OperationEndsQuietly == /\ operation # 0
                        /\ settled' = operation /\ mutated' = Max({mutated, operation})
                        /\ operation' = 0
                        /\ UNCHANGED <<now, jobs, list, snapshot, viewer>>

\* invalidateBackendSnapshot, then the answer to the client.
OperationEnds == /\ operation # 0
                 /\ snapshot' = 0
                 /\ settled' = operation /\ mutated' = Max({mutated, operation})
                 /\ operation' = 0
                 /\ UNCHANGED <<now, jobs, list, viewer>>

\* It fails, or is answered "pending": nothing is invalidated.
OperationFails == /\ operation # 0
                  /\ operation' = 0
                  /\ UNCHANGED <<now, jobs, settled, mutated, list, snapshot, viewer>>

\* A queued title is submitted, a registration finished, a torrent prepared for
\* playback, or swept.
BackgroundActs == /\ jobs' = jobs + 1
                  /\ mutated' = jobs'
                  /\ UNCHANGED <<now, settled, operation, list, snapshot, viewer>>

TimePasses == /\ now < MaxNow
              /\ now' = now + 1
              /\ UNCHANGED <<jobs, settled, mutated, operation, list, snapshot, viewer>>

SnapshotNext == \/ \E v \in Viewer : BeginsView(v) \/ SeesList(v) \/ SeesOldList(v) \/ SeesFailure(v) \/ LeavesView(v)
                \/ \E l \in DOMAIN list : ListTaken(l) \/ ListAnswered(l) \/ ListFails(l)
                \/ jobs < MaxLists /\ (OperationActs \/ BackgroundActs)
                \/ OperationEnds \/ OperationFails \/ TimePasses

SnapshotSpec == SnapshotInit /\ [][SnapshotNext]_snapshotVars
-----------------------------------------------------------------------------
\* A reader that begins after an operation has succeeded sees it in the list,
\* though other readers asked before it, wait for the same answer, or find theirs
\* too old ("so the next reader does not serve a stale list", snapshot.ts:15-16).
AnsweredIsListed == \A v \in Viewer : viewer[v].at = "saw" => viewer[v].saw >= viewer[v].floor

\* A reader sees every change the process had completed when it began ("Mutations must
\* call `invalidateBackendSnapshot` so the next reader does not serve a stale list",
\* snapshot.ts:15-16): a title that has just left the queue is in the list by which
\* its status is told (transfers.ts:159-169).
MutationsAreListed == \A v \in Viewer : viewer[v].at = "saw" => viewer[v].saw >= viewer[v].done
=============================================================================
