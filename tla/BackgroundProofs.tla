-------------------------- MODULE BackgroundProofs --------------------------
(***************************************************************************)
(* The runner of background jobs and the backend adapters.                 *)
(*                                                                         *)
(* The runner: the table of jobs keeps its shape, and a retry job stays    *)
(* until the title it is for is gone.                                      *)
(*                                                                         *)
(* The adapters: the inductive invariant AdapterInv says of every call     *)
(* under way that its list of steps is a `Program` (words of its           *)
(* operation, each after one that it may follow, its parts in their order) *)
(* and what it has established so far: of Deluge, a session that is good,  *)
(* a daemon that is attached, a plugin that is enabled or about to be, a   *)
(* label that exists or is about to; of SABnzbd, the list that the job is  *)
(* in; of all, the job itself.  A call gives these up only when it is      *)
(* disturbed, crossed or robbed, and that is noted.  Lists are never       *)
(* followed by induction: an answer replaces the head of a list (`Splice`),*)
(* an exception cuts it (`Suffix`), and each keeps a program a program.    *)
(***************************************************************************)
EXTENDS JobRunner, Adapters, FiniteSetTheorems, SequenceTheorems, TLAPS

\* The rows a job's end or a registration may leave are rows of the table.
LEMMA EnsureKeeps ==
  ASSUME NEW table \in [Job -> Row \cup {NoRow}], NEW jobs \in SUBSET Job, NEW next \in Int
  PROVE  /\ ensure(table, jobs, next) \in [Job -> Row \cup {NoRow}]
         /\ \A j \in Job : table[j] # NoRow => ensure(table, jobs, next)[j] = table[j]
         /\ \A j \in jobs : ensure(table, jobs, next)[j] # NoRow
<1>1. [next |-> next, lease |-> -1, attempts |-> 0] \in Row
  BY TimeAssumption DEF Row
<1> QED
  BY <1>1, NoRowAssumption DEF ensure

\* Rescheduling writes a row, and only where there is one.
LEMMA RescheduleKeeps ==
  ASSUME NEW table \in [Job -> Row \cup {NoRow}], NEW j \in Job,
         NEW next \in Int, NEW attempts \in 0..MaxAttempts
  PROVE  /\ reschedule(table, j, next, attempts) \in [Job -> Row \cup {NoRow}]
         /\ \A k \in Job : reschedule(table, j, next, attempts)[k] = NoRow <=> table[k] = NoRow
<1>1. [next |-> next, lease |-> -1, attempts |-> attempts] \in Row
  BY DEF Row
<1> QED
  BY <1>1, NoRowAssumption DEF reschedule

\* So does the end of a run, with success or without.
LEMMA EndKeeps ==
  ASSUME NEW table \in [Job -> Row \cup {NoRow}], NEW r \in Run
  PROVE  /\ Failed(table, r) \in [Job -> Row \cup {NoRow}]
         /\ \A k \in Job : Failed(table, r)[k] = NoRow <=> table[k] = NoRow
         /\ r.job \in Recurring =>
              /\ Succeeded(table, r) \in [Job -> Row \cup {NoRow}]
              /\ \A k \in Job : Succeeded(table, r)[k] = NoRow <=> table[k] = NoRow
<1>1. r.job \in Job /\ r.attempts \in 0..MaxAttempts
  BY DEF Run
<1>2. backoff(r.attempts) \in Int
  BY <1>1, BackoffAssumption
<1>3. Lesser(r.attempts + 1, MaxAttempts) \in 0..MaxAttempts
  BY <1>1, TimeAssumption DEF Lesser
<1>4. /\ Failed(table, r) \in [Job -> Row \cup {NoRow}]
      /\ \A k \in Job : Failed(table, r)[k] = NoRow <=> table[k] = NoRow
  BY <1>1, <1>2, <1>3, RescheduleKeeps DEF Failed
<1>5. ASSUME r.job \in Recurring
      PROVE  /\ Succeeded(table, r) \in [Job -> Row \cup {NoRow}]
             /\ \A k \in Job : Succeeded(table, r)[k] = NoRow <=> table[k] = NoRow
  <2>1. Interval[r.job] \in Int /\ 0 \in 0..MaxAttempts
    BY <1>5, JobAssumption, TimeAssumption
  <2> QED
    BY <1>1, <2>1, RescheduleKeeps DEF Succeeded
<1> QED
  BY <1>4, <1>5

\* The runs in flight are within the slots.
Slots(Rs) == IsFiniteSet(Rs) /\ Cardinality(Rs) <= MAX_CONCURRENT

\* Runs that end leave slots, and a run that changes keeps its own.
LEMMA SlotsKept ==
  ASSUME NEW Rs, Slots(Rs)
  PROVE  /\ \A r \in Rs : Slots(Rs \ {r})
         /\ \A r \in Rs : \A x : Slots((Rs \ {r}) \cup {x})
<1>1. Cardinality(Rs) \in Nat
  BY FS_CardinalityType DEF Slots
<1>2. ASSUME NEW r \in Rs
      PROVE  IsFiniteSet(Rs \ {r}) /\ Cardinality(Rs \ {r}) = Cardinality(Rs) - 1
  BY FS_RemoveElement DEF Slots
<1>3. ASSUME NEW r \in Rs, NEW x PROVE Slots((Rs \ {r}) \cup {x})
  <2>1. /\ IsFiniteSet((Rs \ {r}) \cup {x})
        /\ Cardinality((Rs \ {r}) \cup {x}) =
             IF x \in Rs \ {r} THEN Cardinality(Rs \ {r}) ELSE Cardinality(Rs \ {r}) + 1
    BY <1>2, <1>3, FS_AddElement
  <2> QED
    BY <1>1, <1>2, <1>3, <2>1, TimeAssumption DEF Slots
<1> QED
  BY <1>1, <1>2, <1>3, TimeAssumption DEF Slots

\* Time passes for all runs alike and makes no new ones.
LEMMA SlotsAge ==
  ASSUME NEW Rs, Slots(Rs)
  PROVE  Slots({[r EXCEPT !.left = @ - 1] : r \in Rs})
<1> DEFINE T == {[r EXCEPT !.left = @ - 1] : r \in Rs}
           age == [r \in Rs |-> [r EXCEPT !.left = @ - 1]]
<1>1. age \in Surjection(Rs, T)
  <2>1. age \in [Rs -> T]
    OBVIOUS
  <2>2. \A t \in T : \E r \in Rs : age[r] = t
    OBVIOUS
  <2> QED
    BY <2>1, <2>2 DEF Surjection
<1>2. IsFiniteSet(T) /\ Cardinality(T) <= Cardinality(Rs)
  BY <1>1, FS_Surjection DEF Slots
<1> QED
  BY <1>2, FS_CardinalityType, TimeAssumption DEF Slots
-----------------------------------------------------------------------------
\* The type invariant without the count of the runs.
Shape == /\ rows \in [Job -> Row \cup {NoRow}]
         /\ runs \subseteq Run
         /\ ticking \in BOOLEAN
         /\ title \in [Hash -> {"gone", "tracked", "expired"}]
         /\ owed \subseteq Hash
         /\ restarts \in 0..MaxRestarts

\* Every step writes whole rows (sqlite/jobs.ts:31-53).
LEMMA ShapeKept ==
  ASSUME Shape, [Next]_vars
  PROVE  Shape'
<1> USE DEF Shape
<1>1. ASSUME NEW j \in Job, claimDue(j) PROVE Shape'
  <2>1. rows[j] \in Row
    BY <1>1 DEF claimDue, Claimable
  <2>2. [rows[j] EXCEPT !.lease = LEASE] \in Row
    BY <2>1, TimeAssumption DEF Row
  <2>3. rows' \in [Job -> Row \cup {NoRow}]
    BY <1>1, <2>2 DEF claimDue
  <2>4. [job |-> j, left |-> Longest[j], attempts |-> rows[j].attempts, failed |-> {}] \in Run
    BY <2>1, JobAssumption DEF Row, Run
  <2> QED
    BY <1>1, <2>3, <2>4 DEF claimDue
<1>2. CASE TickEnds
  BY <1>2 DEF TickEnds
<1>3. CASE Advance
  <2>1. ASSUME NEW r \in runs PROVE [r EXCEPT !.left = @ - 1] \in Run
    <3>1. r \in Run /\ r.left \in Nat /\ r.left > 0
      BY <1>3 DEF Advance, Run
    <3>2. r.left - 1 \in Nat
      BY <3>1
    <3> QED
      BY <3>1, <3>2 DEF Run
  <2>2. ASSUME NEW j \in Job, rows[j] # NoRow
        PROVE  [rows[j] EXCEPT !.next = @ - 1, !.lease = @ - 1] \in Row
    <3>1. rows[j] \in Row
      BY <2>2
    <3>2. rows[j].next - 1 \in Int /\ rows[j].lease - 1 \in Int
      BY <3>1 DEF Row
    <3> QED
      BY <3>1, <3>2 DEF Row
  <2>3. rows' \in [Job -> Row \cup {NoRow}]
    BY <1>3, <2>2 DEF Advance
  <2> QED
    BY <1>3, <2>1, <2>3 DEF Advance
<1>4. ASSUME NEW r \in runs, RecurringEnds(r) PROVE Shape'
  BY <1>4, EndKeeps DEF RecurringEnds
<1>5. ASSUME NEW r \in runs, SweepEnds(r) PROVE Shape'
  <2> DEFINE table == ensure(rows, r.failed, MIN_RETRY)
  <2>1. r.failed \in SUBSET Hash /\ r.failed \in SUBSET Job
    BY DEF Run, Job
  <2>2. table \in [Job -> Row \cup {NoRow}]
    <3>1. MIN_RETRY \in Int
      BY TimeAssumption
    <3> QED
      BY <2>1, <3>1, EnsureKeeps, Zenon
  <2>3. rows' \in [Job -> Row \cup {NoRow}]
    <3> HIDE DEF table
    <3>1. rows' \in {Succeeded(table, r), Failed(table, r)} /\ r.job \in Recurring
      BY <1>5, JobAssumption DEF SweepEnds, table
    <3> QED
      BY <2>2, <3>1, EndKeeps
  <2> QED
    BY <1>5, <2>1, <2>3 DEF SweepEnds
<1>6. ASSUME NEW r \in runs, RetryEnds(r) PROVE Shape'
  BY <1>6, EndKeeps DEF RetryEnds
<1>7. ASSUME NEW r \in runs, NEW h \in Hash, SweepDeletes(r, h) PROVE Shape'
  BY <1>7 DEF SweepDeletes
<1>8. ASSUME NEW r \in runs, NEW h \in Hash, SweepFails(r, h) PROVE Shape'
  <2>1. [r EXCEPT !.failed = @ \cup {h}] \in Run
    BY DEF Run
  <2> QED
    BY <1>8, <2>1 DEF SweepFails
<1>9. ASSUME NEW h \in Hash, TitleChanges(h) PROVE Shape'
  BY <1>9 DEF TitleChanges
<1>10. CASE Restart
  <2>1. rows' \in [Job -> Row \cup {NoRow}]
    BY <1>10, EnsureKeeps DEF Restart, Job
  <2> QED
    BY <1>10, <2>1, TimeAssumption DEF Restart
<1>11. CASE UNCHANGED vars
  BY <1>11 DEF vars
<1> QED
  BY <1>1, <1>2, <1>3, <1>4, <1>5, <1>6, <1>7, <1>8, <1>9, <1>10, <1>11 DEF Next

\* A job is claimed into a free slot only (runner.ts:94).
LEMMA StepKeepsSlots ==
  ASSUME Slots(runs), [Next]_vars
  PROVE  Slots(runs')
<1>1. ASSUME NEW j \in Job, claimDue(j) PROVE Slots(runs')
  <2>1. PICK r : runs' = runs \cup {r}
    BY <1>1 DEF claimDue
  <2>2. /\ IsFiniteSet(runs \cup {r})
        /\ Cardinality(runs \cup {r}) <= Cardinality(runs) + 1
        /\ Cardinality(runs) \in Nat /\ Cardinality(runs \cup {r}) \in Nat
    <3>1. IsFiniteSet(runs) /\ Cardinality(runs) \in Nat
      BY FS_CardinalityType DEF Slots
    <3>2. /\ IsFiniteSet(runs \cup {r})
          /\ Cardinality(runs \cup {r}) =
               IF r \in runs THEN Cardinality(runs) ELSE Cardinality(runs) + 1
      BY <3>1, FS_AddElement
    <3> QED
      BY <3>1, <3>2
  <2>3. Cardinality(runs) < MAX_CONCURRENT
    BY <1>1 DEF claimDue, Free
  <2> QED
    BY <2>1, <2>2, <2>3, TimeAssumption DEF Slots
<1>2. CASE TickEnds
  BY <1>2 DEF TickEnds
<1>3. CASE Advance
  <2>1. runs' = {[r EXCEPT !.left = @ - 1] : r \in runs}
    BY <1>3 DEF Advance
  <2> QED
    BY <2>1, SlotsAge
<1>4. ASSUME NEW r \in runs, RecurringEnds(r) \/ SweepEnds(r) \/ RetryEnds(r) PROVE Slots(runs')
  <2>1. runs' = runs \ {r}
    BY <1>4 DEF RecurringEnds, SweepEnds, RetryEnds
  <2> QED
    BY <2>1, SlotsKept
<1>5. ASSUME NEW r \in runs, NEW h \in Hash, SweepDeletes(r, h) PROVE Slots(runs')
  BY <1>5 DEF SweepDeletes
<1>6. ASSUME NEW r \in runs, NEW h \in Hash, SweepFails(r, h) PROVE Slots(runs')
  <2>1. PICK x : runs' = (runs \ {r}) \cup {x}
    BY <1>6 DEF SweepFails
  <2> QED
    BY <2>1, SlotsKept
<1>7. ASSUME NEW h \in Hash, TitleChanges(h) PROVE Slots(runs')
  BY <1>7 DEF TitleChanges
<1>8. CASE Restart
  <2>1. runs' = {}
    BY <1>8 DEF Restart
  <2> QED
    BY <2>1, FS_EmptySet, TimeAssumption DEF Slots
<1>9. CASE UNCHANGED vars
  BY <1>9 DEF vars
<1> QED
  BY <1>1, <1>2, <1>3, <1>4, <1>5, <1>6, <1>7, <1>8, <1>9 DEF Next

\* Every variable keeps its type, and no more jobs run at once than there are
\* slots (MAX_CONCURRENT, runner.ts:94), a job that is claimed twice included.
THEOREM TypeCorrect == Spec => []TypeOK
<1>1. Init => Shape /\ Slots(runs)
  <2> SUFFICES ASSUME Init PROVE Shape /\ Slots(runs)
    OBVIOUS
  <2>1. [j \in Job |-> NoRow] \in [Job -> Row \cup {NoRow}] /\ Recurring \in SUBSET Job
    BY DEF Job
  <2>2. rows \in [Job -> Row \cup {NoRow}]
    BY <2>1, EnsureKeeps DEF Init
  <2>3. Slots(runs)
    BY FS_EmptySet, TimeAssumption DEF Init, Slots
  <2> QED
    BY <2>2, <2>3, TimeAssumption DEF Init, Shape
<1>2. Shape /\ Slots(runs) /\ [Next]_vars => Shape' /\ Slots(runs)'
  BY ShapeKept, StepKeepsSlots
<1>3. Shape /\ Slots(runs) => TypeOK
  BY DEF Shape, Slots, TypeOK
<1> QED
  BY <1>1, <1>2, <1>3, PTL DEF Spec


\* A title a sweep failed on has its retry job until it is gone, whatever runs
\* overlap and whenever the process restarts (runner.ts:84-86 and :118-127).
THEOREM FailuresRetried == Spec => []FailuresAreRetried
<1>1. Init => FailuresAreRetried
  BY DEF Init, FailuresAreRetried
<1>2. TypeOK /\ FailuresAreRetried /\ [Next]_vars => FailuresAreRetried'
  <2> SUFFICES ASSUME TypeOK, FailuresAreRetried, [Next]_vars,
                      NEW h \in owed' PROVE rows'[h] # NoRow
    BY DEF FailuresAreRetried
  <2>0. /\ rows \in [Job -> Row \cup {NoRow}] /\ owed \subseteq Hash /\ Hash \subseteq Job
        /\ \A r \in runs : r \in Run
        /\ \A k \in owed : rows[k] # NoRow
    BY DEF TypeOK, FailuresAreRetried, Job
  <2>1. ASSUME NEW j \in Job, claimDue(j) PROVE rows'[h] # NoRow
    <3>1. /\ h \in owed /\ h \in Job
          /\ rows' = [rows EXCEPT ![j].lease = LEASE]
          /\ rows[j] \in Row
      BY <2>0, <2>1 DEF claimDue, Claimable
    <3>2. [rows[j] EXCEPT !.lease = LEASE] \in Row
      BY <3>1, TimeAssumption DEF Row
    <3> QED
      BY <2>0, <3>1, <3>2, NoRowAssumption
  <2>2. CASE TickEnds
    BY <2>0, <2>2 DEF TickEnds
  <2>3. CASE Advance
    <3>1. h \in owed /\ h \in Job /\ rows[h] \in Row
      BY <2>0, <2>3 DEF Advance
    <3>2. [rows[h] EXCEPT !.next = @ - 1, !.lease = @ - 1] \in Row
      <4>1. rows[h].next - 1 \in Int /\ rows[h].lease - 1 \in Int
        BY <3>1 DEF Row
      <4> QED
        BY <3>1, <4>1 DEF Row
    <3> QED
      BY <2>0, <2>3, <3>1, <3>2, NoRowAssumption DEF Advance
  <2>4. ASSUME NEW r \in runs, RecurringEnds(r) PROVE rows'[h] # NoRow
    BY <2>0, <2>4, EndKeeps DEF RecurringEnds
  <2>5. ASSUME NEW r \in runs, SweepEnds(r) PROVE rows'[h] # NoRow
    <3> DEFINE table == ensure(rows, r.failed, MIN_RETRY)
    <3>1. r \in Run /\ r.failed \in SUBSET Job /\ r.failed \subseteq Hash
      BY <2>0 DEF Run
    <3>2. /\ table \in [Job -> Row \cup {NoRow}]
          /\ \A j \in Job : rows[j] # NoRow => table[j] = rows[j]
          /\ \A j \in r.failed : table[j] # NoRow
      <4>1. MIN_RETRY \in Int
        BY TimeAssumption
      <4>2. rows \in [Job -> Row \cup {NoRow}] /\ r.failed \in SUBSET Job
        BY <2>0, <3>1
      <4> QED
        BY <4>1, <4>2, EnsureKeeps, Zenon
    <3>3. /\ rows' \in {Succeeded(table, r), Failed(table, r)}
          /\ r.job \in Recurring
          /\ h \in owed \/ h \in r.failed
      BY <2>5, JobAssumption DEF SweepEnds
    <3> HIDE DEF table
    <3>4. h \in Job /\ table[h] # NoRow
      BY <2>0, <3>1, <3>2, <3>3
    <3> QED
      BY <3>1, <3>2, <3>3, <3>4, EndKeeps
  <2>6. ASSUME NEW r \in runs, RetryEnds(r) PROVE rows'[h] # NoRow
    <3>1. CASE rows' = [rows EXCEPT ![r.job] = NoRow] /\ owed' = owed \ {r.job}
      BY <2>0, <3>1
    <3>2. CASE rows' = Failed(rows, r) /\ owed' = owed
      BY <2>0, <3>2, EndKeeps
    <3> QED
      BY <2>6, <3>1, <3>2 DEF RetryEnds
  <2>7. ASSUME NEW r \in runs, NEW k \in Hash, SweepDeletes(r, k) PROVE rows'[h] # NoRow
    BY <2>0, <2>7 DEF SweepDeletes
  <2>8. ASSUME NEW r \in runs, NEW k \in Hash, SweepFails(r, k) PROVE rows'[h] # NoRow
    BY <2>0, <2>8 DEF SweepFails
  <2>9. ASSUME NEW k \in Hash, TitleChanges(k) PROVE rows'[h] # NoRow
    BY <2>0, <2>9 DEF TitleChanges
  <2>10. CASE Restart
    BY <2>0, <2>10, EnsureKeeps DEF Restart, Job
  <2>11. CASE UNCHANGED vars
    BY <2>0, <2>11 DEF vars
  <2> QED
    BY <2>1, <2>2, <2>3, <2>4, <2>5, <2>6, <2>7, <2>8, <2>9, <2>10, <2>11 DEF Next
<1> QED
  BY <1>1, <1>2, TypeCorrect, PTL DEF Spec
-----------------------------------------------------------------------------
\* The operations, markers and steps of the adapters.
Op == {"submit", "mark", "select", "run", "remove", "look"}
Marker == {Issued, Adopted, "none"}
Word == {"torrents/add", "addTags", "filePrio", "version", "start-stop", "delete", "info",
         "torrent-add", "set-labels", "get-labels", "files-wanted", "torrent-remove",
         "queue", "history", "existing", "addfile", "markable", "change_cat", "inQueue", "found",
         "look", "delete_nzf", "pause-resume",
         "ensureSession", "login", "connected", "get_hosts", "connect", "ensureLabelPlugin", "plugins",
         "enable_plugin", "get_labels", "add_label", "orExists", "set_label", "add", "orMagnet",
         "status", "files", "orNoFiles", "priorities", "set_options", "run", "remove"}
Line == [do : Word, again : BOOLEAN, refused : BOOLEAN]
Reading == [markers : SUBSET Marker, files : BOOLEAN, off : SUBSET File,
            place : {"nowhere", "queue", "history"}]
Calling == [op : Op \cup {"none"}, marker : Marker, files : SUBSET File, want : BOOLEAN, magnet : BOOLEAN,
            todo : Seq(Line), sent : {"none", "good", "stale"},
            state : {"running", "ok", "unreachable", "unexpected_response", "authentication"},
            read : Reading, disturbed : BOOLEAN, crossed : BOOLEAN, robbed : BOOLEAN, done : BOOLEAN]
Torrent == [there : BOOLEAN, ours : BOOLEAN, markers : SUBSET Marker, off : SUBSET File,
        running : BOOLEAN, known : BOOLEAN, past : BOOLEAN]
Service == [job : Torrent, attached : BOOLEAN, plugin : BOOLEAN, labels : SUBSET SUBSET Marker]

AdapterTypeOK == /\ kind \in Kind
                 /\ client \in Client
                 /\ service \in Service
                 /\ call \in [Proc -> Calling]
                 /\ troubles \in Nat
-----------------------------------------------------------------------------
Local == DelugeLocal \cup SabnzbdLocal

Session == {"ensureSession", "login", "connected", "get_hosts", "connect"}
Plugging == {"ensureLabelPlugin", "plugins", "enable_plugin"}
Labelling == Plugging \cup {"get_labels", "add_label", "orExists", "set_label"}
Needs == {"add", "status", "files", "run", "remove", "plugins", "enable_plugin", "get_labels",
          "add_label", "set_label", "set_options"}
Firsts == {"add", "status", "files", "run", "remove"}

DelugeWords(op) == Session \cup CASE op = "submit" -> {"add", "orMagnet"} \cup Labelling
                              [] op = "mark" -> {"status"} \cup Labelling
                              [] op = "select" -> {"files", "orNoFiles", "priorities", "set_options"}
                              [] op = "run" -> {"run"}
                              [] op = "remove" -> {"remove"}
                              [] op = "look" -> {"status"}
DelugeLasts(op) == CASE op \in {"submit", "mark"} -> {"set_label"}
               [] op = "select" -> {"priorities", "set_options"}
               [] op = "run" -> {"run"}
               [] op = "remove" -> {"remove"}
               [] op = "look" -> {"status"}
QBittorrentWords(op) == CASE op = "submit" -> {"torrents/add"}
    [] op = "mark" -> {"addTags"}
    [] op = "select" -> {"filePrio"}
    [] op = "run" -> {"version", "start-stop"}
    [] op = "remove" -> {"delete"}
    [] op = "look" -> {"info"}
TransmissionWords(op) == CASE op = "submit" -> {"torrent-add", "set-labels"}
    [] op = "mark" -> {"get-labels", "set-labels"}
    [] op = "select" -> {"files-wanted"}
    [] op = "run" -> {"start-stop"}
    [] op = "remove" -> {"torrent-remove"}
    [] op = "look" -> {"get-labels"}
SabnzbdWords(op) == {"queue", "history"} \cup
  CASE op = "submit" -> {"existing", "addfile", "change_cat"}
    [] op = "mark" -> {"markable", "change_cat"}
    [] op = "select" -> {"look", "inQueue", "delete_nzf"}
    [] op = "run" -> {"inQueue", "pause-resume"}
    [] op = "remove" -> {"found", "delete"}
    [] op = "look" -> {}
SabnzbdLasts(op) ==
  CASE op = "submit" -> {"addfile", "change_cat"}
    [] op = "mark" -> {"change_cat"}
    [] op = "select" -> {"look", "delete_nzf"}
    [] op = "run" -> {"pause-resume"}
    [] op = "remove" -> {"delete"}
    [] op = "look" -> {"queue", "history"}

Follows(w) == CASE w = "login" -> {"ensureSession"}
                [] w = "get_hosts" -> {"connect"}
                [] w \in {"ensureSession", "connected", "connect"} -> Needs \cup {"connected", "get_hosts", "connect"}
                [] w = "add" -> {"orMagnet", "ensureLabelPlugin"}
                [] w = "status" -> {"ensureLabelPlugin"}
                [] w = "files" -> {"orNoFiles"}
                [] w = "orNoFiles" -> {"priorities"}
                [] w = "orMagnet" -> {"ensureLabelPlugin"}
                [] w \in Plugging \cup {"get_labels", "orExists"} -> {"ensureSession"}
                [] w = "add_label" -> {"orExists"}
                [] w \in {"torrent-add", "get-labels"} -> {"set-labels"}
                [] w = "version" -> {"start-stop"}
                [] w \in {"queue", "history"} -> {"queue", "history", "existing", "markable", "inQueue", "found"}
                [] w = "existing" -> {"addfile"}
                [] w = "markable" -> {"change_cat"}
                [] w = "inQueue" -> {"delete_nzf", "pause-resume"}
                [] w = "found" -> {"delete"}
                [] OTHER -> {}

Stage(w) == CASE w \in Session -> 0
              [] w \in Firsts -> 1
              [] w \in {"orMagnet", "orNoFiles"} -> 2
              [] w \in Plugging \cup {"priorities", "set_options"} -> 3
              [] w \in {"get_labels", "add_label", "orExists"} -> 4
              [] w = "set_label" -> 5
              [] OTHER -> 0
Before(v, w) == Stage(v) # 0 /\ Stage(w) # 0 => Stage(v) <= Stage(w) /\ (Stage(v) = 1 => Stage(w) # 1)

Has(t, words) == \E i \in 1..Len(t) : t[i].do \in words
Once(t) == \E i \in 1..Len(t) : t[i].again

Program(words, lasts, t) ==
  /\ t # <<>>
  /\ \A i \in 1..Len(t) : t[i].do \in words
  /\ \A i \in 1..(Len(t) - 1) : t[i + 1].do \in Follows(t[i].do)
  /\ t[Len(t)].do \in lasts
  /\ \A i, j \in 1..Len(t) : i < j => Before(t[i].do, t[j].do)
  /\ \A i \in 2..Len(t) : ~t[i].refused

Quiet(c) == ~c.disturbed /\ (kind = "deluge" => ~c.robbed)
Fresh(n, t) == n = 0 \/ Once(t)

\* The job is as the caller found it.
Found(c, s, add) ==
  ~c.crossed => /\ c.op = "submit" => (s.job.there <=> ~Has(c.todo, {add}))
                /\ c.op \in {"mark", "select", "run", "remove"} => s.job.there

DelugeOK(n, c, mem, s) == LET t == c.todo  do == t[1].do IN
  /\ Program(DelugeWords(c.op), DelugeLasts(c.op), t)
  /\ t[1].refused => do # "login"
  /\ Quiet(c) => 
     /\ t[1].refused => ~Fresh(n, t)
     /\ Fresh(n, t) => /\ mem.session # "stale" /\ (mem.connected => s.attached)
                       /\ do \notin Local \cup {"login"} => mem.session = "good"
                       /\ do \in Needs => s.attached
     /\ c.op \in {"submit", "mark"} =>
          /\ mem.labelReady => s.plugin
          /\ s.plugin \/ Has(t, Plugging)
          /\ \/ Has(t, {"get_labels", "add_label"})
             \/ Label(c) \in s.labels /\ ~Has(t, Firsts)
     /\ Found(c, s, "add")

QBittorrentOK(c, s) ==
  /\ Program(QBittorrentWords(c.op), IF c.op = "run" THEN {"start-stop"} ELSE QBittorrentWords(c.op), c.todo)
  /\ \A i \in 2..Len(c.todo) : ~c.todo[i].again
  /\ Quiet(c) /\ c.todo[1].refused => ~c.todo[1].again
  /\ Found(c, s, "torrents/add")
TransmissionOK(c, s) ==
  /\ Program(TransmissionWords(c.op), IF c.op \in {"submit", "mark"} THEN {"set-labels"} ELSE TransmissionWords(c.op), c.todo)
  /\ \A i \in 2..Len(c.todo) : ~c.todo[i].again
  /\ Quiet(c) /\ c.todo[1].refused => ~c.todo[1].again
  /\ Found(c, s, "torrent-add")
  /\ c.op = "submit" => c.crossed \/ c.done \/ Has(c.todo, {"torrent-add"})
SabnzbdOK(c, s) ==
  LET place == c.read.place  do == c.todo[1].do IN
  /\ Program(SabnzbdWords(c.op), SabnzbdLasts(c.op), c.todo)
  /\ ~c.todo[1].refused
  /\ c.op = "mark" /\ c.marker \in c.read.markers => c.done
  /\ ~c.crossed =>
       /\ c.op = "submit" => ~s.job.there /\ place = "nowhere"
       /\ c.op \in {"mark", "select", "run", "remove"} =>
            /\ s.job.there
            /\ place = "queue" => ~s.job.past
            /\ place = "history" => s.job.past
            /\ place = "nowhere" /\ do # "look" => (s.job.past \/ Has(c.todo, {"queue"})) /\ (~s.job.past \/ Has(c.todo, {"history"}))
  /\ do \in {"change_cat", "delete_nzf", "pause-resume"} => place = "queue"
  /\ do = "delete" => place # "nowhere"
  /\ do = "look" => c.want

CallOK(n, c, mem, s) == CASE kind = "deluge" -> DelugeOK(n, c, mem, s)
                      [] kind = "qbittorrent" -> QBittorrentOK(c, s)
                      [] kind = "transmission" -> TransmissionOK(c, s)
                      [] kind = "sabnzbd" -> SabnzbdOK(c, s)

\* What a list of steps is after its head is replaced.
LEMMA Spliced ==
  ASSUME NEW t \in Seq(Line), t # <<>>, NEW s \in Seq(Line)
  PROVE  /\ s \o Tail(t) \in Seq(Line)
         /\ Len(t) \in Nat /\ Len(t) >= 1 /\ Len(s) \in Nat
         /\ Len(s \o Tail(t)) = Len(s) + Len(t) - 1
         /\ \A i \in 1..Len(s) : (s \o Tail(t))[i] = s[i]
         /\ \A i \in 1..(Len(t) - 1) : (s \o Tail(t))[Len(s) + i] = t[i + 1]
         /\ Head(t) = t[1] /\ t[1] \in Line
<1>1. /\ Len(t) \in Nat /\ Len(t) >= 1 /\ Len(s) \in Nat /\ Tail(t) \in Seq(Line)
      /\ Len(Tail(t)) = Len(t) - 1 /\ Head(t) = t[1] /\ t[1] \in Line
  OBVIOUS
<1>2. \A i \in 1..(Len(t) - 1) : Tail(t)[i] = t[i + 1]
  OBVIOUS
<1>3. PICK r : r = Tail(t)
  OBVIOUS
<1>4. s \o r \in Seq(Line) /\ Len(s \o r) = Len(s) + Len(r) /\ \A i \in 1..Len(s) : (s \o r)[i] = s[i]
  BY <1>1, <1>3
<1>5. \A i \in 1..Len(r) : (s \o r)[Len(s) + i] = r[i]
  BY <1>1, <1>3
<1> QED BY <1>1, <1>2, <1>3, <1>4, <1>5

\* A step that a call is given is a line that nobody has refused or sent twice.
LEMMA StepIsLine == \A w \in Word : S(w) \in Line /\ S(w).do = w /\ ~S(w).refused /\ ~S(w).again
BY DEF S, Line

\* The second attempt of a step is the same request, not refused yet.
LEMMA AgainIsLine == \A x \in Line : Again(x) \in Line /\ Again(x).do = x.do /\ ~Again(x).refused /\ Again(x).again
BY DEF Again, Line

\* A set of numbers that is not empty has a least one.
LEMMA LeastOf ==
  ASSUME NEW T, T \subseteq Nat, T # {}
  PROVE  \E x \in T : \A y \in T : x <= y
<1>1. IsWellFoundedOn({ss \in Nat \X Nat : ss[1] < ss[2]}, Nat)
  BY NatLessThanWellFounded DEF OpToRel
<1>2. PICK R : R = {ss \in Nat \X Nat : ss[1] < ss[2]}
  OBVIOUS
<1>3. PICK x \in T : \A y \in T : ~ (<<y, x>> \in R)
  BY <1>1, <1>2, WFMin, Zenon
<1>4. ASSUME NEW y \in T PROVE x <= y
  <2>1. <<y, x>> \in Nat \X Nat /\ <<y, x>>[1] = y /\ <<y, x>>[2] = x
    OBVIOUS
  <2>2. ~(y < x)
    BY <1>2, <1>3, <2>1
  <2> QED BY <2>2
<1> QED BY <1>4

\* A list goes on where an error is caught, or the call ends with the error.
LEMMA Thrown ==
  ASSUME NEW c \in Calling, NEW error \in {"unreachable", "unexpected_response", "authentication"}
  PROVE  /\ Throw(c, error) \in Calling
         /\ \/ /\ Throw(c, error) = [c EXCEPT !.todo = <<>>, !.state = error]
               /\ \A i \in 1..Len(c.todo) : ~Catches(c.todo[i].do, error)
            \/ \E k \in 1..Len(c.todo) :
                 /\ Throw(c, error) = [c EXCEPT !.todo = SubSeq(c.todo, k, Len(c.todo))]
                 /\ Catches(c.todo[k].do, error)
                 /\ \A i \in 1..Len(c.todo) : Catches(c.todo[i].do, error) => k <= i
<1> DEFINE at == {i \in DOMAIN c.todo : Catches(c.todo[i].do, error)}
<1>1. c.todo \in Seq(Line) /\ DOMAIN c.todo = 1..Len(c.todo) /\ Len(c.todo) \in Nat
  BY DEF Calling
<1>2. CASE at = {}
  <2>1. Throw(c, error) = [c EXCEPT !.todo = <<>>, !.state = error]
    <3> HIDE DEF at
    <3> QED BY <1>2 DEF Throw, at
  <2>2. [c EXCEPT !.todo = <<>>, !.state = error] \in Calling
    <3>1. <<>> \in Seq(Line)
      OBVIOUS
    <3> QED BY <3>1 DEF Calling
  <2> QED BY <1>1, <1>2, <2>1, <2>2
<1>3. CASE at # {}
  <2>1. \E k \in at : \A j \in at : k <= j
    <3> HIDE DEF at
    <3>1. at \subseteq Nat
      BY <1>1 DEF at
    <3> QED BY <1>3, <3>1, LeastOf
  <2>2. PICK k : k = CHOOSE i \in at : \A j \in at : i <= j
    OBVIOUS
  <2>3. k \in at /\ \A j \in at : k <= j
    <3> HIDE DEF at
    <3> QED BY <2>1, <2>2
  <2>4. Throw(c, error) = [c EXCEPT !.todo = SubSeq(c.todo, k, Len(c.todo))]
    BY <1>3, <2>2 DEF Throw
  <2>5. SubSeq(c.todo, k, Len(c.todo)) \in Seq(Line)
    BY <1>1, <2>3
  <2>6. [c EXCEPT !.todo = SubSeq(c.todo, k, Len(c.todo))] \in Calling
    BY <2>5 DEF Calling
  <2> QED BY <1>1, <2>3, <2>4, <2>6
<1> QED BY <1>2, <1>3
-----------------------------------------------------------------------------
\* The steps s may take the place of a step w.
Fits(W, L, w, s) ==
  /\ \A i \in 1..Len(s) : s[i].do \in W /\ (i > 1 => ~s[i].refused)
  /\ \A i \in 1..(Len(s) - 1) : s[i + 1].do \in Follows(s[i].do)
  /\ s # <<>> => /\ Follows(w) \subseteq Follows(s[Len(s)].do)
                 /\ w \in L => s[Len(s)].do \in L
  /\ \A i, j \in 1..Len(s) : i < j => Before(s[i].do, s[j].do)
  /\ \A i \in 1..Len(s), v \in Word : Before(w, v) => Before(s[i].do, v)

\* When a list with its head replaced is empty, and how long the list was.
LEMMA Lengths ==
  \A a, b, c \in Nat : a >= 1 /\ c = b + a - 1 => (c = 0 <=> b = 0 /\ a = 1) /\ (a = 1 \/ a > 1)
OBVIOUS

\* What a program is after its head has been replaced.
Replaced(W, L, t, s, u) ==
  /\ u \in Seq(Line)
  /\ u = <<>> <=> s = <<>> /\ Len(t) = 1
  /\ u # <<>> => Program(W, L, u)
  /\ s = <<>> /\ u # <<>> => ~u[1].refused /\ u[1] = t[2] /\ u[1].do \in Follows(t[1].do)
  /\ s # <<>> => u[1] = s[1]
  /\ u = <<>> => t[1].do \in L
  /\ Once(u) => Once(s) \/ Once(t)
  /\ \A X : /\ Has(u, X) => Has(s, X) \/ Has(t, X)
            /\ Has(s, X) => Has(u, X)
            /\ Has(t, X) => t[1].do \in X \/ Has(u, X)
            /\ Has(u, X) => Has(s, X) \/ \E w \in X : Before(t[1].do, w)

\* What replaces the head of a program leaves a program, of the words of both.
LEMMA Splice ==
  ASSUME NEW W, NEW L, NEW t \in Seq(Line), Program(W, L, t), NEW s \in Seq(Line), Fits(W, L, t[1].do, s),
         NEW u, u = s \o Tail(t)
  PROVE  Replaced(W, L, t, s, u)
<1>1. t # <<>>
  BY DEF Program
<1>2. /\ u \in Seq(Line)
      /\ Len(t) \in Nat /\ Len(t) >= 1 /\ Len(s) \in Nat
      /\ Len(u) = Len(s) + Len(t) - 1
      /\ \A i \in 1..Len(s) : u[i] = s[i]
      /\ \A i \in 1..(Len(t) - 1) : u[Len(s) + i] = t[i + 1]
  BY <1>1, Spliced
<1>n. Len(t) \in Nat /\ Len(t) >= 1 /\ Len(s) \in Nat /\ Len(u) = Len(s) + Len(t) - 1
  BY <1>2
<1>l. (Len(u) = 0 <=> Len(s) = 0 /\ Len(t) = 1) /\ (Len(t) = 1 \/ Len(t) > 1)
  <2>1. Len(u) \in Nat
    BY <1>2
  <2> QED BY <1>n, <2>1, Lengths, Zenon
<1>3. u = <<>> <=> Len(u) = 0
  BY <1>2
<1>4. s = <<>> <=> Len(s) = 0
  OBVIOUS
<1>5. \A i \in 1..Len(u) : \/ i <= Len(s) /\ i \in 1..Len(s) /\ u[i] = s[i]
                           \/ i > Len(s) /\ i - Len(s) + 1 \in 2..Len(t) /\ u[i] = t[i - Len(s) + 1]
  <2> SUFFICES ASSUME NEW i \in 1..Len(u), i > Len(s)
               PROVE  i - Len(s) + 1 \in 2..Len(t) /\ u[i] = t[i - Len(s) + 1]
    BY <1>2
  <2>1. i - Len(s) \in 1..(Len(t) - 1) /\ Len(s) + (i - Len(s)) = i
    BY <1>2
  <2>2. u[Len(s) + (i - Len(s))] = t[(i - Len(s)) + 1]
    BY <1>2, <2>1
  <2> QED BY <1>2, <2>1, <2>2
<1>6. ASSUME u # <<>> PROVE Program(W, L, u)
  <2>1. \A i \in 1..Len(u) : u[i].do \in W
    BY <1>2, <1>5 DEF Program, Fits
  <2>2. ASSUME NEW i \in 1..(Len(u) - 1) PROVE u[i + 1].do \in Follows(u[i].do)
    <3>1. CASE i < Len(s)
      <4>1. u[i] = s[i] /\ u[i + 1] = s[i + 1] /\ i \in 1..(Len(s) - 1)
        BY <1>2, <3>1
      <4> QED BY <4>1 DEF Fits
    <3>2. CASE i = Len(s)
      <4>1. u[i] = s[Len(s)] /\ s # <<>> /\ 1 \in 1..(Len(t) - 1)
        BY <1>2, <1>4, <3>2
      <4>2. u[i + 1] = t[1 + 1] /\ t[1 + 1].do \in Follows(t[1].do)
        BY <1>2, <3>2, <4>1 DEF Program
      <4> QED BY <4>1, <4>2 DEF Fits
    <3>3. CASE i > Len(s)
      <4>1. i - Len(s) \in 1..(Len(t) - 1) /\ i + 1 - Len(s) \in 1..(Len(t) - 1)
        BY <1>2, <3>3
      <4>2. u[Len(s) + (i - Len(s))] = t[(i - Len(s)) + 1] /\ u[Len(s) + (i + 1 - Len(s))] = t[(i + 1 - Len(s)) + 1]
        BY <1>2, <4>1
      <4>3. Len(s) + (i - Len(s)) = i /\ Len(s) + (i + 1 - Len(s)) = i + 1 /\ (i + 1 - Len(s)) = (i - Len(s)) + 1
        BY <1>2
      <4>4. t[(i + 1 - Len(s)) + 1].do \in Follows(t[i + 1 - Len(s)].do)
        BY <4>1 DEF Program
      <4> QED BY <4>2, <4>3, <4>4
    <3> QED BY <1>2, <3>1, <3>2, <3>3
  <2>3. u[Len(u)].do \in L
    <3>1. CASE Len(t) = 1
      <4>1. Len(u) = Len(s) /\ s # <<>> /\ u[Len(u)] = s[Len(s)]
        BY <1>2, <1>3, <1>4, <1>6, <3>1
      <4>2. t[1].do \in L
        BY <3>1 DEF Program
      <4> QED BY <4>1, <4>2 DEF Fits
    <3>2. CASE Len(t) > 1
      <4>1. Len(t) - 1 \in 1..(Len(t) - 1) /\ Len(s) + (Len(t) - 1) = Len(u) /\ (Len(t) - 1) + 1 = Len(t)
        BY <1>2, <3>2
      <4>2. u[Len(s) + (Len(t) - 1)] = t[(Len(t) - 1) + 1]
        BY <1>2, <4>1
      <4>3. u[Len(u)] = t[Len(t)]
        BY <4>1, <4>2
      <4> QED BY <4>3 DEF Program
    <3> QED BY <1>l, <3>1, <3>2, Zenon
  <2>4. ASSUME NEW i \in 1..Len(u), NEW j \in 1..Len(u), i < j PROVE Before(u[i].do, u[j].do)
    <3>1. CASE j <= Len(s)
      <4>1. i \in 1..Len(s) /\ j \in 1..Len(s) /\ u[i] = s[i] /\ u[j] = s[j]
        BY <1>2, <2>4, <3>1
      <4> QED BY <2>4, <4>1 DEF Fits
    <3>2. CASE i <= Len(s) /\ j > Len(s)
      <4>1. u[i] = s[i] /\ i \in 1..Len(s) /\ j - Len(s) + 1 \in 2..Len(t) /\ u[j] = t[j - Len(s) + 1]
        BY <1>2, <1>5, <3>2
      <4>2. u[j].do \in Word
        <5>1. u[j] \in Line
          BY <1>2
        <5> QED BY <5>1 DEF Line
      <4>3. 1 \in 1..Len(t) /\ j - Len(s) + 1 \in 1..Len(t) /\ 1 < j - Len(s) + 1
        BY <1>2, <4>1
      <4>4. Before(t[1].do, u[j].do)
        BY <4>1, <4>3 DEF Program
      <4> QED BY <4>1, <4>2, <4>4 DEF Fits
    <3>3. CASE i > Len(s)
      <4>1. i - Len(s) + 1 \in 2..Len(t) /\ u[i] = t[i - Len(s) + 1] /\ j - Len(s) + 1 \in 2..Len(t) /\ u[j] = t[j - Len(s) + 1]
        BY <1>2, <1>5, <2>4, <3>3
      <4>2. PICK a, b : a = i - Len(s) + 1 /\ b = j - Len(s) + 1
        OBVIOUS
      <4>3. a \in 1..Len(t) /\ b \in 1..Len(t) /\ a < b
        BY <1>2, <2>4, <4>1, <4>2
      <4>4. Before(t[a].do, t[b].do)
        BY <4>3 DEF Program
      <4> QED BY <4>1, <4>2, <4>4
    <3> QED BY <1>2, <3>1, <3>2, <3>3
  <2>5. ASSUME NEW i \in 2..Len(u) PROVE ~u[i].refused
    <3>1. i \in 1..Len(u)
      BY <1>2
    <3> QED BY <1>2, <1>5, <2>5, <3>1 DEF Program, Fits
  <2> QED BY <1>6, <2>1, <2>2, <2>3, <2>4, <2>5 DEF Program
<1>7. ASSUME s = <<>>, u # <<>> PROVE ~u[1].refused /\ u[1] = t[2] /\ u[1].do \in Follows(t[1].do)
  <2>1. 1 \in 1..(Len(t) - 1) /\ 2 \in 2..Len(t) /\ Len(s) = 0
    BY <1>2, <1>3, <1>4, <1>7
  <2>2. u[0 + 1] = t[1 + 1] /\ t[1 + 1].do \in Follows(t[1].do) /\ ~t[2].refused
    BY <1>2, <2>1 DEF Program
  <2>3. 0 + 1 = 1 /\ 1 + 1 = 2
    OBVIOUS
  <2> QED BY <2>2, <2>3
<1>8. s # <<>> => u[1] = s[1]
  BY <1>2, <1>4
<1>9. ASSUME NEW j \in 2..Len(t) PROVE \E i \in 1..Len(u) : u[i] = t[j]
  <2>1. j - 1 \in 1..(Len(t) - 1) /\ Len(s) + (j - 1) \in 1..Len(u) /\ (j - 1) + 1 = j
    BY <1>2
  <2>2. u[Len(s) + (j - 1)] = t[(j - 1) + 1]
    BY <1>2, <2>1
  <2> QED BY <2>1, <2>2
<1>10. ASSUME NEW j \in 1..Len(s) PROVE \E i \in 1..Len(u) : u[i] = s[j]
  <2>1. j \in 1..Len(u)
    BY <1>2
  <2> QED BY <1>2, <2>1
<1>11. u = <<>> <=> s = <<>> /\ Len(t) = 1
  BY <1>l, <1>3, <1>4, Zenon
<1>12. ASSUME NEW i \in 1..Len(u)
       PROVE  (\E j \in 1..Len(s) : u[i] = s[j]) \/ (\E j \in 2..Len(t) : u[i] = t[j])
  <2>1. CASE i <= Len(s)
    BY <1>2, <1>5, <2>1
  <2>2. CASE i > Len(s)
    <3>1. PICK j : j = i - Len(s) + 1
      OBVIOUS
    <3>2. j \in 2..Len(t) /\ u[i] = t[j]
      BY <1>5, <2>2, <3>1
    <3> QED BY <3>2
  <2> QED BY <1>2, <2>1, <2>2
<1>13. /\ \A i \in 1..Len(u) : (\E j \in 1..Len(s) : u[i] = s[j]) \/ (\E j \in 2..Len(t) : u[i] = t[j])
       /\ \A j \in 2..Len(t) : \E i \in 1..Len(u) : u[i] = t[j]
       /\ \A j \in 1..Len(s) : \E i \in 1..Len(u) : u[i] = s[j]
  BY <1>9, <1>10, <1>12
<1>15. u = <<>> => t[1].do \in L
  BY <1>2, <1>11 DEF Program
<1>14. \A j \in 2..Len(t) : j \in 1..Len(t) /\ 1 \in 1..Len(t) /\ 1 < j
  BY <1>2
<1>16. Once(u) => Once(s) \/ Once(t)
  BY <1>13, <1>14 DEF Once
<1>17. ASSUME NEW X
      PROVE  /\ Has(u, X) => Has(s, X) \/ Has(t, X)
             /\ Has(s, X) => Has(u, X)
             /\ Has(t, X) => t[1].do \in X \/ Has(u, X)
             /\ Has(u, X) => Has(s, X) \/ \E w \in X : Before(t[1].do, w)
  <2>1. Has(u, X) => Has(s, X) \/ Has(t, X)
    BY <1>13, <1>14 DEF Has
  <2>2. Has(s, X) => Has(u, X)
    BY <1>13 DEF Has
  <2>3. Has(t, X) => t[1].do \in X \/ Has(u, X)
    <3>1. \A j \in 1..Len(t) : j = 1 \/ j \in 2..Len(t)
      BY <1>2
    <3> QED BY <1>13, <3>1 DEF Has
  <2>4. Has(u, X) => Has(s, X) \/ \E w \in X : Before(t[1].do, w)
    <3>1. \A j \in 2..Len(t) : Before(t[1].do, t[j].do)
      BY <1>14 DEF Program
    <3> QED BY <1>13, <3>1 DEF Has
  <2> QED BY <2>1, <2>2, <2>3, <2>4
<1> QED BY <1>2, <1>6, <1>7, <1>8, <1>11, <1>15, <1>16, <1>17 DEF Replaced

\* The stages number the parts of an operation.
LEMMA Stages == \A w : Stage(w) \in 0..5
BY DEF Stage

\* The steps that take the place of a step, and what they consist of.
LEMMA NothingFits == ASSUME NEW W, NEW L, NEW w PROVE Fits(W, L, w, <<>>)
BY DEF Fits

\* A single line may take the place of a step.
LEMMA OneFits ==
  ASSUME NEW W, NEW L, NEW w \in W, NEW x \in Line, x.do \in W,
         Follows(w) \subseteq Follows(x.do), w \in L => x.do \in L,
         Stage(x.do) = 0 \/ Stage(x.do) = Stage(w)
  PROVE  <<x>> \in Seq(Line) /\ Fits(W, L, w, <<x>>)
<1>1. <<x>> \in Seq(Line) /\ Len(<<x>>) = 1 /\ <<x>>[1] = x /\ <<x>> # <<>>
  OBVIOUS
<1>2. \A v \in Word : Before(w, v) => Before(x.do, v)
  BY DEF Before
<1> QED BY <1>1, <1>2 DEF Fits

\* So may two lines.
LEMMA TwoFit ==
  ASSUME NEW W, NEW L, NEW w \in W, NEW x \in Line, NEW y \in Line,
         x.do \in W, y.do \in W, ~y.refused,
         y.do \in Follows(x.do),
         Follows(w) \subseteq Follows(y.do), w \in L => y.do \in L,
         Stage(x.do) = 0, Stage(y.do) = 0 \/ Stage(y.do) = Stage(w)
  PROVE  <<x, y>> \in Seq(Line) /\ Fits(W, L, w, <<x, y>>)
<1>1. /\ <<x, y>> \in Seq(Line) /\ Len(<<x, y>>) = 2 /\ <<x, y>>[1] = x /\ <<x, y>>[2] = y
      /\ <<x, y>> # <<>>
  OBVIOUS
<1>2. \A v \in Word : Before(w, v) => Before(x.do, v) /\ Before(y.do, v)
  BY DEF Before
<1>3. Before(x.do, y.do)
  BY DEF Before
<1> QED BY <1>1, <1>2, <1>3 DEF Fits

\* And three: a new session, or a new label, and the step again.
LEMMA ThreeFit ==
  ASSUME NEW W, NEW L, NEW w \in W, NEW x \in Line, NEW y \in Line, NEW z \in Line,
         x.do \in W, y.do \in W, z.do \in W, ~y.refused, ~z.refused,
         y.do \in Follows(x.do), z.do \in Follows(y.do),
         Follows(w) \subseteq Follows(z.do), w \in L => z.do \in L,
         Stage(x.do) = 0, Stage(y.do) = 0 \/ (Stage(y.do) = 4 /\ Stage(z.do) = 4 /\ Stage(w) = 4),
         Stage(z.do) = Stage(w)
  PROVE  <<x, y, z>> \in Seq(Line) /\ Fits(W, L, w, <<x, y, z>>)
<1>1. /\ <<x, y, z>> \in Seq(Line) /\ Len(<<x, y, z>>) = 3
      /\ <<x, y, z>>[1] = x /\ <<x, y, z>>[2] = y /\ <<x, y, z>>[3] = z
      /\ <<x, y, z>> # <<>>
  OBVIOUS
<1>2. \A v \in Word : Before(w, v) => Before(x.do, v) /\ Before(y.do, v) /\ Before(z.do, v)
  BY DEF Before
<1>3. Before(x.do, y.do) /\ Before(x.do, z.do) /\ Before(y.do, z.do)
  BY DEF Before
<1> QED BY <1>1, <1>2, <1>3 DEF Fits

\* A list with a line in it is not empty.
LEMMA Filled == \A u : Len(u) >= 1 => u # <<>>
OBVIOUS

\* The rest of a program from a step on.
Shortened(W, L, t, k, u) ==
  /\ u \in Seq(Line) /\ u # <<>> /\ Program(W, L, u)
  /\ u[1] = t[k]
  /\ k # 1 => ~u[1].refused
  /\ Once(u) => Once(t)
  /\ \A X : /\ Has(u, X) => Has(t, X)
            /\ Has(t, X) => Has(u, X) \/ \E i \in 1..Len(t) : i < k /\ t[i].do \in X

\* The end of a program, from a handler on, is a program.
LEMMA Suffix ==
  ASSUME NEW W, NEW L, NEW t \in Seq(Line), Program(W, L, t), NEW k \in 1..Len(t),
         NEW u, u = SubSeq(t, k, Len(t))
  PROVE  Shortened(W, L, t, k, u)
<1>1. Len(t) \in Nat /\ k \in Nat /\ k >= 1 /\ k <= Len(t)
  OBVIOUS
<1>a. u \in Seq(Line) /\ Len(u) = Len(t) - k + 1
  BY <1>1
<1>2. Len(u) = Len(t) - k + 1 /\ \A i \in 1..Len(u) : u[i] = t[k + i - 1]
  BY <1>1
<1>3. \A i \in 1..Len(u) : k + i - 1 \in k..Len(t) /\ k + i - 1 \in 1..Len(t)
  BY <1>1, <1>2
<1>4. u # <<>> /\ u[1] = t[k] /\ Len(u) >= 1
  <2>1. Len(u) >= 1 /\ 1 \in 1..Len(u) /\ k + 1 - 1 = k
    BY <1>1, <1>2
  <2>2. u[1] = t[k]
    BY <1>2, <2>1
  <2>3. u # <<>>
    BY <2>1, Filled, Zenon
  <2> QED BY <2>1, <2>2, <2>3
<1>5. \A j \in k..Len(t) : j - k + 1 \in 1..Len(u) /\ u[j - k + 1] = t[j]
  <2> SUFFICES ASSUME NEW j \in k..Len(t) PROVE j - k + 1 \in 1..Len(u) /\ u[j - k + 1] = t[j]
    OBVIOUS
  <2>1. j - k + 1 \in 1..Len(u) /\ k + (j - k + 1) - 1 = j
    BY <1>1, <1>2
  <2> QED BY <1>2, <2>1
<1>6. Program(W, L, u)
  <2>1. \A i \in 1..Len(u) : u[i].do \in W
    BY <1>2, <1>3 DEF Program
  <2>2. ASSUME NEW i \in 1..(Len(u) - 1) PROVE u[i + 1].do \in Follows(u[i].do)
    <3>1. PICK a : a = k + i - 1
      OBVIOUS
    <3>2. a \in 1..(Len(t) - 1) /\ i \in 1..Len(u) /\ i + 1 \in 1..Len(u) /\ k + (i + 1) - 1 = a + 1
      BY <1>1, <1>2, <3>1
    <3>3. u[i] = t[a] /\ u[i + 1] = t[a + 1]
      BY <1>2, <3>1, <3>2
    <3> QED BY <3>2, <3>3 DEF Program
  <2>3. u[Len(u)] = t[Len(t)]
    <3>1. Len(u) \in 1..Len(u) /\ k + Len(u) - 1 = Len(t)
      BY <1>1, <1>2, <1>4
    <3> QED BY <1>2, <3>1
  <2>4. ASSUME NEW i \in 1..Len(u), NEW j \in 1..Len(u), i < j PROVE Before(u[i].do, u[j].do)
    <3>1. PICK a, b : a = k + i - 1 /\ b = k + j - 1
      OBVIOUS
    <3>2. a \in 1..Len(t) /\ b \in 1..Len(t) /\ a < b /\ u[i] = t[a] /\ u[j] = t[b]
      BY <1>1, <1>2, <1>3, <2>4, <3>1
    <3> QED BY <3>2 DEF Program
  <2>5. ASSUME NEW i \in 2..Len(u) PROVE ~u[i].refused
    <3>1. PICK a : a = k + i - 1
      OBVIOUS
    <3>2. a \in 2..Len(t) /\ u[i] = t[a]
      BY <1>1, <1>2, <3>1
    <3> QED BY <3>2 DEF Program
  <2>6. t[Len(t)].do \in L
    BY DEF Program
  <2> QED BY <1>4, <2>1, <2>2, <2>3, <2>4, <2>5, <2>6 DEF Program
<1>7. k # 1 => ~u[1].refused
  <2>1. k # 1 => k \in 2..Len(t)
    BY <1>1
  <2> QED BY <1>4, <2>1 DEF Program
<1>8. Once(u) => Once(t)
  BY <1>2, <1>3 DEF Once
<1>9. ASSUME NEW X
      PROVE  /\ Has(u, X) => Has(t, X)
             /\ Has(t, X) => Has(u, X) \/ \E i \in 1..Len(t) : i < k /\ t[i].do \in X
  <2>1. Has(u, X) => Has(t, X)
    BY <1>2, <1>3 DEF Has
  <2>2. \A i \in 1..Len(t) : i < k \/ i \in k..Len(t)
    BY <1>1
  <2> QED BY <1>5, <2>1, <2>2 DEF Has
<1> QED BY <1>a, <1>4, <1>6, <1>7, <1>8, <1>9 DEF Shortened

\* Two programs one after the other.
Concatenation(W, L, a, b, u) ==
  /\ u \in Seq(Line) /\ u # <<>> /\ Program(W, L, u)
  /\ u[1] = a[1] /\ u[Len(u)] = b[Len(b)]
  /\ Once(u) => Once(a) \/ Once(b)
  /\ \A X : Has(u, X) <=> Has(a, X) \/ Has(b, X)

\* One program after another is a program.
LEMMA Joins ==
  ASSUME NEW W, NEW L, NEW K, NEW a \in Seq(Line), NEW b \in Seq(Line), Program(W, K, a), Program(W, L, b),
         b[1].do \in Follows(a[Len(a)].do), ~b[1].refused,
         \A i \in 1..Len(a), j \in 1..Len(b) : Before(a[i].do, b[j].do),
         NEW u, u = a \o b
  PROVE  Concatenation(W, L, a, b, u)
<1>1. /\ Len(a) \in Nat /\ Len(b) \in Nat /\ Len(a) >= 1 /\ Len(b) >= 1
      /\ u \in Seq(Line) /\ Len(u) = Len(a) + Len(b)
  BY DEF Program
<1>2. \A i \in 1..Len(a) : u[i] = a[i] /\ i \in 1..Len(u)
  BY <1>1
<1>3. \A i \in 1..Len(b) : u[Len(a) + i] = b[i] /\ Len(a) + i \in 1..Len(u)
  BY <1>1
<1>4. ASSUME NEW i \in 1..Len(u)
      PROVE  \/ i <= Len(a) /\ i \in 1..Len(a) /\ u[i] = a[i]
             \/ i > Len(a) /\ i - Len(a) \in 1..Len(b) /\ u[i] = b[i - Len(a)]
  <2>1. CASE i <= Len(a)
    BY <1>1, <1>2, <2>1
  <2>2. CASE i > Len(a)
    <3>1. i - Len(a) \in 1..Len(b) /\ Len(a) + (i - Len(a)) = i
      BY <1>1, <2>2
    <3> QED BY <1>3, <2>2, <3>1
  <2> QED BY <1>1, <2>1, <2>2
<1>5. Program(W, L, u)
  <2>1. \A i \in 1..Len(u) : u[i].do \in W
    BY <1>4 DEF Program
  <2>2. ASSUME NEW i \in 1..(Len(u) - 1) PROVE u[i + 1].do \in Follows(u[i].do)
    <3>1. CASE i < Len(a)
      <4>1. i \in 1..(Len(a) - 1) /\ u[i] = a[i] /\ u[i + 1] = a[i + 1]
        BY <1>1, <1>2, <3>1
      <4> QED BY <4>1 DEF Program
    <3>2. CASE i = Len(a)
      <4>1. u[i] = a[Len(a)] /\ u[i + 1] = b[1]
        BY <1>1, <1>2, <1>3, <3>2
      <4> QED BY <4>1
    <3>3. CASE i > Len(a)
      <4>1. PICK j : j = i - Len(a)
        OBVIOUS
      <4>2. j \in 1..(Len(b) - 1) /\ j \in 1..Len(b) /\ j + 1 \in 1..Len(b) /\ Len(a) + j = i /\ Len(a) + (j + 1) = i + 1
        BY <1>1, <3>3, <4>1
      <4>3. u[i] = b[j] /\ u[i + 1] = b[j + 1]
        BY <1>3, <4>2
      <4> QED BY <4>2, <4>3 DEF Program
    <3> QED BY <1>1, <3>1, <3>2, <3>3
  <2>3. u[Len(u)] = b[Len(b)]
    <3>1. Len(b) \in 1..Len(b) /\ Len(a) + Len(b) = Len(u)
      BY <1>1
    <3> QED BY <1>3, <3>1
  <2>4. ASSUME NEW i \in 1..Len(u), NEW j \in 1..Len(u), i < j PROVE Before(u[i].do, u[j].do)
    <3>1. CASE j <= Len(a)
      <4>1. i \in 1..Len(a) /\ j \in 1..Len(a) /\ u[i] = a[i] /\ u[j] = a[j]
        BY <1>1, <1>2, <2>4, <3>1
      <4> QED BY <2>4, <4>1 DEF Program
    <3>2. CASE i <= Len(a) /\ j > Len(a)
      <4>1. i \in 1..Len(a) /\ u[i] = a[i] /\ j - Len(a) \in 1..Len(b) /\ u[j] = b[j - Len(a)]
        BY <1>1, <1>4, <3>2
      <4> QED BY <4>1
    <3>3. CASE i > Len(a)
      <4>1. PICK c, d : c = i - Len(a) /\ d = j - Len(a)
        OBVIOUS
      <4>2. c \in 1..Len(b) /\ d \in 1..Len(b) /\ c < d /\ u[i] = b[c] /\ u[j] = b[d]
        BY <1>1, <1>4, <2>4, <3>3, <4>1
      <4> QED BY <4>2 DEF Program
    <3> QED BY <1>1, <3>1, <3>2, <3>3
  <2>5. ASSUME NEW i \in 2..Len(u) PROVE ~u[i].refused
    <3>1. i \in 1..Len(u)
      BY <1>1
    <3>2. CASE i <= Len(a)
      <4>1. i \in 2..Len(a) /\ u[i] = a[i]
        BY <1>1, <1>2, <3>2
      <4> QED BY <4>1 DEF Program
    <3>3. CASE i > Len(a)
      <4>1. PICK j : j = i - Len(a)
        OBVIOUS
      <4>2. j \in 1..Len(b) /\ u[i] = b[j] /\ (j = 1 \/ j \in 2..Len(b))
        BY <1>1, <1>4, <3>1, <3>3, <4>1
      <4> QED BY <4>2 DEF Program
    <3> QED BY <1>1, <3>2, <3>3
  <2>6. b[Len(b)].do \in L /\ u # <<>>
    BY <1>1 DEF Program
  <2> QED BY <2>1, <2>2, <2>3, <2>4, <2>5, <2>6 DEF Program
<1>6. u[1] = a[1] /\ u[Len(u)] = b[Len(b)] /\ u # <<>>
  <2>1. 1 \in 1..Len(a) /\ Len(b) \in 1..Len(b) /\ Len(a) + Len(b) = Len(u)
    BY <1>1
  <2> QED BY <1>1, <1>2, <1>3, <2>1
<1>7. Once(u) => Once(a) \/ Once(b)
  BY <1>4 DEF Once
<1>8. \A X : Has(u, X) <=> Has(a, X) \/ Has(b, X)
  BY <1>2, <1>3, <1>4 DEF Has
<1> QED BY <1>1, <1>5, <1>6, <1>7, <1>8 DEF Concatenation

\* Short lists.
LEMMA OneStep ==
  ASSUME NEW x \in Line
  PROVE  /\ <<x>> \in Seq(Line) /\ Len(<<x>>) = 1 /\ <<x>>[1] = x /\ <<x>> # <<>>
         /\ Once(<<x>>) <=> x.again
         /\ \A X : Has(<<x>>, X) <=> x.do \in X
<1>1. <<x>> \in Seq(Line) /\ Len(<<x>>) = 1 /\ <<x>>[1] = x /\ <<x>> # <<>>
  OBVIOUS
<1> QED BY <1>1 DEF Once, Has

\* A list of two lines.
LEMMA TwoSteps ==
  ASSUME NEW x \in Line, NEW y \in Line
  PROVE  /\ <<x, y>> \in Seq(Line) /\ Len(<<x, y>>) = 2 /\ <<x, y>>[1] = x /\ <<x, y>>[2] = y
         /\ <<x, y>> # <<>>
         /\ Once(<<x, y>>) <=> x.again \/ y.again
         /\ \A X : Has(<<x, y>>, X) <=> x.do \in X \/ y.do \in X
<1>1. /\ <<x, y>> \in Seq(Line) /\ Len(<<x, y>>) = 2 /\ <<x, y>>[1] = x /\ <<x, y>>[2] = y
      /\ <<x, y>> # <<>>
  OBVIOUS
<1>2. 1..2 = {1, 2}
  OBVIOUS
<1> QED BY <1>1, <1>2 DEF Once, Has

\* A list of three lines.
LEMMA ThreeSteps ==
  ASSUME NEW x \in Line, NEW y \in Line, NEW z \in Line
  PROVE  /\ <<x, y, z>> \in Seq(Line) /\ Len(<<x, y, z>>) = 3
         /\ <<x, y, z>>[1] = x /\ <<x, y, z>>[2] = y /\ <<x, y, z>>[3] = z
         /\ <<x, y, z>> # <<>>
         /\ Once(<<x, y, z>>) <=> x.again \/ y.again \/ z.again
         /\ \A X : Has(<<x, y, z>>, X) <=> x.do \in X \/ y.do \in X \/ z.do \in X
<1>1. /\ <<x, y, z>> \in Seq(Line) /\ Len(<<x, y, z>>) = 3
      /\ <<x, y, z>>[1] = x /\ <<x, y, z>>[2] = y /\ <<x, y, z>>[3] = z
      /\ <<x, y, z>> # <<>>
  OBVIOUS
<1>2. 1..3 = {1, 2, 3}
  OBVIOUS
<1> QED BY <1>1, <1>2 DEF Once, Has

\* A list of none.
LEMMA NoStep == <<>> \in Seq(Line) /\ ~Once(<<>>) /\ \A X : ~Has(<<>>, X)
BY DEF Once, Has

\* One line that may be the last is a program.
LEMMA OneProgram ==
  ASSUME NEW W, NEW L, NEW x \in Line, x.do \in W, x.do \in L
  PROVE  Program(W, L, <<x>>)
BY OneStep DEF Program

\* So are two in the right order.
LEMMA TwoProgram ==
  ASSUME NEW W, NEW L, NEW x \in Line, NEW y \in Line, x.do \in W, y.do \in W, y.do \in L, ~y.refused,
         y.do \in Follows(x.do), Before(x.do, y.do)
  PROVE  Program(W, L, <<x, y>>)
<1>1. 1..2 = {1, 2} /\ 1..1 = {1} /\ 2..2 = {2} /\ 2 - 1 = 1 /\ 1 + 1 = 2
  OBVIOUS
<1> QED BY <1>1, TwoSteps DEF Program
-----------------------------------------------------------------------------
\* All of a call but the steps that it has left.
Same(c, d) == /\ d.op = c.op /\ d.marker = c.marker /\ d.files = c.files /\ d.want = c.want
              /\ d.magnet = c.magnet /\ d.state = c.state /\ d.read = c.read /\ d.done = c.done
              /\ d.disturbed = c.disturbed /\ d.crossed = c.crossed /\ d.robbed = c.robbed

\* The next steps of a call take the place of its head and change nothing else.
LEMMA ThenIs ==
  ASSUME NEW c \in Calling, c.todo # <<>>, NEW s \in Seq(Line)
  PROVE  /\ Then(c, s) \in Calling
         /\ Then(c, s).todo = s \o Tail(c.todo)
         /\ Same(c, Then(c, s))
<1>1. s \o Tail(c.todo) \in Seq(Line)
  BY Spliced DEF Calling
<1> QED BY <1>1 DEF Then, Calling, Same

\* An early return leaves no steps and changes nothing else.
LEMMA ReturnIs ==
  ASSUME NEW c \in Calling
  PROVE  /\ Return(c) \in Calling
         /\ Return(c).todo = <<>>
         /\ Same(c, Return(c))
<1>1. <<>> \in Seq(Line)
  OBVIOUS
<1> QED BY <1>1 DEF Return, Calling, Same
-----------------------------------------------------------------------------
\* The requests and decisions of every operation of Deluge, and the last ones.
LEMMA DelugeWordsAre ==
  ASSUME NEW op \in Op
  PROVE  /\ DelugeWords(op) \subseteq Word /\ Session \subseteq DelugeWords(op)
         /\ op \in {"submit", "mark"} => Labelling \subseteq DelugeWords(op) /\ DelugeLasts(op) = {"set_label"}
         /\ op = "submit" => DelugeWords(op) = Session \cup Labelling \cup {"add", "orMagnet"}
         /\ op = "mark" => DelugeWords(op) = Session \cup Labelling \cup {"status"}
         /\ op = "select" => /\ DelugeWords(op) = Session \cup {"files", "orNoFiles", "priorities", "set_options"}
                             /\ DelugeLasts(op) = {"priorities", "set_options"}
         /\ op = "run" => DelugeWords(op) = Session \cup {"run"} /\ DelugeLasts(op) = {"run"}
         /\ op = "remove" => DelugeWords(op) = Session \cup {"remove"} /\ DelugeLasts(op) = {"remove"}
         /\ op = "look" => DelugeWords(op) = Session \cup {"status"} /\ DelugeLasts(op) = {"status"}
<1>1. /\ op = "submit" => DelugeWords(op) = Session \cup Labelling \cup {"add", "orMagnet"} /\ DelugeLasts(op) = {"set_label"}
      /\ op = "mark" => DelugeWords(op) = Session \cup Labelling \cup {"status"} /\ DelugeLasts(op) = {"set_label"}
      /\ op = "select" => /\ DelugeWords(op) = Session \cup {"files", "orNoFiles", "priorities", "set_options"}
                          /\ DelugeLasts(op) = {"priorities", "set_options"}
      /\ op = "run" => DelugeWords(op) = Session \cup {"run"} /\ DelugeLasts(op) = {"run"}
      /\ op = "remove" => DelugeWords(op) = Session \cup {"remove"} /\ DelugeLasts(op) = {"remove"}
      /\ op = "look" => DelugeWords(op) = Session \cup {"status"} /\ DelugeLasts(op) = {"status"}
  BY DEF DelugeWords, DelugeLasts
<1>2. Session \subseteq Word /\ Labelling \subseteq Word
      /\ {"add", "orMagnet", "status", "files", "orNoFiles", "priorities", "set_options", "run", "remove"} \subseteq Word
  BY DEF Session, Labelling, Plugging, Word
<1> QED BY <1>1, <1>2 DEF Op

\* What may follow the words of Deluge, and their order.
LEMMA DelugeOrder ==
  /\ \A w \in {"ensureSession", "connected", "connect"} : Follows(w) = Needs \cup {"connected", "get_hosts", "connect"}
  /\ Follows("login") = {"ensureSession"} /\ Follows("get_hosts") = {"connect"}
  /\ Follows("add") = {"orMagnet", "ensureLabelPlugin"} /\ Follows("orMagnet") = {"ensureLabelPlugin"}
  /\ Follows("status") = {"ensureLabelPlugin"} /\ Follows("files") = {"orNoFiles"} /\ Follows("orNoFiles") = {"priorities"}
  /\ \A w \in Plugging \cup {"get_labels", "orExists"} : Follows(w) = {"ensureSession"}
  /\ Follows("add_label") = {"orExists"}
  /\ \A w \in {"priorities", "set_options", "run", "remove", "set_label"} : Follows(w) = {}
  /\ \A w \in Session : Stage(w) = 0
  /\ \A w \in Firsts : Stage(w) = 1
  /\ Stage("orMagnet") = 2 /\ Stage("orNoFiles") = 2
  /\ \A w \in Plugging : Stage(w) = 3
  /\ Stage("priorities") = 3 /\ Stage("set_options") = 3
  /\ Stage("get_labels") = 4 /\ Stage("add_label") = 4 /\ Stage("orExists") = 4 /\ Stage("set_label") = 5
<1>1. /\ \A w \in {"ensureSession", "connected", "connect"} : Follows(w) = Needs \cup {"connected", "get_hosts", "connect"}
      /\ Follows("login") = {"ensureSession"} /\ Follows("get_hosts") = {"connect"}
      /\ Follows("add") = {"orMagnet", "ensureLabelPlugin"} /\ Follows("orMagnet") = {"ensureLabelPlugin"}
      /\ Follows("status") = {"ensureLabelPlugin"} /\ Follows("files") = {"orNoFiles"} /\ Follows("orNoFiles") = {"priorities"}
  BY DEF Follows, Plugging
<1>2. /\ \A w \in Plugging \cup {"get_labels", "orExists"} : Follows(w) = {"ensureSession"}
      /\ Follows("add_label") = {"orExists"}
      /\ \A w \in {"priorities", "set_options", "run", "remove", "set_label"} : Follows(w) = {}
  BY DEF Follows, Plugging
<1>3. \A w \in Session : Stage(w) = 0
  BY DEF Stage, Session, Firsts, Plugging
<1>4. \A w \in Firsts : Stage(w) = 1
  BY DEF Stage, Session, Firsts, Plugging
<1>5. \A w \in Plugging : Stage(w) = 3
  BY DEF Stage, Session, Firsts, Plugging
<1>6. /\ Stage("orMagnet") = 2 /\ Stage("orNoFiles") = 2
      /\ Stage("priorities") = 3 /\ Stage("set_options") = 3
      /\ Stage("get_labels") = 4 /\ Stage("add_label") = 4 /\ Stage("orExists") = 4 /\ Stage("set_label") = 5
  BY DEF Stage, Session, Firsts, Plugging
<1> QED BY <1>1, <1>2, <1>3, <1>4, <1>5, <1>6

\* A step of a Deluge program: its words, and the words of what is left.
Labels == {"get_labels", "add_label"}

\* What has become of a program when the steps r are in the place of its head.
Advanced(op, t, r, u) ==
  /\ u \in Seq(Line)
  /\ u # <<>> => Program(DelugeWords(op), DelugeLasts(op), u) /\ u[1].do \in DelugeWords(op)
  /\ u = <<>> => t[1].do \in DelugeLasts(op) /\ r = <<>>
  /\ r = <<>> /\ u # <<>> => ~u[1].refused /\ u[1].do \in Follows(t[1].do)
  /\ r # <<>> => u # <<>> /\ u[1] = r[1]
  /\ Once(u) => Once(r) \/ Once(t)
  /\ \A X : /\ Has(u, X) => Has(r, X) \/ Has(t, X)
            /\ Has(r, X) => Has(u, X)
            /\ Has(t, X) => t[1].do \in X \/ Has(u, X)
  /\ Stage(t[1].do) > 3 /\ Has(u, Plugging) => Has(r, Plugging)
  /\ Stage(t[1].do) > 4 /\ Has(u, Labels) => Has(r, Labels)
  /\ Stage(t[1].do) > 0 /\ Has(u, Firsts) => Has(r, Firsts)
  /\ Stage(t[1].do) > 0 /\ Has(u, {"add"}) => Has(r, {"add"})

\* The steps that take the place of a request of Deluge's leave its program in order.
LEMMA DelugeSplice ==
  ASSUME NEW op \in Op, NEW t \in Seq(Line), Program(DelugeWords(op), DelugeLasts(op), t),
         NEW r \in Seq(Line), Fits(DelugeWords(op), DelugeLasts(op), t[1].do, r), NEW u, u = r \o Tail(t)
  PROVE  Advanced(op, t, r, u)
<1>1. /\ u \in Seq(Line)
      /\ u # <<>> => Program(DelugeWords(op), DelugeLasts(op), u)
      /\ u = <<>> <=> r = <<>> /\ Len(t) = 1
      /\ u = <<>> => t[1].do \in DelugeLasts(op)
      /\ r = <<>> /\ u # <<>> => ~u[1].refused /\ u[1].do \in Follows(t[1].do)
      /\ r # <<>> => u[1] = r[1]
      /\ Once(u) => Once(r) \/ Once(t)
      /\ \A X : /\ Has(u, X) => Has(r, X) \/ Has(t, X)
                /\ Has(r, X) => Has(u, X)
                /\ Has(t, X) => t[1].do \in X \/ Has(u, X)
                /\ Has(u, X) => Has(r, X) \/ \E w \in X : Before(t[1].do, w)
  <2>1. Replaced(DelugeWords(op), DelugeLasts(op), t, r, u)
    BY Splice
  <2> QED BY <2>1 DEF Replaced
<1>2. u # <<>> => u[1].do \in DelugeWords(op)
  <2>1. u # <<>> => Len(u) \in Nat /\ Len(u) >= 1
    BY <1>1
  <2> QED BY <1>1, <2>1 DEF Program
<1>3. /\ \A w \in Plugging : Stage(w) = 3
      /\ \A w \in Labels : Stage(w) = 4
      /\ \A w \in Firsts : Stage(w) = 1
      /\ \A w \in {"add"} : Stage(w) = 1
      /\ Stage(t[1].do) \in 0..5
  BY DelugeOrder, Stages DEF Labels, Firsts
<1>4. \A X : Has(u, X) => Has(r, X) \/ \E w \in X : Before(t[1].do, w)
  BY <1>1
<1>5. Stage(t[1].do) > 3 /\ Has(u, Plugging) => Has(r, Plugging)
  BY <1>3, <1>4 DEF Before
<1>6. Stage(t[1].do) > 4 /\ Has(u, Labels) => Has(r, Labels)
  BY <1>3, <1>4 DEF Before
<1>7. Stage(t[1].do) > 0 /\ Has(u, Firsts) => Has(r, Firsts)
  BY <1>3, <1>4 DEF Before
<1>8. Stage(t[1].do) > 0 /\ Has(u, {"add"}) => Has(r, {"add"})
  BY <1>3, <1>4 DEF Before
<1> QED BY <1>1, <1>2, <1>5, <1>6, <1>7, <1>8 DEF Advanced

\* Two lines and one are three.
LEMMA Concatenated ==
  ASSUME NEW a \in Line, NEW b \in Line, NEW c \in Line
  PROVE  <<a, b>> \o <<c>> = <<a, b, c>>
<1>1. PICK x : x = <<a, b>>
  OBVIOUS
<1>2. PICK y : y = <<c>>
  OBVIOUS
<1>3. PICK z : z = <<a, b, c>>
  OBVIOUS
<1>4. x \in Seq(Line) /\ Len(x) = 2 /\ x[1] = a /\ x[2] = b
  BY <1>1
<1>5. y \in Seq(Line) /\ Len(y) = 1 /\ y[1] = c
  BY <1>2
<1>6. z \in Seq(Line) /\ Len(z) = 3 /\ z[1] = a /\ z[2] = b /\ z[3] = c
  BY <1>3
<1>7. x \o y \in Seq(Line) /\ Len(x \o y) = 3 /\ (x \o y)[1] = a /\ (x \o y)[2] = b /\ (x \o y)[3] = c
  <2>1. /\ x \o y \in Seq(Line)
        /\ Len(x \o y) = Len(x) + Len(y)
        /\ \A i \in 1..(Len(x) + Len(y)) : (x \o y)[i] = IF i <= Len(x) THEN x[i] ELSE y[i - Len(x)]
    BY <1>4, <1>5, ConcatProperties
  <2>2. PICK u : u = x \o y
    OBVIOUS
  <2>3. \A i \in 1..3 : u[i] = IF i <= 2 THEN x[i] ELSE y[i - 2]
    BY <1>4, <1>5, <2>1, <2>2
  <2>4. u[1] = x[1] /\ u[2] = x[2] /\ u[3] = y[1]
    BY <2>3
  <2>5. u \in Seq(Line) /\ Len(u) = 3
    BY <1>4, <1>5, <2>1, <2>2
  <2> QED BY <1>4, <1>5, <2>2, <2>4, <2>5
<1>8. \A i \in 1..3 : (x \o y)[i] = z[i]
  <2>1. 1..3 = {1, 2, 3}
    OBVIOUS
  <2> QED BY <1>6, <1>7, <2>1
<1>9. x \o y = z
  BY <1>6, <1>7, <1>8, SeqEqual
<1> QED BY <1>1, <1>2, <1>3, <1>9

\* The steps that take another's place in a Deluge program.
DelugeFits(op, w, r) == r \in Seq(Line) /\ Fits(DelugeWords(op), DelugeLasts(op), w, r)

\* All that DelugeDecides, DelugeTakes and DelugeRetries put in the place of a step fits there.
LEMMA Replacements ==
  ASSUME NEW op \in Op
  PROVE  /\ DelugeFits(op, "ensureSession", <<S("login"), S("ensureSession")>>)
         /\ DelugeFits(op, "ensureSession", <<S("connected")>>)
         /\ DelugeFits(op, "connected", <<S("get_hosts"), S("connect")>>)
         /\ op \in {"submit", "mark"} =>
              /\ DelugeFits(op, "ensureLabelPlugin", <<S("ensureSession"), S("plugins")>>)
              /\ DelugeFits(op, "plugins", <<S("ensureSession"), S("enable_plugin")>>)
              /\ DelugeFits(op, "get_labels", <<S("ensureSession"), S("add_label"), S("orExists")>>)
         /\ op = "select" => DelugeFits(op, "priorities", <<S("ensureSession"), S("set_options")>>)
         /\ \A w : DelugeFits(op, w, <<>>)
         /\ \A x \in Line : x.do \in DelugeWords(op) \ ({"login"} \cup DelugeLocal) =>
              DelugeFits(op, x.do, <<S("login"), S("ensureSession"), Again(x)>>)
<1> DEFINE W == DelugeWords(op)  L == DelugeLasts(op)
<1>1. \A w \in Session : w \in W /\ S(w) \in Line /\ S(w).do = w /\ ~S(w).refused /\ w \in Word
  BY DelugeWordsAre, StepIsLine
<1>a. /\ "ensureSession" \in W /\ S("ensureSession") \in Line /\ S("ensureSession").do = "ensureSession"
      /\ "login" \in W /\ S("login") \in Line /\ S("login").do = "login"
      /\ "connected" \in W /\ S("connected") \in Line /\ S("connected").do = "connected"
      /\ "get_hosts" \in W /\ S("get_hosts") \in Line /\ S("get_hosts").do = "get_hosts"
      /\ "connect" \in W /\ S("connect") \in Line /\ S("connect").do = "connect"
      /\ ~S("ensureSession").refused /\ ~S("connect").refused
  BY <1>1 DEF Session
<1>c. /\ "ensureSession" \in Follows("login") /\ "connect" \in Follows("get_hosts")
      /\ Follows("ensureSession") = Follows("connected") /\ Follows("connected") = Follows("connect")
  BY DelugeOrder
<1>d. /\ Stage("ensureSession") = 0 /\ Stage("login") = 0 /\ Stage("connected") = 0
      /\ Stage("get_hosts") = 0 /\ Stage("connect") = 0
      /\ "ensureSession" \notin L /\ "connected" \notin L
  BY DelugeOrder DEF Session, DelugeLasts, Op
<1> HIDE DEF W, L
<1>3. <<S("login"), S("ensureSession")>> \in Seq(Line) /\ Fits(W, L, "ensureSession", <<S("login"), S("ensureSession")>>)
  BY <1>a, <1>c, <1>d, TwoFit
<1>4. <<S("connected")>> \in Seq(Line) /\ Fits(W, L, "ensureSession", <<S("connected")>>)
  BY <1>a, <1>c, <1>d, OneFits
<1>5. <<S("get_hosts"), S("connect")>> \in Seq(Line) /\ Fits(W, L, "connected", <<S("get_hosts"), S("connect")>>)
  BY <1>a, <1>c, <1>d, TwoFit
<1>6. ASSUME op \in {"submit", "mark"}
      PROVE  /\ DelugeFits(op, "ensureLabelPlugin", <<S("ensureSession"), S("plugins")>>)
             /\ DelugeFits(op, "plugins", <<S("ensureSession"), S("enable_plugin")>>)
             /\ DelugeFits(op, "get_labels", <<S("ensureSession"), S("add_label"), S("orExists")>>)
  <2>1. Labelling \subseteq W /\ L = {"set_label"} /\ W \subseteq Word
    BY <1>6, DelugeWordsAre DEF W, L
  <2>2. \A w \in Labelling : S(w) \in Line /\ S(w).do = w /\ ~S(w).refused /\ w \in W /\ (w # "set_label" => w \notin L)
    BY <2>1, StepIsLine
  <2>a. /\ "ensureLabelPlugin" \in W /\ "plugins" \in W /\ "enable_plugin" \in W
        /\ S("plugins") \in Line /\ S("plugins").do = "plugins" /\ ~S("plugins").refused
        /\ S("enable_plugin") \in Line /\ S("enable_plugin").do = "enable_plugin" /\ ~S("enable_plugin").refused
        /\ "ensureLabelPlugin" \notin L /\ "plugins" \notin L
    BY <2>2 DEF Labelling, Plugging
  <2>b. /\ "plugins" \in Follows("ensureSession") /\ "enable_plugin" \in Follows("ensureSession")
        /\ Follows("ensureLabelPlugin") = Follows("plugins") /\ Follows("plugins") = Follows("enable_plugin")
        /\ Stage("ensureLabelPlugin") = 3 /\ Stage("plugins") = 3 /\ Stage("enable_plugin") = 3
    BY DelugeOrder DEF Needs, Plugging
  <2>4. <<S("ensureSession"), S("plugins")>> \in Seq(Line) /\ Fits(W, L, "ensureLabelPlugin", <<S("ensureSession"), S("plugins")>>)
    BY <1>a, <1>d, <2>a, <2>b, TwoFit
  <2>5. <<S("ensureSession"), S("enable_plugin")>> \in Seq(Line) /\ Fits(W, L, "plugins", <<S("ensureSession"), S("enable_plugin")>>)
    BY <1>a, <1>d, <2>a, <2>b, TwoFit
  <2>c. /\ "get_labels" \in W /\ "add_label" \in W /\ "orExists" \in W /\ "get_labels" \notin L
        /\ S("add_label") \in Line /\ S("add_label").do = "add_label" /\ ~S("add_label").refused
        /\ S("orExists") \in Line /\ S("orExists").do = "orExists" /\ ~S("orExists").refused
    BY <2>2 DEF Labelling
  <2>d. /\ "add_label" \in Follows("ensureSession") /\ "orExists" \in Follows("add_label")
        /\ Follows("get_labels") = Follows("orExists")
        /\ Stage("add_label") = 4 /\ Stage("orExists") = 4 /\ Stage("get_labels") = 4
    BY DelugeOrder DEF Needs, Plugging
  <2>7. /\ <<S("ensureSession"), S("add_label"), S("orExists")>> \in Seq(Line)
        /\ Fits(W, L, "get_labels", <<S("ensureSession"), S("add_label"), S("orExists")>>)
    BY <1>a, <1>d, <2>c, <2>d, ThreeFit
  <2> QED BY <2>4, <2>5, <2>7 DEF DelugeFits, W, L
<1>7. ASSUME op = "select" PROVE DelugeFits(op, "priorities", <<S("ensureSession"), S("set_options")>>)
  <2>1. {"priorities", "set_options"} \subseteq W /\ L = {"priorities", "set_options"} /\ W \subseteq Word
    BY <1>7, DelugeWordsAre DEF W, L
  <2>2. S("set_options") \in Line /\ S("set_options").do = "set_options" /\ ~S("set_options").refused
    BY <2>1, StepIsLine
  <2>3. /\ "set_options" \in Follows("ensureSession") /\ Follows("priorities") = {}
        /\ Stage("priorities") = 3 /\ Stage("set_options") = 3
    BY DelugeOrder DEF Needs
  <2>4. <<S("ensureSession"), S("set_options")>> \in Seq(Line) /\ Fits(W, L, "priorities", <<S("ensureSession"), S("set_options")>>)
    BY <1>a, <1>d, <2>1, <2>2, <2>3, TwoFit
  <2> QED BY <2>4 DEF DelugeFits, W, L
<1>8. \A w : DelugeFits(op, w, <<>>)
  BY NothingFits, NoStep DEF DelugeFits
<1>9. ASSUME NEW x \in Line, x.do \in DelugeWords(op) \ ({"login"} \cup DelugeLocal)
      PROVE  DelugeFits(op, x.do, <<S("login"), S("ensureSession"), Again(x)>>)
  <2>1. Again(x) \in Line /\ Again(x).do = x.do /\ ~Again(x).refused
    BY AgainIsLine
  <2>2. x.do \in W /\ x.do \in Follows("ensureSession")
    <3>1. x.do \in Session \cup Labelling \cup {"add", "orMagnet", "status", "files", "orNoFiles", "priorities", "set_options", "run", "remove"}
      BY <1>9, DelugeWordsAre DEF Op
    <3> QED BY <1>9, <3>1, DelugeOrder DEF Session, Labelling, Plugging, DelugeLocal, Needs, W
  <2>3. /\ <<S("login"), S("ensureSession"), Again(x)>> \in Seq(Line)
        /\ Fits(W, L, x.do, <<S("login"), S("ensureSession"), Again(x)>>)
    BY <1>a, <1>c, <1>d, <2>1, <2>2, ThreeFit
  <2> QED BY <2>3 DEF DelugeFits, W, L
<1> QED BY <1>3, <1>4, <1>5, <1>6, <1>7, <1>8, <1>9 DEF DelugeFits, W, L
-----------------------------------------------------------------------------
\* What the service is left with, and what another call can see of a step of c.
LEMMA NewJobIs ==
  ASSUME NEW c \in Calling
  PROVE  /\ NewJob(c) \in Torrent /\ NewJob(c).there /\ NewJob(c).markers = {} /\ ~NewJob(c).past
         /\ NoJob \in Torrent /\ ~NoJob.there /\ ~NoJob.ours /\ ~NoJob.past
BY DEF NewJob, NoJob, Torrent, Calling

\* The label of a call holds the marker that it was given.
LEMMA LabelIs ==
  ASSUME NEW c \in Calling
  PROVE  Label(c) \in SUBSET Marker /\ c.marker \in Label(c)
BY DEF Label, Calling, Reading

Effects(c, mem, mem1, s, s1) ==
  /\ mem1 \in Client /\ s1 \in Service
  /\ mem1.session \in {mem.session, "good", "none"}
  /\ mem1.connected => mem.connected \/ s1.attached
  /\ mem1.labelReady => mem.labelReady \/ s1.plugin
  /\ s.attached => s1.attached
  /\ s.plugin => s1.plugin
  /\ s.labels \subseteq s1.labels
  /\ c.op \in {"run", "look"} => s1.job.there = s.job.there
  /\ s1.job.there = s.job.there /\ s.job.there => s1.job.past = s.job.past
  /\ s1.job.ours /\ s1.job.markers = {} =>
       \/ s.job.ours /\ s.job.markers = {}
       \/ kind = "deluge" /\ c.op = "submit"

\* Steps that change neither client nor service have no effects.
LEMMA Nothing ==
  ASSUME NEW c, NEW mem \in Client, NEW s \in Service
  PROVE  Effects(c, mem, mem, s, s)
BY DEF Effects

\* The service alone.
LEMMA DelugeServed ==
  ASSUME kind = "deluge", NEW c \in Calling, c.op \in Op, c.todo # <<>>,
         NEW mem \in Client, NEW s \in Service, c.todo[1].do \in DelugeWords(c.op),
         NEW s1, s1 = DelugeServes(c, s)
  PROVE  Effects(c, mem, mem, s, s1)
<1> DEFINE w == c.todo[1].do
<1>1. Head(c.todo).do = w
  BY Spliced DEF Calling
<1>2. NewJob(c) \in Torrent /\ NoJob \in Torrent /\ ~NoJob.ours /\ Label(c) \in SUBSET Marker /\ c.marker \in Label(c)
      /\ ~NewJob(c).past /\ NewJob(c).there /\ ~NoJob.there
  BY NewJobIs, LabelIs
<1>3. c.want \in BOOLEAN /\ c.read.off \in SUBSET File /\ c.files \in SUBSET File
  BY DEF Calling, Reading
<1>4. /\ w = "add" => c.op = "submit"
      /\ w = "remove" => c.op = "remove"
      /\ w \in {"set_label", "add_label", "enable_plugin"} => c.op \in {"submit", "mark"}
  BY DelugeWordsAre DEF Op, Session, Labelling, Plugging
<1>5. s.job \in Torrent
  BY DEF Service
<1>6. CASE w = "connect"
  <2>1. s1 = [s EXCEPT !.attached = TRUE]
    BY <1>1, <1>6 DEF DelugeServes
  <2> QED BY <2>1 DEF Effects, Service
<1>7. CASE w = "add" /\ ~s.job.there
  <2>1. s1 = [s EXCEPT !.job = NewJob(c)]
    BY <1>1, <1>7 DEF DelugeServes
  <2> QED BY <1>2, <1>4, <1>7, <2>1 DEF Effects, Service
<1>8. CASE w = "enable_plugin"
  <2>1. s1 = [s EXCEPT !.plugin = TRUE]
    BY <1>1, <1>8 DEF DelugeServes
  <2> QED BY <2>1 DEF Effects, Service
<1>9. CASE w = "add_label"
  <2>1. s1 = [s EXCEPT !.labels = s.labels \cup {Label(c)}]
    BY <1>1, <1>9 DEF DelugeServes
  <2> QED BY <1>2, <2>1 DEF Effects, Service
<1>10. CASE w = "set_label" /\ Label(c) \in s.labels /\ s.job.there
  <2>1. s1 = [s EXCEPT !.job.markers = Label(c)]
    BY <1>1, <1>10 DEF DelugeServes
  <2> QED BY <1>2, <1>5, <2>1 DEF Effects, Service, Torrent
<1>11. CASE w = "set_options"
  <2>1. s1 = [s EXCEPT !.job.off = IF c.want THEN c.read.off \ c.files ELSE c.read.off \cup c.files]
    BY <1>1, <1>11 DEF DelugeServes
  <2> QED BY <1>3, <1>5, <2>1 DEF Effects, Service, Torrent
<1>12. CASE w = "run"
  <2>1. s1 = [s EXCEPT !.job.running = c.want]
    BY <1>1, <1>12 DEF DelugeServes
  <2> QED BY <1>3, <1>5, <2>1 DEF Effects, Service, Torrent
<1>13. CASE w = "remove"
  <2>1. s1 = [s EXCEPT !.job = NoJob]
    BY <1>1, <1>13 DEF DelugeServes
  <2> QED BY <1>2, <1>4, <1>13, <2>1 DEF Effects, Service
<1>14. ASSUME w # "connect", ~(w = "add" /\ ~s.job.there), w # "enable_plugin", w # "add_label",
              ~(w = "set_label" /\ Label(c) \in s.labels /\ s.job.there), w # "set_options", w # "run", w # "remove"
       PROVE  s1 = s
  BY <1>1, <1>14 DEF DelugeServes
<1> QED BY <1>6, <1>7, <1>8, <1>9, <1>10, <1>11, <1>12, <1>13, <1>14, Nothing
-----------------------------------------------------------------------------
\* The answer to a request of Deluge: r takes the place of its head.
Answers(c, r, d, mem, mem1, s, s1) == LET w == c.todo[1].do IN
  /\ d \in Calling /\ d.todo = r \o Tail(c.todo)
  /\ d.op = c.op /\ d.marker = c.marker /\ d.files = c.files /\ d.want = c.want /\ d.state = "running"
  /\ d.disturbed = c.disturbed /\ d.crossed = c.crossed /\ d.robbed = c.robbed /\ d.done = c.done
  /\ w # "status" => Label(d) = Label(c)
  /\ DelugeFits(c.op, w, r) /\ ~Once(r) /\ ~Has(r, Firsts) /\ ~Has(r, {"add"})
  /\ r # <<>> => ~r[1].refused /\ r[1].do \in {"get_hosts", "ensureSession"}
  /\ Effects(c, mem, mem1, s, s1)
  /\ mem1.session = IF w = "login" THEN "good" ELSE mem.session
  /\ mem1.connected => mem.connected \/ s1.attached
  /\ w = "login" => ~mem1.connected
  /\ r = <<>> /\ w = "connected" => s1.attached
  /\ w = "connect" => s1.attached
  /\ w = "plugins" => s1.plugin \/ Has(r, Plugging)
  /\ w = "enable_plugin" => s1.plugin
  /\ w = "get_labels" => Label(d) \in s1.labels \/ Has(r, Labels)
  /\ w = "add_label" => Label(d) \in s1.labels
  /\ w = "set_label" => s1.job.there /\ s1.job.markers # {} /\ c.marker \in s1.job.markers
  /\ w \notin {"add", "remove"} => s1.job.there = s.job.there
  /\ w = "add" => s1.job.there
  /\ w \in {"set_label", "set_options", "run", "remove", "status"} => r = <<>>
  /\ w = "set_options" /\ c.op = "select" => Goal(d, s1.job)
  /\ w = "run" /\ c.op = "run" => Goal(d, s1.job)
  /\ w = "remove" /\ c.op = "remove" => Goal(d, s1.job)

\* login() forgets the daemon and the plugin.
LEMMA LogsInIs ==
  ASSUME NEW mem
  PROVE  /\ DelugeLogsIn(mem) \in Client /\ DelugeLogsIn(mem).session = "good"
         /\ ~DelugeLogsIn(mem).connected /\ ~DelugeLogsIn(mem).labelReady
BY DEF DelugeLogsIn, Client

\* What every answer leaves of a call as it was.
LEMMA AnsweredAt ==
  ASSUME NEW c \in Calling, c.todo # <<>>, c.state = "running"
  PROVE  /\ c.todo \in Seq(Line) /\ Head(c.todo).do = c.todo[1].do
         /\ \A r \in Seq(Line) :
              LET d == Then(c, r) IN
              /\ d \in Calling /\ d.todo = r \o Tail(c.todo)
              /\ d.op = c.op /\ d.marker = c.marker /\ d.files = c.files /\ d.want = c.want /\ d.state = "running"
              /\ d.disturbed = c.disturbed /\ d.crossed = c.crossed /\ d.robbed = c.robbed /\ d.done = c.done
              /\ Label(d) = Label(c)
<1>1. c.todo \in Seq(Line) /\ Head(c.todo).do = c.todo[1].do
  BY Spliced DEF Calling
<1>2. ASSUME NEW r \in Seq(Line)
      PROVE  LET d == Then(c, r) IN
              /\ d \in Calling /\ d.todo = r \o Tail(c.todo)
              /\ d.op = c.op /\ d.marker = c.marker /\ d.files = c.files /\ d.want = c.want /\ d.state = "running"
              /\ d.disturbed = c.disturbed /\ d.crossed = c.crossed /\ d.robbed = c.robbed /\ d.done = c.done
              /\ Label(d) = Label(c)
  BY ThenIs DEF Same, Label
<1> QED BY <1>1, <1>2

\* Answers that only go on.
LEMMA DelugeGoesOn ==
  ASSUME kind = "deluge", NEW c \in Calling, c.op \in Op, c.todo # <<>>, c.state = "running",
         NEW mem \in Client, NEW s \in Service, c.todo[1].do \in DelugeWords(c.op),
         c.todo[1].do \in {"login", "get_hosts", "connect", "enable_plugin", "add_label", "set_label",
                           "add", "set_options", "run", "remove"},
         ~DelugeErrs(c, s)
  PROVE  Answers(c, <<>>, DelugeTakes(c, mem, s).call, mem, DelugeTakes(c, mem, s).mem, s, DelugeServes(c, s))
<1> DEFINE w == c.todo[1].do  d == Then(c, <<>>)  m1 == DelugeTakes(c, mem, s).mem  s1 == DelugeServes(c, s)
<1>1. Head(c.todo).do = w /\ <<>> \in Seq(Line) /\ ~Once(<<>>) /\ ~Has(<<>>, Firsts) /\ ~Has(<<>>, {"add"})
      /\ DelugeFits(c.op, w, <<>>)
  BY AnsweredAt, NoStep, Replacements
<1>2. /\ d \in Calling /\ d.todo = <<>> \o Tail(c.todo)
      /\ d.op = c.op /\ d.marker = c.marker /\ d.files = c.files /\ d.want = c.want /\ d.state = "running"
      /\ d.disturbed = c.disturbed /\ d.crossed = c.crossed /\ d.robbed = c.robbed /\ d.done = c.done
      /\ Label(d) = Label(c)
  BY <1>1, AnsweredAt
<1>3. Effects(c, mem, mem, s, s1)
  BY DelugeServed
<1>4. Label(c) \in SUBSET Marker /\ c.marker \in Label(c) /\ NewJob(c).there /\ ~NoJob.there
  BY LabelIs, NewJobIs
<1> HIDE DEF d
<1>5. /\ DelugeTakes(c, mem, s).call = d
      /\ w = "login" => m1 = DelugeLogsIn(mem)
      /\ w = "connect" => m1 = [mem EXCEPT !.connected = TRUE]
      /\ w = "enable_plugin" => m1 = [mem EXCEPT !.labelReady = TRUE]
      /\ w \notin {"login", "connect", "enable_plugin"} => m1 = mem
  BY <1>1 DEF DelugeTakes, DelugeSession, DelugeLabels, With, d
<1>6. /\ w = "connect" => s1 = [s EXCEPT !.attached = TRUE]
      /\ w = "enable_plugin" => s1 = [s EXCEPT !.plugin = TRUE]
      /\ w = "add" /\ ~s.job.there => s1 = [s EXCEPT !.job = NewJob(c)]
      /\ w = "add_label" => s1 = [s EXCEPT !.labels = s.labels \cup {Label(c)}]
      /\ w = "set_label" /\ Label(c) \in s.labels /\ s.job.there => s1 = [s EXCEPT !.job.markers = Label(c)]
      /\ w = "set_options" => s1 = [s EXCEPT !.job.off = IF c.want THEN c.read.off \ c.files ELSE c.read.off \cup c.files]
      /\ w = "run" => s1 = [s EXCEPT !.job.running = c.want]
      /\ w = "remove" => s1 = [s EXCEPT !.job = NoJob]
      /\ w \in {"login", "get_hosts"} => s1 = s
  BY <1>1 DEF DelugeServes
<1>7. /\ w = "add" => ~s.job.there
      /\ w = "set_label" => Label(c) \in s.labels /\ s.job.there
      /\ w \in {"set_options", "run", "remove"} => s.job.there
  BY <1>1 DEF DelugeErrs
<1>8. s \in Service /\ s.job \in Torrent /\ s.attached \in BOOLEAN /\ s.plugin \in BOOLEAN
  BY DEF Service
<1> HIDE DEF s1, m1
<1>9. Effects(c, mem, m1, s, s1)
  <2>1. s1.attached \/ w # "connect"
    BY <1>6, <1>8 DEF Service
  <2>2. s1.plugin \/ w # "enable_plugin"
    BY <1>6, <1>8 DEF Service
  <2>3. mem.session \in {"none", "good", "stale"} /\ mem.connected \in BOOLEAN /\ mem.labelReady \in BOOLEAN
    BY DEF Client
  <2>4. /\ m1 \in Client /\ m1.session \in {mem.session, "good", "none"}
        /\ m1.connected => mem.connected \/ w = "connect"
        /\ m1.labelReady => mem.labelReady \/ w = "enable_plugin"
    <3>1. CASE w = "login"
      BY <1>5, <3>1, LogsInIs
    <3>2. CASE w = "connect"
      BY <1>5, <3>2 DEF Client
    <3>3. CASE w = "enable_plugin"
      BY <1>5, <3>3 DEF Client
    <3>4. CASE w \notin {"login", "connect", "enable_plugin"}
      BY <1>5, <3>4
    <3> QED BY <3>1, <3>2, <3>3, <3>4
  <2> QED BY <1>3, <2>1, <2>2, <2>4 DEF Effects
<1>10. /\ m1.session = IF w = "login" THEN "good" ELSE mem.session
       /\ w = "login" => ~m1.connected
       /\ m1.connected => mem.connected \/ s1.attached
  BY <1>5, <1>9, LogsInIs DEF Client, Effects
<1>11. /\ w = "connect" => s1.attached
       /\ w = "enable_plugin" => s1.plugin
       /\ w = "add_label" => Label(c) \in s1.labels
       /\ w = "set_label" => s1.job.there /\ s1.job.markers = Label(c)
       /\ w \notin {"add", "remove"} => s1.job.there = s.job.there
       /\ w = "add" => s1.job.there
       /\ w = "remove" => ~s1.job.there
       /\ w = "run" => s1.job.running = c.want
       /\ w = "set_options" => s1.job.off = IF c.want THEN c.read.off \ c.files ELSE c.read.off \cup c.files
  <2>1. CASE w \in {"connect", "enable_plugin", "add_label", "login", "get_hosts"}
    BY <1>6, <1>8, <2>1 DEF Service
  <2>2. CASE w \in {"add", "remove"}
    BY <1>4, <1>6, <1>7, <1>8, <2>2 DEF Service
  <2>3. CASE w = "set_label"
    BY <1>6, <1>7, <1>8, <2>3 DEF Service, Torrent
  <2>4. CASE w = "set_options"
    <3>1. PICK o : o = IF c.want THEN c.read.off \ c.files ELSE c.read.off \cup c.files
      OBVIOUS
    <3>2. s1.job = [s.job EXCEPT !.off = o]
      BY <1>6, <1>8, <2>4, <3>1 DEF Service
    <3>3. s1.job.off = o /\ s1.job.there = s.job.there
      BY <1>8, <3>2 DEF Torrent
    <3> QED BY <2>4, <3>1, <3>3
  <2>5. CASE w = "run"
    <3>1. s1.job = [s.job EXCEPT !.running = c.want]
      BY <1>6, <1>8, <2>5 DEF Service
    <3>2. s1.job.running = c.want /\ s1.job.there = s.job.there
      BY <1>8, <3>1 DEF Torrent
    <3> QED BY <2>5, <3>2
  <2> QED BY <2>1, <2>2, <2>3, <2>4, <2>5
<1>12. /\ w = "set_options" /\ c.op = "select" => Goal(d, s1.job)
       /\ w = "run" /\ c.op = "run" => Goal(d, s1.job)
       /\ w = "remove" /\ c.op = "remove" => Goal(d, s1.job)
  BY <1>2, <1>11 DEF Goal
<1>13. w = "set_label" => s1.job.markers # {} /\ c.marker \in s1.job.markers
  BY <1>4, <1>11
<1>14. w \notin {"connected", "plugins", "get_labels", "status"}
  OBVIOUS
<1>15. Answers(c, <<>>, d, mem, m1, s, s1)
  <2> HIDE DEF w
  <2> QED BY <1>1, <1>2, <1>9, <1>10, <1>11, <1>12, <1>13, <1>14 DEF Answers, w
<1> QED BY <1>5, <1>15 DEF m1, s1

\* Answers that put steps in front, and answers that are read.
LEMMA DelugeAsksMore ==
  ASSUME kind = "deluge", NEW c \in Calling, c.op \in Op, c.todo # <<>>, c.state = "running",
         NEW mem \in Client, NEW s \in Service, c.todo[1].do \in DelugeWords(c.op),
         c.todo[1].do \in {"connected", "plugins", "get_labels"}
  PROVE  \E r : Answers(c, r, DelugeTakes(c, mem, s).call, mem, DelugeTakes(c, mem, s).mem, s, DelugeServes(c, s))
<1> DEFINE w == c.todo[1].do  a == DelugeTakes(c, mem, s)
<1>1. Head(c.todo).do = w /\ DelugeServes(c, s) = s /\ ~DelugeErrs(c, s)
  BY AnsweredAt DEF DelugeServes, DelugeErrs
<1>2. s \in Service /\ s.attached \in BOOLEAN /\ s.plugin \in BOOLEAN /\ Effects(c, mem, mem, s, s)
  BY Nothing DEF Service
<1>3. /\ mem \in Client /\ [mem EXCEPT !.connected = TRUE] \in Client /\ [mem EXCEPT !.labelReady = TRUE] \in Client
      /\ [mem EXCEPT !.connected = TRUE].session = mem.session
      /\ [mem EXCEPT !.labelReady = TRUE].session = mem.session
      /\ [mem EXCEPT !.connected = TRUE].labelReady = mem.labelReady
      /\ [mem EXCEPT !.labelReady = TRUE].connected = mem.connected
  BY DEF Client
<1>4. \A x \in {"get_hosts", "connect", "ensureSession", "plugins", "enable_plugin", "add_label", "orExists"} :
        S(x) \in Line /\ S(x).do = x /\ ~S(x).refused /\ ~S(x).again
  BY StepIsLine DEF Word
<1>5. ASSUME NEW r \in Seq(Line), DelugeFits(c.op, w, r), a.call = Then(c, r), NEW m1, a.mem = m1,
             ~Once(r), ~Has(r, Firsts), ~Has(r, {"add"}),
             r # <<>> => ~r[1].refused /\ r[1].do \in {"get_hosts", "ensureSession"},
             Effects(c, mem, m1, s, s), m1.session = mem.session, m1.connected => mem.connected \/ s.attached,
             r = <<>> /\ w = "connected" => s.attached,
             w = "plugins" => s.plugin \/ Has(r, Plugging),
             w = "get_labels" => Label(c) \in s.labels \/ Has(r, Labels)
      PROVE  Answers(c, r, a.call, mem, a.mem, s, s)
  <2>1. PICK d : d = Then(c, r)
    OBVIOUS
  <2>2. /\ d \in Calling /\ d.todo = r \o Tail(c.todo)
        /\ d.op = c.op /\ d.marker = c.marker /\ d.files = c.files /\ d.want = c.want /\ d.state = "running"
        /\ d.disturbed = c.disturbed /\ d.crossed = c.crossed /\ d.robbed = c.robbed /\ d.done = c.done
        /\ Label(d) = Label(c)
    BY <1>5, <2>1, AnsweredAt
  <2>3. w \notin {"login", "connect", "enable_plugin", "add_label", "set_label", "add", "remove", "status", "set_options", "run"}
    OBVIOUS
  <2>4. Answers(c, r, d, mem, m1, s, s)
    <3> HIDE DEF w
    <3> QED BY <1>5, <2>2, <2>3 DEF Answers, w
  <2> QED BY <1>5, <2>1, <2>4
<1>6. <<>> \in Seq(Line) /\ ~Once(<<>>) /\ ~Has(<<>>, Firsts) /\ ~Has(<<>>, {"add"}) /\ DelugeFits(c.op, w, <<>>)
  BY NoStep, Replacements
<1>7. CASE w = "connected" /\ s.attached
  <2>1. a.call = Then(c, <<>>) /\ a.mem = [mem EXCEPT !.connected = TRUE]
    BY <1>1, <1>7 DEF DelugeTakes, DelugeSession, With
  <2>2. Effects(c, mem, [mem EXCEPT !.connected = TRUE], s, s)
    BY <1>2, <1>3, <1>7 DEF Effects
  <2>3. Answers(c, <<>>, a.call, mem, a.mem, s, s)
    BY <1>3, <1>5, <1>6, <1>7, <2>1, <2>2
  <2> QED BY <1>1, <2>3
<1>8. CASE w = "connected" /\ ~s.attached
  <2>1. PICK r : r = <<S("get_hosts"), S("connect")>>
    OBVIOUS
  <2>2. a.call = Then(c, r) /\ a.mem = mem
    BY <1>1, <1>8, <2>1 DEF DelugeTakes, DelugeSession, With
  <2>3. /\ r \in Seq(Line) /\ r[1] = S("get_hosts") /\ ~Once(r)
        /\ \A X : Has(r, X) <=> "get_hosts" \in X \/ "connect" \in X
        /\ r # <<>>
    BY <1>4, <2>1, TwoSteps
  <2>4. DelugeFits(c.op, w, r) /\ ~Has(r, Firsts) /\ ~Has(r, {"add"})
    BY <1>8, <2>1, <2>3, Replacements DEF Firsts
  <2>5. Answers(c, r, a.call, mem, a.mem, s, s)
    BY <1>2, <1>4, <1>5, <1>8, <2>2, <2>3, <2>4
  <2> QED BY <1>1, <2>5
<1>9. w \in {"plugins", "get_labels"} => c.op \in {"submit", "mark"}
  BY DelugeWordsAre DEF Op, Session
<1>10. CASE w = "plugins" /\ s.plugin
  <2>1. a.call = Then(c, <<>>) /\ a.mem = [mem EXCEPT !.labelReady = TRUE]
    BY <1>1, <1>10 DEF DelugeTakes, DelugeLabels, With
  <2>2. Effects(c, mem, [mem EXCEPT !.labelReady = TRUE], s, s)
    BY <1>2, <1>3, <1>10 DEF Effects
  <2>3. Answers(c, <<>>, a.call, mem, a.mem, s, s)
    BY <1>3, <1>5, <1>6, <1>10, <2>1, <2>2
  <2> QED BY <1>1, <2>3
<1>11. CASE w = "plugins" /\ ~s.plugin
  <2>1. PICK r : r = <<S("ensureSession"), S("enable_plugin")>>
    OBVIOUS
  <2>2. a.call = Then(c, r) /\ a.mem = mem
    BY <1>1, <1>11, <2>1 DEF DelugeTakes, DelugeLabels, With, Rpc
  <2>3. /\ r \in Seq(Line) /\ r[1] = S("ensureSession") /\ ~Once(r)
        /\ \A X : Has(r, X) <=> "ensureSession" \in X \/ "enable_plugin" \in X
        /\ r # <<>>
    BY <1>4, <2>1, TwoSteps
  <2>4. DelugeFits(c.op, w, r) /\ ~Has(r, Firsts) /\ ~Has(r, {"add"}) /\ Has(r, Plugging)
    BY <1>9, <1>11, <2>1, <2>3, Replacements DEF Firsts, Plugging
  <2>5. Answers(c, r, a.call, mem, a.mem, s, s)
    BY <1>2, <1>4, <1>5, <1>11, <2>2, <2>3, <2>4
  <2> QED BY <1>1, <2>5
<1>12. CASE w = "get_labels" /\ Label(c) \in s.labels
  <2>1. a.call = Then(c, <<>>) /\ a.mem = mem
    BY <1>1, <1>12 DEF DelugeTakes, DelugeLabels, With
  <2>3. Answers(c, <<>>, a.call, mem, a.mem, s, s)
    BY <1>2, <1>5, <1>6, <1>12, <2>1
  <2> QED BY <1>1, <2>3
<1>13. CASE w = "get_labels" /\ Label(c) \notin s.labels
  <2>1. PICK r : r = <<S("ensureSession"), S("add_label"), S("orExists")>>
    OBVIOUS
  <2>2. a.call = Then(c, r) /\ a.mem = mem
    <3>1. Rpc("add_label") \o <<S("orExists")>> = r
      BY <1>4, <2>1, Concatenated DEF Rpc
    <3> QED BY <1>1, <1>13, <3>1 DEF DelugeTakes, DelugeLabels, With
  <2>3. /\ r \in Seq(Line) /\ r[1] = S("ensureSession") /\ ~Once(r)
        /\ \A X : Has(r, X) <=> "ensureSession" \in X \/ "add_label" \in X \/ "orExists" \in X
        /\ r # <<>>
    BY <1>4, <2>1, ThreeSteps
  <2>4. DelugeFits(c.op, w, r) /\ ~Has(r, Firsts) /\ ~Has(r, {"add"}) /\ Has(r, Labels)
    BY <1>9, <1>13, <2>1, <2>3, Replacements DEF Firsts, Labels
  <2>5. Answers(c, r, a.call, mem, a.mem, s, s)
    BY <1>2, <1>4, <1>5, <1>13, <2>2, <2>3, <2>4
  <2> QED BY <1>1, <2>5
<1> QED BY <1>7, <1>8, <1>10, <1>11, <1>12, <1>13

\* The answers that read the torrent: its label, its files.
LEMMA DelugeReadsOn ==
  ASSUME kind = "deluge", NEW c \in Calling, c.op \in Op, c.todo # <<>>, c.state = "running",
         NEW mem \in Client, NEW s \in Service, c.todo[1].do \in DelugeWords(c.op),
         c.todo[1].do \in {"status", "files"}, ~(c.op = "mark" /\ c.todo[1].do = "status" /\ c.marker \in s.job.markers)
  PROVE  Answers(c, <<>>, DelugeTakes(c, mem, s).call, mem, DelugeTakes(c, mem, s).mem, s, DelugeServes(c, s))
<1> DEFINE w == c.todo[1].do  a == DelugeTakes(c, mem, s)
           c0 == IF w = "status" THEN [c EXCEPT !.read.markers = s.job.markers]
                 ELSE [c EXCEPT !.read.files = s.job.known, !.read.off = s.job.off]
<1>1. Head(c.todo).do = w /\ DelugeServes(c, s) = s /\ ~DelugeErrs(c, s)
  BY AnsweredAt DEF DelugeServes, DelugeErrs
<1>2. a.call = Then(c0, <<>>) /\ a.mem = mem
  BY <1>1 DEF DelugeTakes, DelugeReads, With
<1>3. c.read \in Reading /\ s.job \in Torrent
  BY DEF Calling, Service
<1>4. /\ c0 \in Calling /\ c0.todo = c.todo /\ c0.state = "running"
      /\ c0.op = c.op /\ c0.marker = c.marker /\ c0.files = c.files /\ c0.want = c.want
      /\ c0.disturbed = c.disturbed /\ c0.crossed = c.crossed /\ c0.robbed = c.robbed /\ c0.done = c.done
      /\ w # "status" => c0.read.markers = c.read.markers
  <2>1. CASE w = "status"
    <3>1. [c.read EXCEPT !.markers = s.job.markers] \in Reading
      BY <1>3 DEF Reading, Torrent
    <3>2. c0 = [c EXCEPT !.read = [c.read EXCEPT !.markers = s.job.markers]]
      BY <1>3, <2>1 DEF Calling
    <3> HIDE DEF c0
    <3> QED BY <2>1, <3>1, <3>2 DEF Calling
  <2>2. CASE w # "status"
    <3>1. PICK x : x = [[c.read EXCEPT !.files = s.job.known] EXCEPT !.off = s.job.off]
      OBVIOUS
    <3>2. x \in Reading /\ x.markers = c.read.markers
      BY <1>3, <3>1 DEF Reading, Torrent
    <3>3. c0 = [c EXCEPT !.read = x]
      BY <1>3, <2>2, <3>1 DEF Calling
    <3> HIDE DEF c0
    <3> QED BY <2>2, <3>2, <3>3 DEF Calling
  <2> QED BY <2>1, <2>2
<1> HIDE DEF c0
<1>5. <<>> \in Seq(Line) /\ ~Once(<<>>) /\ ~Has(<<>>, Firsts) /\ ~Has(<<>>, {"add"}) /\ DelugeFits(c.op, w, <<>>)
  BY NoStep, Replacements
<1>6. PICK d : d = Then(c0, <<>>)
  OBVIOUS
<1>7. /\ d \in Calling /\ d.todo = <<>> \o Tail(c.todo)
      /\ d.op = c.op /\ d.marker = c.marker /\ d.files = c.files /\ d.want = c.want /\ d.state = "running"
      /\ d.disturbed = c.disturbed /\ d.crossed = c.crossed /\ d.robbed = c.robbed /\ d.done = c.done
      /\ Label(d) = Label(c0)
  <2>1. c0.todo # <<>>
    BY <1>4
  <2>2. /\ d \in Calling /\ d.todo = <<>> \o Tail(c0.todo)
        /\ d.op = c0.op /\ d.marker = c0.marker /\ d.files = c0.files /\ d.want = c0.want /\ d.state = "running"
        /\ d.disturbed = c0.disturbed /\ d.crossed = c0.crossed /\ d.robbed = c0.robbed /\ d.done = c0.done
        /\ Label(d) = Label(c0)
    BY <1>4, <1>5, <1>6, <2>1, AnsweredAt
  <2> QED BY <1>4, <2>2
<1>8. w # "status" => Label(d) = Label(c)
  BY <1>4, <1>7 DEF Label
<1>9. Effects(c, mem, mem, s, s)
  BY Nothing
<1>10. w \notin {"login", "connected", "plugins", "connect", "enable_plugin", "get_labels", "add_label", "set_label", "add", "remove", "set_options", "run"}
  OBVIOUS
<1>11. Answers(c, <<>>, d, mem, mem, s, s)
  <2> HIDE DEF w
  <2> QED BY <1>5, <1>7, <1>8, <1>9, <1>10 DEF Answers, w, Effects
<1> QED BY <1>1, <1>2, <1>6, <1>11
-----------------------------------------------------------------------------
\* What an unfinished call of Deluge rests on, part by part.
SessionHolds(n, t, mem, s) ==
  Fresh(n, t) => /\ mem.session # "stale" /\ (mem.connected => s.attached)
                 /\ t[1].do \notin Local \cup {"login"} => mem.session = "good"
                 /\ t[1].do \in Needs => s.attached
LabelHolds(c, t, mem, s) ==
  c.op \in {"submit", "mark"} =>
    /\ mem.labelReady => s.plugin
    /\ s.plugin \/ Has(t, Plugging)
    /\ \/ Has(t, Labels)
       \/ Label(c) \in s.labels /\ ~Has(t, Firsts)

\* The parts of DelugeOK.
LEMMA DelugeParts ==
  ASSUME NEW n, NEW c, NEW mem, NEW s
  PROVE  DelugeOK(n, c, mem, s) <=>
           /\ Program(DelugeWords(c.op), DelugeLasts(c.op), c.todo)
           /\ c.todo[1].refused => c.todo[1].do # "login"
           /\ Quiet(c) => /\ c.todo[1].refused => ~Fresh(n, c.todo)
                          /\ SessionHolds(n, c.todo, mem, s)
                          /\ LabelHolds(c, c.todo, mem, s)
                          /\ Found(c, s, "add")
BY DEF DelugeOK, SessionHolds, LabelHolds, Labels

\* An answer leaves a call of Deluge in good order, or done: after its last request the effect is there.
LEMMA DelugeKeeps ==
  ASSUME kind = "deluge", NEW n \in Nat, NEW c \in Calling, c.op \in Op, c.state = "running", c.todo # <<>>,
         NEW mem \in Client, NEW s \in Service, DelugeOK(n, c, mem, s), c.todo[1].do \notin Local,
         NEW r, NEW d, NEW mem1, NEW s1, Answers(c, r, d, mem, mem1, s, s1)
  PROVE  /\ d.todo # <<>> => DelugeOK(n, d, mem1, s1)
         /\ d.todo = <<>> => /\ Goal(d, s1.job)
                             /\ c.op = "submit" => s1.job.markers # {}
<1> DEFINE t == c.todo  u == d.todo  w == c.todo[1].do
<1>1. /\ Program(DelugeWords(c.op), DelugeLasts(c.op), t) /\ t \in Seq(Line)
      /\ Quiet(c) => /\ SessionHolds(n, t, mem, s)
                     /\ LabelHolds(c, t, mem, s)
                     /\ Found(c, s, "add")
  BY DelugeParts DEF Calling
<1>2. r \in Seq(Line) /\ Advanced(c.op, t, r, u)
  <2>1. r \in Seq(Line) /\ Fits(DelugeWords(c.op), DelugeLasts(c.op), w, r) /\ u = r \o Tail(t)
    BY DEF Answers, DelugeFits
  <2> QED BY <1>1, <2>1, DelugeSplice
<1>3. w \in DelugeWords(c.op) /\ Has(t, {w}) /\ (\A X : w \in X => Has(t, X))
  <2>1. 1 \in 1..Len(t) /\ Len(t) \in Nat
    BY <1>1
  <2> QED BY <1>1, <2>1 DEF Program, Has
<1>4. w \in DelugeWords(c.op) \ Local
  BY <1>3
<1>5. d.op = c.op /\ (Quiet(d) <=> Quiet(c)) /\ d.crossed = c.crossed
  BY DEF Answers, Quiet
<1>6. Effects(c, mem, mem1, s, s1)
  BY DEF Answers
<1>7. ASSUME u # <<>> PROVE Program(DelugeWords(d.op), DelugeLasts(d.op), u) /\ ~u[1].refused
  BY <1>2, <1>5, <1>7 DEF Advanced, Answers
<1>8. Fresh(n, u) => Fresh(n, t)
  BY <1>2 DEF Advanced, Answers, Fresh
<1>9. ASSUME Quiet(c), u # <<>> PROVE SessionHolds(n, u, mem1, s1)
  <2> SUFFICES ASSUME Fresh(n, u)
               PROVE  /\ mem1.session # "stale" /\ (mem1.connected => s1.attached)
                      /\ u[1].do \notin Local \cup {"login"} => mem1.session = "good"
                      /\ u[1].do \in Needs => s1.attached
    BY DEF SessionHolds
  <2>1. /\ mem.session # "stale" /\ (mem.connected => s.attached)
        /\ w \notin Local \cup {"login"} => mem.session = "good"
    BY <1>1, <1>8, <1>9 DEF SessionHolds
  <2>2. mem1.session = IF w = "login" THEN "good" ELSE mem.session
    BY DEF Answers
  <2>3. (mem1.connected => mem.connected \/ s1.attached) /\ (s.attached => s1.attached)
    BY <1>6 DEF Effects
  <2>4. u[1].do \in Needs => s1.attached
    <3>1. CASE r # <<>>
      <4>1. u[1].do \in {"get_hosts", "ensureSession"}
        BY <1>2, <1>9, <3>1 DEF Advanced, Answers
      <4> QED BY <4>1 DEF Needs
    <3>2. CASE r = <<>>
      <4>1. u[1].do \in Follows(w)
        BY <1>2, <1>9, <3>2 DEF Advanced
      <4>2. w \in {"connected", "connect"} => s1.attached
        BY <3>2 DEF Answers
      <4>3. w \in {"login", "connected", "get_hosts", "connect", "plugins", "enable_plugin", "get_labels", "add_label", "set_label",
                   "add", "status", "files", "set_options", "run", "remove"}
        BY <1>4, DelugeWordsAre DEF Op, Session, Labelling, Plugging, Local, DelugeLocal
      <4>4. w \notin {"connected", "connect"} => Follows(w) \cap Needs = {}
        BY <4>3, DelugeOrder DEF Plugging, Needs
      <4> QED BY <4>1, <4>2, <4>4
    <3> QED BY <3>1, <3>2
  <2>5. w \notin Local
    OBVIOUS
  <2> QED BY <2>1, <2>2, <2>3, <2>4, <2>5
<1>10. ASSUME Quiet(c), u # <<>> PROVE LabelHolds(d, u, mem1, s1)
  <2> SUFFICES ASSUME c.op \in {"submit", "mark"}
               PROVE  /\ mem1.labelReady => s1.plugin
                      /\ s1.plugin \/ Has(u, Plugging)
                      /\ \/ Has(u, Labels)
                         \/ Label(d) \in s1.labels /\ ~Has(u, Firsts)
    BY <1>5 DEF LabelHolds
  <2>1. /\ mem.labelReady => s.plugin
        /\ s.plugin \/ Has(t, Plugging)
        /\ \/ Has(t, Labels)
           \/ Label(c) \in s.labels /\ ~Has(t, Firsts)
    BY <1>1, <1>10 DEF LabelHolds
  <2>2. mem1.labelReady => s1.plugin
    BY <1>6, <2>1 DEF Effects
  <2>3. s1.plugin \/ Has(u, Plugging)
    <3>1. Has(t, Plugging) => w \in Plugging \/ Has(u, Plugging)
      BY <1>2 DEF Advanced
    <3>2. w \in Plugging => w \in {"plugins", "enable_plugin"}
      BY DEF Plugging, Local, DelugeLocal
    <3>3. w \in {"plugins", "enable_plugin"} => s1.plugin \/ Has(r, Plugging)
      BY DEF Answers
    <3>4. Has(r, Plugging) => Has(u, Plugging)
      BY <1>2 DEF Advanced
    <3> QED BY <1>6, <2>1, <3>1, <3>2, <3>3, <3>4 DEF Effects
  <2>4. CASE w = "get_labels" \/ w = "add_label"
    <3>1. Label(d) \in s1.labels \/ Has(r, Labels)
      BY <2>4 DEF Answers
    <3>2. ~Has(u, Firsts)
      <4>1. Stage(w) > 0
        BY <2>4, DelugeOrder
      <4> QED BY <1>2, <4>1 DEF Advanced, Answers
    <3> QED BY <1>2, <2>2, <2>3, <3>1, <3>2 DEF Advanced
  <2>5. CASE w \notin Labels
    <3>1. Has(t, Labels) => Has(u, Labels)
      BY <1>2, <2>5 DEF Advanced
    <3>2. ASSUME ~Has(t, Firsts), Label(c) \in s.labels PROVE Label(d) \in s1.labels /\ ~Has(u, Firsts)
      <4>1. w # "status"
        BY <1>3, <3>2 DEF Firsts
      <4>2. Label(d) = Label(c)
        BY <4>1 DEF Answers
      <4> QED BY <1>2, <1>6, <3>2, <4>2 DEF Advanced, Answers, Effects
    <3> QED BY <2>1, <2>2, <2>3, <3>1, <3>2
  <2> QED BY <2>4, <2>5 DEF Labels
<1>11. ASSUME Quiet(c), u # <<>> PROVE Found(d, s1, "add")
  <2> SUFFICES ASSUME ~c.crossed
               PROVE  /\ c.op = "submit" => (s1.job.there <=> ~Has(u, {"add"}))
                      /\ c.op \in {"mark", "select", "run", "remove"} => s1.job.there
    BY <1>5 DEF Found
  <2>1. /\ c.op = "submit" => (s.job.there <=> ~Has(t, {"add"}))
        /\ c.op \in {"mark", "select", "run", "remove"} => s.job.there
    BY <1>1, <1>11 DEF Found
  <2>2. w \notin {"add", "remove"} => s1.job.there = s.job.there
    BY DEF Answers
  <2>3. w = "add" => c.op = "submit"
    BY <1>4, DelugeWordsAre DEF Op, Session, Labelling, Plugging
  <2>4. w # "remove"
    <3>1. ASSUME w = "remove" PROVE FALSE
      <4>1. r = <<>> /\ Follows(w) = {}
        BY <3>1, DelugeOrder DEF Answers
      <4> QED BY <1>2, <1>11, <4>1 DEF Advanced
    <3> QED BY <3>1
  <2>5. CASE w = "add"
    <3>1. s1.job.there
      BY <2>5 DEF Answers
    <3>2. Stage(w) > 0
      <4>1. w \in Firsts
        BY <2>5 DEF Firsts
      <4>2. Stage(w) = 1
        BY <4>1, DelugeOrder
      <4> QED BY <4>2
    <3>3. ~Has(u, {"add"})
      BY <1>2, <3>2 DEF Advanced, Answers
    <3> QED BY <2>3, <2>5, <3>1, <3>3
  <2>6. CASE w # "add"
    <3>1. Has(t, {"add"}) => Has(u, {"add"})
      BY <1>2, <2>6 DEF Advanced
    <3>2. Has(u, {"add"}) => Has(t, {"add"})
      BY <1>2 DEF Advanced, Answers
    <3> QED BY <2>1, <2>2, <2>4, <2>6, <3>1, <3>2
  <2> QED BY <2>5, <2>6
<1>12. ASSUME u = <<>> PROVE Goal(d, s1.job) /\ (c.op = "submit" => s1.job.markers # {})
  <2>1. w \in DelugeLasts(c.op)
    BY <1>2, <1>12 DEF Advanced
  <2>2. CASE c.op \in {"submit", "mark"}
    <3>1. w = "set_label"
      BY <2>1, <2>2, DelugeWordsAre
    <3>2. s1.job.there /\ s1.job.markers # {} /\ c.marker \in s1.job.markers /\ d.marker = c.marker
      BY <3>1 DEF Answers
    <3> QED BY <1>5, <2>2, <3>2 DEF Goal
  <2>3. CASE c.op = "select"
    <3>1. w = "set_options"
      BY <2>1, <2>3, DelugeWordsAre DEF Local, DelugeLocal
    <3> QED BY <2>3, <3>1 DEF Answers
  <2>4. CASE c.op = "run"
    <3>1. w = "run"
      BY <2>1, <2>4, DelugeWordsAre
    <3> QED BY <2>4, <3>1 DEF Answers
  <2>5. CASE c.op = "remove"
    <3>1. w = "remove"
      BY <2>1, <2>5, DelugeWordsAre
    <3> QED BY <2>5, <3>1 DEF Answers
  <2>6. CASE c.op = "look"
    BY <1>5, <2>6 DEF Goal
  <2> QED BY <2>2, <2>3, <2>4, <2>5, <2>6 DEF Op
<1>13. ASSUME u # <<>> PROVE DelugeOK(n, d, mem1, s1)
  <2>1. Quiet(d) => /\ u[1].refused => ~Fresh(n, u)
                    /\ SessionHolds(n, u, mem1, s1)
                    /\ LabelHolds(d, u, mem1, s1)
                    /\ Found(d, s1, "add")
    BY <1>5, <1>7, <1>9, <1>10, <1>11, <1>13
  <2> QED BY <1>7, <1>13, <2>1, DelugeParts
<1> QED BY <1>12, <1>13
-----------------------------------------------------------------------------
\* All that an exception leaves of a call is the steps from a handler on.
Alike(c, d) == /\ d.op = c.op /\ d.marker = c.marker /\ d.files = c.files /\ d.want = c.want
               /\ d.magnet = c.magnet /\ d.read = c.read /\ d.done = c.done
               /\ d.disturbed = c.disturbed /\ d.crossed = c.crossed /\ d.robbed = c.robbed

CutShort(c, d, error) ==
  /\ d \in Calling /\ Alike(c, d)
  /\ d.todo = <<>> => d.state = error
  /\ d.todo # <<>> =>
       /\ d.state = "running" /\ Program(DelugeWords(d.op), DelugeLasts(d.op), d.todo)
       /\ ~d.todo[1].refused /\ d.todo[1].do \in Local /\ c.op \notin {"run", "look"}
       /\ Once(d.todo) => Once(c.todo)
       /\ \A X : Has(d.todo, X) => Has(c.todo, X)

\* An exception of Deluge's client ends at a handler or ends the call.
LEMMA DelugeThrown ==
  ASSUME NEW c \in Calling, c.op \in Op, c.state = "running", c.todo # <<>>,
         Program(DelugeWords(c.op), DelugeLasts(c.op), c.todo), c.todo[1].do \notin Local,
         NEW error \in {"unreachable", "unexpected_response", "authentication"}, NEW d, d = Throw(c, error)
  PROVE  CutShort(c, d, error)
<1>1. c.todo \in Seq(Line) /\ Len(c.todo) \in Nat /\ 1 \in 1..Len(c.todo)
  <2>1. c.todo \in Seq(Line)
    BY DEF Calling
  <2> QED BY <2>1
<1>2. d \in Calling
  BY Thrown
<1>3. CASE /\ Throw(c, error) = [c EXCEPT !.todo = <<>>, !.state = error]
           /\ \A i \in 1..Len(c.todo) : ~Catches(c.todo[i].do, error)
  <2>1. d.todo = <<>> /\ d.state = error /\ Alike(c, d)
    BY <1>3 DEF Calling, Alike
  <2> QED BY <1>2, <2>1 DEF CutShort
<1>4. ASSUME NEW k \in 1..Len(c.todo), Throw(c, error) = [c EXCEPT !.todo = SubSeq(c.todo, k, Len(c.todo))],
             Catches(c.todo[k].do, error)
      PROVE  CutShort(c, d, error)
  <2>1. PICK u : u = SubSeq(c.todo, k, Len(c.todo))
    OBVIOUS
  <2>2. d.todo = u /\ d.state = "running" /\ Alike(c, d)
    BY <1>4, <2>1 DEF Calling, Alike
  <2>3. c.todo[k].do \in {"orMagnet", "orExists", "orNoFiles"}
    BY <1>4 DEF Catches
  <2>4. k # 1 /\ c.todo[k].do \in Local
    BY <2>3 DEF Local, DelugeLocal
  <2>5. c.todo[k].do \in DelugeWords(c.op)
    BY DEF Program
  <2>6. c.op \notin {"run", "look"}
    <3>1. c.op \in {"run", "look"} => DelugeWords(c.op) \subseteq Session \cup {"run", "status"}
      BY DelugeWordsAre DEF Op
    <3> QED BY <2>3, <2>5, <3>1 DEF Session
  <2>7. Shortened(DelugeWords(c.op), DelugeLasts(c.op), c.todo, k, u)
    BY <1>1, <2>1, Suffix
  <2>8. d.op = c.op
    BY <2>2 DEF Alike
  <2> QED BY <1>2, <2>2, <2>4, <2>6, <2>7, <2>8 DEF Shortened, CutShort
<1>5. \/ /\ Throw(c, error) = [c EXCEPT !.todo = <<>>, !.state = error]
         /\ \A i \in 1..Len(c.todo) : ~Catches(c.todo[i].do, error)
      \/ \E k \in 1..Len(c.todo) :
           /\ Throw(c, error) = [c EXCEPT !.todo = SubSeq(c.todo, k, Len(c.todo))]
           /\ Catches(c.todo[k].do, error)
  BY Thrown
<1> QED BY <1>3, <1>4, <1>5

\* An error of a method ends a call only when something happened to it.
LEMMA DelugeFails ==
  ASSUME kind = "deluge", NEW n \in Nat, NEW c \in Calling, c.op \in Op, c.state = "running", c.todo # <<>>,
         NEW mem \in Client, NEW s \in Service, DelugeOK(n, c, mem, s), c.todo[1].do \notin Local,
         c.crossed => c.op \in {"run", "look"}, DelugeErrs(c, s),
         NEW s1, s1 = DelugeServes(c, s), NEW d, d = Throw(c, "unexpected_response")
  PROVE  /\ d \in Calling /\ Alike(c, d)
         /\ d.todo # <<>> => d.state = "running" /\ DelugeOK(n, d, mem, s1)
         /\ d.todo = <<>> => d.state = "unexpected_response" /\ (~Quiet(d) \/ d.crossed)
<1> DEFINE t == c.todo  w == c.todo[1].do
<1>1. /\ Program(DelugeWords(c.op), DelugeLasts(c.op), t) /\ t \in Seq(Line)
      /\ Quiet(c) => /\ SessionHolds(n, t, mem, s)
                     /\ LabelHolds(c, t, mem, s)
                     /\ Found(c, s, "add")
  BY DelugeParts DEF Calling
<1>2. /\ d \in Calling /\ Alike(c, d)
      /\ d.todo = <<>> => d.state = "unexpected_response"
      /\ d.todo # <<>> =>
           /\ d.state = "running" /\ Program(DelugeWords(d.op), DelugeLasts(d.op), d.todo)
           /\ ~d.todo[1].refused /\ d.todo[1].do \in Local /\ c.op \notin {"run", "look"}
           /\ Once(d.todo) => Once(t)
           /\ \A X : Has(d.todo, X) => Has(t, X)
  <2>1. CutShort(c, d, "unexpected_response")
    BY <1>1, DelugeThrown
  <2> QED BY <2>1 DEF CutShort
<1>3. Head(t).do = w /\ w \in DelugeWords(c.op) /\ (\A X : w \in X => Has(t, X))
      /\ \A X : Has(t, X) => w \in X \/ \E v \in X : Before(w, v)
  <2>1. 1 \in 1..Len(t) /\ Len(t) \in Nat /\ \A j \in 1..Len(t) : j = 1 \/ 1 < j
    BY <1>1
  <2> QED BY <1>1, <2>1, AnsweredAt DEF Program, Has
<1>4. (Quiet(d) <=> Quiet(c)) /\ d.crossed = c.crossed /\ d.op = c.op /\ Label(d) = Label(c)
  BY <1>2 DEF Alike, Quiet, Label
<1>5. CASE ~Quiet(c)
  BY <1>2, <1>4, <1>5, DelugeParts DEF Local, DelugeLocal
<1>6. CASE Quiet(c) /\ c.crossed
  BY <1>2, <1>4, <1>6
<1>7. CASE Quiet(c) /\ ~c.crossed
  <2>1. /\ SessionHolds(n, t, mem, s) /\ LabelHolds(c, t, mem, s)
        /\ c.op = "submit" => (s.job.there <=> ~Has(t, {"add"}))
        /\ c.op \in {"mark", "select", "run", "remove"} => s.job.there
    BY <1>1, <1>7 DEF Found
  <2>2. /\ w \in {"add"} => c.op = "submit"
        /\ w \in {"set_label", "add_label"} => c.op \in {"submit", "mark"}
        /\ w = "set_options" => c.op = "select"
        /\ w = "run" => c.op = "run"
        /\ w = "remove" => c.op = "remove"
    BY <1>3, DelugeWordsAre DEF Op, Session, Labelling, Plugging
  <2>3. /\ Stage("set_label") = 5 /\ Stage("add_label") = 4
        /\ \A v \in Firsts : Stage(v) = 1
        /\ Stage("add") = 1
        /\ \A v \in Plugging : Stage(v) = 3
        /\ \A v \in Labels : Stage(v) = 4
    BY DelugeOrder DEF Labels, Firsts
  <2>4. w \in {"set_label", "add_label"} => /\ ~Has(t, Firsts) /\ ~Has(t, {"add"}) /\ ~Has(t, Plugging)
                                            /\ (w = "set_label" => ~Has(t, Labels))
    BY <1>3, <2>3 DEF Before, Firsts, Plugging, Labels
  <2>5. w = "add_label" /\ Label(c) \in s.labels
    <3>1. \/ w = "add" /\ s.job.there
          \/ w = "add_label" /\ Label(c) \in s.labels
          \/ w = "set_label" /\ Label(c) \notin s.labels
          \/ w \in {"set_label", "set_options", "run", "remove"} /\ ~s.job.there
      BY <1>3 DEF DelugeErrs
    <3>2. ~(w = "add" /\ s.job.there)
      BY <1>3, <2>1, <2>2
    <3>3. ~(w = "set_label" /\ Label(c) \notin s.labels)
      <4>1. ASSUME w = "set_label", Label(c) \notin s.labels PROVE FALSE
        <5>1. c.op \in {"submit", "mark"} /\ ~Has(t, Labels)
          BY <2>2, <2>4, <4>1
        <5> QED BY <2>1, <4>1, <5>1 DEF LabelHolds
      <4> QED BY <4>1
    <3>4. ~(w \in {"set_label", "set_options", "run", "remove"} /\ ~s.job.there)
      <4>1. w = "set_label" => s.job.there
        <5>1. w = "set_label" => c.op \in {"submit", "mark"} /\ ~Has(t, {"add"})
          BY <2>2, <2>4
        <5> QED BY <2>1, <5>1
      <4>2. w \in {"set_options", "run", "remove"} => s.job.there
        BY <2>1, <2>2
      <4> QED BY <4>1, <4>2
    <3> QED BY <3>1, <3>2, <3>3, <3>4
  <2>6. Effects(c, mem, mem, s, s1)
    BY <1>3, DelugeServed
  <2>7. s1.job.there = s.job.there
    <3>1. s1 = [s EXCEPT !.labels = s.labels \cup {Label(c)}]
      BY <1>3, <2>5 DEF DelugeServes
    <3> QED BY <3>1 DEF Service
  <2>8. d.todo # <<>>
    <3>1. PICK i \in 1..Len(t) : t[i].do = "orExists"
      <4>1. 1 \in 1..(Len(t) - 1)
        <5>1. t[Len(t)].do = "set_label" /\ Len(t) \in Nat /\ Len(t) >= 1
          <6>1. t[Len(t)].do \in DelugeLasts(c.op) /\ c.op \in {"submit", "mark"}
            BY <1>1, <2>2, <2>5 DEF Program
          <6>2. t[Len(t)].do = "set_label"
            BY <6>1, DelugeWordsAre
          <6> QED BY <1>1, <6>2
        <5>2. Len(t) # 1
          BY <2>5, <5>1
        <5>3. PICK m : m = Len(t)
          OBVIOUS
        <5>4. m \in Nat /\ m >= 1 /\ m # 1
          BY <5>1, <5>2, <5>3
        <5>5. 1 \in 1..(m - 1)
          BY <5>4
        <5> QED BY <5>3, <5>5
      <4>2. t[1 + 1].do \in Follows(w) /\ 1 + 1 \in 1..Len(t)
        BY <1>1, <4>1 DEF Program
      <4>3. Follows(w) = {"orExists"}
        BY <2>5, DelugeOrder
      <4> QED BY <4>2, <4>3
    <3>2. Catches(t[i].do, "unexpected_response")
      BY <3>1 DEF Catches
    <3>3. PICK k \in 1..Len(t) : d = [c EXCEPT !.todo = SubSeq(t, k, Len(t))]
      BY <3>2, Thrown
    <3>4. d.todo = SubSeq(t, k, Len(t))
      BY <3>3 DEF Calling
    <3> QED BY <1>1, <3>4, Suffix
  <2>9. SessionHolds(n, d.todo, mem, s1)
    <3>1. Fresh(n, d.todo) => Fresh(n, t)
      BY <1>2, <2>8 DEF Fresh
    <3>2. d.todo[1].do \in Local /\ d.todo[1].do \notin Needs
      BY <1>2, <2>8 DEF Needs, Local, DelugeLocal, SabnzbdLocal
    <3> QED BY <2>1, <2>6, <3>1, <3>2 DEF SessionHolds, Effects
  <2>10. LabelHolds(d, d.todo, mem, s1)
    <3>1. c.op \in {"submit", "mark"} /\ ~Has(t, Firsts) /\ ~Has(t, Plugging)
      BY <2>2, <2>4, <2>5
    <3>2. s.plugin /\ (mem.labelReady => s.plugin)
      BY <2>1, <3>1 DEF LabelHolds
    <3>3. ~Has(d.todo, Firsts)
      BY <1>2, <2>8, <3>1
    <3>4. s1.plugin /\ Label(d) \in s1.labels
      BY <1>4, <2>5, <2>6, <3>2 DEF Effects
    <3> QED BY <3>3, <3>4 DEF LabelHolds
  <2>11. Found(d, s1, "add")
    <3>1. ~Has(t, {"add"})
      BY <2>4, <2>5
    <3>2. ~Has(d.todo, {"add"})
      BY <1>2, <2>8, <3>1
    <3> QED BY <1>4, <2>1, <2>7, <3>1, <3>2 DEF Found
  <2>12. DelugeOK(n, d, mem, s1)
    BY <1>2, <2>8, <2>9, <2>10, <2>11, DelugeParts
  <2> QED BY <1>2, <2>8, <2>12
<1> QED BY <1>5, <1>6, <1>7
-----------------------------------------------------------------------------
\* A call that has got somewhere: it goes on in good order, or it has ended well
\* or for a reason.
Faulted(c) == c.disturbed \/ c.crossed \/ (kind = "deluge" /\ c.robbed)
Errors == {"unreachable", "unexpected_response", "authentication"}
Starts(c, mem) ==
  /\ kind = "qbittorrent" /\ c.todo[1].again => mem.session # "stale"
  /\ kind = "transmission" /\ c.todo[1].again => mem.session = "good"
Ended(c, s, done) ==
  \/ /\ c.state = "running"
     /\ done \/ Silent(c)
     /\ kind = "deluge" /\ c.op = "submit" => s.job.markers # {}
  \/ c.state \in Errors /\ Faulted(c)
Arrives(n, c, mem, s, done) ==
  /\ c \in Calling /\ c.op \in Op
  /\ c.todo # <<>> => c.state = "running" /\ CallOK(n, c, mem, s) /\ Starts(c, mem)
  /\ c.todo = <<>> => Ended(c, s, done)
Passes(n, c, mem, s) == Arrives(n, c, mem, s, c.done)

After(c, s) == [c EXCEPT !.done = @ \/ Goal(c, s.job)]

\* Of a call that reached its goal, no more than that is noted.
LEMMA AfterIs ==
  ASSUME NEW c \in Calling, NEW s
  PROVE  /\ After(c, s) \in Calling
         /\ After(c, s).todo = c.todo /\ After(c, s).state = c.state /\ After(c, s).op = c.op
         /\ After(c, s).marker = c.marker /\ After(c, s).files = c.files /\ After(c, s).want = c.want
         /\ After(c, s).magnet = c.magnet /\ After(c, s).read = c.read /\ After(c, s).sent = c.sent
         /\ After(c, s).disturbed = c.disturbed /\ After(c, s).crossed = c.crossed /\ After(c, s).robbed = c.robbed
         /\ After(c, s).done <=> c.done \/ Goal(c, s.job)
<1>1. (c.done \/ Goal(c, s.job)) \in BOOLEAN
  OBVIOUS
<1>2. PICK b \in BOOLEAN : b <=> c.done \/ Goal(c, s.job)
  BY <1>1
<1>3. After(c, s) = [c EXCEPT !.done = b]
  BY <1>2 DEF After, Calling
<1> QED BY <1>2, <1>3 DEF Calling

\* What it leaves as it was.
LEMMA AfterIt ==
  ASSUME NEW c \in Calling, NEW s, NEW e, e = After(c, s)
  PROVE  /\ e \in Calling /\ e.todo = c.todo /\ e.state = c.state /\ e.op = c.op
         /\ e.marker = c.marker /\ e.want = c.want /\ e.read = c.read
         /\ e.disturbed = c.disturbed /\ e.crossed = c.crossed /\ e.robbed = c.robbed
BY AfterIs

\* Good order does not depend on what is noted.
LEMMA Carries ==
  ASSUME NEW n, NEW c, NEW d, NEW mem, NEW s, CallOK(n, c, mem, s),
         d.op = c.op, d.marker = c.marker, d.read = c.read, d.todo = c.todo, d.want = c.want,
         d.disturbed = c.disturbed, d.crossed = c.crossed, d.robbed = c.robbed, c.done => d.done,
         kind \in {"deluge", "qbittorrent", "transmission", "sabnzbd"}
  PROVE  CallOK(n, d, mem, s)
<1>1. (Quiet(d) <=> Quiet(c)) /\ Label(d) = Label(c)
  BY DEF Quiet, Label
<1>2. \A w : Found(d, s, w) <=> Found(c, s, w)
  BY DEF Found
<1>3. CASE kind = "deluge"
  <2>1. DelugeOK(n, c, mem, s)
    BY <1>3 DEF CallOK
  <2>2. LabelHolds(c, c.todo, mem, s) <=> LabelHolds(d, d.todo, mem, s)
    BY <1>1 DEF LabelHolds
  <2>3. DelugeOK(n, d, mem, s)
    BY <1>1, <1>2, <2>1, <2>2, DelugeParts
  <2> QED BY <1>3, <2>3 DEF CallOK
<1>4. CASE kind = "qbittorrent"
  BY <1>1, <1>2, <1>4 DEF CallOK, QBittorrentOK
<1>5. CASE kind = "transmission"
  BY <1>1, <1>2, <1>5 DEF CallOK, TransmissionOK
<1>6. CASE kind = "sabnzbd"
  BY <1>1, <1>2, <1>6 DEF CallOK, SabnzbdOK
<1> QED BY <1>3, <1>4, <1>5, <1>6

\* What holds with the goal counted in holds of the call that notes it.
LEMMA Arrived ==
  ASSUME NEW n, NEW c, NEW mem, NEW s, Arrives(n, c, mem, s, c.done \/ Goal(c, s.job)),
         kind \in {"deluge", "qbittorrent", "transmission", "sabnzbd"}
  PROVE  Passes(n, After(c, s), mem, s)
<1>0. c \in Calling
  BY DEF Arrives
<1>1. PICK d : d = After(c, s)
  OBVIOUS
<1>2. /\ d \in Calling
      /\ d.todo = c.todo /\ d.state = c.state /\ d.op = c.op
      /\ d.marker = c.marker /\ d.files = c.files /\ d.want = c.want
      /\ d.magnet = c.magnet /\ d.read = c.read
      /\ d.disturbed = c.disturbed /\ d.crossed = c.crossed /\ d.robbed = c.robbed
      /\ d.done <=> c.done \/ Goal(c, s.job)
  BY <1>0, <1>1, AfterIs
<1>3. c.todo # <<>> => CallOK(n, d, mem, s)
  BY <1>2, Carries DEF Arrives
<1>4. (Silent(d) <=> Silent(c)) /\ (Faulted(d) <=> Faulted(c)) /\ (Starts(d, mem) <=> Starts(c, mem))
  BY <1>2 DEF Silent, Faulted, Starts
<1>5. c.todo = <<>> => Ended(d, s, d.done)
  BY <1>2, <1>4 DEF Arrives, Ended
<1> QED BY <1>1, <1>2, <1>3, <1>4, <1>5 DEF Arrives, Passes
-----------------------------------------------------------------------------
\* What is the same before and after a step, whatever the kind.
Keeps(c, d) == /\ d.op = c.op /\ d.crossed = c.crossed /\ d.disturbed = c.disturbed /\ d.robbed = c.robbed

\* An exchange with Deluge leaves its call in good order or ended for a reason.
LEMMA DelugeExchanged ==
  ASSUME kind = "deluge", NEW n \in Nat, NEW c \in Calling, c.op \in Op, c.state = "running", c.todo # <<>>,
         NEW mem \in Client, NEW s \in Service, DelugeOK(n, c, mem, s), c.todo[1].do \notin Local,
         c.crossed => c.op \in {"run", "look"},
         NEW d, d = DelugeTakes(c, mem, s).call, NEW mem1, mem1 = DelugeTakes(c, mem, s).mem,
         NEW s1, s1 = DelugeServes(c, s)
  PROVE  /\ Passes(n, After(d, s1), mem1, s1)
         /\ Effects(c, mem, mem1, s, s1) /\ Keeps(c, d) /\ d \in Calling
         /\ mem1.session = "none" => mem.session = "none"
<1> DEFINE w == c.todo[1].do
<1>1. Head(c.todo).do = w /\ w \in DelugeWords(c.op) /\ c.todo \in Seq(Line) /\ Program(DelugeWords(c.op), DelugeLasts(c.op), c.todo)
  <2>1. c.todo \in Seq(Line) /\ Head(c.todo).do = w /\ Program(DelugeWords(c.op), DelugeLasts(c.op), c.todo)
    BY AnsweredAt, DelugeParts
  <2>2. 1 \in 1..Len(c.todo)
    BY <2>1
  <2> QED BY <2>1, <2>2 DEF Program
<1>2. CASE DelugeErrs(c, s)
  <2>1. d = Throw(c, "unexpected_response") /\ mem1 = mem
    BY <1>2 DEF DelugeTakes, With
  <2>2. /\ d \in Calling /\ Alike(c, d)
        /\ d.todo # <<>> => d.state = "running" /\ DelugeOK(n, d, mem, s1)
        /\ d.todo = <<>> => d.state = "unexpected_response" /\ (~Quiet(d) \/ d.crossed)
    BY <1>2, <2>1, DelugeFails
  <2>3. Arrives(n, d, mem1, s1, d.done \/ Goal(d, s1.job))
    <3>1. d.todo = <<>> => Ended(d, s1, d.done \/ Goal(d, s1.job))
      <4>1. d.todo = <<>> => d.state \in Errors /\ Faulted(d)
        BY <2>2 DEF Errors, Faulted, Quiet
      <4> QED BY <4>1 DEF Ended
    <3>2. d.todo # <<>> => d.state = "running" /\ CallOK(n, d, mem1, s1) /\ Starts(d, mem1)
      BY <2>1, <2>2 DEF CallOK, Starts
    <3> QED BY <2>2, <3>1, <3>2 DEF Arrives, Alike
  <2>4. Passes(n, After(d, s1), mem1, s1)
    BY <2>3, Arrived
  <2>5. Effects(c, mem, mem1, s, s1)
    BY <1>1, <2>1, DelugeServed
  <2>6. Keeps(c, d)
    BY <2>2 DEF Alike, Keeps
  <2> QED BY <2>1, <2>2, <2>4, <2>5, <2>6
<1>3. CASE c.op = "mark" /\ w = "status" /\ c.marker \in s.job.markers
  <2>1. d = Return(c) /\ mem1 = mem /\ s1 = s
    <3>1. ~DelugeErrs(c, s) /\ s1 = s
      BY <1>1, <1>3 DEF DelugeErrs, DelugeServes
    <3>2. DelugeReads(w, c, s) = Return(c)
      BY <1>3 DEF DelugeReads
    <3>3. DelugeTakes(c, mem, s) = With(mem, DelugeReads(w, c, s))
      BY <1>1, <1>3, <3>1 DEF DelugeTakes
    <3> QED BY <3>1, <3>2, <3>3 DEF With
  <2>2. d \in Calling /\ d.todo = <<>> /\ Same(c, d)
    BY <2>1, ReturnIs
  <2>3. Goal(d, s1.job)
    BY <1>3, <2>1, <2>2 DEF Goal, Same
  <2>4. Arrives(n, d, mem1, s1, d.done \/ Goal(d, s1.job))
    <3>1. Ended(d, s1, d.done \/ Goal(d, s1.job))
      BY <1>3, <2>2, <2>3 DEF Ended, Same
    <3> QED BY <2>2, <3>1 DEF Arrives, Same
  <2>5. Passes(n, After(d, s1), mem1, s1)
    BY <2>4, Arrived
  <2> QED BY <2>1, <2>2, <2>5, Nothing DEF Same, Keeps
<1>4. CASE ~DelugeErrs(c, s) /\ ~(c.op = "mark" /\ w = "status" /\ c.marker \in s.job.markers)
  <2>1. PICK r : Answers(c, r, d, mem, mem1, s, s1)
    <3>1. w \in {"login", "connected", "get_hosts", "connect", "plugins", "enable_plugin", "get_labels", "add_label", "set_label",
                   "add", "status", "files", "set_options", "run", "remove"}
      BY <1>1, DelugeWordsAre DEF Op, Session, Labelling, Plugging, Local, DelugeLocal
    <3>2. CASE w \in {"connected", "plugins", "get_labels"}
      BY <1>1, <3>2, DelugeAsksMore
    <3>3. CASE w \in {"status", "files"}
      BY <1>1, <1>4, <3>3, DelugeReadsOn
    <3>4. CASE w \in {"login", "get_hosts", "connect", "enable_plugin", "add_label", "set_label",
                           "add", "set_options", "run", "remove"}
      BY <1>1, <1>4, <3>4, DelugeGoesOn
    <3> QED BY <3>1, <3>2, <3>3, <3>4
  <2>2. /\ d.todo # <<>> => DelugeOK(n, d, mem1, s1)
        /\ d.todo = <<>> => /\ Goal(d, s1.job)
                            /\ c.op = "submit" => s1.job.markers # {}
    BY <2>1, DelugeKeeps
  <2>3. d \in Calling /\ d.state = "running" /\ d.op = c.op /\ Keeps(c, d) /\ Effects(c, mem, mem1, s, s1)
        /\ (mem1.session = "none" => mem.session = "none")
    BY <2>1 DEF Answers, Keeps
  <2>4. Arrives(n, d, mem1, s1, d.done \/ Goal(d, s1.job))
    <3>1. d.todo = <<>> => Ended(d, s1, d.done \/ Goal(d, s1.job))
      BY <2>2, <2>3 DEF Ended
    <3>2. d.todo # <<>> => d.state = "running" /\ CallOK(n, d, mem1, s1) /\ Starts(d, mem1)
      BY <2>2, <2>3 DEF CallOK, Starts
    <3> QED BY <2>3, <3>1, <3>2 DEF Arrives
  <2> QED BY <2>3, <2>4, Arrived
<1> QED BY <1>2, <1>3, <1>4

\* The retry of a refused request, in a new session; it is the last.
LEMMA DelugeRetried ==
  ASSUME kind = "deluge", NEW n \in Nat, NEW c \in Calling, c.op \in Op, c.state = "running", c.todo # <<>>,
         NEW mem \in Client, NEW s \in Service, DelugeOK(n, c, mem, s), c.todo[1].do \notin Local, c.todo[1].refused,
         NEW d, d = DelugeRetries(c, mem).call, NEW mem1, mem1 = DelugeRetries(c, mem).mem
  PROVE  /\ Passes(n, After(d, s), mem1, s)
         /\ Effects(c, mem, mem1, s, s) /\ Keeps(c, d) /\ d \in Calling
<1> DEFINE t == c.todo  x == c.todo[1]  w == c.todo[1].do
<1>1. /\ Program(DelugeWords(c.op), DelugeLasts(c.op), t) /\ t \in Seq(Line) /\ w # "login"
      /\ Quiet(c) => /\ ~Fresh(n, t)
                     /\ SessionHolds(n, t, mem, s)
                     /\ LabelHolds(c, t, mem, s)
                     /\ Found(c, s, "add")
  BY DelugeParts DEF Calling
<1>2. Head(t) = x /\ x \in Line /\ w \in DelugeWords(c.op) /\ Len(t) \in Nat /\ 1 \in 1..Len(t)
  <2>1. Head(t) = x /\ x \in Line /\ Len(t) \in Nat /\ Len(t) >= 1
    BY <1>1, NoStep, Spliced
  <2>2. 1 \in 1..Len(t)
    BY <2>1
  <2> QED BY <1>1, <2>1, <2>2 DEF Program
<1>3. CASE x.again
  <2>1. d = Throw(c, "unexpected_response") /\ mem1 = mem
    BY <1>2, <1>3 DEF DelugeRetries, With
  <2>2. CutShort(c, d, "unexpected_response")
    BY <1>1, <2>1, DelugeThrown
  <2>3. ~Quiet(c) /\ ~Quiet(d)
    <3>1. Fresh(n, t)
      BY <1>2, <1>3 DEF Fresh, Once
    <3> QED BY <1>1, <2>2, <3>1 DEF CutShort, Alike, Quiet
  <2>4. Arrives(n, d, mem1, s, d.done \/ Goal(d, s.job))
    <3>1. d.todo = <<>> => Ended(d, s, d.done \/ Goal(d, s.job))
      BY <2>2, <2>3 DEF Ended, Errors, Faulted, Quiet, CutShort
    <3>2. d.todo # <<>> => DelugeOK(n, d, mem1, s)
      BY <2>2, <2>3, DelugeParts DEF CutShort, Local
    <3>3. d.todo # <<>> => d.state = "running" /\ CallOK(n, d, mem1, s) /\ Starts(d, mem1)
      BY <2>2, <3>2 DEF CallOK, Starts, CutShort
    <3> QED BY <2>2, <3>1, <3>3 DEF Arrives, CutShort, Alike
  <2>5. Keeps(c, d) /\ d \in Calling
    BY <2>2 DEF CutShort, Alike, Keeps
  <2> QED BY <2>1, <2>4, <2>5, Arrived, Nothing
<1>4. CASE ~x.again
  <2>1. PICK r : r = <<S("login"), S("ensureSession"), Again(x)>>
    OBVIOUS
  <2>2. d = Then(c, r) /\ mem1 = [mem EXCEPT !.session = "none", !.connected = FALSE]
    BY <1>2, <1>4, <2>1 DEF DelugeRetries, With
  <2>3. /\ S("login") \in Line /\ S("login").do = "login" /\ ~S("login").refused
        /\ S("ensureSession") \in Line /\ S("ensureSession").do = "ensureSession"
        /\ Again(x) \in Line /\ Again(x).do = w
    BY <1>2, StepIsLine, AgainIsLine DEF Word
  <2>4. /\ r \in Seq(Line) /\ r # <<>> /\ r[1] = S("login")
        /\ \A X : Has(r, X) <=> "login" \in X \/ "ensureSession" \in X \/ w \in X
    <3>1. PICK a, b, e : a = S("login") /\ b = S("ensureSession") /\ e = Again(x)
      OBVIOUS
    <3>2. /\ r \in Seq(Line) /\ r # <<>> /\ r[1] = a
          /\ \A X : Has(r, X) <=> a.do \in X \/ b.do \in X \/ e.do \in X
      BY <2>1, <2>3, <3>1, ThreeSteps
    <3> QED BY <2>3, <3>1, <3>2
  <2>5. DelugeFits(c.op, w, r)
    BY <1>1, <1>2, <2>1, Replacements DEF Local
  <2>6. /\ d \in Calling /\ d.todo = r \o Tail(t)
        /\ d.op = c.op /\ d.state = "running"
        /\ d.disturbed = c.disturbed /\ d.crossed = c.crossed /\ d.robbed = c.robbed
        /\ Label(d) = Label(c)
    <3>1. r \in Seq(Line)
      BY <2>4
    <3>2. Then(c, r) \in Calling /\ Then(c, r).todo = r \o Tail(t) /\ Same(c, Then(c, r))
      BY <3>1, ThenIs
    <3>3. d \in Calling /\ d.todo = r \o Tail(t) /\ Same(c, d)
      BY <2>2, <3>2, Zenon
    <3> QED BY <3>3 DEF Same, Label
  <2>7. Advanced(c.op, t, r, d.todo)
    <3>1. Fits(DelugeWords(c.op), DelugeLasts(c.op), w, r)
      BY <2>5 DEF DelugeFits
    <3> QED BY <1>1, <2>4, <2>6, <3>1, DelugeSplice
  <2>8. /\ d.todo # <<>> /\ Program(DelugeWords(d.op), DelugeLasts(d.op), d.todo)
        /\ d.todo[1].do = "login" /\ ~d.todo[1].refused
        /\ \A X : Has(t, X) => Has(d.todo, X)
        /\ \A X : "login" \notin X /\ "ensureSession" \notin X /\ Has(d.todo, X) => Has(t, X)
    <3>1. d.todo # <<>> /\ d.todo[1] = r[1] /\ Program(DelugeWords(d.op), DelugeLasts(d.op), d.todo)
      BY <2>4, <2>6, <2>7 DEF Advanced
    <3>2. \A X : Has(t, X) => Has(d.todo, X)
      BY <2>4, <2>7 DEF Advanced
    <3>3. \A X : w \in X => Has(t, X)
      BY <1>2 DEF Has
    <3>4. \A X : "login" \notin X /\ "ensureSession" \notin X /\ Has(d.todo, X) => Has(t, X)
      BY <2>4, <2>7, <3>3 DEF Advanced
    <3> QED BY <2>3, <2>4, <3>1, <3>2, <3>4
  <2>9. mem1 \in Client /\ mem1.session = "none" /\ ~mem1.connected /\ mem1.labelReady = mem.labelReady
    BY <2>2 DEF Client
  <2>10. (Quiet(d) <=> Quiet(c))
    BY <2>6 DEF Quiet
  <2>11. SessionHolds(n, d.todo, mem1, s)
    BY <2>8, <2>9 DEF SessionHolds, Needs
  <2>12. Quiet(d) => LabelHolds(d, d.todo, mem1, s)
    <3>1. Has(d.todo, Firsts) => Has(t, Firsts)
      BY <2>8 DEF Firsts
    <3> QED BY <1>1, <2>6, <2>8, <2>9, <2>10, <3>1 DEF LabelHolds
  <2>13. Quiet(d) => Found(d, s, "add")
    <3>1. Has(d.todo, {"add"}) <=> Has(t, {"add"})
      BY <2>8
    <3> QED BY <1>1, <2>6, <2>10, <3>1 DEF Found
  <2>14. DelugeOK(n, d, mem1, s)
    BY <2>8, <2>11, <2>12, <2>13, DelugeParts
  <2>15. Arrives(n, d, mem1, s, d.done \/ Goal(d, s.job))
    <3>1. CallOK(n, d, mem1, s) /\ Starts(d, mem1)
      BY <2>14 DEF CallOK, Starts
    <3> QED BY <2>6, <2>8, <3>1 DEF Arrives
  <2>16. Effects(c, mem, mem1, s, s)
    BY <2>9 DEF Effects
  <2> QED BY <2>6, <2>15, <2>16, Arrived DEF Keeps
<1> QED BY <1>3, <1>4
-----------------------------------------------------------------------------
\* How many decisions may still come before a request.
Rank(w) == CASE w \in {"orMagnet", "orNoFiles"} -> 3
             [] w \in {"ensureLabelPlugin", "priorities", "orExists"} -> 2
             [] w \in {"ensureSession"} \cup SabnzbdLocal -> 1
             [] OTHER -> 0

\* The decisions of a call come in falling ranks.
LEMMA Ranks ==
  /\ Rank("orMagnet") = 3 /\ Rank("orNoFiles") = 3
  /\ Rank("ensureLabelPlugin") = 2 /\ Rank("priorities") = 2 /\ Rank("orExists") = 2
  /\ Rank("ensureSession") = 1
  /\ \A w \in SabnzbdLocal : Rank(w) = 1
  /\ \A w : Rank(w) \in 0..3 /\ (Rank(w) = 0 => w \notin Local) /\ (w \notin Local => Rank(w) = 0)
<1>1. /\ Rank("orMagnet") = 3 /\ Rank("orNoFiles") = 3
      /\ Rank("ensureLabelPlugin") = 2 /\ Rank("priorities") = 2 /\ Rank("orExists") = 2
      /\ Rank("ensureSession") = 1
  BY DEF Rank, SabnzbdLocal
<1>2. \A w \in SabnzbdLocal : Rank(w) = 1
  BY DEF Rank, SabnzbdLocal
<1>3. \A w : Rank(w) \in 0..3
  BY DEF Rank
<1>4. \A w : w \notin Local => Rank(w) = 0
  BY DEF Rank, Local, DelugeLocal, SabnzbdLocal
<1>5. \A w \in Local : Rank(w) # 0
  BY <1>1, <1>2 DEF Local, DelugeLocal
<1> QED BY <1>1, <1>2, <1>3, <1>4, <1>5

\* A decision: r takes the place of the head.
LEMMA DelugeGuided ==
  ASSUME kind = "deluge", NEW n \in Nat, NEW c \in Calling, c.op \in Op, c.state = "running", c.todo # <<>>,
         NEW mem \in Client, NEW s \in Service, DelugeOK(n, c, mem, s), c.todo[1].do \in DelugeLocal,
         NEW r \in Seq(Line), DelugeFits(c.op, c.todo[1].do, r), ~Once(r), ~Has(r, Firsts), ~Has(r, {"add"}),
         NEW d, d = Then(c, r), d.todo # <<>>,
         r # <<>> => ~r[1].refused,
         Quiet(c) => SessionHolds(n, d.todo, mem, s),
         c.todo[1].do = "ensureLabelPlugin" => Has(r, Plugging) \/ mem.labelReady
  PROVE  DelugeOK(n, d, mem, s)
<1> DEFINE t == c.todo  u == d.todo  w == c.todo[1].do
<1>1. /\ Program(DelugeWords(c.op), DelugeLasts(c.op), t) /\ t \in Seq(Line)
      /\ Quiet(c) => LabelHolds(c, t, mem, s) /\ Found(c, s, "add")
  BY DelugeParts DEF Calling
<1>2. d \in Calling /\ u = r \o Tail(t) /\ Same(c, d)
  BY ThenIs
<1>3. Advanced(c.op, t, r, u)
  <2>1. Fits(DelugeWords(c.op), DelugeLasts(c.op), w, r)
    BY DEF DelugeFits
  <2> QED BY <1>1, <1>2, <2>1, DelugeSplice
<1>4. d.op = c.op /\ (Quiet(d) <=> Quiet(c)) /\ d.crossed = c.crossed /\ Label(d) = Label(c)
  BY <1>2 DEF Same, Quiet, Label
<1>5. Program(DelugeWords(d.op), DelugeLasts(d.op), u) /\ ~u[1].refused
  BY <1>3, <1>4 DEF Advanced
<1>6. Quiet(c) => LabelHolds(d, u, mem, s)
  <2> SUFFICES ASSUME Quiet(c), c.op \in {"submit", "mark"}
               PROVE  /\ mem.labelReady => s.plugin
                      /\ s.plugin \/ Has(u, Plugging)
                      /\ \/ Has(u, Labels)
                         \/ Label(c) \in s.labels /\ ~Has(u, Firsts)
    BY <1>4 DEF LabelHolds
  <2>1. /\ mem.labelReady => s.plugin
        /\ s.plugin \/ Has(t, Plugging)
        /\ \/ Has(t, Labels)
           \/ Label(c) \in s.labels /\ ~Has(t, Firsts)
    BY <1>1 DEF LabelHolds
  <2>2. Has(t, Plugging) => w \in Plugging \/ Has(u, Plugging)
    BY <1>3 DEF Advanced
  <2>3. w \in Plugging => w = "ensureLabelPlugin"
    BY DEF DelugeLocal, Plugging
  <2>4. Has(r, Plugging) => Has(u, Plugging)
    BY <1>3 DEF Advanced
  <2>5. Has(t, Labels) => Has(u, Labels)
    <3>1. w \notin Labels
      BY DEF DelugeLocal, Labels
    <3> QED BY <1>3, <3>1 DEF Advanced
  <2>6. Has(u, Firsts) => Has(t, Firsts)
    BY <1>3 DEF Advanced
  <2> QED BY <2>1, <2>2, <2>3, <2>4, <2>5, <2>6
<1>7. Quiet(c) => Found(d, s, "add")
  <2>1. Has(u, {"add"}) <=> Has(t, {"add"})
    <3>1. w \notin {"add"}
      BY DEF DelugeLocal
    <3>2. Has(t, {"add"}) => Has(u, {"add"})
      BY <1>3, <3>1 DEF Advanced
    <3>3. Has(u, {"add"}) => Has(t, {"add"})
      BY <1>3 DEF Advanced
    <3> QED BY <3>2, <3>3
  <2> QED BY <1>1, <1>4, <2>1 DEF Found
<1> QED BY <1>4, <1>5, <1>6, <1>7, DelugeParts

Decided(n, c, d, mem, s) ==
  /\ d \in Calling /\ Same(c, d)
  /\ d.todo # <<>> => /\ CallOK(n, d, mem, s)
                      /\ \/ d = c /\ d.todo[1].do \notin Local
                         \/ Rank(d.todo[1].do) < Rank(c.todo[1].do)
  /\ d.todo = <<>> => Silent(c) \/ c.done
  /\ d.todo = <<>> /\ kind = "deluge" => c.op # "submit"

\* Every decision of Deluge's client keeps good order and comes nearer to a request.
LEMMA DelugeDecided ==
  ASSUME kind = "deluge", NEW n \in Nat, NEW c \in Calling, c.op \in Op, c.state = "running", c.todo # <<>>,
         NEW mem \in Client, NEW s \in Service, DelugeOK(n, c, mem, s),
         NEW d, d = DelugeDecides(c, mem)
  PROVE  Decided(n, c, d, mem, s)
<1> DEFINE t == c.todo  u == d.todo  w == c.todo[1].do
<1>1. /\ Program(DelugeWords(c.op), DelugeLasts(c.op), t) /\ t \in Seq(Line)
      /\ Quiet(c) => SessionHolds(n, t, mem, s)
      /\ t[1].refused => w # "login"
  BY DelugeParts DEF Calling
<1>2. Head(t).do = w /\ w \in DelugeWords(c.op)
  <2>1. Head(t).do = w /\ 1 \in 1..Len(t)
    BY <1>1, AnsweredAt
  <2> QED BY <1>1, <2>1 DEF Program
<1>3. CASE w \notin DelugeLocal
  <2>1. d = c
    BY <1>2, <1>3 DEF DelugeDecides, DelugeLocal
  <2>2. w \notin Local
    BY <1>2, <1>3, DelugeWordsAre DEF Op, Session, Labelling, Plugging, Local, SabnzbdLocal
  <2> QED BY <2>1, <2>2 DEF Decided, Same, CallOK
<1>4. ASSUME w \in DelugeLocal,
             NEW r \in Seq(Line), d = Then(c, r), DelugeFits(c.op, w, r), ~Once(r), ~Has(r, Firsts), ~Has(r, {"add"}),
             r # <<>> => ~r[1].refused /\ Rank(r[1].do) < Rank(w) /\ r[1].do \notin Needs
                         /\ (r[1].do \notin Local \cup {"login"} => mem.session = "good" \/ ~Quiet(c) \/ ~Fresh(n, t)),
             r = <<>> => /\ \A v \in Follows(w) : Rank(v) < Rank(w)
                         /\ \/ \A v \in Follows(w) : v \in Local
                            \/ w = "ensureSession" /\ mem.session # "none" /\ mem.connected
                         /\ w \in DelugeLasts(c.op) => Silent(c) /\ c.op # "submit",
             w = "ensureLabelPlugin" => Has(r, Plugging) \/ mem.labelReady
      PROVE  Decided(n, c, d, mem, s)
  <2>1. d \in Calling /\ u = r \o Tail(t) /\ Same(c, d)
    BY <1>4, ThenIs
  <2>2. Advanced(c.op, t, r, u)
    <3>1. Fits(DelugeWords(c.op), DelugeLasts(c.op), w, r)
      BY <1>4 DEF DelugeFits
    <3> QED BY <1>1, <1>4, <2>1, <3>1, DelugeSplice
  <2>3. ASSUME u # <<>> PROVE DelugeOK(n, d, mem, s) /\ Rank(u[1].do) < Rank(w)
    <3>1. Fresh(n, u) => Fresh(n, t)
      BY <1>4, <2>2 DEF Advanced, Fresh
    <3>2. Quiet(c) => SessionHolds(n, u, mem, s)
      <4> SUFFICES ASSUME Quiet(c), Fresh(n, u)
                   PROVE  /\ mem.session # "stale" /\ (mem.connected => s.attached)
                          /\ u[1].do \notin Local \cup {"login"} => mem.session = "good"
                          /\ u[1].do \in Needs => s.attached
        BY DEF SessionHolds
      <4>1. mem.session # "stale" /\ (mem.connected => s.attached)
        BY <1>1, <3>1 DEF SessionHolds
      <4>2. CASE r # <<>>
        <5>1. u[1] = r[1]
          BY <2>2, <4>2 DEF Advanced
        <5> QED BY <1>4, <3>1, <4>1, <4>2, <5>1
      <4>3. CASE r = <<>>
        <5>1. u[1].do \in Follows(w)
          BY <2>2, <2>3, <4>3 DEF Advanced
        <5>2. u[1].do \in Local \/ (mem.session # "none" /\ mem.connected)
          BY <1>4, <4>3, <5>1
        <5>3. u[1].do \in Local => u[1].do \notin Needs
          BY DEF Local, DelugeLocal, SabnzbdLocal, Needs
        <5>4. mem.session \in {"none", "good", "stale"}
          BY DEF Client
        <5> QED BY <4>1, <5>2, <5>3, <5>4
      <4> QED BY <4>2, <4>3
    <3>3. DelugeOK(n, d, mem, s)
      BY <1>4, <2>3, <3>2, DelugeGuided
    <3>4. Rank(u[1].do) < Rank(w)
      <4>1. CASE r # <<>>
        BY <1>4, <2>2, <4>1 DEF Advanced
      <4>2. CASE r = <<>>
        BY <1>4, <2>2, <2>3, <4>2 DEF Advanced
      <4> QED BY <4>1, <4>2
    <3> QED BY <3>3, <3>4
  <2>4. u = <<>> => Silent(c) /\ c.op # "submit"
    BY <1>4, <2>2 DEF Advanced
  <2> QED BY <2>1, <2>3, <2>4 DEF Decided, CallOK
<1>5. <<>> \in Seq(Line) /\ ~Once(<<>>) /\ ~Has(<<>>, Firsts) /\ ~Has(<<>>, {"add"}) /\ DelugeFits(c.op, w, <<>>)
  BY NoStep, Replacements
<1>6. \A x \in {"login", "ensureSession", "connected", "plugins", "set_options"} :
        S(x) \in Line /\ S(x).do = x /\ ~S(x).refused /\ ~S(x).again
  BY StepIsLine DEF Word
<1>7. /\ "connected" \notin Local /\ "login" \notin Local /\ "connected" \notin Needs /\ "login" \notin Needs
      /\ "ensureSession" \in Local /\ "ensureSession" \notin Needs
      /\ "ensureLabelPlugin" \in Local /\ "priorities" \in Local
  BY DEF Local, DelugeLocal, SabnzbdLocal, Needs
<1>8. Rank("connected") = 0 /\ Rank("login") = 0 /\ Rank("ensureSession") = 1
  BY <1>7, Ranks
<1>9. /\ w \in {"ensureLabelPlugin", "orMagnet", "orExists"} => c.op \in {"submit", "mark"}
      /\ w \in {"priorities", "orNoFiles"} => c.op = "select"
  BY <1>2, DelugeWordsAre DEF Op, Session, Labelling, Plugging
<1>10. CASE w = "ensureSession" /\ mem.session = "none"
  <2>1. PICK r : r = <<S("login"), S("ensureSession")>>
    OBVIOUS
  <2>2. d = Then(c, r)
    BY <1>2, <1>10, <2>1 DEF DelugeDecides, DelugeLocal
  <2>3. /\ r \in Seq(Line) /\ r[1] = S("login") /\ ~Once(r) /\ r # <<>>
        /\ \A X : Has(r, X) <=> "login" \in X \/ "ensureSession" \in X
    BY <1>6, <2>1, TwoSteps
  <2>4. DelugeFits(c.op, w, r) /\ ~Has(r, Firsts) /\ ~Has(r, {"add"})
    BY <1>10, <2>1, <2>3, Replacements DEF Firsts
  <2>5. Rank(w) = 1 /\ w \in DelugeLocal
    BY <1>8, <1>10 DEF DelugeLocal
  <2>6. r[1].do = "login" /\ ~r[1].refused
    BY <1>6, <2>3
  <2> QED BY <1>4, <1>7, <1>8, <1>10, <2>2, <2>3, <2>4, <2>5, <2>6
<1>11. CASE w = "ensureSession" /\ mem.session # "none" /\ ~mem.connected
  <2>1. PICK r : r = <<S("connected")>>
    OBVIOUS
  <2>2. d = Then(c, r)
    BY <1>2, <1>11, <2>1 DEF DelugeDecides, DelugeLocal
  <2>3. /\ r \in Seq(Line) /\ r[1] = S("connected") /\ ~Once(r) /\ r # <<>>
        /\ \A X : Has(r, X) <=> "connected" \in X
    BY <1>6, <2>1, OneStep
  <2>4. DelugeFits(c.op, w, r) /\ ~Has(r, Firsts) /\ ~Has(r, {"add"})
    BY <1>11, <2>1, <2>3, Replacements DEF Firsts
  <2>5. Rank(w) = 1 /\ w \in DelugeLocal
    BY <1>8, <1>11 DEF DelugeLocal
  <2>6. r[1].do = "connected" /\ ~r[1].refused
    BY <1>6, <2>3
  <2>7. mem.session = "good" \/ ~Quiet(c) \/ ~Fresh(n, t)
    <3>1. Quiet(c) /\ Fresh(n, t) => mem.session # "stale"
      BY <1>1 DEF SessionHolds
    <3> QED BY <1>11, <3>1 DEF Client
  <2> QED BY <1>4, <1>7, <1>8, <1>11, <2>2, <2>3, <2>4, <2>5, <2>6, <2>7
<1>12. CASE w = "ensureSession" /\ mem.session # "none" /\ mem.connected
  <2>1. d = Then(c, <<>>)
    BY <1>2, <1>12 DEF DelugeDecides, DelugeLocal
  <2>2. \A v \in Follows(w) : Rank(v) = 0
    <3>1. \A v \in Follows(w) : v \notin Local
      BY <1>12, DelugeOrder DEF Needs, Local, DelugeLocal, SabnzbdLocal
    <3> QED BY <3>1, Ranks
  <2>3. Rank(w) = 1 /\ w \in DelugeLocal
    BY <1>8, <1>12 DEF DelugeLocal
  <2>4. w \notin DelugeLasts(c.op)
    BY <1>12 DEF DelugeLasts, Op
  <2>5. \A v \in Follows(w) : Rank(v) < Rank(w)
    BY <2>2, <2>3
  <2>6. w # "ensureLabelPlugin"
    BY <1>12
  <2> QED BY <1>4, <1>5, <1>12, <2>1, <2>3, <2>4, <2>5, <2>6
<1>13. CASE w = "ensureLabelPlugin" /\ ~mem.labelReady
  <2>1. PICK r : r = <<S("ensureSession"), S("plugins")>>
    OBVIOUS
  <2>2. d = Then(c, r)
    BY <1>2, <1>13, <2>1 DEF DelugeDecides, DelugeLocal, Rpc
  <2>3. /\ r \in Seq(Line) /\ r[1] = S("ensureSession") /\ ~Once(r) /\ r # <<>>
        /\ \A X : Has(r, X) <=> "ensureSession" \in X \/ "plugins" \in X
    BY <1>6, <2>1, TwoSteps
  <2>4. DelugeFits(c.op, w, r) /\ ~Has(r, Firsts) /\ ~Has(r, {"add"}) /\ Has(r, Plugging)
    BY <1>9, <1>13, <2>1, <2>3, Replacements DEF Firsts, Plugging
  <2>5. Rank(w) = 2 /\ w \in DelugeLocal
    BY <1>13, Ranks DEF DelugeLocal
  <2>6. r[1].do = "ensureSession" /\ ~r[1].refused
    BY <1>6, <2>3
  <2> QED BY <1>4, <1>7, <1>8, <1>13, <2>2, <2>3, <2>4, <2>5, <2>6
<1>14. CASE w = "ensureLabelPlugin" /\ mem.labelReady
  <2>1. d = Then(c, <<>>)
    BY <1>2, <1>14 DEF DelugeDecides, DelugeLocal
  <2>2. Follows(w) = {"ensureSession"}
    BY <1>14, DelugeOrder DEF Plugging
  <2>3. Rank(w) = 2 /\ w \in DelugeLocal
    BY <1>14, Ranks DEF DelugeLocal
  <2>4. w \notin DelugeLasts(c.op)
    BY <1>14 DEF DelugeLasts, Op
  <2>5. \A v \in Follows(w) : v \in Local /\ Rank(v) < Rank(w)
    BY <1>7, <1>8, <2>2, <2>3
  <2> QED BY <1>4, <1>5, <1>14, <2>1, <2>3, <2>4, <2>5
<1>15. CASE w = "priorities" /\ c.read.files
  <2>1. PICK r : r = <<S("ensureSession"), S("set_options")>>
    OBVIOUS
  <2>2. d = Then(c, r)
    BY <1>2, <1>15, <2>1 DEF DelugeDecides, DelugeLocal, Rpc
  <2>3. /\ r \in Seq(Line) /\ r[1] = S("ensureSession") /\ ~Once(r) /\ r # <<>>
        /\ \A X : Has(r, X) <=> "ensureSession" \in X \/ "set_options" \in X
    BY <1>6, <2>1, TwoSteps
  <2>4. DelugeFits(c.op, w, r) /\ ~Has(r, Firsts) /\ ~Has(r, {"add"})
    BY <1>9, <1>15, <2>1, <2>3, Replacements DEF Firsts
  <2>5. Rank(w) = 2 /\ w \in DelugeLocal
    BY <1>15, Ranks DEF DelugeLocal
  <2>6. r[1].do = "ensureSession" /\ ~r[1].refused
    BY <1>6, <2>3
  <2> QED BY <1>4, <1>7, <1>8, <1>15, <2>2, <2>3, <2>4, <2>5, <2>6
<1>16. CASE w = "priorities" /\ ~c.read.files
  <2>1. d = Then(c, <<>>)
    BY <1>2, <1>16 DEF DelugeDecides, DelugeLocal
  <2>2. Follows(w) = {}
    BY <1>16, DelugeOrder
  <2>3. w \in DelugeLocal
    BY <1>16 DEF DelugeLocal
  <2>4. Silent(c) /\ c.op # "submit"
    BY <1>9, <1>16 DEF Silent
  <2> QED BY <1>4, <1>5, <1>16, <2>1, <2>2, <2>3, <2>4
<1>17. CASE w \in {"orMagnet", "orNoFiles", "orExists"}
  <2>1. d = Then(c, <<>>)
    BY <1>2, <1>17 DEF DelugeDecides, DelugeLocal
  <2>2. \A v \in Follows(w) : v \in Local /\ Rank(v) < Rank(w)
    <3>1. CASE w = "orMagnet"
      BY <1>7, <3>1, Ranks, DelugeOrder
    <3>2. CASE w = "orNoFiles"
      BY <1>7, <3>2, Ranks, DelugeOrder
    <3>3. CASE w = "orExists"
      BY <1>7, <3>3, Ranks, DelugeOrder
    <3> QED BY <1>17, <3>1, <3>2, <3>3
  <2>3. w \in DelugeLocal
    BY <1>17 DEF DelugeLocal
  <2>4. w \notin DelugeLasts(c.op)
    BY <1>17 DEF DelugeLasts, Op
  <2> QED BY <1>4, <1>5, <1>17, <2>1, <2>2, <2>3, <2>4
<1> QED BY <1>3, <1>10, <1>11, <1>12, <1>13, <1>14, <1>15, <1>16, <1>17 DEF DelugeLocal
-----------------------------------------------------------------------------
\* Programs put together from programs; their words say what may follow.
Joined(W, L, a, b, u) ==
  /\ u \in Seq(Line) /\ Program(W, L, u) /\ u # <<>> /\ u[1] = a[1]
  /\ ~Once(a) /\ ~Once(b) => ~Once(u)
  /\ \A X : Has(u, X) <=> Has(a, X) \/ Has(b, X)

\* A program of some words is one of more words.
LEMMA Within ==
  ASSUME NEW W, NEW V, W \subseteq V, NEW L, NEW t, Program(W, L, t)
  PROVE  Program(V, L, t)
BY DEF Program

\* A program followed by a later one's words is a program of the words of both.
LEMMA Sums ==
  ASSUME NEW W, NEW V, NEW K, NEW L, NEW a \in Seq(Line), NEW b \in Seq(Line), Program(W, K, a), Program(V, L, b),
         \A v \in K : b[1].do \in Follows(v), ~b[1].refused, \A v \in W, w \in V : Before(v, w),
         NEW u, u = a \o b
  PROVE  Joined(W \cup V, L, a, b, u)
<1>1. Program(W \cup V, K, a) /\ Program(W \cup V, L, b)
  BY Within
<1>2. b[1].do \in Follows(a[Len(a)].do)
  BY DEF Program
<1>3. \A i \in 1..Len(a), j \in 1..Len(b) : Before(a[i].do, b[j].do)
  BY DEF Program
<1>4. Concatenation(W \cup V, L, a, b, u)
  BY <1>1, <1>2, <1>3, Joins
<1> QED BY <1>4 DEF Joined, Concatenation

\* A program that begins with the line S(v).
Begins(W, L, t, v) == t \in Seq(Line) /\ Program(W, L, t) /\ t # <<>> /\ ~Once(t) /\ t[1] = S(v)

\* A program of one step.
LEMMA SingleIs ==
  ASSUME NEW w \in Word
  PROVE  Begins({w}, {w}, <<S(w)>>, w) /\ \A X : Has(<<S(w)>>, X) <=> w \in X
<1>1. S(w) \in Line /\ S(w).do = w /\ ~S(w).refused /\ ~S(w).again
  BY StepIsLine
<1>2. PICK x : x = S(w)
  OBVIOUS
<1>3. x \in Line /\ x.do = w /\ ~x.refused /\ ~x.again
  BY <1>1, <1>2
<1>4. Program({w}, {w}, <<x>>)
  BY <1>3, OneProgram
<1>5. <<x>> \in Seq(Line) /\ <<x>> # <<>> /\ <<x>>[1] = x /\ ~Once(<<x>>) /\ \A X : Has(<<x>>, X) <=> w \in X
  BY <1>3, OneStep
<1> QED BY <1>2, <1>4, <1>5 DEF Begins

\* A request of Deluge's, with the session it needs ensured before it.
LEMMA RpcIs ==
  ASSUME NEW w \in Needs
  PROVE  /\ Begins({"ensureSession", w}, {w}, Rpc(w), "ensureSession")
         /\ \A X : Has(Rpc(w), X) <=> "ensureSession" \in X \/ w \in X
<1>1. w \in Word /\ "ensureSession" \in Word
  BY DEF Needs, Word
<1>2. PICK x, y : x = S("ensureSession") /\ y = S(w)
  OBVIOUS
<1>3. /\ x \in Line /\ x.do = "ensureSession" /\ ~x.refused /\ ~x.again
      /\ y \in Line /\ y.do = w /\ ~y.refused /\ ~y.again
  BY <1>1, <1>2, StepIsLine
<1>4. Stage("ensureSession") = 0 /\ w \in Follows("ensureSession")
  BY DelugeOrder DEF Session
<1>5. Before(x.do, y.do)
  BY <1>3, <1>4 DEF Before
<1>6. Program({"ensureSession", w}, {w}, <<x, y>>)
  BY <1>3, <1>4, <1>5, TwoProgram
<1>7. /\ <<x, y>> \in Seq(Line) /\ <<x, y>> # <<>> /\ <<x, y>>[1] = x /\ ~Once(<<x, y>>)
      /\ \A X : Has(<<x, y>>, X) <=> "ensureSession" \in X \/ w \in X
  BY <1>3, TwoSteps
<1> QED BY <1>2, <1>6, <1>7 DEF Begins, Rpc

Sequel(W, L, a, b, v) == Begins(W, L, a \o b, v) /\ \A X : Has(a \o b, X) <=> Has(a, X) \/ Has(b, X)

\* The steps of one method and then those of the next.
LEMMA BeginsThen ==
  ASSUME NEW W, NEW V, NEW K, NEW L, NEW a, NEW b, NEW v, NEW w \in Word, Begins(W, K, a, v), Begins(V, L, b, w),
         \A x \in K : w \in Follows(x), \A x \in W, y \in V : Before(x, y)
  PROVE  Sequel(W \cup V, L, a, b, v)
<1>1. b[1].do = w /\ ~b[1].refused
  BY StepIsLine DEF Begins
<1>2. PICK u : u = a \o b
  OBVIOUS
<1>3. Joined(W \cup V, L, a, b, u)
  BY <1>1, <1>2, Sums DEF Begins
<1> QED BY <1>2, <1>3 DEF Joined, Begins, Sequel

\* applyOwnership enables the plugin, reads the labels and sets one.
LEMMA OwnershipIs ==
  /\ Begins({"ensureLabelPlugin", "ensureSession", "get_labels", "set_label"}, {"set_label"}, ApplyOwnership, "ensureLabelPlugin")
  /\ Has(ApplyOwnership, Plugging) /\ Has(ApplyOwnership, Labels) /\ ~Has(ApplyOwnership, {"add"})
<1>1. /\ "ensureLabelPlugin" \in Word /\ "ensureSession" \in Word
      /\ "get_labels" \in Needs /\ "set_label" \in Needs
  BY DEF Word, Needs
<1>2. PICK a, b, e : a = <<S("ensureLabelPlugin")>> /\ b = Rpc("get_labels") /\ e = Rpc("set_label")
  OBVIOUS
<1>3. /\ Begins({"ensureLabelPlugin"}, {"ensureLabelPlugin"}, a, "ensureLabelPlugin")
      /\ Begins({"ensureSession", "get_labels"}, {"get_labels"}, b, "ensureSession")
      /\ Begins({"ensureSession", "set_label"}, {"set_label"}, e, "ensureSession")
      /\ \A X : Has(a, X) <=> "ensureLabelPlugin" \in X
      /\ \A X : Has(b, X) <=> "ensureSession" \in X \/ "get_labels" \in X
      /\ \A X : Has(e, X) <=> "ensureSession" \in X \/ "set_label" \in X
  BY <1>1, <1>2, SingleIs, RpcIs
<1>4. /\ Stage("ensureLabelPlugin") = 3 /\ Stage("ensureSession") = 0 /\ Stage("get_labels") = 4 /\ Stage("set_label") = 5
      /\ "ensureSession" \in Follows("ensureLabelPlugin") /\ "ensureSession" \in Follows("get_labels")
  BY DelugeOrder DEF Plugging, Session
<1>5. \A x \in {"ensureLabelPlugin"}, y \in {"ensureSession", "get_labels"} : Before(x, y)
  BY <1>4 DEF Before
<1>6. \A x \in {"ensureLabelPlugin"} \cup {"ensureSession", "get_labels"}, y \in {"ensureSession", "set_label"} : Before(x, y)
  BY <1>4 DEF Before
<1>7. PICK f : f = a \o b
  OBVIOUS
<1>a. /\ \A x \in {"ensureLabelPlugin"} : "ensureSession" \in Follows(x)
      /\ \A x \in {"get_labels"} : "ensureSession" \in Follows(x)
  BY <1>4
<1>8. /\ Begins({"ensureLabelPlugin"} \cup {"ensureSession", "get_labels"}, {"get_labels"}, f, "ensureLabelPlugin")
      /\ \A X : Has(f, X) <=> Has(a, X) \/ Has(b, X)
  <2>1. Sequel({"ensureLabelPlugin"} \cup {"ensureSession", "get_labels"}, {"get_labels"}, a, b, "ensureLabelPlugin")
    BY <1>1, <1>3, <1>a, <1>5, BeginsThen
  <2> QED BY <1>7, <2>1 DEF Sequel
<1>9. /\ Begins(({"ensureLabelPlugin"} \cup {"ensureSession", "get_labels"}) \cup {"ensureSession", "set_label"}, {"set_label"},
                f \o e, "ensureLabelPlugin")
      /\ \A X : Has(f \o e, X) <=> Has(f, X) \/ Has(e, X)
  <2>1. Sequel(({"ensureLabelPlugin"} \cup {"ensureSession", "get_labels"}) \cup {"ensureSession", "set_label"}, {"set_label"},
               f, e, "ensureLabelPlugin")
    BY <1>1, <1>3, <1>a, <1>6, <1>8, BeginsThen
  <2> QED BY <2>1 DEF Sequel
<1>10. ApplyOwnership = f \o e
  BY <1>2, <1>7 DEF ApplyOwnership
<1>11. ({"ensureLabelPlugin"} \cup {"ensureSession", "get_labels"}) \cup {"ensureSession", "set_label"}
          = {"ensureLabelPlugin", "ensureSession", "get_labels", "set_label"}
  OBVIOUS
<1>12. /\ Has(a, Plugging) /\ Has(b, Labels) /\ ~Has(a, {"add"}) /\ ~Has(b, {"add"}) /\ ~Has(e, {"add"})
  BY <1>3 DEF Plugging, Labels
<1>13. Has(f \o e, Plugging) /\ Has(f \o e, Labels) /\ ~Has(f \o e, {"add"})
  BY <1>8, <1>9, <1>12
<1> QED BY <1>9, <1>10, <1>11, <1>13

DelugeBegins(c, t) ==
  /\ Begins(DelugeWords(c.op), DelugeLasts(c.op), t, "ensureSession")
  /\ c.op \in {"submit", "mark"} => Has(t, Plugging) /\ Has(t, Labels)
  /\ c.op = "submit" => Has(t, {"add"})

\* The steps of every operation of Deluge's client are a program.
LEMMA DelugeTodoIs ==
  ASSUME NEW c, c.op \in Op, NEW t, t = DelugeTodo(c)
  PROVE  DelugeBegins(c, t)
<1> DEFINE Own == {"ensureLabelPlugin", "ensureSession", "get_labels", "set_label"}
<1>1. /\ Begins(Own, {"set_label"}, ApplyOwnership, "ensureLabelPlugin")
      /\ Has(ApplyOwnership, Plugging) /\ Has(ApplyOwnership, Labels) /\ ~Has(ApplyOwnership, {"add"})
  BY OwnershipIs
<1>2. \A w \in Needs : /\ Begins({"ensureSession", w}, {w}, Rpc(w), "ensureSession")
                       /\ \A X : Has(Rpc(w), X) <=> "ensureSession" \in X \/ w \in X
  BY RpcIs
<1>3. \A w \in Firsts : w \in Needs
  BY DEF Firsts, Needs
<1>4. \A W, V, L, u, v : Begins(W, L, u, v) /\ W \subseteq V => Begins(V, L, u, v)
  BY Within DEF Begins
<1>5. /\ Stage("ensureSession") = 0 /\ Stage("ensureLabelPlugin") = 3 /\ Stage("get_labels") = 4 /\ Stage("set_label") = 5
      /\ Stage("add") = 1 /\ Stage("status") = 1 /\ Stage("files") = 1 /\ Stage("orMagnet") = 2 /\ Stage("orNoFiles") = 2
      /\ Stage("priorities") = 3
      /\ "ensureLabelPlugin" \in Follows("add") /\ "orMagnet" \in Follows("add") /\ "ensureLabelPlugin" \in Follows("orMagnet")
      /\ "ensureLabelPlugin" \in Follows("status") /\ "orNoFiles" \in Follows("files") /\ "priorities" \in Follows("orNoFiles")
  BY DelugeOrder DEF Session, Plugging, Firsts
<1>6. "ensureLabelPlugin" \in Word /\ "orMagnet" \in Word /\ "orNoFiles" \in Word /\ "priorities" \in Word
  BY DEF Word
<1> HIDE DEF Own
<1>7. ASSUME NEW W, NEW K, NEW a, NEW v, Begins(W, K, a, v), \A x \in K : "ensureLabelPlugin" \in Follows(x),
             W \subseteq {"ensureSession", "add", "status", "orMagnet"}
      PROVE  /\ Begins(W \cup Own, {"set_label"}, a \o ApplyOwnership, v)
             /\ \A X : Has(a \o ApplyOwnership, X) <=> Has(a, X) \/ Has(ApplyOwnership, X)
  <2>1. \A x \in W, y \in Own : Before(x, y)
    BY <1>5, <1>7 DEF Before, Own
  <2>2. Sequel(W \cup Own, {"set_label"}, a, ApplyOwnership, v)
    BY <1>1, <1>6, <1>7, <2>1, BeginsThen
  <2> QED BY <2>2 DEF Sequel
<1>8. CASE c.op = "submit"
  <2>1. Begins({"ensureSession", "add"}, {"add"}, Rpc("add"), "ensureSession") /\ Has(Rpc("add"), {"add"})
    BY <1>2, <1>3 DEF Firsts
  <2>2. PICK m : m = Rpc("add") \o (IF c.magnet THEN <<S("orMagnet")>> ELSE <<>>)
    OBVIOUS
  <2>3. \E W, K : /\ Begins(W, K, m, "ensureSession") /\ W \subseteq {"ensureSession", "add", "orMagnet"}
                  /\ \A x \in K : "ensureLabelPlugin" \in Follows(x)
                  /\ Has(m, {"add"})
    <3>1. CASE c.magnet
      <4>1. Begins({"orMagnet"}, {"orMagnet"}, <<S("orMagnet")>>, "orMagnet")
        BY <1>6, SingleIs
      <4>2. /\ \A x \in {"ensureSession", "add"}, y \in {"orMagnet"} : Before(x, y)
            /\ \A x \in {"add"} : "orMagnet" \in Follows(x)
        BY <1>5 DEF Before
      <4>3. Sequel({"ensureSession", "add"} \cup {"orMagnet"}, {"orMagnet"}, Rpc("add"), <<S("orMagnet")>>, "ensureSession")
        BY <1>6, <2>1, <4>1, <4>2, BeginsThen
      <4>4. m = Rpc("add") \o <<S("orMagnet")>>
        BY <2>2, <3>1
      <4>5. Begins({"ensureSession", "add"} \cup {"orMagnet"}, {"orMagnet"}, m, "ensureSession") /\ Has(m, {"add"})
        BY <2>1, <4>3, <4>4 DEF Sequel
      <4> QED BY <1>5, <4>5
    <3>2. CASE ~c.magnet
      <4>1. m = Rpc("add") \o <<>>
        BY <2>2, <3>2
      <4>2. m = Rpc("add")
        BY <2>1, <4>1, ConcatEmptySeq DEF Begins
      <4> QED BY <1>5, <2>1, <4>2
    <3> QED BY <3>1, <3>2
  <2>4. PICK W, K : /\ Begins(W, K, m, "ensureSession") /\ W \subseteq {"ensureSession", "add", "orMagnet"}
                    /\ \A x \in K : "ensureLabelPlugin" \in Follows(x)
                    /\ Has(m, {"add"})
    BY <2>3
  <2>5. t = m \o ApplyOwnership
    BY <1>8, <2>2 DEF DelugeTodo
  <2>6. /\ Begins(W \cup Own, {"set_label"}, t, "ensureSession")
        /\ \A X : Has(t, X) <=> Has(m, X) \/ Has(ApplyOwnership, X)
    <3>1. W \subseteq {"ensureSession", "add", "status", "orMagnet"}
      BY <2>4
    <3>2. /\ Begins(W \cup Own, {"set_label"}, m \o ApplyOwnership, "ensureSession")
          /\ \A X : Has(m \o ApplyOwnership, X) <=> Has(m, X) \/ Has(ApplyOwnership, X)
      BY <1>7, <2>4, <3>1, Zenon
    <3> QED BY <2>5, <3>2, Zenon
  <2>7. DelugeWords(c.op) = Session \cup Labelling \cup {"add", "orMagnet"} /\ DelugeLasts(c.op) = {"set_label"}
    BY <1>8, DelugeWordsAre
  <2>8. W \cup Own \subseteq DelugeWords(c.op)
    BY <2>4, <2>7 DEF Session, Labelling, Plugging, Own
  <2>9. Begins(DelugeWords(c.op), DelugeLasts(c.op), t, "ensureSession")
    BY <1>4, <2>6, <2>7, <2>8
  <2> QED BY <1>1, <1>8, <2>4, <2>6, <2>9 DEF DelugeBegins
<1>9. CASE c.op = "mark"
  <2>1. Begins({"ensureSession", "status"}, {"status"}, Rpc("status"), "ensureSession")
    BY <1>2, <1>3 DEF Firsts
  <2>2. t = Rpc("status") \o ApplyOwnership
    BY <1>9 DEF DelugeTodo
  <2>3. /\ Begins({"ensureSession", "status"} \cup Own, {"set_label"}, t, "ensureSession")
        /\ \A X : Has(t, X) <=> Has(Rpc("status"), X) \/ Has(ApplyOwnership, X)
    <3>1. PICK W, K, m : W = {"ensureSession", "status"} /\ K = {"status"} /\ m = Rpc("status")
      OBVIOUS
    <3>2. /\ Begins(W, K, m, "ensureSession") /\ \A x \in K : "ensureLabelPlugin" \in Follows(x)
          /\ W \subseteq {"ensureSession", "add", "status", "orMagnet"}
      BY <1>5, <2>1, <3>1
    <3>3. /\ Begins(W \cup Own, {"set_label"}, m \o ApplyOwnership, "ensureSession")
          /\ \A X : Has(m \o ApplyOwnership, X) <=> Has(m, X) \/ Has(ApplyOwnership, X)
      BY <1>7, <3>2
    <3> QED BY <2>2, <3>1, <3>3
  <2>4. DelugeWords(c.op) = Session \cup Labelling \cup {"status"} /\ DelugeLasts(c.op) = {"set_label"}
    BY <1>9, DelugeWordsAre
  <2>5. {"ensureSession", "status"} \cup Own \subseteq DelugeWords(c.op)
    BY <2>4 DEF Session, Labelling, Plugging, Own
  <2>6. Begins(DelugeWords(c.op), DelugeLasts(c.op), t, "ensureSession")
    BY <1>4, <2>3, <2>4, <2>5
  <2> QED BY <1>1, <1>9, <2>3, <2>6 DEF DelugeBegins
<1>10. CASE c.op = "select"
  <2>1. Begins({"ensureSession", "files"}, {"files"}, Rpc("files"), "ensureSession")
    BY <1>2, <1>3 DEF Firsts
  <2>2. PICK b : b = <<S("orNoFiles"), S("priorities")>>
    OBVIOUS
  <2>3. Begins({"orNoFiles", "priorities"}, {"priorities"}, b, "orNoFiles")
    <3>1. PICK x, y : x = S("orNoFiles") /\ y = S("priorities")
      OBVIOUS
    <3>2. /\ x \in Line /\ x.do = "orNoFiles" /\ ~x.refused /\ ~x.again
          /\ y \in Line /\ y.do = "priorities" /\ ~y.refused /\ ~y.again
      BY <1>6, <3>1, StepIsLine
    <3>3. Before(x.do, y.do)
      BY <1>5, <3>2 DEF Before
    <3>4. Program({"orNoFiles", "priorities"}, {"priorities"}, <<x, y>>)
      BY <1>5, <3>2, <3>3, TwoProgram
    <3>5. <<x, y>> \in Seq(Line) /\ <<x, y>> # <<>> /\ <<x, y>>[1] = x /\ ~Once(<<x, y>>)
      BY <3>2, TwoSteps
    <3> QED BY <2>2, <3>1, <3>4, <3>5 DEF Begins
  <2>4. /\ \A x \in {"ensureSession", "files"}, y \in {"orNoFiles", "priorities"} : Before(x, y)
        /\ \A x \in {"files"} : "orNoFiles" \in Follows(x)
    BY <1>5 DEF Before
  <2>5. Sequel({"ensureSession", "files"} \cup {"orNoFiles", "priorities"}, {"priorities"}, Rpc("files"), b, "ensureSession")
    BY <1>6, <2>1, <2>3, <2>4, BeginsThen
  <2>6. t = Rpc("files") \o b
    BY <1>10, <2>2 DEF DelugeTodo
  <2>7. /\ DelugeWords(c.op) = Session \cup {"files", "orNoFiles", "priorities", "set_options"}
        /\ DelugeLasts(c.op) = {"priorities", "set_options"}
    BY <1>10, DelugeWordsAre
  <2>8. {"ensureSession", "files"} \cup {"orNoFiles", "priorities"} \subseteq DelugeWords(c.op)
    BY <2>7 DEF Session
  <2>9. Begins(DelugeWords(c.op), {"priorities"}, t, "ensureSession")
    BY <1>4, <2>5, <2>6, <2>8 DEF Sequel
  <2>10. Begins(DelugeWords(c.op), DelugeLasts(c.op), t, "ensureSession")
    BY <2>7, <2>9 DEF Begins, Program
  <2> QED BY <1>10, <2>10 DEF DelugeBegins
<1>11. ASSUME NEW w \in {"run", "remove", "status"}, t = Rpc(w), DelugeWords(c.op) = Session \cup {w}, DelugeLasts(c.op) = {w}
       PROVE  Begins(DelugeWords(c.op), DelugeLasts(c.op), t, "ensureSession")
  <2>1. Begins({"ensureSession", w}, {w}, t, "ensureSession")
    BY <1>2, <1>3, <1>11 DEF Firsts
  <2>2. {"ensureSession", w} \subseteq Session \cup {w}
    BY DEF Session
  <2> QED BY <1>4, <1>11, <2>1, <2>2
<1>12. CASE c.op \in {"run", "remove", "look"}
  <2>1. Begins(DelugeWords(c.op), DelugeLasts(c.op), t, "ensureSession")
    <3>1. CASE c.op = "run"
      BY <1>11, <3>1, DelugeWordsAre DEF DelugeTodo
    <3>2. CASE c.op = "remove"
      BY <1>11, <3>2, DelugeWordsAre DEF DelugeTodo
    <3>3. CASE c.op = "look"
      BY <1>11, <3>3, DelugeWordsAre DEF DelugeTodo
    <3> QED BY <1>12, <3>1, <3>2, <3>3
  <2> QED BY <1>12, <2>1 DEF DelugeBegins
<1> QED BY <1>8, <1>9, <1>10, <1>12 DEF Op

\* A call of Deluge begins in good order.
LEMMA DelugeBegun ==
  ASSUME kind = "deluge", NEW n \in Nat, NEW c \in Calling, c.op \in Op, c.todo = DelugeTodo(c),
         NEW mem \in Client, NEW s \in Service,
         n = 0 => mem.session # "stale" /\ (mem.connected => s.attached),
         Quiet(c) => (mem.labelReady => s.plugin),
         c.op # "look" => ((c.op = "submit") <=> ~s.job.there)
  PROVE  c.todo # <<>> /\ DelugeOK(n, c, mem, s)
<1>1. DelugeBegins(c, c.todo)
  BY DelugeTodoIs
<1>2. S("ensureSession").do = "ensureSession" /\ ~S("ensureSession").refused
  BY StepIsLine DEF Word
<1>3. /\ c.todo # <<>> /\ Program(DelugeWords(c.op), DelugeLasts(c.op), c.todo) /\ ~Once(c.todo)
      /\ c.todo[1].do = "ensureSession" /\ ~c.todo[1].refused
  BY <1>1, <1>2 DEF DelugeBegins, Begins
<1>4. SessionHolds(n, c.todo, mem, s)
  BY <1>3 DEF SessionHolds, Fresh, Local, DelugeLocal, Needs
<1>5. Quiet(c) => LabelHolds(c, c.todo, mem, s)
  BY <1>1 DEF LabelHolds, DelugeBegins
<1>6. Found(c, s, "add")
  BY <1>1 DEF Found, DelugeBegins
<1> QED BY <1>3, <1>4, <1>5, <1>6, DelugeParts
-----------------------------------------------------------------------------
\* Programs without handlers: on to the next line, the same line again, the end.
Onward(W, L, t, u) ==
  /\ u \in Seq(Line)
  /\ u = <<>> => t[1].do \in L
  /\ u # <<>> => /\ Program(W, L, u) /\ u[1].do \in Follows(t[1].do) /\ u[1].do \in W
                 /\ ~u[1].refused /\ ~u[1].again /\ \A i \in 2..Len(u) : ~u[i].again
  /\ \A X : /\ Has(u, X) => Has(t, X)
            /\ Has(t, X) => t[1].do \in X \/ Has(u, X)

\* A request that is answered leaves the rest of the program.
LEMMA NextLine ==
  ASSUME NEW W, NEW L, NEW t \in Seq(Line), Program(W, L, t), \A i \in 2..Len(t) : ~t[i].again,
         NEW u, u = <<>> \o Tail(t)
  PROVE  Onward(W, L, t, u)
<1>1. <<>> \in Seq(Line) /\ Len(<<>>) = 0 /\ t # <<>> /\ Fits(W, L, t[1].do, <<>>) /\ ~Has(<<>>, {})
  BY NothingFits DEF Program, Has
<1>2. Replaced(W, L, t, <<>>, u)
  BY <1>1, Splice
<1>3. /\ Len(t) \in Nat /\ Len(t) >= 1 /\ Len(u) = 0 + Len(t) - 1
      /\ \A i \in 1..(Len(t) - 1) : u[0 + i] = t[i + 1]
  BY <1>1, Spliced
<1>4. ASSUME NEW i \in 1..Len(u) PROVE ~u[i].again
  <2>1. i \in 1..(Len(t) - 1) /\ i + 1 \in 2..Len(t) /\ 0 + i = i
    BY <1>3
  <2> QED BY <1>3, <2>1
<1>5. u # <<>> => 1 \in 1..Len(u)
  BY <1>2 DEF Replaced
<1>6. \A i \in 2..Len(u) : i \in 1..Len(u)
  OBVIOUS
<1>7. ASSUME NEW X
      PROVE  /\ Has(u, X) => Has(t, X)
             /\ Has(t, X) => t[1].do \in X \/ Has(u, X)
  BY <1>2, NoStep DEF Replaced
<1> QED BY <1>2, <1>4, <1>5, <1>6, <1>7 DEF Replaced, Onward, Program

Resent(W, L, t, u, x) ==
  /\ u \in Seq(Line) /\ u # <<>> /\ Program(W, L, u) /\ u[1] = x
  /\ \A i \in 2..Len(u) : u[i].again => \E j \in 2..Len(t) : t[j].again
  /\ \A X : Has(u, X) <=> Has(t, X)

\* A request sent again, or refused, leaves the program as it was.
LEMMA SameLine ==
  ASSUME NEW W, NEW L, NEW t \in Seq(Line), Program(W, L, t),
         NEW x \in Line, x.do = t[1].do, NEW u, u = <<x>> \o Tail(t)
  PROVE  Resent(W, L, t, u, x)
<1>1. t # <<>> /\ 1 \in 1..Len(t) /\ t[1].do \in W
  BY DEF Program
<1>2. PICK r : r = <<x>>
  OBVIOUS
<1>3. r \in Seq(Line) /\ Len(r) = 1 /\ r # <<>> /\ r[1] = x /\ Fits(W, L, t[1].do, r) /\ u = r \o Tail(t)
  BY <1>1, <1>2, OneFits, OneStep
<1>4. \A X : Has(r, X) <=> x.do \in X
  BY <1>2, OneStep
<1>5. Replaced(W, L, t, r, u)
  BY <1>3, Splice
<1>6. /\ Len(t) \in Nat /\ Len(t) >= 1 /\ Len(u) = 1 + Len(t) - 1
      /\ \A i \in 1..(Len(t) - 1) : u[1 + i] = t[i + 1]
  BY <1>1, <1>3, Spliced
<1>7. ASSUME NEW i \in 2..Len(u) PROVE u[i] = t[i] /\ i \in 2..Len(t)
  <2>1. i - 1 \in 1..(Len(t) - 1) /\ 1 + (i - 1) = i /\ (i - 1) + 1 = i
    BY <1>6
  <2>2. u[1 + (i - 1)] = t[(i - 1) + 1]
    BY <1>6, <2>1
  <2> QED BY <1>6, <2>1, <2>2
<1>8. \A X : Has(u, X) <=> Has(t, X)
  <2>1. \A X : t[1].do \in X => Has(t, X)
    BY <1>1 DEF Has
  <2> QED BY <1>4, <1>5, <2>1 DEF Replaced
<1>9. u # <<>> /\ u[1] = x /\ u \in Seq(Line) /\ Program(W, L, u)
  BY <1>3, <1>5 DEF Replaced
<1> QED BY <1>7, <1>8, <1>9 DEF Resent

\* Small numbers.
LEMMA Few ==
  /\ \A n \in Nat : n >= 1 /\ ~(n > 1) => n = 1
  /\ \A n \in Nat : \A i \in 1..n : i = 1 \/ i = 2 \/ n > 2
  /\ \A i \in 1..1 : i = 1
OBVIOUS

\* A program ends with a line that nothing follows.
LEMMA LastLine ==
  ASSUME NEW W, NEW L, NEW t \in Seq(Line), Program(W, L, t), Follows(t[1].do) = {}
  PROVE  Len(t) = 1 /\ t[1].do \in L /\ \A X : Has(t, X) => t[1].do \in X
<1>1. Len(t) \in Nat /\ Len(t) >= 1
  BY DEF Program
<1>2. Len(t) = 1
  <2>1. CASE Len(t) > 1
    <3>1. 1 \in 1..(Len(t) - 1)
      BY <1>1, <2>1
    <3>2. t[1 + 1].do \in Follows(t[1].do)
      BY <3>1 DEF Program
    <3> QED BY <3>2
  <2> QED BY <1>1, <2>1, Few, Zenon
<1>3. t[1].do \in L
  BY <1>2 DEF Program
<1>4. ASSUME NEW X, Has(t, X) PROVE t[1].do \in X
  <2>1. PICK i \in 1..Len(t) : t[i].do \in X
    BY <1>4 DEF Has
  <2>2. i = 1
    BY <1>2, <2>1
  <2> QED BY <2>1, <2>2
<1> QED BY <1>2, <1>3, <1>4

\* A line whose successors end the program has one line after it at most.
LEMMA LastLines ==
  ASSUME NEW W, NEW L, NEW t \in Seq(Line), Program(W, L, t), \A v \in Follows(t[1].do) : Follows(v) = {}
  PROVE  \A X : Has(t, X) => t[1].do \in X \/ \E v \in Follows(t[1].do) : v \in X
<1>1. Len(t) \in Nat /\ Len(t) >= 1
  BY DEF Program
<1>2. ASSUME NEW i \in 1..Len(t), i # 1 PROVE t[i].do \in Follows(t[1].do)
  <2>1. Len(t) > 1
    BY <1>1, <1>2
  <2>2. 1 \in 1..(Len(t) - 1) /\ (Len(t) > 2 => 2 \in 1..(Len(t) - 1)) /\ 1 + 1 = 2
    BY <1>1, <2>1
  <2>3. t[1 + 1].do \in Follows(t[1].do) /\ (Len(t) > 2 => t[2 + 1].do \in Follows(t[2].do))
    BY <2>2 DEF Program
  <2>4. ~(Len(t) > 2)
    BY <2>2, <2>3
  <2>5. i = 2
    BY <1>1, <1>2, <2>4, Few, Zenon
  <2> QED BY <2>2, <2>3, <2>5
<1>3. ASSUME NEW X, Has(t, X) PROVE t[1].do \in X \/ \E v \in Follows(t[1].do) : v \in X
  <2>1. PICK i \in 1..Len(t) : t[i].do \in X
    BY <1>3 DEF Has
  <2> QED BY <1>2, <2>1
<1> QED BY <1>3
-----------------------------------------------------------------------------
\* An exception that nothing catches ends the call with its error.
LEMMA Uncaught ==
  ASSUME NEW c \in Calling, NEW error \in Errors,
         \A i \in 1..Len(c.todo) : c.todo[i].do \notin {"orMagnet", "orExists", "orNoFiles"},
         NEW d, d = Throw(c, error)
  PROVE  /\ d \in Calling /\ Alike(c, d)
         /\ d.todo = <<>> /\ d.state = error
<1>1. \A i \in 1..Len(c.todo) : ~Catches(c.todo[i].do, error)
  BY DEF Catches
<1>2. d \in Calling /\ d = [c EXCEPT !.todo = <<>>, !.state = error]
  BY <1>1, Thrown DEF Errors
<1> QED BY <1>2 DEF Alike, Calling

\* A call begins with a head that has not been refused.
LEMMA Lines ==
  ASSUME NEW c \in Calling, c.todo # <<>>
  PROVE  /\ c.todo \in Seq(Line) /\ Head(c.todo) = c.todo[1] /\ c.todo[1] \in Line
         /\ 1 \in 1..Len(c.todo) /\ Len(c.todo) \in Nat
<1>1. c.todo \in Seq(Line) /\ <<>> \in Seq(Line)
  BY DEF Calling
<1>2. Len(c.todo) \in Nat /\ Len(c.todo) >= 1 /\ Head(c.todo) = c.todo[1] /\ c.todo[1] \in Line
  BY <1>1, Spliced
<1> QED BY <1>1, <1>2

QBittorrentLasts(op) == IF op = "run" THEN {"start-stop"} ELSE QBittorrentWords(op)

\* The requests of every operation of qBittorrent.
LEMMA QBittorrentWordsAre ==
  ASSUME NEW op \in Op
  PROVE  /\ op = "submit" => QBittorrentWords(op) = {"torrents/add"}
         /\ op = "mark" => QBittorrentWords(op) = {"addTags"}
         /\ op = "select" => QBittorrentWords(op) = {"filePrio"}
         /\ op = "run" => QBittorrentWords(op) = {"version", "start-stop"}
         /\ op = "remove" => QBittorrentWords(op) = {"delete"}
         /\ op = "look" => QBittorrentWords(op) = {"info"}
         /\ QBittorrentWords(op) \subseteq {"torrents/add", "addTags", "filePrio", "version", "start-stop", "delete", "info"}
BY DEF QBittorrentWords, Op

\* They need no handler, and one follows another only in a pause or resume.
LEMMA QBittorrentOrder ==
  /\ \A w \in {"torrents/add", "addTags", "filePrio", "start-stop", "delete", "info"} : Follows(w) = {}
  /\ Follows("version") = {"start-stop"}
  /\ \A w \in {"torrents/add", "addTags", "filePrio", "version", "start-stop", "delete", "info"} :
       w \notin Local /\ w \notin {"orMagnet", "orExists", "orNoFiles"}
<1>1. \A w \in {"torrents/add", "addTags", "filePrio", "start-stop", "delete", "info"} : Follows(w) = {}
  BY DEF Follows, Plugging
<1>2. Follows("version") = {"start-stop"}
  BY DEF Follows, Plugging
<1> QED BY <1>1, <1>2 DEF Local, DelugeLocal, SabnzbdLocal

\* The service alone.
LEMMA QBittorrentServed ==
  ASSUME kind = "qbittorrent", NEW c \in Calling, c.op \in Op, c.todo # <<>>,
         NEW mem \in Client, NEW s \in Service, c.todo[1].do \in QBittorrentWords(c.op),
         NEW s1, s1 = QBittorrentServes(c, s),
         NEW mem1 \in Client, mem1.session \in {mem.session, "good", "none"},
         mem1.connected => mem.connected, mem1.labelReady => mem.labelReady
  PROVE  Effects(c, mem, mem1, s, s1)
<1> DEFINE w == c.todo[1].do
<1>1. Head(c.todo).do = w
  BY Lines
<1>2. NewJob(c) \in Torrent /\ NoJob \in Torrent /\ ~NoJob.ours /\ NewJob(c).there /\ ~NoJob.there
  BY NewJobIs
<1>3. c.want \in BOOLEAN /\ c.files \in SUBSET File /\ c.marker \in Marker
  BY DEF Calling
<1>4. /\ w = "torrents/add" => c.op = "submit"
      /\ w = "delete" => c.op = "remove"
  BY QBittorrentWordsAre DEF Op
<1>5. s.job \in Torrent
  BY DEF Service
<1>7. CASE w = "torrents/add" /\ ~s.job.there
  <2>1. s1 = [s EXCEPT !.job = [NewJob(c) EXCEPT !.markers = {c.marker}]]
    BY <1>1, <1>7 DEF QBittorrentServes
  <2>2. PICK j : j = [NewJob(c) EXCEPT !.markers = {c.marker}]
    OBVIOUS
  <2>3. j \in Torrent /\ j.there /\ j.markers # {}
    BY <1>2, <1>3, <2>2 DEF Torrent
  <2> QED BY <1>4, <1>7, <2>1, <2>2, <2>3 DEF Effects, Service
<1>8. CASE w = "addTags" /\ s.job.there
  <2>1. s1 = [s EXCEPT !.job.markers = s.job.markers \cup {c.marker}]
    BY <1>1, <1>8 DEF QBittorrentServes
  <2> QED BY <1>3, <1>5, <2>1 DEF Effects, Service, Torrent
<1>9. CASE w = "filePrio" /\ s.job.there
  <2>1. s1 = [s EXCEPT !.job.off = IF c.want THEN s.job.off \ c.files ELSE s.job.off \cup c.files]
    BY <1>1, <1>9 DEF QBittorrentServes
  <2> QED BY <1>3, <1>5, <2>1 DEF Effects, Service, Torrent
<1>10. CASE w = "start-stop" /\ s.job.there
  <2>1. s1 = [s EXCEPT !.job.running = c.want]
    BY <1>1, <1>10 DEF QBittorrentServes
  <2> QED BY <1>3, <1>5, <2>1 DEF Effects, Service, Torrent
<1>11. CASE w = "delete"
  <2>1. s1 = [s EXCEPT !.job = NoJob]
    BY <1>1, <1>11 DEF QBittorrentServes
  <2> QED BY <1>2, <1>4, <1>11, <2>1 DEF Effects, Service
<1>12. ASSUME ~(w = "torrents/add" /\ ~s.job.there), ~(w = "addTags" /\ s.job.there), ~(w = "filePrio" /\ s.job.there),
              ~(w = "start-stop" /\ s.job.there), w # "delete"
       PROVE  s1 = s
  BY <1>1, <1>12 DEF QBittorrentServes
<1>13. CASE s1 = s
  BY <1>13 DEF Effects
<1> QED BY <1>7, <1>8, <1>9, <1>10, <1>11, <1>12, <1>13

\* A call of qBittorrent begins in good order.
LEMMA QBittorrentBegun ==
  ASSUME kind = "qbittorrent", NEW n \in Nat, NEW c \in Calling, c.op \in Op, c.todo = QBittorrentTodo(c),
         NEW mem \in Client, NEW s \in Service, c.op # "look" => ((c.op = "submit") <=> ~s.job.there)
  PROVE  c.todo # <<>> /\ QBittorrentOK(c, s) /\ ~c.todo[1].again
<1> DEFINE W == QBittorrentWords(c.op)
<1>1. ASSUME NEW w \in W, c.todo = <<S(w)>>, W = {w}, QBittorrentLasts(c.op) = {w}
      PROVE  /\ c.todo # <<>> /\ Program(W, QBittorrentLasts(c.op), c.todo) /\ \A i \in 1..Len(c.todo) : ~c.todo[i].again
             /\ ~c.todo[1].refused
             /\ \A X : Has(c.todo, X) <=> w \in X
  <2>1. w \in Word
    BY QBittorrentWordsAre DEF Word
  <2>2. Begins({w}, {w}, c.todo, w) /\ \A X : Has(c.todo, X) <=> w \in X
    BY <1>1, <2>1, SingleIs
  <2>3. S(w).do = w /\ ~S(w).refused
    BY <2>1, StepIsLine
  <2>4. c.todo # <<>> /\ Program(W, QBittorrentLasts(c.op), c.todo) /\ ~c.todo[1].refused /\ ~Once(c.todo)
    BY <1>1, <2>2, <2>3 DEF Begins
  <2>5. \A i \in 1..Len(c.todo) : ~c.todo[i].again
    BY <2>4 DEF Once
  <2> QED BY <2>2, <2>4, <2>5
<1>2. CASE c.op = "run"
  <2>1. PICK x, y : x = S("version") /\ y = S("start-stop")
    OBVIOUS
  <2>2. /\ x \in Line /\ x.do = "version" /\ ~x.refused /\ ~x.again
        /\ y \in Line /\ y.do = "start-stop" /\ ~y.refused /\ ~y.again
    BY <2>1, StepIsLine DEF Word
  <2>3. c.todo = <<x, y>>
    BY <1>2, <2>1 DEF QBittorrentTodo
  <2>4. Stage("version") = 0 /\ Stage("start-stop") = 0
    BY DEF Stage, Session, Firsts, Plugging
  <2>5. Program(W, {"start-stop"}, c.todo)
    <3>1. Before(x.do, y.do)
      BY <2>2, <2>4 DEF Before
    <3> QED BY <1>2, <2>2, <2>3, <3>1, TwoProgram, QBittorrentWordsAre, QBittorrentOrder
  <2>6. c.todo # <<>> /\ c.todo[1] = x /\ ~Once(c.todo)
    BY <2>2, <2>3, TwoSteps
  <2>7. \A i \in 2..Len(c.todo) : ~c.todo[i].again
    BY <2>6 DEF Once
  <2>8. Found(c, s, "torrents/add")
    BY <1>2 DEF Found
  <2> QED BY <1>2, <2>2, <2>5, <2>6, <2>7, <2>8 DEF QBittorrentOK
<1>3. CASE c.op # "run"
  <2>1. PICK w \in W : c.todo = <<S(w)>> /\ W = {w} /\ QBittorrentLasts(c.op) = {w}
    BY <1>3, QBittorrentWordsAre DEF QBittorrentTodo, QBittorrentLasts, Op
  <2>2. /\ c.todo # <<>> /\ Program(W, QBittorrentLasts(c.op), c.todo) /\ \A i \in 1..Len(c.todo) : ~c.todo[i].again
        /\ ~c.todo[1].refused
        /\ \A X : Has(c.todo, X) <=> w \in X
    BY <1>1, <2>1
  <2>3. c.op = "submit" => w = "torrents/add"
    BY <2>1, QBittorrentWordsAre
  <2>4. Found(c, s, "torrents/add")
    BY <2>2, <2>3 DEF Found
  <2>5. 1 \in 1..Len(c.todo) /\ \A i \in 2..Len(c.todo) : i \in 1..Len(c.todo)
    BY <2>2, Lines
  <2> QED BY <2>2, <2>4, <2>5 DEF QBittorrentOK, QBittorrentLasts
<1> QED BY <1>2, <1>3

\* An exchange leaves it so, or ended for a reason.
LEMMA QBittorrentExchanged ==
  ASSUME kind = "qbittorrent", NEW n \in Nat, NEW c \in Calling, c.op \in Op, c.state = "running", c.todo # <<>>,
         NEW mem \in Client, NEW s \in Service, QBittorrentOK(c, s),
         NEW d, d = QBittorrentTakes(c, mem, s).call, NEW mem1, mem1 = QBittorrentTakes(c, mem, s).mem,
         NEW s1, s1 = QBittorrentServes(c, s)
  PROVE  /\ Passes(n, After(d, s1), mem1, s1)
         /\ Effects(c, mem, mem1, s, s1) /\ Keeps(c, d) /\ d \in Calling
<1> DEFINE t == c.todo  w == c.todo[1].do  W == QBittorrentWords(c.op)  L == QBittorrentLasts(c.op)
<1>1. /\ t \in Seq(Line) /\ Program(W, L, t) /\ w \in W /\ Head(t).do = w
      /\ \A i \in 2..Len(t) : ~t[i].again
      /\ Found(c, s, "torrents/add")
  <2>1. Program(W, L, t)
    BY DEF QBittorrentOK, QBittorrentLasts
  <2>2. w \in W
    BY <2>1, Lines DEF Program
  <2> QED BY <2>1, <2>2, Lines DEF QBittorrentOK
<1>2. mem1 = [mem EXCEPT !.session = "good"]
  BY DEF QBittorrentTakes, With
<1>3. mem1 \in Client /\ mem1.session = "good" /\ mem1.connected = mem.connected /\ mem1.labelReady = mem.labelReady
  BY <1>2 DEF Client
<1>4. Effects(c, mem, mem1, s, s1)
  BY <1>1, <1>3, QBittorrentServed
<1>5. CASE (w = "torrents/add" /\ s.job.there) \/ (w = "filePrio" /\ ~s.job.there)
  <2>1. d = Throw(c, "unexpected_response")
    BY <1>1, <1>5 DEF QBittorrentTakes, With
  <2>2. \A i \in 1..Len(t) : t[i].do \notin {"orMagnet", "orExists", "orNoFiles"}
    BY <1>1, QBittorrentWordsAre, QBittorrentOrder DEF Program
  <2>3. d \in Calling /\ Alike(c, d) /\ d.todo = <<>> /\ d.state = "unexpected_response"
    BY <2>1, <2>2, Uncaught DEF Errors
  <2>4. c.crossed
    <3>1. CASE w = "torrents/add" /\ s.job.there
      <4>1. c.op = "submit" /\ Has(t, {"torrents/add"})
        BY <1>1, <3>1, QBittorrentWordsAre, Lines DEF Has, Op
      <4> QED BY <1>1, <3>1, <4>1 DEF Found
    <3>2. CASE w = "filePrio" /\ ~s.job.there
      <4>1. c.op = "select"
        BY <1>1, <3>2, QBittorrentWordsAre DEF Op
      <4> QED BY <1>1, <3>2, <4>1 DEF Found
    <3> QED BY <1>5, <3>1, <3>2
  <2>5. Arrives(n, d, mem1, s1, d.done \/ Goal(d, s1.job))
    BY <2>3, <2>4 DEF Arrives, Ended, Alike, Faulted, Errors
  <2> QED BY <1>4, <2>3, <2>5, Arrived DEF Keeps, Alike
<1>6. CASE ~((w = "torrents/add" /\ s.job.there) \/ (w = "filePrio" /\ ~s.job.there))
  <2>1. d = Then(c, <<>>)
    BY <1>1, <1>6 DEF QBittorrentTakes, With
  <2>2. d \in Calling /\ d.todo = <<>> \o Tail(t) /\ Same(c, d)
    BY <2>1, ThenIs, NoStep
  <2>3. Onward(W, L, t, d.todo)
    BY <1>1, <2>2, NextLine
  <2>4. CASE d.todo # <<>>
    <3>1. w = "version" /\ c.op = "run"
      BY <1>1, <2>3, <2>4, QBittorrentWordsAre, QBittorrentOrder DEF Onward, Op
    <3>2. s1 = s
      BY <1>1, <3>1 DEF QBittorrentServes
    <3>3. QBittorrentOK(d, s1) /\ ~d.todo[1].again
      <4>1. Found(d, s1, "torrents/add")
        BY <1>1, <2>2, <3>1, <3>2 DEF Found, Same
      <4> QED BY <2>2, <2>3, <2>4, <4>1 DEF QBittorrentOK, QBittorrentLasts, Onward, Same
    <3>4. Arrives(n, d, mem1, s1, d.done \/ Goal(d, s1.job))
      BY <2>2, <2>4, <3>3 DEF Arrives, Same, CallOK, Starts
    <3> QED BY <1>4, <2>2, <3>4, Arrived DEF Keeps, Same
  <2>5. CASE d.todo = <<>>
    <3>1. w \in L
      BY <2>3, <2>5 DEF Onward
    <3>2. c.crossed \/ Goal(d, s1.job)
      <4>1. s.job \in Torrent /\ c.marker \in Marker
        BY DEF Service, Calling
      <4>2. CASE c.op = "submit"
        <5>1. w = "torrents/add" /\ ~s.job.there
          BY <1>1, <1>6, <4>2, QBittorrentWordsAre
        <5>2. s1 = [s EXCEPT !.job = [NewJob(c) EXCEPT !.markers = {c.marker}]]
          BY <1>1, <5>1 DEF QBittorrentServes
        <5>3. s1.job.there /\ c.marker \in s1.job.markers
          <6>1. s1.job = [NewJob(c) EXCEPT !.markers = {c.marker}]
            BY <5>2 DEF Service
          <6> QED BY <6>1, NewJobIs DEF Torrent
        <5> QED BY <2>2, <4>2, <5>3 DEF Goal, Same
      <4>3. CASE c.op = "mark"
        <5>1. w = "addTags" /\ (c.crossed \/ s.job.there)
          BY <1>1, <4>3, QBittorrentWordsAre DEF Found
        <5>2. s.job.there => c.marker \in s1.job.markers
          <6>1. s.job.there => s1 = [s EXCEPT !.job.markers = s.job.markers \cup {c.marker}]
            BY <1>1, <5>1 DEF QBittorrentServes
          <6> QED BY <4>1, <6>1 DEF Service, Torrent
        <5> QED BY <2>2, <4>3, <5>1, <5>2 DEF Goal, Same
      <4>4. CASE c.op = "select"
        <5>1. w = "filePrio" /\ s.job.there
          BY <1>1, <1>6, <4>4, QBittorrentWordsAre
        <5>2. s1 = [s EXCEPT !.job.off = IF c.want THEN s.job.off \ c.files ELSE s.job.off \cup c.files]
          BY <1>1, <5>1 DEF QBittorrentServes
        <5>3. s1.job.off = IF c.want THEN s.job.off \ c.files ELSE s.job.off \cup c.files
          <6>1. PICK off : off = IF c.want THEN s.job.off \ c.files ELSE s.job.off \cup c.files
            OBVIOUS
          <6>2. s1 = [s EXCEPT !.job = [s.job EXCEPT !.off = off]]
            BY <5>2, <6>1
          <6>3. s1.job = [s.job EXCEPT !.off = off]
            BY <6>2 DEF Service
          <6>4. s1.job.off = off
            BY <4>1, <6>3 DEF Torrent
          <6> QED BY <6>1, <6>4, Zenon
        <5>4. c.want => c.files \cap s1.job.off = {}
          BY <5>3
        <5>5. ~c.want => c.files \subseteq s1.job.off
          BY <5>3
        <5> QED BY <2>2, <4>4, <5>4, <5>5 DEF Goal, Same
      <4>5. CASE c.op = "run"
        <5>1. w = "start-stop" /\ (c.crossed \/ s.job.there)
          BY <1>1, <3>1, <4>5 DEF Found, QBittorrentLasts
        <5>2. s.job.there => s1.job.running = c.want
          <6>1. s.job.there => s1 = [s EXCEPT !.job.running = c.want]
            BY <1>1, <5>1 DEF QBittorrentServes
          <6> QED BY <4>1, <6>1 DEF Service, Torrent
        <5> QED BY <2>2, <4>5, <5>1, <5>2 DEF Goal, Same
      <4>6. CASE c.op = "remove"
        <5>1. w = "delete"
          BY <1>1, <4>6, QBittorrentWordsAre
        <5>2. ~s1.job.there
          <6>1. s1 = [s EXCEPT !.job = NoJob]
            BY <1>1, <5>1 DEF QBittorrentServes
          <6> QED BY <6>1, NewJobIs DEF Service
        <5> QED BY <2>2, <4>6, <5>2 DEF Goal, Same
      <4>7. CASE c.op = "look"
        BY <2>2, <4>7 DEF Goal, Same
      <4> QED BY <4>2, <4>3, <4>4, <4>5, <4>6, <4>7 DEF Op
    <3>3. Arrives(n, d, mem1, s1, d.done \/ Goal(d, s1.job))
      BY <2>2, <2>5, <3>2 DEF Arrives, Ended, Same, Silent
    <3> QED BY <1>4, <2>2, <3>3, Arrived DEF Keeps, Same
  <2> QED BY <2>4, <2>5
<1> QED BY <1>5, <1>6

\* So does a refusal, which is answered with a new session, once.
LEMMA QBittorrentRetried ==
  ASSUME kind = "qbittorrent", NEW n \in Nat, NEW c \in Calling, c.op \in Op, c.state = "running", c.todo # <<>>,
         NEW mem \in Client, NEW s \in Service, QBittorrentOK(c, s), c.todo[1].refused,
         NEW d, d = QBittorrentRetries(c, mem).call, NEW mem1, mem1 = QBittorrentRetries(c, mem).mem
  PROVE  /\ Passes(n, After(d, s), mem1, s)
         /\ Effects(c, mem, mem1, s, s) /\ Keeps(c, d) /\ d \in Calling
<1> DEFINE t == c.todo  x == c.todo[1]  W == QBittorrentWords(c.op)  L == QBittorrentLasts(c.op)
<1>1. /\ t \in Seq(Line) /\ Program(W, L, t) /\ Head(t) = x /\ x \in Line
      /\ \A i \in 2..Len(t) : ~t[i].again
      /\ Found(c, s, "torrents/add")
      /\ Quiet(c) => ~x.again
  BY Lines DEF QBittorrentOK, QBittorrentLasts
<1>2. CASE x.again
  <2>1. d = Throw(c, "authentication") /\ mem1 = mem
    BY <1>1, <1>2 DEF QBittorrentRetries, With
  <2>2. \A i \in 1..Len(t) : t[i].do \notin {"orMagnet", "orExists", "orNoFiles"}
    BY <1>1, QBittorrentWordsAre, QBittorrentOrder DEF Program
  <2>3. d \in Calling /\ Alike(c, d) /\ d.todo = <<>> /\ d.state = "authentication"
    BY <2>1, <2>2, Uncaught DEF Errors
  <2>4. c.disturbed
    BY <1>1, <1>2 DEF Quiet
  <2>5. Arrives(n, d, mem1, s, d.done \/ Goal(d, s.job))
    BY <2>3, <2>4 DEF Arrives, Ended, Alike, Faulted, Errors
  <2> QED BY <2>1, <2>3, <2>5, Arrived, Nothing DEF Keeps, Alike
<1>3. CASE ~x.again
  <2>1. PICK r : r = <<Again(x)>>
    OBVIOUS
  <2>2. r \in Seq(Line) /\ Again(x) \in Line /\ Again(x).do = x.do /\ ~Again(x).refused
    BY <1>1, <2>1, AgainIsLine, OneStep
  <2>3. d = Then(c, r) /\ mem1 = [mem EXCEPT !.session = "none"]
    BY <1>1, <1>3, <2>1 DEF QBittorrentRetries, With
  <2>4. d \in Calling /\ d.todo = r \o Tail(t) /\ Same(c, d)
    <3>1. Then(c, r) \in Calling /\ Then(c, r).todo = r \o Tail(t) /\ Same(c, Then(c, r))
      BY <2>2, ThenIs
    <3> QED BY <2>3, <3>1, Zenon
  <2>5. Resent(W, L, t, d.todo, Again(x))
    BY <1>1, <2>1, <2>2, <2>4, SameLine
  <2>6. mem1 \in Client /\ mem1.session = "none" /\ mem1.connected = mem.connected /\ mem1.labelReady = mem.labelReady
    BY <2>3 DEF Client
  <2>7. QBittorrentOK(d, s)
    <3>1. Found(d, s, "torrents/add")
      BY <1>1, <2>4, <2>5 DEF Found, Same, Resent
    <3> QED BY <1>1, <2>2, <2>4, <2>5, <3>1 DEF QBittorrentOK, QBittorrentLasts, Resent, Same
  <2>8. Arrives(n, d, mem1, s, d.done \/ Goal(d, s.job))
    BY <2>4, <2>5, <2>6, <2>7 DEF Arrives, Same, CallOK, Starts, Resent
  <2>9. Effects(c, mem, mem1, s, s)
    BY <2>6 DEF Effects
  <2> QED BY <2>4, <2>8, <2>9, Arrived DEF Keeps, Same
<1> QED BY <1>2, <1>3
-----------------------------------------------------------------------------
TransmissionLasts(op) == IF op \in {"submit", "mark"} THEN {"set-labels"} ELSE TransmissionWords(op)

\* The requests of every operation of Transmission.
LEMMA TransmissionWordsAre ==
  ASSUME NEW op \in Op
  PROVE  /\ op = "submit" => TransmissionWords(op) = {"torrent-add", "set-labels"}
         /\ op = "mark" => TransmissionWords(op) = {"get-labels", "set-labels"}
         /\ op = "select" => TransmissionWords(op) = {"files-wanted"}
         /\ op = "run" => TransmissionWords(op) = {"start-stop"}
         /\ op = "remove" => TransmissionWords(op) = {"torrent-remove"}
         /\ op = "look" => TransmissionWords(op) = {"get-labels"}
         /\ TransmissionWords(op) \subseteq {"torrent-add", "set-labels", "get-labels", "files-wanted", "start-stop", "torrent-remove"}
BY DEF TransmissionWords, Op

\* They need no handler; labels are set after an add or a read.
LEMMA TransmissionOrder ==
  /\ \A w \in {"set-labels", "files-wanted", "start-stop", "torrent-remove"} : Follows(w) = {}
  /\ Follows("torrent-add") = {"set-labels"} /\ Follows("get-labels") = {"set-labels"}
  /\ \A w \in {"torrent-add", "set-labels", "get-labels", "files-wanted", "start-stop", "torrent-remove"} :
       w \notin Local /\ w \notin {"orMagnet", "orExists", "orNoFiles"} /\ Stage(w) = 0
<1>1. \A w \in {"set-labels", "files-wanted", "start-stop", "torrent-remove"} : Follows(w) = {}
  BY DEF Follows, Plugging
<1>2. Follows("torrent-add") = {"set-labels"} /\ Follows("get-labels") = {"set-labels"}
  BY DEF Follows, Plugging
<1>3. \A w \in {"torrent-add", "set-labels", "get-labels", "files-wanted", "start-stop", "torrent-remove"} : Stage(w) = 0
  BY DEF Stage, Session, Firsts, Plugging
<1> QED BY <1>1, <1>2, <1>3 DEF Local, DelugeLocal, SabnzbdLocal

\* The service alone.
LEMMA TransmissionServed ==
  ASSUME kind = "transmission", NEW c \in Calling, c.op \in Op, c.todo # <<>>,
         NEW mem \in Client, NEW s \in Service, c.todo[1].do \in TransmissionWords(c.op),
         NEW s1, s1 = TransmissionServes(c, s)
  PROVE  Effects(c, mem, mem, s, s1)
<1> DEFINE w == c.todo[1].do
<1>1. Head(c.todo).do = w
  BY Lines
<1>2. NewJob(c) \in Torrent /\ NoJob \in Torrent /\ ~NoJob.ours /\ NewJob(c).there /\ ~NoJob.there
  BY NewJobIs
<1>3. c.want \in BOOLEAN /\ c.files \in SUBSET File /\ c.marker \in Marker /\ c.read.markers \in SUBSET Marker
  BY DEF Calling, Reading
<1>4. /\ w = "torrent-add" => c.op = "submit"
      /\ w = "torrent-remove" => c.op = "remove"
  BY TransmissionWordsAre DEF Op
<1>5. s.job \in Torrent
  BY DEF Service
<1>7. CASE w = "torrent-add" /\ ~s.job.there
  <2>1. s1 = [s EXCEPT !.job = [NewJob(c) EXCEPT !.markers = {c.marker}]]
    BY <1>1, <1>7 DEF TransmissionServes, TransmissionJob
  <2>2. PICK j : j = [NewJob(c) EXCEPT !.markers = {c.marker}]
    OBVIOUS
  <2>3. j \in Torrent /\ j.there /\ j.markers # {}
    BY <1>2, <1>3, <2>2 DEF Torrent
  <2> QED BY <1>4, <1>7, <2>1, <2>2, <2>3 DEF Effects, Service
<1>8. CASE w = "set-labels" /\ s.job.there
  <2>1. PICK m : m = c.read.markers \cup {c.marker}
    OBVIOUS
  <2>2. s1 = [s EXCEPT !.job.markers = m]
    BY <1>1, <1>8, <2>1 DEF TransmissionServes
  <2>3. m \in SUBSET Marker /\ m # {}
    BY <1>3, <2>1
  <2> QED BY <1>5, <2>2, <2>3 DEF Effects, Service, Torrent
<1>9. CASE w = "files-wanted" /\ s.job.there
  <2>1. s1 = [s EXCEPT !.job.off = IF c.want THEN s.job.off \ c.files ELSE s.job.off \cup c.files]
    BY <1>1, <1>9 DEF TransmissionServes
  <2> QED BY <1>3, <1>5, <2>1 DEF Effects, Service, Torrent
<1>10. CASE w = "start-stop" /\ s.job.there
  <2>1. s1 = [s EXCEPT !.job.running = c.want]
    BY <1>1, <1>10 DEF TransmissionServes
  <2> QED BY <1>3, <1>5, <2>1 DEF Effects, Service, Torrent
<1>11. CASE w = "torrent-remove"
  <2>1. s1 = [s EXCEPT !.job = NoJob]
    BY <1>1, <1>11 DEF TransmissionServes
  <2> QED BY <1>2, <1>4, <1>11, <2>1 DEF Effects, Service
<1>12. ASSUME ~(w = "torrent-add" /\ ~s.job.there), ~(w = "set-labels" /\ s.job.there), ~(w = "files-wanted" /\ s.job.there),
              ~(w = "start-stop" /\ s.job.there), w # "torrent-remove"
       PROVE  s1 = s
  BY <1>1, <1>12 DEF TransmissionServes
<1> QED BY <1>7, <1>8, <1>9, <1>10, <1>11, <1>12, Nothing

\* A call of Transmission begins in good order.
LEMMA TransmissionBegun ==
  ASSUME kind = "transmission", NEW n \in Nat, NEW c \in Calling, c.op \in Op, c.todo = TransmissionTodo(c),
         NEW mem \in Client, NEW s \in Service, c.op # "look" => ((c.op = "submit") <=> ~s.job.there)
  PROVE  c.todo # <<>> /\ TransmissionOK(c, s) /\ ~c.todo[1].again
<1> DEFINE W == TransmissionWords(c.op)
<1>1. CASE c.op \in {"submit", "mark"}
  <2>1. PICK v : v = IF c.op = "submit" THEN "torrent-add" ELSE "get-labels"
    OBVIOUS
  <2>2. PICK x, y : x = S(v) /\ y = S("set-labels")
    OBVIOUS
  <2>3. /\ x \in Line /\ x.do = v /\ ~x.refused /\ ~x.again
        /\ y \in Line /\ y.do = "set-labels" /\ ~y.refused /\ ~y.again
    BY <2>1, <2>2, StepIsLine DEF Word
  <2>4. c.todo = <<x, y>>
    BY <1>1, <2>1, <2>2 DEF TransmissionTodo
  <2>5. Program(W, {"set-labels"}, c.todo)
    <3>1. Before(x.do, y.do)
      BY <2>1, <2>3, TransmissionOrder DEF Before
    <3>2. v \in W /\ "set-labels" \in W /\ "set-labels" \in Follows(v)
      BY <1>1, <2>1, TransmissionWordsAre, TransmissionOrder
    <3> QED BY <2>3, <2>4, <3>1, <3>2, TwoProgram
  <2>6. c.todo # <<>> /\ c.todo[1] = x /\ ~Once(c.todo) /\ (c.op = "submit" => Has(c.todo, {"torrent-add"}))
    BY <2>1, <2>3, <2>4, TwoSteps
  <2>7. \A i \in 2..Len(c.todo) : ~c.todo[i].again
    BY <2>6 DEF Once
  <2>8. Found(c, s, "torrent-add")
    BY <1>1, <2>6 DEF Found
  <2> QED BY <1>1, <2>3, <2>5, <2>6, <2>7, <2>8 DEF TransmissionOK
<1>2. CASE c.op \notin {"submit", "mark"}
  <2>1. PICK w \in W : c.todo = <<S(w)>> /\ W = {w} /\ TransmissionLasts(c.op) = {w} /\ w \in Word
    <3>1. W \subseteq Word
      BY TransmissionWordsAre DEF Word
    <3>2. \E w \in W : c.todo = <<S(w)>> /\ W = {w} /\ TransmissionLasts(c.op) = {w}
      BY <1>2, TransmissionWordsAre DEF TransmissionTodo, TransmissionLasts, Op
    <3> QED BY <3>1, <3>2
  <2>2. Begins(W, TransmissionLasts(c.op), c.todo, w)
    BY <2>1, SingleIs
  <2>3. S(w).do = w /\ ~S(w).refused
    BY <2>1, StepIsLine
  <2>4. /\ c.todo # <<>> /\ Program(W, TransmissionLasts(c.op), c.todo) /\ ~c.todo[1].refused /\ ~Once(c.todo)
    BY <2>2, <2>3 DEF Begins
  <2>5. \A i \in 1..Len(c.todo) : ~c.todo[i].again
    BY <2>4 DEF Once
  <2>6. 1 \in 1..Len(c.todo) /\ \A i \in 2..Len(c.todo) : i \in 1..Len(c.todo)
    BY <2>4, Lines
  <2>7. Found(c, s, "torrent-add")
    BY <1>2 DEF Found
  <2> QED BY <1>2, <2>4, <2>5, <2>6, <2>7 DEF TransmissionOK, TransmissionLasts
<1> QED BY <1>1, <1>2

\* An exchange leaves it so, or ended for a reason.
LEMMA TransmissionExchanged ==
  ASSUME kind = "transmission", NEW n \in Nat, NEW c \in Calling, c.op \in Op, c.state = "running", c.todo # <<>>,
         NEW mem \in Client, NEW s \in Service, TransmissionOK(c, s),
         NEW d, d = TransmissionTakes(c, mem, s).call, NEW mem1, mem1 = TransmissionTakes(c, mem, s).mem,
         NEW s1, s1 = TransmissionServes(c, s)
  PROVE  /\ Passes(n, After(d, s1), mem1, s1)
         /\ Effects(c, mem, mem1, s, s1) /\ Keeps(c, d) /\ d \in Calling
<1> DEFINE t == c.todo  w == c.todo[1].do  W == TransmissionWords(c.op)  L == TransmissionLasts(c.op)
<1>1. /\ t \in Seq(Line) /\ Program(W, L, t) /\ w \in W /\ Head(t).do = w
      /\ \A i \in 2..Len(t) : ~t[i].again
      /\ Found(c, s, "torrent-add")
      /\ c.op = "submit" => c.crossed \/ c.done \/ Has(t, {"torrent-add"})
  <2>1. Program(W, L, t)
    BY DEF TransmissionOK, TransmissionLasts
  <2>2. w \in W
    BY <2>1, Lines DEF Program
  <2> QED BY <2>1, <2>2, Lines DEF TransmissionOK
<1>2. mem1 = mem
  BY DEF TransmissionTakes, With
<1>3. Effects(c, mem, mem1, s, s1)
  BY <1>1, <1>2, TransmissionServed
<1>4. s.job \in Torrent /\ c.marker \in Marker /\ s.job.markers \in SUBSET Marker
  BY DEF Service, Torrent, Calling
<1>5. CASE w = "get-labels" /\ c.op = "mark" /\ c.marker \in s.job.markers
  <2>1. d = Return(c) /\ s1 = s
    BY <1>1, <1>5 DEF TransmissionTakes, TransmissionServes, With
  <2>2. d \in Calling /\ d.todo = <<>> /\ Same(c, d)
    BY <2>1, ReturnIs
  <2>3. Arrives(n, d, mem1, s1, d.done \/ Goal(d, s1.job))
    BY <1>5, <2>1, <2>2 DEF Arrives, Ended, Same, Goal
  <2> QED BY <1>3, <2>2, <2>3, Arrived DEF Keeps, Same
<1>6. CASE ~(w = "get-labels" /\ c.op = "mark" /\ c.marker \in s.job.markers)
  <2>1. PICK c0 : c0 = IF w = "get-labels" /\ c.op = "mark" THEN [c EXCEPT !.read.markers = s.job.markers] ELSE c
    OBVIOUS
  <2>2. d = Then(c0, <<>>)
    BY <1>1, <1>6, <2>1 DEF TransmissionTakes, With
  <2>3. /\ c0 \in Calling /\ c0.todo = t /\ c0.op = c.op /\ c0.marker = c.marker /\ c0.files = c.files
        /\ c0.want = c.want /\ c0.state = c.state /\ c0.done = c.done
        /\ c0.disturbed = c.disturbed /\ c0.crossed = c.crossed /\ c0.robbed = c.robbed
    BY <1>4, <2>1 DEF Calling, Reading
  <2>4. d \in Calling /\ d.todo = <<>> \o Tail(t) /\ Same(c0, d)
    BY <2>2, <2>3, ThenIs, NoStep
  <2>5. /\ d.op = c.op /\ d.marker = c.marker /\ d.files = c.files /\ d.want = c.want /\ d.state = "running"
        /\ d.done = c.done /\ d.disturbed = c.disturbed /\ d.crossed = c.crossed /\ d.robbed = c.robbed
    BY <2>3, <2>4 DEF Same
  <2>a. d \in Calling
    BY <2>4
  <2>6. Onward(W, L, t, d.todo)
    BY <1>1, <2>4, NextLine
  <2>7. Keeps(c, d)
    BY <2>5 DEF Keeps
  <2>8. CASE d.todo # <<>>
    <3>1. (w = "torrent-add" /\ c.op = "submit") \/ (w = "get-labels" /\ c.op = "mark")
      BY <1>1, <2>6, <2>8, TransmissionWordsAre, TransmissionOrder DEF Onward, Op, TransmissionLasts
    <3>2. PICK e : e = After(d, s1)
      OBVIOUS
    <3>3. /\ e \in Calling /\ e.todo = d.todo /\ e.op = c.op /\ e.state = "running" /\ e.crossed = c.crossed
          /\ e.disturbed = c.disturbed /\ e.robbed = c.robbed
          /\ (e.done <=> (c.done \/ Goal(d, s1.job)))
      <4>1. /\ e.todo = d.todo /\ e.op = d.op /\ e.state = d.state /\ e.crossed = d.crossed
            /\ e.disturbed = d.disturbed /\ e.robbed = d.robbed /\ e \in Calling
        BY <2>a, <3>2, AfterIt
      <4>2. e.done <=> d.done \/ Goal(d, s1.job)
        BY <2>a, <3>2, AfterIs
      <4> QED BY <2>5, <4>1, <4>2
    <3>4. ~Has(d.todo, {"torrent-add"})
      <4>1. d.todo[1].do = "set-labels"
        BY <2>6, <2>8, <3>1, TransmissionOrder DEF Onward
      <4>2. Has(d.todo, {"torrent-add"}) => d.todo[1].do \in {"torrent-add"}
        BY <2>6, <2>8, <4>1, TransmissionOrder, LastLine DEF Onward
      <4> QED BY <4>1, <4>2
    <3>5. CASE w = "torrent-add" /\ c.op = "submit"
      <4>1. ~c.crossed => ~s.job.there
        <5>1. Has(t, {"torrent-add"})
          BY <3>5, Lines DEF Has
        <5> QED BY <1>1, <3>5, <5>1 DEF Found
      <4>2. ~s.job.there => s1.job.there /\ Goal(d, s1.job)
        <5>1. ~s.job.there => s1 = [s EXCEPT !.job = [NewJob(c) EXCEPT !.markers = {c.marker}]]
          BY <1>1, <3>5 DEF TransmissionServes, TransmissionJob
        <5>2. ~s.job.there => s1.job = [NewJob(c) EXCEPT !.markers = {c.marker}]
          BY <5>1 DEF Service
        <5> QED BY <2>5, <3>5, <5>2, NewJobIs DEF Torrent, Goal
      <4>3. Found(e, s1, "torrent-add")
        BY <3>3, <3>4, <3>5, <4>1, <4>2 DEF Found
      <4>4. TransmissionOK(e, s1)
        BY <2>6, <2>8, <3>3, <4>1, <4>2, <4>3 DEF TransmissionOK, TransmissionLasts, Onward
      <4>5. Passes(n, e, mem1, s1)
        BY <2>6, <2>8, <3>3, <4>4 DEF Passes, Arrives, CallOK, Starts, Onward
      <4> QED BY <1>3, <2>4, <2>7, <3>2, <4>5
    <3>6. CASE w = "get-labels" /\ c.op = "mark"
      <4>1. s1 = s
        BY <1>1, <3>6 DEF TransmissionServes
      <4>2. Found(e, s1, "torrent-add")
        BY <1>1, <3>3, <3>6, <4>1 DEF Found
      <4>3. TransmissionOK(e, s1)
        BY <2>6, <2>8, <3>3, <3>6, <4>2 DEF TransmissionOK, TransmissionLasts, Onward
      <4>4. Passes(n, e, mem1, s1)
        BY <2>6, <2>8, <3>3, <4>3 DEF Passes, Arrives, CallOK, Starts, Onward
      <4> QED BY <1>3, <2>4, <2>7, <3>2, <4>4
    <3> QED BY <3>1, <3>5, <3>6
  <2>9. CASE d.todo = <<>>
    <3>1. w \in L
      BY <2>6, <2>9 DEF Onward
    <3>2. c.crossed \/ c.done \/ Goal(d, s1.job)
      <4>1. CASE c.op = "submit"
        <5>1. w = "set-labels"
          BY <3>1, <4>1 DEF TransmissionLasts
        <5>2. ~Has(t, {"torrent-add"})
          <6>1. Has(t, {"torrent-add"}) => w \in {"torrent-add"}
            BY <1>1, <5>1, TransmissionOrder, LastLine
          <6> QED BY <5>1, <6>1
        <5> QED BY <1>1, <4>1, <5>2
      <4>2. CASE c.op = "mark"
        <5>1. w = "set-labels" /\ (c.crossed \/ s.job.there)
          BY <1>1, <3>1, <4>2 DEF TransmissionLasts, Found
        <5>2. s.job.there => c.marker \in s1.job.markers
          <6>1. PICK m : m = c.read.markers \cup {c.marker}
            OBVIOUS
          <6>2. s.job.there => s1 = [s EXCEPT !.job.markers = m]
            BY <1>1, <5>1, <6>1 DEF TransmissionServes
          <6>3. s.job.there => s1.job.markers = m
            BY <1>4, <6>2 DEF Service, Torrent
          <6> QED BY <6>1, <6>3
        <5> QED BY <2>5, <4>2, <5>1, <5>2 DEF Goal
      <4>3. CASE c.op = "select"
        <5>1. w = "files-wanted" /\ (c.crossed \/ s.job.there)
          BY <1>1, <4>3, TransmissionWordsAre DEF Found
        <5>2. s.job.there => s1.job.off = IF c.want THEN s.job.off \ c.files ELSE s.job.off \cup c.files
          <6>1. PICK o : o = IF c.want THEN s.job.off \ c.files ELSE s.job.off \cup c.files
            OBVIOUS
          <6>2. s.job.there => s1 = [s EXCEPT !.job.off = o]
            BY <1>1, <5>1, <6>1 DEF TransmissionServes
          <6>3. s.job.there => s1.job.off = o
            BY <1>4, <6>2 DEF Service, Torrent
          <6> QED BY <6>1, <6>3
        <5>3. s.job.there /\ c.want => c.files \cap s1.job.off = {}
          BY <5>2
        <5>4. s.job.there /\ ~c.want => c.files \subseteq s1.job.off
          BY <5>2
        <5> QED BY <2>5, <4>3, <5>1, <5>3, <5>4 DEF Goal
      <4>4. CASE c.op = "run"
        <5>1. w = "start-stop" /\ (c.crossed \/ s.job.there)
          BY <1>1, <4>4, TransmissionWordsAre DEF Found
        <5>2. s.job.there => s1.job.running = c.want
          <6>1. s.job.there => s1 = [s EXCEPT !.job.running = c.want]
            BY <1>1, <5>1 DEF TransmissionServes
          <6> QED BY <1>4, <6>1 DEF Service, Torrent
        <5> QED BY <2>5, <4>4, <5>1, <5>2 DEF Goal
      <4>5. CASE c.op = "remove"
        <5>1. w = "torrent-remove"
          BY <1>1, <4>5, TransmissionWordsAre
        <5>2. ~s1.job.there
          <6>1. s1 = [s EXCEPT !.job = NoJob]
            BY <1>1, <5>1 DEF TransmissionServes
          <6> QED BY <6>1, NewJobIs DEF Service
        <5> QED BY <2>5, <4>5, <5>2 DEF Goal
      <4>6. CASE c.op = "look"
        BY <2>5, <4>6 DEF Goal
      <4> QED BY <4>1, <4>2, <4>3, <4>4, <4>5, <4>6 DEF Op
    <3>3. Arrives(n, d, mem1, s1, d.done \/ Goal(d, s1.job))
      BY <2>4, <2>5, <2>9, <3>2 DEF Arrives, Ended, Silent
    <3> QED BY <1>3, <2>4, <2>7, <3>3, Arrived
  <2> QED BY <2>8, <2>9
<1> QED BY <1>5, <1>6

\* So does a refusal, which tells the new token.
LEMMA TransmissionRetried ==
  ASSUME kind = "transmission", NEW n \in Nat, NEW c \in Calling, c.op \in Op, c.state = "running", c.todo # <<>>,
         NEW mem \in Client, NEW s \in Service, TransmissionOK(c, s), c.todo[1].refused,
         NEW d, d = TransmissionRetries(c, mem).call, NEW mem1, mem1 = TransmissionRetries(c, mem).mem
  PROVE  /\ Passes(n, After(d, s), mem1, s)
         /\ Effects(c, mem, mem1, s, s) /\ Keeps(c, d) /\ d \in Calling
<1> DEFINE t == c.todo  x == c.todo[1]  W == TransmissionWords(c.op)  L == TransmissionLasts(c.op)
<1>1. /\ t \in Seq(Line) /\ Program(W, L, t) /\ Head(t) = x /\ x \in Line
      /\ \A i \in 2..Len(t) : ~t[i].again
      /\ Found(c, s, "torrent-add")
      /\ Quiet(c) => ~x.again
      /\ c.op = "submit" => c.crossed \/ c.done \/ Has(t, {"torrent-add"})
  BY Lines DEF TransmissionOK, TransmissionLasts
<1>2. CASE x.again
  <2>1. d = Throw(c, "unexpected_response") /\ mem1 = mem
    BY <1>1, <1>2 DEF TransmissionRetries, With
  <2>2. \A i \in 1..Len(t) : t[i].do \notin {"orMagnet", "orExists", "orNoFiles"}
    BY <1>1, TransmissionWordsAre, TransmissionOrder DEF Program
  <2>3. d \in Calling /\ Alike(c, d) /\ d.todo = <<>> /\ d.state = "unexpected_response"
    BY <2>1, <2>2, Uncaught DEF Errors
  <2>4. c.disturbed
    BY <1>1, <1>2 DEF Quiet
  <2>5. Arrives(n, d, mem1, s, d.done \/ Goal(d, s.job))
    BY <2>3, <2>4 DEF Arrives, Ended, Alike, Faulted, Errors
  <2> QED BY <2>1, <2>3, <2>5, Arrived, Nothing DEF Keeps, Alike
<1>3. CASE ~x.again
  <2>1. PICK r : r = <<Again(x)>>
    OBVIOUS
  <2>2. r \in Seq(Line) /\ Again(x) \in Line /\ Again(x).do = x.do /\ ~Again(x).refused
    BY <1>1, <2>1, AgainIsLine, OneStep
  <2>3. d = Then(c, r) /\ mem1 = [mem EXCEPT !.session = "good"]
    BY <1>1, <1>3, <2>1 DEF TransmissionRetries, With
  <2>4. d \in Calling /\ d.todo = r \o Tail(t) /\ Same(c, d)
    <3>1. Then(c, r) \in Calling /\ Then(c, r).todo = r \o Tail(t) /\ Same(c, Then(c, r))
      BY <2>2, ThenIs
    <3> QED BY <2>3, <3>1, Zenon
  <2>5. Resent(W, L, t, d.todo, Again(x))
    BY <1>1, <2>1, <2>2, <2>4, SameLine
  <2>6. mem1 \in Client /\ mem1.session = "good" /\ mem1.connected = mem.connected /\ mem1.labelReady = mem.labelReady
    BY <2>3 DEF Client
  <2>7. TransmissionOK(d, s)
    <3>1. Found(d, s, "torrent-add")
      BY <1>1, <2>4, <2>5 DEF Found, Same, Resent
    <3> QED BY <1>1, <2>2, <2>4, <2>5, <3>1 DEF TransmissionOK, TransmissionLasts, Resent, Same
  <2>8. Arrives(n, d, mem1, s, d.done \/ Goal(d, s.job))
    BY <2>4, <2>5, <2>6, <2>7 DEF Arrives, Same, CallOK, Starts, Resent
  <2>9. Effects(c, mem, mem1, s, s)
    BY <2>6 DEF Effects
  <2> QED BY <2>4, <2>8, <2>9, Arrived DEF Keeps, Same
<1> QED BY <1>2, <1>3
-----------------------------------------------------------------------------
\* The requests and decisions of every operation of SABnzbd, and the last ones.
LEMMA SabnzbdWordsAre ==
  ASSUME NEW op \in Op
  PROVE  /\ op = "submit" => SabnzbdWords(op) = {"queue", "history", "existing", "addfile", "change_cat"}
                             /\ SabnzbdLasts(op) = {"addfile", "change_cat"}
         /\ op = "mark" => SabnzbdWords(op) = {"queue", "history", "markable", "change_cat"}
                           /\ SabnzbdLasts(op) = {"change_cat"}
         /\ op = "select" => SabnzbdWords(op) = {"queue", "history", "look", "inQueue", "delete_nzf"}
                             /\ SabnzbdLasts(op) = {"look", "delete_nzf"}
         /\ op = "run" => SabnzbdWords(op) = {"queue", "history", "inQueue", "pause-resume"}
                          /\ SabnzbdLasts(op) = {"pause-resume"}
         /\ op = "remove" => SabnzbdWords(op) = {"queue", "history", "found", "delete"}
                             /\ SabnzbdLasts(op) = {"delete"}
         /\ op = "look" => SabnzbdWords(op) = {"queue", "history"} /\ SabnzbdLasts(op) = {"queue", "history"}
         /\ SabnzbdWords(op) \subseteq {"queue", "history", "existing", "addfile", "markable", "change_cat", "look", "inQueue",
                                        "delete_nzf", "pause-resume", "found", "delete"}
<1>1. CASE op = "submit"
  BY <1>1 DEF SabnzbdWords, SabnzbdLasts
<1>2. CASE op = "mark"
  BY <1>2 DEF SabnzbdWords, SabnzbdLasts
<1>3. CASE op = "select"
  BY <1>3 DEF SabnzbdWords, SabnzbdLasts
<1>4. CASE op = "run"
  BY <1>4 DEF SabnzbdWords, SabnzbdLasts
<1>5. CASE op = "remove"
  BY <1>5 DEF SabnzbdWords, SabnzbdLasts
<1>6. CASE op = "look"
  BY <1>6 DEF SabnzbdWords, SabnzbdLasts
<1> QED BY <1>1, <1>2, <1>3, <1>4, <1>5, <1>6 DEF Op

SabnzbdWord == {"queue", "history", "existing", "addfile", "markable", "change_cat", "look", "inQueue",
                "delete_nzf", "pause-resume", "found", "delete"}

\* Their order: both lists are read before the decision, which comes before the command.
LEMMA SabnzbdOrder ==
  /\ \A w \in {"addfile", "change_cat", "delete_nzf", "pause-resume", "delete", "look"} : Follows(w) = {}
  /\ \A w \in {"queue", "history"} : Follows(w) = {"queue", "history", "existing", "markable", "inQueue", "found"}
  /\ Follows("existing") = {"addfile"} /\ Follows("markable") = {"change_cat"}
  /\ Follows("inQueue") = {"delete_nzf", "pause-resume"} /\ Follows("found") = {"delete"}
  /\ \A w \in SabnzbdWord : w \in Word /\ w \notin {"orMagnet", "orExists", "orNoFiles"} /\ Stage(w) = 0
  /\ \A w \in SabnzbdWord : w \in Local <=> w \in SabnzbdLocal
<1>1. \A w \in {"addfile", "change_cat", "delete_nzf", "pause-resume", "delete", "look"} : Follows(w) = {}
  BY DEF Follows, Plugging
<1>2. \A w \in {"queue", "history"} : Follows(w) = {"queue", "history", "existing", "markable", "inQueue", "found"}
  BY DEF Follows, Plugging
<1>3. /\ Follows("existing") = {"addfile"} /\ Follows("markable") = {"change_cat"}
      /\ Follows("inQueue") = {"delete_nzf", "pause-resume"} /\ Follows("found") = {"delete"}
  BY DEF Follows, Plugging
<1>4. \A w \in SabnzbdWord : Stage(w) = 0
  BY DEF Stage, Session, Firsts, Plugging, SabnzbdWord
<1>5. \A w \in SabnzbdWord : w \in Word /\ w \notin {"orMagnet", "orExists", "orNoFiles"}
  BY DEF SabnzbdWord, Word
<1>6. \A w \in SabnzbdWord : w \in Local <=> w \in SabnzbdLocal
  BY DEF SabnzbdWord, Local, DelugeLocal
<1> QED BY <1>1, <1>2, <1>3, <1>4, <1>5, <1>6

\* The service alone.
LEMMA SabnzbdServed ==
  ASSUME kind = "sabnzbd", NEW c \in Calling, c.op \in Op, c.todo # <<>>,
         NEW mem \in Client, NEW s \in Service, c.todo[1].do \in SabnzbdWords(c.op),
         NEW s1, s1 = SabnzbdServes(c, s)
  PROVE  Effects(c, mem, mem, s, s1)
<1> DEFINE w == c.todo[1].do  live == s.job.there /\ ~s.job.past
<1>1. Head(c.todo).do = w
  BY Lines
<1>2. NewJob(c) \in Torrent /\ NoJob \in Torrent /\ ~NoJob.ours /\ NewJob(c).there /\ ~NoJob.there
  BY NewJobIs
<1>3. c.want \in BOOLEAN /\ c.files \in SUBSET File /\ c.marker \in Marker /\ c.read.markers \in SUBSET Marker
  BY DEF Calling, Reading
<1>4. /\ w = "addfile" => c.op = "submit"
      /\ w = "delete" => c.op = "remove"
  BY SabnzbdWordsAre DEF Op
<1>5. s.job \in Torrent
  BY DEF Service
<1>7. CASE w = "addfile" /\ ~s.job.there
  <2>1. s1 = [s EXCEPT !.job = [NewJob(c) EXCEPT !.markers = {c.marker}]]
    BY <1>1, <1>7 DEF SabnzbdServes
  <2>2. PICK j : j = [NewJob(c) EXCEPT !.markers = {c.marker}]
    OBVIOUS
  <2>3. j \in Torrent /\ j.there /\ j.markers # {}
    BY <1>2, <1>3, <2>2 DEF Torrent
  <2> QED BY <1>4, <1>7, <2>1, <2>2, <2>3 DEF Effects, Service
<1>8. CASE w = "change_cat" /\ live
  <2>1. PICK m : m = IF c.op = "submit" THEN {c.marker} ELSE c.read.markers \cup {c.marker}
    OBVIOUS
  <2>2. s1 = [s EXCEPT !.job.markers = m]
    BY <1>1, <1>8, <2>1 DEF SabnzbdServes
  <2>3. m \in SUBSET Marker /\ m # {}
    BY <1>3, <2>1
  <2> QED BY <1>5, <2>2, <2>3 DEF Effects, Service, Torrent
<1>9. CASE w = "delete_nzf" /\ live
  <2>1. s1 = [s EXCEPT !.job.off = s.job.off \cup c.files]
    BY <1>1, <1>9 DEF SabnzbdServes
  <2> QED BY <1>3, <1>5, <2>1 DEF Effects, Service, Torrent
<1>10. CASE w = "pause-resume" /\ live
  <2>1. s1 = [s EXCEPT !.job.running = c.want]
    BY <1>1, <1>10 DEF SabnzbdServes
  <2> QED BY <1>3, <1>5, <2>1 DEF Effects, Service, Torrent
<1>11. CASE w = "delete" /\ s.job.past = (c.read.place = "history")
  <2>1. s1 = [s EXCEPT !.job = NoJob]
    BY <1>1, <1>11 DEF SabnzbdServes
  <2> QED BY <1>2, <1>4, <1>11, <2>1 DEF Effects, Service
<1>12. ASSUME ~(w = "addfile" /\ ~s.job.there), ~(w = "change_cat" /\ live), ~(w = "delete_nzf" /\ live),
              ~(w = "pause-resume" /\ live), ~(w = "delete" /\ s.job.past = (c.read.place = "history"))
       PROVE  s1 = s
  BY <1>1, <1>12 DEF SabnzbdServes
<1> QED BY <1>7, <1>8, <1>9, <1>10, <1>11, <1>12, Nothing

\* An exchange leaves a call in good order, or ended for a reason.
LEMMA SabnzbdExchanged ==
  ASSUME kind = "sabnzbd", NEW n \in Nat, NEW c \in Calling, c.op \in Op, c.state = "running", c.todo # <<>>,
         NEW mem \in Client, NEW s \in Service, SabnzbdOK(c, s), c.todo[1].do \notin Local,
         NEW d, d = SabnzbdTakes(c, mem, s).call, NEW mem1, mem1 = SabnzbdTakes(c, mem, s).mem,
         NEW s1, s1 = SabnzbdServes(c, s)
  PROVE  /\ Passes(n, After(d, s1), mem1, s1)
         /\ Effects(c, mem, mem1, s, s1) /\ Keeps(c, d) /\ d \in Calling
<1> DEFINE t == c.todo  w == c.todo[1].do  W == SabnzbdWords(c.op)  L == SabnzbdLasts(c.op)
           inQueue == w = "queue" /\ s.job.there /\ ~s.job.past
           inHistory == w = "history" /\ s.job.there /\ s.job.past /\ c.read.place = "nowhere"
<1>1. /\ t \in Seq(Line) /\ Program(W, L, t) /\ w \in W /\ Head(t).do = w /\ w \in SabnzbdWord
      /\ w \in {"queue", "history", "addfile", "change_cat", "delete_nzf", "pause-resume", "delete"}
  <2>1. Program(W, L, t)
    BY DEF SabnzbdOK
  <2>2. w \in W /\ w \in SabnzbdWord
    BY <2>1, Lines, SabnzbdWordsAre DEF Program, SabnzbdWord
  <2> QED BY <2>1, <2>2, Lines, SabnzbdOrder DEF SabnzbdLocal, SabnzbdWord
<1>2. mem1 = mem
  BY DEF SabnzbdTakes, With
<1>3. Effects(c, mem, mem1, s, s1)
  BY <1>1, <1>2, SabnzbdServed
<1>4. s.job \in Torrent /\ c.marker \in Marker /\ s.job.markers \in SUBSET Marker
  BY DEF Service, Torrent, Calling
<1>5. PICK c0 : c0 = IF inQueue THEN [c EXCEPT !.read.place = "queue", !.read.markers = s.job.markers]
                     ELSE IF inHistory THEN [c EXCEPT !.read.place = "history", !.read.markers = s.job.markers]
                     ELSE c
  OBVIOUS
<1>6. d = Then(c0, <<>>)
  <2>1. CASE inQueue
    BY <1>1, <1>5, <2>1 DEF SabnzbdTakes, With
  <2>2. CASE inHistory
    BY <1>1, <1>5, <2>2 DEF SabnzbdTakes, With
  <2>3. CASE ~inQueue /\ ~inHistory
    BY <1>1, <1>5, <2>3 DEF SabnzbdTakes, With
  <2> QED BY <2>1, <2>2, <2>3
<1>7. /\ c0 \in Calling /\ c0.todo = t /\ c0.op = c.op /\ c0.marker = c.marker /\ c0.files = c.files
      /\ c0.want = c.want /\ c0.state = c.state /\ c0.done = c.done
      /\ c0.disturbed = c.disturbed /\ c0.crossed = c.crossed /\ c0.robbed = c.robbed
      /\ inQueue => c0.read.place = "queue" /\ c0.read.markers = s.job.markers
      /\ inHistory => c0.read.place = "history" /\ c0.read.markers = s.job.markers
      /\ ~inQueue /\ ~inHistory => c0.read = c.read
  <2>1. ASSUME NEW place \in {"queue", "history"}, c0 = [c EXCEPT !.read.place = place, !.read.markers = s.job.markers]
        PROVE  /\ c0 \in Calling /\ c0.todo = t /\ c0.op = c.op /\ c0.marker = c.marker /\ c0.files = c.files
               /\ c0.want = c.want /\ c0.state = c.state /\ c0.done = c.done
               /\ c0.disturbed = c.disturbed /\ c0.crossed = c.crossed /\ c0.robbed = c.robbed
               /\ c0.read.place = place /\ c0.read.markers = s.job.markers
    <3>1. c.read \in Reading
      BY DEF Calling
    <3>2. PICK r : r = [c.read EXCEPT !.place = place, !.markers = s.job.markers]
      OBVIOUS
    <3>3. r \in Reading /\ r.place = place /\ r.markers = s.job.markers
      BY <1>4, <3>1, <3>2 DEF Reading
    <3>4. c0 = [c EXCEPT !.read = r]
      BY <2>1, <3>2
    <3> QED BY <3>3, <3>4 DEF Calling
  <2>2. CASE inQueue
    BY <1>5, <2>1, <2>2
  <2>3. CASE inHistory
    BY <1>5, <2>1, <2>3
  <2>4. CASE ~inQueue /\ ~inHistory
    BY <1>5, <2>4
  <2> QED BY <2>2, <2>3, <2>4
<1>8. d \in Calling /\ d.todo = <<>> \o Tail(t) /\ Same(c0, d)
  BY <1>6, <1>7, ThenIs, NoStep
<1>9. d \in Calling
  BY <1>8
<1>10. /\ d.op = c.op /\ d.marker = c.marker /\ d.files = c.files /\ d.want = c.want /\ d.state = "running" /\ d.read = c0.read
       /\ d.done = c.done /\ d.disturbed = c.disturbed /\ d.crossed = c.crossed /\ d.robbed = c.robbed
  BY <1>7, <1>8 DEF Same
<1>11. Keeps(c, d)
  BY <1>10 DEF Keeps
<1>12. PICK u : u = d.todo
  OBVIOUS
<1>13. Replaced(W, L, t, <<>>, u)
  BY <1>1, <1>8, <1>12, NoStep, NothingFits, Splice
<1>14. /\ u # <<>> => Program(W, L, u) /\ ~u[1].refused /\ u[1].do \in Follows(w)
       /\ u = <<>> => w \in L
       /\ \A X : w \notin X /\ Has(t, X) => Has(u, X)
  <2>1. \A X : w \notin X /\ Has(t, X) => Has(u, X)
    BY <1>13 DEF Replaced
  <2> QED BY <1>13, <2>1 DEF Replaced
<1>15. CASE u # <<>>
  <2>1. w \in {"queue", "history"} /\ s1 = s
    BY <1>1, <1>14, <1>15, SabnzbdOrder DEF SabnzbdServes
  <2>2. u[1].do \in {"queue", "history", "existing", "markable", "inQueue", "found"}
    BY <1>14, <1>15, <2>1, SabnzbdOrder
  <2>3. PICK e : e = After(d, s1)
    OBVIOUS
  <2>4. /\ e \in Calling /\ e.todo = d.todo /\ e.op = d.op /\ e.state = d.state /\ e.crossed = d.crossed
        /\ e.marker = d.marker /\ e.read = d.read /\ e.want = d.want
    BY <1>9, <2>3, AfterIt
  <2>5. e.done <=> d.done \/ Goal(d, s1.job)
    BY <1>9, <2>3, AfterIs
  <2>6. c.op = "mark" /\ e.marker \in e.read.markers => e.done
    <3>1. CASE inQueue \/ inHistory
      <4>1. c.op = "mark" /\ e.marker \in e.read.markers => Goal(d, s1.job)
        BY <1>7, <1>10, <2>1, <2>4, <3>1 DEF Goal
      <4> QED BY <2>5, <4>1
    <3>2. CASE ~inQueue /\ ~inHistory
      <4>1. e.read = c.read
        BY <1>7, <1>10, <2>4, <3>2
      <4>2. c.op = "mark" /\ c.marker \in c.read.markers => c.done
        BY DEF SabnzbdOK
      <4> QED BY <1>10, <2>4, <2>5, <4>1, <4>2
    <3> QED BY <3>1, <3>2
  <2>7. ASSUME ~c.crossed, c.op = "submit" PROVE ~s1.job.there /\ e.read.place = "nowhere"
    BY <1>7, <1>10, <2>1, <2>4, <2>7 DEF SabnzbdOK
  <2>8. ASSUME ~c.crossed, c.op \in {"mark", "select", "run", "remove"}
        PROVE  /\ s1.job.there
               /\ e.read.place = "queue" => ~s1.job.past
               /\ e.read.place = "history" => s1.job.past
               /\ e.read.place = "nowhere" => /\ (s1.job.past \/ Has(u, {"queue"}))
                                              /\ (~s1.job.past \/ Has(u, {"history"}))
    <3>1. /\ s.job.there
          /\ c.read.place = "queue" => ~s.job.past
          /\ c.read.place = "history" => s.job.past
          /\ c.read.place = "nowhere" => (s.job.past \/ Has(t, {"queue"})) /\ (~s.job.past \/ Has(t, {"history"}))
      BY <1>1, <2>8 DEF SabnzbdOK
    <3>2. CASE inQueue
      BY <1>7, <1>10, <2>1, <2>4, <3>1, <3>2
    <3>3. CASE inHistory
      BY <1>7, <1>10, <2>1, <2>4, <3>1, <3>3
    <3>4. CASE ~inQueue /\ ~inHistory
      <4>1. e.read = c.read
        BY <1>7, <1>10, <2>4, <3>4
      <4>2. c.read.place = "nowhere" => (s.job.past \/ Has(u, {"queue"}))
        <5>1. CASE w = "queue"
          BY <3>1, <3>4, <5>1
        <5>2. CASE w # "queue"
          <6>1. Has(t, {"queue"}) => Has(u, {"queue"})
            BY <1>14, <5>2
          <6> QED BY <3>1, <6>1
        <5> QED BY <5>1, <5>2
      <4>3. c.read.place = "nowhere" => (~s.job.past \/ Has(u, {"history"}))
        <5>1. CASE w = "history"
          BY <3>1, <3>4, <5>1
        <5>2. CASE w # "history"
          <6>1. Has(t, {"history"}) => Has(u, {"history"})
            BY <1>14, <5>2
          <6> QED BY <3>1, <6>1
        <5> QED BY <5>1, <5>2
      <4> QED BY <2>1, <3>1, <4>1, <4>2, <4>3
    <3> QED BY <3>2, <3>3, <3>4
  <2>9. SabnzbdOK(e, s1)
    <3>1. e.todo = u /\ e.op = c.op /\ e.crossed = c.crossed
      BY <1>10, <1>12, <2>4
    <3>2. Program(W, L, u) /\ ~u[1].refused
      BY <1>14, <1>15
    <3> QED BY <2>2, <2>6, <2>7, <2>8, <3>1, <3>2 DEF SabnzbdOK
  <2>10. Passes(n, e, mem1, s1)
    BY <1>10, <1>12, <1>15, <2>4, <2>9 DEF Passes, Arrives, CallOK, Starts
  <2> QED BY <1>3, <1>9, <1>11, <2>3, <2>10
<1>16. CASE u = <<>>
  <2>1. w \in L
    BY <1>14, <1>16
  <2>2. c.crossed \/ Goal(d, s1.job) \/ Silent(d)
    <3>1. CASE c.op = "submit"
      <4>1. w \in {"addfile", "change_cat"}
        BY <2>1, <3>1, SabnzbdWordsAre
      <4>2. CASE w = "change_cat"
        BY <3>1, <4>2 DEF SabnzbdOK
      <4>3. CASE w = "addfile"
        <5>1. c.crossed \/ ~s.job.there
          BY <3>1 DEF SabnzbdOK
        <5>2. ~s.job.there => s1.job = [NewJob(c) EXCEPT !.markers = {c.marker}]
          <6>1. ~s.job.there => s1 = [s EXCEPT !.job = [NewJob(c) EXCEPT !.markers = {c.marker}]]
            BY <1>1, <4>3 DEF SabnzbdServes
          <6> QED BY <6>1 DEF Service
        <5> QED BY <1>10, <3>1, <5>1, <5>2, NewJobIs DEF Torrent, Goal
      <4> QED BY <4>1, <4>2, <4>3
    <3>2. CASE c.op = "mark"
      <4>1. w = "change_cat"
        BY <2>1, <3>2, SabnzbdWordsAre
      <4>2. c.crossed \/ (s.job.there /\ ~s.job.past)
        BY <3>2, <4>1 DEF SabnzbdOK
      <4>3. s.job.there /\ ~s.job.past => c.marker \in s1.job.markers
        <5>1. PICK m : m = IF c.op = "submit" THEN {c.marker} ELSE c.read.markers \cup {c.marker}
          OBVIOUS
        <5>2. s.job.there /\ ~s.job.past => s1 = [s EXCEPT !.job.markers = m]
          BY <1>1, <4>1, <5>1 DEF SabnzbdServes
        <5>3. s.job.there /\ ~s.job.past => s1.job.markers = m
          BY <1>4, <5>2 DEF Service, Torrent
        <5> QED BY <5>1, <5>3
      <4> QED BY <1>10, <3>2, <4>2, <4>3 DEF Goal
    <3>3. CASE c.op = "select"
      <4>1. CASE w = "look"
        BY <1>1, <4>1
      <4>2. CASE w = "delete_nzf"
        <5>1. c.crossed \/ (s.job.there /\ ~s.job.past)
          BY <3>3, <4>2 DEF SabnzbdOK
        <5>2. s.job.there /\ ~s.job.past => s1.job.off = s.job.off \cup c.files
          <6>1. s.job.there /\ ~s.job.past => s1 = [s EXCEPT !.job.off = s.job.off \cup c.files]
            BY <1>1, <4>2 DEF SabnzbdServes
          <6> QED BY <1>4, <6>1 DEF Service, Torrent
        <5>3. s.job.there /\ ~s.job.past => c.files \subseteq s1.job.off
          BY <5>2
        <5>4. c.want => Silent(d)
          BY <1>10, <3>3 DEF Silent
        <5> QED BY <1>10, <3>3, <5>1, <5>3, <5>4 DEF Goal
      <4> QED BY <2>1, <3>3, <4>1, <4>2, SabnzbdWordsAre
    <3>4. CASE c.op = "run"
      <4>1. w = "pause-resume"
        BY <2>1, <3>4, SabnzbdWordsAre
      <4>2. c.crossed \/ (s.job.there /\ ~s.job.past)
        BY <3>4, <4>1 DEF SabnzbdOK
      <4>3. s.job.there /\ ~s.job.past => s1.job.running = c.want
        <5>1. s.job.there /\ ~s.job.past => s1 = [s EXCEPT !.job.running = c.want]
          BY <1>1, <4>1 DEF SabnzbdServes
        <5> QED BY <1>4, <5>1 DEF Service, Torrent
      <4> QED BY <1>10, <3>4, <4>2, <4>3 DEF Goal
    <3>5. CASE c.op = "remove"
      <4>1. w = "delete"
        BY <2>1, <3>5, SabnzbdWordsAre
      <4>2. c.read.place \in {"queue", "history"}
        BY <4>1 DEF SabnzbdOK, Calling, Reading
      <4>3. c.crossed \/ (s.job.past <=> c.read.place = "history")
        BY <3>5, <4>2 DEF SabnzbdOK
      <4>4. (s.job.past <=> c.read.place = "history") => ~s1.job.there
        <5>1. (s.job.past <=> c.read.place = "history") => s.job.past = (c.read.place = "history")
          BY <1>4 DEF Torrent
        <5>2. s.job.past = (c.read.place = "history") => s1 = [s EXCEPT !.job = NoJob]
          BY <1>1, <4>1 DEF SabnzbdServes
        <5> QED BY <5>1, <5>2, NewJobIs DEF Service
      <4> QED BY <1>10, <3>5, <4>3, <4>4 DEF Goal
    <3>6. CASE c.op = "look"
      BY <1>10, <3>6 DEF Goal
    <3> QED BY <3>1, <3>2, <3>3, <3>4, <3>5, <3>6 DEF Op
  <2>3. Arrives(n, d, mem1, s1, d.done \/ Goal(d, s1.job))
    BY <1>9, <1>10, <1>12, <1>16, <2>2 DEF Arrives, Ended, Silent
  <2> QED BY <1>3, <1>9, <1>11, <2>3, Arrived
<1> QED BY <1>15, <1>16
-----------------------------------------------------------------------------
\* Two lines, and after them two more at most.
LEMMA JobsAre ==
  ASSUME NEW first \in {"queue", "history"}
  PROVE  /\ Begins({"queue", "history"}, {"queue", "history"}, Jobs(first), first)
         /\ Has(Jobs(first), {"queue"}) /\ Has(Jobs(first), {"history"}) /\ ~Has(Jobs(first), {"look"})
<1>1. PICK second : second = IF first = "queue" THEN "history" ELSE "queue"
  OBVIOUS
<1>2. PICK x, y : x = S(first) /\ y = S(second)
  OBVIOUS
<1>3. /\ x \in Line /\ x.do = first /\ ~x.refused /\ ~x.again
      /\ y \in Line /\ y.do = second /\ ~y.refused /\ ~y.again
  BY <1>1, <1>2, StepIsLine DEF Word
<1>4. Jobs(first) = <<x, y>>
  BY <1>1, <1>2 DEF Jobs
<1>5. y.do \in Follows(x.do) /\ Before(x.do, y.do)
  BY <1>1, <1>3, SabnzbdOrder DEF Before, SabnzbdWord
<1>6. Program({"queue", "history"}, {"queue", "history"}, <<x, y>>)
  BY <1>1, <1>3, <1>5, TwoProgram
<1>7. /\ <<x, y>> \in Seq(Line) /\ <<x, y>> # <<>> /\ <<x, y>>[1] = x /\ ~Once(<<x, y>>)
      /\ Has(<<x, y>>, {"queue"}) /\ Has(<<x, y>>, {"history"}) /\ ~Has(<<x, y>>, {"look"})
  BY <1>1, <1>3, TwoSteps
<1> QED BY <1>2, <1>4, <1>6, <1>7 DEF Begins

\* A decision and the command after it.
LEMMA PairIs ==
  ASSUME NEW v \in SabnzbdWord, NEW w \in SabnzbdWord, w \in Follows(v)
  PROVE  Begins({v, w}, {w}, <<S(v), S(w)>>, v)
<1>2. PICK x, y : x = S(v) /\ y = S(w)
  OBVIOUS
<1>3. /\ x \in Line /\ x.do = v /\ ~x.refused /\ ~x.again
      /\ y \in Line /\ y.do = w /\ ~y.refused /\ ~y.again
  BY <1>2, StepIsLine, SabnzbdOrder
<1>5. Before(x.do, y.do)
  BY <1>3, SabnzbdOrder DEF Before
<1>6. Program({v, w}, {w}, <<x, y>>)
  BY <1>3, <1>5, TwoProgram
<1>7. <<x, y>> \in Seq(Line) /\ <<x, y>> # <<>> /\ <<x, y>>[1] = x /\ ~Once(<<x, y>>)
  BY <1>3, TwoSteps
<1> QED BY <1>2, <1>6, <1>7 DEF Begins

\* A call of SABnzbd begins in good order.
LEMMA SabnzbdBegun ==
  ASSUME kind = "sabnzbd", NEW n \in Nat, NEW c \in Calling, c.op \in Op, NEW first \in {"queue", "history"},
         c.todo = SabnzbdTodo(c, first), c.read.place = "nowhere", c.read.markers = {},
         NEW mem \in Client, NEW s \in Service, c.op # "look" => ((c.op = "submit") <=> ~s.job.there)
  PROVE  c.todo # <<>> /\ SabnzbdOK(c, s)
<1> DEFINE W == SabnzbdWords(c.op)  L == SabnzbdLasts(c.op)
<1>1. /\ Begins({"queue", "history"}, {"queue", "history"}, Jobs(first), first)
      /\ Has(Jobs(first), {"queue"}) /\ Has(Jobs(first), {"history"})
  BY JobsAre
<1>2. /\ S(first).do = first /\ ~S(first).refused
      /\ S("look").do = "look" /\ ~S("look").refused
  BY StepIsLine DEF Word
<1>3. ASSUME Program(W, L, c.todo), c.todo[1] = S(first), c.todo # <<>>,
             c.op # "submit" => Has(c.todo, {"queue"}) /\ Has(c.todo, {"history"})
      PROVE  SabnzbdOK(c, s)
  BY <1>2, <1>3 DEF SabnzbdOK
<1>4. ASSUME NEW v \in SabnzbdWord, NEW w \in SabnzbdWord, w \in Follows(v), v \in {"existing", "markable", "inQueue", "found"},
             c.todo = Jobs(first) \o <<S(v), S(w)>>, v \in W, w \in W, w \in L, {"queue", "history"} \subseteq W
      PROVE  c.todo # <<>> /\ SabnzbdOK(c, s)
  <2>1. PICK a, b : a = Jobs(first) /\ b = <<S(v), S(w)>>
    OBVIOUS
  <2>2. Begins({v, w}, {w}, b, v)
    BY <1>4, <2>1, PairIs
  <2>3. \A x \in {"queue", "history"}, y \in {v, w} : Before(x, y)
    BY SabnzbdOrder DEF Before, SabnzbdWord
  <2>4. \A x \in {"queue", "history"} : v \in Follows(x)
    BY <1>4, SabnzbdOrder
  <2>5. v \in Word
    BY SabnzbdOrder
  <2>6. Sequel({"queue", "history"} \cup {v, w}, {w}, a, b, first)
    BY <1>1, <2>1, <2>2, <2>3, <2>4, <2>5, BeginsThen
  <2>7. PICK V : V = {"queue", "history"} \cup {v, w}
    OBVIOUS
  <2>8. V \subseteq W
    BY <1>4, <2>7
  <2>9. c.todo = a \o b
    BY <1>4, <2>1
  <2>10. Begins(V, {w}, c.todo, first) /\ Has(c.todo, {"queue"}) /\ Has(c.todo, {"history"})
    BY <1>1, <2>1, <2>6, <2>7, <2>9 DEF Sequel
  <2>11. Program(W, L, c.todo)
    <3>1. Program(W, {w}, c.todo)
      BY <2>8, <2>10, Within DEF Begins
    <3> QED BY <1>4, <3>1 DEF Program
  <2> QED BY <1>3, <2>10, <2>11 DEF Begins
<1>5. CASE c.op = "submit"
  <2>1. c.todo = Jobs(first) \o <<S("existing"), S("addfile")>>
    BY <1>5 DEF SabnzbdTodo
  <2>2. "existing" \in W /\ "addfile" \in W /\ "addfile" \in L /\ {"queue", "history"} \subseteq W
    BY <1>5, SabnzbdWordsAre
  <2>3. "existing" \in SabnzbdWord /\ "addfile" \in SabnzbdWord /\ "addfile" \in Follows("existing")
    BY SabnzbdOrder DEF SabnzbdWord
  <2> QED BY <1>4, <2>1, <2>2, <2>3
<1>6. CASE c.op = "mark"
  <2>1. c.todo = Jobs(first) \o <<S("markable"), S("change_cat")>>
    BY <1>6 DEF SabnzbdTodo
  <2>2. "markable" \in W /\ "change_cat" \in W /\ "change_cat" \in L /\ {"queue", "history"} \subseteq W
    BY <1>6, SabnzbdWordsAre
  <2>3. "markable" \in SabnzbdWord /\ "change_cat" \in SabnzbdWord /\ "change_cat" \in Follows("markable")
    BY SabnzbdOrder DEF SabnzbdWord
  <2> QED BY <1>4, <2>1, <2>2, <2>3
<1>7. CASE c.op = "select" /\ ~c.want
  <2>1. c.todo = Jobs(first) \o <<S("inQueue"), S("delete_nzf")>>
    BY <1>7 DEF SabnzbdTodo
  <2>2. "inQueue" \in W /\ "delete_nzf" \in W /\ "delete_nzf" \in L /\ {"queue", "history"} \subseteq W
    BY <1>7, SabnzbdWordsAre
  <2>3. "inQueue" \in SabnzbdWord /\ "delete_nzf" \in SabnzbdWord /\ "delete_nzf" \in Follows("inQueue")
    BY SabnzbdOrder DEF SabnzbdWord
  <2> QED BY <1>4, <2>1, <2>2, <2>3
<1>8. CASE c.op = "select" /\ c.want
  <2>1. c.todo = <<S("look")>>
    BY <1>8 DEF SabnzbdTodo
  <2>2. Begins({"look"}, {"look"}, c.todo, "look")
    BY <2>1, SingleIs DEF Word
  <2>3. c.todo # <<>> /\ c.todo[1] = S("look") /\ Program(W, L, c.todo)
    <3>1. "look" \in W /\ "look" \in L
      BY <1>8, SabnzbdWordsAre
    <3> QED BY <2>2, <3>1 DEF Begins, Program
  <2> QED BY <1>8, <1>2, <2>3 DEF SabnzbdOK
<1>9. CASE c.op = "run"
  <2>1. c.todo = Jobs(first) \o <<S("inQueue"), S("pause-resume")>>
    BY <1>9 DEF SabnzbdTodo
  <2>2. "inQueue" \in W /\ "pause-resume" \in W /\ "pause-resume" \in L /\ {"queue", "history"} \subseteq W
    BY <1>9, SabnzbdWordsAre
  <2>3. "inQueue" \in SabnzbdWord /\ "pause-resume" \in SabnzbdWord /\ "pause-resume" \in Follows("inQueue")
    BY SabnzbdOrder DEF SabnzbdWord
  <2> QED BY <1>4, <2>1, <2>2, <2>3
<1>10. CASE c.op = "remove"
  <2>1. c.todo = Jobs(first) \o <<S("found"), S("delete")>>
    BY <1>10 DEF SabnzbdTodo
  <2>2. "found" \in W /\ "delete" \in W /\ "delete" \in L /\ {"queue", "history"} \subseteq W
    BY <1>10, SabnzbdWordsAre
  <2>3. "found" \in SabnzbdWord /\ "delete" \in SabnzbdWord /\ "delete" \in Follows("found")
    BY SabnzbdOrder DEF SabnzbdWord
  <2> QED BY <1>4, <2>1, <2>2, <2>3
<1>11. CASE c.op = "look"
  <2>1. c.todo = Jobs(first) /\ W = {"queue", "history"} /\ L = {"queue", "history"}
    BY <1>11, SabnzbdWordsAre DEF SabnzbdTodo
  <2> QED BY <1>1, <1>3, <2>1 DEF Begins
<1> QED BY <1>5, <1>6, <1>7, <1>8, <1>9, <1>10, <1>11 DEF Op
-----------------------------------------------------------------------------
\* Every decision of SABnzbd's client keeps good order: it acts on a job in the list it found it in.
LEMMA SabnzbdDecided ==
  ASSUME kind = "sabnzbd", NEW n \in Nat, NEW c \in Calling, c.op \in Op, c.state = "running", c.todo # <<>>,
         NEW mem \in Client, NEW s \in Service, SabnzbdOK(c, s),
         NEW d, d = SabnzbdDecides(c)
  PROVE  Decided(n, c, d, mem, s)
<1> DEFINE t == c.todo  w == c.todo[1].do  W == SabnzbdWords(c.op)  L == SabnzbdLasts(c.op)  place == c.read.place
<1>1. /\ t \in Seq(Line) /\ Program(W, L, t) /\ w \in W /\ Head(t).do = w /\ w \in SabnzbdWord
  <2>1. Program(W, L, t)
    BY DEF SabnzbdOK
  <2>2. w \in W /\ w \in SabnzbdWord
    BY <2>1, Lines, SabnzbdWordsAre DEF Program, SabnzbdWord
  <2> QED BY <2>1, <2>2, Lines
<1>2. CASE w \notin SabnzbdLocal
  <2>1. d = c
    BY <1>1, <1>2 DEF SabnzbdDecides, SabnzbdLocal
  <2>2. w \notin Local
    BY <1>1, <1>2, SabnzbdOrder
  <2> QED BY <2>1, <2>2 DEF Decided, Same, CallOK
<1>3. ASSUME d = Return(c), Silent(c) \/ c.done
      PROVE  Decided(n, c, d, mem, s)
  <2>1. d \in Calling /\ d.todo = <<>> /\ Same(c, d)
    BY <1>3, ReturnIs
  <2> QED BY <1>3, <2>1 DEF Decided
<1>4. /\ w = "existing" => c.op = "submit"
      /\ w = "markable" => c.op = "mark"
      /\ w = "inQueue" => c.op \in {"select", "run"}
      /\ w = "found" => c.op = "remove"
      /\ w = "look" => c.op = "select" /\ c.want
  <2>1. w = "look" => c.want
    BY DEF SabnzbdOK
  <2>2. /\ w = "existing" => c.op = "submit"
        /\ w = "markable" => c.op = "mark"
        /\ w = "inQueue" => c.op \in {"select", "run"}
        /\ w = "found" => c.op = "remove"
        /\ w = "look" => c.op = "select"
    BY <1>1, SabnzbdWordsAre DEF Op
  <2> QED BY <2>1, <2>2
<1>5. ASSUME w \in {"markable", "inQueue", "found"}, place = "nowhere"
      PROVE  c.crossed
  <2>1. /\ \A v \in Follows(w) : Follows(v) = {} /\ v \notin {"queue", "history"}
    BY <1>5, SabnzbdOrder
  <2>2. ~Has(t, {"queue"}) /\ ~Has(t, {"history"})
    <3>1. \A X : Has(t, X) => w \in X \/ \E v \in Follows(w) : v \in X
      BY <1>1, <2>1, LastLines
    <3> QED BY <1>5, <2>1, <3>1
  <2>3. c.op \in {"mark", "select", "run", "remove"}
    BY <1>4, <1>5
  <2> QED BY <1>5, <2>2, <2>3 DEF SabnzbdOK
<1>6. place \in {"nowhere", "queue", "history"}
  BY DEF Calling, Reading
\* The next line.
<1>7. ASSUME w \in {"existing", "markable", "inQueue", "found", "look"}, d = Then(c, <<>>),
             w \in {"markable", "inQueue"} => place = "queue", w = "found" => place # "nowhere"
      PROVE  Decided(n, c, d, mem, s)
  <2>1. d \in Calling /\ d.todo = <<>> \o Tail(t) /\ Same(c, d)
    BY <1>7, ThenIs, NoStep
  <2>2. Replaced(W, L, t, <<>>, d.todo)
    BY <1>1, <2>1, NoStep, NothingFits, Splice
  <2>3. d.todo = <<>> => Silent(c)
    <3>1. d.todo = <<>> => w \in L
      BY <2>2 DEF Replaced
    <3>2. w \in L => w = "look"
      BY <1>7, SabnzbdWordsAre DEF Op
    <3> QED BY <1>4, <3>1, <3>2 DEF Silent
  <2>4. ASSUME d.todo # <<>> PROVE SabnzbdOK(d, s) /\ Rank(d.todo[1].do) < Rank(w)
    <3>1. /\ Program(W, L, d.todo) /\ ~d.todo[1].refused /\ d.todo[1].do \in Follows(w)
      BY <2>2, <2>4 DEF Replaced
    <3>2. d.todo[1].do \in {"addfile", "change_cat", "delete_nzf", "pause-resume", "delete"}
      BY <1>7, <3>1, SabnzbdOrder
    <3>3. d.todo[1].do = "delete" => w = "found"
      BY <1>7, <3>1, SabnzbdOrder
    <3>4. d.todo[1].do \in {"change_cat", "delete_nzf", "pause-resume"} => w \in {"markable", "inQueue"}
      BY <1>7, <3>1, SabnzbdOrder
    <3>5. Rank(d.todo[1].do) = 0 /\ Rank(w) = 1
      <4>1. d.todo[1].do \notin Local
        BY <3>2 DEF Local, DelugeLocal, SabnzbdLocal
      <4>2. w \in SabnzbdLocal
        BY <1>7 DEF SabnzbdLocal
      <4> QED BY <4>1, <4>2, Ranks
    <3>6. /\ d.op = c.op /\ d.read = c.read /\ d.marker = c.marker /\ d.done = c.done /\ d.crossed = c.crossed
      BY <2>1 DEF Same
    <3>7. ASSUME ~c.crossed, c.op \in {"mark", "select", "run", "remove"} PROVE place # "nowhere"
      <4>1. w # "existing" /\ w # "look"
        <5>1. Follows("look") = {}
          BY SabnzbdOrder
        <5> QED BY <1>4, <3>1, <3>7, <5>1
      <4> QED BY <1>5, <1>7, <3>7, <4>1
    <3>8. /\ ~c.crossed /\ c.op = "submit" => ~s.job.there /\ place = "nowhere"
          /\ ~c.crossed /\ c.op \in {"mark", "select", "run", "remove"} =>
               /\ s.job.there
               /\ place = "queue" => ~s.job.past
               /\ place = "history" => s.job.past
          /\ c.op = "mark" /\ c.marker \in c.read.markers => c.done
      BY DEF SabnzbdOK
    <3>9. SabnzbdOK(d, s)
      BY <1>7, <3>1, <3>2, <3>3, <3>4, <3>6, <3>7, <3>8 DEF SabnzbdOK
    <3> QED BY <3>5, <3>9
  <2> QED BY <2>1, <2>3, <2>4 DEF Decided, CallOK
<1>8. CASE w = "existing"
  <2>1. CASE place = "queue"
    <3>1. PICK x : x = S("change_cat")
      OBVIOUS
    <3>2. x \in Line /\ x.do = "change_cat" /\ ~x.refused
      BY <3>1, StepIsLine DEF Word
    <3>3. PICK r : r = <<x>>
      OBVIOUS
    <3>4. d = [c EXCEPT !.todo = r]
      BY <1>1, <1>8, <2>1, <3>1, <3>3 DEF SabnzbdDecides, SabnzbdLocal
    <3>5. r \in Seq(Line) /\ r # <<>> /\ r[1] = x
      BY <3>2, <3>3, OneStep
    <3>6. d \in Calling /\ d.todo = r /\ Same(c, d)
      BY <3>4, <3>5 DEF Calling, Same
    <3>7. Program(W, L, r)
      <4>1. "change_cat" \in W /\ "change_cat" \in L
        BY <1>4, <1>8, SabnzbdWordsAre
      <4> QED BY <3>2, <3>3, <4>1, OneProgram
    <3>8. c.crossed /\ c.op = "submit"
      BY <1>4, <1>8, <2>1 DEF SabnzbdOK
    <3>9. SabnzbdOK(d, s)
      BY <2>1, <3>2, <3>5, <3>6, <3>7, <3>8 DEF SabnzbdOK, Same
    <3>10. Rank(d.todo[1].do) = 0 /\ Rank(w) = 1
      <4>1. d.todo[1].do \notin Local /\ w \in SabnzbdLocal
        BY <1>8, <3>2, <3>5, <3>6 DEF Local, DelugeLocal, SabnzbdLocal
      <4> QED BY <4>1, Ranks
    <3> QED BY <3>5, <3>6, <3>9, <3>10 DEF Decided, CallOK
  <2>2. CASE place = "history"
    <3>1. d = Return(c)
      BY <1>1, <1>8, <2>2 DEF SabnzbdDecides, SabnzbdLocal
    <3>2. Silent(c)
      BY <1>4, <1>8, <2>2 DEF Silent
    <3> QED BY <1>3, <3>1, <3>2
  <2>3. CASE place = "nowhere"
    <3>1. d = Then(c, <<>>)
      BY <1>1, <1>8, <2>3 DEF SabnzbdDecides, SabnzbdLocal
    <3> QED BY <1>7, <1>8, <3>1
  <2> QED BY <1>6, <2>1, <2>2, <2>3
<1>9. CASE w = "markable"
  <2>1. CASE place # "queue" \/ c.marker \in c.read.markers
    <3>1. d = Return(c)
      BY <1>1, <1>9, <2>1 DEF SabnzbdDecides, SabnzbdLocal
    <3>2. c.marker \in c.read.markers => c.done
      BY <1>4, <1>9 DEF SabnzbdOK
    <3>3. place # "queue" => Silent(c)
      BY <1>4, <1>5, <1>6, <1>9 DEF Silent
    <3> QED BY <1>3, <2>1, <3>1, <3>2, <3>3
  <2>2. CASE ~(place # "queue" \/ c.marker \in c.read.markers)
    <3>1. d = Then(c, <<>>)
      BY <1>1, <1>9, <2>2 DEF SabnzbdDecides, SabnzbdLocal
    <3> QED BY <1>7, <1>9, <2>2, <3>1
  <2> QED BY <2>1, <2>2
<1>10. CASE w = "inQueue"
  <2>1. CASE place # "queue"
    <3>1. d = Return(c)
      BY <1>1, <1>10, <2>1 DEF SabnzbdDecides, SabnzbdLocal
    <3>2. Silent(c)
      BY <1>4, <1>5, <1>6, <1>10, <2>1 DEF Silent
    <3> QED BY <1>3, <3>1, <3>2
  <2>2. CASE place = "queue"
    <3>1. d = Then(c, <<>>)
      BY <1>1, <1>10, <2>2 DEF SabnzbdDecides, SabnzbdLocal
    <3> QED BY <1>7, <1>10, <2>2, <3>1
  <2> QED BY <2>1, <2>2
<1>11. CASE w = "found"
  <2>1. CASE place = "nowhere"
    <3>1. d = Return(c)
      BY <1>1, <1>11, <2>1 DEF SabnzbdDecides, SabnzbdLocal
    <3>2. Silent(c)
      BY <1>5, <1>11, <2>1 DEF Silent
    <3> QED BY <1>3, <3>1, <3>2
  <2>2. CASE place # "nowhere"
    <3>1. d = Then(c, <<>>)
      BY <1>1, <1>11, <2>2 DEF SabnzbdDecides, SabnzbdLocal
    <3> QED BY <1>7, <1>11, <2>2, <3>1
  <2> QED BY <2>1, <2>2
<1>12. CASE w = "look"
  <2>1. d = Then(c, <<>>)
    BY <1>1, <1>12 DEF SabnzbdDecides, SabnzbdLocal
  <2> QED BY <1>7, <1>12, <2>1
<1> QED BY <1>2, <1>8, <1>9, <1>10, <1>11, <1>12 DEF SabnzbdLocal

\* The decisions of a call leave it before a request, or at its end.
Still(c) == c.todo = <<>> \/ c.todo[1].do \notin Local
Steps(c) == IF c.todo = <<>> THEN 0 ELSE Rank(c.todo[1].do)

\* A call without decisions before it waits for a request.
LEMMA StepsLeft ==
  ASSUME NEW c
  PROVE  Steps(c) \in 0..3 /\ (Still(c) <=> Steps(c) = 0)
BY Ranks DEF Steps, Still

\* A decision passes on a call that has got somewhere, nearer to a request.
LEMMA DecidePasses ==
  ASSUME kind \in {"deluge", "qbittorrent", "transmission", "sabnzbd"}, NEW n \in Nat, NEW c, NEW mem \in Client, NEW s \in Service,
         Passes(n, c, mem, s), NEW d, d = Decide(c, mem)
  PROVE  Passes(n, d, mem, s) /\ Keeps(c, d) /\ (Still(d) \/ Steps(d) < Steps(c))
<1>0. c \in Calling /\ c.op \in Op /\ (c.todo # <<>> => c.state = "running" /\ CallOK(n, c, mem, s) /\ Starts(c, mem))
  BY DEF Passes, Arrives
<1>1. CASE c.todo = <<>>
  <2>1. d = c
    BY <1>1 DEF Decide
  <2> QED BY <1>1, <2>1 DEF Keeps, Still
<1>2. ASSUME kind \in {"deluge", "sabnzbd"}, c.todo # <<>>, Decided(n, c, d, mem, s)
      PROVE  Passes(n, d, mem, s) /\ Keeps(c, d) /\ (Still(d) \/ Steps(d) < Steps(c))
  <2>1. d \in Calling /\ d.op = c.op /\ d.state = "running" /\ d.done = c.done /\ (Silent(d) <=> Silent(c)) /\ Keeps(c, d)
    BY <1>0, <1>2 DEF Decided, Same, Silent, Keeps
  <2>2. d.todo = <<>> => Ended(d, s, d.done)
    BY <1>0, <1>2, <2>1 DEF Ended, Decided
  <2>3. d.todo # <<>> => CallOK(n, d, mem, s) /\ Starts(d, mem)
    BY <1>2 DEF Decided, Starts
  <2>4. Still(d) \/ Steps(d) < Steps(c)
    BY <1>2 DEF Decided, Still, Steps
  <2> QED BY <1>0, <2>1, <2>2, <2>3, <2>4 DEF Passes, Arrives
<1>3. CASE c.todo # <<>> /\ kind = "deluge"
  <2>1. d = DelugeDecides(c, mem)
    BY <1>3 DEF Decide
  <2> QED BY <1>0, <1>2, <1>3, <2>1, DelugeDecided DEF CallOK
<1>4. CASE c.todo # <<>> /\ kind = "sabnzbd"
  <2>1. d = SabnzbdDecides(c)
    BY <1>4 DEF Decide
  <2> QED BY <1>0, <1>2, <1>4, <2>1, SabnzbdDecided DEF CallOK
<1>5. CASE c.todo # <<>> /\ kind \in {"qbittorrent", "transmission"}
  <2>1. d = c
    BY <1>5 DEF Decide
  <2>2. c.todo[1].do \notin Local
    <3>1. 1 \in 1..Len(c.todo)
      BY <1>0, <1>5, Lines
    <3>2. CASE kind = "qbittorrent"
      <4>1. QBittorrentOK(c, s)
        BY <1>0, <1>5, <3>2 DEF CallOK
      <4> QED BY <1>0, <3>1, <4>1, QBittorrentWordsAre, QBittorrentOrder DEF QBittorrentOK, Program
    <3>3. CASE kind = "transmission"
      <4>1. TransmissionOK(c, s)
        BY <1>0, <1>5, <3>3 DEF CallOK
      <4> QED BY <1>0, <3>1, <4>1, TransmissionWordsAre, TransmissionOrder DEF TransmissionOK, Program
    <3> QED BY <1>5, <3>2, <3>3
  <2> QED BY <2>1, <2>2 DEF Keeps, Still
<1> QED BY <1>1, <1>3, <1>4, <1>5

\* Five decisions bring every call to a request or to its end.
LEMMA Readied ==
  ASSUME kind \in {"deluge", "qbittorrent", "transmission", "sabnzbd"}, NEW n \in Nat, NEW c, NEW mem \in Client, NEW s \in Service,
         Passes(n, c, mem, s), NEW d, d = Ready(c, mem)
  PROVE  Passes(n, d, mem, s) /\ Keeps(c, d) /\ Still(d) /\ d.sent = mem.session
<1> DEFINE Good(e, k) == Passes(n, e, mem, s) /\ Keeps(c, e) /\ Steps(e) <= k
<1>1. ASSUME NEW e, NEW k \in 1..3, Good(e, k)
      PROVE  Good(Decide(e, mem), k - 1)
  <2>1. PICK f : f = Decide(e, mem)
    OBVIOUS
  <2>2. Passes(n, f, mem, s) /\ Keeps(e, f) /\ (Still(f) \/ Steps(f) < Steps(e))
    BY <1>1, <2>1, DecidePasses
  <2>3. Steps(f) \in 0..3 /\ Steps(e) \in 0..3 /\ (Still(f) => Steps(f) = 0)
    BY StepsLeft
  <2>4. Steps(f) <= k - 1
    BY <1>1, <2>2, <2>3
  <2>5. Keeps(c, f)
    BY <1>1, <2>2 DEF Keeps
  <2> QED BY <2>1, <2>2, <2>4, <2>5
<1>2. ASSUME NEW e, Good(e, 0) PROVE Good(Decide(e, mem), 0)
  <2>1. PICK f : f = Decide(e, mem)
    OBVIOUS
  <2>2. Passes(n, f, mem, s) /\ Keeps(e, f) /\ (Still(f) \/ Steps(f) < Steps(e))
    BY <1>2, <2>1, DecidePasses
  <2>3. Steps(f) \in 0..3 /\ Steps(e) \in 0..3 /\ (Still(f) => Steps(f) = 0)
    BY StepsLeft
  <2>4. Steps(f) <= 0
    BY <1>2, <2>2, <2>3
  <2>5. Keeps(c, f)
    BY <1>2, <2>2 DEF Keeps
  <2> QED BY <2>1, <2>2, <2>4, <2>5
<1>3. PICK c1, c2, c3, c4, c5 : /\ c1 = Decide(c, mem) /\ c2 = Decide(c1, mem) /\ c3 = Decide(c2, mem)
                                /\ c4 = Decide(c3, mem) /\ c5 = Decide(c4, mem)
  OBVIOUS
<1>4. Good(c, 3)
  BY StepsLeft DEF Keeps
<1> HIDE DEF Good
<1>5. Good(c1, 2) /\ 3 - 1 = 2
  <2>1. Good(Decide(c, mem), 3 - 1)
    BY <1>1, <1>4
  <2> QED BY <1>3, <2>1
<1>6. Good(c2, 1)
  <2>1. Good(Decide(c1, mem), 2 - 1)
    BY <1>1, <1>5
  <2> QED BY <1>3, <2>1
<1>7. Good(c3, 0)
  <2>1. Good(Decide(c2, mem), 1 - 1)
    BY <1>1, <1>6
  <2> QED BY <1>3, <2>1
<1>8. Good(c5, 0)
  BY <1>2, <1>3, <1>7
<1>9. d = [c5 EXCEPT !.sent = mem.session]
  BY <1>3 DEF Ready
<1>10. Passes(n, c5, mem, s) /\ Keeps(c, c5) /\ Still(c5)
  <2>1. Steps(c5) \in 0..3 /\ (Still(c5) <=> Steps(c5) = 0)
    BY StepsLeft
  <2> QED BY <1>8, <2>1 DEF Good
<1>11. c5 \in Calling /\ mem.session \in {"none", "good", "stale"}
  BY <1>10 DEF Passes, Arrives, Client
<1>12. /\ d \in Calling /\ d.sent = mem.session
       /\ d.todo = c5.todo /\ d.state = c5.state /\ d.op = c5.op /\ d.marker = c5.marker /\ d.read = c5.read
       /\ d.want = c5.want /\ d.disturbed = c5.disturbed /\ d.crossed = c5.crossed /\ d.robbed = c5.robbed
       /\ d.done = c5.done
  BY <1>9, <1>11 DEF Calling
<1>13. d.todo # <<>> => d.state = "running" /\ CallOK(n, d, mem, s) /\ Starts(d, mem)
  <2>1. d.todo # <<>> => d.state = "running" /\ CallOK(n, c5, mem, s) /\ Starts(c5, mem)
    BY <1>10, <1>12 DEF Passes, Arrives
  <2> QED BY <1>12, <2>1, Carries DEF Starts
<1>14. d.todo = <<>> => Ended(d, s, d.done)
  <2>1. d.todo = <<>> => Ended(c5, s, c5.done)
    BY <1>10, <1>12 DEF Passes, Arrives
  <2> QED BY <1>12, <2>1 DEF Ended, Silent, Faulted
<1>15. Passes(n, d, mem, s)
  BY <1>10, <1>12, <1>13, <1>14 DEF Passes, Arrives
<1> QED BY <1>10, <1>12, <1>15 DEF Keeps, Still
-----------------------------------------------------------------------------
\* A running call between two of its requests.
Bound(n, c) ==
  /\ kind = "deluge" /\ Quiet(c) /\ Fresh(n, c.todo) /\ c.todo[1].do # "login" => c.sent = "good"
  /\ kind = "qbittorrent" /\ Quiet(c) /\ c.todo[1].again => c.sent # "stale"
  /\ kind = "transmission" /\ Quiet(c) /\ c.todo[1].again => c.sent = "good"
Holds(n, c, mem, s) ==
  /\ c.op \in Op /\ c.todo # <<>>
  /\ CallOK(n, c, mem, s)
  /\ c.todo[1].do \notin Local
  /\ Bound(n, c)

\* x is the call c, but for what its history says of it.
Twin(c, x) == /\ x \in Calling
              /\ x.op = c.op /\ x.marker = c.marker /\ x.read = c.read /\ x.todo = c.todo /\ x.want = c.want
              /\ x.state = c.state /\ x.done = c.done
              /\ c.disturbed => x.disturbed
              /\ c.crossed => x.crossed
              /\ c.robbed => x.robbed

\* Two services in which the job is the same to a call.
Alter(x, s, s1) == ~x.crossed => /\ s1.job.there = s.job.there
                                 /\ s.job.there => s1.job.past = s.job.past

\* What a call has found stays found where the job is the same to it.
LEMMA AlterFinds ==
  ASSUME NEW c, NEW x, Twin(c, x), NEW s, NEW s1, Alter(x, s, s1)
  PROVE  \A w : Found(c, s, w) => Found(x, s1, w)
BY DEF Twin, Alter, Found

\* A call of SABnzbd rests on where the job is.
LEMMA SabnzbdStands ==
  ASSUME NEW c, NEW x, Twin(c, x), NEW s, NEW s1, Alter(x, s, s1), SabnzbdOK(c, s)
  PROVE  SabnzbdOK(x, s1)
<1>1. /\ x.op = c.op /\ x.marker = c.marker /\ x.read = c.read /\ x.todo = c.todo /\ x.want = c.want /\ x.done = c.done
  BY DEF Twin
<1>2. ~x.crossed => ~c.crossed /\ s1.job.there = s.job.there /\ (s.job.there => s1.job.past = s.job.past)
  BY DEF Twin, Alter
<1> QED BY <1>1, <1>2 DEF SabnzbdOK

\* Calls of qBittorrent and Transmission rest on whether the job is there.
LEMMA OthersStand ==
  ASSUME NEW c, NEW x, Twin(c, x), NEW s, NEW s1, Alter(x, s, s1), kind # "deluge"
  PROVE  /\ QBittorrentOK(c, s) => QBittorrentOK(x, s1)
         /\ TransmissionOK(c, s) => TransmissionOK(x, s1)
<1>1. /\ x.op = c.op /\ x.todo = c.todo /\ x.done = c.done
      /\ c.crossed => x.crossed
      /\ Quiet(x) => Quiet(c)
  BY DEF Twin, Quiet
<1>2. \A w : Found(c, s, w) => Found(x, s1, w)
  BY AlterFinds
<1>3. QBittorrentOK(c, s) => QBittorrentOK(x, s1)
  BY <1>1, <1>2 DEF QBittorrentOK
<1>4. TransmissionOK(c, s) => TransmissionOK(x, s1)
  BY <1>1, <1>2 DEF TransmissionOK
<1> QED BY <1>3, <1>4

\* A call of Deluge rests on a session that is not thrown away, a daemon that
\* stays and labels that only grow.
LEMMA DelugeStands ==
  ASSUME kind = "deluge", NEW n, NEW n1, n1 = 0 => n = 0, NEW c, NEW x, Twin(c, x),
         NEW mem, NEW mem1, NEW s, NEW s1, Alter(x, s, s1), DelugeOK(n, c, mem, s),
         Quiet(x) => /\ mem1.session \in {mem.session, "good", "none"}
                     /\ ~(mem.session = "good" /\ mem1.session = "none")
                     /\ mem1.connected => mem.connected \/ s1.attached
                     /\ mem1.labelReady => mem.labelReady \/ s1.plugin
                     /\ s.attached => s1.attached
                     /\ s.plugin => s1.plugin
                     /\ s.labels \subseteq s1.labels
  PROVE  DelugeOK(n1, x, mem1, s1)
<1>1. /\ x.op = c.op /\ x.todo = c.todo /\ x.marker = c.marker /\ x.read = c.read
      /\ Quiet(x) => Quiet(c)
  BY DEF Twin, Quiet
<1>2. Found(c, s, "add") => Found(x, s1, "add")
  BY AlterFinds
<1>3. Fresh(n1, x.todo) => Fresh(n, c.todo)
  BY <1>1 DEF Fresh
<1>4. ASSUME Quiet(x) PROVE SessionHolds(n, c.todo, mem, s) => SessionHolds(n1, x.todo, mem1, s1)
  BY <1>1, <1>3, <1>4 DEF SessionHolds
<1>5. ASSUME Quiet(x) PROVE LabelHolds(c, c.todo, mem, s) => LabelHolds(x, x.todo, mem1, s1)
  BY <1>1, <1>5 DEF LabelHolds, Label
<1>6. /\ Program(DelugeWords(c.op), DelugeLasts(c.op), c.todo)
      /\ c.todo[1].refused => c.todo[1].do # "login"
      /\ Quiet(c) => /\ c.todo[1].refused => ~Fresh(n, c.todo)
                     /\ SessionHolds(n, c.todo, mem, s)
                     /\ LabelHolds(c, c.todo, mem, s)
                     /\ Found(c, s, "add")
  BY DelugeParts
<1>7. ASSUME Quiet(x)
      PROVE  /\ x.todo[1].refused => ~Fresh(n1, x.todo)
             /\ SessionHolds(n1, x.todo, mem1, s1)
             /\ LabelHolds(x, x.todo, mem1, s1)
             /\ Found(x, s1, "add")
  BY <1>1, <1>2, <1>3, <1>4, <1>5, <1>6, <1>7
<1> QED BY <1>1, <1>6, <1>7, DelugeParts

\* A call stays in good order while the world changes around it, or the change is noted.
LEMMA Stands ==
  ASSUME kind \in {"deluge", "qbittorrent", "transmission", "sabnzbd"},
         NEW n, NEW n1, n1 = 0 => n = 0, NEW c, NEW x, Twin(c, x),
         NEW mem, NEW mem1, NEW s, NEW s1, Alter(x, s, s1), Holds(n, c, mem, s),
         Quiet(x) => x.sent = c.sent,
         kind = "deluge" /\ Quiet(x) =>
           /\ mem1.session \in {mem.session, "good", "none"}
           /\ ~(mem.session = "good" /\ mem1.session = "none")
           /\ mem1.connected => mem.connected \/ s1.attached
           /\ mem1.labelReady => mem.labelReady \/ s1.plugin
           /\ s.attached => s1.attached
           /\ s.plugin => s1.plugin
           /\ s.labels \subseteq s1.labels
  PROVE  Holds(n1, x, mem1, s1)
<1>1. /\ x.op = c.op /\ x.todo = c.todo /\ (Quiet(x) => Quiet(c))
  BY DEF Twin, Quiet
<1>2. CallOK(n, c, mem, s)
  BY DEF Holds
<1>3. CallOK(n1, x, mem1, s1)
  <2>1. CASE kind = "deluge"
    <3>1. DelugeOK(n, c, mem, s)
      BY <1>2, <2>1 DEF CallOK
    <3>2. DelugeOK(n1, x, mem1, s1)
      BY <2>1, <3>1, DelugeStands
    <3> QED BY <2>1, <3>2 DEF CallOK
  <2>2. CASE kind = "qbittorrent"
    BY <1>2, <2>2, OthersStand DEF CallOK
  <2>3. CASE kind = "transmission"
    BY <1>2, <2>3, OthersStand DEF CallOK
  <2>4. CASE kind = "sabnzbd"
    BY <1>2, <2>4, SabnzbdStands DEF CallOK
  <2> QED BY <2>1, <2>2, <2>3, <2>4
<1>4. Fresh(n1, x.todo) => Fresh(n, c.todo)
  BY <1>1 DEF Fresh
<1>5. Bound(n1, x)
  BY <1>1, <1>4 DEF Bound, Holds
<1> QED BY <1>1, <1>3, <1>5 DEF Holds

-----------------------------------------------------------------------------
\* A call that goes on is in good order; of one that has ended there is nothing
\* to do, and what it answered is true of it.
CallHolds(n, d, mem, s) ==
  /\ d \in Calling
  /\ d.state = "running" => Holds(n, d, mem, s)
  /\ d.state # "running" => d.todo = <<>>
  /\ d.state \in Errors => Faulted(d)
  /\ d.state = "ok" => d.done \/ Silent(d)

\* A call that never was.
LEMMA NoneIs ==
  /\ None \in Calling /\ None.todo = <<>> /\ None.state = "ok" /\ None.done /\ None.op = "none"
BY NoStep DEF None, Ask, Calling, Reading, Marker

Settling(n, e, d, mem, s) ==
  /\ CallHolds(n, d, mem, s)
  /\ d.state = "running" => d = e
  /\ d.op \in {e.op, "none"}
  /\ d.state # "running" /\ kind = "deluge" /\ e.op = "submit" => s.job.markers # {} \/ Faulted(e)

\* A call that has come to a request, or to its end, is as the invariant says.
LEMMA Settles ==
  ASSUME kind \in {"deluge", "qbittorrent", "transmission", "sabnzbd"}, NEW n \in Nat, NEW e, NEW mem \in Client, NEW s \in Service,
         Passes(n, e, mem, s), Still(e), e.sent = mem.session, NEW d, d = Settled(e)
  PROVE  Settling(n, e, d, mem, s)
<1>1. /\ e \in Calling /\ e.op \in Op
      /\ e.todo # <<>> => e.state = "running" /\ CallOK(n, e, mem, s) /\ Starts(e, mem)
      /\ e.todo = <<>> => Ended(e, s, e.done)
  BY DEF Passes, Arrives
<1>2. CASE e.todo # <<>>
  <2>1. d = e
    BY <1>2 DEF Settled
  <2>2. e.state = "running" /\ CallOK(n, e, mem, s) /\ Starts(e, mem) /\ e.todo[1].do \notin Local
    BY <1>1, <1>2 DEF Still
  <2>3. kind = "deluge" /\ Quiet(e) => SessionHolds(n, e.todo, mem, s)
    <3>1. kind = "deluge" => DelugeOK(n, e, mem, s)
      BY <2>2 DEF CallOK
    <3>2. DelugeOK(n, e, mem, s) => (Quiet(e) => SessionHolds(n, e.todo, mem, s))
      BY DelugeParts
    <3> QED BY <3>1, <3>2, Zenon
  <2>4. Bound(n, e)
    <3>1. kind = "deluge" /\ Quiet(e) /\ Fresh(n, e.todo) /\ e.todo[1].do # "login" => e.sent = "good"
      BY <2>2, <2>3 DEF SessionHolds
    <3>2. /\ kind = "qbittorrent" /\ e.todo[1].again => e.sent # "stale"
          /\ kind = "transmission" /\ e.todo[1].again => e.sent = "good"
      BY <2>2 DEF Starts
    <3> QED BY <3>1, <3>2 DEF Bound
  <2>5. Holds(n, e, mem, s)
    BY <1>1, <1>2, <2>2, <2>4 DEF Holds
  <2> QED BY <1>1, <2>1, <2>2, <2>5 DEF Settling, CallHolds, Errors
<1>3. CASE e.todo = <<>> /\ e.state # "running"
  <2>1. d = [None EXCEPT !.state = e.state, !.disturbed = e.disturbed, !.crossed = e.crossed,
                         !.robbed = e.robbed]
    BY <1>3 DEF Settled
  <2>2. e.state \in Errors /\ Faulted(e)
    BY <1>1, <1>3 DEF Ended
  <2>3. /\ d \in Calling /\ d.state = e.state /\ d.todo = <<>> /\ d.op = "none"
        /\ d.disturbed = e.disturbed /\ d.crossed = e.crossed /\ d.robbed = e.robbed
    <3>1. /\ e.disturbed \in BOOLEAN /\ e.crossed \in BOOLEAN /\ e.robbed \in BOOLEAN
          /\ e.state \in {"running", "ok", "unreachable", "unexpected_response", "authentication"}
      BY <1>1 DEF Calling
    <3>2. PICK o : o = None
      OBVIOUS
    <3>3. o \in Calling /\ o.todo = <<>> /\ o.op = "none"
      BY <3>2, NoneIs
    <3>4. d = [o EXCEPT !.state = e.state, !.disturbed = e.disturbed, !.crossed = e.crossed, !.robbed = e.robbed]
      BY <2>1, <3>2, Zenon
    <3> QED BY <3>1, <3>3, <3>4 DEF Calling
  <2>4. d.state # "running" /\ d.state # "ok" /\ Faulted(d)
    BY <2>2, <2>3 DEF Errors, Faulted
  <2> QED BY <2>2, <2>3, <2>4 DEF Settling, CallHolds
<1>4. CASE e.todo = <<>> /\ e.state = "running" /\ e.done
  <2>1. d = None
    BY <1>4 DEF Settled
  <2>2. kind = "deluge" /\ e.op = "submit" => s.job.markers # {}
    BY <1>1, <1>4 DEF Ended, Errors
  <2> QED BY <2>1, <2>2, NoneIs DEF Settling, CallHolds, Errors
<1>5. CASE e.todo = <<>> /\ e.state = "running" /\ ~e.done
  <2>1. d = [e EXCEPT !.state = "ok", !.disturbed = FALSE, !.robbed = FALSE,
                      !.marker = "none", !.files = {}, !.sent = "none"]
    BY <1>5 DEF Settled
  <2>2. /\ Silent(e)
        /\ kind = "deluge" /\ e.op = "submit" => s.job.markers # {}
    BY <1>1, <1>5 DEF Ended, Errors
  <2>3. /\ d \in Calling /\ d.state = "ok" /\ d.todo = <<>> /\ d.op = e.op
        /\ d.crossed = e.crossed /\ d.read = e.read /\ d.want = e.want
    BY <1>1, <1>5, <2>1 DEF Calling, Marker
  <2>4. Silent(d)
    BY <2>2, <2>3 DEF Silent
  <2> QED BY <2>2, <2>3, <2>4 DEF Settling, CallHolds, Errors
<1> QED BY <1>1, <1>2, <1>3, <1>4, <1>5 DEF Calling
-----------------------------------------------------------------------------
\* What the steps of one call do to another that is under way.
Seen(d, x, mem, mem1, s, s1) ==
  x = [d EXCEPT !.crossed = @ \/ s1.job.there # s.job.there,
                !.robbed = @ \/ (mem.session = "good" /\ mem1.session = "none")]

\* Only two notes of a call change when another acts.
LEMMA SeenIs ==
  ASSUME NEW d \in Calling, NEW x, NEW mem, NEW mem1, NEW s, NEW s1, Seen(d, x, mem, mem1, s, s1)
  PROVE  /\ Twin(d, x) /\ x.sent = d.sent /\ x.disturbed = d.disturbed
         /\ x.crossed <=> d.crossed \/ s1.job.there # s.job.there
         /\ x.robbed <=> d.robbed \/ (mem.session = "good" /\ mem1.session = "none")
<1>1. PICK a \in BOOLEAN, b \in BOOLEAN : /\ a <=> d.crossed \/ s1.job.there # s.job.there
                                          /\ b <=> d.robbed \/ (mem.session = "good" /\ mem1.session = "none")
  OBVIOUS
<1>2. x = [d EXCEPT !.crossed = a, !.robbed = b]
  <2>1. /\ a = (d.crossed \/ s1.job.there # s.job.there)
        /\ b = (d.robbed \/ (mem.session = "good" /\ mem1.session = "none"))
    BY <1>1 DEF Calling
  <2> QED BY <2>1 DEF Seen
<1>3. /\ x \in Calling /\ x.op = d.op /\ x.marker = d.marker /\ x.read = d.read /\ x.todo = d.todo /\ x.want = d.want
      /\ x.state = d.state /\ x.done = d.done /\ x.sent = d.sent /\ x.disturbed = d.disturbed
      /\ x.crossed = a /\ x.robbed = b
  BY <1>2 DEF Calling
<1> QED BY <1>1, <1>3 DEF Twin

\* The steps of one call leave another in good order.
LEMMA OtherHolds ==
  ASSUME kind \in {"deluge", "qbittorrent", "transmission", "sabnzbd"},
         NEW n, NEW n1, n1 = 0 => n = 0, NEW d, NEW x, NEW mem, NEW mem1, NEW s, NEW s1,
         CallHolds(n, d, mem, s), d.state = "running", Seen(d, x, mem, mem1, s, s1),
         NEW c, Effects(c, mem, mem1, s, s1)
  PROVE  CallHolds(n1, x, mem1, s1)
<1>1. d \in Calling /\ Holds(n, d, mem, s)
  BY DEF CallHolds
<1>2. /\ Twin(d, x) /\ x.sent = d.sent /\ x.disturbed = d.disturbed
      /\ x.crossed <=> d.crossed \/ s1.job.there # s.job.there
      /\ x.robbed <=> d.robbed \/ (mem.session = "good" /\ mem1.session = "none")
  BY <1>1, SeenIs
<1>3. Alter(x, s, s1)
  BY <1>2 DEF Alter, Effects
<1>4. kind = "deluge" /\ Quiet(x) =>
           /\ mem1.session \in {mem.session, "good", "none"}
           /\ ~(mem.session = "good" /\ mem1.session = "none")
           /\ mem1.connected => mem.connected \/ s1.attached
           /\ mem1.labelReady => mem.labelReady \/ s1.plugin
           /\ s.attached => s1.attached
           /\ s.plugin => s1.plugin
           /\ s.labels \subseteq s1.labels
  BY <1>2 DEF Effects, Quiet
<1>5. Holds(n1, x, mem1, s1)
  BY <1>1, <1>2, <1>3, <1>4, Stands
<1>6. x \in Calling /\ x.state = "running"
  BY <1>2 DEF Twin
<1> QED BY <1>5, <1>6 DEF CallHolds, Errors

-----------------------------------------------------------------------------
\* The inductive invariant: every call is in good order; only the holder of the
\* lock changes the job; nothing crosses it; without troubles Deluge's session,
\* daemon and plugin are what its client takes them for; and a job of ours
\* without a marker is a Deluge submit's, at work or cut short.
Calm == /\ client.session # "stale"
        /\ client.connected => service.attached
        /\ client.labelReady => service.plugin
        /\ \A p \in Proc : Running(p) => Quiet(call[p])
Unmarked(s) == s.job.ours /\ s.job.markers = {}
Submitting == Running(Locked) /\ call[Locked].op = "submit"

AdapterInv ==
  /\ AdapterTypeOK
  /\ \A p \in Proc : CallHolds(troubles, call[p], client, service)
  /\ \A p \in Proc : p # Locked => call[p].op \in {"run", "look", "none"}
  /\ kind = "deluge" /\ Running(Locked) => ~call[Locked].crossed
  /\ kind = "deluge" /\ troubles = 0 => Calm
  /\ Unmarked(service) => kind = "deluge" /\ (troubles > 0 \/ Submitting)

\* The four kinds of backend.
LEMMA KindIs == kind \in Kind => kind \in {"deluge", "qbittorrent", "transmission", "sabnzbd"}
BY WireAssumption

\* The calls after the steps of p.
Beside(p, e, c, m1, s1) ==
  /\ call' \in [Proc -> Calling]
  /\ call'[p] = e
  /\ \A q \in Proc : q # p =>
       /\ Running(q) => Seen(call[q], call'[q], client, m1, service, s1)
       /\ ~Running(q) => call'[q] = call[q]

\* What a step of p shows of its call c for Leave to keep the invariant.
Acts(p, c, m1, s1) ==
  /\ Passes(troubles', After(c, s1), m1, s1)
  /\ Effects(c, client, m1, service, s1)
  /\ c \in Calling
  /\ p # Locked => c.op \in {"run", "look"}
  /\ Running(p) => c.op = call[p].op
  /\ kind = "deluge" /\ p = Locked => ~c.crossed
  /\ kind = "deluge" /\ troubles' = 0 => /\ Quiet(c)
                                         /\ ~(client.session = "good" /\ m1.session = "none")

\* What a step leaves: the acting call settled, the others with their notes.
LEMMA Left ==
  ASSUME AdapterInv, NEW p \in Proc, NEW c, NEW m1, NEW s1, Leave(p, c, m1, s1), Acts(p, c, m1, s1),
         troubles' \in Nat, troubles' = 0 => troubles = 0
  PROVE  /\ client' = m1 /\ service' = s1 /\ kind' = kind
         /\ \E e : Settling(troubles', Ready(After(c, s1), m1), e, m1, s1) /\ Beside(p, e, c, m1, s1)
<1>1. /\ client' = m1 /\ service' = s1 /\ kind' = kind
      /\ m1 \in Client /\ s1 \in Service
      /\ kind \in {"deluge", "qbittorrent", "transmission", "sabnzbd"}
  BY KindIs DEF Leave, Acts, Effects, AdapterInv, AdapterTypeOK
<1>2. PICK d : d = Ready(After(c, s1), m1)
  OBVIOUS
<1>3. Passes(troubles', d, m1, s1) /\ Still(d) /\ d.sent = m1.session
  BY <1>1, <1>2, Readied DEF Acts
<1>4. PICK e : e = Settled(d)
  OBVIOUS
<1>5. Settling(troubles', d, e, m1, s1)
  BY <1>1, <1>3, <1>4, Settles
<1>6. call' = [q \in Proc |-> IF q = p THEN e
                 ELSE IF Running(q) THEN
                   [call[q] EXCEPT !.crossed = @ \/ s1.job.there # service.job.there,
                                   !.robbed = @ \/ (client.session = "good" /\ m1.session = "none")]
                 ELSE call[q]]
  BY <1>2, <1>4 DEF Leave, After
<1>7. \A q \in Proc : q # p => /\ Running(q) => Seen(call[q], call'[q], client, m1, service, s1)
                               /\ ~Running(q) => call'[q] = call[q]
  BY <1>6 DEF Seen
<1>8. call'[p] = e
  BY <1>6
<1>9. ASSUME NEW q \in Proc PROVE call'[q] \in Calling
  <2>1. CASE q = p
    BY <1>5, <1>8, <2>1 DEF Settling, CallHolds
  <2>2. CASE q # p /\ Running(q)
    <3>1. call[q] \in Calling
      BY DEF AdapterInv, AdapterTypeOK
    <3> QED BY <1>7, <2>2, <3>1, SeenIs DEF Twin
  <2>3. CASE q # p /\ ~Running(q)
    BY <1>7, <2>3 DEF AdapterInv, AdapterTypeOK
  <2> QED BY <2>1, <2>2, <2>3
<1>10. call' = [r \in Proc |-> call'[r]]
  BY <1>6
<1>11. call' \in [Proc -> Calling]
  BY <1>9, <1>10
<1>12. Beside(p, e, c, m1, s1)
  BY <1>7, <1>8, <1>11 DEF Beside
<1> QED BY <1>1, <1>2, <1>5, <1>12

\* What is said of the calls now is said of them next, of the same kind of backend.
LEMMA SameKind ==
  ASSUME kind \in {"deluge", "qbittorrent", "transmission", "sabnzbd"}, kind' = kind, NEW q,
         CallHolds(troubles', call'[q], client', service')
  PROVE  CallHolds(troubles, call[q], client, service)'
<1>1. /\ Quiet(call[q])' <=> Quiet(call'[q])
      /\ Faulted(call[q])' <=> Faulted(call'[q])
      /\ Silent(call[q])' <=> Silent(call'[q])
  BY DEF Quiet, Faulted, Silent
<1>2. DelugeOK(troubles, call[q], client, service)' <=> DelugeOK(troubles', call'[q], client', service')
  BY <1>1 DEF DelugeOK
<1>3. /\ QBittorrentOK(call[q], service)' <=> QBittorrentOK(call'[q], service')
      /\ TransmissionOK(call[q], service)' <=> TransmissionOK(call'[q], service')
      /\ SabnzbdOK(call[q], service)' <=> SabnzbdOK(call'[q], service')
  BY <1>1 DEF QBittorrentOK, TransmissionOK, SabnzbdOK
<1>4. CallOK(troubles, call[q], client, service)' <=> CallOK(troubles', call'[q], client', service')
  <2>1. CASE kind = "deluge"
    BY <1>2, <2>1 DEF CallOK
  <2>2. CASE kind = "qbittorrent"
    BY <1>3, <2>2 DEF CallOK
  <2>3. CASE kind = "transmission"
    BY <1>3, <2>3 DEF CallOK
  <2>4. CASE kind = "sabnzbd"
    BY <1>3, <2>4 DEF CallOK
  <2> QED BY <2>1, <2>2, <2>3, <2>4
<1>5. Bound(troubles, call[q])' <=> Bound(troubles', call'[q])
  BY <1>1 DEF Bound
<1>6. Holds(troubles, call[q], client, service)' <=> Holds(troubles', call'[q], client', service')
  BY <1>4, <1>5 DEF Holds
<1> QED BY <1>1, <1>6 DEF CallHolds

\* A step of a call that acts as it should keeps the invariant.
LEMMA Acted ==
  ASSUME AdapterInv, NEW p \in Proc, NEW c, NEW m1, NEW s1, Leave(p, c, m1, s1), Acts(p, c, m1, s1),
         troubles' \in Nat, troubles' = 0 => troubles = 0
  PROVE  AdapterInv'
<1>1. /\ client' = m1 /\ service' = s1 /\ kind' = kind
      /\ m1 \in Client /\ s1 \in Service
      /\ kind \in {"deluge", "qbittorrent", "transmission", "sabnzbd"}
      /\ Effects(c, client, m1, service, s1)
  BY Left, KindIs DEF Acts, Effects, AdapterInv, AdapterTypeOK
<1>2. PICK d : d = Ready(After(c, s1), m1)
  OBVIOUS
<1>3. PICK e : Settling(troubles', d, e, m1, s1) /\ Beside(p, e, c, m1, s1)
  BY <1>2, Left
<1>4. /\ call' \in [Proc -> Calling] /\ call'[p] = e
      /\ \A q \in Proc : q # p =>
           /\ Running(q) => Seen(call[q], call'[q], client, m1, service, s1)
           /\ ~Running(q) => call'[q] = call[q]
  BY <1>3 DEF Beside
<1>5. ASSUME NEW q \in Proc, q # p, Running(q)
      PROVE  /\ call'[q].state = "running" /\ call'[q].op = call[q].op /\ call'[q].disturbed = call[q].disturbed
             /\ call'[q].crossed <=> call[q].crossed \/ s1.job.there # service.job.there
             /\ call'[q].robbed <=> call[q].robbed \/ (client.session = "good" /\ m1.session = "none")
  <2>1. call[q] \in Calling /\ call[q].state = "running"
    BY <1>5 DEF AdapterInv, AdapterTypeOK, Running
  <2> QED BY <1>4, <1>5, <2>1, SeenIs DEF Twin
<1>6. /\ Keeps(After(c, s1), d)
      /\ d.op = c.op /\ d.crossed = c.crossed /\ d.disturbed = c.disturbed /\ d.robbed = c.robbed
  <2>1. Keeps(After(c, s1), d)
    BY <1>1, <1>2, Readied DEF Acts
  <2> QED BY <2>1, AfterIs DEF Keeps, Acts
<1>7. AdapterTypeOK'
  BY <1>1, <1>4 DEF AdapterTypeOK, AdapterInv
<1>8. ASSUME NEW q \in Proc
      PROVE  CallHolds(troubles', call'[q], m1, s1)
  <2>1. CASE q = p
    BY <1>3, <1>4, <2>1 DEF Settling
  <2>2. CASE q # p /\ Running(q)
    <3>1. CallHolds(troubles, call[q], client, service) /\ call[q].state = "running"
      BY <2>2 DEF AdapterInv, Running
    <3>2. PICK x, y, f : x = call[q] /\ y = call'[q] /\ f = c
      OBVIOUS
    <3>3. CallHolds(troubles, x, client, service) /\ x.state = "running" /\ Seen(x, y, client, m1, service, s1)
      BY <1>4, <2>2, <3>1, <3>2
    <3>4. CallHolds(troubles', y, m1, s1)
      BY <1>1, <3>3, OtherHolds
    <3> QED BY <3>2, <3>4
  <2>3. CASE q # p /\ ~Running(q)
    <3>1. call'[q] = call[q] /\ call[q].state # "running" /\ CallHolds(troubles, call[q], client, service)
      BY <1>4, <2>3 DEF AdapterInv, Running
    <3> QED BY <3>1 DEF CallHolds
  <2> QED BY <2>1, <2>2, <2>3
<1>9. ASSUME NEW q \in Proc, q # Locked
      PROVE  call'[q].op \in {"run", "look", "none"}
  <2>1. CASE q = p
    BY <1>3, <1>4, <1>6, <1>9, <2>1 DEF Settling, Acts
  <2>2. CASE q # p
    BY <1>4, <1>5, <1>9, <2>2 DEF AdapterInv
  <2> QED BY <2>1, <2>2
<1>10. e.state = "running" => e = d
  BY <1>3 DEF Settling
<1>11. p # Locked => s1.job.there = service.job.there
  BY <1>1 DEF Effects, Acts
<1>12. ASSUME kind = "deluge", call'[Locked].state = "running"
       PROVE  ~call'[Locked].crossed
  <2>1. CASE p = Locked
    BY <1>4, <1>6, <1>10, <1>12, <2>1 DEF Acts
  <2>2. CASE p # Locked
    <3>1. Running(Locked) /\ Locked \in Proc
      BY <1>4, <1>12, <2>2, WireAssumption DEF Running
    <3>2. ~call[Locked].crossed
      BY <1>12, <3>1 DEF AdapterInv
    <3> QED BY <1>5, <1>11, <2>2, <3>1, <3>2
  <2> QED BY <2>1, <2>2
<1>13. ASSUME kind = "deluge", troubles' = 0
       PROVE  Calm'
  <2>1. /\ troubles = 0 /\ Quiet(c)
        /\ ~(client.session = "good" /\ m1.session = "none")
    BY <1>13 DEF Acts
  <2>2. /\ client.session # "stale"
        /\ client.connected => service.attached
        /\ client.labelReady => service.plugin
        /\ \A q \in Proc : Running(q) => Quiet(call[q])
    BY <1>13, <2>1 DEF AdapterInv, Calm
  <2>3. /\ m1.session # "stale"
        /\ m1.connected => s1.attached
        /\ m1.labelReady => s1.plugin
    BY <1>1, <2>2 DEF Effects
  <2>4. ASSUME NEW q \in Proc, call'[q].state = "running"
        PROVE  ~call'[q].disturbed /\ ~call'[q].robbed
    <3>1. CASE q = p
      BY <1>4, <1>6, <1>10, <1>13, <2>1, <2>4, <3>1 DEF Quiet
    <3>2. CASE q # p
      <4>1. Running(q)
        BY <1>4, <2>4, <3>2 DEF Running
      <4> QED BY <1>5, <1>13, <2>1, <2>2, <3>2, <4>1 DEF Quiet
    <3> QED BY <3>1, <3>2
  <2>5. /\ client'.session # "stale"
        /\ client'.connected => service'.attached
        /\ client'.labelReady => service'.plugin
    BY <1>1, <2>3
  <2>6. \A q \in Proc : Running(q)' => Quiet(call[q])'
    BY <2>4 DEF Running, Quiet
  <2> QED BY <2>5, <2>6 DEF Calm
<1>14. ASSUME Unmarked(s1)
       PROVE  kind = "deluge" /\ (troubles' > 0 \/ (call'[Locked].state = "running" /\ call'[Locked].op = "submit"))
  <2>1. Unmarked(service) \/ (kind = "deluge" /\ c.op = "submit")
    BY <1>1, <1>14 DEF Effects, Unmarked
  <2>2. Unmarked(service) => kind = "deluge" /\ (troubles > 0 \/ Submitting)
    BY DEF AdapterInv
  <2>3. troubles \in Nat /\ (troubles > 0 => troubles' > 0) /\ (troubles' # 0 => troubles' > 0)
    BY DEF AdapterInv, AdapterTypeOK
  <2>4. CASE kind = "deluge" /\ c.op = "submit" /\ p = Locked
    <3>1. CASE e.state = "running"
      BY <1>4, <1>6, <1>10, <2>4, <3>1
    <3>2. CASE e.state # "running"
      <4>1. s1.job.markers # {} \/ Faulted(d)
        BY <1>3, <1>6, <2>4, <3>2 DEF Settling
      <4>2. ~Quiet(c)
        BY <1>6, <1>14, <2>4, <4>1 DEF Faulted, Unmarked, Quiet, Acts
      <4>3. troubles' # 0
        BY <2>4, <4>2 DEF Acts
      <4> QED BY <2>3, <2>4, <4>3
    <3> QED BY <3>1, <3>2
  <2>5. CASE c.op = "submit" /\ p # Locked
    BY <2>5 DEF Acts
  <2>6. CASE c.op # "submit"
    <3>1. kind = "deluge" /\ (troubles > 0 \/ Submitting)
      BY <2>1, <2>2, <2>6
    <3>2. ASSUME Submitting PROVE call'[Locked].state = "running" /\ call'[Locked].op = "submit"
      <4>1. p # Locked /\ Running(Locked) /\ call[Locked].op = "submit" /\ Locked \in Proc
        BY <2>6, <3>2, WireAssumption DEF Submitting, Acts
      <4> QED BY <1>5, <4>1
    <3> QED BY <2>3, <3>1, <3>2
  <2> QED BY <2>1, <2>2, <2>4, <2>5, <2>6
<1>15. ASSUME NEW q \in Proc PROVE CallHolds(troubles, call[q], client, service)'
  BY <1>1, <1>8, SameKind
<1>16. Unmarked(service)' => (kind = "deluge" /\ (troubles > 0 \/ Submitting))'
  BY <1>1, <1>14 DEF Unmarked, Submitting, Running
<1> QED BY <1>1, <1>7, <1>9, <1>12, <1>13, <1>15, <1>16 DEF AdapterInv, Running

-----------------------------------------------------------------------------
Fresher(c) == /\ c \in Calling /\ c.state = "running"
              /\ ~c.crossed /\ ~c.robbed /\ ~c.disturbed
              /\ c.read.place = "nowhere" /\ c.read.markers = {}

\* A call that is asked for has not begun.
LEMMA AskIs ==
  ASSUME NEW op \in Op, NEW marker \in Marker, NEW files \in SUBSET File, NEW want \in BOOLEAN, NEW magnet \in BOOLEAN
  PROVE  /\ Fresher(Ask(op, marker, files, want, magnet))
         /\ Ask(op, marker, files, want, magnet).op = op
BY NoStep DEF Ask, Calling, Reading, Fresher

\* Only the holder of the lock asks for more than a pause or a look.
LEMMA AsksAre ==
  ASSUME NEW p, NEW c \in Asks(p)
  PROVE  /\ c \in Calling /\ c.op \in Op /\ c.state = "running"
         /\ ~c.crossed /\ ~c.robbed /\ ~c.disturbed
         /\ c.read.place = "nowhere" /\ c.read.markers = {}
         /\ p # Locked => c.op \in {"run", "look"}
<1>1. \E op \in Op, marker \in Marker, files \in SUBSET File, want \in BOOLEAN, magnet \in BOOLEAN :
        c = Ask(op, marker, files, want, magnet) /\ (p # Locked => op \in {"run", "look"})
  <2>1. CASE p # Locked
    <3>1. PICK op \in {"run", "look"} : c = Ask(op, "none", {}, FALSE, FALSE)
      BY <2>1 DEF Asks
    <3> QED BY <2>1, <3>1 DEF Op, Marker
  <2>2. CASE p = Locked
    <3>1. c \in Submits \/ c \in Marks \/ c \in Selects \/ c = Ask("remove", "none", {}, FALSE, FALSE)
      <4>1. c \in Writes
        BY <2>2 DEF Asks
      <4> QED BY <4>1 DEF Writes
    <3>6. {"submit", "mark", "select", "remove"} \subseteq Op /\ {"none", Issued, Adopted} \subseteq Marker
      BY DEF Op, Marker
    <3>7. CASE c \in Submits
      <4>1. PICK g \in BOOLEAN : c = Ask("submit", Issued, {}, TRUE, g)
        BY <3>7 DEF Submits
      <4>2. "submit" \in Op /\ Issued \in Marker /\ {} \in SUBSET File /\ TRUE \in BOOLEAN
        BY <3>6
      <4> QED BY <2>2, <4>1, <4>2, Zenon
    <3>8. CASE c \in Marks
      <4>1. PICK m \in {Issued, Adopted} : c = Ask("mark", m, {}, FALSE, FALSE)
        BY <3>8 DEF Marks
      <4>2. "mark" \in Op /\ m \in Marker /\ {} \in SUBSET File /\ FALSE \in BOOLEAN
        BY <3>6
      <4> QED BY <2>2, <4>1, <4>2, Zenon
    <3>9. CASE c \in Selects
      <4>1. PICK f \in File, w \in BOOLEAN : c = Ask("select", "none", {f}, w, FALSE)
        BY <3>9 DEF Selects
      <4>2. "select" \in Op /\ "none" \in Marker /\ {f} \in SUBSET File /\ FALSE \in BOOLEAN
        BY <3>6
      <4> QED BY <2>2, <4>1, <4>2, Zenon
    <3>10. CASE c = Ask("remove", "none", {}, FALSE, FALSE)
      <4>1. "remove" \in Op /\ "none" \in Marker /\ {} \in SUBSET File /\ FALSE \in BOOLEAN
        BY <3>6
      <4> QED BY <2>2, <3>10, <4>1, Zenon
    <3> QED BY <3>1, <3>7, <3>8, <3>9, <3>10
  <2> QED BY <2>1, <2>2
<1>2. PICK op \in Op, marker \in Marker, files \in SUBSET File, want \in BOOLEAN, magnet \in BOOLEAN :
        c = Ask(op, marker, files, want, magnet) /\ (p # Locked => op \in {"run", "look"})
  BY <1>1
<1>3. Fresher(c) /\ c.op = op
  BY <1>2, AskIs
<1> QED BY <1>2, <1>3 DEF Fresher

\* The steps of an operation are lines.
LEMMA TodosAreLines ==
  ASSUME NEW c, c.op \in Op, NEW first \in {"queue", "history"}
  PROVE  /\ QBittorrentTodo(c) \in Seq(Line)
         /\ TransmissionTodo(c) \in Seq(Line)
         /\ SabnzbdTodo(c, first) \in Seq(Line)
<1>1. \A w \in Word : S(w) \in Line
  BY StepIsLine
<1>2. \A v, w \in Word : <<S(w)>> \in Seq(Line) /\ <<S(v), S(w)>> \in Seq(Line)
  BY <1>1, OneStep, TwoSteps
<1>3. QBittorrentTodo(c) \in Seq(Line)
  <2>1. /\ <<S("torrents/add")>> \in Seq(Line) /\ <<S("addTags")>> \in Seq(Line) /\ <<S("filePrio")>> \in Seq(Line)
        /\ <<S("version"), S("start-stop")>> \in Seq(Line) /\ <<S("delete")>> \in Seq(Line) /\ <<S("info")>> \in Seq(Line)
    BY <1>2 DEF Word
  <2> QED BY <2>1 DEF QBittorrentTodo, Op
<1>4. TransmissionTodo(c) \in Seq(Line)
  <2>1. /\ <<S("torrent-add"), S("set-labels")>> \in Seq(Line) /\ <<S("get-labels"), S("set-labels")>> \in Seq(Line)
        /\ <<S("files-wanted")>> \in Seq(Line) /\ <<S("start-stop")>> \in Seq(Line)
        /\ <<S("torrent-remove")>> \in Seq(Line) /\ <<S("get-labels")>> \in Seq(Line)
    BY <1>2 DEF Word
  <2> QED BY <2>1 DEF TransmissionTodo, Op
<1>5. SabnzbdTodo(c, first) \in Seq(Line)
  <2>1. Jobs(first) \in Seq(Line)
    BY JobsAre DEF Begins
  <2>2. /\ <<S("existing"), S("addfile")>> \in Seq(Line) /\ <<S("markable"), S("change_cat")>> \in Seq(Line)
        /\ <<S("inQueue"), S("delete_nzf")>> \in Seq(Line) /\ <<S("inQueue"), S("pause-resume")>> \in Seq(Line)
        /\ <<S("found"), S("delete")>> \in Seq(Line) /\ <<S("look")>> \in Seq(Line)
    BY <1>2 DEF Word
  <2>3. \A u \in Seq(Line) : Jobs(first) \o u \in Seq(Line)
    BY <2>1, ConcatProperties
  <2> QED BY <2>1, <2>2, <2>3 DEF SabnzbdTodo, Op
<1> QED BY <1>3, <1>4, <1>5

\* They depend on the operation, a magnet and what is wanted.
LEMMA TodosAgree ==
  ASSUME NEW c, NEW x, x.op = c.op, x.magnet = c.magnet, x.want = c.want, NEW first
  PROVE  /\ QBittorrentTodo(x) = QBittorrentTodo(c) /\ TransmissionTodo(x) = TransmissionTodo(c)
         /\ DelugeTodo(x) = DelugeTodo(c) /\ SabnzbdTodo(x, first) = SabnzbdTodo(c, first)
BY DEF QBittorrentTodo, TransmissionTodo, DelugeTodo, SabnzbdTodo

\* A call begins.
LEMMA Begun ==
  ASSUME AdapterInv, NEW p \in Proc, Begin(p)
  PROVE  AdapterInv'
<1>1. PICK c \in Asks(p), first \in {"queue", "history"} :
        /\ ~Running(p)
        /\ c.op # "look" => (c.op = "submit") = ~service.job.there
        /\ Leave(p, [c EXCEPT !.todo = Todo(c, first), !.disturbed = FlagIsStale], client, service)
        /\ troubles' = troubles
  BY DEF Begin
<1>2. /\ c \in Calling /\ c.op \in Op /\ c.state = "running"
      /\ ~c.crossed /\ ~c.robbed /\ ~c.disturbed
      /\ c.read.place = "nowhere" /\ c.read.markers = {}
      /\ p # Locked => c.op \in {"run", "look"}
  BY AsksAre
<1>3. /\ kind \in {"deluge", "qbittorrent", "transmission", "sabnzbd"}
      /\ client \in Client /\ service \in Service /\ troubles \in Nat
  BY KindIs DEF AdapterInv, AdapterTypeOK
<1>4. PICK a \in BOOLEAN : a = FlagIsStale
  BY DEF FlagIsStale
<1>5. PICK t : t = Todo(c, first)
  OBVIOUS
<1>6. PICK x : x = [c EXCEPT !.todo = t, !.disturbed = a]
  OBVIOUS
<1>7. /\ x.op = c.op /\ x.todo = t /\ x.state = "running" /\ x.read = c.read /\ x.marker = c.marker
      /\ x.crossed = c.crossed /\ x.robbed = c.robbed /\ x.disturbed = a /\ x.magnet = c.magnet /\ x.want = c.want
      /\ t \in Seq(Line) => x \in Calling
  BY <1>2, <1>6 DEF Calling
<1>8. c.op # "look" => ((c.op = "submit") <=> ~service.job.there)
  BY <1>1
<1>9. /\ QBittorrentTodo(x) = QBittorrentTodo(c) /\ TransmissionTodo(x) = TransmissionTodo(c)
      /\ DelugeTodo(x) = DelugeTodo(c) /\ SabnzbdTodo(x, first) = SabnzbdTodo(c, first)
  BY <1>7, TodosAgree
<1>10. x \in Calling /\ t # <<>> /\ CallOK(troubles, x, client, service) /\ Starts(x, client)
  <2>1. CASE kind = "deluge"
    <3>1. t = DelugeTodo(c)
      BY <1>5, <2>1 DEF Todo
    <3>2. x \in Calling
      BY <1>2, <1>7, <3>1, DelugeTodoIs DEF DelugeBegins, Begins
    <3>3. troubles = 0 => client.session # "stale" /\ (client.connected => service.attached)
      BY <2>1 DEF AdapterInv, Calm
    <3>4. Quiet(x) => (client.labelReady => service.plugin)
      BY <1>4, <1>7, <2>1 DEF Quiet, FlagIsStale
    <3>5. x.todo # <<>> /\ DelugeOK(troubles, x, client, service)
      BY <1>2, <1>3, <1>7, <1>8, <1>9, <2>1, <3>1, <3>2, <3>3, <3>4, DelugeBegun
    <3> QED BY <1>7, <2>1, <3>2, <3>5 DEF CallOK, Starts
  <2>2. CASE kind = "qbittorrent"
    <3>1. t = QBittorrentTodo(c)
      BY <1>5, <2>2 DEF Todo
    <3>2. t \in Seq(Line)
      BY <1>1, <1>2, <3>1, TodosAreLines
    <3>3. x.todo # <<>> /\ QBittorrentOK(x, service) /\ ~x.todo[1].again
      BY <1>2, <1>3, <1>7, <1>8, <1>9, <2>2, <3>1, <3>2, QBittorrentBegun
    <3> QED BY <1>7, <2>2, <3>2, <3>3 DEF CallOK, Starts
  <2>3. CASE kind = "transmission"
    <3>1. t = TransmissionTodo(c)
      BY <1>5, <2>3 DEF Todo
    <3>2. t \in Seq(Line)
      BY <1>1, <1>2, <3>1, TodosAreLines
    <3>3. x.todo # <<>> /\ TransmissionOK(x, service) /\ ~x.todo[1].again
      BY <1>2, <1>3, <1>7, <1>8, <1>9, <2>3, <3>1, <3>2, TransmissionBegun
    <3> QED BY <1>7, <2>3, <3>2, <3>3 DEF CallOK, Starts
  <2>4. CASE kind = "sabnzbd"
    <3>1. t = SabnzbdTodo(c, first)
      BY <1>5, <2>4 DEF Todo
    <3>2. t \in Seq(Line)
      BY <1>1, <1>2, <3>1, TodosAreLines
    <3>3. x.todo # <<>> /\ SabnzbdOK(x, service)
      BY <1>1, <1>2, <1>3, <1>7, <1>8, <1>9, <2>4, <3>1, <3>2, SabnzbdBegun
    <3> QED BY <1>7, <2>4, <3>2, <3>3 DEF CallOK, Starts
  <2> QED BY <1>3, <2>1, <2>2, <2>3, <2>4
<1>11. Effects(x, client, client, service, service)
  BY <1>3, Nothing
<1>12. Passes(troubles', After(x, service), client, service)
  <2>1. Arrives(troubles, x, client, service, x.done \/ Goal(x, service.job))
    BY <1>2, <1>7, <1>10 DEF Arrives
  <2> QED BY <1>1, <1>3, <2>1, Arrived
<1>13. kind = "deluge" /\ troubles' = 0 => Quiet(x)
  <2>1. kind = "deluge" /\ troubles = 0 => ~FlagIsStale
    BY DEF AdapterInv, Calm, FlagIsStale
  <2> QED BY <1>1, <1>2, <1>4, <1>7, <2>1 DEF Quiet
<1>14. Acts(p, x, client, service)
  BY <1>1, <1>2, <1>7, <1>10, <1>11, <1>12, <1>13 DEF Acts
<1>15. Leave(p, x, client, service)
  BY <1>1, <1>4, <1>5, <1>6
<1> QED BY <1>1, <1>3, <1>14, <1>15, Acted

-----------------------------------------------------------------------------
\* What the invariant says of a call at work.
Working(p, c) ==
  /\ c = call[p] /\ c \in Calling /\ c.op \in Op /\ c.state = "running" /\ c.todo # <<>>
  /\ CallOK(troubles, c, client, service) /\ c.todo[1].do \notin Local /\ Bound(troubles, c)
  /\ p # Locked => c.op \in {"run", "look"}
  /\ kind = "deluge" /\ c.crossed => c.op \in {"run", "look"}
  /\ kind = "deluge" /\ p = Locked => ~c.crossed
  /\ kind = "deluge" /\ troubles = 0 => Quiet(c)
  /\ Head(c.todo) = c.todo[1] /\ c.todo[1] \in Line

\* The invariant says so of every call at work.
LEMMA AtWork ==
  ASSUME AdapterInv, NEW p \in Proc, Running(p), NEW c, c = call[p]
  PROVE  Working(p, c)
<1>1. c \in Calling /\ c.state = "running" /\ Holds(troubles, c, client, service)
  BY DEF AdapterInv, CallHolds, Running
<1>2. c.op \in Op /\ c.todo # <<>> /\ CallOK(troubles, c, client, service) /\ c.todo[1].do \notin Local /\ Bound(troubles, c)
  BY <1>1 DEF Holds
<1>3. p # Locked => c.op \in {"run", "look"}
  BY <1>2 DEF AdapterInv, Op
<1>4. kind = "deluge" /\ p = Locked => ~c.crossed
  BY DEF AdapterInv
<1>5. kind = "deluge" /\ troubles = 0 => Quiet(c)
  BY DEF AdapterInv, Calm
<1>6. Head(c.todo) = c.todo[1] /\ c.todo[1] \in Line
  BY <1>1, <1>2, Lines
<1> QED BY <1>1, <1>2, <1>3, <1>4, <1>5, <1>6 DEF Working

\* The types that the steps need.
LEMMA Basics ==
  ASSUME AdapterInv
  PROVE  /\ kind \in {"deluge", "qbittorrent", "transmission", "sabnzbd"}
         /\ client \in Client /\ service \in Service /\ troubles \in Nat
BY KindIs DEF AdapterInv, AdapterTypeOK

\* Effects look at the operation alone.
LEMMA SameEffects ==
  ASSUME NEW c, NEW d, d.op = c.op, NEW mem, NEW mem1, NEW s, NEW s1, Effects(c, mem, mem1, s, s1)
  PROVE  Effects(d, mem, mem1, s, s1)
BY DEF Effects

\* A request is served and answered.
LEMMA Exchanged ==
  ASSUME AdapterInv, NEW p \in Proc, Exchange(p)
  PROVE  AdapterInv'
<1>1. PICK c, d, m1, s1 : c = call[p] /\ d = Takes(c).call /\ m1 = Takes(c).mem /\ s1 = Serves(c)
  OBVIOUS
<1>2. Running(p) /\ Leave(p, d, m1, s1) /\ troubles' = troubles
  BY <1>1 DEF Exchange, Sent
<1>3. Working(p, c)
  BY <1>1, <1>2, AtWork
<1>4. /\ c \in Calling /\ c.op \in Op /\ c.state = "running" /\ c.todo # <<>>
      /\ CallOK(troubles, c, client, service) /\ c.todo[1].do \notin Local
      /\ p # Locked => c.op \in {"run", "look"}
      /\ kind = "deluge" /\ c.crossed => c.op \in {"run", "look"}
      /\ kind = "deluge" /\ p = Locked => ~c.crossed
      /\ kind = "deluge" /\ troubles = 0 => Quiet(c)
  BY <1>3 DEF Working
<1>5. /\ kind \in {"deluge", "qbittorrent", "transmission", "sabnzbd"}
      /\ client \in Client /\ service \in Service /\ troubles \in Nat
  BY Basics
<1>6. /\ Passes(troubles, After(d, s1), m1, s1) /\ Effects(c, client, m1, service, s1) /\ Keeps(c, d) /\ d \in Calling
      /\ kind = "deluge" => ~(client.session = "good" /\ m1.session = "none")
  <2>1. CASE kind = "deluge"
    <3>1. d = DelugeTakes(c, client, service).call /\ m1 = DelugeTakes(c, client, service).mem /\ s1 = DelugeServes(c, service)
      BY <1>1, <2>1 DEF Takes, Serves
    <3>2. DelugeOK(troubles, c, client, service)
      BY <1>4, <2>1 DEF CallOK
    <3> QED BY <1>4, <1>5, <2>1, <3>1, <3>2, DelugeExchanged
  <2>2. CASE kind = "qbittorrent"
    <3>1. d = QBittorrentTakes(c, client, service).call /\ m1 = QBittorrentTakes(c, client, service).mem /\ s1 = QBittorrentServes(c, service)
      BY <1>1, <2>2 DEF Takes, Serves
    <3>2. QBittorrentOK(c, service)
      BY <1>4, <2>2 DEF CallOK
    <3> QED BY <1>4, <1>5, <2>2, <3>1, <3>2, QBittorrentExchanged
  <2>3. CASE kind = "transmission"
    <3>1. d = TransmissionTakes(c, client, service).call /\ m1 = TransmissionTakes(c, client, service).mem /\ s1 = TransmissionServes(c, service)
      BY <1>1, <2>3 DEF Takes, Serves
    <3>2. TransmissionOK(c, service)
      BY <1>4, <2>3 DEF CallOK
    <3> QED BY <1>4, <1>5, <2>3, <3>1, <3>2, TransmissionExchanged
  <2>4. CASE kind = "sabnzbd"
    <3>1. d = SabnzbdTakes(c, client, service).call /\ m1 = SabnzbdTakes(c, client, service).mem /\ s1 = SabnzbdServes(c, service)
      BY <1>1, <2>4 DEF Takes, Serves
    <3>2. SabnzbdOK(c, service)
      BY <1>4, <2>4 DEF CallOK
    <3> QED BY <1>4, <1>5, <2>4, <3>1, <3>2, SabnzbdExchanged
  <2> QED BY <1>5, <2>1, <2>2, <2>3, <2>4
<1>7. d.op = c.op /\ d.crossed = c.crossed /\ d.disturbed = c.disturbed /\ d.robbed = c.robbed
  BY <1>6 DEF Keeps
<1>8. Effects(d, client, m1, service, s1)
  BY <1>6, <1>7, SameEffects
<1>9. Quiet(d) <=> Quiet(c)
  BY <1>7 DEF Quiet
<1>10. Acts(p, d, m1, s1)
  BY <1>1, <1>2, <1>4, <1>6, <1>7, <1>8, <1>9 DEF Acts
<1> QED BY <1>2, <1>5, <1>10, Acted

\* A refused request is sent again in a new session.
LEMMA RetriedOn ==
  ASSUME AdapterInv, NEW p \in Proc, Retry(p)
  PROVE  AdapterInv'
<1>1. PICK c, d, m1 : c = call[p] /\ d = Retries(c).call /\ m1 = Retries(c).mem
  OBVIOUS
<1>2. Running(p) /\ Leave(p, d, m1, service) /\ troubles' = troubles
  BY <1>1 DEF Retry
<1>3. Working(p, c)
  BY <1>1, <1>2, AtWork
<1>4. /\ c \in Calling /\ c.op \in Op /\ c.state = "running" /\ c.todo # <<>>
      /\ CallOK(troubles, c, client, service) /\ c.todo[1].do \notin Local /\ c.todo[1].refused
      /\ p # Locked => c.op \in {"run", "look"}
      /\ kind = "deluge" /\ p = Locked => ~c.crossed
      /\ kind = "deluge" /\ troubles = 0 => Quiet(c)
  BY <1>1, <1>3 DEF Working, Retry
<1>5. /\ kind \in {"deluge", "qbittorrent", "transmission", "sabnzbd"}
      /\ client \in Client /\ service \in Service /\ troubles \in Nat
  BY Basics
<1>6. /\ Passes(troubles, After(d, service), m1, service) /\ Effects(c, client, m1, service, service)
      /\ Keeps(c, d) /\ d \in Calling
      /\ kind = "deluge" => troubles # 0
  <2>1. CASE kind = "deluge"
    <3>1. d = DelugeRetries(c, client).call /\ m1 = DelugeRetries(c, client).mem
      BY <1>1, <2>1 DEF Retries
    <3>2. DelugeOK(troubles, c, client, service)
      BY <1>4, <2>1 DEF CallOK
    <3>3. troubles # 0
      <4>1. Quiet(c) => ~Fresh(troubles, c.todo)
        BY <1>4, <3>2, DelugeParts
      <4> QED BY <1>4, <2>1, <4>1 DEF Fresh
    <3> QED BY <1>4, <1>5, <2>1, <3>1, <3>2, <3>3, DelugeRetried
  <2>2. CASE kind = "qbittorrent"
    <3>1. d = QBittorrentRetries(c, client).call /\ m1 = QBittorrentRetries(c, client).mem
      BY <1>1, <2>2 DEF Retries
    <3>2. QBittorrentOK(c, service)
      BY <1>4, <2>2 DEF CallOK
    <3> QED BY <1>4, <1>5, <2>2, <3>1, <3>2, QBittorrentRetried
  <2>3. CASE kind = "transmission"
    <3>1. d = TransmissionRetries(c, client).call /\ m1 = TransmissionRetries(c, client).mem
      BY <1>1, <2>3 DEF Retries
    <3>2. TransmissionOK(c, service)
      BY <1>4, <2>3 DEF CallOK
    <3> QED BY <1>4, <1>5, <2>3, <3>1, <3>2, TransmissionRetried
  <2>4. CASE kind = "sabnzbd"
    BY <1>4, <2>4 DEF CallOK, SabnzbdOK
  <2> QED BY <1>5, <2>1, <2>2, <2>3, <2>4
<1>7. d.op = c.op /\ d.crossed = c.crossed /\ d.disturbed = c.disturbed /\ d.robbed = c.robbed
  BY <1>6 DEF Keeps
<1>8. Effects(d, client, m1, service, service)
  BY <1>6, <1>7, SameEffects
<1>9. Acts(p, d, m1, service)
  BY <1>1, <1>2, <1>4, <1>6, <1>7, <1>8 DEF Acts
<1> QED BY <1>2, <1>5, <1>9, Acted

-----------------------------------------------------------------------------
\* A call whose refused request is no second attempt has no second attempt at all.
LEMMA NoAgain ==
  ASSUME AdapterInv, NEW p \in Proc, NEW c, Working(p, c), c.todo[1].refused, ~Faulted(c)
  PROVE  \A i \in 1..Len(c.todo) : ~c.todo[i].again
<1>1. /\ CallOK(troubles, c, client, service) /\ c \in Calling
      /\ kind \in {"deluge", "qbittorrent", "transmission", "sabnzbd"}
  BY Basics DEF Working
<1>2. Quiet(c)
  BY DEF Faulted, Quiet
<1>3. CASE kind = "deluge"
  <2>1. ~Fresh(troubles, c.todo)
    BY <1>1, <1>2, <1>3, DelugeParts DEF CallOK
  <2> QED BY <2>1 DEF Fresh, Once
<1>4. ASSUME ~c.todo[1].again, \A i \in 2..Len(c.todo) : ~c.todo[i].again
      PROVE  \A i \in 1..Len(c.todo) : ~c.todo[i].again
  <2>1. \A i \in 1..Len(c.todo) : i = 1 \/ i \in 2..Len(c.todo)
    OBVIOUS
  <2> QED BY <1>4, <2>1
<1>5. CASE kind = "qbittorrent"
  <2>1. QBittorrentOK(c, service)
    BY <1>1, <1>5 DEF CallOK
  <2> QED BY <1>2, <1>4, <2>1 DEF QBittorrentOK
<1>6. CASE kind = "transmission"
  <2>1. TransmissionOK(c, service)
    BY <1>1, <1>6 DEF CallOK
  <2> QED BY <1>2, <1>4, <2>1 DEF TransmissionOK
<1>7. CASE kind = "sabnzbd"
  BY <1>1, <1>7 DEF CallOK, SabnzbdOK
<1> QED BY <1>1, <1>3, <1>5, <1>6, <1>7

\* A call that keeps being refused is cut off, and has been robbed or disturbed.
LEMMA TimedOut ==
  ASSUME AdapterInv, NEW p \in Proc, TimeOut(p)
  PROVE  AdapterInv'
<1>1. PICK c, d : c = call[p] /\ d = [c EXCEPT !.todo = <<>>, !.state = "unreachable"]
  OBVIOUS
<1>2. /\ Running(p) /\ c.todo[1].refused /\ Leave(p, d, client, service) /\ troubles' = troubles
      /\ Working(p, c)
  BY <1>1, AtWork DEF TimeOut, Working
<1>3. /\ c \in Calling /\ c.op \in Op
      /\ p # Locked => c.op \in {"run", "look"}
      /\ kind = "deluge" /\ p = Locked => ~c.crossed
      /\ kind = "deluge" /\ troubles = 0 => Quiet(c)
  BY <1>2 DEF Working
<1>4. /\ kind \in {"deluge", "qbittorrent", "transmission", "sabnzbd"}
      /\ client \in Client /\ service \in Service /\ troubles \in Nat
  BY Basics
<1>5. /\ d \in Calling /\ d.todo = <<>> /\ d.state = "unreachable" /\ d.op = c.op
      /\ d.crossed = c.crossed /\ d.disturbed = c.disturbed /\ d.robbed = c.robbed
  BY <1>1, <1>3, NoStep DEF Calling
<1>6. Faulted(c)
  <2>1. SUFFICES ASSUME ~Faulted(c) PROVE FALSE
    OBVIOUS
  <2>2. \A i \in 1..Len(c.todo) : ~c.todo[i].again
    BY <1>2, <2>1, NoAgain
  <2>3. {i \in DOMAIN c.todo : c.todo[i].again} = {}
    <3>1. DOMAIN c.todo = 1..Len(c.todo)
      BY <1>3 DEF Calling
    <3> QED BY <2>2, <3>1
  <2>4. Retries_(p) = 0
    BY <1>1, <2>3, FS_EmptySet DEF Retries_
  <2>5. Retries_(p) >= MaxRetries
    BY DEF TimeOut
  <2> QED BY <2>4, <2>5, WireAssumption
<1>7. Faulted(d)
  BY <1>5, <1>6 DEF Faulted
<1>8. Passes(troubles', After(d, service), client, service)
  <2>1. Arrives(troubles, d, client, service, d.done \/ Goal(d, service.job))
    BY <1>3, <1>5, <1>7 DEF Arrives, Ended, Errors
  <2> QED BY <1>2, <1>4, <2>1, Arrived
<1>9. Quiet(d) <=> Quiet(c)
  BY <1>5 DEF Quiet
<1>10. Acts(p, d, client, service)
  BY <1>1, <1>2, <1>3, <1>4, <1>5, <1>8, <1>9, Nothing DEF Acts
<1> QED BY <1>2, <1>4, <1>10, Acted

\* A request that fails ends its call, or the handler that catches the failure
\* goes on with a disturbed one.
Shot(c, error) == [Throw(c, error) EXCEPT !.disturbed = TRUE]

\* A call whose request fails ends, or goes on from a handler, disturbed.
LEMMA Failing ==
  ASSUME AdapterInv, NEW p \in Proc, NEW c, Working(p, c), NEW error \in {"unreachable", "unexpected_response"},
         NEW n \in Nat, NEW d, d = Shot(c, error), NEW s
  PROVE  Arrives(n, d, client, s, d.done \/ Goal(d, s.job)) /\ d.op = c.op /\ d.crossed = c.crossed /\ d.disturbed /\ d \in Calling
<1>1. /\ CallOK(troubles, c, client, service) /\ c \in Calling /\ c.op \in Op /\ c.state = "running" /\ c.todo # <<>>
      /\ kind \in {"deluge", "qbittorrent", "transmission", "sabnzbd"} /\ c.todo[1].do \notin Local
  BY Basics DEF Working
<1>0. PICK x : x = Throw(c, error) /\ d = [x EXCEPT !.disturbed = TRUE]
  BY DEF Shot
<1>2. ASSUME x \in Calling
      PROVE  /\ d \in Calling /\ d.disturbed /\ ~Quiet(d) /\ Faulted(d)
             /\ d.op = x.op /\ d.todo = x.todo /\ d.state = x.state /\ d.crossed = x.crossed /\ d.robbed = x.robbed
  BY <1>0, <1>2 DEF Calling, Quiet, Faulted
<1>3. CASE kind = "deluge"
  <2>1. Program(DelugeWords(c.op), DelugeLasts(c.op), c.todo)
    BY <1>1, <1>3, DelugeParts DEF CallOK
  <2>2. CutShort(c, x, error)
    BY <1>0, <1>1, <2>1, DelugeThrown
  <2>3. x \in Calling /\ Alike(c, x)
    BY <2>2 DEF CutShort
  <2>4. CASE d.todo = <<>>
    BY <1>1, <1>2, <2>2, <2>3, <2>4 DEF CutShort, Arrives, Ended, Errors, Alike
  <2>5. CASE d.todo # <<>>
    <3>1. /\ d.state = "running" /\ Program(DelugeWords(d.op), DelugeLasts(d.op), d.todo)
          /\ ~d.todo[1].refused
      BY <1>2, <2>2, <2>3, <2>5 DEF CutShort
    <3>2. CallOK(n, d, client, s)
      BY <1>2, <1>3, <2>3, <3>1, DelugeParts DEF CallOK
    <3> QED BY <1>1, <1>2, <1>3, <2>3, <2>5, <3>1, <3>2 DEF Arrives, Alike, Starts
  <2> QED BY <2>4, <2>5
<1>4. ASSUME \A i \in 1..Len(c.todo) : c.todo[i].do \notin {"orMagnet", "orExists", "orNoFiles"}
      PROVE  Arrives(n, d, client, s, d.done \/ Goal(d, s.job)) /\ d.op = c.op /\ d.crossed = c.crossed /\ d.disturbed /\ d \in Calling
  <2>1. x \in Calling /\ Alike(c, x) /\ x.todo = <<>> /\ x.state = error
    BY <1>0, <1>1, <1>4, Uncaught DEF Errors
  <2> QED BY <1>1, <1>2, <2>1 DEF Arrives, Ended, Errors, Alike
<1>5. CASE kind = "qbittorrent"
  <2>1. \A i \in 1..Len(c.todo) : c.todo[i].do \in QBittorrentWords(c.op)
    BY <1>1, <1>5 DEF CallOK, QBittorrentOK, Program
  <2> QED BY <1>1, <1>4, <2>1, QBittorrentWordsAre
<1>6. CASE kind = "transmission"
  <2>1. \A i \in 1..Len(c.todo) : c.todo[i].do \in TransmissionWords(c.op)
    BY <1>1, <1>6 DEF CallOK, TransmissionOK, Program
  <2> QED BY <1>1, <1>4, <2>1, TransmissionWordsAre
<1>7. CASE kind = "sabnzbd"
  <2>1. \A i \in 1..Len(c.todo) : c.todo[i].do \in SabnzbdWords(c.op)
    BY <1>1, <1>7 DEF CallOK, SabnzbdOK, Program
  <2> QED BY <1>1, <1>4, <2>1, SabnzbdWordsAre
<1> QED BY <1>1, <1>3, <1>5, <1>6, <1>7

\* What a service does for a request, whoever hears of it.
LEMMA Served ==
  ASSUME AdapterInv, NEW p \in Proc, NEW c, Working(p, c)
  PROVE  Effects(c, client, client, service, Serves(c))
<1>1. /\ CallOK(troubles, c, client, service) /\ c \in Calling /\ c.op \in Op /\ c.todo # <<>>
      /\ kind \in {"deluge", "qbittorrent", "transmission", "sabnzbd"}
      /\ client \in Client /\ service \in Service /\ 1 \in 1..Len(c.todo)
  BY Basics, Lines DEF Working
<1>2. CASE kind = "deluge"
  <2>1. \A i \in 1..Len(c.todo) : c.todo[i].do \in DelugeWords(c.op)
    BY <1>1, <1>2, DelugeParts DEF CallOK, Program
  <2> QED BY <1>1, <1>2, <2>1, DelugeServed DEF Serves
<1>3. CASE kind = "qbittorrent"
  <2>1. \A i \in 1..Len(c.todo) : c.todo[i].do \in QBittorrentWords(c.op)
    BY <1>1, <1>3 DEF CallOK, QBittorrentOK, Program
  <2> QED BY <1>1, <1>3, <2>1, QBittorrentServed DEF Serves
<1>4. CASE kind = "transmission"
  <2>1. \A i \in 1..Len(c.todo) : c.todo[i].do \in TransmissionWords(c.op)
    BY <1>1, <1>4 DEF CallOK, TransmissionOK, Program
  <2> QED BY <1>1, <1>4, <2>1, TransmissionServed DEF Serves
<1>5. CASE kind = "sabnzbd"
  <2>1. \A i \in 1..Len(c.todo) : c.todo[i].do \in SabnzbdWords(c.op)
    BY <1>1, <1>5 DEF CallOK, SabnzbdOK, Program
  <2> QED BY <1>1, <1>5, <2>1, SabnzbdServed DEF Serves
<1> QED BY <1>1, <1>2, <1>3, <1>4, <1>5

\* A request fails; it may have been carried out.
LEMMA FailedOn ==
  ASSUME AdapterInv, NEW p \in Proc, Fail(p)
  PROVE  AdapterInv'
<1>1. PICK c : c = call[p]
  OBVIOUS
<1>2. PICK error \in {"unreachable", "unexpected_response"}, arrived \in BOOLEAN :
        Leave(p, [Throw(c, error) EXCEPT !.disturbed = TRUE], client,
              IF arrived /\ ~Refuses(c) THEN Serves(c) ELSE service)
  BY <1>1 DEF Fail
<1>3. PICK d, s1 : /\ d = Shot(c, error)
                   /\ s1 = IF arrived /\ ~Refuses(c) THEN Serves(c) ELSE service
  OBVIOUS
<1>4. Running(p) /\ Leave(p, d, client, s1) /\ troubles' = troubles + 1 /\ Working(p, c)
  BY <1>1, <1>2, <1>3, AtWork DEF Fail, Sent, Shot
<1>5. /\ kind \in {"deluge", "qbittorrent", "transmission", "sabnzbd"}
      /\ client \in Client /\ service \in Service /\ troubles \in Nat
      /\ troubles' \in Nat /\ troubles' # 0
  <2>1. /\ kind \in {"deluge", "qbittorrent", "transmission", "sabnzbd"}
        /\ client \in Client /\ service \in Service /\ troubles \in Nat
    BY Basics
  <2>2. troubles' \in Nat /\ troubles' # 0
    BY <1>4, <2>1
  <2> QED BY <2>1, <2>2
<1>6. /\ Arrives(troubles', d, client, s1, d.done \/ Goal(d, s1.job))
      /\ d.op = c.op /\ d.crossed = c.crossed /\ d.disturbed /\ d \in Calling
  <2>1. PICK n \in Nat : n = troubles'
    BY <1>5
  <2>2. Working(p, c) /\ d = Shot(c, error)
    BY <1>3, <1>4
  <2>3. /\ Arrives(n, d, client, s1, d.done \/ Goal(d, s1.job))
        /\ d.op = c.op /\ d.crossed = c.crossed /\ d.disturbed /\ d \in Calling
    BY <2>2, Failing
  <2> QED BY <2>1, <2>3
<1>7. Effects(c, client, client, service, s1)
  <2>1. Effects(c, client, client, service, Serves(c)) /\ Effects(c, client, client, service, service)
    BY <1>4, <1>5, Served, Nothing
  <2> QED BY <1>3, <2>1
<1>8. Effects(d, client, client, service, s1)
  BY <1>6, <1>7, SameEffects
<1>9. Passes(troubles', After(d, s1), client, s1)
  BY <1>5, <1>6, Arrived
<1>10. /\ p # Locked => d.op \in {"run", "look"}
       /\ kind = "deluge" /\ p = Locked => ~d.crossed
  BY <1>4, <1>6 DEF Working
<1>11. Acts(p, d, client, s1)
  BY <1>1, <1>5, <1>6, <1>8, <1>9, <1>10 DEF Acts
<1> QED BY <1>4, <1>5, <1>11, Acted

-----------------------------------------------------------------------------
\* A request that is refused waits for its answer; nothing else changes.
LEMMA Refusing ==
  ASSUME AdapterInv, NEW p \in Proc, NEW c, Working(p, c), ~c.todo[1].refused, Refuses(c)
  PROVE  /\ kind = "deluge" => c.todo[1].do # "login" /\ (Quiet(c) => ~Fresh(troubles, c.todo))
         /\ kind \in {"qbittorrent", "transmission"} /\ Quiet(c) => ~c.todo[1].again
         /\ kind # "sabnzbd"
<1> DEFINE t == c.todo  w == c.todo[1].do
<1>1. /\ CallOK(troubles, c, client, service) /\ c \in Calling /\ c.op \in Op /\ c.todo # <<>>
      /\ Bound(troubles, c) /\ w \notin Local
      /\ kind \in {"deluge", "qbittorrent", "transmission", "sabnzbd"}
      /\ Head(t) = t[1] /\ 1 \in 1..Len(t) /\ Len(t) \in Nat
  BY Basics, Lines DEF Working
<1>2. CASE kind = "deluge"
  <2>1. DelugeRefuses(c, service)
    BY <1>2 DEF Refuses
  <2>2. /\ w # "login"
        /\ \/ c.sent # "good"
           \/ w \notin {"connected", "get_hosts", "connect"} /\ ~service.attached
           \/ w \in {"get_labels", "add_label", "set_label"} /\ ~service.plugin
    BY <1>1, <2>1 DEF DelugeRefuses
  <2>3. ASSUME Quiet(c), Fresh(troubles, t) PROVE FALSE
    <3>1. /\ Program(DelugeWords(c.op), DelugeLasts(c.op), t)
          /\ SessionHolds(troubles, t, client, service) /\ LabelHolds(c, t, client, service)
      BY <1>1, <1>2, <2>3, DelugeParts DEF CallOK
    <3>2. c.sent = "good"
      BY <1>1, <1>2, <2>2, <2>3 DEF Bound
    <3>3. w \in DelugeWords(c.op)
      BY <1>1, <3>1 DEF Program
    <3>4. w \in Needs \cup {"connected", "get_hosts", "connect"}
      BY <1>1, <2>2, <3>3, DelugeWordsAre DEF Op, Session, Labelling, Plugging, Needs, Local, DelugeLocal
    <3>5. w \in Needs => service.attached
      BY <2>3, <3>1 DEF SessionHolds
    <3>6. w \in {"get_labels", "add_label", "set_label"} /\ ~service.plugin
      BY <2>2, <3>2, <3>4, <3>5 DEF Needs
    <3>7. c.op \in {"submit", "mark"}
      BY <1>1, <3>3, <3>6, DelugeWordsAre DEF Op, Session
    <3>8. Has(t, Plugging)
      BY <3>1, <3>6, <3>7 DEF LabelHolds
    <3>9. PICK i \in 1..Len(t) : t[i].do \in Plugging
      BY <3>8 DEF Has
    <3>10. Stage(w) \in {4, 5} /\ Stage(t[i].do) = 3 /\ w \notin Plugging
      BY <3>6, <3>9, DelugeOrder DEF Plugging
    <3>11. i # 1 /\ 1 < i
      BY <1>1, <3>9, <3>10
    <3>12. Before(w, t[i].do)
      BY <1>1, <3>1, <3>11 DEF Program
    <3> QED BY <3>10, <3>12 DEF Before
  <2> QED BY <1>2, <2>2, <2>3
<1>3. CASE kind = "qbittorrent"
  BY <1>1, <1>3 DEF Refuses, QBittorrentRefuses, Bound
<1>4. CASE kind = "transmission"
  BY <1>1, <1>4 DEF Refuses, TransmissionRefuses, Bound
<1>5. CASE kind = "sabnzbd"
  BY <1>5 DEF Refuses
<1> QED BY <1>1, <1>2, <1>3, <1>4, <1>5

\* A call whose request is refused is in good order still.
LEMMA RefusedHolds ==
  ASSUME AdapterInv, NEW p \in Proc, NEW c, Working(p, c), ~c.todo[1].refused, Refuses(c),
         NEW d, d = [c EXCEPT !.todo = <<[Head(@) EXCEPT !.refused = TRUE]>> \o Tail(@)]
  PROVE  CallHolds(troubles, d, client, service) /\ Keeps(c, d) /\ d.state = "running"
<1> DEFINE t == c.todo
<1>1. /\ CallOK(troubles, c, client, service) /\ c \in Calling /\ c.op \in Op /\ t # <<>> /\ c.state = "running"
      /\ Bound(troubles, c) /\ t[1].do \notin Local
      /\ kind \in {"deluge", "qbittorrent", "transmission", "sabnzbd"}
      /\ Head(t) = t[1] /\ t[1] \in Line /\ t \in Seq(Line) /\ 1 \in 1..Len(t) /\ Len(t) \in Nat
  BY Basics, Lines DEF Working
<1>2. PICK x : x = [t[1] EXCEPT !.refused = TRUE]
  OBVIOUS
<1>3. x \in Line /\ x.do = t[1].do /\ x.again = t[1].again /\ x.refused
  BY <1>1, <1>2 DEF Line
<1>4. PICK u : u = <<x>> \o Tail(t)
  OBVIOUS
<1>5. d = [c EXCEPT !.todo = u]
  BY <1>1, <1>2, <1>4
<1>6. u \in Seq(Line)
  BY <1>1, <1>3, <1>4, OneStep, Spliced
<1>7. /\ d \in Calling /\ d.todo = u /\ Same(c, d) /\ d.sent = c.sent
  BY <1>1, <1>5, <1>6 DEF Calling, Same
<1>8. /\ Quiet(d) <=> Quiet(c)
      /\ Label(d) = Label(c)
  BY <1>7 DEF Quiet, Label, Same
<1>9. ASSUME NEW W, NEW L, Program(W, L, t)
      PROVE  /\ Program(W, L, u) /\ u # <<>> /\ u[1] = x
             /\ \A i \in 2..Len(u) : u[i].again => \E j \in 2..Len(t) : t[j].again
             /\ \A X : Has(u, X) <=> Has(t, X)
  <2>1. Resent(W, L, t, u, x)
    BY <1>1, <1>3, <1>4, <1>9, SameLine
  <2> QED BY <2>1 DEF Resent
<1>10. /\ kind = "deluge" => t[1].do # "login" /\ (Quiet(c) => ~Fresh(troubles, t))
       /\ kind \in {"qbittorrent", "transmission"} /\ Quiet(c) => ~t[1].again
       /\ kind # "sabnzbd"
  BY Refusing
<1>11. CASE kind = "deluge"
  <2>1. /\ Program(DelugeWords(c.op), DelugeLasts(c.op), t)
        /\ Quiet(c) => LabelHolds(c, t, client, service) /\ Found(c, service, "add")
    BY <1>1, <1>11, DelugeParts DEF CallOK
  <2>2. /\ Program(DelugeWords(c.op), DelugeLasts(c.op), u) /\ u # <<>> /\ u[1] = x
        /\ \A i \in 2..Len(u) : u[i].again => \E j \in 2..Len(t) : t[j].again
        /\ \A X : Has(u, X) <=> Has(t, X)
    BY <1>9, <2>1
  <2>3. Once(u) => Once(t)
    <3>1. \A i \in 1..Len(u) : i = 1 \/ i \in 2..Len(u)
      BY <1>6
    <3>2. \A i \in 2..Len(t) : i \in 1..Len(t)
      OBVIOUS
    <3> QED BY <1>1, <1>3, <2>2, <3>1, <3>2 DEF Once
  <2>4. Fresh(troubles, u) => Fresh(troubles, t)
    BY <2>3 DEF Fresh
  <2>5. Quiet(c) => LabelHolds(d, u, client, service)
    BY <1>7, <1>8, <2>1, <2>2 DEF LabelHolds, Same
  <2>6. Quiet(c) => Found(d, service, "add")
    BY <1>7, <2>1, <2>2 DEF Found, Same
  <2>7. Quiet(c) => SessionHolds(troubles, u, client, service)
    BY <1>10, <1>11, <2>4 DEF SessionHolds
  <2>8. DelugeOK(troubles, d, client, service)
    BY <1>3, <1>7, <1>8, <1>10, <1>11, <2>2, <2>4, <2>5, <2>6, <2>7, DelugeParts DEF Same
  <2>9. Bound(troubles, d)
    BY <1>1, <1>3, <1>7, <1>8, <1>11, <2>2, <2>4 DEF Bound
  <2>10. Holds(troubles, d, client, service)
    BY <1>1, <1>3, <1>7, <1>11, <2>2, <2>8, <2>9 DEF Holds, CallOK, Same
  <2> QED BY <1>1, <1>7, <2>10 DEF CallHolds, Keeps, Same, Errors
<1>12. ASSUME kind = "qbittorrent" \/ kind = "transmission", CallOK(troubles, d, client, service), u # <<>>, u[1] = x
       PROVE  CallHolds(troubles, d, client, service) /\ Keeps(c, d) /\ d.state = "running"
  <2>1. Bound(troubles, d)
    BY <1>3, <1>7, <1>8, <1>10, <1>12 DEF Bound
  <2>2. Holds(troubles, d, client, service)
    BY <1>1, <1>3, <1>7, <1>12, <2>1 DEF Holds, Same
  <2> QED BY <1>1, <1>7, <2>2 DEF CallHolds, Keeps, Same, Errors
<1>13. CASE kind = "qbittorrent"
  <2>1. QBittorrentOK(c, service)
    BY <1>1, <1>13 DEF CallOK
  <2>2. Program(QBittorrentWords(c.op), QBittorrentLasts(c.op), t) /\ \A i \in 2..Len(t) : ~t[i].again
    BY <2>1 DEF QBittorrentOK, QBittorrentLasts
  <2>3. /\ Program(QBittorrentWords(c.op), QBittorrentLasts(c.op), u) /\ u # <<>> /\ u[1] = x
        /\ \A i \in 2..Len(u) : u[i].again => \E j \in 2..Len(t) : t[j].again
        /\ \A X : Has(u, X) <=> Has(t, X)
    BY <1>9, <2>2
  <2>4. Found(d, service, "torrents/add")
    BY <1>7, <2>1, <2>3 DEF Found, Same, QBittorrentOK
  <2>5. QBittorrentOK(d, service)
    BY <1>3, <1>7, <1>8, <1>10, <1>13, <2>2, <2>3, <2>4 DEF QBittorrentOK, QBittorrentLasts, Same
  <2>6. CallOK(troubles, d, client, service)
    BY <1>13, <2>5 DEF CallOK
  <2> QED BY <1>12, <1>13, <2>3, <2>6
<1>14. CASE kind = "transmission"
  <2>1. TransmissionOK(c, service)
    BY <1>1, <1>14 DEF CallOK
  <2>2. Program(TransmissionWords(c.op), TransmissionLasts(c.op), t) /\ \A i \in 2..Len(t) : ~t[i].again
    BY <2>1 DEF TransmissionOK, TransmissionLasts
  <2>3. /\ Program(TransmissionWords(c.op), TransmissionLasts(c.op), u) /\ u # <<>> /\ u[1] = x
        /\ \A i \in 2..Len(u) : u[i].again => \E j \in 2..Len(t) : t[j].again
        /\ \A X : Has(u, X) <=> Has(t, X)
    BY <1>9, <2>2
  <2>4. Found(d, service, "torrent-add")
    BY <1>7, <2>1, <2>3 DEF Found, Same, TransmissionOK
  <2>5. d.op = "submit" => d.crossed \/ d.done \/ Has(u, {"torrent-add"})
    BY <1>7, <2>1, <2>3 DEF Same, TransmissionOK
  <2>6. TransmissionOK(d, service)
    BY <1>3, <1>7, <1>8, <1>10, <1>14, <2>2, <2>3, <2>4, <2>5 DEF TransmissionOK, TransmissionLasts, Same
  <2>7. CallOK(troubles, d, client, service)
    BY <1>14, <2>6 DEF CallOK
  <2> QED BY <1>12, <1>14, <2>3, <2>7
<1> QED BY <1>1, <1>10, <1>11, <1>13, <1>14

-----------------------------------------------------------------------------
\* What the world does, or one call to itself alone: every call stays in good
\* order, the same calls run the same operations, and a job of ours has its
\* marker as before.
Moves(n) ==
  /\ kind' = kind /\ troubles' = n /\ n \in Nat /\ (n = 0 => troubles = 0)
  /\ client' \in Client /\ service' \in Service /\ call' \in [Proc -> Calling]
  /\ \A q \in Proc : /\ CallHolds(n, call'[q], client', service')
                     /\ call'[q].op = call[q].op /\ call'[q].state = call[q].state
                     /\ kind = "deluge" => (call'[q].crossed <=> call[q].crossed)
                     /\ n = 0 /\ kind = "deluge" =>
                          call'[q].disturbed = call[q].disturbed /\ call'[q].robbed = call[q].robbed
  /\ n = 0 /\ kind = "deluge" =>
       /\ client'.session = client.session
       /\ client'.connected = client.connected /\ client'.labelReady = client.labelReady
       /\ service'.attached = service.attached /\ service'.plugin = service.plugin
  /\ service'.job.ours = service.job.ours /\ service'.job.markers = service.job.markers

\* What the world does, or one call to itself alone, keeps the invariant.
LEMMA Moved ==
  ASSUME AdapterInv, NEW n, Moves(n)
  PROVE  AdapterInv'
<1>1. /\ kind' = kind /\ troubles' = n /\ n \in Nat /\ (n = 0 => troubles = 0)
      /\ client' \in Client /\ service' \in Service /\ call' \in [Proc -> Calling]
      /\ \A q \in Proc : call'[q].op = call[q].op /\ call'[q].state = call[q].state
  BY DEF Moves
<1>2. kind \in {"deluge", "qbittorrent", "transmission", "sabnzbd"} /\ troubles \in Nat
  BY Basics
<1>3. AdapterTypeOK'
  BY <1>1 DEF AdapterTypeOK, AdapterInv
<1>4. ASSUME NEW q \in Proc PROVE CallHolds(troubles, call[q], client, service)'
  <2>1. CallHolds(troubles', call'[q], client', service')
    BY <1>1 DEF Moves
  <2> QED BY <1>1, <1>2, <2>1, SameKind
<1>5. \A q \in Proc : q # Locked => call'[q].op \in {"run", "look", "none"}
  BY <1>1 DEF AdapterInv
<1>6. (kind = "deluge" /\ Running(Locked) => ~call[Locked].crossed)'
  <2>1. Locked \in Proc /\ (kind = "deluge" => (call'[Locked].crossed <=> call[Locked].crossed))
    BY WireAssumption DEF Moves
  <2> QED BY <1>1, <2>1 DEF AdapterInv, Running
<1>7. (kind = "deluge" /\ troubles = 0 => Calm)'
  <2>1. SUFFICES ASSUME kind = "deluge", n = 0 PROVE Calm'
    BY <1>1
  <2>2. /\ client.session # "stale"
        /\ client.connected => service.attached
        /\ client.labelReady => service.plugin
        /\ \A q \in Proc : Running(q) => Quiet(call[q])
    BY <1>1, <2>1 DEF AdapterInv, Calm
  <2>3. \A q \in Proc : call'[q].disturbed = call[q].disturbed /\ call'[q].robbed = call[q].robbed
    BY <2>1 DEF Moves
  <2>4. \A q \in Proc : Running(q)' => Quiet(call[q])'
    BY <1>1, <2>2, <2>3 DEF Running, Quiet
  <2>5. /\ client'.session = client.session
        /\ client'.connected = client.connected /\ client'.labelReady = client.labelReady
        /\ service'.attached = service.attached /\ service'.plugin = service.plugin
    BY <2>1 DEF Moves
  <2> QED BY <2>2, <2>4, <2>5 DEF Calm
<1>8. (Unmarked(service) => kind = "deluge" /\ (troubles > 0 \/ Submitting))'
  <2>1. SUFFICES ASSUME Unmarked(service)' PROVE kind = "deluge" /\ (n > 0 \/ Submitting')
    BY <1>1
  <2>2. Unmarked(service)
    BY <2>1 DEF Moves, Unmarked
  <2>3. kind = "deluge" /\ (troubles > 0 \/ Submitting)
    BY <2>2 DEF AdapterInv
  <2>4. Submitting => Submitting'
    BY <1>1, WireAssumption DEF Submitting, Running
  <2>5. troubles > 0 => n > 0
    BY <1>1, <1>2
  <2> QED BY <2>3, <2>4, <2>5
<1> QED BY <1>3, <1>4, <1>5, <1>6, <1>7, <1>8 DEF AdapterInv

\* A request is refused.
LEMMA Refused ==
  ASSUME AdapterInv, NEW p \in Proc, Refuse(p)
  PROVE  AdapterInv'
<1>1. PICK c, d : c = call[p] /\ d = [c EXCEPT !.todo = <<[Head(@) EXCEPT !.refused = TRUE]>> \o Tail(@)]
  OBVIOUS
<1>2. /\ Running(p) /\ ~Head(c.todo).refused /\ Refuses(c)
      /\ UNCHANGED <<kind, client, service, troubles>>
      /\ call' = [call EXCEPT ![p] = d]
  BY <1>1 DEF Refuse, Sent
<1>3. Working(p, c) /\ ~c.todo[1].refused
  <2>1. Working(p, c)
    BY <1>1, <1>2, AtWork
  <2> QED BY <1>2, <2>1 DEF Working
<1>4. CallHolds(troubles, d, client, service) /\ Keeps(c, d) /\ d.state = "running"
  BY <1>1, <1>2, <1>3, RefusedHolds
<1>5. d \in Calling /\ call \in [Proc -> Calling] /\ client \in Client /\ service \in Service /\ troubles \in Nat
  BY <1>4 DEF CallHolds, AdapterInv, AdapterTypeOK
<1>6. call' \in [Proc -> Calling] /\ call'[p] = d /\ \A q \in Proc : q # p => call'[q] = call[q]
  BY <1>2, <1>5
<1>7. ASSUME NEW q \in Proc
      PROVE  /\ CallHolds(troubles, call'[q], client, service)
             /\ call'[q].op = call[q].op /\ call'[q].state = call[q].state
             /\ call'[q].crossed = call[q].crossed
             /\ call'[q].disturbed = call[q].disturbed /\ call'[q].robbed = call[q].robbed
  <2>1. CASE q = p
    BY <1>1, <1>2, <1>4, <1>6, <2>1 DEF Keeps, Running
  <2>2. CASE q # p
    BY <1>6, <2>2 DEF AdapterInv
  <2> QED BY <2>1, <2>2
<1>8. Moves(troubles)
  BY <1>2, <1>5, <1>6, <1>7 DEF Moves
<1> QED BY <1>8, Moved

\* A disturbance: no call can be held to anything but its order of steps.
LEMMA Shaken ==
  ASSUME AdapterInv, NEW q \in Proc, NEW x, NEW n \in Nat, n # 0, NEW mem, NEW s,
         Twin(call[q], x), call[q].state = "running" => x.disturbed, s.job = service.job
  PROVE  CallHolds(n, x, mem, s)
<1>1. PICK c : c = call[q]
  OBVIOUS
<1>2. CallHolds(troubles, c, client, service) /\ c \in Calling
  BY <1>1 DEF AdapterInv, CallHolds
<1>3. CASE c.state = "running"
  <2>1. Holds(troubles, c, client, service) /\ Twin(c, x) /\ ~Quiet(x) /\ Alter(x, service, s)
    BY <1>1, <1>2, <1>3 DEF CallHolds, Quiet, Alter
  <2>2. Holds(n, x, mem, s)
    BY <2>1, Basics, Stands
  <2> QED BY <1>3, <2>1, <2>2 DEF CallHolds, Twin, Errors
<1>4. CASE c.state # "running"
  <2>1. /\ x.state = c.state /\ x.todo = c.todo /\ x.done = c.done /\ x.op = c.op /\ x.read = c.read /\ x.want = c.want
        /\ x \in Calling /\ (c.crossed => x.crossed) /\ (c.robbed => x.robbed) /\ (c.disturbed => x.disturbed)
    BY <1>1 DEF Twin
  <2>2. (Faulted(c) => Faulted(x)) /\ (Silent(c) => Silent(x))
    BY <2>1 DEF Faulted, Silent
  <2> QED BY <1>2, <1>4, <2>1, <2>2 DEF CallHolds
<1> QED BY <1>3, <1>4

\* The service forgets the session.
LEMMA Expired ==
  ASSUME AdapterInv, Expire
  PROVE  AdapterInv'
<1>1. /\ troubles \in Nat /\ client \in Client /\ service \in Service /\ call \in [Proc -> Calling]
  BY DEF AdapterInv, AdapterTypeOK
<1>2. /\ troubles' = troubles + 1 /\ kind' = kind /\ service' = service
      /\ client' = [client EXCEPT !.session = "stale"]
      /\ call' = [p \in Proc |-> Disturb(call[p])]
  BY DEF Expire
<1>3. PICK n \in Nat : n = troubles' /\ n # 0
  <2>1. troubles + 1 \in Nat /\ troubles + 1 # 0
    BY <1>1
  <2> QED BY <1>2, <2>1
<1>4. client' \in Client
  BY <1>1, <1>2 DEF Client
<1>5. ASSUME NEW q \in Proc
      PROVE  /\ Twin(call[q], call'[q]) /\ call'[q].crossed = call[q].crossed
             /\ call[q].state = "running" => call'[q].disturbed
  <2>1. PICK c, x : c = call[q] /\ x = call'[q]
    OBVIOUS
  <2>2. PICK a \in BOOLEAN : a <=> c.disturbed \/ c.state = "running"
    OBVIOUS
  <2>3. PICK u : u = IF c.sent = "good" THEN "stale" ELSE c.sent
    OBVIOUS
  <2>4. c \in Calling
    BY <1>1, <2>1
  <2>5. x = [c EXCEPT !.disturbed = a, !.sent = u]
    <3>1. x = [c EXCEPT !.disturbed = @ \/ c.state = "running", !.sent = IF @ = "good" THEN "stale" ELSE @]
      BY <1>2, <2>1 DEF Disturb
    <3>2. a = (c.disturbed \/ c.state = "running")
      BY <2>2, <2>4 DEF Calling
    <3> QED BY <2>3, <3>1, <3>2
  <2>6. u \in {"none", "good", "stale"}
    BY <2>3, <2>4 DEF Calling
  <2>7. x \in Calling /\ Twin(c, x) /\ x.crossed = c.crossed /\ (c.state = "running" => x.disturbed)
    BY <2>2, <2>4, <2>5, <2>6 DEF Calling, Twin
  <2> QED BY <2>1, <2>7
<1>6. \A q \in Proc : CallHolds(n, call'[q], client', service')
  BY <1>2, <1>3, <1>5, Shaken
<1>7. call' \in [Proc -> Calling]
  <2>1. call' = [q \in Proc |-> call'[q]]
    BY <1>2
  <2>2. \A q \in Proc : call'[q] \in Calling
    BY <1>5 DEF Twin
  <2> QED BY <2>1, <2>2
<1>8. Moves(n)
  BY <1>1, <1>2, <1>3, <1>4, <1>5, <1>6, <1>7 DEF Moves, Twin
<1> QED BY <1>8, Moved

\* Deluge loses its daemon, or its plugin.
LEMMA Detached ==
  ASSUME AdapterInv, Detach
  PROVE  AdapterInv'
<1>1. /\ troubles \in Nat /\ client \in Client /\ service \in Service /\ call \in [Proc -> Calling]
  BY DEF AdapterInv, AdapterTypeOK
<1>2. /\ troubles' = troubles + 1 /\ kind' = kind /\ client' = client
      /\ service' = [service EXCEPT !.attached = FALSE] \/ service' = [service EXCEPT !.plugin = FALSE]
      /\ call' = [p \in Proc |-> [call[p] EXCEPT !.disturbed = @ \/ Running(p)]]
  BY DEF Detach
<1>3. PICK n \in Nat : n = troubles' /\ n # 0
  <2>1. troubles + 1 \in Nat /\ troubles + 1 # 0
    BY <1>1
  <2> QED BY <1>2, <2>1
<1>4. service' \in Service /\ service'.job = service.job
  BY <1>1, <1>2 DEF Service
<1>5. ASSUME NEW q \in Proc
      PROVE  /\ Twin(call[q], call'[q]) /\ call'[q].crossed = call[q].crossed
             /\ call[q].state = "running" => call'[q].disturbed
  <2>1. PICK c, x : c = call[q] /\ x = call'[q]
    OBVIOUS
  <2>2. PICK a \in BOOLEAN : a <=> c.disturbed \/ c.state = "running"
    OBVIOUS
  <2>3. c \in Calling
    BY <1>1, <2>1
  <2>4. x = [c EXCEPT !.disturbed = a]
    <3>1. x = [c EXCEPT !.disturbed = @ \/ c.state = "running"]
      BY <1>2, <2>1 DEF Running
    <3>2. a = (c.disturbed \/ c.state = "running")
      BY <2>2, <2>3 DEF Calling
    <3> QED BY <3>1, <3>2
  <2>5. x \in Calling /\ Twin(c, x) /\ x.crossed = c.crossed /\ (c.state = "running" => x.disturbed)
    BY <2>2, <2>3, <2>4 DEF Calling, Twin
  <2> QED BY <2>1, <2>5
<1>6. \A q \in Proc : CallHolds(n, call'[q], client', service')
  BY <1>3, <1>4, <1>5, Shaken
<1>7. call' \in [Proc -> Calling]
  <2>1. call' = [q \in Proc |-> call'[q]]
    BY <1>2
  <2>2. \A q \in Proc : call'[q] \in Calling
    BY <1>5 DEF Twin
  <2> QED BY <2>1, <2>2
<1>8. Moves(n)
  BY <1>1, <1>2, <1>3, <1>4, <1>5, <1>6, <1>7 DEF Moves, Twin
<1> QED BY <1>8, Moved

\* The files of the job become known, or it moves under the calls at work.
LEMMA Progressed ==
  ASSUME AdapterInv, Progress
  PROVE  AdapterInv'
<1>1. /\ troubles \in Nat /\ client \in Client /\ service \in Service /\ call \in [Proc -> Calling]
      /\ kind \in {"deluge", "qbittorrent", "transmission", "sabnzbd"}
  BY Basics DEF AdapterInv, AdapterTypeOK
<1>2. kind' = kind /\ client' = client /\ troubles' = troubles
  BY DEF Progress
<1>3. CASE service' = [service EXCEPT !.job.known = TRUE] /\ call' = call
  <2>1. PICK j : j = [service.job EXCEPT !.known = TRUE]
    OBVIOUS
  <2>2. service' = [service EXCEPT !.job = j] /\ service.job \in Torrent
    BY <1>1, <1>3, <2>1 DEF Service
  <2>3. j \in Torrent /\ j.there = service.job.there /\ j.past = service.job.past /\ j.ours = service.job.ours /\ j.markers = service.job.markers
    BY <2>1, <2>2 DEF Torrent
  <2>4. /\ service' \in Service /\ service'.job = j
        /\ service'.attached = service.attached /\ service'.plugin = service.plugin /\ service'.labels = service.labels
    BY <1>1, <2>2, <2>3 DEF Service
  <2>5. ASSUME NEW q \in Proc PROVE CallHolds(troubles, call[q], client, service')
    <3>1. PICK c, s1 : c = call[q] /\ s1 = service'
      OBVIOUS
    <3>2. CallHolds(troubles, c, client, service) /\ c \in Calling
      BY <3>1 DEF AdapterInv, CallHolds
    <3>3. Twin(c, c) /\ Alter(c, service, s1)
      BY <2>3, <2>4, <3>1, <3>2 DEF Twin, Alter
    <3>4. c.state = "running" => Holds(troubles, c, client, s1)
      BY <1>1, <2>3, <2>4, <3>1, <3>2, <3>3, Stands DEF CallHolds
    <3>5. CallHolds(troubles, c, client, s1)
      BY <3>2, <3>4 DEF CallHolds
    <3> QED BY <3>1, <3>5
  <2>6. Moves(troubles)
    BY <1>1, <1>2, <1>3, <2>3, <2>4, <2>5 DEF Moves
  <2> QED BY <2>6, Moved
<1>4. CASE /\ kind = "sabnzbd"
           /\ service' = [service EXCEPT !.job.past = TRUE]
           /\ call' = [p \in Proc |-> [call[p] EXCEPT !.crossed = @ \/ Running(p)]]
  <2>1. PICK j : j = [service.job EXCEPT !.past = TRUE]
    OBVIOUS
  <2>2. service' = [service EXCEPT !.job = j] /\ service.job \in Torrent
    BY <1>1, <1>4, <2>1 DEF Service
  <2>3. j \in Torrent /\ j.ours = service.job.ours /\ j.markers = service.job.markers
    BY <2>1, <2>2 DEF Torrent
  <2>4. service' \in Service /\ service'.job = j
    BY <1>1, <2>2, <2>3 DEF Service
  <2>5. ASSUME NEW q \in Proc
        PROVE  Twin(call[q], call'[q]) /\ CallHolds(troubles, call'[q], client, service')
    <3>1. PICK c, x, s1 : c = call[q] /\ x = call'[q] /\ s1 = service'
      OBVIOUS
    <3>2. PICK a \in BOOLEAN : a <=> c.crossed \/ c.state = "running"
      OBVIOUS
    <3>3. CallHolds(troubles, c, client, service) /\ c \in Calling
      BY <3>1 DEF AdapterInv, CallHolds
    <3>4. x = [c EXCEPT !.crossed = a]
      <4>1. x = [c EXCEPT !.crossed = @ \/ c.state = "running"]
        BY <1>4, <3>1 DEF Running
      <4>2. a = (c.crossed \/ c.state = "running")
        BY <3>2, <3>3 DEF Calling
      <4> QED BY <4>1, <4>2
    <3>5. x \in Calling /\ Twin(c, x) /\ (c.state = "running" => x.crossed) /\ x.sent = c.sent /\ x.disturbed = c.disturbed
      BY <3>2, <3>3, <3>4 DEF Calling, Twin
    <3>6. CASE c.state = "running"
      <4>1. Alter(x, service, s1) /\ Holds(troubles, c, client, service)
        BY <3>3, <3>5, <3>6 DEF Alter, CallHolds
      <4>2. Holds(troubles, x, client, s1)
        BY <1>1, <1>4, <3>5, <4>1, Stands
      <4> QED BY <3>1, <3>5, <3>6, <4>2 DEF CallHolds, Twin, Errors
    <3>7. CASE c.state # "running"
      <4>1. (Faulted(c) => Faulted(x)) /\ (Silent(c) => Silent(x))
        BY <3>5 DEF Faulted, Silent, Twin
      <4> QED BY <3>1, <3>3, <3>5, <3>7, <4>1 DEF CallHolds, Twin
    <3> QED BY <3>6, <3>7
  <2>6. call' \in [Proc -> Calling]
    <3>1. call' = [q \in Proc |-> call'[q]]
      BY <1>4
    <3>2. \A q \in Proc : call'[q] \in Calling
      BY <2>5 DEF Twin
    <3> QED BY <3>1, <3>2
  <2>7. Moves(troubles)
    BY <1>1, <1>2, <1>4, <2>3, <2>4, <2>5, <2>6 DEF Moves, Twin
  <2> QED BY <2>7, Moved
<1> QED BY <1>3, <1>4 DEF Progress

\* Nothing happens.
LEMMA Unchanged ==
  ASSUME AdapterInv, UNCHANGED wire
  PROVE  AdapterInv'
<1>1. /\ kind' = kind /\ client' = client /\ service' = service /\ call' = call /\ troubles' = troubles
      /\ client \in Client /\ service \in Service /\ call \in [Proc -> Calling] /\ troubles \in Nat
  BY DEF wire, AdapterInv, AdapterTypeOK
<1>2. \A q \in Proc : CallHolds(troubles, call[q], client, service)
  BY DEF AdapterInv
<1>3. Moves(troubles)
  BY <1>1, <1>2 DEF Moves
<1> QED BY <1>3, Moved
-----------------------------------------------------------------------------
\* The initial states.
LEMMA AdapterBegins ==
  ASSUME AdapterInit
  PROVE  AdapterInv
<1>1. /\ NoJob \in Torrent /\ ~NoJob.ours
  BY DEF NoJob, Torrent
<1>2. /\ kind \in Kind /\ troubles = 0 /\ call = [p \in Proc |-> None]
      /\ client = [session |-> "none", connected |-> FALSE, labelReady |-> FALSE]
      /\ service \in [job : {NoJob}, attached : BOOLEAN, plugin : BOOLEAN, labels : {{}}]
  BY DEF AdapterInit
<1>3. AdapterTypeOK
  BY <1>1, <1>2, NoneIs DEF AdapterTypeOK, Client, Service
<1>4. ASSUME NEW p \in Proc PROVE CallHolds(troubles, call[p], client, service) /\ call[p].op = "none" /\ ~Running(p)
  <2>1. call[p] = None
    BY <1>2
  <2> QED BY <2>1, NoneIs DEF CallHolds, Errors, Running
<1>5. service.job = NoJob
  BY <1>2
<1>6. Calm
  BY <1>2, <1>4 DEF Calm
<1>7. Locked \in Proc
  BY WireAssumption
<1> QED BY <1>1, <1>3, <1>4, <1>5, <1>6, <1>7 DEF AdapterInv, Unmarked

\* The invariant holds of every behaviour of an adapter and its service.
THEOREM AdaptersKeepInv == AdapterSpec => []AdapterInv
<1>1. AdapterInit => AdapterInv
  BY AdapterBegins
<1>2. AdapterInv /\ [AdapterNext]_wire => AdapterInv'
  <2> SUFFICES ASSUME AdapterInv, [AdapterNext]_wire PROVE AdapterInv'
    OBVIOUS
  <2>1. ASSUME NEW p \in Proc, Begin(p) PROVE AdapterInv'
    BY <2>1, Begun
  <2>2. ASSUME NEW p \in Proc, Exchange(p) PROVE AdapterInv'
    BY <2>2, Exchanged
  <2>3. ASSUME NEW p \in Proc, Refuse(p) PROVE AdapterInv'
    BY <2>3, Refused
  <2>4. ASSUME NEW p \in Proc, Retry(p) PROVE AdapterInv'
    BY <2>4, RetriedOn
  <2>5. ASSUME NEW p \in Proc, TimeOut(p) PROVE AdapterInv'
    BY <2>5, TimedOut
  <2>6. ASSUME NEW p \in Proc, Fail(p) PROVE AdapterInv'
    BY <2>6, FailedOn
  <2>7. CASE Expire
    BY <2>7, Expired
  <2>8. CASE Detach
    BY <2>8, Detached
  <2>9. CASE Progress
    BY <2>9, Progressed
  <2>10. CASE UNCHANGED wire
    BY <2>10, Unchanged
  <2> QED BY <2>1, <2>2, <2>3, <2>4, <2>5, <2>6, <2>7, <2>8, <2>9, <2>10 DEF AdapterNext
<1> QED BY <1>1, <1>2, PTL DEF AdapterSpec

\* A call of an adapter fails only for what happened during it (OnlyDisturbedCallsFail).
THEOREM FailuresHaveCauses == AdapterSpec => []OnlyDisturbedCallsFail
<1>1. AdapterInv => OnlyDisturbedCallsFail
  BY DEF AdapterInv, CallHolds, OnlyDisturbedCallsFail, Faulted, AdapterTypeOK, Calling, Errors
<1> QED BY <1>1, AdaptersKeepInv, PTL

\* A call that answers ok did what it was asked, but for the silent returns (OkMeansDone).
THEOREM OkIsTrue == AdapterSpec => []OkMeansDone
<1>1. AdapterInv => OkMeansDone
  BY DEF AdapterInv, CallHolds, OkMeansDone
<1> QED BY <1>1, AdaptersKeepInv, PTL

\* A job that a submit made is never without its marker, but under Deluge while
\* the submit is at work or was cut short (MarkedFromTheStart).
THEOREM JobsAreMarked == AdapterSpec => []MarkedFromTheStart
<1>1. AdapterInv => MarkedFromTheStart
  BY WireAssumption DEF AdapterInv, Unmarked, Submitting, MarkedFromTheStart
<1> QED BY <1>1, AdaptersKeepInv, PTL
=============================================================================
