----------------------------- MODULE JobRunner -----------------------------
(***************************************************************************)
(* The scheduler of background work (src/jobs/runner.ts) over its table    *)
(* (src/state/sqlite/jobs.ts): recurring jobs, and a retry job for each    *)
(* title a sweep failed on.  A job is claimed under a lease that nothing   *)
(* extends while the job runs, and it may run for longer than its lease.   *)
(* Time goes in ticks of the runner, and every time is relative to now: 0  *)
(* is this tick, a positive number is to come, a negative one has passed.  *)
(***************************************************************************)
EXTENDS Integers, FiniteSets, FiniteSetsExt

CONSTANTS Recurring,      \* "sweep" and the other jobs that come back
          Hash,           \* titles; the retry job of a title has its name
          Interval,       \* [Recurring -> Nat]: SWEEP_INTERVAL_MS and the others
          Longest,        \* [Job -> Nat]: the deadlines of a job's calls
          LEASE,          \* LEASE_MS
          MIN_RETRY, MAX_RETRY,
          MAX_CONCURRENT,
          Patience,       \* the delay Punctual promises
          MaxAttempts,    \* bound: the count of failures, past where backoff levels
          MaxRestarts,    \* bound: restarts of the process
          NoRow

Job == Recurring \cup Hash

ASSUME JobAssumption == /\ "sweep" \in Recurring
                        /\ Recurring \cap Hash = {}
                        /\ Interval \in [Recurring -> Nat \ {0}]
                        /\ Longest \in [Job -> Nat \ {0}]

ASSUME TimeAssumption == /\ {LEASE, MIN_RETRY, MAX_RETRY} \subseteq Nat \ {0}
                         /\ {MAX_CONCURRENT, Patience, MaxAttempts, MaxRestarts} \subseteq Nat

\* A row of the table: next_run_at and lease_until, with a NULL lease as one
\* that has passed already.
Row == [next : Int, lease : Int, attempts : 0..MaxAttempts]

ASSUME NoRowAssumption == NoRow \notin Row

\* A job under way: the time left to its deadline, the attempts its claim
\* returned, and, for a sweep, the titles it has failed on (result.failed).
Run == [job : Job, left : Nat, attempts : 0..MaxAttempts, failed : SUBSET Hash]

VARIABLES rows,     \* [Job -> Row or NoRow]: the table, which survives a restart
          runs,     \* the runs in flight
          ticking,  \* the loop of tick() has not ended
          title,    \* [Hash -> "gone", "tracked" or "expired"]: the records
          owed,     \* history: titles a completed sweep failed on, still there
          restarts

vars == <<rows, runs, ticking, title, owed, restarts>>
-----------------------------------------------------------------------------
ensure(table, jobs, next) ==
  [j \in Job |-> IF j \in jobs /\ table[j] = NoRow
                 THEN [next |-> next, lease |-> -1, attempts |-> 0] ELSE table[j]]

Lesser(a, b) == IF a <= b THEN a ELSE b

backoff(attempts) == Lesser(MAX_RETRY, MIN_RETRY * 2 ^ attempts)

ASSUME BackoffAssumption == \A a \in 0..MaxAttempts : backoff(a) \in Nat

\* start() on an empty table, and its first tick.
Init == /\ rows = ensure([j \in Job |-> NoRow], Recurring, 0)
        /\ runs = {}
        /\ ticking = TRUE
        /\ title = [h \in Hash |-> "gone"]
        /\ owed = {}
        /\ restarts = 0

Claimable(j) == /\ rows[j] # NoRow
                /\ rows[j].next <= 0
                /\ rows[j].lease < 0

Free == Cardinality(runs) < MAX_CONCURRENT

\* Mutant: any due job, without ORDER BY.
claimAny(j) ==
  /\ ticking /\ Free
  /\ Claimable(j)
  /\ rows' = [rows EXCEPT ![j].lease = LEASE]
  /\ runs' = runs \cup {[job |-> j, left |-> Longest[j], attempts |-> rows[j].attempts, failed |-> {}]}
  /\ UNCHANGED <<ticking, title, owed, restarts>>

\* One turn of the loop: the job that has been due for longest is claimed.
claimDue(j) ==
  /\ ticking /\ Free
  /\ Claimable(j)
  /\ \A k \in Job : Claimable(k) => rows[j].next <= rows[k].next
  /\ rows' = [rows EXCEPT ![j].lease = LEASE]
  /\ runs' = runs \cup {[job |-> j, left |-> Longest[j], attempts |-> rows[j].attempts, failed |-> {}]}
  /\ UNCHANGED <<ticking, title, owed, restarts>>

TickEnds == /\ ticking
            /\ Free => \A j \in Job : ~Claimable(j)
            /\ ticking' = FALSE
            /\ UNCHANGED <<rows, runs, title, owed, restarts>>

\* The interval passes and the next tick begins.  A run ends by its deadline.
Advance == /\ ~ticking
           /\ \A r \in runs : r.left > 0
           /\ runs' = {[r EXCEPT !.left = @ - 1] : r \in runs}
           /\ rows' = [j \in Job |-> IF rows[j] = NoRow THEN NoRow
                                     ELSE [rows[j] EXCEPT !.next = @ - 1, !.lease = @ - 1]]
           /\ ticking' = TRUE
           /\ UNCHANGED <<title, owed, restarts>>
-----------------------------------------------------------------------------
\* A row that is gone stays gone; what is there is written whole, its lease
\* cleared, whoever holds it.
reschedule(table, j, next, attempts) ==
  IF table[j] = NoRow THEN table
  ELSE [table EXCEPT ![j] = [next |-> next, lease |-> -1, attempts |-> attempts]]

Succeeded(table, r) == reschedule(table, r.job, Interval[r.job], 0)
Failed(table, r) == reschedule(table, r.job, backoff(r.attempts), Lesser(r.attempts + 1, MaxAttempts))

\* A recurring job other than the sweep ends or throws.
RecurringEnds(r) == /\ r.job \in Recurring \ {"sweep"}
                    /\ runs' = runs \ {r}
                    /\ rows' \in {Succeeded(rows, r), Failed(rows, r)}
                    /\ UNCHANGED <<ticking, title, owed, restarts>>

\* The sweep deletes a title, or drops the record of one that has no torrent.
SweepDeletes(r, h) == /\ r.job = "sweep"
                      /\ title[h] # "gone"
                      /\ title' = [title EXCEPT ![h] = "gone"]
                      /\ owed' = owed \ {h}
                      /\ UNCHANGED <<rows, runs, ticking, restarts>>

\* A call about a title fails, whether or not there was anything to delete.
SweepFails(r, h) == /\ r.job = "sweep"
                    /\ title[h] # "gone"
                    /\ runs' = (runs \ {r}) \cup {[r EXCEPT !.failed = @ \cup {h}]}
                    /\ UNCHANGED <<rows, ticking, title, owed, restarts>>

\* Mutant: what failed is left to the sweep of the next hour.
SweepForgets(r) == /\ r.job = "sweep"
                   /\ runs' = runs \ {r}
                   /\ rows' = Succeeded(rows, r)
                   /\ owed' = owed \cup {h \in r.failed : title[h] # "gone"}
                   /\ UNCHANGED <<ticking, title, restarts>>

\* The sweep has ended: a retry for each title it failed on, unless there is one;
\* then it is rescheduled, or throws in what else it does.
SweepEnds(r) == /\ r.job = "sweep"
                /\ runs' = runs \ {r}
                /\ LET table == ensure(rows, r.failed, MIN_RETRY) IN
                     rows' \in {Succeeded(table, r), Failed(table, r)}
                /\ owed' = owed \cup {h \in r.failed : title[h] # "gone"}
                /\ UNCHANGED <<ticking, title, restarts>>

\* A retry finds no record, deletes it, or drops it because its torrent is gone:
\* its job goes.  Otherwise it comes back: after a failure, when the title is not
\* to be deleted at all, and when the record went while it waited (retryDeletion).
RetryEnds(r) == /\ r.job \in Hash
                /\ runs' = runs \ {r}
                /\ \/ /\ rows' = [rows EXCEPT ![r.job] = NoRow]
                      /\ title' = [title EXCEPT ![r.job] = "gone"]
                      /\ owed' = owed \ {r.job}
                   \/ /\ rows' = Failed(rows, r)
                      /\ UNCHANGED <<title, owed>>
                /\ UNCHANGED <<ticking, restarts>>

\* The process stops or crashes, and starts again at once: the table is as it was.
Restart == /\ restarts < MaxRestarts
           /\ restarts' = restarts + 1
           /\ runs' = {}
           /\ ticking' = TRUE
           /\ rows' = ensure(rows, Recurring, 0)
           /\ UNCHANGED <<title, owed>>

\* A title is added, expires, is kept or renewed, or is deleted by its user.
TitleChanges(h) ==
  /\ \E to \in {"gone", "tracked", "expired"} \ {title[h]} :
       /\ title[h] = "gone" => to = "tracked"
       /\ title' = [title EXCEPT ![h] = to]
       /\ owed' = IF to = "gone" THEN owed \ {h} ELSE owed
  /\ UNCHANGED <<rows, runs, ticking, restarts>>

Next == \/ \E j \in Job : claimDue(j)
        \/ TickEnds
        \/ Advance
        \/ \E r \in runs : \/ RecurringEnds(r)
                           \/ SweepEnds(r)
                           \/ RetryEnds(r)
                           \/ \E h \in Hash : SweepDeletes(r, h) \/ SweepFails(r, h)
        \/ \E h \in Hash : TitleChanges(h)
        \/ Restart

Spec == Init /\ [][Next]_vars
-----------------------------------------------------------------------------
InFlight(j) == \E r \in runs : r.job = j

\* Every variable keeps its type, and the runs are no more than the slots.
TypeOK == /\ rows \in [Job -> Row \cup {NoRow}]
          /\ runs \subseteq Run
          /\ IsFiniteSet(runs) /\ Cardinality(runs) <= MAX_CONCURRENT
          /\ ticking \in BOOLEAN
          /\ title \in [Hash -> {"gone", "tracked", "expired"}]
          /\ owed \subseteq Hash
          /\ restarts \in 0..MaxRestarts

\* A job that is due, and not under the lease of a run a restart has ended, runs
\* within Patience, though long jobs hold the slots, are claimed a second time
\* when their lease ends, and retries come on top (sqlite/jobs.ts:39, runner.ts:92).
Punctual ==
  \A j \in Job : (rows[j] # NoRow /\ ~InFlight(j)) =>
    Max({rows[j].next, rows[j].lease}) >= -Patience

\* A title a sweep failed on has its retry job until it is gone: no run that was
\* claimed before, and ends later, takes the job away (runner.ts:121).
FailuresAreRetried == \A h \in owed : rows[h] # NoRow

\* A job never runs twice at once ("never runs two copies of the same job at
\* once", state/repositories.ts:66).
NoDoubleRun == \A r, s \in runs : r.job = s.job => r = s

\* A retry job is made for a deletion only ("a sweep's failed deletions become
\* one-off retry jobs", runner.ts:28).
RetriesAreDeletions ==
  [][\A h \in Hash : (rows[h] = NoRow /\ rows'[h] # NoRow) => title[h] # "tracked"]_vars
=============================================================================
