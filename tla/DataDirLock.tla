---------------------------- MODULE DataDirLock ----------------------------
(***************************************************************************)
(* The lock file of DATA_DIR (src/state/lock.ts) and the processes that    *)
(* start, run and stop under it (openState in src/state/init.ts).  Each    *)
(* call on the file is a step, since another process may come between two. *)
(* A process is killed at any step and leaves the file as it is; its       *)
(* replacement may or may not get a process id that was used before.       *)
(***************************************************************************)
EXTENDS Naturals

CONSTANTS Proc,         \* the processes; each starts again after its end
          MaxStarts,    \* bound: starts of processes
          Overlap,      \* may a process start while another is starting
          Reuse,        \* may a process get the id of one that is dead
          NoFile

ASSUME LockAssumption == /\ MaxStarts \in Nat
                         /\ Overlap \in BOOLEAN
                         /\ Reuse \in BOOLEAN

\* The file: the token names the start that created it, the pid is 0 until it is
\* written.
LockFile == [token : 1..MaxStarts, pid : 0..MaxStarts]

ASSUME NoFileAssumption == NoFile \notin LockFile

VARIABLES lockFile,     \* the file at the path, or NoFile
          stage,       \* where each process is
          pid, token,   \* process.pid and record.token
          attempt,  \* the loop's counter
          starts,   \* processes started so far
          met       \* history: another process has lived since this one's start

lockVars == <<lockFile, stage, pid, token, attempt, starts, met>>

Starting == {"opens", "writes", "reads", "unlinks"}
Holding  == {"holds", "closes", "removes"}
Live(p)  == stage[p] \in Starting \cup Holding

processExists(n) == \E q \in Proc : Live(q) /\ pid[q] = n

LockGoes(p, to) == stage' = [stage EXCEPT ![p] = to]
-----------------------------------------------------------------------------
LockInit == /\ lockFile = NoFile
            /\ stage = [p \in Proc |-> "ended"]
            /\ pid = [p \in Proc |-> 0]
            /\ token = [p \in Proc |-> 0]
            /\ attempt = [p \in Proc |-> 0]
            /\ starts = 0
            /\ met = [p \in Proc |-> FALSE]

\* An id is never that of a live process.  Ids are small where few processes run:
\* in a container the first process after a restart has the id the last one had.
StartsUp(p, n) ==
  /\ ~Live(p)
  /\ starts < MaxStarts
  /\ ~Overlap => \A q \in Proc : stage[q] \notin Starting
  /\ ~processExists(n)
  /\ ~Reuse => n = starts + 1
  /\ starts' = starts + 1
  /\ pid' = [pid EXCEPT ![p] = n]
  /\ token' = [token EXCEPT ![p] = starts + 1]
  /\ attempt' = [attempt EXCEPT ![p] = 0]
  /\ met' = [q \in Proc |-> IF q = p THEN \E o \in Proc \ {p} : Live(o) ELSE met[q] \/ Live(q)]
  /\ LockGoes(p, "opens")
  /\ UNCHANGED lockFile

\* openSync(path, 'wx'): the file is created, still empty, or is there already.
OpensLock(p) ==
  /\ stage[p] = "opens"
  /\ IF lockFile = NoFile
     THEN lockFile' = [token |-> token[p], pid |-> 0] /\ LockGoes(p, "writes")
     ELSE UNCHANGED lockFile /\ LockGoes(p, "reads")
  /\ UNCHANGED <<pid, token, attempt, starts, met>>

\* The record goes to the file that was opened, even when the path has another.
Writes(p) ==
  /\ stage[p] = "writes"
  /\ lockFile' = IF lockFile # NoFile /\ lockFile.token = token[p] THEN [lockFile EXCEPT !.pid = pid[p]] ELSE lockFile
  /\ LockGoes(p, "holds")
  /\ UNCHANGED <<pid, token, attempt, starts, met>>

\* The disk is full: the start fails, and an empty file remains.
WriteFails(p) ==
  /\ stage[p] = "writes"
  /\ LockGoes(p, "ended")
  /\ UNCHANGED <<lockFile, pid, token, attempt, starts, met>>

\* Mutant: processes are not asked whether they exist.
ReadsTrusting(p) ==
  /\ stage[p] = "reads"
  /\ LockGoes(p, "unlinks")
  /\ UNCHANGED <<lockFile, pid, token, attempt, starts, met>>

\* Mutant: a malformed lock is taken for one that is held.
ReadsStrictly(p) ==
  /\ stage[p] = "reads"
  /\ LockGoes(p, IF lockFile # NoFile /\ (lockFile.pid = 0 \/ processExists(lockFile.pid)) THEN "refused" ELSE "unlinks")
  /\ UNCHANGED <<lockFile, pid, token, attempt, starts, met>>

\* readRecord, then processExists: a file that is gone or not yet written is
\* taken for stale, as is one whose process does not exist.
ReadsLock(p) ==
  /\ stage[p] = "reads"
  /\ LockGoes(p, IF lockFile # NoFile /\ lockFile.pid # 0 /\ processExists(lockFile.pid) THEN "refused" ELSE "unlinks")
  /\ UNCHANGED <<lockFile, pid, token, attempt, starts, met>>

\* unlinkSync removes what is at the path by now.  When nothing is, or after the
\* second attempt, the start is refused.
Unlinks(p) ==
  /\ stage[p] = "unlinks"
  /\ lockFile' = NoFile
  /\ attempt' = [attempt EXCEPT ![p] = @ + 1]
  /\ LockGoes(p, IF lockFile = NoFile \/ attempt[p] = 1 THEN "refused" ELSE "opens")
  /\ UNCHANGED <<pid, token, starts, met>>

\* SIGTERM, or a failure later in openState: the lock is to be released.
Stops(p) ==
  /\ stage[p] = "holds"
  /\ LockGoes(p, "closes")
  /\ UNCHANGED <<lockFile, pid, token, attempt, starts, met>>

\* The release reads the record, and removes the file only if it is its own.
Closes(p) ==
  /\ stage[p] = "closes"
  /\ LockGoes(p, IF lockFile # NoFile /\ lockFile.pid # 0 /\ lockFile.token = token[p] THEN "removes" ELSE "ended")
  /\ UNCHANGED <<lockFile, pid, token, attempt, starts, met>>

Removes(p) ==
  /\ stage[p] = "removes"
  /\ lockFile' = NoFile
  /\ LockGoes(p, "ended")
  /\ UNCHANGED <<pid, token, attempt, starts, met>>

Killed(p) ==
  /\ Live(p)
  /\ LockGoes(p, "ended")
  /\ UNCHANGED <<lockFile, pid, token, attempt, starts, met>>

LockNext == \E p \in Proc : \/ \E n \in 1..MaxStarts : StartsUp(p, n)
                            \/ OpensLock(p) \/ Writes(p) \/ WriteFails(p)
                            \/ ReadsLock(p) \/ Unlinks(p)
                            \/ Stops(p) \/ Closes(p) \/ Removes(p) \/ Killed(p)

LockSpec == LockInit /\ [][LockNext]_lockVars
-----------------------------------------------------------------------------
\* Every variable keeps its type; the loop makes two attempts at most.
LockTypeOK == /\ lockFile \in LockFile \cup {NoFile}
              /\ stage \in [Proc -> Starting \cup Holding \cup {"refused", "ended"}]
              /\ pid \in [Proc -> 0..MaxStarts]
              /\ token \in [Proc -> 0..MaxStarts]
              /\ attempt \in [Proc -> 0..2]
              /\ starts \in 0..MaxStarts
              /\ met \in [Proc -> BOOLEAN]

\* Two processes never have the data directory at once, whatever is left behind by
\* those that were killed while they took or released the lock ("an exclusive file
\* makes that deployment error fail at startup", lock.ts:26).
AtMostOneHolder == \A p, q \in Proc : stage[p] \in Holding /\ stage[q] \in Holding => p = q

\* A start is refused only when another process has lived meanwhile: no lock that
\* a crash left, at any point, keeps the program from starting again ("a lock left
\* by a process that no longer exists is recovered", docs/operations.md:81).
RefusedByTheLiving == \A p \in Proc : stage[p] = "refused" => met[p]
=============================================================================
