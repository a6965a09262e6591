----------------------------- MODULE JsonStore -----------------------------
(***************************************************************************)
(* A repository of the JSON driver (src/state/json/*.ts): one document in  *)
(* memory and in one file.  Updates form a queue; each writes a temporary  *)
(* file, synchronises it, renames it over the file and synchronises the    *)
(* directory (src/storage.ts).  Any of these calls may fail, the process   *)
(* may die between them, and so may the machine.                           *)
(***************************************************************************)
EXTENDS Naturals, Sequences

CONSTANTS Doc,          \* documents
          Update,       \* updates, functions from documents to documents
          Seed,         \* the document of a fresh installation
          Absent,       \* no file
          Torn,         \* a file with a part of its contents
          MaxRequests   \* bound: updates asked for

ASSUME DocAssumption == /\ Seed \in Doc
                        /\ Absent \notin Doc /\ Torn \notin Doc /\ Absent # Torn
                        /\ Update \subseteq [Doc -> Doc]
                        /\ MaxRequests \in Nat

VARIABLES mem,      \* this.state, when the repository is open
          up,       \* open
          pending,  \* the queue: updates not answered yet
          at,       \* where the write at the head is: "idle", "temp" or "renamed"
          next,     \* the document it writes
          file,     \* what the path names
          onDisk,   \* what it may name after the machine fails
          requests,
          acked     \* history: updates and seeds reported as saved

repositoryVars == <<mem, up, pending, at, next, file, onDisk, requests, acked>>
-----------------------------------------------------------------------------
RepositoryInit == /\ mem = Seed /\ next = Seed
                  /\ up = FALSE
                  /\ pending = <<>>
                  /\ at = "idle"
                  /\ file = Absent
                  /\ onDisk = {Absent}
                  /\ requests = 0
                  /\ acked = 0

\* open() with a file: the document, validated, is the one in memory.
Opens == /\ ~up /\ at = "idle"
         /\ file \in Doc
         /\ mem' = file
         /\ up' = TRUE
         /\ UNCHANGED <<pending, at, next, file, onDisk, requests, acked>>

\* open() without one: the seed is written first.
OpensFresh == /\ ~up /\ at = "idle"
              /\ file = Absent
              /\ next' = Seed
              /\ at' = "temp"
              /\ UNCHANGED <<mem, up, pending, file, onDisk, requests, acked>>

Requests(u) == /\ up
               /\ requests < MaxRequests
               /\ requests' = requests + 1
               /\ pending' = Append(pending, u)
               /\ UNCHANGED <<mem, up, at, next, file, onDisk, acked>>

\* The next operation of the queue computes its document from the one in memory.
Begins == /\ up /\ at = "idle"
          /\ pending # <<>>
          /\ next' = Head(pending)[mem]
          /\ at' = "temp"
          /\ UNCHANGED <<mem, up, pending, file, onDisk, requests, acked>>

\* The update throws (too many tokens, invalid settings): nothing is written.
Throws == /\ up /\ at = "idle"
          /\ pending # <<>>
          /\ pending' = Tail(pending)
          /\ UNCHANGED <<mem, up, at, next, file, onDisk, requests, acked>>

\* The temporary file is written, synchronised, closed and renamed.
Renames == /\ at = "temp"
           /\ file' = next
           /\ onDisk' = onDisk \cup {next}
           /\ at' = "renamed"
           /\ UNCHANGED <<mem, up, pending, next, requests, acked>>

Answered == pending' = IF up THEN Tail(pending) ELSE pending

\* Mutant: the directory is not synchronised.
PublishesUnsynced == /\ at = "renamed"
                     /\ mem' = next
                     /\ up' = TRUE
                     /\ at' = "idle"
                     /\ acked' = acked + 1
                     /\ Answered
                     /\ UNCHANGED <<next, file, onDisk, requests>>

\* The directory is synchronised: the document is active, the caller is told.
Publishes == /\ at = "renamed"
             /\ onDisk' = {next}
             /\ mem' = next
             /\ up' = TRUE
             /\ at' = "idle"
             /\ acked' = acked + 1
             /\ Answered
             /\ UNCHANGED <<next, file, requests>>

\* Mutant: the queue is the operation itself, without catch.
FailsForGood == /\ at \in {"temp", "renamed"}
                /\ at' = "failed"
                /\ Answered
                /\ UNCHANGED <<mem, up, next, file, onDisk, requests, acked>>

\* A call fails: the caller is told, memory is as it was, and the queue goes on.
\* After the rename the file is not as it was.
Fails == /\ at \in {"temp", "renamed"}
         /\ at' = "idle"
         /\ Answered
         /\ UNCHANGED <<mem, up, next, file, onDisk, requests, acked>>

Dies == up' = FALSE /\ pending' = <<>> /\ at' = "idle"

ProcessCrash == /\ up \/ at # "idle"
                /\ Dies
                /\ UNCHANGED <<mem, next, file, onDisk, requests, acked>>

MachineCrash == /\ Dies
                /\ file' \in onDisk
                /\ onDisk' = {file'}
                /\ UNCHANGED <<mem, next, requests, acked>>

Proceeds == Begins \/ Throws \/ Renames \/ Publishes \/ Fails

RepositoryNext == \/ Opens \/ OpensFresh
                  \/ \E u \in Update : Requests(u)
                  \/ Begins \/ Throws \/ Renames \/ Publishes \/ Fails
                  \/ ProcessCrash \/ MachineCrash

\* Every call on a file ends.
RepositorySpec == RepositoryInit /\ [][RepositoryNext]_repositoryVars /\ WF_repositoryVars(Proceeds)
-----------------------------------------------------------------------------
\* Every variable keeps its type; no file that is found is torn.
DocumentsOK == /\ mem \in Doc /\ next \in Doc
               /\ up \in BOOLEAN
               /\ pending \in Seq(Update)
               /\ at \in {"idle", "temp", "renamed"}
               /\ file \in Doc \cup {Absent}
               /\ onDisk \subseteq Doc \cup {Absent}
               /\ requests \in 0..MaxRequests
               /\ acked \in Nat

active == IF up THEN mem ELSE file

D == INSTANCE DurableStore WITH doc <- active, doubt <- onDisk \ {active}

\* The repository keeps the promise of DurableStore: acknowledged updates survive
\* any crash, in the order of the queue; failed ones come up whole or not at all
\* ("registration intent must survive a host crash", storage.ts:19).
Durable == D!Spec

\* A write that fails does not hold up those behind it (`operation.catch`,
\* json/downloads.ts:107): every update is answered, unless the process dies.
EveryUpdateAnswered == pending # <<>> ~> pending = <<>>
=============================================================================
