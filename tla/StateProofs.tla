---------------------------- MODULE StateProofs ----------------------------
(***************************************************************************)
(* What the durable state promises, each part by itself: the JSON          *)
(* repositories for any documents and updates, the lock of the data        *)
(* directory for any number of processes and starts, the import for any    *)
(* files, contents and cuts, and idempotent creation for any requests and  *)
(* keys.                                                                   *)
(***************************************************************************)
EXTENDS JsonStore, DataDirLock, Import, Idempotency,
        SequenceTheorems, FiniteSetTheorems, TLAPS
-----------------------------------------------------------------------------
\* A JSON repository.
\* What the path names may be what it names after the machine fails; and there is
\* no file only as long as none was ever renamed to its place.
Recoverable == file \in onDisk /\ (file = Absent => onDisk = {Absent})

\* The write at hand is that of the update at the head, applied to memory, or that
\* of the seed.
AtHand == /\ up /\ at # "idle" => pending # <<>> /\ next = Head(pending)[mem]
          /\ ~up /\ at # "idle" => next = Seed
          /\ ~up /\ at = "temp" => file = Absent
          /\ at = "renamed" => file = next

RInv == DocumentsOK /\ Recoverable /\ AtHand

LEMMA RepositoryInitially == RepositoryInit => RInv
<1> SUFFICES ASSUME RepositoryInit PROVE RInv
    OBVIOUS
<1>1. DocumentsOK
  <2>1. pending \in Seq(Update)
    BY EmptySeq DEF RepositoryInit
  <2>2. requests \in 0..MaxRequests
    BY DocAssumption DEF RepositoryInit
  <2> QED BY DocAssumption, <2>1, <2>2 DEF RepositoryInit, DocumentsOK
<1>2. Recoverable /\ AtHand
  BY DocAssumption DEF RepositoryInit, Recoverable, AtHand
<1> QED BY <1>1, <1>2 DEF RInv

\* An update in the queue yields a document.
LEMMA UpdateYields == ASSUME DocumentsOK, pending # <<>>
                      PROVE  Head(pending) \in Update /\ Head(pending)[mem] \in Doc
BY DocAssumption DEF DocumentsOK

LEMMA RepositoryInductive == RInv /\ [RepositoryNext]_repositoryVars => RInv'
<1> SUFFICES ASSUME RInv, [RepositoryNext]_repositoryVars PROVE RInv'
    OBVIOUS
<1>a. DocumentsOK /\ Recoverable /\ AtHand
  BY DEF RInv
<1> USE <1>a, DocAssumption DEF RInv, DocumentsOK, Recoverable, AtHand
<1>1. CASE Opens
  BY <1>1 DEF Opens
<1>2. CASE OpensFresh
  BY <1>2 DEF OpensFresh
<1>3. ASSUME NEW u \in Update, Requests(u) PROVE RInv'
  <2>1. pending' \in Seq(Update) /\ pending' # <<>>
    BY <1>3 DEF Requests
  <2>2. pending # <<>> => Head(pending') = Head(pending)
    BY <1>3 DEF Requests
  <2>3. requests' \in 0..MaxRequests
    BY <1>3 DEF Requests
  <2> QED BY <1>3, <2>1, <2>2, <2>3 DEF Requests
<1>4. CASE Begins
  <2>1. next' \in Doc
    BY <1>4, UpdateYields DEF Begins
  <2> QED BY <1>4, <2>1 DEF Begins
<1>5. CASE Throws
  BY <1>5 DEF Throws
<1>6. CASE Renames
  BY <1>6 DEF Renames
<1>7. CASE Publishes
  <2>1. pending' \in Seq(Update)
    BY <1>7 DEF Publishes, Answered
  <2> QED BY <1>7, <2>1 DEF Publishes
<1>8. CASE Fails
  <2>1. pending' \in Seq(Update)
    BY <1>8 DEF Fails, Answered
  <2> QED BY <1>8, <2>1 DEF Fails
<1>9. CASE ProcessCrash \/ MachineCrash
  <2>1. pending' \in Seq(Update)
    BY <1>9, EmptySeq DEF ProcessCrash, MachineCrash, Dies
  <2> QED BY <1>9, <2>1 DEF ProcessCrash, MachineCrash, Dies
<1>10. CASE UNCHANGED repositoryVars
  BY <1>10 DEF repositoryVars
<1> QED BY <1>1, <1>2, <1>3, <1>4, <1>5, <1>6, <1>7, <1>8, <1>9, <1>10 DEF RepositoryNext

\* Every variable keeps its type, and no crash leaves a torn file
\* (storage.ts:13-18: the contents are on disk before the path names them).
THEOREM DocumentsCorrect == RepositorySpec => []DocumentsOK
<1>1. RInv => DocumentsOK
  BY DEF RInv
<1> QED BY RepositoryInitially, RepositoryInductive, <1>1, PTL DEF RepositorySpec
-----------------------------------------------------------------------------
LEMMA InitiallyDurable == RepositoryInit => D!Init
BY DEF RepositoryInit, D!Init, active

\* Every step is one of DurableStore, or changes nothing there.
LEMMA StepDurable == RInv /\ [RepositoryNext]_repositoryVars => [D!Next]_D!dvars
<1> SUFFICES ASSUME RInv, [RepositoryNext]_repositoryVars PROVE [D!Next]_D!dvars
    OBVIOUS
<1>a. DocumentsOK /\ Recoverable /\ AtHand
  BY DEF RInv
<1> DEFINE stays == active' = active /\ onDisk' \ {active'} = onDisk \ {active} /\ acked' = acked
<1>0. stays => [D!Next]_D!dvars
  BY DEF D!dvars
<1>1. CASE Opens \/ OpensFresh \/ Begins \/ Throws \/ Fails
  BY <1>0, <1>1 DEF Opens, OpensFresh, Begins, Throws, Fails, active
<1>2. ASSUME NEW u \in Update, Requests(u) PROVE stays
  BY <1>2 DEF Requests, active
<1>3. CASE Renames /\ up
  <2>1. Head(pending) \in Update /\ next = Head(pending)[mem]
    BY <1>a, <1>3, UpdateYields DEF Renames, AtHand
  <2>2. D!Surfaces(Head(pending))
    BY <1>a, <1>3, <2>1 DEF Renames, D!Surfaces, active, DocumentsOK
  <2> QED BY <2>1, <2>2 DEF D!Next
<1>4. CASE Renames /\ ~up
  <2>1. D!Seeds
    BY <1>a, <1>4, DocAssumption DEF Renames, D!Seeds, active, Recoverable, AtHand
  <2> QED BY <2>1 DEF D!Next
<1>5. CASE Publishes /\ up
  <2>1. Head(pending) \in Update /\ next = Head(pending)[mem]
    BY <1>a, <1>5, UpdateYields DEF Publishes, AtHand
  <2>2. D!Saves(Head(pending))
    BY <1>a, <1>5, <2>1 DEF Publishes, D!Saves, active, DocumentsOK
  <2> QED BY <2>1, <2>2 DEF D!Next
<1>6. CASE Publishes /\ ~up
  <2>1. D!Settles
    BY <1>a, <1>6 DEF Publishes, D!Settles, active, AtHand
  <2> QED BY <2>1 DEF D!Next
<1>7. CASE ProcessCrash \/ MachineCrash
  <2>1. active' \in {active} \cup (onDisk \ {active})
    BY <1>a, <1>7 DEF ProcessCrash, MachineCrash, Dies, active, Recoverable
  <2>2. onDisk' \subseteq {active} \cup (onDisk \ {active})
    BY <1>a, <1>7 DEF ProcessCrash, MachineCrash, Dies
  <2>3. D!Crash
    BY <1>7, <2>1, <2>2 DEF D!Crash, ProcessCrash, MachineCrash
  <2> QED BY <2>3 DEF D!Next
<1>8. CASE UNCHANGED repositoryVars
  BY <1>0, <1>8 DEF repositoryVars, active
<1> QED BY <1>0, <1>1, <1>2, <1>3, <1>4, <1>5, <1>6, <1>7, <1>8 DEF RepositoryNext

\* The JSON repositories implement the abstract store: acknowledged updates
\* survive every crash (storage.ts, `write` of json/*.ts).
THEOREM RepositoriesAreDurable == RepositorySpec => Durable
<1> QED BY RepositoryInitially, RepositoryInductive, InitiallyDurable, StepDurable, PTL DEF RepositorySpec, Durable, D!Spec
-----------------------------------------------------------------------------
\* The lock of the data directory.
LiveNumbered == \A p \in Proc : Live(p) => pid[p] # 0 /\ token[p] # 0

\* One process starts at a time.
OneStarting == \A p, q \in Proc : stage[p] \in Starting /\ stage[q] \in Starting => p = q

\* A holder's own record is at the path; a file just created is still empty.
HolderRecorded ==
  \A p \in Proc : /\ stage[p] \in Holding => lockFile = [token |-> token[p], pid |-> pid[p]]
                  /\ stage[p] = "writes" => lockFile = [token |-> token[p], pid |-> 0]

\* Whoever creates or removes the file in a start has no holder beside him.
AloneAtTheFile ==
  \A p, q \in Proc : stage[p] \in {"writes", "unlinks"} => stage[q] \notin Holding

TwoAttempts == \A p \in Proc : stage[p] \in Starting => attempt[p] \in 0..1

LInv == LockTypeOK /\ TwoAttempts /\ LiveNumbered /\ OneStarting /\ HolderRecorded /\ AloneAtTheFile /\ AtMostOneHolder

LEMMA LockInitially == LockInit => LInv
BY LockAssumption DEF LockInit, LInv, LockTypeOK, TwoAttempts, LiveNumbered, Live, OneStarting, HolderRecorded, AloneAtTheFile,
   AtMostOneHolder, Starting, Holding

\* Every step keeps the invariant, when starts do not overlap.
LEMMA LockInductive == ~Overlap /\ LInv /\ [LockNext]_lockVars => LInv'
<1> SUFFICES ASSUME ~Overlap, LInv, [LockNext]_lockVars PROVE LInv'
    OBVIOUS
<1>a. /\ MaxStarts \in Nat
      /\ LockTypeOK /\ TwoAttempts /\ LiveNumbered /\ OneStarting /\ HolderRecorded /\ AloneAtTheFile /\ AtMostOneHolder
  BY LockAssumption DEF LInv
<1>1. ASSUME NEW p \in Proc, NEW id \in 1..MaxStarts, StartsUp(p, id) PROVE LInv'
  <2>1. starts + 1 \in 1..MaxStarts
    BY <1>a, <1>1 DEF StartsUp, LockTypeOK
  <2>2. met' \in [Proc -> BOOLEAN]
    <3>1. \A q \in Proc : (IF q = p THEN \E o \in Proc \ {p} : Live(o) ELSE met[q] \/ Live(q)) \in BOOLEAN
      BY DEF Live
    <3> QED BY <1>1, <3>1 DEF StartsUp
  <2>3. LockTypeOK'
    <3>1. pid' \in [Proc -> 0..MaxStarts] /\ token' \in [Proc -> 0..MaxStarts]
      BY <1>a, <1>1, <2>1 DEF StartsUp, LockTypeOK
    <3>2. attempt' \in [Proc -> 0..2] /\ starts' \in 0..MaxStarts
      BY <1>a, <1>1, <2>1 DEF StartsUp, LockTypeOK
    <3>3. stage' \in [Proc -> Starting \cup Holding \cup {"refused", "ended"}]
      BY <1>a, <1>1 DEF StartsUp, LockTypeOK, LockGoes, Starting
    <3> QED BY <1>a, <1>1, <2>2, <3>1, <3>2, <3>3 DEF StartsUp, LockTypeOK
  <2>4. TwoAttempts' /\ LiveNumbered' /\ OneStarting' /\ HolderRecorded' /\ AloneAtTheFile' /\ AtMostOneHolder'
    BY <1>a, <1>1, <2>1 DEF StartsUp, LockTypeOK, LockGoes, Live, TwoAttempts, LiveNumbered, OneStarting, HolderRecorded, AloneAtTheFile,
       AtMostOneHolder, Starting, Holding
  <2> QED BY <2>3, <2>4 DEF LInv
<1>2. ASSUME NEW p \in Proc, OpensLock(p) PROVE LInv'
  <2>1. token[p] \in 1..MaxStarts /\ stage[p] = "opens"
    BY <1>a, <1>2 DEF OpensLock, LockTypeOK, LiveNumbered, Live, Starting
  <2>2. LockTypeOK'
    <3>1. lockFile' \in LockFile \cup {NoFile}
      <4>1. [token |-> token[p], pid |-> 0] \in LockFile
        BY <1>a, <2>1 DEF LockFile
      <4> QED BY <1>a, <1>2, <4>1 DEF OpensLock, LockTypeOK
    <3>2. stage' \in [Proc -> Starting \cup Holding \cup {"refused", "ended"}]
      BY <1>a, <1>2 DEF OpensLock, LockTypeOK, LockGoes, Starting
    <3> QED BY <1>a, <1>2, <3>1, <3>2 DEF OpensLock, LockTypeOK
  <2>3. TwoAttempts' /\ LiveNumbered' /\ OneStarting' /\ AtMostOneHolder'
    BY <1>a, <1>2 DEF OpensLock, LockTypeOK, LockGoes, Live, TwoAttempts, LiveNumbered, OneStarting, AtMostOneHolder, Starting, Holding
  <2>4. CASE lockFile = NoFile
    <3>1. \A q \in Proc : stage[q] \notin Holding /\ stage[q] # "writes"
      <4> SUFFICES ASSUME NEW q \in Proc, stage[q] \in Holding \/ stage[q] = "writes" PROVE FALSE
        OBVIOUS
      <4>1. token[q] \in 1..MaxStarts /\ pid[q] \in 0..MaxStarts
        BY <1>a DEF LockTypeOK, LiveNumbered, Live, Starting
      <4>2. [token |-> token[q], pid |-> pid[q]] \in LockFile /\ [token |-> token[q], pid |-> 0] \in LockFile
        BY <1>a, <4>1 DEF LockFile
      <4> QED BY <1>a, <2>4, <4>2, NoFileAssumption DEF HolderRecorded
    <3> QED BY <1>a, <1>2, <2>2, <2>3, <2>4, <3>1
        DEF LInv, OpensLock, LockTypeOK, LockGoes, HolderRecorded, AloneAtTheFile, Starting, Holding
  <2>5. CASE lockFile # NoFile
    <3>1. HolderRecorded' /\ AloneAtTheFile'
      BY <1>a, <1>2, <2>5 DEF OpensLock, LockTypeOK, LockGoes, HolderRecorded, AloneAtTheFile, Starting, Holding
    <3> QED BY <2>2, <2>3, <3>1 DEF LInv
  <2> QED BY <2>4, <2>5
<1>3. ASSUME NEW p \in Proc, Writes(p) PROVE LInv'
  <2>1. /\ stage[p] = "writes"
        /\ lockFile = [token |-> token[p], pid |-> 0]
        /\ \A q \in Proc : stage[q] \notin Holding
        /\ \A q \in Proc : stage[q] \in Starting => q = p
    BY <1>a, <1>3 DEF Writes, HolderRecorded, AloneAtTheFile, OneStarting, Starting
  <2>2. token[p] \in 1..MaxStarts /\ pid[p] \in 0..MaxStarts
    BY <1>a, <2>1 DEF LockTypeOK, LiveNumbered, Live, Starting
  <2>3. lockFile' = [token |-> token[p], pid |-> pid[p]]
    <3>1. lockFile \in LockFile
      BY <1>a, <2>1, <2>2 DEF LockFile
    <3> QED BY <1>3, <2>1, <3>1, NoFileAssumption DEF Writes
  <2>4. LockTypeOK'
    BY <1>a, <1>3, <2>2, <2>3 DEF Writes, LockTypeOK, LockGoes, LockFile, Starting, Holding
  <2>5. TwoAttempts' /\ LiveNumbered' /\ OneStarting' /\ HolderRecorded' /\ AloneAtTheFile' /\ AtMostOneHolder'
    BY <1>a, <1>3, <2>1, <2>3 DEF Writes, LockTypeOK, LockGoes, Live, TwoAttempts, LiveNumbered, OneStarting, HolderRecorded,
       AloneAtTheFile, AtMostOneHolder, Starting, Holding
  <2> QED BY <2>4, <2>5 DEF LInv
<1>4. ASSUME NEW p \in Proc, ReadsLock(p) PROVE LInv'
  <2>1. LockTypeOK'
    BY <1>a, <1>4 DEF ReadsLock, LockTypeOK, LockGoes, Starting, Holding
  <2>2. TwoAttempts' /\ LiveNumbered' /\ OneStarting' /\ HolderRecorded' /\ AtMostOneHolder'
    BY <1>a, <1>4 DEF ReadsLock, LockTypeOK, LockGoes, Live, TwoAttempts, LiveNumbered, OneStarting, HolderRecorded, AtMostOneHolder,
       Starting, Holding
  <2>3. ASSUME NEW q \in Proc, stage[q] \in Holding PROVE stage' = [stage EXCEPT ![p] = "refused"]
    <3>1. lockFile = [token |-> token[q], pid |-> pid[q]] /\ Live(q) /\ pid[q] # 0
      BY <1>a, <2>3 DEF HolderRecorded, LiveNumbered, Live
    <3>2. lockFile # NoFile
      BY <1>a, <3>1, NoFileAssumption DEF LockTypeOK, LockFile, LiveNumbered
    <3> QED BY <1>4, <3>1, <3>2 DEF ReadsLock, processExists, LockGoes
  <2>4. AloneAtTheFile'
    BY <1>a, <1>4, <2>3 DEF ReadsLock, LockTypeOK, LockGoes, AloneAtTheFile, Holding
  <2> QED BY <2>1, <2>2, <2>4 DEF LInv
<1>5. ASSUME NEW p \in Proc, Unlinks(p) PROVE LInv'
  <2>1. /\ stage[p] = "unlinks"
        /\ \A q \in Proc : stage[q] \notin Holding
        /\ \A q \in Proc : stage[q] \in Starting => q = p
    BY <1>a, <1>5 DEF Unlinks, AloneAtTheFile, OneStarting, Starting
  <2>2. attempt[p] \in 0..1
    BY <1>a, <2>1 DEF TwoAttempts, Starting
  <2>3. LockTypeOK'
    BY <1>a, <1>5, <2>2 DEF Unlinks, LockTypeOK, LockGoes, Starting
  <2>4. TwoAttempts' /\ LiveNumbered' /\ OneStarting' /\ HolderRecorded' /\ AloneAtTheFile' /\ AtMostOneHolder'
    BY <1>a, <1>5, <2>1, <2>2 DEF Unlinks, LockTypeOK, LockGoes, Live, TwoAttempts, LiveNumbered, OneStarting,
       HolderRecorded, AloneAtTheFile, AtMostOneHolder, Starting, Holding
  <2> QED BY <2>3, <2>4 DEF LInv
<1>6. ASSUME NEW p \in Proc, Removes(p) PROVE LInv'
  <2>1. /\ stage[p] = "removes"
        /\ \A q \in Proc : q # p => stage[q] \notin Holding
        /\ \A q \in Proc : stage[q] # "writes" /\ stage[q] # "unlinks"
    BY <1>a, <1>6 DEF Removes, AtMostOneHolder, AloneAtTheFile, Holding
  <2>2. LockTypeOK'
    BY <1>a, <1>6 DEF Removes, LockTypeOK, LockGoes
  <2>3. TwoAttempts' /\ LiveNumbered' /\ OneStarting' /\ HolderRecorded' /\ AloneAtTheFile' /\ AtMostOneHolder'
    BY <1>a, <1>6, <2>1 DEF Removes, LockTypeOK, LockGoes, Live, TwoAttempts, LiveNumbered, OneStarting, HolderRecorded, AloneAtTheFile,
       AtMostOneHolder, Starting, Holding
  <2> QED BY <2>2, <2>3 DEF LInv
<1>7. ASSUME NEW p \in Proc, WriteFails(p) \/ Stops(p) \/ Closes(p) \/ Killed(p) PROVE LInv'
  <2>1. LockTypeOK'
    BY <1>a, <1>7 DEF WriteFails, Stops, Closes, Killed, LockTypeOK, LockGoes, Holding
  <2>2. TwoAttempts' /\ LiveNumbered' /\ OneStarting' /\ HolderRecorded' /\ AloneAtTheFile' /\ AtMostOneHolder'
    BY <1>a, <1>7 DEF WriteFails, Stops, Closes, Killed, LockTypeOK, LockGoes, Live, TwoAttempts, LiveNumbered, OneStarting,
       HolderRecorded, AloneAtTheFile, AtMostOneHolder, Starting, Holding
  <2> QED BY <2>1, <2>2 DEF LInv
<1>8. ASSUME UNCHANGED lockVars PROVE LInv'
  BY <1>8 DEF lockVars, LInv, LockTypeOK, TwoAttempts, LiveNumbered, Live, OneStarting, HolderRecorded, AloneAtTheFile, AtMostOneHolder
<1> QED BY <1>1, <1>2, <1>3, <1>4, <1>5, <1>6, <1>7, <1>8 DEF LockNext

\* Two processes never have the data directory at once (lock.ts:29-62), when no
\* two of them start at the same time.
THEOREM OneHolder == ~Overlap => (LockSpec => []AtMostOneHolder)
<1> SUFFICES ASSUME ~Overlap PROVE LockSpec => []AtMostOneHolder
    OBVIOUS
<1>1. LInv /\ [LockNext]_lockVars => LInv'
  BY LockInductive
<1>2. LInv => AtMostOneHolder
  BY DEF LInv
<1> QED BY LockInitially, <1>1, <1>2, PTL DEF LockSpec
-----------------------------------------------------------------------------
\* An id, once given, names its start, and so does the file.
FreshIds == /\ \A p \in Proc : Live(p) => pid[p] = token[p] /\ token[p] <= starts
            /\ lockFile # NoFile => lockFile.pid \in {0, lockFile.token} /\ lockFile.token <= starts

\* A file that a start finds is not its own.
NotItsOwn == \A p \in Proc : stage[p] \in {"opens", "reads", "unlinks"} /\ lockFile # NoFile => lockFile.token # token[p]

\* Of two that live, each has met the other.
Company == \A p, q \in Proc : p # q /\ Live(p) /\ Live(q) => met[p]

\* Nobody takes the file away from a start that is alone.
Alone ==
  \A p \in Proc :
    ~met[p] => /\ stage[p] \in {"reads", "unlinks"} => lockFile # NoFile /\ attempt[p] = 0
               /\ stage[p] = "opens" /\ attempt[p] # 0 => lockFile = NoFile

JInv == LInv /\ FreshIds /\ NotItsOwn /\ Company /\ Alone /\ RefusedByTheLiving

LEMMA LeftLockInitially == LockInit => JInv
BY LockInitially DEF LockInit, JInv, FreshIds, NotItsOwn, Company, Alone, RefusedByTheLiving, Live, Starting, Holding

LEMMA LeftLockInductive == ~Overlap /\ ~Reuse /\ JInv /\ [LockNext]_lockVars => JInv'
<1> SUFFICES ASSUME ~Overlap, ~Reuse, JInv, [LockNext]_lockVars PROVE JInv'
    OBVIOUS
<1>a. /\ LockTypeOK /\ OneStarting /\ LiveNumbered /\ TwoAttempts
      /\ FreshIds /\ NotItsOwn /\ Company /\ Alone /\ RefusedByTheLiving
  BY DEF JInv, LInv
<1>b. LInv' /\ LockTypeOK'
  BY LockInductive DEF JInv, LInv
<1>c. /\ starts \in Nat
      /\ \A p \in Proc : token[p] \in Nat /\ pid[p] \in Nat
      /\ lockFile # NoFile => lockFile \in LockFile /\ lockFile.token \in Nat /\ lockFile.pid \in Nat
  BY <1>a, LockAssumption DEF LockTypeOK, LockFile
<1> USE <1>a, <1>c
<1>1. ASSUME NEW p \in Proc, NEW id \in 1..MaxStarts, StartsUp(p, id) PROVE JInv'
  <2> USE <1>1 DEF StartsUp, LockGoes, LockTypeOK
  <2>1. FreshIds' /\ NotItsOwn'
    BY DEF FreshIds, NotItsOwn, Live, Starting, Holding
  <2>2. Company'
    BY DEF Company, Live, Starting, Holding
  <2>3. Alone' /\ RefusedByTheLiving'
    BY DEF Alone, RefusedByTheLiving, Live, Starting, Holding
  <2> QED BY <1>b, <2>1, <2>2, <2>3 DEF JInv
<1>2. ASSUME NEW p \in Proc, OpensLock(p) PROVE JInv'
  <2> USE <1>2 DEF OpensLock, LockGoes, LockTypeOK
  <2>0. \A q \in Proc : stage[q] \in Starting => q = p
    BY DEF OneStarting, Starting
  <2>1. FreshIds' /\ NotItsOwn'
    BY <2>0 DEF FreshIds, NotItsOwn, Live, Starting, Holding
  <2>2. Company' /\ RefusedByTheLiving'
    BY DEF Company, RefusedByTheLiving, Live, Starting, Holding
  <2>3. Alone'
    BY <2>0 DEF Alone, TwoAttempts, Starting
  <2> QED BY <1>b, <2>1, <2>2, <2>3 DEF JInv
<1>3. ASSUME NEW p \in Proc, Writes(p) PROVE JInv'
  <2> USE <1>3 DEF Writes, LockGoes, LockTypeOK
  <2>0. \A q \in Proc : stage[q] \in Starting => q = p
    BY DEF OneStarting, Starting
  <2>4. /\ lockFile = NoFile <=> lockFile' = NoFile
        /\ lockFile' # NoFile => lockFile'.token = lockFile.token /\ lockFile'.pid \in {lockFile.pid, pid[p]}
        /\ lockFile' # NoFile => lockFile'.pid = lockFile.pid \/ lockFile.token = token[p]
    BY NoFileAssumption, <1>b DEF LockFile
  <2>1. FreshIds' /\ NotItsOwn'
    BY <2>0, <2>4 DEF FreshIds, NotItsOwn, Live, Starting, Holding
  <2>2. Company' /\ Alone' /\ RefusedByTheLiving'
    BY <2>0, <2>4 DEF Company, Alone, RefusedByTheLiving, Live, Starting, Holding
  <2> QED BY <1>b, <2>1, <2>2 DEF JInv
<1>4. ASSUME NEW p \in Proc, ReadsLock(p) PROVE JInv'
  <2> USE <1>4 DEF ReadsLock, LockGoes, LockTypeOK
  <2>1. FreshIds' /\ NotItsOwn' /\ Company' /\ Alone'
    BY DEF FreshIds, NotItsOwn, Company, Alone, Live, Starting, Holding
  <2>2. ASSUME stage' = [stage EXCEPT ![p] = "refused"] PROVE met[p]
    <3>1. lockFile # NoFile /\ lockFile.pid # 0 /\ processExists(lockFile.pid)
      BY <2>2
    <3>2. PICK q \in Proc : Live(q) /\ pid[q] = lockFile.pid
      BY <3>1 DEF processExists
    <3>3. q # p
      BY <3>1, <3>2 DEF FreshIds, NotItsOwn, Live, Starting
    <3> QED BY <3>2, <3>3 DEF Company, Live, Starting
  <2>3. RefusedByTheLiving'
    BY <2>2 DEF RefusedByTheLiving
  <2> QED BY <1>b, <2>1, <2>3 DEF JInv
<1>5. ASSUME NEW p \in Proc, Unlinks(p) PROVE JInv'
  <2> USE <1>5 DEF Unlinks, LockGoes, LockTypeOK
  <2>0. \A q \in Proc : stage[q] \in Starting => q = p
    BY DEF OneStarting, Starting
  <2>1. FreshIds' /\ NotItsOwn' /\ Company'
    BY DEF FreshIds, NotItsOwn, Company, Live, Starting, Holding
  <2>2. ASSUME ~met[p] PROVE stage' = [stage EXCEPT ![p] = "opens"]
    <3>1. lockFile # NoFile /\ attempt[p] = 0
      BY <2>2 DEF Alone
    <3>2. ~(lockFile = NoFile \/ attempt[p] = 1)
      BY <3>1
    <3> QED BY <3>2
  <2>3. RefusedByTheLiving'
    BY <2>2 DEF RefusedByTheLiving
  <2>4. Alone'
    <3> SUFFICES ASSUME NEW q \in Proc, ~met'[q]
                 PROVE /\ stage'[q] \in {"reads", "unlinks"} => lockFile' # NoFile /\ attempt'[q] = 0
                       /\ stage'[q] = "opens" /\ attempt'[q] # 0 => lockFile' = NoFile
      BY DEF Alone
    <3>1. CASE q = p
      BY <2>2, <3>1
    <3>2. CASE q # p
      <4>1. stage'[q] = stage[q] /\ stage[q] \notin Starting
        BY <2>0, <3>2
      <4> QED BY <4>1 DEF Starting
    <3> QED BY <3>1, <3>2
  <2> QED BY <1>b, <2>1, <2>3, <2>4 DEF JInv
<1>6. ASSUME NEW p \in Proc, Removes(p) PROVE JInv'
  <2> USE <1>6 DEF Removes, LockGoes, LockTypeOK
  <2>1. FreshIds' /\ NotItsOwn' /\ Company' /\ RefusedByTheLiving'
    BY DEF FreshIds, NotItsOwn, Company, RefusedByTheLiving, Live, Starting, Holding
  <2>2. \A q \in Proc : stage[q] \in Starting => met[q]
    BY DEF Company, Live, Starting, Holding
  <2>3. Alone'
    BY <2>2 DEF Alone, Starting
  <2> QED BY <1>b, <2>1, <2>3 DEF JInv
<1>7. ASSUME NEW p \in Proc, WriteFails(p) \/ Stops(p) \/ Closes(p) \/ Killed(p) PROVE JInv'
  <2>1. FreshIds' /\ NotItsOwn' /\ Company' /\ Alone' /\ RefusedByTheLiving'
    <3>0. /\ UNCHANGED <<lockFile, pid, token, attempt, starts, met>>
          /\ \E to \in {"ended", "closes", "removes"} : stage' = [stage EXCEPT ![p] = to]
          /\ Live(p)
      BY <1>7 DEF WriteFails, Stops, Closes, Killed, LockGoes, Live, Starting, Holding
    <3>1. \A q \in Proc : /\ Live(q)' => Live(q)
                          /\ stage'[q] \in Starting \cup {"refused"} => stage'[q] = stage[q]
      BY <3>0 DEF LockTypeOK, Live, Starting, Holding
    <3>2. FreshIds' /\ Company'
      BY <3>0, <3>1 DEF FreshIds, Company
    <3>3. NotItsOwn' /\ Alone' /\ RefusedByTheLiving'
      BY <3>0, <3>1 DEF NotItsOwn, Alone, RefusedByTheLiving, Starting
    <3> QED BY <3>2, <3>3
  <2> QED BY <1>b, <2>1 DEF JInv
<1>8. ASSUME UNCHANGED lockVars PROVE JInv'
  BY <1>b, <1>8 DEF lockVars, JInv, FreshIds, NotItsOwn, Company, Alone, RefusedByTheLiving, Live
<1> QED BY <1>1, <1>2, <1>3, <1>4, <1>5, <1>6, <1>7, <1>8 DEF LockNext

\* No lock that a crash leaves keeps the program from starting again
\* (docs/operations.md:81), when ids are not used again and starts do not overlap.
THEOREM NoLockLeftBehind == ~Overlap /\ ~Reuse => (LockSpec => []RefusedByTheLiving)
<1> SUFFICES ASSUME ~Overlap, ~Reuse PROVE LockSpec => []RefusedByTheLiving
    OBVIOUS
<1>1. JInv /\ [LockNext]_lockVars => JInv'
  BY LeftLockInductive
<1>2. JInv => RefusedByTheLiving
  BY DEF JInv
<1> QED BY LeftLockInitially, <1>1, <1>2, PTL DEF LockSpec
-----------------------------------------------------------------------------
\* Start and import.
\* Until the database is established the files hold what was served.
FilesHold == \A f \in Files : truth[f] # NoDocument => json[f] # NoDocument /\ json[f].data = truth[f]

\* From then on the tables do.
TablesHold == \A f \in Imported : truth[f] # NoDocument => db.data[f] = truth[f]

\* The files that have been opened are there, with what is in memory.
OpenedUpTo(m) == \A f \in 1..m : json[f] # NoDocument /\ held[f] = json[f].data

\* Without settings nothing was served.
SettingsFirst == truth[1] = NoDocument => \A f \in Files : truth[f] = NoDocument

\* What is relied on at each place.
AtPlace == /\ phase = "opens" => ~db.established /\ n \in 1..LastFile /\ OpenedUpTo(n - 1)
           /\ phase = "commits" => ~db.established /\ OpenedUpTo(NImported) /\ driver = "sqlite"
           /\ phase \in {"moves", "seeds"} => db.established /\ driver = "sqlite"
           /\ phase = "serves" => /\ \A f \in Files : truth[f] # NoDocument
                                  /\ Continuity
                                  /\ driver = "json" => ~db.established
                                  /\ driver = "sqlite" => db.established

MInv == /\ ImportTypeOK
        /\ settled => db.established
        /\ SettingsFirst
        /\ ~db.established => FilesHold
        /\ db.established => TablesHold
        /\ AtPlace

USE DEF Files, Imported, Document

LEMMA ImportInitially == ImportInit => MInv
<1> SUFFICES ASSUME ImportInit PROVE MInv
  OBVIOUS
<1> USE ImportAssumption, AbsentAssumption
<1>1. \A f \in Files : json[f] # NoDocument => json[f] \in Document /\ json[f].data \in Contents
  BY DEF ImportInit
<1>2. truth \in [Files -> Contents \cup {NoDocument}] /\ FilesHold
  BY <1>1 DEF ImportInit, FilesHold
<1>3. db \in [established : BOOLEAN, imported : BOOLEAN, data : [Files -> Contents \cup {NoDocument}]]
      /\ ~db.established
  BY DEF ImportInit
<1>4. SettingsFirst
  <2>1. CASE json[1] = NoDocument
    BY <2>1 DEF ImportInit, SettingsFirst
  <2>2. CASE json[1] # NoDocument
    <3>1. truth[1] = json[1].data /\ json[1] \in Document
      BY <2>2 DEF ImportInit
    <3> QED
      BY <3>1 DEF SettingsFirst
  <2> QED
    BY <2>1, <2>2
<1>5. ImportTypeOK
  <2>1. 1 \in Files /\ held \in [Files -> Contents \cup {NoDocument}] /\ json \in [Files -> Document \cup {NoDocument}]
    BY DEF ImportInit
  <2>2. phase = "down" /\ n = 1 /\ driver = "sqlite" /\ settled = FALSE
    BY DEF ImportInit
  <2> QED
    BY <1>2, <1>3, <2>1, <2>2 DEF ImportTypeOK
<1> QED
  BY <1>2, <1>3, <1>4, <1>5 DEF ImportInit, MInv, AtPlace

\* Opening the next file, found or seeded.
LEMMA OpensNext ==
  ASSUME MInv, ~Back, phase = "opens", UNCHANGED <<db, driver, settled>>,
         NEW d \in Document, json' = [json EXCEPT ![n] = d],
         truth[n] # NoDocument => d.data = truth[n],
         Opened([held EXCEPT ![n] = d.data])
  PROVE  MInv'
<1> DEFINE h == [held EXCEPT ![n] = d.data]
<1> USE ImportAssumption, AbsentAssumption
<1>1. /\ ~db.established /\ n \in 1..LastFile /\ OpenedUpTo(n - 1)
      /\ ImportTypeOK /\ FilesHold /\ SettingsFirst /\ LastFile \in {NImported, NFiles} /\ LastFile \in Nat
  BY DEF MInv, AtPlace, LastFile
<1>2. json' \in [Files -> Document \cup {NoDocument}] /\ h \in [Files -> Contents \cup {NoDocument}] /\ held' = h
  BY <1>1 DEF ImportTypeOK, Opened
<1>3. \A f \in 1..n : json'[f] # NoDocument /\ h[f] = json'[f].data
  BY <1>1, <1>2 DEF ImportTypeOK, OpenedUpTo
<1>4. \A f \in Files : truth[f] # NoDocument => json'[f] # NoDocument /\ json'[f].data = truth[f]
  BY <1>1, <1>2 DEF ImportTypeOK, FilesHold
<1>5. CASE n < LastFile
  <2>1. phase' = "opens" /\ n' = n + 1 /\ truth' = truth
    BY <1>5 DEF Opened, ImportGoes
  <2>2. ImportTypeOK'
    BY <1>1, <1>2, <1>5, <2>1 DEF ImportTypeOK
  <2>3. n' \in 1..LastFile' /\ OpenedUpTo(n - 1)'
    BY <1>1, <1>2, <1>3, <1>5, <2>1 DEF OpenedUpTo, LastFile
  <2>4. FilesHold'
    BY <1>4, <2>1 DEF FilesHold
  <2> QED
    BY <1>1, <2>1, <2>2, <2>3, <2>4 DEF MInv, SettingsFirst, AtPlace, OpenedUpTo, LastFile, Continuity, Serves
<1>6. CASE n >= LastFile /\ driver = "sqlite"
  <2>1. phase' = "commits" /\ n' = 1 /\ truth' = truth /\ n = NImported
    BY <1>1, <1>6 DEF Opened, ImportGoes, LastFile
  <2>2. ImportTypeOK'
    BY <1>1, <1>2, <2>1 DEF ImportTypeOK
  <2>3. OpenedUpTo(NImported)'
    BY <1>2, <1>3, <2>1 DEF OpenedUpTo
  <2>4. FilesHold'
    BY <1>4, <2>1 DEF FilesHold
  <2> QED
    BY <1>1, <1>6, <2>1, <2>2, <2>3, <2>4 DEF MInv, SettingsFirst, AtPlace, Continuity, Serves
<1>7. CASE n >= LastFile /\ driver # "sqlite"
  <2>1. /\ phase' = "serves" /\ n' = 1 /\ n = NFiles
        /\ truth' = [f \in Files |-> IF truth[f] = NoDocument THEN h[f] ELSE truth[f]]
    BY <1>1, <1>7 DEF Opened, ImportGoes, LastFile, ImportTypeOK
  <2>2. \A f \in Files : h[f] \in Contents /\ json'[f] # NoDocument /\ h[f] = json'[f].data
    BY <1>2, <1>3, <2>1
  <2>3. \A f \in Files : truth'[f] = h[f] /\ truth'[f] # NoDocument
    BY <1>1, <1>4, <2>1, <2>2 DEF ImportTypeOK
  <2>4. ImportTypeOK'
    BY <1>1, <1>2, <2>1, <2>2, <2>3 DEF ImportTypeOK
  <2>5. FilesHold' /\ Continuity'
    BY <1>2, <2>2, <2>3 DEF FilesHold, Continuity, Serves
  <2> QED
    BY <1>1, <1>7, <2>1, <2>3, <2>4, <2>5 DEF MInv, SettingsFirst, AtPlace
<1> QED
  BY <1>1, <1>5, <1>6, <1>7 DEF ImportTypeOK

LEMMA ImportStep == ~Back /\ MInv /\ [ImportNext]_importVars => MInv'
<1> SUFFICES ASSUME ~Back, MInv, [ImportNext]_importVars PROVE MInv'
  OBVIOUS
<1> USE ImportAssumption, AbsentAssumption
<1>a. ImportTypeOK
  BY DEF MInv
<1>1. CASE StartJson
  <2>1. ~db.established /\ FilesHold
    BY <1>1 DEF StartJson, MInv
  <2>2. ImportTypeOK'
    BY <1>1, <1>a DEF StartJson, ImportGoes, ImportTypeOK
  <2> QED
    BY <1>1, <2>1, <2>2
       DEF StartJson, ImportGoes, MInv, SettingsFirst, FilesHold, AtPlace, OpenedUpTo, LastFile, Continuity, Serves
<1>2. CASE StartSqlite
  <2>1. ImportTypeOK'
    <3>1. db' \in {db, [db EXCEPT !.established = TRUE]} /\ phase' \in {"seeds", "opens"} /\ n' = 1
      BY <1>2 DEF StartSqlite, ImportGoes
    <3>2. db' \in [established : BOOLEAN, imported : BOOLEAN, data : [Files -> Contents \cup {NoDocument}]]
      BY <3>1, <1>a DEF ImportTypeOK
    <3> QED
      BY <1>2, <1>a, <3>1, <3>2 DEF StartSqlite, ImportTypeOK
  <2>2. CASE db.established \/ json[1] = NoDocument
    <3>1. /\ phase' = "seeds" /\ driver' = "sqlite" /\ db' = [db EXCEPT !.established = TRUE]
          /\ UNCHANGED <<json, settled, truth>>
      BY <1>2, <2>2 DEF StartSqlite, ImportGoes
    <3>2. db'.established /\ db'.data = db.data
      BY <3>1, <1>a DEF ImportTypeOK
    <3>3. TablesHold
      <4>1. CASE db.established
        BY <4>1 DEF MInv
      <4>2. CASE ~db.established
        BY <2>2, <4>2 DEF MInv, FilesHold, SettingsFirst, TablesHold
      <4> QED
        BY <4>1, <4>2
    <3> QED
      BY <2>1, <3>1, <3>2, <3>3 DEF MInv, SettingsFirst, TablesHold, AtPlace, Continuity, Serves
  <2>3. CASE ~(db.established \/ json[1] = NoDocument)
    <3>1. /\ phase' = "opens" /\ n' = 1 /\ driver' = "sqlite"
          /\ UNCHANGED <<db, json, settled, truth>>
      BY <1>2, <2>3 DEF StartSqlite, ImportGoes
    <3> QED
      BY <2>1, <2>3, <3>1
         DEF MInv, SettingsFirst, FilesHold, AtPlace, OpenedUpTo, LastFile, Continuity, Serves
  <2> QED
    BY <2>2, <2>3
<1>3. CASE ReadsFile
  <2> DEFINE d == IF n \in Rewritten THEN [json[n] EXCEPT !.legacy = FALSE] ELSE json[n]
  <2>0. n \in Files /\ json[n] \in Document
    BY <1>3, <1>a DEF ReadsFile, ImportTypeOK
  <2>1. n \in Files /\ json[n] \in Document /\ d \in Document /\ d.data = json[n].data
    <3>1. [json[n] EXCEPT !.legacy = FALSE] \in Document /\ [json[n] EXCEPT !.legacy = FALSE].data = json[n].data
      BY <2>0
    <3> QED
      BY <2>0, <3>1
  <2>2. json' = [json EXCEPT ![n] = d]
    <3>1. CASE n \in Rewritten
      BY <1>3, <3>1 DEF ReadsFile
    <3>2. CASE n \notin Rewritten
      <4>1. json' = json /\ d = json[n]
        BY <1>3, <3>2 DEF ReadsFile
      <4>2. json = [json EXCEPT ![n] = json[n]]
        BY <1>a, <2>1 DEF ImportTypeOK
      <4> QED
        BY <4>1, <4>2
    <3> QED
      BY <3>1, <3>2
  <2>3. truth[n] # NoDocument => d.data = truth[n]
    BY <1>3, <2>1 DEF ReadsFile, MInv, AtPlace, FilesHold
  <2>4. Opened([held EXCEPT ![n] = d.data]) /\ phase = "opens" /\ UNCHANGED <<db, driver, settled>>
    BY <1>3, <2>1 DEF ReadsFile
  <2> HIDE DEF d
  <2> QED
    BY <2>1, <2>2, <2>3, <2>4, OpensNext
<1>4. CASE SeedsFile
  <2> DEFINE d == [legacy |-> FALSE, data |-> Fresh]
  <2>1. n \in Files /\ d \in Document /\ d.data = Fresh
    BY <1>a DEF ImportTypeOK
  <2>2. truth[n] = NoDocument
    BY <1>4, <2>1 DEF SeedsFile, MInv, AtPlace, FilesHold
  <2>3. /\ json' = [json EXCEPT ![n] = d] /\ Opened([held EXCEPT ![n] = d.data])
        /\ phase = "opens" /\ UNCHANGED <<db, driver, settled>>
    BY <1>4 DEF SeedsFile
  <2> HIDE DEF d
  <2> QED
    BY <2>1, <2>2, <2>3, OpensNext
<1>5. CASE Commits
  <2>1. /\ ~db.established /\ OpenedUpTo(NImported) /\ driver = "sqlite" /\ FilesHold /\ SettingsFirst
        /\ phase' = "moves" /\ n' = 1 /\ UNCHANGED <<json, driver, held, settled, truth>>
    BY <1>5 DEF Commits, ImportGoes, MInv, AtPlace
  <2>2. db'.established /\ \A f \in Imported : db'.data[f] = held[f]
    BY <1>5 DEF Commits
  <2>3. ImportTypeOK'
    BY <1>5, <1>a, <2>1 DEF Commits, ImportTypeOK
  <2>4. TablesHold'
    BY <2>1, <2>2 DEF TablesHold, FilesHold, OpenedUpTo
  <2> QED
    BY <2>1, <2>2, <2>3, <2>4 DEF MInv, SettingsFirst, AtPlace, Continuity, Serves
<1>6. CASE Moves
  <2>1. db.established /\ driver = "sqlite" /\ TablesHold /\ n \in Imported
    BY <1>6, <1>a DEF Moves, MInv, AtPlace, ImportTypeOK
  <2>2. phase' \in {"moves", "seeds"} /\ UNCHANGED <<db, driver, held, settled, truth>>
    BY <1>6 DEF Moves, ImportGoes
  <2>3. ImportTypeOK'
    BY <1>6, <1>a, <2>1 DEF Moves, ImportGoes, ImportTypeOK
  <2> QED
    BY <2>1, <2>2, <2>3 DEF MInv, SettingsFirst, TablesHold, AtPlace, Continuity, Serves
<1>7. CASE OpensTables
  <2>1. /\ db.established /\ driver = "sqlite" /\ TablesHold /\ ImportTypeOK
        /\ phase' = "serves" /\ n' = 1 /\ settled' /\ UNCHANGED <<json, driver>>
    BY <1>7, <1>a DEF OpensTables, ImportGoes, MInv, AtPlace
  <2>2. /\ db' = [db EXCEPT !.data = [f \in Files |-> IF db.data[f] = NoDocument THEN Fresh ELSE db.data[f]]]
        /\ held' = db'.data
        /\ truth' = [f \in Files |-> IF truth[f] = NoDocument THEN held'[f] ELSE truth[f]]
    BY <1>7 DEF OpensTables
  <2>3. /\ db'.established /\ db'.imported = db.imported
        /\ db'.data = [f \in Files |-> IF db.data[f] = NoDocument THEN Fresh ELSE db.data[f]]
        /\ db' \in [established : BOOLEAN, imported : BOOLEAN, data : [Files -> Contents]]
    BY <2>1, <2>2 DEF ImportTypeOK
  <2>4. \A f \in Files : truth'[f] \in Contents /\ truth'[f] # NoDocument
    BY <2>1, <2>2, <2>3 DEF ImportTypeOK
  <2>5. \A f \in Imported : db'.data[f] = truth'[f]
    BY <2>1, <2>2, <2>3 DEF TablesHold, ImportTypeOK
  <2>6. ImportTypeOK'
    <3>1. /\ db' \in [established : BOOLEAN, imported : BOOLEAN, data : [Files -> Contents \cup {NoDocument}]]
          /\ held' \in [Files -> Contents \cup {NoDocument}]
      BY <2>2, <2>3
    <3>2. truth' \in [Files -> Contents \cup {NoDocument}]
      BY <2>2, <2>4
    <3> QED
      BY <2>1, <3>1, <3>2 DEF ImportTypeOK
  <2> QED
    BY <2>1, <2>2, <2>3, <2>4, <2>5, <2>6 DEF MInv, SettingsFirst, TablesHold, AtPlace, Continuity, Serves
<1>8. ASSUME NEW f \in Files, NEW v \in Contents, Updates(f, v) PROVE MInv'
  <2>1. /\ phase = "serves" /\ UNCHANGED <<phase, n, driver, settled>>
        /\ held' = [held EXCEPT ![f] = v] /\ truth' = [truth EXCEPT ![f] = v]
        /\ (driver = "json") = ~db.established
        /\ \A g \in Files : truth[g] # NoDocument
        /\ \A g \in Imported : held[g] = truth[g]
    BY <1>8, <1>a DEF Updates, MInv, AtPlace, Continuity, Serves, ImportTypeOK
  <2>2. \A g \in Files : truth'[g] # NoDocument /\ (g \in Imported => held'[g] = truth'[g])
    BY <2>1, <1>a DEF ImportTypeOK
  <2>3. CASE driver = "json"
    <3>1. ~db.established /\ json' = [json EXCEPT ![f] = [legacy |-> FALSE, data |-> v]] /\ db' = db
      BY <1>8, <2>1, <2>3 DEF Updates
    <3>2. ImportTypeOK'
      BY <1>a, <2>1, <3>1 DEF ImportTypeOK
    <3>3. FilesHold'
      <4>1. FilesHold /\ truth'[f] = v
        BY <1>a, <2>1, <3>1 DEF ImportTypeOK, MInv
      <4>3. json'[f] = [legacy |-> FALSE, data |-> v]
        BY <1>a, <3>1 DEF ImportTypeOK
      <4>4. json'[f].data = v /\ json'[f] \in Document
        BY <4>3
      <4>2. \A g \in Files \ {f} : json'[g] = json[g] /\ truth'[g] = truth[g]
        BY <1>a, <2>1, <3>1 DEF ImportTypeOK
      <4> QED
        BY <4>1, <4>2, <4>4 DEF FilesHold
    <3> QED
      BY <1>a, <2>1, <2>2, <2>3, <3>1, <3>2, <3>3
         DEF ImportTypeOK, MInv, SettingsFirst, AtPlace, Continuity, Serves
  <2>4. CASE driver # "json"
    <3>1. db.established /\ db' = [db EXCEPT !.data[f] = v] /\ json' = json
      BY <1>8, <2>1, <2>4, <1>a DEF Updates, ImportTypeOK
    <3>2. db'.established /\ db'.data = [db.data EXCEPT ![f] = v] /\ db'.imported = db.imported
      BY <3>1, <1>a DEF ImportTypeOK
    <3>3. ImportTypeOK'
      BY <1>a, <2>1, <3>1, <3>2 DEF ImportTypeOK
    <3>4. TablesHold'
      BY <1>a, <2>1, <3>1, <3>2 DEF ImportTypeOK, MInv, TablesHold
    <3> QED
      BY <2>1, <2>2, <2>4, <3>1, <3>2, <3>3, <3>4
         DEF MInv, SettingsFirst, AtPlace, Continuity, Serves
  <2> QED
    BY <2>3, <2>4
<1>9. CASE StartEnds
  <2>1. ImportTypeOK'
    BY <1>9, <1>a DEF StartEnds, ImportGoes, ImportTypeOK
  <2> QED
    BY <1>9, <2>1 DEF StartEnds, ImportGoes, MInv, SettingsFirst, FilesHold, TablesHold, AtPlace, Continuity, Serves
<1>10. CASE UNCHANGED importVars
  BY <1>10 DEF importVars, MInv, ImportTypeOK, SettingsFirst, FilesHold, TablesHold, AtPlace, OpenedUpTo, LastFile, Continuity, Serves
<1> QED
  BY <1>1, <1>2, <1>3, <1>4, <1>5, <1>6, <1>7, <1>8, <1>9, <1>10 DEF ImportNext

\* Whatever starts, imports and updates are cut off, the program serves what it
\* served before, as long as the JSON driver is not used again after an import.
THEOREM StateContinues == ~Back => (ImportSpec => []Continuity)
<1> SUFFICES ASSUME ~Back PROVE ImportSpec => []Continuity
  OBVIOUS
<1>1. MInv /\ [ImportNext]_importVars => MInv'
  BY ImportStep
<1>2. MInv => Continuity
  BY DEF MInv, AtPlace, Continuity, Serves
<1> QED
  BY <1>1, <1>2, ImportInitially, PTL DEF ImportSpec

\* Every variable keeps its type; only files that are in the database are moved.
THEOREM ImportCorrect == ~Back => (ImportSpec => []ImportTypeOK)
<1> SUFFICES ASSUME ~Back PROVE ImportSpec => []ImportTypeOK
  OBVIOUS
<1>1. MInv /\ [ImportNext]_importVars => MInv'
  BY ImportStep
<1>2. MInv => ImportTypeOK
  BY DEF MInv
<1> QED
  BY <1>1, <1>2, ImportInitially, PTL DEF ImportSpec

HIDE DEF Files, Imported, Document
-----------------------------------------------------------------------------
\* Idempotent creation.
ReplayRow == [key : PostKey, response : Nat]

\* The types, with what may be counted of a key.
ReplayTypeOK == /\ rows \in Seq(ReplayRow)
                /\ inflight \in [PostKey -> Post \cup {NoPost}]
                /\ callAt \in [Post -> {"idle", "waiting", "computing", "storing", "answered", "failed"}]
                /\ keyOf \in [Post -> PostKey \cup {NoPost}]
                /\ result \in [Post -> Nat]
                /\ computed \in Nat
                /\ origin \in [PostKey -> SUBSET Nat]
                /\ excuse \in [PostKey -> Nat]
                /\ \A k \in PostKey : IsFiniteSet(origin[k])

HasRow(k) == \E i \in DOMAIN rows : rows[i].key = k

\* The call in the map is at work, its key has no row, and no other call is at
\* work for it.
OneFlight ==
  /\ \A c \in Post : callAt[c] \in {"computing", "storing"} =>
       keyOf[c] \in PostKey /\ inflight[keyOf[c]] = c
  /\ \A k \in PostKey : inflight[k] # NoPost =>
       /\ callAt[inflight[k]] \in {"computing", "storing"}
       /\ keyOf[inflight[k]] = k
       /\ ~HasRow(k)

\* A key has one row.
OneRow == \A i, j \in DOMAIN rows : rows[i].key = rows[j].key => i = j

\* The response of a key is in the table or on its way there.
Held(k) == \/ HasRow(k)
           \/ inflight[k] # NoPost /\ callAt[inflight[k]] = "storing"

\* A response that is not held any more was lost to a fault.
Accounted(k) == Cardinality(origin[k]) <= excuse[k] + (IF Held(k) THEN 1 ELSE 0)

PInv == ReplayTypeOK /\ OneFlight /\ OneRow /\ \A k \in PostKey : Accounted(k)

\* A row that goes leaves the others, in their order.
LEMMA RowGoes ==
  ASSUME NEW S, NEW s \in Seq(S), NEW i \in DOMAIN s
  PROVE  /\ RemoveAt(s, i) \in Seq(S)
         /\ DOMAIN RemoveAt(s, i) = 1..(Len(s) - 1)
         /\ \A j \in 1..(Len(s) - 1) : RemoveAt(s, i)[j] = IF j < i THEN s[j] ELSE s[j + 1]
<1> DEFINE a == SubSeq(s, 1, i - 1)
           b == SubSeq(s, i + 1, Len(s))
<1>1. i \in 1..Len(s) /\ Len(s) \in Nat
  OBVIOUS
<1>2. a \in Seq(S) /\ Len(a) = i - 1 /\ \A j \in 1..(i - 1) : a[j] = s[j]
  BY <1>1
<1>3. b \in Seq(S) /\ Len(b) = Len(s) - i /\ \A j \in 1..(Len(s) - i) : b[j] = s[i + j]
  BY <1>1
<1>4. RemoveAt(s, i) = a \o b
  BY DEF RemoveAt
<1> HIDE DEF a, b
<1>5. PICK c : c = a \o b
  OBVIOUS
<1>6. /\ c \in Seq(S) /\ Len(c) = Len(s) - 1 /\ DOMAIN c = 1..(Len(s) - 1)
      /\ \A j \in 1..(Len(s) - 1) : c[j] = IF j < i THEN a[j] ELSE b[j - (i - 1)]
  BY <1>1, <1>2, <1>3, <1>5
<1>7. ASSUME NEW j \in 1..(Len(s) - 1) PROVE c[j] = IF j < i THEN s[j] ELSE s[j + 1]
  <2>1. CASE j < i
    BY <1>1, <1>2, <1>6, <2>1
  <2>2. CASE ~(j < i)
    <3>1. j - (i - 1) \in 1..(Len(s) - i) /\ i + (j - (i - 1)) = j + 1
      BY <1>1, <2>2
    <3>2. b[j - (i - 1)] = s[i + (j - (i - 1))]
      BY <1>3, <3>1
    <3> QED BY <1>6, <2>2, <3>1, <3>2
  <2> QED BY <2>1, <2>2
<1> QED BY <1>4, <1>5, <1>6, <1>7

\* The first row makes place.
LEMMA RowsMakeRoom ==
  ASSUME ReplayTypeOK, OneRow, NEW r \in ReplayRow,
         \A i \in DOMAIN rows : rows[i].key # r.key
  PROVE  LET new == Append(Room, r) IN
         /\ new \in Seq(ReplayRow)
         /\ \A i, j \in DOMAIN new : new[i].key = new[j].key => i = j
         /\ \A i \in DOMAIN new : new[i] = r \/ \E j \in DOMAIN rows : new[i] = rows[j]
         /\ \A j \in DOMAIN rows : \/ \E i \in DOMAIN new : new[i] = rows[j]
                                   \/ Room # rows /\ rows[j] = Head(rows)
         /\ \E i \in DOMAIN new : new[i] = r
<1>1. rows \in Seq(ReplayRow) /\ MAX_ENTRIES \in Nat \ {0}
  BY IdempotencyAssumption DEF ReplayTypeOK
<1>2. CASE Room = rows
  <2>1. /\ Append(rows, r) \in Seq(ReplayRow)
        /\ DOMAIN Append(rows, r) = 1..(Len(rows) + 1) /\ DOMAIN rows = 1..Len(rows) /\ Len(rows) \in Nat
        /\ Append(rows, r)[Len(rows) + 1] = r
        /\ \A i \in 1..Len(rows) : Append(rows, r)[i] = rows[i]
    BY <1>1
  <2> QED BY <1>2, <2>1 DEF OneRow
<1>3. CASE Room # rows
  <2>1. Room = Tail(rows) /\ Len(rows) \in Nat /\ Len(rows) >= 1
    BY <1>1, <1>3 DEF Room
  <2> DEFINE t == Tail(rows)
  <2>2. /\ t \in Seq(ReplayRow) /\ Len(t) = Len(rows) - 1
        /\ \A i \in 1..(Len(rows) - 1) : t[i] = rows[i + 1]
        /\ DOMAIN rows = 1..Len(rows) /\ Head(rows) = rows[1]
    BY <1>1, <2>1
  <2> HIDE DEF t
  <2>3. PICK new : new = Append(t, r)
    OBVIOUS
  <2>4. /\ new \in Seq(ReplayRow)
        /\ DOMAIN new = 1..Len(rows)
        /\ new[Len(rows)] = r
        /\ \A i \in 1..(Len(rows) - 1) : new[i] = rows[i + 1]
    BY <2>1, <2>2, <2>3
  <2>5. ASSUME NEW i \in 1..Len(rows)
        PROVE  new[i] = r \/ (i + 1 \in DOMAIN rows /\ new[i] = rows[i + 1])
    BY <2>1, <2>2, <2>4
  <2>6. ASSUME NEW i \in 1..Len(rows), NEW j \in 1..Len(rows), new[i].key = new[j].key
        PROVE  i = j
    <3>1. CASE i = Len(rows) \/ j = Len(rows)
      <4>1. CASE i # Len(rows)
        <5>1. i + 1 \in DOMAIN rows /\ new[i] = rows[i + 1] /\ new[j] = r
          BY <2>1, <2>2, <2>4, <3>1, <4>1
        <5> QED BY <2>6, <5>1
      <4>2. CASE j # Len(rows)
        <5>1. j + 1 \in DOMAIN rows /\ new[j] = rows[j + 1] /\ new[i] = r
          BY <2>1, <2>2, <2>4, <3>1, <4>2
        <5> QED BY <2>6, <5>1
      <4> QED BY <4>1, <4>2
    <3>2. CASE i # Len(rows) /\ j # Len(rows)
      <4>1. i \in 1..(Len(rows) - 1) /\ j \in 1..(Len(rows) - 1)
        BY <2>1, <3>2
      <4>2. new[i] = rows[i + 1] /\ new[j] = rows[j + 1]
        BY <2>4, <4>1
      <4>3. i + 1 \in DOMAIN rows /\ j + 1 \in DOMAIN rows
        BY <2>1, <2>2, <4>1
      <4>4. i + 1 = j + 1
        BY <2>6, <4>2, <4>3 DEF OneRow
      <4> QED BY <2>1, <4>4
    <3> QED BY <3>1, <3>2
  <2>7. ASSUME NEW j \in DOMAIN rows
        PROVE  (\E i \in 1..Len(rows) : new[i] = rows[j]) \/ rows[j] = Head(rows)
    <3>1. CASE j = 1
      BY <2>2, <3>1
    <3>2. CASE j # 1
      <4>1. j - 1 \in 1..(Len(rows) - 1) /\ (j - 1) + 1 = j /\ j - 1 \in 1..Len(rows)
        BY <2>1, <2>2, <3>2
      <4>2. new[j - 1] = rows[j]
        BY <2>4, <4>1
      <4> QED BY <4>1, <4>2
    <3> QED BY <3>1, <3>2
  <2>8. new = Append(Room, r)
    BY <2>1, <2>3 DEF t
  <2>9. Len(rows) \in 1..Len(rows)
    BY <2>1
  <2>10. /\ \A i, j \in DOMAIN new : new[i].key = new[j].key => i = j
         /\ \A i \in DOMAIN new : new[i] = r \/ \E j \in DOMAIN rows : new[i] = rows[j]
         /\ \A j \in DOMAIN rows : (\E i \in DOMAIN new : new[i] = rows[j]) \/ rows[j] = Head(rows)
         /\ \E i \in DOMAIN new : new[i] = r
    <3>1. DOMAIN new = 1..Len(rows) /\ new[Len(rows)] = r
      BY <2>4
    <3> QED BY <2>5, <2>6, <2>7, <2>9, <3>1
  <2>11. new \in Seq(ReplayRow)
    BY <2>4
  <2> QED BY <1>3, <2>8, <2>10, <2>11
<1> QED BY <1>2, <1>3

\* The key that is put has its one row now, and only the first row may have gone.
LEMMA PutRows ==
  ASSUME ReplayTypeOK, OneRow, NEW r \in ReplayRow, ~HasRow(r.key), rows' = Append(Room, r)
  PROVE  /\ rows' \in Seq(ReplayRow)
         /\ OneRow'
         /\ HasRow(r.key)'
         /\ \A j \in PostKey : HasRow(j)' => j = r.key \/ HasRow(j)
         /\ \A j \in PostKey : HasRow(j) /\ ~HasRow(j)' => Room # rows /\ j = Head(rows).key
<1>1. \A i \in DOMAIN rows : rows[i].key # r.key
  BY DEF HasRow
<1>2. /\ rows' \in Seq(ReplayRow)
      /\ \A i, j \in DOMAIN rows' : rows'[i].key = rows'[j].key => i = j
      /\ \A i \in DOMAIN rows' : rows'[i] = r \/ \E j \in DOMAIN rows : rows'[i] = rows[j]
      /\ \A j \in DOMAIN rows : \/ \E i \in DOMAIN rows' : rows'[i] = rows[j]
                                \/ Room # rows /\ rows[j] = Head(rows)
      /\ \E i \in DOMAIN rows' : rows'[i] = r
  BY <1>1, RowsMakeRoom
<1>3. OneRow'
  BY <1>2 DEF OneRow
<1>4. HasRow(r.key)'
  BY <1>2 DEF HasRow
<1>5. \A j \in PostKey : HasRow(j)' => j = r.key \/ HasRow(j)
  BY <1>2 DEF HasRow
<1>6. \A j \in PostKey : HasRow(j) /\ ~HasRow(j)' => Room # rows /\ j = Head(rows).key
  BY <1>2 DEF HasRow
<1> QED BY <1>2, <1>3, <1>4, <1>5, <1>6

\* A row that goes was the only one of its key.
LEMMA RowExpires ==
  ASSUME ReplayTypeOK, OneRow, NEW gone \in DOMAIN rows, rows' = RemoveAt(rows, gone)
  PROVE  /\ rows' \in Seq(ReplayRow)
         /\ OneRow'
         /\ \A j \in PostKey : HasRow(j)' => HasRow(j)
         /\ \A j \in PostKey : HasRow(j) /\ j # rows[gone].key => HasRow(j)'
<1>1. /\ rows \in Seq(ReplayRow) /\ DOMAIN rows = 1..Len(rows) /\ Len(rows) \in Nat
      /\ gone \in 1..Len(rows)
  BY DEF ReplayTypeOK
<1>2. /\ rows' \in Seq(ReplayRow)
      /\ DOMAIN rows' = 1..(Len(rows) - 1)
      /\ \A j \in 1..(Len(rows) - 1) : rows'[j] = IF j < gone THEN rows[j] ELSE rows[j + 1]
  BY <1>1, RowGoes
<1>3. OneRow'
  <2> SUFFICES ASSUME NEW i \in 1..(Len(rows) - 1), NEW j \in 1..(Len(rows) - 1), rows'[i].key = rows'[j].key
               PROVE  i = j
    BY <1>2 DEF OneRow
  <2> DEFINE f(m) == IF m < gone THEN m ELSE m + 1
  <2>1. f(i) \in DOMAIN rows /\ f(j) \in DOMAIN rows
    BY <1>1
  <2>2. rows'[i] = rows[f(i)] /\ rows'[j] = rows[f(j)]
    BY <1>2
  <2>3. f(i) = f(j)
    <3> HIDE DEF f
    <3> QED BY <2>1, <2>2 DEF OneRow
  <2> QED BY <1>1, <2>3
<1>4. \A j \in PostKey : HasRow(j)' => HasRow(j)
  <2> SUFFICES ASSUME NEW m \in 1..(Len(rows) - 1) PROVE \E j \in DOMAIN rows : rows'[m] = rows[j]
    BY <1>2 DEF HasRow
  <2>1. m \in DOMAIN rows /\ m + 1 \in DOMAIN rows
    BY <1>1
  <2> QED BY <1>2, <2>1
<1>5. \A j \in PostKey : HasRow(j) /\ j # rows[gone].key => HasRow(j)'
  <2> SUFFICES ASSUME NEW m \in DOMAIN rows, m # gone PROVE \E i \in DOMAIN rows' : rows'[i] = rows[m]
    BY DEF HasRow
  <2>1. CASE m < gone
    <3>1. m \in 1..(Len(rows) - 1)
      BY <1>1, <2>1
    <3> QED BY <1>2, <2>1, <3>1
  <2>2. CASE m > gone
    <3>1. m - 1 \in 1..(Len(rows) - 1) /\ ~(m - 1 < gone) /\ (m - 1) + 1 = m
      BY <1>1, <2>2
    <3> QED BY <1>2, <3>1
  <2> QED BY <1>1, <2>1, <2>2
<1> QED BY <1>2, <1>3, <1>4, <1>5

\* Nothing is computed, and what is not held any more was lost to a fault.
LEMMA Accounts ==
  ASSUME PInv, NEW k \in PostKey, origin'[k] = origin[k],
         excuse'[k] \in {excuse[k], excuse[k] + 1},
         Held(k) /\ ~Held(k)' => excuse'[k] = excuse[k] + 1
  PROVE  Accounted(k)'
<1>1. excuse[k] \in Nat /\ IsFiniteSet(origin[k]) /\ Accounted(k)
  BY DEF PInv, ReplayTypeOK
<1>2. Cardinality(origin[k]) \in Nat
  BY <1>1, FS_CardinalityType
<1> QED BY <1>1, <1>2 DEF Accounted

LEMMA PostsInitially == ReplayInit => PInv
<1> SUFFICES ASSUME ReplayInit PROVE PInv
  OBVIOUS
<1>1. ReplayTypeOK
  BY FS_EmptySet DEF ReplayInit, ReplayTypeOK
<1>2. OneFlight /\ OneRow
  BY IdempotencyAssumption DEF ReplayInit, OneFlight, OneRow
<1>3. \A k \in PostKey : Accounted(k)
  BY FS_EmptySet DEF ReplayInit, Accounted
<1> QED BY <1>1, <1>2, <1>3 DEF PInv

\* Every step keeps the account.
LEMMA PostsInductive == PInv /\ [ReplayNext]_replayVars => PInv'
<1> SUFFICES ASSUME PInv, [ReplayNext]_replayVars PROVE PInv'
  OBVIOUS
<1>a. ReplayTypeOK /\ OneFlight /\ OneRow
  BY DEF PInv
<1>b. NoPost \notin Post /\ NoPost \notin PostKey
  BY IdempotencyAssumption
<1>c. \A k \in PostKey : Stored(k) = {} => ~HasRow(k)
  BY DEF Stored, ToSet, HasRow
<1>d. \A i \in DOMAIN rows : rows[i].response \in Nat
  <2>1. rows \in Seq(ReplayRow)
    BY <1>a DEF ReplayTypeOK
  <2>2. \A i \in DOMAIN rows : rows[i] \in ReplayRow
    BY <2>1
  <2> QED BY <2>2 DEF ReplayRow
<1> USE <1>a, <1>b
<1>1. ASSUME NEW c \in Post, NEW k \in PostKey, Waits(c, k) \/ Shares(c, k) \/ Replays(c, k)
      PROVE  PInv'
  <2>1. /\ UNCHANGED <<rows, inflight, computed, origin, excuse>> /\ callAt[c] = "idle"
        /\ \E to \in {"waiting", "answered"} : callAt' = [callAt EXCEPT ![c] = to]
        /\ keyOf' = [keyOf EXCEPT ![c] = k]
    BY <1>1 DEF Waits, Shares, Replays, CallGoes
  <2>2. result' \in [Post -> Nat]
    <3>1. CASE Waits(c, k)
      BY <3>1 DEF Waits, ReplayTypeOK
    <3>2. CASE Shares(c, k)
      BY <3>2 DEF Shares, ReplayTypeOK
    <3>3. CASE Replays(c, k)
      <4>1. PICK x \in Stored(k) : result' = [result EXCEPT ![c] = x.response]
        BY <3>3 DEF Replays
      <4>2. PICK i \in DOMAIN rows : x = rows[i]
        BY DEF Stored, ToSet
      <4>3. x.response \in Nat
        BY <1>d, <4>2
      <4> QED BY <4>1, <4>3 DEF ReplayTypeOK
    <3> QED BY <1>1, <3>1, <3>2, <3>3
  <2>3. ReplayTypeOK'
    BY <2>1, <2>2 DEF ReplayTypeOK
  <2>4. OneFlight' /\ OneRow'
    BY <2>1 DEF ReplayTypeOK, OneFlight, OneRow, HasRow
  <2>5. \A j \in PostKey : Held(j)' = Held(j)
    BY <2>1 DEF ReplayTypeOK, OneFlight, Held, HasRow
  <2>6. \A j \in PostKey : Accounted(j)'
    BY <2>1, <2>5, Accounts
  <2> QED BY <2>3, <2>4, <2>6 DEF PInv
<1>2. ASSUME NEW c \in Post, NEW k \in PostKey, Computes(c, k) PROVE PInv'
  <2>1. /\ UNCHANGED <<rows, result, computed, origin, excuse>> /\ callAt[c] = "idle"
        /\ callAt' = [callAt EXCEPT ![c] = "computing"] /\ inflight[k] = NoPost
        /\ keyOf' = [keyOf EXCEPT ![c] = k] /\ inflight' = [inflight EXCEPT ![k] = c]
        /\ ~HasRow(k)
    BY <1>2, <1>c DEF Computes, CallGoes
  <2>2. ReplayTypeOK'
    BY <2>1 DEF ReplayTypeOK
  <2>3. OneFlight' /\ OneRow'
    BY <2>1 DEF ReplayTypeOK, OneFlight, OneRow, HasRow
  <2>4. \A j \in PostKey : Held(j) => Held(j)'
    BY <2>1 DEF ReplayTypeOK, OneFlight, Held, HasRow
  <2>5. \A j \in PostKey : Accounted(j)'
    BY <2>1, <2>4, Accounts
  <2> QED BY <2>2, <2>3, <2>5 DEF PInv
<1>3. ASSUME NEW c \in Post, Submits(c) PROVE PInv'
  <2>0. PICK k \in PostKey : k = keyOf[c] /\ inflight[k] = c /\ ~HasRow(k)
    BY <1>3 DEF Submits, OneFlight
  <2>1. /\ callAt[c] = "computing"
        /\ UNCHANGED <<rows, inflight, keyOf, excuse>>
        /\ computed' = computed + 1 /\ computed' \in Nat
        /\ origin' = [origin EXCEPT ![k] = @ \cup {computed'}]
    BY <1>3, <2>0 DEF Submits, ReplayTypeOK
  <2>2. /\ callAt' \in [Post -> {"idle", "waiting", "computing", "storing", "answered", "failed"}]
        /\ callAt'[c] = "storing"
        /\ \A d \in Post \ {c} : \/ callAt'[d] = callAt[d]
                                 \/ callAt[d] = "waiting" /\ callAt'[d] = "answered"
    BY <1>3 DEF Submits, ReplayTypeOK
  <2>2a. \A d \in Post \ {c} : /\ callAt'[d] = "computing" <=> callAt[d] = "computing"
                               /\ callAt'[d] = "storing" <=> callAt[d] = "storing"
    BY <2>2
  <2>3. result' \in [Post -> Nat]
    BY <1>3, <2>1 DEF Submits, ReplayTypeOK
  <2>4. IsFiniteSet(origin[k] \cup {computed'}) /\ Cardinality(origin[k]) \in Nat
        /\ Cardinality(origin[k] \cup {computed'}) \in Nat
        /\ Cardinality(origin[k] \cup {computed'}) <= Cardinality(origin[k]) + 1
    <3>1. IsFiniteSet(origin[k])
      BY <2>1 DEF ReplayTypeOK
    <3>2. /\ IsFiniteSet(origin[k] \cup {computed'})
          /\ Cardinality(origin[k] \cup {computed'})
               = IF computed' \in origin[k] THEN Cardinality(origin[k]) ELSE Cardinality(origin[k]) + 1
      BY <3>1, FS_AddElement
    <3>3. Cardinality(origin[k]) \in Nat
      BY <3>1, FS_CardinalityType
    <3> QED BY <3>2, <3>3
  <2>5. ReplayTypeOK'
    BY <2>1, <2>2, <2>3, <2>4 DEF ReplayTypeOK
  <2>5a. OneRow' /\ \A j \in PostKey : HasRow(j)' = HasRow(j)
    BY <2>1 DEF OneRow, HasRow
  <2>6. OneFlight'
    <3>1. ASSUME NEW d \in Post, callAt'[d] \in {"computing", "storing"}
          PROVE  keyOf'[d] \in PostKey /\ inflight'[keyOf'[d]] = d
      BY <2>0, <2>1, <2>2a, <3>1 DEF OneFlight
    <3>2. ASSUME NEW j \in PostKey, inflight'[j] # NoPost
          PROVE  callAt'[inflight'[j]] \in {"computing", "storing"} /\ keyOf'[inflight'[j]] = j /\ ~HasRow(j)'
      <4>1. inflight[j] \in Post
        BY <2>1, <3>2 DEF ReplayTypeOK
      <4> QED BY <2>0, <2>1, <2>2, <2>2a, <2>5a, <3>2, <4>1 DEF OneFlight
    <3> QED BY <3>1, <3>2 DEF OneFlight
  <2>7. ~Held(k) /\ Held(k)'
    BY <2>0, <2>1, <2>2, <2>5a DEF Held
  <2>8. Accounted(k)'
    <3>1. Accounted(k) /\ excuse[k] \in Nat /\ excuse'[k] = excuse[k]
      BY <2>1 DEF PInv, ReplayTypeOK
    <3>2. origin'[k] = origin[k] \cup {computed'}
      BY <2>1 DEF ReplayTypeOK
    <3>3. Cardinality(origin[k]) <= excuse[k]
      BY <2>7, <3>1 DEF Accounted
    <3>4. Cardinality(origin'[k]) <= excuse'[k] + 1
      BY <2>4, <3>1, <3>2, <3>3
    <3> QED BY <2>7, <3>4 DEF Accounted
  <2>9. ASSUME NEW j \in PostKey \ {k} PROVE Accounted(j)'
    <3>1. Held(j) => Held(j)'
      <4>1. inflight[j] # NoPost => inflight[j] \in Post \ {c}
        BY <2>0 DEF ReplayTypeOK, OneFlight
      <4> QED BY <2>1, <2>2a, <2>5a, <4>1 DEF Held
    <3>2. origin'[j] = origin[j] /\ excuse'[j] = excuse[j]
      BY <2>1 DEF ReplayTypeOK
    <3> QED BY <3>1, <3>2, Accounts
  <2> QED BY <2>5, <2>5a, <2>6, <2>8, <2>9 DEF PInv
<1>4. ASSUME NEW c \in Post, Puts(c) PROVE PInv'
  <2>0. PICK k \in PostKey : k = keyOf[c] /\ inflight[k] = c /\ ~HasRow(k)
    BY <1>4 DEF Puts, OneFlight
  <2>1. PICK row \in ReplayRow : row.key = k /\ rows' = Append(Room, row)
    BY <1>4, <2>0 DEF Puts, ReplayTypeOK, ReplayRow
  <2>2. /\ callAt[c] = "storing" /\ inflight' = [inflight EXCEPT ![k] = NoPost]
        /\ callAt' = [callAt EXCEPT ![c] = "answered"]
        /\ UNCHANGED <<keyOf, result, computed, origin>>
        /\ excuse' = [j \in PostKey |-> IF Room # rows /\ j = Head(rows).key
                                        THEN excuse[j] + 1 ELSE excuse[j]]
    BY <1>4, <2>0 DEF Puts, CallGoes
  <2>3. /\ rows' \in Seq(ReplayRow) /\ OneRow' /\ HasRow(k)'
        /\ \A j \in PostKey : HasRow(j)' => j = k \/ HasRow(j)
        /\ \A j \in PostKey : HasRow(j) /\ ~HasRow(j)' => Room # rows /\ j = Head(rows).key
    BY <2>0, <2>1, PutRows
  <2>4. ReplayTypeOK'
    BY <2>2, <2>3 DEF ReplayTypeOK
  <2>5. OneFlight'
    BY <2>0, <2>2, <2>3 DEF ReplayTypeOK, OneFlight
  <2>6. ASSUME NEW j \in PostKey PROVE Accounted(j)'
    <3>1. Held(j) /\ ~Held(j)' => Room # rows /\ j = Head(rows).key
      BY <2>0, <2>2, <2>3 DEF ReplayTypeOK, OneFlight, Held
    <3>2. excuse'[j] \in {excuse[j], excuse[j] + 1} /\ origin'[j] = origin[j]
          /\ (Room # rows /\ j = Head(rows).key => excuse'[j] = excuse[j] + 1)
      BY <2>2
    <3> QED BY <3>1, <3>2, Accounts
  <2> QED BY <2>3, <2>4, <2>5, <2>6 DEF PInv
<1>5. ASSUME NEW c \in Post, PutFails(c) PROVE PInv'
  <2> DEFINE k == keyOf[c]
  <2>1. /\ callAt[c] = "storing" /\ k \in PostKey /\ inflight[k] = c
        /\ inflight' = [inflight EXCEPT ![k] = NoPost]
        /\ callAt' = [callAt EXCEPT ![c] = "failed"]
        /\ UNCHANGED <<rows, keyOf, result, computed, origin>>
        /\ excuse' = [excuse EXCEPT ![k] = @ + 1]
    BY <1>5 DEF PutFails, CallGoes, Excused, OneFlight
  <2>2. ReplayTypeOK'
    BY <2>1 DEF ReplayTypeOK
  <2>3. OneFlight' /\ OneRow'
    BY <2>1 DEF ReplayTypeOK, OneFlight, OneRow, HasRow
  <2>4. ASSUME NEW j \in PostKey PROVE Accounted(j)'
    <3>1. j # k /\ Held(j) => Held(j)'
      BY <2>1 DEF ReplayTypeOK, OneFlight, Held, HasRow
    <3> QED BY <2>1, <3>1, Accounts DEF ReplayTypeOK
  <2> QED BY <2>2, <2>3, <2>4 DEF PInv
<1>6. ASSUME NEW c \in Post, ComputeFails(c) PROVE PInv'
  <2>0. PICK k \in PostKey : k = keyOf[c] /\ inflight[k] = c /\ ~HasRow(k)
    BY <1>6 DEF ComputeFails, OneFlight
  <2>1. /\ callAt[c] = "computing"
        /\ inflight' = [inflight EXCEPT ![k] = NoPost]
        /\ UNCHANGED <<rows, keyOf, result, computed, origin, excuse>>
    BY <1>6, <2>0 DEF ComputeFails
  <2>2. /\ callAt' \in [Post -> {"idle", "waiting", "computing", "storing", "answered", "failed"}]
        /\ callAt'[c] = "failed"
        /\ \A d \in Post \ {c} : \/ callAt'[d] = callAt[d]
                                 \/ callAt[d] = "waiting" /\ callAt'[d] = "failed"
    BY <1>6 DEF ComputeFails, ReplayTypeOK
  <2>2a. \A d \in Post \ {c} : /\ callAt'[d] = "computing" <=> callAt[d] = "computing"
                               /\ callAt'[d] = "storing" <=> callAt[d] = "storing"
    BY <2>2
  <2>2b. \A j \in PostKey : inflight[j] # NoPost /\ j # k => inflight[j] \in Post \ {c}
    BY <2>0 DEF ReplayTypeOK, OneFlight
  <2>3. ReplayTypeOK'
    BY <2>1, <2>2 DEF ReplayTypeOK
  <2>3a. OneRow' /\ \A j \in PostKey : HasRow(j)' = HasRow(j)
    BY <2>1 DEF OneRow, HasRow
  <2>3b. inflight'[k] = NoPost /\ \A j \in PostKey \ {k} : inflight'[j] = inflight[j]
    BY <2>1 DEF ReplayTypeOK
  <2>4. OneFlight'
    <3>1. ASSUME NEW d \in Post, callAt'[d] \in {"computing", "storing"}
          PROVE  keyOf'[d] \in PostKey /\ inflight'[keyOf'[d]] = d
      <4>1. d # c
        BY <2>2, <3>1
      <4>2. keyOf[d] \in PostKey /\ inflight[keyOf[d]] = d
        BY <2>2a, <3>1, <4>1 DEF OneFlight
      <4>3. keyOf[d] # k
        BY <2>0, <4>1, <4>2
      <4> QED BY <2>1, <2>3b, <4>2, <4>3
    <3>2. ASSUME NEW j \in PostKey, inflight'[j] # NoPost
          PROVE  callAt'[inflight'[j]] \in {"computing", "storing"} /\ keyOf'[inflight'[j]] = j /\ ~HasRow(j)'
      BY <2>1, <2>2a, <2>2b, <2>3a, <2>3b, <3>2 DEF OneFlight
    <3> QED BY <3>1, <3>2 DEF OneFlight
  <2>5. \A j \in PostKey : Held(j) => Held(j)'
    BY <2>0, <2>1, <2>2a, <2>2b, <2>3a, <2>3b DEF Held
  <2>6. \A j \in PostKey : Accounted(j)'
    BY <2>1, <2>5, Accounts
  <2> QED BY <2>3, <2>3a, <2>4, <2>6 DEF PInv
<1>7. ASSUME NEW c \in Post, Returns(c) PROVE PInv'
  <2>1. /\ callAt[c] \in {"answered", "failed"} /\ callAt' = [callAt EXCEPT ![c] = "idle"]
        /\ keyOf' = [keyOf EXCEPT ![c] = NoPost] /\ result' = [result EXCEPT ![c] = 0]
        /\ UNCHANGED <<rows, inflight, computed, origin, excuse>>
    BY <1>7 DEF Returns, CallGoes
  <2>2. ReplayTypeOK'
    BY <2>1 DEF ReplayTypeOK
  <2>3. OneFlight' /\ OneRow'
    BY <2>1 DEF ReplayTypeOK, OneFlight, OneRow, HasRow
  <2>4. \A j \in PostKey : Held(j) => Held(j)'
    BY <2>1 DEF ReplayTypeOK, OneFlight, Held, HasRow
  <2>5. \A j \in PostKey : Accounted(j)'
    BY <2>1, <2>4, Accounts
  <2> QED BY <2>2, <2>3, <2>5 DEF PInv
<1>8. ASSUME NEW k \in PostKey, Expires(k) PROVE PInv'
  <2>1. PICK gone \in DOMAIN rows : rows[gone].key = k /\ rows' = RemoveAt(rows, gone)
    BY <1>8 DEF Expires
  <2>2. /\ excuse' = [excuse EXCEPT ![k] = @ + 1]
        /\ UNCHANGED <<inflight, callAt, keyOf, result, computed, origin>>
    BY <1>8 DEF Expires, Excused
  <2>3. /\ rows' \in Seq(ReplayRow) /\ OneRow'
        /\ \A j \in PostKey : HasRow(j)' => HasRow(j)
        /\ \A j \in PostKey : HasRow(j) /\ j # k => HasRow(j)'
    BY <2>1, RowExpires
  <2>4. ReplayTypeOK'
    BY <2>2, <2>3 DEF ReplayTypeOK
  <2>5. OneFlight'
    BY <2>2, <2>3 DEF ReplayTypeOK, OneFlight
  <2>6. ASSUME NEW j \in PostKey PROVE Accounted(j)'
    <3>1. j # k /\ Held(j) => Held(j)'
      BY <2>2, <2>3 DEF Held
    <3>2. excuse'[j] = (IF j = k THEN excuse[j] + 1 ELSE excuse[j]) /\ origin'[j] = origin[j]
      BY <2>2 DEF ReplayTypeOK
    <3> QED BY <3>1, <3>2, Accounts
  <2> QED BY <2>3, <2>4, <2>5, <2>6 DEF PInv
<1>9. CASE ReplayCrash
  <2>1. /\ callAt' = [c \in Post |-> "idle"] /\ keyOf' = [c \in Post |-> NoPost]
        /\ result' = [c \in Post |-> 0] /\ inflight' = [k \in PostKey |-> NoPost]
        /\ excuse' = [k \in PostKey |-> IF \E c \in Post : callAt[c] = "storing" /\ keyOf[c] = k
                                        THEN excuse[k] + 1 ELSE excuse[k]]
        /\ UNCHANGED <<rows, computed, origin>>
    BY <1>9 DEF ReplayCrash
  <2>2. ReplayTypeOK'
    BY <2>1 DEF ReplayTypeOK
  <2>3. OneFlight' /\ OneRow'
    BY <2>1 DEF OneFlight, OneRow, HasRow
  <2>4. ASSUME NEW k \in PostKey PROVE Accounted(k)'
    <3>1. Held(k) /\ ~Held(k)' => \E c \in Post : callAt[c] = "storing" /\ keyOf[c] = k
      BY <2>1 DEF ReplayTypeOK, OneFlight, Held, HasRow
    <3> QED BY <2>1, <3>1, Accounts
  <2> QED BY <2>2, <2>3, <2>4 DEF PInv
<1>10. CASE UNCHANGED replayVars
  BY <1>10 DEF replayVars, PInv, ReplayTypeOK, OneFlight, OneRow, Accounted, Held, HasRow
<1> QED BY <1>1, <1>2, <1>3, <1>4, <1>5, <1>6, <1>7, <1>8, <1>9, <1>10 DEF ReplayNext

\* A key is computed once more only for each response a fault took away, for any
\* number of requests, keys and rows.
THEOREM ComputedOncePerKey == ReplaySpec => []ComputedOnce
<1>1. PInv => ComputedOnce
  <2> SUFFICES ASSUME PInv, NEW k \in PostKey PROVE Cardinality(origin[k]) <= 1 + excuse[k]
    BY DEF ComputedOnce
  <2>1. excuse[k] \in Nat /\ IsFiniteSet(origin[k]) /\ Accounted(k)
    BY DEF PInv, ReplayTypeOK
  <2>2. Cardinality(origin[k]) \in Nat
    BY <2>1, FS_CardinalityType
  <2> QED BY <2>1, <2>2 DEF Accounted
<1> QED BY PostsInitially, PostsInductive, <1>1, PTL DEF ReplaySpec
=============================================================================
