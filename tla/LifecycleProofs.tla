-------------------------- MODULE LifecycleProofs --------------------------
(***************************************************************************)
(* For any number of titles, files and tasks: the types of Lifecycle, the  *)
(* protection of what is being streamed, and the finality of a deletion.   *)
(*                                                                         *)
(* Each of the two safety properties holds because a task that is in the   *)
(* section of a hash is alone there and what it saw on entering still      *)
(* holds when it acts on it.  That is what Settled says of each task, and  *)
(* the induction carries it for all tasks at once: OthersKeep shows that a *)
(* step of one task leaves what Settled says of the others alone.          *)
(***************************************************************************)
EXTENDS Lifecycle, TLAPS

\* Where a task is inside the section of its hash.
PrepareIn == BeforeTryPc \cup TryPc
DeleteIn == {"d_get", "d_rm", "d_confirm"}
SweepIn == {"s_get", "s_tune"}
In == PrepareIn \cup DeleteIn \cup SweepIn

\* A record nobody is deleting, or none.
Alive(r) == r = NoRec \/ r.life # "deleting"

\* What a task in the section of its hash may rely on.
Settled(t) == LET h == job[t].hash IN
  /\ pc[t] # "idle" => job[t] \in Job
  /\ pc[t] \in In => lock[h] = t
  /\ pc[t] \in PrepareIn => Alive(store[h]) /\ Alive(rec[t])
  /\ pc[t] \in PrepareIn /\ rec[t] # NoRec => store[h] # NoRec
  /\ pc[t] \in TryPc \cup {"p_submit", "p_wait"} => rec[t] # NoRec
  /\ pc[t] \in TryPc \ {"p_start", "p_files"} => job[t].file \in File
  /\ pc[t] \in DeleteIn \cup SweepIn => store[h] # NoRec /\ rec[t] # NoRec
  /\ pc[t] \in DeleteIn => active[h] = 0
  /\ pc[t] \in {"d_rm", "d_confirm"} => store[h].life = "deleting"

\* A streamed title is tracked and not being deleted.
StreamsTracked == \A h \in Hash : active[h] > 0 => store[h] # NoRec /\ store[h].life # "deleting"

\* The inductive invariant.
IInv == /\ TypeOK
        /\ \A t \in Task : Settled(t)
        /\ StreamsTracked
-----------------------------------------------------------------------------
\* A step of t that touches only t's own local state and what t has locked.
Frame(t) ==
  /\ \A u \in Task \ {t} : pc'[u] = pc[u] /\ job'[u] = job[u] /\ rec'[u] = rec[u]
  /\ \A h \in Hash : lock[h] \notin {NoTask, t} => lock'[h] = lock[h]
  /\ \A h \in Hash : lock[h] # t => store'[h] = store[h] /\ active'[h] = active[h]

\* A step of one task keeps what the other tasks rely on.
LEMMA OthersKeep ==
  ASSUME IInv, NEW t \in Task, Frame(t)
  PROVE  \A u \in Task \ {t} : Settled(u)'
<1> SUFFICES ASSUME NEW u \in Task \ {t} PROVE Settled(u)'
  OBVIOUS
<1>1. Settled(u) /\ pc'[u] = pc[u] /\ job'[u] = job[u] /\ rec'[u] = rec[u]
  BY DEF IInv, Frame
<1>2. CASE pc[u] = "idle"
  BY <1>1, <1>2 DEF Settled, In, PrepareIn, DeleteIn, SweepIn, BeforeTryPc, TryPc
<1>3. CASE pc[u] # "idle"
  <2>1. job[u] \in Job /\ job[u].hash \in Hash
    BY <1>1, <1>3 DEF Settled, Job
  <2>2. CASE pc[u] \in In
    <3>1. lock[job[u].hash] = u /\ u # t /\ u # NoTask
      BY <1>1, <2>2, NoneAssumption DEF Settled
    <3>2. /\ lock'[job[u].hash] = u
          /\ store'[job[u].hash] = store[job[u].hash]
          /\ active'[job[u].hash] = active[job[u].hash]
      BY <2>1, <3>1 DEF Frame
    <3> QED BY <1>1, <2>1, <3>1, <3>2 DEF Settled, Alive
  <2>3. CASE pc[u] \notin In
    BY <1>1, <2>1, <2>3 DEF Settled, In, PrepareIn, DeleteIn, SweepIn, BeforeTryPc, TryPc
  <2> QED BY <2>2, <2>3
<1> QED BY <1>2, <1>3

\* What is left to show of a step of one task.
LEMMA TaskStep ==
  ASSUME IInv, NEW t \in Task, Frame(t), TypeOK', Settled(t)',
         \A h \in Hash : (lock[h] = t /\ active'[h] > 0) =>
           store'[h] # NoRec /\ store'[h].life # "deleting"
  PROVE  IInv'
<1>1. \A u \in Task : Settled(u)'
  BY OthersKeep
<1>2. StreamsTracked'
  BY DEF Frame, IInv, StreamsTracked
<1> QED BY <1>1, <1>2 DEF IInv

\* What a task that has begun was called with.
LEMMA Begun ==
  ASSUME IInv, NEW t \in Task, pc[t] # "idle"
  PROVE  /\ job[t] \in Job /\ job[t].hash \in Hash
         /\ store[job[t].hash] \in Record \cup {NoRec}
         /\ rec[t] \in Record \cup {NoRec}
         /\ torrent[job[t].hash] \in Torrent \cup {NoTor}
         /\ active[job[t].hash] \in 0..MaxPlays
<1>1. job[t] \in Job /\ job[t].hash \in Hash
  BY DEF IInv, Settled, Job
<1> QED BY <1>1 DEF IInv, TypeOK

\* What returning does to the variables it changes.
LEMMA Finishing ==
  ASSUME IInv, NEW t \in Task, Finish(t)
  PROVE  /\ pc' \in [Task -> {"idle"} \cup PreparePc \cup DeletePc \cup SweepPc]
         /\ job' \in [Task -> Job \cup {NoJob}]
         /\ rec' \in [Task -> Record \cup {NoRec}]
         /\ lock' \in [Hash -> Task \cup {NoTask}]
         /\ reg' \in Task \cup {NoTask}
         /\ Settled(t)'
         /\ \A u \in Task \ {t} : pc'[u] = pc[u] /\ job'[u] = job[u] /\ rec'[u] = rec[u]
         /\ \A h \in Hash : lock[h] \notin {NoTask, t} => lock'[h] = lock[h]
<1> USE DEF IInv, TypeOK, Finish
<1>1. pc'[t] = "idle" OBVIOUS
<1>2. Settled(t)'
  BY <1>1 DEF Settled, In, PrepareIn, DeleteIn, SweepIn, BeforeTryPc, TryPc
<1>3. /\ pc' \in [Task -> {"idle"} \cup PreparePc \cup DeletePc \cup SweepPc]
      /\ job' \in [Task -> Job \cup {NoJob}]
      /\ rec' \in [Task -> Record \cup {NoRec}]
      /\ reg' \in Task \cup {NoTask}
  OBVIOUS
<1>4. lock' \in [Hash -> Task \cup {NoTask}] OBVIOUS
<1>5. /\ \A u \in Task \ {t} : pc'[u] = pc[u] /\ job'[u] = job[u] /\ rec'[u] = rec[u]
      /\ \A h \in Hash : lock[h] \notin {NoTask, t} => lock'[h] = lock[h]
  OBVIOUS
<1> QED BY <1>2, <1>3, <1>4, <1>5

\* A task returns and leaves the store as it is.
LEMMA Returns ==
  ASSUME IInv, NEW t \in Task, Finish(t), UNCHANGED <<store, torrent, active, issued>>
  PROVE  IInv'
<1>1. TypeOK'
  BY Finishing DEF IInv, TypeOK
<1>2. Frame(t)
  BY Finishing DEF Frame
<1>3. \A h \in Hash : (lock[h] = t /\ active'[h] > 0) =>
           store'[h] # NoRec /\ store'[h].life # "deleting"
  BY DEF IInv, StreamsTracked
<1> QED BY <1>1, <1>2, <1>3, Finishing, TaskStep

\* A task returns and stores a record, or removes it, under its lock.
LEMMA ReturnsStoring ==
  ASSUME IInv, NEW t \in Task, NEW h \in Hash, lock[h] = t,
         NEW r \in Record \cup {NoRec},
         Finish(t), store' = [store EXCEPT ![h] = r],
         active' \in [Hash -> 0..MaxPlays], torrent' = torrent, issued' \in 0..MaxMarker,
         \A g \in Hash \ {h} : active'[g] = active[g],
         active'[h] > 0 => r # NoRec /\ r.life # "deleting"
  PROVE  IInv'
<1>1. TypeOK'
  BY Finishing DEF IInv, TypeOK
<1>2. Frame(t)
  BY Finishing DEF Frame, IInv, TypeOK
<1>3. \A g \in Hash : (lock[g] = t /\ active'[g] > 0) =>
           store'[g] # NoRec /\ store'[g].life # "deleting"
  BY DEF IInv, StreamsTracked, TypeOK
<1> QED BY <1>1, <1>2, <1>3, Finishing, TaskStep

\* A task begins: it waits for the lock of its hash.
LEMMA Begins ==
  ASSUME IInv, NEW t \in Task, NEW j \in Job, NEW w \in {"p_lock", "d_lock", "s_lock"},
         Begin(t, j, w)
  PROVE  IInv'
<1> USE DEF Begin, Goto
<1>1. TypeOK'
  BY DEF IInv, TypeOK, PreparePc, DeletePc, SweepPc
<1>2. Frame(t)
  BY DEF Frame, IInv, TypeOK
<1>3. Settled(t)'
  <2>1. pc'[t] = w /\ job'[t] = j
    BY DEF IInv, TypeOK
  <2> QED BY <2>1 DEF Settled, In, PrepareIn, DeleteIn, SweepIn, BeforeTryPc, TryPc
<1>4. \A h \in Hash : (lock[h] = t /\ active'[h] > 0) =>
           store'[h] # NoRec /\ store'[h].life # "deleting"
  BY DEF IInv, StreamsTracked
<1> QED BY <1>1, <1>2, <1>3, <1>4, TaskStep

\* A preparation begins: it waits for the lock of its hash.
LEMMA PrepareBegins ==
  ASSUME IInv, NEW t \in Task, prepareDownload(t)
  PROVE  IInv'
<1>1. ASSUME NEW op \in PrepareOps, NEW h \in Hash, NEW o \in Origin,
             NEW f \in File \cup {NoFile}, NEW m \in 0..MaxMarker
      PROVE  Request(op, h, o, f, m) \in Job
  BY BoundAssumption DEF Request, Job, AllOps
<1>2. ASSUME NEW op \in PrepareOps, NEW h \in Hash, NEW o \in Origin,
             NEW f \in File \cup {NoFile}, NEW m \in 0..MaxMarker,
             Begin(t, Request(op, h, o, f, m), "p_lock")
      PROVE  IInv'
  BY <1>1, <1>2, Begins
<1>3. PICK h \in Hash :
        \/ \E op \in {"add", "queueAdd"} : Begin(t, Request(op, h, "store", NoFile, 0), "p_lock")
        \/ Begin(t, Request("stream", h, "search", NoFile, 0), "p_lock")
        \/ /\ store[h] # NoRec
           /\ \/ Begin(t, Request("admit", h, "store", NoFile, 0), "p_lock")
              \/ Begin(t, Request("retry", h, store[h].origin, NoFile, 0), "p_lock")
              \/ \E f \in File : Begin(t, Request("select", h, "store", f, store[h].marker), "p_lock")
        \/ \E f \in File, m \in 1..issued :
             \/ Begin(t, Request("play", h, "store", f, m), "p_lock")
             \/ Begin(t, Request("replay", h, "search", f, m), "p_lock")
  BY DEF prepareDownload
<1>4. 0 \in 0..MaxMarker /\ 1..issued \subseteq 0..MaxMarker
  BY BoundAssumption DEF IInv, TypeOK
<1>5. store[h] # NoRec => store[h].origin \in Origin /\ store[h].marker \in 0..MaxMarker
  BY DEF IInv, TypeOK, Record
<1>6. {"add", "queueAdd", "admit", "retry", "select", "play", "replay", "stream"} = PrepareOps
  BY DEF PrepareOps
<1>7. "store" \in Origin /\ "search" \in Origin
  BY DEF Origin
<1>8. CASE \E op \in {"add", "queueAdd"} : Begin(t, Request(op, h, "store", NoFile, 0), "p_lock")
  BY <1>2, <1>4, <1>6, <1>7, <1>8
<1>9. CASE Begin(t, Request("stream", h, "search", NoFile, 0), "p_lock")
  BY <1>2, <1>4, <1>6, <1>7, <1>9
<1>10. CASE /\ store[h] # NoRec
            /\ \/ Begin(t, Request("admit", h, "store", NoFile, 0), "p_lock")
               \/ Begin(t, Request("retry", h, store[h].origin, NoFile, 0), "p_lock")
               \/ \E f \in File : Begin(t, Request("select", h, "store", f, store[h].marker), "p_lock")
  BY <1>2, <1>4, <1>5, <1>6, <1>7, <1>10
<1>11. CASE \E f \in File, m \in 1..issued :
              \/ Begin(t, Request("play", h, "store", f, m), "p_lock")
              \/ Begin(t, Request("replay", h, "search", f, m), "p_lock")
  <2>1. PICK f \in File, m \in 1..issued :
              \/ Begin(t, Request("play", h, "store", f, m), "p_lock")
              \/ Begin(t, Request("replay", h, "search", f, m), "p_lock")
    BY <1>11
  <2>2. m \in 0..MaxMarker /\ f \in File \cup {NoFile}
    BY <1>4
  <2>3. "play" \in PrepareOps /\ "replay" \in PrepareOps
    BY DEF PrepareOps
  <2> QED BY <1>2, <1>7, <2>1, <2>2, <2>3
<1> QED BY <1>3, <1>8, <1>9, <1>10, <1>11

\* Entering the section: the local record is the store's.
LEMMA Enters ==
  ASSUME IInv, NEW t \in Task, PrepareEnters(t)
  PROVE  IInv'
<1> DEFINE h == job[t].hash
<1> USE DEF PrepareEnters, Goto
<1>1. h \in Hash /\ job[t] \in Job /\ store[h] \in Record \cup {NoRec}
  BY Begun
<1>2. pc'[t] = "p_get" /\ job'[t] = job[t] /\ lock'[h] = t /\ rec'[t] = store[h] /\ store' = store
  BY <1>1 DEF IInv, TypeOK
<1>3. TypeOK'
  BY <1>1 DEF IInv, TypeOK, PreparePc, BeforeTryPc
<1>4. Frame(t)
  BY <1>1 DEF Frame, IInv, TypeOK
<1>5. Settled(t)'
  BY <1>1, <1>2 DEF Settled, Refused, Alive, In, PrepareIn, DeleteIn, SweepIn, BeforeTryPc, TryPc
<1>6. \A g \in Hash : (lock[g] = t /\ active'[g] > 0) =>
           store'[g] # NoRec /\ store'[g].life # "deleting"
  BY DEF IInv, StreamsTracked
<1> QED BY <1>3, <1>4, <1>5, <1>6, TaskStep

\* verifyOwnership's refusal, wherever it is called.
LEMMA Conflicts ==
  ASSUME IInv, NEW t \in Task, pc[t] \in In, rec[t] # NoRec,
         MarkConflict(t, job[t].hash), Finish(t), UNCHANGED <<torrent, active, issued>>
  PROVE  IInv'
<1> DEFINE h == job[t].hash
           r == [rec[t] EXCEPT !.life = "conflict"]
<1>1. h \in Hash /\ rec[t] \in Record
  BY Begun DEF In, PrepareIn, DeleteIn, SweepIn, BeforeTryPc, TryPc
<1>2. lock[h] = t
  BY DEF IInv, Settled
<1>3. r \in Record /\ r.life = "conflict"
  BY <1>1 DEF Record, Lifecycle
<1>4. r # NoRec
  BY <1>3, NoneAssumption
<1>5. store' = [store EXCEPT ![h] = r]
  BY DEF MarkConflict
<1>6. active \in [Hash -> 0..MaxPlays] /\ issued \in 0..MaxMarker
  BY DEF IInv, TypeOK
<1> HIDE DEF h, r
<1> QED BY <1>1, <1>2, <1>3, <1>4, <1>5, <1>6, ReturnsStoring

\* On to the `try` with a record and a torrent of ours.
LEMMA Proceeds ==
  ASSUME IInv, NEW t \in Task, pc[t] \in {"p_get", "p_wait"}, rec[t] # NoRec,
         Proceed(t, rec[t], torrent[job[t].hash]), reg' \in Task \cup {NoTask},
         UNCHANGED <<store, torrent, lock, active, issued>>
  PROVE  IInv'
<1> DEFINE h == job[t].hash
<1> USE DEF Proceed, Goto
<1>1. h \in Hash /\ job[t] \in Job /\ rec[t] \in Record
  BY Begun
<1>2. job'[t] \in Job /\ job'[t].hash = h
  BY <1>1 DEF IInv, TypeOK, Job
<1>3. pc'[t] \in {"p_start", "p_files"} /\ rec'[t] = rec[t]
  BY DEF IInv, TypeOK
<1>4. TypeOK'
  BY <1>1, <1>2 DEF IInv, TypeOK, PreparePc, TryPc
<1>5. Frame(t)
  BY DEF Frame, IInv, TypeOK
<1>6. lock[h] = t /\ Alive(store[h]) /\ Alive(rec[t]) /\ store[h] # NoRec
  BY DEF IInv, Settled, In, PrepareIn, BeforeTryPc
<1>7. Settled(t)'
  BY <1>1, <1>2, <1>3, <1>6 DEF Settled, Alive, In, PrepareIn, DeleteIn, SweepIn, BeforeTryPc, TryPc
<1>8. \A g \in Hash : (lock[g] = t /\ active'[g] > 0) =>
           store'[g] # NoRec /\ store'[g].life # "deleting"
  BY DEF IInv, StreamsTracked
<1> QED BY <1>4, <1>5, <1>7, <1>8, TaskStep

\* A step that only moves a task on, inside its section, between places at
\* which it relies on the same things.
LEMMA Moves ==
  ASSUME IInv, NEW t \in Task, NEW w \in PreparePc \cup DeletePc \cup SweepPc,
         pc[t] # "idle", pc' = [pc EXCEPT ![t] = w],
         NEW f \in File \cup {NoFile}, NEW b \in BOOLEAN,
         job' = [job EXCEPT ![t].file = f, ![t].resume = b] \/ (job' = job /\ f = job[t].file),
         torrent' \in [Hash -> Torrent \cup {NoTor}],
         reg' \in Task \cup {NoTask},
         UNCHANGED <<store, lock, active, rec, issued>>,
         \/ pc[t] \in BeforeTryPc /\ w \in {"p_reg", "p_space"}
         \/ pc[t] \in {"p_submit"} /\ w = "p_wait"
         \/ pc[t] \in TryPc /\ w \in TryPc /\ (w = "p_files" \/ f \in File)
         \/ pc[t] = "d_rm" /\ w = "d_confirm"
         \/ pc[t] = "s_get" /\ w = "s_tune"
  PROVE  IInv'
<1> DEFINE h == job[t].hash
<1>1. h \in Hash /\ job[t] \in Job
  BY Begun
<1>2. job'[t] \in Job /\ job'[t].hash = h /\ job'[t].file = f
      /\ job' \in [Task -> Job \cup {NoJob}] /\ \A u \in Task \ {t} : job'[u] = job[u]
  <2>1. CASE job' = job /\ f = job[t].file
    BY <1>1, <2>1 DEF IInv, TypeOK
  <2>2. CASE job' = [job EXCEPT ![t].file = f, ![t].resume = b]
    <3> DEFINE j == [job[t] EXCEPT !.file = f, !.resume = b]
    <3>1. j \in Job /\ j.hash = h /\ j.file = f
      BY <1>1 DEF Job
    <3>2. job' = [job EXCEPT ![t] = j]
      BY <2>2, <1>1 DEF IInv, TypeOK, Job
    <3> HIDE DEF j
    <3> QED BY <3>1, <3>2 DEF IInv, TypeOK
  <2> QED BY <2>1, <2>2
<1>3. pc'[t] = w /\ rec'[t] = rec[t]
  BY DEF IInv, TypeOK
<1>4. TypeOK'
  BY <1>2 DEF IInv, TypeOK
<1>5. Frame(t)
  BY <1>2 DEF Frame, IInv, TypeOK
<1>6. Settled(t)
  BY DEF IInv
<1>7. Settled(t)'
  BY <1>1, <1>2, <1>3, <1>6 DEF Settled, Alive, In, PrepareIn, DeleteIn, SweepIn, BeforeTryPc, TryPc
<1>8. \A g \in Hash : (lock[g] = t /\ active'[g] > 0) =>
           store'[g] # NoRec /\ store'[g].life # "deleting"
  BY DEF IInv, StreamsTracked
<1> QED BY <1>4, <1>5, <1>7, <1>8, TaskStep

\* A preparation stores a record and goes on.
LEMMA PrepareStores ==
  ASSUME IInv, NEW t \in Task, pc[t] \in {"p_space", "p_sel", "p_union"},
         NEW r \in Record, r.life # "deleting",
         NEW w \in {"p_submit", "p_union", "p_off"},
         w # "p_submit" => job[t].file \in File,
         store' = [store EXCEPT ![job[t].hash] = r],
         rec' = [rec EXCEPT ![t] = r], pc' = [pc EXCEPT ![t] = w],
         issued' \in 0..MaxMarker, UNCHANGED <<torrent, lock, reg, active, job>>
  PROVE  IInv'
<1> DEFINE h == job[t].hash
<1>1. h \in Hash /\ job[t] \in Job /\ r # NoRec
  BY Begun, NoneAssumption
<1>2. pc'[t] = w /\ rec'[t] = r /\ store'[h] = r
  BY <1>1 DEF IInv, TypeOK
<1>3. TypeOK'
  BY <1>1 DEF IInv, TypeOK, PreparePc, BeforeTryPc, TryPc
<1>4. lock[h] = t
  BY DEF IInv, Settled, In, PrepareIn, BeforeTryPc, TryPc
<1>5. Frame(t)
  BY <1>1, <1>4 DEF Frame, IInv, TypeOK
<1>6. Settled(t)'
  BY <1>1, <1>2, <1>4 DEF Settled, Alive, In, PrepareIn, DeleteIn, SweepIn, BeforeTryPc, TryPc
<1>7. \A g \in Hash : (lock[g] = t /\ active'[g] > 0) =>
           store'[g] # NoRec /\ store'[g].life # "deleting"
  BY <1>1, <1>2 DEF IInv, StreamsTracked, TypeOK
<1> QED BY <1>3, <1>5, <1>6, <1>7, TaskStep

\* The record of a registration is one, and is not being deleted.
LEMMA RegisteredRecord ==
  ASSUME IInv, NEW t \in Task, pc[t] \in {"p_reg", "p_space"},
         NEW life \in {"queued", "registering"}, Register(t, life)
  PROVE  /\ Registered(t, life) \in Record
         /\ Registered(t, life).life = life
         /\ store' = [store EXCEPT ![job[t].hash] = Registered(t, life)]
         /\ issued' \in 0..MaxMarker
<1>1. job[t] \in Job /\ rec[t] \in Record \cup {NoRec} /\ issued \in 0..MaxMarker
  BY Begun DEF IInv, TypeOK
<1>2. life \in Lifecycle
  BY DEF Lifecycle
<1>3. CASE rec[t] = NoRec
  <2>1. Registered(t, life) = [origin |-> job[t].origin, life |-> life, kept |-> FALSE,
             lease |-> 0, marker |-> issued + 1, file |-> NoFile, files |-> {}]
    BY <1>3 DEF Registered
  <2>2. issued' = issued + 1 /\ issued < MaxMarker
    BY <1>3 DEF Register
  <2>3. issued + 1 \in 1..MaxMarker /\ issued + 1 \in 0..MaxMarker /\ 0 \in 0..MaxLease
    BY <1>1, <2>2, BoundAssumption
  <2>4. Registered(t, life) \in Record
    BY <1>1, <1>2, <2>1, <2>3 DEF Record, Job
  <2> QED BY <2>1, <2>2, <2>3, <2>4 DEF Register
<1>4. CASE rec[t] # NoRec
  <2>1. Registered(t, life) = [rec[t] EXCEPT !.life = life]
    BY <1>4 DEF Registered
  <2>2. [rec[t] EXCEPT !.life = life] \in Record /\ [rec[t] EXCEPT !.life = life].life = life
    BY <1>1, <1>2, <1>4 DEF Record
  <2> QED BY <1>1, <1>4, <2>1, <2>2 DEF Register
<1> QED BY <1>3, <1>4

\* Every step of a preparation.
LEMMA PrepareKeeps ==
  ASSUME IInv, NEW t \in Task, Prepare(t)
  PROVE  IInv'
<1> DEFINE h == job[t].hash
<1>1. CASE prepareDownload(t)
  BY <1>1, PrepareBegins
<1>2. CASE PrepareRefused(t)
  BY <1>2, Returns DEF PrepareRefused
<1>3. CASE PrepareEnters(t)
  BY <1>3, Enters
<1>4. CASE PrepareThrows(t)
  BY <1>4, Returns DEF PrepareThrows
<1>5. CASE PrepareFinds(t)
  <2> USE <1>5 DEF PrepareFinds
  <2>1. pc[t] \in In /\ pc[t] \in {"p_get", "p_wait"} /\ reg \in Task \cup {NoTask}
    BY DEF In, PrepareIn, BeforeTryPc, IInv, TypeOK
  <2>2. CASE Proceed(t, rec[t], torrent[h]) /\ UNCHANGED <<store, lock, reg>>
    BY <2>1, <2>2, Proceeds
  <2>3. CASE MarkConflict(t, h) /\ Finish(t)
    BY <2>1, <2>3, Conflicts
  <2> QED BY <2>2, <2>3
<1>6. CASE PrepareMisses(t)
  <2>1. /\ pc[t] = "p_get" /\ pc' = [pc EXCEPT ![t] = "p_reg"]
        /\ UNCHANGED <<store, torrent, lock, reg, active, job, rec, issued>>
    BY <1>6 DEF PrepareMisses, Goto
  <2> QED BY <2>1, Begun, Moves DEF IInv, TypeOK, BeforeTryPc, PreparePc, Job
<1>7. CASE PrepareQueues(t)
  <2>1. pc[t] = "p_reg" /\ Register(t, "queued") /\ Finish(t) /\ UNCHANGED <<torrent, active>>
    BY <1>7 DEF PrepareQueues
  <2>2. /\ Registered(t, "queued") \in Record
        /\ Registered(t, "queued").life = "queued"
        /\ store' = [store EXCEPT ![h] = Registered(t, "queued")]
        /\ issued' \in 0..MaxMarker
    BY <2>1, RegisteredRecord
  <2>3. lock[h] = t /\ h \in Hash
    BY <2>1, Begun DEF IInv, Settled, In, PrepareIn, BeforeTryPc
  <2>4. Registered(t, "queued") # NoRec /\ active \in [Hash -> 0..MaxPlays]
    BY <2>2, NoneAssumption DEF IInv, TypeOK
  <2> QED BY <2>1, <2>2, <2>3, <2>4, ReturnsStoring
<1>8. CASE PrepareAdmits(t)
  <2>1. /\ pc[t] = "p_reg" /\ pc' = [pc EXCEPT ![t] = "p_space"] /\ reg' = t
        /\ UNCHANGED <<store, torrent, lock, active, job, rec, issued>>
    BY <1>8 DEF PrepareAdmits, Goto
  <2> QED BY <2>1, Begun, Moves DEF IInv, TypeOK, BeforeTryPc, PreparePc, Job
<1>9. CASE PrepareRegisters(t)
  <2>1. /\ pc[t] = "p_space" /\ Register(t, "registering")
        /\ rec' = [rec EXCEPT ![t] = Registered(t, "registering")]
        /\ pc' = [pc EXCEPT ![t] = "p_submit"]
        /\ UNCHANGED <<torrent, lock, reg, active, job>>
    BY <1>9 DEF PrepareRegisters, Goto
  <2>2. /\ Registered(t, "registering") \in Record
        /\ Registered(t, "registering").life = "registering"
        /\ store' = [store EXCEPT ![h] = Registered(t, "registering")]
        /\ issued' \in 0..MaxMarker
    BY <2>1, RegisteredRecord
  <2> QED BY <2>1, <2>2, PrepareStores
<1>10. CASE PrepareSubmits(t)
  <2>1. /\ pc[t] = "p_submit" /\ pc' = [pc EXCEPT ![t] = "p_wait"]
        /\ UNCHANGED <<store, lock, reg, active, job, rec, issued>>
    BY <1>10 DEF PrepareSubmits, Goto
  <2>2. rec[t] \in Record /\ rec[t].marker \in 0..MaxMarker
    BY <2>1, Begun, BoundAssumption DEF IInv, Settled, Record
  <2>3. torrent' \in [Hash -> Torrent \cup {NoTor}]
    BY <1>10, <2>2 DEF PrepareSubmits, IInv, TypeOK, Torrent
  <2> QED BY <2>1, <2>3, Begun, Moves DEF IInv, TypeOK, BeforeTryPc, PreparePc, Job
<1>11. CASE PrepareConfirms(t)
  <2> USE <1>11 DEF PrepareConfirms
  <2>1. pc[t] \in In /\ pc[t] \in {"p_get", "p_wait"} /\ rec[t] # NoRec
    BY DEF In, PrepareIn, BeforeTryPc, IInv, Settled
  <2>2. CASE Proceed(t, rec[t], torrent[h]) /\ reg' = NoTask /\ UNCHANGED <<store, lock>>
    BY <2>1, <2>2, Proceeds
  <2>3. CASE MarkConflict(t, h) /\ Finish(t)
    BY <2>1, <2>3, Conflicts
  <2> QED BY <2>2, <2>3
<1>12. CASE PrepareStarts(t)
  <2>1. /\ pc[t] = "p_start" /\ pc' = [pc EXCEPT ![t] = "p_files"]
        /\ torrent' = [torrent EXCEPT ![h].running = TRUE] /\ torrent[h] # NoTor
        /\ UNCHANGED <<store, lock, reg, active, job, rec, issued>>
    BY <1>12 DEF PrepareStarts, Goto
  <2>2. torrent' \in [Hash -> Torrent \cup {NoTor}]
    <3>1. torrent[h] \in Torrent /\ torrent \in [Hash -> Torrent \cup {NoTor}]
      BY <2>1, Begun DEF IInv, TypeOK
    <3>2. [torrent[h] EXCEPT !.running = TRUE] \in Torrent
      BY <3>1 DEF Torrent
    <3> QED BY <2>1, <3>1, <3>2
  <2> QED BY <2>1, <2>2, Begun, Moves DEF IInv, TypeOK, TryPc, PreparePc, Job
<1>13. CASE PrepareChooses(t)
  <2> DEFINE missing(f) == f \notin torrent[h].have
  <2>1. PICK f \in Wanted(t) \ {NoFile} :
          /\ job' = [job EXCEPT ![t].file = f, ![t].resume = @ /\ missing(f)]
          /\ Goto(t, IF AllowSelect(t) /\ f \notin rec[t].files /\ missing(f)
                     THEN "p_sel" ELSE "p_union")
    BY <1>13 DEF PrepareChooses
  <2>2. pc[t] = "p_files" /\ UNCHANGED <<store, torrent, lock, reg, active, rec, issued>>
    BY <1>13 DEF PrepareChooses
  <2>3. job[t] \in Job /\ rec[t] \in Record
    BY <2>2, Begun DEF IInv, Settled, TryPc
  <2>4. f \in File
    BY <2>1, <2>3 DEF Wanted, Job, Record
  <2>5. PICK b \in BOOLEAN : b = (job[t].resume /\ missing(f))
    OBVIOUS
  <2>6. job' = [job EXCEPT ![t].file = f, ![t].resume = b]
    BY <2>1, <2>3, <2>5 DEF IInv, TypeOK, Job
  <2>7. PICK w \in {"p_sel", "p_union"} : pc' = [pc EXCEPT ![t] = w]
    BY <2>1 DEF Goto
  <2> HIDE DEF missing
  <2> QED BY <2>2, <2>4, <2>6, <2>7, Moves DEF IInv, TypeOK, TryPc, PreparePc
<1>14. CASE PrepareSelects(t)
  <2> DEFINE r == [store[h] EXCEPT !.life = "registering", !.file = job[t].file,
                                   !.files = rec[t].files \cup {job[t].file}]
  <2>1. /\ pc[t] = "p_sel" /\ pc' = [pc EXCEPT ![t] = "p_union"]
        /\ store' = [store EXCEPT ![h] = r] /\ rec' = [rec EXCEPT ![t] = r]
        /\ UNCHANGED <<torrent, lock, reg, active, job, issued>>
    BY <1>14 DEF PrepareSelects, Goto
  <2>2. store[h] \in Record /\ rec[t] \in Record /\ job[t].file \in File
    BY <2>1, Begun DEF IInv, Settled, PrepareIn, TryPc
  <2>3. r \in Record /\ r.life = "registering"
    BY <2>2 DEF Record, Lifecycle
  <2>4. issued' \in 0..MaxMarker
    BY <2>1 DEF IInv, TypeOK
  <2> HIDE DEF r
  <2> QED BY <2>1, <2>2, <2>3, <2>4, PrepareStores
<1>15. CASE PrepareUnites(t)
  <2>1. PICK chosen \in SUBSET File :
          LET r == [store[h] EXCEPT !.file = job[t].file, !.files = rec[t].files \cup chosen] IN
            /\ store' = [store EXCEPT ![h] = r]
            /\ rec' = [rec EXCEPT ![t] = r]
    BY <1>15 DEF PrepareUnites
  <2> DEFINE r == [store[h] EXCEPT !.file = job[t].file, !.files = rec[t].files \cup chosen]
  <2>2. /\ pc[t] = "p_union" /\ pc' = [pc EXCEPT ![t] = "p_off"]
        /\ store' = [store EXCEPT ![h] = r] /\ rec' = [rec EXCEPT ![t] = r]
        /\ UNCHANGED <<torrent, lock, reg, active, job, issued>>
    BY <1>15, <2>1 DEF PrepareUnites, Goto
  <2>3. /\ store[h] \in Record /\ store[h].life # "deleting"
        /\ rec[t] \in Record /\ job[t].file \in File
    BY <2>2, Begun DEF IInv, Settled, Alive, PrepareIn, TryPc
  <2>4. r \in Record /\ r.life # "deleting"
    BY <2>3 DEF Record
  <2>5. issued' \in 0..MaxMarker
    BY <2>2 DEF IInv, TypeOK
  <2> HIDE DEF r
  <2> QED BY <2>2, <2>3, <2>4, <2>5, PrepareStores
<1>16. CASE PrepareDeselects(t)
  <2>1. /\ pc[t] = "p_off" /\ pc' = [pc EXCEPT ![t] = "p_on"]
        /\ torrent' = [torrent EXCEPT ![h].wanted = @ \cap rec[t].files] /\ torrent[h] # NoTor
        /\ UNCHANGED <<store, lock, reg, active, job, rec, issued>>
    BY <1>16 DEF PrepareDeselects, Goto
  <2>2. torrent' \in [Hash -> Torrent \cup {NoTor}]
    BY <2>1, Begun DEF IInv, TypeOK, Torrent
  <2>3. job[t].file \in File
    BY <2>1 DEF IInv, Settled, TryPc
  <2> QED BY <2>1, <2>2, <2>3, Moves DEF IInv, TypeOK, TryPc, PreparePc
<1>17. CASE PrepareEnables(t)
  <2>1. /\ pc[t] = "p_on"
        /\ torrent' = [torrent EXCEPT ![h].wanted = @ \cup rec[t].files] /\ torrent[h] # NoTor
        /\ UNCHANGED <<store, lock, reg, active, job, rec, issued>>
    BY <1>17 DEF PrepareEnables
  <2>2. PICK w \in {"p_run", "p_done"} : pc' = [pc EXCEPT ![t] = w]
    BY <1>17 DEF PrepareEnables, Goto
  <2>3. rec[t] \in Record /\ job[t].file \in File
    BY <2>1, Begun DEF IInv, Settled, TryPc
  <2>4. torrent' \in [Hash -> Torrent \cup {NoTor}]
    <3>1. torrent[h] \in Torrent /\ torrent \in [Hash -> Torrent \cup {NoTor}]
      BY <2>1, Begun DEF IInv, TypeOK
    <3>2. rec[t].files \subseteq File
      BY <2>3 DEF Record
    <3>3. PICK x : x = [torrent[h] EXCEPT !.wanted = @ \cup rec[t].files]
      OBVIOUS
    <3>4. x \in Torrent
      BY <3>1, <3>2, <3>3 DEF Torrent
    <3>5. torrent' = [torrent EXCEPT ![h] = x]
      BY <2>1, <3>3
    <3> QED BY <3>1, <3>4, <3>5
  <2> QED BY <2>1, <2>2, <2>3, <2>4, Moves DEF IInv, TypeOK, TryPc, PreparePc
<1>18. CASE PrepareResumes(t)
  <2>1. /\ pc[t] = "p_run" /\ pc' = [pc EXCEPT ![t] = "p_done"]
        /\ torrent' = [torrent EXCEPT ![h].running = TRUE] /\ torrent[h] # NoTor
        /\ UNCHANGED <<store, lock, reg, active, job, rec, issued>>
    BY <1>18 DEF PrepareResumes, Goto
  <2>2. torrent' \in [Hash -> Torrent \cup {NoTor}]
    BY <2>1, Begun DEF IInv, TypeOK, Torrent
  <2>3. job[t].file \in File
    BY <2>1 DEF IInv, Settled, TryPc
  <2> QED BY <2>1, <2>2, <2>3, Moves DEF IInv, TypeOK, TryPc, PreparePc
<1>19. CASE PrepareReady(t)
  <2>1. /\ pc[t] = "p_done" /\ (Streams(t) => active[h] < MaxPlays)
        /\ store' = IF rec[t].life = "managed" THEN store
                    ELSE [store EXCEPT ![h] = [rec[t] EXCEPT !.life = "managed"]]
        /\ active' = IF Streams(t) THEN [active EXCEPT ![h] = @ + 1] ELSE active
        /\ Finish(t) /\ UNCHANGED <<torrent, issued>>
    BY <1>19 DEF PrepareReady
  <2>2. /\ h \in Hash /\ lock[h] = t /\ store[h] \in Record /\ rec[t] \in Record
        /\ store[h].life # "deleting" /\ store[h] # NoRec
    BY <2>1, Begun DEF IInv, Settled, Alive, In, PrepareIn, TryPc
  <2>3. PICK r \in Record : /\ store' = [store EXCEPT ![h] = r]
                            /\ r.life # "deleting"
    <3>1. CASE rec[t].life = "managed"
      <4>1. store' = [store EXCEPT ![h] = store[h]]
        BY <2>1, <2>2, <3>1 DEF IInv, TypeOK
      <4> QED BY <4>1, <2>2
    <3>2. CASE rec[t].life # "managed"
      <4> DEFINE r == [rec[t] EXCEPT !.life = "managed"]
      <4>1. r \in Record /\ r.life = "managed"
        BY <2>2 DEF Record, Lifecycle
      <4>2. store' = [store EXCEPT ![h] = r]
        BY <2>1, <3>2
      <4> HIDE DEF r
      <4> QED BY <4>1, <4>2
    <3> QED BY <3>1, <3>2
  <2>4. active' \in [Hash -> 0..MaxPlays] /\ \A g \in Hash \ {h} : active'[g] = active[g]
    BY <2>1, <2>2, BoundAssumption DEF IInv, TypeOK
  <2>5. r # NoRec /\ issued' \in 0..MaxMarker
    BY <2>1, NoneAssumption DEF IInv, TypeOK
  <2> QED BY <2>1, <2>2, <2>3, <2>4, <2>5, ReturnsStoring
<1>20. CASE PrepareFails(t)
  <2>1. pc[t] \in TryPc /\ Finish(t) /\ UNCHANGED <<torrent, active, issued>>
    BY <1>20 DEF PrepareFails
  <2>2. CASE UNCHANGED store
    BY <2>1, <2>2, Returns
  <2>3. CASE store' = [store EXCEPT ![h].life = "failed"]
    <3>1. h \in Hash /\ lock[h] = t /\ store[h] \in Record
      BY <2>1, Begun DEF IInv, Settled, In, PrepareIn, TryPc
    <3> DEFINE r == [store[h] EXCEPT !.life = "failed"]
    <3>2. r \in Record /\ r.life = "failed"
      BY <3>1 DEF Record, Lifecycle
    <3>3. store' = [store EXCEPT ![h] = r]
      BY <2>3, <3>1 DEF IInv, TypeOK, Record
    <3>4. r # NoRec /\ active \in [Hash -> 0..MaxPlays] /\ issued \in 0..MaxMarker
      BY <3>2, NoneAssumption DEF IInv, TypeOK
    <3> HIDE DEF r
    <3> QED BY <2>1, <3>1, <3>2, <3>3, <3>4, ReturnsStoring
  <2> QED BY <1>20, <2>2, <2>3 DEF PrepareFails
<1> QED BY <1>1, <1>2, <1>3, <1>4, <1>5, <1>6, <1>7, <1>8, <1>9, <1>10, <1>11, <1>12,
           <1>13, <1>14, <1>15, <1>16, <1>17, <1>18, <1>19, <1>20 DEF Prepare

\* A deletion enters the section, or a sweep does.
LEMMA DeletionEnters ==
  ASSUME IInv, NEW t \in Task, pc[t] \in {"d_lock", "s_lock"},
         NEW w \in {"d_get", "s_get"}, w = "d_get" => active[job[t].hash] = 0,
         lock[job[t].hash] = NoTask, store[job[t].hash] # NoRec,
         lock' = [lock EXCEPT ![job[t].hash] = t],
         rec' = [rec EXCEPT ![t] = store[job[t].hash]],
         pc' = [pc EXCEPT ![t] = w],
         UNCHANGED <<store, torrent, reg, active, job, issued>>
  PROVE  IInv'
<1> DEFINE h == job[t].hash
<1>1. h \in Hash /\ job[t] \in Job /\ store[h] \in Record
  BY Begun
<1>2. pc'[t] = w /\ lock'[h] = t /\ rec'[t] = store[h]
  BY <1>1 DEF IInv, TypeOK
<1>3. TypeOK'
  BY <1>1 DEF IInv, TypeOK, DeletePc, SweepPc
<1>4. Frame(t)
  BY <1>1 DEF Frame, IInv, TypeOK
<1>5. Settled(t)'
  BY <1>1, <1>2 DEF Settled, In, PrepareIn, DeleteIn, SweepIn, BeforeTryPc, TryPc
<1>6. \A g \in Hash : (lock[g] = t /\ active'[g] > 0) =>
           store'[g] # NoRec /\ store'[g].life # "deleting"
  BY DEF IInv, StreamsTracked
<1> QED BY <1>3, <1>4, <1>5, <1>6, TaskStep

\* What a deletion or a sweep in its section relies on.
LEMMA DeletionIn ==
  ASSUME IInv, NEW t \in Task, pc[t] \in DeleteIn \cup SweepIn
  PROVE  /\ pc[t] \in In /\ job[t].hash \in Hash /\ lock[job[t].hash] = t
         /\ store[job[t].hash] \in Record /\ rec[t] \in Record /\ rec[t] # NoRec
         /\ pc[t] \in DeleteIn => active[job[t].hash] = 0
<1>1. pc[t] \in In /\ pc[t] # "idle"
  BY DEF In, DeleteIn, SweepIn
<1> QED BY <1>1, Begun, NoneAssumption DEF IInv, Settled

\* A record goes, under the lock, while nobody plays the title.
LEMMA Forgets ==
  ASSUME IInv, NEW t \in Task, pc[t] \in DeleteIn \cup SweepIn,
         active[job[t].hash] = 0, Finish(t),
         store' = [store EXCEPT ![job[t].hash] = NoRec],
         UNCHANGED <<torrent, active, issued>>
  PROVE  IInv'
<1>1. active' \in [Hash -> 0..MaxPlays] /\ issued' \in 0..MaxMarker
  BY DEF IInv, TypeOK
<1>2. job[t].hash \in Hash /\ lock[job[t].hash] = t /\ ~(active'[job[t].hash] > 0)
  BY DeletionIn
<1>3. NoRec \in Record \cup {NoRec} /\ torrent' = torrent
      /\ \A g \in Hash \ {job[t].hash} : active'[g] = active[g]
  OBVIOUS
<1> QED BY <1>1, <1>2, <1>3, ReturnsStoring

\* The intent to delete is stored: nobody plays the title.
LEMMA Decides ==
  ASSUME IInv, NEW t \in Task, DeleteDecides(t)
  PROVE  IInv'
<1> DEFINE h == job[t].hash
           r == [store[h] EXCEPT !.life = "deleting"]
<1>1. /\ pc[t] = "d_get" /\ active[h] = 0
      /\ pc' = [pc EXCEPT ![t] = "d_rm"]
      /\ UNCHANGED <<torrent, lock, reg, active, job, rec, issued>>
  BY DEF DeleteDecides, Goto
<1>2. h \in Hash /\ lock[h] = t /\ store[h] \in Record /\ rec[t] # NoRec /\ job[t] \in Job
  BY <1>1, DeletionIn, Begun DEF DeleteIn
<1>3. r \in Record /\ r.life = "deleting"
  BY <1>2 DEF Record, Lifecycle
<1>4. store' = [store EXCEPT ![h] = r]
  BY <1>2 DEF DeleteDecides, IInv, TypeOK, Record
<1> HIDE DEF r
<1>5. pc'[t] = "d_rm" /\ store'[h] = r /\ r # NoRec
  BY <1>1, <1>2, <1>3, <1>4, NoneAssumption DEF IInv, TypeOK
<1>6. TypeOK'
  BY <1>1, <1>2, <1>3, <1>4 DEF IInv, TypeOK, DeletePc
<1>7. Frame(t)
  BY <1>1, <1>2, <1>4 DEF Frame, IInv, TypeOK
<1>8. Settled(t)'
  BY <1>1, <1>2, <1>3, <1>5 DEF Settled, In, PrepareIn, DeleteIn, SweepIn, BeforeTryPc, TryPc
<1>9. \A g \in Hash : (lock[g] = t /\ active'[g] > 0) =>
           store'[g] # NoRec /\ store'[g].life # "deleting"
  BY <1>1, <1>2, <1>4 DEF IInv, StreamsTracked, TypeOK
<1> QED BY <1>6, <1>7, <1>8, <1>9, TaskStep

\* Every step of a deletion.
LEMMA DeleteKeeps ==
  ASSUME IInv, NEW t \in Task, Delete(t)
  PROVE  IInv'
<1> DEFINE h == job[t].hash
<1>1. CASE deleteManaged(t)
  <2>1. PICK g \in Hash :
          /\ store[g] # NoRec
          /\ \/ Begin(t, DeleteRequest("delete", g, 0), "d_lock")
             \/ Begin(t, DeleteRequest("expire", g, 0), "d_lock")
             \/ Begin(t, DeleteRequest("evict", g, store[g].lease), "d_lock")
    BY <1>1 DEF deleteManaged
  <2>2. store[g].lease \in 0..MaxLease /\ 0 \in 0..MaxLease /\ 0 \in 0..MaxMarker
    BY <2>1, BoundAssumption DEF IInv, TypeOK, Record
  <2>3. \A op \in DeleteOps, lease \in 0..MaxLease : DeleteRequest(op, g, lease) \in Job
    BY <2>2 DEF DeleteRequest, Job, AllOps, Origin
  <2>4. /\ DeleteRequest("delete", g, 0) \in Job
        /\ DeleteRequest("expire", g, 0) \in Job
        /\ DeleteRequest("evict", g, store[g].lease) \in Job
    BY <2>2, <2>3 DEF DeleteOps
  <2> QED BY <2>1, <2>4, Begins
<1>2. CASE DeleteRefused(t)
  BY <1>2, Returns DEF DeleteRefused
<1>3. CASE DeleteEnters(t)
  BY <1>3, DeletionEnters DEF DeleteEnters, Goto
<1>4. CASE DeleteThrows(t)
  BY <1>4, Returns DEF DeleteThrows
<1>5. CASE DeleteFindsNothing(t)
  <2>1. pc[t] = "d_get" /\ pc[t] \in DeleteIn
    BY <1>5 DEF DeleteFindsNothing, DeleteIn
  <2> QED BY <1>5, <2>1, DeletionIn, Forgets DEF DeleteFindsNothing
<1>6. CASE DeleteDecides(t)
  BY <1>6, Decides
<1>7. CASE DeleteDeclines(t)
  <2>1. pc[t] = "d_get" /\ Finish(t) /\ UNCHANGED <<torrent, active, issued>>
    BY <1>7 DEF DeleteDeclines
  <2>2. UNCHANGED store \/ MarkConflict(t, h)
    BY <1>7 DEF DeleteDeclines
  <2> QED BY <2>1, <2>2, DeletionIn, Returns, Conflicts DEF DeleteIn
<1>8. CASE DeleteRemoves(t)
  <2>1. /\ pc[t] = "d_rm" /\ pc' = [pc EXCEPT ![t] = "d_confirm"]
        /\ torrent' \in {torrent, [torrent EXCEPT ![h] = NoTor]}
        /\ UNCHANGED <<store, lock, reg, active, job, rec, issued>>
    BY <1>8 DEF DeleteRemoves, Goto
  <2>2. torrent' \in [Hash -> Torrent \cup {NoTor}]
    BY <2>1 DEF IInv, TypeOK
  <2> QED BY <2>1, <2>2, Begun, Moves DEF IInv, TypeOK, DeletePc, Job
<1>9. CASE DeleteConfirms(t)
  <2>1. pc[t] = "d_confirm" /\ pc[t] \in DeleteIn
    BY <1>9 DEF DeleteConfirms, DeleteIn
  <2> QED BY <1>9, <2>1, DeletionIn, Forgets DEF DeleteConfirms
<1> QED BY <1>1, <1>2, <1>3, <1>4, <1>5, <1>6, <1>7, <1>8, <1>9 DEF Delete

\* The sweep lets go of the title and goes on to delete it if it expired.
LEMMA Tunes ==
  ASSUME IInv, NEW t \in Task, SweepTunes(t)
  PROVE  IInv'
<1> DEFINE h == job[t].hash
<1>1. /\ pc[t] = "s_tune" /\ lock' = [lock EXCEPT ![h] = NoTask]
      /\ job' = [job EXCEPT ![t].op = "expire"] /\ rec' = [rec EXCEPT ![t] = NoRec]
      /\ pc' = [pc EXCEPT ![t] = "d_lock"]
      /\ UNCHANGED <<store, reg, active, issued>>
  BY DEF SweepTunes, Goto
<1>2. h \in Hash /\ lock[h] = t /\ job[t] \in Job
  BY <1>1, DeletionIn, Begun DEF SweepIn
<1>3. torrent' \in [Hash -> Torrent \cup {NoTor}]
  <2>1. PICK seeded \in BOOLEAN :
       torrent' = IF rec[t].life # "deleting" /\ Complete(torrent[h])
                  THEN [torrent EXCEPT ![h].running = ~seeded] ELSE torrent
    BY DEF SweepTunes
  <2>2. torrent[h] # NoTor \/ rec[t].life = "deleting"
    BY DEF SweepTunes
  <2>3. CASE torrent' = torrent
    BY <2>3 DEF IInv, TypeOK
  <2>4. CASE torrent' = [torrent EXCEPT ![h].running = ~seeded] /\ torrent[h] # NoTor
    <3>1. PICK b \in BOOLEAN : b = ~seeded
      OBVIOUS
    <3>2. torrent' = [torrent EXCEPT ![h].running = b]
      BY <2>4, <3>1
    <3> QED BY <1>2, <2>4, <3>2 DEF IInv, TypeOK, Torrent
  <2> QED BY <2>1, <2>2, <2>3, <2>4
<1>4. job' \in [Task -> Job \cup {NoJob}] /\ job'[t] \in Job /\ \A u \in Task \ {t} : job'[u] = job[u]
  <2> DEFINE j == [job[t] EXCEPT !.op = "expire"]
  <2>1. j \in Job
    BY <1>2 DEF Job, AllOps, DeleteOps
  <2>2. job' = [job EXCEPT ![t] = j]
    BY <1>1, <1>2 DEF IInv, TypeOK, Job
  <2> HIDE DEF j
  <2> QED BY <2>1, <2>2 DEF IInv, TypeOK
<1>5. TypeOK'
  BY <1>1, <1>2, <1>3, <1>4 DEF IInv, TypeOK, DeletePc
<1>6. Frame(t)
  BY <1>1, <1>2, <1>4 DEF Frame, IInv, TypeOK
<1>7. Settled(t)'
  BY <1>1, <1>4 DEF IInv, TypeOK, Settled, In, PrepareIn, DeleteIn, SweepIn, BeforeTryPc, TryPc
<1>8. \A g \in Hash : (lock[g] = t /\ active'[g] > 0) =>
           store'[g] # NoRec /\ store'[g].life # "deleting"
  BY <1>1 DEF IInv, StreamsTracked
<1> QED BY <1>5, <1>6, <1>7, <1>8, TaskStep

\* Every step of a sweep.
LEMMA SweepKeeps ==
  ASSUME IInv, NEW t \in Task, Sweep(t)
  PROVE  IInv'
<1> DEFINE h == job[t].hash
<1>1. CASE sweepOnce(t)
  <2>1. PICK g \in Hash : Begin(t, DeleteRequest("sweep", g, 0), "s_lock")
    BY <1>1 DEF sweepOnce
  <2>2. DeleteRequest("sweep", g, 0) \in Job
    BY BoundAssumption DEF DeleteRequest, Job, AllOps, Origin
  <2> QED BY <2>1, <2>2, Begins
<1>2. CASE SweepEnters(t)
  <2>1. CASE store[h] = NoRec
    BY <1>2, <2>1, Returns DEF SweepEnters
  <2>2. CASE store[h] # NoRec
    BY <1>2, <2>2, DeletionEnters DEF SweepEnters, Goto
  <2> QED BY <2>1, <2>2
<1>3. CASE SweepCleans(t)
  <2>1. pc[t] = "s_get" /\ pc[t] \in SweepIn /\ Finish(t) /\ UNCHANGED <<torrent, active, issued>>
    BY <1>3 DEF SweepCleans, SweepIn
  <2>2. CASE store' = store
    BY <2>1, <2>2, Returns
  <2>3. CASE active[h] = 0 /\ store' = [store EXCEPT ![h] = NoRec]
    BY <2>1, <2>3, Forgets
  <2> QED BY <1>3, <2>2, <2>3 DEF SweepCleans
<1>4. CASE SweepVerifies(t)
  <2>1. pc[t] = "s_get" /\ UNCHANGED <<torrent, active, issued>>
    BY <1>4 DEF SweepVerifies
  <2>2. pc[t] \in In /\ rec[t] # NoRec
    BY <2>1, DeletionIn DEF SweepIn
  <2>3. CASE pc' = [pc EXCEPT ![t] = "s_tune"] /\ UNCHANGED <<store, lock, reg, job, rec>>
    BY <2>1, <2>3, Begun, Moves DEF IInv, TypeOK, SweepPc, Job
  <2>4. CASE MarkConflict(t, h) /\ Finish(t)
    BY <2>1, <2>2, <2>4, Conflicts
  <2> QED BY <1>4, <2>3, <2>4 DEF SweepVerifies, Goto
<1>5. CASE SweepTunes(t)
  BY <1>5, Tunes
<1> QED BY <1>1, <1>2, <1>3, <1>4, <1>5 DEF Sweep

\* What happens around the tasks keeps the lifecycle of every record and starts
\* no stream.
LEMMA AroundKeeps ==
  ASSUME IInv, TypeOK', UNCHANGED <<pc, job, rec, lock>>,
         \A h \in Hash : (store'[h] = NoRec) <=> (store[h] = NoRec),
         \A h \in Hash : store[h] # NoRec => store'[h].life = store[h].life,
         \A h \in Hash : active'[h] = active[h] \/ (active[h] > 0 /\ active'[h] = active[h] - 1)
  PROVE  IInv'
<1>1. StreamsTracked'
  BY DEF IInv, StreamsTracked, TypeOK
<1>2. ASSUME NEW t \in Task PROVE Settled(t)'
  <2>1. Settled(t)
    BY DEF IInv
  <2>2. CASE pc[t] = "idle"
    BY <2>2 DEF Settled, In, PrepareIn, DeleteIn, SweepIn, BeforeTryPc, TryPc
  <2>3. CASE pc[t] # "idle"
    <3>1. job[t].hash \in Hash
      BY <2>3, Begun
    <3>2. active[job[t].hash] = 0 => active'[job[t].hash] = 0
      BY <3>1
    <3> QED BY <2>1, <3>1, <3>2 DEF Settled, Alive
  <2> QED BY <2>2, <2>3
<1> QED BY <1>1, <1>2 DEF IInv

\* Every step of the surroundings.
LEMMA EnvironmentKeeps ==
  ASSUME IInv, Environment
  PROVE  IInv'
<1>1. CASE \E h \in Hash, kept \in BOOLEAN : setKept(h, kept)
  <2>1. PICK h \in Hash, kept \in BOOLEAN : setKept(h, kept)
    BY <1>1
  <2> DEFINE r == [store[h] EXCEPT !.kept = kept]
  <2>2. store[h] \in Record /\ store[h] # NoRec
    BY <2>1 DEF setKept, IInv, TypeOK
  <2>3. r \in Record /\ r.life = store[h].life
    BY <2>2 DEF Record
  <2>4. store' = [store EXCEPT ![h] = r] /\ r # NoRec
    BY <2>1, <2>2, <2>3, NoneAssumption DEF setKept, IInv, TypeOK, Record
  <2> HIDE DEF r
  <2> QED BY <2>1, <2>2, <2>3, <2>4, AroundKeeps DEF setKept, IInv, TypeOK
<1>2. CASE \E h \in Hash : renew(h)
  <2>1. PICK h \in Hash : renew(h)
    BY <1>2
  <2> DEFINE r == [store[h] EXCEPT !.lease = @ + 1]
  <2>2. store[h] \in Record /\ store[h] # NoRec /\ store[h].lease + 1 \in 0..MaxLease
    BY <2>1, BoundAssumption DEF renew, IInv, TypeOK, Record
  <2>3. r \in Record /\ r.life = store[h].life
    BY <2>2 DEF Record
  <2>4. store' = [store EXCEPT ![h] = r] /\ r # NoRec
    BY <2>1, <2>2, <2>3, NoneAssumption DEF renew, IInv, TypeOK, Record
  <2> HIDE DEF r
  <2> QED BY <2>1, <2>2, <2>3, <2>4, AroundKeeps DEF renew, IInv, TypeOK
<1>3. CASE \E h \in Hash : markInactive(h)
  <2>1. PICK h \in Hash : markInactive(h)
    BY <1>3
  <2>2. active' \in [Hash -> 0..MaxPlays]
    BY <2>1, BoundAssumption DEF markInactive, IInv, TypeOK
  <2>3. TypeOK'
    BY <2>1, <2>2 DEF markInactive, IInv, TypeOK
  <2> QED BY <2>1, <2>3, AroundKeeps DEF markInactive, IInv, TypeOK
<1>4. ASSUME torrent' \in [Hash -> Torrent \cup {NoTor}],
             UNCHANGED <<store, lock, reg, active, pc, job, rec, issued>>
      PROVE  IInv'
  BY <1>4, AroundKeeps DEF IInv, TypeOK
<1>5. CASE \E h \in Hash : Progress(h)
  <2>1. PICK h \in Hash : Progress(h)
    BY <1>5
  <2>2. PICK f \in torrent[h].wanted \ torrent[h].have :
          torrent' = [torrent EXCEPT ![h].have = @ \cup {f}]
    BY <2>1 DEF Progress
  <2>3. torrent[h] \in Torrent
    BY <2>1 DEF Progress, IInv, TypeOK
  <2>4. torrent' \in [Hash -> Torrent \cup {NoTor}]
    BY <2>2, <2>3 DEF IInv, TypeOK, Torrent
  <2> QED BY <1>4, <2>1, <2>4 DEF Progress
<1>6. CASE \E h \in Hash : UserRemoves(h)
  BY <1>4, <1>6 DEF UserRemoves, IInv, TypeOK
<1>7. CASE \E h \in Hash : UserAdds(h)
  <2>1. PICK h \in Hash : UserAdds(h)
    BY <1>7
  <2>2. [marker |-> 0, wanted |-> File, have |-> {}, running |-> TRUE] \in Torrent
    BY BoundAssumption DEF Torrent
  <2>3. torrent' \in [Hash -> Torrent \cup {NoTor}]
    BY <2>1, <2>2 DEF UserAdds, IInv, TypeOK
  <2> QED BY <1>4, <2>1, <2>3 DEF UserAdds
<1>8. CASE Crash
  <2>1. TypeOK'
    BY <1>8, BoundAssumption DEF Crash, IInv, TypeOK
  <2>2. \A t \in Task : Settled(t)'
    BY <1>8 DEF Crash, Settled, In, PrepareIn, DeleteIn, SweepIn, BeforeTryPc, TryPc
  <2>3. StreamsTracked'
    BY <1>8 DEF Crash, StreamsTracked
  <2> QED BY <2>1, <2>2, <2>3 DEF IInv
<1> QED BY <1>1, <1>2, <1>3, <1>5, <1>6, <1>7, <1>8 DEF Environment

\* The inductive invariant holds from the start and of every step.
THEOREM InductiveInvariant == Spec => []IInv
<1>1. Init => IInv
  <2> SUFFICES ASSUME Init PROVE IInv
    OBVIOUS
  <2>1. TypeOK
    BY BoundAssumption DEF Init, TypeOK
  <2>2. \A t \in Task : Settled(t)
    BY DEF Init, Settled, In, PrepareIn, DeleteIn, SweepIn, BeforeTryPc, TryPc
  <2>3. StreamsTracked
    BY DEF Init, StreamsTracked
  <2> QED BY <2>1, <2>2, <2>3 DEF IInv
<1>2. IInv /\ [Next]_vars => IInv'
  <2> SUFFICES ASSUME IInv, [Next]_vars PROVE IInv'
    OBVIOUS
  <2>1. CASE \E t \in Task : Prepare(t) \/ Delete(t) \/ Sweep(t)
    BY <2>1, PrepareKeeps, DeleteKeeps, SweepKeeps
  <2>2. CASE Environment
    BY <2>2, EnvironmentKeeps
  <2>3. CASE UNCHANGED vars
    <3>1. TypeOK'
      BY <2>3 DEF IInv, TypeOK, vars
    <3> QED BY <2>3, <3>1, AroundKeeps DEF vars
  <2> QED BY <2>1, <2>2, <2>3 DEF Next
<1> QED BY <1>1, <1>2, PTL DEF Spec

\* Every variable keeps its type.
THEOREM TypeCorrect == Spec => []TypeOK
<1>1. IInv => TypeOK
  BY DEF IInv
<1> QED BY <1>1, InductiveInvariant, PTL

\* What is being streamed stays tracked and nothing removes it, whatever else
\* is asked for, by however many tasks, at the same time.
THEOREM StreamsAreProtected == Spec => []StreamingProtected
<1>1. IInv => StreamingProtected
  <2> SUFFICES ASSUME IInv, NEW h \in Hash, active[h] > 0
               PROVE  /\ store[h] # NoRec /\ store[h].life # "deleting"
                      /\ \A t \in Task : pc[t] \in {"d_rm", "d_confirm"} => job[t].hash # h
    BY DEF StreamingProtected
  <2>1. store[h] # NoRec /\ store[h].life # "deleting"
    BY DEF IInv, StreamsTracked
  <2>2. \A t \in Task : pc[t] \in {"d_rm", "d_confirm"} => active[job[t].hash] = 0
    BY DEF IInv, Settled, DeleteIn
  <2> QED BY <2>1, <2>2
<1> QED BY <1>1, InductiveInvariant, PTL

\* A preparation stores nothing but the record of the hash whose section it is
\* in, which nobody is deleting.
LEMMA PrepareSpares ==
  ASSUME IInv, NEW t \in Task, Prepare(t),
         NEW h \in Hash, store[h] # NoRec, store[h].life = "deleting"
  PROVE  store'[h] = store[h]
<1>1. pc[t] \in PrepareIn => job[t].hash # h
  BY DEF IInv, Settled, Alive
<1>2. CASE store' = store
  BY <1>2
<1>3. CASE PrepareFinds(t) \/ PrepareConfirms(t)
  BY <1>1, <1>3 DEF PrepareFinds, PrepareConfirms, Proceed, MarkConflict, PrepareIn, BeforeTryPc, IInv, TypeOK
<1>4. CASE PrepareQueues(t) \/ PrepareRegisters(t)
  BY <1>1, <1>4 DEF PrepareQueues, PrepareRegisters, Register, PrepareIn, BeforeTryPc, IInv, TypeOK
<1>5. CASE PrepareSelects(t) \/ PrepareUnites(t) \/ PrepareReady(t) \/ PrepareFails(t)
  BY <1>1, <1>5 DEF PrepareSelects, PrepareUnites, PrepareReady, PrepareFails, PrepareIn, TryPc, IInv, TypeOK
<1> QED BY <1>2, <1>3, <1>4, <1>5
        DEF Prepare, prepareDownload, Begin, PrepareRefused, PrepareEnters, PrepareThrows,
            PrepareMisses, PrepareAdmits, PrepareSubmits, PrepareStarts, PrepareChooses,
            PrepareDeselects, PrepareEnables, PrepareResumes

\* A deletion that was decided is never undone by a preparation, one that was
\* waiting for the lock when it was decided included.
THEOREM DeletionIsFinal == Spec => DeletingIsFinal
<1> DEFINE Final(h) == (store[h] # NoRec /\ store[h].life = "deleting") =>
                         \/ store'[h] = NoRec
                         \/ store'[h].life \in {"deleting", "conflict"}
<1>1. IInv /\ [Next]_vars => [\A h \in Hash : Final(h)]_vars
  <2> SUFFICES ASSUME IInv, Next, NEW h \in Hash, store[h] # NoRec, store[h].life = "deleting"
               PROVE  store'[h] = NoRec \/ store'[h].life \in {"deleting", "conflict"}
    OBVIOUS
  <2> USE DEF IInv, TypeOK
  <2>1. CASE store'[h] = store[h]
    BY <2>1
  <2>2. CASE \E t \in Task : Prepare(t)
    BY <2>1, <2>2, PrepareSpares
  <2>3. ASSUME NEW t \in Task, pc[t] \in DeleteIn \cup SweepIn, MarkConflict(t, job[t].hash)
        PROVE  store'[h] = store[h] \/ store'[h].life = "conflict"
    <3>1. rec[t] \in Record /\ job[t].hash \in Hash
      BY <2>3, DeletionIn
    <3>2. [rec[t] EXCEPT !.life = "conflict"].life = "conflict"
      BY <3>1 DEF Record
    <3> QED BY <2>3, <3>1, <3>2 DEF MarkConflict
  <2>4. CASE \E t \in Task : Delete(t)
    <3>1. PICK t \in Task : Delete(t)
      BY <2>4
    <3>2. CASE DeleteFindsNothing(t) \/ DeleteConfirms(t)
      BY <3>2 DEF DeleteFindsNothing, DeleteConfirms
    <3>3. CASE DeleteDecides(t)
      <4>1. pc[t] = "d_get" /\ store' = [store EXCEPT ![job[t].hash].life = "deleting"]
        BY <3>3 DEF DeleteDecides
      <4> QED BY <4>1 DEF Record
    <3>4. CASE DeleteDeclines(t)
      BY <2>3, <3>4 DEF DeleteDeclines, DeleteIn
    <3> QED BY <3>1, <3>2, <3>3, <3>4
            DEF Delete, deleteManaged, Begin, DeleteRefused, DeleteEnters, DeleteThrows, DeleteRemoves
  <2>5. CASE \E t \in Task : Sweep(t)
    <3>1. PICK t \in Task : Sweep(t)
      BY <2>5
    <3>2. CASE SweepCleans(t)
      BY <3>2 DEF SweepCleans
    <3>3. CASE SweepVerifies(t)
      BY <2>3, <3>3 DEF SweepVerifies, SweepIn
    <3> QED BY <3>1, <3>2, <3>3 DEF Sweep, sweepOnce, Begin, SweepEnters, Finish, SweepTunes
  <2>6. CASE Environment
    <3>1. CASE \E g \in Hash, kept \in BOOLEAN : setKept(g, kept)
      BY <3>1 DEF setKept
    <3>2. CASE \E g \in Hash : renew(g)
      BY <3>2 DEF renew, StreamsTracked
    <3> QED BY <2>6, <3>1, <3>2
            DEF Environment, markInactive, Progress, UserRemoves, UserAdds, Crash
  <2> QED BY <2>2, <2>4, <2>5, <2>6 DEF Next
<1> QED BY <1>1, InductiveInvariant, PTL DEF Spec, DeletingIsFinal
=============================================================================
