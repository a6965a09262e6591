-------------------------- MODULE OwnershipProofs --------------------------
(***************************************************************************)
(* For any number of titles, files and tasks: whose torrent is whose, what *)
(* of a selection stays, and that an answered request has its file.        *)
(*                                                                         *)
(* A task in the section of a hash has a copy of its record that is older  *)
(* than the backend calls it waits for.  All of this holds because the     *)
(* parts of the copy that matter here - the marker, the selection and the  *)
(* origin - are still those of the store when they are written back        *)
(* (Relies), although `kept` and the lease may not be.                     *)
(***************************************************************************)
EXTENDS LifecycleProofs, FiniteSetTheorems

\* A torrent of ours has its record.
Tracked(h) == (torrent[h] # NoTor /\ torrent[h].marker # 0) =>
                /\ store[h] # NoRec
                /\ store[h].marker = torrent[h].marker
                /\ store[h].life # "queued"

\* What a task in its section relies on: its copy, and whose the torrent is.
Relies(t) == LET r == rec[t]  s == store[job[t].hash]  x == torrent[job[t].hash] IN
  /\ pc[t] \in In => (r = NoRec <=> s = NoRec)
  /\ pc[t] \in In /\ r # NoRec => r.marker = s.marker /\ r.files = s.files /\ r.origin = s.origin
  /\ pc[t] \in {"p_reg", "p_space", "p_submit"} => x = NoTor \/ x.marker = 0
  /\ pc[t] = "p_submit" => s.life # "queued"
  /\ pc[t] = "d_rm" => x = NoTor \/ x.marker = s.marker

\* What a preparation has made sure of so far, while the torrent is still the one
\* it was called for.
Delivers(t) == LET r == rec[t]  x == torrent[job[t].hash] IN
  (r # NoRec /\ x # NoTor /\ x.marker = r.marker) =>
    /\ pc[t] = "p_files" => x.running \/ job[t].resume
    /\ pc[t] \in {"p_sel", "p_union", "p_off", "p_on"} =>
         x.running \/ job[t].resume \/ job[t].file \in x.have
    /\ pc[t] \in {"p_run", "p_done"} => r.files \subseteq x.wanted
    /\ pc[t] = "p_done" => x.running \/ job[t].file \in x.have

\* The inductive invariant, beside IInv.
OInv == /\ \A h \in Hash : Tracked(h)
        /\ \A t \in Task : Relies(t) /\ Delivers(t)

\* No step takes a file from a selection, nor a selected one from the backend.
Grows(h) == (store[h] # NoRec /\ store'[h] # NoRec /\ store'[h].marker = store[h].marker)
              => store[h].files \subseteq store'[h].files
StaysWanted(h) == (/\ torrent[h] # NoTor /\ torrent'[h] # NoTor
                   /\ torrent'[h].marker = torrent[h].marker
                   /\ store[h] # NoRec /\ store[h].marker = torrent[h].marker)
                    => torrent[h].wanted \cap store[h].files \subseteq torrent'[h].wanted

\* What is to be shown of every step.
Kept == /\ OInv'
        /\ \A h \in Hash : Grows(h) /\ StaysWanted(h)
-----------------------------------------------------------------------------
\* The other tasks' own state is left alone.
Alone(t) == \A u \in Task \ {t} : pc'[u] = pc[u] /\ job'[u] = job[u] /\ rec'[u] = rec[u]

\* Everything but the title h is left alone.
Elsewhere(h) == \A g \in Hash \ {h} : store'[g] = store[g] /\ torrent'[g] = torrent[g]

\* What is left to show of a step of one task.
LEMMA Step ==
  ASSUME IInv, OInv, NEW t \in Task, Alone(t), NEW h \in Hash,
         lock[h] = t \/ UNCHANGED <<store, torrent>>, Elsewhere(h),
         Relies(t)', Delivers(t)', Tracked(h)', Grows(h), StaysWanted(h)
  PROVE  Kept
<1>1. ASSUME NEW g \in Hash PROVE Tracked(g)' /\ Grows(g) /\ StaysWanted(g)
  <2>1. CASE g = h
    BY <2>1
  <2>2. CASE g # h
    BY <2>2 DEF Elsewhere, OInv, Tracked, Grows, StaysWanted
  <2> QED BY <2>1, <2>2
<1>2. ASSUME NEW u \in Task \ {t} PROVE Relies(u)' /\ Delivers(u)'
  <2>1. pc'[u] = pc[u] /\ job'[u] = job[u] /\ rec'[u] = rec[u] /\ Relies(u) /\ Delivers(u)
    BY DEF Alone, OInv
  <2>2. CASE pc[u] \in In
    <3>1. job[u].hash \in Hash /\ lock[job[u].hash] = u
      BY <2>2, Begun DEF IInv, Settled, In, PrepareIn, DeleteIn, SweepIn, BeforeTryPc, TryPc
    <3>2. store'[job[u].hash] = store[job[u].hash] /\ torrent'[job[u].hash] = torrent[job[u].hash]
      BY <3>1 DEF Elsewhere
    <3> QED BY <2>1, <3>2 DEF Relies, Delivers
  <2>3. CASE pc[u] \notin In
    BY <2>1, <2>3 DEF Relies, Delivers, In, PrepareIn, DeleteIn, SweepIn, BeforeTryPc, TryPc
  <2> QED BY <2>2, <2>3
<1> QED BY <1>1, <1>2 DEF Kept, OInv

\* A task outside of its section relies on nothing.
LEMMA Nowhere ==
  ASSUME NEW t \in Task, pc'[t] \notin In
  PROVE  Relies(t)' /\ Delivers(t)'
BY DEF Relies, Delivers, In, PrepareIn, DeleteIn, SweepIn, BeforeTryPc, TryPc

\* A task returns; what it has stored is all that is left to look at.
LEMMA Returning ==
  ASSUME IInv, OInv, NEW t \in Task, NEW h \in Hash, h = job[t].hash,
         Finish(t), UNCHANGED torrent,
         \/ UNCHANGED store
         \/ /\ pc[t] \in In
            /\ \A g \in Hash \ {h} : store'[g] = store[g]
            /\ Tracked(h)' /\ Grows(h)
  PROVE  Kept
<1>1. Alone(t) /\ pc'[t] = "idle"
  BY DEF Finish, Alone, IInv, TypeOK
<1>2. Relies(t)' /\ Delivers(t)'
  BY <1>1, Nowhere DEF In, PrepareIn, DeleteIn, SweepIn, BeforeTryPc, TryPc
<1>3. StaysWanted(h)
  BY DEF StaysWanted
<1>4. lock[h] = t \/ UNCHANGED <<store, torrent>>
  BY DEF IInv, Settled
<1>5. Elsewhere(h)
  BY DEF Elsewhere
<1>6. Tracked(h)' /\ Grows(h)
  BY DEF OInv, Tracked, Grows
<1> QED BY <1>1, <1>2, <1>3, <1>4, <1>5, <1>6, Step

\* verifyOwnership's refusal: the torrent is not ours, so nothing is lost.
LEMMA Conflicting ==
  ASSUME IInv, OInv, NEW t \in Task, pc[t] \in In, rec[t] # NoRec, torrent[job[t].hash] # NoTor,
         ~Owned(rec[t], torrent[job[t].hash]),
         MarkConflict(t, job[t].hash), Finish(t), UNCHANGED torrent
  PROVE  Kept
<1>1. PICK h \in Hash : h = job[t].hash /\ rec[t] \in Record
  BY Begun DEF In, PrepareIn, DeleteIn, SweepIn, BeforeTryPc, TryPc
<1> DEFINE r == [rec[t] EXCEPT !.life = "conflict"]
<1>2. store[h] # NoRec /\ rec[t].marker = store[h].marker /\ rec[t].files = store[h].files
  BY <1>1 DEF OInv, Relies
<1>3. torrent[h].marker = 0
  BY <1>1, <1>2 DEF OInv, Tracked, Owned
<1>4. r.files = rec[t].files
  BY <1>1 DEF Record
<1>5. store'[h] = r /\ \A g \in Hash \ {h} : store'[g] = store[g]
  BY <1>1 DEF MarkConflict, IInv, TypeOK
<1>6. Tracked(h)' /\ Grows(h)
  BY <1>2, <1>3, <1>4, <1>5 DEF Tracked, Grows
<1> QED BY <1>1, <1>5, <1>6, Returning

\* A task begins.
LEMMA Beginning ==
  ASSUME IInv, OInv, NEW t \in Task, NEW h \in Hash, NEW j,
         NEW w \in {"p_lock", "d_lock", "s_lock"}, Begin(t, j, w)
  PROVE  Kept
<1>1. pc'[t] = w /\ Alone(t) /\ UNCHANGED <<store, torrent>>
  BY DEF Begin, Goto, Alone, IInv, TypeOK
<1>2. Relies(t)' /\ Delivers(t)'
  BY <1>1, Nowhere DEF In, PrepareIn, DeleteIn, SweepIn, BeforeTryPc, TryPc
<1>3. Elsewhere(h) /\ Tracked(h)' /\ Grows(h) /\ StaysWanted(h)
  BY <1>1 DEF Elsewhere, OInv, Tracked, Grows, StaysWanted
<1> QED BY <1>1, <1>2, <1>3, Step

\* A preparation begins.
LEMMA PreparationBegins ==
  ASSUME IInv, OInv, NEW t \in Task, prepareDownload(t)
  PROVE  Kept
<1>1. PICK h \in Hash :
        \/ \E op \in {"add", "queueAdd"} : Begin(t, Request(op, h, "store", NoFile, 0), "p_lock")
        \/ Begin(t, Request("stream", h, "search", NoFile, 0), "p_lock")
        \/ Begin(t, Request("admit", h, "store", NoFile, 0), "p_lock")
        \/ Begin(t, Request("retry", h, store[h].origin, NoFile, 0), "p_lock")
        \/ \E f \in File : Begin(t, Request("select", h, "store", f, store[h].marker), "p_lock")
        \/ \E f \in File, m \in 1..issued :
             \/ Begin(t, Request("play", h, "store", f, m), "p_lock")
             \/ Begin(t, Request("replay", h, "search", f, m), "p_lock")
  BY DEF prepareDownload
<1>2. ASSUME NEW j, Begin(t, j, "p_lock") PROVE Kept
  BY <1>2, Beginning
<1> QED BY <1>1, <1>2

\* A task enters its section: its copy is the record.
LEMMA Entering ==
  ASSUME IInv, OInv, NEW t \in Task, pc[t] \in {"p_lock", "d_lock", "s_lock"},
         NEW w \in {"p_get", "d_get", "s_get"}, pc' = [pc EXCEPT ![t] = w],
         rec' = [rec EXCEPT ![t] = store[job[t].hash]],
         UNCHANGED <<store, torrent, job>>
  PROVE  Kept
<1>1. PICK h \in Hash : h = job[t].hash
  BY Begun
<1>2. pc'[t] = w /\ rec'[t] = store[h] /\ Alone(t)
  BY <1>1 DEF Alone, IInv, TypeOK
<1>3. Relies(t)' /\ Delivers(t)'
  BY <1>1, <1>2 DEF Relies, Delivers
<1>4. Elsewhere(h) /\ Tracked(h)' /\ Grows(h) /\ StaysWanted(h)
  BY DEF Elsewhere, OInv, Tracked, Grows, StaysWanted
<1> QED BY <1>1, <1>2, <1>3, <1>4, Step

\* What a preparation in its section knows.
LEMMA Inside ==
  ASSUME IInv, OInv, NEW t \in Task, pc[t] \in PrepareIn
  PROVE  /\ job[t].hash \in Hash /\ lock[job[t].hash] = t /\ pc[t] \in In /\ pc[t] # "idle"
         /\ Relies(t) /\ Delivers(t) /\ Tracked(job[t].hash)
         /\ rec[t] # NoRec => rec[t] \in Record
         /\ store[job[t].hash] # NoRec => store[job[t].hash] \in Record
         /\ torrent[job[t].hash] # NoTor => torrent[job[t].hash] \in Torrent
         /\ pc[t] \in TryPc \cup {"p_submit", "p_wait"} => rec[t] # NoRec
BY Begun DEF IInv, OInv, Settled, In, PrepareIn, BeforeTryPc, TryPc

\* The torrent is ours: on to the `try`.
LEMMA Proceeding ==
  ASSUME IInv, OInv, NEW t \in Task, pc[t] \in {"p_get", "p_wait"}, rec[t] # NoRec,
         Proceed(t, rec[t], torrent[job[t].hash]), UNCHANGED <<store, torrent>>
  PROVE  Kept
<1>1. PICK h \in Hash : h = job[t].hash
  BY Begun
<1>2. Relies(t) /\ lock[h] = t /\ pc[t] \in In /\ job[t] \in Job
  BY <1>1, Inside, Begun DEF PrepareIn, BeforeTryPc
<1> DEFINE x == torrent[h]
<1>3. PICK b \in BOOLEAN : b = (~x.running /\ Complete(x))
  OBVIOUS
<1>4. /\ pc'[t] \in {"p_start", "p_files"} /\ rec'[t] = rec[t] /\ Alone(t)
      /\ job'[t].hash = h /\ job'[t].resume = b
      /\ pc'[t] = "p_files" => x.running \/ Complete(x)
  BY <1>1, <1>2, <1>3 DEF Proceed, Goto, Alone, IInv, TypeOK, Job
<1>5. Relies(t)' /\ Delivers(t)'
  BY <1>1, <1>2, <1>3, <1>4 DEF Relies, Delivers, In, PrepareIn, TryPc
<1>6. Elsewhere(h) /\ Tracked(h)' /\ Grows(h) /\ StaysWanted(h)
  BY DEF Elsewhere, OInv, Tracked, Grows, StaysWanted
<1> QED BY <1>2, <1>4, <1>5, <1>6, Step

\* The record of a registration is of the marker, selection and origin it had.
LEMMA Registering ==
  ASSUME IInv, OInv, NEW t \in Task, pc[t] \in {"p_reg", "p_space"},
         NEW life \in {"queued", "registering"}, Register(t, life),
         NEW h \in Hash, h = job[t].hash, UNCHANGED torrent
  PROVE  /\ store'[h] = Registered(t, life) /\ \A g \in Hash \ {h} : store'[g] = store[g]
         /\ Registered(t, life) \in Record /\ Registered(t, life).life = life
         /\ Tracked(h)' /\ Grows(h)
<1>1. /\ Registered(t, life) \in Record
      /\ Registered(t, life).life = life
      /\ store' = [store EXCEPT ![h] = Registered(t, life)]
  BY RegisteredRecord
<1>2. Relies(t) /\ (rec[t] # NoRec => rec[t] \in Record)
  BY Inside DEF PrepareIn, BeforeTryPc
<1>3. store'[h] = Registered(t, life) /\ \A g \in Hash \ {h} : store'[g] = store[g]
  BY <1>1 DEF IInv, TypeOK
<1>4. torrent[h] = NoTor \/ torrent[h].marker = 0
  BY <1>2 DEF Relies
<1>5. rec[t] # NoRec => Registered(t, life).files = store[h].files
  BY <1>2 DEF Relies, Registered, Record, In, PrepareIn, BeforeTryPc
<1>6. rec[t] = NoRec => store[h] = NoRec
  BY <1>2 DEF Relies, In, PrepareIn, BeforeTryPc
<1>7. Tracked(h)' /\ Grows(h)
  BY <1>3, <1>4, <1>5, <1>6 DEF Tracked, Grows
<1> QED BY <1>1, <1>3, <1>7

\* A preparation stores a record of the same marker, and goes on.
LEMMA Storing ==
  ASSUME IInv, OInv, NEW t \in Task, pc[t] \in {"p_space", "p_sel", "p_union"},
         NEW h \in Hash, h = job[t].hash, NEW r \in Record,
         NEW w \in {"p_submit", "p_union", "p_off"},
         pc' = [pc EXCEPT ![t] = w], rec' = [rec EXCEPT ![t] = r],
         store'[h] = r, \A g \in Hash \ {h} : store'[g] = store[g],
         UNCHANGED <<torrent, job>>,
         Tracked(h)', Grows(h),
         w = "p_submit" => pc[t] = "p_space" /\ r.life # "queued",
         w # "p_submit" => pc[t] \in {"p_sel", "p_union"} /\ rec[t].marker = r.marker
  PROVE  Kept
<1>1. Relies(t) /\ Delivers(t) /\ lock[h] = t
  BY Inside DEF PrepareIn, BeforeTryPc, TryPc
<1>2. pc'[t] = w /\ rec'[t] = r /\ Alone(t) /\ r # NoRec
  BY NoneAssumption DEF Alone, IInv, TypeOK
<1>3. pc[t] \in {"p_sel", "p_union"} => rec[t] # NoRec
  BY DEF IInv, Settled, TryPc
<1>4. Relies(t)' /\ Delivers(t)'
  BY <1>1, <1>2, <1>3 DEF Relies, Delivers
<1>5. Elsewhere(h) /\ StaysWanted(h)
  BY DEF Elsewhere, StaysWanted
<1> QED BY <1>1, <1>2, <1>4, <1>5, Step

\* A step of a preparation that only moves on.
LEMMA Moving ==
  ASSUME IInv, OInv, NEW t \in Task, pc[t] \in {"p_get", "p_reg"},
         NEW w \in {"p_reg", "p_space"}, pc' = [pc EXCEPT ![t] = w],
         pc[t] = "p_get" => torrent[job[t].hash] = NoTor,
         UNCHANGED <<store, torrent, job, rec>>
  PROVE  Kept
<1>1. PICK h \in Hash : h = job[t].hash
  BY Begun
<1>2. Relies(t) /\ pc'[t] = w /\ Alone(t) /\ pc[t] \in In
  BY Inside DEF PrepareIn, BeforeTryPc, Alone, IInv, TypeOK
<1>3. Relies(t)' /\ Delivers(t)'
  BY <1>1, <1>2 DEF Relies, Delivers
<1>4. Elsewhere(h) /\ Tracked(h)' /\ Grows(h) /\ StaysWanted(h)
  BY DEF Elsewhere, OInv, Tracked, Grows, StaysWanted
<1> QED BY <1>1, <1>2, <1>3, <1>4, Step

\* A preparation tells the backend what to do with the torrent it has.
LEMMA Commanding ==
  ASSUME IInv, OInv, NEW t \in Task, NEW h \in Hash, h = job[t].hash, pc[t] \in TryPc,
         torrent[h] # NoTor, NEW x \in Torrent, torrent' = [torrent EXCEPT ![h] = x],
         x.marker = torrent[h].marker, x.have = torrent[h].have,
         torrent[h].running => x.running,
         NEW w \in TryPc, pc' = [pc EXCEPT ![t] = w], UNCHANGED <<store, job, rec>>,
         torrent[h].wanted \cap rec[t].files \subseteq x.wanted,
         \/ pc[t] = "p_start" /\ w = "p_files" /\ x.running
         \/ pc[t] = "p_off" /\ w = "p_on"
         \/ pc[t] = "p_on" /\ rec[t].files \subseteq x.wanted
            /\ w = IF job[t].resume THEN "p_run" ELSE "p_done"
         \/ pc[t] = "p_run" /\ w = "p_done" /\ x.running /\ x.wanted = torrent[h].wanted
  PROVE  Kept
<1>1. Relies(t) /\ Delivers(t) /\ lock[h] = t /\ pc[t] \in In /\ rec[t] # NoRec /\ Tracked(h)
  BY Inside DEF PrepareIn
<1>2. pc'[t] = w /\ Alone(t) /\ torrent'[h] = x /\ x # NoTor
  BY NoneAssumption DEF Alone, IInv, TypeOK
<1>3. Relies(t)'
  BY <1>1, <1>2 DEF Relies, TryPc
<1>4. Delivers(t)'
  BY <1>1, <1>2 DEF Delivers
<1>5. rec[t].files = store[h].files
  BY <1>1 DEF Relies
<1>6. Elsewhere(h)
  BY DEF Elsewhere, IInv, TypeOK
<1>7. Tracked(h)' /\ Grows(h)
  BY <1>1, <1>2 DEF Tracked, Grows
<1>8. StaysWanted(h)
  BY <1>2, <1>5 DEF StaysWanted
<1> QED BY <1>1, <1>2, <1>3, <1>4, <1>6, <1>7, <1>8, Step

\* The file is chosen: one that is there already, or the torrent is to run for it.
LEMMA Choosing ==
  ASSUME IInv, OInv, NEW t \in Task, PrepareChooses(t)
  PROVE  Kept
<1>1. PICK h \in Hash : h = job[t].hash
  BY Begun DEF PrepareChooses
<1> DEFINE missing(f) == f \notin torrent[h].have
<1>2. PICK f \in Wanted(t) \ {NoFile} :
        /\ job' = [job EXCEPT ![t].file = f, ![t].resume = @ /\ missing(f)]
        /\ Goto(t, IF AllowSelect(t) /\ f \notin rec[t].files /\ missing(f)
                   THEN "p_sel" ELSE "p_union")
  BY <1>1 DEF PrepareChooses
<1>3. pc[t] = "p_files" /\ torrent[h] # NoTor /\ UNCHANGED <<store, torrent, rec>>
  BY <1>1 DEF PrepareChooses
<1>4. Relies(t) /\ Delivers(t) /\ lock[h] = t /\ pc[t] \in In /\ job[t] \in Job
  BY <1>1, <1>3, Inside, Begun DEF PrepareIn, TryPc
<1>5. PICK b \in BOOLEAN : b = (job[t].resume /\ missing(f))
  OBVIOUS
<1>6. job' = [job EXCEPT ![t].file = f, ![t].resume = b]
  BY <1>2, <1>4, <1>5 DEF IInv, TypeOK, Job
<1>7. /\ job'[t].hash = h /\ job'[t].file = f /\ job'[t].resume = b
      /\ pc'[t] \in {"p_sel", "p_union"} /\ Alone(t)
  <2>1. PICK w \in {"p_sel", "p_union"} : pc' = [pc EXCEPT ![t] = w]
    BY <1>2 DEF Goto
  <2> HIDE DEF missing
  <2> QED BY <1>1, <1>3, <1>4, <1>6, <2>1 DEF Alone, IInv, TypeOK, Job
<1>8. Relies(t)' /\ Delivers(t)'
  BY <1>1, <1>3, <1>4, <1>5, <1>7 DEF Relies, Delivers
<1> HIDE DEF missing
<1>9. Elsewhere(h) /\ Tracked(h)' /\ Grows(h) /\ StaysWanted(h)
  BY <1>3 DEF Elsewhere, OInv, Tracked, Grows, StaysWanted
<1> QED BY <1>4, <1>7, <1>8, <1>9, Step

\* The backend gets the torrent with the marker of the record.
LEMMA Submitting ==
  ASSUME IInv, OInv, NEW t \in Task, PrepareSubmits(t)
  PROVE  Kept
<1>1. PICK h \in Hash : h = job[t].hash
  BY Begun DEF PrepareSubmits
<1>2. /\ pc[t] = "p_submit" /\ UNCHANGED <<store, job, rec>>
      /\ torrent' = IF torrent[h] # NoTor THEN torrent
                    ELSE [torrent EXCEPT ![h] = [marker |-> rec[t].marker, wanted |-> File,
                                                 have |-> {}, running |-> FALSE]]
  BY <1>1 DEF PrepareSubmits
<1>3. Relies(t) /\ lock[h] = t /\ pc[t] \in In /\ rec[t] # NoRec /\ Tracked(h)
  BY <1>1, <1>2, Inside DEF PrepareIn, BeforeTryPc
<1>4. pc'[t] = "p_wait" /\ Alone(t) /\ Elsewhere(h)
  BY <1>2 DEF PrepareSubmits, Goto, Alone, Elsewhere, IInv, TypeOK
<1>5. torrent[h] = NoTor => torrent'[h].marker = store[h].marker
  BY <1>1, <1>2, <1>3 DEF Relies, IInv, TypeOK
<1>6. torrent[h] # NoTor => torrent'[h] = torrent[h]
  BY <1>2
<1>7. store[h] # NoRec /\ store[h].life # "queued"
  BY <1>1, <1>2, <1>3 DEF Relies
<1>8. Relies(t)' /\ Delivers(t)'
  BY <1>1, <1>2, <1>3, <1>4 DEF Relies, Delivers
<1>9. Tracked(h)' /\ Grows(h) /\ StaysWanted(h)
  BY <1>2, <1>3, <1>5, <1>6, <1>7 DEF Tracked, Grows, StaysWanted
<1> QED BY <1>3, <1>4, <1>8, <1>9, Step

\* Every step of a preparation.
LEMMA PrepareIsSound ==
  ASSUME IInv, OInv, NEW t \in Task, Prepare(t)
  PROVE  Kept
<1>1. CASE prepareDownload(t)
  BY <1>1, PreparationBegins
<1> SUFFICES ASSUME pc[t] # "idle" PROVE Kept
  BY <1>1 DEF Prepare, PrepareRefused, PrepareEnters, PrepareThrows, PrepareFinds, PrepareMisses,
        PrepareQueues, PrepareAdmits, PrepareRegisters, PrepareSubmits, PrepareConfirms,
        PrepareStarts, PrepareChooses, PrepareSelects, PrepareUnites, PrepareDeselects,
        PrepareEnables, PrepareResumes, PrepareReady, PrepareFails, BeforeTryPc, TryPc
<1> PICK h \in Hash : h = job[t].hash
  BY Begun
<1>2. CASE PrepareRefused(t) \/ PrepareThrows(t)
  BY <1>2, Returning DEF PrepareRefused, PrepareThrows
<1>3. CASE PrepareEnters(t)
  BY <1>3, Entering DEF PrepareEnters, Goto
<1>4. CASE PrepareFinds(t)
  BY <1>4, Proceeding, Conflicting DEF PrepareFinds, In, PrepareIn, BeforeTryPc
<1>5. CASE PrepareMisses(t)
  BY <1>5, Moving DEF PrepareMisses, Goto
<1>6. CASE PrepareQueues(t)
  <2>1. pc[t] = "p_reg" /\ Register(t, "queued") /\ Finish(t) /\ UNCHANGED torrent
    BY <1>6 DEF PrepareQueues
  <2>2. pc[t] \in In
    BY <2>1 DEF In, PrepareIn, BeforeTryPc
  <2> QED BY <2>1, <2>2, Registering, Returning
<1>7. CASE PrepareAdmits(t)
  BY <1>7, Moving DEF PrepareAdmits, Goto
<1>8. CASE PrepareRegisters(t)
  <2>1. /\ pc[t] = "p_space" /\ Register(t, "registering")
        /\ rec' = [rec EXCEPT ![t] = Registered(t, "registering")]
        /\ pc' = [pc EXCEPT ![t] = "p_submit"] /\ UNCHANGED <<torrent, job>>
    BY <1>8 DEF PrepareRegisters, Goto
  <2> QED BY <2>1, Registering, Storing
<1>9. CASE PrepareSubmits(t)
  BY <1>9, Submitting
<1>10. CASE PrepareConfirms(t)
  <2>1. pc[t] = "p_wait" /\ pc[t] \in In /\ rec[t] # NoRec
    BY <1>10 DEF PrepareConfirms, In, PrepareIn, BeforeTryPc, IInv, Settled
  <2> QED BY <1>10, <2>1, Proceeding, Conflicting DEF PrepareConfirms
<1>11. CASE PrepareStarts(t)
  <2>1. /\ pc[t] = "p_start" /\ pc' = [pc EXCEPT ![t] = "p_files"] /\ torrent[h] # NoTor
        /\ torrent' = [torrent EXCEPT ![h].running = TRUE] /\ UNCHANGED <<store, job, rec>>
    BY <1>11 DEF PrepareStarts, Goto
  <2> DEFINE x == [torrent[h] EXCEPT !.running = TRUE]
  <2>2. /\ x \in Torrent /\ x.marker = torrent[h].marker /\ x.have = torrent[h].have
        /\ x.running /\ x.wanted = torrent[h].wanted
        /\ (torrent[h].running => x.running) /\ torrent[h].wanted \cap rec[t].files \subseteq x.wanted
    BY <2>1 DEF IInv, TypeOK, Torrent
  <2>3. torrent' = [torrent EXCEPT ![h] = x]
    BY <2>1
  <2> HIDE DEF x
  <2> QED BY <2>1, <2>2, <2>3, Commanding DEF TryPc
<1>12. CASE PrepareChooses(t)
  BY <1>12, Choosing
<1>13. CASE PrepareSelects(t)
  <2> DEFINE r == [store[h] EXCEPT !.life = "registering", !.file = job[t].file,
                                   !.files = rec[t].files \cup {job[t].file}]
  <2>1. /\ pc[t] = "p_sel" /\ pc' = [pc EXCEPT ![t] = "p_union"]
        /\ store' = [store EXCEPT ![h] = r] /\ rec' = [rec EXCEPT ![t] = r]
        /\ UNCHANGED <<torrent, job>>
    BY <1>13 DEF PrepareSelects, Goto
  <2>2. store[h] \in Record /\ rec[t] \in Record /\ job[t].file \in File /\ Relies(t) /\ Tracked(h)
    BY <2>1, Inside DEF IInv, Settled, PrepareIn, TryPc
  <2>3. rec[t].files = store[h].files /\ rec[t].marker = store[h].marker
    BY <2>1, <2>2, NoneAssumption DEF Relies, In, PrepareIn, TryPc
  <2>4. /\ r \in Record /\ r.life = "registering" /\ r.marker = store[h].marker
        /\ store[h].files \subseteq r.files
    BY <2>2, <2>3 DEF Record, Lifecycle
  <2>5. store'[h] = r /\ \A g \in Hash \ {h} : store'[g] = store[g]
    BY <2>1 DEF IInv, TypeOK
  <2> HIDE DEF r
  <2>6. Tracked(h)' /\ Grows(h)
    BY <2>1, <2>2, <2>4, <2>5, NoneAssumption DEF Tracked, Grows
  <2> QED BY <2>1, <2>3, <2>4, <2>5, <2>6, Storing
<1>14. CASE PrepareUnites(t)
  <2>1. PICK chosen \in SUBSET File :
          LET r == [store[h] EXCEPT !.file = job[t].file, !.files = rec[t].files \cup chosen] IN
            /\ store' = [store EXCEPT ![h] = r]
            /\ rec' = [rec EXCEPT ![t] = r]
    BY <1>14 DEF PrepareUnites
  <2> DEFINE r == [store[h] EXCEPT !.file = job[t].file, !.files = rec[t].files \cup chosen]
  <2>2. /\ pc[t] = "p_union" /\ pc' = [pc EXCEPT ![t] = "p_off"]
        /\ store' = [store EXCEPT ![h] = r] /\ rec' = [rec EXCEPT ![t] = r]
        /\ UNCHANGED <<torrent, job>>
    BY <1>14, <2>1 DEF PrepareUnites, Goto
  <2>3. store[h] \in Record /\ rec[t] \in Record /\ job[t].file \in File /\ Relies(t) /\ Tracked(h)
    BY <2>2, Inside DEF IInv, Settled, PrepareIn, TryPc
  <2>4. rec[t].files = store[h].files /\ rec[t].marker = store[h].marker
    BY <2>2, <2>3, NoneAssumption DEF Relies, In, PrepareIn, TryPc
  <2>5. /\ r \in Record /\ r.life = store[h].life /\ r.marker = store[h].marker
        /\ store[h].files \subseteq r.files
    BY <2>3, <2>4 DEF Record
  <2>6. store'[h] = r /\ \A g \in Hash \ {h} : store'[g] = store[g]
    BY <2>2 DEF IInv, TypeOK
  <2> HIDE DEF r
  <2>7. Tracked(h)' /\ Grows(h)
    BY <2>2, <2>3, <2>5, <2>6, NoneAssumption DEF Tracked, Grows
  <2> QED BY <2>2, <2>4, <2>5, <2>6, <2>7, Storing
<1>15. CASE PrepareDeselects(t)
  <2>1. /\ pc[t] = "p_off" /\ pc' = [pc EXCEPT ![t] = "p_on"] /\ torrent[h] # NoTor
        /\ torrent' = [torrent EXCEPT ![h].wanted = @ \cap rec[t].files]
        /\ UNCHANGED <<store, job, rec>>
    BY <1>15 DEF PrepareDeselects, Goto
  <2> DEFINE x == [torrent[h] EXCEPT !.wanted = @ \cap rec[t].files]
  <2>2. /\ x \in Torrent /\ x.marker = torrent[h].marker /\ x.have = torrent[h].have
        /\ (torrent[h].running => x.running) /\ torrent[h].wanted \cap rec[t].files \subseteq x.wanted
    BY <2>1 DEF IInv, TypeOK, Torrent
  <2>3. torrent' = [torrent EXCEPT ![h] = x]
    BY <2>1
  <2> HIDE DEF x
  <2> QED BY <2>1, <2>2, <2>3, Commanding DEF TryPc
<1>16. CASE PrepareEnables(t)
  <2> DEFINE x == [torrent[h] EXCEPT !.wanted = @ \cup rec[t].files]
             w == IF job[t].resume THEN "p_run" ELSE "p_done"
  <2>1. /\ pc[t] = "p_on" /\ pc' = [pc EXCEPT ![t] = w] /\ torrent[h] # NoTor
        /\ torrent' = [torrent EXCEPT ![h].wanted = @ \cup rec[t].files]
        /\ UNCHANGED <<store, job, rec>>
    BY <1>16 DEF PrepareEnables, Goto
  <2>2. rec[t] \in Record /\ w \in TryPc
    BY <2>1, Inside DEF PrepareIn, TryPc
  <2>3. /\ x \in Torrent /\ x.marker = torrent[h].marker /\ x.have = torrent[h].have
        /\ (torrent[h].running => x.running) /\ torrent[h].wanted \cap rec[t].files \subseteq x.wanted
        /\ rec[t].files \subseteq x.wanted
    BY <2>1, <2>2 DEF IInv, TypeOK, Torrent, Record
  <2>4. torrent' = [torrent EXCEPT ![h] = x]
    BY <2>1
  <2> HIDE DEF x
  <2> QED BY <2>1, <2>2, <2>3, <2>4, Commanding DEF TryPc
<1>17. CASE PrepareResumes(t)
  <2>1. /\ pc[t] = "p_run" /\ pc' = [pc EXCEPT ![t] = "p_done"] /\ torrent[h] # NoTor
        /\ torrent' = [torrent EXCEPT ![h].running = TRUE] /\ UNCHANGED <<store, job, rec>>
    BY <1>17 DEF PrepareResumes, Goto
  <2> DEFINE x == [torrent[h] EXCEPT !.running = TRUE]
  <2>2. /\ x \in Torrent /\ x.marker = torrent[h].marker /\ x.have = torrent[h].have
        /\ x.running /\ x.wanted = torrent[h].wanted
        /\ (torrent[h].running => x.running) /\ torrent[h].wanted \cap rec[t].files \subseteq x.wanted
    BY <2>1 DEF IInv, TypeOK, Torrent
  <2>3. torrent' = [torrent EXCEPT ![h] = x]
    BY <2>1
  <2> HIDE DEF x
  <2> QED BY <2>1, <2>2, <2>3, Commanding DEF TryPc
<1>18. CASE PrepareReady(t)
  <2>1. /\ pc[t] = "p_done" /\ Finish(t) /\ UNCHANGED torrent
        /\ store' = IF rec[t].life = "managed" THEN store
                    ELSE [store EXCEPT ![h] = [rec[t] EXCEPT !.life = "managed"]]
    BY <1>18 DEF PrepareReady
  <2>2. CASE rec[t].life = "managed"
    BY <2>1, <2>2, Returning
  <2>3. CASE rec[t].life # "managed"
    <3> DEFINE r == [rec[t] EXCEPT !.life = "managed"]
    <3>1. rec[t] \in Record /\ pc[t] \in In /\ Relies(t) /\ Tracked(h) /\ rec[t] # NoRec
      BY <2>1, Inside DEF PrepareIn, TryPc
    <3>2. r.life = "managed" /\ r.marker = store[h].marker /\ r.files = store[h].files /\ r \in Record
      BY <3>1 DEF Relies, Record, Lifecycle
    <3>3. store'[h] = r /\ \A g \in Hash \ {h} : store'[g] = store[g]
      BY <2>1, <2>3 DEF IInv, TypeOK
    <3> HIDE DEF r
    <3>4. Tracked(h)' /\ Grows(h)
      BY <2>1, <3>1, <3>2, <3>3, NoneAssumption DEF Tracked, Grows
    <3> QED BY <2>1, <3>1, <3>3, <3>4, Returning
  <2> QED BY <2>2, <2>3
<1>19. CASE PrepareFails(t)
  <2>1. pc[t] \in TryPc /\ Finish(t) /\ UNCHANGED torrent
    BY <1>19 DEF PrepareFails
  <2>2. CASE UNCHANGED store
    BY <2>1, <2>2, Returning
  <2>3. CASE store' = [store EXCEPT ![h].life = "failed"]
    <3> DEFINE r == [store[h] EXCEPT !.life = "failed"]
    <3>1. store[h] \in Record /\ pc[t] \in In /\ Tracked(h)
      BY <2>1, Inside DEF IInv, Settled, PrepareIn, TryPc
    <3>2. r.life = "failed" /\ r.marker = store[h].marker /\ r.files = store[h].files /\ r \in Record
      BY <3>1 DEF Record, Lifecycle
    <3>3. store'[h] = r /\ \A g \in Hash \ {h} : store'[g] = store[g]
      BY <2>3 DEF IInv, TypeOK
    <3> HIDE DEF r
    <3>4. Tracked(h)' /\ Grows(h)
      BY <2>1, <3>1, <3>2, <3>3, NoneAssumption DEF Tracked, Grows
    <3> QED BY <2>1, <3>1, <3>3, <3>4, Returning
  <2> QED BY <1>19, <2>2, <2>3 DEF PrepareFails
<1> QED BY <1>1, <1>2, <1>3, <1>4, <1>5, <1>6, <1>7, <1>8, <1>9, <1>10, <1>11, <1>12,
           <1>13, <1>14, <1>15, <1>16, <1>17, <1>18, <1>19 DEF Prepare
-----------------------------------------------------------------------------
\* A deletion or a sweep in its section removes a record without a torrent.
LEMMA Forgetting ==
  ASSUME IInv, OInv, NEW t \in Task, pc[t] \in DeleteIn \cup SweepIn,
         torrent[job[t].hash] = NoTor, store' = [store EXCEPT ![job[t].hash] = NoRec],
         Finish(t), UNCHANGED torrent
  PROVE  Kept
<1>1. PICK h \in Hash : h = job[t].hash
  BY DeletionIn
<1>2. pc[t] \in In /\ store'[h] = NoRec /\ \A g \in Hash \ {h} : store'[g] = store[g]
  BY <1>1, DeletionIn DEF IInv, TypeOK
<1>3. Tracked(h)' /\ Grows(h)
  BY <1>1, <1>2 DEF Tracked, Grows
<1> QED BY <1>1, <1>2, <1>3, Returning

\* The intent to delete is stored of a torrent that is ours.
LEMMA Deciding ==
  ASSUME IInv, OInv, NEW t \in Task, DeleteDecides(t)
  PROVE  Kept
<1>1. PICK h \in Hash : h = job[t].hash
  BY DeletionIn DEF DeleteDecides, DeleteIn
<1> DEFINE r == [store[h] EXCEPT !.life = "deleting"]
<1>2. /\ pc[t] = "d_get" /\ torrent[h] # NoTor /\ Owned(rec[t], torrent[h])
      /\ store' = [store EXCEPT ![h] = r] /\ pc' = [pc EXCEPT ![t] = "d_rm"]
      /\ UNCHANGED <<torrent, job, rec>>
  BY <1>1 DEF DeleteDecides, Goto
<1>3. /\ pc[t] \in In /\ lock[h] = t /\ store[h] \in Record /\ rec[t] # NoRec
      /\ Relies(t) /\ Tracked(h)
  BY <1>1, <1>2, DeletionIn DEF DeleteIn, OInv
<1>4. /\ r \in Record /\ r.life = "deleting" /\ r.marker = store[h].marker
      /\ r.files = store[h].files /\ r.origin = store[h].origin
  BY <1>3 DEF Record, Lifecycle
<1> HIDE DEF r
<1>5. pc'[t] = "d_rm" /\ store'[h] = r /\ r # NoRec /\ Alone(t) /\ Elsewhere(h)
  BY <1>2, <1>4, NoneAssumption DEF Alone, Elsewhere, IInv, TypeOK
<1>6. torrent[h].marker = store[h].marker
  BY <1>1, <1>2, <1>3 DEF Relies, Owned
<1>7. Relies(t)' /\ Delivers(t)'
  BY <1>1, <1>2, <1>3, <1>4, <1>5, <1>6 DEF Relies, Delivers, In, PrepareIn, BeforeTryPc, TryPc
<1>8. Tracked(h)' /\ Grows(h) /\ StaysWanted(h)
  BY <1>2, <1>3, <1>4, <1>5 DEF Tracked, Grows, StaysWanted
<1> QED BY <1>3, <1>5, <1>7, <1>8, Step

\* A deletion or a sweep whose section goes on, or has just ended: it relies only
\* on what was so before, and the torrent keeps its marker and what is wanted of
\* it, or is gone.
LEMMA Continuing ==
  ASSUME IInv, OInv, NEW t \in Task, pc[t] \in DeleteIn \cup SweepIn,
         NEW w \in {"d_confirm", "s_tune", "d_lock"}, pc' = [pc EXCEPT ![t] = w],
         UNCHANGED store, w # "d_lock" => UNCHANGED <<job, rec>>,
         \A u \in Task \ {t} : job'[u] = job[u] /\ rec'[u] = rec[u],
         \A g \in Hash \ {job[t].hash} : torrent'[g] = torrent[g],
         LET x == torrent[job[t].hash]  y == torrent'[job[t].hash]
         IN  y = NoTor \/ (x # NoTor /\ y.marker = x.marker /\ y.wanted = x.wanted)
  PROVE  Kept
<1>1. PICK h \in Hash : h = job[t].hash
  BY DeletionIn
<1>2. pc[t] \in In /\ lock[h] = t /\ Relies(t) /\ Tracked(h)
  BY <1>1, DeletionIn DEF OInv
<1>3. pc'[t] = w /\ Alone(t) /\ Elsewhere(h)
  BY <1>1 DEF Alone, Elsewhere, IInv, TypeOK
<1>4. Relies(t)' /\ Delivers(t)'
  <2>1. CASE w = "d_lock"
    BY <1>3, <2>1, Nowhere DEF In, PrepareIn, DeleteIn, SweepIn, BeforeTryPc, TryPc
  <2>2. CASE w # "d_lock"
    BY <1>2, <1>3, <2>2 DEF Relies, Delivers
  <2> QED BY <2>1, <2>2
<1>5. Tracked(h)' /\ Grows(h) /\ StaysWanted(h)
  BY <1>1, <1>2 DEF Tracked, Grows, StaysWanted
<1> QED BY <1>2, <1>3, <1>4, <1>5, Step

\* Every step of a deletion.
LEMMA DeleteIsSound ==
  ASSUME IInv, OInv, NEW t \in Task, Delete(t)
  PROVE  Kept
<1>1. CASE deleteManaged(t)
  BY <1>1, Beginning DEF deleteManaged
<1> SUFFICES ASSUME pc[t] # "idle" PROVE Kept
  BY <1>1 DEF Delete, DeleteRefused, DeleteEnters, DeleteThrows, DeleteFindsNothing,
              DeleteDecides, DeleteDeclines, DeleteRemoves, DeleteConfirms
<1> PICK h \in Hash : h = job[t].hash
  BY Begun
<1>2. CASE DeleteRefused(t) \/ DeleteThrows(t)
  BY <1>2, Returning DEF DeleteRefused, DeleteThrows
<1>3. CASE DeleteEnters(t)
  BY <1>3, Entering DEF DeleteEnters, Goto
<1>4. CASE DeleteFindsNothing(t) \/ DeleteConfirms(t)
  BY <1>4, Forgetting DEF DeleteFindsNothing, DeleteConfirms, DeleteIn
<1>5. CASE DeleteDecides(t)
  BY <1>5, Deciding
<1>6. CASE DeleteDeclines(t)
  <2>1. pc[t] = "d_get" /\ torrent[h] # NoTor /\ Finish(t) /\ UNCHANGED torrent
    BY <1>6 DEF DeleteDeclines
  <2>2. CASE UNCHANGED store
    BY <2>1, <2>2, Returning
  <2>3. CASE ~Owned(rec[t], torrent[h]) /\ MarkConflict(t, h)
    BY <2>1, <2>3, DeletionIn, Conflicting DEF DeleteIn
  <2> QED BY <1>6, <2>2, <2>3 DEF DeleteDeclines
<1>7. CASE DeleteRemoves(t)
  <2>1. /\ pc[t] = "d_rm" /\ pc' = [pc EXCEPT ![t] = "d_confirm"]
        /\ torrent' \in {torrent, [torrent EXCEPT ![h] = NoTor]}
        /\ UNCHANGED <<store, job, rec>>
    BY <1>7 DEF DeleteRemoves, Goto
  <2>2. /\ \A g \in Hash \ {h} : torrent'[g] = torrent[g]
        /\ torrent'[h] = NoTor \/ torrent'[h] = torrent[h]
    BY <2>1 DEF IInv, TypeOK
  <2> QED BY <2>1, <2>2, Continuing DEF DeleteIn
<1> QED BY <1>1, <1>2, <1>3, <1>4, <1>5, <1>6, <1>7 DEF Delete

\* Every step of a sweep.
LEMMA SweepIsSound ==
  ASSUME IInv, OInv, NEW t \in Task, Sweep(t)
  PROVE  Kept
<1>1. CASE sweepOnce(t)
  BY <1>1, Beginning DEF sweepOnce
<1> SUFFICES ASSUME pc[t] # "idle" PROVE Kept
  BY <1>1 DEF Sweep, SweepEnters, SweepCleans, SweepVerifies, SweepTunes
<1> PICK h \in Hash : h = job[t].hash
  BY Begun
<1>2. CASE SweepEnters(t)
  <2>1. CASE store[h] = NoRec
    BY <1>2, <2>1, Returning DEF SweepEnters
  <2>2. CASE store[h] # NoRec
    BY <1>2, <2>2, Entering DEF SweepEnters, Goto
  <2> QED BY <2>1, <2>2
<1>3. CASE SweepCleans(t)
  <2>1. pc[t] = "s_get" /\ torrent[h] = NoTor /\ Finish(t) /\ UNCHANGED torrent
    BY <1>3 DEF SweepCleans
  <2>2. CASE store' = store
    BY <2>1, <2>2, Returning
  <2>3. CASE store' = [store EXCEPT ![h] = NoRec]
    BY <2>1, <2>3, Forgetting DEF SweepIn
  <2> QED BY <1>3, <2>2, <2>3 DEF SweepCleans
<1>4. CASE SweepVerifies(t)
  <2>1. pc[t] = "s_get" /\ torrent[h] # NoTor /\ UNCHANGED torrent
    BY <1>4 DEF SweepVerifies
  <2>2. CASE pc' = [pc EXCEPT ![t] = "s_tune"] /\ UNCHANGED <<store, job, rec>>
    BY <2>1, <2>2, Continuing DEF SweepIn
  <2>3. CASE ~Owned(rec[t], torrent[h]) /\ MarkConflict(t, h) /\ Finish(t)
    BY <2>1, <2>3, DeletionIn, Conflicting DEF SweepIn
  <2> QED BY <1>4, <2>2, <2>3 DEF SweepVerifies, Goto
<1>5. CASE SweepTunes(t)
  <2>1. PICK seeded \in BOOLEAN :
          torrent' = IF rec[t].life # "deleting" /\ Complete(torrent[h])
                     THEN [torrent EXCEPT ![h].running = ~seeded] ELSE torrent
    BY <1>5 DEF SweepTunes
  <2>2. /\ pc[t] = "s_tune" /\ pc' = [pc EXCEPT ![t] = "d_lock"] /\ UNCHANGED store
        /\ job' = [job EXCEPT ![t].op = "expire"] /\ rec' = [rec EXCEPT ![t] = NoRec]
        /\ torrent[h] # NoTor \/ rec[t].life = "deleting"
    BY <1>5 DEF SweepTunes, Goto
  <2>3. \A u \in Task \ {t} : job'[u] = job[u] /\ rec'[u] = rec[u]
    BY <2>2 DEF IInv, TypeOK
  <2>4. PICK b \in BOOLEAN : b = ~seeded
    OBVIOUS
  <2>5. \/ torrent' = torrent
        \/ torrent[h] # NoTor /\ torrent' = [torrent EXCEPT ![h].running = b]
    BY <2>1, <2>2, <2>4
  <2>6. /\ \A g \in Hash \ {h} : torrent'[g] = torrent[g]
        /\ \/ torrent'[h] = NoTor
           \/ /\ torrent[h] # NoTor
              /\ torrent'[h].marker = torrent[h].marker /\ torrent'[h].wanted = torrent[h].wanted
    BY <2>5 DEF IInv, TypeOK, Torrent
  <2> QED BY <2>2, <2>3, <2>6, Continuing DEF SweepIn
<1> QED BY <1>1, <1>2, <1>3, <1>4, <1>5 DEF Sweep
-----------------------------------------------------------------------------
\* Nobody else touches what a record says of the torrent.
LEMMA RecordAround ==
  ASSUME IInv, OInv, NEW h \in Hash, store[h] # NoRec, NEW r \in Record,
         r.marker = store[h].marker, r.files = store[h].files,
         r.origin = store[h].origin, r.life = store[h].life,
         store' = [store EXCEPT ![h] = r], UNCHANGED <<torrent, pc, job, rec>>
  PROVE  Kept
<1>1. /\ store'[h] = r /\ r # NoRec /\ \A g \in Hash \ {h} : store'[g] = store[g]
  BY NoneAssumption DEF IInv, TypeOK
<1>2. \A g \in Hash : Tracked(g)' /\ Grows(g) /\ StaysWanted(g)
  BY <1>1 DEF OInv, Tracked, Grows, StaysWanted
<1>3. ASSUME NEW t \in Task PROVE Relies(t)' /\ Delivers(t)'
  <2>1. Relies(t) /\ Delivers(t)
    BY DEF OInv
  <2>2. CASE job[t].hash = h
    BY <1>1, <2>1, <2>2 DEF Relies, Delivers
  <2>3. CASE job[t].hash # h /\ pc[t] # "idle"
    <3>1. store'[job[t].hash] = store[job[t].hash]
      BY <1>1, <2>3, Begun
    <3> QED BY <2>1, <3>1 DEF Relies, Delivers
  <2>4. CASE pc[t] = "idle"
    BY <2>4, Nowhere DEF In, PrepareIn, DeleteIn, SweepIn, BeforeTryPc, TryPc
  <2> QED BY <2>2, <2>3, <2>4
<1> QED BY <1>2, <1>3 DEF Kept, OInv

\* The backend and its other users take nothing from what is wanted, and add no
\* torrent with a marker; nor any while a removal is on its way.
LEMMA TorrentAround ==
  ASSUME IInv, OInv, NEW h \in Hash, UNCHANGED <<store, pc, job, rec>>,
         \A g \in Hash \ {h} : torrent'[g] = torrent[g],
         LET x == torrent[h]  y == torrent'[h] IN
           \/ y = NoTor
           \/ /\ x # NoTor /\ y.marker = x.marker /\ y.wanted = x.wanted
              /\ y.running = x.running /\ x.have \subseteq y.have
           \/ /\ x = NoTor /\ y.marker = 0
              /\ \A t \in Task : pc[t] = "d_rm" => job[t].hash # h
  PROVE  Kept
<1>1. \A g \in Hash : Tracked(g)' /\ Grows(g) /\ StaysWanted(g)
  <2> SUFFICES ASSUME NEW g \in Hash PROVE Tracked(g)' /\ Grows(g) /\ StaysWanted(g)
    OBVIOUS
  <2>1. Tracked(g)
    BY DEF OInv
  <2>2. CASE g = h
    BY <2>1, <2>2 DEF Tracked, Grows, StaysWanted
  <2>3. CASE g # h
    BY <2>1, <2>3 DEF Tracked, Grows, StaysWanted
  <2> QED BY <2>2, <2>3
<1>2. ASSUME NEW t \in Task PROVE Relies(t)' /\ Delivers(t)'
  <2>1. Relies(t) /\ Delivers(t)
    BY DEF OInv
  <2>2. CASE pc[t] \notin In
    BY <2>2, Nowhere
  <2>3. CASE pc[t] \in In /\ job[t].hash # h
    <3>1. torrent'[job[t].hash] = torrent[job[t].hash]
      BY <2>3, Begun DEF In, PrepareIn, DeleteIn, SweepIn, BeforeTryPc, TryPc
    <3> QED BY <2>1, <3>1 DEF Relies, Delivers
  <2>4. CASE pc[t] \in In /\ job[t].hash = h
    <3>1. rec[t] # NoRec => rec[t].marker # 0
      BY <2>4, Begun, BoundAssumption DEF Record, In, PrepareIn, DeleteIn, SweepIn, BeforeTryPc, TryPc
    <3>2. Relies(t)'
      BY <2>1, <2>4 DEF Relies
    <3>3. Delivers(t)'
      BY <2>1, <2>4, <3>1 DEF Delivers
    <3> QED BY <3>2, <3>3
  <2> QED BY <2>2, <2>3, <2>4
<1> QED BY <1>1, <1>2 DEF Kept, OInv

\* Every step of the surroundings.
LEMMA EnvironmentIsSound ==
  ASSUME IInv, OInv, Environment
  PROVE  Kept
<1>1. CASE \E h \in Hash, kept \in BOOLEAN : setKept(h, kept)
  <2>1. PICK h \in Hash, kept \in BOOLEAN : setKept(h, kept)
    BY <1>1
  <2> DEFINE r == [store[h] EXCEPT !.kept = kept]
  <2>2. store[h] \in Record /\ store[h] # NoRec
    BY <2>1 DEF setKept, IInv, TypeOK
  <2>3. /\ r \in Record /\ r.life = store[h].life /\ r.marker = store[h].marker
        /\ r.files = store[h].files /\ r.origin = store[h].origin
    BY <2>2 DEF Record
  <2>4. store' = [store EXCEPT ![h] = r] /\ UNCHANGED <<torrent, pc, job, rec>>
    BY <2>1 DEF setKept
  <2> HIDE DEF r
  <2> QED BY <2>2, <2>3, <2>4, RecordAround
<1>2. CASE \E h \in Hash : renew(h)
  <2>1. PICK h \in Hash : renew(h)
    BY <1>2
  <2> DEFINE r == [store[h] EXCEPT !.lease = @ + 1]
  <2>2. store[h] \in Record /\ store[h] # NoRec /\ store[h].lease + 1 \in 0..MaxLease
    BY <2>1, BoundAssumption DEF renew, IInv, TypeOK, Record
  <2>3. /\ r \in Record /\ r.life = store[h].life /\ r.marker = store[h].marker
        /\ r.files = store[h].files /\ r.origin = store[h].origin
    BY <2>2 DEF Record
  <2>4. store' = [store EXCEPT ![h] = r] /\ UNCHANGED <<torrent, pc, job, rec>>
    BY <2>1 DEF renew
  <2> HIDE DEF r
  <2> QED BY <2>2, <2>3, <2>4, RecordAround
<1>3. CASE \E h \in Hash : markInactive(h)
  <2>1. PICK h \in Hash : UNCHANGED <<store, torrent, pc, job, rec>>
    BY <1>3 DEF markInactive
  <2>2. torrent[h] = NoTor \/ torrent[h] \in Torrent
    BY DEF IInv, TypeOK
  <2> QED BY <2>1, <2>2, TorrentAround
<1>4. CASE \E h \in Hash : Progress(h)
  <2>1. PICK h \in Hash : Progress(h)
    BY <1>4
  <2>2. PICK f \in torrent[h].wanted \ torrent[h].have :
          torrent' = [torrent EXCEPT ![h].have = @ \cup {f}]
    BY <2>1 DEF Progress
  <2>3. torrent[h] \in Torrent /\ torrent[h] # NoTor
    BY <2>1 DEF Progress, IInv, TypeOK
  <2>4. /\ torrent'[h].marker = torrent[h].marker /\ torrent'[h].wanted = torrent[h].wanted
        /\ torrent'[h].running = torrent[h].running /\ torrent[h].have \subseteq torrent'[h].have
        /\ \A g \in Hash \ {h} : torrent'[g] = torrent[g]
    BY <2>2, <2>3 DEF IInv, TypeOK, Torrent
  <2> QED BY <2>1, <2>3, <2>4, TorrentAround DEF Progress
<1>5. CASE \E h \in Hash : UserRemoves(h)
  <2>1. PICK h \in Hash : UserRemoves(h)
    BY <1>5
  <2>2. torrent'[h] = NoTor /\ \A g \in Hash \ {h} : torrent'[g] = torrent[g]
    BY <2>1 DEF UserRemoves, IInv, TypeOK
  <2> QED BY <2>1, <2>2, TorrentAround DEF UserRemoves
<1>6. CASE \E h \in Hash : UserAdds(h)
  <2>1. PICK h \in Hash : UserAdds(h)
    BY <1>6
  <2>2. torrent'[h].marker = 0 /\ \A g \in Hash \ {h} : torrent'[g] = torrent[g]
    BY <2>1 DEF UserAdds, IInv, TypeOK
  <2> QED BY <2>1, <2>2, TorrentAround DEF UserAdds
<1>7. CASE Crash
  <2>1. \A t \in Task : Relies(t)' /\ Delivers(t)'
    BY <1>7, Nowhere DEF Crash, In, PrepareIn, DeleteIn, SweepIn, BeforeTryPc, TryPc
  <2>2. \A h \in Hash : Tracked(h)' /\ Grows(h) /\ StaysWanted(h)
    BY <1>7 DEF Crash, OInv, Tracked, Grows, StaysWanted
  <2> QED BY <2>1, <2>2 DEF Kept, OInv
<1> QED BY <1>1, <1>2, <1>3, <1>4, <1>5, <1>6, <1>7 DEF Environment

\* Every step of the system.
LEMMA NextIsSound ==
  ASSUME IInv, OInv, [Next]_vars
  PROVE  Kept
<1>1. CASE \E t \in Task : Prepare(t) \/ Delete(t) \/ Sweep(t)
  BY <1>1, PrepareIsSound, DeleteIsSound, SweepIsSound
<1>2. CASE Environment
  BY <1>2, EnvironmentIsSound
<1>3. CASE UNCHANGED vars
  BY <1>3 DEF vars, Kept, OInv, Tracked, Relies, Delivers, Grows, StaysWanted
<1> QED BY <1>1, <1>2, <1>3 DEF Next

\* What the tasks rely on of the torrents holds from the start and of every step.
THEOREM OwnershipInvariant == Spec => []OInv
<1>1. Init => OInv
  BY DEF Init, OInv, Tracked, Relies, Delivers, In, PrepareIn, DeleteIn, SweepIn, BeforeTryPc, TryPc
<1>2. IInv /\ OInv /\ [Next]_vars => OInv'
  BY NextIsSound DEF Kept
<1> QED BY <1>1, <1>2, InductiveInvariant, PTL DEF Spec

\* A torrent that carries a marker of ours has its record, through lost replies,
\* restarts and deletions that stopped half way.
THEOREM OwnedTorrentsAreTracked == Spec => []OwnedTorrentTracked
<1>1. OInv => OwnedTorrentTracked
  BY DEF OInv, Tracked, OwnedTorrentTracked
<1> QED BY <1>1, OwnershipInvariant, PTL

\* No remove command is on its way to a torrent the user added.
THEOREM OnlyOwnTorrentsRemoved == Spec => []OnlyOwnRemoved
<1>1. OInv => OnlyOwnRemoved
  BY DEF OInv, Relies, OnlyOwnRemoved
<1> QED BY <1>1, OwnershipInvariant, PTL

\* A request is answered with its file there or on its way, and with the whole
\* stored selection wanted by the backend.
THEOREM ReadyIsReady == Spec => []ReadyMeansReady
<1>1. IInv /\ OInv => ReadyMeansReady
  <2> SUFFICES ASSUME IInv, OInv, NEW t \in Task, pc[t] = "p_done",
                      torrent[job[t].hash] # NoTor, torrent[job[t].hash].marker = rec[t].marker
               PROVE  /\ rec[t].files \subseteq torrent[job[t].hash].wanted
                      /\ \/ job[t].file \in torrent[job[t].hash].have
                         \/ torrent[job[t].hash].running
    BY DEF ReadyMeansReady
  <2>1. rec[t] # NoRec
    BY DEF IInv, Settled, TryPc
  <2> QED BY <2>1 DEF OInv, Delivers
<1> QED BY <1>1, InductiveInvariant, OwnershipInvariant, PTL

\* No two requests lose each other's files from the stored selection.
THEOREM SelectionsGrow == Spec => SelectionGrows
<1>1. IInv /\ OInv /\ [Next]_vars => [\A h \in Hash : Grows(h)]_vars
  BY NextIsSound DEF Kept
<1> QED BY <1>1, InductiveInvariant, OwnershipInvariant, PTL DEF Spec, SelectionGrows, Grows

\* No request switches off in the backend what another one has selected.
THEOREM SelectedFilesStayWanted == Spec => SelectedStaysWanted
<1>1. IInv /\ OInv /\ [Next]_vars => [\A h \in Hash : StaysWanted(h)]_vars
  BY NextIsSound DEF Kept
<1> QED BY <1>1, InductiveInvariant, OwnershipInvariant, PTL DEF Spec, SelectedStaysWanted, StaysWanted
-----------------------------------------------------------------------------
\* Eviction and expiry act on what the record says when the intent is stored.
THEOREM SweepActsOnPresentRecord == Spec => SweepSeesPresentRecord
<1> DEFINE Seen(t) == LET h == job[t].hash IN
             (pc[t] = "d_get" /\ pc'[t] = "d_rm" /\ job[t].op # "delete") =>
                \/ store[h].life = "deleting"
                \/ ~store[h].kept /\ (job[t].op = "evict" => store[h].lease = job[t].lease)
<1>1. IInv /\ [Next]_vars => [\A t \in Task : Seen(t)]_vars
  <2> SUFFICES ASSUME IInv, Next, NEW t \in Task,
                      pc[t] = "d_get", pc'[t] = "d_rm", job[t].op # "delete"
               PROVE  \/ store[job[t].hash].life = "deleting"
                      \/ /\ ~store[job[t].hash].kept
                         /\ job[t].op = "evict" => store[job[t].hash].lease = job[t].lease
    OBVIOUS
  <2> USE DEF IInv, TypeOK, Finish, Goto, Begin
  <2>1. ASSUME NEW u \in Task, Prepare(u) PROVE FALSE
    BY <2>1 DEF Prepare, prepareDownload, PrepareRefused, PrepareEnters, PrepareThrows,
          PrepareFinds, PrepareMisses, PrepareQueues, PrepareAdmits, PrepareRegisters,
          PrepareSubmits, PrepareConfirms, PrepareStarts, PrepareChooses, PrepareSelects,
          PrepareUnites, PrepareDeselects, PrepareEnables, PrepareResumes, PrepareReady,
          PrepareFails, Proceed, BeforeTryPc, TryPc
  <2>2. ASSUME NEW u \in Task, Sweep(u) PROVE FALSE
    BY <2>2 DEF Sweep, sweepOnce, SweepEnters, SweepCleans, SweepVerifies, SweepTunes
  <2>3. ~Environment
    BY DEF Environment, setKept, renew, markInactive, Progress, UserRemoves, UserAdds, Crash
  <2>4. PICK u \in Task : Delete(u)
    BY <2>1, <2>2, <2>3 DEF Next
  <2>5. ~deleteManaged(u)
    BY DEF deleteManaged
  <2>6. ~DeleteRefused(u) /\ ~DeleteEnters(u)
    BY DEF DeleteRefused, DeleteEnters
  <2>7. ~DeleteThrows(u) /\ ~DeleteFindsNothing(u)
    BY DEF DeleteThrows, DeleteFindsNothing
  <2>8. ~DeleteDeclines(u)
    BY DEF DeleteDeclines
  <2>9. ~DeleteRemoves(u) /\ ~DeleteConfirms(u)
    BY DEF DeleteRemoves, DeleteConfirms
  <2>10. DeleteDecides(u)
    BY <2>4, <2>5, <2>6, <2>7, <2>8, <2>9, Zenon DEF Delete
  <2>11. u = t
    BY <2>10 DEF DeleteDecides
  <2> QED BY <2>10, <2>11 DEF DeleteDecides, Eligible
<1> QED BY <1>1, InductiveInvariant, PTL DEF Spec, SweepSeesPresentRecord
-----------------------------------------------------------------------------
\* The records of one origin that are admitted and not yet prepared.
Admitted(o) == {h \in Hash : /\ store[h] # NoRec
                             /\ store[h].origin = o
                             /\ store[h].life = "registering"}

\* What holds of a task between counting and being counted.  Only one is, by
\* '$registration'; only requests that select a file count a second time.
Seated(t) ==
  /\ pc[t] \in {"p_space", "p_submit", "p_wait"} => reg = t
  /\ pc[t] \in {"p_reg", "p_space", "p_submit", "p_wait"} => ~AllowSelect(t)
  /\ pc[t] = "p_sel" => AllowSelect(t)
  /\ pc[t] \in TryPc /\ AllowSelect(t) => rec[t].origin = "store"
  /\ pc[t] = "p_space" => Cardinality(Admitted(AdmitOrigin(t)) \ {job[t].hash}) < Cap

\* The inductive invariant of the admissions, beside IInv and OInv.
AInv == /\ \A t \in Task : Seated(t)
        /\ \A o \in Origin : Cardinality(Admitted(o)) <= Cap

\* A step after which no record is newly admitted.
AdmitsNone == \A g \in Hash : (store'[g] # NoRec /\ store'[g].life = "registering") =>
  store[g] # NoRec /\ store[g].life = "registering" /\ store[g].origin = store'[g].origin

\* Admitted records can be counted.
LEMMA Countable ==
  ASSUME NEW S \in SUBSET Hash
  PROVE  IsFiniteSet(S) /\ Cardinality(S) \in Nat
BY HashAssumption, FS_Subset, FS_CardinalityType

\* Fewer are counted of a subset.
LEMMA Fewer ==
  ASSUME NEW S \in SUBSET Hash, NEW T \in SUBSET S
  PROVE  Cardinality(T) <= Cardinality(S) /\ Cardinality(T) \in Nat /\ Cardinality(S) \in Nat
BY Countable, FS_Subset

\* One more than fewer than Cap are no more than Cap.
LEMMA OneMore ==
  ASSUME NEW S \in SUBSET Hash, NEW T \in SUBSET Hash, NEW h \in Hash,
         T \subseteq S \cup {h}, Cardinality(S) < Cap
  PROVE  Cardinality(T) <= Cap
<1>1. Cardinality(S \cup {h}) <= Cardinality(S) + 1 /\ Cardinality(S) \in Nat
  BY Countable, FS_AddElement
<1>2. Cardinality(T) <= Cardinality(S \cup {h}) /\ Cardinality(T) \in Nat
      /\ Cardinality(S \cup {h}) \in Nat
  BY Fewer
<1> QED BY <1>1, <1>2, BoundAssumption

\* A task that is not preparing has nothing to hold.
LEMMA Standing ==
  ASSUME NEW t \in Task, pc'[t] \notin PrepareIn
  PROVE  Seated(t)'
BY DEF Seated, PrepareIn, BeforeTryPc, TryPc

\* What is left to show of a step of one task that admits nothing.
LEMMA Uncounted ==
  ASSUME IInv, AInv, NEW t \in Task, Alone(t), AdmitsNone, Seated(t)',
         \A u \in Task \ {t} : reg = u => reg' = u
  PROVE  AInv'
<1>1. ASSUME NEW o PROVE Admitted(o)' \subseteq Admitted(o)
  BY DEF Admitted, AdmitsNone
<1>2. \A o \in Origin : Cardinality(Admitted(o)') <= Cap
  <2> SUFFICES ASSUME NEW o \in Origin PROVE Cardinality(Admitted(o)') <= Cap
    OBVIOUS
  <2>1. Cardinality(Admitted(o)') <= Cardinality(Admitted(o))
        /\ Cardinality(Admitted(o)') \in Nat /\ Cardinality(Admitted(o)) \in Nat
    BY <1>1, Fewer DEF Admitted
  <2> QED BY <2>1, BoundAssumption DEF AInv
<1>3. ASSUME NEW u \in Task \ {t} PROVE Seated(u)'
  <2>1. pc'[u] = pc[u] /\ job'[u] = job[u] /\ rec'[u] = rec[u] /\ Seated(u)
    BY DEF Alone, AInv
  <2>2. AdmitOrigin(u)' = AdmitOrigin(u) /\ AllowSelect(u)' = AllowSelect(u)
    BY <2>1 DEF AdmitOrigin, AllowSelect
  <2>3. PICK o : o = AdmitOrigin(u)
    OBVIOUS
  <2>4. PICK g : g = job[u].hash
    OBVIOUS
  <2>5. /\ Cardinality(Admitted(o)' \ {g}) <= Cardinality(Admitted(o) \ {g})
        /\ Cardinality(Admitted(o)' \ {g}) \in Nat /\ Cardinality(Admitted(o) \ {g}) \in Nat
    <3>1. Admitted(o)' \ {g} \subseteq Admitted(o) \ {g} /\ Admitted(o) \ {g} \subseteq Hash
      BY <1>1 DEF Admitted
    <3> QED BY <3>1, Fewer
  <2>6. pc[u] = "p_space" => Cardinality(Admitted(o)' \ {g}) < Cap
    BY <2>1, <2>3, <2>4, <2>5, BoundAssumption DEF Seated
  <2>7. pc'[u] = "p_space" => Cardinality(Admitted(AdmitOrigin(u))' \ {job[u].hash}') < Cap
    BY <2>1, <2>2, <2>3, <2>4, <2>6 DEF Admitted
  <2> QED BY <2>1, <2>2, <2>7 DEF Seated
<1> QED BY <1>2, <1>3 DEF AInv

\* A record is stored that is not admitted by it.
LEMMA Writing ==
  ASSUME IInv, NEW h \in Hash, NEW r, store' = [store EXCEPT ![h] = r],
         \/ r = NoRec \/ r.life # "registering"
         \/ store[h] # NoRec /\ r.life = store[h].life /\ r.origin = store[h].origin
  PROVE  AdmitsNone
BY DEF AdmitsNone, IInv, TypeOK

\* A task returns and admits nothing.
LEMMA Leaving ==
  ASSUME IInv, AInv, NEW t \in Task, Finish(t), AdmitsNone
  PROVE  AInv'
<1>1. pc'[t] = "idle" /\ Alone(t) /\ \A u \in Task \ {t} : reg = u => reg' = u
  BY DEF Finish, Alone, IInv, TypeOK
<1> QED BY <1>1, Standing, Uncounted DEF PrepareIn, BeforeTryPc, TryPc

\* A task returns and leaves the store as it is.
LEMMA LeavingAlone ==
  ASSUME IInv, AInv, NEW t \in Task, Finish(t), UNCHANGED store
  PROVE  AInv'
BY Leaving DEF AdmitsNone

\* A refusal admits nothing.
LEMMA LeavingConflict ==
  ASSUME IInv, AInv, NEW t \in Task, pc[t] \in In, rec[t] # NoRec,
         MarkConflict(t, job[t].hash), Finish(t)
  PROVE  AInv'
<1>1. PICK h \in Hash : h = job[t].hash /\ rec[t] \in Record
  BY Begun DEF In, PrepareIn, DeleteIn, SweepIn, BeforeTryPc, TryPc
<1> DEFINE r == [rec[t] EXCEPT !.life = "conflict"]
<1>2. r.life = "conflict" /\ store' = [store EXCEPT ![h] = r]
  BY <1>1 DEF Record, MarkConflict
<1> HIDE DEF r
<1> QED BY <1>2, Writing, Leaving

\* A task steps that is not preparing, or stops preparing, with the store as it is.
LEMMA Passing ==
  ASSUME IInv, AInv, NEW t \in Task, NEW w, w \notin PrepareIn, pc' = [pc EXCEPT ![t] = w],
         UNCHANGED <<store, reg>>,
         \A u \in Task \ {t} : job'[u] = job[u] /\ rec'[u] = rec[u]
  PROVE  AInv'
<1>1. pc'[t] = w /\ Alone(t) /\ AdmitsNone
  BY DEF Alone, AdmitsNone, IInv, TypeOK
<1> QED BY <1>1, Standing, Uncounted

\* A task begins.
LEMMA Starting ==
  ASSUME IInv, AInv, NEW t \in Task, NEW j,
         NEW w \in {"p_lock", "d_lock", "s_lock"}, Begin(t, j, w)
  PROVE  AInv'
<1>1. w \notin PrepareIn
  BY DEF PrepareIn, BeforeTryPc, TryPc
<1>2. /\ pc' = [pc EXCEPT ![t] = w] /\ UNCHANGED <<store, reg>>
      /\ \A u \in Task \ {t} : job'[u] = job[u] /\ rec'[u] = rec[u]
  BY DEF Begin, Goto, IInv, TypeOK
<1> QED BY <1>1, <1>2, Passing

\* A preparation goes on in the `try`, where only a request that selects a file
\* comes to be counted.
LEMMA Advancing ==
  ASSUME IInv, AInv, NEW t \in Task, pc'[t] \in TryPc, Alone(t), AdmitsNone,
         \A u \in Task \ {t} : reg = u => reg' = u,
         job'[t].op = job[t].op, rec'[t].origin = rec[t].origin,
         AllowSelect(t) => rec[t].origin = "store",
         pc'[t] = "p_sel" => AllowSelect(t)
  PROVE  AInv'
<1>1. Seated(t)'
  BY DEF Seated, AllowSelect, TryPc
<1> QED BY <1>1, Uncounted

\* On to the `try` with a torrent of ours.
LEMMA AdvancingOwned ==
  ASSUME IInv, AInv, NEW t \in Task, pc[t] \in {"p_get", "p_wait"},
         Proceed(t, rec[t], torrent[job[t].hash]), UNCHANGED store,
         \A u \in Task \ {t} : reg = u => reg' = u,
         AllowSelect(t) => rec[t].origin = "store"
  PROVE  AInv'
<1>1. job[t] \in Job
  BY Begun
<1> DEFINE x == torrent[job[t].hash]
<1>2. PICK b \in BOOLEAN : b = (~x.running /\ Complete(x))
  OBVIOUS
<1>3. /\ job' = [job EXCEPT ![t].resume = b] /\ rec' = [rec EXCEPT ![t] = rec[t]]
      /\ \E w \in {"p_start", "p_files"} : pc' = [pc EXCEPT ![t] = w]
  BY <1>2 DEF Proceed, Goto
<1>4. /\ job'[t].op = job[t].op /\ rec'[t] = rec[t] /\ Alone(t)
      /\ pc'[t] \in {"p_start", "p_files"}
  BY <1>1, <1>3 DEF Alone, IInv, TypeOK, Job
<1> QED BY <1>4, Advancing DEF TryPc, AdmitsNone

\* A free slot was counted while nobody else could take one.
LEMMA Admitting ==
  ASSUME IInv, AInv, NEW t \in Task, PrepareAdmits(t)
  PROVE  AInv'
<1>1. /\ pc[t] = "p_reg" /\ reg' = t /\ pc' = [pc EXCEPT ![t] = "p_space"]
      /\ reg = NoTask /\ UNCHANGED <<store, job, rec>>
  BY DEF PrepareAdmits, Goto
<1>2. pc'[t] = "p_space" /\ Alone(t) /\ AdmitsNone /\ ~AllowSelect(t)
  BY <1>1 DEF Alone, AdmitsNone, AInv, Seated, IInv, TypeOK
<1> DEFINE S == {g \in Hash \ {job[t].hash} : Incomplete(g, AdmitOrigin(t))}
           T == Admitted(AdmitOrigin(t)) \ {job[t].hash}
<1>3. ~(Cardinality(S) >= Cap)
  BY DEF PrepareAdmits, Busy
<1>4. T \subseteq S
  BY DEF Admitted, Incomplete
<1>5. Cardinality(T) < Cap
  <2>1. S \subseteq Hash
    OBVIOUS
  <2> HIDE DEF S, T
  <2> QED BY <1>3, <1>4, <2>1, Fewer, BoundAssumption
<1>6. T' = T
  BY <1>1 DEF Admitted, AdmitOrigin
<1>7. Seated(t)'
  BY <1>1, <1>2, <1>5, <1>6 DEF Seated, AllowSelect, TryPc
<1> QED BY <1>1, <1>2, <1>7, Uncounted, NoneAssumption

\* The record takes the slot that was counted for it: it is of the origin that
\* was asked for, and the others have only become fewer since.
LEMMA TakingSlot ==
  ASSUME IInv, OInv, AInv, NEW t \in Task, PrepareRegisters(t)
  PROVE  AInv'
<1>1. PICK h \in Hash : h = job[t].hash
  BY Begun DEF PrepareRegisters
<1> DEFINE r == Registered(t, "registering")
<1>2. /\ pc[t] = "p_space" /\ Register(t, "registering") /\ reg' = reg /\ job' = job
      /\ pc' = [pc EXCEPT ![t] = "p_submit"] /\ rec' = [rec EXCEPT ![t] = r]
  BY DEF PrepareRegisters, Goto
<1>3. /\ store'[h] = r /\ \A g \in Hash \ {h} : store'[g] = store[g]
      /\ r \in Record /\ r.life = "registering"
  BY <1>1, <1>2, <1>1, RegisteredRecord DEF IInv, TypeOK
<1>4. r.origin = AdmitOrigin(t)
  <2>1. rec[t] # NoRec => rec[t] \in Record
    BY <1>2, Inside DEF PrepareIn, BeforeTryPc
  <2> QED BY <2>1 DEF Registered, AdmitOrigin, Record
<1> HIDE DEF r
<1>5. pc'[t] = "p_submit" /\ Alone(t) /\ reg = t /\ ~AllowSelect(t)
  BY <1>2 DEF Alone, AInv, Seated, IInv, TypeOK
<1>6. ASSUME NEW u \in Task PROVE Seated(u)'
  <2>1. CASE u = t
    BY <1>2, <1>5, <2>1 DEF Seated, AllowSelect, TryPc
  <2>2. CASE u # t
    <3>1. pc'[u] = pc[u] /\ job'[u] = job[u] /\ rec'[u] = rec[u] /\ Seated(u) /\ pc[u] # "p_space"
      BY <1>5, <2>2 DEF Alone, AInv, Seated
    <3> QED BY <1>2, <3>1 DEF Seated, AllowSelect
  <2> QED BY <2>1, <2>2
<1>7. ASSUME NEW o \in Origin PROVE Cardinality(Admitted(o)') <= Cap
  <2>1. CASE o = AdmitOrigin(t)
    <3>1. Admitted(o)' \subseteq (Admitted(o) \ {h}) \cup {h}
      BY <1>3 DEF Admitted
    <3>2. Cardinality(Admitted(o) \ {h}) < Cap
      BY <1>1, <1>2, <2>1 DEF AInv, Seated
    <3>3. Admitted(o) \ {h} \subseteq Hash /\ Admitted(o)' \subseteq Hash
      BY DEF Admitted
    <3> QED BY <3>1, <3>2, <3>3, OneMore
  <2>2. CASE o # AdmitOrigin(t)
    <3>1. Admitted(o)' \subseteq Admitted(o) /\ Admitted(o) \subseteq Hash
      BY <1>3, <1>4, <2>2 DEF Admitted
    <3>2. Cardinality(Admitted(o)) <= Cap
      BY DEF AInv
    <3> QED BY <3>1, <3>2, Fewer, BoundAssumption
  <2> QED BY <2>1, <2>2
<1> QED BY <1>6, <1>7 DEF AInv

\* A further file takes a slot in the step that counts.
LEMMA TakingAnother ==
  ASSUME IInv, OInv, AInv, NEW t \in Task, PrepareSelects(t)
  PROVE  AInv'
<1>1. PICK h \in Hash : h = job[t].hash
  BY Begun DEF PrepareSelects
<1> DEFINE r == [store[h] EXCEPT !.life = "registering", !.file = job[t].file,
                                 !.files = rec[t].files \cup {job[t].file}]
<1>2. /\ pc[t] = "p_sel" /\ pc' = [pc EXCEPT ![t] = "p_union"] /\ reg = NoTask
      /\ ~Busy(h, "store") /\ store' = [store EXCEPT ![h] = r]
      /\ rec' = [rec EXCEPT ![t] = r] /\ UNCHANGED <<reg, job>>
  BY <1>1 DEF PrepareSelects, Goto
<1>3. store[h] \in Record /\ rec[t] # NoRec /\ Relies(t) /\ Seated(t)
  BY <1>1, <1>2, Inside DEF PrepareIn, TryPc, IInv, Settled, AInv
<1>4. store[h].origin = "store" /\ rec[t].origin = "store"
  BY <1>1, <1>2, <1>3 DEF Relies, Seated, In, PrepareIn, TryPc
<1>5. r.origin = "store"
  BY <1>3, <1>4 DEF Record
<1> HIDE DEF r
<1>6. /\ store'[h] = r /\ (\A g \in Hash \ {h} : store'[g] = store[g])
      /\ pc'[t] = "p_union" /\ rec'[t] = r /\ Alone(t)
  BY <1>2 DEF Alone, IInv, TypeOK
<1>7. ASSUME NEW u \in Task PROVE Seated(u)'
  <2>1. CASE u = t
    BY <1>2, <1>5, <1>6, <2>1 DEF Seated, TryPc
  <2>2. CASE u # t
    <3>1. /\ pc'[u] = pc[u] /\ job'[u] = job[u] /\ rec'[u] = rec[u] /\ Seated(u)
          /\ pc[u] # "p_space"
      BY <1>2, <1>6, <2>2, NoneAssumption DEF Alone, AInv, Seated
    <3> QED BY <1>2, <3>1 DEF Seated, AllowSelect
  <2> QED BY <2>1, <2>2
<1>8. ASSUME NEW o \in Origin PROVE Cardinality(Admitted(o)') <= Cap
  <2>1. CASE o = "store"
    <3> DEFINE S == {g \in Hash \ {h} : Incomplete(g, "store")}
    <3>1. Cardinality(S) < Cap
      <4>1. S \in SUBSET Hash
        OBVIOUS
      <4>2. ~(Cardinality(S) >= Cap)
        BY <1>2 DEF Busy
      <4> HIDE DEF S
      <4> QED BY <4>1, <4>2, Countable, BoundAssumption
    <3>2. Admitted(o)' \subseteq S \cup {h}
      <4> SUFFICES ASSUME NEW g \in Hash \ {h}, store'[g] # NoRec, store'[g].origin = "store",
                          store'[g].life = "registering"
                   PROVE  Incomplete(g, "store")
        BY <2>1 DEF Admitted
      <4> QED BY <1>6 DEF Incomplete
    <3>3. S \subseteq Hash /\ Admitted(o)' \subseteq Hash
      BY DEF Admitted
    <3> HIDE DEF S
    <3> QED BY <3>1, <3>2, <3>3, OneMore
  <2>2. CASE o # "store"
    <3>1. Admitted(o)' \subseteq Admitted(o) /\ Admitted(o) \subseteq Hash
      BY <1>5, <1>6, <2>2 DEF Admitted
    <3>2. Cardinality(Admitted(o)) <= Cap
      BY DEF AInv
    <3> QED BY <3>1, <3>2, Fewer, BoundAssumption
  <2> QED BY <2>1, <2>2
<1> QED BY <1>7, <1>8 DEF AInv

\* Every step of a preparation.
LEMMA PrepareCounts ==
  ASSUME IInv, OInv, AInv, NEW t \in Task, Prepare(t)
  PROVE  AInv'
<1>1. CASE prepareDownload(t)
  BY <1>1, Starting DEF prepareDownload
<1> SUFFICES ASSUME pc[t] # "idle" PROVE AInv'
  BY <1>1 DEF Prepare, PrepareRefused, PrepareEnters, PrepareThrows, PrepareFinds, PrepareMisses,
        PrepareQueues, PrepareAdmits, PrepareRegisters, PrepareSubmits, PrepareConfirms,
        PrepareStarts, PrepareChooses, PrepareSelects, PrepareUnites, PrepareDeselects,
        PrepareEnables, PrepareResumes, PrepareReady, PrepareFails, BeforeTryPc, TryPc
<1> PICK h \in Hash : h = job[t].hash
  BY Begun
<1>2. CASE PrepareRefused(t) \/ PrepareThrows(t)
  BY <1>2, LeavingAlone DEF PrepareRefused, PrepareThrows
<1>3. CASE PrepareEnters(t)
  <2>1. /\ pc'[t] = "p_get" /\ Alone(t) /\ AdmitsNone /\ reg' = reg
    BY <1>3 DEF PrepareEnters, Goto, Alone, AdmitsNone, IInv, TypeOK
  <2>2. Seated(t)'
    BY <2>1 DEF Seated, TryPc
  <2> QED BY <2>1, <2>2, Uncounted
<1>4. CASE PrepareFinds(t)
  <2>1. pc[t] = "p_get" /\ rec[t] # NoRec /\ (AllowSelect(t) => rec[t].origin = "store")
    BY <1>4 DEF PrepareFinds, MayUse
  <2>2. CASE Proceed(t, rec[t], torrent[h]) /\ UNCHANGED <<store, reg>>
    BY <2>1, <2>2, AdvancingOwned
  <2>3. CASE MarkConflict(t, h) /\ Finish(t)
    BY <2>1, <2>3, LeavingConflict DEF In, PrepareIn, BeforeTryPc
  <2> QED BY <1>4, <2>2, <2>3 DEF PrepareFinds
<1>5. CASE PrepareMisses(t)
  <2>1. pc'[t] = "p_reg" /\ Alone(t) /\ AdmitsNone /\ reg' = reg /\ job' = job
    BY <1>5 DEF PrepareMisses, Goto, Alone, AdmitsNone, IInv, TypeOK
  <2>2. ~AllowSelect(t)
    BY <1>5 DEF PrepareMisses, MayUse
  <2>3. Seated(t)'
    BY <2>1, <2>2 DEF Seated, AllowSelect, TryPc
  <2> QED BY <2>1, <2>3, Uncounted
<1>6. CASE PrepareQueues(t)
  <2> DEFINE r == Registered(t, "queued")
  <2>1. pc[t] = "p_reg" /\ Register(t, "queued") /\ Finish(t)
    BY <1>6 DEF PrepareQueues
  <2>2. r.life = "queued" /\ store' = [store EXCEPT ![h] = r]
    BY <2>1, RegisteredRecord
  <2> HIDE DEF r
  <2> QED BY <2>1, <2>2, Writing, Leaving
<1>7. CASE PrepareAdmits(t)
  BY <1>7, Admitting
<1>8. CASE PrepareRegisters(t)
  BY <1>8, TakingSlot
<1>9. CASE PrepareSubmits(t)
  <2>1. /\ pc[t] = "p_submit" /\ pc'[t] = "p_wait" /\ Alone(t) /\ AdmitsNone
        /\ reg' = reg /\ job' = job
    BY <1>9 DEF PrepareSubmits, Goto, Alone, AdmitsNone, IInv, TypeOK
  <2>2. Seated(t)'
    BY <2>1 DEF AInv, Seated, AllowSelect, TryPc
  <2> QED BY <2>1, <2>2, Uncounted
<1>10. CASE PrepareConfirms(t)
  <2>1. pc[t] = "p_wait" /\ rec[t] # NoRec /\ ~AllowSelect(t) /\ reg = t
    BY <1>10 DEF PrepareConfirms, IInv, Settled, AInv, Seated
  <2>2. CASE Proceed(t, rec[t], torrent[h]) /\ UNCHANGED store
    BY <2>1, <2>2, AdvancingOwned
  <2>3. CASE MarkConflict(t, h) /\ Finish(t)
    BY <2>1, <2>3, LeavingConflict DEF In, PrepareIn, BeforeTryPc
  <2> QED BY <1>10, <2>2, <2>3 DEF PrepareConfirms
<1>11. ASSUME pc[t] \in TryPc, NEW w \in TryPc \ {"p_sel"}, pc' = [pc EXCEPT ![t] = w],
              UNCHANGED <<store, reg, job, rec>>
       PROVE  AInv'
  <2>1. pc'[t] = w /\ Alone(t) /\ AdmitsNone /\ (AllowSelect(t) => rec[t].origin = "store")
    BY <1>11 DEF Alone, AdmitsNone, AInv, Seated, IInv, TypeOK
  <2> QED BY <1>11, <2>1, Advancing
<1>12. CASE PrepareStarts(t) \/ PrepareDeselects(t) \/ PrepareEnables(t) \/ PrepareResumes(t)
  BY <1>11, <1>12 DEF PrepareStarts, PrepareDeselects, PrepareEnables, PrepareResumes, Goto, TryPc
<1>13. CASE PrepareChooses(t)
  <2> DEFINE missing(f) == f \notin torrent[h].have
  <2>1. PICK f \in Wanted(t) \ {NoFile} :
          /\ job' = [job EXCEPT ![t].file = f, ![t].resume = @ /\ missing(f)]
          /\ Goto(t, IF AllowSelect(t) /\ f \notin rec[t].files /\ missing(f)
                     THEN "p_sel" ELSE "p_union")
    BY <1>13 DEF PrepareChooses
  <2>2. pc[t] = "p_files" /\ UNCHANGED <<store, reg, rec>> /\ job[t] \in Job
    BY <1>13, Begun DEF PrepareChooses
  <2>3. PICK b \in BOOLEAN : b = (job[t].resume /\ missing(f))
    OBVIOUS
  <2>4. job' = [job EXCEPT ![t].file = f, ![t].resume = b]
    BY <2>1, <2>2, <2>3 DEF IInv, TypeOK, Job
  <2>5. PICK w \in {"p_sel", "p_union"} :
          pc' = [pc EXCEPT ![t] = w] /\ (w = "p_sel" => AllowSelect(t))
    BY <2>1 DEF Goto
  <2> HIDE DEF missing
  <2>6. /\ pc'[t] = w /\ Alone(t) /\ AdmitsNone /\ job'[t].op = job[t].op
        /\ AllowSelect(t) => rec[t].origin = "store"
    BY <2>2, <2>4, <2>5 DEF Alone, AdmitsNone, AInv, Seated, IInv, TypeOK, Job, TryPc
  <2> QED BY <2>2, <2>5, <2>6, Advancing DEF TryPc
<1>14. CASE PrepareSelects(t)
  BY <1>14, TakingAnother
<1>15. CASE PrepareUnites(t)
  <2>1. PICK chosen \in SUBSET File :
          LET r == [store[h] EXCEPT !.file = job[t].file, !.files = rec[t].files \cup chosen] IN
            /\ store' = [store EXCEPT ![h] = r]
            /\ rec' = [rec EXCEPT ![t] = r]
    BY <1>15 DEF PrepareUnites
  <2> DEFINE r == [store[h] EXCEPT !.file = job[t].file, !.files = rec[t].files \cup chosen]
  <2>2. /\ pc[t] = "p_union" /\ pc' = [pc EXCEPT ![t] = "p_off"]
        /\ store' = [store EXCEPT ![h] = r] /\ rec' = [rec EXCEPT ![t] = r]
        /\ UNCHANGED <<reg, job>>
    BY <1>15, <2>1 DEF PrepareUnites, Goto
  <2>3. store[h] \in Record /\ store[h] # NoRec /\ rec[t] # NoRec /\ Relies(t) /\ Seated(t)
    BY <2>2, Inside, NoneAssumption DEF AInv, IInv, Settled, PrepareIn, TryPc
  <2>4. store[h].origin = rec[t].origin
    BY <2>2, <2>3 DEF Relies, In, PrepareIn, TryPc
  <2>5. r.life = store[h].life /\ r.origin = store[h].origin
    BY <2>3 DEF Record
  <2> HIDE DEF r
  <2>6. pc'[t] = "p_off" /\ rec'[t] = r /\ Alone(t) /\ AdmitsNone
    BY <2>2, <2>3, <2>5, Writing DEF Alone, IInv, TypeOK
  <2> QED BY <2>2, <2>3, <2>4, <2>5, <2>6, Advancing DEF Seated, TryPc
<1>16. CASE PrepareReady(t)
  <2>1. pc[t] = "p_done" /\ Finish(t) /\ rec[t] # NoRec /\ rec[t] \in Record
    BY <1>16, Inside DEF PrepareReady, PrepareIn, TryPc
  <2>2. CASE rec[t].life = "managed"
    BY <1>16, <2>1, <2>2, LeavingAlone DEF PrepareReady
  <2>3. CASE rec[t].life # "managed"
    <3> DEFINE r == [rec[t] EXCEPT !.life = "managed"]
    <3>1. r.life = "managed" /\ store' = [store EXCEPT ![h] = r]
      BY <1>16, <2>1, <2>3 DEF PrepareReady, Record
    <3> HIDE DEF r
    <3> QED BY <2>1, <3>1, Writing, Leaving
  <2> QED BY <2>2, <2>3
<1>17. CASE PrepareFails(t)
  <2>1. pc[t] \in TryPc /\ Finish(t) /\ rec[t] # NoRec /\ store[h] \in Record \cup {NoRec}
        /\ store[h] # NoRec
    BY <1>17, Begun DEF PrepareFails, IInv, Settled, PrepareIn
  <2>2. CASE UNCHANGED store
    BY <2>1, <2>2, LeavingAlone
  <2>3. CASE store' = [store EXCEPT ![h].life = "failed"]
    <3> DEFINE r == [store[h] EXCEPT !.life = "failed"]
    <3>1. r.life = "failed" /\ store' = [store EXCEPT ![h] = r]
      BY <2>1, <2>3 DEF Record
    <3> HIDE DEF r
    <3> QED BY <2>1, <3>1, Writing, Leaving
  <2> QED BY <1>17, <2>2, <2>3 DEF PrepareFails
<1> QED BY <1>1, <1>2, <1>3, <1>4, <1>5, <1>6, <1>7, <1>8, <1>9, <1>10, <1>12,
           <1>13, <1>14, <1>15, <1>16, <1>17 DEF Prepare

\* Every step of a deletion or a sweep.
LEMMA DeletionCounts ==
  ASSUME IInv, AInv, NEW t \in Task, Delete(t) \/ Sweep(t)
  PROVE  AInv'
<1>1. CASE deleteManaged(t) \/ sweepOnce(t)
  BY <1>1, Starting DEF deleteManaged, sweepOnce
<1> SUFFICES ASSUME pc[t] # "idle" PROVE AInv'
  BY <1>1 DEF Delete, DeleteRefused, DeleteEnters, DeleteThrows, DeleteFindsNothing,
              DeleteDecides, DeleteDeclines, DeleteRemoves, DeleteConfirms,
              Sweep, SweepEnters, SweepCleans, SweepVerifies, SweepTunes
<1> PICK h \in Hash : h = job[t].hash
  BY Begun
<1>2. ASSUME UNCHANGED <<store, reg>>, NEW w \in {"d_get", "d_confirm", "s_get", "s_tune", "d_lock"},
             pc' = [pc EXCEPT ![t] = w],
             \A u \in Task \ {t} : job'[u] = job[u] /\ rec'[u] = rec[u]
      PROVE  AInv'
  BY <1>2, Passing DEF PrepareIn, BeforeTryPc, TryPc
<1>3. CASE DeleteRefused(t) \/ DeleteThrows(t)
  BY <1>3, LeavingAlone DEF DeleteRefused, DeleteThrows
<1>4. CASE DeleteEnters(t)
  BY <1>2, <1>4 DEF DeleteEnters, Goto, IInv, TypeOK
<1>5. CASE DeleteFindsNothing(t) \/ DeleteConfirms(t)
  BY <1>5, Writing, Leaving DEF DeleteFindsNothing, DeleteConfirms
<1>6. CASE DeleteDecides(t)
  <2> DEFINE r == [store[h] EXCEPT !.life = "deleting"]
  <2>1. /\ store' = [store EXCEPT ![h] = r] /\ pc' = [pc EXCEPT ![t] = "d_rm"]
        /\ UNCHANGED <<reg, job, rec>> /\ store[h] \in Record
    BY <1>6, DeletionIn DEF DeleteDecides, Goto, DeleteIn
  <2>2. r.life = "deleting"
    BY <2>1 DEF Record
  <2> HIDE DEF r
  <2>3. AdmitsNone /\ pc'[t] = "d_rm" /\ Alone(t)
    BY <2>1, <2>2, Writing DEF Alone, IInv, TypeOK
  <2> QED BY <2>1, <2>3, Standing, Uncounted DEF PrepareIn, BeforeTryPc, TryPc
<1>7. CASE DeleteDeclines(t)
  BY <1>7, DeletionIn, LeavingAlone, LeavingConflict DEF DeleteDeclines, DeleteIn
<1>8. CASE DeleteRemoves(t)
  BY <1>2, <1>8 DEF DeleteRemoves, Goto
<1>9. CASE SweepEnters(t)
  <2>1. CASE store[h] = NoRec
    BY <1>9, <2>1, LeavingAlone DEF SweepEnters
  <2>2. CASE store[h] # NoRec
    BY <1>2, <1>9, <2>2 DEF SweepEnters, Goto, IInv, TypeOK
  <2> QED BY <2>1, <2>2
<1>10. CASE SweepCleans(t)
  <2>1. Finish(t) /\ (store' = store \/ store' = [store EXCEPT ![h] = NoRec])
    BY <1>10 DEF SweepCleans
  <2> QED BY <2>1, LeavingAlone, Writing, Leaving
<1>11. CASE SweepVerifies(t)
  <2>1. CASE MarkConflict(t, h) /\ Finish(t)
    BY <1>11, <2>1, DeletionIn, LeavingConflict DEF SweepVerifies, SweepIn
  <2>2. CASE Goto(t, "s_tune") /\ UNCHANGED <<store, lock, reg, job, rec>>
    BY <1>2, <2>2 DEF Goto
  <2> QED BY <1>11, <2>1, <2>2 DEF SweepVerifies
<1>12. CASE SweepTunes(t)
  <2>1. /\ UNCHANGED <<store, reg>> /\ pc' = [pc EXCEPT ![t] = "d_lock"]
        /\ job' = [job EXCEPT ![t].op = "expire"] /\ rec' = [rec EXCEPT ![t] = NoRec]
    BY <1>12 DEF SweepTunes, Goto
  <2> QED BY <1>2, <2>1 DEF IInv, TypeOK
<1> QED BY <1>1, <1>3, <1>4, <1>5, <1>6, <1>7, <1>8, <1>9, <1>10, <1>11, <1>12 DEF Delete, Sweep

\* Every step of the surroundings: no record changes its lifecycle.
LEMMA EnvironmentCounts ==
  ASSUME IInv, AInv, Environment
  PROVE  AInv'
<1>1. AdmitsNone
  <2>1. CASE \E h \in Hash, kept \in BOOLEAN : setKept(h, kept)
    <3>1. PICK h \in Hash, kept \in BOOLEAN : setKept(h, kept)
      BY <2>1
    <3> DEFINE r == [store[h] EXCEPT !.kept = kept]
    <3>2. store[h] \in Record /\ store[h] # NoRec /\ store' = [store EXCEPT ![h] = r]
      BY <3>1 DEF setKept, IInv, TypeOK
    <3>3. r.life = store[h].life /\ r.origin = store[h].origin
      BY <3>2 DEF Record
    <3> HIDE DEF r
    <3> QED BY <3>2, <3>3, Writing
  <2>2. CASE \E h \in Hash : renew(h)
    <3>1. PICK h \in Hash : renew(h)
      BY <2>2
    <3> DEFINE r == [store[h] EXCEPT !.lease = @ + 1]
    <3>2. store[h] \in Record /\ store[h] # NoRec /\ store' = [store EXCEPT ![h] = r]
      BY <3>1 DEF renew, IInv, TypeOK
    <3>3. r.life = store[h].life /\ r.origin = store[h].origin
      BY <3>2 DEF Record
    <3> HIDE DEF r
    <3> QED BY <3>2, <3>3, Writing
  <2>3. CASE store' = store
    BY <2>3 DEF AdmitsNone
  <2> QED BY <2>1, <2>2, <2>3
          DEF Environment, markInactive, Progress, UserRemoves, UserAdds, Crash
<1>2. \/ UNCHANGED <<pc, job, rec, reg>>
      \/ \A t \in Task : pc'[t] \notin PrepareIn
  BY DEF Environment, setKept, renew, markInactive, Progress, UserRemoves, UserAdds, Crash,
         PrepareIn, BeforeTryPc, TryPc
<1>3. \A o \in Origin : Cardinality(Admitted(o)') <= Cap
  <2> SUFFICES ASSUME NEW o \in Origin PROVE Cardinality(Admitted(o)') <= Cap
    OBVIOUS
  <2>1. Admitted(o)' \subseteq Admitted(o) /\ Admitted(o) \subseteq Hash
    BY <1>1 DEF Admitted, AdmitsNone
  <2>2. Cardinality(Admitted(o)) <= Cap
    BY DEF AInv
  <2> QED BY <2>1, <2>2, Fewer, BoundAssumption
<1>4. ASSUME NEW t \in Task PROVE Seated(t)'
  <2>1. CASE pc'[t] \notin PrepareIn
    BY <2>1, Standing
  <2>2. CASE UNCHANGED <<pc, job, rec, reg>>
    <3>1. Seated(t)
      BY DEF AInv
    <3> DEFINE S == Admitted(AdmitOrigin(t)) \ {job[t].hash}
    <3>2. S' \subseteq S /\ S \subseteq Hash
      BY <1>1, <2>2 DEF Admitted, AdmitsNone, AdmitOrigin
    <3>3. pc[t] = "p_space" => Cardinality(S) < Cap
      BY <3>1 DEF Seated
    <3> HIDE DEF S
    <3>4. pc[t] = "p_space" => Cardinality(S') < Cap
      BY <3>2, <3>3, Fewer, BoundAssumption
    <3> USE DEF S
    <3> QED BY <2>2, <3>1, <3>4 DEF Seated, AllowSelect
  <2> QED BY <1>2, <2>1, <2>2
<1> QED BY <1>3, <1>4 DEF AInv

\* The counting of every step holds.
THEOREM AdmissionInvariant == Spec => []AInv
<1>1. Init => AInv
  <2> SUFFICES ASSUME Init PROVE AInv
    OBVIOUS
  <2>1. \A t \in Task : Seated(t)
    BY DEF Init, Seated, TryPc
  <2>2. \A o \in Origin : Admitted(o) = {}
    BY DEF Init, Admitted
  <2> QED BY <2>1, <2>2, FS_EmptySet, BoundAssumption DEF AInv
<1>2. IInv /\ OInv /\ AInv /\ [Next]_vars => AInv'
  <2> SUFFICES ASSUME IInv, OInv, AInv, [Next]_vars PROVE AInv'
    OBVIOUS
  <2>1. CASE \E t \in Task : Prepare(t) \/ Delete(t) \/ Sweep(t)
    BY <2>1, PrepareCounts, DeletionCounts
  <2>2. CASE Environment
    BY <2>2, EnvironmentCounts
  <2>3. CASE UNCHANGED vars
    BY <2>3 DEF vars, AInv, Seated, Admitted, AdmitOrigin, AllowSelect
  <2> QED BY <2>1, <2>2, <2>3 DEF Next
<1> QED BY <1>1, <1>2, InductiveInvariant, OwnershipInvariant, PTL DEF Spec

\* No more of one origin's records than the limit are ever admitted at once, for
\* any number of requests between their counting and their registration.
THEOREM AdmissionsAreCapped == Spec => []AdmissionsWithinCap
<1>1. AInv => AdmissionsWithinCap
  BY DEF AInv, Admitted, AdmissionsWithinCap
<1> QED BY <1>1, AdmissionInvariant, PTL
=============================================================================
