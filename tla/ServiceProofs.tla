---------------------------- MODULE ServiceProofs ----------------------------
(***************************************************************************)
(* For any titles, clients, limits and numbers of faults: the types of     *)
(* Service, that a preview's torrent goes away again, and that no title    *)
(* stands on one.                                                          *)
(*                                                                         *)
(* The markers tell the torrents apart: a record's marker was never given  *)
(* to a probe, and a probe's to nothing else (Marks).  A preview that has  *)
(* its torrent in the backend holds the lock of the hash all along, so no  *)
(* record of it appears meanwhile and nobody else submits one (Place).     *)
(***************************************************************************)
EXTENDS Service, TLAPS

ProbingPc == {"probeSubmit", "probeWait", "probeFetch", "clean", "cleanAgain"}
InsidePc == {"submit", "prepare", "delete2"} \cup ProbingPc
NowherePc == {"idle", "admit", "retry"}

\* Where a call is, what it holds and what it may rely on.
Place(p) == LET c == call[p] IN
  /\ c.pc \notin NowherePc => c.h \in Hash
  /\ c.op = "preview" <=> c.pc \in ProbingPc \cup {"probe"}
  /\ c.pc \in InsidePc => lock[c.h] = p
  /\ c.pc \in {"submit", "prepare"} => store[c.h] # None
  /\ c.pc = "probe" => c.marker = 0
  /\ c.pc \in ProbingPc => c.marker \in probes /\ ~Visible(c.h)
  /\ c.pc = "probeSubmit" => torrent[c.h] = None \/ torrent[c.h].marker # c.marker

\* Markers are issued once.
Marks == /\ \A h \in Hash : store[h] # None => store[h].marker <= issued /\ store[h].marker \notin probes
         /\ \A h \in Hash : torrent[h] # None => torrent[h].marker <= issued
         /\ probes \subseteq 1..issued

\* The inductive invariant.
IInv == /\ TypeOK
        /\ Marks
        /\ \A p \in Proc : Place(p)
        /\ ProbesGoAway
-----------------------------------------------------------------------------
\* A torrent that has no new marker of ours.
Tame(h) == \/ torrent'[h] = None
           \/ torrent'[h].marker = 0
           \/ torrent[h] # None /\ torrent'[h].marker = torrent[h].marker

\* A probe in the backend is looked after, or was left.
Accounted(h) ==
  torrent[h] # None /\ torrent[h].marker \in probes =>
    \/ \E p \in Proc : call[p].op = "preview" /\ call[p].h = h /\ call[p].marker = torrent[h].marker
    \/ torrent[h].marker \in left

\* What p leaves alone: the other calls, and the hashes that are locked by them.
Frame(p) ==
  /\ \A q \in Proc \ {p} : call'[q] = call[q]
  /\ probes \subseteq probes' /\ left \subseteq left'
  /\ \A h \in Hash : \/ lock[h] \in {None, p}
                     \/ store'[h] = store[h] /\ lock'[h] = lock[h] /\ Tame(h)

\* A step of one call keeps what the others rely on.
LEMMA OthersKeep ==
  ASSUME IInv, NEW p, Frame(p)
  PROVE  \A q \in Proc \ {p} : Place(q)'
<1> SUFFICES ASSUME NEW q \in Proc \ {p} PROVE Place(q)'
  OBVIOUS
<1>1. Place(q) /\ call'[q] = call[q] /\ call[q] \in Call
  BY DEF IInv, Frame, TypeOK
<1>2. CASE call[q].pc \in InsidePc
  <2>1. call[q].h \in Hash /\ lock[call[q].h] = q /\ q # None /\ q # p
    BY <1>1, <1>2, ServiceAssumption DEF Place, InsidePc, ProbingPc, NowherePc, Proc
  <2>2. /\ store'[call[q].h] = store[call[q].h] /\ lock'[call[q].h] = lock[call[q].h]
        /\ Tame(call[q].h)
    BY <2>1 DEF Frame
  <2>3. call[q].pc \in ProbingPc => call[q].marker \in probes' /\ call[q].marker # 0
    <3>1. 0 \notin probes /\ probes \subseteq probes'
      BY ServiceAssumption DEF IInv, TypeOK, Frame
    <3>2. call[q].pc \in ProbingPc => call[q].marker \in probes
      BY <1>1 DEF Place
    <3> QED BY <3>1, <3>2
  <2>4. Visible(call[q].h)' = Visible(call[q].h)
    BY <1>1, <2>2 DEF Visible, Life
  <2> QED BY <1>1, <1>2, <2>1, <2>2, <2>3, <2>4
          DEF Place, InsidePc, ProbingPc, NowherePc, Tame
<1>3. CASE call[q].pc \notin InsidePc
  BY <1>1, <1>3 DEF Place, InsidePc, ProbingPc
<1> QED BY <1>2, <1>3

\* What keeps ProbesGoAway: no torrent gets a probe's marker but by a preview that
\* goes on, and a preview ends without its torrent.
LEMMA ProbesStay ==
  ASSUME IInv, NEW p \in Proc, Frame(p),
         probes' \subseteq probes \cup {issued + 1},
         \A h \in Hash : Tame(h) \/ Accounted(h)',
         call[p].op = "preview" =>
           \/ call'[p].op = "preview" /\ call'[p].h = call[p].h /\ call'[p].marker = call[p].marker
           \/ call[p].marker = 0
           \/ call[p].marker \in left'
           \/ torrent'[call[p].h] = None
           \/ torrent'[call[p].h].marker # call[p].marker
  PROVE  ProbesGoAway'
<1> SUFFICES ASSUME NEW h \in Hash PROVE Accounted(h)'
  BY DEF ProbesGoAway, Probe, Previewed, Accounted
<1> SUFFICES ASSUME Tame(h), torrent'[h] # None, torrent'[h].marker \in probes'
             PROVE  Accounted(h)'
  BY DEF Accounted
<1>1. issued \in Nat /\ probes \subseteq 1..issued
  BY ServiceAssumption DEF IInv, TypeOK, Marks
<1>2. torrent'[h].marker # 0
  BY <1>1
<1>3. torrent[h] # None /\ torrent'[h].marker = torrent[h].marker /\ torrent[h].marker <= issued
  BY <1>2 DEF Tame, IInv, Marks
<1>4. torrent[h].marker \in probes
  <2>1. torrent[h].marker \in probes \cup {issued + 1}
    BY <1>3
  <2>2. torrent[h].marker # issued + 1
    BY <1>1, <1>3
  <2> QED BY <2>1, <2>2
<1>5. Accounted(h)
  BY DEF IInv, ProbesGoAway, Probe, Previewed, Accounted
<1>6. CASE torrent[h].marker \in left
  BY <1>3, <1>6 DEF Frame, Accounted
<1>7. CASE torrent[h].marker \notin left
  <2>1. PICK q \in Proc : call[q].op = "preview" /\ call[q].h = h /\ call[q].marker = torrent[h].marker
    BY <1>3, <1>4, <1>5, <1>7 DEF Accounted
  <2>2. CASE q # p
    BY <1>3, <2>1, <2>2 DEF Frame, Accounted
  <2>3. CASE q = p
    BY <1>2, <1>3, <2>1, <2>3 DEF Accounted
  <2> QED BY <2>2, <2>3
<1> QED BY <1>6, <1>7

\* What is left to show of a step.
LEMMA CallStep ==
  ASSUME IInv, NEW p \in Proc, Frame(p), TypeOK', Marks', Place(p)',
         probes' \subseteq probes \cup {issued + 1},
         \A h \in Hash : Tame(h) \/ Accounted(h)',
         call[p].op = "preview" =>
           \/ call'[p].op = "preview" /\ call'[p].h = call[p].h /\ call'[p].marker = call[p].marker
           \/ call[p].marker = 0
           \/ call[p].marker \in left'
           \/ torrent'[call[p].h] = None
           \/ torrent'[call[p].h].marker # call[p].marker
  PROVE  IInv'
<1>1. \A q \in Proc : Place(q)'
  BY OthersKeep
<1>2. ProbesGoAway'
  BY ProbesStay
<1> QED BY <1>1, <1>2 DEF IInv
-----------------------------------------------------------------------------
\* What a call that is somewhere was called with.
LEMMA Here ==
  ASSUME IInv, NEW p \in Proc, call[p].pc \notin NowherePc
  PROVE  /\ call[p] \in Call /\ call[p].h \in Hash
         /\ store[call[p].h] \in Record \cup {None}
         /\ torrent[call[p].h] \in Torrent \cup {None}
<1>1. call[p] \in Call /\ call[p].h \in Hash
  BY DEF IInv, TypeOK, Place
<1> QED BY <1>1 DEF IInv, TypeOK

\* A call that ends or goes on elsewhere, outside of every section.
LEMMA GoesElsewhere ==
  ASSUME IInv, NEW p \in Proc, NEW c \in Call, Becomes(p, c), c.pc \notin InsidePc,
         c.pc \notin NowherePc => c.h \in Hash,
         c.op = "preview" <=> c.pc = "probe",
         c.pc = "probe" => c.marker = 0
  PROVE  /\ call' \in [Proc -> Call]
         /\ \A q \in Proc \ {p} : call'[q] = call[q]
         /\ call'[p] = c
         /\ Place(p)'
<1>1. /\ call' \in [Proc -> Call]
      /\ \A q \in Proc \ {p} : call'[q] = call[q]
      /\ call'[p] = c
  BY DEF IInv, TypeOK, Becomes
<1> QED BY <1>1 DEF Place, InsidePc, ProbingPc, NowherePc

\* A step that changes nothing else.
LEMMA LooksOnly ==
  ASSUME IInv, NEW p \in Proc, NEW c \in Call, Becomes(p, c), c.pc \notin InsidePc,
         c.pc \notin NowherePc => c.h \in Hash,
         c.op = "preview" <=> c.pc = "probe",
         c.pc = "probe" => c.marker = 0,
         call[p].op = "preview" => call[p].marker = 0,
         UNCHANGED <<store, torrent, lock, issued, probes, left, faults>>
  PROVE  IInv'
<1>1. /\ call' \in [Proc -> Call]
      /\ \A q \in Proc \ {p} : call'[q] = call[q]
      /\ Place(p)'
  BY GoesElsewhere
<1>2. Frame(p) /\ \A h \in Hash : Tame(h)
  BY <1>1 DEF Frame, Tame
<1>3. TypeOK' /\ Marks'
  BY <1>1 DEF IInv, TypeOK, Marks
<1> QED BY <1>1, <1>2, <1>3, CallStep

LEMMA IdleIsCall == Idle \in Call
BY ServiceAssumption DEF Idle, Call

\* How a preparation ends.
LEMMA Ending ==
  ASSUME IInv, NEW p \in Proc, call[p].op # "preview", NEW ok \in BOOLEAN, After(p, ok)
  PROVE  /\ call' \in [Proc -> Call]
         /\ \A q \in Proc \ {p} : call'[q] = call[q]
         /\ Place(p)'
<1> DEFINE c == IF call[p].stage = "own"
                THEN IF ok /\ call[p].op # "select" THEN [call[p] EXCEPT !.pc = "admit"] ELSE Idle
                ELSE IF p = Tick THEN [call[p] EXCEPT !.pc = "retry"] ELSE Idle
<1>1. call[p] \in Call
  BY DEF IInv, TypeOK
<1>2. /\ [call[p] EXCEPT !.pc = "admit"] \in Call
      /\ [call[p] EXCEPT !.pc = "retry"] \in Call
      /\ [call[p] EXCEPT !.pc = "admit"].pc = "admit" /\ [call[p] EXCEPT !.pc = "admit"].op = call[p].op
      /\ [call[p] EXCEPT !.pc = "retry"].pc = "retry" /\ [call[p] EXCEPT !.pc = "retry"].op = call[p].op
      /\ Idle.pc = "idle" /\ Idle.op = "none"
  BY <1>1 DEF Call, Idle
<1>3. c \in Call /\ c.pc \in NowherePc /\ c.op # "preview"
  BY <1>2, IdleIsCall DEF NowherePc
<1>4. Becomes(p, c)
  BY DEF After
<1> QED BY <1>3, <1>4, GoesElsewhere DEF NowherePc, InsidePc, ProbingPc
-----------------------------------------------------------------------------
LEMMA StartsSafe ==
  ASSUME IInv, NEW p \in Client, NEW op \in Ops[p], NEW h \in Hash, Starts(p, op, h)
  PROVE  IInv'
<1> DEFINE c == [Idle EXCEPT !.op = op, !.h = h,
                   !.pc = CASE op = "remove" -> "delete" [] op = "preview" -> "probe"
                            [] op \in {"pause", "resume"} -> "run" [] OTHER -> "ensure",
                   !.marker = IF op = "select" THEN store[h].marker ELSE 0]
<1>1. op \in {"add", "queueAdd", "select", "remove", "preview", "pause", "resume"}
  BY ServiceAssumption
<1>2. p \in Proc /\ Becomes(p, c) /\ call[p].pc = "idle"
      /\ UNCHANGED <<store, torrent, lock, issued, probes, left, faults>>
  BY DEF Starts, Proc
<1>3. op = "select" => store[h].marker \in 0..MaxMarker
  BY <1>1 DEF Starts, Visible, Life, IInv, TypeOK, Record
<1>4. 0 \in 0..MaxMarker
  BY ServiceAssumption
<1>5. /\ c \in Call /\ c.h = h /\ c.op = op
      /\ c.pc \in {"delete", "probe", "run", "ensure"}
      /\ c.op = "preview" <=> c.pc = "probe"
      /\ c.pc = "probe" => c.marker = 0
  BY <1>1, <1>3, <1>4, IdleIsCall DEF Idle, Call
<1>6. call[p].op # "preview"
  BY <1>2 DEF IInv, Place, ProbingPc
<1> HIDE DEF c
<1> QED BY <1>2, <1>5, <1>6, LooksOnly DEF InsidePc, ProbingPc

LEMMA TickSafe ==
  ASSUME IInv, TickStarts \/ TickRetries
  PROVE  IInv'
<1>1. Tick \in Proc /\ call[Tick] \in Call
  BY DEF Proc, IInv, TypeOK
<1>2. call[Tick].op # "preview"
  BY <1>1 DEF TickStarts, TickRetries, IInv, Place, ProbingPc
<1>3. CASE TickStarts
  <2> DEFINE c == [Idle EXCEPT !.op = "tick", !.pc = "admit"]
  <2>1. c \in Call /\ c.pc = "admit" /\ c.op = "tick"
    BY IdleIsCall DEF Idle, Call
  <2>2. Becomes(Tick, c) /\ UNCHANGED <<store, torrent, lock, issued, probes, left, faults>>
    BY <1>3 DEF TickStarts
  <2> HIDE DEF c
  <2> QED BY <1>1, <1>2, <2>1, <2>2, LooksOnly DEF InsidePc, ProbingPc, NowherePc
<1>4. CASE TickRetries
  <2>1. UNCHANGED <<store, torrent, lock, issued, probes, left, faults>>
    BY <1>4 DEF TickRetries
  <2>2. CASE Becomes(Tick, Idle)
    <3>1. Idle.pc = "idle" /\ Idle.op = "none"
      BY DEF Idle
    <3> QED BY <1>1, <1>2, <2>1, <2>2, <3>1, IdleIsCall, LooksOnly DEF InsidePc, ProbingPc, NowherePc
  <2>3. CASE \E h \in Due : Becomes(Tick, [call[Tick] EXCEPT !.h = h, !.pc = "ensure",
                                              !.stage = "retry", !.tried = @ \cup {h}])
    <3>1. PICK h \in Due : Becomes(Tick, [call[Tick] EXCEPT !.h = h, !.pc = "ensure",
                                              !.stage = "retry", !.tried = @ \cup {h}])
      BY <2>3
    <3> DEFINE c == [call[Tick] EXCEPT !.h = h, !.pc = "ensure",
                                       !.stage = "retry", !.tried = @ \cup {h}]
    <3>2. h \in Hash
      BY DEF Due
    <3>3. c \in Call /\ c.pc = "ensure" /\ c.op # "preview" /\ c.h = h
      <4>1. PICK r : r = call[Tick].tried \cup {h}
        OBVIOUS
      <4>2. r \subseteq Hash
        BY <1>1, <3>2, <4>1 DEF Call
      <4>3. c = [call[Tick] EXCEPT !.h = h, !.pc = "ensure", !.stage = "retry", !.tried = r]
        BY <4>1
      <4> HIDE DEF c
      <4> QED BY <1>1, <1>2, <3>2, <4>2, <4>3 DEF Call
    <3>4. Becomes(Tick, c)
      BY <3>1
    <3> HIDE DEF c
    <3> QED BY <1>1, <1>2, <2>1, <3>2, <3>3, <3>4, LooksOnly DEF InsidePc, ProbingPc
  <2> QED BY <1>4, <2>2, <2>3 DEF TickRetries
<1> QED BY <1>3, <1>4

LEMMA AdmitsSafe ==
  ASSUME IInv, NEW p \in Proc, Admits(p)
  PROVE  IInv'
<1>1. call[p] \in Call /\ call[p].op # "preview"
      /\ UNCHANGED <<store, torrent, lock, issued, probes, left, faults>>
  BY DEF Admits, IInv, TypeOK, Place, ProbingPc
<1>2. CASE Becomes(p, IF p = Tick THEN [call[p] EXCEPT !.pc = "retry"] ELSE Idle)
  <2> DEFINE c == IF p = Tick THEN [call[p] EXCEPT !.pc = "retry"] ELSE Idle
  <2>1. c \in Call /\ c.pc \in NowherePc /\ c.op # "preview"
    BY <1>1, IdleIsCall DEF Call, Idle, NowherePc
  <2>2. Becomes(p, c)
    BY <1>2
  <2> HIDE DEF c
  <2> QED BY <1>1, <2>1, <2>2, LooksOnly DEF InsidePc, ProbingPc, NowherePc
<1>3. CASE \E h \in Hash : Becomes(p, [call[p] EXCEPT !.h = h, !.pc = "ensure", !.stage = "admit"])
  <2>1. PICK h \in Hash : Becomes(p, [call[p] EXCEPT !.h = h, !.pc = "ensure", !.stage = "admit"])
    BY <1>3
  <2> DEFINE c == [call[p] EXCEPT !.h = h, !.pc = "ensure", !.stage = "admit"]
  <2>2. c \in Call /\ c.pc = "ensure" /\ c.op # "preview" /\ c.h = h
    <3>1. PICK q : q = call[p]
      OBVIOUS
    <3>2. q \in Call /\ q.op # "preview"
      BY <1>1, <3>1
    <3>3. c = [q EXCEPT !.h = h, !.pc = "ensure", !.stage = "admit"]
      BY <3>1
    <3> HIDE DEF c
    <3> QED BY <3>2, <3>3 DEF Call
  <2>3. Becomes(p, c)
    BY <2>1
  <2> HIDE DEF c
  <2> QED BY <1>1, <2>2, <2>3, LooksOnly DEF InsidePc, ProbingPc
<1> QED BY <1>2, <1>3 DEF Admits

LEMMA EnsureRefusedSafe ==
  ASSUME IInv, NEW p \in Proc, EnsureRefused(p)
  PROVE  IInv'
<1>1. call[p].op # "preview" /\ After(p, FALSE)
      /\ UNCHANGED <<store, torrent, lock, issued, probes, left, faults>>
  BY DEF EnsureRefused, IInv, TypeOK, Place, ProbingPc
<1>2. /\ call' \in [Proc -> Call]
      /\ \A q \in Proc \ {p} : call'[q] = call[q]
      /\ Place(p)'
  BY <1>1, Ending
<1>3. Frame(p) /\ \A h \in Hash : Tame(h)
  BY <1>1, <1>2 DEF Frame, Tame
<1>4. TypeOK' /\ Marks'
  BY <1>1, <1>2 DEF IInv, TypeOK, Marks
<1> QED BY <1>1, <1>2, <1>3, <1>4, CallStep
-----------------------------------------------------------------------------
\* Marks and types when a record is written, with its own marker or the next one.
LEMMA Writes ==
  ASSUME IInv, NEW h \in Hash, NEW r \in Record, Upsert(h, r), UNCHANGED <<torrent, probes>>,
         \/ store[h] # None /\ r.marker = store[h].marker /\ UNCHANGED issued
         \/ issued < MaxMarker /\ r.marker = issued + 1 /\ issued' = issued + 1
  PROVE  /\ Marks'
         /\ store' \in [Hash -> Record \cup {None}]
         /\ issued' \in 0..MaxMarker
         /\ store'[h] = r /\ r # None
         /\ \A g \in Hash \ {h} : store'[g] = store[g]
<1>1. /\ store' \in [Hash -> Record \cup {None}]
      /\ store'[h] = r /\ r # None
      /\ \A g \in Hash \ {h} : store'[g] = store[g]
  BY NoneAssumption DEF IInv, TypeOK, Upsert
<1>2. issued' \in 0..MaxMarker /\ issued \in Nat /\ issued <= issued' /\ issued' \in Nat
  BY ServiceAssumption DEF IInv, TypeOK
<1>3. \A g \in Hash : store'[g] # None => store'[g].marker <= issued' /\ store'[g].marker \notin probes
  <2> SUFFICES ASSUME NEW g \in Hash, store'[g] # None
               PROVE  store'[g].marker <= issued' /\ store'[g].marker \notin probes
    OBVIOUS
  <2>1. CASE g = h /\ store[h] # None /\ r.marker = store[h].marker /\ UNCHANGED issued
    BY <1>1, <2>1 DEF IInv, Marks
  <2>2. CASE g = h /\ r.marker = issued + 1 /\ issued' = issued + 1
    BY <1>1, <1>2, <2>2 DEF IInv, Marks
  <2>3. CASE g # h
    <3>1. store[g] # None /\ store'[g].marker = store[g].marker /\ store[g].marker \in Nat
      BY <1>1, <2>3, ServiceAssumption DEF IInv, TypeOK, Record
    <3> QED BY <1>2, <3>1 DEF IInv, Marks
  <2> QED BY <2>1, <2>2, <2>3
<1>4. \A g \in Hash : torrent'[g] # None => torrent'[g].marker <= issued'
  <2> SUFFICES ASSUME NEW g \in Hash, torrent[g] # None PROVE torrent[g].marker <= issued'
    OBVIOUS
  <2>1. torrent[g].marker <= issued /\ torrent[g].marker \in Nat
    BY ServiceAssumption DEF IInv, TypeOK, Torrent, Marks
  <2> QED BY <1>2, <2>1
<1>5. probes' \subseteq 1..issued'
  BY <1>2 DEF IInv, Marks
<1> QED BY <1>1, <1>2, <1>3, <1>4, <1>5 DEF Marks

\* What an admission writes.
LEMMA KeptIsRecord ==
  ASSUME IInv, NEW h \in Hash, Issues(h), NEW l \in {"queued", "registering"}
  PROVE  LET r == [Kept(h) EXCEPT !.life = l]
         IN  /\ r \in Record
             /\ \/ store[h] # None /\ r.marker = store[h].marker /\ UNCHANGED issued
                \/ issued < MaxMarker /\ r.marker = issued + 1 /\ issued' = issued + 1
<1>1. CASE store[h] = None
  <2>1. issued + 1 \in 1..MaxMarker /\ issued < MaxMarker /\ issued' = issued + 1
    BY <1>1, ServiceAssumption DEF Issues, IInv, TypeOK
  <2> QED BY <1>1, <2>1 DEF Kept, Record
<1>2. CASE store[h] # None
  <2>1. store[h] \in Record /\ UNCHANGED issued
    BY <1>2 DEF IInv, TypeOK, Issues
  <2> QED BY <1>2, <2>1 DEF Kept, Record
<1> QED BY <1>1, <1>2

LEMMA EnsureConflictSafe ==
  ASSUME IInv, NEW p \in Proc, EnsureConflict(p)
  PROVE  IInv'
<1> DEFINE h == call[p].h
<1> DEFINE r == [store[h] EXCEPT !.life = "conflict"]
<1>1. /\ call[p].pc = "ensure" /\ lock[h] = None /\ Upsert(h, r) /\ After(p, FALSE)
      /\ UNCHANGED <<torrent, lock, issued, probes, left, faults>>
      /\ torrent[h] # None
      /\ store[h] # None
  BY DEF EnsureConflict, Refused
<1>2. call[p].op # "preview" /\ h \in Hash /\ store[h] \in Record
  BY <1>1, Here DEF IInv, Place, ProbingPc, NowherePc
<1>3. r \in Record /\ r.marker = store[h].marker
  BY <1>2 DEF Record
<1>4. /\ Marks' /\ store' \in [Hash -> Record \cup {None}]
      /\ \A g \in Hash \ {h} : store'[g] = store[g]
  BY <1>1, <1>2, <1>3, Writes
<1>5. /\ call' \in [Proc -> Call]
      /\ \A q \in Proc \ {p} : call'[q] = call[q]
      /\ Place(p)'
  BY <1>1, <1>2, Ending
<1>6. Frame(p) /\ \A g \in Hash : Tame(g)
  BY <1>1, <1>4, <1>5 DEF Frame, Tame
<1>7. TypeOK'
  BY <1>1, <1>4, <1>5 DEF IInv, TypeOK
<1> QED BY <1>1, <1>2, <1>4, <1>5, <1>6, <1>7, CallStep

LEMMA EnsureQueuesSafe ==
  ASSUME IInv, NEW p \in Proc, EnsureQueues(p)
  PROVE  IInv'
<1> DEFINE h == call[p].h
<1> DEFINE r == [Kept(h) EXCEPT !.life = "queued"]
<1>1. /\ call[p].pc = "ensure" /\ lock[h] = None /\ Issues(h) /\ Upsert(h, r) /\ After(p, FALSE)
      /\ UNCHANGED <<torrent, lock, probes, left, faults>>
  BY DEF EnsureQueues
<1>2. call[p].op # "preview" /\ h \in Hash
  BY <1>1, Here DEF IInv, Place, ProbingPc, NowherePc
<1>3. /\ r \in Record
      /\ \/ store[h] # None /\ r.marker = store[h].marker /\ UNCHANGED issued
         \/ issued < MaxMarker /\ r.marker = issued + 1 /\ issued' = issued + 1
  BY <1>1, <1>2, KeptIsRecord
<1> HIDE DEF r
<1>4. /\ Marks' /\ store' \in [Hash -> Record \cup {None}] /\ issued' \in 0..MaxMarker
      /\ \A g \in Hash \ {h} : store'[g] = store[g]
  BY <1>1, <1>2, <1>3, Writes
<1>5. /\ call' \in [Proc -> Call]
      /\ \A q \in Proc \ {p} : call'[q] = call[q]
      /\ Place(p)'
  BY <1>1, <1>2, Ending
<1>6. Frame(p) /\ \A g \in Hash : Tame(g)
  BY <1>1, <1>4, <1>5 DEF Frame, Tame
<1>7. TypeOK'
  BY <1>1, <1>4, <1>5 DEF IInv, TypeOK
<1> QED BY <1>1, <1>2, <1>4, <1>5, <1>6, <1>7, CallStep

\* A call of a preparation or a deletion that goes on to another of its steps.
LEMMA GoesOn ==
  ASSUME IInv, NEW p \in Proc, NEW pc, Goes(p, pc), call[p].op # "preview",
         pc \in {"submit", "prepare", "delete2", "admit"}, call[p].h \in Hash
  PROVE  /\ call' \in [Proc -> Call]
         /\ \A q \in Proc \ {p} : call'[q] = call[q]
         /\ call'[p].pc = pc /\ call'[p].h = call[p].h /\ call'[p].op = call[p].op
         /\ lock'[call[p].h] = p /\ store'[call[p].h] # None => Place(p)'
<1> DEFINE c == [call[p] EXCEPT !.pc = pc]
<1>1. call[p] \in Call
  BY DEF IInv, TypeOK
<1>2. c \in Call /\ c.pc = pc /\ c.h = call[p].h /\ c.op = call[p].op
  BY <1>1 DEF Call
<1>3. call' = [call EXCEPT ![p] = c]
  BY DEF Goes, Becomes
<1> HIDE DEF c
<1>4. call'[p] = c /\ \A q \in Proc \ {p} : call'[q] = call[q]
  BY <1>3 DEF IInv, TypeOK
<1>5. call' \in [Proc -> Call]
  BY <1>2, <1>3 DEF IInv, TypeOK
<1> QED BY <1>2, <1>4, <1>5 DEF Place, InsidePc, ProbingPc, NowherePc

LEMMA EnsureRegistersSafe ==
  ASSUME IInv, NEW p \in Proc, EnsureRegisters(p)
  PROVE  IInv'
<1> DEFINE h == call[p].h
<1> DEFINE r == [Kept(h) EXCEPT !.life = "registering"]
<1>1. /\ call[p].pc = "ensure" /\ Takes(p, h) /\ Issues(h) /\ Upsert(h, r) /\ Goes(p, "submit")
      /\ UNCHANGED <<torrent, probes, left, faults>>
  BY DEF EnsureRegisters
<1>2. call[p].op # "preview" /\ h \in Hash
  BY <1>1, Here DEF IInv, Place, ProbingPc, NowherePc
<1>3. /\ r \in Record
      /\ \/ store[h] # None /\ r.marker = store[h].marker /\ UNCHANGED issued
         \/ issued < MaxMarker /\ r.marker = issued + 1 /\ issued' = issued + 1
  BY <1>1, <1>2, KeptIsRecord
<1> HIDE DEF r
<1>4. /\ Marks' /\ store' \in [Hash -> Record \cup {None}] /\ issued' \in 0..MaxMarker
      /\ store'[h] # None
      /\ \A g \in Hash \ {h} : store'[g] = store[g]
  BY <1>1, <1>2, <1>3, Writes
<1>5. /\ lock[h] = None /\ lock'[h] = p /\ lock' \in [Hash -> Proc \cup {None}]
      /\ \A g \in Hash \ {h} : lock'[g] = lock[g]
  BY <1>1, <1>2 DEF Takes, IInv, TypeOK
<1>6. /\ call' \in [Proc -> Call]
      /\ \A q \in Proc \ {p} : call'[q] = call[q]
      /\ Place(p)'
  BY <1>1, <1>2, <1>4, <1>5, GoesOn
<1>7. Frame(p) /\ \A g \in Hash : Tame(g)
  BY <1>1, <1>4, <1>5, <1>6 DEF Frame, Tame
<1>8. TypeOK'
  BY <1>1, <1>4, <1>5, <1>6 DEF IInv, TypeOK
<1> QED BY <1>1, <1>2, <1>4, <1>6, <1>7, <1>8, CallStep

LEMMA EnsureFindsSafe ==
  ASSUME IInv, NEW p \in Proc, EnsureFinds(p)
  PROVE  IInv'
<1> DEFINE h == call[p].h
<1>1. /\ call[p].pc = "ensure" /\ Takes(p, h) /\ store[h] # None /\ Goes(p, "prepare")
      /\ UNCHANGED <<store, torrent, issued, probes, left, faults>>
  BY DEF EnsureFinds, Owned
<1>2. call[p].op # "preview" /\ h \in Hash
  BY <1>1, Here DEF IInv, Place, ProbingPc, NowherePc
<1>3. /\ lock[h] = None /\ lock'[h] = p /\ lock' \in [Hash -> Proc \cup {None}]
      /\ \A g \in Hash \ {h} : lock'[g] = lock[g]
  BY <1>1, <1>2 DEF Takes, IInv, TypeOK
<1>4. /\ call' \in [Proc -> Call]
      /\ \A q \in Proc \ {p} : call'[q] = call[q]
      /\ Place(p)'
  BY <1>1, <1>2, <1>3, GoesOn
<1>5. Frame(p) /\ \A g \in Hash : Tame(g)
  BY <1>1, <1>3, <1>4 DEF Frame, Tame
<1>6. TypeOK' /\ Marks'
  BY <1>1, <1>3, <1>4 DEF IInv, TypeOK, Marks
<1> QED BY <1>1, <1>2, <1>4, <1>5, <1>6, CallStep
-----------------------------------------------------------------------------
\* What the backend has of a submission: its marker, or what it had.
LEMMA SubmittedIs ==
  ASSUME IInv, NEW h \in Hash, NEW m \in 1..MaxMarker, Submitted(h, m)
  PROVE  /\ torrent' \in [Hash -> Torrent \cup {None}]
         /\ torrent'[h] # None /\ torrent'[h].marker = m
         /\ \A g \in Hash \ {h} : torrent'[g] = torrent[g]
<1>1. m \in 0..MaxMarker
  BY ServiceAssumption
<1>2. CASE torrent[h] = None
  <2>1. PICK known \in BOOLEAN :
          torrent' = [torrent EXCEPT ![h] = [marker |-> m, known |-> known, whole |-> FALSE, running |-> FALSE]]
    BY <1>2 DEF Submitted
  <2>2. [marker |-> m, known |-> known, whole |-> FALSE, running |-> FALSE] \in Torrent
    BY <1>1 DEF Torrent
  <2> QED BY <2>1, <2>2, NoneAssumption DEF IInv, TypeOK
<1>3. CASE torrent[h] # None
  <2> DEFINE r == [torrent[h] EXCEPT !.marker = m]
  <2>1. torrent' = [torrent EXCEPT ![h] = r] /\ torrent[h] \in Torrent
    BY <1>3 DEF Submitted, IInv, TypeOK
  <2>2. r \in Torrent /\ r.marker = m
    BY <1>1, <2>1 DEF Torrent
  <2> HIDE DEF r
  <2> QED BY <2>1, <2>2, NoneAssumption DEF IInv, TypeOK
<1> QED BY <1>2, <1>3

\* A preparation gives its section back.
LEMMA FreesLock ==
  ASSUME IInv, NEW h \in Hash, Frees(h)
  PROVE  /\ lock' \in [Hash -> Proc \cup {None}]
         /\ \A g \in Hash \ {h} : lock'[g] = lock[g]
BY DEF IInv, TypeOK, Frees

LEMMA FaultIs ==
  ASSUME IInv, Fault
  PROVE  faults' \in 0..MaxFaults
BY ServiceAssumption DEF IInv, TypeOK, Fault

\* A preparation inside the section.
LEMMA Inside ==
  ASSUME IInv, NEW p \in Proc, call[p].pc \in {"submit", "prepare", "delete2"}
  PROVE  /\ call[p].h \in Hash /\ lock[call[p].h] = p /\ call[p].op # "preview"
         /\ call[p].pc # "delete2" => store[call[p].h] \in Record
BY Here DEF IInv, Place, InsidePc, ProbingPc, NowherePc

LEMMA SubmitsSafe ==
  ASSUME IInv, NEW p \in Proc, Submits(p)
  PROVE  IInv'
<1> DEFINE h == call[p].h
<1>1. /\ h \in Hash /\ lock[h] = p /\ call[p].op # "preview" /\ store[h] \in Record
      /\ UNCHANGED <<store, issued, probes, left>>
  BY Inside DEF Submits
<1>2. store[h] # None /\ store[h].marker \in 1..MaxMarker /\ store[h].marker <= issued /\ store[h].marker \notin probes
  BY <1>1, NoneAssumption DEF Record, IInv, Marks
<1>3. /\ torrent' \in [Hash -> Torrent \cup {None}]
      /\ \A g \in Hash \ {h} : torrent'[g] = torrent[g]
      /\ torrent'[h] = torrent[h] \/ (torrent'[h] # None /\ torrent'[h].marker = store[h].marker)
  <2>1. CASE Submitted(h, store[h].marker)
    BY <1>1, <1>2, <2>1, SubmittedIs
  <2>2. CASE UNCHANGED torrent
    BY <2>2 DEF IInv, TypeOK
  <2> QED BY <2>1, <2>2 DEF Submits
<1>4. /\ call' \in [Proc -> Call]
      /\ \A q \in Proc \ {p} : call'[q] = call[q]
      /\ Place(p)'
      /\ lock' \in [Hash -> Proc \cup {None}]
      /\ \A g \in Hash \ {h} : lock'[g] = lock[g]
      /\ faults' \in 0..MaxFaults
  <2>1. CASE Goes(p, "prepare") /\ UNCHANGED <<lock, faults>>
    BY <1>1, <1>2, <2>1, GoesOn DEF IInv, TypeOK
  <2>2. CASE Frees(h) /\ After(p, FALSE) /\ (Fault \/ UNCHANGED faults)
    <3>1. faults' \in 0..MaxFaults
      BY <2>2, FaultIs DEF IInv, TypeOK
    <3> QED BY <1>1, <2>2, <3>1, Ending, FreesLock
  <2> QED BY <2>1, <2>2 DEF Submits
<1>5. Frame(p)
  BY <1>1, <1>3, <1>4 DEF Frame, Tame
<1>6. \A g \in Hash : Tame(g) \/ Accounted(g)'
  BY <1>1, <1>2, <1>3 DEF Tame, Accounted
<1>7. TypeOK'
  BY <1>1, <1>3, <1>4 DEF IInv, TypeOK
<1>8. Marks'
  BY <1>1, <1>2, <1>3 DEF IInv, Marks
<1> QED BY <1>1, <1>4, <1>5, <1>6, <1>7, <1>8, CallStep

LEMMA MoreRefusedSafe ==
  ASSUME IInv, NEW p \in Proc, MoreRefused(p)
  PROVE  IInv'
<1> DEFINE h == call[p].h
<1>1. /\ h \in Hash /\ lock[h] = p /\ call[p].op # "preview" /\ Frees(h) /\ After(p, FALSE)
      /\ UNCHANGED <<store, torrent, issued, probes, left, faults>>
  BY Inside DEF MoreRefused
<1>2. /\ call' \in [Proc -> Call]
      /\ \A q \in Proc \ {p} : call'[q] = call[q]
      /\ Place(p)'
      /\ lock' \in [Hash -> Proc \cup {None}]
      /\ \A g \in Hash \ {h} : lock'[g] = lock[g]
  BY <1>1, Ending, FreesLock
<1>3. Frame(p) /\ \A g \in Hash : Tame(g)
  BY <1>1, <1>2 DEF Frame, Tame
<1>4. TypeOK' /\ Marks'
  BY <1>1, <1>2 DEF IInv, TypeOK, Marks
<1> QED BY <1>1, <1>2, <1>3, <1>4, CallStep

\* A torrent that is changed in its state only.
LEMMA Retouched ==
  ASSUME IInv, NEW h \in Hash, NEW b \in BOOLEAN, torrent[h] # None,
         \/ torrent' = [torrent EXCEPT ![h].whole = b]
         \/ torrent' = [torrent EXCEPT ![h].running = b]
  PROVE  /\ torrent' \in [Hash -> Torrent \cup {None}]
         /\ \A g \in Hash : Tame(g) /\ (torrent'[g] # None => torrent[g] # None /\ torrent'[g].marker = torrent[g].marker)
<1>1. torrent[h] \in Torrent
  BY DEF IInv, TypeOK
<1>2. /\ [torrent[h] EXCEPT !.whole = b] \in Torrent /\ [torrent[h] EXCEPT !.whole = b].marker = torrent[h].marker
      /\ [torrent[h] EXCEPT !.running = b] \in Torrent /\ [torrent[h] EXCEPT !.running = b].marker = torrent[h].marker
  BY <1>1 DEF Torrent
<1>3. PICK r \in Torrent : r.marker = torrent[h].marker /\ torrent' = [torrent EXCEPT ![h] = r]
  BY <1>2
<1> QED BY <1>3 DEF IInv, TypeOK, Tame

LEMMA MoreRegistersSafe ==
  ASSUME IInv, NEW p \in Proc, MoreRegisters(p)
  PROVE  IInv'
<1> DEFINE h == call[p].h
<1> DEFINE r == [store[h] EXCEPT !.life = "registering", !.more = TRUE]
<1>1. /\ h \in Hash /\ lock[h] = p /\ call[p].op # "preview" /\ store[h] \in Record
      /\ call[p].pc = "prepare" /\ torrent[h] # None /\ Upsert(h, r)
      /\ torrent' = [torrent EXCEPT ![h].whole = FALSE]
      /\ UNCHANGED <<lock, call, issued, probes, left, faults>>
  BY Inside DEF MoreRegisters
<1>2. r \in Record /\ r.marker = store[h].marker /\ store[h] # None
  BY <1>1, NoneAssumption DEF Record
<1> HIDE DEF r
<1>3. /\ store' \in [Hash -> Record \cup {None}] /\ store'[h] = r /\ r # None
      /\ \A g \in Hash \ {h} : store'[g] = store[g]
  BY <1>1, <1>2, NoneAssumption DEF IInv, TypeOK, Upsert
<1>4. /\ torrent' \in [Hash -> Torrent \cup {None}]
      /\ \A g \in Hash : Tame(g) /\ (torrent'[g] # None => torrent[g] # None /\ torrent'[g].marker = torrent[g].marker)
  BY <1>1, Retouched
<1>5. Marks'
  BY <1>1, <1>2, <1>3, <1>4 DEF IInv, Marks
<1>6. TypeOK'
  BY <1>1, <1>3, <1>4 DEF IInv, TypeOK
<1>7. Frame(p)
  BY <1>1, <1>3, <1>4 DEF Frame
<1>8. Place(p)'
  BY <1>1, <1>3 DEF IInv, Place, InsidePc, ProbingPc, NowherePc
<1> QED BY <1>1, <1>4, <1>5, <1>6, <1>7, <1>8, CallStep

LEMMA PreparesSafe ==
  ASSUME IInv, NEW p \in Proc, Prepares(p)
  PROVE  IInv'
<1> DEFINE h == call[p].h
<1>1. /\ h \in Hash /\ lock[h] = p /\ call[p].op # "preview" /\ store[h] \in Record
      /\ Frees(h) /\ UNCHANGED <<issued, probes, left>>
  BY Inside DEF Prepares
<1>2. store[h] # None
  BY <1>1, NoneAssumption
<1>3. PICK r \in Record : Upsert(h, r) /\ r.marker = store[h].marker
  <2>1. \A l \in {store[h].life, "managed"}, b \in BOOLEAN :
          LET r == [store[h] EXCEPT !.life = l, !.failed = b]
          IN  r \in Record /\ r.marker = store[h].marker
    BY <1>1 DEF Record
  <2>2. \E l \in {store[h].life, "managed"}, b \in BOOLEAN :
          Upsert(h, [store[h] EXCEPT !.life = l, !.failed = b])
    <3>1. \A b \in BOOLEAN : [store[h] EXCEPT !.failed = b] = [store[h] EXCEPT !.life = store[h].life, !.failed = b]
      BY <1>1 DEF Record
    <3>2. CASE Upsert(h, [store[h] EXCEPT !.failed = TRUE])
      BY <3>1, <3>2
    <3>3. CASE Upsert(h, [store[h] EXCEPT !.failed = FALSE])
      BY <3>1, <3>3
    <3>4. CASE Upsert(h, [store[h] EXCEPT !.life = "managed", !.failed = FALSE])
      BY <3>4
    <3> QED BY <3>2, <3>3, <3>4 DEF Prepares
  <2> QED BY <2>1, <2>2
<1>4. /\ store' \in [Hash -> Record \cup {None}] /\ store'[h] = r /\ r # None
      /\ \A g \in Hash \ {h} : store'[g] = store[g]
  BY <1>1, <1>3, NoneAssumption DEF IInv, TypeOK, Upsert
<1>5. /\ torrent' \in [Hash -> Torrent \cup {None}]
      /\ \A g \in Hash : Tame(g) /\ (torrent'[g] # None => torrent[g] # None /\ torrent'[g].marker = torrent[g].marker)
  <2>1. CASE UNCHANGED torrent
    BY <2>1 DEF IInv, TypeOK, Tame
  <2>2. CASE torrent[h] # None /\ torrent' = [torrent EXCEPT ![h].running = @ \/ ~torrent[h].whole]
    <3> DEFINE b == torrent[h].running \/ ~torrent[h].whole
    <3>1. b \in BOOLEAN /\ torrent' = [torrent EXCEPT ![h].running = b]
      BY <2>2
    <3> HIDE DEF b
    <3> QED BY <1>1, <2>2, <3>1, Retouched
  <2> QED BY <2>1, <2>2 DEF Prepares
<1>6. PICK ok \in BOOLEAN : After(p, ok)
  BY DEF Prepares
<1>7. /\ call' \in [Proc -> Call]
      /\ \A q \in Proc \ {p} : call'[q] = call[q]
      /\ Place(p)'
      /\ lock' \in [Hash -> Proc \cup {None}]
      /\ \A g \in Hash \ {h} : lock'[g] = lock[g]
  BY <1>1, <1>6, Ending, FreesLock
<1>8. faults' \in 0..MaxFaults
  BY FaultIs DEF Prepares, IInv, TypeOK
<1>9. Marks'
  BY <1>1, <1>2, <1>3, <1>4, <1>5 DEF IInv, Marks
<1>10. TypeOK'
  BY <1>1, <1>4, <1>5, <1>7, <1>8 DEF IInv, TypeOK
<1>11. Frame(p)
  BY <1>1, <1>4, <1>5, <1>7 DEF Frame
<1> QED BY <1>1, <1>5, <1>7, <1>9, <1>10, <1>11, CallStep

\* A record goes.
LEMMA Discarded ==
  ASSUME IInv, NEW h \in Hash, Discard(h)
  PROVE  /\ store' \in [Hash -> Record \cup {None}] /\ store'[h] = None
         /\ \A g \in Hash \ {h} : store'[g] = store[g]
BY DEF IInv, TypeOK, Discard

LEMMA DeletesSafe ==
  ASSUME IInv, NEW p \in Proc, Deletes(p)
  PROVE  IInv'
<1> DEFINE h == call[p].h
<1>1. /\ call[p].pc = "delete" /\ lock[h] = None
      /\ UNCHANGED <<torrent, issued, probes, left, faults>>
  BY DEF Deletes
<1>2. call[p].op # "preview" /\ h \in Hash /\ call[p] \in Call
  BY <1>1, Here DEF IInv, Place, ProbingPc, NowherePc
<1>3. CASE Goes(p, "admit") /\ UNCHANGED lock /\ (Discard(h) \/ UNCHANGED store)
  <2>1. /\ store' \in [Hash -> Record \cup {None}]
        /\ \A g \in Hash : store'[g] = store[g] \/ store'[g] = None
        /\ \A g \in Hash \ {h} : store'[g] = store[g]
    BY <1>2, <1>3, Discarded DEF IInv, TypeOK
  <2>2. /\ call' \in [Proc -> Call]
        /\ \A q \in Proc \ {p} : call'[q] = call[q]
        /\ call'[p].pc = "admit" /\ call'[p].op = call[p].op
    BY <1>2, <1>3, GoesOn
  <2>3. Place(p)'
    BY <1>2, <2>2 DEF Place, InsidePc, ProbingPc, NowherePc
  <2>4. Frame(p) /\ \A g \in Hash : Tame(g)
    BY <1>1, <1>3, <2>1, <2>2 DEF Frame, Tame
  <2>5. TypeOK' /\ Marks'
    BY <1>1, <1>3, <2>1, <2>2 DEF IInv, TypeOK, Marks
  <2> QED BY <1>1, <1>2, <2>2, <2>3, <2>4, <2>5, CallStep
<1>4. CASE /\ store[h] # None /\ Upsert(h, [store[h] EXCEPT !.life = "conflict"])
           /\ Becomes(p, Idle) /\ UNCHANGED lock
  <2> DEFINE r == [store[h] EXCEPT !.life = "conflict"]
  <2>1. r \in Record /\ r.marker = store[h].marker
    BY <1>2, <1>4 DEF IInv, TypeOK, Record
  <2>2. /\ Marks' /\ store' \in [Hash -> Record \cup {None}]
        /\ \A g \in Hash \ {h} : store'[g] = store[g]
    BY <1>1, <1>2, <1>4, <2>1, Writes
  <2>3. /\ call' \in [Proc -> Call]
        /\ \A q \in Proc \ {p} : call'[q] = call[q]
        /\ Place(p)'
    <3>1. Idle.pc = "idle" /\ Idle.op = "none"
      BY DEF Idle
    <3> QED BY <1>4, <3>1, IdleIsCall, GoesElsewhere DEF InsidePc, ProbingPc, NowherePc
  <2>4. Frame(p) /\ \A g \in Hash : Tame(g)
    BY <1>1, <1>4, <2>2, <2>3 DEF Frame, Tame
  <2>5. TypeOK'
    BY <1>1, <1>4, <2>2, <2>3 DEF IInv, TypeOK
  <2> QED BY <1>1, <1>2, <2>2, <2>3, <2>4, <2>5, CallStep
<1>5. CASE /\ store[h] # None /\ Takes(p, h) /\ Upsert(h, [store[h] EXCEPT !.life = "deleting"])
           /\ Goes(p, "delete2")
  <2> DEFINE r == [store[h] EXCEPT !.life = "deleting"]
  <2>1. r \in Record /\ r.marker = store[h].marker
    BY <1>2, <1>5 DEF IInv, TypeOK, Record
  <2>2. /\ Marks' /\ store' \in [Hash -> Record \cup {None}] /\ store'[h] # None
        /\ \A g \in Hash \ {h} : store'[g] = store[g]
    BY <1>1, <1>2, <1>5, <2>1, Writes
  <2>3. /\ lock'[h] = p /\ lock' \in [Hash -> Proc \cup {None}]
        /\ \A g \in Hash \ {h} : lock'[g] = lock[g]
    BY <1>2, <1>5 DEF Takes, IInv, TypeOK
  <2>4. /\ call' \in [Proc -> Call]
        /\ \A q \in Proc \ {p} : call'[q] = call[q]
        /\ Place(p)'
    BY <1>2, <1>5, <2>2, <2>3, GoesOn
  <2>5. Frame(p) /\ \A g \in Hash : Tame(g)
    BY <1>1, <2>2, <2>3, <2>4 DEF Frame, Tame
  <2>6. TypeOK'
    BY <1>1, <2>2, <2>3, <2>4 DEF IInv, TypeOK
  <2> QED BY <1>1, <1>2, <2>2, <2>4, <2>5, <2>6, CallStep
<1> QED BY <1>3, <1>4, <1>5 DEF Deletes, Owned

LEMMA DeletesTorrentSafe ==
  ASSUME IInv, NEW p \in Proc, DeletesTorrent(p)
  PROVE  IInv'
<1> DEFINE h == call[p].h
<1>1. /\ call[p].pc = "delete2" /\ h \in Hash /\ lock[h] = p /\ call[p].op # "preview"
      /\ Frees(h) /\ UNCHANGED <<issued, probes, left>>
  BY Inside DEF DeletesTorrent
<1>2. /\ store' \in [Hash -> Record \cup {None}]
      /\ \A g \in Hash : store'[g] = store[g] \/ store'[g] = None
      /\ \A g \in Hash \ {h} : store'[g] = store[g]
  BY <1>1, Discarded DEF DeletesTorrent, IInv, TypeOK
<1>3. /\ torrent' \in [Hash -> Torrent \cup {None}]
      /\ \A g \in Hash : torrent'[g] = torrent[g] \/ torrent'[g] = None
  BY <1>1 DEF DeletesTorrent, IInv, TypeOK
<1>4. /\ call' \in [Proc -> Call]
      /\ \A q \in Proc \ {p} : call'[q] = call[q]
      /\ Place(p)'
  <2> DEFINE c == [call[p] EXCEPT !.pc = "admit", !.stage = "admit"]
  <2>1. c \in Call /\ c.pc = "admit" /\ c.op = call[p].op
    BY DEF IInv, TypeOK, Call
  <2>2. Idle.pc = "idle" /\ Idle.op = "none"
    BY DEF Idle
  <2>3. CASE Becomes(p, c)
    <3> HIDE DEF c
    <3> QED BY <1>1, <2>1, <2>3, GoesElsewhere DEF InsidePc, ProbingPc, NowherePc
  <2>4. CASE Becomes(p, Idle)
    BY <2>2, <2>4, IdleIsCall, GoesElsewhere DEF InsidePc, ProbingPc, NowherePc
  <2> QED BY <2>3, <2>4 DEF DeletesTorrent
<1>5. /\ lock' \in [Hash -> Proc \cup {None}]
      /\ \A g \in Hash \ {h} : lock'[g] = lock[g]
  BY <1>1, FreesLock
<1>6. faults' \in 0..MaxFaults
  BY FaultIs DEF DeletesTorrent, IInv, TypeOK
<1>7. TypeOK'
  BY <1>1, <1>2, <1>3, <1>4, <1>5, <1>6 DEF IInv, TypeOK
<1>8. Marks'
  BY <1>1, <1>2, <1>3 DEF IInv, Marks
<1>9. Frame(p) /\ \A g \in Hash : Tame(g)
  BY <1>1, <1>2, <1>3, <1>4, <1>5 DEF Frame, Tame
<1> QED BY <1>1, <1>4, <1>7, <1>8, <1>9, CallStep

LEMMA RunsSafe ==
  ASSUME IInv, NEW p \in Proc, Runs(p)
  PROVE  IInv'
<1> DEFINE h == call[p].h
<1>1. /\ call[p].pc = "run" /\ Becomes(p, Idle)
      /\ UNCHANGED <<store, lock, issued, probes, left, faults>>
  BY DEF Runs
<1>2. call[p].op # "preview" /\ h \in Hash
  BY <1>1, Here DEF IInv, Place, ProbingPc, NowherePc
<1>3. /\ torrent' \in [Hash -> Torrent \cup {None}]
      /\ \A g \in Hash : Tame(g) /\ (torrent'[g] # None => torrent[g] # None /\ torrent'[g].marker = torrent[g].marker)
  <2>1. CASE torrent[h] = None
    BY <2>1 DEF Runs, IInv, TypeOK, Tame
  <2>2. CASE torrent[h] # None
    <3> DEFINE b == call[p].op = "resume"
    <3>1. b \in BOOLEAN /\ torrent' = [torrent EXCEPT ![h].running = b]
      BY <2>2 DEF Runs
    <3> HIDE DEF b
    <3> QED BY <1>2, <2>2, <3>1, Retouched
  <2> QED BY <2>1, <2>2
<1>4. /\ call' \in [Proc -> Call]
      /\ \A q \in Proc \ {p} : call'[q] = call[q]
      /\ Place(p)'
  <2>1. Idle.pc = "idle" /\ Idle.op = "none"
    BY DEF Idle
  <2> QED BY <1>1, <2>1, IdleIsCall, GoesElsewhere DEF InsidePc, ProbingPc, NowherePc
<1>5. Frame(p)
  BY <1>1, <1>3, <1>4 DEF Frame
<1>6. TypeOK'
  BY <1>1, <1>3, <1>4 DEF IInv, TypeOK
<1>7. Marks'
  BY <1>1, <1>3 DEF IInv, Marks
<1> QED BY <1>1, <1>2, <1>3, <1>4, <1>5, <1>6, <1>7, CallStep
-----------------------------------------------------------------------------
\* A preview inside the section.
LEMMA Probing ==
  ASSUME IInv, NEW p \in Proc, call[p].pc \in ProbingPc
  PROVE  /\ call[p] \in Call /\ call[p].h \in Hash /\ lock[call[p].h] = p
         /\ call[p].op = "preview" /\ call[p].marker \in probes
         /\ call[p].marker \in 1..MaxMarker /\ call[p].marker <= issued
         /\ torrent[call[p].h] \in Torrent \cup {None}
<1>1. /\ call[p] \in Call /\ call[p].h \in Hash /\ lock[call[p].h] = p
      /\ call[p].op = "preview" /\ call[p].marker \in probes
      /\ torrent[call[p].h] \in Torrent \cup {None}
  BY Here DEF IInv, Place, InsidePc, ProbingPc, NowherePc
<1>2. call[p].marker \in 1..MaxMarker /\ call[p].marker <= issued
  BY <1>1, ServiceAssumption DEF IInv, TypeOK, Marks
<1> QED BY <1>1, <1>2

\* It ends, and its section with it.
LEMMA ProbeEnding ==
  ASSUME IInv, NEW p \in Proc, call[p].h \in Hash, ProbeEnds(p)
  PROVE  /\ call' \in [Proc -> Call]
         /\ \A q \in Proc \ {p} : call'[q] = call[q]
         /\ Place(p)'
         /\ lock' \in [Hash -> Proc \cup {None}]
         /\ \A g \in Hash \ {call[p].h} : lock'[g] = lock[g]
<1>1. Becomes(p, Idle) /\ Frees(call[p].h)
  BY DEF ProbeEnds
<1>2. Idle.pc = "idle" /\ Idle.op = "none"
  BY DEF Idle
<1> QED BY <1>1, <1>2, IdleIsCall, GoesElsewhere, FreesLock DEF InsidePc, ProbingPc, NowherePc

\* Or it goes on.
LEMMA ProbeGoes ==
  ASSUME IInv, NEW p \in Proc, call[p].pc \in ProbingPc, NEW pc \in ProbingPc \ {"probeSubmit"}, Goes(p, pc),
         UNCHANGED <<store, lock, probes>>
  PROVE  /\ call' \in [Proc -> Call]
         /\ \A q \in Proc \ {p} : call'[q] = call[q]
         /\ Place(p)'
         /\ call'[p].op = "preview" /\ call'[p].h = call[p].h /\ call'[p].marker = call[p].marker
<1> DEFINE c == [call[p] EXCEPT !.pc = pc]
<1>1. call[p] \in Call /\ call[p].op = "preview"
  BY Probing
<1>2. c \in Call /\ c.pc = pc /\ c.h = call[p].h /\ c.op = "preview" /\ c.marker = call[p].marker
  BY <1>1 DEF Call, ProbingPc
<1>3. call' = [call EXCEPT ![p] = c]
  BY DEF Goes, Becomes
<1> HIDE DEF c
<1>4. call'[p] = c /\ (\A q \in Proc \ {p} : call'[q] = call[q]) /\ call' \in [Proc -> Call]
  BY <1>2, <1>3 DEF IInv, TypeOK
<1>5. Place(p)
  BY DEF IInv
<1>6. Visible(call[p].h)' = Visible(call[p].h)
  BY <1>2, <1>4 DEF Visible, Life
<1>7. Place(p)'
  BY <1>2, <1>4, <1>5, <1>6 DEF Place, InsidePc, ProbingPc, NowherePc, Visible, Life
<1> QED BY <1>2, <1>4, <1>7

LEMMA ProbesSafe ==
  ASSUME IInv, NEW p \in Proc, Probes(p)
  PROVE  IInv'
<1> DEFINE h == call[p].h
<1>1. /\ call[p].pc = "probe" /\ lock[h] = None /\ UNCHANGED <<store, torrent, left, faults>>
  BY DEF Probes
<1>2. call[p].op = "preview" /\ call[p].marker = 0 /\ h \in Hash /\ call[p] \in Call
  BY <1>1, Here DEF IInv, Place, ProbingPc, NowherePc
<1>3. CASE Becomes(p, Idle) /\ UNCHANGED <<lock, issued, probes>>
  <2>1. Idle.pc = "idle" /\ Idle.op = "none"
    BY DEF Idle
  <2> QED BY <1>1, <1>2, <1>3, <2>1, IdleIsCall, LooksOnly DEF InsidePc, ProbingPc, NowherePc
<1>4. CASE ~(Visible(h) \/ torrent[h] # None)
  <2> DEFINE c == [call[p] EXCEPT !.pc = "probeSubmit", !.marker = issued + 1]
  <2>1. /\ Takes(p, h) /\ issued < MaxMarker /\ issued' = issued + 1
        /\ probes' = probes \cup {issued + 1} /\ Becomes(p, c)
    BY <1>4 DEF Probes
  <2>2. issued \in Nat /\ issued + 1 \in 1..MaxMarker /\ issued + 1 \in 0..MaxMarker
    BY <2>1, ServiceAssumption DEF IInv, TypeOK
  <2>3. c \in Call /\ c.pc = "probeSubmit" /\ c.h = h /\ c.op = "preview" /\ c.marker = issued + 1
    BY <1>2, <2>2 DEF Call
  <2>4. call' = [call EXCEPT ![p] = c]
    BY <2>1 DEF Becomes
  <2> HIDE DEF c
  <2>5. call'[p] = c /\ (\A q \in Proc \ {p} : call'[q] = call[q]) /\ call' \in [Proc -> Call]
    BY <2>3, <2>4 DEF IInv, TypeOK
  <2>6. /\ lock'[h] = p /\ lock' \in [Hash -> Proc \cup {None}]
        /\ \A g \in Hash \ {h} : lock'[g] = lock[g]
    BY <1>2, <2>1 DEF Takes, IInv, TypeOK
  <2>7. Place(p)'
    <3>1. call'[p].h = h /\ ~Visible(h)
      BY <1>4, <2>3, <2>5
    <3>2. ~Visible(call[p].h)'
      BY <1>1, <2>3, <2>5, <3>1 DEF Visible, Life
    <3> QED BY <1>1, <1>2, <1>4, <2>1, <2>3, <2>5, <2>6, <3>2
            DEF Place, InsidePc, ProbingPc, NowherePc, Visible, Life
  <2>8. Marks'
    <3>1. \A g \in Hash : store[g] # None => store[g].marker <= issued + 1 /\ store[g].marker \notin probes'
      <4> SUFFICES ASSUME NEW g \in Hash, store[g] # None
                   PROVE  store[g].marker <= issued + 1 /\ store[g].marker \notin probes'
        OBVIOUS
      <4>1. store[g].marker \in Nat /\ store[g].marker <= issued /\ store[g].marker \notin probes
        BY ServiceAssumption DEF IInv, TypeOK, Record, Marks
      <4> QED BY <2>1, <2>2, <4>1
    <3>2. \A g \in Hash : torrent[g] # None => torrent[g].marker <= issued + 1
      <4> SUFFICES ASSUME NEW g \in Hash, torrent[g] # None PROVE torrent[g].marker <= issued + 1
        OBVIOUS
      <4>1. torrent[g].marker \in Nat /\ torrent[g].marker <= issued
        BY ServiceAssumption DEF IInv, TypeOK, Torrent, Marks
      <4> QED BY <2>2, <4>1
    <3>3. probes' \subseteq 1..issued'
      BY <2>1, <2>2 DEF IInv, Marks
    <3> QED BY <1>1, <2>1, <3>1, <3>2, <3>3 DEF Marks
  <2>9. TypeOK'
    BY <1>1, <2>1, <2>2, <2>5, <2>6 DEF IInv, TypeOK
  <2>10. Frame(p) /\ \A g \in Hash : Tame(g)
    BY <1>1, <2>1, <2>5, <2>6 DEF Frame, Tame
  <2> QED BY <1>2, <2>1, <2>7, <2>8, <2>9, <2>10, CallStep
<1> QED BY <1>3, <1>4 DEF Probes

\* A step of a preview that leaves the marker of its torrent alone, or removes it.
LEMMA ProbeStep ==
  ASSUME IInv, NEW p \in Proc, call[p].pc \in ProbingPc,
         UNCHANGED <<store, issued, probes>>, left' \in {left, left \cup {call[p].marker}},
         faults' \in 0..MaxFaults,
         torrent' \in [Hash -> Torrent \cup {None}],
         \A g \in Hash : torrent'[g] # None => torrent[g] # None /\ torrent'[g].marker = torrent[g].marker,
         \/ /\ ProbeEnds(p)
            /\ \/ call[p].marker \in left'
               \/ torrent'[call[p].h] = None
               \/ torrent'[call[p].h].marker # call[p].marker
         \/ UNCHANGED lock /\ \E pc \in ProbingPc \ {"probeSubmit"} : Goes(p, pc)
  PROVE  IInv'
<1> DEFINE h == call[p].h
<1>1. /\ h \in Hash /\ lock[h] = p /\ call[p].op = "preview" /\ call[p].marker \in 1..MaxMarker
  BY Probing
<1>2. /\ call' \in [Proc -> Call]
      /\ \A q \in Proc \ {p} : call'[q] = call[q]
      /\ Place(p)'
      /\ lock' \in [Hash -> Proc \cup {None}]
      /\ \A g \in Hash \ {h} : lock'[g] = lock[g]
  <2>1. CASE ProbeEnds(p)
    BY <1>1, <2>1, ProbeEnding
  <2>2. CASE UNCHANGED lock /\ \E pc \in ProbingPc \ {"probeSubmit"} : Goes(p, pc)
    BY <1>1, <2>2, ProbeGoes DEF IInv, TypeOK
  <2> QED BY <2>1, <2>2
<1>3. \/ call'[p].op = "preview" /\ call'[p].h = h /\ call'[p].marker = call[p].marker
      \/ call[p].marker \in left'
      \/ torrent'[h] = None
      \/ torrent'[h].marker # call[p].marker
  BY ProbeGoes
<1>4. Frame(p) /\ \A g \in Hash : Tame(g)
  BY <1>1, <1>2 DEF Frame, Tame
<1>5. TypeOK'
  BY <1>1, <1>2, ServiceAssumption DEF IInv, TypeOK
<1>6. Marks'
  BY DEF IInv, Marks
<1> QED BY <1>1, <1>2, <1>3, <1>4, <1>5, <1>6, CallStep

LEMMA ProbeSubmitsSafe ==
  ASSUME IInv, NEW p \in Proc, ProbeSubmits(p)
  PROVE  IInv'
<1> DEFINE h == call[p].h
<1>1. /\ call[p].pc \in ProbingPc /\ call[p].pc = "probeSubmit" /\ UNCHANGED <<store, issued, probes>>
  BY DEF ProbeSubmits, ProbingPc
<1>2. /\ h \in Hash /\ lock[h] = p /\ call[p].op = "preview"
      /\ call[p].marker \in 1..MaxMarker /\ call[p].marker <= issued
      /\ torrent[h] = None \/ torrent[h].marker # call[p].marker
  BY <1>1, Probing DEF IInv, Place
<1>3. CASE UNCHANGED <<torrent, left>> /\ (Fault \/ UNCHANGED faults) /\ ProbeEnds(p)
  <2>1. faults' \in 0..MaxFaults
    BY <1>3, FaultIs DEF IInv, TypeOK
  <2>2. torrent' \in [Hash -> Torrent \cup {None}]
    BY <1>3 DEF IInv, TypeOK
  <2> QED BY <1>1, <1>2, <1>3, <2>1, <2>2, ProbeStep
<1>4. CASE /\ Submitted(h, call[p].marker)
           /\ \/ Goes(p, "probeWait") /\ UNCHANGED <<lock, faults, left>>
              \/ Fault /\ ProbeEnds(p) /\ Leaves(p)
  <2>1. /\ torrent' \in [Hash -> Torrent \cup {None}]
        /\ torrent'[h] # None /\ torrent'[h].marker = call[p].marker
        /\ \A g \in Hash \ {h} : torrent'[g] = torrent[g]
    BY <1>2, <1>4, SubmittedIs
  <2>2. /\ call' \in [Proc -> Call]
        /\ \A q \in Proc \ {p} : call'[q] = call[q]
        /\ Place(p)'
        /\ lock' \in [Hash -> Proc \cup {None}]
        /\ \A g \in Hash \ {h} : lock'[g] = lock[g]
        /\ faults' \in 0..MaxFaults
        /\ left \subseteq left' /\ left' \subseteq 0..MaxMarker
        /\ \/ call'[p].op = "preview" /\ call'[p].h = h /\ call'[p].marker = call[p].marker
           \/ call[p].marker \in left'
    <3>1. CASE Goes(p, "probeWait") /\ UNCHANGED <<lock, faults, left>>
      <4>1. "probeWait" \in ProbingPc \ {"probeSubmit"}
        BY DEF ProbingPc
      <4> QED BY <1>1, <3>1, <4>1, ProbeGoes DEF IInv, TypeOK
    <3>2. CASE Fault /\ ProbeEnds(p) /\ Leaves(p)
      <4>1. left \subseteq left' /\ left' \subseteq 0..MaxMarker /\ call[p].marker \in left'
        <5>1. call[p].marker \in 0..MaxMarker /\ left \subseteq 0..MaxMarker
          BY DEF IInv, TypeOK, Call
        <5> QED BY <3>2, <5>1 DEF Leaves
      <4> QED BY <1>2, <3>2, <4>1, ProbeEnding, FaultIs
    <3> QED BY <1>4, <3>1, <3>2
  <2>3. Frame(p)
    BY <1>1, <1>2, <2>1, <2>2 DEF Frame, Tame
  <2>4. \A g \in Hash : Tame(g) \/ Accounted(g)'
    BY <1>2, <2>1, <2>2 DEF Tame, Accounted
  <2>5. TypeOK'
    BY <1>1, <2>1, <2>2 DEF IInv, TypeOK
  <2>6. Marks'
    BY <1>1, <1>2, <2>1 DEF IInv, Marks
  <2> QED BY <1>1, <1>2, <2>2, <2>3, <2>4, <2>5, <2>6, CallStep
<1> QED BY <1>3, <1>4 DEF ProbeSubmits

LEMMA ProbeWaitsSafe ==
  ASSUME IInv, NEW p \in Proc, ProbeWaits(p)
  PROVE  IInv'
<1> DEFINE h == call[p].h
<1>1. call[p].pc \in ProbingPc /\ UNCHANGED <<store, issued, probes, left>>
  BY DEF ProbeWaits, ProbingPc
<1>2. h \in Hash
  BY <1>1, Probing
<1>3. {"clean", "probeFetch"} \subseteq ProbingPc \ {"probeSubmit"}
  BY DEF ProbingPc
<1>4. faults' \in 0..MaxFaults
  BY FaultIs DEF ProbeWaits, IInv, TypeOK
<1>5. CASE UNCHANGED torrent
  <2>1. torrent' \in [Hash -> Torrent \cup {None}]
    BY <1>5 DEF IInv, TypeOK
  <2>2. CASE ~Mine(p) /\ torrent[h] # None /\ ProbeEnds(p)
    BY <1>1, <1>4, <1>5, <2>1, <2>2, ProbeStep DEF Mine
  <2>3. CASE Goes(p, "clean") /\ UNCHANGED lock
    BY <1>1, <1>3, <1>4, <1>5, <2>1, <2>3, ProbeStep
  <2>4. CASE Goes(p, "probeFetch") /\ UNCHANGED lock
    BY <1>1, <1>3, <1>4, <1>5, <2>1, <2>4, ProbeStep
  <2> QED BY <2>2, <2>3, <2>4 DEF ProbeWaits
<1>6. CASE /\ Mine(p) /\ torrent' = [torrent EXCEPT ![h].running = TRUE]
           /\ Goes(p, "probeFetch") /\ UNCHANGED <<lock, faults>>
  <2>1. /\ torrent' \in [Hash -> Torrent \cup {None}]
        /\ \A g \in Hash : torrent'[g] # None => torrent[g] # None /\ torrent'[g].marker = torrent[g].marker
    BY <1>2, <1>6, Retouched DEF Mine
  <2> QED BY <1>1, <1>3, <1>4, <1>6, <2>1, ProbeStep
<1> QED BY <1>5, <1>6 DEF ProbeWaits

LEMMA ProbeFetchesSafe ==
  ASSUME IInv, NEW p \in Proc, ProbeFetches(p)
  PROVE  IInv'
<1> DEFINE h == call[p].h
<1>1. /\ call[p].pc \in ProbingPc /\ UNCHANGED <<store, lock, issued, probes, left, faults>> /\ Goes(p, "clean")
  BY DEF ProbeFetches, ProbingPc
<1>2. h \in Hash /\ "clean" \in ProbingPc \ {"probeSubmit"} /\ faults' \in 0..MaxFaults
  BY <1>1, Probing DEF ProbingPc, IInv, TypeOK
<1>3. /\ torrent' \in [Hash -> Torrent \cup {None}]
      /\ \A g \in Hash : torrent'[g] # None => torrent[g] # None /\ torrent'[g].marker = torrent[g].marker
  <2>1. CASE torrent[h] = None
    BY <2>1 DEF ProbeFetches, IInv, TypeOK
  <2>2. CASE torrent[h] # None
    BY <1>2, <2>2, Retouched DEF ProbeFetches
  <2> QED BY <2>1, <2>2
<1> QED BY <1>1, <1>2, <1>3, ProbeStep

LEMMA CleansSafe ==
  ASSUME IInv, NEW p \in Proc, Cleans(p) \/ CleansAgain(p)
  PROVE  IInv'
<1> DEFINE h == call[p].h
<1>1. /\ call[p].pc \in ProbingPc /\ UNCHANGED <<store, issued, probes>>
  BY DEF Cleans, CleansAgain, ProbingPc
<1>2. h \in Hash /\ "cleanAgain" \in ProbingPc \ {"probeSubmit"}
  BY <1>1, Probing DEF ProbingPc
<1>3. faults' \in 0..MaxFaults
  BY FaultIs DEF Cleans, CleansAgain, IInv, TypeOK
<1>4. left' \in {left, left \cup {call[p].marker}}
  BY DEF Cleans, CleansAgain, Leaves
<1>5. CASE UNCHANGED torrent
  <2>1. torrent' \in [Hash -> Torrent \cup {None}]
    BY <1>5 DEF IInv, TypeOK
  <2>2. CASE ~Mine(p) /\ ProbeEnds(p)
    BY <1>1, <1>3, <1>4, <1>5, <2>1, <2>2, ProbeStep DEF Mine
  <2>3. CASE Goes(p, "cleanAgain") /\ UNCHANGED lock
    BY <1>1, <1>2, <1>3, <1>4, <1>5, <2>1, <2>3, ProbeStep
  <2>4. CASE ProbeEnds(p) /\ Leaves(p)
    BY <1>1, <1>3, <1>4, <1>5, <2>1, <2>4, ProbeStep DEF Leaves
  <2>5. CASE torrent' = [torrent EXCEPT ![h] = None] /\ ProbeEnds(p)
    <3>1. torrent'[h] = None
      BY <1>2, <2>5 DEF IInv, TypeOK
    <3> QED BY <1>1, <1>3, <1>4, <1>5, <2>1, <2>5, <3>1, ProbeStep
  <2> QED BY <2>2, <2>3, <2>4, <2>5 DEF Cleans, CleansAgain
<1>6. CASE torrent' = [torrent EXCEPT ![h] = None] /\ ProbeEnds(p)
  <2>1. /\ torrent' \in [Hash -> Torrent \cup {None}] /\ torrent'[h] = None
        /\ \A g \in Hash : torrent'[g] # None => torrent[g] # None /\ torrent'[g].marker = torrent[g].marker
    BY <1>2, <1>6 DEF IInv, TypeOK
  <2> QED BY <1>1, <1>3, <1>4, <1>6, <2>1, ProbeStep
<1> QED BY <1>5, <1>6 DEF Cleans, CleansAgain
-----------------------------------------------------------------------------
\* A step of the backend or of its user.
LEMMA BackendSafe ==
  ASSUME IInv, NEW h \in Hash, Fetches(h) \/ Changes(h)
  PROVE  IInv'
<1>1. UNCHANGED <<store, lock, call, issued, probes, left>>
  BY DEF Fetches, Changes
<1>2. faults' \in 0..MaxFaults
  BY FaultIs DEF Fetches, Changes, IInv, TypeOK
<1>3. /\ torrent' \in [Hash -> Torrent \cup {None}]
      /\ \A g \in Hash : /\ Tame(g)
                         /\ torrent'[g] # None => torrent'[g].marker <= issued
  <2>1. CASE Fetches(h)
    <3>1. torrent[h] # None /\ torrent[h] \in Torrent
      BY <2>1 DEF Fetches, IInv, TypeOK
    <3> DEFINE r == [torrent[h] EXCEPT !.known = TRUE, !.whole = torrent[h].known]
    <3>2. r \in Torrent /\ r.marker = torrent[h].marker
      BY <3>1 DEF Torrent
    <3>3. torrent' = [torrent EXCEPT ![h] = r]
      BY <2>1, <3>1 DEF Fetches, Torrent
    <3> HIDE DEF r
    <3> QED BY <3>1, <3>2, <3>3 DEF IInv, TypeOK, Tame, Marks
  <2>2. CASE Changes(h)
    <3> DEFINE r == [marker |-> 0, known |-> TRUE, whole |-> FALSE, running |-> FALSE]
    <3>1. r \in Torrent /\ r.marker = 0 /\ 0 <= issued
      BY ServiceAssumption DEF Torrent, IInv, TypeOK
    <3>2. torrent' = [torrent EXCEPT ![h] = r] \/ torrent' = [torrent EXCEPT ![h] = None]
      BY <2>2 DEF Changes
    <3> HIDE DEF r
    <3> QED BY <3>1, <3>2 DEF IInv, TypeOK, Tame, Marks
  <2> QED BY <2>1, <2>2
<1>4. Frame(None)
  BY <1>1, <1>3 DEF Frame
<1>5. None \notin Proc /\ Tick \in Proc
  BY ServiceAssumption DEF Proc
<1>6. \A q \in Proc : Place(q)'
  BY <1>4, <1>5, OthersKeep
<1>7. Frame(Tick)
  BY <1>1, <1>3 DEF Frame
<1>8. ProbesGoAway'
  BY <1>1, <1>3, <1>5, <1>7, ProbesStay
<1>9. TypeOK'
  BY <1>1, <1>2, <1>3 DEF IInv, TypeOK
<1>10. Marks'
  BY <1>1, <1>3 DEF IInv, Marks
<1> QED BY <1>6, <1>8, <1>9, <1>10 DEF IInv

LEMMA CrashSafe ==
  ASSUME IInv, Crash
  PROVE  IInv'
<1>1. /\ call' = [p \in Proc |-> Idle] /\ lock' = [h \in Hash |-> None]
      /\ left' = left \cup {call[p].marker : p \in {q \in Proc : call[q].op = "preview"}}
      /\ UNCHANGED <<store, torrent, issued, probes>>
  BY DEF Crash
<1>2. faults' \in 0..MaxFaults
  BY FaultIs DEF Crash
<1>3. \A p \in Proc : call[p].marker \in 0..MaxMarker
  BY DEF IInv, TypeOK, Call
<1>4. TypeOK'
  BY <1>1, <1>2, <1>3, IdleIsCall DEF IInv, TypeOK
<1>5. Marks'
  BY <1>1 DEF IInv, Marks
<1>6. \A p \in Proc : Place(p)'
  <2>1. Idle.pc = "idle" /\ Idle.op = "none"
    BY DEF Idle
  <2> QED BY <1>1, <2>1 DEF Place, InsidePc, ProbingPc, NowherePc
<1>7. ProbesGoAway'
  <2> SUFFICES ASSUME NEW h \in Hash, torrent[h] # None, torrent[h].marker \in probes
               PROVE  torrent[h].marker \in left'
    BY <1>1 DEF ProbesGoAway, Probe
  <2>1. Accounted(h)
    BY DEF IInv, ProbesGoAway, Probe, Previewed, Accounted
  <2> QED BY <1>1, <2>1 DEF Accounted
<1> QED BY <1>4, <1>5, <1>6, <1>7 DEF IInv

LEMMA InitSafe == Init => IInv
<1> SUFFICES ASSUME Init PROVE IInv
  OBVIOUS
<1>1. TypeOK
  BY ServiceAssumption, IdleIsCall DEF Init, TypeOK
<1>2. Marks
  BY DEF Init, Marks
<1>3. \A p \in Proc : Place(p)
  <2>1. Idle.pc = "idle" /\ Idle.op = "none"
    BY DEF Idle
  <2> QED BY <2>1 DEF Init, Place, InsidePc, ProbingPc, NowherePc
<1>4. ProbesGoAway
  BY DEF Init, ProbesGoAway, Probe
<1> QED BY <1>1, <1>2, <1>3, <1>4 DEF IInv

LEMMA NextSafe == IInv /\ [Next]_vars => IInv'
<1> SUFFICES ASSUME IInv, [Next]_vars PROVE IInv'
  OBVIOUS
<1>1. ASSUME NEW p \in Proc, Steps(p) PROVE IInv'
  BY <1>1, AdmitsSafe, SubmitsSafe, MoreRefusedSafe, MoreRegistersSafe, PreparesSafe, DeletesTorrentSafe,
     RunsSafe, ProbeSubmitsSafe, ProbeWaitsSafe, ProbeFetchesSafe, CleansSafe DEF Steps
<1>2. ASSUME NEW p \in Proc, Enters(p) PROVE IInv'
  BY <1>2, EnsureRefusedSafe, EnsureConflictSafe, EnsureQueuesSafe, EnsureRegistersSafe, EnsureFindsSafe,
     DeletesSafe, ProbesSafe DEF Enters, Ensures
<1>3. CASE UNCHANGED vars
  BY <1>3 DEF vars, IInv, TypeOK, Marks, Place, Visible, Life, ProbesGoAway, Probe, Previewed
<1> QED BY <1>1, <1>2, <1>3, StartsSafe, TickSafe, BackendSafe, CrashSafe DEF Next

\* IInv is an invariant.
THEOREM InductiveInvariant == Spec => []IInv
BY InitSafe, NextSafe, PTL DEF Spec

\* Every variable of Service keeps its type.
THEOREM TypeCorrect == Spec => []TypeOK
<1>1. IInv => TypeOK
  BY DEF IInv
<1> QED BY <1>1, InductiveInvariant, PTL

\* A preview's torrent is there only while the preview runs, unless a fault left it
\* (transfers.ts:309-337, 349-358).
THEOREM PreviewsCleanUp == Spec => []ProbesGoAway
<1>1. IInv => ProbesGoAway
  BY DEF IInv
<1> QED BY <1>1, InductiveInvariant, PTL

\* No title that clients see stands on a preview's torrent: a preview that runs holds
\* the section of its hash, in which it has found no such title (transfers.ts:277-314).
THEOREM TitlesAreTheirOwn == Spec => []TitlesOwnTheirTorrents
<1>1. IInv => TitlesOwnTheirTorrents
  <2> SUFFICES ASSUME IInv, NEW h \in Hash, Visible(h), Probe(h), torrent[h].marker \notin left
               PROVE  FALSE
    BY DEF TitlesOwnTheirTorrents
  <2>1. PICK p \in Proc : call[p].op = "preview" /\ call[p].h = h /\ call[p].marker = torrent[h].marker
    BY DEF IInv, ProbesGoAway, Previewed
  <2>2. call[p].marker # 0
    BY <2>1, ServiceAssumption DEF Probe, IInv, TypeOK
  <2> QED BY <2>1, <2>2 DEF IInv, Place
<1> QED BY <1>1, InductiveInvariant, PTL
=============================================================================
