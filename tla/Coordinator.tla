---------------------------- MODULE Coordinator ----------------------------
(***************************************************************************)
(* src/downloads/coordinator.ts: the per-hash lock every operation on a    *)
(* download runs under.  It is not a mutex object but a promise chain: an  *)
(* entry {tail, count} per key, where each call chains its work behind the *)
(* tail it finds and becomes the tail itself, and where the last call to   *)
(* leave deletes the entry.  A call whose work has settled still counts    *)
(* until its `finally` runs, a little later than the next call's work may  *)
(* start.                                                                  *)
(*                                                                         *)
(* Calls nest: prepareDownload, inside the section of a hash, enters the   *)
(* section of the key '$registration' (downloads/manager.ts:141 and :212). *)
(***************************************************************************)
EXTENDS Naturals, Sequences, FiniteSets

CONSTANTS Call,          \* the call sites that may be outstanding at once
          Nested,        \* those made from inside another call's work
          Parent,        \* Parent[n]: the call whose work makes nested call n
          Hash,          \* the keys of the outer calls
          Registration,  \* the key of the nested calls, '$registration'
          Limit,         \* outstanding calls a key accepts (32 in the code)
          None

Key == Hash \cup {Registration}

ASSUME CallAssumption == /\ IsFiniteSet(Call)
                         /\ Nested \subseteq Call
                         /\ Parent \in [Nested -> Call \ Nested]
                         /\ None \notin Call
ASSUME KeyAssumption == /\ Registration \notin Hash
                        /\ None \notin Key
                        /\ Limit \in Nat \ {0}

VARIABLES pc,     \* pc[c]: how far call c is
          key,    \* key[c]: the key call c is on, None when idle
          after,  \* after[c]: the unsettled promise c's work is chained behind
          tail,   \* tail[k]: the entry's tail, None once it has settled
          count,  \* count[k]: the entry's count; 0 when there is no entry
          made,   \* nested calls their parent's current work already made
          order   \* history: the unsettled calls of each key, oldest first

vars == <<pc, key, after, tail, count, made, order>>

States == {"idle", "waiting", "running", "settled"}

Unsettled(c) == pc[c] \in {"waiting", "running"}
Outstanding(k) == {c \in Call : key[c] = k /\ pc[c] # "idle"}

Init == /\ pc = [c \in Call |-> "idle"]
        /\ key = [c \in Call |-> None]
        /\ after = [c \in Call |-> None]
        /\ tail = [k \in Key |-> None]
        /\ count = [k \in Key |-> 0]
        /\ made = {}
        /\ order = [k \in Key |-> <<>>]

\* Mutant: the call chains behind the tail without becoming the tail.
CoordinatedForked(c, k) ==
  /\ pc[c] = "idle"
  /\ count[k] < Limit
  /\ pc' = [pc EXCEPT ![c] = "waiting"]
  /\ key' = [key EXCEPT ![c] = k]
  /\ after' = [after EXCEPT ![c] = tail[k]]
  /\ tail' = [tail EXCEPT ![k] = IF @ = None THEN c ELSE @]
  /\ count' = [count EXCEPT ![k] = @ + 1]
  /\ order' = [order EXCEPT ![k] = Append(@, c)]

\* coordinated(store, k, work) up to its first await.  A key at its limit
\* refuses the call with BusyError and changes nothing.
coordinated(c, k) ==
  /\ pc[c] = "idle"
  /\ count[k] < Limit
  /\ pc' = [pc EXCEPT ![c] = "waiting"]
  /\ key' = [key EXCEPT ![c] = k]
  /\ after' = [after EXCEPT ![c] = tail[k]]
  /\ tail' = [tail EXCEPT ![k] = c]
  /\ count' = [count EXCEPT ![k] = @ + 1]
  /\ order' = [order EXCEPT ![k] = Append(@, c)]

\* A request, a sweep or a job enters the section of one hash.
EnterHash(c) == /\ c \notin Nested
                /\ \E h \in Hash : coordinated(c, h)
                /\ UNCHANGED made

\* Mutant: the nested section is entered on the key the parent already holds.
EnterReentrant(c) == /\ c \in Nested \ made
                     /\ pc[Parent[c]] = "running"
                     /\ \A n \in Nested : Parent[n] = Parent[c] => pc[n] = "idle"
                     /\ coordinated(c, key[Parent[c]])
                     /\ made' = made \cup {c}

\* The work of a running call enters '$registration', once for each of the two
\* places prepareDownload does, one after the other.
EnterRegistration(c) == /\ c \in Nested \ made
                        /\ pc[Parent[c]] = "running"
                        /\ \A n \in Nested : Parent[n] = Parent[c] => pc[n] = "idle"
                        /\ coordinated(c, Registration)
                        /\ made' = made \cup {c}

\* lock.tail.then(work): the promise the call is chained behind has settled.
Start(c) == /\ pc[c] = "waiting"
            /\ after[c] = None
            /\ pc' = [pc EXCEPT ![c] = "running"]
            /\ UNCHANGED <<key, after, tail, count, made, order>>

\* The work ends or throws; `operation.catch` settles the tail either way.  A
\* parent's work ends only after the nested calls it awaits have returned.
Settle(c) == /\ pc[c] = "running"
             /\ \A n \in Nested : Parent[n] = c => pc[n] = "idle"
             /\ pc' = [pc EXCEPT ![c] = "settled"]
             /\ after' = [d \in Call |-> IF after[d] = c THEN None ELSE after[d]]
             /\ tail' = [k \in Key |-> IF tail[k] = c THEN None ELSE tail[k]]
             /\ made' = {n \in made : Parent[n] # c}
             /\ order' = [order EXCEPT ![key[c]] = Tail(@)]
             /\ UNCHANGED <<key, count>>

\* Mutant: a call whose work throws skips the decrement, as without `finally`.
ReleaseUnlessThrown(c) ==
  /\ pc[c] = "settled"
  /\ pc' = [pc EXCEPT ![c] = "idle"]
  /\ key' = [key EXCEPT ![c] = None]
  /\ \E thrown \in BOOLEAN :
       count' = IF thrown THEN count ELSE [count EXCEPT ![key[c]] = @ - 1]
  /\ UNCHANGED <<after, tail, made, order>>

\* The `finally` of the call: the last one out deletes the entry, tail and all.
Release(c) == /\ pc[c] = "settled"
              /\ pc' = [pc EXCEPT ![c] = "idle"]
              /\ key' = [key EXCEPT ![c] = None]
              /\ count' = [count EXCEPT ![key[c]] = @ - 1]
              /\ tail' = IF count[key[c]] = 1 THEN [tail EXCEPT ![key[c]] = None] ELSE tail
              /\ UNCHANGED <<after, made, order>>

Step(c) == \/ EnterHash(c)
           \/ EnterRegistration(c)
           \/ Start(c)
           \/ Settle(c)
           \/ Release(c)

Next == \E c \in Call : Step(c)

\* Callers may stop calling, but a settled promise runs its continuations, and
\* every piece of work ends: each backend call in it carries an AbortSignal with
\* a deadline (src/timeouts.ts).
Fairness == \A c \in Call : /\ WF_vars(Start(c))
                            /\ WF_vars(Settle(c))
                            /\ WF_vars(Release(c))

Spec == Init /\ [][Next]_vars
FairSpec == Spec /\ Fairness
-----------------------------------------------------------------------------
\* Every variable keeps its type.
TypeOK == /\ pc \in [Call -> States]
          /\ key \in [Call -> Key \cup {None}]
          /\ after \in [Call -> Call \cup {None}]
          /\ tail \in [Key -> Call \cup {None}]
          /\ count \in [Key -> 0..Limit]
          /\ made \subseteq Nested
          /\ order \in [Key -> Seq(Call)]

\* Two calls on one key never run their work at the same time, although the
\* entry that chains them may be deleted and made anew while calls come and go.
MutualExclusion ==
  \A c, d \in Call : (pc[c] = "running" /\ pc[d] = "running" /\ key[c] = key[d]) => c = d

\* The count that decides both when to refuse a call and when to delete the
\* entry is exactly the number of calls that have not returned.
OutstandingCounted == \A k \in Key : count[k] = Cardinality(Outstanding(k))

\* The call whose work is running on a key, as the abstract lock sees it.
Holder == [k \in Key |-> IF \E c \in Call : pc[c] = "running" /\ key[c] = k
                         THEN CHOOSE c \in Call : pc[c] = "running" /\ key[c] = k
                         ELSE None]

Fifo == INSTANCE FifoLock WITH queue <- order, holder <- Holder

\* The promise chains implement a lock with a first-in first-out queue.
ImplementsFifo == Fifo!Spec

\* A call that was accepted does get to run, although it may sit behind calls
\* that wait, inside their own section, for the '$registration' section.
EveryCallRuns == \A c \in Call : pc[c] = "waiting" ~> pc[c] = "running"
=============================================================================
