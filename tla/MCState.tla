------------------------------ MODULE MCState ------------------------------
(***************************************************************************)
(* What the rest stands on, each part by itself: the queues of calls per   *)
(* hash, a JSON repository, the lock of the data directory, its start and  *)
(* import, and idempotent creation.  They share nothing; a behaviour is of *)
(* the one its scene names.                                                *)
(*                                                                         *)
(* Calls: three outer ones on two hashes, the first two of which also make *)
(* one or two nested calls, with room for two outstanding calls per key:   *)
(* the limit is reached on a hash, calls queue behind each other on a hash *)
(* and on '$registration', and entries are deleted and made again.         *)
(* Documents have two fields, and an update sets one of them.              *)
(***************************************************************************)
EXTENDS Coordinator, JsonStore, DataDirLock, Import, Idempotency

CONSTANTS p, q, r, p1, p2, q1,
          Field, Setting, s0

MCCall == {p, q, r, p1, p2, q1}
MCNested == {p1, p2, q1}
MCParent == [n1 \in MCNested |-> IF n1 = q1 THEN q ELSE p]

MCDoc == [Field -> Setting]
MCSeed == [k \in Field |-> s0]
MCUpdate == {[d \in MCDoc |-> [d EXCEPT ![k] = v]] : k \in Field, v \in Setting}

VARIABLE scene

StateInit ==
  /\ scene \in {"calls", "repository", "lock", "import", "replay"}
  /\ Init /\ RepositoryInit /\ LockInit /\ ImportInit /\ ReplayInit
  /\ scene # "import" => \A f \in Files : json[f] = NoDocument

StateNext ==
  /\ UNCHANGED scene
  /\ \/ scene = "calls" /\ Next /\ UNCHANGED <<repositoryVars, lockVars, importVars, replayVars>>
     \/ scene = "repository" /\ RepositoryNext /\ UNCHANGED <<vars, lockVars, importVars, replayVars>>
     \/ scene = "lock" /\ LockNext /\ UNCHANGED <<vars, repositoryVars, importVars, replayVars>>
     \/ scene = "import" /\ ImportNext /\ UNCHANGED <<vars, repositoryVars, lockVars, replayVars>>
     \/ scene = "replay" /\ ReplayNext /\ UNCHANGED <<vars, repositoryVars, lockVars, importVars>>

stateVars == <<scene, vars, repositoryVars, lockVars, importVars, replayVars>>

\* The fairness of each part's own specification.
StateSpec == /\ StateInit /\ [][StateNext]_stateVars
             /\ Fairness
             /\ WF_repositoryVars(Proceeds)
             /\ \A c \in Post : WF_replayVars(CallEnds(c))
=============================================================================
