---------------------------- MODULE DurableStore ----------------------------
(***************************************************************************)
(* What a repository kept in one file promises.  An acknowledged update is *)
(* never lost.  One that is under way, or was reported as failed, may      *)
(* still be found after a crash, whole and instead of the document it was  *)
(* applied to, until a later update is acknowledged.                       *)
(***************************************************************************)
EXTENDS Naturals

CONSTANTS Doc,      \* documents
          Update,   \* updates, functions from documents to documents
          Seed,     \* the document of a fresh installation
          Absent

VARIABLES doc,      \* the document that is active, or will be at the next start
          doubt,    \* others that a crash may bring up
          acked     \* what callers were told: the number of acknowledgements

dvars == <<doc, doubt, acked>>

Init == doc = Absent /\ doubt = {} /\ acked = 0

Seeds == /\ doc = Absent
         /\ doc' = Seed
         /\ doubt' = {Absent}
         /\ UNCHANGED acked

\* The seed is acknowledged.
Settles == /\ doc = Seed
           /\ doubt' = {}
           /\ acked' = acked + 1
           /\ UNCHANGED doc

\* The update reaches the file, and may be reported as failed yet.
Surfaces(u) == /\ doc \in Doc
               /\ doubt' = doubt \cup ({u[doc]} \ {doc})
               /\ UNCHANGED <<doc, acked>>

Saves(u) == /\ doc \in Doc
            /\ doc' = u[doc]
            /\ doubt' = {}
            /\ acked' = acked + 1

Crash == /\ doc' \in {doc} \cup doubt
         /\ doubt' \subseteq ({doc} \cup doubt) \ {doc'}
         /\ UNCHANGED acked

Next == Seeds \/ Settles \/ Crash \/ \E u \in Update : Surfaces(u) \/ Saves(u)

Spec == Init /\ [][Next]_dvars
=============================================================================
