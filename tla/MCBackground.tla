---------------------------- MODULE MCBackground ----------------------------
(***************************************************************************)
(* The runner that calls the backend by the clock and the adapters that    *)
(* carry every call to it; they share no state and have a scene each.      *)
(* The runner has small times in the order of the real ones: a sweep may   *)
(* run for longer than its lease, a recovery comes back at once.  The      *)
(* adapters have two calls at once on one job of each kind of backend.     *)
(***************************************************************************)
EXTENDS JobRunner, Adapters, TLC

CONSTANTS h1
VARIABLE scene

MCRecurring == {"sweep", "recovery"}
MCInterval == ("sweep" :> 3) @@ ("recovery" :> 1)
MCLongest == ("sweep" :> 3) @@ ("recovery" :> 1) @@ (h1 :> 2)
MCKind == {"qbittorrent", "transmission", "deluge", "sabnzbd"}

MCInit == /\ scene \in {"runner", "adapters"}
          /\ Init /\ AdapterInit
          /\ scene = "runner" => kind = "qbittorrent" /\ service.attached /\ service.plugin

MCNext == \/ scene = "runner" /\ Next /\ UNCHANGED <<scene, wire>>
          \/ scene = "adapters" /\ AdapterNext /\ UNCHANGED <<scene, vars>>

MCSpec == MCInit /\ [][MCNext]_<<scene, vars, wire>>
=============================================================================
