----------------------------- MODULE MCService -----------------------------
(***************************************************************************)
(* One slot and two titles, one of them known from a URL only; a client    *)
(* that adds and selects, one that previews and removes, the recovery job. *)
(***************************************************************************)
EXTENDS Service, TLC

CONSTANTS h1, u, c1, c2, tick

MCOps == (c1 :> {"add", "queueAdd", "select", "pause", "resume"}) @@ (c2 :> {"preview", "remove"})
=============================================================================
