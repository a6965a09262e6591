-------------------------------- MODULE Wire --------------------------------
(***************************************************************************)
(* A download backend's client at work: what the four adapters of          *)
(* src/integrations share.  A call of the DownloadBackend contract is a    *)
(* list `todo` of steps, an HTTP exchange or a local decision each; the    *)
(* modules QBittorrent, Transmission, Deluge and Sabnzbd give the list of  *)
(* every operation and say, for every step,                                *)
(*   - whether the service refuses the session it is sent in (`Refuses`),  *)
(*     and what the client does about that (`Retries`),                    *)
(*   - what the service does (`Serves`), and what the client makes of the  *)
(*     answer (`Takes`).                                                   *)
(* The service is modelled from the requests the adapters make of it, for  *)
(* one job; the credentials are right.  A request is answered, or it fails *)
(* before it arrives, or its answer is lost or damaged.                    *)
(***************************************************************************)
EXTENDS Naturals, Sequences

CONSTANTS Kind,      \* the kinds of backend: BackendType of backends/config.ts
          Proc,      \* calls that may run at once
          Locked,    \* the call in the section of the job's hash, one of Proc
          Issued,    \* the marker that a submit is given
          Adopted,   \* the marker that an adoption adds
          File,
          MaxTroubles, \* bound: requests or answers lost or damaged, sessions
                       \* expired, daemons detached, plugins disabled
          MaxRetries   \* bound, at least 1: retries under way at once in one call

VARIABLES kind,    \* the configured kind
          client,  \* the fields of the client object
          service, \* the download service
          call,    \* call[p]: the running call, or how the last one ended
          troubles

wire == <<kind, client, service, call, troubles>>

\* session: none, good, or stale (a cookie or token the service forgot).
Client == [session: {"none", "good", "stale"}, connected: BOOLEAN, labelReady: BOOLEAN]

\* The job: `past` is SABnzbd's history, `known` that its files are known,
\* `off` the files not wanted, `ours` that a submit of this client made it.
NoJob == [there |-> FALSE, ours |-> FALSE, markers |-> {}, off |-> {},
          running |-> FALSE, known |-> FALSE, past |-> FALSE]
NewJob(c) == [NoJob EXCEPT !.there = TRUE, !.ours = TRUE, !.running = c.want,
                           !.known = ~c.magnet]

\* What a caller asks: Ask("select", m, {f}, FALSE, FALSE) deselects f.
Ask(op, marker, files, want, magnet) ==
  [op |-> op, marker |-> marker, files |-> files, want |-> want, magnet |-> magnet,
   todo |-> <<>>, sent |-> "none", state |-> "running",
   read |-> [markers |-> {}, files |-> FALSE, off |-> {}, place |-> "nowhere"],
   disturbed |-> FALSE, crossed |-> FALSE, robbed |-> FALSE, done |-> FALSE]
None == [Ask("none", "none", {}, FALSE, FALSE) EXCEPT !.state = "ok", !.done = TRUE]

\* A step; `again` when it is the second attempt of an exchange, `refused` when
\* the service has refused it and the client has yet to hear.
S(do) == [do |-> do, again |-> FALSE, refused |-> FALSE]
Again(step) == [step EXCEPT !.again = TRUE, !.refused = FALSE]

With(mem, c) == [mem |-> mem, call |-> c]
Then(c, steps) == [c EXCEPT !.todo = steps \o Tail(c.todo)]
Return(c) == [c EXCEPT !.todo = <<>>]

\* An exception unwinds to the nearest handler: a step `orNoFiles` catches
\* unexpected_response, `orMagnet` and `orExists` whatever is thrown.
Catches(do, error) == \/ do \in {"orMagnet", "orExists"}
                      \/ do = "orNoFiles" /\ error = "unexpected_response"
Throw(c, error) ==
  LET at == {i \in DOMAIN c.todo : Catches(c.todo[i].do, error)}
  IN  IF at = {} THEN [c EXCEPT !.todo = <<>>, !.state = error]
      ELSE [c EXCEPT !.todo =
             SubSeq(@, CHOOSE i \in at : \A j \in at : i <= j, Len(@))]

\* The effect that a call asks for.
Goal(c, job) == CASE c.op = "submit" -> job.there /\ c.marker \in job.markers
                  [] c.op = "mark" -> c.marker \in job.markers
                  [] c.op = "select" -> IF c.want THEN c.files \cap job.off = {}
                                        ELSE c.files \subseteq job.off
                  [] c.op = "run" -> job.running = c.want
                  [] c.op = "remove" -> ~job.there
                  [] OTHER -> TRUE
=============================================================================
