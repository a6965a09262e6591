---------------------------- MODULE Transmission ----------------------------
(***************************************************************************)
(* integrations/transmission/client.ts: JSON-RPC with a session token.  A  *)
(* request with the wrong token is answered 409 and the right one, and is  *)
(* sent once more.  labels[0] is the scope, the others are markers.        *)
(***************************************************************************)
EXTENDS Wire

TransmissionTodo(c) ==
  CASE c.op = "submit" -> <<S("torrent-add"), S("set-labels")>>
    [] c.op = "mark" -> <<S("get-labels"), S("set-labels")>>
    [] c.op = "select" -> <<S("files-wanted")>>
    [] c.op = "run" -> <<S("start-stop")>>
    [] c.op = "remove" -> <<S("torrent-remove")>>
    [] c.op = "look" -> <<S("get-labels")>>

\* Mutant: the labels are left to the second request.
TransmissionBareJob(c) == NewJob(c)

\* The job that torrent-add makes: it carries its labels from the start.
TransmissionJob(c) == [NewJob(c) EXCEPT !.markers = {c.marker}]

\* The second request labels it again; an existing torrent has its labels
\* replaced.
TransmissionServes(c, s) ==
  LET do == Head(c.todo).do
  IN  CASE do = "torrent-add" /\ ~s.job.there ->
             [s EXCEPT !.job = TransmissionJob(c)]
        [] do = "set-labels" /\ s.job.there ->
             [s EXCEPT !.job.markers = c.read.markers \cup {c.marker}]
        [] do = "files-wanted" /\ s.job.there ->
             [s EXCEPT !.job.off = IF c.want THEN @ \ c.files ELSE @ \cup c.files]
        [] do = "start-stop" /\ s.job.there -> [s EXCEPT !.job.running = c.want]
        [] do = "torrent-remove" -> [s EXCEPT !.job = NoJob]
        [] OTHER -> s

TransmissionRefuses(c) == c.sent # "good"

\* Mutant: the refusal passes for an answer.
TransmissionContent(c, mem) == With([mem EXCEPT !.session = "good"], Then(c, <<>>))

\* rpc(): the second attempt carries the token that the 409 told.
TransmissionRetries(c, mem) ==
  IF Head(c.todo).again THEN With(mem, Throw(c, "unexpected_response"))
  ELSE With([mem EXCEPT !.session = "good"], Then(c, <<Again(Head(c.todo))>>))

\* addMarker reads the labels it writes back, and writes nothing when the
\* marker is there.
TransmissionTakes(c, mem, s) ==
  With(mem, IF Head(c.todo).do = "get-labels" /\ c.op = "mark"
            THEN IF c.marker \in s.job.markers THEN Return(c)
                 ELSE Then([c EXCEPT !.read.markers = s.job.markers], <<>>)
            ELSE Then(c, <<>>))
=============================================================================
