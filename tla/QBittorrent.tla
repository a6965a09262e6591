---------------------------- MODULE QBittorrent -----------------------------
(***************************************************************************)
(* integrations/qbittorrent/client.ts: form posts under a session cookie,  *)
(* or under none where the address is trusted.  A request that is refused  *)
(* forgets the session, logs in and is sent once more.  The API key of     *)
(* newer versions knows no session and is left out.                        *)
(***************************************************************************)
EXTENDS Wire

QBittorrentTodo(c) ==
  CASE c.op = "submit" -> <<S("torrents/add")>>
    [] c.op = "mark" -> <<S("addTags")>>
    [] c.op = "select" -> <<S("filePrio")>>
    [] c.op = "run" -> <<S("version"), S("start-stop")>>
    [] c.op = "remove" -> <<S("delete")>>
    [] c.op = "look" -> <<S("info")>>

QBittorrentServes(c, s) ==
  LET do == Head(c.todo).do
  IN  CASE do = "torrents/add" /\ ~s.job.there ->
             [s EXCEPT !.job = [NewJob(c) EXCEPT !.markers = {c.marker}]]
        [] do = "addTags" /\ s.job.there -> [s EXCEPT !.job.markers = @ \cup {c.marker}]
        [] do = "filePrio" /\ s.job.there ->
             [s EXCEPT !.job.off = IF c.want THEN @ \ c.files ELSE @ \cup c.files]
        [] do = "start-stop" /\ s.job.there -> [s EXCEPT !.job.running = c.want]
        [] do = "delete" -> [s EXCEPT !.job = NoJob]
        [] OTHER -> s

\* send() logs in first when there is no session.
QBittorrentRefuses(c) == c.sent = "stale"

\* api(): one more send(), in a new session.
QBittorrentRetries(c, mem) ==
  IF Head(c.todo).again THEN With(mem, Throw(c, "authentication"))
  ELSE With([mem EXCEPT !.session = "none"], Then(c, <<Again(Head(c.todo))>>))

\* The add of a torrent that is there answers "Fails."; a file priority of a
\* torrent that is not answers 404.
QBittorrentTakes(c, mem, s) ==
  LET do == Head(c.todo).do
      fails == \/ do = "torrents/add" /\ s.job.there
               \/ do = "filePrio" /\ ~s.job.there
  IN  With([mem EXCEPT !.session = "good"],
           IF fails THEN Throw(c, "unexpected_response") ELSE Then(c, <<>>))
=============================================================================
