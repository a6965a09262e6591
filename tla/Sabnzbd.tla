------------------------------ MODULE Sabnzbd -------------------------------
(***************************************************************************)
(* integrations/sabnzbd/client.ts: every request carries the API key.  A   *)
(* job is in the queue or, once finished, in the history; every operation  *)
(* but submit's upload first reads both, in parallel, and takes a job in   *)
(* neither for one that does not exist.                                    *)
(***************************************************************************)
EXTENDS Wire

\* The two reads of jobs(), served in either order.
Jobs(first) == IF first = "queue" THEN <<S("queue"), S("history")>>
               ELSE <<S("history"), S("queue")>>

SabnzbdTodo(c, first) ==
  LET found == <<S("found")>>
  IN  CASE c.op = "submit" -> Jobs(first) \o <<S("existing"), S("addfile")>>
        [] c.op = "mark" -> Jobs(first) \o <<S("markable"), S("change_cat")>>
        [] c.op = "select" -> IF c.want THEN <<S("look")>>
                              ELSE Jobs(first) \o <<S("inQueue"), S("delete_nzf")>>
        [] c.op = "run" -> Jobs(first) \o <<S("inQueue"), S("pause-resume")>>
        [] c.op = "remove" -> Jobs(first) \o <<S("found"), S("delete")>>
        [] c.op = "look" -> Jobs(first)

SabnzbdLocal == {"existing", "markable", "inQueue", "found", "look"}

\* The early returns: a job that exists is only moved to the category, one in
\* the history is left as it is.
SabnzbdDecides(c) ==
  LET do == Head(c.todo).do
      place == c.read.place
  IN  CASE do \notin SabnzbdLocal -> c
        [] do = "existing" /\ place = "queue" -> [c EXCEPT !.todo = <<S("change_cat")>>]
        [] do = "existing" /\ place = "history" -> Return(c)
        [] do = "markable" /\ (place # "queue" \/ c.marker \in c.read.markers) -> Return(c)
        [] do = "inQueue" /\ place # "queue" -> Return(c)
        [] do = "found" /\ place = "nowhere" -> Return(c)
        [] OTHER -> Then(c, <<>>)

\* A category is replaced as a whole; deleting a file from a job is for good;
\* a delete names the list in which the job was found.
SabnzbdServes(c, s) ==
  LET do == Head(c.todo).do
      live == s.job.there /\ ~s.job.past
  IN  CASE do = "addfile" /\ ~s.job.there ->
             [s EXCEPT !.job = [NewJob(c) EXCEPT !.markers = {c.marker}]]
        [] do = "change_cat" /\ live ->
             [s EXCEPT !.job.markers = IF c.op = "submit" THEN {c.marker}
                                       ELSE c.read.markers \cup {c.marker}]
        [] do = "delete_nzf" /\ live -> [s EXCEPT !.job.off = @ \cup c.files]
        [] do = "pause-resume" /\ live -> [s EXCEPT !.job.running = c.want]
        [] do = "delete" /\ s.job.past = (c.read.place = "history") -> [s EXCEPT !.job = NoJob]
        [] OTHER -> s

\* jobs().find: a job in both answers is the one of the queue.
SabnzbdTakes(c, mem, s) ==
  LET do == Head(c.todo).do
      seen(place) == Then([c EXCEPT !.read.place = place, !.read.markers = s.job.markers], <<>>)
  IN  With(mem, CASE do = "queue" /\ s.job.there /\ ~s.job.past -> seen("queue")
                  [] do = "history" /\ s.job.there /\ s.job.past /\ c.read.place = "nowhere" ->
                       seen("history")
                  [] OTHER -> Then(c, <<>>))
=============================================================================
