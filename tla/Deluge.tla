------------------------------- MODULE Deluge -------------------------------
(***************************************************************************)
(* integrations/deluge/client.ts: JSON-RPC through the web interface,      *)
(* which has a session of its own, a connection to the daemon that it may  *)
(* lose, and a Label plugin that keeps one label per torrent.  An error of *)
(* code 1 or 2 (not authenticated; a method nobody offers now) makes the   *)
(* client log in, connect and send once more.                              *)
(***************************************************************************)
EXTENDS Wire

Rpc(do) == <<S("ensureSession"), S(do)>>
ApplyOwnership == <<S("ensureLabelPlugin")>> \o Rpc("get_labels") \o Rpc("set_label")

DelugeTodo(c) ==
  CASE c.op = "submit" -> Rpc("add") \o (IF c.magnet THEN <<S("orMagnet")>> ELSE <<>>)
                                     \o ApplyOwnership
    [] c.op = "mark" -> Rpc("status") \o ApplyOwnership
    [] c.op = "select" -> Rpc("files") \o <<S("orNoFiles"), S("priorities")>>
    [] c.op = "run" -> Rpc("run")
    [] c.op = "remove" -> Rpc("remove")
    [] c.op = "look" -> Rpc("status")

DelugeLocal == {"ensureSession", "ensureLabelPlugin", "priorities",
                "orMagnet", "orNoFiles", "orExists"}

\* The label that applyOwnership encodes: what addMarker read and the marker.
Label(c) == c.read.markers \cup {c.marker}

\* ensureSession, the guards of ensureLabelPlugin and of setFilesSelected, and
\* the ends of the try blocks.
DelugeDecides(c, mem) ==
  LET do == Head(c.todo).do
  IN  CASE do \notin DelugeLocal -> c
        [] do = "ensureSession" /\ mem.session = "none" ->
             Then(c, <<S("login"), S("ensureSession")>>)
        [] do = "ensureSession" /\ mem.session # "none" /\ ~mem.connected ->
             Then(c, <<S("connected")>>)
        [] do = "ensureLabelPlugin" /\ ~mem.labelReady -> Then(c, Rpc("plugins"))
        [] do = "priorities" /\ c.read.files -> Then(c, Rpc("set_options"))
        [] OTHER -> Then(c, <<>>)

\* The service: a web session, the daemon behind it, the plugin behind that.
DelugeRefuses(c, s) ==
  LET do == Head(c.todo).do IN
  /\ do # "login"
  /\ \/ c.sent # "good"
     \/ do \notin {"connected", "get_hosts", "connect"} /\ ~s.attached
     \/ do \in {"get_labels", "add_label", "set_label"} /\ ~s.plugin

DelugeServes(c, s) ==
  LET job == s.job
      do == Head(c.todo).do
  IN  CASE do = "connect" -> [s EXCEPT !.attached = TRUE]
        [] do = "add" /\ ~job.there -> [s EXCEPT !.job = NewJob(c)]
        [] do = "enable_plugin" -> [s EXCEPT !.plugin = TRUE]
        [] do = "add_label" -> [s EXCEPT !.labels = @ \cup {Label(c)}]
        [] do = "set_label" /\ Label(c) \in s.labels /\ job.there ->
             [s EXCEPT !.job.markers = Label(c)]
        [] do = "set_options" -> [s EXCEPT !.job.off = IF c.want THEN c.read.off \ c.files
                                                       ELSE c.read.off \cup c.files]
        [] do = "run" -> [s EXCEPT !.job.running = c.want]
        [] do = "remove" -> [s EXCEPT !.job = NoJob]
        [] OTHER -> s

\* Errors of a method that ran, told from the state the request found.
DelugeErrs(c, s) == \/ Head(c.todo).do = "add" /\ s.job.there
                    \/ Head(c.todo).do = "add_label" /\ Label(c) \in s.labels
                    \/ Head(c.todo).do = "set_label" /\ Label(c) \notin s.labels
                    \/ Head(c.todo).do \in {"set_label", "set_options", "run", "remove"} /\ ~s.job.there

\* Mutant: the retry forgets that the new session may have lost the daemon.
DelugeRetriesOnly(c, mem) ==
  IF Head(c.todo).again THEN With(mem, Throw(c, "unexpected_response"))
  ELSE With([mem EXCEPT !.session = "none"], Then(c, <<S("login"), Again(Head(c.todo))>>))

\* call(): a session that was refused is begun again, and the method sent again.
DelugeRetries(c, mem) ==
  IF Head(c.todo).again THEN With(mem, Throw(c, "unexpected_response"))
  ELSE With([mem EXCEPT !.session = "none", !.connected = FALSE],
            Then(c, <<S("login"), S("ensureSession"), Again(Head(c.todo))>>))

\* login(): everything learnt in the old session is forgotten.
DelugeLogsIn(mem) == [session |-> "good", connected |-> FALSE, labelReady |-> FALSE]

\* The answers about the session (ensureSession), the label (ensureLabelPlugin,
\* ensureLabel) and the torrent (addMarker's and setFilesSelected's reads).
DelugeSession(do, c, mem, s) ==
  CASE do = "login" -> With(DelugeLogsIn(mem), Then(c, <<>>))
    [] do = "connected" /\ ~s.attached -> With(mem, Then(c, <<S("get_hosts"), S("connect")>>))
    [] do = "get_hosts" -> With(mem, Then(c, <<>>))
    [] OTHER -> With([mem EXCEPT !.connected = TRUE], Then(c, <<>>))

DelugeLabels(do, c, mem, s) ==
  CASE do = "plugins" /\ ~s.plugin -> With(mem, Then(c, Rpc("enable_plugin")))
    [] do = "get_labels" -> With(mem, Then(c, IF Label(c) \in s.labels THEN <<>>
                                              ELSE Rpc("add_label") \o <<S("orExists")>>))
    [] OTHER -> With([mem EXCEPT !.labelReady = TRUE], Then(c, <<>>))

DelugeReads(do, c, s) ==
  CASE do = "files" -> Then([c EXCEPT !.read.files = s.job.known, !.read.off = s.job.off], <<>>)
    [] do = "status" -> IF c.op = "mark" /\ c.marker \in s.job.markers THEN Return(c)
                        ELSE Then([c EXCEPT !.read.markers = s.job.markers], <<>>)

\* An answer; s is the service as the request found it.
DelugeTakes(c, mem, s) ==
  LET do == Head(c.todo).do
  IN  IF DelugeErrs(c, s) THEN With(mem, Throw(c, "unexpected_response"))
      ELSE
      CASE do \in {"login", "connected", "get_hosts", "connect"} -> DelugeSession(do, c, mem, s)
        [] do \in {"plugins", "enable_plugin", "get_labels"} -> DelugeLabels(do, c, mem, s)
        [] do \in {"status", "files"} -> With(mem, DelugeReads(do, c, s))
        [] OTHER -> With(mem, Then(c, <<>>))
=============================================================================
