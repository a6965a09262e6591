------------------------------ MODULE Adapters ------------------------------
(***************************************************************************)
(* The backend adapters as the download operations use them: calls that    *)
(* change the job come one at a time (they hold the lock of the hash), a   *)
(* pause or a look comes whenever it likes, and in between sessions end,   *)
(* the web interface loses its daemon, and jobs finish.                    *)
(***************************************************************************)
EXTENDS QBittorrent, Transmission, Deluge, Sabnzbd, FiniteSets

ASSUME WireAssumption == /\ Kind \subseteq {"qbittorrent", "transmission", "deluge", "sabnzbd"}
                         /\ Locked \in Proc /\ MaxTroubles \in Nat /\ MaxRetries \in Nat \ {0}

AdapterInit ==
  /\ kind \in Kind
  /\ client = [session |-> "none", connected |-> FALSE, labelReady |-> FALSE]
  /\ service \in [job : {NoJob}, attached : BOOLEAN, plugin : BOOLEAN, labels : {{}}]
  /\ call = [p \in Proc |-> None]
  /\ troubles = 0
-----------------------------------------------------------------------------
Todo(c, first) == CASE kind = "qbittorrent" -> QBittorrentTodo(c)
                    [] kind = "transmission" -> TransmissionTodo(c)
                    [] kind = "deluge" -> DelugeTodo(c)
                    [] kind = "sabnzbd" -> SabnzbdTodo(c, first)

\* A request carries the session that the client had when it was sent.
Refuses(c) == CASE kind = "qbittorrent" -> QBittorrentRefuses(c)
                [] kind = "transmission" -> TransmissionRefuses(c)
                [] kind = "deluge" -> DelugeRefuses(c, service)
                [] kind = "sabnzbd" -> FALSE

Retries(c) == CASE kind = "qbittorrent" -> QBittorrentRetries(c, client)
                [] kind = "transmission" -> TransmissionRetries(c, client)
                [] kind = "deluge" -> DelugeRetries(c, client)

Serves(c) == CASE kind = "qbittorrent" -> QBittorrentServes(c, service)
               [] kind = "transmission" -> TransmissionServes(c, service)
               [] kind = "deluge" -> DelugeServes(c, service)
               [] kind = "sabnzbd" -> SabnzbdServes(c, service)

Takes(c) == CASE kind = "qbittorrent" -> QBittorrentTakes(c, client, service)
              [] kind = "transmission" -> TransmissionTakes(c, client, service)
              [] kind = "deluge" -> DelugeTakes(c, client, service)
              [] kind = "sabnzbd" -> SabnzbdTakes(c, client, service)

Running(p) == call[p].state = "running"

\* The local decisions up to the next request (never more than five in a row),
\* which goes out at once.
Decide(c, mem) == CASE c.todo = <<>> -> c
                    [] c.todo # <<>> /\ kind = "deluge" -> DelugeDecides(c, mem)
                    [] c.todo # <<>> /\ kind = "sabnzbd" -> SabnzbdDecides(c)
                    [] OTHER -> c
Ready(c, mem) == LET D(d) == Decide(d, mem)
                 IN  [D(D(D(D(D(c))))) EXCEPT !.sent = mem.session]

\* A call whose steps are done answers ok.  Of one that has ended only what a
\* property may hold against it is kept.
Settled(c) ==
  CASE c.todo # <<>> -> c
    [] c.todo = <<>> /\ c.state # "running" ->
         [None EXCEPT !.state = c.state, !.disturbed = c.disturbed, !.crossed = c.crossed,
                      !.robbed = c.robbed]
    [] c.todo = <<>> /\ c.state = "running" /\ c.done -> None
    [] OTHER -> [c EXCEPT !.state = "ok", !.disturbed = FALSE, !.robbed = FALSE,
                          !.marker = "none", !.files = {}, !.sent = "none"]

\* The steps of p leave its call as c, the client as mem, the service as s.
\* History: done, the goal was reached; disturbed, a session, daemon or answer
\* was lost during the call; crossed, the job came, went or moved under it;
\* robbed, another call threw the session away.
Leave(p, c, mem, s) ==
  LET after == [c EXCEPT !.done = @ \/ Goal(c, s.job)]
      other(d) == [d EXCEPT !.crossed = @ \/ s.job.there # service.job.there,
                            !.robbed = @ \/ (client.session = "good" /\ mem.session = "none")]
  IN  /\ client' = mem
      /\ service' = s
      /\ call' = [q \in Proc |-> IF q = p THEN Settled(Ready(after, mem))
                                 ELSE IF Running(q) THEN other(call[q]) ELSE call[q]]
      /\ UNCHANGED kind

\* What the section of a hash asks for, and what is asked outside it.
Submits == {Ask("submit", Issued, {}, TRUE, magnet) : magnet \in BOOLEAN}
Marks == {Ask("mark", marker, {}, FALSE, FALSE) : marker \in {Issued, Adopted}}
Selects == UNION {{Ask("select", "none", {f}, want, FALSE) : want \in BOOLEAN} : f \in File}
Writes == Submits \cup Marks \cup Selects \cup {Ask("remove", "none", {}, FALSE, FALSE)}
Asks(p) == IF p = Locked THEN Writes
           ELSE {Ask(op, "none", {}, FALSE, FALSE) : op \in {"run", "look"}}

\* Deluge's Label plugin was disabled behind the client's flag.
FlagIsStale == kind = "deluge" /\ client.labelReady /\ ~service.plugin

\* Callers look before they act: a submit finds no job, the others one.  An
\* NZB is never a magnet.
Begin(p) ==
  \E c \in Asks(p), first \in {"queue", "history"} :
    /\ ~Running(p)
    /\ c.op # "look" => (c.op = "submit") = ~service.job.there
    /\ kind = "sabnzbd" => ~c.magnet
    /\ kind # "sabnzbd" => first = "queue"
    /\ c.op = "select" => service.job.known
    /\ Leave(p, [c EXCEPT !.todo = Todo(c, first), !.disturbed = FlagIsStale],
             client, service)
    /\ UNCHANGED troubles

\* A request on its way.
Sent(p) == /\ Running(p)
           /\ ~Head(call[p].todo).refused

Exchange(p) == /\ Sent(p)
               /\ ~Refuses(call[p])
               /\ Leave(p, Takes(call[p]).call, Takes(call[p]).mem, Serves(call[p]))
               /\ UNCHANGED troubles

\* The refusal of a request, and the moment the client hears of it: until then
\* other calls go on, and may have begun a new session already.
Refuse(p) == /\ Sent(p)
             /\ Refuses(call[p])
             /\ call' = [call EXCEPT ![p].todo = <<[Head(@) EXCEPT !.refused = TRUE]>> \o Tail(@)]
             /\ UNCHANGED <<kind, client, service, troubles>>

Retries_(p) == Cardinality({i \in DOMAIN call[p].todo : call[p].todo[i].again})

Retry(p) == /\ Running(p)
            /\ Head(call[p].todo).refused
            /\ Retries_(p) < MaxRetries
            /\ Leave(p, Retries(call[p]).call, Retries(call[p]).mem, service)
            /\ UNCHANGED troubles

\* Two Deluge calls can go on throwing away each other's session, each from
\* within the other's retry, until the signal of the caller ends them.
TimeOut(p) == /\ Running(p)
              /\ Head(call[p].todo).refused
              /\ Retries_(p) >= MaxRetries
              /\ Leave(p, [call[p] EXCEPT !.todo = <<>>, !.state = "unreachable"], client, service)
              /\ UNCHANGED troubles

\* No connection, a timeout, an HTTP error or an unreadable body: the request
\* may have been carried out all the same.
Fail(p) == /\ Sent(p)
           /\ troubles < MaxTroubles
           /\ troubles' = troubles + 1
           /\ \E error \in {"unreachable", "unexpected_response"}, arrived \in BOOLEAN :
                Leave(p, [Throw(call[p], error) EXCEPT !.disturbed = TRUE], client,
                      IF arrived /\ ~Refuses(call[p]) THEN Serves(call[p]) ELSE service)

Disturb(c) == [c EXCEPT !.disturbed = @ \/ c.state = "running",
                       !.sent = IF @ = "good" THEN "stale" ELSE @]

\* The service restarts, or forgets the session: the one of requests on their
\* way too.
Expire == /\ troubles < MaxTroubles
          /\ troubles' = troubles + 1
          /\ client.session = "good"
          /\ client' = [client EXCEPT !.session = "stale"]
          /\ call' = [p \in Proc |-> Disturb(call[p])]
          /\ UNCHANGED <<kind, service>>

\* Deluge's web interface loses its daemon; its user disables the plugin.
Detach == /\ troubles < MaxTroubles
          /\ troubles' = troubles + 1
          /\ kind = "deluge"
          /\ \/ service.attached /\ service' = [service EXCEPT !.attached = FALSE]
             \/ service.plugin /\ service' = [service EXCEPT !.plugin = FALSE]
          /\ call' = [p \in Proc |-> [call[p] EXCEPT !.disturbed = @ \/ Running(p)]]
          /\ UNCHANGED <<kind, client>>

\* The files of a magnet become known; SABnzbd's job moves to the history.
Progress == /\ service.job.there
            /\ \/ /\ ~service.job.known
                  /\ service' = [service EXCEPT !.job.known = TRUE]
                  /\ UNCHANGED call
               \/ /\ kind = "sabnzbd"
                  /\ ~service.job.past
                  /\ service' = [service EXCEPT !.job.past = TRUE]
                  /\ call' = [p \in Proc |-> [call[p] EXCEPT !.crossed = @ \/ Running(p)]]
            /\ UNCHANGED <<kind, client, troubles>>

AdapterNext == \/ \E p \in Proc : Begin(p) \/ Exchange(p) \/ Refuse(p) \/ Retry(p) \/ TimeOut(p) \/ Fail(p)
               \/ Expire \/ Detach \/ Progress

AdapterSpec == AdapterInit /\ [][AdapterNext]_wire
-----------------------------------------------------------------------------
\* A call fails only for something that happened during it, whatever state of
\* the session, of the connection to the daemon and of the cached flags it
\* began in: the clients recover by themselves.  Two things cost a Deluge call
\* more: a Label plugin disabled behind the client's flag, and another call that
\* hears of the old session's end late and throws the new one away, while this
\* one is between logging in and its second and last attempt.
OnlyDisturbedCallsFail ==
  \A p \in Proc : \/ call[p].state \in {"running", "ok"}
                  \/ call[p].disturbed
                  \/ call[p].crossed
                  \/ kind = "deluge" /\ call[p].robbed

\* The early returns that answer ok and do nothing: Deluge's files could not be
\* read; SABnzbd's job is finished, was looked for while it moved, or is asked
\* to take files back.  And a command for a job that has just gone.
Silent(c) == \/ c.crossed
             \/ kind = "deluge" /\ c.op = "select" /\ ~c.read.files
             \/ kind = "sabnzbd" /\ c.op \in {"submit", "mark", "select", "run"} /\ c.read.place = "history"
             \/ kind = "sabnzbd" /\ c.op = "select" /\ c.want

\* A call that answers ok had the effect it was asked for, except in the cases
\* above: the download operations take the answer at its word.
OkMeansDone ==
  \A p \in Proc : call[p].state = "ok" => call[p].done \/ Silent(call[p])

\* A job that a submit made carries its marker from the first instant, so that
\* no crash or failure leaves one that nobody owns; only Deluge adds first and
\* labels later, and leaves it so when the submit was disturbed in between.
MarkedFromTheStart ==
  service.job.ours =>
    \/ service.job.markers # {}
    \/ kind = "deluge" /\ (troubles > 0 \/ \E p \in Proc : Running(p) /\ call[p].op = "submit")
=============================================================================
