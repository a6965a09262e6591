-------------------------------- MODULE Rss --------------------------------
(***************************************************************************)
(* Saved searches (src/rss/poll.ts, src/rss/state.ts): the job, and "poll  *)
(* now" of the dashboard (src/admin/routes.ts), fetch the feed and add     *)
(* each item that is new; what has become of the items is kept in memory,  *)
(* the latest of them, and is how an item is known to be new.  The user    *)
(* may ignore an item.  Polls of one search may overlap.                   *)
(***************************************************************************)
EXTENDS Naturals, Sequences, FiniteSets, FiniteSetsExt, SequencesExt

CONSTANTS Guid,          \* items
          Linkless,      \* the items no link of which can be used
          Poller,        \* the job, the dashboard
          ItemLimit,     \* items of a feed that are read, fifty
          HistoryLimit   \* items whose fate is kept, thirty

VARIABLES feed,       \* what the feed has, the newest first
          configured,    \* the search is in the settings
          history,    \* the items kept, the latest first: [guid, status]
          added,      \* history: items that were given to TransferService.add
          poll,       \* the polls under way: the items to come, the one being added
          ignored,    \* history: what the user has ignored since the start
          again       \* history: ignored items that a later poll has added

rssVars == <<feed, configured, history, added, poll, ignored, again>>

NoPoll == [at |-> "idle", items |-> <<>>]

RssInit == /\ feed = <<>> /\ configured = TRUE
           /\ history = <<>> /\ added = {}
           /\ poll = [p \in Poller |-> NoPoll]
           /\ ignored = {} /\ again = {}

\* recordItem: to the front, without its old entry; what is too much falls out.
Recorded(guid, status) ==
  LET others == SelectSeq(history, LAMBDA item : item.guid # guid)
      all == <<[guid |-> guid, status |-> status]>> \o others
  IN  SubSeq(all, 1, Min({Len(all), HistoryLimit}))

IsItemSeen(guid) == \E i \in DOMAIN history : history[i].guid = guid

\* The indexer publishes an item.
Publishes(guid) == /\ guid \notin Range(feed)
                   /\ feed' = <<guid>> \o feed
                   /\ UNCHANGED <<configured, history, added, poll, ignored, again>>

\* pruneSearches, at every tick: a search that is gone from the settings is forgotten.
Prunes == /\ ~configured
          /\ history' = <<>> /\ ignored' = {}
          /\ UNCHANGED <<feed, configured, added, poll, again>>

Configures == /\ configured' = ~configured
              /\ UNCHANGED <<feed, history, added, poll, ignored, again>>

\* The feed is read, or cannot be, and then nothing else happens.
Fetches(p) ==
  /\ poll[p].at = "idle" /\ configured
  /\ poll' = [poll EXCEPT ![p] = [at |-> "between", items |-> SubSeq(feed, 1, Min({Len(feed), ItemLimit}))]]
  /\ UNCHANGED <<feed, configured, history, added, ignored, again>>

Between(p) == poll[p].at = "between" /\ poll[p].items # <<>>
NextItem(p) == Head(poll[p].items)

\* It has been seen, or the filter of titles does not want it.
PassesOver(p) ==
  /\ Between(p) /\ IsItemSeen(NextItem(p))
  /\ poll' = [poll EXCEPT ![p].items = Tail(@)]
  /\ UNCHANGED <<feed, configured, history, added, ignored, again>>

HasNoLink(p) ==
  /\ Between(p) /\ ~IsItemSeen(NextItem(p)) /\ NextItem(p) \in Linkless
  /\ history' = Recorded(NextItem(p), "error")
  /\ poll' = [poll EXCEPT ![p].items = Tail(@)]
  /\ UNCHANGED <<feed, configured, added, ignored, again>>

\* service.add is called.
AddsItem(p) ==
  /\ Between(p) /\ ~IsItemSeen(NextItem(p)) /\ NextItem(p) \notin Linkless
  /\ poll' = [poll EXCEPT ![p].at = "adding"]
  /\ again' = again \cup ({NextItem(p)} \cap ignored)
  /\ UNCHANGED <<feed, configured, history, added, ignored>>

\* It has ended, well or not; a title that is ours already is no new one.
ItemEnds(p, status) ==
  /\ poll[p].at = "adding"
  /\ history' = Recorded(NextItem(p), status)
  /\ added' = IF status = "added" THEN added \cup {NextItem(p)} ELSE added
  /\ poll' = [poll EXCEPT ![p] = [at |-> "between", items |-> Tail(@.items)]]
  /\ UNCHANGED <<feed, configured, ignored, again>>

PollEnds(p) == /\ poll[p].at = "between" /\ poll[p].items = <<>>
               /\ poll' = [poll EXCEPT ![p] = NoPoll]
               /\ UNCHANGED <<feed, configured, history, added, ignored, again>>

\* The user ignores an item that the dashboard shows.
Ignores(guid) ==
  /\ IsItemSeen(guid)
  /\ history' = Recorded(guid, "ignored")
  /\ ignored' = ignored \cup {guid}
  /\ UNCHANGED <<feed, configured, added, poll, again>>

\* All of it is in memory, which the comment says is harmless.
Restart == /\ history' = <<>> /\ ignored' = {}
           /\ poll' = [p \in Poller |-> NoPoll]
           /\ UNCHANGED <<feed, configured, added, again>>

RssNext == \/ \E guid \in Guid : Publishes(guid) \/ Ignores(guid)
           \/ \E p \in Poller : \/ Fetches(p) \/ PassesOver(p) \/ HasNoLink(p) \/ AddsItem(p) \/ PollEnds(p)
                                \/ \E status \in {"added", "error"} : ItemEnds(p, status)
           \/ Prunes \/ Configures \/ Restart
-----------------------------------------------------------------------------
\* An item the user has ignored is not added by a later poll ("a manual "ignore" from
\* the dashboard: either way, the guid becomes seen so a later poll of the same feed
\* does not reprocess it", rss/state.ts:42-44), a restart and a removed search apart.
IgnoredStaysIgnored == again = {}
=============================================================================
