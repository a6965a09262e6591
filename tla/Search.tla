------------------------------ MODULE Search -------------------------------
(***************************************************************************)
(* What an episode or film can be played from: the copies that are on disk *)
(* (src/addon/cached.ts) beside the releases that the sources find         *)
(* (src/search/index.ts), the two asked for at once by the addon (src/     *)
(* addon/streams.ts).  Every source is asked every query, each of which    *)
(* answers or fails when it likes; what the answers have in common is      *)
(* listed once, and each source's answers are held to its own preferences. *)
(***************************************************************************)
EXTENDS Orders, FiniteSetsExt, SequencesExt

CONSTANTS Sources,    \* number of configured sources
          Queries,    \* queries made of the title's names
          Prefers,    \* [1..Sources -> languages, {} for any]
          Release,    \* what sources may find
          Copy,       \* hashes that copies of the title have
          Limit,      \* results, twenty
          SeedFloor,  \* three
          MaxFound    \* bound: releases in an answer, copies

ASSUME SearchAssumption == /\ {Sources, Queries, Limit} \subseteq Nat \ {0} /\ {SeedFloor, MaxFound} \subseteq Nat
                           /\ \A release \in Release : release.seeders \in Nat

VARIABLES answer,     \* [Job -> what came of it]
          copies,     \* the copies on disk that can be played, in order
          streams     \* what the client is answered

searchVars == <<answer, copies, streams>>

\* A release.  key: the hash, or title and size; usable: of our protocol, with a link
\* that fits; is: "episode", "pack" of its season or "series", a pack of all seasons, when
\* it matches the title and what is wanted, else "other"; languages, "multi" among them;
\* seeders.

Job == 1..(Sources * Queries)
SourceOf(job) == ((job - 1) \div Queries) + 1
Pending == [state |-> "pending", found |-> <<>>]
NoStreams == [at |-> "idle", candidates |-> <<>>, top |-> <<>>, list |-> <<>>]
Settled == \A job \in Job : answer[job].state # "pending"

Fits(release, preferred) ==
  \/ preferred = {} \/ release.languages = {}
  \/ "multi" \in release.languages
  \/ release.languages \cap preferred # {}

\* Where something was found: a job, and a place in its answer.
Finds == UNION {{<<job, i>> : i \in DOMAIN answer[job].found} : job \in Job}
CandidateAt(x) == [release |-> answer[x[1]].found[x[2]], preferred |-> Prefers[SourceOf(x[1])]]

Sooner(x, y) == x[1] < y[1] \/ (x[1] = y[1] /\ x[2] < y[2])
Twins(x, y) == CandidateAt(x).release.key = CandidateAt(y).release.key

Matches(c) == c.release.usable /\ c.release.is # "other"
Eligible(c) == Matches(c) /\ Fits(c.release, c.preferred)

\* Mutant: a release is seen before it is known to fit.
CollectedSeenFirst ==
  {x \in Finds : /\ Eligible(CandidateAt(x))
                 /\ \A y \in Finds : Sooner(y, x) /\ Twins(y, x) => ~Matches(CandidateAt(y))}

\* A release is held to the preferences of the source that found it, and taken when
\* none of its key was taken before.
Collected ==
  {x \in Finds : /\ Eligible(CandidateAt(x))
                 /\ \A y \in Finds : Sooner(y, x) /\ Twins(y, x) => ~Eligible(CandidateAt(y))}

\* The answers in the order of the jobs, whichever came first.
Candidates ==
  LET order == InOrder([x \in Collected |-> {y \in Collected : Sooner(y, x)}])
  IN  [k \in DOMAIN order |-> CandidateAt(order[k])]

IsPack(c) == c.release.is \in {"pack", "series"}
HealthyPack(c) == IsPack(c) /\ c.release.seeders >= SeedFloor
Wished(c) == c.preferred = {} \/ c.release.languages \cap (c.preferred \cup {"multi"}) # {}

\* rankCandidates: packs that can be had, then seeders, then the language.
Better(a, b) ==
  IF HealthyPack(a) # HealthyPack(b) THEN HealthyPack(a)
  ELSE IF a.release.seeders # b.release.seeders THEN a.release.seeders > b.release.seeders
  ELSE Wished(a) /\ ~Wished(b)

Ranked(candidates) ==
  LET order == InOrder([i \in DOMAIN candidates |->
                          {j \in DOMAIN candidates : \/ Better(candidates[j], candidates[i])
                                                     \/ j < i /\ ~Better(candidates[i], candidates[j])}])
  IN  [k \in DOMAIN order |-> candidates[order[k]]]

\* The best of them; a pack, best of the season, has the last place when none has another.
Top(candidates) ==
  LET ranked == Ranked(candidates)
      top == SubSeq(ranked, 1, Min({Limit, Len(ranked)}))
      packs == {k \in DOMAIN ranked : IsPack(ranked[k])}
      ofSeason == {k \in packs : ranked[k].release.is = "pack"}
  IN  IF Len(top) = Limit /\ packs # {} /\ packs \cap DOMAIN top = {}
      THEN [top EXCEPT ![Limit] = ranked[Min(IF ofSeason # {} THEN ofSeason ELSE packs)]] ELSE top

\* buildStreamList: a release that is on disk is not listed a second time.
StreamsOf(onDisk, top) ==
  [i \in DOMAIN onDisk |-> [key |-> onDisk[i], cached |-> TRUE]]
  \o LET fresh == Those(top, {k \in DOMAIN top : top[k].release.key \notin Range(onDisk)})
     IN  [i \in DOMAIN fresh |-> [key |-> fresh[i].release.key, cached |-> FALSE]]
-----------------------------------------------------------------------------
SearchInit == /\ answer = [job \in Job |-> Pending]
              /\ copies = <<>>
              /\ streams = NoStreams

BeginsSearch == /\ streams.at = "idle"
                /\ streams' = [NoStreams EXCEPT !.at = "asked"]
                /\ UNCHANGED <<answer, copies>>

\* cachedCopies: the copies that are ours, selected and of this episode, none when
\* the backend does not answer in time; one that cannot be opened hides no other.
FindsCopies(found) ==
  /\ streams.at = "asked" /\ IsInjective(found)
  /\ copies' = found
  /\ streams' = [streams EXCEPT !.at = "searching"]
  /\ UNCHANGED answer

Answers(job, found) == /\ streams.at \in {"asked", "searching"} /\ answer[job] = Pending
                       /\ answer' = [answer EXCEPT ![job] = [state |-> "answered", found |-> found]]
                       /\ UNCHANGED <<copies, streams>>

\* A source that cannot be reached, or a query that has taken too long.
QueryFails(job) == /\ streams.at \in {"asked", "searching"} /\ answer[job] = Pending
                   /\ answer' = [answer EXCEPT ![job].state = "failed"]
                   /\ UNCHANGED <<copies, streams>>

Lists(candidates) ==
  /\ streams' = [at |-> "answered", candidates |-> candidates, top |-> Top(candidates),
                 list |-> StreamsOf(copies, Top(candidates))]
  /\ UNCHANGED <<answer, copies>>

\* All have settled.
ListsStreams == streams.at = "searching" /\ Settled /\ Lists(Candidates)

\* The title's name is not to be had, so nothing can be searched for.
ListsCopies == /\ streams.at = "searching"
               /\ \A job \in Job : answer[job] = Pending
               /\ Lists(<<>>)

Answered == streams.at = "answered" /\ answer' = [job \in Job |-> Pending]
            /\ copies' = <<>> /\ streams' = NoStreams

SearchNext == \/ BeginsSearch \/ ListsStreams \/ ListsCopies \/ Answered
              \/ \E found \in SeqOf(Copy, MaxFound) : FindsCopies(found)
              \/ \E job \in Job : QueryFails(job) \/ \E found \in SeqOf(Release, MaxFound) : Answers(job, found)

SearchSpec == SearchInit /\ [][SearchNext]_searchVars
-----------------------------------------------------------------------------
\* What can be played is listed, and listed once: every release that fits a source
\* that found it is a candidate, though another source or query found it too, whose
\* preferences it does not fit, or failed; a pack is kept when the list is cut, and
\* the copies are listed whatever becomes of the search (search/index.ts:113-153,
\* addon/streams.ts:73-80).
SearchComplete ==
  streams.at = "answered" =>
    LET found(job) == Range(answer[job].found)
        fitting == {r \in UNION {found(job) : job \in Job} :
                      r.usable /\ r.is # "other"
                      /\ \E job \in Job : r \in found(job) /\ Fits(r, Prefers[SourceOf(job)])}
        keys == {r.key : r \in fitting}
        listed == [i \in DOMAIN streams.list |-> streams.list[i].key]
    IN  /\ {c.release.key : c \in Range(streams.candidates)} = keys
        /\ IsInjective(listed) /\ Range(copies) \subseteq Range(listed)
        /\ Cardinality(keys) <= Limit => Range(listed) = Range(copies) \cup keys
        /\ Len(streams.top) = Min({Limit, Cardinality(keys)})
        /\ (\E c \in Range(streams.candidates) : IsPack(c)) => \E c \in Range(streams.top) : IsPack(c)
=============================================================================
