---------------------------- MODULE Idempotency ----------------------------
(***************************************************************************)
(* Creation of transfers under an Idempotency-Key                          *)
(* (src/api/v1/idempotency.ts), over the table of responses                *)
(* (src/state/sqlite/idempotency.ts) and the map of calls in flight.       *)
(* Clients send a request again as often as they like, also while the      *)
(* first is under way.  A response is the number of its computation.       *)
(***************************************************************************)
EXTENDS Naturals, Sequences, FiniteSets, SequencesExt

CONSTANTS Post,         \* requests a client has open at once
          PostKey,      \* keys, each with its token
          MAX_ENTRIES,
          Faults,       \* what may go wrong: "crash", "compute", "put", "expire"
          MaxComputed,  \* bound: computations
          NoPost

ASSUME IdempotencyAssumption == /\ {MAX_ENTRIES, MaxComputed} \subseteq Nat \ {0}
                                /\ Faults \subseteq {"crash", "compute", "put", "expire"}
                                /\ NoPost \notin Post \cup PostKey

VARIABLES rows,      \* the table: a sequence of keys and responses, oldest first
          inflight,  \* [PostKey -> Post or NoPost]: the call whose promise is in the map
          callAt, keyOf,   \* of a call
          result,    \* of a call that computes: its response, once it has one
          computed,  \* computations so far
          origin,    \* history: [PostKey -> set of computations]
          excuse     \* history: [PostKey -> faults that lost a response]

replayVars == <<rows, inflight, callAt, keyOf, result, computed, origin, excuse>>

Stored(k) == {r \in ToSet(rows) : r.key = k}

CallGoes(c, to) == callAt' = [callAt EXCEPT ![c] = to]
-----------------------------------------------------------------------------
ReplayInit == /\ rows = <<>>
              /\ inflight = [k \in PostKey |-> NoPost]
              /\ callAt = [c \in Post |-> "idle"]
              /\ keyOf = [c \in Post |-> NoPost]
              /\ result = [c \in Post |-> 0]
              /\ computed = 0
              /\ origin = [k \in PostKey |-> {}]
              /\ excuse = [k \in PostKey |-> 0]

Excused(k) == excuse' = [excuse EXCEPT ![k] = @ + 1]

\* run(): the key is in flight, is stored, or is computed now.
Waits(c, k) == /\ callAt[c] = "idle"
               /\ inflight[k] # NoPost /\ callAt[inflight[k]] = "computing"
               /\ keyOf' = [keyOf EXCEPT ![c] = k]
               /\ CallGoes(c, "waiting")
               /\ UNCHANGED <<rows, inflight, result, computed, origin, excuse>>

\* The promise in the map is resolved, its response on the way to the table.
Shares(c, k) == /\ callAt[c] = "idle"
                /\ inflight[k] # NoPost /\ callAt[inflight[k]] = "storing"
                /\ keyOf' = [keyOf EXCEPT ![c] = k]
                /\ result' = [result EXCEPT ![c] = result[inflight[k]]]
                /\ CallGoes(c, "answered")
                /\ UNCHANGED <<rows, inflight, computed, origin, excuse>>

Replays(c, k) == /\ callAt[c] = "idle"
                 /\ inflight[k] = NoPost
                 /\ \E r \in Stored(k) : result' = [result EXCEPT ![c] = r.response]
                 /\ keyOf' = [keyOf EXCEPT ![c] = k]
                 /\ CallGoes(c, "answered")
                 /\ UNCHANGED <<rows, inflight, computed, origin, excuse>>

\* Mutant: the promise enters the map after the work.
ComputesUnseen(c, k) == /\ callAt[c] = "idle"
                        /\ inflight[k] = NoPost
                        /\ Stored(k) = {}
                        /\ keyOf' = [keyOf EXCEPT ![c] = k]
                        /\ CallGoes(c, "computing")
                        /\ UNCHANGED <<rows, inflight, result, computed, origin, excuse>>

Computes(c, k) == /\ callAt[c] = "idle"
                  /\ inflight[k] = NoPost
                  /\ Stored(k) = {}
                  /\ inflight' = [inflight EXCEPT ![k] = c]
                  /\ keyOf' = [keyOf EXCEPT ![c] = k]
                  /\ CallGoes(c, "computing")
                  /\ UNCHANGED <<rows, result, computed, origin, excuse>>

\* compute() resolves: the transfer is submitted.  Those who wait have the
\* response now, before it is stored.
Submits(c) == /\ callAt[c] = "computing"
              /\ computed < MaxComputed
              /\ computed' = computed + 1
              /\ origin' = [origin EXCEPT ![keyOf[c]] = @ \cup {computed'}]
              /\ result' = [d \in Post |-> IF d = c \/ (callAt[d] = "waiting" /\ keyOf[d] = keyOf[c])
                                           THEN computed' ELSE result[d]]
              /\ callAt' = [d \in Post |-> IF d = c THEN "storing"
                                           ELSE IF callAt[d] = "waiting" /\ keyOf[d] = keyOf[c] THEN "answered" ELSE callAt[d]]
              /\ UNCHANGED <<rows, inflight, keyOf, excuse>>

\* put(): at the limit the oldest row makes place.
Room == IF Len(rows) >= MAX_ENTRIES THEN Tail(rows) ELSE rows

Puts(c) == /\ callAt[c] = "storing"
           /\ rows' = Append(Room, [key |-> keyOf[c], response |-> result[c]])
           /\ excuse' = [k \in PostKey |-> IF Room # rows /\ k = Head(rows).key THEN excuse[k] + 1 ELSE excuse[k]]
           /\ inflight' = [inflight EXCEPT ![keyOf[c]] = NoPost]
           /\ CallGoes(c, "answered")
           /\ UNCHANGED <<keyOf, result, computed, origin>>

\* The table cannot be written: the caller gets an error, for work that is done.
PutFails(c) == /\ "put" \in Faults
               /\ callAt[c] = "storing"
               /\ Excused(keyOf[c])
               /\ inflight' = [inflight EXCEPT ![keyOf[c]] = NoPost]
               /\ CallGoes(c, "failed")
               /\ UNCHANGED <<rows, keyOf, result, computed, origin>>

\* Mutant: the map keeps a promise that was rejected.
ComputeFailsForGood(c) == /\ "compute" \in Faults
                          /\ callAt[c] = "computing"
                          /\ CallGoes(c, "failed")
                          /\ UNCHANGED <<rows, inflight, keyOf, result, computed, origin, excuse>>

\* compute() rejects, for the caller and for all who wait.
ComputeFails(c) == /\ "compute" \in Faults
                   /\ callAt[c] = "computing"
                   /\ inflight' = [inflight EXCEPT ![keyOf[c]] = NoPost]
                   /\ callAt' = [d \in Post |-> IF d = c \/ (callAt[d] = "waiting" /\ keyOf[d] = keyOf[c])
                                                THEN "failed" ELSE callAt[d]]
                   /\ UNCHANGED <<rows, keyOf, result, computed, origin, excuse>>

\* A day has passed (TTL_MS), and the row of the key goes.
Expires(k) == /\ "expire" \in Faults
              /\ \E i \in DOMAIN rows : rows[i].key = k /\ rows' = RemoveAt(rows, i)
              /\ Excused(k)
              /\ UNCHANGED <<inflight, callAt, keyOf, result, computed, origin>>

\* The client has what it wants, or asks again.
Returns(c) == /\ callAt[c] \in {"answered", "failed"}
              /\ CallGoes(c, "idle")
              /\ keyOf' = [keyOf EXCEPT ![c] = NoPost]
              /\ result' = [result EXCEPT ![c] = 0]
              /\ UNCHANGED <<rows, inflight, computed, origin, excuse>>

\* The process dies and starts again: the table survives, the map does not.
ReplayCrash == /\ "crash" \in Faults
               /\ \E c \in Post : callAt[c] # "idle"
               /\ callAt' = [c \in Post |-> "idle"]
               /\ keyOf' = [c \in Post |-> NoPost]
               /\ result' = [c \in Post |-> 0]
               /\ inflight' = [k \in PostKey |-> NoPost]
               /\ excuse' = [k \in PostKey |-> IF \E c \in Post : callAt[c] = "storing" /\ keyOf[c] = k
                                           THEN excuse[k] + 1 ELSE excuse[k]]
               /\ UNCHANGED <<rows, computed, origin>>

CallEnds(c) == Submits(c) \/ Puts(c) \/ PutFails(c) \/ ComputeFails(c)

ReplayNext == \/ \E c \in Post : \/ \E k \in PostKey : Waits(c, k) \/ Shares(c, k) \/ Replays(c, k) \/ Computes(c, k)
                                 \/ Submits(c) \/ Puts(c) \/ PutFails(c) \/ ComputeFails(c) \/ Returns(c)
              \/ \E k \in PostKey : Expires(k)
              \/ ReplayCrash

\* Work ends, by the deadline of its calls (timeouts.ts).
ReplaySpec == ReplayInit /\ [][ReplayNext]_replayVars /\ \A c \in Post : WF_replayVars(CallEnds(c))
-----------------------------------------------------------------------------
\* A key is computed once more only for each time a fault took its response away:
\* a crash or a failed write between the work and its row, a row that expired or
\* made place; never because requests raced (idempotency.ts:25-42).
ComputedOnce == \A k \in PostKey : Cardinality(origin[k]) <= 1 + excuse[k]

\* A computation leaves the map, however it ends, and its key can be tried again
\* (`finally`, idempotency.ts:39).
FlightsEnd == \A k \in PostKey : inflight[k] # NoPost ~> inflight[k] = NoPost

\* A key is computed once ("a client retry after a crash gets the original response
\* instead of a second submission", sqlite/idempotency.ts:10).
NoSecondSubmission == \A k \in PostKey : Cardinality(origin[k]) <= 1
=============================================================================
