----------------------------- MODULE FifoLock -----------------------------
(***************************************************************************)
(* What src/downloads/coordinator.ts promises its callers, without its     *)
(* promise chains: for every key there is a queue of calls, at most one of *)
(* them, the first, holds the key, and calls leave in the order in which   *)
(* they arrived.                                                           *)
(***************************************************************************)
EXTENDS Naturals, Sequences

CONSTANTS Call,   \* the calls that may be outstanding
          Key,    \* the keys they serialise on
          None    \* no call

VARIABLES queue,  \* queue[k]: the calls on k, oldest first
          holder  \* holder[k]: the call whose work is running on k, or None

vars == <<queue, holder>>

InQueue(c, k) == \E i \in 1..Len(queue[k]) : queue[k][i] = c

Init == /\ queue = [k \in Key |-> <<>>]
        /\ holder = [k \in Key |-> None]

\* A call that waits for nothing else joins the end of one queue.
Join(c, k) == /\ \A l \in Key : ~InQueue(c, l)
              /\ queue' = [queue EXCEPT ![k] = Append(@, c)]
              /\ UNCHANGED holder

\* The first call of a free key starts its work.
Acquire(k) == /\ holder[k] = None
              /\ queue[k] # <<>>
              /\ holder' = [holder EXCEPT ![k] = Head(queue[k])]
              /\ UNCHANGED queue

\* The holder's work ends, well or badly, and the key is free again.
Leave(k) == /\ holder[k] # None
            /\ queue' = [queue EXCEPT ![k] = Tail(@)]
            /\ holder' = [holder EXCEPT ![k] = None]

Next == \E k \in Key : \/ \E c \in Call : Join(c, k)
                       \/ Acquire(k)
                       \/ Leave(k)

Spec == Init /\ [][Next]_vars
=============================================================================
