------------------------- MODULE CoordinatorProofs -------------------------
(***************************************************************************)
(* The coordinator is a mutual exclusion lock with a first-in first-out    *)
(* queue, for every set of calls, every nesting and every limit.           *)
(*                                                                         *)
(* The invariant says how the promise chain lies along the queue of        *)
(* unsettled calls: the first of them is chained behind nothing, every     *)
(* other one behind its predecessor, and the tail is the last.  The count  *)
(* matters for one step only, but there it is needed: the call that        *)
(* deletes the entry is alone, so the tail it throws away was settled.     *)
(***************************************************************************)
EXTENDS Coordinator, FiniteSetTheorems, TLAPS

\* The queue of a key holds its unsettled calls, each once.
QueueHolds ==
  /\ \A k \in Key : \A i \in 1..Len(order[k]) :
       key[order[k][i]] = k /\ Unsettled(order[k][i])
  /\ \A k \in Key : \A i, j \in 1..Len(order[k]) : order[k][i] = order[k][j] => i = j
  /\ \A c \in Call : Unsettled(c) => \E i \in 1..Len(order[key[c]]) : order[key[c]][i] = c

\* The chain of promises lies along the queue.
ChainFollowsQueue ==
  /\ \A k \in Key : \A i \in 1..Len(order[k]) :
       after[order[k][i]] = IF i = 1 THEN None ELSE order[k][i - 1]
  /\ \A c \in Call : pc[c] # "waiting" => after[c] = None
  /\ \A k \in Key : tail[k] = IF order[k] = <<>> THEN None ELSE order[k][Len(order[k])]

\* A call has a key exactly while it is outstanding.
KeyWhileOutstanding == \A c \in Call : pc[c] = "idle" <=> key[c] = None

IInv == /\ TypeOK
        /\ QueueHolds
        /\ ChainFollowsQueue
        /\ KeyWhileOutstanding
        /\ OutstandingCounted

-----------------------------------------------------------------------------
\* None is neither a call nor a key, and outstanding calls are finitely many.
LEMMA Basics ==
  ASSUME TypeOK
  PROVE  /\ None \notin Call /\ None \notin Key
         /\ \A k \in Key : IsFiniteSet(Outstanding(k)) /\ Cardinality(Outstanding(k)) \in Nat
<1>1. None \notin Call /\ None \notin Key
  BY CallAssumption, KeyAssumption DEF Key
<1>2. ASSUME NEW k \in Key
      PROVE  IsFiniteSet(Outstanding(k)) /\ Cardinality(Outstanding(k)) \in Nat
  <2>1. Outstanding(k) \subseteq Call
    BY DEF Outstanding
  <2>2. IsFiniteSet(Outstanding(k))
    BY <2>1, CallAssumption, FS_Subset
  <2>3. QED
    BY <2>2, FS_CardinalityType
<1>3. QED
  BY <1>1, <1>2

\* Entering a section keeps the invariant.
LEMMA Enter ==
  ASSUME NEW c \in Call, NEW k \in Key, IInv, coordinated(c, k), made' \subseteq Nested
  PROVE  IInv'
<1> USE DEF IInv
<1>1. None \notin Call /\ None \notin Key
  BY Basics
<1>2. /\ pc' = [pc EXCEPT ![c] = "waiting"] /\ key' = [key EXCEPT ![c] = k]
      /\ after' = [after EXCEPT ![c] = tail[k]] /\ tail' = [tail EXCEPT ![k] = c]
      /\ count' = [count EXCEPT ![k] = @ + 1]
      /\ order' = [order EXCEPT ![k] = Append(@, c)]
      /\ pc[c] = "idle" /\ count[k] < Limit
  BY DEF coordinated
<1>3. TypeOK'
  <2>1. order' \in [Key -> Seq(Call)]
    BY <1>2 DEF TypeOK
  <2>2. count' \in [Key -> 0..Limit]
    BY <1>2, KeyAssumption DEF TypeOK
  <2>3. QED
    BY <1>2, <2>1, <2>2 DEF TypeOK, States
<1>4. /\ Len(order'[k]) = Len(order[k]) + 1
      /\ order'[k][Len(order[k]) + 1] = c
      /\ \A i \in 1..Len(order[k]) : order'[k][i] = order[k][i]
      /\ \A l \in Key \ {k} : order'[l] = order[l]
      /\ \A l \in Key : order[l] \in Seq(Call) /\ Len(order[l]) \in Nat
  BY <1>2 DEF TypeOK
<1>5. \A l \in Key : \A i \in 1..Len(order[l]) : order[l][i] \in Call /\ order[l][i] # c
  BY <1>2, <1>4 DEF QueueHolds, Unsettled
<1>6. QueueHolds'
  <2>1. ASSUME NEW l \in Key, NEW i \in 1..Len(order'[l])
        PROVE  (key[order[l][i]] = l /\ Unsettled(order[l][i]))'
    <3>1. CASE l = k /\ i = Len(order[k]) + 1
      BY <3>1, <1>2, <1>4 DEF Unsettled, TypeOK
    <3>2. CASE i \in 1..Len(order[l]) /\ order'[l][i] = order[l][i]
      BY <3>2, <1>2, <1>5 DEF QueueHolds, Unsettled, TypeOK
    <3>3. QED
      BY <3>1, <3>2, <1>4
  <2>2. ASSUME NEW l \in Key, NEW i \in 1..Len(order'[l]), NEW j \in 1..Len(order'[l]),
               order'[l][i] = order'[l][j]
        PROVE  i = j
    <3>1. CASE l # k
      <4>1. order'[l] = order[l]
        BY <1>4, <3>1
      <4> QED BY <2>2, <4>1 DEF QueueHolds
    <3>2. CASE l = k
      <4>1. PICK m \in Nat : m = Len(order[k])
        BY <1>4
      <4>2. /\ order'[k][m + 1] = c
            /\ \A o \in 1..m : order'[k][o] = order[k][o] /\ order[k][o] # c
        BY <1>4, <1>5, <4>1
      <4>3. i \in 1..(m + 1) /\ j \in 1..(m + 1) /\ order'[k][i] = order'[k][j]
        BY <1>4, <2>2, <3>2, <4>1
      <4>4. (i \in 1..m \/ i = m + 1) /\ (j \in 1..m \/ j = m + 1)
        BY <4>3
      <4>5. CASE i \in 1..m /\ j \in 1..m
        <5>1. order[k][i] = order[k][j]
          BY <4>2, <4>3, <4>5
        <5> QED BY <4>1, <4>5, <5>1 DEF QueueHolds
      <4>6. CASE i = m + 1 \/ j = m + 1
        BY <4>2, <4>3, <4>4, <4>6
      <4> QED BY <4>4, <4>5, <4>6
    <3> QED BY <3>1, <3>2
  <2>3. ASSUME NEW d \in Call, Unsettled(d)'
        PROVE  \E i \in 1..Len(order'[key'[d]]) : order'[key'[d]][i] = d
    <3>1. CASE d = c
      <4>1. key'[d] = k /\ Len(order[k]) + 1 \in 1..Len(order'[k])
        BY <3>1, <1>2, <1>4 DEF TypeOK
      <4>2. QED
        BY <4>1, <3>1, <1>4
    <3>2. CASE d # c
      <4>1. Unsettled(d) /\ key'[d] = key[d] /\ key[d] \in Key
        BY <3>2, <2>3, <1>2 DEF Unsettled, TypeOK, KeyWhileOutstanding
      <4>2. PICK i \in 1..Len(order[key[d]]) : order[key[d]][i] = d
        BY <4>1 DEF QueueHolds
      <4>3. i \in 1..Len(order'[key[d]]) /\ order'[key[d]][i] = d
        BY <4>1, <4>2, <1>4
      <4>4. QED
        BY <4>1, <4>3
    <3>3. QED
      BY <3>1, <3>2
  <2>4. QED
    BY <2>1, <2>2, <2>3 DEF QueueHolds
<1>7. ChainFollowsQueue'
  <2>1. ASSUME NEW l \in Key, NEW i \in 1..Len(order'[l])
        PROVE  after'[order'[l][i]] = IF i = 1 THEN None ELSE order'[l][i - 1]
    <3>1. CASE l = k /\ i = Len(order[k]) + 1
      <4>1. after'[order'[l][i]] = tail[k]
        BY <3>1, <1>2, <1>4 DEF TypeOK
      <4>2. CASE order[k] = <<>>
        BY <4>1, <4>2, <3>1 DEF ChainFollowsQueue
      <4>3. CASE order[k] # <<>>
        BY <4>1, <4>3, <3>1, <1>4 DEF ChainFollowsQueue
      <4>4. QED
        BY <4>2, <4>3
    <3>2. CASE i \in 1..Len(order[l])
      <4>1. order'[l][i] = order[l][i] /\ (i # 1 => order'[l][i - 1] = order[l][i - 1])
        <5>1. \A o \in 1..Len(order[l]) : order'[l][o] = order[l][o]
          BY <1>4
        <5>2. i # 1 => i - 1 \in 1..Len(order[l])
          BY <3>2, <1>4
        <5> QED BY <3>2, <5>1, <5>2
      <4>2. after'[order[l][i]] = after[order[l][i]]
        BY <3>2, <1>2, <1>5 DEF TypeOK
      <4>3. QED
        BY <4>1, <4>2, <3>2 DEF ChainFollowsQueue
    <3>3. QED
      BY <3>1, <3>2, <1>4
  <2>2. \A d \in Call : pc'[d] # "waiting" => after'[d] = None
    BY <1>2 DEF ChainFollowsQueue, TypeOK
  <2>3. ASSUME NEW l \in Key
        PROVE  tail'[l] = IF order'[l] = <<>> THEN None ELSE order'[l][Len(order'[l])]
    <3>1. CASE l = k
      BY <3>1, <1>2, <1>4 DEF TypeOK
    <3>2. CASE l # k
      BY <3>2, <1>2, <1>4 DEF ChainFollowsQueue, TypeOK
    <3>3. QED
      BY <3>1, <3>2
  <2>4. QED
    BY <2>1, <2>2, <2>3 DEF ChainFollowsQueue
<1>8. KeyWhileOutstanding'
  BY <1>1, <1>2 DEF KeyWhileOutstanding, TypeOK
<1>9. OutstandingCounted'
  <2>1. ASSUME NEW l \in Key
        PROVE  count'[l] = Cardinality(Outstanding(l)')
    <3>1. CASE l = k
      <4>1. Outstanding(k)' = Outstanding(k) \cup {c} /\ c \notin Outstanding(k)
        BY <1>2 DEF Outstanding, TypeOK
      <4>2. Cardinality(Outstanding(k)') = Cardinality(Outstanding(k)) + 1
        BY <4>1, Basics, FS_AddElement
      <4>3. QED
        BY <4>2, <3>1, <1>2 DEF OutstandingCounted, TypeOK
    <3>2. CASE l # k
      <4>1. Outstanding(l)' = Outstanding(l)
        BY <3>2, <1>1, <1>2 DEF Outstanding, TypeOK, KeyWhileOutstanding
      <4>2. QED
        BY <4>1, <3>2, <1>2 DEF OutstandingCounted, TypeOK
    <3>3. QED
      BY <3>1, <3>2
  <2>2. QED
    BY <2>1 DEF OutstandingCounted
<1>10. QED
  BY <1>3, <1>6, <1>7, <1>8, <1>9

\* A call whose promise is chained behind nothing is the first of its queue.
LEMMA FirstOfQueue ==
  ASSUME IInv, NEW c \in Call, Unsettled(c), after[c] = None
  PROVE  /\ key[c] \in Key
         /\ order[key[c]] # <<>>
         /\ order[key[c]][1] = c
<1> USE DEF IInv
<1>1. key[c] \in Key
  BY DEF TypeOK, KeyWhileOutstanding, Unsettled
<1>2. PICK i \in 1..Len(order[key[c]]) : order[key[c]][i] = c
  BY DEF QueueHolds
<1>3. order[key[c]] \in Seq(Call) /\ Len(order[key[c]]) \in Nat
  BY <1>1 DEF TypeOK
<1>4. i = 1
  <2> SUFFICES ASSUME i # 1 PROVE FALSE
    OBVIOUS
  <2>1. after[c] = order[key[c]][i - 1]
    BY <1>1, <1>2 DEF ChainFollowsQueue
  <2>2. i - 1 \in 1..Len(order[key[c]])
    BY <1>3
  <2>3. order[key[c]][i - 1] \in Call
    BY <1>3, <2>2
  <2>4. QED
    BY <2>1, <2>3, Basics
<1>5. QED
  BY <1>1, <1>2, <1>3, <1>4

\* Starting a call keeps the invariant: the chain does not move.
LEMMA StartKeeps ==
  ASSUME NEW c \in Call, IInv, Start(c)
  PROVE  IInv'
<1> USE DEF IInv
<1>1. /\ pc' = [pc EXCEPT ![c] = "running"] /\ pc[c] = "waiting" /\ after[c] = None
      /\ UNCHANGED <<key, after, tail, count, made, order>>
  BY DEF Start
<1>2. TypeOK'
  BY <1>1 DEF TypeOK, States
<1>3. \A d \in Call : Unsettled(d)' <=> Unsettled(d)
  BY <1>1 DEF Unsettled, TypeOK
<1>4. QueueHolds'
  <2>1. \A k \in Key : \A i \in 1..Len(order[k]) : order[k][i] \in Call
    BY DEF TypeOK
  <2>2. QED
    BY <1>1, <1>3, <2>1 DEF QueueHolds
<1>5. ChainFollowsQueue'
  BY <1>1 DEF ChainFollowsQueue, TypeOK
<1>6. KeyWhileOutstanding'
  BY <1>1 DEF KeyWhileOutstanding, TypeOK
<1>7. OutstandingCounted'
  <2>1. \A k \in Key : Outstanding(k)' = Outstanding(k)
    BY <1>1 DEF Outstanding, TypeOK
  <2>2. QED
    BY <1>1, <2>1 DEF OutstandingCounted
<1>8. QED
  BY <1>2, <1>4, <1>5, <1>6, <1>7

\* Settling the first call of a queue keeps the invariant: the next one, which
\* was chained behind it, becomes the first and is chained behind nothing.
LEMMA SettleKeeps ==
  ASSUME NEW c \in Call, IInv, Settle(c)
  PROVE  IInv'
<1> USE DEF IInv
<1>0. PICK k \in Key : k = key[c]
  BY DEF Settle, TypeOK, KeyWhileOutstanding
<1>1. /\ pc[c] = "running" /\ pc' = [pc EXCEPT ![c] = "settled"]
      /\ after' = [d \in Call |-> IF after[d] = c THEN None ELSE after[d]]
      /\ tail' = [l \in Key |-> IF tail[l] = c THEN None ELSE tail[l]]
      /\ made' = {n \in made : Parent[n] # c}
      /\ order' = [order EXCEPT ![k] = Tail(@)]
      /\ UNCHANGED <<key, count>>
  BY <1>0 DEF Settle
<1>2. None \notin Call /\ None \notin Key
  BY Basics
<1>3. Unsettled(c) /\ after[c] = None
  BY <1>1 DEF ChainFollowsQueue, Unsettled
<1>4. k \in Key /\ order[k] # <<>> /\ order[k][1] = c
  BY <1>0, <1>3, FirstOfQueue
<1>5. \A l \in Key : order[l] \in Seq(Call) /\ Len(order[l]) \in Nat
  BY DEF TypeOK
<1>6. /\ Len(order[k]) > 0
      /\ order'[k] \in Seq(Call)
      /\ Len(order'[k]) = Len(order[k]) - 1
      /\ \A i \in 1..Len(order'[k]) : order'[k][i] = order[k][i + 1]
      /\ \A l \in Key \ {k} : order'[l] = order[l]
  BY <1>1, <1>4, <1>5 DEF TypeOK
<1>7. TypeOK'
  <2>1. order' \in [Key -> Seq(Call)]
    BY <1>1, <1>6 DEF TypeOK
  <2>2. QED
    BY <1>1, <2>1 DEF TypeOK, States
<1>8. \A d \in Call : Unsettled(d)' <=> Unsettled(d) /\ d # c
  BY <1>1 DEF Unsettled, TypeOK
<1>9. \A l \in Key \ {k} : \A i \in 1..Len(order[l]) : order[l][i] \in Call /\ order[l][i] # c
  BY <1>0, <1>5, <1>4 DEF QueueHolds
<1>10. \A i \in 2..Len(order[k]) : order[k][i] \in Call /\ order[k][i] # c
  BY <1>4, <1>5 DEF QueueHolds
<1>11. QueueHolds'
  <2>1. ASSUME NEW l \in Key, NEW i \in 1..Len(order'[l])
        PROVE  (key[order[l][i]] = l /\ Unsettled(order[l][i]))'
    <3>1. CASE l = k
      <4>1. i + 1 \in 2..Len(order[k]) /\ order'[k][i] = order[k][i + 1]
        BY <3>1, <1>5, <1>4, <1>6
      <4>2. key[order[k][i + 1]] = k /\ Unsettled(order[k][i + 1])
        BY <4>1, <1>4, <1>5 DEF QueueHolds
      <4>3. QED
        BY <3>1, <4>1, <4>2, <1>1, <1>8, <1>10
    <3>2. CASE l # k
      BY <3>2, <1>1, <1>6, <1>8, <1>9 DEF QueueHolds
    <3>3. QED
      BY <3>1, <3>2
  <2>2. ASSUME NEW l \in Key, NEW i \in 1..Len(order'[l]), NEW j \in 1..Len(order'[l]),
               order'[l][i] = order'[l][j]
        PROVE  i = j
    <3>1. CASE l = k
      <4>1. i + 1 \in 1..Len(order[k]) /\ j + 1 \in 1..Len(order[k])
            /\ order[k][i + 1] = order[k][j + 1]
        BY <3>1, <2>2, <1>4, <1>5, <1>6
      <4>2. i + 1 = j + 1
        BY <4>1, <1>4 DEF QueueHolds
      <4>3. QED
        BY <4>2, <3>1, <1>4, <1>5, <1>6
    <3>2. CASE l # k
      BY <3>2, <2>2, <1>6 DEF QueueHolds
    <3>3. QED
      BY <3>1, <3>2
  <2>3. ASSUME NEW d \in Call, Unsettled(d)'
        PROVE  \E i \in 1..Len(order'[key'[d]]) : order'[key'[d]][i] = d
    <3>1. Unsettled(d) /\ d # c /\ key'[d] = key[d] /\ key[d] \in Key
      BY <2>3, <1>1, <1>8 DEF TypeOK, KeyWhileOutstanding, Unsettled
    <3>2. PICK i \in 1..Len(order[key[d]]) : order[key[d]][i] = d
      BY <3>1 DEF QueueHolds
    <3>3. CASE key[d] = k
      <4>1. i # 1
        BY <3>1, <3>2, <3>3, <1>4
      <4>2. i - 1 \in 1..Len(order'[k]) /\ order'[k][i - 1] = order[k][i]
        BY <4>1, <3>2, <3>3, <1>4, <1>5, <1>6
      <4>3. QED
        BY <4>2, <3>1, <3>2, <3>3
    <3>4. CASE key[d] # k
      BY <3>1, <3>2, <3>4, <1>6
    <3>5. QED
      BY <3>3, <3>4
  <2>4. QED
    BY <2>1, <2>2, <2>3 DEF QueueHolds
<1>12. ChainFollowsQueue'
  <2>1. ASSUME NEW l \in Key, NEW i \in 1..Len(order'[l])
        PROVE  after'[order'[l][i]] = IF i = 1 THEN None ELSE order'[l][i - 1]
    <3>1. CASE l = k
      <4>1. /\ i + 1 \in 2..Len(order[k]) /\ order'[k][i] = order[k][i + 1]
            /\ i # 1 => order'[k][i - 1] = order[k][i] /\ i \in 2..Len(order[k])
        <5>1. Len(order[k]) \in Nat /\ i \in 1..(Len(order[k]) - 1)
              /\ (i # 1 => i - 1 \in 1..(Len(order[k]) - 1) /\ (i - 1) + 1 = i)
          BY <3>1, <1>4, <1>5, <1>6
        <5>2. i + 1 \in 2..Len(order[k]) /\ (i # 1 => i \in 2..Len(order[k]))
          BY <5>1
        <5>3. QED
          BY <5>1, <5>2, <1>6
      <4>2. after[order[k][i + 1]] = order[k][i]
        <5>1. i + 1 # 1 /\ i + 1 \in 1..Len(order[k]) /\ (i + 1) - 1 = i
          BY <3>1, <4>1, <1>4, <1>5, <1>6
        <5>2. QED
          BY <5>1, <1>4 DEF ChainFollowsQueue
      <4>3. order[k][i + 1] \in Call
        BY <4>1, <1>10
      <4>4. CASE i = 1
        BY <4>1, <4>2, <4>3, <4>4, <3>1, <1>1, <1>4
      <4>5. CASE i # 1
        BY <4>1, <4>2, <4>3, <4>5, <3>1, <1>1, <1>10
      <4>6. QED
        BY <4>4, <4>5
    <3>2. CASE l # k
      <4>1. order'[l] = order[l] /\ order[l][i] \in Call /\ i \in 1..Len(order[l])
        BY <3>2, <1>6, <1>9
      <4>2. i # 1 => i - 1 \in 1..Len(order[l]) /\ order[l][i - 1] # c
        BY <3>2, <4>1, <1>5, <1>9
      <4>3. QED
        BY <4>1, <4>2, <1>1, <1>2 DEF ChainFollowsQueue
    <3>3. QED
      BY <3>1, <3>2
  <2>2. \A d \in Call : pc'[d] # "waiting" => after'[d] = None
    BY <1>1, <1>3 DEF ChainFollowsQueue, TypeOK
  <2>3. ASSUME NEW l \in Key
        PROVE  tail'[l] = IF order'[l] = <<>> THEN None ELSE order'[l][Len(order'[l])]
    <3>1. CASE l = k /\ Len(order[k]) = 1
      <4>1. tail[k] = c /\ Len(order'[k]) = 0
        BY <3>1, <1>4, <1>6 DEF ChainFollowsQueue
      <4>2. QED
        BY <4>1, <3>1, <1>1, <1>4, <1>6
    <3>2. CASE l = k /\ Len(order[k]) # 1
      <4>1. Len(order[k]) \in 2..Len(order[k]) /\ Len(order'[k]) \in 1..Len(order'[k])
        <5>1. Len(order[k]) \in Nat /\ Len(order[k]) > 0 /\ Len(order'[k]) = Len(order[k]) - 1
          BY <1>4, <1>5, <1>6
        <5>2. \A n \in Nat : n > 0 /\ n # 1 => n \in 2..n /\ n - 1 \in 1..(n - 1)
          OBVIOUS
        <5>3. QED
          BY <5>1, <5>2, <3>2, Zenon
      <4>2. tail[k] = order[k][Len(order[k])] /\ tail[k] # c
        BY <4>1, <1>4, <1>10 DEF ChainFollowsQueue
      <4>3. order'[k] # <<>> /\ order'[k][Len(order'[k])] = order[k][Len(order[k])]
        BY <4>1, <1>4, <1>5, <1>6
      <4>4. QED
        BY <4>2, <4>3, <3>2, <1>1
    <3>3. CASE l # k
      <4>1. order[l] # <<>> => order[l][Len(order[l])] # c
        BY <3>3, <1>5, <1>9
      <4>2. order'[l] = order[l]
        BY <3>3, <1>6
      <4>3. QED
        BY <4>1, <4>2, <1>1, <1>2 DEF ChainFollowsQueue
    <3>4. QED
      BY <3>1, <3>2, <3>3
  <2>4. QED
    BY <2>1, <2>2, <2>3 DEF ChainFollowsQueue
<1>13. KeyWhileOutstanding'
  BY <1>1 DEF KeyWhileOutstanding, TypeOK
<1>14. OutstandingCounted'
  <2>1. \A l \in Key : Outstanding(l)' = Outstanding(l)
    BY <1>1 DEF Outstanding, TypeOK
  <2>2. QED
    BY <1>1, <2>1 DEF OutstandingCounted
<1>15. QED
  BY <1>7, <1>11, <1>12, <1>13, <1>14

\* Leaving keeps the invariant.  Deleting the entry throws no live tail away:
\* the only outstanding call has settled, so the queue is empty.
LEMMA ReleaseKeeps ==
  ASSUME NEW c \in Call, IInv, Release(c)
  PROVE  IInv'
<1> USE DEF IInv
<1>0. PICK k \in Key : k = key[c]
  BY DEF Release, TypeOK, KeyWhileOutstanding
<1>1. /\ pc[c] = "settled" /\ pc' = [pc EXCEPT ![c] = "idle"]
      /\ key' = [key EXCEPT ![c] = None]
      /\ count' = [count EXCEPT ![k] = @ - 1]
      /\ tail' = IF count[k] = 1 THEN [tail EXCEPT ![k] = None] ELSE tail
      /\ UNCHANGED <<after, made, order>>
  BY <1>0 DEF Release
<1>2. None \notin Call /\ None \notin Key
  BY Basics
<1>3. k = key[c] /\ k \in Key
  BY <1>0
<1>4. c \in Outstanding(k) /\ Outstanding(k)' = Outstanding(k) \ {c}
  BY <1>1, <1>2, <1>3 DEF Outstanding, TypeOK
<1>5. /\ IsFiniteSet(Outstanding(k)) /\ Cardinality(Outstanding(k)) \in Nat
      /\ count[k] = Cardinality(Outstanding(k))
      /\ Cardinality(Outstanding(k)') = Cardinality(Outstanding(k)) - 1
  <2>1. IsFiniteSet(Outstanding(k)) /\ Cardinality(Outstanding(k)) \in Nat
        /\ count[k] = Cardinality(Outstanding(k))
    BY <1>3, Basics DEF OutstandingCounted
  <2>2. Cardinality(Outstanding(k) \ {c}) = Cardinality(Outstanding(k)) - 1
    BY <2>1, <1>4, FS_RemoveElement
  <2>3. QED
    BY <2>1, <2>2, <1>4
<1>6. count[k] # 0
  BY <1>4, <1>5, FS_EmptySet
<1>7. ASSUME count[k] = 1
      PROVE  order[k] = <<>>
  <2> SUFFICES ASSUME order[k] # <<>> PROVE FALSE
    OBVIOUS
  <2>1. order[k] \in Seq(Call) /\ 1 \in 1..Len(order[k]) /\ order[k][1] \in Call
    BY <1>3 DEF TypeOK
  <2>2. order[k][1] \in Outstanding(k) /\ order[k][1] # c
    BY <2>1, <1>1, <1>3 DEF QueueHolds, Unsettled, Outstanding
  <2>3. order[k][1] \in Outstanding(k) \ {c} /\ IsFiniteSet(Outstanding(k) \ {c})
    BY <2>2, <1>5, FS_RemoveElement
  <2>4. Cardinality(Outstanding(k) \ {c}) = 0
    BY <1>5, <1>7, <1>4, FS_RemoveElement
  <2>5. Outstanding(k) \ {c} = {}
    BY <2>3, <2>4, FS_EmptySet
  <2>6. QED
    BY <2>3, <2>5
<1>8. TypeOK'
  <2>1. count' \in [Key -> 0..Limit]
    BY <1>1, <1>3, <1>6, KeyAssumption DEF TypeOK
  <2>2. tail' \in [Key -> Call \cup {None}]
    BY <1>1 DEF TypeOK
  <2>3. QED
    BY <1>1, <2>1, <2>2 DEF TypeOK, States
<1>9. \A d \in Call : Unsettled(d)' <=> Unsettled(d)
  BY <1>1 DEF Unsettled, TypeOK
<1>10. \A d \in Call : Unsettled(d) => d # c
  BY <1>1 DEF Unsettled
<1>11. QueueHolds'
  <2>1. \A l \in Key : \A i \in 1..Len(order[l]) : order[l][i] \in Call
    BY DEF TypeOK
  <2>2. \A d \in Call : Unsettled(d) => key'[d] = key[d]
    BY <1>1, <1>10 DEF TypeOK
  <2>3. QED
    BY <1>1, <1>9, <2>1, <2>2 DEF QueueHolds
<1>12. ChainFollowsQueue'
  <2>1. \A l \in Key : tail'[l] = IF order[l] = <<>> THEN None ELSE order[l][Len(order[l])]
    BY <1>1, <1>7 DEF ChainFollowsQueue, TypeOK
  <2>2. QED
    BY <1>1, <2>1 DEF ChainFollowsQueue, TypeOK
<1>13. KeyWhileOutstanding'
  BY <1>1 DEF KeyWhileOutstanding, TypeOK
<1>14. OutstandingCounted'
  <2>1. ASSUME NEW l \in Key, l # k
        PROVE  Outstanding(l)' = Outstanding(l)
    BY <2>1, <1>1, <1>2, <1>3 DEF Outstanding, TypeOK
  <2>2. QED
    BY <2>1, <1>1, <1>3, <1>5 DEF OutstandingCounted, TypeOK
<1>15. QED
  BY <1>8, <1>11, <1>12, <1>13, <1>14

THEOREM InductiveInvariant == Spec => []IInv
<1>1. Init => IInv
  <2> SUFFICES ASSUME Init PROVE IInv
    OBVIOUS
  <2>1. TypeOK
    BY KeyAssumption DEF Init, TypeOK, States
  <2>2. QueueHolds /\ ChainFollowsQueue /\ KeyWhileOutstanding
    BY DEF Init, QueueHolds, ChainFollowsQueue, KeyWhileOutstanding, Unsettled
  <2>3. \A k \in Key : Outstanding(k) = {}
    BY DEF Init, Outstanding
  <2>4. OutstandingCounted
    BY <2>3, FS_EmptySet DEF Init, OutstandingCounted
  <2>5. QED
    BY <2>1, <2>2, <2>4 DEF IInv
<1>2. IInv /\ [Next]_vars => IInv'
  <2> SUFFICES ASSUME IInv, [Next]_vars PROVE IInv'
    OBVIOUS
  <2>1. ASSUME NEW c \in Call, EnterHash(c)
        PROVE  IInv'
    <3>1. PICK h \in Hash : coordinated(c, h)
      BY <2>1 DEF EnterHash
    <3>2. h \in Key /\ made' \subseteq Nested
      BY <2>1 DEF EnterHash, Key, IInv, TypeOK
    <3>3. QED
      BY <3>1, <3>2, Enter
  <2>2. ASSUME NEW c \in Call, EnterRegistration(c)
        PROVE  IInv'
    <3>1. Registration \in Key /\ made' \subseteq Nested
      BY <2>2 DEF EnterRegistration, Key, IInv, TypeOK
    <3>2. QED
      BY <3>1, <2>2, Enter DEF EnterRegistration
  <2>3. ASSUME NEW c \in Call, Start(c) \/ Settle(c) \/ Release(c)
        PROVE  IInv'
    BY <2>3, StartKeeps, SettleKeeps, ReleaseKeeps
  <2>4. CASE UNCHANGED vars
    BY <2>4 DEF vars, IInv, TypeOK, QueueHolds, ChainFollowsQueue, KeyWhileOutstanding,
                OutstandingCounted, Unsettled, Outstanding
  <2>5. QED
    BY <2>1, <2>2, <2>3, <2>4 DEF Next, Step
<1>3. QED
  BY <1>1, <1>2, PTL DEF Spec

\* Every variable keeps its type; in particular a key never counts more than
\* Limit outstanding calls.
THEOREM TypeCorrect == Spec => []TypeOK
BY InductiveInvariant, PTL DEF IInv

\* Two calls with work running on one key are chained behind nothing, and only
\* the first call of a queue is.
LEMMA ExclusionFromChain == IInv => MutualExclusion
<1> SUFFICES ASSUME IInv, NEW c \in Call, NEW d \in Call,
                    pc[c] = "running", pc[d] = "running", key[c] = key[d]
             PROVE  c = d
  BY DEF MutualExclusion
<1>1. Unsettled(c) /\ after[c] = None /\ Unsettled(d) /\ after[d] = None
  BY DEF IInv, ChainFollowsQueue, Unsettled
<1>2. QED
  BY <1>1, FirstOfQueue

\* Work on one key never overlaps, for every number of calls and every limit.
THEOREM Exclusion == Spec => []MutualExclusion
BY InductiveInvariant, ExclusionFromChain, PTL

\* The count of a key is the number of calls that have not returned.
THEOREM Counted == Spec => []OutstandingCounted
BY InductiveInvariant, PTL DEF IInv

-----------------------------------------------------------------------------
\* The call the abstract lock sees holding a key is the one that is running.
LEMMA HolderIsRunning ==
  ASSUME IInv, NEW k \in Key
  PROVE  /\ \A c \in Call : pc[c] = "running" /\ key[c] = k => Holder[k] = c
         /\ (\A c \in Call : ~(pc[c] = "running" /\ key[c] = k)) => Holder[k] = None
<1>1. MutualExclusion
  BY ExclusionFromChain
<1>2. QED
  BY <1>1 DEF Holder, MutualExclusion

\* Each step of the promise chain is a step of the abstract lock, or, when a
\* call returns after its work has settled, no step of it at all.
THEOREM Refinement == Spec => ImplementsFifo
<1>1. Init => Fifo!Init
  <2> SUFFICES ASSUME Init PROVE Fifo!Init
    OBVIOUS
  <2>1. Holder = [k \in Key |-> None]
    BY DEF Init, Holder
  <2>2. QED
    BY <2>1 DEF Init, Fifo!Init
<1>2. IInv /\ IInv' /\ [Next]_vars => [Fifo!Next]_(Fifo!vars)
  <2> SUFFICES ASSUME IInv, IInv', [Next]_vars
               PROVE  [Fifo!Next]_(Fifo!vars)
    OBVIOUS
  <2>0. None \notin Call /\ None \notin Key
    BY Basics DEF IInv
  <2>a. Holder \in [Key -> Call \cup {None}] /\ Holder' \in [Key -> Call \cup {None}]
    BY DEF Holder
  <2>1. ASSUME NEW c \in Call, NEW k \in Key, coordinated(c, k)
        PROVE  Fifo!Join(c, k)
    <3>1. pc[c] = "idle" /\ pc' = [pc EXCEPT ![c] = "waiting"] /\ key' = [key EXCEPT ![c] = k]
          /\ order' = [order EXCEPT ![k] = Append(@, c)]
      BY <2>1 DEF coordinated
    <3>2. \A l \in Key : \A i \in 1..Len(order[l]) : order[l][i] # c
      BY <3>1 DEF IInv, QueueHolds, Unsettled
    <3>3. ASSUME NEW l \in Key PROVE Holder'[l] = Holder[l]
      <4>1. \A d \in Call : (pc'[d] = "running" /\ key'[d] = l)
                            <=> (pc[d] = "running" /\ key[d] = l)
        BY <3>1 DEF IInv, TypeOK
      <4>2. QED
        BY <4>1 DEF Holder
    <3>4. QED
      BY <3>1, <3>2, <3>3, <2>a DEF Fifo!Join, Fifo!InQueue
  <2>2. ASSUME NEW c \in Call, Start(c)
        PROVE  key[c] \in Key /\ Fifo!Acquire(key[c])
    <3>1. pc[c] = "waiting" /\ after[c] = None /\ pc' = [pc EXCEPT ![c] = "running"]
          /\ key' = key /\ order' = order
      BY <2>2 DEF Start
    <3>2. key[c] \in Key /\ order[key[c]] # <<>> /\ order[key[c]][1] = c
      BY <3>1, FirstOfQueue DEF Unsettled
    <3>3. PICK k \in Key : k = key[c]
      BY <3>2
    <3>4. ASSUME NEW d \in Call, pc[d] = "running", key[d] = k
          PROVE  FALSE
      <4>1. Unsettled(d) /\ after[d] = None
        BY <3>4 DEF IInv, ChainFollowsQueue, Unsettled
      <4>2. d = c
        BY <4>1, <3>2, <3>3, <3>4, FirstOfQueue
      <4>3. QED
        BY <4>2, <3>1, <3>4
    <3>5. Holder[k] = None
      BY <3>4, HolderIsRunning
    <3>6. Holder' = [Holder EXCEPT ![k] = c]
      <4>1. Holder'[k] = c
        <5>1. pc'[c] = "running" /\ key'[c] = k
          BY <3>1, <3>3 DEF IInv, TypeOK
        <5>2. \A d \in Call : pc'[d] = "running" /\ key'[d] = k => d = c
          BY <3>1, <3>3, <3>4 DEF IInv, TypeOK
        <5>3. QED
          BY <5>1, <5>2 DEF Holder
      <4>2. ASSUME NEW l \in Key, l # k
            PROVE  Holder'[l] = Holder[l]
        <5>1. \A d \in Call : (pc'[d] = "running" /\ key'[d] = l)
                              <=> (pc[d] = "running" /\ key[d] = l)
          BY <4>2, <3>1, <3>3 DEF IInv, TypeOK
        <5>2. QED
          BY <5>1 DEF Holder
      <4>3. QED
        BY <4>1, <4>2, <2>a
    <3>7. c = Head(order[k])
      BY <3>2, <3>3 DEF IInv, TypeOK
    <3>8. QED
      BY <3>1, <3>2, <3>3, <3>5, <3>6, <3>7 DEF Fifo!Acquire
  <2>3. ASSUME NEW c \in Call, Settle(c)
        PROVE  key[c] \in Key /\ Fifo!Leave(key[c])
    <3>1. pc[c] = "running" /\ pc' = [pc EXCEPT ![c] = "settled"] /\ key' = key
          /\ order' = [order EXCEPT ![key[c]] = Tail(@)]
      BY <2>3 DEF Settle
    <3>2. PICK k \in Key : k = key[c]
      BY <3>1 DEF IInv, TypeOK, KeyWhileOutstanding
    <3>3. Holder[k] = c
      BY <3>1, <3>2, HolderIsRunning
    <3>4. Holder' = [Holder EXCEPT ![k] = None]
      <4>1. Holder'[k] = None
        <5>1. \A d \in Call : ~(pc'[d] = "running" /\ key'[d] = k)
          BY <3>1, <3>2, ExclusionFromChain DEF IInv, TypeOK, MutualExclusion
        <5>2. QED
          BY <5>1 DEF Holder
      <4>2. ASSUME NEW l \in Key, l # k
            PROVE  Holder'[l] = Holder[l]
        <5>1. \A d \in Call : (pc'[d] = "running" /\ key'[d] = l)
                              <=> (pc[d] = "running" /\ key[d] = l)
          BY <4>2, <3>1, <3>2 DEF IInv, TypeOK
        <5>2. QED
          BY <5>1 DEF Holder
      <4>3. QED
        BY <4>1, <4>2, <2>a
    <3>5. QED
      BY <3>1, <3>2, <3>3, <3>4, <2>0 DEF Fifo!Leave
  <2>4. ASSUME NEW c \in Call, Release(c)
        PROVE  UNCHANGED Fifo!vars
    <3>1. pc[c] = "settled" /\ pc' = [pc EXCEPT ![c] = "idle"] /\ order' = order
          /\ key' = [key EXCEPT ![c] = None]
      BY <2>4 DEF Release
    <3>2. ASSUME NEW l \in Key PROVE Holder'[l] = Holder[l]
      <4>1. \A d \in Call : (pc'[d] = "running" /\ key'[d] = l)
                            <=> (pc[d] = "running" /\ key[d] = l)
        BY <3>1 DEF IInv, TypeOK
      <4>2. QED
        BY <4>1 DEF Holder
    <3>3. Holder' = Holder
      BY <3>2, <2>a
    <3>4. QED
      BY <3>1, <3>3 DEF Fifo!vars
  <2>5. CASE UNCHANGED vars
    BY <2>5 DEF vars, Fifo!vars, Holder
  <2>6. Registration \in Key /\ Hash \subseteq Key
    BY DEF Key
  <2>7. ASSUME NEW c \in Call, Step(c)
        PROVE  Fifo!Next \/ UNCHANGED Fifo!vars
    BY <2>1, <2>2, <2>3, <2>4, <2>6, <2>7
       DEF Step, EnterHash, EnterRegistration, Fifo!Next
  <2>8. QED
    BY <2>5, <2>7 DEF Next
<1>3. QED
  BY <1>1, <1>2, InductiveInvariant, PTL DEF Spec, ImplementsFifo, Fifo!Spec
=============================================================================
