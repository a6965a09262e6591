------------------------------- MODULE Logins -------------------------------
(***************************************************************************)
(* The administrator's sign-in (src/admin/auth.ts): passwords are checked  *)
(* by a slow function, two at a time, and each address has a few attempts  *)
(* in a window of time.  The address is that of the client, as the         *)
(* proxies tell it (src/security/clientAddress.ts).                        *)
(***************************************************************************)
EXTENDS Naturals, Sequences, FiniteSets, FiniteSetsExt

CONSTANTS Visitor,       \* addresses of clients
          Trusted,       \* TRUSTED_PROXIES
          Guess,         \* login requests under way at once
          MaxAttempts,   \* five
          MaxVerifying,  \* two
          MaxAddresses,  \* a thousand
          MaxWindows,    \* bound: windows of attempts
          NoOne

ASSUME LoginAssumption == /\ {MaxAttempts, MaxVerifying, MaxAddresses, MaxWindows} \subseteq Nat
                          /\ Visitor \cap Trusted = {}
                          /\ NoOne \notin Visitor

Address == Visitor \cup Trusted

VARIABLES attempts,   \* the entry of an address: the window it stands for, its count
          guess,      \* the passwords that are being checked
          signedIn,   \* a session exists
          windows,    \* windows so far
          checked     \* history: passwords checked in each window

loginVars == <<attempts, guess, signedIn, windows, checked>>

NoGuess == [by |-> NoOne, window |-> 0, right |-> FALSE]

\* Mutant: the address is the first one the header has.
clientAddressLeft(socket, forwarded) ==
  IF socket \notin Trusted \/ forwarded = <<>> THEN socket ELSE forwarded[1]

\* The header counts when a trusted proxy sends it, from the right up to the first
\* address that is not trusted.
clientAddress(socket, forwarded) ==
  LET strange == {i \in DOMAIN forwarded : forwarded[i] \notin Trusted}
  IN  IF socket \notin Trusted \/ forwarded = <<>> THEN socket
      ELSE IF strange = {} THEN forwarded[1]
      ELSE forwarded[Max(strange)]

\* A header the client sends of its own.
OwnHeader == {<<>>} \cup {<<a>> : a \in Address}

\* What a request of `v` arrives with: straight, or through one proxy or two, each
\* of which adds the address it has it from.
Through(header) == {[socket |-> p, forwarded |-> o \o header] : o \in OwnHeader, p \in Trusted}
Arrivals(v) == {[socket |-> v, forwarded |-> o] : o \in OwnHeader}
               \cup Through(<<v>>) \cup UNION {Through(<<v, p>>) : p \in Trusted}
-----------------------------------------------------------------------------
LoginInit == /\ attempts = [a \in Address |-> [window |-> 0, count |-> 0]]
             /\ guess = [g \in Guess |-> NoGuess]
             /\ signedIn = FALSE
             /\ windows = 0
             /\ checked = [w \in 1..MaxWindows |-> 0]

Counted(a) == attempts[a].window # 0
Verifying == {g \in Guess : guess[g] # NoGuess}
Throttled(a) == \/ attempts[a].count >= MaxAttempts
                \/ ~Counted(a) /\ Cardinality({b \in Address : Counted(b)}) >= MaxAddresses

\* login, before it yields: the attempt is counted now.
Login(g, v, right) ==
  /\ guess[g] = NoGuess
  /\ \E arrival \in Arrivals(v) :
       LET a == clientAddress(arrival.socket, arrival.forwarded)
           w == IF Counted(a) THEN attempts[a].window ELSE windows + 1
       IN  /\ ~Throttled(a) /\ Cardinality(Verifying) < MaxVerifying
           /\ w <= MaxWindows
           /\ windows' = IF w > windows THEN w ELSE windows
           /\ attempts' = [attempts EXCEPT ![a] = [window |-> w, count |-> @.count + 1]]
           /\ \/ guess' = [guess EXCEPT ![g] = [by |-> v, window |-> w, right |-> right]]
              \/ UNCHANGED guess   \* too long a password, which is not checked
  /\ UNCHANGED <<signedIn, checked>>

\* The password has been checked.  A right one takes the entry away, when it is
\* still the one it was counted in.
Verified(g) ==
  /\ guess[g] # NoGuess
  /\ guess' = [guess EXCEPT ![g] = NoGuess]
  /\ checked' = [checked EXCEPT ![guess[g].window] = @ + 1]
  /\ attempts' = IF guess[g].right
                 THEN [a \in Address |-> IF attempts[a].window = guess[g].window
                                         THEN [window |-> 0, count |-> 0] ELSE attempts[a]]
                 ELSE attempts
  /\ signedIn' = (signedIn \/ guess[g].right)
  /\ UNCHANGED windows

\* prune: a window has passed, or a session.
WindowEnds(a) == /\ Counted(a)
                 /\ attempts' = [attempts EXCEPT ![a] = [window |-> 0, count |-> 0]]
                 /\ UNCHANGED <<guess, signedIn, windows, checked>>

SessionEnds == /\ signedIn
               /\ signedIn' = FALSE
               /\ UNCHANGED <<attempts, guess, windows, checked>>

LoginNext == \/ \E g \in Guess : Verified(g) \/ \E v \in Visitor, right \in BOOLEAN : Login(g, v, right)
             \/ \E a \in Address : WindowEnds(a)
             \/ SessionEnds

LoginSpec == LoginInit /\ [][LoginNext]_loginVars
-----------------------------------------------------------------------------
\* However requests are sent, forwarded and timed, no more passwords are checked in
\* a window than there are attempts, and an attempt counts against the visitor who
\* made it (auth.ts:42-45, clientAddress.ts:6-18).
GuessesBounded ==
  /\ \A w \in 1..MaxWindows : checked[w] <= MaxAttempts
  /\ \A g \in Verifying, a \in Address :
       Counted(a) /\ attempts[a].window = guess[g].window => a = guess[g].by
=============================================================================
