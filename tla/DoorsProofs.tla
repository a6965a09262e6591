---------------------------- MODULE DoorsProofs ----------------------------
(***************************************************************************)
(* The ways in: a place is taken and given back by the same request and    *)
(* nothing is done without the scope it is of; no more passwords are       *)
(* checked than there are attempts; a reader of the shared list sees every *)
(* operation that had succeeded; an archive that is sent to its end can be *)
(* read; a walk of the list misses and repeats nothing; every file of the  *)
(* mount is found by what it is called; and what can be played is listed.  *)
(* For any number of requests, tokens, titles, addresses, windows, readers *)
(* and sources, any number of files and any sizes, lengths and names.      *)
(***************************************************************************)
EXTENDS FrontDoors, Logins, Snapshots, Zip, Listing, Search, FiniteSetTheorems, SequenceTheorems, TLAPS

\* The greater of two numbers.
LEMMA MaxOfTwo ==
  ASSUME NEW a \in Nat, NEW b \in Nat
  PROVE  Max({a, b}) \in Nat /\ Max({a, b}) >= a /\ Max({a, b}) >= b
<1>1. \E x \in {a, b} : \A y \in {a, b} : x >= y
  OBVIOUS
<1>2. Max({a, b}) \in {a, b} /\ \A y \in {a, b} : Max({a, b}) >= y
  BY <1>1 DEF Max
<1> QED BY <1>2
-----------------------------------------------------------------------------
\* The doors.
Door == {"native", "store", "dav", "addon", "addonSearch", "addonPlay", "download", "admin", ""}
Scope == {"read", "write", "link", "both", ""}
Call == Looks \cup {"add", "look", "select", "play", "prepare", "remove", "revoke", "issue", "rotate", "save"}

Way == [door : Door, scope : Scope, calls : Seq(Call)]

Knock == [at : {"idle", "found", "in"}, who : Token \cup {Nobody}, route : Way \cup {<<>>}, title : Nat,
          place : Pool \cup {Nobody}, honest : BOOLEAN, done : SUBSET {"write", "link"}]

\* What a scope is good for, and a route all of whose calls are within its own.
Grants(scope) == IF scope = "both" THEN {"read", "link"} ELSE {scope}
Suit(call, scope) == Asks(call) \subseteq Grants(scope) /\ (call = "look" => scope = "write")
AllSuit(route) == \A i \in DOMAIN route.calls : Suit(route.calls[i], route.scope)
Keeps(route) == route \in Way /\ AllSuit(route)

\* A request that is found has done nothing yet; one with a token's place has it honestly,
\* has done what its token is allowed, and has a route within one scope to go.
Sound(q) == /\ q.at # "in" => q.place = Nobody
            /\ q.at = "found" => q.who \in Token /\ q.route \in Way /\ AllSuit(q.route) /\ q.done = {}
            /\ q.at = "in" => q.route \in Way
            /\ q.place \in Token => q.honest /\ q.done \subseteq Scopes[q.place] /\ AllSuit(q.route)

Takers(p) == {r \in Request : request[r].place = p}

Exact(p) == IsFiniteSet(Takers(p)) /\ places[p] = Cardinality(Takers(p)) /\ places[p] <= PlacesOf(p)

DInv == /\ request \in [Request -> Knock]
        /\ places \in [Pool -> Nat]
        /\ \A r \in Request : Sound(request[r])
        /\ \A p \in Pool : Exact(p)

\* Every route is one, and those of tokens stay within their scope.
LEMMA RoutesFit ==
  /\ \A route \in TokenRoutes : Keeps(route)
  /\ \A route \in Routes : route \in Way
<1> DEFINE Good(c, scope) == c \in Seq(Call) /\ \A i \in DOMAIN c : Suit(c[i], scope)
<1>a. ASSUME NEW door \in Door, NEW scope \in Scope, NEW c, Good(c, scope)
      PROVE  Keeps(R(door, scope, c))
  BY <1>a DEF Keeps, Way, AllSuit, R
<1>b. /\ \A scope : Good(<<>>, scope)
      /\ \A scope : \A w \in Call : Suit(w, scope) => Good(<<w>>, scope)
      /\ \A scope : \A w, x \in Call : Suit(w, scope) /\ Suit(x, scope) => Good(<<w, x>>, scope)
  <2> HIDE DEF Suit
  <2> QED OBVIOUS
<1>e. ASSUME NEW scope, NEW w \in Call, NEW x \in Call, NEW y \in Call, Suit(w, scope), Suit(x, scope), Suit(y, scope)
      PROVE  Good(<<w, x, y>>, scope)
  <2> HIDE DEF Suit
  <2> QED BY <1>e
<1>f. ASSUME NEW scope, NEW w \in Call, NEW x \in Call, NEW y \in Call, NEW z \in Call,
             Suit(w, scope), Suit(x, scope), Suit(y, scope), Suit(z, scope)
      PROVE  Good(<<w, x, y, z>>, scope)
  <2> HIDE DEF Suit
  <2> QED BY <1>f
<1>c. /\ \A call \in {"settings", "search", "list", "status", "get", "files"} :
           call \in Call /\ \A scope \in Scope : Suit(call, scope)
      /\ \A call \in {"add", "select", "remove", "run", "preview", "look"} : call \in Call /\ Suit(call, "write")
      /\ \A call \in {"link", "open", "send"} : call \in Call /\ Suit(call, "link") /\ Suit(call, "both")
      /\ {"play", "prepare", "rotate", "save", "issue", "revoke", "list"} \subseteq Call
      /\ {"read", "write", "link", "both"} \subseteq Scope
  BY DEF Suit, Asks, Grants, Call, Looks, Scope
<1> HIDE DEF Good
<1>1. \A c \in {<<>>, <<"settings">>, <<"search">>, <<"list">>, <<"status">>, <<"get">>, <<"files">>,
               <<"status", "get">>, <<"list", "status">>, <<"get", "status", "files">>} : Good(c, "read")
  <2>1. Good(<<>>, "read") /\ Good(<<"settings">>, "read") /\ Good(<<"search">>, "read") /\ Good(<<"list">>, "read")
    BY <1>b, <1>c
  <2>2. Good(<<"status">>, "read") /\ Good(<<"get">>, "read") /\ Good(<<"files">>, "read")
    BY <1>b, <1>c
  <2>3. Good(<<"status", "get">>, "read") /\ Good(<<"list", "status">>, "read")
    BY <1>b, <1>c
  <2>4. Good(<<"get", "status", "files">>, "read")
    BY <1>e, <1>c
  <2> QED BY <2>1, <2>2, <2>3, <2>4
<1>2. \A c \in {<<"add">>, <<"preview">>, <<"remove">>, <<"run">>, <<"files", "select">>, <<"get", "remove">>,
               <<"add", "status", "files">>, <<"look", "files", "select", "select">>} : Good(c, "write")
  <2>1. Good(<<"add">>, "write") /\ Good(<<"preview">>, "write") /\ Good(<<"remove">>, "write") /\ Good(<<"run">>, "write")
    BY <1>b, <1>c
  <2>2. Good(<<"files", "select">>, "write") /\ Good(<<"get", "remove">>, "write")
    BY <1>b, <1>c
  <2>3. Good(<<"add", "status", "files">>, "write")
    BY <1>e, <1>c
  <2>4. Good(<<"look", "files", "select", "select">>, "write")
    BY <1>f, <1>c
  <2> QED BY <2>1, <2>2, <2>3, <2>4
<1>3. \A c \in {<<"get", "files", "link">>, <<"files", "open", "send">>, <<"get", "get", "files", "link">>} :
        Good(c, "link")
  <2>1. Good(<<"get", "files", "link">>, "link")
    BY <1>e, <1>c
  <2>2. Good(<<"files", "open", "send">>, "link")
    BY <1>e, <1>c
  <2>3. Good(<<"get", "get", "files", "link">>, "link")
    BY <1>f, <1>c
  <2> QED BY <2>1, <2>2, <2>3
<1>4. \A c \in {<<"list">>, <<"list", "files">>, <<"list", "files", "open", "send">>} : Good(c, "both")
  <2>1. Good(<<"list">>, "both") /\ Good(<<"list", "files">>, "both")
    BY <1>b, <1>c
  <2>2. Good(<<"list", "files", "open", "send">>, "both")
    BY <1>f, <1>c
  <2> QED BY <2>1, <2>2
<1>5. \A route \in NativeReads \cup NativeWrites \cup NativeLinks : Keeps(route)
  BY <1>a, <1>1, <1>2, <1>3, <1>c DEF NativeReads, NativeWrites, NativeLinks, Door
<1>6. \A route \in StoreRoutes \cup StremThruRoutes : Keeps(route)
  BY <1>a, <1>1, <1>2, <1>3, <1>c DEF StoreRoutes, StremThruRoutes, Door
<1>7. \A route \in RealDebridReads \cup RealDebridWrites \cup RealDebridLinks \cup DavRoutes : Keeps(route)
  BY <1>a, <1>1, <1>2, <1>3, <1>4, <1>c DEF RealDebridReads, RealDebridWrites, RealDebridLinks, DavRoutes, Door
<1>d. ASSUME NEW door \in Door, NEW c \in Seq(Call) PROVE R(door, "", c) \in Way
  BY DEF Way, R, Scope
<1>8. /\ {<<>>, <<"list">>, <<"search">>, <<"files", "link">>, <<"play", "open", "send">>, <<"prepare", "open", "send">>,
          <<"settings">>, <<"list", "status">>, <<"files">>} \subseteq Seq(Call)
      /\ {<<"add">>, <<"get", "remove">>, <<"run">>, <<"files", "select">>, <<"rotate">>, <<"save">>, <<"issue">>,
          <<"revoke">>} \subseteq Seq(Call)
  <2>1. ASSUME NEW w \in Call, NEW x \in Call, NEW y \in Call PROVE {<<>>, <<w>>, <<w, x>>, <<w, x, y>>} \subseteq Seq(Call)
    OBVIOUS
  <2> QED BY <1>c, <2>1
<1>9. \A route \in AddonRoutes \cup AddonSearches \cup AddonPlays \cup LinkRoutes \cup AdminReads \cup AdminWrites :
        route \in Way
  BY <1>d, <1>8 DEF AddonRoutes, AddonSearches, AddonPlays, LinkRoutes, AdminReads, AdminWrites, Door
<1>10. \A route \in TokenRoutes : Keeps(route)
  BY <1>5, <1>6, <1>7 DEF TokenRoutes
<1>11. \A route \in Routes : route \in TokenRoutes
         \/ route \in AddonRoutes \cup AddonSearches \cup AddonPlays \cup LinkRoutes \cup AdminReads \cup AdminWrites
  BY DEF Routes
<1> QED BY <1>9, <1>10, <1>11 DEF Keeps

\* Inside, the route has the same calls.
LEMMA OtherDoor ==
  ASSUME NEW route \in Way
  PROVE  /\ Within(route) \in Way /\ Within(route).calls = route.calls
         /\ Within(route).scope = route.scope
<1>1. Within(route) \in Way
  BY DEF Way, Within, Door
<1>2. Within(route).calls = route.calls /\ Within(route).scope = route.scope
  BY DEF Way, Within
<1> QED BY <1>1, <1>2

LEMMA NoRequestIsSound == NoRequest \in Knock /\ Sound(NoRequest) /\ NoRequest.place = Nobody
BY DoorAssumption DEF NoRequest, Knock, Sound, Pool

\* The request after a call, and the calls that are then to come.
Since(q, rest, extra) == [q EXCEPT !.route.calls = rest, !.done = @ \cup extra]
Remain(q, rest) == \A i \in DOMAIN rest :
  \/ \E j \in DOMAIN q.route.calls : rest[i] = q.route.calls[j]
  \/ rest[i] = "add" /\ \E j \in DOMAIN q.route.calls : q.route.calls[j] = "look"
MayGoOn(q) == q.at = "in" /\ q.route.calls # <<>> /\ (q.place \in Token => Allowed(q.place, q.route.scope))

\* A call more is done, within the scope of the route.
LEMMA CallIsSound ==
  ASSUME NEW q \in Knock, Sound(q), MayGoOn(q), NEW rest \in Seq(Call), Remain(q, rest),
         NEW extra \in {{}, Asks(Head(q.route.calls))}
  PROVE  Since(q, rest, extra) \in Knock /\ Sound(Since(q, rest, extra)) /\ Since(q, rest, extra).place = q.place
<1> DEFINE way == [q.route EXCEPT !.calls = rest]
           next == Since(q, rest, extra)
<1>1. q.route \in Way /\ q.at = "in"
  BY DEF Sound, MayGoOn
<1>2. way \in Way /\ way.calls = rest /\ way.scope = q.route.scope
  BY <1>1 DEF Way
<1>3. Asks(Head(q.route.calls)) \subseteq {"write", "link"}
  BY DEF Asks
<1>4. /\ next \in Knock /\ next.place = q.place /\ next.at = "in" /\ next.honest = q.honest
      /\ next.route = way /\ next.done = q.done \cup extra
  BY <1>1, <1>2, <1>3 DEF Knock, Since
<1>5. ASSUME q.place \in Token
      PROVE  q.honest /\ q.done \cup extra \subseteq Scopes[q.place] /\ AllSuit(way)
  <2>1. q.honest /\ q.done \subseteq Scopes[q.place] /\ AllSuit(q.route)
    BY <1>5 DEF Sound
  <2>2. Grants(q.route.scope) \subseteq Scopes[q.place]
    BY <1>5 DEF Allowed, Grants, MayGoOn
  <2>3. 1 \in DOMAIN q.route.calls /\ Head(q.route.calls) = q.route.calls[1]
    BY <1>1 DEF Way, MayGoOn
  <2>4. extra \subseteq Grants(q.route.scope)
    BY <2>1, <2>3 DEF AllSuit, Suit
  <2>5. ASSUME NEW i \in DOMAIN rest PROVE Suit(rest[i], q.route.scope)
    <3>1. CASE \E j \in DOMAIN q.route.calls : rest[i] = q.route.calls[j]
      BY <2>1, <3>1 DEF AllSuit
    <3>2. CASE rest[i] = "add" /\ \E j \in DOMAIN q.route.calls : q.route.calls[j] = "look"
      <4>1. q.route.scope = "write"
        BY <2>1, <3>2 DEF AllSuit, Suit
      <4> QED BY <3>2, <4>1 DEF Suit, Asks, Grants
    <3> QED BY <3>1, <3>2 DEF Remain
  <2> QED BY <1>2, <2>1, <2>2, <2>4, <2>5 DEF AllSuit
<1>6. Sound(next)
  <2> HIDE DEF way, next
  <2> QED BY <1>2, <1>4, <1>5 DEF Sound
<1> QED BY <1>4, <1>6

\* A request goes on, and keeps its place.
LEMMA PlaceKept ==
  ASSUME DInv, NEW r \in Request, NEW q \in Knock, Sound(q), q.place = request[r].place,
         request' = [request EXCEPT ![r] = q], places' = places
  PROVE  DInv'
<1>1. /\ request' \in [Request -> Knock]
      /\ \A s \in Request : Sound(request'[s]) /\ request'[s].place = request[s].place
  BY DEF DInv
<1>2. \A p \in Pool : Takers(p)' = Takers(p)
  BY <1>1 DEF Takers
<1> QED BY <1>1, <1>2 DEF DInv, Exact

\* It takes one that is free.
LEMMA PlaceTaken ==
  ASSUME DInv, NEW r \in Request, NEW q \in Knock, Sound(q), request[r].place = Nobody,
         NEW p \in Pool, q.place = p, places[p] < PlacesOf(p),
         request' = [request EXCEPT ![r] = q], places' = [places EXCEPT ![p] = @ + 1]
  PROVE  DInv'
<1>1. /\ request' \in [Request -> Knock] /\ request'[r] = q
      /\ \A s \in Request : Sound(request'[s]) /\ (s # r => request'[s] = request[s])
  BY DEF DInv
<1>2. places \in [Pool -> Nat] /\ Nobody \notin Pool /\ PlacesOf(p) \in Nat
  BY DoorAssumption DEF DInv, Pool, PlacesOf
<1>3. ASSUME NEW o \in Pool PROVE Exact(o)'
  <2>1. Exact(o)
    BY DEF DInv
  <2>2. CASE o # p
    <3>1. Takers(o)' = Takers(o) /\ places'[o] = places[o]
      BY <1>1, <1>2, <2>2 DEF Takers
    <3> QED BY <2>1, <3>1 DEF Exact
  <2>3. CASE o = p
    <3>1. Takers(o)' = Takers(o) \cup {r} /\ r \notin Takers(o) /\ places'[o] = places[o] + 1
      BY <1>1, <1>2, <2>3 DEF Takers
    <3>2. IsFiniteSet(Takers(o) \cup {r}) /\ Cardinality(Takers(o) \cup {r}) = Cardinality(Takers(o)) + 1
      BY <2>1, <3>1, FS_AddElement DEF Exact
    <3>3. places[o] + 1 <= PlacesOf(o)
      BY <1>2, <2>3
    <3> QED BY <2>1, <3>1, <3>2, <3>3 DEF Exact
  <2> QED BY <2>2, <2>3
<1>4. places' \in [Pool -> Nat]
  BY <1>2
<1> QED BY <1>1, <1>3, <1>4 DEF DInv

\* It ends, and gives its place back, if it had one.
LEMMA PlaceGivenBack ==
  ASSUME DInv, NEW r \in Request, Leaves(r)
  PROVE  DInv'
<1>1. /\ request' \in [Request -> Knock] /\ request'[r] = NoRequest
      /\ \A s \in Request : Sound(request'[s]) /\ (s # r => request'[s] = request[s])
  BY NoRequestIsSound DEF DInv, Leaves, Becomes
<1>2. places \in [Pool -> Nat] /\ request[r] \in Knock
  BY DEF DInv
<1>3. CASE request[r].place = Nobody
  BY <1>3, NoRequestIsSound, PlaceKept DEF Leaves, Becomes
<1>4. CASE request[r].place # Nobody
  <2> DEFINE p == request[r].place
  <2>1. p \in Pool /\ places' = [places EXCEPT ![p] = @ - 1]
    BY <1>2, <1>4 DEF Knock, Leaves
  <2>2. ASSUME NEW o \in Pool PROVE Exact(o)' /\ places'[o] \in Nat
    <3>1. Exact(o)
      BY DEF DInv
    <3>2. CASE o # p
      <4>1. Takers(o)' = Takers(o) /\ places'[o] = places[o]
        BY <1>1, <1>2, <2>1, <3>2, NoRequestIsSound, DoorAssumption DEF Takers, Pool
      <4> QED BY <1>2, <3>1, <4>1 DEF Exact
    <3>3. CASE o = p
      <4>1. Takers(o)' = Takers(o) \ {r} /\ r \in Takers(o) /\ places'[o] = places[o] - 1
        BY <1>1, <1>2, <1>4, <2>1, <3>3, NoRequestIsSound DEF Takers
      <4>2. IsFiniteSet(Takers(o) \ {r}) /\ Cardinality(Takers(o) \ {r}) = Cardinality(Takers(o)) - 1
        BY <3>1, <4>1, FS_RemoveElement DEF Exact
      <4>3. Cardinality(Takers(o) \ {r}) \in Nat /\ PlacesOf(o) \in Nat /\ places[o] \in Nat
        BY <1>2, <4>2, FS_CardinalityType, DoorAssumption DEF Pool, PlacesOf
      <4> QED BY <3>1, <4>1, <4>2, <4>3 DEF Exact
    <3> QED BY <3>2, <3>3
  <2>3. places' \in [Pool -> Nat]
    BY <1>2, <2>1, <2>2
  <2> QED BY <1>1, <2>2, <2>3 DEF DInv
<1> QED BY <1>3, <1>4

LEMMA DoorsInitially == DoorInit => DInv
<1> SUFFICES ASSUME DoorInit PROVE DInv
  OBVIOUS
<1>1. \A r \in Request : request[r] = NoRequest
  BY DEF DoorInit
<1>2. request \in [Request -> Knock] /\ \A r \in Request : Sound(request[r])
  BY NoRequestIsSound DEF DoorInit
<1>3. ASSUME NEW p \in Pool PROVE Exact(p)
  <2>1. Takers(p) = {}
    BY <1>1, NoRequestIsSound, DoorAssumption DEF Takers, Pool
  <2>2. places[p] = 0 /\ PlacesOf(p) \in Nat
    BY DoorAssumption DEF DoorInit, PlacesOf, Pool
  <2> QED BY <2>1, <2>2, FS_EmptySet DEF Exact
<1> QED BY <1>2, <1>3 DEF DInv, DoorInit

\* Requests come in by a token, by the addon's key, by a signed link, and by the
\* administrator's session.
LEMMA EnteringIsSound ==
  ASSUME DInv, NEW r \in Request,
         \/ \E t \in Title, k \in Token, route \in TokenRoutes : Authenticates(r, k, route, t)
         \/ Enters(r)
         \/ \E t \in Title, route \in Routes :
              \/ EntersDownload(r, route, t) \/ EntersAdmin(r, route, t)
              \/ \E n \in 1..MaxKeys : EntersAddon(r, n, route, t)
  PROVE  DInv'
<1>a. request[r] \in Knock /\ Sound(request[r]) /\ Title \subseteq Nat /\ Nobody \notin Pool
  BY DoorAssumption DEF DInv, Pool
<1>b. NoRequest \in Knock /\ NoRequest.place = Nobody /\ NoRequest.done = {} /\ NoRequest.at = "idle"
  BY NoRequestIsSound DEF NoRequest
<1>1. ASSUME NEW t \in Title, NEW k \in Token, NEW route \in TokenRoutes, Authenticates(r, k, route, t)
      PROVE  DInv'
  <2> DEFINE q == [NoRequest EXCEPT !.at = "found", !.who = k, !.route = route, !.title = t]
  <2>1. route \in Way /\ AllSuit(route)
    BY RoutesFit DEF Keeps
  <2>2. /\ q \in Knock /\ q.at = "found" /\ q.who = k /\ q.route = route /\ q.place = Nobody /\ q.done = {}
    BY <1>a, <1>b, <2>1 DEF Knock
  <2>3. request[r] = NoRequest /\ places' = places /\ (request' = [request EXCEPT ![r] = q] \/ request' = request)
    BY <1>1 DEF Authenticates, Becomes
  <2> HIDE DEF q
  <2>4. Sound(q)
    BY <1>a, <2>1, <2>2 DEF Sound, Pool
  <2>5. CASE request' = [request EXCEPT ![r] = q]
    BY <1>b, <2>2, <2>3, <2>4, <2>5, PlaceKept
  <2>6. CASE request' = request
    BY <2>3, <2>6 DEF DInv, Exact, Takers
  <2> QED BY <2>3, <2>5, <2>6
<1>2. CASE Enters(r)
  <2>1. request[r].at = "found"
    BY <1>2 DEF Enters
  <2> DEFINE k == request[r].who
             q == [request[r] EXCEPT !.at = "in", !.who = Nobody, !.route.door = "", !.place = k,
                                     !.honest = (k \in valid)]
             way == Within(request[r].route)
  <2>2. /\ k \in Token /\ request[r].route \in Way /\ AllSuit(request[r].route) /\ request[r].done = {}
        /\ request[r].place = Nobody
    BY <1>a, <2>1 DEF Sound
  <2>3. /\ way \in Way /\ AllSuit(way)
    <3>1. way \in Way /\ way.calls = request[r].route.calls /\ way.scope = request[r].route.scope
      BY <2>2, OtherDoor
    <3> HIDE DEF way
    <3> QED BY <2>2, <3>1 DEF AllSuit
  <2>4. /\ q \in Knock /\ q.at = "in" /\ q.route = way /\ q.place = k /\ q.done = {} /\ q.honest = (k \in valid)
    <3>1. q = [[request[r] EXCEPT !.route = way] EXCEPT !.at = "in", !.who = Nobody, !.place = k, !.honest = (k \in valid)]
      BY <1>a, <2>2 DEF Knock, Within
    <3>2. k \in Pool /\ (k \in valid) \in BOOLEAN
      BY <2>2 DEF Pool
    <3> HIDE DEF way, q
    <3> QED BY <1>a, <2>2, <2>3, <3>1, <3>2 DEF Knock
  <2>5. CASE Refused(r)
    BY <2>2, <2>5, NoRequestIsSound, PlaceKept DEF Refused, Becomes
  <2>6. CASE TakesPlace(r, k) /\ k \in valid
    <3>1. /\ places[k] < PlacesOf(k) /\ places' = [places EXCEPT ![k] = @ + 1]
          /\ request' = [request EXCEPT ![r] = q]
      BY <2>6 DEF TakesPlace, Becomes
    <3> HIDE DEF q, way
    <3>2. Sound(q)
      BY <2>2, <2>3, <2>4, <2>6 DEF Sound
    <3>3. k \in Pool
      BY <2>2 DEF Pool
    <3> QED BY <2>2, <2>4, <3>1, <3>2, <3>3, PlaceTaken
  <2> QED BY <1>2, <2>5, <2>6 DEF Enters
<1>c. ASSUME NEW t \in Title, NEW route \in Routes
      PROVE  LET q == [NoRequest EXCEPT !.at = "in", !.route = Within(route), !.title = t]
             IN  /\ q \in Knock /\ Sound(q) /\ q.place = Nobody
                 /\ \A pool \in {"streams", "searches"} :
                      LET taking == [q EXCEPT !.place = pool]
                      IN  taking \in Knock /\ Sound(taking) /\ taking.place = pool
  <2> DEFINE q == [NoRequest EXCEPT !.at = "in", !.route = Within(route), !.title = t]
  <2>1. Within(route) \in Way
    <3>1. route \in Way
      BY RoutesFit
    <3> QED BY <3>1, OtherDoor
  <2>2. q \in Knock /\ q.at = "in" /\ q.route = Within(route) /\ q.place = Nobody
    BY <1>a, <1>b, <2>1 DEF Knock
  <2> HIDE DEF q
  <2>3. Sound(q)
    BY <1>a, <2>1, <2>2 DEF Sound, Pool
  <2>4. ASSUME NEW pool \in {"streams", "searches"}
        PROVE  LET taking == [q EXCEPT !.place = pool]
               IN  taking \in Knock /\ Sound(taking) /\ taking.place = pool
    <3> DEFINE taking == [q EXCEPT !.place = pool]
    <3>1. taking \in Knock /\ taking.at = "in" /\ taking.route = Within(route) /\ taking.place = pool
      BY <2>2 DEF Knock, Pool
    <3>2. pool \notin Token
      BY DoorAssumption
    <3> HIDE DEF taking
    <3>3. Sound(taking)
      BY <2>1, <3>1, <3>2 DEF Sound
    <3> QED BY <3>1, <3>3 DEF taking
  <2> QED BY <2>2, <2>3, <2>4 DEF q
<1>3. ASSUME NEW t \in Title, NEW route \in Routes, NEW pool \in {"streams", "searches"},
             request[r] = NoRequest, places[pool] < PlacesOf(pool),
             places' = [places EXCEPT ![pool] = @ + 1], NEW q,
             q = [NoRequest EXCEPT !.at = "in", !.route = Within(route), !.title = t],
             Becomes(r, [q EXCEPT !.place = pool])
      PROVE  DInv'
  <2> DEFINE taking == [q EXCEPT !.place = pool]
  <2>1. taking \in Knock /\ Sound(taking) /\ taking.place = pool
    <3>1. \A p \in {"streams", "searches"} :
            [q EXCEPT !.place = p] \in Knock /\ Sound([q EXCEPT !.place = p]) /\ [q EXCEPT !.place = p].place = p
      BY <1>3, <1>c, ZenonT(60)
    <3> QED BY <1>3, <3>1, Zenon
  <2>2. request' = [request EXCEPT ![r] = taking] /\ pool \in Pool
    BY <1>3 DEF Becomes, Pool
  <2> HIDE DEF taking
  <2> QED BY <1>3, <1>b, <2>1, <2>2, PlaceTaken
<1>4. ASSUME NEW t \in Title, NEW route \in Routes, request[r] = NoRequest, places' = places, NEW q,
             q = [NoRequest EXCEPT !.at = "in", !.route = Within(route), !.title = t], Becomes(r, q)
      PROVE  DInv'
  <2>1. q \in Knock /\ Sound(q) /\ q.place = Nobody
    BY <1>4, <1>c
  <2>2. request' = [request EXCEPT ![r] = q]
    BY <1>4 DEF Becomes
  <2> QED BY <1>4, <1>b, <2>1, <2>2, PlaceKept
<1>5. ASSUME NEW t \in Title, NEW route \in Routes
      PROVE  /\ EntersAdmin(r, route, t) => DInv'
             /\ EntersDownload(r, route, t) => DInv'
             /\ \A n \in 1..MaxKeys : EntersAddon(r, n, route, t) => DInv'
  <2> DEFINE q == [NoRequest EXCEPT !.at = "in", !.route = Within(route), !.title = t]
  <2>1. ASSUME EntersAdmin(r, route, t) PROVE DInv'
    BY <2>1, <1>4 DEF EntersAdmin
  <2>2. ASSUME EntersDownload(r, route, t) PROVE DInv'
    <3>1. /\ request[r] = NoRequest /\ places["streams"] < PlacesOf("streams")
          /\ places' = [places EXCEPT !["streams"] = @ + 1]
      BY <2>2, DoorAssumption DEF EntersDownload, PlacesOf
    <3>2. Becomes(r, [q EXCEPT !.place = "streams"])
      <4>1. [q EXCEPT !.place = "streams"]
              = [NoRequest EXCEPT !.at = "in", !.route = Within(route), !.title = t, !.place = "streams"]
        BY DEF NoRequest
      <4> QED BY <2>2, <4>1 DEF EntersDownload, Becomes
    <3> QED BY <3>1, <3>2, <1>3
  <2>3. ASSUME NEW n \in 1..MaxKeys, EntersAddon(r, n, route, t) PROVE DInv'
    <3>1. request[r] = NoRequest
      BY <2>3 DEF EntersAddon
    <3>2. CASE route.door = "addon"
      <4>1. Becomes(r, q) /\ places' = places
        BY <2>3, <3>2 DEF EntersAddon
      <4> QED BY <3>1, <4>1, <1>4
    <3>3. CASE route.door # "addon"
      <4>1. PICK pool \in {"streams", "searches"} :
              /\ places[pool] < PlacesOf(pool) /\ places' = [places EXCEPT ![pool] = @ + 1]
              /\ Becomes(r, [q EXCEPT !.place = pool])
        BY <2>3, <3>3 DEF EntersAddon
      <4> QED BY <3>1, <4>1, <1>3
    <3> QED BY <3>2, <3>3
  <2> QED BY <2>1, <2>2, <2>3
<1> QED BY <1>1, <1>2, <1>5

\* A call before the others.
LEMMA Preceded ==
  ASSUME NEW S, NEW a \in S, NEW s \in Seq(S), NEW n \in Nat, Len(s) = n - 1, n >= 1, NEW w, w = <<a>> \o s
  PROVE  w \in Seq(S) /\ DOMAIN w = 1..n /\ w[1] = a /\ \A i \in 2..n : w[i] = s[i - 1]
<1>1. <<a>> \in Seq(S) /\ Len(<<a>>) = 1 /\ <<a>>[1] = a
  OBVIOUS
<1>2. PICK one \in Seq(S) : one = <<a>>
  BY <1>1
<1>3. w \in Seq(S) /\ Len(w) = n /\ DOMAIN w = 1..n /\ \A i \in 1..n : w[i] = IF i <= 1 THEN one[i] ELSE s[i - 1]
  BY <1>1, <1>2
<1> QED BY <1>1, <1>2, <1>3

\* The calls of a request, and its end.
LEMMA CallingIsSound ==
  ASSUME DInv, NEW r \in Request,
         \/ Ends(r) \/ Reads(r) \/ Adds(r) \/ LooksFirst(r) \/ Plays(r) \/ Prepares(r)
         \/ Removes(r) \/ Rotates(r) \/ Saves(r)
         \/ \E k \in Token : Revokes(r, k) \/ Issues(r, k)
  PROVE  DInv'
<1>a. request[r] \in Knock /\ Sound(request[r])
  BY DEF DInv
<1>1. CASE Ends(r)
  BY <1>1, PlaceGivenBack DEF Ends
<1>2. ASSUME NEW call, Does(r, call), places' = places PROVE DInv'
  <2>1. PICK q \in Knock : q = request[r] /\ Sound(q)
    BY <1>a
  <2>2. /\ MayGoOn(q)
        /\ request' = [request EXCEPT ![r] = Since(q, Tail(q.route.calls), Asks(Head(q.route.calls)))]
    BY <1>2, <2>1 DEF Does, In, MayCall, Becomes, MayGoOn, Since
  <2>3. PICK u \in Seq(Call) : u = q.route.calls /\ u # <<>>
    BY <2>1, <2>2 DEF Sound, Way, MayGoOn
  <2>4. Tail(u) \in Seq(Call)
    BY <2>3
  <2>5. PICK rest \in Seq(Call) : rest = Tail(u)
    BY <2>4
  <2>6. \A i \in DOMAIN rest : \E j \in DOMAIN u : rest[i] = u[j]
    <3>1. /\ DOMAIN rest = 1..(Len(u) - 1) /\ Len(u) \in Nat /\ DOMAIN u = 1..Len(u)
          /\ \A i \in 1..(Len(u) - 1) : rest[i] = u[i + 1] /\ i + 1 \in 1..Len(u)
      BY <2>3, <2>5
    <3> QED BY <3>1
  <2>7. Remain(q, rest)
    BY <2>3, <2>6 DEF Remain
  <2>8. PICK extra : extra = Asks(Head(q.route.calls))
    OBVIOUS
  <2>9. Since(q, rest, extra) \in Knock /\ Sound(Since(q, rest, extra)) /\ Since(q, rest, extra).place = q.place
    <3>1. extra \in {{}, Asks(Head(q.route.calls))}
      BY <2>8
    <3> QED BY <2>1, <2>2, <2>5, <2>7, <3>1, CallIsSound
  <2>10. request' = [request EXCEPT ![r] = Since(q, rest, extra)]
    BY <2>2, <2>3, <2>5, <2>8
  <2> QED BY <1>2, <2>1, <2>9, <2>10, PlaceKept
<1>3. CASE LooksFirst(r)
  <2>1. PICK q \in Knock : q = request[r] /\ Sound(q)
    BY <1>a
  <2>2. /\ MayGoOn(q) /\ Head(q.route.calls) = "look" /\ places' = places
        /\ \E more \in {Tail(q.route.calls), <<"add">> \o Tail(q.route.calls)} :
             request' = [request EXCEPT ![r] = [q EXCEPT !.route.calls = more]]
    BY <1>3, <2>1 DEF LooksFirst, In, MayCall, Becomes, MayGoOn
  <2>3. PICK u \in Seq(Call) : u = q.route.calls /\ u # <<>> /\ Head(u) = "look"
    BY <2>1, <2>2 DEF Sound, Way, MayGoOn
  <2>4. Tail(u) \in Seq(Call)
    BY <2>3
  <2>5. PICK tail \in Seq(Call) : tail = Tail(u)
    BY <2>4
  <2>6. PICK rest \in {tail, <<"add">> \o tail} : request' = [request EXCEPT ![r] = [q EXCEPT !.route.calls = rest]]
    BY <2>2, <2>3, <2>5
  <2>7. /\ rest \in Seq(Call)
        /\ \A i \in DOMAIN rest : \/ \E j \in DOMAIN u : rest[i] = u[j]
                                  \/ rest[i] = "add" /\ \E j \in DOMAIN u : u[j] = "look"
    <3>1. /\ Len(tail) = Len(u) - 1 /\ Len(u) \in Nat /\ Len(u) >= 1 /\ DOMAIN u = 1..Len(u)
          /\ \A i \in 1..(Len(u) - 1) : tail[i] = u[i + 1] /\ i + 1 \in 1..Len(u)
          /\ u[1] = "look" /\ 1 \in 1..Len(u) /\ DOMAIN tail = 1..(Len(u) - 1)
      BY <2>3, <2>5
    <3>2. CASE rest = tail
      BY <3>1, <3>2
    <3>3. CASE rest = <<"add">> \o tail
      <4>1. /\ rest \in Seq(Call) /\ DOMAIN rest = 1..Len(u) /\ rest[1] = "add"
            /\ \A i \in 2..Len(u) : rest[i] = tail[i - 1]
        <5>1. "add" \in Call /\ Len(u) - 1 = Len(tail)
          BY <3>1 DEF Call
        <5> QED BY <3>1, <3>3, <5>1, Preceded
      <4>2. ASSUME NEW i \in 2..Len(u) PROVE i \in 1..Len(u) /\ rest[i] = u[i]
        <5>1. i - 1 \in 1..(Len(u) - 1) /\ (i - 1) + 1 = i
          BY <3>1
        <5> QED BY <3>1, <4>1, <5>1
      <4>3. \A i \in 1..Len(u) : i = 1 \/ i \in 2..Len(u)
        BY <3>1
      <4> QED BY <3>1, <4>1, <4>2, <4>3
    <3> QED BY <3>2, <3>3
  <2>8. rest \in Seq(Call) /\ Remain(q, rest)
    BY <2>3, <2>7 DEF Remain
  <2>9. Since(q, rest, {}) \in Knock /\ Sound(Since(q, rest, {})) /\ Since(q, rest, {}).place = q.place
    <3>1. {} \in {{}, Asks(Head(q.route.calls))}
      OBVIOUS
    <3> QED BY <2>1, <2>2, <2>8, <3>1, CallIsSound
  <2>10. Since(q, rest, {}) = [q EXCEPT !.route.calls = rest]
    BY <2>1 DEF Knock, Since
  <2> QED BY <2>1, <2>2, <2>6, <2>9, <2>10, PlaceKept
<1>4. CASE Reads(r) \/ Adds(r) \/ Plays(r) \/ Prepares(r) \/ Removes(r) \/ Rotates(r) \/ Saves(r)
           \/ \E k \in Token : Revokes(r, k) \/ Issues(r, k)
  <2>1. places' = places /\ \E call : Does(r, call)
    BY <1>4 DEF Reads, Adds, Plays, Prepares, Removes, Rotates, Saves, Revokes, Issues
  <2> QED BY <2>1, <1>2
<1> QED BY <1>1, <1>3, <1>4

LEMMA DoorsAreSound == DoorSpec => []DInv
<1>1. DInv /\ [DoorNext]_doorVars => DInv'
  <2> SUFFICES ASSUME DInv, [DoorNext]_doorVars PROVE DInv'
    OBVIOUS
  <2>1. ASSUME NEW r \in Request,
               \/ \E t \in Title, k \in Token, route \in TokenRoutes : Authenticates(r, k, route, t)
               \/ Enters(r) \/ Ends(r) \/ Reads(r) \/ Adds(r) \/ LooksFirst(r) \/ Plays(r) \/ Prepares(r)
               \/ Removes(r) \/ Rotates(r) \/ Saves(r)
               \/ \E t \in Title, route \in Routes :
                    \/ EntersDownload(r, route, t) \/ EntersAdmin(r, route, t)
                    \/ \E n \in 1..MaxKeys : EntersAddon(r, n, route, t)
               \/ \E k \in Token : Revokes(r, k) \/ Issues(r, k)
        PROVE  DInv'
    BY <2>1, EnteringIsSound, CallingIsSound
  <2>2. CASE FailuresEnd \/ UNCHANGED doorVars
    <3>1. UNCHANGED <<request, places>>
      BY <2>2 DEF FailuresEnd, doorVars
    <3> QED BY <3>1 DEF DInv, Exact, Takers
  <2> QED BY <2>1, <2>2 DEF DoorNext
<1> QED BY DoorsInitially, <1>1, PTL DEF DoorSpec

\* No place is lost or given back twice, however requests fail, end early or lose their
\* token, and none is taken that is not there: PlacesExact, for any numbers of requests,
\* tokens and places.
THEOREM PlacesAreExact == DoorSpec => []PlacesExact
<1>1. DInv => PlacesExact
  BY DEF DInv, Exact, Takers, PlacesExact
<1> QED BY <1>1, DoorsAreSound, PTL

\* What a request with a token has done it was allowed to do, in a place it took while
\* the token was valid, whichever door it came through: EffectsAllowed, for any tokens,
\* scopes and requests.
THEOREM EffectsAreAllowed == DoorSpec => []EffectsAllowed
<1>1. DInv => EffectsAllowed
  BY DEF DInv, Sound, EffectsAllowed
<1> QED BY <1>1, DoorsAreSound, PTL
-----------------------------------------------------------------------------
\* The sign-in.
Attempt == [window : 0..MaxWindows, count : Nat]
Checking == [by : Visitor \cup {NoOne}, window : 0..MaxWindows, right : BOOLEAN]

LoginTypeOK == /\ attempts \in [Address -> Attempt]
               /\ guess \in [Guess -> Checking]
               /\ windows \in 0..MaxWindows
               /\ checked \in [1..MaxWindows -> Nat]

Flying(w) == {g \in Guess : guess[g] # NoGuess /\ guess[g].window = w}

\* No two addresses are counted in one window, and a guess that is under way is that of the
\* address its window is of.
WindowsApart == /\ \A a, b \in Address : Counted(a) /\ attempts[a].window = attempts[b].window => a = b
                /\ \A a \in Address : attempts[a].window <= windows
                /\ \A g \in Verifying : guess[g].by \in Visitor /\ guess[g].window \in 1..windows
                /\ \A g \in Verifying, a \in Address :
                     Counted(a) /\ attempts[a].window = guess[g].window => a = guess[g].by

\* The checks of a window, done and under way, are no more than it has attempts; and
\* while it is counted, than have been counted.
WithinAttempts(w) ==
  /\ IsFiniteSet(Flying(w))
  /\ checked[w] + Cardinality(Flying(w)) <= MaxAttempts
  /\ w > windows => checked[w] = 0
  /\ \A a \in Address : attempts[a].window = w => checked[w] + Cardinality(Flying(w)) <= attempts[a].count

LInv == LoginTypeOK /\ WindowsApart /\ \A w \in 1..MaxWindows : WithinAttempts(w)

\* Behind addresses that are trusted stands the last that is not.
LEMMA LastStrange ==
  ASSUME NEW socket \in Trusted, NEW f, DOMAIN f \subseteq Nat, f # <<>>, NEW i \in DOMAIN f, f[i] \notin Trusted,
         \A j \in DOMAIN f : j > i => f[j] \in Trusted
  PROVE  clientAddress(socket, f) = f[i]
<1>1. PICK strange : strange = {j \in DOMAIN f : f[j] \notin Trusted}
  OBVIOUS
<1>2. i \in strange /\ strange \subseteq Nat /\ \A j \in strange : i >= j
  BY <1>1
<1>3. PICK last : last = Max(strange)
  OBVIOUS
<1>4. last \in strange /\ \A j \in strange : last >= j
  BY <1>2, <1>3 DEF Max
<1>5. last = i
  <2>1. last \in Nat /\ i \in Nat /\ last >= i /\ i >= last
    BY <1>2, <1>4
  <2> QED BY <2>1
<1> QED BY <1>1, <1>2, <1>3, <1>5 DEF clientAddress

\* Whatever a client writes in the header, its attempt counts against its own address.
LEMMA ClientIsVisitor ==
  ASSUME NEW v \in Visitor, NEW arrival \in Arrivals(v)
  PROVE  clientAddress(arrival.socket, arrival.forwarded) = v
<1>1. v \notin Trusted
  BY LoginAssumption
<1>2. \A o \in OwnHeader : o = <<>> \/ \E a \in Address : o = <<a>>
  BY DEF OwnHeader
<1>3. ASSUME NEW header, arrival \in Through(header)
      PROVE  \E o \in OwnHeader, p \in Trusted : arrival.socket = p /\ arrival.forwarded = o \o header
  BY <1>3 DEF Through
<1>b. \/ arrival.socket = v
      \/ arrival \in Through(<<v>>) \/ \E p \in Trusted : arrival \in Through(<<v, p>>)
  BY DEF Arrivals
<1>a. v \in Address /\ Trusted \subseteq Address
  BY DEF Address
<1>4. CASE arrival.socket = v
  BY <1>1, <1>4 DEF clientAddress
<1>5. ASSUME NEW o \in OwnHeader, NEW p \in Trusted, arrival.socket = p, arrival.forwarded = o \o <<v>>
      PROVE  clientAddress(arrival.socket, arrival.forwarded) = v
  <2>1. PICK f : f = arrival.forwarded
    OBVIOUS
  <2>2. f # <<>> /\ \E i \in DOMAIN f : f[i] = v /\ DOMAIN f = 1..i /\ i \in Nat
    <3>1. CASE o = <<>>
      <4>1. f = <<v>>
        BY <1>5, <2>1, <3>1
      <4> QED BY <4>1
    <3>2. ASSUME NEW a \in Address, o = <<a>> PROVE f # <<>> /\ \E i \in DOMAIN f : f[i] = v /\ DOMAIN f = 1..i /\ i \in Nat
      <4>0. <<v>> \in Seq(Address) /\ Len(<<v>>) = 2 - 1 /\ <<v>>[1] = v
        BY <1>a
      <4>1. PICK s \in Seq(Address) : s = <<v>> /\ Len(s) = 2 - 1 /\ s[1] = v
        BY <4>0
      <4>2. f = <<a>> \o s
        BY <1>5, <2>1, <3>2, <4>1
      <4>3. PICK n \in Nat : n = 2
        OBVIOUS
      <4>4. f \in Seq(Address) /\ DOMAIN f = 1..n /\ \A i \in 2..n : f[i] = s[i - 1]
        <5>1. Len(s) = n - 1 /\ n >= 1
          BY <4>1, <4>3
        <5> QED BY <4>2, <5>1, Preceded
      <4>5. DOMAIN f = 1..2 /\ f[2] = v /\ 2 \in DOMAIN f
        BY <4>1, <4>3, <4>4
      <4>6. f # <<>>
        <5>1. DOMAIN <<>> = {}
          OBVIOUS
        <5> QED BY <4>5, <5>1
      <4> QED BY <4>5, <4>6
    <3> QED BY <1>2, <3>1, <3>2
  <2>3. PICK i \in DOMAIN f : f[i] = v /\ DOMAIN f = 1..i /\ i \in Nat
    BY <2>2
  <2>4. DOMAIN f \subseteq Nat /\ \A j \in DOMAIN f : ~ (j > i)
    BY <2>3
  <2> QED BY <1>1, <1>5, <2>1, <2>2, <2>3, <2>4, LastStrange
<1>6. ASSUME NEW p \in Trusted, NEW o \in OwnHeader, NEW q \in Trusted, arrival.socket = q, arrival.forwarded = o \o <<v, p>>
      PROVE  clientAddress(arrival.socket, arrival.forwarded) = v
  <2>1. PICK f : f = arrival.forwarded
    OBVIOUS
  <2>2. f # <<>> /\ \E i \in DOMAIN f : f[i] = v /\ f[i + 1] = p /\ DOMAIN f = 1..(i + 1) /\ i \in Nat
    <3>1. CASE o = <<>>
      <4>1. f = <<v, p>>
        BY <1>6, <2>1, <3>1
      <4>2. f # <<>> /\ DOMAIN f = 1..2 /\ f[1] = v /\ f[2] = p
        BY <4>1
      <4> QED BY <4>2
    <3>2. ASSUME NEW a \in Address, o = <<a>>
          PROVE  f # <<>> /\ \E i \in DOMAIN f : f[i] = v /\ f[i + 1] = p /\ DOMAIN f = 1..(i + 1) /\ i \in Nat
      <4>0. <<v, p>> \in Seq(Address) /\ Len(<<v, p>>) = 3 - 1 /\ <<v, p>>[1] = v /\ <<v, p>>[2] = p
        BY <1>a
      <4>1. PICK s \in Seq(Address) : s = <<v, p>> /\ Len(s) = 3 - 1 /\ s[1] = v /\ s[2] = p
        BY <4>0
      <4>2. f = <<a>> \o s
        BY <1>6, <2>1, <3>2, <4>1
      <4>3. PICK n \in Nat : n = 3
        OBVIOUS
      <4>4. f \in Seq(Address) /\ DOMAIN f = 1..n /\ \A i \in 2..n : f[i] = s[i - 1]
        <5>1. Len(s) = n - 1 /\ n >= 1
          BY <4>1, <4>3
        <5> QED BY <4>2, <5>1, Preceded
      <4>5. DOMAIN f = 1..3 /\ f[2] = v /\ f[3] = p /\ 2 \in DOMAIN f
        BY <4>1, <4>3, <4>4
      <4>6. f # <<>>
        <5>1. DOMAIN <<>> = {}
          OBVIOUS
        <5> QED BY <4>5, <5>1
      <4> QED BY <4>5, <4>6
    <3> QED BY <1>2, <3>1, <3>2
  <2>3. PICK i \in DOMAIN f : f[i] = v /\ f[i + 1] = p /\ DOMAIN f = 1..(i + 1) /\ i \in Nat
    BY <2>2
  <2>4. DOMAIN f \subseteq Nat /\ \A j \in DOMAIN f : j > i => f[j] \in Trusted
    <3>1. \A j \in DOMAIN f : j > i => j = i + 1
      BY <2>3
    <3> QED BY <2>3, <3>1
  <2> QED BY <1>1, <1>6, <2>1, <2>2, <2>3, <2>4, LastStrange
<1> QED BY <1>b, <1>3, <1>4, <1>5, <1>6

LEMMA LoginsInitially == LoginInit => LInv
<1> SUFFICES ASSUME LoginInit PROVE LInv
  OBVIOUS
<1>1. MaxWindows \in Nat /\ MaxAttempts \in Nat
  BY LoginAssumption
<1>2. LoginTypeOK
  BY <1>1 DEF LoginInit, LoginTypeOK, Attempt, Checking, NoGuess
<1>3. \A g \in Guess : guess[g] = NoGuess
  BY DEF LoginInit
<1>4. WindowsApart
  BY <1>3 DEF LoginInit, WindowsApart, Counted, Verifying
<1>5. ASSUME NEW w \in 1..MaxWindows PROVE WithinAttempts(w)
  <2>1. Flying(w) = {}
    BY <1>3 DEF Flying
  <2>2. checked[w] = 0 /\ \A a \in Address : attempts[a].window # w
    BY <1>1 DEF LoginInit
  <2> QED BY <1>1, <2>1, <2>2, FS_EmptySet DEF WithinAttempts
<1> QED BY <1>2, <1>4, <1>5 DEF LInv

\* An attempt is counted before its password is checked.
LEMMA LoginCounts ==
  ASSUME LInv, NEW g \in Guess, NEW v \in Visitor, NEW right \in BOOLEAN, Login(g, v, right)
  PROVE  LInv'
<1>w. PICK w : w = IF Counted(v) THEN attempts[v].window ELSE windows + 1
  OBVIOUS
<1>1. /\ guess[g] = NoGuess /\ ~Throttled(v) /\ w <= MaxWindows
      /\ windows' = IF w > windows THEN w ELSE windows
      /\ attempts' = [attempts EXCEPT ![v] = [window |-> w, count |-> @.count + 1]]
      /\ guess' = [guess EXCEPT ![g] = [by |-> v, window |-> w, right |-> right]] \/ guess' = guess
      /\ checked' = checked
  BY <1>w, ClientIsVisitor DEF Login
<1>2. LoginTypeOK /\ WindowsApart /\ v \in Address /\ MaxWindows \in Nat /\ MaxAttempts \in Nat /\ v # NoOne
  BY LoginAssumption DEF LInv, Address
<1>3. /\ attempts[v].window \in 0..MaxWindows /\ attempts[v].count \in Nat /\ windows \in 0..MaxWindows
      /\ attempts[v].window <= windows /\ attempts[v].count < MaxAttempts
  BY <1>1, <1>2 DEF LoginTypeOK, Attempt, WindowsApart, Throttled
<1>4. w \in 1..MaxWindows /\ windows' \in 0..MaxWindows /\ w <= windows' /\ windows <= windows'
  BY <1>w, <1>1, <1>3 DEF Counted
<1>5. /\ attempts' \in [Address -> Attempt]
      /\ attempts'[v].window = w /\ attempts'[v].count = attempts[v].count + 1
      /\ \A a \in Address : a # v => attempts'[a] = attempts[a]
  BY <1>1, <1>2, <1>3, <1>4 DEF LoginTypeOK, Attempt
<1>6. /\ guess' \in [Guess -> Checking]
      /\ \A h \in Guess : h # g => guess'[h] = guess[h]
      /\ guess'[g] = NoGuess \/ (guess'[g].by = v /\ guess'[g].window = w /\ guess'[g] # NoGuess)
  <2>1. CASE guess' = guess
    BY <1>1, <1>2, <2>1 DEF LoginTypeOK
  <2>2. CASE guess' = [guess EXCEPT ![g] = [by |-> v, window |-> w, right |-> right]]
    <3>1. PICK k : k = [by |-> v, window |-> w, right |-> right]
      OBVIOUS
    <3>2. k \in Checking /\ k.by = v /\ k.window = w /\ k # NoGuess
      BY <1>2, <1>4, <3>1 DEF Checking, NoGuess
    <3>3. guess' = [guess EXCEPT ![g] = k]
      BY <2>2, <3>1
    <3> QED BY <1>2, <3>2, <3>3 DEF LoginTypeOK
  <2> QED BY <1>1, <2>1, <2>2
<1>7. \A a \in Address : attempts[a].window = w => a = v
  <2>1. CASE Counted(v)
    BY <1>w, <1>2, <2>1 DEF WindowsApart, Counted
  <2>2. CASE ~Counted(v)
    BY <1>w, <1>2, <1>3, <2>2 DEF WindowsApart, LoginTypeOK, Attempt
  <2> QED BY <2>1, <2>2
<1>8. \A h \in Verifying : guess[h].window = w => guess[h].by = v
  <2>1. CASE Counted(v)
    BY <1>w, <1>2, <2>1 DEF WindowsApart
  <2>2. CASE ~Counted(v)
    BY <1>w, <1>2, <1>3, <2>2 DEF WindowsApart
  <2> QED BY <2>1, <2>2
<1>9. WindowsApart'
  <2>1. \A a, b \in Address : Counted(a)' /\ attempts'[a].window = attempts'[b].window => a = b
    BY <1>2, <1>5, <1>7 DEF WindowsApart, Counted
  <2>2. \A a \in Address : attempts'[a].window <= windows'
    <3>1. \A a \in Address : attempts[a].window <= windows /\ attempts[a].window \in Nat
      BY <1>2 DEF WindowsApart, LoginTypeOK, Attempt
    <3> QED BY <1>3, <1>4, <1>5, <3>1
  <2>3. ASSUME NEW h \in Verifying'
        PROVE  /\ guess'[h].by \in Visitor /\ guess'[h].window \in 1..windows'
               /\ \A a \in Address : Counted(a)' /\ attempts'[a].window = guess'[h].window => a = guess'[h].by
    <3>1. CASE h = g
      BY <1>4, <1>5, <1>6, <1>7, <2>3, <3>1 DEF Verifying
    <3>2. CASE h # g
      <4>1. h \in Verifying /\ guess'[h] = guess[h]
        BY <1>6, <2>3, <3>2 DEF Verifying
      <4>2. guess[h].by \in Visitor /\ guess[h].window \in 1..windows
        BY <1>2, <4>1 DEF WindowsApart
      <4>3. guess[h].window \in 1..windows'
        BY <1>3, <1>4, <4>2
      <4> QED BY <1>2, <1>5, <1>8, <4>1, <4>2, <4>3 DEF WindowsApart, Counted
    <3> QED BY <3>1, <3>2
  <2> QED BY <2>1, <2>2, <2>3 DEF WindowsApart
<1>10. ASSUME NEW o \in 1..MaxWindows PROVE WithinAttempts(o)'
  <2>1. WithinAttempts(o) /\ checked[o] \in Nat /\ checked'[o] = checked[o]
    BY <1>1, <1>2 DEF LInv, LoginTypeOK
  <2>2. CASE o # w
    <3>1. Flying(o)' = Flying(o)
      BY <1>1, <1>6, <2>2 DEF Flying
    <3>2. o > windows' => o > windows
      BY <1>3, <1>4
    <3> QED BY <1>5, <2>1, <2>2, <3>1, <3>2 DEF WithinAttempts
  <2>3. CASE o = w
    <3>1. /\ IsFiniteSet(Flying(w)) /\ Cardinality(Flying(w)) \in Nat
          /\ checked[w] + Cardinality(Flying(w)) <= attempts[v].count
      <4>1. CASE Counted(v)
        <5>1. attempts[v].window = w
          BY <1>w, <4>1
        <5> QED BY <1>2, <2>1, <2>3, <5>1, FS_CardinalityType DEF WithinAttempts
      <4>2. CASE ~Counted(v)
        <5>1. w = windows + 1 /\ w > windows
          BY <1>w, <1>3, <4>2
        <5>2. Flying(w) = {}
          BY <1>2, <1>3, <5>1 DEF Flying, WindowsApart, Verifying
        <5>3. checked[w] = 0
          BY <2>1, <2>3, <5>1 DEF WithinAttempts
        <5> QED BY <1>3, <5>2, <5>3, FS_EmptySet
      <4> QED BY <4>1, <4>2
    <3>2. IsFiniteSet(Flying(w)') /\ Cardinality(Flying(w)') <= Cardinality(Flying(w)) + 1
          /\ Cardinality(Flying(w)') \in Nat
      <4>1. CASE Flying(w)' = Flying(w)
        BY <3>1, <4>1
      <4>2. CASE Flying(w)' = Flying(w) \cup {g}
        <5>1. /\ IsFiniteSet(Flying(w) \cup {g})
              /\ Cardinality(Flying(w) \cup {g}) \in {Cardinality(Flying(w)), Cardinality(Flying(w)) + 1}
          BY <3>1, FS_AddElement
        <5> QED BY <3>1, <4>2, <5>1
      <4>3. Flying(w)' = Flying(w) \/ Flying(w)' = Flying(w) \cup {g}
        <5>1. CASE guess'[g] = NoGuess
          BY <1>1, <1>6, <5>1 DEF Flying
        <5>2. CASE guess'[g].window = w /\ guess'[g] # NoGuess
          BY <1>1, <1>6, <5>2 DEF Flying
        <5> QED BY <1>6, <5>1, <5>2
      <4> QED BY <4>1, <4>2, <4>3
    <3>3. checked'[w] + Cardinality(Flying(w)') <= attempts[v].count + 1
      BY <2>1, <2>3, <3>1, <3>2, <1>3
    <3>4. \A a \in Address : attempts'[a].window = w => a = v
      BY <1>5, <1>7
    <3>5. checked'[w] + Cardinality(Flying(w)') <= MaxAttempts
      BY <1>1, <1>2, <1>3, <2>1, <2>3, <3>2, <3>3
    <3>6. ~ (w > windows')
      BY <1>3, <1>4
    <3>7. \A a \in Address : attempts'[a].window = w => checked'[w] + Cardinality(Flying(w)') <= attempts'[a].count
      BY <1>5, <3>3, <3>4
    <3> QED BY <2>3, <3>2, <3>5, <3>6, <3>7 DEF WithinAttempts
  <2> QED BY <2>2, <2>3
<1>11. LoginTypeOK'
  BY <1>1, <1>2, <1>4, <1>5, <1>6 DEF LoginTypeOK
<1> QED BY <1>9, <1>10, <1>11 DEF LInv

\* A password has been checked.
LEMMA VerifiedCounts ==
  ASSUME LInv, NEW g \in Guess, Verified(g)
  PROVE  LInv'
<1>w. PICK w : w = guess[g].window
  OBVIOUS
<1>1. /\ guess[g] # NoGuess /\ guess' = [guess EXCEPT ![g] = NoGuess]
      /\ checked' = [checked EXCEPT ![w] = @ + 1] /\ windows' = windows
      /\ \/ attempts' = [a \in Address |-> IF attempts[a].window = w THEN [window |-> 0, count |-> 0] ELSE attempts[a]]
         \/ attempts' = attempts
  BY <1>w DEF Verified
<1>2. LoginTypeOK /\ WindowsApart /\ g \in Verifying
  BY <1>1 DEF LInv, Verifying
<1>3. w \in 1..MaxWindows /\ windows \in 0..MaxWindows /\ MaxWindows \in Nat /\ w <= windows /\ MaxAttempts \in Nat
  BY <1>w, <1>2, LoginAssumption DEF WindowsApart, LoginTypeOK
<1>4. NoGuess \in Checking
  BY <1>3 DEF NoGuess, Checking
<1>5. /\ guess' \in [Guess -> Checking] /\ guess'[g] = NoGuess
      /\ \A h \in Guess : h # g => guess'[h] = guess[h]
  BY <1>1, <1>2, <1>4 DEF LoginTypeOK
<1>6. attempts' \in [Address -> Attempt] /\ \A a \in Address : attempts'[a] = attempts[a] \/ attempts'[a].window = 0
  BY <1>1, <1>2, <1>3 DEF LoginTypeOK, Attempt
<1>7. /\ checked' \in [1..MaxWindows -> Nat] /\ checked'[w] = checked[w] + 1
      /\ \A o \in 1..MaxWindows : o # w => checked'[o] = checked[o]
  BY <1>1, <1>2, <1>3 DEF LoginTypeOK
<1>8. WindowsApart'
  <2>1. \A a, b \in Address : Counted(a)' /\ attempts'[a].window = attempts'[b].window => a = b
    BY <1>2, <1>6 DEF WindowsApart, Counted
  <2>2. \A a \in Address : attempts'[a].window <= windows'
    BY <1>1, <1>2, <1>3, <1>6 DEF WindowsApart
  <2>3. \A h \in Verifying' : h \in Verifying /\ guess'[h] = guess[h]
    BY <1>5 DEF Verifying
  <2> QED BY <1>1, <1>2, <1>6, <2>1, <2>2, <2>3 DEF WindowsApart, Counted
<1>9. ASSUME NEW o \in 1..MaxWindows PROVE WithinAttempts(o)'
  <2>1. WithinAttempts(o) /\ checked[o] \in Nat
    BY <1>2 DEF LInv, LoginTypeOK
  <2>2. \A a \in Address : attempts'[a].window = o => attempts'[a] = attempts[a]
    BY <1>6
  <2>3. CASE o # w
    <3>1. Flying(o)' = Flying(o)
      BY <1>w, <1>1, <1>5, <2>3 DEF Flying
    <3> QED BY <1>1, <1>7, <2>1, <2>2, <2>3, <3>1 DEF WithinAttempts
  <2>4. CASE o = w
    <3>1. Flying(o)' = Flying(o) \ {g} /\ g \in Flying(o)
      BY <1>w, <1>1, <1>5, <2>4 DEF Flying
    <3>2. /\ IsFiniteSet(Flying(o)') /\ Cardinality(Flying(o)') = Cardinality(Flying(o)) - 1
          /\ Cardinality(Flying(o)) \in Nat
      <4>1. /\ IsFiniteSet(Flying(o) \ {g}) /\ Cardinality(Flying(o) \ {g}) = Cardinality(Flying(o)) - 1
            /\ Cardinality(Flying(o)) \in Nat
        BY <2>1, <3>1, FS_RemoveElement, FS_CardinalityType DEF WithinAttempts
      <4> QED BY <3>1, <4>1
    <3>3. checked'[o] + Cardinality(Flying(o)') = checked[o] + Cardinality(Flying(o))
      BY <1>7, <2>1, <2>4, <3>2
    <3> QED BY <1>1, <1>3, <2>1, <2>2, <2>4, <3>2, <3>3 DEF WithinAttempts
  <2> QED BY <2>3, <2>4
<1>10. LoginTypeOK'
  BY <1>1, <1>2, <1>5, <1>6, <1>7 DEF LoginTypeOK
<1> QED BY <1>8, <1>9, <1>10 DEF LInv

\* A window of attempts ends.
LEMMA WindowEndCounts ==
  ASSUME LInv, NEW a \in Address, WindowEnds(a)
  PROVE  LInv'
<1>1. /\ attempts' = [attempts EXCEPT ![a] = [window |-> 0, count |-> 0]]
      /\ UNCHANGED <<guess, windows, checked>> /\ LoginTypeOK /\ WindowsApart /\ MaxWindows \in Nat
  BY LoginAssumption DEF WindowEnds, LInv
<1>2. attempts' \in [Address -> Attempt] /\ \A b \in Address : attempts'[b] = attempts[b] \/ attempts'[b].window = 0
  BY <1>1 DEF LoginTypeOK, Attempt
<1>3. LoginTypeOK'
  BY <1>1, <1>2 DEF LoginTypeOK
<1>4. WindowsApart'
  <2>1. windows \in Nat
    BY <1>1 DEF LoginTypeOK
  <2> QED BY <1>1, <1>2, <2>1 DEF WindowsApart, Counted, Verifying
<1>5. ASSUME NEW w \in 1..MaxWindows PROVE WithinAttempts(w)'
  <2>1. WithinAttempts(w) /\ Flying(w)' = Flying(w)
    BY <1>1 DEF LInv, Flying
  <2> QED BY <1>1, <1>2, <2>1 DEF WithinAttempts
<1> QED BY <1>3, <1>4, <1>5 DEF LInv

\* No more passwords are checked in a window than there are attempts, however many
\* requests send them and however their headers are written: GuessesBounded, for any
\* numbers of attempts, checks at once, addresses and windows.
THEOREM GuessesAreBounded == LoginSpec => []GuessesBounded
<1>1. LInv /\ [LoginNext]_loginVars => LInv'
  <2> SUFFICES ASSUME LInv, [LoginNext]_loginVars PROVE LInv'
    OBVIOUS
  <2>1. CASE SessionEnds \/ UNCHANGED loginVars
    <3>1. UNCHANGED <<attempts, guess, windows, checked>>
      BY <2>1 DEF SessionEnds, loginVars
    <3> QED BY <3>1 DEF LInv, LoginTypeOK, WindowsApart, Counted, Verifying, WithinAttempts, Flying
  <2> QED BY <2>1, LoginCounts, VerifiedCounts, WindowEndCounts DEF LoginNext
<1>2. ASSUME LInv PROVE GuessesBounded
  <2>1. ASSUME NEW w \in 1..MaxWindows PROVE checked[w] <= MaxAttempts
    <3>1. /\ checked[w] \in Nat /\ MaxAttempts \in Nat /\ Cardinality(Flying(w)) \in Nat
          /\ checked[w] + Cardinality(Flying(w)) <= MaxAttempts
      <4>1. WithinAttempts(w) /\ checked[w] \in Nat
        BY <1>2 DEF LInv, LoginTypeOK
      <4>2. Cardinality(Flying(w)) \in Nat
        BY <4>1, FS_CardinalityType DEF WithinAttempts
      <4> QED BY <4>1, <4>2, LoginAssumption DEF WithinAttempts
    <3> QED BY <3>1
  <2> QED BY <1>2, <2>1 DEF LInv, WindowsApart, GuessesBounded
<1> QED BY LoginsInitially, <1>1, <1>2, PTL DEF LoginSpec
-----------------------------------------------------------------------------
\* The shared list.
ListRow == [value : Nat, at : Nat, state : {"asked", "taken", "answered", "failed"}]
View == [at : {"idle", "waits", "saw"}, list : Nat, own : BOOLEAN, floor : Nat, done : Nat, saw : Nat]

ViewsTypeOK == /\ {now, jobs, settled, mutated, operation} \subseteq Nat
               /\ list \in Seq(ListRow)
               /\ snapshot \in 0..Len(list)
               /\ viewer \in [Viewer -> View]

\* A list that has been taken shows the changes up to `floor`.
Holds(lists, l, floor) == lists[l].state \in {"taken", "answered"} => lists[l].value >= floor

\* The list in the map shows every operation that has succeeded, and one a reader waits
\* for all that had when it began.
VInv == /\ ViewsTypeOK
        /\ settled <= jobs /\ operation <= jobs /\ (operation # 0 => settled <= operation)
        /\ snapshot # 0 => Holds(list, snapshot, settled)
        /\ \A v \in Viewer : viewer[v].at = "waits" =>
             /\ viewer[v].list \in 1..Len(list)
             /\ Holds(list, viewer[v].list, viewer[v].floor)
             /\ viewer[v].floor <= settled
        /\ AnsweredIsListed

\* One of the lists has another state.
LEMMA ListChanges ==
  ASSUME NEW s \in Seq(ListRow), NEW l \in DOMAIN s, NEW row \in ListRow
  PROVE  LET t == [s EXCEPT ![l] = row] IN
         /\ t \in Seq(ListRow) /\ Len(t) = Len(s)
         /\ t[l] = row /\ \A i \in 1..Len(s) : i # l => t[i] = s[i]
  OBVIOUS

\* A list more.
LEMMA ListAsked ==
  ASSUME NEW s \in Seq(ListRow), NEW row \in ListRow
  PROVE  LET t == Append(s, row) IN
         /\ t \in Seq(ListRow) /\ Len(t) = Len(s) + 1
         /\ t[Len(s) + 1] = row /\ \A i \in 1..Len(s) : t[i] = s[i]
  OBVIOUS

\* A reader asks for a list or joins one, at a floor that is not beyond what the map
\* shows.
LEMMA ReaderWaits ==
  ASSUME VInv, NEW v \in Viewer, NEW view \in View, view.floor <= settled,
         UNCHANGED <<now, jobs, settled, mutated, operation>>,
         (JoinsList(v, view) /\ snapshot # 0) \/ AsksList(v, view)
  PROVE  VInv'
<1>a. ViewsTypeOK /\ list \in Seq(ListRow) /\ Len(list) \in Nat /\ viewer \in [Viewer -> View]
  BY DEF VInv, ViewsTypeOK
<1>1. CASE JoinsList(v, view) /\ snapshot # 0
  <2>1. PICK x \in View : /\ x.at = "waits" /\ x.list = snapshot /\ x.floor = view.floor
                          /\ viewer' = [viewer EXCEPT ![v] = x]
    <3> DEFINE x == [view EXCEPT !.at = "waits", !.list = snapshot, !.own = FALSE]
    <3>1. snapshot \in Nat
      BY <1>a DEF ViewsTypeOK
    <3>2. x \in View /\ x.at = "waits" /\ x.list = snapshot /\ x.floor = view.floor
      BY <3>1 DEF View
    <3>3. viewer' = [viewer EXCEPT ![v] = x]
      BY <1>1 DEF JoinsList
    <3> QED BY <3>2, <3>3
  <2>2. UNCHANGED <<list, snapshot>>
    BY <1>1 DEF JoinsList
  <2>3. viewer' \in [Viewer -> View] /\ viewer'[v] = x /\ \A u \in Viewer : u # v => viewer'[u] = viewer[u]
    BY <1>a, <2>1
  <2>4. snapshot \in 1..Len(list) /\ Holds(list, snapshot, view.floor)
    <3>1. snapshot \in 1..Len(list) /\ Holds(list, snapshot, settled) /\ settled \in Nat
      BY <1>a, <1>1 DEF VInv, ViewsTypeOK
    <3>2. list[snapshot] \in ListRow
      BY <1>a, <3>1
    <3>3. list[snapshot].value \in Nat /\ view.floor \in Nat
      BY <3>2 DEF ListRow, View
    <3> QED BY <3>1, <3>3 DEF Holds
  <2> QED BY <2>1, <2>2, <2>3, <2>4 DEF VInv, ViewsTypeOK, Holds, AnsweredIsListed
<1>2. CASE AsksList(v, view)
  <2>1. PICK row \in ListRow : row.state = "asked" /\ list' = Append(list, row)
    BY <1>2 DEF AsksList, ListRow
  <2>2. /\ list' \in Seq(ListRow) /\ Len(list') = Len(list) + 1
        /\ list'[Len(list) + 1] = row /\ \A i \in 1..Len(list) : list'[i] = list[i]
    BY <1>a, <2>1, ListAsked
  <2>3. PICK x \in View : /\ x.at = "waits" /\ x.list = Len(list) + 1 /\ x.floor = view.floor
                          /\ viewer' = [viewer EXCEPT ![v] = x]
    <3> DEFINE x == [view EXCEPT !.at = "waits", !.list = Len(list'), !.own = TRUE]
    <3>1. Len(list) + 1 \in Nat
      BY <1>a
    <3>2. x \in View /\ x.at = "waits" /\ x.list = Len(list) + 1 /\ x.floor = view.floor
      BY <2>2, <3>1 DEF View
    <3>3. viewer' = [viewer EXCEPT ![v] = x]
      BY <1>2 DEF AsksList
    <3> QED BY <3>2, <3>3
  <2>4. viewer' \in [Viewer -> View] /\ viewer'[v] = x /\ \A u \in Viewer : u # v => viewer'[u] = viewer[u]
    BY <1>a, <2>3
  <2>5. snapshot' = Len(list) + 1
    BY <1>2, <2>2 DEF AsksList
  <2>6. ViewsTypeOK'
    BY <1>a, <2>2, <2>4, <2>5 DEF ViewsTypeOK
  <2>7. \A f : Holds(list', Len(list) + 1, f)
    BY <2>1, <2>2 DEF Holds
  <2>8. \A f : \A i \in 1..Len(list) : Holds(list, i, f) => Holds(list', i, f)
    BY <2>2 DEF Holds
  <2>9. ASSUME NEW u \in Viewer, viewer'[u].at = "waits"
        PROVE  /\ viewer'[u].list \in 1..Len(list') /\ Holds(list', viewer'[u].list, viewer'[u].floor)
               /\ viewer'[u].floor <= settled'
    <3>1. CASE u = v
      BY <1>a, <2>2, <2>3, <2>4, <2>7, <3>1
    <3>2. CASE u # v
      <4>1. viewer[u].list \in 1..Len(list) /\ Holds(list, viewer[u].list, viewer[u].floor) /\ viewer[u].floor <= settled
        BY <2>4, <2>9, <3>2 DEF VInv
      <4>2. viewer[u].list \in 1..(Len(list) + 1)
        BY <1>a, <4>1
      <4> QED BY <2>2, <2>4, <2>8, <3>2, <4>1, <4>2
    <3> QED BY <3>1, <3>2
  <2>10. AnsweredIsListed'
    BY <2>3, <2>4 DEF VInv, AnsweredIsListed
  <2>11. Holds(list', snapshot', settled')
    BY <2>5, <2>7
  <2> QED BY <2>6, <2>9, <2>10, <2>11 DEF VInv
<1> QED BY <1>1, <1>2

LEMMA ViewsInitially == SnapshotInit => VInv
<1> SUFFICES ASSUME SnapshotInit PROVE VInv
  OBVIOUS
<1>1. NoView \in View /\ NoView.at = "idle"
  BY DEF NoView, View
<1>2. ViewsTypeOK
  BY <1>1 DEF SnapshotInit, ViewsTypeOK
<1>3. \A v \in Viewer : viewer[v].at = "idle"
  BY <1>1 DEF SnapshotInit
<1> QED BY <1>2, <1>3 DEF VInv, SnapshotInit, AnsweredIsListed

\* Every step of a reader, the backend or the process.
LEMMA ViewsInductive == VInv /\ [SnapshotNext]_snapshotVars => VInv'
<1> SUFFICES ASSUME VInv, [SnapshotNext]_snapshotVars PROVE VInv'
  OBVIOUS
<1>a. /\ ViewsTypeOK /\ list \in Seq(ListRow) /\ Len(list) \in Nat /\ viewer \in [Viewer -> View]
      /\ DOMAIN list = 1..Len(list)
  BY DEF VInv, ViewsTypeOK
<1>b. \A l \in 1..Len(list) : list[l] \in ListRow
  BY <1>a
<1>1. ASSUME NEW v \in Viewer, BeginsView(v) PROVE VInv'
  <2> DEFINE view == [NoView EXCEPT !.floor = settled, !.done = mutated]
  <2>1. view \in View /\ view.floor <= settled
    <3>1. settled \in Nat /\ mutated \in Nat
      BY <1>a DEF ViewsTypeOK
    <3>2. NoView \in View
      BY DEF NoView, View
    <3>3. view \in View /\ view.floor = settled
      BY <3>1, <3>2 DEF View
    <3> HIDE DEF view
    <3> QED BY <3>1, <3>3
  <2>2. (JoinsList(v, view) /\ snapshot # 0) \/ AsksList(v, view)
    BY <1>1 DEF BeginsView
  <2>3. UNCHANGED <<now, jobs, settled, mutated, operation>>
    BY <1>1 DEF BeginsView
  <2> HIDE DEF view
  <2> QED BY <2>1, <2>2, <2>3, ReaderWaits
<1>2. ASSUME NEW v \in Viewer, SeesOldList(v) PROVE VInv'
  <2>1. viewer[v] \in View /\ viewer[v].floor <= settled
    BY <1>2, <1>a DEF SeesOldList, Waiting, VInv
  <2>2. (JoinsList(v, viewer[v]) /\ snapshot # 0) \/ AsksList(v, viewer[v])
    BY <1>2 DEF SeesOldList
  <2>3. UNCHANGED <<now, jobs, settled, mutated, operation>>
    BY <1>2 DEF SeesOldList
  <2> QED BY <2>1, <2>2, <2>3, ReaderWaits
<1>3. ASSUME NEW v \in Viewer, SeesList(v) \/ SeesFailure(v) \/ LeavesView(v) PROVE VInv'
  <2>1. PICK x \in View : /\ viewer' = [viewer EXCEPT ![v] = x]
                          /\ x.at # "waits" /\ (x.at = "saw" => x.saw >= x.floor)
    <3>0. viewer[v] \in View
      BY <1>a
    <3>1. CASE LeavesView(v)
      <4>1. NoView \in View /\ NoView.at = "idle"
        BY DEF NoView, View
      <4>2. viewer' = [viewer EXCEPT ![v] = NoView]
        BY <3>1 DEF LeavesView
      <4> QED BY <4>1, <4>2
    <3>2. ASSUME NEW seen \in Nat, seen >= viewer[v].floor,
                 viewer' = [viewer EXCEPT ![v].at = "saw", ![v].saw = seen]
          PROVE  \E x \in View : /\ viewer' = [viewer EXCEPT ![v] = x]
                                 /\ x.at # "waits" /\ (x.at = "saw" => x.saw >= x.floor)
      <4> DEFINE x == [viewer[v] EXCEPT !.at = "saw", !.saw = seen]
      <4>1. x \in View /\ x.at = "saw" /\ x.saw = seen /\ x.floor = viewer[v].floor
        BY <3>0 DEF View
      <4>2. viewer' = [viewer EXCEPT ![v] = x]
        BY <3>2, <1>a
      <4> QED BY <3>2, <4>1, <4>2
    <3>3. CASE SeesList(v)
      <4>1. /\ viewer[v].at = "waits" /\ list[viewer[v].list].state = "answered"
            /\ viewer' = [viewer EXCEPT ![v].at = "saw", ![v].saw = list[viewer[v].list].value]
        BY <3>3 DEF SeesList, Waiting, Its
      <4>2. viewer[v].list \in 1..Len(list) /\ Holds(list, viewer[v].list, viewer[v].floor)
        BY <4>1 DEF VInv
      <4>3. list[viewer[v].list].value \in Nat
        BY <1>b, <4>2 DEF ListRow
      <4>4. list[viewer[v].list].value >= viewer[v].floor
        BY <4>1, <4>2 DEF Holds
      <4> QED BY <3>2, <4>1, <4>3, <4>4
    <3>4. CASE SeesFailure(v)
      <4>1. viewer[v].at = "waits" /\ viewer' = [viewer EXCEPT ![v].at = "saw", ![v].saw = jobs]
        BY <3>4 DEF SeesFailure, Waiting
      <4>2. viewer[v].floor <= settled /\ settled <= jobs
        BY <4>1 DEF VInv
      <4>3. jobs \in Nat /\ settled \in Nat /\ viewer[v].floor \in Nat
        BY <1>a, <3>0 DEF ViewsTypeOK, View
      <4>4. jobs >= viewer[v].floor
        BY <4>2, <4>3
      <4> QED BY <3>2, <4>1, <4>3, <4>4
    <3> QED BY <1>3, <3>1, <3>3, <3>4
  <2>2. /\ UNCHANGED <<now, jobs, settled, mutated, operation, list>> /\ snapshot' \in {0, snapshot}
    BY <1>3 DEF SeesList, SeesFailure, LeavesView
  <2>3. viewer' \in [Viewer -> View] /\ viewer'[v] = x /\ \A u \in Viewer : u # v => viewer'[u] = viewer[u]
    BY <1>a, <2>1
  <2>4. ViewsTypeOK'
    BY <1>a, <2>2, <2>3 DEF ViewsTypeOK
  <2> QED BY <2>1, <2>2, <2>3, <2>4 DEF VInv, Holds, AnsweredIsListed
<1>4. ASSUME NEW l \in DOMAIN list, ListTaken(l) \/ ListAnswered(l) \/ ListFails(l) PROVE VInv'
  <2>1. PICK row \in ListRow :
             /\ list' = [list EXCEPT ![l] = row]
             /\ row.state \in {"taken", "answered"} =>
                  \/ row.value = jobs
                  \/ list[l].state \in {"taken", "answered"} /\ row.value = list[l].value
    <3>0. list[l] \in ListRow /\ jobs \in Nat /\ now \in Nat
      BY <1>a, <1>b DEF ViewsTypeOK
    <3>1. CASE ListTaken(l)
      <4>1. [list[l] EXCEPT !.value = jobs, !.state = "taken"] \in ListRow
        BY <3>0 DEF ListRow
      <4>2. list' = [list EXCEPT ![l] = [list[l] EXCEPT !.value = jobs, !.state = "taken"]]
        BY <3>1, <1>a DEF ListTaken
      <4>3. [list[l] EXCEPT !.value = jobs, !.state = "taken"].value = jobs
        BY <3>0 DEF ListRow
      <4> QED BY <4>1, <4>2, <4>3
    <3>2. CASE ListAnswered(l)
      <4>1. [list[l] EXCEPT !.at = now, !.state = "answered"] \in ListRow
        BY <3>0 DEF ListRow
      <4>2. list' = [list EXCEPT ![l] = [list[l] EXCEPT !.at = now, !.state = "answered"]]
        BY <3>2, <1>a DEF ListAnswered
      <4>3. /\ [list[l] EXCEPT !.at = now, !.state = "answered"].value = list[l].value
            /\ list[l].state = "taken"
        BY <3>0, <3>2 DEF ListRow, ListAnswered
      <4> QED BY <4>1, <4>2, <4>3
    <3>3. CASE ListFails(l)
      <4> DEFINE row == [value |-> 0, at |-> 0, state |-> "failed"]
      <4>1. row \in ListRow /\ row.state = "failed"
        BY DEF ListRow
      <4>2. list' = [list EXCEPT ![l] = row]
        BY <3>3 DEF ListFails
      <4> HIDE DEF row
      <4> QED BY <4>1, <4>2
    <3> QED BY <1>4, <3>1, <3>2, <3>3
  <2>2. UNCHANGED <<now, jobs, settled, mutated, operation, snapshot, viewer>>
    BY <1>4 DEF ListTaken, ListAnswered, ListFails
  <2>3. /\ list' \in Seq(ListRow) /\ Len(list') = Len(list)
        /\ list'[l] = row /\ \A i \in 1..Len(list) : i # l => list'[i] = list[i]
    BY <1>a, <2>1, ListChanges
  <2>4. ViewsTypeOK'
    BY <1>a, <2>2, <2>3 DEF ViewsTypeOK
  <2>5. ASSUME NEW i \in 1..Len(list), NEW f \in Nat, f <= jobs, Holds(list, i, f)
        PROVE  Holds(list', i, f)
    BY <1>a, <1>b, <2>1, <2>3, <2>5 DEF Holds, ViewsTypeOK
  <2>6. snapshot # 0 => Holds(list', snapshot', settled')
    <3>1. snapshot \in 0..Len(list) /\ settled \in Nat /\ settled <= jobs
      BY <1>a DEF VInv, ViewsTypeOK
    <3> QED BY <1>a, <2>2, <2>5, <3>1 DEF VInv
  <2>7. ASSUME NEW u \in Viewer, viewer[u].at = "waits"
        PROVE  viewer[u].list \in 1..Len(list) /\ Holds(list', viewer[u].list, viewer[u].floor) /\ viewer[u].floor <= settled
    <3>1. viewer[u].list \in 1..Len(list) /\ Holds(list, viewer[u].list, viewer[u].floor) /\ viewer[u].floor <= settled
      BY <2>7 DEF VInv
    <3>2. viewer[u].floor \in Nat /\ viewer[u].floor <= jobs
      <4>1. viewer[u] \in View /\ settled \in Nat /\ jobs \in Nat /\ settled <= jobs
        BY <1>a DEF VInv, ViewsTypeOK
      <4>2. viewer[u].floor \in Nat
        BY <4>1 DEF View
      <4> QED BY <3>1, <4>1, <4>2
    <3> QED BY <2>5, <3>1, <3>2
  <2> QED BY <2>2, <2>3, <2>4, <2>6, <2>7 DEF VInv, AnsweredIsListed
<1>5. CASE OperationActs \/ BackgroundActs
  <2>1. /\ jobs' = jobs + 1 /\ UNCHANGED <<now, settled, list, snapshot, viewer>>
        /\ mutated' \in {mutated, jobs + 1} /\ operation' \in {operation, jobs + 1}
    BY <1>5 DEF OperationActs, BackgroundActs
  <2>2. ViewsTypeOK'
    BY <1>a, <2>1 DEF ViewsTypeOK
  <2> QED BY <1>a, <2>1, <2>2 DEF VInv, ViewsTypeOK, Holds, AnsweredIsListed
<1>6. CASE OperationEnds
  <2>1. /\ operation # 0 /\ operation' = 0 /\ snapshot' = 0 /\ settled' = operation
        /\ mutated' = Max({mutated, operation})
        /\ UNCHANGED <<now, jobs, list, viewer>>
    BY <1>6 DEF OperationEnds
  <2>2. ViewsTypeOK'
    <3>1. mutated \in Nat /\ operation \in Nat
      BY <1>a DEF ViewsTypeOK
    <3>2. mutated' \in Nat
      BY <2>1, <3>1, MaxOfTwo
    <3> QED BY <1>a, <2>1, <3>2 DEF ViewsTypeOK
  <2>3. settled <= settled' /\ settled' <= jobs /\ settled \in Nat /\ settled' \in Nat
    BY <1>a, <2>1 DEF VInv, ViewsTypeOK
  <2>4. ASSUME NEW u \in Viewer, viewer[u].at = "waits" PROVE viewer[u].floor <= settled'
    <3>1. viewer[u] \in View /\ viewer[u].floor <= settled
      BY <1>a, <2>4 DEF VInv
    <3>2. viewer[u].floor \in Nat
      BY <3>1 DEF View
    <3> QED BY <2>3, <3>1, <3>2
  <2>5. jobs \in Nat /\ operation' <= jobs
    BY <1>a, <2>1 DEF ViewsTypeOK
  <2> QED BY <2>1, <2>2, <2>3, <2>4, <2>5 DEF VInv, AnsweredIsListed
<1>7. CASE OperationFails \/ TimePasses
  <2>1. /\ UNCHANGED <<jobs, settled, mutated, list, snapshot, viewer>>
        /\ operation' \in {0, operation} /\ now' \in {now, now + 1}
    BY <1>7 DEF OperationFails, TimePasses
  <2>2. ViewsTypeOK'
    BY <1>a, <2>1 DEF ViewsTypeOK
  <2> QED BY <1>a, <2>1, <2>2 DEF VInv, ViewsTypeOK, Holds, AnsweredIsListed
<1>8. CASE UNCHANGED snapshotVars
  BY <1>8 DEF snapshotVars, VInv, ViewsTypeOK, Holds, AnsweredIsListed
<1> QED BY <1>1, <1>2, <1>3, <1>4, <1>5, <1>6, <1>7, <1>8 DEF SnapshotNext

\* A reader that begins after an operation has succeeded sees it: AnsweredIsListed, for
\* any number of readers, lists and operations, and however old a list may be.
THEOREM ReadersSeeWhatSucceeded == SnapshotSpec => []AnsweredIsListed
<1>1. VInv => AnsweredIsListed
  BY DEF VInv
<1> QED BY ViewsInitially, ViewsInductive, <1>1, PTL DEF SnapshotSpec
-----------------------------------------------------------------------------
\* The archive.
Entry == [file : ZipFile, size : 1..MaxSize]
Place == [entry : Entry, offset : Nat]
Says == Nat \cup ZipFile \cup Entry \cup Place \cup [start : Nat, size : Int, count : Nat]
Piece == [kind : {"local", "data", "descriptor", "central", "end"}, from : Nat, len : Nat, says : Says]
Archive == [at : {"none", "header", "data", "directory", "sent", "cut"}, entries : Seq(Entry), number : Nat,
            read : Nat, local : Nat, out : Seq(Piece), offset : Nat, listed : Seq(Place),
            start : Nat, central : Nat]

\* The pieces out lie behind each other and come to n.
Chain(out, n) ==
  /\ \A i \in 1..Len(out) : out[i].from = IF i = 1 THEN 0 ELSE out[i - 1].from + out[i - 1].len
  /\ n = IF out = <<>> THEN 0 ELSE out[Len(out)].from + out[Len(out)].len

\* At h is the header of an entry, with read bytes of it behind.
Headed(out, h, entry, offset, read) ==
  /\ h \in 1..Len(out) /\ out[h].kind = "local" /\ out[h].from = offset /\ out[h].says = entry
  /\ \A k \in 1..read : out[h + k].kind = "data" /\ out[h + k].says = entry.file

\* All of the entry is there.
Whole(out, said) ==
  \E h \in 1..Len(out) : /\ h + said.entry.size + 1 <= Len(out)
                         /\ Headed(out, h, said.entry, said.offset, said.entry.size)
                         /\ out[h + said.entry.size + 1].kind = "descriptor"

\* n pieces from d on are the directory's first n entries.
Directory(out, listed, d, n) ==
  \A i \in 1..n : out[d + i].kind = "central" /\ out[d + i].says = listed[i]

NoEnd(out) == \A i \in 1..Len(out) : out[i].kind # "end"

\* What is listed is whole, and nothing else is.
AllWhole(z) == \A i \in 1..Len(z.listed) : /\ i <= Len(z.entries) /\ z.listed[i].entry = z.entries[i]
                                             /\ Whole(z.out, z.listed[i])
Listed(z) == /\ AllWhole(z)
             /\ z.at \in {"header", "data"} => Len(z.listed) = z.number - 1
             /\ z.at \in {"directory", "sent"} => Len(z.listed) = Len(z.entries)

\* What is at work on stands at the end.
Underway(z) ==
  /\ z.at = "data" => /\ z.read <= Current(z).size /\ z.read < Len(z.out)
                      /\ Headed(z.out, Len(z.out) - z.read, Current(z), z.local, z.read)
  /\ z.at = "directory" =>
       /\ z.central <= Len(z.listed) /\ z.central <= Len(z.out)
       /\ Directory(z.out, z.listed, Len(z.out) - z.central, z.central)
       /\ z.start = IF z.central = 0 THEN z.offset ELSE z.out[Len(z.out) - z.central + 1].from

\* An archive with its end.
Complete(z) ==
  \E d \in 1..Len(z.out) :
    /\ Len(z.out) = d + Len(z.listed)
    /\ Directory(z.out, z.listed, d - 1, Len(z.listed))
    /\ LET e == z.out[Len(z.out)]
       IN  /\ e.kind = "end" /\ e.says.start = z.out[d].from
           /\ e.says.start + e.says.size = e.from /\ e.says.count = Len(z.listed)

ZOK(z) ==
  /\ z \in Archive
  /\ z.at = "none" => z.out = <<>> /\ z.listed = <<>>
  /\ z.at \notin {"none"} => z.number \in 1..Len(z.entries)
  /\ Chain(z.out, z.offset)
  /\ Listed(z)
  /\ Underway(z)
  /\ z.at # "sent" => NoEnd(z.out)
  /\ z.at \in {"header", "data"} => z.central = 0
  /\ z.at = "sent" => Complete(z)

ZipInv == disk \in [ZipFile -> Nat] /\ ZOK(zip)

\* A sequence with one more element.
LEMMA Longer ==
  ASSUME NEW T, NEW s \in Seq(T), NEW x \in T, NEW t, t = Append(s, x)
  PROVE  /\ t \in Seq(T) /\ t # <<>> /\ Len(s) \in Nat /\ Len(t) = Len(s) + 1
         /\ t[Len(t)] = x /\ \A i \in 1..Len(s) : t[i] = s[i]
         /\ s = <<>> <=> Len(s) = 0
<1>1. Len(s) \in Nat /\ (s = <<>> <=> Len(s) = 0)
  BY EmptySeq
<1>2. t \in Seq(T) /\ Len(t) = Len(s) + 1
  OBVIOUS
<1>3. t[Len(t)] = x
  OBVIOUS
<1>4. \A i \in 1..Len(s) : t[i] = s[i]
  OBVIOUS
<1>5. t # <<>>
  BY <1>1, <1>2, EmptySeq
<1> QED BY <1>1, <1>2, <1>3, <1>4, <1>5

\* x is z with a piece more.
Grows(z, x, piece) ==
  /\ x \in Archive
  /\ Chain(x.out, x.offset)
  /\ Len(x.out) = Len(z.out) + 1
  /\ x.out[Len(x.out)] = piece
  /\ \A i \in 1..Len(z.out) : x.out[i] = z.out[i]
  /\ x.offset = z.offset + piece.len
  /\ x.at = z.at /\ x.entries = z.entries /\ x.number = z.number /\ x.read = z.read
  /\ x.local = z.local /\ x.listed = z.listed /\ x.start = z.start /\ x.central = z.central

\* A piece more.
LEMMA Pushes ==
  ASSUME NEW z \in Archive, Chain(z.out, z.offset), NEW p \in Piece, p.from = z.offset,
         NEW y, y = Pushed(z, p.kind, p.len, p.says)
  PROVE  Grows(z, y, p)
<1>1. y = [z EXCEPT !.out = Append(z.out, p), !.offset = z.offset + p.len]
  <2>1. p = [kind |-> p.kind, from |-> z.offset, len |-> p.len, says |-> p.says]
    BY DEF Piece
  <2> QED BY <2>1 DEF Pushed, Archive
<1>2. p.len \in Nat
  BY DEF Piece
<1>3. /\ z.out \in Seq(Piece) /\ z.offset \in Nat
      /\ y.out = Append(z.out, p) /\ y.offset = z.offset + p.len
      /\ y.at = z.at /\ y.entries = z.entries /\ y.number = z.number /\ y.read = z.read
      /\ y.local = z.local /\ y.listed = z.listed /\ y.start = z.start /\ y.central = z.central
  BY <1>1 DEF Archive
<1>4. y.out \in Seq(Piece) /\ y.offset \in Nat
  BY <1>2, <1>3, Longer
<1>5. y \in Archive
  BY <1>1, <1>4, <1>3 DEF Archive
<1>6. /\ Len(y.out) = Len(z.out) + 1 /\ y.out[Len(y.out)] = p
      /\ \A i \in 1..Len(z.out) : y.out[i] = z.out[i]
      /\ Len(z.out) \in Nat /\ (z.out = <<>> <=> Len(z.out) = 0) /\ y.out # <<>>
  BY <1>2, <1>3, Longer
<1>7. Chain(y.out, y.offset)
  <2>1. ASSUME NEW i \in 1..Len(y.out)
        PROVE  y.out[i].from = IF i = 1 THEN 0 ELSE y.out[i - 1].from + y.out[i - 1].len
    <3>1. CASE i \in 1..Len(z.out)
      <4>1. i = 1 \/ i - 1 \in 1..Len(z.out)
        BY <3>1, <1>6
      <4> QED BY <3>1, <4>1, <1>6 DEF Chain
    <3>2. CASE i = Len(z.out) + 1
      <4>1. y.out[i].from = z.offset
        BY <3>2, <1>6, <1>2
      <4>2. CASE z.out = <<>>
        BY <4>1, <4>2, <3>2, <1>6 DEF Chain
      <4>3. CASE z.out # <<>>
        <5>1. i # 1 /\ i - 1 = Len(z.out) /\ Len(z.out) \in 1..Len(z.out)
          BY <4>3, <3>2, <1>6
        <5> QED BY <5>1, <4>1, <4>3, <1>6 DEF Chain
      <4> QED BY <4>2, <4>3
    <3> QED BY <2>1, <3>1, <3>2, <1>6
  <2>2. y.offset = y.out[Len(y.out)].from + y.out[Len(y.out)].len
    BY <1>6, <1>2, <1>3
  <2> QED BY <2>1, <2>2, <1>6 DEF Chain
<1> QED BY <1>2, <1>3, <1>5, <1>6, <1>7 DEF Grows

\* What is whole stays so behind more pieces.
LEMMA StaysWhole ==
  ASSUME NEW z \in Archive, NEW y \in Archive, NEW said \in Place,
         Len(z.out) <= Len(y.out), \A i \in 1..Len(z.out) : y.out[i] = z.out[i],
         Whole(z.out, said)
  PROVE  Whole(y.out, said)
<1>1. PICK h \in 1..Len(z.out) : /\ h + said.entry.size + 1 <= Len(z.out)
                                 /\ Headed(z.out, h, said.entry, said.offset, said.entry.size)
                                 /\ z.out[h + said.entry.size + 1].kind = "descriptor"
  BY DEF Whole
<1>2. said.entry.size \in Nat /\ Len(z.out) \in Nat /\ Len(y.out) \in Nat
  <2>1. said.entry.size \in Nat
    BY ZipAssumption DEF Place, Entry
  <2>2. z.out \in Seq(Piece) /\ y.out \in Seq(Piece)
    BY DEF Archive
  <2> QED BY <2>1, <2>2
<1>3. h \in 1..Len(y.out) /\ h + said.entry.size + 1 <= Len(y.out) /\ h + said.entry.size + 1 \in 1..Len(z.out)
  BY <1>1, <1>2
<1>4. \A k \in 1..said.entry.size : h + k \in 1..Len(z.out)
  BY <1>1, <1>2
<1>5. Headed(y.out, h, said.entry, said.offset, said.entry.size)
  BY <1>1, <1>3, <1>4 DEF Headed
<1> QED BY <1>1, <1>3, <1>5 DEF Whole

\* What is listed stays so when pieces are added.
LEMMA StaysListed ==
  ASSUME NEW z \in Archive, NEW y \in Archive, Listed(z),
         Len(z.out) <= Len(y.out), \A i \in 1..Len(z.out) : y.out[i] = z.out[i],
         y.listed = z.listed, y.entries = z.entries
  PROVE  AllWhole(y)
<1> SUFFICES ASSUME NEW i \in 1..Len(z.listed)
             PROVE  /\ i <= Len(z.entries) /\ z.listed[i].entry = z.entries[i]
                    /\ Whole(y.out, z.listed[i])
  BY DEF AllWhole
<1>1. z.listed[i] \in Place
  BY SMTT(30) DEF Archive
<1>2. Whole(z.out, z.listed[i]) /\ i <= Len(z.entries) /\ z.listed[i].entry = z.entries[i]
  BY DEF Listed, AllWhole
<1>3. Whole(y.out, z.listed[i])
  BY <1>1, <1>2, StaysWhole
<1> QED BY <1>2, <1>3
-----------------------------------------------------------------------------
\* At first nothing is asked for.
LEMMA ZipBegins == ZipInit => ZipInv
<1> SUFFICES ASSUME ZipInit PROVE ZipInv
  OBVIOUS
<1>1. zip \in Archive /\ zip.at = "none" /\ zip.out = <<>> /\ zip.listed = <<>> /\ zip.offset = 0
  BY DEF ZipInit, NoZip, Archive
<1>2. disk \in [ZipFile -> Nat]
  BY ZipAssumption DEF ZipInit
<1> QED BY <1>1, <1>2 DEF ZipInv, ZOK, Chain, Listed, AllWhole, Underway, NoEnd

\* An archive that begins is one.
LEMMA NewArchive ==
  ASSUME NEW es \in Seq(Entry)
  PROVE  [at |-> "header", entries |-> es, number |-> 1, read |-> 0, local |-> 0,
          out |-> <<>>, offset |-> 0, listed |-> <<>>, start |-> 0, central |-> 0] \in Archive
<1>1. <<>> \in Seq(Piece) /\ <<>> \in Seq(Place)
  OBVIOUS
<1>2. PICK p : p = Seq(Piece)
  OBVIOUS
<1>3. PICK l : l = Seq(Place)
  OBVIOUS
<1>4. PICK e : e = Seq(Entry)
  OBVIOUS
<1>5. Archive = [at : {"none", "header", "data", "directory", "sent", "cut"}, entries : e, number : Nat,
                 read : Nat, local : Nat, out : p, offset : Nat, listed : l, start : Nat, central : Nat]
  BY <1>2, <1>3, <1>4 DEF Archive
<1>6. PICK n : n = <<>>
  OBVIOUS
<1>7. n \in p /\ n \in l /\ es \in e
  BY <1>1, <1>2, <1>3, <1>4, <1>6
<1> QED BY <1>5, <1>6, <1>7

\* The answer begins.
LEMMA Started ==
  ASSUME ZipInv, NEW n \in 1..Cardinality(ZipFile), NEW files \in [1..n -> ZipFile], StartsZip(files, disk)
  PROVE  ZOK(zip')
<1>1. n \in Nat \ {0}
  <2>1. Cardinality(ZipFile) \in Nat
    BY ZipAssumption, FS_CardinalityType
  <2> QED BY <2>1
<1> DEFINE es == [i \in 1..n |-> [file |-> files[i], size |-> disk[files[i]]]]
<1>2. es \in Seq(Entry) /\ Len(es) = n
  <2>1. \A i \in 1..n : disk[files[i]] \in 1..MaxSize
    BY DEF StartsZip
  <2>2. \A i \in 1..n : [file |-> files[i], size |-> disk[files[i]]] \in Entry
    BY <2>1 DEF Entry
  <2>3. es \in [1..n -> Entry]
    BY <2>2
  <2> QED BY <2>3, <1>1
<1>3. zip' = [NoZip EXCEPT !.at = "header", !.entries = es]
  BY DEF StartsZip
<1> HIDE DEF es
<1>4. zip' = [at |-> "header", entries |-> es, number |-> 1, read |-> 0, local |-> 0,
                 out |-> <<>>, offset |-> 0, listed |-> <<>>, start |-> 0, central |-> 0]
  BY <1>3 DEF NoZip
<1>6. zip' \in Archive
  BY <1>2, <1>4, NewArchive
<1>5. /\ zip'.at = "header" /\ zip'.out = <<>> /\ zip'.listed = <<>> /\ zip'.offset = 0
      /\ zip'.number = 1 /\ zip'.entries = es /\ zip'.central = 0 /\ Len(zip'.listed) = 0 /\ Len(zip'.out) = 0
  BY <1>4
<1> QED BY <1>1, <1>2, <1>5, <1>6 DEF ZOK, Chain, Listed, AllWhole, Underway, NoEnd
-----------------------------------------------------------------------------
\* The entry under way.
LEMMA CurrentIs ==
  ASSUME NEW z, ZOK(z), z.at # "none"
  PROVE  /\ Current(z) \in Entry /\ Current(z) \in Says /\ Current(z).size \in Nat
         /\ Current(z).file \in Says /\ z.number \in 1..Len(z.entries) /\ Len(z.entries) \in Nat
<1>1. z.entries \in Seq(Entry) /\ z.number \in 1..Len(z.entries)
  BY DEF ZOK, Archive
<1>2. Current(z) \in Entry /\ Len(z.entries) \in Nat
  BY <1>1 DEF Current
<1>3. Current(z).size \in Nat /\ Current(z).file \in ZipFile
  BY <1>2, ZipAssumption DEF Entry
<1> QED BY <1>1, <1>2, <1>3 DEF Says

\* The end is still to come after a piece that is not it.
LEMMA NoEndYet ==
  ASSUME NEW z \in Archive, NEW y, NoEnd(z.out), Len(y.out) = Len(z.out) + 1,
         \A i \in 1..Len(z.out) : y.out[i] = z.out[i], y.out[Len(y.out)].kind # "end"
  PROVE  NoEnd(y.out)
<1>1. Len(z.out) \in Nat
  BY DEF Archive
<1>2. \A i \in 1..Len(y.out) : i \in 1..Len(z.out) \/ i = Len(y.out)
  BY <1>1
<1> QED BY <1>2 DEF NoEnd

\* Its header stands at the end of what is out.
LEMMA HeaderWritten ==
  ASSUME NEW z, ZOK(z), z.at = "header",
         NEW x, x = Pushed(z, "local", LocalLength, Current(z)),
         NEW y, y = [x EXCEPT !.local = z.offset, !.read = 0, !.at = "data"]
  PROVE  ZOK(y)
<1>1. z \in Archive /\ Chain(z.out, z.offset) /\ Listed(z) /\ NoEnd(z.out) /\ z.offset \in Nat
      /\ z.out \in Seq(Piece)
  BY DEF ZOK, Archive
<1>2. Current(z) \in Says /\ z.number \in 1..Len(z.entries) /\ LocalLength \in Nat
  BY CurrentIs, ZipAssumption
<1>a. PICK p : p = [kind |-> "local", from |-> z.offset, len |-> LocalLength, says |-> Current(z)]
  OBVIOUS
<1>3. Grows(z, x, p)
  <2>1. p \in Piece
    BY <1>1, <1>2, <1>a DEF Piece
  <2> QED BY <1>1, <1>a, <2>1, Pushes
<1>4. /\ y \in Archive /\ y.out = x.out /\ y.offset = x.offset /\ y.entries = x.entries
      /\ y.number = x.number /\ y.listed = x.listed /\ y.central = x.central
      /\ y.at = "data" /\ y.read = 0 /\ y.local = z.offset
  <2>1. x \in Archive
    BY <1>3 DEF Grows
  <2> QED BY <1>1, <2>1 DEF Archive
<1>5. Listed(y)
  <2>0. Len(z.out) <= Len(y.out) /\ \A i \in 1..Len(z.out) : y.out[i] = z.out[i]
    BY <1>1, <1>3, <1>4 DEF Grows
  <2>1. y.listed = z.listed /\ y.entries = z.entries /\ y.number = z.number
    BY <1>3, <1>4 DEF Grows
  <2>3. z \in Archive /\ y \in Archive /\ Listed(z)
    BY <1>1, <1>4
  <2>2. AllWhole(y)
    BY <2>0, <2>1, <2>3, StaysListed
  <2>4. y.at = "data"
    BY <1>3, <1>4 DEF Grows
  <2> QED BY <1>1, <2>1, <2>2, <2>4 DEF Listed
<1>6. Underway(y)
  <2>1. Current(y) = Current(z) /\ Current(z).size \in Nat
    BY <1>3, <1>4, CurrentIs DEF Current, Grows
  <2>2. Len(y.out) \in 1..Len(y.out) /\ Len(y.out) - y.read = Len(y.out)
    BY <1>1, <1>3, <1>4 DEF Grows
  <2>3. Headed(y.out, Len(y.out), Current(y), y.local, 0)
    BY <1>a, <1>3, <1>4, <2>1, <2>2 DEF Headed, Grows
  <2> QED BY <1>4, <2>1, <2>2, <2>3 DEF Underway
<1>7. NoEnd(y.out)
  <2>1. Len(y.out) = Len(z.out) + 1 /\ \A i \in 1..Len(z.out) : y.out[i] = z.out[i]
    BY <1>3, <1>4 DEF Grows
  <2>2. y.out[Len(y.out)].kind # "end"
    BY <1>a, <1>3, <1>4 DEF Grows
  <2> QED BY <1>1, <2>1, <2>2, NoEndYet
<1>8. Chain(y.out, y.offset) /\ y.number \in 1..Len(y.entries) /\ y.at = "data" /\ y.central = 0
  <2>1. z.central = 0
    BY DEF ZOK
  <2> QED BY <1>2, <1>3, <1>4, <2>1 DEF Grows
<1> QED BY <1>4, <1>5, <1>6, <1>7, <1>8 DEF ZOK

\* Where the directory stands among n pieces of which c are its own.
LEMMA Behind ==
  ASSUME NEW n \in Nat, NEW c \in Nat, c <= n
  PROVE  /\ n - c \in Nat /\ n - c = (n + 1) - (c + 1) /\ c + 1 <= n + 1 /\ (n - c) + (c + 1) = n + 1
         /\ \A i \in 1..(c + 1) : i # c + 1 => i \in 1..c
         /\ \A i \in 1..c : (n - c) + i \in 1..n /\ ((n - c + 1) - 1) + i \in 1..n
         /\ c # 0 => n - c + 1 \in 1..n /\ n - c + 1 \in 1..(n + 1) /\ n + 1 = (n - c + 1) + c
OBVIOUS

\* A byte more of it stands behind the header.
LEMMA DataWritten ==
  ASSUME NEW z, ZOK(z), z.at = "data", z.read < Current(z).size,
         NEW x, x = Pushed(z, "data", 1, Current(z).file),
         NEW y, y = [x EXCEPT !.read = @ + 1]
  PROVE  ZOK(y)
<1>1. z \in Archive /\ Chain(z.out, z.offset) /\ Listed(z) /\ NoEnd(z.out) /\ z.read \in Nat /\ z.offset \in Nat
      /\ z.out \in Seq(Piece) /\ Underway(z)
  BY DEF ZOK, Archive
<1>2. Current(z).file \in Says /\ z.number \in 1..Len(z.entries)
  BY CurrentIs
<1>a. PICK p : p = [kind |-> "data", from |-> z.offset, len |-> 1, says |-> Current(z).file]
  OBVIOUS
<1>3. Grows(z, x, p)
  <2>1. p \in Piece
    BY <1>1, <1>2, <1>a DEF Piece
  <2> QED BY <1>1, <1>a, <2>1, Pushes
<1>4. /\ y \in Archive /\ y.out = x.out /\ y.offset = x.offset /\ y.entries = x.entries
      /\ y.number = x.number /\ y.listed = x.listed /\ y.central = x.central
      /\ y.at = x.at /\ y.read = x.read + 1 /\ y.local = x.local
  <2>1. x \in Archive
    BY <1>3 DEF Grows
  <2>2. x.read \in Nat /\ x.read + 1 \in Nat
    BY <2>1 DEF Archive
  <2> QED BY <2>1, <2>2 DEF Archive
<1>5. Listed(y)
  <2>0. Len(z.out) <= Len(y.out) /\ \A i \in 1..Len(z.out) : y.out[i] = z.out[i]
    BY <1>1, <1>3, <1>4 DEF Grows
  <2>1. y.listed = z.listed /\ y.entries = z.entries /\ y.number = z.number
    BY <1>3, <1>4 DEF Grows
  <2>3. z \in Archive /\ y \in Archive /\ Listed(z)
    BY <1>1, <1>4
  <2>2. AllWhole(y)
    BY <2>0, <2>1, <2>3, StaysListed
  <2>4. y.at = "data"
    BY <1>3, <1>4 DEF Grows
  <2> QED BY <1>1, <2>1, <2>2, <2>4 DEF Listed
<1>6. Underway(y)
  <2>1. Current(y) = Current(z) /\ Current(z).size \in Nat
    BY <1>3, <1>4, CurrentIs DEF Current, Grows
  <2>2. Len(y.out) - y.read = Len(z.out) - z.read /\ Len(z.out) \in Nat
    <3>1. Len(y.out) = Len(z.out) + 1 /\ y.read = z.read + 1
      BY <1>3, <1>4 DEF Grows
    <3> QED BY <1>1, <3>1, SMTT(30)
  <2>3. PICK h : h = Len(z.out) - z.read
    OBVIOUS
  <2>4. z.read < Len(z.out) /\ Headed(z.out, h, Current(z), z.local, z.read)
    BY <1>1, <2>3 DEF Underway
  <2>5. h \in 1..Len(z.out) /\ h \in 1..Len(y.out) /\ h + y.read = Len(y.out)
    BY <1>1, <1>3, <1>4, <2>2, <2>3, <2>4 DEF Grows
  <2>6. ASSUME NEW k \in 1..y.read
        PROVE  y.out[h + k].kind = "data" /\ y.out[h + k].says = Current(z).file
    <3>1. CASE k = y.read
      BY <3>1, <2>5, <1>a, <1>3, <1>4 DEF Grows
    <3>2. CASE k # y.read
      <4>1. k \in 1..z.read /\ h + k \in 1..Len(z.out)
        <5>1. y.read = z.read + 1
          BY <1>3, <1>4 DEF Grows
        <5>2. z.read \in Nat /\ Len(z.out) \in Nat /\ z.read <= Len(z.out)
          BY <1>1, <2>2, <2>4
        <5> QED BY <3>2, <2>3, <5>1, <5>2, Behind
      <4>2. z.out[h + k].kind = "data" /\ z.out[h + k].says = Current(z).file
        BY <4>1, <2>4 DEF Headed
      <4>3. y.out[h + k] = z.out[h + k]
        BY <4>1, <1>3, <1>4 DEF Grows
      <4> QED BY <4>2, <4>3
    <3> QED BY <3>1, <3>2
  <2>7. Headed(y.out, h, Current(y), y.local, y.read)
    BY <2>1, <2>4, <2>5, <2>6, <1>3, <1>4, SMTT(30) DEF Headed, Grows
  <2> QED BY <1>1, <1>3, <1>4, <2>1, <2>2, <2>3, <2>4, <2>7 DEF Underway, Grows
<1>7. NoEnd(y.out)
  <2>1. Len(y.out) = Len(z.out) + 1 /\ \A i \in 1..Len(z.out) : y.out[i] = z.out[i]
    BY <1>3, <1>4 DEF Grows
  <2>2. y.out[Len(y.out)].kind # "end"
    BY <1>a, <1>3, <1>4 DEF Grows
  <2> QED BY <1>1, <2>1, <2>2, NoEndYet
<1>8. Chain(y.out, y.offset) /\ y.number \in 1..Len(y.entries) /\ y.at = "data" /\ y.central = 0
  <2>1. z.central = 0
    BY DEF ZOK
  <2> QED BY <1>2, <1>3, <1>4, <2>1 DEF Grows
<1> QED BY <1>4, <1>5, <1>6, <1>7, <1>8 DEF ZOK

\* An entry is done, and v is what z has become.
DescribedOK(z, v) ==
  /\ v \in Archive /\ v.entries = z.entries /\ v.number = z.number /\ v.central = 0
  /\ Chain(v.out, v.offset) /\ AllWhole(v) /\ Len(v.listed) = z.number /\ NoEnd(v.out)

\* With the descriptor the entry is whole, and listed.
LEMMA DescriptorWritten ==
  ASSUME NEW z, ZOK(z), z.at = "data", z.read = Current(z).size,
         NEW v, v = Described(z)
  PROVE  DescribedOK(z, v)
<1>x. PICK x : x = Pushed(z, "descriptor", DescriptorLength, z.read)
  OBVIOUS
<1>b. PICK l : l = [entry |-> Current(z), offset |-> z.local]
  OBVIOUS
<1>c. v = [x EXCEPT !.listed = Append(x.listed, l)]
  BY <1>x, <1>b DEF Described
<1>1. z \in Archive /\ Chain(z.out, z.offset) /\ Listed(z) /\ NoEnd(z.out) /\ z.read \in Nat /\ z.offset \in Nat
      /\ z.out \in Seq(Piece) /\ Underway(z) /\ z.local \in Nat /\ z.listed \in Seq(Place)
  BY DEF ZOK, Archive
<1>2. Current(z) \in Entry /\ Current(z).size \in Nat /\ z.number \in 1..Len(z.entries) /\ Len(z.entries) \in Nat
      /\ z.read \in Says /\ DescriptorLength \in Nat
  BY <1>1, CurrentIs, ZipAssumption DEF Says
<1>a. PICK p : p = [kind |-> "descriptor", from |-> z.offset, len |-> DescriptorLength, says |-> z.read]
  OBVIOUS
<1>3. Grows(z, x, p)
  <2>1. p \in Piece
    BY <1>1, <1>2, <1>a DEF Piece
  <2>2. x = Pushed(z, p.kind, p.len, p.says)
    BY <1>x, <1>a
  <2> QED BY <1>1, <1>a, <2>1, <2>2, Pushes
<1>4. /\ l \in Place /\ v = [x EXCEPT !.listed = Append(x.listed, l)]
      /\ x.listed = z.listed /\ x \in Archive
  <2>1. l \in Place
    BY <1>1, <1>2, <1>b DEF Place
  <2>2. x.listed = z.listed /\ x \in Archive
    BY <1>3 DEF Grows
  <2>3. v = [x EXCEPT !.listed = Append(x.listed, l)]
    BY <1>c
  <2> QED BY <2>1, <2>2, <2>3
<1>5. v.listed = Append(z.listed, l) /\ v.listed \in Seq(Place)
  <2>1. v.listed = Append(x.listed, l)
    BY <1>4 DEF Archive
  <2> QED BY <1>1, <1>4, <2>1, Longer
<1>6. /\ v \in Archive /\ v.out = x.out /\ v.offset = x.offset /\ v.entries = x.entries
      /\ v.number = x.number /\ v.at = x.at /\ v.central = x.central
  BY <1>4, <1>5 DEF Archive
<1>7. /\ v.out = x.out /\ v.offset = x.offset /\ v.entries = z.entries /\ v.number = z.number
  BY <1>3, <1>6 DEF Grows
<1>8. PICK h : h = Len(z.out) - z.read
  OBVIOUS
<1>9. Whole(v.out, l)
  <2>1. z.read < Len(z.out) /\ Headed(z.out, h, Current(z), z.local, z.read)
    BY <1>1, <1>8 DEF Underway
  <2>2. Len(x.out) = Len(z.out) + 1 /\ \A i \in 1..Len(z.out) : x.out[i] = z.out[i]
    BY <1>3 DEF Grows
  <2>3. h \in 1..Len(z.out) /\ h \in 1..Len(x.out) /\ h + z.read + 1 = Len(x.out)
    BY <1>1, <1>8, <2>1, <2>2
  <2>4. \A k \in 1..z.read : h + k \in 1..Len(z.out)
    BY <1>1, <1>8, <2>1
  <2>5. Headed(x.out, h, Current(z), z.local, z.read)
    BY <2>1, <2>2, <2>3, <2>4 DEF Headed
  <2>6. x.out[h + z.read + 1].kind = "descriptor"
    BY <1>a, <1>3, <2>3 DEF Grows
  <2>7. Len(x.out) \in Nat /\ h + z.read + 1 <= Len(x.out)
    BY <1>1, <2>2, <2>3
  <2>8. l.entry = Current(z) /\ l.offset = z.local /\ l.entry.size = z.read
    BY <1>b
  <2> QED BY <1>7, <2>3, <2>5, <2>6, <2>7, <2>8 DEF Whole
<1>10. AllWhole(v)
  <2>1. Len(v.listed) = Len(z.listed) + 1 /\ v.listed[Len(v.listed)] = l
        /\ \A i \in 1..Len(z.listed) : v.listed[i] = z.listed[i]
    BY <1>1, <1>4, <1>5, Longer
  <2>2. Len(z.listed) = z.number - 1 /\ Len(z.listed) \in Nat
    BY <1>1 DEF Listed
  <2>3. Len(z.out) <= Len(v.out) /\ \A i \in 1..Len(z.out) : v.out[i] = z.out[i]
    BY <1>1, <1>3, <1>7 DEF Grows
  <2>4. ASSUME NEW i \in 1..Len(z.listed)
        PROVE  i <= Len(z.entries) /\ z.listed[i].entry = z.entries[i] /\ Whole(v.out, z.listed[i])
    <3>1. z.listed[i] \in Place
      BY <1>1
    <3>2. i <= Len(z.entries) /\ z.listed[i].entry = z.entries[i] /\ Whole(z.out, z.listed[i])
      BY <1>1 DEF Listed, AllWhole
    <3>3. Whole(v.out, z.listed[i])
      BY <1>1, <1>6, <2>3, <3>1, <3>2, StaysWhole
    <3> QED BY <3>2, <3>3
  <2>5. Len(v.listed) <= Len(z.entries) /\ l.entry = z.entries[Len(v.listed)]
    <3>1. Len(v.listed) = z.number
      BY <1>2, <2>1, <2>2
    <3> QED BY <3>1, <1>2, <1>b DEF Current
  <2>6. \A i \in 1..Len(v.listed) : i \in 1..Len(z.listed) \/ i = Len(v.listed)
    BY <2>1, <2>2
  <2> QED BY <1>7, <1>9, <2>1, <2>4, <2>5, <2>6 DEF AllWhole
<1>11. Len(v.listed) = z.number
  <2>1. Len(v.listed) = Len(z.listed) + 1
    BY <1>1, <1>4, <1>5, Longer
  <2>2. Len(z.listed) = z.number - 1 /\ z.number \in Nat
    BY <1>1, <1>2 DEF Listed
  <2> QED BY <2>1, <2>2
<1>12. NoEnd(v.out)
  <2>1. Len(v.out) = Len(z.out) + 1 /\ \A i \in 1..Len(z.out) : v.out[i] = z.out[i]
    BY <1>3, <1>7 DEF Grows
  <2>2. v.out[Len(v.out)].kind # "end"
    BY <1>a, <1>3, <1>7 DEF Grows
  <2> QED BY <1>1, <2>1, <2>2, NoEndYet
<1>13. Chain(v.out, v.offset)
  BY <1>3, <1>7 DEF Grows
<1>14. v.central = 0
  <2>1. z.central = 0
    BY DEF ZOK
  <2> QED BY <2>1, <1>3, <1>6 DEF Grows
<1> QED BY <1>6, <1>7, <1>10, <1>11, <1>12, <1>13, <1>14 DEF DescribedOK

\* The next one follows.
LEMMA NextEntry ==
  ASSUME NEW z, ZOK(z), z.at = "data", z.number < Len(z.entries), NEW v, DescribedOK(z, v),
         NEW y, y = [v EXCEPT !.at = "header", !.number = z.number + 1]
  PROVE  ZOK(y)
<1>1. z.number \in 1..Len(z.entries) /\ Len(z.entries) \in Nat /\ z.number \in Nat /\ z.number + 1 \in Nat
  <2>1. z.number \in 1..Len(z.entries) /\ Len(z.entries) \in Nat
    BY CurrentIs
  <2> QED BY <2>1
<1>2. /\ y \in Archive /\ y.out = v.out /\ y.offset = v.offset /\ y.entries = z.entries
      /\ y.number = z.number + 1 /\ y.listed = v.listed /\ y.at = "header" /\ y.central = 0
  BY <1>1 DEF DescribedOK, Archive
<1>3. y.number \in 1..Len(y.entries) /\ Len(y.listed) = y.number - 1
  BY <1>1, <1>2 DEF DescribedOK
<1>4. Listed(y)
  BY <1>2, <1>3 DEF DescribedOK, Listed, AllWhole
<1> QED BY <1>2, <1>3, <1>4 DEF DescribedOK, ZOK, Underway

\* Since the last the directory begins where the pieces end.
LEMMA FinishBegins ==
  ASSUME NEW z, ZOK(z), z.at = "data", z.number = Len(z.entries), NEW v, DescribedOK(z, v),
         NEW y, y = [v EXCEPT !.at = "directory", !.start = v.offset]
  PROVE  ZOK(y)
<1>1. z.number \in 1..Len(z.entries) /\ Len(z.entries) \in Nat
  BY CurrentIs
<1>2. /\ y \in Archive /\ y.out = v.out /\ y.offset = v.offset /\ y.entries = z.entries
      /\ y.number = z.number /\ y.listed = v.listed /\ y.at = "directory" /\ y.start = y.offset /\ y.central = 0
  <2>1. v.offset \in Nat
    BY DEF DescribedOK, Archive
  <2> QED BY <2>1 DEF DescribedOK, Archive
<1>3. y.number \in 1..Len(y.entries) /\ Len(y.listed) = Len(y.entries)
  BY <1>1, <1>2 DEF DescribedOK
<1>4. Listed(y)
  BY <1>2, <1>3 DEF DescribedOK, Listed, AllWhole
<1>5. Len(y.listed) \in Nat /\ Len(y.out) \in Nat
  BY <1>2 DEF Archive
<1>6. Underway(y)
  BY <1>2, <1>5 DEF Underway, Directory
<1> QED BY <1>2, <1>3, <1>4, <1>6 DEF DescribedOK, ZOK

\* An entry of the directory stands behind those before it.
LEMMA EntryWritten ==
  ASSUME NEW z, ZOK(z), z.at = "directory", z.central < Len(z.listed),
         NEW x, x = Pushed(z, "central", CentralLength, z.listed[z.central + 1]),
         NEW y, y = [x EXCEPT !.central = @ + 1]
  PROVE  ZOK(y)
<1>1. z \in Archive /\ Chain(z.out, z.offset) /\ Listed(z) /\ NoEnd(z.out) /\ z.central \in Nat /\ z.offset \in Nat
      /\ z.out \in Seq(Piece) /\ Underway(z) /\ z.listed \in Seq(Place) /\ Len(z.listed) \in Nat
  BY DEF ZOK, Archive
<1>2. z.listed[z.central + 1] \in Says /\ z.number \in 1..Len(z.entries) /\ CentralLength \in Nat
  <2>1. z.listed[z.central + 1] \in Place
    BY <1>1
  <2> QED BY <2>1, CurrentIs, ZipAssumption DEF Says
<1>a. PICK p : p = [kind |-> "central", from |-> z.offset, len |-> CentralLength, says |-> z.listed[z.central + 1]]
  OBVIOUS
<1>3. Grows(z, x, p)
  <2>1. p \in Piece
    BY <1>1, <1>2, <1>a DEF Piece
  <2> QED BY <1>1, <1>a, <2>1, Pushes
<1>4. /\ y \in Archive /\ y.out = x.out /\ y.offset = x.offset /\ y.entries = x.entries
      /\ y.number = x.number /\ y.listed = x.listed /\ y.at = x.at /\ y.start = x.start
      /\ y.central = x.central + 1
  <2>1. x \in Archive
    BY <1>3 DEF Grows
  <2>2. x.central \in Nat /\ x.central + 1 \in Nat
    BY <2>1 DEF Archive
  <2> QED BY <2>1, <2>2 DEF Archive
<1>b. y.listed = z.listed /\ y.entries = z.entries /\ y.number = z.number /\ y.central = z.central + 1
      /\ y.at = "directory" /\ y.start = z.start
  BY <1>3, <1>4 DEF Grows
<1>c. Len(y.out) = Len(z.out) + 1 /\ \A i \in 1..Len(z.out) : y.out[i] = z.out[i]
  BY <1>3, <1>4 DEF Grows
<1>d. y.out[Len(y.out)] = p /\ Len(z.out) \in Nat
  <2>1. x.out[Len(x.out)] = p
    BY <1>3 DEF Grows
  <2>2. y.out = x.out
    BY <1>4
  <2>3. Len(z.out) \in Nat
    BY <1>1
  <2> QED BY <2>1, <2>2, <2>3, Zenon
<1>5. Listed(y)
  <2>1. Len(z.out) <= Len(y.out)
    BY <1>c, <1>d
  <2>2. AllWhole(y)
    BY <1>1, <1>4, <1>b, <1>c, <2>1, StaysListed
  <2> QED BY <1>1, <1>b, <2>2 DEF Listed
<1>6. Underway(y)
  <2>1. PICK d : d = Len(z.out) - z.central
    OBVIOUS
  <2>2. /\ z.central <= Len(z.out) /\ Directory(z.out, z.listed, d, z.central)
        /\ z.start = IF z.central = 0 THEN z.offset ELSE z.out[d + 1].from
    BY <1>1, <2>1 DEF Underway
  <2>3. d \in Nat /\ d = Len(y.out) - y.central /\ y.central <= Len(y.out) /\ d + y.central = Len(y.out)
    <3>1. z.central \in Nat /\ Len(z.out) \in Nat /\ z.central <= Len(z.out)
      BY <1>1, <1>d, <2>2
    <3>2. y.central = z.central + 1 /\ Len(y.out) = Len(z.out) + 1
      BY <1>b, <1>c
    <3>3. PICK n \in Nat : n = Len(z.out)
      BY <3>1
    <3>4. PICK c \in Nat : c = z.central
      BY <3>1
    <3>5. d = n - c /\ y.central = c + 1 /\ Len(y.out) = n + 1
      <4>1. d = n - c
        BY <2>1, <3>3, <3>4, Zenon
      <4>2. y.central = c + 1 /\ Len(y.out) = n + 1
        BY <3>2, <3>3, <3>4, Zenon
      <4> QED BY <4>1, <4>2, Zenon
    <3>6. n \in Nat /\ c \in Nat /\ c <= n
      BY <3>1, <3>3, <3>4, Zenon
    <3>7. n - c \in Nat /\ n - c = (n + 1) - (c + 1) /\ c + 1 <= n + 1 /\ (n - c) + (c + 1) = n + 1
      BY <3>6
    <3> QED BY <3>5, <3>7, Zenon
  <2>4. ASSUME NEW i \in 1..y.central
        PROVE  y.out[d + i].kind = "central" /\ y.out[d + i].says = z.listed[i]
    <3>1. CASE i = z.central + 1
      <4>1. d + i = Len(y.out)
        BY <3>1, <2>3, <1>b
      <4>2. p.kind = "central" /\ p.says = z.listed[i]
        BY <3>1, <1>a
      <4> QED BY <4>1, <4>2, <1>d
    <3>2. CASE i # z.central + 1
      <4>1. i \in 1..z.central /\ d + i \in 1..Len(z.out)
        <5>1. z.central \in Nat /\ Len(z.out) \in Nat /\ y.central = z.central + 1
          BY <1>1, <1>b, <1>d
        <5>2. z.central <= Len(z.out)
          BY <2>2
        <5> QED BY <3>2, <2>1, <5>1, <5>2, Behind
      <4>2. z.out[d + i].kind = "central" /\ z.out[d + i].says = z.listed[i]
        BY <4>1, <2>2 DEF Directory
      <4> QED BY <4>1, <4>2, <1>c
    <3> QED BY <3>1, <3>2
  <2>5. Directory(y.out, y.listed, d, y.central)
    BY <2>4, <1>b DEF Directory
  <2>6. y.start = y.out[d + 1].from
    <3>1. CASE z.central = 0
      <4>1. d + 1 = Len(y.out)
        BY <3>1, <2>3, <1>b
      <4> QED BY <3>1, <4>1, <2>2, <1>a, <1>b, <1>d
    <3>2. CASE z.central # 0
      <4>1. d + 1 \in 1..Len(z.out)
        BY <3>2, <1>1, <1>d, <2>1, <2>2
      <4> QED BY <3>2, <4>1, <2>2, <1>b, <1>c
    <3> QED BY <3>1, <3>2
  <2>7. y.central # 0 /\ y.central <= Len(y.listed)
    BY <1>1, <1>b
  <2>8. Directory(y.out, y.listed, Len(y.out) - y.central, y.central)
        /\ y.start = y.out[Len(y.out) - y.central + 1].from
    BY <2>3, <2>5, <2>6
  <2> QED BY <2>3, <2>7, <2>8, <1>b DEF Underway
<1>7. NoEnd(y.out)
  <2>1. y.out[Len(y.out)].kind # "end"
    BY <1>a, <1>d
  <2> QED BY <1>1, <1>c, <2>1, NoEndYet
<1>8. Chain(y.out, y.offset) /\ y.number \in 1..Len(y.entries)
  BY <1>2, <1>3, <1>4, <1>b DEF Grows
<1> QED BY <1>4, <1>5, <1>6, <1>7, <1>8, <1>b DEF ZOK

\* With the end the archive is complete.
LEMMA EndWritten ==
  ASSUME NEW z, ZOK(z), z.at = "directory", z.central = Len(z.listed),
         NEW x, x = Pushed(z, "end", 1, [start |-> z.start, size |-> z.offset - z.start, count |-> Len(z.listed)]),
         NEW y, y = [x EXCEPT !.at = "sent"]
  PROVE  ZOK(y)
<1>1. z \in Archive /\ Chain(z.out, z.offset) /\ Listed(z) /\ z.offset \in Nat /\ z.start \in Nat
      /\ z.out \in Seq(Piece) /\ Underway(z) /\ z.listed \in Seq(Place) /\ Len(z.listed) \in Nat
      /\ z.number \in 1..Len(z.entries)
  BY DEF ZOK, Archive
<1>0. PICK e : e = [start |-> z.start, size |-> z.offset - z.start, count |-> Len(z.listed)]
  OBVIOUS
<1>2. e \in Says
  <2>1. e \in [start : Nat, size : Int, count : Nat]
    BY <1>0, <1>1
  <2> QED BY <2>1 DEF Says
<1>a. PICK p : p = [kind |-> "end", from |-> z.offset, len |-> 1, says |-> e]
  OBVIOUS
<1>3. Grows(z, x, p)
  <2>1. p \in Piece
    BY <1>1, <1>2, <1>a DEF Piece
  <2>2. x = Pushed(z, p.kind, p.len, p.says)
    BY <1>0, <1>a
  <2> QED BY <1>1, <1>a, <2>1, <2>2, Pushes
<1>4. /\ y \in Archive /\ y.out = x.out /\ y.offset = x.offset /\ y.entries = x.entries
      /\ y.number = x.number /\ y.listed = x.listed /\ y.at = "sent"
  <2>1. x \in Archive
    BY <1>3 DEF Grows
  <2> QED BY <2>1 DEF Archive
<1>b. y.listed = z.listed /\ y.entries = z.entries /\ y.number = z.number
  BY <1>3, <1>4 DEF Grows
<1>c. Len(y.out) = Len(z.out) + 1 /\ \A i \in 1..Len(z.out) : y.out[i] = z.out[i]
  BY <1>3, <1>4 DEF Grows
<1>d. y.out[Len(y.out)] = p /\ Len(z.out) \in Nat
  <2>1. x.out[Len(x.out)] = p
    BY <1>3 DEF Grows
  <2>2. y.out = x.out
    BY <1>4
  <2>3. Len(z.out) \in Nat
    BY <1>1
  <2> QED BY <2>1, <2>2, <2>3, Zenon
<1>5. Listed(y)
  <2>1. Len(z.out) <= Len(y.out)
    BY <1>c, <1>d
  <2>2. AllWhole(y)
    BY <1>1, <1>4, <1>b, <1>c, <2>1, StaysListed
  <2> QED BY <1>1, <1>4, <1>b, <2>2 DEF Listed
<1>6. Complete(y)
  <2>1. PICK d : d = Len(z.out) - z.central + 1
    OBVIOUS
  <2>2. /\ z.central <= Len(z.out) /\ Directory(z.out, z.listed, d - 1, z.central)
        /\ z.start = IF z.central = 0 THEN z.offset ELSE z.out[d].from
    <3>1. d - 1 = Len(z.out) - z.central
      BY <2>1, <1>1, <1>d
    <3> QED BY <1>1, <2>1, <3>1 DEF Underway
  <2>3. z.central = Len(z.entries) /\ Len(z.entries) # 0
    <3>1. Len(z.listed) = Len(z.entries)
      BY <1>1 DEF Listed
    <3>2. Len(z.entries) # 0
      <4>1. z.number \in 1..Len(z.entries) /\ Len(z.entries) \in Nat
        BY <1>1, <3>1
      <4> QED BY <4>1
    <3> QED BY <3>1, <3>2
  <2>a. /\ z.central = Len(z.listed) /\ Len(z.listed) \in Nat /\ Len(z.out) \in Nat /\ z.central # 0
        /\ z.central <= Len(z.out) /\ y.listed = z.listed /\ Len(y.out) = Len(z.out) + 1
    BY <1>1, <1>b, <1>c, <1>d, <2>2, <2>3
  <2>4. d \in 1..Len(z.out) /\ d \in 1..Len(y.out) /\ Len(y.out) = d + Len(y.listed)
    <3>1. PICK n \in Nat, c \in Nat : n = Len(z.out) /\ c = Len(z.listed)
      BY <2>a
    <3>2. d = n - c + 1 /\ c <= n /\ c # 0
      BY <2>1, <2>a, <3>1
    <3>3. d \in 1..n /\ d \in 1..(n + 1) /\ n + 1 = d + c
      BY <3>2, Behind
    <3> QED BY <2>a, <3>1, <3>3
  <2>5. \A i \in 1..Len(y.listed) : (d - 1) + i \in 1..Len(z.out)
    <3>1. PICK n \in Nat, c \in Nat : n = Len(z.out) /\ c = Len(z.listed)
      BY <2>a
    <3>2. d = n - c + 1 /\ c <= n
      BY <2>1, <2>a, <3>1
    <3>3. \A i \in 1..c : (d - 1) + i \in 1..n
      BY <3>2, Behind
    <3> QED BY <2>a, <3>1, <3>3
  <2>6. Directory(y.out, y.listed, d - 1, Len(y.listed))
    BY <2>2, <2>5, <1>b, <1>c DEF Directory
  <2>7. z.start = y.out[d].from
    BY <2>2, <2>3, <2>4, <1>c
  <2>8. p.kind = "end" /\ p.says = e /\ p.from = z.offset
    BY <1>a
  <2>9. p.says.start = y.out[d].from /\ p.says.start + p.says.size = p.from /\ p.says.count = Len(y.listed)
    <3>1. e.start = z.start /\ e.size = z.offset - z.start /\ e.count = Len(z.listed)
      BY <1>0
    <3>2. z.start + (z.offset - z.start) = z.offset
      BY <1>1
    <3> QED BY <3>1, <3>2, <1>b, <2>7, <2>8
  <2> QED BY <2>4, <2>6, <2>8, <2>9, <1>d DEF Complete
<1>8. Chain(y.out, y.offset)
  BY <1>3, <1>4 DEF Grows
<1>9. Underway(y)
  BY <1>4 DEF Underway
<1> QED BY <1>1, <1>4, <1>5, <1>6, <1>8, <1>9, <1>b DEF ZOK

\* Cut off, it says nothing new.
LEMMA CutShort ==
  ASSUME NEW z, ZOK(z), z.at \notin {"none", "sent", "cut"},
         NEW y, y = [z EXCEPT !.at = "cut"]
  PROVE  ZOK(y)
<1>1. /\ y \in Archive /\ y.out = z.out /\ y.offset = z.offset /\ y.entries = z.entries
      /\ y.number = z.number /\ y.listed = z.listed /\ y.at = "cut"
  BY DEF ZOK, Archive
<1> QED BY <1>1 DEF ZOK, Listed, AllWhole, Underway

\* The inductive invariant of the archive.
THEOREM ArchivesKeepInv == ZipSpec => []ZipInv
<1>1. ZipInit => ZipInv
  BY ZipBegins
<1>2. ZipInv /\ [ZipNext]_zipVars => ZipInv'
  <2> SUFFICES ASSUME ZipInv, [ZipNext]_zipVars PROVE ZipInv'
    OBVIOUS
  <2>0. disk \in [ZipFile -> Nat] /\ ZOK(zip)
    BY DEF ZipInv
  <2>a. ASSUME ZOK(zip'), UNCHANGED disk PROVE ZipInv'
    BY <2>0, <2>a DEF ZipInv
  <2>1. ASSUME NEW n \in 1..Cardinality(ZipFile), NEW files \in [1..n -> ZipFile], StartsZip(files, disk)
        PROVE  ZipInv'
    BY <2>1, <2>a, Started DEF StartsZip
  <2>2. CASE WritesHeader
    <3>1. PICK x : x = Pushed(zip, "local", LocalLength, Current(zip))
      OBVIOUS
    <3>2. zip.at = "header" /\ zip' = [x EXCEPT !.local = zip.offset, !.read = 0, !.at = "data"]
      BY <2>2, <3>1 DEF WritesHeader
    <3>3. ZOK(zip')
      BY <2>0, <3>1, <3>2, HeaderWritten
    <3> QED BY <2>2, <2>a, <3>3 DEF WritesHeader
  <2>3. CASE WritesData
    <3>1. PICK x : x = Pushed(zip, "data", 1, Current(zip).file)
      OBVIOUS
    <3>2. zip.at = "data" /\ zip.read < Readable(zip) /\ zip' = [x EXCEPT !.read = @ + 1]
      BY <2>3, <3>1 DEF WritesData
    <3>3. zip.read < Current(zip).size
      <4>1. Current(zip).file \in ZipFile /\ Current(zip).size \in Nat /\ zip.read \in Nat
        BY <2>0, <3>2, CurrentIs DEF Entry, ZOK, Archive
      <4>2. disk[Current(zip).file] \in Nat
        BY <2>0, <4>1
      <4> QED BY <3>2, <4>1, <4>2 DEF Readable
    <3>4. ZOK(zip')
      BY <2>0, <3>1, <3>2, <3>3, DataWritten
    <3> QED BY <2>3, <2>a, <3>4 DEF WritesData
  <2>4. CASE WritesDescriptor
    <3>1. PICK v : v = Described(zip)
      OBVIOUS
    <3>2. zip.at = "data" /\ zip.read = Current(zip).size
      BY <2>4 DEF WritesDescriptor
    <3>3. DescribedOK(zip, v)
      BY <2>0, <3>1, <3>2, DescriptorWritten
    <3>4. ASSUME zip.number < Len(zip.entries), zip' = [v EXCEPT !.at = "header", !.number = zip.number + 1]
          PROVE  ZOK(zip')
      BY <2>0, <3>2, <3>3, <3>4, NextEntry
    <3>5. ASSUME zip.number = Len(zip.entries), zip' = [v EXCEPT !.at = "directory", !.start = v.offset]
          PROVE  ZOK(zip')
      BY <2>0, <3>2, <3>3, <3>5, FinishBegins
    <3>6. ZOK(zip')
      BY <2>4, <3>1, <3>4, <3>5 DEF WritesDescriptor
    <3> QED BY <2>4, <2>a, <3>6 DEF WritesDescriptor
  <2>5. CASE WritesDirectory
    <3>1. PICK x : x = Pushed(zip, "central", CentralLength, zip.listed[zip.central + 1])
      OBVIOUS
    <3>2. /\ zip.at = "directory" /\ zip.central < Len(zip.listed)
          /\ zip' = [x EXCEPT !.central = @ + 1]
      BY <2>5, <3>1 DEF WritesDirectory
    <3>3. ZOK(zip')
      BY <2>0, <3>1, <3>2, EntryWritten
    <3> QED BY <2>5, <2>a, <3>3 DEF WritesDirectory
  <2>6. CASE WritesEnd
    <3>1. PICK x : x = Pushed(zip, "end", 1, [start |-> zip.start, size |-> zip.offset - zip.start,
                                              count |-> Len(zip.listed)])
      OBVIOUS
    <3>2. zip.at = "directory" /\ zip.central = Len(zip.listed) /\ zip' = [x EXCEPT !.at = "sent"]
      BY <2>6, <3>1 DEF WritesEnd
    <3>3. ZOK(zip')
      BY <2>0, <3>1, <3>2, EndWritten
    <3> QED BY <2>6, <2>a, <3>3 DEF WritesEnd
  <2>7. CASE Cuts
    <3>1. ZOK(zip')
      BY <2>0, <2>7, CutShort DEF Cuts
    <3> QED BY <2>7, <2>a, <3>1 DEF Cuts
  <2>8. ASSUME NEW f \in ZipFile, NEW size \in 0..MaxSize, FileChanges(f, size) PROVE ZipInv'
    <3>1. disk' \in [ZipFile -> Nat]
      BY <2>0, <2>8, ZipAssumption DEF FileChanges
    <3>2. zip' = zip
      BY <2>8 DEF FileChanges
    <3> QED BY <2>0, <3>1, <3>2 DEF ZipInv
  <2>9. CASE UNCHANGED zipVars
    BY <2>0, <2>9 DEF ZipInv, zipVars
  <2> QED BY <2>1, <2>2, <2>3, <2>4, <2>5, <2>6, <2>7, <2>8, <2>9 DEF ZipNext
<1> QED BY <1>1, <1>2, PTL DEF ZipSpec

\* An archive that was sent to its end can be read from it (ZipIntact).
THEOREM ArchivesAreIntact == ZipSpec => []ZipIntact
<1>1. ZipInv => ZipIntact
  <2> SUFFICES ASSUME ZipInv PROVE ZipIntact
    OBVIOUS
  <2>0. /\ ZOK(zip) /\ zip.out \in Seq(Piece) /\ Len(zip.out) \in Nat /\ DOMAIN zip.out = 1..Len(zip.out)
        /\ zip.listed \in Seq(Place)
    BY DEF ZipInv, ZOK, Archive
  <2>1. zip.at # "sent" => PiecesOf("end") = {}
    BY <2>0 DEF ZOK, NoEnd, PiecesOf
  <2>2. ASSUME zip.at = "sent"
        PROVE  /\ Contiguous
               /\ \E d \in PiecesOf("central"), e \in PiecesOf("end") :
                    LET end == zip.out[e].says IN
                      /\ end.start = zip.out[d].from /\ end.start + end.size = zip.out[e].from
                      /\ end.count = Len(zip.entries) /\ e = d + end.count
                      /\ \A i \in 1..end.count :
                           LET c == zip.out[d + i - 1] IN
                             c.kind = "central" /\ c.says.entry = zip.entries[i] /\ LeadsTo(c.says)
    <3>1. Contiguous
      BY <2>0 DEF ZOK, Chain, Contiguous
    <3>2. PICK d \in 1..Len(zip.out) :
            /\ Len(zip.out) = d + Len(zip.listed)
            /\ Directory(zip.out, zip.listed, d - 1, Len(zip.listed))
            /\ LET e == zip.out[Len(zip.out)]
               IN  /\ e.kind = "end" /\ e.says.start = zip.out[d].from
                   /\ e.says.start + e.says.size = e.from /\ e.says.count = Len(zip.listed)
      BY <2>0, <2>2 DEF ZOK, Complete
    <3>3. AllWhole(zip) /\ Len(zip.listed) = Len(zip.entries) /\ Len(zip.listed) \in Nat
      BY <2>0, <2>2 DEF ZOK, Listed
    <3>4. Len(zip.listed) # 0
      <4>1. zip.number \in 1..Len(zip.entries)
        BY <2>0, <2>2 DEF ZOK
      <4> QED BY <4>1, <3>3
    <3>5. PICK e : e = Len(zip.out)
      OBVIOUS
    <3>6. e \in PiecesOf("end")
      BY <2>0, <3>2, <3>5 DEF PiecesOf
    <3>7. ASSUME NEW i \in 1..Len(zip.listed)
          PROVE  /\ zip.out[d + i - 1].kind = "central" /\ zip.out[d + i - 1].says = zip.listed[i]
                 /\ zip.listed[i].entry = zip.entries[i] /\ LeadsTo(zip.listed[i])
      <4>1. (d - 1) + i = d + i - 1
        BY <3>3
      <4>2. zip.out[d + i - 1].kind = "central" /\ zip.out[d + i - 1].says = zip.listed[i]
        BY <3>2, <4>1 DEF Directory
      <4>3. zip.listed[i].entry = zip.entries[i] /\ Whole(zip.out, zip.listed[i])
        BY <3>3 DEF AllWhole
      <4>4. LeadsTo(zip.listed[i])
        BY <2>0, <4>3 DEF Whole, Headed, LeadsTo, PiecesOf
      <4> QED BY <4>2, <4>3, <4>4
    <3>8. d \in PiecesOf("central")
      <4>1. d + 1 - 1 = d /\ 1 \in 1..Len(zip.listed)
        BY <3>3, <3>4
      <4>2. zip.out[d].kind = "central"
        BY <3>7, <4>1
      <4> QED BY <2>0, <4>2 DEF PiecesOf
    <3>9. /\ zip.out[e].says.start = zip.out[d].from
          /\ zip.out[e].says.start + zip.out[e].says.size = zip.out[e].from
          /\ zip.out[e].says.count = Len(zip.listed)
      BY <3>2, <3>5
    <3>10. LET end == zip.out[e].says IN
             /\ end.start = zip.out[d].from /\ end.start + end.size = zip.out[e].from
             /\ end.count = Len(zip.entries) /\ e = d + end.count
             /\ \A i \in 1..end.count :
                  LET c == zip.out[d + i - 1] IN
                    c.kind = "central" /\ c.says.entry = zip.entries[i] /\ LeadsTo(c.says)
      <4>1. PICK m : m = zip.out[e].says.count
        OBVIOUS
      <4>2. m = Len(zip.listed) /\ m = Len(zip.entries) /\ e = d + m
        BY <4>1, <3>2, <3>3, <3>5, <3>9
      <4>3. ASSUME NEW i \in 1..m
            PROVE  LET c == zip.out[d + i - 1] IN
                     c.kind = "central" /\ c.says.entry = zip.entries[i] /\ LeadsTo(c.says)
        <5>1. i \in 1..Len(zip.listed)
          BY <4>2, <4>3
        <5> QED BY <3>7, <5>1
      <4> QED BY <4>1, <4>2, <4>3, <3>9
    <3> QED BY <3>1, <3>6, <3>8, <3>10
  <2>3. zip.at = "sent" => PiecesOf("end") # {}
    BY <2>2
  <2> QED BY <2>1, <2>2, <2>3 DEF ZipIntact
<1> QED BY <1>1, ArchivesKeepInv, PTL
-----------------------------------------------------------------------------
\* The lists.

\* What InOrder is for: each element is one before's order has a place for.
Sorts(o, S, before) ==
  /\ Cardinality(S) \in Nat /\ o \in [1..Cardinality(S) -> S]
  /\ \A x \in S : \E k \in 1..Cardinality(S) : o[k] = x
  /\ \A j, k \in 1..Cardinality(S) : j < k => o[j] \in before[o[k]]
  /\ \A j, k \in 1..Cardinality(S) : o[j] = o[k] => j = k

\* before orders S, strictly and all of it.
Linear(S, before) ==
  /\ IsFiniteSet(S) /\ before \in [S -> SUBSET S]
  /\ \A x \in S : x \notin before[x]
  /\ \A x, y \in S : x # y => x \in before[y] \/ y \in before[x]
  /\ \A x, y \in S : x \in before[y] => before[x] \subseteq before[y]

\* Every element has as many before it as its place says, less one.
LEMMA InOrderSorts ==
  ASSUME NEW S, NEW before, Linear(S, before)
  PROVE  Sorts(InOrder(before), S, before)
<1> DEFINE n == Cardinality(S)
           rank == [x \in S |-> Cardinality(before[x])]
<1>1. n \in Nat /\ DOMAIN before = S
  BY FS_CardinalityType DEF Linear
<1>2. \A x \in S : IsFiniteSet(before[x]) /\ Cardinality(before[x]) \in 0..n - 1
  <2> SUFFICES ASSUME NEW x \in S
               PROVE  IsFiniteSet(before[x]) /\ Cardinality(before[x]) \in 0..n - 1
    OBVIOUS
  <2>1. before[x] \in SUBSET S /\ before[x] # S /\ IsFiniteSet(S)
    BY DEF Linear
  <2>2. IsFiniteSet(before[x]) /\ Cardinality(before[x]) <= n /\ Cardinality(before[x]) # n
    BY <2>1, FS_Subset
  <2>3. Cardinality(before[x]) \in Nat
    BY <2>2, FS_CardinalityType
  <2> QED BY <2>2, <2>3, <1>1
<1>3. ASSUME NEW x \in S, NEW y \in S, x \in before[y]
      PROVE  Cardinality(before[x]) < Cardinality(before[y])
  <2>1. before[x] \in SUBSET before[y] /\ before[x] # before[y]
    BY <1>3 DEF Linear
  <2>2. Cardinality(before[x]) <= Cardinality(before[y]) /\ Cardinality(before[x]) # Cardinality(before[y])
    BY <2>1, <1>2, FS_Subset
  <2> QED BY <2>2, <1>2
<1>4. rank \in Injection(S, 0..n - 1)
  <2>1. rank \in [S -> 0..n - 1]
    BY <1>2
  <2>2. ASSUME NEW x \in S, NEW y \in S, rank[x] = rank[y] PROVE x = y
    <3>1. Cardinality(before[x]) = Cardinality(before[y])
      BY <2>2
    <3> QED BY <3>1, <1>2, <1>3 DEF Linear
  <2>3. IsInjective(rank)
    BY <2>2 DEF IsInjective
  <2> QED BY <2>1, <2>3 DEF Injection
<1>5. rank \in Surjection(S, 0..n - 1)
  <2>1. IsFiniteSet(0..n - 1) /\ Cardinality(0..n - 1) = IF 0 > n - 1 THEN 0 ELSE n - 1 - 0 + 1
    <3>1. PICK m \in Int : m = n - 1
      BY <1>1
    <3>2. 0 \in Int /\ m \in Int
      OBVIOUS
    <3>3. IsFiniteSet(0..m) /\ Cardinality(0..m) = IF 0 > m THEN 0 ELSE m - 0 + 1
      BY <3>2, FS_Interval, Zenon
    <3> QED BY <3>1, <3>3
  <2>2. Cardinality(0..n - 1) = n
    BY <2>1, <1>1
  <2>3. Cardinality(S) = Cardinality(0..n - 1) <=> rank \in Surjection(S, 0..n - 1)
    BY <1>4, <2>1, FS_Injection
  <2> QED BY <2>2, <2>3
<1>6. \A k \in 1..n : \E x \in S : Cardinality(before[x]) = k - 1
  <2> SUFFICES ASSUME NEW k \in 1..n PROVE \E x \in S : Cardinality(before[x]) = k - 1
    OBVIOUS
  <2>1. k - 1 \in 0..n - 1
    BY <1>1
  <2>2. PICK x \in S : rank[x] = k - 1
    BY <1>5, <2>1 DEF Surjection
  <2> QED BY <2>2
<1> DEFINE o == InOrder(before)
<1>7. o = [k \in 1..n |-> CHOOSE x \in S : Cardinality(before[x]) = k - 1]
  BY <1>1 DEF InOrder
<1> HIDE DEF o, rank
<1>8. \A k \in 1..n : o[k] \in S /\ Cardinality(before[o[k]]) = k - 1
  BY <1>6, <1>7
<1>9. o \in [1..n -> S]
  BY <1>7, <1>8
<1>10. ASSUME NEW x \in S PROVE \E k \in 1..n : o[k] = x
  <2>1. Cardinality(before[x]) + 1 \in 1..n
    BY <1>1, <1>2
  <2>2. PICK k \in 1..n : k = Cardinality(before[x]) + 1
    BY <2>1
  <2>3. Cardinality(before[o[k]]) = Cardinality(before[x]) /\ o[k] \in S
    BY <1>8, <2>2, <1>2
  <2>4. o[k] = x
    BY <2>3, <1>2, <1>3 DEF Linear
  <2> QED BY <2>4
<1>11. ASSUME NEW j \in 1..n, NEW k \in 1..n, j < k PROVE o[j] \in before[o[k]]
  <2>1. /\ o[j] \in S /\ Cardinality(before[o[j]]) = j - 1
        /\ o[k] \in S /\ Cardinality(before[o[k]]) = k - 1
    BY <1>8
  <2>2. ~(Cardinality(before[o[k]]) < Cardinality(before[o[j]])) /\ o[j] # o[k]
    BY <2>1, <1>11, <1>1
  <2>3. o[k] \notin before[o[j]]
    BY <2>1, <2>2, <1>3
  <2> QED BY <2>1, <2>2, <2>3 DEF Linear
<1>12. ASSUME NEW j \in 1..n, NEW k \in 1..n, o[j] = o[k] PROVE j = k
  BY <1>8, <1>12, <1>1
<1> QED BY <1>1, <1>9, <1>10, <1>11, <1>12 DEF Sorts, o
-----------------------------------------------------------------------------
Item == [id : Id, name : Name, life : Life, added : Nat, files : SUBSET Path]

\* No file is under another, and every title is there once, since some time ago.
Apart(files) == \A p, q \in files : IsPrefix(p, q) => p = q
ShelfOK(s, c) == /\ s \in Seq(Item) /\ c \in Nat \ {0}
                 /\ \A i \in 1..Len(s) : s[i].added \in 1..c /\ Apart(s[i].files)
                 /\ \A i, j \in 1..Len(s) : s[i].id = s[j].id => i = j

\* A list of what stands at some places of the shelf, each once.
Shows(rows, stands) ==
  /\ rows \in Seq(Item) /\ Len(rows) \in Nat
  /\ \A k \in 1..Len(rows) : \E i \in stands : rows[k] = shelf[i]
  /\ \A i \in stands : \E k \in 1..Len(rows) : rows[k] = shelf[i]
  /\ \A j, k \in 1..Len(rows) : rows[j].id = rows[k].id => j = k

\* Those that are newer, or as new and before it.
Earlier(stands) ==
  [i \in stands |-> {j \in stands : \/ shelf[j].added > shelf[i].added
                                    \/ shelf[j].added = shelf[i].added /\ j < i}]

\* Since no two stand at one place, they are in order.
LEMMA EarlierIsLinear ==
  ASSUME ShelfOK(shelf, clock), NEW stands \in SUBSET (1..Len(shelf))
  PROVE  Linear(stands, Earlier(stands))
<1>1. Len(shelf) \in Nat /\ \A i \in stands : i \in Nat /\ shelf[i].added \in Nat /\ shelf[i] \in Item
  <2>1. shelf \in Seq(Item) /\ Len(shelf) \in Nat
    BY DEF ShelfOK
  <2>2. \A i \in 1..Len(shelf) : i \in Nat /\ shelf[i] \in Item
    BY <2>1
  <2> QED BY <2>1, <2>2 DEF Item
<1>2. IsFiniteSet(stands)
  <2>1. IsFiniteSet(1..Len(shelf))
    BY <1>1, FS_Interval
  <2> QED BY <2>1, FS_Subset
<1>3. Earlier(stands) \in [stands -> SUBSET stands]
  BY DEF Earlier
<1>4. \A x \in stands : x \notin Earlier(stands)[x]
  BY <1>1 DEF Earlier
<1>5. \A x, y \in stands : x # y => x \in Earlier(stands)[y] \/ y \in Earlier(stands)[x]
  BY <1>1 DEF Earlier
<1>6. \A x, y \in stands : x \in Earlier(stands)[y] => Earlier(stands)[x] \subseteq Earlier(stands)[y]
  <2> SUFFICES ASSUME NEW x \in stands, NEW y \in stands, x \in Earlier(stands)[y],
                      NEW z \in Earlier(stands)[x]
               PROVE  z \in Earlier(stands)[y]
    OBVIOUS
  <2>1. z \in stands
    BY DEF Earlier
  <2>2. /\ x \in Nat /\ y \in Nat /\ z \in Nat
        /\ shelf[x].added \in Nat /\ shelf[y].added \in Nat /\ shelf[z].added \in Nat
    BY <1>1, <2>1
  <2>3. /\ shelf[x].added > shelf[y].added \/ (shelf[x].added = shelf[y].added /\ x < y)
        /\ shelf[z].added > shelf[x].added \/ (shelf[z].added = shelf[x].added /\ z < x)
    BY DEF Earlier
  <2>4. shelf[z].added > shelf[y].added \/ (shelf[z].added = shelf[y].added /\ z < y)
    BY <2>2, <2>3
  <2> QED BY <2>1, <2>4 DEF Earlier
<1> QED BY <1>2, <1>3, <1>4, <1>5, <1>6 DEF Linear

\* A list made of some places of the shelf shows them, each once.
LEMMA NewestShows ==
  ASSUME ShelfOK(shelf, clock), NEW stands \in SUBSET (1..Len(shelf))
  PROVE  Shows(Newest(stands), stands)
<1>1. Len(shelf) \in Nat /\ \A i \in stands : i \in Nat /\ shelf[i].added \in Nat /\ shelf[i] \in Item
  <2>1. shelf \in Seq(Item) /\ Len(shelf) \in Nat
    BY DEF ShelfOK
  <2>2. \A i \in 1..Len(shelf) : i \in Nat /\ shelf[i] \in Item
    BY <2>1
  <2> QED BY <2>1, <2>2 DEF Item
<1>2. Linear(stands, Earlier(stands))
  BY EarlierIsLinear
<1> DEFINE n == Cardinality(stands)
           order == InOrder(Earlier(stands))
<1>3. /\ n \in Nat /\ order \in [1..n -> stands]
      /\ \A x \in stands : \E k \in 1..n : order[k] = x
      /\ \A j, k \in 1..n : order[j] = order[k] => j = k
  BY <1>2, InOrderSorts DEF Sorts
<1>4. Newest(stands) = [k \in 1..n |-> shelf[order[k]]]
  BY <1>3 DEF Newest, Earlier
<1> HIDE DEF order, n
<1> DEFINE rows == Newest(stands)
<1>5. rows \in [1..n -> Item]
  BY <1>1, <1>3, <1>4
<1>6. rows \in Seq(Item) /\ Len(rows) = n
  BY <1>3, <1>5
<1>7. \A k \in 1..n : order[k] \in stands /\ rows[k] = shelf[order[k]]
  BY <1>3, <1>4
<1>8. \A j, k \in 1..n : rows[j].id = rows[k].id => j = k
  <2> SUFFICES ASSUME NEW j \in 1..n, NEW k \in 1..n, rows[j].id = rows[k].id PROVE j = k
    OBVIOUS
  <2>1. order[j] \in 1..Len(shelf) /\ order[k] \in 1..Len(shelf)
    BY <1>7
  <2>2. shelf[order[j]].id = shelf[order[k]].id
    BY <1>7
  <2>3. order[j] = order[k]
    BY <2>1, <2>2 DEF ShelfOK
  <2> QED BY <2>3, <1>3
<1>9. \A i \in stands : \E k \in 1..n : rows[k] = shelf[i]
  BY <1>3, <1>7
<1> HIDE DEF rows
<1>10. \A k \in 1..n : \E i \in stands : rows[k] = shelf[i]
  BY <1>7
<1>11. Shows(rows, stands)
  <2>1. PICK m \in Nat : m = n
    BY <1>3
  <2>2. /\ rows \in Seq(Item) /\ Len(rows) = m
        /\ \A k \in 1..m : \E i \in stands : rows[k] = shelf[i]
        /\ \A i \in stands : \E k \in 1..m : rows[k] = shelf[i]
        /\ \A j, k \in 1..m : rows[j].id = rows[k].id => j = k
    BY <1>6, <1>8, <1>9, <1>10, <2>1
  <2> QED BY <2>1, <2>2, Zenon DEF Shows
<1> QED BY <1>11 DEF rows

\* The records behind a cursor, the newest first.
Follows(o, cursor) ==
  /\ o \in Seq(Item) /\ Len(o) \in Nat
  /\ \A k \in 1..Len(o) : /\ \E i \in 1..Len(shelf) : o[k] = shelf[i]
                          /\ Shown(o[k]) /\ After(o[k], cursor)
  /\ \A i \in 1..Len(shelf) : Shown(shelf[i]) /\ After(shelf[i], cursor) => \E k \in 1..Len(o) : o[k] = shelf[i]
  /\ \A j, k \in 1..Len(o) : j < k => Newer(o[j], o[k])

Behindhand(cursor) == {item \in Range(TransferList) : After(item, cursor)}

\* The list of transfers shows all that are shown.
LEMMA TransferListShows ==
  ASSUME ShelfOK(shelf, clock)
  PROVE  Shows(TransferList, {i \in 1..Len(shelf) : Shown(shelf[i])})
<1>1. DOMAIN shelf = 1..Len(shelf)
  BY DEF ShelfOK
<1>2. PICK stands : stands = {i \in 1..Len(shelf) : Shown(shelf[i])}
  OBVIOUS
<1>3. TransferList = Newest(stands) /\ stands \in SUBSET (1..Len(shelf))
  BY <1>1, <1>2 DEF TransferList
<1> QED BY <1>2, <1>3, NewestShows

\* What is behind a cursor follows it in order.
LEMMA NewestFirstFollows ==
  ASSUME ShelfOK(shelf, clock), NEW cursor
  PROVE  Follows(NewestFirst(Behindhand(cursor)), cursor)
<1> DEFINE T == TransferList
           stands == {i \in 1..Len(shelf) : Shown(shelf[i])}
<1>1. /\ T \in Seq(Item) /\ Len(T) \in Nat
      /\ \A k \in 1..Len(T) : \E i \in stands : T[k] = shelf[i]
      /\ \A i \in stands : \E k \in 1..Len(T) : T[k] = shelf[i]
  BY TransferListShows DEF Shows
<1> HIDE DEF T
<1>2. PICK S : S = Behindhand(cursor)
  OBVIOUS
<1>3. Range(T) = {T[k] : k \in 1..Len(T)}
  BY <1>1 DEF Range
<1>4. \A x \in S : After(x, cursor) /\ Shown(x) /\ x \in Item /\ \E i \in 1..Len(shelf) : x = shelf[i]
  <2> SUFFICES ASSUME NEW x \in S
               PROVE  After(x, cursor) /\ Shown(x) /\ x \in Item /\ \E i \in 1..Len(shelf) : x = shelf[i]
    OBVIOUS
  <2>1. x \in Range(T) /\ After(x, cursor)
    BY <1>2 DEF Behindhand, T
  <2>2. PICK k \in 1..Len(T) : x = T[k]
    BY <2>1, <1>3
  <2>3. PICK i \in stands : T[k] = shelf[i]
    BY <1>1
  <2>4. i \in 1..Len(shelf) /\ Shown(shelf[i])
    OBVIOUS
  <2>5. x \in Item
    BY <1>1, <2>2
  <2> QED BY <2>1, <2>2, <2>3, <2>4, <2>5
<1>5. \A i \in 1..Len(shelf) : Shown(shelf[i]) /\ After(shelf[i], cursor) => shelf[i] \in S
  <2> SUFFICES ASSUME NEW i \in 1..Len(shelf), Shown(shelf[i]), After(shelf[i], cursor) PROVE shelf[i] \in S
    OBVIOUS
  <2>1. PICK k \in 1..Len(T) : T[k] = shelf[i]
    BY <1>1
  <2>2. shelf[i] \in Range(T)
    BY <2>1, <1>3
  <2> QED BY <2>2, <1>2 DEF Behindhand, T
<1>6. \A x \in S : x.added \in Nat /\ x.id \in Nat
  BY <1>4, ListingAssumption DEF Item
<1>7. \A x, y \in S : x # y => x.id # y.id
  BY <1>4 DEF ShelfOK
<1> DEFINE before == [x \in S |-> {y \in S : Newer(y, x)}]
<1>8. Linear(S, before)
  <2>1. IsFiniteSet(S)
    <3>1. IsFiniteSet(1..Len(T))
      BY <1>1, FS_Interval
    <3>2. T \in Surjection(1..Len(T), Range(T))
      BY <1>1, <1>3 DEF Surjection
    <3>3. IsFiniteSet(Range(T))
      BY <3>1, <3>2, FS_Surjection
    <3>4. S \in SUBSET Range(T)
      BY <1>2 DEF Behindhand, T
    <3> QED BY <3>3, <3>4, FS_Subset
  <2>2. before \in [S -> SUBSET S]
    OBVIOUS
  <2>3. \A x \in S : x \notin before[x]
    BY <1>6 DEF Newer
  <2>4. \A x, y \in S : x # y => x \in before[y] \/ y \in before[x]
    BY <1>6, <1>7 DEF Newer
  <2>5. \A x, y \in S : x \in before[y] => before[x] \subseteq before[y]
    BY <1>6 DEF Newer
  <2> QED BY <2>1, <2>2, <2>3, <2>4, <2>5 DEF Linear
<1>9. PICK o : o = NewestFirst(S)
  OBVIOUS
<1>10. PICK n : n = Cardinality(S)
  OBVIOUS
<1>11. o = InOrder(before)
  BY <1>9 DEF NewestFirst
<1>12. Sorts(o, S, before)
  BY <1>8, <1>11, InOrderSorts
<1>13. /\ n \in Nat /\ o \in [1..n -> S]
       /\ \A x \in S : \E k \in 1..n : o[k] = x
       /\ \A j, k \in 1..n : j < k => o[j] \in before[o[k]]
  BY <1>10, <1>12 DEF Sorts
<1>14. \A j, k \in 1..n : j < k => Newer(o[j], o[k])
  BY <1>13
<1>15. o \in Seq(Item) /\ Len(o) = n
  <2>1. o \in [1..n -> Item]
    BY <1>4, <1>13
  <2> QED BY <2>1, <1>13
<1>16. \A k \in 1..n : /\ \E i \in 1..Len(shelf) : o[k] = shelf[i]
                       /\ Shown(o[k]) /\ After(o[k], cursor)
  BY <1>4, <1>13
<1>17. \A i \in 1..Len(shelf) : Shown(shelf[i]) /\ After(shelf[i], cursor) => \E k \in 1..n : o[k] = shelf[i]
  BY <1>5, <1>13
<1>18. Follows(o, cursor)
  BY <1>13, <1>14, <1>15, <1>16, <1>17, Zenon DEF Follows
<1> QED BY <1>2, <1>9, <1>18
-----------------------------------------------------------------------------
Walk == [at : {"idle", "walking", "ended"}, kind : {"cursor", "offset"}, limit : Nat,
         cursor : [added : Nat, id : Nat], offset : Nat, seen : Seq(Id), stayed : SUBSET Id, quiet : BOOLEAN]

\* By the cursor: what was seen is not behind it, nor would it be if it came now;
\* what stayed was seen or is behind it.
ByCursor(w, s, c) ==
  w.at = "walking" /\ w.kind = "cursor" =>
    /\ w.cursor = NoCursor => w.seen = <<>>
    /\ w.cursor.added <= c
    /\ \A k \in 1..Len(w.seen) : w.cursor.added < c \/ w.seen[k] <= w.cursor.id
    /\ \A k \in 1..Len(w.seen), i \in 1..Len(s) : w.seen[k] = s[i].id => ~After(s[i], w.cursor)
    /\ \A id \in w.stayed : \E i \in 1..Len(s) :
         s[i].id = id /\ Shown(s[i]) /\ (id \in Range(w.seen) \/ After(s[i], w.cursor))
    /\ IsInjective(w.seen)

\* By number, while nothing changes: what was seen is the beginning of the list.
ByNumber(w, ids) ==
  w.at = "walking" /\ w.kind = "offset" /\ w.quiet =>
    /\ w.stayed = Range(ids) /\ Len(w.seen) = w.offset /\ w.offset <= Len(ids)
    /\ \A k \in 1..Len(w.seen) : w.seen[k] = ids[k]

WInv == /\ ShelfOK(shelf, clock)
        /\ walk \in Walk /\ (walk.at = "walking" => walk.limit > 0)
        /\ ByCursor(walk, shelf, clock)
        /\ ByNumber(walk, IdsOf(TransferList))
        /\ WalkExact

\* What is on the shelf was there with its time, or is new to it and comes now.
Changes(s, t, c) ==
  \A i \in 1..Len(t) : \/ \E j \in 1..Len(s) : s[j].id = t[i].id /\ s[j].added = t[i].added
                       \/ t[i].added = c /\ \A j \in 1..Len(s) : s[j].id # t[i].id

\* The place of a title.
LEMMA PlacedIs ==
  ASSUME ShelfOK(shelf, clock), NEW id
  PROVE  /\ Placed(id) \in 0..Len(shelf) /\ Len(shelf) \in Nat
         /\ Placed(id) # 0 => shelf[Placed(id)].id = id
         /\ Placed(id) = 0 => \A i \in 1..Len(shelf) : shelf[i].id # id
<1> DEFINE I == {i \in 1..Len(shelf) : shelf[i].id = id}
<1>1. Placed(id) = IF I # {} THEN Min(I) ELSE 0
  BY DEF Placed, SelectInSeq
<1>2. Len(shelf) \in Nat
  BY DEF ShelfOK
<1>3. CASE I = {}
  BY <1>1, <1>2, <1>3
<1>4. CASE I # {}
  <2>1. PICK i : i \in I
    BY <1>4
  <2>2. \A j \in I : j = i
    BY <2>1 DEF ShelfOK
  <2>3. Min(I) = i
    <3>1. \E x \in I : \A y \in I : x <= y
      BY <2>1, <2>2
    <3> QED BY <2>1, <2>2, <3>1 DEF Min
  <2> QED BY <1>1, <1>2, <1>4, <2>1, <2>3
<1> QED BY <1>3, <1>4

\* A walk while titles come, go and change.
LEMMA WalksOn ==
  ASSUME WInv, ShelfOK(shelf', clock), Under(shelf'), clock' = clock, Changes(shelf, shelf', clock)
  PROVE  WInv'
<1> DEFINE w == walk'
<1>1. /\ walk \in Walk /\ ShelfOK(shelf, clock) /\ clock \in Nat
      /\ Len(shelf) \in Nat /\ Len(shelf') \in Nat /\ Len(walk.seen) \in Nat
  BY DEF WInv, ShelfOK, Walk
<1>2. /\ w \in Walk /\ w.at = walk.at /\ w.kind = walk.kind /\ w.limit = walk.limit
      /\ w.cursor = walk.cursor /\ w.seen = walk.seen /\ w.quiet = FALSE
      /\ w.stayed \subseteq walk.stayed
      /\ \A id \in w.stayed : \E i \in 1..Len(shelf') : shelf'[i].id = id /\ Shown(shelf'[i])
  <2>1. DOMAIN shelf' = 1..Len(shelf')
    BY DEF ShelfOK
  <2>2. PICK kept : kept = {id \in walk.stayed : \E i \in DOMAIN shelf' : shelf'[i].id = id /\ Shown(shelf'[i])}
    OBVIOUS
  <2>3. walk' = [walk EXCEPT !.stayed = kept, !.quiet = FALSE]
    BY <2>2 DEF Under
  <2>4. kept \subseteq walk.stayed /\ kept \in SUBSET Id
    BY <1>1, <2>2 DEF Walk
  <2> QED BY <1>1, <2>1, <2>2, <2>3, <2>4 DEF Walk
<1>3. ByCursor(w, shelf', clock)
  <2> SUFFICES ASSUME w.at = "walking", w.kind = "cursor" PROVE ByCursor(w, shelf', clock)
    BY DEF ByCursor
  <2>1. /\ walk.cursor = NoCursor => walk.seen = <<>>
        /\ walk.cursor.added <= clock
        /\ \A k \in 1..Len(walk.seen) : walk.cursor.added < clock \/ walk.seen[k] <= walk.cursor.id
        /\ \A k \in 1..Len(walk.seen), i \in 1..Len(shelf) : walk.seen[k] = shelf[i].id => ~After(shelf[i], walk.cursor)
        /\ \A id \in walk.stayed : \E i \in 1..Len(shelf) :
             shelf[i].id = id /\ Shown(shelf[i]) /\ (id \in Range(walk.seen) \/ After(shelf[i], walk.cursor))
        /\ IsInjective(walk.seen)
    BY <1>2 DEF WInv, ByCursor
  <2>2. walk.cursor.added \in Nat /\ walk.cursor.id \in Nat
    BY <1>1 DEF Walk
  <2>3. ASSUME NEW k \in 1..Len(walk.seen), NEW i \in 1..Len(shelf'), walk.seen[k] = shelf'[i].id
        PROVE  ~After(shelf'[i], walk.cursor)
    <3>1. CASE \E j \in 1..Len(shelf) : shelf[j].id = shelf'[i].id /\ shelf[j].added = shelf'[i].added
      BY <2>1, <2>3, <3>1 DEF After, Newer
    <3>2. CASE shelf'[i].added = clock
      <4>1. walk.cursor # NoCursor
        BY <1>1, <2>1, EmptySeq
      <4>2. walk.cursor.added < clock \/ shelf'[i].id <= walk.cursor.id
        BY <2>1, <2>3
      <4>3. shelf'[i].id \in Nat
        <5>1. walk.seen[k] \in Id
          BY <1>1 DEF Walk
        <5> QED BY <2>3, <5>1, ListingAssumption
      <4>4. ~Newer(walk.cursor, shelf'[i])
        BY <3>2, <4>2, <4>3, <2>1, <2>2, <1>1 DEF Newer
      <4> QED BY <4>1, <4>4 DEF After
    <3> QED BY <3>1, <3>2 DEF Changes
  <2>4. ASSUME NEW id \in w.stayed
        PROVE  \E i \in 1..Len(shelf') : /\ shelf'[i].id = id /\ Shown(shelf'[i])
                                         /\ id \in Range(walk.seen) \/ After(shelf'[i], walk.cursor)
    <3>1. PICK i \in 1..Len(shelf') : shelf'[i].id = id /\ Shown(shelf'[i])
      BY <1>2
    <3>2. PICK h \in 1..Len(shelf) : shelf[h].id = id /\ (id \in Range(walk.seen) \/ After(shelf[h], walk.cursor))
      BY <2>1, <1>2
    <3>3. PICK j \in 1..Len(shelf) : shelf[j].id = id /\ shelf[j].added = shelf'[i].added
      BY <3>1, <3>2 DEF Changes
    <3>4. j = h
      BY <1>1, <3>2, <3>3 DEF ShelfOK
    <3> QED BY <3>1, <3>2, <3>3, <3>4 DEF After, Newer
  <2>5. w.cursor = walk.cursor /\ w.seen = walk.seen
    BY <1>2
  <2> HIDE DEF w
  <2> QED BY <2>1, <2>3, <2>4, <2>5 DEF ByCursor
<1>4. WalkExact'
  BY <1>2 DEF WInv, WalkExact
<1>5. ByNumber(w, IdsOf(TransferList)')
  BY <1>2 DEF ByNumber
<1>6. w.at = "walking" => w.limit > 0
  BY <1>2 DEF WInv
<1> QED BY <1>2, <1>3, <1>4, <1>5, <1>6 DEF WInv

\* A title that is put on the shelf, or changes there, takes nothing from a walk.
LEMMA UpsertsKeep ==
  ASSUME WInv, NEW id \in Id, NEW name \in Name, NEW life \in Life, Upserts(id, name, life)
  PROVE  WInv'
<1>1. /\ ShelfOK(shelf, clock) /\ shelf \in Seq(Item) /\ clock \in Nat \ {0} /\ Len(shelf) \in Nat
      /\ clock' = clock /\ Under(shelf')
  BY DEF WInv, ShelfOK, Upserts
<1>2. CASE Placed(id) = 0
  <2>1. PICK item \in Item : item = [id |-> id, name |-> name, life |-> life, added |-> clock, files |-> {}]
    <3>1. [id |-> id, name |-> name, life |-> life, added |-> clock, files |-> {}] \in Item
      BY <1>1 DEF Item
    <3> QED BY <3>1
  <2>2. shelf' = Append(shelf, item)
    BY <1>2, <2>1 DEF Upserts
  <2>3. /\ shelf' \in Seq(Item) /\ Len(shelf') = Len(shelf) + 1 /\ shelf'[Len(shelf) + 1] = item
        /\ \A i \in 1..Len(shelf) : shelf'[i] = shelf[i]
    BY <1>1, <2>2
  <2>4. \A i \in 1..Len(shelf') : i \in 1..Len(shelf) \/ i = Len(shelf) + 1
    BY <1>1, <2>3
  <2>5. \A i \in 1..Len(shelf) : shelf[i].id # id
    BY <1>1, <1>2, PlacedIs
  <2>6. item.id = id /\ item.added = clock /\ item.files = {}
    BY <2>1
  <2>7. ShelfOK(shelf', clock)
    <3>1. \A i \in 1..Len(shelf) : shelf[i].added \in 1..clock /\ Apart(shelf[i].files)
      BY <1>1 DEF ShelfOK
    <3>2. Apart(item.files) /\ item.added \in 1..clock
      BY <2>6, <1>1 DEF Apart
    <3>3. \A i, j \in 1..Len(shelf) : shelf[i].id = shelf[j].id => i = j
      BY <1>1 DEF ShelfOK
    <3>4. \A i \in 1..Len(shelf') : shelf'[i].added \in 1..clock /\ Apart(shelf'[i].files)
      BY <2>3, <2>4, <3>1, <3>2
    <3>5. \A i, j \in 1..Len(shelf') : shelf'[i].id = shelf'[j].id => i = j
      BY <2>3, <2>4, <2>5, <2>6, <3>3
    <3> QED BY <1>1, <2>3, <3>4, <3>5 DEF ShelfOK
  <2>8. Changes(shelf, shelf', clock)
    BY <2>3, <2>4, <2>5, <2>6 DEF Changes
  <2> QED BY <1>1, <2>7, <2>8, WalksOn
<1>3. CASE Placed(id) # 0
  <2>1. PICK p \in 1..Len(shelf) : p = Placed(id) /\ shelf[p].id = id
    BY <1>1, <1>3, PlacedIs
  <2>2. shelf' = [shelf EXCEPT ![p].life = life]
    BY <1>3, <2>1 DEF Upserts
  <2>3. PICK item \in Item : item = [shelf[p] EXCEPT !.life = life]
    <3>1. shelf[p] \in Item
      BY <1>1
    <3> QED BY <3>1 DEF Item
  <2>4. item.id = shelf[p].id /\ item.added = shelf[p].added /\ item.files = shelf[p].files
    <3>1. shelf[p] \in Item
      BY <1>1
    <3> QED BY <3>1, <2>3 DEF Item
  <2>5. /\ shelf' \in Seq(Item) /\ Len(shelf') = Len(shelf)
        /\ \A i \in 1..Len(shelf) : shelf'[i] = IF i = p THEN item ELSE shelf[i]
    <3>1. shelf' = [shelf EXCEPT ![p] = item]
      BY <2>2, <2>3
    <3> QED BY <1>1, <3>1
  <2>6. \A i \in 1..Len(shelf) : /\ shelf'[i].id = shelf[i].id /\ shelf'[i].added = shelf[i].added
                                 /\ shelf'[i].files = shelf[i].files
    BY <2>4, <2>5
  <2>7. ShelfOK(shelf', clock)
    BY <1>1, <2>5, <2>6 DEF ShelfOK
  <2>8. Changes(shelf, shelf', clock)
    BY <2>5, <2>6 DEF Changes
  <2> QED BY <1>1, <2>7, <2>8, WalksOn
<1> QED BY <1>2, <1>3

\* Nor does one that is taken off.
LEMMA UnshelvesKeep ==
  ASSUME WInv, NEW id \in Id, Unshelves(id)
  PROVE  WInv'
<1>1. /\ ShelfOK(shelf, clock) /\ shelf \in Seq(Item) /\ clock \in Nat \ {0} /\ Len(shelf) \in Nat
      /\ clock' = clock /\ Under(shelf') /\ Placed(id) # 0
  BY DEF WInv, ShelfOK, Unshelves
<1>2. PICK p \in 1..Len(shelf) : p = Placed(id)
  BY <1>1, PlacedIs
<1>3. shelf' = SubSeq(shelf, 1, p - 1) \o SubSeq(shelf, p + 1, Len(shelf))
  BY <1>2 DEF Unshelves, RemoveAt
<1>4. /\ shelf' \in Seq(Item) /\ Len(shelf') = Len(shelf) - 1
      /\ \A i \in 1..Len(shelf') : shelf'[i] = shelf[IF i < p THEN i ELSE i + 1]
  <2>1. PICK a : a = SubSeq(shelf, 1, p - 1)
    OBVIOUS
  <2>2. PICK b : b = SubSeq(shelf, p + 1, Len(shelf))
    OBVIOUS
  <2>3. a \in Seq(Item) /\ Len(a) = p - 1 /\ \A i \in 1..p - 1 : a[i] = shelf[i]
    BY <1>1, <2>1
  <2>4. /\ b \in Seq(Item) /\ Len(b) = Len(shelf) - p
        /\ \A i \in 1..Len(shelf) - p : b[i] = shelf[p + i]
    BY <1>1, <2>2
  <2>5. /\ shelf' \in Seq(Item) /\ Len(shelf') = Len(a) + Len(b)
        /\ \A i \in 1..Len(a) + Len(b) : shelf'[i] = IF i <= Len(a) THEN a[i] ELSE b[i - Len(a)]
    <3>1. shelf' = a \o b
      BY <1>3, <2>1, <2>2
    <3> QED BY <2>3, <2>4, <3>1, ConcatProperties
  <2>6. Len(shelf') = Len(shelf) - 1
    BY <1>1, <2>3, <2>4, <2>5
  <2>7. ASSUME NEW i \in 1..Len(shelf') PROVE shelf'[i] = shelf[IF i < p THEN i ELSE i + 1]
    <3>1. CASE i < p
      <4>1. i \in 1..p - 1 /\ i <= Len(a) /\ i \in 1..Len(a) + Len(b)
        BY <1>1, <2>3, <2>4, <2>5, <3>1
      <4> QED BY <2>3, <2>5, <3>1, <4>1
    <3>2. CASE ~(i < p)
      <4>1. i - Len(a) \in 1..Len(shelf) - p /\ p + (i - Len(a)) = i + 1 /\ ~(i <= Len(a))
        BY <1>1, <2>3, <2>6, <3>2
      <4>2. shelf'[i] = b[i - Len(a)]
        BY <1>1, <2>3, <2>4, <2>5, <4>1
      <4>3. b[i - Len(a)] = shelf[p + (i - Len(a))]
        BY <2>4, <4>1
      <4> QED BY <4>1, <4>2, <4>3, <3>2
    <3> QED BY <3>1, <3>2
  <2> QED BY <2>5, <2>6, <2>7
<1>5. \A i \in 1..Len(shelf') : \E j \in 1..Len(shelf) : shelf'[i] = shelf[j] /\ j = IF i < p THEN i ELSE i + 1
  <2> SUFFICES ASSUME NEW i \in 1..Len(shelf')
               PROVE  \E j \in 1..Len(shelf) : shelf'[i] = shelf[j] /\ j = IF i < p THEN i ELSE i + 1
    OBVIOUS
  <2>1. PICK j : j = IF i < p THEN i ELSE i + 1
    OBVIOUS
  <2>2. i \in Nat /\ i <= Len(shelf) - 1 /\ i >= 1
    BY <1>1, <1>4
  <2>3. j \in 1..Len(shelf)
    BY <1>1, <2>1, <2>2
  <2>4. shelf'[i] = shelf[j]
    BY <1>4, <2>1
  <2> QED BY <2>1, <2>3, <2>4
<1>6. \A i, j \in 1..Len(shelf') : (IF i < p THEN i ELSE i + 1) = (IF j < p THEN j ELSE j + 1) => i = j
  <2>1. p \in Nat
    BY <1>1, PlacedIs
  <2>2. \A i, j \in Nat : (IF i < p THEN i ELSE i + 1) = (IF j < p THEN j ELSE j + 1) => i = j
    BY <2>1
  <2>3. \A i \in 1..Len(shelf') : i \in Nat
    OBVIOUS
  <2> QED BY <2>2, <2>3, Zenon
<1>7. ShelfOK(shelf', clock)
  <2>1. \A i \in 1..Len(shelf') : shelf'[i].added \in 1..clock /\ Apart(shelf'[i].files)
    BY <1>1, <1>5 DEF ShelfOK
  <2>2. ASSUME NEW i \in 1..Len(shelf'), NEW j \in 1..Len(shelf'), shelf'[i].id = shelf'[j].id PROVE i = j
    <3>1. PICK h \in 1..Len(shelf) : shelf'[i] = shelf[h] /\ h = IF i < p THEN i ELSE i + 1
      BY <1>5
    <3>2. PICK k \in 1..Len(shelf) : shelf'[j] = shelf[k] /\ k = IF j < p THEN j ELSE j + 1
      BY <1>5
    <3>3. h = k
      BY <1>1, <2>2, <3>1, <3>2 DEF ShelfOK
    <3> QED BY <1>6, <3>1, <3>2, <3>3
  <2> QED BY <1>1, <1>4, <2>1, <2>2 DEF ShelfOK
<1>8. Changes(shelf, shelf', clock)
  BY <1>5 DEF Changes
<1> QED BY <1>1, <1>7, <1>8, WalksOn
-----------------------------------------------------------------------------
\* The list does not depend on the files.
LEMMA FilesDoNotSort ==
  ASSUME ShelfOK(shelf, clock), ShelfOK(shelf', clock'), Len(shelf') = Len(shelf),
         \A i \in 1..Len(shelf) : /\ shelf'[i].id = shelf[i].id /\ shelf'[i].added = shelf[i].added
                                  /\ shelf'[i].life = shelf[i].life
  PROVE  IdsOf(TransferList)' = IdsOf(TransferList)
<1>1. DOMAIN shelf = 1..Len(shelf) /\ DOMAIN shelf' = 1..Len(shelf)
  BY DEF ShelfOK
<1> DEFINE stands == {i \in 1..Len(shelf) : Shown(shelf[i])}
<1>2. stands = {i \in DOMAIN shelf : Shown(shelf[i])} /\ stands = {i \in DOMAIN shelf' : Shown(shelf'[i])}
  BY <1>1 DEF Shown
<1>3. \A i \in stands : i \in 1..Len(shelf)
  OBVIOUS
<1> HIDE DEF stands
<1> DEFINE before(s) == [i \in stands |-> {j \in stands : \/ s[j].added > s[i].added
                                                          \/ s[j].added = s[i].added /\ j < i}]
<1>4. before(shelf') = before(shelf)
  BY <1>3
<1>5. PICK order : order = InOrder(before(shelf))
  OBVIOUS
<1>6. TransferList = [k \in DOMAIN order |-> shelf[order[k]]]
  BY <1>2, <1>5 DEF TransferList, Newest
<1>7. TransferList' = [k \in DOMAIN order |-> shelf'[order[k]]]
  <2>1. InOrder(before(shelf')) = order
    BY <1>4, <1>5
  <2> HIDE DEF before
  <2>2. TransferList' = [k \in DOMAIN InOrder(before(shelf')) |-> shelf'[InOrder(before(shelf'))[k]]]
    BY <1>2 DEF TransferList, Newest, before
  <2> QED BY <2>1, <2>2
<1>8. \A k \in DOMAIN order : order[k] \in 1..Len(shelf)
  <2>1. stands \in SUBSET (1..Len(shelf))
    BY <1>3
  <2>2. before(shelf) = Earlier(stands)
    BY DEF Earlier
  <2>3. Linear(stands, Earlier(stands))
    BY <2>1, EarlierIsLinear
  <2>4. Sorts(order, stands, Earlier(stands))
    BY <1>5, <2>2, <2>3, InOrderSorts
  <2> QED BY <2>1, <2>4 DEF Sorts
<1> QED BY <1>6, <1>7, <1>8 DEF IdsOf

\* A file that is completed changes no list.
LEMMA CompletesKeep ==
  ASSUME WInv, NEW id \in Id, NEW path \in Path, Completes(id, path)
  PROVE  WInv'
<1>1. /\ ShelfOK(shelf, clock) /\ shelf \in Seq(Item) /\ clock \in Nat \ {0} /\ Len(shelf) \in Nat
      /\ clock' = clock /\ walk' = walk /\ Placed(id) # 0
  BY DEF WInv, ShelfOK, Completes
<1>2. PICK p \in 1..Len(shelf) : p = Placed(id)
  BY <1>1, PlacedIs
<1>3. shelf[p] \in Item
  BY <1>1
<1>4. PICK files : files = shelf[p].files \cup {path}
  OBVIOUS
<1>5. files \in SUBSET Path /\ Apart(files)
  <2>1. Apart(shelf[p].files) /\ shelf[p].files \in SUBSET Path
    BY <1>1, <1>3 DEF ShelfOK, Item
  <2>2. \A q \in shelf[p].files : ~IsPrefix(q, path) /\ ~IsPrefix(path, q)
    BY <1>2 DEF Completes
  <2> QED BY <1>4, <2>1, <2>2 DEF Apart
<1>6. PICK item \in Item : item = [shelf[p] EXCEPT !.files = files]
  <2>1. [shelf[p] EXCEPT !.files = files] \in Item
    BY <1>3, <1>5 DEF Item
  <2> QED BY <2>1
<1>7. item.id = shelf[p].id /\ item.added = shelf[p].added /\ item.life = shelf[p].life /\ item.files = files
  BY <1>3, <1>6 DEF Item
<1>8. shelf' = [shelf EXCEPT ![p] = item]
  BY <1>2, <1>4, <1>6 DEF Completes
<1>9. /\ shelf' \in Seq(Item) /\ Len(shelf') = Len(shelf)
      /\ \A i \in 1..Len(shelf) : shelf'[i] = IF i = p THEN item ELSE shelf[i]
  BY <1>1, <1>8
<1>10. \A i \in 1..Len(shelf) : /\ shelf'[i].id = shelf[i].id /\ shelf'[i].added = shelf[i].added
                                /\ shelf'[i].life = shelf[i].life
                                /\ shelf'[i].files = shelf[i].files \/ Apart(shelf'[i].files)
  BY <1>5, <1>7, <1>9
<1>11. ShelfOK(shelf', clock')
  BY <1>1, <1>9, <1>10 DEF ShelfOK
<1>12. IdsOf(TransferList)' = IdsOf(TransferList)
  BY <1>1, <1>9, <1>10, <1>11, FilesDoNotSort
<1>13. ByCursor(walk, shelf', clock)
  <2>1. PICK cursor : cursor = walk.cursor
    OBVIOUS
  <2>2. \A i \in 1..Len(shelf) : After(shelf'[i], cursor) <=> After(shelf[i], cursor)
    BY <1>10 DEF After, Newer
  <2>3. \A i \in 1..Len(shelf) : Shown(shelf'[i]) <=> Shown(shelf[i])
    BY <1>10 DEF Shown
  <2>4. \A i \in 1..Len(shelf) : shelf'[i].id = shelf[i].id
    BY <1>10
  <2>5. ByCursor(walk, shelf, clock)
    BY DEF WInv
  <2>6. SUFFICES ASSUME walk.at = "walking", walk.kind = "cursor" PROVE ByCursor(walk, shelf', clock)
    BY DEF ByCursor
  <2>7. \A k \in 1..Len(walk.seen), i \in 1..Len(shelf) : walk.seen[k] = shelf'[i].id => ~After(shelf'[i], cursor)
    BY <2>1, <2>2, <2>4, <2>5, <2>6 DEF ByCursor
  <2>8. \A x \in walk.stayed : \E i \in 1..Len(shelf) :
          shelf'[i].id = x /\ Shown(shelf'[i]) /\ (x \in Range(walk.seen) \/ After(shelf'[i], cursor))
    <3> SUFFICES ASSUME NEW x \in walk.stayed
                 PROVE  \E i \in 1..Len(shelf) : /\ shelf'[i].id = x /\ Shown(shelf'[i])
                                                 /\ x \in Range(walk.seen) \/ After(shelf'[i], cursor)
      OBVIOUS
    <3>1. PICK i \in 1..Len(shelf) : /\ shelf[i].id = x /\ Shown(shelf[i])
                                     /\ x \in Range(walk.seen) \/ After(shelf[i], cursor)
      BY <2>1, <2>5, <2>6 DEF ByCursor
    <3> QED BY <3>1, <2>2, <2>3, <2>4
  <2> QED BY <1>9, <2>1, <2>5, <2>6, <2>7, <2>8 DEF ByCursor
<1> QED BY <1>1, <1>11, <1>12, <1>13 DEF WInv, WalkExact

\* The list is that of the shelf.
LEMMA SameShelf == ASSUME shelf' = shelf PROVE TransferList' = TransferList
BY DEF TransferList, Newest

\* Time passes.
LEMMA TicksKeep == ASSUME WInv, ClockTicks PROVE WInv'
<1>1. clock' = clock + 1 /\ clock \in Nat \ {0} /\ shelf' = shelf /\ walk' = walk /\ walk \in Walk
  BY DEF WInv, ShelfOK, ClockTicks
<1>2. ShelfOK(shelf, clock + 1)
  <2>1. 1..clock \subseteq 1..clock + 1 /\ clock + 1 \in Nat \ {0}
    BY <1>1
  <2> QED BY <1>1, <2>1 DEF WInv, ShelfOK
<1>3. ByCursor(walk, shelf, clock + 1)
  <2>1. walk.cursor.added \in Nat
    BY <1>1 DEF Walk
  <2>2. walk.cursor.added <= clock => walk.cursor.added < clock + 1 /\ walk.cursor.added <= clock + 1
    BY <1>1, <2>1
  <2> QED BY <2>2 DEF WInv, ByCursor
<1> QED BY <1>1, <1>2, <1>3, SameShelf DEF WInv, IdsOf, WalkExact

\* A walk is left.
LEMMA EndsKeep == ASSUME WInv, EndsWalk PROVE WInv'
<1>1. /\ clock' = clock /\ shelf' = shelf /\ walk' = NoWalk
      /\ NoWalk.at = "idle"
  BY DEF EndsWalk, NoWalk
<1>2. NoWalk \in Walk
  BY DEF NoWalk, NoCursor, Walk
<1> QED BY <1>1, <1>2 DEF WInv, ByCursor, ByNumber, WalkExact

\* A walk begins with all there is before it.
LEMMA BeginsKeep ==
  ASSUME WInv, NEW kind \in {"cursor", "offset"}, NEW limit \in PageSize, BeginsWalk(kind, limit)
  PROVE  WInv'
<1> DEFINE T == TransferList
           stands == {i \in 1..Len(shelf) : Shown(shelf[i])}
<1>1. clock' = clock /\ shelf' = shelf /\ ShelfOK(shelf, clock) /\ limit \in Nat \ {0} /\ clock \in Nat
  BY ListingAssumption DEF BeginsWalk, WInv, ShelfOK
<1>2. /\ T \in Seq(Item) /\ Len(T) \in Nat
      /\ \A k \in 1..Len(T) : \E i \in stands : T[k] = shelf[i]
      /\ \A i \in stands : \E k \in 1..Len(T) : T[k] = shelf[i]
  BY <1>1, TransferListShows DEF Shows
<1> HIDE DEF T
<1>3. PICK ids : ids = IdsOf(T)
  OBVIOUS
<1>4. ids \in Seq(Id) /\ Len(ids) = Len(T) /\ \A k \in 1..Len(T) : ids[k] = T[k].id
  <2>1. ids = [k \in 1..Len(T) |-> T[k].id]
    BY <1>2, <1>3 DEF IdsOf
  <2>2. \A k \in 1..Len(T) : T[k].id \in Id
    <3>1. \A k \in 1..Len(T) : T[k] \in Item
      BY <1>2
    <3> QED BY <3>1 DEF Item
  <2>3. PICK n \in Nat : n = Len(T)
    BY <1>2
  <2>4. ids \in [1..n -> Id] /\ \A k \in 1..n : ids[k] = T[k].id
    BY <2>1, <2>2, <2>3
  <2>5. ids \in Seq(Id) /\ Len(ids) = n
    BY <2>3, <2>4
  <2> QED BY <2>3, <2>4, <2>5
<1>5. Range(ids) \in SUBSET Id /\ \A id \in Range(ids) : \E k \in 1..Len(T) : id = T[k].id
  <2>1. Range(ids) = {ids[k] : k \in 1..Len(T)}
    BY <1>4 DEF Range
  <2>2. \A k \in 1..Len(T) : ids[k] \in Id
    BY <1>4
  <2> QED BY <1>4, <2>1, <2>2
<1>6. PICK stayed : stayed = Range(ids)
  OBVIOUS
<1>7. walk' = [NoWalk EXCEPT !.at = "walking", !.kind = kind, !.limit = limit, !.stayed = stayed]
  BY <1>3, <1>6 DEF BeginsWalk, T
<1>8. /\ walk' \in Walk /\ walk'.at = "walking" /\ walk'.kind = kind /\ walk'.limit = limit
      /\ walk'.cursor = NoCursor /\ walk'.seen = <<>> /\ walk'.stayed = stayed /\ walk'.offset = 0
  <2>1. stayed \in SUBSET Id /\ limit \in Nat
    BY <1>1, <1>5, <1>6
  <2>2. walk' = [at |-> "walking", kind |-> kind, limit |-> limit, cursor |-> NoCursor, offset |-> 0,
                 seen |-> <<>>, stayed |-> stayed, quiet |-> TRUE]
    BY <1>7 DEF NoWalk
  <2>3. NoCursor \in [added : Nat, id : Nat]
    BY DEF NoCursor
  <2>4. <<>> \in Seq(Id)
    OBVIOUS
  <2> QED BY <2>1, <2>2, <2>3, <2>4 DEF Walk
<1>9. Len(walk'.seen) = 0
  BY <1>8
<1>10. ByCursor(walk', shelf, clock)
  <2>1. NoCursor.added = 0
    BY DEF NoCursor
  <2>2. \A id \in stayed : \E i \in 1..Len(shelf) : shelf[i].id = id /\ Shown(shelf[i]) /\ After(shelf[i], NoCursor)
    <3> SUFFICES ASSUME NEW id \in stayed
                 PROVE  \E i \in 1..Len(shelf) : shelf[i].id = id /\ Shown(shelf[i]) /\ After(shelf[i], NoCursor)
      OBVIOUS
    <3>1. PICK k \in 1..Len(T) : id = T[k].id
      BY <1>5, <1>6
    <3>2. PICK i \in stands : T[k] = shelf[i]
      BY <1>2
    <3> QED BY <3>1, <3>2 DEF After
  <2>3. IsInjective(walk'.seen)
    BY <1>8 DEF IsInjective
  <2> QED BY <1>1, <1>8, <1>9, <2>1, <2>2, <2>3 DEF ByCursor
<1>11. ByNumber(walk', ids)
  BY <1>2, <1>4, <1>6, <1>8, <1>9 DEF ByNumber
<1>12. IdsOf(TransferList)' = ids
  BY <1>1, <1>3, SameShelf DEF IdsOf, T
<1> QED BY <1>1, <1>8, <1>10, <1>11, <1>12 DEF WInv, WalkExact

\* The lesser of two numbers.
LEMMA MinOfTwo ==
  ASSUME NEW a \in Nat, NEW b \in Nat
  PROVE  Min({a, b}) = IF a <= b THEN a ELSE b
<1>1. \E x \in {a, b} : \A y \in {a, b} : x <= y
  OBVIOUS
<1>2. Min({a, b}) \in {a, b} /\ \A y \in {a, b} : Min({a, b}) <= y
  BY <1>1 DEF Min
<1> QED BY <1>2

\* l that were seen, and m more.
GoesOn(t, s, ids, l, m) ==
  /\ t \in Seq(Id) /\ Len(t) = l + m
  /\ \A k \in 1..l + m : t[k] = IF k <= l THEN s[k] ELSE ids[k - l]
  /\ Range(t) = {t[k] : k \in 1..l + m}
  /\ Range(s) = {s[k] : k \in 1..l}

\* What has been seen, and a page after it.
LEMMA SeesMore ==
  ASSUME NEW s \in Seq(Id), NEW ids \in Seq(Id), NEW l \in Nat, NEW m \in Nat, l = Len(s), m = Len(ids),
         NEW t, t = s \o ids
  PROVE  GoesOn(t, s, ids, l, m)
<1>1. /\ t \in Seq(Id) /\ Len(t) = l + m
      /\ \A k \in 1..l + m : t[k] = IF k <= l THEN s[k] ELSE ids[k - l]
  BY ConcatProperties
<1>2. DOMAIN t = 1..l + m /\ DOMAIN s = 1..l
  BY <1>1
<1>3. Range(t) = {t[k] : k \in 1..l + m} /\ Range(s) = {s[k] : k \in 1..l}
  BY <1>2 DEF Range
<1> QED BY <1>1, <1>3 DEF GoesOn

\* A page by its number goes on where the last ended, while nothing changes.
LEMMA NumberKeeps == ASSUME WInv, ReadsOffsetPage PROVE WInv'
<1> DEFINE T == TransferList
<1>1. /\ clock' = clock /\ shelf' = shelf /\ ShelfOK(shelf, clock) /\ clock \in Nat
      /\ walk \in Walk /\ walk.at = "walking" /\ walk.kind = "offset" /\ walk.limit \in Nat \ {0}
  BY DEF ReadsOffsetPage, WInv, ShelfOK, Walk
<1>2. /\ T \in Seq(Item) /\ Len(T) \in Nat
      /\ \A j, k \in 1..Len(T) : T[j].id = T[k].id => j = k
  BY <1>1, TransferListShows DEF Shows
<1>3. TransferList' = TransferList
  BY <1>1, SameShelf
<1> HIDE DEF T
<1>4. PICK n \in Nat : n = Len(T)
  BY <1>2
<1>5. PICK off \in Nat, limit \in Nat \ {0} : off = walk.offset /\ limit = walk.limit
  BY <1>1 DEF Walk
<1>6. PICK b \in Nat : b = IF off + limit <= n THEN off + limit ELSE n
  OBVIOUS
<1>7. Min({off + limit, n}) = b
  <2>1. off + limit \in Nat
    OBVIOUS
  <2> QED BY <2>1, <1>6, MinOfTwo
<1>8. PICK items : items = SubSeq(T, off + 1, b)
  OBVIOUS
<1>9. PICK m \in Nat : m = IF off >= b THEN 0 ELSE b - off
  OBVIOUS
<1>10. items \in Seq(Item) /\ Len(items) = m
  BY <1>2, <1>4, <1>6, <1>8, <1>9
<1>11. \A k \in 1..m : items[k] = T[off + k] /\ off + k \in 1..n
  BY <1>2, <1>4, <1>6, <1>8, <1>9
<1>12. PICK ids : ids = IdsOf(items)
  OBVIOUS
<1>13. ids \in Seq(Id) /\ Len(ids) = m /\ \A k \in 1..m : ids[k] = T[off + k].id
  <2>1. ids = [k \in 1..m |-> items[k].id]
    BY <1>10, <1>12 DEF IdsOf
  <2>2. \A k \in 1..m : items[k].id \in Id
    <3>1. \A k \in 1..m : items[k] \in Item
      BY <1>10
    <3> QED BY <3>1 DEF Item
  <2>3. ids \in [1..m -> Id] /\ \A k \in 1..m : ids[k] = items[k].id
    BY <2>1, <2>2
  <2> QED BY <2>3, <1>11
<1>14. PICK l \in Nat : l = Len(walk.seen)
  BY <1>1 DEF Walk
<1>15. PICK seen : seen = walk.seen \o ids
  OBVIOUS
<1>16. /\ seen \in Seq(Id) /\ Len(seen) = l + m
       /\ \A k \in 1..l + m : seen[k] = IF k <= l THEN walk.seen[k] ELSE ids[k - l]
       /\ Range(seen) = {seen[k] : k \in 1..l + m}
  <2>1. PICK was \in Seq(Id) : was = walk.seen
    BY <1>1 DEF Walk
  <2>2. l = Len(was) /\ m = Len(ids) /\ seen = was \o ids /\ ids \in Seq(Id)
    BY <1>13, <1>14, <1>15, <2>1
  <2>3. GoesOn(seen, was, ids, l, m)
    BY <2>2, SeesMore
  <2> QED BY <2>1, <2>3 DEF GoesOn
<1>17. PICK at \in {"walking", "ended"} : at = IF off + limit >= n THEN "ended" ELSE "walking"
  OBVIOUS
<1>18. walk' = [walk EXCEPT !.seen = seen, !.offset = off + limit, !.at = at]
  BY <1>4, <1>5, <1>7, <1>8, <1>12, <1>15, <1>17 DEF ReadsOffsetPage, OffsetPage, T
<1>19. /\ walk' \in Walk /\ walk'.seen = seen /\ walk'.offset = off + limit /\ walk'.at = at
       /\ walk'.kind = "offset" /\ walk'.limit = limit /\ walk'.quiet = walk.quiet /\ walk'.stayed = walk.stayed
  <2>1. PICK to \in Nat : to = off + limit
    OBVIOUS
  <2>2. walk' = [walk EXCEPT !.seen = seen, !.offset = to, !.at = at] /\ seen \in Seq(Id)
    BY <1>16, <1>18, <2>1
  <2>3. walk' \in Walk
    BY <1>1, <2>2 DEF Walk
  <2> QED BY <1>1, <1>5, <2>1, <2>2 DEF Walk
<1>20. PICK all : all = IdsOf(T)
  OBVIOUS
<1>21. /\ Len(all) = n /\ Range(all) = {all[k] : k \in 1..n}
       /\ \A k \in 1..n : all[k] = T[k].id
  <2>1. all = [k \in 1..n |-> T[k].id]
    BY <1>2, <1>4, <1>20 DEF IdsOf
  <2> QED BY <2>1 DEF Range
<1>22. ASSUME walk.quiet
       PROVE  /\ l = off /\ off <= n /\ walk.stayed = Range(all)
              /\ \A k \in 1..l + m : seen[k] = all[k] /\ k \in 1..n
  <2>1. /\ walk.stayed = Range(all) /\ l = off /\ off <= n
        /\ \A k \in 1..l : walk.seen[k] = all[k]
    BY <1>1, <1>5, <1>14, <1>20, <1>21, <1>22 DEF WInv, ByNumber, T
  <2>2. ASSUME NEW k \in 1..l + m PROVE seen[k] = all[k] /\ k \in 1..n
    <3>1. CASE k <= l
      BY <1>16, <2>1, <3>1
    <3>2. CASE ~(k <= l)
      <4>1. k - l \in 1..m /\ off + (k - l) = k
        BY <2>1, <3>2
      <4>2. seen[k] = ids[k - l]
        BY <1>16, <3>2
      <4>3. ids[k - l] = T[off + (k - l)].id /\ off + (k - l) \in 1..n
        BY <1>11, <1>13, <4>1
      <4> QED BY <1>21, <4>1, <4>2, <4>3
    <3> QED BY <3>1, <3>2
  <2> QED BY <2>1, <2>2
<1>23. ByNumber(walk', all)
  <2> SUFFICES ASSUME at = "walking", walk.quiet PROVE ByNumber(walk', all)
    BY <1>19 DEF ByNumber
  <2>1. ~(off + limit >= n)
    BY <1>17
  <2>2. m = limit /\ l + m = off + limit /\ off + limit <= n
    BY <2>1, <1>6, <1>9, <1>22
  <2> QED BY <1>16, <1>19, <1>21, <1>22, <2>2 DEF ByNumber
<1>24. WalkExact'
  <2> SUFFICES ASSUME at = "ended", walk.quiet PROVE IsInjective(seen) /\ walk.stayed \subseteq Range(seen)
    BY <1>19 DEF WalkExact
  <2>1. off + limit >= n
    BY <1>17
  <2>2. b = n /\ l + m = n
    BY <2>1, <1>6, <1>9, <1>22
  <2>3. \A k \in 1..n : seen[k] = T[k].id /\ seen[k] = all[k]
    BY <1>21, <1>22, <2>2
  <2>4. DOMAIN seen = 1..n
    BY <1>16, <2>2
  <2>5. IsInjective(seen)
    BY <1>2, <1>4, <2>3, <2>4 DEF IsInjective
  <2>6. Range(all) \subseteq Range(seen)
    BY <1>16, <1>21, <2>2, <2>3
  <2> QED BY <2>5, <2>6, <1>22
<1>25. ByCursor(walk', shelf, clock)
  BY <1>19 DEF ByCursor
<1>26. IdsOf(TransferList)' = all
  BY <1>3, <1>20 DEF IdsOf, T
<1> QED BY <1>1, <1>19, <1>23, <1>24, <1>25, <1>26 DEF WInv

\* A page by its cursor goes on behind what was seen, whatever changes.
LEMMA CursorKeeps == ASSUME WInv, ReadsCursorPage PROVE WInv'
<1>1. /\ clock' = clock /\ shelf' = shelf /\ ShelfOK(shelf, clock) /\ clock \in Nat
      /\ walk \in Walk /\ walk.at = "walking" /\ walk.kind = "cursor" /\ walk.limit \in Nat \ {0}
  BY DEF ReadsCursorPage, WInv, ShelfOK, Walk
<1>2. PICK cursor \in [added : Nat, id : Nat], limit \in Nat \ {0}, was \in Seq(Id) :
        cursor = walk.cursor /\ limit = walk.limit /\ was = walk.seen
  BY <1>1 DEF Walk
<1>3. PICK o : o = NewestFirst(Behindhand(cursor))
  OBVIOUS
<1>4. /\ Follows(o, cursor) /\ o \in Seq(Item) /\ Len(o) \in Nat
  <2>1. Follows(o, cursor)
    BY <1>1, <1>3, NewestFirstFollows
  <2> QED BY <2>1 DEF Follows
<1>5. PICK n \in Nat : n = Len(o)
  BY <1>4
<1>6. /\ \A k \in 1..n : \E i \in 1..Len(shelf) : o[k] = shelf[i]
      /\ \A k \in 1..n : o[k] \in Item /\ After(o[k], cursor) /\ o[k].added \in 1..clock
                         /\ o[k].added \in Nat \ {0} /\ o[k].id \in Id /\ o[k].id \in Nat
      /\ \A i \in 1..Len(shelf) : Shown(shelf[i]) /\ After(shelf[i], cursor) => \E k \in 1..n : o[k] = shelf[i]
      /\ \A j, k \in 1..n : j < k => Newer(o[j], o[k])
  <2>1. /\ \A k \in 1..n : (\E i \in 1..Len(shelf) : o[k] = shelf[i]) /\ After(o[k], cursor)
        /\ \A i \in 1..Len(shelf) : Shown(shelf[i]) /\ After(shelf[i], cursor) => \E k \in 1..n : o[k] = shelf[i]
        /\ \A j, k \in 1..n : j < k => Newer(o[j], o[k])
    BY <1>4, <1>5 DEF Follows
  <2>2. \A k \in 1..n : o[k] \in Item
    BY <1>4, <1>5
  <2>3. \A k \in 1..n : o[k].added \in 1..clock
    BY <1>1, <2>1 DEF ShelfOK
  <2>4. \A k \in 1..n : o[k].added \in Nat \ {0}
    BY <1>1, <2>3
  <2>5. \A k \in 1..n : o[k].id \in Id
    BY <2>2 DEF Item
  <2>6. \A k \in 1..n : o[k].id \in Nat
    BY <2>5, ListingAssumption
  <2> QED BY <2>1, <2>2, <2>3, <2>4, <2>5, <2>6
<1>7. PICK m \in Nat : m = IF limit <= n THEN limit ELSE n
  OBVIOUS
<1>8. Min({limit, n}) = m
  BY <1>7, MinOfTwo
<1>9. PICK items : items = SubSeq(o, 1, m)
  OBVIOUS
<1>10. items \in Seq(Item) /\ Len(items) = m /\ \A k \in 1..m : items[k] = o[k]
  BY <1>4, <1>5, <1>7, <1>9
<1>11. PICK ids : ids = IdsOf(items)
  OBVIOUS
<1>12. ids \in Seq(Id) /\ Len(ids) = m /\ \A k \in 1..m : ids[k] = o[k].id /\ k \in 1..n
  <2>1. ids = [k \in 1..m |-> items[k].id]
    BY <1>10, <1>11 DEF IdsOf
  <2>2. \A k \in 1..m : k \in 1..n
    BY <1>7
  <2>3. \A k \in 1..m : items[k].id \in Id /\ items[k].id = o[k].id
    BY <1>6, <1>10, <2>2
  <2>4. ids \in [1..m -> Id] /\ \A k \in 1..m : ids[k] = items[k].id
    BY <2>1, <2>3
  <2>5. ids \in Seq(Id) /\ Len(ids) = m
    BY <1>7, <2>4
  <2> QED BY <2>2, <2>3, <2>4, <2>5, Zenon
<1>13. PICK l \in Nat : l = Len(was)
  BY <1>2
<1>14. PICK seen : seen = was \o ids
  OBVIOUS
<1>15. GoesOn(seen, was, ids, l, m)
  BY <1>12, <1>13, <1>14, SeesMore
<1>16. /\ seen \in Seq(Id) /\ Len(seen) = l + m
       /\ \A k \in 1..l + m : seen[k] = IF k <= l THEN was[k] ELSE ids[k - l]
       /\ Range(seen) = {seen[k] : k \in 1..l + m}
       /\ Range(was) = {was[k] : k \in 1..l}
  BY <1>15 DEF GoesOn
<1>17. \A k \in 1..l + m : \/ k \in 1..l /\ seen[k] = was[k]
                           \/ k - l \in 1..m /\ seen[k] = o[k - l].id
  <2> SUFFICES ASSUME NEW k \in 1..l + m
               PROVE  \/ k \in 1..l /\ seen[k] = was[k]
                      \/ k - l \in 1..m /\ seen[k] = o[k - l].id
    OBVIOUS
  <2>1. k \in 1..l \/ (~(k <= l) /\ k - l \in 1..m)
    OBVIOUS
  <2> QED BY <2>1, <1>12, <1>16
<1>18. /\ \A k \in 1..l : was[k] \in Range(seen)
       /\ \A k \in 1..m : o[k].id \in Range(seen)
  <2>1. ASSUME NEW k \in 1..l PROVE was[k] \in Range(seen)
    <3>1. k \in 1..l + m /\ seen[k] = was[k]
      BY <1>16
    <3> QED BY <3>1, <1>16
  <2>2. ASSUME NEW k \in 1..m PROVE o[k].id \in Range(seen)
    <3>1. l + k \in 1..l + m /\ ~(l + k <= l) /\ (l + k) - l = k
      OBVIOUS
    <3>2. seen[l + k] = o[k].id
      BY <3>1, <1>12, <1>16
    <3> QED BY <3>1, <3>2, <1>16
  <2> QED BY <2>1, <2>2
\* What was known of the walk.
<1>19. /\ cursor = NoCursor => l = 0
       /\ cursor.added <= clock
       /\ \A k \in 1..l : cursor.added < clock \/ was[k] <= cursor.id
       /\ \A k \in 1..l, i \in 1..Len(shelf) : was[k] = shelf[i].id => ~After(shelf[i], cursor)
       /\ \A id \in walk.stayed : \E i \in 1..Len(shelf) :
            shelf[i].id = id /\ Shown(shelf[i]) /\ (id \in Range(was) \/ After(shelf[i], cursor))
       /\ \A j, k \in 1..l : was[j] = was[k] => j = k
  <2>1. ByCursor(walk, shelf, clock)
    BY DEF WInv
  <2>2. DOMAIN was = 1..l
    BY <1>2, <1>13
  <2>3. cursor = NoCursor => was = <<>>
    BY <1>1, <1>2, <2>1 DEF ByCursor
  <2>4. was = <<>> => l = 0
    BY <1>13
  <2>5. /\ cursor.added <= clock
        /\ \A k \in 1..l : cursor.added < clock \/ was[k] <= cursor.id
        /\ \A k \in 1..l, i \in 1..Len(shelf) : was[k] = shelf[i].id => ~After(shelf[i], cursor)
        /\ \A id \in walk.stayed : \E i \in 1..Len(shelf) :
             shelf[i].id = id /\ Shown(shelf[i]) /\ (id \in Range(was) \/ After(shelf[i], cursor))
        /\ IsInjective(was)
    BY <1>1, <1>2, <1>13, <2>1 DEF ByCursor
  <2> QED BY <2>2, <2>3, <2>4, <2>5 DEF IsInjective
<1>20. \A j, k \in 1..l + m : seen[j] = seen[k] => j = k
  <2>1. ASSUME NEW j \in 1..l, NEW k \in 1..m PROVE was[j] # o[k].id
    <3>1. PICK i \in 1..Len(shelf) : o[k] = shelf[i]
      BY <1>6, <1>12
    <3>2. After(shelf[i], cursor)
      BY <1>6, <1>12, <3>1
    <3> QED BY <1>19, <3>1, <3>2
  <2>2. ASSUME NEW j \in 1..m, NEW k \in 1..m, o[j].id = o[k].id PROVE j = k
    <3>1. \A a, b \in 1..n : a < b => o[a].id # o[b].id
      <4> SUFFICES ASSUME NEW a \in 1..n, NEW b \in 1..n, a < b, o[a].id = o[b].id PROVE FALSE
        OBVIOUS
      <4>1. PICK h \in 1..Len(shelf) : o[a] = shelf[h]
        BY <1>6
      <4>2. PICK i \in 1..Len(shelf) : o[b] = shelf[i]
        BY <1>6
      <4>3. h = i
        BY <1>1, <4>1, <4>2 DEF ShelfOK
      <4>4. Newer(o[a], o[b]) /\ o[a] = o[b]
        BY <1>6, <4>1, <4>2, <4>3
      <4>5. o[a].added \in Nat /\ o[a].id \in Nat
        BY <1>6
      <4> QED BY <4>4, <4>5 DEF Newer
    <3> QED BY <1>12, <2>2, <3>1
  <2> SUFFICES ASSUME NEW j \in 1..l + m, NEW k \in 1..l + m, seen[j] = seen[k] PROVE j = k
    OBVIOUS
  <2>3. CASE j \in 1..l /\ k \in 1..l /\ seen[j] = was[j] /\ seen[k] = was[k]
    BY <1>19, <2>3
  <2>4. CASE j \in 1..l /\ k - l \in 1..m /\ seen[j] = was[j] /\ seen[k] = o[k - l].id
    BY <2>1, <2>4
  <2>5. CASE j - l \in 1..m /\ k \in 1..l /\ seen[j] = o[j - l].id /\ seen[k] = was[k]
    BY <2>1, <2>5
  <2>6. CASE j - l \in 1..m /\ k - l \in 1..m /\ seen[j] = o[j - l].id /\ seen[k] = o[k - l].id
    <3>1. j - l = k - l
      BY <2>2, <2>6
    <3> QED BY <3>1
  <2> QED BY <1>17, <2>3, <2>4, <2>5, <2>6
<1>21. IsInjective(seen)
  <2>1. DOMAIN seen = 1..l + m
    BY <1>16
  <2> QED BY <2>1, <1>20 DEF IsInjective
\* The next cursor, and the walk with it.
<1>22. PICK next \in [added : Nat, id : Nat] :
         next = IF m = limit /\ n > limit THEN [added |-> o[m].added, id |-> o[m].id] ELSE NoCursor
  <2>1. m = limit => m \in 1..n \/ ~(n > limit)
    BY <1>7
  <2>2. NoCursor \in [added : Nat, id : Nat]
    BY DEF NoCursor
  <2> QED BY <2>1, <2>2, <1>6
<1>23. m = limit /\ n > limit => m \in 1..n /\ next.added = o[m].added /\ next.id = o[m].id /\ next # NoCursor
  <2>1. NoCursor.added = 0
    BY DEF NoCursor
  <2>2. ASSUME m = limit, n > limit
        PROVE  m \in 1..n /\ next.added = o[m].added /\ next.id = o[m].id
    BY <1>22, <2>2
  <2> QED BY <2>1, <2>2, <1>6
<1>24. PICK at \in {"walking", "ended"} : at = IF next = NoCursor THEN "ended" ELSE "walking"
  OBVIOUS
<1>25. walk' = [walk EXCEPT !.seen = seen, !.cursor = next, !.at = at]
  <2>1. CursorPage(cursor, limit) = [items |-> items, next |-> next]
    <3>1. m > 0 => Last(items) = o[m]
      BY <1>10 DEF Last
    <3>2. m = limit => m > 0
      OBVIOUS
    <3>3. next = IF m = limit /\ n > limit THEN [added |-> Last(items).added, id |-> Last(items).id] ELSE NoCursor
      BY <1>22, <3>1, <3>2
    <3>4. NewestFirst({item \in Range(TransferList) : After(item, cursor)}) = o
      BY <1>3 DEF Behindhand
    <3> QED BY <1>5, <1>8, <1>9, <1>10, <3>3, <3>4 DEF CursorPage
  <2>2. CursorPage(walk.cursor, walk.limit) = [items |-> items, next |-> next]
    BY <1>2, <2>1
  <2>3. walk' = [walk EXCEPT !.seen = walk.seen \o IdsOf(items), !.cursor = next,
                             !.at = IF next = NoCursor THEN "ended" ELSE "walking"]
    BY <2>2 DEF ReadsCursorPage
  <2> QED BY <2>3, <1>2, <1>11, <1>14, <1>24
<1>26. /\ walk' \in Walk /\ walk'.seen = seen /\ walk'.cursor = next /\ walk'.at = at
       /\ walk'.kind = "cursor" /\ walk'.limit = limit /\ walk'.stayed = walk.stayed
  <2>1. walk' \in Walk
    BY <1>1, <1>16, <1>25 DEF Walk
  <2>2. /\ walk'.seen = seen /\ walk'.cursor = next /\ walk'.at = at
        /\ walk'.kind = walk.kind /\ walk'.limit = walk.limit /\ walk'.stayed = walk.stayed
    BY <1>1, <1>25 DEF Walk
  <2> QED BY <1>1, <1>2, <2>1, <2>2
<1>27. ByNumber(walk', IdsOf(TransferList)')
  BY <1>26 DEF ByNumber
\* There is more: the last of the page is the cursor.
<1>28. ByCursor(walk', shelf, clock)
  <2> SUFFICES ASSUME at = "walking" PROVE ByCursor(walk', shelf, clock)
    BY <1>26 DEF ByCursor
  <2>1. m = limit /\ n > limit
    BY <1>22, <1>24
  <2>2. PICK last \in Item : last = o[m]
    BY <1>6, <1>23, <2>1
  <2>3. /\ m \in 1..n /\ next.added = last.added /\ next.id = last.id /\ next # NoCursor
        /\ After(last, cursor) /\ last.added \in 1..clock /\ last.added \in Nat /\ last.id \in Nat
    BY <1>6, <1>23, <2>1, <2>2
  <2>4. cursor = NoCursor \/ cursor.added > last.added \/ (cursor.added = last.added /\ cursor.id < last.id)
    BY <2>3 DEF After, Newer
  <2>5. cursor.added \in Nat /\ cursor.id \in Nat
    OBVIOUS
  <2>6. ASSUME NEW k \in 1..m PROVE o[k] = last \/ Newer(o[k], last)
    <3>1. k = m \/ k < m
      OBVIOUS
    <3>2. k \in 1..n
      BY <1>12
    <3> QED BY <3>1, <3>2, <2>2, <2>3, <1>6
  <2>7. next.added <= clock
    BY <2>3, <1>1
  <2>8. ASSUME NEW k \in 1..l + m PROVE next.added < clock \/ seen[k] <= next.id
    <3>1. CASE k \in 1..l /\ seen[k] = was[k]
      <4>1. cursor # NoCursor
        BY <1>19, <3>1
      <4>2. was[k] \in Nat
        <5>1. was[k] \in Id
          BY <1>13, <3>1
        <5> QED BY <5>1, ListingAssumption
      <4>3. cursor.added <= clock /\ (cursor.added < clock \/ was[k] <= cursor.id)
        BY <1>19, <3>1
      <4> QED BY <1>1, <2>3, <2>4, <2>5, <3>1, <4>1, <4>2, <4>3
    <3>2. CASE k - l \in 1..m /\ seen[k] = o[k - l].id
      <4>1. PICK h \in 1..m : h = k - l
        BY <3>2
      <4>2. o[h].added \in 1..clock /\ o[h].added \in Nat /\ o[h].id \in Nat
        BY <1>6, <1>12
      <4>3. o[h] = last \/ o[h].added > last.added \/ (o[h].added = last.added /\ o[h].id < last.id)
        BY <2>6 DEF Newer
      <4> QED BY <1>1, <2>3, <3>2, <4>1, <4>2, <4>3
    <3> QED BY <1>17, <3>1, <3>2
  <2>9. ASSUME NEW k \in 1..l + m, NEW i \in 1..Len(shelf), seen[k] = shelf[i].id
        PROVE  ~After(shelf[i], next)
    <3>1. shelf[i].added \in Nat /\ shelf[i].id \in Nat
      <4>1. shelf[i] \in Item
        BY <1>1 DEF ShelfOK
      <4> QED BY <4>1, ListingAssumption DEF Item
    <3>2. SUFFICES ~Newer(next, shelf[i])
      BY <2>3 DEF After
    <3>3. CASE k \in 1..l /\ seen[k] = was[k]
      <4>1. cursor # NoCursor
        BY <1>19, <3>3
      <4>2. ~After(shelf[i], cursor)
        BY <1>19, <2>9, <3>3
      <4>3. ~(cursor.added > shelf[i].added \/ (cursor.added = shelf[i].added /\ cursor.id < shelf[i].id))
        BY <4>2 DEF After, Newer
      <4>4. ~(last.added > shelf[i].added \/ (last.added = shelf[i].added /\ last.id < shelf[i].id))
        BY <2>3, <2>4, <2>5, <3>1, <4>1, <4>3
      <4> QED BY <2>3, <4>4 DEF Newer
    <3>4. CASE k - l \in 1..m /\ seen[k] = o[k - l].id
      <4>1. PICK h \in 1..m : h = k - l
        BY <3>4
      <4>2. PICK j \in 1..Len(shelf) : o[h] = shelf[j]
        BY <1>6, <1>12
      <4>3. j = i
        BY <1>1, <2>9, <3>4, <4>1, <4>2 DEF ShelfOK
      <4>4. o[h] = last \/ o[h].added > last.added \/ (o[h].added = last.added /\ o[h].id < last.id)
        BY <2>6 DEF Newer
      <4>5. ~(last.added > shelf[i].added \/ (last.added = shelf[i].added /\ last.id < shelf[i].id))
        BY <2>3, <3>1, <4>2, <4>3, <4>4
      <4> QED BY <2>3, <4>5 DEF Newer
    <3> QED BY <1>17, <3>3, <3>4
  <2>10. ASSUME NEW id \in walk.stayed
         PROVE  \E i \in 1..Len(shelf) : /\ shelf[i].id = id /\ Shown(shelf[i])
                                         /\ id \in Range(seen) \/ After(shelf[i], next)
    <3>1. PICK i \in 1..Len(shelf) : /\ shelf[i].id = id /\ Shown(shelf[i])
                                     /\ id \in Range(was) \/ After(shelf[i], cursor)
      BY <1>19
    <3>2. CASE id \in Range(was)
      <4>1. PICK k \in 1..l : id = was[k]
        BY <3>2, <1>16
      <4> QED BY <3>1, <4>1, <1>18
    <3>3. CASE After(shelf[i], cursor)
      <4>1. PICK k \in 1..n : o[k] = shelf[i]
        BY <1>6, <3>1, <3>3
      <4>2. CASE k \in 1..m
        BY <3>1, <4>1, <4>2, <1>18
      <4>3. CASE m < k
        <5>1. Newer(last, shelf[i])
          BY <1>6, <2>2, <2>3, <4>1, <4>3
        <5>2. After(shelf[i], next)
          BY <2>3, <5>1 DEF After, Newer
        <5> QED BY <3>1, <5>2
      <4>4. k \in 1..m \/ m < k
        OBVIOUS
      <4> QED BY <4>2, <4>3, <4>4
    <3> QED BY <3>1, <3>2, <3>3
  <2> QED BY <1>16, <1>21, <1>26, <2>3, <2>7, <2>8, <2>9, <2>10 DEF ByCursor
\* There is no more: all of what stayed was seen.
<1>29. WalkExact'
  <2> SUFFICES ASSUME at = "ended" PROVE IsInjective(seen) /\ walk.stayed \subseteq Range(seen)
    BY <1>26 DEF WalkExact
  <2>1. ~(m = limit /\ n > limit)
    BY <1>23, <1>24
  <2>2. m = n
    BY <1>7, <2>1
  <2>3. ASSUME NEW id \in walk.stayed PROVE id \in Range(seen)
    <3>1. PICK i \in 1..Len(shelf) : /\ shelf[i].id = id /\ Shown(shelf[i])
                                     /\ id \in Range(was) \/ After(shelf[i], cursor)
      BY <1>19
    <3>2. CASE id \in Range(was)
      <4>1. PICK k \in 1..l : id = was[k]
        BY <3>2, <1>16
      <4> QED BY <4>1, <1>18
    <3>3. CASE After(shelf[i], cursor)
      <4>1. PICK k \in 1..n : o[k] = shelf[i]
        BY <1>6, <3>1, <3>3
      <4> QED BY <2>2, <3>1, <4>1, <1>18
    <3> QED BY <3>1, <3>2, <3>3
  <2> QED BY <1>21, <2>3
<1> QED BY <1>1, <1>26, <1>27, <1>28, <1>29 DEF WInv
-----------------------------------------------------------------------------
\* At first the shelf is bare.
LEMMA ListingBegins == ListingInit => WInv
<1> SUFFICES ASSUME ListingInit PROVE WInv
  OBVIOUS
<1>1. shelf = <<>> /\ clock = 1 /\ walk = NoWalk /\ NoWalk.at = "idle" /\ Len(shelf) = 0
  BY DEF ListingInit, NoWalk
<1>2. ShelfOK(shelf, clock)
  BY <1>1 DEF ShelfOK
<1>3. NoWalk \in Walk
  BY DEF NoWalk, NoCursor, Walk
<1> QED BY <1>1, <1>2, <1>3 DEF WInv, ByCursor, ByNumber, WalkExact

\* All of it together.
LEMMA ListingInductive == WInv /\ [ListingNext]_listingVars => WInv'
<1> SUFFICES ASSUME WInv, [ListingNext]_listingVars PROVE WInv'
  OBVIOUS
<1>1. ASSUME NEW id \in Id, NEW name \in Name, NEW life \in Life, Upserts(id, name, life) PROVE WInv'
  BY <1>1, UpsertsKeep
<1>2. ASSUME NEW id \in Id, Unshelves(id) PROVE WInv'
  BY <1>2, UnshelvesKeep
<1>3. ASSUME NEW id \in Id, NEW path \in Path, Completes(id, path) PROVE WInv'
  BY <1>3, CompletesKeep
<1>4. ASSUME NEW kind \in {"cursor", "offset"}, NEW limit \in PageSize, BeginsWalk(kind, limit) PROVE WInv'
  BY <1>4, BeginsKeep
<1>5. CASE ReadsCursorPage
  BY <1>5, CursorKeeps
<1>6. CASE ReadsOffsetPage
  BY <1>6, NumberKeeps
<1>7. CASE EndsWalk
  BY <1>7, EndsKeep
<1>8. CASE ClockTicks
  BY <1>8, TicksKeep
<1>9. CASE UNCHANGED listingVars
  BY <1>9, SameShelf DEF WInv, WalkExact, IdsOf, listingVars
<1> QED BY <1>1, <1>2, <1>3, <1>4, <1>5, <1>6, <1>7, <1>8, <1>9 DEF ListingNext

\* A walk of the list by cursor sees every title that stayed in it all the while, and none
\* twice, whatever is added, changed or removed between its pages; one by page number does
\* so while nothing changes (WalkExact; sqlite/downloads.ts, api/v1/routes.ts).
THEOREM WalksAreExact == ListingSpec => []WalkExact
<1>1. WInv => WalkExact
  BY DEF WInv
<1> QED BY <1>1, ListingBegins, ListingInductive, PTL DEF ListingSpec
-----------------------------------------------------------------------------
\* The mount.

\* A set of numbers that is not empty has a least one.
LEMMA LeastOf ==
  ASSUME NEW T, T \subseteq Nat, T # {}
  PROVE  \E x \in T : \A y \in T : x <= y
<1>1. IsWellFoundedOn({ss \in Nat \X Nat : ss[1] < ss[2]}, Nat)
  BY NatLessThanWellFounded DEF OpToRel
<1>2. PICK Q : Q = {ss \in Nat \X Nat : ss[1] < ss[2]}
  OBVIOUS
<1>3. PICK x \in T : \A y \in T : ~ (<<y, x>> \in Q)
  BY <1>1, <1>2, WFMin, Zenon
<1>4. ASSUME NEW y \in T PROVE x <= y
  <2>1. <<y, x>> \in Nat \X Nat /\ <<y, x>>[1] = y /\ <<y, x>>[2] = x
    OBVIOUS
  <2>2. ~(y < x)
    BY <1>2, <1>3, <2>1
  <2> QED BY <2>2
<1> QED BY <1>4

\* f gives the first n folders their names.
Names(f, n) == /\ f = [i \in 1..n |-> f[i]]
               /\ \A i \in 1..n : f[i] = SlugOf(Folders[i], {f[j] : j \in 1..i - 1})

\* However many there are, they have names: one more folder has one.
LEMMA NamesExist == \A n \in Nat : \E f : Names(f, n)
<1> DEFINE T == {n \in Nat : ~ \E f : Names(f, n)}
<1> SUFFICES T = {}
  OBVIOUS
<1>1. SUFFICES ASSUME T # {} PROVE FALSE
  OBVIOUS
<1>2. PICK n \in T : \A m \in T : n <= m
  <2> HIDE DEF T
  <2>1. T \subseteq Nat
    BY DEF T
  <2> QED BY <1>1, <2>1, LeastOf
<1>3. n # 0
  <2>1. Names([i \in 1..0 |-> 0], 0)
    BY DEF Names
  <2> QED BY <2>1
<1>4. PICK m \in Nat : n = m + 1
  <2>1. n \in Nat /\ n - 1 \in Nat /\ n = n - 1 + 1
    BY <1>3
  <2> QED BY <2>1
<1>5. PICK f : Names(f, m)
  <2>1. m \notin T
    BY <1>2, <1>4
  <2> QED BY <2>1
<1>6. PICK last : last = SlugOf(Folders[n], {f[j] : j \in 1..m})
  OBVIOUS
<1>7. PICK g : g = [i \in 1..n |-> IF i = n THEN last ELSE f[i]]
  OBVIOUS
<1>8. g = [i \in 1..n |-> g[i]] /\ g[n] = last /\ \A i \in 1..m : g[i] = f[i]
  BY <1>4, <1>7
<1>9. ASSUME NEW i \in 1..n PROVE g[i] = SlugOf(Folders[i], {g[j] : j \in 1..i - 1})
  <2>1. {g[j] : j \in 1..i - 1} = {f[j] : j \in 1..i - 1}
    <3>1. \A j \in 1..i - 1 : j \in 1..m
      BY <1>4
    <3>2. \A j \in 1..i - 1 : g[j] = f[j]
      BY <1>8, <3>1
    <3> QED BY <3>2
  <2>2. CASE i = n
    <3>1. i - 1 = m
      BY <1>4, <2>2
    <3> QED BY <1>6, <1>8, <2>1, <2>2, <3>1
  <2>3. CASE i \in 1..m
    BY <1>5, <1>8, <2>1, <2>3 DEF Names
  <2> QED BY <1>4, <2>2, <2>3
<1>10. Names(g, n)
  BY <1>8, <1>9 DEF Names
<1> QED BY <1>10

\* The names are what the recursion says.
LEMMA SlugsName ==
  ASSUME NEW n \in Nat, DOMAIN Folders = 1..n
  PROVE  Names(Slugs, n)
<1> DEFINE Is(g) == g = [i \in DOMAIN Folders |-> SlugOf(Folders[i], {g[j] : j \in 1..i - 1})]
<1>1. PICK f : Names(f, n)
  BY NamesExist
<1>2. Is(f)
  BY <1>1 DEF Names
<1>3. Slugs = CHOOSE g : Is(g)
  BY DEF Slugs
<1> HIDE DEF Is
<1>4. Is(Slugs)
  BY <1>2, <1>3
<1> QED BY <1>4 DEF Names, Is

\* The three names a folder may have.
LEMMA SlugIs ==
  ASSUME NEW item \in Item, NEW taken
  PROVE  \/ SlugOf(item, taken) \notin taken
            /\ SlugOf(item, taken) \in {item.name, Append(item.name, ShortId[item.id])}
         \/ SlugOf(item, taken) = Append(item.name, item.id)
BY DEF SlugOf

\* Names and words put to them.
LEMMA Appended ==
  ASSUME NEW a \in Seq(Word), NEW b \in Seq(Word), NEW x \in Word, NEW y \in Word, Append(a, x) = Append(b, y)
  PROVE  x = y
BY AppendInjective

\* Whatever torrents are called, no two folders have the same name.
LEMMA SlugsDiffer ==
  ASSUME ShelfOK(shelf, clock), NEW n \in Nat, DOMAIN Folders = 1..n,
         NEW i \in 1..n, NEW j \in 1..i - 1
  PROVE  Slugs[i] # Slugs[j] /\ j \in 1..n
<1> SUFFICES ASSUME Slugs[i] = Slugs[j] PROVE FALSE
  OBVIOUS
<1>1. j \in 1..n /\ i # j
  OBVIOUS
<1>2. Shows(Folders, {k \in 1..Len(shelf) : shelf[k].life = "managed"})
  <2>1. DOMAIN shelf = 1..Len(shelf)
    BY DEF ShelfOK
  <2>2. PICK stands : stands = {k \in 1..Len(shelf) : shelf[k].life = "managed"}
    OBVIOUS
  <2>3. Folders = Newest(stands) /\ stands \in SUBSET (1..Len(shelf))
    BY <2>1, <2>2 DEF Folders
  <2> QED BY <2>2, <2>3, NewestShows
<1>3. Folders \in Seq(Item) /\ Len(Folders) = n
  BY <1>2 DEF Shows
<1>4. Folders[i].id # Folders[j].id
  BY <1>1, <1>2, <1>3 DEF Shows
<1>5. PICK f \in Item : f = Folders[i]
  BY <1>3
<1>6. PICK g \in Item : g = Folders[j]
  BY <1>1, <1>3
<1>7. /\ f.name \in Name /\ f.name \in Seq(Word) /\ f.id \in Id /\ f.id \in Word
      /\ g.name \in Name /\ g.name \in Seq(Word) /\ g.id \in Id /\ g.id \in Word
      /\ ShortId[g.id] \in Word /\ ShortId[g.id] \notin Id
  BY ListingAssumption DEF Item
<1>8. Names(Slugs, n)
  BY SlugsName
<1>9. PICK taken : taken = {Slugs[k] : k \in 1..i - 1}
  OBVIOUS
<1>10. Slugs[i] = SlugOf(f, taken) /\ Slugs[j] \in taken
  BY <1>5, <1>8, <1>9 DEF Names
<1>11. Slugs[i] = Append(f.name, f.id)
  BY <1>10, SlugIs
<1>12. Slugs[j] \in {g.name, Append(g.name, ShortId[g.id]), Append(g.name, g.id)}
  <2>1. Slugs[j] = SlugOf(g, {Slugs[k] : k \in 1..j - 1})
    BY <1>1, <1>6, <1>8 DEF Names
  <2> QED BY <2>1, SlugIs
<1>13. CASE Slugs[j] = g.name
  BY <1>7, <1>11, <1>13, ListingAssumption
<1>14. CASE Slugs[j] = Append(g.name, ShortId[g.id])
  BY <1>7, <1>11, <1>14, Appended
<1>15. CASE Slugs[j] = Append(g.name, g.id)
  <2>1. f.id = g.id
    BY <1>7, <1>11, <1>15, Appended
  <2> QED BY <2>1, <1>4, <1>5, <1>6
<1> QED BY <1>12, <1>13, <1>14, <1>15

\* The length of a sequence.
LEMMA LenIs == ASSUME NEW f, NEW n \in Nat, DOMAIN f = 1..n PROVE Len(f) = n
OBVIOUS

\* A folder's name leads back to it.
LEMMA FolderAtIs ==
  ASSUME ShelfOK(shelf, clock), NEW n \in Nat, DOMAIN Folders = 1..n, NEW i \in 1..n
  PROVE  FolderAt(Slugs[i]) = i
<1>1. DOMAIN Slugs = 1..n
  <2>1. Names(Slugs, n)
    BY SlugsName
  <2> QED BY <2>1 DEF Names
<1>2. PICK slug : slug = Slugs[i]
  OBVIOUS
<1>3. \A k \in 1..n : Slugs[k] = slug <=> k = i
  <2> SUFFICES ASSUME NEW k \in 1..n, Slugs[k] = slug, k # i PROVE FALSE
    BY <1>2
  <2>1. k \in 1..i - 1 \/ i \in 1..k - 1
    OBVIOUS
  <2> QED BY <2>1, <1>2, SlugsDiffer
<1>4. Len(Slugs) = n
  BY <1>1, LenIs
<1>5. {k \in 1..Len(Slugs) : Slugs[k] = slug} = {i}
  BY <1>3, <1>4
<1>6. FolderAt(slug) = IF {i} # {} THEN Min({i}) ELSE 0
  BY <1>5 DEF FolderAt, SelectInSeq
<1>7. Min({i}) = i
  <2>1. \E x \in {i} : \A y \in {i} : x <= y
    OBVIOUS
  <2> QED BY <2>1 DEF Min
<1> QED BY <1>2, <1>6, <1>7

\* The folder of the first n words of a path, and the word after them.
LEMMA FolderOnTheWay ==
  ASSUME NEW files \in SUBSET Path, Apart(files), NEW p \in files, NEW n \in 0..Len(p) - 1
  PROVE  /\ ResolveWithin(files, SubSeq(p, 1, n)) = "collection"
         /\ [name |-> p[n + 1], collection |-> n + 1 < Len(p)] \in ChildrenAt(files, SubSeq(p, 1, n))
<1>1. p \in Seq(STRING) /\ p # <<>> /\ Len(p) \in Nat /\ n \in Nat /\ n < Len(p)
  BY ListingAssumption
<1>2. PICK folder : folder = SubSeq(p, 1, n)
  OBVIOUS
<1>3. folder \in Seq(STRING) /\ Len(folder) = n
  BY <1>1, <1>2, SubSeqProperties
<1>4. SubSeq(folder, 1, Len(folder)) = folder
  BY <1>3, SubSeqFull
<1>5. IsPrefix(folder, p)
  BY <1>1, <1>2, <1>3, <1>4 DEF IsPrefix
<1>6. p \in Below(files, folder)
  BY <1>1, <1>3, <1>5 DEF Below
<1>7. folder \notin files
  BY <1>1, <1>3, <1>5 DEF Apart
<1>8. ResolveWithin(files, folder) = "collection"
  BY <1>6, <1>7 DEF ResolveWithin
<1>9. [name |-> p[n + 1], collection |-> Len(p) > n + 1] \in ChildrenAt(files, folder)
  BY <1>3, <1>6 DEF ChildrenAt
<1>10. (n + 1 < Len(p)) = (Len(p) > n + 1)
  BY <1>1
<1> QED BY <1>2, <1>8, <1>9, <1>10

\* Each folder of the mount has a name of its own that leads back to it, and every file in it
\* is found on its path and shown in every folder on the way (MountComplete; dav/tree.ts).
THEOREM MountsAreComplete == ListingSpec => []MountComplete
<1>1. WInv => MountComplete
  <2> SUFFICES ASSUME WInv, NEW i \in DOMAIN Folders
               PROVE  /\ FolderAt(Slugs[i]) = i
                      /\ \A p \in Folders[i].files :
                           /\ ResolveWithin(Folders[i].files, p) = "file"
                           /\ \A n \in 0..Len(p) - 1 :
                                /\ ResolveWithin(Folders[i].files, SubSeq(p, 1, n)) = "collection"
                                /\ [name |-> p[n + 1], collection |-> n + 1 < Len(p)]
                                     \in ChildrenAt(Folders[i].files, SubSeq(p, 1, n))
    BY DEF MountComplete
  <2>1. ShelfOK(shelf, clock)
    BY DEF WInv
  <2>2. PICK stands : stands = {k \in 1..Len(shelf) : shelf[k].life = "managed"}
    OBVIOUS
  <2>3. Shows(Folders, stands)
    <3>1. DOMAIN shelf = 1..Len(shelf)
      BY <2>1 DEF ShelfOK
    <3>2. Folders = Newest(stands) /\ stands \in SUBSET (1..Len(shelf))
      BY <2>2, <3>1 DEF Folders
    <3> QED BY <2>1, <3>2, NewestShows
  <2>4. PICK n \in Nat : n = Len(Folders) /\ DOMAIN Folders = 1..n /\ i \in 1..n
    BY <2>3 DEF Shows
  <2>5. FolderAt(Slugs[i]) = i
    BY <2>1, <2>4, FolderAtIs
  <2>6. PICK k \in 1..Len(shelf) : Folders[i] = shelf[k]
    BY <2>2, <2>3, <2>4 DEF Shows
  <2>7. PICK files : files = Folders[i].files
    OBVIOUS
  <2>8. files \in SUBSET Path /\ Apart(files)
    <3>1. shelf[k] \in Item
      BY <2>1 DEF ShelfOK
    <3> QED BY <2>1, <2>6, <2>7, <3>1 DEF ShelfOK, Item
  <2>9. ASSUME NEW p \in files PROVE ResolveWithin(files, p) = "file"
    <3>1. p # <<>>
      BY <2>8, ListingAssumption
    <3> QED BY <3>1 DEF ResolveWithin
  <2> QED BY <2>5, <2>7, <2>8, <2>9, FolderOnTheWay
<1> QED BY <1>1, ListingBegins, ListingInductive, PTL DEF ListingSpec
-----------------------------------------------------------------------------
\* The search.

\* What a source may be found to have, held to what it is to find.
Wanted == {Prefers[SourceOf(job)] : job \in Job}
Offer == [release : Release, preferred : Wanted]

AnswersOK(a) ==
  a \in [Job -> [state : {"pending", "answered", "failed"}, found : SeqOf(Release, MaxFound)]]

\* What a source finds is a place in its answer.
LEMMA FindsAre ==
  ASSUME AnswersOK(answer)
  PROVE  /\ IsFiniteSet(Finds)
         /\ \A x \in Finds : /\ x = <<x[1], x[2]>> /\ x[1] \in Job /\ x[1] \in Nat /\ x[2] \in Nat
                             /\ x[2] \in DOMAIN answer[x[1]].found
                             /\ CandidateAt(x) \in Offer
         /\ \A job \in Job : \A i \in DOMAIN answer[job].found : <<job, i>> \in Finds
<1>1. \A job \in Job : /\ job \in Nat
                       /\ answer[job].found \in SeqOf(Release, MaxFound)
  BY SearchAssumption DEF AnswersOK, Job
<1>2. \A job \in Job : /\ DOMAIN answer[job].found \subseteq 1..MaxFound
                       /\ \A i \in DOMAIN answer[job].found : answer[job].found[i] \in Release
  <2> SUFFICES ASSUME NEW job \in Job
               PROVE  /\ DOMAIN answer[job].found \subseteq 1..MaxFound
                      /\ \A i \in DOMAIN answer[job].found : answer[job].found[i] \in Release
    OBVIOUS
  <2>1. PICK m \in 0..MaxFound : answer[job].found \in [1..m -> Release]
    BY <1>1 DEF SeqOf
  <2> QED BY <2>1, SearchAssumption
<1>3. \A job \in Job : \A i \in DOMAIN answer[job].found : <<job, i>> \in Finds
  BY DEF Finds
<1>4. ASSUME NEW x \in Finds
      PROVE  /\ x = <<x[1], x[2]>> /\ x[1] \in Job /\ x[1] \in Nat /\ x[2] \in Nat
             /\ x[2] \in DOMAIN answer[x[1]].found /\ x \in Job \X (1..MaxFound)
             /\ CandidateAt(x) \in Offer
  <2>1. PICK job \in Job : x \in {<<job, i>> : i \in DOMAIN answer[job].found}
    BY DEF Finds
  <2>2. PICK i \in DOMAIN answer[job].found : x = <<job, i>>
    BY <2>1
  <2>3. x[1] = job /\ x[2] = i /\ i \in 1..MaxFound
    BY <2>2, <1>2
  <2>4. CandidateAt(x) \in Offer
    BY <2>3, <1>2 DEF CandidateAt, Offer, Wanted
  <2> QED BY <2>2, <2>3, <2>4, <1>1, SearchAssumption
<1>5. IsFiniteSet(Finds)
  <2>1. IsFiniteSet(Job)
    BY SearchAssumption, FS_Interval DEF Job
  <2>2. IsFiniteSet(1..MaxFound)
    BY SearchAssumption, FS_Interval
  <2>3. IsFiniteSet(Job \X (1..MaxFound))
    BY <2>1, <2>2, FS_Product
  <2>4. Finds \in SUBSET (Job \X (1..MaxFound))
    BY <1>4
  <2> QED BY <2>3, <2>4, FS_Subset
<1> QED BY <1>3, <1>4, <1>5

\* Those found sooner.
Before(found) == [x \in found |-> {y \in found : Sooner(y, x)}]

\* Any of what is found is in the order of the jobs.
LEMMA SoonerIsLinear ==
  ASSUME AnswersOK(answer), NEW found \in SUBSET Finds
  PROVE  Linear(found, Before(found))
<1>1. \A x \in found : x = <<x[1], x[2]>> /\ x[1] \in Nat /\ x[2] \in Nat
  BY FindsAre
<1>2. IsFiniteSet(found)
  BY FindsAre, FS_Subset
<1>3. Before(found) \in [found -> SUBSET found]
  BY DEF Before
<1>4. \A x \in found : x \notin Before(found)[x]
  BY <1>1 DEF Before, Sooner
<1>5. \A x, y \in found : x # y => x \in Before(found)[y] \/ y \in Before(found)[x]
  <2> SUFFICES ASSUME NEW x \in found, NEW y \in found, x # y
               PROVE  Sooner(x, y) \/ Sooner(y, x)
    BY DEF Before
  <2>1. x[1] # y[1] \/ x[2] # y[2]
    BY <1>1
  <2> QED BY <1>1, <2>1 DEF Sooner
<1>6. \A x, y \in found : x \in Before(found)[y] => Before(found)[x] \subseteq Before(found)[y]
  <2> SUFFICES ASSUME NEW x \in found, NEW y \in found, NEW z \in found, Sooner(x, y), Sooner(z, x)
               PROVE  Sooner(z, y)
    BY DEF Before
  <2> QED BY <1>1 DEF Sooner
<1> QED BY <1>2, <1>3, <1>4, <1>5, <1>6 DEF Linear

\* What is found has a soonest.
LEMMA SoonestOf ==
  ASSUME AnswersOK(answer), NEW found \in SUBSET Finds, NEW z \in found
  PROVE  \E x \in found : \A y \in found : ~Sooner(y, x)
<1>1. PICK o : o = InOrder(Before(found))
  OBVIOUS
<1>2. PICK n : n = Cardinality(found)
  OBVIOUS
<1>3. /\ n \in Nat /\ o \in [1..n -> found]
      /\ \A x \in found : \E k \in 1..n : o[k] = x
      /\ \A j, k \in 1..n : j < k => o[j] \in Before(found)[o[k]]
  BY <1>1, <1>2, SoonerIsLinear, InOrderSorts DEF Sorts
<1>4. 1 \in 1..n /\ o[1] \in found
  BY <1>3
<1>5. \A x \in found : x[1] \in Nat /\ x[2] \in Nat
  BY FindsAre
<1>6. ASSUME NEW y \in found PROVE ~Sooner(y, o[1])
  <2>1. PICK k \in 1..n : o[k] = y
    BY <1>3
  <2>2. CASE k = 1
    BY <1>5, <2>1, <2>2 DEF Sooner
  <2>3. CASE k # 1
    <3>1. 1 < k /\ 1 \in 1..n
      BY <1>3, <2>3
    <3>2. o[1] \in Before(found)[o[k]]
      BY <1>3, <3>1
    <3>3. Sooner(o[1], y)
      BY <2>1, <3>2 DEF Before
    <3> QED BY <1>4, <1>5, <3>3 DEF Sooner
  <2> QED BY <2>2, <2>3
<1> QED BY <1>4, <1>6

\* A list of candidates, no two of one key.
Offering(l) == /\ l \in Seq(Offer) /\ Len(l) \in Nat
               /\ \A j, k \in 1..Len(l) : l[j].release.key = l[k].release.key => j = k

KeysOf(l) == {l[k].release.key : k \in 1..Len(l)}

Found(job) == Range(answer[job].found)
Fitting == {r \in UNION {Found(job) : job \in Job} :
              r.usable /\ r.is # "other" /\ \E job \in Job : r \in Found(job) /\ Fits(r, Prefers[SourceOf(job)])}

\* Each key is collected once, from the soonest place that it fits.
LEMMA CollectedOnce ==
  ASSUME AnswersOK(answer)
  PROVE  /\ Collected \in SUBSET Finds
         /\ \A x, y \in Collected : CandidateAt(x).release.key = CandidateAt(y).release.key => x = y
         /\ \A x \in Collected : CandidateAt(x).release \in Fitting
         /\ \A r \in Fitting : \E x \in Collected : CandidateAt(x).release.key = r.key
<1>1. Collected \in SUBSET Finds
  BY DEF Collected
<1>2. ASSUME NEW x \in Collected, NEW y \in Collected,
             CandidateAt(x).release.key = CandidateAt(y).release.key
      PROVE  x = y
  <2>1. ~Sooner(x, y) /\ ~Sooner(y, x)
    BY <1>2, <1>1 DEF Collected, Twins
  <2>2. /\ x = <<x[1], x[2]>> /\ x[1] \in Nat /\ x[2] \in Nat
        /\ y = <<y[1], y[2]>> /\ y[1] \in Nat /\ y[2] \in Nat
    BY <1>1, FindsAre
  <2>3. x[1] = y[1] /\ x[2] = y[2]
    BY <2>1, <2>2 DEF Sooner
  <2> QED BY <2>2, <2>3
<1>3. ASSUME NEW x \in Collected PROVE CandidateAt(x).release \in Fitting
  <2>1. x[1] \in Job /\ x[2] \in DOMAIN answer[x[1]].found
    BY <1>1, FindsAre
  <2>2. PICK r : r = answer[x[1]].found[x[2]]
    OBVIOUS
  <2>3. r \in Found(x[1])
    BY <2>1, <2>2 DEF Found, Range
  <2>4. CandidateAt(x) = [release |-> r, preferred |-> Prefers[SourceOf(x[1])]]
    BY <2>2 DEF CandidateAt
  <2>5. r.usable /\ r.is # "other" /\ Fits(r, Prefers[SourceOf(x[1])])
    BY <2>4 DEF Collected, Eligible, Matches
  <2>6. r \in UNION {Found(job) : job \in Job}
    BY <2>1, <2>3
  <2> QED BY <2>1, <2>3, <2>4, <2>5, <2>6 DEF Fitting
<1>4. ASSUME NEW r \in Fitting PROVE \E x \in Collected : CandidateAt(x).release.key = r.key
  <2>1. PICK job \in Job : r \in Found(job) /\ Fits(r, Prefers[SourceOf(job)])
    BY DEF Fitting
  <2>2. PICK i \in DOMAIN answer[job].found : r = answer[job].found[i]
    BY <2>1 DEF Found, Range
  <2>3. PICK z : z = <<job, i>>
    OBVIOUS
  <2>4. CandidateAt(z) = [release |-> r, preferred |-> Prefers[SourceOf(job)]]
    BY <2>2, <2>3 DEF CandidateAt
  <2>5. Eligible(CandidateAt(z))
    BY <2>1, <2>4 DEF Eligible, Matches, Fitting
  <2>6. z \in Finds
    BY <2>2, <2>3, FindsAre
  <2>7. PICK same : same = {y \in Finds : Twins(y, z) /\ Eligible(CandidateAt(y))}
    OBVIOUS
  <2>8. same \in SUBSET Finds /\ z \in same
    BY <2>5, <2>6, <2>7 DEF Twins
  <2>9. PICK x \in same : \A y \in same : ~Sooner(y, x)
    BY <2>8, SoonestOf
  <2>10. x \in Finds /\ Twins(x, z) /\ Eligible(CandidateAt(x))
    BY <2>7
  <2>11. \A y \in Finds : Sooner(y, x) /\ Twins(y, x) => ~Eligible(CandidateAt(y))
    BY <2>7, <2>9, <2>10 DEF Twins
  <2>12. x \in Collected
    BY <2>10, <2>11 DEF Collected
  <2> QED BY <2>4, <2>10, <2>12 DEF Twins
<1> QED BY <1>1, <1>2, <1>3, <1>4

\* What is offered in the order it was found.
LEMMA CandidatesOffer ==
  ASSUME AnswersOK(answer)
  PROVE  Offering(Candidates) /\ KeysOf(Candidates) = {r.key : r \in Fitting}
<1>1. PICK o : o = InOrder(Before(Collected))
  OBVIOUS
<1>2. PICK n : n = Cardinality(Collected)
  OBVIOUS
<1>3. /\ n \in Nat /\ o \in [1..n -> Collected]
      /\ \A x \in Collected : \E k \in 1..n : o[k] = x
      /\ \A j, k \in 1..n : o[j] = o[k] => j = k
  BY <1>1, <1>2, SoonerIsLinear, CollectedOnce, InOrderSorts DEF Sorts
<1>4. PICK c : c = Candidates
  OBVIOUS
<1>5. c = [k \in 1..n |-> CandidateAt(o[k])]
  BY <1>1, <1>3, <1>4 DEF Candidates, Before
<1>6. \A k \in 1..n : c[k] = CandidateAt(o[k]) /\ o[k] \in Collected /\ c[k] \in Offer
  BY <1>3, <1>5, CollectedOnce, FindsAre
<1>7. c \in Seq(Offer) /\ Len(c) = n
  <2>1. c \in [1..n -> Offer]
    BY <1>5, <1>6
  <2> QED BY <2>1, <1>3
<1>8. \A j, k \in 1..n : c[j].release.key = c[k].release.key => j = k
  BY <1>3, <1>6, CollectedOnce
<1>9. Offering(c)
  BY <1>3, <1>7, <1>8 DEF Offering
<1>10. KeysOf(c) = {r.key : r \in Fitting}
  <2>1. KeysOf(c) = {c[k].release.key : k \in 1..n}
    BY <1>7 DEF KeysOf
  <2>2. \A k \in 1..n : c[k].release \in Fitting
    BY <1>6, CollectedOnce
  <2>3. ASSUME NEW r \in Fitting PROVE \E k \in 1..n : c[k].release.key = r.key
    <3>1. PICK x \in Collected : CandidateAt(x).release.key = r.key
      BY CollectedOnce
    <3>2. PICK k \in 1..n : o[k] = x
      BY <1>3
    <3> QED BY <1>6, <3>1, <3>2
  <2> QED BY <2>1, <2>2, <2>3
<1> QED BY <1>4, <1>9, <1>10

\* What a candidate is ranked by.
LEMMA BetterIs ==
  ASSUME NEW a, NEW b
  PROVE  Better(a, b) <=> \/ HealthyPack(a) /\ ~HealthyPack(b)
                          \/ /\ HealthyPack(a) <=> HealthyPack(b)
                             /\ \/ a.release.seeders # b.release.seeders /\ a.release.seeders > b.release.seeders
                                \/ a.release.seeders = b.release.seeders /\ Wished(a) /\ ~Wished(b)
<1>1. HealthyPack(a) \in BOOLEAN /\ HealthyPack(b) \in BOOLEAN
  BY DEF HealthyPack
<1> QED BY <1>1 DEF Better

\* Two candidates differ in rank or not, and so do three.
LEMMA BetterOrders ==
  ASSUME NEW a \in Offer, NEW b \in Offer, NEW c \in Offer
  PROVE  /\ ~Better(a, a)
         /\ Better(a, b) => ~Better(b, a)
         /\ Better(a, b) /\ Better(b, c) => Better(a, c)
         /\ ~Better(a, b) /\ ~Better(b, c) => ~Better(a, c)
<1>1. a.release.seeders \in Nat /\ b.release.seeders \in Nat /\ c.release.seeders \in Nat
  BY SearchAssumption DEF Offer
<1> QED BY <1>1, BetterIs

\* Those that rank above a candidate.
Above(l) == [i \in 1..Len(l) |-> {j \in 1..Len(l) : \/ Better(l[j], l[i])
                                                    \/ j < i /\ ~Better(l[i], l[j])}]

\* Ranks put the candidates in order, those that are level as they came.
LEMMA AboveIsLinear ==
  ASSUME NEW l, Offering(l)
  PROVE  Linear(1..Len(l), Above(l))
<1>1. PICK n \in Nat : n = Len(l)
  BY DEF Offering
<1>2. \A i \in 1..n : i \in Nat /\ l[i] \in Offer
  BY <1>1 DEF Offering
<1>3. IsFiniteSet(1..n)
  BY FS_Interval
<1>4. Above(l) \in [1..n -> SUBSET (1..n)]
  BY <1>1 DEF Above
<1>5. \A i, j \in 1..n : j \in Above(l)[i] <=> \/ Better(l[j], l[i])
                                               \/ j < i /\ ~Better(l[i], l[j])
  BY <1>1 DEF Above
<1>6. \A i \in 1..n : i \notin Above(l)[i]
  BY <1>2, <1>5, BetterOrders
<1>7. \A i, j \in 1..n : i # j => i \in Above(l)[j] \/ j \in Above(l)[i]
  BY <1>2, <1>5
<1>8. \A i, j \in 1..n : i \in Above(l)[j] => Above(l)[i] \subseteq Above(l)[j]
  <2> SUFFICES ASSUME NEW i \in 1..n, NEW j \in 1..n, i \in Above(l)[j],
                      NEW k \in 1..n, k \in Above(l)[i]
               PROVE  k \in Above(l)[j]
    BY <1>4
  <2>1. PICK a \in Offer, b \in Offer, c \in Offer : a = l[k] /\ b = l[i] /\ c = l[j]
    BY <1>2
  <2>2. Better(b, c) \/ (i < j /\ ~Better(c, b))
    BY <1>5, <2>1
  <2>3. Better(a, b) \/ (k < i /\ ~Better(b, a))
    BY <1>5, <2>1
  <2>4. i < j /\ k < i => k < j
    BY <1>2
  <2>5. Better(a, c) \/ (k < j /\ ~Better(c, a))
    <3>1. CASE Better(a, b) /\ Better(b, c)
      BY <3>1, BetterOrders
    <3>2. CASE Better(a, b) /\ ~Better(c, b)
      BY <3>2, BetterOrders
    <3>3. CASE ~Better(b, a) /\ Better(b, c)
      BY <3>3, BetterOrders
    <3>4. CASE k < j /\ ~Better(b, a) /\ ~Better(c, b)
      BY <3>4, BetterOrders
    <3> QED BY <2>2, <2>3, <2>4, <3>1, <3>2, <3>3, <3>4
  <2> QED BY <1>5, <2>1, <2>5
<1> QED BY <1>1, <1>3, <1>4, <1>6, <1>7, <1>8 DEF Linear

\* The same candidates in another order.
Reorders(r, l) ==
  /\ Offering(r) /\ Len(r) = Len(l)
  /\ \A k \in 1..Len(l) : \E i \in 1..Len(l) : r[k] = l[i]
  /\ \A i \in 1..Len(l) : \E k \in 1..Len(l) : r[k] = l[i]

\* Ranking neither loses nor repeats a candidate.
LEMMA RankedReorders ==
  ASSUME NEW l, Offering(l)
  PROVE  Reorders(Ranked(l), l)
<1>1. PICK n \in Nat : n = Len(l)
  BY DEF Offering
<1>2. /\ DOMAIN l = 1..n /\ \A i \in 1..n : l[i] \in Offer
      /\ \A j, k \in 1..n : l[j].release.key = l[k].release.key => j = k
  BY <1>1 DEF Offering
<1>3. Cardinality(1..n) = n
  <2>1. Cardinality(1..n) = IF 1 > n THEN 0 ELSE n - 1 + 1
    BY FS_Interval
  <2> QED BY <2>1
<1>4. PICK o : o = InOrder(Above(l))
  OBVIOUS
<1>5. /\ o \in [1..n -> 1..n]
      /\ \A x \in 1..n : \E k \in 1..n : o[k] = x
      /\ \A j, k \in 1..n : o[j] = o[k] => j = k
  BY <1>1, <1>3, <1>4, AboveIsLinear, InOrderSorts DEF Sorts
<1>6. PICK r : r = Ranked(l)
  OBVIOUS
<1>7. r = [k \in 1..n |-> l[o[k]]]
  <2>1. Above(l) = [i \in DOMAIN l |-> {j \in DOMAIN l : \/ Better(l[j], l[i])
                                                         \/ j < i /\ ~Better(l[i], l[j])}]
    BY <1>1, <1>2 DEF Above
  <2>2. Ranked(l) = [k \in DOMAIN o |-> l[o[k]]]
    BY <1>4, <2>1, Zenon DEF Ranked
  <2> QED BY <1>5, <1>6, <2>2
<1>8. \A k \in 1..n : o[k] \in 1..n /\ r[k] = l[o[k]]
  BY <1>5, <1>7
<1>9. r \in Seq(Offer) /\ Len(r) = n
  <2>1. r \in [1..n -> Offer]
    BY <1>2, <1>7, <1>8
  <2> QED BY <2>1
<1>10. \A j, k \in 1..n : r[j].release.key = r[k].release.key => j = k
  <2> SUFFICES ASSUME NEW j \in 1..n, NEW k \in 1..n, r[j].release.key = r[k].release.key PROVE j = k
    OBVIOUS
  <2>1. o[j] \in 1..n /\ o[k] \in 1..n /\ l[o[j]].release.key = l[o[k]].release.key
    BY <1>8
  <2>2. o[j] = o[k]
    BY <1>2, <2>1
  <2>3. \A x, y \in 1..n : o[x] = o[y] => x = y
    BY <1>5
  <2> QED BY <2>2, <2>3, Zenon
<1>11. ASSUME NEW i \in 1..n PROVE \E k \in 1..n : r[k] = l[i]
  <2>1. PICK k \in 1..n : o[k] = i
    BY <1>5
  <2> QED BY <1>8, <2>1
<1>12. \A k \in 1..n : \E i \in 1..n : r[k] = l[i]
  BY <1>8
<1>13. Offering(r)
  BY <1>9, <1>10 DEF Offering
<1> QED BY <1>1, <1>6, <1>9, <1>11, <1>12, <1>13 DEF Reorders

\* As many of the candidates as are wanted, all if they are no more, and a pack if
\* there is one.
Heads(t, l) ==
  /\ Offering(t) /\ Len(t) = Min({Limit, Len(l)})
  /\ KeysOf(t) \subseteq KeysOf(l)
  /\ Len(l) <= Limit => KeysOf(t) = KeysOf(l)
  /\ (\E k \in 1..Len(l) : IsPack(l[k])) => \E k \in 1..Len(t) : IsPack(t[k])

\* The cut keeps the best, and a pack.
LEMMA TopHeads ==
  ASSUME NEW l, Offering(l)
  PROVE  Heads(Top(l), l)
<1>1. PICK n \in Nat : n = Len(l)
  BY DEF Offering
<1>2. PICK r : r = Ranked(l)
  OBVIOUS
<1>3. Reorders(r, l)
  BY <1>2, RankedReorders
<1>4. /\ r \in Seq(Offer) /\ Len(r) = n /\ DOMAIN r = 1..n
      /\ \A j, k \in 1..n : r[j].release.key = r[k].release.key => j = k
      /\ \A i \in 1..n : r[i] \in Offer
  <2>1. r \in Seq(Offer) /\ Len(r) = n
    BY <1>1, <1>3 DEF Reorders, Offering
  <2>2. \A j, k \in 1..n : r[j].release.key = r[k].release.key => j = k
    BY <1>1, <1>3, <2>1 DEF Reorders, Offering
  <2> QED BY <2>1, <2>2
<1>5. PICK m : m = Min({Limit, Len(r)})
  OBVIOUS
<1>6. m \in Nat /\ m <= n /\ m <= Limit /\ (m = n \/ m = Limit) /\ Limit \in Nat \ {0}
  <2>1. Limit \in Nat \ {0}
    BY SearchAssumption
  <2> QED BY <1>4, <1>5, <2>1, MinOfTwo
<1>7. PICK top : top = SubSeq(r, 1, m)
  OBVIOUS
<1>8. top \in Seq(Offer) /\ Len(top) = m /\ \A k \in 1..m : top[k] = r[k]
  <2>1. top = [k \in 1..m |-> r[k]]
    BY <1>4, <1>6, <1>7
  <2>2. top \in [1..m -> Offer]
    BY <1>4, <1>6, <2>1
  <2> QED BY <1>6, <2>1, <2>2
<1>9. DOMAIN top = 1..m
  BY <1>8
<1>10. PICK packs : packs = {k \in 1..n : IsPack(r[k])}
  OBVIOUS
<1>11a. PICK wished : wished = IF {k \in packs : r[k].release.is = "pack"} # {}
                               THEN {k \in packs : r[k].release.is = "pack"} ELSE packs
  OBVIOUS
<1>11b. wished \subseteq packs /\ (packs # {} => wished # {})
  BY <1>11a
<1>11. PICK t : t = Top(l)
  OBVIOUS
<1>12. t = IF m = Limit /\ packs # {} /\ packs \cap (1..m) = {}
           THEN [top EXCEPT ![Limit] = r[Min(wished)]] ELSE top
  <2>1. packs = {k \in DOMAIN r : IsPack(r[k])}
    BY <1>4, <1>10
  <2>2. top = SubSeq(r, 1, Min({Limit, Len(r)}))
    BY <1>5, <1>7
  <2>3. Top(l) = IF Len(top) = Limit /\ packs # {} /\ packs \cap DOMAIN top = {}
                 THEN [top EXCEPT ![Limit] = r[Min(wished)]] ELSE top
    BY <1>2, <1>11a, <2>1, <2>2, Zenon DEF Top
  <2> QED BY <1>8, <1>9, <1>11, <2>3
<1>13. ASSUME NEW k \in 1..n PROVE \E i \in 1..n : r[k] = l[i]
  BY <1>1, <1>3 DEF Reorders
<1>14. ASSUME NEW i \in 1..n PROVE \E k \in 1..n : r[k] = l[i]
  BY <1>1, <1>3 DEF Reorders
\* Where each of the top is in the ranking.
<1>15. \E at \in [1..m -> 1..n] :
         /\ \A k \in 1..m : t[k] = r[at[k]]
         /\ \A j, k \in 1..m : at[j] = at[k] => j = k
         /\ m = n => \A k \in 1..m : at[k] = k
         /\ packs # {} => \E k \in 1..m : IsPack(r[at[k]])
         /\ t \in Seq(Offer) /\ Len(t) = m
  <2>1. CASE m = Limit /\ packs # {} /\ packs \cap (1..m) = {}
    <3>1. PICK p : p = Min(wished)
      OBVIOUS
    <3>2. p \in packs
      <4>1. wished \subseteq Nat /\ wished # {}
        BY <1>10, <1>11b, <2>1
      <4>2. \E x \in wished : \A y \in wished : x <= y
        BY <4>1, LeastOf
      <4> QED BY <1>11b, <3>1, <4>2 DEF Min
    <3>3. p \in 1..n /\ IsPack(r[p]) /\ p > m
      BY <1>6, <1>10, <2>1, <3>2
    <3>4. t = [top EXCEPT ![m] = r[p]]
      BY <1>12, <2>1, <3>1
    <3>5. PICK at : at = [k \in 1..m |-> IF k = m THEN p ELSE k]
      OBVIOUS
    <3>6. at \in [1..m -> 1..n]
      BY <1>6, <3>3, <3>5
    <3>7. \A k \in 1..m : t[k] = r[at[k]]
      BY <1>8, <1>9, <3>4, <3>5
    <3>8. \A j, k \in 1..m : at[j] = at[k] => j = k
      BY <1>6, <3>3, <3>5
    <3>9. m # n
      BY <1>6, <3>3
    <3>10. m \in 1..m /\ at[m] = p
      BY <1>6, <2>1, <3>5
    <3>11. t \in Seq(Offer) /\ Len(t) = m
      <4>1. DOMAIN t = 1..m /\ t = [k \in 1..m |-> t[k]]
        BY <1>8, <1>9, <3>4
      <4>2. \A k \in 1..m : t[k] \in Offer
        BY <1>4, <3>6, <3>7
      <4>3. t \in [1..m -> Offer]
        BY <4>1, <4>2
      <4> QED BY <1>6, <4>3
    <3>12. \E k \in 1..m : IsPack(r[at[k]])
      BY <3>3, <3>10
    <3> QED BY <3>6, <3>7, <3>8, <3>9, <3>11, <3>12
  <2>2. CASE ~(m = Limit /\ packs # {} /\ packs \cap (1..m) = {})
    <3>1. t = top
      BY <1>12, <2>2
    <3>2. PICK at : at = [k \in 1..m |-> k]
      OBVIOUS
    <3>3. at \in [1..m -> 1..n]
      BY <1>6, <3>2
    <3>4. \A k \in 1..m : at[k] = k /\ t[k] = r[at[k]]
      BY <1>8, <3>1, <3>2
    <3>5. packs # {} => \E k \in 1..m : IsPack(r[at[k]])
      <4>1. SUFFICES ASSUME packs # {} PROVE \E k \in 1..m : k \in packs
        BY <1>10, <3>4
      <4>2. CASE m = Limit
        BY <2>2, <4>1, <4>2
      <4>3. CASE m = n
        BY <1>10, <4>1, <4>3
      <4> QED BY <1>6, <4>2, <4>3
    <3> QED BY <1>8, <3>1, <3>3, <3>4, <3>5
  <2> QED BY <2>1, <2>2
<1>16. PICK at \in [1..m -> 1..n] :
         /\ \A k \in 1..m : t[k] = r[at[k]]
         /\ \A j, k \in 1..m : at[j] = at[k] => j = k
         /\ m = n => \A k \in 1..m : at[k] = k
         /\ packs # {} => \E k \in 1..m : IsPack(r[at[k]])
         /\ t \in Seq(Offer) /\ Len(t) = m
  BY <1>15
<1>17. Offering(t)
  <2> SUFFICES ASSUME NEW j \in 1..m, NEW k \in 1..m, t[j].release.key = t[k].release.key PROVE j = k
    BY <1>6, <1>16 DEF Offering
  <2>1. at[j] \in 1..n /\ at[k] \in 1..n /\ r[at[j]].release.key = r[at[k]].release.key
    BY <1>16
  <2>2. at[j] = at[k]
    BY <1>4, <2>1
  <2> QED BY <1>16, <2>2
<1>18. KeysOf(t) \subseteq KeysOf(l)
  <2>0. KeysOf(t) = {t[k].release.key : k \in 1..m} /\ KeysOf(l) = {l[k].release.key : k \in 1..n}
    BY <1>1, <1>16 DEF KeysOf
  <2> SUFFICES ASSUME NEW k \in 1..m PROVE \E i \in 1..n : t[k].release.key = l[i].release.key
    BY <2>0
  <2>1. at[k] \in 1..n /\ t[k] = r[at[k]]
    BY <1>16
  <2> QED BY <1>13, <2>1
<1>19. n <= Limit => KeysOf(t) = KeysOf(l)
  <2>0. KeysOf(t) = {t[k].release.key : k \in 1..m} /\ KeysOf(l) = {l[k].release.key : k \in 1..n}
    BY <1>1, <1>16 DEF KeysOf
  <2> SUFFICES ASSUME n <= Limit PROVE KeysOf(l) \subseteq KeysOf(t)
    BY <1>18
  <2> SUFFICES ASSUME NEW i \in 1..n PROVE \E k \in 1..m : t[k].release.key = l[i].release.key
    BY <2>0
  <2>1. m = n
    BY <1>4, <1>5, SearchAssumption, MinOfTwo
  <2>2. PICK k \in 1..n : r[k] = l[i]
    BY <1>14
  <2>3. k \in 1..m /\ t[k] = r[k]
    BY <1>16, <2>1
  <2> QED BY <2>2, <2>3
<1>20. (\E i \in 1..n : IsPack(l[i])) => \E k \in 1..m : IsPack(t[k])
  <2> SUFFICES ASSUME NEW i \in 1..n, IsPack(l[i]) PROVE \E k \in 1..m : IsPack(t[k])
    OBVIOUS
  <2>1. PICK k \in 1..n : r[k] = l[i]
    BY <1>14
  <2>2. k \in packs
    BY <1>10, <2>1
  <2> QED BY <1>16, <2>2
<1> QED BY <1>1, <1>4, <1>5, <1>11, <1>16, <1>17, <1>18, <1>19, <1>20 DEF Heads

\* A filtered list has what was not filtered out, each once.
Filters(kept, rows, stands) ==
  \E m \in Nat : \E o \in [1..m -> stands] :
    /\ kept = [k \in 1..m |-> rows[o[k]]]
    /\ \A x \in stands : \E k \in 1..m : o[k] = x
    /\ \A j, k \in 1..m : o[j] = o[k] => j = k

\* So it does.
LEMMA ThoseAre ==
  ASSUME NEW rows, NEW n \in Nat, NEW stands \in SUBSET (1..n)
  PROVE  Filters(Those(rows, stands), rows, stands)
<1>1. PICK before : before = [i \in stands |-> {j \in stands : j < i}]
  OBVIOUS
<1>2. \A i \in stands : i \in Nat
  OBVIOUS
<1>3. Linear(stands, before)
  <2>1. IsFiniteSet(stands)
    <3>1. IsFiniteSet(1..n)
      BY FS_Interval
    <3> QED BY <3>1, FS_Subset
  <2>2. before \in [stands -> SUBSET stands]
    BY <1>1
  <2>3. \A x \in stands : x \notin before[x]
    BY <1>1, <1>2
  <2>4. \A x, y \in stands : x # y => x \in before[y] \/ y \in before[x]
    BY <1>1, <1>2
  <2>5. \A x, y \in stands : x \in before[y] => before[x] \subseteq before[y]
    <3> SUFFICES ASSUME NEW x \in stands, NEW y \in stands, x < y, NEW z \in stands, z < x
                 PROVE  z < y
      BY <1>1
    <3> QED BY <1>2
  <2> QED BY <2>1, <2>2, <2>3, <2>4, <2>5 DEF Linear
<1>4. PICK o : o = InOrder(before)
  OBVIOUS
<1>5. PICK m : m = Cardinality(stands)
  OBVIOUS
<1>6. /\ m \in Nat /\ o \in [1..m -> stands]
      /\ \A x \in stands : \E k \in 1..m : o[k] = x
      /\ \A j, k \in 1..m : o[j] = o[k] => j = k
  BY <1>3, <1>4, <1>5, InOrderSorts DEF Sorts
<1>7. Those(rows, stands) = [k \in DOMAIN o |-> rows[o[k]]]
  BY <1>1, <1>4, Zenon DEF Those
<1>8. Those(rows, stands) = [k \in 1..m |-> rows[o[k]]]
  BY <1>6, <1>7
<1> QED BY <1>6, <1>8 DEF Filters

Line == [key : Copy \cup {r.key : r \in Release}, cached : BOOLEAN]

\* Each copy and each of the others is listed, and once.
ListsAll(rows, onDisk, top) ==
  /\ rows \in Seq(Line) /\ Len(rows) \in Nat
  /\ \A j, k \in 1..Len(rows) : rows[j].key = rows[k].key => j = k
  /\ {rows[k].key : k \in 1..Len(rows)} = Range(onDisk) \cup KeysOf(top)

\* A release on disk is listed as the copy it is, any other as itself.
LEMMA StreamsListAll ==
  ASSUME NEW onDisk \in Seq(Copy), IsInjective(onDisk), NEW top, Offering(top)
  PROVE  ListsAll(StreamsOf(onDisk, top), onDisk, top)
<1>1. PICK c \in Nat : c = Len(onDisk) /\ DOMAIN onDisk = 1..c
  OBVIOUS
<1>2. /\ \A i \in 1..c : onDisk[i] \in Copy
      /\ \A i, j \in 1..c : onDisk[i] = onDisk[j] => i = j
      /\ Range(onDisk) = {onDisk[i] : i \in 1..c}
  BY <1>1 DEF IsInjective, Range
<1>3. PICK n \in Nat : n = Len(top) /\ DOMAIN top = 1..n
  BY DEF Offering
<1>4. PICK stands : stands = {k \in 1..n : top[k].release.key \notin Range(onDisk)}
  OBVIOUS
<1>5. PICK fresh : fresh = Those(top, stands)
  OBVIOUS
<1>6. stands \in SUBSET (1..n)
  BY <1>4
<1>7. Filters(fresh, top, stands)
  BY <1>5, <1>6, ThoseAre
<1>7a. PICK m \in Nat : \E o \in [1..m -> stands] :
        /\ fresh = [k \in 1..m |-> top[o[k]]]
        /\ \A x \in stands : \E k \in 1..m : o[k] = x
        /\ \A j, k \in 1..m : o[j] = o[k] => j = k
  BY <1>7 DEF Filters
<1>7b. PICK o \in [1..m -> stands] :
        /\ fresh = [k \in 1..m |-> top[o[k]]]
        /\ \A x \in stands : \E k \in 1..m : o[k] = x
        /\ \A j, k \in 1..m : o[j] = o[k] => j = k
  BY <1>7a
<1>8. PICK a : a = [i \in 1..c |-> [key |-> onDisk[i], cached |-> TRUE]]
  OBVIOUS
<1>9. PICK b : b = [i \in 1..m |-> [key |-> fresh[i].release.key, cached |-> FALSE]]
  OBVIOUS
<1>10. PICK rows : rows = StreamsOf(onDisk, top)
  OBVIOUS
<1>11. rows = a \o b
  <2>1. DOMAIN fresh = 1..m
    BY <1>7b
  <2>2. stands = {k \in DOMAIN top : top[k].release.key \notin Range(onDisk)}
    BY <1>3, <1>4
  <2>3. StreamsOf(onDisk, top) = [i \in DOMAIN onDisk |-> [key |-> onDisk[i], cached |-> TRUE]]
                                 \o [i \in DOMAIN fresh |-> [key |-> fresh[i].release.key, cached |-> FALSE]]
    BY <1>5, <2>2, Zenon DEF StreamsOf
  <2> QED BY <1>1, <1>8, <1>9, <1>10, <2>1, <2>3
<1>12. ASSUME NEW k \in 1..m
       PROVE  /\ o[k] \in 1..n /\ fresh[k] = top[o[k]] /\ fresh[k] \in Offer
              /\ fresh[k].release.key \notin Range(onDisk)
  <2>1. o[k] \in stands /\ fresh[k] = top[o[k]]
    BY <1>7b
  <2>2. \A i \in 1..n : top[i] \in Offer
    BY <1>3 DEF Offering
  <2> QED BY <1>4, <1>6, <2>1, <2>2
<1>13. a \in [1..c -> Line] /\ \A i \in 1..c : a[i].key = onDisk[i]
  BY <1>2, <1>8 DEF Line
<1>14. b \in [1..m -> Line] /\ \A i \in 1..m : b[i].key = fresh[i].release.key
  <2>1. \A i \in 1..m : fresh[i].release \in Release
    BY <1>12 DEF Offer
  <2> QED BY <1>9, <2>1 DEF Line
<1>15. a \in Seq(Line) /\ Len(a) = c /\ b \in Seq(Line) /\ Len(b) = m
  BY <1>13, <1>14
<1>16. /\ rows \in Seq(Line) /\ Len(rows) = c + m
       /\ \A k \in 1..c + m : rows[k] = IF k <= c THEN a[k] ELSE b[k - c]
  BY <1>11, <1>15, ConcatProperties
<1>17. \A k \in 1..c : k \in 1..c + m /\ rows[k].key = onDisk[k]
  BY <1>13, <1>16
<1>18. ASSUME NEW k \in 1..c + m, k > c
       PROVE  k - c \in 1..m /\ rows[k].key = fresh[k - c].release.key
  <2>1. k - c \in 1..m
    BY <1>18
  <2>2. ~(k <= c) /\ rows[k] = IF k <= c THEN a[k] ELSE b[k - c]
    BY <1>16, <1>18
  <2>3. rows[k] = b[k - c]
    BY <2>2
  <2> QED BY <1>14, <2>1, <2>3
<1>19. ASSUME NEW k \in 1..m PROVE c + k \in 1..c + m /\ rows[c + k].key = fresh[k].release.key
  <2>1. c + k \in 1..c + m /\ c + k > c /\ c + k - c = k
    OBVIOUS
  <2> QED BY <1>18, <2>1
<1>20. \A j, k \in 1..m : fresh[j].release.key = fresh[k].release.key => j = k
  <2> SUFFICES ASSUME NEW j \in 1..m, NEW k \in 1..m, fresh[j].release.key = fresh[k].release.key PROVE j = k
    OBVIOUS
  <2>1. /\ o[j] \in 1..n /\ o[k] \in 1..n
        /\ top[o[j]].release.key = top[o[k]].release.key
    BY <1>12
  <2>2. o[j] = o[k]
    BY <1>3, <2>1 DEF Offering
  <2> QED BY <1>7b, <2>2
<1>21. \A j, k \in 1..c + m : rows[j].key = rows[k].key => j = k
  <2> SUFFICES ASSUME NEW j \in 1..c + m, NEW k \in 1..c + m, rows[j].key = rows[k].key PROVE j = k
    OBVIOUS
  <2>1. CASE j <= c /\ k <= c
    <3>1. j \in 1..c /\ k \in 1..c /\ onDisk[j] = onDisk[k]
      BY <1>17, <2>1
    <3> QED BY <1>2, <3>1
  <2>2. CASE j > c /\ k > c
    <3>1. /\ j - c \in 1..m /\ k - c \in 1..m
          /\ fresh[j - c].release.key = fresh[k - c].release.key
      BY <1>18, <2>2
    <3>2. j - c = k - c
      BY <1>20, <3>1
    <3> QED BY <3>2
  <2>3. ASSUME NEW x \in 1..c + m, NEW y \in 1..c + m, x <= c, y > c PROVE rows[x].key # rows[y].key
    <3>1. x \in 1..c /\ rows[x].key \in Range(onDisk)
      BY <1>2, <1>17, <2>3
    <3>2. y - c \in 1..m /\ rows[y].key = fresh[y - c].release.key
      BY <1>18, <2>3
    <3> QED BY <1>12, <3>1, <3>2
  <2> QED BY <2>1, <2>2, <2>3
<1>22. {rows[k].key : k \in 1..c + m} \subseteq Range(onDisk) \cup KeysOf(top)
  <2> SUFFICES ASSUME NEW k \in 1..c + m PROVE rows[k].key \in Range(onDisk) \cup KeysOf(top)
    OBVIOUS
  <2>1. CASE k <= c
    <3>1. k \in 1..c
      BY <2>1
    <3> QED BY <1>2, <1>17, <3>1
  <2>2. CASE k > c
    <3>1. k - c \in 1..m /\ rows[k].key = fresh[k - c].release.key
      BY <1>18, <2>2
    <3>2. PICK i \in 1..n : fresh[k - c] = top[i]
      BY <1>12, <3>1
    <3> QED BY <1>3, <3>1, <3>2 DEF KeysOf
  <2> QED BY <2>1, <2>2
<1>23. Range(onDisk) \subseteq {rows[k].key : k \in 1..c + m}
  <2> SUFFICES ASSUME NEW i \in 1..c PROVE \E k \in 1..c + m : rows[k].key = onDisk[i]
    BY <1>2
  <2> QED BY <1>17
<1>24. KeysOf(top) \subseteq {rows[k].key : k \in 1..c + m}
  <2> SUFFICES ASSUME NEW i \in 1..n PROVE top[i].release.key \in {rows[k].key : k \in 1..c + m}
    BY <1>3 DEF KeysOf
  <2>1. CASE i \in stands
    <3>1. PICK k \in 1..m : o[k] = i
      BY <1>7b, <2>1
    <3>2. c + k \in 1..c + m /\ rows[c + k].key = top[i].release.key
      BY <1>12, <1>19, <3>1
    <3> QED BY <3>2
  <2>2. CASE i \notin stands
    <3>1. top[i].release.key \in Range(onDisk)
      BY <1>4, <2>2
    <3> QED BY <1>23, <3>1
  <2> QED BY <2>1, <2>2
<1>25. PICK l \in Nat : l = c + m
  OBVIOUS
<1>26. /\ Len(rows) = l
       /\ \A j, k \in 1..l : rows[j].key = rows[k].key => j = k
       /\ {rows[k].key : k \in 1..l} = Range(onDisk) \cup KeysOf(top)
  BY <1>16, <1>21, <1>22, <1>23, <1>24, <1>25
<1> QED BY <1>10, <1>16, <1>25, <1>26, Zenon DEF ListsAll

Unready == {[at |-> at, candidates |-> <<>>, top |-> <<>>, list |-> <<>>] : at \in {"idle", "asked", "searching"}}

\* What was answered is what came of the queries, ranked, cut and put behind the copies.
SInv == /\ AnswersOK(answer)
        /\ copies \in Seq(Copy) /\ IsInjective(copies)
        /\ \/ streams \in Unready
           \/ streams = [at |-> "answered", candidates |-> Candidates, top |-> Top(Candidates),
                         list |-> StreamsOf(copies, Top(Candidates))]

\* At first nothing is found.
LEMMA SearchBegins == SearchInit => SInv
<1> SUFFICES ASSUME SearchInit PROVE SInv
  OBVIOUS
<1>1. <<>> \in SeqOf(Release, MaxFound)
  <2>1. 0 \in 0..MaxFound /\ <<>> \in [1..0 -> Release]
    BY SearchAssumption
  <2> QED BY <2>1 DEF SeqOf
<1>2. AnswersOK(answer)
  BY <1>1 DEF SearchInit, AnswersOK, Pending
<1>3. copies \in Seq(Copy) /\ IsInjective(copies)
  BY DEF SearchInit, IsInjective
<1>4. streams \in Unready
  BY DEF SearchInit, Unready, NoStreams
<1> QED BY <1>2, <1>3, <1>4 DEF SInv

\* Nothing has been found when nothing could be searched for.
LEMMA NoneFound ==
  ASSUME \A job \in Job : answer[job] = Pending
  PROVE  Candidates = <<>>
<1>1. Finds = {}
  BY DEF Finds, Pending
<1>2. Collected = {}
  BY <1>1 DEF Collected
<1>3. PICK before : before = [x \in Collected |-> {y \in Collected : Sooner(y, x)}]
  OBVIOUS
<1>4. DOMAIN before = {}
  BY <1>2, <1>3
<1>5. DOMAIN InOrder(before) = 1..0
  BY <1>4, FS_EmptySet DEF InOrder
<1>6. Candidates = [k \in DOMAIN InOrder(before) |-> CandidateAt(InOrder(before)[k])]
  BY <1>3, Zenon DEF Candidates
<1> QED BY <1>5, <1>6

\* Each step keeps what is answered what was found.
LEMMA SearchInductive == SInv /\ [SearchNext]_searchVars => SInv'
<1> SUFFICES ASSUME SInv, [SearchNext]_searchVars PROVE SInv'
  OBVIOUS
<1>1. ASSUME UNCHANGED searchVars PROVE SInv'
  <2>1. answer' = answer /\ copies' = copies /\ streams' = streams
    BY <1>1 DEF searchVars
  <2>2. Candidates' = Candidates
    BY <2>1 DEF Candidates, Collected, Finds, CandidateAt, Sooner, Twins
  <2> QED BY <2>1, <2>2 DEF SInv, AnswersOK
<1>2. ASSUME BeginsSearch PROVE SInv'
  <2>1. streams' \in Unready
    BY <1>2 DEF BeginsSearch, NoStreams, Unready
  <2> QED BY <1>2, <2>1 DEF BeginsSearch, SInv, AnswersOK
<1>3. ASSUME NEW found \in SeqOf(Copy, MaxFound), FindsCopies(found) PROVE SInv'
  <2>1. found \in Seq(Copy) /\ IsInjective(found)
    <3>1. PICK m \in 0..MaxFound : found \in [1..m -> Copy]
      BY DEF SeqOf
    <3>2. m \in Nat
      BY SearchAssumption
    <3> QED BY <1>3, <3>1, <3>2 DEF FindsCopies
  <2>2. streams \in Unready
    BY <1>3 DEF FindsCopies, SInv
  <2>3. streams' \in Unready
    BY <1>3, <2>2 DEF FindsCopies, Unready
  <2> QED BY <1>3, <2>1, <2>3 DEF FindsCopies, SInv, AnswersOK
<1>4. ASSUME NEW job \in Job, NEW found \in SeqOf(Release, MaxFound), Answers(job, found) PROVE SInv'
  <2>1. streams \in Unready
    BY <1>4 DEF Answers, SInv
  <2>2. AnswersOK(answer')
    BY <1>4 DEF Answers, SInv, AnswersOK
  <2> QED BY <1>4, <2>1, <2>2 DEF Answers, SInv, AnswersOK
<1>5. ASSUME NEW job \in Job, QueryFails(job) PROVE SInv'
  <2>1. streams \in Unready
    BY <1>5 DEF QueryFails, SInv
  <2>2. AnswersOK(answer')
    BY <1>5 DEF QueryFails, SInv, AnswersOK
  <2> QED BY <1>5, <2>1, <2>2 DEF QueryFails, SInv, AnswersOK
<1>6. ASSUME ListsStreams \/ ListsCopies PROVE SInv'
  <2>1. Lists(Candidates)
    BY <1>6, NoneFound DEF ListsStreams, ListsCopies
  <2>2. answer' = answer /\ copies' = copies
    BY <2>1 DEF Lists
  <2>3. Candidates' = Candidates
    BY <2>2 DEF Candidates, Collected, Finds, CandidateAt, Sooner, Twins
  <2>4. streams' = [at |-> "answered", candidates |-> Candidates, top |-> Top(Candidates),
                    list |-> StreamsOf(copies, Top(Candidates))]
    BY <2>1 DEF Lists
  <2>5. AnswersOK(answer') /\ copies' \in Seq(Copy) /\ IsInjective(copies')
    BY <2>2 DEF SInv
  <2> QED BY <2>2, <2>3, <2>4, <2>5 DEF SInv, AnswersOK
<1>7. ASSUME Answered PROVE SInv'
  <2>1. SearchInit'
    BY <1>7 DEF Answered, SearchInit
  <2>2. SearchInit' => SInv'
    BY SearchBegins, PTL
  <2> QED BY <2>1, <2>2
<1> QED BY <1>1, <1>2, <1>3, <1>4, <1>5, <1>6, <1>7 DEF SearchNext

\* There are as many keys as candidates.
LEMMA KeysCount ==
  ASSUME NEW l, Offering(l)
  PROVE  Cardinality(KeysOf(l)) = Len(l)
<1>1. PICK n \in Nat : n = Len(l)
  BY DEF Offering
<1>2. PICK f : f = [k \in 1..n |-> l[k].release.key]
  OBVIOUS
<1>3. \A j, k \in 1..n : f[j] = f[k] => j = k
  BY <1>1, <1>2 DEF Offering
<1>4. KeysOf(l) = {f[k] : k \in 1..n}
  BY <1>1, <1>2 DEF KeysOf
<1>5. f \in [1..n -> KeysOf(l)]
  BY <1>2, <1>4
<1>6. f \in Bijection(1..n, KeysOf(l))
  BY <1>3, <1>4, <1>5 DEF Bijection, Injection, Surjection, IsInjective
<1>7. ExistsBijection(1..n, KeysOf(l))
  BY <1>6 DEF ExistsBijection
<1> QED BY <1>1, <1>7, FS_CountingElements

\* What is answered so is complete.
LEMMA SearchIsComplete == SInv => SearchComplete
<1> SUFFICES ASSUME SInv, streams.at = "answered" PROVE SearchComplete
  BY DEF SearchComplete
<1>1. PICK c : c = Candidates
  OBVIOUS
<1>2. PICK top : top = Top(c)
  OBVIOUS
<1>3. PICK rows : rows = StreamsOf(copies, top)
  OBVIOUS
<1>4. streams.candidates = c /\ streams.top = top /\ streams.list = rows
  <2>1. streams \notin Unready
    BY DEF Unready
  <2>2. streams = [at |-> "answered", candidates |-> c, top |-> top, list |-> rows]
    BY <1>1, <1>2, <1>3, <2>1 DEF SInv
  <2> QED BY <2>2
<1>5. PICK keys : keys = {r.key : r \in Fitting}
  OBVIOUS
<1>6. Offering(c) /\ KeysOf(c) = keys
  BY <1>1, <1>5, CandidatesOffer DEF SInv
<1>7. Heads(top, c)
  BY <1>2, <1>6, TopHeads
<1>8. ListsAll(rows, copies, top)
  BY <1>3, <1>7, StreamsListAll DEF SInv, Heads
<1>9. Cardinality(keys) = Len(c)
  BY <1>6, KeysCount
<1>10. DOMAIN c = 1..Len(c) /\ Range(c) = {c[k] : k \in 1..Len(c)}
  BY <1>6 DEF Offering, Range
<1>11. DOMAIN top = 1..Len(top) /\ Range(top) = {top[k] : k \in 1..Len(top)}
  <2>1. top \in Seq(Offer)
    BY <1>7 DEF Heads, Offering
  <2>2. DOMAIN top = 1..Len(top)
    BY <2>1
  <2> QED BY <2>2 DEF Range
<1>12. {d.release.key : d \in Range(c)} = keys
  <2>1. keys = {c[k].release.key : k \in 1..Len(c)}
    BY <1>6 DEF KeysOf
  <2>2. \A d \in Range(c) : d.release.key \in keys
    BY <1>10, <2>1
  <2>3. \A k \in 1..Len(c) : c[k] \in Range(c)
    BY <1>10
  <2> QED BY <2>1, <2>2, <2>3
<1>13. PICK listed : listed = [i \in DOMAIN rows |-> rows[i].key]
  OBVIOUS
<1>14. DOMAIN rows = 1..Len(rows)
  BY <1>8 DEF ListsAll
<1>15. IsInjective(listed)
  BY <1>8, <1>13, <1>14 DEF ListsAll, IsInjective
<1>16. Range(listed) = Range(copies) \cup KeysOf(top)
  <2>1. Range(listed) = {rows[i].key : i \in 1..Len(rows)}
    BY <1>13, <1>14 DEF Range
  <2> QED BY <1>8, <2>1 DEF ListsAll
<1>17. Cardinality(keys) <= Limit => Range(listed) = Range(copies) \cup keys
  BY <1>6, <1>7, <1>9, <1>16 DEF Heads
<1>18. Len(top) = Min({Limit, Cardinality(keys)})
  BY <1>7, <1>9 DEF Heads
<1>19. (\E d \in Range(c) : IsPack(d)) => \E d \in Range(top) : IsPack(d)
  BY <1>7, <1>10, <1>11 DEF Heads
<1>20. keys = {r.key : r \in {r \in UNION {Range(answer[job].found) : job \in Job} :
                                r.usable /\ r.is # "other"
                                /\ \E job \in Job : r \in Range(answer[job].found) /\ Fits(r, Prefers[SourceOf(job)])}}
  BY <1>5 DEF Fitting, Found
<1> QED BY <1>4, <1>12, <1>13, <1>15, <1>16, <1>17, <1>18, <1>19, <1>20, Zenon DEF SearchComplete

\* Whatever the sources find and however long each takes, what can be played is
\* listed, once, and a pack is not cut off (search/index.ts:113-153).
THEOREM SearchesAreComplete == SearchSpec => []SearchComplete
<1>1. SInv => SearchComplete
  BY SearchIsComplete
<1> QED BY <1>1, SearchBegins, SearchInductive, PTL DEF SearchSpec
=============================================================================
