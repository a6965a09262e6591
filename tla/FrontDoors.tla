----------------------------- MODULE FrontDoors -----------------------------
(***************************************************************************)
(* Every way in (src/server.ts): the native API (api/v1/routes.ts), the    *)
(* store API with its StremThru and Real-Debrid dialects (store/routes.ts, *)
(* store/realdebrid.ts), WebDAV (dav/routes.ts), the Stremio addon, signed *)
(* links (api/v1/links.ts) and administration (admin/routes.ts).  A        *)
(* request proves who it is, takes a place (store/access.ts, security/     *)
(* admission.ts), has its route, which is a scope and a sequence of calls  *)
(* of the services, and gives the place back, however it ends.  Between    *)
(* any two calls others may have theirs.                                   *)
(***************************************************************************)
EXTENDS Naturals, Sequences, FiniteSets

CONSTANTS Token,      \* tokens that are issued
          Scopes,     \* [Token -> SUBSET {"read", "write", "link"}]
          Quota,      \* concurrentRequests of every token
          Streams, Searches,   \* places of the two pools, sixteen and four
          Request,    \* requests under way at once
          Title,      \* infohashes, numbers
          MaxFailures,\* bad tokens an address may send: five
          MaxKeys,    \* bound: addon keys
          Nobody

ASSUME DoorAssumption == /\ {Quota, Streams, Searches, MaxFailures, MaxKeys} \subseteq Nat
                         /\ Title \subseteq Nat
                         /\ Scopes \in [Token -> SUBSET {"read", "write", "link"}]
                         /\ {"streams", "searches"} \cap Token = {}
                         /\ Nobody \notin Token \cup {"streams", "searches"}

VARIABLES valid,      \* the tokens that are not revoked
          failures,   \* bad tokens in the window of the address all requests have
          places,     \* places taken, of each token and pool
          addonKey,   \* the addon key's number; another begins with a rotation
          mode,       \* integrations.mode: "search", or one that has downloads
          title,      \* [Title -> "none" or its lifecycle]
          request     \* the requests

doorVars == <<valid, failures, places, addonKey, mode, title, request>>

Pool == Token \cup {"streams", "searches"}

NoRequest == [at |-> "idle", who |-> Nobody, route |-> <<>>, title |-> 0, place |-> Nobody,
              honest |-> FALSE, done |-> {}]

\* A route: the door, the scope it asks for, and what it calls.
R(door, scope, calls) == [door |-> door, scope |-> scope, calls |-> calls]

NativeReads ==
  {R("native", "read", c) : c \in {<<"settings">>, <<"search">>, <<"list">>, <<"status">>, <<"get">>, <<"files">>}}
NativeWrites ==
  {R("native", "write", c) : c \in {<<"add">>, <<"preview">>, <<"remove">>, <<"run">>, <<"files", "select">>}}
NativeLinks ==
  {R("native", "link", c) : c \in {<<"get", "files", "link">>, <<"files", "open", "send">>}}

StoreRoutes ==
  {R("store", "read", c) : c \in {<<"list">>, <<"status">>, <<"get">>, <<"files">>}}
  \cup {R("store", "write", c) : c \in {<<"add">>, <<"remove">>, <<"files", "select">>}}
  \cup {R("store", "link", <<"get", "files", "link">>)}

\* An addition is answered with its status and its files.
StremThruRoutes ==
  {R("store", "read", c) : c \in {<<>>, <<"status", "get">>, <<"list", "status">>, <<"get", "status", "files">>}}
  \cup {R("store", "write", c) : c \in {<<"add", "status", "files">>, <<"remove">>}}
  \cup {R("store", "link", <<"get", "files", "link">>)}

RealDebridReads ==
  {R("store", "read", c) : c \in {<<>>, <<"list", "status">>, <<"get", "status", "files">>}}
\* selectFiles looks at the title, finishes a registration it saw, and selects file
\* after file.
RealDebridWrites ==
  {R("store", "write", c) : c \in {<<"add">>, <<"look", "files", "select", "select">>, <<"get", "remove">>}}
RealDebridLinks == {R("store", "link", <<"get", "get", "files", "link">>)}

\* Both scopes are asked for before the request takes its place.
DavRoutes == {R("dav", "both", c) : c \in {<<"list">>, <<"list", "files">>, <<"list", "files", "open", "send">>}}

AddonRoutes == {R("addon", "", c) : c \in {<<>>, <<"list">>}}
AddonSearches == {R("addonSearch", "", c) : c \in {<<"search">>, <<"files", "link">>}}
AddonPlays == {R("addonPlay", "", <<"play", "open", "send">>)}
LinkRoutes == {R("download", "", <<"prepare", "open", "send">>)}

AdminReads == {R("admin", "", c) : c \in {<<"settings">>, <<"list", "status">>, <<"files">>, <<"files", "link">>}}
AdminWrites == {R("admin", "", c) : c \in {<<"add">>, <<"get", "remove">>, <<"run">>, <<"files", "select">>,
                                         <<"rotate">>, <<"save">>, <<"issue">>, <<"revoke">>}}

TokenRoutes == NativeReads \cup NativeWrites \cup NativeLinks \cup StoreRoutes \cup StremThruRoutes
               \cup RealDebridReads \cup RealDebridWrites \cup RealDebridLinks \cup DavRoutes
Routes == TokenRoutes \cup AddonRoutes \cup AddonSearches \cup AddonPlays \cup LinkRoutes
          \cup AdminReads \cup AdminWrites
-----------------------------------------------------------------------------
DoorInit == /\ valid = Token
            /\ failures = 0
            /\ places = [p \in Pool |-> 0]
            /\ addonKey = 1
            /\ mode = "both"
            /\ title = [t \in Title |-> "none"]
            /\ request = [r \in Request |-> NoRequest]

\* Which door it was does not matter inside.
Within(route) == [route EXCEPT !.door = ""]
Becomes(r, q) == request' = [request EXCEPT ![r] = q]
Allowed(k, scope) == IF scope = "both" THEN {"read", "link"} \subseteq Scopes[k] ELSE scope \in Scopes[k]

\* In search mode there are no downloads, and no doors to them.
Open(door) == mode = "search" => door \in {"admin", "addon", "addonSearch", "addonPlay"}

\* authenticate: a known token forgives the failures, an unknown one is one more.
\* Its use is written down before the answer comes.
Authenticates(r, k, route, t) ==
  /\ request[r] = NoRequest
  /\ route \in TokenRoutes /\ Open(route.door)
  /\ failures < MaxFailures
  /\ IF k \in valid
     THEN /\ failures' = 0
          /\ Becomes(r, [NoRequest EXCEPT !.at = "found", !.who = k, !.route = route, !.title = t])
     ELSE failures' = failures + 1 /\ UNCHANGED request
  /\ UNCHANGED <<valid, places, addonKey, mode, title>>

FailuresEnd == /\ failures > 0
               /\ failures' = 0
               /\ UNCHANGED <<valid, places, addonKey, mode, title, request>>

PlacesOf(p) == CASE p \in Token -> Quota [] p = "streams" -> Streams [] p = "searches" -> Searches

\* The request has its place, and goes on with its calls.
TakesPlace(r, p) == /\ places[p] < PlacesOf(p)
                /\ places' = [places EXCEPT ![p] = @ + 1]
                /\ Becomes(r, [request[r] EXCEPT !.at = "in", !.who = Nobody, !.route.door = "", !.place = p,
                                                !.honest = (p \in valid)])
Refused(r) == Becomes(r, NoRequest) /\ UNCHANGED places

\* Mutant: whether the token still exists is not asked again.
EntersUnasked(r) ==
  /\ request[r].at = "found"
  /\ LET k == request[r].who
         refused == places[k] >= Quota \/ (request[r].route.door = "dav" /\ ~Allowed(k, "both"))
     IN  IF refused THEN Refused(r) ELSE TakesPlace(r, k)
  /\ UNCHANGED <<valid, failures, addonKey, mode, title>>

\* authenticate looks the token up again after its write, and enter once more.
Enters(r) ==
  /\ request[r].at = "found"
  /\ LET k == request[r].who
         refused == \/ k \notin valid \/ places[k] >= Quota
                    \/ request[r].route.door = "dav" /\ ~Allowed(k, "both")
     IN  IF refused THEN Refused(r) ELSE TakesPlace(r, k)
  /\ UNCHANGED <<valid, failures, addonKey, mode, title>>

\* The addon by its key, a signed link, the administrator by the session.
EntersAddon(r, n, route, t) ==
  /\ request[r] = NoRequest /\ n = addonKey
  /\ route \in AddonRoutes \cup AddonSearches \cup AddonPlays
  /\ mode = "search" => route.calls \notin {<<"list">>, <<"files", "link">>}
  /\ LET q == [NoRequest EXCEPT !.at = "in", !.route = Within(route), !.title = t]
         pool == IF route.door = "addonPlay" THEN "streams" ELSE "searches"
     IN  IF route.door = "addon" THEN Becomes(r, q) /\ UNCHANGED places
         ELSE /\ places[pool] < PlacesOf(pool)
              /\ places' = [places EXCEPT ![pool] = @ + 1]
              /\ Becomes(r, [q EXCEPT !.place = pool])
  /\ UNCHANGED <<valid, failures, addonKey, mode, title>>

EntersDownload(r, route, t) ==
  /\ request[r] = NoRequest /\ Open("download")
  /\ route \in LinkRoutes
  /\ places["streams"] < Streams
  /\ places' = [places EXCEPT !["streams"] = @ + 1]
  /\ Becomes(r, [NoRequest EXCEPT !.at = "in", !.route = Within(route), !.title = t, !.place = "streams"])
  /\ UNCHANGED <<valid, failures, addonKey, mode, title>>

EntersAdmin(r, route, t) ==
  /\ request[r] = NoRequest
  /\ route \in AdminReads \cup AdminWrites
  /\ mode = "search" => route.calls # <<"add">>
  /\ Becomes(r, [NoRequest EXCEPT !.at = "in", !.route = Within(route), !.title = t])
  /\ UNCHANGED <<valid, failures, places, addonKey, mode, title>>
-----------------------------------------------------------------------------
\* Mutant: a request that fails keeps its place.
LeavesOnSuccess(r) ==
  /\ Becomes(r, NoRequest)
  /\ places' = IF request[r].place = Nobody \/ request[r].route.calls # <<>> THEN places
               ELSE [places EXCEPT ![request[r].place] = @ - 1]

\* The end of a request, the `finally` of every door.
Leaves(r) ==
  /\ Becomes(r, NoRequest)
  /\ places' = IF request[r].place = Nobody THEN places ELSE [places EXCEPT ![request[r].place] = @ - 1]

In(r) == request[r].at = "in"

\* A missing scope, a call that fails, a title that is not there; or it is done.
Ends(r) == In(r) /\ Leaves(r) /\ UNCHANGED <<valid, failures, addonKey, mode, title>>

MayCall(r) == request[r].place \in Token => Allowed(request[r].place, request[r].route.scope)

\* The calls that change nothing of what is here.
Looks == {"settings", "search", "list", "status", "get", "files", "link", "open", "send", "preview", "run"}

\* What a token has to be allowed for a call of the services that has an effect.
Asks(call) == CASE call \in {"add", "select", "remove", "run", "preview"} -> {"write"}
                [] call \in {"link", "open", "send"} -> {"link"}
                [] OTHER -> {}

\* `with`: what the call needs of the title; the call is done, the others are to come.
Does(r, call) ==
  /\ In(r) /\ MayCall(r)
  /\ request[r].route.calls # <<>> /\ call = Head(request[r].route.calls)
  /\ Becomes(r, [request[r] EXCEPT !.route.calls = Tail(@), !.done = @ \cup Asks(call)])

Reads(r) == \E call \in Looks :
  /\ Does(r, call)
  /\ call \in {"get", "files", "link", "open", "send", "run"} => title[request[r].title] # "none"
  /\ UNCHANGED <<valid, failures, places, addonKey, mode, title>>

\* TransferService.add: a new title, or the one that is there; it may be ready.
Adds(r) == LET t == request[r].title IN
  /\ Does(r, "add")
  /\ \E life \in {"queued", "registering", "managed"} : title' = [title EXCEPT ![t] = life]
  /\ UNCHANGED <<valid, failures, places, addonKey, mode>>

\* What is seen here decides, when the request's body has come, whether to add.
LooksFirst(r) == LET q == request[r] IN
  /\ In(r) /\ MayCall(r)
  /\ q.route.calls # <<>> /\ Head(q.route.calls) = "look" /\ title[q.title] # "none"
  /\ Becomes(r, [q EXCEPT !.route.calls = IF title[q.title] = "registering" THEN <<"add">> \o Tail(@) ELSE Tail(@)])
  /\ UNCHANGED <<valid, failures, places, addonKey, mode, title>>

\* A stream of the addon: a release of search, which is no transfer, or a transfer
\* that it may bring on its way.
Plays(r) == LET t == request[r].title IN
  /\ Does(r, "play")
  /\ \/ UNCHANGED title
     \/ title[t] # "none" /\ \E life \in {"registering", "managed"} : title' = [title EXCEPT ![t] = life]
  /\ UNCHANGED <<valid, failures, places, addonKey, mode>>

\* A selection, and a link that prepares its title: it has to be managed.
Prepares(r) == /\ Does(r, "select") \/ Does(r, "prepare")
               /\ title[request[r].title] = "managed"
               /\ UNCHANGED <<valid, failures, places, addonKey, mode, title>>

Removes(r) == LET t == request[r].title IN
  /\ Does(r, "remove") /\ title[t] # "none"
  /\ title' = [title EXCEPT ![t] = "none"]
  /\ UNCHANGED <<valid, failures, places, addonKey, mode>>

\* The administrator's own: tokens, the addon key, settings.
Revokes(r, k) == /\ Does(r, "revoke")
                 /\ valid' = valid \ {k}
                 /\ UNCHANGED <<failures, places, addonKey, mode, title>>

\* A new token: none that a request still goes by.
Issues(r, k) == /\ Does(r, "issue")
                /\ \A q \in Request : k \notin {request[q].who, request[q].place}
                /\ valid' = valid \cup {k}
                /\ UNCHANGED <<failures, places, addonKey, mode, title>>

Rotates(r) == /\ Does(r, "rotate")
              /\ addonKey < MaxKeys /\ addonKey' = addonKey + 1
              /\ UNCHANGED <<valid, failures, places, mode, title>>

Saves(r) == /\ Does(r, "save")
            /\ mode' \in {"both", "search"}
            /\ UNCHANGED <<valid, failures, places, addonKey, title>>

DoorNext ==
  \/ \E r \in Request :
       \/ \E t \in Title, k \in Token, route \in TokenRoutes : Authenticates(r, k, route, t)
       \/ Enters(r) \/ Ends(r) \/ Reads(r) \/ Adds(r) \/ LooksFirst(r) \/ Plays(r) \/ Prepares(r)
       \/ Removes(r) \/ Rotates(r) \/ Saves(r)
       \/ \E t \in Title, route \in Routes :
            \/ EntersDownload(r, route, t) \/ EntersAdmin(r, route, t)
            \/ \E n \in 1..MaxKeys : EntersAddon(r, n, route, t)
       \/ \E k \in Token : Revokes(r, k) \/ Issues(r, k)
  \/ FailuresEnd

DoorSpec == DoorInit /\ [][DoorNext]_doorVars
-----------------------------------------------------------------------------
\* What a request with a token has done, it has done in a place it took while the
\* token was valid, and with the scopes the calls are of, whichever door it came
\* through: a revocation may come before or after authentication, while its write
\* is under way, or between two calls (store/access.ts, sqlite/access.ts:56-88).
EffectsAllowed ==
  \A r \in Request : LET q == request[r] IN
    q.place \in Token /\ q.done # {} => q.honest /\ q.done \subseteq Scopes[q.place]

\* The places of tokens and pools are those of the requests that are under way: none
\* is lost when a request fails, ends early, or its token is revoked, and none is
\* given back twice (security/admission.ts:15-22, sqlite/access.ts:78-89).
PlacesExact == \A p \in Pool : /\ places[p] = Cardinality({r \in Request : request[r].place = p})
                               /\ places[p] <= PlacesOf(p)
=============================================================================
