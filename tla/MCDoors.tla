------------------------------ MODULE MCDoors ------------------------------
(***************************************************************************)
(* Seven parts of the way between a client and the transfers that share no   *)
(* state with one another, each explored in a scene of its own: the doors, *)
(* the sign-in, the lists and pages, the mount, the search, the shared     *)
(* list of the backend and the archive.                                    *)
(***************************************************************************)
EXTENDS FrontDoors, Logins, Listing, Search, Snapshots, Zip, TLC

CONSTANTS reader, writer
VARIABLE scene

MCScopes == reader :> {"read", "link"} @@ writer :> {"read", "write"}

\* The first and the third hash begin alike; a torrent may be named as a folder is.
MCShortId == 1 :> 11 @@ 2 :> 12 @@ 3 :> 11
MCName == {<<0>>, <<0, 11>>}
MCPath == {<<"s", "a">>, <<"s", "t", "b">>}

\* The first source is to find French, the second anything.
MCPrefers == <<{"fr"}, {}>>
Found(k, usable, is, languages, seeders) ==
  [key |-> k, usable |-> usable, is |-> is, languages |-> languages, seeders |-> seeders]
MCRelease == {Found(1, TRUE, "episode", {"en"}, 5), Found(1, TRUE, "other", {}, 9),
              Found(2, TRUE, "episode", {"multi"}, 5), Found(3, TRUE, "series", {}, 2),
              Found(4, TRUE, "pack", {"fr"}, 1), Found(5, FALSE, "episode", {}, 5)}

mcVars == <<scene, doorVars, loginVars, listingVars, searchVars, snapshotVars, zipVars>>

Init == /\ scene \in {"doors", "login", "pages", "mount", "search", "snapshot", "zip"}
        /\ DoorInit /\ LoginInit /\ ListingInit /\ SearchInit /\ SnapshotInit /\ ZipInit

Pages == \/ \E id \in Id, life \in {"managed", "failed"} : Upserts(id, <<0>>, life)
         \/ \E id \in Id : Unshelves(id)
         \/ \E kind \in {"cursor", "offset"}, limit \in PageSize : BeginsWalk(kind, limit)
         \/ ReadsCursorPage \/ ReadsOffsetPage \/ EndsWalk \/ ClockTicks

Mount == \/ \E id \in Id, name \in Name, life \in {"managed", "queued"} : Upserts(id, name, life)
         \/ \E id \in Id : Unshelves(id) \/ \E path \in Path : Completes(id, path)

Doors == /\ scene = "doors" /\ DoorNext
         /\ UNCHANGED <<scene, loginVars, listingVars, searchVars, snapshotVars, zipVars>>
SignIn == /\ scene = "login" /\ LoginNext
          /\ UNCHANGED <<scene, doorVars, listingVars, searchVars, snapshotVars, zipVars>>
Browsing == /\ \/ scene = "pages" /\ Pages
               \/ scene = "mount" /\ Mount
            /\ UNCHANGED <<scene, doorVars, loginVars, searchVars, snapshotVars, zipVars>>
Searching == /\ scene = "search" /\ SearchNext
             /\ UNCHANGED <<scene, doorVars, loginVars, listingVars, snapshotVars, zipVars>>
Viewing == /\ scene = "snapshot" /\ SnapshotNext
           /\ UNCHANGED <<scene, doorVars, loginVars, listingVars, searchVars, zipVars>>
Archiving == /\ scene = "zip" /\ ZipNext
             /\ UNCHANGED <<scene, doorVars, loginVars, listingVars, searchVars, snapshotVars>>

Next == Doors \/ SignIn \/ Browsing \/ Searching \/ Viewing \/ Archiving
Spec == Init /\ [][Next]_mcVars
Symmetry == Permutations(Request) \cup Permutations(Viewer)
=============================================================================
