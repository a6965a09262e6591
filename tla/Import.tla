------------------------------- MODULE Import -------------------------------
(***************************************************************************)
(* How a data directory comes up (openState, src/state/init.ts) under      *)
(* either driver, and its move from JSON files to SQLite                   *)
(* (src/state/importer.ts).  Any call may fail and the process may die     *)
(* between any two; the start is then made again.  Files are numbered in   *)
(* the order in which they are opened: settings, downloads, store, addon,  *)
(* idempotency, jobs.                                                      *)
(***************************************************************************)
EXTENDS Naturals

CONSTANTS NFiles,       \* six
          NImported,    \* the first four go into the database
          Rewritten,    \* those whose old versions open() rewrites at once
          Contents, Fresh,  \* contents; those of a fresh installation
          NoDocument,
          Back          \* may the JSON driver be tried after an import was cut off

Files == 1..NFiles
Imported == 1..NImported

ASSUME ImportAssumption == /\ NFiles \in Nat /\ NImported \in 1..NFiles
                           /\ Rewritten \subseteq Imported
                           /\ Fresh \in Contents
                           /\ Back \in BOOLEAN

\* A JSON file, written by this release or by an earlier one.
Document == [legacy : BOOLEAN, data : Contents]

ASSUME AbsentAssumption == NoDocument \notin Contents \cup Document

VARIABLES json,     \* the files at their paths
          db,       \* the database: instance_id, imported_at are set; each table's contents
          phase, n,    \* where the process is, and the file it is at
          driver,   \* DEBRIDARR_STATE of this start
          held,     \* what is in memory
          settled,  \* history: SQLite has served
          truth     \* history: what was served last, or came from an earlier release

importVars == <<json, db, phase, n, driver, held, settled, truth>>

ImportGoes(to, file) == phase' = to /\ n' = file
-----------------------------------------------------------------------------
\* A new directory, or one of an earlier release: it had settings, and some of the
\* others, whose schema may be an old one.
ImportInit == /\ json \in [Files -> Document \cup {NoDocument}]
              /\ json[1] = NoDocument => \A f \in Files : json[f] = NoDocument
              /\ \A f \in Files : json[f] # NoDocument /\ f \notin Imported => ~json[f].legacy
              /\ truth = [f \in Files |-> IF json[f] = NoDocument THEN NoDocument ELSE json[f].data]
              /\ db = [established |-> FALSE, imported |-> FALSE, data |-> [f \in Files |-> NoDocument]]
              /\ phase = "down" /\ n = 1
              /\ driver = "sqlite"
              /\ held = [f \in Files |-> NoDocument]
              /\ settled = FALSE

StartJson == /\ phase = "down"
             /\ ~settled /\ (db.established => Back /\ db.imported)
             /\ driver' = "json"
             /\ ImportGoes("opens", 1)
             /\ held' = [f \in Files |-> NoDocument]
             /\ UNCHANGED <<json, db, settled, truth>>

\* importState: state was established before; or there is no settings.json, and
\* this is a fresh installation; or the files are to be imported.
StartSqlite == /\ phase = "down"
               /\ driver' = "sqlite"
               /\ IF db.established \/ json[1] = NoDocument
                  THEN db' = [db EXCEPT !.established = TRUE] /\ ImportGoes("seeds", 1)
                  ELSE UNCHANGED db /\ ImportGoes("opens", 1)
               /\ held' = [f \in Files |-> NoDocument]
               /\ UNCHANGED <<json, settled, truth>>

LastFile == IF driver = "json" THEN NFiles ELSE NImported

\* After the last file the repositories are served, or written to the database.
Opened(h) == /\ held' = h
             /\ IF n < LastFile
                THEN ImportGoes("opens", n + 1) /\ UNCHANGED truth
                ELSE IF driver = "sqlite"
                     THEN ImportGoes("commits", 1) /\ UNCHANGED truth
                     ELSE /\ ImportGoes("serves", 1)
                          /\ truth' = [f \in Files |-> IF truth[f] = NoDocument THEN h[f] ELSE truth[f]]

ReadsFile == /\ phase = "opens"
             /\ json[n] # NoDocument
             /\ json' = IF n \in Rewritten THEN [json EXCEPT ![n].legacy = FALSE] ELSE json
             /\ Opened([held EXCEPT ![n] = json[n].data])
             /\ UNCHANGED <<db, driver, settled>>

\* A file that is missing is seeded and written, by the importer too.
SeedsFile == /\ phase = "opens"
             /\ json[n] = NoDocument
             /\ json' = [json EXCEPT ![n] = [legacy |-> FALSE, data |-> Fresh]]
             /\ Opened([held EXCEPT ![n] = Fresh])
             /\ UNCHANGED <<db, driver, settled>>

\* Mutant: instance_id is set before the transaction.
CommitsAfterMark == /\ phase = "commits"
                    /\ IF db.established
                       THEN /\ db' = [db EXCEPT !.imported = TRUE,
                                            !.data = [f \in Files |-> IF f \in Imported THEN held[f] ELSE @[f]]]
                            /\ ImportGoes("moves", 1)
                       ELSE db' = [db EXCEPT !.established = TRUE] /\ UNCHANGED <<phase, n>>
                    /\ UNCHANGED <<json, driver, held, settled, truth>>

\* BEGIN to COMMIT: the rows, instance_id and imported_at.
Commits == /\ phase = "commits"
           /\ db' = [established |-> TRUE, imported |-> TRUE,
                     data |-> [f \in Files |-> IF f \in Imported THEN held[f] ELSE db.data[f]]]
           /\ ImportGoes("moves", 1)
           /\ UNCHANGED <<json, driver, held, settled, truth>>

\* Each imported file is moved to the backup directory.
Moves == /\ phase = "moves"
         /\ json' = [json EXCEPT ![n] = NoDocument]
         /\ IF n < NImported THEN ImportGoes("moves", n + 1) ELSE ImportGoes("seeds", 1)
         /\ UNCHANGED <<db, driver, held, settled, truth>>

\* The repositories over the database seed what has no row: settings, secrets.
OpensTables == /\ phase = "seeds"
               /\ db' = [db EXCEPT !.data = [f \in Files |-> IF @[f] = NoDocument THEN Fresh ELSE @[f]]]
               /\ held' = db'.data
               /\ truth' = [f \in Files |-> IF truth[f] = NoDocument THEN held'[f] ELSE truth[f]]
               /\ settled' = TRUE
               /\ ImportGoes("serves", 1)
               /\ UNCHANGED <<json, driver>>

\* An update is durable when it is acknowledged, whichever driver keeps it.
Updates(f, v) == /\ phase = "serves"
                 /\ held' = [held EXCEPT ![f] = v]
                 /\ truth' = [truth EXCEPT ![f] = v]
                 /\ IF driver = "json"
                    THEN json' = [json EXCEPT ![f] = [legacy |-> FALSE, data |-> v]] /\ UNCHANGED db
                    ELSE db' = [db EXCEPT !.data[f] = v] /\ UNCHANGED json
                 /\ UNCHANGED <<phase, n, driver, settled>>

\* It stops, crashes, or a call fails and with it the start; the transaction, if
\* one was open, is rolled back.
StartEnds == /\ phase # "down"
             /\ ImportGoes("down", 1)
             /\ UNCHANGED <<json, db, driver, held, settled, truth>>

ImportNext == \/ StartJson \/ StartSqlite
              \/ ReadsFile \/ SeedsFile \/ Commits \/ Moves \/ OpensTables
              \/ \E f \in Files, v \in Contents : Updates(f, v)
              \/ StartEnds

ImportSpec == ImportInit /\ [][ImportNext]_importVars
-----------------------------------------------------------------------------
\* Every variable keeps its type, and files are moved only when they are in the
\* database.
ImportTypeOK == /\ json \in [Files -> Document \cup {NoDocument}]
                /\ db \in [established : BOOLEAN, imported : BOOLEAN, data : [Files -> Contents \cup {NoDocument}]]
                /\ phase \in {"down", "opens", "commits", "moves", "seeds", "serves"}
                /\ n \in Files
                /\ driver \in {"json", "sqlite"}
                /\ held \in [Files -> Contents \cup {NoDocument}]
                /\ settled \in BOOLEAN
                /\ truth \in [Files -> Contents \cup {NoDocument}]
                /\ phase = "moves" => db.established /\ n \in Imported

Serves(S) == phase = "serves" => \A f \in S : held[f] = truth[f]

\* The program comes up with the settings, downloads, tokens and keys it last
\* served, whatever drivers it had and wherever starts and imports were cut off
\* ("a failure at any point leaves the JSON files as the sole, untouched source of
\* truth", importer.ts:25).
Continuity == Serves(Imported)

\* It comes up with all of its state, jobs and stored responses too ("If you have
\* existing JSON state files ..., the first SQLite startup imports them",
\* docs/configuration.md:64).
NothingLeftBehind == Serves(Files)
=============================================================================
