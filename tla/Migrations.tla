----------------------------- MODULE Migrations -----------------------------
(* migrate.ts: a runner reads which files are recorded, once, and applies   *)
(* the others in order, each in a transaction of its own together with its  *)
(* row in schema_migrations.  Two runners may be at work (a deployment and  *)
(* a developer, a deployment tried again); a file's SQL may fail, and a     *)
(* runner may die anywhere.  What the SQL does is external: run a second    *)
(* time it may fail or work.                                                *)
EXTENDS Integers, FiniteSets

CONSTANTS
  Runner,  \* processes that run the migrations
  Files    \* number of files, named in the order they are applied

ASSUME MigrationParameters == Files \in Nat

VARIABLES
  effects,   \* how often the SQL of each file has been committed
  recorded,  \* schema_migrations
  runnerAt,  \* where each runner stands
  nextFile,  \* the file it has come to
  doneFiles  \* the files it has read as recorded

migrationVars == <<effects, recorded, runnerAt, nextFile, doneFiles>>

File == 1 .. Files
RunnerPlace == {"out", "loop", "sql", "insert", "commit", "stopped"}

MigrationsInit ==
  /\ effects = [f \in File |-> 0]
  /\ recorded = {}
  /\ runnerAt = [p \in Runner |-> "out"]
  /\ nextFile = [p \in Runner |-> 1]
  /\ doneFiles = [p \in Runner |-> {}]

(* The table is created if need be and read. *)
StartRunner(p) ==
  /\ runnerAt[p] \in {"out", "stopped"}
  /\ runnerAt' = [runnerAt EXCEPT ![p] = "loop"]
  /\ nextFile' = [nextFile EXCEPT ![p] = 1]
  /\ doneFiles' = [doneFiles EXCEPT ![p] = recorded]
  /\ UNCHANGED <<effects, recorded>>

Leave(p) == runnerAt' = [runnerAt EXCEPT ![p] = "stopped"]

(* Skipped, or BEGIN; behind the last file the runner is done. *)
NextFile(p) ==
  /\ runnerAt[p] = "loop"
  /\ \/ nextFile[p] > Files /\ Leave(p) /\ UNCHANGED nextFile
     \/ /\ nextFile[p] \in doneFiles[p]
        /\ nextFile' = [nextFile EXCEPT ![p] = @ + 1]
        /\ UNCHANGED runnerAt
     \/ /\ nextFile[p] \in File \ doneFiles[p]
        /\ runnerAt' = [runnerAt EXCEPT ![p] = "sql"]
        /\ UNCHANGED nextFile
  /\ UNCHANGED <<effects, recorded, doneFiles>>

(* The statements of the file, inside the transaction. *)
RunSql(p) ==
  /\ runnerAt[p] = "sql"
  /\ runnerAt' = [runnerAt EXCEPT ![p] = "insert"]
  /\ UNCHANGED <<effects, recorded, nextFile, doneFiles>>

(* Another transaction holds the same key until it ends. *)
KeyIsHeld(p) ==
  \E q \in Runner \ {p} : runnerAt[q] = "commit" /\ nextFile[q] = nextFile[p]

(* Mutant of InsertRow: ON CONFLICT DO NOTHING. *)
InsertRowIfNew(p) ==
  /\ runnerAt[p] = "insert"
  /\ ~ KeyIsHeld(p)
  /\ runnerAt' = [runnerAt EXCEPT ![p] = "commit"]
  /\ UNCHANGED <<effects, recorded, nextFile, doneFiles>>

(* The row of the file, with its primary key: a second one is an error.     *)
InsertRow(p) ==
  /\ runnerAt[p] = "insert"
  /\ ~ KeyIsHeld(p)
  /\ nextFile[p] \notin recorded
  /\ runnerAt' = [runnerAt EXCEPT ![p] = "commit"]
  /\ UNCHANGED <<effects, recorded, nextFile, doneFiles>>

CommitFile(p) ==
  /\ runnerAt[p] = "commit"
  /\ effects' = [effects EXCEPT ![nextFile[p]] = @ + 1]
  /\ recorded' = recorded \cup {nextFile[p]}
  /\ runnerAt' = [runnerAt EXCEPT ![p] = "loop"]
  /\ nextFile' = [nextFile EXCEPT ![p] = @ + 1]
  /\ UNCHANGED doneFiles

(* An error of the SQL, a refused key, or the death of the process: the     *)
(* transaction is rolled back and no later file is run.                     *)
StopRunner(p) ==
  /\ runnerAt[p] \notin {"out", "stopped"}
  /\ Leave(p)
  /\ UNCHANGED <<effects, recorded, nextFile, doneFiles>>

MigrationsNext ==
  \E p \in Runner : \/ StartRunner(p) \/ NextFile(p) \/ RunSql(p)
                    \/ InsertRow(p) \/ CommitFile(p) \/ StopRunner(p)

MigrationsSpec == MigrationsInit /\ [][MigrationsNext]_migrationVars
-----------------------------------------------------------------------------
MigrationsTypeOK ==
  /\ effects \in [File -> Nat]
  /\ recorded \in SUBSET File
  /\ runnerAt \in [Runner -> RunnerPlace]
  /\ nextFile \in [Runner -> 1 .. Files + 1]
  /\ doneFiles \in [Runner -> SUBSET File]

(* "A partially-applied migration is never recorded" (migrate.ts:26-31),    *)
(* and more: with any number of runners that start from a stale reading and *)
(* die anywhere, the SQL of a file takes effect exactly once if the file is *)
(* recorded and not at all otherwise, and never before that of the files    *)
(* ahead of it.                                                             *)
AppliedOnceInOrder ==
  /\ \A f \in File : effects[f] = IF f \in recorded THEN 1 ELSE 0
  /\ \A f \in recorded : 1 .. f \subseteq recorded
=============================================================================
