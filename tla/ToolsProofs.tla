----------------------------- MODULE ToolsProofs -----------------------------
(***************************************************************************)
(* Proofs about the parts MCTools checks, each on its own and for every     *)
(* value of its constants:                                                  *)
(*                                                                          *)
(*   MigrationsApply    []AppliedOnceInOrder                                *)
(*   SourcesCount       []FindsAreCounted                                   *)
(*   FeedbackReaches    []UnreadHasACause                                   *)
(*   FetchesBlock       []BlockedIsAStreak                                  *)
(*   FetchesOwnOutcomes   OnlyOwnOutcomes                                   *)
(*   FilesReadBack      []WritesReadBack                                    *)
(*   FilesKeepTowns       TownsKept                                         *)
(*   CasesCalendar      []ICalReportsCalendar, by FetchReports             *)
(*   ToolsTyped         []ToolsTypeOK, of all of them side by side          *)
(***************************************************************************)
EXTENDS MCTools, DataLemmas

-----------------------------------------------------------------------------
(* Migrations. *)

(* What a runner knows is true: the files behind it and those it has read   *)
(* as recorded are recorded, and the key of the row it has inserted is      *)
(* neither recorded nor held by anybody else.                               *)
RunnerInv ==
  \A p \in Runner :
    /\ doneFiles[p] \subseteq recorded
    /\ runnerAt[p] \in {"loop", "sql", "insert", "commit"} =>
         \A f \in File : f < nextFile[p] => f \in recorded
    /\ runnerAt[p] \in {"sql", "insert", "commit"} => nextFile[p] \in File
    /\ runnerAt[p] = "commit" =>
         /\ nextFile[p] \notin recorded
         /\ ~ KeyIsHeld(p)

SegmentInv ==
  /\ \A f \in File : effects[f] = IF f \in recorded THEN 1 ELSE 0
  /\ \A f \in recorded, g \in File : g < f => g \in recorded

MigrationsInv == MigrationsTypeOK /\ RunnerInv /\ SegmentInv

(* A new database has no migration recorded and none in effect.             *)
LEMMA MigrationsInitially == MigrationsInit => MigrationsInv
  BY MigrationParameters
  DEF MigrationsInit, MigrationsInv, MigrationsTypeOK, RunnerInv, SegmentInv,
      KeyIsHeld, File, RunnerPlace

(* A step that leaves the tables alone and moves one runner, which then     *)
(* knows nothing that is not true, keeps the invariant.                     *)
LEMMA RunnerMoves ==
  ASSUME MigrationsInv,
         UNCHANGED <<effects, recorded>>,
         NEW p \in Runner,
         NEW at \in RunnerPlace, runnerAt' = [runnerAt EXCEPT ![p] = at],
         NEW n \in 1 .. Files + 1, nextFile' = [nextFile EXCEPT ![p] = n],
         NEW D \in SUBSET recorded, doneFiles' = [doneFiles EXCEPT ![p] = D],
         at \in {"loop", "sql", "insert", "commit"} =>
           \A f \in File : f < n => f \in recorded,
         at \in {"sql", "insert", "commit"} => n \in File,
         at = "commit" => /\ n \notin recorded
                          /\ n = nextFile[p]
                          /\ ~ KeyIsHeld(p)
  PROVE  MigrationsInv'
<1>1. MigrationsTypeOK'
  BY DEF MigrationsInv, MigrationsTypeOK
<1>2. RunnerInv'
  <2> SUFFICES ASSUME NEW q \in Runner
               PROVE  /\ doneFiles'[q] \subseteq recorded
                      /\ runnerAt'[q] \in {"loop", "sql", "insert", "commit"} =>
                           \A f \in File : f < nextFile'[q] => f \in recorded
                      /\ runnerAt'[q] \in {"sql", "insert", "commit"} =>
                           nextFile'[q] \in File
                      /\ runnerAt'[q] = "commit" =>
                           /\ nextFile'[q] \notin recorded
                           /\ ~ KeyIsHeld(q)'
    BY DEF RunnerInv, File
  <2>1. CASE q = p
    BY <2>1 DEF MigrationsInv, MigrationsTypeOK, RunnerInv, KeyIsHeld
  <2>2. CASE q # p
    <3>1. /\ runnerAt'[q] = runnerAt[q]
          /\ nextFile'[q] = nextFile[q]
          /\ doneFiles'[q] = doneFiles[q]
      BY <2>2 DEF MigrationsInv, MigrationsTypeOK
    <3>2. ASSUME runnerAt[q] = "commit"
          PROVE  ~ KeyIsHeld(q)'
      <4> SUFFICES ASSUME NEW o \in Runner \ {q}, runnerAt'[o] = "commit",
                          nextFile'[o] = nextFile'[q]
                   PROVE  FALSE
        BY DEF KeyIsHeld
      <4>1. ~ KeyIsHeld(q)
        BY <3>2 DEF MigrationsInv, RunnerInv
      <4>2. CASE o # p
        BY <4>1, <4>2, <3>1 DEF MigrationsInv, MigrationsTypeOK, KeyIsHeld
      <4>3. CASE o = p
        <5>1. at = "commit" /\ n = nextFile[p] /\ ~ KeyIsHeld(p)
          BY <4>3 DEF MigrationsInv, MigrationsTypeOK
        <5>2. nextFile[q] = nextFile[p]
          BY <4>3, <5>1, <3>1 DEF MigrationsInv, MigrationsTypeOK
        <5> QED
          BY <5>1, <5>2, <3>2, <2>2 DEF KeyIsHeld
      <4> QED
        BY <4>2, <4>3
    <3> QED
      BY <3>1, <3>2 DEF MigrationsInv, RunnerInv
  <2> QED
    BY <2>1, <2>2
<1>3. SegmentInv'
  BY DEF MigrationsInv, SegmentInv
<1> QED
  BY <1>1, <1>2, <1>3 DEF MigrationsInv

(* The commit: the file's effect and its row, at the end of the segment.    *)
LEMMA CommitKeeps ==
  ASSUME MigrationsInv, NEW p \in Runner, CommitFile(p)
  PROVE  MigrationsInv'
<1> DEFINE n == nextFile[p]
<1> USE MigrationParameters
<1>1. /\ n \in File /\ n \notin recorded /\ runnerAt[p] = "commit"
      /\ \A f \in File : f < n => f \in recorded
  BY DEF CommitFile, MigrationsInv, RunnerInv
<1>2. /\ effects' = [effects EXCEPT ![n] = @ + 1]
      /\ recorded' = recorded \cup {n}
      /\ runnerAt' = [runnerAt EXCEPT ![p] = "loop"]
      /\ nextFile' = [nextFile EXCEPT ![p] = @ + 1]
      /\ doneFiles' = doneFiles
  BY DEF CommitFile
<1>3. MigrationsTypeOK'
  <2> USE DEF MigrationsInv, MigrationsTypeOK
  <2>1. effects[n] + 1 \in Nat /\ n + 1 \in 1 .. Files + 1
    BY <1>1 DEF File
  <2>2. effects' \in [File -> Nat]
    BY <1>2, <2>1
  <2>3. recorded' \in SUBSET File
    BY <1>1, <1>2
  <2>4. runnerAt' \in [Runner -> RunnerPlace]
    BY <1>2 DEF RunnerPlace
  <2>5. nextFile' \in [Runner -> 1 .. Files + 1]
    BY <1>2, <2>1
  <2> QED
    BY <1>2, <2>2, <2>3, <2>4, <2>5
<1>4. RunnerInv'
  <2> SUFFICES ASSUME NEW q \in Runner
               PROVE  /\ doneFiles'[q] \subseteq recorded'
                      /\ runnerAt'[q] \in {"loop", "sql", "insert", "commit"} =>
                           \A f \in File : f < nextFile'[q] => f \in recorded'
                      /\ runnerAt'[q] \in {"sql", "insert", "commit"} =>
                           nextFile'[q] \in File
                      /\ runnerAt'[q] = "commit" =>
                           /\ nextFile'[q] \notin recorded'
                           /\ ~ KeyIsHeld(q)'
    BY DEF RunnerInv, File
  <2>1. CASE q = p
    <3>1. runnerAt'[q] = "loop" /\ nextFile'[q] = n + 1 /\ doneFiles'[q] = doneFiles[p]
      BY <2>1, <1>2 DEF MigrationsInv, MigrationsTypeOK
    <3>2. \A f \in File : f < n + 1 => f \in recorded'
      BY <1>1, <1>2 DEF File
    <3> QED
      BY <3>1, <3>2, <1>2 DEF MigrationsInv, RunnerInv
  <2>2. CASE q # p
    <3>1. /\ runnerAt'[q] = runnerAt[q]
          /\ nextFile'[q] = nextFile[q]
          /\ doneFiles'[q] = doneFiles[q]
      BY <2>2, <1>2 DEF MigrationsInv, MigrationsTypeOK
    <3>2. ASSUME runnerAt[q] = "commit"
          PROVE  nextFile[q] # n /\ ~ KeyIsHeld(q)'
      <4>1. ~ KeyIsHeld(q) /\ nextFile[q] # n
        BY <3>2, <2>2, <1>1 DEF MigrationsInv, RunnerInv, KeyIsHeld
      <4>2. \A o \in Runner \ {q} : runnerAt'[o] = "commit" =>
              runnerAt[o] = "commit" /\ nextFile'[o] = nextFile[o]
        BY <1>2 DEF MigrationsInv, MigrationsTypeOK
      <4> QED
        BY <4>1, <4>2, <3>1 DEF KeyIsHeld
    <3> QED
      BY <3>1, <3>2, <1>2 DEF MigrationsInv, RunnerInv
  <2> QED
    BY <2>1, <2>2
<1>5. SegmentInv'
  <2>1. \A f \in File : effects'[f] = IF f \in recorded' THEN 1 ELSE 0
    BY <1>1, <1>2 DEF MigrationsInv, MigrationsTypeOK, SegmentInv
  <2>2. \A f \in recorded', g \in File : g < f => g \in recorded'
    BY <1>1, <1>2 DEF MigrationsInv, SegmentInv
  <2> QED
    BY <2>1, <2>2 DEF SegmentInv
<1> QED
  BY <1>3, <1>4, <1>5 DEF MigrationsInv

(* Every statement of a runner keeps the invariant; COMMIT alone changes    *)
(* what others see.                                                         *)
LEMMA MigrationsStep ==
  ASSUME MigrationsInv, [MigrationsNext]_migrationVars
  PROVE  MigrationsInv'
<1> USE MigrationParameters
<1>0. CASE UNCHANGED migrationVars
  BY <1>0 DEF migrationVars, MigrationsInv, MigrationsTypeOK, RunnerInv,
              SegmentInv, KeyIsHeld, File
<1> SUFFICES ASSUME NEW p \in Runner,
                    \/ StartRunner(p) \/ NextFile(p) \/ RunSql(p)
                    \/ InsertRow(p) \/ CommitFile(p) \/ StopRunner(p)
             PROVE  MigrationsInv'
  BY <1>0 DEF MigrationsNext
<1> DEFINE n == nextFile[p]
<1>1. /\ n \in 1 .. Files + 1 /\ doneFiles[p] \in SUBSET recorded
      /\ nextFile = [nextFile EXCEPT ![p] = n]
      /\ doneFiles = [doneFiles EXCEPT ![p] = @]
      /\ runnerAt = [runnerAt EXCEPT ![p] = @]
  BY DEF MigrationsInv, MigrationsTypeOK, RunnerInv
<1>2. CASE StartRunner(p)
  <2>1. 1 \in 1 .. Files + 1 /\ "loop" \in RunnerPlace
    BY DEF RunnerPlace
  <2>2. /\ UNCHANGED <<effects, recorded>>
        /\ runnerAt' = [runnerAt EXCEPT ![p] = "loop"]
        /\ nextFile' = [nextFile EXCEPT ![p] = 1]
        /\ doneFiles' = [doneFiles EXCEPT ![p] = recorded]
        /\ \A f \in File : f < 1 => f \in recorded
    BY <1>2 DEF StartRunner, File
  <2> QED
    BY <2>1, <2>2, RunnerMoves
<1>3. CASE NextFile(p)
  <2>1. UNCHANGED <<effects, recorded, doneFiles>> /\ runnerAt[p] = "loop"
    BY <1>3 DEF NextFile
  <2>2. \A f \in File : f < n => f \in recorded
    BY <2>1 DEF MigrationsInv, RunnerInv
  <2>3. CASE n > Files /\ Leave(p) /\ UNCHANGED nextFile
    <3>1. PICK to \in RunnerPlace \ {"loop", "sql", "insert", "commit"} :
            runnerAt' = [runnerAt EXCEPT ![p] = to]
      BY <2>3 DEF Leave, RunnerPlace
    <3>2. /\ nextFile' = [nextFile EXCEPT ![p] = n]
          /\ doneFiles' = [doneFiles EXCEPT ![p] = doneFiles[p]]
          /\ doneFiles[p] \in SUBSET recorded /\ n \in 1 .. Files + 1
          /\ UNCHANGED <<effects, recorded>>
      BY <2>1, <2>3, <1>1
    <3> HIDE DEF n
    <3> QED BY <3>1, <3>2, RunnerMoves
  <2>4. CASE /\ n \in doneFiles[p]
             /\ nextFile' = [nextFile EXCEPT ![p] = @ + 1]
             /\ UNCHANGED runnerAt
    <3>1. n \in File /\ n + 1 \in 1 .. Files + 1
      BY <2>4, <1>1 DEF MigrationsInv, MigrationsTypeOK, File
    <3>2. \A f \in File : f < n + 1 => f \in recorded
      BY <2>2, <2>4, <1>1, <3>1 DEF File
    <3>3. /\ runnerAt' = [runnerAt EXCEPT ![p] = "loop"]
          /\ nextFile' = [nextFile EXCEPT ![p] = n + 1]
          /\ doneFiles' = [doneFiles EXCEPT ![p] = doneFiles[p]]
      BY <2>1, <2>4, <1>1
    <3>4. "loop" \in RunnerPlace
      BY DEF RunnerPlace
    <3> DEFINE k == n + 1
    <3>5. /\ k \in 1 .. Files + 1
          /\ \A f \in File : f < k => f \in recorded
          /\ nextFile' = [nextFile EXCEPT ![p] = k]
          /\ UNCHANGED <<effects, recorded>>
      BY <2>1, <3>1, <3>2, <3>3
    <3>6. doneFiles[p] \in SUBSET recorded
      BY <1>1
    <3> HIDE DEF n, k
    <3> QED
      BY <3>3, <3>4, <3>5, <3>6, RunnerMoves
  <2>5. CASE /\ n \in File \ doneFiles[p]
             /\ runnerAt' = [runnerAt EXCEPT ![p] = "sql"]
             /\ UNCHANGED nextFile
    <3>1. "sql" \in RunnerPlace
      BY DEF RunnerPlace
    <3>2. /\ nextFile' = [nextFile EXCEPT ![p] = n]
          /\ doneFiles' = [doneFiles EXCEPT ![p] = doneFiles[p]]
          /\ doneFiles[p] \in SUBSET recorded
          /\ n \in 1 .. Files + 1 /\ n \in File
          /\ UNCHANGED <<effects, recorded>>
      BY <2>1, <2>5, <1>1
    <3> HIDE DEF n
    <3> QED BY <2>2, <2>5, <3>1, <3>2, RunnerMoves
  <2> QED
    BY <1>3, <2>3, <2>4, <2>5 DEF NextFile
<1>4. CASE RunSql(p)
  <2>1. n \in File /\ \A f \in File : f < n => f \in recorded
    BY <1>4 DEF RunSql, MigrationsInv, RunnerInv
  <2> QED
    BY <1>4, <2>1, <1>1, RunnerMoves DEF RunSql, RunnerPlace
<1>5. CASE InsertRow(p)
  <2>1. n \in File /\ \A f \in File : f < n => f \in recorded
    BY <1>5 DEF InsertRow, MigrationsInv, RunnerInv
  <2> QED
    BY <1>5, <2>1, <1>1, RunnerMoves DEF InsertRow, RunnerPlace
<1>6. CASE CommitFile(p)
  BY <1>6, CommitKeeps
<1>7. CASE StopRunner(p)
  BY <1>7, <1>1, RunnerMoves DEF StopRunner, Leave, RunnerPlace
<1> QED
  BY <1>2, <1>3, <1>4, <1>5, <1>6, <1>7

(* In every state what a runner read as recorded is recorded, and the key   *)
(* of a row in an open transaction is its own.                              *)
LEMMA MigrationsInvariant == MigrationsSpec => []MigrationsInv
<1>1. MigrationsInv /\ [MigrationsNext]_migrationVars => MigrationsInv'
  BY MigrationsStep
<1> QED
  BY MigrationsInitially, <1>1, PTL DEF MigrationsSpec

(* Whatever number of runners start from a stale reading and die anywhere,  *)
(* every recorded file has taken effect exactly once, no other has, and the *)
(* recorded files are an initial segment.                                   *)
THEOREM MigrationsApply == MigrationsSpec => []AppliedOnceInOrder
<1>1. MigrationsInv => AppliedOnceInOrder
  BY MigrationParameters
  DEF MigrationsInv, MigrationsTypeOK, SegmentInv, AppliedOnceInOrder, File
<1> QED
  BY MigrationsInvariant, <1>1, PTL

-----------------------------------------------------------------------------
(* Sources. *)

(* The two kinds of tool calls under way. *)
LookCall == [at : {"looked"}, site : Site, status : SourceStatus \cup {Unset}]
SaveCall == [at : {"begun", "inserted", "duplicate"}, key : UrlHash,
             source : Site \cup {Unset}]

(* A transaction that refers to a source has found its row, and the key it  *)
(* has inserted belongs to no row and to no other open transaction.         *)
WritingInv ==
  /\ writing \in [Writer -> LookCall \cup SaveCall \cup {Unset}]
  /\ \A w \in Writer :
       writing[w] \in SaveCall /\ writing[w] # Unset =>
         /\ writing[w].source # Unset => registry[writing[w].source] # Unset
         /\ writing[w].at = "inserted" =>
              /\ writing[w].key \notin FindRows
              /\ \A v \in Writer \ {w} :
                   writing[v] # Unset /\ writing[v].at = "inserted" =>
                     writing[v].key # writing[w].key

(* A source nobody has registered has no find and has lost none. *)
CountInv ==
  /\ IsFiniteSet(FindRows)
  /\ \A s \in Site : registry[s] = Unset => dropped[s] = 0
  /\ FindsAreCounted

SourcesInv == SourcesTypeOK /\ WritingInv /\ CountInv

RowsOf(s) == {k \in UrlHash : saved[k] = s}

(* The finds of a source are finitely many.                                 *)
LEMMA RowsOfSite ==
  ASSUME SourcesInv, NEW s \in Site
  PROVE  /\ RowsOf(s) \subseteq FindRows
         /\ IsFiniteSet(RowsOf(s))
         /\ Cardinality(RowsOf(s)) \in Nat
<1>1. RowsOf(s) \subseteq FindRows
  BY SourcesParameters DEF RowsOf, FindRows
<1>2. IsFiniteSet(RowsOf(s))
  BY <1>1, FS_Subset DEF SourcesInv, CountInv
<1> QED
  BY <1>1, <1>2, FS_CardinalityType

(* No source, no find, no call: the counts are right.                       *)
LEMMA SourcesInitially == SourcesInit => SourcesInv
<1> SUFFICES ASSUME SourcesInit PROVE SourcesInv
  OBVIOUS
<1>1. FindRows = {}
  BY DEF SourcesInit, FindRows
<1>2. IsFiniteSet(FindRows)
  BY <1>1, FS_EmptySet
<1>3. SourcesTypeOK /\ WritingInv
  BY SourcesParameters DEF SourcesInit, SourcesTypeOK, WritingInv, FindRows, SaveCall
<1>4. FindsAreCounted
  BY SourcesParameters DEF SourcesInit, FindsAreCounted
<1> QED
  BY <1>2, <1>3, <1>4 DEF SourcesInv, CountInv, SourcesInit

(* Every statement of upsert_source and save_find keeps the counts.         *)
LEMMA SourcesStep ==
  ASSUME SourcesInv, [SourcesNext]_sourcesVars
  PROVE  SourcesInv'
<1> USE SourcesParameters
<1>0. CASE UNCHANGED sourcesVars
  BY <1>0 DEF sourcesVars, SourcesInv, SourcesTypeOK, WritingInv, CountInv,
              FindRows, FindsAreCounted
<1>1. ASSUME NEW w \in Writer, NEW s \in Site, NEW status \in Given,
             LookForRow(w, s, status)
      PROVE  SourcesInv'
  <2>1. WritingInv'
    BY <1>1 DEF LookForRow, Become, SourcesInv, WritingInv, FindRows, LookCall,
                SaveCall, SourceStatus
  <2> QED
    BY <1>1, <2>1 DEF LookForRow, SourcesInv, SourcesTypeOK, CountInv,
                      FindRows, FindsAreCounted
<1>2. ASSUME NEW w \in Writer, NEW k \in UrlHash, NEW s \in Site,
             LookUpSource(w, k, s)
      PROVE  SourcesInv'
  <2>1. WritingInv'
    BY <1>2 DEF LookUpSource, Become, SourcesInv, WritingInv, FindRows, LookCall,
                SaveCall
  <2> QED
    BY <1>2, <2>1 DEF LookUpSource, SourcesInv, SourcesTypeOK, CountInv,
                      FindRows, FindsAreCounted
<1>3. ASSUME NEW w \in Writer, UpsertRow(w)
      PROVE  SourcesInv'
  <2> DEFINE site == writing[w].site
             stated == writing[w].status
  <2>1. /\ writing[w] \in LookCall /\ writing[w] # Unset
        /\ site \in Site /\ stated \in SourceStatus \cup {Unset}
    BY <1>3 DEF UpsertRow, SourcesInv, WritingInv, LookCall, SaveCall
  <2>2. PICK row \in SourceRow :
          /\ registry' = [registry EXCEPT ![site] = row]
          /\ registry[site] = Unset => row.count = 0
          /\ registry[site] # Unset => row.count = registry[site].count
    <3> DEFINE row == [status |-> IF stated # Unset THEN stated
                                  ELSE IF registry[site] = Unset THEN "active"
                                  ELSE registry[site].status,
                       count |-> IF registry[site] = Unset THEN 0
                                 ELSE registry[site].count]
    <3>1. row \in SourceRow
      BY <2>1 DEF SourcesInv, SourcesTypeOK, SourceRow, SourceStatus
    <3>2. registry' = [registry EXCEPT ![site] = row]
      BY <1>3, <2>1 DEF UpsertRow
    <3> QED
      BY <3>1, <3>2
  <2>3. WritingInv'
    BY <1>3, <2>2 DEF UpsertRow, Become, SourcesInv, SourcesTypeOK, WritingInv,
                      FindRows, SaveCall
  <2>4. FindsAreCounted'
    <3> SUFFICES ASSUME NEW s \in Site
                 PROVE  IF registry'[s] = Unset THEN RowsOf(s) = {}
                        ELSE registry'[s].count = Cardinality(RowsOf(s)) + dropped[s]
      BY <1>3 DEF UpsertRow, FindsAreCounted, RowsOf
    <3>1. CASE s # site
      BY <3>1, <2>1, <2>2 DEF SourcesInv, SourcesTypeOK, CountInv, FindsAreCounted, RowsOf
    <3>2. CASE s = site
      <4>1. registry'[s] = row /\ row # Unset
        BY <3>2, <2>1, <2>2 DEF SourcesInv, SourcesTypeOK
      <4>2. CASE registry[s] = Unset
        <5>1. RowsOf(s) = {} /\ dropped[s] = 0
          BY <4>2 DEF SourcesInv, CountInv, FindsAreCounted, RowsOf
        <5> QED
          BY <3>2, <4>1, <4>2, <5>1, <2>2, FS_EmptySet
      <4>3. CASE registry[s] # Unset
        BY <3>2, <4>1, <4>3, <2>2 DEF SourcesInv, CountInv, FindsAreCounted, RowsOf
      <4> QED
        BY <4>2, <4>3
    <3> QED
      BY <3>1, <3>2
  <2> QED
    BY <1>3, <2>1, <2>2, <2>3, <2>4
    DEF UpsertRow, SourcesInv, SourcesTypeOK, CountInv, FindRows
<1>4. ASSUME NEW w \in Writer, InsertFindRow(w)
      PROVE  SourcesInv'
  <2>1. writing[w] \in SaveCall /\ writing[w] # Unset
    BY <1>4 DEF InsertFindRow, SourcesInv, WritingInv, LookCall, SaveCall
  <2>2. PICK at \in {"duplicate", "inserted"} :
          /\ writing' = [writing EXCEPT ![w].at = at]
          /\ at = "inserted" => writing[w].key \notin FindRows
    BY <1>4 DEF InsertFindRow
  <2>3. \A v \in Writer : writing[v] # Unset /\ writing[v].at = "inserted" =>
          writing[v].key # writing[w].key
    BY <1>4 DEF InsertFindRow, Uncommitted
  <2>4. WritingInv'
    BY <1>4, <2>1, <2>2, <2>3 DEF InsertFindRow, SourcesInv, WritingInv, FindRows,
                                  SaveCall, LookCall
  <2> QED
    BY <1>4, <2>4 DEF InsertFindRow, SourcesInv, SourcesTypeOK, CountInv,
                      FindRows, FindsAreCounted
<1>5. ASSUME NEW w \in Writer, CountFind(w)
      PROVE  SourcesInv'
  <2> DEFINE key == writing[w].key
             source == writing[w].source
  <2>1. /\ writing[w] \in SaveCall /\ writing[w] # Unset
        /\ key \in UrlHash /\ key \notin FindRows
        /\ source \in Site \cup {Unset}
        /\ source # Unset => registry[source] \in SourceRow
    BY <1>5 DEF CountFind, SourcesInv, SourcesTypeOK, WritingInv, LookCall, SaveCall
  <2>2. saved' = [saved EXCEPT ![key] = source]
    BY <1>5 DEF CountFind
  <2>3. /\ source = Unset => registry' = registry
        /\ source # Unset => registry' = [registry EXCEPT ![source].count = @ + 1]
    BY <1>5 DEF CountFind
  <2>4. FindRows' = FindRows \cup {key}
    BY <2>1, <2>2 DEF FindRows, SourcesInv, SourcesTypeOK
  <2>5. IsFiniteSet(FindRows')
    BY <2>4, FS_AddElement DEF SourcesInv, CountInv
  <2>6. SourcesTypeOK'
    BY <1>5, <2>1, <2>2, <2>3 DEF CountFind, SourcesInv, SourcesTypeOK, SourceRow
  <2>7. \A s \in Site : registry'[s] = Unset <=> registry[s] = Unset
    BY <2>1, <2>3, <2>6 DEF SourcesInv, SourcesTypeOK, SourceRow
  <2>8. WritingInv'
    BY <1>5, <2>1, <2>4, <2>7 DEF CountFind, Become, SourcesInv, WritingInv,
                                  SaveCall, LookCall
  <2>9. FindsAreCounted'
    <3> SUFFICES ASSUME NEW s \in Site
                 PROVE  IF registry'[s] = Unset THEN RowsOf(s)' = {}
                        ELSE registry'[s].count = Cardinality(RowsOf(s)') + dropped[s]
      BY <1>5 DEF CountFind, FindsAreCounted, RowsOf
    <3>1. CASE s # source
      <4>1. RowsOf(s)' = RowsOf(s)
        BY <3>1, <2>1, <2>2 DEF RowsOf, FindRows, SourcesInv, SourcesTypeOK
      <4>2. registry'[s] = registry[s]
        BY <3>1, <2>1, <2>3 DEF SourcesInv, SourcesTypeOK
      <4> QED
        BY <4>1, <4>2 DEF SourcesInv, CountInv, FindsAreCounted, RowsOf
    <3>2. CASE s = source
      <4>1. RowsOf(s)' = RowsOf(s) \cup {key} /\ key \notin RowsOf(s)
        BY <3>2, <2>1, <2>2 DEF RowsOf, FindRows, SourcesInv, SourcesTypeOK
      <4>2. Cardinality(RowsOf(s)') = Cardinality(RowsOf(s)) + 1
        BY <4>1, RowsOfSite, FS_AddElement
      <4>3. /\ registry[s] # Unset
            /\ registry'[s].count = registry[s].count + 1
            /\ registry[s].count = Cardinality(RowsOf(s)) + dropped[s]
        BY <3>2, <2>1, <2>3 DEF SourcesInv, SourcesTypeOK, SourceRow, CountInv,
                                FindsAreCounted, RowsOf
      <4>4. dropped[s] \in Nat /\ Cardinality(RowsOf(s)) \in Nat
        BY RowsOfSite DEF SourcesInv, SourcesTypeOK
      <4> QED
        BY <2>7, <4>2, <4>3, <4>4
    <3> QED
      BY <3>1, <3>2
  <2> QED
    BY <1>5, <2>5, <2>6, <2>7, <2>8, <2>9 DEF CountFind, SourcesInv, CountInv
<1>6. ASSUME NEW w \in Writer, ReportDuplicate(w) \/ WriteFails(w)
      PROVE  SourcesInv'
  <2>1. writing' = [writing EXCEPT ![w] = Unset] /\ UNCHANGED <<registry, saved, dropped>>
    BY <1>6 DEF ReportDuplicate, WriteFails, Become
  <2>2. WritingInv'
    BY <2>1 DEF SourcesInv, WritingInv, FindRows, LookCall, SaveCall
  <2> QED
    BY <2>1, <2>2 DEF SourcesInv, SourcesTypeOK, CountInv, FindRows, FindsAreCounted
<1>7. CASE DropLeads
  <2> DEFINE rows == FindRows \cap Leads
             of(s) == RowsOf(s) \cap Leads
  <2>1. \A s \in Site : {k \in rows : saved[k] = s} = of(s)
    BY DEF RowsOf, FindRows
  <2>2. /\ saved' = [k \in UrlHash |-> IF k \in rows THEN "absent" ELSE saved[k]]
        /\ dropped' = [s \in Site |-> dropped[s] + Cardinality(of(s))]
        /\ \A s \in Site : dropped'[s] <= MaxDropped
        /\ UNCHANGED <<registry, writing>>
    BY <1>7, <2>1 DEF DropLeads
  <2>3. FindRows' = FindRows \ Leads
    BY <2>2 DEF FindRows
  <2>4. IsFiniteSet(FindRows')
    BY <2>3, FS_Difference DEF SourcesInv, CountInv
  <2>5. ASSUME NEW s \in Site
        PROVE  /\ RowsOf(s)' = RowsOf(s) \ Leads
               /\ Cardinality(of(s)) \in Nat
               /\ Cardinality(RowsOf(s)') = Cardinality(RowsOf(s)) - Cardinality(of(s))
    <3>1. RowsOf(s)' = RowsOf(s) \ Leads
      BY <2>2 DEF RowsOf, FindRows
    <3>2. IsFiniteSet(of(s))
      BY RowsOfSite, FS_Subset
    <3> QED
      BY <3>1, <3>2, RowsOfSite, FS_Difference, FS_CardinalityType
  <2>6. ASSUME NEW s \in Site
        PROVE  dropped'[s] = dropped[s] + Cardinality(of(s)) /\ dropped[s] \in Nat
    BY <2>2 DEF SourcesInv, SourcesTypeOK
  <2>7. SourcesTypeOK'
    BY <2>2, <2>5, <2>6 DEF SourcesInv, SourcesTypeOK
  <2>8. WritingInv'
    BY <2>2, <2>3 DEF SourcesInv, WritingInv
  <2>9. ASSUME NEW s \in Site
        PROVE  /\ registry'[s] = Unset => dropped'[s] = 0 /\ RowsOf(s)' = {}
               /\ registry'[s] # Unset =>
                    registry'[s].count = Cardinality(RowsOf(s)') + dropped'[s]
    <3>1. CASE registry[s] = Unset
      <4>1. RowsOf(s) = {} /\ dropped[s] = 0
        BY <3>1 DEF SourcesInv, CountInv, FindsAreCounted, RowsOf
      <4>2. Cardinality(of(s)) = 0
        BY <4>1, FS_EmptySet
      <4> QED
        BY <3>1, <4>1, <4>2, <2>2, <2>5, <2>6
    <3>2. CASE registry[s] # Unset
      <4>1. registry[s].count = Cardinality(RowsOf(s)) + dropped[s]
        BY <3>2 DEF SourcesInv, CountInv, FindsAreCounted, RowsOf
      <4> QED
        BY <3>2, <4>1, <2>2, <2>5, <2>6, RowsOfSite
    <3> QED
      BY <3>1, <3>2
  <2> QED
    BY <2>4, <2>7, <2>8, <2>9 DEF SourcesInv, CountInv, FindsAreCounted, RowsOf
<1> QED
  BY <1>0, <1>1, <1>2, <1>3, <1>4, <1>5, <1>6, <1>7 DEF SourcesNext

(* With any number of writers, keys and sources, the count of a source is   *)
(* the number of its finds and of those that were deleted.                  *)
THEOREM SourcesCount == SourcesSpec => []FindsAreCounted
<1>1. SourcesInv /\ [SourcesNext]_sourcesVars => SourcesInv'
  BY SourcesStep
<1>2. SourcesInv => FindsAreCounted
  BY DEF SourcesInv, CountInv
<1> QED
  BY SourcesInitially, <1>1, <1>2, PTL DEF SourcesSpec

-----------------------------------------------------------------------------
(* Feedback. *)

(* What UnreadHasACause asks of one run, and of the runs that count.        *)
ToldTo(f, r) ==
  \/ f \in readers[r].got
  \/ \E full \in SUBSET readers[r].got :
       /\ Cardinality(full) \in Limits
       /\ \A g \in full : given[g] >= given[f]

PassedOver(f, r) == ~readers[r].told /\ given[f] < readers[r].started

Covered(f) ==
  \E r \in DOMAIN readers : Counted(r) /\ (ToldTo(f, r) \/ PassedOver(f, r))

(* The times of what has happened lie in the past. *)
TimesInv ==
  /\ \A f \in DOMAIN given : given[f] <= time
  /\ \A r \in DOMAIN readers : readers[r].started <= time

(* A cutoff that was read stays at or before the cursor, and a run that has *)
(* read its feedback leaves nothing older than itself unread.               *)
ReaderInv ==
  \A r \in DOMAIN readers :
    /\ readers[r].got \subseteq DOMAIN given
    /\ readers[r].cutoff <= lastSuccessfulRunStart
    /\ readers[r].told =>
         \A f \in DOMAIN given :
           given[f] < readers[r].started => Covered(f) \/ ToldTo(f, r)

CursorInv ==
  \A f \in DOMAIN given : given[f] < lastSuccessfulRunStart => Covered(f)

FeedbackInv == FeedbackTypeOK /\ TimesInv /\ ReaderInv /\ CursorInv

(* The fields of a run that reads feedback.                                 *)
LEMMA ReaderFields ==
  ASSUME FeedbackTypeOK, NEW r \in DOMAIN readers
  PROVE  /\ readers[r] \in Reader
         /\ readers[r].started \in 0 .. MaxTime
         /\ readers[r].cutoff \in -1 .. MaxTime
         /\ readers[r].told \in BOOLEAN
<1>1. readers[r] \in Reader
  BY DEF FeedbackTypeOK
<1> QED
  BY <1>1 DEF Reader, Idle

(* The greatest of a bounded set of numbers is one of them.                 *)
LEMMA MaximumIs ==
  ASSUME NEW S \in SUBSET Nat, S # {}, NEW b \in Nat, \A n \in S : n <= b
  PROVE  Maximum(S) \in S /\ \A n \in S : n <= Maximum(S)
<1>1. PICK m \in S : \A n \in S : n <= m
  BY GreatestNatural
<1> QED
  BY <1>1, Zenon DEF Maximum

CursorIsLatest ==
  /\ lastSuccessfulRunStart \in 0 .. MaxTime
  /\ \A r \in DOMAIN readers :
       Counted(r) => readers[r].started <= lastSuccessfulRunStart
  /\ \/ lastSuccessfulRunStart = 0
     \/ \E r \in DOMAIN readers :
          Counted(r) /\ readers[r].started = lastSuccessfulRunStart

(* The cursor is the latest start of a run that counts, or zero.            *)
LEMMA CursorIs == FeedbackTypeOK => CursorIsLatest
<1> SUFFICES ASSUME FeedbackTypeOK PROVE CursorIsLatest
  OBVIOUS
<1> DEFINE S == {0} \cup {readers[r].started :
                            r \in {s \in DOMAIN readers : Counted(s)}}
<1>1. S \subseteq 0 .. MaxTime
  BY ReaderFields, FeedbackParameters
<1>2. Maximum(S) \in S /\ \A n \in S : n <= Maximum(S)
  <2> HIDE DEF S
  <2>1. S # {}
    BY DEF S
  <2>2. S \in SUBSET Nat /\ MaxTime \in Nat /\ \A n \in S : n <= MaxTime
    BY <1>1, FeedbackParameters
  <2> QED
    BY <2>1, <2>2, MaximumIs
<1>3. lastSuccessfulRunStart = Maximum(S)
  BY DEF lastSuccessfulRunStart, Counted
<1> QED
  BY <1>1, <1>2, <1>3 DEF CursorIsLatest

(* Whatever the newest rows are: all of them, or as many as were asked for  *)
(* and none of them older than one that was left.                           *)
LEMMA NewestCover ==
  ASSUME FeedbackTypeOK, NEW rows \in SUBSET DOMAIN given, NEW limit \in Limits,
         NEW chosen \in Newest(rows, limit), NEW f \in rows
  PROVE  \/ f \in chosen
         \/ /\ Cardinality(chosen) \in Limits
            /\ \A g \in chosen : given[g] >= given[f]
<1>1. IsFiniteSet(rows)
  <2>1. rows \subseteq 1 .. Len(given) /\ Len(given) \in Nat
    BY DEF FeedbackTypeOK
  <2> QED
    BY <2>1, FS_Interval, FS_Subset
<1>2. /\ chosen \subseteq rows
      /\ Cardinality(chosen) = IF Cardinality(rows) < limit THEN Cardinality(rows) ELSE limit
      /\ \A c \in chosen, g \in rows \ chosen : given[g] <= given[c]
  BY DEF Newest
<1>3. CASE Cardinality(rows) < limit
  <2>1. chosen = rows
    BY <1>1, <1>2, <1>3, FS_Subset
  <2> QED
    BY <2>1
<1>4. CASE ~ (Cardinality(rows) < limit)
  BY <1>2, <1>4 DEF FeedbackTypeOK
<1> QED
  BY <1>3, <1>4

(* At the start nothing is given and nobody reads.                          *)
LEMMA FeedbackInitially == FeedbackInit => FeedbackInv
<1> SUFFICES ASSUME FeedbackInit PROVE FeedbackInv
  OBVIOUS
<1>1. FeedbackTypeOK
  BY FeedbackParameters DEF FeedbackInit, FeedbackTypeOK
<1> QED
  BY <1>1 DEF FeedbackInit, FeedbackInv, TimesInv, ReaderInv, CursorInv

(* What a step keeps that moves no row of feedback, takes no row from what  *)
(* a run has got, and changes nothing else of a run that counts.            *)
LEMMA CoverageGrows ==
  ASSUME FeedbackTypeOK,
         DOMAIN given \subseteq DOMAIN given',
         \A f \in DOMAIN given : given'[f] = given[f],
         DOMAIN readers \subseteq DOMAIN readers',
         \A r \in DOMAIN readers :
           /\ readers[r].got \subseteq DOMAIN given
           /\ readers[r].got \subseteq readers'[r].got
           /\ Counted(r) => /\ Counted(r)'
                            /\ readers'[r].told = readers[r].told
                            /\ readers'[r].started = readers[r].started,
         NEW f \in DOMAIN given
  PROVE  /\ \A r \in DOMAIN readers : ToldTo(f, r) => ToldTo(f, r)'
         /\ Covered(f) => Covered(f)'
<1>1. ASSUME NEW r \in DOMAIN readers, ToldTo(f, r)
      PROVE  ToldTo(f, r)'
  <2>1. CASE f \in readers[r].got
    BY <2>1 DEF ToldTo
  <2>2. ASSUME NEW full \in SUBSET readers[r].got,
               Cardinality(full) \in Limits,
               \A g \in full : given[g] >= given[f]
        PROVE  ToldTo(f, r)'
    BY <2>2 DEF ToldTo
  <2> QED
    BY <1>1, <2>1, <2>2 DEF ToldTo
<1>2. ASSUME NEW r \in DOMAIN readers, Counted(r), PassedOver(f, r)
      PROVE  PassedOver(f, r)'
  BY <1>2 DEF PassedOver
<1> QED
  BY <1>1, <1>2 DEF Covered

(* A step that changes neither rows nor runs leaves the cursor where it     *)
(* was.                                                                     *)
LEMMA RowsAndRunsStay ==
  ASSUME ReaderInv, CursorInv, UNCHANGED <<given, readers>>
  PROVE  ReaderInv' /\ CursorInv'
<1>1. lastSuccessfulRunStart' = lastSuccessfulRunStart
  BY DEF lastSuccessfulRunStart
<1>2. \A f, r : ToldTo(f, r)' <=> ToldTo(f, r)
  BY DEF ToldTo
<1>3. \A f : Covered(f)' <=> Covered(f)
  BY <1>2 DEF Covered, Counted, PassedOver
<1> QED
  BY <1>1, <1>2, <1>3 DEF ReaderInv, CursorInv

(* Every feedback given, query and end of a run keeps the invariant.        *)
LEMMA FeedbackStep ==
  ASSUME FeedbackInv, [FeedbackNext]_feedbackVars
  PROVE  FeedbackInv'
<1> USE FeedbackParameters
<1> USE DEF FeedbackInv
<1>a. /\ time \in 0 .. MaxTime
      /\ \A f \in DOMAIN given : given[f] \in 0 .. MaxTime
      /\ lastSuccessfulRunStart \in 0 .. MaxTime
      /\ lastSuccessfulRunStart <= time
  <2>1. \A f \in DOMAIN given : given[f] \in 0 .. MaxTime
    BY DEF FeedbackTypeOK
  <2> QED
    BY <2>1, CursorIs DEF FeedbackTypeOK, TimesInv, CursorIsLatest
<1>0. CASE UNCHANGED feedbackVars
  BY <1>0, RowsAndRunsStay DEF feedbackVars, FeedbackTypeOK, TimesInv
<1>1. CASE Tick
  <2>1. FeedbackTypeOK' /\ TimesInv'
    <3>1. \A r \in DOMAIN readers : readers[r].started \in 0 .. MaxTime
      BY ReaderFields
    <3> QED
      BY <1>1, <1>a, <3>1 DEF Tick, FeedbackTypeOK, TimesInv
  <2> QED
    BY <1>1, <2>1, RowsAndRunsStay DEF Tick
<1>2. CASE GiveFeedback
  <2>1. /\ given' = Append(given, time) /\ UNCHANGED <<time, readers>>
        /\ DOMAIN given' = DOMAIN given \cup {Len(given) + 1}
        /\ \A f \in DOMAIN given : given'[f] = given[f]
        /\ given'[Len(given) + 1] = time
    BY <1>2 DEF GiveFeedback, FeedbackTypeOK
  <2>2. FeedbackTypeOK' /\ TimesInv'
    BY <1>2, <2>1, <1>a DEF GiveFeedback, FeedbackTypeOK, TimesInv
  <2>3. lastSuccessfulRunStart' = lastSuccessfulRunStart
    BY <2>1 DEF lastSuccessfulRunStart
  <2>4. \A f \in DOMAIN given : /\ Covered(f) => Covered(f)'
                               /\ \A r \in DOMAIN readers : ToldTo(f, r) => ToldTo(f, r)'
    BY <2>1, CoverageGrows DEF ReaderInv, Counted
  <2>5. ReaderInv'
    <3> SUFFICES ASSUME NEW r \in DOMAIN readers
                 PROVE  /\ readers[r].got \subseteq DOMAIN given'
                        /\ readers[r].cutoff <= lastSuccessfulRunStart
                        /\ readers[r].told =>
                             \A f \in DOMAIN given' :
                               given'[f] < readers[r].started => Covered(f)' \/ ToldTo(f, r)'
      BY <2>1, <2>3 DEF ReaderInv
    <3>1. ~ (time < readers[r].started)
      BY <1>a, ReaderFields DEF TimesInv
    <3> QED
      BY <2>1, <2>4, <3>1 DEF ReaderInv
  <2>6. CursorInv'
    BY <2>1, <2>3, <2>4, <1>a DEF CursorInv
  <2> QED
    BY <2>2, <2>5, <2>6
<1>3. CASE StartReader
  <2> DEFINE new == [started |-> time, state |-> "running", told |-> FALSE,
                     cutoff |-> Idle, got |-> {}]
  <2>1. /\ readers' = Append(readers, new) /\ UNCHANGED <<time, given>>
        /\ DOMAIN readers' = DOMAIN readers \cup {Len(readers) + 1}
        /\ Len(readers) + 1 \notin DOMAIN readers
        /\ \A r \in DOMAIN readers : readers'[r] = readers[r]
        /\ readers'[Len(readers) + 1] = new
    BY <1>3 DEF StartReader, FeedbackTypeOK
  <2>2. new \in Reader
    BY <1>a DEF Reader, RunState, Idle
  <2>3. FeedbackTypeOK' /\ TimesInv'
    BY <1>3, <2>1, <2>2, <1>a DEF StartReader, FeedbackTypeOK, TimesInv
  <2>4. lastSuccessfulRunStart' = lastSuccessfulRunStart
    <3>1. {readers'[r].started : r \in {s \in DOMAIN readers' :
                                         readers'[s].state \in {"success", "capped"}}}
          = {readers[r].started : r \in {s \in DOMAIN readers :
                                         readers[s].state \in {"success", "capped"}}}
      BY <2>1
    <3> QED
      BY <3>1 DEF lastSuccessfulRunStart
  <2>5. \A f \in DOMAIN given : /\ Covered(f) => Covered(f)'
                               /\ \A r \in DOMAIN readers : ToldTo(f, r) => ToldTo(f, r)'
    BY <2>1, CoverageGrows DEF ReaderInv, Counted
  <2>6. ReaderInv'
    BY <2>1, <2>4, <2>5, <1>a DEF ReaderInv, Idle
  <2> QED
    BY <2>1, <2>3, <2>4, <2>5, <2>6 DEF CursorInv
<1>4. ASSUME NEW r \in DOMAIN readers, ReadCutoff(r)
      PROVE  FeedbackInv'
  <2>1. /\ readers' = [readers EXCEPT ![r].cutoff = lastSuccessfulRunStart]
        /\ UNCHANGED <<time, given>> /\ ~ Counted(r)
    BY <1>4 DEF ReadCutoff, Counted
  <2>2. /\ DOMAIN readers' = DOMAIN readers
        /\ \A s \in DOMAIN readers :
             /\ s # r => readers'[s] = readers[s]
             /\ readers'[s].state = readers[s].state
             /\ readers'[s].started = readers[s].started
             /\ readers'[s].told = readers[s].told
             /\ readers'[s].got = readers[s].got
        /\ readers'[r].cutoff = lastSuccessfulRunStart
    BY <2>1, ReaderFields DEF Reader
  <2>3. FeedbackTypeOK' /\ TimesInv'
    <3>1. readers'[r] \in Reader
      BY <2>1, <1>a, ReaderFields DEF Reader, Idle
    <3>2. readers' \in Seq(Reader) /\ Len(readers') = Len(readers)
      BY <2>1, <3>1 DEF FeedbackTypeOK
    <3> QED
      BY <2>1, <2>2, <3>2 DEF FeedbackTypeOK, TimesInv
  <2>4. lastSuccessfulRunStart' = lastSuccessfulRunStart
    <3>1. {readers'[q].started : q \in {s \in DOMAIN readers' :
                                         readers'[s].state \in {"success", "capped"}}}
          = {readers[q].started : q \in {s \in DOMAIN readers :
                                         readers[s].state \in {"success", "capped"}}}
      BY <2>2
    <3> QED
      BY <3>1 DEF lastSuccessfulRunStart
  <2>5. \A f \in DOMAIN given : /\ Covered(f) => Covered(f)'
                               /\ \A s \in DOMAIN readers : ToldTo(f, s) => ToldTo(f, s)'
    BY <2>1, <2>2, CoverageGrows DEF ReaderInv, Counted
  <2>6. ReaderInv'
    BY <2>1, <2>2, <2>4, <2>5, <1>a DEF ReaderInv
  <2> QED
    BY <2>1, <2>3, <2>4, <2>5, <2>6 DEF CursorInv
<1>5. ASSUME NEW r \in DOMAIN readers, ReadRows(r)
      PROVE  FeedbackInv'
  <2> DEFINE since == {f \in DOMAIN given : given[f] >= readers[r].cutoff}
  <2>1. PICK limit \in Limits : \E rows \in Newest(since, limit) :
          readers' = [readers EXCEPT ![r].cutoff = Idle, ![r].told = TRUE,
                                     ![r].got = @ \cup rows]
    BY <1>5 DEF ReadRows
  <2>2. PICK rows \in Newest(since, limit) :
          readers' = [readers EXCEPT ![r].cutoff = Idle, ![r].told = TRUE,
                                     ![r].got = @ \cup rows]
    BY <2>1
  <2>3. UNCHANGED <<time, given>> /\ ~ Counted(r) /\ rows \subseteq DOMAIN given
    BY <1>5 DEF ReadRows, Counted, Newest
  <2>4. /\ DOMAIN readers' = DOMAIN readers
        /\ \A s \in DOMAIN readers :
             /\ s # r => readers'[s] = readers[s]
             /\ readers'[s].state = readers[s].state
             /\ readers'[s].started = readers[s].started
             /\ readers[s].got \subseteq readers'[s].got
        /\ readers'[r].cutoff = Idle
        /\ readers'[r].told
        /\ readers'[r].got = readers[r].got \cup rows
    BY <2>2, ReaderFields DEF Reader
  <2>5. FeedbackTypeOK' /\ TimesInv'
    <3>1. rows \in SUBSET FeedbackId
      BY <2>3 DEF FeedbackTypeOK, FeedbackId
    <3>2. readers'[r] \in Reader
      BY <2>2, <3>1, <1>a, ReaderFields DEF Reader, Idle
    <3>3. readers' \in Seq(Reader) /\ Len(readers') = Len(readers)
      <4>1. /\ readers' = [s \in DOMAIN readers |-> readers'[s]]
            /\ \A s \in DOMAIN readers : readers'[s] \in Reader
        BY <2>2, <2>4, <3>2, ReaderFields
      <4>2. DOMAIN readers = 1 .. Len(readers) /\ Len(readers) \in Nat
        BY DEF FeedbackTypeOK
      <4> QED
        BY <4>1, <4>2, FunctionIsSequence
    <3> QED
      BY <2>3, <2>4, <3>3 DEF FeedbackTypeOK, TimesInv
  <2>6. lastSuccessfulRunStart' = lastSuccessfulRunStart
    <3>1. {readers'[q].started : q \in {s \in DOMAIN readers' :
                                         readers'[s].state \in {"success", "capped"}}}
          = {readers[q].started : q \in {s \in DOMAIN readers :
                                         readers[s].state \in {"success", "capped"}}}
      BY <2>4
    <3> QED
      BY <3>1 DEF lastSuccessfulRunStart
  <2>7. \A f \in DOMAIN given : /\ Covered(f) => Covered(f)'
                               /\ \A s \in DOMAIN readers : ToldTo(f, s) => ToldTo(f, s)'
    BY <2>3, <2>4, CoverageGrows DEF ReaderInv, Counted
  <2>8. ASSUME NEW f \in DOMAIN given
        PROVE  Covered(f)' \/ ToldTo(f, r)'
    <3>1. CASE f \in since
      <4>1. \/ f \in rows
            \/ /\ Cardinality(rows) \in Limits
               /\ \A g \in rows : given[g] >= given[f]
        BY <3>1, NewestCover
      <4>2. rows \in SUBSET readers'[r].got
        BY <2>4
      <4> QED
        BY <4>1, <4>2, <2>3 DEF ToldTo
    <3>2. CASE f \notin since
      <4>1. given[f] < lastSuccessfulRunStart
        BY <3>2, <1>a, ReaderFields DEF ReaderInv
      <4> QED
        BY <4>1, <2>7 DEF CursorInv
    <3> QED
      BY <3>1, <3>2
  <2>9. ReaderInv'
    BY <2>3, <2>4, <2>6, <2>7, <2>8, <1>a DEF ReaderInv, Idle
  <2> QED
    BY <2>3, <2>5, <2>6, <2>7, <2>9 DEF CursorInv
<1>6. ASSUME NEW r \in DOMAIN readers, FinishReader(r)
      PROVE  FeedbackInv'
  <2>1. PICK state \in RunState \ {"running"} :
          readers' = [readers EXCEPT ![r].state = state, ![r].cutoff = Idle]
    BY <1>6 DEF FinishReader
  <2>2. UNCHANGED <<time, given>> /\ ~ Counted(r)
    BY <1>6 DEF FinishReader, Counted
  <2>3. /\ DOMAIN readers' = DOMAIN readers
        /\ \A s \in DOMAIN readers :
             /\ s # r => readers'[s] = readers[s]
             /\ readers'[s].started = readers[s].started
             /\ readers'[s].told = readers[s].told
             /\ readers'[s].got = readers[s].got
             /\ Counted(s) => Counted(s)'
        /\ readers'[r].cutoff = Idle
        /\ readers'[r].state = state
    BY <2>1, <2>2, ReaderFields DEF Reader, Counted
  <2>4. FeedbackTypeOK' /\ TimesInv'
    <3>1. readers'[r] \in Reader
      BY <2>1, <1>a, ReaderFields DEF Reader, Idle
    <3>2. readers' \in Seq(Reader) /\ Len(readers') = Len(readers)
      <4>1. /\ readers' = [s \in DOMAIN readers |-> readers'[s]]
            /\ \A s \in DOMAIN readers : readers'[s] \in Reader
        BY <2>1, <2>3, <3>1, ReaderFields
      <4>2. DOMAIN readers = 1 .. Len(readers) /\ Len(readers) \in Nat
        BY DEF FeedbackTypeOK
      <4> QED
        BY <4>1, <4>2, FunctionIsSequence
    <3> QED
      BY <2>2, <2>3, <3>2 DEF FeedbackTypeOK, TimesInv
  <2>5. \A f \in DOMAIN given : /\ Covered(f) => Covered(f)'
                               /\ \A s \in DOMAIN readers : ToldTo(f, s) => ToldTo(f, s)'
    BY <2>2, <2>3, CoverageGrows DEF ReaderInv
  <2>6. CursorIsLatest'
    <3> HIDE DEF FeedbackInv
    <3> QED
      BY <2>4, CursorIs, PTL
  <2>7. lastSuccessfulRunStart <= lastSuccessfulRunStart'
    BY <2>3, <2>6, CursorIs, ReaderFields DEF CursorIsLatest
  <2>8. ReaderInv'
    <3>1. ASSUME NEW s \in DOMAIN readers
          PROVE  readers'[s].cutoff <= lastSuccessfulRunStart'
      <4>1. readers[s].cutoff \in -1 .. MaxTime /\ readers[s].cutoff <= lastSuccessfulRunStart
        BY ReaderFields DEF ReaderInv
      <4> QED
        BY <4>1, <2>3, <2>6, <2>7, <1>a DEF Idle, CursorIsLatest
    <3> QED
      BY <3>1, <2>2, <2>3, <2>5 DEF ReaderInv
  <2>9. CursorInv'
    <3> SUFFICES ASSUME NEW f \in DOMAIN given, given[f] < lastSuccessfulRunStart'
                 PROVE  Covered(f)'
      BY <2>2 DEF CursorInv
    <3>1. PICK s \in DOMAIN readers :
            Counted(s)' /\ readers'[s].started = lastSuccessfulRunStart'
      BY <1>a, <2>3, <2>6 DEF CursorIsLatest
    <3>2. CASE s # r
      <4>1. Counted(s)
        BY <3>1, <3>2, <2>3 DEF Counted
      <4>2. readers[s].started <= lastSuccessfulRunStart
        BY <4>1, CursorIs DEF CursorIsLatest
      <4> QED
        BY <4>2, <3>1, <2>3, <2>5, <1>a, ReaderFields DEF CursorInv
    <3>3. CASE s = r
      <4>1. given[f] < readers[r].started
        BY <3>1, <3>3, <2>3
      <4>2. CASE readers[r].told
        <5>1. Covered(f) \/ ToldTo(f, r)
          BY <4>1, <4>2 DEF ReaderInv
        <5> QED
          BY <5>1, <3>1, <3>3, <2>3, <2>5 DEF Covered
      <4>3. CASE ~readers[r].told
        <5>1. PassedOver(f, r)'
          BY <4>1, <4>3, <2>2, <2>3 DEF PassedOver
        <5> QED
          BY <5>1, <3>1, <3>3, <2>3 DEF Covered
      <4> QED
        BY <4>2, <4>3
    <3> QED
      BY <3>2, <3>3
  <2> QED
    BY <2>4, <2>8, <2>9
<1>7. ASSUME NEW r \in DOMAIN readers, ReadThrows(r)
      PROVE  FeedbackInv'
  <2>1. /\ readers' = [readers EXCEPT ![r].cutoff = Idle]
        /\ UNCHANGED <<time, given>> /\ ~ Counted(r)
    BY <1>7 DEF ReadThrows, Counted
  <2>2. /\ DOMAIN readers' = DOMAIN readers
        /\ \A s \in DOMAIN readers :
             /\ s # r => readers'[s] = readers[s]
             /\ readers'[s].state = readers[s].state
             /\ readers'[s].started = readers[s].started
             /\ readers'[s].told = readers[s].told
             /\ readers'[s].got = readers[s].got
        /\ readers'[r].cutoff = Idle
    BY <2>1, ReaderFields DEF Reader
  <2>3. FeedbackTypeOK' /\ TimesInv'
    <3>1. readers'[r] \in Reader
      BY <2>1, <1>a, ReaderFields DEF Reader, Idle
    <3>2. readers' \in Seq(Reader) /\ Len(readers') = Len(readers)
      BY <2>1, <3>1 DEF FeedbackTypeOK
    <3> QED
      BY <2>1, <2>2, <3>2 DEF FeedbackTypeOK, TimesInv
  <2>4. lastSuccessfulRunStart' = lastSuccessfulRunStart
    <3>1. {readers'[q].started : q \in {s \in DOMAIN readers' :
                                         readers'[s].state \in {"success", "capped"}}}
          = {readers[q].started : q \in {s \in DOMAIN readers :
                                         readers[s].state \in {"success", "capped"}}}
      BY <2>2
    <3> QED
      BY <3>1 DEF lastSuccessfulRunStart
  <2>5. \A f \in DOMAIN given : /\ Covered(f) => Covered(f)'
                               /\ \A s \in DOMAIN readers : ToldTo(f, s) => ToldTo(f, s)'
    BY <2>1, <2>2, CoverageGrows DEF ReaderInv, Counted
  <2>6. ReaderInv'
    BY <2>1, <2>2, <2>4, <2>5, <1>a DEF ReaderInv, Idle
  <2> QED
    BY <2>1, <2>3, <2>4, <2>5, <2>6 DEF CursorInv
<1> QED
  BY <1>0, <1>1, <1>2, <1>3, <1>4, <1>5, <1>6, <1>7 DEF FeedbackNext

(* With any number of overlapping runs, rows, limits and times, a row of    *)
(* feedback falls behind the cursor untold only when a run that counted was *)
(* told as many rows as it asked for, none older, or was told nothing and   *)
(* started after the row: readFeedbackForAgent itself loses none.           *)
THEOREM FeedbackReaches == FeedbackSpec => []UnreadHasACause
<1>1. FeedbackInv /\ [FeedbackNext]_feedbackVars => FeedbackInv'
  BY FeedbackStep
<1>2. FeedbackInv => UnreadHasACause
  BY DEF FeedbackInv, CursorInv, UnreadHasACause, Covered, ToldTo, PassedOver
<1> QED
  BY FeedbackInitially, <1>1, <1>2, PTL DEF FeedbackSpec

-----------------------------------------------------------------------------
(* Fetches: one pass over the log. *)

(* What the pass carries from row to row. *)
PassState == [streak : [Host -> Nat], done : SUBSET Host, blocked : SUBSET Host]

LogTyped == fetches \in Seq(FetchRow)

(* The window holds the newest rows of the log, as many as it has room      *)
(* for.                                                                     *)
LEMMA LatestType ==
  ASSUME LogTyped
  PROVE  /\ Latest \in Nat /\ Len(fetches) \in Nat
         /\ Latest <= Len(fetches) /\ Latest <= Window
         /\ \A n \in 1 .. Latest : NewestRow(n) \in FetchRow
<1>1. Len(fetches) \in Nat /\ Window \in Nat
  BY FetchParameters DEF LogTyped
<1>2. Latest \in Nat /\ Latest <= Len(fetches) /\ Latest <= Window
  BY <1>1 DEF Latest
<1>3. ASSUME NEW n \in 1 .. Latest PROVE NewestRow(n) \in FetchRow
  <2>1. Len(fetches) + 1 - n \in 1 .. Len(fetches)
    BY <1>1, <1>2
  <2> QED BY <2>1 DEF NewestRow, LogTyped
<1> QED BY <1>1, <1>2, <1>3

(* The pass takes its state to a state.                                     *)
LEMMA ReadRowType ==
  ASSUME NEW s \in PassState, NEW row \in FetchRow
  PROVE  ReadRow(s, row) \in PassState
<1>1. row.host \in Host
  BY DEF FetchRow
<1>2. AddStrike(s, row.host) \in PassState /\ EndStreak(s, row.host) \in PassState
  BY <1>1 DEF PassState, AddStrike, EndStreak
<1> QED BY <1>2 DEF ReadRow

(* readTo is the recursion it is written as. *)
LEMMA ReadToIs ==
  ASSUME LogTyped
  PROVE  /\ readTo[0] = NoStreaks
         /\ \A n \in 1 .. Latest : readTo[n] = ReadRow(readTo[n - 1], NewestRow(n))
<1> DEFINE F == [n \in 1 .. Latest |-> [s \in PassState |-> ReadRow(s, NewestRow(n))]]
<1>1. NoStreaks \in PassState
  BY DEF NoStreaks, PassState
<1>2. F \in [1 .. Latest -> [PassState -> PassState]]
  BY LatestType, ReadRowType
<1>3. Latest \in Nat
  BY LatestType
<1>4. PICK g \in [0 .. Latest -> PassState] :
        g[0] = NoStreaks /\ \A n \in 1 .. Latest : g[n] = F[n][g[n - 1]]
  <2> HIDE DEF F
  <2> QED BY <1>1, <1>2, <1>3, RecursionExists
<1>5. ASSUME NEW n \in 1 .. Latest
      PROVE  g[n] = ReadRow(g[n - 1], NewestRow(n))
  <2>1. n - 1 \in 0 .. Latest
    BY <1>3
  <2> QED BY <1>4, <2>1
<1>6. g = [n \in 0 .. Latest |-> IF n = 0 THEN NoStreaks ELSE ReadRow(g[n - 1], NewestRow(n))]
  <2>1. \A n \in 0 .. Latest : n # 0 => n \in 1 .. Latest
    BY <1>3
  <2> HIDE DEF F
  <2> QED BY <1>4, <1>5, <2>1
<1>7. readTo = [n \in 0 .. Latest |->
                  IF n = 0 THEN NoStreaks ELSE ReadRow(readTo[n - 1], NewestRow(n))]
  BY <1>6, Zenon DEF readTo
<1> QED BY <1>3, <1>7

-----------------------------------------------------------------------------
(* The pass against the definition of a streak. *)

(* The outcomes of a host among the newest n rows of a log. *)
Outcomes(s, h, n) == {i \in 1 .. n : s[Len(s) + 1 - i].host = h}

Refused(s, h, n) ==
  \A i \in Outcomes(s, h, n) : s[Len(s) + 1 - i].klass = "blocked"

Streak(s, h, n) == Cardinality(Outcomes(s, h, n)) >= Strikes /\ Refused(s, h, n)

(* The outcomes of a host among n rows are finitely many.                   *)
LEMMA OutcomesFinite ==
  ASSUME NEW s, NEW h, NEW n \in Nat
  PROVE  /\ IsFiniteSet(Outcomes(s, h, n))
         /\ Cardinality(Outcomes(s, h, n)) \in Nat
<1>1. IsFiniteSet(1 .. n)
  BY FS_Interval
<1> QED BY <1>1, FS_Subset, FS_CardinalityType DEF Outcomes

(* One row further back is one outcome more, or none. *)
LEMMA OutcomesNext ==
  ASSUME NEW s, NEW h, NEW n \in Nat
  PROVE  LET row == s[Len(s) + 1 - (n + 1)]
         IN  /\ row.host = h =>
                  /\ Outcomes(s, h, n + 1) = Outcomes(s, h, n) \cup {n + 1}
                  /\ Cardinality(Outcomes(s, h, n + 1)) = Cardinality(Outcomes(s, h, n)) + 1
                  /\ Refused(s, h, n + 1) <=> Refused(s, h, n) /\ row.klass = "blocked"
             /\ row.host # h =>
                  /\ Outcomes(s, h, n + 1) = Outcomes(s, h, n)
                  /\ Refused(s, h, n + 1) <=> Refused(s, h, n)
<1> DEFINE row == s[Len(s) + 1 - (n + 1)]
           O == Outcomes(s, h, n)
<1>1. 1 .. n + 1 = (1 .. n) \cup {n + 1} /\ n + 1 \notin 1 .. n
  OBVIOUS
<1>2. row.host = h => Outcomes(s, h, n + 1) = O \cup {n + 1} /\ n + 1 \notin O
  BY <1>1 DEF Outcomes
<1>3. row.host # h => Outcomes(s, h, n + 1) = O
  BY <1>1 DEF Outcomes
<1>4. Cardinality(O) \in Nat /\ IsFiniteSet(O)
  BY OutcomesFinite
<1>5. n + 1 \notin O => Cardinality(O \cup {n + 1}) = Cardinality(O) + 1
  <2> HIDE DEF O
  <2> QED BY <1>4, FS_AddElement
<1>6. row.host = h => Refused(s, h, n + 1) <=> Refused(s, h, n) /\ row.klass = "blocked"
  BY <1>2 DEF Refused
<1>7. row.host # h => Refused(s, h, n + 1) <=> Refused(s, h, n)
  BY <1>3 DEF Refused
<1> QED BY <1>2, <1>3, <1>5, <1>6, <1>7

(* What the pass knows of a host after n rows. *)
SoundFor(p, h, n) ==
  /\ h \in p.done <=> ~Refused(fetches, h, n)
  /\ h \notin p.done => p.streak[h] = Cardinality(Outcomes(fetches, h, n))
  /\ h \in p.blocked <=> \E m \in 0 .. n : Streak(fetches, h, m)

(* Before the first row. *)
LEMMA PassStart == NoStreaks \in PassState /\ \A h \in Host : SoundFor(NoStreaks, h, 0)
<1>1. NoStreaks \in PassState
  BY DEF NoStreaks, PassState
<1>2. ASSUME NEW h \in Host PROVE SoundFor(NoStreaks, h, 0)
  <2>1. Outcomes(fetches, h, 0) = {} /\ Cardinality({}) = 0
    BY FS_EmptySet DEF Outcomes
  <2>2. Refused(fetches, h, 0)
    BY <2>1 DEF Refused
  <2>3. ~Streak(fetches, h, 0)
    BY <2>1, FetchParameters DEF Streak
  <2>4. 0 .. 0 = {0}
    OBVIOUS
  <2> QED BY <2>1, <2>2, <2>3, <2>4 DEF SoundFor, NoStreaks
<1> QED BY <1>1, <1>2

(* One more row. *)
LEMMA PassStep ==
  ASSUME NEW p \in PassState, NEW n \in Nat, NewestRow(n + 1) \in FetchRow,
         NEW h \in Host, SoundFor(p, h, n)
  PROVE  SoundFor(ReadRow(p, NewestRow(n + 1)), h, n + 1)
<1> DEFINE row == NewestRow(n + 1)
           q == ReadRow(p, row)
           O == Cardinality(Outcomes(fetches, h, n))
           O1 == Cardinality(Outcomes(fetches, h, n + 1))
           was == \E m \in 0 .. n : Streak(fetches, h, m)
<1>1. /\ row.host = h => /\ O1 = O + 1
                         /\ Refused(fetches, h, n + 1)
                              <=> Refused(fetches, h, n) /\ row.klass = "blocked"
      /\ row.host # h => /\ O1 = O
                         /\ Refused(fetches, h, n + 1) <=> Refused(fetches, h, n)
  <2>1. row = fetches[Len(fetches) + 1 - (n + 1)]
    BY DEF NewestRow
  <2> HIDE DEF row
  <2> QED BY <2>1, OutcomesNext
<1>2. O \in Nat /\ O1 \in Nat /\ Strikes \in Nat
  BY OutcomesFinite, FetchParameters
<1>3. (\E m \in 0 .. n + 1 : Streak(fetches, h, m)) <=> was \/ Streak(fetches, h, n + 1)
  <2>1. 0 .. n + 1 = (0 .. n) \cup {n + 1}
    OBVIOUS
  <2> QED BY <2>1
<1>4. Streak(fetches, h, n) => was
  <2>1. n \in 0 .. n
    OBVIOUS
  <2> QED BY <2>1
<1>5. /\ Streak(fetches, h, n + 1) <=> O1 >= Strikes /\ Refused(fetches, h, n + 1)
      /\ Streak(fetches, h, n) <=> O >= Strikes /\ Refused(fetches, h, n)
  BY DEF Streak
<1>6. /\ h \in p.done <=> ~Refused(fetches, h, n)
      /\ h \notin p.done => p.streak[h] = O
      /\ h \in p.blocked <=> was
  BY DEF SoundFor
<1>7. row.host \in Host /\ p.streak \in [Host -> Nat]
  BY DEF FetchRow, PassState
<1> HIDE DEF O, O1, was
<1>8. /\ h \in q.done <=> ~Refused(fetches, h, n + 1)
      /\ h \notin q.done => q.streak[h] = O1
      /\ h \in q.blocked <=> was \/ Streak(fetches, h, n + 1)
  <2> HIDE DEF row
  <2>1. CASE row.host \in p.done
    BY <1>1, <1>4, <1>5, <1>6, <2>1 DEF ReadRow
  <2>2. CASE row.host \notin p.done /\ row.klass = "blocked"
    <3>1. q = AddStrike(p, row.host)
      BY <2>2 DEF ReadRow
    <3>2. CASE row.host = h
      BY <1>1, <1>2, <1>5, <1>6, <1>7, <2>2, <3>1, <3>2 DEF AddStrike
    <3>3. CASE row.host # h
      BY <1>1, <1>2, <1>4, <1>5, <1>6, <1>7, <2>2, <3>1, <3>3 DEF AddStrike
    <3> QED BY <3>2, <3>3
  <2>3. CASE row.host \notin p.done /\ row.klass # "blocked"
    BY <1>1, <1>4, <1>5, <1>6, <1>7, <2>3 DEF ReadRow, EndStreak, PassState
  <2> QED BY <2>1, <2>2, <2>3
<1> QED BY <1>3, <1>8 DEF SoundFor, O1, was

(* So the pass is right at every row. *)
LEMMA PassIsSound ==
  ASSUME LogTyped
  PROVE  \A n \in 0 .. Latest :
           readTo[n] \in PassState /\ \A h \in Host : SoundFor(readTo[n], h, n)
<1> DEFINE Right(n) == readTo[n] \in PassState /\ \A h \in Host : SoundFor(readTo[n], h, n)
           T == {n \in 0 .. Latest : ~Right(n)}
<1> SUFFICES ASSUME T # {} PROVE FALSE
  OBVIOUS
<1>1. Latest \in Nat
  BY LatestType
<1>2. PICK m \in T : \A k \in T : m <= k
  <2>1. T \in SUBSET Nat
    OBVIOUS
  <2> HIDE DEF T
  <2> QED BY <2>1, LeastNatural
<1>3. m \in 0 .. Latest /\ ~Right(m)
  OBVIOUS
<1>4. CASE m = 0
  BY <1>3, <1>4, PassStart, ReadToIs
<1>5. CASE m # 0
  <2>1. m \in 1 .. Latest /\ m - 1 \in 0 .. Latest /\ m - 1 \in Nat /\ m - 1 + 1 = m
    BY <1>1, <1>3, <1>5
  <2>2. ~ (m <= m - 1)
    BY <2>1
  <2>3. Right(m - 1)
    BY <1>2, <2>1, <2>2
  <2>4. readTo[m] = ReadRow(readTo[m - 1], NewestRow(m)) /\ NewestRow(m) \in FetchRow
    BY <2>1, ReadToIs, LatestType
  <2>5. readTo[m] \in PassState
    BY <2>3, <2>4, ReadRowType
  <2>6. \A h \in Host : SoundFor(ReadRow(readTo[m - 1], NewestRow(m - 1 + 1)), h, m - 1 + 1)
    BY <2>1, <2>3, <2>4, PassStep
  <2> QED BY <1>3, <2>1, <2>4, <2>5, <2>6
<1> QED BY <1>4, <1>5

(* blockedHosts, without its loop. *)
LEMMA BlockedIs ==
  ASSUME LogTyped
  PROVE  /\ blockedHosts \in SUBSET Host
         /\ blockedHosts = {h \in Host : \E n \in 0 .. Latest : Streak(fetches, h, n)}
<1>1. Latest \in 0 .. Latest
  BY LatestType
<1> QED BY <1>1, PassIsSound DEF SoundFor, PassState, blockedHosts

(* Over any log blockedHosts is the set of the hosts whose newest           *)
(* outcomes in the window are a streak of refusals.                         *)
LEMMA BlockedIsRight == LogTyped => BlockedIsAStreak
<1> SUFFICES ASSUME LogTyped PROVE BlockedIsAStreak
  OBVIOUS
<1>1. ASSUME NEW h, NEW n PROVE Streak(fetches, h, n) <=>
         LET outcomes == {i \in 1 .. n : NewestRow(i).host = h}
         IN  /\ Cardinality(outcomes) >= Strikes
             /\ \A i \in outcomes : NewestRow(i).klass = "blocked"
  BY DEF Streak, Refused, Outcomes, NewestRow
<1>2. \A h \in Host : OnAStreak(h) <=> \E n \in 0 .. Latest : Streak(fetches, h, n)
  BY <1>1, Zenon DEF OnAStreak
<1> QED BY <1>2, BlockedIs DEF BlockedIsAStreak

-----------------------------------------------------------------------------
(* The log, the runs and their open calls.  MaxFlight bounds the calls of a *)
(* run only if there are finitely many of them.                             *)
CallsAreFinite == \A s \in Scout : IsFiniteSet(OpenCalls(s))

FetchInv == FetchTypeOK /\ CallsAreFinite

(* No open calls are a diagram without cells.                               *)
LEMMA NoCallsOpen ==
  NoCalls \in [Host -> 0 .. MaxFlight] /\ IsFiniteSet(CellsUnder(Host, MaxFlight, NoCalls))
<1>1. MaxFlight \in Nat
  BY FetchParameters
<1>2. NoCalls \in [Host -> 0 .. MaxFlight]
  BY <1>1 DEF NoCalls
<1>3. CellsUnder(Host, MaxFlight, NoCalls) = {}
  BY DEF CellsUnder, NoCalls
<1> QED BY <1>2, <1>3, FS_EmptySet

(* The open calls of a scout are the cells under its counts.                *)
LEMMA OpenCallsAre ==
  \A s : OpenCalls(s) = CellsUnder(Host, MaxFlight, flight[s])
BY DEF OpenCalls, CellsUnder

(* Every text has a class.                                                  *)
LEMMA ClassOfText ==
  ASSUME NEW text \in Text
  PROVE  classifyWebFetchResult(text) \in FetchClass
BY Zenon DEF Text, Code, classifyWebFetchResult, FetchClass

(* recordFetch appends one row.                                             *)
LEMMA RecordedType ==
  ASSUME LogTyped, NEW s, NEW h \in Host, NEW text \in ResultTexts(s, h)
  PROVE  /\ Recorded(h, text) \in Seq(FetchRow)
         /\ Len(Recorded(h, text)) = Len(fetches) + 1
<1>1. text \in Text
  <2>1. DenialText \in Text
    BY DEF DenialText, Text, Code
  <2> QED BY <2>1 DEF ResultTexts, SiteText
<1>2. [host |-> h, klass |-> classifyWebFetchResult(text)] \in FetchRow
  BY <1>1, ClassOfText DEF FetchRow
<1> QED BY <1>2 DEF Recorded, LogTyped

(* At the start nothing is logged and no call is open.                      *)
LEMMA FetchStart == FetchInit => FetchInv
<1> SUFFICES ASSUME FetchInit PROVE FetchInv
  OBVIOUS
<1> USE DEF FetchInit
<1>1. \A s \in Scout : flight[s] = NoCalls
  OBVIOUS
<1>2. CallsAreFinite
  BY <1>1, OpenCallsAre, NoCallsOpen DEF CallsAreFinite
<1>3. FetchTypeOK
  BY NoCallsOpen, FetchParameters DEF FetchTypeOK
<1> QED BY <1>2, <1>3 DEF FetchInv

(* The calls of one run change by one host's number. *)
LEMMA FlightMoves ==
  ASSUME FetchInv, NEW s \in Scout, NEW f \in [Host -> 0 .. MaxFlight],
         IsFiniteSet(CellsUnder(Host, MaxFlight, f)),
         flight' = [flight EXCEPT ![s] = f]
  PROVE  flight' \in [Scout -> [Host -> 0 .. MaxFlight]] /\ CallsAreFinite'
<1>1. flight' \in [Scout -> [Host -> 0 .. MaxFlight]]
  BY DEF FetchInv, FetchTypeOK
<1>2. ASSUME NEW t \in Scout
      PROVE  IsFiniteSet(CellsUnder(Host, MaxFlight, flight'[t]))
  <2>1. flight'[t] = IF t = s THEN f ELSE flight[t]
    BY DEF FetchInv, FetchTypeOK
  <2>2. IsFiniteSet(CellsUnder(Host, MaxFlight, flight[t]))
    BY OpenCallsAre DEF FetchInv, CallsAreFinite
  <2> QED BY <2>1, <2>2
<1>3. CallsAreFinite'
  BY <1>2 DEF CallsAreFinite, OpenCalls, CellsUnder
<1> QED BY <1>1, <1>3

(* Every start of a run, fetch, result and clearing keeps the types and     *)
(* finitely many open calls.                                                *)
LEMMA FetchStep == FetchInv /\ [FetchNext]_vars => FetchInv'
<1> SUFFICES ASSUME FetchInv, [FetchNext]_vars PROVE FetchInv'
  OBVIOUS
<1>1. FetchTypeOK /\ CallsAreFinite
  BY DEF FetchInv
<1>2. LogTyped
  BY <1>1 DEF FetchTypeOK, LogTyped
<1>3. MaxFlight \in Nat /\ MaxFetches \in Nat /\ Len(fetches) \in Nat
  BY <1>2, FetchParameters DEF LogTyped
<1>4. ASSUME NEW s \in Scout, StartScout(s) PROVE FetchInv'
  <2>1. flight' \in [Scout -> [Host -> 0 .. MaxFlight]] /\ CallsAreFinite'
    BY <1>4, NoCallsOpen, FlightMoves DEF StartScout
  <2>2. blockedHosts \in SUBSET Host
    BY <1>2, BlockedIs
  <2>3. FetchTypeOK'
    BY <1>1, <1>4, <2>1, <2>2 DEF StartScout, FetchTypeOK
  <2> QED BY <2>1, <2>3 DEF FetchInv
<1>5. ASSUME NEW s \in Scout, EndScout(s) PROVE FetchInv'
  <2>1. flight' \in [Scout -> [Host -> 0 .. MaxFlight]] /\ CallsAreFinite'
    BY <1>5, NoCallsOpen, FlightMoves DEF EndScout
  <2>2. FetchTypeOK'
    BY <1>1, <1>5, <2>1 DEF EndScout, FetchTypeOK
  <2> QED BY <2>1, <2>2 DEF FetchInv
<1>6. ASSUME NEW s \in Scout, NEW h \in Host, NEW k \in 0 .. MaxFlight,
             flight' = [flight EXCEPT ![s] = [flight[s] EXCEPT ![h] = k]]
      PROVE  flight' \in [Scout -> [Host -> 0 .. MaxFlight]] /\ CallsAreFinite'
  <2> DEFINE f == [flight[s] EXCEPT ![h] = k]
  <2>1. flight[s] \in [Host -> 0 .. MaxFlight]
    BY <1>1 DEF FetchTypeOK
  <2>2. f \in [Host -> 0 .. MaxFlight] /\ \A d \in Host \ {h} : f[d] = flight[s][d]
    BY <2>1
  <2>3. IsFiniteSet(CellsUnder(Host, MaxFlight, flight[s]))
    BY <1>1, OpenCallsAre DEF CallsAreFinite
  <2> HIDE DEF f
  <2>4. IsFiniteSet(CellsUnder(Host, MaxFlight, f))
    BY <1>3, <2>1, <2>2, <2>3, CellsChange
  <2>5. flight' = [flight EXCEPT ![s] = f]
    BY <1>6 DEF f
  <2> QED BY <2>2, <2>4, <2>5, FlightMoves
<1>7. ASSUME NEW s \in Scout, NEW h \in Host, UseWebFetch(s, h) PROVE FetchInv'
  <2>1. flight[s] \in [Host -> 0 .. MaxFlight] /\ flight[s][h] \in 0 .. MaxFlight
    BY <1>1 DEF FetchTypeOK
  <2>2. flight[s][h] <= Cardinality(OpenCalls(s)) /\ Cardinality(OpenCalls(s)) \in Nat
    <3>1. IsFiniteSet(CellsUnder(Host, MaxFlight, flight[s]))
      BY <1>1, OpenCallsAre DEF CallsAreFinite
    <3>2. /\ flight[s][h] <= Cardinality(CellsUnder(Host, MaxFlight, flight[s]))
          /\ Cardinality(CellsUnder(Host, MaxFlight, flight[s])) \in Nat
      BY <1>3, <2>1, <3>1, CellsChange
    <3> QED BY <3>2, OpenCallsAre
  <2>3. Cardinality(OpenCalls(s)) < MaxFlight
    BY <1>7 DEF UseWebFetch
  <2>4. flight[s][h] + 1 \in 0 .. MaxFlight
    BY <1>3, <2>1, <2>2, <2>3
  <2>5. flight' = [flight EXCEPT ![s] = [flight[s] EXCEPT ![h] = flight[s][h] + 1]]
    BY <1>7 DEF UseWebFetch
  <2>6. flight' \in [Scout -> [Host -> 0 .. MaxFlight]] /\ CallsAreFinite'
    BY <1>6, <2>4, <2>5
  <2>7. s \in up /\ UNCHANGED <<fetches, up, skip>>
    BY <1>7 DEF UseWebFetch
  <2>8. \A t \in Scout \ up' : flight'[t] = flight[t]
    BY <1>1, <2>5, <2>7 DEF FetchTypeOK
  <2>9. FetchTypeOK'
    BY <1>1, <2>6, <2>7, <2>8 DEF FetchTypeOK
  <2> QED BY <2>6, <2>9 DEF FetchInv
<1>8. ASSUME NEW s \in Scout, NEW h \in Host, WebFetchResult(s, h) PROVE FetchInv'
  <2>1. flight[s] \in [Host -> 0 .. MaxFlight] /\ flight[s][h] \in 0 .. MaxFlight
    BY <1>1 DEF FetchTypeOK
  <2>2. flight[s][h] > 0
    BY <1>8 DEF WebFetchResult
  <2>4. flight[s][h] - 1 \in 0 .. MaxFlight
    BY <1>3, <2>1, <2>2
  <2>5. flight' = [flight EXCEPT ![s] = [flight[s] EXCEPT ![h] = flight[s][h] - 1]]
    BY <1>8 DEF WebFetchResult
  <2>6. flight' \in [Scout -> [Host -> 0 .. MaxFlight]] /\ CallsAreFinite'
    BY <1>6, <2>4, <2>5
  <2>7. s \in up /\ UNCHANGED <<up, skip>>
    BY <1>8 DEF WebFetchResult
  <2>8. \A t \in Scout \ up' : flight'[t] = flight[t]
    BY <1>1, <2>5, <2>7 DEF FetchTypeOK
  <2>9. fetches' \in Seq(FetchRow) /\ Len(fetches') <= MaxFetches
    <3>1. ASSUME NEW text \in ResultTexts(s, h), Len(fetches) < MaxFetches,
                 fetches' = Recorded(h, text)
          PROVE  fetches' \in Seq(FetchRow) /\ Len(fetches') <= MaxFetches
      <4>1. fetches' \in Seq(FetchRow) /\ Len(fetches') = Len(fetches) + 1
        BY <1>2, <3>1, RecordedType
      <4> QED BY <1>3, <3>1, <4>1
    <3> QED BY <1>1, <1>8, <3>1 DEF WebFetchResult, FetchTypeOK
  <2>10. FetchTypeOK'
    BY <1>1, <2>6, <2>7, <2>8, <2>9 DEF FetchTypeOK
  <2> QED BY <2>6, <2>10 DEF FetchInv
<1>9. ASSUME NEW h \in Host, ClearFetchHistory(h) PROVE FetchInv'
  <2> DEFINE kept == {i \in DOMAIN fetches : fetches[i].host # h}
  <2>1. fetches' = ElementsAt(fetches, kept) /\ UNCHANGED <<up, skip, flight>>
    BY <1>9 DEF ClearFetchHistory
  <2>2. fetches \in Seq(FetchRow) /\ kept \in SUBSET DOMAIN fetches
    BY <1>2 DEF LogTyped
  <2> HIDE DEF kept
  <2>3. fetches' \in Seq(FetchRow) /\ Len(fetches') <= Len(fetches) /\ Len(fetches') \in Nat
    BY <2>1, <2>2, ElementsAtIs
  <2>4. FetchTypeOK'
    BY <1>1, <1>3, <2>1, <2>3 DEF FetchTypeOK
  <2>5. CallsAreFinite'
    BY <1>1, <2>1 DEF CallsAreFinite, OpenCalls
  <2> QED BY <2>4, <2>5 DEF FetchInv
<1>10. CASE UNCHANGED vars
  BY <1>1, <1>10 DEF vars, FetchInv, FetchTypeOK, CallsAreFinite, OpenCalls
<1> QED BY <1>4, <1>5, <1>7, <1>8, <1>9, <1>10 DEF FetchNext

(* With any hosts, rows, threshold and window, the hosts a scout is told to *)
(* skip are exactly those with an unbroken streak of refusals.              *)
THEOREM FetchesBlock == FetchSpec => []BlockedIsAStreak
<1>1. FetchInv => BlockedIsAStreak
  BY BlockedIsRight DEF FetchInv, FetchTypeOK, LogTyped
<1> QED BY <1>1, FetchStart, FetchStep, PTL DEF FetchSpec

-----------------------------------------------------------------------------
(* What a change of the log does to the streaks. *)

(* The newest m rows of t are, through g, among the newest n of s, and      *)
(* every outcome of the host there is one of them.                          *)
FoundAmong(t, m, s, n, h, g) ==
  /\ g \in [1 .. m -> 1 .. n]
  /\ \A i, j \in 1 .. m : g[i] = g[j] => i = j
  /\ \A i \in 1 .. m : t[Len(t) + 1 - i] = s[Len(s) + 1 - g[i]]
  /\ \A j \in Outcomes(s, h, n) : \E i \in 1 .. m : g[i] = j

(* A log whose newest m rows are all among the newest n of another, with    *)
(* every outcome of the host among them, has the host on the same streak.   *)
LEMMA StreakMoves ==
  ASSUME NEW s, NEW t, NEW h, NEW m \in Nat, NEW n \in Nat,
         NEW g, FoundAmong(t, m, s, n, h, g)
  PROVE  m <= n /\ (Streak(t, h, m) <=> Streak(s, h, n))
<1>a. /\ g \in [1 .. m -> 1 .. n]
      /\ \A i, j \in 1 .. m : g[i] = g[j] => i = j
      /\ \A i \in 1 .. m : t[Len(t) + 1 - i] = s[Len(s) + 1 - g[i]]
      /\ \A j \in Outcomes(s, h, n) : \E i \in 1 .. m : g[i] = j
  BY DEF FoundAmong
<1> DEFINE O == Outcomes(t, h, m)
           Q == Outcomes(s, h, n)
           f == [i \in O |-> g[i]]
<1>1. m <= n
  <2>1. g \in Injection(1 .. m, 1 .. n)
    BY <1>a DEF Injection, IsInjective
  <2>2. /\ IsFiniteSet(1 .. n) /\ Cardinality(1 .. n) = n
        /\ Cardinality(1 .. m) = m
    BY CountTo
  <2> QED BY <2>1, <2>2, FS_Injection
<1>2. \A i \in 1 .. m : i \in O <=> g[i] \in Q
  BY <1>a DEF Outcomes
<1>3. O \subseteq 1 .. m /\ Q \subseteq 1 .. n
  BY DEF Outcomes
<1>4. f \in Bijection(O, Q)
  <2>1. f \in [O -> Q] /\ \A i, j \in O : f[i] = f[j] => i = j
    <3> HIDE DEF O, Q
    <3> QED BY <1>a, <1>2, <1>3
  <2>2. \A j \in Q : \E i \in O : f[i] = j
    <3>1. \A j \in Q : \E i \in 1 .. m : g[i] = j
      BY <1>a
    <3> HIDE DEF O, Q
    <3> QED BY <1>2, <3>1
  <2> HIDE DEF f, O, Q
  <2> QED BY <2>1, <2>2 DEF Bijection, Injection, Surjection, IsInjective
<1>5. Cardinality(O) = Cardinality(Q)
  <2>1. IsFiniteSet(O)
    BY OutcomesFinite
  <2> HIDE DEF O, Q, f
  <2> QED BY <1>4, <2>1, FS_Bijection DEF ExistsBijection
<1>6. Refused(t, h, m) <=> Refused(s, h, n)
  <2>1. Refused(t, h, m) <=> \A i \in O : s[Len(s) + 1 - g[i]].klass = "blocked"
    <3>1. Refused(t, h, m) <=> \A i \in O : t[Len(t) + 1 - i].klass = "blocked"
      BY DEF Refused
    <3>2. \A i \in O : t[Len(t) + 1 - i] = s[Len(s) + 1 - g[i]]
      <4> HIDE DEF O
      <4> QED BY <1>a, <1>3
    <3> HIDE DEF O
    <3> QED BY <3>1, <3>2
  <2>2. Refused(s, h, n) <=> \A j \in Q : s[Len(s) + 1 - j].klass = "blocked"
    BY DEF Refused
  <2>3. \A j \in Q : \E i \in O : g[i] = j
    <3>1. \A j \in Q : \E i \in 1 .. m : g[i] = j
      BY <1>a
    <3> HIDE DEF O, Q
    <3> QED BY <1>2, <3>1
  <2> HIDE DEF O, Q
  <2>4. ASSUME \A i \in O : s[Len(s) + 1 - g[i]].klass = "blocked", NEW j \in Q
        PROVE  s[Len(s) + 1 - j].klass = "blocked"
    <3>1. PICK i \in O : g[i] = j
      BY <2>3
    <3> QED BY <2>4, <3>1
  <2>5. ASSUME \A j \in Q : s[Len(s) + 1 - j].klass = "blocked", NEW i \in O
        PROVE  s[Len(s) + 1 - g[i]].klass = "blocked"
    BY <1>2, <1>3, <2>5
  <2> QED BY <2>1, <2>2, <2>4, <2>5
<1> QED BY <1>1, <1>5, <1>6 DEF Streak

(* A streak has an outcome in it. *)
LEMMA StreakHasOutcome ==
  ASSUME NEW s, NEW h, NEW n \in Nat, Streak(s, h, n)
  PROVE  n # 0 /\ \E i \in 1 .. n : s[Len(s) + 1 - i].host = h
<1>1. Outcomes(s, h, n) # {}
  BY FS_EmptySet, FetchParameters DEF Streak
<1> QED BY <1>1 DEF Outcomes

(* A row for another host moves the host's streak one row back. *)
LEMMA StreakUnderAppend ==
  ASSUME NEW s \in Seq(FetchRow), NEW row \in FetchRow, NEW h, row.host # h,
         NEW n \in Nat, n <= Len(s)
  PROVE  Streak(s, h, n) <=> Streak(Append(s, row), h, n + 1)
<1> DEFINE t == Append(s, row)
           g == [i \in 1 .. n |-> i + 1]
<1>1. Len(s) \in Nat /\ Len(t) = Len(s) + 1 /\ n + 1 \in Nat
  OBVIOUS
<1>2. g \in [1 .. n -> 1 .. n + 1] /\ \A i, j \in 1 .. n : g[i] = g[j] => i = j
  OBVIOUS
<1>3. ASSUME NEW i \in 1 .. n PROVE s[Len(s) + 1 - i] = t[Len(t) + 1 - g[i]]
  <2>1. Len(t) + 1 - g[i] = Len(s) + 1 - i /\ Len(s) + 1 - i \in 1 .. Len(s)
    BY <1>1
  <2> QED BY <2>1
<1>4. ASSUME NEW j \in Outcomes(t, h, n + 1) PROVE \E i \in 1 .. n : g[i] = j
  <2>1. j \in 1 .. n + 1 /\ t[Len(t) + 1 - j].host = h
    BY DEF Outcomes
  <2>2. j # 1
    <3>1. t[Len(t) + 1 - 1] = row
      BY <1>1
    <3> QED BY <2>1, <3>1
  <2>3. j - 1 \in 1 .. n /\ g[j - 1] = j
    BY <2>1, <2>2
  <2> QED BY <2>3
<1> HIDE DEF g, t
<1>5. FoundAmong(s, n, t, n + 1, h, g)
  BY <1>2, <1>3, <1>4 DEF FoundAmong
<1>6. Streak(s, h, n) <=> Streak(t, h, n + 1)
  BY <1>1, <1>5, StreakMoves
<1> QED BY <1>6 DEF t

(* Without the rows of another host the streak moves up: it is found among  *)
(* the newest m that are left.                                              *)
LEMMA StreakUnderClear ==
  ASSUME NEW s \in Seq(FetchRow), NEW P \in SUBSET DOMAIN s, NEW h,
         \A i \in DOMAIN s : s[i].host = h => i \in P,
         NEW n \in Nat, n <= Len(s), Streak(s, h, n)
  PROVE  \E m \in Nat : /\ m <= n /\ m <= Len(ElementsAt(s, P))
                         /\ Streak(ElementsAt(s, P), h, m)
<1> DEFINE t == ElementsAt(s, P)
           M == Cardinality(P)
           K == {k \in 1 .. M : NthOf(P, k) >= Len(s) + 1 - n}
<1>1. /\ IsFiniteSet(P) /\ P \in SUBSET Nat /\ Len(t) = M /\ M \in Nat
      /\ \A k \in 1 .. M : NthOf(P, k) \in P /\ t[k] = s[NthOf(P, k)]
  BY ElementsAtIs
<1>2. DOMAIN s = 1 .. Len(s) /\ Len(s) \in Nat
  OBVIOUS
<1>3. \A i \in P : \E k \in 1 .. M : NthOf(P, k) = i
  BY <1>1, NthOfEvery
<1>4. K # {}
  <2>1. PICK i \in 1 .. n : s[Len(s) + 1 - i].host = h
    BY StreakHasOutcome
  <2>2. Len(s) + 1 - i \in 1 .. Len(s) /\ Len(s) + 1 - i >= Len(s) + 1 - n
    BY <1>2, <2>1
  <2>3. Len(s) + 1 - i \in P
    BY <1>2, <2>1, <2>2
  <2> HIDE DEF t, M
  <2> QED BY <1>3, <2>2, <2>3
<1>5. PICK k0 \in K : \A k \in K : k0 <= k
  <2>1. K \in SUBSET Nat
    OBVIOUS
  <2> HIDE DEF K
  <2> QED BY <1>4, <2>1, LeastNatural
<1>6. k0 \in 1 .. M /\ NthOf(P, k0) >= Len(s) + 1 - n
  OBVIOUS
<1>7. \A k \in 1 .. M : k >= k0 <=> NthOf(P, k) >= Len(s) + 1 - n
  <2> SUFFICES ASSUME NEW k \in 1 .. M
               PROVE  k >= k0 <=> NthOf(P, k) >= Len(s) + 1 - n
    OBVIOUS
  <2>1. NthOf(P, k) \in Nat /\ NthOf(P, k0) \in Nat
    BY <1>1, <1>6
  <2>2. k0 < k => NthOf(P, k0) < NthOf(P, k)
    BY <1>1, <1>6, NthOfOrder
  <2>3. NthOf(P, k) >= Len(s) + 1 - n => k0 <= k
    BY <1>5
  <2> HIDE DEF K, M, t
  <2> QED BY <1>1, <1>2, <1>6, <2>1, <2>2, <2>3
<1> DEFINE m == M + 1 - k0
           g == [i \in 1 .. m |-> Len(s) + 1 - NthOf(P, M + 1 - i)]
<1> HIDE DEF K, M, t
<1>8. m \in Nat /\ m <= M
  BY <1>1, <1>6
<1>9. ASSUME NEW i \in 1 .. m
      PROVE  /\ M + 1 - i \in 1 .. M /\ M + 1 - i >= k0
             /\ NthOf(P, M + 1 - i) \in 1 .. Len(s)
             /\ g[i] \in 1 .. n
             /\ t[M + 1 - i] = s[Len(s) + 1 - g[i]]
  <2>1. M + 1 - i \in 1 .. M /\ M + 1 - i >= k0
    <3>1. M \in Nat /\ k0 \in 1 .. M /\ i \in 1 .. M + 1 - k0
      BY <1>1, <1>6
    <3> HIDE DEF g, m
    <3> QED BY <3>1
  <2>2. NthOf(P, M + 1 - i) \in P /\ t[M + 1 - i] = s[NthOf(P, M + 1 - i)]
    BY <1>1, <2>1
  <2>3. NthOf(P, M + 1 - i) \in 1 .. Len(s)
    BY <1>2, <2>2
  <2>4. NthOf(P, M + 1 - i) >= Len(s) + 1 - n
    BY <1>7, <2>1
  <2>5. g[i] \in 1 .. n /\ Len(s) + 1 - g[i] = NthOf(P, M + 1 - i)
    BY <1>2, <2>3, <2>4
  <2> QED BY <2>1, <2>2, <2>3, <2>5
<1>10. g \in [1 .. m -> 1 .. n]
  BY <1>9
<1>11. ASSUME NEW i \in 1 .. m, NEW j \in 1 .. m, g[i] = g[j] PROVE i = j
  <2> DEFINE a == NthOf(P, M + 1 - i)
             b == NthOf(P, M + 1 - j)
  <2>1. a \in 1 .. Len(s) /\ b \in 1 .. Len(s) /\ M + 1 - i \in 1 .. M /\ M + 1 - j \in 1 .. M
    BY <1>9
  <2>2. a = b
    BY <1>2, <1>11, <2>1
  <2>3. /\ M + 1 - i < M + 1 - j => a < b
        /\ M + 1 - j < M + 1 - i => b < a
    BY <1>1, <2>1, NthOfOrder DEF M
  <2> HIDE DEF a, b, g
  <2> QED BY <1>1, <1>8, <2>1, <2>2, <2>3
<1>12. ASSUME NEW j \in Outcomes(s, h, n) PROVE \E i \in 1 .. m : g[i] = j
  <2>1. j \in 1 .. n /\ s[Len(s) + 1 - j].host = h
    BY DEF Outcomes
  <2>2. Len(s) + 1 - j \in P /\ Len(s) + 1 - j >= Len(s) + 1 - n
    BY <1>2, <2>1
  <2>3. PICK k \in 1 .. M : NthOf(P, k) = Len(s) + 1 - j
    BY <1>3, <2>2
  <2>4. k >= k0
    BY <1>7, <2>2, <2>3
  <2>5. M + 1 - k \in 1 .. m /\ M + 1 - (M + 1 - k) = k
    BY <1>1, <1>6, <2>3, <2>4
  <2>6. g[M + 1 - k] = Len(s) + 1 - NthOf(P, k)
    BY <2>5
  <2>7. Len(s) + 1 - NthOf(P, k) = j
    BY <1>2, <2>1, <2>3
  <2> QED BY <2>5, <2>6, <2>7
<1>13. \A i \in 1 .. m : t[Len(t) + 1 - i] = s[Len(s) + 1 - g[i]]
  BY <1>1, <1>9
<1> HIDE DEF g, m
<1>14. m <= n /\ Streak(t, h, m)
  <2>1. FoundAmong(t, m, s, n, h, g)
    BY <1>10, <1>11, <1>12, <1>13 DEF FoundAmong
  <2>2. m <= n /\ (Streak(t, h, m) <=> Streak(s, h, n))
    BY <1>8, <2>1, StreakMoves
  <2> QED BY <2>2
<1> QED BY <1>1, <1>8, <1>14 DEF t

-----------------------------------------------------------------------------
(* What a step of the log does to the blocked hosts. *)

WhatIsBlocked ==
  /\ Latest \in Nat /\ Latest <= Len(fetches) /\ Latest <= Window
  /\ Latest = IF Len(fetches) < Window THEN Len(fetches) ELSE Window
  /\ blockedHosts = {h \in Host : \E n \in 0 .. Latest : Streak(fetches, h, n)}

(* What blockedHosts returns, as a set of streaks.                          *)
LEMMA BlockedHostsAre == LogTyped => WhatIsBlocked
BY LatestType, BlockedIs DEF Latest, WhatIsBlocked

ByOwnOutcomes ==
  /\ \A h \in blockedHosts' \ blockedHosts :
       SiteAnswered(h) \/ (Cleared /\ ~ ClearedHost(h))
  /\ \A h \in blockedHosts \ blockedHosts' :
       Logged(h) \/ ClearedHost(h) \/ ScrolledOut

(* The two instants, with the streaks of each. *)
LEMMA BeforeAndAfter ==
  ASSUME LogTyped, LogTyped'
  PROVE  /\ WhatIsBlocked
         /\ Latest' \in Nat /\ Latest' <= Len(fetches') /\ Latest' <= Window
         /\ Latest' = IF Len(fetches') < Window THEN Len(fetches') ELSE Window
         /\ blockedHosts' = {h \in Host : \E n \in 0 .. Latest' : Streak(fetches', h, n)}
<1>1. WhatIsBlocked /\ WhatIsBlocked'
  BY BlockedHostsAre, PTL
<1> QED BY <1>1 DEF WhatIsBlocked

(* A result that is logged. *)
LEMMA LoggedOutcome ==
  ASSUME LogTyped, LogTyped', NEW s \in Scout, NEW h0 \in Host,
         NEW text \in ResultTexts(s, h0), fetches' = Recorded(h0, text),
         flight'[s][h0] < flight[s][h0]
  PROVE  ByOwnOutcomes
<1> DEFINE row == [host |-> h0, klass |-> classifyWebFetchResult(text)]
<1>1. /\ WhatIsBlocked
      /\ Latest' \in Nat /\ Latest' <= Len(fetches') /\ Latest' <= Window
      /\ Latest' = IF Len(fetches') < Window THEN Len(fetches') ELSE Window
      /\ blockedHosts' = {h \in Host : \E n \in 0 .. Latest' : Streak(fetches', h, n)}
  BY BeforeAndAfter
<1>2. /\ fetches \in Seq(FetchRow) /\ Len(fetches) \in Nat
      /\ row \in FetchRow /\ row.host = h0
      /\ fetches' = Append(fetches, row)
      /\ Len(fetches') = Len(fetches) + 1 /\ fetches'[Len(fetches')] = row
  <2>1. text \in Text
    <3>1. DenialText \in Text
      BY DEF DenialText, Text, Code
    <3> QED BY <3>1 DEF ResultTexts, SiteText
  <2>2. row \in FetchRow /\ row.host = h0
    BY <2>1, ClassOfText DEF FetchRow
  <2>3. fetches \in Seq(FetchRow) /\ fetches' = Append(fetches, row)
    BY DEF LogTyped, Recorded
  <2> HIDE DEF row
  <2> QED BY <2>2, <2>3
<1>3. Window \in Nat /\ Strikes \in Nat \ {0}
  BY FetchParameters
<1> HIDE DEF row
<1>4. Logged(h0)
  BY <1>2 DEF Logged
<1>5. ASSUME NEW h \in Host, h # h0, NEW n \in Nat, n <= Len(fetches)
      PROVE  Streak(fetches, h, n) <=> Streak(fetches', h, n + 1)
  BY <1>2, <1>5, StreakUnderAppend
<1>6. ASSUME NEW h \in blockedHosts' \ blockedHosts PROVE SiteAnswered(h)
  <2>1. PICK n \in 0 .. Latest' : Streak(fetches', h, n)
    BY <1>1
  <2>2. n # 0 /\ n \in Nat
    BY <2>1, StreakHasOutcome
  <2>3. n - 1 \in Nat /\ n - 1 <= Len(fetches) /\ n - 1 <= Latest /\ n - 1 + 1 = n
    BY <1>1, <1>2, <1>3, <2>2 DEF WhatIsBlocked
  <2>4. h = h0
    <3> SUFFICES ASSUME h # h0 PROVE FALSE
      OBVIOUS
    <3>1. h \in Host
      BY <1>1
    <3>2. Streak(fetches, h, n - 1)
      BY <1>5, <2>1, <2>3, <3>1
    <3>3. n - 1 \in 0 .. Latest
      BY <1>1, <2>3 DEF WhatIsBlocked
    <3> QED BY <1>1, <3>1, <3>2, <3>3 DEF WhatIsBlocked
  <2>5. h0 \notin skip[s]
    <3> SUFFICES ASSUME h0 \in skip[s] PROVE FALSE
      OBVIOUS
    <3>1. text = DenialText
      BY DEF ResultTexts
    <3>2. row.klass = "ok"
      BY <3>1, Zenon DEF row, classifyWebFetchResult, DenialText
    <3>3. fetches'[Len(fetches') + 1 - 1] = row
      BY <1>2
    <3>4. 1 \in 1 .. n
      BY <2>2
    <3>5. 1 \in Outcomes(fetches', h, n)
      BY <1>2, <2>4, <3>3, <3>4 DEF Outcomes
    <3> QED BY <2>1, <3>2, <3>3, <3>5 DEF Streak, Refused
  <2> QED BY <1>4, <2>4, <2>5 DEF SiteAnswered
<1>7. ASSUME NEW h \in blockedHosts \ blockedHosts' PROVE Logged(h) \/ ScrolledOut
  <2> SUFFICES ASSUME h # h0, ~ScrolledOut PROVE FALSE
    BY <1>4
  <2>1. Len(fetches) < Window
    BY <1>2, <1>3 DEF ScrolledOut
  <2>2. PICK n \in 0 .. Latest : Streak(fetches, h, n)
    BY <1>1 DEF WhatIsBlocked
  <2>3. h \in Host /\ n \in Nat /\ n <= Len(fetches) /\ n + 1 \in 0 .. Latest'
    BY <1>1, <1>2, <1>3, <2>1, <2>2 DEF WhatIsBlocked
  <2>4. Streak(fetches', h, n + 1)
    BY <1>5, <2>2, <2>3
  <2> QED BY <1>1, <2>3, <2>4
<1> QED BY <1>6, <1>7 DEF ByOwnOutcomes

(* A host's history is cleared. *)
LEMMA ClearedOutcome ==
  ASSUME LogTyped, LogTyped', NEW h0 \in Host, ClearFetchHistory(h0)
  PROVE  ByOwnOutcomes
<1> DEFINE kept == {i \in DOMAIN fetches : fetches[i].host # h0}
<1>1. /\ WhatIsBlocked
      /\ Latest' \in Nat /\ Latest' <= Len(fetches') /\ Latest' <= Window
      /\ Latest' = IF Len(fetches') < Window THEN Len(fetches') ELSE Window
      /\ blockedHosts' = {h \in Host : \E n \in 0 .. Latest' : Streak(fetches', h, n)}
  BY BeforeAndAfter
<1>2. /\ fetches \in Seq(FetchRow) /\ Len(fetches) \in Nat
      /\ kept \in SUBSET DOMAIN fetches /\ kept # DOMAIN fetches
      /\ fetches' = ElementsAt(fetches, kept)
  BY DEF LogTyped, ClearFetchHistory
<1>3. /\ Len(fetches') = Cardinality(kept) /\ Len(fetches') \in Nat
      /\ IsFiniteSet(kept)
      /\ \A k \in 1 .. Len(fetches') :
            NthOf(kept, k) \in kept /\ fetches'[k] = fetches[NthOf(kept, k)]
  <2> HIDE DEF kept
  <2> QED BY <1>2, ElementsAtIs
<1>4. Cleared
  <2>1. IsFiniteSet(1 .. Len(fetches)) /\ Cardinality(1 .. Len(fetches)) = Len(fetches)
    BY <1>2, CountTo
  <2>2. DOMAIN fetches = 1 .. Len(fetches)
    BY <1>2
  <2> HIDE DEF kept
  <2>3. Cardinality(kept) <= Len(fetches) /\ Cardinality(kept) # Len(fetches)
    BY <1>2, <1>3, <2>1, <2>2, FS_Subset
  <2> QED BY <1>2, <1>3, <2>3 DEF Cleared
<1>5. ClearedHost(h0)
  <2>1. DOMAIN fetches' = 1 .. Len(fetches')
    BY <1>2 DEF LogTyped
  <2> QED BY <1>3, <1>4, <2>1 DEF ClearedHost
<1>6. ASSUME NEW h \in blockedHosts' \ blockedHosts PROVE ~ClearedHost(h)
  <2>1. PICK n \in 0 .. Latest' : Streak(fetches', h, n)
    BY <1>1
  <2>2. PICK i \in 1 .. n : fetches'[Len(fetches') + 1 - i].host = h
    BY <2>1, StreakHasOutcome
  <2>3. Len(fetches') + 1 - i \in 1 .. Len(fetches')
    BY <1>1, <1>3, <2>1, <2>2
  <2>4. Len(fetches') + 1 - i \in DOMAIN fetches'
    BY <2>3 DEF LogTyped
  <2> QED BY <2>2, <2>4 DEF ClearedHost
<1>7. ASSUME NEW h \in blockedHosts \ blockedHosts' PROVE ClearedHost(h)
  <2> SUFFICES ASSUME h # h0 PROVE FALSE
    BY <1>5
  <2>1. PICK n \in 0 .. Latest : Streak(fetches, h, n)
    BY <1>1 DEF WhatIsBlocked
  <2>2. n \in Nat /\ n <= Len(fetches) /\ n <= Window /\ h \in Host
    BY <1>1, <1>2, <2>1, FetchParameters DEF WhatIsBlocked
  <2>3. \A i \in DOMAIN fetches : fetches[i].host = h => i \in kept
    OBVIOUS
  <2> HIDE DEF kept
  <2>4. PICK m \in Nat : m <= n /\ m <= Len(fetches') /\ Streak(fetches', h, m)
    BY <1>2, <2>1, <2>2, <2>3, StreakUnderClear
  <2>5. m \in 0 .. Latest'
    BY <1>1, <1>3, <2>2, <2>4, FetchParameters
  <2> QED BY <1>1, <2>2, <2>4, <2>5
<1> QED BY <1>4, <1>6, <1>7 DEF ByOwnOutcomes

(* However the runs, the denials of their hooks and the clearings follow    *)
(* each other, what happens to one host blocks or unblocks no other, but    *)
(* for the window that moves.                                               *)
THEOREM FetchesOwnOutcomes == FetchSpec => OnlyOwnOutcomes
<1>1. FetchInv /\ FetchInv' /\ [FetchNext]_vars => [ByOwnOutcomes]_fetches
  <2> SUFFICES ASSUME FetchInv, FetchInv', [FetchNext]_vars, fetches' # fetches
               PROVE  ByOwnOutcomes
    OBVIOUS
  <2>1. LogTyped /\ LogTyped'
    BY DEF FetchInv, FetchTypeOK, LogTyped
  <2>2. ASSUME NEW s \in Scout, NEW h \in Host, WebFetchResult(s, h) PROVE ByOwnOutcomes
    <3>1. flight'[s][h] < flight[s][h]
      <4>1. flight[s] \in [Host -> 0 .. MaxFlight] /\ flight[s][h] \in Int
        BY FetchParameters DEF FetchInv, FetchTypeOK
      <4>2. flight'[s][h] = flight[s][h] - 1
        BY <2>2, <4>1 DEF WebFetchResult, FetchInv, FetchTypeOK
      <4> QED BY <4>1, <4>2
    <3>2. PICK text \in ResultTexts(s, h) : fetches' = Recorded(h, text)
      BY <2>2 DEF WebFetchResult
    <3> QED BY <2>1, <3>1, <3>2, LoggedOutcome
  <2>3. ASSUME NEW h \in Host, ClearFetchHistory(h) PROVE ByOwnOutcomes
    BY <2>1, <2>3, ClearedOutcome
  <2>4. ASSUME NEW s \in Scout, StartScout(s) \/ EndScout(s) PROVE FALSE
    BY <2>4 DEF StartScout, EndScout
  <2>5. ASSUME NEW s \in Scout, NEW h \in Host, UseWebFetch(s, h) PROVE FALSE
    BY <2>5 DEF UseWebFetch
  <2> QED BY <2>2, <2>3, <2>4, <2>5 DEF FetchNext, vars
<1>2. ByOwnOutcomes => LET was == blockedHosts
                          is == blockedHosts'
                      IN  /\ \A h \in is \ was :
                               SiteAnswered(h) \/ (Cleared /\ ~ ClearedHost(h))
                          /\ \A h \in was \ is :
                               Logged(h) \/ ClearedHost(h) \/ ScrolledOut
  BY DEF ByOwnOutcomes
<1> QED BY <1>1, <1>2, FetchStart, FetchStep, PTL DEF FetchSpec, OnlyOwnOutcomes

-----------------------------------------------------------------------------
(* The configuration files. *)

(* The last of several lines, rows or tiers. *)
LEMMA MaxIs ==
  ASSUME NEW S \in SUBSET Nat, S # {}, NEW b \in Nat, \A n \in S : n <= b
  PROVE  Max(S) \in S /\ \A n \in S : n <= Max(S)
<1>1. \E m \in S : \A n \in S : m >= n
  <2>1. PICK m \in S : \A n \in S : n <= m
    BY GreatestNatural
  <2> QED BY <2>1
<1>2. Max(S) \in S /\ \A n \in S : Max(S) >= n
  BY <1>1, Zenon DEF Max
<1> QED BY <1>2

(* The filter of isValidTownBox. *)
LEMMA WithBoxIs ==
  ASSUME NEW towns \in Seq(Town)
  PROVE  /\ WithBox(towns) \in Seq(Town) /\ Len(WithBox(towns)) <= Len(towns)
         /\ \A k \in DOMAIN WithBox(towns) :
              /\ WithBox(towns)[k].box # Bad
              /\ \E i \in DOMAIN towns : WithBox(towns)[k] = towns[i]
         /\ \A i \in DOMAIN towns : towns[i].box # Bad =>
              \E k \in DOMAIN WithBox(towns) : WithBox(towns)[k] = towns[i]
         /\ (\A i \in DOMAIN towns : towns[i].box # Bad) => WithBox(towns) = towns
<1> DEFINE P == {i \in DOMAIN towns : isValidTownBox(towns[i])}
           t == WithBox(towns)
<1>1. t = ElementsAt(towns, P) /\ P \in SUBSET DOMAIN towns
  BY DEF WithBox
<1>2. \A i \in P : i \in DOMAIN towns /\ towns[i].box # Bad
  BY DEF isValidTownBox
<1>3. \A i \in DOMAIN towns : towns[i].box # Bad => i \in P
  BY DEF isValidTownBox
<1> HIDE DEF P, t
<1>4. /\ IsFiniteSet(P) /\ P \in SUBSET Nat /\ t \in Seq(Town)
      /\ Len(t) = Cardinality(P) /\ Cardinality(P) \in 0 .. Len(towns)
      /\ \A n \in 1 .. Cardinality(P) : NthOf(P, n) \in P /\ t[n] = towns[NthOf(P, n)]
  BY <1>1, ElementsAtIs
<1>5. DOMAIN t = 1 .. Cardinality(P)
  BY <1>4
<1>6. ASSUME NEW k \in DOMAIN t
      PROVE  t[k].box # Bad /\ \E i \in DOMAIN towns : t[k] = towns[i]
  BY <1>2, <1>4, <1>5
<1>7. ASSUME NEW i \in DOMAIN towns, towns[i].box # Bad
      PROVE  \E k \in DOMAIN t : t[k] = towns[i]
  <2>1. PICK k \in 1 .. Cardinality(P) : NthOf(P, k) = i
    BY <1>3, <1>4, <1>7, NthOfEvery
  <2> QED BY <1>4, <1>5, <2>1
<1>8. ASSUME \A i \in DOMAIN towns : towns[i].box # Bad PROVE t = towns
  <2>1. P = DOMAIN towns
    BY <1>1, <1>3, <1>8
  <2> QED BY <1>1, <2>1, ElementsAtAll
<1> QED BY <1>4, <1>6, <1>7, <1>8 DEF t

(* What the readers find in a file of towns. *)
LEMMA TownsOfFile ==
  ASSUME NEW file \in TownsFile
  PROVE  /\ readTownsConfig(file) \in Seq(Town)
         /\ \A i \in DOMAIN readTownsConfig(file) : readTownsConfig(file)[i].box # Bad
<1>1. ASSUME NEW content \in TownsContent PROVE content.towns \in Seq(Town)
  <2>1. content.towns \in UNION {[1 .. n -> Town] : n \in 0 .. MaxTowns}
    BY DEF TownsContent
  <2>2. PICK n \in 0 .. MaxTowns : content.towns \in [1 .. n -> Town]
    BY <2>1
  <2> QED BY <2>2, ConfigParameters, FunctionIsSequence
<1> DEFINE content == FirstParsed(file, TownsTemplate, [towns |-> <<>>])
<1>2. content.towns \in Seq(Town)
  <2>1. content \in TownsContent \/ content = [towns |-> <<>>]
    BY ConfigContents DEF FirstParsed, TownsFile
  <2>2. [towns |-> <<>>].towns \in Seq(Town)
    OBVIOUS
  <2> HIDE DEF content
  <2>3. CASE content \in TownsContent
    BY <1>1, <2>3
  <2>4. CASE content = [towns |-> <<>>]
    BY <2>2, <2>4
  <2> QED BY <2>1, <2>3, <2>4
<1>3. readTownsConfig(file) = WithBox(content.towns)
  BY DEF readTownsConfig
<1> HIDE DEF content
<1> QED BY <1>2, <1>3, WithBoxIs

-----------------------------------------------------------------------------
(* The call of set_towns. *)

ValidTowns(towns) == \A i \in DOMAIN towns : towns[i].box # Bad

CallInv ==
  call # None =>
    /\ Len(call.inputs) <= MaxTowns
    /\ call.existing = readTownsConfig(call.file)
    /\ ValidTowns(call.existing)

ReportedType == reported = [f \in {"region", "towns", "categories", "icp"} |-> reported[f]]

CfgInv == CfgTypeOK /\ ReportedType /\ CallInv /\ WritesReadBack

(* The fields of a call under way. *)
LEMMA CallFields ==
  ASSUME CfgTypeOK, call # None
  PROVE  /\ call \in TownsCall
         /\ call.inputs \in Seq(TownName) /\ call.file \in TownsFile
         /\ call.existing \in Seq(Town) /\ call.comment \in BOOLEAN
         /\ call.boxes \in Seq(Box \cup {Bad})
BY DEF CfgTypeOK, TownsCall

(* Existing finds a town of the name if the call has read one. *)
LEMMA ExistingIs ==
  ASSUME CfgTypeOK, CallInv, call # None, NEW name
  PROVE  /\ name \in NamesIn(call.existing) =>
              /\ Existing(name) \in Town /\ Existing(name).name = name
              /\ Existing(name).box # Bad
              /\ Existing(name).box \in BoxesOf(call.existing, name)
         /\ name \notin NamesIn(call.existing) => Existing(name) = None
<1> DEFINE towns == call.existing
           of == {i \in DOMAIN towns : towns[i].name = name}
<1>1. towns \in Seq(Town) /\ ValidTowns(towns)
  BY CallFields DEF CallInv
<1>2. DOMAIN towns = 1 .. Len(towns) /\ Len(towns) \in Nat
  BY <1>1
<1>3. Existing(name) = IF of = {} THEN None ELSE towns[Max(of)]
  BY DEF Existing
<1>4. name \in NamesIn(towns) <=> of # {}
  BY DEF NamesIn
<1>5. ASSUME of # {} PROVE Max(of) \in of
  <2>1. of \in SUBSET Nat /\ \A n \in of : n <= Len(towns)
    BY <1>2
  <2> HIDE DEF of
  <2> QED BY <1>2, <1>5, <2>1, MaxIs
<1>6. ASSUME of # {}
      PROVE  /\ towns[Max(of)] \in Town /\ towns[Max(of)].name = name
             /\ towns[Max(of)].box # Bad /\ towns[Max(of)].box \in BoxesOf(towns, name)
  <2>1. Max(of) \in DOMAIN towns /\ towns[Max(of)].name = name
    BY <1>5, <1>6
  <2>2. towns[Max(of)] \in Town
    <3> DEFINE m == Max(of)
    <3>1. m \in 1 .. Len(towns)
      BY <1>2, <2>1
    <3> HIDE DEF m, of, towns
    <3>2. towns[m] \in Town
      BY <1>1, <3>1
    <3> QED BY <3>2 DEF m
  <2> HIDE DEF of, towns
  <2> QED BY <1>1, <2>1, <2>2 DEF BoxesOf, ValidTowns
<1> QED BY <1>3, <1>4, <1>6

(* So what is geocoded are the names of the call that were not read. *)
LEMMA ToGeocodeIs ==
  ASSUME CfgTypeOK, CallInv, call # None
  PROVE  /\ ToGeocode \in Seq(TownName)
         /\ \A name : name \in {ToGeocode[i] : i \in DOMAIN ToGeocode} <=>
              /\ name \in {call.inputs[i] : i \in DOMAIN call.inputs}
              /\ name \notin NamesIn(call.existing)
<1> DEFINE inputs == call.inputs
           P == {i \in DOMAIN inputs : Existing(inputs[i]) = None}
<1>1. inputs \in Seq(TownName) /\ P \in SUBSET DOMAIN inputs /\ ToGeocode = ElementsAt(inputs, P)
  BY CallFields DEF ToGeocode
<1>2. \A i \in DOMAIN inputs : i \in P <=> inputs[i] \notin NamesIn(call.existing)
  <2>1. None \notin Town
    BY ConfigContents
  <2> QED BY <2>1, ExistingIs
<1> HIDE DEF P, inputs
<1>3. /\ IsFiniteSet(P) /\ P \in SUBSET Nat /\ ToGeocode \in Seq(TownName)
      /\ Len(ToGeocode) = Cardinality(P)
      /\ \A n \in 1 .. Cardinality(P) : NthOf(P, n) \in P /\ ToGeocode[n] = inputs[NthOf(P, n)]
  BY <1>1, ElementsAtIs
<1>4. DOMAIN ToGeocode = 1 .. Cardinality(P)
  BY <1>3
<1>5. ASSUME NEW n \in DOMAIN ToGeocode
      PROVE  \E i \in P : ToGeocode[n] = inputs[i]
  BY <1>3, <1>4
<1>6. ASSUME NEW i \in P PROVE \E n \in DOMAIN ToGeocode : ToGeocode[n] = inputs[i]
  <2>1. PICK n \in 1 .. Cardinality(P) : NthOf(P, n) = i
    BY <1>3, NthOfEvery
  <2> QED BY <1>3, <1>4, <2>1
<1> QED BY <1>1, <1>2, <1>3, <1>5, <1>6 DEF inputs

(* What WriteTowns writes. *)
Resolved == [i \in DOMAIN call.inputs |->
               [name |-> call.inputs[i], box |-> BoxFor(call.inputs[i])]]

(* The box set_towns writes for a name is one the geocoder returned, or     *)
(* one the file had; a name of the file keeps a box it had.                 *)
LEMMA BoxForIs ==
  ASSUME CfgTypeOK, CallInv, call # None, Len(call.boxes) = Len(ToGeocode),
         NEW name \in {call.inputs[i] : i \in DOMAIN call.inputs}
  PROVE  /\ BoxFor(name) \in Box \cup {Bad}
         /\ name \in NamesIn(call.existing) =>
              BoxFor(name) # Bad /\ BoxFor(name) \in BoxesOf(call.existing, name)
<1>1. CASE name \in NamesIn(call.existing)
  <2>1. BoxFor(name) = Existing(name).box
    BY <1>1, ToGeocodeIs DEF BoxFor
  <2>2. /\ Existing(name) \in Town /\ Existing(name).box # Bad
        /\ Existing(name).box \in BoxesOf(call.existing, name)
    BY <1>1, ExistingIs
  <2> QED BY <2>1, <2>2 DEF Town
<1>2. CASE name \notin NamesIn(call.existing)
  <2>1. BoxFor(name) = Geocoded(name)
    BY <1>2, ToGeocodeIs DEF BoxFor
  <2> DEFINE of == {i \in DOMAIN call.boxes : ToGeocode[i] = name}
  <2>2. Geocoded(name) = IF of = {} THEN Bad ELSE call.boxes[Max(of)]
    BY DEF Geocoded
  <2>3. call.boxes \in Seq(Box \cup {Bad})
    BY CallFields
  <2>4. DOMAIN call.boxes = 1 .. Len(call.boxes) /\ Len(call.boxes) \in Nat
    BY <2>3
  <2>5. of \in SUBSET DOMAIN call.boxes
    OBVIOUS
  <2> HIDE DEF of
  <2>6. ASSUME of # {} PROVE Max(of) \in DOMAIN call.boxes
    <3>1. of \in SUBSET Nat /\ \A n \in of : n <= Len(call.boxes)
      BY <2>4, <2>5
    <3>2. Max(of) \in of
      BY <2>4, <2>6, <3>1, MaxIs
    <3> QED BY <2>5, <3>2
  <2>7. ASSUME of # {} PROVE call.boxes[Max(of)] \in Box \cup {Bad}
    BY <2>3, <2>6, <2>7
  <2> QED BY <1>2, <2>1, <2>2, <2>7
<1> QED BY <1>1, <1>2

(* set_towns writes a town for every name it was given, in order.           *)
LEMMA ResolvedIs ==
  ASSUME CfgTypeOK, CallInv, call # None, Len(call.boxes) = Len(ToGeocode)
  PROVE  /\ Resolved \in Seq(Town) /\ Len(Resolved) = Len(call.inputs)
         /\ DOMAIN Resolved = DOMAIN call.inputs
<1>1. call.inputs \in Seq(TownName)
  BY CallFields
<1>2. DOMAIN call.inputs = 1 .. Len(call.inputs) /\ Len(call.inputs) \in Nat
  BY <1>1
<1>3. ASSUME NEW i \in DOMAIN call.inputs
      PROVE  [name |-> call.inputs[i], box |-> BoxFor(call.inputs[i])] \in Town
  <2>1. call.inputs[i] \in TownName
    BY <1>1
  <2>2. BoxFor(call.inputs[i]) \in Box \cup {Bad}
    BY BoxForIs
  <2> QED BY <2>1, <2>2 DEF Town
<1>4. Resolved \in [1 .. Len(call.inputs) -> Town]
  BY <1>2, <1>3 DEF Resolved
<1> QED BY <1>2, <1>4, FunctionIsSequence

-----------------------------------------------------------------------------
(* What was reported, file by file. *)

RegionReadsBack == reported["region"] # None => ReadName(region) = reported["region"]

TownsReadBack == reported["towns"] # None => readTownsConfig(townsFile) = reported["towns"]

KindsReadBack ==
  reported["categories"] # None =>
    \A kind \in Kind : \A n \in DOMAIN reported["categories"] :
      {m \in DOMAIN reported["categories"] :
         kind \in reported["categories"][m]} = {n}
        => tierOf(readCategoryConfig(catFile), 3, kind) = n

IcpReadsBack ==
  reported["icp"] \notin {None, IcpTemplate} => readIcpProfile(profile) = reported["icp"]

(* The property, file by file.                                              *)
LEMMA ReadBackParts ==
  WritesReadBack <=> RegionReadsBack /\ TownsReadBack /\ KindsReadBack /\ IcpReadsBack
BY DEF WritesReadBack, RegionReadsBack, TownsReadBack, KindsReadBack, IcpReadsBack

(* A report names one file; the others read as before. *)
LEMMA OneReport ==
  ASSUME ReportedType, WritesReadBack, NEW file \in {"region", "towns", "categories", "icp"},
         NEW what, Report(file, what),
         file # "region" => region' = region,
         file # "towns" => townsFile' = townsFile,
         file # "categories" => catFile' = catFile,
         file # "icp" => profile' = profile
  PROVE  /\ ReportedType' /\ reported'[file] = what
         /\ file # "region" => RegionReadsBack'
         /\ file # "towns" => TownsReadBack'
         /\ file # "categories" => KindsReadBack'
         /\ file # "icp" => IcpReadsBack'
<1>1. /\ ReportedType' /\ reported'[file] = what
      /\ \A f \in {"region", "towns", "categories", "icp"} \ {file} : reported'[f] = reported[f]
  BY DEF ReportedType, Report
<1>2. RegionReadsBack /\ TownsReadBack /\ KindsReadBack /\ IcpReadsBack
  BY ReadBackParts
<1>3. file # "region" => RegionReadsBack'
  BY <1>1, <1>2 DEF RegionReadsBack
<1>4. file # "towns" => TownsReadBack'
  BY <1>1, <1>2 DEF TownsReadBack
<1>5. file # "categories" => KindsReadBack'
  BY <1>1, <1>2 DEF KindsReadBack
<1>6. file # "icp" => IcpReadsBack'
  BY <1>1, <1>2 DEF IcpReadsBack
<1> QED BY <1>1, <1>3, <1>4, <1>5, <1>6

(* The tier of a kind that one tier lists. *)
LEMMA OnlyTier ==
  ASSUME NEW tiers, DOMAIN tiers \subseteq Nat, NEW other, NEW kind \in Kind,
         NEW n \in DOMAIN tiers, {m \in DOMAIN tiers : kind \in tiers[m]} = {n}
  PROVE  tierOf(tiers, other, kind) = n
<1> DEFINE exact == LaterWins(tiers, FALSE)
<1>1. kind.value # "*"
  BY ConfigParameters
<1>2. kind \in UNION {tiers[m] : m \in DOMAIN tiers}
  OBVIOUS
<1>3. kind \in DOMAIN exact /\ exact[kind] = Max({m \in DOMAIN tiers : kind \in tiers[m]})
  BY <1>1, <1>2 DEF LaterWins
<1>4. Max({n}) = n
  <2>1. {n} \in SUBSET Nat /\ \A m \in {n} : m <= n
    OBVIOUS
  <2>2. Max({n}) \in {n}
    BY <2>1, MaxIs
  <2> QED BY <2>2
<1> QED BY <1>3, <1>4 DEF tierOf, Resolve

-----------------------------------------------------------------------------
(* The invariant holds before anybody has configured anything ... *)
LEMMA CfgStart == CfgInit => CfgInv
<1> SUFFICES ASSUME CfgInit PROVE CfgInv
  OBVIOUS
<1>1. CfgTypeOK
  BY DEF CfgInit, CfgTypeOK, TownsFile
<1>2. ReportedType /\ CallInv
  BY DEF CfgInit, ReportedType, CallInv
<1>3. WritesReadBack
  BY DEF CfgInit, WritesReadBack
<1> QED BY <1>1, <1>2, <1>3 DEF CfgInv

(* The towns that are written are those the call asked for that have a box. *)
LEMMA TownsWritten ==
  ASSUME CfgTypeOK, CallInv, WriteTowns
  PROVE  /\ WithBox(Resolved) \in Seq(Town) /\ Len(WithBox(Resolved)) <= MaxTowns
         /\ Len(WithBox(Resolved)) \in Nat
         /\ townsFile' = [towns |-> WithBox(Resolved), comment |-> call.comment]
         /\ Report("towns", WithBox(Resolved))
         /\ townsFile' \in TownsContent
         /\ readTownsConfig(townsFile') = WithBox(Resolved)
<1> DEFINE t == WithBox(Resolved)
<1>1. call # None /\ Len(call.boxes) = Len(ToGeocode)
  BY DEF WriteTowns
<1>2. Resolved \in Seq(Town) /\ Len(Resolved) = Len(call.inputs) /\ Len(call.inputs) <= MaxTowns
  BY <1>1, ResolvedIs DEF CallInv
<1>3. townsFile' = [towns |-> t, comment |-> call.comment] /\ Report("towns", t)
  BY DEF WriteTowns, Resolved
<1>4. /\ t \in Seq(Town) /\ Len(t) <= Len(Resolved)
      /\ \A k \in DOMAIN t : t[k].box # Bad
  BY <1>2, WithBoxIs
<1> HIDE DEF t
<1>5. Len(t) \in Nat /\ Len(Resolved) \in Nat /\ MaxTowns \in Nat
  BY <1>2, <1>4, ConfigParameters
<1>6. Len(t) <= MaxTowns
  BY <1>2, <1>4, <1>5
<1>7. t \in [1 .. Len(t) -> Town] /\ Len(t) \in 0 .. MaxTowns
  BY <1>4, <1>5, <1>6
<1>8. t \in UNION {[1 .. n -> Town] : n \in 0 .. MaxTowns}
  BY <1>7
<1>9. call.comment \in BOOLEAN
  BY <1>1, CallFields
<1>10. townsFile' \in TownsContent
  BY <1>3, <1>8, <1>9 DEF TownsContent
<1>11. FirstParsed(townsFile', TownsTemplate, [towns |-> <<>>]) = townsFile'
  BY <1>10, ConfigContents DEF FirstParsed
<1>12. townsFile'.towns = t
  BY <1>3
<1>13. readTownsConfig(townsFile') = WithBox(t)
  BY <1>11, <1>12 DEF readTownsConfig
<1>14. WithBox(t) = t
  BY <1>4, WithBoxIs
<1> QED BY <1>3, <1>4, <1>5, <1>6, <1>10, <1>13, <1>14 DEF t

(* ... and after every tool call and hand edit. *)
LEMMA CfgStep == CfgInv /\ [CfgNext]_cfgVars => CfgInv'
<1> SUFFICES ASSUME CfgInv, [CfgNext]_cfgVars PROVE CfgInv'
  OBVIOUS
<1>1. CfgTypeOK /\ ReportedType /\ CallInv /\ WritesReadBack
  BY DEF CfgInv
<1>2. ASSUME NEW name \in RegionName, SetRegion(name) PROVE CfgInv'
  <2> DEFINE what == IF ReadName(name) = name THEN name ELSE None
  <2>1. /\ region' = name /\ Report("region", what)
        /\ UNCHANGED <<townsFile, catFile, profile, call>>
    BY <1>2 DEF SetRegion
  <2>2. /\ ReportedType' /\ reported'["region"] = what
        /\ TownsReadBack' /\ KindsReadBack' /\ IcpReadsBack'
    <3> HIDE DEF what
    <3> QED BY <1>1, <2>1, OneReport
  <2>3. RegionReadsBack'
    BY <2>1, <2>2 DEF RegionReadsBack
  <2>4. WritesReadBack'
    BY <2>2, <2>3 DEF WritesReadBack, RegionReadsBack, TownsReadBack, KindsReadBack, IcpReadsBack
  <2>5. CfgTypeOK' /\ CallInv'
    BY <1>1, <2>1 DEF CfgTypeOK, CallInv
  <2> QED BY <2>2, <2>4, <2>5 DEF CfgInv
<1>3. ASSUME NEW n \in 0 .. MaxTowns, NEW inputs \in [1 .. n -> TownName], StartSetTowns(inputs)
      PROVE  CfgInv'
  <2>1. inputs \in Seq(TownName) /\ Len(inputs) = n /\ n <= MaxTowns
    BY ConfigParameters, FunctionIsSequence
  <2>2. /\ readTownsConfig(townsFile) \in Seq(Town)
        /\ ValidTowns(readTownsConfig(townsFile))
    BY <1>1, TownsOfFile DEF CfgTypeOK, ValidTowns
  <2>3. (IF townsFile \in {Missing, Malformed} THEN FALSE ELSE townsFile.comment) \in BOOLEAN
    BY <1>1 DEF CfgTypeOK, TownsFile, TownsContent
  <2>4. /\ call' \in TownsCall /\ call'.inputs = inputs
        /\ call'.existing = readTownsConfig(townsFile) /\ call'.file = townsFile
    <3> DEFINE comment == IF townsFile \in {Missing, Malformed} THEN FALSE
                          ELSE townsFile.comment
               existing == readTownsConfig(townsFile)
    <3>1. call' = [inputs |-> inputs, file |-> townsFile, existing |-> existing,
                   comment |-> comment, boxes |-> <<>>]
      BY <1>3 DEF StartSetTowns
    <3>2. townsFile \in TownsFile /\ <<>> \in Seq(Box \cup {Bad})
      BY <1>1 DEF CfgTypeOK
    <3>3. comment \in BOOLEAN /\ existing \in Seq(Town)
      BY <2>2, <2>3
    <3> HIDE DEF comment, existing
    <3>4. call' \in TownsCall
      BY <2>1, <3>1, <3>2, <3>3 DEF TownsCall
    <3> QED BY <3>1, <3>4 DEF existing
  <2>5. UNCHANGED <<region, townsFile, catFile, profile, reported>>
    BY <1>3 DEF StartSetTowns
  <2>6. CfgTypeOK'
    BY <1>1, <2>4, <2>5 DEF CfgTypeOK
  <2>7. CallInv'
    BY <2>1, <2>2, <2>4, <2>5 DEF CallInv
  <2>8. WritesReadBack' /\ ReportedType'
    BY <1>1, <2>5 DEF WritesReadBack, ReportedType
  <2> QED BY <2>6, <2>7, <2>8 DEF CfgInv
<1>4. ASSUME NEW box \in Box \cup {Bad}, GeocodeTown(box) PROVE CfgInv'
  <2>1. call # None /\ call' = [call EXCEPT !.boxes = Append(call.boxes, box)]
        /\ UNCHANGED <<region, townsFile, catFile, profile, reported>>
    BY <1>4 DEF GeocodeTown
  <2>2. call \in TownsCall /\ Append(call.boxes, box) \in Seq(Box \cup {Bad})
    BY <1>1, <2>1, CallFields
  <2>3. /\ call' \in TownsCall /\ call'.inputs = call.inputs
        /\ call'.existing = call.existing /\ call'.file = call.file
    BY <2>1, <2>2 DEF TownsCall
  <2>4. CfgTypeOK'
    BY <1>1, <2>1, <2>3 DEF CfgTypeOK
  <2>5. CallInv'
    BY <1>1, <2>1, <2>3 DEF CallInv
  <2>6. WritesReadBack' /\ ReportedType'
    BY <1>1, <2>1 DEF WritesReadBack, ReportedType
  <2> QED BY <2>4, <2>5, <2>6 DEF CfgInv
<1>5. CASE WriteTowns
  <2>1. /\ townsFile' \in TownsContent /\ Report("towns", WithBox(Resolved))
        /\ readTownsConfig(townsFile') = WithBox(Resolved)
    BY <1>1, <1>5, TownsWritten
  <2>2. call' = None /\ UNCHANGED <<region, catFile, profile>>
    BY <1>5 DEF WriteTowns
  <2>3. /\ ReportedType' /\ reported'["towns"] = WithBox(Resolved)
        /\ RegionReadsBack' /\ KindsReadBack' /\ IcpReadsBack'
    BY <1>1, <2>1, <2>2, OneReport
  <2>4. TownsReadBack'
    BY <2>1, <2>3 DEF TownsReadBack
  <2>5. WritesReadBack'
    BY <2>3, <2>4 DEF WritesReadBack, RegionReadsBack, TownsReadBack, KindsReadBack, IcpReadsBack
  <2>6. CfgTypeOK' /\ CallInv'
    BY <1>1, <2>1, <2>2 DEF CfgTypeOK, CallInv, TownsFile
  <2> QED BY <2>3, <2>5, <2>6 DEF CfgInv
<1>6. ASSUME NEW tiers \in CategoryInput, SetCategories(tiers) PROVE CfgInv'
  <2>1. UNCHANGED <<region, townsFile, profile, call>>
    BY <1>6 DEF SetCategories
  <2>2. CASE UNCHANGED <<catFile, reported>>
    BY <1>1, <2>1, <2>2 DEF CfgInv, CfgTypeOK, CallInv, ReportedType, WritesReadBack
  <2>3. CASE catFile' = tiers /\ Report("categories", tiers)
    <3>1. /\ ReportedType' /\ reported'["categories"] = tiers
          /\ RegionReadsBack' /\ TownsReadBack' /\ IcpReadsBack'
      BY <1>1, <2>1, <2>3, OneReport
    <3>2. readCategoryConfig(tiers) = tiers /\ DOMAIN tiers \subseteq Nat
      BY ConfigParameters, ConfigContents DEF readCategoryConfig, FirstParsed
    <3>3. ASSUME NEW kind \in Kind, NEW n \in DOMAIN tiers,
                 {m \in DOMAIN tiers : kind \in tiers[m]} = {n}
          PROVE  tierOf(tiers, 3, kind) = n
      BY <3>2, <3>3, OnlyTier
    <3>4. KindsReadBack'
      BY <2>3, <3>1, <3>2, <3>3 DEF KindsReadBack
    <3>5. WritesReadBack'
      BY <3>1, <3>4 DEF WritesReadBack, RegionReadsBack, TownsReadBack, KindsReadBack, IcpReadsBack
    <3>6. CfgTypeOK' /\ CallInv'
      BY <1>1, <2>1, <2>3 DEF CfgTypeOK, CallInv
    <3> QED BY <3>1, <3>5, <3>6 DEF CfgInv
  <2> QED BY <1>6, <2>2, <2>3 DEF SetCategories
<1>7. ASSUME NEW prose \in Prose, WriteIcp(prose) PROVE CfgInv'
  <2>1. /\ profile' = prose /\ Report("icp", prose)
        /\ UNCHANGED <<region, townsFile, catFile, call>>
    BY <1>7 DEF WriteIcp
  <2>2. /\ ReportedType' /\ reported'["icp"] = prose
        /\ RegionReadsBack' /\ TownsReadBack' /\ KindsReadBack'
    BY <1>1, <2>1, OneReport
  <2>3. IcpReadsBack'
    BY <2>1, <2>2, ConfigContents DEF IcpReadsBack, readIcpProfile
  <2>4. WritesReadBack'
    BY <2>2, <2>3 DEF WritesReadBack, RegionReadsBack, TownsReadBack, KindsReadBack, IcpReadsBack
  <2>5. CfgTypeOK' /\ CallInv'
    BY <1>1, <2>1 DEF CfgTypeOK, CallInv
  <2> QED BY <2>2, <2>4, <2>5 DEF CfgInv
<1>8. CASE EditTowns
  <2>1. /\ townsFile' \in TownsFile /\ Report("towns", None)
        /\ UNCHANGED <<region, catFile, profile, call>>
    BY <1>8, ConfigContents DEF EditTowns
  <2>2. /\ ReportedType' /\ reported'["towns"] = None
        /\ RegionReadsBack' /\ KindsReadBack' /\ IcpReadsBack'
    BY <1>1, <2>1, OneReport
  <2>3. WritesReadBack'
    BY <2>2 DEF WritesReadBack, RegionReadsBack, KindsReadBack, IcpReadsBack
  <2>4. CfgTypeOK' /\ CallInv'
    BY <1>1, <2>1 DEF CfgTypeOK, CallInv
  <2> QED BY <2>2, <2>3, <2>4 DEF CfgInv
<1>9. CASE EditOther
  <2>1. UNCHANGED <<townsFile, call>>
    BY <1>9 DEF EditOther
  <2>2. CASE /\ region' \in RegionName \cup {Missing} /\ Report("region", None)
             /\ UNCHANGED <<catFile, profile>>
    <3>1. /\ ReportedType' /\ reported'["region"] = None
          /\ TownsReadBack' /\ KindsReadBack' /\ IcpReadsBack'
      BY <1>1, <2>1, <2>2, OneReport
    <3>2. WritesReadBack'
      BY <3>1 DEF WritesReadBack, TownsReadBack, KindsReadBack, IcpReadsBack
    <3>3. CfgTypeOK' /\ CallInv'
      BY <1>1, <2>1, <2>2 DEF CfgTypeOK, CallInv
    <3> QED BY <3>1, <3>2, <3>3 DEF CfgInv
  <2>3. CASE /\ catFile' \in {Missing, Malformed} /\ Report("categories", None)
             /\ UNCHANGED <<region, profile>>
    <3>1. /\ ReportedType' /\ reported'["categories"] = None
          /\ RegionReadsBack' /\ TownsReadBack' /\ IcpReadsBack'
      BY <1>1, <2>1, <2>3, OneReport
    <3>2. WritesReadBack'
      BY <3>1 DEF WritesReadBack, RegionReadsBack, TownsReadBack, IcpReadsBack
    <3>3. CfgTypeOK' /\ CallInv'
      BY <1>1, <2>1, <2>3 DEF CfgTypeOK, CallInv
    <3> QED BY <3>1, <3>2, <3>3 DEF CfgInv
  <2>4. CASE /\ profile' = Missing /\ Report("icp", None)
             /\ UNCHANGED <<region, catFile>>
    <3>1. /\ ReportedType' /\ reported'["icp"] = None
          /\ RegionReadsBack' /\ TownsReadBack' /\ KindsReadBack'
      BY <1>1, <2>1, <2>4, OneReport
    <3>2. WritesReadBack'
      BY <3>1 DEF WritesReadBack, RegionReadsBack, TownsReadBack, KindsReadBack
    <3>3. CfgTypeOK' /\ CallInv'
      BY <1>1, <2>1, <2>4 DEF CfgTypeOK, CallInv
    <3> QED BY <3>1, <3>2, <3>3 DEF CfgInv
  <2> QED BY <1>9, <2>2, <2>3, <2>4 DEF EditOther
<1>10. CASE UNCHANGED cfgVars
  BY <1>1, <1>10 DEF cfgVars, CfgInv, CfgTypeOK, ReportedType, CallInv, WritesReadBack
<1> QED BY <1>2, <1>3, <1>4, <1>5, <1>6, <1>7, <1>8, <1>9, <1>10 DEF CfgNext

(* What a tool says it has written is what the agents read, for any towns,  *)
(* categories, templates and hand edits.                                    *)
THEOREM FilesReadBack == CfgSpec => []WritesReadBack
<1>1. CfgInv => WritesReadBack
  BY DEF CfgInv
<1> QED BY <1>1, CfgStart, CfgStep, PTL DEF CfgSpec

(* Only the write ends a call. *)
LEMMA CallEnds ==
  ASSUME CfgInv, [CfgNext]_cfgVars, call # None, call' = None
  PROVE  WriteTowns
<1>1. CfgTypeOK
  BY DEF CfgInv
<1>2. ASSUME NEW box \in Box \cup {Bad}, GeocodeTown(box) PROVE FALSE
  <2>1. call' = [call EXCEPT !.boxes = Append(call.boxes, box)]
    BY <1>2 DEF GeocodeTown
  <2>2. call \in TownsCall /\ Append(call.boxes, box) \in Seq(Box \cup {Bad})
    BY <1>1, CallFields
  <2>3. call' \in TownsCall
    BY <2>1, <2>2 DEF TownsCall
  <2> QED BY <2>3, ConfigContents
<1>3. ASSUME NEW n \in 0 .. MaxTowns, NEW inputs \in [1 .. n -> TownName], StartSetTowns(inputs)
      PROVE  FALSE
  BY <1>3 DEF StartSetTowns
<1>4. ASSUME \/ \E name \in RegionName : SetRegion(name)
             \/ \E tiers \in CategoryInput : SetCategories(tiers)
             \/ \E prose \in Prose : WriteIcp(prose)
             \/ EditTowns \/ EditOther \/ UNCHANGED cfgVars
      PROVE  FALSE
  BY <1>4 DEF SetRegion, SetCategories, WriteIcp, EditTowns, EditOther, cfgVars
<1> QED BY <1>2, <1>3, <1>4 DEF CfgNext

(* A town the call read keeps the boxes it had. *)
LEMMA KeptBoxes ==
  ASSUME CfgTypeOK, CallInv, WriteTowns, NEW name \in NamesIn(call.existing)
  PROVE  /\ BoxesOf(WithBox(Resolved), name) \subseteq BoxesOf(call.existing, name)
         /\ name \in {call.inputs[i] : i \in DOMAIN call.inputs} =>
              name \in NamesIn(WithBox(Resolved))
<1> DEFINE t == WithBox(Resolved)
<1>1. call # None /\ Len(call.boxes) = Len(ToGeocode)
  BY DEF WriteTowns
<1>2. Resolved \in Seq(Town) /\ DOMAIN Resolved = DOMAIN call.inputs
  BY <1>1, ResolvedIs
<1>3. \A i \in DOMAIN call.inputs :
        Resolved[i].name = call.inputs[i] /\ Resolved[i].box = BoxFor(call.inputs[i])
  BY DEF Resolved
<1>4. ASSUME NEW i \in DOMAIN call.inputs, call.inputs[i] = name
      PROVE  Resolved[i].box # Bad /\ Resolved[i].box \in BoxesOf(call.existing, name)
  BY <1>1, <1>3, <1>4, BoxForIs
<1>5. /\ \A k \in DOMAIN t : \E i \in DOMAIN Resolved : t[k] = Resolved[i]
      /\ \A i \in DOMAIN Resolved : Resolved[i].box # Bad => \E k \in DOMAIN t : t[k] = Resolved[i]
  BY <1>2, WithBoxIs
<1> HIDE DEF t
<1>6. ASSUME NEW k \in DOMAIN t, t[k].name = name PROVE t[k].box \in BoxesOf(call.existing, name)
  <2>1. PICK i \in DOMAIN Resolved : t[k] = Resolved[i]
    BY <1>5
  <2> QED BY <1>2, <1>3, <1>4, <1>6, <2>1
<1>7. ASSUME NEW i \in DOMAIN call.inputs, call.inputs[i] = name PROVE name \in NamesIn(t)
  <2>1. PICK k \in DOMAIN t : t[k] = Resolved[i]
    BY <1>2, <1>4, <1>5, <1>7
  <2> QED BY <1>3, <1>7, <2>1 DEF NamesIn
<1> QED BY <1>6, <1>7 DEF BoxesOf, t

(* TownsKept of one step. *)
TownsAreKept ==
  call # None /\ call' = None =>
    LET now == readTownsConfig(townsFile)
        new == townsFile'.towns
        asked == {call.inputs[i] : i \in DOMAIN call.inputs}
    IN  /\ townsFile = call.file =>
             \A name \in NamesIn(now) \cap asked :
               /\ name \in NamesIn(new)
               /\ BoxesOf(new, name) \subseteq BoxesOf(now, name)
        /\ \A name \in NamesIn(call.existing) \cap NamesIn(new) :
             BoxesOf(new, name) \subseteq BoxesOf(call.existing, name)

(* set_towns never gives a town it found in the file another box, nor drops *)
(* it when it is asked for, whatever the geocoder answers and whoever edits *)
(* the file meanwhile.                                                      *)
THEOREM FilesKeepTowns == CfgSpec => TownsKept
<1>1. CfgInv /\ [CfgNext]_cfgVars => TownsAreKept
  <2> SUFFICES ASSUME CfgInv, [CfgNext]_cfgVars, call # None, call' = None
               PROVE  TownsAreKept
    BY DEF TownsAreKept
  <2>1. CfgTypeOK /\ CallInv /\ WriteTowns
    BY CallEnds DEF CfgInv
  <2>2. townsFile'.towns = WithBox(Resolved)
    BY <2>1, TownsWritten
  <2>3. townsFile = call.file => readTownsConfig(townsFile) = call.existing
    BY DEF CfgInv, CallInv
  <2>4. ASSUME NEW name \in NamesIn(call.existing)
        PROVE  /\ BoxesOf(townsFile'.towns, name) \subseteq BoxesOf(call.existing, name)
               /\ name \in {call.inputs[i] : i \in DOMAIN call.inputs} =>
                    name \in NamesIn(townsFile'.towns)
    BY <2>1, <2>2, KeptBoxes
  <2> QED BY <2>3, <2>4 DEF TownsAreKept
<1>2. TownsAreKept => (call # None /\ call' = None =>
       LET now == readTownsConfig(townsFile)
           new == townsFile'.towns
           asked == {call.inputs[i] : i \in DOMAIN call.inputs}
       IN  /\ townsFile = call.file =>
                \A name \in NamesIn(now) \cap asked :
                  /\ name \in NamesIn(new)
                  /\ BoxesOf(new, name) \subseteq BoxesOf(now, name)
           /\ \A name \in NamesIn(call.existing) \cap NamesIn(new) :
                BoxesOf(new, name) \subseteq BoxesOf(call.existing, name))
  BY DEF TownsAreKept
<1> QED BY <1>1, <1>2, CfgStart, CfgStep, PTL DEF CfgSpec, TownsKept

-----------------------------------------------------------------------------
(* The calendar of fetch_ical. *)

(* A line as unfold leaves it: some pieces of text, and dates above Null.   *)
Logical == [is : LineName, pieces : Seq(1 .. 2) \ {<<>>}]

(* What unfold does with one more line. *)
Unfolded(done, l) ==
  IF ~ l.folds
  THEN Append(done, [is |-> l.is, pieces |-> <<l.value>>])
  ELSE IF done = <<>>
  THEN <<[is |-> "other", pieces |-> <<l.value>>]>>
  ELSE [done EXCEPT ![Len(done)].pieces = Append(@, l.value)]

(* The fields of a line. *)
LEMMA LineIs ==
  ASSUME NEW l \in LineCase
  PROVE  l.folds \in BOOLEAN /\ l.is \in LineName /\ l.value \in 1 .. 2
<1>1. \/ l \in [folds : {FALSE}, is : {"BEGIN:VEVENT", "END:VEVENT", "SUMMARY"}, value : {1}]
      \/ l \in [folds : {FALSE}, is : {"DTSTART"}, value : 1 .. 2]
      \/ l \in [folds : {TRUE}, is : {"other"}, value : {1}]
  BY DEF LineCase
<1>2. l.folds \in {FALSE, TRUE}
  BY <1>1
<1>3. l.is \in LineName
  BY <1>1 DEF LineName, Field
<1>4. l.value \in 1 .. 2
  <2>1. l.value \in {1} \/ l.value \in 1 .. 2
    BY <1>1
  <2> QED BY <2>1
<1> QED BY <1>2, <1>3, <1>4

(* A line with other pieces.                                                *)
LEMMA PiecesReplaced ==
  ASSUME NEW A, NEW B, NEW d \in [is : A, pieces : B], NEW more
  PROVE  [d EXCEPT !.pieces = more] = [is |-> d.is, pieces |-> more]
OBVIOUS

(* One more line leaves logical lines.                                      *)
LEMMA UnfoldedIs ==
  ASSUME NEW done \in Seq(Logical), NEW l \in LineCase
  PROVE  Unfolded(done, l) \in Seq(Logical)
<1>1. l.folds \in BOOLEAN /\ l.is \in LineName /\ l.value \in 1 .. 2
  BY LineIs
<1>2. \A n \in LineName : [is |-> n, pieces |-> <<l.value>>] \in Logical
  <2>1. <<l.value>> \in Seq(1 .. 2) /\ <<l.value>> # <<>>
    BY <1>1
  <2> QED BY <2>1 DEF Logical
<1>3. "other" \in LineName
  BY DEF LineName
<1>4. CASE ~ l.folds
  <2>1. [is |-> l.is, pieces |-> <<l.value>>] \in Logical
    BY <1>1, <1>2
  <2>2. Append(done, [is |-> l.is, pieces |-> <<l.value>>]) \in Seq(Logical)
    BY <2>1
  <2> QED BY <1>4, <2>2 DEF Unfolded
<1>5. CASE l.folds /\ done = <<>>
  <2>1. [is |-> "other", pieces |-> <<l.value>>] \in Logical
    BY <1>2, <1>3
  <2>2. <<[is |-> "other", pieces |-> <<l.value>>]>> \in Seq(Logical)
    BY <2>1
  <2> QED BY <1>5, <2>2 DEF Unfolded
<1>6. CASE l.folds /\ done # <<>>
  <2> DEFINE n == Len(done)
             d == done[n]
             last == [d EXCEPT !.pieces = Append(@, l.value)]
  <2>1. n \in 1 .. Len(done) /\ d \in Logical
    BY <1>6
  <2>3. Unfolded(done, l) = [done EXCEPT ![n] = last]
    BY <1>6 DEF Unfolded
  <2> HIDE DEF d
  <2>2. last \in Logical
    <3> DEFINE more == Append(d.pieces, l.value)
    <3>1. d.is \in LineName /\ d.pieces \in Seq(1 .. 2)
      BY <2>1 DEF Logical
    <3>2. more \in Seq(1 .. 2)
      BY <1>1, <3>1
    <3>3. Len(more) = Len(d.pieces) + 1 /\ Len(d.pieces) \in Nat
      BY <1>1, <3>1
    <3> HIDE DEF more
    <3>4. last = [is |-> d.is, pieces |-> more]
      <4>1. last = [d EXCEPT !.pieces = more]
        BY DEF more
      <4>2. d \in [is : LineName, pieces : Seq(1 .. 2) \ {<<>>}]
        BY <2>1 DEF Logical
      <4> HIDE DEF last
      <4> QED BY <4>1, <4>2, PiecesReplaced
    <3> HIDE DEF last
    <3>5. Len(more) # 0
      BY <3>3
    <3>6. more # <<>>
      BY <3>5
    <3> QED BY <3>1, <3>2, <3>4, <3>6 DEF Logical
  <2> HIDE DEF n, last
  <2> QED BY <2>1, <2>2, <2>3
<1> QED BY <1>1, <1>4, <1>5, <1>6

(* What unfold returns.                                                     *)
LEMMA UnfoldIs ==
  ASSUME NEW rows \in Seq(LineCase)
  PROVE  unfold(rows) \in Seq(Logical)
<1> DEFINE l == Len(rows)
           S == Seq(Logical)
           none == <<>>
           F(f) == [n \in 0 .. l |-> IF n = 0 THEN none ELSE Unfolded(f[n - 1], rows[n])]
           out == CHOOSE f : f = F(f)
<1>1. l \in Nat /\ \A n \in 1 .. l : rows[n] \in LineCase
  OBVIOUS
<1>2. \E f : f = F(f)
  <2> DEFINE step == [n \in 1 .. l |-> [done \in S |-> Unfolded(done, rows[n])]]
  <2> HIDE DEF l, S
  <2>1. \A n \in 1 .. l, done \in S : Unfolded(done, rows[n]) \in S
    BY <1>1, UnfoldedIs DEF S
  <2>2. step \in [1 .. l -> [S -> S]]
    BY <2>1
  <2>3. none \in S
    BY DEF S
  <2> HIDE DEF none
  <2>4. \A n \in 1 .. l, done \in S : step[n][done] = Unfolded(done, rows[n])
    OBVIOUS
  <2> HIDE DEF step
  <2>5. PICK g \in [0 .. l -> S] :
          g[0] = none /\ \A n \in 1 .. l : g[n] = step[n][g[n - 1]]
    <3>1. l \in Nat
      BY <1>1
    <3> HIDE DEF F, out
    <3> QED BY <2>2, <2>3, <3>1, RecursionExists
  <2>6. ASSUME NEW n \in 0 .. l
        PROVE  g[n] = IF n = 0 THEN none ELSE Unfolded(g[n - 1], rows[n])
    <3>1. CASE n = 0
      BY <2>5, <3>1
    <3>2. CASE n # 0
      <4>1. n \in 1 .. l /\ n - 1 \in 0 .. l
        BY <1>1, <3>2
      <4>2. g[n - 1] \in S
        BY <2>5, <4>1
      <4> QED BY <2>4, <2>5, <3>2, <4>1, <4>2
    <3> QED BY <3>1, <3>2
  <2>7. g = F(g)
    BY <2>5, <2>6
  <2> QED BY <2>7
<1>3. out = F(out)
  <2> HIDE DEF F
  <2> QED BY <1>2, Zenon
<1>4. unfold(rows) = out[l]
  BY DEF unfold, Unfolded
<1> HIDE DEF out
<1> DEFINE T == {n \in 0 .. l : out[n] \notin S}
<1>5. T = {}
  <2> SUFFICES ASSUME T # {} PROVE FALSE
    OBVIOUS
  <2>1. PICK n \in T : \A j \in T : n <= j
    <3>1. T \in SUBSET Nat
      OBVIOUS
    <3> HIDE DEF T
    <3> QED BY <3>1, LeastNatural
  <2>2. n \in 0 .. l /\ out[n] \notin S
    OBVIOUS
  <2>3. out[n] = IF n = 0 THEN <<>> ELSE Unfolded(out[n - 1], rows[n])
    BY <1>3, <2>2
  <2>4. n # 0
    <3>1. <<>> \in S
      OBVIOUS
    <3> QED BY <2>2, <2>3, <3>1
  <2>5. n \in 1 .. l /\ n - 1 \in 0 .. l /\ n - 1 \notin T
    <3>1. n - 1 \in T => n <= n - 1
      BY <2>1
    <3> QED BY <1>1, <2>2, <2>4, <3>1
  <2>6. out[n - 1] \in S
    BY <2>5
  <2> QED BY <1>1, <2>2, <2>3, <2>4, <2>5, <2>6, UnfoldedIs
<1>6. l \in 0 .. l
  BY <1>1
<1> QED BY <1>4, <1>5, <1>6

(* What the state of parseICal is made of.                                  *)
EventValue == {Null} \cup (1 .. 2) \cup Seq(1 .. 2)
AnEvent == [Field -> EventValue]
ParseState == [cur : AnEvent \cup {NoEvent}, events : Seq(AnEvent)]

(* An event has fields, and NoEvent has none.                               *)
LEMMA EventIsSome ==
  ASSUME NEW e, DOMAIN e = Field
  PROVE  e # NoEvent
<1>1. "DTSTART" \in DOMAIN e
  BY DEF Field
<1>2. DOMAIN <<>> = {}
  OBVIOUS
<1> QED BY <1>1, <1>2 DEF NoEvent

(* A date, or Null.                                                         *)
LEMMA IsoIs ==
  ASSUME NEW pieces \in Seq(1 .. 2)
  PROVE  /\ toIso(pieces) \in EventValue
         /\ Len(pieces) = 1 => toIso(pieces) = pieces[1] /\ pieces[1] \in 1 .. 2
         /\ toIso(pieces) # Null <=> Len(pieces) = 1
<1>1. Len(pieces) = 1 => pieces[1] \in 1 .. 2
  OBVIOUS
<1>2. \A d \in 1 .. 2 : d # Null
  BY DEF Null
<1> QED BY <1>1, <1>2 DEF toIso, EventValue

(* A line leaves a state of the parser.                                     *)
LEMMA ParseLineIs ==
  ASSUME NEW s \in ParseState, NEW line \in Logical
  PROVE  ParseLine(s, line) \in ParseState
<1>1. /\ s.cur \in AnEvent \cup {NoEvent} /\ s.events \in Seq(AnEvent)
      /\ s = [cur |-> s.cur, events |-> s.events]
  BY DEF ParseState
<1>2. EmptyEvent \in AnEvent
  <2>1. <<>> \in Seq(1 .. 2)
    OBVIOUS
  <2> QED BY <2>1 DEF EmptyEvent, AnEvent, EventValue
<1>3. \A c \in AnEvent \cup {NoEvent}, e \in Seq(AnEvent) :
        [cur |-> c, events |-> e] \in ParseState
  BY DEF ParseState
<1>4. CASE Delimits(line, "BEGIN:VEVENT")
  <2>1. ParseLine(s, line) = [s EXCEPT !.cur = EmptyEvent]
    BY <1>4 DEF ParseLine
  <2>2. ParseLine(s, line) = [cur |-> EmptyEvent, events |-> s.events]
    BY <1>1, <2>1
  <2> QED BY <1>1, <1>2, <1>3, <2>2
<1>5. CASE ~ Delimits(line, "BEGIN:VEVENT") /\ Delimits(line, "END:VEVENT")
  <2>1. ParseLine(s, line) = EndEvent(s)
    BY <1>5 DEF ParseLine
  <2>2. s.cur # NoEvent => Append(s.events, s.cur) \in Seq(AnEvent)
    BY <1>1
  <2>3. EndEvent(s).cur = NoEvent /\ EndEvent(s).events \in Seq(AnEvent)
        /\ EndEvent(s) = [cur |-> NoEvent, events |-> EndEvent(s).events]
    BY <1>1, <2>2 DEF EndEvent
  <2> QED BY <1>3, <2>1, <2>3
<1>6. CASE ~ Delimits(line, "BEGIN:VEVENT") /\ ~ Delimits(line, "END:VEVENT")
  <2>1. CASE s.cur = NoEvent \/ line.is \notin Field
    BY <1>6, <2>1 DEF ParseLine
  <2>2. CASE s.cur # NoEvent /\ line.is \in Field
    <3> DEFINE v == IF line.is = "DTSTART" THEN toIso(line.pieces) ELSE line.pieces
    <3>1. ParseLine(s, line) = [s EXCEPT !.cur[line.is] = v]
      BY <1>6, <2>2 DEF ParseLine
    <3>2. line.pieces \in Seq(1 .. 2)
      BY DEF Logical
    <3>3. v \in EventValue
      BY <3>2, IsoIs DEF EventValue
    <3> HIDE DEF v
    <3>4. [s.cur EXCEPT ![line.is] = v] \in AnEvent
      BY <1>1, <2>2, <3>3 DEF AnEvent
    <3>5. ParseLine(s, line) = [cur |-> [s.cur EXCEPT ![line.is] = v], events |-> s.events]
      BY <1>1, <3>1
    <3> QED BY <1>1, <1>3, <3>4, <3>5
  <2> QED BY <2>1, <2>2
<1> QED BY <1>4, <1>5, <1>6

-----------------------------------------------------------------------------
Delimiter(line) ==
  \E name \in {"BEGIN:VEVENT", "END:VEVENT"} : Delimits(line, name)

(* Before line n + 1 the event that began at line b is open.                *)
Opens(L, b, n) ==
  /\ b \in 1 .. n
  /\ Delimits(L[b], "BEGIN:VEVENT")
  /\ \A i \in b + 1 .. n : ~ Delimiter(L[i])

(* What is known of it by then.                                             *)
SoFar(L, b, n) ==
  [f \in Field |->
     LET of == FieldLines(L, <<b, n>>, f)
     IN  IF of = {} THEN EmptyEvent[f]
         ELSE IF f = "DTSTART" THEN toIso(L[Max(of)].pieces) ELSE L[Max(of)].pieces]

(* The dated events that have ended by then.                                *)
DatedUpTo(L, n) == {b \in Blocks(L) : b[2] <= n /\ Dated(L, b)}

(* One event is open at a time. *)
LEMMA OpenIsOne ==
  ASSUME NEW L, NEW n \in Nat, NEW b, NEW c, Opens(L, b, n), Opens(L, c, n)
  PROVE  b = c
<1>1. b \in 1 .. n /\ c \in 1 .. n /\ Delimiter(L[b]) /\ Delimiter(L[c])
  BY DEF Opens, Delimiter
<1>2. ~ (b < c)
  <2>1. b < c => c \in b + 1 .. n
    BY <1>1
  <2> QED BY <1>1, <2>1 DEF Opens
<1>3. ~ (c < b)
  <2>1. c < b => b \in c + 1 .. n
    BY <1>1
  <2> QED BY <1>1, <2>1 DEF Opens
<1> QED BY <1>1, <1>2, <1>3

(* An event is a block from its beginning to the delimiter behind it.       *)
LEMMA BlockIs ==
  ASSUME NEW L \in Seq(Logical), NEW b, NEW e \in 1 .. Len(L)
  PROVE  <<b, e>> \in Blocks(L) <=> Delimits(L[e], "END:VEVENT") /\ Opens(L, b, e - 1)
<1>1. DOMAIN L = 1 .. Len(L) /\ Len(L) \in Nat
  OBVIOUS
<1>2. <<b, e>> \in Blocks(L) <=>
        /\ b \in 1 .. Len(L) /\ b < e
        /\ Delimits(L[b], "BEGIN:VEVENT") /\ Delimits(L[e], "END:VEVENT")
        /\ \A i \in b + 1 .. e - 1 : ~ Delimiter(L[i])
  BY <1>1 DEF Blocks, Delimiter
<1>3. b \in 1 .. e - 1 <=> b \in 1 .. Len(L) /\ b < e
  BY <1>1
<1> QED BY <1>2, <1>3 DEF Opens

(* The greatest of some positions is one of them; the last is the greatest. *)
LEMMA MaxOfPositions ==
  ASSUME NEW n \in Nat, NEW P \in SUBSET (1 .. n), P # {}
  PROVE  Max(P) \in P /\ (n \in P => Max(P) = n)
<1>1. \E m \in P : \A i \in P : m >= i
  <2>1. P \in SUBSET Nat /\ \A i \in P : i <= n
    OBVIOUS
  <2>2. PICK m \in P : \A i \in P : i <= m
    BY <2>1, GreatestNatural
  <2> QED BY <2>1, <2>2
<1>2. Max(P) \in P /\ \A i \in P : Max(P) >= i
  BY <1>1, Zenon DEF Max
<1> DEFINE m == Max(P)
<1> HIDE DEF m
<1>3. m \in 1 .. n /\ (n \in P => m >= n)
  BY <1>2 DEF m
<1>4. n \in P => m = n
  BY <1>3
<1> QED BY <1>2, <1>4 DEF m

(* The lines of a field, with one line more.                                *)
LEMMA FieldLinesGrow ==
  ASSUME NEW L, NEW b \in Nat, NEW n \in Nat, b <= n, NEW f
  PROVE  FieldLines(L, <<b, n>>, f)
           = FieldLines(L, <<b, n - 1>>, f) \cup {i \in {n} : L[i].is = f}
<1>1. b .. n = (b .. n - 1) \cup {n}
  OBVIOUS
<1> QED BY <1>1 DEF FieldLines

(* A line that is no field of the event changes nothing of it. *)
LEMMA SoFarStays ==
  ASSUME NEW L, NEW b \in Nat, NEW n \in Nat, b <= n, L[n].is \notin Field
  PROVE  /\ SoFar(L, b, n) = SoFar(L, b, n - 1)
         /\ \A f \in Field : FieldLines(L, <<b, n>>, f) = FieldLines(L, <<b, n - 1>>, f)
<1>1. ASSUME NEW f \in Field PROVE FieldLines(L, <<b, n>>, f) = FieldLines(L, <<b, n - 1>>, f)
  <2>1. {i \in {n} : L[i].is = f} = {}
    OBVIOUS
  <2>2. FieldLines(L, <<b, n>>, f)
          = FieldLines(L, <<b, n - 1>>, f) \cup {i \in {n} : L[i].is = f}
    BY FieldLinesGrow
  <2> QED BY <2>1, <2>2
<1> QED BY <1>1 DEF SoFar

(* A line of a field gives it another value.                                *)
LEMMA SoFarChanges ==
  ASSUME NEW L, NEW b \in Nat, NEW n \in Nat, 1 <= b, b <= n, L[n].is \in Field,
         NEW v, v = IF L[n].is = "DTSTART" THEN toIso(L[n].pieces) ELSE L[n].pieces
  PROVE  SoFar(L, b, n) = [SoFar(L, b, n - 1) EXCEPT ![L[n].is] = v]
<1>1. ASSUME NEW f \in Field, f # L[n].is
      PROVE  FieldLines(L, <<b, n>>, f) = FieldLines(L, <<b, n - 1>>, f)
  <2>1. {i \in {n} : L[i].is = f} = {}
    BY <1>1
  <2>2. FieldLines(L, <<b, n>>, f)
          = FieldLines(L, <<b, n - 1>>, f) \cup {i \in {n} : L[i].is = f}
    BY FieldLinesGrow
  <2> QED BY <2>1, <2>2
<1>2. ASSUME NEW f \in Field, f = L[n].is
      PROVE  FieldLines(L, <<b, n>>, f) # {} /\ Max(FieldLines(L, <<b, n>>, f)) = n
  <2> DEFINE P == FieldLines(L, <<b, n>>, f)
  <2>1. n \in P
    <3>1. n \in {i \in {n} : L[i].is = f}
      BY <1>2
    <3>2. P = FieldLines(L, <<b, n - 1>>, f) \cup {i \in {n} : L[i].is = f}
      BY FieldLinesGrow
    <3> QED BY <3>1, <3>2
  <2>2. P \in SUBSET (1 .. n)
    BY DEF FieldLines
  <2> HIDE DEF P
  <2>3. Max(P) = n
    BY <2>1, <2>2, MaxOfPositions
  <2> QED BY <2>1, <2>3 DEF P
<1>3. ASSUME NEW f \in Field
      PROVE  SoFar(L, b, n)[f] = IF f = L[n].is THEN v ELSE SoFar(L, b, n - 1)[f]
  <2>1. CASE f = L[n].is
    BY <1>2, <2>1 DEF SoFar
  <2>2. CASE f # L[n].is
    BY <1>1, <2>2 DEF SoFar
  <2> QED BY <2>1, <2>2
<1>4. SoFar(L, b, n) = [f \in Field |-> SoFar(L, b, n)[f]]
      /\ SoFar(L, b, n - 1) = [f \in Field |-> SoFar(L, b, n - 1)[f]]
  BY DEF SoFar
<1> QED BY <1>3, <1>4

-----------------------------------------------------------------------------
(* g numbers the blocks B in the order their events t were kept in.         *)
Numbered(g, t, B, L) ==
  /\ g \in [1 .. Len(t) -> B]
  /\ \A k \in 1 .. Len(t) : t[k] = EventOf(L, g[k])
  /\ \A j, k \in 1 .. Len(t) : g[j] = g[k] => j = k
  /\ \A b \in B : \E k \in 1 .. Len(t) : g[k] = b

(* What parseICal knows after n lines: the open event, as far as it has     *)
(* been read, and every dated event that has ended.                         *)
ParsedTo(L, n, s) ==
  /\ s \in ParseState
  /\ s.cur = NoEvent => \A b \in 1 .. n : ~ Opens(L, b, n)
  /\ s.cur # NoEvent => \E b \in 1 .. n : Opens(L, b, n) /\ s.cur = SoFar(L, b, n)
  /\ \E g : Numbered(g, s.events, DatedUpTo(L, n), L)

(* One block more is numbered behind the others. *)
LEMMA NumberedGrows ==
  ASSUME NEW S, NEW t \in Seq(S), NEW B, NEW L, NEW g, Numbered(g, t, B, L),
         NEW b, b \notin B, EventOf(L, b) \in S
  PROVE  \E h : Numbered(h, Append(t, EventOf(L, b)), B \cup {b}, L)
<1> DEFINE n == Len(t)
           e == EventOf(L, b)
           u == Append(t, e)
           h == [k \in 1 .. n + 1 |-> IF k = n + 1 THEN b ELSE g[k]]
<1>1. n \in Nat /\ Len(u) = n + 1 /\ u[n + 1] = e /\ \A k \in 1 .. n : u[k] = t[k]
  <2> HIDE DEF e
  <2> QED OBVIOUS
<1>2. /\ \A k \in 1 .. n : g[k] \in B /\ t[k] = EventOf(L, g[k])
      /\ \A j, k \in 1 .. n : g[j] = g[k] => j = k
      /\ \A c \in B : \E k \in 1 .. n : g[k] = c
  BY DEF Numbered
<1> HIDE DEF n, u
<1>3. h[n + 1] = b /\ \A k \in 1 .. n : h[k] = g[k]
  BY <1>1
<1>4. h \in [1 .. n + 1 -> B \cup {b}]
  BY <1>1, <1>2
<1> HIDE DEF h
<1>5. \A k \in 1 .. n + 1 : k = n + 1 \/ k \in 1 .. n
  BY <1>1
<1>6. n + 1 \in 1 .. n + 1 /\ \A k \in 1 .. n : k \in 1 .. n + 1
  BY <1>1
<1>7. \A k \in 1 .. n + 1 : u[k] = EventOf(L, h[k])
  BY <1>1, <1>2, <1>3, <1>5
<1>8. \A j, k \in 1 .. n + 1 : h[j] = h[k] => j = k
  BY <1>2, <1>3, <1>5
<1>9. \A c \in B \cup {b} : \E k \in 1 .. n + 1 : h[k] = c
  <2> SUFFICES ASSUME NEW c \in B \cup {b} PROVE \E k \in 1 .. n + 1 : h[k] = c
    OBVIOUS
  <2>1. CASE c = b
    BY <1>3, <1>6, <2>1
  <2>2. CASE c \in B
    BY <1>2, <1>3, <1>6, <2>2
  <2> QED BY <2>1, <2>2
<1>10. Numbered(h, u, B \cup {b}, L)
  BY <1>1, <1>4, <1>7, <1>8, <1>9 DEF Numbered
<1> QED BY <1>10 DEF u

(* Which dated events have ended by one line more.                          *)
LEMMA DatedGrow ==
  ASSUME NEW L \in Seq(Logical), NEW n \in 1 .. Len(L), NEW c
  PROVE  c \in DatedUpTo(L, n) <=>
           \/ c \in DatedUpTo(L, n - 1)
           \/ /\ c = <<c[1], n>> /\ Delimits(L[n], "END:VEVENT")
              /\ Opens(L, c[1], n - 1) /\ Dated(L, c)
<1>1. DOMAIN L = 1 .. Len(L) /\ Len(L) \in Nat
  OBVIOUS
<1>2. c \in Blocks(L) => c = <<c[1], c[2]>> /\ c[2] \in Nat
  BY <1>1 DEF Blocks
<1>3. c \in Blocks(L) => (c[2] <= n <=> c[2] <= n - 1 \/ c[2] = n)
  BY <1>2
<1>4. c = <<c[1], n>> =>
        c[2] = n /\ (c \in Blocks(L) <=> Delimits(L[n], "END:VEVENT") /\ Opens(L, c[1], n - 1))
  <2>1. <<c[1], n>> \in Blocks(L) <=> Delimits(L[n], "END:VEVENT") /\ Opens(L, c[1], n - 1)
    BY BlockIs
  <2>2. c = <<c[1], n>> => c[2] = n
    OBVIOUS
  <2> QED BY <2>1, <2>2
<1>5. c \in Blocks(L) /\ c[2] = n => c = <<c[1], n>>
  BY <1>2
<1>6. c \in DatedUpTo(L, n) <=> c \in Blocks(L) /\ c[2] <= n /\ Dated(L, c)
  BY DEF DatedUpTo
<1>7. c \in DatedUpTo(L, n - 1) <=> c \in Blocks(L) /\ c[2] <= n - 1 /\ Dated(L, c)
  BY DEF DatedUpTo
<1> QED BY <1>3, <1>4, <1>5, <1>6, <1>7

(* What is known of an event when it ends is what the event is. *)
LEMMA EndsAs ==
  ASSUME NEW L \in Seq(Logical), NEW n \in 1 .. Len(L), NEW b, Opens(L, b, n - 1),
         Delimits(L[n], "END:VEVENT")
  PROVE  /\ SoFar(L, b, n - 1)["DTSTART"] # Null <=> Dated(L, <<b, n>>)
         /\ Dated(L, <<b, n>>) => EventOf(L, <<b, n>>) = SoFar(L, b, n - 1)
<1>1. b \in Nat /\ b <= n /\ 1 <= b /\ n \in Nat /\ n <= Len(L) /\ Len(L) \in Nat
  BY DEF Opens
<1>2. L[n].is \notin Field
  BY DEF Delimits, Field
<1>3. SoFar(L, b, n) = SoFar(L, b, n - 1)
  BY <1>1, <1>2, SoFarStays
<1> DEFINE of == FieldLines(L, <<b, n>>, "DTSTART")
           summary == FieldLines(L, <<b, n>>, "SUMMARY")
<1>4. of # {} => L[Max(of)] \in Logical
  <2>1. of \in SUBSET (1 .. n)
    BY <1>1 DEF FieldLines
  <2> HIDE DEF of
  <2>2. of # {} => Max(of) \in 1 .. n
    BY <1>1, <2>1, MaxOfPositions
  <2> QED BY <1>1, <2>2
<1>5. of # {} => L[Max(of)].pieces \in Seq(1 .. 2)
  BY <1>4 DEF Logical
<1>6. Dated(L, <<b, n>>) <=> of # {} /\ Len(L[Max(of)].pieces) = 1
  BY DEF Dated
<1>7. "DTSTART" \in Field /\ "SUMMARY" \in Field
      /\ \A f \in Field : f = "DTSTART" \/ f = "SUMMARY"
  BY DEF Field
<1>8. SoFar(L, b, n)["DTSTART"] = IF of = {} THEN Null ELSE toIso(L[Max(of)].pieces)
  BY <1>7 DEF SoFar, EmptyEvent
<1>9. SoFar(L, b, n)["SUMMARY"] = IF summary = {} THEN <<>> ELSE L[Max(summary)].pieces
  BY <1>7 DEF SoFar, EmptyEvent
<1>10. EventOf(L, <<b, n>>)["DTSTART"] = L[Max(of)].pieces[1]
  BY <1>7 DEF EventOf
<1>11. EventOf(L, <<b, n>>)["SUMMARY"] = IF summary = {} THEN <<>> ELSE L[Max(summary)].pieces
  BY <1>7 DEF EventOf
<1> HIDE DEF of, summary
<1>12. of # {} => /\ toIso(L[Max(of)].pieces) # Null <=> Len(L[Max(of)].pieces) = 1
                  /\ Len(L[Max(of)].pieces) = 1 => toIso(L[Max(of)].pieces) = L[Max(of)].pieces[1]
  BY <1>5, IsoIs
<1>13. SoFar(L, b, n)["DTSTART"] # Null <=> Dated(L, <<b, n>>)
  BY <1>6, <1>8, <1>12
<1>14. Dated(L, <<b, n>>) => EventOf(L, <<b, n>>) = SoFar(L, b, n)
  <2> SUFFICES ASSUME Dated(L, <<b, n>>) PROVE EventOf(L, <<b, n>>) = SoFar(L, b, n)
    OBVIOUS
  <2>1. EventOf(L, <<b, n>>)["DTSTART"] = SoFar(L, b, n)["DTSTART"]
    BY <1>6, <1>8, <1>10, <1>12
  <2>2. EventOf(L, <<b, n>>)["SUMMARY"] = SoFar(L, b, n)["SUMMARY"]
    BY <1>9, <1>11
  <2>3. /\ SoFar(L, b, n) = [f \in Field |-> SoFar(L, b, n)[f]]
        /\ EventOf(L, <<b, n>>) = [f \in Field |-> EventOf(L, <<b, n>>)[f]]
    BY DEF SoFar, EventOf
  <2> QED BY <1>7, <2>1, <2>2, <2>3
<1> QED BY <1>3, <1>13, <1>14

(* Nothing has been read at first.                                          *)
LEMMA NothingParsed ==
  ASSUME NEW L \in Seq(Logical)
  PROVE  ParsedTo(L, 0, [cur |-> NoEvent, events |-> <<>>])
<1> DEFINE s == [cur |-> NoEvent, events |-> <<>>]
<1>1. s.cur = NoEvent /\ s.events = <<>>
  OBVIOUS
<1>2. s \in ParseState
  <2>1. <<>> \in Seq(AnEvent)
    OBVIOUS
  <2> QED BY <2>1 DEF ParseState
<1>3. DatedUpTo(L, 0) = {}
  <2>1. \A b \in Blocks(L) : ~ (b[2] <= 0)
    BY DEF Blocks
  <2> QED BY <2>1 DEF DatedUpTo
<1> HIDE DEF s
<1>4. \E g : Numbered(g, s.events, DatedUpTo(L, 0), L)
  <2> DEFINE g == [k \in 1 .. 0 |-> <<>>]
  <2>1. g \in [1 .. 0 -> {}]
    OBVIOUS
  <2>2. Len(s.events) = 0
    BY <1>1
  <2> HIDE DEF g
  <2>3. Numbered(g, s.events, DatedUpTo(L, 0), L)
    BY <1>3, <2>1, <2>2 DEF Numbered
  <2> QED BY <2>3
<1>5. ParsedTo(L, 0, s)
  BY <1>1, <1>2, <1>4 DEF ParsedTo
<1> QED BY <1>5 DEF s

(* An event begins.                                                         *)
LEMMA BeginParses ==
  ASSUME NEW L \in Seq(Logical), NEW n \in 1 .. Len(L), NEW s, ParsedTo(L, n - 1, s),
         Delimits(L[n], "BEGIN:VEVENT")
  PROVE  ParsedTo(L, n, ParseLine(s, L[n]))
<1> DEFINE t == ParseLine(s, L[n])
<1>1. s \in ParseState /\ L[n] \in Logical /\ n \in Nat /\ 1 <= n
  BY DEF ParsedTo
<1>2. t \in ParseState
  BY <1>1, ParseLineIs
<1>3. t.cur = EmptyEvent /\ t.events = s.events
  BY <1>1 DEF ParseLine, ParseState
<1> HIDE DEF t
<1>4. EmptyEvent # NoEvent
  <2>1. DOMAIN EmptyEvent = Field
    BY DEF EmptyEvent
  <2> QED BY <2>1, EventIsSome
<1>5. Opens(L, n, n) /\ n \in 1 .. n
  BY <1>1 DEF Opens
<1>6. SoFar(L, n, n) = EmptyEvent
  <2>1. L[n].is \notin Field
    BY DEF Delimits, Field
  <2>2. ASSUME NEW f \in Field PROVE FieldLines(L, <<n, n>>, f) = {}
    BY <1>1, <2>1, <2>2 DEF FieldLines
  <2>3. SoFar(L, n, n) = [f \in Field |-> EmptyEvent[f]]
    BY <2>2 DEF SoFar
  <2> QED BY <2>3 DEF EmptyEvent
<1>7. DatedUpTo(L, n) = DatedUpTo(L, n - 1)
  <2>1. ~ Delimits(L[n], "END:VEVENT")
    BY DEF Delimits
  <2>2. \A c : c \in DatedUpTo(L, n) <=> c \in DatedUpTo(L, n - 1)
    BY <2>1, DatedGrow
  <2> QED BY <2>2
<1>8. \E g : Numbered(g, t.events, DatedUpTo(L, n), L)
  BY <1>3, <1>7 DEF ParsedTo
<1>9. t.cur # NoEvent /\ \E b \in 1 .. n : Opens(L, b, n) /\ t.cur = SoFar(L, b, n)
  BY <1>3, <1>4, <1>5, <1>6
<1>10. ParsedTo(L, n, t)
  BY <1>2, <1>8, <1>9 DEF ParsedTo
<1> QED BY <1>10 DEF t

(* An event ends, if one is open.                                           *)
LEMMA EndParses ==
  ASSUME NEW L \in Seq(Logical), NEW n \in 1 .. Len(L), NEW s, ParsedTo(L, n - 1, s),
         Delimits(L[n], "END:VEVENT")
  PROVE  ParsedTo(L, n, ParseLine(s, L[n]))
<1> DEFINE t == ParseLine(s, L[n])
<1>1. s \in ParseState /\ L[n] \in Logical /\ n \in Nat /\ 1 <= n
  BY DEF ParsedTo
<1>2. t \in ParseState
  BY <1>1, ParseLineIs
<1>3. t = EndEvent(s)
  BY DEF ParseLine, Delimits
<1>4. /\ t.cur = NoEvent
      /\ t.events = IF s.cur # NoEvent /\ s.cur["DTSTART"] # Null
                    THEN Append(s.events, s.cur) ELSE s.events
  BY <1>3 DEF EndEvent
<1> HIDE DEF t
<1>5. \A b \in 1 .. n : ~ Opens(L, b, n)
  <2> SUFFICES ASSUME NEW b \in 1 .. n, Opens(L, b, n) PROVE FALSE
    OBVIOUS
  <2>1. Delimiter(L[n])
    BY DEF Delimiter
  <2>2. b # n
    BY DEF Opens, Delimits
  <2>3. n \in b + 1 .. n
    BY <1>1, <2>2
  <2> QED BY <2>1, <2>3 DEF Opens
<1>6. PICK g : Numbered(g, s.events, DatedUpTo(L, n - 1), L)
  BY DEF ParsedTo
<1>7. n - 1 \in Nat
  BY <1>1
<1>8. \E h : Numbered(h, t.events, DatedUpTo(L, n), L)
  <2>1. CASE s.cur = NoEvent
    <3>1. \A b \in 1 .. n - 1 : ~ Opens(L, b, n - 1)
      BY <2>1 DEF ParsedTo
    <3>2. \A b : ~ Opens(L, b, n - 1)
      BY <3>1 DEF Opens
    <3>3. \A c : c \in DatedUpTo(L, n) <=> c \in DatedUpTo(L, n - 1)
      BY <3>2, DatedGrow
    <3>4. DatedUpTo(L, n) = DatedUpTo(L, n - 1) /\ t.events = s.events
      BY <1>4, <2>1, <3>3
    <3> QED BY <1>6, <3>4
  <2>2. CASE s.cur # NoEvent
    <3>1. PICK b \in 1 .. n - 1 : Opens(L, b, n - 1) /\ s.cur = SoFar(L, b, n - 1)
      BY <2>2 DEF ParsedTo
    <3> DEFINE block == <<b, n>>
    <3>2. /\ s.cur["DTSTART"] # Null <=> Dated(L, block)
          /\ Dated(L, block) => EventOf(L, block) = s.cur
      BY <3>1, EndsAs
    <3>3. \A c : c \in DatedUpTo(L, n) <=>
                   c \in DatedUpTo(L, n - 1) \/ (c = block /\ Dated(L, block))
      <4> SUFFICES ASSUME NEW c
                   PROVE  c \in DatedUpTo(L, n) <=>
                            c \in DatedUpTo(L, n - 1) \/ (c = block /\ Dated(L, block))
        OBVIOUS
      <4>1. c \in DatedUpTo(L, n) <=>
              \/ c \in DatedUpTo(L, n - 1)
              \/ /\ c = <<c[1], n>> /\ Delimits(L[n], "END:VEVENT")
                 /\ Opens(L, c[1], n - 1) /\ Dated(L, c)
        BY DatedGrow
      <4>2. Opens(L, c[1], n - 1) => c[1] = b
        BY <1>7, <3>1, OpenIsOne
      <4>3. c = block => c = <<c[1], n>> /\ c[1] = b
        OBVIOUS
      <4>4. c = <<c[1], n>> /\ c[1] = b => c = block
        OBVIOUS
      <4> HIDE DEF block
      <4> QED BY <3>1, <4>1, <4>2, <4>3, <4>4
    <3>4. block \notin DatedUpTo(L, n - 1)
      <4>1. block[2] = n
        OBVIOUS
      <4> HIDE DEF block
      <4> QED BY <1>1, <4>1 DEF DatedUpTo
    <3> HIDE DEF block
    <3>5. CASE Dated(L, block)
      <4>1. DatedUpTo(L, n) = DatedUpTo(L, n - 1) \cup {block}
        BY <3>3, <3>5
      <4>2. t.events = Append(s.events, EventOf(L, block))
        BY <1>4, <2>2, <3>2, <3>5
      <4>3. s.events \in Seq(AnEvent) /\ EventOf(L, block) \in AnEvent
        BY <1>1, <2>2, <3>2, <3>5 DEF ParseState
      <4>4. \E h : Numbered(h, Append(s.events, EventOf(L, block)),
                            DatedUpTo(L, n - 1) \cup {block}, L)
        BY <1>6, <3>4, <4>3, NumberedGrows
      <4> QED BY <4>1, <4>2, <4>4
    <3>6. CASE ~ Dated(L, block)
      <4>1. DatedUpTo(L, n) = DatedUpTo(L, n - 1)
        BY <3>3, <3>6
      <4>2. t.events = s.events
        BY <1>4, <3>2, <3>6
      <4> QED BY <1>6, <4>1, <4>2
    <3> QED BY <3>5, <3>6
  <2> QED BY <2>1, <2>2
<1>9. ParsedTo(L, n, t)
  BY <1>2, <1>4, <1>5, <1>8 DEF ParsedTo
<1> QED BY <1>9 DEF t

(* A line within an event or outside.                                       *)
LEMMA OtherParses ==
  ASSUME NEW L \in Seq(Logical), NEW n \in 1 .. Len(L), NEW s, ParsedTo(L, n - 1, s),
         ~ Delimits(L[n], "BEGIN:VEVENT"), ~ Delimits(L[n], "END:VEVENT")
  PROVE  ParsedTo(L, n, ParseLine(s, L[n]))
<1> DEFINE t == ParseLine(s, L[n])
<1>1. s \in ParseState /\ L[n] \in Logical /\ n \in Nat /\ 1 <= n
  BY DEF ParsedTo
<1>2. t \in ParseState
  BY <1>1, ParseLineIs
<1>3. t = IF s.cur = NoEvent \/ L[n].is \notin Field THEN s
          ELSE [s EXCEPT !.cur[L[n].is] = IF L[n].is = "DTSTART" THEN toIso(L[n].pieces)
                                          ELSE L[n].pieces]
  BY DEF ParseLine
<1> HIDE DEF t
<1>4. \A b : Opens(L, b, n) <=> Opens(L, b, n - 1)
  <2> SUFFICES ASSUME NEW b PROVE Opens(L, b, n) <=> Opens(L, b, n - 1)
    OBVIOUS
  <2>1. ~ Delimiter(L[n])
    BY DEF Delimiter
  <2>2. ASSUME Opens(L, b, n) PROVE Opens(L, b, n - 1)
    <3>1. b \in 1 .. n /\ b # n
      BY <2>2 DEF Opens
    <3>2. b \in 1 .. n - 1 /\ \A i \in b + 1 .. n - 1 : i \in b + 1 .. n
      BY <1>1, <3>1
    <3> QED BY <2>2, <3>2 DEF Opens
  <2>3. ASSUME Opens(L, b, n - 1) PROVE Opens(L, b, n)
    <3>1. b \in 1 .. n - 1
      BY <2>3 DEF Opens
    <3>2. b \in 1 .. n /\ \A i \in b + 1 .. n : i = n \/ i \in b + 1 .. n - 1
      BY <1>1, <3>1
    <3> QED BY <2>1, <2>3, <3>2 DEF Opens
  <2> QED BY <2>2, <2>3
<1>5. \A b : Opens(L, b, n - 1) => b \in 1 .. n - 1 /\ b \in 1 .. n /\ b \in Nat /\ 1 <= b /\ b <= n
  BY <1>1 DEF Opens
<1>6. DatedUpTo(L, n) = DatedUpTo(L, n - 1)
  <2>1. \A c : c \in DatedUpTo(L, n) <=> c \in DatedUpTo(L, n - 1)
    BY DatedGrow
  <2> QED BY <2>1
<1>7. t.events = s.events
  BY <1>1, <1>3 DEF ParseState
<1>8. \E g : Numbered(g, t.events, DatedUpTo(L, n), L)
  BY <1>6, <1>7 DEF ParsedTo
<1>9. ASSUME s.cur = NoEvent
      PROVE  t.cur = NoEvent /\ \A b \in 1 .. n : ~ Opens(L, b, n)
  <2>1. \A b \in 1 .. n - 1 : ~ Opens(L, b, n - 1)
    BY <1>9 DEF ParsedTo
  <2> QED BY <1>3, <1>4, <1>5, <1>9, <2>1
<1>10. ASSUME s.cur # NoEvent
       PROVE  t.cur # NoEvent /\ \E b \in 1 .. n : Opens(L, b, n) /\ t.cur = SoFar(L, b, n)
  <2>1. PICK b \in 1 .. n - 1 : Opens(L, b, n - 1) /\ s.cur = SoFar(L, b, n - 1)
    BY <1>10 DEF ParsedTo
  <2>2. Opens(L, b, n) /\ b \in 1 .. n /\ b \in Nat /\ 1 <= b /\ b <= n
    BY <1>4, <1>5, <2>1
  <2>3. t.cur = SoFar(L, b, n)
    <3>1. CASE L[n].is \notin Field
      <4>1. t = s
        BY <1>3, <3>1
      <4>2. SoFar(L, b, n) = SoFar(L, b, n - 1)
        BY <1>1, <2>2, <3>1, SoFarStays
      <4> QED BY <2>1, <4>1, <4>2
    <3>2. CASE L[n].is \in Field
      <4> DEFINE v == IF L[n].is = "DTSTART" THEN toIso(L[n].pieces) ELSE L[n].pieces
      <4>1. t = [s EXCEPT !.cur[L[n].is] = v]
        BY <1>3, <1>10, <3>2
      <4> HIDE DEF v
      <4>2. t.cur = [s.cur EXCEPT ![L[n].is] = v]
        BY <1>1, <4>1 DEF ParseState
      <4>3. SoFar(L, b, n) = [SoFar(L, b, n - 1) EXCEPT ![L[n].is] = v]
        BY <1>1, <2>2, <3>2, SoFarChanges DEF v
      <4> QED BY <2>1, <4>2, <4>3
    <3> QED BY <3>1, <3>2
  <2>4. DOMAIN SoFar(L, b, n) = Field
    BY DEF SoFar
  <2>5. SoFar(L, b, n) # NoEvent
    BY <2>4, EventIsSome
  <2> QED BY <2>2, <2>3, <2>5
<1>11. ParsedTo(L, n, t)
  BY <1>2, <1>8, <1>9, <1>10 DEF ParsedTo
<1> QED BY <1>11 DEF t

(* One more line. *)
LEMMA LineParses ==
  ASSUME NEW L \in Seq(Logical), NEW n \in 1 .. Len(L), NEW s, ParsedTo(L, n - 1, s)
  PROVE  ParsedTo(L, n, ParseLine(s, L[n]))
BY BeginParses, EndParses, OtherParses

(* parseICal keeps the dated events of the calendar, each once.             *)
LEMMA ParsedIs ==
  ASSUME NEW rows \in Seq(LineCase)
  PROVE  /\ parseICal(rows) \in Seq(AnEvent)
         /\ \E g : Numbered(g, parseICal(rows),
                            {b \in Blocks(unfold(rows)) : Dated(unfold(rows), b)}, unfold(rows))
<1> DEFINE L == unfold(rows)
           l == Len(L)
           S == ParseState
           first == [cur |-> NoEvent, events |-> <<>>]
           F(f) == [n \in 0 .. l |-> IF n = 0 THEN first ELSE ParseLine(f[n - 1], L[n])]
           parsed == CHOOSE f : f = F(f)
<1>1. L \in Seq(Logical)
  BY UnfoldIs
<1>2. parseICal(rows) = parsed[l].events
  BY DEF parseICal
<1> HIDE DEF L
<1>3. l \in Nat /\ \A n \in 1 .. l : L[n] \in Logical
  BY <1>1
<1>4. first \in S
  <2>1. <<>> \in Seq(AnEvent)
    OBVIOUS
  <2> QED BY <2>1 DEF ParseState
<1>5. \E f : f = F(f)
  <2> DEFINE step == [n \in 1 .. l |-> [s \in S |-> ParseLine(s, L[n])]]
  <2> HIDE DEF l, S, first
  <2>1. \A n \in 1 .. l, s \in S : ParseLine(s, L[n]) \in S
    BY <1>3, ParseLineIs DEF S
  <2>2. step \in [1 .. l -> [S -> S]]
    BY <2>1
  <2>3. \A n \in 1 .. l, s \in S : step[n][s] = ParseLine(s, L[n])
    OBVIOUS
  <2> HIDE DEF step
  <2>4. PICK g \in [0 .. l -> S] :
          g[0] = first /\ \A n \in 1 .. l : g[n] = step[n][g[n - 1]]
    <3>1. l \in Nat
      BY <1>3
    <3> HIDE DEF F, parsed
    <3> QED BY <1>4, <2>2, <3>1, RecursionExists
  <2>5. ASSUME NEW n \in 0 .. l
        PROVE  g[n] = IF n = 0 THEN first ELSE ParseLine(g[n - 1], L[n])
    <3>1. CASE n = 0
      BY <2>4, <3>1
    <3>2. CASE n # 0
      <4>1. n \in 1 .. l /\ n - 1 \in 0 .. l
        BY <1>3, <3>2
      <4>2. g[n - 1] \in S
        BY <2>4, <4>1
      <4> QED BY <2>3, <2>4, <3>2, <4>1, <4>2
    <3> QED BY <3>1, <3>2
  <2>6. g = F(g)
    BY <2>4, <2>5
  <2> QED BY <2>6
<1>6. parsed = F(parsed)
  <2> HIDE DEF F
  <2> QED BY <1>5, Zenon
<1> HIDE DEF parsed
<1> DEFINE T == {n \in 0 .. l : ~ ParsedTo(L, n, parsed[n])}
<1>7. T = {}
  <2> SUFFICES ASSUME T # {} PROVE FALSE
    OBVIOUS
  <2>1. PICK n \in T : \A j \in T : n <= j
    <3>1. T \in SUBSET Nat
      OBVIOUS
    <3> HIDE DEF T
    <3> QED BY <3>1, LeastNatural
  <2>2. n \in 0 .. l /\ ~ ParsedTo(L, n, parsed[n])
    OBVIOUS
  <2>3. parsed[n] = IF n = 0 THEN first ELSE ParseLine(parsed[n - 1], L[n])
    BY <1>6, <2>2
  <2>4. n # 0
    BY <1>1, <2>2, <2>3, NothingParsed
  <2>5. n \in 1 .. l /\ n - 1 \in 0 .. l /\ n - 1 \notin T
    <3>1. n - 1 \in T => n <= n - 1
      BY <2>1
    <3> QED BY <1>3, <2>2, <2>4, <3>1
  <2>6. ParsedTo(L, n - 1, parsed[n - 1])
    BY <2>5
  <2>7. ParsedTo(L, n, ParseLine(parsed[n - 1], L[n]))
    BY <1>1, <2>5, <2>6, LineParses
  <2> QED BY <2>2, <2>3, <2>4, <2>7
<1>8. ParsedTo(L, l, parsed[l])
  <2>1. l \in 0 .. l
    BY <1>3
  <2> QED BY <1>7, <2>1
<1>9. DatedUpTo(L, l) = {b \in Blocks(L) : Dated(L, b)}
  <2>1. \A b \in Blocks(L) : b[2] <= l
    BY <1>1 DEF Blocks
  <2> QED BY <2>1 DEF DatedUpTo
<1>10. parsed[l].events \in Seq(AnEvent)
  <2>1. parsed[l] \in ParseState
    BY <1>8 DEF ParsedTo
  <2> QED BY <2>1 DEF ParseState
<1>11. \E g : Numbered(g, parsed[l].events, DatedUpTo(L, l), L)
  BY <1>8 DEF ParsedTo
<1> QED BY <1>2, <1>9, <1>10, <1>11 DEF L

-----------------------------------------------------------------------------
(* An event with a date, and the order of the dates.                        *)
DatedEvent == {e \in AnEvent : e["DTSTART"] \in 1 .. 2}
Dates == {p \in DatedEvent \X DatedEvent : p[1]["DTSTART"] < p[2]["DTSTART"]}

(* The events that are still to come, by their dates.                       *)
ToCome(E, today) == ElementsAt(E, {i \in DOMAIN E : E[i]["DTSTART"] >= today})
UpcomingOf(E, today) ==
  LET earlier(a, b) == a["DTSTART"] < b["DTSTART"]
  IN  StableSort(ToCome(E, today), earlier)

(* The dated blocks have events with a date. *)
LEMMA DatedEventsAre ==
  ASSUME NEW L \in Seq(Logical), NEW E \in Seq(AnEvent), NEW g,
         Numbered(g, E, {b \in Blocks(L) : Dated(L, b)}, L)
  PROVE  E \in Seq(DatedEvent)
<1>1. ASSUME NEW b \in Blocks(L), Dated(L, b) PROVE EventOf(L, b)["DTSTART"] \in 1 .. 2
  <2> DEFINE of == FieldLines(L, b, "DTSTART")
  <2>1. of # {} /\ Len(L[Max(of)].pieces) = 1
    BY <1>1 DEF Dated
  <2>2. b[1] \in 1 .. Len(L) /\ b[2] \in 1 .. Len(L) /\ Len(L) \in Nat
    BY DEF Blocks
  <2>3. of \in SUBSET (1 .. Len(L))
    BY <2>2 DEF FieldLines
  <2>4. EventOf(L, b)["DTSTART"] = L[Max(of)].pieces[1]
    BY DEF EventOf, Field
  <2> HIDE DEF of
  <2>5. Max(of) \in 1 .. Len(L)
    BY <2>1, <2>2, <2>3, MaxOfPositions
  <2>6. L[Max(of)] \in Logical
    BY <2>5
  <2>7. L[Max(of)].pieces \in Seq(1 .. 2)
    BY <2>6 DEF Logical
  <2> QED BY <2>1, <2>4, <2>7, IsoIs
<1>2. ASSUME NEW k \in 1 .. Len(E) PROVE E[k] \in DatedEvent
  <2>1. E[k] \in AnEvent
    OBVIOUS
  <2>2. E[k] = EventOf(L, g[k]) /\ g[k] \in {b \in Blocks(L) : Dated(L, b)}
    BY DEF Numbered
  <2>3. E[k]["DTSTART"] \in 1 .. 2
    BY <1>1, <2>2
  <2> QED BY <2>1, <2>3 DEF DatedEvent
<1>3. E \in [1 .. Len(E) -> DatedEvent] /\ Len(E) \in Nat
  BY <1>2
<1> QED BY <1>3, FunctionIsSequence

(* Of numbered events those to come are numbered.                           *)
LEMMA ToComeIs ==
  ASSUME NEW E \in Seq(DatedEvent), NEW B, NEW L, NEW g, Numbered(g, E, B, L), NEW today
  PROVE  /\ ToCome(E, today) \in Seq(DatedEvent)
         /\ \E h : Numbered(h, ToCome(E, today),
                            {b \in B : EventOf(L, b)["DTSTART"] >= today}, L)
<1> DEFINE P == {i \in DOMAIN E : E[i]["DTSTART"] >= today}
           U == ElementsAt(E, P)
           c == Cardinality(P)
           h == [n \in 1 .. c |-> g[NthOf(P, n)]]
           D == {b \in B : EventOf(L, b)["DTSTART"] >= today}
<1>1. P \in SUBSET DOMAIN E /\ \A i \in DOMAIN E : i \in P <=> E[i]["DTSTART"] >= today
  OBVIOUS
<1>2. /\ \A k \in DOMAIN E : g[k] \in B /\ E[k] = EventOf(L, g[k])
      /\ \A j, k \in DOMAIN E : g[j] = g[k] => j = k
      /\ \A b \in B : \E k \in DOMAIN E : g[k] = b
  <2>1. DOMAIN E = 1 .. Len(E)
    OBVIOUS
  <2> QED BY <2>1 DEF Numbered
<1>3. ToCome(E, today) = U
  BY DEF ToCome
<1>4. \A b : b \in D <=> b \in B /\ EventOf(L, b)["DTSTART"] >= today
  OBVIOUS
<1> HIDE DEF P, D
<1>5. /\ IsFiniteSet(P) /\ P \in SUBSET Nat
      /\ U \in Seq(DatedEvent) /\ Len(U) = c
      /\ \A n \in 1 .. c : NthOf(P, n) \in P /\ U[n] = E[NthOf(P, n)]
  BY <1>1, ElementsAtIs
<1>6. c \in Nat
  BY <1>5, FS_CardinalityType
<1> HIDE DEF U
<1>7. \A n \in 1 .. c : h[n] = g[NthOf(P, n)]
  OBVIOUS
<1>8. \A n \in 1 .. c : NthOf(P, n) \in P /\ NthOf(P, n) \in DOMAIN E
  BY <1>1, <1>5
<1>9. \A n \in 1 .. c : h[n] \in D /\ U[n] = EventOf(L, h[n])
  BY <1>1, <1>2, <1>4, <1>5, <1>7, <1>8
<1>10. h \in [1 .. c -> D]
  BY <1>9
<1>11. \A j, k \in 1 .. c : h[j] = h[k] => j = k
  <2> SUFFICES ASSUME NEW j \in 1 .. c, NEW k \in 1 .. c, h[j] = h[k] PROVE j = k
    OBVIOUS
  <2>1. NthOf(P, j) = NthOf(P, k)
    BY <1>2, <1>7, <1>8
  <2>2. NthOf(P, j) \in Nat
    BY <1>5, <1>8
  <2>3. ~ (j < k)
    <3>1. j < k => NthOf(P, j) < NthOf(P, k)
      BY <1>5, NthOfOrder
    <3> QED BY <2>1, <2>2, <3>1
  <2>4. ~ (k < j)
    <3>1. k < j => NthOf(P, k) < NthOf(P, j)
      BY <1>5, NthOfOrder
    <3> QED BY <2>1, <2>2, <3>1
  <2> QED BY <1>6, <2>3, <2>4
<1>12. \A b \in D : \E n \in 1 .. c : h[n] = b
  <2> SUFFICES ASSUME NEW b \in D PROVE \E n \in 1 .. c : h[n] = b
    OBVIOUS
  <2>1. PICK k \in DOMAIN E : g[k] = b
    BY <1>2, <1>4
  <2>2. k \in P
    BY <1>1, <1>2, <1>4, <2>1
  <2>3. PICK n \in 1 .. c : NthOf(P, n) = k
    BY <1>5, <2>2, NthOfEvery
  <2> QED BY <1>7, <2>1, <2>3
<1> HIDE DEF h, c
<1>13. Numbered(h, U, D, L)
  BY <1>5, <1>9, <1>10, <1>11, <1>12 DEF Numbered
<1> QED BY <1>3, <1>5, <1>13 DEF D

(* Dates sort.                                                              *)
LEMMA DatesSeparate == Separates(Dates, DatedEvent)
<1>1. \A e \in DatedEvent : e["DTSTART"] \in Int
  BY DEF DatedEvent
<1>2. \A a, b \in DatedEvent : <<a, b>> \in Dates <=> a["DTSTART"] < b["DTSTART"]
  BY DEF Dates
<1> QED BY <1>1, <1>2 DEF Separates

(* The upcoming events are the dated ones that are due, by their dates. *)
LEMMA UpcomingIs ==
  ASSUME NEW E \in Seq(DatedEvent), NEW B, NEW L, NEW g, Numbered(g, E, B, L), NEW today
  PROVE  /\ UpcomingOf(E, today) \in Seq(DatedEvent)
         /\ \E h : Numbered(h, UpcomingOf(E, today),
                            {b \in B : EventOf(L, b)["DTSTART"] >= today}, L)
         /\ \A m, n \in 1 .. Len(UpcomingOf(E, today)) :
              m < n => UpcomingOf(E, today)[m]["DTSTART"] <= UpcomingOf(E, today)[n]["DTSTART"]
<1> DEFINE U == ToCome(E, today)
           t == Arranged(U, TieBroken(U, Dates))
           D == {b \in B : EventOf(L, b)["DTSTART"] >= today}
<1>1. U \in Seq(DatedEvent) /\ \E h : Numbered(h, U, D, L)
  BY ToComeIs
<1> HIDE DEF D
<1>2. PICK h : Numbered(h, U, D, L)
  BY <1>1
<1>3. UpcomingOf(E, today) = t
  <2> HIDE DEF U
  <2>1. \A i \in DOMAIN U : U[i] \in DatedEvent
    BY <1>1
  <2>2. \A i, j \in DOMAIN U : <<U[i], U[j]>> \in Dates <=> U[i]["DTSTART"] < U[j]["DTSTART"]
    BY <2>1 DEF Dates
  <2>3. TieBroken(U, Dates) =
          {p \in (DOMAIN U) \X (DOMAIN U) :
             \/ U[p[1]]["DTSTART"] < U[p[2]]["DTSTART"]
             \/ ~ (U[p[2]]["DTSTART"] < U[p[1]]["DTSTART"]) /\ p[1] < p[2]}
    BY <2>2 DEF TieBroken
  <2>4. UpcomingOf(E, today) =
          Arranged(U, {p \in (DOMAIN U) \X (DOMAIN U) :
             \/ U[p[1]]["DTSTART"] < U[p[2]]["DTSTART"]
             \/ ~ (U[p[2]]["DTSTART"] < U[p[1]]["DTSTART"]) /\ p[1] < p[2]})
    BY DEF UpcomingOf, StableSort, U
  <2> QED BY <2>3, <2>4
<1> HIDE DEF U
<1>4. t \in Seq(DatedEvent) /\ \E f : SortedBy(f, U, t, Dates)
  BY <1>1, DatesSeparate, StablySorted
<1>5. PICK f : SortedBy(f, U, t, Dates)
  BY <1>4
<1> HIDE DEF t
<1> DEFINE n == Len(U)
           e == [k \in 1 .. n |-> h[f[k]]]
<1>6. /\ f \in [1 .. n -> 1 .. n] /\ Len(t) = n
      /\ \A k \in 1 .. n : t[k] = U[f[k]]
      /\ \A j, k \in 1 .. n : f[j] = f[k] => j = k
      /\ \A j \in 1 .. n : \E k \in 1 .. n : f[k] = j
      /\ \A j, k \in 1 .. n : j < k => <<t[k], t[j]>> \notin Dates
  BY <1>5, Zenon DEF SortedBy
<1>7. /\ h \in [1 .. n -> D]
      /\ \A k \in 1 .. n : U[k] = EventOf(L, h[k])
      /\ \A j, k \in 1 .. n : h[j] = h[k] => j = k
      /\ \A b \in D : \E k \in 1 .. n : h[k] = b
  BY <1>2, Zenon DEF Numbered
<1> HIDE DEF n
<1>8. \A k \in 1 .. n : f[k] \in 1 .. n /\ e[k] = h[f[k]]
  BY <1>6
<1>9. e \in [1 .. n -> D]
  BY <1>7, <1>8
<1> HIDE DEF e
<1>10. ASSUME NEW k \in 1 .. n PROVE t[k] = EventOf(L, e[k])
  <2>1. f[k] \in 1 .. n /\ e[k] = h[f[k]]
    BY <1>8
  <2>2. t[k] = U[f[k]]
    BY <1>6
  <2>3. U[f[k]] = EventOf(L, h[f[k]])
    BY <1>7, <2>1
  <2> QED BY <2>1, <2>2, <2>3
<1>11. \A j, k \in 1 .. n : e[j] = e[k] => j = k
  BY <1>6, <1>7, <1>8
<1>12. \A b \in D : \E k \in 1 .. n : e[k] = b
  <2> SUFFICES ASSUME NEW b \in D PROVE \E k \in 1 .. n : e[k] = b
    OBVIOUS
  <2>1. PICK j \in 1 .. n : h[j] = b
    BY <1>7
  <2>2. PICK k \in 1 .. n : f[k] = j
    BY <1>6
  <2> QED BY <1>8, <2>1, <2>2
<1>13. Numbered(e, t, D, L)
  BY <1>6, <1>9, <1>10, <1>11, <1>12 DEF Numbered
<1>14. ASSUME NEW j \in 1 .. n, NEW k \in 1 .. n, j < k
       PROVE  t[j]["DTSTART"] <= t[k]["DTSTART"]
  <2>1. t[j] \in DatedEvent /\ t[k] \in DatedEvent
    BY <1>4, <1>6
  <2>2. <<t[k], t[j]>> \notin Dates
    BY <1>6, <1>14
  <2>3. ~ (t[k]["DTSTART"] < t[j]["DTSTART"])
    BY <2>1, <2>2 DEF Dates
  <2>4. t[j]["DTSTART"] \in Int /\ t[k]["DTSTART"] \in Int
    BY <2>1 DEF DatedEvent
  <2> QED BY <2>3, <2>4
<1> QED BY <1>3, <1>4, <1>6, <1>13, <1>14 DEF D

(* What ICalReportsCalendar says of a report of the events that are due.    *)
ReportsDue(report, due, limit, L) ==
  LET cut == report.matched - Len(report.events)
  IN  /\ ~ report.isError
      /\ report.matched = Cardinality(due)
      /\ report.truncated <=> cut > 0
      /\ cut > 0 => Len(report.events) = Cap(limit)
      /\ \A n \in 1 .. Len(report.events) - 1 :
           report.events[n]["DTSTART"] <= report.events[n + 1]["DTSTART"]
      /\ \A event \in Range(report.events) :
           /\ Occurrences(report.events, event)
                <= Cardinality({b \in due : EventOf(L, b) = event})
      /\ cut = 0 =>
           {EventOf(L, b) : b \in due} = Range(report.events)
      /\ \A b \in due :
           EventOf(L, b) \notin Range(report.events) =>
             \A event \in Range(report.events) :
               event["DTSTART"] <= EventOf(L, b)["DTSTART"]

(* Numbered blocks are as many as their events.                             *)
LEMMA NumberedCount ==
  ASSUME NEW t, Len(t) \in Nat, NEW B, NEW L, NEW g, Numbered(g, t, B, L)
  PROVE  IsFiniteSet(B) /\ Cardinality(B) = Len(t)
<1> DEFINE n == Len(t)
<1>1. IsFiniteSet(1 .. n) /\ Cardinality(1 .. n) = n
  BY CountTo
<1>2. g \in Bijection(1 .. n, B)
  BY DEF Numbered, Bijection, Injection, Surjection, IsInjective
<1> QED BY <1>1, <1>2, FS_Bijection DEF ExistsBijection

(* The first events of numbered blocks, in the order of their dates.        *)
LEMMA ReportedIs ==
  ASSUME NEW sorted \in Seq(DatedEvent), NEW due, NEW L, NEW h, Numbered(h, sorted, due, L),
         \A m, n \in 1 .. Len(sorted) : m < n => sorted[m]["DTSTART"] <= sorted[n]["DTSTART"],
         NEW limit \in Int, NEW report,
         LET returned == IF Len(sorted) < Cap(limit) THEN Len(sorted) ELSE Cap(limit)
         IN  report = [isError |-> FALSE, matched |-> Len(sorted),
                       truncated |-> Len(sorted) > Cap(limit),
                       events |-> SubSeq(sorted, 1, returned)]
  PROVE  ReportsDue(report, due, limit, L)
<1> DEFINE n == Len(sorted)
           c == Cap(limit)
           r == IF n < c THEN n ELSE c
           kept == SubSeq(sorted, 1, r)
<1>1. n \in Nat /\ c \in Nat /\ c >= 1
  BY DEF Cap
<1>2. r \in Nat /\ r <= n /\ r <= c /\ (n > c <=> n - r > 0) /\ (n - r > 0 => r = c)
  BY <1>1
<1>3. /\ ~ report.isError /\ report.matched = n /\ (report.truncated <=> n > c)
      /\ report.events = kept
  OBVIOUS
<1>4. \A k \in 1 .. n : sorted[k] \in DatedEvent
  OBVIOUS
<1>5. /\ h \in [1 .. n -> due]
      /\ \A k \in 1 .. n : sorted[k] = EventOf(L, h[k])
      /\ \A j, k \in 1 .. n : h[j] = h[k] => j = k
      /\ \A b \in due : \E k \in 1 .. n : h[k] = b
  BY Zenon DEF Numbered
<1>6. IsFiniteSet(due) /\ Cardinality(due) = n
  BY <1>1, NumberedCount
<1>7. \A j, k \in 1 .. n : j < k => sorted[j]["DTSTART"] <= sorted[k]["DTSTART"]
  OBVIOUS
<1> HIDE DEF r
<1>8. Len(kept) = r /\ DOMAIN kept = 1 .. r /\ \A k \in 1 .. r : kept[k] = sorted[k]
  BY <1>2
<1> HIDE DEF n, c, kept
<1>9. \A k \in 1 .. r : k \in 1 .. n
  BY <1>1, <1>2
<1>10. Range(kept) = {sorted[k] : k \in 1 .. r}
  BY <1>8 DEF Range
<1>11. ASSUME NEW k \in 1 .. r - 1
       PROVE  kept[k]["DTSTART"] <= kept[k + 1]["DTSTART"]
  <2>1. k \in 1 .. r /\ k + 1 \in 1 .. r /\ k < k + 1
    BY <1>2
  <2> QED BY <1>7, <1>8, <1>9, <2>1
<1>12. ASSUME NEW event \in Range(kept)
       PROVE  Occurrences(kept, event) <= Cardinality({b \in due : EventOf(L, b) = event})
  <2> DEFINE K == {i \in DOMAIN kept : kept[i] = event}
             B == {b \in due : EventOf(L, b) = event}
             e == [i \in K |-> h[i]]
  <2>1. B \in SUBSET due /\ \A b : b \in B <=> b \in due /\ EventOf(L, b) = event
    OBVIOUS
  <2>2. \A i \in K : i \in 1 .. n /\ sorted[i] = event
    BY <1>8, <1>9
  <2>3. Occurrences(kept, event) = Cardinality(K)
    BY DEF Occurrences
  <2>4. IsFiniteSet(B)
    <3> HIDE DEF B
    <3> QED BY <1>6, <2>1, FS_Subset
  <2> HIDE DEF K, B
  <2>5. ASSUME NEW i \in K PROVE h[i] \in B
    <3>1. i \in 1 .. n /\ sorted[i] = event
      BY <2>2
    <3>2. h[i] \in due /\ sorted[i] = EventOf(L, h[i])
      BY <1>5, <3>1
    <3> QED BY <2>1, <3>1, <3>2
  <2>6. e \in Injection(K, B)
    <3>1. e \in [K -> B]
      BY <2>5
    <3>2. ASSUME NEW i \in K, NEW j \in K, e[i] = e[j] PROVE i = j
      <4>1. i \in 1 .. n /\ j \in 1 .. n
        BY <2>2
      <4>2. h[i] = h[j]
        BY <3>2
      <4> QED BY <1>5, <4>1, <4>2
    <3> QED BY <3>1, <3>2 DEF Injection, IsInjective
  <2> HIDE DEF e
  <2>7. Cardinality(K) <= Cardinality(B)
    BY <2>4, <2>6, FS_Injection
  <2> QED BY <2>3, <2>7 DEF B
<1>13. ASSUME n - r = 0
       PROVE  {EventOf(L, b) : b \in due} = Range(kept)
  <2>1. r = n
    BY <1>1, <1>2, <1>13
  <2>2. ASSUME NEW b \in due PROVE EventOf(L, b) \in Range(kept)
    <3>1. PICK k \in 1 .. n : h[k] = b
      BY <1>5
    <3>2. sorted[k] = EventOf(L, b)
      BY <1>5, <3>1
    <3> QED BY <1>10, <2>1, <3>2
  <2>3. ASSUME NEW k \in 1 .. r PROVE \E b \in due : sorted[k] = EventOf(L, b)
    <3>1. h[k] \in due /\ sorted[k] = EventOf(L, h[k])
      BY <1>5, <1>9
    <3> QED BY <3>1
  <2> QED BY <1>10, <2>2, <2>3
<1>14. ASSUME NEW b \in due, EventOf(L, b) \notin Range(kept), NEW event \in Range(kept)
       PROVE  event["DTSTART"] <= EventOf(L, b)["DTSTART"]
  <2>1. PICK k \in 1 .. n : h[k] = b
    BY <1>5
  <2>2. sorted[k] = EventOf(L, b)
    BY <1>5, <2>1
  <2>3. k \notin 1 .. r
    BY <1>10, <1>14, <2>2
  <2>4. PICK j \in 1 .. r : event = sorted[j]
    BY <1>10
  <2>5. j \in 1 .. n /\ j < k
    BY <1>1, <1>2, <1>9, <2>3
  <2> QED BY <1>7, <2>2, <2>4, <2>5
<1>15. /\ report.matched - Len(report.events) = n - r
       /\ Len(report.events) = r
  BY <1>3, <1>8
<1>16. /\ report.truncated <=> n - r > 0
       /\ n - r > 0 => Len(report.events) = Cap(limit)
  BY <1>2, <1>3, <1>15 DEF c
<1>17. report.matched = Cardinality(due)
  BY <1>3, <1>6
<1> QED
  BY <1>3, <1>11, <1>12, <1>13, <1>14, <1>15, <1>16, <1>17 DEF ReportsDue

(* fetch_ical finds a feed and reports the dated events that are due, under *)
(* any limit and on any day.                                                *)
THEOREM FetchReports ==
  ASSUME NEW rows \in Seq(LineCase), NEW limit \in Int, NEW today
  PROVE  ReportsDue(formatIcalResult(runIcalFetch(<<"refused", "feed">>, rows), limit, today),
                    {b \in Blocks(unfold(rows)) :
                       /\ Dated(unfold(rows), b)
                       /\ EventOf(unfold(rows), b)["DTSTART"] >= today},
                    limit, unfold(rows))
<1> DEFINE L == unfold(rows)
           E == parseICal(rows)
           B == {b \in Blocks(L) : Dated(L, b)}
           sorted == UpcomingOf(E, today)
           due == {b \in B : EventOf(L, b)["DTSTART"] >= today}
           result == runIcalFetch(<<"refused", "feed">>, rows)
           report == formatIcalResult(result, limit, today)
<1>1. L \in Seq(Logical)
  BY UnfoldIs
<1>2. E \in Seq(AnEvent) /\ \E g : Numbered(g, E, B, L)
  BY ParsedIs
<1>3. result.ok = TRUE /\ result.events = E
  BY DEF runIcalFetch
<1>4. report = [isError |-> ~ result.ok, matched |-> Len(UpcomingOf(result.events, today)),
                truncated |-> Len(UpcomingOf(result.events, today)) > Cap(limit),
                events |-> SubSeq(UpcomingOf(result.events, today), 1,
                                  IF Len(UpcomingOf(result.events, today)) < Cap(limit)
                                  THEN Len(UpcomingOf(result.events, today)) ELSE Cap(limit))]
  <2> HIDE DEF result
  <2> QED BY DEF formatIcalResult, UpcomingOf, ToCome
<1>5. {b \in Blocks(L) : Dated(L, b) /\ EventOf(L, b)["DTSTART"] >= today} = due
  OBVIOUS
<1> HIDE DEF L, E, result, report
<1>6. PICK g : Numbered(g, E, B, L)
  BY <1>2
<1>7. E \in Seq(DatedEvent)
  BY <1>1, <1>2, <1>6, DatedEventsAre
<1> HIDE DEF B
<1>8. /\ sorted \in Seq(DatedEvent)
      /\ \E h : Numbered(h, sorted, due, L)
      /\ \A m, n \in 1 .. Len(sorted) : m < n => sorted[m]["DTSTART"] <= sorted[n]["DTSTART"]
  BY <1>6, <1>7, UpcomingIs
<1>9. report = [isError |-> FALSE, matched |-> Len(sorted),
                truncated |-> Len(sorted) > Cap(limit),
                events |-> SubSeq(sorted, 1, IF Len(sorted) < Cap(limit) THEN Len(sorted) ELSE Cap(limit))]
  BY <1>3, <1>4
<1> HIDE DEF sorted, due
<1>10. PICK h : Numbered(h, sorted, due, L)
  BY <1>8
<1>11. ReportsDue(report, due, limit, L)
  BY <1>8, <1>9, <1>10, ReportedIs
<1> QED BY <1>5, <1>11 DEF report, L, result

-----------------------------------------------------------------------------
(* A calendar is made of lines. *)
LinesInv ==
  /\ "kind" \in DOMAIN input
  /\ input.kind = "lines" => input \in [kind : {"lines"}, rows : Seq(LineCase)]

(* It has none at first.                                                    *)
LEMMA LinesInitially == CasesInit => LinesInv
<1> SUFFICES ASSUME CasesInit PROVE LinesInv
  OBVIOUS
<1>1. "kind" \in DOMAIN input
  BY DEF CasesInit
<1>2. ASSUME input.kind = "lines" PROVE input \in [kind : {"lines"}, rows : Seq(LineCase)]
  <2>1. input = [kind |-> "lines", rows |-> <<>>]
    BY <1>2 DEF CasesInit
  <2>2. <<>> \in Seq(LineCase)
    OBVIOUS
  <2> QED BY <2>1, <2>2
<1> QED BY <1>1, <1>2 DEF LinesInv

(* It grows by lines.                                                       *)
LEMMA LinesStep == LinesInv /\ [CasesNext]_input => LinesInv'
<1> SUFFICES ASSUME LinesInv, [CasesNext]_input PROVE LinesInv'
  OBVIOUS
<1>1. CASE UNCHANGED input
  BY <1>1 DEF LinesInv
<1>2. CASE AddRow
  <2>1. input.kind = "rows" /\ "kind" \in DOMAIN input
    BY <1>2 DEF AddRow, LinesInv
  <2>2. PICK name \in RowName, located \in BOOLEAN, near \in SUBSET (DOMAIN input.rows) :
          LET id == Len(input.rows) + 1
          IN  /\ near # {} => located
              /\ \A i \in near : input.rows[i].located
              /\ input' = [input EXCEPT
                   !.rows = Append(@, [osmId |-> id, name |-> name,
                                       located |-> located, status |-> "active",
                                       facts |-> 0]),
                   !.near = @ \cup {{i, id} : i \in near}]
    BY <1>2, Zenon DEF AddRow
  <2>3. input'.kind = "rows" /\ "kind" \in DOMAIN input'
    BY <2>1, <2>2
  <2> QED BY <2>3 DEF LinesInv
<1>3. CASE AddPlace \/ AddFind
  <2>1. PICK rows : input' = [input EXCEPT !.rows = rows] /\ input.kind \in {"places", "finds"}
    BY <1>3 DEF AddPlace, AddFind
  <2>2. input'.kind # "lines" /\ "kind" \in DOMAIN input'
    BY <2>1 DEF LinesInv
  <2> QED BY <2>2 DEF LinesInv
<1>4. CASE AddLine
  <2>1. PICK line \in LineCase : input' = [input EXCEPT !.rows = Append(@, line)]
    BY <1>4 DEF AddLine
  <2>2. input \in [kind : {"lines"}, rows : Seq(LineCase)]
    BY <1>4 DEF AddLine, LinesInv
  <2>3. Append(input.rows, line) \in Seq(LineCase)
    BY <2>2
  <2>4. input' \in [kind : {"lines"}, rows : Seq(LineCase)] /\ "kind" \in DOMAIN input'
    BY <2>1, <2>2, <2>3
  <2> QED BY <2>4 DEF LinesInv
<1> QED BY <1>1, <1>2, <1>3, <1>4 DEF CasesNext

(* What fetch_ical says of a calendar. *)
LEMMA CalendarReported == LinesInv => ICalReportsCalendar
<1> SUFFICES ASSUME LinesInv, input.kind = "lines" PROVE ICalReportsCalendar
  BY DEF ICalReportsCalendar
<1>1. input.rows \in Seq(LineCase)
  BY DEF LinesInv
<1>2. formatIcalResult(runIcalFetch(<<"failed", "page">>, input.rows), 1, 1).isError
  <2>1. ~ runIcalFetch(<<"failed", "page">>, input.rows).ok
    BY DEF runIcalFetch
  <2> QED BY <2>1 DEF formatIcalResult
<1>3. ASSUME NEW limit \in 0 .. 2, NEW today \in 1 .. 2
      PROVE  ReportsDue(formatIcalResult(runIcalFetch(<<"refused", "feed">>, input.rows),
                                         limit, today),
                        {b \in Blocks(unfold(input.rows)) :
                           /\ Dated(unfold(input.rows), b)
                           /\ EventOf(unfold(input.rows), b)["DTSTART"] >= today},
                        limit, unfold(input.rows))
  BY <1>1, FetchReports
<1> QED BY <1>2, <1>3 DEF ICalReportsCalendar, ReportsDue

(* fetch_ical reports the dated events of a calendar of any length that are *)
(* still to come, each once and by their dates, and says so when it cut.    *)
THEOREM CasesCalendar == CasesSpec => []ICalReportsCalendar
<1>1. LinesInv /\ [CasesNext]_input => LinesInv'
  BY LinesStep
<1> QED BY LinesInitially, <1>1, CalendarReported, PTL DEF CasesSpec

-----------------------------------------------------------------------------
(* The parts side by side. *)

(* A behaviour of all parts is a behaviour of each. *)
LEMMA ToolsAreParts ==
  ToolsSpec => FetchSpec /\ FeedbackSpec /\ CfgSpec /\ MigrationsSpec /\ SourcesSpec
<1>1. ToolsInit => FetchInit /\ FeedbackInit /\ CfgInit /\ MigrationsInit /\ SourcesInit
  BY DEF ToolsInit
<1>2. [ToolsNext]_toolVars => /\ [FetchNext]_vars /\ [FeedbackNext]_feedbackVars
                              /\ [CfgNext]_cfgVars /\ [MigrationsNext]_migrationVars
                              /\ [SourcesNext]_sourcesVars
  BY DEF ToolsNext, toolVars
<1> QED BY <1>1, <1>2, PTL DEF ToolsSpec, FetchSpec, FeedbackSpec, CfgSpec, MigrationsSpec, SourcesSpec

(* Every part keeps its types, with every number of hosts, runs, towns,     *)
(* files, sites and writers.                                                *)
THEOREM ToolsTyped == ToolsSpec => []ToolsTypeOK
<1>1. FetchSpec => []FetchTypeOK
  <2>1. FetchInv => FetchTypeOK
    BY DEF FetchInv
  <2> QED BY <2>1, FetchStart, FetchStep, PTL DEF FetchSpec
<1>2. FeedbackSpec => []FeedbackTypeOK
  <2>1. FeedbackInv => FeedbackTypeOK
    BY DEF FeedbackInv
  <2> QED BY <2>1, FeedbackInitially, FeedbackStep, PTL DEF FeedbackSpec
<1>3. CfgSpec => []CfgTypeOK
  <2>1. CfgInv => CfgTypeOK
    BY DEF CfgInv
  <2> QED BY <2>1, CfgStart, CfgStep, PTL DEF CfgSpec
<1>4. MigrationsSpec => []MigrationsTypeOK
  <2>1. MigrationsInv => MigrationsTypeOK
    BY DEF MigrationsInv
  <2> QED BY <2>1, MigrationsInvariant, PTL
<1>5. SourcesSpec => []SourcesTypeOK
  <2>1. SourcesInv => SourcesTypeOK
    BY DEF SourcesInv
  <2> QED BY <2>1, SourcesInitially, SourcesStep, PTL DEF SourcesSpec
<1>6. FetchTypeOK /\ FeedbackTypeOK /\ CfgTypeOK /\ MigrationsTypeOK /\ SourcesTypeOK
        => ToolsTypeOK
  BY DEF ToolsTypeOK
<1> QED BY <1>1, <1>2, <1>3, <1>4, <1>5, <1>6, ToolsAreParts, PTL
=============================================================================
