------------------------------ MODULE Sources ------------------------------
(* The registry of sources and its count of finds: upsert_source, two       *)
(* statements without a transaction, and save_find, one transaction that    *)
(* looks the source up, inserts the find unless its url_hash is there, and  *)
(* counts it.  Runs of several agents and an interview call them together.  *)
EXTENDS Integers, FiniteSets

CONSTANTS
  Unset,       \* no row, no source, no status given
  Site,        \* urls of sources
  UrlHash,     \* keys of finds
  Leads,       \* those that only a sample run saves: provisional rows
  Writer,      \* runs with one tool call at a time
  Given,       \* statuses upsert_source is called with, or Unset
  MaxDropped   \* bound: provisional finds deleted

SourceStatus == {"active", "paused", "dead"}
SourceRow == [status : SourceStatus, count : Nat]

ASSUME SourcesParameters ==
  /\ Unset \notin SourceRow \cup Site
  /\ "absent" \notin Site \cup {Unset}
  /\ Leads \subseteq UrlHash
  /\ Given \subseteq {"active", "paused", "dead", Unset}
  /\ MaxDropped \in Nat

VARIABLES
  registry,   \* sources: [status, count] of a url, or Unset
  saved,      \* finds: the source of a row, Unset if it has none, or "absent"
  writing,    \* the tool call of each run, or Unset
  dropped     \* history: finds of a source that were deleted

sourcesVars == <<registry, saved, writing, dropped>>

FindRows == {k \in UrlHash : saved[k] # "absent"}

(* Rows of transactions that have not committed. *)
Uncommitted == {writing[w].key : w \in {v \in Writer :
                  writing[v] # Unset /\ writing[v].at = "inserted"}}

-----------------------------------------------------------------------------
SourcesInit ==
  /\ registry = [s \in Site |-> Unset]
  /\ saved = [k \in UrlHash |-> "absent"]
  /\ writing = [w \in Writer |-> Unset]
  /\ dropped = [s \in Site |-> 0]

Become(w, what) == writing' = [writing EXCEPT ![w] = what]

(* upsertSource looks for the row, to report created or updated.            *)
LookForRow(w, site, status) ==
  /\ writing[w] = Unset
  /\ Become(w, [at |-> "looked", site |-> site, status |-> status])
  /\ UNCHANGED <<registry, saved, dropped>>

(* INSERT ... ON CONFLICT (url) DO UPDATE: what the caller gives. *)
UpsertRow(w) ==
  /\ writing[w] # Unset /\ writing[w].at = "looked"
  /\ LET site == writing[w].site
         given == writing[w].status
     IN  registry' = [registry EXCEPT ![site] =
           IF registry[site] = Unset
           THEN [status |-> IF given = Unset THEN "active" ELSE given, count |-> 0]
           ELSE [status |-> IF given = Unset THEN registry[site].status ELSE given,
                 count |-> registry[site].count]]
  /\ Become(w, Unset)
  /\ UNCHANGED <<saved, dropped>>

(* insertFind: the id of the source, if it is registered by now. *)
LookUpSource(w, key, site) ==
  /\ writing[w] = Unset
  /\ Become(w, [at |-> "begun", key |-> key,
                source |-> IF registry[site] = Unset THEN Unset ELSE site])
  /\ UNCHANGED <<registry, saved, dropped>>

(* ON CONFLICT (url_hash) DO NOTHING: a transaction that has inserted the   *)
(* same key is waited for.                                                  *)
InsertFindRow(w) ==
  /\ writing[w] # Unset /\ writing[w].at = "begun"
  /\ writing[w].key \notin Uncommitted
  /\ writing' = [writing EXCEPT ![w].at =
                   IF writing[w].key \in FindRows THEN "duplicate" ELSE "inserted"]
  /\ UNCHANGED <<registry, saved, dropped>>

(* finds_count + 1 and COMMIT. *)
CountFind(w) ==
  /\ writing[w] # Unset /\ writing[w].at = "inserted"
  /\ LET source == writing[w].source
     IN  /\ saved' = [saved EXCEPT ![writing[w].key] = source]
         /\ registry' = IF source = Unset THEN registry
                        ELSE [registry EXCEPT ![source].count = @ + 1]
  /\ Become(w, Unset)
  /\ UNCHANGED dropped

(* Mutant of ReportDuplicate: the count is outside the test of inserted. *)
ReportDuplicateCounting(w) ==
  /\ writing[w] # Unset /\ writing[w].at = "duplicate"
  /\ LET source == writing[w].source
     IN  registry' = IF source = Unset THEN registry
                     ELSE [registry EXCEPT ![source].count = @ + 1]
  /\ Become(w, Unset)
  /\ UNCHANGED <<saved, dropped>>

(* The id of the row that was there.  If it has been deleted meanwhile the  *)
(* call throws; nothing is changed either way.                              *)
ReportDuplicate(w) ==
  /\ writing[w] # Unset /\ writing[w].at = "duplicate"
  /\ Become(w, Unset)
  /\ UNCHANGED <<registry, saved, dropped>>

(* A lost connection or a dead process: what was not committed is undone. *)
WriteFails(w) ==
  /\ writing[w] # Unset
  /\ Become(w, Unset)
  /\ UNCHANGED <<registry, saved, dropped>>

(* An interview deletes the provisional rows; sources are not looked at. *)
DropLeads ==
  LET rows == FindRows \cap Leads
      of(s) == Cardinality({k \in rows : saved[k] = s})
  IN  /\ rows # {}
      /\ saved' = [k \in UrlHash |-> IF k \in rows THEN "absent" ELSE saved[k]]
      /\ dropped' = [s \in Site |-> dropped[s] + of(s)]
      /\ \A s \in Site : dropped'[s] <= MaxDropped
      /\ UNCHANGED <<registry, writing>>

SourcesNext ==
  \/ \E w \in Writer :
       \/ \E s \in Site, status \in Given :
            LookForRow(w, s, status)
       \/ \E k \in UrlHash, s \in Site : LookUpSource(w, k, s)
       \/ UpsertRow(w) \/ InsertFindRow(w) \/ CountFind(w)
       \/ ReportDuplicate(w) \/ WriteFails(w)
  \/ DropLeads

SourcesSpec == SourcesInit /\ [][SourcesNext]_sourcesVars
-----------------------------------------------------------------------------
SourcesTypeOK ==
  /\ registry \in [Site -> SourceRow \cup {Unset}]
  /\ saved \in [UrlHash -> Site \cup {Unset, "absent"}]
  /\ dropped \in [Site -> 0 .. MaxDropped]

(* finds_count of a source is the number of rows of finds that refer to it  *)
(* and of those that an interview has deleted since: no save of two runs at *)
(* once, duplicate, rollback or upsert counts twice, loses a find or starts *)
(* the count anew (insertFind and upsertSource, queries.ts).                *)
FindsAreCounted ==
  \A s \in Site :
    LET rows == {k \in UrlHash : saved[k] = s}
    IN  IF registry[s] = Unset THEN rows = {}
        ELSE registry[s].count = Cardinality(rows) + dropped[s]
=============================================================================
