------------------------------- MODULE Finds -------------------------------
(***************************************************************************)
(* The finds table and everything that changes the status of a row: the    *)
(* agents' save_find and update_find_status, the feed's feedback and bulk  *)
(* buttons, and the statements of an interview, which keeps the leads of   *)
(* its sample run `provisional` until the user decides.                    *)
(*                                                                         *)
(* A row is its url_hash, which is UNIQUE.  A button of the feed names the *)
(* row by its id; because a page can be filtered by tag, type, dates and   *)
(* page size, and can be older than the table, its rows are any set of     *)
(* rows that are still there.                                              *)
(***************************************************************************)
EXTENDS Integers, FiniteSets

CONSTANTS
  Key,             \* url_hash values
  MaxInterviews,   \* bound: interviews ever started
  MaxCycles        \* bound: cycles of one interview

ASSUME InterviewsAssumption == MaxInterviews \in Nat
ASSUME CyclesAssumption == MaxCycles \in Nat \ {0}

Interview == 1 .. MaxInterviews

(* A sample run of an interview, by its cycle. *)
Sample == Interview \X (1 .. MaxCycles)
NoSample == <<0, 0>>

Status == {"new", "shown", "hidden", "starred", "provisional"}

VARIABLES
  finds,     \* Key -> status of its row, or "absent"
  leadOf,    \* history: the sample run that saved the row, until a steward or
             \* the curator sets its status
  pinned     \* rows that feedback rows refer to

findsVars == <<finds, leadOf, pinned>>

FindsTypeOK ==
  /\ finds \in [Key -> Status \cup {"absent"}]
  /\ leadOf \in [Key -> Sample \cup {NoSample}]
  /\ pinned \subseteq Key

FindsInit ==
  /\ finds = [k \in Key |-> "absent"]
  /\ leadOf = [k \in Key |-> NoSample]
  /\ pinned = {}

Present     == {k \in Key : finds[k] # "absent"}
Provisional == {k \in Key : finds[k] = "provisional"}

(* Mutant of InsertFind: the conflict updates the row instead of skipping it. *)
InsertFindUpserts(k, status, sample) ==
  /\ finds' = [finds EXCEPT ![k] = status]
  /\ leadOf' = IF k \in Present THEN leadOf ELSE [leadOf EXCEPT ![k] = sample]
  /\ UNCHANGED pinned

(* insertFind: ON CONFLICT (url_hash) DO NOTHING, and the outcome is     *)
(* "duplicate" whatever the status of the row that is already there.     *)
InsertFind(k, status, sample) ==
  IF k \in Present
  THEN UNCHANGED findsVars
  ELSE /\ finds' = [finds EXCEPT ![k] = status]
       /\ leadOf' = [leadOf EXCEPT ![k] = sample]
       /\ UNCHANGED pinned

SetStatus(K, status) ==
  /\ finds' = [k \in Key |-> IF k \in K THEN status ELSE finds[k]]
  /\ leadOf' = [k \in Key |-> IF k \in K THEN NoSample ELSE leadOf[k]]

-----------------------------------------------------------------------------
(* The feed. *)

StatusEffect == [star |-> "starred", unstar |-> "shown",
                 hide |-> "hidden",  unhide |-> "shown"]
Thumbs == {"thumbs_up", "thumbs_down", "thumbs_clear"}

(* record_feedback: the feedback row and the status in one transaction.  An *)
(* id without a row fails on the foreign key and changes nothing.           *)
RecordFeedback(k, action) ==
  /\ k \in Present
  /\ pinned' = pinned \cup {k}
  /\ IF action \in Thumbs
     THEN UNCHANGED <<finds, leadOf>>
     ELSE SetStatus({k}, StatusEffect[action])

(* update_statuses: "Star page" and "Hide page". *)
UpdateFindStatuses(K, status) ==
  /\ SetStatus(K \cap Present, status)
  /\ UNCHANGED pinned

UnhideAll ==
  /\ SetStatus({k \in Key : finds[k] = "hidden"}, "shown")
  /\ UNCHANGED pinned

(* The curator's update_find_status, on a row list_recent_finds showed it: *)
(* that list leaves the provisional rows out.                              *)
UpdateFindStatus(k, status) ==
  /\ k \in Present \ Provisional
  /\ SetStatus({k}, status)
  /\ UNCHANGED pinned

FeedStep ==
  \/ \E k \in Key : InsertFind(k, "new", NoSample)
  \/ \E k \in Key, action \in DOMAIN StatusEffect \cup Thumbs : RecordFeedback(k, action)
  \/ \E K \in (SUBSET Key) \ {{}}, status \in {"starred", "hidden"} :
       UpdateFindStatuses(K, status)
  \/ UnhideAll
  \/ \E k \in Key, status \in Status \ {"provisional"} : UpdateFindStatus(k, status)

-----------------------------------------------------------------------------
(* The interview's statements: by status, whoever wrote the row. *)

PromoteProvisionalFinds ==
  /\ finds' = [k \in Key |-> IF k \in Provisional THEN "new" ELSE finds[k]]
  /\ UNCHANGED <<leadOf, pinned>>

(* feedback.find_id has no ON DELETE: one referenced row fails the DELETE. *)
DiscardFails == Provisional \cap pinned # {}

DiscardProvisionalFinds ==
  /\ ~DiscardFails
  /\ finds' = [k \in Key |-> IF k \in Provisional THEN "absent" ELSE finds[k]]
  /\ leadOf' = [k \in Key |-> IF k \in Provisional THEN NoSample ELSE leadOf[k]]
  /\ UNCHANGED pinned
=============================================================================
