------------------------------ MODULE RunFeed ------------------------------
(***************************************************************************)
(* What the agents CLI does to the tables, as the pages that read them can *)
(* rely on it: rows appear in id order, at most one for every agent of a   *)
(* launched process; a transcript grows behind its end; a row leaves       *)
(* `running` once.  Nothing promises that a launched process ever inserts  *)
(* its row, that a row has a run behind it, that a run ends, or that a     *)
(* transcript is closed by a run_end.                                      *)
(* AgentRun implements this.                                               *)
(***************************************************************************)
EXTENDS RunTables

CONSTANTS
  MaxRoster,  \* bound: agents of one launched process
  Seqs,       \* bound: sequence numbers of events
  Kinds,      \* event kinds written
  Outcomes,   \* statuses runs end with
  Counts      \* bound: warning counts of ended runs

ASSUME FeedAssumption ==
  /\ MaxRoster \in Nat \ {0} /\ Seqs \subseteq Nat /\ Kinds \subseteq Kind
  /\ Outcomes \subseteq Final /\ Counts \subseteq Nat

VARIABLES
  runs,   \* table runs
  log,    \* table run_events, per run
  now,    \* the clock, see RunTables
  owed    \* rows the launched processes may still insert

feedVars == <<runs, log, now, owed>>

FeedTypeOK ==
  /\ runs \in [Run -> RunRow]
  /\ log \in [Run -> SUBSET RunEvent]
  /\ now \in 0 .. MaxRuns
  /\ owed \in Nat

FeedInit ==
  /\ runs = [r \in Run |-> [status |-> "absent", warnings |-> 0]]
  /\ log = [r \in Run |-> {}]
  /\ now = 0
  /\ owed = 0

Inserted == {r \in Run : runs[r].status # "absent"}

(* A process with a roster of n agents is launched. *)
Launch(n) ==
  /\ owed' = owed + n
  /\ UNCHANGED <<runs, log, now>>

Begin(r) ==
  /\ owed > 0
  /\ r \notin Inserted /\ \A q \in Run : q < r => q \in Inserted
  /\ runs' = [runs EXCEPT ![r].status = "running"]
  /\ owed' = owed - 1
  /\ UNCHANGED <<log, now>>

(* An agent fails before its row, or the process dies with its roster. *)
Forgo ==
  /\ \E n \in 1 .. owed : owed' = owed - n
  /\ UNCHANGED <<runs, log, now>>

(* Events may also follow the end of the row, see AgentRun!FinishFails. *)
AppendEvent(r) ==
  /\ r \in Inserted
  /\ \E n \in Seqs, k \in Kinds, s \in Outcomes \cup {"none"} :
       /\ \A e \in log[r] : e.seq < n
       /\ (k = "run_end") <=> (s # "none")
       /\ log' = [log EXCEPT ![r] = @ \cup {[seq |-> n, kind |-> k, status |-> s]}]
  /\ UNCHANGED <<runs, now, owed>>

Finish(r) ==
  /\ runs[r].status = "running"
  /\ \E s \in Outcomes, w \in Counts :
       runs' = [runs EXCEPT ![r] = [status |-> s, warnings |-> w]]
  /\ UNCHANGED <<log, now, owed>>

(* The oldest run that is not yet RUN_STALE_MS old becomes so. *)
Age ==
  /\ now + 1 \in Inserted
  /\ now' = now + 1
  /\ UNCHANGED <<runs, log, owed>>

(* Everything but the launch. *)
FeedStep ==
  \/ \E r \in Run : Begin(r) \/ AppendEvent(r) \/ Finish(r)
  \/ Forgo
  \/ Age

FeedNext == FeedStep \/ \E n \in 1 .. MaxRoster : Launch(n)

FeedSpec == FeedInit /\ [][FeedNext]_feedVars
=============================================================================
