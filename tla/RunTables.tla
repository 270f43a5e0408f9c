----------------------------- MODULE RunTables -----------------------------
(***************************************************************************)
(* The two tables every part of the agent console meets in, runs and       *)
(* run_events, and the pure reads over them: the predicates of             *)
(* Localfinds.Runs and the drain of LocalfindsWeb.RunTail.                 *)
(*                                                                         *)
(* A run is its serial id, so ids are also the order of started_at.  The   *)
(* wall clock matters only through the staleness window: `now` is the      *)
(* number of runs that were started at least RUN_STALE_MS ago, and because *)
(* started_at grows with the id these are the runs 1 .. now.               *)
(***************************************************************************)
EXTENDS Integers, FiniteSets

CONSTANT MaxRuns   \* bound: rows of the runs table

ASSUME MaxRunsAssumption == MaxRuns \in Nat \ {0}

Run  == 1 .. MaxRuns
NoRun == 0

(* The status column: `running` at the insert, then one of the three. *)
Final     == {"success", "capped", "error"}
RunStatus == {"absent", "running"} \cup Final
RunRow    == [status : RunStatus, warnings : Nat]

(* The RunEvent union.  assistant_text, tool_use, and a tool_result without *)
(* isError are one kind, "step": nothing here tells them apart.  `status`   *)
(* is the payload of run_end.                                               *)
Kind     == {"run_start", "step", "tool_error", "result", "error", "run_end"}
RunEvent == [seq : Nat, kind : Kind, status : Final \cup {"none"}]

(* isRunStale / Runs.stale? *)
Stale(row, r, now) == row.status = "running" /\ r <= now

(* Runs.in_progress?: a row is running and not stale. *)
InProgress(rows, now) ==
  \E r \in Run : rows[r].status = "running" /\ ~Stale(rows[r], r, now)

(* countRunWarnings / Runs.count_warnings *)
CountWarnings(events) == Cardinality({e \in events : e.kind = "tool_error"})

(* The last seq of a transcript in seq order, -1 when it is empty. *)
LastSeq(events) ==
  IF events = {} THEN -1
  ELSE CHOOSE n \in {e.seq : e \in events} : \A e \in events : e.seq <= n

(* readRunEventsSince / Runs.events_since *)
EventsSince(events, after) == {e \in events : e.seq > after}

(* RunTail.drain, first half: the batch after `after`, cut behind its first *)
(* run_end.  `ended` says such a run_end was found.                         *)
Drain(events, after) ==
  LET batch == EventsSince(events, after)
      ends  == {e \in batch : e.kind = "run_end"}
      taken == {e \in batch : \A f \in ends : e.seq <= f.seq}
  IN  [events |-> taken,
       last   |-> IF taken = {} THEN after ELSE LastSeq(taken),
       ended  |-> ends # {}]

(* RunTail.drain, second half, reached only by an empty batch: the tail     *)
(* stops when the row left `running` or is stale.                           *)
RunIsOver(row, r, now) == row.status # "running" \/ Stale(row, r, now)
=============================================================================
