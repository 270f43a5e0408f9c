----------------------------- MODULE RunDetail -----------------------------
(***************************************************************************)
(* The run-detail page, LocalfindsWeb.AgentsLive.Run: a LiveView process   *)
(* that mounts on one run, tails its transcript through RunTail.on_tick    *)
(* and re-reads its row when the tail says the run is over.                *)
(*                                                                         *)
(* A handler is one mailbox turn, but each of its queries is answered by   *)
(* the database at its own moment.  So a handler with two queries is two   *)
(* steps here, and `phase` says which query comes next; the run goes on in *)
(* between.  The page's :stale? and :live? assigns are always derived from *)
(* the row and the :now it holds, so they are operators.                   *)
(***************************************************************************)
EXTENDS AgentRun

CONSTANT ReadFaults   \* do the page's queries meet a database bounce?

ASSUME ReadFaultsAssumption == ReadFaults \in BOOLEAN

VARIABLES
  phase,          \* "closed", "rest", or the query the handler is at
  runId,          \* the run the page was opened on
  row,            \* :run, the row as last read
  mountNow,       \* :now, assigned once, by mount
  shown,          \* the :events stream, keyed on seq
  lastSeq,        \* :last_seq
  tail,           \* a {:run_tail, run_id} timer is pending
  dbUnavailable   \* :db_unavailable

page       == <<phase, runId, row, mountNow, shown, lastSeq, tail, dbUnavailable>>
agentVars  == vars
detailVars == <<agentVars, page>>

NoRow == [status |-> "absent", warnings |-> 0]

Phase == {"closed", "mounting", "rest", "checking", "done", "reloading"}

PageTypeOK ==
  /\ phase \in Phase
  /\ runId \in Run \cup {NoRun}
  /\ phase # "closed" => runId \in Run
  /\ row \in RunRow
  /\ mountNow \in 0 .. MaxRuns
  /\ shown \in SUBSET RunEvent
  /\ lastSeq \in Nat \cup {-1}
  /\ tail \in BOOLEAN
  /\ dbUnavailable \in BOOLEAN

PageInit ==
  /\ phase = "closed"
  /\ runId = NoRun
  /\ row = NoRow
  /\ mountNow = 0
  /\ shown = {}
  /\ lastSeq = -1
  /\ tail = FALSE
  /\ dbUnavailable = FALSE

(* :stale? as load assigns it, against the clock the socket holds. *)
ShowsStale == Stale(row, runId, mountNow)

(* :live? *)
ShowsLive == row.status = "running" /\ ~ShowsStale

-----------------------------------------------------------------------------

(* mount, up to its first query.  A bounce leaves a degraded page that *)
(* never loads anything.                                               *)
Open(r) ==
  /\ phase = "closed" /\ r \in Present
  /\ runId' = r
  /\ mountNow' = now
  /\ \/ phase' = "mounting" /\ row' = runs[r] /\ dbUnavailable' = FALSE
     \/ ReadFaults /\ phase' = "rest" /\ row' = NoRow /\ dbUnavailable' = TRUE
  /\ UNCHANGED <<agentVars, shown, lastSeq, tail>>

(* Mutant of LoadEvents: the cursor is left one before the last event. *)
LoadEventsOneBefore ==
  /\ phase \in {"mounting", "reloading"}
  /\ shown' = log[runId]
  /\ lastSeq' = LastSeq(log[runId]) - 1
  /\ tail' = (phase = "mounting" /\ ShowsLive)
  /\ phase' = "rest"
  /\ UNCHANGED <<agentVars, runId, row, mountNow, dbUnavailable>>

(* Mutant of LoadEvents: reload keeps the transcript the tail has shown. *)
LoadEventsOnMountOnly ==
  /\ phase \in {"mounting", "reloading"}
  /\ shown' = IF phase = "mounting" THEN log[runId] ELSE shown
  /\ lastSeq' = IF phase = "mounting" THEN LastSeq(log[runId]) ELSE lastSeq
  /\ tail' = (phase = "mounting" /\ ShowsLive)
  /\ phase' = "rest"
  /\ UNCHANGED <<agentVars, runId, row, mountNow, dbUnavailable>>

(* load: the whole transcript replaces the stream.  mount arms the tail of *)
(* a live run, degraded or not; reload arms nothing.                       *)
LoadEvents ==
  /\ phase \in {"mounting", "reloading"}
  /\ \/ /\ shown' = log[runId]
        /\ lastSeq' = LastSeq(log[runId])
        /\ UNCHANGED dbUnavailable
     \/ /\ ReadFaults
        /\ shown' = {}
        /\ lastSeq' = -1
        /\ dbUnavailable' = TRUE
  /\ tail' = (phase = "mounting" /\ ShowsLive)
  /\ phase' = "rest"
  /\ UNCHANGED <<agentVars, runId, row, mountNow>>

(* Mutant of Tick: the cursor is set to the end of the log as it is now,    *)
(* not to the last event of the batch that was appended.                    *)
TickCursorPastBatch ==
  /\ phase = "rest" /\ tail
  /\ LET batch == Drain(log[runId], lastSeq)
     IN  /\ shown' = shown \cup batch.events
         /\ lastSeq' = nextSeq[runId]
         /\ phase' = CASE batch.ended       -> "done"
                       [] batch.events = {} -> "checking"
                       [] OTHER             -> "rest"
         /\ tail' = (phase' = "rest")
         /\ UNCHANGED dbUnavailable
  /\ UNCHANGED <<agentVars, runId, row, mountNow>>

(* Mutant of Tick: the batch replaces the stream instead of joining it. *)
TickReplacesStream ==
  /\ phase = "rest" /\ tail
  /\ LET batch == Drain(log[runId], lastSeq)
     IN  /\ shown' = IF batch.events = {} THEN shown ELSE batch.events
         /\ lastSeq' = batch.last
         /\ phase' = CASE batch.ended       -> "done"
                       [] batch.events = {} -> "checking"
                       [] OTHER             -> "rest"
         /\ tail' = (phase' = "rest")
         /\ UNCHANGED dbUnavailable
  /\ UNCHANGED <<agentVars, runId, row, mountNow>>

(* RunTail.on_tick: the batch after the cursor.  With a run_end the run is  *)
(* over; an empty batch makes drain read the row; otherwise the tail is     *)
(* armed again.  On a bounce it stops.                                      *)
Tick ==
  /\ phase = "rest" /\ tail
  /\ \/ LET batch == Drain(log[runId], lastSeq)
        IN  /\ shown' = shown \cup batch.events
            /\ lastSeq' = batch.last
            /\ phase' = CASE batch.ended       -> "done"
                          [] batch.events = {} -> "checking"
                          [] OTHER             -> "rest"
            /\ tail' = (phase' = "rest")
            /\ UNCHANGED dbUnavailable
     \/ /\ ReadFaults
        /\ tail' = FALSE
        /\ dbUnavailable' = TRUE
        /\ UNCHANGED <<phase, shown, lastSeq>>
  /\ UNCHANGED <<agentVars, runId, row, mountNow>>

(* Mutant of CheckRow: only the status is consulted, not the staleness. *)
CheckRowStatusOnly ==
  /\ phase = "checking"
  /\ phase' = IF runs[runId].status # "running" THEN "done" ELSE "rest"
  /\ tail' = (phase' = "rest")
  /\ UNCHANGED <<agentVars, runId, row, mountNow, shown, lastSeq, dbUnavailable>>

(* Mutant of CheckRow: an empty batch of a live run is not polled again. *)
CheckRowNoRearm ==
  /\ phase = "checking"
  /\ phase' = IF RunIsOver(runs[runId], runId, now) THEN "done" ELSE "rest"
  /\ UNCHANGED <<agentVars, runId, row, mountNow, shown, lastSeq, tail,
                 dbUnavailable>>

(* The row read of an empty tick. *)
CheckRow ==
  /\ phase = "checking"
  /\ \/ /\ phase' = IF RunIsOver(runs[runId], runId, now) THEN "done" ELSE "rest"
        /\ tail' = (phase' = "rest")
        /\ UNCHANGED dbUnavailable
     \/ /\ ReadFaults
        /\ phase' = "rest"
        /\ dbUnavailable' = TRUE
        /\ UNCHANGED tail
  /\ UNCHANGED <<agentVars, runId, row, mountNow, shown, lastSeq>>

(* reload, the done_fun of the tail: the row first, then load's events.  On *)
(* a bounce LiveDB falls back to the row the socket has.                    *)
RereadRow ==
  /\ phase = "done"
  /\ \/ row' = runs[runId] /\ UNCHANGED dbUnavailable
     \/ ReadFaults /\ dbUnavailable' = TRUE /\ UNCHANGED row
  /\ phase' = "reloading"
  /\ UNCHANGED <<agentVars, runId, mountNow, shown, lastSeq, tail>>

(* The visitor leaves or the socket drops: the process and its timers go. *)
Close ==
  /\ phase # "closed"
  /\ phase' = "closed" /\ runId' = NoRun /\ row' = NoRow /\ mountNow' = 0
  /\ shown' = {} /\ lastSeq' = -1 /\ tail' = FALSE /\ dbUnavailable' = FALSE
  /\ UNCHANGED agentVars

-----------------------------------------------------------------------------

PageStep == LoadEvents \/ Tick \/ CheckRow \/ RereadRow

DetailInit == Init /\ PageInit

DetailNext ==
  \/ Next /\ UNCHANGED page
  \/ \E r \in Run : Open(r)
  \/ PageStep
  \/ Close

(* Timers fire and handlers finish, and the processes of AgentRun go on. *)
DetailSpec ==
  /\ DetailInit /\ [][DetailNext]_detailVars
  /\ \A c \in Cli : WF_detailVars(CliStep(c) /\ UNCHANGED page)
  /\ \A r \in Run : WF_detailVars(RunnerStep(r) /\ UNCHANGED page)
  /\ WF_detailVars(Age /\ UNCHANGED page)
  /\ WF_detailVars(PageStep)

-----------------------------------------------------------------------------
(* Properties *)

Open_ == phase # "closed" /\ ~dbUnavailable

(* The cursor and the stream agree: the page shows exactly the events up to *)
(* its cursor, whatever the run wrote between two of its reads.             *)
ShownUpToCursor ==
  Open_ => shown = {e \in log[runId] : e.seq <= lastSeq}

(* A page that shows a final status shows the whole run: the closing events *)
(* of a second pass through the catch block are all it can miss.            *)
SettledPageIsComplete ==
  (Open_ /\ phase = "rest" /\ row.status \in Final) =>
    \A e \in log[runId] \ shown : e.kind \in {"error", "run_end"}

(* A page opened on a live run shows every event the run writes while it is *)
(* in progress: the tail may not go to sleep before its run has.  Not       *)
(* counted are the closing events of a second pass through the catch block, *)
(* and a run that outlives the staleness bound.                             *)
TailDelivers ==
  \A r \in Run, n \in 0 .. MaxEvents :
    LET Written == {e \in log[r] : e.seq = n /\ e.kind \notin {"error", "run_end"}}
    IN  (Open_ /\ runId = r /\ ShowsLive /\ ~RunIsOver(runs[r], r, now) /\ Written # {})
          ~> (~Open_ \/ runId # r \/ Stale(runs[r], r, now)
              \/ \E e \in shown : e.seq = n)

(* A tail does not outlive its run, even when the run_end event was lost or *)
(* the process was killed: the page comes to rest with no timer.            *)
TailStops ==
  \A r \in Run :
    (runId = r /\ RunIsOver(runs[r], r, now))
      ~> (runId # r \/ (phase = "rest" /\ ~tail))

(* What run.ex says of its reload: re-reading the row makes the stat block  *)
(* settle to its final values.                                              *)
StatsSettle ==
  \A r \in Run :
    (runId = r /\ runs[r].status \in Final)
      ~> (~Open_ \/ runId # r \/ row = runs[r])

(* What runs.ex says of a stale run: the UI flags it, here as soon as the   *)
(* tail has stopped for it.                                                 *)
StaleIsFlagged ==
  \A r \in Run :
    (runId = r /\ step[r] = "dead" /\ Stale(runs[r], r, now))
      ~> (~Open_ \/ runId # r \/ ShowsStale)

(* The page keeps the feed's promise: TranscriptView!Spec for every run. *)
View(r) == INSTANCE TranscriptView WITH
  written <- log[r],
  seen    <- IF runId = r /\ ~dbUnavailable THEN shown ELSE {},
  reader  <- IF runId # r THEN "none"
             ELSE IF dbUnavailable THEN "lost" ELSE "reading"

ImplementsView ==
  /\ \A r \in Run : View(r)!Init
  /\ [][\A r \in Run : View(r)!Next \/ UNCHANGED View(r)!view]_detailVars
=============================================================================
