------------------------ MODULE AgentsConsoleProofs ------------------------
(***************************************************************************)
(* Proofs about AgentsConsole for any number of sockets and runs, any      *)
(* faults, and with or without processes launched from outside:            *)
(*                                                                         *)
(*   ConsoleTyped      []ConsoleTypeOK                                     *)
(*   ConsoleWatched    []NeverUnwatched                                    *)
(*                                                                         *)
(* The inductive invariant is the conjunction of the two type invariants,  *)
(* the fact that every transcript has a last event (RunFeed appends behind *)
(* all others), without which LastSeq would be no sequence number, and     *)
(* NeverUnwatched itself.                                                  *)
(***************************************************************************)
EXTENDS AgentsConsole, RunTablesProofs

LogsHaveLast == \A r \in Run : HasLast(log[r])

FeedInv == FeedTypeOK /\ LogsHaveLast

ConsoleInv == FeedInv /\ ConsoleTypeOK /\ NeverUnwatched

(* Serial ids are naturals, and the mark for no run is none of them.        *)
LEMMA RunsAreNaturals ==
  /\ Run \subseteq Nat /\ NoRun \notin Run
  /\ MaxRuns \in Nat
BY MaxRunsAssumption DEF Run, NoRun

-----------------------------------------------------------------------------
(* The feed. *)

(* The empty tables satisfy the invariant of the feed.                      *)
LEMMA FeedInitInv == FeedInit => FeedInv
<1> SUFFICES ASSUME FeedInit PROVE FeedInv
  OBVIOUS
<1>1. FeedTypeOK
  BY MaxRunsAssumption DEF FeedInit, FeedTypeOK, RunRow, RunStatus, Final
<1>2. LogsHaveLast
  BY DEF FeedInit, LogsHaveLast, HasLast
<1> QED BY <1>1, <1>2 DEF FeedInv

(* Whatever a run does to its row and its transcript keeps their types.     *)
LEMMA FeedStepInv ==
  ASSUME FeedInv, FeedStep
  PROVE  FeedInv'
<1> USE DEF FeedInv, FeedTypeOK
<1>1. ASSUME NEW r \in Run, Begin(r) PROVE FeedInv'
  <2>1. runs' \in [Run -> RunRow]
    BY <1>1 DEF Begin, RunRow, RunStatus, Final
  <2>2. owed' \in Nat
    BY <1>1 DEF Begin
  <2> QED BY <1>1, <2>1, <2>2 DEF Begin, LogsHaveLast
<1>2. ASSUME NEW r \in Run, AppendEvent(r) PROVE FeedInv'
  <2>1. PICK n \in Seqs, k \in Kinds, s \in Outcomes \cup {"none"} :
          /\ \A e \in log[r] : e.seq < n
          /\ log' = [log EXCEPT ![r] = @ \cup {[seq |-> n, kind |-> k, status |-> s]}]
    BY <1>2 DEF AppendEvent
  <2> DEFINE new == [seq |-> n, kind |-> k, status |-> s]
  <2>2. new \in RunEvent
    BY FeedAssumption DEF RunEvent
  <2>3. log' \in [Run -> SUBSET RunEvent]
    BY <2>1, <2>2
  <2>4. ASSUME NEW q \in Run PROVE HasLast(log'[q])
    <3>1. CASE q = r
      <4>1. log'[q] = log[r] \cup {new}
        BY <2>1, <3>1
      <4>2. \A f \in log[r] : f.seq <= new.seq
        BY <2>1, <2>2, EventFields
      <4>3. new.seq <= new.seq
        BY <2>2, EventFields
      <4> QED BY <4>1, <4>2, <4>3 DEF HasLast
    <3>2. CASE q # r
      BY <2>1, <3>2 DEF LogsHaveLast
    <3> QED BY <3>1, <3>2
  <2> QED BY <1>2, <2>3, <2>4 DEF AppendEvent, LogsHaveLast
<1>3. ASSUME NEW r \in Run, Finish(r) PROVE FeedInv'
  <2>1. PICK s \in Outcomes, w \in Counts :
          runs' = [runs EXCEPT ![r] = [status |-> s, warnings |-> w]]
    BY <1>3 DEF Finish
  <2>2. [status |-> s, warnings |-> w] \in RunRow
    BY FeedAssumption DEF RunRow, RunStatus
  <2>3. runs' \in [Run -> RunRow]
    BY <2>1, <2>2
  <2> QED BY <1>3, <2>3 DEF Finish, LogsHaveLast
<1>4. CASE Forgo
  <2>1. owed' \in Nat
    BY <1>4 DEF Forgo
  <2> QED BY <1>4, <2>1 DEF Forgo, LogsHaveLast
<1>5. CASE Age
  <2>1. now' \in 0 .. MaxRuns
    BY <1>5, MaxRunsAssumption DEF Age, Inserted, Run
  <2> QED BY <1>5, <2>1 DEF Age, LogsHaveLast
<1> QED BY <1>1, <1>2, <1>3, <1>4, <1>5 DEF FeedStep

(* A launch keeps the types of the feed.                                    *)
LEMMA LaunchInv ==
  ASSUME FeedInv, NEW n \in 1 .. MaxRoster, Launch(n)
  PROVE  FeedInv'
<1>1. owed' \in Nat
  BY FeedAssumption DEF FeedInv, FeedTypeOK, Launch
<1> QED BY <1>1 DEF FeedInv, FeedTypeOK, LogsHaveLast, Launch

-----------------------------------------------------------------------------
(* What a load and a hand-off leave. *)

(* derive/2 finds a run of the table, or none. *)
LEMMA ActiveRunType ==
  ActiveRun \in Run \cup {NoRun}
<1>1. CASE LiveRuns = {}
  BY <1>1 DEF ActiveRun
<1>2. CASE LiveRuns # {}
  <2> DEFINE S == {MaxRuns - r : r \in LiveRuns}
  <2>1. LiveRuns \subseteq Run
    BY DEF LiveRuns
  <2>2. S \in SUBSET Nat /\ S # {}
    <3>1. ASSUME NEW r \in LiveRuns PROVE MaxRuns - r \in Nat
      BY <2>1, MaxRunsAssumption DEF Run
    <3> QED BY <1>2, <3>1
  <2>3. PICK m \in S : \A n \in S : m <= n
    BY <2>2, LeastNatural
  <2>4. PICK r \in LiveRuns : m = MaxRuns - r
    BY <2>3
  <2>5. ASSUME NEW q \in LiveRuns PROVE q <= r
    <3>1. m <= MaxRuns - q
      BY <2>3
    <3> QED BY <3>1, <2>1, <2>4, RunsAreNaturals
  <2> QED BY <1>2, <2>1, <2>5 DEF ActiveRun
<1> QED BY <1>1, <1>2

(* A load of the page fetches a run and a cursor; it neither presses the    *)
(* button nor opens the page.                                               *)
LEMMA LoadsType ==
  ASSUME FeedInv, NEW u \in Ui, NEW v \in Loads(u)
  PROVE  v \in Ui /\ v.starting = u.starting /\ v.up = u.up
<1> DEFINE r == ActiveRun
           l == IF r = NoRun THEN -1 ELSE LastSeq(log[r])
<1>1. r \in Run \cup {NoRun}
  BY ActiveRunType
<1>2. l \in Nat \cup {-1}
  <2>1. CASE r = NoRun
    BY <2>1
  <2>2. CASE r \in Run
    <3>1. log[r] \in SUBSET RunEvent /\ HasLast(log[r])
      BY <2>2 DEF FeedInv, FeedTypeOK, LogsHaveLast
    <3>2. LastSeq(log[r]) \in Nat \cup {-1}
      BY <3>1, LastSeqIsLast
    <3> QED BY <3>2
  <2> QED BY <1>1, <2>1, <2>2
<1>3. CASE v = [u EXCEPT !.active = r, !.lastSeq = l]
  BY <1>1, <1>2, <1>3 DEF Ui
<1>4. ASSUME NEW a \in {NoRun, r},
             v = [u EXCEPT !.active = a, !.lastSeq = -1, !.degraded = TRUE]
      PROVE  v \in Ui /\ v.starting = u.starting /\ v.up = u.up
  BY <1>1, <1>4 DEF Ui
<1> QED BY <1>3, <1>4 DEF Loads

(* A poller that is resumed is one timer more, of its own kind.             *)
LEMMA ResumePollingType ==
  ASSUME NEW u \in Ui, NEW t \in Timers
  PROVE  ResumePolling(u, t) \in Timers
<1>1. CASE u.degraded
  BY <1>1 DEF ResumePolling
<1>2. CASE ~u.degraded /\ u.active # NoRun
  <2>1. u.active \in Run
    BY <1>2 DEF Ui
  <2>2. [t EXCEPT !.tails[u.active] = @ + 1] \in Timers
    BY <2>1 DEF Timers
  <2> QED BY <1>2, <2>2 DEF ResumePolling
<1>3. CASE ~u.degraded /\ u.active = NoRun
  <2>1. [t EXCEPT !.heartbeat = @ + 1] \in Timers
    BY DEF Timers
  <2> QED BY <1>3, <2>1 DEF ResumePolling
<1> QED BY <1>1, <1>2, <1>3 DEF Ui

(* NeverUnwatched, for one socket's assigns and timers. *)
Watched(u, t) ==
  (u.up /\ ~u.degraded) =>
    /\ u.starting => t.await > 0
    /\ u.active # NoRun => t.tails[u.active] > 0
    /\ Idle(u) => t.heartbeat > 0 \/ t.await > 0

(* resume_polling/1 watches whatever a page that is not starting needs. *)
LEMMA ResumePollingWatches ==
  ASSUME NEW u \in Ui, NEW t \in Timers, ~u.starting
  PROVE  Watched(u, ResumePolling(u, t))
<1>1. CASE u.degraded
  BY <1>1 DEF Watched
<1>2. CASE ~u.degraded /\ u.active # NoRun
  <2>1. u.active \in Run
    BY <1>2 DEF Ui
  <2>2. [t EXCEPT !.tails[u.active] = @ + 1].tails[u.active] > 0
    BY <2>1 DEF Timers
  <2>3. ResumePolling(u, t).tails[u.active] > 0
    BY <1>2, <2>2 DEF ResumePolling
  <2> QED BY <1>2, <2>3 DEF Watched, Idle
<1>3. CASE ~u.degraded /\ u.active = NoRun
  <2>1. [t EXCEPT !.heartbeat = @ + 1].heartbeat > 0
    BY DEF Timers
  <2>2. ResumePolling(u, t).heartbeat > 0
    BY <1>3, <2>1 DEF ResumePolling
  <2> QED BY <1>3, <2>2 DEF Watched
<1> QED BY <1>1, <1>2, <1>3 DEF Ui

(* A handler that resumes polling leaves its own socket watched and the     *)
(* others as they were.                                                     *)
LEMMA HandOffWatched ==
  ASSUME ConsoleTypeOK, NeverUnwatched,
         NEW s \in Socket, NEW u \in Ui, NEW t \in Timers,
         ~u.starting, HandOff(s, u, t)
  PROVE  /\ ui' \in [Socket -> Ui]
         /\ timers' \in [Socket -> Timers]
         /\ NeverUnwatched'
<1>1. ui' = [ui EXCEPT ![s] = u] /\ timers' = [timers EXCEPT ![s] = ResumePolling(u, t)]
  BY DEF HandOff
<1>2. ui' \in [Socket -> Ui] /\ timers' \in [Socket -> Timers]
  BY <1>1, ResumePollingType DEF ConsoleTypeOK
<1>3. ASSUME NEW q \in Socket PROVE Watched(ui'[q], timers'[q])
  <2>1. CASE q = s
    <3>1. ui'[q] = u /\ timers'[q] = ResumePolling(u, t)
      BY <1>1, <2>1 DEF ConsoleTypeOK
    <3> QED BY <3>1, ResumePollingWatches
  <2>2. CASE q # s
    <3>1. ui'[q] = ui[q] /\ timers'[q] = timers[q]
      BY <1>1, <2>2 DEF ConsoleTypeOK
    <3> QED BY <3>1 DEF NeverUnwatched, Watched, Healthy
  <2> QED BY <2>1, <2>2
<1>4. NeverUnwatched'
  BY <1>3 DEF NeverUnwatched, Watched, Healthy
<1> QED BY <1>2, <1>4

(* A socket's message handler that changes only its own assigns and timers  *)
(* keeps NeverUnwatched when it leaves its own socket watched.              *)
LEMMA OwnSocketWatched ==
  ASSUME ConsoleTypeOK, NeverUnwatched, NEW s \in Socket, NEW u, NEW t,
         ui' = [ui EXCEPT ![s] = u], timers' = [timers EXCEPT ![s] = t],
         Watched(u, t)
  PROVE  NeverUnwatched'
<1>1. ASSUME NEW q \in Socket PROVE Watched(ui'[q], timers'[q])
  <2>1. CASE q = s
    BY <2>1 DEF ConsoleTypeOK
  <2>2. CASE q # s
    <3>1. ui'[q] = ui[q] /\ timers'[q] = timers[q]
      BY <2>2 DEF ConsoleTypeOK
    <3> QED BY <3>1 DEF NeverUnwatched, Watched, Healthy
  <2> QED BY <2>1, <2>2
<1> QED BY <1>1 DEF NeverUnwatched, Watched, Healthy

-----------------------------------------------------------------------------
(* The invariant. *)

(* At the start no page is open.                                            *)
LEMMA ConsoleInitInv == ConsoleInit => ConsoleInv
<1> SUFFICES ASSUME ConsoleInit PROVE ConsoleInv
  OBVIOUS
<1>1. FeedInv
  BY FeedInitInv DEF ConsoleInit
<1>2. NoUi \in Ui
  BY DEF NoUi, Ui
<1>3. NoTimers \in Timers
  BY DEF NoTimers, Timers
<1>4. ConsoleTypeOK
  BY <1>2, <1>3, ClicksAssumption DEF ConsoleInit, ConsoleTypeOK
<1>5. NeverUnwatched
  BY DEF ConsoleInit, NeverUnwatched, Healthy, NoUi
<1> QED BY <1>1, <1>4, <1>5 DEF ConsoleInv

(* Handlers that read the tables and leave them alone. *)
LEMMA HandlersKeepInv ==
  ASSUME ConsoleInv, NEW s \in Socket,
         Mount(s) \/ TimerFires(s) \/ TimerBounces(s)
  PROVE  ConsoleInv'
<1> USE DEF ConsoleInv
<1>1. Quiet
  BY DEF Mount, TimerFires, TimerBounces, AwaitFound, AwaitGivesUp, Heartbeat,
         TailTick, AwaitBounces, HeartbeatBounces, TailBounces
<1>2. FeedInv'
  BY <1>1 DEF Quiet, feedVars, FeedInv, FeedTypeOK, LogsHaveLast
<1>3. clicks' \in [Socket -> 0 .. MaxClicks]
  BY <1>1 DEF Quiet, ConsoleTypeOK
<1>4. ui[s] \in Ui /\ timers[s] \in Timers
  BY DEF ConsoleTypeOK
<1> DEFINE Kept == /\ ui' \in [Socket -> Ui]
                   /\ timers' \in [Socket -> Timers]
                   /\ NeverUnwatched'
<1> SUFFICES Kept
  BY <1>2, <1>3 DEF ConsoleTypeOK
<1>5. ASSUME NEW t \in Timers, NEW v \in Ui, ~v.starting,
             NEW u \in Loads(v), HandOff(s, u, t)
      PROVE  Kept
  <2>1. u \in Ui /\ ~u.starting
    BY <1>5, LoadsType
  <2> QED BY <1>5, <2>1, HandOffWatched
<1>6. ASSUME NEW t \in Timers, NEW v \in Ui, NEW w \in Loads(v),
             HandOff(s, [w EXCEPT !.starting = FALSE], t)
      PROVE  Kept
  <2> DEFINE u == [w EXCEPT !.starting = FALSE]
  <2>1. w \in Ui
    BY <1>6, LoadsType
  <2>2. u \in Ui /\ ~u.starting
    BY <2>1 DEF Ui
  <2> QED BY <1>6, <2>2, HandOffWatched
<1>7. [ui[s] EXCEPT !.starting = FALSE] \in Ui /\ ~[ui[s] EXCEPT !.starting = FALSE].starting
  BY <1>4 DEF Ui
<1>8. CASE Mount(s)
  <2> DEFINE v == [NoUi EXCEPT !.up = TRUE]
  <2>1. v \in Ui /\ ~v.starting /\ NoTimers \in Timers
    BY DEF NoUi, Ui, NoTimers, Timers
  <2>2. PICK u \in Loads(v) : HandOff(s, u, NoTimers)
    BY <1>8 DEF Mount
  <2> QED BY <1>5, <2>1, <2>2
<1>9. CASE AwaitFound(s) \/ AwaitBounces(s)
  <2> DEFINE t == [timers[s] EXCEPT !.await = @ - 1]
  <2>1. timers[s].await > 0
    BY <1>9 DEF AwaitFound, AwaitBounces
  <2>2. t \in Timers
    BY <1>4, <2>1 DEF Timers
  <2>3. PICK w \in Loads(ui[s]) : HandOff(s, [w EXCEPT !.starting = FALSE], t)
    BY <1>9 DEF AwaitFound, AwaitBounces
  <2> QED BY <1>4, <1>6, <2>2, <2>3
<1>10. CASE AwaitGivesUp(s)
  <2> DEFINE t == [timers[s] EXCEPT !.await = @ - 1]
  <2>1. t \in Timers
    BY <1>4, <1>10 DEF AwaitGivesUp, Timers
  <2>2. HandOff(s, [ui[s] EXCEPT !.starting = FALSE], t)
    BY <1>10 DEF AwaitGivesUp, HandOff
  <2> QED BY <1>7, <2>1, <2>2, HandOffWatched
<1>11. CASE Heartbeat(s)
  <2> DEFINE t == [timers[s] EXCEPT !.heartbeat = @ - 1]
  <2>1. t \in Timers
    BY <1>4, <1>11 DEF Heartbeat, Timers
  <2>2. CASE ~Idle(ui[s]) /\ ui' = ui /\ timers' = [timers EXCEPT ![s] = t]
    <3>1. ui' = [ui EXCEPT ![s] = ui[s]]
      BY <2>2 DEF ConsoleTypeOK
    <3>2. t.await = timers[s].await /\ t.tails = timers[s].tails
      BY <1>4 DEF Timers
    <3>3. Watched(ui[s], t)
      BY <2>2, <3>2 DEF NeverUnwatched, Healthy, Watched
    <3>4. NeverUnwatched'
      BY <2>2, <3>1, <3>3, OwnSocketWatched
    <3> QED BY <2>1, <2>2, <3>4 DEF ConsoleTypeOK
  <2>3. ASSUME Idle(ui[s]), NEW u \in Loads(ui[s]), HandOff(s, u, t)
        PROVE  Kept
    <3>1. ~ui[s].starting
      BY <2>3 DEF Idle
    <3> QED BY <1>4, <1>5, <2>1, <2>3, <3>1
  <2> QED BY <1>11, <2>2, <2>3 DEF Heartbeat
<1>12. CASE HeartbeatBounces(s)
  <2> DEFINE t == [timers[s] EXCEPT !.heartbeat = @ - 1]
             u == [ui[s] EXCEPT !.degraded = TRUE]
  <2>1. t \in Timers
    BY <1>4, <1>12 DEF HeartbeatBounces, Timers
  <2>2. u \in Ui /\ u.degraded
    BY <1>4 DEF Ui
  <2>3. ui' = [ui EXCEPT ![s] = u] /\ timers' = [timers EXCEPT ![s] = t]
    BY <1>12 DEF HeartbeatBounces
  <2>4. NeverUnwatched'
    BY <2>2, <2>3, OwnSocketWatched DEF Watched
  <2> QED BY <2>1, <2>2, <2>3, <2>4 DEF ConsoleTypeOK
<1>13. ASSUME NEW r \in Run, TailTick(s, r) PROVE Kept
  <2> DEFINE batch == Drain(log[r], ui[s].lastSeq)
             t     == [timers[s] EXCEPT !.tails[r] = @ - 1]
  <2>1. log[r] \in SUBSET RunEvent /\ HasLast(log[r]) /\ ui[s].lastSeq \in Nat \cup {-1}
    BY <1>4 DEF FeedInv, FeedTypeOK, LogsHaveLast, Ui
  <2>2. CASE ui' = [ui EXCEPT ![s].lastSeq = batch.last] /\ UNCHANGED timers
    <3> DEFINE u == [ui[s] EXCEPT !.lastSeq = batch.last]
    <3>1. batch.last \in Nat \cup {-1}
      BY <2>1, DrainAdvances
    <3>2. u \in Ui /\ u.up = ui[s].up /\ u.degraded = ui[s].degraded
          /\ u.starting = ui[s].starting /\ u.active = ui[s].active
      BY <1>4, <3>1 DEF Ui
    <3>3. ui' = [ui EXCEPT ![s] = u] /\ timers' = [timers EXCEPT ![s] = timers[s]]
      BY <2>2 DEF ConsoleTypeOK
    <3>4. Watched(u, timers[s])
      BY <3>2 DEF NeverUnwatched, Healthy, Watched, Idle
    <3>5. NeverUnwatched'
      BY <3>3, <3>4, OwnSocketWatched
    <3> QED BY <2>2, <3>2, <3>3, <3>5 DEF ConsoleTypeOK
  <2>3. ASSUME NEW u \in Loads([ui[s] EXCEPT !.starting = FALSE]), HandOff(s, u, t)
        PROVE  Kept
    <3>1. timers[s].tails[r] > 0
      BY <1>13 DEF TailTick
    <3>2. t \in Timers
      BY <1>4, <3>1 DEF Timers
    <3> QED BY <1>5, <1>7, <2>3, <3>2
  <2> QED BY <1>13, <2>2, <2>3 DEF TailTick
<1>14. ASSUME NEW r \in Run, TailBounces(s, r) PROVE Kept
  <2> DEFINE t == [timers[s] EXCEPT !.tails[r] = @ - 1]
             u == [ui[s] EXCEPT !.degraded = TRUE]
  <2>1. t \in Timers
    BY <1>4, <1>14 DEF TailBounces, Timers
  <2>2. u \in Ui /\ u.degraded
    BY <1>4 DEF Ui
  <2>3. ui' = [ui EXCEPT ![s] = u] /\ timers' = [timers EXCEPT ![s] = t]
    BY <1>14 DEF TailBounces
  <2>4. NeverUnwatched'
    BY <2>2, <2>3, OwnSocketWatched DEF Watched
  <2> QED BY <2>1, <2>2, <2>3, <2>4 DEF ConsoleTypeOK
<1> QED BY <1>8, <1>9, <1>10, <1>11, <1>12, <1>13, <1>14
        DEF TimerFires, TimerBounces

(* Every step of the feed, of a page or of its timers keeps the             *)
(* invariant.                                                               *)
LEMMA ConsoleNextInv ==
  ASSUME ConsoleInv, [ConsoleNext]_consoleVars
  PROVE  ConsoleInv'
<1> USE DEF ConsoleInv
<1>1. CASE UNCHANGED consoleVars
  <2>1. FeedInv'
    BY <1>1 DEF consoleVars, feedVars, FeedInv, FeedTypeOK, LogsHaveLast
  <2> QED BY <1>1, <2>1
          DEF consoleVars, console, ConsoleTypeOK, NeverUnwatched, Healthy, Idle
<1>2. CASE FeedStep /\ UNCHANGED console
  <2>1. FeedInv'
    BY <1>2, FeedStepInv
  <2> QED BY <1>2, <2>1 DEF console, ConsoleTypeOK, NeverUnwatched, Healthy, Idle
<1>3. CASE Cron /\ Spawn /\ UNCHANGED console
  <2>1. PICK n \in 1 .. MaxRoster : Launch(n)
    BY <1>3 DEF Spawn
  <2>2. FeedInv'
    BY <2>1, LaunchInv
  <2> QED BY <1>3, <2>2 DEF console, ConsoleTypeOK, NeverUnwatched, Healthy, Idle
<1>4. ASSUME NEW s \in Socket, Mount(s) \/ TimerFires(s) \/ TimerBounces(s)
      PROVE  ConsoleInv'
  BY <1>4, HandlersKeepInv
<1>5. ASSUME NEW s \in Socket, Disconnect(s) PROVE ConsoleInv'
  <2>1. FeedInv'
    BY <1>5 DEF Disconnect, feedVars, FeedInv, FeedTypeOK, LogsHaveLast
  <2>2. NoUi \in Ui /\ NoTimers \in Timers
    BY DEF NoUi, Ui, NoTimers, Timers
  <2>3. ConsoleTypeOK'
    BY <1>5, <2>2, ClicksAssumption DEF Disconnect, ConsoleTypeOK
  <2>4. Watched(NoUi, NoTimers)
    BY DEF Watched, NoUi
  <2>5. NeverUnwatched'
    BY <1>5, <2>4, OwnSocketWatched DEF Disconnect
  <2> QED BY <2>1, <2>3, <2>5
<1>6. ASSUME NEW s \in Socket, Click(s) \/ TriggerRefused(s) PROVE ConsoleInv'
  <2>1. FeedInv'
    BY <1>6 DEF Click, TriggerRefused, feedVars, FeedInv, FeedTypeOK, LogsHaveLast
  <2>2. clicks' \in [Socket -> 0 .. MaxClicks]
    BY <1>6, ClicksAssumption DEF Click, TriggerRefused, ConsoleTypeOK
  <2> QED BY <1>6, <2>1, <2>2
          DEF Click, TriggerRefused, ConsoleTypeOK, NeverUnwatched, Healthy, Idle
<1>7. ASSUME NEW s \in Socket, Trigger(s) PROVE ConsoleInv'
  <2> DEFINE u == [ui[s] EXCEPT !.starting = TRUE]
             t == [timers[s] EXCEPT !.await = @ + 1]
  <2>1. PICK n \in 1 .. MaxRoster : Launch(n)
    BY <1>7 DEF Trigger, Spawn
  <2>2. FeedInv'
    BY <2>1, LaunchInv
  <2>3. clicks' \in [Socket -> 0 .. MaxClicks]
    BY <1>7, ClicksAssumption DEF Trigger, ConsoleTypeOK
  <2>4. ui[s] \in Ui /\ timers[s] \in Timers
    BY DEF ConsoleTypeOK
  <2>5. u \in Ui /\ u.starting /\ u.up = ui[s].up
        /\ u.degraded = ui[s].degraded /\ u.active = ui[s].active
    BY <2>4 DEF Ui
  <2>6. t \in Timers /\ t.await > 0 /\ t.tails = timers[s].tails
    BY <2>4 DEF Timers
  <2>7. ui' = [ui EXCEPT ![s] = u] /\ timers' = [timers EXCEPT ![s] = t]
    BY <1>7 DEF Trigger
  <2>8. Watched(u, t)
    BY <2>5, <2>6 DEF Watched, Idle, NeverUnwatched, Healthy
  <2>9. NeverUnwatched'
    BY <2>7, <2>8, OwnSocketWatched
  <2> QED BY <2>2, <2>3, <2>5, <2>6, <2>7, <2>9 DEF ConsoleTypeOK
<1> QED BY <1>1, <1>2, <1>3, <1>4, <1>5, <1>6, <1>7 DEF ConsoleNext

(* In every state of any number of consoles the types of the feed and of    *)
(* the pages hold, and every healthy page has the poller for what it        *)
(* waits for.                                                               *)
THEOREM ConsoleInvariant == ConsoleSpec => []ConsoleInv
<1>1. ConsoleInit => ConsoleInv
  BY ConsoleInitInv
<1>2. ConsoleInv /\ [ConsoleNext]_consoleVars => ConsoleInv'
  BY ConsoleNextInv
<1> QED BY <1>1, <1>2, PTL DEF ConsoleSpec

(* The assigns, timers and clicks of every socket keep their types: no      *)
(* timer count goes below zero, and every cursor is a sequence number or -1.*)
THEOREM ConsoleTyped == ConsoleSpec => []ConsoleTypeOK
<1>1. ConsoleInv => ConsoleTypeOK
  BY DEF ConsoleInv
<1> QED BY <1>1, ConsoleInvariant, PTL

(* However many visitors, runs and outside launches there are, and whatever *)
(* bounces, a healthy page is never left without the poller it depends on.  *)
THEOREM ConsoleWatched == ConsoleSpec => []NeverUnwatched
<1>1. ConsoleInv => NeverUnwatched
  BY DEF ConsoleInv
<1> QED BY <1>1, ConsoleInvariant, PTL
=============================================================================
