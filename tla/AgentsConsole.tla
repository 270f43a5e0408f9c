--------------------------- MODULE AgentsConsole ---------------------------
(***************************************************************************)
(* The agents console, LocalfindsWeb.AgentsLive.Index: LiveView processes  *)
(* that watch the runs table and launch the CLI.  Three kinds of self-sent *)
(* timer messages keep a socket informed: :heartbeat while it is idle,     *)
(* {:await_run, ...} while a launch of its own has no row yet, and         *)
(* {:run_tail, id} while it tails a run.  Timers are never cancelled, so a *)
(* socket's timers are counted, and a click is a message that is handled   *)
(* some time after the page that offered the button was rendered.          *)
(*                                                                         *)
(* The runs are those of RunFeed, which AgentRun implements.               *)
(*                                                                         *)
(* A handler is one step, with the table contents of that moment, except   *)
(* that each of its reads may meet a database bounce of its own.           *)
(***************************************************************************)
EXTENDS RunFeed

CONSTANTS
  Socket,      \* connected visitors
  MaxClicks,   \* bound: clicks of one socket in flight
  MaxTimers,   \* bound: idle timers of a socket that launches
  PageFaults,  \* "read": a query meets a bounce; "spawn": Spawner.run fails
  Cron         \* are processes launched from outside the console as well?

ASSUME ClicksAssumption == MaxClicks \in Nat \ {0} /\ MaxTimers \in Nat
ASSUME PageFaultsAssumption == PageFaults \subseteq {"read", "spawn"}
ASSUME CronAssumption == Cron \in BOOLEAN

VARIABLES
  ui,       \* the assigns of each socket
  timers,   \* its timer messages that are pending or in the mailbox
  clicks    \* its "trigger" events in flight

console     == <<ui, timers, clicks>>
consoleVars == <<feedVars, console>>

(* :starting (the target is immaterial), :active_run, :last_seq and *)
(* :db_unavailable; `up` says the process exists and is connected.  *)
Ui == [up : BOOLEAN, starting : BOOLEAN, active : Run \cup {NoRun},
       lastSeq : Nat \cup {-1}, degraded : BOOLEAN]

Timers == [heartbeat : Nat, await : Nat, tails : [Run -> Nat]]

ConsoleTypeOK ==
  /\ ui \in [Socket -> Ui]
  /\ timers \in [Socket -> Timers]
  /\ clicks \in [Socket -> 0 .. MaxClicks]

NoUi == [up |-> FALSE, starting |-> FALSE, active |-> NoRun, lastSeq |-> -1,
         degraded |-> FALSE]

NoTimers == [heartbeat |-> 0, await |-> 0, tails |-> [r \in Run |-> 0]]

ConsoleInit ==
  /\ FeedInit
  /\ ui = [s \in Socket |-> NoUi]
  /\ timers = [s \in Socket |-> NoTimers]
  /\ clicks = [s \in Socket |-> 0]

-----------------------------------------------------------------------------

ReadFails == "read" \in PageFaults

LiveRuns == {r \in Run : runs[r].status = "running" /\ ~Stale(runs[r], r, now)}

(* derive/2: the first live run of the list, which is latest first. *)
ActiveRun == IF LiveRuns = {} THEN NoRun
             ELSE CHOOSE r \in LiveRuns : \A q \in LiveRuns : q <= r

(* load/1 with derive/2 and seed_banner/2: the assigns it may leave.  A     *)
(* bounce of the list read leaves the fallback [], one of a later read the  *)
(* active run without its transcript; :db_unavailable is never taken back.  *)
Loads(u) ==
  LET r == ActiveRun
  IN  {[u EXCEPT !.active = r,
                 !.lastSeq = IF r = NoRun THEN -1 ELSE LastSeq(log[r])]}
      \cup (IF ReadFails
            THEN {[u EXCEPT !.active = a, !.lastSeq = -1, !.degraded = TRUE] :
                    a \in {NoRun, r}}
            ELSE {})

(* idle?/1 *)
Idle(u) == ~u.starting /\ u.active = NoRun

(* Mutant of ResumePolling: the heartbeat is only armed by an idle page. *)
ResumePollingIfTailing(u, t) ==
  IF u.degraded \/ u.active = NoRun THEN t
  ELSE [t EXCEPT !.tails[u.active] = @ + 1]

(* resume_polling/1, the one hand-off point of every poller. *)
ResumePolling(u, t) ==
  IF u.degraded THEN t
  ELSE IF u.active # NoRun THEN [t EXCEPT !.tails[u.active] = @ + 1]
  ELSE [t EXCEPT !.heartbeat = @ + 1]

(* The handler leaves the assigns u and hands off, with timers t left. *)
HandOff(s, u, t) ==
  /\ ui' = [ui EXCEPT ![s] = u]
  /\ timers' = [timers EXCEPT ![s] = ResumePolling(u, t)]

Quiet == UNCHANGED <<feedVars, clicks>>

-----------------------------------------------------------------------------

(* mount of the connected socket *)
Mount(s) ==
  /\ ~ui[s].up
  /\ \E u \in Loads([NoUi EXCEPT !.up = TRUE]) : HandOff(s, u, NoTimers)
  /\ Quiet

(* The visitor leaves or the socket drops: the process and its mailbox go. *)
Disconnect(s) ==
  /\ ui[s].up
  /\ ui' = [ui EXCEPT ![s] = NoUi]
  /\ timers' = [timers EXCEPT ![s] = NoTimers]
  /\ clicks' = [clicks EXCEPT ![s] = 0]
  /\ UNCHANGED feedVars

(* A run button of the page as rendered is enabled, and is clicked. *)
Click(s) ==
  /\ ui[s].up /\ ~ui[s].degraded /\ Idle(ui[s])
  /\ clicks[s] < MaxClicks
  /\ clicks' = [clicks EXCEPT ![s] = @ + 1]
  /\ UNCHANGED <<feedVars, ui, timers>>

(* already_starting_or_running?/1: a bounce counts as running. *)
Refuses(s) == ui[s].starting \/ InProgress(runs, now) \/ ReadFails

(* handle_event("trigger") that spawns nothing. *)
TriggerRefused(s) ==
  /\ clicks[s] > 0
  /\ Refuses(s) \/ "spawn" \in PageFaults
  /\ clicks' = [clicks EXCEPT ![s] = @ - 1]
  /\ UNCHANGED <<feedVars, ui, timers>>

(* A process with a roster comes into being, within the bound on rows. *)
Spawn == \E n \in 1 .. MaxRoster :
  /\ Cardinality(Inserted) + owed + n <= MaxRuns
  /\ Launch(n)

(* handle_event("trigger") that spawns: one agent, or the roster for "all". *)
Trigger(s) ==
  /\ clicks[s] > 0
  /\ ~ui[s].starting /\ ~InProgress(runs, now)
  /\ timers[s].heartbeat + timers[s].await < MaxTimers
  /\ Spawn
  /\ clicks' = [clicks EXCEPT ![s] = @ - 1]
  /\ ui' = [ui EXCEPT ![s].starting = TRUE]
  /\ timers' = [timers EXCEPT ![s].await = @ + 1]

(* {:await_run, ...} finds a run in progress.  The poll that finds nothing  *)
(* arms itself again: no change.                                            *)
AwaitFound(s) ==
  /\ timers[s].await > 0
  /\ InProgress(runs, now)
  /\ \E u \in Loads(ui[s]) :
       HandOff(s, [u EXCEPT !.starting = FALSE],
               [timers[s] EXCEPT !.await = @ - 1])
  /\ Quiet

(* A bounce of that read counts as a run in progress. *)
AwaitBounces(s) ==
  /\ ReadFails /\ timers[s].await > 0
  /\ \E u \in Loads(ui[s]) :
       HandOff(s, [u EXCEPT !.starting = FALSE],
               [timers[s] EXCEPT !.await = @ - 1])
  /\ Quiet

(* Mutant of AwaitGivesUp: the deadline branch forgets :starting. *)
AwaitGivesUpKeepsStarting(s) ==
  /\ timers[s].await > 0
  /\ ~InProgress(runs, now)
  /\ HandOff(s, ui[s], [timers[s] EXCEPT !.await = @ - 1])
  /\ Quiet

(* {:await_run, ...} past its deadline. *)
AwaitGivesUp(s) ==
  /\ timers[s].await > 0
  /\ ~InProgress(runs, now)
  /\ HandOff(s, [ui[s] EXCEPT !.starting = FALSE],
             [timers[s] EXCEPT !.await = @ - 1])
  /\ Quiet

(* Mutant of Heartbeat: a tick that finds no run does not arm itself again. *)
HeartbeatOneShot(s) ==
  /\ timers[s].heartbeat > 0
  /\ LET t == [timers[s] EXCEPT !.heartbeat = @ - 1]
     IN  IF Idle(ui[s]) /\ InProgress(runs, now)
         THEN \E u \in Loads(ui[s]) : HandOff(s, u, t)
         ELSE ui' = ui /\ timers' = [timers EXCEPT ![s] = t]
  /\ Quiet

(* Mutant of Heartbeat: finding a run also ends an await taken for pending. *)
HeartbeatEndsAwait(s) ==
  /\ timers[s].heartbeat > 0
  /\ LET t == [timers[s] EXCEPT !.heartbeat = @ - 1, !.await = @ - 1]
     IN  /\ Idle(ui[s]) /\ InProgress(runs, now)
         /\ \E u \in Loads(ui[s]) : HandOff(s, u, t)
  /\ Quiet

(* :heartbeat.  A tick that is not idle is dropped; an idle one that finds  *)
(* nothing arms itself again: no change.                                    *)
Heartbeat(s) ==
  /\ timers[s].heartbeat > 0
  /\ LET t == [timers[s] EXCEPT !.heartbeat = @ - 1]
     IN  \/ /\ ~Idle(ui[s])
            /\ ui' = ui /\ timers' = [timers EXCEPT ![s] = t]
         \/ /\ Idle(ui[s]) /\ InProgress(runs, now)
            /\ \E u \in Loads(ui[s]) : HandOff(s, u, t)
  /\ Quiet

HeartbeatBounces(s) ==
  /\ ReadFails /\ timers[s].heartbeat > 0 /\ Idle(ui[s])
  /\ ui' = [ui EXCEPT ![s].degraded = TRUE]
  /\ timers' = [timers EXCEPT ![s].heartbeat = @ - 1]
  /\ Quiet

(* Mutant of TailTick: only run_end stops a tail. *)
TailTickEndOnly(s, r) ==
  /\ timers[s].tails[r] > 0
  /\ LET batch == Drain(log[r], ui[s].lastSeq)
         t     == [timers[s] EXCEPT !.tails[r] = @ - 1]
     IN  \/ /\ ~batch.ended /\ batch.events # {}
            /\ ui' = [ui EXCEPT ![s].lastSeq = batch.last]
            /\ UNCHANGED timers
         \/ /\ batch.ended
            /\ \E u \in Loads([ui[s] EXCEPT !.starting = FALSE]) : HandOff(s, u, t)
  /\ Quiet

(* {:run_tail, r}: RunTail.on_tick with the socket's one cursor. *)
TailTick(s, r) ==
  /\ timers[s].tails[r] > 0
  /\ LET batch == Drain(log[r], ui[s].lastSeq)
         over  == batch.events = {} /\ RunIsOver(runs[r], r, now)
         t     == [timers[s] EXCEPT !.tails[r] = @ - 1]
     IN  \/ /\ ~batch.ended /\ batch.events # {}
            /\ ui' = [ui EXCEPT ![s].lastSeq = batch.last]
            /\ UNCHANGED timers
         \/ /\ batch.ended \/ over
            /\ \E u \in Loads([ui[s] EXCEPT !.starting = FALSE]) : HandOff(s, u, t)
  /\ Quiet

TailBounces(s, r) ==
  /\ ReadFails /\ timers[s].tails[r] > 0
  /\ ui' = [ui EXCEPT ![s].degraded = TRUE]
  /\ timers' = [timers EXCEPT ![s].tails[r] = @ - 1]
  /\ Quiet

-----------------------------------------------------------------------------

TimerFires(s) ==
  \/ AwaitFound(s) \/ AwaitGivesUp(s)
  \/ Heartbeat(s)
  \/ \E r \in Run : TailTick(s, r)

TimerBounces(s) ==
  \/ AwaitBounces(s)
  \/ HeartbeatBounces(s)
  \/ \E r \in Run : TailBounces(s, r)

ConsoleNext ==
  \/ FeedStep /\ UNCHANGED console
  \/ Cron /\ Spawn /\ UNCHANGED console
  \/ \E s \in Socket :
       Mount(s) \/ Disconnect(s) \/ Click(s) \/ TriggerRefused(s) \/ Trigger(s)
         \/ TimerFires(s) \/ TimerBounces(s)

(* A socket that has a message to handle goes on handling messages, and an  *)
(* await reaches its deadline.  No bounce is ever forced, and nothing is     *)
(* assumed of the agents: a run may hang, or outlive its staleness.          *)
ConsoleFairness == \A s \in Socket : WF_consoleVars(TimerFires(s))

ConsoleSpec ==
  ConsoleInit /\ [][ConsoleNext]_consoleVars /\ ConsoleFairness

-----------------------------------------------------------------------------
(* Properties *)

Healthy(s) == ui[s].up /\ ~ui[s].degraded

(* A healthy page always has a poller for what it is waiting for: the await *)
(* of a launch, the tail of the run in its banner, and, when idle, a        *)
(* heartbeat or a leftover await that will hand off.                        *)
NeverUnwatched ==
  \A s \in Socket : Healthy(s) =>
    /\ ui[s].starting => timers[s].await > 0
    /\ ui[s].active # NoRun => timers[s].tails[ui[s].active] > 0
    /\ Idle(ui[s]) => timers[s].heartbeat > 0 \/ timers[s].await > 0

(* "starting..." never sticks: the button of a healthy page is released. *)
StartingIsReleased ==
  \A s \in Socket : ui[s].starting ~> (~ui[s].starting \/ ~Healthy(s))

(* A run somebody else started, and that stays in progress, gets into the   *)
(* banner of every healthy page.                                            *)
RunIsNoticed ==
  \A s \in Socket :
    (Healthy(s) /\ InProgress(runs, now))
      ~> (ui[s].active # NoRun \/ ~Healthy(s) \/ ~InProgress(runs, now))

(* A run that ended or went stale leaves the banner, although run_end is    *)
(* seen before the row is updated.                                          *)
BannerClears ==
  \A s \in Socket, r \in Run :
    (Healthy(s) /\ ui[s].active = r /\ RunIsOver(runs[r], r, now))
      ~> (ui[s].active # r \/ ~Healthy(s))

(* What the trigger's comment says: agents share the DB and profiles, so    *)
(* only one run at a time.                                                  *)
OneRunAtATime == Cardinality(LiveRuns) <= 1
=============================================================================
