------------------------------ MODULE AgentRun ------------------------------
(***************************************************************************)
(* The agents CLI (packages/agents/src/cli.ts) and runAgent                *)
(* (packages/agents/src/run-agent.ts): a process works through its roster, *)
(* one run after the other.  A run inserts its `running` row, writes its   *)
(* transcript event by event, writes run_end and only then updates the     *)
(* row.  Every database call of the process is one step, so everything the *)
(* readers of the tables can observe in between is a state here.           *)
(*                                                                         *)
(* Faults names the failures an instance explores:                         *)
(*   "start"       startRun, or the code before it, throws: no row         *)
(*   "start_reply" the INSERT of startRun commits but its reply is lost    *)
(*   "event_write" an INSERT into run_events fails (safeWrite swallows it) *)
(*   "finish"      the UPDATE of finishRun fails                           *)
(*   "finish_reply" that UPDATE commits but its reply is lost              *)
(*   "crash"       the process is killed                                   *)
(***************************************************************************)
EXTENDS RunTables, Sequences

CONSTANTS
  Cli,         \* CLI processes that may be launched
  MaxRoster,   \* bound: agents in one process's roster
  Batches,     \* event kinds one SDK message projects to
  MaxEvents,   \* bound: transcript events before the closing ones
  Faults

BodyKind == {"step", "tool_error"}

ASSUME RosterAssumption == MaxRoster \in Nat \ {0}
ASSUME MaxEventsAssumption == MaxEvents \in Nat
ASSUME BatchesAssumption == Batches \subseteq Seq(BodyKind) \ {<<>>}
ASSUME FaultsAssumption ==
  Faults \subseteq {"start", "start_reply", "event_write", "finish",
                   "finish_reply", "crash"}

(* Subtypes of the SDK's result message; "none": no result was received. *)
Outcome == {"none", "success", "error_max_budget_usd", "error_other"}

(* Mutant of StatusFromResult: the SDK's subtype goes into the row as it is. *)
StatusFromResultUnmapped(result) == IF result = "none" THEN "error" ELSE result

(* statusFromResult: a budget cap is a normal end. *)
StatusFromResult(result) ==
  CASE result = "success"              -> "success"
    [] result = "error_max_budget_usd" -> "capped"
    [] OTHER                           -> "error"

NoMessage == [kinds |-> <<>>, outcome |-> "none"]

(* What one SDK message projects to: the blocks of an assistant or user *)
(* message, or the one event of the terminal result.                    *)
Message ==
  [kinds : Batches, outcome : {"none"}]
    \cup [kinds : {<<"result">>}, outcome : Outcome \ {"none"}]

VARIABLES
  runs,      \* table runs: Run -> RunRow
  log,       \* table run_events: Run -> its rows
  now,       \* the clock, see RunTables
  step,      \* where runAgent stands in each run
  nextSeq,   \* seq of openRunLog's closure
  message,   \* the SDK message being projected
  at,        \* index of its next event
  result,    \* the result message received so far
  warnings,  \* runAgent's warning counter
  caught,    \* runAgent is in its catch block
  lost,      \* history: the seqs whose INSERT failed
  cli,       \* state of each CLI process
  todo,      \* agents left in its roster
  current    \* its run, NoRun between runs

tables     == <<runs, log>>
runnerVars == <<step, nextSeq, message, at, result, warnings, caught, lost>>
cliVars    == <<cli, todo, current>>
vars       == <<tables, now, runnerVars, cliVars>>

(* "orphan": a row whose id never reached the process that inserted it. *)
Step == {"none", "opening", "streaming", "writing", "reporting", "ending",
         "finishing", "over", "dead", "orphan"}

TypeOK ==
  /\ runs \in [Run -> RunRow]
  /\ log \in [Run -> SUBSET RunEvent]
  /\ now \in 0 .. MaxRuns
  /\ step \in [Run -> Step]
  /\ nextSeq \in [Run -> Nat]
  /\ message \in [Run -> Message \cup {NoMessage}]
  /\ at \in [Run -> Nat]
  /\ result \in [Run -> Outcome]
  /\ warnings \in [Run -> Nat]
  /\ caught \in [Run -> BOOLEAN]
  /\ lost \in [Run -> SUBSET Nat]
  /\ cli \in [Cli -> {"off", "ready", "busy", "exited"}]
  /\ todo \in [Cli -> 0 .. MaxRoster]
  /\ current \in [Cli -> Run \cup {NoRun}]

Init ==
  /\ runs = [r \in Run |-> [status |-> "absent", warnings |-> 0]]
  /\ log = [r \in Run |-> {}]
  /\ now = 0
  /\ step = [r \in Run |-> "none"]
  /\ nextSeq = [r \in Run |-> 0]
  /\ message = [r \in Run |-> NoMessage]
  /\ at = [r \in Run |-> 1]
  /\ result = [r \in Run |-> "none"]
  /\ warnings = [r \in Run |-> 0]
  /\ caught = [r \in Run |-> FALSE]
  /\ lost = [r \in Run |-> {}]
  /\ cli = [c \in Cli |-> "off"]
  /\ todo = [c \in Cli |-> 0]
  /\ current = [c \in Cli |-> NoRun]

-----------------------------------------------------------------------------
(* The process: main() of cli.ts. *)

Present == {r \in Run : runs[r].status # "absent"}

(* The row about to be inserted takes the next serial id. *)
NextId(r) == r \notin Present /\ \A q \in Run : q < r => q \in Present

Launch(c, n) ==
  /\ cli[c] = "off"
  /\ cli' = [cli EXCEPT ![c] = "ready"]
  /\ todo' = [todo EXCEPT ![c] = n]
  /\ UNCHANGED <<tables, now, runnerVars, current>>

(* startRun: the row is inserted, and openRunLog starts counting at 0. *)
StartRun(c) == \E r \in Run :
  /\ cli[c] = "ready" /\ todo[c] > 0
  /\ NextId(r)
  /\ runs' = [runs EXCEPT ![r].status = "running"]
  /\ step' = [step EXCEPT ![r] = "opening"]
  /\ cli' = [cli EXCEPT ![c] = "busy"]
  /\ current' = [current EXCEPT ![c] = r]
  /\ UNCHANGED <<log, now, nextSeq, message, at, result, warnings, caught,
                 lost, todo>>

(* runAgent throws before it has a row; main() goes on to the next agent. *)
StartFails(c) ==
  /\ "start" \in Faults
  /\ cli[c] = "ready" /\ todo[c] > 0
  /\ todo' = [todo EXCEPT ![c] = @ - 1]
  /\ UNCHANGED <<tables, now, runnerVars, cli, current>>

(* startRun throws although its INSERT committed.  It is called outside     *)
(* runAgent's try block, so nobody ever finishes the row, and main() goes   *)
(* on to the next agent all the same.                                       *)
StartReplyLost(c) == \E r \in Run :
  /\ "start_reply" \in Faults
  /\ cli[c] = "ready" /\ todo[c] > 0
  /\ NextId(r)
  /\ runs' = [runs EXCEPT ![r].status = "running"]
  /\ step' = [step EXCEPT ![r] = "orphan"]
  /\ todo' = [todo EXCEPT ![c] = @ - 1]
  /\ UNCHANGED <<log, now, nextSeq, message, at, result, warnings, caught,
                 lost, cli, current>>

(* runAgent returned or threw: main()'s loop goes on either way. *)
NextAgent(c) ==
  /\ cli[c] = "busy"
  /\ step[current[c]] = "over"
  /\ cli' = [cli EXCEPT ![c] = "ready"]
  /\ todo' = [todo EXCEPT ![c] = @ - 1]
  /\ current' = [current EXCEPT ![c] = NoRun]
  /\ UNCHANGED <<tables, now, runnerVars>>

Exit(c) ==
  /\ cli[c] = "ready" /\ todo[c] = 0
  /\ cli' = [cli EXCEPT ![c] = "exited"]
  /\ UNCHANGED <<tables, now, runnerVars, todo, current>>

(* The process is killed: its row stays `running`. *)
Crash(c) ==
  /\ "crash" \in Faults
  /\ cli[c] \in {"ready", "busy"}
  /\ cli' = [cli EXCEPT ![c] = "exited"]
  /\ step' = [r \in Run |-> IF cli[c] = "busy" /\ r = current[c]
                            THEN "dead" ELSE step[r]]
  /\ UNCHANGED <<tables, now, nextSeq, message, at, result, warnings, caught,
                 lost, todo, current>>

-----------------------------------------------------------------------------
(* One run: runAgent from openRunLog to the finally block. *)

(* Mutant of WriteEvent: seq advances only when the INSERT succeeded. *)
WriteEventRetryingSeq(r, kind, status) ==
  \/ /\ log' = [log EXCEPT ![r] = @ \cup
                  {[seq |-> nextSeq[r], kind |-> kind, status |-> status]}]
     /\ nextSeq' = [nextSeq EXCEPT ![r] = @ + 1]
     /\ UNCHANGED lost
  \/ /\ "event_write" \in Faults
     /\ lost' = [lost EXCEPT ![r] = @ \cup {nextSeq[r]}]
     /\ UNCHANGED <<log, nextSeq>>

(* Mutant of WriteEvent: the counter is read but never advanced. *)
WriteEventSameSeq(r, kind, status) ==
  /\ log' = [log EXCEPT ![r] = @ \cup
                {[seq |-> nextSeq[r], kind |-> kind, status |-> status]}]
  /\ UNCHANGED <<nextSeq, lost>>

(* safeWrite(log, event): seq++ is evaluated before the INSERT is sent, and *)
(* a failed INSERT is swallowed.                                            *)
WriteEvent(r, kind, status) ==
  /\ nextSeq' = [nextSeq EXCEPT ![r] = @ + 1]
  /\ \/ /\ log' = [log EXCEPT ![r] = @ \cup
                     {[seq |-> nextSeq[r], kind |-> kind, status |-> status]}]
        /\ UNCHANGED lost
     \/ /\ "event_write" \in Faults
        /\ lost' = [lost EXCEPT ![r] = @ \cup {nextSeq[r]}]
        /\ UNCHANGED log

OpenLog(r) ==
  /\ step[r] = "opening"
  /\ WriteEvent(r, "run_start", "none")
  /\ step' = [step EXCEPT ![r] = "streaming"]
  /\ UNCHANGED <<runs, now, message, at, result, warnings, caught, cliVars>>

(* The SDK yields a message; the result message is its last one. *)
Receive(r, m) ==
  /\ step[r] = "streaming" /\ result[r] = "none"
  /\ nextSeq[r] + Len(m.kinds) <= MaxEvents
  /\ message' = [message EXCEPT ![r] = m]
  /\ at' = [at EXCEPT ![r] = 1]
  /\ step' = [step EXCEPT ![r] = "writing"]
  /\ UNCHANGED <<tables, now, nextSeq, result, warnings, caught, lost, cliVars>>

(* One event of the message is written; after the last one the warnings of  *)
(* the whole message are added and its result is kept.                      *)
WriteMessage(r) ==
  LET m     == message[r]
      last  == at[r] = Len(m.kinds)
      noted == Cardinality({i \in DOMAIN m.kinds : m.kinds[i] = "tool_error"})
  IN  /\ step[r] = "writing"
      /\ WriteEvent(r, m.kinds[at[r]], "none")
      /\ at' = [at EXCEPT ![r] = IF last THEN 1 ELSE @ + 1]
      /\ message' = [message EXCEPT ![r] = IF last THEN NoMessage ELSE @]
      /\ warnings' = [warnings EXCEPT ![r] = IF last THEN @ + noted ELSE @]
      /\ result' = [result EXCEPT ![r] = IF last THEN m.outcome ELSE @]
      /\ step' = [step EXCEPT ![r] = IF last THEN "streaming" ELSE @]
      /\ UNCHANGED <<runs, now, caught, cliVars>>

(* Mutant of StreamEnds: a stream without a result returns early. *)
StreamEndsEarly(r) ==
  /\ step[r] = "streaming"
  /\ step' = [step EXCEPT ![r] = IF result[r] = "none" THEN "over" ELSE "ending"]
  /\ UNCHANGED <<tables, now, nextSeq, message, at, result, warnings, caught,
                 lost, cliVars>>

(* The stream ends, with or without a result. *)
StreamEnds(r) ==
  /\ step[r] = "streaming"
  /\ step' = [step EXCEPT ![r] = "ending"]
  /\ UNCHANGED <<tables, now, nextSeq, message, at, result, warnings, caught,
                 lost, cliVars>>

(* Entering the catch block: only an `error` status writes an error event. *)
Catch(r) ==
  /\ caught' = [caught EXCEPT ![r] = TRUE]
  /\ step' = [step EXCEPT ![r] = IF StatusFromResult(result[r]) = "error"
                                 THEN "reporting" ELSE "ending"]

(* The SDK throws: before any result, or after it on a non-zero exit. *)
StreamThrows(r) ==
  /\ step[r] = "streaming"
  /\ Catch(r)
  /\ UNCHANGED <<tables, now, nextSeq, message, at, result, warnings, lost,
                 cliVars>>

ReportError(r) ==
  /\ step[r] = "reporting"
  /\ WriteEvent(r, "error", "none")
  /\ step' = [step EXCEPT ![r] = "ending"]
  /\ UNCHANGED <<runs, now, message, at, result, warnings, caught, cliVars>>

WriteEnd(r) ==
  /\ step[r] = "ending"
  /\ WriteEvent(r, "run_end", StatusFromResult(result[r]))
  /\ step' = [step EXCEPT ![r] = "finishing"]
  /\ UNCHANGED <<runs, now, message, at, result, warnings, caught, cliVars>>

(* Mutant of FinalRow: whatever reaches the catch block is an error. *)
FinalRowCatchIsError(r) ==
  [status   |-> IF caught[r] THEN "error" ELSE StatusFromResult(result[r]),
   warnings |-> warnings[r]]

(* Mutant of FinalRow: the warnings are left out of the patch. *)
FinalRowNoWarnings(r) ==
  [status |-> StatusFromResult(result[r]), warnings |-> 0]

(* The patch of both finishRun calls. *)
FinalRow(r) ==
  [status |-> StatusFromResult(result[r]), warnings |-> warnings[r]]

(* finishRun.  The finally block that follows only refreshes osm_places. *)
Finish(r) ==
  /\ step[r] = "finishing"
  /\ runs' = [runs EXCEPT ![r] = FinalRow(r)]
  /\ step' = [step EXCEPT ![r] = "over"]
  /\ UNCHANGED <<log, now, nextSeq, message, at, result, warnings, caught,
                 lost, cliVars>>

(* finishRun throws.  In the try block that enters the catch block, which   *)
(* writes run_end and calls finishRun again; in the catch block it leaves   *)
(* runAgent.  Either way the UPDATE may have committed.                     *)
FinishFails(r) ==
  /\ step[r] = "finishing"
  /\ \/ /\ "finish" \in Faults
        /\ UNCHANGED runs
     \/ /\ "finish_reply" \in Faults
        /\ runs' = [runs EXCEPT ![r] = FinalRow(r)]
  /\ IF caught[r]
     THEN /\ step' = [step EXCEPT ![r] = "over"]
          /\ UNCHANGED caught
     ELSE Catch(r)
  /\ UNCHANGED <<log, now, nextSeq, message, at, result, warnings, lost,
                 cliVars>>

(* The clock: the oldest run that is not yet RUN_STALE_MS old becomes so. *)
Age ==
  /\ now + 1 \in Present
  /\ now' = now + 1
  /\ UNCHANGED <<tables, runnerVars, cliVars>>

-----------------------------------------------------------------------------

RunnerStep(r) ==
  \/ OpenLog(r)
  \/ \E m \in Message : Receive(r, m)
  \/ WriteMessage(r)
  \/ StreamEnds(r)
  \/ StreamThrows(r)
  \/ ReportError(r)
  \/ WriteEnd(r)
  \/ Finish(r)
  \/ FinishFails(r)

CliStep(c) ==
  \/ StartRun(c)
  \/ StartFails(c)
  \/ StartReplyLost(c)
  \/ NextAgent(c)
  \/ Exit(c)

(* Everything but the launch, which a composition may take over. *)
AgentNext ==
  \/ \E c \in Cli : CliStep(c) \/ Crash(c)
  \/ \E r \in Run : RunnerStep(r)
  \/ Age

Next ==
  \/ \E c \in Cli, n \in 1 .. MaxRoster : Launch(c, n)
  \/ AgentNext

(* A process the kernel runs keeps making progress until it is killed, and  *)
(* time passes.  Nothing makes anyone launch a process.                     *)
AgentFairness ==
  /\ \A c \in Cli : WF_vars(CliStep(c))
  /\ \A r \in Run : WF_vars(RunnerStep(r))
  /\ WF_vars(Age)

Spec == Init /\ [][Next]_vars /\ AgentFairness

-----------------------------------------------------------------------------
(* Properties *)

(* The transcript is what was written: the sequence numbers used so far are *)
(* exactly the rows of run_events and the lost writes, each used once.      *)
(* openRunLog's counter is what the readers' cursors rely on.               *)
SeqsAccountedFor ==
  \A r \in Run :
    LET seqs == {e.seq : e \in log[r]}
    IN  /\ seqs \cup lost[r] = 0 .. nextSeq[r] - 1
        /\ seqs \cap lost[r] = {}
        /\ \A e, f \in log[r] : e.seq = f.seq => e = f

(* runAgent writes run_end before it updates the row: a row that left       *)
(* `running` has its closing event (or that very write was lost: nothing    *)
(* but closing events follows it), and the two agree on the status, even    *)
(* when the first finishRun threw and the catch block ran it again.  The    *)
(* row's warnings are the failed tool results of the transcript, up to the  *)
(* writes that were lost.                                                   *)
RowAgreesWithTranscript ==
  \A r \in Run : runs[r].status \in Final =>
    /\ \/ \E e \in log[r] : e.kind = "run_end"
       \/ \E n \in lost[r] : \A e \in log[r] :
            e.seq > n => e.kind \in {"error", "run_end"}
    /\ \A e \in log[r] : e.kind = "run_end" => e.status = runs[r].status
    /\ CountWarnings(log[r]) <= runs[r].warnings
    /\ runs[r].warnings <= CountWarnings(log[r]) + Cardinality(lost[r])

(* A run whose process is not killed ends: its row leaves `running`, unless *)
(* the catch block's finishRun failed too, or the run never came to be      *)
(* because the reply to its INSERT was lost.                                *)
RunsFinish ==
  \A r \in Run : runs[r].status = "running" ~>
    \/ runs[r].status \in Final
    \/ step[r] \in {"dead", "orphan"}
    \/ step[r] = "over" /\ caught[r]

(* The places of the rosters that no process has come to yet. *)
Unbegun(c) ==
  CASE cli[c] = "ready" -> todo[c]
    [] cli[c] = "busy"  -> todo[c] - 1
    [] OTHER            -> 0

Owed == {p \in Cli \X (1 .. MaxRoster) : p[2] <= Unbegun(p[1])}

(* The CLI implements what the pages rely on. *)
Feed == INSTANCE RunFeed WITH
  Seqs     <- 0 .. MaxEvents + 6,
  Kinds    <- Kind,
  Outcomes <- Final,
  Counts   <- 0 .. MaxEvents,
  owed     <- Cardinality(Owed)

(* Every step of the CLI and of its runs is a step of RunFeed, or one that *)
(* the readers of the tables cannot see.                                   *)
ImplementsFeed == Feed!FeedSpec
=============================================================================
