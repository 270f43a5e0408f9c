-------------------------- MODULE RunDetailProofs --------------------------
(***************************************************************************)
(* Proofs about RunDetail, for any run and any faults of the processes and *)
(* of the page's own queries:                                              *)
(*                                                                         *)
(*   PageTyped         []PageTypeOK                                        *)
(*   PageShowsPrefix   []ShownUpToCursor                                   *)
(*   PageSettles       []SettledPageIsComplete                             *)
(*   PageImplementsView  ImplementsView, the refinement of TranscriptView  *)
(*                                                                         *)
(* Why it holds: openRunLog gives an event a number that is past every     *)
(* cursor a page can hold (CursorBehind), so a write between two reads of  *)
(* the page always lands behind its cursor, and a drained batch is exactly *)
(* the part of the log between the old cursor and the new (DrainAdvances). *)
(* A page that stops does so on a reading of the row that came after the   *)
(* events it asks for, and a row that is over gets no more events but      *)
(* closing ones (SettledInv).                                              *)
(***************************************************************************)
EXTENDS RunDetail, AgentRunProofs, RunTablesProofs

(* The page's cursor is before the number the run's next event will get. *)
CursorBehind == runId \in Run => lastSeq < nextSeq[runId]

(* A page that is closed is on no run and has nothing shown. *)
ClosedIsBlank ==
  phase = "closed" => runId = NoRun /\ shown = {} /\ lastSeq = -1

DetailInv ==
  RunInv /\ PageTypeOK /\ ShownUpToCursor /\ CursorBehind /\ ClosedIsBlank

(* Serial ids are naturals, and the mark for no run is none of them.        *)
LEMMA RunFacts ==
  Run \subseteq Nat /\ NoRun \notin Run /\ MaxRuns \in Nat
BY MaxRunsAssumption DEF Run, NoRun

(* A step of the agents leaves a transcript alone or adds one event, with   *)
(* the number nextSeq, and never takes a number back.                       *)
LEMMA LogGrows ==
  ASSUME RunInv, [Next]_vars, NEW r \in Run
  PROVE  /\ nextSeq'[r] >= nextSeq[r]
         /\ \/ log'[r] = log[r]
            \/ \E e : e.seq = nextSeq[r] /\ log'[r] = log[r] \cup {e}
<1> USE DEF RunInv
<1>1. nextSeq[r] \in Nat
  BY DEF TypeOK
<1>2. CASE UNCHANGED <<log, nextSeq>>
  BY <1>1, <1>2
<1>3. ASSUME NEW q \in Run, NEW k, NEW s, WriteEvent(q, k, s)
      PROVE  /\ nextSeq'[r] >= nextSeq[r]
             /\ \/ log'[r] = log[r]
                \/ \E e : e.seq = nextSeq[r] /\ log'[r] = log[r] \cup {e}
  <2>1. nextSeq'[r] >= nextSeq[r]
    BY <1>1, <1>3 DEF WriteEvent, TypeOK
  <2> DEFINE new == [seq |-> nextSeq[q], kind |-> k, status |-> s]
  <2>2. log' = log \/ log' = [log EXCEPT ![q] = @ \cup {new}]
    BY <1>3 DEF WriteEvent
  <2>3. CASE log' = [log EXCEPT ![q] = @ \cup {new}] /\ q = r
    <3>1. log'[r] = log[r] \cup {new} /\ new.seq = nextSeq[r]
      BY <2>3 DEF TypeOK
    <3> QED BY <2>1, <3>1
  <2>4. CASE log' = [log EXCEPT ![q] = @ \cup {new}] /\ q # r
    BY <2>1, <2>4 DEF TypeOK
  <2> QED BY <2>1, <2>2, <2>3, <2>4
<1>4. CASE UNCHANGED vars
  BY <1>2, <1>4 DEF vars, tables, runnerVars
<1>5. CASE Age \/ \E c \in Cli : CliStep(c) \/ Crash(c) \/ \E n \in 1 .. MaxRoster : Launch(c, n)
  BY <1>2, <1>5 DEF Age, CliStep, StartRun, StartFails, StartReplyLost,
                    NextAgent, Exit, Crash, Launch, runnerVars, tables
<1>6. ASSUME NEW q \in Run, OpenLog(q) \/ WriteMessage(q) \/ ReportError(q) \/ WriteEnd(q)
      PROVE  \E k, s : WriteEvent(q, k, s)
  BY <1>6 DEF OpenLog, WriteMessage, ReportError, WriteEnd
<1>7. ASSUME NEW q \in Run,
             StreamEnds(q) \/ StreamThrows(q) \/ Finish(q) \/ FinishFails(q)
               \/ \E m \in Message : Receive(q, m)
      PROVE  UNCHANGED <<log, nextSeq>>
  BY <1>7 DEF StreamEnds, StreamThrows, Finish, FinishFails, Receive, tables
<1> QED BY <1>2, <1>3, <1>4, <1>5, <1>6, <1>7 DEF Next, AgentNext, RunnerStep

(* Every transcript has a last event, and it is before nextSeq. *)
LEMMA LogHasLast ==
  ASSUME RunInv, NEW r \in Run
  PROVE  /\ log[r] \in SUBSET RunEvent
         /\ HasLast(log[r])
         /\ \A e \in log[r] : e.seq < nextSeq[r]
<1>1. log[r] \in SUBSET RunEvent /\ nextSeq[r] \in Nat
  BY DEF RunInv, TypeOK
<1>2. ASSUME NEW e \in log[r] PROVE e.seq < nextSeq[r]
  <2>1. e.seq \in 0 .. nextSeq[r] - 1
    BY DEF RunInv, SeqsAccountedFor
  <2> QED BY <1>1, <2>1
<1> QED BY <1>1, <1>2, BoundedHasLast

-----------------------------------------------------------------------------

(* At the start no page is open.                                            *)
LEMMA DetailInitInv == DetailInit => DetailInv
<1> SUFFICES ASSUME DetailInit PROVE DetailInv
  OBVIOUS
<1>1. RunInv
  BY InitInv DEF DetailInit
<1>2. PageTypeOK
  <2>1. NoRow \in RunRow
    BY DEF NoRow, RunRow, RunStatus
  <2>2. 0 \in 0 .. MaxRuns
    BY RunFacts
  <2> QED BY <2>1, <2>2 DEF DetailInit, PageInit, PageTypeOK, Phase
<1>3. ShownUpToCursor /\ CursorBehind /\ ClosedIsBlank
  BY RunFacts DEF DetailInit, PageInit, ShownUpToCursor, Open_, CursorBehind,
                  ClosedIsBlank
<1> QED BY <1>1, <1>2, <1>3 DEF DetailInv

(* The agents write under the page's feet. *)
LEMMA AgentsKeepPage ==
  ASSUME DetailInv, [Next]_vars, UNCHANGED page
  PROVE  DetailInv'
<1>1. RunInv'
  <2>1. CASE Next
    BY <2>1, CliStepInv, RunnerStepInv DEF DetailInv, Next, AgentNext
  <2>2. CASE UNCHANGED vars
    BY <2>2 DEF vars, tables, runnerVars, cliVars, DetailInv, RunInv, TypeOK,
                AtInMessage, BusyHasAgent, SeqsAccountedFor
  <2> QED BY <2>1, <2>2
<1>2. PageTypeOK' /\ ClosedIsBlank'
  BY DEF page, DetailInv, PageTypeOK, ClosedIsBlank
<1>3. CASE runId \in Run
  <2>1. nextSeq[runId] \in Nat /\ nextSeq'[runId] \in Nat /\ lastSeq \in Nat \cup {-1}
    BY <1>1, <1>3 DEF DetailInv, RunInv, TypeOK, PageTypeOK
  <2>2. /\ nextSeq'[runId] >= nextSeq[runId]
        /\ \/ log'[runId] = log[runId]
           \/ \E e : e.seq = nextSeq[runId] /\ log'[runId] = log[runId] \cup {e}
    BY <1>3, LogGrows DEF DetailInv
  <2>3. lastSeq < nextSeq[runId]
    BY <1>3 DEF DetailInv, CursorBehind
  <2>4. CursorBehind'
    BY <2>1, <2>2, <2>3 DEF page, CursorBehind
  <2>5. {e \in log'[runId] : e.seq <= lastSeq} = {e \in log[runId] : e.seq <= lastSeq}
    BY <2>1, <2>2, <2>3
  <2>6. ShownUpToCursor'
    BY <2>5 DEF page, DetailInv, ShownUpToCursor, Open_
  <2> QED BY <1>1, <1>2, <2>4, <2>6 DEF DetailInv
<1>4. CASE runId \notin Run
  BY <1>1, <1>2, <1>4 DEF page, DetailInv, PageTypeOK, ShownUpToCursor, Open_, CursorBehind
<1> QED BY <1>3, <1>4

(* The page's own steps leave the agents alone. *)
LEMMA PageKeepsAgents ==
  ASSUME RunInv, UNCHANGED agentVars
  PROVE  RunInv'
BY DEF agentVars, vars, tables, runnerVars, cliVars, RunInv, TypeOK,
       AtInMessage, BusyHasAgent, SeqsAccountedFor

(* Every query of the page, the ones that bounce included, keeps cursor     *)
(* and screen together.                                                     *)
LEMMA PageStepsKeepInv ==
  ASSUME DetailInv, (\E r \in Run : Open(r)) \/ PageStep \/ Close
  PROVE  DetailInv'
<1> USE DEF DetailInv
<1>1. UNCHANGED agentVars
  BY DEF PageStep, Open, LoadEvents, Tick, CheckRow, RereadRow, Close
<1>2. RunInv' /\ log' = log /\ nextSeq' = nextSeq /\ runs' = runs
  BY <1>1, PageKeepsAgents DEF agentVars, vars, tables, runnerVars
<1> DEFINE Kept == PageTypeOK' /\ ShownUpToCursor' /\ CursorBehind' /\ ClosedIsBlank'
<1> SUFFICES Kept
  BY <1>2
<1>3. runs \in [Run -> RunRow] /\ now \in 0 .. MaxRuns /\ nextSeq \in [Run -> Nat]
  BY DEF RunInv, TypeOK
<1>4. NoRow \in RunRow /\ 0 \in 0 .. MaxRuns
  BY RunFacts DEF NoRow, RunRow, RunStatus
<1>5. ASSUME runId \in Run
      PROVE  /\ log[runId] \in SUBSET RunEvent
             /\ HasLast(log[runId])
             /\ \A e \in log[runId] : e.seq < nextSeq[runId]
             /\ nextSeq[runId] \in Nat
  BY <1>3, <1>5, LogHasLast
<1>6. ASSUME NEW r \in Run, Open(r) PROVE Kept
  <2>1. phase = "closed" /\ shown' = {} /\ lastSeq' = -1 /\ runId' = r
    BY <1>6 DEF Open, ClosedIsBlank
  <2>2. phase' \in {"mounting", "rest"} /\ row' \in RunRow /\ mountNow' \in 0 .. MaxRuns
        /\ dbUnavailable' \in BOOLEAN /\ tail' = tail
    BY <1>3, <1>4, <1>6 DEF Open
  <2>3. PageTypeOK'
    BY <2>1, <2>2 DEF PageTypeOK, Phase
  <2>4. {e \in log'[r] : e.seq <= -1} = {}
    BY <1>2, LogHasLast, EventFields
  <2>5. ShownUpToCursor'
    BY <2>1, <2>4 DEF ShownUpToCursor
  <2>6. nextSeq'[r] \in Nat
    BY <1>2, <1>3
  <2> QED BY <2>1, <2>2, <2>3, <2>5, <2>6 DEF CursorBehind, ClosedIsBlank
<1>7. CASE LoadEvents
  <2>1. runId \in Run /\ phase # "closed"
    BY <1>7 DEF LoadEvents, PageTypeOK
  <2>2. /\ tail' \in BOOLEAN /\ phase' = "rest"
        /\ UNCHANGED <<runId, row, mountNow>>
    BY <1>7 DEF LoadEvents, ShowsLive, ShowsStale
  <2>3. CASE shown' = log[runId] /\ lastSeq' = LastSeq(log[runId]) /\ UNCHANGED dbUnavailable
    <3>1. /\ lastSeq' \in Nat \cup {-1}
          /\ \A e \in log[runId] : e.seq <= lastSeq'
          /\ log[runId] # {} => \E e \in log[runId] : e.seq = lastSeq'
      BY <1>5, <2>1, <2>3, LastSeqIsLast
    <3>2. lastSeq' < nextSeq[runId]
      <4>1. CASE log[runId] = {}
        BY <1>5, <2>1, <2>3, <4>1 DEF LastSeq
      <4>2. CASE log[runId] # {}
        BY <1>5, <2>1, <3>1, <4>2
      <4> QED BY <4>1, <4>2
    <3>3. PageTypeOK'
      BY <1>5, <2>1, <2>2, <2>3, <3>1 DEF PageTypeOK, Phase
    <3>4. ShownUpToCursor'
      BY <1>2, <2>2, <2>3, <3>1 DEF ShownUpToCursor
    <3> QED BY <1>2, <2>2, <3>2, <3>3, <3>4 DEF CursorBehind, ClosedIsBlank
  <2>4. CASE shown' = {} /\ lastSeq' = -1 /\ dbUnavailable' = TRUE
    BY <1>2, <1>5, <2>1, <2>2, <2>4
       DEF PageTypeOK, Phase, ShownUpToCursor, Open_, CursorBehind, ClosedIsBlank
  <2> QED BY <1>7, <2>3, <2>4 DEF LoadEvents
<1>8. CASE Tick
  <2> DEFINE batch == Drain(log[runId], lastSeq)
  <2>1. runId \in Run /\ phase = "rest" /\ lastSeq \in Nat \cup {-1}
    BY <1>8 DEF Tick, PageTypeOK
  <2>2. UNCHANGED <<runId, row, mountNow>>
    BY <1>8 DEF Tick
  <2>3. CASE /\ shown' = shown \cup batch.events
             /\ lastSeq' = batch.last
             /\ phase' = CASE batch.ended       -> "done"
                           [] batch.events = {} -> "checking"
                           [] OTHER             -> "rest"
             /\ tail' = (phase' = "rest")
             /\ UNCHANGED dbUnavailable
    <3>1. /\ batch.last \in Nat \cup {-1}
          /\ batch.last >= lastSeq
          /\ batch.events = {e \in log[runId] : lastSeq < e.seq /\ e.seq <= batch.last}
          /\ batch.last = lastSeq \/ \E e \in log[runId] : e.seq = batch.last
      BY <1>5, <2>1, DrainAdvances
    <3> HIDE DEF batch
    <3>2. phase' \in {"done", "checking", "rest"} /\ tail' \in BOOLEAN
      BY <2>3
    <3>3. lastSeq' < nextSeq[runId]
      BY <1>5, <2>1, <2>3, <3>1 DEF CursorBehind
    <3>4. batch.events \subseteq log[runId]
      BY <3>1
    <3>5. PageTypeOK'
      BY <1>5, <2>1, <2>2, <2>3, <3>1, <3>2, <3>4 DEF PageTypeOK, Phase
    <3>6. ShownUpToCursor'
      <4> SUFFICES ASSUME Open_' PROVE shown' = {e \in log'[runId'] : e.seq <= lastSeq'}
        BY DEF ShownUpToCursor
      <4>1. Open_
        BY <2>1, <2>3 DEF Open_
      <4>2. shown = {e \in log[runId] : e.seq <= lastSeq}
        BY <4>1 DEF ShownUpToCursor
      <4>3. ASSUME NEW e \in log[runId]
            PROVE  e.seq <= batch.last <=>
                     e.seq <= lastSeq \/ (lastSeq < e.seq /\ e.seq <= batch.last)
        BY <1>5, <2>1, <3>1, EventFields
      <4>4. shown \cup batch.events = {e \in log[runId] : e.seq <= batch.last}
        BY <3>1, <4>2, <4>3
      <4> QED BY <1>2, <2>2, <2>3, <4>4
    <3> QED BY <1>2, <2>2, <3>2, <3>3, <3>5, <3>6 DEF CursorBehind, ClosedIsBlank
  <2>4. CASE tail' = FALSE /\ dbUnavailable' = TRUE /\ UNCHANGED <<phase, shown, lastSeq>>
    BY <1>2, <2>1, <2>2, <2>4
       DEF PageTypeOK, ShownUpToCursor, Open_, CursorBehind, ClosedIsBlank
  <2> QED BY <1>8, <2>3, <2>4 DEF Tick
<1>9. CASE CheckRow
  <2>1. /\ phase = "checking" /\ phase' \in {"done", "rest"}
        /\ tail' \in BOOLEAN /\ dbUnavailable' \in BOOLEAN
        /\ dbUnavailable => dbUnavailable'
        /\ UNCHANGED <<runId, row, mountNow, shown, lastSeq>>
    BY <1>9 DEF CheckRow, PageTypeOK
  <2> QED BY <1>2, <2>1 DEF PageTypeOK, Phase, ShownUpToCursor, Open_, CursorBehind,
                            ClosedIsBlank
<1>10. CASE RereadRow
  <2>1. /\ phase = "done" /\ phase' = "reloading" /\ runId \in Run
        /\ dbUnavailable' \in BOOLEAN
        /\ dbUnavailable => dbUnavailable'
        /\ UNCHANGED <<runId, mountNow, shown, lastSeq, tail>>
    BY <1>10 DEF RereadRow, PageTypeOK
  <2>2. row' \in RunRow
    BY <1>3, <1>10, <2>1 DEF RereadRow, PageTypeOK
  <2> QED BY <1>2, <2>1, <2>2 DEF PageTypeOK, Phase, ShownUpToCursor, Open_,
                                  CursorBehind, ClosedIsBlank
<1>11. CASE Close
  BY <1>4, <1>11, RunFacts DEF Close, PageTypeOK, Phase, ShownUpToCursor, Open_,
                               CursorBehind, ClosedIsBlank
<1> QED BY <1>6, <1>7, <1>8, <1>9, <1>10, <1>11 DEF PageStep

(* In every state of the CLI and of the page, cursor and screen agree and   *)
(* no event behind the cursor can still appear.                             *)
THEOREM DetailInvariant == DetailSpec => []DetailInv
<1>1. DetailInit => DetailInv
  BY DetailInitInv
<1>2. DetailInv /\ [DetailNext]_detailVars => DetailInv'
  <2> SUFFICES ASSUME DetailInv, [DetailNext]_detailVars PROVE DetailInv'
    OBVIOUS
  <2>1. CASE UNCHANGED detailVars
    BY <2>1, AgentsKeepPage DEF detailVars, agentVars
  <2>2. CASE DetailNext
    BY <2>2, AgentsKeepPage, PageStepsKeepInv DEF DetailNext
  <2> QED BY <2>1, <2>2
<1> QED BY <1>1, <1>2, PTL DEF DetailSpec

(* The page's assigns keep their types, its cursor included. *)
THEOREM PageTyped == DetailSpec => []PageTypeOK
<1>1. DetailInv => PageTypeOK
  BY DEF DetailInv
<1> QED BY <1>1, DetailInvariant, PTL

(* Whatever the run writes between two of its reads and whatever fails, a   *)
(* page that is not degraded shows exactly the events up to its cursor: no  *)
(* event is skipped, none is shown that is not in the transcript.           *)
THEOREM PageShowsPrefix == DetailSpec => []ShownUpToCursor
<1>1. DetailInv => ShownUpToCursor
  BY DEF DetailInv
<1> QED BY <1>1, DetailInvariant, PTL
-----------------------------------------------------------------------------
(* The refinement: for every run, the page is a reader of its feed.         *)

(* The log, as TranscriptView sees it, grows behind its end. *)
LEMMA LogWrites ==
  ASSUME RunInv, [Next]_vars, NEW r \in Run, log'[r] # log[r]
  PROVE  \E e \in log'[r] \ log[r] :
           /\ log'[r] = log[r] \cup {e}
           /\ \A f \in log[r] : f.seq < e.seq
<1>1. PICK e : e.seq = nextSeq[r] /\ log'[r] = log[r] \cup {e}
  BY LogGrows
<1>2. \A f \in log[r] : f.seq < nextSeq[r]
  BY LogHasLast
<1>3. nextSeq[r] \in Nat
  BY DEF RunInv, TypeOK
<1>4. e \notin log[r]
  BY <1>1, <1>2, <1>3
<1> QED BY <1>1, <1>2, <1>4

(* A step of the CLI is, for a reader of run r, an event that is written    *)
(* or nothing.                                                              *)
LEMMA AgentsImplementView ==
  ASSUME DetailInv, [Next]_vars, UNCHANGED page, NEW r \in Run
  PROVE  View(r)!Next \/ UNCHANGED View(r)!view
<1>1. CASE log'[r] = log[r]
  BY <1>1 DEF page, View!view
<1>2. CASE log'[r] # log[r]
  <2>1. View(r)!Write
    BY <1>2, LogWrites DEF page, View!Write, DetailInv
  <2> QED BY <2>1 DEF View!Next
<1> QED BY <1>1, <1>2

(* A step of the page is, for a reader of run r, an opening, a showing, a   *)
(* giving up, a closing or nothing.                                         *)
LEMMA PageImplementsViewStep ==
  ASSUME DetailInv, DetailInv', NEW r \in Run,
         (\E q \in Run : Open(q)) \/ PageStep \/ Close
  PROVE  View(r)!Next \/ UNCHANGED View(r)!view
<1> USE DEF DetailInv
<1>1. log' = log
  BY DEF PageStep, Open, LoadEvents, Tick, CheckRow, RereadRow, Close,
         agentVars, vars, tables
<1>2. CASE runId # r /\ runId' # r
  BY <1>1, <1>2 DEF View!view
<1>3. PageStep => runId' = runId
  BY DEF PageStep, LoadEvents, Tick, CheckRow, RereadRow
<1>4. NoRun # r
  BY RunFacts
<1>5. CASE runId # r /\ runId' = r
  <2>1. Open(r)
    <3>1. ~Close
      BY <1>4, <1>5 DEF Close
    <3>2. \A q \in Run : Open(q) => runId' = q
      BY DEF Open
    <3> QED BY <1>3, <1>5, <3>1, <3>2
  <2>2. shown' = {}
    BY <2>1 DEF Open, ClosedIsBlank
  <2>3. CASE dbUnavailable' = FALSE
    BY <1>1, <1>5, <2>2, <2>3 DEF View!Next, View!Attach
  <2>4. CASE dbUnavailable' = TRUE
    BY <1>1, <1>5, <2>2, <2>4 DEF View!Next, View!Lose
  <2> QED BY <2>1, <2>3, <2>4 DEF Open
<1>6. CASE runId = r /\ runId' # r
  BY <1>1, <1>6 DEF View!Next, View!Detach
<1>7. CASE runId = r /\ runId' = r
  <2>1. PageStep
    <3>1. ~Close
      BY <1>4, <1>7 DEF Close
    <3>2. phase # "closed" \/ PageStep
      <4>1. CASE phase = "closed"
        <5>1. runId = NoRun
          BY <4>1 DEF ClosedIsBlank
        <5> QED BY <1>4, <1>7, <5>1
      <4> QED BY <4>1
    <3> QED BY <3>1, <3>2 DEF Open
  <2>2. phase # "closed" /\ phase' # "closed"
    BY <2>1 DEF PageStep, LoadEvents, Tick, CheckRow, RereadRow
  <2>3. dbUnavailable \in BOOLEAN /\ dbUnavailable' \in BOOLEAN
    BY DEF PageTypeOK
  <2>4. dbUnavailable => dbUnavailable'
    BY <2>1 DEF PageStep, LoadEvents, Tick, CheckRow, RereadRow
  <2>5. CASE dbUnavailable
    BY <1>1, <1>7, <2>4, <2>5 DEF View!view
  <2>6. CASE ~dbUnavailable /\ dbUnavailable'
    BY <1>1, <1>7, <2>6 DEF View!Next, View!Lose
  <2>7. CASE ~dbUnavailable /\ ~dbUnavailable'
    <3>1. /\ shown = {e \in log[r] : e.seq <= lastSeq}
          /\ shown' = {e \in log[r] : e.seq <= lastSeq'}
      BY <1>1, <1>7, <2>2, <2>7 DEF ShownUpToCursor, Open_
    <3>2. shown \subseteq shown'
      <4>1. CASE LoadEvents
        BY <1>7, <2>3, <2>7, <3>1, <4>1 DEF LoadEvents
      <4>2. CASE Tick
        BY <2>3, <2>7, <4>2 DEF Tick
      <4>3. CASE CheckRow \/ RereadRow
        BY <4>3 DEF CheckRow, RereadRow
      <4> QED BY <2>1, <4>1, <4>2, <4>3 DEF PageStep
    <3>3. \A e \in shown', f \in log[r] : f.seq < e.seq => f \in shown'
      <4>1. \A e \in log[r] : e.seq \in Nat
        BY LogHasLast, EventFields
      <4>2. lastSeq' \in Int
        BY DEF PageTypeOK
      <4> QED BY <3>1, <4>1, <4>2
    <3>4. View(r)!Advance
      BY <1>1, <1>7, <2>7, <3>1, <3>2, <3>3 DEF View!Advance, View!InitialSegment
    <3> QED BY <3>4 DEF View!Next
  <2> QED BY <2>3, <2>5, <2>6, <2>7
<1> QED BY <1>2, <1>5, <1>6, <1>7

(* The page is a reader of every run's feed as TranscriptView describes     *)
(* one: while it is attached and not degraded it shows an initial segment   *)
(* of the transcript that only grows, whatever the run writes in between.   *)
THEOREM PageImplementsView == DetailSpec => ImplementsView
<1>1. DetailInit => \A r \in Run : View(r)!Init
  BY RunFacts DEF DetailInit, Init, PageInit, View!Init
<1>2. DetailInv /\ DetailInv' /\ [DetailNext]_detailVars
        => [\A r \in Run : View(r)!Next \/ UNCHANGED View(r)!view]_detailVars
  <2> SUFFICES ASSUME DetailInv, DetailInv', [DetailNext]_detailVars
               PROVE  [\A r \in Run : View(r)!Next \/ UNCHANGED View(r)!view]_detailVars
    OBVIOUS
  <2>1. CASE UNCHANGED detailVars
    BY <2>1
  <2>2. CASE DetailNext
    BY <2>2, AgentsImplementView, PageImplementsViewStep DEF DetailNext
  <2> QED BY <2>1, <2>2
<1> QED BY <1>1, <1>2, DetailInvariant, PTL DEF DetailSpec, ImplementsView
-----------------------------------------------------------------------------
(* The settled page.  What the page cannot show is only what the run writes  *)
(* after the page has read a final row, so two facts are carried along: a    *)
(* row the page shows as final has stayed final, and a page that is past     *)
(* reading the events misses closing events only.                            *)

Closing == {"error", "run_end"}

RowStaysFinal == row.status \in Final => runId \in Run /\ runs[runId].status \in Final

MissesClosingOnly ==
  (Open_ /\ phase \in {"rest", "checking", "done"} /\ row.status \in Final) =>
    \A e \in log[runId] \ shown : e.kind \in Closing

SettledInv == DetailInv /\ RowInv /\ RowStaysFinal /\ MissesClosingOnly

(* After the row is final the run only writes closing events, and the row   *)
(* stays final.                                                             *)
LEMMA FinalRowCloses ==
  ASSUME RowInv, [Next]_vars, NEW r \in Run, runs[r].status \in Final
  PROVE  /\ runs'[r].status \in Final
         /\ \A e \in log'[r] \ log[r] : e.kind \in Closing
<1> USE DEF RowInv, RunInv
<1>1. /\ step[r] \notin Streams
      /\ runs[r].status \notin {"absent", "running"}
  BY DEF Phases, PhaseOf, Final
<1>2. ASSUME NEW q \in Run, NEW k \in Closing, NEW s, WriteEvent(q, k, s)
      PROVE  \A e \in log'[r] \ log[r] : e.kind \in Closing
  BY <1>2 DEF WriteEvent, TypeOK
<1>3. ASSUME NEW q \in Run \ {r}, RunnerStep(q)
      PROVE  UNCHANGED <<runs[r], log[r]>>
  BY <1>3, RunnerTouchesOne DEF Untouched
<1>4. CASE RunnerStep(r)
  <2>1. CASE ReportError(r) \/ WriteEnd(r)
    BY <1>2, <2>1 DEF ReportError, WriteEnd, Closing
  <2>2. CASE StreamEnds(r) \/ StreamThrows(r)
    BY <1>1, <2>2 DEF StreamEnds, StreamThrows, Streams
  <2>3. CASE Finish(r) \/ FinishFails(r)
    <3>1. FinalRow(r).status \in Final
      BY StatusFromResultType DEF FinalRow, TypeOK
    <3> QED BY <2>3, <3>1 DEF Finish, FinishFails, TypeOK
  <2>4. CASE OpenLog(r) \/ WriteMessage(r) \/ \E m \in Message : Receive(r, m)
    BY <1>1, <2>4 DEF OpenLog, WriteMessage, Receive, Streams
  <2> QED BY <1>4, <2>1, <2>2, <2>3, <2>4 DEF RunnerStep
<1>5. CASE \E c \in Cli : StartRun(c) \/ StartReplyLost(c)
  BY <1>1, <1>5 DEF StartRun, StartReplyLost, NextId, Present, TypeOK
<1>6. CASE \/ UNCHANGED vars \/ Age
           \/ \E c \in Cli : \/ StartFails(c) \/ NextAgent(c) \/ Exit(c) \/ Crash(c)
                             \/ \E n \in 1 .. MaxRoster : Launch(c, n)
  BY <1>6 DEF vars, tables, Age, StartFails, NextAgent, Exit, Crash, Launch
<1> QED BY <1>3, <1>4, <1>5, <1>6 DEF Next, AgentNext, CliStep

(* A row that is over stays so, and only closing events come behind it.     *)
LEMMA AgentsKeepSettled ==
  ASSUME SettledInv, [Next]_vars, UNCHANGED page
  PROVE  RowStaysFinal' /\ MissesClosingOnly'
<1> USE DEF SettledInv, page
<1>1. RowStaysFinal'
  BY FinalRowCloses DEF RowStaysFinal
<1>2. MissesClosingOnly'
  <2> SUFFICES ASSUME Open_, phase \in {"rest", "checking", "done"}, row.status \in Final,
                      NEW e \in log'[runId] \ shown
               PROVE  e.kind \in Closing
    BY DEF MissesClosingOnly, Open_
  <2>1. runId \in Run /\ runs[runId].status \in Final
    BY DEF RowStaysFinal
  <2>2. \A f \in log'[runId] \ log[runId] : f.kind \in Closing
    BY <2>1, FinalRowCloses
  <2> QED BY <2>2 DEF MissesClosingOnly
<1> QED BY <1>1, <1>2

(* A page that stops reading has read a row that is over before the         *)
(* events it showed last.                                                   *)
LEMMA PageKeepsSettled ==
  ASSUME SettledInv, DetailInv', (\E r \in Run : Open(r)) \/ PageStep \/ Close
  PROVE  RowStaysFinal' /\ MissesClosingOnly'
<1> USE DEF SettledInv
<1>1. log' = log /\ runs' = runs
  BY DEF PageStep, Open, LoadEvents, Tick, CheckRow, RereadRow, Close,
         agentVars, vars, tables
<1>2. NoRow.status \notin Final
  BY DEF NoRow, Final
<1>3. dbUnavailable \in BOOLEAN /\ dbUnavailable' \in BOOLEAN /\ PageTypeOK
  BY DEF DetailInv, PageTypeOK
<1>4. CASE \E r \in Run : Open(r)
  BY <1>1, <1>2, <1>4 DEF Open, RowStaysFinal, MissesClosingOnly, Open_
<1>5. CASE Close
  BY <1>1, <1>2, <1>5 DEF Close, RowStaysFinal, MissesClosingOnly, Open_
<1>6. CASE LoadEvents
  BY <1>1, <1>3, <1>6 DEF LoadEvents, RowStaysFinal, MissesClosingOnly, Open_
<1>7. CASE Tick
  BY <1>1, <1>3, <1>7 DEF Tick, RowStaysFinal, MissesClosingOnly, Open_
<1>8. CASE CheckRow
  BY <1>1, <1>3, <1>8 DEF CheckRow, RowStaysFinal, MissesClosingOnly, Open_
<1>9. CASE RereadRow
  BY <1>1, <1>3, <1>9 DEF RereadRow, RowStaysFinal, MissesClosingOnly, PageTypeOK
<1> QED BY <1>4, <1>5, <1>6, <1>7, <1>8, <1>9 DEF PageStep

(* A page that shows a final status shows the whole run, whatever the order *)
(* of the run's writes and of the page's reads: it reads the row before the *)
(* events, and the run writes its events before the row.                    *)
THEOREM PageSettles == DetailSpec => []SettledPageIsComplete
<1>1. DetailInit => SettledInv
  <2> SUFFICES ASSUME DetailInit PROVE SettledInv
    OBVIOUS
  <2>1. RowInv
    BY RowInit DEF DetailInit
  <2>2. RowStaysFinal /\ MissesClosingOnly
    BY DEF DetailInit, PageInit, NoRow, Final, RowStaysFinal, MissesClosingOnly, Open_
  <2> QED BY <2>1, <2>2, DetailInitInv DEF SettledInv
<1>2. SettledInv /\ DetailInv' /\ [DetailNext]_detailVars => SettledInv'
  <2> SUFFICES ASSUME SettledInv, DetailInv', [DetailNext]_detailVars PROVE SettledInv'
    OBVIOUS
  <2>1. [Next]_vars
    BY DEF DetailNext, detailVars, agentVars, PageStep, Open, LoadEvents, Tick,
           CheckRow, RereadRow, Close
  <2>2. RowInv'
    BY <2>1, RowStep DEF SettledInv
  <2>3. CASE UNCHANGED page
    BY <2>1, <2>2, <2>3, AgentsKeepSettled DEF SettledInv
  <2>4. CASE (\E r \in Run : Open(r)) \/ PageStep \/ Close
    BY <2>2, <2>4, PageKeepsSettled DEF SettledInv
  <2> QED BY <2>3, <2>4 DEF DetailNext, detailVars
<1>3. SettledInv => SettledPageIsComplete
  BY DEF SettledInv, MissesClosingOnly, SettledPageIsComplete, Closing
<1> QED BY <1>1, <1>2, <1>3, DetailInvariant, PTL DEF DetailSpec
=============================================================================
