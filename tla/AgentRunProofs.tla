-------------------------- MODULE AgentRunProofs --------------------------
(***************************************************************************)
(* Proofs about AgentRun for any number of processes, runs and agents, any *)
(* batches of events and any faults:                                       *)
(*                                                                         *)
(*   RunTyped           []TypeOK                                           *)
(*   RunSeqsAccounted   []SeqsAccountedFor                                 *)
(*   RunRowAgrees       []RowAgreesWithTranscript                          *)
(*   RunImplementsFeed  ImplementsFeed, the refinement of RunFeed          *)
(*                                                                         *)
(* TypeOK alone is not inductive: the kind of the next event is only known *)
(* to be one when the index into the message being projected is in range,  *)
(* and a roster stays a number only because a busy process has an agent    *)
(* left in it.  RowInv adds what a run has counted and where it stands,    *)
(* FeedInv how far it can get.                                             *)
(***************************************************************************)
EXTENDS AgentRun, DataLemmas, SequenceTheorems

(* The index into the message being projected is in range. *)
AtInMessage ==
  \A r \in Run : step[r] = "writing" =>
    /\ message[r] \in Message
    /\ at[r] \in 1 .. Len(message[r].kinds)

(* A process in a run has not counted that run's agent off its roster. *)
BusyHasAgent == \A c \in Cli : cli[c] = "busy" => todo[c] > 0

RunInv == TypeOK /\ AtInMessage /\ BusyHasAgent /\ SeqsAccountedFor

(* A message of an SDK stream has at least one event and an outcome.        *)
LEMMA MessageFields ==
  ASSUME NEW m \in Message
  PROVE  /\ m.kinds \in Seq(Kind) /\ Len(m.kinds) >= 1
         /\ m.outcome \in Outcome
<1>1. CASE m \in [kinds : Batches, outcome : {"none"}]
  <2>1. m.kinds \in Seq(BodyKind) /\ m.kinds # <<>>
    BY <1>1, BatchesAssumption
  <2>2. m.kinds \in Seq(Kind)
    <3>1. BodyKind \subseteq Kind
      BY DEF BodyKind, Kind
    <3> QED BY <2>1, <3>1
  <2> QED BY <1>1, <2>1, <2>2 DEF Outcome
<1>2. CASE m \in [kinds : {<<"result">>}, outcome : Outcome \ {"none"}]
  <2>1. m.kinds = <<"result">>
    BY <1>2
  <2> QED BY <1>2, <2>1 DEF Kind
<1> QED BY <1>1, <1>2 DEF Message

(* A result message ends its run in a final status.                         *)
LEMMA StatusFromResultType ==
  ASSUME NEW res \in Outcome
  PROVE  StatusFromResult(res) \in Final
BY DEF Outcome, StatusFromResult, Final

(* How many results of a message are errors is a number. *)
LEMMA NotedType ==
  ASSUME NEW m \in Message
  PROVE  Cardinality({i \in DOMAIN m.kinds : m.kinds[i] = "tool_error"}) \in Nat
<1>1. DOMAIN m.kinds = 1 .. Len(m.kinds) /\ Len(m.kinds) \in Int
  BY MessageFields
<1>2. IsFiniteSet(DOMAIN m.kinds)
  <2>1. IsFiniteSet(1 .. Len(m.kinds))
    BY <1>1, FS_Interval
  <2> QED BY <1>1, <2>1
<1> DEFINE D == {i \in DOMAIN m.kinds : m.kinds[i] = "tool_error"}
<1>3. IsFiniteSet(D)
  BY <1>2, FS_Subset
<1> QED BY <1>3, FS_CardinalityType

(* safeWrite stores the next event or loses it, and uses its number up.    *)
LEMMA WriteEventKeeps ==
  ASSUME TypeOK, SeqsAccountedFor, NEW r \in Run, NEW kind \in Kind,
         NEW status \in Final \cup {"none"}, WriteEvent(r, kind, status)
  PROVE  /\ log' \in [Run -> SUBSET RunEvent]
         /\ nextSeq' \in [Run -> Nat]
         /\ lost' \in [Run -> SUBSET Nat]
         /\ SeqsAccountedFor'
<1> DEFINE n == nextSeq[r]
           e == [seq |-> n, kind |-> kind, status |-> status]
<1>1. n \in Nat /\ e \in RunEvent /\ e.seq = n
  BY DEF TypeOK, RunEvent
<1>2. nextSeq' = [nextSeq EXCEPT ![r] = n + 1]
  BY DEF WriteEvent
<1>3. nextSeq' \in [Run -> Nat]
  BY <1>1, <1>2 DEF TypeOK
<1>4. /\ {f.seq : f \in log[r]} \cup lost[r] = 0 .. n - 1
      /\ {f.seq : f \in log[r]} \cap lost[r] = {}
      /\ \A f, g \in log[r] : f.seq = g.seq => f = g
  BY DEF SeqsAccountedFor
<1>5. 0 .. n = (0 .. n - 1) \cup {n} /\ n \notin 0 .. n - 1
  BY <1>1
<1>6. CASE log' = [log EXCEPT ![r] = @ \cup {e}] /\ UNCHANGED lost
  <2>1. log' \in [Run -> SUBSET RunEvent] /\ lost' \in [Run -> SUBSET Nat]
    BY <1>1, <1>6 DEF TypeOK
  <2>2. log'[r] = log[r] \cup {e} /\ lost'[r] = lost[r] /\ nextSeq'[r] = n + 1
    BY <1>2, <1>6 DEF TypeOK
  <2>3. {f.seq : f \in log'[r]} = {f.seq : f \in log[r]} \cup {n}
    BY <1>1, <2>2
  <2>4. n \notin {f.seq : f \in log[r]} /\ n \notin lost[r]
    BY <1>4, <1>5
  <2>5. nextSeq'[r] - 1 = n
    BY <1>1, <2>2
  <2>6. {f.seq : f \in log'[r]} \cup lost'[r] = 0 .. nextSeq'[r] - 1
    BY <1>4, <1>5, <2>2, <2>3, <2>5
  <2>7. {f.seq : f \in log'[r]} \cap lost'[r] = {}
    BY <1>4, <2>2, <2>3, <2>4
  <2>8. \A f, g \in log'[r] : f.seq = g.seq => f = g
    BY <1>1, <1>4, <2>2, <2>4
  <2>9. ASSUME NEW q \in Run, q # r
        PROVE  log'[q] = log[q] /\ lost'[q] = lost[q] /\ nextSeq'[q] = nextSeq[q]
    BY <1>2, <1>6, <2>9 DEF TypeOK
  <2>10. SeqsAccountedFor'
    BY <2>6, <2>7, <2>8, <2>9 DEF SeqsAccountedFor
  <2> QED BY <1>3, <2>1, <2>10
<1>7. CASE lost' = [lost EXCEPT ![r] = @ \cup {n}] /\ UNCHANGED log
  <2>1. log' \in [Run -> SUBSET RunEvent] /\ lost' \in [Run -> SUBSET Nat]
    BY <1>1, <1>7 DEF TypeOK
  <2>2. log'[r] = log[r] /\ lost'[r] = lost[r] \cup {n} /\ nextSeq'[r] = n + 1
    BY <1>2, <1>7 DEF TypeOK
  <2>3. nextSeq'[r] - 1 = n
    BY <1>1, <2>2
  <2>4. {f.seq : f \in log'[r]} \cup lost'[r] = 0 .. nextSeq'[r] - 1
    BY <1>4, <1>5, <2>2, <2>3
  <2>5. {f.seq : f \in log'[r]} \cap lost'[r] = {}
    BY <1>4, <1>5, <2>2
  <2>6. ASSUME NEW q \in Run, q # r
        PROVE  log'[q] = log[q] /\ lost'[q] = lost[q] /\ nextSeq'[q] = nextSeq[q]
    BY <1>2, <1>7, <2>6 DEF TypeOK
  <2>7. SeqsAccountedFor'
    BY <1>4, <2>2, <2>4, <2>5, <2>6 DEF SeqsAccountedFor
  <2> QED BY <1>3, <2>1, <2>7
<1> QED BY <1>6, <1>7 DEF WriteEvent

(* No run has a row and no event is written.                                *)
LEMMA InitInv == Init => RunInv
<1> SUFFICES ASSUME Init PROVE RunInv
  OBVIOUS
<1>1. TypeOK
  BY MaxRunsAssumption, RosterAssumption
     DEF Init, TypeOK, RunRow, RunStatus, Step, Outcome, NoRun
<1>2. AtInMessage
  BY DEF Init, AtInMessage
<1>3. SeqsAccountedFor
  BY DEF Init, SeqsAccountedFor
<1>4. BusyHasAgent
  BY DEF Init, BusyHasAgent
<1> QED BY <1>1, <1>2, <1>3, <1>4 DEF RunInv

(* The steps of the processes and of the clock write no event. *)
LEMMA CliStepInv ==
  ASSUME RunInv,
         \/ Age
         \/ \E c \in Cli : CliStep(c) \/ Crash(c) \/ \E n \in 1 .. MaxRoster : Launch(c, n)
  PROVE  RunInv'
<1> USE DEF RunInv
<1>1. UNCHANGED <<log, nextSeq, lost, message, at, result, warnings, caught>>
  BY DEF Age, CliStep, StartRun, StartFails, StartReplyLost, NextAgent,
         Exit, Crash, Launch,
         runnerVars, tables
<1>2. SeqsAccountedFor'
  BY <1>1 DEF SeqsAccountedFor
<1> SUFFICES TypeOK' /\ AtInMessage' /\ BusyHasAgent'
  BY <1>2
<1>3. CASE Age
  <2>1. now' \in 0 .. MaxRuns
    BY <1>3, MaxRunsAssumption DEF Age, Present, Run
  <2> QED BY <1>3, <2>1 DEF Age, tables, runnerVars, cliVars, TypeOK, AtInMessage, BusyHasAgent
<1>4. ASSUME NEW c \in Cli, NEW n \in 1 .. MaxRoster, Launch(c, n)
      PROVE  TypeOK' /\ AtInMessage' /\ BusyHasAgent'
  <2>1. cli' \in [Cli -> {"off", "ready", "busy", "exited"}]
        /\ todo' \in [Cli -> 0 .. MaxRoster]
    BY <1>4, RosterAssumption DEF Launch, TypeOK
  <2> QED BY <1>4, <2>1 DEF Launch, tables, runnerVars, TypeOK, AtInMessage, BusyHasAgent
<1>5. ASSUME NEW c \in Cli, StartRun(c) PROVE TypeOK' /\ AtInMessage' /\ BusyHasAgent'
  <2>1. PICK r \in Run :
          /\ runs' = [runs EXCEPT ![r].status = "running"]
          /\ step' = [step EXCEPT ![r] = "opening"]
          /\ cli' = [cli EXCEPT ![c] = "busy"]
          /\ current' = [current EXCEPT ![c] = r]
          /\ UNCHANGED <<log, now, todo>>
    BY <1>5 DEF StartRun
  <2>2. runs' \in [Run -> RunRow]
    <3>1. runs \in [Run -> RunRow] /\ runs[r] \in RunRow
      BY DEF TypeOK
    <3>2. [runs[r] EXCEPT !.status = "running"] \in RunRow
      BY <3>1 DEF RunRow, RunStatus
    <3>3. runs' = [runs EXCEPT ![r] = [runs[r] EXCEPT !.status = "running"]]
      BY <2>1
    <3> QED BY <3>1, <3>2, <3>3
  <2>3. step' \in [Run -> Step]
    BY <2>1 DEF TypeOK, Step
  <2>4. cli' \in [Cli -> {"off", "ready", "busy", "exited"}]
        /\ current' \in [Cli -> Run \cup {NoRun}]
    BY <2>1 DEF TypeOK
  <2>5. AtInMessage'
    BY <1>1, <2>1 DEF AtInMessage, TypeOK
  <2>6. BusyHasAgent'
    BY <1>5, <2>1 DEF BusyHasAgent, StartRun, TypeOK
  <2> QED BY <1>1, <2>1, <2>2, <2>3, <2>4, <2>5, <2>6 DEF TypeOK
<1>11. ASSUME NEW c \in Cli, StartReplyLost(c)
       PROVE  TypeOK' /\ AtInMessage' /\ BusyHasAgent'
  <2>1. PICK r \in Run :
          /\ todo[c] > 0
          /\ runs' = [runs EXCEPT ![r].status = "running"]
          /\ step' = [step EXCEPT ![r] = "orphan"]
          /\ todo' = [todo EXCEPT ![c] = @ - 1]
          /\ UNCHANGED <<log, now, cli, current>>
    BY <1>11 DEF StartReplyLost
  <2>2. runs' \in [Run -> RunRow]
    <3>1. runs \in [Run -> RunRow] /\ runs[r] \in RunRow
      BY DEF TypeOK
    <3>2. [runs[r] EXCEPT !.status = "running"] \in RunRow
      BY <3>1 DEF RunRow, RunStatus
    <3>3. runs' = [runs EXCEPT ![r] = [runs[r] EXCEPT !.status = "running"]]
      BY <2>1
    <3> QED BY <3>1, <3>2, <3>3
  <2>3. step' \in [Run -> Step]
    BY <2>1 DEF TypeOK, Step
  <2>4. todo' \in [Cli -> 0 .. MaxRoster]
    BY <2>1, RosterAssumption DEF TypeOK
  <2>5. AtInMessage'
    BY <1>1, <2>1 DEF AtInMessage, TypeOK
  <2>6. BusyHasAgent'
    <3>1. cli[c] = "ready"
      BY <1>11 DEF StartReplyLost
    <3>2. \A d \in Cli : cli'[d] = "busy" => todo'[d] = todo[d]
      BY <2>1, <3>1 DEF TypeOK
    <3> QED BY <2>1, <3>2 DEF BusyHasAgent
  <2> QED BY <1>1, <2>1, <2>2, <2>3, <2>4, <2>5, <2>6 DEF TypeOK
<1>6. ASSUME NEW c \in Cli, StartFails(c) \/ NextAgent(c) \/ Exit(c)
      PROVE  TypeOK' /\ AtInMessage' /\ BusyHasAgent'
  <2>1. cli' \in [Cli -> {"off", "ready", "busy", "exited"}]
        /\ current' \in [Cli -> Run \cup {NoRun}]
    BY <1>6 DEF StartFails, NextAgent, Exit, TypeOK
  <2>2. \/ todo' = todo
        \/ /\ todo' = [todo EXCEPT ![c] = @ - 1]
           /\ todo[c] > 0
    BY <1>6 DEF StartFails, NextAgent, Exit, BusyHasAgent
  <2>3. todo' \in [Cli -> 0 .. MaxRoster]
    BY <2>2, RosterAssumption DEF TypeOK
  <2>4. BusyHasAgent'
    <3>1. ASSUME NEW d \in Cli, cli'[d] = "busy" PROVE cli[d] = "busy" /\ todo'[d] = todo[d]
      BY <1>6, <3>1 DEF StartFails, NextAgent, Exit, TypeOK
    <3> QED BY <3>1 DEF BusyHasAgent
  <2>5. AtInMessage'
    BY <1>6 DEF StartFails, NextAgent, Exit, tables, runnerVars, AtInMessage
  <2> QED BY <1>6, <2>1, <2>3, <2>4, <2>5
          DEF StartFails, NextAgent, Exit, tables, runnerVars, TypeOK
<1>7. ASSUME NEW c \in Cli, Crash(c) PROVE TypeOK' /\ AtInMessage' /\ BusyHasAgent'
  <2>1. cli' \in [Cli -> {"off", "ready", "busy", "exited"}]
    BY <1>7 DEF Crash, TypeOK
  <2>2. step' \in [Run -> Step]
        /\ \A r \in Run : step'[r] = "writing" => step[r] = "writing"
    BY <1>7 DEF Crash, TypeOK, Step
  <2> QED BY <1>7, <2>1, <2>2 DEF Crash, tables, TypeOK, AtInMessage, BusyHasAgent
<1> QED BY <1>3, <1>4, <1>5, <1>6, <1>7, <1>11 DEF CliStep

(* What the steps of a run leave to be shown, once the process is untouched. *)
LEMMA RunnerStepInv ==
  ASSUME RunInv, NEW r \in Run, RunnerStep(r)
  PROVE  RunInv'
<1> USE DEF RunInv
<1> DEFINE Typed == /\ runs' \in [Run -> RunRow]
                    /\ step' \in [Run -> Step]
                    /\ message' \in [Run -> Message \cup {NoMessage}]
                    /\ at' \in [Run -> Nat]
                    /\ result' \in [Run -> Outcome]
                    /\ warnings' \in [Run -> Nat]
                    /\ caught' \in [Run -> BOOLEAN]
           Stored == /\ log' \in [Run -> SUBSET RunEvent]
                     /\ nextSeq' \in [Run -> Nat]
                     /\ lost' \in [Run -> SUBSET Nat]
                     /\ SeqsAccountedFor'
<1>1. UNCHANGED <<now, cliVars>>
  BY DEF RunnerStep, OpenLog, Receive, WriteMessage, StreamEnds, StreamThrows,
         ReportError, WriteEnd, Finish, FinishFails
<1> SUFFICES Typed /\ Stored /\ AtInMessage'
  BY <1>1 DEF TypeOK, BusyHasAgent, cliVars
<1>2. ASSUME UNCHANGED <<log, nextSeq, lost>> PROVE Stored
  BY <1>2 DEF TypeOK, SeqsAccountedFor
<1>3. ASSUME NEW k \in Kind, NEW s \in Final \cup {"none"}, WriteEvent(r, k, s)
      PROVE  Stored
  BY <1>3, WriteEventKeeps
<1>4. StatusFromResult(result[r]) \in Final
  BY StatusFromResultType DEF TypeOK
<1>5. FinalRow(r) \in RunRow
  BY <1>4 DEF FinalRow, RunRow, RunStatus, TypeOK
<1>6. CASE OpenLog(r)
  <2>1. "run_start" \in Kind
    BY DEF Kind
  <2>2. Stored
    BY <1>3, <1>6, <2>1 DEF OpenLog
  <2>3. step' = [step EXCEPT ![r] = "streaming"]
        /\ UNCHANGED <<runs, message, at, result, warnings, caught>>
    BY <1>6 DEF OpenLog
  <2> QED BY <2>2, <2>3 DEF TypeOK, Step, AtInMessage
<1>7. ASSUME NEW m \in Message, Receive(r, m) PROVE Typed /\ Stored /\ AtInMessage'
  <2>1. /\ message' = [message EXCEPT ![r] = m]
        /\ at' = [at EXCEPT ![r] = 1]
        /\ step' = [step EXCEPT ![r] = "writing"]
        /\ UNCHANGED <<runs, log, nextSeq, result, warnings, caught, lost>>
    BY <1>7 DEF Receive, tables
  <2>2. 1 \in 1 .. Len(m.kinds)
    BY MessageFields
  <2>3. AtInMessage'
    BY <2>1, <2>2 DEF TypeOK, AtInMessage
  <2> QED BY <1>2, <2>1, <2>3 DEF TypeOK, Step
<1>8. CASE WriteMessage(r)
  <2> DEFINE m     == message[r]
             last  == at[r] = Len(m.kinds)
             noted == Cardinality({i \in DOMAIN m.kinds : m.kinds[i] = "tool_error"})
  <2>1. step[r] = "writing" /\ m \in Message /\ at[r] \in 1 .. Len(m.kinds)
    BY <1>8 DEF WriteMessage, AtInMessage
  <2>2. m.kinds[at[r]] \in Kind /\ m.outcome \in Outcome /\ Len(m.kinds) \in Nat
    BY <2>1, MessageFields
  <2>3. noted \in Nat
    BY <2>1, NotedType
  <2>4. Stored
    BY <1>3, <1>8, <2>2 DEF WriteMessage
  <2>5. /\ at' = [at EXCEPT ![r] = IF last THEN 1 ELSE @ + 1]
        /\ message' = [message EXCEPT ![r] = IF last THEN NoMessage ELSE @]
        /\ warnings' = [warnings EXCEPT ![r] = IF last THEN @ + noted ELSE @]
        /\ result' = [result EXCEPT ![r] = IF last THEN m.outcome ELSE @]
        /\ step' = [step EXCEPT ![r] = IF last THEN "streaming" ELSE @]
        /\ UNCHANGED <<runs, caught>>
    BY <1>8 DEF WriteMessage
  <2> HIDE DEF noted
  <2>6. at' \in [Run -> Nat] /\ warnings' \in [Run -> Nat]
    BY <2>3, <2>5 DEF TypeOK
  <2>7. message' \in [Run -> Message \cup {NoMessage}]
    BY <2>5 DEF TypeOK
  <2>8. result' \in [Run -> Outcome]
    BY <2>2, <2>5 DEF TypeOK
  <2>9. step' \in [Run -> Step]
    BY <2>5 DEF TypeOK, Step
  <2>10. ASSUME NEW q \in Run, step'[q] = "writing"
         PROVE  message'[q] \in Message /\ at'[q] \in 1 .. Len(message'[q].kinds)
    <3>1. CASE q # r
      BY <2>5, <2>10, <3>1 DEF TypeOK, AtInMessage
    <3>2. CASE q = r
      <4>1. ~last
        BY <2>5, <2>10, <3>2 DEF TypeOK
      <4>2. message'[r] = m /\ at'[r] = at[r] + 1
        BY <2>5, <4>1 DEF TypeOK
      <4> QED BY <2>1, <2>2, <3>2, <4>1, <4>2
    <3> QED BY <3>1, <3>2
  <2> QED BY <2>4, <2>5, <2>6, <2>7, <2>8, <2>9, <2>10 DEF TypeOK, AtInMessage
<1>9. CASE StreamEnds(r)
  <2>1. step' = [step EXCEPT ![r] = "ending"]
        /\ UNCHANGED <<runs, log, nextSeq, message, at, result, warnings, caught, lost>>
    BY <1>9 DEF StreamEnds, tables
  <2> QED BY <1>2, <2>1 DEF TypeOK, Step, AtInMessage
<1>10. ASSUME Catch(r), UNCHANGED <<message, at>>
       PROVE  /\ step' \in [Run -> Step]
              /\ caught' \in [Run -> BOOLEAN]
              /\ AtInMessage'
  <2>1. \/ step' = [step EXCEPT ![r] = "reporting"]
        \/ step' = [step EXCEPT ![r] = "ending"]
    BY <1>10 DEF Catch
  <2>2. caught' = [caught EXCEPT ![r] = TRUE]
    BY <1>10 DEF Catch
  <2>3. step' \in [Run -> Step] /\ caught' \in [Run -> BOOLEAN]
    BY <2>1, <2>2 DEF TypeOK, Step
  <2>4. AtInMessage'
    BY <1>10, <2>1 DEF TypeOK, AtInMessage
  <2> QED BY <2>3, <2>4
<1>11. CASE StreamThrows(r)
  <2>1. Catch(r) /\ UNCHANGED <<runs, log, nextSeq, message, at, result, warnings, lost>>
    BY <1>11 DEF StreamThrows, tables
  <2> QED BY <1>2, <1>10, <2>1 DEF TypeOK
<1>12. CASE ReportError(r)
  <2>1. "error" \in Kind
    BY DEF Kind
  <2>2. Stored
    BY <1>3, <1>12, <2>1 DEF ReportError
  <2>3. step' = [step EXCEPT ![r] = "ending"]
        /\ UNCHANGED <<runs, message, at, result, warnings, caught>>
    BY <1>12 DEF ReportError
  <2> QED BY <2>2, <2>3 DEF TypeOK, Step, AtInMessage
<1>13. CASE WriteEnd(r)
  <2>1. "run_end" \in Kind
    BY DEF Kind
  <2>2. Stored
    BY <1>3, <1>4, <1>13, <2>1 DEF WriteEnd
  <2>3. step' = [step EXCEPT ![r] = "finishing"]
        /\ UNCHANGED <<runs, message, at, result, warnings, caught>>
    BY <1>13 DEF WriteEnd
  <2> QED BY <2>2, <2>3 DEF TypeOK, Step, AtInMessage
<1>14. CASE Finish(r)
  <2>1. runs' = [runs EXCEPT ![r] = FinalRow(r)] /\ step' = [step EXCEPT ![r] = "over"]
        /\ UNCHANGED <<log, nextSeq, message, at, result, warnings, caught, lost>>
    BY <1>14 DEF Finish
  <2>2. runs' \in [Run -> RunRow]
    BY <1>5, <2>1 DEF TypeOK
  <2> QED BY <1>2, <2>1, <2>2 DEF TypeOK, Step, AtInMessage
<1>15. CASE FinishFails(r)
  <2>1. UNCHANGED <<log, nextSeq, message, at, result, warnings, lost>>
    BY <1>15 DEF FinishFails
  <2>2. runs' = runs \/ runs' = [runs EXCEPT ![r] = FinalRow(r)]
    BY <1>15 DEF FinishFails
  <2>3. runs' \in [Run -> RunRow]
    BY <1>5, <2>2 DEF TypeOK
  <2>4. CASE caught[r]
    <3>1. step' = [step EXCEPT ![r] = "over"] /\ UNCHANGED caught
      BY <1>15, <2>4 DEF FinishFails
    <3> QED BY <1>2, <2>1, <2>3, <3>1 DEF TypeOK, Step, AtInMessage
  <2>5. CASE ~caught[r]
    <3>1. Catch(r)
      BY <1>15, <2>5 DEF FinishFails
    <3> QED BY <1>2, <1>10, <2>1, <2>3, <3>1 DEF TypeOK
  <2> QED BY <2>4, <2>5
<1> QED BY <1>6, <1>7, <1>8, <1>9, <1>11, <1>12, <1>13, <1>14, <1>15 DEF RunnerStep

(* In every state of the CLI the types hold, a run that writes is inside    *)
(* its message, a busy process has an agent left, and the numbers of the    *)
(* transcript are accounted for.                                            *)
THEOREM RunInvariant == Spec => []RunInv
<1>1. Init => RunInv
  BY InitInv
<1>2. RunInv /\ [Next]_vars => RunInv'
  <2> SUFFICES ASSUME RunInv, [Next]_vars PROVE RunInv'
    OBVIOUS
  <2>1. CASE UNCHANGED vars
    BY <2>1 DEF vars, tables, runnerVars, cliVars, RunInv, TypeOK, AtInMessage,
                BusyHasAgent, SeqsAccountedFor
  <2>2. CASE Next
    BY <2>2, CliStepInv, RunnerStepInv DEF Next, AgentNext
  <2> QED BY <2>1, <2>2
<1> QED BY <1>1, <1>2, PTL DEF Spec

(* Every variable of the processes, of their runs and of the tables keeps   *)
(* its type; in particular a row's status is always one the CHECK of the    *)
(* runs table admits, and a finished row never gets a status of the SDK.    *)
THEOREM RunTyped == Spec => []TypeOK
<1>1. RunInv => TypeOK
  BY DEF RunInv
<1> QED BY <1>1, RunInvariant, PTL

(* For every number of processes, batches and faults: a run's sequence      *)
(* numbers are used once, in order, and each is a row or a lost write.      *)
THEOREM RunSeqsAccounted == Spec => []SeqsAccountedFor
<1>1. RunInv => SeqsAccountedFor
  BY DEF RunInv
<1> QED BY <1>1, RunInvariant, PTL
-----------------------------------------------------------------------------
(* The row and its transcript.  RowAgreesWithTranscript speaks of the moment *)
(* the row is final; what makes it true is spread over the whole run, so the *)
(* invariant follows the run: the transcript has as many failed tool results *)
(* as the run has counted, up to lost writes, at every event and not only at *)
(* the last of a message; until the stream is over there is no closing event *)
(* and from then on the result no longer changes.                            *)

(* The failed tool results among the first events of a message. *)
Failures(m, i) == {j \in DOMAIN m.kinds : j < i /\ m.kinds[j] = "tool_error"}

(* What the run has counted and what it will count once the message it is   *)
(* writing is through: the failed tool results it has tried to store.       *)
Tried(r) == warnings[r] + Cardinality(Failures(message[r], at[r]))

Counted(r) ==
  /\ IsFiniteSet(log[r]) /\ IsFiniteSet(lost[r])
  /\ CountWarnings(log[r]) <= Tried(r)
  /\ Tried(r) <= CountWarnings(log[r]) + Cardinality(lost[r])

WarningsCounted == \A r \in Run : Counted(r)

(* The transcript has its closing event, or its very write was lost. *)
Closed(r) ==
  \/ \E e \in log[r] : e.kind = "run_end"
  \/ \E n \in lost[r] : \A e \in log[r] :
       e.seq > n => e.kind \in {"error", "run_end"}

Streams == {"none", "opening", "streaming", "writing"}

PhaseOf(r) ==
  /\ runs[r].status = "absent" <=> step[r] = "none"
  /\ step[r] \notin {"writing", "dead"} => message[r] = NoMessage
  /\ \A e \in log[r] : e.kind = "run_end" => e.status = StatusFromResult(result[r])
  /\ step[r] \in Streams =>
       runs[r].status \notin Final /\ \A e \in log[r] : e.kind # "run_end"
  /\ step[r] \in {"finishing", "over"} => Closed(r)
  /\ runs[r].status \in Final =>
       Closed(r) /\ runs[r] = FinalRow(r) /\ message[r] = NoMessage

Phases == \A r \in Run : PhaseOf(r)

(* A busy process is in a run that has its row. *)
CurrentBegun == \A c \in Cli : cli[c] = "busy" => current[c] \in Present

RowInv == RunInv /\ WarningsCounted /\ Phases /\ CurrentBegun

(* One event more adds a tool error or none.                                *)
LEMMA FailuresCounted ==
  ASSUME NEW m \in Message, NEW i \in 1 .. Len(m.kinds)
  PROVE  /\ IsFiniteSet(Failures(m, i)) /\ IsFiniteSet(Failures(m, i + 1))
         /\ Cardinality(Failures(m, i)) \in Nat
         /\ Cardinality(Failures(m, i + 1)) =
              Cardinality(Failures(m, i)) + IF m.kinds[i] = "tool_error" THEN 1 ELSE 0
<1>1. m.kinds \in Seq(Kind) /\ DOMAIN m.kinds = 1 .. Len(m.kinds) /\ Len(m.kinds) \in Nat
  BY MessageFields
<1>2. IsFiniteSet(1 .. Len(m.kinds))
  BY <1>1, FS_Interval
<1>3. \A k : Failures(m, k) \in SUBSET (1 .. Len(m.kinds))
  BY <1>1 DEF Failures
<1>4. \A k : IsFiniteSet(Failures(m, k)) /\ Cardinality(Failures(m, k)) \in Nat
  BY <1>2, <1>3, FS_Subset, FS_CardinalityType
<1>5. CASE m.kinds[i] = "tool_error"
  <2>1. Failures(m, i + 1) = Failures(m, i) \cup {i} /\ i \notin Failures(m, i)
    BY <1>1, <1>5 DEF Failures
  <2>2. Cardinality(Failures(m, i) \cup {i}) = Cardinality(Failures(m, i)) + 1
    BY <1>4, <2>1, FS_AddElement
  <2> QED BY <1>4, <1>5, <2>1, <2>2
<1>6. CASE m.kinds[i] # "tool_error"
  <2>1. Failures(m, i + 1) = Failures(m, i)
    BY <1>1, <1>6 DEF Failures
  <2> QED BY <1>4, <1>6, <2>1
<1> QED BY <1>5, <1>6

(* Before a message nothing of it failed, and behind its last event         *)
(* everything that fails in it.                                             *)
LEMMA FailuresEnds ==
  ASSUME NEW m
  PROVE  /\ m \in Message => Failures(m, 1) = {}
         /\ m \in Message => Failures(m, Len(m.kinds) + 1) =
              {i \in DOMAIN m.kinds : m.kinds[i] = "tool_error"}
         /\ m = NoMessage => \A i : Failures(m, i) = {}
<1>1. ASSUME m \in Message PROVE DOMAIN m.kinds = 1 .. Len(m.kinds) /\ Len(m.kinds) \in Nat
  BY <1>1, MessageFields
<1>2. m = NoMessage => DOMAIN m.kinds = {}
  BY DEF NoMessage
<1> QED BY <1>1, <1>2 DEF Failures

(* A stored event is counted once, a lost one is among the lost. *)
LEMMA WriteEventCounts ==
  ASSUME TypeOK, SeqsAccountedFor, NEW r \in Run, NEW kind \in Kind,
         NEW status \in Final \cup {"none"}, WriteEvent(r, kind, status),
         IsFiniteSet(log[r]), IsFiniteSet(lost[r])
  PROVE  LET t == IF kind = "tool_error" THEN 1 ELSE 0
         IN  /\ IsFiniteSet(log'[r]) /\ IsFiniteSet(lost'[r])
             /\ CountWarnings(log[r]) \in Nat /\ CountWarnings(log'[r]) \in Nat
             /\ Cardinality(lost[r]) \in Nat /\ Cardinality(lost'[r]) \in Nat
             /\ CountWarnings(log'[r]) <= CountWarnings(log[r]) + t
             /\ CountWarnings(log[r]) + Cardinality(lost[r]) + t
                  <= CountWarnings(log'[r]) + Cardinality(lost'[r])
<1> DEFINE n == nextSeq[r]
           e == [seq |-> n, kind |-> kind, status |-> status]
           W(E) == {f \in E : f.kind = "tool_error"}
<1>1. \A E : IsFiniteSet(E) => IsFiniteSet(W(E)) /\ Cardinality(W(E)) \in Nat
  <2> SUFFICES ASSUME NEW E, IsFiniteSet(E) PROVE IsFiniteSet(W(E)) /\ Cardinality(W(E)) \in Nat
    OBVIOUS
  <2>1. W(E) \in SUBSET E
    OBVIOUS
  <2>2. IsFiniteSet(W(E))
    BY <2>1, FS_Subset
  <2> QED BY <2>2, FS_CardinalityType
<1>2. /\ IsFiniteSet(W(log[r])) /\ Cardinality(W(log[r])) \in Nat
      /\ Cardinality(lost[r]) \in Nat
  BY <1>1, FS_CardinalityType
<1>3. n \in Nat /\ n \notin {f.seq : f \in log[r]} /\ n \notin lost[r]
  <2>1. n \in Nat /\ n \notin 0 .. n - 1
    BY DEF TypeOK
  <2> QED BY <2>1 DEF SeqsAccountedFor
<1>4. e \notin log[r] /\ e.kind = kind
  BY <1>3
<1>5. \A E : CountWarnings(E) = Cardinality(W(E))
  BY DEF CountWarnings
<1>6. CASE log' = [log EXCEPT ![r] = @ \cup {e}] /\ UNCHANGED lost
  <2>1. log'[r] = log[r] \cup {e} /\ lost'[r] = lost[r]
    BY <1>6 DEF TypeOK
  <2>2. IsFiniteSet(log'[r])
    <3>1. IsFiniteSet(log[r] \cup {e})
      BY FS_AddElement
    <3> QED BY <2>1, <3>1
  <2>3. CASE kind = "tool_error"
    <3>1. W(log'[r]) = W(log[r]) \cup {e} /\ e \notin W(log[r])
      BY <1>4, <2>1, <2>3
    <3>2. Cardinality(W(log[r]) \cup {e}) = Cardinality(W(log[r])) + 1
      BY <1>2, <3>1, FS_AddElement
    <3>3. CountWarnings(log'[r]) = CountWarnings(log[r]) + 1 /\ CountWarnings(log[r]) \in Nat
      BY <1>2, <1>5, <3>1, <3>2
    <3> HIDE DEF e, W
    <3> QED BY <1>2, <2>1, <2>2, <2>3, <3>3
  <2>4. CASE kind # "tool_error"
    <3>1. W(log'[r]) = W(log[r])
      BY <1>4, <2>1, <2>4
    <3>2. CountWarnings(log'[r]) = CountWarnings(log[r]) /\ CountWarnings(log[r]) \in Nat
      BY <1>2, <1>5, <3>1
    <3> HIDE DEF e, W
    <3> QED BY <1>2, <2>1, <2>2, <2>4, <3>2
  <2> QED BY <2>3, <2>4
<1>7. CASE lost' = [lost EXCEPT ![r] = @ \cup {n}] /\ UNCHANGED log
  <2>1. log'[r] = log[r] /\ lost'[r] = lost[r] \cup {n}
    BY <1>7 DEF TypeOK
  <2>2. IsFiniteSet(lost[r] \cup {n}) /\ Cardinality(lost[r] \cup {n}) = Cardinality(lost[r]) + 1
    BY <1>3, FS_AddElement
  <2>3. CountWarnings(log[r]) \in Nat
    BY <1>2, <1>5
  <2> HIDE DEF n, W
  <2> QED BY <1>2, <2>1, <2>2, <2>3
<1> QED BY <1>6, <1>7 DEF WriteEvent

(* What one write does to the transcript of its run, and to no other. *)
LEMMA WriteEventAdds ==
  ASSUME TypeOK, SeqsAccountedFor, NEW r \in Run, NEW kind \in Kind,
         NEW status \in Final \cup {"none"}, WriteEvent(r, kind, status)
  PROVE  /\ \A q \in Run \ {r} : log'[q] = log[q] /\ lost'[q] = lost[q]
         /\ \A e \in log[r] : e.seq < nextSeq[r]
         /\ \/ /\ log'[r] = log[r] \cup {[seq |-> nextSeq[r], kind |-> kind, status |-> status]}
               /\ lost'[r] = lost[r]
            \/ log'[r] = log[r] /\ lost'[r] = lost[r] \cup {nextSeq[r]}
<1>1. nextSeq[r] \in Nat
  BY DEF TypeOK
<1>2. ASSUME NEW e \in log[r] PROVE e.seq < nextSeq[r]
  <2>1. e.seq \in 0 .. nextSeq[r] - 1
    BY DEF SeqsAccountedFor
  <2> QED BY <1>1, <2>1
<1> QED BY <1>2 DEF WriteEvent, TypeOK
(* A process that begins a run, ends one or dies changes no transcript. *)
LEMMA CliStepRow ==
  ASSUME RowInv,
         \/ Age
         \/ \E c \in Cli : CliStep(c) \/ Crash(c) \/ \E n \in 1 .. MaxRoster : Launch(c, n)
  PROVE  WarningsCounted' /\ Phases' /\ CurrentBegun'
<1> USE DEF RowInv, RunInv
<1>1. UNCHANGED <<log, nextSeq, lost, message, at, result, warnings, caught>>
  BY DEF Age, CliStep, StartRun, StartFails, StartReplyLost, NextAgent,
         Exit, Crash, Launch,
         runnerVars, tables
<1>2. WarningsCounted'
  BY <1>1 DEF WarningsCounted, Counted, Tried
<1>3. \A r \in Run : /\ Closed(r)' <=> Closed(r)
                     /\ FinalRow(r)' = FinalRow(r)
  BY <1>1 DEF Closed, FinalRow
<1>4. ASSUME UNCHANGED <<runs, step>> PROVE Phases'
  BY <1>1, <1>3, <1>4 DEF Phases, PhaseOf
<1>5. CASE Age
  BY <1>2, <1>4, <1>5 DEF Age, tables, runnerVars, cliVars, CurrentBegun, Present
<1>6. ASSUME NEW c \in Cli, NEW n \in 1 .. MaxRoster, Launch(c, n)
      PROVE  Phases' /\ CurrentBegun'
  BY <1>4, <1>6 DEF Launch, tables, runnerVars, CurrentBegun, Present, TypeOK
<1>7. ASSUME NEW c \in Cli, StartFails(c) \/ NextAgent(c) \/ Exit(c)
      PROVE  Phases' /\ CurrentBegun'
  <2>1. UNCHANGED <<runs, step>>
    BY <1>7 DEF StartFails, NextAgent, Exit, tables, runnerVars
  <2>2. CurrentBegun'
    BY <1>7, <2>1 DEF StartFails, NextAgent, Exit, CurrentBegun, Present, TypeOK
  <2> QED BY <1>4, <2>1, <2>2
<1>8. ASSUME NEW c \in Cli, StartRun(c) PROVE Phases' /\ CurrentBegun'
  <2>1. PICK r \in Run :
          /\ r \notin Present
          /\ runs' = [runs EXCEPT ![r].status = "running"]
          /\ step' = [step EXCEPT ![r] = "opening"]
          /\ cli' = [cli EXCEPT ![c] = "busy"]
          /\ current' = [current EXCEPT ![c] = r]
    BY <1>8 DEF StartRun, NextId
  <2>2. runs[r].status = "absent" /\ step[r] = "none"
    BY <2>1 DEF Present, Phases, PhaseOf
  <2>3. /\ \A q \in Run \ {r} : runs'[q] = runs[q] /\ step'[q] = step[q]
        /\ runs'[r].status = "running" /\ step'[r] = "opening"
    BY <2>1 DEF TypeOK, RunRow
  <2>4. Phases'
    BY <1>1, <1>3, <2>2, <2>3 DEF Phases, PhaseOf, Streams, Final
  <2>5. CurrentBegun'
    BY <2>1, <2>3 DEF CurrentBegun, Present, TypeOK
  <2> QED BY <2>4, <2>5
<1>10. ASSUME NEW c \in Cli, StartReplyLost(c) PROVE Phases' /\ CurrentBegun'
  <2>1. PICK r \in Run :
          /\ r \notin Present
          /\ runs' = [runs EXCEPT ![r].status = "running"]
          /\ step' = [step EXCEPT ![r] = "orphan"]
          /\ UNCHANGED <<cli, current>>
    BY <1>10 DEF StartReplyLost, NextId
  <2>2. runs[r].status = "absent" /\ step[r] = "none"
    BY <2>1 DEF Present, Phases, PhaseOf
  <2>3. /\ \A q \in Run \ {r} : runs'[q] = runs[q] /\ step'[q] = step[q]
        /\ runs'[r].status = "running" /\ step'[r] = "orphan"
    BY <2>1 DEF TypeOK, RunRow
  <2>4. Phases'
    BY <1>1, <1>3, <2>2, <2>3 DEF Phases, PhaseOf, Streams, Final
  <2>5. CurrentBegun'
    BY <2>1, <2>3 DEF CurrentBegun, Present, TypeOK
  <2> QED BY <2>4, <2>5
<1>9. ASSUME NEW c \in Cli, Crash(c) PROVE Phases' /\ CurrentBegun'
  <2>1. /\ cli' = [cli EXCEPT ![c] = "exited"]
        /\ step' = [r \in Run |-> IF cli[c] = "busy" /\ r = current[c]
                                  THEN "dead" ELSE step[r]]
        /\ UNCHANGED <<runs, current>>
    BY <1>9 DEF Crash, tables
  <2>2. ASSUME NEW r \in Run
        PROVE  \/ step'[r] = step[r]
               \/ step'[r] = "dead" /\ runs[r].status # "absent"
    BY <2>1 DEF CurrentBegun, Present
  <2>3. Phases'
    BY <1>1, <1>3, <2>1, <2>2 DEF Phases, PhaseOf, Streams
  <2>4. CurrentBegun'
    BY <2>1 DEF CurrentBegun, Present, TypeOK
  <2> QED BY <2>3, <2>4
<1> QED BY <1>2, <1>5, <1>6, <1>7, <1>8, <1>9, <1>10 DEF CliStep
(* A step of run r leaves the other runs as they are. *)
Untouched(q) ==
  UNCHANGED <<runs[q], log[q], step[q], message[q], at[q], result[q],
              warnings[q], lost[q], nextSeq[q], caught[q]>>

(* A step of run r leaves the other runs as they are.                       *)
LEMMA RunnerTouchesOne ==
  ASSUME RunInv, NEW r \in Run, RunnerStep(r), NEW q \in Run \ {r}
  PROVE  Untouched(q)
<1> USE DEF RunInv, Untouched, TypeOK
<1>1. ASSUME NEW k, NEW s, WriteEvent(r, k, s)
      PROVE  log'[q] = log[q] /\ lost'[q] = lost[q] /\ nextSeq'[q] = nextSeq[q]
  BY <1>1 DEF WriteEvent
<1>2. CASE OpenLog(r) \/ ReportError(r) \/ WriteEnd(r)
  BY <1>1, <1>2 DEF OpenLog, ReportError, WriteEnd
<1>3. CASE WriteMessage(r)
  <2>1. log'[q] = log[q] /\ lost'[q] = lost[q] /\ nextSeq'[q] = nextSeq[q]
    BY <1>1, <1>3 DEF WriteMessage
  <2> QED BY <1>3, <2>1 DEF WriteMessage
<1>4. CASE (\E m \in Message : Receive(r, m)) \/ StreamEnds(r) \/ Finish(r)
  BY <1>4 DEF Receive, StreamEnds, Finish, tables
<1>5. CASE StreamThrows(r) \/ FinishFails(r)
  BY <1>5 DEF StreamThrows, FinishFails, Catch, tables
<1> QED BY <1>2, <1>3, <1>4, <1>5 DEF RunnerStep

(* The count of a run that is not in the middle of a message. *)
LEMMA CountedBetween ==
  ASSUME NEW r \in Run, message[r] = NoMessage, warnings[r] \in Nat
  PROVE  Tried(r) = warnings[r]
<1>1. Failures(message[r], at[r]) = {}
  BY FailuresEnds
<1>2. Cardinality({}) = 0
  BY FS_EmptySet
<1> QED BY <1>1, <1>2 DEF Tried

(* Every step of runAgent keeps the warnings of its run equal to the tool   *)
(* errors written or lost, those of the message in hand included.           *)
LEMMA RunnerStepCounted ==
  ASSUME RunInv, RunInv', NEW r \in Run, Counted(r), PhaseOf(r), RunnerStep(r)
  PROVE  Counted(r)'
<1> USE DEF RunInv
<1>1. warnings[r] \in Nat /\ warnings'[r] \in Nat
  BY DEF TypeOK
<1>2. message[r] = NoMessage => Tried(r) = warnings[r]
  BY <1>1, CountedBetween
<1>3. message'[r] = NoMessage => Tried(r)' = warnings'[r]
  <2>1. ASSUME message'[r] = NoMessage PROVE Failures(message'[r], at'[r]) = {}
    BY <2>1, FailuresEnds
  <2>2. Cardinality({}) = 0
    BY FS_EmptySet
  <2> QED BY <1>1, <2>1, <2>2 DEF Tried
<1>4. ASSUME NEW k \in Kind \ {"tool_error"}, NEW s \in Final \cup {"none"},
             WriteEvent(r, k, s), message[r] = NoMessage, UNCHANGED <<message, warnings>>
      PROVE  Counted(r)'
  <2>1. Tried(r) = warnings[r] /\ Tried(r)' = warnings[r]
    BY <1>2, <1>3, <1>4
  <2>2. /\ IsFiniteSet(log'[r]) /\ IsFiniteSet(lost'[r])
        /\ CountWarnings(log[r]) \in Nat /\ CountWarnings(log'[r]) \in Nat
        /\ Cardinality(lost[r]) \in Nat /\ Cardinality(lost'[r]) \in Nat
        /\ CountWarnings(log'[r]) <= CountWarnings(log[r])
        /\ CountWarnings(log[r]) + Cardinality(lost[r])
             <= CountWarnings(log'[r]) + Cardinality(lost'[r])
    BY <1>4, WriteEventCounts DEF Counted
  <2> QED BY <1>1, <2>1, <2>2 DEF Counted
<1>5. CASE OpenLog(r)
  <2>1. "run_start" \in Kind \ {"tool_error"}
    BY DEF Kind
  <2> QED BY <1>4, <1>5, <2>1 DEF OpenLog, PhaseOf
<1>6. CASE ReportError(r)
  <2>1. "error" \in Kind \ {"tool_error"}
    BY DEF Kind
  <2> QED BY <1>4, <1>6, <2>1 DEF ReportError, PhaseOf
<1>7. CASE WriteEnd(r)
  <2>1. "run_end" \in Kind \ {"tool_error"}
    BY DEF Kind
  <2>2. StatusFromResult(result[r]) \in Final
    BY StatusFromResultType DEF TypeOK
  <2> QED BY <1>4, <1>7, <2>1, <2>2 DEF WriteEnd, PhaseOf
<1>8. ASSUME message[r] = NoMessage, UNCHANGED <<log, lost, message, warnings>>
      PROVE  Counted(r)'
  BY <1>2, <1>3, <1>8 DEF Counted
<1>9. CASE StreamEnds(r) \/ StreamThrows(r) \/ Finish(r) \/ FinishFails(r)
  BY <1>8, <1>9 DEF StreamEnds, StreamThrows, Finish, FinishFails, tables, PhaseOf
<1>10. ASSUME NEW m \in Message, Receive(r, m) PROVE Counted(r)'
  <2>1. /\ message'[r] = m /\ at'[r] = 1 /\ message[r] = NoMessage
        /\ UNCHANGED <<log, lost, warnings>>
    BY <1>10 DEF Receive, tables, PhaseOf, TypeOK
  <2>2. Failures(message'[r], at'[r]) = {} /\ Cardinality({}) = 0
    BY <2>1, FailuresEnds, FS_EmptySet
  <2>3. Tried(r)' = warnings[r] /\ Tried(r) = warnings[r]
    BY <1>1, <1>2, <2>1, <2>2 DEF Tried
  <2> QED BY <2>1, <2>3 DEF Counted
<1>11. CASE WriteMessage(r)
  <2> DEFINE m == message[r]
             k == m.kinds[at[r]]
             t == IF k = "tool_error" THEN 1 ELSE 0
             noted == Cardinality({i \in DOMAIN m.kinds : m.kinds[i] = "tool_error"})
  <2>1. m \in Message /\ at[r] \in 1 .. Len(m.kinds)
    BY <1>11 DEF WriteMessage, AtInMessage
  <2>2. k \in Kind
    BY <2>1, MessageFields
  <2>3. /\ IsFiniteSet(log'[r]) /\ IsFiniteSet(lost'[r])
        /\ CountWarnings(log[r]) \in Nat /\ CountWarnings(log'[r]) \in Nat
        /\ Cardinality(lost[r]) \in Nat /\ Cardinality(lost'[r]) \in Nat
        /\ CountWarnings(log'[r]) <= CountWarnings(log[r]) + t
        /\ CountWarnings(log[r]) + Cardinality(lost[r]) + t
             <= CountWarnings(log'[r]) + Cardinality(lost'[r])
    BY <1>11, <2>2, WriteEventCounts DEF WriteMessage, Counted
  <2>4. /\ Cardinality(Failures(m, at[r])) \in Nat
        /\ Cardinality(Failures(m, at[r] + 1)) = Cardinality(Failures(m, at[r])) + t
    BY <2>1, FailuresCounted
  <2>5. t \in Nat
    OBVIOUS
  <2>6. Tried(r)' = Tried(r) + t
    <3>1. CASE at[r] = Len(m.kinds)
      <4>1. message'[r] = NoMessage /\ warnings'[r] = warnings[r] + noted
        BY <1>11, <3>1 DEF WriteMessage, TypeOK
      <4>2. noted = Cardinality(Failures(m, at[r] + 1))
        BY <2>1, <3>1, FailuresEnds
      <4> HIDE DEF noted, t, m
      <4>3. Tried(r)' = warnings[r] + noted
        BY <1>3, <4>1
      <4>4. Tried(r) = warnings[r] + Cardinality(Failures(m, at[r]))
        BY DEF Tried, m
      <4> QED BY <1>1, <2>4, <2>5, <4>2, <4>3, <4>4
    <3>2. CASE at[r] # Len(m.kinds)
      <4>1. message'[r] = m /\ warnings'[r] = warnings[r] /\ at'[r] = at[r] + 1
        BY <1>11, <3>2 DEF WriteMessage, TypeOK
      <4> HIDE DEF noted, t
      <4>2. Tried(r)' = warnings[r] + Cardinality(Failures(m, at[r] + 1))
        BY <4>1 DEF Tried
      <4>3. Tried(r) = warnings[r] + Cardinality(Failures(m, at[r]))
        BY DEF Tried
      <4> HIDE DEF m
      <4> QED BY <1>1, <2>4, <2>5, <4>2, <4>3
    <3> QED BY <3>1, <3>2
  <2>7. Tried(r) \in Nat
    BY <1>1, <2>4 DEF Tried
  <2> HIDE DEF m, t
  <2> QED BY <2>3, <2>5, <2>6, <2>7 DEF Counted
<1> QED BY <1>5, <1>6, <1>7, <1>9, <1>10, <1>11 DEF RunnerStep

(* Every step of runAgent leads to a place of the run where its row, its    *)
(* transcript and its result fit together.                                  *)
LEMMA RunnerStepPhase ==
  ASSUME RunInv, NEW r \in Run, PhaseOf(r), RunnerStep(r)
  PROVE  PhaseOf(r)'
<1> USE DEF RunInv
<1>1. StatusFromResult(result[r]) \in Final
  BY StatusFromResultType DEF TypeOK
<1>2. ASSUME Closed(r), NEW k \in {"error", "run_end"}, NEW s \in Final \cup {"none"},
             WriteEvent(r, k, s)
      PROVE  Closed(r)'
  <2>1. k \in Kind
    BY <1>2 DEF Kind
  <2> QED BY <1>2, <2>1, WriteEventAdds DEF Closed
<1>3. CASE OpenLog(r)
  <2>1. /\ step[r] = "opening" /\ step'[r] = "streaming"
        /\ UNCHANGED <<runs, message, result, warnings>>
        /\ WriteEvent(r, "run_start", "none")
    BY <1>3 DEF OpenLog, TypeOK
  <2>2. \A e \in log'[r] : e \in log[r] \/ e.kind = "run_start"
    <3>1. "run_start" \in Kind
      BY DEF Kind
    <3> QED BY <2>1, <3>1, WriteEventAdds
  <2> QED BY <2>1, <2>2 DEF PhaseOf, Streams
<1>4. ASSUME NEW m \in Message, Receive(r, m) PROVE PhaseOf(r)'
  <2>1. /\ step[r] = "streaming" /\ step'[r] = "writing"
        /\ UNCHANGED <<runs, log, result, warnings>>
    BY <1>4 DEF Receive, tables, TypeOK
  <2> QED BY <2>1 DEF PhaseOf, Streams
<1>5. CASE WriteMessage(r)
  <2> DEFINE m == message[r]
             k == m.kinds[at[r]]
  <2>1. /\ m \in Message /\ at[r] \in 1 .. Len(m.kinds)
        /\ step[r] = "writing" /\ runs' = runs
        /\ WriteEvent(r, k, "none")
    BY <1>5 DEF WriteMessage, AtInMessage
  <2>2. k \in Kind /\ k # "run_end"
    <3>1. m.kinds \in Seq(BodyKind) \/ m.kinds = <<"result">>
      BY <2>1, BatchesAssumption DEF Message
    <3> QED BY <2>1, <3>1 DEF BodyKind, Kind
  <2>3. \A e \in log'[r] : e.kind # "run_end"
    BY <2>1, <2>2, WriteEventAdds DEF PhaseOf, Streams
  <2>4. \/ step'[r] = "writing"
        \/ step'[r] = "streaming" /\ message'[r] = NoMessage
    BY <1>5, <2>1 DEF WriteMessage, TypeOK
  <2> HIDE DEF m, k
  <2> QED BY <2>1, <2>3, <2>4 DEF PhaseOf, Streams
<1>6. CASE StreamEnds(r)
  <2>1. /\ step[r] = "streaming" /\ step'[r] = "ending"
        /\ UNCHANGED <<runs, log, message, result, warnings>>
    BY <1>6 DEF StreamEnds, tables, TypeOK
  <2> QED BY <2>1 DEF PhaseOf, Streams
<1>7. CASE StreamThrows(r)
  <2>1. /\ step[r] = "streaming" /\ step'[r] \in {"reporting", "ending"}
        /\ UNCHANGED <<runs, log, message, result, warnings>>
    BY <1>7 DEF StreamThrows, Catch, tables, TypeOK
  <2> QED BY <2>1 DEF PhaseOf, Streams
<1>8. CASE ReportError(r)
  <2>1. /\ step[r] = "reporting" /\ step'[r] = "ending"
        /\ UNCHANGED <<runs, message, result, warnings>>
        /\ WriteEvent(r, "error", "none")
    BY <1>8 DEF ReportError, TypeOK
  <2>2. \A e \in log'[r] : e \in log[r] \/ e.kind = "error"
    <3>1. "error" \in Kind
      BY DEF Kind
    <3> QED BY <2>1, <3>1, WriteEventAdds
  <2>3. Closed(r) => Closed(r)'
    BY <1>2, <2>1
  <2> QED BY <2>1, <2>2, <2>3 DEF PhaseOf, Streams, FinalRow
<1>9. CASE WriteEnd(r)
  <2> DEFINE s == StatusFromResult(result[r])
  <2>1. /\ step[r] = "ending" /\ step'[r] = "finishing"
        /\ UNCHANGED <<runs, message, result, warnings>>
        /\ WriteEvent(r, "run_end", s)
    BY <1>9 DEF WriteEnd, TypeOK
  <2>2. "run_end" \in Kind
    BY DEF Kind
  <2>3. \A e \in log'[r] : e \in log[r] \/ (e.kind = "run_end" /\ e.status = s)
    BY <1>1, <2>1, <2>2, WriteEventAdds
  <2>4. Closed(r)'
    <3>1. CASE \E e \in log'[r] : e.kind = "run_end"
      BY <3>1 DEF Closed
    <3>2. CASE ~ \E e \in log'[r] : e.kind = "run_end"
      <4>1. log'[r] = log[r] /\ nextSeq[r] \in lost'[r]
        <5> DEFINE e == [seq |-> nextSeq[r], kind |-> "run_end", status |-> s]
        <5>1. e.kind = "run_end"
          OBVIOUS
        <5>2. \/ log'[r] = log[r] \cup {e}
              \/ log'[r] = log[r] /\ lost'[r] = lost[r] \cup {nextSeq[r]}
          BY <1>1, <2>1, <2>2, WriteEventAdds
        <5> HIDE DEF e
        <5> QED BY <3>2, <5>1, <5>2
      <4>2. \A e \in log[r] : e.seq < nextSeq[r]
        BY <1>1, <2>1, <2>2, WriteEventAdds
      <4>3. \A e \in log[r] : e.seq \in Nat
        BY DEF TypeOK, RunEvent
      <4>4. \A e \in log'[r] : ~ (e.seq > nextSeq[r])
        BY <4>1, <4>2, <4>3 DEF TypeOK
      <4> QED BY <4>1, <4>4 DEF Closed
    <3> QED BY <3>1, <3>2
  <2> HIDE DEF s
  <2> QED BY <2>1, <2>3, <2>4 DEF PhaseOf, Streams, FinalRow, s
<1>10. ASSUME runs' = runs \/ runs' = [runs EXCEPT ![r] = FinalRow(r)],
              step[r] = "finishing", step'[r] \in {"over", "reporting", "ending"},
              UNCHANGED <<log, message, result, warnings, lost>>
       PROVE  PhaseOf(r)'
  <2>1. Closed(r)' /\ FinalRow(r)' = FinalRow(r)
    BY <1>10 DEF PhaseOf, Closed, FinalRow
  <2>2. runs'[r] = runs[r] \/ runs'[r] = FinalRow(r)
    BY <1>10 DEF TypeOK
  <2>3. FinalRow(r).status \in Final
    BY <1>1 DEF FinalRow
  <2> QED BY <1>10, <2>1, <2>2, <2>3 DEF PhaseOf, Streams, Final
<1>11. CASE Finish(r)
  BY <1>10, <1>11 DEF Finish, TypeOK
<1>12. CASE FinishFails(r)
  <2>1. step'[r] \in {"over", "reporting", "ending"}
    BY <1>12 DEF FinishFails, Catch, TypeOK
  <2> QED BY <1>10, <1>12, <2>1 DEF FinishFails
<1> QED BY <1>3, <1>4, <1>5, <1>6, <1>7, <1>8, <1>9, <1>11, <1>12 DEF RunnerStep

(* A step of one run keeps the row of every run and its transcript          *)
(* together.                                                                *)
LEMMA RunnerStepRow ==
  ASSUME RowInv, RunInv', NEW r \in Run, RunnerStep(r)
  PROVE  WarningsCounted' /\ Phases' /\ CurrentBegun'
<1> USE DEF RowInv
<1>1. \A q \in Run : Counted(q) /\ PhaseOf(q)
  BY DEF WarningsCounted, Phases
<1>2. ASSUME NEW q \in Run PROVE Counted(q)' /\ PhaseOf(q)'
  <2>1. CASE q = r
    BY <1>1, <2>1, RunnerStepCounted, RunnerStepPhase
  <2>2. CASE q # r
    <3>1. Untouched(q)
      BY <2>2, RunnerTouchesOne
    <3>2. Counted(q)'
      BY <1>1, <3>1 DEF Untouched, Counted, Tried
    <3>3. Closed(q)' = Closed(q) /\ FinalRow(q)' = FinalRow(q)
      BY <3>1 DEF Untouched, Closed, FinalRow
    <3>4. PhaseOf(q)'
      BY <1>1, <3>1, <3>3 DEF Untouched, PhaseOf
    <3> QED BY <3>2, <3>4
  <2> QED BY <2>1, <2>2
<1>3. WarningsCounted' /\ Phases'
  BY <1>2 DEF WarningsCounted, Phases
<1>4. CurrentBegun'
  <2>1. UNCHANGED <<cli, current>>
    BY DEF RunnerStep, OpenLog, Receive, WriteMessage, StreamEnds, StreamThrows,
           ReportError, WriteEnd, Finish, FinishFails, cliVars
  <2>2. \A q \in Run : runs[q].status # "absent" => runs'[q].status # "absent"
    <3>1. ASSUME NEW q \in Run, step[q] # "none" PROVE step'[q] # "none"
      <4>1. CASE q = r
        BY <3>1, <4>1 DEF RunnerStep, OpenLog, Receive, WriteMessage, StreamEnds,
               StreamThrows, ReportError, WriteEnd, Finish, FinishFails, Catch,
               RunInv, TypeOK
      <4>2. CASE q # r
        BY <3>1, <4>2, RunnerTouchesOne DEF Untouched
      <4> QED BY <4>1, <4>2
    <3> QED BY <1>1, <1>2, <3>1 DEF PhaseOf
  <2> QED BY <2>1, <2>2 DEF CurrentBegun, Present
<1> QED BY <1>3, <1>4

(* Every step of the CLI keeps rows and transcripts together.               *)
LEMMA RowStep ==
  ASSUME RowInv, [Next]_vars
  PROVE  RowInv'
<1>1. CASE UNCHANGED vars
  BY <1>1 DEF vars, tables, runnerVars, cliVars, RowInv, RunInv, TypeOK, AtInMessage,
              BusyHasAgent, SeqsAccountedFor, WarningsCounted, Counted, Tried, Phases, PhaseOf, Closed,
              FinalRow, CurrentBegun, Present
<1>2. CASE Next
  <2>1. RunInv'
    BY <1>2, CliStepInv, RunnerStepInv DEF Next, AgentNext, RowInv
  <2> QED BY <1>2, <2>1, CliStepRow, RunnerStepRow DEF Next, AgentNext, RowInv
<1> QED BY <1>1, <1>2

(* At the start no run has a row, so there is nothing to fit together.      *)
LEMMA RowInit ==
  ASSUME Init
  PROVE  RowInv
<1>1. RunInv
  BY InitInv
<1>2. WarningsCounted
  <2>1. ASSUME NEW r \in Run
        PROVE  /\ IsFiniteSet(log[r]) /\ IsFiniteSet(lost[r])
               /\ CountWarnings(log[r]) = 0 /\ Tried(r) = 0 /\ Cardinality(lost[r]) = 0
    <3>1. log[r] = {} /\ lost[r] = {} /\ message[r] = NoMessage /\ warnings[r] = 0
      BY DEF Init
    <3>2. IsFiniteSet({}) /\ Cardinality({}) = 0
      BY FS_EmptySet
    <3>3. {e \in log[r] : e.kind = "tool_error"} = {}
      BY <3>1
    <3>4. Tried(r) = 0
      BY <3>1, CountedBetween
    <3> QED BY <3>1, <3>2, <3>3, <3>4 DEF CountWarnings
  <2> QED BY <2>1 DEF WarningsCounted, Counted
<1>3. Phases
  BY DEF Init, Phases, PhaseOf, Streams, Final
<1>4. CurrentBegun
  BY DEF Init, CurrentBegun
<1> QED BY <1>1, <1>2, <1>3, <1>4 DEF RowInv

(* In every state of the CLI the row of a run, its transcript and its       *)
(* place in runAgent fit together.                                          *)
THEOREM RowInvariant == Spec => []RowInv
<1>1. Init => RowInv
  BY RowInit
<1>2. RowInv /\ [Next]_vars => RowInv'
  BY RowStep
<1> QED BY <1>1, <1>2, PTL DEF Spec

(* Whatever fails, a row that left `running` agrees with its transcript: it  *)
(* is closed by a run_end of the row's own status (or that very write was    *)
(* lost), and the row's warnings are the failed tool results stored, up to   *)
(* the writes that were lost.                                                *)
THEOREM RunRowAgrees == Spec => []RowAgreesWithTranscript
<1>1. RowInv => RowAgreesWithTranscript
  <2> SUFFICES ASSUME RowInv, NEW r \in Run, runs[r].status \in Final
               PROVE  /\ Closed(r)
                      /\ \A e \in log[r] : e.kind = "run_end" => e.status = runs[r].status
                      /\ CountWarnings(log[r]) <= runs[r].warnings
                      /\ runs[r].warnings <= CountWarnings(log[r]) + Cardinality(lost[r])
    BY DEF RowAgreesWithTranscript, Closed
  <2>1. /\ Closed(r) /\ runs[r] = FinalRow(r) /\ message[r] = NoMessage
        /\ \A e \in log[r] : e.kind = "run_end" => e.status = StatusFromResult(result[r])
    BY DEF RowInv, Phases, PhaseOf
  <2>2. Tried(r) = warnings[r]
    BY <2>1, CountedBetween DEF RowInv, RunInv, TypeOK
  <2> QED BY <2>1, <2>2 DEF RowInv, WarningsCounted, Counted, FinalRow
<1> QED BY <1>1, RowInvariant, PTL
-----------------------------------------------------------------------------
(* The refinement: AgentRun implements RunFeed.  Two things have to be known *)
(* beyond RowInv: how far a run's sequence numbers and its warnings can get, *)
(* because RunFeed bounds both, and that the rows still owed are finitely    *)
(* many, because their number is a Cardinality.                              *)

(* The sequence numbers a run may have used up, by where it stands. *)
Reach(r) ==
  /\ step[r] \in {"none", "opening"} => nextSeq[r] = 0
  /\ step[r] = "streaming" => nextSeq[r] <= MaxEvents + 1
  /\ step[r] = "writing" =>
       nextSeq[r] + Len(message[r].kinds) - at[r] + 1 <= MaxEvents
  /\ step[r] = "reporting" => nextSeq[r] <= MaxEvents + 2 /\ caught[r]
  /\ step[r] = "ending" =>
       nextSeq[r] <= IF caught[r] THEN MaxEvents + 3 ELSE MaxEvents + 1
  /\ step[r] = "finishing" =>
       nextSeq[r] <= IF caught[r] THEN MaxEvents + 4 ELSE MaxEvents + 2
  /\ step[r] \in Streams => ~caught[r]

(* A warning was counted for an event. *)
FewWarnings(r) ==
  /\ warnings[r] <= MaxEvents
  /\ step[r] \in {"none", "opening", "streaming"} => warnings[r] <= nextSeq[r]
  /\ step[r] = "writing" => warnings[r] + at[r] - 1 <= nextSeq[r]

WithinBounds == \A r \in Run : Reach(r) /\ FewWarnings(r)

OwedIsFinite == IsFiniteSet(Owed)

FeedInv == RowInv /\ WithinBounds /\ OwedIsFinite

(* No more failed results than kinds. *)
LEMMA NotedIsFew ==
  ASSUME NEW m \in Message
  PROVE  Cardinality({i \in DOMAIN m.kinds : m.kinds[i] = "tool_error"}) <= Len(m.kinds)
<1>1. DOMAIN m.kinds = 1 .. Len(m.kinds) /\ Len(m.kinds) \in Nat
  BY MessageFields
<1>2. IsFiniteSet(1 .. Len(m.kinds)) /\ Cardinality(1 .. Len(m.kinds)) = Len(m.kinds)
  <2>1. 1 \in Int /\ Len(m.kinds) \in Int
    BY <1>1
  <2>2. Cardinality(1 .. Len(m.kinds)) =
          IF 1 > Len(m.kinds) THEN 0 ELSE Len(m.kinds) - 1 + 1
    BY <2>1, FS_Interval
  <2> QED BY <1>1, <2>1, <2>2, FS_Interval
<1> DEFINE D == {i \in DOMAIN m.kinds : m.kinds[i] = "tool_error"}
<1>3. D \in SUBSET (1 .. Len(m.kinds))
  BY <1>1
<1> HIDE DEF D
<1>4. Cardinality(D) <= Cardinality(1 .. Len(m.kinds))
  BY <1>2, <1>3, FS_Subset
<1> QED BY <1>2, <1>4 DEF D

(* No step of runAgent writes beyond the bound on events, because a         *)
(* message has no more events than a batch.                                 *)
LEMMA RunnerStepBounds ==
  ASSUME RunInv, NEW r \in Run, Reach(r), FewWarnings(r), RunnerStep(r)
  PROVE  Reach(r)' /\ FewWarnings(r)'
<1> USE MaxEventsAssumption DEF RunInv
<1>1. nextSeq[r] \in Nat /\ warnings[r] \in Nat /\ at[r] \in Nat /\ caught[r] \in BOOLEAN
  BY DEF TypeOK
<1>2. ASSUME NEW k, NEW s, WriteEvent(r, k, s) PROVE nextSeq'[r] = nextSeq[r] + 1
  BY <1>2 DEF WriteEvent, TypeOK
<1>3. CASE OpenLog(r)
  <2>1. /\ step[r] = "opening" /\ step'[r] = "streaming" /\ nextSeq'[r] = nextSeq[r] + 1
        /\ UNCHANGED <<warnings, caught>>
    BY <1>2, <1>3 DEF OpenLog, TypeOK
  <2> QED BY <1>1, <2>1 DEF Reach, FewWarnings, Streams
<1>4. ASSUME NEW m \in Message, Receive(r, m) PROVE Reach(r)' /\ FewWarnings(r)'
  <2>1. /\ step[r] = "streaming" /\ step'[r] = "writing"
        /\ message'[r] = m /\ at'[r] = 1
        /\ nextSeq[r] + Len(m.kinds) <= MaxEvents
        /\ UNCHANGED <<nextSeq, warnings, caught>>
    BY <1>4 DEF Receive, TypeOK
  <2>2. Len(m.kinds) \in Nat
    BY MessageFields
  <2> QED BY <1>1, <2>1, <2>2 DEF Reach, FewWarnings, Streams
<1>5. CASE WriteMessage(r)
  <2> DEFINE m     == message[r]
             noted == Cardinality({i \in DOMAIN m.kinds : m.kinds[i] = "tool_error"})
  <2>1. /\ m \in Message /\ at[r] \in 1 .. Len(m.kinds) /\ step[r] = "writing"
        /\ nextSeq'[r] = nextSeq[r] + 1 /\ caught' = caught
    BY <1>2, <1>5 DEF WriteMessage, AtInMessage
  <2>2. Len(m.kinds) \in Nat /\ noted \in Nat /\ noted <= Len(m.kinds)
    BY <2>1, MessageFields, NotedType, NotedIsFew
  <2>3. CASE at[r] = Len(m.kinds)
    <3>1. /\ step'[r] = "streaming"
          /\ warnings'[r] = warnings[r] + noted
      BY <1>5, <2>3 DEF WriteMessage, TypeOK
    <3>2. /\ nextSeq[r] + Len(m.kinds) - at[r] + 1 <= MaxEvents
          /\ warnings[r] + at[r] - 1 <= nextSeq[r] /\ ~caught[r]
      BY <2>1 DEF Reach, FewWarnings, Streams
    <3>3. /\ nextSeq'[r] <= MaxEvents + 1
          /\ warnings'[r] <= MaxEvents /\ warnings'[r] <= nextSeq'[r]
          /\ ~caught'[r]
      <4> DEFINE l == Len(m.kinds)
      <4>1. l \in Nat /\ nextSeq[r] + l - at[r] + 1 <= MaxEvents /\ at[r] = l /\ noted <= l
        BY <2>2, <2>3, <3>2
      <4>2. nextSeq'[r] = nextSeq[r] + 1 /\ caught' = caught
        BY <2>1
      <4>3. noted \in Nat
        BY <2>2
      <4> HIDE DEF l, m, noted
      <4>4. nextSeq'[r] <= MaxEvents + 1
        BY <1>1, <4>1, <4>2
      <4>5. warnings'[r] <= nextSeq'[r] /\ warnings'[r] <= MaxEvents
        BY <1>1, <3>1, <3>2, <4>1, <4>2, <4>3
      <4> QED BY <3>2, <4>2, <4>4, <4>5
    <3> HIDE DEF m, noted
    <3> QED BY <3>1, <3>3 DEF Reach, FewWarnings, Streams
  <2>4. CASE at[r] # Len(m.kinds)
    <3>1. /\ step'[r] = "writing" /\ message'[r] = m /\ at'[r] = at[r] + 1
          /\ warnings'[r] = warnings[r]
      BY <1>5, <2>1, <2>4 DEF WriteMessage, TypeOK
    <3>2. /\ nextSeq[r] + Len(m.kinds) - at[r] + 1 <= MaxEvents
          /\ warnings[r] <= MaxEvents /\ warnings[r] + at[r] - 1 <= nextSeq[r]
          /\ ~caught[r]
      BY <2>1 DEF Reach, FewWarnings, Streams
    <3>3. /\ nextSeq'[r] + Len(message'[r].kinds) - at'[r] + 1 <= MaxEvents
          /\ warnings'[r] <= MaxEvents /\ warnings'[r] + at'[r] - 1 <= nextSeq'[r]
          /\ ~caught'[r]
      <4> DEFINE l == Len(m.kinds)
      <4>1. Len(message'[r].kinds) = l /\ l \in Nat /\ nextSeq[r] + l - at[r] + 1 <= MaxEvents
        BY <2>2, <3>1, <3>2
      <4>2. nextSeq'[r] = nextSeq[r] + 1 /\ at'[r] = at[r] + 1 /\ caught'[r] = caught[r]
        BY <2>1, <3>1
      <4> HIDE DEF l, m
      <4>3. nextSeq'[r] + l - at'[r] + 1 <= MaxEvents
        BY <1>1, <4>1, <4>2
      <4>4. warnings'[r] + at'[r] - 1 <= nextSeq'[r]
        BY <1>1, <3>1, <3>2, <4>2
      <4> QED BY <3>1, <3>2, <4>1, <4>2, <4>3, <4>4
    <3> HIDE DEF m, noted
    <3> QED BY <3>1, <3>3 DEF Reach, FewWarnings, Streams
  <2> QED BY <2>3, <2>4
<1>6. CASE StreamEnds(r)
  <2>1. /\ step[r] = "streaming" /\ step'[r] = "ending"
        /\ UNCHANGED <<nextSeq, warnings, caught>>
    BY <1>6 DEF StreamEnds, TypeOK
  <2> QED BY <1>1, <2>1 DEF Reach, FewWarnings, Streams
<1>7. CASE StreamThrows(r)
  <2>1. /\ step[r] = "streaming" /\ step'[r] \in {"reporting", "ending"} /\ caught'[r]
        /\ UNCHANGED <<nextSeq, warnings>>
    BY <1>7 DEF StreamThrows, Catch, TypeOK
  <2> QED BY <1>1, <2>1 DEF Reach, FewWarnings, Streams
<1>8. CASE ReportError(r)
  <2>1. /\ step[r] = "reporting" /\ step'[r] = "ending" /\ nextSeq'[r] = nextSeq[r] + 1
        /\ UNCHANGED <<warnings, caught>>
    BY <1>2, <1>8 DEF ReportError, TypeOK
  <2> QED BY <1>1, <2>1 DEF Reach, FewWarnings, Streams
<1>9. CASE WriteEnd(r)
  <2>1. /\ step[r] = "ending" /\ step'[r] = "finishing" /\ nextSeq'[r] = nextSeq[r] + 1
        /\ UNCHANGED <<warnings, caught>>
    BY <1>2, <1>9 DEF WriteEnd, TypeOK
  <2> QED BY <1>1, <2>1 DEF Reach, FewWarnings, Streams
<1>10. CASE Finish(r)
  <2>1. step'[r] = "over" /\ UNCHANGED <<nextSeq, warnings, caught>>
    BY <1>10 DEF Finish, TypeOK
  <2> QED BY <1>1, <2>1 DEF Reach, FewWarnings, Streams
<1>11. CASE FinishFails(r)
  <2>1. /\ step[r] = "finishing"
        /\ \/ step'[r] = "over"
           \/ ~caught[r] /\ step'[r] \in {"reporting", "ending"} /\ caught'[r]
        /\ UNCHANGED <<nextSeq, warnings>>
    BY <1>11 DEF FinishFails, Catch, TypeOK
  <2> QED BY <1>1, <2>1 DEF Reach, FewWarnings, Streams
<1> QED BY <1>3, <1>4, <1>5, <1>6, <1>7, <1>8, <1>9, <1>10, <1>11 DEF RunnerStep

(* Processes and the clock leave the bounds alone. *)
LEMMA CliStepBounds ==
  ASSUME RowInv, WithinBounds,
         \/ Age
         \/ \E c \in Cli : CliStep(c) \/ Crash(c) \/ \E n \in 1 .. MaxRoster : Launch(c, n)
  PROVE  WithinBounds'
<1> USE DEF RowInv, RunInv
<1>1. UNCHANGED <<nextSeq, message, at, warnings, caught>>
  BY DEF Age, CliStep, StartRun, StartFails, StartReplyLost, NextAgent,
         Exit, Crash, Launch,
         runnerVars, tables
<1>2. ASSUME NEW r \in Run
      PROVE  \/ step'[r] = step[r]
             \/ step[r] = "none" /\ step'[r] \in {"opening", "orphan"}
             \/ step'[r] = "dead"
  <2>1. CASE Age \/ \E c \in Cli : \/ StartFails(c) \/ NextAgent(c) \/ Exit(c)
                                   \/ \E n \in 1 .. MaxRoster : Launch(c, n)
    BY <2>1 DEF Age, StartFails, NextAgent, Exit, Launch, runnerVars
  <2>2. ASSUME NEW c \in Cli, StartRun(c) \/ StartReplyLost(c)
        PROVE  \/ step'[r] = step[r]
               \/ step[r] = "none" /\ step'[r] \in {"opening", "orphan"}
    BY <2>2 DEF StartRun, StartReplyLost, NextId, Present, Phases, PhaseOf, TypeOK
  <2>3. ASSUME NEW c \in Cli, Crash(c) PROVE step'[r] = step[r] \/ step'[r] = "dead"
    BY <2>3 DEF Crash
  <2> QED BY <2>1, <2>2, <2>3 DEF CliStep
<1> QED BY <1>1, <1>2 DEF WithinBounds, Reach, FewWarnings, Streams
(* How the rows owed change with what one process has not begun. *)
LEMMA OwedChange ==
  ASSUME TypeOK, TypeOK', BusyHasAgent, BusyHasAgent', IsFiniteSet(Owed),
         NEW c \in Cli, \A d \in Cli \ {c} : Unbegun(d)' = Unbegun(d)
  PROVE  /\ IsFiniteSet(Owed')
         /\ Cardinality(Owed) \in Nat
         /\ Unbegun(c) \in Nat /\ Unbegun(c)' \in Nat
         /\ Unbegun(c) <= Cardinality(Owed)
         /\ Cardinality(Owed)' = Cardinality(Owed) + Unbegun(c)' - Unbegun(c)
<1> DEFINE f == [d \in Cli |-> Unbegun(d)]
           g == [d \in Cli |-> Unbegun(d)']
<1>1. \A d \in Cli : Unbegun(d) \in 0 .. MaxRoster /\ Unbegun(d)' \in 0 .. MaxRoster
  BY RosterAssumption DEF Unbegun, TypeOK, BusyHasAgent
<1>2. /\ f \in [Cli -> 0 .. MaxRoster] /\ f[c] = Unbegun(c)
      /\ g \in [Cli -> 0 .. MaxRoster] /\ g[c] = Unbegun(c)'
      /\ \A d \in Cli \ {c} : g[d] = f[d]
  BY <1>1
<1>3. Owed = CellsUnder(Cli, MaxRoster, f)
  BY DEF Owed, CellsUnder
<1>4. Owed' = CellsUnder(Cli, MaxRoster, g)
  <2>1. Owed' = {p \in Cli \X (1 .. MaxRoster) : p[2] <= Unbegun(p[1])'}
    BY DEF Owed
  <2> QED BY <2>1 DEF CellsUnder
<1> HIDE DEF f, g
<1>5. /\ IsFiniteSet(CellsUnder(Cli, MaxRoster, g))
      /\ Cardinality(CellsUnder(Cli, MaxRoster, f)) \in Nat
      /\ f[c] <= Cardinality(CellsUnder(Cli, MaxRoster, f))
      /\ Cardinality(CellsUnder(Cli, MaxRoster, g)) =
           Cardinality(CellsUnder(Cli, MaxRoster, f)) + g[c] - f[c]
  <2>1. MaxRoster \in Nat /\ IsFiniteSet(CellsUnder(Cli, MaxRoster, f))
    BY <1>3, RosterAssumption
  <2> QED BY <1>2, <2>1, CellsChange
<1> QED BY <1>1, <1>2, <1>3, <1>4, <1>5

(* FeedInv is kept: the rows owed stay finitely many. *)
LEMMA OwedStaysFinite ==
  ASSUME RunInv, RunInv', IsFiniteSet(Owed), [Next]_vars
  PROVE  IsFiniteSet(Owed')
<1> USE DEF RunInv
<1>1. ASSUME UNCHANGED <<cli, todo>> PROVE IsFiniteSet(Owed')
  BY <1>1 DEF Owed, Unbegun
<1>2. ASSUME NEW c \in Cli,
             \A d \in Cli \ {c} : cli'[d] = cli[d] /\ todo'[d] = todo[d]
      PROVE  IsFiniteSet(Owed')
  <2>1. \A d \in Cli \ {c} : Unbegun(d)' = Unbegun(d)
    BY <1>2 DEF Unbegun
  <2> QED BY <2>1, OwedChange
<1>3. CASE UNCHANGED vars \/ Age \/ \E r \in Run : RunnerStep(r)
  BY <1>1, <1>3 DEF vars, cliVars, Age, RunnerStep, OpenLog, Receive, WriteMessage,
         StreamEnds, StreamThrows, ReportError, WriteEnd, Finish, FinishFails
<1>4. ASSUME NEW c \in Cli, NEW n \in 1 .. MaxRoster, Launch(c, n) PROVE IsFiniteSet(Owed')
  BY <1>2, <1>4 DEF Launch, TypeOK
<1>5. ASSUME NEW c \in Cli, CliStep(c) PROVE IsFiniteSet(Owed')
  BY <1>2, <1>5 DEF CliStep, StartRun, StartFails, StartReplyLost, NextAgent, Exit, TypeOK
<1>6. ASSUME NEW c \in Cli, Crash(c) PROVE IsFiniteSet(Owed')
  BY <1>2, <1>6 DEF Crash, TypeOK
<1> QED BY <1>3, <1>4, <1>5, <1>6 DEF Next, AgentNext

(* In every state the transcripts and warnings stay in the bounds RunFeed   *)
(* names, and finitely many agents are still owed a row.                    *)
THEOREM FeedInvariant == Spec => []FeedInv
<1>1. Init => WithinBounds /\ OwedIsFinite
  <2> SUFFICES ASSUME Init PROVE WithinBounds /\ OwedIsFinite
    OBVIOUS
  <2>1. WithinBounds
    BY MaxEventsAssumption DEF Init, WithinBounds, Reach, FewWarnings, Streams
  <2>2. \A c \in Cli : Unbegun(c) = 0
    BY DEF Init, Unbegun
  <2>3. Owed = {}
    BY <2>2 DEF Owed
  <2> QED BY <2>1, <2>3, FS_EmptySet DEF OwedIsFinite
<1>2. RowInv /\ RowInv' /\ WithinBounds /\ OwedIsFinite /\ [Next]_vars
        => WithinBounds' /\ OwedIsFinite'
  <2> SUFFICES ASSUME RowInv, RowInv', WithinBounds, OwedIsFinite, [Next]_vars
               PROVE  WithinBounds' /\ OwedIsFinite'
    OBVIOUS
  <2> USE DEF RowInv
  <2>1. OwedIsFinite'
    BY OwedStaysFinite DEF OwedIsFinite
  <2>2. CASE UNCHANGED vars
    BY <2>1, <2>2 DEF vars, runnerVars, WithinBounds, Reach, FewWarnings
  <2>3. ASSUME NEW r \in Run, RunnerStep(r) PROVE WithinBounds'
    <3>1. ASSUME NEW q \in Run, q # r PROVE Reach(q)' /\ FewWarnings(q)'
      <4>1. Untouched(q)
        BY <2>3, <3>1, RunnerTouchesOne
      <4> QED BY <3>1, <4>1 DEF WithinBounds, Untouched, Reach, FewWarnings
    <3>2. Reach(r)' /\ FewWarnings(r)'
      BY <2>3, RunnerStepBounds DEF WithinBounds
    <3> QED BY <3>1, <3>2 DEF WithinBounds
  <2>4. CASE Next
    BY <2>1, <2>3, <2>4, CliStepBounds DEF Next, AgentNext
  <2> QED BY <2>1, <2>2, <2>4
<1>3. FeedInv <=> RowInv /\ WithinBounds /\ OwedIsFinite
  BY DEF FeedInv
<1> QED BY <1>1, <1>2, <1>3, RowInvariant, PTL DEF Spec
(* What RunFeed sees of a run's step: an event, the end of the row, or      *)
(* nothing.                                                                 *)
LEMMA RunnerStepMaps ==
  ASSUME FeedInv, FeedInv', NEW r \in Run, RunnerStep(r)
  PROVE  [Feed!FeedNext]_(Feed!feedVars)
<1> USE DEF FeedInv, RowInv, RunInv
<1>1. UNCHANGED now /\ Owed' = Owed
  BY DEF RunnerStep, OpenLog, Receive, WriteMessage, StreamEnds, StreamThrows,
         ReportError, WriteEnd, Finish, FinishFails, cliVars, Owed, Unbegun
<1>2. r \in Feed!Run /\ Feed!Run = Run /\ nextSeq[r] \in Nat /\ MaxEvents \in Nat
  BY MaxEventsAssumption DEF Feed!Run, Run, TypeOK
<1>3. ASSUME UNCHANGED <<runs, log>> PROVE [Feed!FeedNext]_(Feed!feedVars)
  BY <1>1, <1>3 DEF Feed!feedVars
<1>4. Reach(r) /\ FewWarnings(r)
  BY DEF WithinBounds
<1>5. ASSUME NEW k \in Kind, NEW s \in Final \cup {"none"}, (k = "run_end") <=> (s # "none"),
             WriteEvent(r, k, s), nextSeq[r] <= MaxEvents + 6, UNCHANGED runs,
             step[r] # "none"
      PROVE  [Feed!FeedNext]_(Feed!feedVars)
  <2>1. CASE UNCHANGED log
    BY <1>3, <1>5, <2>1
  <2>2. CASE log' = [log EXCEPT ![r] = @ \cup {[seq |-> nextSeq[r], kind |-> k, status |-> s]}]
    <3>1. runs[r].status # "absent"
      BY <1>5 DEF Phases, PhaseOf
    <3>2. \A e \in log[r] : e.seq < nextSeq[r]
      BY <1>5, WriteEventAdds
    <3>3. nextSeq[r] \in 0 .. MaxEvents + 6
      BY <1>2, <1>5
    <3>4. Feed!AppendEvent(r)
      BY <1>1, <1>2, <1>5, <2>2, <3>1, <3>2, <3>3 DEF Feed!AppendEvent, Feed!Inserted
    <3> QED BY <1>2, <3>4 DEF Feed!FeedNext, Feed!FeedStep
  <2> QED BY <1>5, <2>1, <2>2 DEF WriteEvent
<1>6. CASE OpenLog(r)
  <2>1. "run_start" \in Kind /\ "run_start" # "run_end"
    BY DEF Kind
  <2> QED BY <1>2, <1>4, <1>5, <1>6, <2>1 DEF OpenLog, Reach
<1>7. CASE WriteMessage(r)
  <2> DEFINE m == message[r]
             k == m.kinds[at[r]]
  <2>1. m \in Message /\ at[r] \in 1 .. Len(m.kinds) /\ step[r] = "writing"
    BY <1>7 DEF WriteMessage, AtInMessage
  <2>2. k \in Kind /\ k # "run_end" /\ Len(m.kinds) \in Nat
    <3>1. m.kinds \in Seq(BodyKind) \/ m.kinds = <<"result">>
      BY <2>1, BatchesAssumption DEF Message
    <3> QED BY <2>1, <3>1 DEF BodyKind, Kind
  <2>3. nextSeq[r] <= MaxEvents
    <3> DEFINE l == Len(m.kinds)
    <3>1. nextSeq[r] + l - at[r] + 1 <= MaxEvents
      BY <1>4, <2>1 DEF Reach
    <3>2. l \in Nat /\ at[r] \in 1 .. l
      BY <2>1, <2>2
    <3> HIDE DEF l
    <3> QED BY <1>2, <3>1, <3>2
  <2>4. WriteEvent(r, k, "none") /\ UNCHANGED runs
    BY <1>7 DEF WriteMessage
  <2> HIDE DEF m, k
  <2> QED BY <1>2, <1>5, <2>1, <2>2, <2>3, <2>4
<1>8. CASE ReportError(r)
  <2>1. "error" \in Kind /\ "error" # "run_end"
    BY DEF Kind
  <2> QED BY <1>2, <1>4, <1>5, <1>8, <2>1 DEF ReportError, Reach
<1>9. CASE WriteEnd(r)
  <2>1. "run_end" \in Kind /\ StatusFromResult(result[r]) \in Final /\ "none" \notin Final
    BY StatusFromResultType DEF Kind, TypeOK, Final
  <2>2. nextSeq[r] <= MaxEvents + 6
    BY <1>2, <1>4, <1>9 DEF WriteEnd, Reach
  <2> QED BY <1>5, <1>9, <2>1, <2>2 DEF WriteEnd
<1>10. CASE (\E m \in Message : Receive(r, m)) \/ StreamEnds(r) \/ StreamThrows(r)
  BY <1>3, <1>10 DEF Receive, StreamEnds, StreamThrows, tables
<1>11. ASSUME runs' = [runs EXCEPT ![r] = FinalRow(r)], step[r] = "finishing", UNCHANGED log
       PROVE  [Feed!FeedNext]_(Feed!feedVars)
  <2>1. CASE runs[r].status = "running"
    <3>1. StatusFromResult(result[r]) \in Final
      BY StatusFromResultType DEF TypeOK
    <3>2. warnings[r] \in 0 .. MaxEvents
      BY <1>2, <1>4 DEF FewWarnings, TypeOK
    <3>3. Feed!Finish(r)
      BY <1>1, <1>11, <2>1, <3>1, <3>2 DEF Feed!Finish, FinalRow
    <3> QED BY <1>2, <3>3 DEF Feed!FeedNext, Feed!FeedStep
  <2>2. CASE runs[r].status \in Final
    <3>1. runs[r] = FinalRow(r)
      BY <2>2 DEF Phases, PhaseOf
    <3>2. runs' = runs
      BY <1>11, <3>1 DEF TypeOK
    <3> QED BY <1>3, <1>11, <3>2
  <2>3. runs[r].status # "absent"
    BY <1>11 DEF Phases, PhaseOf
  <2> QED BY <2>1, <2>2, <2>3 DEF TypeOK, RunRow, RunStatus
<1>12. CASE Finish(r)
  BY <1>11, <1>12 DEF Finish
<1>13. CASE FinishFails(r)
  BY <1>3, <1>11, <1>13 DEF FinishFails
<1> QED BY <1>6, <1>7, <1>8, <1>9, <1>10, <1>12, <1>13 DEF RunnerStep

(* What RunFeed sees of a process: the rows it owes. *)
LEMMA CliStepMaps ==
  ASSUME FeedInv, FeedInv',
         \/ Age
         \/ \E c \in Cli : CliStep(c) \/ Crash(c) \/ \E n \in 1 .. MaxRoster : Launch(c, n)
  PROVE  [Feed!FeedNext]_(Feed!feedVars)
<1> USE DEF FeedInv, RowInv, RunInv
<1>1. Feed!Run = Run /\ Feed!Inserted = Present
  BY DEF Feed!Run, Run, Feed!Inserted, Present
<1>2. CASE Age
  <2>1. Owed' = Owed
    BY <1>2 DEF Age, cliVars, Owed, Unbegun
  <2>2. Feed!Age
    BY <1>1, <1>2, <2>1 DEF Age, tables, Feed!Age
  <2> QED BY <2>2 DEF Feed!FeedNext, Feed!FeedStep
<1>3. ASSUME NEW c \in Cli,
             \A d \in Cli \ {c} : cli'[d] = cli[d] /\ todo'[d] = todo[d]
      PROVE  /\ Cardinality(Owed) \in Nat
             /\ Unbegun(c) \in Nat /\ Unbegun(c)' \in Nat
             /\ Unbegun(c) <= Cardinality(Owed)
             /\ Cardinality(Owed)' = Cardinality(Owed) + Unbegun(c)' - Unbegun(c)
  <2>1. \A d \in Cli \ {c} : Unbegun(d)' = Unbegun(d)
    BY <1>3 DEF Unbegun
  <2> QED BY <2>1, OwedChange DEF OwedIsFinite
<1>4. ASSUME NEW c \in Cli, NEW n \in 1 .. MaxRoster, Launch(c, n)
      PROVE  [Feed!FeedNext]_(Feed!feedVars)
  <2>1. Unbegun(c) = 0 /\ Unbegun(c)' = n
    BY <1>4 DEF Launch, Unbegun, TypeOK
  <2>2. Cardinality(Owed)' = Cardinality(Owed) + n
    BY <1>3, <1>4, <2>1 DEF Launch, TypeOK
  <2>3. Feed!Launch(n)
    BY <1>4, <2>2 DEF Launch, tables, Feed!Launch
  <2> QED BY <2>3 DEF Feed!FeedNext
<1>5. ASSUME NEW c \in Cli, StartRun(c) \/ StartReplyLost(c)
      PROVE  [Feed!FeedNext]_(Feed!feedVars)
  <2>1. PICK r \in Run :
          /\ cli[c] = "ready" /\ todo[c] > 0
          /\ NextId(r)
          /\ runs' = [runs EXCEPT ![r].status = "running"]
          /\ \/ cli' = [cli EXCEPT ![c] = "busy"] /\ UNCHANGED todo
             \/ todo' = [todo EXCEPT ![c] = @ - 1] /\ UNCHANGED cli
          /\ UNCHANGED <<log, now>>
    BY <1>5 DEF StartRun, StartReplyLost
  <2>2. Unbegun(c) = todo[c] /\ Unbegun(c)' = todo[c] - 1
    BY <2>1 DEF Unbegun, TypeOK
  <2>3. /\ Cardinality(Owed)' = Cardinality(Owed) - 1
        /\ Cardinality(Owed) > 0
    <3>1. /\ Cardinality(Owed) \in Nat /\ Unbegun(c) \in Nat
          /\ Unbegun(c) <= Cardinality(Owed)
          /\ Cardinality(Owed)' = Cardinality(Owed) + Unbegun(c)' - Unbegun(c)
      BY <1>3, <2>1 DEF TypeOK
    <3> QED BY <2>1, <2>2, <3>1
  <2>4. Feed!Begin(r)
    BY <1>1, <2>1, <2>3 DEF NextId, Feed!Begin
  <2> QED BY <1>1, <2>4 DEF Feed!FeedNext, Feed!FeedStep
<1>6. ASSUME NEW c \in Cli, UNCHANGED <<runs, log, now>>,
             \A d \in Cli \ {c} : cli'[d] = cli[d] /\ todo'[d] = todo[d],
             Unbegun(c)' <= Unbegun(c)
      PROVE  [Feed!FeedNext]_(Feed!feedVars)
  <2>1. /\ Cardinality(Owed) \in Nat /\ Unbegun(c) \in Nat /\ Unbegun(c)' \in Nat
        /\ Unbegun(c) <= Cardinality(Owed)
        /\ Cardinality(Owed)' = Cardinality(Owed) + Unbegun(c)' - Unbegun(c)
    BY <1>3, <1>6
  <2>2. CASE Unbegun(c)' = Unbegun(c)
    <3>1. Cardinality(Owed)' = Cardinality(Owed)
      BY <2>1, <2>2
    <3> QED BY <1>6, <3>1 DEF Feed!feedVars
  <2>3. CASE Unbegun(c)' # Unbegun(c)
    <3> DEFINE n == Unbegun(c) - Unbegun(c)'
    <3>1. n \in 1 .. Cardinality(Owed) /\ Cardinality(Owed)' = Cardinality(Owed) - n
      BY <1>6, <2>1, <2>3
    <3> HIDE DEF n
    <3>2. Feed!Forgo
      BY <1>6, <3>1 DEF Feed!Forgo
    <3> QED BY <3>2 DEF Feed!FeedNext, Feed!FeedStep
  <2> QED BY <2>2, <2>3
<1>7. ASSUME NEW c \in Cli, StartFails(c) \/ NextAgent(c) \/ Exit(c)
      PROVE  [Feed!FeedNext]_(Feed!feedVars)
  <2>1. /\ UNCHANGED <<runs, log, now>>
        /\ \A d \in Cli \ {c} : cli'[d] = cli[d] /\ todo'[d] = todo[d]
    BY <1>7 DEF StartFails, NextAgent, Exit, tables, TypeOK
  <2>2. Unbegun(c)' <= Unbegun(c)
    BY <1>7, RosterAssumption DEF StartFails, NextAgent, Exit, Unbegun, TypeOK
  <2> QED BY <1>6, <2>1, <2>2
<1>8. ASSUME NEW c \in Cli, Crash(c) PROVE [Feed!FeedNext]_(Feed!feedVars)
  <2>1. /\ UNCHANGED <<runs, log, now>>
        /\ \A d \in Cli \ {c} : cli'[d] = cli[d] /\ todo'[d] = todo[d]
    BY <1>8 DEF Crash, tables, TypeOK
  <2>2. Unbegun(c)' = 0
    BY <1>8 DEF Crash, Unbegun, TypeOK
  <2>3. Unbegun(c) \in Nat
    BY <1>3, <2>1
  <2> QED BY <1>6, <2>1, <2>2, <2>3
<1> QED BY <1>2, <1>4, <1>5, <1>7, <1>8 DEF CliStep

(* The CLI and its runs implement RunFeed, which the console and the detail *)
(* page are specified against: a row appears in id order and only for an    *)
(* agent of a launched process, its transcript grows behind its end, and it *)
(* leaves `running` once; whatever fails in between.                        *)
THEOREM RunImplementsFeed == Spec => ImplementsFeed
<1>1. Init /\ FeedInv => Feed!FeedInit
  <2> SUFFICES ASSUME Init, FeedInv PROVE Feed!FeedInit
    OBVIOUS
  <2>1. \A c \in Cli : Unbegun(c) = 0
    BY DEF Init, Unbegun
  <2>2. Owed = {}
    BY <2>1 DEF Owed
  <2>3. Cardinality(Owed) = 0
    BY <2>2, FS_EmptySet
  <2> QED BY <2>3 DEF Init, Feed!FeedInit, Feed!Run, Run
<1>2. FeedInv /\ FeedInv' /\ [Next]_vars => [Feed!FeedNext]_(Feed!feedVars)
  <2> SUFFICES ASSUME FeedInv, FeedInv', [Next]_vars
               PROVE  [Feed!FeedNext]_(Feed!feedVars)
    OBVIOUS
  <2>1. CASE UNCHANGED vars
    <3>1. Owed' = Owed
      BY <2>1 DEF vars, cliVars, Owed, Unbegun
    <3> QED BY <2>1, <3>1 DEF vars, tables, Feed!feedVars
  <2>2. CASE Next
    BY <2>2, CliStepMaps, RunnerStepMaps DEF Next, AgentNext
  <2> QED BY <2>1, <2>2
<1> QED BY <1>1, <1>2, FeedInvariant, PTL DEF Spec, ImplementsFeed, Feed!FeedSpec
=============================================================================
