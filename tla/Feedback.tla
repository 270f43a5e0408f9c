------------------------------ MODULE Feedback ------------------------------
(* The feedback cursor.  Stewards leave feedback at any time; an agent      *)
(* reads what is newer than the start of its last run that counted.  Runs   *)
(* of one agent can overlap (the schedule, the console and an interview's   *)
(* sample run all start it), and can die.  Times are those of now() in the  *)
(* database; several rows may carry the same one.                           *)
EXTENDS Integers, Sequences, FiniteSets

CONSTANTS
  Limits,       \* row limits an agent may read with, 200 by default
  MaxFeedback,  \* bound: feedback rows
  MaxReaders,   \* bound: runs of the agent
  MaxTime       \* bound: different times

ASSUME FeedbackParameters ==
  /\ Limits \subseteq Nat \ {0}
  /\ MaxFeedback \in Nat
  /\ MaxReaders \in Nat
  /\ MaxTime \in Nat

VARIABLES
  time,      \* now()
  given,     \* created_at of the feedback rows in the order of their ids
  readers    \* the runs of the agent, in the order of their ids

feedbackVars == <<time, given, readers>>

FeedbackId == 1 .. MaxFeedback
RunState == {"running", "success", "capped", "error"}

(* cutoff is what the first query of a reading under way has found; told    *)
(* is whether a reading has come to its end, and got what it brought.       *)
Idle == -1
Reader == [started : 0 .. MaxTime, state : RunState, told : BOOLEAN,
           cutoff : Idle .. MaxTime, got : SUBSET FeedbackId]

Maximum(S) == CHOOSE n \in S : \A m \in S : m <= n

(* Mutant of lastSuccessfulRunStart: a run that failed counts too. *)
lastSuccessfulRunStartAny ==
  Maximum({0} \cup {readers[r].started :
                      r \in {s \in DOMAIN readers : readers[s].state # "running"}})

(* 0 when there is none: no row is older. *)
lastSuccessfulRunStart ==
  Maximum({0} \cup {readers[r].started :
                      r \in {s \in DOMAIN readers :
                               readers[s].state \in {"success", "capped"}}})

(* ORDER BY created_at DESC LIMIT: any rows but none older than one left.   *)
Newest(rows, limit) ==
  {chosen \in SUBSET rows :
     /\ Cardinality(chosen) =
          IF Cardinality(rows) < limit THEN Cardinality(rows) ELSE limit
     /\ \A f \in chosen, g \in rows \ chosen : given[g] <= given[f]}

-----------------------------------------------------------------------------
FeedbackInit ==
  /\ time = 0
  /\ given = <<>>
  /\ readers = <<>>

Tick ==
  /\ time < MaxTime
  /\ time' = time + 1
  /\ UNCHANGED <<given, readers>>

(* recordFeedback: one statement; feedback is never deleted. *)
GiveFeedback ==
  /\ Len(given) < MaxFeedback
  /\ given' = Append(given, time)
  /\ UNCHANGED <<time, readers>>

(* startRun of the agent. *)
StartReader ==
  /\ Len(readers) < MaxReaders
  /\ readers' = Append(readers, [started |-> time, state |-> "running",
                                 told |-> FALSE, cutoff |-> Idle, got |-> {}])
  /\ UNCHANGED <<time, given>>

(* readFeedbackForAgent, first query: where to start. *)
ReadCutoff(r) ==
  /\ readers[r].state = "running"
  /\ readers[r].cutoff = Idle
  /\ readers' = [readers EXCEPT ![r].cutoff = lastSuccessfulRunStart]
  /\ UNCHANGED <<time, given>>

(* readFeedbackForAgent, second query: the rows since then. *)
ReadRows(r) ==
  /\ readers[r].state = "running"
  /\ readers[r].cutoff # Idle
  /\ \E limit \in Limits :
       \E rows \in Newest({f \in DOMAIN given : given[f] >= readers[r].cutoff},
                           limit) :
         readers' = [readers EXCEPT ![r].cutoff = Idle, ![r].told = TRUE,
                                    ![r].got = @ \cup rows]
  /\ UNCHANGED <<time, given>>

(* One of the two queries throws: the tool reports an error to the model,   *)
(* which reads again or goes on without.                                    *)
ReadThrows(r) ==
  /\ readers[r].state = "running"
  /\ readers[r].cutoff # Idle
  /\ readers' = [readers EXCEPT ![r].cutoff = Idle]
  /\ UNCHANGED <<time, given>>

(* finishRun, with whatever statusFromResult made of the result: nothing    *)
(* there asks whether the run has read its feedback.  A process that dies   *)
(* leaves its row running.                                                  *)
FinishReader(r) ==
  /\ readers[r].state = "running"
  /\ \E state \in RunState \ {"running"} :
       readers' = [readers EXCEPT ![r].state = state, ![r].cutoff = Idle]
  /\ UNCHANGED <<time, given>>

FeedbackNext ==
  \/ Tick \/ GiveFeedback \/ StartReader
  \/ \E r \in DOMAIN readers :
       ReadCutoff(r) \/ ReadRows(r) \/ ReadThrows(r) \/ FinishReader(r)

FeedbackSpec == FeedbackInit /\ [][FeedbackNext]_feedbackVars
-----------------------------------------------------------------------------
FeedbackTypeOK ==
  /\ time \in 0 .. MaxTime
  /\ given \in Seq(0 .. MaxTime) /\ Len(given) <= MaxFeedback
  /\ readers \in Seq(Reader) /\ Len(readers) <= MaxReaders

Counted(r) == readers[r].state \in {"success", "capped"}

(* An agent's unread feedback is everything newer than its last successful  *)
(* run (queries.ts:413), as if a run that counts had read it (389-390).     *)
(* There are two ways in which a row falls behind the cursor untold, and no *)
(* third one: a run that counted was told as many rows as it asked for,     *)
(* none of them older, or one that counted and started after the row never  *)
(* got an answer.  Overlapping runs of one agent, a run that counts between *)
(* the two queries of another, a run that failed, a query that throws and   *)
(* is asked again, and rows of the same time lose nothing.                  *)
UnreadHasACause ==
  \A f \in DOMAIN given :
    given[f] < lastSuccessfulRunStart =>
      \E r \in DOMAIN readers :
        /\ Counted(r)
        /\ \/ f \in readers[r].got
           \/ \E full \in SUBSET readers[r].got :
                /\ Cardinality(full) \in Limits
                /\ \A g \in full : given[g] >= given[f]
           \/ ~readers[r].told /\ given[f] < readers[r].started
=============================================================================
