------------------------------ MODULE Fetches ------------------------------
(* The fetch log and the hosts a scout skips.  A run of the scout reads,    *)
(* when it starts, the hosts whose latest outcomes were all refusals        *)
(* (blockedHosts), and a hook denies every WebFetch to one of them.  Each   *)
(* result that comes back is classified by its text alone and logged, a     *)
(* denial's text like a site's.  Several scouts can run at once (the        *)
(* scheduler, the console and the command line start processes of their     *)
(* own), so the set a run skips may be older than the log it adds to.       *)
EXTENDS Integers, Sequences, FiniteSets, Selections

CONSTANTS
  Host,          \* host names, as hostOf returns them
  Scout,         \* processes that run the scout
  Strikes,       \* STRIKE_THRESHOLD (3 in the code)
  Window,        \* how many log rows blockedHosts reads (2000 in the code)
  MaxFetches,    \* bound: rows the log may hold
  MaxFlight,     \* bound: WebFetch calls of one run whose result is out
  RecordFaults   \* whether recordFetch may fail

ASSUME FetchParameters ==
  /\ Strikes \in Nat \ {0}
  /\ Window \in Nat \ {0}
  /\ MaxFetches \in Nat
  /\ MaxFlight \in Nat
  /\ RecordFaults \in BOOLEAN

VARIABLES
  fetches,   \* localfinds.fetches in the order of id, as [host, klass]
  up,        \* the scouts with a run under way
  skip,      \* blockedSet of each run, read when it started
  flight     \* fetchUrls: per run and host, the calls without a result

vars == <<fetches, up, skip, flight>>

FetchClass == {"ok", "blocked", "truncated", "error"}
FetchRow == [host : Host, klass : FetchClass]

(* What a text says, as far as the classification tells texts apart: the    *)
(* first "HTTP ddd" in it, and the marker of a truncated page.              *)
Code == {"none", "401 or 403", "other"}
Text == [code : Code, cut : BOOLEAN]

(* A site answers with a status, or with a page: the page may be cut, and   *)
(* may itself speak of HTTP statuses.  A failed connection has no status.   *)
SiteText == Text

(* The reason makeWebFetchGuard gives names 403/401 but has no "HTTP ddd".  *)
DenialText == [code |-> "none", cut |-> FALSE]

(* Mutant of classifyWebFetchResult: no status, no class. *)
classifyWebFetchResultUnmapped(text) ==
  CASE text.code = "401 or 403" -> "blocked"
    [] text.code = "other"      -> "error"
    [] text.code = "none"       -> "none"

classifyWebFetchResult(text) ==
  CASE text.code = "401 or 403" -> "blocked"
    [] text.code = "other"      -> "error"
    [] text.code = "none" /\ text.cut   -> "truncated"
    [] text.code = "none" /\ ~ text.cut -> "ok"

-----------------------------------------------------------------------------
(* blockedHosts: one pass over the latest rows, the n-th newest at step n. *)
Latest == IF Len(fetches) < Window THEN Len(fetches) ELSE Window
NewestRow(n) == fetches[Len(fetches) + 1 - n]

EndStreak(s, h) == [s EXCEPT !.done = @ \cup {h}]

AddStrike(s, h) ==
  LET streak == s.streak[h] + 1
  IN  [streak  |-> [s.streak EXCEPT ![h] = streak],
       done    |-> s.done,
       blocked |-> IF streak >= Strikes THEN s.blocked \cup {h} ELSE s.blocked]

(* Mutant of ReadRow: the done mark is set but not looked at. *)
ReadRowIgnoresDone(s, row) ==
  IF row.klass = "blocked" THEN AddStrike(s, row.host) ELSE EndStreak(s, row.host)

ReadRow(s, row) ==
  IF row.host \in s.done THEN s
  ELSE IF row.klass = "blocked" THEN AddStrike(s, row.host)
  ELSE EndStreak(s, row.host)

NoStreaks == [streak |-> [h \in Host |-> 0], done |-> {}, blocked |-> {}]

readTo[n \in 0 .. Latest] ==
  IF n = 0 THEN NoStreaks ELSE ReadRow(readTo[n - 1], NewestRow(n))

blockedHosts == readTo[Latest].blocked

-----------------------------------------------------------------------------
NoCalls == [h \in Host |-> 0]
(* The calls of a scout that are still open, as cells of a diagram: so many *)
(* for each host.                                                           *)
OpenCalls(s) == {p \in Host \X (1 .. MaxFlight) : p[2] <= flight[s][p[1]]}

FetchInit ==
  /\ fetches = <<>>
  /\ up = {}
  /\ skip = [s \in Scout |-> {}]
  /\ flight = [s \in Scout |-> NoCalls]

(* runAgent reads the blocked hosts once, before the run starts. *)
StartScout(s) ==
  /\ s \notin up
  /\ up' = up \cup {s}
  /\ skip' = [skip EXCEPT ![s] = blockedHosts]
  /\ flight' = [flight EXCEPT ![s] = NoCalls]
  /\ UNCHANGED fetches

(* The model asks for a WebFetch, several of them in one message if it      *)
(* likes: tool_use events put the url into fetchUrls, denied or not.        *)
UseWebFetch(s, h) ==
  /\ s \in up
  /\ Cardinality(OpenCalls(s)) < MaxFlight
  /\ flight' = [flight EXCEPT ![s][h] = @ + 1]
  /\ UNCHANGED <<fetches, up, skip>>

(* makeWebFetchGuard: the call is denied, or the site is asked. *)
ResultTexts(s, h) == IF h \in skip[s] THEN {DenialText} ELSE SiteText

(* Mutant of Recorded: what the hook denies is logged as a refusal. *)
RecordedAsRefused(h, text) ==
  Append(fetches, [host |-> h,
                   klass |-> IF text = DenialText THEN "blocked"
                             ELSE classifyWebFetchResult(text)])

(* recordFetch, at the end of the log. *)
Recorded(h, text) ==
  Append(fetches, [host |-> h, klass |-> classifyWebFetchResult(text)])

(* A tool_result of a known call: classified and recorded; a failed insert  *)
(* is printed and nothing else.                                             *)
WebFetchResult(s, h) ==
  /\ s \in up
  /\ flight[s][h] > 0
  /\ flight' = [flight EXCEPT ![s][h] = @ - 1]
  /\ \/ /\ Len(fetches) < MaxFetches
        /\ \E text \in ResultTexts(s, h) : fetches' = Recorded(h, text)
     \/ RecordFaults /\ UNCHANGED fetches
  /\ UNCHANGED <<up, skip>>

(* The run is over, by its result or by a cap, or its process died: the     *)
(* results still out are never seen.                                        *)
EndScout(s) ==
  /\ s \in up
  /\ up' = up \ {s}
  /\ skip' = [skip EXCEPT ![s] = {}]
  /\ flight' = [flight EXCEPT ![s] = NoCalls]
  /\ UNCHANGED fetches

(* clearFetchHistory: the manual un-block. *)
ClearFetchHistory(h) ==
  LET kept == {i \in DOMAIN fetches : fetches[i].host # h}
  IN  /\ kept # DOMAIN fetches
      /\ fetches' = ElementsAt(fetches, kept)
      /\ UNCHANGED <<up, skip, flight>>

FetchNext ==
  \/ \E s \in Scout : StartScout(s) \/ EndScout(s)
  \/ \E s \in Scout, h \in Host : UseWebFetch(s, h) \/ WebFetchResult(s, h)
  \/ \E h \in Host : ClearFetchHistory(h)

FetchSpec == FetchInit /\ [][FetchNext]_vars
-----------------------------------------------------------------------------
(* The log and the runs keep their types; a run has no more calls out than  *)
(* its bound, and a scout that is not running has none and skips nothing    *)
(* (fetchUrls and blockedSet are locals of runAgent).                       *)
FetchTypeOK ==
  /\ fetches \in Seq(FetchRow) /\ Len(fetches) <= MaxFetches
  /\ up \in SUBSET Scout
  /\ skip \in [Scout -> SUBSET Host]
  /\ flight \in [Scout -> [Host -> 0 .. MaxFlight]]
  /\ \A s \in Scout \ up : skip[s] = {} /\ flight[s] = NoCalls

(* What the comment on blockedHosts promises (queries.ts:820), without its  *)
(* loop: among some number of the newest rows there are Strikes outcomes of *)
(* the host or more, and each of them is a refusal.                         *)
OnAStreak(h) ==
  \E n \in 0 .. Latest :
    LET outcomes == {i \in 1 .. n : NewestRow(i).host = h}
    IN  /\ Cardinality(outcomes) >= Strikes
        /\ \A i \in outcomes : NewestRow(i).klass = "blocked"

(* The single pass with its streaks and its done marks finds exactly the    *)
(* hosts on a streak, however the outcomes of the hosts are interleaved.    *)
BlockedIsAStreak == blockedHosts = {h \in Host : OnAStreak(h)}

(* The events a change of the blocked hosts can come from. *)
Logged(h) ==
  Len(fetches') = Len(fetches) + 1 /\ fetches'[Len(fetches')].host = h
SiteAnswered(h) ==
  /\ Logged(h)
  /\ \E s \in Scout : h \notin skip[s] /\ flight'[s][h] < flight[s][h]
Cleared == Len(fetches') < Len(fetches)
ClearedHost(h) == Cleared /\ \A i \in DOMAIN fetches' : fetches'[i].host # h
ScrolledOut == Len(fetches) >= Window /\ Len(fetches') > Len(fetches)

(* A host becomes blocked only by an answer of its own site to a run that   *)
(* was not skipping it, whatever the other hosts and the denials of other   *)
(* runs add to the log; or when another host's history is cleared and its   *)
(* own older rows come back into the window.  It stops being blocked only   *)
(* by an outcome logged for it, by its own clearing, or when the window has *)
(* moved past its streak.                                                   *)
OnlyOwnOutcomes ==
  [][LET was == blockedHosts
         is  == blockedHosts'
     IN  /\ \A h \in is \ was :
              SiteAnswered(h) \/ (Cleared /\ ~ ClearedHost(h))
         /\ \A h \in was \ is :
              Logged(h) \/ ClearedHost(h) \/ ScrolledOut]_fetches

(* The hard block as the comments have it (queries.ts:820, "uninterrupted"; *)
(* queries.ts:809, "manual un-block"; run-agent.ts:202, "hard backstop"):   *)
(* a blocked host stays blocked until its own site answers a fetch, it is   *)
(* cleared by hand, or its streak has left the window.  A denial of the     *)
(* hook should not end the block it enforces.                               *)
HardBlockHolds ==
  [][\A h \in blockedHosts \ blockedHosts' :
       SiteAnswered(h) \/ ClearedHost(h) \/ ScrolledOut]_fetches
=============================================================================
