--------------------------- MODULE TranscriptView ---------------------------
(***************************************************************************)
(* What the transcript feed promises a reader, with nothing of how it is   *)
(* done.  A writer appends events to a log, each behind all others.  A     *)
(* reader that is attached sees an initial segment of the log: nothing is  *)
(* skipped, nothing comes out of order, and what it has seen never goes    *)
(* away until it detaches or its connection to the log is lost.            *)
(***************************************************************************)
EXTENDS Integers

VARIABLES
  written,  \* the events of the log
  seen,     \* the events the reader shows
  reader    \* "none", "reading", or "lost" when it told so

view == <<written, seen, reader>>

InitialSegment(s, l) ==
  /\ s \subseteq l
  /\ \A e \in s, f \in l : f.seq < e.seq => f \in s

Init == written = {} /\ seen = {} /\ reader = "none"

Write ==
  /\ \E e \in written' \ written :
       /\ written' = written \cup {e}
       /\ \A f \in written : f.seq < e.seq
  /\ UNCHANGED <<seen, reader>>

Attach ==
  /\ reader = "none" /\ reader' = "reading"
  /\ seen' = {}
  /\ UNCHANGED written

Advance ==
  /\ reader = "reading" /\ reader' = "reading"
  /\ seen \subseteq seen' /\ InitialSegment(seen', written)
  /\ UNCHANGED written

Lose ==
  /\ reader' = "lost" /\ seen' = {}
  /\ UNCHANGED written

Detach ==
  /\ reader' = "none" /\ seen' = {}
  /\ UNCHANGED written

Next == Write \/ Attach \/ Advance \/ Lose \/ Detach

Spec == Init /\ [][Next]_view
=============================================================================
