-------------------------------- MODULE ICal --------------------------------
(* ical.ts, the fetch_ical tool: feed urls tried in order, a calendar       *)
(* parsed line by line, and the upcoming events of it.  A line is           *)
(* [folds, is, value]: whether it begins with white space, which of the     *)
(* lines the parser looks for it is, and a value.  DTEND, URL and LOCATION  *)
(* are kept as SUMMARY is and are left out.                                 *)
EXTENDS StableSorting

LineName == {"BEGIN:VEVENT", "END:VEVENT", "DTSTART", "SUMMARY", "other"}
Field == {"DTSTART", "SUMMARY"}

(* unfold: a line that begins with white space continues the one before;    *)
(* of a logical line the pieces of its text are kept.                       *)
unfold(lines) ==
  LET out[n \in 0 .. Len(lines)] ==
        IF n = 0 THEN <<>>
        ELSE LET l == lines[n]
                 done == out[n - 1]
             IN  IF ~ l.folds
                 THEN Append(done, [is |-> l.is, pieces |-> <<l.value>>])
                 ELSE IF done = <<>>
                 THEN <<[is |-> "other", pieces |-> <<l.value>>]>>
                 ELSE [done EXCEPT ![Len(done)].pieces = Append(@, l.value)]
  IN  out[Len(lines)]

(* A delimiter with more text behind it is none. *)
Delimits(line, name) == line.is = name /\ Len(line.pieces) = 1

(* toIso: a date, a number above Null, is whole on its own line; whatever a *)
(* continuation adds spoils it.                                             *)
toIso(pieces) == IF Len(pieces) = 1 THEN pieces[1] ELSE Null

NoEvent == <<>>
EmptyEvent == [f \in Field |-> IF f = "DTSTART" THEN Null ELSE <<>>]

(* Mutant of EndEvent: the event is still open behind its end. *)
EndEventStaysOpen(s) ==
  IF s.cur # NoEvent /\ s.cur["DTSTART"] # Null
  THEN [s EXCEPT !.events = Append(@, s.cur)] ELSE s

EndEvent(s) ==
  [cur |-> NoEvent,
   events |-> IF s.cur # NoEvent /\ s.cur["DTSTART"] # Null
              THEN Append(s.events, s.cur) ELSE s.events]

(* The body of the loop of parseICal. *)
ParseLine(s, line) ==
  IF Delimits(line, "BEGIN:VEVENT") THEN [s EXCEPT !.cur = EmptyEvent]
  ELSE IF Delimits(line, "END:VEVENT") THEN EndEvent(s)
  ELSE IF s.cur = NoEvent \/ line.is \notin Field THEN s
  ELSE [s EXCEPT !.cur[line.is] = IF line.is = "DTSTART" THEN toIso(line.pieces)
                                  ELSE line.pieces]

parseICal(lines) ==
  LET logical == unfold(lines)
      parsed[n \in 0 .. Len(logical)] ==
        IF n = 0 THEN [cur |-> NoEvent, events |-> <<>>]
        ELSE ParseLine(parsed[n - 1], logical[n])
  IN  parsed[Len(logical)].events

-----------------------------------------------------------------------------
(* What a candidate url answers: a feed, another page, an HTTP error, or    *)
(* nothing within 25 seconds.                                               *)
Answer == {"feed", "page", "refused", "failed"}

(* runIcalFetch: the first feed, or the last error. *)
runIcalFetch(answers, lines) ==
  LET feeds == {i \in DOMAIN answers : answers[i] = "feed"}
  IN  IF feeds # {}
      THEN [ok |-> TRUE, asked |-> CHOOSE i \in feeds : \A j \in feeds : i <= j,
            events |-> parseICal(lines)]
      ELSE [ok |-> FALSE, asked |-> Len(answers), events |-> <<>>]

Cap(limit) == IF limit < 1 THEN 1 ELSE IF limit > 60 THEN 60 ELSE limit

formatIcalResult(result, limit, today) ==
  LET earlier(a, b) == a["DTSTART"] < b["DTSTART"]
      toCome == {i \in DOMAIN result.events : result.events[i]["DTSTART"] >= today}
      upcoming == StableSort(ElementsAt(result.events, toCome), earlier)
      returned == IF Len(upcoming) < Cap(limit) THEN Len(upcoming) ELSE Cap(limit)
  IN  [isError |-> ~ result.ok, matched |-> Len(upcoming),
       truncated |-> Len(upcoming) > Cap(limit),
       events |-> SubSeq(upcoming, 1, returned)]
=============================================================================
