-------------------------------- MODULE Cases --------------------------------
(* The pure algorithms over all small inputs: the duplicate groups of a     *)
(* directory, the pages of the directory and of the feed, the events of a   *)
(* calendar.  An input grows by one row, place, find or line at a time.     *)
EXTENDS DuplicateGroups, Listing, ICal

CONSTANTS
  MaxRows,    \* bound: rows a sweep reads
  MaxListed,  \* bound: places of the directory, finds of the feed
  MaxLines    \* bound: lines of a calendar

VARIABLE input   \* what the algorithm is given, by its kind

RowName == {"a name", "another"}
PlaceCase ==
  {place \in [name : 1 .. 2, kind : {Null, 1}, town : {Null, 1}, brand : BOOLEAN] :
     place.brand => place.kind # Null}
FindCase == [status : {"new", "provisional"}, expires : {Null},
             discovered : 1 .. 2, starts : {Null, 1}, type : {"event"}]
LineCase ==
  [folds : {FALSE}, is : {"BEGIN:VEVENT", "END:VEVENT", "SUMMARY"}, value : {1}]
    \cup [folds : {FALSE}, is : {"DTSTART"}, value : 1 .. 2]
    \cup [folds : {TRUE}, is : {"other"}, value : {1}]

-----------------------------------------------------------------------------
CasesInit ==
  input \in {[kind |-> "rows", rows |-> <<>>, near |-> {}],
             [kind |-> "places", rows |-> <<>>],
             [kind |-> "finds", rows |-> <<>>],
             [kind |-> "lines", rows |-> <<>>]}

(* One more row behind the others, with the rows it lies near. *)
AddRow ==
  /\ input.kind = "rows" /\ Len(input.rows) < MaxRows
  /\ \E name \in RowName, located \in BOOLEAN,
        near \in SUBSET (DOMAIN input.rows) :
       LET id == Len(input.rows) + 1
       IN  /\ near # {} => located
           /\ \A i \in near : input.rows[i].located
           /\ input' = [input EXCEPT
                !.rows = Append(@, [osmId |-> id, name |-> name,
                                    located |-> located, status |-> "active",
                                    facts |-> 0]),
                !.near = @ \cup {{i, id} : i \in near}]

AddPlace ==
  /\ input.kind = "places" /\ Len(input.rows) < MaxListed
  /\ \E place \in PlaceCase : input' = [input EXCEPT !.rows = Append(@, place)]

AddFind ==
  /\ input.kind = "finds" /\ Len(input.rows) < MaxListed
  /\ \E find \in FindCase : input' = [input EXCEPT !.rows = Append(@, find)]

AddLine ==
  /\ input.kind = "lines" /\ Len(input.rows) < MaxLines
  /\ \E line \in LineCase : input' = [input EXCEPT !.rows = Append(@, line)]

CasesNext == AddRow \/ AddPlace \/ AddFind \/ AddLine

CasesSpec == CasesInit /\ [][CasesNext]_input

-----------------------------------------------------------------------------
(* The groups, by what they should be: the components of two and more of    *)
(* the graph of located rows of one name, joined when near.                 *)
Linked(i, j) ==
  /\ input.rows[i].name = input.rows[j].name
  /\ {i, j} \in input.near

IsComponent(ids) ==
  /\ \A part \in (SUBSET ids) \ {{}, ids} :
       \E i \in part, j \in ids \ part : Linked(i, j)
  /\ \A i \in ids, j \in DOMAIN input.rows \ ids : ~ Linked(i, j)

(* groupPlaceDuplicates ("transitive: A~B and B~C groups all three",        *)
(* place-dedupe.ts:71-73) finds exactly those, whatever the order of rows   *)
(* and pairs and whichever roots the compressed paths are hung under.       *)
GroupsAreComponents ==
  input.kind = "rows" =>
    {{row.osmId : row \in group} :
       group \in groupPlaceDuplicates(input.rows, input.near)}
      = {ids \in SUBSET DOMAIN input.rows :
           Cardinality(ids) >= 2 /\ IsComponent(ids)}

-----------------------------------------------------------------------------
Config == [tierOf |-> [k \in {Null, 1} |-> IF k = Null THEN 3 ELSE 1],
           hideTier4 |-> TRUE, hideChains |-> FALSE]

(* A page of the directory, sorted by order: a column and a direction.      *)
DirectoryPage(listed, limit, order, page, pageSize) ==
  listPlacesRanked(listed, input.rows, Config,
    [includeTier4 |-> FALSE, includeChains |-> TRUE, maxTier |-> 4,
     limit |-> limit, sort |-> order[1], dir |-> order[2],
     page |-> page, pageSize |-> pageSize])

(* The default ranking has one direction. *)
Sorts == {<<"undefined", "asc">>} \cup {"kind", "town"} \X {"asc", "desc"}

(* The first n parts, put together. *)
Concatenated(parts, n) ==
  LET upTo[k \in 0 .. n] ==
        IF k = 0 THEN <<>> ELSE upTo[k - 1] \o parts[k]
  IN  upTo[n]

Occurrences(s, x) == Cardinality({i \in DOMAIN s : s[i] = x})

(* Where a row belongs: in the default ranking chains go last, and a better *)
(* tier goes first; by a column, in either direction, the rows without a    *)
(* value go last.                                                           *)
InPlace(a, b, sort, dir) ==
  IF sort = "undefined"
  THEN /\ a.isChain => b.isChain
       /\ a.isChain = b.isChain => a.tier <= b.tier
  ELSE /\ ValueOf(a, sort) = Null => ValueOf(b, sort) = Null
       /\ ValueOf(b, sort) # Null =>
            IF dir = "asc" THEN ValueOf(a, sort) <= ValueOf(b, sort)
            ELSE ValueOf(a, sort) >= ValueOf(b, sort)

(* One answer of the query, shown whole and on pages: every row once, with  *)
(* its own facts and in its place; of more rows than the limit the last     *)
(* ones are missing; the pages put together are the whole, and requests     *)
(* before the first and behind the last page get those.                     *)
PagesShowTheAnswer(listed, limit, order, pageSize) ==
  LET whole == DirectoryPage(listed, limit, order, 1, 0).rows
      ids == {row.id : row \in Range(whole)}
      count == DirectoryPage(listed, limit, order, 1, pageSize).pageCount
      page == [k \in 0 .. count + 1 |->
                 DirectoryPage(listed, limit, order, k, pageSize)]
  IN  /\ Len(whole) = Min({limit, Len(input.rows)})
      /\ Cardinality(ids) = Len(whole)
      /\ \A row \in Range(whole) :
           row.id \in DOMAIN input.rows /\ row.place = input.rows[row.id]
      /\ \A i \in ids, j \in DOMAIN input.rows \ ids :
           ~ TownThenName(input.rows[j], input.rows[i])
      /\ \A n \in 1 .. Len(whole) - 1 :
           InPlace(whole[n], whole[n + 1], order[1], order[2])
      /\ Concatenated([k \in 1 .. count |-> page[k].rows], count) = whole
      /\ page[0] = page[1] /\ page[count + 1] = page[count]

-----------------------------------------------------------------------------
(* Every page is a query of its own.  Between two of them a row may have    *)
(* come or gone; it is the last here, which says nothing of its place in    *)
(* the list.                                                                *)
Tables == {input.rows, Front(input.rows)}

(* What was found on one page by one query is on that page still, or as     *)
(* many rows further as the table has grown, except for ties.  seen has     *)
(* the rows of a table with the pages a query may show them on.             *)
PagesMoveWithTheTable(seen, tied) ==
  \A before, after \in Tables :
    \A a \in seen[before], b \in seen[after] :
      a.id = b.id /\ a.id \notin tied =>
        b.page - a.page \in {0, Len(after) - Len(before)}

(* The rows a table has on the pages of the directory, when the limit cuts  *)
(* nothing.                                                                 *)
DirectorySeen(table, order, pageSize) ==
  UNION {{[id |-> row.id, page |-> answer.page] : row \in Range(answer.rows)} :
           answer \in {DirectoryPage(listed, Len(table), order, k, pageSize) :
                         listed \in listPlaces(table, Len(table)),
                         k \in 1 .. Len(table) + 1}}

TiedPlaces(order) ==
  LET row(i) == Annotated(i, input.rows[i], Config)
  IN  {i \in DOMAIN input.rows :
         \E j \in DOMAIN input.rows \ {i} :
           /\ ~ ComesFirst(row(i), row(j), order[1], order[2])
           /\ ~ ComesFirst(row(j), row(i), order[1], order[2])
           /\ ~ TownThenName(input.rows[i], input.rows[j])
           /\ ~ TownThenName(input.rows[j], input.rows[i])}

DirectoryPagesShowTheList ==
  \A order \in Sorts :
    /\ \A limit \in {2, 500} : \A listed \in listPlaces(input.rows, limit) :
         PagesShowTheAnswer(listed, limit, order, 2)
    /\ PagesMoveWithTheTable(
         [table \in Tables |-> DirectorySeen(table, order, 2)], TiedPlaces(order))

(* The finds on the pages of the feed: the count and the page are queries   *)
(* of their own too.                                                        *)
FeedQuery(table, sort) == FeedOrders(table, "default", 1, {"event"}, sort)

FeedTotals(sort) ==
  {Len(found) : found \in UNION {FeedQuery(table, sort) : table \in Tables}}

FeedSeen(table, sort, pageSize) ==
  UNION {{[id |-> i, page |-> answer.page] : i \in Range(answer.rows)} :
           answer \in {getFeedPage(found, total, k, pageSize) :
                         found \in FeedQuery(table, sort),
                         total \in FeedTotals(sort),
                         k \in 1 .. Len(table) + 1}}

TiedFinds(sort) ==
  {i \in DOMAIN input.rows :
     \E j \in DOMAIN input.rows \ {i} :
       /\ ~ feedOrderSql(input.rows[i], input.rows[j], sort)
       /\ ~ feedOrderSql(input.rows[j], input.rows[i], sort)}

FeedPagesShowTheList ==
  \A sort \in {"newest", "oldest", "soonest"} :
    /\ \A found \in FeedQuery(input.rows, sort) :
         /\ Concatenated([k \in 1 .. Len(found) |->
                            getFeedPage(found, Len(found), k, 1).rows], Len(found)) = found
         /\ Cardinality(Range(found)) = Len(found)
         /\ Range(found) = {i \in DOMAIN input.rows : input.rows[i].status = "new"}
    /\ PagesMoveWithTheTable(
         [table \in Tables |-> FeedSeen(table, sort, 1)], TiedFinds(sort))

(* Paging shows every row once and in its place, up to the limit of the     *)
(* query: rows without a value stay at the end when the direction turns     *)
(* (place-sort.ts), and a page number out of range is brought into it.      *)
(* From page to page, each a query of its own, rows that tie may be         *)
(* repeated or skipped, and one row at the border of a page for each row    *)
(* that came or went meanwhile; nothing else is.                            *)
PagesShowTheList ==
  /\ input.kind = "places" => DirectoryPagesShowTheList
  /\ input.kind = "finds" => FeedPagesShowTheList

-----------------------------------------------------------------------------
(* The calendar, by what it holds: an event ends at an END:VEVENT and began *)
(* at the BEGIN:VEVENT before it with no other delimiter between; the last  *)
(* line of a field counts.                                                  *)
Blocks(lines) ==
  {b \in (DOMAIN lines) \X (DOMAIN lines) :
     /\ b[1] < b[2]
     /\ Delimits(lines[b[1]], "BEGIN:VEVENT")
     /\ Delimits(lines[b[2]], "END:VEVENT")
     /\ \A i \in b[1] + 1 .. b[2] - 1 :
          ~ \E name \in {"BEGIN:VEVENT", "END:VEVENT"} : Delimits(lines[i], name)}

FieldLines(lines, b, field) ==
  {i \in b[1] .. b[2] : lines[i].is = field}

Dated(lines, b) ==
  LET of == FieldLines(lines, b, "DTSTART")
  IN  of # {} /\ Len(lines[Max(of)].pieces) = 1

EventOf(lines, b) ==
  LET summary == FieldLines(lines, b, "SUMMARY")
  IN  [f \in Field |->
         IF f = "DTSTART" THEN lines[Max(FieldLines(lines, b, f))].pieces[1]
         ELSE IF summary = {} THEN <<>> ELSE lines[Max(summary)].pieces]

(* fetch_ical reports the calendar: each dated event of the feed that is    *)
(* still to come, once, in the order of their dates, up to the limit, and   *)
(* says so when it cut; an error exactly when no url answered with a feed.  *)
ICalReportsCalendar ==
  input.kind = "lines" =>
    LET lines == unfold(input.rows)
        blocks == Blocks(lines)
        upcoming(today) ==
          {b \in blocks : /\ Dated(lines, b)
                          /\ EventOf(lines, b)["DTSTART"] >= today}
        answer(answers, limit, today) ==
          formatIcalResult(runIcalFetch(answers, input.rows), limit, today)
    IN  /\ answer(<<"failed", "page">>, 1, 1).isError
        /\ \A limit \in 0 .. 2, today \in 1 .. 2 :
             LET report == answer(<<"refused", "feed">>, limit, today)
                 due == upcoming(today)
                 cut == report.matched - Len(report.events)
             IN  /\ ~ report.isError
                 /\ report.matched = Cardinality(due)
                 /\ report.truncated <=> cut > 0
                 /\ cut > 0 => Len(report.events) = Cap(limit)
                 /\ \A n \in 1 .. Len(report.events) - 1 :
                      report.events[n]["DTSTART"] <= report.events[n + 1]["DTSTART"]
                 /\ \A event \in Range(report.events) :
                      /\ Occurrences(report.events, event)
                           <= Cardinality({b \in due : EventOf(lines, b) = event})
                 /\ cut = 0 =>
                      {EventOf(lines, b) : b \in due} = Range(report.events)
                 /\ \A b \in due :
                      EventOf(lines, b) \notin Range(report.events) =>
                        \A event \in Range(report.events) :
                          event["DTSTART"] <= EventOf(lines, b)["DTSTART"]
=============================================================================
