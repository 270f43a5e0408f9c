# LocalFinds: specifications, model checking and proofs

LocalFinds is a personal feed of local events and business leads.  Agents (a
TypeScript CLI that drives a language model with tools) look for them and write
to PostgreSQL; a Phoenix application shows them and lets stewards launch and
watch the agents; an interviewer sets up what the agents look for.  This
directory holds TLA+ specifications of the parts whose correctness depends on
the order of things, the TLC configurations that check them on small instances,
and theorems about them that TLAPS checks for every value of the constants.

    tlc -config Interview.cfg MCInterview      model-check one run
    tlapm InterviewProofs.tla                  check the proofs of one module

`PROJECT.json` lists components, runs, mutants, findings, hazards, theorems, and
for every definition the source lines it stands for.

## 1. The system: inventory

| component | state it keeps | operations | meets the others through |
| --- | --- | --- | --- |
| agents CLI and run lifecycle (`cli.ts`, `run-agent.ts`, `run-events.ts`, `runs.ts`) | a row of `runs` and a transcript in `run_events` per run; in the process: the sequence counter, the warning counter, the result message | startRun, openRunLog and its writes, the loop over the model's messages, the catch and the finally, finishRun; main's loop over the roster | the tables; launched by cron, by hand or by the console |
| run detail page (`live/agents_live/run.ex`, `run_tail.ex`) | per socket: the row as last read, the events shown, the cursor, whether a tail timer is armed, degraded or not | mount, tail tick, reload | reads the tables every second |
| agents console (`live/agents_live/index.ex`, `agents/spawner/system.ex`) | per socket: `:starting`, `:active_run`, `:db_unavailable`, timers in flight (heartbeat, await, tail) | mount, trigger, heartbeat, await_run, tail tick | reads the tables, launches CLI processes |
| finds, feed and feedback (`queries.ts`, `mcp-tools.ts`, `finds.ex`, `live/feed_live`) | `finds` with its status, `feedback` with a foreign key to it | save_find, update_find_status, star, hide, thumbs, bulk buttons, promotion and deletion of provisional rows | agents, stewards and interviews write the same rows |
| interviewer (`interview.ts`, `interview-staging.ts`, `interview-journal.ts`, `interview-tools.ts`) | four live configuration files, a staging directory, the journal, provisional rows | cycles of conversation, build, sample run, review; gate; promote; restore; the prepared path | runs the prospector, writes `finds`, the files every agent reads |
| places, annotations, dedupe (`custom-places.ts`, `place-dedupe.ts`, `place-sort.ts`, `0005_custom_places.sql`) | `custom_places`, the materialized view `osm_places`, annotations | insertCustomPlace, upsertPlaceAnnotation, refresh, import, dedupePlaces, listPlacesRanked | finds refer to places; a run's tools and its finally block write and refresh |
| sources and fetches (`queries.ts`, `web-fetch-log.ts`, `path-guard.ts`) | `sources` with a count of finds, `fetches`; per scout run: the hosts to skip, the calls without a result | upsertSource, insertFind's count, recordFetch, clearFetchHistory, blockedHosts | the hook before every fetch of a scout; save_find |
| configuration files (`config.ts`, `interview-tools.ts`) | region, towns, categories, profile, each with a template | the writers of the interviewer's tools, the readers of the agents, hand edits | the geocoder between reading and writing towns |
| migrations, deployment (`migrate.ts`, `scripts/deploy`) | `schema_migrations`, the server's checkout | apply, deploy | two machines |
| iCal and geocoding (`ical.ts`, `geocode.ts`) | none | parseICal, runIcalFetch, geocodeTowns | tools of the agents and the interviewer |
| accounts and sessions (`accounts.ex`, `user_auth.ex`) | tokens, the cookie | log in, reissue, log out | gates the steward's actions |
| settings, URLs, pagination; read-only pages; the retired Next.js front end; the SQLite transfer | none that outlives a request | pure functions, reads, one batch | - |

What is hard:

* **Two tables, many readers, no notification.**  Everything a page knows it
  learnt from a poll.  run_end and the row are two writes; the launch of a
  process and its row are seconds apart; a killed process says nothing, and only
  the age of its row gives it away.
* **Timers that are never cancelled.**  A page arms a timer for each thing it
  waits for and a message that arrives late meets a page that has moved on.
* **Failure of the database at every read and write.**  The pages degrade, the
  run goes on without its events, the final update may commit and yet fail.
* **An interview is a transaction over files, rows and a journal** that is
  neither atomic nor isolated: it dies at any point, and the feed goes on with
  the same rows meanwhile.
* **Check, then act, on what several runs share**: a place looked for in a view
  that lags, a file read before the geocoder is asked, a migration looked up
  before the loop, a cursor of feedback derived from the runs themselves.

What makes the components correct, in the words the modules use: the transcript
is exactly what was written or lost (`SeqsAccountedFor`); row and run_end agree
(`RowAgreesWithTranscript`); a reader shows an initial segment of the transcript and
all of it in the end (`ShownUpToCursor`, `TailDelivers`, `SettledPageIsComplete`);
a healthy console always has the poller for what it waits for (`NeverUnwatched`)
and lets go of its button and banner (`StartingIsReleased`, `BannerClears`);
interviews put files, leads and answers where the user's decision says
(`LeadsWereKept`, `RealFindsSurvive`, `ConfigGated`, `RejectRestores`,
`PromotedWhole`, `AnswersSurvive`, `KeptTakesEffect`); a host is skipped exactly
while its own latest outcomes are refusals (`BlockedIsAStreak`, `OnlyOwnOutcomes`);
feedback falls behind the cursor untold for two reasons only, a list at its
limit and a run that counts without having read it (`UnreadHasACause`); only runs
that overlap add a place twice, a sweep hides a place behind one that is shown,
and an added place appears (`TwinsOverlap`, `SweepIsClean`, `AddedIsShown`); a
migration takes effect once and in order (`AppliedOnceInOrder`); a source counts
its finds (`FindsAreCounted`); what a tool wrote is what the agents read, and
boxes of towns survive (`WritesReadBack`, `TownsKept`).

## 2. The modules

    RunTables <-- AgentRun <-- RunDetail <-- MCRunDetail       extended by
                     ^-- MCAgentRun --> Places --> DuplicateGroups
    RunTables <-- RunFeed <-- AgentsConsole <-- MCAgentsConsole
    Finds <-- Interview <-- MCInterview
    Fetches <-- MCFetches
    Fetches, Feedback, ConfigFiles, Migrations, Sources, Cases <-- MCTools
    Cases --> DuplicateGroups, Listing, ICal;  Listing, ICal --> StableSorting
    ConfigFiles, Fetches, DuplicateGroups, StableSorting --> Selections

    AgentRun  implements RunFeed          ImplementsFeed
    RunDetail implements TranscriptView   ImplementsView

    AgentRunProofs <-- RunDetailProofs --> RunTablesProofs <-- AgentsConsoleProofs
    DataLemmas <-- AgentRunProofs, ToolsProofs, PlacesProofs

Each `...Proofs` module extends the module it is named after; `ToolsProofs`
extends `MCTools`, whose parts it treats one by one, and `PlacesProofs` extends
`Places` and `Cases`.  `DataLemmas` holds what the proofs need of finite sets,
sequences, recursive functions and `Selections`: rows picked in order, and rows
in another order.

**RunTables** - the two tables and the pure reads of them: `Stale`,
`InProgress`, `CountWarnings`, `EventsSince`, `Drain`.  A run is its serial id.
The clock is `now`, the number of runs that are past the staleness bound
(RUN_STALE_MS, 20 minutes): because started_at grows with the id these are the
runs `1 .. now`, and nothing else in the code looks at a duration.  Events keep
their sequence number and a kind; assistant text, tool use and a good tool
result are one kind, because no reader treats them differently.

**AgentRun** - `cli.ts` and `run-agent.ts`.  Every database call of a process is
a step of its own, so a reader sees every state in between.  `step[r]` is where
`runAgent` stands: `opening` (run_start), `streaming`, `writing` (the events of
one SDK message, one by one), `reporting` (the error event of the catch),
`ending` (run_end), `finishing` (finishRun), `over`.  `Faults` chooses the
failures: startRun throws before or *after* its INSERT committed, an event write
fails (and still takes its number: `seq++` is evaluated before the INSERT is
sent), finishRun fails before or *after* its UPDATE committed, the process is
killed.  startRun is called outside the try: a row whose INSERT committed but
whose id never came back is an `orphan`, running for good, while main goes on
with the next agent.  `FinishFails` in the try
leads to the catch, which writes a second run_end and calls finishRun again.

**RunFeed** - what the tables promise to readers: rows appear in the order of
their ids, at most one for every agent of a launched process; a transcript only
grows, and only behind its end; a row leaves `running` once.  That a run ends,
or that its transcript is closed, is not promised.  AgentRun implements it, so
what is shown of a reader over RunFeed holds beside the real CLI.

**RunDetail** - one socket of the detail page over AgentRun.  The mount and the
tick issue several queries; each is a step, and each may bounce.
**TranscriptView** is what its reader is promised: the list on the screen only
ever grows by later events.

**AgentsConsole** - any number of console sockets over RunFeed, whose launches
they take over.  A handler is one step, except that each of its reads may
bounce; timers are counted, not sequenced, because Process.send_after messages
of different delays arrive in any order.  Launches of others (cron, a terminal)
are steps too.

**Finds** - the statuses of `finds` and everything that changes them.  A row is
its url_hash.  `leadOf` is a history variable: the sample run that saved the
row, until a steward or the curator sets its status.  The rows a feed page acts
on are any set of rows still present, since a page can be filtered in any way
and can be older than the table.

**Interview** - `runInteractive` and `runPrepared`, statement by statement:
`pc` names the next one.  Copies and restores go file by file, in any order;
one file is copied at once.  `Die` is a kill, a Ctrl-C or an exception nobody
catches (`Throws`: the DELETE refused by the foreign key, or a build without a
region).  It forgets what the process held in memory and leaves the staging
directory, the rows, the journal and the live files.  set_towns is two steps,
because it awaits the geocoder (`TownsAsked`, `TownsWritten`) and asks for its
path only when it writes: when the stream of a build throws meanwhile, the call
writes where the files are live again, during what the process still does or
behind it.  The other tools write in one go.

**Fetches** - the fetch log and the hosts a scout skips.  A text is what
classifyWebFetchResult reads of it, the first "HTTP ddd" and the marker of a
truncated page; a page may speak of HTTP statuses itself.  `skip` is the
blockedSet of each run, read once; the hook answers from it, and its denial
comes back as the result of the call (this is what the agent SDK does; the
comment at run-agent.ts:38 relies on it), to be classified and logged as any
other.  blockedHosts is the loop of the code as a recursive function over the
rows, newest first.

**Places** - the directory.  `osm`, `custom` and `notes` are the tables, `view`
the materialized view: what it held when it was last refreshed.  A save_place
call is three steps, the query of the view, the query of `custom_places`, the
INSERT with its COMMIT, so two runs interleave inside it; a reply can be lost
after the commit, and a stream that throws leaves its call running.  Names,
towns and distances are two constants: `Same`, the pairs the duplicate checks
take for one place, and `Near`, those the sweep does.  `RefreshByHand` is the
import on the database host and its refresh; it may drop an element and bring
it back.  A sweep reads in one step and marks in another.  **DuplicateGroups**
is groupPlaceDuplicates: the loop over pairs, find with its path compression,
the clusters, and chooseCanonical.

**Listing** - the two paged lists: listPlacesRanked (limit, annotation, filter,
ranking or column order, page) and getFeedPage (the filter of the views, the
count, the ORDER BY, LIMIT and OFFSET).  An ORDER BY that leaves ties open allows
a set of orders (`QueryOrders`): each page of either list is a query of its own
and may get another one of them.  **StableSorting** is Array.prototype.sort:
`Arranged` puts every row where the number of rows that go before it says.

**ICal** - lines as what parseICal looks for in them, unfolded, parsed line by
line, the first candidate url that answers with a feed, and the report cut to
its limit.

**Cases** - these algorithms over all small inputs, which grow by one row at a
time, and what they should return, said without them.  Of the two lists it says
two things.  One answer of the query, cut into pages, is shown whole: every row
once, in its place, up to the limit.  From page to page the order of ties may be
another and the last row may have come or gone (`Tables`), for the feed between
its count and its page too: then only the ties move, and the rows behind the one
that came or went, by as much as the table has grown (`PagesMoveWithTheTable`).

**ConfigFiles** - the files as missing, malformed or a content.  set_towns is a
step that reads, one per town for the geocoder, and one that writes; hand edits
come between.  A name with characters JSON.stringify escapes reads back
otherwise.

**Feedback** - feedback rows and the runs of one agent as times; the two queries
of readFeedbackForAgent are two steps, and either may throw.  A run ends with
any status whether or not it has read its feedback: neither finishRun nor
statusFromResult asks.

**Migrations** - runMigrations: the reading of schema_migrations, then per file
BEGIN, the SQL, the row, COMMIT, each a step; a runner can stop at each.

**Sources** - upsert_source, two statements without a transaction, and the part
of save_find that looks a source up, inserts the find and counts it.  A key
that another open transaction has inserted is waited for, as PostgreSQL does.

## 3. What the runs show

| run | instance | what it shows |
| --- | --- | --- |
| `agent_run` | part run: 1 process, a roster of up to 2, 1 row, run_start and up to 3 body events, all faults. Part places: 2 sessions, 1 café that is on the map until an import drops it, 2 custom rows, 1 annotation | the transcript's numbers are accounted for; row and last run_end agree, and the warnings with the tool errors written; a run ends unless its process or the database dies, or the id of its row is lost; every step is one `RunFeed` promises. A twin of a place is added only by runs that overlap; a sweep leaves nothing to the next and hides nothing behind a hidden row; an added place appears however its run ends |
| `run_detail` | 1 process, 1 run with 1 body event; lost writes, a lost reply of finishRun, a kill; bounces of every query | cursor and screen agree; a settled page is complete; a page opened on a live run shows everything it writes, or is degraded or left, or the run is stale; the tail stops; `TranscriptView` is implemented |
| `agents_console` | 1 socket, 2 runs of up to 2 events, launches from outside, bounces, a failing spawn | the poller needed is always there; the button and the banner are released; a run is noticed |
| `interview` | 1 find, 2 interviews of up to 2 cycles, 3 files (the profile with two contents), a cold machine, 1 answer | see the properties above; the feed acts on the find at any time |
| `tools` | fetches: 2 hosts, 2 scouts with 1 call out each, 2 strikes, logs of up to 4 rows, a window of 3, inserts that fail | blockedHosts finds exactly the hosts on a streak; a host's block begins by its own site's answers and ends by its own outcomes, by clearing, or out of the window |
| | feedback: 3 rows, 2 runs, times 0 to 2, a limit of 2 | what is older than the cursor was told to a run that counted, or such a run was full, or counted untold |
| | files: 2 names of regions, 2 towns, 2 boxes, hand edits, 2 kinds and a wildcard in 2 tiers | existing boxes survive set_towns; what was reported as written reads back |
| | migrations: 2 runners, 3 files | each recorded file took effect once, in order |
| | sources: 2 urls, 2 finds of which 1 a lead, 2 writers, 1 deletion | finds_count is right whatever interleaves |
| | cases: 4 rows with every nearness; 3 places or finds; 6 lines with up to two dated events | groups are connected components; an answer is shown whole and once, and between two queries only ties and the rows behind one that came or went move; fetch_ical reports the calendar in order, up to its limit |
| `stats_settle` | as `run_detail`, no fault | finding: the page reads run_end, re-reads a row that is still running, and shows it for good |
| `stale_flagged` | as `run_detail`, kill only | finding: a page opened on a live run never shows it as stale |
| `one_run` | 2 sockets, 2 processes | finding: both pass the in-progress guard before the first row is there |
| `writes_confirmed` | 3 files | finding: a prepared generation that does not succeed leaves the live files rewritten, without a question |
| `leads_confirmed` | 3 files, set up by hand | finding: no difference in the files, no question, and the sample's leads enter the feed |
| `hard_block` | the fetches of `tools` | finding: the denial of a blocked host is logged as an ok outcome and ends its block |
| `staged_until_confirmed` | 3 files, a cold machine, 1 cycle | finding: a set_towns that waits for the geocoder while its build fails writes the live towns.json unasked |

The last seven check one sentence of the repository's own documentation each and
find it violated; the quotation and the trace are in `PROJECT.json`.

**Runs of several parts.**  `agent_run` and `tools` check specifications that
share no variable, each in behaviours of its own: `part` is chosen in the
initial state and never changes, and the other parts stay in their initial
states.  An interleaving of two such parts changes no property, since each
property speaks of the variables of one part.  Fairness of a part that is not
chosen asks for nothing: none of its fair actions is enabled in its initial
state.  The symmetry of `tools` moves hosts and scouts, which only the fetches
know.

**Bounds, and why they are enough.**  The state of a run in AgentRun is its own:
nothing but the roster loop and the serial id relates two runs, so one row, with
an agent of the roster that fails before its row, reaches every step of
`runAgent`; the theorems hold for any number.  Its three body events give a
lost write, an event behind it and a tool error between two steps.  The detail
page looks at one run; with run_start, a body event and one or two run_ends its
batches begin, are cut and end in every position.  The console needs two runs:
the least for which a page can meet a run of someone else, tail one run while
another begins, or see a stale row beside a young one.  Two interviews of two
cycles give leads of an earlier cycle, of the final one and of an earlier
interview, and a restart after a death; one key is enough for the properties,
each of which is about a single row, because the statements treat rows alike
(the proofs hold for any set of keys).  Three files give a file that everything
needs (region), one that may stay missing (towns, which also needs the region),
and one that the sample run itself edits (profile).  In `Fetches` two strikes
within a window of three rows and a log of four give a streak that is cut by
its own host, interleaved with the other, pushed out of the window, and back in
when the other host is cleared; the code's 3 and 2000 differ in size only, and
hosts and scouts are interchangeable (symmetry).  Two sessions are the least
that overlap, two custom rows the least that can be twins, and one element that
leaves the map and comes back gives a twin of a row the sweep has already
judged; one annotation is enough to mark or hide one of them between the
sweep's two steps.  Three feedback rows with a limit of two overflow it, and two
runs overlap in every order of their two queries.  Two towns give two of one
name and one of each; two tiers a kind and its wildcard in either order.  Three
files give a runner one behind and one ahead of the other.  Four rows are the
least for which two roots with a child each are joined; three rows fill two
pages of two, tie with each other, and leave two when one is gone; a limit of
two cuts them.  Six lines hold two dated events of three lines each, in either
order of their dates: the report's limits of 0 to 2 cut them or do not, and an
event of a day that has passed is left out; or one event with a summary, a
folded value and lines out of place.  `MaxCustom`, `MaxNotes`, `MaxFeedback`,
`MaxReaders`, `MaxTime`, `MaxTowns`, `MaxDropped`, `MaxRows`, `MaxListed`, `MaxLines`, `MaxRuns`, `MaxRoster`,
`MaxFetches`, `MaxFlight`, `MaxEvents`, `MaxInterviews`, `MaxCycles`, `MaxAnswers` and the timer bounds of
`MCAgentsConsole` are guards of the actions that count.  `MaxCycles` is no
abstraction above 3: `preliminaryCycles` gives at most two.

**Deadlock** is not checked in the runs whose system may really stop: processes
exit, pages are left, interviews come to an end.

**Fairness.**  A process the kernel runs makes progress (`WF` on each process'
steps and each run's), and time passes (`WF` on `Age`).  The steps of a
mounted page are fair, because a timer that is armed fires; a console has
fairness of `TimerFires` only, and nothing is assumed of the runs it watches.
Nothing makes anybody launch a process, open or leave a page, click,
or answer, and no failure is forced.  In Places a run that is up ends, because
its turns and its budget are capped, and a refresh comes back, well or not; no
tool call, sweep or import is fair.  Of an interview only `Proceed` is fair:
what the process does without waiting for the model or for the user.
Liveness properties name what can prevent them (a death, a row whose id was
lost, a degraded page) because the code promises nothing more.

**Mutants.**  Every property of a passing run has a definition marked "Mutant
of": a plausible bug of that operation.  Put in place of the operation, it makes
TLC find the property violated under the same configuration.

## 4. What is proved

Thirty-five theorems hold for every value of the constants that satisfies the
named assumptions of the modules.  None limits the numbers of runs, processes,
sockets, keys, files, cycles, interviews, hosts, sources, towns or places, the
length of a list or of a calendar, or the size of the window and the limits.
Every invariant and every action property of a passing run is among them, and
so are both refinements.

| theorem | says | rests on |
| --- | --- | --- |
| `RunTyped`, `RunSeqsAccounted` | AgentRun keeps its types; stored and lost numbers are exactly `0 .. nextSeq-1`, each once | `RunInv` |
| `RunRowAgrees` | a final row agrees with the transcript: run_end, status, warnings | `RowInv` |
| `RunImplementsFeed` | AgentRun implements RunFeed | `FeedInv` |
| `DrainAdvances` | a drained batch is the transcript between the old and the new cursor | the maximum of a finite transcript |
| `PageTyped`, `PageShowsPrefix` | a page that is not degraded shows exactly the events up to its cursor | `DetailInv` |
| `PageSettles` | a page at rest with a final row misses closing events only | `SettledInv` |
| `PageImplementsView` | the page implements TranscriptView, for every run | `DetailInv` |
| `ConsoleTyped`, `ConsoleWatched` | no timer is consumed twice; a healthy page has its poller | `ConsoleInv`, over RunFeed's types |
| `InterviewTyped`, `InterviewKeepsLeads`, `InterviewSparesFinds` | types; a lead nobody touched is in the feed only if it belongs to the final sample of a kept interview; finds of others are spared | `LeadInv` |
| `InterviewAnswers` | no answer is lost | `AnswerInv` |
| `InterviewRestores`, `InterviewPromotes`, `InterviewAsks` | a no leaves the live files as they were; past the copy every staged file is live; a live file changes only after a yes, or by a set_towns its failed build left behind | `FileInv` |
| `InterviewCleansUp` | an interactive interview that ended leaves no lead and no staging directory | `LeftInv` |
| `MigrationsApply` | every recorded migration took effect exactly once, no other did, and they are an initial segment | `MigrationsInv` |
| `SourcesCount` | finds_count counts | `SourcesInv` |
| `FeedbackReaches` | feedback falls behind the cursor untold only by a full list or a run that counts unread | `FeedbackInv` |
| `FetchesBlock`, `FetchesOwnOutcomes` | blockedHosts is the set of hosts on a streak; a host comes and goes by its own outcomes | `SoundFor`, row by row |
| `FilesReadBack`, `FilesKeepTowns` | what was reported as written is read; boxes of towns survive | `CfgInv` |
| `ToolsTyped` | the types of all these parts | the invariants above |
| `PlacesTyped`, `PlacesNoTwins` | types; a save adds no twin of what its transaction saw | `DirectoryInv`, `NotesInv` |
| `CasesGroup` | groupPlaceDuplicates returns the connected components | `SortedAt`, pair by pair |
| `PagesOfAnySize`, `CasesPages` | every answer of the directory and the feed is shown once and in its place, whatever its pages; from one query to the next only ties and the rows behind one that came or went move | `Shows`, `Stretches`, `StablySorted`; `PlacesMove`, `RowsMove` |
| `FetchReports`, `CasesCalendar` | fetch_ical reports the dated events to come, each once, by date, and tells when it cut | `ParsedTo`, line by line |
| `PlacesSweep` | a sweep whose reading is true leaves nothing to the next, and hides nothing behind a hidden row | `CasesGroup`'s lemmas, `GroupsFit` |

**The assumptions.**  Bounds are naturals; `Batches` is a set of non-empty
sequences of body events, `Faults` a set of the failures above; the profile
template is among the profile's contents.  A mark is none of the values it is
told apart from: `Unset` (NULL) is no source and no row, `None` no call and no
place, `Missing` and `Malformed` no content of a file.  The elements of the map
are finitely many and sort behind custom rows ('custom/...' is before 'node/...'
and 'way/...').  The tiers of the categories are numbered and
the wildcard is not a value (tierOf compares with it).  Places near each other
are the same for the insert's wider check.

**Why the invariants are what they are.**

* `RunInv`: types, and what keeps them: a busy process has an agent left in its
  roster, and a run in `writing` an index inside its message.  Sequence numbers
  are accounted for because an event takes its number whether or not its INSERT
  succeeds.
* `RowInv` adds, for each place runAgent can be at, what row, transcript and
  result have to do with each other (`PhaseOf`), and that the warnings counted so
  far are the tool errors tried so far, which lie between those stored and those
  stored or lost (`Counted`).  The hard step is the second finishRun: the first
  may have committed before it threw, and the catch may write one more run_end;
  both are computed from the same `result`, which nothing changes in between.
* `FeedInv` adds how far a run can get: each place is so many events before its
  last number, so the numbers stay inside what RunFeed allows; and that the rows
  still owed are finitely many, because a step moves the count of one process.
  Each step of the CLI is then one of RunFeed or a stutter.
* `DetailInv`: an event gets a number above every cursor a page can hold, so a
  write between two reads lands behind the cursor.
* `SettledInv`: the page reads the row before it reads the events it shows last;
  a row that is final then stays so, and only closing events follow it.
* `LeadInv`, below.  `AnswerInv`: answers that left the journal are at most those
  in the build whose files are live.
* `FileInv`: at each place of the interview, which live files are still as it
  found them; copy and restore add one file at a time to `done`.  `LeftInv`: the
  leads of an abandoned conversation go before its directory, those of a reject
  after it; and only a sample run makes leads (`NoNewLeads`).
* `MigrationsInv`: what a runner has read as recorded is, the files behind it
  are, and the key of an inserted row is neither recorded nor held by another.
* `SourcesInv`: a transaction that has inserted a find owns its url_hash: it is
  in no row and in no other open transaction; the source it refers to exists.
  That is why it counts once.
* `FeedbackInv`: a cutoff read by a run stays at or before the cursor, and a run
  that has been told leaves nothing older than its start untold but by its
  limit, so the cursor may move to that start when the run counts; a run that
  was not told accounts for what it passes over itself (`PassedOver`).
* `SoundFor`: after n rows of the window a host is done exactly if not all of its
  outcomes among them are refusals, its streak counts them until then, and it is
  blocked exactly if some prefix was a streak.
* `CfgInv`: the readers give back what each writer wrote (a town with its box, a
  kind through the last entry that wins and its wildcard), until a hand edit
  clears the report; a call holds the towns of the file it read, all with valid
  boxes.
* `KnownInv` in `DirectoryInv`: behind the query of the view no element of the
  map that was known is a twin, behind the query of custom_places no known row
  is one; known rows only become fewer, as refreshes drop them.
* `SortedAt`: after k pairs of a bucket the parent pointers are a forest whose
  trees are the components of the links among those pairs.  Path compression
  keeps every root (`CompressedIs`); a union joins two trees (`UnionIs`) and two
  components (`SortedUnion`).  The fold over the pairs is unrolled by a function
  whose existence is proved (`LooksExist`).  The buckets by name then give the
  components of all rows, and a sweep marks all of each but its canonical row,
  so no two rows that are left are near.

* `StablySorted`: a comparison that is never true both ways, and that separates
  any third row from one of the two it separates, puts all rows in one line when
  ties go by position (`TiesByPosition`).  Each row then has its own number of
  rows before it, and these numbers are all of `0 .. n-1` (`ArrangedIs`), so
  `Arranged` leaves no row out and shows none twice.  `Shows` leads from each
  row of the ranked list back to the row of the directory it is of; pages are
  stretches that follow each other (`Stretches`), and their concatenation is a
  recursion whose existence is proved.
* `PlaceOf`: a row without a tie has a place that does not depend on the order
  the query chose, the number of rows that go before it.  With one row more this
  number grows by one at most (`PlacesMove`), and so does the page (`PagesMove`).
  For the directory the order is that of the ranking, with town and name where
  it does not tell: a stable sort of what the query has sorted keeps both
  (`RankedEnumerates`).
* `ParsedTo`: after n lines parseICal holds the event that is open, if one is,
  as the last line of each field gives it (`SoFar`), and every dated block that
  has ended, numbered without repetition (`Numbered`).  A BEGIN:VEVENT forgets
  what was open, an END:VEVENT closes it (`EndsAs`), a delimiter with text behind
  it does neither.  The filter and the sort carry the numbering along
  (`ToComeIs`, `UpcomingIs`), and the report cuts behind its end.

Why `LeadsWereKept` needs a strengthening: `promoteProvisionalFinds` promotes by
status.  That it promotes the right rows follows from the past: `ClearLeads`
must have succeeded between any earlier cycle and this sample run, so from
`start` on every provisional row is a lead of *this* interview and *this* cycle,
and when the gate said yes that pair went into `kept`.  The invariant says both
for each place `pc` can be, and that `kept` and `leadOf` name no interview that
has not started.  The feed cannot break it because no feed action makes a row
provisional, and whoever sets a status takes the row out of the lead's history.

**Only model-checked.**  Liveness under fairness (`RunsFinish`, `TailDelivers`,
`TailStops`, `StartingIsReleased`, `RunIsNoticed`, `BannerClears`,
`KeptTakesEffect`, `AddedIsShown`) needs ENABLED, which is beyond the prover.
The properties of the runs that expect a violation are refuted by TLC and have no
proof.

**Induction over lists.**  The theorems about algorithms do without the library's
induction: that a recursive function exists is proved from its step
(`RecursionExists`), and the least position where a statement would break stands
for the induction (`LeastNatural`).  No module here uses RECURSIVE.

The theorems about `Cases` hold for lists and calendars of any length over the
rows `Cases` names: two names, a kind, a town and a brand or none, two dates.
The properties ask for pages of two rows, some limits and two days;
`PagesOfAnySize` and `FetchReports`, which `CasesPages` and `CasesCalendar` rest
on, are for every column, page size, limit and day.

## 5. What is abstracted

* Texts, costs, turns and usage are left out; `status` and `warnings` are what
  the readers decide on.
* A handler of the console is one step: between two of its reads the tables may
  change in the program and do not here, except that a later read may bounce.
  The guard of the launch and the row the process inserts are separate steps,
  which is where it matters.
* One interview is at work at a time: paths.ts says "Single-threaded, sequential
  use only" and nothing enforces it.  A scheduled prospector that edits the live
  profile during an interview is left out too; `ConfigGated` speaks of the
  interview's own writes.
* The tools that write are on the MCP server of the conversation too
  (interview.ts:191), under bypassPermissions; `Interview` assumes that a model
  calls only what its prompt and its allowedTools name, so that they rest while
  it converses.  It assumes of the SDK that a query reports a success only when
  every tool it called has answered: a set_towns outlives a build that failed,
  never one that succeeded.  One such call is pending at a time.
* A question in the journal without its answer is not counted; a transcript may
  hold questions only.
* The sample run inside an interview is its saves and its edits; its row and
  transcript are those of AgentRun.
* A url that does not parse is neither denied nor logged, and is left out of
  `Fetches`; a redirect counts as an answer of the host that was asked for.
* `markFindsShown` has no caller in the agents and only the retired front end's
  feed calls it; it is left out.
* Dates, names, kinds and towns of the lists are numbers in their sort order;
  a date of a calendar is a number, and a value that cannot be read as one is in
  pieces.  A point is a membership in `Near` and `Same`.
* save_place begins where geocodeAddress has found the address; its other
  answers change nothing.  The throttle in front of it (mcp-tools.ts:193) spaces
  calls out, and two calls that wait for the same time are not told apart.
* finds_count is compared with the rows there are and those an interview has
  deleted: the program never counts down.
* set_find_expiry and the anchor row insertFind leaves for a lead's place are
  single statements no property looks at.

**Not modelled:** the stages of the deployment scripts, accounts and sessions
(planned below); the settings and url parameters of the feed, agents.json,
map-categories.json, town boundaries and the Elixir readers of the configuration
(parsing of one request or of one file that nothing writes); rendering; the
SQLite transfer, which ran once; the retired front end.

Disagreements between documents and code that no run shows: migration
`0004_run_events.sql` calls the numbers gap-free, while a swallowed write leaves
a gap (`AgentRun` models the gap); after a run shorter than one heartbeat the
console can have two heartbeat loops (`AgentsConsole` counts them), and a
heartbeat in flight when the page degrades re-arms itself (index.ex:212-213),
while its comment says that a degraded page polls no more; queries.ts:389-390
says that a run that counts has read its feedback, while neither finishRun nor
statusFromResult asks (`UnreadHasACause` names the case); `config.ts`
calls the interviewer the only writer of the prospector's ICP, which the
prospector edits in every run; the directory's LIMIT 500 cuts by town and name
(queries.ts:553) before anything is ranked, so `max_tier` of list_places can
miss places of the best tier; `scripts/dedupe-places.ts` does not wait for
dedupePlaces and reports undefined numbers; a journal line written in part
swallows the line appended behind it.

## 6. Plan

In this order; what is done is marked.

1. [done] RunTables, AgentRun, RunFeed; RunDetail, TranscriptView;
   AgentsConsole; Finds, Interview; the proofs of section 4.
2. [done] Fetches; Places with DuplicateGroups; Feedback; ConfigFiles;
   Migrations and its theorem; Sources; Listing and ICal with their reference
   definitions in Cases.
3. [done] The proofs of Places, Sources, Feedback, Fetches, ConfigFiles and
   Cases; the two refinements; the rest of Interview, `RowAgreesWithTranscript`
   and `SettledPageIsComplete`; `PagesShowTheList` and `ICalReportsCalendar`.
4. `Sessions`: tokens, reissue, logout, remember-me.
5. `Deploy`: stages with a failure after each and a retry.
6. Interview with other writers of the live files, then two interviews at once;
   the feedback cursor composed of Feedback and Interview (the sample run of a
   rejected interview moves it).
