----------------------------- MODULE Interview -----------------------------
(***************************************************************************)
(* The interviewer (packages/agents/src/interview.ts).  The interactive    *)
(* path works in cycles of conversation, build, sample run and review on a *)
(* staging copy of four configuration files, and asks the user at the end; *)
(* keeping copies the staged files over the live ones, moves the sample's  *)
(* leads into the feed and archives the journal.  The prepared path lets   *)
(* the model write the live files and restores a snapshot on a reject.     *)
(*                                                                         *)
(* One interview is at work at a time, as paths.ts requires ("Single-      *)
(* threaded, sequential use only"): the journal and the provisional rows   *)
(* belong to whoever is at work.  The other agents, the curator and the    *)
(* stewards go on with the feed meanwhile.  A process dies at any point,   *)
(* by the user, or by an exception nobody catches; the next one starts     *)
(* from the journal, the rows and the live files it left behind.           *)
(*                                                                         *)
(* The tools that write a file do so in one go, except set_towns: between  *)
(* its reading and its writing it awaits the geocoder, and it asks for the *)
(* path when it writes.  Two things are taken from outside src/: a model   *)
(* calls the tools its prompt and allowedTools name, so that the writers   *)
(* rest while it converses although its server has them; and an SDK query  *)
(* reports a success only when every tool it called has answered.          *)
(***************************************************************************)
EXTENDS Finds

CONSTANTS
  Artifact,     \* STAGED_ARTIFACTS
  Region,       \* config/region.md
  Towns,        \* config/towns.json
  Profile,      \* agents/prospector/profile.md
  Text,         \* Artifact -> the contents it may be given
  Missing,      \* no such file
  Template,     \* what ensureWorkspace writes into a missing profile.md
  Setups,       \* the live files a machine may start with
  MaxAnswers    \* bound: answers ever given

Content == (UNION {Text[a] : a \in Artifact}) \cup {Missing}

ASSUME ArtifactAssumption == {Region, Towns, Profile} \subseteq Artifact
ASSUME TextAssumption ==
  /\ DOMAIN Text = Artifact
  /\ Template \in Text[Profile]
  /\ \A a \in Artifact : Missing \notin Text[a]
ASSUME SetupsAssumption == Setups \subseteq [Artifact -> Content]
ASSUME AnswersAssumption == MaxAnswers \in Nat

VARIABLES
  number,     \* interviews started so far; the last of them may be at work
  pc,         \* where it stands
  cycles,     \* its totalCycles, 0 in the prepared path
  cycle,      \* its current cycle
  staged,     \* the files of its staging directory
  before,     \* the live files at its start; the prepared path's snapshot
  done,       \* files copied or restored so far
  answer,     \* the outcome of its gate
  pending,    \* a set_towns of it awaits the geocoder; bound: one at a time
  dir,        \* its staging directory is on disk
  live,       \* the live files
  journal,    \* answers in session.jsonl
  answered,   \* history: answers given so far
  built,      \* history: answers given before the transcript of its last build
  liveFrom,   \* history: `built` of the interview whose files went live
  kept        \* history: the final sample runs of the interviews that were kept

workVars   == <<cycles, cycle, staged, before, done, answer, pending>>
answerVars == <<journal, answered, built, liveFrom>>
vars == <<findsVars, number, pc, workVars, dir, live, answerVars, kept>>

Pc == {"convo", "build", "clear", "start", "sample", "review",
       "gate", "copy", "promote", "unstage", "archive",
       "abandon", "abandoned", "revert", "reverted",
       "generate", "confirm", "restore", "over", "dead"}

InterviewTypeOK ==
  /\ FindsTypeOK
  /\ number \in 0 .. MaxInterviews
  /\ pc \in Pc
  /\ cycles \in 0 .. MaxCycles
  /\ cycle \in 0 .. MaxCycles
  /\ staged \in [Artifact -> Content]
  /\ before \in [Artifact -> Content]
  /\ done \subseteq Artifact
  /\ answer \in {"none", "unasked", "yes", "no"}
  /\ pending \in BOOLEAN
  /\ dir \in BOOLEAN
  /\ live \in [Artifact -> Content]
  /\ journal \in 0 .. MaxAnswers
  /\ answered \in 0 .. MaxAnswers
  /\ built \in 0 .. MaxAnswers
  /\ liveFrom \in 0 .. MaxAnswers
  /\ kept \subseteq Sample

NoFiles == [a \in Artifact |-> Missing]

Init ==
  /\ FindsInit
  /\ number = 0
  /\ pc = "over"
  /\ cycles = 0
  /\ cycle = 0
  /\ staged = NoFiles
  /\ live \in Setups
  /\ before = live
  /\ done = {}
  /\ answer = "none"
  /\ pending = FALSE
  /\ dir = FALSE
  /\ journal = 0
  /\ answered = 0
  /\ built = 0
  /\ liveFrom = 0
  /\ kept = {}

(* The process outlives its main() until the call has come to its end. *)
AtWork == pc \notin {"over", "dead"} \/ pending

Goto(from, to) == pc = from /\ pc' = to

-----------------------------------------------------------------------------
(* The interactive path: runInteractive. *)

(* createStagingDir, seedStaging; depth gives one to three cycles. *)
StartInteractive(n) ==
  /\ ~AtWork
  /\ number < MaxInterviews
  /\ number' = number + 1
  /\ pc' = "convo"
  /\ cycles' = n
  /\ cycle' = 1
  /\ dir' = TRUE
  /\ staged' = live
  /\ before' = live
  /\ done' = {}
  /\ answer' = "none"
  /\ built' = 0
  /\ UNCHANGED <<findsVars, pending, live, journal, answered, liveFrom, kept>>

(* io.ask: question and answer are in the journal before it returns. *)
Answer ==
  /\ pc = "convo"
  /\ answered < MaxAnswers
  /\ answered' = answered + 1
  /\ journal' = journal + 1
  /\ UNCHANGED <<findsVars, number, pc, workVars, dir, live, built, liveFrom, kept>>

(* An unfinished conversation, or one that left no transcript, gives up. *)
ConvoFails ==
  /\ Goto("convo", "abandon")
  /\ UNCHANGED <<findsVars, number, workVars, dir, live, answerVars, kept>>

(* The transcript of the build is the journal, which holds what the agent *)
(* asked and said as well: it need not have an answer in it.              *)
ConvoEnds ==
  /\ Goto("convo", "build")
  /\ built' = answered
  /\ UNCHANGED <<findsVars, number, workVars, dir, live, journal, answered, liveFrom,
                 kept>>

(* Mutant of BuildWrites: runBuild without setConfigDirOverride. *)
BuildWritesLive(a, text) ==
  /\ pc = "build"
  /\ live' = [live EXCEPT ![a] = text]
  /\ UNCHANGED <<findsVars, number, pc, workVars, dir, answerVars, kept>>

(* set_region, set_categories or write_icp, under the override. *)
BuildWrites(a, text) ==
  /\ pc = "build"
  /\ staged' = [staged EXCEPT ![a] = text]
  /\ UNCHANGED <<findsVars, number, pc, cycles, cycle, before, done, answer,
                 pending, dir, live, answerVars, kept>>

(* set_towns: runSetTowns throws while there is no region to take the state *)
(* from; with one it reads the towns and asks the geocoder.                 *)
TownsAsked ==
  /\ ~pending
  /\ \/ pc = "build" /\ staged[Region] # Missing
     \/ pc = "generate" /\ live[Region] # Missing
  /\ pending' = TRUE
  /\ UNCHANGED <<findsVars, number, pc, cycles, cycle, staged, before, done, answer,
                 dir, live, answerVars, kept>>

(* The geocoder has answered, and writeTownsConfig goes where configDir()   *)
(* points now.  A failed build took the override away, and discardStaging   *)
(* follows at once: the call then comes in while the leads are discarded,   *)
(* or when main() is through.                                               *)
TownsWritten(text) ==
  /\ pending
  /\ pending' = FALSE
  /\ \/ /\ pc = "build"
        /\ staged' = [staged EXCEPT ![Towns] = text]
        /\ UNCHANGED live
     \/ /\ pc \in {"generate", "reverted", "over"}
        /\ live' = [live EXCEPT ![Towns] = text]
        /\ UNCHANGED staged
  /\ UNCHANGED <<findsVars, number, pc, cycles, cycle, before, done, answer, dir,
                 answerVars, kept>>

(* A box that is not one, or a file that cannot be written. *)
TownsRefused ==
  /\ pending
  /\ pc \in {"build", "generate", "reverted", "over"}
  /\ pending' = FALSE
  /\ UNCHANGED <<findsVars, number, pc, cycles, cycle, staged, before, done, answer,
                 dir, live, answerVars, kept>>

(* Mutant of BuildEnds: a failed build forgets the leads. *)
BuildEndsForgetsLeads(ok) ==
  /\ ok => ~pending
  /\ Goto("build", IF ok THEN "clear" ELSE "abandoned")
  /\ UNCHANGED <<findsVars, number, workVars, dir, live, answerVars, kept>>

(* runBuild catches what its stream throws, and clears the override. *)
BuildEnds(ok) ==
  /\ ok => ~pending
  /\ Goto("build", IF ok THEN "clear" ELSE "revert")
  /\ UNCHANGED <<findsVars, number, workVars, dir, live, answerVars, kept>>

(* Mutant of ClearLeads: earlier leads stay. *)
ClearLeadsKeeps ==
  /\ Goto("clear", "start")
  /\ UNCHANGED <<findsVars, number, workVars, dir, live, answerVars, kept>>

(* discardProvisionalFinds before the sample run. *)
ClearLeads ==
  /\ DiscardProvisionalFinds
  /\ Goto("clear", "start")
  /\ UNCHANGED <<number, workVars, dir, live, answerVars, kept>>

(* runAgent reads the staged region, and ensureWorkspace fills in a profile. *)
StartSample ==
  /\ staged[Region] # Missing
  /\ Goto("start", "sample")
  /\ staged' = [staged EXCEPT ![Profile] = IF @ = Missing THEN Template ELSE @]
  /\ UNCHANGED <<findsVars, number, cycles, cycle, before, done, answer,
                 pending, dir, live, answerVars, kept>>

(* save_find under findStatusOverride. *)
SampleSaves(k) ==
  /\ pc = "sample"
  /\ InsertFind(k, "provisional", <<number, cycle>>)
  /\ UNCHANGED <<number, pc, workVars, dir, live, answerVars, kept>>

(* The prospector edits profile.md in its workspace, the staged one. *)
SampleEdits(text) ==
  /\ pc = "sample"
  /\ staged' = [staged EXCEPT ![Profile] = text]
  /\ UNCHANGED <<findsVars, number, pc, cycles, cycle, before, done, answer,
                 pending, dir, live, answerVars, kept>>

SampleEnds ==
  /\ Goto("sample", "review")
  /\ UNCHANGED <<findsVars, number, workVars, dir, live, answerVars, kept>>

(* Mutant of Review: one cycle too many. *)
ReviewOnceMore ==
  /\ Goto("review", IF cycle > cycles THEN "gate" ELSE "convo")
  /\ cycle' = IF cycle > cycles THEN cycle ELSE cycle + 1
  /\ UNCHANGED <<findsVars, number, cycles, staged, before, done, answer,
                 pending, dir, live, answerVars, kept>>

Review ==
  /\ Goto("review", IF cycle = cycles THEN "gate" ELSE "convo")
  /\ cycle' = IF cycle = cycles THEN cycle ELSE cycle + 1
  /\ UNCHANGED <<findsVars, number, cycles, staged, before, done, answer,
                 pending, dir, live, answerVars, kept>>

(* confirmStaging: without a difference there is no question, and it keeps. *)
GateUnasked ==
  /\ staged = live
  /\ Goto("gate", "copy")
  /\ answer' = "unasked"
  /\ kept' = kept \cup {<<number, cycle>>}
  /\ UNCHANGED <<findsVars, number, cycles, cycle, staged, before, done,
                 pending, dir, live, answerVars>>

GateAsked(reply) ==
  /\ staged # live
  /\ Goto("gate", IF reply = "yes" THEN "copy" ELSE "revert")
  /\ answer' = reply
  /\ kept' = IF reply = "yes" THEN kept \cup {<<number, cycle>>} ELSE kept
  /\ UNCHANGED <<findsVars, number, cycles, cycle, staged, before, done,
                 pending, dir, live, answerVars>>

(* Mutant of CopyFile: a missing file ends the loop. *)
CopyFileBreaks(a) ==
  /\ a \notin done
  /\ Goto("copy", IF staged[a] = Missing \/ done \cup {a} = Artifact
                  THEN "promote" ELSE "copy")
  /\ done' = done \cup {a}
  /\ live' = [live EXCEPT ![a] = IF staged[a] = Missing THEN @ ELSE staged[a]]
  /\ liveFrom' = IF pc' = "promote" THEN built ELSE liveFrom
  /\ UNCHANGED <<findsVars, number, cycles, cycle, staged, before, answer,
                 pending, dir, journal, answered, built, kept>>

(* promoteStaging, one file; a file the build did not write is passed over. *)
CopyFile(a) ==
  /\ a \notin done
  /\ Goto("copy", IF done \cup {a} = Artifact THEN "promote" ELSE "copy")
  /\ done' = done \cup {a}
  /\ live' = [live EXCEPT ![a] = IF staged[a] = Missing THEN @ ELSE staged[a]]
  /\ liveFrom' = IF pc' = "promote" THEN built ELSE liveFrom
  /\ UNCHANGED <<findsVars, number, cycles, cycle, staged, before, answer,
                 pending, dir, journal, answered, built, kept>>

(* Mutant of PromoteLeads: nothing promoted, nothing left to do. *)
PromoteLeadsOrStop ==
  /\ PromoteProvisionalFinds
  /\ Goto("promote", IF Provisional = {} THEN "over" ELSE "unstage")
  /\ UNCHANGED <<number, workVars, dir, live, answerVars, kept>>

PromoteLeads ==
  /\ PromoteProvisionalFinds
  /\ Goto("promote", "unstage")
  /\ UNCHANGED <<number, workVars, dir, live, answerVars, kept>>

(* Mutant of DiscardStaging: a reject starts the interview over. *)
DiscardStagingAndJournal ==
  /\ Goto("unstage", "archive") \/ Goto("abandoned", "over") \/ Goto("revert", "reverted")
  /\ dir' = FALSE
  /\ staged' = NoFiles
  /\ journal' = IF pc = "revert" THEN 0 ELSE journal
  /\ UNCHANGED <<findsVars, number, cycles, cycle, before, done, answer,
                 pending, live, answered, built, liveFrom, kept>>

(* discardStaging, on each of its ways out. *)
DiscardStaging ==
  /\ Goto("unstage", "archive") \/ Goto("abandoned", "over") \/ Goto("revert", "reverted")
  /\ dir' = FALSE
  /\ staged' = NoFiles
  /\ UNCHANGED <<findsVars, number, cycles, cycle, before, done, answer,
                 pending, live, answerVars, kept>>

(* discardProvisionalFinds after a conversation that gave up, a failed build *)
(* or a reject.                                                              *)
DropLeads ==
  /\ DiscardProvisionalFinds
  /\ Goto("abandon", "abandoned") \/ Goto("reverted", "over")
  /\ UNCHANGED <<number, workVars, dir, live, answerVars, kept>>

(* archiveJournal *)
Archive ==
  /\ Goto("archive", "over")
  /\ journal' = 0
  /\ UNCHANGED <<findsVars, number, workVars, dir, live, answered, built, liveFrom,
                 kept>>

(* The process ends here, with all it held in memory; its staging directory *)
(* stays on the disk, and nobody reads it again.                            *)
Die ==
  /\ pc' = "dead"
  /\ cycles' = 0 /\ cycle' = 0
  /\ staged' = NoFiles /\ before' = NoFiles
  /\ done' = {} /\ answer' = "none" /\ built' = 0
  /\ pending' = FALSE
  /\ UNCHANGED <<findsVars, number, dir, live, journal, answered, liveFrom, kept>>

(* An exception nobody catches: the DELETE, or runAgent without a region. *)
Throws ==
  /\ \/ pc \in {"clear", "abandon", "reverted"} /\ DiscardFails
     \/ pc = "start" /\ staged[Region] = Missing
  /\ Die

-----------------------------------------------------------------------------
(* The prepared path: runPrepared. *)

StartPrepared ==
  /\ ~AtWork
  /\ number < MaxInterviews
  /\ number' = number + 1
  /\ pc' = "generate"
  /\ cycles' = 0
  /\ cycle' = 0
  /\ before' = live
  /\ done' = {}
  /\ answer' = "none"
  /\ dir' = FALSE
  /\ built' = 0
  /\ UNCHANGED <<findsVars, staged, pending, live, journal, answered, liveFrom,
                 kept>>

(* set_region, set_categories or write_icp; set_towns is TownsAsked. *)
PreparedWrites(a, text) ==
  /\ pc = "generate"
  /\ live' = [live EXCEPT ![a] = text]
  /\ UNCHANGED <<findsVars, number, pc, workVars, dir, answerVars, kept>>

(* Only a success reaches reviewAndConfirm; every other end just says so. *)
GenerationEnds(ok) ==
  /\ ok => ~pending
  /\ Goto("generate", IF ok THEN "confirm" ELSE "over")
  /\ UNCHANGED <<findsVars, number, workVars, dir, live, answerVars, kept>>

(* reviewAndConfirm *)
Confirm(reply) ==
  /\ reply = "unasked" <=> live = before
  /\ Goto("confirm", IF reply = "no" THEN "restore" ELSE "over")
  /\ answer' = reply
  /\ UNCHANGED <<findsVars, number, cycles, cycle, staged, before, done,
                 pending, dir, live, answerVars, kept>>

(* Mutant of RestoreFile: a file that did not exist is left as it is. *)
RestoreFileKeepsNew(a) ==
  /\ a \notin done
  /\ Goto("restore", IF done \cup {a} = Artifact THEN "over" ELSE "restore")
  /\ done' = done \cup {a}
  /\ live' = [live EXCEPT ![a] = IF before[a] = Missing THEN @ ELSE before[a]]
  /\ UNCHANGED <<findsVars, number, cycles, cycle, staged, before, answer,
                 pending, dir, answerVars, kept>>

(* restore, one file: written back, or removed when it did not exist. *)
RestoreFile(a) ==
  /\ a \notin done
  /\ Goto("restore", IF done \cup {a} = Artifact THEN "over" ELSE "restore")
  /\ done' = done \cup {a}
  /\ live' = [live EXCEPT ![a] = before[a]]
  /\ UNCHANGED <<findsVars, number, cycles, cycle, staged, before, answer,
                 pending, dir, answerVars, kept>>

-----------------------------------------------------------------------------

Crash == AtWork /\ Die

(* What the process does without waiting for a model or the user. *)
Proceed ==
  \/ ClearLeads \/ StartSample \/ GateUnasked \/ PromoteLeads
  \/ \E a \in Artifact : CopyFile(a) \/ RestoreFile(a)
  \/ DiscardStaging \/ DropLeads \/ Archive \/ Throws

(* What it waits for. *)
Receive ==
  \/ Answer \/ ConvoFails \/ ConvoEnds
  \/ \E a \in Artifact \ {Towns} : \E text \in Text[a] :
       BuildWrites(a, text) \/ PreparedWrites(a, text)
  \/ TownsAsked \/ TownsRefused
  \/ \E text \in Text[Towns] : TownsWritten(text)
  \/ \E ok \in BOOLEAN : BuildEnds(ok) \/ GenerationEnds(ok)
  \/ \E k \in Key : SampleSaves(k)
  \/ \E text \in Text[Profile] : SampleEdits(text)
  \/ SampleEnds \/ Review
  \/ \E reply \in {"yes", "no"} : GateAsked(reply)
  \/ \E reply \in {"unasked", "yes", "no"} : Confirm(reply)

Start == StartPrepared \/ \E n \in 1 .. MaxCycles : StartInteractive(n)

Others == FeedStep /\ UNCHANGED <<number, pc, workVars, dir, live, answerVars, kept>>

Next == Start \/ Proceed \/ Receive \/ Crash \/ Others

Spec == Init /\ [][Next]_vars /\ WF_vars(Proceed)

-----------------------------------------------------------------------------
(* Properties. *)

(* A lead of a sample run that nobody touched since is in the feed only if  *)
(* its interview was kept, and only if it is one of the leads of the final  *)
(* cycle, those the last review and the user's decision were about.  The    *)
(* promotion itself (promoteProvisionalFinds) asks for neither.             *)
LeadsWereKept ==
  \A k \in Present \ Provisional : leadOf[k] # NoSample => leadOf[k] \in kept

(* A find that a scheduled agent saved, or whose status a steward or the    *)
(* curator set, never becomes provisional and is never deleted, although    *)
(* the sample run saves under the same keys and the interview deletes by    *)
(* status (insertFind, discardProvisionalFinds).                            *)
RealFindsSurvive ==
  [][\A k \in Present : leadOf[k] = NoSample =>
       finds'[k] \notin {"absent", "provisional"}]_vars

(* The interactive path changes a live file only to the contents the user   *)
(* said yes to at its gate (the config override and promoteStaging), or it  *)
(* is towns.json, and the change is that of a set_towns which its build     *)
(* left behind when it failed.                                              *)
ConfigGated ==
  [][\A a \in Artifact :
       AtWork /\ cycles > 0 /\ live'[a] # live[a] =>
         \/ answer = "yes" /\ live'[a] = staged[a]
         \/ a = Towns /\ pending /\ ~pending' /\ answer = "none"]_vars

(* What paths.ts says of the override: configuration writes are staged      *)
(* until the user confirms.                                                 *)
StagedUntilConfirmed ==
  [][\A a \in Artifact :
       AtWork /\ cycles > 0 /\ live'[a] # live[a] => answer = "yes"]_vars

(* An interview that ended with a no, on either path, left the live files   *)
(* as it had found them (restore, discardStaging).                          *)
RejectRestores == pc = "over" /\ answer = "no" => live = before

(* Past promoteStaging every staged file is live, whichever were missing.   *)
PromotedWhole ==
  pc \in {"promote", "unstage"} =>
    \A a \in Artifact : staged[a] # Missing => live[a] = staged[a]

(* Every answer is in the journal, or it was in the transcript of a build   *)
(* whose files are live: an interruption at any point loses none.           *)
AnswersSurvive == answered - journal <= liveFrom

(* An interactive interview that came to an end has removed its staging     *)
(* directory and left no provisional lead.                                  *)
OverLeavesNothing ==
  pc = "over" /\ cycles > 0 => ~dir /\ Provisional = {}

(* Keeping an interview takes effect in full unless the process dies: no    *)
(* lead stays provisional, the journal is archived and the directory gone.  *)
KeptTakesEffect ==
  answer = "yes" /\ cycles > 0 ~>
    \/ pc = "dead"
    \/ pc = "over" /\ Provisional = {} /\ journal = 0 /\ ~dir

(* What interview.ts says of itself: every configuration write is gated     *)
(* behind a diff the user confirms.  At rest, an interview the user did not *)
(* accept has left the live files as it had found them.                     *)
WritesAreConfirmed == pc = "over" /\ answer # "yes" => live = before

(* What mcp-tools.ts says of the sample run: its leads stay out of the feed *)
(* until the interview is confirmed.                                        *)
LeadsWereConfirmed ==
  \A k \in Key, c \in 1 .. MaxCycles :
    finds[k] = "new" /\ leadOf[k] = <<number, c>> => answer = "yes"
=============================================================================
