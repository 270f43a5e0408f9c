-------------------------- MODULE InterviewProofs --------------------------
(***************************************************************************)
(* Proofs about Interview for any keys, files, contents, interviews and    *)
(* cycles, whoever dies when:                                              *)
(*                                                                         *)
(*   InterviewTyped      []InterviewTypeOK                                 *)
(*   InterviewKeepsLeads []LeadsWereKept                                   *)
(*   InterviewSparesFinds  RealFindsSurvive                                *)
(*   InterviewAnswers    []AnswersSurvive                                  *)
(*   InterviewRestores   []RejectRestores                                  *)
(*   InterviewPromotes   []PromotedWhole                                   *)
(*   InterviewAsks         ConfigGated                                     *)
(*   InterviewCleansUp   []OverLeavesNothing                               *)
(*                                                                         *)
(* Four inductive invariants carry them.  LeadInv follows the provisional   *)
(* rows: each is the lead of some sample run, and from the clearing before *)
(* a sample run up to the promotion all of them are leads of that very run *)
(* (a promotion by status alone is right only because of this).  AnswerInv *)
(* follows the answers from the journal through the transcript of the last *)
(* build to the files that went live.  FileInv says at each place of the   *)
(* program what of the live files is still as the interview found it, and  *)
(* LeftInv in which order directory and leads go.                          *)
(***************************************************************************)
EXTENDS Interview, TLAPS

-----------------------------------------------------------------------------
(* What the statements on the finds table do to one row. *)

(* The mark for no sample is no sample, and the bounds are numbers.         *)
LEMMA FindsBounds == NoSample \notin Sample /\ MaxInterviews \in Nat /\ MaxCycles \in Nat \ {0}
BY InterviewsAssumption, CyclesAssumption DEF NoSample, Sample, Interview

(* insertFind adds a row that was absent, or does nothing.                  *)
LEMMA InsertEffect ==
  ASSUME FindsTypeOK, NEW k \in Key, NEW status \in Status,
         NEW sample \in Sample \cup {NoSample}, InsertFind(k, status, sample)
  PROVE  /\ FindsTypeOK'
         /\ \A q \in Key : \/ finds'[q] = finds[q] /\ leadOf'[q] = leadOf[q]
                           \/ finds[q] = "absent" /\ finds'[q] = status /\ leadOf'[q] = sample
<1>1. CASE k \in Present
  BY <1>1 DEF InsertFind, findsVars, FindsTypeOK
<1>2. CASE k \notin Present
  <2>1. finds' = [finds EXCEPT ![k] = status] /\ leadOf' = [leadOf EXCEPT ![k] = sample]
        /\ pinned' = pinned /\ finds[k] = "absent"
    BY <1>2 DEF InsertFind, Present
  <2> QED BY <2>1 DEF FindsTypeOK
<1> QED BY <1>1, <1>2

(* A status set by hand takes the row out of the history of leads and       *)
(* never makes it provisional.                                              *)
LEMMA SetStatusEffect ==
  ASSUME FindsTypeOK, NEW K \in SUBSET Present, NEW status \in Status \ {"provisional"},
         SetStatus(K, status), pinned' \in SUBSET Key
  PROVE  /\ FindsTypeOK'
         /\ \A q \in Key : \/ finds'[q] = finds[q] /\ leadOf'[q] = leadOf[q]
                           \/ leadOf'[q] = NoSample /\ finds'[q] \notin {"absent", "provisional"}
<1>1. /\ finds' = [k \in Key |-> IF k \in K THEN status ELSE finds[k]]
      /\ leadOf' = [k \in Key |-> IF k \in K THEN NoSample ELSE leadOf[k]]
  BY DEF SetStatus
<1>2. status \notin {"absent", "provisional"}
  BY DEF Status
<1> QED BY <1>1, <1>2 DEF FindsTypeOK

(* The feed and the scheduled agents leave a row alone or make it theirs. *)
LEMMA FeedEffect ==
  ASSUME FindsTypeOK, FeedStep
  PROVE  /\ FindsTypeOK'
         /\ \A q \in Key : \/ finds'[q] = finds[q] /\ leadOf'[q] = leadOf[q]
                           \/ leadOf'[q] = NoSample /\ finds'[q] \notin {"absent", "provisional"}
<1>1. ASSUME NEW k \in Key, InsertFind(k, "new", NoSample)
      PROVE  /\ FindsTypeOK'
             /\ \A q \in Key : \/ finds'[q] = finds[q] /\ leadOf'[q] = leadOf[q]
                               \/ leadOf'[q] = NoSample
                                  /\ finds'[q] \notin {"absent", "provisional"}
  <2>1. "new" \in Status
    BY DEF Status
  <2> QED BY <1>1, <2>1, InsertEffect
<1>2. ASSUME NEW k \in Key, NEW action \in DOMAIN StatusEffect \cup Thumbs,
             RecordFeedback(k, action)
      PROVE  /\ FindsTypeOK'
             /\ \A q \in Key : \/ finds'[q] = finds[q] /\ leadOf'[q] = leadOf[q]
                               \/ leadOf'[q] = NoSample
                                  /\ finds'[q] \notin {"absent", "provisional"}
  <2>1. pinned' \in SUBSET Key /\ {k} \in SUBSET Present
    BY <1>2 DEF RecordFeedback, FindsTypeOK, Present
  <2>2. CASE action \in Thumbs
    BY <1>2, <2>1, <2>2 DEF RecordFeedback, FindsTypeOK
  <2>3. CASE action \notin Thumbs
    <3>1. StatusEffect[action] \in Status \ {"provisional"}
      BY <2>3 DEF StatusEffect, Status
    <3>2. SetStatus({k}, StatusEffect[action])
      BY <1>2, <2>3 DEF RecordFeedback
    <3> QED BY <2>1, <3>1, <3>2, SetStatusEffect
  <2> QED BY <2>2, <2>3
<1>3. ASSUME NEW K \in SUBSET Key, NEW status \in {"starred", "hidden"},
             UpdateFindStatuses(K, status)
      PROVE  /\ FindsTypeOK'
             /\ \A q \in Key : \/ finds'[q] = finds[q] /\ leadOf'[q] = leadOf[q]
                               \/ leadOf'[q] = NoSample
                                  /\ finds'[q] \notin {"absent", "provisional"}
  <2>1. K \cap Present \in SUBSET Present /\ status \in Status \ {"provisional"}
        /\ pinned' \in SUBSET Key /\ SetStatus(K \cap Present, status)
    BY <1>3 DEF UpdateFindStatuses, FindsTypeOK, Status
  <2> QED BY <2>1, SetStatusEffect
<1>4. CASE UnhideAll
  <2> DEFINE K == {k \in Key : finds[k] = "hidden"}
  <2>1. K \in SUBSET Present /\ "shown" \in Status \ {"provisional"}
        /\ pinned' \in SUBSET Key /\ SetStatus(K, "shown")
    BY <1>4 DEF UnhideAll, FindsTypeOK, Present, Status
  <2> QED BY <2>1, SetStatusEffect
<1>5. ASSUME NEW k \in Key, NEW status \in Status \ {"provisional"}, UpdateFindStatus(k, status)
      PROVE  /\ FindsTypeOK'
             /\ \A q \in Key : \/ finds'[q] = finds[q] /\ leadOf'[q] = leadOf[q]
                               \/ leadOf'[q] = NoSample
                                  /\ finds'[q] \notin {"absent", "provisional"}
  <2>1. {k} \in SUBSET Present /\ pinned' \in SUBSET Key /\ SetStatus({k}, status)
    BY <1>5 DEF UpdateFindStatus, FindsTypeOK, Present
  <2> QED BY <2>1, SetStatusEffect
<1> QED BY <1>1, <1>2, <1>3, <1>4, <1>5 DEF FeedStep

(* promoteProvisionalFinds makes every provisional row new, whose lead it   *)
(* may be.                                                                  *)
LEMMA PromoteEffect ==
  ASSUME FindsTypeOK, PromoteProvisionalFinds
  PROVE  /\ FindsTypeOK'
         /\ leadOf' = leadOf
         /\ \A q \in Key : finds'[q] = IF finds[q] = "provisional" THEN "new" ELSE finds[q]
<1>1. finds' = [k \in Key |-> IF k \in Provisional THEN "new" ELSE finds[k]]
      /\ leadOf' = leadOf /\ pinned' = pinned
  BY DEF PromoteProvisionalFinds
<1>2. "new" \in Status
  BY DEF Status
<1> QED BY <1>1, <1>2 DEF FindsTypeOK, Provisional

(* discardProvisionalFinds deletes the provisional rows and no other.       *)
LEMMA DiscardEffect ==
  ASSUME FindsTypeOK, DiscardProvisionalFinds
  PROVE  /\ FindsTypeOK'
         /\ \A q \in Key : IF finds[q] = "provisional"
                           THEN finds'[q] = "absent" /\ leadOf'[q] = NoSample
                           ELSE finds'[q] = finds[q] /\ leadOf'[q] = leadOf[q]
<1>1. /\ finds' = [k \in Key |-> IF k \in Provisional THEN "absent" ELSE finds[k]]
      /\ leadOf' = [k \in Key |-> IF k \in Provisional THEN NoSample ELSE leadOf[k]]
      /\ pinned' = pinned
  BY DEF DiscardProvisionalFinds
<1> QED BY <1>1 DEF FindsTypeOK, Provisional

-----------------------------------------------------------------------------
(* The types, and the provisional rows. *)

(* The interactive path, and its stretch from the clearing of old leads to  *)
(* the promotion of the new ones.                                           *)
Interactive == {"convo", "build", "clear", "start", "sample", "review", "gate", "copy",
                "promote", "unstage", "archive", "abandon", "abandoned", "revert",
                "reverted"}

Sampled == {"start", "sample", "review", "gate", "copy", "promote"}

Numbered ==
  /\ pc = "generate" => number \in Interview
  /\ pc \in Interactive => number \in Interview /\ cycles \in 1 .. MaxCycles
                          /\ cycle \in 1 .. cycles

LeadsKnown == \A k \in Provisional : leadOf[k] # NoSample

LeadsOfThisRun ==
  pc \in Sampled => \A k \in Provisional : leadOf[k] = <<number, cycle>>

KeptBeforeCopy == pc \in {"copy", "promote"} => <<number, cycle>> \in kept

JournalIsAnswers == journal <= answered

LeadInv ==
  InterviewTypeOK /\ Numbered /\ JournalIsAnswers /\ LeadsKnown /\ LeadsOfThisRun /\ KeptBeforeCopy
    /\ LeadsWereKept

(* At the start there is no interview and no lead.                          *)
LEMMA InterviewInit == Init => LeadInv
<1> SUFFICES ASSUME Init PROVE LeadInv
  OBVIOUS
<1>1. FindsTypeOK /\ Provisional = {} /\ Present = {}
  BY DEF Init, FindsInit, FindsTypeOK, Provisional, Present
<1>2. Missing \in Content /\ NoFiles \in [Artifact -> Content]
  BY DEF Content, NoFiles
<1>3. InterviewTypeOK
  <2>1. /\ number \in 0 .. MaxInterviews
        /\ cycles \in 0 .. MaxCycles /\ cycle \in 0 .. MaxCycles
        /\ journal \in 0 .. MaxAnswers /\ answered \in 0 .. MaxAnswers
        /\ built \in 0 .. MaxAnswers /\ liveFrom \in 0 .. MaxAnswers
    BY FindsBounds, AnswersAssumption DEF Init
  <2>2. staged \in [Artifact -> Content] /\ before \in [Artifact -> Content]
        /\ live \in [Artifact -> Content] /\ done \subseteq Artifact
    BY <1>2, SetupsAssumption DEF Init
  <2>3. pc \in Pc /\ answer \in {"none", "unasked", "yes", "no"} /\ kept \subseteq Sample
    BY DEF Init, Pc
  <2>4. dir \in BOOLEAN /\ pending \in BOOLEAN
    BY DEF Init
  <2> QED BY <1>1, <2>1, <2>2, <2>3, <2>4, Zenon DEF InterviewTypeOK
<1>4. Numbered /\ JournalIsAnswers /\ LeadsOfThisRun /\ KeptBeforeCopy
  BY
  DEF Init, Numbered, JournalIsAnswers, LeadsOfThisRun, KeptBeforeCopy, Interactive,
      Sampled
<1>5. LeadsKnown /\ LeadsWereKept
  BY <1>1 DEF LeadsKnown, LeadsWereKept
<1> QED BY <1>3, <1>4, <1>5 DEF LeadInv

(* A step that leaves the finds alone keeps LeadInv when it keeps its types, *)
(* or leaves the sampled stretch, or moves within it and keeps its run.      *)
LEMMA SameFinds ==
  ASSUME LeadInv, UNCHANGED findsVars, InterviewTypeOK',
         Numbered', JournalIsAnswers', KeptBeforeCopy', kept \subseteq kept',
         pc' \in Sampled => pc \in Sampled /\ UNCHANGED <<number, cycle>>
  PROVE  LeadInv'
<1>1. Provisional' = Provisional /\ Present' = Present /\ leadOf' = leadOf
  BY DEF findsVars, Provisional, Present
<1>2. LeadsKnown' /\ LeadsOfThisRun' /\ LeadsWereKept'
  BY <1>1 DEF LeadInv, LeadsKnown, LeadsOfThisRun, LeadsWereKept
<1> QED BY <1>2 DEF LeadInv

(* A step that leaves the finds alone keeps their types.                    *)
LEMMA SameFindsTyped ==
  ASSUME FindsTypeOK, UNCHANGED findsVars
  PROVE  FindsTypeOK'
BY DEF FindsTypeOK, findsVars

(* What a file may hold.                                                    *)
LEMMA ContentTyped ==
  /\ \A a \in Artifact : \A text \in Text[a] : text \in Content
  /\ Template \in Content
  /\ NoFiles \in [Artifact -> Content]
BY TextAssumption, ArtifactAssumption DEF Content, NoFiles

(* The steps of an interview that leave the finds alone. *)
QuietStep ==
  \/ StartPrepared \/ \E n \in 1 .. MaxCycles : StartInteractive(n)
  \/ Answer \/ ConvoFails \/ ConvoEnds
  \/ \E a \in Artifact \ {Towns} : \E text \in Text[a] :
       BuildWrites(a, text) \/ PreparedWrites(a, text)
  \/ TownsAsked \/ TownsRefused
  \/ \E text \in Text[Towns] : TownsWritten(text)
  \/ \E ok \in BOOLEAN : BuildEnds(ok) \/ GenerationEnds(ok)
  \/ StartSample \/ \E text \in Text[Profile] : SampleEdits(text)
  \/ SampleEnds \/ Review \/ GateUnasked
  \/ \E reply \in {"yes", "no"} : GateAsked(reply)
  \/ \E reply \in {"unasked", "yes", "no"} : Confirm(reply)
  \/ \E a \in Artifact : CopyFile(a) \/ RestoreFile(a)
  \/ DiscardStaging \/ Archive \/ Die

(* The steps of an interview that leave the finds alone keep the            *)
(* invariant.                                                               *)
LEMMA QuietStepInv ==
  ASSUME LeadInv, QuietStep
  PROVE  LeadInv'
<1> USE FindsBounds, AnswersAssumption, ArtifactAssumption DEF LeadInv, InterviewTypeOK
<1>1. ASSUME NEW n \in 1 .. MaxCycles, StartInteractive(n) PROVE LeadInv'
  <2>1. InterviewTypeOK'
    BY <1>1, SameFindsTyped
    DEF StartInteractive, Numbered, JournalIsAnswers, Interactive, Pc, workVars,
        answerVars, Interview
  <2>2. Numbered' /\ JournalIsAnswers' /\ KeptBeforeCopy' /\ kept \subseteq kept'
    BY <1>1
    DEF StartInteractive, Numbered, JournalIsAnswers, KeptBeforeCopy, Interactive,
        workVars, answerVars, Interview, AtWork
  <2>3. UNCHANGED findsVars
        /\ (pc' \in Sampled => pc \in Sampled /\ UNCHANGED <<number, cycle>>)
    BY <1>1 DEF StartInteractive, Sampled, workVars
  <2> QED BY <2>1, <2>2, <2>3, SameFinds
<1>2. CASE Answer
  <2>1. InterviewTypeOK'
    BY <1>2, SameFindsTyped DEF Answer, Numbered, JournalIsAnswers, Interactive, Pc,
         workVars, answerVars, Interview
  <2>2. Numbered' /\ JournalIsAnswers' /\ KeptBeforeCopy' /\ kept \subseteq kept'
    BY <1>2 DEF Answer, Numbered, JournalIsAnswers, KeptBeforeCopy, Interactive, workVars,
         answerVars, Interview, AtWork
  <2>3. UNCHANGED findsVars
        /\ (pc' \in Sampled => pc \in Sampled /\ UNCHANGED <<number, cycle>>)
    BY <1>2 DEF Answer, Sampled, workVars
  <2> QED BY <2>1, <2>2, <2>3, SameFinds
<1>3. CASE ConvoFails
  <2>1. InterviewTypeOK'
    BY <1>3, SameFindsTyped
    DEF ConvoFails, Goto, Numbered, JournalIsAnswers, Interactive, Pc, workVars,
        answerVars, Interview
  <2>2. Numbered' /\ JournalIsAnswers' /\ KeptBeforeCopy' /\ kept \subseteq kept'
    BY <1>3
    DEF ConvoFails, Goto, Numbered, JournalIsAnswers, KeptBeforeCopy, Interactive,
        workVars, answerVars, Interview, AtWork
  <2>3. UNCHANGED findsVars
        /\ (pc' \in Sampled => pc \in Sampled /\ UNCHANGED <<number, cycle>>)
    BY <1>3 DEF ConvoFails, Goto, Sampled, workVars
  <2> QED BY <2>1, <2>2, <2>3, SameFinds
<1>4. CASE ConvoEnds
  <2>1. InterviewTypeOK'
    BY <1>4, SameFindsTyped
    DEF ConvoEnds, Goto, Numbered, JournalIsAnswers, Interactive, Pc, workVars,
        answerVars, Interview
  <2>2. Numbered' /\ JournalIsAnswers' /\ KeptBeforeCopy' /\ kept \subseteq kept'
    BY <1>4
    DEF ConvoEnds, Goto, Numbered, JournalIsAnswers, KeptBeforeCopy, Interactive,
        workVars, answerVars, Interview, AtWork
  <2>3. UNCHANGED findsVars
        /\ (pc' \in Sampled => pc \in Sampled /\ UNCHANGED <<number, cycle>>)
    BY <1>4 DEF ConvoEnds, Goto, Sampled, workVars
  <2> QED BY <2>1, <2>2, <2>3, SameFinds
<1>5. ASSUME NEW a \in Artifact, NEW text \in Text[a], BuildWrites(a, text) PROVE LeadInv'
  <2>1. InterviewTypeOK'
    BY <1>5, ContentTyped, SameFindsTyped
    DEF BuildWrites, Numbered, JournalIsAnswers, Interactive, Pc, workVars, answerVars,
        Interview
  <2>2. Numbered' /\ JournalIsAnswers' /\ KeptBeforeCopy' /\ kept \subseteq kept'
    BY <1>5
    DEF BuildWrites, Numbered, JournalIsAnswers, KeptBeforeCopy, Interactive, workVars,
        answerVars, Interview, AtWork
  <2>3. UNCHANGED findsVars
        /\ (pc' \in Sampled => pc \in Sampled /\ UNCHANGED <<number, cycle>>)
    BY <1>5 DEF BuildWrites, Sampled, workVars
  <2> QED BY <2>1, <2>2, <2>3, SameFinds
<1>6. ASSUME NEW ok \in BOOLEAN, BuildEnds(ok) PROVE LeadInv'
  <2>1. InterviewTypeOK'
    BY <1>6, SameFindsTyped
    DEF BuildEnds, Goto, Numbered, JournalIsAnswers, Interactive, Pc, workVars,
        answerVars, Interview
  <2>2. Numbered' /\ JournalIsAnswers' /\ KeptBeforeCopy' /\ kept \subseteq kept'
    BY <1>6
    DEF BuildEnds, Goto, Numbered, JournalIsAnswers, KeptBeforeCopy, Interactive,
        workVars, answerVars, Interview, AtWork
  <2>3. UNCHANGED findsVars
        /\ (pc' \in Sampled => pc \in Sampled /\ UNCHANGED <<number, cycle>>)
    BY <1>6 DEF BuildEnds, Goto, Sampled, workVars
  <2> QED BY <2>1, <2>2, <2>3, SameFinds
<1>7. CASE StartSample
  <2>1. InterviewTypeOK'
    BY <1>7, ContentTyped, SameFindsTyped
    DEF StartSample, Goto, Numbered, JournalIsAnswers, Interactive, Pc, workVars,
        answerVars, Interview
  <2>2. Numbered' /\ JournalIsAnswers' /\ KeptBeforeCopy' /\ kept \subseteq kept'
    BY <1>7
    DEF StartSample, Goto, Numbered, JournalIsAnswers, KeptBeforeCopy, Interactive,
        workVars, answerVars, Interview, AtWork
  <2>3. UNCHANGED findsVars
        /\ (pc' \in Sampled => pc \in Sampled /\ UNCHANGED <<number, cycle>>)
    BY <1>7 DEF StartSample, Goto, Sampled, workVars
  <2> QED BY <2>1, <2>2, <2>3, SameFinds
<1>8. ASSUME NEW text \in Text[Profile], SampleEdits(text) PROVE LeadInv'
  <2>1. InterviewTypeOK'
    BY <1>8, ContentTyped, SameFindsTyped
    DEF SampleEdits, Numbered, JournalIsAnswers, Interactive, Pc, workVars, answerVars,
        Interview
  <2>2. Numbered' /\ JournalIsAnswers' /\ KeptBeforeCopy' /\ kept \subseteq kept'
    BY <1>8
    DEF SampleEdits, Numbered, JournalIsAnswers, KeptBeforeCopy, Interactive, workVars,
        answerVars, Interview, AtWork
  <2>3. UNCHANGED findsVars
        /\ (pc' \in Sampled => pc \in Sampled /\ UNCHANGED <<number, cycle>>)
    BY <1>8 DEF SampleEdits, Sampled, workVars
  <2> QED BY <2>1, <2>2, <2>3, SameFinds
<1>9. CASE SampleEnds
  <2>1. InterviewTypeOK'
    BY <1>9, SameFindsTyped
    DEF SampleEnds, Goto, Numbered, JournalIsAnswers, Interactive, Pc, workVars,
        answerVars, Interview
  <2>2. Numbered' /\ JournalIsAnswers' /\ KeptBeforeCopy' /\ kept \subseteq kept'
    BY <1>9
    DEF SampleEnds, Goto, Numbered, JournalIsAnswers, KeptBeforeCopy, Interactive,
        workVars, answerVars, Interview, AtWork
  <2>3. UNCHANGED findsVars
        /\ (pc' \in Sampled => pc \in Sampled /\ UNCHANGED <<number, cycle>>)
    BY <1>9 DEF SampleEnds, Goto, Sampled, workVars
  <2> QED BY <2>1, <2>2, <2>3, SameFinds
<1>10. CASE Review
  <2>1. InterviewTypeOK'
    BY <1>10, SameFindsTyped DEF Review, Goto, Numbered, JournalIsAnswers, Interactive, Pc,
         workVars, answerVars, Interview
  <2>2. Numbered' /\ JournalIsAnswers' /\ KeptBeforeCopy' /\ kept \subseteq kept'
    BY <1>10
    DEF Review, Goto, Numbered, JournalIsAnswers, KeptBeforeCopy, Interactive, workVars,
        answerVars, Interview, AtWork
  <2>3. UNCHANGED findsVars
        /\ (pc' \in Sampled => pc \in Sampled /\ UNCHANGED <<number, cycle>>)
    BY <1>10 DEF Review, Goto, Sampled, workVars
  <2> QED BY <2>1, <2>2, <2>3, SameFinds
<1>11. CASE GateUnasked
  <2>1. InterviewTypeOK'
    BY <1>11, SameFindsTyped
    DEF GateUnasked, Goto, Sample, Numbered, JournalIsAnswers, Interactive, Pc,
        workVars, answerVars, Interview
  <2>2. Numbered' /\ JournalIsAnswers' /\ KeptBeforeCopy' /\ kept \subseteq kept'
    BY <1>11
    DEF GateUnasked, Goto, Sample, Numbered, JournalIsAnswers, KeptBeforeCopy,
        Interactive, workVars, answerVars, Interview, AtWork
  <2>3. UNCHANGED findsVars
        /\ (pc' \in Sampled => pc \in Sampled /\ UNCHANGED <<number, cycle>>)
    BY <1>11 DEF GateUnasked, Goto, Sample, Sampled, workVars
  <2> QED BY <2>1, <2>2, <2>3, SameFinds
<1>12. ASSUME NEW reply \in {"yes", "no"}, GateAsked(reply) PROVE LeadInv'
  <2>1. InterviewTypeOK'
    BY <1>12, SameFindsTyped
    DEF GateAsked, Goto, Sample, Numbered, JournalIsAnswers, Interactive, Pc, workVars,
        answerVars, Interview
  <2>2. Numbered' /\ JournalIsAnswers' /\ KeptBeforeCopy' /\ kept \subseteq kept'
    BY <1>12
    DEF GateAsked, Goto, Sample, Numbered, JournalIsAnswers, KeptBeforeCopy,
        Interactive, workVars, answerVars, Interview, AtWork
  <2>3. UNCHANGED findsVars
        /\ (pc' \in Sampled => pc \in Sampled /\ UNCHANGED <<number, cycle>>)
    BY <1>12 DEF GateAsked, Goto, Sample, Sampled, workVars
  <2> QED BY <2>1, <2>2, <2>3, SameFinds
<1>13. ASSUME NEW a \in Artifact, CopyFile(a) PROVE LeadInv'
  <2>1. InterviewTypeOK'
    BY <1>13, SameFindsTyped
    DEF CopyFile, Goto, Numbered, JournalIsAnswers, Interactive, Pc, workVars,
        answerVars, Interview
  <2>2. Numbered' /\ JournalIsAnswers' /\ KeptBeforeCopy' /\ kept \subseteq kept'
    BY <1>13
    DEF CopyFile, Goto, Numbered, JournalIsAnswers, KeptBeforeCopy, Interactive,
        workVars, answerVars, Interview, AtWork
  <2>3. UNCHANGED findsVars
        /\ (pc' \in Sampled => pc \in Sampled /\ UNCHANGED <<number, cycle>>)
    BY <1>13 DEF CopyFile, Goto, Sampled, workVars
  <2> QED BY <2>1, <2>2, <2>3, SameFinds
<1>14. CASE DiscardStaging
  <2>1. InterviewTypeOK'
    BY <1>14, ContentTyped, SameFindsTyped
    DEF DiscardStaging, Goto, Numbered, JournalIsAnswers, Interactive, Pc, workVars,
        answerVars, Interview
  <2>2. Numbered' /\ JournalIsAnswers' /\ KeptBeforeCopy' /\ kept \subseteq kept'
    BY <1>14
    DEF DiscardStaging, Goto, Numbered, JournalIsAnswers, KeptBeforeCopy, Interactive,
        workVars, answerVars, Interview, AtWork
  <2>3. UNCHANGED findsVars
        /\ (pc' \in Sampled => pc \in Sampled /\ UNCHANGED <<number, cycle>>)
    BY <1>14 DEF DiscardStaging, Goto, Sampled, workVars
  <2> QED BY <2>1, <2>2, <2>3, SameFinds
<1>15. CASE Archive
  <2>1. InterviewTypeOK'
    BY <1>15, SameFindsTyped DEF Archive, Goto, Numbered, JournalIsAnswers, Interactive, Pc,
         workVars, answerVars, Interview
  <2>2. Numbered' /\ JournalIsAnswers' /\ KeptBeforeCopy' /\ kept \subseteq kept'
    BY <1>15
    DEF Archive, Goto, Numbered, JournalIsAnswers, KeptBeforeCopy, Interactive,
        workVars, answerVars, Interview, AtWork
  <2>3. UNCHANGED findsVars
        /\ (pc' \in Sampled => pc \in Sampled /\ UNCHANGED <<number, cycle>>)
    BY <1>15 DEF Archive, Goto, Sampled, workVars
  <2> QED BY <2>1, <2>2, <2>3, SameFinds
<1>16. CASE Die
  <2>1. InterviewTypeOK'
    <3>1. FindsTypeOK' /\ dir' \in BOOLEAN /\ pending' \in BOOLEAN
      BY <1>16, SameFindsTyped DEF Die
    <3>2. pc' \in Pc /\ cycles' \in 0 .. MaxCycles /\ cycle' \in 0 .. MaxCycles
          /\ built' \in 0 .. MaxAnswers
      BY <1>16 DEF Die, Pc
    <3>3. staged' \in [Artifact -> Content] /\ before' \in [Artifact -> Content]
          /\ done' \subseteq Artifact
      BY <1>16, ContentTyped DEF Die
    <3> QED BY <1>16, <3>1, <3>2, <3>3 DEF Die
  <2>2. Numbered' /\ JournalIsAnswers' /\ KeptBeforeCopy' /\ kept \subseteq kept'
    BY <1>16 DEF Die, Numbered, JournalIsAnswers, KeptBeforeCopy, Interactive, workVars,
         answerVars, Interview, AtWork
  <2>3. UNCHANGED findsVars
        /\ (pc' \in Sampled => pc \in Sampled /\ UNCHANGED <<number, cycle>>)
    BY <1>16 DEF Die, Sampled, workVars
  <2> QED BY <2>1, <2>2, <2>3, SameFinds
<1>17. CASE StartPrepared
  <2>1. InterviewTypeOK'
    <3>1. FindsTypeOK' /\ dir' \in BOOLEAN /\ pending' \in BOOLEAN
      BY <1>17, SameFindsTyped DEF StartPrepared
    <3>2. pc' \in Pc /\ number' \in 0 .. MaxInterviews /\ cycles' \in 0 .. MaxCycles
          /\ cycle' \in 0 .. MaxCycles
      BY <1>17 DEF StartPrepared, Pc
    <3> QED BY <1>17, <3>1, <3>2 DEF StartPrepared
  <2>2. Numbered' /\ JournalIsAnswers' /\ KeptBeforeCopy' /\ kept \subseteq kept'
    BY <1>17
    DEF StartPrepared, Numbered, JournalIsAnswers, KeptBeforeCopy, Interactive,
        workVars, answerVars, Interview, AtWork
  <2>3. UNCHANGED findsVars
        /\ (pc' \in Sampled => pc \in Sampled /\ UNCHANGED <<number, cycle>>)
    BY <1>17 DEF StartPrepared, Sampled, workVars
  <2> QED BY <2>1, <2>2, <2>3, SameFinds
<1>18. ASSUME NEW a \in Artifact, NEW text \in Text[a], PreparedWrites(a, text) PROVE LeadInv'
  <2>1. InterviewTypeOK'
    BY <1>18, ContentTyped, SameFindsTyped
    DEF PreparedWrites, Numbered, JournalIsAnswers, Interactive, Pc, workVars,
        answerVars, Interview
  <2>2. Numbered' /\ JournalIsAnswers' /\ KeptBeforeCopy' /\ kept \subseteq kept'
    BY <1>18
    DEF PreparedWrites, Numbered, JournalIsAnswers, KeptBeforeCopy, Interactive,
        workVars, answerVars, Interview, AtWork
  <2>3. UNCHANGED findsVars
        /\ (pc' \in Sampled => pc \in Sampled /\ UNCHANGED <<number, cycle>>)
    BY <1>18 DEF PreparedWrites, Sampled, workVars
  <2> QED BY <2>1, <2>2, <2>3, SameFinds
<1>19. ASSUME NEW ok \in BOOLEAN, GenerationEnds(ok) PROVE LeadInv'
  <2>1. InterviewTypeOK'
    BY <1>19, SameFindsTyped
    DEF GenerationEnds, Goto, Numbered, JournalIsAnswers, Interactive, Pc, workVars,
        answerVars, Interview
  <2>2. Numbered' /\ JournalIsAnswers' /\ KeptBeforeCopy' /\ kept \subseteq kept'
    BY <1>19
    DEF GenerationEnds, Goto, Numbered, JournalIsAnswers, KeptBeforeCopy, Interactive,
        workVars, answerVars, Interview, AtWork
  <2>3. UNCHANGED findsVars
        /\ (pc' \in Sampled => pc \in Sampled /\ UNCHANGED <<number, cycle>>)
    BY <1>19 DEF GenerationEnds, Goto, Sampled, workVars
  <2> QED BY <2>1, <2>2, <2>3, SameFinds
<1>20. ASSUME NEW reply \in {"unasked", "yes", "no"}, Confirm(reply) PROVE LeadInv'
  <2>1. InterviewTypeOK'
    BY <1>20, SameFindsTyped DEF Confirm, Goto, Numbered, JournalIsAnswers, Interactive, Pc,
         workVars, answerVars, Interview
  <2>2. Numbered' /\ JournalIsAnswers' /\ KeptBeforeCopy' /\ kept \subseteq kept'
    BY <1>20
    DEF Confirm, Goto, Numbered, JournalIsAnswers, KeptBeforeCopy, Interactive,
        workVars, answerVars, Interview, AtWork
  <2>3. UNCHANGED findsVars
        /\ (pc' \in Sampled => pc \in Sampled /\ UNCHANGED <<number, cycle>>)
    BY <1>20 DEF Confirm, Goto, Sampled, workVars
  <2> QED BY <2>1, <2>2, <2>3, SameFinds
<1>21. ASSUME NEW a \in Artifact, RestoreFile(a) PROVE LeadInv'
  <2>1. InterviewTypeOK'
    BY <1>21, SameFindsTyped
    DEF RestoreFile, Goto, Numbered, JournalIsAnswers, Interactive, Pc, workVars,
        answerVars, Interview
  <2>2. Numbered' /\ JournalIsAnswers' /\ KeptBeforeCopy' /\ kept \subseteq kept'
    BY <1>21
    DEF RestoreFile, Goto, Numbered, JournalIsAnswers, KeptBeforeCopy, Interactive,
        workVars, answerVars, Interview, AtWork
  <2>3. UNCHANGED findsVars
        /\ (pc' \in Sampled => pc \in Sampled /\ UNCHANGED <<number, cycle>>)
    BY <1>21 DEF RestoreFile, Goto, Sampled, workVars
  <2> QED BY <2>1, <2>2, <2>3, SameFinds
<1>22. CASE TownsAsked
  <2>1. InterviewTypeOK'
    BY <1>22, SameFindsTyped
    DEF TownsAsked, Numbered, JournalIsAnswers, Interactive, Pc, workVars, answerVars,
        Interview
  <2>2. Numbered' /\ JournalIsAnswers' /\ KeptBeforeCopy' /\ kept \subseteq kept'
    BY <1>22
    DEF TownsAsked, Numbered, JournalIsAnswers, KeptBeforeCopy, Interactive, workVars,
        answerVars, Interview, AtWork
  <2>3. UNCHANGED findsVars
        /\ (pc' \in Sampled => pc \in Sampled /\ UNCHANGED <<number, cycle>>)
    BY <1>22 DEF TownsAsked, Sampled, workVars
  <2> QED BY <2>1, <2>2, <2>3, SameFinds
<1>23. CASE TownsRefused
  <2>1. InterviewTypeOK'
    BY <1>23, SameFindsTyped
    DEF TownsRefused, Numbered, JournalIsAnswers, Interactive, Pc, workVars, answerVars,
        Interview
  <2>2. Numbered' /\ JournalIsAnswers' /\ KeptBeforeCopy' /\ kept \subseteq kept'
    BY <1>23
    DEF TownsRefused, Numbered, JournalIsAnswers, KeptBeforeCopy, Interactive, workVars,
        answerVars, Interview, AtWork
  <2>3. UNCHANGED findsVars
        /\ (pc' \in Sampled => pc \in Sampled /\ UNCHANGED <<number, cycle>>)
    BY <1>23 DEF TownsRefused, Sampled, workVars
  <2> QED BY <2>1, <2>2, <2>3, SameFinds
<1>24. ASSUME NEW text \in Text[Towns], TownsWritten(text) PROVE LeadInv'
  <2>1. InterviewTypeOK'
    BY <1>24, ContentTyped, SameFindsTyped
    DEF TownsWritten, Numbered, JournalIsAnswers, Interactive, Pc, workVars, answerVars,
        Interview
  <2>2. Numbered' /\ JournalIsAnswers' /\ KeptBeforeCopy' /\ kept \subseteq kept'
    BY <1>24
    DEF TownsWritten, Numbered, JournalIsAnswers, KeptBeforeCopy, Interactive, workVars,
        answerVars, Interview, AtWork
  <2>3. UNCHANGED findsVars
        /\ (pc' \in Sampled => pc \in Sampled /\ UNCHANGED <<number, cycle>>)
    BY <1>24 DEF TownsWritten, Sampled, workVars
  <2> QED BY <2>1, <2>2, <2>3, SameFinds
<1> QED BY <1>1, <1>2, <1>3, <1>4, <1>5, <1>6, <1>7, <1>8, <1>9, <1>10, <1>11, <1>12,
   <1>13, <1>14, <1>15, <1>16, <1>17, <1>18, <1>19, <1>20, <1>21,
   <1>22, <1>23, <1>24
  DEF QuietStep

(* A step that changes only the finds, and where the interview stands. *)
OnlyFinds == UNCHANGED <<number, workVars, dir, live, answerVars, kept>>

(* A step that changes only the finds keeps the types of the interview.     *)
LEMMA OnlyFindsTyped ==
  ASSUME LeadInv, OnlyFinds, FindsTypeOK', pc' \in Pc,
         pc' \in Interactive => pc \in Interactive, pc' = "generate" => pc = "generate"
  PROVE  InterviewTypeOK' /\ Numbered' /\ JournalIsAnswers'
<1>1. InterviewTypeOK'
  BY DEF LeadInv, InterviewTypeOK, OnlyFinds, workVars, answerVars
<1>2. Numbered' /\ JournalIsAnswers'
  BY DEF LeadInv, Numbered, JournalIsAnswers, OnlyFinds, workVars, answerVars
<1> QED BY <1>1, <1>2

(* The discards, whatever comes next: no provisional row is left. *)
LEMMA DiscardInv ==
  ASSUME LeadInv, DiscardProvisionalFinds, OnlyFinds, pc' \in Pc \ {"copy", "promote", "generate"},
         pc \in Interactive
  PROVE  LeadInv'
<1>1. FindsTypeOK'
      /\ \A q \in Key : IF finds[q] = "provisional"
                        THEN finds'[q] = "absent" /\ leadOf'[q] = NoSample
                        ELSE finds'[q] = finds[q] /\ leadOf'[q] = leadOf[q]
  BY DiscardEffect DEF LeadInv, InterviewTypeOK
<1>2. InterviewTypeOK' /\ Numbered' /\ JournalIsAnswers'
  BY <1>1, OnlyFindsTyped
<1>3. Provisional' = {}
  BY <1>1 DEF Provisional
<1>4. LeadsKnown' /\ LeadsOfThisRun' /\ KeptBeforeCopy'
  BY <1>3 DEF LeadsKnown, LeadsOfThisRun, KeptBeforeCopy
<1>5. LeadsWereKept'
  <2> SUFFICES ASSUME NEW k \in Key, finds'[k] # "absent", finds'[k] # "provisional",
                      leadOf'[k] # NoSample
               PROVE  leadOf'[k] \in kept'
    BY DEF LeadsWereKept, Present, Provisional
  <2>1. k \in Present \ Provisional /\ leadOf[k] = leadOf'[k] /\ kept' = kept
    BY <1>1 DEF Present, Provisional, OnlyFinds
  <2> QED BY <2>1 DEF LeadInv, LeadsWereKept
<1> QED BY <1>2, <1>4, <1>5 DEF LeadInv

(* A find the sample run saves is a lead of this interview and of this      *)
(* cycle.                                                                   *)
LEMMA SampleSavesInv ==
  ASSUME LeadInv, NEW k \in Key, SampleSaves(k)
  PROVE  LeadInv'
<1> DEFINE sample == <<number, cycle>>
<1>1. sample \in Sample /\ "provisional" \in Status /\ pc \in Pc /\ pc = "sample"
  BY FindsBounds
  DEF SampleSaves, LeadInv, InterviewTypeOK, Numbered, Interactive, Sample, Status
<1>2. FindsTypeOK'
      /\ \A q \in Key : \/ finds'[q] = finds[q] /\ leadOf'[q] = leadOf[q]
                        \/ finds'[q] = "provisional" /\ leadOf'[q] = sample
  BY <1>1, InsertEffect DEF SampleSaves, LeadInv, InterviewTypeOK
<1>3. OnlyFinds /\ pc' = pc
  BY DEF SampleSaves, OnlyFinds, workVars, answerVars
<1>4. InterviewTypeOK' /\ Numbered' /\ JournalIsAnswers'
  BY <1>1, <1>2, <1>3, OnlyFindsTyped
<1>5. number' = number /\ cycle' = cycle /\ kept' = kept
  BY <1>3 DEF OnlyFinds, workVars
<1>6. ASSUME NEW q \in Provisional' PROVE leadOf'[q] = sample /\ leadOf'[q] # NoSample
  <2>1. q \in Key /\ finds'[q] = "provisional"
    BY DEF Provisional
  <2>2. q \in Provisional => leadOf[q] = sample
    BY <1>1 DEF LeadInv, LeadsOfThisRun, Sampled
  <2>3. leadOf'[q] = sample
    BY <1>2, <2>1, <2>2 DEF Provisional
  <2> QED BY <1>1, <2>3, FindsBounds
<1>7. LeadsKnown' /\ LeadsOfThisRun' /\ KeptBeforeCopy'
  BY <1>1, <1>3, <1>5, <1>6 DEF LeadsKnown, LeadsOfThisRun, KeptBeforeCopy
<1>8. LeadsWereKept'
  BY <1>2, <1>5 DEF LeadInv, LeadsWereKept, Present, Provisional
<1> QED BY <1>4, <1>7, <1>8 DEF LeadInv

(* Where promotion by status is safe: every provisional row is a lead of    *)
(* the run that was kept.                                                   *)
LEMMA PromoteLeadsInv ==
  ASSUME LeadInv, PromoteLeads
  PROVE  LeadInv'
<1>1. FindsTypeOK' /\ leadOf' = leadOf
      /\ \A q \in Key : finds'[q] = IF finds[q] = "provisional" THEN "new" ELSE finds[q]
  BY PromoteEffect DEF PromoteLeads, LeadInv, InterviewTypeOK
<1>2. OnlyFinds /\ pc = "promote" /\ pc' = "unstage"
  BY DEF PromoteLeads, Goto, OnlyFinds, workVars, answerVars
<1>3. InterviewTypeOK' /\ Numbered' /\ JournalIsAnswers'
  BY <1>1, <1>2, OnlyFindsTyped DEF Pc, Interactive
<1>4. Provisional' = {}
  BY <1>1 DEF Provisional
<1>5. LeadsKnown' /\ LeadsOfThisRun' /\ KeptBeforeCopy'
  BY <1>2, <1>4 DEF LeadsKnown, LeadsOfThisRun, KeptBeforeCopy
<1>6. LeadsWereKept'
  <2> SUFFICES ASSUME NEW k \in Key, finds'[k] # "absent", leadOf'[k] # NoSample
               PROVE  leadOf'[k] \in kept'
    BY DEF LeadsWereKept, Present, Provisional
  <2>1. kept' = kept /\ <<number, cycle>> \in kept
    BY <1>2 DEF OnlyFinds, LeadInv, KeptBeforeCopy
  <2>2. CASE finds[k] = "provisional"
    BY <1>1, <1>2, <2>1, <2>2 DEF LeadInv, LeadsOfThisRun, Sampled, Provisional
  <2>3. CASE finds[k] # "provisional"
    BY <1>1, <2>1, <2>3 DEF LeadInv, LeadsWereKept, Present, Provisional
  <2> QED BY <2>2, <2>3
<1> QED BY <1>3, <1>5, <1>6 DEF LeadInv

(* The feed and the scheduled agents make no lead.                          *)
LEMMA OthersInv ==
  ASSUME LeadInv, Others
  PROVE  LeadInv'
<1>1. FindsTypeOK'
      /\ \A q \in Key : \/ finds'[q] = finds[q] /\ leadOf'[q] = leadOf[q]
                        \/ leadOf'[q] = NoSample /\ finds'[q] \notin {"absent", "provisional"}
  BY FeedEffect DEF Others, LeadInv, InterviewTypeOK
<1>2. OnlyFinds /\ pc' = pc /\ number' = number /\ cycle' = cycle /\ kept' = kept
  BY DEF Others, OnlyFinds, workVars, answerVars
<1>3. InterviewTypeOK' /\ Numbered' /\ JournalIsAnswers'
  BY <1>1, <1>2, OnlyFindsTyped DEF LeadInv, InterviewTypeOK
<1>4. \A q \in Provisional' : q \in Provisional /\ leadOf'[q] = leadOf[q]
  BY <1>1 DEF Provisional
<1>5. LeadsKnown' /\ LeadsOfThisRun' /\ KeptBeforeCopy'
  BY <1>2, <1>4 DEF LeadInv, LeadsKnown, LeadsOfThisRun, KeptBeforeCopy
<1>6. LeadsWereKept'
  BY <1>1, <1>2 DEF LeadInv, LeadsWereKept, Present, Provisional
<1> QED BY <1>3, <1>5, <1>6 DEF LeadInv

(* Every step keeps the history of leads.                                   *)
LEMMA InterviewStepInv ==
  ASSUME LeadInv, [Next]_vars
  PROVE  LeadInv'
<1>1. CASE QuietStep
  BY <1>1, QuietStepInv
<1>2. CASE ClearLeads
  <2>1. DiscardProvisionalFinds /\ OnlyFinds /\ pc = "clear" /\ pc' = "start"
    BY <1>2 DEF ClearLeads, Goto, OnlyFinds, workVars, answerVars
  <2> QED BY <2>1, DiscardInv DEF Pc, Interactive
<1>3. CASE DropLeads
  <2>1. DiscardProvisionalFinds /\ OnlyFinds
    BY <1>3 DEF DropLeads, OnlyFinds
  <2>2. pc \in {"abandon", "reverted"} /\ pc' \in {"abandoned", "over"}
    BY <1>3 DEF DropLeads, Goto
  <2> QED BY <2>1, <2>2, DiscardInv DEF Pc, Interactive
<1>4. ASSUME NEW k \in Key, SampleSaves(k) PROVE LeadInv'
  BY <1>4, SampleSavesInv
<1>5. CASE PromoteLeads
  BY <1>5, PromoteLeadsInv
<1>6. CASE Others
  BY <1>6, OthersInv
<1>7. CASE Throws \/ Crash
  <2>1. Die
    BY <1>7 DEF Throws, Crash
  <2> QED BY <2>1, QuietStepInv DEF QuietStep
<1>8. CASE UNCHANGED vars
  BY <1>8, SameFinds
  DEF LeadInv, vars, findsVars, workVars, answerVars, InterviewTypeOK, FindsTypeOK,
      Numbered, JournalIsAnswers, KeptBeforeCopy
<1> QED
  BY <1>1, <1>2, <1>3, <1>4, <1>5, <1>6, <1>7, <1>8
  DEF Next, Start, Proceed, Receive, QuietStep

(* Every step of an interview keeps LeadInv. *)
THEOREM LeadsFollowed == Spec => []LeadInv
BY InterviewInit, InterviewStepInv, PTL DEF Spec

(* The interviewer, its journal, its staging directory and the finds keep   *)
(* their types; the cycle counter needs that the loop of runInteractive     *)
(* stops at totalCycles.                                                    *)
THEOREM InterviewTyped == Spec => []InterviewTypeOK
<1>1. LeadInv => InterviewTypeOK
  BY DEF LeadInv
<1> QED BY <1>1, LeadsFollowed, PTL

(* promoteProvisionalFinds, which asks for a status only, never takes a     *)
(* lead of another interview or of an earlier cycle into the feed.          *)
THEOREM InterviewKeepsLeads == Spec => []LeadsWereKept
<1>1. LeadInv => LeadsWereKept
  BY DEF LeadInv
<1> QED BY <1>1, LeadsFollowed, PTL

-----------------------------------------------------------------------------
(* The finds of the others. *)

(* The quiet steps leave the finds alone.                                   *)
LEMMA QuietKeepsFinds ==
  ASSUME QuietStep
  PROVE  UNCHANGED findsVars
BY DEF QuietStep, StartPrepared, StartInteractive, Answer, ConvoFails, ConvoEnds, BuildWrites,
       PreparedWrites, BuildEnds, GenerationEnds, StartSample, SampleEdits, SampleEnds, Review,
       GateUnasked, GateAsked, Confirm, CopyFile, RestoreFile, DiscardStaging, Archive, Die,
       TownsAsked, TownsRefused, TownsWritten

(* No find of a scheduled agent, and no row a steward or the curator has    *)
(* set, is turned provisional by a sample run or deleted by an interview:   *)
(* insertFind leaves the row it meets alone, and the rows the deletion      *)
(* meets are leads.                                                         *)
THEOREM InterviewSparesFinds == Spec => RealFindsSurvive
<1> DEFINE Spared ==
      \A k \in Present : leadOf[k] = NoSample => finds'[k] \notin {"absent", "provisional"}
<1>1. ASSUME LeadInv, [Next]_vars PROVE Spared
  <2> SUFFICES ASSUME NEW k \in Key, finds[k] # "absent", leadOf[k] = NoSample
               PROVE  finds'[k] \notin {"absent", "provisional"}
    BY DEF Present
  <2>1. FindsTypeOK /\ finds[k] # "provisional"
    BY <1>1 DEF LeadInv, InterviewTypeOK, LeadsKnown, Provisional
  <2>2. CASE QuietStep
    BY <2>1, <2>2, QuietKeepsFinds DEF findsVars
  <2>3. CASE ClearLeads \/ DropLeads
    <3>1. DiscardProvisionalFinds
      BY <2>3 DEF ClearLeads, DropLeads
    <3> QED BY <2>1, <3>1, DiscardEffect
  <2>4. ASSUME NEW q \in Key, SampleSaves(q) PROVE finds'[k] \notin {"absent", "provisional"}
    <3>1. <<number, cycle>> \in Sample /\ "provisional" \in Status
      BY <1>1, <2>4, FindsBounds
      DEF SampleSaves, LeadInv, InterviewTypeOK, Numbered, Interactive, Sample, Status
    <3>2. finds'[k] = finds[k]
      BY <2>1, <2>4, <3>1, InsertEffect DEF SampleSaves
    <3> QED BY <2>1, <3>2
  <2>5. CASE PromoteLeads
    BY <2>1, <2>5, PromoteEffect DEF PromoteLeads
  <2>6. CASE Others
    BY <2>1, <2>6, FeedEffect DEF Others
  <2>7. CASE Throws \/ Crash
    <3>1. Die
      BY <2>7 DEF Throws, Crash
    <3> QED BY <2>1, <3>1 DEF Die, findsVars
  <2>8. CASE UNCHANGED vars
    BY <2>1, <2>8 DEF vars, findsVars
  <2> QED
    BY <1>1, <2>2, <2>3, <2>4, <2>5, <2>6, <2>7, <2>8
    DEF Next, Start, Proceed, Receive, QuietStep
<1>2. ASSUME LeadInv, [Next]_vars PROVE [Spared]_vars
  BY <1>1, <1>2
<1> QED BY <1>2, LeadsFollowed, PTL DEF Spec, RealFindsSurvive

-----------------------------------------------------------------------------
(* The answers. *)

Built   == {"build", "clear", "start", "sample", "review", "gate", "copy"}
WentLive == {"promote", "unstage", "archive"}

AnswerInv ==
  /\ pc \in Built => built = answered
  /\ pc \in WentLive => liveFrom = answered
  /\ liveFrom <= answered
  /\ AnswersSurvive

SameAnswers ==
  /\ UNCHANGED answerVars
  /\ pc' \in Built => pc \in Built
  /\ pc' \in WentLive => pc \in WentLive

(* A step that touches neither journal nor built answers loses none of      *)
(* them.                                                                    *)
LEMMA SameAnswersInv ==
  ASSUME AnswerInv, SameAnswers
  PROVE  AnswerInv'
BY DEF AnswerInv, SameAnswers, AnswersSurvive, answerVars

(* No step loses an answer: archiving the journal needs a build whose       *)
(* files are live.                                                          *)
LEMMA AnswerStepInv ==
  ASSUME LeadInv, AnswerInv, [Next]_vars
  PROVE  AnswerInv'
<1> USE DEF Built, WentLive
<1>1. journal \in Nat /\ answered \in Nat /\ built \in Nat /\ liveFrom \in Nat
  BY AnswersAssumption DEF LeadInv, InterviewTypeOK
<1>2. ASSUME NEW n \in 1 .. MaxCycles, StartInteractive(n) PROVE AnswerInv'
  BY <1>2 DEF StartInteractive, AnswerInv, AnswersSurvive
<1>3. CASE StartPrepared
  BY <1>3 DEF StartPrepared, AnswerInv, AnswersSurvive
<1>4. CASE Answer
  BY <1>1, <1>4 DEF Answer, AnswerInv, AnswersSurvive
<1>5. CASE ConvoEnds
  BY <1>5 DEF ConvoEnds, Goto, AnswerInv, AnswersSurvive
<1>6. ASSUME NEW a \in Artifact, CopyFile(a) PROVE AnswerInv'
  BY <1>1, <1>6 DEF CopyFile, Goto, AnswerInv, AnswersSurvive
<1>7. CASE Archive
  BY <1>1, <1>7 DEF Archive, Goto, AnswerInv, AnswersSurvive
<1>8. CASE Throws \/ Crash
  <2>1. Die
    BY <1>8 DEF Throws, Crash
  <2> QED BY <2>1 DEF Die, AnswerInv, AnswersSurvive
<1>9. ASSUME SameAnswers PROVE AnswerInv'
  BY <1>9, SameAnswersInv
<1>10. ASSUME StartSample PROVE SameAnswers
  BY <1>10 DEF StartSample, Goto, SameAnswers, answerVars
<1>11. ASSUME ConvoFails PROVE SameAnswers
  BY <1>11 DEF ConvoFails, Goto, SameAnswers, answerVars
<1>12. ASSUME NEW a \in Artifact, NEW text \in Text[a], BuildWrites(a, text) PROVE SameAnswers
  BY <1>12 DEF BuildWrites, SameAnswers, answerVars
<1>13. ASSUME NEW ok \in BOOLEAN, BuildEnds(ok) PROVE SameAnswers
  BY <1>13 DEF BuildEnds, Goto, SameAnswers, answerVars
<1>14. ASSUME ClearLeads PROVE SameAnswers
  BY <1>14 DEF ClearLeads, Goto, SameAnswers, answerVars
<1>15. ASSUME NEW k \in Key, SampleSaves(k) PROVE SameAnswers
  BY <1>15 DEF SampleSaves, SameAnswers, answerVars
<1>16. ASSUME NEW text \in Text[Profile], SampleEdits(text) PROVE SameAnswers
  BY <1>16 DEF SampleEdits, SameAnswers, answerVars
<1>17. ASSUME SampleEnds PROVE SameAnswers
  BY <1>17 DEF SampleEnds, Goto, SameAnswers, answerVars
<1>18. ASSUME Review PROVE SameAnswers
  BY <1>18 DEF Review, Goto, SameAnswers, answerVars
<1>19. ASSUME GateUnasked PROVE SameAnswers
  BY <1>19 DEF GateUnasked, Goto, SameAnswers, answerVars
<1>20. ASSUME NEW reply \in {"yes", "no"}, GateAsked(reply) PROVE SameAnswers
  BY <1>20 DEF GateAsked, Goto, SameAnswers, answerVars
<1>21. ASSUME PromoteLeads PROVE SameAnswers
  BY <1>21 DEF PromoteLeads, Goto, SameAnswers, answerVars
<1>22. ASSUME DiscardStaging PROVE SameAnswers
  BY <1>22 DEF DiscardStaging, Goto, SameAnswers, answerVars
<1>23. ASSUME DropLeads PROVE SameAnswers
  BY <1>23 DEF DropLeads, Goto, SameAnswers, answerVars
<1>24. ASSUME NEW a \in Artifact, NEW text \in Text[a], PreparedWrites(a, text) PROVE SameAnswers
  BY <1>24 DEF PreparedWrites, SameAnswers, answerVars
<1>25. ASSUME NEW ok \in BOOLEAN, GenerationEnds(ok) PROVE SameAnswers
  BY <1>25 DEF GenerationEnds, Goto, SameAnswers, answerVars
<1>26. ASSUME NEW reply \in {"unasked", "yes", "no"}, Confirm(reply) PROVE SameAnswers
  BY <1>26 DEF Confirm, Goto, SameAnswers, answerVars
<1>27. ASSUME NEW a \in Artifact, RestoreFile(a) PROVE SameAnswers
  BY <1>27 DEF RestoreFile, Goto, SameAnswers, answerVars
<1>28. ASSUME Others PROVE SameAnswers
  BY <1>28 DEF Others, SameAnswers, answerVars
<1>29. ASSUME UNCHANGED vars PROVE SameAnswers
  BY <1>29 DEF vars, SameAnswers, answerVars
<1>30. ASSUME TownsAsked \/ TownsRefused PROVE SameAnswers
  BY <1>30 DEF TownsAsked, TownsRefused, SameAnswers, answerVars
<1>31. ASSUME NEW text \in Text[Towns], TownsWritten(text) PROVE SameAnswers
  BY <1>31 DEF TownsWritten, SameAnswers, answerVars
<1> QED
  BY <1>2, <1>3, <1>4, <1>5, <1>6, <1>7, <1>8, <1>9, <1>30, <1>31,
     <1>10, <1>11, <1>12, <1>13, <1>14, <1>15, <1>16, <1>17, <1>18, <1>19, <1>20, <1>21,
     <1>22, <1>23, <1>24, <1>25, <1>26, <1>27, <1>28, <1>29
  DEF Next, Start, Proceed, Receive

(* Every answer the user has given is in the journal, or was in the         *)
(* transcript of a build whose files were copied over the live ones: no     *)
(* interruption and no way out of runInteractive loses one.                 *)
THEOREM InterviewAnswers == Spec => []AnswersSurvive
<1>1. Init => AnswerInv
  BY DEF Init, AnswerInv, AnswersSurvive, Built, WentLive
<1>2. LeadInv /\ AnswerInv /\ [Next]_vars => AnswerInv'
  BY AnswerStepInv
<1>3. AnswerInv => AnswersSurvive
  BY DEF AnswerInv
<1> QED BY <1>1, <1>2, <1>3, LeadsFollowed, PTL DEF Spec

-----------------------------------------------------------------------------
(* The files. *)

(* Where the prepared path stands, and where nothing was answered yet.      *)
Prepared == {"generate", "confirm", "restore"}
Open     == {"convo", "build", "clear", "start", "sample", "review", "gate",
             "abandon", "abandoned", "generate", "confirm"}
Keeping  == {"copy", "promote", "unstage", "archive"}

(* Where a call of set_towns may be waiting. *)
Waiting  == {"build", "generate", "revert", "reverted", "over"}

(* The files copied or restored so far are as they should be, and nothing   *)
(* else has touched the live ones since the interview began, but a call     *)
(* that a failed build left behind.                                         *)
FileInv ==
  /\ pending => pc \in Waiting /\ answer = "none"
  /\ pc \in Prepared => cycles = 0
  /\ pc \in Open => answer = "none" /\ done = {}
  /\ pc \in Keeping => answer \in {"yes", "unasked"}
  /\ pc \in Interactive \ Keeping /\ (pc = "reverted" => answer # "none") => live = before
  /\ pc = "copy" /\ answer = "unasked" => live = staged
  /\ pc = "copy" =>
       \A a \in done : staged[a] # Missing => live[a] = staged[a]
  /\ pc = "restore" => \A a \in done : live[a] = before[a]
  /\ RejectRestores
  /\ PromotedWhole

(* Every step keeps what is known of live, staged and saved files at each   *)
(* place of the interview.                                                  *)
LEMMA FileStepInv ==
  ASSUME LeadInv, FileInv, [Next]_vars
  PROVE  FileInv'
<1> USE DEF FileInv, Prepared, Open, Keeping, Waiting, Interactive, RejectRestores,
            PromotedWhole
<1>0. /\ staged \in [Artifact -> Content] /\ before \in [Artifact -> Content]
      /\ live \in [Artifact -> Content] /\ done \subseteq Artifact
      /\ pc \in Interactive => cycles \in 1 .. MaxCycles
  BY DEF LeadInv, InterviewTypeOK, Numbered
<1>1. CASE StartPrepared
  BY <1>0, <1>1 DEF StartPrepared, workVars, answerVars, AtWork
<1>2. ASSUME NEW n \in 1 .. MaxCycles, StartInteractive(n) PROVE FileInv'
  BY <1>0, <1>2 DEF StartInteractive, workVars, answerVars, AtWork
<1>3. CASE Answer
  BY <1>0, <1>3 DEF Answer, workVars, answerVars, AtWork
<1>4. CASE ConvoFails
  BY <1>0, <1>4 DEF ConvoFails, Goto, workVars, answerVars, AtWork
<1>5. CASE ConvoEnds
  BY <1>0, <1>5 DEF ConvoEnds, Goto, workVars, answerVars, AtWork
<1>6. ASSUME NEW a \in Artifact, NEW text \in Text[a], BuildWrites(a, text) PROVE FileInv'
  BY <1>0, <1>6 DEF BuildWrites, workVars, answerVars, AtWork
<1>7. ASSUME NEW ok \in BOOLEAN, BuildEnds(ok) PROVE FileInv'
  BY <1>0, <1>7 DEF BuildEnds, Goto, workVars, answerVars, AtWork
<1>8. CASE ClearLeads
  BY <1>0, <1>8 DEF ClearLeads, Goto, workVars, answerVars, AtWork
<1>9. CASE StartSample
  BY <1>0, <1>9 DEF StartSample, Goto, workVars, answerVars, AtWork
<1>10. ASSUME NEW k \in Key, SampleSaves(k) PROVE FileInv'
  BY <1>0, <1>10 DEF SampleSaves, workVars, answerVars, AtWork
<1>11. ASSUME NEW text \in Text[Profile], SampleEdits(text) PROVE FileInv'
  BY <1>0, <1>11 DEF SampleEdits, workVars, answerVars, AtWork
<1>12. CASE SampleEnds
  BY <1>0, <1>12 DEF SampleEnds, Goto, workVars, answerVars, AtWork
<1>13. CASE Review
  BY <1>0, <1>13 DEF Review, Goto, workVars, answerVars, AtWork
<1>14. CASE GateUnasked
  BY <1>0, <1>14 DEF GateUnasked, Goto, workVars, answerVars, AtWork
<1>15. ASSUME NEW reply \in {"yes", "no"}, GateAsked(reply) PROVE FileInv'
  BY <1>0, <1>15 DEF GateAsked, Goto, workVars, answerVars, AtWork
<1>16. ASSUME NEW a \in Artifact, CopyFile(a) PROVE FileInv'
  BY <1>0, <1>16 DEF CopyFile, Goto, workVars, answerVars, AtWork
<1>17. CASE PromoteLeads
  BY <1>0, <1>17 DEF PromoteLeads, Goto, workVars, answerVars, AtWork
<1>18. CASE DiscardStaging
  BY <1>0, <1>18 DEF DiscardStaging, Goto, workVars, answerVars, AtWork
<1>19. CASE DropLeads
  BY <1>0, <1>19 DEF DropLeads, Goto, workVars, answerVars, AtWork
<1>20. CASE Archive
  BY <1>0, <1>20 DEF Archive, Goto, workVars, answerVars, AtWork
<1>21. ASSUME NEW a \in Artifact, NEW text \in Text[a], PreparedWrites(a, text) PROVE FileInv'
  BY <1>0, <1>21 DEF PreparedWrites, workVars, answerVars, AtWork
<1>22. ASSUME NEW ok \in BOOLEAN, GenerationEnds(ok) PROVE FileInv'
  BY <1>0, <1>22 DEF GenerationEnds, Goto, workVars, answerVars, AtWork
<1>23. ASSUME NEW reply \in {"unasked", "yes", "no"}, Confirm(reply) PROVE FileInv'
  BY <1>0, <1>23 DEF Confirm, Goto, workVars, answerVars, AtWork
<1>24. ASSUME NEW a \in Artifact, RestoreFile(a) PROVE FileInv'
  BY <1>0, <1>24 DEF RestoreFile, Goto, workVars, answerVars, AtWork
<1>25. CASE Others
  BY <1>25 DEF Others, workVars, answerVars
<1>26. CASE UNCHANGED vars
  BY <1>0, <1>26 DEF vars, workVars, answerVars, AtWork
<1>27. CASE Throws \/ Crash
  <2>1. Die
    BY <1>27 DEF Throws, Crash
  <2> QED BY <2>1 DEF Die
<1>28. CASE TownsAsked
  BY <1>0, <1>28 DEF TownsAsked
<1>29. CASE TownsRefused
  BY <1>0, <1>29 DEF TownsRefused
<1>30. ASSUME NEW text \in Text[Towns], TownsWritten(text) PROVE FileInv'
  BY <1>0, <1>30 DEF TownsWritten
<1> QED
  BY <1>1, <1>2, <1>3, <1>4, <1>5, <1>6, <1>7, <1>8, <1>9, <1>10, <1>11, <1>12, <1>13,
     <1>14, <1>15, <1>16, <1>17, <1>18, <1>19, <1>20, <1>21, <1>22, <1>23, <1>24,
     <1>25, <1>26, <1>27, <1>28, <1>29, <1>30
  DEF Next, Start, Proceed, Receive

(* In every state live, staged and saved files stand to each other as the   *)
(* place of the interview says; copying and restoring advance file by       *)
(* file.                                                                    *)
THEOREM FilesFollowed == Spec => []FileInv
<1>1. Init => FileInv
  BY DEF Init, FileInv, Prepared, Open, Keeping, Waiting, Interactive, RejectRestores,
         PromotedWhole
<1> QED BY <1>1, FileStepInv, LeadsFollowed, PTL DEF Spec

(* Whatever the user has said no to is undone, on either path: at rest the  *)
(* live files are those the interview found.                                *)
THEOREM InterviewRestores == Spec => []RejectRestores
<1>1. FileInv => RejectRestores
  BY DEF FileInv
<1> QED BY <1>1, FilesFollowed, PTL

(* Past promoteStaging every file the build left is live, in whatever order *)
(* the files were copied and whichever of them were missing.                *)
THEOREM InterviewPromotes == Spec => []PromotedWhole
<1>1. FileInv => PromotedWhole
  BY DEF FileInv
<1> QED BY <1>1, FilesFollowed, PTL

(* No step of the interactive path, and nobody else, changes a live file    *)
(* but by a copy the user said yes to; without a difference there is no     *)
(* question, and then the copies change nothing.  The one exception is a    *)
(* set_towns that was at the geocoder when its build failed: it may still   *)
(* write towns.json, once, and no other file.                               *)
THEOREM InterviewAsks == Spec => ConfigGated
<1> DEFINE Gated == \A a \in Artifact :
                      AtWork /\ cycles > 0 /\ live'[a] # live[a] =>
                        \/ answer = "yes" /\ live'[a] = staged[a]
                        \/ a = Towns /\ pending /\ ~pending' /\ answer = "none"
<1>1. ASSUME LeadInv, FileInv, [Next]_vars PROVE Gated
  <2>1. /\ live \in [Artifact -> Content] /\ staged \in [Artifact -> Content]
        /\ cycles \in 0 .. MaxCycles
    BY <1>1 DEF LeadInv, InterviewTypeOK
  <2>2. ASSUME NEW a \in Artifact, CopyFile(a) PROVE Gated
    BY <1>1, <2>1, <2>2 DEF CopyFile, Goto, FileInv, Keeping
  <2>3. ASSUME NEW a \in Artifact, NEW text \in Text[a], PreparedWrites(a, text) PROVE Gated
    BY <1>1, <2>3 DEF PreparedWrites, FileInv, Prepared
  <2>4. ASSUME NEW a \in Artifact, RestoreFile(a) PROVE Gated
    BY <1>1, <2>4 DEF RestoreFile, Goto, FileInv, Prepared
  <2>5. CASE UNCHANGED live
    BY <2>5
  <2>6. ASSUME NEW text \in Text[Towns], TownsWritten(text) PROVE Gated
    <3>1. pending /\ ~pending' /\ answer = "none"
      BY <1>1, <2>6 DEF TownsWritten, FileInv
    <3>2. \A a \in Artifact \ {Towns} : live'[a] = live[a]
      BY <2>1, <2>6 DEF TownsWritten
    <3> QED BY <3>1, <3>2
  <2>7. \/ UNCHANGED live
        \/ \E a \in Artifact : CopyFile(a) \/ RestoreFile(a)
        \/ \E a \in Artifact : \E text \in Text[a] : PreparedWrites(a, text)
        \/ \E text \in Text[Towns] : TownsWritten(text)
    BY <1>1
    DEF Next, Start, Proceed, Receive, StartPrepared, StartInteractive, Answer, ConvoFails,
        ConvoEnds, BuildWrites, BuildEnds, ClearLeads, StartSample, SampleSaves,
        SampleEdits, SampleEnds, Review, GateUnasked, GateAsked, PromoteLeads,
        DiscardStaging, DropLeads, Archive, GenerationEnds, Confirm, Throws, Crash, Die,
        Others, vars, TownsAsked, TownsRefused
  <2> QED BY <2>2, <2>3, <2>4, <2>5, <2>6, <2>7
<1>2. ASSUME LeadInv, FileInv, [Next]_vars PROVE [Gated]_vars
  BY <1>1, <1>2
<1> QED BY <1>2, LeadsFollowed, FilesFollowed, PTL DEF Spec, ConfigGated

-----------------------------------------------------------------------------
(* What an interview leaves behind. *)

(* Its provisional leads go before its directory on the way out of a        *)
(* conversation that gave up, after it on the way out of a reject.          *)
LeftInv ==
  /\ pc \in {"abandoned", "unstage", "archive"} => Provisional = {}
  /\ pc \in {"archive", "reverted"} => ~dir
  /\ OverLeavesNothing

(* A row becomes provisional in a sample run only. *)
LEMMA NoNewLeads ==
  ASSUME LeadInv, [Next]_vars, ~ \E k \in Key : SampleSaves(k)
  PROVE  Provisional' \subseteq Provisional
<1>1. FindsTypeOK
  BY DEF LeadInv, InterviewTypeOK
<1>2. CASE QuietStep
  BY <1>2, QuietKeepsFinds DEF findsVars, Provisional
<1>3. CASE ClearLeads \/ DropLeads
  BY <1>1, <1>3, DiscardEffect DEF ClearLeads, DropLeads, Provisional
<1>4. CASE PromoteLeads
  BY <1>1, <1>4, PromoteEffect DEF PromoteLeads, Provisional
<1>5. CASE Others
  BY <1>1, <1>5, FeedEffect DEF Others, Provisional
<1>6. CASE Throws \/ Crash
  BY <1>6 DEF Throws, Crash, Die, findsVars, Provisional
<1>7. CASE UNCHANGED vars
  BY <1>7 DEF vars, findsVars, Provisional
<1> QED
  BY <1>2, <1>3, <1>4, <1>5, <1>6, <1>7 DEF Next, Start, Proceed, Receive, QuietStep

(* An interactive interview at rest has left neither a staging directory    *)
(* nor a provisional lead, by whichever of its ends it got there, and no    *)
(* button of the feed brings one back.                                      *)
THEOREM InterviewCleansUp == Spec => []OverLeavesNothing
<1>1. Init => LeftInv
  BY DEF Init, LeftInv, OverLeavesNothing
<1>2. ASSUME LeadInv, FileInv, LeftInv, [Next]_vars PROVE LeftInv'
  <2> USE DEF LeftInv, OverLeavesNothing
  <2>0. pc \in Interactive => cycles \in 1 .. MaxCycles
    BY <1>2 DEF LeadInv, Numbered
  <2>1. CASE PromoteLeads
    <3>1. Provisional' = {}
      BY <1>2, <2>1, PromoteEffect DEF PromoteLeads, LeadInv, InterviewTypeOK, Provisional
    <3> QED BY <2>1, <3>1 DEF PromoteLeads, Goto
  <2>2. CASE DropLeads
    <3>1. Provisional' = {}
      BY <1>2, <2>2, DiscardEffect DEF DropLeads, LeadInv, InterviewTypeOK, Provisional
    <3> QED BY <1>2, <2>2, <3>1 DEF DropLeads, Goto
  <2>3. ASSUME NEW k \in Key, SampleSaves(k) PROVE LeftInv'
    BY <2>3 DEF SampleSaves
  <2> HIDE DEF LeftInv
  <2>4. CASE Provisional' \subseteq Provisional /\ ~ PromoteLeads /\ ~ DropLeads
    <3>1. CASE DiscardStaging
      BY <1>2, <2>4, <3>1 DEF DiscardStaging, Goto, LeftInv
    <3>2. CASE Archive
      BY <1>2, <2>4, <3>2 DEF Archive, Goto, LeftInv
    <3>3. ASSUME NEW ok \in BOOLEAN, GenerationEnds(ok) PROVE LeftInv'
      BY <1>2, <3>3 DEF GenerationEnds, Goto, LeftInv, FileInv, Prepared, workVars
    <3>4. ASSUME NEW reply \in {"unasked", "yes", "no"}, Confirm(reply) PROVE LeftInv'
      BY <1>2, <3>4 DEF Confirm, Goto, LeftInv, FileInv, Prepared
    <3>5. ASSUME NEW a \in Artifact, RestoreFile(a) PROVE LeftInv'
      BY <1>2, <3>5 DEF RestoreFile, Goto, LeftInv, FileInv, Prepared
    <3>6. CASE Throws \/ Crash
      BY <3>6 DEF Throws, Crash, Die, LeftInv
    <3>7. ASSUME pc' \in {"abandoned", "unstage", "archive", "reverted", "over"} =>
                   UNCHANGED <<pc, cycles, dir>>
          PROVE  LeftInv'
      BY <1>2, <2>4, <3>7 DEF LeftInv
    <3>8. CASE QuietStep /\ pc' \in {"abandoned", "unstage", "archive", "reverted", "over"}
      BY <3>1, <3>2, <3>3, <3>4, <3>5, <3>7, <3>8
      DEF QuietStep, StartPrepared, StartInteractive, Answer, ConvoFails, ConvoEnds,
          BuildWrites, PreparedWrites, BuildEnds, StartSample, SampleEdits, SampleEnds,
          Review, GateUnasked, GateAsked, CopyFile, Die, Goto, workVars,
          TownsAsked, TownsRefused, TownsWritten
    <3>9. CASE ClearLeads \/ Others \/ UNCHANGED vars
      BY <3>7, <3>9 DEF ClearLeads, Others, Goto, vars, workVars
    <3>10. CASE QuietStep /\ pc' \notin {"abandoned", "unstage", "archive", "reverted", "over"}
      BY <3>7, <3>10
    <3> QED BY <1>2, <2>3, <2>4, <3>6, <3>8, <3>9, <3>10
            DEF Next, Start, Proceed, Receive, QuietStep
  <2> QED BY <1>2, <2>1, <2>2, <2>3, <2>4, NoNewLeads
<1>3. LeftInv => OverLeavesNothing
  BY DEF LeftInv
<1> QED BY <1>1, <1>2, <1>3, LeadsFollowed, FilesFollowed, PTL DEF Spec

=============================================================================
