-------------------------------- MODULE JobProofs --------------------------------
(***************************************************************************)
(* The invariants of the two jobs that the window starts beside a flash    *)
(* session, for every value of their constants: the report that is sent    *)
(* to support, and the analysis of one or two sources.                     *)
(***************************************************************************)
EXTENDS SupportReport, AnalysisSession, TLAPS

-----------------------------------------------------------------------------
(* SupportReport: the phases of the worker, from when the prompt is         *)
(* answered; before the upload the server has nothing, and what the bundle  *)
(* holds is known from the step that copied it on.                          *)
Unsent == {"request", "approval", "gather", "firmware", "artifact", "describe"}
WorkSteps == Unsent \cup {"upload", "answer"}
Errors == {"tooLarge", "attachmentChanged", "error"}
Described == Texts \cup {NoText}

Bundles ==
    [claims : {"nothing", "attached", "unavailable"}, firmware : {"none", "whole"},
     artifact : {"none", "asked", "same"}, text : Described]

FirmwareAsClaimed(b) == b.firmware = IF b.claims = "attached" THEN "whole" ELSE "none"
Complete(b) == FirmwareAsClaimed(b) /\ b.artifact \in {"none", "same"} /\ b.text \in Texts

ServerInv ==
    /\ server \in [bundle : Bundles, text : Described, accepted : BOOLEAN, answered : BOOLEAN]
    /\ server.accepted => Complete(server.bundle) /\ server.text = server.bundle.text

WorkerInv ==
    /\ working \in WorkSteps \cup {"none"} /\ bundle \in Bundles
    /\ working \in Unsent => server = Nothing
    /\ working # "none" => ~server.answered /\ bundle.text \in Texts
    /\ working \in {"artifact", "describe"} => FirmwareAsClaimed(bundle)
    /\ working = "describe" => bundle.artifact \in {"none", "same"}
    /\ working \in {"upload", "answer"} => Complete(bundle) /\ server.text = bundle.text

ChannelInv ==
    /\ result \in Errors \cup {"none", "receipt", "workerLost"}
    /\ working # "none" => result = "none"
    /\ working # "none" \/ result # "none" => notice \in {"none", "opening", "stopping"}
    /\ result \in Errors => ~server.answered
    /\ result = "attachmentChanged" => server = Nothing
    /\ result = "receipt" => server.accepted

NoticeInv ==
    /\ notice = "receipt" => server.accepted
    /\ notice = "cancelled" => ~server.answered
    /\ notice = "attachmentChanged" => server = Nothing

ReportInv == ServerInv /\ WorkerInv /\ ChannelInv /\ NoticeInv

LEMMA NothingSent ==
    /\ Nothing \in [bundle : Bundles, text : Described, accepted : BOOLEAN, answered : BOOLEAN]
    /\ ~Nothing.accepted /\ ~Nothing.answered
<1>1. EmptyBundle \in Bundles
  BY DEF EmptyBundle, Bundles, Described
<1>. QED
  BY <1>1 DEF Nothing, Described

\* What the user has been told and what the server has agree, as the property says it.
LEMMA ReportInvSuffices == ReportInv => NoticeIsTrue
BY DEF ReportInv, ServerInv, NoticeInv, NoticeIsTrue, Complete, FirmwareAsClaimed

LEMMA ReportStarts == ReportInit => ReportInv
<1>1. EmptyBundle \in Bundles
  BY DEF EmptyBundle, Bundles, Described
<1>. QED
  BY <1>1, NothingSent DEF ReportInit, ReportInv, ServerInv, WorkerInv, ChannelInv, NoticeInv,
     Unsent, WorkSteps, Errors

\* The files, the prompt and the clock are not in the invariant.
LEMMA ReportFrame ==
    ASSUME ReportInv, UNCHANGED <<working, bundle, server, result, notice>> PROVE ReportInv'
BY DEF ReportInv, ServerInv, WorkerInv, ChannelInv, NoticeInv

\* A worker can end at any step, and say that it failed.
LEMMA ReportEndsAnywhere ==
    ASSUME ReportInv, working # "none", NEW r \in Errors \cup {"workerLost"}, EndsWith(r),
           r = "attachmentChanged" => server = Nothing
    PROVE  ReportInv'
BY DEF ReportInv, ServerInv, WorkerInv, ChannelInv, NoticeInv, EndsWith, FinishReport, uiVars,
   Errors, Unsent, WorkSteps

LEMMA ReportUiStep ==
    ASSUME ReportInv, AskReport \/ DismissReport \/ SendReport \/ CancelReport \/ PollReport
    PROVE  ReportInv'
<1>1. CASE AskReport \/ DismissReport
  BY <1>1, ReportFrame DEF AskReport, DismissReport, workerVars
<1>2. CASE SendReport
  <2>1. PICK t \in Texts :
          /\ bundle' = [EmptyBundle EXCEPT !.text = t,
                                           !.artifact = IF prompt = "logs" THEN "none" ELSE "asked"]
          /\ working' = "request" /\ server' = Nothing /\ notice' = "opening"
    BY <1>2 DEF SendReport
  <2>2. result' = "none"
    BY <1>2 DEF SendReport
  <2>3. bundle' \in Bundles /\ bundle'.text \in Texts
    BY <2>1 DEF EmptyBundle, Bundles, Described
  <2>. QED
    BY <2>1, <2>2, <2>3, NothingSent DEF ReportInv, ServerInv, WorkerInv, ChannelInv, NoticeInv,
       Unsent, WorkSteps, Errors
<1>3. CASE CancelReport
  BY <1>3 DEF CancelReport, ReportInv, ServerInv, WorkerInv, ChannelInv, NoticeInv
<1>4. CASE PollReport
  BY <1>4 DEF PollReport, ReportInv, ServerInv, WorkerInv, ChannelInv, NoticeInv, Errors
<1>. QED
  BY <1>1, <1>2, <1>3, <1>4

\* Up to the description: the bundle is put together, and nothing is sent.
LEMMA ReportPreparation ==
    ASSUME ReportInv, RequestApproval \/ PollApproval \/ Gather \/ CopyFirmware \/ CopyArtifact
    PROVE  ReportInv'
<1>1. ASSUME NEW r \in Errors, working \in Unsent, EndsWith(r) PROVE ReportInv'
  BY <1>1, ReportEndsAnywhere DEF ReportInv, WorkerInv, Unsent
<1>2. CASE working = "request" /\ RequestApproval
  BY <1>2 DEF RequestApproval, Proceeds, uiVars, ReportInv, ServerInv, WorkerInv, ChannelInv,
     NoticeInv, Unsent, WorkSteps
<1>3. CASE PollApproval
  <2>1. CASE working = "approval" /\ EndsWith("error")
    BY <2>1, <1>1 DEF Errors, Unsent
  <2>2. CASE Proceeds("approval", "gather") /\ UNCHANGED <<tries, bundle, server>>
    BY <2>2 DEF Proceeds, uiVars, ReportInv, ServerInv, WorkerInv, ChannelInv, NoticeInv, Unsent,
       WorkSteps
  <2>. QED
    BY <1>3, <2>1, <2>2 DEF PollApproval
<1>4. CASE Gather
  <2>1. CASE working = "gather" /\ (EndsWith("tooLarge") \/ EndsWith("attachmentChanged"))
    BY <2>1, <1>1 DEF Errors, Unsent
  <2>2. CASE \E claims \in {"nothing", "attached", "unavailable"} :
                /\ Proceeds("gather", "firmware") /\ UNCHANGED <<tries, server>>
                /\ bundle' = [bundle EXCEPT !.claims = claims]
    <3>1. PICK claims \in {"nothing", "attached", "unavailable"} :
                bundle' = [bundle EXCEPT !.claims = claims]
      BY <2>2
    <3>2. bundle' \in Bundles /\ bundle'.text = bundle.text
      BY <3>1 DEF ReportInv, WorkerInv, Bundles
    <3>. QED
      BY <2>2, <3>2 DEF Proceeds, uiVars, ReportInv, ServerInv, WorkerInv, ChannelInv, NoticeInv,
         Unsent, WorkSteps
  <2>. QED
    BY <1>4, <2>1, <2>2 DEF Gather
<1>5. CASE CopyFirmware
  <2>1. CASE working = "firmware" /\ EndsWith("attachmentChanged")
    BY <2>1, <1>1 DEF Errors, Unsent
  <2>2. CASE /\ Proceeds("firmware", "artifact") /\ UNCHANGED <<tries, server>>
             /\ bundle' = [bundle EXCEPT !.firmware =
                              IF bundle.claims = "attached" THEN "whole" ELSE "none"]
    <3>1. bundle' \in Bundles /\ bundle'.text = bundle.text /\ FirmwareAsClaimed(bundle')
      BY <2>2 DEF ReportInv, WorkerInv, Bundles, FirmwareAsClaimed
    <3>. QED
      BY <2>2, <3>1 DEF Proceeds, uiVars, ReportInv, ServerInv, WorkerInv, ChannelInv, NoticeInv,
         Unsent, WorkSteps
  <2>. QED
    BY <1>5, <2>1, <2>2 DEF CopyFirmware
<1>6. CASE CopyArtifact
  <2>1. CASE working = "artifact" /\ EndsWith("attachmentChanged")
    BY <2>1, <1>1 DEF Errors, Unsent
  <2>2. CASE /\ Proceeds("artifact", "describe") /\ UNCHANGED <<tries, server>>
             /\ bundle' = [bundle EXCEPT !.artifact =
                              IF bundle.artifact = "asked" THEN "same" ELSE "none"]
    <3>1. /\ bundle' \in Bundles /\ bundle'.text = bundle.text /\ FirmwareAsClaimed(bundle')
          /\ bundle'.artifact \in {"none", "same"}
      BY <2>2 DEF ReportInv, WorkerInv, Bundles, FirmwareAsClaimed, Proceeds
    <3>. QED
      BY <2>2, <3>1 DEF Proceeds, uiVars, ReportInv, ServerInv, WorkerInv, ChannelInv, NoticeInv,
         Unsent, WorkSteps
  <2>. QED
    BY <1>6, <2>1, <2>2 DEF CopyArtifact
<1>. QED
  BY <1>2, <1>3, <1>4, <1>5, <1>6 DEF RequestApproval, Proceeds

\* From the description on, the server has what the bundle says.
LEMMA ReportDelivery ==
    ASSUME ReportInv, Describe \/ Upload \/ UploadAnswer PROVE ReportInv'
<1>1. CASE Describe
  <2>1. server' = [server EXCEPT !.text = bundle.text]
    BY <1>1 DEF Describe
  <2>2. /\ server' \in [bundle : Bundles, text : Described, accepted : BOOLEAN, answered : BOOLEAN]
        /\ server'.text = bundle.text /\ ~server'.accepted /\ ~server'.answered
    BY <1>1, <2>1, NothingSent DEF Describe, ReportInv, ServerInv, WorkerInv, Unsent, Bundles
  <2>3. Complete(bundle) /\ bundle' = bundle
    BY <1>1 DEF Describe, ReportInv, WorkerInv, Complete, Proceeds, WorkSteps, Unsent
  <2>4. /\ notice' = notice
        /\ \/ working' = "upload" /\ result' = result
           \/ working' = "none" /\ result' = "error"
    BY <1>1 DEF Describe, Proceeds, FinishReport, uiVars
  <2>. QED
    BY <1>1, <2>2, <2>3, <2>4 DEF Describe, ReportInv, ServerInv, WorkerInv, ChannelInv, NoticeInv,
       Unsent, WorkSteps, Errors
<1>2. CASE Upload
  <2>1. /\ working = "upload" /\ working' = "answer" /\ UNCHANGED <<bundle, result, notice>>
        /\ server' \in {server, [server EXCEPT !.accepted = TRUE, !.bundle = bundle]}
    BY <1>2 DEF Upload, Proceeds, uiVars
  <2>2. Complete(bundle) /\ server.text = bundle.text /\ ~server.answered
    BY <2>1 DEF ReportInv, WorkerInv, WorkSteps
  <2>3. ServerInv' /\ server'.text = bundle.text /\ ~server'.answered
    BY <2>1, <2>2 DEF ReportInv, ServerInv, WorkerInv, Described, Complete, FirmwareAsClaimed
  <2>. QED
    BY <2>1, <2>2, <2>3 DEF ReportInv, ServerInv, WorkerInv, ChannelInv, NoticeInv, Unsent, WorkSteps,
       Errors
<1>3. CASE UploadAnswer
  <2>1. CASE EndsWith("error")
    BY <1>3, <2>1, ReportEndsAnywhere DEF UploadAnswer, Errors
  <2>2. CASE Proceeds("answer", "upload") /\ UNCHANGED <<bundle, server>>
    BY <2>2 DEF Proceeds, uiVars, ReportInv, ServerInv, WorkerInv, ChannelInv, NoticeInv, Unsent,
       WorkSteps
  <2>3. CASE /\ server.accepted /\ server' = [server EXCEPT !.answered = TRUE]
             /\ FinishReport("receipt") /\ UNCHANGED bundle
    <3>1. /\ ServerInv' /\ server'.accepted
      BY <2>3 DEF ReportInv, ServerInv
    <3>2. working = "answer" /\ working' = "none" /\ result' = "receipt" /\ UNCHANGED <<bundle, notice>>
      BY <1>3, <2>3 DEF UploadAnswer, FinishReport, uiVars
    <3>. QED
      BY <3>1, <3>2 DEF ReportInv, WorkerInv, ChannelInv, NoticeInv, Unsent, WorkSteps, Errors
  <2>. QED
    BY <1>3, <2>1, <2>2, <2>3 DEF UploadAnswer
<1>. QED
  BY <1>1, <1>2, <1>3

\* What the user is told of a report agrees with what the server has of it, whatever
\* became of the files, the clock and the worker meanwhile (ui.rs: poll;
\* submission.rs: "a received upload receipt wins"; support.rs: bundle_checked).
THEOREM NoticesAreTrue == ReportSpec => []NoticeIsTrue
<1>1. ReportInv /\ [ReportNext]_reportVars => ReportInv'
  <2>1. SUFFICES ASSUME ReportInv, ReportNext PROVE ReportInv'
    BY ReportFrame DEF reportVars
  <2>2. CASE RetainFirmware \/ WriteCache \/ RecordInput
    BY <2>2, ReportFrame, <2>1 DEF RetainFirmware, WriteCache, RecordInput, Recorded, RetainStep,
       uiVars, workerVars
  <2>3. CASE Tamper
    BY <2>3, <2>1, ReportFrame DEF Tamper, uiVars, workerVars
  <2>4. CASE Restart
    BY <2>1, <2>4 DEF Restart, ReportInv, ServerInv, WorkerInv, ChannelInv, NoticeInv, Unsent, WorkSteps,
       Errors
  <2>5. CASE AskReport \/ DismissReport \/ SendReport \/ CancelReport \/ PollReport
    BY <2>1, <2>5, ReportUiStep
  <2>6. CASE Work
    <3>1. CASE StopWork
      BY <2>1, <3>1, ReportEndsAnywhere DEF StopWork, Errors
    <3>. QED
      BY <2>1, <2>6, <3>1, ReportPreparation, ReportDelivery DEF Work
  <2>7. CASE RequestFails \/ WorkerDies
    BY <2>1, <2>7, ReportEndsAnywhere DEF RequestFails, WorkerDies, Errors
  <2>8. CASE Approve \/ PassTime
    BY <2>1, <2>8, ReportFrame DEF Approve, PassTime, uiVars
  <2>. QED
    BY <2>1, <2>2, <2>3, <2>4, <2>5, <2>6, <2>7, <2>8 DEF ReportNext
<1>. QED
  BY ReportStarts, <1>1, ReportInvSuffices, PTL DEF ReportSpec

-----------------------------------------------------------------------------
(* AnalysisSession: a job is pending until its result has been taken.  Until *)
(* then the slots are its sources, nothing is shown, what has been loaded is *)
(* of those sources, and what is left to load is known from the step.        *)
Sides(request) == IF request.kind = "Compare" THEN 1..2 ELSE {1}
Steps == {"idle", "load", "read", "identify", "supported", "live", "capture", "saved"}
OnDrive == {"identify", "supported", "live", "capture", "saved"}
Letters ==
    {<<>>, <<"Analysis", "DoneOk">>, <<"DoneOk">>, <<"AnalysisCancelled", "DoneErr">>, <<"DoneErr">>}
Pending == at # "idle" \/ inbox = <<"Analysis", "DoneOk">>

AnalysisShape ==
    /\ slots \in [1..2 -> Sources \cup {Absent}] /\ displayed \in Results \cup {Absent}
    /\ loaded \in [1..2 -> Inspections \cup {Absent}] /\ analysing \in Requests \cup {Absent}
    /\ onDisk \in [FirmwareFiles \cup CapturePaths -> FileContents \cup {Absent}]
    /\ captureAsBackup \in BOOLEAN /\ analysisTask \in Analyses \cup {"Info"}
    /\ at \in Steps /\ inbox \in Letters

JobInv ==
    /\ analysing = Absent => at = "idle" /\ inbox = <<>> /\ loaded = <<Absent, Absent>>
    /\ at # "idle" => inbox = <<>>
    /\ Pending =>
         /\ analysing # Absent /\ analysing.kind \in Analyses
         /\ analysing.sources = slots /\ displayed = Absent

CancelInv ==
    /\ late = 0 \/ (late = 1 /\ cancelFlag /\ ~inFlight)
    /\ at = "idle" => ~inFlight
    /\ analysing = Absent => late = 0

LoadInv ==
    Pending =>
      /\ \A i \in Sides(analysing) : slots[i] # Absent
      /\ \A i \in 1..2 : loaded[i] # Absent => slots[i] # Absent /\ Denotes(slots[i], loaded[i])
      /\ at \in {"idle", "load"} \/ todo # <<>>
      /\ at = "idle" => todo = <<>>
      /\ todo = <<>> => \A i \in Sides(analysing) : loaded[i] # Absent
      /\ IF analysing.kind = "Compare"
         THEN /\ todo \in {<<>>, <<1>>, <<2>>, <<1, 2>>, <<2, 1>>}
              /\ todo = <<1>> => loaded[2] # Absent
              /\ todo = <<2>> => loaded[1] # Absent
              /\ todo = <<1, 2>> => ~Live(slots[1])
              /\ todo = <<2, 1>> => Live(slots[1])
              /\ at \notin {"idle", "load"} => ~Live(slots[1]) \/ ~Live(slots[2])
         ELSE todo \in {<<>>, <<1>>}

CaptureInv ==
    /\ at \in OnDrive => Live(Source)
    /\ at = "read" => Source.kind \in {"file", "drive"}
    /\ at = "saved" \/ (at = "read" /\ Live(Source)) =>
          /\ onDisk[Source.path] # Absent
          /\ onDisk[Source.path].drive = Source.drive
          /\ onDisk[Source.path].backup = (Source.drive \notin Sweeping \/ Source.backup)

AnalysisInv == AnalysisShape /\ JobInv /\ CancelInv /\ LoadInv /\ CaptureInv /\ ResultIsOfTheSlots

\* A job's result is of the window's slots, and no more is asked of a drive, whatever
\* the rest of the window does meanwhile.
LEMMA AnalysisInvSuffices == AnalysisInv => ResultIsOfTheSlots /\ DriveIsNotOverused
<1>. SUFFICES ASSUME AnalysisInv PROVE DriveIsNotOverused
  BY DEF AnalysisInv
<1>1. late <= 1
  BY DEF AnalysisInv, CancelInv
<1>2. ASSUME at \notin {"idle", "load", "read"}, analysing.kind = "Compare"
      PROVE  loaded[3 - Head(todo)] # Absent /\ ~Live(analysing.sources[3 - Head(todo)])
  <2>1. Pending /\ at \in OnDrive
    BY <1>2 DEF Pending, AnalysisInv, AnalysisShape, Steps, OnDrive
  <2>2. Live(slots[Head(todo)]) /\ analysing.sources = slots
    BY <2>1 DEF AnalysisInv, CaptureInv, Source, JobInv
  <2>3. /\ todo \in {<<1>>, <<2>>, <<1, 2>>, <<2, 1>>}
        /\ todo = <<1>> => loaded[2] # Absent
        /\ todo = <<2>> => loaded[1] # Absent
        /\ todo = <<1, 2>> => ~Live(slots[1])
        /\ todo = <<2, 1>> => Live(slots[1])
        /\ ~Live(slots[1]) \/ ~Live(slots[2])
    BY <1>2, <2>1 DEF AnalysisInv, LoadInv, OnDrive
  <2>4. todo = <<1>> \/ todo = <<2>>
    BY <2>2, <2>3
  <2>. QED
    BY <2>2, <2>3, <2>4
<1>. QED
  BY <1>1, <1>2 DEF DriveIsNotOverused

LEMMA AnalysisStarts == AnalysisInit => AnalysisInv
<1>. SUFFICES ASSUME AnalysisInit PROVE AnalysisInv
  OBVIOUS
<1>1. slots \in [1..2 -> Sources \cup {Absent}] /\ loaded \in [1..2 -> Inspections \cup {Absent}]
  BY DEF AnalysisInit
<1>2. onDisk \in [FirmwareFiles \cup CapturePaths -> FileContents \cup {Absent}]
  <2>1. [drive |-> Absent, whole |-> TRUE, backup |-> TRUE] \in FileContents
    BY DEF FileContents
  <2>. QED
    BY <2>1 DEF AnalysisInit
<1>3. AnalysisShape
  BY <1>1, <1>2 DEF AnalysisInit, AnalysisShape, Analyses, Steps, Letters
<1>4. ~Pending
  BY DEF AnalysisInit, Pending
<1>. QED
  BY <1>3, <1>4 DEF AnalysisInit, AnalysisInv, JobInv, CancelInv, LoadInv, CaptureInv,
     ResultIsOfTheSlots, OnDrive

\* What the worker reads and writes is untouched by the rest of the window.
LEMMA AnalysisFrame ==
    ASSUME AnalysisInv,
           UNCHANGED <<slots, displayed, loaded, analysing, onDisk, captureAsBackup, analysisTask,
                       at, inbox, todo, late, cancelFlag, inFlight>>
    PROVE  AnalysisInv'
<1>1. AnalysisShape' /\ JobInv' /\ CancelInv'
  BY DEF AnalysisInv, AnalysisShape, JobInv, CancelInv, Pending
<1>2. LoadInv'
  BY DEF AnalysisInv, LoadInv, Pending
<1>3. CaptureInv'
  BY DEF AnalysisInv, CaptureInv, Source
<1>4. ResultIsOfTheSlots'
  BY DEF AnalysisInv, ResultIsOfTheSlots
<1> QED BY <1>1, <1>2, <1>3, <1>4 DEF AnalysisInv

-----------------------------------------------------------------------------
(* The window.                                                              *)

\* Without a job, or with one whose result has been taken, the slots are the user's.
LEMMA SlotsChange ==
    ASSUME AnalysisInv, ~Pending,
           slots' \in [1..2 -> Sources \cup {Absent}], displayed' \in Results \cup {Absent},
           ResultIsOfTheSlots', captureAsBackup' \in BOOLEAN,
           analysisTask' \in Analyses \cup {"Info"},
           UNCHANGED <<loaded, analysing, onDisk, at, inbox, todo, late, cancelFlag, inFlight>>
    PROVE  AnalysisInv'
<1>1. at = "idle" /\ ~Pending'
  BY DEF Pending
<1>. QED
  BY <1>1 DEF AnalysisInv, AnalysisShape, JobInv, CancelInv, LoadInv, CaptureInv, OnDrive

LEMMA IdleIsNotPending == ASSUME AnalysisInv, Idle PROVE ~Pending
BY DEF AnalysisInv, JobInv, Pending, Idle

LEMMA SourceIsPut ==
    ASSUME AnalysisInv, Idle, NEW i \in 1..2, NEW source \in Sources, SetSource(i, source)
    PROVE  AnalysisInv'
<1>1. slots' \in [1..2 -> Sources \cup {Absent}]
  BY DEF AnalysisInv, AnalysisShape, SetSource
<1>2. displayed' = Absent /\ ResultIsOfTheSlots'
  BY DEF SetSource, ResultIsOfTheSlots
<1>. QED
  BY <1>1, <1>2, IdleIsNotPending, SlotsChange
     DEF SetSource, work, AnalysisInv, AnalysisShape

LEMMA WindowStep ==
    ASSUME AnalysisInv, SelectTab \/ ChooseSource \/ CaptureAsBackup \/ InspectSide
    PROVE  AnalysisInv'
<1>1. CASE SelectTab
  <2>1. UNCHANGED <<slots, displayed, captureAsBackup, loaded, analysing, onDisk, at, inbox, todo,
                    late, cancelFlag, inFlight>> /\ analysisTask' \in Analyses \cup {"Info"} /\ Idle
    BY <1>1 DEF SelectTab, shown, work
  <2>. QED
    BY <2>1, IdleIsNotPending, SlotsChange DEF AnalysisInv, AnalysisShape, ResultIsOfTheSlots
<1>2. CASE ChooseSource
  <2>1. PICK i \in 1..2 :
          \/ \E p \in FirmwareFiles \cup {p \in CapturePaths : onDisk[p] # Absent} :
                SetSource(i, FileSource(p))
          \/ \E d \in Selectable, p \in CapturePaths : SetSource(i, DriveSource(d, p, captureAsBackup))
    BY <1>2 DEF ChooseSource
  <2>2. Idle
    BY <1>2 DEF ChooseSource
  <2>3. ASSUME NEW p \in FirmwareFiles \cup CapturePaths PROVE FileSource(p) \in Sources
    BY DEF FileSource, Sources
  <2>4. ASSUME NEW d \in Selectable, NEW p \in CapturePaths
        PROVE  DriveSource(d, p, captureAsBackup) \in Sources
    BY DEF DriveSource, Sources, AnalysisInv, AnalysisShape
  <2>. QED
    BY <2>1, <2>2, <2>3, <2>4, SourceIsPut
<1>3. CASE CaptureAsBackup
  <2> DEFINE rewritten == [i \in 1..2 |-> IF Live(slots[i])
                                          THEN [slots[i] EXCEPT !.backup = ~captureAsBackup]
                                          ELSE slots[i]]
  <2>1. /\ slots' = rewritten /\ captureAsBackup' = ~captureAsBackup /\ Idle
        /\ displayed' = (IF rewritten # slots THEN Absent ELSE displayed)
        /\ UNCHANGED <<analysisTask, loaded, analysing, onDisk, at, inbox, todo, late, cancelFlag,
                       inFlight>>
    BY <1>3 DEF CaptureAsBackup, work
  <2>2. ASSUME NEW i \in 1..2 PROVE rewritten[i] \in Sources \cup {Absent}
    <3>1. CASE Live(slots[i])
      <4>1. slots[i] \in [kind : {"drive"}, drive : Selectable, path : CapturePaths, backup : BOOLEAN]
        BY <3>1 DEF Live, Sources, AnalysisInv, AnalysisShape
      <4>2. [slots[i] EXCEPT !.backup = ~captureAsBackup]
              \in [kind : {"drive"}, drive : Selectable, path : CapturePaths, backup : BOOLEAN]
        BY <4>1 DEF AnalysisInv, AnalysisShape
      <4>. QED
        BY <3>1, <4>2 DEF Sources
    <3>2. CASE ~Live(slots[i])
      BY <3>2 DEF AnalysisInv, AnalysisShape
    <3>. QED
      BY <3>1, <3>2
  <2>3. slots' \in [1..2 -> Sources \cup {Absent}]
    BY <2>1, <2>2
  <2>4. displayed' \in Results \cup {Absent} /\ ResultIsOfTheSlots'
    BY <2>1 DEF AnalysisInv, AnalysisShape, ResultIsOfTheSlots
  <2>. QED
    BY <2>1, <2>3, <2>4, IdleIsNotPending, SlotsChange DEF AnalysisInv, AnalysisShape
<1>4. CASE InspectSide
  <2>1. PICK i \in 1..2 :
          /\ slots' = [slots EXCEPT ![1] = Analyzed(displayed.of[i])]
          /\ displayed' = [kind |-> "Inspect", of |-> <<displayed.of[i]>>]
    BY <1>4 DEF InspectSide
  <2>2. displayed # Absent /\ displayed.kind = "Compare"
    BY <1>4 DEF InspectSide
  <2>3. displayed.of[i] \in Inspections
    BY <2>2 DEF AnalysisInv, AnalysisShape, Results
  <2>4. Analyzed(displayed.of[i]) \in Sources
    BY <2>3 DEF Analyzed, Sources
  <2>5. slots' \in [1..2 -> Sources \cup {Absent}] /\ slots'[1] = Analyzed(displayed.of[i])
    BY <2>1, <2>4 DEF AnalysisInv, AnalysisShape
  <2>6. <<displayed.of[i]>> \in [1..1 -> Inspections]
    BY <2>3
  <2>7. displayed' \in Results
    BY <2>1, <2>6 DEF Results
  <2>8. ResultIsOfTheSlots'
    <3>1. \A j \in DOMAIN displayed'.of : j = 1 /\ displayed'.of[1] = displayed.of[i]
      BY <2>1, <2>6
    <3>2. slots'[1] # Absent /\ Denotes(slots'[1], displayed.of[i])
      BY <2>4, <2>5, AnalysisAssumption DEF Denotes, Analyzed
    <3>. QED
      BY <3>1, <3>2 DEF ResultIsOfTheSlots
  <2>9. ~Pending
    BY <2>2 DEF AnalysisInv, JobInv
  <2>. QED
    BY <1>4, <2>5, <2>7, <2>8, <2>9, SlotsChange
       DEF InspectSide, work, AnalysisInv, AnalysisShape, Analyses
<1>. QED
  BY <1>1, <1>2, <1>3, <1>4

-----------------------------------------------------------------------------
(* A job is started, cancelled and heard of.                                *)

LEMMA LettersAreRead ==
    ASSUME NEW m \in Letters, m # <<>>
    PROVE  /\ Head(m) = "Analysis" => m = <<"Analysis", "DoneOk">> /\ Tail(m) = <<"DoneOk">>
           /\ Head(m) = "AnalysisCancelled" => Tail(m) = <<"DoneErr">>
           /\ Head(m) \in {"DoneOk", "DoneErr"} => Tail(m) = <<>>
<1>1. CASE m = <<"Analysis", "DoneOk">>
  <2>1. Head(m) = "Analysis" /\ Tail(m) = <<"DoneOk">>
    BY <1>1
  <2>. QED
    BY <1>1, <2>1
<1>2. CASE m = <<"AnalysisCancelled", "DoneErr">>
  <2>1. Head(m) = "AnalysisCancelled" /\ Tail(m) = <<"DoneErr">>
    BY <1>2
  <2>. QED
    BY <2>1
<1>3. CASE m = <<"DoneOk">>
  <2>1. Head(m) = "DoneOk" /\ Tail(m) = <<>>
    BY <1>3
  <2>. QED
    BY <2>1
<1>4. CASE m = <<"DoneErr">>
  <2>1. Head(m) = "DoneErr" /\ Tail(m) = <<>>
    BY <1>4
  <2>. QED
    BY <2>1
<1>. QED
  BY <1>1, <1>2, <1>3, <1>4 DEF Letters

\* Indices of what is left to load.
LEMMA TodoIsTaken ==
    /\ Head(<<1>>) = 1 /\ Tail(<<1>>) = <<>> /\ Head(<<2>>) = 2 /\ Tail(<<2>>) = <<>>
    /\ Head(<<1, 2>>) = 1 /\ Tail(<<1, 2>>) = <<2>>
    /\ Head(<<2, 1>>) = 2 /\ Tail(<<2, 1>>) = <<1>>
    /\ <<1>> # <<>> /\ <<2>> # <<>> /\ <<1>> # <<2>>
    /\ <<1>> # <<1, 2>> /\ <<1>> # <<2, 1>> /\ <<2>> # <<1, 2>> /\ <<2>> # <<2, 1>>
<1>1. Head(<<1>>) = 1 /\ Head(<<2>>) = 2 /\ Head(<<1, 2>>) = 1 /\ Head(<<2, 1>>) = 2
  OBVIOUS
<1>2. Tail(<<1>>) = <<>> /\ Tail(<<2>>) = <<>>
  OBVIOUS
<1>3. Tail(<<1, 2>>) = <<2>> /\ Tail(<<2, 1>>) = <<1>>
  OBVIOUS
<1>4. Len(<<1>>) = 1 /\ Len(<<2>>) = 1 /\ Len(<<1, 2>>) = 2 /\ Len(<<2, 1>>) = 2 /\ Len(<<>>) = 0
  OBVIOUS
<1>. QED
  BY <1>1, <1>2, <1>3, <1>4

LEMMA AnalysisIsRun == ASSUME AnalysisInv, RunAnalysis PROVE AnalysisInv'
<1>1. /\ analysing = Absent /\ at' = "load" /\ displayed' = Absent /\ analysisTask \in Analyses
      /\ analysing' = [kind |-> analysisTask, sources |-> slots]
      /\ UNCHANGED <<slots, captureAsBackup, analysisTask, inbox, loaded, inFlight, late, onDisk>>
  BY DEF RunAnalysis, Idle, StartJob, window
<1>2. todo' = IF analysisTask = "Inspect" THEN <<1>> ELSE IF Live(slots[1]) THEN <<2, 1>> ELSE <<1, 2>>
  BY DEF RunAnalysis
<1>3. \A i \in IF analysisTask = "Compare" THEN 1..2 ELSE {1} : slots[i] # Absent
  BY DEF RunAnalysis
<1>4. at = "idle" /\ inbox = <<>> /\ loaded = <<Absent, Absent>> /\ late = 0 /\ ~inFlight
  BY <1>1 DEF AnalysisInv, JobInv, CancelInv
<1>5. analysing' \in Requests /\ analysing' # Absent
  <2>1. analysing' \in Requests
    BY <1>1 DEF Requests, AnalysisInv, AnalysisShape
  <2>. QED
    BY <2>1, AnalysisAssumption
<1>6. AnalysisShape'
  BY <1>1, <1>5 DEF AnalysisInv, AnalysisShape, Steps
<1>7. JobInv' /\ CancelInv'
  BY <1>1, <1>4, <1>5 DEF JobInv, CancelInv
<1>8. LoadInv'
  <2>1. \A i \in Sides(analysing)' : slots'[i] # Absent
    BY <1>1, <1>3 DEF Sides
  <2>2. loaded'[1] = Absent /\ loaded'[2] = Absent
    BY <1>1, <1>4
  <2>3. /\ analysing'.kind = "Compare" =>
             \/ todo' = <<1, 2>> /\ ~Live(slots'[1])
             \/ todo' = <<2, 1>> /\ Live(slots'[1])
        /\ analysing'.kind # "Compare" => todo' = <<1>>
    BY <1>1, <1>2 DEF Analyses
  <2>. QED
    BY <1>1, <2>1, <2>2, <2>3, SMTT(30) DEF LoadInv
<1>9. CaptureInv' /\ ResultIsOfTheSlots'
  BY <1>1 DEF CaptureInv, ResultIsOfTheSlots, OnDrive
<1>. QED
  BY <1>6, <1>7, <1>8, <1>9 DEF AnalysisInv

LEMMA JobStep ==
    ASSUME AnalysisInv, ReadInfo \/ CancelAnalysis \/ PollAnalysis PROVE AnalysisInv'
<1>1. CASE ReadInfo
  <2>1. /\ analysing = Absent /\ inbox' = <<"DoneOk">>
        /\ analysing' = [kind |-> "Info", sources |-> <<>>]
        /\ UNCHANGED <<slots, displayed, captureAsBackup, analysisTask, loaded, inFlight, late, onDisk,
                       at, todo, cancelFlag>>
    BY <1>1 DEF ReadInfo, Idle, StartJob, window, work
  <2>2. at = "idle" /\ late = 0 /\ ~inFlight
    BY <2>1 DEF AnalysisInv, JobInv, CancelInv
  <2>3. ~Pending'
    BY <2>1, <2>2 DEF Pending
  <2>4. analysing' \in Requests /\ analysing' # Absent
    <3>1. analysing' \in Requests
      BY <2>1 DEF Requests
    <3>. QED
      BY <3>1, AnalysisAssumption
  <2>5. AnalysisShape'
    BY <2>1, <2>4 DEF AnalysisInv, AnalysisShape, Letters
  <2>. QED
    BY <2>1, <2>2, <2>3, <2>4, <2>5
       DEF AnalysisInv, JobInv, CancelInv, LoadInv, CaptureInv, ResultIsOfTheSlots, OnDrive
<1>2. CASE CancelAnalysis
  <2>1. /\ cancelFlag' = TRUE
        /\ UNCHANGED <<slots, displayed, loaded, analysing, onDisk, captureAsBackup, analysisTask, at,
                       inbox, todo, late, inFlight>>
    BY <1>2 DEF CancelAnalysis, window, work
  <2>. QED
    <3>1. AnalysisShape' /\ JobInv' /\ CancelInv'
      BY <2>1 DEF AnalysisInv, AnalysisShape, JobInv, CancelInv, Pending
    <3>2. LoadInv'
      BY <2>1 DEF AnalysisInv, LoadInv, Pending
    <3>3. CaptureInv' /\ ResultIsOfTheSlots'
      BY <2>1 DEF AnalysisInv, CaptureInv, Source, ResultIsOfTheSlots
    <3>. QED
      BY <3>1, <3>2, <3>3 DEF AnalysisInv
<1>3. CASE PollAnalysis
  <2>1. /\ inbox # <<>> /\ inbox' = Tail(inbox) /\ at = "idle"
        /\ UNCHANGED <<slots, captureAsBackup, analysisTask, cancelFlag>>
    BY <1>3 DEF PollAnalysis, window, AnalysisInv, JobInv
  <2>2. analysing # Absent
    BY <2>1 DEF AnalysisInv, JobInv
  <2>3. CASE Head(inbox) = "Analysis"
    <3>1. /\ displayed' = [kind |-> analysing.kind,
                           of |-> IF analysing.kind = "Inspect" THEN <<loaded[1]>> ELSE loaded]
          /\ UNCHANGED <<analysing, work>>
      BY <1>3, <2>3 DEF PollAnalysis
    <3>2. inbox = <<"Analysis", "DoneOk">> /\ inbox' = <<"DoneOk">>
      BY <2>1, <2>3, LettersAreRead DEF AnalysisInv, AnalysisShape
    <3>3. Pending /\ ~Pending'
      BY <2>1, <3>1, <3>2 DEF Pending, work
    <3>4. analysing.kind \in Analyses
      BY <3>3 DEF AnalysisInv, JobInv
    <3>5. \A i \in Sides(analysing) :
             loaded[i] \in Inspections /\ slots[i] # Absent /\ Denotes(slots[i], loaded[i])
      <4>1. \A i \in Sides(analysing) : i \in 1..2
        BY DEF Sides
      <4>2. \A i \in Sides(analysing) : loaded[i] # Absent
        BY <2>1, <3>3 DEF AnalysisInv, LoadInv
      <4>. QED
        BY <3>3, <4>1, <4>2 DEF AnalysisInv, LoadInv, AnalysisShape
    <3>6. displayed' \in Results /\ ResultIsOfTheSlots'
      <4>1. CASE analysing.kind = "Inspect"
        <5>1. 1 \in Sides(analysing)
          BY <4>1 DEF Sides
        <5>2. <<loaded[1]>> \in [1..1 -> Inspections]
          BY <3>5, <5>1
        <5>3. displayed'.of = <<loaded[1]>> /\ displayed' \in Results
          BY <3>1, <4>1, <5>2 DEF Results
        <5>4. \A j \in DOMAIN displayed'.of : j = 1 /\ displayed'.of[1] = loaded[1]
          BY <5>2, <5>3
        <5>. QED
          BY <2>1, <3>5, <5>1, <5>3, <5>4 DEF ResultIsOfTheSlots
      <4>2. CASE analysing.kind = "Compare"
        <5>1. Sides(analysing) = 1..2
          BY <4>2 DEF Sides
        <5>2. loaded \in [1..2 -> Inspections]
          BY <3>5, <5>1 DEF AnalysisInv, AnalysisShape
        <5>3. displayed'.of = loaded /\ displayed' \in Results
          BY <3>1, <4>2, <5>2 DEF Results
        <5>. QED
          BY <2>1, <3>5, <5>1, <5>2, <5>3 DEF ResultIsOfTheSlots
      <4>. QED
        BY <3>4, <4>1, <4>2 DEF Analyses
    <3>7. AnalysisShape'
      BY <2>1, <3>1, <3>2, <3>6 DEF AnalysisInv, AnalysisShape, Letters, work
    <3>. QED
      BY <2>1, <2>2, <3>1, <3>3, <3>6, <3>7
         DEF work, AnalysisInv, JobInv, CancelInv, LoadInv, CaptureInv, OnDrive
  <2>4. CASE Head(inbox) = "AnalysisCancelled"
    <3>1. UNCHANGED <<displayed, analysing, work>>
      BY <1>3, <2>4 DEF PollAnalysis
    <3>2. inbox' = <<"DoneErr">>
      <4>1. inbox \in Letters /\ inbox # <<>>
        BY <2>1 DEF AnalysisInv, AnalysisShape
      <4>. QED
        BY <2>1, <2>4, <4>1, LettersAreRead
    <3>3. ~Pending'
      <4>1. <<"DoneErr">> # <<"Analysis", "DoneOk">>
        OBVIOUS
      <4>. QED
        BY <2>1, <3>1, <3>2, <4>1 DEF Pending, work
    <3>4. AnalysisShape'
      BY <2>1, <3>1, <3>2 DEF work, AnalysisInv, AnalysisShape, Letters
    <3>. QED
      BY <2>1, <2>2, <3>1, <3>3, <3>4
         DEF work, AnalysisInv, JobInv, CancelInv, LoadInv, CaptureInv, OnDrive, ResultIsOfTheSlots
  <2>5. CASE Head(inbox) \in {"DoneOk", "DoneErr"}
    <3>1. /\ analysing' = Absent /\ loaded' = <<Absent, Absent>> /\ late' = 0
          /\ UNCHANGED <<displayed, at, inFlight, onDisk>>
      BY <1>3, <2>5 DEF PollAnalysis
    <3>2. inbox' = <<>>
      BY <2>1, <2>5, LettersAreRead DEF AnalysisInv, AnalysisShape
    <3>3. ~Pending' /\ AnalysisShape'
      BY <2>1, <3>1, <3>2 DEF Pending, AnalysisInv, AnalysisShape, Letters
    <3>. QED
      BY <2>1, <2>2, <3>1, <3>2, <3>3
         DEF AnalysisInv, JobInv, CancelInv, LoadInv, CaptureInv, OnDrive, ResultIsOfTheSlots
  <2>. QED
    BY <1>3, <2>3, <2>4, <2>5 DEF PollAnalysis
<1>. QED
  BY <1>1, <1>2, <1>3

-----------------------------------------------------------------------------
(* The worker: it ends, goes on, or has loaded a side.                      *)

WorkerKeeps == UNCHANGED <<slots, displayed, analysing, captureAsBackup, analysisTask, cancelFlag>>

\* A job ends without a result, or with one when nothing is left to load.
LEMMA JobEnds ==
    ASSUME AnalysisInv, at # "idle", WorkerKeeps, UNCHANGED <<loaded, todo, onDisk>>,
           at' = "idle", inFlight' = FALSE, late' \in {late, late + 1}, late' = late + 1 => late = 0 /\ cancelFlag,
           \/ inbox' = <<"DoneErr">> \/ inbox' = <<"AnalysisCancelled", "DoneErr">>
           \/ inbox' = <<"Analysis", "DoneOk">> /\ todo = <<>>
    PROVE  AnalysisInv'
<1>1. Pending
  BY DEF Pending
<1>2. AnalysisShape' /\ ResultIsOfTheSlots'
  BY DEF WorkerKeeps, AnalysisInv, AnalysisShape, ResultIsOfTheSlots, Steps, Letters
<1>3. JobInv' /\ CancelInv' /\ CaptureInv'
  BY <1>1 DEF WorkerKeeps, AnalysisInv, JobInv, CancelInv, CaptureInv, OnDrive
<1>4. LoadInv'
  <2>1. CASE ~Pending'
    BY <2>1 DEF LoadInv
  <2>2. CASE todo = <<>>
    BY <1>1, <2>2 DEF WorkerKeeps, AnalysisInv, LoadInv
  <2>. QED
    BY <2>1, <2>2 DEF Pending
<1>. QED
  BY <1>2, <1>3, <1>4 DEF AnalysisInv

\* It goes on with the side that it is loading.
LEMMA JobGoesOn ==
    ASSUME AnalysisInv, at # "idle", WorkerKeeps, UNCHANGED <<loaded, todo, inbox>>, todo # <<>>,
           at' \in Steps \ {"idle", "load"}, onDisk' \in [FirmwareFiles \cup CapturePaths -> FileContents \cup {Absent}],
           analysing.kind = "Compare" => ~Live(slots[1]) \/ ~Live(slots[2]),
           CancelInv', CaptureInv'
    PROVE  AnalysisInv'
<1>1. Pending /\ Pending'
  BY DEF Pending
<1>2. AnalysisShape' /\ ResultIsOfTheSlots' /\ JobInv'
  BY <1>1 DEF WorkerKeeps, AnalysisInv, AnalysisShape, ResultIsOfTheSlots, JobInv
<1>3. LoadInv'
  BY <1>1 DEF WorkerKeeps, AnalysisInv, LoadInv
<1>. QED
  BY <1>2, <1>3 DEF AnalysisInv

\* It has loaded a side.
LEMMA SideIsLoaded ==
    ASSUME AnalysisInv, at # "idle", WorkerKeeps, UNCHANGED <<onDisk, inbox, late, inFlight>>, todo # <<>>,
           NEW x \in Inspections, loaded' = [loaded EXCEPT ![Head(todo)] = x], todo' = Tail(todo),
           Denotes(slots[Head(todo)], x), slots[Head(todo)] # Absent, at' = "load"
    PROVE  AnalysisInv'
<1>1. Pending /\ Pending' /\ analysing.kind \in Analyses
  BY DEF Pending, AnalysisInv, JobInv
<1>2. /\ todo \in {<<1>>, <<2>>, <<1, 2>>, <<2, 1>>} /\ Head(todo) \in 1..2
      /\ analysing.kind # "Compare" => todo = <<1>>
  BY <1>1 DEF AnalysisInv, LoadInv
<1>3. x # Absent
  BY AnalysisAssumption
<1>4. /\ loaded' \in [1..2 -> Inspections \cup {Absent}] /\ loaded'[Head(todo)] = x
      /\ \A i \in 1..2 : i # Head(todo) => loaded'[i] = loaded[i]
  BY <1>2 DEF AnalysisInv, AnalysisShape
<1>5. AnalysisShape' /\ ResultIsOfTheSlots' /\ JobInv'
  BY <1>1, <1>4 DEF WorkerKeeps, AnalysisInv, AnalysisShape, ResultIsOfTheSlots, JobInv, Steps
<1>6. CancelInv' /\ CaptureInv'
  BY <1>1 DEF WorkerKeeps, AnalysisInv, JobInv, CancelInv, CaptureInv, OnDrive
<1>7. LoadInv'
  <2>1. \A i \in Sides(analysing)' : slots'[i] # Absent
    BY <1>1 DEF WorkerKeeps, AnalysisInv, LoadInv
  <2>2. \A i \in 1..2 : loaded'[i] # Absent => slots'[i] # Absent /\ Denotes(slots'[i], loaded'[i])
    BY <1>1, <1>2, <1>4 DEF WorkerKeeps, AnalysisInv, LoadInv
  <2>3. CASE analysing.kind # "Compare"
    <3>1. todo' = <<>> /\ loaded'[1] # Absent /\ Sides(analysing)' = {1}
      BY <1>2, <1>3, <1>4, <2>3, TodoIsTaken DEF WorkerKeeps, Sides
    <3>. QED
      BY <2>1, <2>2, <2>3, <3>1 DEF LoadInv, WorkerKeeps
  <2>4. CASE analysing.kind = "Compare"
    <3>1. \/ todo = <<1, 2>> /\ todo' = <<2>> /\ loaded'[1] # Absent
          \/ todo = <<2, 1>> /\ todo' = <<1>> /\ loaded'[2] # Absent
          \/ todo' = <<>> /\ loaded'[1] # Absent /\ loaded'[2] # Absent
      <4>1. /\ todo = <<1>> => loaded[2] # Absent
            /\ todo = <<2>> => loaded[1] # Absent
        BY <1>1, <2>4 DEF AnalysisInv, LoadInv
      <4>2. CASE todo = <<1, 2>>
        BY <1>3, <1>4, <4>2, TodoIsTaken
      <4>3. CASE todo = <<2, 1>>
        BY <1>3, <1>4, <4>3, TodoIsTaken
      <4>4. CASE todo = <<1>>
        <5>1. loaded'[1] = x /\ loaded'[2] = loaded[2] /\ todo' = <<>>
          BY <1>4, <4>4, TodoIsTaken
        <5>. QED
          BY <1>3, <4>1, <4>4, <5>1
      <4>5. CASE todo = <<2>>
        <5>1. loaded'[2] = x /\ loaded'[1] = loaded[1] /\ todo' = <<>>
          BY <1>4, <4>5, TodoIsTaken
        <5>. QED
          BY <1>3, <4>1, <4>5, <5>1
      <4>. QED
        BY <1>2, <4>2, <4>3, <4>4, <4>5
    <3>2. \A i \in Sides(analysing)' : i = 1 \/ i = 2
      BY DEF Sides
    <3>3. at' = "load" /\ analysing'.kind = "Compare"
      BY <2>4 DEF WorkerKeeps
    <3>4. CASE todo' = <<2>> /\ loaded'[1] # Absent
      BY <2>1, <2>2, <3>3, <3>4, TodoIsTaken DEF LoadInv
    <3>5. CASE todo' = <<1>> /\ loaded'[2] # Absent
      BY <2>1, <2>2, <3>3, <3>5, TodoIsTaken DEF LoadInv
    <3>6. CASE todo' = <<>> /\ loaded'[1] # Absent /\ loaded'[2] # Absent
      BY <2>1, <2>2, <3>2, <3>3, <3>6, TodoIsTaken DEF LoadInv
    <3>. QED
      BY <3>1, <3>4, <3>5, <3>6
  <2>. QED
    BY <2>3, <2>4
<1>. QED
  BY <1>5, <1>6, <1>7 DEF AnalysisInv

\* A worker that looks at the flag ends when it is set.
LEMMA AnsweredJobEnds ==
    ASSUME AnalysisInv, at # "idle", WorkerKeeps, Keep,
           NEW reply \in {"ok", "cancelled", "failed"}, NEW why, Reply(reply, why),
           reply = "ok" => todo = <<>>
    PROVE  AnalysisInv'
<1>1. inbox = <<>>
  BY DEF AnalysisInv, JobInv
<1>2. \/ inbox' = <<"DoneErr">> \/ inbox' = <<"AnalysisCancelled", "DoneErr">>
      \/ inbox' = <<"Analysis", "DoneOk">> /\ todo = <<>>
  <2>1. CASE reply = "ok"
    <3>1. inbox' = <<>> \o <<"Analysis", "DoneOk">>
      BY <1>1, <2>1 DEF Reply
    <3>2. inbox' = <<"Analysis", "DoneOk">>
      BY <3>1
    <3>. QED
      BY <2>1, <3>2
  <2>2. CASE reply = "cancelled"
    <3>1. inbox' = <<>> \o <<"AnalysisCancelled", "DoneErr">>
      BY <1>1, <2>2 DEF Reply
    <3>2. inbox' = <<"AnalysisCancelled", "DoneErr">>
      BY <3>1
    <3>. QED
      BY <3>2
  <2>3. CASE reply = "failed"
    <3>1. inbox' = <<>> \o <<"DoneErr">>
      BY <1>1, <2>3 DEF Reply
    <3>2. inbox' = <<"DoneErr">>
      BY <3>1
    <3>. QED
      BY <3>2
  <2>. QED
    BY <2>1, <2>2, <2>3
<1>3. at' = "idle" /\ inFlight' = FALSE /\ late' = late
  BY DEF Reply
<1>4. late' # late + 1
  BY <1>3 DEF AnalysisInv, CancelInv
<1>. QED
  BY <1>2, <1>3, <1>4, JobEnds DEF Keep

\* While there is something to load, the side that is loaded has a source.
LEMMA SideHasSource ==
    ASSUME AnalysisInv, at # "idle", todo # <<>>
    PROVE  /\ Head(todo) \in 1..2 /\ slots[Head(todo)] \in Sources /\ slots[Head(todo)] # Absent
           /\ Source = slots[Head(todo)]
<1>1. Pending /\ analysing.sources = slots /\ analysing.kind \in Analyses
  BY DEF Pending, AnalysisInv, JobInv
<1>2. Head(todo) \in Sides(analysing) /\ Head(todo) \in 1..2
  <2>1. CASE analysing.kind = "Compare"
    <3>1. todo \in {<<1>>, <<2>>, <<1, 2>>, <<2, 1>>}
      BY <1>1, <2>1 DEF AnalysisInv, LoadInv
    <3>. QED
      BY <2>1, <3>1, TodoIsTaken DEF Sides
  <2>2. CASE analysing.kind # "Compare"
    <3>1. todo = <<1>>
      BY <1>1, <2>2 DEF AnalysisInv, LoadInv
    <3>. QED
      BY <2>2, <3>1, TodoIsTaken DEF Sides
  <2>. QED
    BY <2>1, <2>2
<1>. QED
  BY <1>1, <1>2 DEF Source, AnalysisInv, AnalysisShape, LoadInv

\* Beyond the first step of a load, what is loaded is not refused.
LEMMA SideIsBegun ==
    ASSUME AnalysisInv, at \notin {"idle", "load"}
    PROVE  todo # <<>> /\ (analysing.kind = "Compare" => ~Live(slots[1]) \/ ~Live(slots[2]))
BY DEF AnalysisInv, LoadInv, Pending

\* What was read of a source, and of its file, denotes it.
LEMMA InspectionDenotes ==
    ASSUME AnalysisInv, NEW source \in Sources, source.kind \in {"file", "drive"},
           Live(source) => /\ onDisk[source.path].drive = source.drive
                           /\ onDisk[source.path].backup = (source.drive \notin Sweeping \/ source.backup)
    PROVE  InspectionOf(source) \in Inspections /\ Denotes(source, InspectionOf(source))
<1>1. source.path \in FirmwareFiles \cup CapturePaths
  BY DEF Sources
<1>2. source.kind = "drive" => source.drive \in Selectable
  BY DEF Sources
<1>3. onDisk[source.path] \in FileContents \cup {Absent}
  BY <1>1 DEF AnalysisInv, AnalysisShape
<1>4. InspectionOf(source) \in Inspections
  BY <1>1, <1>2, <1>3 DEF InspectionOf, Inspections
<1>5. CASE source.kind = "file"
  BY <1>5, <1>4 DEF Denotes, InspectionOf
<1>6. CASE source.kind = "drive"
  <2>1. Live(source)
    BY <1>6, AnalysisAssumption DEF Live
  <2>. QED
    BY <1>4, <1>6, <2>1 DEF Denotes, InspectionOf
<1>. QED
  BY <1>4, <1>5, <1>6

LEMMA LoadStep == ASSUME AnalysisInv, LoadSource PROVE AnalysisInv'
<1>1. at = "load" /\ WorkerKeeps /\ Pending
  BY DEF LoadSource, Worker, window, shown, WorkerKeeps, Pending
<1>2. analysing.sources = slots /\ analysing.kind \in Analyses
  BY <1>1 DEF AnalysisInv, JobInv
<1>3. ASSUME NEW reply \in {"ok", "cancelled", "failed"}, NEW why, Reply(reply, why), Keep,
             reply = "ok" => todo = <<>>
      PROVE  AnalysisInv'
  BY <1>1, <1>3, AnsweredJobEnds
<1>4. CASE Refused
  <2>1. Reply("failed", "sources") /\ Keep
    BY <1>4 DEF LoadSource
  <2>. QED
    BY <1>3, <2>1
<1>5. CASE ~Refused /\ todo = <<>>
  <2>1. \/ Reply("cancelled", "cancel") /\ Keep
        \/ Reply("ok", Absent) /\ Keep
        \/ Reply("failed", "pair") /\ Keep
    BY <1>5 DEF LoadSource, Checked
  <2>. QED
    BY <1>3, <1>5, <2>1
<1>6. CASE ~Refused /\ todo # <<>>
  <2>1. /\ Head(todo) \in 1..2 /\ slots[Head(todo)] \in Sources /\ slots[Head(todo)] # Absent
        /\ Source = slots[Head(todo)]
    BY <1>1, <1>6, SideHasSource
  <2>2. analysing.kind = "Compare" => ~Live(slots[1]) \/ ~Live(slots[2])
    BY <1>2, <1>6 DEF Refused
  <2>3. CASE Reply("cancelled", "cancel") /\ Keep
    BY <1>3, <2>3
  <2>4. CASE /\ Source.kind = "analyzed"
             /\ loaded' = [loaded EXCEPT ![Head(todo)] = Source.of] /\ todo' = Tail(todo)
             /\ GoOn("load") /\ UNCHANGED <<sent, filled, onDisk>>
    <3>1. Source.of \in Inspections /\ Denotes(Source, Source.of)
      BY <2>1, <2>4 DEF Sources, Denotes
    <3>. QED
      BY <1>1, <1>6, <2>1, <2>4, <3>1, SideIsLoaded DEF GoOn
  <2>5. CASE Source.kind = "file" /\ GoOn("read") /\ Keep
    <3>1. ~Live(Source)
      BY <2>5 DEF Live
    <3>2. /\ UNCHANGED <<loaded, todo, inbox, late, inFlight, onDisk>> /\ at' = "read"
          /\ onDisk' \in [FirmwareFiles \cup CapturePaths -> FileContents \cup {Absent}]
      BY <2>5 DEF GoOn, Keep, AnalysisInv, AnalysisShape
    <3>3. Source' = Source
      BY <1>1, <3>2 DEF Source, WorkerKeeps
    <3>4. CancelInv' /\ CaptureInv'
      BY <1>1, <2>5, <3>1, <3>2, <3>3 DEF AnalysisInv, CancelInv, CaptureInv, OnDrive, WorkerKeeps
    <3>. QED
      BY <1>1, <1>6, <2>2, <3>2, <3>4, JobGoesOn DEF Steps
  <2>6. CASE Source.kind = "drive" /\ Reply("failed", "drive") /\ Keep
    BY <1>3, <2>6
  <2>7. CASE /\ Source.kind = "drive" /\ GoOn("identify") /\ sent' = 0 /\ filled' = FALSE
             /\ UNCHANGED <<todo, loaded, onDisk>>
    <3>1. Live(Source)
      BY <2>1, <2>7 DEF Live
    <3>2. /\ UNCHANGED <<loaded, todo, inbox, late, inFlight, onDisk>> /\ at' = "identify"
          /\ onDisk' \in [FirmwareFiles \cup CapturePaths -> FileContents \cup {Absent}]
      BY <2>7 DEF GoOn, AnalysisInv, AnalysisShape
    <3>3. Source' = Source
      BY <1>1, <3>2 DEF Source, WorkerKeeps
    <3>4. Live(Source)'
      BY <3>1, <3>3 DEF Live
    <3>5. CancelInv' /\ CaptureInv'
      BY <1>1, <3>2, <3>4 DEF AnalysisInv, CancelInv, CaptureInv, OnDrive, WorkerKeeps
    <3>. QED
      BY <1>1, <1>6, <2>2, <3>2, <3>5, JobGoesOn DEF Steps
  <2>8. Source.kind \in {"file", "drive", "analyzed"}
    BY <2>1 DEF Sources
  <2>9. CASE cancelFlag
    BY <1>6, <2>3, <2>9 DEF LoadSource, Checked
  <2>10. CASE ~cancelFlag
    <3>1. CASE Source.kind = "analyzed"
      BY <1>6, <2>4, <2>10, <3>1 DEF LoadSource, Checked
    <3>2. CASE Source.kind = "file"
      BY <1>6, <2>5, <2>10, <3>2 DEF LoadSource, Checked
    <3>3. CASE Source.kind = "drive"
      BY <1>6, <2>6, <2>7, <2>10, <3>3 DEF LoadSource, Checked
    <3>. QED
      BY <2>8, <3>1, <3>2, <3>3
  <2>. QED
    BY <2>9, <2>10
<1>. QED
  BY <1>4, <1>5, <1>6

LEMMA ReadStep == ASSUME AnalysisInv, ReadFile PROVE AnalysisInv'
<1>1. at = "read" /\ WorkerKeeps /\ Pending
  BY DEF ReadFile, Worker, window, shown, WorkerKeeps, Pending
<1>2. CASE \/ Reply("failed", "file") /\ Keep
           \/ Reply("cancelled", "cancel") /\ Keep
  BY <1>1, <1>2, AnsweredJobEnds
<1>3. CASE /\ loaded' = [loaded EXCEPT ![Head(todo)] = InspectionOf(Source)]
           /\ todo' = Tail(todo) /\ GoOn("load") /\ UNCHANGED <<sent, filled, onDisk>>
  <2>1. todo # <<>>
    BY <1>1, SideIsBegun
  <2>2. slots[Head(todo)] \in Sources /\ slots[Head(todo)] # Absent /\ Source = slots[Head(todo)]
    BY <1>1, <2>1, SideHasSource
  <2>3. /\ Source.kind \in {"file", "drive"}
        /\ Live(Source) => /\ onDisk[Source.path].drive = Source.drive
                           /\ onDisk[Source.path].backup = (Source.drive \notin Sweeping \/ Source.backup)
    BY <1>1 DEF AnalysisInv, CaptureInv
  <2>4. InspectionOf(Source) \in Inspections /\ Denotes(Source, InspectionOf(Source))
    BY <2>2, <2>3, InspectionDenotes
  <2>. QED
    BY <1>1, <1>3, <2>1, <2>2, <2>4, SideIsLoaded DEF GoOn
<1>. QED
  BY <1>2, <1>3 DEF ReadFile, Checked

-----------------------------------------------------------------------------
(* The commands: one is let through only while the flag is not set, and     *)
(* what was refused is none.                                                *)

\* An answer takes the command that was in flight, the one that a cancel came after too.
LEMMA CommandIsTaken ==
    ASSUME AnalysisInv, at # "idle", Taken
    PROVE  /\ inFlight' = FALSE /\ late' \in {late, late + 1}
           /\ late' = late + 1 => late = 0 /\ cancelFlag
           /\ late' = 0 \/ (late' = 1 /\ cancelFlag)
BY DEF Taken, AnalysisInv, CancelInv

\* A worker on a drive goes on to another step there.
LEMMA DriveJobGoesOn ==
    ASSUME AnalysisInv, at \in OnDrive, WorkerKeeps, UNCHANGED <<loaded, todo, inbox, onDisk>>,
           at' \in OnDrive \ {"saved"}, CancelInv'
    PROVE  AnalysisInv'
<1>1. at \notin {"idle", "load"} /\ at' \in Steps \ {"idle", "load"}
  BY DEF OnDrive, Steps
<1>2. Live(Source)
  BY DEF AnalysisInv, CaptureInv
<1>3. Live(Source)'
  BY <1>2 DEF Live, Source, WorkerKeeps
<1>4. CaptureInv'
  BY <1>3 DEF CaptureInv, OnDrive
<1>5. onDisk' \in [FirmwareFiles \cup CapturePaths -> FileContents \cup {Absent}]
  BY DEF AnalysisInv, AnalysisShape
<1>. QED
  BY <1>1, <1>4, <1>5, SideIsBegun, JobGoesOn

\* The worker is on a drive, and its job ends there.
LEMMA DriveJobEnds ==
    ASSUME AnalysisInv, at \in OnDrive, WorkerKeeps, UNCHANGED <<loaded, todo, onDisk>>,
           at' = "idle", Taken, NEW letters \in {<<"DoneErr">>, <<"AnalysisCancelled", "DoneErr">>},
           inbox' = inbox \o letters
    PROVE  AnalysisInv'
<1>1. at # "idle" /\ inbox = <<>>
  BY DEF OnDrive, AnalysisInv, JobInv
<1>2. inbox' = <<"DoneErr">> \/ inbox' = <<"AnalysisCancelled", "DoneErr">>
  <2>1. CASE letters = <<"DoneErr">>
    <3>1. <<>> \o <<"DoneErr">> = <<"DoneErr">>
      OBVIOUS
    <3>. QED
      BY <1>1, <2>1, <3>1
  <2>2. CASE letters = <<"AnalysisCancelled", "DoneErr">>
    <3>1. <<>> \o <<"AnalysisCancelled", "DoneErr">> = <<"AnalysisCancelled", "DoneErr">>
      OBVIOUS
    <3>. QED
      BY <1>1, <2>2, <3>1
  <2>. QED
    BY <2>1, <2>2
<1>. QED
  BY <1>1, <1>2, CommandIsTaken, JobEnds

LEMMA CommandStep ==
    ASSUME AnalysisInv, IssueCommand \/ IdentifySource \/ AfterIdentify \/ ReadLiveState PROVE AnalysisInv'
<1>1. CASE IssueCommand
  <2>1. /\ late = 0 /\ UNCHANGED <<slots, displayed, loaded, analysing, onDisk, captureAsBackup,
                       analysisTask, at, inbox, todo, late, cancelFlag>> /\ at # "idle"
    BY <1>1 DEF IssueCommand, Commanding, window, shown, AnalysisInv, CancelInv
  <2>. QED
    BY <2>1 DEF AnalysisInv, AnalysisShape, JobInv, CancelInv, LoadInv, CaptureInv,
       ResultIsOfTheSlots, Pending, Source
<1>2. CASE IdentifySource
  <2>1. /\ at = "identify" /\ WorkerKeeps /\ Taken /\ Keep
        /\ \/ at' = "idle" /\ inbox' = inbox \o <<"DoneErr">>
           \/ at' = "supported" /\ UNCHANGED inbox
    BY <1>2 DEF IdentifySource, Worker, window, shown, WorkerKeeps
  <2>2. CASE at' = "idle" /\ inbox' = inbox \o <<"DoneErr">>
    BY <2>1, <2>2, DriveJobEnds DEF OnDrive, Keep
  <2>3. CASE at' = "supported" /\ UNCHANGED inbox
    <3>1. CancelInv'
      BY <2>1, <2>3, CommandIsTaken DEF CancelInv, WorkerKeeps, AnalysisInv, JobInv
    <3>. QED
      BY <2>1, <2>3, <3>1, DriveJobGoesOn DEF OnDrive, Keep
  <2>. QED
    BY <2>1, <2>2, <2>3
<1>3. CASE AfterIdentify
  <2>1. /\ at = "supported" /\ WorkerKeeps
        /\ \/ Reply("cancelled", "cancel") /\ Keep
           \/ GoOn("live") /\ Keep
    BY <1>3 DEF AfterIdentify, Checked, Worker, window, shown, WorkerKeeps
  <2>2. CASE Reply("cancelled", "cancel") /\ Keep
    BY <2>1, <2>2, AnsweredJobEnds
  <2>3. CASE GoOn("live") /\ Keep
    <3>1. CancelInv'
      BY <2>1, <2>3 DEF GoOn, CancelInv, WorkerKeeps, AnalysisInv, JobInv
    <3>. QED
      BY <2>1, <2>3, <3>1, DriveJobGoesOn DEF OnDrive, Keep, GoOn
  <2>. QED
    BY <2>1, <2>2, <2>3
<1>4. CASE ReadLiveState
  <2>1. /\ at = "live" /\ WorkerKeeps /\ Taken /\ Keep
        /\ \/ at' = "idle" /\ inbox' = inbox \o <<"DoneErr">>
           \/ at' = "capture" /\ UNCHANGED inbox
    BY <1>4 DEF ReadLiveState, Worker, window, shown, WorkerKeeps
  <2>2. CASE at' = "idle" /\ inbox' = inbox \o <<"DoneErr">>
    BY <2>1, <2>2, DriveJobEnds DEF OnDrive, Keep
  <2>3. CASE at' = "capture" /\ UNCHANGED inbox
    <3>1. CancelInv'
      BY <2>1, <2>3, CommandIsTaken DEF CancelInv, WorkerKeeps, AnalysisInv, JobInv
    <3>. QED
      BY <2>1, <2>3, <3>1, DriveJobGoesOn DEF OnDrive, Keep
  <2>. QED
    BY <2>1, <2>2, <2>3
<1>. QED
  BY <1>1, <1>2, <1>3, <1>4

LEMMA CaptureStep ==
    ASSUME AnalysisInv, CapturePart \/ SaveCapture \/ AfterCapture PROVE AnalysisInv'
<1>1. CASE CapturePart
  <2>1. at = "capture" /\ WorkerKeeps /\ Taken
    BY <1>1 DEF CapturePart, Worker, window, shown, WorkerKeeps
  <2>2. CASE \E letters \in {<<"DoneErr">>, <<"AnalysisCancelled", "DoneErr">>} :
                at' = "idle" /\ Keep /\ inbox' = inbox \o letters
    BY <2>1, <2>2, DriveJobEnds DEF OnDrive, Keep
  <2>3. CASE at' = at /\ inbox' = inbox /\ UNCHANGED <<todo, loaded, onDisk>>
    <3>1. CancelInv'
      BY <2>1, <2>3, CommandIsTaken DEF CancelInv, WorkerKeeps, AnalysisInv, JobInv
    <3>. QED
      BY <2>1, <2>3, <3>1, DriveJobGoesOn DEF OnDrive
  <2>. QED
    BY <1>1, <2>2, <2>3 DEF CapturePart
<1>2. CASE SaveCapture
  <2>1. at = "capture" /\ WorkerKeeps
    BY <1>2 DEF SaveCapture, Worker, window, shown, WorkerKeeps
  <2>2. CASE Reply("failed", "drive") /\ Keep
    BY <2>1, <2>2, AnsweredJobEnds
  <2>3. CASE /\ onDisk' = [onDisk EXCEPT ![Source.path] =
                            [drive |-> Source.drive, whole |-> ~filled,
                             backup |-> Source.drive \notin Sweeping \/ Source.backup]]
             /\ GoOn("saved") /\ UNCHANGED <<todo, loaded, sent, filled>>
    <3>1. todo # <<>> /\ (analysing.kind = "Compare" => ~Live(slots[1]) \/ ~Live(slots[2]))
      BY <2>1, SideIsBegun
    <3>2. Source \in Sources /\ Live(Source)
      BY <2>1, <3>1, SideHasSource DEF AnalysisInv, CaptureInv, OnDrive
    <3>3. Source.path \in FirmwareFiles \cup CapturePaths /\ Source.drive \in Selectable
      BY <3>2 DEF Live, Sources
    <3> DEFINE content == [drive |-> Source.drive, whole |-> ~filled,
                           backup |-> Source.drive \notin Sweeping \/ Source.backup]
    <3>4. content \in FileContents
      BY <3>3 DEF FileContents
    <3>5. /\ content.drive = Source.drive
          /\ content.backup = (Source.drive \notin Sweeping \/ Source.backup)
      OBVIOUS
    <3>6. content # Absent
      BY <3>4, AnalysisAssumption
    <3>7. onDisk' = [onDisk EXCEPT ![Source.path] = content]
      BY <2>3
    <3> HIDE DEF content
    <3>8. /\ onDisk' \in [FirmwareFiles \cup CapturePaths -> FileContents \cup {Absent}]
          /\ onDisk'[Source.path] = content
      BY <3>3, <3>4, <3>7 DEF AnalysisInv, AnalysisShape
    <3>9. Source' = Source /\ at' = "saved" /\ UNCHANGED <<inbox, late, inFlight>>
      BY <2>1, <2>3 DEF Source, WorkerKeeps, GoOn
    <3>10. Live(Source)'
      BY <3>2, <3>9 DEF Live
    <3>11. CaptureInv'
      BY <3>5, <3>6, <3>8, <3>9, <3>10 DEF CaptureInv
    <3>12. CancelInv'
      BY <2>1, <3>9 DEF AnalysisInv, CancelInv, WorkerKeeps
    <3>. QED
      BY <2>1, <2>3, <3>1, <3>8, <3>9, <3>11, <3>12, JobGoesOn DEF Steps
  <2>. QED
    BY <1>2, <2>2, <2>3 DEF SaveCapture
<1>3. CASE AfterCapture
  <2>1. /\ at = "saved" /\ WorkerKeeps
        /\ \/ Reply("cancelled", "cancel") /\ Keep
           \/ GoOn("read") /\ Keep
    BY <1>3 DEF AfterCapture, Checked, Worker, window, shown, WorkerKeeps
  <2>2. CASE Reply("cancelled", "cancel") /\ Keep
    BY <2>1, <2>2, AnsweredJobEnds
  <2>3. CASE GoOn("read") /\ Keep
    <3>1. todo # <<>> /\ (analysing.kind = "Compare" => ~Live(slots[1]) \/ ~Live(slots[2]))
      BY <2>1, SideIsBegun
    <3>2. /\ UNCHANGED <<loaded, todo, inbox, late, inFlight, onDisk>> /\ at' = "read"
          /\ onDisk' \in [FirmwareFiles \cup CapturePaths -> FileContents \cup {Absent}]
      BY <2>3 DEF GoOn, Keep, AnalysisInv, AnalysisShape
    <3>3. Source' = Source
      BY <2>1, <3>2 DEF Source, WorkerKeeps
    <3>4. /\ Source.kind = "drive" /\ onDisk[Source.path] # Absent
          /\ onDisk[Source.path].drive = Source.drive
          /\ onDisk[Source.path].backup = (Source.drive \notin Sweeping \/ Source.backup)
      BY <2>1 DEF AnalysisInv, CaptureInv, OnDrive, Live
    <3>5. CaptureInv'
      BY <3>2, <3>3, <3>4 DEF CaptureInv, OnDrive
    <3>6. CancelInv'
      BY <2>1, <3>2 DEF AnalysisInv, CancelInv, WorkerKeeps
    <3>. QED
      BY <2>1, <3>1, <3>2, <3>5, <3>6, JobGoesOn DEF Steps
  <2>. QED
    BY <2>1, <2>2, <2>3
<1>. QED
  BY <1>1, <1>2, <1>3

LEMMA AnalysisStepKeeps == AnalysisInv /\ [AnalysisNext]_analysisVars => AnalysisInv'
<1>1. SUFFICES ASSUME AnalysisInv, AnalysisNext PROVE AnalysisInv'
  BY AnalysisFrame DEF analysisVars, window, shown, work
<1>. QED
  BY <1>1, WindowStep, AnalysisIsRun, JobStep, LoadStep, ReadStep, CommandStep, CaptureStep
     DEF AnalysisNext

\* The result on view is of the sources that the window names beside it, whatever was
\* chosen, cancelled or begun since (ui.rs: set_source, set_analysis, inspect_side).
THEOREM ResultsAreOfTheSlots == AnalysisSpec => []ResultIsOfTheSlots
BY AnalysisStarts, AnalysisStepKeeps, AnalysisInvSuffices, PTL DEF AnalysisSpec

\* No more is asked of a drive than the user did: one drive, one whose comparison can
\* take place, and after a cancel only the command that had been let through
\* (inspection/mod.rs: compare; Control::cancel).
THEOREM DrivesAreNotOverused == AnalysisSpec => []DriveIsNotOverused
BY AnalysisStarts, AnalysisStepKeeps, AnalysisInvSuffices, PTL DEF AnalysisSpec

=============================================================================
