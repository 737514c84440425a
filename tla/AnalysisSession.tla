------------------------------ MODULE AnalysisSession ------------------------------
(***************************************************************************)
(* Inspect and Compare: the two source slots of ui.rs, the job that reads  *)
(* them (inspection/mod.rs, on a thread of its own), the flag with which   *)
(* it is cancelled, and what the window says and shows of it.              *)
(*                                                                         *)
(* A live source is captured to a file of its own first and read back from *)
(* it.  Every command of a capture looks at the flag before it is sent;    *)
(* the refusal is an error like any other to the code that asked for it.   *)
(* That a profile must offer inspection is left out: any drive may.        *)
(***************************************************************************)
EXTENDS Naturals, Sequences

CONSTANTS
    Selectable,       \* the drives a source can be taken from
    Sweeping,         \* those whose capture fills what does not read (MediaTek)
    FirmwareFiles,    \* the files there are at the start
    CapturePaths,     \* where a capture can be saved
    CaptureParts,     \* commands of a capture; a strict one needs its first
    MaxAnalyses,      \* jobs in a behaviour
    Absent            \* no source, no result, no job, no file, no drive

Analyses == {"Inspect", "Compare"}

(* What a file is: of which drive, if of one, and whether it is complete.  What *)
(* was read of one, from where the user can take a source, and what a job is.   *)
FileContents == [drive : Selectable \cup {Absent}, whole : BOOLEAN, backup : BOOLEAN]
Inspections ==
    [path : FirmwareFiles \cup CapturePaths, holds : FileContents \cup {Absent},
     live : Selectable \cup {Absent}]
Sources ==
    [kind : {"file"}, path : FirmwareFiles \cup CapturePaths] \cup
    [kind : {"drive"}, drive : Selectable, path : CapturePaths, backup : BOOLEAN] \cup
    [kind : {"analyzed"}, of : Inspections]
Results ==
    [kind : {"Inspect"}, of : [1..1 -> Inspections]] \cup
    [kind : {"Compare"}, of : [1..2 -> Inspections]]
Requests ==
    [kind : Analyses, sources : [1..2 -> Sources \cup {Absent}]] \cup
    [kind : {"Info"}, sources : {<<>>}]

ASSUME AnalysisAssumption ==
    /\ Sweeping \subseteq Selectable /\ CaptureParts \in Nat \ {0} /\ MaxAnalyses \in Nat
    /\ Absent \notin Selectable \cup FirmwareFiles \cup CapturePaths
    /\ Absent \notin FileContents \cup Inspections \cup Sources \cup Results \cup Requests

VARIABLES
    analysisTask, slots, captureAsBackup,   \* the tab, the sources, the check box
    displayed,                              \* the result that is kept
    analysing, cancelFlag, said,            \* the job, its flag (Control), the status line
    heardCancelled, inbox, started,         \* analysis_cancelled, rx, jobs so far
    \* the worker and the drive:
    at, todo, loaded, inFlight, sent, filled, late, cause, onDisk

window == <<analysisTask, slots, captureAsBackup>>
shown == <<displayed, said, heardCancelled>>
work == <<at, todo, loaded, inFlight, sent, filled, late, cause, onDisk>>
analysisVars == <<window, shown, analysing, cancelFlag, inbox, started, work>>

FileSource(p) == [kind |-> "file", path |-> p]
DriveSource(d, p, b) == [kind |-> "drive", drive |-> d, path |-> p, backup |-> b]
Analyzed(i) == [kind |-> "analyzed", of |-> i]
Live(source) == source # Absent /\ source.kind = "drive"

(* What a source was when it was read. *)
InspectionOf(source) ==
    [path |-> source.path, holds |-> onDisk[source.path],
     live |-> IF source.kind = "drive" THEN source.drive ELSE Absent]

AnalysisInit ==
    /\ analysisTask = "Inspect" /\ slots = <<Absent, Absent>> /\ captureAsBackup = FALSE
    /\ displayed = Absent
    /\ analysing = Absent /\ cancelFlag = FALSE /\ said = "ready"
    /\ heardCancelled = FALSE /\ inbox = <<>> /\ started = 0
    /\ at = "idle" /\ todo = <<>> /\ loaded = <<Absent, Absent>>
    /\ inFlight = FALSE /\ sent = 0 /\ filled = FALSE /\ late = 0 /\ cause = Absent
    /\ onDisk = [p \in FirmwareFiles \cup CapturePaths |->
                    IF p \in FirmwareFiles
                    THEN [drive |-> Absent, whole |-> TRUE, backup |-> TRUE] ELSE Absent]

-----------------------------------------------------------------------------
(* The window. *)

Idle == analysing = Absent

SelectTab ==
    /\ Idle /\ analysisTask' \in (Analyses \cup {"Info"}) \ {analysisTask}
    /\ UNCHANGED <<slots, captureAsBackup, shown, analysing, cancelFlag, inbox, started, work>>

\* A mutant: the result stays beside the new source.
SetSourceKeeping(i, source) ==
    /\ slots' = [slots EXCEPT ![i] = source] /\ displayed' = displayed
    /\ UNCHANGED <<analysisTask, captureAsBackup, said, heardCancelled, analysing, cancelFlag,
                   inbox, started, work>>

\* set_source: a result of the sources before is no longer shown.
SetSource(i, source) ==
    /\ slots' = [slots EXCEPT ![i] = source] /\ displayed' = Absent
    /\ UNCHANGED <<analysisTask, captureAsBackup, said, heardCancelled, analysing, cancelFlag,
                   inbox, started, work>>

Offered(i) == analysisTask = "Compare" \/ (i = 1 /\ analysisTask = "Inspect")

\* drive_source_allowed: Compare takes one live side; what Inspect left may be another.
DriveSourceAllowed(i) == ~(analysisTask = "Compare" /\ Live(slots[3 - i]))

ChooseSource ==
    /\ Idle
    /\ \E i \in 1..2 :
         /\ Offered(i)
         /\ \/ \E p \in FirmwareFiles \cup {p \in CapturePaths : onDisk[p] # Absent} :
                  SetSource(i, FileSource(p))
            \/ /\ DriveSourceAllowed(i)
               /\ \E d \in Selectable, p \in CapturePaths :
                     SetSource(i, DriveSource(d, p, captureAsBackup))

\* The check box rewrites the live sources there are.
CaptureAsBackup ==
    LET rewritten == [i \in 1..2 |-> IF Live(slots[i])
                                     THEN [slots[i] EXCEPT !.backup = ~captureAsBackup]
                                     ELSE slots[i]] IN
    /\ Idle /\ analysisTask \in Analyses
    /\ captureAsBackup' = ~captureAsBackup /\ slots' = rewritten
    /\ displayed' = IF rewritten # slots THEN Absent ELSE displayed
    /\ UNCHANGED <<analysisTask, said, heardCancelled, analysing, cancelFlag, inbox, started, work>>

\* inspect_side, which no running job holds back.
InspectSide ==
    /\ displayed # Absent /\ displayed.kind = "Compare"
    /\ \E i \in 1..2 :
         /\ slots' = [slots EXCEPT ![1] = Analyzed(displayed.of[i])]
         /\ displayed' = [kind |-> "Inspect", of |-> <<displayed.of[i]>>]
    /\ analysisTask' = "Inspect"
    /\ UNCHANGED <<captureAsBackup, said, heardCancelled, analysing, cancelFlag, inbox, started,
                   work>>

\* start_job, as far as an analysis can tell.
StartJob(request) ==
    /\ analysing' = request /\ started' = started + 1
    /\ said' = "running" /\ heardCancelled' = FALSE

(* run_analysis; compare loads its file before its drive. *)
RunAnalysis ==
    LET sides == IF analysisTask = "Compare" THEN 1..2 ELSE {1} IN
    /\ Idle /\ started < MaxAnalyses /\ analysisTask \in Analyses
    /\ \A i \in sides : slots[i] # Absent
    /\ cancelFlag' = FALSE /\ displayed' = Absent
    /\ StartJob([kind |-> analysisTask, sources |-> slots])
    /\ at' = "load" /\ cause' = Absent
    /\ todo' = IF analysisTask = "Inspect" THEN <<1>>
               ELSE IF Live(slots[1]) THEN <<2, 1>> ELSE <<1, 2>>
    /\ UNCHANGED <<window, inbox, loaded, inFlight, sent, filled, late, onDisk>>

(* Another job, which says only that it is done. *)
ReadInfo ==
    /\ Idle /\ started < MaxAnalyses /\ analysisTask = "Info"
    /\ StartJob([kind |-> "Info", sources |-> <<>>]) /\ inbox' = <<"DoneOk">>
    /\ UNCHANGED <<window, displayed, cancelFlag, work>>

CancelAnalysis ==
    /\ ~Idle /\ ~cancelFlag /\ analysisTask \in Analyses
    /\ cancelFlag' = TRUE /\ said' = "cancelling"
    /\ UNCHANGED <<window, displayed, heardCancelled, analysing, inbox, started, work>>

(* poll: a message of the worker. *)
PollAnalysis ==
    /\ inbox # <<>> /\ inbox' = Tail(inbox)
    /\ LET message == Head(inbox) IN
         \/ /\ message = "Analysis"
            /\ displayed' = [kind |-> analysing.kind,
                             of |-> IF analysing.kind = "Inspect" THEN <<loaded[1]>> ELSE loaded]
            /\ UNCHANGED <<said, heardCancelled, analysing, work>>
         \/ /\ message = "AnalysisCancelled" /\ heardCancelled' = TRUE
            /\ UNCHANGED <<displayed, said, analysing, work>>
         \/ /\ message \in {"DoneOk", "DoneErr"} /\ analysing' = Absent
            /\ said' = CASE message = "DoneOk" -> "complete"
                         [] heardCancelled -> "cancelled"
                         [] OTHER -> "failed"
            /\ todo' = <<>> /\ loaded' = <<Absent, Absent>>
            /\ sent' = 0 /\ filled' = FALSE /\ late' = 0
            /\ UNCHANGED <<displayed, heardCancelled, at, inFlight, cause, onDisk>>
    /\ UNCHANGED <<window, cancelFlag, started>>

-----------------------------------------------------------------------------
(* The worker. *)

Source == analysing.sources[Head(todo)]
Worker(step) == at = step /\ UNCHANGED <<window, shown, analysing, cancelFlag, started>>
Keep == UNCHANGED <<todo, loaded, sent, filled, onDisk>>

\* run_job: what is sent of an error; the cancelled one is told by its type.
Reply(result, why) ==
    /\ at' = "idle" /\ cause' = IF cause = Absent THEN why ELSE cause
    /\ inFlight' = FALSE /\ late' = late
    /\ inbox' = inbox \o CASE result = "ok" -> <<"Analysis", "DoneOk">>
                           [] result = "cancelled" -> <<"AnalysisCancelled", "DoneErr">>
                           [] OTHER -> <<"DoneErr">>

GoOn(step) ==
    at' = step /\ UNCHANGED <<inbox, cause, inFlight, late>>

\* Control::check, and what follows it.
Checked(next) ==
    IF cancelFlag THEN Reply("cancelled", "cancel") /\ Keep ELSE next

Refused == analysing.kind = "Compare" /\ Live(analysing.sources[1]) /\ Live(analysing.sources[2])

LoadSource ==
    /\ Worker("load")
    /\ IF Refused THEN Reply("failed", "sources") /\ Keep
       ELSE IF todo = <<>> THEN Checked(\/ Reply("ok", Absent) /\ Keep
                                        \/ Reply("failed", "pair") /\ Keep)
       ELSE Checked(
              CASE Source.kind = "analyzed" ->
                     /\ loaded' = [loaded EXCEPT ![Head(todo)] = Source.of] /\ todo' = Tail(todo)
                     /\ GoOn("load") /\ UNCHANGED <<sent, filled, onDisk>>
                [] Source.kind = "file" -> GoOn("read") /\ Keep
                [] Source.kind = "drive" ->
                     \/ Reply("failed", "drive") /\ Keep
                     \/ GoOn("identify") /\ sent' = 0 /\ filled' = FALSE
                        /\ UNCHANGED <<todo, loaded, onDisk>>)

\* read_capped and inspect_bytes, which look at the flag as they go.
ReadFile ==
    /\ Worker("read")
    /\ \/ Reply("failed", "file") /\ Keep
       \/ Checked(/\ loaded' = [loaded EXCEPT ![Head(todo)] = InspectionOf(Source)]
                  /\ todo' = Tail(todo) /\ GoOn("load") /\ UNCHANGED <<sent, filled, onDisk>>)

Commanding == at \in {"identify", "live", "capture"}

\* A mutant: the flag is not read between the commands.
IssueAnyway ==
    /\ Commanding /\ ~inFlight /\ inFlight' = TRUE
    /\ UNCHANGED <<window, shown, analysing, cancelFlag, inbox, started, at, todo, loaded, sent,
                   filled, late, cause, onDisk>>

\* CancellableDevice: the flag is read, then the command is sent.
IssueCommand ==
    /\ Commanding /\ ~inFlight /\ ~cancelFlag /\ inFlight' = TRUE
    /\ UNCHANGED <<window, shown, analysing, cancelFlag, inbox, started, at, todo, loaded, sent,
                   filled, late, cause, onDisk>>

\* A command has an answer: the drive's, an error of the drive, or the refusal to send it.
Answered(why) ==
    \/ inFlight /\ why \in {Absent, "drive"}
    \/ ~inFlight /\ cancelFlag /\ why = "cancel"

\* The drive has received it.
Taken == late' = late + (IF inFlight /\ cancelFlag THEN 1 ELSE 0) /\ inFlight' = FALSE

\* What went wrong first.
Blame(why) == cause' = IF cause = Absent THEN why ELSE cause

(* registry::resolve: an error is Unavailable, whatever it was, unless another probe matched. *)
IdentifySource ==
    /\ Worker("identify")
    /\ \E why \in {Absent, "drive", "cancel"} :
         /\ Answered(why) /\ Taken /\ Keep
         /\ \/ at' = "idle" /\ inbox' = inbox \o <<"DoneErr">> /\ Blame(why)
            \/ at' = "supported" /\ UNCHANGED <<inbox, cause>>

AfterIdentify ==
    /\ Worker("supported") /\ Checked(GoOn("live") /\ Keep)

\* live_state keeps the errors as diagnostics, and Backend::identity has none.
ReadLiveState ==
    /\ Worker("live")
    /\ \E why \in {Absent, "drive", "cancel"} : Answered(why) /\ Taken
    /\ IF onDisk[Source.path] # Absent
       THEN at' = "idle" /\ inbox' = inbox \o <<"DoneErr">> /\ Blame("file")
       ELSE at' = "capture" /\ UNCHANGED <<inbox, cause>>
    /\ Keep

(* A part that does not read is filled in, or left out of the archive; only the *)
(* first of a strict capture ends it, with the error that it had.               *)
CapturePart ==
    /\ Worker("capture") /\ sent < CaptureParts
    /\ \E why \in {Absent, "drive", "cancel"} :
         /\ Answered(why) /\ Taken /\ Blame(why)
         /\ IF why # Absent /\ Source.drive \notin Sweeping /\ sent = 0
            THEN /\ at' = "idle" /\ Keep
                 /\ inbox' = inbox \o IF why = "cancel" THEN <<"AnalysisCancelled", "DoneErr">>
                                      ELSE <<"DoneErr">>
            ELSE /\ sent' = sent + 1 /\ filled' = (filled \/ why # Absent)
                 /\ at' = at /\ inbox' = inbox /\ UNCHANGED <<todo, loaded, onDisk>>

\* backup_with_replace: a filled sweep is a raw dump and no backup.
SaveCapture ==
    /\ Worker("capture") /\ sent = CaptureParts
    /\ \/ Reply("failed", "drive") /\ Keep
       \/ /\ ~(filled /\ Source.drive \in Sweeping /\ Source.backup)
          /\ onDisk' = [onDisk EXCEPT ![Source.path] =
                            [drive |-> Source.drive, whole |-> ~filled,
                             backup |-> Source.drive \notin Sweeping \/ Source.backup]]
          /\ GoOn("saved") /\ UNCHANGED <<todo, loaded, sent, filled>>

AfterCapture ==
    /\ Worker("saved") /\ Checked(GoOn("read") /\ Keep)

AnalysisNext ==
    \/ SelectTab \/ ChooseSource \/ CaptureAsBackup \/ InspectSide
    \/ RunAnalysis \/ ReadInfo \/ CancelAnalysis \/ PollAnalysis
    \/ LoadSource \/ ReadFile \/ IssueCommand \/ IdentifySource \/ AfterIdentify \/ ReadLiveState
    \/ CapturePart \/ SaveCapture \/ AfterCapture

AnalysisSpec == AnalysisInit /\ [][AnalysisNext]_analysisVars
-----------------------------------------------------------------------------
Denotes(source, inspection) ==
    CASE source.kind = "analyzed" -> source.of = inspection
      [] source.kind = "file" -> inspection.path = source.path /\ inspection.live = Absent
      [] source.kind = "drive" ->
           /\ inspection.path = source.path /\ inspection.live = source.drive
           /\ inspection.holds.drive = source.drive
           /\ inspection.holds.backup = (source.drive \notin Sweeping \/ source.backup)

\* The result on view, of whichever job, and after whatever was chosen since, is of the
\* sources that the window names beside it. (ui.rs: set_source, set_analysis, inspect_side.)
ResultIsOfTheSlots ==
    displayed # Absent =>
        \A i \in DOMAIN displayed.of : slots[i] # Absent /\ Denotes(slots[i], displayed.of[i])

\* No more is asked of a drive than the user did: never a second drive, never one whose
\* comparison cannot take place for want of a readable file, and after a cancel only the
\* command that had been let through. (inspection/mod.rs: compare, "files validated before
\* any live capture"; Control::cancel, "In-flight transport calls must return first".)
DriveIsNotOverused ==
    /\ late <= 1
    /\ at \notin {"idle", "load", "read"} /\ analysing.kind = "Compare" =>
           /\ loaded[3 - Head(todo)] # Absent
           /\ ~Live(analysing.sources[3 - Head(todo)])

\* An analysis that the cancel ended is not reported as one that failed. (ui_tests.rs:
\* cancelled_analysis_is_reported_as_cancellation_without_failure_guidance.)
CancelledIsNoFailure == said = "failed" => cause # "cancel"
=============================================================================
