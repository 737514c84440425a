------------------------------ MODULE SupportReport ------------------------------
(***************************************************************************)
(* The report a user sends: support.rs, support/submission.rs and the part *)
(* of ui.rs that asks for it.  The application retains each firmware input *)
(* under its checksum; a report is described, approved in the browser,     *)
(* bundled and uploaded by a worker thread, while the user can cancel, the *)
(* files can change and deadlines pass.  The UI hears of the worker only   *)
(* through its channel, when it polls.                                     *)
(***************************************************************************)
EXTENDS Naturals

CONSTANTS
    Texts,         \* descriptions a user types, besides none
    NoText,
    Uploads,       \* attempts at the upload, three in the code
    MaxRestarts,   \* bound: the application is killed so often
    MaxReports     \* bound: reports sent

ASSUME ReportAssumption ==
    /\ NoText \notin Texts
    /\ Uploads \in Nat \ {0} /\ MaxRestarts \in Nat /\ MaxReports \in Nat

VARIABLES
    retaining,   \* the next step of retain_firmware
    cache,       \* the file under the checksum: "none", "part", "whole" or "altered"
    history,     \* the firmware_input events: whether the snapshot was available
    capture,     \* the captured file a report may attach: "absent", "same" or "altered"
    prompt,      \* the report prompt is open, over what it would attach
    working,     \* the next step of the worker; "none" without one
    tries,       \* the number of the upload
    cancelled,
    approved,    \* the user has approved this report on its page
    clock,       \* "running", "approvalOver" or "deadline"
    bundle,      \* what the ZIP holds, and what its manifest says
    result,      \* what the worker left on the channel
    notice,      \* the last word the UI gave
    server,      \* what the server has of this report
    restarts,
    reports

reportVars == <<retaining, cache, history, capture, prompt, working, tries, cancelled, approved, clock,
                bundle, result, notice, server, restarts, reports>>

uiVars == <<prompt, notice, reports>>
filesVars == <<retaining, cache, history, capture, restarts>>
workerVars == <<working, tries, cancelled, approved, clock, bundle, result, server>>

EmptyBundle == [claims |-> "nothing", firmware |-> "none", artifact |-> "none", text |-> NoText]
Nothing == [bundle |-> EmptyBundle, text |-> NoText, accepted |-> FALSE, answered |-> FALSE]

ReportInit ==
    /\ retaining = "idle" /\ cache = "none" /\ history = {} /\ capture \in {"absent", "same"}
    /\ prompt = "none" /\ working = "none" /\ tries = 1 /\ cancelled = FALSE
    /\ approved = FALSE /\ clock = "running" /\ bundle = EmptyBundle /\ result = "none" /\ notice = "none"
    /\ server = Nothing /\ restarts = 0 /\ reports = 0

-----------------------------------------------------------------------------
(* Retaining the firmware of an operation; the history outlives the process. *)

RetainStep(step) == retaining' = step /\ UNCHANGED <<uiVars, workerVars, capture, restarts>>

Recorded(available) == RetainStep("idle") /\ history' = history \cup {available} /\ UNCHANGED cache

\* An existing file is accepted only with the length and the checksum of the input.
RetainFirmware ==
    /\ retaining = "idle"
    /\ IF cache = "none"
       THEN \/ Recorded(FALSE)
            \/ RetainStep("write") /\ cache' = "part" /\ UNCHANGED history
       ELSE Recorded(cache = "whole")

WriteCache ==
    /\ retaining = "write"
    /\ \/ Recorded(FALSE)
       \/ RetainStep("record") /\ cache' = "whole" /\ UNCHANGED history

RecordInput == retaining = "record" /\ Recorded(TRUE)

Tamper ==
    /\ \/ cache = "whole" /\ cache' = "altered" /\ UNCHANGED capture
       \/ capture = "same" /\ capture' = "altered" /\ UNCHANGED cache
    /\ UNCHANGED <<uiVars, workerVars, retaining, history, restarts>>

Restart ==
    /\ restarts < MaxRestarts /\ restarts' = restarts + 1
    /\ retaining' = "idle" /\ capture' = "absent" /\ prompt' = "none" /\ working' = "none"
    /\ result' = "none" /\ notice' = "none"
    /\ UNCHANGED <<cache, history, tries, cancelled, approved, clock, bundle, server, reports>>

-----------------------------------------------------------------------------
(* The UI. *)

AskReport ==
    /\ working = "none" /\ result = "none" /\ retaining = "idle" /\ reports < MaxReports
    /\ prompt' = IF capture = "absent" THEN "logs" ELSE "artifact"
    /\ UNCHANGED <<filesVars, workerVars, notice, reports>>

DismissReport ==
    prompt # "none" /\ prompt' = "none" /\ UNCHANGED <<filesVars, workerVars, notice, reports>>

\* A prompt without a description is asked again; another starts the worker.
SendReport ==
    /\ prompt # "none" /\ working = "none" /\ result = "none" /\ reports < MaxReports
    /\ \E t \in Texts :
         /\ bundle' = [EmptyBundle EXCEPT !.text = t, !.artifact = IF prompt = "logs" THEN "none" ELSE "asked"]
         /\ working' = "request" /\ tries' = 1 /\ cancelled' = FALSE
         /\ approved' = FALSE /\ clock' = "running"
         /\ server' = Nothing /\ prompt' = "none" /\ notice' = "opening" /\ reports' = reports + 1
    /\ UNCHANGED <<filesVars, result>>

CancelReport ==
    /\ working # "none" \/ result # "none"
    /\ ~cancelled /\ cancelled' = TRUE /\ notice' = "stopping"
    /\ UNCHANGED <<filesVars, prompt, reports, working, tries, approved, clock, bundle, result, server>>

\* A mutant: a channel without a sender is taken for one without a message.
PollReportEmpty ==
    /\ result \notin {"none", "workerLost"} /\ result' = "none"
    /\ notice' = IF cancelled /\ result \in {"tooLarge", "attachmentChanged", "error"}
                 THEN "cancelled" ELSE result
    /\ UNCHANGED <<filesVars, prompt, reports, working, tries, cancelled, approved, clock, bundle, server>>

\* A worker that died has told nothing: whether a report was sent is not known.
PollReport ==
    /\ result # "none" /\ result' = "none"
    /\ notice' = IF cancelled /\ result \in {"tooLarge", "attachmentChanged", "error"}
                 THEN "cancelled" ELSE result
    /\ UNCHANGED <<filesVars, prompt, reports, working, tries, cancelled, approved, clock, bundle, server>>

-----------------------------------------------------------------------------
(* The worker. *)

Stopped == cancelled \/ clock = "deadline"

FinishReport(r) ==
    /\ working' = "none" /\ result' = r
    /\ UNCHANGED <<filesVars, uiVars, tries, cancelled, approved, clock>>

EndsWith(r) == FinishReport(r) /\ UNCHANGED <<bundle, server>>

Proceeds(from, step) ==
    /\ working = from /\ ~Stopped /\ working' = step
    /\ UNCHANGED <<filesVars, uiVars, cancelled, approved, clock, result>>

\* control.check begins every step and follows every answer but the last one's.
StopWork == working \notin {"none", "answer"} /\ Stopped /\ EndsWith("error")

\* A request or a file fails, or is refused.
RequestFails == working # "none" /\ EndsWith("error")

\* The thread ends without a word: the channel is disconnected.
WorkerDies == working # "none" /\ EndsWith("workerLost")

RequestApproval == Proceeds("request", "approval") /\ UNCHANGED <<tries, bundle, server>>

Approve ==
    /\ working = "approval" /\ ~approved /\ approved' = TRUE
    /\ UNCHANGED <<filesVars, uiVars, working, tries, cancelled, clock, bundle, result, server>>

\* 202 changes nothing and is polled again, for the ten minutes of the approval.
PollApproval ==
    \/ /\ approved /\ clock = "running" /\ Proceeds("approval", "gather")
       /\ UNCHANGED <<tries, bundle, server>>
    \/ working = "approval" /\ clock # "running" /\ EndsWith("error")

\* bundle_checked, before the ZIP is created: what there is, and how large it is.
Gather ==
    \/ working = "gather" /\ ~Stopped /\ EndsWith("tooLarge")
    \/ /\ working = "gather" /\ ~Stopped /\ bundle.artifact = "asked" /\ capture = "altered"
       /\ EndsWith("attachmentChanged")
    \/ /\ Proceeds("gather", "firmware") /\ UNCHANGED <<tries, server>>
       /\ bundle' = [bundle EXCEPT !.claims =
             CASE history = {} -> "nothing"
               [] TRUE \in history /\ cache \in {"whole", "altered"} -> "attached"
               [] OTHER -> "unavailable"]

\* A mutant: the checksum is not taken again when the firmware is copied.
CopyFirmwareUnchecked ==
    /\ Proceeds("firmware", "artifact") /\ UNCHANGED <<tries, server>>
    /\ bundle' = [bundle EXCEPT !.firmware = IF bundle.claims = "attached" THEN cache ELSE "none"]

\* The file may have changed since it was listed: its bytes are hashed again.
CopyFirmware ==
    \/ /\ working = "firmware" /\ ~Stopped /\ bundle.claims = "attached" /\ cache # "whole"
       /\ EndsWith("attachmentChanged")
    \/ /\ bundle.claims = "attached" => cache = "whole"
       /\ Proceeds("firmware", "artifact") /\ UNCHANGED <<tries, server>>
       /\ bundle' = [bundle EXCEPT !.firmware = IF bundle.claims = "attached" THEN "whole" ELSE "none"]

\* The captured file is hashed while it is copied, against its capture's checksum.
CopyArtifact ==
    \/ /\ working = "artifact" /\ ~Stopped /\ bundle.artifact = "asked" /\ capture # "same"
       /\ EndsWith("attachmentChanged")
    \/ /\ bundle.artifact = "asked" => capture = "same"
       /\ Proceeds("artifact", "describe") /\ UNCHANGED <<tries, server>>
       /\ bundle' = [bundle EXCEPT !.artifact = IF bundle.artifact = "asked" THEN "same" ELSE "none"]

\* The answer to a request can be lost although the server has acted on it.
Describe ==
    /\ working = "describe" /\ ~Stopped
    /\ server' = [server EXCEPT !.text = bundle.text]
    /\ \/ Proceeds("describe", "upload") /\ UNCHANGED <<tries, bundle>>
       \/ FinishReport("error") /\ UNCHANGED bundle

\* The server takes the ZIP, or answers 503 and does not; the user can cancel meanwhile.
Upload ==
    /\ Proceeds("upload", "answer") /\ UNCHANGED <<tries, bundle>>
    /\ server' \in {server, [server EXCEPT !.accepted = TRUE, !.bundle = bundle]}

\* A receipt wins over a cancellation; a 503 is retried, an error is not.
UploadAnswer ==
    /\ working = "answer"
    /\ \/ /\ server.accepted /\ server' = [server EXCEPT !.answered = TRUE]
          /\ FinishReport("receipt") /\ UNCHANGED bundle
       \/ ~server.accepted /\ tries = Uploads /\ EndsWith("error")
       \/ ~server.accepted /\ Stopped /\ EndsWith("error")
       \/ /\ ~server.accepted /\ tries < Uploads /\ tries' = tries + 1
          /\ Proceeds("answer", "upload") /\ UNCHANGED <<bundle, server>>

Work ==
    \/ StopWork \/ RequestApproval \/ PollApproval \/ Gather \/ CopyFirmware \/ CopyArtifact
    \/ Describe \/ Upload \/ UploadAnswer

PassTime ==
    /\ working # "none" /\ clock # "deadline"
    /\ clock' = IF clock = "running" THEN "approvalOver" ELSE "deadline"
    /\ UNCHANGED <<filesVars, uiVars, working, tries, cancelled, approved, bundle, result, server>>

ReportNext ==
    \/ RetainFirmware \/ WriteCache \/ RecordInput \/ Tamper \/ Restart
    \/ AskReport \/ DismissReport \/ SendReport \/ CancelReport \/ PollReport
    \/ Work \/ RequestFails \/ WorkerDies \/ Approve \/ PassTime

\* Every request has a time limit, the tick goes on while a report runs, and time
\* passes; nothing makes the user approve, or a request fail.
ReportFairness == WF_reportVars(Work) /\ WF_reportVars(PollReport) /\ WF_reportVars(PassTime)

ReportSpec == ReportInit /\ [][ReportNext]_reportVars /\ ReportFairness
-----------------------------------------------------------------------------
\* What the user is told of a report agrees with what the server has of it: a receipt
\* is for an accepted report with this description, and is not taken back by a
\* cancellation that came too late; "no report was sent" means that nothing of it left
\* the machine. (ui.rs: poll; submission.rs: "a received upload receipt wins".)
\* And what the server accepted attaches the bytes that were retained and captured,
\* or says that they are unavailable, whatever became of the files meanwhile.
\* (support.rs: bundle_checked, "no substitute was attached".)
NoticeIsTrue ==
    /\ notice = "receipt" => server.accepted /\ server.text = server.bundle.text
    /\ notice = "cancelled" => ~server.answered
    /\ notice = "attachmentChanged" => server = Nothing
    /\ server.accepted =>
         /\ server.bundle.firmware = IF server.bundle.claims = "attached" THEN "whole" ELSE "none"
         /\ server.bundle.artifact \in {"none", "same"}
         /\ server.bundle.text \in Texts

\* A report that was begun ends and the user is told how, even if its page is never
\* answered, a file changes under it or the worker dies. (submission.rs: approval_limit
\* and deadline; ui.rs: TryRecvError::Disconnected.)
ReportEnds == (working # "none") ~> (working = "none" /\ result = "none")
=============================================================================
