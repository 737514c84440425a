-------------------------------- MODULE MtkUpdate --------------------------------
(***************************************************************************)
(* The MediaTek update executors: FlashFacet::execute and execute_stage of *)
(* backends/mtk/flash.rs, and execute of backends/mtk/recovery.rs, down to *)
(* the report they make of a failure.                                      *)
(*                                                                         *)
(* The command sequence itself is the library mediatek_optical's; it is    *)
(* modelled from the callbacks and the errors that the executors handle.   *)
(* A command may fail on the host, fail with the drive having obeyed it,   *)
(* or succeed; the executor sees only that it failed.                      *)
(***************************************************************************)
EXTENDS Naturals

CONSTANTS
    Chunks,      \* payload commands of one stage
    TornImage,   \* an image of which the drive holds some
    NoReport     \* no error, no report

ASSUME ChunkAssumption == Chunks \in Nat \ {0} /\ TornImage \notin Nat

MtkErrors == {"Receiver", "Entry", "Transfer", "Fault", "ReadyTimeout", "Startup", "Mismatch"}
MtkSteps == {"receiver", "entry", "transfer", "ready", "verify", "failed", "done"}
MtkProgress == {"Preflight", "EntryAttempted", "PayloadAttempted", "PayloadAccepted",
                "UploadComplete"}
MtkReports == [kind : {"failed", "completed"}, progress : MtkProgress, writeStarted : BOOLEAN,
               accepted : 0 .. Chunks, temporary : BOOLEAN, completed : {0, 1, 2}]

ASSUME NoReportAssumption == NoReport \notin MtkErrors /\ NoReport \notin MtkReports

VARIABLES
    mtkMode, mtkTotal,          \* "flash" or "recovery"; how many stages
    mtkCompleted, mtkStep,      \* stages done, and where the current one is
    emptyWrite, payloadWrite,   \* ScsiTransport's flags, fresh in every stage
    accepted, uploaded,         \* Runtime's fields, fresh in every stage
    error, mtkReport,
    \* the drive:
    mtkReached,   \* the furthest command it received in this update
    mtkHeld,      \* the chunks of the current stage it received
    mtkImage      \* 0: what was installed, k: the image of stage k, or TornImage

mtkPlan == <<mtkMode, mtkTotal>>
host == <<emptyWrite, payloadWrite, accepted, uploaded>>
mtkDrive == <<mtkReached, mtkHeld, mtkImage>>
mtkVars == <<mtkPlan, mtkCompleted, mtkStep, host, error, mtkReport, mtkDrive>>

MtkInit ==
    /\ \/ mtkMode = "flash" /\ mtkTotal \in {1, 2}
       \/ mtkMode = "recovery" /\ mtkTotal = 1
    /\ mtkCompleted = 0 /\ mtkStep = "receiver"
    /\ emptyWrite = FALSE /\ payloadWrite = FALSE /\ accepted = 0 /\ uploaded = FALSE
    /\ error = NoReport /\ mtkReport = NoReport
    /\ mtkReached = "nothing" /\ mtkHeld = 0 /\ mtkImage = 0

MtkFail(e) == mtkStep' = "failed" /\ error' = e
MtkGoto(s) == mtkStep' = s /\ error' = error

-----------------------------------------------------------------------------
(* The library's sequence, as its callbacks and errors show it. *)

(* The receiver the plan is bound to is read again. *)
RevalidateReceiver ==
    /\ mtkStep = "receiver"
    /\ MtkFail("Receiver") \/ MtkGoto("entry")
    /\ UNCHANGED <<mtkPlan, mtkCompleted, host, mtkReport, mtkDrive>>

Received(command) == mtkReached' = IF mtkReached = "payload" THEN mtkReached ELSE command

(* PREPARE. Recovery goes on after a failure and does not retry. *)
EnterUpdate ==
    /\ mtkStep = "entry" /\ emptyWrite' = TRUE
    /\ \/ Received("entry") /\ MtkGoto("transfer")
       \/ /\ Received("entry") \/ UNCHANGED mtkReached
          /\ MtkFail("Entry") \/ (mtkMode = "recovery" /\ MtkGoto("transfer"))
    /\ UNCHANGED <<mtkPlan, mtkCompleted, payloadWrite, accepted, uploaded, mtkReport, mtkHeld,
                   mtkImage>>

\* The entry fails before it sends anything.
EntryRefused ==
    /\ mtkStep = "entry" /\ MtkFail("Entry")
    /\ UNCHANGED <<mtkPlan, mtkCompleted, host, mtkReport, mtkDrive>>

ChunkReceived ==
    /\ mtkReached' = "payload" /\ mtkHeld' = mtkHeld + 1 /\ mtkImage' \in {mtkImage, TornImage}

(* A chunk of the image, and Runtime::progress. *)
SendChunk ==
    /\ mtkStep = "transfer" /\ accepted < Chunks
    /\ payloadWrite' = TRUE
    /\ \/ ChunkReceived /\ accepted' = accepted + 1 /\ UNCHANGED <<mtkStep, error>>
       \/ /\ ChunkReceived \/ UNCHANGED mtkDrive
          /\ MtkFail("Transfer") /\ UNCHANGED accepted
    /\ UNCHANGED <<mtkPlan, mtkCompleted, emptyWrite, uploaded, mtkReport>>

(* The trailer, whose failure is recorded and ignored; Runtime::uploaded. *)
Commit ==
    /\ mtkStep = "transfer" /\ accepted = Chunks
    /\ emptyWrite' = TRUE /\ uploaded' = TRUE
    /\ MtkGoto("ready")
    /\ UNCHANGED <<mtkPlan, mtkCompleted, payloadWrite, accepted, mtkReport, mtkDrive>>

(* The drive programs, or does not, while the host polls it. *)
AwaitReady ==
    /\ mtkStep = "ready"
    /\ mtkImage' \in {mtkImage, TornImage, mtkCompleted + 1}
    /\ MtkGoto("verify") \/ \E e \in {"Fault", "ReadyTimeout"} : MtkFail(e)
    /\ UNCHANGED <<mtkPlan, mtkCompleted, host, mtkReport, mtkReached, mtkHeld>>

(* The protected ranges are read back and the target's startup confirmed. *)
VerifyFails ==
    /\ mtkStep = "verify" /\ (\E e \in {"Mismatch", "Startup"} : MtkFail(e))
    /\ UNCHANGED <<mtkPlan, mtkCompleted, host, mtkReport, mtkDrive>>

-----------------------------------------------------------------------------
(* The executors. *)

\* A mutant: the next stage starts on what was read back, without a confirmed startup.
StageCompletesUnconfirmed ==
    /\ mtkStep = "verify" /\ mtkCompleted + 1 < mtkTotal
    /\ mtkCompleted' = mtkCompleted + 1 /\ MtkGoto("receiver") /\ mtkHeld' = 0
    /\ mtkReport' = mtkReport
    /\ emptyWrite' = FALSE /\ payloadWrite' = FALSE /\ accepted' = 0 /\ uploaded' = FALSE
    /\ UNCHANGED <<mtkPlan, mtkReached, mtkImage>>

(* A stage succeeds: the next one starts, with a new transport and runtime, *)
(* or the update has completed.                                             *)
MtkStageCompletes ==
    /\ mtkStep = "verify" /\ mtkImage = mtkCompleted + 1
    /\ mtkCompleted' = mtkCompleted + 1
    /\ IF mtkCompleted' < mtkTotal
       THEN /\ MtkGoto("receiver") /\ mtkHeld' = 0 /\ mtkReport' = mtkReport
            /\ emptyWrite' = FALSE /\ payloadWrite' = FALSE
            /\ accepted' = 0 /\ uploaded' = FALSE
       ELSE /\ MtkGoto("done") /\ UNCHANGED <<host, mtkHeld>>
            /\ mtkReport' = [kind |-> "completed", progress |-> "UploadComplete",
                             writeStarted |-> TRUE, accepted |-> accepted,
                             temporary |-> FALSE, completed |-> mtkCompleted']
    /\ UNCHANGED <<mtkPlan, mtkReached, mtkImage>>

\* What transport and runtime have seen.
MtkEvidence ==
    IF uploaded THEN "UploadComplete"
    ELSE IF accepted > 0 THEN "PayloadAccepted"
    ELSE IF payloadWrite THEN "PayloadAttempted"
    ELSE IF emptyWrite THEN "EntryAttempted" ELSE "Preflight"

\* The two errors that both executors class alike.
EntryProgress == IF emptyWrite THEN "EntryAttempted" ELSE "Preflight"
TransferProgress == IF accepted = 0 THEN "PayloadAttempted" ELSE "PayloadAccepted"

FlashProgress ==
    IF mtkCompleted > 0 THEN "UploadComplete"
    ELSE IF error = "Receiver" THEN "Preflight"
    ELSE IF error = "Entry" THEN EntryProgress
    ELSE IF error = "Transfer" THEN TransferProgress ELSE MtkEvidence

\* A mutant: a failed entry of a recovery was refused by the drive.
RecoveryProgressTrustsEntry ==
    IF error = "Entry" THEN "Preflight" ELSE IF error = "Transfer" THEN TransferProgress
    ELSE MtkEvidence

RecoveryProgress ==
    IF error = "Entry" THEN EntryProgress
    ELSE IF error = "Transfer" THEN TransferProgress
    ELSE IF error = "Startup" \/ uploaded THEN "UploadComplete"
    ELSE IF error = "Receiver" THEN MtkEvidence
    ELSE IF accepted > 0 THEN "PayloadAccepted" ELSE "PayloadAttempted"

MtkFailureProgress == IF mtkMode = "flash" THEN FlashProgress ELSE RecoveryProgress

WriteStarted ==
    IF mtkMode = "flash"
    THEN (error # "Receiver" /\ MtkFailureProgress # "Preflight") \/ mtkCompleted > 0
    ELSE (error = "Receiver" => emptyWrite \/ payloadWrite) /\ MtkFailureProgress # "Preflight"

\* A mutant: only the failing stage's payload counts.
TemporaryFirmwareOfStage == mtkMode = "flash" /\ mtkTotal > 1 /\ payloadWrite

MtkTemporaryFirmware == mtkMode = "flash" /\ mtkTotal > 1 /\ (payloadWrite \/ mtkCompleted > 0)

(* The error becomes an UpdateFailure. *)
MtkReportFailure ==
    /\ mtkStep = "failed" /\ MtkGoto("done")
    /\ mtkReport' = [kind |-> "failed", progress |-> MtkFailureProgress,
                     writeStarted |-> WriteStarted, accepted |-> accepted,
                     temporary |-> MtkTemporaryFirmware, completed |-> mtkCompleted]
    /\ UNCHANGED <<mtkPlan, mtkCompleted, host, mtkDrive>>

MtkNext ==
    \/ RevalidateReceiver \/ EnterUpdate \/ EntryRefused \/ SendChunk \/ Commit \/ AwaitReady
    \/ VerifyFails \/ MtkStageCompletes \/ MtkReportFailure

MtkSpec == MtkInit /\ [][MtkNext]_mtkVars

\* UpdateFailure::impact, and a completion.
MtkImpact(r) ==
    IF r.kind = "completed" THEN "Completed"
    ELSE IF r.temporary THEN "TemporaryFirmware"
    ELSE IF r.progress = "Preflight" THEN "Blocked"
    ELSE IF r.progress = "EntryAttempted" THEN "EntryUncertain" ELSE "PayloadUncertain"

-----------------------------------------------------------------------------
MtkTypeOK ==
    /\ mtkMode \in {"flash", "recovery"} /\ mtkTotal \in {1, 2} /\ mtkCompleted \in {0, 1, 2}
    /\ mtkStep \in MtkSteps /\ error \in MtkErrors \cup {NoReport}
    /\ mtkReport \in MtkReports \cup {NoReport}
    /\ emptyWrite \in BOOLEAN /\ payloadWrite \in BOOLEAN /\ uploaded \in BOOLEAN
    /\ accepted \in 0 .. Chunks /\ mtkHeld \in Nat
    /\ mtkReached \in {"nothing", "entry", "payload"} /\ mtkImage \in {0, 1, 2, TornImage}

\* A report never denies what the drive received, nor claims acceptance of what
\* it did not receive: no write started means no command of any stage arrived,
\* the bytes accepted in the failing stage are at most those that arrived, and
\* a complete upload means that all of them did, in this stage or an earlier one.
\* (mtk/flash.rs: execute_stage; mtk/recovery.rs: execute.)
EvidenceIsTrue ==
    mtkReport # NoReport =>
        /\ ~mtkReport.writeStarted => mtkReached = "nothing" /\ mtkImage = 0
        /\ mtkReport.accepted <= mtkHeld
        /\ mtkReport.progress = "UploadComplete" => mtkHeld = Chunks \/ mtkReport.completed > 0

\* The final image is sent only to a drive that still runs the intermediate
\* one, confirmed. (mtk/flash.rs: FlashFacet::execute.)
FinalOverIntermediate ==
    [][mtkCompleted > 0 /\ mtkHeld' > mtkHeld /\ mtkHeld = 0
       => mtkTotal = 2 /\ mtkImage = 1]_mtkVars

\* An inductive strengthening: what the flags know of the drive.
StageInv ==
    /\ mtkMode = "recovery" => mtkTotal = 1
    /\ mtkCompleted > 0 => mtkReached = "payload"
    /\ mtkStep # "done" => mtkCompleted < mtkTotal /\ mtkReport = NoReport
    /\ mtkCompleted = mtkTotal => mtkImage = mtkTotal
    /\ mtkImage \in {TornImage} \cup 0 .. mtkCompleted + 1
    /\ mtkCompleted > 0 /\ ~payloadWrite => mtkImage = mtkCompleted
    /\ mtkCompleted = 0 /\ ~payloadWrite => mtkReached # "payload" /\ mtkImage = 0
    /\ mtkCompleted = 0 /\ ~payloadWrite /\ ~emptyWrite => mtkReached = "nothing"
    /\ accepted <= mtkHeld /\ mtkHeld <= accepted + 1
    /\ mtkHeld > 0 => payloadWrite /\ mtkReached = "payload"
    /\ uploaded => accepted = Chunks /\ mtkHeld = Chunks
    /\ uploaded <=> \/ mtkStep \in {"ready", "verify"}
                    \/ /\ mtkStep \in {"failed", "done"}
                       /\ error \notin {"Receiver", "Entry", "Transfer"}
    /\ mtkStep \in {"receiver", "entry"} => ~emptyWrite /\ ~payloadWrite
    /\ mtkStep = "transfer" => mtkHeld = accepted /\ (payloadWrite => mtkHeld > 0)
    /\ mtkStep \in {"failed", "done"} /\ error \in {"Receiver", "Entry"} => ~payloadWrite
    /\ mtkStep \in {"failed", "done"} /\ error = "Receiver" => ~emptyWrite
    /\ mtkStep \in {"failed", "done"} /\ error = "Transfer" => payloadWrite
    /\ mtkStep = "failed" => error # NoReport
    /\ mtkStep \notin {"failed", "done"} => error = NoReport

UpdateInv == MtkTypeOK /\ StageInv /\ EvidenceIsTrue

\* What the report says of the update, and what the drive runs.
MtkSaid == IF mtkReport = NoReport THEN "nothing" ELSE MtkImpact(mtkReport)
Holds ==
    IF mtkImage = 0 THEN "installed" ELSE IF mtkImage = TornImage THEN "unproven"
    ELSE IF mtkImage = mtkTotal THEN "target" ELSE "temporary"

\* Whatever fails, with whatever effect on the drive, the consequence the user
\* is shown is not milder than what the drive received, and a drive left with
\* the intermediate image is reported as such. (backend/mod.rs: impact.)
MtkShown == INSTANCE UpdateReport WITH reached <- mtkReached, holds <- Holds, said <- MtkSaid

MtkImplementsUpdateReport == MtkShown!ReportSpec
=============================================================================
