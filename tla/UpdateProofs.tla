---------------------------- MODULE UpdateProofs ----------------------------
(***************************************************************************)
(* What a failure report says of the drive: for every number of chunks of  *)
(* a MediaTek update, and for any number of stages and any startup         *)
(* settings of a Pioneer one.                                              *)
(***************************************************************************)
EXTENDS MtkUpdate, PioneerUpdate, TLAPS

LEMMA MtkInitInvariant == MtkInit => UpdateInv
<1> SUFFICES ASSUME MtkInit PROVE UpdateInv
  OBVIOUS
<1>1. /\ mtkMode \in {"flash", "recovery"} /\ mtkTotal \in {1, 2} /\ mtkCompleted \in {0, 1, 2}
      /\ mtkStep \in MtkSteps /\ error \in MtkErrors \cup {NoReport}
      /\ mtkReport \in MtkReports \cup {NoReport}
  BY DEF MtkInit, MtkSteps
<1>2. emptyWrite \in BOOLEAN /\ payloadWrite \in BOOLEAN /\ uploaded \in BOOLEAN
  BY DEF MtkInit
<1>3. /\ accepted \in 0 .. Chunks /\ mtkHeld \in Nat
      /\ mtkReached \in {"nothing", "entry", "payload"} /\ mtkImage \in {0, 1, 2, TornImage}
  BY ChunkAssumption DEF MtkInit
<1>4. StageInv
  BY ChunkAssumption DEF MtkInit, StageInv
<1>5. EvidenceIsTrue
  BY DEF MtkInit, EvidenceIsTrue
<1> QED
  BY <1>1, <1>2, <1>3, <1>4, <1>5 DEF UpdateInv, MtkTypeOK

\* The end of a stage, which resets what the next one starts with or reports.
LEMMA CompletedStage == UpdateInv /\ MtkStageCompletes => UpdateInv'
<1> SUFFICES ASSUME UpdateInv, MtkStageCompletes PROVE UpdateInv'
  OBVIOUS
<1>1. /\ mtkCompleted \in {0, 1, 2} /\ mtkTotal \in {1, 2} /\ mtkMode \in {"flash", "recovery"}
      /\ mtkCompleted < mtkTotal /\ mtkReport = NoReport /\ error = NoReport
      /\ mtkMode = "recovery" => mtkTotal = 1
  BY DEF UpdateInv, MtkTypeOK, StageInv, MtkStageCompletes
<1>2. uploaded = TRUE /\ accepted = Chunks /\ mtkHeld = Chunks /\ payloadWrite = TRUE
  BY ChunkAssumption DEF UpdateInv, MtkTypeOK, StageInv, MtkStageCompletes
<1>3. mtkReached = "payload"
  BY <1>1, <1>2, ChunkAssumption DEF UpdateInv, MtkTypeOK, StageInv, MtkStageCompletes
<1>4. /\ mtkMode' = mtkMode /\ mtkTotal' = mtkTotal /\ mtkReached' = mtkReached
      /\ mtkImage' = mtkImage /\ mtkImage' = mtkCompleted' /\ mtkCompleted' = mtkCompleted + 1
  BY DEF MtkStageCompletes, mtkPlan
<1>5. CASE mtkCompleted' < mtkTotal
  <2>1. mtkCompleted' = 1 /\ mtkTotal = 2 /\ mtkMode = "flash"
    BY <1>1, <1>4, <1>5
  <2>2. /\ mtkStep' = "receiver" /\ error' = NoReport /\ mtkHeld' = 0 /\ mtkReport' = NoReport
        /\ emptyWrite' = FALSE /\ payloadWrite' = FALSE /\ accepted' = 0 /\ uploaded' = FALSE
    BY <1>1, <1>5 DEF MtkStageCompletes, MtkGoto
  <2>3. MtkTypeOK'
    <3>1. /\ mtkMode' = "flash" /\ mtkTotal' = 2 /\ mtkCompleted' = 1 /\ mtkImage' = 1
          /\ mtkReached' = "payload"
      BY <1>3, <1>4, <2>1
    <3>2. accepted' \in 0 .. Chunks /\ mtkHeld' \in Nat
      BY <2>2, ChunkAssumption
    <3> QED
      BY <3>1, <3>2, <2>2 DEF MtkTypeOK, MtkSteps
  <2>4. StageInv'
    BY <1>3, <1>4, <2>1, <2>2, ChunkAssumption DEF StageInv
  <2>5. EvidenceIsTrue'
    BY <2>2 DEF EvidenceIsTrue
  <2> QED
    BY <2>3, <2>4, <2>5 DEF UpdateInv
<1>6. CASE ~(mtkCompleted' < mtkTotal)
  <2>1. mtkCompleted' = mtkTotal /\ mtkCompleted' \in {1, 2}
    BY <1>1, <1>4, <1>6
  <2>2. mtkStep' = "done" /\ error' = NoReport /\ mtkHeld' = Chunks
    BY <1>1, <1>2, <1>6 DEF MtkStageCompletes, MtkGoto
  <2>3. emptyWrite' = emptyWrite /\ payloadWrite' = TRUE /\ accepted' = Chunks /\ uploaded' = TRUE
    BY <1>2, <1>6 DEF MtkStageCompletes, host
  <2>4. mtkReport' = [kind |-> "completed", progress |-> "UploadComplete",
                      writeStarted |-> TRUE, accepted |-> Chunks,
                      temporary |-> FALSE, completed |-> mtkCompleted']
    BY <1>2, <1>6 DEF MtkStageCompletes
  <2>5. mtkReport' \in MtkReports
    BY <2>1, <2>4, ChunkAssumption DEF MtkReports, MtkProgress
  <2>6. emptyWrite \in BOOLEAN
    BY DEF UpdateInv, MtkTypeOK
  <2>7. MtkTypeOK'
    BY <1>1, <1>3, <1>4, <2>1, <2>2, <2>3, <2>5, <2>6, ChunkAssumption DEF MtkTypeOK, MtkSteps
  <2>8. StageInv'
    BY <1>1, <1>3, <1>4, <2>1, <2>2, <2>3, NoReportAssumption, ChunkAssumption DEF StageInv, MtkErrors
  <2>9. mtkReport'.writeStarted = TRUE /\ mtkReport'.accepted = mtkHeld'
    BY <2>2, <2>4
  <2>10. EvidenceIsTrue'
    BY <2>2, <2>9, ChunkAssumption DEF EvidenceIsTrue
  <2> QED
    BY <2>7, <2>8, <2>10 DEF UpdateInv
<1> QED
  BY <1>5, <1>6

LEMMA FailureReportType == UpdateInv /\ MtkReportFailure => mtkReport' \in MtkReports
<1> SUFFICES ASSUME UpdateInv, MtkReportFailure PROVE mtkReport' \in MtkReports
  OBVIOUS
<1>1. /\ MtkFailureProgress \in MtkProgress
      /\ WriteStarted \in BOOLEAN /\ MtkTemporaryFirmware \in BOOLEAN
  BY DEF MtkReportFailure, MtkFailureProgress, FlashProgress, RecoveryProgress, MtkEvidence,
     EntryProgress, TransferProgress, WriteStarted, MtkTemporaryFirmware, MtkProgress, UpdateInv,
     MtkTypeOK
<1> QED
  BY <1>1 DEF MtkReportFailure, MtkReports, UpdateInv, MtkTypeOK

\* One step of an executor keeps the invariant.
LEMMA MtkStepInvariant == UpdateInv /\ [MtkNext]_mtkVars => UpdateInv'
<1> SUFFICES ASSUME UpdateInv, [MtkNext]_mtkVars PROVE UpdateInv'
  OBVIOUS
<1> USE ChunkAssumption, NoReportAssumption
    DEF UpdateInv, MtkTypeOK, StageInv, EvidenceIsTrue, MtkSteps, MtkErrors, mtkPlan, host,
        mtkDrive, MtkGoto, MtkFail
<1>1. CASE UNCHANGED mtkVars
  BY <1>1 DEF mtkVars
<1>2. CASE RevalidateReceiver
  BY <1>2 DEF RevalidateReceiver
<1>3. CASE EnterUpdate
  BY <1>3 DEF EnterUpdate, Received
<1>4. CASE EntryRefused
  BY <1>4 DEF EntryRefused
<1>5. CASE SendChunk
  BY <1>5 DEF SendChunk, ChunkReceived
<1>6. CASE Commit
  BY <1>6 DEF Commit
<1>7. CASE AwaitReady
  BY <1>7 DEF AwaitReady
<1>8. CASE VerifyFails
  BY <1>8 DEF VerifyFails
<1>9. CASE MtkStageCompletes
  BY <1>9, CompletedStage
<1>10. CASE MtkReportFailure
  <2>2. mtkReport' \in MtkReports
    BY <1>10, FailureReportType
  <2>3. ~WriteStarted => mtkReached = "nothing" /\ mtkImage = 0
    BY <1>10 DEF MtkReportFailure, MtkFailureProgress, FlashProgress, RecoveryProgress, MtkEvidence,
       EntryProgress, TransferProgress, WriteStarted
  <2>4. MtkFailureProgress = "UploadComplete" => uploaded \/ mtkCompleted > 0
    BY <1>10 DEF MtkReportFailure, MtkFailureProgress, FlashProgress, RecoveryProgress, MtkEvidence,
       EntryProgress, TransferProgress
  <2>5. EvidenceIsTrue'
    BY <1>10, <2>3, <2>4 DEF MtkReportFailure
  <2> QED
    BY <1>10, <2>2, <2>5 DEF MtkReportFailure
<1> QED
  BY <1>1, <1>2, <1>3, <1>4, <1>5, <1>6, <1>7, <1>8, <1>9, <1>10 DEF MtkNext

\* The types, what the flags know of the drive, and the truth of the report.
THEOREM MtkInvariant == MtkSpec => []UpdateInv
BY MtkInitInvariant, MtkStepInvariant, PTL DEF MtkSpec

\* A failure report never denies what the drive received.
THEOREM ReportsAreTrue == MtkSpec => []EvidenceIsTrue
BY MtkInvariant, PTL DEF UpdateInv

\* The final image is sent only over the confirmed intermediate one.
THEOREM FinalIsOverIntermediate == MtkSpec => FinalOverIntermediate
<1>1. UpdateInv /\ [MtkNext]_mtkVars =>
        [mtkCompleted > 0 /\ mtkHeld' > mtkHeld /\ mtkHeld = 0
         => mtkTotal = 2 /\ mtkImage = 1]_mtkVars
  <2> SUFFICES ASSUME UpdateInv, [MtkNext]_mtkVars, mtkCompleted > 0, mtkHeld' > mtkHeld,
                      mtkHeld = 0
               PROVE mtkTotal = 2 /\ mtkImage = 1
    OBVIOUS
  <2> USE ChunkAssumption DEF UpdateInv, MtkTypeOK
  <2>1. CASE SendChunk
    BY <2>1 DEF SendChunk, StageInv
  <2>2. CASE ~SendChunk
    BY <2>2 DEF MtkNext, RevalidateReceiver, EnterUpdate, EntryRefused, Commit, AwaitReady,
       VerifyFails,
       MtkStageCompletes, MtkReportFailure, mtkVars, mtkDrive
  <2> QED
    BY <2>1, <2>2
<1> QED
  BY <1>1, MtkInvariant, PTL DEF MtkSpec, FinalOverIntermediate

-----------------------------------------------------------------------------
LEMMA StageCompletesRefines ==
    UpdateInv /\ MtkStageCompletes => MtkShown!Say \/ UNCHANGED MtkShown!reportVars
<1> SUFFICES ASSUME UpdateInv, MtkStageCompletes PROVE MtkShown!Say \/ UNCHANGED MtkShown!reportVars
  OBVIOUS
<1>1. /\ mtkReport = NoReport /\ mtkCompleted \in {0, 1, 2} /\ mtkTotal \in {1, 2}
      /\ mtkCompleted < mtkTotal
  BY DEF UpdateInv, MtkTypeOK, StageInv, MtkStageCompletes
<1>2. mtkTotal' = mtkTotal /\ mtkImage' = mtkImage /\ mtkReached' = mtkReached /\ Holds' = Holds
  BY DEF MtkStageCompletes, mtkPlan, Holds
<1>3. CASE mtkCompleted + 1 < mtkTotal
  <2>1. mtkReport' = mtkReport
    BY <1>3 DEF MtkStageCompletes
  <2> QED
    BY <1>2, <2>1 DEF MtkShown!reportVars, MtkSaid
<1>4. CASE ~(mtkCompleted + 1 < mtkTotal)
  <2>1. mtkImage = mtkTotal /\ mtkImage # 0 /\ mtkImage # TornImage
    BY <1>1, <1>4, ChunkAssumption DEF MtkStageCompletes
  <2>2. Holds = "target"
    BY <2>1 DEF Holds
  <2>3. mtkReport' = [kind |-> "completed", progress |-> "UploadComplete",
                      writeStarted |-> TRUE, accepted |-> accepted,
                      temporary |-> FALSE, completed |-> mtkCompleted']
    BY <1>4 DEF MtkStageCompletes
  <2>4. mtkReport' \in MtkReports
    BY <1>1, <2>3 DEF MtkReports, MtkProgress, MtkStageCompletes, UpdateInv, MtkTypeOK
  <2>5. MtkSaid = "nothing" /\ MtkSaid' = "Completed"
    BY <1>1, <2>3, <2>4, NoReportAssumption DEF MtkSaid, MtkImpact
  <2> QED
    BY <1>2, <2>2, <2>5 DEF MtkShown!Say, MtkShown!Consequences, MtkShown!True
<1> QED
  BY <1>3, <1>4

\* No failure report is milder than what the drive has seen.
LEMMA FailureRefines == UpdateInv /\ UpdateInv' /\ MtkReportFailure => MtkShown!Say
<1> SUFFICES ASSUME UpdateInv, UpdateInv', MtkReportFailure PROVE MtkShown!Say
  OBVIOUS
<1> DEFINE p == MtkFailureProgress
<1>1. mtkReport = NoReport /\ mtkStep = "failed"
  BY DEF UpdateInv, StageInv, MtkReportFailure
<1>2. Holds' = Holds /\ mtkReached' = mtkReached
  BY DEF MtkReportFailure, mtkPlan, mtkDrive, Holds
<1>3. /\ mtkReport' # NoReport /\ mtkReport'.kind = "failed"
      /\ mtkReport'.progress = p /\ mtkReport'.temporary = MtkTemporaryFirmware
  <2>1. mtkReport' = [kind |-> "failed", progress |-> MtkFailureProgress,
                      writeStarted |-> WriteStarted, accepted |-> accepted,
                      temporary |-> MtkTemporaryFirmware, completed |-> mtkCompleted]
    BY DEF MtkReportFailure
  <2>2. mtkReport' \in MtkReports
    BY FailureReportType
  <2> QED
    BY <2>1, <2>2, NoReportAssumption
<1> HIDE DEF p
<1>4. MtkTemporaryFirmware = FALSE => Holds # "temporary"
  <2>1. ASSUME MtkTemporaryFirmware = FALSE, mtkTotal = 2
        PROVE  mtkImage = 0
    BY <2>1 DEF MtkTemporaryFirmware, UpdateInv, MtkTypeOK, StageInv
  <2>2. ASSUME mtkTotal = 1, mtkImage # 0, mtkImage # TornImage
        PROVE  mtkImage = mtkTotal
    BY <2>2, <1>1 DEF UpdateInv, MtkTypeOK, StageInv
  <2> QED
    BY <2>1, <2>2 DEF Holds, UpdateInv, MtkTypeOK
<1>5. p = "Preflight" => mtkReached = "nothing"
  BY <1>1 DEF p, MtkFailureProgress, FlashProgress, RecoveryProgress, MtkEvidence, EntryProgress,
     TransferProgress, UpdateInv, MtkTypeOK, StageInv
<1>6. p = "EntryAttempted" => mtkReached # "payload"
  BY <1>1 DEF p, MtkFailureProgress, FlashProgress, RecoveryProgress, MtkEvidence, EntryProgress,
     TransferProgress, UpdateInv, MtkTypeOK, StageInv
<1>7. MtkSaid = "nothing"
  BY <1>1 DEF MtkSaid
<1>8. CASE MtkTemporaryFirmware = TRUE
  <2>1. MtkSaid' = "TemporaryFirmware"
    BY <1>3, <1>8 DEF MtkSaid, MtkImpact
  <2> QED
    BY <1>2, <1>7, <2>1 DEF MtkShown!Say, MtkShown!Consequences, MtkShown!True
<1>9. CASE MtkTemporaryFirmware = FALSE
  <2>1. CASE p = "Preflight"
    <3>1. MtkSaid' = "Blocked"
      BY <1>3, <1>9, <2>1 DEF MtkSaid, MtkImpact
    <3> QED
      BY <1>2, <1>5, <1>7, <2>1, <3>1 DEF MtkShown!Say, MtkShown!Consequences, MtkShown!True
  <2>2. CASE p = "EntryAttempted"
    <3>1. MtkSaid' = "EntryUncertain"
      BY <1>3, <1>9, <2>2 DEF MtkSaid, MtkImpact
    <3> QED
      BY <1>2, <1>6, <1>7, <2>2, <3>1 DEF MtkShown!Say, MtkShown!Consequences, MtkShown!True
  <2>3. CASE p \notin {"Preflight", "EntryAttempted"}
    <3>1. MtkSaid' = "PayloadUncertain"
      BY <1>3, <1>9, <2>3 DEF MtkSaid, MtkImpact
    <3> QED
      BY <1>2, <1>4, <1>7, <1>9, <3>1 DEF MtkShown!Say, MtkShown!Consequences, MtkShown!True
  <2> QED
    BY <2>1, <2>2, <2>3
<1>10. MtkTemporaryFirmware \in BOOLEAN
  BY DEF MtkTemporaryFirmware, UpdateInv, MtkTypeOK
<1> QED
  BY <1>8, <1>9, <1>10

LEMMA MtkStepRefines ==
    UpdateInv /\ UpdateInv' /\ [MtkNext]_mtkVars => [MtkShown!ReportNext]_(MtkShown!reportVars)
<1> SUFFICES ASSUME UpdateInv, UpdateInv', [MtkNext]_mtkVars
             PROVE  MtkShown!ReportNext \/ UNCHANGED MtkShown!reportVars
  OBVIOUS
<1>1. UNCHANGED <<mtkTotal, mtkImage, mtkReport, mtkReached>> => UNCHANGED MtkShown!reportVars
  BY DEF MtkShown!reportVars, MtkSaid, Holds
<1>2. Holds' \in MtkShown!Holds
  BY DEF Holds, MtkShown!Holds
<1>3. mtkReport = NoReport /\ mtkReport' = mtkReport => MtkSaid = "nothing" /\ MtkSaid' = MtkSaid
  BY DEF MtkSaid
<1>4. CASE EnterUpdate
  <2>1. mtkReport = NoReport /\ UNCHANGED <<mtkTotal, mtkImage, mtkReport>>
    BY <1>4 DEF EnterUpdate, mtkPlan, UpdateInv, StageInv
  <2>2. Holds' = Holds
    BY <2>1 DEF Holds
  <2>3. mtkReached' = mtkReached \/ (mtkReached = "nothing" /\ mtkReached' = "entry")
    BY <1>4 DEF EnterUpdate, Received, UpdateInv, MtkTypeOK
  <2> QED
    BY <1>1, <1>3, <2>1, <2>2, <2>3 DEF MtkShown!ReportNext, MtkShown!Enter
<1>5. CASE SendChunk
  <2>1. mtkReport = NoReport /\ UNCHANGED <<mtkTotal, mtkReport>>
    BY <1>5 DEF SendChunk, mtkPlan, UpdateInv, StageInv
  <2>2. CASE UNCHANGED <<mtkReached, mtkImage>>
    BY <1>1, <2>1, <2>2
  <2>3. CASE mtkReached' = "payload"
    BY <1>2, <1>3, <2>1, <2>3 DEF MtkShown!ReportNext, MtkShown!Write
  <2> QED
    BY <1>5, <2>2, <2>3 DEF SendChunk, ChunkReceived, mtkDrive
<1>6. CASE AwaitReady
  <2>1. mtkReport = NoReport /\ UNCHANGED <<mtkTotal, mtkReport, mtkReached>>
    BY <1>6 DEF AwaitReady, mtkPlan, UpdateInv, StageInv
  <2>2. mtkReached = "payload"
    BY <1>6, ChunkAssumption DEF AwaitReady, UpdateInv, MtkTypeOK, StageInv
  <2> QED
    BY <1>2, <1>3, <2>1, <2>2 DEF MtkShown!ReportNext, MtkShown!Write
<1>7. CASE MtkStageCompletes
  BY <1>7, StageCompletesRefines DEF MtkShown!ReportNext
<1>8. CASE MtkReportFailure
  BY <1>8, FailureRefines DEF MtkShown!ReportNext
<1>9. CASE RevalidateReceiver \/ EntryRefused \/ Commit \/ VerifyFails \/ UNCHANGED mtkVars
  BY <1>1, <1>9 DEF RevalidateReceiver, EntryRefused, Commit, VerifyFails, mtkVars, mtkPlan,
     mtkDrive
<1> QED
  BY <1>4, <1>5, <1>6, <1>7, <1>8, <1>9 DEF MtkNext

\* Every step of the executors is a step, or a stutter, of UpdateReport: the
\* consequence reported is never milder than what the drive has seen.
THEOREM ReportsAreNotMild == MtkSpec => MtkImplementsUpdateReport
<1>1. MtkInit => MtkShown!ReportInit
  BY DEF MtkInit, MtkShown!ReportInit, Holds, MtkSaid
<1> QED
  BY <1>1, MtkInvariant, MtkStepRefines, PTL DEF MtkSpec, MtkImplementsUpdateReport, MtkShown!ReportSpec

-----------------------------------------------------------------------------
(* What the executor's flags know of the drive. *)
FlagsAreTrue ==
    /\ reached # "nothing" \/ step \in {"kernel", "normal", "finish", "confirm"} => firmwareStarted
    /\ completed > 0 => firmwareStarted
    /\ step = "finish" => reached = "payload"
    /\ changed \subseteq tried

(* What undoing the settings found: a setting is as it was, or said to have failed. *)
RollbackIsTrue ==
    step \in {"failed", "done"} /\ ~firmwareStarted =>
        /\ \A s \in tried : rollback[s] \in {"Restored", "Failed"}
        /\ \A s \in Settings \ tried : rollback[s] = "Unchanged"
        /\ \A s \in changed : rollback[s] = "Failed"

(* Nothing is verified of a stage that is being sent. *)
NothingVerified ==
    step \in {"entry", "kernel", "normal", "finish"} => checks = Unverified /\ ~startup

PioneerInv ==
    /\ PioneerTypes
    /\ "normal" \in requested
    /\ counted <= completed
    /\ report # None <=> step = "done"
    /\ (completed = total) <=> (step = "done" /\ report.kind = "completed")
    /\ startup => \A r \in requested : holds[r] = holds["normal"]
    /\ step = "confirm" /\ startup => \A r \in requested : holds[r] = Image
    /\ FlagsAreTrue /\ RollbackIsTrue /\ NothingVerified
    /\ GuidanceIsTrue /\ StagesAreCounted /\ VerificationIsCurrent

-----------------------------------------------------------------------------
LEMMA ImageIsAStage == PioneerInv /\ step # "done" => Image \in 1 .. total /\ Image # Torn /\ report = None
<1> SUFFICES ASSUME PioneerInv, step # "done" PROVE Image \in 1 .. total /\ Image # Torn /\ report = None
  OBVIOUS
<1>1. completed \in 0 .. total /\ completed # total /\ total \in Nat
  BY StageAssumption DEF PioneerInv, PioneerTypes
<1>2. Image \in 1 .. total /\ report = None
  BY <1>1 DEF Image, PioneerInv
<1> QED BY <1>2, StageAssumption

LEMMA InitialReport == PioneerInit => PioneerInv
<1> SUFFICES ASSUME PioneerInit PROVE PioneerInv
  OBVIOUS
<1>1. /\ mode \in {"Flash", "Recovery"} /\ total \in 1 .. MaxStages /\ requested \in SUBSET Roles
      /\ "normal" \in requested /\ wanted \in SUBSET Settings
      /\ step = "settings" /\ completed = 0 /\ tried = {} /\ counted = 0 /\ startup = FALSE
      /\ report = None /\ changed = {} /\ reached = "nothing" /\ firmwareStarted = FALSE
  BY StageAssumption DEF PioneerInit, Roles
<1>2. /\ rollback \in [Settings -> Rollbacks] /\ checks \in [Roles -> Checks]
      /\ holds \in [Roles -> 0 .. total \cup {Torn}] /\ \A r \in Roles : checks[r] # "Matched"
  BY <1>1 DEF PioneerInit, Rollbacks, Checks, Unverified
<1>3. PioneerTypes
  <2>1. step \in Steps /\ reached \in {"nothing", "entry", "payload"}
    BY <1>1 DEF Steps
  <2>2. completed \in 0 .. total /\ counted \in Nat
    BY <1>1, StageAssumption
  <2>3. firmwareStarted \in BOOLEAN /\ startup \in BOOLEAN
    BY <1>1
  <2> QED BY <1>1, <1>2, <2>1, <2>2, <2>3 DEF PioneerTypes
<1> QED
  BY <1>1, <1>2, <1>3, StageAssumption
     DEF PioneerInv, FlagsAreTrue, RollbackIsTrue, NothingVerified, GuidanceIsTrue, StagesAreCounted,
         VerificationIsCurrent

LEMMA TypesKept == PioneerInv /\ [PioneerNext]_pioneerVars => PioneerTypes'
<1> SUFFICES ASSUME PioneerInv, [PioneerNext]_pioneerVars PROVE PioneerTypes'
  OBVIOUS
<1> USE DEF PioneerInv, PioneerTypes, plan, library, runtime, drive, Goto, Fail
<1>1. ASSUME NEW s \in Settings, ChangeSetting(s) PROVE PioneerTypes'
  BY <1>1 DEF ChangeSetting, Steps
<1>2. CASE SettingsChanged
  BY <1>2 DEF SettingsChanged, Steps
<1>3. CASE CheckStage
  BY <1>3 DEF CheckStage, Steps
<1>4. CASE Announce
  <2>1. Unverified' \in [Roles -> Checks] /\ Unverified \in [Roles -> Checks]
    BY DEF Unverified, Checks
  <2> QED BY <1>4, <2>1 DEF Announce, Steps
<1>5. CASE Enter
  BY <1>5 DEF Enter, Steps
<1>6. ASSUME NEW r \in Roles, Transfer(r) PROVE PioneerTypes'
  <2>1. holds' \in {holds, [holds EXCEPT ![r] = Torn]}
    BY <1>6 DEF Transfer
  <2>2. holds' \in [Roles -> 0 .. total \cup {Torn}]
    BY <2>1
  <2> QED BY <1>6, <2>2 DEF Transfer, Steps
<1>7. ASSUME NEW r \in Roles, Verify(r) PROVE PioneerTypes'
  <2>1. PICK c \in {IF holds[r] = Image THEN "Matched" ELSE "Mismatched", "Unavailable"} :
          checks' = [checks EXCEPT ![r] = c] /\ (IF c = "Mismatched" THEN Fail ELSE Goto(step))
    BY <1>7 DEF Verify
  <2>2. checks' \in [Roles -> Checks]
    BY <2>1 DEF Checks
  <2>3. step' \in Steps
    BY <2>1 DEF Steps
  <2> QED BY <1>7, <2>2, <2>3 DEF Verify
<1>8. CASE Finish
  <2>1. step # "done" /\ total \in Nat
    BY <1>8, StageAssumption DEF Finish
  <2>2. Image \in 0 .. total /\ completed \in 0 .. total
    BY <2>1, ImageIsAStage
  <2>3. holds' \in [Roles -> {Torn, Image} \cup 0 .. completed]
    BY <1>8 DEF Finish
  <2>4. holds' \in [Roles -> 0 .. total \cup {Torn}]
    BY <2>1, <2>2, <2>3
  <2> QED BY <1>8, <2>4 DEF Finish, Steps
<1>9. CASE ConfirmStartup
  BY <1>9 DEF ConfirmStartup, Steps
<1>10. CASE StageCompletes
  <2>1. step # "done" /\ completed' = Image
    BY <1>10 DEF StageCompletes
  <2>2. completed' \in 0 .. total /\ Image \in Nat
    BY <2>1, ImageIsAStage
  <2>3. report' \in Report \cup {None}
    <3>1. [kind |-> "completed", progress |-> "UploadComplete", writeStarted |-> TRUE, temporary |-> FALSE,
           completed |-> Image, issue |-> "none"] \in Report
      BY <2>2 DEF Report, Progress
    <3> QED BY <1>10, <3>1 DEF StageCompletes
  <2> QED BY <1>10, <2>2, <2>3 DEF StageCompletes, Steps
<1>11. CASE Rollback
  <2>1. step' \in Steps /\ changed' \in SUBSET Settings
    BY <1>11 DEF Rollback, Steps
  <2>2. rollback' \in [Settings -> Rollbacks]
    BY <1>11 DEF Rollback, Rollbacks
  <2> QED BY <1>11, <2>1, <2>2 DEF Rollback
<1>12. CASE ReportFailure
  <2>1. PICK told \in 0 .. completed :
          report' = [kind |-> "failed", progress |-> FailureProgress(CompletedStages(told)),
                     writeStarted |-> firmwareStarted \/ tried # {}, temporary |-> TemporaryFirmware,
                     completed |-> CompletedStages(told), issue |-> StartupIssue(CompletedStages(told))]
    BY <1>12 DEF ReportFailure
  <2>2. /\ CompletedStages(told) \in Nat /\ FailureProgress(CompletedStages(told)) \in Progress
        /\ StartupIssue(CompletedStages(told)) \in {"none", "StartupSettingRestored", "StartupSettingUncertain"}
    BY DEF CompletedStages, FailureProgress, StartupIssue, Progress
  <2>3. report' \in Report
    BY <2>1, <2>2 DEF Report, TemporaryFirmware
  <2> QED BY <1>12, <2>3 DEF ReportFailure, Steps
<1>13. CASE UNCHANGED pioneerVars
  BY <1>13 DEF pioneerVars
<1> QED
  BY <1>1, <1>2, <1>3, <1>4, <1>5, <1>6, <1>7, <1>8, <1>9, <1>10, <1>11, <1>12, <1>13 DEF PioneerNext

(* What is not of the report: the flags, the settings, what is verified. *)
FactsKept ==
    /\ FlagsAreTrue' /\ RollbackIsTrue' /\ NothingVerified' /\ VerificationIsCurrent'
    /\ startup' => \A r \in requested' : holds'[r] = holds'["normal"]
    /\ step' = "confirm" /\ startup' => \A r \in requested' : holds'[r] = Image'
    /\ "normal" \in requested' /\ counted' <= completed'

LEMMA FactsAreKept == PioneerInv /\ [PioneerNext]_pioneerVars => FactsKept
<1> SUFFICES ASSUME PioneerInv, [PioneerNext]_pioneerVars PROVE FactsKept
  OBVIOUS
<1> USE DEF PioneerInv, PioneerTypes, plan, library, runtime, drive, Goto, Fail,
            FactsKept, FlagsAreTrue, RollbackIsTrue, NothingVerified, VerificationIsCurrent
<1>0. requested' = requested /\ Unverified' = Unverified /\ \A r \in Roles : Unverified[r] # "Matched"
  BY DEF Unverified, PioneerNext, pioneerVars, ChangeSetting, SettingsChanged, CheckStage, Announce, Enter,
         Transfer, Verify, Finish, ConfirmStartup, StageCompletes, Rollback, ReportFailure
<1>1. ASSUME NEW s \in Settings, ChangeSetting(s) PROVE FactsKept
  BY <1>0, <1>1 DEF ChangeSetting
<1>2. CASE SettingsChanged
  BY <1>0, <1>2 DEF SettingsChanged
<1>3. CASE CheckStage
  BY <1>0, <1>3 DEF CheckStage
<1>4. CASE Announce
  BY <1>0, <1>4 DEF Announce
<1>5. CASE Enter
  BY <1>0, <1>5 DEF Enter
<1>6. ASSUME NEW r \in Roles, Transfer(r) PROVE FactsKept
  BY <1>0, <1>6 DEF Transfer, Roles
<1>7. ASSUME NEW r \in Roles, Verify(r) PROVE FactsKept
  <2>1. PICK c \in {IF holds[r] = Image THEN "Matched" ELSE "Mismatched", "Unavailable"} :
          checks' = [checks EXCEPT ![r] = c] /\ (IF c = "Mismatched" THEN Fail ELSE Goto(step))
    BY <1>7 DEF Verify
  <2>2. Image # Torn /\ Image # 0 /\ step' \notin {"entry", "kernel", "normal", "finish", "failed", "done"}
    BY <1>7, <2>1, ImageIsAStage DEF Verify
  <2>3. \A q \in Roles : checks'[q] = "Matched" => holds[q] \notin {0, Torn}
    BY <2>1, <2>2
  <2>4. Image' = Image
    BY <1>7 DEF Verify, Image
  <2> QED BY <1>0, <1>7, <2>2, <2>3, <2>4 DEF Verify
<1>8. CASE Finish
  BY <1>0, <1>8 DEF Finish
<1>9. CASE ConfirmStartup
  BY <1>0, <1>9, ImageIsAStage DEF ConfirmStartup, Image
<1>10. CASE StageCompletes
  BY <1>0, <1>10, ImageIsAStage DEF StageCompletes, Image
<1>11. CASE Rollback
  BY <1>0, <1>11 DEF Rollback
<1>12. CASE ReportFailure
  BY <1>0, <1>12 DEF ReportFailure
<1>13. CASE UNCHANGED pioneerVars
  BY <1>0, <1>13 DEF pioneerVars, Image
<1> QED
  BY <1>1, <1>2, <1>3, <1>4, <1>5, <1>6, <1>7, <1>8, <1>9, <1>10, <1>11, <1>12, <1>13 DEF PioneerNext

(* What is of the report. *)
ReportKept ==
    /\ (report' # None <=> step' = "done")
    /\ ((completed' = total') <=> (step' = "done" /\ report'.kind = "completed"))
    /\ GuidanceIsTrue' /\ StagesAreCounted'

LEMMA ReportIsKept == PioneerInv /\ [PioneerNext]_pioneerVars => ReportKept
<1> SUFFICES ASSUME PioneerInv, [PioneerNext]_pioneerVars PROVE ReportKept
  OBVIOUS
<1> USE DEF ReportKept, StagesAreCounted, GuidanceIsTrue
<1>1. CASE StageCompletes
  <2>1. step = "confirm" /\ completed' = Image /\ total' = total /\ report = None
    BY <1>1, ImageIsAStage DEF StageCompletes, plan
  <2>2. Image \in 1 .. total /\ total \in Nat
    BY <2>1, ImageIsAStage, StageAssumption DEF PioneerInv, PioneerTypes
  <2>3. CASE Image < total
    BY <1>1, <2>1, <2>2, <2>3 DEF StageCompletes, Goto
  <2>4. CASE Image = total
    <3>1. /\ step' = "done"
          /\ report' = [kind |-> "completed", progress |-> "UploadComplete", writeStarted |-> TRUE,
                        temporary |-> FALSE, completed |-> Image, issue |-> "none"]
      BY <1>1, <2>2, <2>4 DEF StageCompletes, Goto
    <3>2. report' \in Report
      BY <2>2, <3>1, StageAssumption DEF Report, Progress, PioneerInv, PioneerTypes
    <3> QED BY <2>1, <2>4, <3>1, <3>2, NoneAssumption
  <2> QED BY <2>2, <2>3, <2>4
<1>2. CASE ReportFailure
  <2>1. /\ step = "failed" /\ step' = "done" /\ completed' = completed /\ total' = total
        /\ changed' = changed /\ reached' = reached /\ completed # total
    BY <1>2 DEF ReportFailure, Goto, plan, drive, PioneerInv
  <2>2. PICK told \in 0 .. completed :
          /\ TellsOf(told)
          /\ report' = [kind |-> "failed", progress |-> FailureProgress(CompletedStages(told)),
                        writeStarted |-> firmwareStarted \/ tried # {}, temporary |-> TemporaryFirmware,
                        completed |-> CompletedStages(told), issue |-> StartupIssue(CompletedStages(told))]
    BY <1>2 DEF ReportFailure
  <2>3. CompletedStages(told) = completed /\ completed \in Nat
    BY <2>2, StageAssumption DEF TellsOf, CompletedStages, PioneerInv, PioneerTypes
  <2>4. /\ report'.kind = "failed" /\ report'.completed = completed
        /\ report'.progress = FailureProgress(completed)
        /\ report'.issue = StartupIssue(completed) /\ report'.temporary = TemporaryFirmware
    BY <2>2, <2>3
  <2>5. report' # None
    <3>1. FailureProgress(completed) \in Progress /\ TemporaryFirmware \in BOOLEAN
      BY DEF FailureProgress, Progress, TemporaryFirmware
    <3>2. StartupIssue(completed) \in {"none", "StartupSettingRestored", "StartupSettingUncertain"}
      BY DEF StartupIssue
    <3>3. report' \in Report
      BY <2>2, <2>3, <3>1, <3>2 DEF Report
    <3> QED BY <3>3, NoneAssumption
  <2>6. StartupIssue(completed) # "none" => reached = "nothing"
    BY DEF StartupIssue, PioneerInv, FlagsAreTrue, PioneerTypes
  <2>7. /\ \A s \in changed : s \in Settings
        /\ ~firmwareStarted => \A s \in changed : rollback[s] = "Failed"
    BY <2>1 DEF PioneerInv, PioneerTypes, RollbackIsTrue
  <2>8. StartupIssue(completed) = "StartupSettingRestored" => changed = {}
    BY <2>7 DEF StartupIssue
  <2>9. ASSUME Impact(report') = "Blocked", changed # {}
        PROVE  StartupIssue(completed) = "StartupSettingUncertain"
    <3>1. FailureProgress(completed) = "Preflight"
      BY <2>4, <2>9 DEF Impact
    <3>2. ~firmwareStarted /\ ~(completed > 0)
      BY <3>1, <2>3 DEF FailureProgress
    <3> QED BY <2>7, <2>9, <3>2 DEF StartupIssue
  <2>10. (Impact(report))' = Impact(report')
    BY DEF Impact
  <2> QED BY <2>1, <2>4, <2>5, <2>6, <2>8, <2>9, <2>10
<1>3. ASSUME ~StageCompletes, ~ReportFailure, PioneerNext
      PROVE  UNCHANGED <<report, completed, total>> /\ step # "done" /\ step' # "done"
  <2> USE DEF plan, library, runtime, drive, Goto, Fail
  <2>1. CASE \E s \in Settings : ChangeSetting(s)
    BY <2>1 DEF ChangeSetting
  <2>2. CASE \E r \in Roles : Transfer(r) \/ Verify(r)
    BY <2>2 DEF Transfer, Verify, Roles
  <2>3. CASE SettingsChanged \/ CheckStage \/ Announce \/ Enter
    BY <2>3 DEF SettingsChanged, CheckStage, Announce, Enter
  <2>4. CASE Finish \/ ConfirmStartup \/ Rollback
    BY <2>4 DEF Finish, ConfirmStartup, Rollback
  <2> QED BY <1>3, <2>1, <2>2, <2>3, <2>4 DEF PioneerNext
<1>4. CASE ~StageCompletes /\ ~ReportFailure /\ PioneerNext
  BY <1>3, <1>4 DEF PioneerInv
<1>5. CASE UNCHANGED pioneerVars
  BY <1>5 DEF PioneerInv, pioneerVars, plan, drive, Impact
<1> QED BY <1>1, <1>2, <1>4, <1>5

-----------------------------------------------------------------------------
\* The inductive invariant: the types, what the flags, the undone settings and the
\* verification know of the drive, and the truth of the report, for any plan
\* (pioneer/flash.rs: Runtime, execution_error).
THEOREM PioneerInvariant == PioneerSpec => []PioneerInv
<1>1. PioneerInv /\ [PioneerNext]_pioneerVars => PioneerInv'
  BY TypesKept, FactsAreKept, ReportIsKept DEF PioneerInv, FactsKept, ReportKept
<1> QED BY <1>1, InitialReport, PTL DEF PioneerSpec

\* What a failure says of the startup settings is so (execution_error).
THEOREM SettingsGuidanceIsTrue == PioneerSpec => []GuidanceIsTrue
<1>1. PioneerInv => GuidanceIsTrue
  BY DEF PioneerInv
<1> QED BY <1>1, PioneerInvariant, PTL

\* No completed stage is missing from a report, and what is reported as matched or
\* confirmed is held whole (execution_error, check_stage, Runtime::starting, verified).
THEOREM ReportsAreOfTheStages == PioneerSpec => []ReportIsOfTheStages
<1>1. PioneerInv => ReportIsOfTheStages
  BY DEF PioneerInv, ReportIsOfTheStages
<1> QED BY <1>1, PioneerInvariant, PTL

-----------------------------------------------------------------------------
LEMMA RunsHold == Runs \in Shown!Holds /\ Runs' \in Shown!Holds
  BY DEF Runs, Shown!Holds

LEMMA StepImplements ==
    PioneerInv /\ PioneerInv' /\ [PioneerNext]_pioneerVars => [Shown!ReportNext]_(Shown!reportVars)
<1> SUFFICES ASSUME PioneerInv, PioneerInv', [PioneerNext]_pioneerVars
             PROVE  Shown!ReportNext \/ UNCHANGED <<reached, Runs, Said>>
  BY DEF Shown!reportVars
<1>0. step # "done" => Said = "nothing" /\ report = None
  BY DEF Said, PioneerInv
<1>1. CASE Enter
  <2>1. /\ step = "entry" /\ total' = total /\ requested' = requested /\ holds' = holds /\ report' = report
        /\ reached' \in {reached, IF reached = "payload" THEN reached ELSE "entry"}
    BY <1>1 DEF Enter, plan
  <2>2. Runs' = Runs /\ Said' = Said
    BY <2>1 DEF Runs, Said, Impact
  <2> QED BY <1>0, <2>1, <2>2 DEF Shown!ReportNext, Shown!Enter, PioneerInv, PioneerTypes
<1>2. ASSUME NEW r \in Roles, Transfer(r) PROVE Shown!ReportNext \/ UNCHANGED <<reached, Runs, Said>>
  <2>1. step # "done" /\ total' = total /\ requested' = requested /\ report' = report
    BY <1>2 DEF Transfer, plan, Roles
  <2>2. CASE reached' = "payload"
    <3>1. Said' = Said
      BY <2>1 DEF Said, Impact
    <3> QED BY <1>0, <2>1, <2>2, <3>1, RunsHold DEF Shown!ReportNext, Shown!Write
  <2>3. CASE reached' # "payload"
    <3>1. UNCHANGED <<reached, holds>>
      BY <1>2, <2>3 DEF Transfer
    <3> QED BY <2>1, <3>1 DEF Runs, Said, Impact
  <2> QED BY <2>2, <2>3
<1>3. CASE Finish
  <2>1. step = "finish" /\ report' = report /\ reached' = "payload"
    BY <1>3 DEF Finish, PioneerInv, FlagsAreTrue
  <2>2. Said' = Said
    BY <2>1 DEF Said, Impact
  <2> QED BY <1>0, <2>1, <2>2, RunsHold DEF Shown!ReportNext, Shown!Write
<1>4. CASE StageCompletes
  <2>1. /\ step = "confirm" /\ startup /\ total' = total /\ requested' = requested
        /\ holds' = holds /\ reached' = reached /\ Runs' = Runs
    BY <1>4 DEF StageCompletes, plan, drive, Runs
  <2>2. CASE report' = report
    BY <2>1, <2>2 DEF Said, Impact
  <2>3. CASE report' # report
    <3>1. /\ Image = total \/ Image > total
          /\ report' = [kind |-> "completed", progress |-> "UploadComplete", writeStarted |-> TRUE,
                        temporary |-> FALSE, completed |-> Image, issue |-> "none"]
      BY <1>4, <2>3, StageAssumption, ImageIsAStage, <2>1 DEF StageCompletes, PioneerInv, PioneerTypes
    <3>2. Image = total /\ total \in Nat /\ total # 0
      BY <2>1, <3>1, ImageIsAStage, StageAssumption DEF PioneerInv, PioneerTypes
    <3>3. \A r \in requested : holds[r] = total
      BY <2>1, <3>2 DEF PioneerInv
    <3>4. Runs = "target"
      BY <3>2, <3>3 DEF Runs, PioneerInv
    <3>5. Said' = "Completed"
      <4>1. report' # None
        BY <2>1, <2>3 DEF PioneerInv
      <4> QED BY <3>1, <4>1 DEF Said, Impact
    <3> QED
      BY <1>0, <2>1, <3>4, <3>5
         DEF Shown!ReportNext, Shown!Say, Shown!Consequences, Shown!True
  <2> QED BY <2>2, <2>3
<1>5. CASE ReportFailure
  <2>1. /\ step = "failed" /\ total' = total /\ requested' = requested
        /\ holds' = holds /\ reached' = reached /\ Runs' = Runs /\ completed' = completed
    BY <1>5 DEF ReportFailure, plan, drive, Runs
  <2>2. PICK told \in 0 .. completed :
          /\ TellsOf(told)
          /\ report' = [kind |-> "failed", progress |-> FailureProgress(CompletedStages(told)),
                        writeStarted |-> firmwareStarted \/ tried # {}, temporary |-> TemporaryFirmware,
                        completed |-> CompletedStages(told), issue |-> StartupIssue(CompletedStages(told))]
    BY <1>5 DEF ReportFailure
  <2>3. CompletedStages(told) = completed /\ completed \in Nat /\ total \in Nat \ {0}
    BY <2>2, StageAssumption DEF TellsOf, CompletedStages, PioneerInv, PioneerTypes
  <2>4. /\ report'.kind = "failed" /\ report'.progress = FailureProgress(completed)
        /\ report'.temporary = TemporaryFirmware /\ report' # None
    <3>1. report' # None
      BY <1>5 DEF ReportFailure, Goto, PioneerInv
    <3> QED BY <2>2, <2>3, <3>1
  <2>5. Said' = IF TemporaryFirmware THEN "TemporaryFirmware"
                ELSE IF FailureProgress(completed) = "Preflight" THEN "Blocked" ELSE "PayloadUncertain"
    BY <2>4 DEF Said, Impact
  <2>6. CASE Said' = "TemporaryFirmware"
    BY <1>0, <2>1, <2>6 DEF Shown!ReportNext, Shown!Say, Shown!Consequences, Shown!True
  <2>7. CASE Said' = "Blocked"
    <3>1. reached = "nothing"
      BY <2>5, <2>7 DEF FailureProgress, PioneerInv, FlagsAreTrue, PioneerTypes
    <3> QED BY <1>0, <2>1, <2>7, <3>1 DEF Shown!ReportNext, Shown!Say, Shown!Consequences, Shown!True
  <2>8. CASE Said' = "PayloadUncertain"
    <3>1. ~TemporaryFirmware /\ FailureProgress(completed) # "Preflight"
      BY <2>5, <2>8
    <3>2. firmwareStarted
      BY <2>3, <3>1 DEF FailureProgress, PioneerInv, FlagsAreTrue
    <3>3. total = 1
      BY <2>3, <3>1, <3>2 DEF TemporaryFirmware
    <3>4. Runs # "temporary"
      BY <3>3 DEF Runs
    <3> QED BY <1>0, <2>1, <2>8, <3>4 DEF Shown!ReportNext, Shown!Say, Shown!Consequences, Shown!True
  <2> QED BY <2>5, <2>6, <2>7, <2>8
<1>6. ASSUME UNCHANGED <<total, requested, holds, reached, report>>
      PROVE  UNCHANGED <<reached, Runs, Said>>
  BY <1>6 DEF Runs, Said, Impact
<1>7. CASE (\E s \in Settings : ChangeSetting(s)) \/ SettingsChanged \/ CheckStage \/ Announce
  BY <1>6, <1>7 DEF ChangeSetting, SettingsChanged, CheckStage, Announce, plan, drive
<1>8. CASE (\E r \in Roles : Verify(r)) \/ ConfirmStartup \/ Rollback
  BY <1>6, <1>8 DEF Verify, ConfirmStartup, Rollback, plan, drive
<1>9. CASE UNCHANGED pioneerVars
  BY <1>6, <1>9 DEF pioneerVars, plan, drive
<1> QED
  BY <1>1, <1>2, <1>3, <1>4, <1>5, <1>7, <1>8, <1>9 DEF PioneerNext

\* Every step of the executor is a step, or a stutter, of UpdateReport: the
\* consequence reported is never milder than what the drive has seen and holds.
THEOREM PioneerReportsAreNotMild == PioneerSpec => ImplementsUpdateReport
<1>1. PioneerInit => Shown!ReportInit
  BY DEF PioneerInit, Shown!ReportInit, Runs, Said, Roles
<1> QED
  BY <1>1, PioneerInvariant, StepImplements, PTL DEF PioneerSpec, ImplementsUpdateReport, Shown!ReportSpec
=============================================================================
