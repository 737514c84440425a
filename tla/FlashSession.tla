------------------------------ MODULE FlashSession ------------------------------
(***************************************************************************)
(* One optical drive, the host directory its backups go to, the operator   *)
(* at the tray, and a flasher process that runs flash sessions against it: *)
(* workflow::flash / engine::flash of the crate freemkv-flash, from the    *)
(* request to the result.                                                  *)
(*                                                                         *)
(* A session is a straight line of gates; each action below is one of      *)
(* them, in the order of the code.  Between two gates the operator may     *)
(* move the tray, another program may create a file and the process may    *)
(* die.  The backend executor is abstracted to what the session can        *)
(* observe of it: nothing sent, an update command sent, payload sent,      *)
(* finished.  MtkUpdate and PioneerUpdate open that box.                   *)
(***************************************************************************)
EXTENDS Naturals, FiniteSets

CONSTANTS
    Firmware,     \* the images a user can select and a drive can run
    Drives,       \* those of them a drive can have been built with
    Requests,     \* what callers may ask, a subset of Request
    BackendOf,    \* [Firmware -> {"mtk", "pioneer"}], the protocol they speak
    FamilyOf,     \* [Firmware -> hardware families \cup {Unknown}]
    PlatformOf,   \* [Firmware -> what the identity descriptor tells of it]
    SameModel,    \* pairs <<image, running>>: image is built for that model
    Unknown,      \* a family the image does not prove
    NoFirmware,   \* no Current reference was supplied
    Damaged,      \* the drive holds no complete image
    Paths,        \* numbered backup destinations, 0 .. n
    NoPath,       \* no destination
    Absent, Foreign, Partial,   \* what a path can hold besides a backup
    NoBackup, NoResult,
    MaxSessions,  \* bound: sessions of one behaviour
    MaxForeign    \* bound: files other programs create

Families == {FamilyOf[f] : f \in Firmware} \ {Unknown}

ASSUME FirmwareAssumption ==
    /\ BackendOf \in [Firmware -> {"mtk", "pioneer"}]
    /\ DOMAIN FamilyOf = Firmware
    /\ DOMAIN PlatformOf = Firmware
    /\ SameModel \subseteq Firmware \X Firmware
    /\ \A f \in Firmware : <<f, f>> \in SameModel
    /\ Drives \subseteq Firmware
    /\ NoFirmware \notin Firmware
    /\ Damaged \notin Firmware

\* A family hash covers the platform, so equal families have equal platforms.
ASSUME FamilyAssumption ==
    \A f, g \in Firmware :
        FamilyOf[f] # Unknown /\ FamilyOf[f] = FamilyOf[g] => PlatformOf[f] = PlatformOf[g]

\* What a capture of the installed firmware yields; "complete" is whether it
\* holds every region that the update overwrites.
Capture == [fw : Firmware, complete : BOOLEAN]

ASSUME HostAssumption ==
    /\ Paths \subseteq Nat
    /\ NoPath \notin Paths
    /\ {Absent, Foreign, Partial, NoBackup} \cap Capture = {}
    /\ Absent # Foreign /\ Absent # Partial /\ Foreign # Partial
    /\ MaxSessions \in Nat /\ MaxForeign \in Nat

Progress == {"Preflight", "EntryAttempted", "PayloadAttempted"}
Result == [kind : {"Planned", "Completed", "Failed"}, progress : Progress,
           writeStarted : BOOLEAN]

ASSUME ResultAssumption == NoResult \notin Result

Tray == {"ClosedEmpty", "DiscPresent", "TrayOpen"}

Request == [via : {"workflow", "library"},     \* which public function was called
            execute : BOOLEAN, acknowledged : BOOLEAN,
            input : Firmware, current : Firmware \cup {NoFirmware},
            asks : BOOLEAN,                    \* Confirm::asks_every_flash
            backup : Paths \cup {NoPath}]      \* an explicit destination

ASSUME RequestAssumption == Requests \subseteq Request

VARIABLES
    tray, installed,   \* the drive: medium state, running firmware
    factory,           \* the firmware the drive was built with: its hardware
    files,             \* the backup directory
    pc,                \* the next gate, "idle" between sessions
    req, dest,         \* the request and the backup destination
    verdict,           \* "SameModel", "Crossflash" or "none"
    captured, saved,   \* the bytes read from the drive; the SavedBackup
    waived, agreed,    \* answers to the two questions of trait Confirm
    result,            \* the session's Result
    \* history, read by no action:
    rechecked,         \* the tray was seen closed and empty after the last question
    touched,           \* a firmware-update command reached the drive
    before,            \* what was installed when the session started
    sessions,          \* how many sessions were started
    replaced,          \* the images that sessions with a backup have overwritten
    unproven           \* some session wrote without a backup

drive == <<tray, installed, factory>>
session == <<req, dest, verdict, captured, saved, waived, agreed>>
ledger == <<sessions, replaced, unproven>>
history == <<rechecked, touched, before, ledger>>
vars == <<drive, files, pc, session, result, history>>

Writing == {"execute", "entered", "sending"}
Granted == {"grant"} \cup Writing
Consented == {"finalTray"} \cup Granted
Authorized == {"confirm"} \cup Consented
Secured == {"authorize"} \cup Authorized          \* a backup is saved, or waived
Acknowledged == {"preflight", "backup", "save", "verify", "waive"} \cup Secured
Early == {"input", "capability", "destination", "tray", "plan", "dryRun", "risk"}

-----------------------------------------------------------------------------
(* The two registered backends, as far as the engine asks them. *)

MtkFacet == [canProceedWithoutBackup |-> TRUE, acceptsCurrent |-> TRUE,
             dryRunUsesDevice |-> TRUE, wordsConfirmation |-> FALSE]
PioneerFacet == [canProceedWithoutBackup |-> FALSE, acceptsCurrent |-> FALSE,
                 dryRunUsesDevice |-> FALSE, wordsConfirmation |-> TRUE]
Backend == BackendOf[factory]
Facet == IF Backend = "mtk" THEN MtkFacet ELSE PioneerFacet

KnownAndEqual(f, g) == FamilyOf[f] # Unknown /\ FamilyOf[f] = FamilyOf[g]

\* workflow::check_supplied_family: only proven disagreement refuses.
SuppliedFamilyAgrees(current, target) ==
    current # NoFirmware =>
        /\ BackendOf[current] = BackendOf[target]
        /\ Unknown \notin {FamilyOf[current], FamilyOf[target]} =>
             FamilyOf[current] = FamilyOf[target]

\* Mtk: another model needs a known family and the descriptor's platform; the
\* running firmware's own family is not known before its backup is read.
MtkVerdict(image, running) ==
    IF <<image, running>> \in SameModel THEN "SameModel"
    ELSE IF FamilyOf[image] # Unknown /\ PlatformOf[image] = PlatformOf[running]
         THEN "Crossflash" ELSE "none"

\* A mutant: the saved file is taken for a complete one.
MtkAuthorizesAnyBackup(image, planned, backup) ==
    IF backup = NoBackup THEN planned = "SameModel" ELSE KnownAndEqual(backup.fw, image)

\* Mtk::authorize_bytes: without a backup only a same-model update remains;
\* with one it must serve as the installed firmware, in the image's family,
\* and a crossflash is decided again on it, both ways.
MtkAuthorizes(image, planned, backup) ==
    IF backup = NoBackup THEN planned = "SameModel"
    ELSE /\ backup.complete
         /\ KnownAndEqual(backup.fw, image)
         /\ planned = "Crossflash" =>
              /\ MtkVerdict(image, backup.fw) = planned
              /\ MtkVerdict(backup.fw, image) = "Crossflash"

\* A mutant: the installed firmware is read and not compared.
PioneerAuthorizesAnyFamily(image, backup) == backup # NoBackup

\* Pioneer: the installed firmware must be read and its family known and equal.
PioneerAuthorizes(image, backup) ==
    backup # NoBackup /\ KnownAndEqual(backup.fw, image)

Authorizes(image, planned, backup) ==
    IF Backend = "mtk" THEN MtkAuthorizes(image, planned, backup)
    ELSE PioneerAuthorizes(image, backup)

-----------------------------------------------------------------------------
Init ==
    /\ factory \in Drives /\ installed = factory
    /\ tray = "ClosedEmpty"
    /\ files = [p \in Paths |-> Absent]
    /\ pc = "idle"
    /\ req \in [via : {"workflow"}, execute : {FALSE}, acknowledged : {FALSE},
                input : {factory}, current : {NoFirmware}, asks : {FALSE},
                backup : {NoPath}]
    /\ dest = NoPath /\ verdict = "none" /\ captured = NoBackup /\ saved = NoBackup
    /\ waived = FALSE /\ agreed = FALSE /\ result = NoResult
    /\ rechecked = FALSE /\ touched = FALSE /\ before = factory
    /\ sessions = 0 /\ replaced = {} /\ unproven = FALSE

\* UpdateFailure::before_write, the evidence of every refusal before execute.
BeforeWrite == [kind |-> "Failed", progress |-> "Preflight", writeStarted |-> FALSE]

End(r) == pc' = "idle" /\ result' = r
Refuse == End(BeforeWrite) /\ UNCHANGED <<drive, files, session, history>>
Goto(gate) == pc' = gate /\ UNCHANGED <<drive, files, result>>

(* A session starts: workflow::flash, or the library's engine::flash. *)
Start(r) ==
    /\ pc = "idle" /\ sessions < MaxSessions
    /\ req' = r /\ result' = NoResult
    /\ dest' = IF r.via = "library" THEN r.backup ELSE NoPath
    /\ verdict' = "none" /\ captured' = NoBackup /\ saved' = NoBackup
    /\ waived' = FALSE /\ agreed' = FALSE
    /\ rechecked' = FALSE /\ touched' = FALSE /\ before' = installed
    /\ sessions' = sessions + 1
    /\ pc' = IF r.via = "workflow" THEN "input" ELSE "capability"
    /\ UNCHANGED <<drive, files, replaced, unproven>>

Free == {p \in Paths : files[p] = Absent}
\* workflow::default_backup_path: the first numbered name that does not exist.
DefaultBackupPath == {p \in Free : \A q \in Free : p <= q}

(* flash_inner's acknowledgement check, then open_flash. *)
OpenFlash ==
    /\ pc = "input"
    /\ \/ Refuse   \* unreadable input, no drive, an unsupported or damaged one
       \/ /\ req.execute => req.acknowledged
          /\ req.current # NoFirmware => Facet.acceptsCurrent
          /\ SuppliedFamilyAgrees(req.current, req.input)
          /\ installed # Damaged
          /\ dest' \in IF req.backup = NoPath THEN DefaultBackupPath ELSE {req.backup}
          /\ Goto("capability")
          /\ UNCHANGED <<req, verdict, captured, saved, waived, agreed, history>>

(* engine::flash: the facet, then the host output check of an execution. *)
Capability ==
    /\ pc = "capability"
    /\ Goto(IF req.execute THEN "destination"
            ELSE IF Facet.dryRunUsesDevice THEN "tray" ELSE "plan")
    /\ UNCHANGED <<session, history>>

DestinationUsable == dest # NoPath /\ files[dest] = Absent

\* A mutant: it waits for the destination to become free.
AwaitBackupPath ==
    pc = "destination" /\ DestinationUsable /\ Goto("tray") /\ UNCHANGED <<session, history>>

RequiredBackupPath ==
    /\ pc = "destination"
    /\ IF DestinationUsable THEN Goto("tray") /\ UNCHANGED <<session, history>> ELSE Refuse

(* plan_flash: guard_no_medium, which only warns on a dry run, ... *)
TrayCheck ==
    /\ pc = "tray"
    /\ \/ Refuse   \* the medium status could not be read, or forbids it
       \/ /\ req.execute => tray = "ClosedEmpty"
          /\ Goto("plan") /\ UNCHANGED <<session, history>>

(* ... and the backend's plan. Pioneer plans from the file alone. *)
Plan ==
    /\ pc = "plan"
    /\ \/ Refuse
       \/ /\ BackendOf[req.input] = Backend
          /\ IF Backend = "mtk"
             THEN /\ installed # Damaged
                  /\ verdict' = MtkVerdict(req.input, installed)
                  /\ verdict' # "none"
             ELSE verdict' = verdict
          /\ Goto(IF req.execute THEN "risk" ELSE "dryRun")
          /\ UNCHANGED <<req, dest, captured, saved, waived, agreed, history>>

DryRun ==
    /\ pc = "dryRun"
    /\ \/ Refuse
       \/ /\ End([kind |-> "Planned", progress |-> "Preflight", writeStarted |-> FALSE])
          /\ UNCHANGED <<drive, files, session, history>>

CheckSafety ==
    /\ pc = "risk"
    /\ IF req.acknowledged THEN Goto("preflight") /\ UNCHANGED <<session, history>> ELSE Refuse

Preflight ==
    /\ pc = "preflight"
    /\ Refuse \/ (Goto("backup") /\ UNCHANGED <<session, history>>)

\* offer_flash_without_backup: the backend's word first, then the operator's.
Offer ==
    IF Facet.canProceedWithoutBackup THEN Goto("waive") /\ UNCHANGED <<session, history>>
    ELSE Refuse

(* capture_required_backup: the destination again, then a read of the drive. *)
CaptureBackup ==
    /\ pc = "backup"
    /\ \/ ~DestinationUsable /\ Refuse
       \/ DestinationUsable /\ Offer
       \/ /\ DestinationUsable /\ installed # Damaged
          /\ \E complete \in BOOLEAN :
               captured' = [fw |-> installed, complete |-> complete]
          /\ Goto("save") /\ UNCHANGED <<req, dest, verdict, saved, waived, agreed, history>>

\* A mutant: the save trusts the destination check that was made before the capture.
SaveBackupOver ==
    /\ pc = "save" /\ pc' = "verify"
    /\ files' = [files EXCEPT ![dest] = captured]
    /\ UNCHANGED <<drive, session, result, history>>

(* save_backup, as BackupSave shows it: an existing file is refused, success *)
(* means a whole file, and an error may still leave a whole one, or without  *)
(* hard links a partial one.                                                 *)
SaveBackup ==
    /\ pc = "save"
    /\ \/ Refuse
       \/ /\ files[dest] = Absent
          /\ files' = [files EXCEPT ![dest] = captured]
          /\ pc' = "verify" /\ UNCHANGED <<drive, session, result, history>>
       \/ /\ files[dest] = Absent
          /\ \E left \in {Partial, captured} : files' = [files EXCEPT ![dest] = left]
          /\ End(BeforeWrite) /\ UNCHANGED <<drive, session, history>>

\* A mutant: no backend verifies the coverage of what it captured.
AcceptBackup ==
    /\ pc = "verify" /\ saved' = captured /\ Goto("authorize")
    /\ UNCHANGED <<req, dest, verdict, captured, waived, agreed, history>>

(* FlashFacet::verify_backup. MediaTek keeps the default and checks later. *)
VerifyBackup ==
    /\ pc = "verify"
    /\ IF Backend = "mtk" \/ captured.complete
       THEN /\ saved' = captured /\ Goto("authorize")
            /\ UNCHANGED <<req, dest, verdict, captured, waived, agreed, history>>
       ELSE Offer

ProceedWithoutBackup ==
    /\ pc = "waive"
    /\ \/ Refuse
       \/ /\ waived' = TRUE /\ Goto("authorize")
          /\ UNCHANGED <<req, dest, verdict, captured, saved, agreed, history>>

Authorize ==
    /\ pc = "authorize"
    /\ \/ Refuse
       \/ /\ Authorizes(req.input, verdict, saved)
          /\ Goto(IF Facet.wordsConfirmation \/ req.asks THEN "confirm" ELSE "finalTray")
          /\ UNCHANGED <<session, history>>

Confirm ==
    /\ pc = "confirm"
    /\ \/ Refuse
       \/ /\ agreed' = TRUE /\ rechecked' = FALSE /\ Goto("finalTray")
          /\ UNCHANGED <<req, dest, verdict, captured, saved, waived, touched, before, ledger>>

\* A mutant: the tray check before the plan is enough.
TrayNotRechecked == pc = "finalTray" /\ Goto("grant") /\ UNCHANGED <<session, history>>

FinalTrayCheck ==
    /\ pc = "finalTray"
    /\ \/ Refuse
       \/ /\ tray = "ClosedEmpty" /\ rechecked' = TRUE /\ Goto("grant")
          /\ UNCHANGED <<session, touched, before, ledger>>

(* gates::flash, which takes the backup and does not look at it. *)
Grant ==
    /\ pc = "grant"
    /\ IF req.execute /\ req.acknowledged THEN Goto("execute") /\ UNCHANGED <<session, history>>
       ELSE Refuse

-----------------------------------------------------------------------------
(* FlashFacet::execute, abstracted. *)

AfterWrite(progress) == [kind |-> "Failed", progress |-> progress, writeStarted |-> TRUE]

\* MediaTek revalidates the receiver, Pioneer guards the tray of every stage
\* and may have changed a startup setting, which is not an update command.
EnterUpdate ==
    /\ pc = "execute"
    /\ \/ Refuse
       \/ /\ Backend = "pioneer"
          /\ End(AfterWrite("Preflight"))
          /\ UNCHANGED <<drive, files, session, history>>
       \/ /\ touched' = TRUE /\ Goto("entered")
          /\ UNCHANGED <<session, rechecked, before, ledger>>

SendPayload ==
    /\ pc = "entered"
    /\ installed' = Damaged /\ pc' = "sending"
    /\ IF saved = NoBackup THEN unproven' = TRUE /\ replaced' = replaced
       ELSE unproven' = unproven /\ replaced' = replaced \cup {installed}
    /\ UNCHANGED <<tray, factory, files, session, result, rechecked, touched, before, sessions>>

\* A mutant: a failed entry is reported as a refusal.
EntryFailsAsRefusal == pc = "entered" /\ Refuse

\* The entry command was sent and its failure reported: MediaTek tells it from
\* a payload, Pioneer does not.
EntryFails ==
    /\ pc = "entered"
    /\ End(AfterWrite(IF Backend = "mtk" THEN "EntryAttempted" ELSE "PayloadAttempted"))
    /\ UNCHANGED <<drive, files, session, history>>

\* A failed update may still have programmed the image: only its start is unproven.
UpdateFails ==
    /\ pc = "sending"
    /\ End(AfterWrite("PayloadAttempted"))
    /\ installed' \in {Damaged, req.input}
    /\ UNCHANGED <<tray, factory, files, session, history>>

UpdateCompletes ==
    /\ pc = "sending"
    /\ End([kind |-> "Completed", progress |-> "PayloadAttempted", writeStarted |-> TRUE])
    /\ installed' = req.input
    /\ UNCHANGED <<tray, factory, files, session, history>>

-----------------------------------------------------------------------------
(* The environment. *)

MoveTray == \E t \in Tray \ {tray} :
    /\ tray' = t
    /\ UNCHANGED <<installed, factory, files, pc, session, result, history>>

OtherProgramCreates(p) ==
    /\ files[p] = Absent
    /\ Cardinality({q \in Paths : files[q] = Foreign}) < MaxForeign
    /\ files' = [files EXCEPT ![p] = Foreign]
    /\ UNCHANGED <<drive, pc, session, result, history>>

\* The process dies. While it saves, its file can be left whole, or in part on
\* a filesystem without hard links.
Crash ==
    /\ pc # "idle" /\ End(NoResult)
    /\ \/ UNCHANGED files
       \/ /\ pc = "save" /\ files[dest] = Absent
          /\ \E left \in {Partial, captured} : files' = [files EXCEPT ![dest] = left]
    /\ UNCHANGED <<drive, session, history>>

Step ==
    \/ OpenFlash \/ Capability \/ RequiredBackupPath \/ TrayCheck \/ Plan \/ DryRun
    \/ CheckSafety \/ Preflight \/ CaptureBackup \/ SaveBackup \/ VerifyBackup
    \/ ProceedWithoutBackup \/ Authorize \/ Confirm \/ FinalTrayCheck \/ Grant
    \/ EnterUpdate \/ SendPayload \/ EntryFails \/ UpdateFails \/ UpdateCompletes

Next ==
    \/ \E r \in Requests : Start(r)
    \/ Step
    \/ MoveTray
    \/ \E p \in Paths : OtherProgramCreates(p)
    \/ Crash

Spec == Init /\ [][Next]_vars

\* A session is one synchronous call: it runs on, and the operator answers.
FairSpec == Spec /\ WF_vars(Step)

-----------------------------------------------------------------------------
(* What the module promises. *)

TypeOK ==
    /\ tray \in Tray /\ factory \in Firmware /\ installed \in Firmware \cup {Damaged}
    /\ files \in [Paths -> Capture \cup {Absent, Foreign, Partial}]
    /\ pc \in {"idle"} \cup Early \cup Acknowledged
    /\ req \in Request /\ dest \in Paths \cup {NoPath}
    /\ verdict \in {"SameModel", "Crossflash", "none"}
    /\ captured \in Capture \cup {NoBackup} /\ saved \in Capture \cup {NoBackup}
    /\ waived \in BOOLEAN /\ agreed \in BOOLEAN
    /\ result \in Result \cup {NoResult}
    /\ rechecked \in BOOLEAN /\ touched \in BOOLEAN
    /\ before \in Firmware \cup {Damaged} /\ sessions \in Nat
    /\ replaced \subseteq Firmware /\ unproven \in BOOLEAN

MustAsk == Facet.wordsConfirmation \/ req.asks

\* No update command reaches the drive unless the caller asked for writes,
\* acknowledged the risk, agreed to the authorized plan wherever somebody has
\* to be asked, the tray was seen closed and empty after that answer, and a
\* rollback was saved or its absence waived where the backend permits it.
\* (engine.rs: flash, in whatever order its gates are written.)
GatedWrite ==
    touched =>
        /\ req.execute /\ req.acknowledged /\ rechecked
        /\ MustAsk => agreed
        /\ saved # NoBackup \/ (waived /\ Facet.canProceedWithoutBackup)

Archived(f) == \E p \in Paths : files[p] = [fw |-> f, complete |-> TRUE]

\* An image that a session with a backup has overwritten can be put back: a
\* complete copy of exactly that image is on disk, through later sessions,
\* crashes and failed updates. (engine.rs: capture_required_backup, flash;
\* workflow.rs: default_backup_path.)
RollbackKept == \A f \in replaced : Archived(f)

\* As long as no session has written without a backup, the drive only ever runs
\* images of the hardware family it was built with, whatever the operator
\* selects and however often. (mtk/flash.rs: authorize_bytes;
\* pioneer/mod.rs: authorize_installed_context.)
FamilyKept ==
    ~unproven /\ installed # Damaged => installed = factory \/ KnownAndEqual(installed, factory)

\* While a crossflash writes, what it replaced is saved complete and would be
\* admitted back, as a crossflash, on a drive that runs the target.
\* (mtk/flash.rs: authorize_crossflash; mtk/crossflash.rs: decide_rollback.)
CrossflashReversible ==
    pc \in Writing /\ Backend = "mtk" /\ verdict = "Crossflash" =>
        /\ saved # NoBackup /\ Archived(saved.fw)
        /\ MtkAuthorizes(saved.fw, MtkVerdict(saved.fw, req.input),
                         [fw |-> req.input, complete |-> TRUE])

\* A failure reported as stopped before the drive (UpdateImpact::Blocked) left
\* the firmware alone: no update command was sent and the image is unchanged.
\* (backend/mod.rs: UpdateFailure::before_write, impact.)
BlockedMeansUntouched ==
    result # NoResult /\ result.kind = "Failed" /\ result.progress = "Preflight"
        => ~touched /\ (pc = "idle" => installed = before)

\* No step of a session, a crash of it included, changes or removes a file that
\* exists, its own earlier backups included. (engine.rs: required_backup_path,
\* and again in capture_required_backup; engine/backup.rs.)
FilesKept == [][\A p \in Paths : files[p] # Absent => files'[p] = files[p]]_vars

\* The strengthening of the invariants above that is inductive: what each gate
\* hands to the next ones.
SameHardware(f) == f = factory \/ KnownAndEqual(f, factory)

GateInv ==
    /\ pc \in {"destination", "risk"} \cup Acknowledged => req.execute
    /\ pc \in Acknowledged => req.acknowledged
    /\ pc \in Consented /\ MustAsk => agreed
    /\ pc \in Granted => rechecked
    /\ pc \in {"entered", "sending"} => touched
    /\ touched => pc \in {"idle", "entered", "sending"}
    /\ pc = "sending" => installed = Damaged
    /\ pc # "idle" /\ pc # "sending" => installed = before
    /\ pc # "idle" => result = NoResult

BackupInv ==
    /\ pc \in {"save", "verify"} =>
        /\ captured \in Capture /\ dest \in Paths
        /\ captured.fw = installed
    /\ pc = "verify" => files[dest] = captured
    /\ pc # "idle" /\ pc \notin Secured => saved = NoBackup
    /\ pc = "waive" => Facet.canProceedWithoutBackup
    /\ pc \in Secured /\ saved # NoBackup =>
        /\ \E p \in Paths : files[p] = saved
        /\ Backend = "pioneer" => saved.complete
        /\ pc # "sending" => saved.fw = installed
        /\ ~unproven => SameHardware(saved.fw)
    /\ pc \in Secured /\ saved = NoBackup => waived /\ Facet.canProceedWithoutBackup
    /\ pc \in Authorized => Authorizes(req.input, verdict, saved)
    /\ pc = "sending" /\ saved = NoBackup => unproven

SessionInv ==
    /\ TypeOK /\ GateInv /\ BackupInv
    /\ GatedWrite /\ RollbackKept /\ FamilyKept /\ BlockedMeansUntouched

\* What engine/gates.rs says of the grant: "a flash grant requires" the
\* SavedBackup. A waiver makes it false.
GrantHasBackup == pc \in Writing => saved # NoBackup

\* Every session ends, whatever the tray does and the operator answers: no gate
\* waits for a condition, each refuses. (engine.rs: flash.)
SessionsEnd == pc # "idle" ~> pc = "idle"

\* The session is a gated update: the drive's firmware, the complete backups on
\* disk, and an update that is armed once the last gate before the grant passed.
Gated == INSTANCE GatedUpdate WITH
    firmware <- installed,
    archive <- {f \in Firmware : Archived(f)},
    armed <- IF pc \in {"grant"} \cup Writing
             THEN IF saved # NoBackup THEN "rollback" ELSE "waived"
             ELSE "no"

\* Gates, saves, crashes and failures included, a session never does to drive
\* and disk what the abstract update does not allow. (engine.rs: flash.)
ImplementsGatedUpdate == Gated!GatedSpec
=============================================================================
