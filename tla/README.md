# freemkv-firmware in TLA+

`freemkv-firmware` reads, backs up, patches and reprograms the firmware of
optical drives. A mistake in it bricks a drive, so this directory holds a model
of the parts that decide when a drive may be written and with what, what is kept
to undo the write, what the user is told, and what a patched drive does; its
model checking with TLC; and proofs of its main properties with TLAPS.

Paths below are relative to `src/crates/freemkv-flash/src/` unless they start
with a crate's name.

## 1. The system

| Component | State it keeps | Operations | What makes it correct |
|---|---|---|---|
| **Flash session** `engine.rs`, `engine/gates.rs`, `workflow.rs` | the request, the plan with its verdict, the captured bytes, the `SavedBackup`, the answers of `Confirm` | `flash`, `preview_flash`, `open_flash`, `capture_required_backup`, `offer_flash_without_backup`, `gates::flash` | no write without its gates, on a state that is still so; a rollback of whatever is overwritten; never out of the hardware's family |
| **Backup publication** `engine/backup.rs` | a temporary file, the destination | `save_backup`, `save_validated`, `save_validated_with_replace`, `publish_no_clobber` | atomic, durable when it says so, never over another file without consent |
| **Backend trait, evidence** `backend/mod.rs` | `UpdateFailure`, `UpdateProgress` | facets, device wrappers, `impact` | a failure is never shown milder than it is |
| **MediaTek executor** `backends/mtk/flash.rs`, `recovery.rs`, `transport.rs` | flags of the transport, `Runtime`, completed stages | `plan`, `authorize`, `execute`, `execute_stage`, recovery `execute` | evidence is true in every stage; the final image only over the confirmed intermediate one |
| **MediaTek crossflash** `backends/mtk/crossflash.rs` | none | `decide_plan`, `decide_authorized`, `decide_rollback` | an admitted crossflash can be reversed |
| **Pioneer admission** `backends/pioneer/{mod,flash_plan,normal_prepare,receiver,recovery}.rs`, `crossflash.rs` | the parts of a file, the evidence of the drive | `execute_plan`, `verify_coverage`, `authorize`, `prepare`, the catalogue of routes | what is sent can be received, is of the drive's family, is what the file holds |
| **Pioneer executor** `backends/pioneer/flash.rs` | `Runtime`: stages, `UpdateVerification`; settings changed | `execute`, `execution_error` | guidance on startup settings, stage counts and readback results are true |
| **Pioneer bank backup** `backends/pioneer/bank_backup.rs` | directories, the archive | `persist`, `persist_bridge` | a receipt only for durable bytes |
| **Readers** `probe.rs`, `backends/mtk/fwdump.rs`, `backends/pioneer/backup.rs` | the image so far, gaps, passes | the memory sweep, the two-pass capture | every byte in its place, gaps told, only agreed bytes archived |
| **Prepared recovery** `workflow.rs` | `Arc<Mutex<Option<RecoverySession>>>` | `prepare_recovery`, `execute_recovery` | runs at most once, on the drive it was prepared for |
| **Detection, registry** `backend/{detection,registry}.rs` | none | `detect`, `resolve`, `recognize` | one backend per drive, none when in doubt |
| **Platform adapter** `platform/` | an open device | commands, `medium_status` | a write is never sent twice; a tray that cannot be told is not empty |
| **Inspection** `inspection/` | a cancellation flag | `inspect`, `compare` | the result is of its sources; a cancelled analysis asks no more of a drive |
| **GUI session** `freemkv-flash-gui/src/ui.rs`, `ops.rs` | selections, sheets, the worker's channel, the prepared recovery | `dispatch`, `start_job`, `poll`, `confirm` | consent and override are for what runs; late results change nothing that moved on; what is said of an update is true |
| **GUI shells** `freemkv-flash-gui/src/{windows,linux,mac,egui_shell}.rs` | the dialog on the screen, a timer, a latch | rendering of sheets, responses of dialogs | every sheet gets its dialog, no dialog answers another sheet |
| **Support reports** `freemkv-flash-gui/src/support.rs`, `support/submission.rs` | retained firmware, the upload | `retain_firmware`, `bundle_checked`, `submit` | what is told of a report agrees with what the server has |
| **Patcher** `freemkv-fw/src/engine/`, `api.rs` | free code space, hooks, the settings record | `modify_with_defaults`, `boot::update` | the report, the record and the image agree |
| **Patched drive** the code `freemkv-fw/src/engine/core.rs` emits, `abi.rs` | a byte per feature, a block in flash, grants | the vendor command, the boot hook, the stubs | the bypass leaves nothing behind; saved settings are those that were saved |
| **Patcher's window** `freemkv-fw-gui` | the selection, the analysis, the form | `analyze`, `create` | the form offers what will be built |

How they interact: a front-end (CLI or GUI) calls the workflow with a `Confirm`
to answer its questions. The workflow opens the device, resolves a backend and
calls the engine, which walks through its gates, calling the backend's
`FlashFacet` between them, the backup publication once and the front-end up to
twice. The executors drive an external library (`mediatek_optical`,
`pioneer_optical`) that calls back into a `Runtime`. All of it is one
synchronous call on one thread; the concurrency is with the world: the operator
at the tray, other programs in the backup directory, other instances of this
one, the drive, which may have obeyed a command that failed on the host, and the
end of the process or of the power between any two steps. In the GUI a worker
thread makes the call and reports through a channel, and a native dialog asks
what the worker waits for. The patcher runs apart: it turns a file into a file,
and what it puts into the image runs later in the drive, between hosts that
change its settings and power losses.

`PROJECT.json` lists the components with their status and every hazard with its
line and the properties that cover it.

## 2. The modules

| Module | Models | Checked by |
|---|---|---|
| `FlashSession` | the session, with drive, tray, backup directory and other programs, several sessions in a row | `MCFlashSession` |
| `GatedUpdate` | abstract: firmware is overwritten only while armed by a rollback in the archive or a waiver | refined by `FlashSession` |
| `BackupSave` | the publication, one action per system call, concurrent savers | `MCBackupSave` |
| `AtomicFile` | abstract: an atomic, durable, exclusive publication | refined by `BackupSave` |
| `MtkUpdate` | the MediaTek executors of flash and recovery and their failure report | `MCComponents` |
| `PioneerUpdate` | the Pioneer executor, its settings and stages, its failure report | `MCComponents` |
| `UpdateReport` | abstract: the consequence said is never milder than what the drive saw | refined by both |
| `PioneerPlan` | which firmware a Pioneer drive is given, by Flash, by Recovery and by the catalogue of routes | `MCComponents` |
| `BankBackup` | the archives Pioneer's library asks for before it erases something | `MCComponents` |
| `MemorySweep`, `PioneerCapture` | how firmware is read back from a drive | `MCComponents` |
| `PreparedRecovery` | a prepared recovery, its clones, the drive at the selector | `MCComponents` |
| `Detection` | which backend a drive is given to | `MCComponents` |
| `ScsiCommand`, `MediumProbe` | one command with its retry; the probe of the tray | `MCComponents` |
| `AnalysisSession` | Inspect and Compare, from the sources to the result in the window | `MCComponents`, itself |
| `GuiSession` | the model behind the native shells with its worker threads: inputs, polls, sheets, profile reads, file inspections | `MCGuiSession` |
| `GuiShell` | the four shells' dialogs for the App's sheets | `MCComponents` |
| `SupportReport` | retained firmware and the report sent with it | `MCComponents` |
| `FirmwareBuild` | how a patched image is made: pure operators | through `FirmwareForm` |
| `FirmwareForm` | the window that orders one | `MCComponents` |
| `DriveFlags` | the drive that runs one | `MCComponents` |
| `FlashSessionProofs`, `BackupSaveProofs`, `PioneerPlanProofs`, `GuiSessionProofs`, `FirmwareProofs`, `UpdateProofs` (of `MtkUpdate`, `PioneerUpdate`), `JobProofs` (of `AnalysisSession`, `SupportReport`), `ComponentProofs` (of `PreparedRecovery`, `Detection`, `ScsiCommand`, `MediumProbe`, `BankBackup`, `MemorySweep`, `PioneerCapture`, `DriveFlags`) | theorems | TLAPS |

`MCComponents` puts the components that share no state into one specification:
`part` says which of fifteen components the behaviour is of, the others rest in
one of their initial states. One instance of TLC checks them all.

### FlashSession

One action per gate in the order of `engine::flash`; `pc` names the next one.
`OpenFlash` is the part the workflow adds; a library caller starts at
`Capability`. A gate either passes or refuses with
`UpdateFailure::before_write`. Reasons for which a gate may refuse that no
property tells apart (an unreadable file, a transport error, a "no" of the
operator) are the disjunct `Refuse`. Firmware is a model value with a backend, a
hardware family (which may be unknown), a platform and the models it is built
for. That is all that the decisions of `crossflash.rs`, `authorize_bytes` and
`authorize_installed_context` look at. `factory` is the firmware the drive was
built with, hence its real hardware; no action of the code reads its family,
which the program learns from images only.

`SaveBackup` uses what `BackupSave` shows of the publication: an existing path
is refused, a success is a whole file, an error may leave a whole or a partial
one. Of the executors a session sees four steps: `EnterUpdate`, `SendPayload`, a
failure of either, a completion. A failed update may leave the target programmed
or no complete image at all. Pioneer can report a write although no update
command was sent, when a startup setting was changed; `EnterUpdate` has that
case.

History variables (`rechecked`, `touched`, `before`, `replaced`, `unproven`,
`sessions`) record what the properties speak of. No guard reads them but the
bound on `sessions`.

### BackupSave

Each saver is a call of `save_validated_with_replace` with its own bytes. `data`
is what a reader sees in a file, `synced` the files whose bytes have reached the
disk, `entry` the file the path names and `lasting` all those it may name after
a power loss: every one it named since the directory was last synced. A power
loss picks one of them and may damage any file that was not synced. Process
death loses nothing. Constants choose whether the filesystem has hard links, and
whether the directory is synced (`#[cfg(unix)]`).

### MtkUpdate and PioneerUpdate

The command sequence is in libraries outside this repository. Each is modelled
from what the code here handles: the callbacks into `Runtime`, and the errors
that `execute_stage`, the recovery's `execute` and `execution_error` tell apart.
Every command can be refused on the host, fail with or without an effect on the
drive, or succeed. The definitions that build the report translate the code's
tables of errors line by line. What the drive received and holds is separate
state that no action of the host reads, except through commands that read it
back, and the properties compare the report with it.

### PioneerPlan

A behaviour is one request for one drive and one file: `List` asks the
catalogue, `PlanFlash`, `SaveBackup` and `AuthorizeFlash` are `execute_plan`,
`verify_coverage` and `authorize`, `IdentifyDrive` and `PrepareRecoveryPlan` are
Recovery's `identify` and `prepare`. `Captured` says which components the backup
has (a capture may lack the Normal). The gates are operators of the two pairs,
in the code's order; the first that fails gives `verdict.issue`. A Normal is
encoded for a family of Kernels (`codec`), and `Decoded` by another is garbage
with another sum and no family, which is how a wrong pairing is found at all.
`Prepared` (normal_prepare.rs) re-encodes and signs for the receiving Kernel.
`Conversion` of startup settings depends on the drive's original hardware, so
the plan says which one it `needs`.

What came out beside the properties: the kind of the plan's route (plain, marker
bridge, crossflash) decides nothing but a warning, which a complete stage plan
replaces; both callers of `prepare` require a Normal that decodes, so
re-encoding happens only towards another signature format; Recovery makes no
check of the receiver's policy.

### Readers and archives

`BankBackup` has one action per system call of `persist`: the ancestors that
have to be created, the file (whose own publication is `BackupSave`'s), and one
sync per directory up to the root. `MemorySweep` is the loop of `probe.rs` which
splits chunks that do not read and gives up splitting after too many dead ones,
and the windows of a drive with freemkv firmware. `PioneerCapture` reads each
region twice; a read can return other bytes than the last one without an error.

### PreparedRecovery, Detection, ScsiCommand, MediumProbe

`PreparedRecovery`: the user may exchange the drive at the selector between any
two steps; two drives may answer INQUIRY alike, and a handle whose drive is gone
fails. Calls on clones of one preparation interleave. `Detection`: one action
per command, each of which can be rejected, fail or answer short; for Recovery
the backends are asked one after the other, each with a detection of its own.
`ScsiCommand`: a CHECK CONDITION arrives as an error with its sense or as a
result with a status. `MediumProbe`: the user moves the tray between the
commands of one probe. The comment above `medium_status`
(`platform/adapter.rs:381`) tells of the spin-up as if it always worked; its
failure is ignored at line 473, and a disc that does not spin up is then
reported as an empty drive. `EmptyIsProven` names this exception.

### GuiSession

`App` is one struct on the shell's thread and its handlers call each other, so
`app` is one record and each piece of a handler is a function from an App to an
App; an action is one input (`dispatch`) or one message taken by `poll`. `poll`
drains a channel in a loop; a message may always have been sent late, so one
message per step has the same outcomes. `thread` and `chan` are the job's thread
(`run_job` around `ops::execute`) and its channel: the job may ask two questions
(`SheetConfirm`), panic where that is caught, or panic in the enumeration after
an update, where it is not. What the workflow does in it is `FlashSession`'s;
here it blocks, touches the drive or ends. The profile reader and the file
inspector send one message each, so the state of the reader is enough.

`app.probe` says who started a profile read (`"user"` input or the late
`"reply"` of an inspection), and the fields `ticked`, `consent` and
`overrideFor` record what the operator agreed to; no guard reads these four but
`probe`, which is "none" when no read is under way. A profile is four answers of
the drive: whether it is worth reading again, whether it can be read, whether
flash takes a current file, whether the family check can be overridden.
`ProfileAssumption` says the last implies the second, as in the one backend that
has it; without it `SetProfile` could leave `read` unset under an override. A
path keeps its drive: two drives that change places under one path are
`PreparedRecovery`'s.

### AnalysisSession

The two source slots, the check box that makes both live, the job and the flag
that cancels it. `CancellableDevice` looks at the flag before each command, and
the refusal is an error like any other to the code that asked for the command;
each piece of that code (`detect`, `identity`, `capture`, `live_state`) is an
action that handles it in its own way. What the source says and what is so
differ in three places, none of which a property forbids: a cancelled raw sweep
of a MediaTek drive fills the rest with 0xFF and is saved all the same, a
cancelled Pioneer capture saves the Kernel alone, and a later run on the same
slot is then refused because captures are never overwritten. `inspect_side` does
not ask whether a job runs.

### GuiShell and SupportReport

`GuiShell` has the App's sheet on one side and the dialog on the other. The four
shells differ in how a repaint opens a dialog (a timer behind a latch on
Windows, a response handler in GTK, a completion handler on the Mac, a window
painted in each frame of egui), what a withdrawn sheet does to it, and what a
click answers. `SupportReport` has the file cache, the worker that submits, the
server, which may have accepted an upload whose answer is lost, the user who may
cancel, and restarts of the application.

### FirmwareBuild, FirmwareForm, DriveFlags

`FirmwareBuild` is the patcher without its instructions: the code area is a row
of cells, some erased, some covered by checksums; a hook takes the largest hole
there is; a lever installs all its hooks or none; the report says what was
applied; the record in the image says which settings it supports. What the
analyses recognise in an image is its `found`. Findings of the translation that
no run contradicts: MT1939 swallows `NoCodeSpace`, so the second attempt with
extended coverage never happens for it; on MT1959 a boot hook that cannot be
placed again aborts the whole run, although the comments in `lever.rs` and
`mt1959.rs` (341–345) say that only base prerequisites may; a second attempt
that fails discards a first report that was good; an erased run across the end
of the coverage is never a candidate.

`IsFirmware` says what a file holds, whether the OEM made it or this program:
hooks that are safe, none of them without the handler, and at most one record,
which names the hooks that run. `FilesAssumption` asks it of the files there are
at first; that every job keeps it is part of the proof.

`FirmwareForm`: the job reads the file again. `boot::update` checks only the
choices the user made explicitly, so settings that were read from one file and
are applied to another, modified image with partial "unrestricted" support write
a record which `read_record` then refuses. This takes a file replaced between
analysis and job; `ImageIsAsReported` excludes exactly that case by `job.origin
= job.seen`.

`DriveFlags`: hosts send the vendor command, the drive restarts, the power is
lost in the middle of a program, which leaves any mixture of erased and written
bytes. Every start writes the image's own settings; the saved ones come back
only when a host asks for them. What the model shows and the documentation does
not say: `abi.rs` (195–196) calls Save the only verb that writes flash, but
RESET_TO_OEM writes it too; the window of a SAVE contains the OEM region record
at +0x4B0, which a power loss may take along; on modern images a denied read of
the volume identifier resets the engine whatever the Encryption flag is. The
model is of images that have the stubs of the handshake, for which the builders
require the setter of the grants; an image whose RawRead lever was missed has no
bypass, and the handler of one without the setter clears no grants.

`stub` is the kind of image. The modern ones hook the writer of a refused
handshake (`build_ake_stub`) or the call in which both verdicts meet
(`build_ake_stub_nb`), and reset the engine on a bypass; they reset it after a
denied read too (`build_deny_reset_stub`). The classic MT1939 ones
(`build_ake_stub_classic`, `emit_rawread_classic`) hook the writer of a refusal,
force the grant, and reset nothing; their deny path stays the OEM's. All of them
share the stub of the bare read, which resets. `BypassIsContained` therefore
promises that a bypassed grant ends with the bypass on every image, and that no
bus key is armed beside one on the modern images only: section 5 says what a
classic image does instead.

## 3. Properties and runs

Every run is listed in `PROJECT.json` with its `.cfg`; every property has a
mutant, a plausible bug in one mapped definition that makes it fail.

| Run | Shows | Bounds |
|---|---|---|
| `session` | `GatedWrite`, `BlockedMeansUntouched`, `CrossflashReversible`, `FilesKept`, `RollbackKept`, `FamilyKept`, that sessions implement `GatedUpdate`, and `SessionsEnd` | two sessions; two backends; six images, one for each way to be wrong; requests with at most one reservation, through the workflow or the library; one foreign file; crashes |
| `grant` | a violation: see the findings | as `session` |
| `links` | that savers implement `AtomicFile` | two exclusive savers, one confirmed replacement |
| `copies` | `SavedIsSafe` and `NoClobber` without hard links | three exclusive savers |
| `clobber` | a violation: see the findings | one confirmed replacement beside exclusive savers |
| `components` | the properties of the table below | each component's own, below |
| `gui_recovery` | `OverrideIsForSelection` | two drives of different backends, a package of two members, two choices, one job |
| `gui_consent` | `ConsentIsForTheJob`, `SheetIsLive`, `OutcomeIsTrue` | a job starts after at most two others: a plan with its update and a plan after them; two choices, reports |
| `gui_flash` | `InspectionIsCurrent`, `JobsEnd` under the fairness below | two files, two choices, one job |
| `gui_claim`, `gui_probe` | violations: see the findings | one job, two choices |
| `cancelled` | a violation: see the findings | as `analysis` below |

The run `components`, by `part`:

| `part` | Shows | Bounds |
|---|---|---|
| `mtk` | `EvidenceIsTrue`, `FinalOverIntermediate`, refines `UpdateReport` | one or two stages of three chunks; recovery |
| `pioneer` | `GuidanceIsTrue`, `ReportIsOfTheStages`, refines `UpdateReport` | one to three stages, two settings |
| `plan` | `AdmissionIsRight`: what is admitted fits, what is refused has a named reason, and the catalogue says the same of the same pair | some forty packages, seven drives, four Current files, two conversions, one bridge in both directions |
| `recovery` | `RecoversOnceWhatWasPrepared` | three drives, two of them alike; two preparations, two callers |
| `detection` | `SelectionIsProven` | every combination of protocols, loader and purpose |
| `command`, `probe` | `PerformedOnce`, `EmptyIsProven` | every answer; the tray moved twice |
| `bank` | `ReceiptIsDurable` | three directories |
| `sweep`, `capture` | `SweepIsExact`, `ArchiveIsStable` | four chunks of two pieces, two dead ones; two chunks a region |
| `analysis` | `ResultIsOfTheSlots`, `DriveIsNotOverused` | one drive of each kind, one file, one capture path, two commands a capture, two jobs |
| `shell` | `SheetsAreShown` under the fairness below | four shells, three sheets |
| `report` | `NoticeIsTrue`, `ReportEnds` under the fairness below | two attempts at the upload, two reports, one restart |
| `firmware` | `ImageIsAsReported`, `FormOffersWhatIsBuilt` | eighteen code cells, thirteen files, four others that may replace them, one job |
| `flags` | `BypassIsContained`, `SavedSettingsAreKept` | two images' settings, three kinds of stub, three choices, one grant |

Why the bounds are enough. The six images of `MCFlashSession` are the drive's
own firmware, a sibling model of its family, the same model name on other
hardware, a stranger on the same platform, and a Pioneer image with a known and
one with an unknown family: the decisions compare an image with the installed
one in exactly these respects. Two sessions allow a crossflash and the way back,
with a failure of either; the proofs cover longer sequences and every request. A
reservation is a preview, a missing acknowledgement, a supplied Current file, a
Confirm that asks, or an explicit destination. One more path than sessions lets
every session choose a fresh default name although another program took one. In
`MtkUpdate` three chunks have a first, an inner and a last; two stages is what
`Plan::following` holds. Three Pioneer stages have a first, an inner and a last,
two settings can be rolled back differently. In `GuiSession` two choices are a
choice and a later one that overtakes it; the flash or recovery that a plan
leads to is not the user's start, so one job is enough for a plan, its sheet and
its update; the bound of three lets another plan with its update follow, which a
tick or a flag left over from the first would reach. The choosers are split over
the runs because flash and recovery keep separate fields; `gui_consent` and
`gui_probe` mix them.

The packages and drives of `plan` differ from one that is admitted in one
respect each (the gates compare two pairs in those respects) and in the
combinations where two gates overlap: another Kernel with and without a bridge,
another signature with and without a seed, settings that can be converted on one
hardware only. The files of `firmware` are one for each way an allocation can
go: space in one hole, in holes clipped by the end of the coverage, only beyond
it, for the levers but not for their record, too little; the images that were
made before, of which one is damaged; and the dumps of a drive before and after.
Eighteen cells are what the largest set of levers takes, plus the boundaries.
Two grants show nothing that one does not, and the proof has any number. The proofs remove bounds where there is one.

Fairness is assumed in four places. In `FlashSession`, `FairSpec` is weak
fairness of the disjunction of the session's steps. The session is one
synchronous call, so it runs on while its process lives. It includes that the
operator answers and that a command to the drive returns; the transport gives
each command a timeout. Nothing is assumed of the tray, of other programs, or
that any gate passes. In `GuiSession` the worker threads run, a shell that was
told to tick polls (it has a timer), and an open sheet or report prompt is
closed one day; the operator need not do anything else. The polls of the job, of
the profile and of the inspection are made in the same tick and have fairness of
their own. In `SupportReport` the worker runs (each request has a time limit),
the shell polls, and time passes towards the deadlines; nothing is assumed of
the server, and the user need not approve. In `GuiShell` the shell paints what
it was told to paint: its timers and ticks fire and egui's waker wakes it. That
a native timer can be set at all is part of this; a failing `SetTimer` outside
the confirmation is not modelled. `SheetsAreShown` says that the dialog on the
screen is, again and again, the one of the sheet that the App wants answered.
Deadlock checking is off where a behaviour ends: an executor has reported, all
savers have returned, the user's bounds are used up.

## 4. What is proved

TLAPS checks every theorem, for all values of the constants that satisfy the
named assumptions. They are listed in `PROJECT.json`.

* `FlashSessionProofs`: `Spec => []SessionInv`, from it `TypeOK`, `GatedWrite`,
  `RollbackKept`, `FamilyKept`, `BlockedMeansUntouched`, `CrossflashReversible`,
  the action property `FilesKept`, and the refinement of `GatedUpdate`, one step
  of a session at a time. For any images, drives, requests, paths
  and number of sessions. None of these is inductive by itself. `GateInv` adds
  what each gate hands to the next: that the acknowledgement was seen by the
  time a backup is taken, that from the grant on the tray was rechecked, that
  until the payload the drive still runs what it ran at the start. `BackupInv`
  follows the backup: it is of the installed image, it is on disk, its
  authorization still holds, and as long as no session wrote without one it is
  of the drive's own hardware. `FamilyKept` needs `FamilyAssumption` nowhere but
  in the crossflash argument: a family hash covers the platform.
* `BackupSaveProofs`: on a filesystem with hard links whose directory is synced,
  for any number of savers: `SaveInv`, hence `SavedIsSafe`, `NoClobber`, and the
  refinement `ImplementsAtomicFile`, one step per system call. The invariant
  says that every file the path names, or may name after a power loss, is whole
  and on disk at every moment. Without hard links this is false, for the
  destination is written in place. There `CopyInv` holds, if no saver may
  replace: whoever has created the destination keeps it until it is done, and a
  file that was reported saved is the only one the path names or may name.
  Hence `SavedIsSafe`, and `NoClobber` whether the directory is synced or not.
  The run `clobber` shows why no saver may replace.
* `UpdateProofs`, of both executors. For MediaTek, for any number of chunks:
  `UpdateInv`, hence `EvidenceIsTrue`; `FinalOverIntermediate`; and the
  refinement of `UpdateReport`. `StageInv` relates the transport's flags, which
  are fresh in each stage, to what the drive received over all of them. For
  Pioneer, for any number of stages and any settings: `PioneerInv`, hence
  `GuidanceIsTrue`, `ReportIsOfTheStages` and the refinement of `UpdateReport`.
  The invariant says what the executor's flags know of the drive
  (`FlagsAreTrue`), that a rollback before the first update command accounts for
  every setting tried (`RollbackIsTrue`), and that nothing is verified of a
  stage that is being sent (`NothingVerified`).
* `PioneerPlanProofs`: for any packages, drives, conversions and bridges that
  `ComponentAssumption` types, `PlanInv` and `DecidedInv`, hence all of
  `AdmissionIsRight`. Whatever Flash or Recovery admits decodes on the Kernel
  that will receive it, carries the body of a member of the file, is of the
  installed family (unless that was bypassed), converts settings only with the
  hardware that allows it named, and announces temporary stages exactly when
  there are some. Whatever is refused has the reason that is told. And a flash
  goes on only with a route that the catalogue listed for the same pair.
  `PlanInv` carries the parts and the evidence from gate to gate; `DecidedInv`
  says that what was listed is still what the catalogue says. The argument for
  the catalogue is that each gate of a flash has its counterpart in the
  evaluation of a route, so that a pair which passes all of them passes there.
* `ComponentProofs`: `PerformedOnce`, `EmptyIsProven`, `ReceiptIsDurable`,
  `ArchiveIsStable`, `SelectionIsProven`, `SweepIsExact`,
  `RecoversOnceWhatWasPrepared`, `BypassIsContained` and
  `SavedSettingsAreKept`, each from an inductive invariant that says what has
  been established at each step of the component. The one of `BankBackup` says
  which entries are on disk when directory k is being synced; it holds for any
  depth. `GapsAreExact`, for `MemorySweep`, says at every moment that the gaps
  are in order, do not touch each other and cover the filled pieces and no
  others; the count of what was read follows from the count of the pieces that
  are not filled. `RecoveryInv` says that a session is in one place
  (`OnePlace`: the mutex, one caller, or spent), and that from the identity
  check to the write the handle is of the drive the session was prepared for
  (`IdentityKept`). The two properties of `DriveFlags` are inductive beside the
  types.
* `GuiSessionProofs`: for any drives, files, packages and profiles, and any
  number of jobs and choices, `SessionInv`, hence `ConsentIsForTheJob`,
  `SheetIsLive`, `OverrideIsForSelection`, `InspectionIsCurrent`, the action
  property `OutcomeIsTrue`, and `TypeOK`. The invariant has three parts, and
  most inputs change one of them and keep the others by a frame. `Session` ties
  the job, its thread, the messages in its channel and the open sheet to each
  other: whose turn it is decides what may be in the channel and what the sheet
  is about. `Selection` says that the override was confirmed for what is
  selected, also in a plan that is kept for the user's approval. `Inspection`
  says that the choices which wait are in the order they were made, at most one
  of each chooser, and that nothing is shown of a file while its latest choice
  waits. The code drops the choices of a chooser that wait with `retain`; the
  model drops one (`Retained`), and the invariant is the reason why that is the
  same.
* `JobProofs`: `NoticeIsTrue`, for any texts, uploads and restarts, from an
  invariant on the worker's phase, what the server has and what the channel may
  say; `ResultIsOfTheSlots` and `DriveIsNotOverused`, for any drives, files and
  lengths of a capture. The latter two follow from what the job has loaded at
  each step (`LoadInv`: which sides are still to do, and in which order) and
  from the rule that a cancelled job has at most one command on its way
  (`CancelInv`).
* `FirmwareProofs`: for any length of the code area and any files that are
  firmware, `FormInv`, hence `ImageIsAsReported` and `FormOffersWhatIsBuilt`.
  The first part is about the allocator: the runs of erased cells it looks at
  are holes (`StretchesAreHoles`), and what it finds is free, covered by the
  checksums and outside what is reserved (`FoundIsFree`). Then `Sane` says of a
  build at any stage that the report is of the hooks, that only erased cells
  were written and that every hook is safe; each lever keeps it. `Twins` relates
  the preview's build, with standard settings, to the job's: they go alike for
  whatever settings (`OnceAlike`), which is why what the form offers is built.
  `FormInv` adds that the files stay firmware, and that what is shown belongs to
  the file that was seen.

Only model-checked: liveness (`SessionsEnd`, `JobsEnd`, `ReportEnds`,
`SheetsAreShown`), which is out of the prover's reach. Every other property of a
passing run is a theorem.

The assumptions on the constants are types, and that the markers of absence
(`None`, `NoPath` and the like) are none of the values. More than a type are
these: a family hash covers the platform (`FamilyAssumption`); a profile whose
family check can be overridden can be read (`ProfileAssumption`); a file of one
part has one member (`ComponentAssumption`); every drive answers INQUIRY when it
can be reached (`RecoveryAssumption`); the files are firmware
(`FilesAssumption`). TLC evaluates each of them in the runs.

`TypeOK`, `SaveInv`, `StageInv` and the other strengthenings of the executors
were invariants of the runs while their proofs were written; now the proofs have
them. `SavedIsSafe` and `NoClobber` on hard links follow from the refinement
that `links` checks.

## 5. Findings

* **`grant`**: `engine/gates.rs` says twice that a flash grant requires a
  `SavedBackup`; `gates::flash` takes an `Option`, ignores it, and grants a
  write whose backup was waived. The waiver itself is deliberate
  (`proceed_without_backup`), and the comment on the function (63–64) has it:
  "after the engine has saved a usable backup or obtained explicit consent to
  continue without one". The other two places, and the table of the grants in
  line 7, are behind the code.
* **`clobber`**: where hard links are not available, the clean-up of a failed
  copy removes the destination by name. If a confirmed replacement took its
  place meanwhile, that file is removed, although `engine/backup.rs` promises
  never to replace an existing file.
* **`gui_claim`**: a failed update is on display; the user refreshes the drives
  and the profile read fails. `set_profile` overwrites the failure by a
  read-only error that says this operation did not write firmware, under the
  update's action. The design contract says never to claim no change after
  uncertain writes.
* **`gui_probe`**: the inspection of a chosen recovery backup ends while a flash
  runs, or after it failed; `poll_origin` then reads the drive's profile. The
  lifecycle audit says that probing after an operation depends on its state. The
  screens that show a job are not concerned, only the drive is.
* **`cancelled`**: `run_job` recognises a cancelled analysis by the type of its
  error. A cancel heard by the commands of detection arrives wrapped as
  `Unavailable`, one heard by a MediaTek capture that is saved as a backup as an
  error of its own; both are reported as failures with guidance. A test of the
  window says a cancelled analysis is reported without.

Comments that are behind the code and change nothing: in
`freemkv-fw/src/engine/core.rs`, those on SAVE and on the boot hook (near lines
2525 and 3060) speak of a marker test and a fill that the emitted code does not
have; near line 2051 and in `abi.rs` (195–199) SAVE is said to keep what a boot
hook reads again and what survives a power cycle, although every start writes
the image's settings and only RESET_TO_FLASH reads the saved ones; the branch of
the region stub for forced BD cannot be reached;
`FlashWrite` passes a source in SRAM where `emit_flash_write` says that PROGRAM
cannot take one.

A classic image and the bus key. `abi.rs` (320–326) says of Encryption off that
"content reads back de-bussed", with BU40N/MT1959 as its evidence, and
`core.rs` (2388–2397) why each bypassed handshake has to clear the key: the
insertion of a disc arms it again. The stub of a classic image does not clear
it. There, after an insertion, a bypassed handshake leaves a grant beside an
armed key, until a bare read of the volume identifier resets the engine, or the
grant ends. The first version of `BypassIsContained` took
the stubs of all images to be alike and did not see this. It is recorded here
and not as a run: no comment on the classic stub claims the opposite.

Two observations that no documentation contradicts. The first version of
`FormOffersWhatIsBuilt` had neither, and could not be proved. The dump of a
drive that runs modified firmware is shown with its record, whose settings can
be edited, but only the job asks whether a dump can be flashed
(`freemkv-fw/src/api.rs` 353 and 291). And for an image which holds the levers
but not their record the preview takes the second attempt, with more levers
than a first one has; a choice among those is refused at the first attempt, and
the job ends there. Both are the exceptions that the property names.

## 6. Not modelled

* Recognition: the instruction patterns, signatures, layouts and tables by which
  `freemkv-fw` finds its way in an image, and the machine code it emits; the
  parsers of packages, banners and reports in `freemkv-flash` and
  `freemkv-flash-gui`. They are functions of bytes, without states, and tested
  against real images. The models take their results as input.
* The layout of the native shells, their file pickers, menus, languages and the
  report prompt; `freemkv-fw-gui`'s Verify and Probe, which change nothing;
  logs. A large part of the lines that no definition maps is here and in the
  item above, which is why the map covers less than a fifth of the
  implementation.
* Two programs on one drive: `platform::open` takes no exclusive access
  (`platform/mod.rs:286`), and whether the second one is excluded is up to the
  operating system.
* A native timer that cannot be set (`freemkv-flash-gui/src/windows.rs:898`),
  and a random source that fails when the code of a family override is made
  (`freemkv-flash-gui/src/ui.rs:1413`): a text is shown instead of the code.
* Pioneer's stages themselves and the persistent banks of a transition, which
  the library builds; MediaTek's composed routes; the vendors' names; the
  binding of a native product.
* The deep salvage of a damaged image: nothing in production calls it.
* `freemkv-chipset`: a table.

What could follow: one specification that runs `GuiSession` against
`PreparedRecovery` instead of leaving the drive's identity to the latter; and,
for the liveness properties, the step by step facts they rest on (that each fair
action brings its goal nearer).
