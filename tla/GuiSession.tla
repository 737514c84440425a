----------------------------- MODULE GuiSession -----------------------------
(***************************************************************************)
(* The session of the graphical front-end: freemkv-flash-gui/src/ui.rs,    *)
(* the one model behind the native shells.  The shell's thread owns `app`: *)
(* it applies one user input at a time and, while it is ticking, polls     *)
(* three kinds of worker threads for news: the file inspector, the         *)
(* profile reader and the job.  The job's thread may stop and ask; it      *)
(* then waits for the answer of a sheet.                                   *)
(*                                                                         *)
(* A poll drains a channel.  Here it takes one message: the same           *)
(* interleavings result, since a message may always have been sent late.   *)
(***************************************************************************)
EXTENDS Naturals, SequencesExt

CONSTANTS
  Drives,        \* paths of optical drives
  Files,         \* firmware files the user may choose
  MembersIn,     \* [Files -> sets]: the members of a package
  ProfilesOf,    \* [Drives -> sets of profiles]: what a read of a drive may say
  Chosen,        \* bound: the choosers the user of this instance opens
  MaxJobs,       \* bound: jobs after which the user starts no other
  MaxChoices,    \* bound: files the user chooses
  Reports,       \* bound: whether the user submits reports
  None

\* Choosers whose file is inspected in the background (`origin_index`).
Picks == {"FlashFirmware", "RecoveryInput", "FlashCurrent", "RecoveryCurrent"}

\* What a profile decides here: whether a choice of Current reads it again,
\* whether firmware can be read from the drive, whether Flash takes a Current
\* file and whether the family check can be overridden.
Profile == [reprofile : BOOLEAN, canRead : BOOLEAN, flashCurrent : BOOLEAN,
            override : BOOLEAN]

\* Reading and overriding are traits of a backend, and the one that can be
\* overridden can be read.
ASSUME ProfileAssumption ==
  /\ None \notin Drives \cup Files \cup UNION {MembersIn[f] : f \in Files}
  /\ \A d \in Drives :
       /\ ProfilesOf[d] \subseteq Profile
       /\ \A p \in ProfilesOf[d] : p.override => p.canRead
  /\ Chosen \subseteq Picks
  /\ MaxJobs \in Nat /\ MaxChoices \in Nat /\ Reports \in BOOLEAN

\* The members of all packages.
Members == UNION {MembersIn[f] : f \in Files}

\* What a job was started with (`FlashOptions`, `RecoveryOptions`), for which
\* drive, the sheets that show it and the choices that wait for an inspector.
Options == [input : Files \cup {None}, member : Members \cup {None},
            current : Files \cup {None}, currentMember : Members \cup {None},
            bypass : BOOLEAN]

Targets == [drive : Drives \cup {None}, options : Options \cup {None}]

Sheets == [target : Targets, sheet : {"FamilyOverride", "WithoutBackup", "Flash", "Recovery"}]

Waits == [pick : Picks, file : Files, version : Nat]

\* None is an absent value, none of those present.
ASSUME NoneAssumption ==
  None \notin Profile \cup Options \cup Targets \cup Sheets \cup Waits

VARIABLES
  app,       \* the fields of App
  thread,    \* the job's thread, and what it did to the drive
  chan       \* messages it sent that were not polled

vars == <<app, thread, chan>>

NoJob == [kind |-> "none", drive |-> None, options |-> None]

\* A thread that starts.
Spawned == [stage |-> "run", answer |-> "none", touched |-> FALSE]

MayWrite(job) == job.kind \in {"Flash", "ExecuteRecovery"}

-----------------------------------------------------------------------------
(* Conditions                                                              *)

Running(a) == a.job # NoJob

Busy(a) == Running(a) \/ a.pending # None \/ a.reportPrompt \/ a.probe # "none"

\* A profile that is not there was not read yet, or could not be read.
Ready(a) == a.profile # None

CanRead(a) == Ready(a) => a.profile.canRead

FlashCurrentSupported(a) ==
  Ready(a) /\ (a.profile.flashCurrent \/ ~a.profile.canRead)

OverrideSupported(a) == a.mismatch /\ Ready(a) /\ a.profile.override

InspectionPending(a, pick) ==
  \/ a.inspecting # None /\ a.inspecting.pick = pick
  \/ \E i \in DOMAIN a.queue : a.queue[i].pick = pick

\* A package with several members needs one of them named.
MemberKnown(a, pick) ==
  Cardinality(a.members[pick]) < 2 \/ a.member[pick] # None

FlashReady(a) ==
  /\ ~InspectionPending(a, "FlashFirmware")
  /\ a.read["Flash"] \/ ~InspectionPending(a, "FlashCurrent")
  /\ a.device # None /\ a.file["FlashFirmware"] # None
  /\ \/ ~FlashCurrentSupported(a)
     \/ a.read["Flash"]
     \/ a.file["FlashCurrent"] # None /\ MemberKnown(a, "FlashCurrent")

RecoveryReady(a) ==
  /\ ~InspectionPending(a, "RecoveryInput")
  /\ a.read["Recovery"] \/ ~InspectionPending(a, "RecoveryCurrent")
  /\ a.device # None /\ a.file["RecoveryInput"] # None
  /\ MemberKnown(a, "RecoveryInput")
  /\ \/ a.read["Recovery"]
     \/ a.file["RecoveryCurrent"] # None /\ MemberKnown(a, "RecoveryCurrent")

\* The inputs of a flash, and of a recovery, as they are selected.
FlashOptions(a) ==
  LET supplied == FlashCurrentSupported(a) /\ ~a.read["Flash"] IN
  [input |-> a.file["FlashFirmware"], member |-> None,
   current |-> IF supplied THEN a.file["FlashCurrent"] ELSE None,
   currentMember |-> IF supplied THEN a.member["FlashCurrent"] ELSE None,
   bypass |-> FALSE]

RecoveryOptions(a) ==
  LET supplied == ~a.read["Recovery"] IN
  [input |-> a.file["RecoveryInput"], member |-> a.member["RecoveryInput"],
   current |-> IF supplied THEN a.file["RecoveryCurrent"] ELSE None,
   currentMember |-> IF supplied THEN a.member["RecoveryCurrent"] ELSE None,
   bypass |-> a.bypass /\ OverrideSupported(a)]

-----------------------------------------------------------------------------
(* Pieces of the handlers, each from an App to an App                      *)

\* A previous result describes its own selection, not the new one.
ClearFlashResult(a) ==
  LET b == [a EXCEPT !.prepared = None] IN
  IF a.resultTask = a.task /\ a.task \in {"Flash", "Recovery"}
  THEN [b EXCEPT !.failure = "none", !.result = "none"]
  ELSE b

ForgetOverride(a) == [a EXCEPT !.mismatch = FALSE, !.bypass = FALSE]

\* Read the selected drive's profile; `by` is who wants it.  An earlier
\* reader is abandoned.
StartProfile(a, by) ==
  IF a.device = None
  THEN [a EXCEPT !.profile = None, !.probe = "none"]
  ELSE [a EXCEPT !.profile = None, !.probe = by, !.ticking = TRUE]

RefreshCurrentProfile(a, by) ==
  IF Ready(a) /\ ~a.profile.reprofile THEN a ELSE StartProfile(a, by)

\* A profile read ended, with no profile if it failed.  The error of a
\* read-only operation says that it did not write firmware.
SetProfile(a, p) ==
  IF p = None
  THEN [a EXCEPT !.failure = "no_write", !.probe = "none"]
  ELSE [a EXCEPT
         !.profile = p, !.probe = "none",
         !.read = [t \in DOMAIN a.read |-> a.read[t] /\ p.canRead],
         !.bypass = @ /\ p.override]

\* One inspector at a time.
StartOrigin(a) ==
  IF a.inspecting # None \/ a.queue = <<>> THEN a
  ELSE [a EXCEPT !.inspecting = Head(a.queue), !.queue = Tail(a.queue)]

\* Drop the choice of this chooser that still waits: each one drops the one
\* before it, so no chooser has two.
Retained(queue, pick) ==
  LET waiting == {i \in DOMAIN queue : queue[i].pick = pick} IN
  IF waiting = {} THEN queue ELSE RemoveAt(queue, CHOOSE i \in waiting : TRUE)

\* Inspect a choice instead of an earlier one of the same chooser.
ReadOrigin(a, pick, file) ==
  LET generation == a.choices + 1
      others == Retained(a.queue, pick)
  IN StartOrigin([a EXCEPT
       !.origin[pick] = 0, !.choices = generation, !.version[pick] = generation,
       !.queue = Append(others, [pick |-> pick, file |-> file, version |-> generation]),
       !.ticking = TRUE])

\* Mutant: the box keeps the tick of an earlier sheet.
AskKeepsTick(a, target, sheet) ==
  [a EXCEPT !.ticked = FALSE, !.pending = [target |-> target, sheet |-> sheet]]

\* A sheet opens with its box unticked.
Ask(a, target, sheet) ==
  [a EXCEPT !.riskAck = FALSE, !.ticked = FALSE,
            !.pending = [target |-> target, sheet |-> sheet]]

Target(a, options) == [drive |-> a.device, options |-> options]

\* The drive and the files of a recovery as they are selected.
SelectedFor(a) == Target(a, [RecoveryOptions(a) EXCEPT !.bypass = FALSE])

StartJob(a, kind, drive, options) ==
  IF Running(a) \/ (drive = None /\ kind # "CheckFile") THEN a
  ELSE [a EXCEPT
         !.job = [kind |-> kind, drive |-> drive, options |-> options],
         !.jobs = @ + 1, !.resultTask = a.task, !.action = kind,
         !.failure = "none", !.result = "none",
         !.mismatch = @ /\ kind # "PrepareRecovery",
         !.consent = None, !.ticking = TRUE]

\* The plan passed: back up and authorize what was frozen then.
BackUpAndAuthorize(a, target) ==
  LET b == StartJob(a, "Flash", target.drive, target.options) IN
  IF Running(a) THEN b ELSE [b EXCEPT !.flashing = target]

\* A job ended: the sheet it may have left has no one to answer.
EndFlash(a) ==
  LET b == [a EXCEPT !.flashing = None] IN
  IF a.pending # None /\ a.pending.sheet \in {"Flash", "WithoutBackup"}
  THEN [b EXCEPT !.pending = None, !.riskAck = FALSE]
  ELSE b

\* Mutant: the job is not waited for.
SettledDespiteJob(a) ==
  a.probe = "none" /\ a.inspecting = None /\ a.queue = <<>> /\ ~a.reporting

\* Nothing is left to wait for.
Settled(a) ==
  /\ ~Running(a) /\ a.probe = "none"
  /\ a.inspecting = None /\ a.queue = <<>> /\ ~a.reporting

\* A poll passes no effect of what it starts to the shell; when it took the
\* end of something it may stop the ticking.
Polled(a, b) == [b EXCEPT !.ticking = a.ticking /\ ~Settled(b)]

\* A handler's new state, and the thread of the job it may have started.
Becomes(a) ==
  /\ app' = a
  /\ thread' = IF a.jobs # app.jobs THEN Spawned ELSE thread
  /\ UNCHANGED chan

-----------------------------------------------------------------------------
(* Start                                                                   *)

FirstOf(drives) == IF drives = {} THEN {None} ELSE drives

NoFile == [p \in Picks |-> None]

Fresh(drives, device) ==
  [drives |-> drives, device |-> device, profile |-> None, probe |-> "none",
   task |-> "Other", resultTask |-> "Other", action |-> "none",
   file |-> NoFile, member |-> NoFile, members |-> [p \in Picks |-> {}],
   read |-> [t \in {"Flash", "Recovery"} |-> TRUE],
   origin |-> [p \in Picks |-> 0], version |-> [p \in Picks |-> 0],
   choices |-> 0, inspecting |-> None, queue |-> <<>>,
   mismatch |-> FALSE, bypass |-> FALSE, riskAck |-> FALSE,
   pending |-> None, planning |-> None, recoveryPlanning |-> None,
   flashing |-> None, prepared |-> None, cancelled |-> FALSE,
   failure |-> "none", result |-> "none", job |-> NoJob, jobs |-> 0,
   reportPrompt |-> FALSE, reporting |-> FALSE, ticking |-> FALSE,
   \* What the properties remember: whether the box of the sheet was ticked
   \* since it opened, what was consented to, and what the override was
   \* confirmed for.
   ticked |-> FALSE, consent |-> None, overrideFor |-> None]

Init ==
  /\ \E drives \in SUBSET Drives : \E device \in FirstOf(drives) :
       app = StartProfile(Fresh(drives, device), "user")
  /\ thread = Spawned
  /\ chan = <<>>

-----------------------------------------------------------------------------
(* The user's inputs.  While the report prompt is open no other counts.    *)

Idle == ~Busy(app)

SelectDrive(d) ==
  /\ Idle /\ d \in app.drives /\ d # app.device
  /\ LET a == ClearFlashResult(ForgetOverride(app)) IN
     Becomes(StartProfile(
       [a EXCEPT !.device = d, !.read = [t \in DOMAIN @ |-> TRUE],
                 !.riskAck = FALSE, !.failure = "none", !.result = "none"], "user"))

\* Enumerate the drives; a selected one that is gone takes its consent along.
Refresh ==
  /\ Idle
  /\ \E drives \in SUBSET Drives :
       LET a == [app EXCEPT !.drives = drives] IN
       IF app.device \in drives THEN Becomes(StartProfile(a, "user"))
       ELSE \E d \in FirstOf(drives) :
              Becomes(StartProfile(
                [ForgetOverride(a) EXCEPT
                   !.device = d, !.riskAck = FALSE, !.pending = None,
                   !.prepared = None], "user"))

SelectTask(t) ==
  /\ Idle /\ t # app.task
  /\ Becomes([app EXCEPT !.task = t, !.bypass = FALSE])

\* A firmware chooser opens.
Choose ==
  /\ Idle
  /\ ForgetOverride(app) # app
  /\ Becomes(ForgetOverride(app))

\* Mutant: the member chosen from the previous file stays.
ChooseFileKeepsMember(pick, f) ==
  /\ Idle /\ app.choices < MaxChoices
  /\ LET a == [ClearFlashResult(app) EXCEPT !.file[pick] = f, !.members[pick] = {}] IN
     Becomes(ReadOrigin(
       IF pick = "FlashCurrent" THEN [a EXCEPT !.read["Flash"] = FALSE] ELSE a, pick, f))

\* A file is chosen in it.
ChooseFile(pick, f) ==
  /\ Idle /\ app.choices < MaxChoices
  /\ LET a == [ClearFlashResult(app) EXCEPT !.file[pick] = f]
         b == [a EXCEPT !.member[pick] = None, !.members[pick] = {}]
     IN Becomes(ReadOrigin(
          CASE pick = "FlashFirmware" -> a
            [] pick = "FlashCurrent" -> [b EXCEPT !.read["Flash"] = FALSE]
            [] pick = "RecoveryInput" -> ForgetOverride(b)
            [] pick = "RecoveryCurrent" ->
                 ForgetOverride([b EXCEPT !.read["Recovery"] = FALSE]),
          pick, f))

FlashReadFromDrive(on) ==
  /\ Idle /\ CanRead(app) /\ app.read["Flash"] # on
  /\ Becomes([ClearFlashResult(app) EXCEPT !.read["Flash"] = on])

RecoveryReadFromDrive(on) ==
  /\ Idle /\ CanRead(app)
  /\ LET a == IF app.read["Recovery"] # on
              THEN ClearFlashResult(ForgetOverride(app)) ELSE app
     IN Becomes(RefreshCurrentProfile([a EXCEPT !.read["Recovery"] = on], "user"))

\* Mutant: another member leaves the override in place.
PickMemberKeepsOverride(pick, m) ==
  /\ Idle /\ pick # "FlashFirmware"
  /\ m \in app.members[pick] /\ m # app.member[pick]
  /\ Becomes([ClearFlashResult(app) EXCEPT !.member[pick] = m])

PickMember(pick, m) ==
  /\ Idle /\ pick # "FlashFirmware"
  /\ m \in app.members[pick] /\ m # app.member[pick]
  /\ LET a == [ClearFlashResult(app) EXCEPT !.member[pick] = m] IN
     Becomes(CASE pick = "FlashCurrent" -> a
               [] pick = "RecoveryInput" -> ForgetOverride(a)
               [] pick = "RecoveryCurrent" ->
                    RefreshCurrentProfile(ForgetOverride(a), "user"))

\* Only after a proven mismatch may the user ask to override the family check.
\* The sheet needs a random code, which the system may fail to give.
BypassFamily(on) ==
  /\ Idle /\ app.task = "Recovery" /\ OverrideSupported(app)
  /\ LET a == ClearFlashResult([app EXCEPT !.bypass = FALSE, !.riskAck = FALSE]) IN
     \/ on /\ Becomes(Ask(a, Target(a, None), "FamilyOverride"))
     \/ Becomes(a)

\* Drive information, a file check, a backup, a dump, an analysis.
ReadOnlyJob ==
  /\ Idle /\ app.jobs < MaxJobs
  /\ \/ Becomes(StartJob(app, "Read", app.device, None))
     \/ Becomes(StartJob(app, "CheckFile", None, None))

FlashNow ==
  /\ Idle /\ app.jobs < MaxJobs /\ FlashReady(app)
  /\ LET target == Target(app, FlashOptions(app)) IN
     Becomes([StartJob(app, "PlanFlash", target.drive, target.options)
                EXCEPT !.planning = target])

Recover ==
  /\ Idle /\ app.jobs < MaxJobs /\ RecoveryReady(app)
  /\ LET target == Target(app, RecoveryOptions(app))
         a == [app EXCEPT !.prepared = None, !.bypass = FALSE]
     IN Becomes([StartJob(a, "PrepareRecovery", target.drive, target.options)
                   EXCEPT !.recoveryPlanning = target])

TickRisk(on) ==
  /\ ~app.reportPrompt /\ app.pending # None /\ app.riskAck # on
  /\ Becomes([app EXCEPT !.riskAck = on, !.ticked = on])

\* The waiting thread hears an answer and the sheet closes.
Reply(a, answer) ==
  /\ app' = a
  /\ thread' = [thread EXCEPT !.answer = answer]
  /\ UNCHANGED chan

Consented(a) == [a EXCEPT
  !.consent = [ticked |-> a.ticked, target |-> a.pending.target], !.pending = None]

ConfirmOverride(codeMatches) ==
  /\ app.pending # None /\ app.pending.sheet = "FamilyOverride"
  /\ LET confirmed == /\ codeMatches /\ OverrideSupported(app)
                      /\ app.pending.target.drive = app.device
     IN Becomes([app EXCEPT
          !.pending = None, !.riskAck = FALSE, !.bypass = confirmed,
          !.overrideFor = IF confirmed THEN SelectedFor(app) ELSE None])

ConfirmWithoutBackup ==
  /\ app.pending # None /\ app.pending.sheet = "WithoutBackup"
  /\ Reply([app EXCEPT !.pending = None, !.riskAck = FALSE], "yes")

\* Mutant: the sheet stays after it was answered.
ConfirmFlashKeepsSheet ==
  /\ app.pending # None /\ app.pending.sheet = "Flash" /\ app.riskAck
  /\ Reply([Consented(app) EXCEPT !.pending = app.pending, !.riskAck = FALSE], "yes")

ConfirmFlash ==
  /\ app.pending # None /\ app.pending.sheet = "Flash" /\ app.riskAck
  /\ Reply([Consented(app) EXCEPT !.riskAck = FALSE], "yes")

\* The job executes what was prepared, on the drive it was prepared for.
ConfirmRecovery ==
  /\ app.pending # None /\ app.pending.sheet = "Recovery" /\ app.riskAck
  /\ ~Running(app)
  /\ LET a == Consented(app) IN
     IF app.prepared = None THEN Becomes([app EXCEPT !.pending = None])
     ELSE Becomes([StartJob([a EXCEPT !.prepared = None], "ExecuteRecovery",
                            app.prepared.drive, app.prepared.options)
                     EXCEPT !.consent = a.consent])

Confirm ==
  /\ ~app.reportPrompt
  /\ \/ \E codeMatches \in BOOLEAN : ConfirmOverride(codeMatches)
     \/ ConfirmWithoutBackup \/ ConfirmFlash \/ ConfirmRecovery

\* Mutant: every cancelled sheet marks the next failure as cancelled.
CancelConfirmMarksAll ==
  /\ ~app.reportPrompt /\ app.pending # None
  /\ LET a == [app EXCEPT !.prepared = None, !.pending = None, !.riskAck = FALSE,
                           !.cancelled = TRUE] IN
     IF app.pending.sheet \in {"Flash", "WithoutBackup"} THEN Reply(a, "no") ELSE Becomes(a)

\* Cancel, or a confirmation the desktop could not show.
CancelConfirm ==
  /\ ~app.reportPrompt /\ app.pending # None
  /\ LET a == [app EXCEPT !.prepared = None, !.pending = None, !.riskAck = FALSE] IN
     IF app.pending.sheet \in {"Flash", "WithoutBackup"}
     THEN Reply([a EXCEPT !.cancelled = TRUE], "no")
     ELSE Becomes(a)

\* A report is described in a prompt, then sent by a thread of its own.
SubmitReport ==
  /\ Reports /\ Idle /\ ~app.reporting
  /\ Becomes([app EXCEPT !.reportPrompt = TRUE])

DismissReport == app.reportPrompt /\ Becomes([app EXCEPT !.reportPrompt = FALSE])

SendReport ==
  /\ app.reportPrompt /\ ~app.reporting
  /\ Becomes([app EXCEPT !.reportPrompt = FALSE, !.reporting = TRUE, !.ticking = TRUE])

UserInput ==
  \/ \E d \in Drives : SelectDrive(d)
  \/ Refresh
  \/ \E t \in {"Flash", "Recovery", "Other"} : SelectTask(t)
  \/ Choose
  \/ \E pick \in Chosen : \/ \E f \in Files : ChooseFile(pick, f)
                          \/ \E m \in app.members[pick] : PickMember(pick, m)
  \/ \E on \in BOOLEAN : \/ FlashReadFromDrive(on) \/ RecoveryReadFromDrive(on)
                         \/ BypassFamily(on) \/ TickRisk(on)
  \/ ReadOnlyJob \/ FlashNow \/ Recover
  \/ SubmitReport \/ DismissReport \/ SendReport

Answer == Confirm \/ CancelConfirm

-----------------------------------------------------------------------------
(* The job's thread (`run_job`)                                            *)

InStage(stage) == Running(app) /\ thread.stage = stage

\* The thread ends: it sends what it has to say, the last of it Done.
Ends(messages) ==
  /\ chan' = chan \o messages
  /\ thread' = [thread EXCEPT !.stage = "ended"]
  /\ UNCHANGED app

Done(ok, issue) == <<[type |-> "Done", ok |-> ok, issue |-> issue]>>

Enters(stage) == thread' = [thread EXCEPT !.stage = stage] /\ UNCHANGED <<app, chan>>

Asks(question, stage) ==
  /\ chan' = Append(chan, [type |-> question])
  /\ thread' = [thread EXCEPT !.stage = stage, !.answer = "none"]
  /\ UNCHANGED app

\* A job that cannot write: its errors say so.  A recovery that was refused
\* for its hardware family says that first.
ReadOnlyEnds ==
  /\ InStage("run") /\ ~MayWrite(app.job)
  /\ LET prepares == app.job.kind = "PrepareRecovery" IN
     \/ Ends((IF prepares THEN <<[type |-> "PreparedRecovery"]>> ELSE <<>>)
             \o Done(TRUE, "none"))
     \/ Ends(Done(FALSE, "no_write"))
     \/ prepares /\ Ends(<<[type |-> "FamilyMismatch"]>> \o Done(FALSE, "no_write"))

\* A flash asks before it goes on without a backup, and before it writes.
AskWithoutBackup ==
  InStage("run") /\ app.job.kind = "Flash" /\ Asks("BackupUnavailable", "backup?")

AskFlash ==
  /\ InStage("run") \/ InStage("waived")
  /\ app.job.kind = "Flash" /\ Asks("Authorized", "flash?")

\* The answer arrives; a sheet that was dropped answers no.
Answered ==
  /\ InStage("backup?") \/ InStage("flash?")
  /\ thread.answer # "none"
  /\ IF thread.answer = "no" THEN Ends(Done(FALSE, "no_write"))
     ELSE Enters(IF thread.stage = "backup?" THEN "waived" ELSE "write")

\* The prepared session is taken and the drive is still the one it is for.
RevalidateRecovery ==
  InStage("run") /\ app.job.kind = "ExecuteRecovery" /\ Enters("write")

BlockedBeforeWrite ==
  /\ MayWrite(app.job) /\ ~thread.touched
  /\ InStage("run") \/ InStage("waived") \/ InStage("write")
  /\ Ends(Done(FALSE, "no_write"))

TouchDrive ==
  /\ InStage("write") /\ ~thread.touched
  /\ thread' = [thread EXCEPT !.touched = TRUE]
  /\ UNCHANGED <<app, chan>>

UpdateEnds ==
  /\ InStage("write") /\ thread.touched
  /\ \/ Ends(Done(TRUE, "none"))
     \/ Ends(Done(FALSE, "uncertain"))

\* A panic is caught; what it says depends on what the job may do.
Panics ==
  /\ InStage("run") \/ InStage("waived") \/ InStage("write")
  /\ Ends(Done(FALSE, IF MayWrite(app.job) THEN "uncertain" ELSE "no_write"))

\* A panic in the enumeration after an update is not caught.
IsLost ==
  /\ InStage("write") /\ thread.touched
  /\ Enters("lost")

Worker ==
  \/ ReadOnlyEnds \/ AskWithoutBackup \/ AskFlash \/ Answered
  \/ RevalidateRecovery \/ BlockedBeforeWrite \/ TouchDrive \/ UpdateEnds
  \/ Panics \/ IsLost

-----------------------------------------------------------------------------
(* Polls                                                                   *)

\* An inspection ended.  Only the latest choice of its chooser is shown, and
\* only if that file is still the one selected.
PollOrigin ==
  /\ app.ticking /\ app.inspecting # None
  /\ LET reply == app.inspecting
         pick == reply.pick
         a == [app EXCEPT !.inspecting = None]
     IN \E found \in {{}, MembersIn[reply.file]} :
        LET shown == [a EXCEPT !.origin[pick] = reply.version]
            listed == [a EXCEPT !.members[pick] = found]
            b == IF app.file[pick] # reply.file \/ app.version[pick] # reply.version
                 THEN a
                 ELSE CASE pick = "FlashFirmware" -> shown
                        [] pick = "RecoveryInput" -> [shown EXCEPT !.members[pick] = found]
                        [] pick = "FlashCurrent" -> listed
                        [] pick = "RecoveryCurrent" -> RefreshCurrentProfile(listed, "reply")
        IN Becomes(Polled(app, StartOrigin(b)))

PollProfile ==
  /\ app.ticking /\ app.probe # "none"
  /\ \E p \in ProfilesOf[app.device] \cup {None} :
       Becomes(Polled(app, SetProfile(app, p)))

PollReport ==
  /\ app.ticking /\ app.reporting
  /\ Becomes(Polled(app, [app EXCEPT !.reporting = FALSE]))

\* The next message of the job, which leaves the App as `a`.
Receives(type) == app.ticking /\ Running(app) /\ chan # <<>> /\ Head(chan).type = type

Takes(a) == app' = a /\ chan' = Tail(chan)

PollPrepared ==
  /\ Receives("PreparedRecovery")
  /\ Takes([app EXCEPT !.prepared = [drive |-> app.job.drive, options |-> app.job.options]])
  /\ UNCHANGED thread

PollMismatch ==
  /\ Receives("FamilyMismatch")
  /\ Takes([app EXCEPT !.mismatch = @ \/ app.recoveryPlanning # None])
  /\ UNCHANGED thread

\* A question of a flash that nobody started is answered no.
PollQuestion ==
  \E question \in {<<"Authorized", "Flash">>, <<"BackupUnavailable", "WithoutBackup">>} :
    /\ Receives(question[1])
    /\ IF app.flashing # None
       THEN Takes(Ask(app, app.flashing, question[2])) /\ UNCHANGED thread
       ELSE Takes(app) /\ thread' = [thread EXCEPT !.answer = "no"]

\* The job is over: its plan starts the flash or asks about the recovery.
PollDone ==
  /\ Receives("Done")
  /\ LET ok == Head(chan).ok
         ended == EndFlash([app EXCEPT !.planning = None, !.recoveryPlanning = None,
                                       !.cancelled = FALSE, !.job = NoJob])
         told == IF ok THEN [ended EXCEPT !.result = "ok"]
                 ELSE IF app.cancelled
                      THEN [ended EXCEPT !.result = "cancelled", !.failure = "none"]
                      ELSE [ended EXCEPT !.result = "error", !.failure = Head(chan).issue]
         next == IF ok /\ app.planning # None THEN BackUpAndAuthorize(told, app.planning)
                 ELSE IF ok /\ app.recoveryPlanning # None
                      THEN Ask(told, app.recoveryPlanning, "Recovery")
                      ELSE told
     IN /\ Takes(Polled(app, next))
        /\ thread' = IF next.jobs # app.jobs THEN Spawned ELSE thread

\* The thread is gone without a Done.
PollLost ==
  /\ app.ticking /\ InStage("lost") /\ chan = <<>>
  /\ Becomes(Polled(app,
       EndFlash([app EXCEPT
         !.planning = None, !.recoveryPlanning = None, !.prepared = None,
         !.job = NoJob, !.result = "error",
         !.failure = IF MayWrite(app.job) THEN "uncertain" ELSE "no_write"])))

Poll ==
  \/ PollOrigin \/ PollProfile \/ PollReport
  \/ PollPrepared \/ PollMismatch \/ PollQuestion \/ PollDone \/ PollLost

Next == UserInput \/ Answer \/ Worker \/ Poll

Spec == Init /\ [][Next]_vars

\* The threads run, the shell ticks as long as it was told to, and a sheet is
\* answered one day; the operator need do nothing else.
FairSpec ==
  /\ Spec
  /\ WF_vars(Worker)
  /\ WF_vars(PollOrigin) /\ WF_vars(PollProfile)
  /\ WF_vars(PollPrepared \/ PollMismatch \/ PollQuestion \/ PollDone \/ PollLost)
  /\ WF_vars(CancelConfirm) /\ WF_vars(DismissReport)

-----------------------------------------------------------------------------
(* Properties                                                              *)

\* The fields of the App, the thread and its messages have the values the
\* source gives them.
TypeOK ==
  /\ app.drives \subseteq Drives /\ app.device \in Drives \cup {None}
  /\ app.profile \in Profile \cup {None}
  /\ app.probe \in {"none", "user", "reply"}
  /\ app.task \in {"Flash", "Recovery", "Other"}
  /\ app.failure \in {"none", "no_write", "uncertain"}
  /\ app.result \in {"none", "ok", "error", "cancelled"}
  /\ \A t \in {app.planning, app.recoveryPlanning, app.flashing, app.prepared} :
       t \in Targets \cup {None}
  /\ app.pending \in Sheets \cup {None}
  /\ thread \in [stage : {"run", "backup?", "waived", "flash?", "write", "lost", "ended"},
                 answer : {"none", "yes", "no"}, touched : BOOLEAN]
  /\ Len(chan) <= 2

\* No update gets as far as writing unless the risk box was ticked on the
\* very sheet that described it: its drive, its files and its override.  A
\* tick left over from an earlier sheet counts for nothing.
ConsentIsForTheJob ==
  MayWrite(app.job) /\ InStage("write") =>
    app.consent = [ticked |-> TRUE,
                   target |-> [drive |-> app.job.drive, options |-> app.job.options]]

\* An open sheet speaks for something that still waits for it: the question
\* of the flash that runs, or the recovery that is prepared for what it shows.
SheetIsLive ==
  app.pending # None =>
    CASE app.pending.sheet = "FamilyOverride" -> ~Running(app)
      [] app.pending.sheet = "Recovery" ->
           ~Running(app) /\ app.prepared = app.pending.target
      [] OTHER ->
           /\ InStage("backup?") \/ InStage("flash?")
           /\ thread.answer = "none"
           /\ app.pending.target = [drive |-> app.job.drive, options |-> app.job.options]

\* The family check is overridden only for the drive and the files for which
\* the operator typed the code, however the selection changed since, and a job
\* that overrides it is for those.
OverrideIsForSelection ==
  /\ app.bypass => app.overrideFor = SelectedFor(app)
  /\ app.job.kind \in {"PrepareRecovery", "ExecuteRecovery"} /\ app.job.options.bypass =>
       app.overrideFor = [drive |-> app.job.drive,
                          options |-> [app.job.options EXCEPT !.bypass = FALSE]]

\* What is shown about a chosen file comes from an inspection of the latest
\* choice, also when an earlier inspection of the same path reports late; a
\* chosen member is one of that file.
InspectionIsCurrent ==
  \A pick \in Picks :
    LET contents == IF app.file[pick] = None THEN {} ELSE MembersIn[app.file[pick]] IN
    /\ app.origin[pick] \in {0, app.version[pick]}
    /\ app.members[pick] \subseteq contents
    /\ app.member[pick] \in app.members[pick] \cup {None}

\* When a job ends, what the operator is told of it is true: a job that
\* touched the drive is never called cancelled or said to have written
\* nothing, one is called cancelled only if the operator refused its question,
\* and a job that cannot write is never said to have.
OutcomeIsTrue ==
  [][ Running(app) /\ app'.job # app.job /\ app'.result # "none" =>
        /\ app'.result = "cancelled" => thread.answer = "no" /\ ~thread.touched
        /\ thread.touched /\ app'.result = "error" => app'.failure = "uncertain"
        /\ ~MayWrite(app.job) /\ app'.result = "error" => app'.failure = "no_write"
    ]_vars

\* Every job ends and its end is taken: no worker waits for an answer that
\* cannot come, and no message is left in a channel nobody polls.
JobsEnd == Running(app) ~> ~Running(app)

\* As long as an update that touched the drive is the operation on display,
\* nothing shown under it says that no firmware was written
\* (`0.15.0-operation-contract.json`: "never claim no change after uncertain
\* writes").
NeverClaimsNoChange ==
  thread.touched /\ MayWrite([kind |-> app.action]) => app.failure # "no_write"

\* The program does not probe the drive by itself during an update, nor after
\* one that failed after it touched the drive
\* (`0.13.4-flash-lifecycle-audit.json`: "errors and panics must not trigger
\* unconditional enumeration").
NoProbeAroundUpdate ==
  thread.touched /\ app.probe = "reply" => ~Running(app) /\ app.failure # "uncertain"
=============================================================================
