------------------------------ MODULE PioneerUpdate ------------------------------
(***************************************************************************)
(* The Pioneer update executor: execute_with_sleep, its Runtime and        *)
(* execution_error of backends/pioneer/flash.rs.  An update may change     *)
(* startup settings first and then has one or more stages, of which all    *)
(* but the last leave temporary firmware.                                  *)
(*                                                                         *)
(* The command sequence is the library pioneer_optical's; it is modelled   *)
(* from its callbacks into Runtime, the errors that execution_error        *)
(* distinguishes and the tests of both.  Transitions of persistent banks   *)
(* are left out.                                                           *)
(***************************************************************************)
EXTENDS Naturals

CONSTANTS
    MaxStages,   \* stages of the longest plan
    Settings,    \* startup settings that a plan can change
    Torn,        \* neither the installed firmware nor a stage's, or some of both
    None         \* no report

ASSUME StageAssumption == MaxStages \in Nat \ {0} /\ Torn \notin Nat

Roles == {"kernel", "normal"}
Checks == {"Matched", "Mismatched", "Unavailable", "NotChecked", "NotRequested"}
Steps == {"settings", "check", "announce", "entry", "kernel", "normal", "finish", "confirm",
          "rollback", "failed", "done"}
Rollbacks == {"Unchanged", "Restored", "Failed", "UnsafeAfterFirmwareWrite"}
Progress == {"Preflight", "PayloadAttempted", "UploadComplete"}
Report == [kind : {"failed", "completed"}, progress : Progress, writeStarted : BOOLEAN,
           temporary : BOOLEAN, completed : Nat,
           issue : {"none", "StartupSettingRestored", "StartupSettingUncertain"}]

ASSUME NoneAssumption == None \notin Report

VARIABLES
    mode, total, requested, wanted,   \* the plan: ExecutionMode, stages, roles, settings
    step, completed,                  \* the library: where it is, stages done
    tried, rollback,                  \* settings written to, and what undoing them gave
    firmwareStarted,                  \* an update command was attempted
    counted, checks, startup,         \* Runtime: stages seen, UpdateVerification
    report,
    \* the drive:
    changed,   \* settings that do not have their original value
    reached,   \* the furthest update command it received
    holds      \* per role: 0 what was installed, k the image of stage k, or Torn

plan == <<mode, total, requested, wanted>>
library == <<tried, rollback, firmwareStarted>>
runtime == <<counted, checks, startup>>
drive == <<changed, reached, holds>>
pioneerVars == <<plan, step, completed, library, runtime, report, drive>>

Unverified == [r \in Roles |-> IF r \in requested THEN "NotChecked" ELSE "NotRequested"]

(* A plan with Kernel has as many stages as its bridges take; a Normal-only *)
(* plan has one.                                                            *)
PioneerInit ==
    /\ mode \in {"Flash", "Recovery"}
    /\ \/ requested = Roles /\ total \in 1 .. MaxStages
       \/ requested = {"normal"} /\ total = 1 /\ mode = "Flash"
    /\ wanted \in SUBSET Settings
    /\ step = "settings" /\ completed = 0
    /\ tried = {} /\ rollback = [s \in Settings |-> "Unchanged"] /\ firmwareStarted = FALSE
    /\ counted = 0 /\ checks = Unverified /\ startup = FALSE /\ report = None
    /\ changed = {} /\ reached = "nothing" /\ holds = [r \in Roles |-> 0]

Goto(s) == step' = s
Fail == step' = "rollback"
Image == completed + 1

-----------------------------------------------------------------------------
(* The library's sequence. *)

(* A startup setting is read, written and read back. A failed write may *)
(* have changed it.                                                     *)
ChangeSetting(s) ==
    /\ step = "settings" /\ s \in wanted \ tried
    /\ \/ Fail /\ UNCHANGED <<tried, changed>>
       \/ /\ tried' = tried \cup {s}
          /\ \/ changed' = changed \cup {s} /\ step' \in {"settings", "rollback"}
             \/ changed' = changed /\ Fail
    /\ UNCHANGED <<plan, completed, rollback, firmwareStarted, runtime, report, reached, holds>>

SettingsChanged ==
    /\ step = "settings" /\ tried = wanted /\ Goto("check")
    /\ UNCHANGED <<plan, completed, library, runtime, report, drive>>

\* A mutant: what an earlier stage verified is kept.
AnnounceKeeping ==
    /\ step = "announce"
    /\ Fail \/ Goto("entry")
    /\ UNCHANGED <<plan, completed, library, runtime, report, drive>>

\* Receiver and plan are compared once more, which may refuse any stage; then
\* Runtime::starting forgets what was verified before.
Announce ==
    /\ step = "announce"
    /\ \/ Fail /\ UNCHANGED <<checks, startup>>
       \/ Goto("entry") /\ checks' = Unverified /\ startup' = FALSE
    /\ UNCHANGED <<plan, completed, library, counted, report, drive>>

(* Update entry, the first firmware-update command of a stage. *)
Enter ==
    /\ step = "entry" /\ firmwareStarted' = TRUE
    /\ \/ /\ reached' = IF reached = "payload" THEN reached ELSE "entry"
          /\ Fail \/ Goto(IF "kernel" \in requested THEN "kernel" ELSE "normal")
       \/ Fail /\ UNCHANGED reached
    /\ UNCHANGED <<plan, completed, tried, rollback, runtime, report, changed, holds>>

(* The transfer of one role; a failed chunk may or may not have arrived. *)
Transfer(role) ==
    /\ step = role
    /\ \/ /\ reached' = "payload"
          /\ holds' \in {holds, [holds EXCEPT ![role] = Torn]}
          /\ Fail \/ Goto(IF role = "kernel" THEN "normal" ELSE "finish")
       \/ Fail /\ UNCHANGED <<reached, holds>>
    /\ UNCHANGED <<plan, completed, library, runtime, report, changed>>

(* The finish command and the readiness polls: the drive programs, or not. *)
Finish ==
    /\ step = "finish"
    /\ holds' \in [Roles -> {Torn, Image} \cup 0 .. completed]
    /\ \A r \in Roles : holds'[r] \in {holds[r], Torn, Image}
    /\ \A r \in Roles \ requested : holds'[r] = holds[r]
    /\ Fail \/ Goto("confirm")
    /\ UNCHANGED <<plan, completed, library, runtime, report, changed, reached>>

(* Runtime::verified or verification_unavailable; a mismatch is an error. *)
Verify(role) ==
    /\ step = "confirm" /\ role \in requested /\ checks[role] = "NotChecked"
    /\ \E c \in {IF holds[role] = Image THEN "Matched" ELSE "Mismatched", "Unavailable"} :
         /\ checks' = [checks EXCEPT ![role] = c]
         /\ IF c = "Mismatched" THEN Fail ELSE Goto(step)
    /\ UNCHANGED <<plan, completed, library, counted, startup, report, drive>>

(* Runtime::startup_confirmed, or the new firmware does not answer. *)
ConfirmStartup ==
    /\ step = "confirm" /\ ~startup
    /\ \/ Fail /\ startup' = startup
       \/ (\A r \in requested : holds[r] = Image) /\ Goto(step) /\ startup' = TRUE
    /\ UNCHANGED <<plan, completed, library, counted, checks, report, drive>>

(* Settings are put back, unless the firmware may have changed. *)
Rollback ==
    /\ step = "rollback" /\ Goto("failed")
    /\ IF firmwareStarted
       THEN /\ rollback' = [s \in Settings |-> IF s \in tried THEN "UnsafeAfterFirmwareWrite"
                                               ELSE "Unchanged"]
            /\ changed' = changed
       ELSE \E back \in SUBSET tried :
            /\ rollback' = [s \in Settings |-> IF s \notin tried THEN "Unchanged"
                                               ELSE IF s \in back THEN "Restored" ELSE "Failed"]
            /\ changed' \in {c \in SUBSET tried : c \cap back = {}}
    /\ UNCHANGED <<plan, completed, tried, firmwareStarted, runtime, report, reached, holds>>

-----------------------------------------------------------------------------
(* The executor. *)

(* Runtime::check_stage: a recovery goes on with a disc in the tray. *)
CheckStage ==
    /\ step = "check"
    /\ counted' = IF counted < completed THEN completed ELSE counted
    /\ Goto("announce") \/ (mode = "Flash" /\ Fail)
    /\ UNCHANGED <<plan, completed, library, checks, startup, report, drive>>

StageCompletes ==
    /\ step = "confirm" /\ startup /\ (\A r \in requested : checks[r] # "NotChecked")
    /\ completed' = Image
    /\ IF Image < total THEN Goto("check") /\ report' = report
       ELSE /\ Goto("done")
            /\ report' = [kind |-> "completed", progress |-> "UploadComplete",
                          writeStarted |-> TRUE, temporary |-> FALSE,
                          completed |-> Image, issue |-> "none"]
    /\ UNCHANGED <<plan, library, runtime, drive>>

\* ExecutionError::completed_stages: an error need not tell of a stage that
\* check_stage has counted.
TellsOf(n) == n = completed \/ (n = 0 /\ counted = completed)

\* A mutant: only what the error tells.
CompletedStagesTold(told) == told

CompletedStages(told) == IF counted < told THEN told ELSE counted

\* A mutant: one restored setting stands for all.
StartupIssueOfAny(stages) ==
    IF stages > 0 \/ firmwareStarted THEN "none"
    ELSE IF \E s \in Settings : rollback[s] = "Restored" THEN "StartupSettingRestored"
    ELSE IF \E s \in Settings : rollback[s] = "Failed" THEN "StartupSettingUncertain"
    ELSE "none"

StartupIssue(stages) ==
    IF stages > 0 \/ firmwareStarted THEN "none"
    ELSE IF \E s \in Settings : rollback[s] = "Failed" THEN "StartupSettingUncertain"
    ELSE IF \E s \in Settings : rollback[s] = "Restored" THEN "StartupSettingRestored"
    ELSE "none"

FailureProgress(stages) ==
    IF stages > 0 THEN "UploadComplete"
    ELSE IF firmwareStarted THEN "PayloadAttempted" ELSE "Preflight"

\* A mutant: temporary firmware is what a completed stage left.
TemporaryAfterStage == total > 1 /\ completed > 0

\* Every plan of several stages ends with one that restores the Kernel.
TemporaryFirmware == total > 1 /\ firmwareStarted

(* execution_error. *)
ReportFailure ==
    /\ step = "failed" /\ Goto("done")
    /\ \E told \in 0 .. completed :
         /\ TellsOf(told)
         /\ LET stages == CompletedStages(told)
            IN  report' = [kind |-> "failed", progress |-> FailureProgress(stages),
                           writeStarted |-> firmwareStarted \/ tried # {},
                           temporary |-> TemporaryFirmware,
                           completed |-> stages, issue |-> StartupIssue(stages)]
    /\ UNCHANGED <<plan, completed, library, runtime, drive>>

PioneerNext ==
    \/ \E s \in Settings : ChangeSetting(s)
    \/ SettingsChanged \/ CheckStage \/ Announce \/ Enter
    \/ \E r \in Roles : Transfer(r) \/ Verify(r)
    \/ Finish \/ ConfirmStartup \/ StageCompletes \/ Rollback \/ ReportFailure

PioneerSpec == PioneerInit /\ [][PioneerNext]_pioneerVars

\* UpdateFailure::impact, and a completion.
Impact(r) ==
    IF r.kind = "completed" THEN "Completed"
    ELSE IF r.temporary THEN "TemporaryFirmware"
    ELSE IF r.progress = "Preflight" THEN "Blocked" ELSE "PayloadUncertain"

-----------------------------------------------------------------------------
PioneerTypes ==
    /\ mode \in {"Flash", "Recovery"} /\ total \in 1 .. MaxStages
    /\ requested \in SUBSET Roles /\ wanted \in SUBSET Settings
    /\ step \in Steps /\ completed \in 0 .. total
    /\ tried \in SUBSET Settings /\ rollback \in [Settings -> Rollbacks]
    /\ firmwareStarted \in BOOLEAN /\ counted \in Nat
    /\ checks \in [Roles -> Checks] /\ startup \in BOOLEAN
    /\ report \in Report \cup {None}
    /\ changed \in SUBSET Settings /\ reached \in {"nothing", "entry", "payload"}
    /\ holds \in [Roles -> 0 .. total \cup {Torn}]

\* What a failure says of the startup settings is so: "restored" means that all
\* have their original values, and a failure that is shown as stopped before the
\* update with a setting left changed carries the warning. Either is said only
\* of a drive that received no update command. (pioneer/flash.rs: execution_error.)
GuidanceIsTrue ==
    report # None /\ report.kind = "failed" =>
        /\ report.issue # "none" => reached = "nothing"
        /\ report.issue = "StartupSettingRestored" => changed = {}
        /\ Impact(report) = "Blocked" /\ changed # {} => report.issue = "StartupSettingUncertain"

\* No stage that completed goes missing from a failure report, whether or not
\* the error tells of it. (pioneer/flash.rs: execution_error, check_stage.)
StagesAreCounted == report # None => report.completed = completed

\* Whatever stage fails, a readback reported as matched, or a startup reported
\* as confirmed, is of firmware that the drive still holds whole.
\* (pioneer/flash.rs: Runtime::starting, verified, startup_confirmed.)
VerificationIsCurrent ==
    /\ \A r \in Roles : checks[r] = "Matched" => holds[r] \notin {0, Torn}
    /\ startup => \A r \in requested : holds[r] \notin {0, Torn} /\ holds[r] = holds["normal"]

\* A failed update tells the user neither less than was done nor more than the
\* drive holds: the two above. (pioneer/flash.rs: Runtime, execution_error.)
ReportIsOfTheStages == StagesAreCounted /\ VerificationIsCurrent

\* What the report says of the update, and what the drive runs.
Said == IF report = None THEN "nothing" ELSE Impact(report)
Runs ==
    IF \A r \in requested : holds[r] = 0 THEN "installed"
    ELSE IF \A r \in requested : holds[r] = total THEN "target"
    ELSE IF \E k \in 1 .. total : \A r \in requested : holds[r] = k THEN "temporary"
    ELSE "unproven"

\* The consequence the user is shown is not milder than what the drive received
\* and holds. (pioneer/flash.rs: execution_error; backend/mod.rs: impact.)
Shown == INSTANCE UpdateReport WITH reached <- reached, holds <- Runs, said <- Said

ImplementsUpdateReport == Shown!ReportSpec
=============================================================================
