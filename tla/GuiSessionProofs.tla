-------------------------- MODULE GuiSessionProofs --------------------------
(***************************************************************************)
(* What the front-end's session guarantees for every set of drives, files, *)
(* packages and profiles, and every number of jobs and choices: GuiSession *)
(* checks the same properties on instances.                                *)
(*                                                                         *)
(* The invariant has three parts.  Session ties the job, its thread, its   *)
(* messages and the open sheet to each other; Selection is what the user   *)
(* chose and what the override was confirmed for; Inspection ties the      *)
(* choices that wait for an inspector to what is shown of their files.     *)
(* Most inputs change one part and keep the others by a frame.             *)
(***************************************************************************)
EXTENDS GuiSession, SequenceTheorems, TLAPS

-----------------------------------------------------------------------------
(* Frames                                                                  *)

Fields ==
  {"drives", "device", "profile", "probe", "task", "resultTask", "action", "file",
   "member", "members", "read", "origin", "version", "choices", "inspecting", "queue",
   "mismatch", "bypass", "riskAck", "pending", "planning", "recoveryPlanning",
   "flashing", "prepared", "cancelled", "failure", "result", "job", "jobs",
   "reportPrompt", "reporting", "ticking", "ticked", "consent", "overrideFor"}

\* The fields of one part of the App each.
ShownFields == {"task", "failure", "result", "reportPrompt", "reporting", "ticking"}

DriveFields == {"drives", "device", "profile", "probe", "mismatch"}

FileFields == {"file", "member", "members", "origin", "version", "choices",
               "inspecting", "queue"}

ChoiceFields == ShownFields \cup DriveFields \cup FileFields \cup {"read", "bypass"}

Shape(a) == DOMAIN a = Fields

\* b is a but for the fields of S.
SameBut(a, b, S) == Shape(b) /\ \A f \in Fields \ S : b[f] = a[f]

-----------------------------------------------------------------------------
(* The invariant                                                           *)

For(a) == [drive |-> a.job.drive, options |-> a.job.options]

Kinds == {"Read", "CheckFile", "PlanFlash", "PrepareRecovery", "Flash", "ExecuteRecovery"}

Jobs == [kind : Kinds, drive : Drives \cup {None}, options : Options \cup {None}]

\* The job, and who waits for its end with what it was started for.
JobOK ==
  /\ app.jobs \in Nat
  /\ app.job \in Jobs \cup {NoJob}
  /\ app.job.kind \notin {"none", "Read", "CheckFile"} =>
       app.job.drive # None /\ app.job.options # None
  /\ app.planning = IF app.job.kind = "PlanFlash" THEN For(app) ELSE None
  /\ app.recoveryPlanning = IF app.job.kind = "PrepareRecovery" THEN For(app) ELSE None
  /\ app.flashing = IF app.job.kind = "Flash" THEN For(app) ELSE None

Questions == {"backup?", "flash?"}

Question(stage) == IF stage = "backup?" THEN "BackupUnavailable" ELSE "Authorized"

SheetOf(stage) == IF stage = "backup?" THEN "WithoutBackup" ELSE "Flash"

\* Which stages a thread of which job is in.
ThreadOK ==
  /\ thread \in [stage : {"run", "backup?", "waived", "flash?", "write", "lost", "ended"},
                 answer : {"none", "yes", "no"}, touched : BOOLEAN]
  /\ ~Running(app) => chan = <<>>
  /\ Running(app) =>
       /\ thread.stage \in {"backup?", "waived", "flash?"} => app.job.kind = "Flash"
       /\ thread.stage \in {"write", "lost"} => MayWrite(app.job)
       /\ thread.touched => thread.stage \in {"write", "lost", "ended"} /\ MayWrite(app.job)
       /\ thread.stage = "lost" => thread.touched

\* A question is on its way, is shown, or is answered.
AskingOK ==
  Running(app) /\ thread.stage \in Questions =>
    \/ /\ chan = <<[type |-> Question(thread.stage)]>>
       /\ thread.answer = "none" /\ app.pending = None
    \/ /\ chan = <<>> /\ thread.answer = "none"
       /\ app.pending = [target |-> For(app), sheet |-> SheetOf(thread.stage)]
    \/ chan = <<>> /\ thread.answer # "none" /\ app.pending = None

\* What a thread that ended leaves to be polled.
EndedOK ==
  Running(app) /\ thread.stage = "ended" =>
    LET prepares == app.job.kind = "PrepareRecovery" IN
    \/ /\ chan = Done(TRUE, "none")
       /\ prepares => app.prepared = For(app)
    \/ prepares /\ chan = <<[type |-> "PreparedRecovery"]>> \o Done(TRUE, "none")
    \/ prepares /\ chan = <<[type |-> "FamilyMismatch"]>> \o Done(FALSE, "no_write")
    \/ chan = Done(FALSE, "no_write") /\ ~thread.touched
    \/ chan = Done(FALSE, "uncertain") /\ MayWrite(app.job)

ChanOK ==
  /\ Running(app) /\ thread.stage \in {"run", "waived", "write", "lost"} => chan = <<>>
  /\ Running(app) /\ thread.stage \notin Questions => app.pending = None
  /\ AskingOK /\ EndedOK

\* A prepared recovery waits for its sheet, then for the answer.
PreparedOK ==
  app.prepared # None =>
    \/ /\ Running(app) /\ app.job.kind = "PrepareRecovery" /\ thread.stage = "ended"
       /\ chan = Done(TRUE, "none") /\ app.prepared = For(app)
    \/ /\ ~Running(app) /\ app.pending = [target |-> app.prepared, sheet |-> "Recovery"]
       /\ app.prepared \in Targets
       /\ app.prepared.drive # None /\ app.prepared.options # None

PendingOK ==
  app.pending # None =>
    /\ app.pending \in Sheets
    /\ ~Running(app) => app.pending.sheet \in {"FamilyOverride", "Recovery"}
    /\ app.pending.sheet = "Recovery" => app.prepared = app.pending.target

\* A refused question, until the job that asked it ends.
CancelledOK ==
  app.cancelled =>
    /\ Running(app) /\ app.job.kind = "Flash"
    /\ thread.stage \in Questions \cup {"ended"}
    /\ thread.answer = "no" /\ ~thread.touched

Given == app.consent = [ticked |-> TRUE, target |-> For(app)]

ConsentOK ==
  /\ app.riskAck \in BOOLEAN
  /\ app.riskAck => app.ticked = TRUE
  /\ Running(app) /\ app.job.kind = "ExecuteRecovery" => Given
  /\ Running(app) /\ app.job.kind = "Flash" =>
       /\ thread.stage = "write" => Given
       /\ thread.stage = "flash?" /\ thread.answer = "yes" => Given

Session ==
  JobOK /\ ThreadOK /\ ChanOK /\ PreparedOK /\ PendingOK /\ CancelledOK /\ ConsentOK

\* A target whose options do not override.
WithoutOverride(t) == [drive |-> t.drive, options |-> [t.options EXCEPT !.bypass = FALSE]]

\* What the user chose, and what the override was confirmed for.
ChoiceOK ==
  /\ app.drives \subseteq Drives /\ app.device \in Drives \cup {None}
  /\ app.profile \in Profile \cup {None}
  /\ app.probe \in {"none", "user", "reply"}
  /\ app.probe # "none" => app.device # None
  /\ app.file \in [Picks -> Files \cup {None}]
  /\ app.member \in [Picks -> Members \cup {None}]
  /\ app.read \in [{"Flash", "Recovery"} -> BOOLEAN]
  /\ app.bypass \in BOOLEAN

OverrideOK ==
  /\ OverrideIsForSelection
  /\ app.prepared # None /\ app.prepared.options.bypass =>
       app.overrideFor = WithoutOverride(app.prepared)

Selection == ChoiceOK /\ OverrideOK

\* The choices that wait are in the order in which they were made, one of a
\* chooser, and the one that is inspected was made before them.
QueueOK(a) ==
  /\ a.choices \in Nat
  /\ a.version \in [Picks -> Nat] /\ a.origin \in [Picks -> Nat]
  /\ a.queue \in Seq(Waits)
  /\ a.inspecting \in Waits \cup {None}
  /\ \A i \in DOMAIN a.queue : a.queue[i].version <= a.choices
  /\ \A i, j \in DOMAIN a.queue : i < j =>
       /\ a.queue[i].version < a.queue[j].version
       /\ a.queue[i].pick # a.queue[j].pick
  /\ a.inspecting # None =>
       /\ a.inspecting.version <= a.choices
       /\ \A i \in DOMAIN a.queue : a.inspecting.version < a.queue[i].version

\* Nothing is shown of the latest choice of a chooser while it waits.
Awaits(a, w) ==
  a.version[w.pick] = w.version => a.members[w.pick] = {} /\ a.member[w.pick] = None

\* InspectionIsCurrent, of one chooser of any App.
IsCurrent(a, pick) ==
  LET contents == IF a.file[pick] = None THEN {} ELSE MembersIn[a.file[pick]] IN
  /\ a.origin[pick] \in {0, a.version[pick]}
  /\ a.members[pick] \subseteq contents
  /\ a.member[pick] \in a.members[pick] \cup {None}

ShownOK(a) ==
  /\ a.file \in [Picks -> Files \cup {None}]
  /\ a.member \in [Picks -> Members \cup {None}]
  /\ a.members \in [Picks -> SUBSET Members]
  /\ a.members["FlashFirmware"] = {}
  /\ \A pick \in Picks : IsCurrent(a, pick)
  /\ a.inspecting # None => Awaits(a, a.inspecting)
  /\ \A i \in DOMAIN a.queue : Awaits(a, a.queue[i])

Inspection(a) == QueueOK(a) /\ ShownOK(a)

SessionInv == Shape(app) /\ Session /\ Selection /\ Inspection(app)

-----------------------------------------------------------------------------
(* Inputs that leave the job and its sheet alone                           *)

\* No part of the session changes, except that a tick may be withdrawn.
Quiet ==
  /\ SameBut(app, app', ChoiceFields \cup {"riskAck"})
  /\ app'.riskAck \in {app.riskAck, FALSE}
  /\ UNCHANGED <<thread, chan>>

\* A quiet step preserves the first part of the invariant.
LEMMA QuietKeepsSession ==
  ASSUME Shape(app), Session, Quiet
  PROVE  Session'
<1> USE DEF Quiet, SameBut, Shape, Fields, ChoiceFields, ShownFields, DriveFields, FileFields
<1>1. JobOK' BY DEF Session, JobOK, For, Running
<1>2. ThreadOK' BY DEF Session, ThreadOK, Running
<1>3. ChanOK' BY DEF Session, ChanOK, AskingOK, EndedOK, For, Running
<1>4. PreparedOK' BY DEF Session, PreparedOK, For, Running
<1>5. PendingOK' BY DEF Session, PendingOK, Running
<1>6. CancelledOK' BY DEF Session, CancelledOK, Running
<1>7. ConsentOK' BY DEF Session, ConsentOK, Given, For, Running
<1>8. QED BY <1>1, <1>2, <1>3, <1>4, <1>5, <1>6, <1>7 DEF Session

\* While the program waits for an input, nothing is prepared.
LEMMA IdleFacts ==
  ASSUME Session, Idle
  PROVE  /\ ~Running(app) /\ app.job = NoJob /\ app.pending = None /\ app.probe = "none"
         /\ app.prepared = None /\ chan = <<>> /\ ~app.reportPrompt
<1>1. ~Running(app) /\ app.job = NoJob /\ app.pending = None /\ app.probe = "none" /\ ~app.reportPrompt
  BY DEF Idle, Busy, Running
<1>2. chan = <<>> BY <1>1 DEF Session, ThreadOK
<1>3. ASSUME app.prepared # None PROVE FALSE
  <2>1. app.pending = [target |-> app.prepared, sheet |-> "Recovery"] /\ app.prepared \in Targets
    BY <1>1, <1>3 DEF Session, PreparedOK
  <2>2. app.pending \in Sheets BY <2>1 DEF Sheets
  <2>3. QED BY <1>1, <2>2, NoneAssumption
<1>4. QED BY <1>1, <1>2, <1>3


-----------------------------------------------------------------------------
(* Frames of the handlers' pieces                                          *)

LEMMA ForgetOverrideFrame ==
  ASSUME NEW a, Shape(a)
  PROVE  /\ SameBut(a, ForgetOverride(a), {"mismatch", "bypass"})
         /\ ForgetOverride(a).bypass = FALSE
BY DEF ForgetOverride, SameBut, Shape, Fields

LEMMA ClearFlashResultFrame ==
  ASSUME NEW a, Shape(a)
  PROVE  /\ SameBut(a, ClearFlashResult(a), {"prepared", "failure", "result"})
         /\ ClearFlashResult(a).prepared = None
BY DEF ClearFlashResult, SameBut, Shape, Fields

LEMMA StartProfileFrame ==
  ASSUME NEW a, Shape(a), NEW by
  PROVE  /\ SameBut(a, StartProfile(a, by), {"profile", "probe", "ticking"})
         /\ StartProfile(a, by).profile = None
         /\ StartProfile(a, by).probe = IF a.device = None THEN "none" ELSE by
BY DEF StartProfile, SameBut, Shape, Fields

LEMMA RefreshCurrentFrame ==
  ASSUME NEW a, Shape(a), NEW by
  PROVE  /\ SameBut(a, RefreshCurrentProfile(a, by), {"profile", "probe", "ticking"})
         /\ RefreshCurrentProfile(a, by).profile \in {None, a.profile}
         /\ RefreshCurrentProfile(a, by).probe \in
              IF a.device = None THEN {"none", a.probe} ELSE {by, a.probe}
BY StartProfileFrame DEF RefreshCurrentProfile, SameBut

LEMMA SetProfileFrame ==
  ASSUME NEW a, Shape(a), NEW p
  PROVE  /\ SameBut(a, SetProfile(a, p), {"failure", "probe", "profile", "read", "bypass"})
         /\ SetProfile(a, p).probe = "none"
         /\ SetProfile(a, p).profile = IF p = None THEN a.profile ELSE p
         /\ p = None => /\ SetProfile(a, p).bypass = a.bypass
                        /\ SetProfile(a, p).read = a.read
BY DEF SetProfile, SameBut, Shape, Fields

LEMMA SetProfileValues ==
  ASSUME NEW a, Shape(a), NEW p, p # None
  PROVE  /\ SetProfile(a, p).bypass \in BOOLEAN
         /\ SetProfile(a, p).bypass => a.bypass /\ p.override
         /\ SetProfile(a, p).read = [t \in DOMAIN a.read |-> a.read[t] /\ p.canRead]
<1>1. SetProfile(a, p).bypass \in BOOLEAN BY DEF SetProfile, Shape, Fields
<1>2. SetProfile(a, p).bypass => a.bypass /\ p.override BY DEF SetProfile, Shape, Fields
<1>3. SetProfile(a, p).read = [t \in DOMAIN a.read |-> a.read[t] /\ p.canRead]
  BY DEF SetProfile, Shape, Fields
<1>4. QED BY <1>1, <1>2, <1>3

LEMMA StartOriginFrame ==
  ASSUME NEW a, Shape(a)
  PROVE  SameBut(a, StartOrigin(a), {"inspecting", "queue"})
BY DEF StartOrigin, SameBut, Shape, Fields

LEMMA ReadOriginFrame ==
  ASSUME NEW a, Shape(a), NEW pick, NEW f
  PROVE  SameBut(a, ReadOrigin(a, pick, f),
                 {"origin", "choices", "version", "queue", "inspecting", "ticking"})
<1> DEFINE b == [a EXCEPT
       !.origin[pick] = 0, !.choices = a.choices + 1, !.version[pick] = a.choices + 1,
       !.queue = Append(Retained(a.queue, pick),
                        [pick |-> pick, file |-> f, version |-> a.choices + 1]),
       !.ticking = TRUE]
<1>1. SameBut(a, b, {"origin", "choices", "version", "queue", "ticking"})
  BY DEF SameBut, Shape, Fields
<1>2. ReadOrigin(a, pick, f) = StartOrigin(b) BY DEF ReadOrigin
<1>3. SameBut(b, StartOrigin(b), {"inspecting", "queue"}) BY <1>1, StartOriginFrame DEF SameBut
<1>4. QED BY <1>1, <1>2, <1>3 DEF SameBut

LEMMA StartJobFrame ==
  ASSUME NEW a, Shape(a), NEW kind, NEW drive, NEW options
  PROVE  SameBut(a, StartJob(a, kind, drive, options),
                 {"job", "jobs", "resultTask", "action", "failure", "result", "mismatch",
                  "consent", "ticking"})
BY DEF StartJob, SameBut, Shape, Fields

LEMMA EndFlashFrame ==
  ASSUME NEW a, Shape(a)
  PROVE  /\ SameBut(a, EndFlash(a), {"flashing", "pending", "riskAck"})
         /\ EndFlash(a).flashing = None
         /\ EndFlash(a).riskAck \in {a.riskAck, FALSE}
         /\ EndFlash(a).pending \in {a.pending, None}
         /\ a.pending = None => EndFlash(a).pending = None /\ EndFlash(a).riskAck = a.riskAck
BY DEF EndFlash, SameBut, Shape, Fields

LEMMA PolledFrame ==
  ASSUME NEW a, NEW b, Shape(b)
  PROVE  SameBut(b, Polled(a, b), {"ticking"})
BY DEF Polled, SameBut, Shape, Fields

LEMMA ForgetAndClearFrame ==
  ASSUME NEW a, Shape(a)
  PROVE  LET c == ClearFlashResult(ForgetOverride(a)) IN
         /\ SameBut(a, c, {"mismatch", "bypass", "prepared", "failure", "result"})
         /\ c.bypass = FALSE /\ c.prepared = None
<1> DEFINE b == ForgetOverride(a)
           c == ClearFlashResult(b)
<1>1. SameBut(a, b, {"mismatch", "bypass"}) /\ b.bypass = FALSE
  BY ForgetOverrideFrame
<1> HIDE DEF b
<1>2. SameBut(b, c, {"prepared", "failure", "result"}) /\ c.prepared = None
  BY <1>1, ClearFlashResultFrame DEF SameBut
<1> HIDE DEF c
<1>3. /\ SameBut(a, c, {"mismatch", "bypass", "prepared", "failure", "result"})
      /\ c.bypass = FALSE /\ c.prepared = None
  BY <1>1, <1>2 DEF SameBut, Fields
<1>4. QED BY <1>3 DEF b, c

-----------------------------------------------------------------------------
(* What quiet steps keep of the other parts                                *)

\* The override stays only with the selection it was confirmed for.
LEMMA QuietKeepsSelection ==
  ASSUME Shape(app), Session, Selection, Quiet, ChoiceOK',
         app'.bypass => app.bypass /\ SelectedFor(app') = SelectedFor(app)
  PROVE  Selection'
<1> USE DEF Quiet, SameBut, Shape, Fields, ChoiceFields, ShownFields, DriveFields, FileFields
<1>1. /\ app'.job = app.job /\ app'.prepared = app.prepared
      /\ app'.overrideFor = app.overrideFor
  OBVIOUS
<1>2. OverrideIsForSelection'
  BY <1>1 DEF Selection, OverrideOK, OverrideIsForSelection, SelectedFor
<1>3. OverrideOK'
  BY <1>1, <1>2 DEF Selection, OverrideOK, WithoutOverride
<1>4. QED BY <1>3 DEF Selection

LEMMA RecoveryOptionsBut ==
  ASSUME NEW a, NEW bypass
  PROVE  [RecoveryOptions(a) EXCEPT !.bypass = bypass] =
         [input |-> a.file["RecoveryInput"], member |-> a.member["RecoveryInput"],
          current |-> IF a.read["Recovery"] THEN None ELSE a.file["RecoveryCurrent"],
          currentMember |-> IF a.read["Recovery"] THEN None ELSE a.member["RecoveryCurrent"],
          bypass |-> bypass]
BY DEF RecoveryOptions

\* The selection is a matter of six values.
LEMMA SelectedSame ==
  ASSUME NEW a, NEW b,
         b.device = a.device, b.read["Recovery"] = a.read["Recovery"],
         b.file["RecoveryInput"] = a.file["RecoveryInput"],
         b.file["RecoveryCurrent"] = a.file["RecoveryCurrent"],
         b.member["RecoveryInput"] = a.member["RecoveryInput"],
         b.member["RecoveryCurrent"] = a.member["RecoveryCurrent"]
  PROVE  SelectedFor(b) = SelectedFor(a)
<1> DEFINE but(x, bypass) == [RecoveryOptions(x) EXCEPT !.bypass = bypass]
<1>1. ASSUME NEW bypass PROVE but(b, bypass) = but(a, bypass)
  <2> DEFINE supplied(x, v) == IF x.read["Recovery"] THEN None ELSE v
             selected(x) ==
               [input |-> x.file["RecoveryInput"], member |-> x.member["RecoveryInput"],
                current |-> supplied(x, x.file["RecoveryCurrent"]),
                currentMember |-> supplied(x, x.member["RecoveryCurrent"]),
                bypass |-> bypass]
  <2>1. /\ supplied(b, b.file["RecoveryCurrent"]) = supplied(a, a.file["RecoveryCurrent"])
        /\ supplied(b, b.member["RecoveryCurrent"]) = supplied(a, a.member["RecoveryCurrent"])
    OBVIOUS
  <2>2. but(a, bypass) = selected(a) BY RecoveryOptionsBut
  <2>3. but(b, bypass) = selected(b) BY RecoveryOptionsBut
  <2> HIDE DEF supplied, but
  <2>4. QED BY <2>1, <2>2, <2>3
<1>2. [RecoveryOptions(b) EXCEPT !.bypass = FALSE] = [RecoveryOptions(a) EXCEPT !.bypass = FALSE]
  BY <1>1
<1>3. QED BY <1>2 DEF SelectedFor, Target

\* Inspection is a matter of the choosers' fields.
LEMMA FilesKeepInspection ==
  ASSUME NEW a, NEW b, Inspection(a), SameBut(a, b, Fields \ FileFields)
  PROVE  Inspection(b)
<1>1. /\ b.file = a.file /\ b.member = a.member /\ b.members = a.members
      /\ b.origin = a.origin /\ b.version = a.version /\ b.choices = a.choices
      /\ b.inspecting = a.inspecting /\ b.queue = a.queue
  BY DEF SameBut, Fields, FileFields
<1>2. QueueOK(b) BY <1>1 DEF Inspection, QueueOK
<1>3. ShownOK(b) BY <1>1 DEF Inspection, ShownOK, IsCurrent, Awaits
<1>4. QED BY <1>2, <1>3 DEF Inspection

-----------------------------------------------------------------------------
(* The quiet steps                                                         *)

\* A handler that changes no more than this is quiet.
LEMMA BecomesQuiet ==
  ASSUME NEW a, Becomes(a), SameBut(app, a, ChoiceFields \cup {"riskAck"}),
         a.riskAck \in {app.riskAck, FALSE}
  PROVE  app' = a /\ Quiet
<1>1. a.jobs = app.jobs
  BY DEF SameBut, Fields, ChoiceFields, ShownFields, DriveFields, FileFields
<1>2. QED BY <1>1 DEF Becomes, Quiet

LEMMA SelectDriveStep ==
  ASSUME Shape(app), Session, Selection, Inspection(app), NEW d \in Drives, SelectDrive(d)
  PROVE  Quiet /\ Selection' /\ Inspection(app')
<1> DEFINE c == ClearFlashResult(ForgetOverride(app))
           e == [c EXCEPT !.device = d, !.read = [t \in DOMAIN @ |-> TRUE],
                          !.riskAck = FALSE, !.failure = "none", !.result = "none"]
           z == StartProfile(e, "user")
           S == {"mismatch", "bypass", "failure", "result", "device", "read", "riskAck"}
<1>1. Becomes(z) BY DEF SelectDrive
<1>2. app.prepared = None BY IdleFacts DEF SelectDrive
<1>3. /\ SameBut(app, c, {"mismatch", "bypass", "prepared", "failure", "result"})
      /\ c.bypass = FALSE /\ c.prepared = None
  BY ForgetAndClearFrame
<1> HIDE DEF c
<1>4. /\ SameBut(app, e, S)
      /\ e.bypass = FALSE /\ e.device = d /\ e.riskAck = FALSE
      /\ e.read = [t \in DOMAIN app.read |-> TRUE]
  BY <1>2, <1>3, ZenonT(40) DEF SameBut, Shape, Fields
<1> HIDE DEF e
<1>5. /\ SameBut(e, z, {"profile", "probe", "ticking"})
      /\ z.profile = None /\ z.probe = "user"
  BY <1>4, StartProfileFrame, ProfileAssumption DEF SameBut
<1> HIDE DEF z
<1>6. SameBut(app, z, S \cup {"profile", "probe", "ticking"})
  BY <1>4, <1>5 DEF SameBut
<1>7. app' = z /\ Quiet
  BY <1>1, <1>4, <1>5, <1>6, BecomesQuiet
     DEF SameBut, Fields, ChoiceFields, ShownFields, DriveFields
<1>8. ChoiceOK' /\ app'.bypass = FALSE
  <2>1. z.drives = app.drives /\ z.file = app.file /\ z.member = app.member
    BY <1>6 DEF SameBut, Fields
  <2>2. z.device = d /\ z.read = e.read /\ z.bypass = FALSE
    BY <1>4, <1>5 DEF SameBut, Fields
  <2>3. z.read \in [{"Flash", "Recovery"} -> BOOLEAN]
    BY <1>4, <2>2 DEF ChoiceOK, Selection
  <2>4. z.device \in Drives /\ z.device # None
    BY <2>2, ProfileAssumption
  <2>5. QED BY <1>5, <1>7, <2>1, <2>2, <2>3, <2>4 DEF ChoiceOK, Selection
<1>9. Selection' BY <1>7, <1>8, QuietKeepsSelection
<1>10. Inspection(app') BY <1>6, <1>7, FilesKeepInspection DEF SameBut, FileFields, Fields
<1>11. QED BY <1>7, <1>9, <1>10

\* A selected drive that is gone takes the override along.
LEMMA RefreshStep ==
  ASSUME Shape(app), Session, Selection, Inspection(app), Refresh
  PROVE  Quiet /\ Selection' /\ Inspection(app')
<1>0. /\ ~Running(app) /\ app.pending = None /\ app.prepared = None
  BY IdleFacts DEF Refresh
<1>1. PICK drives \in SUBSET Drives :
        LET a == [app EXCEPT !.drives = drives] IN
        IF app.device \in drives THEN Becomes(StartProfile(a, "user"))
        ELSE \E d \in FirstOf(drives) :
               Becomes(StartProfile(
                 [ForgetOverride(a) EXCEPT
                    !.device = d, !.riskAck = FALSE, !.pending = None,
                    !.prepared = None], "user"))
  BY DEF Refresh
<1> DEFINE a == [app EXCEPT !.drives = drives]
<1>2. SameBut(app, a, {"drives"}) /\ a.drives = drives BY DEF SameBut, Shape, Fields
<1>3. CASE app.device \in drives
  <2> DEFINE z == StartProfile(a, "user")
  <2>1. Becomes(z) BY <1>1, <1>3
  <2> HIDE DEF a
  <2>2. /\ SameBut(a, z, {"profile", "probe", "ticking"})
        /\ z.profile = None /\ z.probe \in {"none", "user"}
        /\ z.probe # "none" => a.device # None
    BY <1>2, StartProfileFrame DEF SameBut
  <2> HIDE DEF z
  <2>3. /\ SameBut(app, z, {"drives", "profile", "probe", "ticking"})
        /\ z.drives = drives /\ z.riskAck = app.riskAck
    BY <1>2, <2>2 DEF SameBut, Fields
  <2>4. app' = z /\ Quiet
    BY <2>1, <2>3, BecomesQuiet DEF SameBut, Fields, ChoiceFields, ShownFields, DriveFields
  <2>5. ChoiceOK'
    BY <1>2, <2>2, <2>3, <2>4 DEF SameBut, Fields, ChoiceOK, Selection
  <2>6. app'.bypass => app.bypass /\ SelectedFor(app') = SelectedFor(app)
    BY <2>3, <2>4, SelectedSame DEF SameBut, Fields
  <2>7. Inspection(app') BY <2>3, <2>4, FilesKeepInspection DEF SameBut, FileFields, Fields
  <2>8. QED BY <2>4, <2>5, <2>6, <2>7, QuietKeepsSelection
<1>4. CASE app.device \notin drives
  <2>1. PICK d \in FirstOf(drives) :
          Becomes(StartProfile(
            [ForgetOverride(a) EXCEPT
               !.device = d, !.riskAck = FALSE, !.pending = None,
               !.prepared = None], "user"))
    BY <1>1, <1>4
  <2> DEFINE b == ForgetOverride(a)
             e == [b EXCEPT !.device = d, !.riskAck = FALSE, !.pending = None,
                            !.prepared = None]
             z == StartProfile(e, "user")
  <2> HIDE DEF a
  <2>2. SameBut(a, b, {"mismatch", "bypass"}) /\ b.bypass = FALSE
    BY <1>2, ForgetOverrideFrame DEF SameBut
  <2> HIDE DEF b
  <2>3. /\ SameBut(app, e, {"drives", "mismatch", "bypass", "device", "riskAck"})
        /\ e.bypass = FALSE /\ e.riskAck = FALSE /\ e.device = d /\ e.drives = drives
    BY <1>0, <1>2, <2>2, ZenonT(40) DEF SameBut, Shape, Fields
  <2> HIDE DEF e
  <2>4. /\ SameBut(e, z, {"profile", "probe", "ticking"})
        /\ z.profile = None /\ z.probe \in {"none", "user"}
        /\ z.probe # "none" => e.device # None
    BY <2>3, StartProfileFrame DEF SameBut
  <2>5. Becomes(z) BY <2>1 DEF a, b, e
  <2> HIDE DEF z
  <2>6. SameBut(app, z, {"drives", "mismatch", "bypass", "device", "riskAck", "profile",
                         "probe", "ticking"})
    BY <2>3, <2>4 DEF SameBut
  <2>7. app' = z /\ Quiet
    BY <2>3, <2>4, <2>5, <2>6, BecomesQuiet
       DEF SameBut, Fields, ChoiceFields, ShownFields, DriveFields
  <2>8. d \in Drives \cup {None} BY DEF FirstOf
  <2>9. ChoiceOK' /\ app'.bypass = FALSE
    BY <2>3, <2>4, <2>6, <2>7, <2>8, ZenonT(40) DEF SameBut, Fields, ChoiceOK, Selection
  <2>10. Inspection(app') BY <2>6, <2>7, FilesKeepInspection DEF SameBut, FileFields, Fields
  <2>11. QED BY <2>7, <2>9, <2>10, QuietKeepsSelection
<1>5. QED BY <1>3, <1>4

\* The steps that change what is shown, and at most withdraw the override.
LEMMA ShownStep ==
  ASSUME Shape(app), Session, Selection, Inspection(app), NEW a, Becomes(a),
         SameBut(app, a, ShownFields \cup {"mismatch", "bypass", "riskAck"}),
         a.riskAck \in {app.riskAck, FALSE}, a.bypass \in {app.bypass, FALSE}
  PROVE  Quiet /\ Selection' /\ Inspection(app')
<1>1. app' = a /\ Quiet
  BY BecomesQuiet DEF SameBut, ChoiceFields, DriveFields
<1>2. ChoiceOK'
  BY <1>1 DEF SameBut, Fields, ShownFields, ChoiceOK, Selection
<1>3. app'.bypass => app.bypass /\ SelectedFor(app') = SelectedFor(app)
  BY <1>1, SelectedSame DEF SameBut, Fields, ShownFields
<1>4. Inspection(app')
  BY <1>1, FilesKeepInspection DEF SameBut, FileFields, ShownFields, Fields
<1>5. QED BY <1>1, <1>2, <1>3, <1>4, QuietKeepsSelection

LEMMA SelectTaskStep ==
  ASSUME Shape(app), Session, Selection, Inspection(app), NEW t, SelectTask(t)
  PROVE  Quiet /\ Selection' /\ Inspection(app')
<1> DEFINE a == [app EXCEPT !.task = t, !.bypass = FALSE]
<1>1. Becomes(a) BY DEF SelectTask
<1>2. /\ SameBut(app, a, {"task", "bypass"}) /\ a.bypass = FALSE
      /\ a.riskAck = app.riskAck
  BY DEF SameBut, Shape, Fields
<1> HIDE DEF a
<1>3. QED BY <1>1, <1>2, ShownStep DEF SameBut, ShownFields

LEMMA ChooseStep ==
  ASSUME Shape(app), Session, Selection, Inspection(app), Choose
  PROVE  Quiet /\ Selection' /\ Inspection(app')
<1> DEFINE a == ForgetOverride(app)
<1>1. Becomes(a) BY DEF Choose
<1>2. SameBut(app, a, {"mismatch", "bypass"}) /\ a.bypass = FALSE
  BY ForgetOverrideFrame
<1>3. a.riskAck = app.riskAck BY <1>2 DEF SameBut, Fields
<1> HIDE DEF a
<1>4. QED BY <1>1, <1>2, <1>3, ShownStep DEF SameBut, ShownFields

\* The switch that the code could not give leaves the override off.
LEMMA BypassRefusedStep ==
  ASSUME Shape(app), Session, Selection, Inspection(app), Idle,
         Becomes(ClearFlashResult([app EXCEPT !.bypass = FALSE, !.riskAck = FALSE]))
  PROVE  Quiet /\ Selection' /\ Inspection(app')
<1> DEFINE a == [app EXCEPT !.bypass = FALSE, !.riskAck = FALSE]
           b == ClearFlashResult(a)
<1>1. /\ SameBut(app, a, {"bypass", "riskAck"})
      /\ a.bypass = FALSE /\ a.riskAck = FALSE
  BY DEF SameBut, Shape, Fields
<1> HIDE DEF a
<1>2. /\ SameBut(a, b, {"prepared", "failure", "result"}) /\ b.prepared = None
  BY <1>1, ClearFlashResultFrame DEF SameBut
<1>3. Becomes(b) BY DEF a
<1> HIDE DEF b
<1>4. /\ SameBut(app, b, {"bypass", "riskAck", "failure", "result"})
      /\ b.bypass = FALSE /\ b.riskAck = FALSE
  BY <1>1, <1>2, IdleFacts DEF SameBut, Fields
<1>5. QED BY <1>3, <1>4, ShownStep DEF SameBut, ShownFields

LEMMA ReportStep ==
  ASSUME Shape(app), Session, Selection, Inspection(app),
         SubmitReport \/ DismissReport \/ SendReport
  PROVE  Quiet /\ Selection' /\ Inspection(app')
<1>1. PICK a : /\ Becomes(a)
               /\ a \in {[app EXCEPT !.reportPrompt = TRUE], [app EXCEPT !.reportPrompt = FALSE],
                         [app EXCEPT !.reportPrompt = FALSE, !.reporting = TRUE,
                                     !.ticking = TRUE]}
  BY DEF SubmitReport, DismissReport, SendReport
<1>2. /\ SameBut(app, a, {"reportPrompt", "reporting", "ticking"})
      /\ a.bypass = app.bypass /\ a.riskAck = app.riskAck
  BY <1>1, ZenonT(40) DEF SameBut, Shape, Fields
<1>3. QED BY <1>1, <1>2, ShownStep DEF SameBut, ShownFields

LEMMA PollReportStep ==
  ASSUME Shape(app), Session, Selection, Inspection(app), PollReport
  PROVE  Quiet /\ Selection' /\ Inspection(app')
<1> DEFINE b == [app EXCEPT !.reporting = FALSE]
           a == Polled(app, b)
<1>1. Becomes(a) BY DEF PollReport
<1>2. SameBut(app, b, {"reporting"}) BY DEF SameBut, Shape, Fields
<1> HIDE DEF b
<1>3. SameBut(b, a, {"ticking"}) BY <1>2, PolledFrame DEF SameBut
<1> HIDE DEF a
<1>4. /\ SameBut(app, a, {"reporting", "ticking"})
      /\ a.bypass = app.bypass /\ a.riskAck = app.riskAck
  BY <1>2, <1>3 DEF SameBut, Fields
<1>5. QED BY <1>1, <1>4, ShownStep DEF SameBut, ShownFields

\* A profile that can be overridden can be read: while the override stays, so
\* does the choice to read from the drive.
LEMMA PollProfileStep ==
  ASSUME Shape(app), Session, Selection, Inspection(app), PollProfile
  PROVE  Quiet /\ Selection' /\ Inspection(app')
<1>1. app.device \in Drives
  BY DEF PollProfile, Selection, ChoiceOK
<1>2. PICK p \in ProfilesOf[app.device] \cup {None} :
        Becomes(Polled(app, SetProfile(app, p)))
  BY DEF PollProfile
<1>3. /\ p \in Profile \cup {None}
      /\ p # None => p.override \in BOOLEAN /\ p.canRead \in BOOLEAN
      /\ p # None /\ p.override => p.canRead
  BY <1>1, <1>2, ProfileAssumption DEF Profile
<1> DEFINE b == SetProfile(app, p)
           a == Polled(app, b)
<1>4. /\ SameBut(app, b, {"failure", "probe", "profile", "read", "bypass"})
      /\ b.probe = "none"
      /\ b.profile = IF p = None THEN app.profile ELSE p
  BY SetProfileFrame
<1>5. /\ b.bypass \in BOOLEAN
      /\ b.bypass => app.bypass
      /\ b.bypass /\ p # None => p.override
  <2>1. CASE p = None BY <2>1, SetProfileFrame DEF Selection, ChoiceOK
  <2>2. CASE p # None BY <2>2, SetProfileValues
  <2>3. QED BY <2>1, <2>2
<1>6. /\ b.read \in [{"Flash", "Recovery"} -> BOOLEAN]
      /\ b.bypass => b.read["Recovery"] = app.read["Recovery"]
  <2>1. CASE p = None BY <2>1, SetProfileFrame DEF Selection, ChoiceOK
  <2>2. CASE p # None
    <3>1. b.read = [t \in {"Flash", "Recovery"} |-> app.read[t] /\ p.canRead]
      BY <2>2, SetProfileValues DEF Selection, ChoiceOK
    <3>2. b.read \in [{"Flash", "Recovery"} -> BOOLEAN] BY <3>1
    <3>3. ASSUME b.bypass PROVE b.read["Recovery"] = app.read["Recovery"]
      <4>1. p.canRead = TRUE BY <1>3, <1>5, <2>2, <3>3
      <4>2. app.read["Recovery"] \in BOOLEAN BY DEF Selection, ChoiceOK
      <4>3. QED BY <3>1, <4>1, <4>2
    <3>4. QED BY <3>2, <3>3
  <2>3. QED BY <2>1, <2>2
<1>7. Becomes(a) BY <1>2
<1> HIDE DEF b
<1>8. SameBut(b, a, {"ticking"}) BY <1>4, PolledFrame DEF SameBut
<1> HIDE DEF a
<1>9. /\ SameBut(app, a, {"failure", "probe", "profile", "read", "bypass", "ticking"})
      /\ a.probe = "none" /\ a.bypass = b.bypass /\ a.read = b.read
      /\ a.profile = b.profile /\ a.riskAck = app.riskAck
  BY <1>4, <1>8 DEF SameBut, Fields
<1>10. app' = a /\ Quiet
  BY <1>7, <1>9, BecomesQuiet DEF SameBut, ChoiceFields, ShownFields, DriveFields
<1>11. ChoiceOK'
  <2>1. /\ UNCHANGED <<app.drives, app.device, app.file, app.member>>
    BY <1>9, <1>10 DEF SameBut, Fields
  <2>2. /\ app'.profile \in Profile \cup {None} /\ app'.probe = "none"
        /\ app'.bypass \in BOOLEAN /\ app'.read \in [{"Flash", "Recovery"} -> BOOLEAN]
    <3>1. app.profile \in Profile \cup {None} BY DEF ChoiceOK, Selection
    <3>2. b.profile \in Profile \cup {None} BY <1>3, <1>4, <3>1
    <3>3. app'.profile \in Profile \cup {None} /\ app'.probe = "none" BY <3>2, <1>9, <1>10
    <3>4. app'.bypass \in BOOLEAN
      <4>1. app'.bypass = b.bypass BY <1>9, <1>10
      <4>2. b.bypass \in BOOLEAN BY <1>5
      <4>3. QED BY <4>1, <4>2
    <3>5. app'.read \in [{"Flash", "Recovery"} -> BOOLEAN] BY <1>6, <1>9, <1>10
    <3>6. QED BY <3>3, <3>4, <3>5
  <2>3. QED BY <2>1, <2>2 DEF ChoiceOK, Selection
<1>12. app'.bypass => app.bypass /\ SelectedFor(app') = SelectedFor(app)
  BY <1>5, <1>6, <1>9, <1>10, SelectedSame DEF SameBut, Fields
<1>13. Inspection(app')
  BY <1>9, <1>10, FilesKeepInspection DEF SameBut, FileFields, Fields
<1>14. QED BY <1>10, <1>11, <1>12, <1>13, QuietKeepsSelection

LEMMA FlashReadFromDriveStep ==
  ASSUME Shape(app), Session, Selection, Inspection(app), NEW on \in BOOLEAN,
         FlashReadFromDrive(on)
  PROVE  Quiet /\ Selection' /\ Inspection(app')
<1> DEFINE c == ClearFlashResult(app)
           z == [c EXCEPT !.read["Flash"] = on]
<1>1. Becomes(z) BY DEF FlashReadFromDrive
<1>2. SameBut(app, c, {"failure", "result"})
  BY ClearFlashResultFrame, IdleFacts DEF SameBut, FlashReadFromDrive
<1> HIDE DEF c
<1>3. /\ SameBut(app, z, {"failure", "result", "read"})
      /\ z.read = [app.read EXCEPT !["Flash"] = on] /\ z.riskAck = app.riskAck
  BY <1>2 DEF SameBut, Shape, Fields
<1> HIDE DEF z
<1>4. app' = z /\ Quiet
  BY <1>1, <1>3, BecomesQuiet DEF SameBut, ChoiceFields, ShownFields
<1>5. ChoiceOK' BY <1>3, <1>4 DEF SameBut, Fields, ChoiceOK, Selection
<1>6. app'.bypass => app.bypass /\ SelectedFor(app') = SelectedFor(app)
  <2>1. z.read["Recovery"] = app.read["Recovery"]
    BY <1>3 DEF Selection, ChoiceOK
  <2>2. z.device = app.device /\ z.file = app.file /\ z.member = app.member /\ z.bypass = app.bypass
    BY <1>3 DEF SameBut, Fields
  <2>3. QED BY <1>4, <2>1, <2>2, SelectedSame
<1>7. Inspection(app') BY <1>3, <1>4, FilesKeepInspection DEF SameBut, FileFields
<1>8. QED BY <1>4, <1>5, <1>6, <1>7, QuietKeepsSelection

\* Another way to read Current forgets the override.
LEMMA RecoveryReadFromDriveStep ==
  ASSUME Shape(app), Session, Selection, Inspection(app), NEW on \in BOOLEAN,
         RecoveryReadFromDrive(on)
  PROVE  Quiet /\ Selection' /\ Inspection(app')
<1> DEFINE a == IF app.read["Recovery"] # on
                THEN ClearFlashResult(ForgetOverride(app)) ELSE app
           e == [a EXCEPT !.read["Recovery"] = on]
           z == RefreshCurrentProfile(e, "user")
           S == {"mismatch", "bypass", "failure", "result"}
<1>1. Becomes(z) BY DEF RecoveryReadFromDrive
<1>2. /\ SameBut(app, a, S)
      /\ a.bypass \in {app.bypass, FALSE}
      /\ a.bypass => app.read["Recovery"] = on
  <2>1. CASE app.read["Recovery"] # on
    <3>1. a = ClearFlashResult(ForgetOverride(app)) BY <2>1
    <3>2. /\ SameBut(app, a, {"mismatch", "bypass", "prepared", "failure", "result"})
          /\ a.bypass = FALSE /\ a.prepared = None
      BY <3>1, ForgetAndClearFrame
    <3>3. app.prepared = None BY IdleFacts DEF RecoveryReadFromDrive
    <3>4. QED BY <3>2, <3>3 DEF SameBut
  <2>2. CASE app.read["Recovery"] = on
    <3>1. a = app BY <2>2
    <3>2. QED BY <2>2, <3>1 DEF SameBut
  <2>3. QED BY <2>1, <2>2
<1> HIDE DEF a
<1>3. /\ SameBut(app, e, S \cup {"read"})
      /\ e.read = [app.read EXCEPT !["Recovery"] = on] /\ e.bypass = a.bypass
      /\ e.device = app.device /\ e.profile = app.profile /\ e.probe = "none"
  BY <1>2, IdleFacts DEF SameBut, Shape, Fields, RecoveryReadFromDrive
<1> HIDE DEF e
<1>4. /\ SameBut(e, z, {"profile", "probe", "ticking"})
      /\ z.profile \in {None, app.profile} /\ z.probe \in {"none", "user"}
      /\ z.probe # "none" => app.device # None
  <2>1. Shape(e) BY <1>3 DEF SameBut
  <2>2. /\ SameBut(e, z, {"profile", "probe", "ticking"})
        /\ z.profile \in {None, e.profile}
        /\ z.probe \in IF e.device = None THEN {"none", e.probe} ELSE {"user", e.probe}
    BY <2>1, RefreshCurrentFrame
  <2> HIDE DEF z
  <2>3. QED BY <1>3, <2>2
<1> HIDE DEF z
<1>5. /\ SameBut(app, z, S \cup {"read", "profile", "probe", "ticking"})
      /\ z.read = e.read /\ z.bypass = a.bypass /\ z.riskAck = app.riskAck
  BY <1>3, <1>4 DEF SameBut, Fields
<1>6. app' = z /\ Quiet
  BY <1>1, <1>5, BecomesQuiet DEF SameBut, ChoiceFields, ShownFields, DriveFields
<1>7. ChoiceOK'
  <2>1. /\ z.drives = app.drives /\ z.file = app.file /\ z.member = app.member
        /\ z.device = app.device
    BY <1>5 DEF SameBut, Fields
  <2>2. z.read \in [{"Flash", "Recovery"} -> BOOLEAN]
    BY <1>3, <1>5 DEF ChoiceOK, Selection
  <2>3. z.bypass \in BOOLEAN
    BY <1>2, <1>5 DEF ChoiceOK, Selection
  <2>4. QED BY <1>4, <1>6, <2>1, <2>2, <2>3 DEF ChoiceOK, Selection
<1>8. app'.bypass => app.bypass /\ SelectedFor(app') = SelectedFor(app)
  <2>1. z.bypass => app.bypass /\ z.read["Recovery"] = app.read["Recovery"]
    BY <1>2, <1>3, <1>5 DEF Selection, ChoiceOK
  <2>2. QED BY <1>5, <1>6, <2>1, SelectedSame DEF SameBut, Fields
<1>9. Inspection(app') BY <1>5, <1>6, FilesKeepInspection DEF SameBut, FileFields
<1>10. QED BY <1>6, <1>7, <1>8, <1>9, QuietKeepsSelection

\* A member is picked of what is shown, so nothing waits to replace it.
LEMMA PickKeepsInspection ==
  ASSUME NEW a, NEW b, NEW pick \in Picks, NEW m \in a.members[pick],
         Inspection(a), SameBut(a, b, (Fields \ FileFields) \cup {"member"}),
         b.member = [a.member EXCEPT ![pick] = m]
  PROVE  Inspection(b)
<1>1. /\ b.file = a.file /\ b.members = a.members
      /\ b.origin = a.origin /\ b.version = a.version /\ b.choices = a.choices
      /\ b.inspecting = a.inspecting /\ b.queue = a.queue
  BY DEF SameBut, Fields, FileFields
<1>2. QueueOK(b) BY <1>1 DEF Inspection, QueueOK
<1>3. /\ a.members \in [Picks -> SUBSET Members]
      /\ a.member \in [Picks -> Members \cup {None}]
  BY DEF Inspection, ShownOK
<1>4. /\ b.member \in [Picks -> Members \cup {None}]
      /\ b.member[pick] = m /\ \A p \in Picks \ {pick} : b.member[p] = a.member[p]
  BY <1>3
<1>5. \A p \in Picks : IsCurrent(b, p)
  BY <1>1, <1>4 DEF Inspection, ShownOK, IsCurrent
<1>6. \A w : w.pick \in Picks /\ Awaits(a, w) => Awaits(b, w)
  BY <1>1, <1>4 DEF Awaits
<1>7. /\ b.inspecting # None => b.inspecting.pick \in Picks
      /\ \A i \in DOMAIN b.queue : b.queue[i].pick \in Picks
  <2>1. \A i \in DOMAIN b.queue : b.queue[i] \in Waits BY <1>2 DEF QueueOK
  <2>2. QED BY <1>2, <2>1 DEF QueueOK, Waits
<1>8. ShownOK(b)
  BY <1>1, <1>3, <1>4, <1>5, <1>6, <1>7 DEF Inspection, ShownOK
<1>9. QED BY <1>2, <1>8 DEF Inspection

\* Another member of what a recovery takes forgets the override.
LEMMA PickMemberStep ==
  ASSUME Shape(app), Session, Selection, Inspection(app), NEW pick \in Picks,
         NEW m \in app.members[pick], PickMember(pick, m)
  PROVE  Quiet /\ Selection' /\ Inspection(app')
<1> DEFINE c == ClearFlashResult(app)
           a == [c EXCEPT !.member[pick] = m]
           b == ForgetOverride(a)
           z == RefreshCurrentProfile(b, "user")
           S == {"failure", "result", "member"}
<1>1. \/ pick = "FlashCurrent" /\ Becomes(a)
      \/ pick = "RecoveryInput" /\ Becomes(b)
      \/ pick = "RecoveryCurrent" /\ Becomes(z)
  BY DEF PickMember, Picks
<1>2. SameBut(app, c, {"failure", "result"})
  BY ClearFlashResultFrame, IdleFacts DEF SameBut, PickMember
<1> HIDE DEF c
<1>3. /\ SameBut(app, a, S) /\ a.member = [app.member EXCEPT ![pick] = m]
      /\ a.bypass = app.bypass /\ a.profile = app.profile /\ a.probe = "none"
      /\ a.riskAck = app.riskAck /\ a.device = app.device
  BY <1>2, IdleFacts DEF SameBut, Shape, Fields, PickMember
<1> HIDE DEF a
<1>4. /\ SameBut(app, b, S \cup {"mismatch", "bypass"}) /\ b.member = a.member
      /\ b.bypass = FALSE /\ b.profile = app.profile /\ b.probe = "none"
      /\ b.riskAck = app.riskAck /\ b.device = app.device
  <2>1. SameBut(a, b, {"mismatch", "bypass"}) /\ b.bypass = FALSE
    BY <1>3, ForgetOverrideFrame DEF SameBut
  <2> HIDE DEF b
  <2>2. QED BY <1>3, <2>1 DEF SameBut, Fields
<1> HIDE DEF b
<1>5. /\ SameBut(app, z, S \cup {"mismatch", "bypass", "profile", "probe", "ticking"})
      /\ z.member = a.member /\ z.bypass = FALSE /\ z.riskAck = app.riskAck
      /\ z.profile \in {None, app.profile} /\ z.probe \in {"none", "user"}
      /\ z.probe # "none" => app.device # None
  <2>1. /\ SameBut(b, z, {"profile", "probe", "ticking"})
        /\ z.profile \in {None, b.profile}
        /\ z.probe \in IF b.device = None THEN {"none", b.probe} ELSE {"user", b.probe}
    BY <1>4, RefreshCurrentFrame DEF SameBut
  <2> HIDE DEF z
  <2>2. QED BY <1>4, <2>1 DEF SameBut, Fields
<1> HIDE DEF z
<1>6. PICK y : /\ Becomes(y)
               /\ SameBut(app, y, S \cup {"mismatch", "bypass", "profile", "probe", "ticking"})
               /\ y.member = a.member /\ y.riskAck = app.riskAck
               /\ y.bypass \in {app.bypass, FALSE}
               /\ y.bypass => pick = "FlashCurrent"
               /\ y.profile \in {None, app.profile} /\ y.probe \in {"none", "user"}
               /\ y.probe # "none" => app.device # None
  <2>1. CASE pick = "FlashCurrent" /\ Becomes(a) BY <2>1, <1>3 DEF SameBut
  <2>2. CASE pick = "RecoveryInput" /\ Becomes(b) BY <2>2, <1>4 DEF SameBut
  <2>3. CASE pick = "RecoveryCurrent" /\ Becomes(z) BY <2>3, <1>5 DEF SameBut
  <2>4. QED BY <1>1, <2>1, <2>2, <2>3
<1>7. app' = y /\ Quiet
  BY <1>6, BecomesQuiet DEF SameBut, ChoiceFields, ShownFields, DriveFields, FileFields
<1>8. y.member \in [Picks -> Members \cup {None}]
  BY <1>3, <1>6 DEF Selection, ChoiceOK, Inspection, ShownOK
<1>9. ChoiceOK' BY <1>6, <1>7, <1>8 DEF SameBut, Fields, ChoiceOK, Selection
<1>10. app'.bypass => app.bypass /\ SelectedFor(app') = SelectedFor(app)
  <2>1. ASSUME y.bypass PROVE /\ y.member["RecoveryInput"] = app.member["RecoveryInput"]
                              /\ y.member["RecoveryCurrent"] = app.member["RecoveryCurrent"]
    BY <1>3, <1>6, <2>1 DEF Selection, ChoiceOK
  <2>2. y.bypass => app.bypass BY <1>6 DEF Selection, ChoiceOK
  <2>3. y.file = app.file /\ y.device = app.device /\ y.read = app.read
    BY <1>6 DEF SameBut, Fields
  <2>4. QED BY <1>7, <2>1, <2>2, <2>3, SelectedSame
<1>11. Inspection(app')
  BY <1>3, <1>6, <1>7, PickKeepsInspection DEF SameBut, FileFields
<1>12. QED BY <1>7, <1>9, <1>10, <1>11, QuietKeepsSelection

-----------------------------------------------------------------------------
(* The queue of choices                                                    *)

LEMMA RemoveAtFacts ==
  ASSUME NEW S, NEW s \in Seq(S), NEW i \in DOMAIN s
  PROVE  /\ RemoveAt(s, i) \in Seq(S)
         /\ Len(RemoveAt(s, i)) = Len(s) - 1
         /\ \A j \in 1..(Len(s) - 1) : RemoveAt(s, i)[j] = IF j < i THEN s[j] ELSE s[j + 1]
<1> DEFINE l == SubSeq(s, 1, i - 1)
           r == SubSeq(s, i + 1, Len(s))
<1>1. i \in 1..Len(s) /\ Len(s) \in Nat OBVIOUS
<1>2. l \in Seq(S) /\ Len(l) = i - 1 /\ \A j \in 1..i - 1 : l[j] = s[j]
  BY <1>1, SubSeqProperties
<1>3. r \in Seq(S) /\ Len(r) = Len(s) - i /\ \A j \in 1..(Len(s) - i) : r[j] = s[i + j]
  BY <1>1, SubSeqProperties
<1>4. RemoveAt(s, i) = l \o r BY DEF RemoveAt
<1> HIDE DEF l, r
<1>5. /\ l \o r \in Seq(S) /\ Len(l \o r) = Len(s) - 1
      /\ \A j \in 1..(Len(s) - 1) : (l \o r)[j] = IF j <= i - 1 THEN l[j] ELSE r[j - (i - 1)]
  <2>1. /\ l \o r \in Seq(S) /\ Len(l \o r) = Len(l) + Len(r)
        /\ \A j \in 1..(Len(l) + Len(r)) :
             (l \o r)[j] = IF j <= Len(l) THEN l[j] ELSE r[j - Len(l)]
    <3>1. l \in Seq(S) /\ r \in Seq(S) BY <1>2, <1>3
    <3>2. QED BY ONLY <3>1, ConcatProperties, Zenon
  <2>2. Len(l) = i - 1 /\ Len(l) + Len(r) = Len(s) - 1 BY <1>1, <1>2, <1>3
  <2>3. QED BY <2>1, <2>2
<1>6. \A j \in 1..(Len(s) - 1) : (l \o r)[j] = IF j < i THEN s[j] ELSE s[j + 1]
  <2>1. ASSUME NEW j \in 1..(Len(s) - 1), j < i PROVE (l \o r)[j] = s[j]
    BY <1>1, <1>2, <1>5, <2>1
  <2>2. ASSUME NEW j \in 1..(Len(s) - 1), ~(j < i) PROVE (l \o r)[j] = s[j + 1]
    <3>1. (l \o r)[j] = r[j - (i - 1)] /\ j - (i - 1) \in 1..(Len(s) - i)
      BY <1>1, <1>5, <2>2
    <3>2. r[j - (i - 1)] = s[i + (j - (i - 1))] BY <1>3, <3>1
    <3>3. i + (j - (i - 1)) = j + 1 BY <1>1, <3>1
    <3>4. QED BY <3>1, <3>2, <3>3
  <2>3. QED BY <2>1, <2>2
<1>7. QED BY <1>4, <1>5, <1>6

\* Choices in the order in which they were made, one of a chooser.
Ordered(q) ==
  \A i, j \in DOMAIN q : i < j => q[i].version < q[j].version /\ q[i].pick # q[j].pick

\* What is kept is of other choosers, and in order.
LEMMA RetainedFacts ==
  ASSUME NEW q \in Seq(Waits), NEW pick, Ordered(q)
  PROVE  /\ Retained(q, pick) \in Seq(Waits) /\ Ordered(Retained(q, pick))
         /\ \A j \in DOMAIN Retained(q, pick) :
              /\ Retained(q, pick)[j].pick # pick
              /\ \E i \in DOMAIN q : Retained(q, pick)[j] = q[i]
<1> DEFINE waiting == {i \in DOMAIN q : q[i].pick = pick}
<1>1. CASE waiting = {}
  <2>1. Retained(q, pick) = q BY <1>1 DEF Retained
  <2>2. QED BY <1>1, <2>1
<1>2. CASE waiting # {}
  <2>1. PICK k \in waiting : Retained(q, pick) = RemoveAt(q, k)
    BY <1>2 DEF Retained
  <2> DEFINE r == RemoveAt(q, k)
  <2>2. /\ r \in Seq(Waits) /\ Len(r) = Len(q) - 1
        /\ \A j \in 1..(Len(q) - 1) : r[j] = IF j < k THEN q[j] ELSE q[j + 1]
    BY <2>1, RemoveAtFacts
  <2> HIDE DEF r
  <2>3. k \in 1..Len(q) /\ DOMAIN q = 1..Len(q) /\ Len(q) \in Nat /\ q[k].pick = pick
    BY <2>1
  <2>4. DOMAIN r = 1..(Len(q) - 1) BY <2>2
  <2>5. ASSUME NEW j \in DOMAIN r PROVE r[j].pick # pick /\ \E i \in DOMAIN q : r[j] = q[i]
    <3>1. CASE j < k BY <2>2, <2>3, <2>4, <3>1 DEF Ordered
    <3>2. CASE ~(j < k)
      <4>1. j + 1 \in DOMAIN q /\ k < j + 1 /\ r[j] = q[j + 1] BY <2>2, <2>3, <2>4, <3>2
      <4>2. QED BY <2>3, <4>1 DEF Ordered
    <3>3. QED BY <3>1, <3>2
  <2>6. ASSUME NEW i \in DOMAIN r, NEW j \in DOMAIN r, i < j
        PROVE  r[i].version < r[j].version /\ r[i].pick # r[j].pick
    <3>1. PICK m \in DOMAIN q, n \in DOMAIN q : m < n /\ r[i] = q[m] /\ r[j] = q[n]
      <4> DEFINE at(x) == IF x < k THEN x ELSE x + 1
      <4>1. at(i) \in DOMAIN q /\ at(j) \in DOMAIN q /\ at(i) < at(j) BY <2>3, <2>4, <2>6
      <4>2. r[i] = q[at(i)] /\ r[j] = q[at(j)] BY <2>2, <2>4
      <4>3. QED BY <4>1, <4>2
    <3>2. QED BY <3>1 DEF Ordered
  <2>7. QED BY <2>1, <2>2, <2>5, <2>6 DEF r, Ordered
<1>3. QED BY <1>1, <1>2

\* The next choice is taken from the front of the queue.
LEMMA StartOriginKeepsInspection ==
  ASSUME NEW a, Shape(a), Inspection(a)
  PROVE  Inspection(StartOrigin(a))
<1> DEFINE b == StartOrigin(a)
<1>1. CASE a.inspecting # None \/ a.queue = <<>>
  BY <1>1 DEF StartOrigin
<1>2. CASE a.inspecting = None /\ a.queue # <<>>
  <2>1. SameBut(a, b, {"inspecting", "queue"}) BY StartOriginFrame
  <2>2. b.inspecting = Head(a.queue) /\ b.queue = Tail(a.queue)
    BY <1>2 DEF StartOrigin, Shape, Fields
  <2> HIDE DEF b
  <2>3. /\ b.file = a.file /\ b.member = a.member /\ b.members = a.members
        /\ b.origin = a.origin /\ b.version = a.version /\ b.choices = a.choices
    BY <2>1 DEF SameBut, Fields
  <2>4. /\ a.queue \in Seq(Waits) /\ Len(a.queue) \in Nat \ {0} /\ 1 \in DOMAIN a.queue
        /\ Head(a.queue) = a.queue[1] /\ a.queue[1] \in Waits
    BY <1>2 DEF Inspection, QueueOK
  <2>5. /\ Tail(a.queue) \in Seq(Waits) /\ DOMAIN Tail(a.queue) = 1..(Len(a.queue) - 1)
        /\ \A i \in DOMAIN Tail(a.queue) :
             i + 1 \in DOMAIN a.queue /\ Tail(a.queue)[i] = a.queue[i + 1]
    BY <1>2, <2>4, HeadTailProperties
  <2>6. QueueOK(b)
    <3>1. \A i \in DOMAIN b.queue : b.queue[i].version <= b.choices
      BY <2>2, <2>3, <2>5 DEF Inspection, QueueOK
    <3>2. \A i, j \in DOMAIN b.queue : i < j =>
            b.queue[i].version < b.queue[j].version /\ b.queue[i].pick # b.queue[j].pick
      BY <2>2, <2>5 DEF Inspection, QueueOK
    <3>3. /\ b.inspecting.version <= b.choices
          /\ \A i \in DOMAIN b.queue : b.inspecting.version < b.queue[i].version
      BY <2>2, <2>3, <2>4, <2>5 DEF Inspection, QueueOK
    <3>4. QED BY <2>2, <2>3, <2>4, <2>5, <3>1, <3>2, <3>3 DEF Inspection, QueueOK
  <2>7. ShownOK(b)
    <3>1. \A w : Awaits(a, w) => Awaits(b, w) BY <2>3 DEF Awaits
    <3>2. \A p \in Picks : IsCurrent(b, p) BY <2>3 DEF Inspection, ShownOK, IsCurrent
    <3>3. Awaits(b, b.inspecting) BY <2>2, <2>4, <3>1 DEF Inspection, ShownOK
    <3>4. \A i \in DOMAIN b.queue : Awaits(b, b.queue[i])
      BY <2>2, <2>5, <3>1 DEF Inspection, ShownOK
    <3>5. QED BY <2>3, <3>2, <3>3, <3>4 DEF Inspection, ShownOK
  <2>8. QED BY <2>6, <2>7 DEF Inspection, b
<1>3. QED BY <1>1, <1>2

\* A choice that joins the queue: nothing is shown of it yet.
LEMMA ChoiceKeepsInspection ==
  ASSUME NEW a, NEW b, NEW pick \in Picks, NEW f \in Files, Inspection(a),
         b.file = [a.file EXCEPT ![pick] = f],
         b.member = [a.member EXCEPT ![pick] = None],
         b.members = [a.members EXCEPT ![pick] = {}],
         b.origin = [a.origin EXCEPT ![pick] = 0],
         b.version = [a.version EXCEPT ![pick] = a.choices + 1],
         b.choices = a.choices + 1, b.inspecting = a.inspecting,
         b.queue = Append(Retained(a.queue, pick),
                          [pick |-> pick, file |-> f, version |-> a.choices + 1])
  PROVE  Inspection(b)
<1> DEFINE r == Retained(a.queue, pick)
           w == [pick |-> pick, file |-> f, version |-> a.choices + 1]
<1>1. a.queue \in Seq(Waits) /\ Ordered(a.queue) /\ a.choices \in Nat
  BY DEF Inspection, QueueOK, Ordered
<1>2. /\ r \in Seq(Waits) /\ Ordered(r)
      /\ \A j \in DOMAIN r : r[j].pick # pick /\ \E i \in DOMAIN a.queue : r[j] = a.queue[i]
  BY <1>1, RetainedFacts
<1> HIDE DEF r
<1>3. w \in Waits /\ w.pick = pick /\ w.version = a.choices + 1 BY <1>1 DEF Waits
<1> HIDE DEF w
<1>4. b.queue = Append(r, w) BY DEF r, w
<1>5. /\ b.queue \in Seq(Waits) /\ DOMAIN b.queue = 1..(Len(r) + 1)
      /\ \A j \in DOMAIN r : b.queue[j] = r[j]
      /\ b.queue[Len(r) + 1] = w /\ DOMAIN r = 1..Len(r) /\ Len(r) \in Nat
  <2>1. DOMAIN r = 1..Len(r) /\ Len(r) \in Nat BY <1>2
  <2>2. /\ Append(r, w) \in Seq(Waits) /\ Len(Append(r, w)) = Len(r) + 1
        /\ \A j \in 1..Len(r) : Append(r, w)[j] = r[j]
        /\ Append(r, w)[Len(r) + 1] = w
    BY <1>2, <1>3, AppendProperties
  <2>3. DOMAIN b.queue = 1..(Len(r) + 1) BY <1>4, <2>1, <2>2
  <2>4. QED BY <1>4, <2>1, <2>2, <2>3
<1>5a. \A i \in DOMAIN a.queue :
        a.queue[i] \in Waits /\ a.queue[i].version \in Nat /\ a.queue[i].version <= a.choices
  <2>1. \A i \in DOMAIN a.queue : a.queue[i] \in Waits BY <1>1
  <2>2. \A i \in DOMAIN a.queue : a.queue[i].version <= a.choices BY DEF Inspection, QueueOK
  <2>3. \A x \in Waits : x.version \in Nat BY DEF Waits
  <2>4. QED BY <2>1, <2>2, <2>3
<1>6. \A j \in DOMAIN r : r[j] \in Waits /\ r[j].version \in Nat /\ r[j].version <= a.choices
  BY <1>5a, <1>2
<1>7. a.inspecting # None =>
        /\ a.inspecting \in Waits /\ a.inspecting.version \in Nat
        /\ a.inspecting.version <= a.choices
        /\ \A j \in DOMAIN r : a.inspecting.version < r[j].version
  <2>1. a.inspecting # None =>
          /\ a.inspecting \in Waits /\ a.inspecting.version <= a.choices
          /\ \A i \in DOMAIN a.queue : a.inspecting.version < a.queue[i].version
    BY DEF Inspection, QueueOK
  <2>2. \A x \in Waits : x.version \in Nat BY DEF Waits
  <2>3. QED BY <1>2, <2>1, <2>2
<1>8. QueueOK(b)
  <2>1. /\ b.choices \in Nat /\ b.version \in [Picks -> Nat] /\ b.origin \in [Picks -> Nat]
        /\ b.inspecting \in Waits \cup {None}
    BY <1>1 DEF Inspection, QueueOK
  <2>2. \A i \in DOMAIN b.queue : b.queue[i].version <= b.choices
    BY <1>1, <1>3, <1>5, <1>6
  <2>3. ASSUME NEW i \in DOMAIN b.queue, NEW j \in DOMAIN b.queue, i < j
        PROVE  b.queue[i].version < b.queue[j].version /\ b.queue[i].pick # b.queue[j].pick
    <3>1. CASE j \in DOMAIN r BY <1>2, <1>5, <2>3, <3>1 DEF Ordered
    <3>2. CASE j = Len(r) + 1
      <4>1. i \in DOMAIN r BY <1>5, <2>3, <3>2
      <4>2. QED BY <1>1, <1>2, <1>3, <1>5, <1>6, <3>2, <4>1
    <3>3. QED BY <1>5, <3>1, <3>2
  <2>4. b.inspecting # None =>
          /\ b.inspecting.version <= b.choices
          /\ \A i \in DOMAIN b.queue : b.inspecting.version < b.queue[i].version
    BY <1>1, <1>3, <1>5, <1>7
  <2>5. QED BY <1>5, <2>1, <2>2, <2>3, <2>4 DEF QueueOK
<1>9. ShownOK(b)
  <2>1. /\ a.file \in [Picks -> Files \cup {None}] /\ a.member \in [Picks -> Members \cup {None}]
        /\ a.members \in [Picks -> SUBSET Members] /\ a.members["FlashFirmware"] = {}
        /\ a.origin \in [Picks -> Nat] /\ a.version \in [Picks -> Nat]
        /\ \A p \in Picks : IsCurrent(a, p)
        /\ a.inspecting # None => Awaits(a, a.inspecting)
        /\ \A i \in DOMAIN a.queue : Awaits(a, a.queue[i])
    BY DEF Inspection, ShownOK, QueueOK
  <2>2. /\ b.file \in [Picks -> Files \cup {None}] /\ b.member \in [Picks -> Members \cup {None}]
        /\ b.members \in [Picks -> SUBSET Members] /\ b.members["FlashFirmware"] = {}
    BY <2>1 DEF Picks
  <2>3. ASSUME NEW p \in Picks PROVE IsCurrent(b, p)
    <3>1. CASE p = pick
      <4>1. b.origin[p] = 0 /\ b.members[p] = {} /\ b.member[p] = None BY <2>1, <3>1
      <4>2. QED BY <4>1 DEF IsCurrent
    <3>2. CASE p # pick
      <4>1. /\ b.file[p] = a.file[p] /\ b.origin[p] = a.origin[p] /\ b.members[p] = a.members[p]
            /\ b.member[p] = a.member[p] /\ b.version[p] = a.version[p]
        BY <2>1, <3>2
      <4>2. QED BY <2>1, <4>1 DEF IsCurrent
    <3>3. QED BY <3>1, <3>2
  <2>4. ASSUME NEW x \in Waits, Awaits(a, x) PROVE Awaits(b, x)
    <3>1. x.pick \in Picks BY DEF Waits
    <3>2. CASE x.pick = pick BY <2>1, <3>1, <3>2 DEF Awaits
    <3>3. CASE x.pick # pick BY <2>1, <2>4, <3>1, <3>3 DEF Awaits
    <3>4. QED BY <3>2, <3>3
  <2>5. b.inspecting # None => Awaits(b, b.inspecting) BY <1>7, <2>1, <2>4
  <2>6. \A i \in DOMAIN r : Awaits(b, r[i])
    BY <1>2, <1>6, <2>1, <2>4
  <2>7. Awaits(b, w) BY <1>3, <2>1 DEF Awaits
  <2>8. \A i \in DOMAIN b.queue : Awaits(b, b.queue[i]) BY <1>5, <2>6, <2>7
  <2>9. QED BY <2>2, <2>3, <2>5, <2>8 DEF ShownOK
<1>10. QED BY <1>8, <1>9 DEF Inspection

\* A chooser's file replaces another, and what was known of that one.
LEMMA ChooseFileStep ==
  ASSUME Shape(app), Session, Selection, Inspection(app), NEW pick \in Picks,
         NEW f \in Files, ChooseFile(pick, f)
  PROVE  Quiet /\ Selection' /\ Inspection(app')
<1> DEFINE c == ClearFlashResult(app)
           a == [c EXCEPT !.file[pick] = f]
           b == [a EXCEPT !.member[pick] = None, !.members[pick] = {}]
           flash == [b EXCEPT !.read["Flash"] = FALSE]
           recovery == [b EXCEPT !.read["Recovery"] = FALSE]
           S == {"failure", "result", "file", "member", "members", "read", "mismatch", "bypass"}
<1>1. SameBut(app, c, {"failure", "result"})
  BY ClearFlashResultFrame, IdleFacts DEF SameBut, ChooseFile
<1>2. /\ app.file \in [Picks -> Files \cup {None}]
      /\ app.member \in [Picks -> Members \cup {None}]
      /\ app.members \in [Picks -> SUBSET Members]
      /\ app.read \in [{"Flash", "Recovery"} -> BOOLEAN]
      /\ app.members["FlashFirmware"] = {} /\ app.member["FlashFirmware"] = None
  <2>1. IsCurrent(app, "FlashFirmware") /\ app.members["FlashFirmware"] = {}
    BY DEF Inspection, ShownOK, Picks
  <2>2. app.member["FlashFirmware"] = None BY <2>1 DEF IsCurrent
  <2>3. QED BY <2>1, <2>2 DEF Selection, ChoiceOK, Inspection, ShownOK
\* Whatever the chooser, its member and its members end up reset.
<1>3. PICK e : /\ Becomes(ReadOrigin(e, pick, f)) /\ SameBut(app, e, S)
               /\ e.file = [app.file EXCEPT ![pick] = f]
               /\ e.member = [app.member EXCEPT ![pick] = None]
               /\ e.members = [app.members EXCEPT ![pick] = {}]
               /\ e.read \in [{"Flash", "Recovery"} -> BOOLEAN]
               /\ e.bypass \in {app.bypass, FALSE}
               /\ pick \in {"RecoveryInput", "RecoveryCurrent"} => e.bypass = FALSE
               /\ pick \notin {"RecoveryInput", "RecoveryCurrent"} =>
                    e.read["Recovery"] = app.read["Recovery"]
  <2> HIDE DEF c
  <2>1. /\ SameBut(app, a, {"failure", "result", "file"})
        /\ a.file = [app.file EXCEPT ![pick] = f]
        /\ a.member = app.member /\ a.members = app.members
        /\ a.read = app.read /\ a.bypass = app.bypass
    BY <1>1 DEF SameBut, Shape, Fields
  <2> HIDE DEF a
  <2>2. /\ SameBut(app, b, {"failure", "result", "file", "member", "members"})
        /\ b.file = a.file
        /\ b.member = [app.member EXCEPT ![pick] = None]
        /\ b.members = [app.members EXCEPT ![pick] = {}]
        /\ b.read = app.read /\ b.bypass = app.bypass
    BY <2>1 DEF SameBut, Shape, Fields
  <2> HIDE DEF b
  <2>3. CASE pick = "FlashFirmware"
    <3>1. Becomes(ReadOrigin(a, pick, f)) BY <2>3 DEF ChooseFile, a, c
    <3>2. /\ app.member = [app.member EXCEPT ![pick] = None]
          /\ app.members = [app.members EXCEPT ![pick] = {}]
      BY <1>2, <2>3
    <3>3. QED BY <1>2, <2>1, <2>3, <3>1, <3>2, ZenonT(40) DEF SameBut
  <2>4. CASE pick = "FlashCurrent"
    <3>1. Becomes(ReadOrigin(flash, pick, f)) BY <2>4 DEF ChooseFile, a, b, c
    <3>2. /\ SameBut(app, flash, S) /\ flash.file = b.file /\ flash.member = b.member
          /\ flash.members = b.members /\ flash.bypass = app.bypass
          /\ flash.read = [app.read EXCEPT !["Flash"] = FALSE]
      BY <2>2 DEF SameBut, Shape, Fields
    <3> HIDE DEF flash
    <3>3. /\ flash.read \in [{"Flash", "Recovery"} -> BOOLEAN]
          /\ flash.read["Recovery"] = app.read["Recovery"]
      BY <1>2, <3>2
    <3>4. QED BY <2>1, <2>2, <2>4, <3>1, <3>2, <3>3
  <2>5. CASE pick = "RecoveryInput"
    <3> DEFINE o == ForgetOverride(b)
    <3>1. Becomes(ReadOrigin(o, pick, f)) BY <2>5 DEF ChooseFile, a, b, c
    <3>2. SameBut(b, o, {"mismatch", "bypass"}) /\ o.bypass = FALSE
      BY <2>2, ForgetOverrideFrame DEF SameBut
    <3> HIDE DEF o
    <3>3. /\ SameBut(app, o, S) /\ o.file = b.file /\ o.member = b.member
          /\ o.members = b.members /\ o.read = app.read
      BY <2>2, <3>2 DEF SameBut, Fields
    <3>4. QED BY <1>2, <2>1, <2>2, <2>5, <3>1, <3>2, <3>3
  <2>6. CASE pick = "RecoveryCurrent"
    <3> DEFINE o == ForgetOverride(recovery)
    <3>1. Becomes(ReadOrigin(o, pick, f)) BY <2>6 DEF ChooseFile, a, b, c
    <3>2. /\ SameBut(app, recovery, S) /\ recovery.file = b.file /\ recovery.member = b.member
          /\ recovery.members = b.members
          /\ recovery.read = [app.read EXCEPT !["Recovery"] = FALSE]
      BY <2>2 DEF SameBut, Shape, Fields
    <3> HIDE DEF recovery
    <3>3. SameBut(recovery, o, {"mismatch", "bypass"}) /\ o.bypass = FALSE
      BY <3>2, ForgetOverrideFrame DEF SameBut
    <3> HIDE DEF o
    <3>4. /\ SameBut(app, o, S) /\ o.file = b.file /\ o.member = b.member
          /\ o.members = b.members /\ o.read \in [{"Flash", "Recovery"} -> BOOLEAN]
      BY <1>2, <3>2, <3>3, ZenonT(40) DEF SameBut, Fields
    <3>5. QED BY <2>1, <2>2, <2>6, <3>1, <3>3, <3>4
  <2>7. QED BY <2>3, <2>4, <2>5, <2>6 DEF Picks
<1> HIDE DEF a, b, c, flash, recovery
<1> DEFINE Q == {"origin", "choices", "version", "queue", "inspecting", "ticking"}
           z == ReadOrigin(e, pick, f)
<1>4. SameBut(e, z, Q) BY <1>3, ReadOriginFrame DEF SameBut
<1>5. Inspection(z)
  <2> DEFINE g == [e EXCEPT
       !.origin[pick] = 0, !.choices = e.choices + 1, !.version[pick] = e.choices + 1,
       !.queue = Append(Retained(e.queue, pick),
                        [pick |-> pick, file |-> f, version |-> e.choices + 1]),
       !.ticking = TRUE]
  <2>1. z = StartOrigin(g) BY DEF ReadOrigin
  <2>2. /\ Shape(g) /\ g.file = e.file /\ g.member = e.member /\ g.members = e.members
        /\ g.origin = [e.origin EXCEPT ![pick] = 0]
        /\ g.version = [e.version EXCEPT ![pick] = e.choices + 1]
        /\ g.choices = e.choices + 1 /\ g.inspecting = e.inspecting
        /\ g.queue = Append(Retained(e.queue, pick),
                            [pick |-> pick, file |-> f, version |-> e.choices + 1])
    BY <1>3 DEF SameBut, Shape, Fields
  <2>3. /\ e.origin = app.origin /\ e.version = app.version /\ e.choices = app.choices
        /\ e.inspecting = app.inspecting /\ e.queue = app.queue
    BY <1>3 DEF SameBut, Fields
  <2> HIDE DEF g
  <2>4. /\ g.file = [app.file EXCEPT ![pick] = f]
        /\ g.member = [app.member EXCEPT ![pick] = None]
        /\ g.members = [app.members EXCEPT ![pick] = {}]
        /\ g.origin = [app.origin EXCEPT ![pick] = 0]
        /\ g.version = [app.version EXCEPT ![pick] = app.choices + 1]
        /\ g.choices = app.choices + 1 /\ g.inspecting = app.inspecting
        /\ g.queue = Append(Retained(app.queue, pick),
                            [pick |-> pick, file |-> f, version |-> app.choices + 1])
    BY <1>3, <2>2, <2>3
  <2>5. Inspection(g) BY <2>4, ChoiceKeepsInspection
  <2>6. QED BY <2>1, <2>2, <2>5, StartOriginKeepsInspection
<1> HIDE DEF z
<1>6. /\ SameBut(app, z, S \cup Q) /\ z.riskAck = app.riskAck
      /\ z.file = e.file /\ z.member = e.member /\ z.read = e.read /\ z.bypass = e.bypass
  BY <1>3, <1>4 DEF SameBut, Fields
<1>7. Becomes(z) BY <1>3 DEF z
<1>8. app' = z /\ Quiet
  BY <1>6, <1>7, BecomesQuiet
     DEF SameBut, ChoiceFields, ShownFields, DriveFields, FileFields
<1>9. ChoiceOK'
  <2>1. /\ z.file \in [Picks -> Files \cup {None}] /\ z.member \in [Picks -> Members \cup {None}]
    BY <1>2, <1>3, <1>6
  <2>2. z.bypass \in BOOLEAN BY <1>3, <1>6 DEF Selection, ChoiceOK
  <2>3. /\ z.drives = app.drives /\ z.device = app.device /\ z.profile = app.profile
        /\ z.probe = app.probe
    BY <1>6 DEF SameBut, Fields
  <2>4. QED BY <1>3, <1>6, <1>8, <2>1, <2>2, <2>3 DEF Selection, ChoiceOK
<1>10. app'.bypass => app.bypass /\ SelectedFor(app') = SelectedFor(app)
  <2>1. SUFFICES ASSUME z.bypass PROVE app.bypass /\ SelectedFor(z) = SelectedFor(app)
    BY <1>8
  <2>2. pick \notin {"RecoveryInput", "RecoveryCurrent"} /\ app.bypass
    BY <1>3, <1>6, <2>1
  <2>3. /\ z.file["RecoveryInput"] = app.file["RecoveryInput"]
        /\ z.file["RecoveryCurrent"] = app.file["RecoveryCurrent"]
        /\ z.member["RecoveryInput"] = app.member["RecoveryInput"]
        /\ z.member["RecoveryCurrent"] = app.member["RecoveryCurrent"]
        /\ z.read["Recovery"] = app.read["Recovery"]
    BY <1>2, <1>3, <1>6, <2>2
  <2>4. z.device = app.device BY <1>6 DEF SameBut, Fields
  <2>5. QED BY <2>2, <2>3, <2>4, SelectedSame
<1>11. QED BY <1>5, <1>8, <1>9, <1>10, QuietKeepsSelection

\* An inspection that is shown is of the latest choice; those that wait were
\* made after it.
LEMMA ReplyKeepsInspection ==
  ASSUME NEW a, NEW b, Inspection(a), a.inspecting # None,
         NEW found \in {{}, MembersIn[a.inspecting.file]},
         b.file = a.file, b.member = a.member, b.version = a.version,
         b.choices = a.choices, b.inspecting = None, b.queue = a.queue,
         \/ b.origin = a.origin /\ b.members = a.members
         \/ /\ a.file[a.inspecting.pick] = a.inspecting.file
            /\ a.version[a.inspecting.pick] = a.inspecting.version
            /\ b.origin \in {a.origin, [a.origin EXCEPT ![a.inspecting.pick] = a.inspecting.version]}
            /\ \/ b.members = a.members
               \/ /\ b.members = [a.members EXCEPT ![a.inspecting.pick] = found]
                  /\ a.inspecting.pick # "FlashFirmware"
  PROVE  Inspection(b)
<1> DEFINE w == a.inspecting
           pick == w.pick
<1>1. /\ w \in Waits /\ pick \in Picks /\ w.file \in Files /\ w.version \in Nat
      /\ \A i \in DOMAIN a.queue : w.version < a.queue[i].version
      /\ a.queue \in Seq(Waits)
  <2>1. w \in Waits /\ (\A i \in DOMAIN a.queue : w.version < a.queue[i].version)
        /\ a.queue \in Seq(Waits)
    BY DEF Inspection, QueueOK
  <2>2. QED BY <2>1 DEF Waits
<1>2. /\ a.file \in [Picks -> Files \cup {None}] /\ a.member \in [Picks -> Members \cup {None}]
      /\ a.members \in [Picks -> SUBSET Members] /\ a.members["FlashFirmware"] = {}
      /\ a.origin \in [Picks -> Nat] /\ a.version \in [Picks -> Nat]
      /\ \A p \in Picks : IsCurrent(a, p)
      /\ Awaits(a, w)
      /\ \A i \in DOMAIN a.queue : Awaits(a, a.queue[i])
  BY DEF Inspection, ShownOK, QueueOK
<1>3. \A i \in DOMAIN a.queue : /\ a.queue[i] \in Waits /\ a.queue[i].pick \in Picks
                                /\ a.queue[i].version \in Nat
  <2>1. \A i \in DOMAIN a.queue : a.queue[i] \in Waits BY <1>1
  <2>2. QED BY <2>1 DEF Waits
<1>4. CASE b.origin = a.origin /\ b.members = a.members
  <2>1. QueueOK(b) BY <1>4 DEF Inspection, QueueOK
  <2>2. \A p \in Picks : IsCurrent(b, p) BY <1>2, <1>4 DEF IsCurrent
  <2>3. \A i \in DOMAIN b.queue : Awaits(b, b.queue[i]) BY <1>2, <1>4, SMTT(30) DEF Awaits
  <2>4. QED BY <1>2, <1>4, <2>1, <2>2, <2>3 DEF Inspection, ShownOK
<1>5. CASE /\ a.file[pick] = w.file /\ a.version[pick] = w.version
           /\ b.origin \in {a.origin, [a.origin EXCEPT ![pick] = w.version]}
           /\ \/ b.members = a.members
              \/ b.members = [a.members EXCEPT ![pick] = found] /\ pick # "FlashFirmware"
  <2>1. found \subseteq MembersIn[w.file] /\ found \subseteq Members
    BY <1>1 DEF Members
  <2>2. a.members[pick] = {} /\ a.member[pick] = None BY <1>2, <1>5 DEF Awaits
  <2>3. /\ b.origin \in [Picks -> Nat] /\ b.members \in [Picks -> SUBSET Members]
        /\ b.members["FlashFirmware"] = {}
        /\ \A p \in Picks \ {pick} : b.origin[p] = a.origin[p] /\ b.members[p] = a.members[p]
        /\ b.origin[pick] \in {a.origin[pick], w.version} /\ b.members[pick] \in {{}, found}
    <3>1. b.origin \in [Picks -> Nat] /\ b.origin[pick] \in {a.origin[pick], w.version}
          /\ \A p \in Picks \ {pick} : b.origin[p] = a.origin[p]
      <4>1. pick \in Picks /\ w.version \in Nat /\ a.origin \in [Picks -> Nat] BY <1>1, <1>2
      <4>2. b.origin \in {a.origin, [a.origin EXCEPT ![pick] = w.version]} BY <1>5
      <4> HIDE DEF w, pick
      <4>3. QED BY ONLY <4>1, <4>2, SMT
    <3>2. CASE b.members = a.members BY <1>1, <1>2, <2>2, <3>1, <3>2
    <3>3. CASE b.members = [a.members EXCEPT ![pick] = found] /\ pick # "FlashFirmware"
      <4>1. /\ pick \in Picks /\ "FlashFirmware" \in Picks /\ a.members \in [Picks -> SUBSET Members]
            /\ a.members["FlashFirmware"] = {} /\ found \in SUBSET Members
        BY <1>1, <1>2, <2>1 DEF Picks
      <4> HIDE DEF w, pick
      <4>2. b.members \in [Picks -> SUBSET Members]
        BY ONLY <3>3, <4>1, SMT
      <4>3. \A p \in Picks : b.members[p] = IF p = pick THEN found ELSE a.members[p]
        BY ONLY <3>3, <4>1, SMT
      <4>4. QED BY ONLY <3>1, <3>3, <4>1, <4>2, <4>3, SMT
    <3>4. QED BY <1>5, <3>2, <3>3
  <2>4. QueueOK(b) BY <2>3 DEF Inspection, QueueOK
  <2>5. ASSUME NEW p \in Picks PROVE IsCurrent(b, p)
    <3>1. CASE p = pick
      <4>1. b.file[p] # None /\ b.file[p] = w.file
        BY <1>1, <1>5, <3>1, ProfileAssumption
      <4>2. b.origin[p] \in {0, b.version[p]}
        BY <1>2, <1>5, <2>3, <3>1 DEF IsCurrent
      <4>3. QED BY <2>1, <2>2, <2>3, <3>1, <4>1, <4>2 DEF IsCurrent
    <3>2. CASE p # pick BY <1>2, <2>3, <3>2 DEF IsCurrent
    <3>3. QED BY <3>1, <3>2
  <2>6. ASSUME NEW i \in DOMAIN b.queue PROVE Awaits(b, b.queue[i])
    <3>1. CASE b.queue[i].pick = pick
      <4>1. a.version[pick] # b.queue[i].version BY <1>1, <1>3, <1>5
      <4>2. QED BY <3>1, <4>1 DEF Awaits
    <3>2. CASE b.queue[i].pick # pick
      <4>1. Awaits(a, b.queue[i]) /\ b.queue[i].pick \in Picks \ {pick} BY <1>2, <1>3, <3>2
      <4>2. b.members[b.queue[i].pick] = a.members[b.queue[i].pick] BY <2>3, <4>1
      <4>3. QED BY <4>1, <4>2 DEF Awaits
    <3>3. QED BY <3>1, <3>2
  <2>7. QED BY <1>2, <2>3, <2>4, <2>5, <2>6 DEF Inspection, ShownOK
<1>6. QED BY <1>4, <1>5

LEMMA PollOriginStep ==
  ASSUME Shape(app), Session, Selection, Inspection(app), PollOrigin
  PROVE  Quiet /\ Selection' /\ Inspection(app')
<1> DEFINE reply == app.inspecting
           pick == reply.pick
           a == [app EXCEPT !.inspecting = None]
           S == {"inspecting", "origin", "members", "profile", "probe", "ticking"}
<1>1. PICK found \in {{}, MembersIn[reply.file]} :
        LET shown == [a EXCEPT !.origin[pick] = reply.version]
            listed == [a EXCEPT !.members[pick] = found]
            b == IF app.file[pick] # reply.file \/ app.version[pick] # reply.version
                 THEN a
                 ELSE CASE pick = "FlashFirmware" -> shown
                        [] pick = "RecoveryInput" -> [shown EXCEPT !.members[pick] = found]
                        [] pick = "FlashCurrent" -> listed
                        [] pick = "RecoveryCurrent" -> RefreshCurrentProfile(listed, "reply")
        IN Becomes(Polled(app, StartOrigin(b)))
  BY DEF PollOrigin
<1>2. reply # None /\ pick \in Picks
  <2>1. reply # None /\ reply \in Waits BY DEF PollOrigin, Inspection, QueueOK
  <2>2. QED BY <2>1 DEF Waits
<1>3. /\ SameBut(app, a, {"inspecting"}) /\ a.inspecting = None
      /\ a.profile = app.profile /\ a.probe = app.probe /\ a.device = app.device
      /\ a.origin = app.origin /\ a.members = app.members
  BY DEF SameBut, Shape, Fields
<1> HIDE DEF a
<1> DEFINE shown == [a EXCEPT !.origin[pick] = reply.version]
           listed == [a EXCEPT !.members[pick] = found]
           both == [shown EXCEPT !.members[pick] = found]
           refreshed == RefreshCurrentProfile(listed, "reply")
           latest == app.file[pick] = reply.file /\ app.version[pick] = reply.version
           origin == [app.origin EXCEPT ![pick] = reply.version]
           members == [app.members EXCEPT ![pick] = found]
\* What every branch leaves: the app with the inspector gone and its reply, if
\* it is of the latest choice, shown.
<1>4. PICK b : /\ Becomes(Polled(app, StartOrigin(b)))
               /\ SameBut(app, b, S) /\ b.inspecting = None
               /\ b.profile \in {None, app.profile}
               /\ b.probe \in {"none", "user", "reply"}
               /\ b.probe # "none" => app.device # None
               /\ \/ b.origin = app.origin /\ b.members = app.members
                  \/ /\ latest
                     /\ b.origin \in {app.origin, origin}
                     /\ \/ b.members = app.members
                        \/ b.members = members /\ pick # "FlashFirmware"
  <2>0. /\ app.probe \in {"none", "user", "reply"} /\ (app.probe # "none" => app.device # None)
    BY DEF Selection, ChoiceOK
  <2>1. CASE ~latest
    <3>1. Becomes(Polled(app, StartOrigin(a))) BY <1>1, <2>1 DEF a
    <3>2. QED BY <1>3, <2>0, <3>1 DEF SameBut
  <2>2. CASE latest /\ pick = "FlashFirmware"
    <3>1. Becomes(Polled(app, StartOrigin(shown))) BY <1>1, <2>2 DEF a
    <3>2. /\ SameBut(app, shown, S) /\ shown.inspecting = None /\ shown.profile = app.profile
          /\ shown.probe = app.probe /\ shown.origin = origin /\ shown.members = app.members
      BY <1>3 DEF SameBut, Shape, Fields
    <3> HIDE DEF shown
    <3>3. QED BY <2>0, <2>2, <3>1, <3>2
  <2>3. CASE latest /\ pick = "RecoveryInput"
    <3>1. Becomes(Polled(app, StartOrigin(both))) BY <1>1, <2>3 DEF a
    <3>2. /\ SameBut(app, both, S) /\ both.inspecting = None /\ both.profile = app.profile
          /\ both.probe = app.probe /\ both.origin = origin /\ both.members = members
      BY <1>3 DEF SameBut, Shape, Fields
    <3> HIDE DEF both
    <3>3. QED BY <2>0, <2>3, <3>1, <3>2
  <2>4. /\ SameBut(app, listed, S) /\ listed.inspecting = None /\ listed.profile = app.profile
        /\ listed.probe = app.probe /\ listed.origin = app.origin /\ listed.members = members
        /\ listed.device = app.device
    BY <1>3 DEF SameBut, Shape, Fields
  <2>5. CASE latest /\ pick = "FlashCurrent"
    <3>1. Becomes(Polled(app, StartOrigin(listed))) BY <1>1, <2>5 DEF a
    <3> HIDE DEF listed
    <3>2. QED BY <2>0, <2>4, <2>5, <3>1
  <2>6. CASE latest /\ pick = "RecoveryCurrent"
    <3>1. Becomes(Polled(app, StartOrigin(refreshed))) BY <1>1, <2>6 DEF a
    <3> HIDE DEF listed
    <3>2. /\ SameBut(listed, refreshed, {"profile", "probe", "ticking"})
          /\ refreshed.profile \in {None, listed.profile}
          /\ refreshed.probe \in
               IF listed.device = None THEN {"none", listed.probe} ELSE {"reply", listed.probe}
      BY <2>4, RefreshCurrentFrame DEF SameBut
    <3> HIDE DEF refreshed
    <3>3. /\ SameBut(app, refreshed, S) /\ refreshed.inspecting = None
          /\ refreshed.origin = app.origin /\ refreshed.members = members
      BY <2>4, <3>2 DEF SameBut, Fields
    <3>4. QED BY <2>0, <2>4, <2>6, <3>1, <3>2, <3>3
  <2>7. QED BY <1>2, <2>1, <2>2, <2>3, <2>5, <2>6 DEF Picks
<1> HIDE DEF shown, listed, both, refreshed
<1>5. /\ b.file = app.file /\ b.member = app.member /\ b.version = app.version
      /\ b.choices = app.choices /\ b.queue = app.queue
  BY <1>4 DEF SameBut, Fields
<1>6. Inspection(b)
  BY <1>2, <1>4, <1>5, ReplyKeepsInspection, ZenonT(40)
<1> DEFINE c == StartOrigin(b)
           z == Polled(app, c)
<1>7. SameBut(b, c, {"inspecting", "queue"}) /\ Inspection(c)
  BY <1>4, <1>6, StartOriginFrame, StartOriginKeepsInspection DEF SameBut
<1>8. Becomes(z) BY <1>4
<1> HIDE DEF c
<1>9. SameBut(c, z, {"ticking"}) BY <1>7, PolledFrame DEF SameBut
<1> HIDE DEF z
<1>10. /\ SameBut(app, z, S \cup {"queue"})
       /\ z.profile = b.profile /\ z.probe = b.probe /\ z.riskAck = app.riskAck
  BY <1>4, <1>7, <1>9 DEF SameBut, Fields
<1>11. app' = z /\ Quiet
  BY <1>8, <1>10, BecomesQuiet DEF SameBut, ChoiceFields, ShownFields, DriveFields, FileFields
<1>12. Inspection(app')
  BY <1>7, <1>9, <1>11, FilesKeepInspection DEF SameBut, FileFields
<1>13. ChoiceOK'
  BY <1>4, <1>10, <1>11 DEF SameBut, Fields, ChoiceOK, Selection
<1>14. app'.bypass => app.bypass /\ SelectedFor(app') = SelectedFor(app)
  BY <1>10, <1>11, SelectedSame DEF SameBut, Fields
<1>15. QED BY <1>11, <1>12, <1>13, <1>14, QuietKeepsSelection

-----------------------------------------------------------------------------
(* What the inputs and the messages of a job keep                          *)

SessionFields ==
  {"job", "jobs", "resultTask", "action", "failure", "result", "mismatch", "bypass",
   "riskAck", "ticked", "consent", "overrideFor", "pending", "planning",
   "recoveryPlanning", "flashing", "prepared", "cancelled", "reportPrompt", "ticking"}

\* A step of the session leaves what the user chose as it is.
LEMMA SteadyFacts ==
  ASSUME Shape(app), Selection, Inspection(app), SameBut(app, app', SessionFields)
  PROVE  /\ Inspection(app') /\ SelectedFor(app') = SelectedFor(app)
         /\ app'.bypass \in BOOLEAN => ChoiceOK'
<1>1. /\ UNCHANGED <<app.file, app.member, app.read, app.device, app.drives>>
      /\ UNCHANGED <<app.profile, app.probe>>
  BY DEF SameBut, Fields, SessionFields
<1>2. Inspection(app') BY FilesKeepInspection DEF SameBut, FileFields, SessionFields
<1>3. SelectedFor(app') = SelectedFor(app) BY <1>1, SelectedSame
<1>4. app'.bypass \in BOOLEAN => ChoiceOK' BY <1>1 DEF Selection, ChoiceOK
<1>5. QED BY <1>2, <1>3, <1>4

\* The override stays with its job or its preparation.
LEMMA SteadyKeepsSelection ==
  ASSUME Shape(app), Selection, Inspection(app), SameBut(app, app', SessionFields),
         app'.bypass \in {app.bypass, FALSE}, app'.overrideFor = app.overrideFor,
         \/ app'.job = app.job
         \/ app'.job.kind \notin {"PrepareRecovery", "ExecuteRecovery"}
         \/ app'.job.options.bypass => app.overrideFor = WithoutOverride(For(app')),
         \/ app'.prepared \in {app.prepared, None}
         \/ app'.prepared.options.bypass => app.overrideFor = WithoutOverride(app'.prepared)
  PROVE  Selection' /\ Inspection(app')
<1>1. /\ Inspection(app') /\ SelectedFor(app') = SelectedFor(app) /\ ChoiceOK'
  BY SteadyFacts DEF Selection, ChoiceOK
<1>2. app'.bypass => app'.overrideFor = SelectedFor(app')
  BY <1>1 DEF Selection, ChoiceOK, OverrideOK, OverrideIsForSelection, SelectedFor
<1>3. app'.job.kind \in {"PrepareRecovery", "ExecuteRecovery"} /\ app'.job.options.bypass =>
        app'.overrideFor = WithoutOverride(For(app'))
  BY DEF Selection, OverrideOK, OverrideIsForSelection, WithoutOverride, For
<1>4. OverrideIsForSelection'
  BY <1>2, <1>3 DEF OverrideIsForSelection, SelectedFor, WithoutOverride, For
<1>5. app'.prepared # None /\ app'.prepared.options.bypass =>
        app'.overrideFor = WithoutOverride(app'.prepared)
  BY DEF Selection, OverrideOK
<1>6. QED BY <1>1, <1>4, <1>5 DEF Selection, OverrideOK

LEMMA NotNone ==
  /\ \A t \in Targets : t # None
  /\ \A o \in Options : o # None
  /\ \A s \in Sheets : s # None
BY NoneAssumption

\* What a job was started with.
LEMMA JobFacts ==
  ASSUME Session, Running(app)
  PROVE  /\ For(app) \in Targets /\ For(app) # None
         /\ app.job.kind \in Kinds /\ app.job \in Jobs
<1>1. app.job \in Jobs BY DEF Session, JobOK, Running
<1>2. QED BY <1>1, NotNone DEF Jobs, For, Targets

LEMMA RecoveryOptionsType ==
  ASSUME Selection
  PROVE  /\ RecoveryOptions(app) \in Options
         /\ RecoveryOptions(app).bypass => app.bypass
<1>1. /\ RecoveryOptions(app).bypass \in BOOLEAN BY DEF RecoveryOptions
<1>2. RecoveryOptions(app).bypass => app.bypass BY DEF RecoveryOptions
<1>3. DOMAIN RecoveryOptions(app) = {"input", "member", "current", "currentMember", "bypass"}
  BY DEF RecoveryOptions
<1>4. RecoveryOptions(app) = [f \in {"input", "member", "current", "currentMember", "bypass"} |->
                                RecoveryOptions(app)[f]]
  BY DEF RecoveryOptions
<1>5. /\ app.file \in [Picks -> Files \cup {None}] /\ app.member \in [Picks -> Members \cup {None}]
      /\ {"RecoveryInput", "RecoveryCurrent"} \subseteq Picks
  BY DEF Selection, ChoiceOK, Picks
<1>6. RecoveryOptions(app).input \in Files \cup {None} BY <1>5 DEF RecoveryOptions
<1>7. RecoveryOptions(app).member \in Members \cup {None} BY <1>5 DEF RecoveryOptions
<1>8. RecoveryOptions(app).current \in Files \cup {None} BY <1>5 DEF RecoveryOptions
<1>9. RecoveryOptions(app).currentMember \in Members \cup {None} BY <1>5 DEF RecoveryOptions
<1>10. RecoveryOptions(app) \in Options
  BY <1>1, <1>3, <1>4, <1>6, <1>7, <1>8, <1>9 DEF Options
<1>11. QED BY <1>2, <1>10

LEMMA FlashOptionsType ==
  ASSUME Selection
  PROVE  FlashOptions(app) \in Options
<1>1. /\ app.file \in [Picks -> Files \cup {None}] /\ app.member \in [Picks -> Members \cup {None}]
      /\ {"FlashFirmware", "FlashCurrent"} \subseteq Picks
  BY DEF Selection, ChoiceOK, Picks
<1>2. QED BY <1>1 DEF FlashOptions, Options

-----------------------------------------------------------------------------
(* A job starts                                                            *)

LEMMA StartedSession ==
  ASSUME JobOK', app'.job # NoJob, thread' = Spawned, chan' = <<>>,
         app'.pending = None, app'.prepared = None, ~app'.cancelled,
         app'.riskAck \in BOOLEAN, app'.riskAck => app'.ticked = TRUE,
         app'.job.kind = "ExecuteRecovery" => Given'
  PROVE  Session'
<1>1. Running(app)' BY DEF Running
<1>2. thread'.stage = "run" /\ thread'.answer = "none" /\ thread'.touched = FALSE
  BY DEF Spawned
<1>3. ThreadOK' BY <1>1, <1>2 DEF ThreadOK, Spawned
<1>4. ChanOK' BY <1>1, <1>2 DEF ChanOK, AskingOK, EndedOK, Questions
<1>5. PreparedOK' /\ PendingOK' BY DEF PreparedOK, PendingOK
<1>6. CancelledOK' BY DEF CancelledOK
<1>7. ConsentOK' BY <1>2 DEF ConsentOK
<1>8. QED BY <1>3, <1>4, <1>5, <1>6, <1>7 DEF Session

LEMMA StartJobStarts ==
  ASSUME NEW a, Shape(a), ~Running(a), NEW kind, NEW drive, NEW options,
         drive # None \/ kind = "CheckFile"
  PROVE  LET b == StartJob(a, kind, drive, options) IN
         /\ SameBut(a, b, {"job", "jobs", "resultTask", "action", "failure", "result",
                           "mismatch", "consent", "ticking"})
         /\ b.job = [kind |-> kind, drive |-> drive, options |-> options]
         /\ b.jobs = a.jobs + 1
<1>1. StartJob(a, kind, drive, options).job = [kind |-> kind, drive |-> drive, options |-> options]
  BY DEF StartJob, Shape, Fields
<1>2. StartJob(a, kind, drive, options).jobs = a.jobs + 1
  BY DEF StartJob, Shape, Fields
<1>3. QED BY <1>1, <1>2, StartJobFrame

LEMMA StutterKeeps ==
  ASSUME SessionInv, UNCHANGED vars
  PROVE  SessionInv'
<1> USE DEF vars
<1>1. JobOK' BY DEF SessionInv, Session, JobOK, For
<1>2. ThreadOK' BY DEF SessionInv, Session, ThreadOK, Running
<1>3. ChanOK' BY DEF SessionInv, Session, ChanOK, AskingOK, EndedOK, For, Running
<1>4. PreparedOK' BY DEF SessionInv, Session, PreparedOK, For, Running
<1>5. PendingOK' BY DEF SessionInv, Session, PendingOK, Running
<1>6. CancelledOK' BY DEF SessionInv, Session, CancelledOK, Running
<1>7. ConsentOK' BY DEF SessionInv, Session, ConsentOK, Given, For, Running
<1>8. ChoiceOK' BY DEF SessionInv, Selection, ChoiceOK
<1>9. OverrideOK' BY DEF SessionInv, Selection, OverrideOK, OverrideIsForSelection
<1>10. QED
  BY <1>1, <1>2, <1>3, <1>4, <1>5, <1>6, <1>7, <1>8, <1>9 DEF SessionInv, Session, Selection

LEMMA ReadOnlyJobStep ==
  ASSUME SessionInv, ReadOnlyJob
  PROVE  SessionInv'
<1> USE DEF SessionInv
<1>1. /\ ~Running(app) /\ app.pending = None /\ app.prepared = None /\ chan = <<>>
      /\ app.job = NoJob /\ ~app.cancelled
  BY IdleFacts DEF ReadOnlyJob, Session, CancelledOK
<1>2. PICK kind \in {"Read", "CheckFile"}, drive \in {app.device, None} :
        /\ Becomes(StartJob(app, kind, drive, None))
        /\ kind = "CheckFile" \/ drive = app.device
  BY DEF ReadOnlyJob
<1> DEFINE b == StartJob(app, kind, drive, None)
<1>3. CASE drive = None /\ kind # "CheckFile"
  <2>1. b = app BY <1>3 DEF StartJob
  <2>2. UNCHANGED vars BY <1>2, <2>1 DEF Becomes, vars
  <2>3. QED BY <2>2, StutterKeeps
<1>4. CASE drive # None \/ kind = "CheckFile"
  <2>1. /\ SameBut(app, b, {"job", "jobs", "resultTask", "action", "failure", "result",
                            "mismatch", "consent", "ticking"})
        /\ b.job = [kind |-> kind, drive |-> drive, options |-> None]
        /\ b.jobs = app.jobs + 1
    BY <1>1, <1>4, StartJobStarts
  <2>2. Becomes(b) BY <1>2
  <2> HIDE DEF b
  <2>3. app.jobs \in Nat /\ b.jobs # app.jobs BY <2>1 DEF Session, JobOK
  <2>4. app' = b /\ thread' = Spawned /\ chan' = <<>> BY <1>1, <2>2, <2>3 DEF Becomes
  <2>5. /\ b.planning = app.planning /\ b.recoveryPlanning = app.recoveryPlanning
        /\ b.flashing = app.flashing /\ b.pending = app.pending /\ b.prepared = app.prepared
        /\ b.cancelled = app.cancelled /\ b.riskAck = app.riskAck /\ b.ticked = app.ticked
        /\ b.bypass = app.bypass /\ b.overrideFor = app.overrideFor
    BY <2>1 DEF SameBut, Fields
  <2>6. /\ b.job.kind = kind /\ b.job \in Jobs /\ b.job # NoJob
    BY <2>1 DEF Jobs, Kinds, NoJob, Selection, ChoiceOK
  <2>7. JobOK' BY <1>1, <2>1, <2>3, <2>4, <2>5, <2>6 DEF JobOK, Session, NoJob
  <2>8. Session'
    BY <1>1, <2>4, <2>5, <2>6, <2>7, StartedSession DEF Session, ConsentOK
  <2>9. Selection' /\ Inspection(app')
    <3>1. SameBut(app, app', SessionFields) BY <2>1, <2>4 DEF SameBut, SessionFields
    <3>2. QED BY <2>4, <2>5, <2>6, <3>1, SteadyKeepsSelection
  <2>10. QED BY <2>1, <2>4, <2>8, <2>9 DEF SameBut
<1>5. QED BY <1>3, <1>4

LEMMA FlashNowStep ==
  ASSUME SessionInv, FlashNow
  PROVE  SessionInv'
<1> USE DEF SessionInv
<1>1. /\ ~Running(app) /\ app.pending = None /\ app.prepared = None /\ chan = <<>>
      /\ app.job = NoJob /\ ~app.cancelled
  BY IdleFacts DEF FlashNow, Session, CancelledOK
<1> DEFINE options == FlashOptions(app)
           a == StartJob(app, "PlanFlash", app.device, options)
           b == [a EXCEPT !.planning = Target(app, options)]
<1>2. Becomes(b) BY DEF FlashNow, Target
<1>3. options \in Options /\ options # None /\ app.device \in Drives /\ app.device # None
  BY FlashOptionsType, NotNone DEF FlashNow, FlashReady, Selection, ChoiceOK
<1> HIDE DEF options
<1>4. /\ SameBut(app, a, {"job", "jobs", "resultTask", "action", "failure", "result",
                          "mismatch", "consent", "ticking"})
      /\ a.job = [kind |-> "PlanFlash", drive |-> app.device, options |-> options]
      /\ a.jobs = app.jobs + 1
  BY <1>1, <1>3, StartJobStarts
<1> HIDE DEF a
<1>5. /\ SameBut(app, b, {"job", "jobs", "resultTask", "action", "failure", "result",
                          "mismatch", "consent", "ticking", "planning"})
      /\ b.job = a.job /\ b.jobs = a.jobs
      /\ b.planning = [drive |-> app.device, options |-> options]
  BY <1>4 DEF SameBut, Shape, Fields, Target
<1> HIDE DEF b
<1>6. app.jobs \in Nat /\ b.jobs # app.jobs BY <1>4, <1>5 DEF Session, JobOK
<1>7. app' = b /\ thread' = Spawned /\ chan' = <<>> BY <1>1, <1>2, <1>6 DEF Becomes
<1>8. /\ b.recoveryPlanning = app.recoveryPlanning
      /\ b.flashing = app.flashing /\ b.pending = app.pending /\ b.prepared = app.prepared
      /\ b.cancelled = app.cancelled /\ b.riskAck = app.riskAck /\ b.ticked = app.ticked
      /\ b.bypass = app.bypass /\ b.overrideFor = app.overrideFor
  BY <1>5 DEF SameBut, Fields
<1>9. /\ b.job.kind = "PlanFlash" /\ b.job \in Jobs /\ b.job # NoJob
  BY <1>3, <1>4, <1>5 DEF Jobs, Kinds, NoJob
<1>10. JobOK' BY <1>1, <1>3, <1>4, <1>5, <1>6, <1>7, <1>8, <1>9 DEF JobOK, Session, NoJob, For
<1>11. Session'
  BY <1>1, <1>7, <1>8, <1>9, <1>10, StartedSession DEF Session, ConsentOK
<1>12. Selection' /\ Inspection(app')
  <2>1. SameBut(app, app', SessionFields) BY <1>5, <1>7 DEF SameBut, SessionFields
  <2>2. QED BY <1>7, <1>8, <1>9, <2>1, SteadyKeepsSelection
<1>13. QED BY <1>5, <1>7, <1>11, <1>12 DEF SameBut

\* A recovery that overrides takes the confirmed selection with it.
LEMMA RecoverStep ==
  ASSUME SessionInv, Recover
  PROVE  SessionInv'
<1> USE DEF SessionInv
<1>1. /\ ~Running(app) /\ app.pending = None /\ app.prepared = None /\ chan = <<>>
      /\ app.job = NoJob /\ ~app.cancelled
  BY IdleFacts DEF Recover, Session, CancelledOK
<1> DEFINE options == RecoveryOptions(app)
           e == [app EXCEPT !.prepared = None, !.bypass = FALSE]
           a == StartJob(e, "PrepareRecovery", app.device, options)
           b == [a EXCEPT !.recoveryPlanning = Target(app, options)]
<1>2. Becomes(b) BY DEF Recover, Target
<1>3. /\ options \in Options /\ options # None /\ app.device \in Drives /\ app.device # None
      /\ options.bypass => app.overrideFor =
           WithoutOverride([drive |-> app.device, options |-> options])
  <2>1. app.bypass => app.overrideFor =
          WithoutOverride([drive |-> app.device, options |-> options])
    BY DEF Selection, OverrideOK, OverrideIsForSelection, WithoutOverride, SelectedFor, Target
  <2>2. QED
    BY <2>1, RecoveryOptionsType, NotNone DEF Recover, RecoveryReady, Selection, ChoiceOK
<1> HIDE DEF options
<1>4. /\ SameBut(app, e, {"bypass"}) /\ e.bypass = FALSE /\ e.job = app.job
      /\ e.jobs = app.jobs
  BY <1>1, ZenonT(40) DEF SameBut, Shape, Fields
<1> HIDE DEF e
<1>5. /\ SameBut(e, a, {"job", "jobs", "resultTask", "action", "failure", "result",
                        "mismatch", "consent", "ticking"})
      /\ a.job = [kind |-> "PrepareRecovery", drive |-> app.device, options |-> options]
      /\ a.jobs = app.jobs + 1
  BY <1>1, <1>3, <1>4, StartJobStarts DEF Running, SameBut
<1> HIDE DEF a
<1>6. /\ SameBut(app, b, {"job", "jobs", "resultTask", "action", "failure", "result",
                          "mismatch", "consent", "ticking", "recoveryPlanning", "bypass"})
      /\ b.job = a.job /\ b.jobs = a.jobs /\ b.bypass = FALSE
      /\ b.recoveryPlanning = [drive |-> app.device, options |-> options]
  BY <1>4, <1>5 DEF SameBut, Shape, Fields, Target
<1> HIDE DEF b
<1>7. app.jobs \in Nat /\ b.jobs # app.jobs BY <1>5, <1>6 DEF Session, JobOK
<1>8. app' = b /\ thread' = Spawned /\ chan' = <<>> BY <1>1, <1>2, <1>7 DEF Becomes
<1>9. /\ b.planning = app.planning
      /\ b.flashing = app.flashing /\ b.pending = app.pending /\ b.prepared = app.prepared
      /\ b.cancelled = app.cancelled /\ b.riskAck = app.riskAck /\ b.ticked = app.ticked
      /\ b.overrideFor = app.overrideFor
  BY <1>6 DEF SameBut, Fields
<1>10. /\ b.job.kind = "PrepareRecovery" /\ b.job \in Jobs /\ b.job # NoJob
       /\ b.job.options = options /\ For(b) = [drive |-> app.device, options |-> options]
  BY <1>3, <1>5, <1>6 DEF Jobs, Kinds, NoJob, For
<1>11. JobOK' BY <1>1, <1>3, <1>5, <1>6, <1>7, <1>8, <1>9, <1>10 DEF JobOK, Session, NoJob, For
<1>12. Session'
  BY <1>1, <1>8, <1>9, <1>10, <1>11, StartedSession DEF Session, ConsentOK
<1>13. Selection' /\ Inspection(app')
  <2>1. SameBut(app, app', SessionFields) BY <1>6, <1>8 DEF SameBut, SessionFields
  <2>2. QED BY <1>3, <1>6, <1>8, <1>9, <1>10, <2>1, SteadyKeepsSelection
<1>14. QED BY <1>6, <1>8, <1>12, <1>13 DEF SameBut

-----------------------------------------------------------------------------
(* Sheets open and are answered                                            *)

LEMMA BypassFamilyStep ==
  ASSUME SessionInv, NEW on \in BOOLEAN, BypassFamily(on)
  PROVE  SessionInv'
<1> USE DEF SessionInv
<1>1. /\ ~Running(app) /\ app.pending = None /\ app.prepared = None /\ chan = <<>>
      /\ app.job = NoJob /\ ~app.cancelled /\ Idle
  BY IdleFacts DEF BypassFamily, Session, CancelledOK
<1> DEFINE e == [app EXCEPT !.bypass = FALSE, !.riskAck = FALSE]
           a == ClearFlashResult(e)
           t == Target(a, None)
           b == Ask(a, t, "FamilyOverride")
<1>2. Becomes(a) \/ Becomes(b) BY DEF BypassFamily
<1>3. CASE Becomes(a)
  <2>1. Quiet /\ Selection' /\ Inspection(app') BY <1>1, <1>3, BypassRefusedStep
  <2>2. QED BY <2>1, QuietKeepsSession DEF Quiet, SameBut
<1>4. CASE Becomes(b)
  <2>1. SameBut(app, e, {"bypass", "riskAck"}) /\ e.bypass = FALSE
    BY DEF SameBut, Shape, Fields
  <2> HIDE DEF e
  <2>2. SameBut(e, a, {"prepared", "failure", "result"}) /\ a.prepared = None
    BY <2>1, ClearFlashResultFrame DEF SameBut
  <2> HIDE DEF a
  <2>3. /\ SameBut(app, a, {"bypass", "riskAck", "failure", "result"})
        /\ a.bypass = FALSE /\ a.device = app.device
    BY <1>1, <2>1, <2>2 DEF SameBut, Fields
  <2> HIDE DEF t
  <2>4. /\ SameBut(a, b, {"riskAck", "ticked", "pending"}) /\ b.riskAck = FALSE
        /\ b.pending = [target |-> t, sheet |-> "FamilyOverride"]
    <3>1. Shape(a) BY <2>3 DEF SameBut
    <3>2. QED BY <3>1 DEF Ask, SameBut, Shape, Fields
  <2> HIDE DEF b
  <2>5. /\ SameBut(app, b, {"bypass", "riskAck", "failure", "result", "ticked", "pending"})
        /\ b.bypass = FALSE /\ b.job = app.job /\ b.jobs = app.jobs
        /\ b.overrideFor = app.overrideFor /\ b.prepared = app.prepared
        /\ b.planning = app.planning /\ b.recoveryPlanning = app.recoveryPlanning
        /\ b.flashing = app.flashing /\ b.cancelled = app.cancelled
    BY <2>3, <2>4 DEF SameBut, Fields
  <2>6. app' = b /\ UNCHANGED <<thread, chan>> BY <1>4, <2>5 DEF Becomes
  <2>7. b.pending \in Sheets /\ b.pending.sheet = "FamilyOverride"
    <3>1. t \in Targets BY <2>3 DEF t, Target, Targets, Selection, ChoiceOK
    <3>2. QED BY <2>4, <3>1 DEF Sheets
  <2>8. JobOK' BY <2>5, <2>6 DEF Session, JobOK, For
  <2>9. ~Running(app)' BY <1>1, <2>5, <2>6 DEF Running
  <2>10. ThreadOK' BY <1>1, <2>6, <2>9 DEF Session, ThreadOK
  <2>11. ChanOK' BY <2>9 DEF ChanOK, AskingOK, EndedOK
  <2>12. PreparedOK' BY <1>1, <2>5, <2>6 DEF PreparedOK
  <2>13. PendingOK' BY <2>6, <2>7 DEF PendingOK
  <2>14. CancelledOK' /\ ConsentOK'
    BY <1>1, <2>4, <2>5, <2>6, <2>9 DEF CancelledOK, ConsentOK
  <2>15. Selection' /\ Inspection(app')
    <3>1. SameBut(app, app', SessionFields) BY <2>5, <2>6 DEF SameBut, SessionFields
    <3>2. QED BY <2>5, <2>6, <3>1, SteadyKeepsSelection
  <2>16. QED
    BY <2>5, <2>6, <2>8, <2>10, <2>11, <2>12, <2>13, <2>14, <2>15 DEF Session, SameBut
<1>5. QED BY <1>2, <1>3, <1>4

\* The box is ticked on the sheet that is open.
LEMMA TickRiskStep ==
  ASSUME SessionInv, NEW on \in BOOLEAN, TickRisk(on)
  PROVE  SessionInv'
<1> USE DEF SessionInv
<1> DEFINE b == [app EXCEPT !.riskAck = on, !.ticked = on]
<1>1. Becomes(b) BY DEF TickRisk
<1>2. /\ SameBut(app, b, {"riskAck", "ticked"}) /\ b.riskAck = on /\ b.ticked = on
  BY DEF SameBut, Shape, Fields
<1> HIDE DEF b
<1>3. /\ b.job = app.job /\ b.jobs = app.jobs /\ b.bypass = app.bypass
      /\ b.overrideFor = app.overrideFor /\ b.prepared = app.prepared
      /\ b.planning = app.planning /\ b.recoveryPlanning = app.recoveryPlanning
      /\ b.flashing = app.flashing /\ b.cancelled = app.cancelled
      /\ b.pending = app.pending /\ b.consent = app.consent
  BY <1>2 DEF SameBut, Fields
<1>4. app' = b /\ UNCHANGED <<thread, chan>> BY <1>1, <1>3 DEF Becomes
<1>5. JobOK' BY <1>3, <1>4 DEF Session, JobOK, For
<1>6. ThreadOK' BY <1>3, <1>4 DEF Session, ThreadOK, Running
<1>7. ChanOK' BY <1>3, <1>4 DEF Session, ChanOK, AskingOK, EndedOK, For, Running
<1>8. PreparedOK' BY <1>3, <1>4 DEF Session, PreparedOK, For, Running
<1>9. PendingOK' BY <1>3, <1>4 DEF Session, PendingOK, Running
<1>10. CancelledOK' BY <1>3, <1>4 DEF Session, CancelledOK, Running
<1>11. ConsentOK' BY <1>2, <1>3, <1>4 DEF Session, ConsentOK, Given, For, Running
<1>12. Selection' /\ Inspection(app')
  <2>1. SameBut(app, app', SessionFields) BY <1>2, <1>4 DEF SameBut, SessionFields
  <2>2. QED BY <1>3, <1>4, <2>1, SteadyKeepsSelection
<1>13. QED
  BY <1>2, <1>4, <1>5, <1>6, <1>7, <1>8, <1>9, <1>10, <1>11, <1>12 DEF Session, SameBut

\* What a sheet that is open says of the job.
LEMMA SheetFacts ==
  ASSUME Session, app.pending # None
  PROVE  /\ app.pending \in Sheets
         /\ app.pending.sheet \in {"FamilyOverride", "Recovery"} =>
              /\ ~Running(app) /\ app.job = NoJob /\ chan = <<>> /\ ~app.cancelled
         /\ app.pending.sheet = "FamilyOverride" => app.prepared = None
         /\ app.pending.sheet = "Recovery" =>
              /\ app.prepared = app.pending.target /\ app.prepared # None
              /\ app.prepared.drive # None /\ app.prepared.options # None
         /\ app.pending.sheet \in {"WithoutBackup", "Flash"} =>
              /\ Running(app) /\ app.job.kind = "Flash"
              /\ thread.stage \in Questions /\ thread.answer = "none" /\ chan = <<>>
              /\ app.pending.sheet = SheetOf(thread.stage)
              /\ app.pending.target = For(app)
              /\ app.prepared = None /\ ~app.cancelled /\ ~thread.touched
<1>1. app.pending \in Sheets /\ app.pending.target \in Targets BY DEF Session, PendingOK, Sheets
<1>2. CASE Running(app)
  <2>1. /\ thread.stage \in Questions /\ thread.answer = "none" /\ chan = <<>>
        /\ app.pending = [target |-> For(app), sheet |-> SheetOf(thread.stage)]
    BY <1>2 DEF Session, ChanOK, AskingOK
  <2>2. /\ app.job.kind = "Flash" /\ ~thread.touched
    BY <1>2, <2>1 DEF Session, ThreadOK, Questions
  <2>3. app.prepared = None BY <1>2, <2>2 DEF Session, PreparedOK
  <2>4. ~app.cancelled BY <2>1 DEF Session, CancelledOK
  <2>5. app.pending.sheet \in {"WithoutBackup", "Flash"} BY <2>1 DEF SheetOf
  <2>6. QED BY <1>1, <1>2, <2>1, <2>2, <2>3, <2>4, <2>5
<1>3. CASE ~Running(app)
  <2>1. /\ app.pending.sheet \in {"FamilyOverride", "Recovery"}
        /\ app.pending.sheet = "Recovery" => app.prepared = app.pending.target
    BY <1>3 DEF Session, PendingOK
  <2>2. chan = <<>> /\ app.job = NoJob /\ ~app.cancelled
    BY <1>3 DEF Session, ThreadOK, Running, CancelledOK
  <2>3. app.pending.sheet = "FamilyOverride" => app.prepared = None
    <3>1. app.prepared # None =>
            app.pending = [target |-> app.prepared, sheet |-> "Recovery"]
      BY <1>3 DEF Session, PreparedOK
    <3>2. QED BY <3>1
  <2>4. app.pending.sheet = "Recovery" =>
          app.prepared # None /\ app.prepared.drive # None /\ app.prepared.options # None
    BY <1>1, <1>3, <2>1, NotNone DEF Session, PreparedOK
  <2>5. QED BY <1>1, <1>3, <2>1, <2>2, <2>3, <2>4
<1>4. QED BY <1>2, <1>3

\* The override is confirmed for the selection behind the sheet.
LEMMA ConfirmOverrideStep ==
  ASSUME SessionInv, NEW codeMatches \in BOOLEAN, ConfirmOverride(codeMatches)
  PROVE  SessionInv'
<1> USE DEF SessionInv
<1> DEFINE confirmed == /\ codeMatches /\ OverrideSupported(app)
                        /\ app.pending.target.drive = app.device
           b == [app EXCEPT
                  !.pending = None, !.riskAck = FALSE, !.bypass = confirmed,
                  !.overrideFor = IF confirmed THEN SelectedFor(app) ELSE None]
<1>1. Becomes(b) BY DEF ConfirmOverride
<1>2. /\ ~Running(app) /\ app.job = NoJob /\ chan = <<>> /\ ~app.cancelled
      /\ app.prepared = None
  BY SheetFacts DEF ConfirmOverride
<1>3. /\ SameBut(app, b, {"pending", "riskAck", "bypass", "overrideFor"})
      /\ b.pending = None /\ b.riskAck = FALSE
  BY DEF SameBut, Shape, Fields
<1>4. b.bypass \in BOOLEAN
  BY DEF Shape, Fields
<1>5. b.bypass => b.overrideFor = SelectedFor(app)
  BY DEF Shape, Fields
<1> HIDE DEF b, confirmed
<1>6. /\ b.job = app.job /\ b.jobs = app.jobs /\ b.prepared = app.prepared
      /\ b.planning = app.planning /\ b.recoveryPlanning = app.recoveryPlanning
      /\ b.flashing = app.flashing /\ b.cancelled = app.cancelled
  BY <1>3 DEF SameBut, Fields
<1>7. app' = b /\ UNCHANGED <<thread, chan>> BY <1>1, <1>6 DEF Becomes
<1>8. JobOK' BY <1>6, <1>7 DEF Session, JobOK, For
<1>9. ~Running(app)' BY <1>2, <1>6, <1>7 DEF Running
<1>10. ThreadOK' BY <1>2, <1>7, <1>9 DEF Session, ThreadOK
<1>11. ChanOK' BY <1>9 DEF ChanOK, AskingOK, EndedOK
<1>12. PreparedOK' /\ PendingOK' BY <1>2, <1>3, <1>6, <1>7 DEF PreparedOK, PendingOK
<1>13. CancelledOK' /\ ConsentOK'
  BY <1>2, <1>3, <1>6, <1>7, <1>9 DEF CancelledOK, ConsentOK
<1>14. Inspection(app') /\ SelectedFor(app') = SelectedFor(app) /\ ChoiceOK'
  <2>1. SameBut(app, app', SessionFields) BY <1>3, <1>7 DEF SameBut, SessionFields
  <2>2. QED BY <1>4, <1>7, <2>1, SteadyFacts
<1>15. OverrideOK'
  <2>1. app'.job.kind = "none" /\ app'.prepared = None
    BY <1>2, <1>6, <1>7 DEF NoJob
  <2>2. ASSUME app'.bypass PROVE app'.overrideFor = SelectedFor(app')
    BY <1>5, <1>7, <1>14, <2>2
  <2>3. QED BY <2>1, <2>2 DEF OverrideOK, OverrideIsForSelection, SelectedFor
<1>16. QED
  BY <1>3, <1>7, <1>8, <1>10, <1>11, <1>12, <1>13, <1>14, <1>15
     DEF Session, Selection, SameBut

\* The answer to a question reaches the thread that waits for it.
LEMMA ReplyStep ==
  ASSUME SessionInv, NEW a, NEW answer \in {"yes", "no"}, Reply(a, answer),
         app.pending # None, app.pending.sheet \in {"WithoutBackup", "Flash"},
         SameBut(app, a, {"pending", "riskAck", "consent", "cancelled", "prepared"}),
         a.pending = None, a.riskAck = FALSE, a.prepared \in {app.prepared, None},
         a.cancelled => answer = "no",
         app.pending.sheet = "Flash" /\ answer = "yes" =>
           a.consent = [ticked |-> TRUE, target |-> app.pending.target]
  PROVE  SessionInv'
<1> USE DEF SessionInv
<1>1. /\ Running(app) /\ app.job.kind = "Flash"
      /\ thread.stage \in Questions /\ thread.answer = "none" /\ chan = <<>>
      /\ app.pending.sheet = SheetOf(thread.stage)
      /\ app.pending.target = For(app)
      /\ app.prepared = None /\ ~app.cancelled /\ ~thread.touched
  BY SheetFacts
<1>2. /\ app' = a /\ chan' = <<>> /\ thread' = [thread EXCEPT !.answer = answer]
  BY <1>1 DEF Reply
<1>3. /\ a.job = app.job /\ a.jobs = app.jobs /\ a.bypass = app.bypass
      /\ a.overrideFor = app.overrideFor
      /\ a.planning = app.planning /\ a.recoveryPlanning = app.recoveryPlanning
      /\ a.flashing = app.flashing
  BY DEF SameBut, Fields
<1>4. /\ thread' \in [stage : {"run", "backup?", "waived", "flash?", "write", "lost", "ended"},
                      answer : {"none", "yes", "no"}, touched : BOOLEAN]
      /\ thread'.stage = thread.stage /\ thread'.answer = answer
      /\ thread'.touched = thread.touched
  BY <1>2 DEF Session, ThreadOK
<1>5. Running(app)' /\ For(app') = For(app) BY <1>1, <1>2, <1>3 DEF Running, For
<1>6. JobOK' BY <1>2, <1>3, <1>5 DEF Session, JobOK, For
<1>7. ThreadOK' BY <1>1, <1>2, <1>3, <1>4, <1>5 DEF Session, ThreadOK
<1>8. ChanOK'
  BY <1>1, <1>2, <1>4, <1>5 DEF ChanOK, AskingOK, EndedOK, Questions
<1>9. PreparedOK' /\ PendingOK' BY <1>1, <1>2 DEF PreparedOK, PendingOK
<1>10. CancelledOK' BY <1>1, <1>2, <1>3, <1>4, <1>5 DEF CancelledOK
<1>11. ConsentOK'
  <2>1. ASSUME thread'.stage = "flash?", thread'.answer = "yes" PROVE Given'
    <3>1. app.pending.sheet = "Flash" /\ answer = "yes" BY <1>1, <1>4, <2>1 DEF SheetOf
    <3>2. QED BY <1>1, <1>2, <1>5, <3>1 DEF Given
  <2>2. thread'.stage # "write" /\ app'.job.kind # "ExecuteRecovery"
    BY <1>1, <1>2, <1>3, <1>4 DEF Questions
  <2>3. QED BY <1>2, <2>1, <2>2 DEF ConsentOK
<1>12. Selection' /\ Inspection(app')
  <2>1. SameBut(app, app', SessionFields) BY <1>2 DEF SameBut, SessionFields
  <2>2. QED BY <1>1, <1>2, <1>3, <2>1, SteadyKeepsSelection
<1>13. QED
  BY <1>2, <1>6, <1>7, <1>8, <1>9, <1>10, <1>11, <1>12 DEF Session, SameBut

LEMMA ConfirmWithoutBackupStep ==
  ASSUME SessionInv, ConfirmWithoutBackup
  PROVE  SessionInv'
<1> DEFINE a == [app EXCEPT !.pending = None, !.riskAck = FALSE]
<1>1. Reply(a, "yes") /\ app.pending # None /\ app.pending.sheet = "WithoutBackup"
  BY DEF ConfirmWithoutBackup
<1>2. /\ SameBut(app, a, {"pending", "riskAck"}) /\ a.pending = None /\ a.riskAck = FALSE
      /\ a.prepared = app.prepared /\ a.cancelled = app.cancelled
  BY DEF SessionInv, SameBut, Shape, Fields
<1> HIDE DEF a
<1>3. ~app.cancelled BY <1>1, SheetFacts DEF SessionInv
<1>4. QED BY <1>1, <1>2, <1>3, ReplyStep DEF SameBut

\* The consent is what the sheet showed, and its box was ticked.
LEMMA ConfirmFlashStep ==
  ASSUME SessionInv, ConfirmFlash
  PROVE  SessionInv'
<1> DEFINE a == [Consented(app) EXCEPT !.riskAck = FALSE]
<1>1. Reply(a, "yes") /\ app.pending # None /\ app.pending.sheet = "Flash" /\ app.riskAck
  BY DEF ConfirmFlash
<1>2. /\ SameBut(app, a, {"pending", "riskAck", "consent"})
      /\ a.pending = None /\ a.riskAck = FALSE
      /\ a.prepared = app.prepared /\ a.cancelled = app.cancelled
      /\ a.consent = [ticked |-> app.ticked, target |-> app.pending.target]
  BY DEF Consented, SessionInv, SameBut, Shape, Fields
<1> HIDE DEF a
<1>3. ~app.cancelled BY <1>1, SheetFacts DEF SessionInv
<1>4. app.ticked = TRUE BY <1>1 DEF SessionInv, Session, ConsentOK
<1>5. a.consent = [ticked |-> TRUE, target |-> app.pending.target] BY <1>2, <1>4
<1>6. QED BY <1>1, <1>2, <1>3, <1>5, ReplyStep DEF SameBut

\* The job that starts is the one that was prepared and shown.
LEMMA ConfirmRecoveryStep ==
  ASSUME SessionInv, ConfirmRecovery
  PROVE  SessionInv'
<1> USE DEF SessionInv
<1>1. /\ app.pending # None /\ app.pending.sheet = "Recovery" /\ app.riskAck
  BY DEF ConfirmRecovery
<1>2. /\ ~Running(app) /\ app.job = NoJob /\ chan = <<>> /\ ~app.cancelled
      /\ app.prepared = app.pending.target /\ app.prepared # None
      /\ app.prepared.drive # None /\ app.prepared.options # None
      /\ app.pending \in Sheets
  BY <1>1, SheetFacts
<1>3. /\ app.prepared \in Targets /\ app.prepared.drive \in Drives
      /\ app.prepared.options \in Options
      /\ app.prepared = [drive |-> app.prepared.drive, options |-> app.prepared.options]
  BY <1>2 DEF Sheets, Targets
<1> DEFINE drive == app.prepared.drive
           options == app.prepared.options
           c == Consented(app)
           e == [c EXCEPT !.prepared = None]
           a == StartJob(e, "ExecuteRecovery", drive, options)
           b == [a EXCEPT !.consent = c.consent]
<1>4. Becomes(b) BY <1>2 DEF ConfirmRecovery
<1>5. /\ SameBut(app, c, {"consent", "pending"}) /\ c.pending = None
      /\ c.consent = [ticked |-> app.ticked, target |-> app.pending.target]
  BY DEF Consented, SameBut, Shape, Fields
<1> HIDE DEF c
<1>6. /\ SameBut(app, e, {"consent", "pending", "prepared"}) /\ e.pending = None
      /\ e.prepared = None /\ e.job = app.job /\ e.jobs = app.jobs
  BY <1>5 DEF SameBut, Shape, Fields
<1> HIDE DEF e, drive, options
<1>7. /\ SameBut(e, a, {"job", "jobs", "resultTask", "action", "failure", "result",
                        "mismatch", "consent", "ticking"})
      /\ a.job = [kind |-> "ExecuteRecovery", drive |-> drive, options |-> options]
      /\ a.jobs = app.jobs + 1
  <2>1. Shape(e) /\ ~Running(e) /\ drive # None
    BY <1>2, <1>6 DEF SameBut, Running, drive
  <2>2. QED BY <1>6, <2>1, StartJobStarts
<1> HIDE DEF a
<1>8. /\ SameBut(app, b, {"job", "jobs", "resultTask", "action", "failure", "result",
                          "mismatch", "consent", "ticking", "pending", "prepared"})
      /\ b.job = a.job /\ b.jobs = a.jobs /\ b.pending = None /\ b.prepared = None
      /\ b.consent = [ticked |-> TRUE, target |-> app.prepared]
  <2>1. app.ticked = TRUE BY <1>1 DEF Session, ConsentOK
  <2>2. QED BY <1>2, <1>5, <1>6, <1>7, <2>1, ZenonT(40) DEF SameBut, Shape, Fields
<1> HIDE DEF b
<1>9. app.jobs \in Nat /\ b.jobs # app.jobs BY <1>7, <1>8 DEF Session, JobOK
<1>10. app' = b /\ thread' = Spawned /\ chan' = <<>> BY <1>2, <1>4, <1>9 DEF Becomes
<1>11. /\ b.planning = app.planning /\ b.recoveryPlanning = app.recoveryPlanning
       /\ b.flashing = app.flashing
       /\ b.cancelled = app.cancelled /\ b.riskAck = app.riskAck /\ b.ticked = app.ticked
       /\ b.bypass = app.bypass /\ b.overrideFor = app.overrideFor
  BY <1>8 DEF SameBut, Fields
<1>12. /\ b.job.kind = "ExecuteRecovery" /\ b.job \in Jobs /\ b.job # NoJob
       /\ b.job.drive = drive /\ b.job.options = options
  BY <1>3, <1>7, <1>8 DEF Jobs, Kinds, NoJob, drive, options
<1>13. For(b) = app.prepared BY <1>3, <1>12 DEF For, drive, options
<1>14. JobOK'
  BY <1>2, <1>7, <1>8, <1>9, <1>10, <1>11, <1>12 DEF JobOK, Session, NoJob, drive, options
<1>15. Given' BY <1>8, <1>10, <1>13 DEF Given
<1>16. Session'
  BY <1>2, <1>8, <1>10, <1>11, <1>12, <1>14, <1>15, StartedSession DEF Session, ConsentOK
<1>17. Selection' /\ Inspection(app')
  <2>1. SameBut(app, app', SessionFields) BY <1>8, <1>10 DEF SameBut, SessionFields
  <2>2. b.job.options.bypass => app.overrideFor = WithoutOverride(For(b))
    BY <1>2, <1>12, <1>13 DEF Selection, OverrideOK, options
  <2>3. QED BY <1>8, <1>10, <1>11, <2>1, <2>2, SteadyKeepsSelection
<1>18. QED BY <1>8, <1>10, <1>16, <1>17 DEF SameBut

LEMMA CancelConfirmStep ==
  ASSUME SessionInv, CancelConfirm
  PROVE  SessionInv'
<1> USE DEF SessionInv
<1> DEFINE a == [app EXCEPT !.prepared = None, !.pending = None, !.riskAck = FALSE]
           b == [a EXCEPT !.cancelled = TRUE]
<1>1. /\ app.pending # None
      /\ \/ app.pending.sheet \in {"Flash", "WithoutBackup"} /\ Reply(b, "no")
         \/ app.pending.sheet \notin {"Flash", "WithoutBackup"} /\ Becomes(a)
  BY DEF CancelConfirm
<1>2. /\ SameBut(app, a, {"prepared", "pending", "riskAck"})
      /\ a.prepared = None /\ a.pending = None /\ a.riskAck = FALSE
  BY DEF SameBut, Shape, Fields
<1> HIDE DEF a
<1>3. CASE app.pending.sheet \in {"Flash", "WithoutBackup"} /\ Reply(b, "no")
  <2>1. /\ SameBut(app, b, {"prepared", "pending", "riskAck", "cancelled"})
        /\ b.prepared = None /\ b.pending = None /\ b.riskAck = FALSE
    BY <1>2 DEF SameBut, Shape, Fields
  <2> HIDE DEF b
  <2>2. QED BY <1>1, <1>3, <2>1, ReplyStep DEF SameBut
<1>4. CASE app.pending.sheet \notin {"Flash", "WithoutBackup"} /\ Becomes(a)
  <2>1. app.pending.sheet \in {"FamilyOverride", "Recovery"}
    BY <1>1, <1>4, SheetFacts DEF Sheets
  <2>2. ~Running(app) /\ app.job = NoJob /\ chan = <<>> /\ ~app.cancelled
    BY <1>1, <2>1, SheetFacts
  <2>3. /\ a.job = app.job /\ a.jobs = app.jobs /\ a.bypass = app.bypass
        /\ a.overrideFor = app.overrideFor
        /\ a.planning = app.planning /\ a.recoveryPlanning = app.recoveryPlanning
        /\ a.flashing = app.flashing /\ a.cancelled = app.cancelled
    BY <1>2 DEF SameBut, Fields
  <2>4. app' = a /\ UNCHANGED <<thread, chan>> BY <1>4, <2>3 DEF Becomes
  <2>5. ~Running(app)' BY <2>2, <2>3, <2>4 DEF Running
  <2>6. JobOK' BY <2>3, <2>4 DEF Session, JobOK, For
  <2>7. ThreadOK' BY <2>2, <2>4, <2>5 DEF Session, ThreadOK
  <2>8. ChanOK' BY <2>5 DEF ChanOK, AskingOK, EndedOK
  <2>9. PreparedOK' /\ PendingOK' BY <1>2, <2>4 DEF PreparedOK, PendingOK
  <2>10. CancelledOK' /\ ConsentOK'
    BY <1>2, <2>2, <2>3, <2>4, <2>5 DEF CancelledOK, ConsentOK
  <2>11. Selection' /\ Inspection(app')
    <3>1. SameBut(app, app', SessionFields) BY <1>2, <2>4 DEF SameBut, SessionFields
    <3>2. QED BY <1>2, <2>3, <2>4, <3>1, SteadyKeepsSelection
  <2>12. QED
    BY <1>2, <2>4, <2>6, <2>7, <2>8, <2>9, <2>10, <2>11 DEF Session, SameBut
<1>5. QED BY <1>1, <1>3, <1>4

-----------------------------------------------------------------------------
(* The job's thread                                                        *)

\* The thread acts on what it and the drive do; the App hears of it later.
LEMMA WorkerFrame ==
  ASSUME SessionInv, UNCHANGED app, Running(app), thread.stage # "ended",
         ThreadOK', ChanOK', CancelledOK', ConsentOK'
  PROVE  SessionInv'
<1> USE DEF SessionInv
<1>1. JobOK' BY DEF Session, JobOK, For
<1>2. PreparedOK'
  <2>1. app.prepared = None BY DEF Session, PreparedOK
  <2>2. QED BY <2>1 DEF PreparedOK
<1>3. PendingOK' BY DEF Session, PendingOK, Running
<1>4. ChoiceOK' BY DEF Selection, ChoiceOK
<1>5. OverrideOK' BY DEF Selection, OverrideOK, OverrideIsForSelection
<1>6. QED BY <1>1, <1>2, <1>3, <1>4, <1>5 DEF Session, Selection

\* A thread that is neither asking nor over has sent nothing that was not taken.
LEMMA WorkingFacts ==
  ASSUME SessionInv, Running(app), thread.stage \in {"run", "waived", "write", "lost"}
  PROVE  /\ chan = <<>> /\ app.pending = None /\ ~app.cancelled
         /\ thread.stage \in {"run", "waived"} => ~thread.touched
         /\ thread.stage \in {"write", "lost"} => MayWrite(app.job)
         /\ ~MayWrite(app.job) => ~thread.touched
         /\ thread.stage = "waived" => app.job.kind = "Flash"
BY DEF SessionInv, Session, ThreadOK, ChanOK, CancelledOK, Questions

\* The last messages of a job.
Endings == {Done(TRUE, "none"), Done(FALSE, "no_write"), Done(FALSE, "uncertain"),
            <<[type |-> "PreparedRecovery"]>> \o Done(TRUE, "none"),
            <<[type |-> "FamilyMismatch"]>> \o Done(FALSE, "no_write")}

LEMMA EndingsAreAll ==
  \A m \in Endings : <<>> \o m = m
<1> DEFINE S == {[type |-> "PreparedRecovery"], [type |-> "FamilyMismatch"]} \cup
                [type : {"Done"}, ok : BOOLEAN, issue : {"none", "no_write", "uncertain"}]
<1>1. /\ <<[type |-> "PreparedRecovery"]>> \in Seq(S) /\ <<[type |-> "FamilyMismatch"]>> \in Seq(S)
  OBVIOUS
<1>2. /\ Done(TRUE, "none") \in Seq(S) /\ Done(FALSE, "no_write") \in Seq(S)
      /\ Done(FALSE, "uncertain") \in Seq(S)
  BY DEF Done
<1> HIDE DEF S
<1>3. Endings \subseteq Seq(S) BY <1>1, <1>2, ConcatProperties DEF Endings
<1>4. QED BY <1>3, ConcatEmptySeq

\* What a thread may say when it ends.
Says(m) ==
  LET prepares == app.job.kind = "PrepareRecovery" IN
  \/ m = Done(TRUE, "none") /\ ~prepares
  \/ prepares /\ m = <<[type |-> "PreparedRecovery"]>> \o Done(TRUE, "none")
  \/ prepares /\ m = <<[type |-> "FamilyMismatch"]>> \o Done(FALSE, "no_write")
  \/ m = Done(FALSE, "no_write") /\ ~thread.touched
  \/ m = Done(FALSE, "uncertain") /\ MayWrite(app.job)

LEMMA EndsStep ==
  ASSUME SessionInv, Running(app), chan = <<>>, app.pending = None,
         thread.stage # "ended", NEW m, Says(m), Ends(m)
  PROVE  SessionInv'
<1>1. m \in Endings BY DEF Says, Endings
<1>2. /\ UNCHANGED app /\ chan' = m /\ thread' = [thread EXCEPT !.stage = "ended"]
  BY <1>1, EndingsAreAll DEF Ends
<1>3. /\ thread' \in [stage : {"run", "backup?", "waived", "flash?", "write", "lost", "ended"},
                      answer : {"none", "yes", "no"}, touched : BOOLEAN]
      /\ thread'.stage = "ended" /\ thread'.answer = thread.answer
      /\ thread'.touched = thread.touched
  BY <1>2 DEF SessionInv, Session, ThreadOK
<1>4. Running(app)' /\ For(app)' = For(app) BY <1>2 DEF Running, For
<1>5. ThreadOK' BY <1>2, <1>3, <1>4 DEF SessionInv, Session, ThreadOK
<1>6. ChanOK'
  <2>1. EndedOK' BY <1>2, <1>3 DEF EndedOK, Says
  <2>2. QED BY <1>2, <1>3, <2>1 DEF ChanOK, AskingOK, Questions
<1>7. CancelledOK'
  BY <1>2, <1>3, <1>4 DEF SessionInv, Session, CancelledOK
<1>8. ConsentOK'
  BY <1>2, <1>3, <1>4 DEF SessionInv, Session, ConsentOK, Given, For, Running
<1>9. QED BY <1>2, <1>5, <1>6, <1>7, <1>8, WorkerFrame

LEMMA ReadOnlyEndsStep ==
  ASSUME SessionInv, ReadOnlyEnds
  PROVE  SessionInv'
<1>1. /\ Running(app) /\ thread.stage = "run" /\ ~MayWrite(app.job)
  BY DEF ReadOnlyEnds, InStage
<1>2. chan = <<>> /\ app.pending = None /\ ~thread.touched BY <1>1, WorkingFacts
<1> DEFINE prepares == app.job.kind = "PrepareRecovery"
           told == (IF prepares THEN <<[type |-> "PreparedRecovery"]>> ELSE <<>>)
                     \o Done(TRUE, "none")
           differs == <<[type |-> "FamilyMismatch"]>> \o Done(FALSE, "no_write")
<1>3. Ends(told) \/ Ends(Done(FALSE, "no_write")) \/ (prepares /\ Ends(differs))
  BY DEF ReadOnlyEnds
<1>4. Says(told)
  <2>1. CASE prepares BY <2>1 DEF Says
  <2>2. CASE ~prepares
    <3>1. told = <<>> \o Done(TRUE, "none") BY <2>2
    <3>2. Done(TRUE, "none") \in Endings BY DEF Endings
    <3>3. told = Done(TRUE, "none") BY <3>1, <3>2, EndingsAreAll
    <3>4. QED BY <2>2, <3>3 DEF Says
  <2>3. QED BY <2>1, <2>2
<1>5. Says(Done(FALSE, "no_write")) BY <1>2 DEF Says
<1>6. prepares => Says(differs) BY DEF Says
<1> HIDE DEF told, differs, prepares
<1>7. QED BY <1>1, <1>2, <1>3, <1>4, <1>5, <1>6, EndsStep

\* A thread moves on to another stage without a word.
LEMMA EntersStep ==
  ASSUME SessionInv, Running(app), chan = <<>>, app.pending = None, ~app.cancelled,
         thread.stage \notin {"ended", "lost"},
         NEW stage \in {"waived", "write", "lost"}, Enters(stage),
         stage = "waived" => app.job.kind = "Flash",
         stage \in {"write", "lost"} => MayWrite(app.job),
         stage = "lost" <=> thread.touched,
         stage = "write" /\ app.job.kind = "Flash" => Given
  PROVE  SessionInv'
<1>1. /\ UNCHANGED <<app, chan>> /\ thread' = [thread EXCEPT !.stage = stage]
  BY DEF Enters
<1>2. /\ thread' \in [stage : {"run", "backup?", "waived", "flash?", "write", "lost", "ended"},
                      answer : {"none", "yes", "no"}, touched : BOOLEAN]
      /\ thread'.stage = stage /\ thread'.answer = thread.answer
      /\ thread'.touched = thread.touched
  BY <1>1 DEF SessionInv, Session, ThreadOK
<1>3. Running(app)' BY <1>1 DEF Running
<1>4. ThreadOK' BY <1>1, <1>2, <1>3 DEF SessionInv, Session, ThreadOK
<1>5. ChanOK' BY <1>1, <1>2 DEF ChanOK, AskingOK, EndedOK, Questions
<1>6. CancelledOK' BY <1>1 DEF CancelledOK
<1>7. ConsentOK'
  <2>1. app'.job.kind = "ExecuteRecovery" => Given'
    BY <1>1 DEF SessionInv, Session, ConsentOK, Given, For, Running
  <2>2. app'.job.kind = "Flash" /\ thread'.stage = "write" => Given'
    BY <1>1, <1>2 DEF Given, For
  <2>3. thread'.stage # "flash?" BY <1>2
  <2>4. QED BY <1>1, <2>1, <2>2, <2>3 DEF ConsentOK, SessionInv, Session
<1>8. QED BY <1>1, <1>4, <1>5, <1>6, <1>7, WorkerFrame

\* A thread asks, and waits.
LEMMA AsksStep ==
  ASSUME SessionInv, Running(app), app.job.kind = "Flash",
         thread.stage \in {"run", "waived"}, NEW stage \in Questions,
         Asks(Question(stage), stage)
  PROVE  SessionInv'
<1>1. chan = <<>> /\ app.pending = None /\ ~app.cancelled /\ ~thread.touched
  BY WorkingFacts
<1>2. UNCHANGED app /\ chan' = <<[type |-> Question(stage)]>>
      /\ thread' = [thread EXCEPT !.stage = stage, !.answer = "none"]
  BY <1>1 DEF Asks
<1>3. /\ thread' \in [stage : {"run", "backup?", "waived", "flash?", "write", "lost", "ended"},
                      answer : {"none", "yes", "no"}, touched : BOOLEAN]
      /\ thread'.stage = stage /\ thread'.answer = "none"
      /\ thread'.touched = thread.touched
  BY <1>2 DEF SessionInv, Session, ThreadOK, Questions
<1>4. Running(app)' BY <1>2 DEF Running
<1>5. ThreadOK' BY <1>1, <1>2, <1>3, <1>4 DEF SessionInv, Session, ThreadOK, Questions
<1>6. ChanOK' BY <1>1, <1>2, <1>3 DEF ChanOK, AskingOK, EndedOK, Questions
<1>7. CancelledOK' BY <1>1, <1>2 DEF CancelledOK
<1>8. ConsentOK'
  BY <1>2, <1>3 DEF ConsentOK, SessionInv, Session, Questions
<1>9. QED BY <1>2, <1>5, <1>6, <1>7, <1>8, WorkerFrame

LEMMA AnsweredStep ==
  ASSUME SessionInv, Answered
  PROVE  SessionInv'
<1>1. /\ Running(app) /\ thread.stage \in Questions /\ thread.answer # "none"
  BY DEF Answered, InStage, Questions
<1>2. /\ chan = <<>> /\ app.pending = None /\ app.job.kind = "Flash" /\ ~thread.touched
      /\ thread.answer \in {"yes", "no"}
  BY <1>1 DEF SessionInv, Session, ChanOK, AskingOK, ThreadOK, Questions
<1>3. CASE thread.answer = "no"
  <2>1. Ends(Done(FALSE, "no_write")) BY <1>3 DEF Answered
  <2>2. Says(Done(FALSE, "no_write")) BY <1>2 DEF Says
  <2>3. QED BY <1>1, <1>2, <2>1, <2>2, EndsStep DEF Questions
<1>4. CASE thread.answer = "yes"
  <2>1. ~app.cancelled BY <1>4 DEF SessionInv, Session, CancelledOK
  <2>2. CASE thread.stage = "backup?"
    <3>1. Enters("waived") BY <1>4, <2>2 DEF Answered
    <3>2. QED BY <1>1, <1>2, <2>1, <2>2, <3>1, EntersStep
  <2>3. CASE thread.stage = "flash?"
    <3>1. Enters("write") BY <1>4, <2>3 DEF Answered
    <3>2. Given BY <1>1, <1>2, <1>4, <2>3 DEF SessionInv, Session, ConsentOK
    <3>3. MayWrite(app.job) BY <1>2 DEF MayWrite
    <3>4. QED BY <1>1, <1>2, <2>1, <2>3, <3>1, <3>2, <3>3, EntersStep
  <2>4. QED BY <1>1, <2>2, <2>3 DEF Questions
<1>5. QED BY <1>2, <1>3, <1>4

LEMMA TouchDriveStep ==
  ASSUME SessionInv, TouchDrive
  PROVE  SessionInv'
<1>1. Running(app) /\ thread.stage = "write" BY DEF TouchDrive, InStage
<1>2. chan = <<>> /\ app.pending = None /\ ~app.cancelled /\ MayWrite(app.job)
  BY <1>1, WorkingFacts
<1>3. /\ UNCHANGED <<app, chan>> /\ thread' = [thread EXCEPT !.touched = TRUE]
  BY DEF TouchDrive
<1>4. /\ thread' \in [stage : {"run", "backup?", "waived", "flash?", "write", "lost", "ended"},
                      answer : {"none", "yes", "no"}, touched : BOOLEAN]
      /\ thread'.stage = "write" /\ thread'.touched = TRUE
  BY <1>1, <1>3 DEF SessionInv, Session, ThreadOK
<1>5. Running(app)' BY <1>1, <1>3 DEF Running
<1>6. ThreadOK' BY <1>2, <1>3, <1>4, <1>5 DEF ThreadOK
<1>7. ChanOK' BY <1>2, <1>3, <1>4 DEF ChanOK, AskingOK, EndedOK, Questions
<1>8. CancelledOK' BY <1>2, <1>3 DEF CancelledOK
<1>9. ConsentOK'
  BY <1>1, <1>3, <1>4 DEF SessionInv, Session, ConsentOK, Given, For, Running
<1>10. QED BY <1>1, <1>3, <1>6, <1>7, <1>8, <1>9, WorkerFrame

LEMMA WorkerStep ==
  ASSUME SessionInv, Worker
  PROVE  SessionInv'
<1>1. CASE ReadOnlyEnds BY <1>1, ReadOnlyEndsStep
<1>2. CASE AskWithoutBackup
  BY <1>2, AsksStep DEF AskWithoutBackup, InStage, Questions, Question
<1>3. CASE AskFlash
  BY <1>3, AsksStep DEF AskFlash, InStage, Questions, Question
<1>4. CASE Answered BY <1>4, AnsweredStep
<1>5. CASE RevalidateRecovery
  <2>1. /\ Running(app) /\ thread.stage = "run" /\ app.job.kind = "ExecuteRecovery"
        /\ Enters("write")
    BY <1>5 DEF RevalidateRecovery, InStage
  <2>2. QED BY <2>1, WorkingFacts, EntersStep DEF MayWrite
<1>6. CASE BlockedBeforeWrite
  <2>1. /\ Running(app) /\ thread.stage \in {"run", "waived", "write"} /\ ~thread.touched
        /\ Ends(Done(FALSE, "no_write"))
    BY <1>6 DEF BlockedBeforeWrite, InStage
  <2>2. Says(Done(FALSE, "no_write")) BY <2>1 DEF Says
  <2>3. QED BY <2>1, <2>2, WorkingFacts, EndsStep
<1>7. CASE TouchDrive BY <1>7, TouchDriveStep
<1>8. CASE UpdateEnds
  <2>1. /\ Running(app) /\ thread.stage = "write"
        /\ Ends(Done(TRUE, "none")) \/ Ends(Done(FALSE, "uncertain"))
    BY <1>8 DEF UpdateEnds, InStage
  <2>2. Says(Done(TRUE, "none")) /\ Says(Done(FALSE, "uncertain"))
    BY <2>1, WorkingFacts DEF Says, MayWrite
  <2>3. QED BY <2>1, <2>2, WorkingFacts, EndsStep
<1>9. CASE Panics
  <2> DEFINE issue == IF MayWrite(app.job) THEN "uncertain" ELSE "no_write"
  <2>1. /\ Running(app) /\ thread.stage \in {"run", "waived", "write"}
        /\ Ends(Done(FALSE, issue))
    BY <1>9 DEF Panics, InStage
  <2>2. Says(Done(FALSE, issue)) BY <2>1, WorkingFacts DEF Says
  <2>3. QED BY <2>1, <2>2, WorkingFacts, EndsStep
<1>10. CASE IsLost
  <2>1. /\ Running(app) /\ thread.stage = "write" /\ thread.touched /\ Enters("lost")
    BY <1>10 DEF IsLost, InStage
  <2>2. QED BY <2>1, WorkingFacts, EntersStep
<1>11. QED
  BY <1>1, <1>2, <1>3, <1>4, <1>5, <1>6, <1>7, <1>8, <1>9, <1>10 DEF Worker

-----------------------------------------------------------------------------
(* The messages of a job are taken                                         *)

LEMMA OneMessage ==
  ASSUME NEW x
  PROVE  <<x>> # <<>> /\ Head(<<x>>) = x /\ Tail(<<x>>) = <<>>
OBVIOUS

LEMMA TwoMessages ==
  ASSUME NEW x, NEW y
  PROVE  /\ <<x>> \o <<y>> # <<>> /\ Head(<<x>> \o <<y>>) = x
         /\ Tail(<<x>> \o <<y>>) = <<y>>
<1> DEFINE S == {x, y}
           s == <<x>>
           t == <<y>>
           u == <<x, y>>
<1>1. s \in Seq(S) /\ t \in Seq(S) /\ u \in Seq(S) OBVIOUS
<1>2. Len(s) = 1 /\ Len(t) = 1 /\ Len(u) = 2 /\ s[1] = x /\ t[1] = y OBVIOUS
<1>3. u[1] = x /\ u[2] = y OBVIOUS
<1>4. u # <<>> /\ Head(u) = x /\ Tail(u) = t OBVIOUS
<1> HIDE DEF s, t, u, S
<1>5. s \o t \in Seq(S) /\ Len(s \o t) = Len(s) + Len(t) BY <1>1, ConcatProperties
<1>6. (s \o t)[1] = x BY <1>1, <1>2, ConcatProperties
<1>7. (s \o t)[2] = y BY <1>1, <1>2, ConcatProperties
<1>8. s \o t = u
  <2>1. \A i \in 1..2 : i = 1 \/ i = 2 OBVIOUS
  <2>2. \A i \in 1..2 : (s \o t)[i] = u[i] BY <1>3, <1>6, <1>7, <2>1
  <2>3. QED BY <1>1, <1>2, <1>5, <2>2, SeqEqual
<1>9. QED BY <1>4, <1>8 DEF s, t

\* What the end of a job says.
IsEnd(d, ok, issue) == d.type = "Done" /\ (d.ok <=> ok) /\ d.issue = issue

LEMMA DoneFacts ==
  /\ IsEnd(Head(Done(TRUE, "none")), TRUE, "none") /\ Tail(Done(TRUE, "none")) = <<>>
  /\ IsEnd(Head(Done(FALSE, "no_write")), FALSE, "no_write")
  /\ Tail(Done(FALSE, "no_write")) = <<>>
  /\ IsEnd(Head(Done(FALSE, "uncertain")), FALSE, "uncertain")
  /\ Tail(Done(FALSE, "uncertain")) = <<>>
BY DEF Done, IsEnd

LEMMA NewsFacts ==
  /\ LET m == <<[type |-> "PreparedRecovery"]>> \o Done(TRUE, "none") IN
     Head(m).type = "PreparedRecovery" /\ Tail(m) = Done(TRUE, "none")
  /\ LET m == <<[type |-> "FamilyMismatch"]>> \o Done(FALSE, "no_write") IN
     Head(m).type = "FamilyMismatch" /\ Tail(m) = Done(FALSE, "no_write")
<1> DEFINE done == [type |-> "Done", ok |-> TRUE, issue |-> "none"]
           failed == [type |-> "Done", ok |-> FALSE, issue |-> "no_write"]
           p == [type |-> "PreparedRecovery"]
           f == [type |-> "FamilyMismatch"]
<1>1. Done(TRUE, "none") = <<done>> /\ Done(FALSE, "no_write") = <<failed>> BY DEF Done
<1>2. p.type = "PreparedRecovery" /\ f.type = "FamilyMismatch" OBVIOUS
<1> HIDE DEF done, failed, p, f
<1>3. Head(<<p>> \o <<done>>) = p /\ Tail(<<p>> \o <<done>>) = <<done>> BY TwoMessages
<1>4. Head(<<f>> \o <<failed>>) = f /\ Tail(<<f>> \o <<failed>>) = <<failed>> BY TwoMessages
<1>5. QED BY <1>1, <1>2, <1>3, <1>4 DEF p, f

\* Which message waits says where its thread is.
LEMMA HeadOfQuestion ==
  ASSUME SessionInv, Running(app), chan # <<>>, thread.stage \in Questions
  PROVE  /\ Head(chan).type = Question(thread.stage) /\ Tail(chan) = <<>>
         /\ thread.answer = "none" /\ app.pending = None /\ app.job.kind = "Flash"
<1> DEFINE q == [type |-> Question(thread.stage)]
<1>1. /\ chan = <<q>> /\ thread.answer = "none" /\ app.pending = None
      /\ app.job.kind = "Flash"
  BY DEF SessionInv, Session, ChanOK, AskingOK, ThreadOK, Questions
<1>2. q.type = Question(thread.stage) OBVIOUS
<1> HIDE DEF q
<1>3. Head(chan) = q /\ Tail(chan) = <<>> BY <1>1, OneMessage
<1>4. QED BY <1>1, <1>2, <1>3

LEMMA HeadOfEnd ==
  ASSUME SessionInv, Running(app), thread.stage = "ended"
  PROVE  LET prepares == app.job.kind = "PrepareRecovery" IN
         \/ /\ IsEnd(Head(chan), TRUE, "none") /\ Tail(chan) = <<>>
            /\ prepares => app.prepared = For(app)
         \/ /\ prepares /\ Head(chan).type = "PreparedRecovery"
            /\ Tail(chan) = Done(TRUE, "none")
         \/ /\ prepares /\ Head(chan).type = "FamilyMismatch"
            /\ Tail(chan) = Done(FALSE, "no_write")
         \/ /\ IsEnd(Head(chan), FALSE, "no_write") /\ Tail(chan) = <<>> /\ ~thread.touched
         \/ /\ IsEnd(Head(chan), FALSE, "uncertain") /\ Tail(chan) = <<>> /\ MayWrite(app.job)
BY DoneFacts, NewsFacts DEF SessionInv, Session, ChanOK, EndedOK

LEMMA TakenFacts ==
  ASSUME SessionInv, Running(app), chan # <<>>
  PROVE  /\ thread.stage \in Questions \cup {"ended"}
         /\ Head(chan).type \in {"PreparedRecovery", "FamilyMismatch", "Done"} =>
              thread.stage = "ended" /\ app.pending = None
         /\ Head(chan).type = "PreparedRecovery" =>
              app.job.kind = "PrepareRecovery" /\ Tail(chan) = Done(TRUE, "none")
         /\ Head(chan).type = "FamilyMismatch" =>
              app.job.kind = "PrepareRecovery" /\ Tail(chan) = Done(FALSE, "no_write")
         /\ Head(chan).type = "Done" => Tail(chan) = <<>>
<1>1. thread.stage \in Questions \cup {"ended"}
  BY DEF SessionInv, Session, ChanOK, ThreadOK, Questions
<1>2. CASE thread.stage \in Questions BY <1>2, HeadOfQuestion DEF Question, Questions
<1>3. CASE thread.stage = "ended"
  <2>1. app.pending = None BY <1>3 DEF SessionInv, Session, ChanOK, Questions
  <2>2. QED BY <1>3, <2>1, HeadOfEnd DEF IsEnd
<1>4. QED BY <1>1, <1>2, <1>3

\* A message that is taken without an end changes no job.
LEMMA TakeFrame ==
  ASSUME SessionInv, Running(app), SameBut(app, app', {"prepared", "mismatch"}),
         UNCHANGED thread, thread.stage = "ended", app.pending = None, EndedOK',
         PreparedOK'
  PROVE  Shape(app') /\ Session'
<1> USE DEF SessionInv
<1>1. /\ UNCHANGED <<app.job, app.jobs, app.planning, app.recoveryPlanning, app.flashing>>
      /\ UNCHANGED <<app.pending, app.cancelled, app.riskAck, app.ticked, app.consent>>
  BY DEF SameBut, Fields
<1>2. Running(app)' BY <1>1 DEF Running
<1>3. JobOK' BY <1>1 DEF Session, JobOK, For
<1>4. ThreadOK' BY <1>1, <1>2 DEF Session, ThreadOK
<1>5. ChanOK' BY <1>1 DEF ChanOK, AskingOK, Questions
<1>6. PendingOK' BY <1>1 DEF PendingOK
<1>7. CancelledOK' BY <1>1, <1>2 DEF Session, CancelledOK
<1>8. ConsentOK' BY <1>1, <1>2 DEF Session, ConsentOK, Given, For
<1>9. QED BY <1>3, <1>4, <1>5, <1>6, <1>7, <1>8 DEF Session, SameBut

\* A recovery is prepared for what it was started with.
LEMMA PollPreparedStep ==
  ASSUME SessionInv, PollPrepared
  PROVE  SessionInv'
<1> USE DEF SessionInv
<1> DEFINE a == [app EXCEPT
             !.prepared = [drive |-> app.job.drive, options |-> app.job.options]]
<1>1. /\ Running(app) /\ chan # <<>> /\ Head(chan).type = "PreparedRecovery"
      /\ app' = a /\ chan' = Tail(chan) /\ UNCHANGED thread
  BY DEF PollPrepared, Receives, Takes
<1>2. /\ app.job.kind = "PrepareRecovery" /\ thread.stage = "ended" /\ app.pending = None
      /\ chan' = Done(TRUE, "none")
  BY <1>1, TakenFacts
<1>3. SameBut(app, a, {"prepared"}) /\ a.prepared = For(app)
  BY DEF SameBut, Shape, Fields, For
<1> HIDE DEF a
<1>4. /\ a.job = app.job /\ a.bypass = app.bypass /\ a.overrideFor = app.overrideFor
      /\ For(a) = For(app)
  BY <1>3 DEF SameBut, Fields, For
<1>5. EndedOK' /\ PreparedOK'
  <2>1. Running(app)' BY <1>1, <1>4 DEF Running
  <2>2. QED BY <1>1, <1>2, <1>3, <1>4, <2>1 DEF EndedOK, PreparedOK
<1>6. SameBut(app, app', {"prepared", "mismatch"}) BY <1>1, <1>3 DEF SameBut
<1>7. Shape(app') /\ Session' BY <1>1, <1>2, <1>5, <1>6, TakeFrame
<1>8. app'.prepared.options.bypass => app.overrideFor = WithoutOverride(app'.prepared)
  BY <1>1, <1>2, <1>3 DEF Selection, OverrideOK, OverrideIsForSelection, WithoutOverride, For
<1>9. Selection' /\ Inspection(app')
  <2>1. SameBut(app, app', SessionFields) BY <1>6 DEF SameBut, SessionFields
  <2>2. QED BY <1>1, <1>4, <1>8, <2>1, SteadyKeepsSelection
<1>10. QED BY <1>7, <1>9

LEMMA PollMismatchStep ==
  ASSUME SessionInv, PollMismatch
  PROVE  SessionInv'
<1> USE DEF SessionInv
<1> DEFINE a == [app EXCEPT !.mismatch = @ \/ app.recoveryPlanning # None]
<1>1. /\ Running(app) /\ chan # <<>> /\ Head(chan).type = "FamilyMismatch"
      /\ app' = a /\ chan' = Tail(chan) /\ UNCHANGED thread
  BY DEF PollMismatch, Receives, Takes
<1>2. /\ app.job.kind = "PrepareRecovery" /\ thread.stage = "ended" /\ app.pending = None
      /\ chan' = Done(FALSE, "no_write")
  BY <1>1, TakenFacts
<1>3. SameBut(app, a, {"mismatch"}) BY DEF SameBut, Shape, Fields
<1> HIDE DEF a
<1>4. /\ a.job = app.job /\ a.bypass = app.bypass /\ a.overrideFor = app.overrideFor
      /\ a.prepared = app.prepared /\ a.pending = app.pending
  BY <1>3 DEF SameBut, Fields
<1>5. EndedOK' /\ PreparedOK'
  <2>1. ~thread.touched BY <1>1, <1>2 DEF Session, ThreadOK, MayWrite
  <2>2. app.prepared = None
    <3>1. chan # Done(TRUE, "none") BY <1>1, DoneFacts DEF IsEnd
    <3>2. QED BY <1>1, <3>1 DEF Session, PreparedOK
  <2>3. QED BY <1>1, <1>2, <1>4, <2>1, <2>2 DEF EndedOK, PreparedOK
<1>6. SameBut(app, app', {"prepared", "mismatch"}) BY <1>1, <1>3 DEF SameBut
<1>7. Shape(app') /\ Session' BY <1>1, <1>2, <1>5, <1>6, TakeFrame
<1>8. Selection' /\ Inspection(app')
  <2>1. SameBut(app, app', SessionFields) BY <1>6 DEF SameBut, SessionFields
  <2>2. QED BY <1>1, <1>4, <2>1, SteadyKeepsSelection
<1>9. QED BY <1>7, <1>8

\* The question is shown for the flash that asks it.
LEMMA PollQuestionStep ==
  ASSUME SessionInv, PollQuestion
  PROVE  SessionInv'
<1> USE DEF SessionInv
<1>1. PICK question \in {<<"Authorized", "Flash">>, <<"BackupUnavailable", "WithoutBackup">>} :
        /\ Receives(question[1])
        /\ IF app.flashing # None
           THEN Takes(Ask(app, app.flashing, question[2])) /\ UNCHANGED thread
           ELSE Takes(app) /\ thread' = [thread EXCEPT !.answer = "no"]
  BY DEF PollQuestion
<1>2. Running(app) /\ chan # <<>> /\ Head(chan).type = question[1]
  BY <1>1 DEF Receives
<1>3. thread.stage \in Questions
  <2>1. Head(chan).type \notin {"PreparedRecovery", "FamilyMismatch", "Done"}
    BY <1>1, <1>2
  <2>2. CASE thread.stage = "ended" BY <1>2, <2>1, <2>2, HeadOfEnd DEF IsEnd
  <2>3. QED BY <1>2, <2>2, TakenFacts
<1>4. /\ question[1] = Question(thread.stage) /\ Tail(chan) = <<>>
      /\ thread.answer = "none" /\ app.pending = None /\ app.job.kind = "Flash"
  BY <1>2, <1>3, HeadOfQuestion
<1>5. question[2] = SheetOf(thread.stage) BY <1>1, <1>3, <1>4 DEF Question, SheetOf, Questions
<1>6. app.flashing = For(app) /\ For(app) \in Targets /\ app.flashing # None
  BY <1>2, <1>4, JobFacts DEF Session, JobOK
<1> DEFINE sheet == SheetOf(thread.stage)
           b == Ask(app, For(app), sheet)
<1>7. app' = b /\ chan' = <<>> /\ UNCHANGED thread
  BY <1>1, <1>4, <1>5, <1>6 DEF Takes
<1>8. sheet \in {"WithoutBackup", "Flash"} BY DEF SheetOf
<1> HIDE DEF sheet
<1>9. /\ SameBut(app, b, {"riskAck", "ticked", "pending"}) /\ b.riskAck = FALSE
      /\ b.pending = [target |-> For(app), sheet |-> sheet]
  BY DEF Ask, SameBut, Shape, Fields
<1> HIDE DEF b
<1>10. /\ b.job = app.job /\ b.jobs = app.jobs /\ b.bypass = app.bypass
       /\ b.overrideFor = app.overrideFor /\ b.prepared = app.prepared
       /\ b.planning = app.planning /\ b.recoveryPlanning = app.recoveryPlanning
       /\ b.flashing = app.flashing /\ b.cancelled = app.cancelled
       /\ b.consent = app.consent /\ For(b) = For(app)
  BY <1>9 DEF SameBut, Fields, For
<1>11. Running(app)' BY <1>2, <1>7, <1>10 DEF Running
<1>12. app.prepared = None BY <1>2, <1>3 DEF Session, PreparedOK, Questions
<1>13. b.pending \in Sheets /\ b.pending.sheet = sheet BY <1>6, <1>8, <1>9 DEF Sheets
<1>14. JobOK' BY <1>7, <1>10 DEF Session, JobOK, For
<1>15. ThreadOK' BY <1>2, <1>7, <1>10, <1>11 DEF Session, ThreadOK
<1>16. ChanOK'
  <2>1. AskingOK' BY <1>4, <1>7, <1>9, <1>10 DEF AskingOK, sheet
  <2>2. QED BY <1>3, <1>7, <2>1 DEF ChanOK, EndedOK, Questions
<1>17. PreparedOK' BY <1>7, <1>10, <1>12 DEF PreparedOK
<1>18. PendingOK' BY <1>7, <1>8, <1>11, <1>13 DEF PendingOK
<1>19. CancelledOK' BY <1>7, <1>10, <1>11 DEF Session, CancelledOK
<1>20. ConsentOK'
  BY <1>3, <1>4, <1>7, <1>9, <1>10 DEF ConsentOK, Questions
<1>21. Selection' /\ Inspection(app')
  <2>1. SameBut(app, app', SessionFields) BY <1>7, <1>9 DEF SameBut, SessionFields
  <2>2. QED BY <1>7, <1>10, <2>1, SteadyKeepsSelection
<1>22. QED
  BY <1>7, <1>9, <1>14, <1>15, <1>16, <1>17, <1>18, <1>19, <1>20, <1>21 DEF Session, SameBut

-----------------------------------------------------------------------------
(* A job is over                                                           *)

\* No job runs, and nothing or the sheet of a prepared recovery is left.
LEMMA OverStep ==
  ASSUME SessionInv, SameBut(app, app', SessionFields), UNCHANGED thread, chan' = <<>>,
         app'.jobs = app.jobs, app'.job = NoJob, app'.planning = None,
         app'.recoveryPlanning = None, app'.flashing = None, ~app'.cancelled,
         app'.bypass = app.bypass, app'.overrideFor = app.overrideFor,
         app'.riskAck \in BOOLEAN, app'.riskAck => app'.ticked = TRUE,
         \/ app'.pending = None /\ app'.prepared = None
         \/ /\ app'.prepared = app.prepared /\ app'.prepared \in Targets
            /\ app'.prepared.drive # None /\ app'.prepared.options # None
            /\ app'.pending = [target |-> app'.prepared, sheet |-> "Recovery"]
  PROVE  SessionInv'
<1> USE DEF SessionInv
<1>1. ~Running(app)' BY DEF Running
<1>2. JobOK' BY DEF Session, JobOK, NoJob
<1>3. ThreadOK' BY <1>1 DEF Session, ThreadOK
<1>4. ChanOK' BY <1>1 DEF ChanOK, AskingOK, EndedOK
<1>5. PreparedOK' BY <1>1 DEF PreparedOK
<1>6. PendingOK'
  <2>1. CASE app'.pending = None BY <2>1 DEF PendingOK
  <2>2. CASE app'.pending = [target |-> app'.prepared, sheet |-> "Recovery"] /\ app'.prepared \in Targets
    <3>1. /\ app'.pending \in Sheets /\ app'.pending.sheet = "Recovery"
          /\ app'.pending.target = app'.prepared
      BY <2>2 DEF Sheets
    <3>2. QED BY <3>1 DEF PendingOK
  <2>3. QED BY <2>1, <2>2
<1>7. CancelledOK' BY DEF CancelledOK
<1>8. ConsentOK' BY <1>1 DEF ConsentOK
<1>9. Selection' /\ Inspection(app')
  <2>1. app'.job.kind = "none" BY DEF NoJob
  <2>2. QED BY <2>1, SteadyKeepsSelection
<1>10. Shape(app') BY DEF SameBut
<1>11. QED BY <1>2, <1>3, <1>4, <1>5, <1>6, <1>7, <1>8, <1>9, <1>10 DEF Session

\* What PollDone leaves before it starts or asks what the plan was for.
LEMMA DoneFrame ==
  ASSUME SessionInv, Running(app), app.pending = None, NEW told,
         LET ended == EndFlash([app EXCEPT !.planning = None, !.recoveryPlanning = None,
                                           !.cancelled = FALSE, !.job = NoJob])
         IN \/ told = [ended EXCEPT !.result = "ok"]
            \/ told = [ended EXCEPT !.result = "cancelled", !.failure = "none"]
            \/ told = [ended EXCEPT !.result = "error", !.failure = Head(chan).issue]
  PROVE  /\ SameBut(app, told, {"planning", "recoveryPlanning", "cancelled", "job", "flashing",
                                "result", "failure"})
         /\ told.planning = None /\ told.recoveryPlanning = None /\ told.cancelled = FALSE
         /\ told.job = NoJob /\ told.flashing = None
<1> DEFINE e == [app EXCEPT !.planning = None, !.recoveryPlanning = None,
                            !.cancelled = FALSE, !.job = NoJob]
           ended == EndFlash(e)
<1>1. /\ SameBut(app, e, {"planning", "recoveryPlanning", "cancelled", "job"})
      /\ e.planning = None /\ e.recoveryPlanning = None /\ e.job = NoJob
  BY DEF SessionInv, SameBut, Shape, Fields
<1>2. e.cancelled = FALSE BY DEF SessionInv, Shape, Fields
<1>3. \/ told = [ended EXCEPT !.result = "ok"]
      \/ told = [ended EXCEPT !.result = "cancelled", !.failure = "none"]
      \/ told = [ended EXCEPT !.result = "error", !.failure = Head(chan).issue]
  OBVIOUS
<1> HIDE DEF e
<1>4. Shape(e) /\ e.pending = None BY <1>1 DEF SameBut, Fields
<1>5. /\ SameBut(e, ended, {"flashing", "pending", "riskAck"}) /\ ended.flashing = None
      /\ ended.pending = None /\ ended.riskAck = e.riskAck
  BY <1>4, EndFlashFrame
<1> HIDE DEF ended
<1>6. SameBut(ended, told, {"result", "failure"}) BY <1>3, <1>5 DEF SameBut, Shape, Fields
<1>7. SameBut(app, told, {"planning", "recoveryPlanning", "cancelled", "job", "flashing",
                          "result", "failure"})
  BY <1>1, <1>4, <1>5, <1>6 DEF SameBut, Fields
<1>8. /\ told.planning = None /\ told.recoveryPlanning = None /\ told.job = NoJob
      /\ told.flashing = None
  BY <1>1, <1>5, <1>6 DEF SameBut, Fields
<1>9. told.cancelled = FALSE BY <1>2, <1>5, <1>6 DEF SameBut, Fields
<1>10. QED BY <1>7, <1>8, <1>9

\* The plan passed: the flash starts for what was planned.
LEMMA FlashStartsStep ==
  ASSUME SessionInv, Running(app), app.planning # None, app.pending = None, NEW told,
         SameBut(app, told, {"planning", "recoveryPlanning", "cancelled", "job", "flashing",
                             "result", "failure"}),
         told.planning = None, told.recoveryPlanning = None, told.cancelled = FALSE,
         told.job = NoJob, told.flashing = None,
         app' = Polled(app, BackUpAndAuthorize(told, app.planning)), chan' = <<>>,
         thread' = IF BackUpAndAuthorize(told, app.planning).jobs # app.jobs
                   THEN Spawned ELSE thread
  PROVE  SessionInv'
<1> USE DEF SessionInv
<1>1. /\ app.job.kind = "PlanFlash" /\ app.planning = For(app) /\ For(app) \in Targets
      /\ app.job.drive # None /\ app.job.options # None /\ app.prepared = None
  BY JobFacts DEF Session, JobOK, PreparedOK
<1> DEFINE target == For(app)
           a == StartJob(told, "Flash", target.drive, target.options)
           b == [a EXCEPT !.flashing = target]
           z == Polled(app, b)
<1>2. /\ target.drive = app.job.drive /\ target.options = app.job.options
      /\ target = [drive |-> target.drive, options |-> target.options]
      /\ target.drive \in Drives \cup {None} /\ target.options \in Options \cup {None}
  BY <1>1 DEF For, Targets
<1>3. Shape(told) /\ ~Running(told) BY DEF SameBut, Running
<1>4. BackUpAndAuthorize(told, app.planning) = b BY <1>1, <1>3 DEF BackUpAndAuthorize
<1> HIDE DEF target
<1>5. /\ SameBut(told, a, {"job", "jobs", "resultTask", "action", "failure", "result",
                           "mismatch", "consent", "ticking"})
      /\ a.job = [kind |-> "Flash", drive |-> target.drive, options |-> target.options]
      /\ a.jobs = told.jobs + 1
  BY <1>1, <1>2, <1>3, StartJobStarts
<1> HIDE DEF a
<1>6. SameBut(a, b, {"flashing"}) /\ b.flashing = target
  BY <1>5 DEF SameBut, Shape, Fields
<1> HIDE DEF b
<1>7. SameBut(b, z, {"ticking"}) BY <1>6, PolledFrame DEF SameBut
<1> HIDE DEF z
<1>8. /\ SameBut(app, z, {"planning", "recoveryPlanning", "cancelled", "job", "flashing",
                          "result", "failure", "jobs", "resultTask", "action", "mismatch",
                          "consent", "ticking"})
      /\ z.planning = None /\ z.recoveryPlanning = None /\ z.flashing = target
      /\ z.job = a.job /\ z.jobs = app.jobs + 1 /\ b.jobs = app.jobs + 1
  BY <1>5, <1>6, <1>7 DEF SameBut, Fields
<1>9. z.cancelled = FALSE BY <1>5, <1>6, <1>7 DEF SameBut, Fields
<1>10. app.jobs \in Nat /\ b.jobs # app.jobs BY <1>8 DEF Session, JobOK
<1>11. app' = z /\ thread' = Spawned BY <1>4, <1>10 DEF z
<1>12. /\ z.pending = None /\ z.prepared = None /\ z.riskAck = app.riskAck
       /\ z.ticked = app.ticked /\ z.bypass = app.bypass /\ z.overrideFor = app.overrideFor
  BY <1>1, <1>8 DEF SameBut, Fields
<1>13. /\ z.job.kind = "Flash" /\ z.job \in Jobs /\ z.job # NoJob /\ For(z) = target
       /\ z.job.drive # None /\ z.job.options # None
  BY <1>1, <1>2, <1>5, <1>8 DEF Jobs, Kinds, NoJob, For
<1>14. JobOK' BY <1>8, <1>10, <1>11, <1>13 DEF JobOK, For
<1>15. Session'
  BY <1>9, <1>11, <1>12, <1>13, <1>14, StartedSession DEF Session, ConsentOK
<1>16. Selection' /\ Inspection(app')
  <2>1. SameBut(app, app', SessionFields) BY <1>8, <1>11 DEF SameBut, SessionFields
  <2>2. QED BY <1>1, <1>11, <1>12, <1>13, <2>1, SteadyKeepsSelection
<1>17. QED BY <1>8, <1>11, <1>15, <1>16 DEF SameBut

\* The preparation passed: its recovery is asked about.
LEMMA RecoveryAsksStep ==
  ASSUME SessionInv, Running(app), app.job.kind = "PrepareRecovery",
         app.prepared = For(app), app.pending = None, NEW told,
         SameBut(app, told, {"planning", "recoveryPlanning", "cancelled", "job", "flashing",
                             "result", "failure"}),
         told.planning = None, told.recoveryPlanning = None, told.cancelled = FALSE,
         told.job = NoJob, told.flashing = None,
         app' = Polled(app, Ask(told, app.recoveryPlanning, "Recovery")), chan' = <<>>,
         UNCHANGED thread
  PROVE  SessionInv'
<1> USE DEF SessionInv
<1>1. /\ app.recoveryPlanning = app.prepared /\ app.prepared \in Targets
      /\ app.prepared.drive # None /\ app.prepared.options # None
  BY JobFacts DEF Session, JobOK, For
<1> DEFINE target == app.prepared
           b == Ask(told, target, "Recovery")
           z == Polled(app, b)
<1> HIDE DEF target
<1>2. /\ SameBut(told, b, {"riskAck", "ticked", "pending"}) /\ b.riskAck = FALSE
      /\ b.pending = [target |-> target, sheet |-> "Recovery"]
  <2>1. Shape(told) BY DEF SameBut
  <2>2. QED BY <2>1 DEF Ask, SameBut, Shape, Fields
<1>3. app' = z BY <1>1 DEF target
<1> HIDE DEF b
<1>4. SameBut(b, z, {"ticking"}) BY <1>2, PolledFrame DEF SameBut
<1> HIDE DEF z
<1>5. /\ SameBut(app, z, {"planning", "recoveryPlanning", "cancelled", "job", "flashing",
                          "result", "failure", "riskAck", "ticked", "pending", "ticking"})
      /\ z.planning = None /\ z.recoveryPlanning = None /\ z.job = NoJob
      /\ z.flashing = None /\ z.riskAck = FALSE /\ z.prepared = target
      /\ z.pending = [target |-> target, sheet |-> "Recovery"]
      /\ z.jobs = app.jobs /\ z.bypass = app.bypass /\ z.overrideFor = app.overrideFor
  BY <1>2, <1>4 DEF SameBut, Fields, target
<1>6. z.cancelled = FALSE BY <1>2, <1>4 DEF SameBut, Fields
<1>7. SameBut(app, app', SessionFields) BY <1>3, <1>5 DEF SameBut, SessionFields
<1>8. QED BY <1>1, <1>3, <1>5, <1>6, <1>7, OverStep DEF target

\* Nothing follows a job that failed, or that planned nothing.
LEMMA JustEndsStep ==
  ASSUME SessionInv, Running(app), app.prepared = None, app.pending = None, NEW told,
         SameBut(app, told, {"planning", "recoveryPlanning", "cancelled", "job", "flashing",
                             "result", "failure"}),
         told.planning = None, told.recoveryPlanning = None, told.cancelled = FALSE,
         told.job = NoJob, told.flashing = None,
         app' = Polled(app, told), chan' = <<>>, UNCHANGED thread
  PROVE  SessionInv'
<1> USE DEF SessionInv
<1> DEFINE z == Polled(app, told)
<1>1. SameBut(told, z, {"ticking"}) BY PolledFrame DEF SameBut
<1>2. app' = z OBVIOUS
<1> HIDE DEF z
<1>3. /\ SameBut(app, z, {"planning", "recoveryPlanning", "cancelled", "job", "flashing",
                          "result", "failure", "ticking"})
      /\ z.planning = None /\ z.recoveryPlanning = None /\ z.job = NoJob
      /\ z.flashing = None /\ z.riskAck = app.riskAck /\ z.ticked = app.ticked
      /\ z.prepared = None /\ z.pending = None
      /\ z.jobs = app.jobs /\ z.bypass = app.bypass /\ z.overrideFor = app.overrideFor
  BY <1>1 DEF SameBut, Fields
<1>4. z.cancelled = FALSE BY <1>1 DEF SameBut, Fields
<1>5. SameBut(app, app', SessionFields) BY <1>2, <1>3 DEF SameBut, SessionFields
<1>6. QED BY <1>2, <1>3, <1>4, <1>5, OverStep DEF Session, ConsentOK

LEMMA PollDoneStep ==
  ASSUME SessionInv, PollDone
  PROVE  SessionInv'
<1> DEFINE ended == EndFlash([app EXCEPT !.planning = None, !.recoveryPlanning = None,
                                         !.cancelled = FALSE, !.job = NoJob])
           told == IF Head(chan).ok THEN [ended EXCEPT !.result = "ok"]
                   ELSE IF app.cancelled
                        THEN [ended EXCEPT !.result = "cancelled", !.failure = "none"]
                        ELSE [ended EXCEPT !.result = "error", !.failure = Head(chan).issue]
           next == IF Head(chan).ok /\ app.planning # None
                   THEN BackUpAndAuthorize(told, app.planning)
                   ELSE IF Head(chan).ok /\ app.recoveryPlanning # None
                        THEN Ask(told, app.recoveryPlanning, "Recovery")
                        ELSE told
<1>1. /\ Running(app) /\ chan # <<>> /\ Head(chan).type = "Done"
      /\ app' = Polled(app, next) /\ chan' = Tail(chan)
      /\ thread' = IF next.jobs # app.jobs THEN Spawned ELSE thread
  BY DEF PollDone, Receives, Takes
<1>2. thread.stage = "ended" /\ app.pending = None /\ chan' = <<>>
  BY <1>1, TakenFacts
<1>3. \/ told = [ended EXCEPT !.result = "ok"]
      \/ told = [ended EXCEPT !.result = "cancelled", !.failure = "none"]
      \/ told = [ended EXCEPT !.result = "error", !.failure = Head(chan).issue]
  OBVIOUS
<1> HIDE DEF told
<1>4. /\ SameBut(app, told, {"planning", "recoveryPlanning", "cancelled", "job", "flashing",
                             "result", "failure"})
      /\ told.planning = None /\ told.recoveryPlanning = None /\ told.cancelled = FALSE
      /\ told.job = NoJob /\ told.flashing = None
  BY <1>1, <1>2, <1>3, DoneFrame
<1>5. told.jobs = app.jobs BY <1>4 DEF SameBut, Fields
<1>6. CASE Head(chan).ok /\ app.planning # None
  <2>1. next = BackUpAndAuthorize(told, app.planning) BY <1>6
  <2> HIDE DEF next
  <2>2. QED BY <1>1, <1>2, <1>4, <1>6, <2>1, FlashStartsStep
<1>7. CASE Head(chan).ok /\ app.planning = None /\ app.recoveryPlanning # None
  <2>1. next = Ask(told, app.recoveryPlanning, "Recovery") BY <1>7
  <2>2. next.jobs = app.jobs
    <3>1. Shape(told) BY <1>4 DEF SameBut
    <3>2. QED BY <1>5, <2>1, <3>1 DEF Ask, Shape, Fields
  <2> HIDE DEF next
  <2>3. app.job.kind = "PrepareRecovery" BY <1>7 DEF SessionInv, Session, JobOK
  <2>4. app.prepared = For(app)
    BY <1>1, <1>2, <1>7, <2>3, HeadOfEnd DEF IsEnd
  <2>5. QED BY <1>1, <1>2, <1>4, <2>1, <2>2, <2>3, <2>4, RecoveryAsksStep
<1>8. CASE ~Head(chan).ok \/ (app.planning = None /\ app.recoveryPlanning = None)
  <2>1. next = told BY <1>8
  <2> HIDE DEF next
  <2>2. app.prepared = None
    <3>1. ASSUME app.prepared # None PROVE FALSE
      <4>1. chan = Done(TRUE, "none") /\ app.job.kind = "PrepareRecovery"
        BY <1>1, <3>1 DEF SessionInv, Session, PreparedOK
      <4>2. Head(chan).ok BY <4>1, DoneFacts DEF IsEnd
      <4>3. app.recoveryPlanning # None
        BY <1>1, <4>1, JobFacts DEF SessionInv, Session, JobOK
      <4>4. QED BY <1>8, <4>2, <4>3
    <3>2. QED BY <3>1
  <2>3. QED BY <1>1, <1>2, <1>4, <1>5, <2>1, <2>2, JustEndsStep
<1>9. QED BY <1>6, <1>7, <1>8

LEMMA PollLostStep ==
  ASSUME SessionInv, PollLost
  PROVE  SessionInv'
<1> DEFINE e == [app EXCEPT
                  !.planning = None, !.recoveryPlanning = None, !.prepared = None,
                  !.job = NoJob, !.result = "error",
                  !.failure = IF MayWrite(app.job) THEN "uncertain" ELSE "no_write"]
           ended == EndFlash(e)
           z == Polled(app, ended)
<1>1. Running(app) /\ thread.stage = "lost" /\ chan = <<>> /\ Becomes(z)
  BY DEF PollLost, InStage
<1>2. app.pending = None /\ ~app.cancelled BY <1>1, WorkingFacts
<1>3. /\ SameBut(app, e, {"planning", "recoveryPlanning", "prepared", "job", "result",
                          "failure"})
      /\ e.planning = None /\ e.recoveryPlanning = None /\ e.prepared = None
      /\ e.job = NoJob
  BY DEF SessionInv, SameBut, Shape, Fields
<1> HIDE DEF e
<1>4. Shape(e) /\ e.pending = None BY <1>2, <1>3 DEF SameBut, Fields
<1>5. /\ SameBut(e, ended, {"flashing", "pending", "riskAck"}) /\ ended.flashing = None
      /\ ended.pending = None /\ ended.riskAck = e.riskAck
  BY <1>4, EndFlashFrame
<1> HIDE DEF ended
<1>6. SameBut(ended, z, {"ticking"}) BY <1>5, PolledFrame DEF SameBut
<1> HIDE DEF z
<1>7. /\ SameBut(app, z, {"planning", "recoveryPlanning", "prepared", "job", "result",
                          "failure", "flashing", "pending", "riskAck", "ticking"})
      /\ z.planning = None /\ z.recoveryPlanning = None /\ z.job = NoJob
      /\ z.flashing = None /\ z.riskAck = app.riskAck /\ z.ticked = app.ticked
      /\ z.prepared = None /\ z.pending = None /\ z.cancelled = app.cancelled
      /\ z.jobs = app.jobs /\ z.bypass = app.bypass /\ z.overrideFor = app.overrideFor
  BY <1>3, <1>4, <1>5, <1>6 DEF SameBut, Fields
<1>8. app' = z /\ UNCHANGED <<thread, chan>> BY <1>1, <1>7 DEF Becomes
<1>9. SameBut(app, app', SessionFields) BY <1>7, <1>8 DEF SameBut, SessionFields
<1>10. QED BY <1>1, <1>2, <1>7, <1>8, <1>9, OverStep DEF SessionInv, Session, ConsentOK

-----------------------------------------------------------------------------
(* The theorems                                                            *)

LEMMA InitHolds ==
  ASSUME Init
  PROVE  SessionInv
<1>0. PICK drives \in SUBSET Drives :
        \E device \in FirstOf(drives) : app = StartProfile(Fresh(drives, device), "user")
  BY DEF Init
<1>1. PICK device \in FirstOf(drives) : app = StartProfile(Fresh(drives, device), "user")
  BY <1>0
<1> DEFINE a == Fresh(drives, device)
<1>2. device \in Drives \cup {None} /\ app = StartProfile(a, "user") BY <1>1 DEF FirstOf
<1>3. /\ Shape(a) /\ a.drives = drives /\ a.device = device /\ a.file = NoFile
      /\ a.member = NoFile /\ a.members = [p \in Picks |-> {}]
      /\ a.read = [t \in {"Flash", "Recovery"} |-> TRUE]
      /\ a.origin = [p \in Picks |-> 0] /\ a.version = [p \in Picks |-> 0]
      /\ a.choices = 0 /\ a.inspecting = None /\ a.queue = <<>>
  BY DEF Fresh, Shape, Fields
<1>4. /\ a.pending = None /\ a.planning = None /\ a.recoveryPlanning = None
      /\ a.flashing = None /\ a.prepared = None /\ a.job = NoJob /\ a.jobs = 0
  BY DEF Fresh
<1>5. a.bypass = FALSE /\ a.riskAck = FALSE /\ a.cancelled = FALSE BY DEF Fresh
<1> HIDE DEF a
<1>6. /\ SameBut(a, app, {"profile", "probe", "ticking"}) /\ app.profile = None
      /\ app.probe = IF device = None THEN "none" ELSE "user"
  BY <1>2, <1>3, StartProfileFrame
<1>7. /\ app.drives = drives /\ app.device = device /\ app.file = NoFile
      /\ app.member = NoFile /\ app.members = [p \in Picks |-> {}]
      /\ app.read = [t \in {"Flash", "Recovery"} |-> TRUE]
      /\ app.origin = [p \in Picks |-> 0] /\ app.version = [p \in Picks |-> 0]
      /\ app.choices = 0 /\ app.inspecting = None /\ app.queue = <<>>
  BY <1>3, <1>6 DEF SameBut, Fields
<1>8. /\ app.pending = None /\ app.planning = None /\ app.recoveryPlanning = None
      /\ app.flashing = None /\ app.prepared = None /\ app.job = NoJob /\ app.jobs = 0
  BY <1>4, <1>6 DEF SameBut, Fields
<1>9. app.bypass = FALSE /\ app.riskAck = FALSE /\ app.cancelled = FALSE
  BY <1>5, <1>6 DEF SameBut, Fields
<1>10. thread = Spawned /\ chan = <<>> /\ ~Running(app) BY <1>8 DEF Init, Running
<1>11. Session
  <2>1. JobOK BY <1>8 DEF JobOK, NoJob
  <2>2. ThreadOK BY <1>10 DEF ThreadOK, Spawned
  <2>3. ChanOK BY <1>10 DEF ChanOK, AskingOK, EndedOK
  <2>4. PreparedOK /\ PendingOK BY <1>8 DEF PreparedOK, PendingOK
  <2>5. CancelledOK BY <1>9 DEF CancelledOK
  <2>6. ConsentOK BY <1>9, <1>10 DEF ConsentOK
  <2>7. QED BY <2>1, <2>2, <2>3, <2>4, <2>5, <2>6 DEF Session
<1>12. Selection
  <2>1. ChoiceOK
    <3>1. app.file \in [Picks -> Files \cup {None}] /\ app.member \in [Picks -> Members \cup {None}]
      BY <1>7 DEF NoFile
    <3>2. app.read \in [{"Flash", "Recovery"} -> BOOLEAN] BY <1>7
    <3>3. app.probe \in {"none", "user"} /\ (app.probe # "none" => app.device # None)
      BY <1>6, <1>7
    <3>4. QED BY <1>2, <1>6, <1>7, <1>9, <3>1, <3>2, <3>3 DEF ChoiceOK
  <2>2. app.job.kind = "none" BY <1>8 DEF NoJob
  <2>3. OverrideOK BY <1>8, <1>9, <2>2 DEF OverrideOK, OverrideIsForSelection
  <2>4. QED BY <2>1, <2>3 DEF Selection
<1>13. QueueOK(app) BY <1>7 DEF QueueOK
<1>14. ShownOK(app)
  <2>1. app.file \in [Picks -> Files \cup {None}] /\ app.member \in [Picks -> Members \cup {None}]
    BY <1>7 DEF NoFile
  <2>2. app.members \in [Picks -> SUBSET Members] /\ app.members["FlashFirmware"] = {}
    BY <1>7 DEF Picks
  <2>3. \A pick \in Picks : IsCurrent(app, pick) BY <1>7 DEF IsCurrent, NoFile
  <2>4. app.inspecting = None /\ DOMAIN app.queue = {} BY <1>7
  <2>5. QED BY <2>1, <2>2, <2>3, <2>4 DEF ShownOK
<1>15. QED BY <1>6, <1>11, <1>12, <1>13, <1>14 DEF SessionInv, Inspection, SameBut

\* The quiet steps keep all of it.
LEMMA QuietStep ==
  ASSUME SessionInv, Quiet, Selection', Inspection(app')
  PROVE  SessionInv'
BY QuietKeepsSession DEF SessionInv, Quiet, SameBut

LEMMA UserInputStep ==
  ASSUME SessionInv, UserInput
  PROVE  SessionInv'
<1> USE DEF SessionInv
<1>0. Chosen \subseteq Picks BY ProfileAssumption
<1>1. CASE \E d \in Drives : SelectDrive(d) BY <1>1, SelectDriveStep, QuietStep
<1>2. CASE Refresh BY <1>2, RefreshStep, QuietStep
<1>3. CASE \E t \in {"Flash", "Recovery", "Other"} : SelectTask(t)
  BY <1>3, SelectTaskStep, QuietStep
<1>4. CASE Choose BY <1>4, ChooseStep, QuietStep
<1>5. ASSUME NEW pick \in Chosen, NEW f \in Files, ChooseFile(pick, f) PROVE SessionInv'
  BY <1>0, <1>5, ChooseFileStep, QuietStep
<1>6. ASSUME NEW pick \in Chosen, NEW m \in app.members[pick], PickMember(pick, m)
      PROVE  SessionInv'
  BY <1>0, <1>6, PickMemberStep, QuietStep
<1>7. ASSUME NEW on \in BOOLEAN, FlashReadFromDrive(on) PROVE SessionInv'
  BY <1>7, FlashReadFromDriveStep, QuietStep
<1>8. ASSUME NEW on \in BOOLEAN, RecoveryReadFromDrive(on) PROVE SessionInv'
  BY <1>8, RecoveryReadFromDriveStep, QuietStep
<1>9. ASSUME NEW on \in BOOLEAN, BypassFamily(on) PROVE SessionInv'
  BY <1>9, BypassFamilyStep
<1>10. ASSUME NEW on \in BOOLEAN, TickRisk(on) PROVE SessionInv'
  BY <1>10, TickRiskStep
<1>11. CASE ReadOnlyJob BY <1>11, ReadOnlyJobStep
<1>12. CASE FlashNow BY <1>12, FlashNowStep
<1>13. CASE Recover BY <1>13, RecoverStep
<1>14. CASE SubmitReport \/ DismissReport \/ SendReport BY <1>14, ReportStep, QuietStep
<1>15. QED
  BY <1>1, <1>2, <1>3, <1>4, <1>5, <1>6, <1>7, <1>8, <1>9, <1>10, <1>11, <1>12, <1>13, <1>14
     DEF UserInput

LEMMA AnswerStep ==
  ASSUME SessionInv, Answer
  PROVE  SessionInv'
BY ConfirmOverrideStep, ConfirmWithoutBackupStep, ConfirmFlashStep, ConfirmRecoveryStep,
   CancelConfirmStep DEF Answer, Confirm

LEMMA PollStep ==
  ASSUME SessionInv, Poll
  PROVE  SessionInv'
<1> USE DEF SessionInv
<1>1. CASE PollOrigin BY <1>1, PollOriginStep, QuietStep
<1>2. CASE PollProfile BY <1>2, PollProfileStep, QuietStep
<1>3. CASE PollReport BY <1>3, PollReportStep, QuietStep
<1>4. CASE PollPrepared BY <1>4, PollPreparedStep
<1>5. CASE PollMismatch BY <1>5, PollMismatchStep
<1>6. CASE PollQuestion BY <1>6, PollQuestionStep
<1>7. CASE PollDone BY <1>7, PollDoneStep
<1>8. CASE PollLost BY <1>8, PollLostStep
<1>9. QED BY <1>1, <1>2, <1>3, <1>4, <1>5, <1>6, <1>7, <1>8 DEF Poll

\* The three parts of the invariant, together, are kept by every input, every
\* step of a job's thread and every poll.
THEOREM SessionInvariant == Spec => []SessionInv
<1>1. Init => SessionInv BY InitHolds
<1>2. SessionInv /\ [Next]_vars => SessionInv'
  BY UserInputStep, AnswerStep, WorkerStep, PollStep, StutterKeeps DEF Next
<1>3. QED BY <1>1, <1>2, PTL DEF Spec

\* No update gets as far as writing without a ticked consent for its drive,
\* its files and its override.
THEOREM ConsentHolds == Spec => []ConsentIsForTheJob
<1>1. SessionInv => ConsentIsForTheJob
  BY DEF SessionInv, Session, ConsentOK, ConsentIsForTheJob, Given, For, MayWrite, InStage
<1>2. QED BY <1>1, SessionInvariant, PTL

\* An open sheet has a job that waits for its answer, or the recovery that is
\* prepared for what it shows.
THEOREM SheetsAreLive == Spec => []SheetIsLive
<1>1. SessionInv => SheetIsLive
  <2>1. SUFFICES ASSUME SessionInv, app.pending # None PROVE SheetIsLive
    BY DEF SheetIsLive
  <2>2. app.pending.sheet \in {"FamilyOverride", "WithoutBackup", "Flash", "Recovery"}
    BY <2>1, SheetFacts DEF SessionInv, Sheets
  <2>3. QED
    BY <2>1, <2>2, SheetFacts DEF SessionInv, SheetIsLive, InStage, Questions, For
<1>2. QED BY <1>1, SessionInvariant, PTL

\* The family check is overridden only for the selection the code was typed
\* for, and so is a job that overrides it.
THEOREM OverrideHolds == Spec => []OverrideIsForSelection
<1>1. SessionInv => OverrideIsForSelection BY DEF SessionInv, Selection, OverrideOK
<1>2. QED BY <1>1, SessionInvariant, PTL

\* What is shown of a file is what an inspection of the latest choice found.
THEOREM InspectionsAreCurrent == Spec => []InspectionIsCurrent
<1>1. SessionInv => InspectionIsCurrent
  BY DEF SessionInv, Inspection, ShownOK, IsCurrent, InspectionIsCurrent
<1>2. QED BY <1>1, SessionInvariant, PTL

\* What a step may never do when a job ends: OutcomeIsTrue, of one step.
Outcome ==
  Running(app) /\ app'.job # app.job /\ app'.result # "none" =>
    /\ app'.result = "cancelled" => thread.answer = "no" /\ ~thread.touched
    /\ thread.touched /\ app'.result = "error" => app'.failure = "uncertain"
    /\ ~MayWrite(app.job) /\ app'.result = "error" => app'.failure = "no_write"

\* While a job runs, an input changes no job.
LEMMA InputsKeepJob ==
  ASSUME SessionInv, UserInput \/ Answer, Running(app)
  PROVE  app'.job = app.job
<1> USE DEF SessionInv
<1>1. ~Idle BY DEF Idle, Busy
<1>2. CASE UserInput
  <2>1. \/ DismissReport \/ SendReport
        \/ \E on \in BOOLEAN : TickRisk(on)
    BY <1>1, <1>2
       DEF UserInput, SelectDrive, Refresh, SelectTask, Choose, ChooseFile, PickMember,
           FlashReadFromDrive, RecoveryReadFromDrive, BypassFamily, ReadOnlyJob, FlashNow,
           Recover, SubmitReport
  <2>2. CASE DismissReport BY <2>2 DEF DismissReport, Becomes, Shape, Fields
  <2>3. CASE SendReport BY <2>3 DEF SendReport, Becomes, Shape, Fields
  <2>4. ASSUME NEW on \in BOOLEAN, TickRisk(on) PROVE app'.job = app.job
    BY <2>4 DEF TickRisk, Becomes, Shape, Fields
  <2>5. QED BY <2>1, <2>2, <2>3, <2>4
<1>3. CASE Confirm
  <2>1. ASSUME NEW codeMatches \in BOOLEAN, ConfirmOverride(codeMatches)
        PROVE  app'.job = app.job
    BY <2>1, SheetFacts DEF ConfirmOverride
  <2>2. CASE ConfirmWithoutBackup
    BY <2>2 DEF ConfirmWithoutBackup, Reply, Shape, Fields
  <2>3. CASE ConfirmFlash BY <2>3 DEF ConfirmFlash, Reply, Consented, Shape, Fields
  <2>4. CASE ConfirmRecovery BY <2>4 DEF ConfirmRecovery
  <2>5. QED BY <1>3, <2>1, <2>2, <2>3, <2>4 DEF Confirm
<1>4. CASE CancelConfirm
  BY <1>4, ZenonT(40) DEF CancelConfirm, Reply, Becomes, Shape, Fields
<1>5. QED BY <1>2, <1>3, <1>4 DEF Answer

LEMMA DoneOutcome ==
  ASSUME SessionInv, PollDone
  PROVE  Outcome
<1> DEFINE e == [app EXCEPT !.planning = None, !.recoveryPlanning = None,
                            !.cancelled = FALSE, !.job = NoJob]
           ended == EndFlash(e)
           told == IF Head(chan).ok THEN [ended EXCEPT !.result = "ok"]
                   ELSE IF app.cancelled
                        THEN [ended EXCEPT !.result = "cancelled", !.failure = "none"]
                        ELSE [ended EXCEPT !.result = "error", !.failure = Head(chan).issue]
           next == IF Head(chan).ok /\ app.planning # None
                   THEN BackUpAndAuthorize(told, app.planning)
                   ELSE IF Head(chan).ok /\ app.recoveryPlanning # None
                        THEN Ask(told, app.recoveryPlanning, "Recovery")
                        ELSE told
<1>1. /\ Running(app) /\ chan # <<>> /\ Head(chan).type = "Done"
      /\ app' = Polled(app, next)
  BY DEF PollDone, Receives, Takes
<1>2. thread.stage = "ended" BY <1>1, TakenFacts
<1>3. SameBut(app, e, {"planning", "recoveryPlanning", "cancelled", "job"}) /\ e.job = NoJob
  BY DEF SessionInv, SameBut, Shape, Fields
<1> HIDE DEF e
<1>4. Shape(ended) /\ ended.job = NoJob
  BY <1>3, EndFlashFrame, ZenonT(40) DEF SameBut, Fields
<1> HIDE DEF ended
<1>5. /\ Shape(told) /\ told.job = NoJob
      /\ Head(chan).ok => told.result = "ok"
      /\ ~Head(chan).ok /\ app.cancelled => told.result = "cancelled"
      /\ ~Head(chan).ok /\ ~app.cancelled =>
           told.result = "error" /\ told.failure = Head(chan).issue
  BY <1>4 DEF Shape, Fields
<1> HIDE DEF told
<1>6. Shape(next) /\ next.result \in {"none", told.result} /\ next.failure \in {"none", told.failure}
  <2>1. ASSUME app.planning # None
        PROVE  LET b == BackUpAndAuthorize(told, app.planning) IN
               Shape(b) /\ b.result \in {"none", told.result} /\ b.failure \in {"none", told.failure}
    BY <1>5 DEF BackUpAndAuthorize, StartJob, Shape, Fields
  <2>2. LET b == Ask(told, app.recoveryPlanning, "Recovery") IN
        Shape(b) /\ b.result = told.result /\ b.failure = told.failure
    BY <1>5 DEF Ask, Shape, Fields
  <2>3. QED BY <1>5, <2>1, <2>2
<1>7. next = told \/ Head(chan).ok OBVIOUS
<1> HIDE DEF next
<1>8. app'.result = next.result /\ app'.failure = next.failure
  BY <1>1, <1>6, PolledFrame DEF SameBut, Fields
<1>9. CASE Head(chan).ok
  BY <1>5, <1>6, <1>8, <1>9 DEF Outcome
<1>10. CASE ~Head(chan).ok /\ app.cancelled
  BY <1>5, <1>7, <1>8, <1>10 DEF Outcome, SessionInv, Session, CancelledOK
<1>11. CASE ~Head(chan).ok /\ ~app.cancelled
  <2>1. app'.result = "error" /\ app'.failure = Head(chan).issue
    BY <1>5, <1>7, <1>8, <1>11
  <2>2. \/ Head(chan).issue = "no_write" /\ ~thread.touched
        \/ Head(chan).issue = "uncertain" /\ MayWrite(app.job)
    BY <1>1, <1>2, <1>11, HeadOfEnd DEF IsEnd
  <2>3. QED BY <2>1, <2>2 DEF Outcome
<1>12. QED BY <1>9, <1>10, <1>11

LEMMA LostOutcome ==
  ASSUME SessionInv, PollLost
  PROVE  Outcome
<1> DEFINE e == [app EXCEPT
                  !.planning = None, !.recoveryPlanning = None, !.prepared = None,
                  !.job = NoJob, !.result = "error",
                  !.failure = IF MayWrite(app.job) THEN "uncertain" ELSE "no_write"]
           ended == EndFlash(e)
<1>1. Running(app) /\ thread.stage = "lost" /\ app' = Polled(app, ended)
  BY DEF PollLost, InStage, Becomes
<1>2. MayWrite(app.job) BY <1>1, WorkingFacts
<1>3. Shape(e) /\ e.result = "error" /\ e.failure = "uncertain"
  BY <1>2 DEF SessionInv, Shape, Fields
<1> HIDE DEF e
<1>4. Shape(ended) /\ ended.result = "error" /\ ended.failure = "uncertain"
  BY <1>3, EndFlashFrame, ZenonT(40) DEF SameBut, Fields
<1> HIDE DEF ended
<1>5. app'.result = "error" /\ app'.failure = "uncertain"
  BY <1>1, <1>4, PolledFrame DEF SameBut, Fields
<1>6. QED BY <1>2, <1>5 DEF Outcome

\* Other polls do not end a job.
LEMMA PollsKeepJob ==
  ASSUME SessionInv, Poll, ~PollDone, ~PollLost
  PROVE  app'.job = app.job
<1> USE DEF SessionInv
<1>1. ASSUME Quiet PROVE app'.job = app.job
  BY <1>1 DEF Quiet, SameBut, Fields, ChoiceFields, ShownFields, DriveFields, FileFields
<1>2. CASE PollOrigin BY <1>1, <1>2, PollOriginStep
<1>3. CASE PollProfile BY <1>1, <1>3, PollProfileStep
<1>4. CASE PollReport BY <1>1, <1>4, PollReportStep
<1>5. CASE PollPrepared BY <1>5 DEF PollPrepared, Takes, Shape, Fields
<1>6. CASE PollMismatch BY <1>6 DEF PollMismatch, Takes, Shape, Fields
<1>7. CASE PollQuestion BY <1>7 DEF PollQuestion, Takes, Ask, Shape, Fields
<1>8. QED BY <1>2, <1>3, <1>4, <1>5, <1>6, <1>7 DEF Poll

LEMMA WorkerKeepsApp ==
  ASSUME Worker
  PROVE  UNCHANGED app
BY DEF Worker, ReadOnlyEnds, AskWithoutBackup, AskFlash, Answered, RevalidateRecovery,
       BlockedBeforeWrite, TouchDrive, UpdateEnds, Panics, IsLost, Ends, Enters, Asks

\* What the operator is told of a job that ends is true of what its thread did
\* to the drive.
THEOREM OutcomesAreTrue == Spec => OutcomeIsTrue
<1>1. SessionInv /\ [Next]_vars => [Outcome]_vars
  <2>1. SUFFICES ASSUME SessionInv, Next PROVE Outcome OBVIOUS
  <2>2. CASE UserInput \/ Answer BY <2>1, <2>2, InputsKeepJob DEF Outcome
  <2>3. CASE Worker BY <2>3, WorkerKeepsApp DEF Outcome
  <2>4. CASE Poll BY <2>1, <2>4, DoneOutcome, LostOutcome, PollsKeepJob DEF Outcome
  <2>5. QED BY <2>1, <2>2, <2>3, <2>4 DEF Next
<1>2. QED BY <1>1, SessionInvariant, PTL DEF Spec, OutcomeIsTrue, Outcome

-----------------------------------------------------------------------------
(* The types                                                               *)

\* What the App says, which no handler depends on but `task`.
Labels(a) ==
  /\ a.task \in {"Flash", "Recovery", "Other"}
  /\ a.failure \in {"none", "no_write", "uncertain"}
  /\ a.result \in {"none", "ok", "error", "cancelled"}

\* A fit App has its fields and its labels.
Fit(a) == Shape(a) /\ Labels(a)

\* Every handler's piece keeps an App fit.
LEMMA FitPieces ==
  ASSUME NEW a, Fit(a)
  PROVE  /\ Fit(ClearFlashResult(a)) /\ Fit(ForgetOverride(a)) /\ Fit(StartOrigin(a))
         /\ Fit(EndFlash(a))
         /\ \A by : Fit(StartProfile(a, by)) /\ Fit(RefreshCurrentProfile(a, by))
         /\ \A b : Fit(Polled(b, a))
         /\ \A target, sheet : Fit(Ask(a, target, sheet))
<1> USE DEF Fit, Shape, Fields, Labels
<1>1. Fit(ClearFlashResult(a)) BY DEF ClearFlashResult
<1>2. Fit(ForgetOverride(a)) BY DEF ForgetOverride
<1>3. Fit(StartOrigin(a)) BY DEF StartOrigin
<1>4. Fit(EndFlash(a)) BY DEF EndFlash
<1>5. ASSUME NEW by PROVE Fit(StartProfile(a, by)) BY DEF StartProfile
<1>6. ASSUME NEW by PROVE Fit(RefreshCurrentProfile(a, by))
  BY <1>5 DEF RefreshCurrentProfile
<1>7. ASSUME NEW b PROVE Fit(Polled(b, a)) BY DEF Polled
<1>8. ASSUME NEW target, NEW sheet PROVE Fit(Ask(a, target, sheet)) BY DEF Ask
<1> HIDE DEF Fit
<1>9. QED BY <1>1, <1>2, <1>3, <1>4, <1>5, <1>6, <1>7, <1>8

\* So does an assignment to other fields.
LEMMA FitBut ==
  ASSUME NEW a, Fit(a), NEW b, NEW S, SameBut(a, b, S), S \cap {"task", "failure", "result"} = {}
  PROVE  Fit(b)
BY DEF Fit, SameBut, Shape, Fields, Labels

LEMMA FitProfile ==
  ASSUME NEW a, Fit(a), NEW p
  PROVE  Fit(SetProfile(a, p))
<1>1. /\ SameBut(a, SetProfile(a, p), {"failure", "probe", "profile", "read", "bypass"})
  BY SetProfileFrame DEF Fit
<1>2. SetProfile(a, p).failure \in {a.failure, "no_write"} BY DEF SetProfile, Fit, Shape, Fields
<1>3. QED BY <1>1, <1>2 DEF Fit, SameBut, Fields, Labels

LEMMA FitStart ==
  ASSUME NEW a, Fit(a), NEW kind, NEW drive, NEW options
  PROVE  Fit(StartJob(a, kind, drive, options))
BY DEF StartJob, Fit, Shape, Fields, Labels

LEMMA FitRead ==
  ASSUME NEW a, Fit(a), NEW pick, NEW f
  PROVE  Fit(ReadOrigin(a, pick, f))
BY ReadOriginFrame, FitBut DEF Fit

LEMMA FitQuietInputs ==
  ASSUME Fit(app),
         \/ \E d \in Drives : SelectDrive(d)
         \/ Refresh
         \/ \E t \in {"Flash", "Recovery", "Other"} : SelectTask(t)
         \/ Choose \/ SubmitReport \/ DismissReport \/ SendReport
         \/ \E on \in BOOLEAN : FlashReadFromDrive(on) \/ RecoveryReadFromDrive(on)
                                \/ BypassFamily(on) \/ TickRisk(on)
  PROVE  Fit(app')
<1>1. ASSUME NEW d \in Drives, SelectDrive(d) PROVE Fit(app')
  <2> DEFINE c == ClearFlashResult(ForgetOverride(app))
             e == [c EXCEPT !.device = d, !.read = [t \in DOMAIN @ |-> TRUE],
                            !.riskAck = FALSE, !.failure = "none", !.result = "none"]
  <2>1. app' = StartProfile(e, "user") BY <1>1 DEF SelectDrive, Becomes
  <2>2. Fit(c) BY FitPieces
  <2> HIDE DEF c
  <2>3. Fit(e) BY <2>2 DEF Fit, Shape, Fields, Labels
  <2> HIDE DEF e
  <2>4. QED BY <2>1, <2>3, FitPieces
<1>2. CASE Refresh
  <2>1. PICK drives \in SUBSET Drives :
          LET a == [app EXCEPT !.drives = drives] IN
          IF app.device \in drives THEN Becomes(StartProfile(a, "user"))
          ELSE \E d \in FirstOf(drives) :
                 Becomes(StartProfile(
                   [ForgetOverride(a) EXCEPT
                      !.device = d, !.riskAck = FALSE, !.pending = None,
                      !.prepared = None], "user"))
    BY <1>2 DEF Refresh
  <2> DEFINE a == [app EXCEPT !.drives = drives]
             o == ForgetOverride(a)
             b(d) == [o EXCEPT !.device = d, !.riskAck = FALSE, !.pending = None,
                               !.prepared = None]
  <2>2. app' = StartProfile(a, "user") \/ \E d \in FirstOf(drives) : app' = StartProfile(b(d), "user")
    BY <2>1 DEF Becomes
  <2>3. Fit(a) BY DEF Fit, Shape, Fields, Labels
  <2> HIDE DEF a
  <2>4. Fit(o) BY <2>3, FitPieces
  <2> HIDE DEF o
  <2>5. \A d : Fit(b(d)) BY <2>4 DEF Fit, Shape, Fields, Labels
  <2> HIDE DEF b
  <2>6. QED BY <2>2, <2>3, <2>5, FitPieces
<1>3. ASSUME NEW t \in {"Flash", "Recovery", "Other"}, SelectTask(t) PROVE Fit(app')
  BY <1>3 DEF SelectTask, Becomes, Fit, Shape, Fields, Labels
<1>4. CASE Choose BY <1>4, FitPieces DEF Choose, Becomes
<1>5. CASE SubmitReport \/ DismissReport \/ SendReport
  <2>1. CASE SubmitReport BY <2>1 DEF SubmitReport, Becomes, Fit, Shape, Fields, Labels
  <2>2. CASE DismissReport BY <2>2 DEF DismissReport, Becomes, Fit, Shape, Fields, Labels
  <2>3. CASE SendReport BY <2>3 DEF SendReport, Becomes, Fit, Shape, Fields, Labels
  <2>4. QED BY <1>5, <2>1, <2>2, <2>3
<1>6. ASSUME NEW on \in BOOLEAN, FlashReadFromDrive(on) PROVE Fit(app')
  <2> DEFINE c == ClearFlashResult(app)
  <2>1. app' = [c EXCEPT !.read["Flash"] = on] BY <1>6 DEF FlashReadFromDrive, Becomes
  <2>2. Fit(c) BY FitPieces
  <2> HIDE DEF c
  <2>3. QED BY <2>1, <2>2 DEF Fit, Shape, Fields, Labels
<1>7. ASSUME NEW on \in BOOLEAN, RecoveryReadFromDrive(on) PROVE Fit(app')
  <2> DEFINE a == IF app.read["Recovery"] # on
                  THEN ClearFlashResult(ForgetOverride(app)) ELSE app
             e == [a EXCEPT !.read["Recovery"] = on]
  <2>1. app' = RefreshCurrentProfile(e, "user") BY <1>7 DEF RecoveryReadFromDrive, Becomes
  <2>2. Fit(a) BY FitPieces
  <2> HIDE DEF a
  <2>3. Fit(e) BY <2>2 DEF Fit, Shape, Fields, Labels
  <2> HIDE DEF e
  <2>4. QED BY <2>1, <2>3, FitPieces
<1>8. ASSUME NEW on \in BOOLEAN, BypassFamily(on) PROVE Fit(app')
  <2> DEFINE e == [app EXCEPT !.bypass = FALSE, !.riskAck = FALSE]
             a == ClearFlashResult(e)
  <2>1. app' = a \/ \E t : app' = Ask(a, t, "FamilyOverride")
    BY <1>8 DEF BypassFamily, Becomes
  <2>2. Fit(e) BY DEF Fit, Shape, Fields, Labels
  <2> HIDE DEF e
  <2>3. Fit(a) BY <2>2, FitPieces
  <2> HIDE DEF a
  <2>4. QED BY <2>1, <2>3, FitPieces
<1>9. ASSUME NEW on \in BOOLEAN, TickRisk(on) PROVE Fit(app')
  BY <1>9 DEF TickRisk, Becomes, Fit, Shape, Fields, Labels
<1>10. QED BY <1>1, <1>2, <1>3, <1>4, <1>5, <1>6, <1>7, <1>8, <1>9

LEMMA FitChoices ==
  ASSUME Fit(app), NEW pick \in Picks,
         \/ \E f \in Files : ChooseFile(pick, f)
         \/ \E m \in app.members[pick] : PickMember(pick, m)
  PROVE  Fit(app')
<1> DEFINE c == ClearFlashResult(app)
<1>1. Fit(c) BY FitPieces
<1>2. ASSUME NEW f \in Files, ChooseFile(pick, f) PROVE Fit(app')
  <2> DEFINE a == [c EXCEPT !.file[pick] = f]
             b == [a EXCEPT !.member[pick] = None, !.members[pick] = {}]
             flash == [b EXCEPT !.read["Flash"] = FALSE]
             recovery == [b EXCEPT !.read["Recovery"] = FALSE]
  <2>1. \E e \in {a, flash, ForgetOverride(b), ForgetOverride(recovery)} :
          app' = ReadOrigin(e, pick, f)
    BY <1>2 DEF ChooseFile, Becomes, Picks
  <2> HIDE DEF c
  <2>2. Fit(a) BY <1>1 DEF Fit, Shape, Fields, Labels
  <2> HIDE DEF a
  <2>3. Fit(b) BY <2>2 DEF Fit, Shape, Fields, Labels
  <2> HIDE DEF b
  <2>4. Fit(flash) /\ Fit(recovery) BY <2>3 DEF Fit, Shape, Fields, Labels
  <2> HIDE DEF flash, recovery
  <2>5. Fit(ForgetOverride(b)) /\ Fit(ForgetOverride(recovery)) BY <2>3, <2>4, FitPieces
  <2>6. QED BY <2>1, <2>2, <2>4, <2>5, FitRead
<1>3. ASSUME NEW m \in app.members[pick], PickMember(pick, m) PROVE Fit(app')
  <2> DEFINE a == [c EXCEPT !.member[pick] = m]
  <2>1. \/ app' = a \/ app' = ForgetOverride(a)
        \/ app' = RefreshCurrentProfile(ForgetOverride(a), "user")
    BY <1>3 DEF PickMember, Becomes, Picks
  <2> HIDE DEF c
  <2>2. Fit(a) BY <1>1 DEF Fit, Shape, Fields, Labels
  <2> HIDE DEF a
  <2>3. Fit(ForgetOverride(a)) BY <2>2, FitPieces
  <2>4. QED BY <2>1, <2>2, <2>3, FitPieces
<1>4. QED BY <1>2, <1>3

LEMMA FitJobs ==
  ASSUME Fit(app), ReadOnlyJob \/ FlashNow \/ Recover
  PROVE  Fit(app')
<1>1. CASE ReadOnlyJob BY <1>1, FitStart DEF ReadOnlyJob, Becomes
<1>2. CASE FlashNow
  <2> DEFINE a == StartJob(app, "PlanFlash", app.device, FlashOptions(app))
  <2>1. app' = [a EXCEPT !.planning = Target(app, FlashOptions(app))]
    BY <1>2 DEF FlashNow, Becomes, Target
  <2>2. Fit(a) BY FitStart
  <2> HIDE DEF a
  <2>3. QED BY <2>1, <2>2 DEF Fit, Shape, Fields, Labels
<1>3. CASE Recover
  <2> DEFINE e == [app EXCEPT !.prepared = None, !.bypass = FALSE]
             a == StartJob(e, "PrepareRecovery", app.device, RecoveryOptions(app))
  <2>1. app' = [a EXCEPT !.recoveryPlanning = Target(app, RecoveryOptions(app))]
    BY <1>3 DEF Recover, Becomes, Target
  <2>2. Fit(e) BY DEF Fit, Shape, Fields, Labels
  <2> HIDE DEF e
  <2>3. Fit(a) BY <2>2, FitStart
  <2> HIDE DEF a
  <2>4. QED BY <2>1, <2>3 DEF Fit, Shape, Fields, Labels
<1>4. QED BY <1>1, <1>2, <1>3

LEMMA FitAnswers ==
  ASSUME Fit(app), Answer
  PROVE  Fit(app')
<1>1. ASSUME NEW codeMatches \in BOOLEAN, ConfirmOverride(codeMatches) PROVE Fit(app')
  BY <1>1 DEF ConfirmOverride, Becomes, Fit, Shape, Fields, Labels
<1>2. CASE ConfirmWithoutBackup
  BY <1>2 DEF ConfirmWithoutBackup, Reply, Fit, Shape, Fields, Labels
<1> DEFINE c == Consented(app)
           e == [c EXCEPT !.prepared = None]
           s == StartJob(e, "ExecuteRecovery", app.prepared.drive, app.prepared.options)
<1>3. Fit(c) BY DEF Consented, Fit, Shape, Fields, Labels
<1>4. CASE ConfirmFlash
  <2>1. app' = [c EXCEPT !.riskAck = FALSE] BY <1>4 DEF ConfirmFlash, Reply
  <2> HIDE DEF c
  <2>2. QED BY <1>3, <2>1 DEF Fit, Shape, Fields, Labels
<1>5. CASE ConfirmRecovery
  <2>1. app' = [app EXCEPT !.pending = None] \/ app' = [s EXCEPT !.consent = c.consent]
    BY <1>5 DEF ConfirmRecovery, Becomes
  <2> HIDE DEF c
  <2>2. Fit(e) BY <1>3 DEF Fit, Shape, Fields, Labels
  <2> HIDE DEF e
  <2>3. Fit(s) BY <2>2, FitStart
  <2> HIDE DEF s
  <2>4. Fit([s EXCEPT !.consent = c.consent]) BY <2>3 DEF Fit, Shape, Fields, Labels
  <2>5. Fit([app EXCEPT !.pending = None]) BY DEF Fit, Shape, Fields, Labels
  <2>6. QED BY <2>1, <2>4, <2>5
<1>6. CASE CancelConfirm
  <2> DEFINE a == [app EXCEPT !.prepared = None, !.pending = None, !.riskAck = FALSE]
  <2>1. app' = a \/ app' = [a EXCEPT !.cancelled = TRUE]
    BY <1>6 DEF CancelConfirm, Reply, Becomes
  <2>2. Fit(a) BY DEF Fit, Shape, Fields, Labels
  <2> HIDE DEF a
  <2>3. Fit([a EXCEPT !.cancelled = TRUE]) BY <2>2 DEF Fit, Shape, Fields, Labels
  <2>4. QED BY <2>1, <2>2, <2>3
<1>7. QED BY <1>1, <1>2, <1>4, <1>5, <1>6 DEF Answer, Confirm

LEMMA FitPollOrigin ==
  ASSUME Fit(app), Inspection(app), PollOrigin
  PROVE  Fit(app')
<1> DEFINE reply == app.inspecting
           pick == reply.pick
           a == [app EXCEPT !.inspecting = None]
           shown == [a EXCEPT !.origin[pick] = reply.version]
           listed(found) == [a EXCEPT !.members[pick] = found]
           both(found) == [shown EXCEPT !.members[pick] = found]
<1>1. PICK found \in {{}, MembersIn[reply.file]} :
        LET b == IF app.file[pick] # reply.file \/ app.version[pick] # reply.version
                 THEN a
                 ELSE CASE pick = "FlashFirmware" -> shown
                        [] pick = "RecoveryInput" -> both(found)
                        [] pick = "FlashCurrent" -> listed(found)
                        [] pick = "RecoveryCurrent" -> RefreshCurrentProfile(listed(found), "reply")
        IN Becomes(Polled(app, StartOrigin(b)))
  BY DEF PollOrigin
<1> DEFINE b == IF app.file[pick] # reply.file \/ app.version[pick] # reply.version
                THEN a
                ELSE CASE pick = "FlashFirmware" -> shown
                       [] pick = "RecoveryInput" -> both(found)
                       [] pick = "FlashCurrent" -> listed(found)
                       [] pick = "RecoveryCurrent" -> RefreshCurrentProfile(listed(found), "reply")
<1>2. app' = Polled(app, StartOrigin(b)) BY <1>1 DEF Becomes
<1>3. Fit(a) BY DEF Fit, Shape, Fields, Labels
<1> HIDE DEF a
<1>4. Fit(shown) BY <1>3 DEF Fit, Shape, Fields, Labels
<1>5. Fit(listed(found)) BY <1>3 DEF Fit, Shape, Fields, Labels
<1> HIDE DEF shown, listed
<1>6. Fit(both(found)) BY <1>4 DEF Fit, Shape, Fields, Labels
<1> HIDE DEF both
<1>7. Fit(RefreshCurrentProfile(listed(found), "reply")) BY <1>5, FitPieces
<1>8. pick \in Picks => Fit(b) BY <1>3, <1>4, <1>5, <1>6, <1>7 DEF Picks
<1>9. pick \in Picks BY DEF PollOrigin, Inspection, QueueOK, Waits
<1> HIDE DEF b
<1>10. Fit(StartOrigin(b)) BY <1>8, <1>9, FitPieces
<1>11. QED BY <1>2, <1>10, FitPieces

LEMMA FitPollDone ==
  ASSUME SessionInv, Fit(app), PollDone
  PROVE  Fit(app')
<1> DEFINE e == [app EXCEPT !.planning = None, !.recoveryPlanning = None,
                            !.cancelled = FALSE, !.job = NoJob]
           ended == EndFlash(e)
           told == IF Head(chan).ok THEN [ended EXCEPT !.result = "ok"]
                   ELSE IF app.cancelled
                        THEN [ended EXCEPT !.result = "cancelled", !.failure = "none"]
                        ELSE [ended EXCEPT !.result = "error", !.failure = Head(chan).issue]
           flash == StartJob(told, "Flash", app.planning.drive, app.planning.options)
           next == IF Head(chan).ok /\ app.planning # None
                   THEN BackUpAndAuthorize(told, app.planning)
                   ELSE IF Head(chan).ok /\ app.recoveryPlanning # None
                        THEN Ask(told, app.recoveryPlanning, "Recovery")
                        ELSE told
<1>1. /\ Running(app) /\ chan # <<>> /\ Head(chan).type = "Done"
      /\ app' = Polled(app, next)
  BY DEF PollDone, Receives, Takes
<1>2. ~Head(chan).ok => Head(chan).issue \in {"no_write", "uncertain"}
  <2>1. thread.stage = "ended" BY <1>1, TakenFacts
  <2>2. QED BY <1>1, <2>1, HeadOfEnd DEF IsEnd
<1>3. Fit(e) BY DEF Fit, Shape, Fields, Labels
<1> HIDE DEF e
<1>4. Fit(ended) BY <1>3, FitPieces
<1> HIDE DEF ended
<1>5. Fit(told) BY <1>2, <1>4 DEF Fit, Shape, Fields, Labels
<1> HIDE DEF told
<1>6. Fit(flash) BY <1>5, FitStart
<1>7. Fit(BackUpAndAuthorize(told, app.planning))
  <2>1. BackUpAndAuthorize(told, app.planning) \in {flash, [flash EXCEPT !.flashing = app.planning]}
    BY DEF BackUpAndAuthorize
  <2> HIDE DEF flash
  <2>2. Fit([flash EXCEPT !.flashing = app.planning]) BY <1>6 DEF Fit, Shape, Fields, Labels
  <2>3. QED BY <1>6, <2>1, <2>2
<1>8. Fit(next) BY <1>5, <1>7, FitPieces
<1> HIDE DEF next
<1>9. QED BY <1>1, <1>8, FitPieces

LEMMA FitPollLost ==
  ASSUME Fit(app), PollLost
  PROVE  Fit(app')
<1> DEFINE e == [app EXCEPT
                  !.planning = None, !.recoveryPlanning = None, !.prepared = None,
                  !.job = NoJob, !.result = "error",
                  !.failure = IF MayWrite(app.job) THEN "uncertain" ELSE "no_write"]
<1>1. app' = Polled(app, EndFlash(e)) BY DEF PollLost, Becomes
<1>2. Fit(e) BY DEF Fit, Shape, Fields, Labels
<1> HIDE DEF e
<1>3. Fit(EndFlash(e)) BY <1>2, FitPieces
<1>4. QED BY <1>1, <1>3, FitPieces

LEMMA FitPolls ==
  ASSUME SessionInv, Fit(app), Poll
  PROVE  Fit(app')
<1>1. CASE PollOrigin BY <1>1, FitPollOrigin DEF SessionInv
<1>2. CASE PollProfile
  <2>1. \E p : app' = Polled(app, SetProfile(app, p)) BY <1>2 DEF PollProfile, Becomes
  <2>2. QED BY <2>1, FitProfile, FitPieces
<1>3. CASE PollReport
  <2> DEFINE a == [app EXCEPT !.reporting = FALSE]
  <2>1. app' = Polled(app, a) BY <1>3 DEF PollReport, Becomes
  <2>2. Fit(a) BY DEF Fit, Shape, Fields, Labels
  <2> HIDE DEF a
  <2>3. QED BY <2>1, <2>2, FitPieces
<1>4. CASE PollPrepared BY <1>4 DEF PollPrepared, Takes, Fit, Shape, Fields, Labels
<1>5. CASE PollMismatch BY <1>5 DEF PollMismatch, Takes, Fit, Shape, Fields, Labels
<1>6. CASE PollQuestion
  <2>1. app' = app \/ \E target, sheet : app' = Ask(app, target, sheet)
    BY <1>6 DEF PollQuestion, Takes
  <2>2. QED BY <2>1, FitPieces
<1>7. CASE PollDone BY <1>7, FitPollDone
<1>8. CASE PollLost BY <1>8, FitPollLost
<1>9. QED BY <1>1, <1>2, <1>3, <1>4, <1>5, <1>6, <1>7, <1>8 DEF Poll

LEMMA FitStep ==
  ASSUME SessionInv, Fit(app), [Next]_vars
  PROVE  Fit(app')
<1>0. Chosen \subseteq Picks BY ProfileAssumption
<1>1. CASE UserInput
  <2>1. ASSUME NEW pick \in Chosen,
               \/ \E f \in Files : ChooseFile(pick, f)
               \/ \E m \in app.members[pick] : PickMember(pick, m)
        PROVE  Fit(app')
    BY <1>0, <2>1, FitChoices
  <2>2. CASE ReadOnlyJob \/ FlashNow \/ Recover BY <2>2, FitJobs
  <2>3. QED BY <1>1, <2>1, <2>2, FitQuietInputs DEF UserInput
<1>2. CASE Answer BY <1>2, FitAnswers
<1>3. CASE Worker BY <1>3, WorkerKeepsApp
<1>4. CASE Poll BY <1>4, FitPolls
<1>5. CASE UNCHANGED vars BY <1>5 DEF vars
<1>6. QED BY <1>1, <1>2, <1>3, <1>4, <1>5 DEF Next

LEMMA FitInit ==
  ASSUME Init
  PROVE  Fit(app)
<1>1. \E drives, device : app = StartProfile(Fresh(drives, device), "user") BY DEF Init
<1>2. \A drives, device : Fit(Fresh(drives, device)) BY DEF Fresh, Fit, Shape, Fields, Labels
<1>3. QED BY <1>1, <1>2, FitPieces

LEMMA TypesFollow ==
  ASSUME SessionInv, Fit(app)
  PROVE  TypeOK
<1> USE DEF SessionInv
<1>1. /\ app.drives \subseteq Drives /\ app.device \in Drives \cup {None}
      /\ app.profile \in Profile \cup {None} /\ app.probe \in {"none", "user", "reply"}
  BY DEF Selection, ChoiceOK
<1>2. \A t \in {app.planning, app.recoveryPlanning, app.flashing, app.prepared} :
        t \in Targets \cup {None}
  <2>1. app.job.kind # "none" => Running(app) BY DEF Running, NoJob
  <2>2. For(app) \in Targets \/ ~Running(app) BY JobFacts
  <2>3. /\ app.planning \in Targets \cup {None} /\ app.recoveryPlanning \in Targets \cup {None}
        /\ app.flashing \in Targets \cup {None}
    BY <2>1, <2>2 DEF Session, JobOK
  <2>4. app.prepared \in Targets \cup {None} BY <2>2 DEF Session, PreparedOK
  <2>5. QED BY <2>3, <2>4
<1>3. app.pending \in Sheets \cup {None} BY DEF Session, PendingOK
<1>4. Len(chan) <= 2
  <2>1. \A x : Len(<<x>>) = 1 OBVIOUS
  <2>2. \A x, y : Len(<<x>> \o <<y>>) = 2
    <3>1. SUFFICES ASSUME NEW x, NEW y PROVE Len(<<x>> \o <<y>>) = 2 OBVIOUS
    <3>2. <<x>> \in Seq({x, y}) /\ <<y>> \in Seq({x, y}) OBVIOUS
    <3>3. QED BY <2>1, <3>2, ConcatProperties
  <2>3. CASE chan = <<>> BY <2>3
  <2>4. CASE chan # <<>>
    <3>1. Running(app) /\ thread.stage \in Questions \cup {"ended"}
      BY <2>4, TakenFacts DEF Session, ThreadOK
    <3>2. CASE thread.stage \in Questions
      <4> DEFINE q == [type |-> Question(thread.stage)]
      <4>1. chan = <<q>> BY <2>4, <3>1, <3>2 DEF Session, ChanOK, AskingOK
      <4> HIDE DEF q
      <4>2. QED BY <2>1, <4>1
    <3>3. CASE thread.stage = "ended"
      <4> DEFINE good == [type |-> "Done", ok |-> TRUE, issue |-> "none"]
                 bad == [type |-> "Done", ok |-> FALSE, issue |-> "no_write"]
                 unsure == [type |-> "Done", ok |-> FALSE, issue |-> "uncertain"]
                 p == [type |-> "PreparedRecovery"]
                 f == [type |-> "FamilyMismatch"]
      <4>1. /\ Done(TRUE, "none") = <<good>> /\ Done(FALSE, "no_write") = <<bad>>
            /\ Done(FALSE, "uncertain") = <<unsure>>
        BY DEF Done
      <4>2. \/ chan = Done(TRUE, "none") \/ chan = Done(FALSE, "no_write")
            \/ chan = Done(FALSE, "uncertain")
            \/ chan = <<p>> \o Done(TRUE, "none") \/ chan = <<f>> \o Done(FALSE, "no_write")
        BY <3>1, <3>3 DEF Session, ChanOK, EndedOK
      <4> HIDE DEF good, bad, unsure, p, f
      <4>3. chan \in {<<good>>, <<bad>>, <<unsure>>, <<p>> \o <<good>>, <<f>> \o <<bad>>}
        BY <4>1, <4>2
      <4>4. QED BY <2>1, <2>2, <4>3
    <3>4. QED BY <3>1, <3>2, <3>3
  <2>5. QED BY <2>3, <2>4
<1>5. thread \in [stage : {"run", "backup?", "waived", "flash?", "write", "lost", "ended"},
                  answer : {"none", "yes", "no"}, touched : BOOLEAN]
  BY DEF Session, ThreadOK
<1>6. QED BY <1>1, <1>2, <1>3, <1>4, <1>5 DEF TypeOK, Fit, Labels

\* The App, the thread and its messages have the values the source gives them.
THEOREM TypesHold == Spec => []TypeOK
<1>1. Init => Fit(app) BY FitInit
<1>2. SessionInv /\ Fit(app) /\ [Next]_vars => Fit(app)' BY FitStep
<1>3. SessionInv /\ Fit(app) => TypeOK BY TypesFollow
<1>4. QED BY <1>1, <1>2, <1>3, SessionInvariant, PTL DEF Spec
=============================================================================
