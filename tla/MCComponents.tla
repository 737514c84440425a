------------------------------ MODULE MCComponents ------------------------------
(***************************************************************************)
(* The components around a session that share no state, on small instances *)
(* in one run: `part` says which of them the behaviour is of, and the      *)
(* others rest in one of their initial states.                             *)
(***************************************************************************)
EXTENDS PreparedRecovery, ScsiCommand, MediumProbe, Detection, BankBackup, MemorySweep,
        PioneerCapture, SupportReport, PioneerUpdate, MtkUpdate, GuiShell, AnalysisSession,
        DriveFlags, FirmwareForm, PioneerPlan

VARIABLE part

vars == <<part, recoveryVars, commandVars, probeVars, detectionVars, bankVars, sweepVars,
          captureVars, reportVars, pioneerVars, mtkVars, shellVars, analysisVars, flagsVars,
          formVars, planVars>>

Parts == {"recovery", "command", "probe", "detection", "bank", "sweep", "capture", "report",
          "pioneer", "mtk", "shell", "analysis", "flags", "firmware",
          "plan"}

(* Two MediaTek drives of one model, and a Pioneer drive. *)
MCDrives == {"mtkA", "mtkB", "pioneerP"}
MCFamilyOf == [d \in MCDrives |->
    CASE d = "pioneerP" -> "familyP" [] OTHER -> "familyA"]
MCInquiryOf == [d \in MCDrives |-> IF d = "mtkB" THEN "mtkA" ELSE d]
MCBackendFor ==
    [f \in {"familyA", "familyP", "familyQ"} |-> IF f = "familyA" THEN "mtk" ELSE "pioneer"]
MCRecoveryRequests ==
    {request \in [execute : BOOLEAN, acknowledged : BOOLEAN, bypass : BOOLEAN,
                  current : {"noImage", "familyA", "familyP"},
                  target : {"familyA", "familyP", "familyQ"}] :
        \/ request.execute /\ request.acknowledged
        \/ ~request.bypass /\ request.current = "noImage" /\ request.target = "familyA"}

(* Images which start with a speed, and with the bypass, of their own. *)
MCChoices == {<<"Encryption", Off>>, <<"Encryption", Oem>>, <<"Speed", On>>}
AtSpeed == [f \in Features |-> IF f = "Speed" THEN On ELSE Oem]
ReadAloud == [f \in Features |-> IF f = "Encryption" THEN Off ELSE Oem]
MCImages == {AtSpeed, ReadAloud}

(* Firmware files: with space in one hole, in clipped ones, only beyond the *)
(* covered area, and too little; one with a partial control, two classic    *)
(* ones, one of them with space for its levers but not for their record,    *)
(* one where only the downgrade byte applies; images made before, of which  *)
(* one refuses discs and one is damaged; and dumps of two of them.          *)
OemFile(engine, contracts, erased, entries, reserved) ==
    [sort |-> "oem", engine |-> engine, found |-> contracts, entries |-> entries,
     reserved |-> reserved, extendable |-> TRUE, intact |-> TRUE, downgrade |-> "oem",
     cell |-> [c \in Cell |-> IF c \in erased THEN Erased ELSE Native],
     site |-> Unhooked]
Covered(index, first, last, state) ==
    [index |-> index, first |-> first, last |-> last, flag |-> state]

RoomyFile ==
    OemFile("MT1959", {"base", "speed", "region", "rawRead", "uhd", "hrl", "bd", "auth",
                       "refusal", "clearingConversion"},
            2..17, {Covered(1, 1, 18, "on")}, {})
ClippedFile ==
    OemFile("MT1959", {"base", "speed", "rawRead", "uhd", "bd", "conversion"},
            (2..6) \cup (8..12) \cup (14..16),
            {Covered(1, 1, 10, "on"), Covered(2, 9, 18, "on")}, {4})
UncoveredFile ==
    OemFile("MT1959", {"base", "speed", "region", "rawRead", "auth", "classicConversion"},
            (2..8) \cup (10..17), {Covered(1, 1, 8, "on"), Covered(2, 18, 18, "off")}, {})
FullFile == [UncoveredFile EXCEPT !.extendable = FALSE]
PartialFile ==
    OemFile("MT1939", {"base", "rawRead", "auth"}, 3..13, {Covered(1, 1, 18, "on")}, {})
ClassicFile ==
    OemFile("classic", {"base", "speed", "region", "rawRead", "hrl", "classicConversion"},
            2..10, {Covered(1, 1, 10, "on")}, {})
TightFile ==
    OemFile("classic", {"base", "speed", "region", "rawRead", "hrl", "classicConversion"},
            (2..7) \cup (9..17), {Covered(1, 1, 8, "on")}, {})
WriterFile == OemFile("MT1939", {}, {2, 3}, {Covered(1, 1, 18, "on")}, {})
Refusing == [Standard EXCEPT !.values.unrestricted = "off"]
MadeFile == Modified(PartialFile, Standard).image
DamagedFile == [MadeFile EXCEPT !.intact = FALSE]
Dump(original) == [original EXCEPT !.sort = "driveRead"]
RefusingFile ==
    Modified([RoomyFile EXCEPT !.found = @ \ {"clearingConversion"}], Refusing).image
MCFiles ==
    {RoomyFile, ClippedFile, UncoveredFile, FullFile, PartialFile, ClassicFile, TightFile,
     WriterFile, MadeFile, DamagedFile, RefusingFile, Dump(RoomyFile), Dump(MadeFile)}
MCOtherFiles == {FullFile, PartialFile, MadeFile, RefusingFile}
MCOfferedSettings == {<<"unrestricted", "off">>, <<"encryption", "off">>, <<"region", "on">>}

(* Firmware for Pioneer drives: of two programmers that a bridge joins and  *)
(* one that none reaches, with an old Kernel, with Normals of other         *)
(* settings and of another family, and files that one gate each refuses.    *)
KernelOf(tag, codec, programmer, marker) ==
    [kind |-> "Kernel", sat |-> "satA", tag |-> tag, model |-> "m1", whole |-> TRUE,
     codec |-> codec, auth |-> "key", recognized |-> TRUE, programmer |-> programmer,
     finalizer |-> "rejects", marker |-> marker]
NormalOf(tag, codec, name, settings) ==
    [kind |-> "Normal", sat |-> "satA", tag |-> tag, model |-> "m1", whole |-> TRUE,
     codec |-> codec, sign |-> "key", seed |-> TRUE,
     body |-> [name |-> name, zero |-> TRUE, family |-> "F", settings |-> settings]]
Archive(kernel, normal) == [bare |-> FALSE, members |-> {kernel, normal} \ {NoPart}]
Bare(component) == [bare |-> TRUE, members |-> {component}]

Kernel1 == KernelOf("t1", "c1", "p1", "one")
Normal1 == NormalOf("t1", "c1", "n1", "s1")
Kernel2 == [KernelOf("t2", "c2", "p2", "one") EXCEPT !.auth = "cipher"]   \* bridged
Normal2 == [NormalOf("t2", "c2", "n2", "s1") EXCEPT !.sign = "cipher"]
Kernel3 == [KernelOf("t3", "c1", "p3", "one") EXCEPT !.sat = "satB"]      \* no bridge
Normal3 == [NormalOf("t3", "c1", "n3", "s1") EXCEPT !.sat = "satB"]
OldKernel == [KernelOf("t1", "c1", "p1", "erased") EXCEPT !.finalizer = "accepts"]
Normal4 == NormalOf("t1", "c1", "n4", "s2")                               \* other settings
Foreign == [Normal1 EXCEPT !.body.family = "G"]
Unbalanced == [Normal1 EXCEPT !.body.zero = FALSE]
Obscure == [Kernel1 EXCEPT !.programmer = Unknown, !.recognized = FALSE]

MCPackages ==
    {Archive(k, n) : k \in {Kernel1, OldKernel, Obscure, Kernel2}, n \in {Normal1, Normal4}} \cup
    {Archive(Kernel2, Normal2), Archive(Kernel3, Normal3), Archive(Kernel1, Foreign),
     Archive([OldKernel EXCEPT !.programmer = "p2"], Normal1),
     Archive(Kernel2, [Normal2 EXCEPT !.sign = "none", !.seed = FALSE]),
     Archive([Kernel1 EXCEPT !.auth = Unknown], [Normal1 EXCEPT !.sign = "none"]),
     Archive(Kernel1, [Normal1 EXCEPT !.sign = "invalid"]),
     Archive(Kernel1, [Normal1 EXCEPT !.codec = "c2"]),
     Archive(Kernel1, [Normal1 EXCEPT !.model = "m2"]),
     Archive(Kernel1, [Normal1 EXCEPT !.body.family = Unknown]),
     Archive(Kernel1, Unbalanced), Archive([Kernel3 EXCEPT !.recognized = FALSE], Normal3),
     Archive(Kernel1, NoPart), Bare(Kernel1)} \cup
    {Bare(n) : n \in {Normal1, Normal2, Normal3, Normal4, Foreign, Unbalanced,
                      [Normal1 EXCEPT !.codec = "c2"], [Normal1 EXCEPT !.codec = "c2", !.sign = "none"],
                      [Normal1 EXCEPT !.sign = "cipher"], [Normal1 EXCEPT !.sign = "cipher", !.seed = FALSE],
                      [Normal1 EXCEPT !.sign = "invalid"], [Normal1 EXCEPT !.sign = "none"],
                      [Normal1 EXCEPT !.sat = NoField],
                      [Normal1 EXCEPT !.model = "m2"], [Normal1 EXCEPT !.whole = FALSE]}}

(* Drives that hold one of them, on two hardwares, one in its loader.       *)
Holding(kernel, normal, state, hardware) ==
    [pair |-> [kernel |-> kernel, normal |-> normal], state |-> state, hardware |-> hardware]
MCPlanDrives ==
    {Holding(Kernel1, Normal1, "running", "h1"), Holding(Kernel1, Normal1, "running", "h2"),
     Holding(Kernel1, Normal4, "running", "h1"), Holding(Kernel2, Normal2, "running", "h1"),
     Holding(Kernel3, Normal3, "loader", "h1"), Holding(OldKernel, Normal1, "running", "h1"),
     Holding(Kernel1, Normal1, "foreign", "h1")}
MCReferences == {Archive(Kernel1, Normal1), Archive(Kernel3, Normal3), Archive(Kernel1, Foreign), Bare(Normal1)}
MCRules == {[from |-> "s1", to |-> "s2", hardware |-> "h1"],
            [from |-> "s1", to |-> "s3", hardware |-> "h2"]}
MCBridges == {<<"p1", "p2">>, <<"p2", "p1">>}

-----------------------------------------------------------------------------
Acts(p) == part = p

Init ==
    /\ part \in Parts
    /\ RecoveryInit /\ (~Acts("recovery") => attached = "mtkA")
    /\ CommandInit
    /\ (~Acts("command") => command = [direction |-> "in", empty |-> FALSE, strict |-> TRUE])
    /\ ProbeInit /\ (~Acts("probe") => tray = "empty" /\ ~slot /\ ~attention)
    /\ DetectionInit /\ (~Acts("detection") => speaks = {} /\ ~loader /\ purpose = "flash")
    /\ BankInit /\ (~Acts("bank") => content = "bank" /\ made = 0)
    /\ SweepInit /\ (~Acts("sweep") => channel = "flash")
    /\ CaptureInit
    /\ ReportInit /\ (~Acts("report") => capture = "absent")
    /\ PioneerInit /\ (~Acts("pioneer") => mode = "Recovery" /\ total = 1 /\ wanted = {})
    /\ MtkInit /\ (~Acts("mtk") => mtkMode = "recovery")
    /\ ShellInit /\ (~Acts("shell") => shell = "linux")
    /\ AnalysisInit
    /\ FlagsInit /\ (~Acts("flags") => baked = ReadAloud /\ stub = "refusal")
    /\ FormInit /\ (~Acts("firmware") => disk["input"] = NoFile)
    /\ PlanInit
    /\ (~Acts("plan") =>
            unit = Holding(Kernel1, Normal1, "running", "h1") /\ firmware = Bare(Normal1))

(* All but the component that acts rest. *)
Rest(p) ==
    /\ UNCHANGED part
    /\ p # "recovery" => UNCHANGED recoveryVars
    /\ p # "command" => UNCHANGED commandVars
    /\ p # "probe" => UNCHANGED probeVars
    /\ p # "detection" => UNCHANGED detectionVars
    /\ p # "bank" => UNCHANGED bankVars
    /\ p # "sweep" => UNCHANGED sweepVars
    /\ p # "capture" => UNCHANGED captureVars
    /\ p # "report" => UNCHANGED reportVars
    /\ p # "pioneer" => UNCHANGED pioneerVars
    /\ p # "mtk" => UNCHANGED mtkVars
    /\ p # "shell" => UNCHANGED shellVars
    /\ p # "analysis" => UNCHANGED analysisVars
    /\ p # "flags" => UNCHANGED flagsVars
    /\ p # "firmware" => UNCHANGED formVars
    /\ p # "plan" => UNCHANGED planVars

Next ==
    \/ Acts("recovery") /\ RecoveryNext /\ Rest("recovery")
    \/ Acts("command") /\ Attempt /\ Rest("command")
    \/ Acts("probe") /\ ProbeNext /\ Rest("probe")
    \/ Acts("detection") /\ DetectionNext /\ Rest("detection")
    \/ Acts("bank") /\ BankNext /\ Rest("bank")
    \/ Acts("sweep") /\ SweepNext /\ Rest("sweep")
    \/ Acts("capture") /\ CaptureNext /\ Rest("capture")
    \/ Acts("report") /\ ReportNext /\ Rest("report")
    \/ Acts("pioneer") /\ PioneerNext /\ Rest("pioneer")
    \/ Acts("mtk") /\ MtkNext /\ Rest("mtk")
    \/ Acts("shell") /\ ShellNext /\ Rest("shell")
    \/ Acts("analysis") /\ AnalysisNext /\ Rest("analysis")
    \/ Acts("flags") /\ FlagsNext /\ Rest("flags")
    \/ Acts("firmware") /\ FormNext /\ Rest("firmware")
    \/ Acts("plan") /\ PlanNext /\ Rest("plan")

Spec == Init /\ [][Next]_vars /\ ReportFairness /\ ShellFairness
=============================================================================
