------------------------------ MODULE PioneerPlan ------------------------------
(***************************************************************************)
(* What a Pioneer drive is given: the admission of firmware to Flash       *)
(* (execute_plan, verify_coverage and authorize of backends/pioneer), to   *)
(* Recovery (backends/pioneer/recovery.rs), and the catalogue of admitted  *)
(* pairs that crossflash.rs computes from files alone.                     *)
(*                                                                         *)
(* A component is its header (kind, sat, tag, model) and what its body is  *)
(* to the checks.  A Normal is encoded for the `codec` of the Kernels that *)
(* can receive it; another Kernel decodes it to garbage.  The library      *)
(* pioneer_optical (decoding, receivers, stages) is modelled from how the  *)
(* code uses it and from the code's tests; persistent banks are left out.  *)
(***************************************************************************)
EXTENDS Naturals, FiniteSets

CONSTANTS
    Packages,      \* firmware files: whether they are one bare envelope, and their members
    PlanDrives,    \* drives: the pair they hold, in which mode they are, their hardware
    References,    \* packages that users supply as the Current firmware
    Rules,         \* the conversions of settings: [from, to, hardware]
    Bridges,       \* Kernel programmers between which a bridge can be prepared
    NoPart         \* no component

Unsigned == "none"      \* a Normal without a signature

(* What the checks see of a body and of a component. *)
Bodies == [name : STRING, zero : BOOLEAN, family : STRING, settings : STRING]
Kernels ==
    [kind : {"Kernel"}, sat : STRING, tag : STRING, model : STRING, whole : BOOLEAN,
     codec : STRING, auth : STRING, recognized : BOOLEAN, programmer : STRING,
     finalizer : STRING, marker : STRING]
Normals ==
    [kind : {"Normal"}, sat : STRING, tag : STRING, model : STRING, whole : BOOLEAN,
     codec : STRING, sign : STRING \cup {Unsigned}, seed : BOOLEAN, body : Bodies]

ASSUME ComponentAssumption ==
    /\ NoPart \notin Kernels \cup Normals
    /\ \A file \in Packages :
          /\ file.bare \in BOOLEAN /\ \A m \in file.members : m \in Kernels \cup Normals
          /\ file.bare => \E m \in file.members : file.members = {m}
    /\ \A drive \in PlanDrives : drive.pair.kernel \in Kernels /\ drive.pair.normal \in Normals

NoField == "blank"      \* an empty field of a header
Unknown == "unknown"    \* what was not recognised
Unbound == "unbound"    \* the original hardware was not read

(* What was decided: the issue of a refusal, or the Normal as it will be   *)
(* sent, the Kernel that will receive it, whether that one is sent before, *)
(* what the user is told, and the hardware the plan depends on.            *)
RefusedFor(issue) ==
    [issue |-> issue, normal |-> NoPart, kernel |-> NoPart, paired |-> FALSE, told |-> {},
     needs |-> {}]
Granted(kernel, normal, paired, told, needs) ==
    [issue |-> "none", normal |-> normal, kernel |-> kernel, paired |-> paired, told |-> told,
     needs |-> needs]

-----------------------------------------------------------------------------
(* Components and packages.                                                *)

(* An archive has a Normal and at most one Kernel, of one product.         *)
OfOneProduct(members) ==
    /\ \A m, n \in members : m.model = n.model /\ m.sat = n.sat
    /\ Cardinality({m \in members : m.kind = "Kernel"}) <= 1
    /\ Cardinality({m \in members : m.kind = "Normal"}) = 1

Of(kind, members) ==
    IF \E m \in members : m.kind = kind
    THEN CHOOSE m \in members : m.kind = kind ELSE NoPart

(* The components of a file, if it can be read: a bare envelope counts as  *)
(* a Normal, whatever its header says.                                     *)
Classified(file) ==
    IF file.bare THEN {[kernel |-> NoPart, normal |-> m] : m \in file.members}
    ELSE {[kernel |-> Of("Kernel", file.members), normal |-> Of("Normal", file.members)] :
              ms \in {file.members} \cap {s \in {file.members} : OfOneProduct(s)}}

(* The drive aborts at boot unless Kernel and Normal agree in these.       *)
HeadersAgree(kernel, normal) ==
    /\ kernel.sat = normal.sat \/ NoField \in {kernel.sat, normal.sat}
    /\ kernel.tag = normal.tag /\ kernel.tag # NoField
    /\ kernel.model = normal.model

HeadersValid(kernel, normal) ==
    /\ kernel # NoPart => kernel.kind = "Kernel"
    /\ normal # NoPart => normal.kind = "Normal"
    /\ NoPart \notin {kernel, normal} => HeadersAgree(kernel, normal)

Complete(pair) == pair.normal.whole /\ (pair.kernel # NoPart => pair.kernel.whole)

(* The checks of a file before anything is read from the drive.            *)
ExecutePlan(file) ==
    {pair \in Classified(file) : HeadersValid(pair.kernel, pair.normal) /\ Complete(pair)}

Garbage == [name |-> "garbage", zero |-> FALSE, family |-> Unknown, settings |-> Unknown]

(* The body that a Kernel makes of a Normal.                               *)
Decoded(normal, kernel) ==
    IF kernel = NoPart \/ kernel.codec = normal.codec THEN normal.body ELSE Garbage

-----------------------------------------------------------------------------
(* Preparing a Normal for the Kernel that receives it.  Each returns the   *)
(* transfers it can make: one, or none.                                    *)

(* A copy signed by a key of ours, in the format the Kernel checks.        *)
SignedFor(kernel, normal) ==
    {[normal EXCEPT !.sign = format] : format \in {kernel.auth} \ {Unknown}}

\* A mutant: what the Kernel makes of the file is not summed.
PreparedUnsummed(kernel, source, normal) ==
    IF ~normal.whole THEN {}
    ELSE IF Decoded(normal, kernel) = source /\ normal.sign = kernel.auth THEN {normal}
    ELSE SignedFor(kernel, normal)

(* A transfer with a body that sums to zero stays as it is where it can;   *)
(* an unsigned one is signed, one signed in another format is encoded anew.*)
Prepared(kernel, source, normal) ==
    IF ~(source.zero /\ normal.whole) THEN {}
    ELSE IF Decoded(normal, kernel) = source /\ normal.sign = kernel.auth THEN {normal}
    ELSE IF Decoded(normal, kernel) = source /\ normal.sign = Unsigned
         THEN SignedFor(kernel, normal)
    ELSE IF normal.sign \in {"key", "cipher", Unsigned} /\ normal.seed
         THEN SignedFor(kernel, [normal EXCEPT !.codec = kernel.codec, !.body = source])
    ELSE {}

(* Everything the library asks of a pair but the signature.                *)
Sound(kernel, normal) ==
    /\ HeadersValid(kernel, normal) /\ kernel.whole /\ normal.whole
    /\ Decoded(normal, kernel).zero

LoadPair(kernel, normal) ==
    IF ~Sound(kernel, normal) THEN {}
    ELSE IF normal.sign = kernel.auth THEN {normal}
    ELSE IF normal.sign = Unsigned THEN SignedFor(kernel, normal)
    ELSE {}

Paired(kernel, normal) ==
    {transfer \in UNION {Prepared(kernel, Decoded(loaded, kernel), loaded) :
                             loaded \in LoadPair(kernel, normal)} :
        LoadPair(kernel, transfer) = {transfer}}

-----------------------------------------------------------------------------
(* The receiver of an installed pair, as the library detects it.           *)
Detected(pair) ==
    /\ pair.normal # NoPart
    /\ pair.kernel # NoPart => pair.kernel.whole
    /\ Decoded(pair.normal, pair.kernel) # Garbage

InstalledBody(pair) == Decoded(pair.normal, pair.kernel)

RequiresHardware(pair) == \E rule \in Rules : rule.from = InstalledBody(pair).settings

(* The conversion of the settings: none where they stay as they are; one   *)
(* without evidence of the original hardware is refused as conditional.    *)
Conversion(from, to, hardware) ==
    IF from = to THEN [issue |-> "none", needs |-> {}]
    ELSE IF ~\E rule \in Rules : rule.from = from /\ rule.to = to
         THEN [issue |-> "Preparation", needs |-> {}]
    ELSE IF hardware = Unbound THEN [issue |-> "Conditional", needs |-> {}]
    ELSE IF [from |-> from, to |-> to, hardware |-> hardware] \in Rules
         THEN [issue |-> "none", needs |-> {hardware}]
    ELSE [issue |-> "Preparation", needs |-> {}]

(* Who programs the target: the installed Kernel itself, or a bridge.      *)
Handoff(from, to) ==
    IF Unknown \in {from.programmer, to.programmer} THEN "Preparation"
    ELSE IF from.programmer = to.programmer \/ <<from.programmer, to.programmer>> \in Bridges
         THEN "none" ELSE "SoftNo"

(* What a receiver makes of a target body: `kernel` is NoPart for a        *)
(* Normal-only update, which keeps the installed Kernel.                   *)
Receive(pair, hardware, kernel, body, bypass) ==
    IF ~bypass /\ (Unknown \in {InstalledBody(pair).family, body.family})
    THEN [issue |-> "Preparation", needs |-> {}]
    ELSE IF ~bypass /\ InstalledBody(pair).family # body.family
    THEN [issue |-> "HardwareMismatch", needs |-> {}]
    ELSE IF kernel # NoPart /\ Handoff(pair.kernel, kernel) # "none"
    THEN [issue |-> Handoff(pair.kernel, kernel), needs |-> {}]
    ELSE Conversion(InstalledBody(pair).settings, body.settings, hardware)

(* Older Kernels carry a marker that newer receivers reject; the library   *)
(* passes those, and programmers it must bridge, with a temporary stage.   *)
Temporary(from, to) ==
    {kind \in {"marker", "handoff"} :
        \/ /\ kind = "marker" /\ from.finalizer = "rejects"
           /\ to.marker \in {"zero", "erased"}
        \/ kind = "handoff" /\ from.programmer # to.programmer}

(* What the user is told of the stages of a plan.                          *)
BridgeWarnings(from, to) ==
    IF Temporary(from, to) = {"marker"} THEN {"downgrade"} ELSE Temporary(from, to)

-----------------------------------------------------------------------------
FamilyGate(installed, target) == installed # Unknown /\ installed = target

(* The facts of the installed pair, if its Normal says what it is for, and *)
(* of the target.                                                          *)
InstalledFacts(pair) ==
    {[sat |-> normal.sat, tag |-> normal.tag, family |-> InstalledBody(pair).family] :
        normal \in {n \in {pair.normal} : n.sat # NoField}}

TargetFacts(kernel, normal, body) ==
    [sat |-> IF kernel # NoPart /\ kernel.sat # NoField THEN kernel.sat ELSE normal.sat,
     tag |-> normal.tag, family |-> body.family, paired |-> kernel # NoPart]

(* Whether there is a route: within the family and, without a Kernel, only *)
(* for the model and the tag of the installed Normal.                      *)
DecideFlashPlan(installed, target) ==
    /\ FamilyGate(installed.family, target.family)
    /\ ~target.paired =>
          target.sat = installed.sat /\ target.tag = installed.tag /\ target.tag # NoField

PlanFor(pair, target) ==
    \E installed \in InstalledFacts(pair) : DecideFlashPlan(installed, target)

(* The Kernel that comes along must be one whose decoding is understood,   *)
(* unless it is the installed one.                                         *)
CheckLoadedReceiver(pair, kernel) ==
    kernel = NoPart \/ kernel = pair.kernel \/ kernel.recognized

(* The gates after the preparation, in their order: `received` is what the *)
(* receiver made of it, and a refusal that an adapter could lift waits for *)
(* those that nothing can.                                                 *)
Gates(pair, kernel, normal, transfer, received) ==
    LET target == TargetFacts(kernel, normal, transfer.body)
    IN IF received.issue \notin {"none", "SoftNo", "Conditional"} THEN RefusedFor(received.issue)
       ELSE IF ~CheckLoadedReceiver(pair, kernel) \/ ~PlanFor(pair, target)
       THEN RefusedFor("Routing")
       ELSE IF received.issue # "none" THEN RefusedFor(received.issue)
       ELSE IF kernel = NoPart THEN Granted(pair.kernel, transfer, FALSE, {}, received.needs)
       ELSE Granted(kernel, transfer, TRUE, BridgeWarnings(pair.kernel, kernel), received.needs)

(* Kernel and Normal: the Normal is for the Kernel that comes with it.     *)
AuthorizePair(pair, hardware, kernel, normal) ==
    IF Paired(kernel, normal) = {} THEN RefusedFor("FirmwareInvalid")
    ELSE IF kernel.sat = NoField /\ normal.sat = NoField THEN RefusedFor("Preparation")
    ELSE Gates(pair, kernel, normal, CHOOSE t \in Paired(kernel, normal) : TRUE,
               Receive(pair, hardware, kernel, normal.body, FALSE))

(* A Normal alone is for the installed Kernel: the two must be a pair.     *)
AuthorizeNormal(pair, hardware, normal) ==
    LET source == Decoded(normal, pair.kernel)
        transfers == Prepared(pair.kernel, source, normal)
    IN IF pair.kernel = NoPart \/ ~HeadersValid(pair.kernel, normal)
       THEN RefusedFor("InstalledFirmwareMismatch")
       ELSE IF transfers = {} \/ normal.sat = NoField THEN RefusedFor("Preparation")
       ELSE Gates(pair, NoPart, normal, CHOOSE t \in transfers : TRUE,
                  Receive(pair, hardware, NoPart, source, FALSE))

(* The gates on the installed pair, which a backup or a file shows; the    *)
(* hardware is looked at only where the receiver asks for it.              *)
Authorize(plan, pair, hardware) ==
    LET bound == IF RequiresHardware(pair) THEN hardware ELSE Unbound
    IN IF ~Detected(pair) THEN RefusedFor("CurrentInvalid")
       ELSE IF plan.kernel = NoPart THEN AuthorizeNormal(pair, bound, plan.normal)
       ELSE AuthorizePair(pair, bound, plan.kernel, plan.normal)

(* What is overwritten must be in the backup, an archive.                  *)
VerifyCoverage(file, plan) ==
    /\ ~file.bare /\ OfOneProduct(file.members)
    /\ plan.kernel # NoPart => Of("Kernel", file.members) # NoPart

-----------------------------------------------------------------------------
(* The catalogue: what crossflash.rs says of a file on a drive that holds  *)
(* the firmware of another file, with nothing but the two files.           *)

(* One route for each hardware that a receiver could be on.                *)
RouteIn(hardware, verdict) ==
    IF verdict.issue = "none"
    THEN {[status |-> IF verdict.needs = {} THEN "Yes" ELSE "Conditional",
           needs |-> verdict.needs]}
    ELSE IF verdict.issue = "SoftNo"
    THEN {[status |-> "SoftNo", needs |-> {hardware} \ {Unbound}]}
    ELSE {}

Contexts(pair) ==
    IF RequiresHardware(pair) THEN {rule.hardware : rule \in Rules} ELSE {Unbound}

OfflineRoutes(installed, target) ==
    UNION {IF VerifyCoverage(installed, at[1])
           THEN UNION {RouteIn(h, Authorize(at[1], at[2], h)) : h \in Contexts(at[2])}
           ELSE {} : at \in ExecutePlan(target) \X Classified(installed)}

(* What decides without the gates that a pair is never admitted.           *)
Prefilter(file) ==
    LET of(pair) ==
            [family |-> IF pair.kernel = NoPart THEN Unknown ELSE InstalledBody(pair).family,
             model |-> pair.normal.sat, normalOnly |-> pair.kernel = NoPart]
    IN IF Classified(file) = {}
       THEN [family |-> Unknown, model |-> NoField, normalOnly |-> FALSE]
       ELSE of(CHOOSE pair \in Classified(file) : TRUE)

MayAdmit(installed, target) ==
    IF target.normalOnly THEN installed.model # NoField /\ installed.model = target.model
    ELSE FamilyGate(installed.family, target.family)

(* The best of the routes is how the pair is listed.                       *)
BestOf(routes) ==
    CHOOSE s \in {"Yes", "Conditional", "SoftNo", "HardNo"} :
        \/ s = "Yes" /\ \E r \in routes : r.status = "Yes"
        \/ s = "Conditional" /\ {r.status : r \in routes} \cap {"Yes", s} = {s}
        \/ s = "SoftNo" /\ {r.status : r \in routes} = {s}
        \/ s = "HardNo" /\ routes = {}

Listed(installed, target) ==
    IF ~MayAdmit(Prefilter(installed), Prefilter(target))
    THEN [status |-> "HardNo", routes |-> {}]
    ELSE [status |-> BestOf(OfflineRoutes(installed, target)),
          routes |-> OfflineRoutes(installed, target)]

-----------------------------------------------------------------------------
VARIABLES
    unit,       \* the drive
    firmware,   \* the selected file
    gate,       \* how far its admission has come
    listing,    \* what the catalogue says of it
    parts,      \* the components to send
    basis,      \* the pair that a backup, a capture or a reference shows
    bypassed,   \* the family check of a recovery is bypassed
    verdict     \* what was decided

planVars == <<unit, firmware, gate, listing, parts, basis, bypassed, verdict>>

NoPair == [kernel |-> NoPart, normal |-> NoPart]

PlanInit ==
    /\ unit \in PlanDrives /\ firmware \in Packages
    /\ gate = "chosen" /\ listing = [status |-> "none", routes |-> {}]
    /\ parts = NoPair /\ basis = NoPair /\ bypassed = FALSE
    /\ verdict = RefusedFor("none")

PackageOf(drive) == [bare |-> FALSE, members |-> {drive.pair.kernel, drive.pair.normal}]

(* What reads of a drive give: both components, or a Kernel alone, or none.*)
(* A Normal that the OEM catalogue does not know is unsigned.              *)
Captures == {{"Kernel", "Normal"}, {"Kernel"}, {}}
Captured(drive, kinds) ==
    [bare |-> FALSE,
     members |-> {m \in {drive.pair.kernel, [drive.pair.normal EXCEPT !.sign = Unsigned]} :
                     m.kind \in kinds}]

(* Before: what the catalogue, made without the drive, says of it.         *)
List ==
    /\ gate = "chosen"
    /\ listing' = Listed(PackageOf(unit), firmware)
    /\ gate' = "listed"
    /\ UNCHANGED <<unit, firmware, parts, basis, bypassed, verdict>>

Refuse(issue) ==
    /\ verdict' = RefusedFor(issue) /\ gate' = "refused"
    /\ UNCHANGED <<unit, firmware, listing, parts, basis, bypassed>>

Decide(decision) ==
    /\ verdict' = decision
    /\ gate' = IF decision.issue = "none" THEN "admitted" ELSE "refused"
    /\ UNCHANGED <<unit, firmware, listing>>

PlanFlash ==
    /\ gate = "listed"
    /\ \/ ExecutePlan(firmware) = {} /\ Refuse("FirmwareInvalid")
       \/ \E plan \in ExecutePlan(firmware) :
             /\ parts' = plan /\ gate' = "planned"
             /\ UNCHANGED <<unit, firmware, listing, basis, bypassed, verdict>>

(* The capture before the flash, which may fail in part or altogether.     *)
SaveBackup(kinds) ==
    /\ gate = "planned"
    /\ \/ ~VerifyCoverage(Captured(unit, kinds), parts) /\ Refuse("BackupRequired")
       \/ /\ VerifyCoverage(Captured(unit, kinds), parts)
          /\ basis' \in Classified(Captured(unit, kinds)) /\ gate' = "saved"
          /\ UNCHANGED <<unit, firmware, listing, parts, bypassed, verdict>>

AuthorizeFlash ==
    /\ gate = "saved"
    /\ Decide(Authorize(parts, basis, unit.hardware))
    /\ UNCHANGED <<parts, basis, bypassed>>

(* A Current reference is a complete pair that shows its receiver.         *)
LoadCurrent(file) ==
    {pair \in Classified(file) : pair.kernel # NoPart /\ Detected(pair)}

Targets(pair) ==
    pair.normal.sat = unit.pair.normal.sat /\ pair.normal.model = unit.pair.normal.model

(* A running drive identifies itself; a loader needs a reference.          *)
IdentifyDrive(references) ==
    /\ gate = "chosen"
    /\ \/ references # {} /\ UNION {LoadCurrent(file) : file \in references} = {}
          /\ Refuse("CurrentInvalid")
       \/ /\ \/ unit.state = "foreign"
             \/ unit.state = "running" /\ \E f \in references : \E p \in LoadCurrent(f) : ~Targets(p)
          /\ Refuse("NotAReceiver")
       \/ references = {} /\ unit.state = "loader" /\ Refuse("CurrentRequired")
       \/ /\ unit.state # "foreign"
          /\ \/ references = {} /\ unit.state = "running" /\ basis' = basis
             \/ \E file \in references : \E pair \in LoadCurrent(file) :
                   (unit.state = "running" => Targets(pair)) /\ basis' = pair
          /\ gate' = "identified"
          /\ UNCHANGED <<unit, firmware, listing, parts, bypassed, verdict>>

(* Recovery takes complete pairs only.                                     *)
LoadTarget(file) ==
    {pair \in Classified(file) :
        NoPart \notin {pair.kernel, pair.normal} /\ Paired(pair.kernel, pair.normal) # {}}

TargetInvalid ==
    gate = "identified" /\ LoadTarget(firmware) = {} /\ Refuse("FirmwareInvalid")

(* Without a reference the drive is read: a partial capture shows nothing. *)
CurrentEvidence(kinds) ==
    IF basis # NoPair THEN {basis} ELSE LoadCurrent(Captured(unit, kinds))

CaptureInvalid(kinds) ==
    /\ gate = "identified" /\ LoadTarget(firmware) # {}
    /\ CurrentEvidence(kinds) = {} /\ Refuse("CurrentRequired")

Bind(pair, target, transfer, received) ==
    IF received.issue # "none" THEN RefusedFor(received.issue)
    ELSE Granted(target.kernel, transfer, TRUE, BridgeWarnings(pair.kernel, target.kernel),
                 received.needs)

PrepareRecoveryPlan(kinds, bypass) ==
    /\ gate = "identified"
    /\ \E target \in LoadTarget(firmware), pair \in CurrentEvidence(kinds) :
          /\ \E transfer \in Paired(target.kernel, target.normal) :
                Decide(Bind(pair, target, transfer,
                            Receive(pair,
                                    IF RequiresHardware(pair) THEN unit.hardware ELSE Unbound,
                                    target.kernel, transfer.body, bypass)))
          /\ parts' = target /\ basis' = pair /\ bypassed' = bypass

PlanNext ==
    \/ List \/ PlanFlash \/ AuthorizeFlash \/ TargetInvalid
    \/ \E kinds \in Captures :
          \/ SaveBackup(kinds) \/ CaptureInvalid(kinds)
          \/ \E bypass \in BOOLEAN : PrepareRecoveryPlan(kinds, bypass)
    \/ \E references \in {{}} \cup {{file} : file \in References} : IdentifyDrive(references)

PlanSpec == PlanInit /\ [][PlanNext]_planVars

-----------------------------------------------------------------------------
Flashes == listing.status # "none"

(* What is admitted fits.  The Kernel that will receive the transfer finds *)
(* it signed in its format and makes of it the body of the file, which     *)
(* sums to zero; that Kernel is the one that comes along, or the one in    *)
(* the drive; Kernel and Normal will agree at boot; the family stays, and  *)
(* settings are converted only for the hardware that the drive has; a      *)
(* flash overwrites nothing without a backup; and every temporary stage    *)
(* was announced.  Code behaviour: authorize_installed_context,            *)
(* normal_prepare.rs and Plan::assemble_policy.                            *)
AdmittedFits ==
    gate = "admitted" =>
        LET kernel == verdict.kernel
            normal == verdict.normal
        IN /\ Decoded(normal, kernel).zero /\ normal.sign = kernel.auth
           /\ \E m \in firmware.members : m.kind = "Normal" /\ m.body = normal.body
           /\ IF verdict.paired THEN kernel \in firmware.members ELSE kernel = unit.pair.kernel
           /\ HeadersAgree(kernel, normal)
           /\ ~bypassed => normal.body.family = InstalledBody(basis).family
           /\ Flashes => normal.body.family = unit.pair.normal.body.family
           /\ normal.body.settings # InstalledBody(basis).settings => verdict.needs = {unit.hardware}
           /\ Flashes => basis.normal # NoPart /\ (verdict.paired => basis.kernel # NoPart)
           /\ verdict.told # {} <=> verdict.paired /\ Temporary(basis.kernel, kernel) # {}

(* A refusal says what is wrong: the file is called invalid only if no     *)
(* drive could take it, a mismatch with the drive is one of sound files,   *)
(* foreign hardware is of another family, and what waits for an adapter    *)
(* has nothing else against it.  Code behaviour: the order of the checks   *)
(* in authorize_installed_context and RecoveryFacet::prepare.              *)
RefusalIsTold ==
    gate = "refused" =>
        /\ verdict.issue = "FirmwareInvalid" =>
              IF Flashes
              THEN \A d \in PlanDrives : \A plan \in ExecutePlan(firmware) :
                      Authorize(plan, d.pair, d.hardware).issue # "none"
              ELSE LoadTarget(firmware) = {}
        /\ verdict.issue = "InstalledFirmwareMismatch" =>
              /\ parts.kernel = NoPart /\ HeadersValid(NoPart, parts.normal)
              /\ ~HeadersAgree(unit.pair.kernel, parts.normal)
        /\ verdict.issue = "HardwareMismatch" =>
              InstalledBody(basis).family # Unknown
        /\ verdict.issue = "SoftNo" /\ Flashes =>
              /\ FamilyGate(InstalledBody(basis).family, parts.normal.body.family)
              /\ parts.kernel.recognized \/ parts.kernel = unit.pair.kernel

(* The catalogue keeps its word on a drive that holds the firmware of the  *)
(* file it was asked about, once that is backed up: what it lists is       *)
(* admitted on the hardware it lists it for, what it does not list is not, *)
(* and what only an adapter keeps out is refused for that alone.  Code     *)
(* behaviour: classified_routes of crossflash.rs, whose pre-filter is to   *)
(* be exact, beside authorize.                                             *)
CatalogueAgrees ==
    Flashes /\ gate \in {"admitted", "refused"} /\ verdict.issue # "BackupRequired" =>
        /\ listing.status = "Yes" => gate = "admitted"
        /\ listing.status = "Conditional" =>
              (gate = "admitted" <=> \E r \in listing.routes :
                                        r.status = "Conditional" /\ r.needs = {unit.hardware})
        /\ listing.status = "SoftNo" => verdict.issue = "SoftNo"
        /\ listing.status = "HardNo" => gate = "refused" /\ verdict.issue # "SoftNo"

(* The three together: admission is right.                                 *)
AdmissionIsRight == AdmittedFits /\ RefusalIsTold /\ CatalogueAgrees
=============================================================================
