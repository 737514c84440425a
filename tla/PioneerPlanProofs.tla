-------------------------- MODULE PioneerPlanProofs --------------------------
(***************************************************************************)
(* What is admitted to a Pioneer drive fits it, for any packages, drives,  *)
(* conversions and bridges.                                                *)
(***************************************************************************)
EXTENDS PioneerPlan, FiniteSetTheorems, TLAPS

(* A transfer is right for its Kernel: sound, signed and still that file's. *)
Fits(kernel, normal, transfer) ==
    /\ transfer \in Normals
    /\ Decoded(transfer, kernel).zero /\ transfer.sign = kernel.auth
    /\ transfer.body = normal.body
    /\ HeadersAgree(kernel, transfer)

(* What each gate of a flash hands to the next: the plan is of the file, the *)
(* backup is of the drive and covers the plan; and nothing is bypassed.      *)
PlanInv ==
    /\ unit \in PlanDrives /\ firmware \in Packages
    /\ gate \in {"chosen", "identified"} => ~Flashes
    /\ gate \in {"chosen", "listed", "planned", "saved"} => ~bypassed
    /\ gate \in {"planned", "saved"} => parts \in ExecutePlan(firmware)
    /\ gate = "saved" =>
          \E kinds \in Captures :
             /\ basis \in Classified(Captured(unit, kinds))
             /\ VerifyCoverage(Captured(unit, kinds), parts)
    /\ AdmittedFits

(* The gates that a decision has passed for a pair that shows the drive.   *)
Passed(pair, hardware, decision) ==
    /\ decision.normal.body.settings # InstalledBody(pair).settings =>
          decision.needs = {hardware} /\ hardware # Unbound
    /\ decision.told # {} <=>
          decision.paired /\ Temporary(pair.kernel, decision.kernel) # {}

-----------------------------------------------------------------------------
\* What a Kernel decodes is the body of the file, or it does not sum to zero.
LEMMA SoundIsDecoded ==
    ASSUME NEW kernel, NEW normal, Decoded(normal, kernel).zero
    PROVE  Decoded(normal, kernel) = normal.body
  BY DEF Decoded, Garbage

\* Preparation (normal_prepare.rs: prepare) keeps what the headers say, and sends
\* the source body in the Kernel's encoding with the Kernel's signature.
LEMMA PreparedKeeps ==
    ASSUME NEW kernel \in Kernels, NEW normal \in Normals,
           NEW transfer \in Prepared(kernel, Decoded(normal, kernel), normal)
    PROVE  /\ transfer \in Normals
           /\ Decoded(transfer, kernel).zero /\ transfer.sign = kernel.auth
           /\ transfer.body = normal.body
           /\ transfer.sat = normal.sat /\ transfer.tag = normal.tag
           /\ transfer.model = normal.model
<1>0. kernel # NoPart /\ kernel.auth \in STRING /\ kernel.codec \in STRING
  BY ComponentAssumption DEF Kernels
<1>1. Decoded(normal, kernel).zero
  BY DEF Prepared
<1>2. Decoded(normal, kernel) = normal.body
  BY <1>1, SoundIsDecoded
<1>3. normal.body.zero
  BY <1>1, <1>2
<1>4. CASE transfer = normal /\ normal.sign = kernel.auth
  BY <1>1, <1>2, <1>4
<1>5. CASE transfer \in SignedFor(kernel, normal)
  <2>1. transfer = [normal EXCEPT !.sign = kernel.auth]
    BY <1>5 DEF SignedFor
  <2>2. transfer \in Normals /\ transfer.codec = normal.codec /\ transfer.body = normal.body
        /\ transfer.sign = kernel.auth /\ transfer.sat = normal.sat
        /\ transfer.tag = normal.tag /\ transfer.model = normal.model
    BY <2>1, <1>0 DEF Normals
  <2>3. Decoded(transfer, kernel) = Decoded(normal, kernel)
    BY <2>2 DEF Decoded
  <2> QED BY <1>1, <2>2, <2>3
<1>6. CASE transfer \in SignedFor(kernel, [normal EXCEPT !.codec = kernel.codec,
                                                         !.body = Decoded(normal, kernel)])
  <2> DEFINE anew == [normal EXCEPT !.codec = kernel.codec, !.body = normal.body]
  <2>1. transfer = [anew EXCEPT !.sign = kernel.auth]
    BY <1>6, <1>2 DEF SignedFor
  <2>2. anew \in Normals /\ anew.codec = kernel.codec /\ anew.body = normal.body
        /\ anew.sat = normal.sat /\ anew.tag = normal.tag /\ anew.model = normal.model
    BY <1>0 DEF Normals
  <2> HIDE DEF anew
  <2>3. transfer \in Normals /\ transfer.codec = kernel.codec /\ transfer.body = normal.body
        /\ transfer.sign = kernel.auth /\ transfer.sat = normal.sat
        /\ transfer.tag = normal.tag /\ transfer.model = normal.model
    BY <2>1, <2>2, <1>0 DEF Normals
  <2>4. Decoded(transfer, kernel) = normal.body
    BY <2>3 DEF Decoded
  <2> QED BY <1>3, <2>3, <2>4
<1> QED BY <1>1, <1>4, <1>5, <1>6 DEF Prepared

\* Loading a pair (normal_prepare.rs: load_pair) leaves a Normal that is sound for
\* the Kernel, with the body and the headers of the file.
LEMMA LoadedKeeps ==
    ASSUME NEW kernel \in Kernels, NEW normal \in Normals, NEW loaded \in LoadPair(kernel, normal)
    PROVE  /\ loaded \in Normals /\ HeadersAgree(kernel, normal)
           /\ loaded.body = normal.body
           /\ loaded.sat = normal.sat /\ loaded.tag = normal.tag /\ loaded.model = normal.model
<1>1. HeadersAgree(kernel, normal)
  BY ComponentAssumption DEF LoadPair, Sound, HeadersValid
<1>2. loaded = normal \/ loaded = [normal EXCEPT !.sign = kernel.auth]
  BY DEF LoadPair, SignedFor
<1> QED BY <1>1, <1>2 DEF Normals, Kernels

\* A pair that pairs (normal_prepare.rs: pair) gives a transfer that fits.
LEMMA PairedFits ==
    ASSUME NEW kernel \in Kernels, NEW normal \in Normals, NEW transfer \in Paired(kernel, normal)
    PROVE  Fits(kernel, normal, transfer)
<1>1. PICK loaded \in LoadPair(kernel, normal) :
          transfer \in Prepared(kernel, Decoded(loaded, kernel), loaded)
  BY DEF Paired
<1>2. loaded \in Normals /\ HeadersAgree(kernel, normal) /\ loaded.body = normal.body
      /\ loaded.sat = normal.sat /\ loaded.tag = normal.tag /\ loaded.model = normal.model
  BY <1>1, LoadedKeeps
<1>3. /\ transfer \in Normals
      /\ Decoded(transfer, kernel).zero /\ transfer.sign = kernel.auth
      /\ transfer.body = loaded.body
      /\ transfer.sat = loaded.sat /\ transfer.tag = loaded.tag /\ transfer.model = loaded.model
  BY <1>1, <1>2, PreparedKeeps
<1> QED BY <1>2, <1>3 DEF Fits, HeadersAgree

\* Settings are converted for the hardware the receiver was shown, if at all.
LEMMA ConvertedFits ==
    ASSUME NEW from, NEW to, NEW hardware, NEW received,
           received = Conversion(from, to, hardware), received.issue = "none"
    PROVE  from # to => received.needs = {hardware} /\ hardware # Unbound
<1> SUFFICES ASSUME from # to PROVE received.needs = {hardware} /\ hardware # Unbound
  OBVIOUS
<1>1. received = IF ~\E rule \in Rules : rule.from = from /\ rule.to = to
                 THEN [issue |-> "Preparation", needs |-> {}]
                 ELSE IF hardware = Unbound THEN [issue |-> "Conditional", needs |-> {}]
                 ELSE IF [from |-> from, to |-> to, hardware |-> hardware] \in Rules
                 THEN [issue |-> "none", needs |-> {hardware}]
                 ELSE [issue |-> "Preparation", needs |-> {}]
  BY DEF Conversion
<1> QED BY <1>1

\* The user is told of stages exactly where there are some (mod.rs: bridge_warnings).
LEMMA StagesAreTold ==
    ASSUME NEW from, NEW to
    PROVE  BridgeWarnings(from, to) # {} <=> Temporary(from, to) # {}
  BY DEF BridgeWarnings

-----------------------------------------------------------------------------
\* The gates (mod.rs: authorize_installed_context) grant nothing but what the
\* receiver took, for the Kernel they were asked about.
LEMMA GatesPass ==
    ASSUME NEW pair, NEW kernel, NEW normal, NEW transfer, NEW received, NEW decision,
           decision = Gates(pair, kernel, normal, transfer, received), decision.issue = "none"
    PROVE  /\ received.issue = "none" /\ decision.needs = received.needs
           /\ decision.normal = transfer
           /\ decision.kernel = IF kernel = NoPart THEN pair.kernel ELSE kernel
           /\ decision.paired <=> kernel # NoPart
           /\ decision.told # {} <=>
                 decision.paired /\ Temporary(pair.kernel, decision.kernel) # {}
<1>1. /\ received.issue = "none"
      /\ decision = IF kernel = NoPart
                    THEN Granted(pair.kernel, transfer, FALSE, {}, received.needs)
                    ELSE Granted(kernel, transfer, TRUE, BridgeWarnings(pair.kernel, kernel),
                                 received.needs)
  BY DEF Gates, RefusedFor, Granted
<1>2. CASE kernel = NoPart
  <2>1. decision = Granted(pair.kernel, transfer, FALSE, {}, received.needs)
    BY <1>1, <1>2
  <2> QED BY <1>1, <1>2, <2>1 DEF Granted
<1>3. CASE kernel # NoPart
  <2>1. decision = Granted(kernel, transfer, TRUE, BridgeWarnings(pair.kernel, kernel),
                           received.needs)
    BY <1>1, <1>3
  <2> QED BY <1>1, <1>3, <2>1, StagesAreTold DEF Granted
<1> QED BY <1>2, <1>3

\* A pair is admitted for its own Kernel (authorize_installed_context).
LEMMA PairFits ==
    ASSUME NEW pair, NEW hardware, NEW kernel \in Kernels, NEW normal \in Normals, NEW decision,
           decision = AuthorizePair(pair, hardware, kernel, normal), decision.issue = "none"
    PROVE  /\ Fits(kernel, normal, decision.normal)
           /\ decision.paired /\ decision.kernel = kernel
           /\ decision.normal.body.family = InstalledBody(pair).family
           /\ Passed(pair, hardware, decision)
<1> DEFINE transfer == CHOOSE t \in Paired(kernel, normal) : TRUE
<1>1. /\ transfer \in Paired(kernel, normal)
      /\ decision = Gates(pair, kernel, normal, transfer,
                          Receive(pair, hardware, kernel, normal.body, FALSE))
  <2>1. Paired(kernel, normal) # {}
    BY DEF AuthorizePair, RefusedFor
  <2> QED BY <2>1 DEF AuthorizePair, RefusedFor
<1>2. Fits(kernel, normal, transfer)
  BY <1>1, PairedFits
<1> HIDE DEF transfer
<1>3. transfer.body = normal.body /\ kernel # NoPart
  BY <1>2, ComponentAssumption DEF Fits
<1>4. PICK received : received = Receive(pair, hardware, kernel, normal.body, FALSE)
  OBVIOUS
<1>5. decision = Gates(pair, kernel, normal, transfer, received)
  BY <1>1, <1>4
<1>6. /\ received.issue = "none" /\ decision.needs = received.needs
      /\ decision.normal = transfer /\ decision.kernel = kernel /\ decision.paired
      /\ decision.told # {} <=> decision.paired /\ Temporary(pair.kernel, decision.kernel) # {}
  BY <1>3, <1>5, GatesPass
<1>7. /\ InstalledBody(pair).family = normal.body.family
      /\ received = Conversion(InstalledBody(pair).settings, normal.body.settings, hardware)
  BY <1>4, <1>6 DEF Receive
<1>8. normal.body.settings # InstalledBody(pair).settings =>
          received.needs = {hardware} /\ hardware # Unbound
  BY <1>6, <1>7, ConvertedFits
<1> QED BY <1>2, <1>3, <1>6, <1>7, <1>8 DEF Passed

\* A Normal alone is admitted for the installed Kernel (authorize_installed_context).
LEMMA NormalFits ==
    ASSUME NEW pair, NEW hardware, NEW normal \in Normals, NEW decision,
           pair.kernel \in Kernels \cup {NoPart},
           decision = AuthorizeNormal(pair, hardware, normal), decision.issue = "none"
    PROVE  /\ Fits(pair.kernel, normal, decision.normal)
           /\ ~decision.paired /\ decision.kernel = pair.kernel /\ pair.kernel # NoPart
           /\ decision.normal.body.family = InstalledBody(pair).family
           /\ Passed(pair, hardware, decision)
<1> DEFINE transfers == Prepared(pair.kernel, Decoded(normal, pair.kernel), normal)
           transfer == CHOOSE t \in transfers : TRUE
<1>1. /\ pair.kernel # NoPart /\ HeadersValid(pair.kernel, normal) /\ transfers # {}
      /\ decision = Gates(pair, NoPart, normal, transfer,
                          Receive(pair, hardware, NoPart, Decoded(normal, pair.kernel), FALSE))
  BY DEF AuthorizeNormal, RefusedFor
<1>2. pair.kernel \in Kernels /\ transfer \in transfers
  BY <1>1
<1>3. HeadersAgree(pair.kernel, normal)
  BY <1>1, ComponentAssumption DEF HeadersValid
<1> HIDE DEF transfer
<1>4. /\ transfer \in Normals
      /\ Decoded(transfer, pair.kernel).zero /\ transfer.sign = pair.kernel.auth
      /\ transfer.body = normal.body
      /\ transfer.sat = normal.sat /\ transfer.tag = normal.tag /\ transfer.model = normal.model
  BY <1>2, PreparedKeeps
<1>5. Decoded(normal, pair.kernel) = transfer.body
  <2>1. Decoded(normal, pair.kernel).zero
    BY <1>2 DEF Prepared
  <2> QED BY <2>1, <1>4, SoundIsDecoded
<1>6. Fits(pair.kernel, normal, transfer)
  BY <1>3, <1>4 DEF Fits, HeadersAgree
<1>7. PICK received : received = Receive(pair, hardware, NoPart, transfer.body, FALSE)
  OBVIOUS
<1>8. decision = Gates(pair, NoPart, normal, transfer, received)
  BY <1>1, <1>5, <1>7
<1>9. /\ received.issue = "none" /\ decision.needs = received.needs
      /\ decision.normal = transfer /\ decision.kernel = pair.kernel /\ ~decision.paired
      /\ decision.told # {} <=> decision.paired /\ Temporary(pair.kernel, decision.kernel) # {}
  BY <1>8, GatesPass
<1>10. /\ InstalledBody(pair).family = transfer.body.family
       /\ received = Conversion(InstalledBody(pair).settings, transfer.body.settings, hardware)
  BY <1>7, <1>9 DEF Receive
<1>11. transfer.body.settings # InstalledBody(pair).settings =>
           received.needs = {hardware} /\ hardware # Unbound
  BY <1>9, <1>10, ConvertedFits
<1> QED BY <1>1, <1>6, <1>9, <1>10, <1>11 DEF Passed

\* The gates on the installed pair let pass what fits that pair (mod.rs:
\* authorize_installed_context).
LEMMA AuthorizedFits ==
    ASSUME NEW plan, plan.kernel \in Kernels \cup {NoPart}, plan.normal \in Normals,
           NEW pair, pair.kernel \in Kernels \cup {NoPart}, NEW hardware,
           NEW decision, decision = Authorize(plan, pair, hardware), decision.issue = "none"
    PROVE  /\ Detected(pair) /\ Fits(decision.kernel, plan.normal, decision.normal)
           /\ decision.paired <=> plan.kernel # NoPart
           /\ decision.kernel = IF plan.kernel = NoPart THEN pair.kernel ELSE plan.kernel
           /\ decision.kernel # NoPart
           /\ decision.normal.body.family = InstalledBody(pair).family
           /\ Passed(pair, hardware, decision)
<1>1. PICK bound :
          /\ bound = IF RequiresHardware(pair) THEN hardware ELSE Unbound
          /\ decision = IF ~Detected(pair) THEN RefusedFor("CurrentInvalid")
                        ELSE IF plan.kernel = NoPart THEN AuthorizeNormal(pair, bound, plan.normal)
                        ELSE AuthorizePair(pair, bound, plan.kernel, plan.normal)
  BY DEF Authorize
<1>2. Detected(pair)
  BY <1>1 DEF RefusedFor
<1>3. Passed(pair, bound, decision) => Passed(pair, hardware, decision)
  BY <1>1 DEF Passed
<1>4. CASE plan.kernel = NoPart
  BY <1>1, <1>2, <1>3, <1>4, NormalFits
<1>5. CASE plan.kernel # NoPart
  BY <1>1, <1>2, <1>3, <1>5, PairFits
<1> QED BY <1>4, <1>5

-----------------------------------------------------------------------------
\* The components of a file are members of it (mod.rs: classify_flash_input).
LEMMA ClassifiedAreMembers ==
    ASSUME NEW file, file.bare \in BOOLEAN, \A m \in file.members : m \in Kernels \cup Normals,
           NEW pair \in Classified(file)
    PROVE  /\ pair.normal \in file.members
           /\ pair.kernel = NoPart \/ pair.kernel \in file.members \cap Kernels
           /\ file.bare => pair.kernel = NoPart
           /\ ~file.bare => pair.normal \in Normals
           /\ ~file.bare => pair = [kernel |-> Of("Kernel", file.members),
                                    normal |-> Of("Normal", file.members)]
<1>1. CASE file.bare
  BY <1>1 DEF Classified
<1>2. CASE ~file.bare
  <2>1. /\ OfOneProduct(file.members)
        /\ pair = [kernel |-> Of("Kernel", file.members), normal |-> Of("Normal", file.members)]
    BY <1>2 DEF Classified
  <2>2. \E m \in file.members : m.kind = "Normal"
    <3> DEFINE found == {m \in file.members : m.kind = "Normal"}
    <3>1. Cardinality(found) = 1
      BY <2>1 DEF OfOneProduct
    <3> HIDE DEF found
    <3>2. found # {}
      BY <3>1, FS_EmptySet
    <3> QED BY <3>2 DEF found
  <2>3. pair.normal \in file.members /\ pair.normal.kind = "Normal"
    BY <2>1, <2>2 DEF Of
  <2>4. pair.kernel = NoPart \/ (pair.kernel \in file.members /\ pair.kernel.kind = "Kernel")
    BY <2>1 DEF Of
  <2>5. pair.normal \in Normals
    BY <2>3 DEF Kernels
  <2>6. pair.kernel = NoPart \/ pair.kernel \in Kernels
    BY <2>4 DEF Normals
  <2> QED BY <1>2, <2>1, <2>3, <2>4, <2>5, <2>6
<1> QED BY <1>1, <1>2

\* A plan is of the components of the file (mod.rs: execute_plan).
LEMMA PlansAreOfTheFile ==
    ASSUME NEW file \in Packages, NEW plan \in ExecutePlan(file)
    PROVE  /\ plan.kernel \in Kernels \cup {NoPart} /\ plan.normal \in Normals \cap file.members
           /\ plan.kernel # NoPart => plan.kernel \in file.members
<1>1. file.bare \in BOOLEAN /\ \A m \in file.members : m \in Kernels \cup Normals
  BY ComponentAssumption
<1>2. /\ plan.normal \in file.members
      /\ plan.kernel = NoPart \/ plan.kernel \in file.members \cap Kernels
  BY <1>1, ClassifiedAreMembers DEF ExecutePlan
<1>3. plan.normal # NoPart
  BY <1>1, <1>2, ComponentAssumption
<1>4. plan.normal.kind = "Normal"
  BY <1>3 DEF ExecutePlan, HeadersValid
<1>5. plan.normal \in Normals
  BY <1>1, <1>2, <1>4 DEF Kernels
<1> QED BY <1>2, <1>5

\* What a backup shows is the Kernel of the drive and its Normal, unsigned
\* (backup.rs: construct_signed_candidate).
LEMMA CapturesShowTheDrive ==
    ASSUME NEW drive \in PlanDrives, NEW kinds, NEW pair \in Classified(Captured(drive, kinds))
    PROVE  /\ pair.kernel \in Kernels \cup {NoPart}
           /\ pair.kernel # NoPart => pair.kernel = drive.pair.kernel
           /\ pair.normal \in Normals /\ pair.normal.body = drive.pair.normal.body
           /\ pair.kernel = Of("Kernel", Captured(drive, kinds).members)
<1> DEFINE file == Captured(drive, kinds)
           unsigned == [drive.pair.normal EXCEPT !.sign = Unsigned]
<1>1. drive.pair.kernel \in Kernels /\ drive.pair.normal \in Normals
  BY ComponentAssumption
<1>2. unsigned \in Normals /\ unsigned.body = drive.pair.normal.body
  <2>1. ASSUME NEW normal \in Normals, NEW copy,
               copy = [normal EXCEPT !.sign = Unsigned]
        PROVE  copy \in Normals /\ copy.body = normal.body
    BY <2>1 DEF Normals
  <2> QED BY <1>1, <2>1
<1>3. file.bare = FALSE /\ file.members \subseteq {drive.pair.kernel, unsigned}
  BY DEF Captured
<1> HIDE DEF file, unsigned
<1>4. /\ pair.normal \in file.members /\ pair.normal \in Normals
      /\ pair.kernel = NoPart \/ pair.kernel \in file.members \cap Kernels
      /\ pair = [kernel |-> Of("Kernel", file.members), normal |-> Of("Normal", file.members)]
  <2>1. file.bare \in BOOLEAN /\ ~file.bare /\ \A m \in file.members : m \in Kernels \cup Normals
    BY <1>1, <1>2, <1>3
  <2>2. pair \in Classified(file)
    BY DEF file
  <2> QED BY <2>1, <2>2, ClassifiedAreMembers
<1>5. \A m \in Kernels : m \notin Normals
  BY DEF Kernels, Normals
<1>6. pair.normal = unsigned
  BY <1>1, <1>3, <1>4, <1>5
<1>7. pair.kernel # NoPart => pair.kernel = drive.pair.kernel
  BY <1>2, <1>3, <1>4, <1>5
<1> QED BY <1>2, <1>4, <1>6, <1>7 DEF file

-----------------------------------------------------------------------------
LEMMA InitialPlan == PlanInit => PlanInv
  BY DEF PlanInit, PlanInv, Flashes, AdmittedFits

\* What authorize admits fits the drive (mod.rs: authorize).
LEMMA AuthorizeKeeps ==
    ASSUME PlanInv, AuthorizeFlash
    PROVE  PlanInv'
<1>1. /\ unit \in PlanDrives /\ firmware \in Packages /\ ~bypassed /\ parts \in ExecutePlan(firmware)
      /\ \E kinds \in Captures :
            /\ basis \in Classified(Captured(unit, kinds))
            /\ VerifyCoverage(Captured(unit, kinds), parts)
  BY DEF PlanInv, AuthorizeFlash
<1>2. /\ verdict' = Authorize(parts, basis, unit.hardware)
      /\ gate' = IF verdict'.issue = "none" THEN "admitted" ELSE "refused"
      /\ unit' = unit /\ firmware' = firmware /\ listing' = listing
      /\ parts' = parts /\ basis' = basis /\ bypassed' = bypassed
  BY DEF AuthorizeFlash, Decide
<1>3. ASSUME gate' = "admitted" PROVE AdmittedFits'
  <2>1. verdict'.issue = "none"
    BY <1>2, <1>3
  <2>2. PICK kinds \in Captures :
            /\ basis \in Classified(Captured(unit, kinds))
            /\ VerifyCoverage(Captured(unit, kinds), parts)
    BY <1>1
  <2>3. /\ parts.kernel \in Kernels \cup {NoPart}
        /\ parts.normal \in Normals \cap firmware.members
        /\ parts.kernel # NoPart => parts.kernel \in firmware.members
    BY <1>1, PlansAreOfTheFile
  <2>4. /\ basis.kernel \in Kernels \cup {NoPart}
        /\ basis.kernel # NoPart => basis.kernel = unit.pair.kernel
        /\ basis.normal \in Normals /\ basis.normal.body = unit.pair.normal.body
        /\ basis.kernel = Of("Kernel", Captured(unit, kinds).members)
    BY <1>1, <2>2, CapturesShowTheDrive
  <2>5. /\ Detected(basis) /\ Fits(verdict'.kernel, parts.normal, verdict'.normal)
        /\ verdict'.paired <=> parts.kernel # NoPart
        /\ verdict'.kernel = IF parts.kernel = NoPart THEN basis.kernel ELSE parts.kernel
        /\ verdict'.kernel # NoPart
        /\ verdict'.normal.body.family = InstalledBody(basis).family
        /\ Passed(basis, unit.hardware, verdict')
    BY <1>2, <2>1, <2>3, <2>4, AuthorizedFits
  <2>6. InstalledBody(basis) = unit.pair.normal.body
    BY <2>4, <2>5 DEF Detected, InstalledBody, Decoded
  <2>7. parts.kernel # NoPart => basis.kernel # NoPart
    BY <2>2, <2>4 DEF VerifyCoverage
  <2>9. parts.normal.kind = "Normal" /\ basis.normal # NoPart
    BY <2>3, <2>4, ComponentAssumption DEF Normals
  <2>10. IF verdict'.paired THEN verdict'.kernel \in firmware.members
                            ELSE verdict'.kernel = unit.pair.kernel
    BY <2>3, <2>4, <2>5
  <2>11. \E m \in firmware.members : m.kind = "Normal" /\ m.body = verdict'.normal.body
    BY <2>3, <2>5, <2>9 DEF Fits
  <2> QED BY <1>1, <1>2, <2>5, <2>6, <2>7, <2>9, <2>10, <2>11
             DEF AdmittedFits, Flashes, Fits, Passed
<1>4. gate' # "admitted" => AdmittedFits'
  BY DEF AdmittedFits
<1> QED BY <1>1, <1>2, <1>3, <1>4 DEF PlanInv

\* What a recovery binds fits the drive that the evidence shows (recovery.rs:
\* assemble_policy).
LEMMA PrepareKeeps ==
    ASSUME NEW kinds, NEW bypass \in BOOLEAN, PlanInv, PrepareRecoveryPlan(kinds, bypass)
    PROVE  PlanInv'
<1>1. unit \in PlanDrives /\ firmware \in Packages /\ ~Flashes
  BY DEF PlanInv, PrepareRecoveryPlan
<1>2. PICK target \in LoadTarget(firmware), pair \in CurrentEvidence(kinds) :
          /\ \E transfer \in Paired(target.kernel, target.normal) :
                Decide(Bind(pair, target, transfer,
                            Receive(pair,
                                    IF RequiresHardware(pair) THEN unit.hardware ELSE Unbound,
                                    target.kernel, transfer.body, bypass)))
          /\ parts' = target /\ basis' = pair /\ bypassed' = bypass
  BY DEF PrepareRecoveryPlan
<1> DEFINE hardware == IF RequiresHardware(pair) THEN unit.hardware ELSE Unbound
           received(transfer) ==
               Receive(pair, hardware, target.kernel, transfer.body, bypass)
<1>3. PICK transfer \in Paired(target.kernel, target.normal) :
          Decide(Bind(pair, target, transfer, received(transfer)))
  BY <1>2
<1>4. /\ verdict' = Bind(pair, target, transfer, received(transfer))
      /\ gate' = IF verdict'.issue = "none" THEN "admitted" ELSE "refused"
      /\ unit' = unit /\ firmware' = firmware /\ listing' = listing
  BY <1>3 DEF Decide
<1>5. ASSUME gate' = "admitted" PROVE AdmittedFits'
  <2>1. /\ target.kernel \in Kernels /\ target.kernel \in firmware.members
        /\ target.normal \in Normals /\ target.normal \in firmware.members
    <3>1. /\ firmware.bare \in BOOLEAN /\ \A m \in firmware.members : m \in Kernels \cup Normals
          /\ target \in Classified(firmware) /\ target.kernel # NoPart
      BY <1>1, <1>2, ComponentAssumption DEF LoadTarget
    <3> QED BY <3>1, ClassifiedAreMembers
  <2>2. Fits(target.kernel, target.normal, transfer)
    BY <1>3, <2>1, PairedFits
  <2>3. /\ received(transfer).issue = "none"
        /\ verdict' = Granted(target.kernel, transfer, TRUE,
                              BridgeWarnings(pair.kernel, target.kernel), received(transfer).needs)
    BY <1>4, <1>5 DEF Bind, RefusedFor
  <2>4. /\ verdict'.kernel = target.kernel /\ verdict'.normal = transfer
        /\ verdict'.needs = received(transfer).needs
        /\ verdict'.told = BridgeWarnings(pair.kernel, target.kernel)
        /\ verdict'.paired
    BY <2>3 DEF Granted
  <2>5. received(transfer) = Conversion(InstalledBody(pair).settings, transfer.body.settings, hardware)
    BY <1>3, <2>3 DEF Receive
  <2>6. ~bypass => transfer.body.family = InstalledBody(pair).family
    BY <1>3, <2>3 DEF Receive
  <2>7. transfer.body.settings # InstalledBody(pair).settings => received(transfer).needs = {unit.hardware}
    BY <1>3, <2>3, <2>5, ConvertedFits
  <2>8. verdict'.told # {} <=> verdict'.paired /\ Temporary(pair.kernel, verdict'.kernel) # {}
    BY <2>4, StagesAreTold
  <2>9. target.normal.kind = "Normal"
    BY <2>1 DEF Normals
  <2>10. \E m \in firmware.members : m.kind = "Normal" /\ m.body = verdict'.normal.body
    BY <2>1, <2>2, <2>4, <2>9 DEF Fits
  <2> QED BY <1>1, <1>2, <1>4, <2>1, <2>2, <2>4, <2>6, <2>7, <2>8, <2>10
             DEF AdmittedFits, Flashes, Fits
<1>6. gate' # "admitted" => AdmittedFits'
  BY DEF AdmittedFits
<1> QED BY <1>1, <1>4, <1>5, <1>6 DEF PlanInv

\* The other steps admit nothing and hand on what they found.
LEMMA OthersKeep ==
    ASSUME PlanInv, NEW kinds \in Captures, NEW references,
           \/ List \/ PlanFlash \/ TargetInvalid \/ SaveBackup(kinds) \/ CaptureInvalid(kinds)
           \/ IdentifyDrive(references) \/ UNCHANGED planVars
    PROVE  PlanInv'
<1>1. CASE List
  BY <1>1 DEF List, PlanInv, AdmittedFits
<1>2. CASE PlanFlash
  BY <1>2 DEF PlanFlash, Refuse, PlanInv, AdmittedFits
<1>3. CASE SaveBackup(kinds)
  BY <1>3 DEF SaveBackup, Refuse, PlanInv, AdmittedFits
<1>4. CASE TargetInvalid
  BY <1>4 DEF TargetInvalid, Refuse, PlanInv, AdmittedFits
<1>5. CASE CaptureInvalid(kinds)
  BY <1>5 DEF CaptureInvalid, Refuse, PlanInv, AdmittedFits
<1>6. CASE IdentifyDrive(references)
  <2>1. /\ gate = "chosen" /\ gate' \in {"identified", "refused"}
        /\ unit' = unit /\ firmware' = firmware /\ listing' = listing
    BY <1>6 DEF IdentifyDrive, Refuse
  <2> QED BY <2>1 DEF PlanInv, AdmittedFits, Flashes
<1>7. CASE UNCHANGED planVars
  BY <1>7 DEF planVars, PlanInv, AdmittedFits, Flashes
<1> QED BY <1>1, <1>2, <1>3, <1>4, <1>5, <1>6, <1>7

\* The inductive invariant: what the gates hand on, and what is admitted
\* (mod.rs: plan, verify_backup, authorize; recovery.rs: assemble_policy).
THEOREM PlanInvariant == PlanSpec => []PlanInv
<1>1. PlanInv /\ [PlanNext]_planVars => PlanInv'
  <2> SUFFICES ASSUME PlanInv, [PlanNext]_planVars PROVE PlanInv'
    OBVIOUS
  <2>1. CASE AuthorizeFlash
    BY <2>1, AuthorizeKeeps
  <2>2. ASSUME NEW kinds \in Captures, NEW bypass \in BOOLEAN, PrepareRecoveryPlan(kinds, bypass)
        PROVE  PlanInv'
    BY <2>2, PrepareKeeps
  <2>3. CASE List \/ PlanFlash \/ TargetInvalid \/ UNCHANGED planVars
    <3>1. {} \in Captures
      BY DEF Captures
    <3> QED BY <2>3, <3>1, OthersKeep
  <2>4. ASSUME NEW kinds \in Captures, SaveBackup(kinds) \/ CaptureInvalid(kinds)
        PROVE  PlanInv'
    BY <2>4, OthersKeep
  <2>5. ASSUME NEW references, IdentifyDrive(references)
        PROVE  PlanInv'
    <3>1. {} \in Captures
      BY DEF Captures
    <3> QED BY <2>5, <3>1, OthersKeep
  <2> QED BY <2>1, <2>2, <2>3, <2>4, <2>5 DEF PlanNext
<1> QED BY <1>1, InitialPlan, PTL DEF PlanSpec

\* Whatever is admitted to a drive, by Flash or by Recovery, fits it: signed and
\* decoded for its Kernel, of its family, converted for its hardware, covered by
\* a backup, its stages announced (mod.rs: authorize; recovery.rs: assemble_policy).
THEOREM AdmissionsFit == PlanSpec => []AdmittedFits
<1>1. PlanInv => AdmittedFits
  BY DEF PlanInv
<1> QED BY <1>1, PlanInvariant, PTL

-----------------------------------------------------------------------------
(* Refusals, and what the catalogue says of them.                          *)

Issues == {"none", "Preparation", "HardwareMismatch", "SoftNo", "Conditional"}

\* What a receiver says of a body is for what it holds, and of an adapter only where
\* a Kernel comes along (normal_prepare.rs: receive).
LEMMA ReceiverSays ==
    ASSUME NEW pair, NEW hardware, NEW kernel, NEW body, NEW bypass \in BOOLEAN, NEW received,
           received = Receive(pair, hardware, kernel, body, bypass)
    PROVE  /\ received.issue \in Issues
           /\ received.issue = "HardwareMismatch" => InstalledBody(pair).family # Unknown
           /\ received.issue = "SoftNo" =>
                 /\ kernel # NoPart
                 /\ ~bypass => FamilyGate(InstalledBody(pair).family, body.family)
<1> DEFINE from == InstalledBody(pair)
<1>1. CASE ~bypass /\ (Unknown \in {from.family, body.family})
  <2>1. received = [issue |-> "Preparation", needs |-> {}]
    BY <1>1 DEF Receive
  <2> QED BY <2>1 DEF Issues
<1>2. CASE ~bypass /\ Unknown \notin {from.family, body.family} /\ from.family # body.family
  <2>1. received = [issue |-> "HardwareMismatch", needs |-> {}]
    BY <1>2 DEF Receive
  <2> QED BY <1>2, <2>1 DEF Issues
<1>3. ASSUME bypass \/ FamilyGate(from.family, body.family),
             kernel # NoPart, Handoff(pair.kernel, kernel) # "none"
      PROVE  /\ received.issue \in {"Preparation", "SoftNo"}
             /\ ~bypass => FamilyGate(from.family, body.family)
  <2>1. received = [issue |-> Handoff(pair.kernel, kernel), needs |-> {}]
    BY <1>3 DEF Receive, FamilyGate
  <2>2. Handoff(pair.kernel, kernel) \in {"Preparation", "SoftNo"}
    BY <1>3 DEF Handoff
  <2> QED BY <1>3, <2>1, <2>2
<1>4. ASSUME bypass \/ FamilyGate(from.family, body.family),
             ~(kernel # NoPart /\ Handoff(pair.kernel, kernel) # "none")
      PROVE  received.issue \in {"none", "Preparation", "Conditional"}
  <2>1. received = Conversion(from.settings, body.settings, hardware)
    BY <1>4 DEF Receive, FamilyGate
  <2> QED BY <2>1 DEF Conversion
<1> QED BY <1>1, <1>2, <1>3, <1>4 DEF Issues, FamilyGate

\* What the gates refuse, and what they let an adapter wait for.
LEMMA GatesSay ==
    ASSUME NEW pair, NEW kernel, NEW normal, NEW transfer, NEW received, NEW decision,
           received.issue \in Issues, decision = Gates(pair, kernel, normal, transfer, received)
    PROVE  /\ decision.issue \in Issues \cup {"Routing"}
           /\ decision.issue # "Routing" => decision.issue = received.issue
           /\ decision.issue # "none" => decision.needs = {}
           /\ decision.issue \in {"none", "SoftNo"} =>
                 /\ CheckLoadedReceiver(pair, kernel)
                 /\ PlanFor(pair, TargetFacts(kernel, normal, transfer.body))
<1> DEFINE route == CheckLoadedReceiver(pair, kernel)
                    /\ PlanFor(pair, TargetFacts(kernel, normal, transfer.body))
<1>1. CASE received.issue \notin {"none", "SoftNo", "Conditional"}
  <2>1. decision = RefusedFor(received.issue)
    BY <1>1 DEF Gates
  <2> QED BY <1>1, <2>1 DEF RefusedFor
<1>2. CASE received.issue \in {"none", "SoftNo", "Conditional"} /\ ~route
  <2>1. decision = RefusedFor("Routing")
    BY <1>2 DEF Gates
  <2> QED BY <2>1 DEF RefusedFor
<1>3. CASE received.issue \in {"SoftNo", "Conditional"} /\ route
  <2>1. decision = RefusedFor(received.issue)
    BY <1>3 DEF Gates
  <2> QED BY <1>3, <2>1 DEF RefusedFor
<1>4. CASE received.issue = "none" /\ route
  <2>1. \/ decision = Granted(pair.kernel, transfer, FALSE, {}, received.needs)
        \/ decision = Granted(kernel, transfer, TRUE, BridgeWarnings(pair.kernel, kernel), received.needs)
    BY <1>4 DEF Gates
  <2>2. decision.issue = "none"
    BY <2>1 DEF Granted
  <2> QED BY <1>4, <2>2 DEF Issues
<1> QED BY <1>1, <1>2, <1>3, <1>4 DEF Issues

\* Why the gates on the installed pair refuse (mod.rs: authorize_installed_context).
LEMMA AuthorizeSays ==
    ASSUME NEW plan, plan.kernel \in Kernels \cup {NoPart}, plan.normal \in Normals,
           NEW pair, pair.kernel \in Kernels \cup {NoPart}, NEW hardware,
           NEW decision, decision = Authorize(plan, pair, hardware)
    PROVE  /\ decision.issue = "FirmwareInvalid" =>
                 plan.kernel # NoPart /\ Paired(plan.kernel, plan.normal) = {}
           /\ decision.issue = "InstalledFirmwareMismatch" =>
                 plan.kernel = NoPart /\ (pair.kernel = NoPart \/ ~HeadersValid(pair.kernel, plan.normal))
           /\ decision.issue = "HardwareMismatch" => InstalledBody(pair).family # Unknown
           /\ decision.issue \in {"none", "SoftNo"} =>
                 /\ CheckLoadedReceiver(pair, plan.kernel)
                 /\ PlanFor(pair, TargetFacts(plan.kernel, plan.normal, plan.normal.body))
                 /\ plan.kernel # NoPart => InstalledBody(plan) = plan.normal.body
           /\ decision.issue = "SoftNo" =>
                 /\ plan.kernel # NoPart
                 /\ FamilyGate(InstalledBody(pair).family, plan.normal.body.family)
<1>1. PICK bound :
          decision = IF ~Detected(pair) THEN RefusedFor("CurrentInvalid")
                     ELSE IF plan.kernel = NoPart THEN AuthorizeNormal(pair, bound, plan.normal)
                     ELSE AuthorizePair(pair, bound, plan.kernel, plan.normal)
  BY DEF Authorize
<1>2. CASE ~Detected(pair)
  <2>1. decision = RefusedFor("CurrentInvalid")
    BY <1>1, <1>2
  <2> QED BY <2>1 DEF RefusedFor
<1>3. CASE Detected(pair) /\ plan.kernel = NoPart
  <2> DEFINE source == Decoded(plan.normal, pair.kernel)
             transfers == Prepared(pair.kernel, source, plan.normal)
             transfer == CHOOSE t \in transfers : TRUE
  <2>1. decision = AuthorizeNormal(pair, bound, plan.normal)
    BY <1>1, <1>3
  <2>2. CASE pair.kernel = NoPart \/ ~HeadersValid(pair.kernel, plan.normal)
    <3>1. decision = RefusedFor("InstalledFirmwareMismatch")
      BY <2>1, <2>2 DEF AuthorizeNormal
    <3> QED BY <1>3, <2>2, <3>1 DEF RefusedFor
  <2>3. CASE ~(pair.kernel = NoPart \/ ~HeadersValid(pair.kernel, plan.normal))
             /\ (transfers = {} \/ plan.normal.sat = NoField)
    <3>1. decision = RefusedFor("Preparation")
      BY <2>1, <2>3 DEF AuthorizeNormal
    <3> QED BY <3>1 DEF RefusedFor
  <2>4. CASE ~(pair.kernel = NoPart \/ ~HeadersValid(pair.kernel, plan.normal))
             /\ ~(transfers = {} \/ plan.normal.sat = NoField)
    <3>1. PICK received : received = Receive(pair, bound, NoPart, source, FALSE)
      OBVIOUS
    <3>2. decision = Gates(pair, NoPart, plan.normal, transfer, received)
      BY <2>1, <2>4, <3>1 DEF AuthorizeNormal
    <3>3. transfer \in transfers /\ pair.kernel \in Kernels
      BY <2>4
    <3>4. transfer.body = plan.normal.body
      BY <3>3, PreparedKeeps
    <3> HIDE DEF transfer
    <3>5. /\ received.issue \in Issues /\ received.issue # "SoftNo"
          /\ received.issue = "HardwareMismatch" => InstalledBody(pair).family # Unknown
      BY <3>1, ReceiverSays
    <3>6. /\ decision.issue \in Issues \cup {"Routing"}
          /\ decision.issue # "Routing" => decision.issue = received.issue
          /\ decision.issue \in {"none", "SoftNo"} =>
                /\ CheckLoadedReceiver(pair, NoPart)
                /\ PlanFor(pair, TargetFacts(NoPart, plan.normal, transfer.body))
      BY <3>2, <3>5, GatesSay
    <3> QED BY <1>3, <3>4, <3>5, <3>6 DEF Issues
  <2> QED BY <2>2, <2>3, <2>4
<1>4. CASE Detected(pair) /\ plan.kernel # NoPart
  <2> DEFINE transfers == Paired(plan.kernel, plan.normal)
             transfer == CHOOSE t \in transfers : TRUE
  <2>1. decision = AuthorizePair(pair, bound, plan.kernel, plan.normal)
    BY <1>1, <1>4
  <2>2. CASE transfers = {}
    <3>1. decision = RefusedFor("FirmwareInvalid")
      BY <2>1, <2>2 DEF AuthorizePair
    <3> QED BY <1>4, <2>2, <3>1 DEF RefusedFor
  <2>3. CASE transfers # {} /\ plan.kernel.sat = NoField /\ plan.normal.sat = NoField
    <3>1. decision = RefusedFor("Preparation")
      BY <2>1, <2>3 DEF AuthorizePair
    <3> QED BY <3>1 DEF RefusedFor
  <2>4. CASE transfers # {} /\ ~(plan.kernel.sat = NoField /\ plan.normal.sat = NoField)
    <3>1. PICK received : received = Receive(pair, bound, plan.kernel, plan.normal.body, FALSE)
      OBVIOUS
    <3>2. decision = Gates(pair, plan.kernel, plan.normal, transfer, received)
      BY <2>1, <2>4, <3>1 DEF AuthorizePair
    <3>3. transfer \in transfers /\ plan.kernel \in Kernels
      BY <1>4, <2>4
    <3>4. transfer.body = plan.normal.body
      BY <3>3, PairedFits DEF Fits
    <3> HIDE DEF transfer
    <3>5. /\ received.issue \in Issues
          /\ received.issue = "HardwareMismatch" => InstalledBody(pair).family # Unknown
          /\ received.issue = "SoftNo" => FamilyGate(InstalledBody(pair).family, plan.normal.body.family)
      BY <3>1, ReceiverSays
    <3>6. /\ decision.issue \in Issues \cup {"Routing"}
          /\ decision.issue # "Routing" => decision.issue = received.issue
          /\ decision.issue \in {"none", "SoftNo"} =>
                /\ CheckLoadedReceiver(pair, plan.kernel)
                /\ PlanFor(pair, TargetFacts(plan.kernel, plan.normal, transfer.body))
      BY <3>2, <3>5, GatesSay
    <3>7. InstalledBody(plan) = plan.normal.body
      <4>1. LoadPair(plan.kernel, plan.normal) # {}
        BY <3>3 DEF Paired
      <4>2. Decoded(plan.normal, plan.kernel).zero
        BY <4>1 DEF LoadPair, Sound
      <4> QED BY <4>2, SoundIsDecoded DEF InstalledBody
    <3> QED BY <1>4, <3>4, <3>5, <3>6, <3>7 DEF Issues
  <2> QED BY <2>2, <2>3, <2>4
<1> QED BY <1>2, <1>3, <1>4

-----------------------------------------------------------------------------
(* The catalogue, which has two files, beside the drive and its backup.     *)

\* The signature of an installed Normal, which a backup lacks, decides nothing.
LEMMA SignatureDecidesNothing ==
    ASSUME NEW plan, NEW pair, NEW shown, NEW hardware,
           pair.kernel = shown.kernel, pair.normal # NoPart, shown.normal # NoPart,
           pair.normal.codec = shown.normal.codec, pair.normal.body = shown.normal.body,
           pair.normal.sat = shown.normal.sat, pair.normal.tag = shown.normal.tag
    PROVE  /\ Authorize(plan, pair, hardware) = Authorize(plan, shown, hardware)
           /\ InstalledBody(pair) = InstalledBody(shown)
<1>1. InstalledBody(pair) = InstalledBody(shown)
  BY DEF InstalledBody, Decoded
<1>2. Detected(pair) <=> Detected(shown)
  BY DEF Detected, Decoded
<1>3. RequiresHardware(pair) <=> RequiresHardware(shown)
  BY <1>1 DEF RequiresHardware
<1>4. InstalledFacts(pair) = InstalledFacts(shown)
  <2>1. ASSUME NEW p, NEW q, p.normal.sat = q.normal.sat, p.normal.tag = q.normal.tag,
               InstalledBody(p) = InstalledBody(q)
        PROVE  InstalledFacts(p) \subseteq InstalledFacts(q)
    <3>1. SUFFICES ASSUME NEW f \in InstalledFacts(p) PROVE f \in InstalledFacts(q)
      OBVIOUS
    <3>2. /\ p.normal.sat # NoField
          /\ f = [sat |-> p.normal.sat, tag |-> p.normal.tag, family |-> InstalledBody(p).family]
      BY <3>1 DEF InstalledFacts
    <3>3. q.normal \in {n \in {q.normal} : n.sat # NoField}
      BY <2>1, <3>2
    <3> QED BY <2>1, <3>2, <3>3 DEF InstalledFacts
  <2>2. InstalledFacts(pair) \subseteq InstalledFacts(shown)
    BY <1>1, <2>1
  <2>3. InstalledFacts(shown) \subseteq InstalledFacts(pair)
    BY <1>1, <2>1
  <2> QED BY <2>2, <2>3
<1>5. \A kernel, normal, transfer, received :
         Gates(pair, kernel, normal, transfer, received) = Gates(shown, kernel, normal, transfer, received)
  BY <1>4 DEF Gates, CheckLoadedReceiver, PlanFor
<1>6. \A h, kernel, body : Receive(pair, h, kernel, body, FALSE) = Receive(shown, h, kernel, body, FALSE)
  BY <1>1 DEF Receive
<1>7. ASSUME NEW h, NEW kernel, NEW normal
      PROVE  AuthorizePair(pair, h, kernel, normal) = AuthorizePair(shown, h, kernel, normal)
  <2> DEFINE transfer == CHOOSE t \in Paired(kernel, normal) : TRUE
  <2>1. Gates(pair, kernel, normal, transfer, Receive(pair, h, kernel, normal.body, FALSE))
           = Gates(shown, kernel, normal, transfer, Receive(shown, h, kernel, normal.body, FALSE))
    <3> HIDE DEF transfer
    <3>1. PICK received : received = Receive(pair, h, kernel, normal.body, FALSE)
      OBVIOUS
    <3>2. received = Receive(shown, h, kernel, normal.body, FALSE)
      BY <1>6, <3>1
    <3>3. Gates(pair, kernel, normal, transfer, received) = Gates(shown, kernel, normal, transfer, received)
      BY <1>5
    <3> QED BY <3>1, <3>2, <3>3
  <2> QED BY <2>1 DEF AuthorizePair
<1>8. ASSUME NEW h, NEW normal
      PROVE  AuthorizeNormal(pair, h, normal) = AuthorizeNormal(shown, h, normal)
  <2> DEFINE source == Decoded(normal, pair.kernel)
             transfer == CHOOSE t \in Prepared(pair.kernel, source, normal) : TRUE
  <2>1. Gates(pair, NoPart, normal, transfer, Receive(pair, h, NoPart, source, FALSE))
           = Gates(shown, NoPart, normal, transfer, Receive(shown, h, NoPart, source, FALSE))
    <3> HIDE DEF transfer, source
    <3>1. PICK received : received = Receive(pair, h, NoPart, source, FALSE)
      OBVIOUS
    <3>2. received = Receive(shown, h, NoPart, source, FALSE)
      BY <1>6, <3>1
    <3>3. Gates(pair, NoPart, normal, transfer, received) = Gates(shown, NoPart, normal, transfer, received)
      BY <1>5
    <3> QED BY <3>1, <3>2, <3>3
  <2> QED BY <2>1 DEF AuthorizeNormal
<1>9. PICK bound :
         /\ Authorize(plan, pair, hardware) =
               IF ~Detected(pair) THEN RefusedFor("CurrentInvalid")
               ELSE IF plan.kernel = NoPart THEN AuthorizeNormal(pair, bound, plan.normal)
               ELSE AuthorizePair(pair, bound, plan.kernel, plan.normal)
         /\ Authorize(plan, shown, hardware) =
               IF ~Detected(shown) THEN RefusedFor("CurrentInvalid")
               ELSE IF plan.kernel = NoPart THEN AuthorizeNormal(shown, bound, plan.normal)
               ELSE AuthorizePair(shown, bound, plan.kernel, plan.normal)
  <2>1. CASE RequiresHardware(pair)
    BY <1>3, <2>1 DEF Authorize
  <2>2. CASE ~RequiresHardware(pair)
    BY <1>3, <2>2 DEF Authorize
  <2> QED BY <2>1, <2>2
<1>10. Authorize(plan, pair, hardware) = Authorize(plan, shown, hardware)
  BY <1>2, <1>7, <1>8, <1>9
<1> QED BY <1>1, <1>10

(* What a decision on two hardwares has in common: it is the same on both,  *)
(* and needs neither; or on each it is for that one, or says no.            *)
ForHardware(decision, hardware) ==
    /\ decision.issue # "SoftNo"
    /\ decision.issue = "none" =>
          /\ decision.needs = {hardware} /\ hardware # Unbound
          /\ \E rule \in Rules : rule.hardware = hardware
Alike(first, other, one, two) ==
    \/ first.issue = other.issue /\ first.needs = {} /\ other.needs = {}
    \/ ForHardware(first, one) /\ ForHardware(other, two)

LEMMA ReceiveIsAlike ==
    ASSUME NEW pair, NEW kernel, NEW body, NEW one, NEW two
    PROVE  \/ /\ Receive(pair, one, kernel, body, FALSE) = Receive(pair, two, kernel, body, FALSE)
              /\ Receive(pair, one, kernel, body, FALSE).needs = {}
           \/ /\ ForHardware(Receive(pair, one, kernel, body, FALSE), one)
              /\ ForHardware(Receive(pair, two, kernel, body, FALSE), two)
<1> DEFINE from == InstalledBody(pair)
           early == \/ Unknown \in {from.family, body.family} \/ from.family # body.family
                    \/ kernel # NoPart /\ Handoff(pair.kernel, kernel) # "none"
           to(h) == Conversion(from.settings, body.settings, h)
<1>1. CASE early
  <2>1. CASE Unknown \in {from.family, body.family}
    BY <2>1 DEF Receive
  <2>2. CASE Unknown \notin {from.family, body.family} /\ from.family # body.family
    BY <2>2 DEF Receive
  <2>3. CASE /\ Unknown \notin {from.family, body.family} /\ from.family = body.family
             /\ kernel # NoPart /\ Handoff(pair.kernel, kernel) # "none"
    BY <2>3 DEF Receive
  <2> QED BY <1>1, <2>1, <2>2, <2>3
<1>2. CASE ~early
  <2>1. \A h : Receive(pair, h, kernel, body, FALSE) = to(h)
    BY <1>2 DEF Receive
  <2>2. CASE from.settings = body.settings
    <3>1. \A h : Receive(pair, h, kernel, body, FALSE) = [issue |-> "none", needs |-> {}]
      BY <2>1, <2>2 DEF Conversion
    <3>2. [issue |-> "none", needs |-> {}].needs = {}
      OBVIOUS
    <3> QED BY <3>1, <3>2
  <2>3. CASE from.settings # body.settings
    <3>1. \A h : ForHardware(to(h), h)
      <4>1. SUFFICES ASSUME NEW h PROVE ForHardware(to(h), h)
        OBVIOUS
      <4>2. \/ to(h).issue \in {"Preparation", "Conditional"}
            \/ /\ to(h) = [issue |-> "none", needs |-> {h}] /\ h # Unbound
               /\ [from |-> from.settings, to |-> body.settings, hardware |-> h] \in Rules
        BY <2>3 DEF Conversion
      <4>3. [from |-> from.settings, to |-> body.settings, hardware |-> h].hardware = h
        OBVIOUS
      <4> HIDE DEF to, from
      <4>4. CASE to(h).issue \in {"Preparation", "Conditional"}
        BY <4>4 DEF ForHardware
      <4>5. CASE /\ to(h) = [issue |-> "none", needs |-> {h}] /\ h # Unbound
                 /\ [from |-> from.settings, to |-> body.settings, hardware |-> h] \in Rules
        BY <4>3, <4>5 DEF ForHardware
      <4> QED BY <4>2, <4>4, <4>5
    <3>2. Receive(pair, one, kernel, body, FALSE) = to(one)
      BY <2>1
    <3>3. Receive(pair, two, kernel, body, FALSE) = to(two)
      BY <2>1
    <3>4. ForHardware(to(one), one) /\ ForHardware(to(two), two)
      BY <3>1
    <3> HIDE DEF to
    <3> QED BY <3>2, <3>3, <3>4
  <2> QED BY <2>2, <2>3
<1> QED BY <1>1, <1>2

LEMMA GatesAreAlike ==
    ASSUME NEW pair, NEW kernel, NEW normal, NEW transfer, NEW one, NEW two, NEW r1, NEW r2,
           r1.issue \in Issues, r2.issue \in Issues,
           (r1 = r2 /\ r1.needs = {}) \/ (ForHardware(r1, one) /\ ForHardware(r2, two))
    PROVE  Alike(Gates(pair, kernel, normal, transfer, r1), Gates(pair, kernel, normal, transfer, r2), one, two)
<1>1. PICK d1, d2 : /\ d1 = Gates(pair, kernel, normal, transfer, r1)
                    /\ d2 = Gates(pair, kernel, normal, transfer, r2)
  OBVIOUS
<1>2. /\ d1.issue # "none" => d1.needs = {}
      /\ d1.issue \in {"none", "SoftNo"} => d1.issue = r1.issue
      /\ d1.issue = "none" => d1.needs = r1.needs
  BY <1>1, GatesSay, GatesPass
<1>3. /\ d2.issue \in {"none", "SoftNo"} => d2.issue = r2.issue
      /\ d2.issue = "none" => d2.needs = r2.needs
  BY <1>1, GatesSay, GatesPass
<1>4. ASSUME r1 = r2 /\ r1.needs = {} PROVE Alike(d1, d2, one, two)
  BY <1>1, <1>2, <1>4 DEF Alike
<1>5. ASSUME ForHardware(r1, one) /\ ForHardware(r2, two) PROVE Alike(d1, d2, one, two)
  <2>1. ForHardware(d1, one)
    BY <1>2, <1>5 DEF ForHardware
  <2>2. ForHardware(d2, two)
    BY <1>3, <1>5 DEF ForHardware
  <2> QED BY <2>1, <2>2 DEF Alike
<1>6. Alike(d1, d2, one, two)
  BY <1>4, <1>5
<1> QED BY <1>1, <1>6

(* Authorize, once it is known which hardware is looked at.                 *)
Bound(plan, pair, bound) ==
    IF ~Detected(pair) THEN RefusedFor("CurrentInvalid")
    ELSE IF plan.kernel = NoPart THEN AuthorizeNormal(pair, bound, plan.normal)
    ELSE AuthorizePair(pair, bound, plan.kernel, plan.normal)

\* The hardware decides only what is converted for it (mod.rs: authorize_installed_context).
LEMMA HardwareDecides ==
    ASSUME NEW plan, NEW pair, NEW one, NEW two
    PROVE  Alike(Bound(plan, pair, one), Bound(plan, pair, two), one, two)
<1>1. ASSUME NEW issue PROVE Alike(RefusedFor(issue), RefusedFor(issue), one, two)
  BY DEF Alike, RefusedFor
<1>2. ASSUME NEW kernel, NEW normal, NEW transfer, NEW body
      PROVE  Alike(Gates(pair, kernel, normal, transfer, Receive(pair, one, kernel, body, FALSE)),
                   Gates(pair, kernel, normal, transfer, Receive(pair, two, kernel, body, FALSE)), one, two)
  BY ReceiverSays, ReceiveIsAlike, GatesAreAlike
<1>3. CASE ~Detected(pair)
  BY <1>1, <1>3 DEF Bound
<1>4. CASE Detected(pair) /\ plan.kernel = NoPart
  <2> DEFINE source == Decoded(plan.normal, pair.kernel)
             transfers == Prepared(pair.kernel, source, plan.normal)
  <2>1. CASE pair.kernel = NoPart \/ ~HeadersValid(pair.kernel, plan.normal)
    BY <1>1, <1>4, <2>1 DEF Bound, AuthorizeNormal
  <2>2. CASE ~(pair.kernel = NoPart \/ ~HeadersValid(pair.kernel, plan.normal))
             /\ (transfers = {} \/ plan.normal.sat = NoField)
    BY <1>1, <1>4, <2>2 DEF Bound, AuthorizeNormal
  <2>3. CASE ~(pair.kernel = NoPart \/ ~HeadersValid(pair.kernel, plan.normal))
             /\ ~(transfers = {} \/ plan.normal.sat = NoField)
    <3>1. \A h : Bound(plan, pair, h) = Gates(pair, NoPart, plan.normal, CHOOSE t \in transfers : TRUE,
                                              Receive(pair, h, NoPart, source, FALSE))
      BY <1>4, <2>3 DEF Bound, AuthorizeNormal
    <3> QED BY <1>2, <3>1
  <2> QED BY <2>1, <2>2, <2>3
<1>5. CASE Detected(pair) /\ plan.kernel # NoPart
  <2> DEFINE transfers == Paired(plan.kernel, plan.normal)
  <2>1. CASE transfers = {}
    BY <1>1, <1>5, <2>1 DEF Bound, AuthorizePair
  <2>2. CASE transfers # {} /\ plan.kernel.sat = NoField /\ plan.normal.sat = NoField
    BY <1>1, <1>5, <2>2 DEF Bound, AuthorizePair
  <2>3. CASE transfers # {} /\ ~(plan.kernel.sat = NoField /\ plan.normal.sat = NoField)
    <3>1. \A h : Bound(plan, pair, h) = Gates(pair, plan.kernel, plan.normal, CHOOSE t \in transfers : TRUE,
                                              Receive(pair, h, plan.kernel, plan.normal.body, FALSE))
      BY <1>5, <2>3 DEF Bound, AuthorizePair
    <3> QED BY <1>2, <3>1
  <2> QED BY <2>1, <2>2, <2>3
<1> QED BY <1>3, <1>4, <1>5

\* The status listed is that of the best route (crossflash.rs: classified_routes).
LEMMA BestIsListed ==
    ASSUME NEW routes, \A r \in routes : r.status \in {"Yes", "Conditional", "SoftNo"}
    PROVE  \/ BestOf(routes) = "Yes" /\ \E r \in routes : r.status = "Yes"
           \/ /\ BestOf(routes) = "Conditional"
              /\ \E r \in routes : r.status = "Conditional"
              /\ \A r \in routes : r.status # "Yes"
           \/ BestOf(routes) = "SoftNo" /\ routes # {} /\ \A r \in routes : r.status = "SoftNo"
           \/ BestOf(routes) = "HardNo" /\ routes = {}
<1> DEFINE P(s) ==
        \/ s = "Yes" /\ \E r \in routes : r.status = "Yes"
        \/ s = "Conditional" /\ {r.status : r \in routes} \cap {"Yes", s} = {s}
        \/ s = "SoftNo" /\ {r.status : r \in routes} = {s}
        \/ s = "HardNo" /\ routes = {}
<1>1. \E s \in {"Yes", "Conditional", "SoftNo", "HardNo"} : P(s)
  <2>1. CASE \E r \in routes : r.status = "Yes"
    BY <2>1
  <2>2. CASE (\A r \in routes : r.status # "Yes") /\ \E r \in routes : r.status = "Conditional"
    <3>1. {r.status : r \in routes} \cap {"Yes", "Conditional"} = {"Conditional"}
      BY <2>2
    <3> QED BY <3>1
  <2>3. CASE routes # {} /\ \A r \in routes : r.status = "SoftNo"
    <3>1. {r.status : r \in routes} = {"SoftNo"}
      BY <2>3
    <3> QED BY <3>1
  <2>4. CASE routes = {}
    BY <2>4
  <2> QED BY <2>1, <2>2, <2>3, <2>4
<1>2. BestOf(routes) = CHOOSE s \in {"Yes", "Conditional", "SoftNo", "HardNo"} : P(s)
  BY DEF BestOf
<1>3. P(BestOf(routes))
  BY <1>1, <1>2
<1>4. CASE BestOf(routes) = "Conditional"
  <2>1. {r.status : r \in routes} \cap {"Yes", "Conditional"} = {"Conditional"}
    BY <1>3, <1>4
  <2>2. "Conditional" \in {r.status : r \in routes} /\ "Yes" \notin {r.status : r \in routes}
    BY <2>1
  <2> QED BY <1>4, <2>2
<1>5. CASE BestOf(routes) = "SoftNo"
  <2>1. {r.status : r \in routes} = {"SoftNo"}
    BY <1>3, <1>5
  <2> QED BY <1>5, <2>1
<1> QED BY <1>3, <1>4, <1>5


-----------------------------------------------------------------------------
(* The two files of the catalogue are those of the flash.                  *)

\* A file that can be read is read in one way (mod.rs: classify_flash_input).
LEMMA OneReading ==
    ASSUME NEW file \in Packages, NEW p \in Classified(file), NEW q \in Classified(file)
    PROVE  p = q
<1>1. CASE file.bare
  <2>1. PICK m \in file.members : file.members = {m}
    BY <1>1, ComponentAssumption
  <2> QED BY <1>1, <2>1 DEF Classified
<1>2. CASE ~file.bare
  BY <1>2 DEF Classified
<1> QED BY <1>1, <1>2

\* A backup that covers a plan is whole, so its drive is a file of one product; and it
\* shows what that file does, but for the signature (backup.rs: construct_signed_candidate).
LEMMA CoverageIsWhole ==
    ASSUME NEW drive \in PlanDrives, NEW kinds \in Captures, NEW plan,
           VerifyCoverage(Captured(drive, kinds), plan), NEW pair \in Classified(Captured(drive, kinds))
    PROVE  /\ Classified(PackageOf(drive)) =
                 {[kernel |-> drive.pair.kernel, normal |-> drive.pair.normal]}
           /\ VerifyCoverage(PackageOf(drive), plan)
           /\ pair.kernel = drive.pair.kernel
           /\ pair.normal = [drive.pair.normal EXCEPT !.sign = Unsigned]
<1> DEFINE K == drive.pair.kernel
           N == drive.pair.normal
           U == [N EXCEPT !.sign = Unsigned]
           held == {m \in {K, U} : m.kind \in kinds}
<1>1. K \in Kernels /\ N \in Normals
  BY ComponentAssumption
<1>2. /\ U \in Normals /\ U.model = N.model /\ U.sat = N.sat
      /\ K.kind = "Kernel" /\ N.kind = "Normal" /\ U.kind = "Normal"
  <2>1. ASSUME NEW normal \in Normals, NEW copy, copy = [normal EXCEPT !.sign = Unsigned]
        PROVE  copy \in Normals /\ copy.model = normal.model /\ copy.sat = normal.sat
    BY <2>1 DEF Normals
  <2>2. \A normal \in Normals : normal.kind = "Normal"
    BY DEF Normals
  <2>3. K.kind = "Kernel"
    BY <1>1 DEF Kernels
  <2> HIDE DEF K
  <2> QED BY <1>1, <2>1, <2>2, <2>3
<1>3. OfOneProduct(held) /\ Captured(drive, kinds) = [bare |-> FALSE, members |-> held]
  BY DEF VerifyCoverage, Captured
<1> HIDE DEF K, N, U
<1>4. "Normal" \in kinds
  <2> DEFINE normals == {m \in held : m.kind = "Normal"}
  <2>1. Cardinality(normals) = 1
    BY <1>3 DEF OfOneProduct
  <2>2. normals # {}
    <3> HIDE DEF normals
    <3> QED BY <2>1, FS_EmptySet
  <2>3. PICK m \in normals : TRUE
    BY <2>2
  <2> QED BY <2>3
<1>5. held = {K, U}
  BY <1>2, <1>4 DEF Captures
<1>6. OfOneProduct({K, N})
  <2>1. K.model = N.model /\ K.sat = N.sat
    BY <1>2, <1>3, <1>5 DEF OfOneProduct
  <2>2. {m \in {K, N} : m.kind = "Kernel"} = {K} /\ {m \in {K, N} : m.kind = "Normal"} = {N}
    BY <1>2
  <2>3. Cardinality({K}) = 1 /\ Cardinality({N}) = 1
    BY FS_Singleton
  <2> QED BY <2>1, <2>2, <2>3 DEF OfOneProduct
<1>7. ASSUME NEW normal, normal.kind = "Normal"
      PROVE  Of("Kernel", {K, normal}) = K /\ Of("Normal", {K, normal}) = normal
  <2>1. \A m \in {K, normal} : (m.kind = "Kernel" => m = K) /\ (m.kind = "Normal" => m = normal)
    BY <1>2, <1>7
  <2> QED BY <1>2, <1>7, <2>1 DEF Of
<1>8. PackageOf(drive) = [bare |-> FALSE, members |-> {K, N}]
  BY DEF PackageOf, K, N
<1>9. \A file, ms : file = [bare |-> FALSE, members |-> ms] /\ OfOneProduct(ms) =>
         Classified(file) = {[kernel |-> Of("Kernel", ms), normal |-> Of("Normal", ms)]}
  BY DEF Classified
<1>10. Classified(PackageOf(drive)) = {[kernel |-> K, normal |-> N]}
  BY <1>2, <1>6, <1>7, <1>8, <1>9
<1>11. pair.kernel = K /\ pair.normal = U
  <2>1. Classified(Captured(drive, kinds)) = {[kernel |-> K, normal |-> U]}
    <3>1. OfOneProduct({K, U}) /\ Captured(drive, kinds) = [bare |-> FALSE, members |-> {K, U}]
      BY <1>3, <1>5
    <3> QED BY <1>2, <1>7, <1>9, <3>1
  <2>2. pair = [kernel |-> K, normal |-> U]
    BY <2>1
  <2> QED BY <2>2
<1>12. VerifyCoverage(PackageOf(drive), plan)
  <2>1. Of("Kernel", {K, N}) # NoPart
    BY <1>1, <1>2, <1>7, ComponentAssumption
  <2> QED BY <1>6, <1>8, <2>1 DEF VerifyCoverage
<1> QED BY <1>10, <1>11, <1>12 DEF K, N, U

(* The routes of one plan on one pair.                                      *)
RoutesOf(plan, pair) ==
    UNION {RouteIn(h, Authorize(plan, pair, h)) : h \in Contexts(pair)}

LEMMA RoutesAreOfThePlan ==
    ASSUME NEW installed, NEW target, NEW plan, NEW pair,
           Classified(installed) = {pair}, ExecutePlan(target) = {plan}, VerifyCoverage(installed, plan)
    PROVE  OfflineRoutes(installed, target) = RoutesOf(plan, pair)
<1> DEFINE of(at) ==
              IF VerifyCoverage(installed, at[1])
              THEN UNION {RouteIn(h, Authorize(at[1], at[2], h)) : h \in Contexts(at[2])} ELSE {}
<1>1. {plan} \X {pair} = {<<plan, pair>>}
  OBVIOUS
<1>2. OfflineRoutes(installed, target) = UNION {of(at) : at \in ExecutePlan(target) \X Classified(installed)}
  BY DEF OfflineRoutes
<1>3. of(<<plan, pair>>) = RoutesOf(plan, pair)
  BY DEF RoutesOf
<1> HIDE DEF of
<1>4. OfflineRoutes(installed, target) = UNION {of(<<plan, pair>>)}
  BY <1>1, <1>2
<1> QED BY <1>3, <1>4

\* The routes of a pair against the decision on one hardware: they offer what is
\* admitted, as what it is, and nothing else for that hardware.
LEMMA RoutesAreTheDecisions ==
    ASSUME NEW plan, NEW pair, NEW hardware, NEW decision, decision = Authorize(plan, pair, hardware)
    PROVE  /\ \A r \in RoutesOf(plan, pair) : r.status \in {"Yes", "Conditional", "SoftNo"}
           /\ \/ /\ decision.issue = "none" /\ RoutesOf(plan, pair) # {}
                 /\ \A r \in RoutesOf(plan, pair) : r.status = "Yes"
              \/ /\ decision.issue = "none"
                 /\ \E r \in RoutesOf(plan, pair) : r.status = "Conditional" /\ r.needs = {hardware}
                 /\ \A r \in RoutesOf(plan, pair) : r.status = "Conditional"
              \/ /\ decision.issue = "SoftNo" /\ RoutesOf(plan, pair) # {}
                 /\ \A r \in RoutesOf(plan, pair) : r.status = "SoftNo"
              \/ /\ decision.issue \notin {"none", "SoftNo"}
                 /\ \A r \in RoutesOf(plan, pair) : r.status = "Conditional" /\ r.needs # {hardware}
<1> DEFINE routes == RoutesOf(plan, pair)
           at(h) == Bound(plan, pair, h)
           bound == IF RequiresHardware(pair) THEN hardware ELSE Unbound
<1>1. \A h \in Contexts(pair) : Authorize(plan, pair, h) = at(h)
  BY DEF Contexts, Authorize, Bound
<1>2. decision = at(bound)
  BY DEF Authorize, Bound
<1>3. Contexts(pair) # {} /\ (~RequiresHardware(pair) => Contexts(pair) = {Unbound})
  BY DEF Contexts, RequiresHardware
<1>4. \A one, two : Alike(at(one), at(two), one, two)
  BY HardwareDecides
<1>5. (\E rule \in Rules : rule.hardware = bound) /\ bound # Unbound
         => bound \in Contexts(pair) /\ bound = hardware
  BY DEF Contexts
<1> HIDE DEF bound, at
<1>6. ASSUME NEW r, NEW h, NEW d, r \in RouteIn(h, d)
      PROVE  \/ /\ d.issue = "none" /\ r.needs = d.needs
                /\ r.status = IF d.needs = {} THEN "Yes" ELSE "Conditional"
             \/ d.issue = "SoftNo" /\ r.status = "SoftNo"
  BY <1>6 DEF RouteIn
<1>7. \A r : r \in routes <=> \E h \in Contexts(pair) : r \in RouteIn(h, at(h))
  BY <1>1 DEF RoutesOf
<1>8. ASSUME NEW h \in Contexts(pair), at(h).issue \in {"none", "SoftNo"} PROVE routes # {}
  <2>1. RouteIn(h, at(h)) # {}
    BY <1>8 DEF RouteIn
  <2> QED BY <1>7, <2>1
<1> HIDE DEF routes
<1>9. \A r \in routes : r.status \in {"Yes", "Conditional", "SoftNo"}
  BY <1>6, <1>7
<1>10. CASE decision.issue = "SoftNo"
  <2>1. \A h : at(h).issue = "SoftNo"
    BY <1>2, <1>4, <1>10 DEF Alike, ForHardware
  <2>2. \A r \in routes : r.status = "SoftNo"
    BY <1>6, <1>7, <2>1
  <2>3. routes # {}
    BY <1>3, <1>8, <2>1
  <2> QED BY <1>9, <1>10, <2>2, <2>3 DEF routes
<1>11. CASE decision.issue = "none" /\ decision.needs = {}
  <2>1. \A h : at(h).issue = "none" /\ at(h).needs = {}
    BY <1>2, <1>4, <1>11 DEF Alike, ForHardware
  <2>2. \A r \in routes : r.status = "Yes"
    BY <1>6, <1>7, <2>1
  <2>3. routes # {}
    BY <1>3, <1>8, <2>1
  <2> QED BY <1>9, <1>11, <2>2, <2>3 DEF routes
<1>12. CASE decision.issue = "none" /\ decision.needs # {}
  <2>1. \A h : ForHardware(at(h), h)
    BY <1>2, <1>4, <1>12 DEF Alike
  <2>2. decision.needs = {bound} /\ bound \in Contexts(pair) /\ bound = hardware
    BY <1>2, <1>5, <1>12, <2>1 DEF ForHardware
  <2>3. \A r \in routes : r.status = "Conditional"
    BY <1>6, <1>7, <2>1 DEF ForHardware
  <2>4. \E r \in routes : r.status = "Conditional" /\ r.needs = {hardware}
    <3> DEFINE r == [status |-> "Conditional", needs |-> {bound}]
    <3>1. r \in RouteIn(bound, at(bound))
      BY <1>2, <1>12, <2>2 DEF RouteIn
    <3>2. r \in routes
      BY <1>7, <2>2, <3>1
    <3> QED BY <2>2, <3>2
  <2> QED BY <1>9, <1>12, <2>3, <2>4 DEF routes
<1>13. CASE decision.issue \notin {"none", "SoftNo"}
  <2>1. ASSUME NEW r \in routes PROVE r.status = "Conditional" /\ r.needs # {hardware}
    <3>1. PICK h \in Contexts(pair) : r \in RouteIn(h, at(h))
      BY <1>7
    <3>2. at(h).issue \in {"none", "SoftNo"}
      BY <1>6, <3>1
    <3>3. ForHardware(at(h), h)
      BY <1>2, <1>4, <1>13, <3>2 DEF Alike
    <3>4. at(h).issue = "none" /\ at(h).needs = {h} /\ h # Unbound
      BY <3>2, <3>3 DEF ForHardware
    <3>5. r.status = "Conditional" /\ r.needs = {h}
      BY <1>6, <3>1, <3>4
    <3>6. h # bound
      BY <1>2, <1>13, <3>4
    <3>7. RequiresHardware(pair)
      BY <1>3, <3>4
    <3> QED BY <3>5, <3>6, <3>7 DEF bound
  <2> QED BY <1>9, <1>13, <2>1 DEF routes
<1> QED BY <1>10, <1>11, <1>12, <1>13

\* What is listed for a pair is what is decided (crossflash.rs: classified_routes).
LEMMA BestIsTheDecision ==
    ASSUME NEW plan, NEW pair, NEW hardware, NEW decision, decision = Authorize(plan, pair, hardware),
           NEW routes, routes = RoutesOf(plan, pair)
    PROVE  /\ BestOf(routes) \in {"Yes", "Conditional", "SoftNo", "HardNo"}
           /\ BestOf(routes) = "Yes" => decision.issue = "none"
           /\ BestOf(routes) = "Conditional" =>
                 (decision.issue = "none" <=>
                     \E r \in routes : r.status = "Conditional" /\ r.needs = {hardware})
           /\ BestOf(routes) = "SoftNo" => decision.issue = "SoftNo"
           /\ BestOf(routes) = "HardNo" => decision.issue \notin {"none", "SoftNo"}
<1>1. \A r \in routes : r.status \in {"Yes", "Conditional", "SoftNo"}
  BY RoutesAreTheDecisions
<1>2. \/ /\ decision.issue = "none" /\ routes # {}
         /\ \A r \in routes : r.status = "Yes"
      \/ /\ decision.issue = "none"
         /\ \E r \in routes : r.status = "Conditional" /\ r.needs = {hardware}
         /\ \A r \in routes : r.status = "Conditional"
      \/ /\ decision.issue = "SoftNo" /\ routes # {}
         /\ \A r \in routes : r.status = "SoftNo"
      \/ /\ decision.issue \notin {"none", "SoftNo"}
         /\ \A r \in routes : r.status = "Conditional" /\ r.needs # {hardware}
  BY RoutesAreTheDecisions
<1>3. \/ BestOf(routes) = "Yes" /\ \E r \in routes : r.status = "Yes"
      \/ /\ BestOf(routes) = "Conditional"
         /\ \E r \in routes : r.status = "Conditional"
         /\ \A r \in routes : r.status # "Yes"
      \/ BestOf(routes) = "SoftNo" /\ routes # {} /\ \A r \in routes : r.status = "SoftNo"
      \/ BestOf(routes) = "HardNo" /\ routes = {}
  BY <1>1, BestIsListed
<1> QED BY <1>2, <1>3

\* The pre-filter turns away nothing that the gates would let pass, or let wait for
\* an adapter (crossflash.rs: may_admit).
LEMMA PrefilterIsExact ==
    ASSUME NEW drive \in PlanDrives, NEW file \in Packages, NEW plan \in ExecutePlan(file), NEW pair,
           pair = [kernel |-> drive.pair.kernel, normal |-> drive.pair.normal],
           Classified(PackageOf(drive)) = {pair},
           NEW hardware, Authorize(plan, pair, hardware).issue \in {"none", "SoftNo"}
    PROVE  MayAdmit(Prefilter(PackageOf(drive)), Prefilter(file))
<1> DEFINE of(p) ==
              [family |-> IF p.kernel = NoPart THEN Unknown ELSE InstalledBody(p).family,
               model |-> p.normal.sat, normalOnly |-> p.kernel = NoPart]
<1>1. ASSUME NEW f, NEW p, Classified(f) = {p} PROVE Prefilter(f) = of(p)
  <2>1. Classified(f) # {} /\ (CHOOSE q \in Classified(f) : TRUE) = p
    BY <1>1
  <2> QED BY <2>1 DEF Prefilter
<1>2. Classified(file) = {plan}
  BY OneReading DEF ExecutePlan
<1>3. plan.kernel \in Kernels \cup {NoPart} /\ plan.normal \in Normals
  BY PlansAreOfTheFile
<1>4. pair.kernel \in Kernels /\ pair.kernel # NoPart
  BY ComponentAssumption
<1>5. /\ PlanFor(pair, TargetFacts(plan.kernel, plan.normal, plan.normal.body))
      /\ plan.kernel # NoPart => InstalledBody(plan) = plan.normal.body
  BY <1>3, <1>4, AuthorizeSays
<1>6. PICK installed \in InstalledFacts(pair) :
         DecideFlashPlan(installed, TargetFacts(plan.kernel, plan.normal, plan.normal.body))
  BY <1>5 DEF PlanFor
<1>7. /\ installed.sat = pair.normal.sat /\ pair.normal.sat # NoField
      /\ installed.family = InstalledBody(pair).family
  BY DEF InstalledFacts
<1>8. PICK before, after :
         /\ before = Prefilter(PackageOf(drive)) /\ after = Prefilter(file)
         /\ before = of(pair) /\ after = of(plan)
  BY <1>1, <1>2
<1>9. /\ before.model = pair.normal.sat /\ before.family = InstalledBody(pair).family
      /\ after.model = plan.normal.sat /\ (after.normalOnly <=> plan.kernel = NoPart)
      /\ plan.kernel # NoPart => after.family = InstalledBody(plan).family
  <2>1. ASSUME NEW p, NEW facts, facts = of(p)
        PROVE  /\ facts.model = p.normal.sat /\ (facts.normalOnly <=> p.kernel = NoPart)
               /\ p.kernel # NoPart => facts.family = InstalledBody(p).family
    <3>1. facts.normalOnly = (p.kernel = NoPart)
      BY <2>1
    <3>2. facts.model = p.normal.sat
      BY <2>1
    <3>3. p.kernel # NoPart => facts.family = InstalledBody(p).family
      BY <2>1
    <3> QED BY <3>1, <3>2, <3>3
  <2> HIDE DEF of
  <2> QED BY <1>4, <1>8, <2>1
<1>10. MayAdmit(before, after)
  <2>1. CASE plan.kernel = NoPart
    <3>1. pair.normal.sat = plan.normal.sat
      BY <1>6, <1>7, <2>1 DEF DecideFlashPlan, TargetFacts
    <3> QED BY <1>7, <1>9, <2>1, <3>1 DEF MayAdmit
  <2>2. CASE plan.kernel # NoPart
    <3>1. FamilyGate(InstalledBody(pair).family, plan.normal.body.family)
      BY <1>6, <1>7 DEF DecideFlashPlan, TargetFacts
    <3> QED BY <1>5, <1>9, <2>2, <3>1 DEF MayAdmit
  <2> QED BY <2>1, <2>2
<1> QED BY <1>8, <1>10

-----------------------------------------------------------------------------
(* What a refusal says and what the catalogue listed, of a flash.  What is  *)
(* listed stays, for the drive and the file do; a flash passes its gates    *)
(* only once it is listed.                                                  *)
DecidedInv ==
    /\ Flashes => listing = Listed(PackageOf(unit), firmware)
    /\ gate \in {"listed", "planned", "saved"} => Flashes
    /\ RefusalIsTold /\ CatalogueAgrees

\* What is listed is one of the four, so a flash that is listed is told apart.
LEMMA ListedIsSomething ==
    ASSUME NEW drive \in PlanDrives, NEW file \in Packages
    PROVE  Listed(PackageOf(drive), file).status # "none"
<1>1. \A h, d : \A r \in RouteIn(h, d) : r.status \in {"Yes", "Conditional", "SoftNo"}
  BY DEF RouteIn
<1>2. \A r \in OfflineRoutes(PackageOf(drive), file) : r.status \in {"Yes", "Conditional", "SoftNo"}
  <2> DEFINE of(at) ==
                IF VerifyCoverage(PackageOf(drive), at[1])
                THEN UNION {RouteIn(h, Authorize(at[1], at[2], h)) : h \in Contexts(at[2])} ELSE {}
  <2>1. ASSUME NEW at, NEW r \in of(at) PROVE r.status \in {"Yes", "Conditional", "SoftNo"}
    BY <1>1
  <2>2. OfflineRoutes(PackageOf(drive), file) = UNION {of(at) : at \in ExecutePlan(file) \X Classified(PackageOf(drive))}
    BY DEF OfflineRoutes
  <2> HIDE DEF of
  <2> QED BY <2>1, <2>2
<1>3. BestOf(OfflineRoutes(PackageOf(drive), file)) # "none"
  <2> DEFINE routes == OfflineRoutes(PackageOf(drive), file)
  <2> HIDE DEF routes
  <2>1. BestOf(routes) # "none"
    BY <1>2, BestIsListed DEF routes
  <2> QED BY <2>1 DEF routes
<1> QED BY <1>3 DEF Listed

\* The gates decide as the catalogue listed (mod.rs: authorize; crossflash.rs:
\* classified_routes).
LEMMA ListingIsTheDecision ==
    ASSUME NEW drive \in PlanDrives, NEW file \in Packages, NEW plan \in ExecutePlan(file),
           NEW kinds \in Captures, VerifyCoverage(Captured(drive, kinds), plan),
           NEW pair \in Classified(Captured(drive, kinds)),
           NEW decision, decision = Authorize(plan, pair, drive.hardware),
           NEW entry, entry = Listed(PackageOf(drive), file)
    PROVE  /\ entry.status = "Yes" => decision.issue = "none"
           /\ entry.status = "Conditional" =>
                 (decision.issue = "none" <=>
                     \E r \in entry.routes : r.status = "Conditional" /\ r.needs = {drive.hardware})
           /\ entry.status = "SoftNo" => decision.issue = "SoftNo"
           /\ entry.status = "HardNo" => decision.issue \notin {"none", "SoftNo"}
<1>1. PICK held : held = [kernel |-> drive.pair.kernel, normal |-> drive.pair.normal]
  OBVIOUS
<1>2. /\ Classified(PackageOf(drive)) = {held} /\ VerifyCoverage(PackageOf(drive), plan)
      /\ pair.kernel = drive.pair.kernel /\ pair.normal = [drive.pair.normal EXCEPT !.sign = Unsigned]
  BY <1>1, CoverageIsWhole
<1>3. held.kernel = pair.kernel /\ held.normal = drive.pair.normal
  BY <1>1, <1>2
<1>4. /\ held.normal # NoPart /\ pair.normal # NoPart
      /\ held.normal.codec = pair.normal.codec /\ held.normal.body = pair.normal.body
      /\ held.normal.sat = pair.normal.sat /\ held.normal.tag = pair.normal.tag
  <2>1. ASSUME NEW normal \in Normals, NEW copy, copy = [normal EXCEPT !.sign = Unsigned]
        PROVE  /\ copy \in Normals /\ copy.codec = normal.codec /\ copy.body = normal.body
               /\ copy.sat = normal.sat /\ copy.tag = normal.tag
    BY <2>1 DEF Normals
  <2>2. drive.pair.normal \in Normals /\ NoPart \notin Normals
    BY ComponentAssumption
  <2> QED BY <1>2, <1>3, <2>1, <2>2
<1>5. decision = Authorize(plan, held, drive.hardware)
  BY <1>3, <1>4, SignatureDecidesNothing
<1>6. ExecutePlan(file) = {plan}
  BY OneReading DEF ExecutePlan
<1>7. OfflineRoutes(PackageOf(drive), file) = RoutesOf(plan, held)
  BY <1>2, <1>6, RoutesAreOfThePlan
<1>8. PICK routes : routes = RoutesOf(plan, held)
  OBVIOUS
<1>9. /\ BestOf(routes) \in {"Yes", "Conditional", "SoftNo", "HardNo"}
      /\ BestOf(routes) = "Yes" => decision.issue = "none"
      /\ BestOf(routes) = "Conditional" =>
            (decision.issue = "none" <=>
                \E r \in routes : r.status = "Conditional" /\ r.needs = {drive.hardware})
      /\ BestOf(routes) = "SoftNo" => decision.issue = "SoftNo"
      /\ BestOf(routes) = "HardNo" => decision.issue \notin {"none", "SoftNo"}
  BY <1>5, <1>8, BestIsTheDecision
<1>10. CASE MayAdmit(Prefilter(PackageOf(drive)), Prefilter(file))
  <2>1. entry = [status |-> BestOf(routes), routes |-> routes]
    BY <1>7, <1>8, <1>10 DEF Listed
  <2>2. entry.status = BestOf(routes) /\ entry.routes = routes
    BY <2>1
  <2> QED BY <1>9, <2>2
<1>11. CASE ~MayAdmit(Prefilter(PackageOf(drive)), Prefilter(file))
  <2>1. entry.status = "HardNo"
    BY <1>11 DEF Listed
  <2>2. decision.issue \notin {"none", "SoftNo"}
    BY <1>1, <1>2, <1>5, <1>11, PrefilterIsExact
  <2> QED BY <2>1, <2>2
<1> QED BY <1>10, <1>11

\* A step that takes no decision says why it refuses, and keeps what was listed.
LEMMA RefusingKeeps ==
    ASSUME PlanInv, DecidedInv, NEW kinds \in Captures, NEW references,
           \/ List \/ PlanFlash \/ TargetInvalid \/ SaveBackup(kinds) \/ CaptureInvalid(kinds)
           \/ IdentifyDrive(references) \/ UNCHANGED planVars
    PROVE  DecidedInv'
<1>0. unit \in PlanDrives /\ firmware \in Packages
  BY DEF PlanInv
<1>1. CASE List
  <2>1. /\ listing' = Listed(PackageOf(unit), firmware) /\ gate' = "listed"
        /\ unit' = unit /\ firmware' = firmware
    BY <1>1 DEF List
  <2>2. Flashes'
    BY <1>0, <2>1, ListedIsSomething DEF Flashes
  <2>3. listing' = Listed(PackageOf(unit'), firmware')
    BY <2>1
  <2>4. RefusalIsTold' /\ CatalogueAgrees'
    BY <2>1 DEF RefusalIsTold, CatalogueAgrees
  <2> QED BY <2>1, <2>2, <2>3, <2>4 DEF DecidedInv, PackageOf
<1>2. ASSUME \/ gate' = "identified"
             \/ gate' \in {"planned", "saved"} /\ Flashes,
             unit' = unit, firmware' = firmware, listing' = listing
      PROVE  DecidedInv'
  <2>1. (Flashes' <=> Flashes) /\ Listed(PackageOf(unit), firmware)' = Listed(PackageOf(unit), firmware)
    BY <1>2 DEF Flashes
  <2>2. RefusalIsTold' /\ CatalogueAgrees'
    BY <1>2 DEF RefusalIsTold, CatalogueAgrees
  <2> QED BY <1>2, <2>1, <2>2 DEF DecidedInv
<1>3. ASSUME NEW issue, Refuse(issue),
             \/ /\ issue \in {"BackupRequired", "CurrentInvalid", "NotAReceiver", "CurrentRequired"}
                /\ Flashes => issue = "BackupRequired"
             \/ issue = "FirmwareInvalid" /\ Flashes /\ ExecutePlan(firmware) = {}
             \/ issue = "FirmwareInvalid" /\ ~Flashes /\ LoadTarget(firmware) = {}
      PROVE  DecidedInv'
  <2>1. /\ verdict'.issue = issue /\ gate' = "refused"
        /\ unit' = unit /\ firmware' = firmware /\ listing' = listing
        /\ parts' = parts /\ basis' = basis
    BY <1>3 DEF Refuse, RefusedFor
  <2>2. (Flashes' <=> Flashes) /\ Listed(PackageOf(unit), firmware)' = Listed(PackageOf(unit), firmware)
    BY <2>1 DEF Flashes
  <2>3. RefusalIsTold'
    BY <1>3, <2>1, <2>2 DEF RefusalIsTold
  <2>4. CatalogueAgrees'
    <3>1. CASE issue = "FirmwareInvalid" /\ Flashes /\ ExecutePlan(firmware) = {}
      <4>1. OfflineRoutes(PackageOf(unit), firmware) = {}
        BY <3>1 DEF OfflineRoutes
      <4>2. BestOf({}) = "HardNo"
        BY BestIsListed
      <4>3. listing.status = "HardNo"
        BY <3>1, <4>1, <4>2 DEF DecidedInv, Listed
      <4> QED BY <2>1, <3>1, <4>3 DEF CatalogueAgrees
    <3>2. CASE Flashes => issue = "BackupRequired"
      BY <2>1, <2>2, <3>2 DEF CatalogueAgrees
    <3> QED BY <1>3, <3>1, <3>2
  <2> QED BY <2>1, <2>2, <2>3, <2>4 DEF DecidedInv
<1>4. gate \in {"listed", "planned"} => Flashes
  BY DEF DecidedInv
<1>5. gate \in {"chosen", "identified"} => ~Flashes
  BY DEF PlanInv
<1>6. CASE PlanFlash
  <2>1. CASE ExecutePlan(firmware) = {} /\ Refuse("FirmwareInvalid")
    BY <1>3, <1>4, <1>6, <2>1 DEF PlanFlash
  <2>2. CASE gate' = "planned" /\ UNCHANGED <<unit, firmware, listing>>
    BY <1>2, <1>4, <1>6, <2>2 DEF PlanFlash
  <2> QED BY <1>6, <2>1, <2>2 DEF PlanFlash
<1>7. CASE SaveBackup(kinds)
  <2>1. CASE Refuse("BackupRequired")
    BY <1>3, <2>1
  <2>2. CASE gate' = "saved" /\ UNCHANGED <<unit, firmware, listing>>
    BY <1>2, <1>4, <1>7, <2>2 DEF SaveBackup
  <2> QED BY <1>7, <2>1, <2>2 DEF SaveBackup
<1>8. CASE TargetInvalid
  BY <1>3, <1>5, <1>8 DEF TargetInvalid
<1>9. CASE CaptureInvalid(kinds)
  BY <1>3, <1>5, <1>9 DEF CaptureInvalid
<1>10. CASE IdentifyDrive(references)
  <2>1. \/ \E issue \in {"CurrentInvalid", "NotAReceiver", "CurrentRequired"} : Refuse(issue)
        \/ gate' = "identified" /\ UNCHANGED <<unit, firmware, listing>>
    BY <1>10 DEF IdentifyDrive
  <2>2. ~Flashes
    BY <1>5, <1>10 DEF IdentifyDrive
  <2>3. ASSUME NEW issue \in {"CurrentInvalid", "NotAReceiver", "CurrentRequired"}, Refuse(issue)
        PROVE  DecidedInv'
    BY <1>3, <2>2, <2>3
  <2>4. CASE gate' = "identified" /\ UNCHANGED <<unit, firmware, listing>>
    BY <1>2, <2>4
  <2> QED BY <2>1, <2>3, <2>4
<1>11. CASE UNCHANGED planVars
  BY <1>11 DEF planVars, DecidedInv, Flashes, RefusalIsTold, CatalogueAgrees, Listed, PackageOf
<1> QED BY <1>1, <1>6, <1>7, <1>8, <1>9, <1>10, <1>11

\* The gates of a flash say what is wrong, as the catalogue listed.
LEMMA AuthorizeTells ==
    ASSUME PlanInv, DecidedInv, AuthorizeFlash
    PROVE  DecidedInv'
<1>1. /\ unit \in PlanDrives /\ firmware \in Packages /\ parts \in ExecutePlan(firmware)
      /\ Flashes /\ listing = Listed(PackageOf(unit), firmware)
  BY DEF PlanInv, DecidedInv, AuthorizeFlash
<1>2. PICK kinds \in Captures :
         /\ basis \in Classified(Captured(unit, kinds))
         /\ VerifyCoverage(Captured(unit, kinds), parts)
  BY DEF PlanInv, AuthorizeFlash
<1>3. /\ verdict' = Authorize(parts, basis, unit.hardware)
      /\ gate' = IF verdict'.issue = "none" THEN "admitted" ELSE "refused"
      /\ unit' = unit /\ firmware' = firmware /\ listing' = listing
      /\ parts' = parts /\ basis' = basis
  BY DEF AuthorizeFlash, Decide
<1>4. PICK decision : decision = Authorize(parts, basis, unit.hardware) /\ verdict' = decision
  BY <1>3
<1>5. (Flashes' <=> Flashes) /\ Listed(PackageOf(unit), firmware)' = Listed(PackageOf(unit), firmware)
  BY <1>3 DEF Flashes
<1>6. basis.kernel = unit.pair.kernel /\ basis.kernel \in Kernels /\ basis.kernel # NoPart
  <2>1. basis.kernel = unit.pair.kernel
    BY <1>1, <1>2, CoverageIsWhole
  <2> QED BY <1>1, <2>1, ComponentAssumption
<1>7. parts.kernel \in Kernels \cup {NoPart} /\ parts.normal \in Normals
  BY <1>1, PlansAreOfTheFile
<1>8. /\ decision.issue = "FirmwareInvalid" =>
            parts.kernel # NoPart /\ Paired(parts.kernel, parts.normal) = {}
      /\ decision.issue = "InstalledFirmwareMismatch" =>
            parts.kernel = NoPart /\ ~HeadersValid(basis.kernel, parts.normal)
      /\ decision.issue = "HardwareMismatch" => InstalledBody(basis).family # Unknown
      /\ decision.issue = "SoftNo" =>
            /\ parts.kernel # NoPart /\ CheckLoadedReceiver(basis, parts.kernel)
            /\ FamilyGate(InstalledBody(basis).family, parts.normal.body.family)
  BY <1>4, <1>6, <1>7, AuthorizeSays
<1>9. decision.issue = "FirmwareInvalid" =>
         \A d \in PlanDrives : \A plan \in ExecutePlan(firmware) :
            Authorize(plan, d.pair, d.hardware).issue # "none"
  <2>1. SUFFICES ASSUME decision.issue = "FirmwareInvalid", NEW d \in PlanDrives,
                        NEW plan \in ExecutePlan(firmware)
                 PROVE  Authorize(plan, d.pair, d.hardware).issue # "none"
    OBVIOUS
  <2>2. plan = parts
    BY <1>1, OneReading DEF ExecutePlan
  <2>3. parts.kernel # NoPart /\ Paired(parts.kernel, parts.normal) = {}
    BY <1>8, <2>1
  <2>4. \/ Authorize(plan, d.pair, d.hardware) = RefusedFor("CurrentInvalid")
        \/ Authorize(plan, d.pair, d.hardware) = RefusedFor("FirmwareInvalid")
    BY <2>2, <2>3 DEF Authorize, AuthorizePair
  <2> QED BY <2>4 DEF RefusedFor
<1>10. decision.issue = "InstalledFirmwareMismatch" =>
          /\ parts.kernel = NoPart /\ HeadersValid(NoPart, parts.normal)
          /\ ~HeadersAgree(unit.pair.kernel, parts.normal)
  <2>1. basis.kernel.kind = "Kernel" /\ parts.normal.kind = "Normal"
    BY <1>6, <1>7 DEF Kernels, Normals
  <2> QED BY <1>6, <1>8, <2>1 DEF HeadersValid
<1>11. decision.issue = "SoftNo" =>
          /\ FamilyGate(InstalledBody(basis).family, parts.normal.body.family)
          /\ parts.kernel.recognized \/ parts.kernel = unit.pair.kernel
  BY <1>6, <1>8 DEF CheckLoadedReceiver
<1>12. RefusalIsTold'
  <2>1. (InstalledBody(basis).family)' = InstalledBody(basis).family
    BY <1>3
  <2>2. ExecutePlan(firmware)' = ExecutePlan(firmware)
    BY <1>3
  <2> QED BY <1>1, <1>3, <1>4, <1>5, <1>8, <1>9, <1>10, <1>11, <2>1, <2>2 DEF RefusalIsTold
<1>13. CatalogueAgrees'
  <2>1. /\ listing.status = "Yes" => decision.issue = "none"
        /\ listing.status = "Conditional" =>
              (decision.issue = "none" <=>
                  \E r \in listing.routes : r.status = "Conditional" /\ r.needs = {unit.hardware})
        /\ listing.status = "SoftNo" => decision.issue = "SoftNo"
        /\ listing.status = "HardNo" => decision.issue \notin {"none", "SoftNo"}
    BY <1>1, <1>2, <1>4, ListingIsTheDecision
  <2>2. verdict'.issue = decision.issue /\ (gate' = "admitted" <=> decision.issue = "none")
        /\ (gate' = "refused" <=> decision.issue # "none")
    BY <1>3, <1>4
  <2> QED BY <1>3, <2>1, <2>2 DEF CatalogueAgrees
<1> QED BY <1>1, <1>3, <1>5, <1>12, <1>13 DEF DecidedInv

\* What a recovery binds is refused for what its receiver says (recovery.rs:
\* assemble_policy).
LEMMA PrepareTells ==
    ASSUME PlanInv, DecidedInv, NEW kinds, NEW bypass \in BOOLEAN, PrepareRecoveryPlan(kinds, bypass)
    PROVE  DecidedInv'
<1>1. ~Flashes
  BY DEF PlanInv, PrepareRecoveryPlan
<1>2. PICK target, pair, transfer, received :
         /\ \E h : received = Receive(pair, h, target.kernel, transfer.body, bypass)
         /\ Decide(Bind(pair, target, transfer, received))
         /\ parts' = target /\ basis' = pair
  BY DEF PrepareRecoveryPlan
<1>3. /\ verdict' = Bind(pair, target, transfer, received)
      /\ gate' = IF verdict'.issue = "none" THEN "admitted" ELSE "refused"
      /\ unit' = unit /\ firmware' = firmware /\ listing' = listing
  BY <1>2 DEF Decide
<1>4. /\ received.issue \in Issues
      /\ received.issue = "HardwareMismatch" => InstalledBody(pair).family # Unknown
  BY <1>2, ReceiverSays
<1>5. verdict'.issue = received.issue
  BY <1>3, <1>4 DEF Bind, RefusedFor, Granted
<1>6. ~Flashes'
  BY <1>1, <1>3 DEF Flashes
<1>7. InstalledBody(basis)' = InstalledBody(pair)
  BY <1>2
<1>8. RefusalIsTold'
  BY <1>4, <1>5, <1>6, <1>7 DEF RefusalIsTold, Issues
<1> QED BY <1>3, <1>6, <1>8 DEF DecidedInv, CatalogueAgrees

\* What refusals say and what the catalogue listed, kept by every step.
THEOREM DecisionsInvariant == PlanSpec => [](PlanInv /\ DecidedInv)
<1>1. PlanInit => DecidedInv
  BY DEF PlanInit, DecidedInv, Flashes, RefusalIsTold, CatalogueAgrees
<1>2. PlanInv /\ DecidedInv /\ [PlanNext]_planVars => DecidedInv'
  <2> SUFFICES ASSUME PlanInv, DecidedInv, [PlanNext]_planVars PROVE DecidedInv'
    OBVIOUS
  <2>1. CASE AuthorizeFlash
    BY <2>1, AuthorizeTells
  <2>2. ASSUME NEW kinds \in Captures, NEW bypass \in BOOLEAN, PrepareRecoveryPlan(kinds, bypass)
        PROVE  DecidedInv'
    BY <2>2, PrepareTells
  <2>3. CASE List \/ PlanFlash \/ TargetInvalid \/ UNCHANGED planVars
    <3>1. {} \in Captures
      BY DEF Captures
    <3> QED BY <2>3, <3>1, RefusingKeeps
  <2>4. ASSUME NEW kinds \in Captures, SaveBackup(kinds) \/ CaptureInvalid(kinds)
        PROVE  DecidedInv'
    BY <2>4, RefusingKeeps
  <2>5. ASSUME NEW references, IdentifyDrive(references)
        PROVE  DecidedInv'
    <3>1. {} \in Captures
      BY DEF Captures
    <3> QED BY <2>5, <3>1, RefusingKeeps
  <2> QED BY <2>1, <2>2, <2>3, <2>4, <2>5 DEF PlanNext
<1> QED BY <1>1, <1>2, PlanInvariant, PTL DEF PlanSpec

\* Admission is right: what is admitted fits, a refusal says what is wrong, and the
\* catalogue, made of two files, keeps its word on the drive (mod.rs: plan,
\* verify_backup, authorize; recovery.rs: prepare; crossflash.rs: classified_routes).
THEOREM AdmissionsAreRight == PlanSpec => []AdmissionIsRight
<1>1. PlanInv /\ DecidedInv => AdmissionIsRight
  BY DEF PlanInv, DecidedInv, AdmissionIsRight
<1> QED BY <1>1, DecisionsInvariant, PTL
=============================================================================
