----------------------------- MODULE ComponentProofs -----------------------------
(***************************************************************************)
(* The invariants of the small components, for every value of their        *)
(* constants.  Each component has an inductive invariant, which says what  *)
(* has been established when the component is at a given step.             *)
(***************************************************************************)
EXTENDS ScsiCommand, MediumProbe, BankBackup, PioneerCapture, Detection, PreparedRecovery,
        DriveFlags, MemorySweep, FiniteSetTheorems, TLAPS

-----------------------------------------------------------------------------
(* ScsiCommand: as long as the caller has no reply, nothing was performed.  *)
CommandInv ==
    /\ command \in Commands /\ (command.empty <=> command.direction = "none")
    /\ attempt \in {1, 2}
    /\ performed \in {0, 1}
    /\ reply = "none" => performed = 0
    /\ PerformedOnce

\* A command is performed once at most, and success is reported only of one that
\* the drive's last answer vouches for (adapter.rs: run_inner, data_out).
THEOREM CommandsArePerformedOnce == CommandSpec => []PerformedOnce
<1>1. CommandInit => CommandInv
  BY DEF CommandInit, CommandInv, Commands, PerformedOnce
<1>2. CommandInv /\ [Attempt]_commandVars => CommandInv'
  <2>1. SUFFICES ASSUME CommandInv, Attempt PROVE CommandInv'
    BY DEF CommandInv, PerformedOnce, commandVars
  <2>2. PICK a \in Answers :
          /\ Possible(a) /\ answer' = a
          /\ \E n \in Performs(a) : performed' = performed + n
          /\ IF Retries(a) THEN attempt' = 2 /\ UNCHANGED reply
             ELSE reply' = (IF Accepts(a) THEN "ok" ELSE "error") /\ UNCHANGED attempt
    BY <2>1 DEF Attempt
  <2>3. reply = "none" /\ performed = 0 /\ command' = command
    BY <2>1 DEF Attempt, CommandInv
  <2>4. Performs(a) \subseteq {0, 1}
    BY DEF Performs
  <2>5. performed' \in Performs(a) /\ performed' \in {0, 1}
    BY <2>2, <2>3, <2>4
  <2>6. CASE Retries(a)
    <3>1. Performs(a) = {0}
      BY <2>6 DEF Retries, Performs
    <3> QED BY <2>1, <2>2, <2>3, <2>5, <2>6, <3>1 DEF CommandInv, PerformedOnce
  <2>7. CASE ~Retries(a)
    <3>1. reply' = (IF Accepts(a) THEN "ok" ELSE "error") /\ attempt' = attempt
      BY <2>2, <2>7
    <3>2. ASSUME reply' = "ok", command.strict
          PROVE  a.via = "good" /\ (command.direction = "out" => performed' = 1)
      <4>1. a.via = "good" /\ CountFits(a) /\ a.sense = "none"
        BY <3>1, <3>2, <2>2 DEF Accepts, Tolerates, Possible
      <4>2. command.direction = "out" => Performs(a) = {1}
        BY <4>1 DEF Performs, CountFits
      <4> QED BY <4>1, <4>2, <2>5
    <3>3. ASSUME reply' = "ok", command.direction = "in"
          PROVE  a.sense \in {"none", "recovered"}
      <4>1. command.empty = FALSE
        BY <2>1, <3>3 DEF CommandInv
      <4> QED BY <3>1, <3>3, <4>1, <2>2 DEF Accepts, Tolerates, Possible
    <3> QED BY <2>1, <2>2, <2>3, <2>5, <3>1, <3>2, <3>3 DEF CommandInv, PerformedOnce
  <2> QED BY <2>6, <2>7
<1>3. CommandInv => PerformedOnce
  BY DEF CommandInv
<1> QED BY <1>1, <1>2, <1>3, PTL DEF CommandSpec

-----------------------------------------------------------------------------
(* MediumProbe: what the last command established of the tray.              *)
ProbeInv ==
    /\ tray \in {"open", "empty", "idle", "ready"}
    /\ slot => tray # "open"
    /\ mechanism => slot
    /\ slot \in BOOLEAN /\ mechanism \in BOOLEAN
    /\ status # "none" <=> probing = "done"
    /\ probing = "second" /\ tray = "idle" => spinUp = "failed"
    /\ EmptyIsProven

\* "Closed and empty" is said of an empty tray alone, but for a disc that a failed
\* spin-up left at rest, however often the tray is moved (adapter.rs: medium_status).
THEOREM EmptyTraysAreProven == ProbeSpec => []EmptyIsProven
<1>1. ProbeInit => ProbeInv
  BY DEF ProbeInit, ProbeInv, EmptyIsProven
<1>2. ProbeInv /\ [ProbeNext]_probeVars => ProbeInv'
  <2> SUFFICES ASSUME ProbeInv, [ProbeNext]_probeVars PROVE ProbeInv'
    OBVIOUS
  <2> USE DEF ProbeInv, EmptyIsProven
  <2>1. CASE UnitAttention
    BY <2>1 DEF UnitAttention, Ends
  <2>2. CASE TransportFails
    BY <2>2 DEF TransportFails, Ends
  <2>3. CASE TestUnitReady
    BY <2>3 DEF TestUnitReady, Ends, Proceed
  <2>4. CASE Mechanism
    <3>1. PICK positive \in {FALSE, slot} :
            IF positive
            THEN mechanism' = TRUE /\ Proceed("spinUp") /\ UNCHANGED retried
            ELSE Ends("open")
      BY <2>4 DEF Mechanism
    <3>2. tray' = tray /\ slot' = slot /\ spinUp' = spinUp /\ status = "none"
      BY <2>4 DEF Mechanism
    <3>3. CASE positive
      <4>1. slot = TRUE
        BY <3>1, <3>3, Zenon
      <4>2. mechanism' = TRUE /\ probing' = "spinUp" /\ status' = "none"
        BY <3>1, <3>2, <3>3 DEF Proceed
      <4> QED BY <3>2, <4>1, <4>2
    <3>4. CASE ~positive
      <4>1. mechanism' = mechanism /\ probing' = "done" /\ status' = "open"
        BY <3>1, <3>4 DEF Ends
      <4> QED BY <3>2, <4>1
    <3> QED BY <3>3, <3>4
  <2>5. CASE SpinUp
    BY <2>5 DEF SpinUp, Proceed
  <2>6. CASE TestUnitReadyAgain
    <3>1. PICK s \in Senses, positive \in {mechanism, mechanism \/ slot} :
            Ends(IF s = "noMedium" \/ (s = "trayOpen" /\ positive) THEN "empty" ELSE "disc")
      BY <2>6 DEF TestUnitReadyAgain
    <3>2. s = "noMedium" => tray \in {"empty", "idle"}
      BY DEF Senses
    <3>3. s = "trayOpen" /\ positive => tray \in {"empty", "idle"}
      BY DEF Senses
    <3> QED BY <2>6, <3>1, <3>2, <3>3 DEF TestUnitReadyAgain, Ends
  <2>7. CASE MoveTray
    BY <2>7 DEF MoveTray
  <2>8. CASE UNCHANGED probeVars
    BY <2>8 DEF probeVars
  <2> QED BY <2>1, <2>2, <2>3, <2>4, <2>5, <2>6, <2>7, <2>8 DEF ProbeNext, Probe
<1>3. ProbeInv => EmptyIsProven
  BY DEF ProbeInv
<1> QED BY <1>1, <1>2, <1>3, PTL DEF ProbeSpec

-----------------------------------------------------------------------------
(* BankBackup: while the save goes on, the directories exist and the entries *)
(* below the directory to be synced next are durable.                        *)
Saving == {"create", "publish", "ancestors", "confirm", "done", "failed"}

BankInv ==
    /\ saving \in Saving /\ syncing \in 0..Depth
    /\ saving # "failed" => made \in 0..Depth /\ lasting \in [Entries -> BOOLEAN]
    /\ saving \in {"create", "publish"} => syncing = Depth
    /\ saving \in {"publish", "ancestors", "confirm"} => made = Depth
    /\ saving \in {"ancestors", "confirm"} => file = "whole"
    /\ saving = "ancestors" => \A k \in Entries : k > syncing + 1 => lasting[k]
    /\ saving = "confirm" => \A k \in Entries : lasting[k]
    /\ receipt => saving \in {"done", "failed"} /\ made = Depth
    /\ ReceiptIsDurable

\* However deep the directory, and whenever the power is lost, a receipt stands for
\* a whole file that is found again (bank_backup.rs: persist, sync_ancestors).
THEOREM ReceiptsAreDurable == BankSpec => []ReceiptIsDurable
<1> USE DepthAssumption
<1>1. BankInit => BankInv
  <2> SUFFICES ASSUME BankInit PROVE BankInv
    OBVIOUS
  <2>1. lasting \in [Entries -> BOOLEAN]
    BY DEF BankInit
  <2>2. made \in 0..Depth /\ syncing = Depth /\ saving = "create" /\ receipt = FALSE
    BY DEF BankInit
  <2>3. saving \in Saving /\ syncing \in 0..Depth
    BY <2>2 DEF Saving
  <2>4. ReceiptIsDurable
    BY <2>2 DEF ReceiptIsDurable
  <2> QED BY <2>1, <2>2, <2>3, <2>4 DEF BankInv
<1>2. BankInv /\ [BankNext]_bankVars => BankInv'
  <2> SUFFICES ASSUME BankInv, [BankNext]_bankVars PROVE BankInv'
    OBVIOUS
  <2> USE DEF BankInv, ReceiptIsDurable, Saving, Entries
  <2>1. CASE CreateDirectories
    BY <2>1 DEF CreateDirectories
  <2>2. CASE Publish
    <3>1. CASE Stops
      BY <2>2, <3>1 DEF Publish, Stops
    <3>2. CASE ~Stops
      <4>1. /\ saving = "publish" /\ saving' = "ancestors" /\ file' = "whole"
            /\ lasting' = [lasting EXCEPT ![Depth + 1] = TRUE]
            /\ UNCHANGED <<made, syncing, receipt>>
        BY <2>2, <3>2 DEF Publish
      <4>2. \A k \in Entries : (lasting[k] \/ k = Depth + 1) => lasting'[k]
        BY <4>1
      <4>3. lasting' \in [Entries -> BOOLEAN] /\ lasting'[Depth + 1]
        BY <4>1, <4>2
      <4>4. made = Depth /\ syncing \in 0..Depth /\ ~receipt
        BY <4>1
      <4>5. saving' = "ancestors" => \A k \in Entries : k > syncing' + 1 => lasting'[k]
        BY <4>1, <4>2
      <4> QED BY <4>1, <4>3, <4>4, <4>5
    <3> QED BY <3>1, <3>2
  <2>3. CASE SyncAncestor
    <3>1. CASE Stops
      BY <2>3, <3>1 DEF Stops
    <3>2. CASE ~Stops
      <4>1. /\ saving = "ancestors" /\ lasting' = [lasting EXCEPT ![syncing + 1] = TRUE]
            /\ UNCHANGED <<made, file, receipt>>
        BY <2>3, <3>2 DEF SyncAncestor
      <4>2. \A k \in Entries : k > syncing => lasting'[k]
        BY <4>1
      <4>3. CASE syncing = 0
        BY <2>3, <3>2, <4>1, <4>2, <4>3 DEF SyncAncestor
      <4>4. CASE syncing # 0
        BY <2>3, <3>2, <4>1, <4>2, <4>4 DEF SyncAncestor
      <4> QED BY <4>3, <4>4
    <3> QED BY <3>1, <3>2
  <2>4. CASE Confirm
    BY <2>4 DEF Confirm, Stops
  <2>5. CASE LoseBankPower
    <3>1. saving' = "failed" /\ UNCHANGED <<syncing, receipt>>
      BY <2>5 DEF LoseBankPower
    <3>2. CASE receipt
      <4> DEFINE reach(survived) == {k \in 1..made : \A j \in 1..k : lasting[j] \/ j \in survived}
      <4>1. PICK survived \in SUBSET {k \in 1..made : ~lasting[k]} :
              /\ made' = IF reach(survived) = {} THEN 0
                         ELSE CHOOSE k \in reach(survived) : \A j \in reach(survived) : j <= k
              /\ file' = IF made' = Depth /\ lasting[Depth + 1] THEN file ELSE "none"
              /\ lasting' = [k \in Entries |-> (k <= made') \/ (k = Depth + 1 /\ file' # "none")]
        BY <2>5 DEF LoseBankPower
      <4>2. reach(survived) = 1..Depth
        BY <3>2
      <4>3. made' = Depth
        <5>1. \E k \in 1..Depth : \A j \in 1..Depth : j <= k
          OBVIOUS
        <5>2. made' = CHOOSE k \in 1..Depth : \A j \in 1..Depth : j <= k
          <6> HIDE DEF reach
          <6>1. reach(survived) # {}
            BY <4>2, <5>1
          <6> QED BY <4>1, <4>2, <6>1
        <5>3. made' \in 1..Depth /\ \A j \in 1..Depth : j <= made'
          BY <5>1, <5>2
        <5> QED BY <5>3
      <4>4. file' = "whole"
        BY <3>2, <4>1, <4>3
      <4>5. ASSUME NEW k \in Entries PROVE lasting'[k]
        <5>1. k <= made' \/ (k = Depth + 1 /\ file' # "none")
          BY <4>3, <4>4
        <5> QED BY <4>1, <5>1
      <4> QED BY <3>1, <3>2, <4>3, <4>4, <4>5
    <3>3. CASE ~receipt
      BY <3>1, <3>3
    <3> QED BY <3>2, <3>3
  <2>6. CASE UNCHANGED bankVars
    BY <2>6 DEF bankVars
  <2> QED BY <2>1, <2>2, <2>3, <2>4, <2>5, <2>6 DEF BankNext, Persist, PersistBridge, Saves
<1>3. BankInv => ReceiptIsDurable
  BY DEF BankInv
<1> QED BY <1>1, <1>2, <1>3, PTL DEF BankSpec

-----------------------------------------------------------------------------
(* PioneerCapture: what was read of the regions before the one being read.  *)
Before(r) == CASE r = "kernel" -> {} [] r = "header" -> {"kernel"} [] r = "normal" -> {"kernel", "header"}
               [] OTHER -> {}

CaptureInv ==
    /\ capturing \in {"identity", "probe", "assemble", "kernelOnly", "saved", "failed"} \cup Regions
    /\ chunks \in Seq(Chunk) /\ region \in [Regions -> Seq(Chunk)]
    /\ passes \in [Regions -> Seq(Seq(Chunk))]
    /\ capturing \in {"identity", "probe"} => \A r \in Regions : passes[r] = <<>>
    /\ capturing \in Regions =>
         /\ \A r \in Before(capturing) : StableRegion(r)
         /\ passes[capturing] = <<>> \/ \E c \in Seq(Chunk) : passes[capturing] = <<c>>
         /\ \A r \in Regions \ (Before(capturing) \cup {capturing}) : passes[r] = <<>>
    /\ capturing = "kernelOnly" => StableRegion("kernel")
    /\ capturing = "assemble" => \A r \in Regions : StableRegion(r)
    /\ capturing # "saved" => archive = {}
    /\ ArchiveIsStable

\* However long the regions and whatever the drive does, an archive holds only what
\* two complete passes both read (pioneer/backup.rs: capture_signed_candidate).
THEOREM ArchivesAreStable == CaptureSpec => []ArchiveIsStable
<1> USE CaptureAssumption
<1>1. CaptureInit => CaptureInv
  <2> SUFFICES ASSUME CaptureInit PROVE CaptureInv
    OBVIOUS
  <2>1. \A r \in Regions : passes[r] = <<>>
    BY DEF CaptureInit
  <2>2. /\ chunks \in Seq(Chunk) /\ region \in [Regions -> Seq(Chunk)]
        /\ passes \in [Regions -> Seq(Seq(Chunk))]
    BY DEF CaptureInit
  <2> QED BY <2>1, <2>2 DEF CaptureInit, CaptureInv, ArchiveIsStable, Regions
<1>2. CaptureInv /\ [CaptureNext]_captureVars => CaptureInv'
  <2> SUFFICES ASSUME CaptureInv, [CaptureNext]_captureVars PROVE CaptureInv'
    OBVIOUS
  <2>1. CASE RegionFails /\ capturing \in {"identity", "probe"} \cup Regions
    BY <2>1 DEF CaptureInv, RegionFails, ArchiveIsStable, StableRegion, Regions, Before
  <2>2. CASE ReadCaptureIdentity /\ ~RegionFails
    BY <2>2 DEF CaptureInv, ReadCaptureIdentity, ArchiveIsStable, StableRegion, Regions, Before
  <2>3. CASE ProbeAccess /\ ~RegionFails
    BY <2>3 DEF CaptureInv, ProbeAccess, ArchiveIsStable, StableRegion, Regions, Before
  <2>4. CASE ReadRegionChunk /\ ~RegionFails
    <3>1. PICK c \in Chunk : chunks' = Append(chunks, c)
      BY <2>4 DEF ReadRegionChunk
    <3>2. chunks' \in Seq(Chunk)
      BY <3>1 DEF CaptureInv
    <3>3. UNCHANGED <<capturing, probes, passes, region, archive>> /\ capturing \in Regions
      BY <2>4 DEF ReadRegionChunk
    <3> QED BY <3>2, <3>3 DEF CaptureInv, ArchiveIsStable, StableRegion
  <2>5. CASE EndFirstPass
    <3>1. /\ capturing \in Regions /\ passes[capturing] = <<>> /\ chunks' = <<>>
          /\ passes' = [passes EXCEPT ![capturing] = Append(@, chunks)]
          /\ UNCHANGED <<capturing, probes, region, archive>>
      BY <2>5 DEF EndFirstPass, PassEnds
    <3>2. passes'[capturing] = <<chunks>>
      BY <3>1 DEF CaptureInv
    <3>3. \A r \in Regions : r # capturing => passes'[r] = passes[r] /\ (StableRegion(r) => StableRegion(r)')
      BY <3>1 DEF CaptureInv, StableRegion
    <3>4. passes' \in [Regions -> Seq(Seq(Chunk))] /\ chunks' \in Seq(Chunk)
      BY <3>1 DEF CaptureInv
    <3>5. Before(capturing) \subseteq Regions \ {capturing}
      BY <3>1 DEF Before, Regions
    <3>6. archive = {} /\ capturing \notin {"identity", "probe", "kernelOnly", "assemble", "saved"}
      BY <3>1 DEF CaptureInv, Regions
    <3> QED BY <3>1, <3>2, <3>3, <3>4, <3>5, <3>6 DEF CaptureInv, ArchiveIsStable
  <2>6. CASE EndSecondPass /\ ~RegionFails
    <3>1. /\ capturing \in Regions /\ passes[capturing] # <<>> /\ chunks = passes[capturing][1]
          /\ Len(chunks) = RegionChunks /\ chunks' = <<>>
          /\ passes' = [passes EXCEPT ![capturing] = Append(@, chunks)]
          /\ region' = [region EXCEPT ![capturing] = chunks] /\ capturing' = NextRegion(capturing)
          /\ UNCHANGED <<probes, archive>>
      BY <2>6 DEF EndSecondPass, PassEnds
    <3>2. passes[capturing] = <<chunks>>
      BY <3>1 DEF CaptureInv
    <3>3. /\ Len(passes'[capturing]) = 2 /\ region'[capturing] = chunks
          /\ passes'[capturing][1] = chunks /\ passes'[capturing][2] = chunks
      BY <3>1, <3>2 DEF CaptureInv
    <3>4. \A r \in Regions : r # capturing => passes'[r] = passes[r] /\ (StableRegion(r) => StableRegion(r)')
      BY <3>1 DEF CaptureInv, StableRegion
    <3>5. \A r \in Regions : r = capturing => StableRegion(r)'
      BY <3>1, <3>3 DEF StableRegion
    <3>6. /\ passes' \in [Regions -> Seq(Seq(Chunk))] /\ chunks' \in Seq(Chunk)
          /\ region' \in [Regions -> Seq(Chunk)]
      BY <3>1 DEF CaptureInv
    <3>7. archive' = {} /\ \A r \in Before(capturing) : StableRegion(r)
      BY <3>1 DEF CaptureInv, Regions
    <3>8. CASE capturing = "kernel"
      BY <3>1, <3>4, <3>5, <3>6, <3>7, <3>8
         DEF CaptureInv, ArchiveIsStable, NextRegion, Before, Regions
    <3>9. CASE capturing = "header"
      BY <3>1, <3>4, <3>5, <3>6, <3>7, <3>9
         DEF CaptureInv, ArchiveIsStable, NextRegion, Before, Regions
    <3>10. CASE capturing = "normal"
      BY <3>1, <3>4, <3>5, <3>6, <3>7, <3>10
         DEF CaptureInv, ArchiveIsStable, NextRegion, Before, Regions
    <3> QED BY <3>1, <3>8, <3>9, <3>10 DEF Regions
  <2>7. CASE Assemble
    BY <2>7 DEF CaptureInv, Assemble, ArchiveIsStable, StableRegion, Regions, Before
  <2>8. CASE UNCHANGED captureVars
    BY <2>8 DEF CaptureInv, captureVars, ArchiveIsStable, StableRegion, Regions, Before
  <2>9. ReadCaptureIdentity \/ ProbeAccess \/ ReadRegionChunk \/ EndSecondPass =>
          capturing \in {"identity", "probe"} \cup Regions
    BY DEF ReadCaptureIdentity, ProbeAccess, ReadRegionChunk, EndSecondPass, PassEnds
  <2> QED BY <2>1, <2>2, <2>3, <2>4, <2>5, <2>6, <2>7, <2>8, <2>9 DEF CaptureNext
<1>3. CaptureInv => ArchiveIsStable
  BY DEF CaptureInv
<1> QED BY <1>1, <1>2, <1>3, PTL DEF CaptureSpec

-----------------------------------------------------------------------------
(* Detection: what the probes found is true of the drive, and a conclusion  *)
(* is drawn only from what this detection found.                            *)
Results == {"unread", "rejected", "failed", "absent", "identity", "evidence"}

DetectionInv ==
    /\ purpose \in {"flash", "recovery", "recoveryWithCurrent"}
    /\ found \in [Protocols -> Results]
    /\ \A p \in Protocols : found[p] \in {"identity", "evidence"} => p \in speaks
    /\ loader => found["pioneer"] # "evidence"
    /\ found["mediatek"] # "identity"
    /\ detecting # "answered" => chosen = "none"
    /\ detecting = "decide" =>
         /\ Evident = {} => Failed = {}
         /\ conclusion = "detected" => Evident # {} /\ Evident # Protocols
         /\ conclusion = "unknown" => Evident = {}
    /\ detecting = "inquiry" => found = [p \in Protocols |-> "unread"]
    /\ SelectionIsProven

\* Whatever the probes of a drive give, a backend chosen is one of a protocol it shows,
\* and "none" is not the answer of a failed probe (detection.rs: detect; registry.rs;
\* the facets' identification).
THEOREM SelectionsAreProven == DetectionSpec => []SelectionIsProven
<1> USE DEF Protocols
<1>1. DetectionInit => DetectionInv
  BY DEF DetectionInit, DetectionInv, SelectionIsProven, Results
<1>2. DetectionInv /\ [DetectionNext]_detectionVars => DetectionInv'
  <2> SUFFICES ASSUME DetectionInv, [DetectionNext]_detectionVars PROVE DetectionInv'
    OBVIOUS
  <2>1. ASSUME Answer("error"), detecting # "answered" PROVE DetectionInv'
    BY <2>1 DEF Answer, DetectionInv, SelectionIsProven, Evident, Failed
  <2>2. CASE Inquiry
    <3>1. CASE Answer("error")
      BY <2>1, <2>2, <3>1 DEF Inquiry
    <3>2. CASE ~Answer("error")
      <4>1. Evident = {} /\ Failed = {}
        BY <2>2 DEF Inquiry, DetectionInv, Evident, Failed
      <4> QED BY <2>2, <3>2, <4>1 DEF Inquiry, DetectionInv, SelectionIsProven, Evident, Failed
    <3> QED BY <3>1, <3>2
  <2>3. ASSUME NEW p \in Protocols, VendorProbe(p) PROVE DetectionInv'
    <3>1. PICK r \in ProbeResults(p) : found' = [found EXCEPT ![p] = r]
      BY <2>3 DEF VendorProbe
    <3>2. /\ r \in Results /\ (r \in {"identity", "evidence"} => p \in speaks)
          /\ r = "identity" => p = "pioneer"
          /\ p = "pioneer" /\ loader => r # "evidence"
      BY <3>1 DEF ProbeResults, Results
    <3>3. found' \in [Protocols -> Results] /\ found'[p] = r
          /\ \A q \in Protocols \ {p} : found'[q] = found[q]
      BY <3>1, <3>2 DEF DetectionInv
    <3>4. /\ detecting = p /\ detecting' \in {"mediatek", "conclude"}
          /\ UNCHANGED <<speaks, loader, purpose, candidates, conclusion, chosen>>
      BY <2>3 DEF VendorProbe, FollowedBy
    <3> QED BY <3>2, <3>3, <3>4 DEF DetectionInv, SelectionIsProven
  <2>4. CASE Conclude
    <3>1. CASE Evident = {} /\ Failed # {}
      BY <2>1, <2>4, <3>1 DEF Conclude
    <3>2. CASE ~(Evident = {} /\ Failed # {})
      BY <2>4, <3>2 DEF Conclude, DetectionInv, SelectionIsProven, Evident, Failed
    <3> QED BY <3>1, <3>2
  <2>5. ASSUME detecting = "decide", Answer("none") PROVE DetectionInv'
    BY <2>5 DEF Answer, DetectionInv, SelectionIsProven, Evident, Failed
  <2>6. ASSUME NEW b \in Protocols, detecting = "decide", Answer(b),
               found[b] = "evidence" \/ (found[b] = "identity" /\ purpose = "recoveryWithCurrent"),
               \A q \in Protocols \ {b} : found[q] # "evidence",
               purpose = "flash" => ~loader
        PROVE  DetectionInv'
    BY <2>6 DEF Answer, DetectionInv, SelectionIsProven, Evident, Failed
  <2>7. CASE Resolve
    <3>1. detecting = "decide" /\ purpose = "flash"
      BY <2>7 DEF Resolve
    <3>2. CASE conclusion = "detected" /\ ~(Evident = {"mediatek"} /\ loader)
      <4>1. PICK p \in Evident : Answer(p)
        BY <2>7, <3>2 DEF Resolve
      <4>2. p \in Protocols /\ found[p] = "evidence" /\ \A q \in Protocols \ {p} : found[q] # "evidence"
        BY <3>1, <3>2, <4>1 DEF Evident, DetectionInv
      <4>3. ~loader
        BY <3>2, <4>2 DEF Evident, DetectionInv
      <4> QED BY <2>6, <3>1, <4>1, <4>2, <4>3
    <3>3. CASE ~(conclusion = "detected" /\ ~(Evident = {"mediatek"} /\ loader))
      BY <2>1, <2>5, <2>7, <3>1, <3>3 DEF Resolve
    <3> QED BY <3>2, <3>3
  <2>8. ASSUME detecting = "decide", AskNext PROVE DetectionInv'
    <3>1. CASE candidates = {Asked}
      BY <2>5, <2>8, <3>1 DEF AskNext
    <3>2. CASE candidates # {Asked}
      BY <2>8, <3>2 DEF AskNext, DetectionInv, SelectionIsProven, Results
    <3> QED BY <3>1, <3>2
  <2>9. CASE Identify
    <3>1. detecting = "decide" /\ purpose # "flash" /\ Asked \in Protocols
      BY <2>9 DEF Identify, Asked
    <3>2. CASE Answer("error")
      BY <2>1, <3>1, <3>2
    <3>3. CASE AskNext
      BY <2>8, <3>1, <3>3
    <3>4. CASE Answer("currentRequired")
      BY <3>1, <3>4 DEF Answer, DetectionInv, SelectionIsProven, Evident, Failed
    <3>5. CASE conclusion = "detected" /\ Evident = {Asked} /\ Answer(Asked)
      <4>1. found[Asked] = "evidence" /\ \A q \in Protocols \ {Asked} : found[q] # "evidence"
        BY <3>1, <3>5 DEF Evident
      <4> QED BY <2>6, <3>1, <3>5, <4>1
    <3>6. CASE /\ Asked = "pioneer" /\ conclusion = "unknown" /\ found["pioneer"] = "identity"
               /\ purpose = "recoveryWithCurrent" /\ Answer("pioneer")
      <4>1. \A q \in Protocols : found[q] # "evidence"
        BY <3>1, <3>6 DEF Evident, DetectionInv
      <4> QED BY <2>6, <3>1, <3>6, <4>1
    <3>7. \/ Answer("error") \/ AskNext \/ Answer("currentRequired")
          \/ conclusion = "detected" /\ Evident = {Asked} /\ Answer(Asked)
          \/ /\ Asked = "pioneer" /\ conclusion = "unknown" /\ found["pioneer"] = "identity"
             /\ purpose = "recoveryWithCurrent" /\ Answer("pioneer")
      <4>1. CASE Asked = "mediatek"
        BY <2>9, <3>1, <4>1 DEF Identify, IdentifyMediatek
      <4>2. CASE Asked = "pioneer"
        <5>1. IdentifyPioneer /\ (purpose = "recovery" \/ purpose = "recoveryWithCurrent")
          BY <2>9, <3>1, <4>2 DEF Identify, DetectionInv
        <5>2. CASE conclusion = "ambiguous"
          BY <5>1, <5>2 DEF IdentifyPioneer
        <5>3. CASE conclusion = "unknown" /\ found["pioneer"] = "identity"
          BY <4>2, <5>1, <5>3 DEF IdentifyPioneer
        <5>4. CASE conclusion = "detected" /\ Evident = {"pioneer"}
          BY <4>2, <5>1, <5>4 DEF IdentifyPioneer
        <5>5. CASE /\ conclusion # "ambiguous" /\ ~(conclusion = "detected" /\ Evident = {"pioneer"})
                   /\ ~(conclusion = "unknown" /\ found["pioneer"] = "identity")
          BY <5>1, <5>5 DEF IdentifyPioneer
        <5> QED BY <5>2, <5>3, <5>4, <5>5
      <4> QED BY <3>1, <4>1, <4>2 DEF Protocols
    <3> QED BY <3>2, <3>3, <3>4, <3>5, <3>6, <3>7
  <2>10. CASE UNCHANGED detectionVars
    BY <2>10 DEF detectionVars, DetectionInv, SelectionIsProven, Evident, Failed
  <2> QED BY <2>2, <2>3, <2>4, <2>7, <2>9, <2>10 DEF DetectionNext
<1>3. DetectionInv => SelectionIsProven
  BY DEF DetectionInv
<1> QED BY <1>1, <1>2, <1>3, PTL DEF DetectionSpec

-----------------------------------------------------------------------------
(* PreparedRecovery, for any drives, requests, preparations and callers.    *)
LEMMA RecoveryInitInvariant == RecoveryInit => RecoveryInv
<1> SUFFICES ASSUME RecoveryInit PROVE RecoveryInv
  OBVIOUS
<1>1. RecoveryTypes
  BY DEF RecoveryInit, RecoveryTypes
<1>2. OnePlace
  BY DEF RecoveryInit, OnePlace, Held, Begun
<1>3. IdentityKept
  BY DEF RecoveryInit, IdentityKept
<1>4. RecoversOnceWhatWasPrepared
  BY DEF RecoveryInit, RecoversOnceWhatWasPrepared
<1> QED
  BY <1>1, <1>2, <1>3, <1>4 DEF RecoveryInv

-----------------------------------------------------------------------------
(* The preparation. *)

LEMMA PreparationFailsInvariant ==
  ASSUME RecoveryInv, NEW p \in Preparations, PreparationFails(p)
  PROVE  RecoveryInv'
<1> USE DEF PreparationFails, PrepareTo
<1>1. RecoveryTypes'
  BY DEF RecoveryInv, RecoveryTypes
<1>2. OnePlace'
  BY DEF RecoveryInv, RecoveryTypes, OnePlace, Held, Begun
<1>3. IdentityKept'
  BY DEF RecoveryInv, RecoveryTypes, IdentityKept, SessionIsTrue
<1>4. RecoversOnceWhatWasPrepared'
  BY DEF RecoveryInv, RecoversOnceWhatWasPrepared
<1> QED
  BY <1>1, <1>2, <1>3, <1>4 DEF RecoveryInv

LEMMA OpenRecoveryInvariant ==
  ASSUME RecoveryInv, NEW p \in Preparations, OpenRecovery(p)
  PROVE  RecoveryInv'
<1>1. /\ preparing[p] = "open" /\ attached \in Drives
      /\ handle' = [handle EXCEPT ![p] = attached] /\ receiver' = [receiver EXCEPT ![p] = attached]
      /\ preparing' = [preparing EXCEPT ![p] = "bind"]
      /\ UNCHANGED <<attached, retained, executing, taken, entered>>
  BY DEF OpenRecovery, PrepareTo, RecoveryInv, RecoveryTypes
<1>2. RecoveryTypes'
  BY <1>1 DEF RecoveryInv, RecoveryTypes
<1>3. OnePlace'
  BY <1>1 DEF RecoveryInv, RecoveryTypes, OnePlace, Held, Begun
<1>4. IdentityKept'
  BY <1>1, RecoveryAssumption DEF RecoveryInv, RecoveryTypes, IdentityKept, SessionIsTrue
<1>5. RecoversOnceWhatWasPrepared'
  BY <1>1 DEF RecoveryInv, RecoversOnceWhatWasPrepared
<1> QED
  BY <1>2, <1>3, <1>4, <1>5 DEF RecoveryInv

LEMMA RetainInvariant ==
  ASSUME RecoveryInv, NEW p \in Preparations, Retain(p)
  PROVE  RecoveryInv'
<1>1. PICK i \in {NoIdentity} \cup {InquiryOf[d] : d \in {handle[p]} \cap Drives} :
        retained' = [retained EXCEPT ![p] = [of |-> p, receiver |-> receiver[p], identity |-> i]]
  BY DEF Retain
<1>2. /\ preparing[p] = "bind" /\ preparing' = [preparing EXCEPT ![p] = "ready"]
      /\ UNCHANGED <<attached, receiver, handle, executing, taken, entered>>
  BY DEF Retain, PrepareTo
<1>3. receiver[p] \in Drives /\ handle[p] \in {receiver[p], NoDrive}
  BY <1>2 DEF RecoveryInv, IdentityKept
<1>4. i = NoIdentity \/ i = InquiryOf[receiver[p]]
  BY <1>1, <1>3, RecoveryAssumption
<1> DEFINE s == [of |-> p, receiver |-> receiver[p], identity |-> i]
<1>5. s \in RecoverySessions /\ s # NoSession /\ s.of = p /\ SessionIsTrue(s)
  BY <1>3, <1>4, SessionAssumption DEF RecoverySessions, SessionIsTrue
<1>6. retained' = [retained EXCEPT ![p] = s]
  BY <1>1
<1> HIDE DEF s
<1>7. RecoveryTypes'
  BY <1>2, <1>5, <1>6 DEF RecoveryInv, RecoveryTypes
<1>8. OnePlace'
  BY <1>2, <1>5, <1>6 DEF RecoveryInv, RecoveryTypes, OnePlace, Held, Begun
<1>9. IdentityKept'
  BY <1>2, <1>5, <1>6 DEF RecoveryInv, RecoveryTypes, IdentityKept, SessionIsTrue
<1>10. RecoversOnceWhatWasPrepared'
  BY <1>2 DEF RecoveryInv, RecoversOnceWhatWasPrepared
<1> QED
  BY <1>7, <1>8, <1>9, <1>10 DEF RecoveryInv

-----------------------------------------------------------------------------
(* The calls. *)

LEMMA ReturnErrorInvariant ==
  ASSUME RecoveryInv, NEW c \in Callers, ReturnError(c)
  PROVE  RecoveryInv'
<1>1. /\ executing' = [executing EXCEPT ![c] = "idle"] /\ taken' = [taken EXCEPT ![c] = NoSession]
      /\ UNCHANGED <<attached, preparing, receiver, handle, retained, entered>>
  BY DEF ReturnError, ExecuteTo
<1>2. RecoveryTypes'
  BY <1>1 DEF RecoveryInv, RecoveryTypes
<1>3. OnePlace'
  BY <1>1 DEF RecoveryInv, RecoveryTypes, OnePlace, Held, Begun
<1>4. IdentityKept'
  BY <1>1 DEF RecoveryInv, RecoveryTypes, IdentityKept, SessionIsTrue
<1>5. RecoversOnceWhatWasPrepared'
  BY <1>1 DEF RecoveryInv, RecoversOnceWhatWasPrepared
<1> QED
  BY <1>2, <1>3, <1>4, <1>5 DEF RecoveryInv

\* The session leaves the mutex in the step in which the call gets it.
LEMMA TakeInvariant ==
  ASSUME RecoveryInv, NEW c \in Callers, Take(c)
  PROVE  RecoveryInv'
<1>1. PICK p \in Preparations :
        /\ executing[c] = "idle" /\ preparing[p] = "ready" /\ retained[p] # NoSession
        /\ executing' = [executing EXCEPT ![c] = "reopen"]
        /\ taken' = [taken EXCEPT ![c] = retained[p]]
        /\ retained' = [retained EXCEPT ![p] = NoSession]
        /\ UNCHANGED <<attached, preparing, receiver, handle, entered>>
  BY DEF Take, ExecuteTo
<1> DEFINE s == retained[p]
<1>2. /\ s \in RecoverySessions /\ s # NoSession /\ s.of = p /\ ~Held(p) /\ ~Begun(p)
      /\ SessionIsTrue(s)
  BY <1>1 DEF RecoveryInv, RecoveryTypes, OnePlace, IdentityKept
<1>3. taken' = [taken EXCEPT ![c] = s]
  BY <1>1
<1> HIDE DEF s
<1>4. RecoveryTypes'
  BY <1>1, <1>2, <1>3 DEF RecoveryInv, RecoveryTypes
<1>5. \A q \in Preparations : q # p => (Held(q)' => Held(q))
  BY <1>2, <1>3 DEF RecoveryInv, RecoveryTypes, Held
<1>6. \A q \in Preparations : Begun(q)' = Begun(q)
  BY <1>1 DEF Begun
<1>7. OnePlace'
  <2>1. \A q \in Preparations :
          preparing'[q] # "ready" => retained'[q] = NoSession /\ ~Held(q)' /\ ~Begun(q)'
    BY <1>1, <1>5, <1>6 DEF RecoveryInv, RecoveryTypes, OnePlace
  <2>2. \A q \in Preparations :
          retained'[q] # NoSession => retained'[q].of = q /\ ~Held(q)' /\ ~Begun(q)'
    BY <1>1, <1>5, <1>6 DEF RecoveryInv, RecoveryTypes, OnePlace
  <2>3. \A q \in Preparations : Held(q)' => ~Begun(q)'
    BY <1>2, <1>5, <1>6 DEF RecoveryInv, OnePlace
  <2>4. \A d, e \in Callers :
          taken'[d] # NoSession /\ taken'[e] # NoSession /\ taken'[d].of = taken'[e].of => d = e
    BY <1>2, <1>3 DEF RecoveryInv, RecoveryTypes, OnePlace, Held
  <2> QED
    BY <2>1, <2>2, <2>3, <2>4 DEF OnePlace
<1>8. IdentityKept'
  BY <1>1, <1>2, <1>3 DEF RecoveryInv, RecoveryTypes, IdentityKept, SessionIsTrue
<1>9. RecoversOnceWhatWasPrepared'
  BY <1>1 DEF RecoveryInv, RecoversOnceWhatWasPrepared
<1> QED
  BY <1>4, <1>7, <1>8, <1>9 DEF RecoveryInv

LEMMA ReopenInvariant ==
  ASSUME RecoveryInv, NEW c \in Callers, Reopen(c)
  PROVE  RecoveryInv'
<1>1. CASE ReturnError(c)
  BY <1>1, ReturnErrorInvariant
<1>2. CASE ~ReturnError(c)
  <2>1. /\ executing[c] = "reopen" /\ handle' = [handle EXCEPT ![c] = attached]
        /\ executing' = [executing EXCEPT ![c] = "revalidate"]
        /\ UNCHANGED <<attached, preparing, receiver, retained, taken, entered>>
    BY <1>2 DEF Reopen, ExecuteTo
  <2>2. RecoveryTypes'
    BY <2>1 DEF RecoveryInv, RecoveryTypes
  <2>3. OnePlace'
    BY <2>1 DEF RecoveryInv, RecoveryTypes, OnePlace, Held, Begun
  <2>4. \A p \in Preparations : handle'[p] = handle[p]
    BY <2>1, RecoveryAssumption DEF RecoveryInv, RecoveryTypes
  <2>5. \A d \in Callers :
          executing'[d] = "execute" => executing[d] = "execute" /\ handle'[d] = handle[d]
    BY <2>1 DEF RecoveryInv, RecoveryTypes
  <2>6. \A d \in Callers : executing'[d] # "idle" => executing[d] # "idle"
    BY <2>1 DEF RecoveryInv, RecoveryTypes
  <2>7. IdentityKept'
    BY <2>1, <2>4, <2>5, <2>6 DEF RecoveryInv, RecoveryTypes, IdentityKept, SessionIsTrue
  <2>8. RecoversOnceWhatWasPrepared'
    BY <2>1 DEF RecoveryInv, RecoversOnceWhatWasPrepared
  <2> QED
    BY <2>2, <2>3, <2>7, <2>8 DEF RecoveryInv
<1> QED
  BY <1>1, <1>2

LEMMA RevalidateInvariant ==
  ASSUME RecoveryInv, NEW c \in Callers, Revalidate(c)
  PROVE  RecoveryInv'
<1>1. CASE ReturnError(c)
  BY <1>1, ReturnErrorInvariant
<1>2. CASE ~ReturnError(c)
  <2>1. /\ executing[c] = "revalidate" /\ InquiryOf[handle[c]] = taken[c].identity
        /\ executing' = [executing EXCEPT ![c] = "execute"]
        /\ UNCHANGED <<attached, preparing, receiver, handle, retained, taken, entered>>
    BY <1>2 DEF Revalidate, ExecuteTo
  <2>2. RecoveryTypes'
    BY <2>1 DEF RecoveryInv, RecoveryTypes
  <2>3. OnePlace'
    BY <2>1 DEF RecoveryInv, RecoveryTypes, OnePlace, Held, Begun
  <2>4. IdentityKept'
    BY <2>1 DEF RecoveryInv, RecoveryTypes, IdentityKept, SessionIsTrue
  <2>5. RecoversOnceWhatWasPrepared'
    BY <2>1 DEF RecoveryInv, RecoversOnceWhatWasPrepared
  <2> QED
    BY <2>2, <2>3, <2>4, <2>5 DEF RecoveryInv
<1> QED
  BY <1>1, <1>2

\* The update begins with the session of a call, which no other update has, on a
\* drive with its identity, which is not empty and so is its receiver's.
LEMMA ExecuteInvariant ==
  ASSUME RecoveryInv, NEW c \in Callers, Execute(c)
  PROVE  RecoveryInv'
<1>1. CASE ReturnError(c)
  BY <1>1, ReturnErrorInvariant
<1>2. CASE ~ReturnError(c)
  <2> DEFINE u == [session |-> taken[c], by |-> c, on |-> handle[c]]
  <2>1. /\ executing[c] = "execute" /\ handle[c] # NoDrive /\ entered' = entered \cup {u}
        /\ executing' = [executing EXCEPT ![c] = "idle"] /\ taken' = [taken EXCEPT ![c] = NoSession]
        /\ UNCHANGED <<attached, preparing, receiver, handle, retained>>
    BY <1>2 DEF Execute, ExecuteTo
  <2>2. /\ taken[c] \in RecoverySessions /\ taken[c] # NoSession /\ SessionIsTrue(taken[c])
        /\ handle[c] \in Drives /\ InquiryOf[handle[c]] = taken[c].identity
    BY <2>1 DEF RecoveryInv, RecoveryTypes, IdentityKept
  <2>3. InquiryOf[handle[c]] = InquiryOf[taken[c].receiver]
    BY <2>2, RecoveryAssumption DEF SessionIsTrue
  <2>4. u.session = taken[c] /\ u.on = handle[c] /\ u \in [session : RecoverySessions, by : Callers, on : Drives]
    BY <2>2
  <2>5. taken[c].of \in Preparations
    BY <2>2 DEF RecoverySessions
  <2> HIDE DEF u
  <2>6. Held(taken[c].of) /\ ~Begun(taken[c].of) /\ retained[taken[c].of] = NoSession
        /\ preparing[taken[c].of] = "ready"
    BY <2>2, <2>5 DEF RecoveryInv, OnePlace, Held
  <2>7. RecoveryTypes'
    BY <2>1, <2>4 DEF RecoveryInv, RecoveryTypes
  <2>8. \A p \in Preparations : Held(p)' => Held(p) /\ p # taken[c].of
    BY <2>1, <2>2 DEF RecoveryInv, RecoveryTypes, OnePlace, Held
  <2>9. \A p \in Preparations : Begun(p)' => Begun(p) \/ p = taken[c].of
    BY <2>1, <2>4 DEF Begun
  <2>10. \A d, e \in Callers :
           taken'[d] # NoSession /\ taken'[e] # NoSession /\ taken'[d].of = taken'[e].of => d = e
    BY <2>1 DEF RecoveryInv, RecoveryTypes, OnePlace
  <2>11. OnePlace'
    BY <2>1, <2>6, <2>8, <2>9, <2>10 DEF RecoveryInv, OnePlace
  <2>12. IdentityKept'
    BY <2>1 DEF RecoveryInv, RecoveryTypes, IdentityKept, SessionIsTrue
  <2>13. \A v \in entered : v.session.of # u.session.of
    BY <2>4, <2>6 DEF Begun
  <2>14. RecoversOnceWhatWasPrepared'
    BY <2>1, <2>3, <2>4, <2>13 DEF RecoveryInv, RecoversOnceWhatWasPrepared
  <2> QED
    BY <2>7, <2>11, <2>12, <2>14 DEF RecoveryInv
<1> QED
  BY <1>1, <1>2

LEMMA ExchangeInvariant ==
  ASSUME RecoveryInv, NEW d \in Drives \cup {NoDrive}, Exchange(d)
  PROVE  RecoveryInv'
<1>1. /\ attached' = d /\ handle' = [w \in Preparations \cup Callers |-> NoDrive]
      /\ UNCHANGED <<preparing, receiver, retained, executing, taken, entered>>
  BY DEF Exchange
<1>2. RecoveryTypes'
  BY <1>1 DEF RecoveryInv, RecoveryTypes
<1>3. OnePlace'
  BY <1>1 DEF RecoveryInv, RecoveryTypes, OnePlace, Held, Begun
<1>4. IdentityKept'
  BY <1>1 DEF RecoveryInv, RecoveryTypes, IdentityKept, SessionIsTrue
<1>5. RecoversOnceWhatWasPrepared'
  BY <1>1 DEF RecoveryInv, RecoversOnceWhatWasPrepared
<1> QED
  BY <1>2, <1>3, <1>4, <1>5 DEF RecoveryInv

-----------------------------------------------------------------------------
\* A prepared session is in one place and keeps the identity it was prepared with,
\* however calls on clones interleave. (workflow.rs: PreparedRecovery.)
THEOREM RecoveryInvariant == RecoverySpec => []RecoveryInv
<1>1. RecoveryInit => RecoveryInv
  BY RecoveryInitInvariant
<1>2. RecoveryInv /\ [RecoveryNext]_recoveryVars => RecoveryInv'
  <2> SUFFICES ASSUME RecoveryInv, [RecoveryNext]_recoveryVars PROVE RecoveryInv'
    OBVIOUS
  <2>1. CASE \E p \in Preparations : PreparationFails(p) \/ OpenRecovery(p) \/ Retain(p)
    BY <2>1, PreparationFailsInvariant, OpenRecoveryInvariant, RetainInvariant
  <2>2. CASE \E c \in Callers : Take(c) \/ Reopen(c) \/ Revalidate(c) \/ Execute(c)
    BY <2>2, TakeInvariant, ReopenInvariant, RevalidateInvariant, ExecuteInvariant
  <2>3. CASE \E d \in Drives \cup {NoDrive} : Exchange(d)
    BY <2>3, ExchangeInvariant
  <2>4. CASE UNCHANGED recoveryVars
    BY <2>4 DEF recoveryVars, RecoveryInv, RecoveryTypes, OnePlace, Held, Begun, IdentityKept,
       SessionIsTrue, RecoversOnceWhatWasPrepared
  <2> QED
    BY <2>1, <2>2, <2>3, <2>4 DEF RecoveryNext
<1> QED
  BY <1>1, <1>2, PTL DEF RecoverySpec

\* One preparation begins at most one update, and only on a drive that reports the
\* identity of the one it was prepared for, for any number of clones and of exchanges
\* of the drive. (workflow.rs: execute_recovery, execute_recovery_on.)
THEOREM RecoversOnce == RecoverySpec => []RecoversOnceWhatWasPrepared
<1>1. RecoveryInv => RecoversOnceWhatWasPrepared
  BY DEF RecoveryInv
<1> QED
  BY <1>1, RecoveryInvariant, PTL

-----------------------------------------------------------------------------
(* DriveFlags, for any number of grants, settings and images: its types,    *)
(* that the bypass's grants end with it, and what a saved block restores.   *)
(* Both properties are inductive beside the types.                          *)
(* A program does not leave a mixture, whatever was in the block before.   *)
LEMMA ProgramKeeps ==
    ASSUME FlagsTypeOK, SavedSettingsAreKept,
           baked' = baked,
           NEW w, Program(w),
           w.block \in [marker : Bytes, bytes : Configs],
           w.keeps = IF w.block.marker = Oem THEN Unsaved ELSE w.block.bytes
    PROVE  /\ SavedSettingsAreKept'
           /\ block' \in [marker : Bytes, bytes : Configs]
           /\ kept' \in Configs \cup {Unsaved} /\ cut' \in BOOLEAN
<1>1. CASE block' = w.block /\ kept' = w.keeps /\ cut' = FALSE
  <2>1. w.block.bytes # Unsaved /\ w.block.bytes \in Configs
    BY FlagsAssumption
  <2> QED BY <1>1, <2>1 DEF SavedSettingsAreKept, FromFlash
<1>2. CASE UNCHANGED <<block, kept, cut>>
  BY <1>2 DEF SavedSettingsAreKept, FromFlash, FlagsTypeOK
<1> QED BY <1>1, <1>2 DEF Program

(* Each write is a block of bytes with the settings it means to keep.      *)
LEMMA WritesAreBlocks ==
    ASSUME FlagsTypeOK, NEW w \in OneByteWrites \cup {SavedFlags, Blank}
    PROVE  /\ w.block \in [marker : Bytes, bytes : Configs]
           /\ w.keeps = IF w.block.marker = Oem THEN Unsaved ELSE w.block.bytes
<1>1. /\ flag \in Configs /\ block \in [marker : Bytes, bytes : Configs]
      /\ On \in Bytes /\ Oem \in Bytes /\ On # Oem
  BY DEF FlagsTypeOK, Bytes, On, Oem
<1>2. AllOem \in Configs
  BY <1>1 DEF Configs, AllOem
<1>3. CASE w = SavedFlags
  BY <1>1, <1>3 DEF SavedFlags
<1>4. CASE w = Blank
  BY <1>1, <1>2, <1>4 DEF Blank
<1>5. CASE w \in {KeptIn([block EXCEPT !.marker = v]) : v \in {On, Oem}}
  <2>1. PICK v \in {On, Oem} : w = KeptIn([block EXCEPT !.marker = v])
    BY <1>5
  <2>2. [block EXCEPT !.marker = v] \in [marker : Bytes, bytes : Configs]
    BY <1>1
  <2> QED BY <2>1, <2>2 DEF KeptIn
<1>6. CASE w \in {KeptIn([block EXCEPT !.bytes[c[1]] = c[2]]) : c \in Choices}
  <2>1. PICK c \in Choices : w = KeptIn([block EXCEPT !.bytes[c[1]] = c[2]])
    BY <1>6
  <2>2. c \in Features \X Bytes
    BY FlagsAssumption
  <2>3. block.bytes \in [Features -> Bytes] /\ c[1] \in Features /\ c[2] \in Bytes
    BY <1>1, <2>2 DEF Configs
  <2>4. [block.bytes EXCEPT ![c[1]] = c[2]] \in Configs
    BY <2>3 DEF Configs
  <2>5. [block EXCEPT !.bytes[c[1]] = c[2]] \in [marker : Bytes, bytes : Configs]
    BY <1>1, <2>4
  <2> QED BY <2>1, <2>5 DEF KeptIn
<1> QED BY <1>3, <1>4, <1>5, <1>6 DEF OneByteWrites

(* When the settings change, a grant remains only if the bypass stays as   *)
(* it was, or was off before.                                              *)
LEMMA GrantsStayContained ==
    ASSUME FlagsTypeOK, BypassIsContained,
           NEW next \in Configs, flag' = next, agid' = GrantsAfter(next),
           latched' = latched, meddled' = meddled, stub' = stub
    PROVE  BypassIsContained' /\ agid' \in [Agids -> {"none", "host", "bypass"}]
<1>1. CASE flag["Encryption"] = Off /\ next["Encryption"] # Off
  BY <1>1 DEF GrantsAfter, NoGrant, BypassIsContained, VidReleased
<1>2. CASE ~(flag["Encryption"] = Off /\ next["Encryption"] # Off)
  BY <1>2 DEF GrantsAfter, BypassIsContained, VidReleased, FlagsTypeOK
<1> QED BY <1>1, <1>2

FlagsInv == FlagsTypeOK /\ BypassIsContained /\ SavedSettingsAreKept

LEMMA FlagsStart == FlagsInit => FlagsInv
<1> SUFFICES ASSUME FlagsInit PROVE FlagsInv
  OBVIOUS
<1>1. FlagsTypeOK
  <2>1. AllOem \in Configs /\ Oem \in Bytes
    BY DEF AllOem, Configs, Bytes, Oem
  <2>2. NoGrant \in [Agids -> {"none", "host", "bypass"}]
    BY DEF NoGrant
  <2> QED BY <2>1, <2>2, FlagsAssumption DEF FlagsInit, FlagsTypeOK
<1>2. BypassIsContained
  BY DEF FlagsInit, BypassIsContained, NoGrant, VidReleased
<1>3. SavedSettingsAreKept
  BY DEF FlagsInit, SavedSettingsAreKept, FromFlash
<1> QED BY <1>1, <1>2, <1>3 DEF FlagsInv

(* A start ends the bypass's grants, unless memory was meddled with.       *)
LEMMA StartsAreContained ==
    ASSUME FlagsTypeOK, NEW warm \in BOOLEAN, Started(warm)
    PROVE  /\ BypassIsContained'
           /\ flag' \in Configs /\ latched' \in BOOLEAN /\ meddled' \in BOOLEAN
           /\ agid' \in [Agids -> {"none", "host", "bypass"}]
<1>1. agid' \in {agid, NoGrant}
  BY DEF Started
<1>2. agid' \in [Agids -> {"none", "host", "bypass"}]
  BY <1>1 DEF NoGrant, FlagsTypeOK
<1>3. BypassIsContained'
  BY DEF Started, BypassIsContained, NoGrant, VidReleased
<1> QED BY <1>2, <1>3 DEF Started, FlagsTypeOK

LEMMA FlagsStep == FlagsInv /\ [FlagsNext]_flagsVars => FlagsInv'
<1> SUFFICES ASSUME FlagsInv, [FlagsNext]_flagsVars PROVE FlagsInv'
  OBVIOUS
<1> USE DEF FlagsInv
<1>1. ASSUME NEW c \in Choices, SetFlag(c[1], c[2]) PROVE FlagsInv'
  <2>1. c[1] \in Features /\ c[2] \in Bytes
    BY FlagsAssumption
  <2>2. flag' \in Configs
    BY <1>1, <2>1 DEF SetFlag, FlagsTypeOK, Configs
  <2>3. BypassIsContained' /\ agid' \in [Agids -> {"none", "host", "bypass"}]
    BY <1>1, <2>2, GrantsStayContained DEF SetFlag
  <2> QED BY <1>1, <2>2, <2>3 DEF SetFlag, FlagsTypeOK, SavedSettingsAreKept, FromFlash
<1>2. ASSUME NEW c \in Choices, Poke(c[1], c[2]) PROVE FlagsInv'
  <2>1. flag' \in Configs
    BY <1>2, FlagsAssumption DEF Poke, FlagsTypeOK, Configs
  <2> QED BY <1>2, <2>1 DEF Poke, FlagsTypeOK, BypassIsContained, SavedSettingsAreKept, FromFlash
<1>3. ASSUME NEW next \in Configs, ResetFlags(next) PROVE FlagsInv'
  <2>1. BypassIsContained' /\ agid' \in [Agids -> {"none", "host", "bypass"}]
    BY <1>3, GrantsStayContained DEF ResetFlags
  <2> QED BY <1>3, <2>1 DEF ResetFlags, FlagsTypeOK, SavedSettingsAreKept, FromFlash
<1>4. CASE SaveFlags
  <2>1. SavedSettingsAreKept' /\ block' \in [marker : Bytes, bytes : Configs]
          /\ kept' \in Configs \cup {Unsaved} /\ cut' \in BOOLEAN
    BY <1>4, ProgramKeeps, WritesAreBlocks DEF SaveFlags
  <2> QED BY <1>4, <2>1 DEF SaveFlags, FlagsTypeOK, BypassIsContained, VidReleased
<1>5. CASE ResetToOem
  <2>1. SavedSettingsAreKept' /\ block' \in [marker : Bytes, bytes : Configs]
          /\ kept' \in Configs \cup {Unsaved} /\ cut' \in BOOLEAN
    BY <1>5, ProgramKeeps, WritesAreBlocks DEF ResetToOem
  <2>2. AllOem \in Configs
    BY DEF AllOem, Configs, Bytes, Oem
  <2>3. BypassIsContained' /\ agid' \in [Agids -> {"none", "host", "bypass"}]
    BY <1>5, <2>2, GrantsStayContained DEF ResetToOem
  <2> QED BY <1>5, <2>1, <2>2, <2>3 DEF ResetToOem, FlagsTypeOK
<1>6. CASE FlashWrite
  <2>1. PICK w \in OneByteWrites : Program(w)
    BY <1>6 DEF FlashWrite
  <2>2. SavedSettingsAreKept' /\ block' \in [marker : Bytes, bytes : Configs]
          /\ kept' \in Configs \cup {Unsaved} /\ cut' \in BOOLEAN
    BY <1>6, <2>1, ProgramKeeps, WritesAreBlocks DEF FlashWrite
  <2> QED BY <1>6, <2>2 DEF FlashWrite, FlagsTypeOK, BypassIsContained, VidReleased
<1>7. ASSUME NEW warm \in BOOLEAN, StartDrive(warm) PROVE FlagsInv'
  <2>1. /\ BypassIsContained' /\ flag' \in Configs /\ latched' \in BOOLEAN /\ meddled' \in BOOLEAN
        /\ agid' \in [Agids -> {"none", "host", "bypass"}]
    BY <1>7, StartsAreContained DEF StartDrive
  <2> QED BY <1>7, <2>1 DEF StartDrive, Started, FlagsTypeOK, SavedSettingsAreKept, FromFlash
<1>8. CASE PowerFails
  <2>1. PICK w \in OneByteWrites \cup {SavedFlags, Blank} : block' \in TornBlocks(w.block) /\ kept' = w.keeps
    BY <1>8 DEF PowerFails
  <2>2. /\ w.block \in [marker : Bytes, bytes : Configs]
        /\ w.keeps = IF w.block.marker = Oem THEN Unsaved ELSE w.block.bytes
    BY <2>1, WritesAreBlocks
  <2>3. PICK m \in {Oem, w.block.marker}, done \in SUBSET {f \in Features : w.block.bytes[f] # Oem} :
          block' = [marker |-> m,
                    bytes |-> [f \in Features |-> IF f \in done THEN w.block.bytes[f] ELSE Oem]]
    BY <2>1 DEF TornBlocks
  <2>4. block' \in [marker : Bytes, bytes : Configs]
    <3>1. Oem \in Bytes /\ w.block.marker \in Bytes /\ w.block.bytes \in [Features -> Bytes]
      BY <2>2, SMTT(30) DEF Configs, Bytes, Oem
    <3>2. [f \in Features |-> IF f \in done THEN w.block.bytes[f] ELSE Oem] \in Configs
      BY <3>1 DEF Configs
    <3> QED BY <2>3, <3>1, <3>2
  <2>5. SavedSettingsAreKept'
    <3>1. CASE m = Oem
      BY <1>8, <2>3, <3>1 DEF PowerFails, SavedSettingsAreKept, FromFlash
    <3>2. CASE m # Oem
      <4>1. kept' = w.block.bytes /\ kept' # Unsaved
        BY <2>1, <2>2, <2>3, <3>2, FlagsAssumption
      <4>2. FromFlash' = block'.bytes
        BY <2>3, <3>2 DEF FromFlash
      <4> QED BY <1>8, <2>3, <4>1, <4>2 DEF PowerFails, SavedSettingsAreKept
    <3> QED BY <3>1, <3>2
  <2>6. /\ BypassIsContained' /\ flag' \in Configs /\ latched' \in BOOLEAN /\ meddled' \in BOOLEAN
        /\ agid' \in [Agids -> {"none", "host", "bypass"}]
    BY <1>8, StartsAreContained DEF PowerFails
  <2>7. kept' \in Configs \cup {Unsaved} /\ cut' = TRUE
    BY <1>8, <2>1, <2>2 DEF PowerFails
  <2> QED BY <1>8, <2>4, <2>5, <2>6, <2>7 DEF PowerFails, Started, FlagsTypeOK
<1>9. CASE InsertDisc
  BY <1>9 DEF InsertDisc, FlagsTypeOK, NoGrant, BypassIsContained, VidReleased, SavedSettingsAreKept, FromFlash
<1>10. ASSUME NEW a \in Agids, NEW valid \in BOOLEAN, Handshake(a, valid) PROVE FlagsInv'
  <2>1. StateAfter(valid) \in {"none", "host", "bypass"}
    BY DEF StateAfter
  <2>2. StateAfter(valid) = "bypass" => flag["Encryption"] = Off /\ Bypassed(valid)
    BY DEF StateAfter, Bypassed
  <2>3. agid' \in [Agids -> {"none", "host", "bypass"}] /\ latched' \in BOOLEAN
    BY <1>10, <2>1 DEF Handshake, FlagsTypeOK
  <2>4. BypassIsContained'
    BY <1>10, <2>1, <2>2, <2>3 DEF Handshake, BypassResets, BypassIsContained, VidReleased, FlagsTypeOK
  <2> QED BY <1>10, <2>3, <2>4 DEF Handshake, FlagsTypeOK, SavedSettingsAreKept, FromFlash
<1>11. ASSUME NEW a \in Agids, ReadVid(a) PROVE FlagsInv'
  BY <1>11 DEF ReadVid, FlagsTypeOK, BypassIsContained, VidReleased, SavedSettingsAreKept, FromFlash
<1>12. CASE UNCHANGED flagsVars
  BY <1>12 DEF flagsVars, FlagsTypeOK, BypassIsContained, VidReleased, SavedSettingsAreKept, FromFlash
<1>13. baked \in Configs /\ FromFlash \in Configs
  BY DEF FlagsTypeOK, FromFlash
<1> QED
  BY <1>1, <1>2, <1>3, <1>4, <1>5, <1>6, <1>7, <1>8, <1>9, <1>10, <1>11, <1>12, <1>13 DEF FlagsNext

\* No grant made by the bypass remains once Encryption is not off, whichever command,
\* reset or start changed it; and except on classic images, no bus key is armed while
\* one lives (core.rs: the `clr` path of the handler, the stubs of the handshake and the
\* volume identifier, the boot hook; mt1939_classic.rs: the classic stub).
THEOREM BypassesAreContained == FlagsSpec => []BypassIsContained
<1>1. FlagsInv => BypassIsContained
  BY DEF FlagsInv
<1> QED BY <1>1, FlagsStart, FlagsStep, PTL DEF FlagsSpec

\* RESET_TO_FLASH restores what the last program saved, else the image's settings, and
\* after a cut program no mixture with older ones (core.rs: SAVE, RESET and FLASHWRITE).
THEOREM SettingsAreKept == FlagsSpec => []SavedSettingsAreKept
<1>1. FlagsInv => SavedSettingsAreKept
  BY DEF FlagsInv
<1> QED BY <1>1, FlagsStart, FlagsStep, PTL DEF FlagsSpec

-----------------------------------------------------------------------------
(* MemorySweep: the gaps are of the filled pieces, and the count of the     *)
(* rest, whichever reads failed in whichever order.                         *)
Taken(pieces) == {i \in 1..Len(pieces) : pieces[i] = "drive"}
InGaps(recorded, i) == \E g \in 1..Len(recorded) : recorded[g][1] < i /\ i <= recorded[g][2]

GapsAreExact ==
    /\ Filled = {i \in 1..Len(image) : InGaps(gaps, i)}
    /\ \A g \in 1..Len(gaps) : gaps[g][1] < gaps[g][2] /\ gaps[g][2] <= Len(image)
    /\ \A g \in 1..(Len(gaps) - 1) : gaps[g][2] < gaps[g + 1][1]

SweepShape ==
    /\ image \in Seq({"drive", "fill"}) /\ gaps \in Seq(Nat \X Nat)
    /\ piece \in Nat /\ readable = Cardinality(Taken(image))

SweepInv ==
    /\ SweepShape /\ GapsAreExact
    /\ captured # "none" => Len(image) = Total /\ piece = 0
    /\ captured = "backup" => Filled = {}
    /\ captured = "dump" => Filled # 1..Total

\* The image with n more pieces.
LEMMA PiecesAreAdded ==
    ASSUME NEW pieces \in Seq({"drive", "fill"}), NEW n \in Nat, NEW c \in {"drive", "fill"},
           NEW longer, longer = pieces \o [i \in 1..n |-> c]
    PROVE  /\ longer \in Seq({"drive", "fill"}) /\ Len(longer) = Len(pieces) + n
           /\ \A i \in 1..Len(pieces) : longer[i] = pieces[i]
           /\ \A i \in (Len(pieces) + 1)..(Len(pieces) + n) : longer[i] = c
<1> DEFINE more == [i \in 1..n |-> c]
<1>1. more \in Seq({"drive", "fill"}) /\ Len(more) = n
  OBVIOUS
<1>2. \A i \in 1..n : more[i] = c
  OBVIOUS
<1>3. longer = pieces \o more
  OBVIOUS
<1> HIDE DEF more
<1>4. longer \in Seq({"drive", "fill"})
  BY <1>1, <1>3
<1>5. Len(longer) = Len(pieces) + n
  BY <1>1, <1>3
<1>6. \A i \in 1..Len(pieces) : longer[i] = pieces[i]
  BY <1>1, <1>3
<1>7. \A i \in (Len(pieces) + 1)..(Len(pieces) + n) : longer[i] = more[i - Len(pieces)]
  BY <1>1, <1>3
<1>. QED
  BY <1>2, <1>4, <1>5, <1>6, <1>7

\* The count of the pieces that are the drive's.
LEMMA PiecesAreCounted ==
    ASSUME NEW pieces \in Seq({"drive", "fill"}), NEW n \in Nat, NEW c \in {"drive", "fill"},
           NEW longer, Len(longer) = Len(pieces) + n,
           \A i \in 1..Len(pieces) : longer[i] = pieces[i],
           \A i \in (Len(pieces) + 1)..(Len(pieces) + n) : longer[i] = c
    PROVE  /\ c = "drive" => Cardinality(Taken(longer)) = Cardinality(Taken(pieces)) + n
           /\ c = "fill" => Cardinality(Taken(longer)) = Cardinality(Taken(pieces))
<1> DEFINE added == (Len(pieces) + 1)..(Len(pieces) + n)
<1>1. /\ Len(longer) = Len(pieces) + n
      /\ \A i \in 1..Len(pieces) : longer[i] = pieces[i]
      /\ \A i \in added : longer[i] = c
  OBVIOUS
<1>2. 1..Len(longer) = (1..Len(pieces)) \cup added
  BY <1>1
<1>3. Taken(pieces) \cap added = {}
  BY DEF Taken
<1>4. IsFiniteSet(1..Len(pieces))
  BY FS_Interval
<1>5. IsFiniteSet(Taken(pieces)) /\ Cardinality(Taken(pieces)) \in Nat
  BY <1>4, FS_Subset, FS_CardinalityType DEF Taken
<1>6. IsFiniteSet(added) /\ Cardinality(added) = n
  BY FS_Interval
<1>7. CASE c = "drive"
  <2>1. Taken(longer) = Taken(pieces) \cup added
    BY <1>1, <1>2, <1>7 DEF Taken
  <2>2. Cardinality(Taken(longer)) = Cardinality(Taken(pieces)) + Cardinality(added) - Cardinality({})
    BY <1>3, <1>5, <1>6, <2>1, FS_Union, SMTT(30)
  <2>3. Cardinality({}) = 0
    BY FS_EmptySet
  <2>. QED
    BY <1>5, <1>6, <1>7, <2>2, <2>3
<1>8. CASE c = "fill"
  <2>1. Taken(longer) = Taken(pieces)
    BY <1>1, <1>2, <1>8 DEF Taken
  <2>. QED
    BY <1>5, <1>8, <2>1
<1>. QED
  BY <1>7, <1>8

\* A gap is recorded, or the last one is extended where it ends.
LEMMA GapIsRecorded ==
    ASSUME SweepShape, GapsAreExact, NEW n \in Nat \ {0}, gaps' = RecordGap(n),
           Len(image') = Len(image) + n,
           Filled' = Filled \cup ((Len(image) + 1)..(Len(image) + n))
    PROVE  gaps' \in Seq(Nat \X Nat) /\ GapsAreExact'
<1> DEFINE L == Len(image)
           last == Len(gaps)
<1>1. L \in Nat /\ last \in Nat /\ gaps \in Seq(Nat \X Nat)
  BY DEF SweepShape
<1>2. \A g \in 1..last : gaps[g][1] \in Nat /\ gaps[g][2] \in Nat
  <2>1. \A g \in 1..last : gaps[g] \in Nat \X Nat
    BY <1>1
  <2>. QED
    BY <2>1
<1>3. /\ \A g \in 1..last : gaps[g][1] < gaps[g][2] /\ gaps[g][2] <= L
      /\ \A g \in 1..(last - 1) : gaps[g][2] < gaps[g + 1][1]
      /\ Filled = {i \in 1..L : InGaps(gaps, i)}
  BY DEF GapsAreExact
<1>4. CASE gaps # <<>> /\ gaps[last][2] = L
  <2>1. last \in 1..last
    BY <1>1, <1>4
  <2>2. gaps' = [gaps EXCEPT ![last] = <<gaps[last][1], L + n>>]
    BY <1>4 DEF RecordGap
  <2>3. gaps' \in Seq(Nat \X Nat) /\ Len(gaps') = last
    BY <1>1, <1>2, <2>1, <2>2
  <2>4. /\ gaps'[last] = <<gaps[last][1], L + n>>
        /\ \A g \in 1..last : g # last => gaps'[g] = gaps[g]
    BY <1>1, <2>1, <2>2
  <2>5. gaps'[last][1] = gaps[last][1] /\ gaps'[last][2] = L + n
    BY <2>4
  <2>6. \A g \in 1..last : gaps'[g][1] = gaps[g][1]
    BY <2>4, <2>5
  <2>7. \A g \in 1..last : gaps'[g][1] < gaps'[g][2] /\ gaps'[g][2] <= L + n
    <3>1. ASSUME NEW g \in 1..last, g # last PROVE gaps'[g][1] < gaps'[g][2] /\ gaps'[g][2] <= L + n
      <4>1. gaps'[g] = gaps[g]
        BY <2>4, <3>1
      <4>. QED
        BY <1>1, <1>2, <1>3, <4>1
    <3>2. gaps'[last][1] < gaps'[last][2] /\ gaps'[last][2] <= L + n
      <4>1. gaps[last][1] \in Nat /\ gaps[last][1] < L
        BY <1>2, <1>3, <1>4, <2>1
      <4>. QED
        BY <1>1, <2>5, <4>1
    <3>. QED
      BY <3>1, <3>2
  <2>8. \A g \in 1..(last - 1) : gaps'[g][2] < gaps'[g + 1][1]
    <3>1. ASSUME NEW g \in 1..(last - 1) PROVE gaps'[g][2] < gaps'[g + 1][1]
      <4>1. g \in 1..last /\ g # last /\ g + 1 \in 1..last
        BY <1>1, SMTT(30)
      <4>2. gaps'[g] = gaps[g] /\ gaps'[g + 1][1] = gaps[g + 1][1]
        BY <2>4, <2>6, <4>1
      <4>. QED
        BY <1>3, <4>2
    <3>. QED
      BY <3>1
  <2>9. \A i \in 1..(L + n) : InGaps(gaps', i) <=> (InGaps(gaps, i) \/ i > L)
    <3>1. ASSUME NEW i \in 1..(L + n), InGaps(gaps', i), i <= L PROVE InGaps(gaps, i)
      <4>1. PICK g \in 1..last : gaps'[g][1] < i /\ i <= gaps'[g][2]
        BY <3>1, <2>3 DEF InGaps
      <4>. QED
        BY <1>1, <1>4, <3>1, <4>1, <2>4, <2>5, <2>1 DEF InGaps
    <3>2. ASSUME NEW i \in 1..(L + n), InGaps(gaps, i) PROVE InGaps(gaps', i)
      <4>1. PICK g \in 1..last : gaps[g][1] < i /\ i <= gaps[g][2]
        BY <3>2 DEF InGaps
      <4>2. gaps'[g][1] < i /\ i <= gaps'[g][2]
        <5>1. CASE g = last
          BY <1>1, <1>4, <4>1, <2>5, <5>1
        <5>2. CASE g # last
          BY <4>1, <2>4, <5>2
        <5>. QED
          BY <5>1, <5>2
      <4>. QED
        BY <2>3, <4>2 DEF InGaps
    <3>3. ASSUME NEW i \in 1..(L + n), i > L PROVE InGaps(gaps', i)
      <4>0. gaps[last][1] < L /\ gaps[last][1] \in Nat
        BY <1>2, <1>3, <1>4, <2>1
      <4>1. gaps'[last][1] < i /\ i <= gaps'[last][2]
        BY <1>1, <2>5, <3>3, <4>0
      <4>. QED
        BY <2>1, <2>3, <4>1 DEF InGaps
    <3>. QED
      BY <1>1, <3>1, <3>2, <3>3
  <2>10. Filled' = {i \in 1..(L + n) : InGaps(gaps', i)}
    <3>1. Filled' = {i \in 1..L : InGaps(gaps, i)} \cup ((L + 1)..(L + n))
      BY <1>3
    <3>2. \A i \in 1..(L + n) : InGaps(gaps, i) => i <= L
      BY <1>1, <1>2, <1>3 DEF InGaps
    <3>. QED
      BY <1>1, <2>9, <3>1, <3>2
  <2>. QED
    BY <2>3, <2>7, <2>8, <2>10 DEF GapsAreExact
<1>5. CASE ~(gaps # <<>> /\ gaps[last][2] = L)
  <2>1. gaps' = Append(gaps, <<L, L + n>>)
    BY <1>5 DEF RecordGap
  <2>2. <<L, L + n>> \in Nat \X Nat
    BY <1>1
  <2>3. gaps' \in Seq(Nat \X Nat) /\ Len(gaps') = last + 1
    BY <1>1, <2>1, <2>2
  <2>4. gaps'[last + 1] = <<L, L + n>> /\ \A g \in 1..last : gaps'[g] = gaps[g]
    BY <1>1, <2>1
  <2>5. gaps'[last + 1][1] = L /\ gaps'[last + 1][2] = L + n
    BY <2>4
  <2>6. last \in 1..last => gaps[last][2] < L
    BY <1>1, <1>2, <1>3, <1>5
  <2>7. \A g \in 1..(last + 1) : gaps'[g][1] < gaps'[g][2] /\ gaps'[g][2] <= L + n
    <3>1. ASSUME NEW g \in 1..last PROVE gaps'[g][1] < gaps'[g][2] /\ gaps'[g][2] <= L + n
      <4>1. gaps'[g] = gaps[g]
        BY <2>4
      <4>. QED
        BY <1>1, <1>2, <1>3, <4>1
    <3>2. gaps'[last + 1][1] < gaps'[last + 1][2] /\ gaps'[last + 1][2] <= L + n
      BY <1>1, <2>5
    <3>3. \A g \in 1..(last + 1) : g \in 1..last \/ g = last + 1
      BY <1>1
    <3>. QED
      BY <3>1, <3>2, <3>3
  <2>8. \A g \in 1..last : gaps'[g][2] < gaps'[g + 1][1]
    <3>1. ASSUME NEW g \in 1..last PROVE gaps'[g][2] < gaps'[g + 1][1]
      <4>1. gaps'[g] = gaps[g]
        BY <2>4
      <4>2. CASE g = last
        <5>1. gaps'[g + 1][1] = L /\ gaps[g][2] < L
          BY <2>5, <2>6, <4>2
        <5>. QED
          BY <4>1, <5>1
      <4>3. CASE g # last
        <5>1. g \in 1..(last - 1) /\ g + 1 \in 1..last
          BY <1>1, <4>3
        <5>2. gaps'[g + 1] = gaps[g + 1]
          BY <2>4, <5>1
        <5>. QED
          BY <1>3, <4>1, <5>1, <5>2
      <4>. QED
        BY <4>2, <4>3
    <3>. QED
      BY <3>1
  <2>9. \A i \in 1..(L + n) : InGaps(gaps', i) <=> (InGaps(gaps, i) \/ i > L)
    <3>1. ASSUME NEW i \in 1..(L + n), InGaps(gaps', i), i <= L PROVE InGaps(gaps, i)
      <4>1. PICK g \in 1..(last + 1) : gaps'[g][1] < i /\ i <= gaps'[g][2]
        BY <3>1, <2>3 DEF InGaps
      <4>2. g # last + 1
        BY <1>1, <3>1, <4>1, <2>5
      <4>3. g \in 1..last /\ gaps'[g] = gaps[g]
        BY <1>1, <4>2, <2>4, SMTT(30)
      <4>. QED
        BY <4>1, <4>3 DEF InGaps
    <3>2. ASSUME NEW i \in 1..(L + n), InGaps(gaps, i) PROVE InGaps(gaps', i)
      <4>1. PICK g \in 1..last : gaps[g][1] < i /\ i <= gaps[g][2]
        BY <3>2 DEF InGaps
      <4>2. g \in 1..(last + 1) /\ gaps'[g][1] < i /\ i <= gaps'[g][2]
        BY <1>1, <2>4, <4>1, SMTT(30)
      <4>. QED
        BY <2>3, <4>2 DEF InGaps
    <3>3. ASSUME NEW i \in 1..(L + n), i > L PROVE InGaps(gaps', i)
      <4>1. last + 1 \in 1..(last + 1) /\ gaps'[last + 1][1] < i /\ i <= gaps'[last + 1][2]
        BY <1>1, <2>5, <3>3
      <4>. QED
        BY <2>3, <4>1 DEF InGaps
    <3>. QED
      BY <1>1, <3>1, <3>2, <3>3
  <2>10. Filled' = {i \in 1..(L + n) : InGaps(gaps', i)}
    <3>1. Filled' = {i \in 1..L : InGaps(gaps, i)} \cup ((L + 1)..(L + n))
      BY <1>3
    <3>2. \A i \in 1..(L + n) : InGaps(gaps, i) => i <= L
      BY <1>1, <1>2, <1>3 DEF InGaps
    <3>. QED
      BY <1>1, <2>9, <3>1, <3>2
  <2>. QED
    BY <1>1, <2>3, <2>7, <2>8, <2>10 DEF GapsAreExact
<1>. QED
  BY <1>4, <1>5

LEMMA PiecesAreTaken ==
    ASSUME SweepShape, GapsAreExact, NEW n \in Nat \ {0}, NEW read \in BOOLEAN, TakePieces(n, read),
           piece' \in Nat
    PROVE  SweepShape' /\ GapsAreExact' /\ Len(image') = Len(image) + n
<1> DEFINE L == Len(image)
<1>1. image \in Seq({"drive", "fill"}) /\ L \in Nat
  BY DEF SweepShape
<1>2. PICK c \in {"drive", "fill"} :
          /\ image' = image \o [i \in 1..n |-> c]
          /\ c = "drive" <=> read
  <2>1. CASE read
    BY <2>1 DEF TakePieces
  <2>2. CASE ~read
    BY <2>2 DEF TakePieces
  <2>. QED
    BY <2>1, <2>2
<1>3. /\ image' \in Seq({"drive", "fill"}) /\ Len(image') = L + n
      /\ \A i \in 1..L : image'[i] = image[i]
      /\ \A i \in (L + 1)..(L + n) : image'[i] = c
  BY <1>1, <1>2, PiecesAreAdded
<1>4. /\ c = "drive" => Cardinality(Taken(image')) = Cardinality(Taken(image)) + n
      /\ c = "fill" => Cardinality(Taken(image')) = Cardinality(Taken(image))
  <2>1. n \in Nat /\ c \in {"drive", "fill"} /\ Len(image') = Len(image) + n
    BY <1>2, <1>3
  <2>2. \A i \in (Len(image) + 1)..(Len(image) + n) : image'[i] = c
    BY <1>3
  <2>3. \A i \in 1..Len(image) : image'[i] = image[i]
    BY <1>3
  <2>. QED
    <3> DEFINE old == image
               new == image'
    <3>1. /\ old \in Seq({"drive", "fill"}) /\ Len(new) = Len(old) + n
          /\ \A i \in (Len(old) + 1)..(Len(old) + n) : new[i] = c
          /\ \A i \in 1..Len(old) : new[i] = old[i]
      BY <1>1, <2>1, <2>2, <2>3
    <3> HIDE DEF old, new
    <3>2. c = "drive" => Cardinality(Taken(new)) = Cardinality(Taken(old)) + n
      BY <2>1, <3>1, PiecesAreCounted
    <3>3. c = "fill" => Cardinality(Taken(new)) = Cardinality(Taken(old))
      BY <2>1, <3>1, PiecesAreCounted
    <3>. QED
      BY <3>2, <3>3 DEF old, new
<1>5. Cardinality(Taken(image)) \in Nat
  <2>1. IsFiniteSet(1..L)
    BY <1>1, FS_Interval
  <2>. QED
    BY <2>1, FS_Subset, FS_CardinalityType DEF Taken
<1>6. readable' = Cardinality(Taken(image'))
  <2>1. CASE read
    BY <1>2, <1>4, <1>5, <2>1 DEF TakePieces, SweepShape
  <2>2. CASE ~read
    BY <1>2, <1>4, <1>5, <2>2 DEF TakePieces, SweepShape
  <2>. QED
    BY <2>1, <2>2
<1>7. CASE read
  <2>1. gaps' = gaps /\ Filled' = Filled
    BY <1>1, <1>2, <1>3, <1>7 DEF TakePieces, Filled
  <2>2. \A g \in 1..Len(gaps) : gaps[g] \in Nat \X Nat
    BY DEF SweepShape
  <2>3. \A i \in 1..(L + n) : InGaps(gaps, i) => i <= L
    BY <1>1, <2>2 DEF InGaps, GapsAreExact
  <2>4. Filled' = {i \in 1..(L + n) : InGaps(gaps', i)}
    BY <1>1, <2>1, <2>3 DEF GapsAreExact
  <2>5. \A g \in 1..Len(gaps) : gaps[g][2] <= L + n
    BY <1>1, <2>2 DEF GapsAreExact
  <2>6. GapsAreExact'
    BY <1>3, <2>1, <2>4, <2>5 DEF GapsAreExact
  <2>. QED
    BY <1>3, <1>6, <2>1, <2>6 DEF SweepShape
<1>8. CASE ~read
  <2>1. gaps' = RecordGap(n)
    BY <1>8 DEF TakePieces
  <2>2. Filled' = Filled \cup ((L + 1)..(L + n))
    BY <1>1, <1>2, <1>3, <1>8 DEF Filled
  <2>. QED
    BY <1>3, <1>6, <2>1, <2>2, GapIsRecorded DEF SweepShape
<1>. QED
  BY <1>7, <1>8

\* At every moment the recorded gaps are exactly the filled pieces and the count is
\* exactly the rest, so no backup is built from an image with fill in it (probe.rs:
\* read_full_image_with_restriction; fwdump.rs: capture_full_image).
THEOREM SweepsAreExact == SweepSpec => []SweepIsExact
<1>1. SweepInit => SweepInv
  <2>1. SUFFICES ASSUME SweepInit PROVE SweepInv
    OBVIOUS
  <2>2. image = <<>> /\ gaps = <<>> /\ piece = 0 /\ readable = 0 /\ captured = "none"
    BY <2>1 DEF SweepInit
  <2>3. Len(image) = 0 /\ Len(gaps) = 0 /\ 1..0 = {}
    BY <2>2
  <2>4. Taken(image) = {} /\ Filled = {} /\ {i \in 1..Len(image) : InGaps(gaps, i)} = {}
    BY <2>3 DEF Taken, Filled
  <2>5. Cardinality(Taken(image)) = 0
    BY <2>4, FS_EmptySet
  <2>. QED
    BY <2>2, <2>3, <2>4, <2>5 DEF SweepInv, SweepShape, GapsAreExact
<1>2. SweepInv /\ [SweepNext]_sweepVars => SweepInv'
  <2>1. ASSUME SweepInv, UNCHANGED <<image, piece, gaps, readable>>, captured' = captured
        PROVE  SweepInv'
    BY <2>1 DEF SweepInv, SweepShape, GapsAreExact, Filled, Total
  <2>2. SUFFICES ASSUME SweepInv, SweepNext PROVE SweepInv'
    BY <2>1 DEF sweepVars
  <2>3. Pieces \in Nat \ {0} /\ Total \in Nat \ {0}
    BY SweepAssumption DEF Total
  <2>4. ASSUME NEW n \in Nat \ {0}, NEW read \in BOOLEAN, TakePieces(n, read), piece' \in Nat,
               captured = "none", captured' = captured
        PROVE  SweepInv'
    BY <2>2, <2>4, PiecesAreTaken DEF SweepInv
  <2>5. CASE ReadChunk
    <3>1. captured = "none" /\ captured' = captured
      BY <2>2, <2>5, <2>3 DEF ReadChunk, ReadExact, SweepInv, SweepShape
    <3>2. CASE \E read \in BOOLEAN : TakePieces(Pieces, read) /\ piece' = piece
      BY <2>2, <2>3, <2>4, <3>1, <3>2 DEF SweepInv, SweepShape
    <3>3. CASE piece' = 1 /\ UNCHANGED <<image, readable, gaps>>
      BY <2>2, <3>1, <3>3 DEF SweepInv, SweepShape, GapsAreExact, Filled, Total
    <3>. QED
      BY <2>5, <3>2, <3>3 DEF ReadChunk
  <2>6. CASE ReadPiece
    <3>1. captured = "none" /\ captured' = captured /\ piece' \in Nat
      BY <2>2, <2>6 DEF ReadPiece, ReadExact, SweepInv, SweepShape
    <3>2. PICK o \in Outcomes : TakePieces(1, o = "bytes")
      BY <2>6 DEF ReadPiece
    <3> DEFINE read == (o = "bytes")
    <3>3. read \in BOOLEAN /\ TakePieces(1, read) /\ 1 \in Nat \ {0}
      BY <3>2
    <3> HIDE DEF read
    <3>. QED
      BY <2>4, <3>1, <3>3
  <2>7. CASE ReadWindow
    <3>1. captured = "none" /\ captured' = captured /\ piece' = piece
      BY <2>2, <2>7, <2>3 DEF ReadWindow, SweepInv, SweepShape
    <3>2. PICK read \in BOOLEAN : TakePieces(1, read)
      BY <2>7 DEF ReadWindow
    <3>. QED
      BY <2>2, <2>4, <3>1, <3>2 DEF SweepInv, SweepShape
  <2>8. CASE DeliverBackup
    <3>1. /\ Finished /\ UNCHANGED <<image, piece, gaps, readable>> /\ captured' # "dump"
          /\ captured' = "backup" => gaps = <<>>
      BY <2>8 DEF DeliverBackup
    <3>2. gaps = <<>> => Filled = {}
      BY <2>2 DEF SweepInv, GapsAreExact, InGaps
    <3>. QED
      BY <2>2, <3>1, <3>2 DEF Finished, SweepInv, SweepShape, GapsAreExact, Filled, Total
  <2>9. CASE DeliverDump
    <3>1. /\ Finished /\ UNCHANGED <<image, piece, gaps, readable>> /\ captured' # "backup"
          /\ captured' = "dump" => readable > 0
      BY <2>9 DEF DeliverDump
    <3>2. readable > 0 => Taken(image) # {}
      <4>1. Cardinality({}) = 0 /\ readable = Cardinality(Taken(image))
        BY <2>2, FS_EmptySet DEF SweepInv, SweepShape
      <4>. QED
        BY <4>1
    <3>3. Taken(image) # {} => Filled # 1..Len(image)
      BY DEF Taken, Filled
    <3>. QED
      BY <2>2, <3>1, <3>2, <3>3 DEF Finished, SweepInv, SweepShape, GapsAreExact, Filled, Total
  <2>. QED
    BY <2>2, <2>5, <2>6, <2>7, <2>8, <2>9 DEF SweepNext
<1>3. SweepInv => SweepIsExact
  BY DEF SweepInv, SweepShape, GapsAreExact, InGaps, SweepIsExact, Taken
<1>. QED
  BY <1>1, <1>2, <1>3, PTL DEF SweepSpec
=============================================================================
