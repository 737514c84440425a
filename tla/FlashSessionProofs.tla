--------------------------- MODULE FlashSessionProofs ---------------------------
(***************************************************************************)
(* Theorems about FlashSession for every set of firmware images, drives,   *)
(* requests, paths and bounds.                                             *)
(***************************************************************************)
EXTENDS FlashSession, TLAPS

\* The assumptions on the constants, together.
LEMMA Constants ==
    /\ Drives \subseteq Firmware /\ Requests \subseteq Request
    /\ Damaged \notin Firmware /\ NoFirmware \notin Firmware
    /\ NoPath \notin Paths /\ Paths \subseteq Nat
    /\ Absent \notin Capture /\ Foreign \notin Capture /\ Partial \notin Capture
    /\ NoBackup \notin Capture
    /\ Absent # Foreign /\ Absent # Partial /\ Foreign # Partial
    /\ NoResult \notin Result
BY FirmwareAssumption, HostAssumption, ResultAssumption, RequestAssumption

\* The evidence that the actions attach to a result.
LEMMA ResultTypes ==
    /\ BeforeWrite \in Result
    /\ \A p \in Progress : AfterWrite(p) \in Result
    /\ [kind |-> "Planned", progress |-> "Preflight", writeStarted |-> FALSE] \in Result
    /\ [kind |-> "Completed", progress |-> "PayloadAttempted", writeStarted |-> TRUE] \in Result
    /\ {"Preflight", "EntryAttempted"} \subseteq Progress /\ "PayloadAttempted" \in Progress
BY DEF BeforeWrite, AfterWrite, Result, Progress

\* Every behaviour starts in a state of the invariant.
LEMMA InitInvariant == Init => SessionInv
<1> SUFFICES ASSUME Init PROVE SessionInv
  OBVIOUS
<1>1. TypeOK
  <2>1. req \in Request
    <3>1. req \in [via : {"workflow", "library"}, execute : BOOLEAN, acknowledged : BOOLEAN,
                   input : Firmware, current : Firmware \cup {NoFirmware}, asks : BOOLEAN,
                   backup : Paths \cup {NoPath}]
      BY Constants DEF Init
    <3> QED
      BY <3>1 DEF Request
  <2>2. files \in [Paths -> Capture \cup {Absent, Foreign, Partial}]
    BY DEF Init
  <2> QED
    BY <2>1, <2>2, Constants DEF Init, TypeOK, Tray
<1>2. GateInv /\ BackupInv
  BY DEF Init, GateInv, BackupInv, Acknowledged, Secured, Authorized, Consented, Granted, Writing
<1>3. GatedWrite /\ RollbackKept /\ FamilyKept /\ BlockedMeansUntouched
  BY DEF Init, GatedWrite, RollbackKept, FamilyKept, BlockedMeansUntouched
<1> QED
  BY <1>1, <1>2, <1>3 DEF SessionInv

\* No step leaves the types. A save stores a Capture because BackupInv says so.
LEMMA TypeStep == SessionInv /\ [Next]_vars => TypeOK'
<1> SUFFICES ASSUME SessionInv, [Next]_vars PROVE TypeOK'
  OBVIOUS
<1> USE Constants, ResultTypes DEF SessionInv, TypeOK, drive, session, history, ledger, Refuse, End, Goto, Early, Acknowledged,
        Secured, Authorized, Consented, Granted, Writing
<1>1. CASE UNCHANGED vars
  BY <1>1 DEF vars
<1>2. ASSUME NEW r \in Requests, Start(r) PROVE TypeOK'
  <2>1. r \in Request
    BY <1>2, Constants
  <2>2. dest' \in Paths \cup {NoPath}
    BY <1>2, <2>1 DEF Start, Request
  <2>3. pc' \in {"input", "capability"} /\ sessions' \in Nat
    BY <1>2 DEF Start
  <2> QED
    BY <1>2, <2>1, <2>2, <2>3 DEF Start
<1>3. CASE OpenFlash
  BY <1>3 DEF OpenFlash, DefaultBackupPath, Free, Request
<1>4. CASE Capability
  BY <1>4 DEF Capability
<1>5. CASE RequiredBackupPath
  BY <1>5 DEF RequiredBackupPath
<1>6. CASE TrayCheck
  BY <1>6 DEF TrayCheck
<1>7. CASE Plan
  BY <1>7 DEF Plan, MtkVerdict
<1>8. CASE DryRun
  <2>1. result' \in Result /\ pc' = "idle"
    BY <1>8 DEF DryRun
  <2> QED
    BY <1>8, <2>1 DEF DryRun
<1>9. CASE CheckSafety
  BY <1>9 DEF CheckSafety
<1>10. CASE Preflight
  BY <1>10 DEF Preflight
<1>11. CASE CaptureBackup
  BY <1>11 DEF CaptureBackup, Offer, Capture
<1>12. CASE SaveBackup
  BY <1>12 DEF SaveBackup, BackupInv
<1>13. CASE VerifyBackup
  BY <1>13 DEF VerifyBackup, Offer
<1>14. CASE ProceedWithoutBackup
  BY <1>14, ZenonT(40) DEF ProceedWithoutBackup
<1>15. CASE Authorize
  BY <1>15 DEF Authorize
<1>16. CASE Confirm
  BY <1>16, ZenonT(40) DEF Confirm
<1>17. CASE FinalTrayCheck
  BY <1>17, ZenonT(40) DEF FinalTrayCheck
<1>18. CASE Grant
  BY <1>18 DEF Grant
<1>19. CASE EnterUpdate
  <2>1. AfterWrite("Preflight") \in Result
    OBVIOUS
  <2>2. CASE Refuse
    BY <2>2
  <2>3. CASE End(AfterWrite("Preflight")) /\ UNCHANGED <<drive, files, session, history>>
    BY <2>1, <2>3
  <2>4. CASE /\ touched' = TRUE /\ Goto("entered")
             /\ UNCHANGED <<session, rechecked, before, ledger>>
    BY <2>4
  <2> QED
    BY <1>19, <2>2, <2>3, <2>4 DEF EnterUpdate
<1>20. CASE SendPayload
  <2>1. saved # NoBackup => installed \in Firmware
    BY <1>20 DEF SendPayload, BackupInv, Capture
  <2>2. replaced' \subseteq Firmware /\ unproven' \in BOOLEAN
    BY <1>20, <2>1 DEF SendPayload
  <2> QED
    BY <1>20, <2>2 DEF SendPayload
<1>21. CASE EntryFails
  BY <1>21 DEF EntryFails
<1>22. CASE UpdateFails
  BY <1>22 DEF UpdateFails, Request
<1>23. CASE UpdateCompletes
  BY <1>23 DEF UpdateCompletes, Request
<1>24. CASE MoveTray
  BY <1>24 DEF MoveTray
<1>25. CASE Crash
  BY <1>25 DEF Crash, BackupInv
<1>26. ASSUME NEW p \in Paths, OtherProgramCreates(p) PROVE TypeOK'
  BY <1>26 DEF OtherProgramCreates
<1> QED
  BY <1>1, <1>2, <1>3, <1>4, <1>5, <1>6, <1>7, <1>8, <1>9, <1>10, <1>11, <1>12, <1>13,
     <1>14, <1>15, <1>16, <1>17, <1>18, <1>19, <1>20, <1>21, <1>22, <1>23, <1>24, <1>25,
     <1>26
     DEF Next, Step

\* Each gate hands on what the ones before it established.
LEMMA GateStep == SessionInv /\ [Next]_vars => GateInv'
<1> SUFFICES ASSUME SessionInv, [Next]_vars PROVE GateInv'
  OBVIOUS
<1> USE Constants DEF SessionInv, TypeOK, GateInv, MustAsk, Facet, Backend, drive, session, history, ledger, Refuse, End, Goto, Early, Acknowledged,
        Secured, Authorized, Consented, Granted, Writing
<1>1. CASE UNCHANGED vars
  BY <1>1 DEF vars
<1>2. ASSUME NEW r \in Requests, Start(r) PROVE GateInv'
  BY <1>2 DEF Start
<1>3. CASE OpenFlash
  BY <1>3 DEF OpenFlash
<1>4. CASE Capability
  BY <1>4 DEF Capability
<1>5. CASE RequiredBackupPath
  BY <1>5 DEF RequiredBackupPath
<1>6. CASE TrayCheck
  BY <1>6 DEF TrayCheck
<1>7. CASE Plan
  BY <1>7 DEF Plan
<1>8. CASE DryRun
  BY <1>8 DEF DryRun
<1>9. CASE CheckSafety
  BY <1>9 DEF CheckSafety
<1>10. CASE Preflight
  BY <1>10 DEF Preflight
<1>11. CASE CaptureBackup
  BY <1>11 DEF CaptureBackup, Offer
<1>12. CASE SaveBackup
  BY <1>12 DEF SaveBackup
<1>13. CASE VerifyBackup
  BY <1>13 DEF VerifyBackup, Offer
<1>14. CASE ProceedWithoutBackup
  BY <1>14 DEF ProceedWithoutBackup
<1>15. CASE Authorize
  BY <1>15 DEF Authorize
<1>16. CASE Confirm
  BY <1>16 DEF Confirm
<1>17. CASE FinalTrayCheck
  BY <1>17 DEF FinalTrayCheck
<1>18. CASE Grant
  BY <1>18 DEF Grant
<1>19. CASE EnterUpdate
  BY <1>19 DEF EnterUpdate
<1>20. CASE SendPayload
  BY <1>20 DEF SendPayload
<1>21. CASE EntryFails
  BY <1>21 DEF EntryFails
<1>22. CASE UpdateFails
  BY <1>22 DEF UpdateFails
<1>23. CASE UpdateCompletes
  BY <1>23 DEF UpdateCompletes
<1>24. CASE MoveTray
  BY <1>24 DEF MoveTray
<1>25. CASE Crash
  BY <1>25 DEF Crash
<1>26. ASSUME NEW p \in Paths, OtherProgramCreates(p) PROVE GateInv'
  BY <1>26 DEF OtherProgramCreates
<1> QED
  BY <1>1, <1>2, <1>3, <1>4, <1>5, <1>6, <1>7, <1>8, <1>9, <1>10, <1>11, <1>12, <1>13,
     <1>14, <1>15, <1>16, <1>17, <1>18, <1>19, <1>20, <1>21, <1>22, <1>23, <1>24, <1>25,
     <1>26
     DEF Next, Step

\* Refusing, or asking to go on without a backup, hands nothing on.
LEMMA OfferKeeps ==
    SessionInv /\ pc \in {"backup", "verify"} /\ (Refuse \/ Offer) => BackupInv'
<1> SUFFICES ASSUME SessionInv, pc \in {"backup", "verify"}, Refuse \/ Offer PROVE BackupInv'
  OBVIOUS
<1> USE DEF Secured, Authorized, Consented, Granted, Writing
<1>1. saved = NoBackup
  BY DEF SessionInv, BackupInv
<1>2. CASE Refuse
  BY <1>2 DEF BackupInv, Refuse, End
<1>3. CASE Facet.canProceedWithoutBackup /\ Goto("waive") /\ UNCHANGED session
  <2>1. Facet' = Facet
    BY <1>3 DEF Facet, Backend, Goto, drive
  <2>2. saved' = NoBackup /\ pc' = "waive"
    BY <1>1, <1>3 DEF Goto, session
  <2> QED
    BY <1>3, <2>1, <2>2 DEF BackupInv
<1> QED
  BY <1>2, <1>3 DEF Offer

\* What was captured is the installed image.
LEMMA CaptureKeeps == SessionInv /\ CaptureBackup => BackupInv'
<1> SUFFICES ASSUME SessionInv, CaptureBackup PROVE BackupInv'
  OBVIOUS
<1> USE DEF Secured, Authorized, Consented, Granted, Writing
<1>1. CASE Refuse \/ Offer
  BY <1>1, OfferKeeps DEF CaptureBackup
<1>2. CASE /\ DestinationUsable /\ installed # Damaged
           /\ \E complete \in BOOLEAN : captured' = [fw |-> installed, complete |-> complete]
           /\ Goto("save") /\ UNCHANGED <<dest, saved>>
  <2>1. installed \in Firmware
    BY <1>2 DEF SessionInv, TypeOK
  <2>2. captured' \in Capture /\ captured'.fw = installed
    BY <1>2, <2>1 DEF Capture
  <2>3. dest \in Paths
    BY <1>2 DEF DestinationUsable, SessionInv, TypeOK
  <2>4. saved' = NoBackup
    BY <1>2 DEF CaptureBackup, SessionInv, BackupInv
  <2>5. pc' = "save" /\ dest' = dest /\ installed' = installed
    BY <1>2 DEF Goto, drive
  <2> QED
    BY <2>2, <2>3, <2>4, <2>5 DEF BackupInv
<1> QED
  BY <1>1, <1>2 DEF CaptureBackup

\* A verified backup is the installed image, of the drive's own hardware.
LEMMA VerifyKeeps == SessionInv /\ VerifyBackup => BackupInv'
<1> SUFFICES ASSUME SessionInv, VerifyBackup PROVE BackupInv'
  OBVIOUS
<1> USE DEF Secured, Authorized, Consented, Granted, Writing
<1>1. CASE Refuse \/ Offer
  BY <1>1, OfferKeeps DEF VerifyBackup
<1>2. CASE /\ Backend = "mtk" \/ captured.complete
           /\ saved' = captured /\ pc' = "authorize"
           /\ UNCHANGED <<drive, files, req, dest, verdict, captured, unproven>>
  <2>1. captured \in Capture /\ dest \in Paths /\ captured.fw = installed
        /\ files[dest] = captured
    BY DEF VerifyBackup, SessionInv, BackupInv
  <2>2. Backend' = Backend /\ UNCHANGED <<factory, installed>>
    BY <1>2 DEF Backend, drive
  <2>3. Backend' = "pioneer" => saved'.complete
    BY <1>2, <2>2
  <2>4. ~unproven => SameHardware(installed)
    BY <2>1, Constants DEF SessionInv, FamilyKept, Capture, SameHardware
  <2>5. ~unproven' => SameHardware(saved.fw)'
    BY <1>2, <2>1, <2>2, <2>4 DEF SameHardware
  <2>6. saved' # NoBackup
    BY <1>2, <2>1, Constants
  <2>7. \E p \in Paths : files'[p] = saved'
    BY <1>2, <2>1
  <2>8. saved'.fw = installed'
    BY <1>2, <2>1, <2>2
  <2> QED
    BY <1>2, <2>3, <2>5, <2>6, <2>7, <2>8 DEF BackupInv
<1> QED
  BY <1>1, <1>2 DEF VerifyBackup, Goto, history, ledger

\* The saved backup is the installed image, on disk, and what authorize agreed to.
LEMMA BackupStep == SessionInv /\ [Next]_vars => BackupInv'
<1> SUFFICES ASSUME SessionInv, [Next]_vars PROVE BackupInv'
  OBVIOUS
<1> USE Constants DEF SessionInv, TypeOK, GateInv, BackupInv, Facet, Backend, MtkFacet, PioneerFacet,
        SameHardware, Authorizes, drive, session, history, ledger, Refuse, End, Goto, Early, Acknowledged,
        Secured, Authorized, Consented, Granted, Writing
<1>1. CASE UNCHANGED vars
  BY <1>1 DEF vars
<1>2. ASSUME NEW r \in Requests, Start(r) PROVE BackupInv'
  BY <1>2 DEF Start
<1>3. CASE OpenFlash
  BY <1>3 DEF OpenFlash
<1>4. CASE Capability
  BY <1>4 DEF Capability
<1>5. CASE RequiredBackupPath
  BY <1>5 DEF RequiredBackupPath
<1>6. CASE TrayCheck
  BY <1>6 DEF TrayCheck
<1>7. CASE Plan
  BY <1>7 DEF Plan
<1>8. CASE DryRun
  BY <1>8 DEF DryRun
<1>9. CASE CheckSafety
  BY <1>9 DEF CheckSafety
<1>10. CASE Preflight
  BY <1>10 DEF Preflight
<1>11. CASE CaptureBackup
  BY <1>11, CaptureKeeps
<1>12. CASE SaveBackup
  BY <1>12 DEF SaveBackup
<1>13. CASE VerifyBackup
  BY <1>13, VerifyKeeps
<1>14. CASE ProceedWithoutBackup
  <2>1. CASE Refuse
    BY <1>14, <2>1
  <2>2. CASE waived' = TRUE /\ pc' = "authorize" /\ UNCHANGED <<drive, files, saved>>
    BY <1>14, <2>2 DEF ProceedWithoutBackup
  <2> QED
    BY <1>14, <2>1, <2>2 DEF ProceedWithoutBackup
<1>15. CASE Authorize
  BY <1>15 DEF Authorize
<1>16. CASE Confirm
  BY <1>16 DEF Confirm
<1>17. CASE FinalTrayCheck
  BY <1>17 DEF FinalTrayCheck
<1>18. CASE Grant
  BY <1>18 DEF Grant
<1>19. CASE EnterUpdate
  BY <1>19 DEF EnterUpdate
<1>20. CASE SendPayload
  BY <1>20 DEF SendPayload
<1>21. CASE EntryFails
  BY <1>21 DEF EntryFails
<1>22. CASE UpdateFails
  BY <1>22 DEF UpdateFails
<1>23. CASE UpdateCompletes
  BY <1>23 DEF UpdateCompletes
<1>24. CASE MoveTray
  BY <1>24 DEF MoveTray
<1>25. CASE Crash
  BY <1>25 DEF Crash
<1>26. ASSUME NEW p \in Paths, OtherProgramCreates(p) PROVE BackupInv'
  BY <1>26 DEF OtherProgramCreates
<1> QED
  BY <1>1, <1>2, <1>3, <1>4, <1>5, <1>6, <1>7, <1>8, <1>9, <1>10, <1>11, <1>12, <1>13,
     <1>14, <1>15, <1>16, <1>17, <1>18, <1>19, <1>20, <1>21, <1>22, <1>23, <1>24, <1>25,
     <1>26
     DEF Next, Step

\* What is on disk stays, whichever step is taken.
LEMMA FilesFrame ==
    TypeOK /\ [Next]_vars => \A p \in Paths : files[p] # Absent => files'[p] = files[p]
<1> DEFINE Kept == \A p \in Paths : files[p] # Absent => files'[p] = files[p]
<1> SUFFICES ASSUME TypeOK, [Next]_vars PROVE Kept
  OBVIOUS
<1> USE DEF TypeOK, drive, session, history, ledger, Refuse, End, Goto, Early, Acknowledged,
        Secured, Authorized, Consented, Granted, Writing
<1>1. CASE UNCHANGED vars
  BY <1>1 DEF vars
<1>2. ASSUME NEW r \in Requests, Start(r) PROVE Kept
  BY <1>2 DEF Start
<1>3. CASE OpenFlash
  BY <1>3 DEF OpenFlash
<1>4. CASE Capability
  BY <1>4 DEF Capability
<1>5. CASE RequiredBackupPath
  BY <1>5 DEF RequiredBackupPath
<1>6. CASE TrayCheck
  BY <1>6 DEF TrayCheck
<1>7. CASE Plan
  BY <1>7 DEF Plan
<1>8. CASE DryRun
  BY <1>8 DEF DryRun
<1>9. CASE CheckSafety
  BY <1>9 DEF CheckSafety
<1>10. CASE Preflight
  BY <1>10 DEF Preflight
<1>11. CASE CaptureBackup
  BY <1>11 DEF CaptureBackup, Offer
<1>12. CASE SaveBackup
  BY <1>12 DEF SaveBackup
<1>13. CASE VerifyBackup
  BY <1>13 DEF VerifyBackup, Offer
<1>14. CASE ProceedWithoutBackup
  BY <1>14 DEF ProceedWithoutBackup
<1>15. CASE Authorize
  BY <1>15 DEF Authorize
<1>16. CASE Confirm
  BY <1>16 DEF Confirm
<1>17. CASE FinalTrayCheck
  BY <1>17 DEF FinalTrayCheck
<1>18. CASE Grant
  BY <1>18 DEF Grant
<1>19. CASE EnterUpdate
  BY <1>19 DEF EnterUpdate
<1>20. CASE SendPayload
  BY <1>20 DEF SendPayload
<1>21. CASE EntryFails
  BY <1>21 DEF EntryFails
<1>22. CASE UpdateFails
  BY <1>22 DEF UpdateFails
<1>23. CASE UpdateCompletes
  BY <1>23 DEF UpdateCompletes
<1>24. CASE MoveTray
  BY <1>24 DEF MoveTray
<1>25. CASE Crash
  BY <1>25 DEF Crash
<1>26. ASSUME NEW p \in Paths, OtherProgramCreates(p) PROVE Kept
  BY <1>26 DEF OtherProgramCreates
<1> QED
  BY <1>1, <1>2, <1>3, <1>4, <1>5, <1>6, <1>7, <1>8, <1>9, <1>10, <1>11, <1>12, <1>13,
     <1>14, <1>15, <1>16, <1>17, <1>18, <1>19, <1>20, <1>21, <1>22, <1>23, <1>24, <1>25,
     <1>26
     DEF Next, Step

\* Only the executor's steps change the firmware and the ledger of what was lost.
LEMMA DriveFrame ==
    [Next]_vars =>
        SendPayload \/ UpdateFails \/ UpdateCompletes \/ UNCHANGED <<installed, replaced, unproven>>
<1> DEFINE Kept == SendPayload \/ UpdateFails \/ UpdateCompletes
                       \/ UNCHANGED <<installed, replaced, unproven>>
<1> SUFFICES ASSUME [Next]_vars PROVE Kept
  OBVIOUS
<1> USE DEF drive, session, history, ledger, Refuse, End, Goto, Early, Acknowledged,
        Secured, Authorized, Consented, Granted, Writing
<1>1. CASE UNCHANGED vars
  BY <1>1 DEF vars
<1>2. ASSUME NEW r \in Requests, Start(r) PROVE Kept
  BY <1>2 DEF Start
<1>3. CASE OpenFlash
  BY <1>3 DEF OpenFlash
<1>4. CASE Capability
  BY <1>4 DEF Capability
<1>5. CASE RequiredBackupPath
  BY <1>5 DEF RequiredBackupPath
<1>6. CASE TrayCheck
  BY <1>6 DEF TrayCheck
<1>7. CASE Plan
  BY <1>7 DEF Plan
<1>8. CASE DryRun
  BY <1>8 DEF DryRun
<1>9. CASE CheckSafety
  BY <1>9 DEF CheckSafety
<1>10. CASE Preflight
  BY <1>10 DEF Preflight
<1>11. CASE CaptureBackup
  BY <1>11 DEF CaptureBackup, Offer
<1>12. CASE SaveBackup
  BY <1>12 DEF SaveBackup
<1>13. CASE VerifyBackup
  BY <1>13 DEF VerifyBackup, Offer
<1>14. CASE ProceedWithoutBackup
  BY <1>14 DEF ProceedWithoutBackup
<1>15. CASE Authorize
  BY <1>15 DEF Authorize
<1>16. CASE Confirm
  BY <1>16 DEF Confirm
<1>17. CASE FinalTrayCheck
  BY <1>17 DEF FinalTrayCheck
<1>18. CASE Grant
  BY <1>18 DEF Grant
<1>19. CASE EnterUpdate
  BY <1>19 DEF EnterUpdate
<1>20. CASE SendPayload
  BY <1>20
<1>21. CASE EntryFails
  BY <1>21 DEF EntryFails
<1>22. CASE UpdateFails
  BY <1>22
<1>23. CASE UpdateCompletes
  BY <1>23
<1>24. CASE MoveTray
  BY <1>24 DEF MoveTray
<1>25. CASE Crash
  BY <1>25 DEF Crash
<1>26. ASSUME NEW p \in Paths, OtherProgramCreates(p) PROVE Kept
  BY <1>26 DEF OtherProgramCreates
<1> QED
  BY <1>1, <1>2, <1>3, <1>4, <1>5, <1>6, <1>7, <1>8, <1>9, <1>10, <1>11, <1>12, <1>13,
     <1>14, <1>15, <1>16, <1>17, <1>18, <1>19, <1>20, <1>21, <1>22, <1>23, <1>24, <1>25,
     <1>26
     DEF Next, Step

\* The hardware is what it was built as.
LEMMA HardwareFrame == [Next]_vars => factory' = factory
<1> SUFFICES ASSUME [Next]_vars PROVE factory' = factory
  OBVIOUS
<1> USE DEF drive, session, history, ledger, Refuse, End, Goto, Early, Acknowledged,
        Secured, Authorized, Consented, Granted, Writing
<1>1. CASE UNCHANGED vars
  BY <1>1 DEF vars
<1>2. ASSUME NEW r \in Requests, Start(r) PROVE factory' = factory
  BY <1>2 DEF Start
<1>3. CASE OpenFlash
  BY <1>3 DEF OpenFlash
<1>4. CASE Capability
  BY <1>4 DEF Capability
<1>5. CASE RequiredBackupPath
  BY <1>5 DEF RequiredBackupPath
<1>6. CASE TrayCheck
  BY <1>6 DEF TrayCheck
<1>7. CASE Plan
  BY <1>7 DEF Plan
<1>8. CASE DryRun
  BY <1>8 DEF DryRun
<1>9. CASE CheckSafety
  BY <1>9 DEF CheckSafety
<1>10. CASE Preflight
  BY <1>10 DEF Preflight
<1>11. CASE CaptureBackup
  BY <1>11 DEF CaptureBackup, Offer
<1>12. CASE SaveBackup
  BY <1>12 DEF SaveBackup
<1>13. CASE VerifyBackup
  BY <1>13 DEF VerifyBackup, Offer
<1>14. CASE ProceedWithoutBackup
  BY <1>14 DEF ProceedWithoutBackup
<1>15. CASE Authorize
  BY <1>15 DEF Authorize
<1>16. CASE Confirm
  BY <1>16 DEF Confirm
<1>17. CASE FinalTrayCheck
  BY <1>17 DEF FinalTrayCheck
<1>18. CASE Grant
  BY <1>18 DEF Grant
<1>19. CASE EnterUpdate
  BY <1>19 DEF EnterUpdate
<1>20. CASE SendPayload
  BY <1>20 DEF SendPayload
<1>21. CASE EntryFails
  BY <1>21 DEF EntryFails
<1>22. CASE UpdateFails
  BY <1>22 DEF UpdateFails
<1>23. CASE UpdateCompletes
  BY <1>23 DEF UpdateCompletes
<1>24. CASE MoveTray
  BY <1>24 DEF MoveTray
<1>25. CASE Crash
  BY <1>25 DEF Crash
<1>26. ASSUME NEW p \in Paths, OtherProgramCreates(p) PROVE factory' = factory
  BY <1>26 DEF OtherProgramCreates
<1> QED
  BY <1>1, <1>2, <1>3, <1>4, <1>5, <1>6, <1>7, <1>8, <1>9, <1>10, <1>11, <1>12, <1>13,
     <1>14, <1>15, <1>16, <1>17, <1>18, <1>19, <1>20, <1>21, <1>22, <1>23, <1>24, <1>25,
     <1>26
     DEF Next, Step

\* Once the drive was touched, the answers that allowed it stay as they were.
LEMMA GatedWriteFrame ==
    GateInv /\ [Next]_vars =>
        ~touched' \/ EnterUpdate \/ UNCHANGED <<touched, session, rechecked>>
<1> DEFINE Kept == ~touched' \/ EnterUpdate \/ UNCHANGED <<touched, session, rechecked>>
<1> SUFFICES ASSUME GateInv, [Next]_vars PROVE Kept
  OBVIOUS
<1> USE DEF GateInv, drive, session, history, ledger, Refuse, End, Goto, Early, Acknowledged,
        Secured, Authorized, Consented, Granted, Writing
<1>1. CASE UNCHANGED vars
  BY <1>1 DEF vars
<1>2. ASSUME NEW r \in Requests, Start(r) PROVE Kept
  BY <1>2 DEF Start
<1>3. CASE OpenFlash
  BY <1>3 DEF OpenFlash
<1>4. CASE Capability
  BY <1>4 DEF Capability
<1>5. CASE RequiredBackupPath
  BY <1>5 DEF RequiredBackupPath
<1>6. CASE TrayCheck
  BY <1>6 DEF TrayCheck
<1>7. CASE Plan
  BY <1>7 DEF Plan
<1>8. CASE DryRun
  BY <1>8 DEF DryRun
<1>9. CASE CheckSafety
  BY <1>9 DEF CheckSafety
<1>10. CASE Preflight
  BY <1>10 DEF Preflight
<1>11. CASE CaptureBackup
  BY <1>11 DEF CaptureBackup, Offer
<1>12. CASE SaveBackup
  BY <1>12 DEF SaveBackup
<1>13. CASE VerifyBackup
  BY <1>13 DEF VerifyBackup, Offer
<1>14. CASE ProceedWithoutBackup
  BY <1>14 DEF ProceedWithoutBackup
<1>15. CASE Authorize
  BY <1>15 DEF Authorize
<1>16. CASE Confirm
  BY <1>16 DEF Confirm
<1>17. CASE FinalTrayCheck
  BY <1>17 DEF FinalTrayCheck
<1>18. CASE Grant
  BY <1>18 DEF Grant
<1>19. CASE EnterUpdate
  BY <1>19
<1>20. CASE SendPayload
  BY <1>20 DEF SendPayload
<1>21. CASE EntryFails
  BY <1>21 DEF EntryFails
<1>22. CASE UpdateFails
  BY <1>22 DEF UpdateFails
<1>23. CASE UpdateCompletes
  BY <1>23 DEF UpdateCompletes
<1>24. CASE MoveTray
  BY <1>24 DEF MoveTray
<1>25. CASE Crash
  BY <1>25 DEF Crash
<1>26. ASSUME NEW p \in Paths, OtherProgramCreates(p) PROVE Kept
  BY <1>26 DEF OtherProgramCreates
<1> QED
  BY <1>1, <1>2, <1>3, <1>4, <1>5, <1>6, <1>7, <1>8, <1>9, <1>10, <1>11, <1>12, <1>13,
     <1>14, <1>15, <1>16, <1>17, <1>18, <1>19, <1>20, <1>21, <1>22, <1>23, <1>24, <1>25,
     <1>26
     DEF Next, Step


LEMMA GatedWriteStep == SessionInv /\ [Next]_vars => GatedWrite'
<1> SUFFICES ASSUME SessionInv, [Next]_vars, touched' PROVE GatedWrite'
  BY DEF GatedWrite
<1>1. factory' = factory
  BY HardwareFrame
<1>2. CASE EnterUpdate
  BY <1>1, <1>2 DEF EnterUpdate, SessionInv, GateInv, BackupInv, GatedWrite, MustAsk, Facet, Backend,
     Goto, Refuse, End, session, history, ledger, Acknowledged, Secured, Authorized, Consented, Granted, Writing
<1>3. CASE UNCHANGED <<touched, session, rechecked>>
  BY <1>1, <1>3 DEF SessionInv, GatedWrite, MustAsk, Facet, Backend, session
<1> QED
  BY <1>2, <1>3, GatedWriteFrame DEF SessionInv

\* A complete saved backup is what Mtk::authorize_bytes or Pioneer's coverage
\* check leave behind, so a payload is only sent over an archived image.
LEMMA SecuredIsArchived ==
    SessionInv /\ pc \in Authorized /\ saved # NoBackup =>
        saved \in Capture /\ saved.complete /\ Archived(saved.fw)
<1> SUFFICES ASSUME SessionInv, pc \in Authorized, saved # NoBackup
             PROVE saved \in Capture /\ saved.complete /\ Archived(saved.fw)
  OBVIOUS
<1>1. saved \in Capture
  BY DEF SessionInv, TypeOK
<1>2. Authorizes(req.input, verdict, saved) /\ (Backend = "pioneer" => saved.complete)
      /\ \E p \in Paths : files[p] = saved
  BY DEF SessionInv, BackupInv, Secured
<1>3. Backend \in {"mtk", "pioneer"}
  BY FirmwareAssumption DEF Backend, SessionInv, TypeOK
<1>4. saved.complete
  BY <1>2, <1>3 DEF Authorizes, MtkAuthorizes
<1>5. saved = [fw |-> saved.fw, complete |-> TRUE]
  BY <1>1, <1>4 DEF Capture
<1> QED
  BY <1>1, <1>2, <1>4, <1>5 DEF Archived

LEMMA RollbackStep == SessionInv /\ [Next]_vars => RollbackKept'
<1> SUFFICES ASSUME SessionInv, [Next]_vars, NEW f \in replaced' PROVE Archived(f)'
  BY DEF RollbackKept
<1>0. f \in Firmware
  BY TypeStep DEF TypeOK
<1>1. ASSUME Archived(f) PROVE Archived(f)'
  <2>1. PICK p \in Paths : files[p] = [fw |-> f, complete |-> TRUE]
    BY <1>1 DEF Archived
  <2>2. files[p] # Absent
    <3>1. [fw |-> f, complete |-> TRUE] \in Capture
      BY <1>0 DEF Capture
    <3> QED
      BY <2>1, <3>1, Constants
  <2> QED
    BY <2>1, <2>2, FilesFrame DEF Archived, SessionInv
<1>2. CASE f \in replaced
  BY <1>1, <1>2 DEF SessionInv, RollbackKept
<1>3. CASE SendPayload /\ f \notin replaced
  <2>1. saved # NoBackup /\ f = installed /\ pc = "entered"
    BY <1>3 DEF SendPayload
  <2>2. saved.fw = installed
    BY <2>1 DEF SessionInv, BackupInv, Secured, Authorized, Consented, Granted, Writing
  <2> QED
    BY <1>1, <2>1, <2>2, SecuredIsArchived DEF Authorized, Consented, Granted, Writing
<1>4. CASE f \notin replaced /\ ~SendPayload
  BY <1>4, DriveFrame DEF UpdateFails, UpdateCompletes, history, ledger
<1> QED
  BY <1>2, <1>3, <1>4

LEMMA FamilyStep == SessionInv /\ [Next]_vars => FamilyKept'
<1> SUFFICES ASSUME SessionInv, [Next]_vars, ~unproven', installed' # Damaged
             PROVE SameHardware(installed')
  BY HardwareFrame DEF FamilyKept, SameHardware
<1>1. CASE SendPayload
  BY <1>1 DEF SendPayload
<1>2. CASE (UpdateFails \/ UpdateCompletes) /\ installed' = req.input
  <2>1. pc = "sending" /\ ~unproven
    BY <1>2 DEF UpdateFails, UpdateCompletes, history, ledger
  <2>2. saved # NoBackup /\ SameHardware(saved.fw) /\ Authorizes(req.input, verdict, saved)
    BY <2>1 DEF SessionInv, BackupInv, Secured, Authorized, Consented, Granted, Writing
  <2>3. KnownAndEqual(saved.fw, req.input)
    BY <2>2 DEF Authorizes, MtkAuthorizes, PioneerAuthorizes
  <2> QED
    BY <1>2, <2>2, <2>3 DEF SameHardware, KnownAndEqual
<1>3. CASE UNCHANGED <<installed, replaced, unproven>>
  BY <1>3 DEF SessionInv, FamilyKept, SameHardware
<1> QED
  BY <1>1, <1>2, <1>3, DriveFrame DEF UpdateFails, UpdateCompletes

\* A refusal is reported at gates that have sent nothing.
LEMMA BlockedStep == SessionInv /\ [Next]_vars => BlockedMeansUntouched'
<1> SUFFICES ASSUME SessionInv, [Next]_vars PROVE BlockedMeansUntouched'
  OBVIOUS
<1> USE Constants DEF SessionInv, TypeOK, GateInv, BlockedMeansUntouched, BeforeWrite, AfterWrite, drive, session, history, ledger, Refuse, End, Goto, Early, Acknowledged,
        Secured, Authorized, Consented, Granted, Writing
<1>1. CASE UNCHANGED vars
  BY <1>1 DEF vars
<1>2. ASSUME NEW r \in Requests, Start(r) PROVE BlockedMeansUntouched'
  BY <1>2 DEF Start
<1>3. CASE OpenFlash
  BY <1>3 DEF OpenFlash
<1>4. CASE Capability
  BY <1>4 DEF Capability
<1>5. CASE RequiredBackupPath
  BY <1>5 DEF RequiredBackupPath
<1>6. CASE TrayCheck
  BY <1>6 DEF TrayCheck
<1>7. CASE Plan
  BY <1>7 DEF Plan
<1>8. CASE DryRun
  BY <1>8 DEF DryRun
<1>9. CASE CheckSafety
  BY <1>9 DEF CheckSafety
<1>10. CASE Preflight
  BY <1>10 DEF Preflight
<1>11. CASE CaptureBackup
  BY <1>11 DEF CaptureBackup, Offer
<1>12. CASE SaveBackup
  BY <1>12 DEF SaveBackup
<1>13. CASE VerifyBackup
  BY <1>13 DEF VerifyBackup, Offer
<1>14. CASE ProceedWithoutBackup
  BY <1>14 DEF ProceedWithoutBackup
<1>15. CASE Authorize
  BY <1>15 DEF Authorize
<1>16. CASE Confirm
  BY <1>16 DEF Confirm
<1>17. CASE FinalTrayCheck
  BY <1>17 DEF FinalTrayCheck
<1>18. CASE Grant
  BY <1>18 DEF Grant
<1>19. CASE EnterUpdate
  <2>1. CASE Refuse
    BY <1>19, <2>1 DEF EnterUpdate
  <2>2. CASE result' = result
    <3>1. result = NoResult
      BY <1>19 DEF EnterUpdate
    <3> QED
      BY <2>2, <3>1
  <2> QED
    BY <1>19, <2>1, <2>2 DEF EnterUpdate
<1>20. CASE SendPayload
  BY <1>20 DEF SendPayload
<1>21. CASE EntryFails
  BY <1>21 DEF EntryFails
<1>22. CASE UpdateFails
  BY <1>22 DEF UpdateFails
<1>23. CASE UpdateCompletes
  BY <1>23 DEF UpdateCompletes
<1>24. CASE MoveTray
  BY <1>24 DEF MoveTray
<1>25. CASE Crash
  BY <1>25 DEF Crash
<1>26. ASSUME NEW p \in Paths, OtherProgramCreates(p) PROVE BlockedMeansUntouched'
  BY <1>26 DEF OtherProgramCreates
<1> QED
  BY <1>1, <1>2, <1>3, <1>4, <1>5, <1>6, <1>7, <1>8, <1>9, <1>10, <1>11, <1>12, <1>13,
     <1>14, <1>15, <1>16, <1>17, <1>18, <1>19, <1>20, <1>21, <1>22, <1>23, <1>24, <1>25,
     <1>26
     DEF Next, Step

\* The invariant of the module, for every instance.
THEOREM Invariant == Spec => []SessionInv
<1>1. SessionInv /\ [Next]_vars => SessionInv'
  BY TypeStep, GateStep, BackupStep, GatedWriteStep, RollbackStep, FamilyStep, BlockedStep
     DEF SessionInv
<1> QED
  BY InitInvariant, <1>1, PTL DEF Spec

\* Types hold (TypeOK).
THEOREM TypeCorrect == Spec => []TypeOK
BY Invariant, PTL DEF SessionInv

\* No update command without every gate behind it (GatedWrite).
THEOREM WritesAreGated == Spec => []GatedWrite
BY Invariant, PTL DEF SessionInv

\* What a session with a backup overwrote can be put back (RollbackKept).
THEOREM RollbackIsKept == Spec => []RollbackKept
BY Invariant, PTL DEF SessionInv

\* The drive stays in its hardware family (FamilyKept).
THEOREM FamilyIsKept == Spec => []FamilyKept
BY Invariant, PTL DEF SessionInv

\* A blocked update has not touched the drive (BlockedMeansUntouched).
THEOREM BlockedIsUntouched == Spec => []BlockedMeansUntouched
BY Invariant, PTL DEF SessionInv

\* A crossflash can be undone while it runs (CrossflashReversible).
THEOREM CrossflashIsReversible == Spec => []CrossflashReversible
<1>1. SessionInv => CrossflashReversible
  <2> SUFFICES ASSUME SessionInv, pc \in Writing, Backend = "mtk", verdict = "Crossflash"
               PROVE /\ saved # NoBackup /\ Archived(saved.fw)
                     /\ MtkAuthorizes(saved.fw, MtkVerdict(saved.fw, req.input),
                                      [fw |-> req.input, complete |-> TRUE])
    BY DEF CrossflashReversible
  <2>1. pc \in Authorized /\ MtkAuthorizes(req.input, "Crossflash", saved)
    BY DEF SessionInv, BackupInv, Authorizes, Authorized, Consented, Granted
  <2>2. saved # NoBackup
    BY <2>1 DEF MtkAuthorizes
  <2>3. /\ KnownAndEqual(saved.fw, req.input)
        /\ MtkVerdict(req.input, saved.fw) = "Crossflash"
        /\ MtkVerdict(saved.fw, req.input) = "Crossflash"
    BY <2>1, <2>2 DEF MtkAuthorizes
  <2>4. [fw |-> req.input, complete |-> TRUE] # NoBackup
    <3>1. req.input \in Firmware
      BY DEF SessionInv, TypeOK, Request
    <3>2. [fw |-> req.input, complete |-> TRUE] \in Capture
      BY <3>1 DEF Capture
    <3> QED
      BY <3>2, Constants
  <2> QED
    BY <2>1, <2>2, <2>3, <2>4, SecuredIsArchived DEF MtkAuthorizes, KnownAndEqual
<1> QED
  BY <1>1, Invariant, PTL

\* Files stay (FilesKept).
THEOREM FilesAreKept == Spec => FilesKept
<1>1. TypeOK /\ [Next]_vars => [\A p \in Paths : files[p] # Absent => files'[p] = files[p]]_vars
  BY FilesFrame
<1> QED
  BY <1>1, TypeCorrect, PTL DEF Spec, FilesKept

-----------------------------------------------------------------------------
(* The refinement of GatedUpdate.                                          *)

\* One file is written at a time: the captured one, or part of it, under a free
\* name before anything is armed, or somebody else's.
LEMMA FilesStep ==
    SessionInv /\ [Next]_vars =>
        \/ files' = files
        \/ \E p \in Paths : files[p] = Absent /\ files' = [files EXCEPT ![p] = Foreign]
        \/ /\ pc = "save" /\ pc' \in {"verify", "idle"} /\ files[dest] = Absent
           /\ \E left \in {Partial, captured} : files' = [files EXCEPT ![dest] = left]
<1> DEFINE Written ==
        \/ files' = files
        \/ \E p \in Paths : files[p] = Absent /\ files' = [files EXCEPT ![p] = Foreign]
        \/ /\ pc = "save" /\ pc' \in {"verify", "idle"} /\ files[dest] = Absent
           /\ \E left \in {Partial, captured} : files' = [files EXCEPT ![dest] = left]
<1> SUFFICES ASSUME SessionInv, [Next]_vars PROVE Written
  OBVIOUS
<1> USE DEF SessionInv, GateInv, drive, session, history, ledger, Refuse, End, Goto, Early, Acknowledged,
        Secured, Authorized, Consented, Granted, Writing
<1>1. CASE UNCHANGED vars
  BY <1>1 DEF vars
<1>2. ASSUME NEW r \in Requests, Start(r) PROVE Written
  BY <1>2 DEF Start
<1>3. CASE OpenFlash
  BY <1>3 DEF OpenFlash
<1>4. CASE Capability
  BY <1>4 DEF Capability
<1>5. CASE RequiredBackupPath
  BY <1>5 DEF RequiredBackupPath
<1>6. CASE TrayCheck
  BY <1>6 DEF TrayCheck
<1>7. CASE Plan
  BY <1>7 DEF Plan
<1>8. CASE DryRun
  BY <1>8 DEF DryRun
<1>9. CASE CheckSafety
  BY <1>9 DEF CheckSafety
<1>10. CASE Preflight
  BY <1>10 DEF Preflight
<1>11. CASE CaptureBackup
  BY <1>11 DEF CaptureBackup, Offer
<1>12. CASE SaveBackup
  BY <1>12 DEF SaveBackup
<1>13. CASE VerifyBackup
  BY <1>13 DEF VerifyBackup, Offer
<1>14. CASE ProceedWithoutBackup
  BY <1>14 DEF ProceedWithoutBackup
<1>15. CASE Authorize
  BY <1>15 DEF Authorize
<1>16. CASE Confirm
  BY <1>16 DEF Confirm
<1>17. CASE FinalTrayCheck
  BY <1>17 DEF FinalTrayCheck
<1>18. CASE Grant
  BY <1>18 DEF Grant
<1>19. CASE EnterUpdate
  BY <1>19 DEF EnterUpdate
<1>20. CASE SendPayload
  BY <1>20 DEF SendPayload
<1>21. CASE EntryFails
  BY <1>21 DEF EntryFails
<1>22. CASE UpdateFails
  BY <1>22 DEF UpdateFails
<1>23. CASE UpdateCompletes
  BY <1>23 DEF UpdateCompletes
<1>24. CASE MoveTray
  BY <1>24 DEF MoveTray
<1>25. CASE Crash
  BY <1>25 DEF Crash
<1>26. ASSUME NEW p \in Paths, OtherProgramCreates(p) PROVE Written
  BY <1>26 DEF OtherProgramCreates
<1> QED
  BY <1>1, <1>2, <1>3, <1>4, <1>5, <1>6, <1>7, <1>8, <1>9, <1>10, <1>11, <1>12, <1>13,
     <1>14, <1>15, <1>16, <1>17, <1>18, <1>19, <1>20, <1>21, <1>22, <1>23, <1>24, <1>25,
     <1>26
     DEF Next, Step

\* The grant, and how a session with a grant goes on and ends.
LEMMA GrantedStep ==
    SessionInv /\ [Next]_vars =>
        \/ pc \notin Granted /\ pc' \notin Granted /\ installed' = installed
        \/ /\ pc = "finalTray" /\ pc' \in Granted
           /\ UNCHANGED <<installed, saved, factory, req>>
        \/ pc \in Granted /\ pc' \in Granted /\ UNCHANGED <<installed, saved>>
        \/ pc \in Granted /\ pc' \in Granted /\ installed' = Damaged /\ saved' = saved
        \/ /\ pc \in Granted /\ pc' = "idle"
           /\ installed' = installed \/ (installed = Damaged /\ installed' = req.input)
<1> DEFINE Moved ==
        \/ pc \notin Granted /\ pc' \notin Granted /\ installed' = installed
        \/ /\ pc = "finalTray" /\ pc' \in Granted
           /\ UNCHANGED <<installed, saved, factory, req>>
        \/ pc \in Granted /\ pc' \in Granted /\ UNCHANGED <<installed, saved>>
        \/ pc \in Granted /\ pc' \in Granted /\ installed' = Damaged /\ saved' = saved
        \/ /\ pc \in Granted /\ pc' = "idle"
           /\ installed' = installed \/ (installed = Damaged /\ installed' = req.input)
<1> SUFFICES ASSUME SessionInv, [Next]_vars PROVE Moved
  OBVIOUS
<1> USE DEF SessionInv, GateInv, drive, session, history, ledger, Refuse, End, Goto, Early, Acknowledged,
        Secured, Authorized, Consented, Granted, Writing
<1>1. CASE UNCHANGED vars
  BY <1>1 DEF vars
<1>2. ASSUME NEW r \in Requests, Start(r) PROVE Moved
  BY <1>2 DEF Start
<1>3. CASE OpenFlash
  BY <1>3 DEF OpenFlash
<1>4. CASE Capability
  BY <1>4 DEF Capability
<1>5. CASE RequiredBackupPath
  BY <1>5 DEF RequiredBackupPath
<1>6. CASE TrayCheck
  BY <1>6 DEF TrayCheck
<1>7. CASE Plan
  BY <1>7 DEF Plan
<1>8. CASE DryRun
  BY <1>8 DEF DryRun
<1>9. CASE CheckSafety
  BY <1>9 DEF CheckSafety
<1>10. CASE Preflight
  BY <1>10 DEF Preflight
<1>11. CASE CaptureBackup
  BY <1>11 DEF CaptureBackup, Offer
<1>12. CASE SaveBackup
  BY <1>12 DEF SaveBackup
<1>13. CASE VerifyBackup
  BY <1>13 DEF VerifyBackup, Offer
<1>14. CASE ProceedWithoutBackup
  BY <1>14 DEF ProceedWithoutBackup
<1>15. CASE Authorize
  BY <1>15 DEF Authorize
<1>16. CASE Confirm
  BY <1>16 DEF Confirm
<1>17. CASE FinalTrayCheck
  BY <1>17 DEF FinalTrayCheck
<1>18. CASE Grant
  BY <1>18 DEF Grant
<1>19. CASE EnterUpdate
  BY <1>19 DEF EnterUpdate
<1>20. CASE SendPayload
  BY <1>20 DEF SendPayload
<1>21. CASE EntryFails
  BY <1>21 DEF EntryFails
<1>22. CASE UpdateFails
  BY <1>22 DEF UpdateFails
<1>23. CASE UpdateCompletes
  BY <1>23 DEF UpdateCompletes
<1>24. CASE MoveTray
  BY <1>24 DEF MoveTray
<1>25. CASE Crash
  BY <1>25 DEF Crash
<1>26. ASSUME NEW p \in Paths, OtherProgramCreates(p) PROVE Moved
  BY <1>26 DEF OtherProgramCreates
<1> QED
  BY <1>1, <1>2, <1>3, <1>4, <1>5, <1>6, <1>7, <1>8, <1>9, <1>10, <1>11, <1>12, <1>13,
     <1>14, <1>15, <1>16, <1>17, <1>18, <1>19, <1>20, <1>21, <1>22, <1>23, <1>24, <1>25,
     <1>26
     DEF Next, Step

\* The archive stays, or what the drive runs joins it while a backup is saved.
LEMMA ArchiveStep ==
    ASSUME SessionInv, [Next]_vars
    PROVE  \/ \A f \in Firmware : Archived(f)' <=> Archived(f)
           \/ /\ pc = "save" /\ pc' \in {"verify", "idle"} /\ installed \in Firmware
              /\ \A f \in Firmware : Archived(f)' <=> Archived(f) \/ f = installed
<1> USE Constants
<1>1. \A f \in Firmware : Archived(f) => Archived(f)'
  <2> SUFFICES ASSUME NEW f \in Firmware, NEW p \in Paths,
                      files[p] = [fw |-> f, complete |-> TRUE]
               PROVE  files'[p] = files[p]
    BY DEF Archived
  <2>1. files[p] # Absent
    <3>1. [fw |-> f, complete |-> TRUE] \in Capture
      BY DEF Capture
    <3> QED BY <3>1
  <2> QED BY <2>1, FilesFrame DEF SessionInv
<1>2. CASE files' = files
  BY <1>2 DEF Archived
<1>3. ASSUME NEW p \in Paths, files' = [files EXCEPT ![p] = Foreign]
      PROVE  \A f \in Firmware : Archived(f)' => Archived(f)
  <2> SUFFICES ASSUME NEW f \in Firmware, NEW q \in Paths,
                      files'[q] = [fw |-> f, complete |-> TRUE]
               PROVE  files[q] = [fw |-> f, complete |-> TRUE]
    BY DEF Archived
  <2>1. [fw |-> f, complete |-> TRUE] # Foreign
    <3>1. [fw |-> f, complete |-> TRUE] \in Capture
      BY DEF Capture
    <3> QED BY <3>1
  <2> QED BY <1>3, <2>1 DEF SessionInv, TypeOK
<1>4. ASSUME pc = "save", pc' \in {"verify", "idle"},
             NEW left \in {Partial, captured}, files' = [files EXCEPT ![dest] = left]
      PROVE  \/ \A f \in Firmware : Archived(f)' => Archived(f)
             \/ /\ installed \in Firmware
                /\ \A f \in Firmware : Archived(f)' <=> Archived(f) \/ f = installed
  <2>1. captured \in Capture /\ dest \in Paths /\ captured.fw = installed
    BY <1>4 DEF SessionInv, BackupInv
  <2>2. files \in [Paths -> Capture \cup {Absent, Foreign, Partial}]
    BY DEF SessionInv, TypeOK
  <2>3. CASE left = captured /\ captured.complete
    <3>1. installed \in Firmware /\ captured = [fw |-> installed, complete |-> TRUE]
      BY <2>1, <2>3 DEF Capture
    <3>2. \A f \in Firmware : Archived(f)' => Archived(f) \/ f = installed
      BY <1>4, <2>1, <2>2, <2>3, <3>1 DEF Archived
    <3>3. Archived(installed)'
      BY <1>4, <2>1, <2>2, <2>3, <3>1, DriveFrame DEF Archived, SendPayload, UpdateFails, UpdateCompletes
    <3> QED BY <1>1, <3>1, <3>2, <3>3, DriveFrame DEF SendPayload, UpdateFails, UpdateCompletes
  <2>4. CASE ~(left = captured /\ captured.complete)
    <3> SUFFICES ASSUME NEW f \in Firmware, NEW q \in Paths,
                        files'[q] = [fw |-> f, complete |-> TRUE]
                 PROVE  files[q] = [fw |-> f, complete |-> TRUE]
      BY DEF Archived
    <3>1. [fw |-> f, complete |-> TRUE] \in Capture
      BY DEF Capture
    <3>2. left # [fw |-> f, complete |-> TRUE]
      BY <2>1, <2>4, <3>1 DEF Capture
    <3> QED BY <1>4, <2>1, <2>2, <3>2
  <2> QED BY <2>3, <2>4
<1> QED BY <1>1, <1>2, <1>3, <1>4, FilesStep

\* Whatever the firmware, the requests and the paths, a session is a gated update
\* (ImplementsGatedUpdate): it arms with a rollback that is on disk, or waived, and
\* overwrites only then.
THEOREM SessionsAreGated == Spec => ImplementsGatedUpdate
<1> DEFINE Archive == {f \in Firmware : Archived(f)}
           Armed == IF pc \in Granted THEN IF saved # NoBackup THEN "rollback" ELSE "waived"
                    ELSE "no"
<1>1. Init => Gated!GatedInit
  <2> SUFFICES ASSUME Init PROVE Gated!GatedInit
    OBVIOUS
  <2>1. installed \in Firmware /\ pc \notin {"grant"} \cup Writing
    BY Constants DEF Init, Writing
  <2>2. \A f \in Firmware : ~Archived(f)
    <3> SUFFICES ASSUME NEW f \in Firmware, NEW p \in Paths,
                        files[p] = [fw |-> f, complete |-> TRUE]
                 PROVE  FALSE
      BY DEF Archived
    <3>1. [fw |-> f, complete |-> TRUE] \in Capture
      BY DEF Capture
    <3> QED BY <3>1, Constants DEF Init
  <2> QED BY <2>1, <2>2 DEF Gated!GatedInit
<1>2. SessionInv /\ [Next]_vars => [Gated!GatedNext]_(Gated!gatedVars)
  <2> SUFFICES ASSUME SessionInv, [Next]_vars
               PROVE  Gated!GatedNext \/ UNCHANGED <<installed, Archive, Armed>>
    BY DEF Gated!gatedVars, Granted
  <2>1. "finalTray" \notin Granted /\ "save" \notin Granted /\ "verify" \notin Granted
        /\ "idle" \notin Granted
    BY DEF Granted, Writing
  <2>2. Archive' = Archive \/ (pc = "save" /\ pc' \in {"verify", "idle"} /\ installed \in Firmware
                               /\ Archive' = Archive \cup {installed})
    BY ArchiveStep
  <2>3. CASE pc \notin Granted /\ pc' \notin Granted /\ installed' = installed
    <3>1. Armed = "no" /\ Armed' = "no"
      BY <2>3
    <3>2. CASE Archive' = Archive
      BY <2>3, <3>1, <3>2
    <3>3. CASE installed \in Firmware /\ Archive' = Archive \cup {installed}
      BY <2>3, <3>1, <3>3 DEF Gated!GatedNext, Gated!Keep, Granted
    <3> QED BY <2>2, <3>2, <3>3
  <2>4. CASE pc = "finalTray" /\ pc' \in Granted /\ UNCHANGED <<installed, saved, factory, req>>
    <3>1. Archive' = Archive /\ Armed = "no"
      BY <2>1, <2>2, <2>4
    <3>2. CASE saved = NoBackup
      <4>1. Armed' = "waived"
        BY <2>4, <3>2
      <4> QED BY <2>4, <3>1, <4>1 DEF Gated!GatedNext, Gated!ArmWaived, Granted
    <3>3. CASE saved # NoBackup
      <4>1. Armed' = "rollback"
        BY <2>4, <3>3
      <4>2. saved \in Capture /\ saved.fw = installed /\ Archived(saved.fw)
        BY <2>4, <3>3, SecuredIsArchived
           DEF SessionInv, BackupInv, Secured, Authorized, Consented
      <4>3. installed \in Archive
        BY <4>2 DEF Capture
      <4> QED BY <2>4, <3>1, <4>1, <4>3 DEF Gated!GatedNext, Gated!ArmWithRollback, Granted
    <3> QED BY <3>2, <3>3
  <2>5. CASE pc \in Granted /\ pc' \in Granted /\ saved' = saved
             /\ installed' \in {installed, Damaged}
    <3>1. Archive' = Archive /\ Armed' = Armed /\ Armed # "no"
      BY <2>1, <2>2, <2>5
    <3> QED BY <2>5, <3>1 DEF Gated!GatedNext, Gated!Overwrite, Granted
  <2>6. CASE pc \in Granted /\ pc' = "idle"
             /\ (installed' = installed \/ (installed = Damaged /\ installed' = req.input))
    <3>1. Archive' = Archive /\ Armed' = "no" /\ Armed # "no"
      BY <2>1, <2>2, <2>6
    <3>2. req.input \in Firmware
      BY DEF SessionInv, TypeOK, Request
    <3> QED BY <2>6, <3>1, <3>2 DEF Gated!GatedNext, Gated!Disarm, Granted
  <2> HIDE DEF Archive, Armed
  <2> QED BY <2>3, <2>4, <2>5, <2>6, GrantedStep
<1> QED
  BY <1>1, <1>2, Invariant, PTL DEF Spec, ImplementsGatedUpdate, Gated!GatedSpec
=============================================================================
