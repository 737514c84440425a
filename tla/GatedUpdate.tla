------------------------------ MODULE GatedUpdate ------------------------------
(***************************************************************************)
(* What the flasher owes the drive, without any of the gates that deliver  *)
(* it: the firmware of a drive is overwritten only while the update is     *)
(* armed, it is armed by a rollback in the archive or by a waiver, and     *)
(* the archive only grows.  FlashSession implements it.                    *)
(***************************************************************************)
CONSTANTS Firmware, Damaged

VARIABLES
    firmware,   \* what the drive holds
    archive,    \* the images of which a complete backup exists
    armed       \* "no", "rollback" or "waived"

gatedVars == <<firmware, archive, armed>>

GatedTypeOK ==
    /\ firmware \in Firmware \cup {Damaged}
    /\ archive \subseteq Firmware
    /\ armed \in {"no", "rollback", "waived"}

GatedInit == firmware \in Firmware /\ archive = {} /\ armed = "no"

\* A backup of what the drive runs joins the archive, before anything is armed.
Keep ==
    /\ armed = "no" /\ firmware \in Firmware
    /\ archive' = archive \cup {firmware} /\ UNCHANGED <<firmware, armed>>

ArmWithRollback ==
    /\ armed = "no" /\ firmware \in archive
    /\ armed' = "rollback" /\ UNCHANGED <<firmware, archive>>

ArmWaived == armed = "no" /\ armed' = "waived" /\ UNCHANGED <<firmware, archive>>

Overwrite ==
    /\ armed # "no" /\ firmware' = Damaged /\ UNCHANGED <<archive, armed>>

\* The update stops: refused or dead before it wrote, or with the drive left
\* damaged or programmed.
Disarm ==
    /\ armed # "no" /\ armed' = "no" /\ UNCHANGED archive
    /\ firmware' = firmware \/ (firmware = Damaged /\ firmware' \in Firmware)

GatedNext == Keep \/ ArmWithRollback \/ ArmWaived \/ Overwrite \/ Disarm
GatedSpec == GatedInit /\ [][GatedNext]_gatedVars
=============================================================================
