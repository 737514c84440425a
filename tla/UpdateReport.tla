------------------------------ MODULE UpdateReport ------------------------------
(***************************************************************************)
(* What an update executor may say of a drive.  While it runs, commands    *)
(* reach the drive; when it stops it reports one consequence, and that is  *)
(* never milder than what the drive has seen.  MtkUpdate and PioneerUpdate *)
(* implement it.                                                           *)
(***************************************************************************)
VARIABLES
    reached,   \* the furthest command that got to the drive
    holds,     \* the firmware that the drive holds
    said       \* the consequence reported, "nothing" while the update runs

reportVars == <<reached, holds, said>>

Holds == {"installed", "unproven", "temporary", "target"}
Consequences == {"Blocked", "EntryUncertain", "PayloadUncertain", "TemporaryFirmware", "Completed"}

ReportInit == reached = "nothing" /\ holds = "installed" /\ said = "nothing"

Enter ==
    /\ said = "nothing" /\ reached = "nothing"
    /\ reached' = "entry" /\ UNCHANGED <<holds, said>>

Write ==
    /\ said = "nothing"
    /\ reached' = "payload" /\ holds' \in Holds /\ UNCHANGED said

\* What each consequence leaves possible.
True(consequence) ==
    CASE consequence = "Blocked" -> reached = "nothing"
      [] consequence = "EntryUncertain" -> reached # "payload"
      [] consequence = "PayloadUncertain" -> holds # "temporary"
      [] consequence = "TemporaryFirmware" -> TRUE
      [] consequence = "Completed" -> holds = "target"

Say ==
    /\ said = "nothing"
    /\ said' \in {c \in Consequences : True(c)} /\ UNCHANGED <<reached, holds>>

ReportNext == Enter \/ Write \/ Say
ReportSpec == ReportInit /\ [][ReportNext]_reportVars
=============================================================================
