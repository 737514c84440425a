---------------------------- MODULE MCFlashSession ----------------------------
(***************************************************************************)
(* FlashSession on a small instance: a MediaTek drive's firmware and what  *)
(* an operator could select for it, each standing for one way to be wrong, *)
(* and a Pioneer pair of the same and of another family.                   *)
(***************************************************************************)
EXTENDS FlashSession, FiniteSets

CONSTANTS
    stock,     \* MediaTek, the model and family of the drive
    sibling,   \* another model of the same family: a crossflash
    twin,      \* the same model name on another family's hardware
    stranger,  \* another model and family on the same platform
    pioneer,   \* a Pioneer image
    pioneerX   \* a Pioneer image of another family

MCFirmware == {stock, sibling, twin, stranger, pioneer, pioneerX}
MCBackendOf == [f \in MCFirmware |-> IF f \in {pioneer, pioneerX} THEN "pioneer" ELSE "mtk"]
MCFamilyOf == [f \in MCFirmware |->
    CASE f \in {stock, sibling} -> "mt-a" [] f \in {twin, stranger} -> "mt-b"
      [] f = pioneer -> "pi-a" [] OTHER -> "unknown"]
MCPlatformOf == [f \in MCFirmware |-> IF f \in {pioneer, pioneerX} THEN "pi" ELSE "jb"]
MCSameModel == {<<f, f>> : f \in MCFirmware} \cup {<<stock, twin>>, <<twin, stock>>}
MCUnknown == "unknown"
MCPaths == 0 .. (MaxSessions + MaxForeign - 1)

MCDrives == {stock, pioneer}

\* Every choice of the caller, with a Current reference of the right and of the
\* wrong family, and an explicit or a default destination.
EveryRequest ==
    [via : {"workflow", "library"}, execute : BOOLEAN, acknowledged : BOOLEAN,
     input : MCFirmware, current : {NoFirmware, stock, twin}, asks : BOOLEAN,
     backup : {NoPath, 0}]

\* What keeps a request from being the plain wish to write.
Reservations(r) ==
    {x \in {"preview", "unacknowledged", "current", "asks", "backup"} :
        CASE x = "preview" -> ~r.execute
          [] x = "unacknowledged" -> ~r.acknowledged
          [] x = "current" -> r.current # NoFirmware
          [] x = "asks" -> r.asks
          [] x = "backup" -> r.backup # NoPath}

\* An operator who wants the drive written, with at most one reservation.
MCRequests == {r \in EveryRequest : Cardinality(Reservations(r)) <= 1}
=============================================================================
