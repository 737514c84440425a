---------------------------- MODULE MCGuiSession ----------------------------
(* Instances of GuiSession for TLC. *)
EXTENDS GuiSession

CONSTANTS pioneer, mediatek, paired, single, m1, m2

MCMembersIn == paired :> {m1, m2} @@ single :> {}

Unknown == [reprofile |-> TRUE, canRead |-> TRUE, flashCurrent |-> FALSE, override |-> FALSE]

MCProfilesOf ==
  pioneer :> {Unknown, [Unknown EXCEPT !.reprofile = FALSE, !.override = TRUE]}
  @@ mediatek :> {[reprofile |-> FALSE, canRead |-> FALSE, flashCurrent |-> TRUE,
                   override |-> FALSE]}

FlashPicks == {"FlashFirmware", "FlashCurrent"}
RecoveryPicks == {"RecoveryInput", "RecoveryCurrent"}
MainPicks == {"FlashFirmware", "RecoveryInput"}
MixedPicks == {"FlashFirmware", "RecoveryCurrent"}
FlashOnly == {"FlashFirmware"}

MemberSymmetry == Permutations({m1, m2})
=============================================================================
