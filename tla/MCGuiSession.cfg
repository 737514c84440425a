SPECIFICATION Spec
CONSTANTS
  pioneer = pioneer
  mediatek = mediatek
  paired = paired
  single = single
  m1 = m1
  m2 = m2
  None = None
  Drives = {pioneer, mediatek}
  Files = {paired}
  MembersIn <- MCMembersIn
  ProfilesOf <- MCProfilesOf
  Chosen <- RecoveryPicks
  MaxJobs = 1
  MaxChoices = 2
  Reports = FALSE
SYMMETRY MemberSymmetry
INVARIANT OverrideIsForSelection
CHECK_DEADLOCK FALSE
