SPECIFICATION Spec
CONSTANTS
  pioneer = pioneer
  mediatek = mediatek
  paired = paired
  single = single
  m1 = m1
  m2 = m2
  None = None
  Drives = {pioneer}
  Files = {single}
  MembersIn <- MCMembersIn
  ProfilesOf <- MCProfilesOf
  Chosen <- MainPicks
  MaxJobs = 1
  MaxChoices = 1
  Reports = FALSE
INVARIANT NeverClaimsNoChange
CHECK_DEADLOCK FALSE
