SPECIFICATION Spec
CONSTANTS
  pioneer = pioneer
  mediatek = mediatek
  paired = paired
  single = single
  m1 = m1
  m2 = m2
  None = None
  Drives = {pioneer}
  Files = {single}
  MembersIn <- MCMembersIn
  ProfilesOf <- MCProfilesOf
  Chosen <- MixedPicks
  MaxJobs = 1
  MaxChoices = 2
  Reports = FALSE
INVARIANT NoProbeAroundUpdate
CHECK_DEADLOCK FALSE
