SPECIFICATION FairSpec
CONSTANTS
  pioneer = pioneer
  mediatek = mediatek
  paired = paired
  single = single
  m1 = m1
  m2 = m2
  None = None
  Drives = {mediatek}
  Files = {paired, single}
  MembersIn <- MCMembersIn
  ProfilesOf <- MCProfilesOf
  Chosen <- FlashPicks
  MaxJobs = 1
  MaxChoices = 2
  Reports = FALSE
INVARIANT InspectionIsCurrent
PROPERTY JobsEnd
CHECK_DEADLOCK FALSE
