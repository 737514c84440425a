SPECIFICATION Spec
CONSTANTS
  pioneer = pioneer
  mediatek = mediatek
  paired = paired
  single = single
  m1 = m1
  m2 = m2
  None = None
  Drives = {pioneer}
  Files = {single}
  MembersIn <- MCMembersIn
  ProfilesOf <- MCProfilesOf
  Chosen <- MainPicks
  MaxJobs = 3
  MaxChoices = 2
  Reports = TRUE
INVARIANT ConsentIsForTheJob
INVARIANT SheetIsLive
PROPERTY OutcomeIsTrue
CHECK_DEADLOCK FALSE
