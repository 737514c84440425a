\* Two sessions, one after the other, on a drive of each backend.
CONSTANTS
    stock = stock  sibling = sibling  twin = twin  stranger = stranger
    pioneer = pioneer  pioneerX = pioneerX
    Firmware <- MCFirmware
    Drives <- MCDrives
    Requests <- MCRequests
    BackendOf <- MCBackendOf
    FamilyOf <- MCFamilyOf
    PlatformOf <- MCPlatformOf
    SameModel <- MCSameModel
    Unknown <- MCUnknown
    Paths <- MCPaths
    NoFirmware = NoFirmware  Damaged = Damaged  NoPath = NoPath
    Absent = Absent  Foreign = Foreign  Partial = Partial
    NoBackup = NoBackup  NoResult = NoResult
    MaxSessions = 2
    MaxForeign = 1
SPECIFICATION FairSpec
INVARIANTS GatedWrite CrossflashReversible BlockedMeansUntouched
    RollbackKept FamilyKept
PROPERTIES FilesKept ImplementsGatedUpdate SessionsEnd
