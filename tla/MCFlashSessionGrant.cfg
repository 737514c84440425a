\* A session that is waived its backup or not, against what gates.rs says of the grant.
CONSTANTS
    stock = stock  sibling = sibling  twin = twin  stranger = stranger
    pioneer = pioneer  pioneerX = pioneerX
    Firmware <- MCFirmware
    Drives <- MCDrives
    Requests <- MCRequests
    BackendOf <- MCBackendOf
    FamilyOf <- MCFamilyOf
    PlatformOf <- MCPlatformOf
    SameModel <- MCSameModel
    Unknown <- MCUnknown
    Paths <- MCPaths
    NoFirmware = NoFirmware  Damaged = Damaged  NoPath = NoPath
    Absent = Absent  Foreign = Foreign  Partial = Partial
    NoBackup = NoBackup  NoResult = NoResult
    MaxSessions = 1
    MaxForeign = 1
SPECIFICATION Spec
INVARIANTS GrantHasBackup
