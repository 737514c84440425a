SPECIFICATION Spec
CONSTANTS
    Drives <- MCDrives
    NoDrive = NoDrive
    FamilyOf <- MCFamilyOf
    InquiryOf <- MCInquiryOf
    BackendFor <- MCBackendFor
    Overriders = {"pioneer"}
    RecoveryRequests <- MCRecoveryRequests
    NoImage = "noImage"
    Preparations = {p1, p2}
    Callers = {c1, c2}
    NoIdentity = "noIdentity"
    NoSession = NoSession
    MaxMoves = 2
    Depth = 3
    SweepChunks = 4
    Pieces = 2
    SplitBudget = 2
    RegionChunks = 2
    ProbeLimit = 3
    Texts = {t1}
    NoText = NoText
    Uploads = 2
    MaxRestarts = 1
    MaxReports = 2
    MaxStages = 3
    Settings = {s1, s2}
    Torn = Torn
    None = None
    MaxSheets = 3
    Chunks = 3
    TornImage = TornImage
    NoReport = NoReport
    Selectable = {pio, mtk}
    Sweeping = {mtk}
    FirmwareFiles = {f1}
    CapturePaths = {k1}
    CaptureParts = 2
    MaxAnalyses = 2
    Absent = Absent
    Agids = {a1}
    Choices <- MCChoices
    Images <- MCImages
    Unsaved = Unsaved
    CodeCells = 18
    Files <- MCFiles
    OtherFiles <- MCOtherFiles
    OfferedSettings <- MCOfferedSettings
    MaxCreates = 1
    MaxReplacements = 1
    NoFile = NoFile
    Packages <- MCPackages
    PlanDrives <- MCPlanDrives
    References <- MCReferences
    Rules <- MCRules
    Bridges <- MCBridges
    NoPart = NoPart
CHECK_DEADLOCK FALSE
INVARIANTS
    RecoversOnceWhatWasPrepared
    PerformedOnce
    EmptyIsProven
    SelectionIsProven
    ReceiptIsDurable
    SweepIsExact
    ArchiveIsStable
    NoticeIsTrue
    GuidanceIsTrue
    ReportIsOfTheStages
    EvidenceIsTrue
    ResultIsOfTheSlots
    DriveIsNotOverused
    BypassIsContained
    SavedSettingsAreKept
    ImageIsAsReported
    FormOffersWhatIsBuilt
    AdmissionIsRight
PROPERTIES
    ReportEnds
    ImplementsUpdateReport
    MtkImplementsUpdateReport
    FinalOverIntermediate
    SheetsAreShown
