\* One drive of each backend; the first counterexample is a cancel during identification.
SPECIFICATION AnalysisSpec
CONSTANTS
    Selectable = {pio, mtk}
    Sweeping = {mtk}
    FirmwareFiles = {f1}
    CapturePaths = {k1}
    CaptureParts = 2
    MaxAnalyses = 2
    Absent = Absent
INVARIANT CancelledIsNoFailure
CHECK_DEADLOCK FALSE
