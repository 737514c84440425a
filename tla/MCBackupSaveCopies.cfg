\* A filesystem without hard links, three exclusive savers. Every call returns.
CONSTANTS
    s1 = s1  s2 = s2  s3 = s3
    Savers <- MCSavers
    Replacers <- NoReplacer
    Other = Other  None = None
    HardLinks = FALSE
    SyncsDirectory = TRUE
SPECIFICATION Spec
SYMMETRY Alike
INVARIANTS SavedIsSafe
PROPERTIES NoClobber
CHECK_DEADLOCK FALSE
