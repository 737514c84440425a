\* A filesystem with hard links, two exclusive savers and a confirmed replacement.
\* Every call returns: the system may stop.
CONSTANTS
    s1 = s1  s2 = s2  s3 = s3
    Savers <- MCSavers
    Replacers <- OneReplacer
    Other = Other  None = None
    HardLinks = TRUE
    SyncsDirectory = TRUE
SPECIFICATION Spec
SYMMETRY Alike
PROPERTIES ImplementsAtomicFile
CHECK_DEADLOCK FALSE
