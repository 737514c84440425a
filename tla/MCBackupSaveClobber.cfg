\* Without hard links, exclusive savers beside a confirmed replacement.
CONSTANTS
    s1 = s1  s2 = s2  s3 = s3
    Savers <- MCSavers
    Replacers <- OneReplacer
    Other = Other  None = None
    HardLinks = FALSE
    SyncsDirectory = TRUE
SPECIFICATION Spec
PROPERTIES NoClobber
CHECK_DEADLOCK FALSE
