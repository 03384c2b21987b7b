\* A parent with two children, of which the last one is archived; nothing fails.
SPECIFICATION FairSpec
CONSTANTS
    p = p  x = x  y = y
    Tasks = {p, x, y}
    NoTask = NoTask
    Trees <- FamilyOnly
    Callers = {c1}
    MaxWrong = 0
    MaxCrashes = 0
INVARIANT ArchiveTolerated
CHECK_DEADLOCK FALSE
