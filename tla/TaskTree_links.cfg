\* Two commands at once, one of them killed or hit by a failure.
CONSTANTS
    Names = {t1, t2, t3}
    None = None
    Procs = {p, q}
    Serial = FALSE
    MaxCommands = 2
    MaxDeps = 1
    MaxFaults = 1
    MaxCrashes = 1
SPECIFICATION Spec
SYMMETRY Symmetry
INVARIANTS LinksAgree CycleHasACause OneHome EditKept
CHECK_DEADLOCK FALSE
