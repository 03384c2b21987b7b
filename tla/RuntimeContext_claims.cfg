\* Inits, binds and closes of two contexts by two processes.
SPECIFICATION Spec
CONSTANTS
    t = t
    Contexts = {c1, c2}
    Keys = {k1, k2}
    Tasks = {t}
    None = None
    Assignments <- Nested
    Procs = {p1, p2}
    MaxRevision = 3
    MaxEvidence = 2
    MaxMain = 1
SYMMETRY Symmetric
PROPERTIES OverlapHasACause KeyStable EvidenceKept
CHECK_DEADLOCK FALSE
