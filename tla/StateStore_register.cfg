\* Two callers of replace and delete, with and without expected_revision,
\* twice each, a cleanup, every IO fault, crashes at any point: the lock excludes and
\* the protocol implements the atomic register.
SPECIFICATION Spec
CONSTANTS
    Procs = {p1, p2}
    Ops = {o1}
    Values = {v1, v2}
    NoOp = NoOp  NoValue = NoValue  AnyRevision = AnyRevision  NoCall = NoCall
    Kinds = {"replace", "delete"}
    Blind = TRUE
    Removers = {r1}
    NoLock = NoLock
    IoFaults = {"open", "payload", "save", "unlink"}
    MaxCalls = 2
SYMMETRY ValueSymmetry
INVARIANTS TypeOK MutualExclusion LoadedIsCurrent
PROPERTY ImplementsRegister
CHECK_DEADLOCK FALSE
