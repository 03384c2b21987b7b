\* Documents that are replaced and never deleted, under fair scheduling: no update is
\* lost, calls return, and locks are given up, by their owner or by the cleanup.
SPECIFICATION FairSpec
CONSTANTS
    Procs = {p1, p2}
    Ops = {o1, o2}
    Values = {v1, v2}
    NoOp = NoOp  NoValue = NoValue  AnyRevision = AnyRevision  NoCall = NoCall
    Kinds = {"replace"}
    Blind = FALSE
    Removers = {r1}
    NoLock = NoLock
    IoFaults = {"open", "payload", "save"}
    MaxCalls = 1
INVARIANT NoOrphanLock
PROPERTIES NoLostUpdate EveryCallReturns StaleLockCleared
CHECK_DEADLOCK FALSE
