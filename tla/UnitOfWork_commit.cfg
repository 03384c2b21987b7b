\* A unit of two documents, single writes of each and recoveries: one after another with
\* two kills, or all at once with one.
SPECIFICATION FairSpec
CONSTANTS
    f1 = f1  f2 = f2
    N = 3
    Plan <- LinkPlan
    Files = {f1, f2}
    Existing = {f1, f2}
    Direct = {2, 3}
    Recoverers = {r1}
    Settings <- SerialOrNot
INVARIANT RolledBackIsClean
PROPERTIES NoNewerOverwritten EveryOperationDecided KeepsPromise
CHECK_DEADLOCK FALSE
