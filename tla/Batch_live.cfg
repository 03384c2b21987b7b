\* Results that are wrong, late or repeated, and commands that are killed.
SPECIFICATION FairSpec
CONSTANTS
    p = p  x = x  y = y
    Tasks = {p, x, y}
    NoTask = NoTask
    Trees <- Both
    Callers = {c1}
    MaxWrong = 1
    MaxCrashes = 2
INVARIANT CompletedIsReal
PROPERTIES DoneOnce EventuallyCompleted
CHECK_DEADLOCK FALSE
