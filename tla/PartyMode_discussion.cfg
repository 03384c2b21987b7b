\* Two agents, two rounds, one response each; one action of the host fails,
\* one command stops half way, the host may lag one list of actions behind.
CONSTANTS
    Agents = {a1, a2}
    MaxRounds = 2
    MaxTargets = 1
    Fresh = TRUE
    Supported = TRUE
    MaxLag = 1
    MaxInits = 1
    MaxFailures = 1
    MaxStops = 1
SPECIFICATION FairSpec
INVARIANTS ConvergedHasVoices ReportIsFaithful
PROPERTY Concludes
CHECK_DEADLOCK FALSE
