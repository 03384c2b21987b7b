\* Every host, one release update, four commands of which two may be killed or
\* fail, and three acts of the user or of other plugins.
SPECIFICATION PluginSpec
CONSTANTS
    HostKinds = {"zcode", "qoder", "kimi-code", "claude-code", "codex"}
    LastRelease = 2
    MaxHostCommands = 4
    MaxStops = 2
    MaxActs = 3
PROPERTIES AddDelivers ForeignKept RemoveLeavesNothing
CHECK_DEADLOCK FALSE
