SPECIFICATION ProjectSpec
CONSTANTS
    Template <- const_Template
    SkillCopies <- const_SkillCopies
    RetiredSkills = {"movedSkill", "goneSkill"}
    RetiredFiles = {"oldFile"}
    WithOriginal = {"movedSkill"}
    VersionFile = "version"
    Config = "config"
    Developer = "developer"
    Hosts = {"codex", "claude"}
    Owners <- const_Owners
    ReadRoot <- const_ReadRoot
    Marker <- const_Marker
    SafePaths = {"contract", "guide", "config", "developer", "codexAgent"}
    ProtectedPaths = {"guide", "config", "developer"}
    ForceProtectedPaths = {"config"}
    ManagedPaths = {"AGENTS", "CLAUDE"}
    RuntimePaths <- const_RuntimePaths
    Localized = {"contract"}
    Unchanging = {"movedSkill"}
    Releases = {1, 2}
    Starts <- const_Starts
    Editable = {"contract", "guide", "AGENTS", "CLAUDE", "developer", "movedSkill"}
    Deletable = {"version", "claudeSkill"}
    Kinds = {"init", "sync", "refresh"}
    MaxCommands = 3
    MaxPuts = 2
INVARIANT SyncReaches
INVARIANT HostsHaveACause
PROPERTY OwnTextKept
PROPERTY FailureHasACause
CHECK_DEADLOCK FALSE
