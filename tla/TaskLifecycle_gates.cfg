\* Two executors, one task, and a world that moves.
SPECIFICATION Spec
CONSTANTS
    p1 = p1  p2 = p2  k1 = k1  k2 = k2  text = text
    Procs = {p1, p2}
    Planners = {p2}
    Keys = {k1, k2}
    Labels <- Labelled
    NoKey = NoKey
    Intents = {"implement", "review"}
    Ambient <- OneSession
    Shared = {}
    Files = {"f", "g"}
    Texts = {text, other}
    Absent = Absent
    Checkouts <- Clones
    Renames <- Moved
    Protected = {"f"}
    Ledgers <- Noise
    Profiles = {"strict"}
    PlanFiles = {"plan"}
    DevTypes = {"backend"}
    PlanDrafts <- Plans
    AnchorDrafts <- Anchors
    IndexDrafts <- Indexes
    Created <- Beginnings
    MaxMoves = 1
    MaxReceipts = 2
PROPERTIES StartedAsApproved HandoverIsRecorded NothingUnlisted CompletedAsReviewed
CHECK_DEADLOCK FALSE
