SPECIFICATION ServicesSpec
CONSTANTS
    p1 = p1
    p2 = p2
    Panels = {p1, p2}
    MaxAttempts = 2
    MaxAuto = 2
    MaxClicks = 2
    MaxAnswers = 4
    MaxRounds = 8
    MaxNoProgress = 2
    MaxEscalations = 3
    EscalateAfter = 1
    FirstTier = 0
    TopTier = 3
    v1 = v1
    v2 = v2
    draft = draft
    Viewers = {v1, v2}
    Names = {draft}
    FirstSteps = 1
    MaxSteps = 3
    MaxEdits = 3
    t1 = t1
    t2 = t2
    f1 = f1
    g1 = g1
    NoTab = NoTab
    Tabs = {t1, t2}
    Frames = {f1, g1}
    Parent <- MCParent
    TabOf <- MCTabOf
    replay = replay
    validate = validate
    Callers = {replay, validate}
    Replays = {replay}
    MaxCalls = 3
    MaxDialogs = 2
    home = home
    item1 = item1
    item2 = item2
    Urls = {home, item1, item2}
    Route <- MCRoute
    StepsOfRun = {"s1", "s2"}
    MaxTries = 2
    MaxSessions = 2
    MaxChanges = 2
    Selectors = {"testid", "text", "label"}
    Score <- MCScore
    MaxCandidates = 2
    MaxMoves = 2
    Clients = {"a", "b"}
    PromoteAfter = 2
    DegradeAfter = 1
    RetireAfter = 2
    RevalidateAfter = 1
    EvidenceIds = {"e1"}
    Configs = {"c1", "c2"}
    Pairs = {"p1", "p2"}
    MaxWork = 4
    Targets <- MCTargets
    Contents <- MCContents
    MaxShifts = 1
    a = a
    b = b
    d = d
    css = css
    text = text
    area = area
    file1 = file1
    Steps0 <- TwoSteps
    NewSteps = {d}
    Uploads = {b}
    SelectorsOf <- ASelector
    UploadExtras <- UploadArea
    MaxReplaySessions = 2
    MaxRequests = 5
    RunsAtOnce = 1
    None = None
INVARIANTS
    NobodyWaitsForNothing
    AutoRoundsBounded
    GivesUpAtTheTop
    NoHiddenStep
    DialogsHangOnlyAfterGivingUp
    ReuseSeenHere
    StrongestWins
    TrustIsEarned
    NothingDangles
    UniqueComesFirst
    ErrorsAreCurrent
PROPERTIES
    StopIsHonoured
    FixedWhereProbed
\* Every part comes to an end within its bounds.
CHECK_DEADLOCK FALSE
