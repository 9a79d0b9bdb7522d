SPECIFICATION DeskSpec
CONSTANTS
    Subjects = {"work", "tuning", "files", "steps", "agents", "lab", "setup", "roster", "probes", "cards", "starts"}
    Rounds = 2
    Ports = {"p"}
    Lines = 1
    KillFaults = 1
    Requests = 2
    Together = 2
    Texts = {"v0", "v1"}
    Original <- MCOriginal
    Deaths = 1
    SaveFaults = 1
    Asks = 2
    AtOnce = 2
    Slots = 3
    ByHand <- MCByHand
    LocalZone = "Europe/Paris"
    Falls = 1
    Programs <- MCPrograms
    Attempts = 2
    Turns <- MCTurns
    MaxIterations = 2
    Strays = 1
    Bots = {"triage", "digest"}
    Profile <- MCProfile
    Approvals = "nanobots"
    EnsureCalls = 3
    MaxAgents = 2
    Prunes = 1
    NetFaults = 1
    Stops = 1
    Messages = {"m1", "m2"}
    Staff = {"designer"}
    Chunks = 1
    Choices = 1
    Boots = 1
    Connects = 2
    Starts = 1
    Saves = 1
    Sessions = {"b"}
    Roles = {"security", "legal"}
    Focuses = {"mine"}
    RoleRequests = 2
    Outsiders = 1
    DiskFails = 1
    Probed = {"docker", "vault"}
    ProbeTtl <- MCTtl
    CheckTime <- MCCheck
    Polls = 3
    Ticks = 4
    SwarmYamls = {"brief"}
    Hooked = {1}
    Versions = 2
    Viewers = {"tab1", "tab2"}
    Starters = {"s1", "s2"}
    Expiries = 1
INVARIANTS
    DeskTypes
    LogAndFilesWhole
    TunedIsOnRecord
    HandWrittenSurvives
    ActsAsAsked
    OneAgentAndItsKey
    LabFaithful
    ConnectionsAgree
    BoardSeesEveryEdit
    StatusHonest
    PageHonest
CHECK_DEADLOCK FALSE
VIEW DeskView
