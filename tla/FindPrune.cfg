SPECIFICATION RecordsSpec
CONSTANTS
    Subjects = {"state"}
    r1 = r1
    r2 = r2
    r3 = r3
    r4 = r4
    r5 = r5
    head = head
    middle = middle
    last = last
    brief = brief
    Swarms = {brief}
    Exprs <- MCExprs
    Calendar <- MCCalendar
    Gone = Gone
    MaxFailures = 1
    RunsKept = 1
    MaxRuns = 1
    MaxEdits = 1
    MaxRestarts = 0
    Runs = {r1, r2}
    Legacy = {r1, r2}
    Start <- MCStart
    Cap = 2
    DiskFaults = {}
    Crashes = 0
    Listed = {"a", "b"}
    Tails = {"c", "d"}
    Buffer = 1
    Edits <- MCEdits
    Entries = 4
    Jobs = {"j1", "j2"}
    Bots = {"b1", "b2"}
    Shipped = {"b2"}
    MaxIter = 1
    MaxTries = 2
    PlanBots <- MCPlanBots
    Docs <- MCDocs
    MaxLen = 2
    Processes = {"daemon", "cli"}
    Sessions = {1, 2}
    Digests = {"x"}
    Kept = 1
    Startups = 3
    Watchers = {"meeting"}
    Program <- DriveWatch
    Arrivals = 1
    Retried = 1
    Polls = 1
    Holders = {"daemon"}
    Calls <- MCCalls
    SecretKeys = {"slack", "drive"}
    Deaths = 2
    NestFiles = {"a", "b", "c"}
    Nestings <- MCNestings
    MaxNest = 2
INVARIANT
    RunningKeepsItsFiles
CHECK_DEADLOCK FALSE
