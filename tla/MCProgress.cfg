SPECIFICATION ProgressSpec
CONSTANTS
    Threads = {"dag", "cache", "items", "schedule"}
    watch = watch
    notify = notify
    triage = triage
    mail = mail
    brief = brief
    Bots <- MCBots
    Deps <- MCDeps
    Retry <- MCRetry
    Continue = {notify}
    When = {triage, mail}
    Fallback = {triage, mail}
    Limit = 1
    Requests = {"a", "b"}
    Changers = {"c"}
    Changes = 1
    MaxItems = 3
    ItemLimit = 2
    Swarms = {brief}
    Exprs <- MCExprs
    Calendar <- MCCalendar
    Gone = Gone
    MaxFailures = 1
    RunsKept = 1
    MaxRuns = 1
    MaxEdits = 1
    MaxRestarts = 1
INVARIANTS
    ProgressTypes
    DagSafety
    CacheSafety
    FanOutSafety
PROPERTIES
    KeepsPromise
    SwarmReturns
    CacheAnswers
    BatchReturns
    DueIsServed
CHECK_DEADLOCK FALSE
