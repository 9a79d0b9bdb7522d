SPECIFICATION FairSpec
CONSTANTS
    ask = ask
    fetch = fetch
    ann = ann
    Bots = {fetch}
    Gated = {fetch}
    Writes = {}
    Container = {}
    Continue = {}
    Tries = 1
    Relocks = 0
    Stoppers = {ann}
PROPERTIES
    StopEndsRun
    EveryRunEnds
