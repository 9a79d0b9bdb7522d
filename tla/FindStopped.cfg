SPECIFICATION Spec
CONSTANTS
    ask = ask
    fetch = fetch
    ann = ann
    Bots = {fetch}
    Gated = {}
    Writes = {}
    Container = {}
    Continue = {fetch}
    Tries = 0
    Relocks = 0
    Stoppers = {ann}
INVARIANT
    StoppedRunFailed
