SPECIFICATION Spec
CONSTANTS
    ask = ask
    fetch = fetch
    ann = ann
    Bots = {fetch}
    Gated = {}
    Writes = {}
    Container = {}
    Continue = {}
    Tries = 1
    Relocks = 0
    Stoppers = {ann}
PROPERTY
    NoAttemptAfterStop
