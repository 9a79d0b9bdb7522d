SPECIFICATION Spec
CONSTANTS
    ask = ask
    fetch = fetch
    ann = ann
    Bots = {ask}
    Gated = {ask}
    Writes = {ask}
    Container = {}
    Continue = {}
    Tries = 0
    Relocks = 0
    Stoppers = {ann}
PROPERTY
    TerminalIsFinal
